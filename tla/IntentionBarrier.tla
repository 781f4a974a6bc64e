-------------------------- MODULE IntentionBarrier --------------------------
(***************************************************************************)
(* The intention barrier of one session (intention.py): a user message       *)
(* starts an update of the session's intention as a task of the event loop,  *)
(* whose model call runs in a thread; the next evaluations wait for it.      *)
(*                                                                          *)
(* A step of a task or of a request ends where the code awaits; what happens *)
(* between two awaits is one action.  A thread is not stopped by the         *)
(* cancellation of its task: it goes on, and its write is guarded in the     *)
(* database.  Updates are numbered in the order of their triggers; the       *)
(* number is the generation token and the time stamp, which never repeat.    *)
(***************************************************************************)
EXTENDS Integers

CONSTANTS
  Request,        \* POST /reasoning calls that resolve their message from the events
  Evaluation,     \* POST /evaluate calls
  Generations,    \* may SOURCE_CONTEXT_GENERATION be "single" (TRUE), another one (FALSE)
  MaxMessages,    \* bound: user messages
  MaxOthers,      \* bound: noted approvals, participation changes, other writes
  MaxUpdates,     \* bound: updates triggered
  MaxAttempts     \* len(_recovery_delays) + 1

ASSUME IntentionAssumption ==
  /\ Generations \subseteq BOOLEAN
  /\ MaxMessages \in Nat /\ MaxOthers \in Nat /\ MaxUpdates \in Nat
  /\ MaxAttempts \in Nat \ {0}

VARIABLES
  single,       \* the configured generation: "single" retries, and guards the state revision
  latest,       \* sessions.latest_user_message_seq, 0 for NULL: the message it names
  eligible,     \* the messages that may change the intention
  rev,          \* sessions.state_revision
  guardrails, mode,   \* sessions.guardrails_enabled and guardrails_revision
  heard,        \* the user message recorded last in the audit log, 0 for none
  intention,    \* the message the stored intention was generated from
  req,          \* the requests: where they are, and the message they resolved
  pending, token, stamp, source,   \* _pending, _generation_tokens,
                \* _last_user_message_time, _source_events; 0 when absent
  started,      \* updates triggered so far
  upd,          \* each update: its task, its thread, its event
  patch,        \* a PATCH that disabled the guardrails has yet to invalidate
  eval,         \* the evaluations: where they are, and the update they wait for
  budget,       \* what clients and other writers may still do
  excused       \* history: no update of the latest trigger is owed any more

row     == <<single, latest, eligible, rev, guardrails, mode, heard, intention>>
entries == <<pending, token, stamp, source>>
vars == <<row, req, entries, started, upd, patch, eval, budget, excused>>

Message == 1..MaxMessages

Update == 1..MaxUpdates

\* seq is source_event_seq (0 for none) and mode the participation revision the
\* trigger saw; text, last and at are what the thread read: the message its
\* prompt is about, the latest message and the state revision.
Job == [task : {"none", "new", "call", "backoff", "yield", "gone"},
        cancelled : BOOLEAN, event : BOOLEAN,
        thread : {"idle", "called", "asked", "fresh", "stored", "nothing", "failed"},
        tries : 0..MaxAttempts, seq : {0} \cup Message, mode : Nat,
        text : {0} \cup Message, last : {0} \cup Message, at : Nat]

NoJob == [task |-> "none", cancelled |-> FALSE, event |-> FALSE, thread |-> "idle",
          tries |-> 0, seq |-> 0, mode |-> 0, text |-> 0, last |-> 0, at |-> 0]

NewJob(s) == [NoJob EXCEPT !.task = "new", !.seq = s, !.mode = mode]

TypeOK ==
  /\ single \in Generations
  /\ latest \in {0} \cup Message /\ eligible \subseteq Message
  /\ rev \in Nat /\ guardrails \in BOOLEAN /\ mode \in Nat
  /\ heard \in {0} \cup Message /\ intention \in {0} \cup Message
  /\ req \in [Request -> [at : {"new", "resolved", "done"}, seq : {0} \cup Message]]
  /\ pending \in {0} \cup Update /\ token \in {0} \cup Update
  /\ stamp \in {0} \cup Update /\ source \in {0} \cup Message
  /\ started \in {0} \cup Update
  /\ upd \in [Update -> Job]
  /\ patch \in BOOLEAN
  /\ eval \in [Evaluation -> [at : {"new", "waiting", "passed", "late"},
                              on : {0} \cup Update]]
  /\ budget \in 0..MaxOthers
  /\ excused \in BOOLEAN

Init ==
  /\ single \in Generations
  /\ latest = 0 /\ eligible = {} /\ rev = 1 /\ guardrails = TRUE /\ mode = 1
  /\ heard = 0 /\ intention = 0
  /\ req = [r \in Request |-> [at |-> "new", seq |-> 0]]
  /\ pending = 0 /\ token = 0 /\ stamp = 0 /\ source = 0
  /\ started = 0
  /\ upd = [u \in Update |-> NoJob]
  /\ patch = FALSE
  /\ eval = [e \in Evaluation |-> [at |-> "new", on |-> 0]]
  /\ budget = MaxOthers
  /\ excused = FALSE

Spend == budget > 0 /\ budget' = budget - 1

-----------------------------------------------------------------------------
(* The dictionaries of the barrier, changed between two awaits. *)

Done(u) == upd[u].task = "gone"

\* The task of the entry is cancelled at its next step; its waiters go on now.
Stopped(u) ==
  IF u = 0 \/ Done(u) THEN upd
  ELSE [upd EXCEPT ![u].cancelled = TRUE, ![u].event = TRUE]

\* invalidate(), which is cancel() and the removal of the time stamp.
Invalidate ==
  /\ upd' = Stopped(pending)
  /\ pending' = 0 /\ token' = 0 /\ stamp' = 0 /\ source' = 0
  /\ excused' = TRUE
  /\ UNCHANGED started

\* The same source event does not restart the update that is under way for it.
Running(s) ==
  single /\ s # 0 /\ source = s /\ pending # 0 /\ ~Done(pending)

Restart(s) ==
  LET u == started + 1
  IN  /\ started < MaxUpdates
      /\ started' = u
      /\ upd' = [Stopped(pending) EXCEPT ![u] = NewJob(s)]
      /\ pending' = u /\ token' = u /\ stamp' = u /\ source' = s
      /\ excused' = FALSE

\* trigger().
Trigger(s) ==
  \/ ~guardrails /\ Invalidate
  \/ guardrails /\ Running(s) /\ UNCHANGED <<entries, started, upd, excused>>
  \/ guardrails /\ ~Running(s) /\ Restart(s)

-----------------------------------------------------------------------------
(* Clients. *)

\* A user message is recorded among the session's events, which moves the state.
Record(able) ==
  /\ latest < MaxMessages
  /\ latest' = latest + 1
  /\ eligible' = IF able THEN eligible \cup {latest + 1} ELSE eligible
  /\ rev' = rev + 1
  /\ UNCHANGED <<single, guardrails, mode, heard, intention, req, entries, started, upd, patch,
                 eval, budget, excused>>

\* resolve_last_user_message, in a thread that the request awaits.
Resolve(r) ==
  /\ req[r].at = "new" /\ latest # 0
  /\ req' = [req EXCEPT ![r] = [at |-> "resolved", seq |-> latest]]
  /\ UNCHANGED <<row, entries, started, upd, patch, eval, budget, excused>>

\* The rest of the request: a message that was recorded last is not recorded
\* again; an eligible one triggers an update, any other revokes the one under way.
Reason(r) ==
  LET s == req[r].seq
  IN  /\ req[r].at = "resolved"
      /\ req' = [req EXCEPT ![r].at = "done"]
      /\ \/ heard = s /\ UNCHANGED <<heard, entries, started, upd, excused>>
         \/ heard # s /\ s \in eligible /\ heard' = s /\ Trigger(s)
         \/ heard # s /\ s \notin eligible /\ heard' = s /\ Invalidate
      /\ UNCHANGED <<single, latest, eligible, rev, guardrails, mode, intention, patch, eval, budget>>

\* A human approves an escalation with a note: the resolution moves the state.
Note ==
  /\ Spend
  /\ rev' = rev + 1
  /\ Trigger(0)
  /\ UNCHANGED <<single, latest, eligible, guardrails, mode, heard, intention, req, patch, eval>>

\* PATCH guardrails_enabled, in a thread; a handler that disabled them
\* invalidates when it resumes.
Toggle ==
  /\ ~patch
  /\ Spend
  /\ guardrails' = ~guardrails /\ mode' = mode + 1 /\ rev' = rev + 1
  /\ patch' = guardrails
  /\ excused' = TRUE
  /\ UNCHANGED <<single, latest, eligible, heard, intention, req, entries, started, upd, eval>>

Forget ==
  /\ patch
  /\ patch' = FALSE
  /\ Invalidate
  /\ UNCHANGED <<row, req, eval, budget>>

\* Any other writer of the session that moves its state revision.
Write ==
  /\ Spend
  /\ rev' = rev + 1
  /\ UNCHANGED <<single, latest, eligible, guardrails, mode, heard, intention, req, entries,
                 started, upd, patch, eval, excused>>

-----------------------------------------------------------------------------
(* The thread of an update: generate_intention. *)

ThreadOnly == UNCHANGED <<req, entries, started, patch, eval, budget>>

\* The participation fence and the session are read, then the audit log: no
\* evidence, participation that changed since the trigger, or evidence that
\* changed since a failed attempt, ends it.
Read(u) ==
  LET ok == /\ guardrails /\ upd[u].mode = mode
            /\ heard # 0 \/ upd[u].seq = 0
            /\ upd[u].tries > 1 => heard = upd[u].text
  IN  /\ upd[u].thread = "called"
      /\ upd' = [upd EXCEPT ![u].thread = IF ok THEN "asked" ELSE "nothing",
                            ![u].text = IF ok THEN heard ELSE @,
                            ![u].last = IF ok THEN latest ELSE @,
                            ![u].at = IF ok THEN rev ELSE @]
      /\ UNCHANGED <<row, excused>>
      /\ ThreadOnly

Fresh(u) == token = u

\* The model answers, and the answer is used only if no later trigger or
\* invalidation came.
Answer(u) ==
  /\ upd[u].thread = "asked"
  /\ upd' = [upd EXCEPT ![u].thread = IF Fresh(u) THEN "fresh" ELSE "nothing"]
  /\ UNCHANGED <<row, excused>>
  /\ ThreadOnly

\* The call fails, or its output is unusable.
Failed(u) ==
  /\ upd[u].thread = "asked"
  /\ \E end \in IF single THEN {"nothing", "failed"} ELSE {"nothing"} :
       /\ upd' = [upd EXCEPT ![u].thread = end]
       /\ excused' = (excused \/ (u = started /\ end = "nothing"))
  /\ UNCHANGED row
  /\ ThreadOnly

\* The message an update may overwrite the intention for.
Expected(u) == IF upd[u].seq = 0 THEN upd[u].last ELSE upd[u].seq

\* Mutant: no check that the message is still the latest.
GuardModeOnly(u) == guardrails /\ mode = upd[u].mode

\* The WHERE clause of update_generated_intention.
Guard(u) ==
  /\ guardrails /\ mode = upd[u].mode
  /\ latest = Expected(u)
  /\ single => rev = upd[u].at

Store(u) ==
  /\ upd[u].thread = "fresh"
  /\ \/ /\ Guard(u)
        /\ intention' = upd[u].text /\ rev' = rev + 1
        /\ upd' = [upd EXCEPT ![u].thread = "stored"]
        /\ UNCHANGED excused
     \/ /\ ~Guard(u)
        /\ upd' = [upd EXCEPT ![u].thread = "nothing"]
        /\ excused' = (excused \/ (u = started /\ latest = Expected(u)))
        /\ UNCHANGED <<intention, rev>>
  /\ UNCHANGED <<single, latest, eligible, guardrails, mode, heard>>
  /\ ThreadOnly

-----------------------------------------------------------------------------
(* The task of an update: _run. *)

TaskOnly == UNCHANGED <<row, req, started, patch, eval, budget>>

\* A task cancelled before its first step never runs.
Start(u) ==
  /\ upd[u].task = "new"
  /\ upd' = [upd EXCEPT ![u].task = IF upd[u].cancelled THEN "gone" ELSE "call",
                        ![u].thread = IF upd[u].cancelled THEN "idle" ELSE "called",
                        ![u].tries = 1]
  /\ UNCHANGED <<entries, excused>>
  /\ TaskOnly

Ended(u) == [upd EXCEPT ![u].task = "yield", ![u].event = TRUE, ![u].cancelled = FALSE]

\* The thread returned, with or without a result, and the task resumes.
Finish(u) ==
  /\ upd[u].task = "call" /\ ~upd[u].cancelled
  /\ upd[u].thread \in {"stored", "nothing"}
  /\ upd' = Ended(u)
  /\ UNCHANGED <<entries, excused>>
  /\ TaskOnly

\* A recoverable failure is retried after a pause, until the attempts are used up.
Retry(u) ==
  /\ upd[u].task = "call" /\ ~upd[u].cancelled
  /\ upd[u].thread = "failed"
  /\ upd' = IF upd[u].tries = MaxAttempts THEN Ended(u)
            ELSE [upd EXCEPT ![u].task = "backoff"]
  /\ excused' = (excused \/ (u = started /\ upd[u].tries = MaxAttempts))
  /\ UNCHANGED entries
  /\ TaskOnly

\* Mutant: the attempt is not counted.
AgainUncounted(u) ==
  /\ upd[u].task = "backoff" /\ ~upd[u].cancelled
  /\ upd' = IF Fresh(u) THEN [upd EXCEPT ![u].task = "call", ![u].thread = "called"]
            ELSE Ended(u)
  /\ UNCHANGED <<entries, excused>>
  /\ TaskOnly

Again(u) ==
  /\ upd[u].task = "backoff" /\ ~upd[u].cancelled
  /\ upd' = IF Fresh(u) THEN [upd EXCEPT ![u].task = "call", ![u].thread = "called",
                                         ![u].tries = @ + 1]
            ELSE Ended(u)
  /\ UNCHANGED <<entries, excused>>
  /\ TaskOnly

\* CancelledError reaches a task that awaits its thread or sleeps.
Abort(u) ==
  /\ upd[u].task \in {"call", "backoff"} /\ upd[u].cancelled
  /\ upd' = Ended(u)
  /\ UNCHANGED <<entries, excused>>
  /\ TaskOnly

\* Mutants: a task removes whatever is there, or only after it stored.
MineAlways(entry, u) == TRUE
MineIfStored(entry, u) == entry = u /\ upd[u].thread = "stored"

Mine(entry, u) == entry = u

\* After sleep(0) a task removes what is still its own.
CleanUp(u) ==
  /\ upd[u].task = "yield" /\ ~upd[u].cancelled
  /\ upd' = [upd EXCEPT ![u].task = "gone"]
  /\ pending' = IF Mine(pending, u) THEN 0 ELSE pending
  /\ source' = IF Mine(pending, u) THEN 0 ELSE source
  /\ stamp' = IF Mine(stamp, u) THEN 0 ELSE stamp
  /\ token' = IF Mine(token, u) THEN 0 ELSE token
  /\ UNCHANGED excused
  /\ TaskOnly

\* Cancelled in that sleep, it removes nothing.
DropCleanUp(u) ==
  /\ upd[u].task = "yield" /\ upd[u].cancelled
  /\ upd' = [upd EXCEPT ![u].task = "gone"]
  /\ UNCHANGED <<entries, excused>>
  /\ TaskOnly

-----------------------------------------------------------------------------
(* Evaluations: wait(). *)

EvalOnly == UNCHANGED <<row, req, patch, budget>>

Unsettled == \E u \in Update : pending = u /\ ~upd[u].event

\* Without participation, the update is revoked; without an entry, or once its
\* event is set, nothing is waited for.  (An entry is missing only when its time
\* stamp is: EntriesAgree.  wait() would otherwise await a trigger.)
Enter(e) ==
  /\ eval[e].at = "new"
  /\ \/ /\ ~guardrails
        /\ Invalidate
        /\ eval' = [eval EXCEPT ![e].at = "passed"]
     \/ /\ guardrails /\ ~Unsettled
        /\ eval' = [eval EXCEPT ![e].at = "passed"]
        /\ UNCHANGED <<entries, started, upd, excused>>
     \/ /\ guardrails /\ Unsettled
        /\ eval' = [eval EXCEPT ![e] = [at |-> "waiting", on |-> pending]]
        /\ UNCHANGED <<entries, started, upd, excused>>
  /\ EvalOnly

Released(e) ==
  /\ eval[e].at = "waiting" /\ upd[eval[e].on].event
  /\ eval' = [eval EXCEPT ![e].at = "passed"]
  /\ UNCHANGED <<entries, started, upd, excused>>
  /\ EvalOnly

TimesOut(e) ==
  /\ eval[e].at = "waiting"
  /\ eval' = [eval EXCEPT ![e].at = "late"]
  /\ UNCHANGED <<entries, started, upd, excused>>
  /\ EvalOnly

-----------------------------------------------------------------------------
Thread(u) == Read(u) \/ Answer(u) \/ Failed(u) \/ Store(u)

Run(u) == Start(u) \/ Finish(u) \/ Retry(u) \/ Again(u) \/ Abort(u) \/ CleanUp(u)
           \/ DropCleanUp(u)

Clients ==
  \/ \E able \in BOOLEAN : Record(able)
  \/ \E r \in Request : Resolve(r) \/ Reason(r)
  \/ Note \/ Toggle \/ Forget \/ Write

Next ==
  \/ Clients
  \/ \E u \in 1..started : Thread(u) \/ Run(u)
  \/ \E e \in Evaluation : Enter(e) \/ Released(e) \/ TimesOut(e)

Spec == Init /\ [][Next]_vars

\* The event loop and the executor go on, and a model call has a timeout.  No
\* wait is assumed to time out, and nothing is assumed of clients.
Fairness ==
  /\ \A u \in Update : WF_vars(Thread(u)) /\ WF_vars(Run(u))
  /\ \A e \in Evaluation : WF_vars(Released(e))

-----------------------------------------------------------------------------
Live(u) == upd[u].task \in {"new", "call", "backoff"} /\ ~upd[u].cancelled

Idle(u) == /\ upd[u].task \in {"none", "gone"}
           /\ upd[u].thread \in {"idle", "stored", "nothing", "failed"}

\* The three dictionaries of a session always name the same update, however
\* triggers, invalidations and the clean-up of earlier tasks fall.
EntriesAgree ==
  /\ pending = token /\ token = stamp
  /\ source # 0 => pending # 0

\* An update that is under way and was not superseded is the one the next
\* evaluation waits for: a superseded task's clean-up never lets a call pass it.
CurrentIsAwaited ==
  \A u \in Update : Live(u) => pending = u /\ ~upd[u].event

\* Once no task is left the barrier is empty: no later call waits for nothing.
NothingLeft ==
  (\A u \in Update : upd[u].task \in {"none", "gone"}) => pending = 0 /\ source = 0

\* An intention never gives way to one of an earlier message, although the
\* threads of superseded updates go on: except by the update of a decision, and in
\* the single generation only where requests recorded the messages out of order.
NewestWins ==
  [][intention' < intention =>
       \E u \in Update : /\ upd[u].thread = "fresh" /\ upd'[u].thread = "stored"
                         /\ upd[u].seq = 0
                         /\ single => upd[u].text < upd[u].last]_vars

\* When all is done, the intention is of the latest message: unless its update
\* failed, was refused or was revoked, or an older message triggered later.
LatestReflected ==
  (/\ \A u \in Update : Idle(u)
   /\ started # 0 /\ ~excused
   /\ single \/ \A u \in 1..started : upd[u].seq # 0
   /\ heard = latest /\ latest \in eligible
   /\ upd[started].seq \in {0, latest})
  => intention = latest

\* What the class documents: the evaluator always sees the latest user intent
\* (once its update had its time, and nothing failed or was revoked).
LatestIntentSeen ==
  (/\ \A u \in Update : Idle(u)
   /\ \A r \in Request : req[r].at = "done"
   /\ \E r \in Request : req[r].seq = latest
   /\ started # 0 /\ ~excused /\ budget = MaxOthers
   /\ latest \in eligible)
  => intention = latest

\* Every update ends.
UpdatesEnd == \A u \in Update : upd[u].task = "new" ~> upd[u].task = "gone"
=============================================================================
