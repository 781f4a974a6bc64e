----------------------------- MODULE TaskQueue -----------------------------
(***************************************************************************)
(* The durable analysis queue (background.py, TaskQueue), the workers that  *)
(* execute its rows (background.py, BackgroundWorker._worker_loop), and the *)
(* participation fences that decide whether what they derive may be stored  *)
(* (session_modes.py, SessionStore.update_session).                         *)
(*                                                                          *)
(* One action is one database transaction, or one step of a worker between  *)
(* two transactions.  Time is abstracted to two facts about a row: it is    *)
(* due (next_attempt_at has passed) and its lease is stale (no heartbeat    *)
(* for ten minutes).  A claim_token, a fresh uuid in the code, is the       *)
(* number of claims made so far: what matters is that it never repeats.     *)
(***************************************************************************)
EXTENDS Naturals, FiniteSets

CONSTANTS
  Task,          \* task identifiers, one per row ever inserted
  Session,       \* sessions of one tenant
  Worker,        \* worker loops, over all processes that share the database
  KindOf,        \* the task_type of each row
  SessionOf,     \* the session of a row; NoSession for an analysis
  ScopeOf,       \* the (user, agent) scope of a row
  PriorityOf,    \* the priority of a row
  Descendants,      \* the sessions below a session, at any depth
  RootScope,     \* the (user, agent) scope of a session
  NoSession, NoTask,
  MaxRetries,    \* max_retries of every row, 3 in the code
  MaxClaims,     \* bound: claims made in a behaviour
  MaxRevision,   \* bound: the last revision of each mode of each session
  Talkers,       \* bound: the sessions that receive user messages
  MaxFaults      \* bound: crashes, dead heartbeats, stalled heartbeats

Kind   == {"summary", "analysis", "intention_update"}
Field  == {"analytics", "guardrails"}
Status == {"absent", "pending", "running", "completed", "failed",
           "cancelled", "deleted"}
Source == {"initial", "bootstrap", "user"}

ASSUME ConstantsAssumption ==
  /\ NoSession \notin Session
  /\ NoTask \notin Task
  /\ KindOf \in [Task -> Kind]
  /\ SessionOf \in [Task -> Session \cup {NoSession}]
  /\ \A t \in Task : SessionOf[t] = NoSession <=> KindOf[t] = "analysis"
  /\ PriorityOf \in [Task -> Nat]
  /\ Descendants \in [Session -> SUBSET Session]
  /\ \A s \in Session : s \notin Descendants[s]
  /\ \A s \in Session : \A d \in Descendants[s] : Descendants[d] \subseteq Descendants[s]
  /\ MaxRetries \in Nat \ {0}
  /\ MaxClaims \in Nat /\ MaxFaults \in Nat
  /\ MaxRevision \in [Field -> [Session -> Nat]]
  /\ Talkers \in SUBSET Session

VARIABLES
  status,      \* status of each row
  retries,     \* retry_count
  due,         \* next_attempt_at has passed
  stale,       \* the running row's heartbeat_at is ten minutes old
  token,       \* claim_token; 0 is NULL
  stamp,       \* the participation revision enqueue put in the payload
  enabled,     \* mode, session -> analytics_enabled, guardrails_enabled
  revision,    \* mode, session -> analytics_revision, guardrails_revision
  observed,    \* user_message_observed
  source,      \* intention_source
  pc,          \* where each worker loop is
  job,         \* the row it claimed
  ticket,      \* the claim_token the claim returned
  snap,        \* AnalyticsScope.sessions: revisions at the start of the task
  watched,     \* AnalyticsScope.watched
  used,        \* the watched sessions that were enabled in the snapshot
  scoped,      \* the result carries its scope (AnalyticsResult)
  beating,     \* the _task_heartbeat_loop of the claim is alive
  claims,      \* claims made so far
  faults,      \* faults injected so far
  lastWrite,   \* history: claim of the last derived write of each row
  credit,      \* history: claim whose complete() or fail() ended each row
  bootstraps   \* history: bootstrap intentions stored for each session

rowVars     == <<status, retries, due, stale, token, stamp>>
sessionVars == <<enabled, revision, observed, source>>
scopeVars   == <<snap, watched, used, scoped>>
workerVars  == <<pc, job, ticket, beating, scopeVars>>
historyVars == <<lastWrite, credit, bootstraps>>
vars == <<rowVars, sessionVars, workerVars, claims, faults, historyVars>>

Live  == {"pending", "running"}
Final == {"completed", "failed", "cancelled", "deleted"}

\* The participation mode that governs a session's row.
FieldOf(t) == IF KindOf[t] = "summary" THEN "analytics" ELSE "guardrails"
TaskOf(f)  == IF f = "analytics" THEN "summary" ELSE "intention_update"

Bounded(t) == SessionOf[t] # NoSession

TypeOK ==
  /\ status \in [Task -> Status]
  /\ retries \in [Task -> 0..MaxRetries]
  /\ due \in [Task -> BOOLEAN]
  /\ stale \in [Task -> BOOLEAN]
  /\ token \in [Task -> Nat]
  /\ stamp \in [Task -> Nat]
  /\ enabled \in [Field -> [Session -> BOOLEAN]]
  /\ revision \in [Field -> [Session -> Nat]]
  /\ observed \in [Session -> BOOLEAN]
  /\ source \in [Session -> Source]
  /\ pc \in [Worker -> {"idle", "claimed", "running", "done", "error"}]
  /\ job \in [Worker -> Task \cup {NoTask}]
  /\ ticket \in [Worker -> Nat]
  /\ snap \in [Worker -> [Session -> Nat]]
  /\ watched \in [Worker -> SUBSET Session]
  /\ used \in [Worker -> SUBSET Session]
  /\ scoped \in [Worker -> BOOLEAN]
  /\ beating \in [Worker -> BOOLEAN]
  /\ claims \in Nat
  /\ faults \in Nat
  /\ lastWrite \in [Task -> Nat]
  /\ credit \in [Task -> Nat]
  /\ bootstraps \in [Session -> Nat]

\* Sessions start with both modes on, before any user message.
Init ==
  /\ status = [t \in Task |-> "absent"]
  /\ retries = [t \in Task |-> 0]
  /\ due = [t \in Task |-> FALSE]
  /\ stale = [t \in Task |-> FALSE]
  /\ token = [t \in Task |-> 0]
  /\ stamp = [t \in Task |-> 0]
  /\ enabled = [f \in Field |-> [s \in Session |-> TRUE]]
  /\ revision = [f \in Field |-> [s \in Session |-> 1]]
  /\ observed = [s \in Session |-> FALSE]
  /\ source = [s \in Session |-> "initial"]
  /\ pc = [w \in Worker |-> "idle"]
  /\ job = [w \in Worker |-> NoTask]
  /\ ticket = [w \in Worker |-> 0]
  /\ snap = [w \in Worker |-> [s \in Session |-> 0]]
  /\ watched = [w \in Worker |-> {}]
  /\ used = [w \in Worker |-> {}]
  /\ scoped = [w \in Worker |-> FALSE]
  /\ beating = [w \in Worker |-> FALSE]
  /\ claims = 0
  /\ faults = 0
  /\ lastWrite = [t \in Task |-> 0]
  /\ credit = [t \in Task |-> 0]
  /\ bootstraps = [s \in Session |-> 0]
-----------------------------------------------------------------------------
(* Producers                                                                *)

Insert(t, d, r) ==
  /\ status' = [status EXCEPT ![t] = "pending"]
  /\ due' = [due EXCEPT ![t] = d]
  /\ stamp' = [stamp EXCEPT ![t] = r]
  /\ UNCHANGED <<retries, stale, token>>

\* TaskQueue.enqueue: a session's row is admitted only while its mode is on,
\* and carries the revision read under the session's lock.  A parent waiting
\* for its children is inserted with a future next_attempt_at.
Enqueue(t) ==
  /\ status[t] = "absent"
  /\ KindOf[t] \in {"summary", "analysis"}
  /\ Bounded(t) => enabled[FieldOf(t)][SessionOf[t]]
  /\ \E d \in BOOLEAN :
       Insert(t, d, IF Bounded(t) THEN revision[FieldOf(t)][SessionOf[t]] ELSE 0)
  /\ UNCHANGED <<sessionVars, workerVars, claims, faults, historyVars>>

LiveBootstraps(s) ==
  {t \in Task : /\ KindOf[t] = "intention_update"
                /\ SessionOf[t] = s
                /\ status[t] \in Live}

\* The duplicate check inside the conditional INSERT.
NoLiveBootstrap(s) == LiveBootstraps(s) = {}

\* TaskQueue.enqueue_bootstrap_if_no_user_message: one conditional INSERT.
EnqueueBootstrap(t) ==
  LET s == SessionOf[t] IN
  /\ status[t] = "absent"
  /\ KindOf[t] = "intention_update"
  /\ ~observed[s]
  /\ enabled["guardrails"][s]
  /\ source[s] = "initial"
  /\ NoLiveBootstrap(s)
  /\ Insert(t, TRUE, revision["guardrails"][s])
  /\ UNCHANGED <<sessionVars, workerVars, claims, faults, historyVars>>

\* Fault: an opt-out that spares the row a worker is executing.
RevokedWaiting(f, s) ==
  {t \in Task : KindOf[t] = TaskOf(f) /\ SessionOf[t] = s /\ status[t] = "pending"}

\* The rows that update_session revokes with an opt-out.
Revoked(f, s) ==
  {t \in Task : KindOf[t] = TaskOf(f) /\ SessionOf[t] = s /\ status[t] \in Live}

\* SessionStore.update_session with analytics_enabled or guardrails_enabled:
\* the revision moves only when the value does, and an opt-out cancels the
\* session's live rows in the same transaction.
SetParticipation(f, s) ==
  /\ revision[f][s] < MaxRevision[f][s]
  /\ enabled' = [enabled EXCEPT ![f][s] = ~@]
  /\ revision' = [revision EXCEPT ![f][s] = @ + 1]
  /\ LET gone == IF enabled[f][s] THEN Revoked(f, s) ELSE {} IN
       /\ status' = [t \in Task |-> IF t \in gone THEN "cancelled" ELSE status[t]]
       /\ token' = [t \in Task |-> IF t \in gone THEN 0 ELSE token[t]]
  /\ UNCHANGED <<retries, due, stale, stamp, observed, source, workerVars,
                 claims, faults, historyVars>>

\* SessionStore.mark_user_message_observed and the user-message branches of
\* allocate_event_sequences.
UserMessage(s) ==
  /\ s \in Talkers /\ ~observed[s]
  /\ observed' = [observed EXCEPT ![s] = TRUE]
  /\ UNCHANGED <<rowVars, enabled, revision, source, workerVars, claims,
                 faults, historyVars>>

\* update_generated_intention called by the IntentionBarrier for a message.
StoreUserIntention(s) ==
  /\ observed[s] /\ enabled["guardrails"][s]
  /\ source' = [source EXCEPT ![s] = "user"]
  /\ UNCHANGED <<rowVars, enabled, revision, observed, workerVars, claims,
                 faults, historyVars>>
-----------------------------------------------------------------------------
(* The queue's own transitions                                              *)

\* A summary of the same scope that is running, or pending and due, holds an
\* analysis back.
Blocked(t) ==
  /\ KindOf[t] = "analysis"
  /\ \E u \in Task : /\ KindOf[u] = "summary"
                     /\ ScopeOf[u] = ScopeOf[t]
                     /\ \/ status[u] = "running"
                        \/ status[u] = "pending" /\ due[u]

Claimable(t) == status[t] = "pending" /\ due[t] /\ ~Blocked(t)

\* Rows of equal priority are ordered by next_attempt_at, which the model
\* leaves open.
First(t) == \A u \in Task : Claimable(u) => PriorityOf[u] <= PriorityOf[t]

\* TaskQueue.claim_next and the start of the heartbeat loop.
Claim(w, t) ==
  /\ pc[w] = "idle"
  /\ claims < MaxClaims
  /\ Claimable(t) /\ First(t)
  /\ claims' = claims + 1
  /\ status' = [status EXCEPT ![t] = "running"]
  /\ token' = [token EXCEPT ![t] = claims + 1]
  /\ stale' = [stale EXCEPT ![t] = FALSE]
  /\ pc' = [pc EXCEPT ![w] = "claimed"]
  /\ job' = [job EXCEPT ![w] = t]
  /\ ticket' = [ticket EXCEPT ![w] = claims + 1]
  /\ beating' = [beating EXCEPT ![w] = TRUE]
  /\ UNCHANGED <<retries, due, stamp, sessionVars, scopeVars, faults,
                 historyVars>>

\* Fault: a claim is recognised by the row's status alone.
OwnsByStatus(w) == job[w] # NoTask /\ status[job[w]] = "running"

\* The compare-and-set every later transition of a row is conditioned on.
Owns(w) ==
  /\ job[w] # NoTask
  /\ status[job[w]] = "running"
  /\ token[job[w]] = ticket[w]

\* The worker forgets the claim: the loop turns, or the process restarts.
Release(w) ==
  /\ pc' = [pc EXCEPT ![w] = "idle"]
  /\ job' = [job EXCEPT ![w] = NoTask]
  /\ ticket' = [ticket EXCEPT ![w] = 0]
  /\ beating' = [beating EXCEPT ![w] = FALSE]
  /\ snap' = [snap EXCEPT ![w] = [s \in Session |-> 0]]
  /\ watched' = [watched EXCEPT ![w] = {}]
  /\ used' = [used EXCEPT ![w] = {}]
  /\ scoped' = [scoped EXCEPT ![w] = FALSE]

\* AnalyticsScope.validate: no watched session changed its participation.
Unchanged(w) ==
  \A s \in watched[w] : revision["analytics"][s] = snap[w][s]

\* Fault: the write fence forgets the claim.
ScopeValidUnclaimed(w) == Unchanged(w)

\* ... and, within the task, the claim still stands.
ScopeValid(w) == Unchanged(w) /\ Owns(w)

\* TaskQueue.complete: the result of a scope that no longer stands cancels
\* the row, and a claim that was lost changes nothing.
Complete(w) ==
  LET t == job[w]
      accepted == scoped[w] => Unchanged(w)
  IN
  /\ pc[w] = "done"
  /\ IF Owns(w)
       THEN /\ status' = [status EXCEPT ![t] = IF accepted THEN "completed"
                                               ELSE "cancelled"]
            /\ token' = [token EXCEPT ![t] = IF accepted THEN @ ELSE 0]
            /\ credit' = [credit EXCEPT ![t] = IF accepted THEN ticket[w] ELSE @]
       ELSE UNCHANGED <<status, token, credit>>
  /\ Release(w)
  /\ UNCHANGED <<retries, due, stale, stamp, sessionVars, claims, faults,
                 lastWrite, bootstraps>>

\* Fault: the retry count is compared before it is incremented.
LastAttemptLate(t) == retries[t] >= MaxRetries

LastAttempt(t) == retries[t] + 1 >= MaxRetries

\* TaskQueue.fail: the last retry ends the row, any other returns it with a
\* back-off.
Fail(w) ==
  LET t == job[w]
      last == LastAttempt(t)
  IN
  /\ pc[w] = "error"
  /\ IF Owns(w)
       THEN /\ status' = [status EXCEPT ![t] = IF last THEN "failed" ELSE "pending"]
            /\ retries' = [retries EXCEPT ![t] = @ + 1]
            /\ due' = [due EXCEPT ![t] = IF last THEN @ ELSE FALSE]
            /\ token' = [token EXCEPT ![t] = IF last THEN @ ELSE 0]
            /\ credit' = [credit EXCEPT ![t] = IF last THEN ticket[w] ELSE @]
       ELSE UNCHANGED <<status, retries, due, token, credit>>
  /\ Release(w)
  /\ UNCHANGED <<stale, stamp, sessionVars, claims, faults, lastWrite,
                 bootstraps>>

\* TaskQueue.touch_heartbeat, every minute; a lost claim ends the loop.
Heartbeat(w) ==
  /\ beating[w]
  /\ IF Owns(w)
       THEN stale' = [stale EXCEPT ![job[w]] = FALSE] /\ UNCHANGED beating
       ELSE beating' = [beating EXCEPT ![w] = FALSE] /\ UNCHANGED stale
  /\ UNCHANGED <<status, retries, due, token, stamp, sessionVars, pc, job,
                 ticket, scopeVars, claims, faults, historyVars>>

\* Faults: recovery ignores the status, or needs an earlier failure.
StaleRows == {t \in Task : stale[t]}
StaleRetried == {t \in Task : status[t] = "running" /\ stale[t] /\ retries[t] > 0}

\* The rows whose last heartbeat is ten minutes old.
LostRows == {t \in Task : status[t] = "running" /\ stale[t]}

\* TaskQueue.reset_stale_running: every stale row at once; no retry is spent.
ResetStale ==
  LET lost == LostRows IN
  /\ lost # {}
  /\ status' = [t \in Task |-> IF t \in lost THEN "pending" ELSE status[t]]
  /\ due' = [t \in Task |-> IF t \in lost THEN TRUE ELSE due[t]]
  /\ token' = [t \in Task |-> IF t \in lost THEN 0 ELSE token[t]]
  /\ stale' = [t \in Task |-> IF t \in lost THEN FALSE ELSE stale[t]]
  /\ UNCHANGED <<retries, stamp, sessionVars, workerVars, claims, faults,
                 historyVars>>

\* TaskQueue.cleanup_old_tasks, after the retention period; a cancelled row
\* is never removed.
Cleanup(t) ==
  /\ status[t] \in {"completed", "failed"}
  /\ status' = [status EXCEPT ![t] = "deleted"]
  /\ UNCHANGED <<retries, due, stale, token, stamp, sessionVars, workerVars,
                 claims, faults, historyVars>>
-----------------------------------------------------------------------------
(* Execution of a claimed row                                               *)

\* The snapshot of AnalyticsScope, restricted to the sessions it will watch.
TakeSnapshot(w, W) ==
  /\ snap' = [snap EXCEPT ![w] =
                [s \in Session |-> IF s \in W THEN revision["analytics"][s] ELSE 0]]
  /\ watched' = [watched EXCEPT ![w] = W]
  /\ used' = [used EXCEPT ![w] = {s \in W : enabled["analytics"][s]}]

\* Fault: a session is watched without its descendants.
LineageAlone(s) == {s}

\* AnalyticsScope.include.
Lineage(s) == {s} \cup Descendants[s]

\* analytics_task for a summary: the own session must be on, at the stamped
\* revision; it and its descendants are watched.  Otherwise the task returns
\* a plain skip, without a scope.
BeginSummary(w) ==
  LET t == job[w]
      s == SessionOf[t]
  IN
  /\ pc[w] = "claimed" /\ KindOf[t] = "summary"
  /\ IF enabled["analytics"][s] /\ revision["analytics"][s] = stamp[t]
       THEN /\ TakeSnapshot(w, Lineage(s))
            /\ scoped' = [scoped EXCEPT ![w] = TRUE]
            /\ pc' = [pc EXCEPT ![w] = "running"]
       ELSE /\ pc' = [pc EXCEPT ![w] = "done"]
            /\ UNCHANGED scopeVars
  /\ UNCHANGED <<rowVars, sessionVars, job, ticket, beating, claims, faults,
                 historyVars>>

\* analytics_task for an analysis: root sessions of the scope, enabled in the
\* snapshot, whose usable summaries are the input; fewer than two are skipped.
BeginAnalysis(w) ==
  LET t == job[w] IN
  /\ pc[w] = "claimed" /\ KindOf[t] = "analysis"
  /\ \E chosen \in SUBSET {s \in Session : RootScope[s] = ScopeOf[t]
                                           /\ enabled["analytics"][s]} :
       /\ TakeSnapshot(w, UNION {Lineage(s) : s \in chosen})
       /\ pc' = [pc EXCEPT ![w] = IF Cardinality(chosen) < 2 THEN "done"
                                  ELSE "running"]
  /\ scoped' = [scoped EXCEPT ![w] = TRUE]
  /\ UNCHANGED <<rowVars, sessionVars, job, ticket, beating, claims, faults,
                 historyVars>>

\* _execute_intention_update_task up to generate_intention.
BeginIntention(w) ==
  LET t == job[w]
      s == SessionOf[t]
  IN
  /\ pc[w] = "claimed" /\ KindOf[t] = "intention_update"
  /\ pc' = [pc EXCEPT ![w] =
              IF /\ ~observed[s]
                 /\ enabled["guardrails"][s]
                 /\ revision["guardrails"][s] = stamp[t]
                THEN "running" ELSE "done"]
  /\ UNCHANGED <<rowVars, sessionVars, job, ticket, beating, scopeVars, claims,
                 faults, historyVars>>

Analytic(w) == job[w] # NoTask /\ KindOf[job[w]] # "intention_update"

\* analytics_write: one derived row (a window, a compaction, an analysis, a
\* profile), stored in the transaction that validates the scope.
WriteDerived(w) ==
  /\ pc[w] = "running" /\ Analytic(w)
  /\ ScopeValid(w)
  /\ lastWrite' = [lastWrite EXCEPT ![job[w]] = ticket[w]]
  /\ UNCHANGED <<rowVars, sessionVars, workerVars, claims, faults, credit,
                 bootstraps>>

\* Faults: the durable guard forgets the source, or the user's message.
MessageFree(s) == ~observed[s]
StillInitial(s) == source[s] = "initial"

\* require_no_user_message in update_generated_intention.
Unguided(s) == ~observed[s] /\ source[s] = "initial"

\* update_generated_intention for the bootstrap: conditioned on the session,
\* not on the claim.
WriteIntention(w) ==
  LET s == SessionOf[job[w]] IN
  /\ pc[w] = "running" /\ ~Analytic(w)
  /\ enabled["guardrails"][s]
  /\ revision["guardrails"][s] = stamp[job[w]]
  /\ Unguided(s)
  /\ source' = [source EXCEPT ![s] = "bootstrap"]
  /\ bootstraps' = [bootstraps EXCEPT ![s] = @ + 1]
  /\ pc' = [pc EXCEPT ![w] = "done"]
  /\ UNCHANGED <<rowVars, enabled, revision, observed, job, ticket, beating,
                 scopeVars, claims, faults, lastWrite, credit>>

\* The task function returns; an analytic result passes one more check.
Finish(w) ==
  /\ pc[w] = "running"
  /\ Analytic(w) => ScopeValid(w)
  /\ pc' = [pc EXCEPT ![w] = "done"]
  /\ UNCHANGED <<rowVars, sessionVars, job, ticket, beating, scopeVars, claims,
                 faults, historyVars>>

\* ParticipationRevoked inside the task, or in the re-check of
\* _execute_summary_task: the result becomes a plain skip without a scope.
Skip(w) ==
  /\ Analytic(w) /\ scoped[w] /\ ~ScopeValid(w)
  /\ \/ pc[w] = "running"
     \/ pc[w] = "done" /\ KindOf[job[w]] = "summary"
  /\ pc' = [pc EXCEPT ![w] = "done"]
  /\ scoped' = [scoped EXCEPT ![w] = FALSE]
  /\ UNCHANGED <<rowVars, sessionVars, job, ticket, beating, snap, watched, used,
                 claims, faults, historyVars>>

\* An exception, an error result or a missing LLM client.
Break(w) ==
  /\ pc[w] \in {"claimed", "running"}
  /\ pc' = [pc EXCEPT ![w] = "error"]
  /\ UNCHANGED <<rowVars, sessionVars, job, ticket, beating, scopeVars, claims,
                 faults, historyVars>>
-----------------------------------------------------------------------------
(* Time and faults                                                          *)

\* next_attempt_at passes.
BecomeDue(t) ==
  /\ status[t] = "pending" /\ ~due[t]
  /\ due' = [due EXCEPT ![t] = TRUE]
  /\ UNCHANGED <<status, retries, stale, token, stamp, sessionVars, workerVars,
                 claims, faults, historyVars>>

Tended(t) == \E w \in Worker : beating[w] /\ job[w] = t /\ Owns(w)

\* Ten minutes pass without a heartbeat; with the loop alive this takes a
\* stalled event loop or database, which is a fault.
LeaseAge(t) ==
  /\ status[t] = "running" /\ ~stale[t]
  /\ IF Tended(t) THEN faults < MaxFaults /\ faults' = faults + 1
                  ELSE UNCHANGED faults
  /\ stale' = [stale EXCEPT ![t] = TRUE]
  /\ UNCHANGED <<status, retries, due, token, stamp, sessionVars, workerVars,
                 claims, historyVars>>

\* A database error ends the heartbeat loop while the task goes on.
HeartbeatDies(w) ==
  /\ beating[w] /\ faults < MaxFaults
  /\ faults' = faults + 1
  /\ beating' = [beating EXCEPT ![w] = FALSE]
  /\ UNCHANGED <<rowVars, sessionVars, pc, job, ticket, scopeVars, claims,
                 historyVars>>

\* The process stops: the claim is forgotten, the row stays running.
Crash(w) ==
  /\ pc[w] # "idle" /\ faults < MaxFaults
  /\ faults' = faults + 1
  /\ Release(w)
  /\ UNCHANGED <<rowVars, sessionVars, claims, historyVars>>
-----------------------------------------------------------------------------
Produce ==
  \/ \E t \in Task : Enqueue(t) \/ EnqueueBootstrap(t) \/ Cleanup(t)
  \/ \E s \in Session : UserMessage(s) \/ StoreUserIntention(s)
  \/ \E f \in Field, s \in Session : SetParticipation(f, s)

Execute(w) ==
  \/ BeginSummary(w) \/ BeginAnalysis(w) \/ BeginIntention(w)
  \/ WriteDerived(w) \/ WriteIntention(w)
  \/ Finish(w) \/ Skip(w) \/ Break(w)
  \/ Complete(w) \/ Fail(w) \/ Heartbeat(w)

Next ==
  \/ Produce
  \/ \E w \in Worker, t \in Task : Claim(w, t)
  \/ \E w \in Worker : Execute(w) \/ HeartbeatDies(w) \/ Crash(w)
  \/ \E t \in Task : BecomeDue(t) \/ LeaseAge(t)
  \/ ResetStale

Spec == Init /\ [][Next]_vars

\* A worker's task returns (its LLM calls have timeouts), its loop reports the
\* result and claims again, clocks advance, and the ten second sweep of
\* AnalysisWakeup reaches stale rows.  Producers and faults are not fair.
Fairness ==
  /\ \A w \in Worker :
       /\ WF_vars(BeginSummary(w) \/ BeginAnalysis(w) \/ BeginIntention(w))
       /\ WF_vars(Finish(w) \/ Skip(w))
       /\ WF_vars(Complete(w) \/ Fail(w))
  /\ WF_vars(\E w \in Worker, t \in Task : Claim(w, t))
  /\ \A t \in Task : WF_vars(BecomeDue(t)) /\ WF_vars(LeaseAge(t) /\ ~Tended(t))
  /\ WF_vars(ResetStale)

FairSpec == Spec /\ Fairness
-----------------------------------------------------------------------------
(* Properties                                                               *)

\* An opt-out leaves no work behind: a live row of a session was admitted at
\* the session's present participation, and that participation is on.  Rows
\* are admitted, claimed, retried and reclaimed while sessions toggle.
OptedOutHasNoLiveTask ==
  \A t \in Task :
    Bounded(t) /\ status[t] \in Live =>
      /\ enabled[FieldOf(t)][SessionOf[t]]
      /\ stamp[t] = revision[FieldOf(t)][SessionOf[t]]

\* However leases are lost and rows reclaimed, at most one worker can move a
\* row on.
SingleOwner ==
  \A v, w \in Worker : Owns(v) /\ Owns(w) /\ job[v] = job[w] => v = w

\* The result that ended a row belongs to its last claim, and no derived row
\* of a later claim was ever stored.
AcceptedResultIsNewest ==
  \A t \in Task :
    credit[t] # 0 => /\ status[t] \in {"completed", "failed", "deleted"}
                     /\ credit[t] = token[t]
                     /\ lastWrite[t] <= credit[t]

\* A worker whose lease was taken over never stores a derived row after its
\* successor did (analytics_write).
WritesInClaimOrder ==
  [][\A t \in Task : lastWrite'[t] >= lastWrite[t]]_vars

\* When the write fence lets a task through, the sessions it drew on are on
\* and the descendants it excluded are off, as they were in its snapshot,
\* even if they were toggled off and on again meanwhile.
FenceVouchesForSources ==
  \A w \in Worker :
    pc[w] = "running" /\ Analytic(w) /\ ScopeValid(w) =>
      \A r \in used[w] :
        \A s \in {r} \cup Descendants[r] :
          s \in used[w] <=> enabled["analytics"][s]

\* A session is bootstrapped at most once, also when its row is executed twice
\* or guardrails are toggled and a new row is admitted.
BootstrapOnce ==
  \A s \in Session :
    bootstraps[s] <= 1 /\ (bootstraps[s] = 1 => source[s] # "initial")

\* From the first user message on, no bootstrap computed earlier replaces the
\* session's intention.
BootstrapYieldsToUser ==
  [][\A s \in Session : observed[s] => bootstraps'[s] = bootstraps[s]]_vars

\* Every admitted row ends: completed, failed, cancelled or cleaned up.
EventuallySettled ==
  \A t \in Task : status[t] \in Live ~> status[t] \in Final

\* The queue seen as a ledger of leased rows.
Ledger == INSTANCE TaskLedger WITH
  phase <- status, lease <- token, issued <- claims, attempts <- retries,
  applied <- lastWrite, credited <- credit

\* The queue keeps the ledger's promises.
ImplementsLedger == Ledger!Spec
=============================================================================
