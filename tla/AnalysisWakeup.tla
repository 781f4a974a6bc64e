--------------------------- MODULE AnalysisWakeup ---------------------------
(***************************************************************************)
(* Who wakes the workers of the analysis queue (queue_wakeup.py,            *)
(* AnalysisWakeup): the hints that follow a commit, the listener for other  *)
(* processes, and the timers that remain when no hint comes.                *)
(*                                                                          *)
(* The body of claim() runs on the event loop without a suspension, but     *)
(* each of its SQL statements is a transaction of its own that commits of   *)
(* other threads and processes come between; no callback of the loop does.  *)
(* A row that is gone is used again for a new one.                          *)
(*                                                                          *)
(* Time: due and stale are facts that come true.  A timer covers rows: it   *)
(* goes off by the time any of them is due, or its lease runs out, and at   *)
(* any time besides (the ten seconds of fallback).  The second after a claim *)
(* that found nothing covers none: it skips the rows that were read as due  *)
(* later, and a lease that ends it sooner is one of those other times.  The *)
(* generation and the event of _invalidate are what they are compared for:  *)
(* woken and unchecked.                                                     *)
(***************************************************************************)
EXTENDS Naturals, FiniteSets

CONSTANTS
  Row,        \* rows of analysis_tasks
  Blockers,   \* of each row: the summaries of its scope, if it is an analysis
  Worker,     \* worker loops of this process
  Nobody,
  MaxFaults   \* bound: listeners lost, other processes that die

Other == "other"   \* a worker of another process

ASSUME WakeupAssumption ==
  /\ Blockers \in [Row -> SUBSET Row]
  /\ Nobody \notin Worker
  /\ MaxFaults \in Nat

VARIABLES
  status,      \* of each row
  due,         \* next_attempt_at has passed
  stale,       \* the running row's heartbeat is ten minutes old
  runner,      \* who runs it
  at,          \* where each worker is: in claim's wait, out of it, or busy
  woken,       \* its wait is over: the event is set, or the timer went off
  covers,      \* the rows that timer covers
  skips,       \* those its worker had read as due later when it began a flat second
  turn,        \* the worker inside claim's body
  phase,       \* the statement it is at
  unchecked,   \* _generation # _checked_generation
  expired,     \* _check_at has passed
  cover,       \* the rows _check_at covers
  skip,        \* and those it skips
  overdue,     \* _recovery_check_at has passed
  leases,      \* the rows it covers
  draining,    \* _draining
  committed,   \* a thread is between its commit and notify()
  pending,     \* _notify_pending: _deliver is scheduled
  listening,   \* the listener is connected
  wire,        \* it has something to read
  silent,      \* history: rows a commit without a hint made claimable
  faults

rowVars   == <<status, due, stale, runner>>
sleepVars == <<at, woken, covers, skips>>
stateVars == <<unchecked, expired, cover, skip, overdue, leases, draining>>
hintVars  == <<committed, pending, listening, wire>>
wakeVars  == <<rowVars, sleepVars, turn, phase, stateVars, hintVars, silent, faults>>

TypeOK ==
  /\ status \in [Row -> {"absent", "pending", "running"}]
  /\ due \in [Row -> BOOLEAN] /\ stale \in [Row -> BOOLEAN]
  /\ runner \in [Row -> Worker \cup {Other, Nobody}]
  /\ at \in [Worker -> {"out", "waiting", "inside", "busy"}]
  /\ woken \in [Worker -> BOOLEAN]
  /\ covers \in [Worker -> SUBSET Row] /\ skips \in [Worker -> SUBSET Row]
  /\ turn \in Worker \cup {Nobody}
  /\ phase \in {"none", "mend", "drain", "look", "claim"}
  /\ <<unchecked, expired, overdue, draining>> \in BOOLEAN \X BOOLEAN \X BOOLEAN \X BOOLEAN
  /\ cover \in SUBSET Row /\ skip \in SUBSET Row /\ leases \in SUBSET Row
  /\ committed \in BOOLEAN /\ silent \in SUBSET Row
  /\ pending \in BOOLEAN /\ listening \in BOOLEAN /\ wire \in BOOLEAN
  /\ faults \in 0..MaxFaults

Init ==
  /\ status = [r \in Row |-> "absent"]
  /\ due = [r \in Row |-> FALSE] /\ stale = [r \in Row |-> FALSE]
  /\ runner = [r \in Row |-> Nobody]
  /\ at = [w \in Worker |-> "out"]
  /\ woken = [w \in Worker |-> FALSE]
  /\ covers = [w \in Worker |-> {}] /\ skips = [w \in Worker |-> {}]
  /\ turn = Nobody /\ phase = "none"
  /\ unchecked = TRUE /\ expired = TRUE /\ overdue = TRUE /\ draining = FALSE
  /\ cover = {} /\ skip = {} /\ leases = {}
  /\ committed = FALSE /\ silent = {}
  /\ pending = FALSE /\ listening = FALSE /\ wire = FALSE
  /\ faults = 0

\* An analysis waits for the summaries of its scope that run or are due.
Blocked(r) ==
  \E b \in Blockers[r] : status[b] = "running" \/ (status[b] = "pending" /\ due[b])
Open(r)      == status[r] = "pending" /\ ~Blocked(r)
Claimable(r) == Open(r) /\ due[r]

(***************************************************************************)
(* Hints                                                                    *)
(***************************************************************************)
\* A commit under notify_analysis.
Hinted ==
  /\ committed' = TRUE
  /\ wire' = (wire \/ listening)
  /\ UNCHANGED <<pending, listening>>

Remote ==
  /\ wire' = (wire \/ listening)
  /\ UNCHANGED <<committed, pending, listening>>

\* Other commits reach a listener on SQLite only, where they move the data version:
\* a worker they wake besides finds nothing it would have missed.
Unhinted == UNCHANGED hintVars

Notify ==
  /\ committed /\ committed' = FALSE
  /\ pending' = TRUE
  /\ UNCHANGED <<rowVars, sleepVars, turn, phase, stateVars, listening, wire, silent,
                 faults>>

\* The waits of these workers are over.
Wake(S) ==
  /\ woken'  = [w \in Worker |-> woken[w] \/ w \in S]
  /\ covers' = [w \in Worker |-> IF w \in S THEN {} ELSE covers[w]]
  /\ skips'  = [w \in Worker |-> IF w \in S THEN {} ELSE skips[w]]

Waiting == {w \in Worker : at[w] = "waiting"}

\* Mutant: the event is taken when the wait begins, after the tables were read.
LoopAnytime == TRUE

\* Callbacks and other coroutines run only between two steps of claim.
LoopFree == turn = Nobody

Invalidate ==
  /\ LoopFree
  /\ unchecked' = TRUE
  /\ Wake(Waiting)
  /\ UNCHANGED <<rowVars, at, turn, phase, expired, cover, skip, overdue,
                 leases, draining>>
  /\ silent' = {}

Deliver ==
  /\ pending /\ pending' = FALSE
  /\ Invalidate
  /\ UNCHANGED <<committed, listening, wire, faults>>

Listen ==
  /\ ~listening /\ listening' = TRUE
  /\ Invalidate
  /\ UNCHANGED <<committed, pending, wire, faults>>

Heard ==
  /\ listening /\ wire /\ wire' = FALSE
  /\ Invalidate
  /\ UNCHANGED <<committed, pending, listening, faults>>

Disconnect ==
  /\ listening /\ listening' = FALSE /\ wire' = FALSE
  /\ faults < MaxFaults /\ faults' = faults + 1
  /\ Invalidate
  /\ UNCHANGED <<committed, pending>>

(***************************************************************************)
(* claim                                                                    *)
(***************************************************************************)
\* What runs between two waits: the coroutine keeps the lock and the loop.
Go(w, p) ==
  /\ turn' = w /\ phase' = p
  /\ at' = [at EXCEPT ![w] = "inside"]
  /\ woken' = [woken EXCEPT ![w] = FALSE]
  /\ covers' = [covers EXCEPT ![w] = {}]
  /\ skips' = [skips EXCEPT ![w] = {}]

\* The event is captured before the tables are read: none is set in between.
Sleep(w, rows, past) ==
  /\ turn' = Nobody /\ phase' = "none"
  /\ at' = [at EXCEPT ![w] = "waiting"]
  /\ woken' = [woken EXCEPT ![w] = FALSE]
  /\ covers' = [covers EXCEPT ![w] = rows]
  /\ skips' = [skips EXCEPT ![w] = past]

Take(w, r) ==
  /\ Claimable(r)
  /\ status' = [status EXCEPT ![r] = "running"]
  /\ runner' = [runner EXCEPT ![r] = w]
  /\ UNCHANGED <<due, stale>>
  /\ turn' = Nobody /\ phase' = "none"
  /\ at' = [at EXCEPT ![w] = "busy"]
  /\ woken' = [woken EXCEPT ![w] = FALSE]
  /\ covers' = [covers EXCEPT ![w] = {}]
  /\ skips' = [skips EXCEPT ![w] = {}]
  /\ silent' = silent \ {r}

NothingClaimable == \A r \in Row : ~Claimable(r)

\* Mutant: the tables are read again after a hint only.
FreshUnhinted == ~unchecked

\* The last read of the tables is still good.
Fresh == ~unchecked /\ ~expired

\* Mutant: leases are recovered only when no work is left.
BacklogOnly == "drain"

\* What comes first while there is a backlog.
Backlog == IF overdue THEN "mend" ELSE "drain"

Enter(w) ==
  /\ turn = Nobody
  /\ at[w] = "out" \/ (at[w] = "waiting" /\ woken[w])
  /\ \/ draining /\ Go(w, Backlog)
     \/ ~draining /\ ~Fresh /\ Go(w, "look")
     \/ ~draining /\ Fresh /\ Sleep(w, cover, skip)
  /\ UNCHANGED <<rowVars, stateVars, hintVars, silent, faults>>

\* Lease recovery (_recover), from what next_wakeup read.
Lapsed == {r \in Row : status[r] = "running" /\ stale[r]}

Recover ==
  /\ status' = [r \in Row |-> IF r \in Lapsed THEN "pending" ELSE status[r]]
  /\ stale'  = [r \in Row |-> stale[r] /\ r \notin Lapsed]
  /\ runner' = [r \in Row |-> IF r \in Lapsed THEN Nobody ELSE runner[r]]
  /\ UNCHANGED due
  /\ overdue' = FALSE
  /\ leases' = IF Lapsed = {} THEN {r \in Row : status[r] = "running"} ELSE {}
  /\ committed' = (committed \/ Lapsed # {})
  /\ wire' = (wire \/ (listening /\ Lapsed # {}))
  /\ UNCHANGED <<pending, listening>>

\* A backlog that never ends does not keep leases from being recovered.
Mend(w) ==
  /\ turn = w /\ phase = "mend" /\ Recover /\ phase' = "drain"
  /\ UNCHANGED <<sleepVars, turn, unchecked, expired, cover, skip, draining, silent, faults>>

Drain(w) ==
  /\ turn = w /\ phase = "drain"
  /\ \/ /\ \E r \in Row : Take(w, r)
        /\ UNCHANGED <<unchecked, draining>>
     \/ /\ NothingClaimable
        /\ draining' = FALSE /\ unchecked' = TRUE
        /\ phase' = "look"
        /\ UNCHANGED <<rowVars, sleepVars, turn, silent>>
  /\ UNCHANGED <<expired, cover, skip, overdue, leases, hintVars, faults>>

\* The earliest deadline of the open rows and the running ones, while it is to come, is
\* a timer for all of them.
Watched == {r \in Row : Open(r) \/ status[r] = "running"}

\* Those that are due later, when another row is due or a lease has run out.
Ahead == {r \in Row : Open(r) /\ ~due[r]}

Look(w) ==
  /\ turn = w /\ phase = "look" /\ Recover
  /\ IF NothingClaimable /\ Lapsed = {}
       THEN /\ Sleep(w, Watched, {})
            /\ unchecked' = FALSE /\ expired' = FALSE
            /\ cover' = Watched /\ skip' = {}
       ELSE /\ phase' = "claim"
            /\ skips' = [skips EXCEPT ![w] = Ahead]
            /\ UNCHANGED <<turn, at, woken, covers, unchecked, expired, cover, skip>>
  /\ UNCHANGED <<draining, silent, faults>>

\* Another process may have been faster.  The deadline that was read is past and the
\* wait is a flat second, whatever the other rows' deadlines are.
Claim(w) ==
  /\ turn = w /\ phase = "claim"
  /\ \/ /\ \E r \in Row : Take(w, r)
        /\ draining' = TRUE
        /\ UNCHANGED <<unchecked, expired, cover, skip>>
     \/ /\ NothingClaimable
        /\ Sleep(w, {}, skips[w])
        /\ unchecked' = FALSE /\ expired' = FALSE
        /\ cover' = {} /\ skip' = skips[w]
        /\ UNCHANGED <<rowVars, draining, silent>>
  /\ UNCHANGED <<overdue, leases, hintVars, faults>>

(***************************************************************************)
(* Time                                                                     *)
(***************************************************************************)
\* Timers that cover a row go off with it.
GoesOff(r) ==
  /\ expired' = (expired \/ r \in cover)
  /\ cover' = IF expired' THEN {} ELSE cover
  /\ skip' = IF expired' THEN {} ELSE skip
  /\ Wake({w \in Worker : r \in covers[w]})

Due(r) ==
  /\ status[r] = "pending" /\ ~due[r]
  /\ due' = [due EXCEPT ![r] = TRUE]
  /\ GoesOff(r)
  /\ UNCHANGED <<status, stale, runner, at, turn, phase, unchecked, overdue, leases, draining, hintVars, silent, faults>>

\* The process that runs a row is gone, and its lease runs out.
Lapse(r) ==
  /\ status[r] = "running" /\ runner[r] = Other /\ ~stale[r]
  /\ faults < MaxFaults /\ faults' = faults + 1
  /\ stale' = [stale EXCEPT ![r] = TRUE]
  /\ GoesOff(r)
  /\ overdue' = (overdue \/ r \in leases)
  /\ leases' = IF overdue' THEN {} ELSE leases
  /\ UNCHANGED <<status, due, runner, at, turn, phase, unchecked, draining, hintVars, silent>>

\* Ten seconds have passed, or the flat second.
Fallback ==
  /\ ~expired \/ ~overdue \/ \E w \in Worker : at[w] = "waiting" /\ ~woken[w]
  /\ expired' = TRUE /\ overdue' = TRUE
  /\ cover' = {} /\ skip' = {} /\ leases' = {}
  /\ Wake(Waiting)
  /\ UNCHANGED <<rowVars, at, turn, phase, unchecked, draining, hintVars, silent, faults>>

(***************************************************************************)
(* Commits of threads and of other processes                                *)
(***************************************************************************)
Put(r) ==
  /\ status[r] = "absent"
  /\ status' = [status EXCEPT ![r] = "pending"]
  /\ due' \in {[due EXCEPT ![r] = d] : d \in BOOLEAN}
  /\ UNCHANGED <<stale, runner>>

\* A row ends, or waits for its next attempt.
End(r) ==
  /\ status' \in {[status EXCEPT ![r] = s] : s \in {"absent", "pending"}}
  /\ due' = [due EXCEPT ![r] = FALSE]
  /\ stale' = [stale EXCEPT ![r] = FALSE]
  /\ runner' = [runner EXCEPT ![r] = Nobody]

Enqueue(r) ==
  /\ Put(r) /\ Hinted
  /\ UNCHANGED <<sleepVars, turn, phase, stateVars, silent, faults>>

\* A listener that is not connected hears of other processes when it is again.
Unheard(S) == silent' = IF listening THEN silent ELSE silent \cup S

OtherEnqueue(r) ==
  /\ Put(r) /\ Remote
  /\ Unheard({r})
  /\ UNCHANGED <<sleepVars, turn, phase, stateVars, faults>>

OtherClaim(r) ==
  /\ Claimable(r)
  /\ status' = [status EXCEPT ![r] = "running"]
  /\ runner' = [runner EXCEPT ![r] = Other]
  /\ silent' = silent \ {r}
  /\ Unhinted
  /\ UNCHANGED <<due, stale, sleepVars, turn, phase, stateVars, faults>>

OtherFinish(r) ==
  /\ status[r] = "running" /\ runner[r] = Other /\ ~stale[r]
  /\ End(r) /\ Remote
  /\ Unheard({x \in Row : r \in Blockers[x] /\ status[x] = "pending"} \cup {r})
  /\ UNCHANGED <<sleepVars, turn, phase, stateVars, faults>>

\* complete or fail, from a thread, then the worker asks for its next row; the row may
\* have been cancelled meanwhile.
Finish(w) ==
  /\ at[w] = "busy" /\ turn = Nobody
  /\ at' = [at EXCEPT ![w] = "out"]
  /\ \/ \E r \in Row : status[r] = "running" /\ runner[r] = w /\ End(r) /\ Hinted
     \/ /\ \A r \in Row : runner[r] # w
        /\ Hinted
        /\ UNCHANGED rowVars
  /\ UNCHANGED <<woken, covers, skips, turn, phase, stateVars, silent, faults>>

\* An opt-out cancels the rows of a session without a hint (session.py): what
\* they held back is claimable now.
OptOut(r) ==
  /\ status[r] # "absent"
  /\ status' = [status EXCEPT ![r] = "absent"]
  /\ due' = [due EXCEPT ![r] = FALSE] /\ stale' = [stale EXCEPT ![r] = FALSE]
  /\ runner' = [runner EXCEPT ![r] = Nobody]
  /\ silent' = (silent \cup {x \in Row : r \in Blockers[x] /\ status[x] = "pending"}) \ {r}
  /\ Unhinted
  /\ UNCHANGED <<sleepVars, turn, phase, stateVars, faults>>

LoopStep(w) == Enter(w) \/ Mend(w) \/ Drain(w) \/ Look(w) \/ Claim(w)

Next ==
  \/ \E w \in Worker : LoopStep(w) \/ Finish(w)
  \/ \E r \in Row :
       \/ Due(r) \/ Lapse(r)
       \/ Enqueue(r) \/ OtherEnqueue(r) \/ OtherClaim(r) \/ OtherFinish(r) \/ OptOut(r)
  \/ Notify \/ Deliver \/ Listen \/ Heard \/ Disconnect \/ Fallback

Spec == Init /\ [][Next]_wakeVars

\* Threads call notify after their commit, callbacks and coroutines run, timers go off,
\* rows end, and the listener reconnects and reads.
Fairness ==
  /\ \A w \in Worker : SF_wakeVars(LoopStep(w)) /\ WF_wakeVars(Finish(w))
  /\ WF_wakeVars(Notify) /\ WF_wakeVars(Deliver) /\ WF_wakeVars(Listen) /\ WF_wakeVars(Heard)
  /\ WF_wakeVars(Fallback)

FairSpec == Spec /\ Fairness

(***************************************************************************)
(* Properties                                                               *)
(***************************************************************************)
HintUnderWay == committed \/ pending \/ wire

\* No wakeup is lost: a worker never goes on waiting beside a claimable row of which
\* no hint is under way, not even for the ten seconds of fallback, however commits,
\* callbacks and timers fall between its reads.  Rows that an opt-out unblocks, and
\* those of other processes while the listener is away, have no hint.  After a claim
\* that found nothing the worker may sleep past the deadline of a row it had read as
\* due later, by that second at most: of no other row.
NoSleepOverWork ==
  \A w \in Worker, r \in Row :
    at[w] = "waiting" /\ Claimable(r)
      => woken[w] \/ HintUnderWay \/ r \in silent \/ r \in skips[w]

\* Hint or none, a worker that waits while there is work gets some, or others do it.
WaitersGetWork ==
  \A w \in Worker :
    (at[w] = "waiting" /\ ~NothingClaimable) ~> (at[w] = "busy" \/ NothingClaimable)

\* A lease of a process that died is recovered although new rows keep coming and the
\* workers never find the queue empty.
LeasesRecovered == \A r \in Row : stale[r] ~> ~stale[r]
=============================================================================
