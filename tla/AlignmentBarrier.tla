-------------------------- MODULE AlignmentBarrier --------------------------
(***************************************************************************)
(* The alignment barrier of one child session (alignment.py), and the gate   *)
(* it is for the child's evaluations (evaluator.py): a check compares the    *)
(* intention of the child with its parent's.  The verdict of a hybrid session *)
(* is in its row (alignment_state), that of a legacy session in memory; the   *)
(* policy that says which may change, and leaves both as they are.            *)
(*                                                                          *)
(* As in IntentionBarrier, an action is what a task does between two awaits, *)
(* or what a thread does in one transaction; checks are numbered in the      *)
(* order of their triggers.  An intention is its version.                    *)
(***************************************************************************)
EXTENDS Integers

CONSTANTS
  Evaluation,    \* POST /evaluate calls for the child
  Policies,      \* those the child's policy may be of
  MaxVersion,    \* bound: intentions of the child
  MaxParent,     \* bound: intentions of the parent
  MaxChecks,     \* bound: checks triggered
  MaxMoves       \* bound: toggles, activations, lifecycle changes, restarts, further messages

ASSUME AlignmentAssumption ==
  /\ Policies \subseteq {"legacy", "hybrid", "autonomous", "bound"}
  /\ MaxVersion \in Nat \ {0} /\ MaxParent \in Nat \ {0} /\ MaxChecks \in Nat /\ MaxMoves \in Nat

VARIABLES
  child,         \* its row: the version of its intention, state_revision, guardrails_enabled
                 \* and revision, status, alignment_state, alignment_overridden, policy
  parent,        \* the version of the parent's intention
  check,         \* _pending: the check, 0 for none
  misaligned, overridden,   \* the child is in _misaligned, in _overridden
  made, checks,  \* the checks triggered: task, thread, event, and what they read
  own, above,    \* the intention updates of the child and of the parent
  owed,          \* what handlers have yet to tell the barrier
  gate,          \* the evaluations
  moves,         \* what clients, sweeps and failures may still do
  seen,          \* history: what the last verdict or approval was about
  waived        \* history: no verdict is owed for the present intention

barrier == <<check, misaligned, overridden, made, checks>>
history == <<seen, waived>>
vars == <<child, parent, barrier, own, above, owed, gate, moves, history>>

Version == 1..MaxVersion
ParentVersion == 1..MaxParent
Check == 1..MaxChecks
NoVersion == 0
Open == {"active", "idle"}
Unready == {"pending", "error"}
Verdict == {"aligned", "misaligned"}

\* Of the policies all but "legacy" are hybrid_v1: "autonomous" has the profile
\* bounded_autonomy, "bound" has approve for its maximum_outcome (operator_bound).
hybrid == child.policy # "legacy"

Job == [task : {"none", "new", "call", "yield", "gone"}, cancelled : BOOLEAN,
        event : BOOLEAN, result : {"none", "asked", "failed", "revoked"} \cup Verdict,
        v : {NoVersion} \cup Version, pv : {NoVersion} \cup ParentVersion, rev : Nat, mode : Nat,
        asHybrid : BOOLEAN]

NoJob == [task |-> "none", cancelled |-> FALSE, event |-> FALSE, result |-> "none",
          v |-> NoVersion, pv |-> NoVersion, rev |-> 0, mode |-> 0, asHybrid |-> FALSE]

\* v0 is the child's intention when the evaluation was past the intention barrier;
\* hurried, whether it did not wait for what it was to wait for; the rest is what it read,
\* and lapsed whether no verdict was owed then.
Visit == [at : {"new", "intention", "alignment", "read", "check", "decide", "passed",
                "judged", "escalated", "refused", "denied", "approved", "lost"},
          on : {0} \cup Check, hurried : BOOLEAN, v0 : {NoVersion} \cup Version,
          row : [v : {NoVersion} \cup Version, rev : Nat, on : BOOLEAN, mode : Nat,
                 life : Open \cup {"ended"}, state : Unready \cup {"ready", "misaligned"},
                 acked : BOOLEAN, policy : Policies],
          pv : {NoVersion} \cup ParentVersion,
          seen : [v : {NoVersion} \cup Version, pv : {NoVersion} \cup ParentVersion,
                  ok : BOOLEAN],
          lapsed : BOOLEAN]

TypeOK ==
  /\ child \in [v : Version, rev : Nat, on : BOOLEAN, mode : Nat,
                life : Open \cup {"ended"}, state : Unready \cup {"ready", "misaligned"},
                acked : BOOLEAN, policy : Policies]
  /\ parent \in ParentVersion
  /\ check \in {0} \cup Check /\ made \in {0} \cup Check
  /\ misaligned \in BOOLEAN /\ overridden \in BOOLEAN
  /\ checks \in [Check -> Job]
  /\ own \in {"none", "call", "stored"} /\ above \in {"none", "stored"}
  /\ owed \subseteq {"trigger", "cancel"}
  /\ gate \in [Evaluation -> Visit]
  /\ moves \in 0..MaxMoves
  /\ seen \in [v : {NoVersion} \cup Version, pv : {NoVersion} \cup ParentVersion,
               ok : BOOLEAN]
  /\ waived \in BOOLEAN

Unseen == [v |-> NoVersion, pv |-> NoVersion, ok |-> FALSE]

\* POST /intention has inserted the child; its handler has yet to trigger.
Init ==
  /\ \E p \in Policies :
       child = [v |-> 1, rev |-> 1, on |-> TRUE, mode |-> 1, life |-> "active",
                state |-> IF p = "legacy" THEN "ready" ELSE "pending", acked |-> FALSE,
                policy |-> p]
  /\ parent = 1
  /\ check = 0 /\ misaligned = FALSE /\ overridden = FALSE
  /\ made = 0 /\ checks = [k \in Check |-> NoJob]
  /\ own = "none" /\ above = "none" /\ owed = {"trigger"}
  /\ gate = [e \in Evaluation |->
               [at |-> "new", on |-> 0, hurried |-> FALSE, v0 |-> NoVersion, row |-> child,
                pv |-> NoVersion, seen |-> Unseen, lapsed |-> FALSE]]
  /\ moves = MaxMoves
  /\ seen = Unseen /\ waived = FALSE

Move == moves > 0 /\ moves' = moves - 1

Moved(c) == [c EXCEPT !.rev = @ + 1]

-----------------------------------------------------------------------------
(* The barrier's entry points, without an await. *)

\* The task of the entry is cancelled at its next step; its waiters go on now.
Stopped ==
  IF check = 0 \/ checks[check].task = "gone" THEN checks
  ELSE [checks EXCEPT ![check].cancelled = TRUE, ![check].event = TRUE]

\* cancel(), with clear_session().
Cancel ==
  /\ checks' = Stopped /\ check' = 0
  /\ misaligned' = FALSE /\ overridden' = FALSE
  /\ waived' = (waived \/ ~hybrid)
  /\ UNCHANGED made

\* trigger() for the row c, with o for _overridden.
Trigger(c, o) ==
  \/ /\ ~c.on
     /\ Cancel /\ child' = c
  \/ /\ c.on /\ made < MaxChecks
     /\ made' = made + 1 /\ check' = made + 1
     /\ checks' = [Stopped EXCEPT ![made + 1] = [NoJob EXCEPT !.task = "new", !.mode = c.mode]]
     /\ child' = IF hybrid THEN [Moved(c) EXCEPT !.state = "pending"] ELSE c
     /\ overridden' = o
     /\ UNCHANGED <<misaligned, waived>>

\* clear_override() changes the row only if it was set.
Unacknowledged == IF child.acked THEN [Moved(child) EXCEPT !.acked = FALSE] ELSE child

-----------------------------------------------------------------------------
(* Intention updates, clients and failures. *)

\* The handler of POST /intention, or of a PATCH that enabled the guardrails,
\* triggers; that of a PATCH that disabled them cancels.
Tell ==
  /\ \/ "trigger" \in owed /\ owed' = owed \ {"trigger"} /\ Trigger(child, overridden)
     \/ "cancel" \in owed /\ owed' = owed \ {"cancel"} /\ Cancel /\ UNCHANGED child
  /\ UNCHANGED <<parent, own, above, gate, moves, seen>>

\* A PATCH commits in a thread, so that another may commit before its handler goes on.
\* One that sets what is set changes nothing, but its handler tells the barrier.
Toggle(on) ==
  /\ Move
  /\ child' = IF child.on = on THEN child
              ELSE [Moved(child) EXCEPT !.on = on, !.mode = @ + 1,
                                        !.state = IF on THEN "pending" ELSE "ready"]
  /\ owed' = IF ~on THEN owed \cup {"cancel"}
             ELSE IF child'.state = "pending" THEN owed \cup {"trigger"} ELSE owed
  /\ UNCHANGED <<parent, barrier, own, above, gate, history>>

\* A policy is activated, by a PATCH or because the parent's authorization moved
\* (refresh_inherited_policy): alignment_state and the barrier are left alone, so that
\* with the engine the verdict is another one, if there is one.
Activate(p) ==
  /\ Move
  /\ child' = [Moved(child) EXCEPT !.policy = p]
  /\ waived' = (waived \/ (p = "legacy") # (child.policy = "legacy"))
  /\ UNCHANGED <<parent, barrier, own, above, owed, gate, seen>>

\* A user message of the child starts an update of its intention, or ends the one
\* under way: with it goes the check that was to follow a stored intention.
Message ==
  /\ Move
  /\ own' = "call"
  /\ waived' = (waived \/ own = "stored")
  /\ UNCHANGED <<child, parent, barrier, above, owed, gate, seen>>

Store ==
  /\ own = "call" /\ child.on /\ child.v < MaxVersion
  /\ own' = "stored" /\ child' = [Moved(child) EXCEPT !.v = @ + 1]
  /\ UNCHANGED <<parent, barrier, above, owed, gate, moves, history>>

NotStored ==
  /\ own = "call" /\ own' = "none"
  /\ UNCHANGED <<child, parent, barrier, above, owed, gate, moves, history>>

\* The update's task resumes after the store: clear_override() and trigger().
Chain ==
  /\ own = "stored" /\ own' = "none"
  /\ Trigger(Unacknowledged, FALSE)
  /\ UNCHANGED <<parent, above, owed, gate, moves, seen>>

StoreParent ==
  /\ above = "none" /\ parent < MaxParent
  /\ parent' = parent + 1 /\ above' = "stored"
  /\ UNCHANGED <<child, barrier, own, owed, gate, moves, history>>

Outdated == /\ child.life = "active" /\ ~child.acked
            /\ child.state = "misaligned" \/ (misaligned /\ ~overridden)

\* recheck_children(), after the parent's update stored.
Recheck ==
  /\ above = "stored" /\ above' = "none"
  /\ \/ Outdated /\ Trigger(child, overridden)
     \/ ~Outdated /\ UNCHANGED <<child, barrier, waived>>
  /\ UNCHANGED <<parent, own, owed, gate, moves, seen>>

\* The idle sweep, the end of the session, and its reactivation by a client.
Lifecycle(life) ==
  /\ child.life # life /\ (life = "idle" => child.life = "active")
  /\ Move
  /\ child' = [Moved(child) EXCEPT !.life = life]
  /\ UNCHANGED <<parent, barrier, own, above, owed, gate, history>>

\* The background worker forgets sessions that ended.
Sweep ==
  /\ child.life \notin Open /\ (misaligned \/ overridden)
  /\ misaligned' = FALSE /\ overridden' = FALSE
  /\ waived' = (waived \/ ~hybrid)
  /\ UNCHANGED <<child, parent, check, made, checks, own, above, owed, gate, moves, seen>>

\* The server stops and starts: tasks and memory are gone, overrides are restored,
\* active children that are not overridden are checked again.
Restart ==
  LET again == child.life = "active" /\ ~child.acked /\ child.on
  IN  /\ Move
      /\ again => made < MaxChecks
      /\ checks' = [k \in Check |->
                      IF again /\ k = made + 1
                      THEN [NoJob EXCEPT !.task = "new", !.mode = child.mode]
                      ELSE IF checks[k].task = "none" THEN checks[k]
                      ELSE [checks[k] EXCEPT !.task = "gone", !.event = TRUE]]
      /\ made' = IF again THEN made + 1 ELSE made
      /\ check' = IF again THEN made + 1 ELSE 0
      /\ child' = IF again /\ hybrid THEN [Moved(child) EXCEPT !.state = "pending"] ELSE child
      /\ misaligned' = FALSE
      /\ overridden' = (child.acked /\ child.life \in Open)
      /\ own' = "none" /\ above' = "none" /\ owed' = {}
      /\ gate' = [e \in Evaluation |->
                    IF gate[e].at \in {"intention", "alignment", "read", "check", "decide"}
                    THEN [gate[e] EXCEPT !.at = "lost"] ELSE gate[e]]
      /\ waived' = (waived \/ own = "stored" \/ ~hybrid)
      /\ UNCHANGED <<parent, seen>>

-----------------------------------------------------------------------------
(* The task of a check: _run. *)

CheckOnly == UNCHANGED <<parent, check, overridden, made, own, above, owed, gate, moves>>

\* What it read is forgotten, and a thread that still runs answers to no one.
Ended(k) == [checks EXCEPT ![k] = [NoJob EXCEPT !.task = "yield", !.event = TRUE]]

\* Its first step reads both sessions; participation must be that of the trigger.
Start(k) ==
  LET j == checks[k]
  IN  /\ j.task = "new"
      /\ checks' = IF j.cancelled THEN [checks EXCEPT ![k].task = "gone"]
                   ELSE IF ~child.on \/ child.mode # j.mode THEN Ended(k)
                   ELSE [checks EXCEPT ![k].task = "call", ![k].result = "asked",
                                       ![k].v = child.v, ![k].pv = parent, ![k].rev = child.rev,
                                       ![k].asHybrid = hybrid]
      /\ waived' = (waived \/ (~j.cancelled /\ ~hybrid /\ (~child.on \/ child.mode # j.mode)))
      /\ UNCHANGED <<child, misaligned, seen>>
      /\ CheckOnly

Fenced(k) == child.on /\ child.mode = checks[k].mode

\* The reviewer answers, or cannot; a thread goes on when its task is cancelled.
Answer(k) ==
  /\ checks[k].result = "asked"
  /\ \E r \in Verdict \cup {"failed"} :
       checks' = [checks EXCEPT ![k].result = IF Fenced(k) THEN r ELSE "revoked"]
  /\ UNCHANGED <<child, misaligned, history>>
  /\ CheckOnly

\* Mutant: a verdict is stored whatever changed in the row since it was read.
CurrentOn(rev) == child.on

\* set_alignment_state() with an expected state revision.
Current(rev) == child.on /\ child.rev = rev

State(r) == IF r = "aligned" THEN "ready" ELSE r

\* Mutant: an opt-out during the review leaves the task without its end.
FinishedUnrevoked(k) == checks[k].result \in Verdict \cup {"failed"}

Finished(k) == checks[k].result \notin {"none", "asked"}

\* The task resumes with the result; its engine is the one it read.
Conclude(k) ==
  LET j == checks[k]
      installs == j.result \in Verdict /\ Fenced(k) /\ (j.asHybrid => Current(j.rev))
  IN  /\ j.task = "call" /\ ~j.cancelled /\ Finished(k)
      /\ checks' = Ended(k)
      /\ \/ /\ installs
            /\ child' = IF ~j.asHybrid THEN child
                        ELSE [Moved(child) EXCEPT !.state = IF overridden THEN "ready"
                                                            ELSE State(j.result)]
            /\ misaligned' = (j.result = "misaligned" /\ (misaligned \/ ~overridden))
            /\ IF j.asHybrid # hybrid THEN UNCHANGED history
               ELSE /\ seen' = [seen EXCEPT !.v = j.v, !.pv = j.pv,
                                            !.ok = j.result = "aligned" \/ overridden]
                    /\ waived' = (waived /\ (j.v # child.v \/ (overridden /\ j.result = "misaligned")))
         \/ /\ ~installs
            /\ child' = IF j.asHybrid /\ j.result = "failed" /\ Current(j.rev)
                        THEN [Moved(child) EXCEPT !.state = "error"] ELSE child
            /\ waived' = (waived \/ ~hybrid)
            /\ UNCHANGED <<misaligned, seen>>
      /\ CheckOnly

\* CancelledError reaches a task that awaits its thread.
Abort(k) ==
  /\ checks[k].task = "call" /\ checks[k].cancelled
  /\ checks' = Ended(k)
  /\ UNCHANGED <<child, misaligned, history>>
  /\ CheckOnly

\* Mutant: a task removes whatever entry there is.
MineAnyway(k) == TRUE

Mine(k) == check = k

\* After sleep(0) a task removes its own entry; cancelled in it, nothing.
CleanUp(k) ==
  /\ checks[k].task = "yield"
  /\ checks' = [checks EXCEPT ![k].task = "gone"]
  /\ check' = IF Mine(k) /\ ~checks[k].cancelled THEN 0 ELSE check
  /\ UNCHANGED <<child, parent, misaligned, overridden, made, own, above, owed, gate,
                 moves, history>>

-----------------------------------------------------------------------------
(* Evaluations of the child. *)

GateOnly == UNCHANGED <<parent, check, made, checks, own, above, owed, moves>>

Quietly == UNCHANGED <<child, misaligned, overridden, history>>

Pending == \E k \in Check : check = k /\ ~checks[k].event

\* waits_for_alignment()
Waits == child.on /\ child.policy # "autonomous"

\* Past the intention barrier an evaluation waits for the pending check.
Arrive(e, hurried) ==
  /\ gate' = [gate EXCEPT ![e].at = IF Waits /\ Pending THEN "alignment" ELSE "read",
                          ![e].on = IF Waits /\ Pending THEN check ELSE 0,
                          ![e].v0 = child.v,
                          ![e].hurried = hurried \/ (~hybrid /\ (~child.on \/ "trigger" \in owed))]
  /\ Quietly /\ GateOnly

Enter(e) ==
  /\ gate[e].at = "new"
  /\ \/ own = "none" /\ Arrive(e, FALSE)
     \/ /\ own # "none"
        /\ gate' = [gate EXCEPT ![e].at = "intention"]
        /\ Quietly /\ GateOnly

\* The update ended; or a later message superseded it, or the wait timed out.
Updated(e) == gate[e].at = "intention" /\ own = "none" /\ Arrive(e, FALSE)
Hurry(e) == gate[e].at = "intention" /\ own # "none" /\ Arrive(e, TRUE)

\* The check ended, or was superseded, or the wait timed out.  A hybrid session
\* stays pending: it need not have waited.
Released(e) ==
  /\ gate[e].at = "alignment" /\ checks[gate[e].on].event
  /\ gate' = [gate EXCEPT ![e].at = "read",
                          ![e].hurried = @ \/ (~hybrid /\ check \notin {0, gate[e].on})]
  /\ Quietly /\ GateOnly

TimesOut(e) ==
  /\ gate[e].at = "alignment" /\ ~checks[gate[e].on].event
  /\ gate' = [gate EXCEPT ![e].at = "read", ![e].hurried = @ \/ ~hybrid]
  /\ Quietly /\ GateOnly

\* The evaluator reads the session; an undecided one without a pending check is
\* checked on the spot, unless its policy does without.
Read(e) ==
  /\ gate[e].at = "read"
  /\ gate' = [gate EXCEPT
                ![e].at = IF /\ child.policy = "hybrid" /\ child.on /\ child.life = "active"
                             /\ child.state \in Unready /\ check = 0
                          THEN "check" ELSE "decide",
                ![e].row = child, ![e].pv = parent, ![e].seen = seen, ![e].lapsed = waived]
  /\ Quietly /\ GateOnly

\* The session is read again, but the policy stays the one that was read.
Again(e) == [child' EXCEPT !.policy = gate[e].row.policy]

\* No verdict is owed, or that of another engine is.
Lapsed(e) == waived \/ hybrid # (gate[e].row.policy # "legacy")

\* The verdict is stored if the session did not move, or the evaluation is refused.
CheckNow(e) ==
  /\ gate[e].at = "check"
  /\ \/ \E r \in Verdict :
          /\ Current(gate[e].row.rev)
          /\ child' = [Moved(child) EXCEPT !.state = State(r)]
          /\ seen' = [seen EXCEPT !.v = gate[e].row.v, !.pv = gate[e].pv, !.ok = r = "aligned"]
          /\ waived' = FALSE
          /\ gate' = [gate EXCEPT ![e].at = "decide", ![e].row = child', ![e].seen = seen',
                                  ![e].lapsed = FALSE]
     \/ /\ ~Current(gate[e].row.rev)
        /\ gate' = [gate EXCEPT ![e].at = "refused"]
        /\ UNCHANGED <<child, history>>
     \/ /\ child' = IF Current(gate[e].row.rev)
                    THEN [Moved(child) EXCEPT !.state = "error"] ELSE child
        /\ gate' = [gate EXCEPT ![e].at = "decide", ![e].row = Again(e), ![e].seen = seen,
                                ![e].lapsed = Lapsed(e)]
        /\ UNCHANGED history
  /\ UNCHANGED <<misaligned, overridden>>
  /\ GateOnly

\* An idle session is resumed, whatever became of it since it was read.
Resume(e) ==
  /\ gate[e].at = "decide" /\ gate[e].row.life = "idle"
  /\ child' = [Moved(child) EXCEPT !.life = "active"]
  /\ gate' = [gate EXCEPT ![e].row = Again(e), ![e].seen = seen, ![e].lapsed = Lapsed(e)]
  /\ UNCHANGED <<misaligned, overridden, history>>
  /\ GateOnly

DenyEnded(e) ==
  /\ gate[e].at = "decide" /\ gate[e].row.life = "ended"
  /\ misaligned' = FALSE /\ overridden' = FALSE
  /\ waived' = (waived \/ ~hybrid)
  /\ gate' = [gate EXCEPT ![e].at = "denied"]
  /\ UNCHANGED <<child, seen>>
  /\ GateOnly

\* Mutant: an undecided hybrid child is let through.
OutcomeOpen(r) ==
  IF ~r.on \/ r.policy = "bound" THEN "passed"
  ELSE IF r.policy = "legacy" THEN IF misaligned /\ ~overridden THEN "escalated" ELSE "passed"
  ELSE IF r.state = "misaligned" THEN "judged" ELSE "passed"

\* A hybrid verdict, or with bounded autonomy that there is none, is a fact for the
\* policy and its Judge; a legacy one, read now, stops the call; an operator bound
\* does without.
Outcome(r) ==
  IF ~r.on \/ r.policy = "bound" THEN "passed"
  ELSE IF r.policy = "legacy" THEN IF misaligned /\ ~overridden THEN "escalated" ELSE "passed"
  ELSE IF r.state \in Unready /\ r.policy = "hybrid" THEN "refused"
  ELSE IF r.state # "ready" THEN "judged" ELSE "passed"

Decide(e) ==
  LET legacy == gate[e].row.policy = "legacy"
  IN  /\ gate[e].at = "decide" /\ gate[e].row.life = "active"
      /\ gate' = [gate EXCEPT ![e].at = Outcome(gate[e].row),
                              ![e].seen = IF legacy THEN seen ELSE @,
                              ![e].lapsed = IF legacy THEN Lapsed(e) ELSE @]
      /\ Quietly /\ GateOnly

Unmoved(e) == child.rev = gate[e].row.rev /\ child.life = "active"

\* What was escalated for its misalignment is approved: of a hybrid session by a human,
\* if it has not moved; of a legacy session, of which the barrier is told (acknowledge),
\* by a human or by the Judge.
Approve(e) ==
  /\ \/ /\ gate[e].at = "judged" /\ Unmoved(e)
        /\ UNCHANGED <<misaligned, overridden>>
     \/ /\ gate[e].at = "escalated"
        /\ misaligned' = FALSE /\ overridden' = TRUE
  /\ child' = [Moved(child) EXCEPT !.state = "ready", !.acked = TRUE]
  /\ seen' = [seen EXCEPT !.v = gate[e].row.v, !.ok = TRUE]
  /\ gate' = [gate EXCEPT ![e].at = "approved"]
  /\ waived' = (waived \/ gate[e].row.v # child.v)
  /\ GateOnly

-----------------------------------------------------------------------------
Clients ==
  \/ Tell \/ Message \/ Store \/ NotStored \/ Chain
  \/ StoreParent \/ Recheck \/ Sweep \/ Restart
  \/ \E on \in BOOLEAN : Toggle(on)
  \/ \E p \in Policies : Activate(p)
  \/ \E life \in Open \cup {"ended"} : Lifecycle(life)

Checking(k) == Start(k) \/ Answer(k) \/ Conclude(k) \/ Abort(k) \/ CleanUp(k)

Gate(e) ==
  \/ Enter(e) \/ Updated(e) \/ Hurry(e) \/ Released(e) \/ TimesOut(e) \/ Read(e)
  \/ CheckNow(e) \/ Resume(e) \/ DenyEnded(e) \/ Decide(e) \/ Approve(e)

Next ==
  \/ Clients
  \/ \E k \in Check : Checking(k)
  \/ \E e \in Evaluation : Gate(e)

Spec == Init /\ [][Next]_vars

\* The event loop goes on and a review has a timeout; no wait is assumed to time
\* out, and nothing is assumed of clients.
Fairness ==
  /\ \A k \in Check : WF_vars(Checking(k))
  /\ \A e \in Evaluation : WF_vars(Released(e))

-----------------------------------------------------------------------------
Live(k) == checks[k].task \in {"new", "call"} /\ ~checks[k].cancelled

\* The check that is under way is the one the next evaluation waits for.
CurrentCheckAwaited ==
  \A k \in Check : Live(k) => check = k /\ ~checks[k].event

\* A call of a child with guardrails passes only if its intention, as it was when the
\* call was past the intention barrier, or a later one, was found compatible or was
\* approved, by a human or (legacy) the Judge; an approval stands until it is cleared.
\* Not so if the operator bound the child's outcomes to approve, if the call did not
\* wait, came while the child had opted out or before the trigger, and if the check was
\* lost with the update it was to follow, gave way to the approval of a call made under
\* an earlier intention, (legacy) failed, was forgotten or was revoked by an opt-out, or
\* was another engine's than the one the call or the child has now.
PassedIsCompatible ==
  [][\A e \in Evaluation :
       (/\ gate'[e].at = "passed" /\ gate[e].at = "decide"
        /\ gate[e].row.on /\ gate[e].row.policy # "bound"
        /\ ~gate[e].hurried /\ ~gate'[e].lapsed)
       => gate'[e].seen.ok /\ gate'[e].seen.v >= gate[e].v0]_vars

\* A hybrid child is ready only for the intention it has: that one was found
\* compatible, or is the one its human saw and approved.  Not so if the check was lost
\* with the update it was to follow, and until the first verdict after hybrid_v1 was
\* activated for a legacy child, which leaves it ready as it was created.
ReadyIsForThisIntention ==
  (hybrid /\ child.on /\ child.state = "ready" /\ own = "none" /\ ~waived)
  => seen.ok /\ seen.v = child.v

\* What recheck_children() is for: a child that stays misaligned was compared with
\* the intention its parent has now.
MisalignedWithPresentParent ==
  (/\ child.state = "misaligned" \/ misaligned
   /\ child.on /\ child.life = "active" /\ ~child.acked
   /\ moves = MaxMoves
   /\ check = 0 /\ own = "none" /\ above = "none" /\ owed = {})
  => seen.pv = parent

\* Every check ends.
ChecksEnd == \A k \in Check : checks[k].task = "new" ~> checks[k].task = "gone"
=============================================================================
