---------------------------- MODULE MCTaskQueue ----------------------------
(* Two small instances of TaskQueue for TLC, each by itself, in one run.      *)
EXTENDS TaskQueue, TLC

CONSTANTS t1, t2, b1, b2, parent, child, other, lone, w1, w2, scope

VARIABLE which

\* The analysis of two roots behind the summary of one of them, which has a child;
\* and two bootstrap rows of another session.
Kinds      == (t1 :> "analysis") @@ (t2 :> "summary")
              @@ (b1 :> "intention_update") @@ (b2 :> "intention_update")
Sessions   == (t1 :> NoSession) @@ (t2 :> parent) @@ (b1 :> lone) @@ (b2 :> lone)
Scopes     == [t \in Task |-> scope]
Priorities == (t1 :> 2) @@ (t2 :> 1) @@ (b1 :> 1) @@ (b2 :> 1)
Tree       == [s \in Session |-> IF s = parent THEN {child} ELSE {}]
Roots      == [s \in Session |-> IF s \in {parent, other} THEN scope ELSE NoSession]

\* The last revision of each mode of each session: the root goes out once, its child
\* out and in again, and so do the guardrails of the bootstrapped session.
Toggles == [analytics  |-> (parent :> 2) @@ (child :> 3) @@ (other :> 1) @@ (lone :> 1),
            guardrails |-> [s \in Session |-> IF s = lone THEN 3 ELSE 1]]

\* Next, of the rows and sessions of one instance.
NextOf(T, S) ==
  \/ \E t \in T : Enqueue(t) \/ EnqueueBootstrap(t) \/ Cleanup(t) \/ BecomeDue(t) \/ LeaseAge(t)
  \/ \E s \in S : UserMessage(s) \/ StoreUserIntention(s)
                  \/ \E f \in Field : SetParticipation(f, s)
  \/ \E w \in Worker : Execute(w) \/ HeartbeatDies(w) \/ Crash(w) \/ \E t \in T : Claim(w, t)
  \/ ResetStale

PartsInit == which \in {"cohort", "twins"} /\ Init
PartsNext ==
  /\ UNCHANGED which
  /\ \/ which = "cohort" /\ NextOf({t1, t2}, {parent, child, other}) /\ claims' <= 3
     \/ which = "twins" /\ NextOf({b1, b2}, {lone})
PartsSpec == PartsInit /\ [][PartsNext]_<<which, vars>>

Workers == Permutations({w1, w2})
=============================================================================
