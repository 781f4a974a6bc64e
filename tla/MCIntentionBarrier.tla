------------------------- MODULE MCIntentionBarrier -------------------------
(* A small instance of IntentionBarrier for TLC and, each by itself in one    *)
(* run, one of TaskQueue for the liveness of its rows.                        *)
EXTENDS IntentionBarrier, TLC

CONSTANTS r1, e1, t1, t2, root, other, w1, scope, NoSession, NoTask

VARIABLES which, status, retries, due, stale, lease, stamped, enabled, revision, observed,
          origin, pc, job, ticket, snap, watched, used, scoped, beating, claims, faults,
          lastWrite, credit, bootstraps

queueVars == <<status, retries, due, stale, lease, stamped, enabled, revision, observed,
               origin, pc, job, ticket, snap, watched, used, scoped, beating, claims, faults,
               lastWrite, credit, bootstraps>>

\* One worker, the analysis of two roots, and the summary of one that holds it
\* back; that root opts out once.
Q == INSTANCE TaskQueue WITH
  token <- lease, stamp <- stamped, source <- origin,
  Task <- {t1, t2}, Session <- {root, other}, Worker <- {w1},
  KindOf <- (t1 :> "analysis") @@ (t2 :> "summary"),
  SessionOf <- (t1 :> NoSession) @@ (t2 :> root),
  ScopeOf <- (t1 :> scope) @@ (t2 :> scope),
  PriorityOf <- (t1 :> 2) @@ (t2 :> 1),
  Descendants <- (root :> {}) @@ (other :> {}),
  RootScope <- (root :> scope) @@ (other :> scope),
  MaxRevision <- [analytics |-> (root :> 2) @@ (other :> 1),
                  guardrails |-> (root :> 1) @@ (other :> 1)],
  Talkers <- {}, MaxRetries <- 2, MaxClaims <- 5, MaxFaults <- 1

PartsInit ==
  /\ which \in {"intention", "queue"}
  /\ Init
  /\ which = "queue" => single
  /\ Q!Init

PartsNext ==
  /\ UNCHANGED which
  /\ \/ which = "intention" /\ Next /\ UNCHANGED queueVars
     \/ which = "queue" /\ Q!Next /\ UNCHANGED vars

\* Nothing of a part that stands still is enabled but its clients.
LiveParts ==
  PartsInit /\ [][PartsNext]_<<which, vars, queueVars>> /\ Fairness /\ Q!Fairness

EventuallySettled == Q!EventuallySettled
=============================================================================
