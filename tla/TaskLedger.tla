----------------------------- MODULE TaskLedger -----------------------------
(***************************************************************************)
(* What the analysis queue promises, without workers, sessions or clocks:   *)
(* every row is leased under a number that is never issued twice, only the  *)
(* current lease stores derived data or ends the row with a result, an      *)
(* attempt is spent only by a reported failure, and an ended row stays      *)
(* ended.                                                                   *)
(***************************************************************************)
EXTENDS Naturals

CONSTANTS Task, MaxRetries

VARIABLES
  phase,      \* the status of each row
  lease,      \* the number of its current or last lease; 0 for none
  issued,     \* the last lease number given out
  attempts,   \* failures reported so far
  applied,    \* the lease under which derived data was last stored
  credited    \* the lease whose result ended the row; 0 for none

vars == <<phase, lease, issued, attempts, applied, credited>>

Init ==
  /\ phase = [t \in Task |-> "absent"]
  /\ lease = [t \in Task |-> 0]
  /\ issued = 0
  /\ attempts = [t \in Task |-> 0]
  /\ applied = [t \in Task |-> 0]
  /\ credited = [t \in Task |-> 0]

Submit(t) ==
  /\ phase[t] = "absent"
  /\ phase' = [phase EXCEPT ![t] = "pending"]
  /\ UNCHANGED <<lease, issued, attempts, applied, credited>>

Lease(t) ==
  /\ phase[t] = "pending"
  /\ phase' = [phase EXCEPT ![t] = "running"]
  /\ issued' = issued + 1
  /\ lease' = [lease EXCEPT ![t] = issued + 1]
  /\ UNCHANGED <<attempts, applied, credited>>

\* Derived data is stored under the current lease only.
Apply(t) ==
  /\ phase[t] = "running"
  /\ applied' = [applied EXCEPT ![t] = lease[t]]
  /\ UNCHANGED <<phase, lease, issued, attempts, credited>>

\* The leaseholder ends the row; a failure spends the last attempt.
Settle(t) ==
  /\ phase[t] = "running"
  /\ credited' = [credited EXCEPT ![t] = lease[t]]
  /\ \/ /\ phase' = [phase EXCEPT ![t] = "completed"]
        /\ UNCHANGED attempts
     \/ /\ attempts[t] + 1 >= MaxRetries
        /\ phase' = [phase EXCEPT ![t] = "failed"]
        /\ attempts' = [attempts EXCEPT ![t] = @ + 1]
  /\ UNCHANGED <<lease, issued, applied>>

\* The leaseholder reports a failure and attempts are left.
Retry(t) ==
  /\ phase[t] = "running"
  /\ attempts[t] + 1 < MaxRetries
  /\ phase' = [phase EXCEPT ![t] = "pending"]
  /\ lease' = [lease EXCEPT ![t] = 0]
  /\ attempts' = [attempts EXCEPT ![t] = @ + 1]
  /\ UNCHANGED <<issued, applied, credited>>

\* Abandoned leases are taken back; no attempt is spent.
Reclaim(S) ==
  /\ \A t \in S : phase[t] = "running"
  /\ phase' = [t \in Task |-> IF t \in S THEN "pending" ELSE phase[t]]
  /\ lease' = [t \in Task |-> IF t \in S THEN 0 ELSE lease[t]]
  /\ UNCHANGED <<issued, attempts, applied, credited>>

\* Rows are withdrawn, leased or not.
Cancel(S) ==
  /\ \A t \in S : phase[t] \in {"pending", "running"}
  /\ phase' = [t \in Task |-> IF t \in S THEN "cancelled" ELSE phase[t]]
  /\ lease' = [t \in Task |-> IF t \in S THEN 0 ELSE lease[t]]
  /\ UNCHANGED <<issued, attempts, applied, credited>>

Forget(t) ==
  /\ phase[t] \in {"completed", "failed"}
  /\ phase' = [phase EXCEPT ![t] = "deleted"]
  /\ UNCHANGED <<lease, issued, attempts, applied, credited>>

Next ==
  \/ \E t \in Task : Submit(t) \/ Lease(t) \/ Apply(t) \/ Settle(t)
                     \/ Retry(t) \/ Forget(t)
  \/ \E S \in SUBSET Task : Reclaim(S) \/ Cancel(S)

Spec == Init /\ [][Next]_vars
=============================================================================
