-------------------------- MODULE MCAnalysisWakeup --------------------------
(* A small instance of AnalysisWakeup for TLC. *)
EXTENDS AnalysisWakeup, TLC

CONSTANTS a, b, loop

\* An analysis waits for a summary.
Waits == (a :> {}) @@ (b :> {a})
=============================================================================
