------------------------- MODULE MCAlignmentBarrier -------------------------
(* A small instance of AlignmentBarrier for TLC. *)
EXTENDS AlignmentBarrier

CONSTANT e1

LiveSpec == Spec /\ Fairness
=============================================================================
