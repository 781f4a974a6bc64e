--------------------------- MODULE MCLegacyReview ---------------------------
(* A small instance of LegacyReview for TLC: two reads outside the project,  *)
(* one of them by an unattended task.                                        *)
EXTENDS LegacyReview, TLC

CONSTANTS c1, c2, look

Looks == look :> "look"
Outside == look :> "elsewhere"
Asks == {[action |-> look, floor |-> "none", lone |-> lone, route |-> "api", ref |-> NoCall] :
           lone \in BOOLEAN}
Plain == {[max |-> "none", min |-> "none", alone |-> FALSE, allowed |-> None]}

\* "Prior human or Judge approvals are never reused to bypass review for a later
\* unattended call" (docs/minimum-outcome.md): what lets an unattended call pass
\* without the model is no cached approval of theirs.
UnattendedReviewedAnew ==
  \A c \in made :
    row[c].lone /\ row[c].effect = "approve" /\ row[c].by = None =>
      row[c].from \notin {"user", "judge"}
=============================================================================
