------------------------ MODULE MCAuthorizationCalls ------------------------
(* Three small instances of Authorization for TLC, each by itself, in one run. *)
EXTENDS Authorization, TLC

CONSTANTS root, child, pay, look, wipe, c1, c2, c3, e1, e2, task

VARIABLE which

\* A session of its own, and with a child.
Alone  == root :> NoSession
Family == (root :> NoSession) @@ (child :> root)

\* A payment needs a human, a look needs nobody, a wipe is never allowed.
Floors == (pay :> "human") @@ (look :> "none") @@ (wipe :> "deny")

\* How far clients, sweeps and other writers move each.
Eventful == (root :> 3) @@ (child :> 2)

\* Two evaluations that compete under one logical call, free or with a human floor.
Contended == INSTANCE Authorization WITH
  Session     <- {root},
  ParentOf    <- Alone,
  Action      <- {pay, look},
  FloorOf     <- (pay :> "human") @@ (look :> "none"),
  Call        <- {c1, c2},
  MaxRevision <- root :> 2

\* Three calls in a row, free or under a denial floor, while the session is changed
\* in every way twice.
Changing == INSTANCE Authorization WITH
  Session     <- {root},
  ParentOf    <- Alone,
  MaxRevision <- root :> 3,
  Action      <- {look, wipe},
  FloorOf     <- (look :> "none") @@ (wipe :> "deny"),
  Logical     <- {},
  Evaluator   <- {e1}

\* Two evaluations that compete for a call of the child, while both change.
Inheriting == INSTANCE Authorization WITH
  Action      <- {look},
  FloorOf     <- look :> "none",
  Logical     <- {},
  Call        <- {c1},
  MaxRevision <- (root :> 2) @@ (child :> 2)

CallsInit == \/ which = "contended" /\ Contended!Init
             \/ which = "changing" /\ Changing!Init
             \/ which = "inheriting" /\ Inheriting!Init

CallsNext ==
  /\ UNCHANGED which
  /\ \/ which = "contended" /\ Contended!Next
     \/ which = "changing" /\ Changing!Next
     \/ which = "inheriting" /\ Inheriting!Next

\* The properties look at calls that were made only.
CallsSpec == CallsInit /\ [][CallsNext]_<<which, vars>>

Symmetric == Permutations({c1, c2, c3}) \cup Permutations({e1, e2})
=============================================================================
