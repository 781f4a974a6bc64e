---------------------------- MODULE MCEventSpool ----------------------------
(* Small instances of EventSpool for TLC. *)
EXTENDS EventSpool, TLC

CONSTANTS x, y, p, q

One == {1}
Two == {1, 2}

\* Two batches of one session ...
SameSession == (x :> 1) @@ (y :> 1)
\* ... or of two.
OwnSession == (x :> 1) @@ (y :> 2)

Sizes == (x :> 1) @@ (y :> 2)
Ones == (x :> 1) @@ (y :> 1)

Faults(crash, arch, read, db, disk, loss, del, any) ==
  [crash |-> crash, archive |-> arch, read |-> read, database |-> db, disk |-> disk,
   loss |-> loss, delete |-> del, any |-> any]

\* Any two faults, a loss and a deletion among them ...
AnyFaults  == Faults(2, 1, 1, 1, 1, 1, 1, 3)
\* ... those from which the flusher or the next start recover ...
LiveFaults == Faults(0, 1, 0, 0, 0, 0, 1, 2)
\* ... and one.
ReadFault  == Faults(0, 0, 1, 0, 0, 0, 0, 1)
=============================================================================
