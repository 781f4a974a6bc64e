-------------------------- MODULE MCAuthorization --------------------------
(* A small instance of Authorization for TLC. *)
EXTENDS Authorization, TLC

CONSTANTS root, look, c1, e1, e2

\* A session of its own.
Alone == root :> NoSession

\* A look needs nobody.
Free == look :> "none"

\* How far clients, sweeps and other writers move it.
Once == root :> 3

Symmetric == Permutations({e1, e2})
=============================================================================
