----------------------------- MODULE MCServices -----------------------------
(* Small instances of LegacyReview and of McpConnections for TLC: one run     *)
(* checks each by itself, while the other stands still.                       *)
EXTENDS LegacyReview, McpConnections, TLC

CONSTANTS c1, c2, edit, callA, callB, srvA, srvB

\* Which of them it is.
VARIABLE which

\* Edits of one directory: attended, unattended, through the proxy, or under a floor
\* with or without the approval of a call.
EditAt  == edit :> "src"
EditsBy == edit :> "edit"
Ask(floor, lone, route, ref) ==
  [action |-> edit, floor |-> floor, lone |-> lone, route |-> route, ref |-> ref]
Asks == {Ask("none", lone, "api", NoCall) : lone \in BOOLEAN}
        \cup {Ask("none", FALSE, "mcp", NoCall)}
        \cup {Ask("escalate", FALSE, "api", ref) : ref \in {NoCall, c1, c2}}

\* A plain policy, a ceiling, a floor.
Bounds(max, min) == [max |-> max, min |-> min, alone |-> FALSE, allowed |-> None]
Policies == {Bounds("none", "none"), Bounds("escalate", "none"), Bounds("none", "escalate")}

\* The automatic Judge meets the plain policy only.
ServicesInit ==
  /\ which \in {"legacy", "mcp"}
  /\ Init /\ McpInit
  /\ mode = "auto" => policy = Bounds("none", "none")
  /\ which = "mcp" => mode = "auto"
  /\ which = "legacy" => \A c \in ToolCall : server[c] = server[Sweeper]

ServicesNext ==
  /\ UNCHANGED which
  /\ \/ which = "legacy" /\ Next /\ UNCHANGED mcpVars
     \/ which = "mcp" /\ McpNext /\ UNCHANGED vars

ServicesSpec == ServicesInit /\ [][ServicesNext]_<<which, vars, mcpVars>>

\* The calls are alike, and so are the proxied ones.
Alike == Permutations({c1, c2}) \cup Permutations(ToolCall)
=============================================================================
