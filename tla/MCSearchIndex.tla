---------------------------- MODULE MCSearchIndex ----------------------------
(* The search outbox of one process and of two, and the liveness of the MCP   *)
(* connections, each by itself, in one run of TLC.                             *)
EXTENDS SearchIndex, TLC

CONSTANTS p1, p2, post, Nobody, callA, callB, srvA

VARIABLES which, place, server, client, mine, future, awaited, cache, link, owner, mutex,
          idle, lockOf, holder, line, taskOf, queue, doing, ended, exec, marks, sent,
          answered, orphaned, created, spent

mcpVars == <<place, server, client, mine, future, awaited, cache, link, owner, mutex, idle,
             lockOf, holder, line, taskOf, queue, doing, ended, exec, marks, sent, answered,
             orphaned, created, spent>>

Server == post :> p1

\* Two processes that share the outbox, of which one starts with another
\* configuration.  The instance itself has that one alone, and it is asked to reindex.
Shared == INSTANCE SearchIndex WITH
  Process <- {p1, p2}, Request <- {}, ServedBy <- <<>>

\* Two calls of one server.
C == INSTANCE McpConnections WITH
  ToolCall <- {callA, callB}, Server <- {srvA}, MaxPerUser <- 1, MaxMade <- 4,
  MaxCancels <- 1, MaxSweeps <- 1, MaxDeaths <- 0

ASSUME SharedBounds == Shared!SearchAssumption

\* Calls that stand still have ended: nothing of them is enabled.
PartsInit ==
  /\ which \in {"alone", "shared", "calls"}
  /\ IF which = "shared" THEN Shared!Init ELSE Init
  /\ C!McpInitAt(IF which = "calls" THEN "fast" ELSE "end")

PartsNext ==
  /\ UNCHANGED which
  /\ \/ which = "alone" /\ Next /\ UNCHANGED mcpVars
     \/ which = "shared" /\ Shared!Next /\ UNCHANGED mcpVars
     \/ which = "calls" /\ C!McpNext /\ UNCHANGED vars

\* The Fairness of SearchIndex, while it is under way.
AloneFairness ==
  LET Going(A) == which = "alone" /\ A IN
  /\ \A p \in Process :
       /\ WF_vars(Going(Drains(p))) /\ WF_vars(Going(Walks(p)))
       /\ WF_vars(Going(Writes(p))) /\ WF_vars(Going(Turns(p)))
  /\ \A c \in Caller : WF_vars(Going(Answers(c)))
  /\ \A r \in Row : WF_vars(Going(Expire(r))) /\ WF_vars(Going(Ripen(r)))

SharedFairness ==
  LET Going(A) == which = "shared" /\ A IN
  /\ \A p \in {p1, p2} :
       /\ WF_vars(Going(Shared!Drains(p))) /\ WF_vars(Going(Shared!Walks(p)))
       /\ WF_vars(Going(Shared!Writes(p))) /\ WF_vars(Going(Shared!Turns(p)))
       /\ WF_vars(Going(Shared!Answers(p)))
  /\ \A r \in Row : WF_vars(Going(Shared!Expire(r))) /\ WF_vars(Going(Shared!Ripen(r)))

LiveParts ==
  /\ PartsInit /\ [][PartsNext]_<<which, vars, mcpVars>>
  /\ AloneFairness /\ SharedFairness /\ C!Fairness

CallsEnd == C!CallsEnd
=============================================================================
