--------------------------- MODULE McpConnections ---------------------------
(***************************************************************************)
(* Upstream tool calls of one user: the connection cache of the MCP client  *)
(* (mcp/client.py, MCPConnectionManager), the lifecycle tasks that open and *)
(* close the connections of a server, and the proxied call that uses them   *)
(* (mcp/proxy.py, call_tool_rest) with the execution claim of its audit row *)
(* (audit.py, mark_execution).                                              *)
(*                                                                          *)
(* One action is what a coroutine does between two suspensions, one step of *)
(* a lifecycle task, or one transaction of a thread.  An asyncio.Lock that  *)
(* was released belongs to nobody until the first of its waiters runs.      *)
(***************************************************************************)
EXTENDS Naturals, FiniteSets, Sequences

CONSTANTS
  ToolCall,    \* proxied calls, each with its admitted audit row
  Server,      \* upstream servers of the user
  Nobody,
  MaxPerUser,  \* _MAX_CONNECTIONS_PER_USER, 10 in the code
  MaxMade,     \* bound: connections, lifecycle tasks and locks made, each
  MaxCancels,  \* bound: calls cancelled
  MaxSweeps,   \* bound: passes of the idle sweep
  MaxDeaths    \* bound: upstream connections that break

Sweeper == "sweeper"
Actor   == ToolCall \cup {Sweeper}
Id      == 1..MaxMade

ASSUME McpAssumption ==
  /\ Nobody \notin Actor /\ Sweeper \notin ToolCall
  /\ MaxMade \in Nat /\ MaxPerUser \in Nat
  /\ MaxCancels \in Nat /\ MaxSweeps \in Nat /\ MaxDeaths \in Nat

VARIABLES
  place,     \* where each call, and the sweep, is
  server,    \* the server of a call, or the one the sweep is closing
  client,    \* the ClientSession a call has; 0 for none
  mine,      \* the lock object a call waits for or holds; 0 for none
  future,    \* the future of the operation an actor submitted
  awaited,   \* the lifecycle task whose end an actor waits for; 0 for none
  cache,     \* _connections; 0 for none
  link,      \* what became of each connection
  owner,     \* owner_task_id
  mutex,     \* who holds _lock over a suspension
  idle,      \* the connections a pass of the sweep has still to close
  lockOf,    \* _connect_locks; 0 for none
  holder,    \* of each lock object
  line,      \* its waiters
  taskOf,    \* _lifecycle_tasks; 0 for none
  queue,     \* operations each lifecycle task has still to run
  doing,     \* the operation it is running
  ended,     \* lifecycle tasks that returned
  exec,      \* execution_state of each call's audit row
  marks,     \* mark_execution threads of a call that are still to commit
  sent,      \* history: the call was sent upstream
  answered,  \* history: its answer arrived
  orphaned,  \* history: the sweep dropped a lock that was being handed over
  created,   \* how many connections, tasks and locks there have been
  spent      \* faults so far

callVars == <<place, server, client, mine, future, awaited>>
poolVars == <<cache, link, owner, mutex, idle>>
lockVars == <<lockOf, holder, line, orphaned>>
taskVars == <<taskOf, queue, doing, ended>>
rowVars  == <<exec, marks, sent, answered>>
mcpVars  == <<callVars, poolVars, lockVars, taskVars, rowVars, created, spent>>

Op(kind, a) == [kind |-> kind, by |-> a]
Resting     == Op("none", Nobody)
\* What runs: a call's connect, a close for a call or the sweep, or the end (None).
Operation   == {Op(kind, a) : kind \in {"connect", "close", "stop", "none"},
                              a \in Actor \cup {Nobody}}

McpTypeOK ==
  /\ place \in [Actor -> {"fast", "line", "recheck", "connect", "failing", "claim",
       "send", "call", "record", "doubt", "evict", "close", "closing", "unhook", "end"}]
  /\ server \in [Actor -> Server]
  /\ client \in [Actor -> 0..MaxMade]
  /\ mine \in [Actor -> 0..MaxMade]
  /\ future \in [Actor -> {"none", "pending", "ok", "error", "cancelled"}]
  /\ awaited \in [Actor -> 0..MaxMade]
  /\ cache \in [Server -> 0..MaxMade]
  /\ link \in [Id -> {"new", "open", "dead", "closing", "closed"}]
  /\ owner \in [Id -> 0..MaxMade]
  /\ mutex \in Actor \cup {Nobody}
  /\ idle \in SUBSET Server
  /\ lockOf \in [Server -> 0..MaxMade]
  /\ holder \in [Id -> Actor \cup {Nobody}]
  /\ line \in [Id -> Seq(Actor)]
  /\ taskOf \in [Server -> 0..MaxMade]
  /\ queue \in [Id -> Seq(Operation)]
  /\ doing \in [Id -> Operation]
  /\ ended \in SUBSET Id
  /\ exec \in [ToolCall -> {"not_dispatched", "dispatched", "completed", "uncertain"}]
  /\ marks \in [ToolCall -> SUBSET {"dispatched", "completed", "uncertain"}]
  /\ sent \in SUBSET ToolCall /\ answered \in SUBSET ToolCall
  /\ orphaned \in BOOLEAN
  /\ created \in [{"link", "task", "lock"} -> 0..MaxMade]
  /\ spent \in [{"cancels", "sweeps", "deaths"} -> Nat]

\* Calls start at their look into the cache.
McpInitAt(start) ==
  /\ place = [a \in Actor |-> IF a = Sweeper THEN "end" ELSE start]
  /\ server \in [Actor -> Server] /\ server[Sweeper] = CHOOSE s \in Server : TRUE
  /\ client = [a \in Actor |-> 0] /\ mine = [a \in Actor |-> 0]
  /\ future = [a \in Actor |-> "none"] /\ awaited = [a \in Actor |-> 0]
  /\ cache = [s \in Server |-> 0]
  /\ link = [i \in Id |-> "new"] /\ owner = [i \in Id |-> 0]
  /\ mutex = Nobody /\ idle = {}
  /\ lockOf = [s \in Server |-> 0]
  /\ holder = [i \in Id |-> Nobody] /\ line = [i \in Id |-> <<>>]
  /\ taskOf = [s \in Server |-> 0] /\ queue = [i \in Id |-> <<>>]
  /\ doing = [i \in Id |-> Resting] /\ ended = {}
  /\ exec = [c \in ToolCall |-> "not_dispatched"] /\ marks = [c \in ToolCall |-> {}]
  /\ sent = {} /\ answered = {}
  /\ orphaned = FALSE
  /\ created = [x \in {"link", "task", "lock"} |-> 0]
  /\ spent = [x \in {"cancels", "sweeps", "deaths"} |-> 0]

McpInit == McpInitAt("fast")

(***************************************************************************)
(* Submitting an operation to the lifecycle task of a server (_ensure_      *)
(* lifecycle_task and _run_in_lifecycle_task), and stopping that task.      *)
(***************************************************************************)
\* A task that ended is replaced by one that serves what is left of its queue.
Submit(a, s, kind) ==
  LET t    == taskOf[s]
      anew == t = 0 \/ t \in ended
      u    == IF anew THEN created.task + 1 ELSE t
      rest == IF t = 0 THEN <<>> ELSE queue[t]
  IN  /\ u \in Id
      /\ taskOf' = [taskOf EXCEPT ![s] = u]
      /\ queue' = [queue EXCEPT ![u] = Append(rest, Op(kind, a))]
      /\ created' = [created EXCEPT !.task = IF anew THEN u ELSE @]
      /\ future' = [future EXCEPT ![a] = "pending"]
      /\ UNCHANGED <<doing, ended>>

\* Put None and wait for the task, if there is one.
Unhook(a, s, then) ==
  /\ awaited' = [awaited EXCEPT ![a] = taskOf[s]]
  /\ queue' = IF taskOf[s] = 0 THEN queue
              ELSE [queue EXCEPT ![taskOf[s]] = Append(@, Op("stop", a))]
  /\ place' = [place EXCEPT ![a] = then]
  /\ UNCHANGED <<taskOf, doing, ended>>

Unhooked(a) == awaited[a] = 0 \/ awaited[a] \in ended

\* Whatever task is registered by then is popped.
Forget(a, s) ==
  /\ taskOf' = IF awaited[a] = 0 THEN taskOf ELSE [taskOf EXCEPT ![s] = 0]
  /\ UNCHANGED <<queue, doing, ended>>

(***************************************************************************)
(* The lifecycle task of a server (_lifecycle_loop)                         *)
(***************************************************************************)
Working(t) == t <= created.task /\ t \notin ended

Ready(t) == Working(t) /\ doing[t] = Resting /\ queue[t] # <<>>

Pop(t) == queue' = [queue EXCEPT ![t] = Tail(@)]

\* A connection is opened by this task, unless its caller is gone.
BeginConnect(t) ==
  /\ Ready(t) /\ Head(queue[t]).kind = "connect" /\ Pop(t)
  /\ doing' = IF future[Head(queue[t]).by] = "cancelled" THEN doing
              ELSE [doing EXCEPT ![t] = Head(queue[t])]
  /\ UNCHANGED <<callVars, poolVars, lockVars, taskOf, ended, rowVars, created, spent>>

\* _close_connection leaves a connection of another task open.
Closable(i, t) == i # 0 /\ owner[i] = t

BeginClose(t) ==
  LET op == Head(queue[t])
      i  == cache[server[op.by]]
  IN  /\ Ready(t) /\ op.kind = "close" /\ Pop(t)
      /\ cache' = [cache EXCEPT ![server[op.by]] = 0]
      /\ IF Closable(i, t)
           THEN /\ link' = [link EXCEPT ![i] = "closing"]
                /\ doing' = [doing EXCEPT ![t] = op]
                /\ UNCHANGED future
           ELSE /\ future' = [future EXCEPT ![op.by] = "ok"]
                /\ UNCHANGED <<link, doing>>
      /\ UNCHANGED <<place, server, client, mine, awaited, owner, mutex, idle, lockVars,
                     taskOf, ended, rowVars, created, spent>>

BeginStop(t) ==
  /\ Ready(t) /\ Head(queue[t]).kind = "stop" /\ Pop(t)
  /\ ended' = ended \cup {t}
  /\ UNCHANGED <<callVars, poolVars, lockVars, taskOf, doing, rowVars, created, spent>>

\* The result goes to a future that nobody cancelled.
SetResult(a, outcome) ==
  future' = IF future[a] = "cancelled" THEN future ELSE [future EXCEPT ![a] = outcome]

FinishConnect(t) ==
  LET a == doing[t].by
      i == created.link + 1
  IN  /\ Working(t) /\ doing[t].kind = "connect"
      /\ doing' = [doing EXCEPT ![t] = Resting]
      /\ \/ /\ i \in Id
            /\ link' = [link EXCEPT ![i] = "open"]
            /\ owner' = [owner EXCEPT ![i] = t]
            /\ created' = [created EXCEPT !.link = i]
            /\ SetResult(a, "ok")
            /\ client' = IF future[a] = "cancelled" THEN client ELSE [client EXCEPT ![a] = i]
         \/ /\ SetResult(a, "error")
            /\ UNCHANGED <<link, owner, created, client>>
      /\ UNCHANGED <<place, server, mine, awaited, cache, mutex, idle, lockVars, taskOf,
                     queue, ended, rowVars, spent>>

\* aclose returns, or is given up after three seconds.
FinishClose(t) ==
  LET a == doing[t].by
  IN  /\ Working(t) /\ doing[t].kind = "close"
      /\ doing' = [doing EXCEPT ![t] = Resting]
      /\ link' = [i \in Id |-> IF link[i] = "closing" /\ owner[i] = t THEN "closed" ELSE link[i]]
      /\ \E outcome \in {"ok", "error"} : SetResult(a, outcome)
      /\ UNCHANGED <<place, server, client, mine, awaited, cache, owner, mutex, idle, lockVars,
                     taskOf, queue, ended, rowVars, created, spent>>

\* Mutant: no connect lock.
FreeAlways(l) == TRUE

(***************************************************************************)
(* The connect lock of a server, and get_or_connect                         *)
(***************************************************************************)
Free(l) == holder[l] = Nobody /\ line[l] = <<>>

Release(c) ==
  holder' = [l \in Id |-> IF holder[l] = c THEN Nobody ELSE holder[l]]

\* The admission may have expired; otherwise a thread claims the dispatch.
Use(c, i) ==
  /\ client' = [client EXCEPT ![c] = i]
  /\ \/ /\ marks' = [marks EXCEPT ![c] = @ \cup {"dispatched"}]
        /\ place' = [place EXCEPT ![c] = "claim"]
     \/ /\ UNCHANGED marks
        /\ place' = [place EXCEPT ![c] = "end"]

Limit == Cardinality({s \in Server : cache[s] # 0}) >= MaxPerUser

Cached(c) ==
  /\ place[c] = "fast" /\ mutex = Nobody
  /\ cache[server[c]] # 0
  /\ Use(c, cache[server[c]])
  /\ UNCHANGED <<server, mine, future, awaited, poolVars, lockVars, taskVars, exec, sent,
                 answered, created, spent>>

\* The refusal is an exception like any other: its handler evicts.
Refused(c) ==
  /\ place[c] = "fast" /\ mutex = Nobody
  /\ cache[server[c]] = 0 /\ Limit
  /\ place' = [place EXCEPT ![c] = "evict"]
  /\ UNCHANGED <<server, client, mine, future, awaited, poolVars, lockVars, taskVars,
                 rowVars, created, spent>>

\* A lock that is free is taken; a lock that is being handed over is not.
Lock(c) ==
  LET s == server[c]
      l == IF lockOf[s] = 0 THEN created.lock + 1 ELSE lockOf[s]
  IN  /\ place[c] = "fast" /\ mutex = Nobody
      /\ cache[s] = 0 /\ ~Limit
      /\ l \in Id
      /\ lockOf' = [lockOf EXCEPT ![s] = l]
      /\ mine' = [mine EXCEPT ![c] = l]
      /\ \/ /\ Free(l)
            /\ holder' = [holder EXCEPT ![l] = c]
            /\ place' = [place EXCEPT ![c] = "recheck"]
            /\ UNCHANGED line
         \/ /\ ~Free(l)
            /\ line' = [line EXCEPT ![l] = Append(@, c)]
            /\ place' = [place EXCEPT ![c] = "line"]
            /\ UNCHANGED holder
      /\ created' = [created EXCEPT !.lock = IF lockOf[s] = 0 THEN l ELSE @]
      /\ UNCHANGED <<server, client, future, awaited, poolVars, orphaned, taskVars, rowVars,
                     spent>>

\* The first waiter of a released lock runs.
HandOver(c) ==
  LET l == mine[c]
  IN  /\ place[c] = "line" /\ holder[l] = Nobody /\ Head(line[l]) = c
      /\ line' = [line EXCEPT ![l] = Tail(@)]
      /\ holder' = [holder EXCEPT ![l] = c]
      /\ place' = [place EXCEPT ![c] = "recheck"]
      /\ UNCHANGED <<server, client, mine, future, awaited, poolVars, lockOf, orphaned,
                     taskVars, rowVars, created, spent>>

Recheck(c) ==
  /\ place[c] = "recheck" /\ mutex = Nobody
  /\ \/ /\ cache[server[c]] # 0
        /\ Use(c, cache[server[c]])
        /\ Release(c)
        /\ UNCHANGED <<future, taskVars, created>>
     \/ /\ cache[server[c]] = 0
        /\ Submit(c, server[c], "connect")
        /\ place' = [place EXCEPT ![c] = "connect"]
        /\ UNCHANGED <<client, holder, marks>>
  /\ UNCHANGED <<server, mine, awaited, poolVars, lockOf, line, orphaned, exec, sent,
                 answered, spent>>

Store(c) ==
  /\ place[c] = "connect" /\ future[c] = "ok" /\ mutex = Nobody
  /\ cache' = [cache EXCEPT ![server[c]] = client[c]]
  /\ Use(c, client[c])
  /\ Release(c)
  /\ UNCHANGED <<server, mine, future, awaited, link, owner, mutex, idle, lockOf, line,
                 orphaned, taskVars, exec, sent, answered, created, spent>>

\* Mutant: the connect lock is given up before the task is stopped.
ConnectFailedUnlocked(c) ==
  /\ place[c] = "connect" /\ future[c] = "error"
  /\ Unhook(c, server[c], "failing")
  /\ Release(c)
  /\ UNCHANGED <<server, client, mine, future, poolVars, lockOf, line, orphaned, rowVars,
                 created, spent>>

ConnectFailed(c) ==
  /\ place[c] = "connect" /\ future[c] = "error"
  /\ Unhook(c, server[c], "failing")
  /\ UNCHANGED <<server, client, mine, future, poolVars, lockVars, rowVars, created, spent>>

Raise(c) ==
  /\ place[c] = "failing" /\ Unhooked(c)
  /\ Forget(c, server[c])
  /\ Release(c)
  /\ place' = [place EXCEPT ![c] = "evict"]
  /\ UNCHANGED <<server, client, mine, future, awaited, poolVars, lockOf, line, orphaned,
                 rowVars, created, spent>>

(***************************************************************************)
(* The proxied call and the execution claim of its row                      *)
(***************************************************************************)
Before(state) == IF state = "dispatched" THEN "not_dispatched" ELSE "dispatched"

\* Where a call waits for the thread that writes a state, and where it goes on.
Waits == [dispatched |-> "claim", completed |-> "record", uncertain |-> "doubt"]
Then  == [dispatched |-> "send", completed |-> "end", uncertain |-> "evict"]

\* Mutant: only the first claim is compared with the row.
ClaimableOnce(c, state) == state = "dispatched" => exec[c] = "not_dispatched"

Claimable(c, state) == exec[c] = Before(state)

\* A conflict is an exception that only passes through.
Mark(c, state) ==
  LET done == Claimable(c, state)
  IN  /\ state \in marks[c]
      /\ marks' = [marks EXCEPT ![c] = @ \ {state}]
      /\ exec' = IF done THEN [exec EXCEPT ![c] = state] ELSE exec
      /\ place' = IF place[c] # Waits[state] THEN place
                  ELSE [place EXCEPT ![c] = IF done THEN Then[state] ELSE "end"]
      /\ UNCHANGED <<server, client, mine, future, awaited, poolVars, lockVars, taskVars, sent,
                     answered, created, spent>>

Send(c) ==
  /\ place[c] = "send"
  /\ sent' = sent \cup {c}
  /\ place' = [place EXCEPT ![c] = "call"]
  /\ UNCHANGED <<server, client, mine, future, awaited, poolVars, lockVars, taskVars, exec,
                 marks, answered, created, spent>>

CallReturns(c) ==
  /\ place[c] = "call" /\ link[client[c]] = "open"
  /\ answered' = answered \cup {c}
  /\ marks' = [marks EXCEPT ![c] = @ \cup {"completed"}]
  /\ place' = [place EXCEPT ![c] = "record"]
  /\ UNCHANGED <<server, client, mine, future, awaited, poolVars, lockVars, taskVars, exec,
                 sent, created, spent>>

\* The connection is gone, the upstream fails, or no answer comes in time.
CallFails(c) ==
  /\ place[c] = "call"
  /\ marks' = [marks EXCEPT ![c] = @ \cup {"uncertain"}]
  /\ place' = [place EXCEPT ![c] = "doubt"]
  /\ UNCHANGED <<server, client, mine, future, awaited, poolVars, lockVars, taskVars, exec,
                 sent, answered, created, spent>>

\* Mutant: dispatched is set before its claim is committed.
DoubtsEarly(c) == place[c] \in {"claim", "send", "call", "record"}

\* What a cancelled call does before it goes: a dispatched one is in doubt.
Doubts(c) == place[c] \in {"call", "record"}

\* A call is cancelled at most once, and not in its handlers.
Cancel(c) ==
  /\ place[c] \in {"line", "recheck", "connect", "claim", "send", "call", "record"}
  /\ spent.cancels < MaxCancels
  /\ spent' = [spent EXCEPT !.cancels = @ + 1]
  /\ place' = [place EXCEPT ![c] = "end"]
  /\ marks' = IF Doubts(c) THEN [marks EXCEPT ![c] = @ \cup {"uncertain"}] ELSE marks
  /\ line' = [l \in Id |-> SelectSeq(line[l], LAMBDA x : x # c)]
  /\ future' = IF place[c] = "connect" THEN [future EXCEPT ![c] = "cancelled"] ELSE future
  /\ Release(c)
  /\ UNCHANGED <<server, client, mine, awaited, poolVars, lockOf, orphaned, taskVars, exec,
                 sent, answered, created>>

(***************************************************************************)
(* Closing: evict for a call, _sweep_idle for the sweep                     *)
(***************************************************************************)
\* The connection in the cache is closed, whichever it is.
Evictable(c) == cache[server[c]] # 0

Evict(c) ==
  /\ place[c] = "evict" /\ mutex = Nobody
  /\ \/ /\ ~Evictable(c)
        /\ place' = [place EXCEPT ![c] = "end"]
        /\ UNCHANGED <<mutex, future, taskVars, created>>
     \/ /\ Evictable(c)
        /\ mutex' = c
        /\ Submit(c, server[c], "close")
        /\ place' = [place EXCEPT ![c] = "closing"]
  /\ UNCHANGED <<server, client, mine, awaited, cache, link, owner, idle, lockVars, rowVars,
                 spent>>

\* After an error the entry is popped once more.
Closed(a) ==
  /\ place[a] = "closing" /\ future[a] \in {"ok", "error"}
  /\ cache' = IF future[a] = "error" THEN [cache EXCEPT ![server[a]] = 0] ELSE cache
  /\ Unhook(a, server[a], "unhook")
  /\ UNCHANGED <<server, client, mine, future, link, owner, mutex, idle, lockVars, rowVars,
                 created, spent>>

Evicted(c) ==
  /\ place[c] = "unhook" /\ Unhooked(c)
  /\ Forget(c, server[c])
  /\ mutex' = Nobody
  /\ place' = [place EXCEPT ![c] = "end"]
  /\ UNCHANGED <<server, client, mine, future, awaited, cache, link, owner, idle, lockVars,
                 rowVars, created, spent>>

\* Thirty minutes without use: no call is between getting a connection and its answer.
Unused(s) ==
  /\ cache[s] # 0
  /\ \A c \in ToolCall : place[c] \in {"claim", "send", "call"} => client[c] # cache[s]

\* Connect locks of servers without a connection go, unless they are held.
Stale(s) == lockOf[s] # 0 /\ cache[s] = 0 /\ holder[lockOf[s]] = Nobody

Tidy ==
  /\ lockOf' = [s \in Server |-> IF Stale(s) THEN 0 ELSE lockOf[s]]
  /\ orphaned' = (orphaned \/ \E s \in Server : Stale(s) /\ line[lockOf[s]] # <<>>)
  /\ UNCHANGED <<holder, line>>

\* The sweep closes its next connection, or tidies the locks and sleeps again.
Proceed(S) ==
  \/ /\ S = {} /\ Tidy
     /\ mutex' = Nobody
     /\ place' = [place EXCEPT ![Sweeper] = "end"]
     /\ UNCHANGED <<server, idle>>
  \/ /\ \E s \in S : server' = [server EXCEPT ![Sweeper] = s] /\ idle' = S \ {s}
     /\ mutex' = Sweeper
     /\ place' = [place EXCEPT ![Sweeper] = "close"]
     /\ UNCHANGED lockVars

Sweep ==
  /\ place[Sweeper] = "end" /\ mutex = Nobody /\ spent.sweeps < MaxSweeps
  /\ spent' = [spent EXCEPT !.sweeps = @ + 1]
  /\ \E S \in SUBSET {s \in Server : Unused(s)} : Proceed(S)
  /\ UNCHANGED <<client, mine, future, awaited, cache, link, owner, taskVars, rowVars, created>>

SweepClose ==
  /\ place[Sweeper] = "close"
  /\ Submit(Sweeper, server[Sweeper], "close")
  /\ place' = [place EXCEPT ![Sweeper] = "closing"]
  /\ UNCHANGED <<server, client, mine, awaited, poolVars, lockVars, rowVars, spent>>

Swept ==
  /\ place[Sweeper] = "unhook" /\ Unhooked(Sweeper)
  /\ Forget(Sweeper, server[Sweeper])
  /\ Proceed(idle)
  /\ UNCHANGED <<client, mine, future, awaited, cache, link, owner, rowVars, created, spent>>

\* The upstream of an open connection goes away.
Break(i) ==
  /\ link[i] = "open" /\ spent.deaths < MaxDeaths
  /\ spent' = [spent EXCEPT !.deaths = @ + 1]
  /\ link' = [link EXCEPT ![i] = "dead"]
  /\ UNCHANGED <<callVars, cache, owner, mutex, idle, lockVars, taskVars, rowVars, created>>

ProxyStep(c) ==
  \/ Cached(c) \/ Refused(c) \/ Lock(c) \/ HandOver(c) \/ Recheck(c) \/ Store(c)
  \/ ConnectFailed(c) \/ Raise(c) \/ Send(c) \/ CallReturns(c) \/ CallFails(c) \/ Evict(c)
  \/ Closed(c) \/ Evicted(c)

MarkStep(c) == \E state \in {"dispatched", "completed", "uncertain"} : Mark(c, state)

TaskStep(t) ==
  BeginConnect(t) \/ BeginClose(t) \/ BeginStop(t) \/ FinishConnect(t) \/ FinishClose(t)

SweepStep == SweepClose \/ Closed(Sweeper) \/ Swept

McpNext ==
  \/ \E c \in ToolCall : ProxyStep(c) \/ MarkStep(c) \/ Cancel(c)
  \/ \E t \in Id : TaskStep(t)
  \/ Sweep \/ SweepStep
  \/ \E i \in Id : Break(i)

\* Coroutines that can run do, threads commit, and connecting and closing end.
Fairness ==
  /\ \A c \in ToolCall : SF_mcpVars(ProxyStep(c)) /\ WF_mcpVars(MarkStep(c))
  /\ \A t \in Id : WF_mcpVars(TaskStep(t))
  /\ WF_mcpVars(SweepStep)

McpSpec     == McpInit /\ [][McpNext]_mcpVars
McpFairSpec == McpSpec /\ Fairness

(***************************************************************************)
(* Properties                                                               *)
(***************************************************************************)
\* The audit row of a call tells the truth, whatever is cancelled while a thread
\* still writes it: a call that was sent is no longer open to dispatch, one marked
\* completed was answered, and one in doubt was sent.
RowTellsTruth ==
  \A c \in ToolCall :
    /\ c \in sent => exec[c] # "not_dispatched"
    /\ exec[c] = "completed" => c \in answered
    /\ exec[c] = "uncertain" => c \in sent

\* A final execution state stays, although the thread that records the answer and
\* the one that a cancellation starts may both be on their way.
FinalStateStays ==
  [][\A c \in ToolCall : exec[c] \in {"completed", "uncertain"} => exec'[c] = exec[c]]_mcpVars

\* Concurrent first calls connect once: no connection is left open outside the cache,
\* but for the one about to be stored, unless a caller was cancelled over its connect
\* or a lock was dropped.
NoStrays ==
  \/ orphaned \/ spent.cancels > 0
  \/ \A i \in Id : link[i] = "open" =>
       \/ \E s \in Server : cache[s] = i
       \/ \E c \in ToolCall : place[c] = "connect" /\ future[c] = "ok" /\ client[c] = i

\* What a failed call evicts is the connection it failed on.
EvictsWhatFailed ==
  [][\A c \in ToolCall, i \in Id :
       (/\ link[i] = "open" /\ link'[i] = "closing"
        /\ mutex = c)
       => client[c] = i]_mcpVars

\* Every call ends: none waits for ever for a connection, its lock or a task that
\* was stopped.
CallsEnd == <>(orphaned \/ \A c \in ToolCall : place[c] = "end")
=============================================================================
