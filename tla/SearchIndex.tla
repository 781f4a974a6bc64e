---------------------------- MODULE SearchIndex ----------------------------
(***************************************************************************)
(* The vector tier of the search (search/service.py): documents of the        *)
(* database are queued in an outbox (search/outbox.py), claimed under a lease *)
(* by the indexers of all processes and stored as vectors; a reindex walks    *)
(* the documents again (search/state.py keeps its state for all processes).   *)
(*                                                                          *)
(* A coroutine runs on the event loop of its process until it awaits; what    *)
(* runs in a thread - the drain of the outbox, the walk, the writers - goes   *)
(* on when the loop stands still.  One transaction is one action.  Deletes    *)
(* have no caller and are left out; the embedding of a batch that fails is    *)
(* its rows failing one by one.                                               *)
(***************************************************************************)
EXTENDS Naturals, FiniteSets

CONSTANTS
  Process,     \* the processes that share the database
  Request,     \* POST /search/reindex calls
  ServedBy,    \* the process that serves a request
  Drifts,      \* processes that may start with another configuration
  Doc,         \* documents, as numbers: a later one has the later timestamp
  Page,        \* INTARIS_SEARCH_BACKFILL_BATCH_SIZE
  MaxAttempts, \* MAX_ATTEMPTS
  MaxRows,     \* bound: outbox rows
  MaxFaults,   \* bound: crashes, shutdowns, slow drains, failing transactions
  None

SearchAssumption ==
  /\ ServedBy \in [Request -> Process] /\ Request \cap Process = {} /\ Drifts \subseteq Process
  /\ Doc \subseteq Nat /\ Page \in Nat \ {0}
  /\ MaxAttempts \in Nat \ {0} /\ MaxRows \in Nat /\ MaxFaults \in Nat
  /\ None \notin Request \cup Process \cup Doc

ASSUME SearchBounds == SearchAssumption

Row == 1..MaxRows

VARIABLES
  docs,      \* documents committed
  owed,      \* those a writer's thread has committed and not yet queued
  outbox,    \* search_outbox; at: whether a row is due, claimed, ...
  rows,      \* the rows inserted so far
  vectors,   \* documents that are indexed
  job,       \* search_state.backfill_status
  life,      \* "closed": the service has stopped, the process not yet
  stuck,     \* its event loop waits for a thread's lock
  work,      \* the drain under way: rows to store, stored, skipped, attempts read
  call,      \* where a trigger_reindex is: a request's or a starting process's
  lock,      \* _backfill_lock
  walk,      \* _backfill_task
  faults

serverVars == <<life, stuck, call, lock>>
vars == <<docs, owed, outbox, rows, vectors, job, serverVars, work, walk, faults>>

Caller == Request \cup Process

Entry == [doc : Doc \cup {None}, attempts : Nat,
          at : {"none", "due", "later", "parked", "claimed", "stale", "gone", "lost"}]

Drain == [todo : SUBSET Row, good : SUBSET Row, skipped : SUBSET Row, read : [Row -> Nat]]

Walk == [at : {"none", "new", "walk", "end"}, offset : Nat, page : SUBSET Doc]

TypeOK ==
  /\ docs \subseteq Doc /\ vectors \subseteq Doc
  /\ owed \in [Process -> SUBSET Doc]
  /\ outbox \in [Row -> Entry] /\ rows \in 0..MaxRows
  /\ job \in {"idle", "queued", "running", "failed", "done"}
  /\ life \in [Process -> {"down", "up", "closed"}] /\ stuck \in [Process -> BOOLEAN]
  /\ work \in [Process -> Drain \cup {None}]
  /\ call \in [Caller -> {"idle", "enter", "count", "answered", "gone"}]
  /\ lock \in [Process -> Caller \cup {None}]
  /\ walk \in [Process -> Walk]
  /\ faults \in Nat

Unused == [doc |-> None, attempts |-> 0, at |-> "none"]

NoWalk == [at |-> "none", offset |-> 0, page |-> {}]

Init ==
  /\ docs = {} /\ vectors = {}
  /\ owed = [p \in Process |-> {}]
  /\ outbox = [r \in Row |-> Unused] /\ rows = 0
  /\ job = "idle"
  /\ life = [p \in Process |-> "down"] /\ stuck = [p \in Process |-> FALSE]
  /\ work = [p \in Process |-> None]
  /\ call = [c \in Caller |-> "idle"]
  /\ lock = [p \in Process |-> None]
  /\ walk = [p \in Process |-> NoWalk]
  /\ faults = MaxFaults

Home(c) == IF c \in Process THEN c ELSE ServedBy[c]

\* The event loop of a process runs its coroutines.
Loop(p) == life[p] = "up" /\ ~stuck[p]

\* Its threads run until they end, those of the executor after a shutdown too.
Threads(p) == life[p] # "down"

Fault == faults > 0 /\ faults' = faults - 1

-----------------------------------------------------------------------------
(* Writers: a document is committed, then queued in another transaction *)

Commit(p, d) ==
  /\ Loop(p) /\ d \notin docs
  /\ docs' = docs \cup {d}
  /\ owed' = [owed EXCEPT ![p] = @ \cup {d}]
  /\ UNCHANGED <<outbox, rows, vectors, job, serverVars, work, walk, faults>>

Insert(d) ==
  /\ rows < MaxRows
  /\ rows' = rows + 1
  /\ outbox' = [outbox EXCEPT ![rows + 1] = [doc |-> d, attempts |-> 0, at |-> "due"]]

Enqueue(p, d) ==
  /\ Threads(p) /\ d \in owed[p]
  /\ Insert(d)
  /\ owed' = [owed EXCEPT ![p] = @ \ {d}]
  /\ UNCHANGED <<docs, vectors, job, serverVars, work, walk, faults>>

\* The transaction fails: that is logged, and the document not queued.
EnqueueFails(p, d) ==
  /\ Threads(p) /\ d \in owed[p]
  /\ Fault
  /\ owed' = [owed EXCEPT ![p] = @ \ {d}]
  /\ UNCHANGED <<docs, outbox, rows, vectors, job, serverVars, work, walk>>

-----------------------------------------------------------------------------
(* The indexer of a process: _drain_outbox_once, in a thread *)

\* Mutant: a claim holds until its owner gives it up.
ClaimableUnclaimed == {r \in Row : outbox[r].at = "due"}

\* Rows that are due, and those whose claim is older than five minutes.
Claimable == {r \in Row : outbox[r].at \in {"due", "stale"}}

Claim(p) ==
  /\ Loop(p) /\ work[p] = None
  /\ Claimable # {}
  /\ outbox' = [r \in Row |-> IF r \in Claimable THEN [outbox[r] EXCEPT !.at = "claimed"]
                              ELSE outbox[r]]
  /\ work' = [work EXCEPT ![p] = [todo |-> Claimable, good |-> {}, skipped |-> {},
                                  read |-> [r \in Row |-> outbox[r].attempts]]]
  /\ UNCHANGED <<docs, owed, rows, vectors, job, serverVars, walk, faults>>

Store(p, r) ==
  /\ Threads(p) /\ work[p] # None /\ r \in work[p].todo
  /\ vectors' = vectors \cup {outbox[r].doc}
  /\ work' = [work EXCEPT ![p].todo = @ \ {r}, ![p].good = @ \cup {r}]
  /\ UNCHANGED <<docs, owed, outbox, rows, job, serverVars, walk, faults>>

\* Qdrant, once closed, takes what it is given and does nothing; pgvector has
\* nothing to close.
Skip(p, r) ==
  /\ life[p] = "closed" /\ work[p] # None /\ r \in work[p].todo
  /\ work' = [work EXCEPT ![p].todo = @ \ {r}, ![p].skipped = @ \cup {r}]
  /\ UNCHANGED <<docs, owed, outbox, rows, vectors, job, serverVars, walk, faults>>

\* mark_failed, with the attempts the claim has read; a row that is gone stays so.
Retried(r, attempts) ==
  IF outbox[r].at \in {"gone", "lost"} THEN outbox[r]
  ELSE [outbox[r] EXCEPT !.attempts = attempts,
                         !.at = IF attempts >= MaxAttempts THEN "parked" ELSE "later"]

\* The embedding or the vector store failed, before or after it took effect.
StoreFails(p, r) ==
  /\ Threads(p) /\ work[p] # None /\ r \in work[p].todo
  /\ vectors' \in {vectors, vectors \cup {outbox[r].doc}}
  /\ outbox' = [outbox EXCEPT ![r] = Retried(r, work[p].read[r] + 1)]
  /\ work' = [work EXCEPT ![p].todo = @ \ {r}]
  /\ UNCHANGED <<docs, owed, rows, job, serverVars, walk, faults>>

\* Mutant: all that this drain has claimed is taken for stored.
SuccessesAll(p) == {r \in Row : outbox[r].at = "claimed"}

Successes(p) == work[p].good

\* mark_done; "lost" is a row that is deleted and was skipped.
MarkDone(p) ==
  /\ Threads(p) /\ work[p] # None /\ work[p].todo = {}
  /\ outbox' = [r \in Row |->
       CASE outbox[r].at = "gone"   -> outbox[r]
         [] r \in Successes(p)      -> [outbox[r] EXCEPT !.at = "gone"]
         [] r \in work[p].skipped   -> [outbox[r] EXCEPT !.at = "lost"]
         [] OTHER                   -> outbox[r]]
  /\ work' = [work EXCEPT ![p] = None]
  /\ UNCHANGED <<docs, owed, rows, vectors, job, serverVars, walk, faults>>

\* A transaction of the drain fails and ends it; its claims stay.
DrainFails(p) ==
  /\ Threads(p) /\ work[p] # None
  /\ Fault
  /\ work' = [work EXCEPT ![p] = None]
  /\ UNCHANGED <<docs, owed, outbox, rows, vectors, job, serverVars, walk>>

\* Five minutes pass: after the end of the drain that has claimed the row, or,
\* a bounded number of times, while it is under way.
Expire(r) ==
  /\ outbox[r].at = "claimed"
  /\ IF \E p \in Process : work[p] # None /\ r \in work[p].todo \cup work[p].good \cup work[p].skipped
     THEN Fault ELSE UNCHANGED faults
  /\ outbox' = [outbox EXCEPT ![r].at = "stale"]
  /\ UNCHANGED <<docs, owed, rows, vectors, job, serverVars, work, walk>>

\* The backoff passes; a row that is parked waits for thirty days.
Ripen(r) ==
  /\ outbox[r].at = "later"
  /\ outbox' = [outbox EXCEPT ![r].at = "due"]
  /\ UNCHANGED <<docs, owed, rows, vectors, job, serverVars, work, walk, faults>>

-----------------------------------------------------------------------------
(* trigger_reindex *)

Post(c) ==
  /\ c \in Request /\ call[c] = "idle" /\ Loop(Home(c))
  /\ call' = [call EXCEPT ![c] = "enter"]
  /\ UNCHANGED <<docs, owed, outbox, rows, vectors, job, life, stuck, lock, work, walk, faults>>

\* The lock is a thread's: the loop waits for it, and with the loop everything
\* that runs on it, the coroutine that holds the lock among them.
Block(c) ==
  LET p == Home(c)
  IN  /\ call[c] = "enter" /\ Loop(p)
      /\ lock[p] # None
      /\ stuck' = [stuck EXCEPT ![p] = TRUE]
      /\ UNCHANGED <<docs, owed, outbox, rows, vectors, job, life, call, lock, work, walk, faults>>

\* A reindex that is running, here or elsewhere, is the answer; another is
\* prepared by a count in a thread, with the lock held.
Enter(c) ==
  LET p == Home(c)
  IN  /\ call[c] = "enter" /\ Loop(p)
      /\ lock[p] = None
      /\ IF job = "running"
         THEN call' = [call EXCEPT ![c] = "answered"] /\ UNCHANGED lock
         ELSE /\ call' = [call EXCEPT ![c] = "count"]
              /\ lock' = [lock EXCEPT ![p] = c]
      /\ UNCHANGED <<docs, owed, outbox, rows, vectors, job, life, stuck, work, walk, faults>>

\* The state says queued, and a walk is started unless one has not ended yet.
Schedule(c) ==
  LET p == Home(c)
  IN  /\ call[c] = "count" /\ Loop(p)
      /\ job' = "queued"
      /\ lock' = [lock EXCEPT ![p] = None]
      /\ call' = [call EXCEPT ![c] = "answered"]
      /\ walk' = IF walk[p].at = "none" THEN [walk EXCEPT ![p].at = "new"] ELSE walk
      /\ UNCHANGED <<docs, owed, outbox, rows, vectors, life, stuck, work, faults>>

CountFails(c) ==
  LET p == Home(c)
  IN  /\ call[c] = "count" /\ Loop(p)
      /\ Fault
      /\ lock' = [lock EXCEPT ![p] = None]
      /\ call' = [call EXCEPT ![c] = "gone"]
      /\ UNCHANGED <<docs, owed, outbox, rows, vectors, job, life, stuck, work, walk>>

-----------------------------------------------------------------------------
(* _run_backfill: on the loop, with the walk itself in a thread *)

Begin(p) ==
  /\ walk[p].at = "new" /\ Loop(p)
  /\ job' = "running"
  /\ walk' = [walk EXCEPT ![p].at = "walk"]
  /\ UNCHANGED <<docs, owed, outbox, rows, vectors, serverVars, work, faults>>

\* The page at an offset, newest first.
PageAt(offset) ==
  {d \in docs : Cardinality({e \in docs : e > d}) \in offset..(offset + Page - 1)}

Read(p) ==
  LET found == PageAt(walk[p].offset)
  IN  /\ walk[p].at = "walk" /\ Threads(p) /\ walk[p].page = {}
      /\ walk' = [walk EXCEPT ![p].at = IF found = {} THEN "end" ELSE "walk",
                             ![p].page = found, ![p].offset = @ + Page]
      /\ UNCHANGED <<docs, owed, outbox, rows, vectors, job, serverVars, work, faults>>

Revisit(p, d) ==
  /\ walk[p].at = "walk" /\ Threads(p) /\ d \in walk[p].page
  /\ Insert(d)
  /\ walk' = [walk EXCEPT ![p].page = @ \ {d}]
  /\ UNCHANGED <<docs, owed, vectors, job, serverVars, work, faults>>

WalkFails(p) ==
  /\ walk[p].at = "walk" /\ Loop(p)
  /\ Fault
  /\ job' = "failed"
  /\ walk' = [walk EXCEPT ![p] = NoWalk]
  /\ UNCHANGED <<docs, owed, outbox, rows, vectors, serverVars, work>>

EndWalk(p) ==
  /\ walk[p].at = "end" /\ Loop(p)
  /\ job' = "done"
  /\ walk' = [walk EXCEPT ![p] = NoWalk]
  /\ UNCHANGED <<docs, owed, outbox, rows, vectors, serverVars, work, faults>>

-----------------------------------------------------------------------------
(* A process starts, and ends at any point *)

\* start(): a configuration other than the stored one triggers a reindex.
Start(p) ==
  /\ life[p] = "down"
  /\ life' = [life EXCEPT ![p] = "up"]
  /\ \/ call' = [call EXCEPT ![p] = "answered"]
     \/ p \in Drifts /\ call' = [call EXCEPT ![p] = "enter"]
  /\ UNCHANGED <<docs, owed, outbox, rows, vectors, job, stuck, lock, work, walk, faults>>

\* What is left of a process without its event loop.
NoLoop(p) ==
  /\ owed' = [owed EXCEPT ![p] = {}]
  /\ stuck' = [stuck EXCEPT ![p] = FALSE]
  /\ lock' = [lock EXCEPT ![p] = None]
  /\ walk' = [walk EXCEPT ![p] = NoWalk]
  /\ call' = [c \in Caller |-> IF Home(c) = p /\ call[c] \in {"enter", "count"}
                               THEN "gone" ELSE call[c]]
  /\ UNCHANGED <<docs, outbox, rows, vectors, job>>

\* stop(): the walk and the indexer have three seconds; then their tasks are
\* cancelled and the vector store is closed under a drain that is not through.
\* Writers find the store closed and queue nothing.
Stop(p) ==
  /\ Loop(p)
  /\ Fault
  /\ life' = [life EXCEPT ![p] = "closed"]
  /\ UNCHANGED work
  /\ NoLoop(p)

Exit(p) ==
  /\ life[p] = "closed" /\ work[p] = None
  /\ life' = [life EXCEPT ![p] = "down"]
  /\ UNCHANGED <<docs, owed, outbox, rows, vectors, job, stuck, call, lock, work, walk, faults>>

Crash(p) ==
  /\ life[p] # "down"
  /\ Fault
  /\ life' = [life EXCEPT ![p] = "down"]
  /\ work' = [work EXCEPT ![p] = None]
  /\ NoLoop(p)

-----------------------------------------------------------------------------
Drains(p) ==
  \/ Claim(p) \/ MarkDone(p)
  \/ \E r \in Row : Store(p, r) \/ Skip(p, r) \/ StoreFails(p, r)

Walks(p) ==
  \/ Begin(p) \/ Read(p) \/ EndWalk(p)
  \/ \E d \in Doc : Revisit(p, d)

Writes(p) == \E d \in Doc : Enqueue(p, d)

Turns(p) == Start(p) \/ Exit(p)

Answers(c) == Block(c) \/ Enter(c) \/ Schedule(c)

Time == \E r \in Row : Expire(r) \/ Ripen(r)

Next ==
  \/ \E p \in Process : \/ Drains(p) \/ Walks(p) \/ Writes(p) \/ Turns(p) \/ Stop(p) \/ Crash(p)
                        \/ DrainFails(p) \/ WalkFails(p)
                        \/ \E d \in Doc : Commit(p, d) \/ EnqueueFails(p, d)
  \/ \E c \in Caller : Answers(c) \/ Post(c) \/ CountFails(c)
  \/ Time

Spec == Init /\ [][Next]_vars

\* The threads and the loops that can go on do, time passes, and a process is
\* started again.  Clients owe nothing.
Fairness ==
  /\ \A p \in Process : WF_vars(Drains(p)) /\ WF_vars(Walks(p)) /\ WF_vars(Writes(p))
                       /\ WF_vars(Turns(p))
  /\ \A c \in Caller : WF_vars(Answers(c))
  /\ \A r \in Row : WF_vars(Expire(r)) /\ WF_vars(Ripen(r))

LiveSpec == Spec /\ Fairness

-----------------------------------------------------------------------------
(* Properties *)

\* Safety: an indexer that runs deletes a row only when its document is in the
\* index, however often its claim is lost to another, fails late or is retried.
NothingDropped ==
  \A r \in Row : outbox[r].at = "gone" => outbox[r].doc \in vectors

\* Liveness: a row that is queued is deleted, or parked after its last attempt,
\* unless the event loop of every process stands still.
EventuallyIndexed ==
  \A r \in Row :
    outbox[r].at = "due" ~>
      \/ outbox[r].at \in {"gone", "lost", "parked"}
      \/ \A p \in Process : stuck[p]

\* A request for a reindex is answered, or its process ends.
ReindexReturns ==
  \A c \in Request : call[c] = "enter" ~> call[c] \in {"answered", "gone"}

\* A reindex that is under way comes to an end.
ReindexEnds == job = "running" ~> job # "running"

\* A row leaves the outbox only when its document is in the index.
OutboxDurable ==
  \A r \in Row : outbox[r].at \in {"gone", "lost"} => outbox[r].doc \in vectors
=============================================================================
