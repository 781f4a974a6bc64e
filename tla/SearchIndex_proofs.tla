------------------------ MODULE SearchIndex_proofs ------------------------
(* Theorems about SearchIndex, for every value of its constants. *)
EXTENDS SearchIndex, TLAPS

\* Rows are inserted in order, each with a document, ...
Inserted ==
  \A r \in Row : /\ r <= rows => outbox[r].doc \in Doc
                 /\ r > rows => outbox[r].at = "none"

\* ... a drain is about rows that were inserted, ...
DrainsRows ==
  \A p \in Process : work[p] # None =>
    \A r \in work[p].todo \cup work[p].good \cup work[p].skipped : r <= rows

\* ... and what it takes for stored is, until it says so, whoever else has claimed
\* the row meanwhile and whatever became of it.
GoodAreStored ==
  \A p \in Process : work[p] # None =>
    \A r \in work[p].good : outbox[r].doc \in vectors

SearchInv == TypeOK /\ Inserted /\ DrainsRows /\ GoodAreStored /\ NothingDropped

-----------------------------------------------------------------------------
(* Rows and drains *)

\* What leaves every row its document, claims no row that was not inserted and calls
\* none deleted keeps the rows in order.
LEMMA RowsKept ==
  ASSUME TypeOK, Inserted, rows' = rows, outbox' \in [Row -> Entry],
         \A r \in Row : /\ outbox'[r].doc = outbox[r].doc
                        /\ r > rows => outbox'[r].at = "none"
  PROVE  Inserted'
BY DEF Inserted

LEMMA InsertKeeps ==
  ASSUME TypeOK, Inserted, NEW d \in Doc, Insert(d)
  PROVE  /\ rows' \in 0..MaxRows /\ rows' >= rows
         /\ outbox' \in [Row -> Entry]
         /\ Inserted'
         /\ \A r \in Row : r <= rows => outbox'[r] = outbox[r]
         /\ \A r \in Row : outbox'[r].at = "gone" => outbox'[r] = outbox[r]
<1> DEFINE new == [doc |-> d, attempts |-> 0, at |-> "due"]
<1>1. rows + 1 \in Row /\ rows \in Nat /\ MaxRows \in Nat
  BY SearchBounds DEF SearchAssumption, TypeOK, Insert, Row
<1>2. new \in Entry /\ new.doc = d /\ new.at = "due"
  BY DEF Entry
<1>3. outbox' = [outbox EXCEPT ![rows + 1] = new] /\ rows' = rows + 1 /\ rows < MaxRows
  BY DEF Insert
<1> HIDE DEF new
<1>4. outbox \in [Row -> Entry]
  BY DEF TypeOK
<1>5. \A r \in Row : r # rows + 1 => outbox'[r] = outbox[r]
  BY <1>3, <1>4
<1>6. outbox'[rows + 1] = new /\ outbox' \in [Row -> Entry]
  BY <1>1, <1>2, <1>3, <1>4
<1>7. \A r \in Row : r \in Nat
  BY DEF Row
<1>8. Inserted'
  BY <1>1, <1>2, <1>3, <1>5, <1>6, <1>7 DEF Inserted
<1> QED BY <1>1, <1>2, <1>3, <1>5, <1>6, <1>7, <1>8

-----------------------------------------------------------------------------
(* Types *)

\* A process is among the callers, and every caller has its process.
LEMMA CallersHaveHomes ==
  Process \subseteq Caller /\ Request \subseteq Caller /\ \A c \in Caller : Home(c) \in Process
BY SearchBounds DEF SearchAssumption, Caller, Home

LEMMA DrainIsRecord ==
  ASSUME TypeOK, NEW p \in Process, work[p] # None
  PROVE  work[p] \in Drain
BY DEF TypeOK

LEMMA WritersTyped ==
  ASSUME TypeOK, Inserted, NEW p \in Process, NEW d \in Doc,
         Commit(p, d) \/ Enqueue(p, d) \/ EnqueueFails(p, d)
  PROVE  TypeOK'
<1>1. CASE Commit(p, d)
  BY <1>1 DEF TypeOK, Commit, serverVars
<1>2. CASE Enqueue(p, d)
  BY <1>2, InsertKeeps DEF TypeOK, Enqueue, serverVars
<1>3. CASE EnqueueFails(p, d)
  BY <1>3 DEF TypeOK, EnqueueFails, Fault, serverVars
<1> QED BY <1>1, <1>2, <1>3

LEMMA ClaimTyped ==
  ASSUME TypeOK, NEW p \in Process, Claim(p)
  PROVE  TypeOK'
<1> DEFINE drain == [todo |-> Claimable, good |-> {}, skipped |-> {},
                     read |-> [r \in Row |-> outbox[r].attempts]]
<1>1. drain \in Drain
  BY DEF Drain, Claimable, TypeOK, Entry
<1>2. outbox' \in [Row -> Entry]
  <2>1. ASSUME NEW x \in Entry PROVE [x EXCEPT !.at = "claimed"] \in Entry
    BY DEF Entry
  <2>2. \A r \in Row : outbox[r] \in Entry
    BY DEF TypeOK
  <2> QED BY <2>1, <2>2 DEF Claim
<1>3. work' = [work EXCEPT ![p] = drain]
  BY DEF Claim
<1> HIDE DEF drain
<1>4. work' \in [Process -> Drain \cup {None}]
  BY <1>1, <1>3 DEF TypeOK
<1> QED BY <1>2, <1>4 DEF TypeOK, Claim, serverVars

\* What a drain does with a row of its own.
LEMMA RowsTyped ==
  ASSUME TypeOK, Inserted, DrainsRows, NEW p \in Process, NEW r \in Row,
         Store(p, r) \/ Skip(p, r) \/ StoreFails(p, r)
  PROVE  TypeOK'
<1>1. /\ work[p] \in Drain /\ r \in work[p].todo
      /\ vectors' \in {vectors, vectors \cup {outbox[r].doc}}
  BY DrainIsRecord DEF Store, Skip, StoreFails
<1>2. vectors' \subseteq Doc
  BY <1>1 DEF TypeOK, Inserted, DrainsRows, Drain, Store, Skip, StoreFails
<1>3. work' \in [Process -> Drain \cup {None}]
  <2> DEFINE stored  == [work[p] EXCEPT !.todo = @ \ {r}, !.good = @ \cup {r}]
             skipped == [work[p] EXCEPT !.todo = @ \ {r}, !.skipped = @ \cup {r}]
             failed  == [work[p] EXCEPT !.todo = @ \ {r}]
  <2>1. stored \in Drain /\ skipped \in Drain /\ failed \in Drain
    BY <1>1 DEF Drain
  <2>2. \/ work' = [work EXCEPT ![p] = stored]
        \/ work' = [work EXCEPT ![p] = skipped]
        \/ work' = [work EXCEPT ![p] = failed]
    BY DEF Store, Skip, StoreFails
  <2> HIDE DEF stored, skipped, failed
  <2> QED BY <2>1, <2>2 DEF TypeOK
<1>4. ASSUME NEW n \in Nat PROVE Retried(r, n) \in Entry
  <2> DEFINE x == outbox[r]
  <2>1. x \in Entry
    BY DEF TypeOK
  <2> HIDE DEF x
  <2>2. [x EXCEPT !.attempts = n, !.at = IF n >= MaxAttempts THEN "parked" ELSE "later"] \in Entry
    BY <2>1 DEF Entry
  <2> QED BY <2>1, <2>2 DEF Retried, x
<1>5. outbox' \in [Row -> Entry]
  <2>1. CASE StoreFails(p, r)
    <3>1. work[p].read[r] + 1 \in Nat
      BY <1>1 DEF Drain
    <3> QED BY <2>1, <3>1, <1>4 DEF StoreFails, TypeOK
  <2> QED BY <2>1 DEF Store, Skip, TypeOK
<1> QED BY <1>2, <1>3, <1>5 DEF TypeOK, Store, Skip, StoreFails, serverVars

LEMMA DrainEndTyped ==
  ASSUME TypeOK, NEW p \in Process, MarkDone(p) \/ DrainFails(p)
  PROVE  TypeOK'
<1>1. outbox' \in [Row -> Entry]
  BY DEF MarkDone, DrainFails, TypeOK, Entry
<1>2. work' \in [Process -> Drain \cup {None}]
  BY DEF MarkDone, DrainFails, TypeOK
<1>3. faults' \in Nat
  BY DEF MarkDone, DrainFails, TypeOK, Fault
<1> QED BY <1>1, <1>2, <1>3 DEF TypeOK, MarkDone, DrainFails, serverVars

LEMMA TimeTyped ==
  ASSUME TypeOK, NEW r \in Row, Expire(r) \/ Ripen(r)
  PROVE  TypeOK'
<1>1. outbox' \in [Row -> Entry]
  <2>1. ASSUME NEW a \in {"stale", "due"}
        PROVE  [outbox EXCEPT ![r].at = a] \in [Row -> Entry]
    BY DEF TypeOK, Entry
  <2>2. \E a \in {"stale", "due"} : outbox' = [outbox EXCEPT ![r].at = a]
    BY DEF Expire, Ripen
  <2> QED BY <2>1, <2>2
<1>2. faults' \in Nat
  BY DEF Expire, Ripen, TypeOK, Fault
<1> QED BY <1>1, <1>2 DEF TypeOK, Expire, Ripen, serverVars

LEMMA ReindexTyped ==
  ASSUME TypeOK, NEW c \in Caller,
         Block(c) \/ Enter(c) \/ Schedule(c) \/ Post(c) \/ CountFails(c)
  PROVE  TypeOK'
<1>1. Home(c) \in Process
  BY CallersHaveHomes
<1>2. CASE Block(c)
  BY <1>1, <1>2 DEF TypeOK, Block
<1>3. CASE Enter(c)
  BY <1>1, <1>3 DEF TypeOK, Enter
<1>4. CASE Schedule(c)
  <2>1. walk' \in [Process -> Walk]
    BY <1>1, <1>4 DEF TypeOK, Schedule, Walk
  <2> QED BY <1>1, <1>4, <2>1 DEF TypeOK, Schedule
<1>5. CASE Post(c)
  BY <1>5 DEF TypeOK, Post
<1>6. CASE CountFails(c)
  BY <1>1, <1>6 DEF TypeOK, CountFails, Fault
<1> QED BY <1>2, <1>3, <1>4, <1>5, <1>6

LEMMA PagesTyped ==
  ASSUME NEW w \in Walk, NEW at \in {"none", "new", "walk", "end"},
         NEW page \in SUBSET Doc, NEW n \in Nat
  PROVE  [w EXCEPT !.at = at, !.page = page, !.offset = @ + n] \in Walk
<1>1. w.offset + n \in Nat
  BY DEF Walk
<1>2. ASSUME NEW m \in Nat
      PROVE  [w EXCEPT !.at = at, !.page = page, !.offset = m] \in Walk
  BY DEF Walk
<1> QED BY <1>1, <1>2

LEMMA WalkTyped ==
  ASSUME TypeOK, Inserted, NEW p \in Process,
         \/ Begin(p) \/ Read(p) \/ EndWalk(p) \/ WalkFails(p)
         \/ \E d \in Doc : Revisit(p, d)
  PROVE  TypeOK'
<1>1. NoWalk \in Walk
  BY DEF NoWalk, Walk
<1>2. CASE Begin(p)
  <2>1. walk' \in [Process -> Walk]
    BY <1>2 DEF TypeOK, Begin, Walk
  <2> QED BY <1>2, <2>1 DEF TypeOK, Begin, serverVars
<1>3. CASE Read(p)
  <2>1. PageAt(walk[p].offset) \subseteq Doc
    BY DEF PageAt, TypeOK
  <2>2. Page \in Nat
    BY SearchBounds DEF SearchAssumption
  <2> DEFINE found == PageAt(walk[p].offset)
             at == IF found = {} THEN "end" ELSE "walk"
             next == [walk[p] EXCEPT !.at = at, !.page = found, !.offset = @ + Page]
  <2>3. at \in {"none", "new", "walk", "end"} /\ walk[p] \in Walk
    BY DEF TypeOK
  <2>4. walk' = [walk EXCEPT ![p] = next]
    BY <1>3 DEF Read
  <2> HIDE DEF found, at
  <2>5. found \in SUBSET Doc
    BY <2>1 DEF found
  <2>6. next \in Walk
    BY ONLY <2>2, <2>3, <2>5, PagesTyped
  <2> HIDE DEF next
  <2>7. walk' \in [Process -> Walk]
    BY <2>4, <2>6 DEF TypeOK
  <2> QED BY <1>3, <2>7 DEF TypeOK, Read, serverVars
<1>4. CASE EndWalk(p)
  BY <1>1, <1>4 DEF TypeOK, EndWalk, serverVars
<1>5. CASE WalkFails(p)
  BY <1>1, <1>5 DEF TypeOK, WalkFails, Fault, serverVars
<1>6. ASSUME NEW d \in Doc, Revisit(p, d) PROVE TypeOK'
  <2>1. walk' \in [Process -> Walk]
    BY <1>6 DEF TypeOK, Revisit, Walk
  <2> QED BY <1>6, <2>1, InsertKeeps DEF TypeOK, Revisit, serverVars
<1> QED BY <1>2, <1>3, <1>4, <1>5, <1>6

LEMMA ProcessTyped ==
  ASSUME TypeOK, NEW p \in Process, Start(p) \/ Exit(p) \/ Stop(p) \/ Crash(p)
  PROVE  TypeOK'
<1>1. ASSUME NoLoop(p)
      PROVE  /\ owed' \in [Process -> SUBSET Doc] /\ stuck' \in [Process -> BOOLEAN]
             /\ lock' \in [Process -> Caller \cup {None}] /\ walk' \in [Process -> Walk]
             /\ call' \in [Caller -> {"idle", "enter", "count", "answered", "gone"}]
             /\ UNCHANGED <<docs, outbox, rows, vectors, job>>
  <2>1. NoWalk \in Walk
    BY DEF NoWalk, Walk
  <2> QED BY <1>1, <2>1 DEF NoLoop, TypeOK
<1>2. CASE Start(p)
  BY <1>2, CallersHaveHomes DEF TypeOK, Start
<1>3. CASE Exit(p)
  BY <1>3 DEF TypeOK, Exit
<1>4. CASE Stop(p)
  BY <1>1, <1>4 DEF TypeOK, Stop, Fault
<1>5. CASE Crash(p)
  BY <1>1, <1>5 DEF TypeOK, Crash, Fault
<1> QED BY <1>2, <1>3, <1>4, <1>5

-----------------------------------------------------------------------------
(* The invariant *)

\* While vectors are only added, a row that is deleted was stored or deleted before,
\* and rows keep their documents, what is stored stays so.
LEMMA StoredKept ==
  ASSUME TypeOK, Inserted, DrainsRows, GoodAreStored, NothingDropped,
         vectors \subseteq vectors',
         \A r \in Row : r <= rows => outbox'[r].doc = outbox[r].doc,
         \A r \in Row : outbox'[r].at = "gone" =>
           outbox[r].at = "gone" \/ (r <= rows /\ outbox[r].doc \in vectors)
  PROVE  /\ NothingDropped'
         /\ \A p \in Process : work'[p] = work[p] /\ work[p] # None =>
              \A r \in work'[p].good : outbox'[r].doc \in vectors'
<1>1. \A r \in Row : r \in Nat /\ rows \in Nat
  BY DEF Row, TypeOK
<1>2. \A r \in Row : outbox[r].at = "gone" => r <= rows
  BY <1>1 DEF Inserted
<1>3. NothingDropped'
  BY <1>2 DEF NothingDropped
<1>4. ASSUME NEW p \in Process, work'[p] = work[p], work[p] # None, NEW r \in work'[p].good
      PROVE  outbox'[r].doc \in vectors'
  <2>1. r \in Row /\ r <= rows
    BY <1>4, DrainIsRecord DEF Drain, DrainsRows
  <2> QED BY <1>4, <2>1 DEF GoodAreStored
<1> QED BY <1>3, <1>4

\* A step that leaves the drains, the index and the rows alone.
LEMMA Frame ==
  ASSUME SearchInv, TypeOK', UNCHANGED <<outbox, rows, vectors, work>>
  PROVE  SearchInv'
BY DEF SearchInv, Inserted, DrainsRows, GoodAreStored, NothingDropped

\* A document is queued.
LEMMA InsertSafe ==
  ASSUME SearchInv, TypeOK', NEW d \in Doc, Insert(d), UNCHANGED <<vectors, work>>
  PROVE  SearchInv'
<1>1. TypeOK /\ Inserted /\ DrainsRows /\ GoodAreStored /\ NothingDropped
  BY DEF SearchInv
<1>2. /\ rows \in Nat /\ rows' \in Nat /\ rows' >= rows
      /\ Inserted'
      /\ \A r \in Row : r <= rows => outbox'[r] = outbox[r]
      /\ \A r \in Row : outbox'[r].at = "gone" => outbox'[r] = outbox[r]
  BY <1>1, InsertKeeps DEF TypeOK
<1>3. \A r \in Row : r \in Nat
  BY DEF Row
<1>4. DrainsRows'
  <2> SUFFICES ASSUME NEW p \in Process, work[p] # None,
                      NEW r \in work[p].todo \cup work[p].good \cup work[p].skipped
               PROVE  r <= rows'
    BY DEF DrainsRows
  <2>1. r \in Row /\ r <= rows
    BY <1>1, DrainIsRecord DEF Drain, DrainsRows
  <2> QED BY <1>2, <1>3, <2>1
<1>5. NothingDropped'
  BY <1>1, <1>2 DEF NothingDropped
<1>6. GoodAreStored'
  <2> SUFFICES ASSUME NEW p \in Process, work[p] # None, NEW r \in work[p].good
               PROVE  outbox'[r].doc \in vectors
    BY DEF GoodAreStored
  <2>1. r \in Row /\ r <= rows
    BY <1>1, DrainIsRecord DEF Drain, DrainsRows
  <2> QED BY <1>1, <1>2, <2>1 DEF GoodAreStored
<1> QED BY <1>2, <1>4, <1>5, <1>6 DEF SearchInv

\* A step of a drain, of time or of a process: rows keep their documents, none is
\* deleted that is not stored, and what a drain works on it worked on before.
LEMMA WorkSafe ==
  ASSUME SearchInv, TypeOK', rows' = rows, vectors \subseteq vectors',
         \A r \in Row : /\ outbox'[r].doc = outbox[r].doc
                        /\ r > rows => outbox'[r].at = "none"
                        /\ outbox'[r].at = "gone" =>
                             outbox[r].at = "gone" \/ (r <= rows /\ outbox[r].doc \in vectors),
         \A q \in Process : work'[q] # None =>
           \/ work'[q] = work[q]
           \/ /\ \A r \in work'[q].todo \cup work'[q].good \cup work'[q].skipped : r <= rows
              /\ \A r \in work'[q].good : outbox[r].doc \in vectors'
  PROVE  SearchInv'
<1>1. TypeOK /\ Inserted /\ DrainsRows /\ GoodAreStored /\ NothingDropped
  BY DEF SearchInv
<1>2. Inserted'
  BY <1>1, RowsKept DEF TypeOK
<1>3. DrainsRows'
  BY <1>1 DEF DrainsRows
<1>4. /\ NothingDropped'
      /\ \A q \in Process : work'[q] = work[q] /\ work[q] # None =>
           \A r \in work'[q].good : outbox'[r].doc \in vectors'
  BY <1>1, StoredKept
<1>5. GoodAreStored'
  <2> SUFFICES ASSUME NEW q \in Process, work'[q] # None, NEW r \in work'[q].good
               PROVE  outbox'[r].doc \in vectors'
    BY DEF GoodAreStored
  <2>1. r \in Row
    BY DEF TypeOK, Drain
  <2> QED BY <1>4, <2>1
<1> QED BY <1>2, <1>3, <1>4, <1>5 DEF SearchInv

LEMMA ClaimSafe ==
  ASSUME SearchInv, TypeOK', NEW p \in Process, Claim(p)
  PROVE  SearchInv'
<1>1. TypeOK /\ Inserted
  BY DEF SearchInv
<1>2. \A r \in Row : r <= rows \/ r > rows
  BY <1>1 DEF TypeOK, Row
<1>3. \A r \in Claimable : r \in Row /\ r <= rows /\ outbox[r].at \in {"due", "stale"}
  BY <1>1, <1>2 DEF Claimable, Inserted
<1>4. \A r \in Row : /\ outbox'[r].doc = outbox[r].doc
                     /\ outbox'[r].at \in {outbox[r].at, "claimed"}
                     /\ r \notin Claimable => outbox'[r] = outbox[r]
  BY <1>1 DEF Claim, TypeOK, Entry
<1>5. work' = [work EXCEPT ![p] = [todo |-> Claimable, good |-> {}, skipped |-> {},
                                   read |-> [r \in Row |-> outbox[r].attempts]]]
  BY DEF Claim
<1>6. \A q \in Process : work'[q] = work[q] \/ (/\ work'[q].todo = Claimable
                                                /\ work'[q].good = {} /\ work'[q].skipped = {})
  BY <1>1, <1>5 DEF TypeOK
<1>7. rows' = rows /\ vectors' = vectors
  BY DEF Claim
<1>8. ASSUME NEW r \in Row
      PROVE  /\ r > rows => outbox'[r].at = "none"
             /\ outbox'[r].at = "gone" => outbox[r].at = "gone"
  <2>1. rows \in Nat /\ r \in Nat
    BY <1>1 DEF TypeOK, Row
  <2> QED BY <1>1, <1>3, <1>4, <2>1 DEF Inserted
<1>9. ASSUME NEW q \in Process, work'[q] # work[q]
      PROVE  /\ \A r \in work'[q].todo \cup work'[q].good \cup work'[q].skipped : r <= rows
             /\ work'[q].good = {}
  BY <1>3, <1>6, <1>9
<1> QED BY <1>4, <1>7, <1>8, <1>9, WorkSafe

LEMMA RowStepSafe ==
  ASSUME SearchInv, TypeOK', NEW p \in Process, NEW r \in Row,
         Store(p, r) \/ Skip(p, r) \/ StoreFails(p, r)
  PROVE  SearchInv'
<1>1. TypeOK /\ DrainsRows /\ GoodAreStored /\ Inserted
  BY DEF SearchInv
<1>2. work[p] # None /\ work[p] \in Drain /\ r \in work[p].todo /\ r <= rows /\ rows' = rows
  <2>1. work[p] # None /\ r \in work[p].todo /\ rows' = rows
    BY DEF Store, Skip, StoreFails
  <2>2. work[p] \in Drain
    BY <1>1, <2>1, DrainIsRecord
  <2>3. r \in work[p].todo \cup work[p].good \cup work[p].skipped
    BY <2>1
  <2>4. \A i \in work[p].todo \cup work[p].good \cup work[p].skipped : i <= rows
    BY <1>1, <2>1 DEF DrainsRows
  <2>5. r <= rows
    BY <2>3, <2>4
  <2> QED BY <2>1, <2>2, <2>5
<1>3. /\ vectors \subseteq vectors'
      /\ Store(p, r) => outbox[r].doc \in vectors'
  BY DEF Store, Skip, StoreFails
<1>4. \A i \in Row : /\ outbox'[i].doc = outbox[i].doc
                     /\ i > rows => outbox'[i].at = "none"
                     /\ outbox'[i].at = "gone" => outbox[i].at = "gone"
  <2>1. CASE StoreFails(p, r)
    <3> DEFINE x == outbox[r]  y == Retried(r, work[p].read[r] + 1)
    <3>1. x \in Entry /\ outbox' = [outbox EXCEPT ![r] = y]
      BY <1>1, <2>1 DEF TypeOK, StoreFails
    <3>2. y.doc = x.doc /\ (y.at = "gone" => x.at = "gone")
      BY <3>1 DEF Retried, Entry
    <3>3. rows \in Nat /\ r \in Nat
      BY <1>1 DEF TypeOK, Row
    <3> HIDE DEF x, y
    <3>4. \A i \in Row : i # r => outbox'[i] = outbox[i]
      BY <1>1, <3>1 DEF TypeOK
    <3>5. outbox'[r] = y
      BY <1>1, <3>1 DEF TypeOK
    <3> QED BY <1>1, <1>2, <3>2, <3>3, <3>4, <3>5 DEF Inserted, x
  <2> QED BY <1>1, <2>1 DEF Store, Skip, Inserted
<1>5. \A q \in Process : q # p => work'[q] = work[q]
  BY <1>1 DEF Store, Skip, StoreFails, TypeOK
<1>6. /\ work'[p].good \subseteq work[p].good \cup (IF Store(p, r) THEN {r} ELSE {})
      /\ work'[p].todo \cup work'[p].good \cup work'[p].skipped
         \subseteq work[p].todo \cup work[p].good \cup work[p].skipped
  <2> DEFINE w == work[p]
  <2>1. work \in [Process -> Drain \cup {None}] /\ w \in Drain /\ r \in w.todo
    BY <1>1, <1>2 DEF TypeOK
  <2>2. CASE Store(p, r)
    <3>1. work'[p] = [w EXCEPT !.todo = @ \ {r}, !.good = @ \cup {r}]
      BY <2>1, <2>2 DEF Store
    <3> QED BY <2>1, <2>2, <3>1 DEF Drain
  <2>3. CASE Skip(p, r)
    <3>1. work'[p] = [w EXCEPT !.todo = @ \ {r}, !.skipped = @ \cup {r}]
      BY <2>1, <2>3 DEF Skip
    <3> QED BY <2>1, <3>1 DEF Drain
  <2>4. CASE StoreFails(p, r)
    <3>1. work'[p] = [w EXCEPT !.todo = @ \ {r}]
      BY <2>1, <2>4 DEF StoreFails
    <3> QED BY <2>1, <3>1 DEF Drain
  <2> QED BY <2>2, <2>3, <2>4
<1>7. /\ \A i \in work'[p].todo \cup work'[p].good \cup work'[p].skipped : i <= rows
      /\ \A i \in work'[p].good : outbox[i].doc \in vectors'
  BY <1>1, <1>2, <1>3, <1>6 DEF DrainsRows, GoodAreStored
<1> QED BY <1>2, <1>3, <1>4, <1>5, <1>7, WorkSafe

LEMMA DrainEndSafe ==
  ASSUME SearchInv, TypeOK', NEW p \in Process, MarkDone(p) \/ DrainFails(p)
  PROVE  SearchInv'
<1>1. TypeOK /\ DrainsRows /\ GoodAreStored /\ Inserted
  BY DEF SearchInv
<1>2. work[p] # None /\ work[p] \in Drain /\ rows' = rows /\ vectors' = vectors
  BY <1>1, DrainIsRecord DEF MarkDone, DrainFails
<1>3. \A q \in Process : work'[q] # None => work'[q] = work[q]
  BY <1>1 DEF MarkDone, DrainFails, TypeOK
<1>4. \A i \in Row : outbox[i] \in Entry /\ i \in Nat /\ rows \in Nat
  BY <1>1 DEF TypeOK, Row
<1>5. ASSUME NEW i \in Row
      PROVE  /\ outbox'[i].doc = outbox[i].doc
             /\ i > rows => outbox'[i].at = "none"
             /\ outbox'[i].at = "gone" =>
                  outbox[i].at = "gone" \/ (i <= rows /\ outbox[i].doc \in vectors)
  <2>1. CASE DrainFails(p)
    BY <1>1, <2>1 DEF DrainFails, Inserted
  <2>2. CASE MarkDone(p)
    <3>1. i \in work[p].good => i <= rows /\ outbox[i].doc \in vectors
      BY <1>1, <1>2 DEF DrainsRows, GoodAreStored
    <3>2. i \in work[p].skipped => i <= rows
      BY <1>1, <1>2 DEF DrainsRows
    <3>3. \/ outbox'[i] = outbox[i]
          \/ i \in work[p].good /\ outbox'[i] = [outbox[i] EXCEPT !.at = "gone"]
          \/ i \in work[p].skipped /\ outbox'[i] = [outbox[i] EXCEPT !.at = "lost"]
      BY <2>2 DEF MarkDone, Successes
    <3> QED BY <1>1, <1>4, <3>1, <3>2, <3>3 DEF Inserted, Entry
  <2> QED BY <2>1, <2>2
<1> QED BY <1>2, <1>3, <1>5, WorkSafe

LEMMA TimeSafe ==
  ASSUME SearchInv, TypeOK', NEW r \in Row, Expire(r) \/ Ripen(r)
  PROVE  SearchInv'
<1>1. TypeOK /\ Inserted
  BY DEF SearchInv
<1>2. rows' = rows /\ vectors' = vectors /\ work' = work
  BY DEF Expire, Ripen
<1>3. PICK at \in {"stale", "due"} :
        outbox' = [outbox EXCEPT ![r].at = at] /\ outbox[r].at \in {"claimed", "later"}
  BY DEF Expire, Ripen
<1>4. \A i \in Row : outbox[i] \in Entry /\ i \in Nat /\ rows \in Nat
  BY <1>1 DEF TypeOK, Row
<1>5. \A i \in Row : i # r => outbox'[i] = outbox[i]
  BY <1>1, <1>3 DEF TypeOK
<1>6. outbox'[r].doc = outbox[r].doc /\ outbox'[r].at = at
  BY <1>1, <1>3, <1>4 DEF TypeOK, Entry
<1>7. \A i \in Row : /\ outbox'[i].doc = outbox[i].doc
                     /\ i > rows => outbox'[i].at = "none"
                     /\ outbox'[i].at = "gone" => outbox[i].at = "gone"
  BY <1>1, <1>3, <1>4, <1>5, <1>6 DEF Inserted
<1> QED BY <1>2, <1>7, WorkSafe

\* A process starts or ends: a drain ends with it, or none is touched.
LEMMA ProcessSafe ==
  ASSUME SearchInv, TypeOK', NEW p \in Process, Start(p) \/ Exit(p) \/ Stop(p) \/ Crash(p)
  PROVE  SearchInv'
<1>1. TypeOK /\ Inserted
  BY DEF SearchInv
<1>2. UNCHANGED <<outbox, rows, vectors>>
  BY DEF Start, Exit, Stop, Crash, NoLoop
<1>3. \A q \in Process : work'[q] # None => work'[q] = work[q]
  BY <1>1 DEF Start, Exit, Stop, Crash, TypeOK
<1>4. \A i \in Row : i > rows => outbox'[i].at = "none"
  BY <1>1, <1>2 DEF Inserted
<1>5. \A i \in Row : outbox'[i].at = "gone" => outbox[i].at = "gone"
  BY <1>2
<1> QED BY <1>2, <1>3, <1>4, <1>5, WorkSafe

-----------------------------------------------------------------------------
(* The theorems *)

LEMMA InitInv == Init => SearchInv
<1> SUFFICES ASSUME Init PROVE SearchInv
  OBVIOUS
<1>1. MaxRows \in Nat /\ MaxFaults \in Nat
  BY SearchBounds DEF SearchAssumption
<1>2. Unused \in Entry /\ NoWalk \in Walk /\ Unused.at = "none"
  BY DEF Unused, Entry, NoWalk, Walk
<1>3. TypeOK
  BY <1>1, <1>2 DEF Init, TypeOK
<1>4. Inserted
  BY <1>2 DEF Init, Inserted, Row
<1>5. DrainsRows /\ GoodAreStored /\ NothingDropped
  BY <1>2 DEF Init, DrainsRows, GoodAreStored, NothingDropped
<1> QED BY <1>3, <1>4, <1>5 DEF SearchInv

LEMMA NextInv == SearchInv /\ [Next]_vars => SearchInv'
<1> SUFFICES ASSUME SearchInv, [Next]_vars PROVE SearchInv'
  OBVIOUS
<1>1. TypeOK /\ Inserted /\ DrainsRows
  BY DEF SearchInv
<1>2. CASE UNCHANGED vars
  <2>1. TypeOK'
    BY <1>1, <1>2 DEF TypeOK, vars, serverVars
  <2> QED BY <1>2, <2>1, Frame DEF vars, serverVars
<1>3. ASSUME NEW p \in Process, NEW d \in Doc, Commit(p, d) \/ Enqueue(p, d) \/ EnqueueFails(p, d)
      PROVE  SearchInv'
  <2>1. TypeOK'
    BY <1>1, <1>3, WritersTyped
  <2>2. CASE Enqueue(p, d)
    BY <2>1, <2>2, InsertSafe DEF Enqueue
  <2> QED BY <1>3, <2>1, <2>2, Frame DEF Commit, EnqueueFails
<1>4. ASSUME NEW p \in Process, Drains(p) \/ DrainFails(p) PROVE SearchInv'
  <2>1. CASE Claim(p)
    BY <1>1, <2>1, ClaimTyped, ClaimSafe
  <2>2. CASE MarkDone(p) \/ DrainFails(p)
    BY <1>1, <2>2, DrainEndTyped, DrainEndSafe
  <2>3. ASSUME NEW r \in Row, Store(p, r) \/ Skip(p, r) \/ StoreFails(p, r) PROVE SearchInv'
    BY <1>1, <2>3, RowsTyped, RowStepSafe
  <2> QED BY <1>4, <2>1, <2>2, <2>3 DEF Drains
<1>5. ASSUME NEW p \in Process, Walks(p) \/ WalkFails(p) PROVE SearchInv'
  <2>1. TypeOK'
    BY <1>1, <1>5, WalkTyped DEF Walks
  <2>2. CASE Begin(p) \/ Read(p) \/ EndWalk(p) \/ WalkFails(p)
    BY <2>1, <2>2, Frame DEF Begin, Read, EndWalk, WalkFails
  <2>3. ASSUME NEW d \in Doc, Revisit(p, d) PROVE SearchInv'
    BY <2>1, <2>3, InsertSafe DEF Revisit
  <2> QED BY <1>5, <2>2, <2>3 DEF Walks
<1>6. ASSUME NEW p \in Process, Turns(p) \/ Stop(p) \/ Crash(p) PROVE SearchInv'
  BY <1>1, <1>6, ProcessTyped, ProcessSafe DEF Turns
<1>7. ASSUME NEW c \in Caller, Answers(c) \/ Post(c) \/ CountFails(c) PROVE SearchInv'
  <2>1. TypeOK'
    BY <1>1, <1>7, ReindexTyped DEF Answers
  <2>2. UNCHANGED <<outbox, rows, vectors, work>>
    BY <1>7 DEF Answers, Block, Enter, Schedule, Post, CountFails
  <2> QED BY <2>1, <2>2, Frame
<1>8. ASSUME Time PROVE SearchInv'
  BY <1>1, <1>8, TimeTyped, TimeSafe DEF Time
<1>9. CASE Next
  BY <1>3, <1>4, <1>5, <1>6, <1>7, <1>8, <1>9 DEF Next, Writes
<1> QED BY <1>2, <1>9

LEMMA SearchInvariant == Spec => []SearchInv
<1> QED BY InitInv, NextInv, PTL DEF Spec

\* Every variable of the search keeps its type, for any processes, documents and bounds.
THEOREM SearchTyped == Spec => []TypeOK
<1>1. SearchInv => TypeOK
  BY DEF SearchInv
<1> QED BY <1>1, SearchInvariant, PTL

\* Safety, for every value of the constants: an indexer that runs (_drain_outbox_once)
\* deletes a row of the outbox only when its document is in the index, however often its
\* claim is lost to another process, fails late or is retried.
THEOREM IndexedBeforeDeleted == Spec => []NothingDropped
<1>1. SearchInv => NothingDropped
  BY DEF SearchInv
<1> QED BY <1>1, SearchInvariant, PTL
=============================================================================
