------------------------- MODULE EventSpool_proofs -------------------------
(* Theorems about EventSpool, for every value of its constants. *)
EXTENDS EventSpool, TLAPS, WellFoundedInduction

Appending == {"old", "prepare", "assign", "check", "reply"}
Exporting == {"seal", "digest", "upload", "receipt", "retire"}
Deleting  == {"wipe", "invalidate", "clear"}

Reserved == {b \in Batch : resv[b] # None}

\* A record as its receipt has it, and as a chunk keeps it.
Copy(b) == [batch |-> b, payload |-> resv[b].payload, first |-> resv[b].first]

Kept(b) == file[b] = resv[b].payload \/ InArchive(b, resv[b].payload, resv[b].first)

\* A file that a failing write left behind, unknown to the index.
Stray(b) == phase # "down" /\ file[b] # None /\ index[b] = Absent

\* The index tells the truth of the files, and has the places of the receipts.
IndexSound(b) ==
  /\ index[b] # Absent => phase # "down" /\ file[b] # None
  /\ index[b] > 0 => b \in Reserved /\ resv[b].first = index[b] /\ resv[b].payload = file[b]
  /\ Stray(b) => /\ phase = "up" /\ localError
                 /\ op[SessionOf[b]].pc \notin Appending \cup Deleting
                 /\ manifest[SessionOf[b]] # None => b \notin manifest[SessionOf[b]].ids

\* What a receipt promises of its batch.
ReceiptSound(b) ==
  b \in Reserved =>
    /\ resv[b].first > 0 /\ Last(b, resv[b].first) <= lastSeq[SessionOf[b]]
    /\ b \notin withdrawn /\ (lost => phase = "up") => Kept(b)
    /\ resv[b].status = "archived" /\ b \notin withdrawn =>
         InArchive(b, resv[b].payload, resv[b].first)
    /\ resv[b].status = "deleted" =>
         /\ b \in withdrawn
         /\ \A c \in archive[SessionOf[b]] : \A g \in c.segs : g.batch # b
         /\ ~tomb[SessionOf[b]] =>
              /\ file[b] = None
              /\ manifest[SessionOf[b]] # None => b \notin manifest[SessionOf[b]].ids

AckSound(b) ==
  acked[b] # None =>
    b \in Reserved /\ resv[b].payload = acked[b].payload /\ resv[b].first = acked[b].first

\* An export that was frozen can be built again until it is sealed, ...
Rebuildable(s) ==
  \A b \in manifest[s].ids :
    /\ ~manifest[s].sealed => file[b] # None /\ (phase = "up" => index[b] > 0)
    /\ file[b] = None => resv[b].status = "archived"
    /\ phase = "up" => index[b] # 0

\* ... and is the copy of its receipts afterwards; its files only go once it is
\* confirmed.
ManifestSound(s) ==
  manifest[s] # None =>
    /\ manifest[s].ids \subseteq BatchesOf(s) \cap Reserved
    /\ manifest[s].last <= lastSeq[s]
    /\ manifest[s].sealed => chunk[s] = {Copy(b) : b \in manifest[s].ids}
    /\ ~tomb[s] => Rebuildable(s)

ArchiveSound(s) ==
  \A c \in archive[s] :
    /\ c.last <= lastSeq[s]
    /\ \A g \in c.segs : g.batch \in BatchesOf(s) \cap Reserved /\ g = Copy(g.batch)

\* Who may hold a session's lock, and at which steps.
HolderSound(s) ==
  LET o == op[s]
  IN  /\ phase # "up" => o.by \in {"none", "startup"}
      /\ phase \in {"down", "assigning"} => o = Free
      /\ o.by \in {"none", "startup"} => o.pc \in {"idle", "tomb"} \cup Deleting
      /\ o.by = "append" => /\ o.pc \in Appending \cup Exporting \cup {"select"}
                            /\ o.batch \in BatchesOf(s) /\ o.payload \in Payload
      /\ o.pc \in Appending => o.by = "append"
      /\ o.pc \in Appending \cup Exporting => ~tomb[s]

\* What an append knows of its batch, by the step that is next; ...
AppendSound(s) ==
  LET o == op[s]
      b == o.batch
  IN  /\ o.pc \in {"old", "prepare"} /\ b \in Reserved =>
           resv[b].status = "pending" /\ (index[b] = Absent => resv[b].payload = o.payload)
      /\ o.pc = "assign" => index[b] # Absent /\ file[b] = o.payload
      /\ o.by = "append" /\ o.pc \notin {"old", "prepare", "assign"} =>
           b \in Reserved /\ resv[b].payload = o.payload

\* ... an export of its manifest; ...
ExportSound(s) ==
  LET pc == op[s].pc
  IN  /\ pc \in Exporting \ {"retire"} => manifest[s] # None
      /\ pc \in {"seal", "digest"} => ~manifest[s].sealed
      /\ pc = "digest" => chunk[s] = {Copy(d) : d \in manifest[s].ids}
      /\ pc \in {"upload", "receipt"} => manifest[s].sealed
      /\ pc = "receipt" => Sealed(s) \in archive[s]
      /\ pc = "retire" /\ manifest[s] # None =>
           /\ manifest[s].sealed /\ Sealed(s) \in archive[s]
           /\ \A d \in manifest[s].ids : resv[d].status = "archived"

\* ... and a deletion of what it has removed so far.
DeleteSound(s) ==
  LET pc == op[s].pc
  IN  /\ pc \in Deleting => tomb[s] /\ BatchesOf(s) \cap Reserved \subseteq withdrawn
      /\ pc \in {"invalidate", "clear"} => archive[s] = {}

OpSound(s) == HolderSound(s) /\ AppendSound(s) /\ ExportSound(s) /\ DeleteSound(s)

\* What is durable or indexed of a session, whoever holds its lock.
SessionSound(s) ==
  /\ ManifestSound(s) /\ ArchiveSound(s)
  /\ \A b \in BatchesOf(s) : IndexSound(b) /\ ReceiptSound(b) /\ AckSound(b)

IInv == TypeOK /\ \A s \in Session : SessionSound(s) /\ OpSound(s)

-----------------------------------------------------------------------------
(* Numbers *)

LEMMA LeastNatural ==
  ASSUME NEW T \in SUBSET Nat, T # {}
  PROVE  \E n \in T : \A m \in T : n <= m
<1>1. PICK x \in T : \A y \in T : <<y, x>> \notin OpToRel(<, Nat)
  BY NatLessThanWellFounded, WFMin
<1>2. \A y \in T : ~(y < x)
  BY <1>1 DEF OpToRel
<1> QED
  BY <1>2

\* A bounded set of numbers has a greatest one: the least of its bounds.
LEMMA GreatestNatural ==
  ASSUME NEW T \in SUBSET Nat, NEW N \in Nat, T # {}, \A m \in T : m <= N
  PROVE  \E n \in T : \A m \in T : m <= n
<1> DEFINE U == {n \in Nat : \A m \in T : m <= n}
<1>1. N \in U /\ U \in SUBSET Nat
  OBVIOUS
<1>2. PICK u \in U : \A v \in U : u <= v
  BY <1>1, LeastNatural
<1>3. u \in T
  <2> SUFFICES ASSUME u \notin T PROVE FALSE
    OBVIOUS
  <2>1. u \in Nat /\ \A m \in T : m \in Nat /\ m <= u /\ m # u
    OBVIOUS
  <2>2. u > 0
    <3>1. PICK m \in T : TRUE
      OBVIOUS
    <3> QED
      BY <2>1, <3>1
  <2>3. u - 1 \in Nat /\ \A m \in T : m <= u - 1
    BY <2>1, <2>2
  <2>4. u <= u - 1
    BY <1>2, <2>3
  <2> QED
    BY <2>1, <2>4
<1> QED
  BY <1>3

LEMMA LastIsNat ==
  ASSUME NEW b \in Batch, NEW n \in Nat
  PROVE  Last(b, n) \in Nat /\ n <= Last(b, n)
  BY SpoolAssumption DEF Last

\* What the store can read never passes the session row's last sequence, so a
\* new reservation begins after all that was ever reserved.
LEMMA BaseBound ==
  ASSUME IInv, NEW s \in Session
  PROVE  Base(s) \in Nat /\ lastSeq[s] <= Base(s)
<1>1. lastSeq[s] \in Nat /\ counter[s] \in Nat \cup {Absent}
  BY DEF IInv, TypeOK
<1>2. Ends(s) \in SUBSET Nat /\ Ends(s) # {} /\ \A n \in Ends(s) : n <= lastSeq[s]
  <2> SUFFICES ASSUME NEW n \in Ends(s) PROVE n \in Nat /\ n <= lastSeq[s]
    BY DEF Ends
  <2>1. CASE n = 0
    BY <1>1, <2>1
  <2>2. CASE \E c \in archive[s] : n = c.last
    BY <1>1, <2>2 DEF IInv, SessionSound, ArchiveSound, TypeOK, Chunk
  <2>3. CASE \E b \in Records(s) \ Unassigned(s) : n = Last(b, index[b])
    <3>1. PICK b \in BatchesOf(s) : index[b] # Absent /\ index[b] # 0 /\ n = Last(b, index[b])
      BY <2>3 DEF Records, Unassigned
    <3>2. b \in Batch /\ SessionOf[b] = s /\ index[b] \in Nat /\ index[b] > 0
      BY <3>1 DEF BatchesOf, IInv, TypeOK, Absent
    <3>3. IndexSound(b) /\ ReceiptSound(b)
      BY <3>1 DEF IInv, SessionSound
    <3>4. Last(b, index[b]) <= lastSeq[s]
      BY <3>2, <3>3 DEF IndexSound, ReceiptSound
    <3> QED
      BY <3>1, <3>2, <3>4, LastIsNat
  <2> QED
    BY <2>1, <2>2, <2>3 DEF Ends
<1>3. \E n \in Ends(s) : \A m \in Ends(s) : m <= n
  BY <1>1, <1>2, GreatestNatural
<1>4. ReadableLast(s) \in Ends(s)
  BY <1>3 DEF ReadableLast
<1>5. HighWater(s) \in Nat
  BY <1>1, <1>2, <1>4 DEF HighWater
<1> QED
  BY <1>1, <1>5 DEF Base

-----------------------------------------------------------------------------
(* Steps of one session *)

\* Nothing of a session changes.
Untouched(t) ==
  /\ phase' = phase /\ lost' = lost /\ (localError => localError')
  /\ lastSeq'[t] = lastSeq[t] /\ tomb'[t] = tomb[t] /\ archive'[t] = archive[t]
  /\ manifest'[t] = manifest[t] /\ chunk'[t] = chunk[t]
  /\ \A b \in BatchesOf(t) :
       /\ resv'[b] = resv[b] /\ file'[b] = file[b] /\ index'[b] = index[b]
       /\ acked'[b] = acked[b] /\ (b \in withdrawn' <=> b \in withdrawn)

LEMMA UntouchedIsSound ==
  ASSUME IInv, NEW t \in Session, Untouched(t),
         localError => (op'[t].pc \in Appending \cup Deleting =>
                          op[t].pc \in Appending \cup Deleting)
  PROVE  SessionSound(t)'
<1> USE DEF Untouched
<1>1. SessionSound(t) /\ BatchesOf(t)' = BatchesOf(t)
  BY DEF IInv, BatchesOf
<1>2. \A b \in BatchesOf(t) : SessionOf[b] = t /\ b \in Batch
  BY DEF BatchesOf
<1>3. \A b \in BatchesOf(t) : Copy(b)' = Copy(b) /\ (b \in Reserved' <=> b \in Reserved)
  BY DEF Copy, Reserved
<1>4. ManifestSound(t)'
  <2>1. ManifestSound(t)
    BY <1>1 DEF SessionSound
  <2> SUFFICES ASSUME manifest[t] # None
               PROVE  ManifestSound(t)'
    BY DEF ManifestSound
  <2>2. manifest[t].ids \subseteq BatchesOf(t) \cap Reserved
    BY <2>1 DEF ManifestSound
  <2>3. {Copy(b)' : b \in manifest'[t].ids} = {Copy(b) : b \in manifest[t].ids}
    BY <1>3, <2>2
  <2>4. Rebuildable(t) => Rebuildable(t)'
    BY <1>2, <2>2 DEF Rebuildable
  <2> QED
    BY <1>1, <1>3, <2>1, <2>2, <2>3, <2>4 DEF ManifestSound
<1>5. ArchiveSound(t)'
  <2>1. ArchiveSound(t)
    BY <1>1 DEF SessionSound
  <2> QED
    BY <1>1, <1>3, <2>1 DEF ArchiveSound
<1>6. ASSUME NEW b \in BatchesOf(t)
      PROVE  IndexSound(b)' /\ ReceiptSound(b)' /\ AckSound(b)'
  <2>1. IndexSound(b) /\ ReceiptSound(b) /\ AckSound(b)
    BY <1>1 DEF SessionSound
  <2>2. IndexSound(b)'
    BY <1>2, <1>3, <2>1 DEF IndexSound, Stray
  <2>3. ReceiptSound(b)'
    BY <1>2, <1>3, <2>1 DEF ReceiptSound, Kept, InArchive
  <2>4. AckSound(b)'
    BY <1>3, <2>1 DEF AckSound
  <2> QED
    BY <2>2, <2>3, <2>4
<1> QED
  BY <1>1, <1>4, <1>5, <1>6 DEF SessionSound

\* The lock of such a session may be taken or let go, or its holder goes on.
LEMMA UntouchedOpIsSound ==
  ASSUME IInv, NEW t \in Session, Untouched(t), op'[t] = op[t]
  PROVE  OpSound(t)'
<1> USE DEF Untouched
<1>1. /\ HolderSound(t) /\ AppendSound(t) /\ ExportSound(t) /\ DeleteSound(t)
      /\ BatchesOf(t)' = BatchesOf(t) /\ ManifestSound(t)
  BY DEF IInv, BatchesOf, SessionSound, OpSound
<1>2. \A b \in BatchesOf(t) : Copy(b)' = Copy(b) /\ (b \in Reserved' <=> b \in Reserved)
  BY DEF Copy, Reserved
<1>3. HolderSound(t)'
  BY <1>1 DEF HolderSound
<1>4. AppendSound(t)'
  BY <1>1, <1>2 DEF AppendSound, HolderSound, Appending
<1>5. ExportSound(t)'
  <2>1. Sealed(t)' = Sealed(t)
    BY DEF Sealed
  <2>2. ASSUME manifest[t] # None
        PROVE  \A b \in manifest[t].ids : Copy(b)' = Copy(b) /\ resv'[b] = resv[b]
    BY <1>1, <1>2, <2>2 DEF ManifestSound
  <2>3. op[t].pc \in Exporting \ {"retire"} => manifest[t] # None
    BY <1>1 DEF ExportSound
  <2>4. op[t].pc = "digest" => chunk'[t] = {Copy(b)' : b \in manifest'[t].ids}
    BY <1>1, <2>2, <2>3 DEF ExportSound, Exporting
  <2> QED
    BY <1>1, <2>1, <2>2, <2>3, <2>4 DEF ExportSound
<1>6. DeleteSound(t)'
  BY <1>1, <1>2 DEF DeleteSound
<1> QED
  BY <1>3, <1>4, <1>5, <1>6 DEF OpSound

\* A step of session s that leaves the others alone.
LEMMA StepOfOne ==
  ASSUME IInv, NEW s \in Session, TypeOK',
         \A t \in Session \ {s} : Untouched(t) /\ op'[t] = op[t],
         SessionSound(s)', OpSound(s)'
  PROVE  IInv'
<1>1. \A t \in Session \ {s} : SessionSound(t)' /\ OpSound(t)'
  BY UntouchedIsSound, UntouchedOpIsSound
<1> QED
  BY <1>1 DEF IInv

-----------------------------------------------------------------------------
(* Steps that only move who holds a lock, and what the process knows *)

LEMMA QuietStep ==
  ASSUME IInv, NEW s \in Session, TypeOK', OpSound(s)',
         UNCHANGED <<dbVars, diskVars, archive, phase, index, auxVars>>,
         \A t \in Session \ {s} : op'[t] = op[t],
         localError => /\ localError'
                       /\ op'[s].pc \in Appending \cup Deleting =>
                            op[s].pc \in Appending \cup Deleting
  PROVE  IInv'
<1>1. \A t \in Session : Untouched(t)
  BY DEF Untouched, dbVars, diskVars, auxVars
<1>2. SessionSound(s)'
  BY <1>1, UntouchedIsSound
<1> QED
  BY <1>1, <1>2, StepOfOne

\* A lock that is let go, or taken for an export or a deletion, promises nothing.
LEMMA FreshLockIsSound ==
  ASSUME IInv, NEW s \in Session, op'[s] \in Op,
         op'[s].pc \in {"idle", "tomb", "select"}, op'[s].by # "append",
         op'[s].pc = "select" => op'[s].by \notin {"none", "startup"},
         phase' # "up" => op'[s].by \in {"none", "startup"},
         phase' \in {"down", "assigning"} => op'[s] = Free
  PROVE  OpSound(s)'
<1>1. HolderSound(s)'
  BY DEF HolderSound, Appending, Exporting
<1>2. AppendSound(s)' /\ ExportSound(s)' /\ DeleteSound(s)'
  BY DEF AppendSound, ExportSound, DeleteSound, Exporting, Deleting
<1> QED
  BY <1>1, <1>2 DEF OpSound

LEMMA FreeIsOp == Free \in Op /\ Free.pc = "idle" /\ Free.by = "none"
  BY DEF Free, Op, Step

\* An exception that touches nothing else.
LEMMA RaiseIsSound ==
  ASSUME IInv, NEW s \in Session, Raise(s)
  PROVE  /\ op' \in [Session -> Op] /\ round' \in Round
         /\ op'[s] = Free /\ \A t \in Session \ {s} : op'[t] = op[t]
         /\ OpSound(s)'
<1>1. /\ op' \in [Session -> Op] /\ round' \in Round
      /\ op'[s] = Free /\ \A t \in Session \ {s} : op'[t] = op[t]
  BY FreeIsOp DEF IInv, TypeOK, Raise, Round, Off
<1>2. OpSound(s)'
  BY <1>1, FreeIsOp, FreshLockIsSound
<1> QED
  BY <1>1, <1>2

LEMMA GotoType ==
  ASSUME IInv, NEW s \in Session, NEW step \in Step, Goto(s, step)
  PROVE  /\ op' \in [Session -> Op] /\ \A t \in Session \ {s} : op'[t] = op[t]
         /\ op'[s].pc = step /\ op'[s].by = op[s].by
         /\ op'[s].batch = op[s].batch /\ op'[s].payload = op[s].payload
  BY DEF IInv, TypeOK, Goto, Op

LEMMA AppendStep ==
  ASSUME IInv, NEW b \in Batch, NEW v \in Payload, Append(b, v)
  PROVE  IInv'
<1> DEFINE s == SessionOf[b]
<1>1. /\ s \in Session /\ b \in BatchesOf(s) /\ op[s] = Free /\ ~localError /\ phase = "up"
      /\ ~tomb[s] /\ Fresh(b, v)
      /\ op' = [op EXCEPT ![s] = [pc |-> "old", by |-> "append", batch |-> b, payload |-> v]]
      /\ UNCHANGED <<dbVars, diskVars, archive, memVars, auxVars, faults>>
  BY SpoolAssumption DEF Append, BatchesOf, Admitted
<1>2. op'[s] = [pc |-> "old", by |-> "append", batch |-> b, payload |-> v]
  BY <1>1 DEF IInv, TypeOK
<1>3. TypeOK'
  <2>1. [pc |-> "old", by |-> "append", batch |-> b, payload |-> v] \in Op
    BY DEF Op, Step
  <2> QED
    BY <1>1, <2>1 DEF IInv, TypeOK, dbVars, diskVars, memVars, auxVars
<1>4. OpSound(s)'
  <2>1. HolderSound(s)'
    BY <1>1, <1>2 DEF HolderSound, Appending, BatchesOf, memVars, diskVars
  <2>2. AppendSound(s)'
    BY <1>1, <1>2 DEF AppendSound, Fresh, Reserved, dbVars
  <2>3. ExportSound(s)' /\ DeleteSound(s)'
    BY <1>2 DEF ExportSound, DeleteSound, Exporting, Deleting
  <2> QED
    BY <2>1, <2>2, <2>3 DEF OpSound
<1> QED
  BY <1>1, <1>3, <1>4, QuietStep DEF memVars, IInv, TypeOK

LEMMA OldAssignedStep ==
  ASSUME IInv, NEW s \in Session, OldAssigned(s)
  PROVE  IInv'
<1>1. op[s].pc = "old" /\ Goto(s, "prepare") /\ OpSound(s)
      /\ UNCHANGED <<dbVars, diskVars, archive, memVars, auxVars, faults>>
  BY DEF OldAssigned, IInv
<1>2. /\ op' \in [Session -> Op] /\ \A t \in Session \ {s} : op'[t] = op[t]
      /\ op'[s].pc = "prepare" /\ op'[s].by = op[s].by
      /\ op'[s].batch = op[s].batch /\ op'[s].payload = op[s].payload
  BY <1>1, GotoType DEF Step
<1>3. TypeOK'
  BY <1>1, <1>2 DEF IInv, TypeOK, dbVars, diskVars, memVars, auxVars
<1>4. OpSound(s)'
  BY <1>1, <1>2 DEF OpSound, HolderSound, AppendSound, ExportSound, DeleteSound, Appending,
                    Exporting, Deleting, BatchesOf, Reserved, dbVars, diskVars, memVars
<1> QED
  BY <1>1, <1>2, <1>3, <1>4, QuietStep DEF memVars, Appending

LEMMA DueStep ==
  ASSUME IInv, NEW s \in Session, Due(s)
  PROVE  IInv'
<1>1. PICK step \in {"select", "reply"} : Goto(s, step)
  BY DEF Due
<1>2. op[s].pc = "check" /\ OpSound(s)
      /\ UNCHANGED <<dbVars, diskVars, archive, memVars, auxVars, faults>>
  BY DEF Due, IInv
<1>3. /\ op' \in [Session -> Op] /\ \A t \in Session \ {s} : op'[t] = op[t]
      /\ op'[s].pc = step /\ op'[s].by = op[s].by
      /\ op'[s].batch = op[s].batch /\ op'[s].payload = op[s].payload
  BY <1>1, GotoType DEF Step
<1>4. TypeOK'
  BY <1>2, <1>3 DEF IInv, TypeOK, dbVars, diskVars, memVars, auxVars
<1>5. OpSound(s)'
  BY <1>2, <1>3 DEF OpSound, HolderSound, AppendSound, ExportSound, DeleteSound, Appending,
                    Exporting, Deleting, BatchesOf, Reserved, dbVars, diskVars, memVars
<1> QED
  BY <1>2, <1>3, <1>4, <1>5, QuietStep DEF memVars, Appending

LEMMA ResumeStep ==
  ASSUME IInv, NEW s \in Session, Resume(s)
  PROVE  IInv'
<1>1. op[s].pc = "select" /\ manifest[s] # None /\ ~tomb[s] /\ OpSound(s) /\ ~localError
      /\ UNCHANGED <<dbVars, diskVars, archive, memVars, auxVars, faults>>
  BY DEF Resume, Frozen, IInv
<1>2. PICK step \in {"seal", "upload"} : /\ Goto(s, step)
                                         /\ step = "seal" <=> ~manifest[s].sealed
  BY DEF Resume, RetryStep
<1>3. /\ op' \in [Session -> Op] /\ \A t \in Session \ {s} : op'[t] = op[t]
      /\ op'[s].pc = step /\ op'[s].by = op[s].by
      /\ op'[s].batch = op[s].batch /\ op'[s].payload = op[s].payload
  BY <1>2, GotoType DEF Step
<1>4. TypeOK'
  BY <1>1, <1>3 DEF IInv, TypeOK, dbVars, diskVars, memVars, auxVars
<1>5. OpSound(s)'
  BY <1>1, <1>2, <1>3 DEF OpSound, HolderSound, AppendSound, ExportSound, DeleteSound, Appending,
                    Exporting, Deleting, BatchesOf, Reserved, dbVars, diskVars, memVars
<1> QED
  BY <1>1, <1>3, <1>4, <1>5, QuietStep DEF memVars

LEMMA ExportedStep ==
  ASSUME IInv, NEW s \in Session, Exported(s)
  PROVE  IInv'
<1>1. /\ op[s].pc = "select" /\ OpSound(s) /\ op[s] \in Op /\ ~localError
      /\ op' = [op EXCEPT ![s] = IF op[s].by = "append" THEN [op[s] EXCEPT !.pc = "reply"]
                                 ELSE Free]
      /\ UNCHANGED <<dbVars, diskVars, archive, memVars, auxVars, faults>>
      /\ ~tomb[s]
  BY DEF Exported, IInv, TypeOK
<1>2. op' \in [Session -> Op] /\ \A t \in Session \ {s} : op'[t] = op[t]
  <2>1. [op[s] EXCEPT !.pc = "reply"] \in Op
    BY <1>1 DEF Op, Step
  <2> QED
    BY <1>1, <2>1, FreeIsOp DEF IInv, TypeOK
<1>3. TypeOK'
  BY <1>1, <1>2 DEF IInv, TypeOK, dbVars, diskVars, memVars, auxVars
<1>4. OpSound(s)'
  <2>1. CASE op[s].by = "append"
    <3>1. op'[s] = [op[s] EXCEPT !.pc = "reply"]
      BY <1>1, <2>1 DEF IInv, TypeOK
    <3>2. /\ op'[s].pc = "reply" /\ op'[s].by = op[s].by
          /\ op'[s].batch = op[s].batch /\ op'[s].payload = op[s].payload
      BY <1>1, <3>1 DEF Op
    <3>3. /\ op[s].pc = "select" /\ OpSound(s) /\ ~tomb[s]
          /\ UNCHANGED <<dbVars, diskVars, archive, memVars, auxVars, faults>>
      BY <1>1
    <3> QED
      BY <2>1, <3>2, <3>3 DEF OpSound, HolderSound, AppendSound, ExportSound, DeleteSound, Appending,
                        Exporting, Deleting, BatchesOf, Reserved, dbVars, diskVars, memVars
  <2>2. CASE op[s].by # "append"
    <3>1. op'[s] = Free
      BY <1>1, <2>2 DEF IInv, TypeOK
    <3> QED
      BY <3>1, FreeIsOp, FreshLockIsSound
  <2> QED
    BY <2>1, <2>2
<1> QED
  BY <1>1, <1>2, <1>3, <1>4, QuietStep DEF memVars

\* Blocked and refused operations, and those whose archive cannot be read.
LEMMA RaisedStep ==
  ASSUME IInv, NEW s \in Session, Raise(s), backendError' \in BOOLEAN, localError' \in BOOLEAN,
         localError => localError', faults' \in [FaultKind -> Nat],
         UNCHANGED <<dbVars, diskVars, archive, phase, index, counter, auxVars>>
  PROVE  IInv'
<1>1. /\ op' \in [Session -> Op] /\ round' \in Round
      /\ op'[s] = Free /\ \A t \in Session \ {s} : op'[t] = op[t]
      /\ OpSound(s)'
  BY RaiseIsSound
<1>2. TypeOK'
  BY <1>1 DEF IInv, TypeOK, dbVars, diskVars, auxVars
<1> QED
  BY <1>1, <1>2, FreeIsOp, QuietStep DEF Appending, Deleting

LEMMA FaultType ==
  ASSUME IInv, NEW kind \in FaultKind \ {"any"}, Fault(kind)
  PROVE  faults' \in [FaultKind -> Nat]
  BY DEF IInv, TypeOK, Fault, FaultKind

LEMMA BlockedStep ==
  ASSUME IInv, NEW s \in Session, Blocked(s) \/ Refuse(s)
  PROVE  IInv'
<1>1. Raise(s) /\ UNCHANGED <<dbVars, diskVars, archive, phase, index, counter, backendError,
                              localError, auxVars, faults>>
  BY DEF Blocked, Refuse
<1> QED
  BY <1>1, RaisedStep DEF IInv, TypeOK

LEMMA ReadFailsStep ==
  ASSUME IInv, NEW s \in Session, ReadFails(s)
  PROVE  IInv'
<1>1. /\ Raise(s) /\ Fault("read") /\ backendError' = TRUE
      /\ UNCHANGED <<dbVars, diskVars, archive, phase, index, counter, localError, auxVars>>
  BY DEF ReadFails
<1>2. faults' \in [FaultKind -> Nat]
  BY <1>1, FaultType DEF FaultKind
<1> QED
  BY <1>1, <1>2, RaisedStep DEF IInv, TypeOK

\* A lock that was free is taken for an export or a deletion.
LEMMA TakenStep ==
  ASSUME IInv, NEW s \in Session, NEW o \in Op, op' = [op EXCEPT ![s] = o],
         o.pc \in {"tomb", "select"}, o.by # "append",
         o.pc = "select" => o.by \notin {"none", "startup"},
         phase # "up" => phase = "purging" /\ o.by = "startup",
         round' \in Round, faults' \in [FaultKind -> Nat],
         UNCHANGED <<dbVars, diskVars, archive, phase, index, counter, backendError,
                     localError, auxVars>>
  PROVE  IInv'
<1>1. /\ op' \in [Session -> Op] /\ \A t \in Session \ {s} : op'[t] = op[t]
      /\ op'[s] = o
  BY DEF IInv, TypeOK
<1>2. TypeOK'
  BY <1>1 DEF IInv, TypeOK, dbVars, diskVars, auxVars
<1>3. OpSound(s)'
  BY <1>1, FreshLockIsSound
<1> QED
  BY <1>1, <1>2, <1>3, QuietStep DEF Appending, Deleting

LEMMA OpenedIsOp ==
  ASSUME NEW by \in {"client", "flusher", "startup"}, NEW pc \in {"select", "tomb"}
  PROVE  LET o == [Free EXCEPT !.pc = pc, !.by = by]
         IN  o \in Op /\ o.pc = pc /\ o.by = by
  BY DEF Free, Op, Step

LEMMA FlushStep ==
  ASSUME IInv, NEW s \in Session, Flush(s) \/ Delete(s)
  PROVE  IInv'
<1>1. CASE Flush(s)
  <2>1. [Free EXCEPT !.pc = "select", !.by = "client"] \in Op
        /\ [Free EXCEPT !.pc = "select", !.by = "client"].pc = "select"
        /\ [Free EXCEPT !.pc = "select", !.by = "client"].by = "client"
    BY OpenedIsOp
  <2>2. /\ phase = "up" /\ op' = [op EXCEPT ![s] = [Free EXCEPT !.pc = "select", !.by = "client"]]
        /\ UNCHANGED <<dbVars, diskVars, archive, memVars, auxVars, faults>>
    BY <1>1 DEF Flush
  <2> QED
    BY <2>1, <2>2, TakenStep DEF memVars, IInv, TypeOK
<1>2. CASE Delete(s)
  <2>1. [Free EXCEPT !.pc = "tomb", !.by = "client"] \in Op
        /\ [Free EXCEPT !.pc = "tomb", !.by = "client"].pc = "tomb"
        /\ [Free EXCEPT !.pc = "tomb", !.by = "client"].by = "client"
    BY OpenedIsOp
  <2>2. /\ phase = "up" /\ op' = [op EXCEPT ![s] = [Free EXCEPT !.pc = "tomb", !.by = "client"]]
        /\ UNCHANGED <<dbVars, diskVars, archive, memVars, auxVars>> /\ Fault("delete")
    BY <1>2 DEF Delete
  <2>3. faults' \in [FaultKind -> Nat]
    BY <2>2, FaultType DEF FaultKind
  <2> QED
    BY <2>1, <2>2, <2>3, TakenStep DEF memVars, IInv, TypeOK
<1> QED
  BY <1>1, <1>2

LEMMA VisitStep ==
  ASSUME IInv, NEW s \in Session, Visit(s)
  PROVE  IInv'
<1> DEFINE pc == IF round.stage = "purge" THEN "tomb" ELSE "select"
           o == [Free EXCEPT !.by = "flusher", !.pc = pc]
<1>1. /\ phase = "up" /\ op' = [op EXCEPT ![s] = o]
      /\ round' = [round EXCEPT !.todo = @ \ {s}]
      /\ UNCHANGED <<dbVars, diskVars, archive, phase, index, counter, backendError, localError,
                     auxVars, faults>>
  BY DEF Visit, NextUp
<1>2. o \in Op /\ o.pc \in {"tomb", "select"} /\ o.by = "flusher"
  BY DEF Free, Op, Step
<1>3. round' \in Round
  BY <1>1 DEF IInv, TypeOK, Round
<1> HIDE DEF o
<1> QED
  BY <1>1, <1>2, <1>3, TakenStep DEF IInv, TypeOK

LEMMA ResumeDeletionStep ==
  ASSUME IInv, NEW s \in Session, ResumeDeletion(s)
  PROVE  IInv'
<1>1. [Free EXCEPT !.pc = "tomb", !.by = "startup"] \in Op
      /\ [Free EXCEPT !.pc = "tomb", !.by = "startup"].pc = "tomb"
      /\ [Free EXCEPT !.pc = "tomb", !.by = "startup"].by = "startup"
  BY OpenedIsOp
<1>2. /\ phase = "purging"
      /\ op' = [op EXCEPT ![s] = [Free EXCEPT !.pc = "tomb", !.by = "startup"]]
      /\ UNCHANGED <<dbVars, diskVars, archive, memVars, auxVars, faults>>
  BY DEF ResumeDeletion
<1> QED
  BY <1>1, <1>2, TakenStep DEF memVars, IInv, TypeOK

\* Nobody's lock is moved.
LEMMA IdleStep ==
  ASSUME IInv, UNCHANGED <<dbVars, diskVars, archive, phase, index, counter, localError, op>>,
         round' \in Round, backendError' \in BOOLEAN, faults' \in [FaultKind -> Nat],
         UNCHANGED auxVars
  PROVE  IInv'
<1>1. TypeOK'
  BY DEF IInv, TypeOK, dbVars, diskVars, auxVars
<1>2. \A t \in Session : Untouched(t)
  BY DEF Untouched, dbVars, diskVars, auxVars
<1>3. \A t \in Session : SessionSound(t)' /\ OpSound(t)'
  BY <1>2, UntouchedIsSound, UntouchedOpIsSound
<1> QED
  BY <1>1, <1>3 DEF IInv

LEMMA FlusherStep ==
  ASSUME IInv, StartRound \/ EndStage \/ ProbeFails \/ (\E s \in Session : Skip(s))
  PROVE  IInv'
<1>1. CASE StartRound
  <2>1. round' \in Round
    BY <1>1 DEF StartRound, Round, FirstStage, Todo, Sessions
  <2> QED
    BY <1>1, <2>1, IdleStep DEF StartRound, IInv, TypeOK
<1>2. CASE EndStage
  <2>1. round' \in Round /\ backendError' \in BOOLEAN
    BY <1>2 DEF EndStage, Round, Off, Sessions
  <2> QED
    BY <1>2, <2>1, IdleStep DEF EndStage, IInv, TypeOK
<1>3. CASE ProbeFails
  <2>1. faults' \in [FaultKind -> Nat]
    BY <1>3, FaultType DEF ProbeFails, FaultKind
  <2> QED
    BY <1>3, <2>1, IdleStep DEF ProbeFails, IInv, TypeOK
<1>4. CASE \E s \in Session : Skip(s)
  <2>1. PICK s \in Session : Skip(s)
    BY <1>4
  <2>2. round' \in Round
    BY <2>1 DEF Skip, Round, IInv, TypeOK
  <2> QED
    BY <2>1, <2>2, IdleStep DEF Skip, IInv, TypeOK
<1> QED
  BY <1>1, <1>2, <1>3, <1>4

-----------------------------------------------------------------------------
(* Reservations and assignments *)

\* A receipt that exists answers a later attempt; a new one lies behind all others.
LEMMA ReserveFacts ==
  ASSUME IInv, NEW b \in Batch, file[b] # None, Reserve(b, file[b])
  PROVE  LET s == SessionOf[b]
         IN  /\ lastSeq' \in [Session -> Nat] /\ resv' \in [Batch -> Receipt \cup {None}]
             /\ lastSeq[s] <= lastSeq'[s]
             /\ \A t \in Session \ {s} : lastSeq'[t] = lastSeq[t]
             /\ \A d \in Batch \ {b} : resv'[d] = resv[d]
             /\ b \in Reserved => resv'[b] = resv[b] /\ lastSeq' = lastSeq
             /\ b \notin Reserved => /\ resv'[b].status = "pending"
                                     /\ lastSeq[s] < resv'[b].first
             /\ resv'[b] # None /\ resv'[b] \in Receipt /\ resv'[b].payload = file[b]
             /\ resv'[b].first > 0 /\ Last(b, resv'[b].first) <= lastSeq'[s]
<1> DEFINE s == SessionOf[b]
<1>1. s \in Session /\ b \in BatchesOf(s) /\ lastSeq \in [Session -> Nat]
      /\ resv \in [Batch -> Receipt \cup {None}] /\ file[b] \in Payload
  BY SpoolAssumption DEF BatchesOf, IInv, TypeOK
<1>2. CASE b \in Reserved
  <2>1. resv[b].payload = file[b] /\ lastSeq' = lastSeq /\ resv' = resv
    BY <1>2 DEF Reserve, Reserved, dbVars
  <2>2. resv[b].first > 0 /\ Last(b, resv[b].first) <= lastSeq[s]
    BY <1>1, <1>2 DEF IInv, SessionSound, ReceiptSound
  <2>3. resv[b] # None /\ resv[b] \in Receipt
    BY <1>1, <1>2 DEF Reserved
  <2> QED
    BY <1>1, <1>2, <2>1, <2>2, <2>3
<1>3. CASE b \notin Reserved
  <2> DEFINE r == [payload |-> file[b], first |-> Base(s) + 1, status |-> "pending"]
  <2>1. /\ lastSeq' = [lastSeq EXCEPT ![s] = Base(s) + SizeOf[b]]
        /\ resv' = [resv EXCEPT ![b] = r]
    BY <1>3 DEF Reserve, Reserved
  <2>2. Base(s) \in Nat /\ lastSeq[s] <= Base(s)
    BY <1>1, BaseBound
  <2>3. SizeOf[b] \in Nat /\ SizeOf[b] > 0
    BY SpoolAssumption
  <2>4. r \in Receipt /\ r # None /\ r.first = Base(s) + 1 /\ r.payload = file[b]
        /\ r.status = "pending"
    BY <1>1, <2>2, NothingAssumption DEF Receipt
  <2>5. resv'[b] = r /\ lastSeq'[s] = Base(s) + SizeOf[b]
    BY <1>1, <2>1
  <2>6. Last(b, r.first) = Base(s) + SizeOf[b]
    BY <2>2, <2>3, <2>4 DEF Last
  <2>7. /\ lastSeq' \in [Session -> Nat] /\ resv' \in [Batch -> Receipt \cup {None}]
        /\ \A t \in Session \ {s} : lastSeq'[t] = lastSeq[t]
        /\ \A d \in Batch \ {b} : resv'[d] = resv[d]
    BY <1>1, <2>1, <2>2, <2>3, <2>4
  <2> HIDE DEF r
  <2> QED
    BY <1>1, <1>3, <2>2, <2>3, <2>4, <2>5, <2>6, <2>7
<1> QED
  BY <1>2, <1>3

\* What the receipt of b promises once it is there, however the index takes it over.
LEMMA ReservedIsSound ==
  ASSUME IInv, NEW b \in Batch, file[b] # None, Reserve(b, file[b]),
         \/ index' = index
         \/ index[b] = 0 /\ index' = [index EXCEPT ![b] = resv'[b].first],
         UNCHANGED <<diskVars, archive, phase, localError, auxVars>>,
         op'[SessionOf[b]].pc \in Appending \cup Deleting =>
           op[SessionOf[b]].pc \in Appending \cup Deleting
  PROVE  SessionSound(SessionOf[b])'
<1> DEFINE s == SessionOf[b]
<1>1. /\ lastSeq' \in [Session -> Nat] /\ lastSeq[s] <= lastSeq'[s]
      /\ lastSeq \in [Session -> Nat] /\ resv \in [Batch -> Receipt \cup {None}]
      /\ \A d \in Batch \ {b} : resv'[d] = resv[d]
      /\ b \in Reserved => resv'[b] = resv[b]
      /\ b \notin Reserved => resv'[b].status = "pending"
      /\ resv'[b] # None /\ resv'[b] \in Receipt /\ resv'[b].payload = file[b]
      /\ resv'[b].first > 0 /\ Last(b, resv'[b].first) <= lastSeq'[s]
  BY ReserveFacts DEF IInv, TypeOK
<1>2. s \in Session /\ b \in BatchesOf(s) /\ BatchesOf(s)' = BatchesOf(s) /\ SessionSound(s)
  BY SpoolAssumption DEF BatchesOf, IInv
<1>3. \A d \in BatchesOf(s) : d \in Batch /\ SessionOf[d] = s
  BY DEF BatchesOf
<1>4. \A d \in Reserved : d \in Reserved' /\ resv'[d] = resv[d] /\ Copy(d)' = Copy(d)
  BY <1>1 DEF Reserved, Copy
<1>5. ManifestSound(s)'
  <2>1. ManifestSound(s)
    BY <1>2 DEF SessionSound
  <2> SUFFICES ASSUME manifest[s] # None
               PROVE  ManifestSound(s)'
    BY DEF ManifestSound, diskVars
  <2>2. /\ manifest[s].ids \subseteq BatchesOf(s) \cap Reserved
        /\ manifest[s] \in Manifest
    BY <1>2, <2>1 DEF ManifestSound, IInv, TypeOK
  <2>3. {Copy(d)' : d \in manifest'[s].ids} = {Copy(d) : d \in manifest[s].ids}
    BY <1>4, <2>2 DEF diskVars
  <2>4. manifest'[s].last <= lastSeq'[s]
    BY <1>1, <1>2, <2>1, <2>2 DEF ManifestSound, Manifest, diskVars
  <2>5. \A d \in manifest[s].ids : /\ index[d] > 0 => index'[d] > 0
                                   /\ index[d] # 0 => index'[d] # 0
                                   /\ resv'[d] = resv[d]
    BY <1>1, <2>2 DEF IInv, TypeOK, Reserved
  <2>6. manifest'[s].sealed => chunk'[s] = {Copy(d)' : d \in manifest'[s].ids}
    BY <2>1, <2>3 DEF ManifestSound, diskVars
  <2>7. ~tomb'[s] => Rebuildable(s)'
    <3>1. ~tomb[s] => Rebuildable(s)
      BY <2>1 DEF ManifestSound
    <3>2. manifest' = manifest /\ file' = file /\ tomb' = tomb /\ phase' = phase
      BY DEF diskVars
    <3> QED
      BY <2>5, <3>1, <3>2 DEF Rebuildable
  <2>8. manifest'[s].ids \subseteq BatchesOf(s)' \cap Reserved'
    BY <1>2, <1>4, <2>2 DEF diskVars
  <2> QED
    BY <2>4, <2>6, <2>7, <2>8 DEF ManifestSound
<1>6. ArchiveSound(s)'
  <2>1. ArchiveSound(s) /\ archive[s] \subseteq Chunk
    BY <1>2 DEF SessionSound, IInv, TypeOK
  <2> QED
    BY <1>1, <1>2, <1>4, <2>1 DEF ArchiveSound, Chunk
<1>7. ASSUME NEW d \in BatchesOf(s)
      PROVE  IndexSound(d)' /\ ReceiptSound(d)' /\ AckSound(d)'
  <2>1. IndexSound(d) /\ ReceiptSound(d) /\ AckSound(d) /\ d \in Batch /\ SessionOf[d] = s
    BY <1>2, <1>3 DEF SessionSound
  <2>2. IndexSound(d)'
    <3>1. index[d] # Absent <=> index'[d] # Absent
      BY <1>1, <2>1 DEF Absent, IInv, TypeOK, Receipt
    <3>2. index'[d] > 0 => d \in Reserved' /\ resv'[d].first = index'[d] /\ resv'[d].payload = file[d]
      BY <1>1, <1>4, <2>1 DEF IndexSound, Reserved, IInv, TypeOK
    <3> QED
      BY <2>1, <3>1, <3>2 DEF IndexSound, Stray, diskVars
  <2>3. ReceiptSound(d)'
    <3>1. CASE d = b /\ b \notin Reserved
      BY <1>1, <2>1, <3>1 DEF ReceiptSound, Kept, diskVars
    <3>2. CASE d \in Reserved
      <4>1. resv'[d] = resv[d] /\ Last(d, resv[d].first) \in Nat
        BY <1>1, <1>4, <2>1, <3>2, LastIsNat DEF Reserved, Receipt
      <4>2. Last(d, resv'[d].first) <= lastSeq'[s]
        BY <1>1, <1>2, <2>1, <3>2, <4>1 DEF ReceiptSound
      <4> QED
        BY <1>4, <2>1, <3>2, <4>1, <4>2 DEF ReceiptSound, Kept, InArchive, diskVars, auxVars
    <3>3. CASE d # b /\ d \notin Reserved
      BY <1>1, <2>1, <3>3 DEF ReceiptSound, Reserved
    <3> QED
      BY <3>1, <3>2, <3>3
  <2>4. AckSound(d)'
    BY <1>4, <2>1 DEF AckSound, auxVars
  <2> QED
    BY <2>2, <2>3, <2>4
<1> QED
  BY <1>2, <1>5, <1>6, <1>7 DEF SessionSound

LEMMA AssignBatchFacts ==
  ASSUME IInv, NEW b \in Batch, file[b] # None, AssignBatch(b)
  PROVE  /\ Reserve(b, file[b])
         /\ index' = [index EXCEPT ![b] = resv'[b].first]
         /\ index' \in [Batch -> Nat \cup {Absent}]
         /\ counter' \in [Session -> Nat \cup {Absent}]
<1>1. resv'[b].first \in Nat /\ Last(b, resv'[b].first) \in Nat
  BY ReserveFacts, LastIsNat DEF AssignBatch, Receipt
<1> QED
  BY <1>1 DEF AssignBatch, IInv, TypeOK

\* The other sessions do not see it.
LEMMA AssignElsewhere ==
  ASSUME IInv, NEW b \in Batch, file[b] # None, Reserve(b, file[b]),
         \A d \in Batch \ {b} : index'[d] = index[d],
         UNCHANGED <<diskVars, archive, phase, localError, auxVars>>
  PROVE  \A t \in Session \ {SessionOf[b]} : Untouched(t)
<1>1. /\ \A t \in Session \ {SessionOf[b]} : lastSeq'[t] = lastSeq[t]
      /\ \A d \in Batch \ {b} : resv'[d] = resv[d]
  BY ReserveFacts
<1> QED
  BY <1>1 DEF Untouched, BatchesOf, diskVars, auxVars

LEMMA AssignOldStep ==
  ASSUME IInv, NEW s \in Session, NEW b \in Batch, AssignOld(s, b)
  PROVE  IInv'
<1>1. /\ op[s].pc = "old" /\ index[b] = 0 /\ SessionOf[b] = s /\ AssignBatch(b)
      /\ UNCHANGED <<diskVars, archive, phase, round, backendError, localError, op, auxVars, faults>>
  BY DEF AssignOld, Unassigned, Records, BatchesOf
<1>2. SessionSound(s) /\ OpSound(s) /\ file[b] # None /\ b \in BatchesOf(s)
  BY <1>1 DEF IInv, SessionSound, IndexSound, BatchesOf, Absent
<1>3. /\ Reserve(b, file[b]) /\ index' = [index EXCEPT ![b] = resv'[b].first]
      /\ index' \in [Batch -> Nat \cup {Absent}] /\ counter' \in [Session -> Nat \cup {Absent}]
  BY <1>1, <1>2, AssignBatchFacts
<1>4. /\ lastSeq' \in [Session -> Nat] /\ resv' \in [Batch -> Receipt \cup {None}]
      /\ \A d \in Batch \ {b} : resv'[d] = resv[d] /\ index'[d] = index[d]
      /\ b \in Reserved => resv'[b] = resv[b]
      /\ b \notin Reserved => resv'[b].status = "pending"
      /\ resv'[b] # None /\ index'[b] # Absent
  BY <1>2, <1>3, ReserveFacts DEF IInv, TypeOK, Absent
<1>5. TypeOK'
  BY <1>1, <1>3, <1>4 DEF IInv, TypeOK, diskVars, auxVars
<1>6. SessionSound(s)'
  BY <1>1, <1>2, <1>3, ReservedIsSound
<1>7. OpSound(s)'
  <2>1. HolderSound(s)'
    BY <1>1, <1>2 DEF OpSound, HolderSound, BatchesOf, diskVars
  <2>2. AppendSound(s)'
    BY <1>1, <1>2, <1>4 DEF OpSound, AppendSound, HolderSound, Appending, Reserved, BatchesOf
  <2>3. ExportSound(s)' /\ DeleteSound(s)'
    BY <1>1 DEF ExportSound, DeleteSound, Exporting, Deleting
  <2> QED
    BY <2>1, <2>2, <2>3 DEF OpSound
<1>8. \A t \in Session \ {s} : Untouched(t) /\ op'[t] = op[t]
  BY <1>1, <1>2, <1>3, <1>4, AssignElsewhere
<1> QED
  BY <1>5, <1>6, <1>7, <1>8, StepOfOne

\* The batch of an append has its receipt from here on.
LEMMA AssignStep ==
  ASSUME IInv, NEW s \in Session, Assign(s)
  PROVE  IInv'
<1> DEFINE b == op[s].batch
<1>1. /\ op[s].pc = "assign" /\ Goto(s, "check")
      /\ UNCHANGED <<diskVars, archive, phase, round, backendError, localError, auxVars, faults>>
  BY DEF Assign
<1>2. /\ SessionSound(s) /\ OpSound(s) /\ op[s].by = "append" /\ b \in BatchesOf(s) /\ b \in Batch
      /\ SessionOf[b] = s /\ op[s].payload \in Payload
      /\ index[b] # Absent /\ file[b] = op[s].payload /\ file[b] # None
  BY <1>1, SpoolAssumption DEF IInv, OpSound, HolderSound, AppendSound, Appending, BatchesOf
<1>3. /\ op' \in [Session -> Op] /\ \A t \in Session \ {s} : op'[t] = op[t]
      /\ op'[s].pc = "check" /\ op'[s].by = op[s].by
      /\ op'[s].batch = b /\ op'[s].payload = op[s].payload
  BY <1>1, GotoType DEF Step
<1>4. ASSUME TypeOK', SessionSound(s)', resv'[b] # None, resv'[b].payload = op[s].payload,
             \A t \in Session \ {s} : Untouched(t)
      PROVE  IInv'
  <2>1. HolderSound(s)'
    BY <1>1, <1>2, <1>3 DEF OpSound, HolderSound, Appending, BatchesOf, diskVars
  <2>2. AppendSound(s)'
    BY <1>2, <1>3, <1>4 DEF AppendSound, Reserved
  <2>3. ExportSound(s)' /\ DeleteSound(s)'
    BY <1>3 DEF ExportSound, DeleteSound, Exporting, Deleting
  <2> QED
    BY <1>3, <1>4, <2>1, <2>2, <2>3, StepOfOne DEF OpSound
<1>5. CASE index[b] = 0
  <2>1. AssignBatch(b)
    BY <1>5 DEF Assign
  <2>2. /\ Reserve(b, file[b]) /\ index' = [index EXCEPT ![b] = resv'[b].first]
        /\ index' \in [Batch -> Nat \cup {Absent}] /\ counter' \in [Session -> Nat \cup {Absent}]
    BY <1>2, <2>1, AssignBatchFacts
  <2>3. /\ lastSeq' \in [Session -> Nat] /\ resv' \in [Batch -> Receipt \cup {None}]
        /\ resv'[b] # None /\ resv'[b].payload = file[b]
    BY <1>2, <2>2, ReserveFacts
  <2>4. TypeOK'
    BY <1>1, <1>3, <2>2, <2>3 DEF IInv, TypeOK, diskVars, auxVars
  <2>5. SessionSound(s)'
    BY <1>1, <1>2, <1>3, <1>5, <2>2, ReservedIsSound DEF Appending
  <2>6. \A t \in Session \ {s} : Untouched(t)
    BY <1>1, <1>2, <2>2, AssignElsewhere DEF IInv, TypeOK
  <2> QED
    BY <1>2, <1>4, <2>3, <2>4, <2>5, <2>6
<1>6. CASE index[b] # 0
  <2>1. UNCHANGED <<dbVars, index, counter>>
    BY <1>6 DEF Assign
  <2>2. b \in Reserved /\ resv[b].payload = file[b]
    BY <1>2, <1>6 DEF IInv, TypeOK, Absent, SessionSound, IndexSound
  <2>3. TypeOK'
    BY <1>1, <1>3, <2>1 DEF IInv, TypeOK, dbVars, diskVars, auxVars
  <2>4. \A t \in Session : Untouched(t)
    BY <1>1, <2>1 DEF Untouched, dbVars, diskVars, auxVars
  <2>5. SessionSound(s)'
    BY <1>1, <1>3, <2>4, UntouchedIsSound DEF Appending
  <2> QED
    BY <1>2, <1>4, <2>1, <2>2, <2>3, <2>4, <2>5 DEF dbVars, Reserved
<1> QED
  BY <1>5, <1>6

LEMMA ReassignStep ==
  ASSUME IInv, NEW b \in Batch, Reassign(b)
  PROVE  IInv'
<1> DEFINE s == SessionOf[b]
<1>1. /\ phase = "assigning" /\ index[b] = 0 /\ AssignBatch(b)
      /\ UNCHANGED <<diskVars, archive, phase, round, backendError, localError, op, auxVars, faults>>
  BY DEF Reassign
<1>2. s \in Session /\ b \in BatchesOf(s) /\ SessionSound(s) /\ OpSound(s) /\ op[s] = Free
  BY <1>1, SpoolAssumption DEF IInv, BatchesOf, OpSound, HolderSound
<1>3. file[b] # None
  BY <1>1, <1>2 DEF SessionSound, IndexSound, Absent
<1>4. /\ Reserve(b, file[b]) /\ index' = [index EXCEPT ![b] = resv'[b].first]
      /\ index' \in [Batch -> Nat \cup {Absent}] /\ counter' \in [Session -> Nat \cup {Absent}]
  BY <1>1, <1>3, AssignBatchFacts
<1>5. lastSeq' \in [Session -> Nat] /\ resv' \in [Batch -> Receipt \cup {None}]
  BY <1>3, <1>4, ReserveFacts
<1>6. TypeOK'
  BY <1>1, <1>4, <1>5 DEF IInv, TypeOK, diskVars, auxVars
<1>7. SessionSound(s)'
  BY <1>1, <1>3, <1>4, ReservedIsSound
<1>8. OpSound(s)'
  BY <1>1, <1>2, <1>6, FreeIsOp, FreshLockIsSound DEF TypeOK
<1>9. \A t \in Session \ {s} : Untouched(t) /\ op'[t] = op[t]
  BY <1>1, <1>3, <1>4, AssignElsewhere DEF IInv, TypeOK
<1> QED
  BY <1>2, <1>6, <1>7, <1>8, <1>9, StepOfOne

\* The transaction fails, or its answer is lost.
LEMMA AssignFailsStep ==
  ASSUME IInv, NEW s \in Session, NEW b \in Batch, AssignFails(s, b)
  PROVE  IInv'
<1>1. /\ index[b] = 0 /\ SessionOf[b] = s /\ Raise(s) /\ Fault("database")
      /\ UNCHANGED <<diskVars, archive, phase, index, counter, backendError, localError, auxVars>>
      /\ Reserve(b, file[b]) \/ UNCHANGED dbVars
  BY DEF AssignFails, Unassigned, Records, BatchesOf, IInv, OpSound, HolderSound, Appending
<1>2. file[b] # None /\ b \in BatchesOf(s)
  BY <1>1 DEF IInv, SessionSound, IndexSound, BatchesOf, Absent
<1>3. faults' \in [FaultKind -> Nat]
  BY <1>1, FaultType DEF FaultKind
<1>4. CASE UNCHANGED dbVars
  BY <1>1, <1>3, <1>4, RaisedStep DEF IInv, TypeOK
<1>5. CASE Reserve(b, file[b])
  <2>1. /\ op' \in [Session -> Op] /\ round' \in Round /\ op'[s] = Free
        /\ \A t \in Session \ {s} : op'[t] = op[t]
        /\ OpSound(s)'
    BY <1>1, RaiseIsSound
  <2>2. lastSeq' \in [Session -> Nat] /\ resv' \in [Batch -> Receipt \cup {None}]
    BY <1>2, <1>5, ReserveFacts
  <2>3. TypeOK'
    BY <1>1, <1>3, <2>1, <2>2 DEF IInv, TypeOK, diskVars, auxVars
  <2>4. SessionSound(s)'
    BY <1>1, <1>2, <1>5, <2>1, FreeIsOp, ReservedIsSound DEF Appending, Deleting
  <2>5. \A t \in Session \ {s} : Untouched(t) /\ op'[t] = op[t]
    BY <1>1, <1>2, <1>5, <2>1, AssignElsewhere
  <2> QED
    BY <2>1, <2>3, <2>4, <2>5, StepOfOne
<1> QED
  BY <1>1, <1>4, <1>5

-----------------------------------------------------------------------------
(* Staging and answering a batch *)

\* At "prepare" a batch that is not staged has no file, and if it has a receipt
\* this is the pending one of the same payload.
LEMMA PrepareFacts ==
  ASSUME IInv, NEW s \in Session, op[s].pc = "prepare"
  PROVE  LET b == op[s].batch
         IN  /\ SessionSound(s) /\ OpSound(s) /\ op[s].by = "append" /\ phase = "up" /\ ~tomb[s]
             /\ b \in BatchesOf(s) /\ b \in Batch /\ SessionOf[b] = s /\ op[s].payload \in Payload
             /\ op[s].payload # None
             /\ index[b] = Absent =>
                  /\ file[b] = None
                  /\ b \in Reserved => /\ resv[b].status = "pending"
                                       /\ resv[b].payload = op[s].payload
                  /\ manifest[s] # None => b \notin manifest[s].ids
<1> DEFINE b == op[s].batch
<1>1. /\ SessionSound(s) /\ OpSound(s) /\ op[s].by = "append" /\ ~tomb[s]
      /\ b \in BatchesOf(s) /\ op[s].payload \in Payload /\ op[s].payload # None
  BY SpoolAssumption DEF IInv, OpSound, HolderSound, Appending
<1>2. phase = "up" /\ b \in Batch /\ SessionOf[b] = s
  BY <1>1 DEF OpSound, HolderSound, BatchesOf
<1>3. ASSUME index[b] = Absent
      PROVE  /\ file[b] = None
             /\ b \in Reserved => resv[b].status = "pending" /\ resv[b].payload = op[s].payload
  <2>1. IndexSound(b)
    BY <1>1 DEF SessionSound
  <2> QED
    BY <1>1, <1>2, <1>3, <2>1 DEF IndexSound, Stray, OpSound, AppendSound, Appending
<1>4. ASSUME index[b] = Absent, manifest[s] # None, b \in manifest[s].ids
      PROVE  FALSE
  <2>1. b \in Reserved /\ Rebuildable(s)
    BY <1>1, <1>4 DEF SessionSound, ManifestSound
  <2> QED
    BY <1>3, <1>4, <2>1 DEF Rebuildable
<1> QED
  BY <1>1, <1>2, <1>3, <1>4

LEMMA StagedIsSound ==
  ASSUME IInv, NEW s \in Session, op[s].pc = "prepare", index[op[s].batch] = Absent,
         file' = [file EXCEPT ![op[s].batch] = op[s].payload],
         \/ /\ index' = [index EXCEPT ![op[s].batch] = 0] /\ localError' = localError
            /\ ~localError
         \/ index' = index /\ localError' = TRUE /\ op'[s] = Free,
         UNCHANGED <<dbVars, manifest, chunk, tomb, archive, phase, auxVars>>
  PROVE  SessionSound(s)'
<1> DEFINE b == op[s].batch
<1>1. /\ SessionSound(s) /\ phase = "up" /\ ~tomb[s]
      /\ b \in BatchesOf(s) /\ b \in Batch /\ SessionOf[b] = s /\ op[s].payload # None
      /\ file[b] = None
      /\ b \in Reserved => resv[b].status = "pending" /\ resv[b].payload = op[s].payload
      /\ manifest[s] # None => b \notin manifest[s].ids
  BY PrepareFacts
<1>2. /\ file'[b] = op[s].payload /\ \A d \in Batch \ {b} : file'[d] = file[d] /\ index'[d] = index[d]
      /\ Reserved' = Reserved /\ BatchesOf(s)' = BatchesOf(s)
  BY <1>1 DEF IInv, TypeOK, Reserved, BatchesOf, dbVars
<1>3. \A d \in Batch : Copy(d)' = Copy(d)
  BY DEF Copy, dbVars
<1>4. ManifestSound(s)'
  <2>1. ManifestSound(s)
    BY <1>1 DEF SessionSound
  <2> SUFFICES ASSUME manifest[s] # None
               PROVE  ManifestSound(s)'
    BY DEF ManifestSound
  <2>2. manifest[s].ids \subseteq BatchesOf(s) \cap Reserved
    BY <2>1 DEF ManifestSound
  <2>3. {Copy(d)' : d \in manifest'[s].ids} = {Copy(d) : d \in manifest[s].ids}
    BY <1>3, <2>2 DEF Reserved
  <2>4. Rebuildable(s)'
    BY <1>1, <1>2, <2>1, <2>2 DEF ManifestSound, Rebuildable, Reserved, dbVars
  <2> QED
    BY <1>2, <2>1, <2>3, <2>4 DEF ManifestSound, dbVars
<1>5. ArchiveSound(s)'
  BY <1>1, <1>2, <1>3 DEF SessionSound, ArchiveSound, Reserved, dbVars
<1>6. ASSUME NEW d \in BatchesOf(s)
      PROVE  IndexSound(d)' /\ ReceiptSound(d)' /\ AckSound(d)'
  <2>1. IndexSound(d) /\ ReceiptSound(d) /\ AckSound(d) /\ d \in Batch /\ SessionOf[d] = s
    BY <1>1 DEF SessionSound, BatchesOf
  <2>2. IndexSound(d)'
    <3>1. CASE d = b
      <4>1. index'[b] = 0 \/ (index'[b] = Absent /\ localError' /\ op'[s].pc = "idle")
        BY <1>1, FreeIsOp DEF IInv, TypeOK
      <4> QED
        BY <1>1, <1>2, <2>1, <3>1, <4>1 DEF IndexSound, Stray, Absent, Appending, Deleting
    <3>2. CASE d # b
      <4>1. Stray(d)' => Stray(d)
        BY <1>2, <2>1, <3>2 DEF Stray
      <4>2. ~Stray(d)
        BY <2>1 DEF IndexSound, Appending
      <4> QED
        BY <1>2, <2>1, <3>2, <4>1, <4>2 DEF IndexSound, dbVars
    <3> QED
      BY <3>1, <3>2
  <2>3. ReceiptSound(d)'
    <3>1. CASE d = b
      BY <1>1, <1>2, <2>1, <3>1 DEF ReceiptSound, Kept, InArchive, dbVars, auxVars
    <3>2. CASE d # b
      BY <1>2, <2>1, <3>2 DEF ReceiptSound, Kept, InArchive, dbVars, auxVars
    <3> QED
      BY <3>1, <3>2
  <2>4. AckSound(d)'
    BY <1>2, <2>1 DEF AckSound, dbVars, auxVars
  <2> QED
    BY <2>2, <2>3, <2>4
<1> QED
  BY <1>2, <1>4, <1>5, <1>6 DEF SessionSound

LEMMA StageElsewhere ==
  ASSUME IInv, NEW s \in Session, NEW b \in BatchesOf(s),
         \A d \in Batch \ {b} : file'[d] = file[d] /\ index'[d] = index[d],
         localError => localError',
         UNCHANGED <<dbVars, manifest, chunk, tomb, archive, phase, auxVars>>
  PROVE  \A t \in Session \ {s} : Untouched(t)
  BY DEF Untouched, BatchesOf, dbVars, auxVars

LEMMA PrepareStep ==
  ASSUME IInv, NEW s \in Session, Prepare(s)
  PROVE  IInv'
<1> DEFINE b == op[s].batch
<1>1. /\ op[s].pc = "prepare" /\ Goto(s, "assign") /\ ~localError
      /\ UNCHANGED <<dbVars, manifest, chunk, tomb, archive, phase, counter, round,
                     backendError, localError, auxVars, faults>>
  BY DEF Prepare, Admitted
<1>2. /\ SessionSound(s) /\ OpSound(s) /\ op[s].by = "append" /\ phase = "up" /\ ~tomb[s]
      /\ b \in BatchesOf(s) /\ b \in Batch /\ op[s].payload \in Payload
  BY <1>1, PrepareFacts
<1>3. /\ op' \in [Session -> Op] /\ \A t \in Session \ {s} : op'[t] = op[t]
      /\ op'[s].pc = "assign" /\ op'[s].by = op[s].by
      /\ op'[s].batch = b /\ op'[s].payload = op[s].payload
  BY <1>1, GotoType DEF Step
<1>4. CASE Staged(b)
  <2>1. file[b] = op[s].payload /\ UNCHANGED <<file, index>> /\ index[b] # Absent
    BY <1>4 DEF Prepare, Staged
  <2>2. TypeOK'
    BY <1>1, <1>3, <2>1 DEF IInv, TypeOK, dbVars, auxVars
  <2>3. OpSound(s)'
    <3>1. HolderSound(s)'
      BY <1>1, <1>2, <1>3 DEF HolderSound, Appending, BatchesOf
    <3>2. AppendSound(s)' /\ ExportSound(s)' /\ DeleteSound(s)'
      BY <1>3, <2>1 DEF AppendSound, ExportSound, DeleteSound, Exporting, Deleting
    <3> QED
      BY <3>1, <3>2 DEF OpSound
  <2> QED
    BY <1>1, <1>3, <2>1, <2>2, <2>3, QuietStep DEF diskVars
<1>5. CASE ~Staged(b)
  <2>1. /\ index[b] = Absent /\ file' = [file EXCEPT ![b] = op[s].payload]
        /\ index' = [index EXCEPT ![b] = 0]
    BY <1>5 DEF Prepare, Staged
  <2>2. TypeOK'
    BY <1>1, <1>2, <1>3, <2>1 DEF IInv, TypeOK, dbVars, auxVars
  <2>3. SessionSound(s)'
    BY <1>1, <2>1, StagedIsSound
  <2>4. OpSound(s)'
    <3>1. HolderSound(s)'
      BY <1>1, <1>2, <1>3 DEF HolderSound, Appending, BatchesOf
    <3>2. index'[b] = 0 /\ file'[b] = op[s].payload
      BY <1>2, <2>1 DEF IInv, TypeOK
    <3>3. AppendSound(s)' /\ ExportSound(s)' /\ DeleteSound(s)'
      BY <1>3, <3>2 DEF AppendSound, ExportSound, DeleteSound, Exporting, Deleting, Absent
    <3> QED
      BY <3>1, <3>3 DEF OpSound
  <2>5. \A t \in Session \ {s} : Untouched(t) /\ op'[t] = op[t]
    BY <1>1, <1>2, <1>3, <2>1, StageElsewhere DEF IInv, TypeOK
  <2> QED
    BY <2>2, <2>3, <2>4, <2>5, StepOfOne
<1> QED
  BY <1>4, <1>5

\* What was acknowledged is the receipt.
LEMMA AckStep ==
  ASSUME IInv, NEW s \in Session, NEW b \in BatchesOf(s), NEW v \in Payload,
         b \in Reserved, resv[b].payload = v,
         acked' = [acked EXCEPT ![b] = [payload |-> v, first |-> resv[b].first]],
         op' \in [Session -> Op], OpSound(s)',
         op'[s] = op[s] \/ op'[s].pc = "idle", \A t \in Session \ {s} : op'[t] = op[t],
         UNCHANGED <<dbVars, diskVars, archive, memVars, withdrawn, lost, faults>>
  PROVE  IInv'
<1>1. b \in Batch /\ resv[b] \in Receipt
  BY DEF BatchesOf, Reserved, IInv, TypeOK
<1>2. [payload |-> v, first |-> resv[b].first] \in Ack
  BY <1>1 DEF Ack, Receipt
<1>3. TypeOK'
  BY <1>2 DEF IInv, TypeOK, dbVars, diskVars, memVars
<1>4. SessionSound(s)'
  <2>1. SessionSound(s) /\ BatchesOf(s)' = BatchesOf(s) /\ Reserved' = Reserved
    BY DEF IInv, BatchesOf, Reserved, dbVars
  <2>2. \A d \in Batch : Copy(d)' = Copy(d)
    BY DEF Copy, dbVars
  <2>3. ManifestSound(s)'
    <3>1. manifest[s] # None => manifest[s].ids \subseteq Batch
      BY DEF IInv, TypeOK, Manifest
    <3>2. manifest[s] # None => {Copy(d)' : d \in manifest[s].ids} = {Copy(d) : d \in manifest[s].ids}
      BY <2>2, <3>1
    <3> QED
      BY <2>1, <3>2 DEF SessionSound, ManifestSound, Rebuildable, dbVars, diskVars, memVars
  <2>4. ArchiveSound(s)'
    BY <2>1, <2>2 DEF SessionSound, ArchiveSound, Reserved, dbVars
  <2>5. ASSUME NEW d \in BatchesOf(s)
        PROVE  IndexSound(d)' /\ ReceiptSound(d)' /\ AckSound(d)'
    <3>1. IndexSound(d) /\ ReceiptSound(d) /\ AckSound(d) /\ d \in Batch /\ SessionOf[d] = s
      BY <2>1 DEF SessionSound, BatchesOf
    <3>2. IndexSound(d)'
      BY <2>1, <3>1 DEF IndexSound, Stray, Appending, Deleting, dbVars, diskVars, memVars
    <3>3. ReceiptSound(d)'
      BY <2>1, <3>1 DEF ReceiptSound, Kept, InArchive, dbVars, diskVars, memVars
    <3>4. AckSound(d)'
      <4>1. d # b => acked'[d] = acked[d]
        BY <3>1 DEF IInv, TypeOK
      <4>2. acked'[b] = [payload |-> v, first |-> resv[b].first]
        BY <1>1 DEF IInv, TypeOK
      <4> QED
        BY <2>1, <3>1, <4>1, <4>2 DEF AckSound, dbVars
    <3> QED
      BY <3>2, <3>3, <3>4
  <2> QED
    BY <2>1, <2>3, <2>4, <2>5 DEF SessionSound
<1>5. \A t \in Session \ {s} : Untouched(t)
  BY <1>1 DEF Untouched, BatchesOf, IInv, TypeOK, dbVars, diskVars, memVars
<1> QED
  BY <1>3, <1>4, <1>5, StepOfOne

LEMMA ReplyStep ==
  ASSUME IInv, NEW s \in Session, Reply(s)
  PROVE  IInv'
<1> DEFINE b == op[s].batch
<1>1. /\ op[s].pc = "reply" /\ op' = [op EXCEPT ![s] = Free]
      /\ acked' = [acked EXCEPT ![b] = [payload |-> op[s].payload, first |-> resv[b].first]]
      /\ UNCHANGED <<dbVars, diskVars, archive, memVars, withdrawn, lost, faults>>
  BY DEF Reply
<1>2. b \in BatchesOf(s) /\ op[s].payload \in Payload /\ b \in Reserved
      /\ resv[b].payload = op[s].payload
  BY <1>1 DEF IInv, OpSound, HolderSound, AppendSound, Appending
<1>3. op' \in [Session -> Op] /\ op'[s] = Free /\ \A t \in Session \ {s} : op'[t] = op[t]
  BY <1>1, FreeIsOp DEF IInv, TypeOK
<1>4. OpSound(s)'
  BY <1>3, FreeIsOp, FreshLockIsSound
<1> QED
  BY <1>1, <1>2, <1>3, <1>4, FreeIsOp, AckStep

LEMMA ReplayStep ==
  ASSUME IInv, NEW b \in Batch, NEW v \in Payload, Replay(b, v)
  PROVE  IInv'
<1> DEFINE s == SessionOf[b]
<1>1. /\ s \in Session /\ b \in BatchesOf(s) /\ b \in Reserved /\ resv[b].payload = v
      /\ op[s] = Free /\ op' = op
      /\ acked' = [acked EXCEPT ![b] = [payload |-> v, first |-> resv[b].first]]
      /\ UNCHANGED <<dbVars, diskVars, archive, memVars, withdrawn, lost, faults>>
  BY SpoolAssumption DEF Replay, BatchesOf, Reserved
<1>2. OpSound(s)'
  BY <1>1, FreeIsOp, FreshLockIsSound DEF IInv, TypeOK
<1> QED
  BY <1>1, <1>2, AckStep DEF IInv, TypeOK

-----------------------------------------------------------------------------
(* Exporting: the manifest and its sealed copy *)

\* Steps that change no more of a session than its manifest and sealed copy.
LEMMA FrozenStep ==
  ASSUME IInv, NEW s \in Session, TypeOK', OpSound(s)',
         UNCHANGED <<dbVars, file, tomb, archive, phase, index, localError, auxVars>>,
         \A t \in Session \ {s} : /\ manifest'[t] = manifest[t] /\ chunk'[t] = chunk[t]
                                   /\ op'[t] = op[t],
         op'[s].pc \in Appending \cup Deleting => op[s].pc \in Appending \cup Deleting,
         ManifestSound(s)',
         manifest'[s] # None =>
           \A b \in manifest'[s].ids :
             ~Stray(b) /\ (b \in Reserved /\ resv[b].status = "deleted" => tomb[s])
  PROVE  IInv'
<1>1. SessionSound(s)'
  <2>1. SessionSound(s) /\ BatchesOf(s)' = BatchesOf(s) /\ Reserved' = Reserved
    BY DEF IInv, BatchesOf, Reserved, dbVars
  <2>2. ArchiveSound(s)'
    <3>1. \A d \in Batch : Copy(d)' = Copy(d)
      BY DEF Copy, dbVars
    <3> QED
      BY <2>1, <3>1 DEF SessionSound, ArchiveSound, Reserved, dbVars
  <2>3. ASSUME NEW d \in BatchesOf(s)
        PROVE  IndexSound(d)' /\ ReceiptSound(d)' /\ AckSound(d)'
    <3>1. IndexSound(d) /\ ReceiptSound(d) /\ AckSound(d) /\ d \in Batch /\ SessionOf[d] = s
      BY <2>1 DEF SessionSound, BatchesOf
    <3>2. IndexSound(d)'
      <4>1. Stray(d)' <=> Stray(d)
        BY DEF Stray
      <4> QED
        BY <2>1, <3>1, <4>1 DEF IndexSound, dbVars
    <3>3. ReceiptSound(d)'
      BY <2>1, <3>1 DEF ReceiptSound, Kept, InArchive, dbVars, auxVars
    <3>4. AckSound(d)'
      BY <2>1, <3>1 DEF AckSound, dbVars, auxVars
    <3> QED
      BY <3>2, <3>3, <3>4
  <2> QED
    BY <2>1, <2>2, <2>3 DEF SessionSound
<1>2. \A t \in Session \ {s} : Untouched(t)
  BY DEF Untouched, dbVars, auxVars
<1> QED
  BY <1>1, <1>2, StepOfOne

\* Who exports holds the lock of a session that is not being deleted.
LEMMA ExportingFacts ==
  ASSUME IInv, NEW s \in Session, op[s].pc \in Exporting \cup {"select"}
  PROVE  /\ phase = "up" /\ SessionSound(s) /\ OpSound(s)
         /\ op[s].pc \in Exporting => ~tomb[s]
         /\ op[s].pc \in Exporting \ {"retire"} => manifest[s] # None
         /\ manifest[s] # None =>
              /\ manifest[s] \in Manifest /\ manifest[s].ids \subseteq BatchesOf(s) \cap Reserved
              /\ \A b \in manifest[s].ids :
                   ~Stray(b) /\ (resv[b].status = "deleted" => tomb[s])
<1>1. phase = "up" /\ SessionSound(s) /\ OpSound(s) /\ (op[s].pc \in Exporting => ~tomb[s])
  BY DEF IInv, OpSound, HolderSound, Exporting, Deleting
<1>2. op[s].pc \in Exporting \ {"retire"} => manifest[s] # None
  BY <1>1 DEF OpSound, ExportSound
<1>3. ASSUME manifest[s] # None
      PROVE  /\ manifest[s] \in Manifest /\ manifest[s].ids \subseteq BatchesOf(s) \cap Reserved
             /\ \A b \in manifest[s].ids :
                  ~Stray(b) /\ (resv[b].status = "deleted" => tomb[s])
  <2>1. manifest[s] \in Manifest /\ manifest[s].ids \subseteq BatchesOf(s) \cap Reserved
    BY <1>1, <1>3 DEF IInv, TypeOK, SessionSound, ManifestSound
  <2> SUFFICES ASSUME NEW b \in manifest[s].ids
               PROVE  ~Stray(b) /\ (resv[b].status = "deleted" => tomb[s])
    BY <2>1
  <2>2. IndexSound(b) /\ ReceiptSound(b) /\ SessionOf[b] = s /\ b \in Reserved
    BY <1>1, <2>1 DEF SessionSound, BatchesOf
  <2> QED
    BY <1>3, <2>2 DEF IndexSound, ReceiptSound
<1> QED
  BY <1>1, <1>2, <1>3

\* A batch that can be selected has its receipt's place.
LEMMA RecordFacts ==
  ASSUME IInv, NEW s \in Session, ~localError, phase = "up", ~tomb[s], Unassigned(s) = {},
         NEW b \in Records(s)
  PROVE  /\ b \in Batch /\ b \in BatchesOf(s) \cap Reserved /\ index[b] \in Nat /\ index[b] > 0
         /\ resv[b] \in Receipt /\ resv[b].first = index[b] /\ resv[b].payload = file[b]
         /\ file[b] # None /\ ~Stray(b) /\ resv[b].status # "deleted"
         /\ Last(b, index[b]) \in Nat /\ Last(b, index[b]) <= lastSeq[s]
<1>1. b \in Batch /\ b \in BatchesOf(s) /\ SessionOf[b] = s /\ index[b] # Absent /\ index[b] # 0
  BY DEF Records, Unassigned, BatchesOf
<1>2. index[b] \in Nat /\ index[b] > 0
  BY <1>1 DEF IInv, TypeOK, Absent
<1>3. IndexSound(b) /\ ReceiptSound(b)
  BY <1>1 DEF IInv, SessionSound
<1>4. b \in Reserved /\ resv[b].first = index[b] /\ resv[b].payload = file[b] /\ file[b] # None
  BY <1>1, <1>2, <1>3 DEF IndexSound
<1>5. resv[b].status # "deleted"
  BY <1>1, <1>3, <1>4 DEF ReceiptSound
<1> QED
  BY <1>1, <1>2, <1>3, <1>4, <1>5, LastIsNat DEF Stray, ReceiptSound, Reserved, IInv, TypeOK

LEMMA SelectStep ==
  ASSUME IInv, NEW s \in Session, NEW ids \in SUBSET Batch, Select(s, ids)
  PROVE  IInv'
<1>1. /\ op[s].pc = "select" /\ ~localError /\ ~tomb[s] /\ Unassigned(s) = {}
      /\ ids \subseteq Records(s) /\ Goto(s, "seal")
      /\ UNCHANGED <<dbVars, file, chunk, tomb, archive, memVars, auxVars, faults>>
  BY DEF Select, Group
<1>2. PICK a \in ids, z \in ids :
        manifest' = [manifest EXCEPT ![s] =
          [ids |-> ids, first |-> index[a], last |-> Last(z, index[z]), sealed |-> FALSE]]
  BY DEF Select
<1> DEFINE m == [ids |-> ids, first |-> index[a], last |-> Last(z, index[z]), sealed |-> FALSE]
<1>3. phase = "up" /\ SessionSound(s) /\ OpSound(s)
  BY <1>1, ExportingFacts
<1>4. \A b \in ids :
        /\ b \in Batch /\ b \in BatchesOf(s) \cap Reserved /\ index[b] \in Nat /\ index[b] > 0
        /\ file[b] # None /\ ~Stray(b) /\ resv[b].status # "deleted"
        /\ Last(b, index[b]) \in Nat /\ Last(b, index[b]) <= lastSeq[s]
  BY <1>1, <1>3, RecordFacts
<1>5. /\ m \in Manifest /\ m # None /\ m.ids = ids /\ ~m.sealed /\ m.last = Last(z, index[z])
  <2>1. index[a] \in Nat /\ Last(z, index[z]) \in Nat
    BY <1>4
  <2>2. m \in Manifest
    BY <2>1 DEF Manifest
  <2>3. m.ids = ids /\ m.last = Last(z, index[z])
    OBVIOUS
  <2>4. ~m.sealed
    OBVIOUS
  <2> QED
    BY <2>2, <2>3, <2>4, NothingAssumption
<1>6. manifest'[s] = m /\ manifest' \in [Session -> Manifest \cup {None}]
      /\ \A t \in Session \ {s} : manifest'[t] = manifest[t]
  BY <1>2, <1>5 DEF IInv, TypeOK
<1> HIDE DEF m
<1>7. /\ op' \in [Session -> Op] /\ \A t \in Session \ {s} : op'[t] = op[t]
      /\ op'[s].pc = "seal" /\ op'[s].by = op[s].by
      /\ op'[s].batch = op[s].batch /\ op'[s].payload = op[s].payload
  BY <1>1, GotoType DEF Step
<1>8. TypeOK'
  BY <1>1, <1>6, <1>7 DEF IInv, TypeOK, dbVars, memVars, auxVars
<1>9. OpSound(s)'
  <2>1. HolderSound(s)'
    BY <1>1, <1>3, <1>7 DEF OpSound, HolderSound, Appending, Exporting, Deleting, BatchesOf, memVars
  <2>2. AppendSound(s)'
    BY <1>1, <1>3, <1>7 DEF OpSound, AppendSound, Reserved, dbVars
  <2>3. ExportSound(s)' /\ DeleteSound(s)'
    BY <1>5, <1>6, <1>7 DEF ExportSound, DeleteSound, Exporting, Deleting
  <2> QED
    BY <2>1, <2>2, <2>3 DEF OpSound
<1>10. ManifestSound(s)'
  <2>1. Rebuildable(s)'
    BY <1>1, <1>4, <1>5, <1>6 DEF Rebuildable, memVars
  <2> QED
    BY <1>1, <1>4, <1>5, <1>6, <2>1 DEF ManifestSound, BatchesOf, Reserved, dbVars
<1> QED
  BY <1>1, <1>4, <1>5, <1>6, <1>7, <1>8, <1>9, <1>10, FrozenStep DEF Appending, Deleting, memVars

LEMMA SealStep ==
  ASSUME IInv, NEW s \in Session, Seal(s)
  PROVE  IInv'
<1>1. /\ op[s].pc = "seal" /\ Goto(s, "digest")
      /\ chunk' = [chunk EXCEPT ![s] =
           {[batch |-> b, payload |-> file[b], first |-> index[b]] : b \in manifest[s].ids}]
      /\ UNCHANGED <<dbVars, file, manifest, tomb, archive, memVars, auxVars, faults>>
  BY DEF Seal
<1>2. /\ phase = "up" /\ SessionSound(s) /\ OpSound(s) /\ ~tomb[s] /\ manifest[s] # None
      /\ manifest[s].ids \subseteq BatchesOf(s) \cap Reserved
      /\ \A b \in manifest[s].ids : ~Stray(b) /\ (resv[b].status = "deleted" => tomb[s])
  BY <1>1, ExportingFacts DEF Exporting
<1>3. ~manifest[s].sealed /\ ManifestSound(s)
  BY <1>1, <1>2 DEF OpSound, ExportSound, SessionSound
<1>4. \A b \in manifest[s].ids :
        /\ b \in Batch /\ file[b] \in Payload /\ index[b] \in Nat
        /\ resv[b].payload = file[b] /\ resv[b].first = index[b]
  <2> SUFFICES ASSUME NEW b \in manifest[s].ids
               PROVE  /\ b \in Batch /\ file[b] \in Payload /\ index[b] \in Nat
                      /\ resv[b].payload = file[b] /\ resv[b].first = index[b]
    OBVIOUS
  <2>1. file[b] # None /\ index[b] > 0 /\ b \in BatchesOf(s) /\ b \in Batch
    BY <1>2, <1>3 DEF ManifestSound, Rebuildable, BatchesOf
  <2>2. IndexSound(b)
    BY <1>2, <2>1 DEF SessionSound
  <2> QED
    BY <2>1, <2>2 DEF IndexSound, IInv, TypeOK, Absent
<1>5. chunk'[s] = {Copy(b) : b \in manifest[s].ids}
  BY <1>1, <1>4 DEF IInv, TypeOK, Copy
<1>6. chunk' \in [Session -> (SUBSET Segment) \cup {None}]
      /\ \A t \in Session \ {s} : chunk'[t] = chunk[t]
  <2>1. {[batch |-> b, payload |-> file[b], first |-> index[b]] : b \in manifest[s].ids}
          \in SUBSET Segment
    BY <1>4 DEF Segment
  <2> QED
    BY <1>1, <2>1 DEF IInv, TypeOK
<1>7. /\ op' \in [Session -> Op] /\ \A t \in Session \ {s} : op'[t] = op[t]
      /\ op'[s].pc = "digest" /\ op'[s].by = op[s].by
      /\ op'[s].batch = op[s].batch /\ op'[s].payload = op[s].payload
  BY <1>1, GotoType DEF Step
<1>8. TypeOK'
  BY <1>1, <1>6, <1>7 DEF IInv, TypeOK, dbVars, memVars, auxVars
<1>9. {Copy(b)' : b \in manifest'[s].ids} = {Copy(b) : b \in manifest[s].ids}
  BY <1>1 DEF Copy, dbVars
<1>10. OpSound(s)'
  <2>1. HolderSound(s)'
    BY <1>1, <1>2, <1>7 DEF OpSound, HolderSound, Appending, Exporting, Deleting, BatchesOf, memVars
  <2>2. AppendSound(s)'
    BY <1>1, <1>2, <1>7 DEF OpSound, AppendSound, Reserved, dbVars
  <2>3. DeleteSound(s)'
    BY <1>7 DEF DeleteSound, Deleting
  <2>4. ExportSound(s)'
    BY <1>1, <1>2, <1>3, <1>5, <1>7, <1>9 DEF ExportSound, Exporting
  <2> QED
    BY <2>1, <2>2, <2>3, <2>4 DEF OpSound
<1>11. ManifestSound(s)'
  <2>1. Rebuildable(s) => Rebuildable(s)'
    BY <1>1 DEF Rebuildable, dbVars, memVars
  <2> QED
    BY <1>1, <1>2, <1>3, <2>1 DEF ManifestSound, BatchesOf, Reserved, dbVars
<1> QED
  BY <1>1, <1>2, <1>6, <1>7, <1>8, <1>10, <1>11, FrozenStep DEF Appending, Deleting, memVars

LEMMA DigestStep ==
  ASSUME IInv, NEW s \in Session, Digest(s)
  PROVE  IInv'
<1>1. /\ op[s].pc = "digest" /\ Goto(s, "upload")
      /\ manifest' = [manifest EXCEPT ![s].sealed = TRUE]
      /\ UNCHANGED <<dbVars, file, chunk, tomb, archive, memVars, auxVars, faults>>
  BY DEF Digest
<1>2. /\ phase = "up" /\ SessionSound(s) /\ OpSound(s) /\ ~tomb[s] /\ manifest[s] # None
      /\ manifest[s] \in Manifest /\ manifest[s].ids \subseteq BatchesOf(s) \cap Reserved
      /\ \A b \in manifest[s].ids : ~Stray(b) /\ (resv[b].status = "deleted" => tomb[s])
  BY <1>1, ExportingFacts DEF Exporting
<1>3. /\ ~manifest[s].sealed /\ ManifestSound(s)
      /\ chunk[s] = {Copy(b) : b \in manifest[s].ids}
  BY <1>1, <1>2 DEF OpSound, ExportSound, SessionSound
<1>4. /\ manifest' \in [Session -> Manifest \cup {None}]
      /\ manifest'[s] \in Manifest /\ manifest'[s] # None
      /\ manifest'[s].ids = manifest[s].ids /\ manifest'[s].last = manifest[s].last
      /\ manifest'[s].sealed
      /\ \A t \in Session \ {s} : manifest'[t] = manifest[t]
  <2>1. manifest'[s] = [manifest[s] EXCEPT !.sealed = TRUE]
    BY <1>1 DEF IInv, TypeOK
  <2>2. manifest'[s] \in Manifest
    BY <1>2, <2>1 DEF Manifest
  <2>3. manifest'[s].ids = manifest[s].ids /\ manifest'[s].last = manifest[s].last
        /\ manifest'[s].sealed
    BY <1>2, <2>1 DEF Manifest
  <2> QED
    BY <1>1, <2>2, <2>3, NothingAssumption DEF IInv, TypeOK
<1>5. /\ op' \in [Session -> Op] /\ \A t \in Session \ {s} : op'[t] = op[t]
      /\ op'[s].pc = "upload" /\ op'[s].by = op[s].by
      /\ op'[s].batch = op[s].batch /\ op'[s].payload = op[s].payload
  BY <1>1, GotoType DEF Step
<1>6. TypeOK'
  BY <1>1, <1>4, <1>5 DEF IInv, TypeOK, dbVars, memVars, auxVars
<1>7. OpSound(s)'
  <2>1. HolderSound(s)'
    BY <1>1, <1>2, <1>5 DEF OpSound, HolderSound, Appending, Exporting, Deleting, BatchesOf, memVars
  <2>2. AppendSound(s)'
    BY <1>1, <1>2, <1>5 DEF OpSound, AppendSound, Reserved, dbVars
  <2>3. ExportSound(s)' /\ DeleteSound(s)'
    BY <1>4, <1>5 DEF ExportSound, DeleteSound, Deleting
  <2> QED
    BY <2>1, <2>2, <2>3 DEF OpSound
<1>8. ManifestSound(s)'
  <2>1. Rebuildable(s)'
    BY <1>1, <1>2, <1>3, <1>4 DEF ManifestSound, Rebuildable, dbVars, memVars
  <2>2. {Copy(b)' : b \in manifest'[s].ids} = {Copy(b) : b \in manifest[s].ids}
    BY <1>1, <1>4 DEF Copy, dbVars
  <2>3. chunk'[s] = {Copy(b)' : b \in manifest'[s].ids}
    BY <1>1, <1>3, <2>2
  <2> QED
    BY <1>1, <1>2, <1>3, <1>4, <2>1, <2>3 DEF ManifestSound, BatchesOf, Reserved, dbVars
<1> QED
  BY <1>1, <1>2, <1>4, <1>5, <1>6, <1>7, <1>8, FrozenStep DEF Appending, Deleting, memVars

\* The manifest or the sealed copy of a session goes, under its lock.
LEMMA DroppedStep ==
  ASSUME IInv, NEW s \in Session, op[s].pc \in {"retire", "clear"},
         \/ /\ manifest' = [manifest EXCEPT ![s] = None] /\ chunk' = chunk /\ op' = op
         \/ /\ manifest[s] = None /\ manifest' = manifest
            /\ chunk' = [chunk EXCEPT ![s] = None]
            /\ op' = op \/ (op[s].pc = "retire" /\ Goto(s, "select")),
         UNCHANGED <<dbVars, file, tomb, archive, memVars, auxVars, faults>>
  PROVE  IInv'
<1>1. manifest'[s] = None /\ OpSound(s) /\ op[s] \in Op
  BY DEF IInv, TypeOK
<1>2. /\ op' \in [Session -> Op] /\ \A t \in Session \ {s} : op'[t] = op[t]
      /\ op'[s].by = op[s].by /\ op'[s].batch = op[s].batch /\ op'[s].payload = op[s].payload
      /\ op'[s].pc = op[s].pc \/ (op[s].pc = "retire" /\ op'[s].pc = "select")
  <2>1. CASE op' = op
    BY <2>1 DEF IInv, TypeOK
  <2>2. CASE op[s].pc = "retire" /\ Goto(s, "select")
    BY <2>2, GotoType DEF Step
  <2> QED
    BY <2>1, <2>2
<1>3. TypeOK'
  BY <1>2 DEF IInv, TypeOK, dbVars, memVars, auxVars
<1>4. OpSound(s)'
  <2>1. HolderSound(s)'
    BY <1>1, <1>2, <1>3 DEF OpSound, HolderSound, Appending, Exporting, Deleting, BatchesOf, memVars,
                            TypeOK, IInv, Op
  <2>2. AppendSound(s)'
    BY <1>1, <1>2 DEF OpSound, AppendSound, Reserved, dbVars
  <2>3. ExportSound(s)'
    BY <1>1, <1>2 DEF ExportSound, Exporting
  <2>4. DeleteSound(s)'
    BY <1>1, <1>2 DEF OpSound, DeleteSound, Deleting, BatchesOf, Reserved, dbVars, auxVars
  <2> QED
    BY <2>1, <2>2, <2>3, <2>4 DEF OpSound
<1>5. ManifestSound(s)'
  BY <1>1 DEF ManifestSound
<1> QED
  BY <1>1, <1>2, <1>3, <1>4, <1>5, FrozenStep DEF Appending, Deleting, memVars, IInv, TypeOK

LEMMA DropStep ==
  ASSUME IInv, NEW s \in Session,
         RetireManifest(s) \/ RetireChunk(s) \/ ClearManifest(s) \/ ClearChunk(s)
  PROVE  IInv'
<1>1. CASE RetireManifest(s)
  BY <1>1, DroppedStep DEF RetireManifest
<1>2. CASE RetireChunk(s)
  BY <1>2, DroppedStep DEF RetireChunk
<1>3. CASE ClearManifest(s)
  BY <1>3, DroppedStep DEF ClearManifest
<1>4. CASE ClearChunk(s)
  BY <1>4, DroppedStep DEF ClearChunk
<1> QED
  BY <1>1, <1>2, <1>3, <1>4

-----------------------------------------------------------------------------
(* The archive *)

\* What is sealed for upload is a copy of receipts that are not withdrawn.
LEMMA SealedFacts ==
  ASSUME IInv, NEW s \in Session, op[s].pc \in {"upload", "receipt"}
  PROVE  /\ phase = "up" /\ ~tomb[s] /\ manifest[s] # None /\ manifest[s] \in Manifest
         /\ SessionSound(s) /\ OpSound(s) /\ manifest[s].sealed
         /\ manifest[s].ids \subseteq BatchesOf(s) \cap Reserved
         /\ \A b \in manifest[s].ids : resv[b].status # "deleted"
         /\ chunk[s] = {Copy(b) : b \in manifest[s].ids}
         /\ Sealed(s) \in Chunk /\ Sealed(s).segs = chunk[s] /\ Sealed(s).last = manifest[s].last
         /\ Sealed(s).last <= lastSeq[s]
<1>1. /\ phase = "up" /\ ~tomb[s] /\ manifest[s] # None /\ manifest[s] \in Manifest
      /\ SessionSound(s) /\ OpSound(s)
      /\ manifest[s].ids \subseteq BatchesOf(s) \cap Reserved
      /\ \A b \in manifest[s].ids : resv[b].status # "deleted"
  BY ExportingFacts DEF Exporting
<1>2. manifest[s].sealed /\ chunk[s] = {Copy(b) : b \in manifest[s].ids}
      /\ manifest[s].last <= lastSeq[s]
  BY <1>1 DEF OpSound, ExportSound, SessionSound, ManifestSound
<1>3. chunk[s] \in SUBSET Segment
  <2>1. \A b \in manifest[s].ids : Copy(b) \in Segment
    BY <1>1 DEF Copy, Segment, Reserved, IInv, TypeOK, Receipt
  <2> QED
    BY <1>2, <2>1
<1>4. Sealed(s) \in Chunk /\ Sealed(s).segs = chunk[s] /\ Sealed(s).last = manifest[s].last
  BY <1>1, <1>3 DEF Sealed, Chunk, Manifest
<1> QED
  BY <1>1, <1>2, <1>4

\* A batch of a sealed chunk that is in the archive is in the archive.
LEMMA CopiesAreThere ==
  ASSUME NEW s \in Session, Sealed(s) \in archive[s],
         chunk[s] = {Copy(b) : b \in manifest[s].ids},
         NEW b \in manifest[s].ids, SessionOf[b] = s
  PROVE  InArchive(b, resv[b].payload, resv[b].first)
  BY DEF InArchive, Sealed, Copy

\* The archive of a session changes; the receipts and what is staged do not.
LEMMA ArchiveStep ==
  ASSUME IInv, NEW s \in Session, TypeOK', OpSound(s)',
         UNCHANGED <<dbVars, diskVars, phase, index, localError, auxVars>>,
         \A t \in Session \ {s} : archive'[t] = archive[t] /\ op'[t] = op[t],
         op'[s].pc \in Appending \cup Deleting => op[s].pc \in Appending \cup Deleting,
         ArchiveSound(s)',
         \A b \in BatchesOf(s) \cap Reserved :
           /\ b \notin withdrawn => archive[s] \subseteq archive'[s]
           /\ resv[b].status = "deleted" => \A c \in archive'[s] : \A g \in c.segs : g.batch # b
  PROVE  IInv'
<1>1. SessionSound(s)'
  <2>1. SessionSound(s) /\ BatchesOf(s)' = BatchesOf(s) /\ Reserved' = Reserved
    BY DEF IInv, BatchesOf, Reserved, dbVars
  <2>2. ManifestSound(s)'
    <3>1. \A d \in Batch : Copy(d)' = Copy(d)
      BY DEF Copy, dbVars
    <3>2. manifest[s] # None => manifest[s].ids \subseteq Batch
      BY DEF IInv, TypeOK, Manifest
    <3>3. manifest[s] # None => {Copy(d)' : d \in manifest[s].ids} = {Copy(d) : d \in manifest[s].ids}
      BY <3>1, <3>2
    <3>4. Rebuildable(s)' <=> Rebuildable(s)
      BY DEF Rebuildable, dbVars, diskVars
    <3> QED
      BY <2>1, <3>3, <3>4 DEF SessionSound, ManifestSound, dbVars, diskVars
  <2>3. ASSUME NEW d \in BatchesOf(s)
        PROVE  IndexSound(d)' /\ ReceiptSound(d)' /\ AckSound(d)'
    <3>1. IndexSound(d) /\ ReceiptSound(d) /\ AckSound(d) /\ d \in Batch /\ SessionOf[d] = s
      BY <2>1 DEF SessionSound, BatchesOf
    <3>2. IndexSound(d)'
      <4>1. Stray(d)' <=> Stray(d)
        BY DEF Stray, diskVars
      <4> QED
        BY <2>1, <3>1, <4>1 DEF IndexSound, dbVars, diskVars
    <3>3. ReceiptSound(d)'
      BY <2>1, <3>1 DEF ReceiptSound, Kept, InArchive, dbVars, diskVars, auxVars
    <3>4. AckSound(d)'
      BY <2>1, <3>1 DEF AckSound, dbVars, auxVars
    <3> QED
      BY <3>2, <3>3, <3>4
  <2> QED
    BY <2>1, <2>2, <2>3 DEF SessionSound
<1>2. \A t \in Session \ {s} : Untouched(t)
  BY DEF Untouched, dbVars, diskVars, auxVars
<1> QED
  BY <1>1, <1>2, StepOfOne

\* The chunk is stored, and the export goes on or ends.
LEMMA StoredStep ==
  ASSUME IInv, NEW s \in Session, op[s].pc = "upload",
         archive' = [archive EXCEPT ![s] = @ \cup {Sealed(s)}],
         \/ Goto(s, "receipt") /\ round' = round
         \/ Raise(s),
         backendError' \in BOOLEAN, faults' \in [FaultKind -> Nat],
         UNCHANGED <<dbVars, diskVars, phase, index, counter, localError, auxVars>>
  PROVE  IInv'
<1>1. /\ phase = "up" /\ ~tomb[s] /\ manifest[s] # None
      /\ SessionSound(s) /\ OpSound(s) /\ manifest[s].sealed
      /\ manifest[s].ids \subseteq BatchesOf(s) \cap Reserved
      /\ \A b \in manifest[s].ids : resv[b].status # "deleted"
      /\ chunk[s] = {Copy(b) : b \in manifest[s].ids}
      /\ Sealed(s) \in Chunk /\ Sealed(s).segs = chunk[s] /\ Sealed(s).last <= lastSeq[s]
  BY SealedFacts
<1>2. /\ archive' \in [Session -> SUBSET Chunk] /\ archive'[s] = archive[s] \cup {Sealed(s)}
      /\ \A t \in Session \ {s} : archive'[t] = archive[t]
  BY <1>1 DEF IInv, TypeOK
<1>3. /\ op' \in [Session -> Op] /\ round' \in Round /\ \A t \in Session \ {s} : op'[t] = op[t]
      /\ \/ /\ op'[s].pc = "receipt" /\ op'[s].by = op[s].by
            /\ op'[s].batch = op[s].batch /\ op'[s].payload = op[s].payload
         \/ op'[s] = Free /\ OpSound(s)'
  <2>1. CASE Goto(s, "receipt") /\ round' = round
    BY <2>1, GotoType DEF Step, IInv, TypeOK
  <2>2. CASE Raise(s)
    BY <2>2, RaiseIsSound
  <2> QED
    BY <2>1, <2>2
<1>4. TypeOK'
  BY <1>2, <1>3 DEF IInv, TypeOK, dbVars, diskVars, auxVars
<1>5. OpSound(s)'
  <2> SUFFICES ASSUME op'[s].pc = "receipt", op'[s].by = op[s].by,
                      op'[s].batch = op[s].batch, op'[s].payload = op[s].payload
               PROVE  OpSound(s)'
    BY <1>3
  <2>1. HolderSound(s)'
    BY <1>1 DEF OpSound, HolderSound, Appending, Exporting, Deleting, BatchesOf, diskVars
  <2>2. AppendSound(s)'
    BY <1>1 DEF OpSound, AppendSound, Reserved, dbVars
  <2>3. Sealed(s)' \in archive'[s]
    BY <1>2 DEF Sealed, diskVars
  <2>4. ExportSound(s)' /\ DeleteSound(s)'
    BY <1>1, <2>3 DEF ExportSound, DeleteSound, Deleting, diskVars
  <2> QED
    BY <2>1, <2>2, <2>4 DEF OpSound
<1>6. \A g \in Sealed(s).segs : g.batch \in manifest[s].ids /\ g = Copy(g.batch)
  BY <1>1 DEF Copy
<1>7. ArchiveSound(s)'
  <2>1. ArchiveSound(s) /\ BatchesOf(s)' = BatchesOf(s) /\ Reserved' = Reserved /\ lastSeq' = lastSeq
    BY <1>1 DEF SessionSound, BatchesOf, Reserved, dbVars
  <2>2. \A g : Copy(g.batch)' = Copy(g.batch)
    BY DEF Copy, dbVars
  <2> QED
    BY <1>1, <1>2, <1>6, <2>1, <2>2 DEF ArchiveSound
<1>8. \A b \in BatchesOf(s) \cap Reserved :
        resv[b].status = "deleted" => \A c \in archive'[s] : \A g \in c.segs : g.batch # b
  <2> SUFFICES ASSUME NEW b \in BatchesOf(s) \cap Reserved, resv[b].status = "deleted",
                      NEW c \in archive'[s], NEW g \in c.segs
               PROVE  g.batch # b
    OBVIOUS
  <2>1. CASE c \in archive[s]
    BY <1>1, <2>1 DEF SessionSound, ReceiptSound, BatchesOf
  <2>2. CASE c = Sealed(s)
    BY <1>1, <1>6, <2>2
  <2> QED
    BY <1>2, <2>1, <2>2
<1> QED
  BY <1>2, <1>3, <1>4, <1>5, <1>7, <1>8, FreeIsOp, ArchiveStep DEF Appending, Deleting

LEMMA UploadStep ==
  ASSUME IInv, NEW s \in Session, Upload(s) \/ UploadFails(s)
  PROVE  IInv'
<1>1. CASE Upload(s)
  BY <1>1, StoredStep DEF Upload, memVars, IInv, TypeOK
<1>2. CASE UploadFails(s)
  <2>1. /\ op[s].pc = "upload" /\ backendError' = TRUE /\ Raise(s)
        /\ UNCHANGED <<dbVars, diskVars, phase, index, counter, localError, auxVars>>
        /\ archive' = archive \/ archive' = [archive EXCEPT ![s] = @ \cup {Sealed(s)}]
    BY <1>2 DEF UploadFails
  <2>2. faults' \in [FaultKind -> Nat]
    BY <1>2, FaultType DEF UploadFails, FaultKind, IInv, TypeOK
  <2>3. CASE archive' = archive
    BY <2>1, <2>2, <2>3, RaisedStep DEF IInv, TypeOK
  <2>4. CASE archive' = [archive EXCEPT ![s] = @ \cup {Sealed(s)}]
    BY <2>1, <2>2, <2>4, StoredStep
  <2> QED
    BY <2>1, <2>3, <2>4
<1> QED
  BY <1>1, <1>2

\* A deletion removes the chunks of a session, all or some of them.
LEMMA WipeStep ==
  ASSUME IInv, NEW s \in Session, Wipe(s) \/ WipeFails(s)
  PROVE  IInv'
<1>1. /\ op[s].pc = "wipe" /\ SessionSound(s) /\ OpSound(s)
      /\ tomb[s] /\ BatchesOf(s) \cap Reserved \subseteq withdrawn
      /\ UNCHANGED <<dbVars, diskVars, phase, index, counter, localError, auxVars>>
  BY DEF Wipe, WipeFails, IInv, OpSound, DeleteSound, Deleting, memVars
<1>2. /\ archive' \in [Session -> SUBSET Chunk] /\ archive'[s] \subseteq archive[s]
      /\ \A t \in Session \ {s} : archive'[t] = archive[t]
      /\ Wipe(s) => archive'[s] = {}
  BY DEF Wipe, WipeFails, IInv, TypeOK
<1>3. ArchiveSound(s)'
  <2>1. ArchiveSound(s) /\ BatchesOf(s)' = BatchesOf(s) /\ Reserved' = Reserved /\ lastSeq' = lastSeq
    BY <1>1 DEF SessionSound, BatchesOf, Reserved, dbVars
  <2>2. \A g : Copy(g.batch)' = Copy(g.batch)
    BY <1>1 DEF Copy, dbVars
  <2> QED
    BY <1>2, <2>1, <2>2 DEF ArchiveSound
<1>4. \A b \in BatchesOf(s) \cap Reserved :
        /\ b \notin withdrawn => archive[s] \subseteq archive'[s]
        /\ resv[b].status = "deleted" => \A c \in archive'[s] : \A g \in c.segs : g.batch # b
  BY <1>1, <1>2 DEF SessionSound, ReceiptSound, BatchesOf
<1>5. CASE Wipe(s)
  <2>1. Goto(s, "invalidate") /\ UNCHANGED <<memVars, faults>>
    BY <1>5 DEF Wipe
  <2>2. /\ op' \in [Session -> Op] /\ \A t \in Session \ {s} : op'[t] = op[t]
        /\ op'[s].pc = "invalidate" /\ op'[s].by = op[s].by
        /\ op'[s].batch = op[s].batch /\ op'[s].payload = op[s].payload
    BY <2>1, GotoType DEF Step
  <2>3. TypeOK'
    BY <1>1, <1>2, <2>1, <2>2 DEF IInv, TypeOK, dbVars, diskVars, memVars, auxVars
  <2>4. OpSound(s)'
    <3>1. HolderSound(s)'
      BY <1>1, <2>1, <2>2, FreeIsOp DEF OpSound, HolderSound, Appending, Exporting, Deleting, memVars
    <3>2. AppendSound(s)'
      BY <1>1, <2>2 DEF OpSound, HolderSound, AppendSound, Appending, Exporting
    <3>3. ExportSound(s)'
      BY <2>2 DEF ExportSound, Exporting
    <3>4. DeleteSound(s)'
      BY <1>1, <1>2, <1>5, <2>2 DEF DeleteSound, Reserved, BatchesOf, dbVars, diskVars, auxVars
    <3> QED
      BY <3>1, <3>2, <3>3, <3>4 DEF OpSound
  <2> QED
    BY <1>1, <1>2, <1>3, <1>4, <2>2, <2>3, <2>4, ArchiveStep DEF Appending, Deleting
<1>6. CASE WipeFails(s)
  <2>1. Raise(s) /\ Fault("archive") /\ backendError' = TRUE
    BY <1>6 DEF WipeFails
  <2>2. /\ op' \in [Session -> Op] /\ round' \in Round /\ op'[s] = Free
        /\ \A t \in Session \ {s} : op'[t] = op[t]
        /\ OpSound(s)'
    BY <2>1, RaiseIsSound
  <2>3. faults' \in [FaultKind -> Nat]
    BY <2>1, FaultType DEF FaultKind
  <2>4. TypeOK'
    BY <1>1, <1>2, <2>1, <2>2, <2>3 DEF IInv, TypeOK, dbVars, diskVars, auxVars
  <2> QED
    BY <1>1, <1>2, <1>3, <1>4, <2>2, <2>4, FreeIsOp, ArchiveStep DEF Appending, Deleting
<1> QED
  BY <1>5, <1>6

-----------------------------------------------------------------------------
(* The status of receipts *)

\* Receipts of a session change their status, and nothing else changes.
LEMMA StatusStep ==
  ASSUME IInv, NEW s \in Session, TypeOK', OpSound(s)',
         UNCHANGED <<lastSeq, diskVars, archive, phase, index, localError, auxVars>>,
         \A t \in Session \ {s} : op'[t] = op[t],
         op'[s].pc \in Appending \cup Deleting => op[s].pc \in Appending \cup Deleting,
         \A b \in Batch :
           \/ resv'[b] = resv[b]
           \/ /\ SessionOf[b] = s /\ resv[b] # None /\ resv'[b] # None
              /\ resv'[b].payload = resv[b].payload /\ resv'[b].first = resv[b].first
              /\ \/ /\ resv'[b].status = "archived"
                    /\ InArchive(b, resv[b].payload, resv[b].first)
                 \/ /\ resv'[b].status = "deleted"
                    /\ b \in withdrawn /\ archive[s] = {} /\ tomb[s]
  PROVE  IInv'
<1>1. SessionSound(s) /\ BatchesOf(s)' = BatchesOf(s) /\ Reserved' = Reserved
  BY DEF IInv, BatchesOf, Reserved
<1>2. \A b \in Batch : Copy(b)' = Copy(b)
  BY DEF Copy
<1>3. ManifestSound(s)'
  <2>1. ManifestSound(s)
    BY <1>1 DEF SessionSound
  <2> SUFFICES ASSUME manifest[s] # None
               PROVE  ManifestSound(s)'
    BY DEF ManifestSound, diskVars
  <2>2. manifest[s].ids \subseteq BatchesOf(s) \cap Reserved
    BY <2>1 DEF ManifestSound
  <2>3. {Copy(d)' : d \in manifest'[s].ids} = {Copy(d) : d \in manifest[s].ids}
    BY <1>2, <2>2 DEF Reserved, diskVars
  <2>4. ~tomb[s] => Rebuildable(s)'
    <3>1. ~tomb[s] => Rebuildable(s)
      BY <2>1 DEF ManifestSound
    <3>2. ~tomb[s] => \A d \in manifest[s].ids :
                         resv'[d] = resv[d] \/ resv'[d].status = "archived"
      BY <2>2 DEF Reserved
    <3> QED
      BY <3>1, <3>2 DEF Rebuildable, diskVars
  <2> QED
    BY <1>1, <2>1, <2>2, <2>3, <2>4 DEF ManifestSound, diskVars
<1>4. ArchiveSound(s)'
  BY <1>1, <1>2 DEF SessionSound, ArchiveSound, Reserved
<1>5. ASSUME NEW d \in BatchesOf(s)
      PROVE  IndexSound(d)' /\ ReceiptSound(d)' /\ AckSound(d)'
  <2>1. IndexSound(d) /\ ReceiptSound(d) /\ AckSound(d) /\ d \in Batch /\ SessionOf[d] = s
    BY <1>1 DEF SessionSound, BatchesOf
  <2>2. d \in Reserved => resv'[d].payload = resv[d].payload /\ resv'[d].first = resv[d].first
    BY <2>1
  <2>3. IndexSound(d)'
    <3>1. Stray(d)' <=> Stray(d)
      BY DEF Stray, diskVars
    <3> QED
      BY <1>1, <2>1, <2>2, <3>1 DEF IndexSound, diskVars
  <2>4. ReceiptSound(d)'
    <3>1. CASE resv'[d] = resv[d]
      BY <1>1, <2>1, <3>1 DEF ReceiptSound, Kept, InArchive, diskVars, auxVars
    <3>2. CASE /\ resv'[d].status = "archived" /\ d \in Reserved
               /\ InArchive(d, resv[d].payload, resv[d].first)
      BY <1>1, <2>1, <2>2, <3>2 DEF ReceiptSound, Kept, InArchive, diskVars, auxVars
    <3>3. CASE /\ resv'[d].status = "deleted" /\ d \in Reserved
               /\ d \in withdrawn /\ archive[s] = {} /\ tomb[s]
      BY <1>1, <2>1, <2>2, <3>3 DEF ReceiptSound, diskVars, auxVars
    <3> QED
      BY <2>1, <3>1, <3>2, <3>3 DEF Reserved
  <2>5. AckSound(d)'
    BY <1>1, <2>1, <2>2 DEF AckSound, auxVars
  <2> QED
    BY <2>3, <2>4, <2>5
<1>6. SessionSound(s)'
  BY <1>1, <1>3, <1>4, <1>5 DEF SessionSound
<1>7. \A t \in Session \ {s} : Untouched(t)
  BY DEF Untouched, BatchesOf, diskVars, auxVars
<1> QED
  BY <1>6, <1>7, StepOfOne

\* archive_spool_reservations: the export goes on, or its answer is lost.
LEMMA ConfirmedStep ==
  ASSUME IInv, NEW s \in Session, op[s].pc = "receipt",
         resv' = [b \in Batch |-> IF b \in manifest[s].ids
                                  THEN [resv[b] EXCEPT !.status = "archived"] ELSE resv[b]],
         \/ Goto(s, "retire") /\ round' = round
         \/ Raise(s),
         faults' \in [FaultKind -> Nat],
         UNCHANGED <<lastSeq, diskVars, archive, phase, index, counter, backendError, localError,
                     auxVars>>
  PROVE  IInv'
<1>1. /\ phase = "up" /\ ~tomb[s] /\ manifest[s] # None
      /\ SessionSound(s) /\ OpSound(s) /\ manifest[s].sealed
      /\ manifest[s].ids \subseteq BatchesOf(s) \cap Reserved
      /\ chunk[s] = {Copy(b) : b \in manifest[s].ids}
  BY SealedFacts
<1>2. Sealed(s) \in archive[s]
  BY <1>1 DEF OpSound, ExportSound
<1>3. ASSUME NEW b \in manifest[s].ids
      PROVE  /\ resv[b] \in Receipt /\ resv[b] # None /\ SessionOf[b] = s /\ b \in Batch
             /\ resv'[b] = [resv[b] EXCEPT !.status = "archived"]
             /\ resv'[b] \in Receipt /\ resv'[b] # None
             /\ resv'[b].payload = resv[b].payload /\ resv'[b].first = resv[b].first
             /\ resv'[b].status = "archived"
             /\ InArchive(b, resv[b].payload, resv[b].first)
  <2>1. resv[b] \in Receipt /\ resv[b] # None /\ SessionOf[b] = s /\ b \in Batch
    BY <1>1 DEF Reserved, BatchesOf, IInv, TypeOK
  <2>2. resv'[b] = [resv[b] EXCEPT !.status = "archived"]
    BY <2>1
  <2>3. resv'[b] \in Receipt
    BY <2>1, <2>2 DEF Receipt
  <2>4. /\ resv'[b].payload = resv[b].payload /\ resv'[b].first = resv[b].first
        /\ resv'[b].status = "archived"
    BY <2>1, <2>2 DEF Receipt
  <2> QED
    BY <1>1, <1>2, <2>1, <2>2, <2>3, <2>4, CopiesAreThere, NothingAssumption
<1>4. \A b \in Batch \ manifest[s].ids : resv'[b] = resv[b]
  OBVIOUS
<1>5. /\ op' \in [Session -> Op] /\ round' \in Round /\ \A t \in Session \ {s} : op'[t] = op[t]
      /\ \/ /\ op'[s].pc = "retire" /\ op'[s].by = op[s].by
            /\ op'[s].batch = op[s].batch /\ op'[s].payload = op[s].payload
         \/ op'[s] = Free /\ OpSound(s)'
  <2>1. CASE Goto(s, "retire") /\ round' = round
    BY <2>1, GotoType DEF Step, IInv, TypeOK
  <2>2. CASE Raise(s)
    BY <2>2, RaiseIsSound
  <2> QED
    BY <2>1, <2>2
<1>6. resv' \in [Batch -> Receipt \cup {None}]
  <2>1. \A b \in Batch : resv'[b] \in Receipt \cup {None}
    BY <1>3, <1>4 DEF IInv, TypeOK
  <2>2. resv' = [b \in Batch |-> resv'[b]]
    OBVIOUS
  <2> QED
    BY <2>1, <2>2
<1>7. TypeOK'
  BY <1>5, <1>6 DEF IInv, TypeOK, diskVars, auxVars
<1>8. OpSound(s)'
  <2> SUFFICES ASSUME op'[s].pc = "retire", op'[s].by = op[s].by,
                      op'[s].batch = op[s].batch, op'[s].payload = op[s].payload
               PROVE  OpSound(s)'
    BY <1>5
  <2>1. HolderSound(s)'
    BY <1>1 DEF OpSound, HolderSound, Appending, Exporting, Deleting, BatchesOf, diskVars
  <2>2. AppendSound(s)'
    <3> SUFFICES ASSUME op[s].by = "append"
                 PROVE  op[s].batch \in Reserved' /\ resv'[op[s].batch].payload = op[s].payload
      BY DEF AppendSound
    <3>1. op[s].batch \in Reserved /\ resv[op[s].batch].payload = op[s].payload
      <4>1. OpSound(s)
        BY <1>1
      <4>2. AppendSound(s)
        BY <4>1 DEF OpSound
      <4> QED
        BY <4>2 DEF AppendSound
    <3>2. CASE op[s].batch \in manifest[s].ids
      BY <1>3, <3>1, <3>2 DEF Reserved
    <3>3. CASE op[s].batch \notin manifest[s].ids
      BY <1>4, <3>1, <3>3 DEF Reserved
    <3> QED
      BY <3>2, <3>3
  <2>3. Sealed(s)' \in archive'[s]
    BY <1>2 DEF Sealed, diskVars
  <2>4. ExportSound(s)' /\ DeleteSound(s)'
    BY <1>1, <1>3, <2>3 DEF ExportSound, DeleteSound, Exporting, Deleting, diskVars
  <2> QED
    BY <2>1, <2>2, <2>4 DEF OpSound
<1> QED
  BY <1>3, <1>4, <1>5, <1>7, <1>8, FreeIsOp, StatusStep DEF Appending, Deleting

\* invalidate_spool_reservations: the deletion goes on, or its answer is lost.
LEMMA InvalidatedStep ==
  ASSUME IInv, NEW s \in Session, op[s].pc = "invalidate", resv' = Invalidated(s),
         \/ Goto(s, "clear") /\ round' = round
         \/ Raise(s),
         faults' \in [FaultKind -> Nat],
         UNCHANGED <<lastSeq, diskVars, archive, phase, index, counter, backendError, localError,
                     auxVars>>
  PROVE  IInv'
<1>1. /\ OpSound(s) /\ tomb[s] /\ archive[s] = {} /\ BatchesOf(s) \cap Reserved \subseteq withdrawn
  BY DEF IInv, OpSound, DeleteSound, Deleting
<1>2. ASSUME NEW b \in Batch, SessionOf[b] = s, resv[b] # None
      PROVE  /\ resv'[b] \in Receipt /\ resv'[b] # None /\ b \in withdrawn
             /\ resv'[b].payload = resv[b].payload /\ resv'[b].first = resv[b].first
             /\ resv'[b].status = "deleted"
  <2>1. resv[b] \in Receipt
    BY <1>2 DEF IInv, TypeOK
  <2>2. resv'[b] = [resv[b] EXCEPT !.status = "deleted"]
    BY <1>2 DEF Invalidated
  <2>3. resv'[b] \in Receipt
    BY <2>1, <2>2 DEF Receipt
  <2>4. /\ resv'[b].payload = resv[b].payload /\ resv'[b].first = resv[b].first
        /\ resv'[b].status = "deleted"
    BY <2>1, <2>2 DEF Receipt
  <2> QED
    BY <1>1, <1>2, <2>3, <2>4, NothingAssumption DEF BatchesOf, Reserved
<1>3. \A b \in Batch : SessionOf[b] # s \/ resv[b] = None => resv'[b] = resv[b]
  BY DEF Invalidated
<1>4. /\ op' \in [Session -> Op] /\ round' \in Round /\ \A t \in Session \ {s} : op'[t] = op[t]
      /\ \/ /\ op'[s].pc = "clear" /\ op'[s].by = op[s].by
            /\ op'[s].batch = op[s].batch /\ op'[s].payload = op[s].payload
         \/ op'[s] = Free /\ OpSound(s)'
  <2>1. CASE Goto(s, "clear") /\ round' = round
    BY <2>1, GotoType DEF Step, IInv, TypeOK
  <2>2. CASE Raise(s)
    BY <2>2, RaiseIsSound
  <2> QED
    BY <2>1, <2>2
<1>5. resv' \in [Batch -> Receipt \cup {None}]
  <2>1. \A b \in Batch : resv'[b] \in Receipt \cup {None}
    BY <1>2, <1>3 DEF IInv, TypeOK
  <2>2. resv' = [b \in Batch |-> resv'[b]]
    BY DEF Invalidated
  <2> QED
    BY <2>1, <2>2
<1>6. TypeOK'
  BY <1>4, <1>5 DEF IInv, TypeOK, diskVars, auxVars
<1>7. OpSound(s)'
  <2> SUFFICES ASSUME op'[s].pc = "clear", op'[s].by = op[s].by,
                      op'[s].batch = op[s].batch, op'[s].payload = op[s].payload
               PROVE  OpSound(s)'
    BY <1>4
  <2>1. HolderSound(s)'
    BY <1>1, FreeIsOp DEF OpSound, HolderSound, Appending, Exporting, Deleting
  <2>2. AppendSound(s)' /\ ExportSound(s)'
    BY <1>1 DEF OpSound, HolderSound, AppendSound, ExportSound, Appending, Exporting
  <2>3. DeleteSound(s)'
    <3>1. Reserved' = Reserved /\ BatchesOf(s)' = BatchesOf(s)
      BY <1>2, <1>3 DEF Reserved, BatchesOf
    <3> QED
      BY <1>1, <3>1 DEF DeleteSound, diskVars, auxVars
  <2> QED
    BY <2>1, <2>2, <2>3 DEF OpSound
<1> QED
  BY <1>1, <1>2, <1>3, <1>4, <1>6, <1>7, FreeIsOp, StatusStep DEF Appending, Deleting

LEMMA ReceiptStep ==
  ASSUME IInv, NEW s \in Session, Confirm(s) \/ Invalidate(s) \/ ReceiptFails(s)
  PROVE  IInv'
<1>1. CASE Confirm(s)
  BY <1>1, ConfirmedStep DEF Confirm, memVars, IInv, TypeOK
<1>2. CASE Invalidate(s)
  BY <1>2, InvalidatedStep DEF Invalidate, memVars, IInv, TypeOK
<1>3. CASE ReceiptFails(s)
  <2>1. /\ Raise(s) /\ Fault("database")
        /\ UNCHANGED <<lastSeq, diskVars, archive, phase, index, counter, backendError, localError,
                       auxVars>>
    BY <1>3 DEF ReceiptFails
  <2>2. faults' \in [FaultKind -> Nat]
    BY <2>1, FaultType DEF FaultKind
  <2>3. CASE resv' = resv
    BY <2>1, <2>2, <2>3, RaisedStep DEF IInv, TypeOK, dbVars
  <2>4. CASE /\ op[s].pc = "receipt"
             /\ resv' = [b \in Batch |-> IF b \in manifest[s].ids
                                         THEN [resv[b] EXCEPT !.status = "archived"] ELSE resv[b]]
    BY <2>1, <2>2, <2>4, ConfirmedStep
  <2>5. CASE op[s].pc = "invalidate" /\ resv' = Invalidated(s)
    BY <2>1, <2>2, <2>5, InvalidatedStep
  <2> QED
    BY <1>3, <2>3, <2>4, <2>5 DEF ReceiptFails
<1> QED
  BY <1>1, <1>2, <1>3

-----------------------------------------------------------------------------
(* Removing what is staged *)

\* A file goes once its batch is in the archive, or withdrawn.
LEMMA RemovedStep ==
  ASSUME IInv, NEW s \in Session, NEW b \in BatchesOf(s), op[s].pc \in {"retire", "clear"},
         file' = [file EXCEPT ![b] = None], index' = [index EXCEPT ![b] = Absent],
         b \in Reserved => b \in withdrawn \/ InArchive(b, resv[b].payload, resv[b].first),
         manifest[s] # None /\ ~tomb[s] /\ b \in manifest[s].ids =>
           manifest[s].sealed /\ resv[b].status = "archived",
         manifest[s] # None /\ ~tomb[s] => b \in manifest[s].ids,
         UNCHANGED <<dbVars, manifest, chunk, tomb, archive, phase, counter, round, backendError,
                     localError, op, auxVars, faults>>
  PROVE  IInv'
<1>1. /\ SessionSound(s) /\ OpSound(s) /\ BatchesOf(s)' = BatchesOf(s) /\ Reserved' = Reserved
      /\ b \in Batch /\ SessionOf[b] = s
  BY DEF IInv, BatchesOf, Reserved, dbVars
<1>2. /\ file'[b] = None /\ index'[b] = Absent
      /\ \A d \in Batch \ {b} : file'[d] = file[d] /\ index'[d] = index[d]
  BY <1>1 DEF IInv, TypeOK
<1>3. \A d \in Batch : Copy(d)' = Copy(d)
  BY DEF Copy, dbVars
<1>4. TypeOK'
  BY <1>1 DEF IInv, TypeOK, dbVars, auxVars
<1>5. ManifestSound(s)'
  <2>1. ManifestSound(s)
    BY <1>1 DEF SessionSound
  <2> SUFFICES ASSUME manifest[s] # None
               PROVE  ManifestSound(s)'
    BY DEF ManifestSound
  <2>2. manifest[s].ids \subseteq BatchesOf(s) \cap Reserved
    BY <2>1 DEF ManifestSound
  <2>3. {Copy(d)' : d \in manifest'[s].ids} = {Copy(d) : d \in manifest[s].ids}
    BY <1>3, <2>2 DEF Reserved
  <2>4. ~tomb[s] => Rebuildable(s)'
    BY <1>2, <2>1, <2>2 DEF ManifestSound, Rebuildable, Reserved, Absent, dbVars
  <2> QED
    BY <1>1, <2>1, <2>2, <2>3, <2>4 DEF ManifestSound, dbVars
<1>6. ArchiveSound(s)'
  BY <1>1, <1>3 DEF SessionSound, ArchiveSound, Reserved, dbVars
<1>7. ASSUME NEW d \in BatchesOf(s)
      PROVE  IndexSound(d)' /\ ReceiptSound(d)' /\ AckSound(d)'
  <2>1. IndexSound(d) /\ ReceiptSound(d) /\ AckSound(d) /\ d \in Batch /\ SessionOf[d] = s
    BY <1>1 DEF SessionSound, BatchesOf
  <2>2. CASE d = b
    <3>1. IndexSound(b)'
      BY <1>2 DEF IndexSound, Stray, Absent
    <3>2. ReceiptSound(b)'
      BY <1>1, <1>2, <2>1, <2>2 DEF ReceiptSound, Kept, InArchive, dbVars, auxVars
    <3>3. AckSound(b)'
      BY <1>1, <2>1, <2>2 DEF AckSound, dbVars, auxVars
    <3> QED
      BY <2>2, <3>1, <3>2, <3>3
  <2>3. CASE d # b
    <3>1. Stray(d)' <=> Stray(d)
      BY <1>2, <2>1, <2>3 DEF Stray
    <3>2. IndexSound(d)'
      BY <1>1, <1>2, <2>1, <2>3, <3>1 DEF IndexSound, dbVars
    <3>3. ReceiptSound(d)'
      BY <1>1, <1>2, <2>1, <2>3 DEF ReceiptSound, Kept, InArchive, dbVars, auxVars
    <3>4. AckSound(d)'
      BY <1>1, <2>1 DEF AckSound, dbVars, auxVars
    <3> QED
      BY <3>2, <3>3, <3>4
  <2> QED
    BY <2>2, <2>3
<1>8. SessionSound(s)'
  BY <1>1, <1>5, <1>6, <1>7 DEF SessionSound
<1>9. OpSound(s)'
  <2>1. HolderSound(s)'
    BY <1>1 DEF OpSound, HolderSound
  <2>2. AppendSound(s)'
    BY <1>1 DEF OpSound, AppendSound, dbVars
  <2>3. ExportSound(s)'
    <3>1. Sealed(s)' = Sealed(s)
      BY DEF Sealed
    <3> QED
      BY <1>1, <3>1 DEF OpSound, ExportSound, Exporting, dbVars
  <2>4. DeleteSound(s)'
    BY <1>1 DEF OpSound, DeleteSound, auxVars
  <2> QED
    BY <2>1, <2>2, <2>3, <2>4 DEF OpSound
<1>10. \A t \in Session \ {s} : Untouched(t) /\ op'[t] = op[t]
  BY <1>1, <1>2 DEF Untouched, BatchesOf, dbVars, auxVars
<1> QED
  BY <1>4, <1>8, <1>9, <1>10, StepOfOne

LEMMA RetireStep ==
  ASSUME IInv, NEW s \in Session, NEW b \in Batch, Retire(s, b)
  PROVE  IInv'
<1>1. /\ op[s].pc = "retire" /\ manifest[s] # None /\ b \in manifest[s].ids
      /\ file' = [file EXCEPT ![b] = None] /\ index' = [index EXCEPT ![b] = Absent]
      /\ UNCHANGED <<dbVars, manifest, chunk, tomb, archive, phase, counter, round, backendError,
                     localError, op, auxVars, faults>>
  BY DEF Retire
<1>2. /\ SessionSound(s) /\ OpSound(s) /\ manifest[s].ids \subseteq BatchesOf(s) \cap Reserved
  BY <1>1, ExportingFacts DEF Exporting
<1>3. manifest[s].sealed /\ Sealed(s) \in archive[s] /\ resv[b].status = "archived"
      /\ b \in BatchesOf(s) /\ SessionOf[b] = s
  BY <1>1, <1>2 DEF OpSound, ExportSound, BatchesOf
<1>4. chunk[s] = {Copy(d) : d \in manifest[s].ids}
  BY <1>1, <1>2, <1>3 DEF SessionSound, ManifestSound
<1>5. InArchive(b, resv[b].payload, resv[b].first)
  BY <1>1, <1>3, <1>4, CopiesAreThere
<1> QED
  BY <1>1, <1>3, <1>5, RemovedStep

LEMMA ClearStep ==
  ASSUME IInv, NEW s \in Session, NEW b \in Batch, Clear(s, b)
  PROVE  IInv'
<1>1. /\ op[s].pc = "clear" /\ b \in BatchesOf(s)
      /\ file' = [file EXCEPT ![b] = None] /\ index' = [index EXCEPT ![b] = Absent]
      /\ UNCHANGED <<dbVars, manifest, chunk, tomb, archive, phase, counter, round, backendError,
                     localError, op, auxVars, faults>>
  BY DEF Clear, Records
<1>2. tomb[s] /\ (b \in Reserved => b \in withdrawn)
  BY <1>1 DEF IInv, OpSound, DeleteSound, Deleting
<1> QED
  BY <1>1, <1>2, RemovedStep

LEMMA WriteTombStep ==
  ASSUME IInv, NEW s \in Session, WriteTomb(s)
  PROVE  IInv'
<1>1. /\ op[s].pc = "tomb" /\ ~localError /\ Goto(s, "wipe")
      /\ tomb' = [tomb EXCEPT ![s] = TRUE]
      /\ withdrawn' = withdrawn \cup {b \in BatchesOf(s) : resv[b] # None}
      /\ UNCHANGED <<dbVars, file, manifest, chunk, archive, memVars, acked, lost, faults>>
  BY DEF WriteTomb
<1>2. /\ SessionSound(s) /\ OpSound(s) /\ BatchesOf(s)' = BatchesOf(s) /\ Reserved' = Reserved
      /\ tomb'[s] /\ BatchesOf(s) \cap Reserved \subseteq withdrawn'
      /\ \A t \in Session \ {s} : tomb'[t] = tomb[t]
  BY <1>1 DEF IInv, TypeOK, BatchesOf, Reserved, dbVars
<1>3. \A d \in Batch : Copy(d)' = Copy(d)
  BY <1>1 DEF Copy, dbVars
<1>4. /\ op' \in [Session -> Op] /\ \A t \in Session \ {s} : op'[t] = op[t]
      /\ op'[s].pc = "wipe" /\ op'[s].by = op[s].by
      /\ op'[s].batch = op[s].batch /\ op'[s].payload = op[s].payload
  BY <1>1, GotoType DEF Step
<1>5. TypeOK'
  <2>1. withdrawn' \in SUBSET Batch /\ tomb' \in [Session -> BOOLEAN]
    BY <1>1 DEF IInv, TypeOK, BatchesOf
  <2> QED
    BY <1>1, <1>4, <2>1 DEF IInv, TypeOK, dbVars, memVars
<1>6. ManifestSound(s)'
  <2>1. manifest[s] # None => manifest[s].ids \subseteq Batch
    BY DEF IInv, TypeOK, Manifest
  <2>2. manifest[s] # None => {Copy(d)' : d \in manifest[s].ids} = {Copy(d) : d \in manifest[s].ids}
    BY <1>3, <2>1
  <2> QED
    BY <1>1, <1>2, <2>2 DEF SessionSound, ManifestSound, dbVars
<1>7. ArchiveSound(s)'
  BY <1>1, <1>2, <1>3 DEF SessionSound, ArchiveSound, Reserved, dbVars
<1>8. ASSUME NEW d \in BatchesOf(s)
      PROVE  IndexSound(d)' /\ ReceiptSound(d)' /\ AckSound(d)'
  <2>1. IndexSound(d) /\ ReceiptSound(d) /\ AckSound(d) /\ d \in Batch /\ SessionOf[d] = s
    BY <1>2 DEF SessionSound, BatchesOf
  <2>2. IndexSound(d)'
    <3>1. ~Stray(d) /\ (Stray(d)' <=> Stray(d))
      BY <1>1, <2>1 DEF IndexSound, Stray, memVars
    <3> QED
      BY <1>1, <1>2, <2>1, <3>1 DEF IndexSound, dbVars, memVars
  <2>3. ReceiptSound(d)'
    BY <1>1, <1>2, <2>1 DEF ReceiptSound, Kept, InArchive, dbVars, memVars
  <2>4. AckSound(d)'
    BY <1>1, <1>2, <2>1 DEF AckSound, dbVars
  <2> QED
    BY <2>2, <2>3, <2>4
<1>9. SessionSound(s)'
  BY <1>2, <1>6, <1>7, <1>8 DEF SessionSound
<1>10. OpSound(s)'
  <2>1. HolderSound(s)'
    BY <1>1, <1>2, <1>4, FreeIsOp DEF OpSound, HolderSound, Appending, Exporting, Deleting, memVars
  <2>2. AppendSound(s)' /\ ExportSound(s)'
    BY <1>1, <1>2, <1>4 DEF OpSound, HolderSound, AppendSound, ExportSound, Appending, Exporting
  <2>3. DeleteSound(s)'
    BY <1>2, <1>4 DEF DeleteSound
  <2> QED
    BY <2>1, <2>2, <2>3 DEF OpSound
<1>11. \A t \in Session \ {s} : Untouched(t)
  BY <1>1, <1>2 DEF Untouched, BatchesOf, dbVars, memVars
<1> QED
  BY <1>4, <1>5, <1>9, <1>10, <1>11, StepOfOne

\* The intent goes last: nothing of the recording is left.
LEMMA ClearTombStep ==
  ASSUME IInv, NEW s \in Session, ClearTomb(s)
  PROVE  IInv'
<1>1. /\ op[s].pc = "clear" /\ Records(s) = {} /\ manifest[s] = None
      /\ tomb' = [tomb EXCEPT ![s] = FALSE]
      /\ counter' = IF op[s].by = "client" THEN [counter EXCEPT ![s] = Absent] ELSE counter
      /\ op' = [op EXCEPT ![s] = Free]
      /\ UNCHANGED <<dbVars, file, manifest, chunk, archive, phase, index, round, backendError,
                     localError, auxVars, faults>>
  BY DEF ClearTomb, NothingLeft
<1>2. /\ SessionSound(s) /\ OpSound(s) /\ BatchesOf(s)' = BatchesOf(s) /\ Reserved' = Reserved
      /\ \A t \in Session \ {s} : tomb'[t] = tomb[t]
      /\ phase # "down"
  BY <1>1, FreeIsOp DEF IInv, TypeOK, BatchesOf, Reserved, dbVars, OpSound, HolderSound
<1>3. op' \in [Session -> Op] /\ op'[s] = Free /\ \A t \in Session \ {s} : op'[t] = op[t]
  BY <1>1, FreeIsOp DEF IInv, TypeOK
<1>4. TypeOK'
  BY <1>1, <1>3 DEF IInv, TypeOK, dbVars, auxVars
<1>5. ManifestSound(s)'
  BY <1>1 DEF ManifestSound
<1>6. ArchiveSound(s)'
  <2>1. \A d \in Batch : Copy(d)' = Copy(d)
    BY <1>1 DEF Copy, dbVars
  <2> QED
    BY <1>1, <1>2, <2>1 DEF SessionSound, ArchiveSound, Reserved, dbVars
<1>7. ASSUME NEW d \in BatchesOf(s)
      PROVE  IndexSound(d)' /\ ReceiptSound(d)' /\ AckSound(d)'
  <2>1. IndexSound(d) /\ ReceiptSound(d) /\ AckSound(d) /\ d \in Batch /\ SessionOf[d] = s
    BY <1>2 DEF SessionSound, BatchesOf
  <2>2. index[d] = Absent /\ ~Stray(d)
    BY <1>1, <2>1 DEF Records, IndexSound, Deleting
  <2>3. file[d] = None
    BY <1>2, <2>2 DEF Stray
  <2>4. IndexSound(d)'
    BY <1>1, <2>2, <2>3 DEF IndexSound, Stray, Absent
  <2>5. ReceiptSound(d)'
    BY <1>1, <1>2, <2>1, <2>3 DEF ReceiptSound, Kept, InArchive, dbVars, auxVars
  <2>6. AckSound(d)'
    BY <1>1, <1>2, <2>1 DEF AckSound, dbVars, auxVars
  <2> QED
    BY <2>4, <2>5, <2>6
<1>8. SessionSound(s)'
  BY <1>2, <1>5, <1>6, <1>7 DEF SessionSound
<1>9. OpSound(s)'
  BY <1>3, FreeIsOp, FreshLockIsSound
<1>10. \A t \in Session \ {s} : Untouched(t)
  BY <1>1, <1>2 DEF Untouched, BatchesOf, dbVars, auxVars
<1> QED
  BY <1>3, <1>4, <1>8, <1>9, <1>10, StepOfOne

LEMMA DiskFailsStep ==
  ASSUME IInv, NEW s \in Session, DiskFails(s)
  PROVE  IInv'
<1> DEFINE b == op[s].batch
<1>1. /\ Raise(s) /\ Fault("disk")
      /\ UNCHANGED <<dbVars, manifest, chunk, tomb, archive, phase, index, counter, backendError,
                     auxVars>>
  BY DEF DiskFails
<1>2. faults' \in [FaultKind -> Nat]
  BY <1>1, FaultType DEF FaultKind
<1>3. CASE file' = file
  <2>1. localError' = TRUE \/ localError' = localError
    BY <1>3 DEF DiskFails
  <2>2. localError \in BOOLEAN /\ backendError' \in BOOLEAN
    BY <1>1 DEF IInv, TypeOK
  <2>3. CASE localError' = TRUE
    <3>1. localError' \in BOOLEAN /\ localError'
      BY <2>3
    <3> QED
      BY <1>1, <1>2, <1>3, <2>2, <3>1, RaisedStep DEF diskVars
  <2>4. CASE localError' = localError
    BY <1>1, <1>2, <1>3, <2>2, <2>4, RaisedStep DEF diskVars
  <2> QED
    BY <2>1, <2>3, <2>4
<1>4. CASE file' # file
  <2>1. op[s].pc = "prepare" /\ index[b] = Absent /\ localError' = TRUE
        /\ file' = [file EXCEPT ![b] = op[s].payload]
    BY <1>4 DEF DiskFails, Staged
  <2>2. b \in BatchesOf(s) /\ b \in Batch /\ op[s].payload \in Payload
    BY <2>1, PrepareFacts
  <2>3. /\ op' \in [Session -> Op] /\ round' \in Round /\ op'[s] = Free
        /\ \A t \in Session \ {s} : op'[t] = op[t]
        /\ OpSound(s)'
    BY <1>1, RaiseIsSound
  <2>4. TypeOK'
    BY <1>1, <1>2, <2>1, <2>2, <2>3 DEF IInv, TypeOK, dbVars, auxVars
  <2>5. SessionSound(s)'
    BY <1>1, <2>1, <2>3, StagedIsSound
  <2>6. \A t \in Session \ {s} : Untouched(t)
    <3>1. \A d \in Batch \ {b} : file'[d] = file[d] /\ index'[d] = index[d]
      BY <1>1, <2>1, <2>2 DEF IInv, TypeOK
    <3> QED
      BY <1>1, <2>1, <2>2, <3>1, StageElsewhere
  <2> QED
    BY <2>3, <2>4, <2>5, <2>6, StepOfOne
<1> QED
  BY <1>3, <1>4

-----------------------------------------------------------------------------
(* The process ends, starts and recovers *)

LEMMA MemoryType ==
  ASSUME IInv, NEW next \in {"down", "purging"}, Memory(next)
  PROVE  /\ phase' = next /\ counter' \in [Session -> Nat \cup {Absent}]
         /\ op' \in [Session -> Op] /\ \A s \in Session : op'[s] = Free
         /\ round' \in Round /\ backendError' \in BOOLEAN /\ localError' = FALSE
         /\ \A s \in Session : OpSound(s)'
<1>1. /\ phase' = next /\ counter' \in [Session -> Nat \cup {Absent}]
      /\ op' \in [Session -> Op] /\ \A s \in Session : op'[s] = Free
      /\ round' \in Round /\ backendError' \in BOOLEAN /\ localError' = FALSE
  BY FreeIsOp DEF Memory, Round, Off
<1>2. \A s \in Session : OpSound(s)'
  BY <1>1, FreeIsOp, FreshLockIsSound
<1> QED
  BY <1>1, <1>2

\* A process that ends, or begins to recover, or refuses to serve leaves the disk
\* as it is; what it knew is gone.
LEMMA RestartStep ==
  ASSUME IInv,
         \/ Memory("down") /\ index' = [b \in Batch |-> Absent] /\ chunk' = chunk
         \/ /\ Memory("purging")
            /\ index' = [b \in Batch |-> IF file[b] # None THEN 0 ELSE Absent]
            /\ chunk' = [s \in Session |-> IF manifest[s] # None THEN chunk[s] ELSE None],
         UNCHANGED <<dbVars, file, manifest, tomb, archive, auxVars>>,
         faults' \in [FaultKind -> Nat]
  PROVE  IInv'
<1>1. /\ phase' \in {"down", "purging"} /\ counter' \in [Session -> Nat \cup {Absent}]
      /\ op' \in [Session -> Op] /\ \A s \in Session : op'[s] = Free
      /\ round' \in Round /\ backendError' \in BOOLEAN /\ localError' \in BOOLEAN
      /\ \A s \in Session : OpSound(s)'
  BY MemoryType
<1>2. /\ index' \in [Batch -> {0, Absent}]
      /\ \A b \in Batch : index'[b] = 0 => phase' = "purging" /\ file[b] # None
      /\ \A b \in Batch : index'[b] = Absent => phase' = "down" \/ file[b] = None
  BY DEF Memory, Absent
<1>3. \A s \in Session : manifest[s] # None => chunk'[s] = chunk[s]
  OBVIOUS
<1>4. TypeOK'
  <2>1. chunk' \in [Session -> (SUBSET Segment) \cup {None}]
    BY DEF IInv, TypeOK
  <2> QED
    BY <1>1, <1>2, <2>1 DEF IInv, TypeOK, dbVars, auxVars
<1>5. ASSUME NEW s \in Session
      PROVE  SessionSound(s)'
  <2>1. SessionSound(s) /\ BatchesOf(s)' = BatchesOf(s) /\ Reserved' = Reserved
    BY DEF IInv, BatchesOf, Reserved, dbVars
  <2>2. \A d \in Batch : Copy(d)' = Copy(d)
    BY DEF Copy, dbVars
  <2>3. ManifestSound(s)'
    <3>1. manifest[s] # None => manifest[s].ids \subseteq Batch
      BY DEF IInv, TypeOK, Manifest
    <3>2. manifest[s] # None => {Copy(d)' : d \in manifest[s].ids} = {Copy(d) : d \in manifest[s].ids}
      BY <2>2, <3>1
    <3>3. Rebuildable(s) => Rebuildable(s)'
      BY <1>1 DEF Rebuildable, dbVars
    <3> QED
      BY <1>3, <2>1, <3>2, <3>3 DEF SessionSound, ManifestSound, dbVars
  <2>4. ArchiveSound(s)'
    BY <2>1, <2>2 DEF SessionSound, ArchiveSound, Reserved, dbVars
  <2>5. ASSUME NEW d \in BatchesOf(s)
        PROVE  IndexSound(d)' /\ ReceiptSound(d)' /\ AckSound(d)'
    <3>1. IndexSound(d) /\ ReceiptSound(d) /\ AckSound(d) /\ d \in Batch /\ SessionOf[d] = s
      BY <2>1 DEF SessionSound, BatchesOf
    <3>2. IndexSound(d)'
      BY <1>1, <1>2, <3>1 DEF IndexSound, Stray, Absent
    <3>3. ReceiptSound(d)'
      BY <1>1, <2>1, <3>1 DEF ReceiptSound, Kept, InArchive, dbVars, auxVars
    <3>4. AckSound(d)'
      BY <2>1, <3>1 DEF AckSound, dbVars, auxVars
    <3> QED
      BY <3>2, <3>3, <3>4
  <2> QED
    BY <2>1, <2>3, <2>4, <2>5 DEF SessionSound
<1> QED
  BY <1>1, <1>4, <1>5 DEF IInv

LEMMA CrashStep ==
  ASSUME IInv, Crash \/ Start \/ RefuseStart
  PROVE  IInv'
<1>1. CASE Crash
  <2>1. faults' \in [FaultKind -> Nat]
    BY <1>1, FaultType DEF Crash, FaultKind, IInv, TypeOK
  <2> QED
    BY <1>1, <2>1, RestartStep DEF Crash, diskVars
<1>2. CASE Start
  BY <1>2, RestartStep DEF Start, IInv, TypeOK
<1>3. CASE RefuseStart
  BY <1>3, RestartStep DEF RefuseStart, diskVars, IInv, TypeOK
<1> QED
  BY <1>1, <1>2, <1>3

\* The spool directory is lost: only the database and the archive are left.
LEMMA LoseStep ==
  ASSUME IInv, Lose
  PROVE  IInv'
<1>1. /\ phase = "down" /\ Fault("loss") /\ lost' = TRUE
      /\ file' = [b \in Batch |-> None] /\ manifest' = [s \in Session |-> None]
      /\ chunk' = [s \in Session |-> None] /\ tomb' = [s \in Session |-> FALSE]
      /\ UNCHANGED <<dbVars, archive, memVars, op, acked, withdrawn>>
  BY DEF Lose
<1>2. faults' \in [FaultKind -> Nat]
  BY <1>1, FaultType DEF FaultKind
<1>3. TypeOK'
  BY <1>1, <1>2 DEF IInv, TypeOK, dbVars, memVars
<1>4. ASSUME NEW s \in Session
      PROVE  SessionSound(s)' /\ OpSound(s)'
  <2>1. /\ SessionSound(s) /\ OpSound(s) /\ BatchesOf(s)' = BatchesOf(s) /\ Reserved' = Reserved
    BY <1>1 DEF IInv, BatchesOf, Reserved, dbVars
  <2>2. ManifestSound(s)'
    BY <1>1 DEF ManifestSound
  <2>3. ArchiveSound(s)'
    <3>1. \A d \in Batch : Copy(d)' = Copy(d)
      BY <1>1 DEF Copy, dbVars
    <3> QED
      BY <1>1, <2>1, <3>1 DEF SessionSound, ArchiveSound, Reserved, dbVars
  <2>4. ASSUME NEW d \in BatchesOf(s)
        PROVE  IndexSound(d)' /\ ReceiptSound(d)' /\ AckSound(d)'
    <3>1. IndexSound(d) /\ ReceiptSound(d) /\ AckSound(d) /\ d \in Batch /\ SessionOf[d] = s
      BY <2>1 DEF SessionSound, BatchesOf
    <3>2. IndexSound(d)'
      BY <1>1, <3>1 DEF IndexSound, Stray, Absent, memVars
    <3>3. ReceiptSound(d)'
      BY <1>1, <2>1, <3>1 DEF ReceiptSound, InArchive, dbVars, memVars
    <3>4. AckSound(d)'
      BY <1>1, <2>1, <3>1 DEF AckSound, dbVars
    <3> QED
      BY <3>2, <3>3, <3>4
  <2>5. op[s] = Free /\ op'[s] = op[s] /\ phase' = "down"
    BY <1>1, <2>1 DEF OpSound, HolderSound, memVars
  <2>6. OpSound(s)'
    BY <2>5, FreeIsOp, FreshLockIsSound
  <2> QED
    BY <2>1, <2>2, <2>3, <2>4, <2>6 DEF SessionSound
<1> QED
  BY <1>3, <1>4 DEF IInv

\* The recovery goes on to the next phase.  It admits clients only when every
\* receipt has been accounted for, whether or not the spool was lost.
LEMMA PhaseStep ==
  ASSUME IInv, Purged \/ Serve
  PROVE  IInv'
<1>1. /\ phase \in {"purging", "assigning"} /\ phase' \in {"assigning", "up"}
      /\ \A s \in Session : op[s] = Free
      /\ phase' = "up" => /\ \A c \in Batch : index[c] # 0
                          /\ Adrift = {}
      /\ UNCHANGED <<dbVars, diskVars, archive, index, counter, round, backendError, localError, op,
                     auxVars, faults>>
  BY DEF Purged, Serve, IInv, OpSound, HolderSound
<1>2. TypeOK'
  BY <1>1 DEF IInv, TypeOK, dbVars, diskVars, auxVars
<1>3. ASSUME NEW s \in Session
      PROVE  SessionSound(s)' /\ OpSound(s)'
  <2>1. /\ SessionSound(s) /\ OpSound(s) /\ BatchesOf(s)' = BatchesOf(s) /\ Reserved' = Reserved
    BY <1>1 DEF IInv, BatchesOf, Reserved, dbVars
  <2>2. \A d \in Batch : Copy(d)' = Copy(d)
    BY <1>1 DEF Copy, dbVars
  <2>3. \A d \in BatchesOf(s) : /\ ~Stray(d) /\ index[d] \in Nat \cup {Absent}
                                /\ phase' = "up" /\ file[d] # None => index[d] > 0
    BY <1>1, <2>1 DEF SessionSound, BatchesOf, IndexSound, Stray, Absent, IInv, TypeOK
  <2>4. ManifestSound(s)'
    <3>1. ManifestSound(s)
      BY <2>1 DEF SessionSound
    <3> SUFFICES ASSUME manifest[s] # None
                 PROVE  ManifestSound(s)'
      BY <1>1 DEF ManifestSound, diskVars
    <3>2. manifest[s].ids \subseteq BatchesOf(s) \cap Reserved
      BY <3>1 DEF ManifestSound
    <3>3. {Copy(d)' : d \in manifest'[s].ids} = {Copy(d) : d \in manifest[s].ids}
      BY <1>1, <2>2, <3>2 DEF Reserved, diskVars
    <3>4. ~tomb[s] => Rebuildable(s)'
      BY <1>1, <2>3, <3>1, <3>2 DEF ManifestSound, Rebuildable, Reserved, dbVars, diskVars
    <3> QED
      BY <1>1, <2>1, <3>1, <3>2, <3>3, <3>4 DEF ManifestSound, dbVars, diskVars
  <2>5. ArchiveSound(s)'
    BY <1>1, <2>1, <2>2 DEF SessionSound, ArchiveSound, Reserved, dbVars
  <2>6. ASSUME NEW d \in BatchesOf(s)
        PROVE  IndexSound(d)' /\ ReceiptSound(d)' /\ AckSound(d)'
    <3>1. IndexSound(d) /\ ReceiptSound(d) /\ AckSound(d) /\ d \in Batch /\ SessionOf[d] = s
      BY <2>1 DEF SessionSound, BatchesOf
    <3>2. IndexSound(d)'
      BY <1>1, <2>1, <2>3, <3>1 DEF IndexSound, Stray, dbVars, diskVars
    <3>3. ASSUME d \in Reserved, d \notin withdrawn, lost => phase' = "up"
          PROVE  Kept(d)
      <4>1. CASE phase' # "up"
        BY <3>1, <3>3, <4>1 DEF ReceiptSound
      <4>2. CASE phase' = "up" /\ resv[d].status = "pending"
        <5>1. index[d] > 0
          BY <1>1, <2>3, <3>1, <3>3, <4>2 DEF Adrift, Reserved, Absent
        <5> QED
          BY <3>1, <5>1 DEF IndexSound, Kept
      <4>3. CASE phase' = "up" /\ resv[d].status # "pending"
        <5>1. resv[d].status \in {"archived", "deleted"}
          BY <3>1, <3>3, <4>3 DEF Reserved, IInv, TypeOK, Receipt
        <5> QED
          BY <3>1, <3>3, <5>1 DEF ReceiptSound, Kept
      <4> QED
        BY <4>1, <4>2, <4>3
    <3>4. ReceiptSound(d)'
      BY <1>1, <2>1, <3>1, <3>3 DEF ReceiptSound, Kept, InArchive, dbVars, diskVars, auxVars
    <3>5. AckSound(d)'
      BY <1>1, <2>1, <3>1 DEF AckSound, dbVars, auxVars
    <3> QED
      BY <3>2, <3>4, <3>5
  <2>7. OpSound(s)'
    BY <1>1, <1>2, FreeIsOp, FreshLockIsSound DEF TypeOK
  <2> QED
    BY <2>1, <2>4, <2>5, <2>6, <2>7 DEF SessionSound
<1> QED
  BY <1>2, <1>3 DEF IInv

LEMMA VerifyStep ==
  ASSUME IInv, NEW b \in Batch, Verify(b)
  PROVE  IInv'
<1> DEFINE s == SessionOf[b]
<1>1. /\ phase = "assigning" /\ resv[b] # None /\ InArchive(b, resv[b].payload, resv[b].first)
      /\ resv' = [resv EXCEPT ![b].status = "archived"]
      /\ UNCHANGED <<lastSeq, diskVars, archive, memVars, op, auxVars, faults>>
  BY DEF Verify, Adrift, Verified
<1>2. s \in Session /\ op[s] = Free /\ resv[b] \in Receipt
  BY <1>1, SpoolAssumption DEF IInv, OpSound, HolderSound, TypeOK
<1>3. /\ resv'[b] \in Receipt /\ resv'[b] # None
      /\ resv'[b].payload = resv[b].payload /\ resv'[b].first = resv[b].first
      /\ resv'[b].status = "archived"
      /\ \A d \in Batch \ {b} : resv'[d] = resv[d]
  <2>1. resv'[b] = [resv[b] EXCEPT !.status = "archived"]
    BY <1>1 DEF IInv, TypeOK
  <2>2. resv'[b] \in Receipt
    BY <1>2, <2>1 DEF Receipt
  <2>3. /\ resv'[b].payload = resv[b].payload /\ resv'[b].first = resv[b].first
        /\ resv'[b].status = "archived"
    BY <1>2, <2>1 DEF Receipt
  <2> QED
    BY <1>1, <2>2, <2>3, NothingAssumption DEF IInv, TypeOK
<1>4. TypeOK'
  <2>1. resv' \in [Batch -> Receipt \cup {None}]
    BY <1>1, <1>3 DEF IInv, TypeOK
  <2> QED
    BY <1>1, <2>1 DEF IInv, TypeOK, diskVars, memVars, auxVars
<1>5. OpSound(s)'
  BY <1>1, <1>2, <1>4, FreeIsOp, FreshLockIsSound DEF TypeOK, memVars
<1> QED
  BY <1>1, <1>2, <1>3, <1>4, <1>5, StatusStep DEF memVars

-----------------------------------------------------------------------------
(* The theorems *)

LEMMA InitIsSound == Init => IInv
<1> SUFFICES ASSUME Init PROVE IInv
  OBVIOUS
<1>1. TypeOK
  <2>1. faults \in [FaultKind -> Nat] /\ round \in Round /\ op \in [Session -> Op]
    BY SpoolAssumption, FreeIsOp DEF Init, Round, Off
  <2> QED
    BY <2>1 DEF Init, TypeOK, Absent
<1>2. ASSUME NEW s \in Session
      PROVE  SessionSound(s) /\ OpSound(s)
  <2>1. \A b \in Batch : resv[b] = None /\ file[b] = None /\ index[b] = Absent /\ acked[b] = None
    BY DEF Init
  <2>2. manifest[s] = None /\ archive[s] = {} /\ op[s] = Free /\ phase = "up"
    BY DEF Init
  <2>3. SessionSound(s)
    BY <2>1, <2>2 DEF SessionSound, ManifestSound, ArchiveSound, IndexSound, ReceiptSound, AckSound,
                      Stray, Reserved, BatchesOf, Absent
  <2>4. OpSound(s)
    BY <2>2, FreeIsOp DEF OpSound, HolderSound, AppendSound, ExportSound, DeleteSound, Appending,
                          Exporting, Deleting
  <2> QED
    BY <2>3, <2>4
<1> QED
  BY <1>1, <1>2 DEF IInv

LEMMA ClientStep ==
  ASSUME IInv, Client
  PROVE  IInv'
  BY AppendStep, ReplayStep, FlushStep DEF Client

LEMMA RecoverStep ==
  ASSUME IInv, Recover
  PROVE  IInv'
  BY CrashStep, PhaseStep, ResumeDeletionStep, ReassignStep, VerifyStep DEF Recover

LEMMA LockedStep ==
  ASSUME IInv, NEW s \in Session, OpStep(s)
  PROVE  IInv'
<1>1. CASE \E b \in Batch : AssignOld(s, b) \/ Retire(s, b) \/ Clear(s, b)
  BY <1>1, AssignOldStep, RetireStep, ClearStep
<1>2. CASE \E ids \in SUBSET Batch : Select(s, ids)
  BY <1>2, SelectStep
<1>3. CASE OldAssigned(s) \/ Prepare(s) \/ Assign(s) \/ Due(s) \/ Reply(s) \/ Refuse(s)
  BY <1>3, OldAssignedStep, PrepareStep, AssignStep, DueStep, ReplyStep, BlockedStep
<1>4. CASE Resume(s) \/ Exported(s) \/ Blocked(s) \/ Seal(s) \/ Digest(s) \/ Upload(s)
  BY <1>4, ResumeStep, ExportedStep, BlockedStep, SealStep, DigestStep, UploadStep
<1>5. CASE Confirm(s) \/ RetireManifest(s) \/ RetireChunk(s)
  BY <1>5, ReceiptStep, DropStep
<1>6. CASE WriteTomb(s) \/ Wipe(s) \/ Invalidate(s)
  BY <1>6, WriteTombStep, WipeStep, ReceiptStep
<1>7. CASE ClearManifest(s) \/ ClearChunk(s) \/ ClearTomb(s)
  BY <1>7, DropStep, ClearTombStep
<1> QED
  BY <1>1, <1>2, <1>3, <1>4, <1>5, <1>6, <1>7 DEF OpStep

LEMMA FailingStep ==
  ASSUME IInv, NEW s \in Session, Fails(s)
  PROVE  IInv'
  BY AssignFailsStep, ReadFailsStep, ReceiptStep, DiskFailsStep, UploadStep, WipeStep DEF Fails

LEMMA StutterStep ==
  ASSUME IInv, UNCHANGED vars
  PROVE  IInv'
<1>1. /\ UNCHANGED <<dbVars, diskVars, archive, phase, index, counter, localError, op>>
      /\ UNCHANGED auxVars /\ round' = round /\ backendError' = backendError /\ faults' = faults
  BY DEF vars, memVars
<1> QED
  BY <1>1, IdleStep DEF IInv, TypeOK

LEMMA NextIsSound ==
  ASSUME IInv, [Next]_vars
  PROVE  IInv'
<1>1. CASE Client \/ Recover \/ Crash \/ Lose
  BY <1>1, ClientStep, RecoverStep, CrashStep, LoseStep
<1>2. CASE ProbeFails \/ StartRound \/ EndStage
  BY <1>2, FlusherStep
<1>3. CASE \E s \in Session : OpStep(s) \/ Fails(s) \/ Visit(s) \/ Skip(s)
  BY <1>3, LockedStep, FailingStep, VisitStep, FlusherStep
<1>4. CASE UNCHANGED vars
  BY <1>4, StutterStep
<1> QED
  BY <1>1, <1>2, <1>3, <1>4 DEF Next

\* The inductive invariant of the durable path.
THEOREM SpoolInvariant == Spec => []IInv
<1>1. Init => IInv
  BY InitIsSound
<1>2. IInv /\ [Next]_vars => IInv'
  BY NextIsSound
<1> QED
  BY <1>1, <1>2, PTL DEF Spec

-----------------------------------------------------------------------------
(* What follows *)

\* Every variable of the spool, its store and its reservations keeps its type.
THEOREM SpoolTyped == Spec => []TypeOK
<1>1. IInv => TypeOK
  BY DEF IInv
<1> QED
  BY <1>1, SpoolInvariant, PTL

\* Through any number of crashes, failed steps, retries and lost answers, what a
\* client was told of a batch stays true: its receipt keeps payload and place,
\* and its events are in the spool or in the archive there.
THEOREM AckedBatchesKept == Spec => []AckedNeverLost
<1>1. IInv => AckedNeverLost
  <2> SUFFICES ASSUME IInv, NEW b \in Batch,
                      acked[b] # None, b \notin withdrawn, lost => phase = "up"
               PROVE  /\ resv[b] # None
                      /\ resv[b].payload = acked[b].payload /\ resv[b].first = acked[b].first
                      /\ \/ file[b] = acked[b].payload
                         \/ InArchive(b, acked[b].payload, acked[b].first)
    BY DEF AckedNeverLost
  <2>1. SessionOf[b] \in Session /\ b \in BatchesOf(SessionOf[b])
    BY SpoolAssumption DEF BatchesOf
  <2>2. AckSound(b) /\ ReceiptSound(b)
    BY <2>1 DEF IInv, SessionSound
  <2>3. b \in Reserved /\ resv[b].payload = acked[b].payload /\ resv[b].first = acked[b].first
    BY <2>2 DEF AckSound
  <2>4. Kept(b)
    BY <2>2, <2>3 DEF ReceiptSound
  <2> QED
    BY <2>3, <2>4 DEF Reserved, Kept
<1> QED
  BY <1>1, SpoolInvariant, PTL

\* Once the intent to delete a recording is gone, no file, frozen export or chunk
\* holds a batch whose receipt says deleted, whatever restarts or is retried.
THEOREM DeletedNeverReturns == Spec => []DeletedStaysDeleted
<1>1. IInv => DeletedStaysDeleted
  <2> SUFFICES ASSUME IInv, NEW b \in Batch,
                      resv[b] # None, resv[b].status = "deleted", ~tomb[SessionOf[b]]
               PROVE  /\ file[b] = None
                      /\ manifest[SessionOf[b]] # None => b \notin manifest[SessionOf[b]].ids
                      /\ \A c \in archive[SessionOf[b]] : \A g \in c.segs : g.batch # b
    BY DEF DeletedStaysDeleted
  <2>1. SessionOf[b] \in Session /\ b \in BatchesOf(SessionOf[b]) /\ b \in Reserved
    BY SpoolAssumption DEF BatchesOf, Reserved
  <2>2. ReceiptSound(b)
    BY <2>1 DEF IInv, SessionSound
  <2> QED
    BY <2>1, <2>2 DEF ReceiptSound
<1> QED
  BY <1>1, SpoolInvariant, PTL

-----------------------------------------------------------------------------
(* The order of the archive *)

ReceiptsOf(s, R) == {b \in BatchesOf(s) : R[b] # None}

EndOf(b, R) == Last(b, R[b].first)

\* No two receipts of a session share a place, ...
PlacesApart(R) ==
  \A s \in Session : \A b, c \in ReceiptsOf(s, R) :
    b = c \/ EndOf(b, R) < R[c].first \/ EndOf(c, R) < R[b].first

\* ... and a range of places is exactly that of some of them: ...
Spans(s, S, first, last, R) ==
  /\ \E a, z \in S : first = R[a].first /\ last = EndOf(z, R)
  /\ \A b \in ReceiptsOf(s, R) :
       IF b \in S THEN first <= R[b].first /\ EndOf(b, R) <= last
                  ELSE EndOf(b, R) < first \/ last < R[b].first

MembersOf(c) == {g.batch : g \in c.segs}

\* ... of what a frozen export takes, and of what a chunk holds.
ManifestsSpan(M, R) ==
  \A s \in Session : M[s] # None => Spans(s, M[s].ids, M[s].first, M[s].last, R)

ChunksSpan(A, R) ==
  \A s \in Session : \A c \in A[s] : Spans(s, MembersOf(c), c.first, c.last, R)

\* No batch is in two chunks: ...
ChunksApart(A) ==
  \A s \in Session : \A c, d \in A[s] : c = d \/ MembersOf(c) \cap MembersOf(d) = {}

\* ... a chunk is the frozen export's, or nothing of it is left to be exported.
FrozenCopy(s, c) == manifest[s] # None /\ manifest[s].sealed /\ c = Sealed(s)

Gone(s, c) ==
  \A b \in MembersOf(c) : file[b] = None /\ (manifest[s] # None => b \notin manifest[s].ids)

ChunksGone == \A s \in Session : \A c \in archive[s] : FrozenCopy(s, c) \/ Gone(s, c)

\* While the service is up, a receipt without a record was archived or deleted.
Settled ==
  \A b \in Reserved :
    /\ phase = "up" /\ index[b] = Absent => resv[b].status # "pending"
    /\ op[SessionOf[b]].pc = "clear" => resv[b].status = "deleted"

OrderInv ==
  /\ PlacesApart(resv) /\ ManifestsSpan(manifest, resv) /\ ChunksSpan(archive, resv)
  /\ ChunksApart(archive) /\ ChunksGone

\* Receipts keep their places, or a new one comes after all others.
SamePlaces ==
  \A b \in Batch : /\ resv'[b] = None <=> resv[b] = None
                   /\ resv[b] # None => resv'[b].first = resv[b].first

NewPlace(b) ==
  /\ resv[b] = None /\ resv'[b] \in Receipt /\ lastSeq[SessionOf[b]] < resv'[b].first
  /\ \A d \in Batch \ {b} : resv'[d] = resv[d]

PlacesKept == SamePlaces \/ \E b \in Batch : NewPlace(b)

LEMMA PlaceFacts ==
  ASSUME IInv, NEW s \in Session, NEW b \in ReceiptsOf(s, resv)
  PROVE  /\ b \in Batch /\ SessionOf[b] = s /\ b \in Reserved /\ resv[b] \in Receipt
         /\ resv[b].first \in Nat /\ EndOf(b, resv) \in Nat /\ lastSeq[s] \in Nat
         /\ resv[b].first <= EndOf(b, resv) /\ EndOf(b, resv) <= lastSeq[s]
<1>1. b \in Batch /\ SessionOf[b] = s /\ b \in BatchesOf(s) /\ b \in Reserved
  BY DEF ReceiptsOf, BatchesOf, Reserved
<1>2. resv[b] \in Receipt /\ resv[b].first \in Nat /\ lastSeq[s] \in Nat
  BY <1>1 DEF IInv, TypeOK, Reserved, Receipt
<1>3. Last(b, resv[b].first) <= lastSeq[s]
  BY <1>1 DEF IInv, SessionSound, ReceiptSound
<1> QED
  BY <1>1, <1>2, <1>3, LastIsNat DEF EndOf

LEMMA PlacesStayApart ==
  ASSUME IInv, IInv', PlacesKept, PlacesApart(resv)
  PROVE  PlacesApart(resv')
<1> SUFFICES ASSUME NEW s \in Session, NEW b \in ReceiptsOf(s, resv'),
                    NEW c \in ReceiptsOf(s, resv'), b # c
             PROVE  EndOf(b, resv') < resv'[c].first \/ EndOf(c, resv') < resv'[b].first
  BY DEF PlacesApart
<1>1. b \in Batch /\ c \in Batch /\ SessionOf[b] = s /\ SessionOf[c] = s
  BY DEF ReceiptsOf, BatchesOf
<1>2. CASE SamePlaces
  <2>1. b \in ReceiptsOf(s, resv) /\ c \in ReceiptsOf(s, resv)
    BY <1>1, <1>2 DEF SamePlaces, ReceiptsOf
  <2>2. resv'[b].first = resv[b].first /\ resv'[c].first = resv[c].first
    BY <1>1, <1>2, <2>1 DEF SamePlaces, ReceiptsOf
  <2> QED
    BY <2>1, <2>2 DEF PlacesApart, EndOf
<1>3. ASSUME NEW n \in Batch, NewPlace(n)
      PROVE  EndOf(b, resv') < resv'[c].first \/ EndOf(c, resv') < resv'[b].first
  <2>1. \A d \in ReceiptsOf(s, resv') : d # n => d \in ReceiptsOf(s, resv) /\ resv'[d] = resv[d]
    BY <1>3 DEF NewPlace, ReceiptsOf, BatchesOf
  <2>2. \A d \in ReceiptsOf(s, resv') :
          d # n /\ SessionOf[n] = s => EndOf(d, resv') < resv'[n].first
    <3> SUFFICES ASSUME NEW d \in ReceiptsOf(s, resv'), d # n, SessionOf[n] = s
                 PROVE  EndOf(d, resv') < resv'[n].first
      OBVIOUS
    <3>1. d \in ReceiptsOf(s, resv) /\ EndOf(d, resv') = EndOf(d, resv)
      BY <2>1 DEF EndOf
    <3>2. EndOf(d, resv) \in Nat /\ lastSeq[s] \in Nat /\ EndOf(d, resv) <= lastSeq[s]
      BY <3>1, PlaceFacts
    <3>3. lastSeq[s] < resv'[n].first
      BY <1>3 DEF NewPlace
    <3>4. resv'[n].first \in Nat
      BY <1>3 DEF NewPlace, Receipt
    <3> QED
      BY <3>1, <3>2, <3>3, <3>4
  <2>3. CASE b = n
    BY <1>1, <2>2, <2>3
  <2>4. CASE c = n
    BY <1>1, <2>2, <2>4
  <2>5. CASE b # n /\ c # n
    BY <2>1, <2>5 DEF PlacesApart, EndOf
  <2> QED
    BY <2>3, <2>4, <2>5
<1> QED
  BY <1>2, <1>3 DEF PlacesKept

LEMMA SpansKept ==
  ASSUME IInv, PlacesKept, NEW s \in Session, NEW S \in SUBSET ReceiptsOf(s, resv),
         NEW first \in Nat, NEW last \in Nat, last <= lastSeq[s],
         Spans(s, S, first, last, resv)
  PROVE  Spans(s, S, first, last, resv')
<1>1. \A b \in S : b \in Batch /\ b \in ReceiptsOf(s, resv) /\ resv[b] # None
  BY PlaceFacts DEF ReceiptsOf
<1>2. \A b \in ReceiptsOf(s, resv') : b \in Batch /\ SessionOf[b] = s /\ b \in BatchesOf(s)
                                     /\ resv'[b] # None
  BY DEF ReceiptsOf, BatchesOf
<1>3. CASE SamePlaces
  <2>1. \A b \in ReceiptsOf(s, resv') : /\ b \in ReceiptsOf(s, resv)
                                       /\ resv'[b].first = resv[b].first
                                       /\ EndOf(b, resv') = EndOf(b, resv)
    BY <1>2, <1>3 DEF SamePlaces, ReceiptsOf, EndOf
  <2>2. \A b \in S : resv'[b].first = resv[b].first /\ EndOf(b, resv') = EndOf(b, resv)
    BY <1>1, <1>3 DEF SamePlaces, EndOf
  <2> QED
    BY <2>1, <2>2 DEF Spans
<1>4. ASSUME NEW n \in Batch, NewPlace(n) PROVE Spans(s, S, first, last, resv')
  <2>1. \A b \in S : b # n /\ resv'[b] = resv[b]
    BY <1>1, <1>4 DEF NewPlace
  <2>2. \A b \in S : resv'[b].first = resv[b].first /\ EndOf(b, resv') = EndOf(b, resv)
    BY <2>1 DEF EndOf
  <2>3. ASSUME NEW b \in ReceiptsOf(s, resv'), b # n
        PROVE  /\ b \in ReceiptsOf(s, resv) /\ resv'[b].first = resv[b].first
               /\ EndOf(b, resv') = EndOf(b, resv)
    BY <1>2, <1>4, <2>3 DEF NewPlace, ReceiptsOf, EndOf
  <2>4. n \in ReceiptsOf(s, resv') => last < resv'[n].first
    <3>1. n \in ReceiptsOf(s, resv') => lastSeq[s] < resv'[n].first
      BY <1>2, <1>4 DEF NewPlace
    <3>2. lastSeq[s] \in Nat /\ resv'[n].first \in Nat
      BY <1>4 DEF NewPlace, IInv, TypeOK, Receipt
    <3> QED
      BY <3>1, <3>2
  <2>5. n \notin S
    BY <2>1
  <2> QED
    BY <2>2, <2>3, <2>4, <2>5 DEF Spans
<1> QED
  BY <1>3, <1>4 DEF PlacesKept

\* What a frozen export and a chunk span lies behind what is reserved next.
LEMMA ManifestRange ==
  ASSUME IInv, NEW s \in Session, manifest[s] # None
  PROVE  /\ manifest[s] \in Manifest
         /\ manifest[s].ids \in SUBSET ReceiptsOf(s, resv)
         /\ manifest[s].first \in Nat /\ manifest[s].last \in Nat
         /\ manifest[s].last <= lastSeq[s]
<1>1. manifest[s] \in Manifest
  BY DEF IInv, TypeOK
<1>2. ManifestSound(s)
  BY DEF IInv, SessionSound
<1> QED
  BY <1>1, <1>2 DEF ManifestSound, Manifest, ReceiptsOf, Reserved

LEMMA ChunkRange ==
  ASSUME IInv, NEW s \in Session, NEW c \in archive[s]
  PROVE  /\ MembersOf(c) \in SUBSET ReceiptsOf(s, resv)
         /\ c.first \in Nat /\ c.last \in Nat /\ c.last <= lastSeq[s]
<1>1. c \in Chunk
  BY DEF IInv, TypeOK
<1>2. ArchiveSound(s)
  BY DEF IInv, SessionSound
<1> QED
  BY <1>1, <1>2 DEF ArchiveSound, Chunk, ReceiptsOf, Reserved, MembersOf

\* Exports that are frozen keep their members and their range, or are forgotten.
ManifestsKept ==
  \A s \in Session : manifest'[s] # None =>
    /\ manifest[s] # None /\ manifest'[s].ids = manifest[s].ids
    /\ manifest'[s].first = manifest[s].first /\ manifest'[s].last = manifest[s].last

LEMMA RangesKept ==
  ASSUME IInv, IInv', OrderInv, PlacesKept, ManifestsKept,
         \A s \in Session : archive'[s] \subseteq archive[s]
  PROVE  /\ PlacesApart(resv') /\ ManifestsSpan(manifest', resv')
         /\ ChunksSpan(archive', resv') /\ ChunksApart(archive')
<1>1. PlacesApart(resv')
  BY PlacesStayApart DEF OrderInv
<1>2. ASSUME NEW s \in Session, manifest'[s] # None
      PROVE  Spans(s, manifest'[s].ids, manifest'[s].first, manifest'[s].last, resv')
  <2>1. /\ manifest[s] # None /\ manifest'[s].ids = manifest[s].ids
        /\ manifest'[s].first = manifest[s].first /\ manifest'[s].last = manifest[s].last
    BY <1>2 DEF ManifestsKept
  <2>2. Spans(s, manifest[s].ids, manifest[s].first, manifest[s].last, resv)
    BY <2>1 DEF OrderInv, ManifestsSpan
  <2>3. Spans(s, manifest[s].ids, manifest[s].first, manifest[s].last, resv')
    BY <2>1, <2>2, ManifestRange, SpansKept
  <2> QED
    BY <2>1, <2>3
<1>3. ASSUME NEW s \in Session, NEW c \in archive'[s]
      PROVE  Spans(s, MembersOf(c), c.first, c.last, resv')
  <2>1. c \in archive[s]
    OBVIOUS
  <2>2. Spans(s, MembersOf(c), c.first, c.last, resv)
    BY <2>1 DEF OrderInv, ChunksSpan
  <2> QED
    BY <2>1, <2>2, ChunkRange, SpansKept
<1>4. ChunksApart(archive')
  BY DEF OrderInv, ChunksApart
<1> QED
  BY <1>1, <1>2, <1>3, <1>4 DEF ManifestsSpan, ChunksSpan

\* What is gone from the spool does not come back, but for batches no chunk has,
\* and an export is forgotten once all of it is gone.
Spent(s) ==
  /\ \A b \in BatchesOf(s) :
       file[b] = None => file'[b] = None \/ \A c \in archive[s] : b \notin MembersOf(c)
  /\ \/ archive'[s] = {}
     \/ manifest'[s] = manifest[s] /\ chunk'[s] = chunk[s]
     \/ manifest'[s] = None /\ (manifest[s] # None => \A b \in manifest[s].ids : file'[b] = None)
     \/ /\ manifest[s] # None /\ manifest'[s] # None
        /\ ~manifest[s].sealed /\ manifest'[s].ids = manifest[s].ids

\* A sealed export has the members of its manifest.
LEMMA SealedMembers ==
  ASSUME IInv, NEW s \in Session, manifest[s] # None, manifest[s].sealed
  PROVE  MembersOf(Sealed(s)) = manifest[s].ids
<1>1. chunk[s] = {Copy(b) : b \in manifest[s].ids}
  BY DEF IInv, SessionSound, ManifestSound
<1>2. Sealed(s).segs = chunk[s] /\ \A b \in Batch : Copy(b).batch = b
  BY DEF Sealed, Copy
<1>3. manifest[s].ids \subseteq Batch
  BY DEF IInv, TypeOK, Manifest
<1> QED
  BY <1>1, <1>2, <1>3 DEF MembersOf

LEMMA ChunksStayGone ==
  ASSUME IInv, ChunksGone, NEW s \in Session, archive'[s] \subseteq archive[s], Spent(s),
         NEW c \in archive'[s]
  PROVE  FrozenCopy(s, c)' \/ Gone(s, c)'
<1>1. c \in archive[s] /\ (FrozenCopy(s, c) \/ Gone(s, c))
  BY DEF ChunksGone
<1>2. MembersOf(c) \subseteq BatchesOf(s)
  BY <1>1, ChunkRange DEF ReceiptsOf
<1>3. \A b \in MembersOf(c) : file[b] = None => file'[b] = None
  BY <1>1, <1>2 DEF Spent
<1>4. CASE manifest'[s] = manifest[s] /\ chunk'[s] = chunk[s]
  BY <1>1, <1>3, <1>4 DEF FrozenCopy, Sealed, Gone
<1>5. CASE manifest'[s] = None /\ (manifest[s] # None => \A b \in manifest[s].ids : file'[b] = None)
  <2>1. FrozenCopy(s, c) => \A b \in MembersOf(c) : file'[b] = None
    BY <1>5, SealedMembers DEF FrozenCopy
  <2> QED
    BY <1>1, <1>3, <1>5, <2>1 DEF Gone
<1>6. CASE /\ manifest[s] # None /\ manifest'[s] # None
           /\ ~manifest[s].sealed /\ manifest'[s].ids = manifest[s].ids
  BY <1>1, <1>3, <1>6 DEF FrozenCopy, Gone
<1> QED
  BY <1>4, <1>5, <1>6 DEF Spent

LEMMA OrderKept ==
  ASSUME IInv, IInv', OrderInv, PlacesKept, ManifestsKept,
         \A s \in Session : archive'[s] \subseteq archive[s] /\ Spent(s)
  PROVE  OrderInv'
<1>1. /\ PlacesApart(resv') /\ ManifestsSpan(manifest', resv')
      /\ ChunksSpan(archive', resv') /\ ChunksApart(archive')
  BY RangesKept
<1>2. ChunksGone'
  BY ChunksStayGone DEF OrderInv, ChunksGone
<1> QED
  BY <1>1, <1>2 DEF OrderInv

\* Most steps move none of this.
LEMMA NothingMoved ==
  ASSUME IInv, IInv', OrderInv, UNCHANGED <<resv, file, manifest, chunk, archive>>
  PROVE  OrderInv'
<1>1. PlacesKept /\ ManifestsKept
  BY DEF PlacesKept, SamePlaces, ManifestsKept
<1>2. \A s \in Session : archive'[s] \subseteq archive[s] /\ Spent(s)
  BY DEF Spent
<1> QED
  BY <1>1, <1>2, OrderKept

\* A reservation, a receipt's status, or both stay as they are.
LEMMA ReceiptsMoved ==
  ASSUME IInv, IInv', OrderInv, PlacesKept, UNCHANGED <<file, manifest, chunk, archive>>
  PROVE  OrderInv'
<1>1. ManifestsKept
  BY DEF ManifestsKept
<1>2. \A s \in Session : archive'[s] \subseteq archive[s] /\ Spent(s)
  BY DEF Spent
<1> QED
  BY <1>1, <1>2, OrderKept

\* One session's spool or archive moves.
LEMMA SpoolMoved ==
  ASSUME IInv, IInv', OrderInv, resv' = resv, NEW s \in Session,
         \A t \in Session \ {s} : /\ manifest'[t] = manifest[t] /\ chunk'[t] = chunk[t]
                                  /\ archive'[t] = archive[t]
                                  /\ \A b \in BatchesOf(t) : file'[b] = file[b],
         archive'[s] \subseteq archive[s], Spent(s),
         manifest'[s] # None =>
           /\ manifest[s] # None /\ manifest'[s].ids = manifest[s].ids
           /\ manifest'[s].first = manifest[s].first /\ manifest'[s].last = manifest[s].last
  PROVE  OrderInv'
<1>1. PlacesKept
  BY DEF PlacesKept, SamePlaces
<1>2. ManifestsKept
  BY DEF ManifestsKept
<1>3. \A t \in Session : archive'[t] \subseteq archive[t] /\ Spent(t)
  BY DEF Spent
<1> QED
  BY <1>1, <1>2, <1>3, OrderKept

-----------------------------------------------------------------------------
(* The steps, and the order of the archive *)

OrderSound == OrderInv /\ Settled

NoNewClear == \A t \in Session : op'[t].pc = "clear" => op[t].pc = "clear"

LEMMA StillSettled ==
  ASSUME Settled,
         phase' = "up" =>
           phase = "up" /\ \A b \in Batch :
             resv'[b] # None /\ index'[b] = Absent /\ resv'[b].status = "pending" =>
               resv[b] # None /\ index[b] = Absent /\ resv[b].status = "pending",
         \A b \in Batch : resv'[b] # None /\ op'[SessionOf[b]].pc = "clear" =>
           \/ resv'[b].status = "deleted"
           \/ /\ resv[b] # None /\ op[SessionOf[b]].pc = "clear"
              /\ resv[b].status = "deleted" => resv'[b].status = "deleted"
  PROVE  Settled'
BY DEF Settled, Reserved

LEMMA SettledKept ==
  ASSUME Settled, UNCHANGED <<resv, index, phase>>, NoNewClear
  PROVE  Settled'
<1>1. \A b \in Batch : SessionOf[b] \in Session
  BY SpoolAssumption
<1> QED
  BY <1>1, StillSettled DEF NoNewClear

LEMMA QuietOrder ==
  ASSUME IInv, IInv', OrderSound, NoNewClear,
         UNCHANGED <<resv, file, manifest, chunk, archive, index, phase>>
  PROVE  OrderSound'
BY NothingMoved, SettledKept DEF OrderSound

LEMMA GotoMoves ==
  ASSUME IInv, NEW s \in Session, NEW step \in Step, Goto(s, step), step # "clear"
  PROVE  NoNewClear
BY GotoType DEF NoNewClear

LEMMA RaiseMoves ==
  ASSUME IInv, NEW s \in Session, Raise(s)
  PROVE  NoNewClear
BY RaiseIsSound, FreeIsOp DEF NoNewClear

LEMMA TakeMoves ==
  ASSUME IInv, NEW s \in Session, NEW o, op' = [op EXCEPT ![s] = o], o.pc # "clear"
  PROVE  NoNewClear
<1>1. op \in [Session -> Op]
  BY DEF IInv, TypeOK
<1> QED
  BY <1>1 DEF NoNewClear

LEMMA ClientOrder ==
  ASSUME IInv, IInv', OrderSound, Client
  PROVE  OrderSound'
<1>1. ASSUME NEW b \in Batch, NEW v \in Payload, Append(b, v) PROVE OrderSound'
  <2> DEFINE o == [pc |-> "old", by |-> "append", batch |-> b, payload |-> v]
  <2>1. /\ UNCHANGED <<resv, file, manifest, chunk, archive, index, phase>>
        /\ op' = [op EXCEPT ![SessionOf[b]] = o] /\ o.pc # "clear" /\ SessionOf[b] \in Session
    BY <1>1, SpoolAssumption DEF Append, dbVars, diskVars, memVars
  <2> HIDE DEF o
  <2> QED
    BY <2>1, TakeMoves, QuietOrder
<1>2. ASSUME NEW b \in Batch, NEW v \in Payload, Replay(b, v) PROVE OrderSound'
  <2>1. UNCHANGED <<resv, file, manifest, chunk, archive, index, phase, op>>
    BY <1>2 DEF Replay, dbVars, diskVars, memVars
  <2> QED
    BY <2>1, QuietOrder DEF NoNewClear
<1>3. ASSUME NEW s \in Session, Flush(s) \/ Delete(s) PROVE OrderSound'
  <2>1. PICK pc \in {"select", "tomb"} :
          op' = [op EXCEPT ![s] = [Free EXCEPT !.pc = pc, !.by = "client"]]
    BY <1>3 DEF Flush, Delete
  <2>2. [Free EXCEPT !.pc = pc, !.by = "client"].pc # "clear"
    BY DEF Free
  <2>3. UNCHANGED <<resv, file, manifest, chunk, archive, index, phase>>
    BY <1>3 DEF Flush, Delete, dbVars, diskVars, memVars
  <2> QED
    BY <2>1, <2>2, <2>3, TakeMoves, QuietOrder
<1> QED
  BY <1>1, <1>2, <1>3 DEF Client

LEMMA FlusherOrder ==
  ASSUME IInv, IInv', OrderSound,
         ProbeFails \/ StartRound \/ EndStage \/ (\E s \in Session : Visit(s) \/ Skip(s))
  PROVE  OrderSound'
<1>1. CASE ProbeFails \/ StartRound \/ EndStage \/ (\E s \in Session : Skip(s))
  <2>1. UNCHANGED <<resv, file, manifest, chunk, archive, index, phase, op>>
    BY <1>1 DEF ProbeFails, StartRound, EndStage, Skip, dbVars, diskVars
  <2> QED
    BY <2>1, QuietOrder DEF NoNewClear
<1>2. ASSUME NEW s \in Session, Visit(s) PROVE OrderSound'
  <2> DEFINE o == [Free EXCEPT !.by = "flusher",
                               !.pc = IF round.stage = "purge" THEN "tomb" ELSE "select"]
  <2>1. /\ UNCHANGED <<resv, file, manifest, chunk, archive, index, phase>>
        /\ op' = [op EXCEPT ![s] = o] /\ o.pc # "clear"
    BY <1>2 DEF Visit, dbVars, diskVars, Free
  <2> HIDE DEF o
  <2> QED
    BY <2>1, TakeMoves, QuietOrder
<1> QED
  BY <1>1, <1>2

\* What only moves the lock, or writes or forgets an intent.
LEMMA LockOrder ==
  ASSUME IInv, IInv', OrderSound, NEW s \in Session,
         \/ OldAssigned(s) \/ Due(s) \/ Reply(s) \/ Refuse(s) \/ Resume(s) \/ Exported(s)
         \/ Blocked(s) \/ WriteTomb(s) \/ ClearTomb(s) \/ ReadFails(s) \/ ResumeDeletion(s)
  PROVE  OrderSound'
<1>1. CASE OldAssigned(s) \/ Due(s) \/ Resume(s) \/ WriteTomb(s)
  <2>1. /\ UNCHANGED <<resv, file, manifest, chunk, archive, index, phase>>
        /\ \E step \in {"prepare", "select", "reply", "upload", "seal", "wipe"} : Goto(s, step)
    BY <1>1 DEF OldAssigned, Due, Resume, RetryStep, WriteTomb, dbVars, diskVars, memVars
  <2> QED
    BY <2>1, GotoMoves, QuietOrder DEF Step
<1>2. CASE Refuse(s) \/ Blocked(s) \/ ReadFails(s)
  <2>1. /\ UNCHANGED <<resv, file, manifest, chunk, archive, index, phase>>
        /\ Raise(s)
    BY <1>2 DEF Refuse, Blocked, ReadFails, dbVars, diskVars
  <2> QED
    BY <2>1, RaiseMoves, QuietOrder
<1>3. CASE Reply(s) \/ ClearTomb(s)
  <2>1. /\ UNCHANGED <<resv, file, manifest, chunk, archive, index, phase>>
        /\ op' = [op EXCEPT ![s] = Free]
    BY <1>3 DEF Reply, ClearTomb, dbVars, diskVars, memVars
  <2> QED
    BY <2>1, FreeIsOp, TakeMoves, QuietOrder
<1>4. CASE Exported(s)
  <2> DEFINE o == IF op[s].by = "append" THEN [op[s] EXCEPT !.pc = "reply"] ELSE Free
  <2>1. /\ UNCHANGED <<resv, file, manifest, chunk, archive, index, phase>>
        /\ op' = [op EXCEPT ![s] = o] /\ op[s] \in Op
    BY <1>4 DEF Exported, dbVars, diskVars, memVars, IInv, TypeOK
  <2>2. o.pc # "clear"
    BY <2>1, FreeIsOp DEF Op
  <2> HIDE DEF o
  <2> QED
    BY <2>1, <2>2, TakeMoves, QuietOrder
<1>5. CASE ResumeDeletion(s)
  <2>1. /\ UNCHANGED <<resv, file, manifest, chunk, archive, index, phase>>
        /\ op' = [op EXCEPT ![s] = [Free EXCEPT !.pc = "tomb", !.by = "startup"]]
    BY <1>5 DEF ResumeDeletion, dbVars, diskVars, memVars
  <2>2. [Free EXCEPT !.pc = "tomb", !.by = "startup"].pc # "clear"
    BY DEF Free
  <2> QED
    BY <2>1, <2>2, TakeMoves, QuietOrder
<1> QED
  BY <1>1, <1>2, <1>3, <1>4, <1>5

\* A receipt that is made or found: it lies behind all others, and its batch is staged.
LEMMA ReservedOrder ==
  ASSUME IInv, IInv', OrderSound, NEW b \in Batch, index[b] = 0, file[b] # None,
         Reserve(b, file[b]),
         index' = index \/ index' = [index EXCEPT ![b] = resv'[b].first],
         op[SessionOf[b]].pc # "clear", NoNewClear,
         UNCHANGED <<file, manifest, chunk, archive, phase>>
  PROVE  OrderSound'
<1>1. /\ \A d \in Batch \ {b} : resv'[d] = resv[d]
      /\ resv[b] # None => resv'[b] = resv[b]
      /\ resv[b] = None => lastSeq[SessionOf[b]] < resv'[b].first
      /\ resv'[b] # None /\ resv'[b] \in Receipt
  BY ReserveFacts DEF Reserved
<1>2. PlacesKept
  BY <1>1 DEF PlacesKept, SamePlaces, NewPlace
<1>3. OrderInv'
  BY <1>2, ReceiptsMoved DEF OrderSound
<1>4. index \in [Batch -> Nat \cup {Absent}]
  BY DEF IInv, TypeOK
<1>5. index'[b] # Absent /\ \A d \in Batch : d # b => index'[d] = index[d]
  BY <1>1, <1>4 DEF Absent, Receipt
<1>6. \A d \in Batch : SessionOf[d] \in Session
  BY SpoolAssumption
<1>7. Settled'
  BY <1>1, <1>5, <1>6, StillSettled DEF OrderSound, NoNewClear
<1> QED
  BY <1>3, <1>7 DEF OrderSound

LEMMA StagedFile ==
  ASSUME IInv, NEW b \in Batch, index[b] # Absent
  PROVE  file[b] # None
<1>1. SessionOf[b] \in Session /\ b \in BatchesOf(SessionOf[b])
  BY SpoolAssumption DEF BatchesOf
<1> QED
  BY <1>1 DEF IInv, SessionSound, IndexSound

LEMMA AssignOrder ==
  ASSUME IInv, IInv', OrderSound,
         \/ \E s \in Session : Assign(s) \/ (\E b \in Batch : AssignOld(s, b) \/ AssignFails(s, b))
         \/ \E b \in Batch : Reassign(b)
  PROVE  OrderSound'
<1>1. ASSUME NEW s \in Session, Assign(s) PROVE OrderSound'
  <2> DEFINE b == op[s].batch
  <2>1. /\ UNCHANGED <<file, manifest, chunk, archive, phase>> /\ Goto(s, "check")
        /\ op[s].pc = "assign"
    BY <1>1 DEF Assign, diskVars
  <2>2. NoNewClear
    BY <2>1, GotoMoves DEF Step
  <2>3. b \in Batch /\ SessionOf[b] = s
    BY <2>1 DEF IInv, OpSound, HolderSound, Appending, BatchesOf
  <2>4. CASE index[b] = 0
    <3>1. file[b] # None
      BY <2>3, <2>4, StagedFile DEF Absent
    <3>2. Reserve(b, file[b]) /\ index' = [index EXCEPT ![b] = resv'[b].first]
      BY <1>1, <2>3, <2>4, <3>1, AssignBatchFacts DEF Assign
    <3> HIDE DEF b
    <3> QED
      BY <2>1, <2>2, <2>3, <2>4, <3>1, <3>2, ReservedOrder
  <2>5. CASE index[b] # 0
    BY <1>1, <2>1, <2>2, <2>5, QuietOrder DEF Assign, dbVars
  <2> QED
    BY <2>4, <2>5
<1>2. ASSUME NEW s \in Session, NEW b \in Batch, AssignOld(s, b) PROVE OrderSound'
  <2>1. /\ UNCHANGED <<file, manifest, chunk, archive, phase, op>> /\ op[s].pc = "old"
        /\ index[b] = 0 /\ SessionOf[b] = s /\ AssignBatch(b)
    BY <1>2 DEF AssignOld, diskVars, Unassigned, Records, BatchesOf
  <2>2. file[b] # None
    BY <2>1, StagedFile DEF Absent
  <2>3. Reserve(b, file[b]) /\ index' = [index EXCEPT ![b] = resv'[b].first]
    BY <2>1, <2>2, AssignBatchFacts
  <2> QED
    BY <2>1, <2>2, <2>3, ReservedOrder DEF NoNewClear
<1>3. ASSUME NEW s \in Session, NEW b \in Batch, AssignFails(s, b) PROVE OrderSound'
  <2>1. /\ UNCHANGED <<file, manifest, chunk, archive, phase, index>> /\ Raise(s)
        /\ op[s].pc \in {"old", "assign"} /\ index[b] = 0
        /\ b \in Unassigned(s) \/ (op[s].pc = "assign" /\ b = op[s].batch)
        /\ Reserve(b, file[b]) \/ UNCHANGED resv
    BY <1>3 DEF AssignFails, diskVars, dbVars, Unassigned
  <2>2. SessionOf[b] = s
    BY <2>1 DEF Unassigned, Records, BatchesOf, IInv, OpSound, HolderSound, Appending
  <2>3. file[b] # None
    BY <2>1, StagedFile DEF Absent
  <2>4. NoNewClear
    BY <2>1, RaiseMoves
  <2>5. CASE UNCHANGED resv
    BY <2>1, <2>4, <2>5, QuietOrder
  <2>6. CASE Reserve(b, file[b])
    <3>1. op[SessionOf[b]].pc # "clear"
      BY <2>1, <2>2
    <3> QED
      BY <2>1, <2>3, <2>4, <2>6, <3>1, ReservedOrder
  <2> QED
    BY <2>1, <2>5, <2>6
<1>4. ASSUME NEW b \in Batch, Reassign(b) PROVE OrderSound'
  <2>1. /\ UNCHANGED <<file, manifest, chunk, archive, phase, op>> /\ phase = "assigning"
        /\ index[b] = 0 /\ AssignBatch(b) /\ SessionOf[b] \in Session
    BY <1>4, SpoolAssumption DEF Reassign, diskVars
  <2>2. op[SessionOf[b]].pc # "clear"
    BY <2>1, FreeIsOp DEF IInv, OpSound, HolderSound
  <2>3. file[b] # None
    BY <2>1, StagedFile DEF Absent
  <2>4. Reserve(b, file[b]) /\ index' = [index EXCEPT ![b] = resv'[b].first]
    BY <2>1, <2>3, AssignBatchFacts
  <2> QED
    BY <2>1, <2>2, <2>3, <2>4, ReservedOrder DEF NoNewClear
<1> QED
  BY <1>1, <1>2, <1>3, <1>4

\* A receipt's status moves on: to archived, or to deleted.
Confirmed(s) ==
  [b \in Batch |-> IF b \in manifest[s].ids
                   THEN [resv[b] EXCEPT !.status = "archived"] ELSE resv[b]]

LEMMA StatusOrder ==
  ASSUME IInv, IInv', OrderSound, NEW s \in Session,
         UNCHANGED <<file, manifest, chunk, archive, index, phase>>,
         \A b \in Batch :
           \/ resv'[b] = resv[b]
           \/ /\ resv[b] # None /\ resv'[b] # None /\ SessionOf[b] = s
              /\ resv'[b].first = resv[b].first
              /\ resv'[b].status \in {"archived", "deleted"},
         op[s].pc # "clear",
         \A t \in Session \ {s} : op'[t].pc = "clear" => op[t].pc = "clear",
         op'[s].pc = "clear" =>
           \A b \in BatchesOf(s) : resv'[b] # None => resv'[b].status = "deleted"
  PROVE  OrderSound'
<1>1. PlacesKept
  BY DEF PlacesKept, SamePlaces
<1>2. OrderInv'
  BY <1>1, ReceiptsMoved DEF OrderSound
<1>3. \A b \in Batch : SessionOf[b] \in Session /\ (SessionOf[b] = s => b \in BatchesOf(s))
  BY SpoolAssumption DEF BatchesOf
<1>4. \A b \in Batch : /\ resv'[b] # None => resv[b] # None
                       /\ resv'[b].status = "pending" => resv'[b] = resv[b]
                       /\ SessionOf[b] # s => resv'[b] = resv[b]
  OBVIOUS
<1>5. ASSUME NEW b \in Batch, resv'[b] # None, op'[SessionOf[b]].pc = "clear"
      PROVE  \/ resv'[b].status = "deleted"
             \/ /\ resv[b] # None /\ op[SessionOf[b]].pc = "clear"
                /\ resv[b].status = "deleted" => resv'[b].status = "deleted"
  <2>1. CASE SessionOf[b] = s
    BY <1>3, <1>5, <2>1
  <2>2. CASE SessionOf[b] # s
    BY <1>3, <1>4, <1>5, <2>2
  <2> QED
    BY <2>1, <2>2
<1>6. Settled'
  BY <1>4, <1>5, StillSettled DEF OrderSound
<1> QED
  BY <1>2, <1>6 DEF OrderSound

LEMMA ReceiptOrder ==
  ASSUME IInv, IInv', OrderSound, NEW s \in Session,
         Confirm(s) \/ Invalidate(s) \/ ReceiptFails(s)
  PROVE  OrderSound'
<1>1. resv \in [Batch -> Receipt \cup {None}] /\ op \in [Session -> Op]
  BY DEF IInv, TypeOK
<1>2. UNCHANGED <<file, manifest, chunk, archive, index, phase>>
  BY DEF Confirm, Invalidate, ReceiptFails, diskVars, memVars
<1>3. ASSUME op[s].pc = "receipt", resv' = Confirmed(s)
      PROVE  \A b \in Batch :
               \/ resv'[b] = resv[b]
               \/ /\ resv[b] # None /\ resv'[b] # None /\ SessionOf[b] = s
                  /\ resv'[b].first = resv[b].first
                  /\ resv'[b].status \in {"archived", "deleted"}
  <2>1. manifest[s] # None /\ manifest[s].ids \subseteq BatchesOf(s) \cap Reserved
    BY <1>3 DEF IInv, OpSound, ExportSound, Exporting, SessionSound, ManifestSound
  <2> SUFFICES ASSUME NEW b \in Batch, b \in manifest[s].ids
               PROVE  /\ resv[b] # None /\ resv'[b] # None /\ SessionOf[b] = s
                      /\ resv'[b].first = resv[b].first
                      /\ resv'[b].status \in {"archived", "deleted"}
    BY <1>3 DEF Confirmed
  <2>2. resv[b] # None /\ SessionOf[b] = s /\ resv[b] \in Receipt
    BY <1>1, <2>1 DEF Reserved, BatchesOf
  <2>3. resv'[b] = [resv[b] EXCEPT !.status = "archived"]
    BY <1>3 DEF Confirmed
  <2>4. resv'[b] \in Receipt /\ resv'[b].first = resv[b].first /\ resv'[b].status = "archived"
    BY <2>2, <2>3 DEF Receipt
  <2> QED
    BY <2>2, <2>4, NothingAssumption
<1>4. ASSUME resv' = Invalidated(s)
      PROVE  /\ \A b \in Batch :
                  \/ resv'[b] = resv[b]
                  \/ /\ resv[b] # None /\ resv'[b] # None /\ SessionOf[b] = s
                     /\ resv'[b].first = resv[b].first
                     /\ resv'[b].status \in {"archived", "deleted"}
             /\ \A b \in BatchesOf(s) : resv'[b] # None => resv'[b].status = "deleted"
  <2>1. ASSUME NEW b \in Batch, SessionOf[b] = s, resv[b] # None
        PROVE  /\ resv'[b] # None /\ resv'[b].first = resv[b].first
               /\ resv'[b].status = "deleted"
    <3>1. resv[b] \in Receipt /\ resv'[b] = [resv[b] EXCEPT !.status = "deleted"]
      BY <1>1, <1>4, <2>1 DEF Invalidated
    <3>2. resv'[b] \in Receipt /\ resv'[b].first = resv[b].first /\ resv'[b].status = "deleted"
      BY <3>1 DEF Receipt
    <3> QED
      BY <3>2, NothingAssumption
  <2>2. \A b \in Batch : SessionOf[b] # s \/ resv[b] = None => resv'[b] = resv[b]
    BY <1>4 DEF Invalidated
  <2> QED
    BY <2>1, <2>2 DEF BatchesOf
<1>5. CASE Confirm(s)
  <2>1. op[s].pc = "receipt" /\ Goto(s, "retire") /\ resv' = Confirmed(s)
    BY <1>5 DEF Confirm, Confirmed
  <2>2. op'[s].pc = "retire" /\ \A t \in Session \ {s} : op'[t] = op[t]
    BY <2>1, GotoType DEF Step
  <2> QED
    BY <1>2, <1>3, <2>1, <2>2, StatusOrder
<1>6. CASE Invalidate(s)
  <2>1. op[s].pc = "invalidate" /\ Goto(s, "clear") /\ resv' = Invalidated(s)
    BY <1>6 DEF Invalidate
  <2>2. op'[s].pc = "clear" /\ \A t \in Session \ {s} : op'[t] = op[t]
    BY <2>1, GotoType DEF Step
  <2> QED
    BY <1>2, <1>4, <2>1, <2>2, StatusOrder
<1>7. CASE ReceiptFails(s)
  <2>1. /\ op[s].pc \in {"receipt", "invalidate"} /\ Raise(s)
        /\ \/ resv' = resv
           \/ op[s].pc = "receipt" /\ resv' = Confirmed(s)
           \/ resv' = Invalidated(s)
    BY <1>7 DEF ReceiptFails, Confirmed
  <2>2. op'[s].pc = "idle" /\ \A t \in Session \ {s} : op'[t] = op[t]
    BY <2>1, RaiseIsSound, FreeIsOp
  <2> QED
    BY <1>2, <1>3, <1>4, <2>1, <2>2, StatusOrder
<1> QED
  BY <1>5, <1>6, <1>7

LEMMA VerifyOrder ==
  ASSUME IInv, IInv', OrderSound, NEW b \in Batch, Verify(b)
  PROVE  OrderSound'
<1> DEFINE s == SessionOf[b]
<1>1. /\ UNCHANGED <<file, manifest, chunk, archive, index, phase, op>> /\ phase = "assigning"
      /\ resv' = [resv EXCEPT ![b].status = "archived"] /\ resv[b] # None
  BY DEF Verify, diskVars, memVars, Adrift
<1>2. s \in Session /\ resv \in [Batch -> Receipt \cup {None}]
  BY SpoolAssumption DEF IInv, TypeOK
<1>3. op[s].pc # "clear"
  BY <1>1, <1>2, FreeIsOp DEF IInv, OpSound, HolderSound
<1>4. resv[b] \in Receipt /\ resv'[b] = [resv[b] EXCEPT !.status = "archived"]
  BY <1>1, <1>2
<1>5. resv'[b] \in Receipt /\ resv'[b].first = resv[b].first /\ resv'[b].status = "archived"
  BY <1>4 DEF Receipt
<1>6. \A d \in Batch : d # b => resv'[d] = resv[d]
  BY <1>1, <1>2
<1>7. resv'[b] # None
  BY <1>5, NothingAssumption
<1> QED
  BY <1>1, <1>2, <1>3, <1>5, <1>6, <1>7, StatusOrder

\* A batch that an append is about to stage is in no chunk: its receipt would say so.
LEMMA UnstagedIsNew ==
  ASSUME IInv, Settled, NEW s \in Session, op[s].pc = "prepare", index[op[s].batch] = Absent
  PROVE  /\ op[s].batch \in Batch /\ SessionOf[op[s].batch] = s
         /\ \A c \in archive[s] : op[s].batch \notin MembersOf(c)
<1> DEFINE b == op[s].batch
<1>1. HolderSound(s) /\ AppendSound(s)
  BY DEF IInv, OpSound
<1>2. phase = "up" /\ b \in BatchesOf(s)
  BY <1>1 DEF HolderSound, Appending
<1>3. b \in Batch /\ SessionOf[b] = s
  BY <1>2 DEF BatchesOf
<1>4. b \notin Reserved
  BY <1>1, <1>2 DEF AppendSound, Settled
<1>5. \A c \in archive[s] : b \notin MembersOf(c)
  BY <1>3, <1>4, ChunkRange DEF ReceiptsOf, Reserved
<1> QED
  BY <1>3, <1>5

LEMMA StageOrder ==
  ASSUME IInv, IInv', OrderSound, NEW s \in Session, Prepare(s) \/ DiskFails(s)
  PROVE  OrderSound'
<1> DEFINE b == op[s].batch
<1>1. /\ UNCHANGED <<resv, manifest, chunk, archive, phase>>
      /\ index' = index \/ index' = [index EXCEPT ![b] = 0]
      /\ \/ file' = file
         \/ /\ op[s].pc = "prepare" /\ index[b] = Absent
            /\ file' = [file EXCEPT ![b] = op[s].payload]
  BY DEF Prepare, DiskFails, dbVars, Staged
<1>2. NoNewClear
  BY GotoMoves, RaiseMoves DEF Prepare, DiskFails, Step
<1>3. /\ index \in [Batch -> Nat \cup {Absent}] /\ file \in [Batch -> Payload \cup {None}]
      /\ \A d \in Batch : SessionOf[d] \in Session
  BY SpoolAssumption DEF IInv, TypeOK
<1>4. \A d \in Batch : index'[d] = Absent => index[d] = Absent
  BY <1>1, <1>3 DEF Absent
<1>5. Settled'
  BY <1>1, <1>2, <1>3, <1>4, StillSettled DEF OrderSound, NoNewClear
<1>6. OrderInv'
  <2>1. CASE file' = file
    BY <1>1, <2>1, NothingMoved DEF OrderSound
  <2>2. CASE /\ op[s].pc = "prepare" /\ index[b] = Absent
             /\ file' = [file EXCEPT ![b] = op[s].payload]
    <3>1. b \in Batch /\ SessionOf[b] = s /\ \A c \in archive[s] : b \notin MembersOf(c)
      BY <2>2, UnstagedIsNew DEF OrderSound
    <3>2. \A d \in Batch : d # b => file'[d] = file[d]
      BY <1>3, <2>2
    <3>3. Spent(s)
      BY <1>1, <3>1, <3>2 DEF Spent, BatchesOf
    <3>4. \A t \in Session \ {s} : \A d \in BatchesOf(t) : file'[d] = file[d]
      BY <3>1, <3>2 DEF BatchesOf
    <3> QED
      BY <1>1, <3>3, <3>4, SpoolMoved DEF OrderSound
  <2> QED
    BY <1>1, <2>1, <2>2
<1> QED
  BY <1>5, <1>6 DEF OrderSound

\* A group of contiguous batches leaves no place for another between its first and last.
LEMMA GroupSpans ==
  ASSUME IInv, PlacesApart(resv), NEW s \in Session, NEW ids \in SUBSET Batch,
         Unassigned(s) = {}, Group(s, ids), NEW a \in ids, NEW z \in ids,
         \A b \in ids : index[a] <= index[b] /\ index[b] <= index[z]
  PROVE  Spans(s, ids, index[a], Last(z, index[z]), resv)
<1>1. ASSUME NEW b \in ids
      PROVE  /\ b \in ReceiptsOf(s, resv) /\ index[b] \in Nat /\ resv[b].first = index[b]
             /\ Last(b, index[b]) \in Nat /\ index[b] <= Last(b, index[b])
             /\ EndOf(b, resv) = Last(b, index[b])
  <2>1. b \in BatchesOf(s) /\ index[b] # Absent /\ index[b] # 0
    BY <1>1 DEF Group, Records, Unassigned
  <2>2. index[b] \in Nat /\ index[b] > 0
    BY <2>1 DEF IInv, TypeOK, Absent
  <2>3. IndexSound(b)
    BY <2>1 DEF IInv, SessionSound
  <2>4. resv[b].first = index[b] /\ b \in Reserved
    BY <2>2, <2>3 DEF IndexSound
  <2> QED
    BY <2>1, <2>2, <2>4, LastIsNat DEF ReceiptsOf, Reserved, EndOf
<1>2. ASSUME NEW b \in ids PROVE index[a] <= resv[b].first /\ EndOf(b, resv) <= Last(z, index[z])
  <2>1. CASE b = z
    BY <1>1, <2>1
  <2>2. CASE b # z
    <3>1. EndOf(b, resv) < resv[z].first \/ EndOf(z, resv) < resv[b].first
      BY <1>1, <2>2 DEF PlacesApart
    <3> QED
      BY <1>1, <3>1
  <2> QED
    BY <2>1, <2>2
<1>3. ASSUME NEW e \in ReceiptsOf(s, resv), e \notin ids,
             ~(EndOf(e, resv) < index[a]), ~(Last(z, index[z]) < resv[e].first)
      PROVE  FALSE
  <2>1. resv[e].first \in Nat /\ EndOf(e, resv) \in Nat /\ resv[e].first <= EndOf(e, resv)
    BY PlaceFacts
  <2>2. \A b \in ids : EndOf(b, resv) < resv[e].first \/ EndOf(e, resv) < resv[b].first
    BY <1>1, <1>3 DEF PlacesApart
  <2>3. index[a] < resv[e].first
    BY <1>1, <1>3, <2>1, <2>2
  <2>4. resv[e].first < index[z]
    BY <1>1, <1>3, <2>1, <2>2
  <2> DEFINE T == {index[b] : b \in {c \in ids : resv[e].first < index[c]}}
  <2>5. T \in SUBSET Nat /\ T # {}
    BY <1>1, <2>4
  <2>6. PICK n \in T : \A m \in T : n <= m
    BY <2>5, LeastNatural
  <2>7. PICK b \in ids : n = index[b] /\ resv[e].first < index[b]
    BY <2>6
  <2>8. PICK c \in ids : index[b] = Last(c, index[c]) + 1
    <3>1. ~\A c \in ids : index[b] <= index[c]
      BY <1>1, <2>1, <2>3, <2>7
    <3> QED
      BY <3>1 DEF Group, Contiguous
  <2>9. ~(resv[e].first < index[c])
    <3>1. index[c] < n
      <4>1. index[c] \in Nat /\ Last(c, index[c]) \in Nat /\ index[c] <= Last(c, index[c])
        BY <1>1
      <4> QED
        BY <2>7, <2>8, <4>1
    <3>2. index[c] \notin T
      <4>1. n \in Nat /\ index[c] \in Nat /\ \A m \in T : n <= m
        BY <1>1, <2>5, <2>6
      <4>2. ~(n <= index[c])
        BY <3>1, <4>1
      <4> HIDE DEF T
      <4> QED
        BY <4>1, <4>2
    <3> QED
      BY <3>2
  <2>10. EndOf(c, resv) < resv[e].first \/ EndOf(e, resv) < resv[c].first
    BY <2>2
  <2> HIDE DEF T
  <2> QED
    BY <1>1, <2>1, <2>7, <2>8, <2>9, <2>10
<1>4. index[a] = resv[a].first /\ Last(z, index[z]) = EndOf(z, resv)
  BY <1>1
<1> QED
  BY <1>2, <1>3, <1>4 DEF Spans

LEMMA SelectOrder ==
  ASSUME IInv, IInv', OrderSound, NEW s \in Session, NEW ids \in SUBSET Batch, Select(s, ids)
  PROVE  OrderSound'
<1>1. /\ UNCHANGED <<resv, file, chunk, archive, index, phase>> /\ manifest[s] = None
      /\ Unassigned(s) = {} /\ Group(s, ids) /\ Goto(s, "seal")
  BY DEF Select, Frozen, dbVars, memVars
<1>2. PICK a \in ids, z \in ids :
        /\ \A b \in ids : index[a] <= index[b] /\ index[b] <= index[z]
        /\ manifest' = [manifest EXCEPT ![s] =
             [ids |-> ids, first |-> index[a], last |-> Last(z, index[z]), sealed |-> FALSE]]
  BY DEF Select
<1>3. manifest \in [Session -> Manifest \cup {None}]
  BY DEF IInv, TypeOK
<1>4. /\ manifest'[s] = [ids |-> ids, first |-> index[a], last |-> Last(z, index[z]),
                         sealed |-> FALSE]
      /\ \A t \in Session : t # s => manifest'[t] = manifest[t]
  BY <1>2, <1>3
<1>5. PlacesApart(resv') /\ ChunksSpan(archive', resv') /\ ChunksApart(archive')
  BY <1>1 DEF OrderSound, OrderInv
<1>6. ManifestsSpan(manifest', resv')
  <2>1. Spans(s, ids, index[a], Last(z, index[z]), resv)
    BY <1>1, <1>2, GroupSpans DEF OrderSound, OrderInv
  <2> QED
    BY <1>1, <1>4, <2>1 DEF OrderSound, OrderInv, ManifestsSpan
<1>7. ASSUME NEW t \in Session, NEW c \in archive[t]
      PROVE  FrozenCopy(t, c)' \/ Gone(t, c)'
  <2>1. FrozenCopy(t, c) \/ Gone(t, c)
    BY DEF OrderSound, OrderInv, ChunksGone
  <2>2. CASE t # s
    BY <1>1, <1>4, <2>1, <2>2 DEF FrozenCopy, Sealed, Gone
  <2>3. CASE t = s
    <3>1. \A b \in MembersOf(c) : file[b] = None
      BY <1>1, <2>1, <2>3 DEF FrozenCopy, Gone
    <3>2. \A b \in ids : file[b] # None
      BY <1>1, StagedFile DEF Group, Records
    <3> QED
      BY <1>1, <1>4, <2>3, <3>1, <3>2 DEF Gone
  <2> QED
    BY <2>2, <2>3
<1>8. ChunksGone'
  BY <1>1, <1>7 DEF ChunksGone
<1>9. Settled'
  BY <1>1, GotoMoves, SettledKept DEF OrderSound, Step
<1> QED
  BY <1>5, <1>6, <1>8, <1>9 DEF OrderSound, OrderInv

\* Building a frozen export again changes a manifest that is not sealed yet.
LEMMA SealOrder ==
  ASSUME IInv, IInv', OrderSound, NEW s \in Session, Seal(s) \/ Digest(s)
  PROVE  OrderSound'
<1>1. /\ manifest[s] # None /\ ~manifest[s].sealed /\ manifest[s] \in Manifest
      /\ op[s].pc \in {"seal", "digest"}
  BY ExportingFacts DEF Seal, Digest, OpSound, ExportSound, Exporting
<1>2. /\ manifest \in [Session -> Manifest \cup {None}]
      /\ chunk \in [Session -> (SUBSET Segment) \cup {None}]
  BY DEF IInv, TypeOK
<1>3. /\ UNCHANGED <<resv, file, archive, index, phase>>
      /\ \E step \in {"digest", "upload"} : Goto(s, step)
  BY DEF Seal, Digest, dbVars, memVars
<1>4. /\ manifest'[s].ids = manifest[s].ids /\ manifest'[s].first = manifest[s].first
      /\ manifest'[s].last = manifest[s].last /\ manifest'[s] # None
      /\ \A t \in Session \ {s} : manifest'[t] = manifest[t]
  <2>1. CASE Seal(s)
    BY <1>1, <2>1 DEF Seal
  <2>2. CASE Digest(s)
    <3>1. /\ manifest'[s] = [manifest[s] EXCEPT !.sealed = TRUE]
          /\ \A t \in Session \ {s} : manifest'[t] = manifest[t]
      BY <1>2, <2>2 DEF Digest
    <3>2. /\ manifest'[s] \in Manifest /\ manifest'[s].ids = manifest[s].ids
          /\ manifest'[s].first = manifest[s].first /\ manifest'[s].last = manifest[s].last
      BY <1>1, <3>1 DEF Manifest
    <3> QED
      BY <3>1, <3>2, NothingAssumption
  <2> QED
    BY <2>1, <2>2
<1>5. \A t \in Session \ {s} : chunk'[t] = chunk[t]
  BY <1>2 DEF Seal, Digest
<1>6. Spent(s)
  BY <1>1, <1>3, <1>4 DEF Spent
<1>7. NoNewClear
  BY <1>3, GotoMoves DEF Step
<1> QED
  BY <1>1, <1>3, <1>4, <1>5, <1>6, <1>7, SpoolMoved, SettledKept DEF OrderSound

\* A manifest goes when none of its batches is left, or nothing is in the archive.
LEMMA DropOrder ==
  ASSUME IInv, IInv', OrderSound, NEW s \in Session,
         RetireManifest(s) \/ RetireChunk(s) \/ ClearManifest(s) \/ ClearChunk(s)
  PROVE  OrderSound'
<1>1. /\ manifest \in [Session -> Manifest \cup {None}]
      /\ chunk \in [Session -> (SUBSET Segment) \cup {None}]
  BY DEF IInv, TypeOK
<1>2. UNCHANGED <<resv, file, archive, index, phase>>
  BY DEF RetireManifest, RetireChunk, ClearManifest, ClearChunk, dbVars, memVars
<1>3. /\ manifest'[s] = None
      /\ \A t \in Session \ {s} : manifest'[t] = manifest[t] /\ chunk'[t] = chunk[t]
  BY <1>1 DEF RetireManifest, RetireChunk, ClearManifest, ClearChunk
<1>4. Spent(s)
  <2>1. CASE RetireManifest(s)
    <3>1. \A b \in manifest[s].ids : index[b] = Absent /\ ~Stray(b) /\ phase = "up"
      BY <2>1, ExportingFacts DEF RetireManifest, Exporting
    <3>2. \A b \in manifest[s].ids : file[b] = None
      BY <3>1 DEF Stray
    <3> QED
      BY <1>2, <1>3, <3>2 DEF Spent
  <2>2. CASE RetireChunk(s)
    BY <1>2, <1>3, <2>2 DEF Spent, RetireChunk
  <2>3. CASE ClearManifest(s) \/ ClearChunk(s)
    <3>1. archive[s] = {}
      BY <2>3 DEF ClearManifest, ClearChunk, IInv, OpSound, DeleteSound
    <3> QED
      BY <1>2, <3>1 DEF Spent
  <2> QED
    BY <2>1, <2>2, <2>3
<1>5. NoNewClear
  <2>1. op' = op \/ Goto(s, "select")
    BY DEF RetireManifest, RetireChunk, ClearManifest, ClearChunk
  <2> QED
    BY <2>1, GotoMoves DEF Step, NoNewClear
<1> QED
  BY <1>2, <1>3, <1>4, <1>5, SpoolMoved, SettledKept DEF OrderSound

\* A file goes once its receipt says archived, or deleted.
LEMMA RemoveOrder ==
  ASSUME IInv, IInv', OrderSound, NEW s \in Session, NEW b \in Batch, Retire(s, b) \/ Clear(s, b)
  PROVE  OrderSound'
<1>1. file \in [Batch -> Payload \cup {None}] /\ index \in [Batch -> Nat \cup {Absent}]
  BY DEF IInv, TypeOK
<1>2. /\ UNCHANGED <<resv, manifest, chunk, archive, phase, op>>
      /\ file' = [file EXCEPT ![b] = None] /\ index' = [index EXCEPT ![b] = Absent]
  BY DEF Retire, Clear, dbVars
<1>3. SessionOf[b] = s /\ (b \in Reserved => resv[b].status # "pending")
  <2>1. CASE Retire(s, b)
    <3>1. op[s].pc = "retire" /\ manifest[s] # None /\ b \in manifest[s].ids
      BY <2>1 DEF Retire
    <3>2. ExportSound(s) /\ manifest[s].ids \subseteq BatchesOf(s)
      BY <3>1, ExportingFacts DEF Exporting, OpSound
    <3> QED
      BY <3>1, <3>2 DEF ExportSound, BatchesOf
  <2>2. CASE Clear(s, b)
    <3>1. op[s].pc = "clear" /\ SessionOf[b] = s
      BY <2>2 DEF Clear, Records, BatchesOf
    <3> QED
      BY <3>1 DEF OrderSound, Settled
  <2> QED
    BY <2>1, <2>2
<1>4. Spent(s) /\ \A t \in Session \ {s} : \A d \in BatchesOf(t) : file'[d] = file[d]
  BY <1>1, <1>2, <1>3 DEF Spent, BatchesOf
<1>5. OrderInv'
  BY <1>2, <1>4, SpoolMoved DEF OrderSound
<1>6. \A d \in Batch : d # b => index'[d] = index[d]
  BY <1>1, <1>2
<1>7. Settled'
  BY <1>2, <1>3, <1>6, StillSettled DEF OrderSound, Reserved
<1> QED
  BY <1>5, <1>7 DEF OrderSound

LEMMA WipeOrder ==
  ASSUME IInv, IInv', OrderSound, NEW s \in Session, Wipe(s) \/ WipeFails(s)
  PROVE  OrderSound'
<1>1. archive \in [Session -> SUBSET Chunk]
  BY DEF IInv, TypeOK
<1>2. UNCHANGED <<resv, file, manifest, chunk, index, phase>>
  BY DEF Wipe, WipeFails, dbVars, diskVars, memVars
<1>3. archive'[s] \subseteq archive[s] /\ \A t \in Session \ {s} : archive'[t] = archive[t]
  BY <1>1 DEF Wipe, WipeFails
<1>4. Spent(s)
  BY <1>2 DEF Spent
<1>5. NoNewClear
  BY GotoMoves, RaiseMoves DEF Wipe, WipeFails, Step
<1> QED
  BY <1>2, <1>3, <1>4, <1>5, SpoolMoved, SettledKept DEF OrderSound

\* The chunk of a frozen export spans what its manifest does, and shares no batch
\* with a chunk of which nothing is left to be exported.
LEMMA StoreOrder ==
  ASSUME IInv, IInv', OrderSound, NEW s \in Session, op[s].pc = "upload",
         archive' = [archive EXCEPT ![s] = @ \cup {Sealed(s)}],
         NoNewClear, UNCHANGED <<resv, file, manifest, chunk, index, phase>>
  PROVE  OrderSound'
<1>1. archive \in [Session -> SUBSET Chunk]
  BY DEF IInv, TypeOK
<1>2. /\ archive'[s] = archive[s] \cup {Sealed(s)}
      /\ \A t \in Session : t # s => archive'[t] = archive[t]
  BY <1>1
<1>3. manifest[s] # None /\ manifest[s].sealed /\ MembersOf(Sealed(s)) = manifest[s].ids
  BY SealedFacts, SealedMembers
<1>4. Sealed(s).first = manifest[s].first /\ Sealed(s).last = manifest[s].last
  BY DEF Sealed
<1>5. PlacesApart(resv') /\ ManifestsSpan(manifest', resv')
  BY DEF OrderSound, OrderInv
<1>6. ChunksSpan(archive', resv')
  <2>1. Spans(s, MembersOf(Sealed(s)), Sealed(s).first, Sealed(s).last, resv)
    BY <1>3, <1>4 DEF OrderSound, OrderInv, ManifestsSpan
  <2>2. ASSUME NEW t \in Session, NEW c \in archive'[t]
        PROVE  Spans(t, MembersOf(c), c.first, c.last, resv)
    BY <1>2, <2>1 DEF OrderSound, OrderInv, ChunksSpan
  <2> QED
    BY <2>2 DEF ChunksSpan
<1>7. ChunksApart(archive')
  <2>1. \A c \in archive[s] : c # Sealed(s) => MembersOf(c) \cap manifest[s].ids = {}
    BY <1>3 DEF OrderSound, OrderInv, ChunksGone, FrozenCopy, Gone
  <2>2. ASSUME NEW t \in Session, NEW c \in archive'[t], NEW d \in archive'[t], c # d
        PROVE  MembersOf(c) \cap MembersOf(d) = {}
    <3>1. CASE c \in archive[t] /\ d \in archive[t]
      BY <2>2, <3>1 DEF OrderSound, OrderInv, ChunksApart
    <3>2. CASE t = s /\ c = Sealed(s) /\ d \in archive[s]
      BY <1>3, <2>1, <2>2, <3>2
    <3>3. CASE t = s /\ d = Sealed(s) /\ c \in archive[s]
      BY <1>3, <2>1, <2>2, <3>3
    <3> QED
      BY <1>2, <2>2, <3>1, <3>2, <3>3
  <2> QED
    BY <2>2 DEF ChunksApart
<1>8. ChunksGone'
  <2>1. ASSUME NEW t \in Session, NEW c \in archive'[t]
        PROVE  FrozenCopy(t, c)' \/ Gone(t, c)'
    <3>1. CASE c \in archive[t]
      BY <3>1 DEF OrderSound, OrderInv, ChunksGone, FrozenCopy, Gone, Sealed
    <3>2. CASE t = s /\ c = Sealed(s)
      BY <1>3, <3>2 DEF FrozenCopy, Sealed
    <3> QED
      BY <1>2, <3>1, <3>2
  <2> QED
    BY <2>1 DEF ChunksGone
<1> QED
  BY <1>5, <1>6, <1>7, <1>8, SettledKept DEF OrderSound, OrderInv

LEMMA UploadOrder ==
  ASSUME IInv, IInv', OrderSound, NEW s \in Session, Upload(s) \/ UploadFails(s)
  PROVE  OrderSound'
<1>1. /\ UNCHANGED <<resv, file, manifest, chunk, index, phase>> /\ op[s].pc = "upload"
      /\ archive' = archive \/ archive' = [archive EXCEPT ![s] = @ \cup {Sealed(s)}]
  BY DEF Upload, UploadFails, dbVars, diskVars, memVars
<1>2. NoNewClear
  BY GotoMoves, RaiseMoves DEF Upload, UploadFails, Step
<1>3. CASE archive' = archive
  BY <1>1, <1>2, <1>3, QuietOrder
<1>4. CASE archive' = [archive EXCEPT ![s] = @ \cup {Sealed(s)}]
  BY <1>1, <1>2, <1>4, StoreOrder
<1> QED
  BY <1>1, <1>3, <1>4

\* A restart, the loss of the spool, and the start that follows.
LEMMA RestartOrder ==
  ASSUME IInv, IInv', OrderSound, Crash \/ RefuseStart \/ Start \/ Lose
  PROVE  OrderSound'
<1>1. UNCHANGED <<resv, archive>>
  BY DEF Crash, RefuseStart, Start, Lose, dbVars
<1>2. PlacesKept /\ ManifestsKept
  <2>1. \A t \in Session : manifest'[t] = manifest[t] \/ manifest'[t] = None
    BY DEF Crash, RefuseStart, Start, Lose, diskVars
  <2> QED
    BY <1>1, <2>1 DEF PlacesKept, SamePlaces, ManifestsKept
<1>3. ASSUME NEW t \in Session PROVE archive'[t] \subseteq archive[t] /\ Spent(t)
  <2>1. CASE Crash \/ RefuseStart
    BY <1>1, <2>1 DEF Crash, RefuseStart, diskVars, Spent
  <2>2. CASE Start
    <3>1. UNCHANGED <<file, manifest>> /\ (manifest[t] # None => chunk'[t] = chunk[t])
      BY <2>2 DEF Start
    <3> QED
      BY <1>1, <3>1 DEF Spent
  <2>3. CASE Lose
    <3>1. manifest'[t] = None /\ \A b \in Batch : file'[b] = None
      BY <2>3 DEF Lose
    <3>2. manifest[t] # None => manifest[t].ids \subseteq Batch
      BY DEF IInv, TypeOK, Manifest
    <3> QED
      BY <1>1, <3>1, <3>2 DEF Spent, BatchesOf
  <2> QED
    BY <2>1, <2>2, <2>3
<1>4. OrderInv'
  BY <1>2, <1>3, OrderKept DEF OrderSound
<1>5. phase' # "up" /\ NoNewClear
  <2>1. CASE Lose
    BY <2>1 DEF Lose, memVars, NoNewClear
  <2>2. CASE Crash \/ RefuseStart \/ Start
    BY <2>2, MemoryType, FreeIsOp DEF Crash, RefuseStart, Start, NoNewClear
  <2> QED
    BY <2>1, <2>2
<1>6. \A b \in Batch : SessionOf[b] \in Session
  BY SpoolAssumption
<1>7. Settled'
  BY <1>1, <1>5, <1>6, StillSettled DEF OrderSound, NoNewClear
<1> QED
  BY <1>4, <1>7 DEF OrderSound

\* The service admits writes again when no receipt is adrift.
LEMMA ServeOrder ==
  ASSUME IInv, IInv', OrderSound, Purged \/ Serve
  PROVE  OrderSound'
<1>1. /\ UNCHANGED <<resv, file, manifest, chunk, archive, index, op>>
      /\ phase' = "assigning" \/ (phase' = "up" /\ Adrift = {})
  BY DEF Purged, Serve, dbVars, diskVars
<1>2. OrderInv'
  BY <1>1, NothingMoved DEF OrderSound
<1>3. ASSUME phase' = "up", NEW b \in Batch, resv'[b] # None, index'[b] = Absent,
             resv'[b].status = "pending"
      PROVE  FALSE
  BY <1>1, <1>3 DEF Adrift
<1>4. Settled'
  BY <1>1, <1>3 DEF OrderSound, Settled, Reserved
<1> QED
  BY <1>2, <1>4 DEF OrderSound

LEMMA InitIsInOrder ==
  ASSUME Init
  PROVE  OrderSound
<1>1. \A s \in Session : manifest[s] = None /\ archive[s] = {} /\ ReceiptsOf(s, resv) = {}
  BY DEF Init, ReceiptsOf, BatchesOf
<1>2. Reserved = {}
  BY DEF Init, Reserved
<1> QED
  BY <1>1, <1>2 DEF OrderSound, OrderInv, Settled, PlacesApart, ManifestsSpan, ChunksSpan,
                    ChunksApart, ChunksGone

LEMMA LockedOrder ==
  ASSUME IInv, IInv', OrderSound, NEW s \in Session, OpStep(s) \/ Fails(s)
  PROVE  OrderSound'
<1>1. CASE \E b \in Batch : AssignOld(s, b) \/ Retire(s, b) \/ Clear(s, b) \/ AssignFails(s, b)
  BY <1>1, AssignOrder, RemoveOrder
<1>2. CASE \E ids \in SUBSET Batch : Select(s, ids)
  BY <1>2, SelectOrder
<1>3. CASE \/ OldAssigned(s) \/ Due(s) \/ Reply(s) \/ Refuse(s) \/ Resume(s) \/ Exported(s)
           \/ Blocked(s) \/ WriteTomb(s) \/ ClearTomb(s) \/ ReadFails(s)
  BY <1>3, LockOrder
<1>4. CASE Prepare(s) \/ DiskFails(s) \/ Assign(s) \/ Seal(s) \/ Digest(s)
  BY <1>4, StageOrder, AssignOrder, SealOrder
<1>5. CASE Upload(s) \/ UploadFails(s) \/ Wipe(s) \/ WipeFails(s)
  BY <1>5, UploadOrder, WipeOrder
<1>6. CASE Confirm(s) \/ Invalidate(s) \/ ReceiptFails(s)
  BY <1>6, ReceiptOrder
<1>7. CASE RetireManifest(s) \/ RetireChunk(s) \/ ClearManifest(s) \/ ClearChunk(s)
  BY <1>7, DropOrder
<1> QED
  BY <1>1, <1>2, <1>3, <1>4, <1>5, <1>6, <1>7 DEF OpStep, Fails

LEMMA NextKeepsOrder ==
  ASSUME IInv, IInv', OrderSound, [Next]_vars
  PROVE  OrderSound'
<1>1. CASE Client
  BY <1>1, ClientOrder
<1>2. CASE Recover
  BY <1>2, RestartOrder, ServeOrder, LockOrder, AssignOrder, VerifyOrder DEF Recover
<1>3. CASE Crash \/ Lose
  BY <1>3, RestartOrder
<1>4. CASE ProbeFails \/ StartRound \/ EndStage \/ (\E s \in Session : Visit(s) \/ Skip(s))
  BY <1>4, FlusherOrder
<1>5. CASE \E s \in Session : OpStep(s) \/ Fails(s)
  BY <1>5, LockedOrder
<1>6. CASE UNCHANGED vars
  <2>1. UNCHANGED <<resv, file, manifest, chunk, archive, index, phase, op>>
    BY <1>6 DEF vars, dbVars, diskVars, memVars
  <2> QED
    BY <2>1, QuietOrder DEF NoNewClear
<1> QED
  BY <1>1, <1>2, <1>3, <1>4, <1>5, <1>6 DEF Next

\* Two chunks of a session do not overlap: each begins and ends with a batch of
\* its own, and leaves no place for one of another's between them.
LEMMA ChunksDoNotOverlap ==
  ASSUME IInv, OrderInv, NEW s \in Session, NEW c \in archive[s], NEW d \in archive[s], c # d
  PROVE  c.last < d.first \/ d.last < c.first
<1>1. /\ Spans(s, MembersOf(c), c.first, c.last, resv)
      /\ Spans(s, MembersOf(d), d.first, d.last, resv)
      /\ MembersOf(c) \cap MembersOf(d) = {}
  BY DEF OrderInv, ChunksSpan, ChunksApart
<1>2. /\ MembersOf(c) \subseteq ReceiptsOf(s, resv) /\ MembersOf(d) \subseteq ReceiptsOf(s, resv)
      /\ c.first \in Nat /\ c.last \in Nat /\ d.first \in Nat /\ d.last \in Nat
  BY ChunkRange
<1>3. PICK a \in MembersOf(c), z \in MembersOf(c) :
        c.first = resv[a].first /\ c.last = EndOf(z, resv)
  BY <1>1 DEF Spans
<1>4. PICK e \in MembersOf(d), y \in MembersOf(d) :
        d.first = resv[e].first /\ d.last = EndOf(y, resv)
  BY <1>1 DEF Spans
<1>5. /\ EndOf(e, resv) < c.first \/ c.last < resv[e].first
      /\ EndOf(y, resv) < c.first \/ c.last < resv[y].first
      /\ EndOf(a, resv) < d.first \/ d.last < resv[a].first
      /\ EndOf(z, resv) < d.first \/ d.last < resv[z].first
  BY <1>1, <1>2, <1>3, <1>4 DEF Spans
<1>6. \A b \in ReceiptsOf(s, resv) :
        resv[b].first \in Nat /\ EndOf(b, resv) \in Nat /\ resv[b].first <= EndOf(b, resv)
  BY PlaceFacts
<1>7. /\ resv[a].first <= EndOf(a, resv) /\ resv[z].first <= EndOf(z, resv)
      /\ resv[e].first <= EndOf(e, resv) /\ resv[y].first <= EndOf(y, resv)
      /\ resv[a].first \in Nat /\ resv[z].first \in Nat /\ resv[e].first \in Nat
      /\ resv[y].first \in Nat /\ EndOf(a, resv) \in Nat /\ EndOf(z, resv) \in Nat
      /\ EndOf(e, resv) \in Nat /\ EndOf(y, resv) \in Nat
  BY <1>2, <1>6
<1>8. c.first <= resv[z].first /\ d.first <= resv[y].first
  BY <1>1, <1>2 DEF Spans
<1> QED
  BY <1>2, <1>3, <1>4, <1>5, <1>7, <1>8

\* However often a frozen export is retried, across crashes, lost answers and
\* deletions, a chunk holds each batch at the place and with the payload of its
\* receipt, and no two chunks of a session overlap.
THEOREM ArchiveInOrder == Spec => []ArchiveMatchesReceipts
<1>1. Init => IInv /\ OrderSound
  BY InitIsSound, InitIsInOrder
<1>2. IInv /\ OrderSound /\ [Next]_vars => IInv' /\ OrderSound'
  BY NextIsSound, NextKeepsOrder
<1>3. IInv /\ OrderSound => ArchiveMatchesReceipts
  <2> SUFFICES ASSUME IInv, OrderSound, NEW s \in Session
               PROVE  /\ \A c \in archive[s] : \A g \in c.segs :
                           /\ resv[g.batch] # None
                           /\ resv[g.batch].payload = g.payload
                           /\ resv[g.batch].first = g.first
                      /\ \A c, d \in archive[s] : c = d \/ c.last < d.first \/ d.last < c.first
    BY DEF ArchiveMatchesReceipts
  <2>1. ArchiveSound(s)
    BY DEF IInv, SessionSound
  <2>2. ASSUME NEW c \in archive[s], NEW g \in c.segs
        PROVE  /\ resv[g.batch] # None
               /\ resv[g.batch].payload = g.payload /\ resv[g.batch].first = g.first
    <3>1. g.batch \in Reserved /\ g = Copy(g.batch)
      BY <2>1 DEF ArchiveSound
    <3>2. g.payload = resv[g.batch].payload /\ g.first = resv[g.batch].first
      BY <3>1 DEF Copy
    <3> QED
      BY <3>1, <3>2 DEF Reserved
  <2> QED
    BY <2>2, ChunksDoNotOverlap DEF OrderSound
<1> QED
  BY <1>1, <1>2, <1>3, PTL DEF Spec
=============================================================================
