----------------------------- MODULE EventSpool -----------------------------
(***************************************************************************)
(* The durable path of a session's recorded events: the local spool          *)
(* (events/spool.py), the store that drives it (events/store.py), the        *)
(* reservations that give a batch its sequence numbers (session.py) and the  *)
(* immutable chunks of the archive (events/backend.py).                      *)
(*                                                                          *)
(* One action is one durable effect - a file replaced or removed, a database *)
(* transaction, a call of the archive - so that the process may die between  *)
(* any two of them.  Everything that changes a session's files runs under    *)
(* that session's lock and is the session's op.  The store has its           *)
(* SessionStore, every batch an idempotency key, and the spool syncs.        *)
(***************************************************************************)
EXTENDS Integers, FiniteSets

CONSTANTS
  Session,      \* sessions, as numbers: a flush round visits them in order
  Batch,        \* batch identities: user, session and idempotency key
  SessionOf,    \* the session of a batch
  SizeOf,       \* the number of its events
  Payload,      \* what a client may send under a key
  FlushSize,    \* events after which a chunk is closed
  MaxFaults,    \* bound: how often each kind of fault, or a deletion, happens; "any" is their sum
  None

FaultKind == {"crash", "archive", "read", "database", "disk", "loss", "delete", "any"}

ASSUME SpoolAssumption ==
  /\ Session \subseteq Nat
  /\ SessionOf \in [Batch -> Session]
  /\ SizeOf \in [Batch -> Nat \ {0}]
  /\ FlushSize \in Nat \ {0}
  /\ MaxFaults \in [FaultKind -> Nat]
  /\ None \notin Payload

VARIABLES
  lastSeq,     \* sessions.last_event_seq
  resv,        \* event_spool_reservations
  file,        \* batches/*.json: the payload staged for a batch
  manifest,    \* exports/*.json: the frozen export of a session
  chunk,       \* exports/*.ndjson: its sealed content
  tomb,        \* deletions/*.json
  archive,     \* the chunks of a session in the archive
  phase,       \* the process: down, recovering or up
  index,       \* EventSpool._index: 0 without a sequence, else the first one
  counter,     \* EventStore._seq_counters
  op,          \* what runs under the session's lock
  round,       \* the flusher's pass over the sessions
  backendError, localError,
  acked,       \* history: what the client was told of a batch
  withdrawn,   \* history: batches whose recording a client asked to delete
  lost,        \* history: the spool directory was replaced
  faults       \* the faults that may still happen

dbVars     == <<lastSeq, resv>>
diskVars   == <<file, manifest, chunk, tomb>>
memVars    == <<phase, index, counter, round, backendError, localError>>
auxVars    == <<acked, withdrawn, lost>>
vars == <<dbVars, diskVars, archive, memVars, op, auxVars, faults>>

Absent == -1

Receipt == [payload : Payload, first : Nat, status : {"pending", "archived", "deleted"}]

Segment == [batch : Batch, payload : Payload, first : Nat]

Chunk == [first : Nat, last : Nat, segs : SUBSET Segment]

Manifest == [ids : SUBSET Batch, first : Nat, last : Nat, sealed : BOOLEAN]

ASSUME NothingAssumption == None \notin Receipt \cup Manifest

Ack == [payload : Payload, first : Nat]

Step == {"idle", "old", "prepare", "assign", "check", "reply", "select", "seal",
         "digest", "upload", "receipt", "retire", "tomb", "wipe", "invalidate", "clear"}

Op == [pc : Step, by : {"none", "client", "append", "flusher", "startup"},
       batch : Batch \cup {None}, payload : Payload \cup {None}]

Round == [stage : {"off", "purge", "all", "stale"}, todo : SUBSET Session]

TypeOK ==
  /\ lastSeq \in [Session -> Nat]
  /\ resv \in [Batch -> Receipt \cup {None}]
  /\ file \in [Batch -> Payload \cup {None}]
  /\ manifest \in [Session -> Manifest \cup {None}]
  /\ chunk \in [Session -> (SUBSET Segment) \cup {None}]
  /\ tomb \in [Session -> BOOLEAN]
  /\ archive \in [Session -> SUBSET Chunk]
  /\ phase \in {"down", "purging", "assigning", "up"}
  /\ index \in [Batch -> Nat \cup {Absent}]
  /\ counter \in [Session -> Nat \cup {Absent}]
  /\ op \in [Session -> Op]
  /\ round \in Round
  /\ backendError \in BOOLEAN /\ localError \in BOOLEAN /\ lost \in BOOLEAN
  /\ acked \in [Batch -> Ack \cup {None}]
  /\ withdrawn \in SUBSET Batch
  /\ faults \in [FaultKind -> Nat]

-----------------------------------------------------------------------------
Free == [pc |-> "idle", by |-> "none", batch |-> None, payload |-> None]

Off == [stage |-> "off", todo |-> {}]

Init ==
  /\ lastSeq = [s \in Session |-> 0]
  /\ resv = [b \in Batch |-> None]
  /\ file = [b \in Batch |-> None]
  /\ manifest = [s \in Session |-> None]
  /\ chunk = [s \in Session |-> None]
  /\ tomb = [s \in Session |-> FALSE]
  /\ archive = [s \in Session |-> {}]
  /\ phase = "up"
  /\ index = [b \in Batch |-> Absent]
  /\ counter = [s \in Session |-> Absent]
  /\ op = [s \in Session |-> Free]
  /\ round = Off
  /\ backendError = FALSE /\ localError = FALSE /\ lost = FALSE
  /\ acked = [b \in Batch |-> None]
  /\ withdrawn = {}
  /\ faults = MaxFaults

BatchesOf(s) == {b \in Batch : SessionOf[b] = s}

\* EventSpool.records.
Records(s) == {b \in BatchesOf(s) : index[b] # Absent}

Unassigned(s) == {b \in Records(s) : index[b] = 0}

Last(b, first) == first + SizeOf[b] - 1

\* The archive and the batches with a sequence can be read ...
Ends(s) == {0} \cup {c.last : c \in archive[s]}
               \cup {Last(b, index[b]) : b \in Records(s) \ Unassigned(s)}

\* ... and their last_seq found.
ReadableLast(s) == CHOOSE n \in Ends(s) : \A m \in Ends(s) : m <= n

Admitted == ~backendError /\ ~localError

Goto(s, step) == op' = [op EXCEPT ![s].pc = step]

Fault(kind) ==
  /\ faults[kind] > 0 /\ faults["any"] > 0
  /\ faults' = [faults EXCEPT ![kind] = @ - 1, !["any"] = @ - 1]

\* An exception leaves the lock, and ends the flusher's pass if it is its own.
Raise(s) ==
  /\ op' = [op EXCEPT ![s] = Free]
  /\ round' = IF op[s].by = "flusher" THEN Off ELSE round

-----------------------------------------------------------------------------
(* Appending a batch: EventStore._append_spooled *)

\* A receipt that is archived answers a retry; a receipt of another payload or
\* of a deleted recording refuses it.
Replay(b, v) ==
  LET s == SessionOf[b]
  IN  /\ phase = "up" /\ op[s] = Free /\ Admitted /\ ~tomb[s]
      /\ resv[b] # None /\ resv[b].payload = v /\ resv[b].status = "archived"
      /\ acked' = [acked EXCEPT ![b] = [payload |-> v, first |-> resv[b].first]]
      /\ UNCHANGED <<dbVars, diskVars, archive, memVars, op, withdrawn, lost, faults>>

Fresh(b, v) ==
  resv[b] # None => resv[b].payload = v /\ resv[b].status = "pending"

Append(b, v) ==
  LET s == SessionOf[b]
  IN  /\ phase = "up" /\ op[s] = Free /\ Admitted /\ ~tomb[s]
      /\ Fresh(b, v)
      /\ op' = [op EXCEPT ![s] = [pc |-> "old", by |-> "append", batch |-> b, payload |-> v]]
      /\ UNCHANGED <<dbVars, diskVars, archive, memVars, auxVars, faults>>

\* The least last sequence the store knows of, before the session row's own.
HighWater(s) == IF counter[s] # Absent THEN counter[s] ELSE ReadableLast(s)

Base(s) == IF lastSeq[s] < HighWater(s) THEN HighWater(s) ELSE lastSeq[s]

\* Mutant: the reservation of an earlier attempt is not looked up.
ReserveAnew(b, v) ==
  LET s == SessionOf[b]
  IN  /\ lastSeq' = [lastSeq EXCEPT ![s] = Base(s) + SizeOf[b]]
      /\ resv' = [resv EXCEPT ![b] =
                    [payload |-> v, first |-> Base(s) + 1, status |-> "pending"]]

\* allocate_event_sequences with a reservation: an existing one is returned as
\* it is, a new one moves the session's last sequence.
Reserve(b, v) ==
  LET s == SessionOf[b]
  IN  IF resv[b] # None
      THEN resv[b].payload = v /\ UNCHANGED dbVars
      ELSE /\ lastSeq' = [lastSeq EXCEPT ![s] = Base(s) + SizeOf[b]]
           /\ resv' = [resv EXCEPT ![b] =
                         [payload |-> v, first |-> Base(s) + 1, status |-> "pending"]]

\* _assign_spooled: the reservation commits, then the index takes it over.
AssignBatch(b) ==
  LET s == SessionOf[b]
      first == resv'[b].first
  IN  /\ Reserve(b, file[b])
      /\ index' = [index EXCEPT ![b] = first]
      /\ counter' = [counter EXCEPT ![s] =
                       IF @ < Last(b, first) THEN Last(b, first) ELSE @]

\* Assignments an earlier append left behind come first.
AssignOld(s, b) ==
  /\ op[s].pc = "old"
  /\ b \in Unassigned(s)
  /\ AssignBatch(b)
  /\ UNCHANGED <<diskVars, archive, phase, round, backendError, localError, op, auxVars, faults>>

OldAssigned(s) ==
  /\ op[s].pc = "old"
  /\ Unassigned(s) = {}
  /\ Goto(s, "prepare")
  /\ UNCHANGED <<dbVars, diskVars, archive, memVars, auxVars, faults>>

Staged(b) == index[b] # Absent

\* EventSpool.prepare: a staged batch is taken as it is, if it is the same one.
Prepare(s) ==
  LET b == op[s].batch
      v == op[s].payload
  IN  /\ op[s].pc = "prepare"
      /\ Admitted /\ ~tomb[s]
      /\ IF Staged(b)
         THEN file[b] = v /\ UNCHANGED <<file, index>>
         ELSE /\ file' = [file EXCEPT ![b] = v]
              /\ index' = [index EXCEPT ![b] = 0]
      /\ Goto(s, "assign")
      /\ UNCHANGED <<dbVars, manifest, chunk, tomb, archive, phase, counter, round,
                     backendError, localError, auxVars, faults>>

Assign(s) ==
  LET b == op[s].batch
  IN  /\ op[s].pc = "assign"
      /\ IF index[b] = 0 THEN AssignBatch(b) ELSE UNCHANGED <<dbVars, index, counter>>
      /\ Goto(s, "check")
      /\ UNCHANGED <<diskVars, archive, phase, round, backendError, localError, auxVars, faults>>

\* By count, bytes or age the session may be due for export.
Due(s) ==
  /\ op[s].pc = "check"
  /\ \E step \in {"select", "reply"} : Goto(s, step)
  /\ UNCHANGED <<dbVars, diskVars, archive, memVars, auxVars, faults>>

\* The append is acknowledged if writes are still admitted.
Reply(s) ==
  LET b == op[s].batch
  IN  /\ op[s].pc = "reply"
      /\ Admitted
      /\ acked' = [acked EXCEPT ![b] = [payload |-> op[s].payload, first |-> resv[b].first]]
      /\ op' = [op EXCEPT ![s] = Free]
      /\ UNCHANGED <<dbVars, diskVars, archive, memVars, withdrawn, lost, faults>>

\* Writes closed meanwhile, the key was staged with something else, or the
\* spool has no room for a new batch.
Refuse(s) ==
  /\ \/ op[s].pc = "reply" /\ ~Admitted
     \/ /\ op[s].pc = "prepare"
        /\ \/ ~Admitted \/ tomb[s]
           \/ Staged(op[s].batch) => file[op[s].batch] # op[s].payload
  /\ Raise(s)
  /\ UNCHANGED <<dbVars, diskVars, archive, phase, index, counter, backendError, localError,
                 auxVars, faults>>

-----------------------------------------------------------------------------
(* Exporting a session: EventSpool.export *)

\* Each batch but the first follows another of the group.
Contiguous(ids) ==
  \A b \in ids : \/ \A c \in ids : index[b] <= index[c]
                 \/ \E c \in ids : index[b] = Last(c, index[c]) + 1

\* The oldest batches, closed by count or, at any point, by bytes.
Group(s, ids) ==
  /\ ids # {} /\ ids \subseteq Records(s)
  /\ \A b \in ids, c \in Records(s) \ ids : index[b] < index[c]
  /\ Contiguous(ids)
  /\ \A b, c \in ids : index[b] - index[c] < FlushSize

\* Mutant: an export that was begun is selected again.
FrozenNever(s) == FALSE

Frozen(s) == manifest[s] # None

\* The membership is frozen before anything is uploaded.
Select(s, ids) ==
  /\ op[s].pc = "select" /\ ~localError /\ ~tomb[s]
  /\ ~Frozen(s)
  /\ Unassigned(s) = {}
  /\ Group(s, ids)
  /\ \E a, z \in ids :
       /\ \A b \in ids : index[a] <= index[b] /\ index[b] <= index[z]
       /\ manifest' = [manifest EXCEPT ![s] =
            [ids |-> ids, first |-> index[a], last |-> Last(z, index[z]), sealed |-> FALSE]]
  /\ Goto(s, "seal")
  /\ UNCHANGED <<dbVars, file, chunk, tomb, archive, memVars, auxVars, faults>>

RetryStep(s) == IF manifest[s].sealed THEN "upload" ELSE "seal"

\* A frozen export is retried before another group is selected.
Resume(s) ==
  /\ op[s].pc = "select" /\ ~localError /\ ~tomb[s]
  /\ Frozen(s)
  /\ Goto(s, RetryStep(s))
  /\ UNCHANGED <<dbVars, diskVars, archive, memVars, auxVars, faults>>

\* Nothing is left to export: the append is answered, or the lock released.
Exported(s) ==
  /\ op[s].pc = "select" /\ ~localError /\ ~tomb[s]
  /\ ~Frozen(s)
  /\ Records(s) = {}
  /\ op' = [op EXCEPT ![s] = IF op[s].by = "append" THEN [op[s] EXCEPT !.pc = "reply"]
                             ELSE Free]
  /\ UNCHANGED <<dbVars, diskVars, archive, memVars, auxVars, faults>>

\* Closed writes, an unfinished deletion and an unresolved assignment end it.
Blocked(s) ==
  /\ \/ op[s].pc \in {"select", "tomb"} /\ localError
     \/ op[s].pc = "select" /\ (tomb[s] \/ (~Frozen(s) /\ Unassigned(s) # {}))
  /\ Raise(s)
  /\ UNCHANGED <<dbVars, diskVars, archive, phase, index, counter, backendError, localError,
                 auxVars, faults>>

Seal(s) ==
  /\ op[s].pc = "seal"
  /\ chunk' = [chunk EXCEPT ![s] =
       {[batch |-> b, payload |-> file[b], first |-> index[b]] : b \in manifest[s].ids}]
  /\ Goto(s, "digest")
  /\ UNCHANGED <<dbVars, file, manifest, tomb, archive, memVars, auxVars, faults>>

Digest(s) ==
  /\ op[s].pc = "digest"
  /\ manifest' = [manifest EXCEPT ![s].sealed = TRUE]
  /\ Goto(s, "upload")
  /\ UNCHANGED <<dbVars, file, chunk, tomb, archive, memVars, auxVars, faults>>

Sealed(s) == [first |-> manifest[s].first, last |-> manifest[s].last, segs |-> chunk[s]]

\* An object of the same name with other content.
Collision(s) ==
  \E c \in archive[s] :
    c.first = manifest[s].first /\ c.last = manifest[s].last /\ c.segs # chunk[s]

Upload(s) ==
  /\ op[s].pc = "upload"
  /\ ~Collision(s)
  /\ archive' = [archive EXCEPT ![s] = @ \cup {Sealed(s)}]
  /\ Goto(s, "receipt")
  /\ UNCHANGED <<dbVars, diskVars, memVars, auxVars, faults>>

\* The upload fails, before or after it took effect, and writes are closed.
UploadFails(s) ==
  /\ op[s].pc = "upload"
  /\ IF Collision(s)
     THEN UNCHANGED <<archive, faults>>
     ELSE /\ Fault("archive")
          /\ archive' \in {archive, [archive EXCEPT ![s] = @ \cup {Sealed(s)}]}
  /\ backendError' = TRUE
  /\ Raise(s)
  /\ UNCHANGED <<dbVars, diskVars, phase, index, counter, localError, auxVars>>

\* archive_spool_reservations.
Confirm(s) ==
  /\ op[s].pc = "receipt"
  /\ resv' = [b \in Batch |-> IF b \in manifest[s].ids
                              THEN [resv[b] EXCEPT !.status = "archived"] ELSE resv[b]]
  /\ Goto(s, "retire")
  /\ UNCHANGED <<lastSeq, diskVars, archive, memVars, auxVars, faults>>

\* The batch files go first, one by one, ...
Retire(s, b) ==
  /\ op[s].pc = "retire"
  /\ manifest[s] # None /\ b \in manifest[s].ids
  /\ index[b] # Absent
  /\ file' = [file EXCEPT ![b] = None]
  /\ index' = [index EXCEPT ![b] = Absent]
  /\ UNCHANGED <<dbVars, manifest, chunk, tomb, archive, phase, counter, round, backendError,
                 localError, op, auxVars, faults>>

\* ... then the manifest, ...
RetireManifest(s) ==
  /\ op[s].pc = "retire"
  /\ manifest[s] # None
  /\ \A b \in manifest[s].ids : index[b] = Absent
  /\ manifest' = [manifest EXCEPT ![s] = None]
  /\ UNCHANGED <<dbVars, file, chunk, tomb, archive, memVars, op, auxVars, faults>>

\* ... then the sealed copy, before the next group.
RetireChunk(s) ==
  /\ op[s].pc = "retire"
  /\ manifest[s] = None
  /\ chunk' = [chunk EXCEPT ![s] = None]
  /\ Goto(s, "select")
  /\ UNCHANGED <<dbVars, file, manifest, tomb, archive, memVars, auxVars, faults>>

\* A client's flush of the session, at a change of its lifecycle or intention.
Flush(s) ==
  /\ phase = "up" /\ op[s] = Free
  /\ op' = [op EXCEPT ![s] = [Free EXCEPT !.pc = "select", !.by = "client"]]
  /\ UNCHANGED <<dbVars, diskVars, archive, memVars, auxVars, faults>>

-----------------------------------------------------------------------------
(* Deleting a recording: EventSpool.delete *)

Delete(s) ==
  /\ phase = "up" /\ op[s] = Free
  /\ Fault("delete")
  /\ op' = [op EXCEPT ![s] = [Free EXCEPT !.pc = "tomb", !.by = "client"]]
  /\ UNCHANGED <<dbVars, diskVars, archive, memVars, auxVars>>

\* The intent is durable first.
WriteTomb(s) ==
  /\ op[s].pc = "tomb" /\ ~localError
  /\ tomb' = [tomb EXCEPT ![s] = TRUE]
  /\ withdrawn' = withdrawn \cup {b \in BatchesOf(s) : resv[b] # None}
  /\ Goto(s, "wipe")
  /\ UNCHANGED <<dbVars, file, manifest, chunk, archive, memVars, acked, lost, faults>>

Wipe(s) ==
  /\ op[s].pc = "wipe"
  /\ archive' = [archive EXCEPT ![s] = {}]
  /\ Goto(s, "invalidate")
  /\ UNCHANGED <<dbVars, diskVars, memVars, auxVars, faults>>

WipeFails(s) ==
  /\ op[s].pc = "wipe"
  /\ Fault("archive")
  /\ \E left \in SUBSET archive[s] : archive' = [archive EXCEPT ![s] = left]
  /\ backendError' = TRUE
  /\ Raise(s)
  /\ UNCHANGED <<dbVars, diskVars, phase, index, counter, localError, auxVars>>

\* invalidate_spool_reservations: a retry of a deleted batch is refused.
Invalidated(s) ==
  [b \in Batch |-> IF SessionOf[b] = s /\ resv[b] # None
                   THEN [resv[b] EXCEPT !.status = "deleted"] ELSE resv[b]]

Invalidate(s) ==
  /\ op[s].pc = "invalidate"
  /\ resv' = Invalidated(s)
  /\ Goto(s, "clear")
  /\ UNCHANGED <<lastSeq, diskVars, archive, memVars, auxVars, faults>>

Clear(s, b) ==
  /\ op[s].pc = "clear"
  /\ b \in Records(s)
  /\ file' = [file EXCEPT ![b] = None]
  /\ index' = [index EXCEPT ![b] = Absent]
  /\ UNCHANGED <<dbVars, manifest, chunk, tomb, archive, phase, counter, round, backendError,
                 localError, op, auxVars, faults>>

ClearManifest(s) ==
  /\ op[s].pc = "clear"
  /\ Records(s) = {} /\ manifest[s] # None
  /\ manifest' = [manifest EXCEPT ![s] = None]
  /\ UNCHANGED <<dbVars, file, chunk, tomb, archive, memVars, op, auxVars, faults>>

ClearChunk(s) ==
  /\ op[s].pc = "clear"
  /\ Records(s) = {} /\ manifest[s] = None /\ chunk[s] # None
  /\ chunk' = [chunk EXCEPT ![s] = None]
  /\ UNCHANGED <<dbVars, file, manifest, tomb, archive, memVars, op, auxVars, faults>>

\* Mutant: the intent is forgotten before what it covers is removed.
NothingInArchive(s) == archive[s] = {}

NothingLeft(s) == Records(s) = {} /\ manifest[s] = None /\ chunk[s] = None

\* The intent goes last; only a client's deletion drops the counter.
ClearTomb(s) ==
  /\ op[s].pc = "clear"
  /\ NothingLeft(s)
  /\ tomb' = [tomb EXCEPT ![s] = FALSE]
  /\ counter' = IF op[s].by = "client" THEN [counter EXCEPT ![s] = Absent] ELSE counter
  /\ op' = [op EXCEPT ![s] = Free]
  /\ UNCHANGED <<dbVars, file, manifest, chunk, archive, phase, index, round, backendError,
                 localError, auxVars, faults>>

-----------------------------------------------------------------------------
(* Failures under the session's lock *)

\* The transaction fails, or commits and its answer is lost; the record stays
\* without a sequence either way.
AssignFails(s, b) ==
  /\ \/ op[s].pc = "old" /\ b \in Unassigned(s)
     \/ op[s].pc = "assign" /\ b = op[s].batch /\ index[b] = 0
  /\ Fault("database")
  /\ Reserve(b, file[b]) \/ UNCHANGED dbVars
  /\ Raise(s)
  /\ UNCHANGED <<diskVars, archive, phase, index, counter, backendError, localError, auxVars>>

\* The last sequence in the archive could not be read: writes are closed.
ReadFails(s) ==
  /\ \/ op[s].pc = "old" /\ Unassigned(s) # {}
     \/ op[s].pc = "assign" /\ index[op[s].batch] = 0
  /\ counter[s] = Absent
  /\ Fault("read")
  /\ backendError' = TRUE
  /\ Raise(s)
  /\ UNCHANGED <<dbVars, diskVars, archive, phase, index, counter, localError, auxVars>>

ReceiptFails(s) ==
  /\ Fault("database")
  /\ \/ /\ op[s].pc = "receipt"
        /\ \/ UNCHANGED resv
           \/ resv' = [b \in Batch |-> IF b \in manifest[s].ids
                                       THEN [resv[b] EXCEPT !.status = "archived"] ELSE resv[b]]
     \/ op[s].pc = "invalidate" /\ resv' \in {resv, Invalidated(s)}
  /\ Raise(s)
  /\ UNCHANGED <<lastSeq, diskVars, archive, phase, index, counter, backendError, localError,
                 auxVars>>

\* A write that fails closes the spool until the next start - the file may be
\* there all the same -, a removal that fails only ends the operation.
DiskFails(s) ==
  /\ Fault("disk")
  /\ \/ /\ \/ op[s].pc = "select" /\ ~Frozen(s)
           \/ op[s].pc \in {"seal", "digest", "tomb"}
           \/ op[s].pc = "prepare" /\ ~Staged(op[s].batch)
        /\ localError' = TRUE
        /\ \/ UNCHANGED file
           \/ op[s].pc = "prepare" /\ file' = [file EXCEPT ![op[s].batch] = op[s].payload]
     \/ op[s].pc \in {"retire", "clear"} /\ UNCHANGED <<file, localError>>
  /\ Raise(s)
  /\ UNCHANGED <<dbVars, manifest, chunk, tomb, archive, phase, index, counter, backendError,
                 auxVars>>

-----------------------------------------------------------------------------
(* The flusher: flush_stale once a second, flush_all when writes are closed *)

\* Mutant: only exports that were begun are looked for.
SessionsFrozen == {s \in Session : Frozen(s)}

\* EventSpool.sessions.
Sessions == {s \in Session : Records(s) # {} \/ Frozen(s)}

Busy == \E s \in Session : op[s].by = "flusher"

FirstStage == IF backendError THEN "purge" ELSE "stale"

\* Mutant: unfinished deletions wait for the next start.
TodoRecords(stage) == IF stage = "purge" THEN {} ELSE Sessions

Todo(stage) == IF stage = "purge" THEN {s \in Session : tomb[s]} ELSE Sessions

StartRound ==
  /\ phase = "up" /\ round = Off /\ ~Busy /\ ~localError
  /\ round' = [stage |-> FirstStage, todo |-> Todo(FirstStage)]
  /\ UNCHANGED <<dbVars, diskVars, archive, phase, index, counter, backendError, localError, op,
                 auxVars, faults>>

\* EventSpool.probe fails, here or on admission: writes are closed.
ProbeFails ==
  /\ phase = "up" /\ ~localError
  /\ Fault("archive")
  /\ backendError' = TRUE
  /\ UNCHANGED <<dbVars, diskVars, archive, phase, index, counter, round, localError, op, auxVars>>

\* The sessions are visited one at a time, in the same order in every pass.
NextUp(s) ==
  /\ phase = "up" /\ ~Busy
  /\ s \in round.todo /\ \A t \in round.todo : s <= t

\* Unfinished deletions are resumed, sessions with records exported: in a
\* "stale" pass those whose oldest batch has reached its age.
Visit(s) ==
  /\ NextUp(s) /\ op[s] = Free
  /\ round.stage = "stale" => Records(s) # {}
  /\ round' = [round EXCEPT !.todo = @ \ {s}]
  /\ op' = [op EXCEPT ![s] = [Free EXCEPT !.by = "flusher",
                                         !.pc = IF round.stage = "purge" THEN "tomb" ELSE "select"]]
  /\ UNCHANGED <<dbVars, diskVars, archive, phase, index, counter, backendError, localError,
                 auxVars, faults>>

Skip(s) ==
  /\ NextUp(s) /\ op[s] = Free
  /\ round.stage = "stale"
  /\ round' = [round EXCEPT !.todo = @ \ {s}]
  /\ UNCHANGED <<dbVars, diskVars, archive, phase, index, counter, backendError, localError, op,
                 auxVars, faults>>

\* After a pass over everything writes are admitted again: recovered().
EndStage ==
  /\ phase = "up" /\ round # Off /\ round.todo = {} /\ ~Busy
  /\ round' = IF round.stage = "purge" THEN [stage |-> "all", todo |-> Sessions] ELSE Off
  /\ backendError' = (backendError /\ round.stage # "all")
  /\ UNCHANGED <<dbVars, diskVars, archive, phase, index, counter, localError, op, auxVars, faults>>

-----------------------------------------------------------------------------
(* Crash and recovery: EventSpool.__init__, EventStore.recover_spool *)

Memory(next) ==
  /\ phase' = next
  /\ counter' = [s \in Session |-> Absent]
  /\ op' = [s \in Session |-> Free]
  /\ round' = Off
  /\ backendError' = FALSE /\ localError' = FALSE

\* The process ends between any two effects; after a local error the operator
\* restarts it.  A failing recovery is a crash as well.
Crash ==
  /\ phase # "down"
  /\ (phase = "up" /\ localError /\ UNCHANGED faults) \/ Fault("crash")
  /\ Memory("down")
  /\ index' = [b \in Batch |-> Absent]
  /\ UNCHANGED <<dbVars, diskVars, archive, auxVars>>

\* The pod is replaced: the spool directory is empty.
Lose ==
  /\ phase = "down"
  /\ Fault("loss")
  /\ file' = [b \in Batch |-> None]
  /\ manifest' = [s \in Session |-> None]
  /\ chunk' = [s \in Session |-> None]
  /\ tomb' = [s \in Session |-> FALSE]
  /\ lost' = TRUE
  /\ UNCHANGED <<dbVars, archive, memVars, op, acked, withdrawn>>

Start ==
  /\ phase = "down"
  /\ Memory("purging")
  /\ index' = [b \in Batch |-> IF file[b] # None THEN 0 ELSE Absent]
  /\ chunk' = [s \in Session |-> IF manifest[s] # None THEN chunk[s] ELSE None]
  /\ UNCHANGED <<dbVars, file, manifest, tomb, archive, auxVars, faults>>

ResumeDeletion(s) ==
  /\ phase = "purging" /\ \A t \in Session : op[t] = Free
  /\ tomb[s]
  /\ op' = [op EXCEPT ![s] = [Free EXCEPT !.pc = "tomb", !.by = "startup"]]
  /\ UNCHANGED <<dbVars, diskVars, archive, memVars, auxVars, faults>>

Purged ==
  /\ phase = "purging" /\ \A s \in Session : op[s] = Free /\ ~tomb[s]
  /\ phase' = "assigning"
  /\ UNCHANGED <<dbVars, diskVars, archive, index, counter, round, backendError, localError, op,
                 auxVars, faults>>

Reassign(b) ==
  /\ phase = "assigning" /\ index[b] = 0
  /\ AssignBatch(b)
  /\ UNCHANGED <<diskVars, archive, phase, round, backendError, localError, op, auxVars, faults>>

Adrift == {b \in Batch : resv[b] # None /\ resv[b].status = "pending" /\ index[b] = Absent}

InArchive(b, payload, first) ==
  \E c \in archive[SessionOf[b]] : [batch |-> b, payload |-> payload, first |-> first] \in c.segs

Verified(b) == InArchive(b, resv[b].payload, resv[b].first)

\* A receipt whose batch is not in the spool is settled by the archive, ...
Verify(b) ==
  /\ phase = "assigning" /\ \A c \in Batch : index[c] # 0
  /\ b \in Adrift /\ Verified(b)
  /\ resv' = [resv EXCEPT ![b].status = "archived"]
  /\ UNCHANGED <<lastSeq, diskVars, archive, memVars, op, auxVars, faults>>

\* ... or the service does not start.
RefuseStart ==
  /\ phase = "assigning" /\ \A c \in Batch : index[c] # 0
  /\ \E b \in Adrift : ~Verified(b)
  /\ Memory("down")
  /\ index' = [b \in Batch |-> Absent]
  /\ UNCHANGED <<dbVars, diskVars, archive, auxVars, faults>>

Serve ==
  /\ phase = "assigning" /\ \A c \in Batch : index[c] # 0
  /\ Adrift = {}
  /\ phase' = "up"
  /\ UNCHANGED <<dbVars, diskVars, archive, index, counter, round, backendError, localError, op,
                 auxVars, faults>>

-----------------------------------------------------------------------------
\* What the thread that holds the session's lock does by itself.
OpStep(s) ==
  \/ \E b \in Batch : AssignOld(s, b) \/ Retire(s, b) \/ Clear(s, b)
  \/ \E ids \in SUBSET Batch : Select(s, ids)
  \/ OldAssigned(s) \/ Prepare(s) \/ Assign(s) \/ Due(s) \/ Reply(s) \/ Refuse(s)
  \/ Resume(s) \/ Exported(s) \/ Blocked(s) \/ Seal(s) \/ Digest(s) \/ Upload(s)
  \/ Confirm(s) \/ RetireManifest(s) \/ RetireChunk(s)
  \/ WriteTomb(s) \/ Wipe(s) \/ Invalidate(s)
  \/ ClearManifest(s) \/ ClearChunk(s) \/ ClearTomb(s)

Fails(s) ==
  \/ \E b \in Batch : AssignFails(s, b)
  \/ ReadFails(s) \/ ReceiptFails(s) \/ DiskFails(s) \/ UploadFails(s) \/ WipeFails(s)

Recover ==
  \/ Start \/ Purged \/ RefuseStart \/ Serve
  \/ \E s \in Session : ResumeDeletion(s)
  \/ \E b \in Batch : Reassign(b) \/ Verify(b)

Client ==
  \/ \E b \in Batch, v \in Payload : Append(b, v) \/ Replay(b, v)
  \/ \E s \in Session : Flush(s) \/ Delete(s)

Next ==
  \/ Client \/ Recover \/ Crash \/ Lose \/ ProbeFails \/ StartRound \/ EndStage
  \/ \E s \in Session : OpStep(s) \/ Fails(s) \/ Visit(s) \/ Skip(s)

Spec == Init /\ [][Next]_vars

\* A thread that holds a lock goes on, the flusher runs every second and gets a
\* lock that is free again and again, a batch reaches its age, and the process is
\* started again.  Nothing is assumed of clients or faults.
LiveSpec ==
  /\ Spec
  /\ \A s \in Session : WF_vars(OpStep(s)) /\ SF_vars(Visit(s))
  /\ \A s \in Session : SF_vars(Skip(s) /\ Records(s) = {})
  /\ WF_vars(StartRound) /\ WF_vars(EndStage) /\ WF_vars(Recover)

-----------------------------------------------------------------------------
(* Properties *)

\* Safety, through crashes, lost answers, failed steps and retries: what a client
\* was told of a batch stays true.  Its receipt keeps payload and place, and the
\* events are in the spool or in the archive at that place.  If the spool was
\* lost, the service does not serve until that has been established.
AckedNeverLost ==
  \A b \in Batch :
    acked[b] # None /\ b \notin withdrawn /\ (lost => phase = "up") =>
      /\ resv[b] # None
      /\ resv[b].payload = acked[b].payload /\ resv[b].first = acked[b].first
      /\ file[b] = acked[b].payload \/ InArchive(b, acked[b].payload, acked[b].first)

\* Safety: however often a frozen export is retried, a chunk holds each batch at
\* the place of its receipt, and no two chunks of a session overlap.
ArchiveMatchesReceipts ==
  \A s \in Session :
    /\ \A c \in archive[s] : \A g \in c.segs :
         /\ resv[g.batch] # None
         /\ resv[g.batch].payload = g.payload /\ resv[g.batch].first = g.first
    /\ \A c, d \in archive[s] : c = d \/ c.last < d.first \/ d.last < c.first

\* Safety: once a deletion is over, nothing of the recording is left, or comes
\* back with a restart or a retry.
DeletedStaysDeleted ==
  \A b \in Batch :
    resv[b] # None /\ resv[b].status = "deleted" /\ ~tomb[SessionOf[b]] =>
      /\ file[b] = None
      /\ manifest[SessionOf[b]] # None => b \notin manifest[SessionOf[b]].ids
      /\ \A c \in archive[SessionOf[b]] : \A g \in c.segs : g.batch # b

\* Liveness: an acknowledged batch reaches the archive, or its recording is
\* deleted; the flush interval bounds the delay.
EventuallyArchived ==
  \A b \in Batch :
    acked[b] # None ~> (resv[b] # None /\ resv[b].status # "pending")

\* Liveness: writes closed by a failure of the archive are admitted again.
WritesReopen == (phase = "up" /\ backendError) ~> ~backendError
=============================================================================
