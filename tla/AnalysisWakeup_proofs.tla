----------------------- MODULE AnalysisWakeup_proofs -----------------------
(* Theorems about AnalysisWakeup, for every value of its constants. *)
EXTENDS AnalysisWakeup, TLAPS

\* A row that somebody is being told of, or will find without being told.
Announced(r) == HintUnderWay \/ r \in silent

\* Every open row is announced, or skipped, or a timer that covers these rows goes off
\* with it.
Guarded(rows, past) ==
  \A r \in Row : Open(r) => Announced(r) \/ r \in past \/ (~due[r] /\ r \in rows)

\* A worker that waits, ...
Resting == \A w \in Worker : at[w] = "waiting" /\ ~woken[w] => Guarded(covers[w], skips[w])

\* ... what the next one to wait relies on without reading the tables, ...
Remembered == Fresh => Guarded(cover, skip)

\* ... and what one has read that is about to wait unless a row is claimable.
Reading ==
  \A w \in Worker : turn = w /\ phase = "claim" =>
    \A r \in Row : Open(r) => Announced(r) \/ due[r] \/ r \in skips[w]

\* A worker inside claim's body has no timer that could go off.
Inside == \A w \in Worker : turn = w => at[w] = "inside" /\ covers[w] = {}

WakeInv == TypeOK /\ Resting /\ Remembered /\ Reading /\ Inside

-----------------------------------------------------------------------------
(* Types *)

LEMMA InitTyped == Init => TypeOK
<1> SUFFICES ASSUME Init PROVE TypeOK
  OBVIOUS
<1>1. faults \in 0..MaxFaults
  BY WakeupAssumption DEF Init
<1>2. /\ status \in [Row -> {"absent", "pending", "running"}]
      /\ due \in [Row -> BOOLEAN] /\ stale \in [Row -> BOOLEAN]
      /\ runner \in [Row -> Worker \cup {Other, Nobody}]
  BY DEF Init
<1>3. /\ at \in [Worker -> {"out", "waiting", "inside", "busy"}]
      /\ woken \in [Worker -> BOOLEAN] /\ covers \in [Worker -> SUBSET Row]
      /\ skips \in [Worker -> SUBSET Row]
  BY DEF Init
<1>4. <<unchecked, expired, overdue, draining>> \in BOOLEAN \X BOOLEAN \X BOOLEAN \X BOOLEAN
  BY DEF Init
<1> QED BY <1>1, <1>2, <1>3, <1>4 DEF Init, TypeOK

LEMMA HintsTyped ==
  ASSUME TypeOK, Notify \/ Deliver \/ Listen \/ Heard \/ Disconnect \/ Fallback
  PROVE  TypeOK'
<1>1. CASE Notify
  BY <1>1 DEF TypeOK, Notify, rowVars, sleepVars, stateVars
<1>2. ASSUME NEW S \in SUBSET Worker, Wake(S)
      PROVE  /\ woken' \in [Worker -> BOOLEAN] /\ covers' \in [Worker -> SUBSET Row]
             /\ skips' \in [Worker -> SUBSET Row]
  BY <1>2 DEF TypeOK, Wake
<1>3. Waiting \in SUBSET Worker
  BY DEF Waiting
<1>4. CASE Deliver
  BY <1>2, <1>3, <1>4 DEF TypeOK, Deliver, Invalidate, rowVars
<1>5. CASE Listen
  BY <1>2, <1>3, <1>5 DEF TypeOK, Listen, Invalidate, rowVars
<1>6. CASE Heard
  BY <1>2, <1>3, <1>6 DEF TypeOK, Heard, Invalidate, rowVars
<1>7. CASE Disconnect
  <2>1. faults' \in 0..MaxFaults
    BY <1>7, WakeupAssumption DEF TypeOK, Disconnect
  <2> QED BY <1>2, <1>3, <1>7, <2>1 DEF TypeOK, Disconnect, Invalidate, rowVars
<1>8. CASE Fallback
  BY <1>2, <1>3, <1>8 DEF TypeOK, Fallback, rowVars, hintVars
<1> QED BY <1>1, <1>4, <1>5, <1>6, <1>7, <1>8

LEMMA LoopTyped ==
  ASSUME TypeOK, NEW w \in Worker, LoopStep(w)
  PROVE  TypeOK'
<1>1. CASE Enter(w)
  <2>1. Backlog \in {"mend", "drain"}
    BY DEF Backlog
  <2> QED BY <1>1, <2>1 DEF TypeOK, Enter, Go, Sleep, rowVars, stateVars, hintVars
<1>2. ASSUME Recover
      PROVE  /\ status' \in [Row -> {"absent", "pending", "running"}]
             /\ due' \in [Row -> BOOLEAN] /\ stale' \in [Row -> BOOLEAN]
             /\ runner' \in [Row -> Worker \cup {Other, Nobody}]
             /\ overdue' \in BOOLEAN /\ leases' \in SUBSET Row
             /\ committed' \in BOOLEAN /\ wire' \in BOOLEAN
             /\ pending' \in BOOLEAN /\ listening' \in BOOLEAN
  BY <1>2 DEF TypeOK, Recover
<1>3. CASE Mend(w)
  BY <1>2, <1>3 DEF TypeOK, Mend, sleepVars
<1>4. ASSUME NEW r \in Row, Take(w, r)
      PROVE  /\ status' \in [Row -> {"absent", "pending", "running"}]
             /\ due' \in [Row -> BOOLEAN] /\ stale' \in [Row -> BOOLEAN]
             /\ runner' \in [Row -> Worker \cup {Other, Nobody}]
             /\ at' \in [Worker -> {"out", "waiting", "inside", "busy"}]
             /\ woken' \in [Worker -> BOOLEAN] /\ covers' \in [Worker -> SUBSET Row]
             /\ skips' \in [Worker -> SUBSET Row]
             /\ turn' = Nobody /\ phase' = "none"
             /\ silent' \in SUBSET Row
  BY <1>4 DEF TypeOK, Take
<1>5. CASE Drain(w)
  BY <1>4, <1>5 DEF TypeOK, Drain, hintVars, rowVars, sleepVars
<1>6. Watched \in SUBSET Row /\ Ahead \in SUBSET Row
  BY DEF Watched, Ahead
<1>7. CASE Look(w)
  <2>1. Recover /\ UNCHANGED <<draining, silent, faults>>
    BY <1>7 DEF Look
  <2>2. CASE /\ Sleep(w, Watched, {})
             /\ unchecked' = FALSE /\ expired' = FALSE
             /\ cover' = Watched /\ skip' = {}
    BY <1>2, <1>6, <2>1, <2>2 DEF TypeOK, Sleep
  <2>3. CASE /\ phase' = "claim" /\ skips' = [skips EXCEPT ![w] = Ahead]
             /\ UNCHANGED <<turn, at, woken, covers, unchecked, expired, cover, skip>>
    BY <1>2, <1>6, <2>1, <2>3 DEF TypeOK
  <2> QED BY <1>7, <2>2, <2>3 DEF Look
<1>8. CASE Claim(w)
  <2>1. UNCHANGED <<overdue, leases, hintVars, faults>>
    BY <1>8 DEF Claim
  <2>2. CASE \E r \in Row : Take(w, r) /\ draining' = TRUE /\ UNCHANGED <<unchecked, expired, cover, skip>>
    BY <1>4, <2>1, <2>2 DEF TypeOK, hintVars
  <2>3. CASE /\ Sleep(w, {}, skips[w])
             /\ unchecked' = FALSE /\ expired' = FALSE
             /\ cover' = {} /\ skip' = skips[w]
             /\ UNCHANGED <<rowVars, draining, silent>>
    BY <2>1, <2>3 DEF TypeOK, Sleep, hintVars, rowVars
  <2> QED BY <1>8, <2>2, <2>3 DEF Claim
<1> QED BY <1>1, <1>3, <1>5, <1>7, <1>8 DEF LoopStep

LEMMA EndTyped ==
  ASSUME TypeOK, NEW r \in Row, End(r)
  PROVE  /\ status' \in [Row -> {"absent", "pending", "running"}]
         /\ due' \in [Row -> BOOLEAN] /\ stale' \in [Row -> BOOLEAN]
         /\ runner' \in [Row -> Worker \cup {Other, Nobody}]
BY DEF TypeOK, End

LEMMA FinishTyped ==
  ASSUME TypeOK, NEW w \in Worker, Finish(w)
  PROVE  TypeOK'
<1>1. /\ status' \in [Row -> {"absent", "pending", "running"}]
      /\ due' \in [Row -> BOOLEAN] /\ stale' \in [Row -> BOOLEAN]
      /\ runner' \in [Row -> Worker \cup {Other, Nobody}]
  BY EndTyped DEF Finish, TypeOK, rowVars
<1>2. Hinted /\ at' = [at EXCEPT ![w] = "out"]
      /\ UNCHANGED <<woken, covers, skips, turn, phase, stateVars, silent, faults>>
  BY DEF Finish
<1> QED BY <1>1, <1>2 DEF TypeOK, Hinted, stateVars

LEMMA RowsTyped ==
  ASSUME TypeOK, NEW r \in Row,
         \/ Due(r) \/ Lapse(r) \/ Enqueue(r) \/ OtherEnqueue(r) \/ OtherClaim(r)
         \/ OtherFinish(r) \/ OptOut(r)
  PROVE  TypeOK'
<1>1. ASSUME GoesOff(r)
      PROVE  /\ expired' \in BOOLEAN /\ cover' \in SUBSET Row /\ skip' \in SUBSET Row
             /\ skips' \in [Worker -> SUBSET Row]
             /\ woken' \in [Worker -> BOOLEAN] /\ covers' \in [Worker -> SUBSET Row]
  BY <1>1 DEF TypeOK, GoesOff, Wake
<1>2. CASE Due(r)
  BY <1>1, <1>2 DEF TypeOK, Due, hintVars
<1>3. CASE Lapse(r)
  <2>1. faults' \in 0..MaxFaults
    BY <1>3, WakeupAssumption DEF TypeOK, Lapse
  <2>2. stale' \in [Row -> BOOLEAN] /\ overdue' \in BOOLEAN /\ leases' \in SUBSET Row
    BY <1>3 DEF TypeOK, Lapse
  <2>3. /\ GoesOff(r)
        /\ UNCHANGED <<status, due, runner, at, turn, phase, unchecked, draining, hintVars, silent>>
    BY <1>3 DEF Lapse
  <2> QED BY <1>1, <2>1, <2>2, <2>3 DEF TypeOK, hintVars
<1>4. ASSUME Put(r)
      PROVE  status' \in [Row -> {"absent", "pending", "running"}]
             /\ due' \in [Row -> BOOLEAN] /\ stale' = stale /\ runner' = runner
  BY <1>4 DEF TypeOK, Put
<1>5. CASE Enqueue(r)
  BY <1>4, <1>5 DEF TypeOK, Enqueue, Hinted, sleepVars, stateVars
<1>6. ASSUME NEW S \in SUBSET Row, Unheard(S)
      PROVE  silent' \in SUBSET Row
  BY <1>6 DEF TypeOK, Unheard
<1>7. CASE OtherEnqueue(r)
  BY <1>4, <1>6, <1>7 DEF TypeOK, OtherEnqueue, Remote, sleepVars, stateVars
<1>8. CASE OtherClaim(r)
  BY <1>8 DEF TypeOK, OtherClaim, Unhinted, hintVars, sleepVars, stateVars
<1>9. CASE OtherFinish(r)
  BY EndTyped, <1>6, <1>9 DEF TypeOK, OtherFinish, Remote, sleepVars, stateVars
<1>10. CASE OptOut(r)
  BY <1>10 DEF TypeOK, OptOut, Unhinted, hintVars, sleepVars, stateVars
<1> QED BY <1>2, <1>3, <1>5, <1>7, <1>8, <1>9, <1>10

LEMMA NextTyped == TypeOK /\ [Next]_wakeVars => TypeOK'
<1> SUFFICES ASSUME TypeOK, [Next]_wakeVars PROVE TypeOK'
  OBVIOUS
<1>1. CASE \E w \in Worker : LoopStep(w)
  BY <1>1, LoopTyped
<1>2. CASE \E w \in Worker : Finish(w)
  BY <1>2, FinishTyped
<1>3. CASE \E r \in Row : \/ Due(r) \/ Lapse(r)
                          \/ Enqueue(r) \/ OtherEnqueue(r) \/ OtherClaim(r) \/ OtherFinish(r)
                          \/ OptOut(r)
  BY <1>3, RowsTyped
<1>4. CASE Notify \/ Deliver \/ Listen \/ Heard \/ Disconnect \/ Fallback
  BY <1>4, HintsTyped
<1>5. CASE UNCHANGED wakeVars
  BY <1>5 DEF TypeOK, wakeVars, rowVars, sleepVars, stateVars, hintVars
<1> QED BY <1>1, <1>2, <1>3, <1>4, <1>5 DEF Next

\* Every variable of the wakeup keeps its type (queue_wakeup.py, AnalysisWakeup).
THEOREM WakeupTyped == Spec => []TypeOK
BY InitTyped, NextTyped, PTL DEF Spec
-----------------------------------------------------------------------------
(* No wakeup is lost *)

\* What a step may do to the rows: one that is open now and was not, or was not as
\* due as it is, is announced; so is one that was announced.
RowsKept ==
  \A r \in Row : Open(r)' =>
    \/ Announced(r)'
    \/ Open(r) /\ ~Announced(r) /\ due'[r] = due[r]

\* ... and to what is known of them: nobody relies on more than before.
KnowledgeKept ==
  /\ \A w \in Worker : at'[w] = "waiting" /\ ~woken'[w] =>
       /\ at[w] = "waiting" /\ ~woken[w]
       /\ covers'[w] = covers[w] /\ skips'[w] = skips[w]
  /\ \A w \in Worker : turn' = w /\ phase' = "claim" =>
       turn = w /\ phase = "claim" /\ skips'[w] = skips[w]
  /\ Fresh' => Fresh /\ cover' = cover /\ skip' = skip

LEMMA Kept ==
  ASSUME Resting, Remembered, Reading, RowsKept, KnowledgeKept
  PROVE  Resting' /\ Remembered' /\ Reading'
<1>1. ASSUME NEW S, NEW O, Guarded(S, O)
      PROVE  \A r \in Row : Open(r)' => Announced(r)' \/ r \in O \/ (~due'[r] /\ r \in S)
  BY <1>1 DEF Guarded, RowsKept
<1>2. Resting'
  <2> SUFFICES ASSUME NEW w \in Worker, at'[w] = "waiting", ~woken'[w]
               PROVE  \A r \in Row : Open(r)' =>
                        Announced(r)' \/ r \in skips'[w] \/ (~due'[r] /\ r \in covers'[w])
    BY DEF Resting, Guarded
  <2>1. /\ Guarded(covers[w], skips[w])
        /\ covers'[w] = covers[w] /\ skips'[w] = skips[w]
    BY DEF KnowledgeKept, Resting
  <2> QED BY <1>1, <2>1
<1>3. Remembered'
  <2> SUFFICES ASSUME Fresh'
               PROVE  \A r \in Row : Open(r)' =>
                        Announced(r)' \/ r \in skip' \/ (~due'[r] /\ r \in cover')
    BY DEF Remembered, Guarded
  <2>1. Guarded(cover, skip) /\ cover' = cover /\ skip' = skip
    BY DEF KnowledgeKept, Remembered
  <2> QED BY <1>1, <2>1
<1>4. Reading'
  <2> SUFFICES ASSUME NEW w \in Worker, turn' = w, phase' = "claim",
                      NEW r \in Row, Open(r)'
               PROVE  Announced(r)' \/ due'[r] \/ r \in skips'[w]
    BY DEF Reading
  <2>1. turn = w /\ phase = "claim" /\ skips'[w] = skips[w]
    BY DEF KnowledgeKept
  <2> QED BY <2>1 DEF Reading, RowsKept
<1> QED BY <1>2, <1>3, <1>4

LEMMA SameKnowledge ==
  ASSUME UNCHANGED <<at, woken, covers, skips, turn, phase, unchecked, expired, cover, skip>>
  PROVE  KnowledgeKept
BY DEF KnowledgeKept, Fresh

\* Lease recovery announces what it opens.
LEMMA RecoverKeepsRows ==
  ASSUME TypeOK, Recover, silent' = silent
  PROVE  RowsKept
<1>1. CASE Lapsed = {}
  <2>1. status' = status /\ due' = due
    BY <1>1 DEF Recover, TypeOK
  <2>2. \A r \in Row : Open(r)' <=> Open(r)
    BY <2>1 DEF Open, Blocked
  <2>3. HintUnderWay => HintUnderWay'
    BY DEF Recover, HintUnderWay
  <2> QED BY <2>1, <2>2, <2>3 DEF RowsKept, Announced
<1>2. CASE Lapsed # {}
  BY <1>2 DEF Recover, RowsKept, Announced, HintUnderWay
<1> QED BY <1>1, <1>2

\* A claim opens nothing.
LEMMA TakeKeepsRows ==
  ASSUME TypeOK, NEW t \in Row, Claimable(t),
         status' = [status EXCEPT ![t] = "running"], due' = due,
         silent' = silent \ {t}, UNCHANGED <<committed, pending, wire>>
  PROVE  RowsKept
<1> SUFFICES ASSUME NEW r \in Row, Open(r)'
             PROVE  Announced(r)' \/ (Open(r) /\ ~Announced(r) /\ due'[r] = due[r])
  BY DEF RowsKept
<1>1. r # t
  BY DEF Open, TypeOK
<1>2. ~Blocked(r)
  BY <1>1, WakeupAssumption DEF Open, Blocked, Claimable, TypeOK
<1>3. Open(r)
  BY <1>1, <1>2 DEF Open, TypeOK
<1>4. Announced(r) => Announced(r)'
  BY <1>1 DEF Announced, HintUnderWay
<1> QED BY <1>3, <1>4

LEMMA LoopStepKeeps ==
  ASSUME WakeInv, NEW w \in Worker, LoopStep(w)
  PROVE  Resting' /\ Remembered' /\ Reading'
<1> USE DEF WakeInv
<1>1. ASSUME UNCHANGED <<rowVars, hintVars, silent>>
      PROVE  /\ RowsKept
             /\ \A r \in Row : (Open(r)' <=> Open(r)) /\ (Announced(r)' <=> Announced(r))
             /\ due' = due
  <2>1. \A r \in Row : Open(r)' <=> Open(r)
    BY <1>1 DEF rowVars, Open, Blocked
  <2>2. \A r \in Row : Announced(r)' <=> Announced(r)
    BY <1>1 DEF hintVars, Announced, HintUnderWay
  <2> QED BY <1>1, <2>1, <2>2 DEF RowsKept, rowVars
<1>2. CASE Enter(w)
  <2>1. CASE Sleep(w, cover, skip) /\ Fresh
    <3>1. UNCHANGED <<rowVars, hintVars, silent, unchecked, expired, cover, skip>>
      BY <1>2 DEF Enter, stateVars
    <3>2. Guarded(cover, skip) /\ Guarded(cover, skip)'
      BY <1>1, <2>1, <3>1 DEF Remembered, Guarded
    <3>3. Remembered'
      BY <3>2 DEF Remembered
    <3>4. Resting'
      <4> SUFFICES ASSUME NEW v \in Worker, at'[v] = "waiting", ~woken'[v]
                   PROVE  Guarded(covers[v], skips[v])'
        BY DEF Resting
      <4>1. CASE v = w
        BY <2>1, <3>1, <3>2, <4>1 DEF Sleep, TypeOK
      <4>2. CASE v # w
        <5>1. /\ at[v] = "waiting" /\ ~woken[v]
              /\ covers'[v] = covers[v] /\ skips'[v] = skips[v]
          BY <2>1, <4>2 DEF Sleep, TypeOK
        <5>2. Guarded(covers[v], skips[v])
          BY <5>1 DEF Resting
        <5> QED BY <1>1, <3>1, <5>1, <5>2 DEF Guarded
      <4> QED BY <4>1, <4>2
    <3>5. Reading'
      BY <2>1, WakeupAssumption DEF Sleep, Reading
    <3> QED BY <3>3, <3>4, <3>5
  <2>2. ASSUME NEW p \in {"mend", "drain", "look"}, Go(w, p)
        PROVE  Resting' /\ Remembered' /\ Reading'
    <3>1. UNCHANGED <<rowVars, hintVars, silent, unchecked, expired, cover, skip>>
      BY <1>2 DEF Enter, stateVars
    <3>2. KnowledgeKept
      BY <2>2, <3>1 DEF Go, KnowledgeKept, Fresh, TypeOK
    <3> QED BY <1>1, <3>1, <3>2, Kept
  <2>3. Backlog \in {"mend", "drain"}
    BY DEF Backlog
  <2> QED BY <1>2, <2>1, <2>2, <2>3 DEF Enter
<1>3. CASE Mend(w)
  <2>1. RowsKept
    BY <1>3, RecoverKeepsRows DEF Mend
  <2>2. KnowledgeKept
    BY <1>3 DEF Mend, sleepVars, KnowledgeKept, Fresh
  <2> QED BY <2>1, <2>2, Kept
<1>4. ASSUME NEW t \in Row, Take(w, t)
      PROVE  /\ \A v \in Worker : at'[v] = "waiting" /\ ~woken'[v] =>
                  /\ at[v] = "waiting" /\ ~woken[v]
                  /\ covers'[v] = covers[v] /\ skips'[v] = skips[v]
             /\ turn' \notin Worker
  BY <1>4, WakeupAssumption DEF Take, TypeOK
<1>5. CASE Drain(w)
  <2>1. CASE \E t \in Row : Take(w, t) /\ UNCHANGED <<unchecked, draining>>
    <3>1. PICK t \in Row : Take(w, t) /\ UNCHANGED unchecked
      BY <2>1
    <3>2. UNCHANGED <<expired, cover, skip, committed, pending, wire>>
      BY <1>5 DEF Drain, hintVars
    <3>3. RowsKept
      BY <3>1, <3>2, TakeKeepsRows DEF Take
    <3>4. KnowledgeKept
      BY <1>4, <3>1, <3>2 DEF KnowledgeKept, Fresh
    <3> QED BY <3>3, <3>4, Kept
  <2>2. CASE unchecked' = TRUE /\ phase' = "look" /\ UNCHANGED <<rowVars, sleepVars, turn, silent>>
    <3>1. KnowledgeKept
      BY <2>2 DEF KnowledgeKept, Fresh, sleepVars
    <3>2. UNCHANGED hintVars
      BY <1>5 DEF Drain
    <3> QED BY <1>1, <2>2, <3>1, <3>2, Kept
  <2> QED BY <1>5, <2>1, <2>2 DEF Drain
<1>6. CASE Look(w)
  <2>1. RowsKept
    BY <1>6, RecoverKeepsRows DEF Look
  <2>2. CASE NothingClaimable /\ Lapsed = {}
    <3>1. status' = status /\ due' = due
      BY <1>6, <2>2 DEF Look, Recover, TypeOK
    <3>2. \A r \in Row : Open(r)' => ~due'[r] /\ r \in Watched
      BY <2>2, <3>1 DEF NothingClaimable, Claimable, Watched, Open, Blocked
    <3>3. Sleep(w, Watched, {}) /\ cover' = Watched
      BY <1>6, <2>2 DEF Look
    <3>4. Remembered'
      BY <3>2, <3>3 DEF Remembered, Guarded
    <3>5. Resting'
      <4> SUFFICES ASSUME NEW v \in Worker, at'[v] = "waiting", ~woken'[v], NEW r \in Row, Open(r)'
                   PROVE  Announced(r)' \/ r \in skips'[v] \/ (~due'[r] /\ r \in covers'[v])
        BY DEF Resting, Guarded
      <4>1. CASE v = w
        BY <3>2, <3>3, <4>1 DEF Sleep, TypeOK
      <4>2. CASE v # w
        <5>1. /\ at[v] = "waiting" /\ ~woken[v]
              /\ covers'[v] = covers[v] /\ skips'[v] = skips[v]
          BY <3>3, <4>2 DEF Sleep, TypeOK
        <5> QED BY <2>1, <5>1 DEF Resting, Guarded, RowsKept
      <4> QED BY <4>1, <4>2
    <3>6. Reading'
      BY <3>3, WakeupAssumption DEF Sleep, Reading
    <3> QED BY <3>4, <3>5, <3>6
  <2>3. CASE ~(NothingClaimable /\ Lapsed = {})
    <3>1. /\ phase' = "claim" /\ skips' = [skips EXCEPT ![w] = Ahead]
          /\ UNCHANGED <<turn, at, woken, covers, unchecked, expired, cover, skip>> /\ turn = w
      BY <1>6, <2>3 DEF Look
    <3>2. Remembered'
      <4>1. ASSUME Fresh', NEW r \in Row, Open(r)'
            PROVE  Announced(r)' \/ r \in skip' \/ (~due'[r] /\ r \in cover')
        BY <2>1, <3>1, <4>1 DEF Remembered, Guarded, RowsKept, Fresh
      <4> QED BY <4>1 DEF Remembered, Guarded
    <3>3. Reading'
      <4> SUFFICES ASSUME NEW v \in Worker, turn' = v,
                          NEW r \in Row, Open(r)', ~Announced(r)', ~due'[r]
                   PROVE  r \in skips'[v]
        BY DEF Reading
      <4>1. r \in Ahead
        BY <2>1 DEF RowsKept, Ahead
      <4> QED BY <3>1, <4>1 DEF TypeOK
    <3>4. Resting'
      <4> SUFFICES ASSUME NEW v \in Worker, at'[v] = "waiting", ~woken'[v], NEW r \in Row, Open(r)'
                   PROVE  Announced(r)' \/ r \in skips'[v] \/ (~due'[r] /\ r \in covers'[v])
        BY DEF Resting, Guarded
      <4>1. at[v] = "waiting" /\ ~woken[v] /\ covers'[v] = covers[v]
        BY <3>1
      <4>2. v # w
        BY <3>1, <4>1 DEF Inside
      <4>3. skips'[v] = skips[v]
        BY <3>1, <4>2 DEF TypeOK
      <4>4. Guarded(covers[v], skips[v])
        BY <4>1 DEF Resting
      <4> QED BY <2>1, <4>1, <4>3, <4>4 DEF Guarded, RowsKept
    <3> QED BY <3>2, <3>3, <3>4
  <2> QED BY <2>2, <2>3
<1>7. CASE Claim(w)
  <2>1. CASE \E t \in Row : Take(w, t) /\ UNCHANGED <<unchecked, expired, cover, skip>>
    <3>1. PICK t \in Row : Take(w, t) /\ UNCHANGED <<unchecked, expired, cover, skip>>
      BY <2>1
    <3>2. UNCHANGED <<committed, pending, wire>>
      BY <1>7 DEF Claim, hintVars
    <3>3. RowsKept
      BY <3>1, <3>2, TakeKeepsRows DEF Take
    <3>4. KnowledgeKept
      BY <1>4, <3>1 DEF KnowledgeKept, Fresh
    <3> QED BY <3>3, <3>4, Kept
  <2>2. CASE /\ NothingClaimable
             /\ Sleep(w, {}, skips[w])
             /\ cover' = {} /\ skip' = skips[w]
             /\ UNCHANGED <<rowVars, silent>>
    <3>1. UNCHANGED hintVars /\ turn = w /\ phase = "claim"
      BY <1>7 DEF Claim
    <3>2. \A r \in Row : Open(r)' => Announced(r)' \/ r \in skips[w]
      BY <1>1, <2>2, <3>1 DEF Reading, NothingClaimable, Claimable
    <3>3. Remembered'
      BY <2>2, <3>2 DEF Remembered, Guarded
    <3>4. Resting'
      <4> SUFFICES ASSUME NEW v \in Worker, at'[v] = "waiting", ~woken'[v]
                   PROVE  Guarded(covers[v], skips[v])'
        BY DEF Resting
      <4>1. CASE v = w
        <5>1. skips'[v] = skips[w]
          BY <2>2, <4>1 DEF Sleep, TypeOK
        <5> QED BY <3>2, <5>1 DEF Guarded
      <4>2. CASE v # w
        <5>1. /\ at[v] = "waiting" /\ ~woken[v]
              /\ covers'[v] = covers[v] /\ skips'[v] = skips[v]
          BY <2>2, <4>2 DEF Sleep, TypeOK
        <5>2. Guarded(covers[v], skips[v])
          BY <5>1 DEF Resting
        <5> QED BY <1>1, <2>2, <3>1, <5>1, <5>2 DEF Guarded
      <4> QED BY <4>1, <4>2
    <3>5. Reading'
      BY <2>2, WakeupAssumption DEF Sleep, Reading
    <3> QED BY <3>3, <3>4, <3>5
  <2> QED BY <1>7, <2>1, <2>2 DEF Claim
<1> QED BY <1>2, <1>3, <1>5, <1>6, <1>7 DEF LoopStep

\* A hint that is delivered ends every wait, and what is remembered with them.
LEMMA InvalidateKeeps ==
  ASSUME TypeOK, Invalidate
  PROVE  Resting' /\ Remembered' /\ Reading'
<1>1. Resting'
  BY DEF Invalidate, Wake, Waiting, Resting
<1>2. Remembered'
  BY DEF Invalidate, Remembered, Fresh
<1>3. Reading'
  BY WakeupAssumption DEF Invalidate, LoopFree, Reading
<1> QED BY <1>1, <1>2, <1>3

LEMMA HintsKeep ==
  ASSUME WakeInv, Notify \/ Deliver \/ Listen \/ Heard \/ Disconnect \/ Fallback
  PROVE  Resting' /\ Remembered' /\ Reading'
<1> USE DEF WakeInv
<1>1. CASE Deliver \/ Listen \/ Heard \/ Disconnect
  BY <1>1, InvalidateKeeps DEF Deliver, Listen, Heard, Disconnect
<1>2. CASE Notify
  <2>1. RowsKept
    BY <1>2 DEF Notify, rowVars, RowsKept, Open, Blocked, Announced, HintUnderWay
  <2>2. KnowledgeKept
    BY <1>2, SameKnowledge DEF Notify, sleepVars, stateVars
  <2> QED BY <2>1, <2>2, Kept
<1>3. CASE Fallback
  <2>1. RowsKept
    BY <1>3 DEF Fallback, rowVars, hintVars, RowsKept, Open, Blocked, Announced, HintUnderWay
  <2>2. KnowledgeKept
    BY <1>3 DEF Fallback, Wake, Waiting, KnowledgeKept, Fresh, Inside
  <2> QED BY <2>1, <2>2, Kept
<1> QED BY <1>1, <1>2, <1>3

\* The end of a row opens those it held back, and itself.
LEMMA EndOpens ==
  ASSUME TypeOK, NEW t \in Row,
         \E s \in {"absent", "pending"} : status' = [status EXCEPT ![t] = s],
         due' = [due EXCEPT ![t] = FALSE],
         NEW r \in Row, r # t, Open(r)'
  PROVE  /\ due'[r] = due[r] /\ status[r] = "pending"
         /\ Open(r) \/ t \in Blockers[r]
<1>1. status'[r] = status[r] /\ due'[r] = due[r]
  BY DEF TypeOK
<1>2. \A b \in Blockers[r] : b # t => status'[b] = status[b] /\ due'[b] = due[b]
  BY WakeupAssumption DEF TypeOK
<1> QED BY <1>1, <1>2 DEF Open, Blocked

LEMMA RowStepKeeps ==
  ASSUME WakeInv, NEW t \in Row,
         \/ Due(t) \/ Lapse(t) \/ Enqueue(t) \/ OtherEnqueue(t) \/ OtherClaim(t)
         \/ OtherFinish(t) \/ OptOut(t)
  PROVE  Resting' /\ Remembered' /\ Reading'
<1> USE DEF WakeInv
<1>1. ASSUME GoesOff(t)
      PROVE  /\ \A w \in Worker : ~woken'[w] =>
                  /\ ~woken[w] /\ t \notin covers[w]
                  /\ covers'[w] = covers[w] /\ skips'[w] = skips[w]
             /\ \A w \in Worker : turn = w => skips'[w] = skips[w]
             /\ ~expired' => ~expired /\ t \notin cover /\ cover' = cover /\ skip' = skip
  BY <1>1 DEF GoesOff, Wake, TypeOK, Inside
<1>2. CASE Due(t)
  <2>1. /\ UNCHANGED <<at, turn, phase, unchecked, status, hintVars, silent>>
        /\ due' = [due EXCEPT ![t] = TRUE] /\ GoesOff(t)
    BY <1>2 DEF Due
  <2>2. \A r \in Row : Announced(r)' <=> Announced(r)
    BY <2>1 DEF Announced, HintUnderWay, hintVars
  <2>3. \A r \in Row : Open(r)' => Open(r)
    <3> SUFFICES ASSUME NEW r \in Row, Blocked(r) PROVE Blocked(r)'
      BY <2>1 DEF Open
    <3>1. PICK b \in Blockers[r] : status[b] = "running" \/ (status[b] = "pending" /\ due[b])
      BY DEF Blocked
    <3>2. due[b] => due'[b]
      BY <2>1, WakeupAssumption DEF TypeOK
    <3> QED BY <2>1, <3>1, <3>2 DEF Blocked
  <2>4. ASSUME NEW S, NEW O, Guarded(S, O), t \notin S
        PROVE  \A r \in Row : Open(r)' => Announced(r)' \/ r \in O \/ (~due'[r] /\ r \in S)
    <3> SUFFICES ASSUME NEW r \in Row, Open(r)', ~Announced(r)', r \notin O
                 PROVE  ~due'[r] /\ r \in S
      OBVIOUS
    <3>1. ~due[r] /\ r \in S
      BY <2>2, <2>3, <2>4 DEF Guarded
    <3> QED BY <2>1, <2>4, <3>1 DEF TypeOK
  <2>5. Resting'
    <3> SUFFICES ASSUME NEW w \in Worker, at'[w] = "waiting", ~woken'[w]
                 PROVE  \A r \in Row : Open(r)' =>
                          Announced(r)' \/ r \in skips'[w] \/ (~due'[r] /\ r \in covers'[w])
      BY DEF Resting, Guarded
    <3>1. /\ ~woken[w] /\ t \notin covers[w] /\ at[w] = "waiting"
          /\ covers'[w] = covers[w] /\ skips'[w] = skips[w]
      BY <1>1, <2>1
    <3>2. Guarded(covers[w], skips[w])
      BY <3>1 DEF Resting
    <3> QED BY <2>4, <3>1, <3>2
  <2>6. Remembered'
    <3> SUFFICES ASSUME Fresh'
                 PROVE  \A r \in Row : Open(r)' =>
                          Announced(r)' \/ r \in skip' \/ (~due'[r] /\ r \in cover')
      BY DEF Remembered, Guarded
    <3>1. Fresh /\ cover' = cover /\ skip' = skip /\ t \notin cover
      BY <1>1, <2>1 DEF Fresh
    <3>2. Guarded(cover, skip)
      BY <3>1 DEF Remembered
    <3> QED BY <2>4, <3>1, <3>2
  <2>7. Reading'
    <3> SUFFICES ASSUME NEW w \in Worker, turn' = w, phase' = "claim",
                        NEW r \in Row, Open(r)'
                 PROVE  Announced(r)' \/ due'[r] \/ r \in skips'[w]
      BY DEF Reading
    <3>1. skips'[w] = skips[w]
      BY <1>1, <2>1
    <3>2. Announced(r) \/ due[r] \/ r \in skips[w]
      BY <2>1, <2>3, <3>1 DEF Reading
    <3>3. due[r] => due'[r]
      BY <2>1 DEF TypeOK
    <3> QED BY <2>2, <3>1, <3>2, <3>3
  <2> QED BY <2>5, <2>6, <2>7
<1>3. CASE Lapse(t)
  <2>1. RowsKept
    BY <1>3 DEF Lapse, hintVars, RowsKept, Open, Blocked, Announced, HintUnderWay
  <2>2. UNCHANGED <<at, turn, phase, unchecked>> /\ GoesOff(t)
    BY <1>3 DEF Lapse
  <2>3. KnowledgeKept
    BY <1>1, <2>2 DEF KnowledgeKept, Fresh
  <2> QED BY <2>1, <2>3, Kept
<1>4. ASSUME RowsKept, UNCHANGED <<sleepVars, turn, phase, stateVars>>
      PROVE  Resting' /\ Remembered' /\ Reading'
  BY <1>4, SameKnowledge, Kept DEF sleepVars, stateVars
<1>5. CASE Enqueue(t)
  <2>1. RowsKept
    BY <1>5 DEF Enqueue, Hinted, RowsKept, Announced, HintUnderWay
  <2> QED BY <1>4, <1>5, <2>1 DEF Enqueue
<1>6. CASE OtherEnqueue(t)
  <2>1. RowsKept
    <3> SUFFICES ASSUME NEW r \in Row, Open(r)', ~Announced(r)'
                 PROVE  Open(r) /\ ~Announced(r) /\ due'[r] = due[r]
      BY DEF RowsKept
    <3>1. ~listening /\ silent' = silent \cup {t} /\ UNCHANGED <<committed, pending>> /\ wire' = wire
      BY <1>6 DEF OtherEnqueue, Remote, Unheard, Announced, HintUnderWay, TypeOK
    <3>2. r # t /\ ~Announced(r)
      BY <3>1 DEF Announced, HintUnderWay
    <3>3. /\ status[t] = "absent" /\ status' = [status EXCEPT ![t] = "pending"]
          /\ \E d \in BOOLEAN : due' = [due EXCEPT ![t] = d]
      BY <1>6 DEF OtherEnqueue, Put
    <3>4. \A x \in Row : x # t => status'[x] = status[x] /\ due'[x] = due[x]
      BY <3>3 DEF TypeOK
    <3>5. Blocked(r) => Blocked(r)'
      BY <3>3, <3>4, WakeupAssumption DEF Blocked
    <3> QED BY <3>2, <3>4, <3>5 DEF Open
  <2> QED BY <1>4, <1>6, <2>1 DEF OtherEnqueue
<1>7. CASE OtherClaim(t)
  <2>1. RowsKept
    BY <1>7, TakeKeepsRows DEF OtherClaim, Unhinted, hintVars
  <2> QED BY <1>4, <1>7, <2>1 DEF OtherClaim
<1>8. CASE OtherFinish(t)
  <2>1. RowsKept
    <3> SUFFICES ASSUME NEW r \in Row, Open(r)', ~Announced(r)'
                 PROVE  Open(r) /\ ~Announced(r) /\ due'[r] = due[r]
      BY DEF RowsKept
    <3>1. /\ silent' = silent \cup {x \in Row : t \in Blockers[x] /\ status[x] = "pending"} \cup {t}
          /\ UNCHANGED <<committed, pending>> /\ wire' = wire
      BY <1>8 DEF OtherFinish, Remote, Unheard, Announced, HintUnderWay, TypeOK
    <3>2. r # t /\ ~Announced(r) /\ ~(t \in Blockers[r] /\ status[r] = "pending")
      BY <3>1 DEF Announced, HintUnderWay
    <3>3. End(t)
      BY <1>8 DEF OtherFinish
    <3> QED BY <3>2, <3>3, EndOpens DEF End
  <2> QED BY <1>4, <1>8, <2>1 DEF OtherFinish
<1>9. CASE OptOut(t)
  <2>1. RowsKept
    <3> SUFFICES ASSUME NEW r \in Row, Open(r)', ~Announced(r)'
                 PROVE  Open(r) /\ ~Announced(r) /\ due'[r] = due[r]
      BY DEF RowsKept
    <3>1. /\ status' = [status EXCEPT ![t] = "absent"] /\ due' = [due EXCEPT ![t] = FALSE]
          /\ silent' = (silent \cup {x \in Row : t \in Blockers[x] /\ status[x] = "pending"}) \ {t}
          /\ UNCHANGED hintVars
      BY <1>9 DEF OptOut, Unhinted
    <3>2. r # t
      BY <3>1 DEF Open, TypeOK
    <3>3. ~Announced(r) /\ ~(t \in Blockers[r] /\ status[r] = "pending")
      BY <3>1, <3>2 DEF Announced, HintUnderWay, hintVars
    <3> QED BY <3>1, <3>2, <3>3, EndOpens
  <2> QED BY <1>4, <1>9, <2>1 DEF OptOut
<1> QED BY <1>2, <1>3, <1>5, <1>6, <1>7, <1>8, <1>9

LEMMA FinishKeeps ==
  ASSUME WakeInv, NEW w \in Worker, Finish(w)
  PROVE  Resting' /\ Remembered' /\ Reading'
<1>1. committed'
  BY DEF Finish, Hinted
<1>2. RowsKept
  BY <1>1 DEF RowsKept, Announced, HintUnderWay
<1>3. KnowledgeKept
  BY DEF Finish, stateVars, KnowledgeKept, Fresh, WakeInv, TypeOK
<1> QED BY <1>2, <1>3, Kept DEF WakeInv

LEMMA InsideKept == TypeOK /\ Inside /\ [Next]_wakeVars => Inside'
<1> SUFFICES ASSUME TypeOK, Inside, [Next]_wakeVars PROVE Inside'
  OBVIOUS
<1>1. ASSUME turn' = turn, at' = at,
             covers' = covers \/ \E S : Wake(S)
      PROVE  Inside'
  BY <1>1 DEF Inside, Wake
<1>2. ASSUME NEW w \in Worker, LoopStep(w)
      PROVE  Inside'
  <2>1. CASE Enter(w)
    BY <2>1, WakeupAssumption DEF Enter, Go, Sleep, Inside, TypeOK
  <2>2. CASE Mend(w)
    BY <1>1, <2>2 DEF Mend, sleepVars
  <2>3. ASSUME turn' = Nobody
        PROVE  Inside'
    BY <2>3, WakeupAssumption DEF Inside
  <2>4. CASE Drain(w)
    BY <1>1, <2>3, <2>4 DEF Drain, Take, sleepVars
  <2>5. CASE Look(w)
    BY <1>1, <2>3, <2>5 DEF Look, Sleep
  <2>6. CASE Claim(w)
    BY <2>3, <2>6 DEF Claim, Take, Sleep
  <2> QED BY <1>2, <2>1, <2>2, <2>4, <2>5, <2>6 DEF LoopStep
<1>3. ASSUME NEW w \in Worker, Finish(w)
      PROVE  Inside'
  BY <1>3, WakeupAssumption DEF Finish, Inside
<1>4. ASSUME NEW r \in Row,
             \/ Due(r) \/ Lapse(r) \/ Enqueue(r) \/ OtherEnqueue(r) \/ OtherClaim(r)
             \/ OtherFinish(r) \/ OptOut(r)
      PROVE  Inside'
  BY <1>1, <1>4 DEF Due, Lapse, GoesOff, Enqueue, OtherEnqueue, OtherClaim, OtherFinish,
                    OptOut, sleepVars
<1>5. CASE Notify \/ Deliver \/ Listen \/ Heard \/ Disconnect \/ Fallback
  BY <1>1, <1>5 DEF Notify, Deliver, Listen, Heard, Disconnect, Fallback, Invalidate, sleepVars
<1>6. CASE UNCHANGED wakeVars
  BY <1>1, <1>6 DEF wakeVars, sleepVars
<1> QED BY <1>2, <1>3, <1>4, <1>5, <1>6 DEF Next

LEMMA InitKnown == Init => WakeInv
<1> SUFFICES ASSUME Init PROVE WakeInv
  OBVIOUS
<1>1. Resting /\ Remembered /\ Reading /\ Inside
  BY WakeupAssumption DEF Init, Resting, Remembered, Reading, Inside, Fresh
<1> QED BY <1>1, InitTyped DEF WakeInv

LEMMA NextKnown == WakeInv /\ [Next]_wakeVars => WakeInv'
<1> SUFFICES ASSUME WakeInv, [Next]_wakeVars PROVE WakeInv'
  OBVIOUS
<1>1. TypeOK' /\ Inside'
  BY NextTyped, InsideKept DEF WakeInv
<1>2. CASE \E w \in Worker : LoopStep(w)
  BY <1>1, <1>2, LoopStepKeeps DEF WakeInv
<1>3. CASE \E w \in Worker : Finish(w)
  BY <1>1, <1>3, FinishKeeps DEF WakeInv
<1>4. CASE \E r \in Row : \/ Due(r) \/ Lapse(r)
                          \/ Enqueue(r) \/ OtherEnqueue(r) \/ OtherClaim(r) \/ OtherFinish(r)
                          \/ OptOut(r)
  BY <1>1, <1>4, RowStepKeeps DEF WakeInv
<1>5. CASE Notify \/ Deliver \/ Listen \/ Heard \/ Disconnect \/ Fallback
  BY <1>1, <1>5, HintsKeep DEF WakeInv
<1>6. CASE UNCHANGED wakeVars
  <2>1. RowsKept
    BY <1>6 DEF wakeVars, rowVars, hintVars, RowsKept, Open, Blocked, Announced, HintUnderWay
  <2>2. KnowledgeKept
    BY <1>6, SameKnowledge DEF wakeVars, sleepVars, stateVars
  <2> QED BY <1>1, <2>1, <2>2, Kept DEF WakeInv
<1> QED BY <1>2, <1>3, <1>4, <1>5, <1>6 DEF Next

\* No wakeup is lost: a worker never waits on beside a claimable row of which no hint
\* is under way, unless it had read the row as due later when a claim found nothing and
\* its flat second began; for any rows, blockers and workers, however commits, callbacks,
\* timers, lease recovery and other processes fall between its reads and its wait
\* (queue_wakeup.py, AnalysisWakeup.claim).
THEOREM NoWakeupLost == Spec => []NoSleepOverWork
<1>1. WakeInv => NoSleepOverWork
  BY DEF WakeInv, Resting, Guarded, Announced, Claimable, NoSleepOverWork
<1> QED BY <1>1, InitKnown, NextKnown, PTL DEF Spec
=============================================================================
