-------------------------- MODULE TaskQueue_proofs --------------------------
(***************************************************************************)
(* Proofs about TaskQueue, for every set of rows, sessions and workers.     *)
(***************************************************************************)
EXTENDS TaskQueue, TLAPS

\* A row that can still run has an attempt left.
AttemptsLeft ==
  \A t \in Task :
    status[t] \in {"absent", "pending", "running"} => retries[t] < MaxRetries

\* A worker that is not idle holds a row.
Employed == \A w \in Worker : pc[w] = "idle" <=> job[w] = NoTask

TypeInv == TypeOK /\ AttemptsLeft /\ Employed

\* Every row but an analysis belongs to a session.
LEMMA RowSession ==
  ASSUME NEW t \in Task, KindOf[t] # "analysis"
  PROVE  SessionOf[t] \in Session
BY ConstantsAssumption

-----------------------------------------------------------------------------
(* Type correctness *)

LEMMA InitType == Init => TypeInv
BY ConstantsAssumption
   DEF Init, TypeInv, TypeOK, AttemptsLeft, Employed, Status, Source, Field

\* Producers keep the types.
LEMMA ProduceType ==
  ASSUME TypeInv, Produce
  PROVE  TypeInv'
<1>. USE DEF TypeInv, TypeOK, AttemptsLeft, Employed
<1>1. ASSUME NEW t \in Task, Enqueue(t)
      PROVE  TypeInv'
  <2>1. Bounded(t) => revision[FieldOf(t)][SessionOf[t]] \in Nat
    BY <1>1, ConstantsAssumption DEF Bounded, FieldOf, Field, Kind
  <2>. QED
    BY <1>1, <2>1 DEF Enqueue, Insert, Status, sessionVars, workerVars,
       scopeVars, historyVars
<1>2. ASSUME NEW t \in Task, EnqueueBootstrap(t)
      PROVE  TypeInv'
  <2>1. SessionOf[t] \in Session
    BY <1>2, ConstantsAssumption DEF EnqueueBootstrap
  <2>2. revision["guardrails"][SessionOf[t]] \in Nat
    BY <2>1 DEF Field
  <2>. QED
    BY <1>2, <2>2 DEF EnqueueBootstrap, Insert, Status, sessionVars, workerVars,
       scopeVars, historyVars
<1>3. ASSUME NEW t \in Task, Cleanup(t)
      PROVE  TypeInv'
  BY <1>3 DEF Cleanup, Status, sessionVars, workerVars, scopeVars, historyVars
<1>4. ASSUME NEW s \in Session, UserMessage(s) \/ StoreUserIntention(s)
      PROVE  TypeInv'
  <2>1. observed' \in [Session -> BOOLEAN] /\ source' \in [Session -> Source]
    BY <1>4 DEF UserMessage, StoreUserIntention, Source
  <2>2. UNCHANGED <<rowVars, enabled, revision, workerVars, claims, faults, historyVars>>
    BY <1>4 DEF UserMessage, StoreUserIntention
  <2>. QED
    BY <2>1, <2>2 DEF rowVars, workerVars, scopeVars, historyVars
<1>5. ASSUME NEW f \in Field, NEW s \in Session, SetParticipation(f, s)
      PROVE  TypeInv'
  <2>2. enabled' \in [Field -> [Session -> BOOLEAN]]
    BY <1>5 DEF SetParticipation
  <2>3. revision' \in [Field -> [Session -> Nat]]
    BY <1>5 DEF SetParticipation
  <2>4. status' \in [Task -> Status] /\ token' \in [Task -> Nat] /\ AttemptsLeft'
    BY <1>5 DEF SetParticipation, Status
  <2>. QED
    BY <1>5, <2>2, <2>3, <2>4 DEF SetParticipation, workerVars, scopeVars,
       historyVars
<1>. QED
  BY <1>1, <1>2, <1>3, <1>4, <1>5 DEF Produce

\* A worker that forgets its claim.
LEMMA ReleaseType ==
  ASSUME TypeInv, NEW w \in Worker, Release(w)
  PROVE  /\ pc' \in [Worker -> {"idle", "claimed", "running", "done", "error"}]
         /\ job' \in [Worker -> Task \cup {NoTask}]
         /\ ticket' \in [Worker -> Nat]
         /\ snap' \in [Worker -> [Session -> Nat]]
         /\ watched' \in [Worker -> SUBSET Session]
         /\ used' \in [Worker -> SUBSET Session]
         /\ scoped' \in [Worker -> BOOLEAN]
         /\ beating' \in [Worker -> BOOLEAN]
         /\ Employed'
BY DEF TypeInv, TypeOK, Employed, Release

\* A snapshot of existing sessions is well typed.
LEMMA SnapshotType ==
  ASSUME TypeInv, NEW w \in Worker, NEW W \in SUBSET Session, TakeSnapshot(w, W)
  PROVE  /\ snap' \in [Worker -> [Session -> Nat]]
         /\ watched' \in [Worker -> SUBSET Session]
         /\ used' \in [Worker -> SUBSET Session]
<1>1. [s \in Session |-> IF s \in W THEN revision["analytics"][s] ELSE 0]
        \in [Session -> Nat]
  BY DEF TypeInv, TypeOK, Field
<1>. QED
  BY <1>1 DEF TypeInv, TypeOK, TakeSnapshot

\* The row of a worker that is not idle.
LEMMA HeldRow ==
  ASSUME TypeInv, NEW w \in Worker, pc[w] # "idle"
  PROVE  job[w] \in Task
BY DEF TypeInv, TypeOK, Employed

\* A worker's steps between claim and report keep the types.
LEMMA ExecuteType ==
  ASSUME TypeInv, NEW w \in Worker, Execute(w)
  PROVE  TypeInv'
<1>. USE DEF TypeInv, TypeOK, AttemptsLeft, Employed, rowVars, sessionVars,
         workerVars, scopeVars, historyVars
<1>1. CASE BeginSummary(w)
  <2>1. job[w] \in Task /\ pc[w] = "claimed"
    BY <1>1, HeldRow DEF BeginSummary
  <2>2. Lineage(SessionOf[job[w]]) \in SUBSET Session
    BY <1>1, <2>1, ConstantsAssumption DEF BeginSummary, Lineage
  <2>3. /\ snap' \in [Worker -> [Session -> Nat]]
        /\ watched' \in [Worker -> SUBSET Session]
        /\ used' \in [Worker -> SUBSET Session]
        /\ scoped' \in [Worker -> BOOLEAN]
    <3>1. CASE TakeSnapshot(w, Lineage(SessionOf[job[w]])) /\ scoped' = [scoped EXCEPT ![w] = TRUE]
      BY <2>2, <3>1, SnapshotType
    <3>2. CASE UNCHANGED scopeVars
      BY <3>2
    <3>. QED
      BY <1>1, <3>1, <3>2 DEF BeginSummary
  <2>4. \E p \in {"running", "done"} : pc' = [pc EXCEPT ![w] = p]
    BY <1>1 DEF BeginSummary
  <2>. QED
    BY <1>1, <2>1, <2>3, <2>4 DEF BeginSummary
<1>2. CASE BeginAnalysis(w)
  <2>1. PICK chosen \in SUBSET {s \in Session : RootScope[s] = ScopeOf[job[w]]
                                                /\ enabled["analytics"][s]} :
          /\ TakeSnapshot(w, UNION {Lineage(s) : s \in chosen})
          /\ pc' = [pc EXCEPT ![w] = IF Cardinality(chosen) < 2 THEN "done"
                                     ELSE "running"]
    BY <1>2 DEF BeginAnalysis
  <2>2. UNION {Lineage(s) : s \in chosen} \in SUBSET Session
    BY ConstantsAssumption DEF Lineage
  <2>. QED
    BY <1>2, <2>1, <2>2, SnapshotType DEF BeginAnalysis
<1>3. CASE BeginIntention(w)
  BY <1>3 DEF BeginIntention
<1>4. CASE WriteDerived(w)
  BY <1>4 DEF WriteDerived
<1>5. CASE WriteIntention(w)
  <2>1. job[w] \in Task /\ pc[w] = "running"
    BY <1>5, HeldRow DEF WriteIntention
  <2>2. SessionOf[job[w]] \in Session
    <3>1. KindOf[job[w]] = "intention_update"
      BY <1>5, <2>1, ConstantsAssumption DEF WriteIntention, Analytic
    <3>. QED
      BY <2>1, <3>1, RowSession
  <2>3. source' \in [Session -> Source] /\ bootstraps' \in [Session -> Nat]
    BY <1>5, <2>2 DEF WriteIntention, Source
  <2>4. /\ pc' \in [Worker -> {"idle", "claimed", "running", "done", "error"}]
        /\ Employed'
    BY <1>5, <2>1 DEF WriteIntention
  <2>. QED
    BY <1>5, <2>1, <2>2, <2>3, <2>4 DEF WriteIntention
<1>6. CASE Finish(w) \/ Skip(w) \/ Break(w)
  BY <1>6 DEF Finish, Skip, Break
<1>7. CASE Complete(w)
  <2>1. job[w] \in Task /\ Release(w)
    BY <1>7, HeldRow DEF Complete
  <2>2. status' \in [Task -> Status] /\ token' \in [Task -> Nat]
        /\ credit' \in [Task -> Nat]
    <3>1. CASE ~Owns(w)
      BY <1>7, <3>1 DEF Complete
    <3>2. CASE Owns(w)
      <4>1. \E p \in {"completed", "cancelled"} : status' = [status EXCEPT ![job[w]] = p]
        BY <1>7, <3>2 DEF Complete
      <4>2. \E k \in Nat : token' = [token EXCEPT ![job[w]] = k]
        BY <1>7, <2>1, <3>2 DEF Complete
      <4>3. \E k \in Nat : credit' = [credit EXCEPT ![job[w]] = k]
        BY <1>7, <2>1, <3>2 DEF Complete
      <4>. QED
        BY <2>1, <4>1, <4>2, <4>3 DEF Status
    <3>. QED
      BY <3>1, <3>2
  <2>3. AttemptsLeft'
    BY <1>7, <2>1 DEF Complete, Status
  <2>. QED
    BY <1>7, <2>1, <2>2, <2>3, ReleaseType DEF Complete
<1>8. CASE Fail(w)
  <2>1. Owns(w) => retries[job[w]] < MaxRetries
    BY HeldRow DEF Owns
  <2>2. job[w] \in Task /\ Release(w)
    BY <1>8, HeldRow DEF Fail
  <2>3. /\ status' \in [Task -> Status] /\ retries' \in [Task -> 0..MaxRetries]
        /\ due' \in [Task -> BOOLEAN] /\ token' \in [Task -> Nat]
        /\ credit' \in [Task -> Nat] /\ AttemptsLeft'
    <3>1. CASE ~Owns(w)
      BY <1>8, <3>1 DEF Fail
    <3>2. CASE Owns(w) /\ LastAttempt(job[w])
      <4>1. retries' = [retries EXCEPT ![job[w]] = @ + 1]
        BY <1>8, <3>2 DEF Fail
      <4>2. retries' \in [Task -> 0..MaxRetries]
        BY <4>1, <2>1, <2>2, <3>2, ConstantsAssumption
      <4>3. status' = [status EXCEPT ![job[w]] = "failed"]
        BY <1>8, <3>2 DEF Fail
      <4>4. AttemptsLeft'
        BY <4>1, <4>3, <2>2
      <4>5. status' \in [Task -> Status]
        BY <4>3, <2>2 DEF Status
      <4>6. /\ due' = [due EXCEPT ![job[w]] = @]
            /\ token' = [token EXCEPT ![job[w]] = @]
            /\ credit' = [credit EXCEPT ![job[w]] = ticket[w]]
        BY <1>8, <3>2 DEF Fail
      <4>7. /\ due' \in [Task -> BOOLEAN]
            /\ token' \in [Task -> Nat] /\ credit' \in [Task -> Nat]
        BY <2>2, <4>6
      <4>. QED
        BY <4>2, <4>4, <4>5, <4>7
    <3>3. CASE Owns(w) /\ ~LastAttempt(job[w])
      <4>1. retries' = [retries EXCEPT ![job[w]] = @ + 1]
        BY <1>8, <3>3 DEF Fail
      <4>2. retries' \in [Task -> 0..MaxRetries]
        BY <4>1, <2>1, <2>2, <3>3, ConstantsAssumption
      <4>3. status' = [status EXCEPT ![job[w]] = "pending"]
        BY <1>8, <3>3 DEF Fail
      <4>4. AttemptsLeft'
        BY <4>1, <4>3, <2>2, <3>3, ConstantsAssumption DEF LastAttempt
      <4>5. status' \in [Task -> Status]
        BY <4>3, <2>2 DEF Status
      <4>6. /\ due' = [due EXCEPT ![job[w]] = FALSE]
            /\ token' = [token EXCEPT ![job[w]] = 0]
            /\ credit' = [credit EXCEPT ![job[w]] = @]
        BY <1>8, <3>3 DEF Fail
      <4>7. /\ due' \in [Task -> BOOLEAN]
            /\ token' \in [Task -> Nat] /\ credit' \in [Task -> Nat]
        BY <2>2, <4>6
      <4>. QED
        BY <4>2, <4>4, <4>5, <4>7
    <3>. QED
      BY <3>1, <3>2, <3>3
  <2>4. UNCHANGED <<stale, stamp, sessionVars, claims, faults, lastWrite, bootstraps>>
    BY <1>8 DEF Fail
  <2>. QED
    BY <2>2, <2>3, <2>4, ReleaseType
<1>9. CASE Heartbeat(w)
  BY <1>9 DEF Heartbeat
<1>. QED
  BY <1>1, <1>2, <1>3, <1>4, <1>5, <1>6, <1>7, <1>8, <1>9 DEF Execute

\* Claims, faults, time and recovery keep the types.
LEMMA RestType ==
  ASSUME TypeInv,
         \/ \E w \in Worker, t \in Task : Claim(w, t)
         \/ \E w \in Worker : HeartbeatDies(w) \/ Crash(w)
         \/ \E t \in Task : BecomeDue(t) \/ LeaseAge(t)
         \/ ResetStale
  PROVE  TypeInv'
<1>. USE DEF TypeInv, TypeOK, AttemptsLeft, Employed, rowVars, sessionVars,
         workerVars, scopeVars, historyVars
<1>1. ASSUME NEW w \in Worker, NEW t \in Task, Claim(w, t)
      PROVE  TypeInv'
  <2>1. status[t] = "pending"
    BY <1>1 DEF Claim, Claimable
  <2>2. t # NoTask
    BY ConstantsAssumption
  <2>. QED
    BY <1>1, <2>1, <2>2 DEF Claim, Status
<1>2. ASSUME NEW w \in Worker, HeartbeatDies(w)
      PROVE  TypeInv'
  BY <1>2 DEF HeartbeatDies
<1>3. ASSUME NEW w \in Worker, Crash(w)
      PROVE  TypeInv'
  BY <1>3, ReleaseType DEF Crash
<1>4. ASSUME NEW t \in Task, BecomeDue(t) \/ LeaseAge(t)
      PROVE  TypeInv'
  <2>1. CASE BecomeDue(t)
    BY <2>1 DEF BecomeDue
  <2>2. CASE LeaseAge(t)
    <3>1. faults' \in Nat
      BY <2>2 DEF LeaseAge
    <3>. QED
      BY <2>2, <3>1 DEF LeaseAge
  <2>. QED
    BY <1>4, <2>1, <2>2
<1>5. CASE ResetStale
  BY <1>5 DEF ResetStale, LostRows, Status
<1>. QED
  BY <1>1, <1>2, <1>3, <1>4, <1>5

LEMMA StepType == TypeInv /\ [Next]_vars => TypeInv'
<1>1. CASE UNCHANGED vars
  BY <1>1 DEF TypeInv, TypeOK, AttemptsLeft, Employed, vars, rowVars, sessionVars,
     workerVars, scopeVars, historyVars
<1>. QED
  BY <1>1, ProduceType, ExecuteType, RestType DEF Next

\* Every variable keeps its type, retry counts included.
THEOREM TypeCorrect == Spec => []TypeOK
<1>1. TypeInv => TypeOK
  BY DEF TypeInv
<1>. QED
  BY <1>1, InitType, StepType, PTL DEF Spec
-----------------------------------------------------------------------------
(* Claims and the rows they own *)

\* Claim numbers are issued once: no two workers hold the same.
TicketInv ==
  /\ \A w \in Worker : ticket[w] <= claims /\ (pc[w] = "idle" <=> ticket[w] = 0)
  /\ \A v, w \in Worker : ticket[v] = ticket[w] /\ ticket[v] # 0 => v = w

\* A row's derived data and result never belong to a claim after its token.
RowInv ==
  \A t \in Task :
    /\ token[t] <= claims /\ lastWrite[t] <= claims
    /\ status[t] = "running" => lastWrite[t] <= token[t]
    /\ credit[t] # 0 => /\ status[t] \in {"completed", "failed", "deleted"}
                        /\ credit[t] = token[t]
                        /\ lastWrite[t] <= credit[t]

\* The inductive invariant.
SafeInv == TypeInv /\ TicketInv /\ RowInv /\ OptedOutHasNoLiveTask

LEMMA InitSafe == Init => SafeInv
<1>1. Init => TicketInv /\ RowInv /\ OptedOutHasNoLiveTask
  BY DEF Init, TicketInv, RowInv, OptedOutHasNoLiveTask, Live
<1>. QED
  BY <1>1, InitType DEF SafeInv

\* Only claims issue tickets, and forgetting one frees it for nobody.
LEMMA TicketStep ==
  ASSUME TypeInv, TicketInv, [Next]_vars
  PROVE  TicketInv'
<1>. USE DEF TypeInv, TypeOK, TicketInv
<1>1. ASSUME NEW w \in Worker, NEW t \in Task, Claim(w, t)
      PROVE  TicketInv'
  <2>1. /\ claims' = claims + 1
        /\ pc' = [pc EXCEPT ![w] = "claimed"]
        /\ ticket' = [ticket EXCEPT ![w] = claims + 1]
    BY <1>1 DEF Claim
  <2>. QED
    BY <2>1
<1>2. ASSUME NEW w \in Worker, Release(w), claims' = claims
      PROVE  TicketInv'
  BY <1>2 DEF Release
<1>3. ASSUME NEW w \in Worker, pc[w] # "idle", UNCHANGED <<ticket, claims>>,
             \E p \in {"running", "done", "error"} : pc' = [pc EXCEPT ![w] = p]
      PROVE  TicketInv'
  BY <1>3
<1>4. CASE UNCHANGED <<pc, ticket, claims>>
  BY <1>4
<1>5. ASSUME NEW w \in Worker, Execute(w)
      PROVE  TicketInv'
  <2>1. CASE Complete(w) \/ Fail(w)
    BY <2>1, <1>2 DEF Complete, Fail
  <2>2. CASE WriteDerived(w) \/ Heartbeat(w)
    BY <2>2, <1>4 DEF WriteDerived, Heartbeat, workerVars
  <2>3. CASE BeginSummary(w) \/ BeginAnalysis(w) \/ BeginIntention(w)
             \/ WriteIntention(w) \/ Finish(w) \/ Skip(w) \/ Break(w)
    <3>1. pc[w] # "idle" /\ UNCHANGED <<ticket, claims>>
      BY <2>3 DEF BeginSummary, BeginAnalysis, BeginIntention, WriteIntention,
         Finish, Skip, Break
    <3>2. \E p \in {"running", "done", "error"} : pc' = [pc EXCEPT ![w] = p]
      BY <2>3 DEF BeginSummary, BeginAnalysis, BeginIntention, WriteIntention,
         Finish, Skip, Break
    <3>. QED
      BY <1>3, <3>1, <3>2
  <2>. QED
    BY <1>5, <2>1, <2>2, <2>3 DEF Execute
<1>6. ASSUME NEW w \in Worker, HeartbeatDies(w) \/ Crash(w)
      PROVE  TicketInv'
  BY <1>6, <1>2, <1>4 DEF HeartbeatDies, Crash
<1>7. CASE Produce
  <2>1. UNCHANGED workerVars /\ UNCHANGED claims
    BY <1>7 DEF Produce, Enqueue, EnqueueBootstrap, Cleanup, UserMessage,
       StoreUserIntention, SetParticipation
  <2>. QED
    BY <2>1, <1>4 DEF workerVars
<1>8. CASE \/ \E t \in Task : BecomeDue(t) \/ LeaseAge(t)
           \/ ResetStale
  <2>1. UNCHANGED workerVars /\ UNCHANGED claims
    BY <1>8 DEF BecomeDue, LeaseAge, ResetStale
  <2>. QED
    BY <2>1, <1>4 DEF workerVars
<1>9. CASE UNCHANGED vars
  BY <1>9, <1>4 DEF vars, workerVars
<1>. QED
  BY <1>1, <1>5, <1>6, <1>7, <1>8, <1>9 DEF Next

\* At most one worker can move a row on: the tokens of the rows are tickets,
\* and a ticket has one holder.
LEMMA OneOwner == TypeInv /\ TicketInv => SingleOwner
BY DEF TypeInv, TypeOK, Employed, TicketInv, SingleOwner, Owns

\* What a worker's ownership of its row says.
LEMMA OwnedRow ==
  ASSUME SafeInv, NEW w \in Worker, Owns(w)
  PROVE  /\ job[w] \in Task /\ status[job[w]] = "running"
         /\ token[job[w]] = ticket[w] /\ ticket[w] \in Nat \ {0}
         /\ credit[job[w]] = 0
<1>1. /\ job[w] \in Task /\ status[job[w]] = "running"
      /\ token[job[w]] = ticket[w]
  BY DEF SafeInv, TypeInv, TypeOK, Owns
<1>2. ticket[w] \in Nat \ {0}
  BY <1>1, ConstantsAssumption DEF SafeInv, TypeInv, TypeOK, Employed, TicketInv
<1>3. credit[job[w]] = 0
  BY <1>1 DEF SafeInv, RowInv
<1>. QED
  BY <1>1, <1>2, <1>3

\* Data and results are attributed to the row's current claim.
LEMMA RowStep ==
  ASSUME SafeInv, [Next]_vars
  PROVE  RowInv'
<1>. USE DEF TypeOK, RowInv
<1>. TypeInv /\ TypeOK /\ RowInv
  BY DEF SafeInv, TypeInv
<1>1. ASSUME NEW w \in Worker, NEW t \in Task, Claim(w, t)
      PROVE  RowInv'
  <2>1. /\ claims' = claims + 1
        /\ status[t] = "pending"
        /\ status' = [status EXCEPT ![t] = "running"]
        /\ token' = [token EXCEPT ![t] = claims + 1]
        /\ UNCHANGED <<lastWrite, credit>>
    BY <1>1 DEF Claim, Claimable, historyVars
  <2>. QED
    BY <2>1
<1>2. ASSUME NEW w \in Worker, Complete(w)
      PROVE  RowInv'
  <2>1. UNCHANGED <<claims, lastWrite>>
    BY <1>2 DEF Complete
  <2>2. CASE ~Owns(w)
    BY <1>2, <2>1, <2>2 DEF Complete
  <2>3. CASE Owns(w)
    <3>1. CASE (scoped[w] => Unchanged(w))
      <4>1. /\ status' = [status EXCEPT ![job[w]] = "completed"]
            /\ token' = [token EXCEPT ![job[w]] = @]
            /\ credit' = [credit EXCEPT ![job[w]] = ticket[w]]
        BY <1>2, <2>3, <3>1 DEF Complete
      <4>. QED
        BY <2>1, <2>3, <4>1, OwnedRow
    <3>2. CASE ~(scoped[w] => Unchanged(w))
      <4>1. /\ status' = [status EXCEPT ![job[w]] = "cancelled"]
            /\ token' = [token EXCEPT ![job[w]] = 0]
            /\ credit' = [credit EXCEPT ![job[w]] = @]
        BY <1>2, <2>3, <3>2 DEF Complete
      <4>. QED
        BY <2>1, <2>3, <4>1, OwnedRow
    <3>. QED
      BY <3>1, <3>2
  <2>. QED
    BY <2>2, <2>3
<1>3. ASSUME NEW w \in Worker, Fail(w)
      PROVE  RowInv'
  <2>1. UNCHANGED <<claims, lastWrite>>
    BY <1>3 DEF Fail
  <2>2. CASE ~Owns(w)
    BY <1>3, <2>1, <2>2 DEF Fail
  <2>3. CASE Owns(w)
    <3>1. CASE LastAttempt(job[w])
      <4>1. /\ status' = [status EXCEPT ![job[w]] = "failed"]
            /\ token' = [token EXCEPT ![job[w]] = @]
            /\ credit' = [credit EXCEPT ![job[w]] = ticket[w]]
        BY <1>3, <2>3, <3>1 DEF Fail
      <4>. QED
        BY <2>1, <2>3, <4>1, OwnedRow
    <3>2. CASE ~LastAttempt(job[w])
      <4>1. /\ status' = [status EXCEPT ![job[w]] = "pending"]
            /\ token' = [token EXCEPT ![job[w]] = 0]
            /\ credit' = [credit EXCEPT ![job[w]] = @]
        BY <1>3, <2>3, <3>2 DEF Fail
      <4>. QED
        BY <2>1, <2>3, <4>1, OwnedRow
    <3>. QED
      BY <3>1, <3>2
  <2>. QED
    BY <2>2, <2>3
<1>4. ASSUME NEW w \in Worker, WriteDerived(w)
      PROVE  RowInv'
  <2>1. /\ Owns(w)
        /\ lastWrite' = [lastWrite EXCEPT ![job[w]] = ticket[w]]
        /\ UNCHANGED <<status, token, credit, claims>>
    BY <1>4 DEF WriteDerived, ScopeValid, rowVars
  <2>. QED
    BY <2>1, OwnedRow
<1>5. CASE UNCHANGED <<status, token, lastWrite, credit, claims>>
  BY <1>5
<1>6. ASSUME NEW w \in Worker,
             \/ BeginSummary(w) \/ BeginAnalysis(w) \/ BeginIntention(w)
             \/ WriteIntention(w) \/ Finish(w) \/ Skip(w) \/ Break(w)
             \/ Heartbeat(w) \/ HeartbeatDies(w) \/ Crash(w)
      PROVE  RowInv'
  BY <1>5, <1>6 DEF BeginSummary, BeginAnalysis, BeginIntention, WriteIntention,
     Finish, Skip, Break, Heartbeat, HeartbeatDies, Crash, rowVars, historyVars
<1>7. ASSUME NEW t \in Task, Enqueue(t) \/ EnqueueBootstrap(t) \/ Cleanup(t)
      PROVE  RowInv'
  <2>1. UNCHANGED <<token, lastWrite, credit, claims>>
    BY <1>7 DEF Enqueue, EnqueueBootstrap, Cleanup, Insert, historyVars
  <2>2. \/ status[t] = "absent" /\ status' = [status EXCEPT ![t] = "pending"]
        \/ /\ status[t] \in {"completed", "failed"}
           /\ status' = [status EXCEPT ![t] = "deleted"]
    BY <1>7 DEF Enqueue, EnqueueBootstrap, Cleanup, Insert
  <2>. QED
    BY <2>1, <2>2
<1>8. ASSUME NEW s \in Session, UserMessage(s) \/ StoreUserIntention(s)
      PROVE  RowInv'
  BY <1>5, <1>8 DEF UserMessage, StoreUserIntention, rowVars, historyVars
<1>9. ASSUME NEW f \in Field, NEW s \in Session, SetParticipation(f, s)
      PROVE  RowInv'
  BY <1>9 DEF SetParticipation, Revoked, Live, historyVars
<1>10. ASSUME NEW t \in Task, BecomeDue(t) \/ LeaseAge(t)
       PROVE  RowInv'
  BY <1>5, <1>10 DEF BecomeDue, LeaseAge, historyVars
<1>11. CASE ResetStale
  BY <1>11 DEF ResetStale, LostRows, historyVars
<1>12. CASE UNCHANGED vars
  BY <1>5, <1>12 DEF vars, rowVars, historyVars
<1>. QED
  BY <1>1, <1>2, <1>3, <1>4, <1>6, <1>7, <1>8, <1>9, <1>10, <1>11, <1>12
     DEF Next, Produce, Execute

\* Opt-outs revoke the rows they concern, and no step revives one.
LEMMA OptedOutStep ==
  ASSUME SafeInv, [Next]_vars
  PROVE  OptedOutHasNoLiveTask'
<1>. USE DEF OptedOutHasNoLiveTask, Live, Bounded
<1>. TypeInv /\ TypeOK /\ OptedOutHasNoLiveTask
  BY DEF SafeInv, TypeInv
<1>1. ASSUME \A t \in Task : status'[t] \in Live => status[t] \in Live,
             UNCHANGED <<stamp, enabled, revision>>
      PROVE  OptedOutHasNoLiveTask'
  BY <1>1
<1>2. ASSUME NEW t \in Task, Enqueue(t) \/ EnqueueBootstrap(t)
      PROVE  OptedOutHasNoLiveTask'
  <2>1. UNCHANGED <<enabled, revision>>
    BY <1>2 DEF Enqueue, EnqueueBootstrap, sessionVars
  <2>2. /\ status' = [status EXCEPT ![t] = "pending"]
        /\ \E r : stamp' = [stamp EXCEPT ![t] = r]
    BY <1>2 DEF Enqueue, EnqueueBootstrap, Insert
  <2>3. Bounded(t) => /\ enabled[FieldOf(t)][SessionOf[t]]
                      /\ stamp'[t] = revision[FieldOf(t)][SessionOf[t]]
    BY <1>2 DEF Enqueue, EnqueueBootstrap, Insert, TypeOK, FieldOf
  <2>. QED
    BY <2>1, <2>2, <2>3 DEF TypeOK
<1>3. ASSUME NEW f \in Field, NEW s \in Session, SetParticipation(f, s)
      PROVE  OptedOutHasNoLiveTask'
  <2>1. SUFFICES ASSUME NEW t \in Task, SessionOf[t] # NoSession,
                        status'[t] \in {"pending", "running"}
                 PROVE  /\ enabled'[FieldOf(t)][SessionOf[t]]
                        /\ stamp'[t] = revision'[FieldOf(t)][SessionOf[t]]
    OBVIOUS
  <2>2. status[t] \in {"pending", "running"} /\ stamp'[t] = stamp[t]
    BY <1>3, <2>1 DEF SetParticipation, Revoked
  <2>3. FieldOf(t) \in Field /\ SessionOf[t] \in Session /\ KindOf[t] \in Kind
        /\ KindOf[t] # "analysis"
    BY <2>1, ConstantsAssumption DEF FieldOf, Field
  <2>4. FieldOf(t) # f \/ SessionOf[t] # s
    <3>1. SUFFICES ASSUME FieldOf(t) = f, SessionOf[t] = s
                   PROVE  FALSE
      OBVIOUS
    <3>2. enabled[f][s]
      BY <2>1, <2>2, <3>1
    <3>3. KindOf[t] = TaskOf(f)
      BY <2>3, <3>1 DEF FieldOf, TaskOf, Kind
    <3>4. t \in Revoked(f, s)
      BY <2>2, <3>1, <3>3 DEF Revoked
    <3>. QED
      BY <1>3, <2>1, <3>2, <3>4 DEF SetParticipation
  <2>5. /\ enabled'[FieldOf(t)][SessionOf[t]] = enabled[FieldOf(t)][SessionOf[t]]
        /\ revision'[FieldOf(t)][SessionOf[t]] = revision[FieldOf(t)][SessionOf[t]]
    BY <1>3, <2>3, <2>4 DEF SetParticipation, TypeOK
  <2>. QED
    BY <2>1, <2>2, <2>5
<1>4. ASSUME NEW w \in Worker, NEW t \in Task, Claim(w, t)
      PROVE  OptedOutHasNoLiveTask'
  BY <1>1, <1>4 DEF Claim, Claimable, TypeOK, sessionVars
<1>5. ASSUME NEW w \in Worker, Complete(w) \/ Fail(w)
      PROVE  OptedOutHasNoLiveTask'
  <2>1. UNCHANGED <<stamp, enabled, revision>>
    BY <1>5 DEF Complete, Fail, sessionVars
  <2>2. \/ status' = status
        \/ /\ Owns(w)
           /\ \E p \in Status : status' = [status EXCEPT ![job[w]] = p]
    BY <1>5 DEF Complete, Fail, Status
  <2>. QED
    BY <1>1, <2>1, <2>2, OwnedRow DEF TypeOK
<1>6. ASSUME NEW w \in Worker,
             \/ BeginSummary(w) \/ BeginAnalysis(w) \/ BeginIntention(w)
             \/ WriteDerived(w) \/ WriteIntention(w) \/ Finish(w) \/ Skip(w)
             \/ Break(w) \/ Heartbeat(w) \/ HeartbeatDies(w) \/ Crash(w)
      PROVE  OptedOutHasNoLiveTask'
  <2>1. UNCHANGED <<status, stamp, enabled, revision>>
    BY <1>6 DEF BeginSummary, BeginAnalysis, BeginIntention, WriteDerived,
       WriteIntention, Finish, Skip, Break, Heartbeat, HeartbeatDies, Crash,
       rowVars, sessionVars
  <2>. QED
    BY <1>1, <2>1
<1>7. ASSUME NEW t \in Task, Cleanup(t) \/ BecomeDue(t) \/ LeaseAge(t)
      PROVE  OptedOutHasNoLiveTask'
  BY <1>1, <1>7 DEF Cleanup, BecomeDue, LeaseAge, TypeOK, sessionVars
<1>8. ASSUME NEW s \in Session, UserMessage(s) \/ StoreUserIntention(s)
      PROVE  OptedOutHasNoLiveTask'
  BY <1>1, <1>8 DEF UserMessage, StoreUserIntention, rowVars
<1>9. CASE ResetStale
  BY <1>1, <1>9 DEF ResetStale, LostRows, sessionVars
<1>10. CASE UNCHANGED vars
  BY <1>1, <1>10 DEF vars, rowVars, sessionVars
<1>. QED
  BY <1>2, <1>3, <1>4, <1>5, <1>6, <1>7, <1>8, <1>9, <1>10
     DEF Next, Produce, Execute

LEMMA StepSafe == SafeInv /\ [Next]_vars => SafeInv'
BY StepType, TicketStep, RowStep, OptedOutStep DEF SafeInv

THEOREM SafeAlways == Spec => []SafeInv
BY InitSafe, StepSafe, PTL DEF Spec

\* An opt-out leaves no live row behind (update_session, enqueue).
THEOREM OptOutRevokes == Spec => []OptedOutHasNoLiveTask
<1>1. SafeInv => OptedOutHasNoLiveTask
  BY DEF SafeInv
<1>. QED
  BY <1>1, SafeAlways, PTL

\* At most one worker can move a row on (claim_next, reset_stale_running).
THEOREM OneOwnerAlways == Spec => []SingleOwner
<1>1. SafeInv => SingleOwner
  BY OneOwner DEF SafeInv
<1>. QED
  BY <1>1, SafeAlways, PTL

\* The result that ended a row is its last claim's (complete, fail).
THEOREM NewestAccepted == Spec => []AcceptedResultIsNewest
<1>1. SafeInv => AcceptedResultIsNewest
  BY DEF SafeInv, RowInv, AcceptedResultIsNewest
<1>. QED
  BY <1>1, SafeAlways, PTL

LEMMA WriteStep ==
  ASSUME SafeInv, [Next]_vars
  PROVE  \A t \in Task : lastWrite'[t] >= lastWrite[t]
<1>. TypeOK /\ RowInv
  BY DEF SafeInv, TypeInv
<1>1. CASE UNCHANGED lastWrite
  BY <1>1 DEF TypeOK
<1>2. ASSUME NEW w \in Worker, WriteDerived(w)
      PROVE  \A t \in Task : lastWrite'[t] >= lastWrite[t]
  <2>1. Owns(w) /\ lastWrite' = [lastWrite EXCEPT ![job[w]] = ticket[w]]
    BY <1>2 DEF WriteDerived, ScopeValid
  <2>2. lastWrite[job[w]] <= ticket[w]
    BY <2>1, OwnedRow DEF RowInv
  <2>. QED
    BY <2>1, <2>2 DEF TypeOK
<1>3. ASSUME NEW w \in Worker, Execute(w), ~WriteDerived(w)
      PROVE  UNCHANGED lastWrite
  BY <1>3 DEF Execute, BeginSummary, BeginAnalysis, BeginIntention,
     WriteIntention, Finish, Skip, Break, Complete, Fail, Heartbeat, historyVars
<1>4. Produce => UNCHANGED lastWrite
  BY DEF Produce, Enqueue, EnqueueBootstrap, Cleanup, UserMessage,
     StoreUserIntention, SetParticipation, historyVars
<1>5. ASSUME NEW w \in Worker, NEW t \in Task, Claim(w, t)
      PROVE  UNCHANGED lastWrite
  BY <1>5 DEF Claim, historyVars
<1>6. ASSUME NEW w \in Worker, HeartbeatDies(w) \/ Crash(w)
      PROVE  UNCHANGED lastWrite
  BY <1>6 DEF HeartbeatDies, Crash, historyVars
<1>7. ASSUME NEW t \in Task, BecomeDue(t) \/ LeaseAge(t)
      PROVE  UNCHANGED lastWrite
  BY <1>7 DEF BecomeDue, LeaseAge, historyVars
<1>8. ResetStale => UNCHANGED lastWrite
  BY DEF ResetStale, historyVars
<1>9. UNCHANGED vars => UNCHANGED lastWrite
  BY DEF vars, historyVars
<1>. QED
  BY <1>1, <1>2, <1>3, <1>4, <1>5, <1>6, <1>7, <1>8, <1>9 DEF Next

\* Derived rows are stored in the order of the claims (analytics_write).
THEOREM WritesOrdered == Spec => WritesInClaimOrder
<1>1. SafeInv /\ [Next]_vars => [\A t \in Task : lastWrite'[t] >= lastWrite[t]]_vars
  BY WriteStep
<1>. QED
  BY <1>1, SafeAlways, PTL DEF Spec, WritesInClaimOrder

-----------------------------------------------------------------------------
(* The bootstrap of an intention *)

\* The two ways a session's intention is stored: for a user message, and by a
\* bootstrap that finds none.
LEMMA IntentionStep ==
  ASSUME TypeInv, [Next]_vars
  PROVE  \/ UNCHANGED <<source, bootstraps>>
         \/ \E s \in Session : /\ source' = [source EXCEPT ![s] = "user"]
                               /\ UNCHANGED bootstraps
         \/ \E s \in Session : /\ Unguided(s)
                               /\ source' = [source EXCEPT ![s] = "bootstrap"]
                               /\ bootstraps' = [bootstraps EXCEPT ![s] = @ + 1]
<1>1. ASSUME NEW t \in Task, Enqueue(t) \/ EnqueueBootstrap(t) \/ Cleanup(t)
      PROVE  UNCHANGED <<source, bootstraps>>
  BY <1>1 DEF Enqueue, EnqueueBootstrap, Cleanup, sessionVars, historyVars
<1>2. ASSUME NEW s \in Session, UserMessage(s)
      PROVE  UNCHANGED <<source, bootstraps>>
  BY <1>2 DEF UserMessage, historyVars
<1>3. ASSUME NEW s \in Session, StoreUserIntention(s)
      PROVE  /\ source' = [source EXCEPT ![s] = "user"]
             /\ UNCHANGED bootstraps
  BY <1>3 DEF StoreUserIntention, historyVars
<1>4. ASSUME NEW f \in Field, NEW s \in Session, SetParticipation(f, s)
      PROVE  UNCHANGED <<source, bootstraps>>
  BY <1>4 DEF SetParticipation, historyVars
<1>5. ASSUME NEW w \in Worker, NEW t \in Task, Claim(w, t)
      PROVE  UNCHANGED <<source, bootstraps>>
  BY <1>5 DEF Claim, sessionVars, historyVars
<1>6. ASSUME NEW w \in Worker, WriteIntention(w)
      PROVE  \E s \in Session : /\ Unguided(s)
                                /\ source' = [source EXCEPT ![s] = "bootstrap"]
                                /\ bootstraps' = [bootstraps EXCEPT ![s] = @ + 1]
  <2>1. job[w] \in Task
    BY <1>6, HeldRow DEF WriteIntention
  <2>2. KindOf[job[w]] # "analysis"
    BY <1>6, <2>1, ConstantsAssumption DEF WriteIntention, Analytic
  <2>3. SessionOf[job[w]] \in Session
    BY <2>1, <2>2, RowSession
  <2>. QED
    BY <1>6, <2>3 DEF WriteIntention
<1>7. ASSUME NEW w \in Worker,
             \/ BeginSummary(w) \/ BeginAnalysis(w) \/ BeginIntention(w)
             \/ WriteDerived(w) \/ Finish(w) \/ Skip(w) \/ Break(w)
      PROVE  UNCHANGED <<source, bootstraps>>
  BY <1>7 DEF BeginSummary, BeginAnalysis, BeginIntention, WriteDerived, Finish,
     Skip, Break, sessionVars, historyVars
<1>8. ASSUME NEW w \in Worker,
             Complete(w) \/ Fail(w) \/ Heartbeat(w) \/ HeartbeatDies(w) \/ Crash(w)
      PROVE  UNCHANGED <<source, bootstraps>>
  BY <1>8 DEF Complete, Fail, Heartbeat, HeartbeatDies, Crash, sessionVars,
     historyVars
<1>9. ASSUME NEW t \in Task, BecomeDue(t) \/ LeaseAge(t)
      PROVE  UNCHANGED <<source, bootstraps>>
  BY <1>9 DEF BecomeDue, LeaseAge, sessionVars, historyVars
<1>10. ResetStale \/ UNCHANGED vars => UNCHANGED <<source, bootstraps>>
  BY DEF ResetStale, vars, sessionVars, historyVars
<1>. QED
  BY <1>1, <1>2, <1>3, <1>4, <1>5, <1>6, <1>7, <1>8, <1>9, <1>10
     DEF Next, Produce, Execute

\* Two workers may execute the row, and the opt-in may admit a second one: the
\* stored source is what the second bootstrap finds.
LEMMA BootstrapStep ==
  ASSUME TypeInv, BootstrapOnce, [Next]_vars
  PROVE  BootstrapOnce'
<1>. USE DEF BootstrapOnce
<1>. bootstraps \in [Session -> Nat] /\ source \in [Session -> Source]
  BY DEF TypeInv, TypeOK
<1>1. CASE UNCHANGED <<source, bootstraps>>
  BY <1>1
<1>2. ASSUME NEW s \in Session, source' = [source EXCEPT ![s] = "user"],
             UNCHANGED bootstraps
      PROVE  BootstrapOnce'
  BY <1>2
<1>3. ASSUME NEW s \in Session, Unguided(s),
             source' = [source EXCEPT ![s] = "bootstrap"],
             bootstraps' = [bootstraps EXCEPT ![s] = @ + 1]
      PROVE  BootstrapOnce'
  <2>1. bootstraps[s] \in Nat /\ bootstraps[s] <= 1 /\ bootstraps[s] # 1
    BY <1>3 DEF Unguided
  <2>2. bootstraps[s] = 0
    BY <2>1
  <2>. QED
    BY <1>3, <2>2
<1>. QED
  BY <1>1, <1>2, <1>3, IntentionStep

\* A session is bootstrapped at most once (update_generated_intention with
\* require_no_user_message), however often its row is executed.
THEOREM BootstrappedOnce == Spec => []BootstrapOnce
<1>1. Init => BootstrapOnce
  BY DEF Init, BootstrapOnce
<1>2. TypeInv /\ BootstrapOnce /\ [Next]_vars => BootstrapOnce'
  BY BootstrapStep
<1>. QED
  BY <1>1, <1>2, InitType, StepType, PTL DEF Spec

\* No bootstrap is stored for a session that has had a user message.
THEOREM BootstrapYields == Spec => BootstrapYieldsToUser
<1>1. ASSUME TypeInv, [Next]_vars
      PROVE  \A s \in Session : observed[s] => bootstraps'[s] = bootstraps[s]
  BY <1>1, IntentionStep DEF Unguided, TypeInv, TypeOK
<1>2. TypeInv /\ [Next]_vars
        => [\A s \in Session : observed[s] => bootstraps'[s] = bootstraps[s]]_vars
  BY <1>1
<1>. QED
  BY <1>2, InitType, StepType, PTL DEF Spec, BootstrapYieldsToUser
-----------------------------------------------------------------------------
(* The fence around derived data *)

\* A snapshot covers whole lineages, and where the revision it took still
\* stands, so does the choice it made.
FenceInv ==
  \A w \in Worker :
    /\ \A r \in used[w] : Lineage(r) \subseteq watched[w]
    /\ \A s \in watched[w] :
         /\ snap[w][s] <= revision["analytics"][s]
         /\ snap[w][s] = revision["analytics"][s]
              => (s \in used[w] <=> enabled["analytics"][s])

\* Descendants of descendants are descendants.
LEMMA LineageClosed ==
  ASSUME NEW s \in Session, NEW r \in Lineage(s)
  PROVE  r \in Session /\ Lineage(r) \subseteq Lineage(s)
BY ConstantsAssumption DEF Lineage

\* A snapshot is true when it is taken.
LEMMA SnapshotFence ==
  ASSUME TypeInv, FenceInv, NEW w \in Worker, NEW W \in SUBSET Session,
         \A r \in W : Lineage(r) \subseteq W,
         TakeSnapshot(w, W), UNCHANGED <<enabled, revision>>
  PROVE  FenceInv'
<1>. USE DEF TypeInv, TypeOK, FenceInv, TakeSnapshot
<1>1. /\ watched'[w] = W
      /\ used'[w] = {s \in W : enabled["analytics"][s]}
      /\ \A s \in W : snap'[w][s] = revision["analytics"][s]
  OBVIOUS
<1>2. \A s \in W : revision["analytics"][s] \in Nat
  BY DEF Field
<1>3. ASSUME NEW v \in Worker, v # w
      PROVE  watched'[v] = watched[v] /\ used'[v] = used[v] /\ snap'[v] = snap[v]
  BY <1>3
<1>. QED
  BY <1>1, <1>2, <1>3 DEF Lineage

\* The fence holds whatever the other workers, the users and the sweep do.
LEMMA FenceStep ==
  ASSUME TypeInv, FenceInv, [Next]_vars
  PROVE  FenceInv'
<1>. USE DEF TypeInv, TypeOK
<1>1. CASE UNCHANGED <<snap, watched, used, enabled, revision>>
  BY <1>1 DEF FenceInv, Lineage
<1>2. ASSUME NEW w \in Worker, Release(w), UNCHANGED <<enabled, revision>>
      PROVE  FenceInv'
  BY <1>2 DEF Release, FenceInv, Lineage
<1>3. ASSUME NEW w \in Worker, BeginSummary(w)
      PROVE  FenceInv'
  <2>1. job[w] \in Task
    BY <1>3, HeldRow DEF BeginSummary
  <2>2. SessionOf[job[w]] \in Session
    BY <1>3, <2>1, RowSession DEF BeginSummary
  <2>3. UNCHANGED <<enabled, revision>>
    BY <1>3 DEF BeginSummary, sessionVars
  <2>4. CASE TakeSnapshot(w, Lineage(SessionOf[job[w]]))
    <3>1. Lineage(SessionOf[job[w]]) \in SUBSET Session
      BY <2>2, LineageClosed
    <3>. QED
      BY <2>2, <2>3, <2>4, <3>1, LineageClosed, SnapshotFence
  <2>5. CASE UNCHANGED scopeVars
    BY <1>1, <2>3, <2>5 DEF scopeVars
  <2>. QED
    BY <1>3, <2>4, <2>5 DEF BeginSummary
<1>4. ASSUME NEW w \in Worker, BeginAnalysis(w)
      PROVE  FenceInv'
  <2>1. PICK chosen \in SUBSET Session :
          TakeSnapshot(w, UNION {Lineage(s) : s \in chosen})
    BY <1>4 DEF BeginAnalysis
  <2>. DEFINE W == UNION {Lineage(s) : s \in chosen}
  <2>2. W \in SUBSET Session
    BY LineageClosed
  <2>3. \A r \in W : Lineage(r) \subseteq W
    BY LineageClosed
  <2>4. UNCHANGED <<enabled, revision>>
    BY <1>4 DEF BeginAnalysis, sessionVars
  <2>. QED
    BY <2>1, <2>2, <2>3, <2>4, SnapshotFence
<1>5. ASSUME NEW f \in Field, NEW s \in Session, SetParticipation(f, s)
      PROVE  FenceInv'
  <2>1. /\ enabled' = [enabled EXCEPT ![f][s] = ~@]
        /\ revision' = [revision EXCEPT ![f][s] = @ + 1]
        /\ UNCHANGED <<snap, watched, used>>
    BY <1>5 DEF SetParticipation, workerVars, scopeVars
  <2>2. "analytics" \in Field
    BY DEF Field
  <2>3. ASSUME NEW r \in Session
        PROVE  \/ /\ revision'["analytics"][r] = revision["analytics"][r]
                  /\ enabled'["analytics"][r] = enabled["analytics"][r]
               \/ revision'["analytics"][r] = revision["analytics"][r] + 1
    BY <2>1, <2>2
  <2>4. ASSUME NEW w \in Worker, NEW r \in watched[w]
        PROVE  /\ snap[w][r] <= revision'["analytics"][r]
               /\ snap[w][r] = revision'["analytics"][r]
                    => (r \in used[w] <=> enabled'["analytics"][r])
    <3>1. r \in Session /\ snap[w][r] \in Nat /\ revision["analytics"][r] \in Nat
      BY <2>2
    <3>2. /\ snap[w][r] <= revision["analytics"][r]
          /\ snap[w][r] = revision["analytics"][r]
               => (r \in used[w] <=> enabled["analytics"][r])
      BY DEF FenceInv
    <3>3. CASE /\ revision'["analytics"][r] = revision["analytics"][r]
               /\ enabled'["analytics"][r] = enabled["analytics"][r]
      BY <3>2, <3>3, Zenon
    <3>4. CASE revision'["analytics"][r] = revision["analytics"][r] + 1
      <4>1. snap[w][r] <= revision'["analytics"][r] /\ snap[w][r] # revision'["analytics"][r]
        BY <3>1, <3>2, <3>4
      <4>. QED
        BY <4>1, Zenon
    <3>. QED
      BY <2>3, <3>1, <3>3, <3>4
  <2>. QED
    BY <2>1, <2>4 DEF FenceInv, Lineage
<1>6. ASSUME NEW w \in Worker, Complete(w) \/ Fail(w) \/ Crash(w)
      PROVE  FenceInv'
  BY <1>2, <1>6 DEF Complete, Fail, Crash, sessionVars
<1>7. ASSUME NEW w \in Worker,
             \/ BeginIntention(w) \/ WriteDerived(w) \/ WriteIntention(w)
             \/ Finish(w) \/ Skip(w) \/ Break(w) \/ Heartbeat(w)
             \/ HeartbeatDies(w)
      PROVE  FenceInv'
  <2>1. UNCHANGED <<snap, watched, used, enabled, revision>>
    BY <1>7 DEF BeginIntention, WriteDerived, WriteIntention, Finish, Skip, Break,
       Heartbeat, HeartbeatDies, sessionVars, workerVars, scopeVars
  <2>. QED
    BY <1>1, <2>1
<1>8. ASSUME NEW t \in Task,
             \/ Enqueue(t) \/ EnqueueBootstrap(t) \/ Cleanup(t)
             \/ BecomeDue(t) \/ LeaseAge(t) \/ \E w \in Worker : Claim(w, t)
      PROVE  FenceInv'
  BY <1>1, <1>8 DEF Enqueue, EnqueueBootstrap, Cleanup, BecomeDue, LeaseAge, Claim,
     sessionVars, workerVars, scopeVars
<1>9. ASSUME NEW s \in Session, UserMessage(s) \/ StoreUserIntention(s)
      PROVE  FenceInv'
  BY <1>1, <1>9 DEF UserMessage, StoreUserIntention, workerVars, scopeVars
<1>10. CASE ResetStale \/ UNCHANGED vars
  BY <1>1, <1>10 DEF ResetStale, vars, sessionVars, workerVars, scopeVars
<1>. QED
  BY <1>3, <1>4, <1>5, <1>6, <1>7, <1>8, <1>9, <1>10 DEF Next, Produce, Execute

\* When the write fence lets a task through, its sources are as its snapshot
\* found them (AnalyticsScope.validate), whatever was toggled meanwhile.
THEOREM FenceVouches == Spec => []FenceVouchesForSources
<1>1. Init => FenceInv
  BY DEF Init, FenceInv
<1>2. TypeInv /\ FenceInv /\ [Next]_vars => FenceInv'
  BY FenceStep
<1>3. FenceInv => FenceVouchesForSources
  BY DEF FenceInv, FenceVouchesForSources, ScopeValid, Unchanged, Lineage
<1>. QED
  BY <1>1, <1>2, <1>3, InitType, StepType, PTL DEF Spec
-----------------------------------------------------------------------------
(* The queue implements the ledger *)

LEMMA InitLedger == Init => Ledger!Init
BY DEF Init, Ledger!Init

LEMMA StepLedger ==
  ASSUME SafeInv, [Next]_vars
  PROVE  [Ledger!Next]_(Ledger!vars)
<1>. USE DEF Ledger!vars
<1>. TypeOK
  BY DEF SafeInv, TypeInv
<1>1. ASSUME UNCHANGED <<status, token, claims, retries, lastWrite, credit>>
      PROVE  UNCHANGED Ledger!vars
  BY <1>1
<1>2. ASSUME NEW t \in Task, Enqueue(t) \/ EnqueueBootstrap(t)
      PROVE  Ledger!Next
  <2>1. Ledger!Submit(t)
    BY <1>2 DEF Enqueue, EnqueueBootstrap, Insert, historyVars, Ledger!Submit
  <2>. QED
    BY <2>1 DEF Ledger!Next
<1>3. ASSUME NEW t \in Task, Cleanup(t)
      PROVE  Ledger!Next
  <2>1. Ledger!Forget(t)
    BY <1>3 DEF Cleanup, historyVars, Ledger!Forget
  <2>. QED
    BY <2>1 DEF Ledger!Next
<1>4. ASSUME NEW f \in Field, NEW s \in Session, SetParticipation(f, s)
      PROVE  Ledger!Next
  <2>. DEFINE gone == IF enabled[f][s] THEN Revoked(f, s) ELSE {}
  <2>1. gone \in SUBSET Task /\ \A t \in gone : status[t] \in {"pending", "running"}
    BY DEF Revoked, Live
  <2>2. Ledger!Cancel(gone)
    BY <1>4, <2>1 DEF SetParticipation, historyVars, Ledger!Cancel
  <2>. QED
    BY <2>1, <2>2 DEF Ledger!Next
<1>5. ASSUME NEW w \in Worker, NEW t \in Task, Claim(w, t)
      PROVE  Ledger!Next
  <2>1. Ledger!Lease(t)
    BY <1>5 DEF Claim, Claimable, historyVars, Ledger!Lease
  <2>. QED
    BY <2>1 DEF Ledger!Next
<1>6. ASSUME NEW w \in Worker, Complete(w)
      PROVE  Ledger!Next \/ UNCHANGED Ledger!vars
  <2>1. UNCHANGED <<claims, retries, lastWrite>>
    BY <1>6 DEF Complete
  <2>2. CASE ~Owns(w)
    BY <1>1, <1>6, <2>1, <2>2 DEF Complete
  <2>3. CASE Owns(w) /\ (scoped[w] => Unchanged(w))
    <3>1. /\ status' = [status EXCEPT ![job[w]] = "completed"]
          /\ token' = [token EXCEPT ![job[w]] = @]
          /\ credit' = [credit EXCEPT ![job[w]] = ticket[w]]
      BY <1>6, <2>3 DEF Complete
    <3>2. Ledger!Settle(job[w])
      BY <2>1, <2>3, <3>1, OwnedRow DEF Ledger!Settle, TypeOK
    <3>. QED
      BY <2>3, <3>2, OwnedRow DEF Ledger!Next
  <2>4. CASE Owns(w) /\ ~(scoped[w] => Unchanged(w))
    <3>1. /\ status' = [status EXCEPT ![job[w]] = "cancelled"]
          /\ token' = [token EXCEPT ![job[w]] = 0]
          /\ credit' = [credit EXCEPT ![job[w]] = @]
      BY <1>6, <2>4 DEF Complete
    <3>2. Ledger!Cancel({job[w]})
      BY <2>1, <2>4, <3>1, OwnedRow DEF Ledger!Cancel, TypeOK
    <3>. QED
      BY <2>4, <3>2, OwnedRow DEF Ledger!Next
  <2>. QED
    BY <2>2, <2>3, <2>4
<1>7. ASSUME NEW w \in Worker, Fail(w)
      PROVE  Ledger!Next \/ UNCHANGED Ledger!vars
  <2>1. UNCHANGED <<claims, lastWrite>>
    BY <1>7 DEF Fail
  <2>2. CASE ~Owns(w)
    BY <1>1, <1>7, <2>1, <2>2 DEF Fail
  <2>3. CASE Owns(w) /\ LastAttempt(job[w])
    <3>1. /\ status' = [status EXCEPT ![job[w]] = "failed"]
          /\ token' = [token EXCEPT ![job[w]] = @]
          /\ credit' = [credit EXCEPT ![job[w]] = ticket[w]]
          /\ retries' = [retries EXCEPT ![job[w]] = @ + 1]
      BY <1>7, <2>3 DEF Fail
    <3>2. Ledger!Settle(job[w])
      BY <2>1, <2>3, <3>1, OwnedRow DEF Ledger!Settle, LastAttempt, TypeOK
    <3>. QED
      BY <2>3, <3>2, OwnedRow DEF Ledger!Next
  <2>4. CASE Owns(w) /\ ~LastAttempt(job[w])
    <3>1. /\ status' = [status EXCEPT ![job[w]] = "pending"]
          /\ token' = [token EXCEPT ![job[w]] = 0]
          /\ credit' = [credit EXCEPT ![job[w]] = @]
          /\ retries' = [retries EXCEPT ![job[w]] = @ + 1]
      BY <1>7, <2>4 DEF Fail
    <3>2. retries[job[w]] + 1 < MaxRetries
      BY <2>4, OwnedRow, ConstantsAssumption DEF LastAttempt, TypeOK
    <3>3. Ledger!Retry(job[w])
      BY <2>1, <2>4, <3>1, <3>2, OwnedRow DEF Ledger!Retry, TypeOK
    <3>. QED
      BY <2>4, <3>3, OwnedRow DEF Ledger!Next
  <2>. QED
    BY <2>2, <2>3, <2>4
<1>8. ASSUME NEW w \in Worker, WriteDerived(w)
      PROVE  Ledger!Next
  <2>1. Owns(w)
    BY <1>8 DEF WriteDerived, ScopeValid
  <2>2. Ledger!Apply(job[w])
    BY <1>8, <2>1, OwnedRow DEF WriteDerived, rowVars, Ledger!Apply
  <2>. QED
    BY <2>1, <2>2, OwnedRow DEF Ledger!Next
<1>9. CASE ResetStale
  <2>1. LostRows \in SUBSET Task /\ \A t \in LostRows : status[t] = "running"
    BY DEF LostRows
  <2>2. Ledger!Reclaim(LostRows)
    BY <1>9, <2>1 DEF ResetStale, historyVars, Ledger!Reclaim
  <2>. QED
    BY <2>1, <2>2 DEF Ledger!Next
<1>10. ASSUME NEW w \in Worker,
              \/ BeginSummary(w) \/ BeginAnalysis(w) \/ BeginIntention(w)
              \/ WriteIntention(w) \/ Finish(w) \/ Skip(w) \/ Break(w)
              \/ Heartbeat(w) \/ HeartbeatDies(w) \/ Crash(w)
       PROVE  UNCHANGED Ledger!vars
  BY <1>1, <1>10 DEF BeginSummary, BeginAnalysis, BeginIntention, WriteIntention,
     Finish, Skip, Break, Heartbeat, HeartbeatDies, Crash, rowVars, historyVars
<1>11. ASSUME NEW s \in Session, UserMessage(s) \/ StoreUserIntention(s)
       PROVE  UNCHANGED Ledger!vars
  BY <1>1, <1>11 DEF UserMessage, StoreUserIntention, rowVars, historyVars
<1>12. ASSUME NEW t \in Task, BecomeDue(t) \/ LeaseAge(t)
       PROVE  UNCHANGED Ledger!vars
  BY <1>1, <1>12 DEF BecomeDue, LeaseAge, historyVars
<1>13. CASE UNCHANGED vars
  BY <1>1, <1>13 DEF vars, rowVars, historyVars
<1>. QED
  BY <1>2, <1>3, <1>4, <1>5, <1>6, <1>7, <1>8, <1>9, <1>10, <1>11, <1>12, <1>13
     DEF Next, Produce, Execute

\* The queue, its workers and the opt-outs together keep the ledger's promises.
THEOREM QueueImplementsLedger == Spec => ImplementsLedger
BY InitLedger, SafeAlways, StepLedger, PTL DEF Spec, ImplementsLedger, Ledger!Spec
=============================================================================
