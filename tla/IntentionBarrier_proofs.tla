---------------------- MODULE IntentionBarrier_proofs ----------------------
(* Theorems about IntentionBarrier, for every value of its constants. *)
EXTENDS IntentionBarrier, TLAPS

\* A task that pauses has an attempt left.
AttemptsLeft == \A u \in Update : upd[u].task = "backoff" => upd[u].tries < MaxAttempts

\* The entry is of the last update, and the source event is its own.
EntryNewest ==
  /\ EntriesAgree
  /\ pending \in {0, started}
  /\ source = IF pending = 0 THEN 0 ELSE upd[pending].seq

\* Nobody knows of a message before it was recorded.
Bounded ==
  /\ heard <= latest /\ intention <= latest
  /\ \A r \in Request : req[r].seq <= latest
  /\ \A u \in Update : /\ upd[u].seq <= latest /\ upd[u].at <= rev
                       /\ upd[u].text <= upd[u].last /\ upd[u].last <= latest

\* An entry with a source event is of the message heard last, ...
EntryHeard == pending # 0 /\ upd[pending].seq # 0 => heard = upd[pending].seq

\* ... and what its thread asks about, and may store, is that message.
AboutSource ==
  \A u \in Update :
    /\ upd[u].seq # 0
    /\ upd[u].thread = "fresh" \/ (upd[u].thread = "asked" /\ pending = u)
    => upd[u].text = upd[u].seq

\* The last update, unless it failed, was refused or was revoked: where its task
\* and its thread are, what it has read, ...
Placed(u) ==
  /\ ~upd[u].cancelled /\ upd[u].task # "none"
  /\ guardrails /\ upd[u].mode = mode
  /\ upd[u].task \in {"new", "call", "backoff"} => pending = u
  /\ upd[u].seq # 0 => heard = upd[u].seq
  /\ upd[u].thread = "idle" => upd[u].task = "new"
  /\ upd[u].thread \in {"called", "asked", "fresh"} => upd[u].task = "call"
  /\ upd[u].thread = "failed" => upd[u].task \in {"call", "backoff"}
  /\ upd[u].task = "backoff" => upd[u].thread = "failed"

Informed(u) ==
  \/ upd[u].thread \in {"asked", "fresh", "stored", "failed"}
  \/ upd[u].thread = "called" /\ upd[u].tries > 1
  => upd[u].text = heard

\* ... why it stored nothing, ...
Outdated(u) ==
  upd[u].thread = "nothing" =>
    /\ upd[u].seq # 0 => upd[u].seq < latest
    /\ upd[u].seq = 0 => heard < latest

\* ... and that nothing older replaces what it stored.
Reflected(u) ==
  upd[u].thread = "stored" =>
    /\ /\ heard = latest
       /\ single \/ \A v \in 1..started : upd[v].seq # 0
       => intention = latest
    /\ \A v \in 1..started : v # u /\ upd[v].thread = "fresh" => upd[v].at < rev

OwedBy(u) == Placed(u) /\ Informed(u) /\ Outdated(u) /\ Reflected(u)

Owed == \A u \in Update : u = started /\ ~excused => OwedBy(u)

IInv ==
  /\ TypeOK /\ AttemptsLeft /\ CurrentIsAwaited /\ EntryNewest /\ Bounded
  /\ EntryHeard /\ AboutSource /\ Owed

-----------------------------------------------------------------------------
(* Types *)

LEMMA Numbers ==
  /\ MaxMessages \in Nat /\ MaxOthers \in Nat /\ MaxUpdates \in Nat
  /\ MaxAttempts \in Nat /\ MaxAttempts >= 1
  /\ Update \subseteq Nat \ {0} /\ Message \subseteq Nat \ {0}
BY IntentionAssumption DEF Update, Message

\* What changes of an update.
LEMMA JobTyped ==
  ASSUME NEW j \in Job
  PROVE  /\ [j EXCEPT !.cancelled = TRUE, !.event = TRUE] \in Job
         /\ [j EXCEPT !.task = "yield", !.event = TRUE, !.cancelled = FALSE] \in Job
         /\ [j EXCEPT !.task = "gone"] \in Job
         /\ [j EXCEPT !.task = "backoff"] \in Job
         /\ \A t \in {"asked", "fresh", "stored", "nothing", "failed"} :
              [j EXCEPT !.thread = t] \in Job
BY DEF Job

LEMMA CalledTyped ==
  ASSUME NEW j \in Job, NEW n \in 0..MaxAttempts
  PROVE  \A a \in {"gone", "call"}, t \in {"idle", "called"} :
           [j EXCEPT !.task = a, !.thread = t, !.tries = n] \in Job
BY DEF Job

LEMMA ReadTyped ==
  ASSUME NEW j \in Job, NEW m \in {0} \cup Message, NEW l \in {0} \cup Message, NEW n \in Nat
  PROVE  \A t \in {"asked", "nothing"} :
           [j EXCEPT !.thread = t, !.text = m, !.last = l, !.at = n] \in Job
BY DEF Job

LEMMA NewJobTyped ==
  ASSUME NEW s \in {0} \cup Message, mode \in Nat
  PROVE  /\ NewJob(s) \in Job
         /\ NewJob(s).task = "new" /\ NewJob(s).thread = "idle" /\ NewJob(s).seq = s
         /\ NewJob(s).mode = mode /\ ~NewJob(s).cancelled /\ ~NewJob(s).event
         /\ NewJob(s).text = 0 /\ NewJob(s).last = 0 /\ NewJob(s).at = 0
<1>1. /\ NoJob \in Job /\ NoJob.thread = "idle" /\ ~NoJob.cancelled /\ ~NoJob.event
      /\ NoJob.text = 0 /\ NoJob.last = 0 /\ NoJob.at = 0
  BY Numbers DEF NoJob, Job
<1>2. ASSUME NEW j \in Job, NEW m \in Nat
      PROVE  LET k == [j EXCEPT !.task = "new", !.seq = s, !.mode = m]
             IN  /\ k \in Job
                 /\ k.task = "new" /\ k.seq = s /\ k.mode = m /\ k.thread = j.thread
                 /\ k.cancelled = j.cancelled /\ k.event = j.event
                 /\ k.text = j.text /\ k.last = j.last /\ k.at = j.at
  BY DEF Job
<1> QED BY <1>1, <1>2 DEF NewJob

LEMMA StoppedTyped ==
  ASSUME upd \in [Update -> Job], NEW u \in {0} \cup Update
  PROVE  /\ Stopped(u) \in [Update -> Job]
         /\ \A v \in Update :
              /\ v # u \/ Done(u) => Stopped(u)[v] = upd[v]
              /\ Stopped(u)[v].seq = upd[v].seq /\ Stopped(u)[v].mode = upd[v].mode
              /\ Stopped(u)[v].thread = upd[v].thread /\ Stopped(u)[v].task = upd[v].task
              /\ Stopped(u)[v].tries = upd[v].tries /\ Stopped(u)[v].text = upd[v].text
              /\ Stopped(u)[v].last = upd[v].last /\ Stopped(u)[v].at = upd[v].at
              /\ v = u /\ ~Done(u) => Stopped(u)[v].cancelled
<1>1. CASE u = 0 \/ Done(u)
  BY <1>1, Numbers DEF Stopped
<1>2. CASE ~(u = 0 \/ Done(u))
  <2> DEFINE j == [upd[u] EXCEPT !.cancelled = TRUE, !.event = TRUE]
  <2>1. u \in Update /\ upd[u] \in Job
    BY <1>2
  <2>2. /\ j \in Job
        /\ j.seq = upd[u].seq /\ j.mode = upd[u].mode /\ j.thread = upd[u].thread
        /\ j.task = upd[u].task /\ j.tries = upd[u].tries /\ j.text = upd[u].text
        /\ j.last = upd[u].last /\ j.at = upd[u].at /\ j.cancelled
    <3>1. j \in Job
      BY <2>1, JobTyped
    <3> QED BY <2>1, <3>1 DEF Job
  <2>3. Stopped(u) = [upd EXCEPT ![u] = j]
    BY <1>2 DEF Stopped
  <2> HIDE DEF j
  <2>4. /\ Stopped(u) \in [Update -> Job] /\ Stopped(u)[u] = j
        /\ \A v \in Update : v # u => Stopped(u)[v] = upd[v]
    BY <2>1, <2>2, <2>3
  <2>5. \A v \in Update : v = u => Stopped(u)[v].cancelled
    BY <2>2, <2>4
  <2>6. \A v \in Update :
          /\ Stopped(u)[v].seq = upd[v].seq /\ Stopped(u)[v].mode = upd[v].mode
          /\ Stopped(u)[v].thread = upd[v].thread /\ Stopped(u)[v].task = upd[v].task
          /\ Stopped(u)[v].tries = upd[v].tries /\ Stopped(u)[v].text = upd[v].text
          /\ Stopped(u)[v].last = upd[v].last /\ Stopped(u)[v].at = upd[v].at
    BY <2>2, <2>4
  <2> QED BY <1>2, <2>4, <2>5, <2>6
<1> QED BY <1>1, <1>2

LEMMA InitTyped == Init => TypeOK
<1> SUFFICES ASSUME Init PROVE TypeOK
  OBVIOUS
<1>1. NoJob \in Job
  BY Numbers DEF NoJob, Job
<1>2. upd \in [Update -> Job]
  BY <1>1 DEF Init
<1>3. /\ latest \in {0} \cup Message /\ eligible \subseteq Message /\ rev \in Nat
      /\ mode \in Nat /\ heard \in {0} \cup Message /\ intention \in {0} \cup Message
      /\ budget \in 0..MaxOthers
  BY Numbers DEF Init
<1>4. /\ pending \in {0} \cup Update /\ token \in {0} \cup Update
      /\ stamp \in {0} \cup Update /\ source \in {0} \cup Message
      /\ started \in {0} \cup Update
  BY DEF Init
<1>5. /\ req \in [Request -> [at : {"new", "resolved", "done"}, seq : {0} \cup Message]]
      /\ eval \in [Evaluation -> [at : {"new", "waiting", "passed", "late"},
                                   on : {0} \cup Update]]
  BY DEF Init
<1>6. single \in Generations /\ guardrails \in BOOLEAN /\ patch \in BOOLEAN
      /\ excused \in BOOLEAN
  BY DEF Init
<1> QED BY <1>2, <1>3, <1>4, <1>5, <1>6 DEF TypeOK

Entries ==
  /\ pending \in {0} \cup Update /\ token \in {0} \cup Update
  /\ stamp \in {0} \cup Update /\ source \in {0} \cup Message
  /\ started \in {0} \cup Update
  /\ upd \in [Update -> Job]
  /\ excused \in BOOLEAN

LEMMA InvalidateTyped ==
  ASSUME TypeOK, Invalidate
  PROVE  Entries'
BY StoppedTyped DEF TypeOK, Invalidate, Entries

LEMMA RestartTyped ==
  ASSUME TypeOK, NEW s \in {0} \cup Message, Restart(s)
  PROVE  Entries'
<1>1. started + 1 \in Update
  BY Numbers DEF TypeOK, Restart, Update
<1>2. NewJob(s) \in Job /\ Stopped(pending) \in [Update -> Job]
  BY NewJobTyped, StoppedTyped DEF TypeOK
<1>3. upd' \in [Update -> Job]
  BY <1>1, <1>2 DEF Restart
<1> QED BY <1>1, <1>3 DEF Restart, Entries

LEMMA TriggerTyped ==
  ASSUME TypeOK, NEW s \in {0} \cup Message, Trigger(s) \/ Invalidate
  PROVE  Entries'
<1>1. CASE Invalidate
  BY <1>1, InvalidateTyped
<1>2. CASE Restart(s)
  BY <1>2, RestartTyped
<1>3. CASE UNCHANGED <<entries, started, upd, excused>>
  BY <1>3 DEF TypeOK, Entries, entries
<1> QED BY <1>1, <1>2, <1>3 DEF Trigger

LEMMA Spent ==
  ASSUME TypeOK, Spend
  PROVE  budget' \in 0..MaxOthers
BY Numbers DEF TypeOK, Spend

LEMMA RecordTyped ==
  ASSUME TypeOK, NEW able \in BOOLEAN, Record(able)
  PROVE  TypeOK'
<1>1. latest + 1 \in Message
  BY Numbers DEF TypeOK, Record, Message
<1> QED BY <1>1 DEF TypeOK, Record, entries

LEMMA RequestTyped ==
  ASSUME TypeOK, NEW r \in Request, Resolve(r) \/ Reason(r)
  PROVE  TypeOK'
<1>1. CASE Resolve(r)
  BY <1>1 DEF TypeOK, Resolve, row, entries
<1>2. CASE Reason(r)
  <2>1. req[r].seq \in {0} \cup Message
    BY DEF TypeOK
  <2>2. /\ req' \in [Request -> [at : {"new", "resolved", "done"}, seq : {0} \cup Message]]
        /\ heard' \in {0} \cup Message
    BY <1>2, <2>1 DEF TypeOK, Reason
  <2>3. Entries'
    <3>1. CASE UNCHANGED <<entries, started, upd, excused>>
      BY <3>1 DEF TypeOK, Entries, entries
    <3>2. CASE Trigger(req[r].seq) \/ Invalidate
      BY <2>1, <3>2, TriggerTyped
    <3> QED BY <1>2, <3>1, <3>2 DEF Reason
  <2> QED BY <1>2, <2>2, <2>3 DEF TypeOK, Reason, Entries
<1> QED BY <1>1, <1>2

LEMMA NoteTyped ==
  ASSUME TypeOK, Note
  PROVE  TypeOK'
<1>1. Entries' /\ budget' \in 0..MaxOthers
  BY TriggerTyped, Spent DEF Note
<1> QED BY <1>1 DEF TypeOK, Note, Entries

LEMMA OthersTyped ==
  ASSUME TypeOK, Toggle \/ Forget \/ Write
  PROVE  TypeOK'
<1>1. CASE Toggle
  <2>1. budget' \in 0..MaxOthers
    BY <1>1, Spent DEF Toggle
  <2> QED BY <1>1, <2>1 DEF TypeOK, Toggle, entries
<1>2. CASE Forget
  <2>1. Entries'
    BY <1>2, InvalidateTyped DEF Forget
  <2> QED BY <1>2, <2>1 DEF TypeOK, Forget, Entries, row
<1>3. CASE Write
  <2>1. budget' \in 0..MaxOthers
    BY <1>3, Spent DEF Write
  <2> QED BY <1>3, <2>1 DEF TypeOK, Write, entries
<1> QED BY <1>1, <1>2, <1>3

LEMMA EvaluationTyped ==
  ASSUME TypeOK, NEW e \in Evaluation, Enter(e) \/ Released(e) \/ TimesOut(e)
  PROVE  TypeOK'
<1>1. eval' \in [Evaluation -> [at : {"new", "waiting", "passed", "late"}, on : {0} \cup Update]]
  BY DEF TypeOK, Enter, Released, TimesOut
<1>2. Entries'
  <2>1. CASE Invalidate
    BY <2>1, InvalidateTyped
  <2>2. CASE UNCHANGED <<entries, started, upd, excused>>
    BY <2>2 DEF TypeOK, Entries, entries
  <2> QED BY <2>1, <2>2 DEF Enter, Released, TimesOut
<1>3. EvalOnly
  BY DEF Enter, Released, TimesOut
<1> QED BY <1>1, <1>2, <1>3 DEF TypeOK, EvalOnly, Entries, row

-----------------------------------------------------------------------------
(* The barrier's entry points and the clients *)

LEMMA JobNumbers ==
  ASSUME NEW j \in Job
  PROVE  /\ j.seq \in {0} \cup Message /\ j.mode \in Nat /\ j.at \in Nat
         /\ j.seq \in Nat /\ j.text \in Nat /\ j.last \in Nat /\ j.tries \in Nat
         /\ j.tries <= MaxAttempts
<1>1. {0} \cup Message \subseteq Nat
  BY Numbers
<1>2. /\ j.seq \in {0} \cup Message /\ j.mode \in Nat /\ j.at \in Nat
      /\ j.text \in {0} \cup Message /\ j.last \in {0} \cup Message
      /\ j.tries \in 0..MaxAttempts
  BY DEF Job
<1>3. j.tries \in Nat /\ j.tries <= MaxAttempts
  BY <1>2, Numbers
<1> QED BY <1>1, <1>2, <1>3

LEMMA RowNumbers ==
  TypeOK => /\ latest \in Nat /\ rev \in Nat /\ heard \in Nat /\ intention \in Nat
            /\ mode \in Nat /\ started \in Nat /\ pending \in Nat
            /\ \A r \in Request : req[r].seq \in {0} \cup Message /\ req[r].seq \in Nat
            /\ \A u \in Update : upd[u] \in Job
            /\ \A u \in 1..started : u \in Update
<1> SUFFICES ASSUME TypeOK
             PROVE  /\ latest \in Nat /\ rev \in Nat /\ heard \in Nat /\ intention \in Nat
                    /\ mode \in Nat /\ started \in Nat /\ pending \in Nat
                    /\ \A r \in Request : req[r].seq \in {0} \cup Message /\ req[r].seq \in Nat
                    /\ \A u \in Update : upd[u] \in Job
                    /\ \A u \in 1..started : u \in Update
  OBVIOUS
<1>0. {0} \cup Message \subseteq Nat /\ {0} \cup Update \subseteq Nat
  BY Numbers
<1>1. /\ latest \in Nat /\ rev \in Nat /\ heard \in Nat /\ intention \in Nat
      /\ mode \in Nat /\ started \in Nat /\ pending \in Nat
  BY <1>0 DEF TypeOK
<1>2. \A r \in Request : req[r].seq \in {0} \cup Message /\ req[r].seq \in Nat
  <2>1. \A r \in Request : req[r].seq \in {0} \cup Message
    BY DEF TypeOK
  <2> QED BY <1>0, <2>1
<1>3. \A u \in Update : upd[u] \in Job
  BY DEF TypeOK
<1>4. started \in {0} \cup Update
  BY DEF TypeOK
<1>5. \A u \in 1..started : u \in Update
  BY <1>4, Numbers DEF Update
<1> QED BY <1>1, <1>2, <1>3, <1>5

\* What neither updates nor entries notice.
LEMMA QuietStep ==
  ASSUME IInv, TypeOK',
         UNCHANGED <<single, heard, intention, guardrails, mode, entries, started, upd, excused>>,
         latest <= latest', rev <= rev',
         \A r \in Request : req'[r].seq <= latest'
  PROVE  IInv'
<1>0. /\ latest \in Nat /\ rev \in Nat /\ heard \in Nat /\ intention \in Nat
      /\ \A u \in Update : upd[u] \in Job
      /\ \A u \in 1..started : u \in Update
      /\ latest' \in Nat /\ rev' \in Nat
  <2>1. TypeOK
    BY DEF IInv
  <2>2. latest' \in Nat /\ rev' \in Nat
    BY Numbers DEF TypeOK
  <2> QED BY <2>1, <2>2, RowNumbers
<1>1. AttemptsLeft' /\ CurrentIsAwaited'
  BY DEF IInv, AttemptsLeft, CurrentIsAwaited, Live, entries
<1>2. EntryNewest' /\ EntryHeard' /\ AboutSource'
  BY DEF IInv, EntryNewest, EntriesAgree, EntryHeard, AboutSource, entries
<1>3. Bounded'
  <2>1. heard' <= latest' /\ intention' <= latest'
    BY <1>0 DEF IInv, Bounded
  <2>2. ASSUME NEW u \in Update
        PROVE  /\ upd'[u].seq <= latest' /\ upd'[u].at <= rev'
               /\ upd'[u].text <= upd'[u].last /\ upd'[u].last <= latest'
    <3>1. upd[u] \in Job /\ upd' = upd
      BY <1>0
    <3>2. /\ upd[u].seq <= latest /\ upd[u].at <= rev
          /\ upd[u].text <= upd[u].last /\ upd[u].last <= latest
      BY DEF IInv, Bounded
    <3> QED BY <1>0, <3>1, <3>2, JobNumbers
  <2> QED BY <2>1, <2>2 DEF Bounded
<1>4. Owed'
  <2> SUFFICES ASSUME NEW u \in Update, u = started, ~excused
               PROVE  OwedBy(u)'
    BY DEF Owed
  <2>1. OwedBy(u) /\ upd[u] \in Job /\ pending' = pending
    BY <1>0 DEF IInv, Owed, entries
  <2>2. Placed(u)' /\ Informed(u)'
    BY <2>1 DEF OwedBy, Placed, Informed
  <2>3. heard <= latest /\ upd[u].seq \in Nat
    BY <2>1, JobNumbers DEF IInv, Bounded
  <2>4. Outdated(u)'
    BY <1>0, <2>1, <2>3 DEF OwedBy, Outdated
  <2>5. ASSUME NEW v \in 1..started, upd[v].at < rev PROVE upd[v].at < rev'
    BY <1>0, <2>5, JobNumbers
  <2>6. Reflected(u)'
    BY <1>0, <2>1, <2>3, <2>5 DEF OwedBy, Reflected
  <2> QED BY <2>2, <2>4, <2>6 DEF OwedBy
<1> QED BY <1>1, <1>2, <1>3, <1>4 DEF IInv

\* What a step owes to the bounds: no number of a job grows, those of the row may.
LEMMA BoundedStep ==
  ASSUME TypeOK, TypeOK', Bounded, latest <= latest', rev <= rev',
         heard' <= latest', intention' <= latest',
         \A r \in Request : req'[r].seq <= latest',
         \A u \in Update :
           \/ /\ upd'[u].seq = upd[u].seq /\ upd'[u].at = upd[u].at
              /\ upd'[u].text = upd[u].text /\ upd'[u].last = upd[u].last
           \/ /\ upd'[u].seq <= latest' /\ upd'[u].at <= rev'
              /\ upd'[u].text <= upd'[u].last /\ upd'[u].last <= latest'
  PROVE  Bounded'
<1>1. /\ latest \in Nat /\ rev \in Nat /\ latest' \in Nat /\ rev' \in Nat
      /\ \A u \in Update : upd[u] \in Job
  <2>1. {0} \cup Message \subseteq Nat
    BY Numbers
  <2>2. latest' \in Nat /\ rev' \in Nat
    BY <2>1 DEF TypeOK
  <2> QED BY <2>2, RowNumbers
<1>2. ASSUME NEW u \in Update
      PROVE  /\ upd'[u].seq <= latest' /\ upd'[u].at <= rev'
             /\ upd'[u].text <= upd'[u].last /\ upd'[u].last <= latest'
  <2>1. /\ upd[u].seq <= latest /\ upd[u].at <= rev
        /\ upd[u].text <= upd[u].last /\ upd[u].last <= latest
    BY DEF Bounded
  <2>2. /\ upd[u].seq \in Nat /\ upd[u].at \in Nat /\ upd[u].last \in Nat
    BY <1>1, JobNumbers
  <2>3. /\ upd[u].seq <= latest' /\ upd[u].at <= rev'
        /\ upd[u].text <= upd[u].last /\ upd[u].last <= latest'
    BY <1>1, <2>1, <2>2
  <2> QED BY <2>3
<1> QED BY <1>2 DEF Bounded

\* A revoked update is not awaited, and nothing is owed of it.
LEMMA InvalidateStep ==
  ASSUME IInv, TypeOK', Invalidate, UNCHANGED <<latest, intention>>,
         heard' <= latest', rev <= rev', \A r \in Request : req'[r].seq <= latest'
  PROVE  IInv'
<1>1. TypeOK /\ pending \in {0} \cup Update /\ upd \in [Update -> Job]
  BY DEF IInv, TypeOK
<1>2. \A u \in Update :
        /\ u # pending \/ Done(pending) => upd'[u] = upd[u]
        /\ upd'[u].seq = upd[u].seq /\ upd'[u].thread = upd[u].thread
        /\ upd'[u].task = upd[u].task /\ upd'[u].tries = upd[u].tries
        /\ upd'[u].text = upd[u].text /\ upd'[u].last = upd[u].last /\ upd'[u].at = upd[u].at
        /\ u = pending /\ ~Done(pending) => upd'[u].cancelled
  BY <1>1, StoppedTyped DEF Invalidate
<1>3. AttemptsLeft'
  BY <1>2 DEF IInv, AttemptsLeft
<1>4. CurrentIsAwaited'
  BY <1>2 DEF IInv, CurrentIsAwaited, Live, Done
<1>5. EntryNewest' /\ EntryHeard'
  BY DEF EntryNewest, EntriesAgree, EntryHeard, Invalidate
<1>6. AboutSource'
  <2>1. pending' = 0 /\ 0 \notin Update
    BY Numbers DEF Invalidate
  <2> QED BY <1>2, <2>1 DEF IInv, AboutSource
<1>7. Bounded'
  <2>1. latest <= latest' /\ intention' <= latest'
    BY <1>1, RowNumbers DEF IInv, Bounded
  <2> QED BY <1>1, <1>2, <2>1, BoundedStep DEF IInv
<1>8. Owed'
  BY DEF Owed, Invalidate
<1> QED BY <1>3, <1>4, <1>5, <1>6, <1>7, <1>8 DEF IInv

\* A new update takes the place of the one before it.
LEMMA RestartStep ==
  ASSUME IInv, TypeOK', NEW s \in {0} \cup Message, Restart(s), guardrails,
         UNCHANGED <<latest, intention, guardrails, mode>>,
         s <= latest, s # 0 => heard' = s,
         heard' <= latest', rev <= rev', \A r \in Request : req'[r].seq <= latest'
  PROVE  IInv'
<1> DEFINE n == started + 1
<1>1. /\ TypeOK /\ pending \in {0} \cup Update /\ upd \in [Update -> Job]
      /\ mode \in Nat /\ started \in Nat /\ rev' \in Nat /\ latest \in Nat
  BY RowNumbers DEF IInv, TypeOK
<1>2. /\ n \in Update /\ pending # n /\ pending' = n /\ token' = n /\ stamp' = n
      /\ source' = s /\ started' = n /\ excused' = FALSE
  <2>1. n \in Update /\ pending' = n /\ token' = n /\ stamp' = n
        /\ source' = s /\ started' = n /\ excused' = FALSE
    BY <1>1, Numbers DEF Restart, Update
  <2>2. pending \in {0, started}
    BY DEF IInv, EntryNewest
  <2> QED BY <1>1, <2>1, <2>2
<1>3. upd'[n] = NewJob(s)
  BY <1>1, <1>2, StoppedTyped DEF Restart
<1>4. \A u \in Update : u # n =>
        /\ u # pending \/ Done(pending) => upd'[u] = upd[u]
        /\ upd'[u].seq = upd[u].seq /\ upd'[u].thread = upd[u].thread
        /\ upd'[u].task = upd[u].task /\ upd'[u].tries = upd[u].tries
        /\ upd'[u].text = upd[u].text /\ upd'[u].last = upd[u].last /\ upd'[u].at = upd[u].at
        /\ u = pending /\ ~Done(pending) => upd'[u].cancelled
  <2>1. \A u \in Update : u # n => upd'[u] = Stopped(pending)[u]
    BY <1>1, <1>2, StoppedTyped DEF Restart
  <2> QED BY <1>1, <2>1, StoppedTyped
<1>5. /\ upd'[n].task = "new" /\ upd'[n].thread = "idle" /\ upd'[n].seq = s
      /\ upd'[n].mode = mode /\ ~upd'[n].cancelled /\ ~upd'[n].event
      /\ upd'[n].text = 0 /\ upd'[n].last = 0 /\ upd'[n].at = 0
  BY <1>1, <1>3, NewJobTyped
<1> HIDE DEF n
<1>6. AttemptsLeft'
  BY <1>4, <1>5 DEF IInv, AttemptsLeft
<1>7. CurrentIsAwaited'
  BY <1>2, <1>4, <1>5 DEF IInv, CurrentIsAwaited, Live, Done
<1>8. EntryNewest' /\ EntryHeard'
  BY <1>2, <1>5, Numbers DEF EntryNewest, EntriesAgree, EntryHeard
<1>9. AboutSource'
  BY <1>2, <1>4, <1>5 DEF IInv, AboutSource
<1>10. Bounded'
  <2>1. latest <= latest' /\ intention' <= latest' /\ 0 <= rev' /\ 0 <= latest' /\ 0 <= 0
    BY <1>1, RowNumbers DEF IInv, Bounded
  <2>2. \A u \in Update :
          \/ /\ upd'[u].seq = upd[u].seq /\ upd'[u].at = upd[u].at
             /\ upd'[u].text = upd[u].text /\ upd'[u].last = upd[u].last
          \/ /\ upd'[u].seq <= latest' /\ upd'[u].at <= rev'
             /\ upd'[u].text <= upd'[u].last /\ upd'[u].last <= latest'
    BY <1>4, <1>5, <2>1
  <2> QED BY <1>1, <2>1, <2>2, BoundedStep DEF IInv
<1>11. Owed'
  <2> SUFFICES ASSUME NEW u \in Update, u = n PROVE OwedBy(u)'
    BY <1>2 DEF Owed
  <2>1. Placed(u)'
    BY <1>2, <1>5 DEF Placed
  <2> QED BY <1>5, <2>1 DEF OwedBy, Informed, Outdated, Reflected
<1> QED BY <1>6, <1>7, <1>8, <1>9, <1>10, <1>11 DEF IInv

LEMMA TriggerStep ==
  ASSUME IInv, TypeOK', NEW s \in {0} \cup Message, Trigger(s),
         UNCHANGED <<single, latest, intention, guardrails, mode>>,
         s <= latest, s # 0 => heard' = s /\ heard # s, s = 0 => heard' = heard,
         rev <= rev', \A r \in Request : req'[r].seq <= latest'
  PROVE  IInv'
<1>1. TypeOK /\ latest \in Nat /\ heard <= latest /\ heard' <= latest'
  BY RowNumbers DEF IInv, Bounded
<1>2. CASE Invalidate
  BY <1>1, <1>2, InvalidateStep
<1>3. CASE guardrails /\ Restart(s)
  BY <1>1, <1>3, RestartStep
\* The entry is of the message heard last: no request asks for it again.
<1>4. CASE Running(s)
  BY <1>4 DEF Running, IInv, EntryNewest, EntryHeard
<1> QED BY <1>2, <1>3, <1>4 DEF Trigger

LEMMA RequestStep ==
  ASSUME IInv, NEW r \in Request, Resolve(r) \/ Reason(r)
  PROVE  IInv'
<1>1. TypeOK /\ TypeOK' /\ req \in [Request -> [at : {"new", "resolved", "done"},
                                               seq : {0} \cup Message]]
  BY RequestTyped DEF IInv, TypeOK
<1>2. latest \in Nat /\ rev \in Nat /\ \A q \in Request : req[q].seq <= latest
  BY <1>1, RowNumbers DEF IInv, Bounded
<1>3. CASE Resolve(r)
  <2>1. \A q \in Request : req'[q].seq <= latest'
    BY <1>1, <1>2, <1>3 DEF Resolve, row
  <2> QED BY <1>1, <1>2, <1>3, <2>1, QuietStep DEF Resolve, row
<1>4. CASE Reason(r)
  <2> DEFINE s == req[r].seq
  <2>1. /\ \A q \in Request : req'[q].seq = req[q].seq
        /\ s \in {0} \cup Message /\ s <= latest
        /\ latest' = latest /\ rev' = rev
    BY <1>1, <1>2, <1>4 DEF Reason
  <2>2. CASE heard = s /\ UNCHANGED <<heard, entries, started, upd, excused>>
    BY <1>1, <1>2, <1>4, <2>1, <2>2, QuietStep DEF Reason
  <2>3. CASE heard # s /\ s \in eligible /\ heard' = s /\ Trigger(s)
    <3>1. s # 0
      BY <1>1, <2>3, Numbers DEF TypeOK
    <3> QED BY <1>1, <1>2, <1>4, <2>1, <2>3, <3>1, TriggerStep DEF Reason
  <2>4. CASE heard' = s /\ Invalidate
    BY <1>1, <1>2, <1>4, <2>1, <2>4, InvalidateStep DEF Reason
  <2> QED BY <1>4, <2>2, <2>3, <2>4 DEF Reason
<1> QED BY <1>3, <1>4

LEMMA ClientsStep ==
  ASSUME IInv, Clients
  PROVE  IInv'
<1>1. /\ TypeOK /\ latest \in Nat /\ rev \in Nat /\ heard \in Nat
      /\ heard <= latest /\ \A q \in Request : req[q].seq \in Nat /\ req[q].seq <= latest
  BY RowNumbers DEF IInv, Bounded
<1>2. ASSUME NEW able \in BOOLEAN, Record(able) PROVE IInv'
  <2>1. TypeOK'
    BY <1>1, <1>2, RecordTyped
  <2>2. \A q \in Request : req'[q].seq <= latest'
    BY <1>1, <1>2 DEF Record
  <2> QED BY <1>1, <1>2, <2>1, <2>2, QuietStep DEF Record
<1>3. ASSUME NEW r \in Request, Resolve(r) \/ Reason(r) PROVE IInv'
  BY <1>3, RequestStep
<1>4. CASE Note
  <2>1. TypeOK'
    BY <1>1, <1>4, NoteTyped
  <2> QED BY <1>1, <1>4, <2>1, TriggerStep DEF Note
<1>5. CASE Toggle
  <2>1. TypeOK'
    BY <1>1, <1>5, OthersTyped
  <2>2. AttemptsLeft' /\ CurrentIsAwaited' /\ EntryNewest' /\ EntryHeard' /\ AboutSource'
    BY <1>5 DEF Toggle, IInv, AttemptsLeft, CurrentIsAwaited, Live, EntryNewest, EntriesAgree,
                EntryHeard, AboutSource, entries
  <2>3. Bounded'
    BY <1>1, <1>5, <2>1, BoundedStep DEF Toggle, IInv, Bounded
  <2>4. Owed'
    BY <1>5 DEF Toggle, Owed
  <2> QED BY <2>1, <2>2, <2>3, <2>4 DEF IInv
<1>6. CASE Forget
  <2>1. TypeOK'
    BY <1>1, <1>6, OthersTyped
  <2> QED BY <1>1, <1>6, <2>1, InvalidateStep DEF Forget, row
<1>7. CASE Write
  <2>1. TypeOK'
    BY <1>1, <1>7, OthersTyped
  <2> QED BY <1>1, <1>7, <2>1, QuietStep DEF Write
<1> QED BY <1>2, <1>3, <1>4, <1>5, <1>6, <1>7 DEF Clients

LEMMA EvaluationStep ==
  ASSUME IInv, NEW e \in Evaluation, Enter(e) \/ Released(e) \/ TimesOut(e)
  PROVE  IInv'
<1>1. TypeOK /\ TypeOK'
  BY EvaluationTyped DEF IInv
<1>2. /\ UNCHANGED <<single, latest, rev, guardrails, mode, heard, intention, req>>
      /\ Invalidate \/ UNCHANGED <<entries, started, upd, excused>>
  BY DEF Enter, Released, TimesOut, EvalOnly, row
<1>3. /\ latest <= latest /\ rev <= rev /\ heard <= latest
      /\ \A q \in Request : req[q].seq <= latest
  BY <1>1, RowNumbers DEF IInv, Bounded
<1>4. CASE Invalidate
  BY <1>1, <1>2, <1>3, <1>4, InvalidateStep
<1>5. CASE UNCHANGED <<entries, started, upd, excused>>
  BY <1>1, <1>2, <1>3, <1>5, QuietStep
<1> QED BY <1>2, <1>4, <1>5

-----------------------------------------------------------------------------
(* Threads and tasks *)

\* A step of the thread or the task of one update that stores nothing: what has to
\* be shown of that update for the rest to follow.
LEMMA JobStep ==
  ASSUME IInv, NEW u \in 1..started, UNCHANGED <<row, req, entries, started, patch, eval, budget>>,
         excused' \in BOOLEAN, excused => excused',
         upd' \in [Update -> Job],
         \A v \in Update : v # u => upd'[v] = upd[v],
         upd'[u].seq = upd[u].seq,
         upd'[u].task = "backoff" => upd'[u].tries < MaxAttempts,
         Live(u)' => Live(u) /\ upd'[u].event = upd[u].event,
         \/ upd'[u].text = upd[u].text /\ upd'[u].last = upd[u].last /\ upd'[u].at = upd[u].at
         \/ upd'[u].at <= rev /\ upd'[u].text <= upd'[u].last /\ upd'[u].last <= latest,
         \/ upd'[u].thread \notin {"asked", "fresh"}
         \/ upd[u].seq # 0 /\ (upd'[u].thread = "fresh" \/ pending = u)
              => upd'[u].text = upd[u].seq,
         upd'[u].thread = "fresh" =>
           \/ u = started
           \/ upd[u].thread = "fresh" /\ upd'[u].at = upd[u].at,
         u = started /\ ~excused' => OwedBy(u)'
  PROVE  IInv'
<1>1. /\ TypeOK /\ u \in Update /\ latest \in Nat /\ rev \in Nat
      /\ \A v \in 1..started : v \in Update
  BY RowNumbers DEF IInv
<1>2. UNCHANGED <<single, latest, eligible, rev, guardrails, mode, heard, intention, req,
                  pending, token, stamp, source, started, patch, eval, budget>>
  BY DEF row, entries
<1>3. TypeOK'
  BY <1>1, <1>2 DEF TypeOK
<1>4. AttemptsLeft'
  BY DEF IInv, AttemptsLeft
<1>5. CurrentIsAwaited'
  <2> SUFFICES ASSUME NEW v \in Update, Live(v)' PROVE pending = v /\ ~upd'[v].event
    BY <1>2 DEF CurrentIsAwaited
  <2>1. CASE v = u
    BY <2>1 DEF IInv, CurrentIsAwaited
  <2>2. CASE v # u
    BY <2>2 DEF IInv, CurrentIsAwaited, Live
  <2> QED BY <2>1, <2>2
<1>6. EntryNewest' /\ EntryHeard'
  <2>1. \A v \in Update : upd'[v].seq = upd[v].seq
    BY <1>1
  <2>2. pending # 0 => pending \in Update
    BY <1>1 DEF TypeOK
  <2> QED BY <1>2, <2>1, <2>2 DEF IInv, EntryNewest, EntriesAgree, EntryHeard
<1>7. AboutSource'
  BY <1>2 DEF IInv, AboutSource
<1>8. Bounded'
  <2>1. \A v \in Update :
          \/ /\ upd'[v].seq = upd[v].seq /\ upd'[v].at = upd[v].at
             /\ upd'[v].text = upd[v].text /\ upd'[v].last = upd[v].last
          \/ /\ upd'[v].seq <= latest' /\ upd'[v].at <= rev'
             /\ upd'[v].text <= upd'[v].last /\ upd'[v].last <= latest'
    BY <1>1, <1>2 DEF IInv, Bounded
  <2>2. /\ latest <= latest' /\ rev <= rev' /\ heard' <= latest' /\ intention' <= latest'
        /\ \A r \in Request : req'[r].seq <= latest'
    BY <1>1, <1>2 DEF IInv, Bounded
  <2> QED BY <1>1, <1>3, <2>1, <2>2, BoundedStep DEF IInv
<1>9. Owed'
  <2> SUFFICES ASSUME NEW v \in Update, v = started, ~excused', v # u
               PROVE  OwedBy(v)'
    BY <1>2 DEF Owed
  <2>1. OwedBy(v) /\ upd'[v] = upd[v] /\ ~excused
    BY DEF IInv, Owed
  <2>2. Placed(v)' /\ Informed(v)' /\ Outdated(v)'
    BY <1>2, <2>1 DEF OwedBy, Placed, Informed, Outdated
  <2>3. \A w \in 1..started :
          /\ upd'[w].seq = upd[w].seq
          /\ upd'[w].thread = "fresh" => upd[w].thread = "fresh" /\ upd'[w].at = upd[w].at
    BY <1>1
  <2>4. Reflected(v)'
    BY <1>2, <2>1, <2>3 DEF OwedBy, Reflected
  <2> QED BY <2>2, <2>4 DEF OwedBy
<1> QED BY <1>3, <1>4, <1>5, <1>6, <1>7, <1>8, <1>9 DEF IInv

\* One job gives way to another.
LEMMA OneJob ==
  ASSUME upd \in [Update -> Job], NEW u \in Update, NEW j \in Job,
         upd' = [upd EXCEPT ![u] = j]
  PROVE  /\ upd' \in [Update -> Job] /\ upd'[u] = j
         /\ \A v \in Update : v # u => upd'[v] = upd[v]
OBVIOUS

LEMMA Where ==
  ASSUME IInv, NEW u \in 1..started
  PROVE  /\ TypeOK /\ u \in Update /\ u # 0 /\ upd \in [Update -> Job] /\ upd[u] \in Job
         /\ latest \in Nat /\ rev \in Nat /\ heard \in Nat /\ heard <= latest
         /\ heard \in {0} \cup Message /\ latest \in {0} \cup Message
         /\ upd[u].seq \in Nat /\ upd[u].seq <= latest
         /\ u = started /\ ~excused => OwedBy(u)
         /\ excused \in BOOLEAN
<1>1. TypeOK /\ u \in Update
  BY RowNumbers DEF IInv
<1>2. /\ upd \in [Update -> Job] /\ excused \in BOOLEAN
      /\ heard \in {0} \cup Message /\ latest \in {0} \cup Message
  BY <1>1 DEF TypeOK
<1>3. u # 0
  BY <1>1, Numbers
<1> QED BY <1>1, <1>2, <1>3, RowNumbers, JobNumbers DEF IInv, Bounded, Owed

LEMMA ReadStep ==
  ASSUME IInv, NEW u \in 1..started, Read(u)
  PROVE  IInv'
<1> DEFINE ok == /\ guardrails /\ upd[u].mode = mode
                 /\ heard # 0 \/ upd[u].seq = 0
                 /\ upd[u].tries > 1 => heard = upd[u].text
           j == [upd[u] EXCEPT !.thread = IF ok THEN "asked" ELSE "nothing",
                               !.text = IF ok THEN heard ELSE @,
                               !.last = IF ok THEN latest ELSE @,
                               !.at = IF ok THEN rev ELSE @]
<1>1. /\ TypeOK /\ u \in Update /\ u # 0 /\ upd \in [Update -> Job] /\ upd[u] \in Job
      /\ latest \in Nat /\ rev \in Nat /\ heard \in Nat /\ heard <= latest
      /\ heard \in {0} \cup Message /\ latest \in {0} \cup Message
  BY Where
<1>2. /\ j \in Job /\ j.task = upd[u].task /\ j.cancelled = upd[u].cancelled
      /\ j.event = upd[u].event /\ j.seq = upd[u].seq /\ j.mode = upd[u].mode
      /\ j.tries = upd[u].tries
      /\ ok => j.thread = "asked" /\ j.text = heard /\ j.last = latest /\ j.at = rev
      /\ ~ok => /\ j.thread = "nothing" /\ j.text = upd[u].text
                /\ j.last = upd[u].last /\ j.at = upd[u].at
  <2> HIDE DEF ok
  <2> QED BY <1>1 DEF Job
<1>3. upd' = [upd EXCEPT ![u] = j] /\ upd[u].thread = "called"
  BY DEF Read
<1>4. /\ UNCHANGED <<row, req, entries, started, patch, eval, budget>>
      /\ excused' = excused /\ excused' \in BOOLEAN
  BY Where DEF Read, ThreadOnly
<1> HIDE DEF j
<1>5. /\ upd' \in [Update -> Job] /\ upd'[u] = j
      /\ \A v \in Update : v # u => upd'[v] = upd[v]
  BY <1>1, <1>2, <1>3, OneJob
<1>6. CASE ok
  <2>1. upd[u].seq # 0 /\ pending = u => heard = upd[u].seq
    BY <1>1 DEF IInv, EntryHeard
  <2>2. ASSUME u = started, ~excused PROVE OwedBy(u)'
    <3>1. OwedBy(u)
      BY <2>2, Where
    <3>2. Placed(u)'
      BY <1>2, <1>3, <1>4, <1>5, <1>6, <3>1 DEF OwedBy, Placed, row, entries
    <3>3. Informed(u)' /\ Outdated(u)' /\ Reflected(u)'
      BY <1>2, <1>4, <1>5, <1>6 DEF Informed, Outdated, Reflected, row
    <3> QED BY <3>2, <3>3 DEF OwedBy
  <2>3. Live(u)' => Live(u) /\ upd'[u].event = upd[u].event
    BY <1>2, <1>5 DEF Live
  <2>4. upd'[u].task = "backoff" => upd'[u].tries < MaxAttempts
    BY <1>1, <1>2, <1>5 DEF IInv, AttemptsLeft
  <2>5. /\ upd'[u].seq = upd[u].seq /\ upd'[u].thread = "asked"
        /\ upd'[u].at <= rev /\ upd'[u].text <= upd'[u].last /\ upd'[u].last <= latest
        /\ upd[u].seq # 0 /\ pending = u => upd'[u].text = upd[u].seq
    BY <1>1, <1>2, <1>5, <1>6, <2>1
  <2> HIDE DEF ok
  <2> QED BY <1>1, <1>4, <1>5, <2>2, <2>3, <2>4, <2>5, JobStep
<1>7. CASE ~ok
  <2>1. ~(u = started /\ ~excused)
    <3> SUFFICES ASSUME u = started, ~excused PROVE FALSE
      OBVIOUS
    <3>1. Placed(u) /\ Informed(u)
      BY Where DEF OwedBy
    <3> QED BY <1>1, <1>3, <1>7, <3>1 DEF Placed, Informed
  <2>3. Live(u)' => Live(u) /\ upd'[u].event = upd[u].event
    BY <1>2, <1>5 DEF Live
  <2>4. upd'[u].task = "backoff" => upd'[u].tries < MaxAttempts
    BY <1>1, <1>2, <1>5 DEF IInv, AttemptsLeft
  <2>5. /\ upd'[u].seq = upd[u].seq /\ upd'[u].thread = "nothing"
        /\ upd'[u].text = upd[u].text /\ upd'[u].last = upd[u].last /\ upd'[u].at = upd[u].at
    BY <1>2, <1>5, <1>7
  <2> HIDE DEF ok
  <2> QED BY <1>1, <1>4, <1>5, <2>1, <2>3, <2>4, <2>5, JobStep
<1> QED BY <1>6, <1>7

At(j, t) == [j EXCEPT !.thread = t]

LEMMA ThreadTyped ==
  ASSUME NEW j \in Job, NEW t \in {"fresh", "stored", "nothing", "failed"}
  PROVE  /\ At(j, t) \in Job /\ At(j, t).thread = t /\ At(j, t).task = j.task
         /\ At(j, t).cancelled = j.cancelled /\ At(j, t).event = j.event
         /\ At(j, t).tries = j.tries /\ At(j, t).seq = j.seq /\ At(j, t).mode = j.mode
         /\ At(j, t).text = j.text /\ At(j, t).last = j.last /\ At(j, t).at = j.at
BY DEF Job, At

\* A thread goes on: nothing but its place changes.
LEMMA ThreadMoves ==
  ASSUME IInv, NEW u \in 1..started, NEW t \in {"fresh", "nothing", "failed"},
         upd' = [upd EXCEPT ![u].thread = t],
         UNCHANGED <<row, req, entries, started, patch, eval, budget>>,
         excused' \in BOOLEAN, excused => excused',
         t = "fresh" => u = pending /\ upd[u].thread = "asked",
         u = started /\ ~excused' =>
           /\ upd[u].thread \in {"asked", "fresh"}
           /\ t = "nothing" => /\ upd[u].seq # 0 => upd[u].seq < latest
                               /\ upd[u].seq = 0 => heard < latest
  PROVE  IInv'
<1> DEFINE j == At(upd[u], t)
<1>1. /\ u \in Update /\ u # 0 /\ upd \in [Update -> Job] /\ upd[u] \in Job
  BY Where
<1>2. /\ j \in Job /\ j.thread = t /\ j.task = upd[u].task /\ j.cancelled = upd[u].cancelled
      /\ j.event = upd[u].event /\ j.tries = upd[u].tries /\ j.seq = upd[u].seq
      /\ j.mode = upd[u].mode /\ j.text = upd[u].text /\ j.last = upd[u].last
      /\ j.at = upd[u].at
  BY <1>1, ThreadTyped
<1>3. upd' = [upd EXCEPT ![u] = j]
  BY DEF At
<1> HIDE DEF j
<1>4. /\ upd' \in [Update -> Job] /\ upd'[u] = j
      /\ \A v \in Update : v # u => upd'[v] = upd[v]
  BY <1>1, <1>2, <1>3, OneJob
<1>5. Live(u)' => Live(u) /\ upd'[u].event = upd[u].event
  BY <1>2, <1>4 DEF Live
<1>6. upd'[u].task = "backoff" => upd'[u].tries < MaxAttempts
  BY <1>1, <1>2, <1>4 DEF IInv, AttemptsLeft
<1>7. t = "fresh" => /\ u = started
                     /\ upd[u].seq # 0 => upd'[u].text = upd[u].seq
  <2> SUFFICES ASSUME t = "fresh"
               PROVE  u = started /\ (upd[u].seq # 0 => upd'[u].text = upd[u].seq)
    OBVIOUS
  <2>1. u = started
    BY <1>1 DEF IInv, EntryNewest
  <2>2. upd[u].seq # 0 => upd[u].text = upd[u].seq
    BY <1>1 DEF IInv, AboutSource
  <2> QED BY <1>2, <1>4, <2>1, <2>2
<1>8. ASSUME u = started, ~excused' PROVE OwedBy(u)'
  <2>1. OwedBy(u)
    BY <1>8, Where
  <2>2. Placed(u)'
    BY <1>2, <1>4, <1>8, <2>1 DEF OwedBy, Placed, row, entries
  <2>3. Informed(u)'
    BY <1>2, <1>4, <1>8, <2>1 DEF OwedBy, Informed, row
  <2>4. Outdated(u)' /\ Reflected(u)'
    BY <1>2, <1>4, <1>8 DEF Outdated, Reflected, row
  <2> QED BY <2>2, <2>3, <2>4 DEF OwedBy
<1> QED BY <1>2, <1>4, <1>5, <1>6, <1>7, <1>8, JobStep

\* An answer is dropped only if the update is not the last one any more.
LEMMA AnswerStep ==
  ASSUME IInv, NEW u \in 1..started, Answer(u)
  PROVE  IInv'
<1> DEFINE t == IF Fresh(u) THEN "fresh" ELSE "nothing"
<1>1. /\ u \in Update /\ u # 0 /\ excused' \in BOOLEAN /\ excused' = excused
      /\ upd[u].thread = "asked" /\ upd' = [upd EXCEPT ![u].thread = t]
      /\ UNCHANGED <<row, req, entries, started, patch, eval, budget>>
  BY Where DEF Answer, ThreadOnly
<1>2. Fresh(u) => u = pending
  BY DEF Fresh, IInv, EntryNewest, EntriesAgree
<1>3. u = started /\ ~excused => Fresh(u)
  <2> SUFFICES ASSUME u = started, ~excused PROVE Fresh(u)
    OBVIOUS
  <2>1. OwedBy(u)
    BY Where
  <2>2. pending = u
    BY <1>1, <2>1 DEF OwedBy, Placed
  <2> QED BY <2>2 DEF Fresh, IInv, EntryNewest, EntriesAgree
<1> QED BY <1>1, <1>2, <1>3, ThreadMoves

LEMMA FailedStep ==
  ASSUME IInv, NEW u \in 1..started, Failed(u)
  PROVE  IInv'
<1>1. PICK end \in {"nothing", "failed"} :
        /\ upd' = [upd EXCEPT ![u].thread = end]
        /\ excused' = (excused \/ (u = started /\ end = "nothing"))
  BY DEF Failed
<1>2. /\ excused \in BOOLEAN /\ upd[u].thread = "asked"
      /\ UNCHANGED <<row, req, entries, started, patch, eval, budget>>
  BY Where DEF Failed, ThreadOnly
<1>3. excused' \in BOOLEAN
  BY <1>1, <1>2
<1> QED BY <1>1, <1>2, <1>3, ThreadMoves

LEMMA RefusedStep ==
  ASSUME IInv, NEW u \in 1..started, Store(u), ~Guard(u)
  PROVE  IInv'
<1>1. /\ upd[u].thread = "fresh" /\ upd' = [upd EXCEPT ![u].thread = "nothing"]
      /\ excused' = (excused \/ (u = started /\ latest = Expected(u)))
      /\ excused \in BOOLEAN
      /\ UNCHANGED <<row, req, entries, started, patch, eval, budget>>
  BY Where DEF Store, ThreadOnly, row
<1>2. excused' \in BOOLEAN
  BY <1>1
<1>3. u = started /\ ~excused' =>
        /\ upd[u].seq # 0 => upd[u].seq < latest
        /\ upd[u].seq = 0 => heard < latest
  <2> SUFFICES ASSUME u = started, ~excused'
               PROVE  /\ upd[u].seq # 0 => upd[u].seq < latest
                      /\ upd[u].seq = 0 => heard < latest
    OBVIOUS
  <2>1. ~excused /\ latest # Expected(u)
    BY <1>1
  <2>2. upd[u].text = heard
    BY <1>1, <2>1, Where DEF OwedBy, Informed
  <2>3. /\ u \in Update /\ upd[u] \in Job /\ latest \in Nat
    BY Where
  <2>4. /\ upd[u].seq <= latest /\ upd[u].text <= upd[u].last /\ upd[u].last <= latest
    BY <2>3 DEF IInv, Bounded
  <2>5. upd[u].seq \in Nat /\ upd[u].text \in Nat /\ upd[u].last \in Nat
    BY <2>3, JobNumbers
  <2> QED BY <2>1, <2>2, <2>3, <2>4, <2>5 DEF Expected
<1> QED BY <1>1, <1>2, <1>3, ThreadMoves

\* What is stored is of the message heard last, if the update is the last one.  If
\* it is not, the state has moved since it read, or it is of the latest message.
LEMMA StoredStep ==
  ASSUME IInv, NEW u \in 1..started, Store(u), Guard(u)
  PROVE  IInv'
<1> DEFINE j == At(upd[u], "stored")
<1>1. /\ TypeOK /\ u \in Update /\ u # 0 /\ upd \in [Update -> Job] /\ upd[u] \in Job
      /\ latest \in Nat /\ rev \in Nat /\ heard \in Nat
  BY Where
<1>2. /\ j \in Job /\ j.thread = "stored" /\ j.task = upd[u].task
      /\ j.cancelled = upd[u].cancelled /\ j.event = upd[u].event /\ j.tries = upd[u].tries
      /\ j.seq = upd[u].seq /\ j.mode = upd[u].mode /\ j.text = upd[u].text
      /\ j.last = upd[u].last /\ j.at = upd[u].at
  BY <1>1, ThreadTyped
<1>3. /\ upd[u].thread = "fresh" /\ upd' = [upd EXCEPT ![u] = j]
      /\ intention' = upd[u].text /\ rev' = rev + 1
      /\ UNCHANGED <<single, latest, eligible, guardrails, mode, heard, req, entries, started,
                     patch, eval, budget, excused>>
  BY DEF Store, ThreadOnly, At
<1> HIDE DEF j
<1>4. /\ upd' \in [Update -> Job] /\ upd'[u] = j
      /\ \A v \in Update : v # u => upd'[v] = upd[v]
  BY <1>1, <1>2, <1>3, OneJob
<1>5. \A v \in Update :
        /\ upd'[v].task = upd[v].task /\ upd'[v].cancelled = upd[v].cancelled
        /\ upd'[v].event = upd[v].event /\ upd'[v].tries = upd[v].tries
        /\ upd'[v].seq = upd[v].seq /\ upd'[v].mode = upd[v].mode
        /\ upd'[v].text = upd[v].text /\ upd'[v].last = upd[v].last /\ upd'[v].at = upd[v].at
        /\ upd'[v].thread \in {"asked", "fresh"} => v # u /\ upd'[v].thread = upd[v].thread
  BY <1>2, <1>4
<1>6. /\ upd[u].text <= upd[u].last /\ upd[u].last <= latest /\ upd[u].text \in Nat
      /\ upd[u].last \in Nat /\ upd[u].text \in {0} \cup Message
      /\ \A v \in Update : upd[v].at \in Nat /\ upd[v].at <= rev
  <2>1. upd[u].text \in {0} \cup Message
    BY <1>1 DEF Job
  <2>2. \A v \in Update : upd[v] \in Job
    BY <1>1
  <2> QED BY <1>1, <2>1, <2>2, JobNumbers DEF IInv, Bounded
<1>7. TypeOK'
  <2>1. rev' \in Nat /\ intention' \in {0} \cup Message
    BY <1>1, <1>3, <1>6
  <2> QED BY <1>1, <1>3, <1>4, <2>1 DEF TypeOK, entries
<1>8. AttemptsLeft' /\ CurrentIsAwaited'
  BY <1>3, <1>5 DEF IInv, AttemptsLeft, CurrentIsAwaited, Live, entries
<1>9. EntryNewest' /\ EntryHeard'
  <2>1. pending # 0 => pending \in Update
    BY <1>1 DEF TypeOK
  <2> QED BY <1>3, <1>5, <2>1 DEF IInv, EntryNewest, EntriesAgree, EntryHeard, entries
<1>10. AboutSource'
  BY <1>3, <1>5 DEF IInv, AboutSource, entries
<1>11. Bounded'
  <2>1. /\ latest <= latest' /\ rev <= rev' /\ heard' <= latest' /\ intention' <= latest'
        /\ \A r \in Request : req'[r].seq <= latest'
    BY <1>1, <1>3, <1>6 DEF IInv, Bounded
  <2> QED BY <1>1, <1>5, <1>7, <2>1, BoundedStep DEF IInv
<1>12. Owed'
  <2> SUFFICES ASSUME NEW v \in Update, v = started, ~excused
               PROVE  OwedBy(v)'
    BY <1>3 DEF Owed
  <2>1. OwedBy(v) /\ \A w \in 1..started : w \in Update
    BY <1>1, RowNumbers DEF IInv, Owed
  <2>2. Placed(v)'
    <3>1. upd'[v].thread = upd[v].thread \/ (v = u /\ upd'[v].thread = "stored")
      BY <1>2, <1>4
    <3> QED BY <1>3, <1>5, <2>1, <3>1 DEF OwedBy, Placed, entries
  <2>3. \A w \in 1..started : w # v /\ upd'[w].thread = "fresh" => upd'[w].at < rev'
    BY <1>1, <1>3, <1>5, <1>6, <2>1
  <2>4. CASE v = u
    <3>1. upd[u].text = heard
      BY <1>3, <2>1, <2>4 DEF OwedBy, Informed
    <3> QED BY <1>2, <1>3, <1>4, <2>2, <2>3, <2>4, <3>1 DEF OwedBy, Informed, Outdated, Reflected
  <2>5. CASE v # u
    <3>1. Informed(v)' /\ Outdated(v)'
      BY <1>3, <1>4, <2>1, <2>5 DEF OwedBy, Informed, Outdated
    <3>2. ASSUME upd[v].thread = "stored", single \/ \A w \in 1..started : upd[w].seq # 0
          PROVE  upd[u].text = latest
      <4>1. upd[u].at < rev
        BY <1>3, <2>1, <2>5, <3>2 DEF OwedBy, Reflected
      <4>2. upd[u].seq # 0
        BY <1>1, <1>6, <3>2, <4>1 DEF Guard
      <4> QED BY <1>1, <1>3, <4>2 DEF IInv, AboutSource, Guard, Expected
    <3>3. Reflected(v)'
      BY <1>3, <1>4, <1>5, <2>1, <2>3, <2>5, <3>2 DEF Reflected
    <3> QED BY <2>2, <3>1, <3>3 DEF OwedBy
  <2> QED BY <2>4, <2>5
<1> QED BY <1>7, <1>8, <1>9, <1>10, <1>11, <1>12 DEF IInv

Yielded(j) == [j EXCEPT !.task = "yield", !.event = TRUE, !.cancelled = FALSE]
Sent(j, a) == [j EXCEPT !.task = a]
Called(j, a, t, n) == [j EXCEPT !.task = a, !.thread = t, !.tries = n]

LEMMA TaskTyped ==
  ASSUME NEW j \in Job
  PROVE  /\ Yielded(j) \in Job /\ Yielded(j).task = "yield" /\ ~Yielded(j).cancelled
         /\ Yielded(j).thread = j.thread /\ Yielded(j).seq = j.seq /\ Yielded(j).mode = j.mode
         /\ Yielded(j).text = j.text /\ Yielded(j).last = j.last /\ Yielded(j).at = j.at
         /\ Yielded(j).tries = j.tries
BY DEF Job, Yielded

LEMMA SentTyped ==
  ASSUME NEW j \in Job, NEW a \in {"gone", "backoff"}
  PROVE  /\ Sent(j, a) \in Job /\ Sent(j, a).task = a /\ Sent(j, a).cancelled = j.cancelled
         /\ Sent(j, a).event = j.event /\ Sent(j, a).thread = j.thread
         /\ Sent(j, a).seq = j.seq /\ Sent(j, a).mode = j.mode /\ Sent(j, a).text = j.text
         /\ Sent(j, a).last = j.last /\ Sent(j, a).at = j.at /\ Sent(j, a).tries = j.tries
BY DEF Job, Sent

CallTask == {"gone", "call"}
CallThread == {"idle", "called"}

LEMMA CalledAgain ==
  ASSUME NEW j \in Job, NEW n \in 0..MaxAttempts,
         NEW a \in CallTask, NEW t \in CallThread
  PROVE  /\ Called(j, a, t, n) \in Job
         /\ Called(j, a, t, n).task = a /\ Called(j, a, t, n).thread = t
         /\ Called(j, a, t, n).tries = n
         /\ Called(j, a, t, n).cancelled = j.cancelled
         /\ Called(j, a, t, n).event = j.event /\ Called(j, a, t, n).seq = j.seq
         /\ Called(j, a, t, n).mode = j.mode /\ Called(j, a, t, n).text = j.text
         /\ Called(j, a, t, n).last = j.last /\ Called(j, a, t, n).at = j.at
BY DEF Job, Called, CallTask, CallThread

\* A task that ends, with what it was to do done or nothing owed of it.
LEMMA EndedStep ==
  ASSUME IInv, NEW u \in 1..started, upd' = Ended(u),
         UNCHANGED <<row, req, entries, started, patch, eval, budget>>,
         excused' \in BOOLEAN, excused => excused',
         u = started /\ ~excused' => upd[u].thread \in {"stored", "nothing"}
  PROVE  IInv'
<1> DEFINE j == Yielded(upd[u])
<1>1. u \in Update /\ u # 0 /\ upd \in [Update -> Job] /\ upd[u] \in Job
  BY Where
<1>2. /\ j \in Job /\ j.task = "yield" /\ ~j.cancelled
      /\ j.thread = upd[u].thread /\ j.seq = upd[u].seq /\ j.mode = upd[u].mode
      /\ j.text = upd[u].text /\ j.last = upd[u].last /\ j.at = upd[u].at
  BY <1>1, TaskTyped
<1>3. upd' = [upd EXCEPT ![u] = j]
  BY DEF Ended, Yielded
<1> HIDE DEF j
<1>4. /\ upd' \in [Update -> Job] /\ upd'[u] = j
      /\ \A v \in Update : v # u => upd'[v] = upd[v]
  BY <1>1, <1>2, <1>3, OneJob
<1>5. ~Live(u)' /\ upd'[u].task # "backoff"
  BY <1>2, <1>4 DEF Live
<1>6. /\ upd[u].thread = "fresh" \/ (upd[u].thread = "asked" /\ pending = u)
      /\ upd[u].seq # 0
      => upd[u].text = upd[u].seq
  BY <1>1 DEF IInv, AboutSource
<1>7. ASSUME u = started, ~excused' PROVE OwedBy(u)'
  <2>1. OwedBy(u)
    BY <1>7, Where
  <2>2. Placed(u)'
    BY <1>2, <1>4, <1>7, <2>1 DEF OwedBy, Placed, row
  <2>3. Informed(u)' /\ Outdated(u)'
    BY <1>2, <1>4, <1>7, <2>1 DEF OwedBy, Informed, Outdated, row
  <2>4. Reflected(u)'
    <3>1. \A v \in 1..started : v \in Update
      BY RowNumbers DEF IInv
    <3>2. \A v \in 1..started :
            /\ upd'[v].seq = upd[v].seq /\ upd'[v].thread = upd[v].thread
            /\ upd'[v].at = upd[v].at
      BY <1>2, <1>4, <3>1
    <3> QED BY <3>2, <2>1, <1>7 DEF OwedBy, Reflected, row
  <2> QED BY <2>2, <2>3, <2>4 DEF OwedBy
<1> QED BY <1>2, <1>4, <1>5, <1>6, <1>7, JobStep

LEMMA StartStep ==
  ASSUME IInv, NEW u \in 1..started, Start(u)
  PROVE  IInv'
<1> DEFINE a == IF upd[u].cancelled THEN "gone" ELSE "call"
           t == IF upd[u].cancelled THEN "idle" ELSE "called"
           j == Called(upd[u], a, t, 1)
<1>1. /\ u \in Update /\ upd \in [Update -> Job] /\ upd[u] \in Job
      /\ excused' = excused /\ excused' \in BOOLEAN /\ upd[u].task = "new"
      /\ UNCHANGED <<row, req, entries, started, patch, eval, budget>>
  BY Where DEF Start, TaskOnly
<1>2. a \in CallTask /\ t \in CallThread /\ 1 \in 0..MaxAttempts
  BY Numbers DEF CallTask, CallThread
<1>3. upd' = [upd EXCEPT ![u] = j]
  BY DEF Start, Called
<1> HIDE DEF a, t
<1>4. /\ j \in Job /\ j.task = a /\ j.thread = t /\ j.tries = 1
      /\ j.cancelled = upd[u].cancelled /\ j.event = upd[u].event
      /\ j.seq = upd[u].seq /\ j.mode = upd[u].mode /\ j.text = upd[u].text
      /\ j.last = upd[u].last /\ j.at = upd[u].at
  <2>1. upd[u] \in Job
    BY <1>1
  <2> QED BY <1>2, <2>1, CalledAgain
<1> HIDE DEF j
<1>5. /\ upd' \in [Update -> Job] /\ upd'[u] = j
      /\ \A v \in Update : v # u => upd'[v] = upd[v]
  BY <1>1, <1>3, <1>4, OneJob
<1>6. Live(u)' => Live(u) /\ upd'[u].event = upd[u].event
  BY <1>1, <1>4, <1>5 DEF Live, a
<1>7. ASSUME u = started, ~excused PROVE OwedBy(u)'
  <2>1. Placed(u)
    BY <1>7, Where DEF OwedBy
  <2>2. a = "call" /\ t = "called"
    BY <2>1 DEF Placed, a, t
  <2>3. Placed(u)'
    BY <1>1, <1>4, <1>5, <2>1, <2>2 DEF Placed, row, entries
  <2> QED BY <1>4, <1>5, <2>2, <2>3 DEF OwedBy, Informed, Outdated, Reflected
<1>8. upd'[u].task # "backoff" /\ upd'[u].thread \notin {"asked", "fresh"}
  BY <1>2, <1>4, <1>5 DEF CallTask, CallThread
<1> QED BY <1>1, <1>4, <1>5, <1>6, <1>7, <1>8, JobStep

LEMMA FinishStep ==
  ASSUME IInv, NEW u \in 1..started, Finish(u) \/ Abort(u)
  PROVE  IInv'
<1>1. /\ upd' = Ended(u) /\ excused' = excused /\ excused' \in BOOLEAN
      /\ UNCHANGED <<row, req, entries, started, patch, eval, budget>>
  BY Where DEF Finish, Abort, TaskOnly
<1>2. u = started /\ ~excused => ~upd[u].cancelled
  BY Where DEF OwedBy, Placed
<1>3. u = started /\ ~excused' => upd[u].thread \in {"stored", "nothing"}
  BY <1>1, <1>2 DEF Finish, Abort
<1> QED BY <1>1, <1>3, EndedStep

LEMMA RetryStep ==
  ASSUME IInv, NEW u \in 1..started, Retry(u)
  PROVE  IInv'
<1>1. /\ u \in Update /\ upd \in [Update -> Job] /\ upd[u] \in Job
      /\ excused \in BOOLEAN /\ upd[u].task = "call" /\ ~upd[u].cancelled
      /\ upd[u].thread = "failed"
      /\ UNCHANGED <<row, req, entries, started, patch, eval, budget>>
  BY Where DEF Retry, TaskOnly
<1>2. excused' = (excused \/ (u = started /\ upd[u].tries = MaxAttempts))
  BY DEF Retry
<1>3. excused' \in BOOLEAN
  BY <1>1, <1>2
<1>4. CASE upd[u].tries = MaxAttempts
  <2>1. upd' = Ended(u)
    BY <1>4 DEF Retry
  <2> QED BY <1>1, <1>2, <1>3, <1>4, <2>1, EndedStep
<1>5. CASE upd[u].tries # MaxAttempts
  <2> DEFINE j == Sent(upd[u], "backoff")
  <2>1. upd' = [upd EXCEPT ![u] = j]
    BY <1>5 DEF Retry, Sent
  <2>2. /\ j \in Job /\ j.task = "backoff" /\ j.cancelled = upd[u].cancelled
        /\ j.event = upd[u].event /\ j.thread = upd[u].thread
        /\ j.seq = upd[u].seq /\ j.mode = upd[u].mode /\ j.text = upd[u].text
        /\ j.last = upd[u].last /\ j.at = upd[u].at /\ j.tries = upd[u].tries
    BY <1>1, SentTyped
  <2> HIDE DEF j
  <2>3. /\ upd' \in [Update -> Job] /\ upd'[u] = j
        /\ \A v \in Update : v # u => upd'[v] = upd[v]
    BY <1>1, <2>1, <2>2, OneJob
  <2>4. Live(u)' => Live(u) /\ upd'[u].event = upd[u].event
    BY <1>1, <2>2, <2>3 DEF Live
  <2>5. upd'[u].tries < MaxAttempts
    BY <1>1, <1>5, <2>2, <2>3, JobNumbers, Numbers
  <2>6. ASSUME u = started, ~excused' PROVE OwedBy(u)'
    <3>1. OwedBy(u)
      BY <1>2, <2>6, Where
    <3>2. Placed(u)'
      BY <1>1, <2>2, <2>3, <3>1 DEF OwedBy, Placed, row, entries
    <3>3. Informed(u)'
      BY <1>1, <2>2, <2>3, <3>1 DEF OwedBy, Informed, row
    <3> QED BY <1>1, <2>2, <2>3, <3>2, <3>3 DEF OwedBy, Outdated, Reflected
  <2> QED BY <1>1, <1>2, <1>3, <2>2, <2>3, <2>4, <2>5, <2>6, JobStep
<1> QED BY <1>4, <1>5

LEMMA AgainStep ==
  ASSUME IInv, NEW u \in 1..started, Again(u)
  PROVE  IInv'
<1>1. /\ u \in Update /\ upd \in [Update -> Job] /\ upd[u] \in Job
      /\ excused' = excused /\ excused' \in BOOLEAN
      /\ upd[u].task = "backoff" /\ ~upd[u].cancelled
      /\ UNCHANGED <<row, req, entries, started, patch, eval, budget>>
  BY Where DEF Again, TaskOnly
<1>2. CASE ~Fresh(u)
  <2>1. ~(u = started /\ ~excused)
    <3> SUFFICES ASSUME u = started, ~excused PROVE FALSE
      OBVIOUS
    <3>1. Placed(u)
      BY Where DEF OwedBy
    <3>2. pending = u
      BY <1>1, <3>1 DEF Placed
    <3> QED BY <1>2, <3>2 DEF Fresh, IInv, EntryNewest, EntriesAgree
  <2>2. upd' = Ended(u)
    BY <1>2 DEF Again
  <2> QED BY <1>1, <2>1, <2>2, EndedStep
<1>3. CASE Fresh(u)
  <2> DEFINE n == upd[u].tries + 1
             j == Called(upd[u], "call", "called", n)
  <2>1. n \in 0..MaxAttempts
    BY <1>1, JobNumbers, Numbers DEF IInv, AttemptsLeft
  <2>2. upd' = [upd EXCEPT ![u] = j]
    BY <1>3 DEF Again, Called
  <2> HIDE DEF n
  <2>3. /\ j \in Job /\ j.task = "call" /\ j.thread = "called" /\ j.tries = n
        /\ j.cancelled = upd[u].cancelled /\ j.event = upd[u].event
        /\ j.seq = upd[u].seq /\ j.mode = upd[u].mode /\ j.text = upd[u].text
        /\ j.last = upd[u].last /\ j.at = upd[u].at
    <3>1. upd[u] \in Job /\ "call" \in CallTask /\ "called" \in CallThread
      BY <1>1 DEF CallTask, CallThread
    <3> QED BY <2>1, <3>1, CalledAgain
  <2> HIDE DEF j
  <2>4. /\ upd' \in [Update -> Job] /\ upd'[u] = j
        /\ \A v \in Update : v # u => upd'[v] = upd[v]
    BY <1>1, <2>2, <2>3, OneJob
  <2>5. Live(u)' => Live(u) /\ upd'[u].event = upd[u].event
    BY <1>1, <2>3, <2>4 DEF Live
  <2>6. ASSUME u = started, ~excused PROVE OwedBy(u)'
    <3>1. Placed(u) /\ Informed(u)
      BY <2>6, Where DEF OwedBy
    <3>2. Placed(u)'
      BY <1>1, <2>3, <2>4, <3>1 DEF Placed, row, entries
    <3>3. Informed(u)'
      BY <1>1, <2>3, <2>4, <3>1 DEF Placed, Informed, row
    <3> QED BY <2>3, <2>4, <3>2, <3>3 DEF OwedBy, Outdated, Reflected
  <2> QED BY <1>1, <2>3, <2>4, <2>5, <2>6, JobStep
<1> QED BY <1>2, <1>3

LEMMA CleanUpStep ==
  ASSUME IInv, NEW u \in 1..started, CleanUp(u) \/ DropCleanUp(u)
  PROVE  IInv'
<1> DEFINE j == Sent(upd[u], "gone")
<1>1. /\ TypeOK /\ u \in Update /\ u # 0 /\ upd \in [Update -> Job] /\ upd[u] \in Job
      /\ excused' = excused /\ excused' \in BOOLEAN /\ upd[u].task = "yield"
      /\ UNCHANGED <<row, req, started, patch, eval, budget>>
      /\ upd' = [upd EXCEPT ![u] = j]
  BY Where DEF CleanUp, DropCleanUp, TaskOnly, Sent
<1>2. /\ j \in Job /\ j.task = "gone" /\ j.cancelled = upd[u].cancelled
      /\ j.event = upd[u].event /\ j.thread = upd[u].thread
      /\ j.seq = upd[u].seq /\ j.mode = upd[u].mode /\ j.text = upd[u].text
      /\ j.last = upd[u].last /\ j.at = upd[u].at /\ j.tries = upd[u].tries
  BY <1>1, SentTyped
<1> HIDE DEF j
<1>3. /\ upd' \in [Update -> Job] /\ upd'[u] = j
      /\ \A v \in Update : v # u => upd'[v] = upd[v]
  BY <1>1, <1>2, OneJob
\* A task that was not superseded clears every dictionary, one that was none.
<1>4. \/ UNCHANGED entries
      \/ pending = u /\ pending' = 0 /\ token' = 0 /\ stamp' = 0 /\ source' = 0
  BY DEF CleanUp, DropCleanUp, Mine, IInv, EntryNewest, EntriesAgree, entries
<1>5. \A v \in Update :
        /\ upd'[v].seq = upd[v].seq /\ upd'[v].at = upd[v].at
        /\ upd'[v].text = upd[v].text /\ upd'[v].last = upd[v].last
        /\ upd'[v].mode = upd[v].mode /\ upd'[v].tries = upd[v].tries
        /\ upd'[v].thread = upd[v].thread /\ upd'[v].cancelled = upd[v].cancelled
        /\ upd'[v].event = upd[v].event
        /\ upd'[v].task = upd[v].task \/ (v = u /\ upd'[v].task = "gone")
  BY <1>2, <1>3
<1>6. TypeOK'
  BY <1>1, <1>3, <1>4 DEF TypeOK, entries, row
<1>7. AttemptsLeft'
  BY <1>5 DEF IInv, AttemptsLeft
<1>8. CurrentIsAwaited'
  <2> SUFFICES ASSUME NEW v \in Update, Live(v)' PROVE pending' = v /\ ~upd'[v].event
    BY DEF CurrentIsAwaited
  <2>1. v # u /\ Live(v)
    BY <1>2, <1>3, <1>5 DEF Live
  <2>2. pending = v /\ ~upd[v].event
    BY <2>1 DEF IInv, CurrentIsAwaited
  <2> QED BY <1>3, <1>4, <2>1, <2>2 DEF entries
<1>9. EntryNewest' /\ EntryHeard' /\ AboutSource'
  <2>1. 0 \notin Update /\ (pending # 0 => pending \in Update)
    BY <1>1, Numbers DEF TypeOK
  <2>2. EntryNewest' /\ EntryHeard'
    BY <1>1, <1>4, <1>5, <2>1 DEF IInv, EntryNewest, EntriesAgree, EntryHeard, entries, row
  <2>3. AboutSource'
    BY <1>4, <1>5, <2>1 DEF IInv, AboutSource, entries
  <2> QED BY <2>2, <2>3
<1>10. Bounded'
  <2>1. /\ latest <= latest' /\ rev <= rev' /\ heard' <= latest' /\ intention' <= latest'
        /\ \A r \in Request : req'[r].seq <= latest'
    BY <1>1, RowNumbers DEF IInv, Bounded, row
  <2> QED BY <1>1, <1>5, <1>6, <2>1, BoundedStep DEF IInv
<1>11. Owed'
  <2> SUFFICES ASSUME NEW v \in Update, v = started, ~excused
               PROVE  OwedBy(v)'
    BY <1>1 DEF Owed
  <2>1. OwedBy(v) /\ \A w \in 1..started : w \in Update
    BY <1>1, RowNumbers DEF IInv, Owed
  <2>2. Placed(v)'
    <3>1. v # 0 /\ (upd'[v].task \in {"new", "call", "backoff"} => v # u /\ pending' = v)
      BY <1>1, <1>2, <1>3, <1>4, <2>1, Numbers DEF OwedBy, Placed, entries
    <3> QED BY <1>1, <1>5, <2>1, <3>1 DEF OwedBy, Placed, row
  <2>3. Informed(v)' /\ Outdated(v)'
    BY <1>1, <1>5, <2>1 DEF OwedBy, Informed, Outdated, row
  <2>4. Reflected(v)'
    BY <1>1, <1>5, <2>1 DEF OwedBy, Reflected, row
  <2> QED BY <2>2, <2>3, <2>4 DEF OwedBy
<1> QED BY <1>6, <1>7, <1>8, <1>9, <1>10, <1>11 DEF IInv

-----------------------------------------------------------------------------
(* The inductive invariant *)

LEMMA InitInvariant == Init => IInv
<1> SUFFICES ASSUME Init PROVE IInv
  OBVIOUS
<1>1. TypeOK
  BY InitTyped
<1>2. /\ started = 0 /\ pending = 0 /\ token = 0 /\ stamp = 0 /\ source = 0 /\ heard = 0
      /\ intention = 0 /\ latest = 0 /\ rev = 1
      /\ \A r \in Request : req[r].seq = 0
      /\ \A u \in Update : /\ upd[u].task = "none" /\ upd[u].thread = "idle"
                           /\ upd[u].seq = 0 /\ upd[u].text = 0 /\ upd[u].last = 0
                           /\ upd[u].at = 0
  BY DEF Init, NoJob
<1>3. AttemptsLeft /\ CurrentIsAwaited /\ EntryNewest /\ EntryHeard /\ AboutSource
  BY <1>2 DEF AttemptsLeft, CurrentIsAwaited, Live, EntryNewest, EntriesAgree, EntryHeard,
              AboutSource
<1>4. Bounded
  BY <1>2 DEF Bounded
<1>5. Owed
  BY <1>2, Numbers DEF Owed
<1> QED BY <1>1, <1>3, <1>4, <1>5 DEF IInv

LEMMA NextInvariant == IInv /\ [Next]_vars => IInv'
<1> SUFFICES ASSUME IInv, [Next]_vars PROVE IInv'
  OBVIOUS
<1>1. CASE Clients
  BY <1>1, ClientsStep
<1>2. ASSUME NEW u \in 1..started, Thread(u) PROVE IInv'
  <2>1. Store(u) => Guard(u) \/ ~Guard(u)
    OBVIOUS
  <2> QED BY <1>2, <2>1, ReadStep, AnswerStep, FailedStep, RefusedStep, StoredStep DEF Thread
<1>3. ASSUME NEW u \in 1..started, Run(u) PROVE IInv'
  BY <1>3, StartStep, FinishStep, RetryStep, AgainStep, CleanUpStep DEF Run
<1>4. ASSUME NEW e \in Evaluation, Enter(e) \/ Released(e) \/ TimesOut(e) PROVE IInv'
  BY <1>4, EvaluationStep
<1>5. CASE UNCHANGED vars
  BY <1>5 DEF vars, row, entries, IInv, TypeOK, AttemptsLeft, CurrentIsAwaited, Live,
              EntryNewest, EntriesAgree, Bounded, EntryHeard, AboutSource, Owed, OwedBy,
              Placed, Informed, Outdated, Reflected
<1> QED BY <1>1, <1>2, <1>3, <1>4, <1>5 DEF Next

LEMMA Invariant == Spec => []IInv
BY InitInvariant, NextInvariant, PTL DEF Spec

\* Every variable of the barrier keeps its type, through attempts and pauses.
THEOREM IntentionTyped == Spec => []TypeOK
<1>1. IInv => TypeOK
  BY DEF IInv
<1> QED BY <1>1, Invariant, PTL

\* However triggers, cancellations and clean-ups fall, a task that is under way is
\* the one that evaluations wait for.
THEOREM CurrentAlwaysAwaited == Spec => []CurrentIsAwaited
<1>1. IInv => CurrentIsAwaited
  BY DEF IInv
<1> QED BY <1>1, Invariant, PTL

\* The last update, if nothing failed, was refused or was revoked, stored the latest
\* message: no thread of an update before it comes after it.
THEOREM LatestAlwaysReflected == Spec => []LatestReflected
<1>1. IInv => LatestReflected
  <2> SUFFICES ASSUME IInv, \A u \in Update : Idle(u), started # 0, ~excused,
                      single \/ \A u \in 1..started : upd[u].seq # 0,
                      heard = latest, upd[started].seq \in {0, latest}
               PROVE  intention = latest
    BY DEF LatestReflected
  <2>1. /\ TypeOK /\ started \in Update /\ latest \in Nat
    BY RowNumbers DEF IInv, TypeOK
  <2>2. OwedBy(started) /\ Idle(started)
    BY <2>1 DEF IInv, Owed
  <2>3. upd[started].thread \in {"stored", "nothing"}
    BY <2>2 DEF OwedBy, Placed, Idle
  <2>4. upd[started].thread # "nothing"
    BY <2>1, <2>2 DEF OwedBy, Outdated
  <2> QED BY <2>2, <2>3, <2>4 DEF OwedBy, Reflected
<1> QED BY <1>1, Invariant, PTL

\* An intention never gives way to one of an earlier message, but where a decision's
\* note asked for it, although the threads of superseded updates go on.
THEOREM NewestAlwaysWins == Spec => NewestWins
<1> DEFINE Older ==
      intention' < intention =>
        \E u \in Update : /\ upd[u].thread = "fresh" /\ upd'[u].thread = "stored"
                          /\ upd[u].seq = 0
                          /\ single => upd[u].text < upd[u].last
<1>1. IInv /\ [Next]_vars => [Older]_vars
  <2> SUFFICES ASSUME IInv, Next, intention' < intention
               PROVE  \E u \in Update : /\ upd[u].thread = "fresh" /\ upd'[u].thread = "stored"
                                        /\ upd[u].seq = 0
                                        /\ single => upd[u].text < upd[u].last
    BY DEF vars
  <2>1. /\ TypeOK /\ intention \in Nat /\ latest \in Nat /\ intention <= latest
        /\ ~(intention < intention)
    BY RowNumbers DEF IInv, Bounded
  <2>2. PICK u \in 1..started : Store(u) /\ Guard(u)
    <3>1. ~Clients
      BY <2>1 DEF Clients, Record, Resolve, Reason, Note, Toggle, Forget, Write, row
    <3>2. ASSUME NEW u \in 1..started, Run(u) PROVE FALSE
      BY <2>1, <3>2 DEF Run, Start, Finish, Retry, Again, Abort, CleanUp, DropCleanUp,
                        TaskOnly, row
    <3>3. ASSUME NEW e \in Evaluation, Enter(e) \/ Released(e) \/ TimesOut(e) PROVE FALSE
      BY <2>1, <3>3 DEF Enter, Released, TimesOut, EvalOnly, row
    <3>4. ASSUME NEW u \in 1..started, Read(u) \/ Answer(u) \/ Failed(u) PROVE FALSE
      BY <2>1, <3>4 DEF Read, Answer, Failed, ThreadOnly, row
    <3>5. PICK u \in 1..started : Store(u)
      BY <3>1, <3>2, <3>3, <3>4 DEF Next, Thread
    <3>6. Guard(u)
      BY <2>1, <3>5 DEF Store, ThreadOnly, row
    <3> QED BY <3>5, <3>6
  <2>3. /\ u \in Update /\ upd[u] \in Job /\ upd \in [Update -> Job]
        /\ upd[u].thread = "fresh" /\ upd'[u].thread = "stored" /\ intention' = upd[u].text
    BY <2>2, Where DEF Store, Job
  <2>4. upd[u].text \in Nat /\ upd[u].text < latest
    BY <2>1, <2>3, JobNumbers
  <2>5. upd[u].seq = 0
    BY <2>2, <2>3, <2>4 DEF IInv, AboutSource, Guard, Expected
  <2>6. upd[u].last = latest
    BY <2>2, <2>5 DEF Guard, Expected
  <2> QED BY <2>3, <2>4, <2>5, <2>6
<1>2. Spec => [][Next]_vars
  BY DEF Spec
<1> QED BY <1>1, <1>2, Invariant, PTL DEF NewestWins
=============================================================================
