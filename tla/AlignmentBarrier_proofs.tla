---------------------- MODULE AlignmentBarrier_proofs ----------------------
(* Theorems about AlignmentBarrier, for every value of its constants. *)
EXTENDS AlignmentBarrier, TLAPS

\* The entry of the barrier is never a check that was superseded, ...
EntryStands == \A k \in Check : check = k => ~checks[k].cancelled

\* ... a check that is over has let its waiters go, ...
EndedTold == \A k \in Check : checks[k].task = "yield" => checks[k].event

\* What a check or an evaluation has read is recognised by the state revision.
JobsDated ==
  \A k \in Check : checks[k].task = "call" =>
    /\ checks[k].rev <= child.rev
    /\ checks[k].rev = child.rev => checks[k].v = child.v /\ checks[k].asHybrid = hybrid

RowsDated ==
  \A e \in Evaluation :
    gate[e].row.rev <= child.rev /\ (gate[e].row.rev = child.rev => gate[e].row.v = child.v)

\* Only a hybrid session is checked by its evaluations.
CheckedHybrid ==
  \A e \in Evaluation : gate[e].at = "check" =>
    gate[e].row.policy = "hybrid" /\ (gate[e].row.rev = child.rev => hybrid)

\* A version is the present one, or that before an update that has yet to trigger.
Recent(v) == v >= child.v - 1 /\ (own = "stored" \/ v = child.v)

\* Hybrid: a ready child was compared under its intention.
Ready == hybrid /\ child.on /\ child.state = "ready" /\ ~waived => seen.ok /\ Recent(seen.v)

\* An evaluation that waited for the update is past the intention it waited for.
Arrived ==
  \A e \in Evaluation :
    gate[e].at \in {"alignment", "read", "check", "decide"} /\ ~gate[e].hurried =>
      gate[e].v0 <= child.v /\ (own = "stored" => gate[e].v0 < child.v)

\* Hybrid: what an evaluation decides on is at least about that intention.
RowsCompared ==
  \A e \in Evaluation :
    (/\ gate[e].row.policy # "legacy"
     /\ gate[e].at = "decide" /\ ~gate[e].hurried /\ ~gate[e].lapsed
     /\ gate[e].row.on /\ gate[e].row.state = "ready")
    => gate[e].seen.ok /\ gate[e].seen.v >= gate[e].v0

\* Legacy: the last verdict let calls pass for a reason, or stops them.
Settled == seen.ok \/ (misaligned /\ ~overridden)

\* Legacy: a check under way read the intention, ...
JobsCurrent ==
  ~hybrid /\ ~waived => \A k \in Check : checks[k].task = "call" /\ ~checks[k].cancelled =>
    Recent(checks[k].v)

\* ... without one, and without a handler that has yet to trigger it, the verdict is
\* known, ...
VerdictKnown ==
  ~hybrid /\ ~waived /\ "trigger" \notin owed /\ ~Pending => Settled /\ Recent(seen.v)

\* ... and an evaluation that did not hurry waits for one or finds it.
Informed ==
  ~hybrid /\ ~waived =>
    \A e \in Evaluation :
      /\ gate[e].at \in {"alignment", "read", "check", "decide"} /\ ~gate[e].hurried
      /\ gate[e].at = "alignment" => ~Pending
      => Settled /\ seen.v >= gate[e].v0

BarrierInv ==
  /\ TypeOK
  /\ CurrentCheckAwaited /\ EntryStands /\ EndedTold
  /\ JobsDated /\ RowsDated /\ CheckedHybrid
  /\ Ready /\ Arrived /\ RowsCompared
  /\ JobsCurrent /\ VerdictKnown /\ Informed

-----------------------------------------------------------------------------
(* Types *)

Life == Open \cup {"ended"}
Standing == Unready \cup {"ready", "misaligned"}
Session == [v : Version, rev : Nat, on : BOOLEAN, mode : Nat, life : Life, state : Standing,
            acked : BOOLEAN, policy : Policies]
Place == {"new", "intention", "alignment", "read", "check", "decide", "passed", "judged",
          "escalated", "refused", "denied", "approved", "lost"}
Seen == [v : {NoVersion} \cup Version, pv : {NoVersion} \cup ParentVersion, ok : BOOLEAN]

LEMMA SessionTyped == TypeOK => child \in Session /\ seen \in Seen /\ gate \in [Evaluation -> Visit]
BY DEF TypeOK, Session, Life, Standing, Seen

LEMMA Numbers ==
  /\ MaxVersion \in Nat /\ MaxParent \in Nat /\ MaxChecks \in Nat /\ MaxMoves \in Nat
  /\ Check \subseteq Nat \ {0} /\ Version \subseteq Nat \ {0}
BY AlignmentAssumption DEF Check, Version

\* What changes of a session.
LEMMA ChildTyped ==
  ASSUME NEW c \in Session
  PROVE  /\ Moved(c) \in Session
         /\ \A life \in Life : [Moved(c) EXCEPT !.life = life] \in Session
         /\ \A state \in Standing : [Moved(c) EXCEPT !.state = state] \in Session
         /\ \A b \in BOOLEAN : [Moved(c) EXCEPT !.acked = b] \in Session
         /\ \A state \in Standing, b \in BOOLEAN :
              /\ [Moved(c) EXCEPT !.state = state, !.acked = b] \in Session
              /\ [Moved(c) EXCEPT !.on = b, !.mode = @ + 1, !.state = state] \in Session
         /\ \A v \in Version : [Moved(c) EXCEPT !.v = v] \in Session
         /\ \A p \in Policies : [Moved(c) EXCEPT !.policy = p] \in Session
<1> DEFINE r == Moved(c)
<1>1. r \in Session
  BY DEF Session, Moved
<1> HIDE DEF r
<1>2. \A n \in Nat, state \in Standing, b \in BOOLEAN :
        [r EXCEPT !.on = b, !.mode = n, !.state = state] \in Session
  BY <1>1 DEF Session
<1>3. r.mode + 1 \in Nat
  BY <1>1 DEF Session
<1>4. \A state \in Standing, b \in BOOLEAN :
        [r EXCEPT !.on = b, !.mode = @ + 1, !.state = state] \in Session
  BY <1>2, <1>3
<1>5. /\ \A life \in Life : [r EXCEPT !.life = life] \in Session
      /\ \A state \in Standing : [r EXCEPT !.state = state] \in Session
      /\ \A b \in BOOLEAN : [r EXCEPT !.acked = b] \in Session
      /\ \A state \in Standing, b \in BOOLEAN :
           [r EXCEPT !.state = state, !.acked = b] \in Session
      /\ \A v \in Version : [r EXCEPT !.v = v] \in Session
      /\ \A p \in Policies : [r EXCEPT !.policy = p] \in Session
  BY <1>1 DEF Session
<1> QED BY <1>1, <1>4, <1>5 DEF r

\* What changes of a check.
LEMMA JobTyped ==
  ASSUME NEW j \in Job
  PROVE  /\ [j EXCEPT !.cancelled = TRUE, !.event = TRUE] \in Job
         /\ [j EXCEPT !.task = "gone", !.event = TRUE] \in Job
         /\ [j EXCEPT !.task = "gone"] \in Job
         /\ [NoJob EXCEPT !.task = "yield", !.event = TRUE] \in Job
         /\ \A r \in {"failed", "revoked"} \cup Verdict : [j EXCEPT !.result = r] \in Job
BY DEF Job, Verdict, NoJob, NoVersion

LEMMA NewJobTyped ==
  ASSUME NEW n \in Nat
  PROVE  NoJob \in Job /\ [NoJob EXCEPT !.task = "new", !.mode = n] \in Job
BY DEF NoJob, Job, NoVersion

LEMMA AskedTyped ==
  ASSUME NEW j \in Job, NEW v \in Version, NEW pv \in ParentVersion, NEW n \in Nat,
         NEW b \in BOOLEAN
  PROVE  [j EXCEPT !.task = "call", !.result = "asked", !.v = v, !.pv = pv, !.rev = n,
                   !.asHybrid = b] \in Job
<1> DEFINE x == [j EXCEPT !.task = "call", !.result = "asked"]
<1>1. x \in Job
  BY DEF Job
<1> HIDE DEF x
<1>2. [x EXCEPT !.v = v, !.pv = pv, !.rev = n, !.asHybrid = b] \in Job
  BY <1>1 DEF Job
<1> QED BY <1>2 DEF x

LEMMA StoppedTyped ==
  ASSUME TypeOK
  PROVE  Stopped \in [Check -> Job]
<1>1. checks \in [Check -> Job]
  BY DEF TypeOK
<1>2. CASE check = 0 \/ checks[check].task = "gone"
  BY <1>1, <1>2 DEF Stopped
<1>3. CASE ~(check = 0 \/ checks[check].task = "gone")
  <2>1. Stopped = [checks EXCEPT ![check] = [@ EXCEPT !.cancelled = TRUE, !.event = TRUE]]
    BY <1>3 DEF Stopped
  <2>2. checks[check] \in Job
    BY <1>1, <1>3 DEF TypeOK
  <2> QED BY <1>1, <2>1, <2>2, JobTyped
<1> QED BY <1>2, <1>3

Row == [v : {NoVersion} \cup Version, rev : Nat, on : BOOLEAN, mode : Nat, life : Life,
        state : Standing, acked : BOOLEAN, policy : Policies]

\* What changes of an evaluation.
LEMMA VisitTyped ==
  ASSUME NEW g \in Visit, NEW at \in Place, NEW b \in BOOLEAN,
         NEW row \in Session, NEW s \in Seen
  PROVE  /\ [g EXCEPT !.at = at] \in Visit
         /\ [g EXCEPT !.at = at, !.hurried = b] \in Visit
         /\ [g EXCEPT !.at = at, !.seen = s, !.lapsed = b] \in Visit
         /\ [g EXCEPT !.row = row, !.seen = s, !.lapsed = b] \in Visit
         /\ [g EXCEPT !.at = at, !.row = row, !.seen = s, !.lapsed = b] \in Visit
         /\ \A k \in {0} \cup Check, v \in Version :
              [g EXCEPT !.at = at, !.on = k, !.v0 = v, !.hurried = b] \in Visit
         /\ \A pv \in ParentVersion :
              [g EXCEPT !.at = at, !.row = row, !.pv = pv, !.seen = s, !.lapsed = b] \in Visit
<1>1. Visit = [at : Place, on : {0} \cup Check, hurried : BOOLEAN, v0 : {NoVersion} \cup Version,
               row : Row, pv : {NoVersion} \cup ParentVersion,
               seen : Seen, lapsed : BOOLEAN]
  BY DEF Visit, Place, Row, Life, Standing, Seen
<1>2. row \in Row
  BY DEF Session, Row
<1> HIDE DEF Place, Row, Seen
<1>3. [g EXCEPT !.at = at] \in Visit
  BY <1>1
<1>4. [g EXCEPT !.at = at, !.hurried = b] \in Visit
  BY <1>1
<1>5. [g EXCEPT !.at = at, !.seen = s, !.lapsed = b] \in Visit
  BY <1>1
<1>6. [g EXCEPT !.row = row, !.seen = s, !.lapsed = b] \in Visit
  BY <1>1, <1>2
<1>7. [g EXCEPT !.at = at, !.row = row, !.seen = s, !.lapsed = b] \in Visit
  BY <1>1, <1>2
<1>8. \A k \in {0} \cup Check, v \in Version :
        [g EXCEPT !.at = at, !.on = k, !.v0 = v, !.hurried = b] \in Visit
  BY <1>1
<1>9. ASSUME NEW pv \in ParentVersion
      PROVE  [g EXCEPT !.at = at, !.row = row, !.pv = pv, !.seen = s, !.lapsed = b] \in Visit
  BY <1>1, <1>2
<1> QED BY <1>3, <1>4, <1>5, <1>6, <1>7, <1>8, <1>9

\* A session that is read again with the policy that was read before.
LEMMA RowReread ==
  ASSUME NEW p \in Policies
  PROVE  \A c \in Session : /\ [c EXCEPT !.policy = p] \in Session
                            /\ [c EXCEPT !.policy = p].v = c.v /\ [c EXCEPT !.policy = p].rev = c.rev
                            /\ [c EXCEPT !.policy = p].on = c.on
                            /\ [c EXCEPT !.policy = p].state = c.state
                            /\ [c EXCEPT !.policy = p].policy = p
BY DEF Session

\* The variables of the barrier itself.
BarrierTyped ==
  /\ check \in {0} \cup Check /\ made \in {0} \cup Check
  /\ misaligned \in BOOLEAN /\ overridden \in BOOLEAN
  /\ checks \in [Check -> Job] /\ waived \in BOOLEAN

LEMMA CancelTyped ==
  ASSUME TypeOK, Cancel
  PROVE  BarrierTyped'
<1>1. UNCHANGED made /\ check' = 0 /\ checks' = Stopped
  BY DEF Cancel
<1>2. misaligned' \in BOOLEAN /\ overridden' \in BOOLEAN /\ waived' \in BOOLEAN
  BY DEF Cancel
<1> QED BY <1>1, <1>2, StoppedTyped DEF TypeOK, BarrierTyped

LEMMA TriggerTyped ==
  ASSUME TypeOK, NEW c \in Session, NEW o \in BOOLEAN, Trigger(c, o)
  PROVE  BarrierTyped' /\ child' \in Session
<1>1. CASE ~c.on /\ Cancel /\ child' = c
  BY <1>1, CancelTyped
<1>2. CASE c.on /\ made < MaxChecks
  <2>1. /\ made' = made + 1 /\ check' = made + 1 /\ overridden' = o
        /\ checks' = [Stopped EXCEPT ![made + 1] = [NoJob EXCEPT !.task = "new", !.mode = c.mode]]
        /\ child' = IF hybrid THEN [Moved(c) EXCEPT !.state = "pending"] ELSE c
        /\ UNCHANGED <<misaligned, waived>>
    BY <1>2 DEF Trigger
  <2>2. made + 1 \in Check
    BY <1>2, Numbers DEF TypeOK, Check
  <2>3. c.mode \in Nat
    BY DEF Session
  <2>4. [NoJob EXCEPT !.task = "new", !.mode = c.mode] \in Job
    BY <2>3, NewJobTyped
  <2>5. checks' \in [Check -> Job]
    BY <2>1, <2>4, StoppedTyped
  <2>6. "pending" \in Standing
    BY DEF Standing, Unready
  <2>7. child' \in Session
    BY <2>1, <2>6, ChildTyped DEF Life
  <2> QED BY <2>1, <2>2, <2>5, <2>7 DEF TypeOK, BarrierTyped
<1> QED BY <1>1, <1>2 DEF Trigger

\* What of TypeOK a step of the clients leaves to say.
LEMMA TypedBy ==
  ASSUME BarrierTyped', child' \in Session, parent' \in ParentVersion,
         own' \in {"none", "call", "stored"}, above' \in {"none", "stored"},
         owed' \subseteq {"trigger", "cancel"}, gate' \in [Evaluation -> Visit],
         moves' \in 0..MaxMoves, seen' \in Seen
  PROVE  TypeOK'
BY DEF TypeOK, BarrierTyped, Session, Life, Standing, Seen

LEMMA ClientsTyped ==
  ASSUME TypeOK, Clients
  PROVE  TypeOK'
<1>1. /\ child \in Session /\ seen \in Seen /\ gate \in [Evaluation -> Visit]
      /\ BarrierTyped /\ moves \in 0..MaxMoves
      /\ {"ready", "pending"} \subseteq Standing /\ Open \subseteq Life
  BY SessionTyped DEF TypeOK, BarrierTyped, Standing, Unready, Life
<1>2. ASSUME Move PROVE moves' \in 0..MaxMoves
  BY <1>1, <1>2, Numbers DEF Move
<1>3. CASE Tell
  <2>1. BarrierTyped' /\ child' \in Session
    BY <1>1, <1>3, TriggerTyped, CancelTyped DEF Tell, TypeOK
  <2> QED BY <1>1, <1>3, <2>1, TypedBy DEF Tell, TypeOK
<1>4. ASSUME NEW on \in BOOLEAN, Toggle(on) PROVE TypeOK'
  <2>1. CASE child.on = on
    <3>1. child' = child
      BY <1>4, <2>1 DEF Toggle
    <3>2. owed' \subseteq {"trigger", "cancel"}
      BY <1>4 DEF Toggle, TypeOK
    <3> QED BY <1>1, <1>2, <1>4, <3>1, <3>2, TypedBy DEF Toggle, TypeOK, barrier, history,
               BarrierTyped
  <2>2. CASE child.on # on
    <3>1. child' = [Moved(child) EXCEPT !.on = on, !.mode = @ + 1,
                                        !.state = IF on THEN "pending" ELSE "ready"]
      BY <1>4, <2>2 DEF Toggle
    <3>2. (IF on THEN "pending" ELSE "ready") \in Standing
      BY <1>1
    <3>3. child' \in Session
      BY <1>1, <1>4, <3>1, <3>2, ChildTyped
    <3>4. owed' \subseteq {"trigger", "cancel"}
      BY <1>4 DEF Toggle, TypeOK
    <3> QED BY <1>1, <1>2, <1>4, <3>3, <3>4, TypedBy DEF Toggle, TypeOK, barrier, history,
               BarrierTyped
  <2> QED BY <2>1, <2>2
<1>14. ASSUME NEW p \in Policies, Activate(p) PROVE TypeOK'
  <2>1. child' \in Session
    BY <1>1, <1>14, ChildTyped DEF Activate
  <2>2. waived' \in BOOLEAN
    BY <1>14 DEF Activate
  <2> QED BY <1>1, <1>2, <1>14, <2>1, <2>2, TypedBy DEF Activate, TypeOK, barrier, BarrierTyped
<1>5. CASE Message
  BY <1>1, <1>2, <1>5, TypedBy DEF Message, TypeOK, barrier, history, BarrierTyped
<1>6. CASE Store
  <2>1. child.v + 1 \in Version /\ child' = [Moved(child) EXCEPT !.v = child.v + 1]
    BY <1>1, <1>6, Numbers DEF Store, Moved, Session, Version
  <2>2. child' \in Session
    BY <1>1, <2>1, ChildTyped
  <2> QED BY <1>1, <1>6, <2>2, TypedBy DEF Store, TypeOK, barrier, history, BarrierTyped
<1>7. CASE NotStored
  BY <1>1, <1>7, TypedBy DEF NotStored, TypeOK, barrier, history, BarrierTyped
<1>8. CASE Chain
  <2>1. Unacknowledged \in Session
    BY <1>1, ChildTyped, FALSE \in BOOLEAN DEF Unacknowledged
  <2>2. BarrierTyped' /\ child' \in Session
    BY <1>8, <2>1, TriggerTyped DEF Chain
  <2> QED BY <1>1, <1>8, <2>2, TypedBy DEF Chain, TypeOK
<1>9. CASE StoreParent
  <2>1. parent' \in ParentVersion
    BY <1>9, Numbers DEF StoreParent, TypeOK, ParentVersion
  <2> QED BY <1>1, <1>9, <2>1, TypedBy DEF StoreParent, TypeOK, barrier, history, BarrierTyped
<1>10. CASE Recheck
  <2>1. BarrierTyped' /\ child' \in Session
    BY <1>1, <1>10, TriggerTyped DEF Recheck, TypeOK, barrier, BarrierTyped
  <2> QED BY <1>1, <1>10, <2>1, TypedBy DEF Recheck, TypeOK
<1>11. CASE Sweep
  BY <1>1, <1>11, TypedBy DEF Sweep, TypeOK, BarrierTyped
<1>12. CASE Restart
  <2> DEFINE again == child.life = "active" /\ ~child.acked /\ child.on
  <2>1. again => made + 1 \in Check
    <3>1. again => made < MaxChecks
      BY <1>12 DEF Restart
    <3>2. made \in 0..MaxChecks
      BY Numbers DEF TypeOK, Check
    <3> QED BY <3>1, <3>2, Numbers DEF Check
  <2>2. child.mode \in Nat
    BY <1>1 DEF Session
  <2>3. checks' \in [Check -> Job]
    <3>1. ASSUME NEW k \in Check
          PROVE  /\ checks[k] \in Job
                 /\ [checks[k] EXCEPT !.task = "gone", !.event = TRUE] \in Job
                 /\ [NoJob EXCEPT !.task = "new", !.mode = child.mode] \in Job
      BY <2>2, JobTyped, NewJobTyped DEF TypeOK
    <3> QED BY <1>12, <3>1 DEF Restart
  <2>4. child' \in Session
    BY <1>1, <1>12, ChildTyped DEF Restart, Standing, Unready
  <2>5. gate' \in [Evaluation -> Visit]
    <3>1. "lost" \in Place
      BY DEF Place
    <3>2. \A e \in Evaluation : [gate[e] EXCEPT !.at = "lost"] \in Visit
      BY <1>1, <3>1, VisitTyped
    <3> QED BY <1>1, <1>12, <3>2 DEF Restart
  <2>6. overridden' \in BOOLEAN /\ misaligned' \in BOOLEAN /\ waived' \in BOOLEAN
    BY <1>12 DEF Restart
  <2>7. made' \in {0} \cup Check /\ check' \in {0} \cup Check
    BY <1>12, <2>1 DEF Restart, TypeOK
  <2> QED BY <1>1, <1>2, <1>12, <2>3, <2>4, <2>5, <2>6, <2>7, TypedBy DEF Restart, TypeOK, BarrierTyped
<1>13. ASSUME NEW life \in Open \cup {"ended"}, Lifecycle(life) PROVE TypeOK'
  <2>1. child' \in Session
    BY <1>1, <1>13, ChildTyped DEF Lifecycle, Life
  <2> QED BY <1>1, <1>2, <1>13, <2>1, TypedBy DEF Lifecycle, TypeOK, barrier, history, BarrierTyped
<1> QED BY <1>3, <1>4, <1>5, <1>6, <1>7, <1>8, <1>9, <1>10, <1>11, <1>12, <1>13,
           <1>14 DEF Clients

LEMMA ChecksTyped ==
  ASSUME TypeOK, NEW k \in Check, Checking(k)
  PROVE  TypeOK'
<1>1. /\ child \in Session /\ seen \in Seen /\ gate \in [Evaluation -> Visit]
      /\ BarrierTyped /\ checks[k] \in Job /\ checks \in [Check -> Job]
      /\ parent \in ParentVersion /\ moves \in 0..MaxMoves
      /\ own \in {"none", "call", "stored"} /\ above \in {"none", "stored"}
      /\ owed \subseteq {"trigger", "cancel"}
  BY SessionTyped DEF TypeOK, BarrierTyped
<1>2. Ended(k) \in [Check -> Job]
  BY <1>1, JobTyped DEF Ended
<1>3. CASE Start(k)
  <2>1. child.v \in Version /\ child.rev \in Nat
    BY <1>1 DEF Session
  <2>2. hybrid \in BOOLEAN
    BY DEF hybrid
  <2>3. ASSUME ~checks[k].cancelled, child.on, child.mode = checks[k].mode
        PROVE  checks' \in [Check -> Job]
    <3>1. checks' = [checks EXCEPT ![k].task = "call", ![k].result = "asked", ![k].v = child.v,
                                   ![k].pv = parent, ![k].rev = child.rev, ![k].asHybrid = hybrid]
      BY <1>3, <2>3 DEF Start
    <3>2. [checks[k] EXCEPT !.task = "call", !.result = "asked", !.v = child.v,
                            !.pv = parent, !.rev = child.rev, !.asHybrid = hybrid] \in Job
      BY <1>1, <2>1, <2>2, AskedTyped
    <3>3. checks' \in [Check -> Job]
      BY <1>1, <3>1, <3>2
    <3> QED BY <3>3
  <2>4. ASSUME ~(~checks[k].cancelled /\ child.on /\ child.mode = checks[k].mode)
        PROVE  checks' \in [Check -> Job]
    <3>1. [checks[k] EXCEPT !.task = "gone"] \in Job
      BY <1>1, JobTyped
    <3> QED BY <1>1, <1>2, <1>3, <2>4, <3>1 DEF Start
  <2>5. waived' \in BOOLEAN
    BY <1>3 DEF Start
  <2>6. checks' \in [Check -> Job]
    BY <2>3, <2>4
  <2> QED BY <1>1, <1>3, <2>5, <2>6, TypedBy DEF Start, CheckOnly, BarrierTyped
<1>4. CASE Answer(k)
  <2>1. checks' \in [Check -> Job]
    <3>1. PICK r \in {"failed", "revoked"} \cup Verdict : checks' = [checks EXCEPT ![k].result = r]
      BY <1>4 DEF Answer
    <3>2. [checks[k] EXCEPT !.result = r] \in Job
      BY <1>1, JobTyped
    <3> QED BY <1>1, <3>1, <3>2
  <2> QED BY <1>1, <1>4, <2>1, TypedBy DEF Answer, CheckOnly, history, BarrierTyped
<1>5. CASE Conclude(k)
  <2> DEFINE j == checks[k]
             installs == j.result \in Verdict /\ Fenced(k) /\ (j.asHybrid => Current(j.rev))
  <2>1. /\ checks' = Ended(k) /\ CheckOnly
        /\ \/ /\ installs
              /\ child' = IF ~j.asHybrid THEN child
                          ELSE [Moved(child) EXCEPT !.state = IF overridden THEN "ready"
                                                              ELSE State(j.result)]
              /\ misaligned' = (j.result = "misaligned" /\ (misaligned \/ ~overridden))
              /\ IF j.asHybrid # hybrid THEN UNCHANGED history
                 ELSE /\ seen' = [seen EXCEPT !.v = j.v, !.pv = j.pv,
                                              !.ok = j.result = "aligned" \/ overridden]
                      /\ waived' = (waived /\ (j.v # child.v \/ (overridden /\ j.result = "misaligned")))
           \/ /\ ~installs
              /\ child' = IF j.asHybrid /\ j.result = "failed" /\ Current(j.rev)
                          THEN [Moved(child) EXCEPT !.state = "error"] ELSE child
              /\ waived' = (waived \/ ~hybrid)
              /\ UNCHANGED <<misaligned, seen>>
    BY <1>5 DEF Conclude
  <2>2. CASE installs
    <3>1. State(j.result) \in Standing /\ "ready" \in Standing
      BY <2>2 DEF State, Standing, Verdict
    <3>2. child' \in Session
      <4> DEFINE to == IF overridden THEN "ready" ELSE State(j.result)
      <4>1. to \in Standing
        BY <3>1
      <4>2. [Moved(child) EXCEPT !.state = to] \in Session
        BY <1>1, <4>1, ChildTyped
      <4> QED BY <1>1, <2>1, <2>2, <4>2
    <3>3. seen' \in Seen
      <4>1. (j.result = "aligned" \/ overridden) \in BOOLEAN
        BY <1>1 DEF BarrierTyped
      <4>2. j.v \in {NoVersion} \cup Version /\ j.pv \in {NoVersion} \cup ParentVersion
        BY <1>1 DEF Job
      <4>3. \A b \in BOOLEAN : [seen EXCEPT !.v = j.v, !.pv = j.pv, !.ok = b] \in Seen
        BY <1>1, <4>2 DEF Seen
      <4>4. CASE j.asHybrid # hybrid
        BY <1>1, <2>1, <2>2, <4>4 DEF history
      <4>5. CASE j.asHybrid = hybrid
        BY <2>1, <2>2, <4>1, <4>3, <4>5
      <4> QED BY <4>4, <4>5
    <3>4. misaligned' \in BOOLEAN /\ waived' \in BOOLEAN
      BY <1>1, <2>1, <2>2 DEF BarrierTyped, history
    <3> QED BY <1>1, <1>2, <2>1, <3>2, <3>3, <3>4, TypedBy DEF CheckOnly, BarrierTyped
  <2>3. CASE ~installs
    <3>1. "error" \in Standing
      BY DEF Standing, Unready
    <3>2. child' \in Session
      BY <1>1, <2>1, <2>3, <3>1, ChildTyped
    <3>3. waived' \in BOOLEAN
      BY <2>1, <2>3
    <3> QED BY <1>1, <1>2, <2>1, <2>3, <3>2, <3>3, TypedBy DEF CheckOnly, BarrierTyped
  <2> QED BY <2>2, <2>3
<1>6. CASE Abort(k)
  BY <1>1, <1>2, <1>6, TypedBy DEF Abort, CheckOnly, history, BarrierTyped
<1>7. CASE CleanUp(k)
  <2>1. checks' \in [Check -> Job] /\ check' \in {0} \cup Check
    BY <1>1, <1>7, JobTyped DEF CleanUp, BarrierTyped
  <2> QED BY <1>1, <1>7, <2>1, TypedBy DEF CleanUp, history, BarrierTyped
<1> QED BY <1>3, <1>4, <1>5, <1>6, <1>7 DEF Checking

LEMMA GatesTyped ==
  ASSUME TypeOK, NEW e \in Evaluation, Gate(e)
  PROVE  TypeOK'
<1>1. /\ child \in Session /\ seen \in Seen /\ gate \in [Evaluation -> Visit]
      /\ BarrierTyped /\ gate[e] \in Visit
      /\ parent \in ParentVersion /\ moves \in 0..MaxMoves
      /\ own \in {"none", "call", "stored"} /\ above \in {"none", "stored"}
      /\ owed \subseteq {"trigger", "cancel"}
  BY SessionTyped DEF TypeOK, BarrierTyped
<1>2. /\ child.v \in Version
      /\ gate[e].hurried \in BOOLEAN /\ gate[e].row.v \in {NoVersion} \cup Version
      /\ gate[e].pv \in {NoVersion} \cup ParentVersion
      /\ gate[e].seen \in Seen /\ gate[e].lapsed \in BOOLEAN
      /\ gate[e].row.policy \in Policies
  BY <1>1 DEF Session, Visit, Seen
<1> DEFINE Still == UNCHANGED <<child, misaligned, overridden, history>>
<1>3. ASSUME GateOnly, Still, gate' \in [Evaluation -> Visit] PROVE TypeOK'
  BY <1>1, <1>3, TypedBy DEF GateOnly, BarrierTyped, history
<1>4. ASSUME NEW h, Arrive(e, h), h \in BOOLEAN PROVE TypeOK'
  <2>1. (h \/ (~hybrid /\ (~child.on \/ "trigger" \in owed))) \in BOOLEAN
    BY <1>4
  <2>2. /\ (IF Waits /\ Pending THEN "alignment" ELSE "read") \in Place
        /\ (IF Waits /\ Pending THEN check ELSE 0) \in {0} \cup Check
    BY <1>1 DEF Place, BarrierTyped
  <2>3. \A at \in Place, k \in {0} \cup Check, b \in BOOLEAN :
          [gate[e] EXCEPT !.at = at, !.on = k, !.v0 = child.v, !.hurried = b] \in Visit
    BY <1>1, <1>2, VisitTyped
  <2>4. PICK at \in Place, k \in {0} \cup Check, b \in BOOLEAN :
          gate' = [gate EXCEPT ![e].at = at, ![e].on = k, ![e].v0 = child.v, ![e].hurried = b]
    BY <1>4, <2>1, <2>2 DEF Arrive
  <2>5. gate' \in [Evaluation -> Visit]
    BY <1>1, <2>3, <2>4
  <2> QED BY <1>3, <1>4, <2>5 DEF Arrive, Quietly
<1>5. \A at \in Place : [gate[e] EXCEPT !.at = at] \in Visit
  BY <1>1, VisitTyped
<1>6. \A at \in Place, b \in BOOLEAN : [gate[e] EXCEPT !.at = at, !.hurried = b] \in Visit
  BY <1>1, VisitTyped
<1>7. CASE Enter(e) \/ Updated(e) \/ Hurry(e)
  <2>1. "intention" \in Place
    BY DEF Place
  <2>2. CASE GateOnly /\ Quietly /\ gate' = [gate EXCEPT ![e].at = "intention"]
    <3>1. gate' \in [Evaluation -> Visit]
      BY <1>1, <1>5, <2>1, <2>2
    <3> QED BY <1>3, <2>2, <3>1 DEF Quietly
  <2> QED BY <1>4, <1>7, <2>2 DEF Enter, Updated, Hurry
<1>8. CASE Released(e) \/ TimesOut(e)
  <2>1. PICK b \in BOOLEAN : gate' = [gate EXCEPT ![e].at = "read", ![e].hurried = b]
    <3>1. /\ (gate[e].hurried \/ (~hybrid /\ check \notin {0, gate[e].on})) \in BOOLEAN
          /\ (gate[e].hurried \/ ~hybrid) \in BOOLEAN
      BY <1>2
    <3> QED BY <1>8, <3>1 DEF Released, TimesOut
  <2>2. gate' \in [Evaluation -> Visit]
    BY <1>1, <1>6, <2>1 DEF Place
  <2> QED BY <1>3, <1>8, <2>2 DEF Released, TimesOut, Quietly
<1>9. CASE Read(e)
  <2>1. PICK at \in Place :
          gate' = [gate EXCEPT ![e].at = at, ![e].row = child, ![e].pv = parent,
                               ![e].seen = seen, ![e].lapsed = waived]
    BY <1>9 DEF Read, Place
  <2>2. [gate[e] EXCEPT !.at = at, !.row = child, !.pv = parent, !.seen = seen,
                        !.lapsed = waived] \in Visit
    BY <1>1, VisitTyped DEF BarrierTyped
  <2>3. gate' \in [Evaluation -> Visit]
    BY <1>1, <2>1, <2>2
  <2> QED BY <1>3, <1>9, <2>3 DEF Read, Quietly
<1>10. ASSUME NEW c \in Session, NEW s \in Seen, NEW b \in BOOLEAN
       PROVE  /\ [gate[e] EXCEPT !.at = "decide", !.row = c, !.seen = s, !.lapsed = b] \in Visit
              /\ [gate[e] EXCEPT !.row = c, !.seen = s, !.lapsed = b] \in Visit
  <2>1. "decide" \in Place
    BY DEF Place
  <2> QED BY <1>1, <2>1, VisitTyped
<1>16. child' \in Session => Again(e) \in Session
  BY <1>2, RowReread DEF Again
<1>17. Lapsed(e) \in BOOLEAN
  BY DEF Lapsed
<1>11. CASE CheckNow(e)
  <2>1. UNCHANGED <<misaligned, overridden>> /\ GateOnly
    BY <1>11 DEF CheckNow
  <2>2. ASSUME NEW r \in Verdict,
               child' = [Moved(child) EXCEPT !.state = State(r)],
               seen' = [seen EXCEPT !.v = gate[e].row.v, !.pv = gate[e].pv, !.ok = r = "aligned"],
               waived' = FALSE,
               gate' = [gate EXCEPT ![e].at = "decide", ![e].row = child', ![e].seen = seen',
                                    ![e].lapsed = FALSE]
        PROVE  TypeOK'
    <3>1. State(r) \in Standing
      BY DEF State, Standing, Verdict
    <3>2. child' \in Session
      BY <1>1, <2>2, <3>1, ChildTyped
    <3>3. (r = "aligned") \in BOOLEAN
      OBVIOUS
    <3>4. \A b \in BOOLEAN : [seen EXCEPT !.v = gate[e].row.v, !.pv = gate[e].pv, !.ok = b] \in Seen
      BY <1>1, <1>2 DEF Seen
    <3>5. seen' \in Seen
      BY <2>2, <3>3, <3>4
    <3>6. gate' \in [Evaluation -> Visit]
      BY <1>1, <1>10, <2>2, <3>2, <3>5
    <3> QED BY <1>1, <2>1, <2>2, <3>2, <3>5, <3>6, TypedBy DEF GateOnly, BarrierTyped
  <2>3. CASE gate' = [gate EXCEPT ![e].at = "refused"] /\ UNCHANGED <<child, history>>
    <3>1. gate' \in [Evaluation -> Visit]
      BY <1>1, <1>5, <2>3 DEF Place
    <3> QED BY <1>3, <2>1, <2>3, <3>1
  <2>4. CASE /\ child' = IF Current(gate[e].row.rev)
                         THEN [Moved(child) EXCEPT !.state = "error"] ELSE child
             /\ gate' = [gate EXCEPT ![e].at = "decide", ![e].row = Again(e), ![e].seen = seen,
                                     ![e].lapsed = Lapsed(e)]
             /\ UNCHANGED history
    <3>1. "error" \in Standing
      BY DEF Standing, Unready
    <3>2. child' \in Session
      BY <1>1, <2>4, <3>1, ChildTyped
    <3>3. gate' \in [Evaluation -> Visit]
      BY <1>1, <1>10, <1>16, <1>17, <2>4, <3>2
    <3> QED BY <1>1, <2>1, <2>4, <3>2, <3>3, TypedBy DEF GateOnly, history, BarrierTyped
  <2> QED BY <1>11, <2>2, <2>3, <2>4 DEF CheckNow
<1>12. CASE Resume(e)
  <2>1. "active" \in Life
    BY DEF Life, Open
  <2>2. child' \in Session
    BY <1>1, <1>12, <2>1, ChildTyped DEF Resume
  <2>3. gate' \in [Evaluation -> Visit]
    BY <1>1, <1>10, <1>12, <1>16, <1>17, <2>2 DEF Resume
  <2> QED BY <1>1, <1>12, <2>2, <2>3, TypedBy DEF Resume, GateOnly, history, BarrierTyped
<1>13. CASE DenyEnded(e)
  <2>1. gate' \in [Evaluation -> Visit]
    BY <1>1, <1>5, <1>13 DEF DenyEnded, Place
  <2>2. misaligned' \in BOOLEAN /\ overridden' \in BOOLEAN /\ waived' \in BOOLEAN
    BY <1>13 DEF DenyEnded
  <2> QED BY <1>1, <1>13, <2>1, <2>2, TypedBy DEF DenyEnded, GateOnly, BarrierTyped
<1>14. CASE Decide(e)
  <2>1. PICK at \in Place, s \in Seen, b \in BOOLEAN :
          gate' = [gate EXCEPT ![e].at = at, ![e].seen = s, ![e].lapsed = b]
    <3>1. Outcome(gate[e].row) \in Place
      BY DEF Outcome, Place
    <3> DEFINE legacy == gate[e].row.policy = "legacy"
    <3>2. /\ (IF legacy THEN seen ELSE gate[e].seen) \in Seen
          /\ (IF legacy THEN Lapsed(e) ELSE gate[e].lapsed) \in BOOLEAN
      BY <1>1, <1>2, <1>17
    <3> QED BY <1>14, <3>1, <3>2 DEF Decide
  <2>2. [gate[e] EXCEPT !.at = at, !.seen = s, !.lapsed = b] \in Visit
    BY <1>1, VisitTyped
  <2>3. gate' \in [Evaluation -> Visit]
    BY <1>1, <2>1, <2>2
  <2> QED BY <1>3, <1>14, <2>3 DEF Decide, Quietly
<1>15. CASE Approve(e)
  <2>1. child' \in Session
    <3>1. "ready" \in Standing /\ TRUE \in BOOLEAN
      BY DEF Standing
    <3> QED BY <1>1, <1>15, <3>1, ChildTyped DEF Approve
  <2>2. seen' \in Seen
    <3>1. [seen EXCEPT !.v = gate[e].row.v, !.ok = TRUE] \in Seen
      BY <1>1, <1>2 DEF Seen
    <3> QED BY <1>15, <3>1 DEF Approve
  <2>3. gate' \in [Evaluation -> Visit]
    BY <1>1, <1>5, <1>15 DEF Approve, Place
  <2>4. misaligned' \in BOOLEAN /\ overridden' \in BOOLEAN /\ waived' \in BOOLEAN
    BY <1>1, <1>15 DEF Approve, BarrierTyped
  <2> QED BY <1>1, <1>15, <2>1, <2>2, <2>3, <2>4, TypedBy DEF Approve, GateOnly, BarrierTyped
<1> QED BY <1>7, <1>8, <1>9, <1>11, <1>12, <1>13, <1>14, <1>15 DEF Gate

LEMMA InitTyped == Init => TypeOK
<1> SUFFICES ASSUME Init PROVE TypeOK
  OBVIOUS
<1>1. 1 \in Version /\ 1 \in ParentVersion /\ MaxMoves \in 0..MaxMoves
  BY AlignmentAssumption DEF Version, ParentVersion
<1>2. child \in Session
  <2>1. PICK p \in Policies :
          child = [v |-> 1, rev |-> 1, on |-> TRUE, mode |-> 1, life |-> "active",
                   state |-> IF p = "legacy" THEN "ready" ELSE "pending", acked |-> FALSE,
                   policy |-> p]
    BY DEF Init
  <2> QED BY <1>1, <2>1 DEF Session, Life, Open, Standing, Unready
<1>3. Unseen \in Seen
  BY DEF Unseen, Seen, NoVersion
<1>4. [at |-> "new", on |-> 0, hurried |-> FALSE, v0 |-> NoVersion, row |-> child,
       pv |-> NoVersion, seen |-> Unseen, lapsed |-> FALSE] \in Visit
  BY <1>2, <1>3 DEF Visit, Session, Life, Standing, Seen, NoVersion
<1>5. NoJob \in Job
  BY NewJobTyped, 0 \in Nat
<1> QED BY <1>1, <1>2, <1>3, <1>4, <1>5 DEF Init, TypeOK, Session, Life, Standing, Seen

LEMMA NextTyped == TypeOK /\ [Next]_vars => TypeOK'
<1> SUFFICES ASSUME TypeOK, [Next]_vars PROVE TypeOK'
  OBVIOUS
<1>1. CASE UNCHANGED vars
  BY <1>1 DEF TypeOK, vars, barrier, history
<1>2. CASE Next
  BY <1>2, ClientsTyped, ChecksTyped, GatesTyped DEF Next
<1> QED BY <1>1, <1>2

-----------------------------------------------------------------------------
(* What the steps do to the child and to its entry. *)

\* The intention, the participation and the policy are those they were.
Kept(c, d) ==
  d.v = c.v /\ d.on = c.on /\ d.mode = c.mode /\ d.policy = c.policy /\ d.rev >= c.rev

LEMMA FieldsKept ==
  ASSUME NEW c \in Session
  PROVE  /\ c.v \in Nat /\ c.rev \in Nat /\ c.on \in BOOLEAN
         /\ Kept(c, c)
         /\ \A s : Kept(c, [Moved(c) EXCEPT !.state = s]) /\ [Moved(c) EXCEPT !.state = s].state = s
         /\ \A s : Kept(c, [Moved(c) EXCEPT !.life = s])
                   /\ [Moved(c) EXCEPT !.life = s].state = c.state
         /\ \A b : Kept(c, [Moved(c) EXCEPT !.acked = b])
                   /\ [Moved(c) EXCEPT !.acked = b].state = c.state
         /\ \A s, b : Kept(c, [Moved(c) EXCEPT !.state = s, !.acked = b])
                      /\ [Moved(c) EXCEPT !.state = s, !.acked = b].state = s
<1>1. c.v \in Nat /\ c.rev \in Nat /\ c.on \in BOOLEAN
  BY Numbers DEF Session
<1>2. DOMAIN c = {"v", "rev", "on", "mode", "life", "state", "acked", "policy"}
  BY DEF Session
<1> DEFINE r == Moved(c)
<1>3. /\ r.v = c.v /\ r.on = c.on /\ r.mode = c.mode /\ r.state = c.state /\ r.rev = c.rev + 1
      /\ r.policy = c.policy /\ r \in Session
  <2>1. /\ r.v = c.v /\ r.on = c.on /\ r.mode = c.mode /\ r.state = c.state
        /\ r.rev = c.rev + 1 /\ r.policy = c.policy
    BY <1>2 DEF Moved
  <2> QED BY <1>1, <2>1, ChildTyped
<1> HIDE DEF r
<1>4. /\ \A s : Kept(c, [r EXCEPT !.state = s]) /\ [r EXCEPT !.state = s].state = s
      /\ \A s : Kept(c, [r EXCEPT !.life = s]) /\ [r EXCEPT !.life = s].state = c.state
  BY <1>1, <1>3 DEF Kept, Session
<1>7. \A b : Kept(c, [r EXCEPT !.acked = b]) /\ [r EXCEPT !.acked = b].state = c.state
  BY <1>1, <1>3 DEF Kept, Session
<1>5. \A s, b : Kept(c, [r EXCEPT !.state = s, !.acked = b])
                /\ [r EXCEPT !.state = s, !.acked = b].state = s
  BY <1>1, <1>3 DEF Kept, Session
<1>6. Kept(c, c)
  BY <1>1 DEF Kept
<1> QED BY <1>1, <1>4, <1>5, <1>6, <1>7 DEF r

LEMMA EngineKept == Kept(child, child') => UNCHANGED hybrid
BY DEF Kept, hybrid

LEMMA StoppedSays ==
  ASSUME TypeOK
  PROVE  \A k \in Check :
           /\ Stopped[k].task = checks[k].task /\ Stopped[k].mode = checks[k].mode
           /\ Stopped[k].rev = checks[k].rev /\ Stopped[k].v = checks[k].v
           /\ Stopped[k].asHybrid = checks[k].asHybrid
           /\ checks[k].event => Stopped[k].event
           /\ checks[k].cancelled => Stopped[k].cancelled
           /\ k = check /\ checks[k].task # "gone" => Stopped[k].cancelled
<1>1. checks \in [Check -> Job]
  BY DEF TypeOK
<1>2. CASE check = 0 \/ checks[check].task = "gone"
  BY <1>1, <1>2, Numbers DEF Stopped
<1>3. CASE ~(check = 0 \/ checks[check].task = "gone")
  <2>1. Stopped = [checks EXCEPT ![check] = [@ EXCEPT !.cancelled = TRUE, !.event = TRUE]]
    BY <1>3 DEF Stopped
  <2>2. check \in Check /\ checks[check] \in Job
    BY <1>1, <1>3 DEF TypeOK
  <2>3. Stopped[check] = [checks[check] EXCEPT !.cancelled = TRUE, !.event = TRUE]
    BY <1>1, <2>1, <2>2
  <2>4. \A k \in Check : k # check => Stopped[k] = checks[k]
    BY <1>1, <2>1, <2>2
  <2>5. /\ Stopped[check].task = checks[check].task /\ Stopped[check].mode = checks[check].mode
        /\ Stopped[check].rev = checks[check].rev /\ Stopped[check].v = checks[check].v
        /\ Stopped[check].asHybrid = checks[check].asHybrid
        /\ Stopped[check].event /\ Stopped[check].cancelled
    BY <2>2, <2>3 DEF Job
  <2> QED BY <2>4, <2>5
<1> QED BY <1>2, <1>3

\* A handler, an update's task or the recheck comes to the entry: the entry is gone, ...
Cancelled ==
  /\ check' = 0 /\ checks' = Stopped /\ waived' = (waived \/ ~hybrid)
  /\ child'.state = child.state

\* ... a new check replaces it, ...
Triggered ==
  /\ child'.on /\ check' \in Check
  /\ \A k \in Check \ {check'} : checks'[k] = Stopped[k]
  /\ checks'[check'].task = "new" /\ checks'[check'].mode = child.mode
  /\ ~checks'[check'].cancelled /\ ~checks'[check'].event
  /\ hybrid => child'.state = "pending"
  /\ UNCHANGED <<misaligned, waived>> /\ (overridden' => overridden)

\* ... or nothing is to be done.
Left == UNCHANGED <<child, check, checks, misaligned, overridden, waived, own>>

LEMMA TriggerStep ==
  ASSUME TypeOK, NEW c \in Session, NEW o \in BOOLEAN, Trigger(c, o), o => overridden,
         c.mode = child.mode, c.state = child.state
  PROVE  Kept(c, child') /\ ((Cancelled /\ ~child'.on) \/ Triggered)
<1>1. CASE ~c.on /\ Cancel /\ child' = c
  BY <1>1, FieldsKept DEF Cancel, Cancelled
<1>2. CASE c.on /\ made < MaxChecks
  <2>1. /\ check' = made + 1 /\ overridden' = o
        /\ checks' = [Stopped EXCEPT ![made + 1] = [NoJob EXCEPT !.task = "new", !.mode = c.mode]]
        /\ child' = IF hybrid THEN [Moved(c) EXCEPT !.state = "pending"] ELSE c
        /\ UNCHANGED <<misaligned, waived>>
    BY <1>2 DEF Trigger
  <2>2. made + 1 \in Check
    BY <1>2, Numbers DEF TypeOK, Check
  <2>3. checks'[check'] = [NoJob EXCEPT !.task = "new", !.mode = child.mode]
    BY <2>1, <2>2, StoppedTyped
  <2>4. /\ checks'[check'].task = "new" /\ checks'[check'].mode = child.mode
        /\ ~checks'[check'].cancelled /\ ~checks'[check'].event
    BY <2>3 DEF NoJob
  <2>5. \A k \in Check \ {check'} : checks'[k] = Stopped[k]
    BY <2>1, <2>2, StoppedTyped
  <2>6. Kept(c, child') /\ (hybrid => child'.state = "pending")
    BY <2>1, FieldsKept
  <2>7. child'.on
    BY <1>2, <2>6 DEF Kept
  <2> QED BY <2>1, <2>2, <2>4, <2>5, <2>6, <2>7 DEF Triggered
<1> QED BY <1>1, <1>2 DEF Trigger

LEMMA EntryStep ==
  ASSUME TypeOK, Tell \/ Chain \/ Recheck
  PROVE  /\ UNCHANGED <<hybrid, gate, seen>> /\ Kept(child, child')
         /\ own' = own \/ own' = "none"
         /\ (Cancelled /\ (own' = own \/ ~child'.on)) \/ Triggered \/ (Left /\ UNCHANGED owed)
<1>1. child \in Session /\ overridden \in BOOLEAN
  BY SessionTyped DEF TypeOK
<1>2. CASE Tell
  <2>1. CASE Trigger(child, overridden)
    BY <1>1, <1>2, <2>1, TriggerStep, EngineKept DEF Tell
  <2>2. CASE Cancel /\ UNCHANGED child
    BY <1>1, <1>2, <2>2, FieldsKept, EngineKept DEF Tell, Cancel, Cancelled
  <2> QED BY <1>2, <2>1, <2>2 DEF Tell
<1>3. CASE Chain
  <2>1. /\ Unacknowledged \in Session /\ Kept(child, Unacknowledged)
        /\ Unacknowledged.state = child.state
    BY <1>1, ChildTyped, FieldsKept, FALSE \in BOOLEAN DEF Unacknowledged
  <2>2. Trigger(Unacknowledged, FALSE) /\ Unacknowledged.mode = child.mode
    BY <1>3, <2>1 DEF Chain, Kept
  <2>3. Kept(Unacknowledged, child') /\ ((Cancelled /\ ~child'.on) \/ Triggered)
    BY <2>1, <2>2, TriggerStep, FALSE \in BOOLEAN
  <2>4. child' \in Session
    BY <2>1, <2>2, TriggerTyped, FALSE \in BOOLEAN
  <2>5. Kept(child, child')
    BY <1>1, <2>1, <2>3, <2>4, FieldsKept DEF Kept
  <2> QED BY <1>3, <2>3, <2>5, EngineKept DEF Chain
<1>4. CASE Recheck
  <2>1. CASE Trigger(child, overridden)
    BY <1>1, <1>4, <2>1, TriggerStep, EngineKept DEF Recheck
  <2>2. CASE UNCHANGED <<child, barrier, waived>>
    BY <1>1, <1>4, <2>2, FieldsKept, EngineKept DEF Recheck, barrier, Left
  <2> QED BY <1>4, <2>1, <2>2 DEF Recheck
<1> QED BY <1>2, <1>3, <1>4

\* The other steps, but for an opt-out or opt-in, the activation of a policy and the
\* store of an intention, leave them, too.
Plain ==
  \/ Message \/ NotStored \/ StoreParent \/ Sweep \/ Restart
  \/ \E life \in Open \cup {"ended"} : Lifecycle(life)
  \/ \E k \in Check : Checking(k)
  \/ \E e \in Evaluation : Gate(e)

LEMMA PlainKept ==
  ASSUME TypeOK, Plain
  PROVE  Kept(child, child') /\ UNCHANGED hybrid
<1>1. child \in Session
  BY SessionTyped
<1>2. Kept(child, child) /\ \A s : Kept(child, [Moved(child) EXCEPT !.state = s])
  BY <1>1, FieldsKept
<1>3. ASSUME Message \/ NotStored \/ StoreParent \/ Sweep PROVE Kept(child, child')
  BY <1>2, <1>3 DEF Message, NotStored, StoreParent, Sweep
<1>4. ASSUME Restart PROVE Kept(child, child')
  BY <1>1, <1>2, <1>4, FieldsKept DEF Restart
<1>5. ASSUME NEW life, Lifecycle(life) PROVE Kept(child, child')
  BY <1>1, <1>5, FieldsKept DEF Lifecycle
<1>6. ASSUME NEW k \in Check, Checking(k) PROVE Kept(child, child')
  <2>1. CASE Start(k) \/ Answer(k) \/ Abort(k) \/ CleanUp(k)
    BY <1>2, <2>1 DEF Start, Answer, Abort, CleanUp
  <2>2. CASE Conclude(k)
    <3> DEFINE s == IF overridden THEN "ready" ELSE State(checks[k].result)
    <3>1. \/ child' = child
          \/ child' = [Moved(child) EXCEPT !.state = s]
          \/ child' = [Moved(child) EXCEPT !.state = "error"]
      <4>1. CASE child' = IF ~checks[k].asHybrid THEN child
                          ELSE [Moved(child) EXCEPT !.state = s]
        <5>1. CASE checks[k].asHybrid
          BY <4>1, <5>1
        <5>2. CASE ~checks[k].asHybrid
          BY <4>1, <5>2
        <5> QED BY <5>1, <5>2
      <4>2. CASE child' = IF checks[k].asHybrid /\ checks[k].result = "failed" /\ Current(checks[k].rev)
                          THEN [Moved(child) EXCEPT !.state = "error"] ELSE child
        BY <4>2
      <4> QED BY <2>2, <4>1, <4>2 DEF Conclude
    <3> HIDE DEF s
    <3>2. CASE child' = child
      BY <1>2, <3>2
    <3>3. CASE child' = [Moved(child) EXCEPT !.state = s]
      BY <1>2, <3>3
    <3>4. CASE child' = [Moved(child) EXCEPT !.state = "error"]
      BY <1>2, <3>4
    <3> QED BY <3>1, <3>2, <3>3, <3>4
  <2> QED BY <1>6, <2>1, <2>2 DEF Checking
<1>7. ASSUME NEW e \in Evaluation, Gate(e) PROVE Kept(child, child')
  <2>1. CASE Enter(e) \/ Updated(e) \/ Hurry(e)
    BY <1>2, <2>1 DEF Enter, Updated, Hurry, Arrive, Quietly
  <2>2. CASE Released(e) \/ TimesOut(e) \/ Read(e) \/ Decide(e) \/ DenyEnded(e)
    BY <1>2, <2>2 DEF Released, TimesOut, Read, Decide, DenyEnded, Quietly
  <2>3. CASE CheckNow(e)
    <3>1. CASE \E r \in Verdict : child' = [Moved(child) EXCEPT !.state = State(r)]
      BY <1>2, <3>1
    <3>2. CASE UNCHANGED <<child, history>>
      BY <1>2, <3>2
    <3>3. CASE child' = IF Current(gate[e].row.rev)
                        THEN [Moved(child) EXCEPT !.state = "error"] ELSE child
      <4>1. CASE Current(gate[e].row.rev)
        BY <1>2, <3>3, <4>1
      <4>2. CASE ~Current(gate[e].row.rev)
        BY <1>2, <3>3, <4>2
      <4> QED BY <4>1, <4>2
    <3> QED BY <2>3, <3>1, <3>2, <3>3 DEF CheckNow
  <2>4. CASE Resume(e)
    BY <1>1, <2>4, FieldsKept DEF Resume
  <2>5. CASE Approve(e)
    BY <1>1, <2>5, FieldsKept DEF Approve
  <2> QED BY <1>7, <2>1, <2>2, <2>3, <2>4, <2>5 DEF Gate
<1>8. Kept(child, child')
  BY <1>3, <1>4, <1>5, <1>6, <1>7 DEF Plain
<1> QED BY <1>8, EngineKept

LEMMA ToggleStep ==
  ASSUME TypeOK, NEW on \in BOOLEAN, Toggle(on)
  PROVE  /\ UNCHANGED hybrid /\ child'.v = child.v /\ child'.on = on
         /\ \/ child' = child /\ child.on = on
            \/ /\ child'.rev > child.rev /\ child.on # on
               /\ child'.state = (IF on THEN "pending" ELSE "ready")
<1>1. child \in Session /\ child.rev \in Nat
  BY SessionTyped, FieldsKept
<1>2. CASE child.on = on
  BY <1>2 DEF Toggle, hybrid
<1>3. CASE child.on # on
  <2>1. child' = [Moved(child) EXCEPT !.on = on, !.mode = @ + 1,
                                       !.state = IF on THEN "pending" ELSE "ready"]
    BY <1>3 DEF Toggle, Moved
  <2>2. /\ child'.v = child.v /\ child'.on = on /\ child'.rev = child.rev + 1
        /\ child'.state = (IF on THEN "pending" ELSE "ready")
        /\ child'.policy = child.policy
    BY <1>1, <2>1 DEF Moved, Session
  <2> QED BY <1>1, <1>3, <2>2 DEF hybrid
<1> QED BY <1>2, <1>3

LEMMA ActivateStep ==
  ASSUME TypeOK, NEW p \in Policies, Activate(p)
  PROVE  /\ child'.v = child.v /\ child'.rev > child.rev /\ child'.policy = p
         /\ child'.on = child.on /\ child'.mode = child.mode /\ child'.state = child.state
         /\ waived' = (waived \/ hybrid' # hybrid)
<1>1. child \in Session /\ child.rev \in Nat
  BY SessionTyped, FieldsKept
<1>2. child' = [Moved(child) EXCEPT !.policy = p]
  BY DEF Activate
<1>3. /\ child'.v = child.v /\ child'.rev = child.rev + 1 /\ child'.policy = p
      /\ child'.on = child.on /\ child'.mode = child.mode /\ child'.state = child.state
  BY <1>1, <1>2 DEF Moved, Session
<1>4. waived' = (waived \/ hybrid' # hybrid)
  BY <1>3 DEF Activate, hybrid
<1> QED BY <1>1, <1>3, <1>4

LEMMA StoreStep ==
  ASSUME TypeOK, Store
  PROVE  /\ child'.v = child.v + 1 /\ child'.rev > child.rev
         /\ child'.on = child.on /\ child'.mode = child.mode /\ child'.state = child.state
         /\ UNCHANGED hybrid
<1>1. child \in Session /\ child.rev \in Nat
  BY SessionTyped, FieldsKept
<1>2. child' = [Moved(child) EXCEPT !.v = child.v + 1]
  BY DEF Store, Moved
<1>3. /\ child'.v = child.v + 1 /\ child'.rev = child.rev + 1
      /\ child'.on = child.on /\ child'.mode = child.mode /\ child'.state = child.state
      /\ child'.policy = child.policy
  BY <1>1, <1>2 DEF Moved, Session
<1> QED BY <1>1, <1>3 DEF hybrid

\* Every step is of these kinds.
LEMMA StepKinds ==
  Next => \/ Tell \/ Chain \/ Recheck \/ Store \/ Plain
          \/ \E on \in BOOLEAN : Toggle(on)
          \/ \E p \in Policies : Activate(p)
BY DEF Next, Clients, Plain

-----------------------------------------------------------------------------
(* The entry of the barrier. *)

Entries == CurrentCheckAwaited /\ EntryStands /\ EndedTold

\* What a step of a check does to it and to the entry.
LEMMA CheckStep ==
  ASSUME TypeOK, NEW k \in Check, Checking(k)
  PROVE  /\ UNCHANGED <<hybrid, overridden, own, owed, gate>>
         /\ checks' \in [Check -> Job]
         /\ \A i \in Check \ {k} : checks'[i] = checks[i]
         /\ checks[k].event => checks'[k].event
         /\ checks'[k].cancelled => checks[k].cancelled
         /\ \/ /\ checks'[k].task = "gone" /\ checks'[k].event = checks[k].event
               /\ \/ checks[k].task = "new" /\ checks[k].cancelled
                  \/ checks[k].task = "yield"
            \/ checks'[k].task = "yield" /\ checks'[k].event /\ ~checks'[k].cancelled
               /\ checks[k].task \in {"new", "call"}
            \/ /\ checks[k].task = "new" /\ ~checks[k].cancelled
               /\ checks'[k].task = "call" /\ ~checks'[k].cancelled
               /\ checks'[k].event = checks[k].event
               /\ checks'[k].v = child.v /\ checks'[k].rev = child.rev
               /\ checks'[k].asHybrid = hybrid
            \/ /\ checks'[k].task = checks[k].task /\ checks'[k].cancelled = checks[k].cancelled
               /\ checks'[k].event = checks[k].event
               /\ checks'[k].v = checks[k].v /\ checks'[k].rev = checks[k].rev
               /\ checks'[k].asHybrid = checks[k].asHybrid
         /\ check' = check \/ (CleanUp(k) /\ check = k /\ check' = 0)
<1>1. checks \in [Check -> Job] /\ checks[k] \in Job
  BY DEF TypeOK
<1> DEFINE j == checks[k]
<1>2. /\ UNCHANGED <<hybrid, overridden, own, owed, gate>>
      /\ check' = check \/ (CleanUp(k) /\ check = k /\ check' = 0)
  BY PlainKept DEF Plain, Checking, Start, Answer, Conclude, Abort, CleanUp, CheckOnly, Mine
<1>3. /\ Ended(k)[k].task = "yield" /\ Ended(k)[k].event /\ ~Ended(k)[k].cancelled
      /\ \A i \in Check \ {k} : Ended(k)[i] = checks[i]
  BY <1>1 DEF Ended, NoJob
<1>4. checks' \in [Check -> Job]
  BY ChecksTyped DEF TypeOK
<1>5. CASE Start(k)
  <2>1. CASE j.cancelled
    <3>1. checks' = [checks EXCEPT ![k] = [@ EXCEPT !.task = "gone"]] /\ j.task = "new"
      BY <1>5, <2>1 DEF Start
    <3>2. checks'[k] = [j EXCEPT !.task = "gone"] /\ \A i \in Check \ {k} : checks'[i] = checks[i]
      BY <1>1, <3>1
    <3>3. checks'[k].task = "gone" /\ checks'[k].event = j.event
          /\ checks'[k].cancelled = j.cancelled
      BY <1>1, <3>2 DEF Job
    <3> QED BY <1>2, <1>4, <2>1, <3>1, <3>2, <3>3
  <2>2. CASE ~j.cancelled /\ (~child.on \/ child.mode # j.mode)
    BY <1>2, <1>3, <1>4, <1>5, <2>2 DEF Start
  <2>3. CASE ~j.cancelled /\ ~(~child.on \/ child.mode # j.mode)
    <3> DEFINE n == [j EXCEPT !.task = "call", !.result = "asked", !.v = child.v, !.pv = parent,
                              !.rev = child.rev, !.asHybrid = hybrid]
    <3>1. checks' = [checks EXCEPT ![k].task = "call", ![k].result = "asked",
                                       ![k].v = child.v, ![k].pv = parent, ![k].rev = child.rev,
                                       ![k].asHybrid = hybrid]
          /\ j.task = "new"
      BY <1>5, <2>3 DEF Start
    <3>2. checks'[k] = n /\ \A i \in Check \ {k} : checks'[i] = checks[i]
      BY <1>1, <3>1
    <3>3. /\ n.task = "call" /\ n.v = child.v /\ n.rev = child.rev /\ n.event = j.event
          /\ n.asHybrid = hybrid /\ n.cancelled = j.cancelled
      BY <1>1 DEF Job
    <3> QED BY <1>2, <1>4, <2>3, <3>1, <3>2, <3>3
  <2> QED BY <2>1, <2>2, <2>3
<1>6. CASE Answer(k)
  <2>1. PICK r : checks' = [checks EXCEPT ![k].result = r]
    BY <1>6 DEF Answer
  <2>2. /\ checks'[k].task = j.task /\ checks'[k].cancelled = j.cancelled
        /\ checks'[k].event = j.event /\ checks'[k].asHybrid = j.asHybrid
        /\ checks'[k].v = j.v /\ checks'[k].rev = j.rev
        /\ \A i \in Check \ {k} : checks'[i] = checks[i]
    BY <1>1, <2>1 DEF Job
  <2> QED BY <1>2, <1>4, <2>2
<1>7. CASE Conclude(k) \/ Abort(k)
  <2>1. checks' = Ended(k) /\ j.task = "call"
    BY <1>7 DEF Conclude, Abort
  <2> QED BY <1>2, <1>3, <1>4, <2>1
<1>8. CASE CleanUp(k)
  <2>1. checks' = [checks EXCEPT ![k].task = "gone"] /\ j.task = "yield"
    BY <1>8 DEF CleanUp
  <2>2. /\ checks'[k].task = "gone" /\ checks'[k].event = j.event
        /\ checks'[k].cancelled = j.cancelled
        /\ \A i \in Check \ {k} : checks'[i] = checks[i]
    BY <1>1, <2>1 DEF Job
  <2> QED BY <1>2, <1>4, <2>1, <2>2
<1> QED BY <1>5, <1>6, <1>7, <1>8 DEF Checking

\* After a restart there is at most one check, and it has yet to start.
LEMMA RestartStep ==
  ASSUME TypeOK, Restart
  PROVE  /\ UNCHANGED <<hybrid, seen>> /\ own' = "none" /\ owed' = {}
         /\ waived' = (waived \/ own = "stored" \/ ~hybrid)
         /\ child' = child \/ child'.state = "pending"
         /\ check' # 0 => check' \in Check /\ child.on
         /\ \A k \in Check :
              \/ /\ k = check' /\ checks'[k].task = "new" /\ checks'[k].mode = child.mode
                 /\ ~checks'[k].cancelled /\ ~checks'[k].event
              \/ k # check' /\ checks'[k].task \in {"none", "gone"}
<1> DEFINE again == child.life = "active" /\ ~child.acked /\ child.on
<1>1. /\ again => made < MaxChecks
      /\ checks' = [k \in Check |->
                      IF again /\ k = made + 1
                      THEN [NoJob EXCEPT !.task = "new", !.mode = child.mode]
                      ELSE IF checks[k].task = "none" THEN checks[k]
                      ELSE [checks[k] EXCEPT !.task = "gone", !.event = TRUE]]
      /\ check' = IF again THEN made + 1 ELSE 0
      /\ child' = IF again /\ hybrid THEN [Moved(child) EXCEPT !.state = "pending"] ELSE child
      /\ UNCHANGED <<hybrid, seen>> /\ own' = "none" /\ owed' = {}
      /\ waived' = (waived \/ own = "stored" \/ ~hybrid)
  BY PlainKept DEF Plain, Restart
<1>2. made \in 0..MaxChecks /\ checks \in [Check -> Job] /\ child \in Session
  <2>1. made \in 0..MaxChecks
    BY Numbers DEF TypeOK, Check
  <2> QED BY <2>1, SessionTyped DEF TypeOK
<1>3. again => made + 1 \in Check
  <2>1. again => made < MaxChecks
    BY <1>1
  <2>2. made \in 0..MaxChecks
    BY <1>2
  <2> QED BY <2>1, <2>2, Numbers DEF Check
<1>4. check' # 0 => check' \in Check /\ child.on
  BY <1>1, <1>3
<1>5. child' = child \/ child'.state = "pending"
  BY <1>1, <1>2, FieldsKept
<1>6. ASSUME NEW k \in Check
      PROVE  \/ /\ k = check' /\ checks'[k].task = "new" /\ checks'[k].mode = child.mode
                /\ ~checks'[k].cancelled /\ ~checks'[k].event
             \/ k # check' /\ checks'[k].task \in {"none", "gone"}
  <2>1. CASE again /\ k = made + 1
    <3>1. checks'[k] = [NoJob EXCEPT !.task = "new", !.mode = child.mode]
      BY <1>1, <2>1
    <3>2. /\ checks'[k].task = "new" /\ checks'[k].mode = child.mode
          /\ ~checks'[k].cancelled /\ ~checks'[k].event
      BY <3>1 DEF NoJob
    <3> QED BY <1>1, <2>1, <3>2
  <2>2. CASE ~(again /\ k = made + 1)
    <3>1. k # check'
      BY <1>1, <2>2, Numbers
    <3>2. CASE checks[k].task = "none"
      BY <1>1, <2>2, <3>1, <3>2
    <3>3. CASE checks[k].task # "none"
      <4>1. checks'[k] = [checks[k] EXCEPT !.task = "gone", !.event = TRUE] /\ checks[k] \in Job
        BY <1>1, <1>2, <2>2, <3>3
      <4>2. checks'[k].task = "gone"
        BY <4>1 DEF Job
      <4> QED BY <3>1, <4>2
    <3> QED BY <3>2, <3>3
  <2> QED BY <2>1, <2>2
<1> QED BY <1>1, <1>4, <1>5, <1>6

LEMMA EntriesKept ==
  ASSUME TypeOK, Entries, Next
  PROVE  Entries'
<1>0. 0 \notin Check
  BY Numbers
<1>1. CASE Tell \/ Chain \/ Recheck
  <2>1. Cancelled \/ Triggered \/ Left
    BY <1>1, EntryStep
  <2>2. \A k \in Check :
          /\ Stopped[k].task = "yield" => Stopped[k].event
          /\ ~(Stopped[k].task \in {"new", "call"} /\ ~Stopped[k].cancelled)
    BY StoppedSays DEF Entries, EndedTold, CurrentCheckAwaited, Live
  <2>3. CASE Cancelled
    <3>1. /\ \A k \in Check : ~Live(k)' /\ check' # k
          /\ EndedTold'
      BY <1>0, <2>2, <2>3 DEF Cancelled, Live, EndedTold
    <3> QED BY <2>3, <3>1 DEF Cancelled, Entries, CurrentCheckAwaited, EntryStands
  <2>4. CASE Triggered
    <3>1. /\ \A k \in Check : Live(k)' => check' = k
          /\ EndedTold'
      BY <2>2, <2>4 DEF Triggered, Live, EndedTold
    <3> QED BY <2>4, <3>1 DEF Triggered, Entries, CurrentCheckAwaited, EntryStands
  <2>5. CASE Left
    BY <2>5 DEF Left, Entries, CurrentCheckAwaited, Live, EntryStands, EndedTold
  <2> QED BY <2>1, <2>3, <2>4, <2>5
<1>2. ASSUME UNCHANGED <<check, checks>> PROVE Entries'
  BY <1>2 DEF Entries, CurrentCheckAwaited, Live, EntryStands, EndedTold
<1>3. ASSUME NEW on \in BOOLEAN, Toggle(on) PROVE Entries'
  BY <1>2, <1>3 DEF Toggle, barrier
<1>9. ASSUME NEW p \in Policies, Activate(p) PROVE Entries'
  BY <1>2, <1>9 DEF Activate, barrier
<1>4. CASE Store
  BY <1>2, <1>4 DEF Store, barrier
<1>5. CASE Restart
  <2>1. \A k \in Check :
          /\ Live(k)' => check' = k /\ ~checks'[k].event
          /\ checks'[k].task # "yield"
          /\ check' = k => ~checks'[k].cancelled
    BY <1>5, RestartStep DEF Live
  <2> QED BY <2>1 DEF Entries, CurrentCheckAwaited, EntryStands, EndedTold
<1>6. ASSUME NEW k \in Check, Checking(k) PROVE Entries'
  <2>2. /\ \A i \in Check \ {k} : checks'[i] = checks[i]
        /\ checks[k].event => checks'[k].event
        /\ checks'[k].task = "yield" => checks'[k].event
        /\ Live(k)' => Live(k) /\ checks'[k].event = checks[k].event
        /\ checks'[k].cancelled => checks[k].cancelled
        /\ check' = check \/ (CleanUp(k) /\ check = k /\ check' = 0)
    BY <1>6, CheckStep DEF Entries, EndedTold, Live
  <2>4. EndedTold'
    BY <2>2 DEF Entries, EndedTold
  <2>5. CurrentCheckAwaited'
    <3>1. ASSUME NEW i \in Check, Live(i)' PROVE check' = i /\ ~checks'[i].event
      <4>1. Live(i) /\ check = i /\ ~checks[i].event
        BY <2>2, <3>1 DEF Entries, CurrentCheckAwaited, Live
      <4>2. CASE i = k
        BY <2>2, <3>1, <4>1, <4>2 DEF CleanUp, Live
      <4>3. CASE i # k
        BY <2>2, <4>1, <4>3
      <4> QED BY <4>2, <4>3
    <3> QED BY <3>1 DEF CurrentCheckAwaited
  <2>6. EntryStands'
    <3>1. ASSUME NEW i \in Check, check' = i PROVE ~checks'[i].cancelled
      <4>1. check = i /\ ~checks[i].cancelled
        BY <1>0, <2>2, <3>1 DEF Entries, EntryStands
      <4> QED BY <2>2, <3>1, <4>1
    <3> QED BY <3>1 DEF EntryStands
  <2> QED BY <2>4, <2>5, <2>6 DEF Entries
<1>7. ASSUME NEW e \in Evaluation, Gate(e) PROVE Entries'
  <2>1. UNCHANGED <<check, checks>>
    BY <1>7 DEF Gate, Enter, Updated, Hurry, Arrive, Released, TimesOut, Read, CheckNow, Resume,
          DenyEnded, Decide, Approve, GateOnly
  <2> QED BY <1>2, <2>1
<1>8. CASE Message \/ NotStored \/ StoreParent \/ Sweep \/ \E life \in Open \cup {"ended"} : Lifecycle(life)
  <2>1. UNCHANGED <<check, checks>>
    BY <1>8 DEF Message, NotStored, StoreParent, Sweep, Lifecycle, barrier
  <2> QED BY <1>2, <2>1
<1> QED BY <1>1, <1>3, <1>4, <1>5, <1>6, <1>7, <1>8, <1>9, StepKinds DEF Plain

-----------------------------------------------------------------------------
(* What a step of an evaluation does to it, and to the child. *)

\* It came to the alignment barrier, ...
Comes(g, h) ==
  /\ h.at = (IF Waits /\ Pending THEN "alignment" ELSE "read") /\ h.v0 = child.v
  /\ h.hurried \/ (own = "none" /\ (hybrid \/ (child.on /\ "trigger" \notin owed)))

\* ... goes on after it, ...
Goes(g, h) ==
  /\ g.at = "alignment" /\ h.at = "read" /\ h.v0 = g.v0 /\ (g.hurried => h.hurried)
  /\ ~hybrid => h.hurried \/ (check \in {0, g.on} /\ checks[g.on].event)

\* ... has read the child, ...
Reads(g, h) ==
  /\ g.at = "read" /\ h.at \in {"check", "decide"}
  /\ h.at = "check" => child.policy = "hybrid"
  /\ h.row = child /\ h.seen = seen /\ h.lapsed = waived /\ h.v0 = g.v0 /\ h.hurried = g.hurried

\* ... has checked it, or resumed it, and read it again but for its policy, ...
Renews(g, h) ==
  /\ h.at = "decide" /\ h.v0 = g.v0 /\ h.hurried = g.hurried /\ h.seen = seen'
  /\ h.row.v = child'.v /\ h.row.rev = child'.rev /\ h.row.on = child'.on
  /\ h.row.state = child'.state
  /\ \/ /\ g.at = "check" /\ Current(g.row.rev)
        /\ child'.state = "ready" => seen'.ok
        /\ seen'.v = g.row.v /\ ~waived'
     \/ /\ g.at \in {"check", "decide"} /\ UNCHANGED history
        /\ h.row.policy = g.row.policy
        /\ h.lapsed = (waived \/ hybrid # (g.row.policy # "legacy"))
        /\ child'.state = "error" \/ child'.state = child.state

\* ... or has its answer.
Leaves(g, h) == h.at \notin {"new", "alignment", "read", "check", "decide"}

LEMMA ComesSays ==
  ASSUME TypeOK, NEW e \in Evaluation, NEW hurried \in BOOLEAN, Arrive(e, hurried),
         hurried \/ own = "none"
  PROVE  /\ Comes(gate[e], gate'[e]) /\ gate'[e].row = gate[e].row
         /\ \A f \in Evaluation \ {e} : gate'[f] = gate[f]
<1>1. gate \in [Evaluation -> Visit] /\ gate[e] \in Visit
  BY DEF TypeOK
<1> DEFINE at == IF Waits /\ Pending THEN "alignment" ELSE "read"
           k == IF Waits /\ Pending THEN check ELSE 0
           b == hurried \/ (~hybrid /\ (~child.on \/ "trigger" \in owed))
<1>2. gate' = [gate EXCEPT ![e].at = at, ![e].on = k, ![e].v0 = child.v, ![e].hurried = b]
  BY DEF Arrive
<1> HIDE DEF at, k, b
<1>3. /\ gate'[e].at = at /\ gate'[e].v0 = child.v /\ gate'[e].hurried = b
      /\ gate'[e].row = gate[e].row
      /\ \A f \in Evaluation \ {e} : gate'[f] = gate[f]
  BY <1>1, <1>2 DEF Visit
<1>4. gate'[e].hurried \/ (own = "none" /\ (hybrid \/ (child.on /\ "trigger" \notin owed)))
  BY <1>3 DEF b
<1> QED BY <1>3, <1>4 DEF Comes, at

\* The fields of an evaluation after the updates that occur.
LEMMA AtFields ==
  ASSUME TypeOK, NEW e \in Evaluation, NEW at,
         gate' = [gate EXCEPT ![e].at = at]
  PROVE  /\ gate'[e].at = at /\ gate'[e].row = gate[e].row
         /\ \A f \in Evaluation \ {e} : gate'[f] = gate[f]
<1>1. gate \in [Evaluation -> Visit] /\ gate[e] \in Visit
  BY DEF TypeOK
<1> QED BY <1>1 DEF Visit

LEMMA HurriedFields ==
  ASSUME TypeOK, NEW e \in Evaluation, NEW at, NEW b,
         gate' = [gate EXCEPT ![e].at = at, ![e].hurried = b]
  PROVE  /\ gate'[e].at = at /\ gate'[e].hurried = b /\ gate'[e].v0 = gate[e].v0
         /\ gate'[e].row = gate[e].row
         /\ \A f \in Evaluation \ {e} : gate'[f] = gate[f]
<1>1. gate \in [Evaluation -> Visit] /\ gate[e] \in Visit
  BY DEF TypeOK
<1> QED BY <1>1 DEF Visit

LEMMA DecidedFields ==
  ASSUME TypeOK, NEW e \in Evaluation, NEW at, NEW s, NEW b,
         gate' = [gate EXCEPT ![e].at = at, ![e].seen = s, ![e].lapsed = b]
  PROVE  /\ gate'[e].at = at /\ gate'[e].seen = s /\ gate'[e].lapsed = b
         /\ gate'[e].row = gate[e].row
         /\ \A f \in Evaluation \ {e} : gate'[f] = gate[f]
<1>1. gate \in [Evaluation -> Visit] /\ gate[e] \in Visit
  BY DEF TypeOK
<1> QED BY <1>1 DEF Visit

GateSteps(e, g, h) ==
  \/ Quietly /\ h.row = g.row /\ (h.at = "intention" \/ Comes(g, h) \/ Goes(g, h) \/ Leaves(g, h))
  \/ Quietly /\ Reads(g, h)
  \/ UNCHANGED <<misaligned, overridden>> /\ Renews(g, h)
  \/ /\ UNCHANGED <<child, seen>> /\ waived' = (waived \/ ~hybrid)
     /\ h.row = g.row /\ Leaves(g, h)
  \/ /\ child'.state = "ready" /\ seen'.ok /\ seen'.v = g.row.v
     /\ waived' = (waived \/ g.row.v # child.v)
     /\ h.row = g.row /\ Leaves(g, h)

LEMMA GateStep ==
  ASSUME TypeOK, NEW e \in Evaluation, Gate(e)
  PROVE  /\ UNCHANGED <<hybrid, check, checks, own, owed>>
         /\ \A f \in Evaluation \ {e} : gate'[f] = gate[f]
         /\ GateSteps(e, gate[e], gate'[e])
<1>1. UNCHANGED <<hybrid, check, checks, own, owed>>
  BY PlainKept DEF Plain, Gate, Enter, Updated, Hurry, Arrive, Released, TimesOut, Read, CheckNow, Resume,
        DenyEnded, Decide, Approve, GateOnly
<1>2. child \in Session /\ gate[e] \in Visit /\ seen \in Seen /\ gate \in [Evaluation -> Visit]
  BY SessionTyped
<1>3. /\ gate[e].hurried \in BOOLEAN /\ gate[e].row.v \in {NoVersion} \cup Version
      /\ gate[e].pv \in {NoVersion} \cup ParentVersion
  BY <1>2 DEF Visit
<1>13. /\ Again(e).v = child'.v /\ Again(e).rev = child'.rev /\ Again(e).on = child'.on
       /\ Again(e).state = child'.state /\ Again(e).policy = gate[e].row.policy
  <2>1. TypeOK' /\ gate[e].row.policy \in Policies
    BY <1>2, GatesTyped DEF Visit
  <2>2. child' \in Session
    BY <2>1 DEF TypeOK, Session, Life, Standing
  <2> QED BY <2>1, <2>2, RowReread DEF Again
<1> DEFINE Others == \A f \in Evaluation \ {e} : gate'[f] = gate[f]
<1> SUFFICES Others /\ GateSteps(e, gate[e], gate'[e])
  BY <1>1
<1>4. CASE Enter(e) \/ Updated(e) \/ Hurry(e)
  <2>1. ASSUME NEW b \in BOOLEAN, Arrive(e, b), b \/ own = "none"
        PROVE  Others /\ GateSteps(e, gate[e], gate'[e])
    BY <2>1, ComesSays DEF GateSteps, Arrive
  <2>2. CASE gate' = [gate EXCEPT ![e].at = "intention"] /\ Quietly
    <3>1. gate'[e].at = "intention" /\ gate'[e].row = gate[e].row /\ Others
      BY <2>2, AtFields
    <3> QED BY <2>2, <3>1 DEF GateSteps
  <2> QED BY <1>4, <2>1, <2>2 DEF Enter, Updated, Hurry
<1>5. CASE Released(e)
  <2> DEFINE b == gate[e].hurried \/ (~hybrid /\ check \notin {0, gate[e].on})
  <2>1. /\ gate' = [gate EXCEPT ![e].at = "read", ![e].hurried = b] /\ Quietly
        /\ gate[e].at = "alignment" /\ checks[gate[e].on].event
    BY <1>5 DEF Released
  <2>2. (gate[e].hurried => b) /\ (~hybrid => b \/ check \in {0, gate[e].on})
    BY <1>3
  <2> HIDE DEF b
  <2>3. /\ gate'[e].at = "read" /\ gate'[e].hurried = b /\ gate'[e].v0 = gate[e].v0
        /\ gate'[e].row = gate[e].row /\ Others
    BY <2>1, HurriedFields
  <2> QED BY <2>1, <2>2, <2>3 DEF GateSteps, Goes
<1>6. CASE TimesOut(e)
  <2> DEFINE b == gate[e].hurried \/ ~hybrid
  <2>1. /\ gate' = [gate EXCEPT ![e].at = "read", ![e].hurried = b] /\ Quietly
        /\ gate[e].at = "alignment"
    BY <1>6 DEF TimesOut
  <2>2. (gate[e].hurried => b) /\ (~hybrid => b)
    BY <1>3
  <2> HIDE DEF b
  <2>3. /\ gate'[e].at = "read" /\ gate'[e].hurried = b /\ gate'[e].v0 = gate[e].v0
        /\ gate'[e].row = gate[e].row /\ Others
    BY <2>1, HurriedFields
  <2> QED BY <2>1, <2>2, <2>3 DEF GateSteps, Goes
<1>7. CASE Read(e)
  <2> DEFINE at == IF /\ child.policy = "hybrid" /\ child.on /\ child.life = "active"
                      /\ child.state \in Unready /\ check = 0
                   THEN "check" ELSE "decide"
  <2>1. /\ gate' = [gate EXCEPT ![e].at = at, ![e].row = child, ![e].pv = parent,
                               ![e].seen = seen, ![e].lapsed = waived]
        /\ Quietly /\ gate[e].at = "read"
    BY <1>7 DEF Read
  <2>2. at \in {"check", "decide"} /\ (at = "check" => child.policy = "hybrid")
    OBVIOUS
  <2> HIDE DEF at
  <2>9. gate' = [gate EXCEPT ![e].at = at, ![e].row = child, ![e].pv = parent,
                             ![e].seen = seen, ![e].lapsed = waived]
    BY <2>1
  <2>3. /\ gate'[e].at = at /\ gate'[e].row = child /\ gate'[e].seen = seen
        /\ gate'[e].lapsed = waived /\ gate'[e].v0 = gate[e].v0
        /\ gate'[e].hurried = gate[e].hurried /\ Others
    BY <1>2, <2>9 DEF Visit
  <2> QED BY <2>1, <2>2, <2>3 DEF GateSteps, Reads
<1>8. CASE CheckNow(e)
  <2>0. UNCHANGED <<misaligned, overridden>> /\ gate[e].at = "check"
    BY <1>8 DEF CheckNow
  <2>1. ASSUME NEW r \in Verdict, Current(gate[e].row.rev),
               child' = [Moved(child) EXCEPT !.state = State(r)],
               seen' = [seen EXCEPT !.v = gate[e].row.v, !.pv = gate[e].pv, !.ok = r = "aligned"],
               waived' = FALSE,
               gate' = [gate EXCEPT ![e].at = "decide", ![e].row = child', ![e].seen = seen',
                                    ![e].lapsed = FALSE]
        PROVE  Others /\ GateSteps(e, gate[e], gate'[e])
    <3>1. /\ gate'[e].at = "decide" /\ gate'[e].row = child' /\ gate'[e].seen = seen'
          /\ gate'[e].v0 = gate[e].v0
          /\ gate'[e].hurried = gate[e].hurried /\ Others
      <4>1. gate' = [gate EXCEPT ![e].at = "decide", ![e].row = child', ![e].seen = seen',
                                 ![e].lapsed = FALSE]
        BY <2>1
      <4> QED BY <1>2, <4>1 DEF Visit
    <3>2. seen'.v = gate[e].row.v /\ seen'.ok = (r = "aligned")
      BY <1>2, <2>1 DEF Seen
    <3>3. child'.state = State(r)
      BY <1>2, <2>1, FieldsKept
    <3>4. child'.state = "ready" => seen'.ok
      BY <3>2, <3>3 DEF State, Verdict
    <3> QED BY <2>0, <2>1, <3>1, <3>2, <3>4 DEF GateSteps, Renews
  <2>2. CASE gate' = [gate EXCEPT ![e].at = "refused"] /\ UNCHANGED <<child, history>>
    <3>1. gate'[e].at = "refused" /\ gate'[e].row = gate[e].row /\ Others
      BY <2>2, AtFields
    <3> QED BY <2>0, <2>2, <3>1 DEF GateSteps, Leaves, Quietly
  <2>3. CASE /\ child' = IF Current(gate[e].row.rev)
                         THEN [Moved(child) EXCEPT !.state = "error"] ELSE child
             /\ gate' = [gate EXCEPT ![e].at = "decide", ![e].row = Again(e), ![e].seen = seen,
                                     ![e].lapsed = Lapsed(e)]
             /\ UNCHANGED history
    <3>1. /\ gate'[e].at = "decide" /\ gate'[e].row = Again(e) /\ gate'[e].seen = seen
          /\ gate'[e].lapsed = Lapsed(e) /\ gate'[e].v0 = gate[e].v0
          /\ gate'[e].hurried = gate[e].hurried /\ Others
      <4>1. gate' = [gate EXCEPT ![e].at = "decide", ![e].row = Again(e), ![e].seen = seen,
                                 ![e].lapsed = Lapsed(e)]
        BY <2>3
      <4> QED BY <1>2, <4>1 DEF Visit
    <3>2. child'.state = "error" \/ child'.state = child.state
      <4>1. CASE Current(gate[e].row.rev)
        BY <1>2, <2>3, <4>1, FieldsKept
      <4>2. CASE ~Current(gate[e].row.rev)
        BY <2>3, <4>2
      <4> QED BY <4>1, <4>2
    <3> QED BY <1>13, <2>0, <2>3, <3>1, <3>2 DEF GateSteps, Renews, Lapsed, history
  <2> QED BY <1>8, <2>1, <2>2, <2>3 DEF CheckNow
<1>9. CASE Resume(e)
  <2>1. /\ child' = [Moved(child) EXCEPT !.life = "active"] /\ gate[e].at = "decide"
        /\ gate' = [gate EXCEPT ![e].row = Again(e), ![e].seen = seen, ![e].lapsed = Lapsed(e)]
        /\ UNCHANGED <<misaligned, overridden, history>>
    BY <1>9 DEF Resume
  <2>2. child'.state = child.state
    BY <1>2, <2>1, FieldsKept
  <2>3. /\ gate'[e].at = "decide" /\ gate'[e].row = Again(e) /\ gate'[e].seen = seen
        /\ gate'[e].lapsed = Lapsed(e) /\ gate'[e].v0 = gate[e].v0
        /\ gate'[e].hurried = gate[e].hurried /\ Others
    <3>1. gate' = [gate EXCEPT ![e].row = Again(e), ![e].seen = seen, ![e].lapsed = Lapsed(e)]
      BY <2>1
    <3> QED BY <1>2, <2>1, <3>1 DEF Visit
  <2> QED BY <1>13, <2>1, <2>2, <2>3 DEF GateSteps, Renews, Lapsed, history
<1>10. CASE DenyEnded(e)
  <2>1. /\ gate' = [gate EXCEPT ![e].at = "denied"] /\ UNCHANGED <<child, seen>>
        /\ waived' = (waived \/ ~hybrid)
    BY <1>10 DEF DenyEnded
  <2>2. gate'[e].at = "denied" /\ gate'[e].row = gate[e].row /\ Others
    BY <2>1, AtFields
  <2> QED BY <2>1, <2>2 DEF GateSteps, Leaves
<1>11. CASE Decide(e)
  <2> DEFINE at == Outcome(gate[e].row)
             s == IF gate[e].row.policy = "legacy" THEN seen ELSE gate[e].seen
             b == IF gate[e].row.policy = "legacy" THEN Lapsed(e) ELSE gate[e].lapsed
  <2>1. gate' = [gate EXCEPT ![e].at = at, ![e].seen = s, ![e].lapsed = b] /\ Quietly
    BY <1>11 DEF Decide
  <2>2. at \notin {"new", "alignment", "read", "check", "decide"}
    BY DEF Outcome
  <2> HIDE DEF at, s, b
  <2>3. gate'[e].at = at /\ gate'[e].row = gate[e].row /\ Others
    BY <2>1, DecidedFields
  <2> QED BY <2>1, <2>2, <2>3 DEF GateSteps, Leaves
<1>12. CASE Approve(e)
  <2>1. /\ child' = [Moved(child) EXCEPT !.state = "ready", !.acked = TRUE]
        /\ seen' = [seen EXCEPT !.v = gate[e].row.v, !.ok = TRUE]
        /\ gate' = [gate EXCEPT ![e].at = "approved"]
        /\ waived' = (waived \/ gate[e].row.v # child.v)
    BY <1>12 DEF Approve
  <2>2. child'.state = "ready"
    <3>1. \A c \in Session : [c EXCEPT !.state = "ready", !.acked = TRUE].state = "ready"
      BY DEF Session
    <3>2. Moved(child) \in Session
      BY <1>2, ChildTyped
    <3> QED BY <2>1, <3>1, <3>2
  <2>3. seen'.ok /\ seen'.v = gate[e].row.v
    BY <1>2, <2>1 DEF Seen
  <2>4. gate'[e].at = "approved" /\ gate'[e].row = gate[e].row /\ Others
    BY <2>1, AtFields
  <2> QED BY <2>1, <2>2, <2>3, <2>4 DEF GateSteps, Leaves
<1> QED BY <1>4, <1>5, <1>6, <1>7, <1>8, <1>9, <1>10, <1>11, <1>12 DEF Gate

-----------------------------------------------------------------------------
(* The state revision recognises what was read. *)

Dated == JobsDated /\ RowsDated /\ CheckedHybrid

LEMMA RestartGates ==
  ASSUME TypeOK, Restart
  PROVE  \A e \in Evaluation :
           /\ gate'[e].row = gate[e].row
           /\ gate'[e] = gate[e] \/ gate'[e].at = "lost"
           /\ gate'[e].at \notin {"intention", "alignment", "read", "check", "decide"}
<1>1. gate \in [Evaluation -> Visit]
  BY DEF TypeOK
<1> DEFINE Waiting == {"intention", "alignment", "read", "check", "decide"}
<1>2. gate' = [e \in Evaluation |-> IF gate[e].at \in Waiting
                                    THEN [gate[e] EXCEPT !.at = "lost"] ELSE gate[e]]
  BY DEF Restart
<1> SUFFICES ASSUME NEW e \in Evaluation
             PROVE  /\ gate'[e].row = gate[e].row
                    /\ gate'[e] = gate[e] \/ gate'[e].at = "lost"
                    /\ gate'[e].at \notin Waiting
  OBVIOUS
<1>3. CASE gate[e].at \in Waiting
  <2>1. gate'[e] = [gate[e] EXCEPT !.at = "lost"] /\ gate[e] \in Visit
    BY <1>1, <1>2, <1>3
  <2>2. gate'[e].row = gate[e].row /\ gate'[e].at = "lost"
    BY <2>1 DEF Visit
  <2> QED BY <2>2
<1>4. CASE gate[e].at \notin Waiting
  BY <1>2, <1>4
<1> QED BY <1>3, <1>4

LEMMA DatedKept ==
  ASSUME TypeOK, Dated, Next
  PROVE  Dated'
<1>1. /\ child.rev \in Nat /\ child'.rev \in Nat
      /\ \A k \in Check : checks[k].rev \in Nat
      /\ \A e \in Evaluation : gate[e].row.rev \in Nat
  <2>1. TypeOK'
    BY NextTyped
  <2>2. child.rev \in Nat /\ child'.rev \in Nat
    <3>1. child \in Session /\ child' \in Session
      BY <2>1 DEF TypeOK, Session, Life, Standing
    <3> QED BY <3>1 DEF Session
  <2>3. \A k \in Check : checks[k].rev \in Nat
    BY DEF TypeOK, Job
  <2>4. ASSUME NEW e \in Evaluation PROVE gate[e].row.rev \in Nat
    BY DEF TypeOK, Visit
  <2> QED BY <2>2, <2>3, <2>4
<1> DEFINE Later == /\ child'.rev >= child.rev
                    /\ child'.rev = child.rev => child'.v = child.v /\ UNCHANGED hybrid
           JobsKept == \A k \in Check : checks'[k].task = "call" =>
                         \/ /\ checks[k].task = "call"
                            /\ checks'[k].rev = checks[k].rev /\ checks'[k].v = checks[k].v
                            /\ checks'[k].asHybrid = checks[k].asHybrid
                         \/ /\ checks'[k].rev = child'.rev /\ checks'[k].v = child'.v
                            /\ checks'[k].asHybrid = hybrid'
           RowsKept == \A e \in Evaluation :
                         \/ gate'[e].row = gate[e].row
                         \/ gate'[e].row.rev = child'.rev /\ gate'[e].row.v = child'.v
           Asked == \A e \in Evaluation : gate'[e].at = "check" =>
                         \/ gate[e].at = "check" /\ gate'[e].row = gate[e].row
                         \/ gate'[e].row.policy = "hybrid" /\ hybrid'
<1>2. ASSUME Later, JobsKept, RowsKept, Asked PROVE Dated'
  <2>1. ASSUME NEW k \in Check, checks'[k].task = "call"
        PROVE  /\ checks'[k].rev <= child'.rev
               /\ checks'[k].rev = child'.rev =>
                    checks'[k].v = child'.v /\ checks'[k].asHybrid = hybrid'
    <3>1. CASE /\ checks[k].task = "call"
               /\ checks'[k].rev = checks[k].rev /\ checks'[k].v = checks[k].v
               /\ checks'[k].asHybrid = checks[k].asHybrid
      BY <1>1, <1>2, <3>1 DEF Dated, JobsDated
    <3> QED BY <1>1, <1>2, <2>1, <3>1
  <2>2. ASSUME NEW e \in Evaluation
        PROVE  /\ gate'[e].row.rev <= child'.rev
               /\ gate'[e].row.rev = child'.rev => gate'[e].row.v = child'.v
    <3>1. CASE gate'[e].row = gate[e].row
      BY <1>1, <1>2, <3>1 DEF Dated, RowsDated
    <3> QED BY <1>1, <1>2, <2>2, <3>1
  <2>3. ASSUME NEW e \in Evaluation, gate'[e].at = "check"
        PROVE  gate'[e].row.policy = "hybrid" /\ (gate'[e].row.rev = child'.rev => hybrid')
    <3>1. CASE gate[e].at = "check" /\ gate'[e].row = gate[e].row
      <4>1. /\ gate[e].row.policy = "hybrid" /\ gate[e].row.rev <= child.rev
            /\ gate[e].row.rev = child.rev => hybrid
        BY <3>1 DEF Dated, CheckedHybrid, RowsDated
      <4> QED BY <1>1, <1>2, <3>1, <4>1
    <3> QED BY <1>2, <2>3, <3>1
  <2> QED BY <2>1, <2>2, <2>3 DEF Dated, JobsDated, RowsDated, CheckedHybrid
<1>3. ASSUME Kept(child, child') PROVE Later
  BY <1>3, EngineKept DEF Kept
<1>4. CASE Tell \/ Chain \/ Recheck
  <2>1. /\ UNCHANGED gate /\ Kept(child, child') /\ (Cancelled \/ Triggered \/ Left)
    BY <1>4, EntryStep
  <2>2. JobsKept
    BY <2>1, StoppedSays DEF Cancelled, Triggered, Left
  <2> QED BY <1>2, <1>3, <2>1, <2>2
<1>5. ASSUME NEW on \in BOOLEAN, Toggle(on) PROVE Dated'
  <2>1. Later
    BY <1>1, <1>5, ToggleStep
  <2>2. UNCHANGED <<checks, gate>>
    BY <1>5 DEF Toggle, barrier
  <2> QED BY <1>2, <2>1, <2>2
<1>11. ASSUME NEW p \in Policies, Activate(p) PROVE Dated'
  <2>1. Later
    BY <1>1, <1>11, ActivateStep
  <2>2. UNCHANGED <<checks, gate>>
    BY <1>11 DEF Activate, barrier
  <2> QED BY <1>2, <2>1, <2>2
<1>6. CASE Store
  <2>1. Later
    BY <1>1, <1>6, StoreStep
  <2>2. UNCHANGED <<checks, gate>>
    BY <1>6 DEF Store, barrier
  <2> QED BY <1>2, <2>1, <2>2
<1>7. CASE Restart
  <2>1. JobsKept /\ RowsKept /\ Asked
    BY <1>7, RestartStep, RestartGates
  <2> QED BY <1>2, <1>3, <1>7, <2>1, PlainKept DEF Plain
<1>8. ASSUME NEW k \in Check, Checking(k) PROVE Dated'
  <2>1. Kept(child, child') /\ UNCHANGED <<gate, hybrid>>
    BY <1>8, PlainKept, CheckStep DEF Plain
  <2>2. checks'[k].task = "call" /\ checks[k].task = "new" => UNCHANGED child
    BY <1>8, CheckStep DEF Checking, Start, Answer, Conclude, Abort, CleanUp
  <2>3. JobsKept
    BY <1>8, <2>1, <2>2, CheckStep
  <2> QED BY <1>2, <1>3, <2>1, <2>3
<1>9. ASSUME NEW e \in Evaluation, Gate(e) PROVE Dated'
  <2>1. Kept(child, child') /\ UNCHANGED checks
    BY <1>9, PlainKept, GateStep DEF Plain
  <2>2. /\ UNCHANGED hybrid /\ GateSteps(e, gate[e], gate'[e])
        /\ \A f \in Evaluation \ {e} : gate'[f] = gate[f]
    BY <1>9, GateStep
  <2>3. RowsKept
    BY <2>2 DEF GateSteps, Reads, Renews, Quietly
  <2>4. gate'[e].at = "check" => gate'[e].row.policy = "hybrid" /\ hybrid
    BY <2>2 DEF GateSteps, Comes, Goes, Reads, Renews, Leaves, hybrid
  <2>5. Asked
    BY <2>2, <2>4
  <2> QED BY <1>2, <1>3, <2>1, <2>3, <2>5
<1>10. CASE Message \/ NotStored \/ StoreParent \/ Sweep \/ \E life \in Open \cup {"ended"} : Lifecycle(life)
  <2>1. UNCHANGED <<checks, gate>>
    BY <1>10 DEF Message, NotStored, StoreParent, Sweep, Lifecycle, barrier
  <2>2. Kept(child, child')
    BY <1>10, PlainKept DEF Plain
  <2> QED BY <1>2, <1>3, <2>1, <2>2
<1> QED BY <1>4, <1>5, <1>6, <1>7, <1>8, <1>9, <1>10, <1>11, StepKinds DEF Plain

-----------------------------------------------------------------------------
(* The hybrid verdict is about the intention the child has. *)

Compared == Ready /\ Arrived /\ RowsCompared

\* What a verdict of a check does: one that another engine asked for changes no row.
Installed(k) ==
  /\ Fenced(k) /\ (hybrid => Current(checks[k].rev))
  /\ hybrid /\ child'.state = "ready" => seen'.ok
  /\ ~hybrid => child' = child /\ (seen'.ok \/ (misaligned' /\ ~overridden'))
  /\ seen'.v = checks[k].v /\ (waived /\ checks[k].v # child.v => waived')

Foreign == hybrid /\ UNCHANGED <<child, seen, waived>>

NotInstalled ==
  /\ child'.state = "error" \/ child' = child
  /\ waived' = (waived \/ ~hybrid) /\ UNCHANGED <<misaligned, seen>>

LEMMA ConcludeStep ==
  ASSUME TypeOK, JobsDated, NEW k \in Check, Conclude(k)
  PROVE  Installed(k) \/ Foreign \/ NotInstalled
<1> DEFINE j == checks[k]
           installs == j.result \in Verdict /\ Fenced(k) /\ (j.asHybrid => Current(j.rev))
<1>1. /\ child \in Session /\ seen \in Seen /\ misaligned \in BOOLEAN /\ overridden \in BOOLEAN
      /\ j.asHybrid \in BOOLEAN /\ hybrid \in BOOLEAN
  BY SessionTyped DEF TypeOK, Job, hybrid
<1>4. j.task = "call" /\ UNCHANGED overridden
  BY DEF Conclude, CheckOnly
<1>5. installs /\ j.asHybrid => hybrid
  BY <1>1, <1>4 DEF JobsDated, Current
<1>2. CASE /\ installs
           /\ child' = IF ~j.asHybrid THEN child
                       ELSE [Moved(child) EXCEPT !.state = IF overridden THEN "ready"
                                                           ELSE State(j.result)]
           /\ misaligned' = (j.result = "misaligned" /\ (misaligned \/ ~overridden))
           /\ IF j.asHybrid # hybrid THEN UNCHANGED history
              ELSE /\ seen' = [seen EXCEPT !.v = j.v, !.pv = j.pv,
                                           !.ok = j.result = "aligned" \/ overridden]
                   /\ waived' = (waived /\ (j.v # child.v \/ (overridden /\ j.result = "misaligned")))
  <2>1. CASE j.asHybrid # hybrid
    <3>1. hybrid /\ ~j.asHybrid
      BY <1>1, <1>2, <1>5, <2>1
    <3> QED BY <1>2, <2>1, <3>1 DEF Foreign, history
  <2>2. CASE j.asHybrid = hybrid
    <3>1. seen' = [seen EXCEPT !.v = j.v, !.pv = j.pv, !.ok = j.result = "aligned" \/ overridden]
      BY <1>2, <2>2
    <3>2. seen'.v = j.v
      BY <1>1, <3>1 DEF Seen
    <3>3. seen'.ok = (j.result = "aligned" \/ overridden)
      BY <1>1, <3>1 DEF Seen
    <3>4. waived /\ j.v # child.v => waived'
      BY <1>2, <2>2
    <3>5. ASSUME hybrid, child'.state = "ready" PROVE seen'.ok
      <4> DEFINE s == IF overridden THEN "ready" ELSE State(j.result)
      <4>1. child' = [Moved(child) EXCEPT !.state = s]
        BY <1>2, <2>2, <3>5
      <4> HIDE DEF s
      <4>2. child'.state = s
        BY <1>1, <4>1, FieldsKept
      <4>3. j.result \in Verdict
        BY <1>2
      <4>4. overridden \/ j.result = "aligned"
        BY <3>5, <4>2, <4>3 DEF State, Verdict, s
      <4> QED BY <3>3, <4>4
    <3>6. ASSUME ~hybrid PROVE child' = child /\ (seen'.ok \/ (misaligned' /\ ~overridden'))
      <4>1. child' = child
        BY <1>2, <2>2, <3>6
      <4>2. /\ j.result \in Verdict
            /\ misaligned' = (j.result = "misaligned" /\ (misaligned \/ ~overridden))
        BY <1>2
      <4>3. seen'.ok \/ (misaligned' /\ ~overridden')
        BY <1>4, <3>3, <4>2 DEF Verdict
      <4> QED BY <4>1, <4>3
    <3>7. Fenced(k) /\ (hybrid => Current(j.rev))
      BY <1>2, <2>2
    <3> QED BY <3>2, <3>4, <3>5, <3>6, <3>7 DEF Installed
  <2> QED BY <2>1, <2>2
<1>3. CASE /\ child' = IF j.asHybrid /\ j.result = "failed" /\ Current(j.rev)
                       THEN [Moved(child) EXCEPT !.state = "error"] ELSE child
           /\ waived' = (waived \/ ~hybrid)
           /\ UNCHANGED <<misaligned, seen>>
  <2>1. CASE j.asHybrid /\ j.result = "failed" /\ Current(j.rev)
    <3>1. child'.state = "error"
      BY <1>1, <1>3, <2>1, FieldsKept
    <3> QED BY <1>3, <3>1 DEF NotInstalled
  <2>2. CASE ~(j.asHybrid /\ j.result = "failed" /\ Current(j.rev))
    BY <1>3, <2>2 DEF NotInstalled
  <2> QED BY <2>1, <2>2
<1> QED BY <1>2, <1>3 DEF Conclude

LEMMA OthersStep ==
  ASSUME TypeOK, NEW k \in Check, Start(k) \/ Answer(k) \/ Abort(k) \/ CleanUp(k)
  PROVE  UNCHANGED <<child, misaligned, seen>> /\ (waived => waived')
<1>1. CASE Start(k)
  <2>1. waived' = (waived \/ (~checks[k].cancelled /\ ~hybrid
                             /\ (~child.on \/ child.mode # checks[k].mode)))
    BY <1>1 DEF Start
  <2>2. UNCHANGED <<child, misaligned, seen>>
    BY <1>1 DEF Start
  <2> QED BY <2>1, <2>2
<1>2. CASE Answer(k) \/ Abort(k) \/ CleanUp(k)
  BY <1>2 DEF Answer, Abort, CleanUp, history
<1> QED BY <1>1, <1>2

LEMMA Typed ==
  ASSUME TypeOK
  PROVE  /\ child.v \in Nat /\ child.rev \in Nat /\ child.on \in BOOLEAN
         /\ seen.v \in Nat /\ hybrid \in BOOLEAN /\ waived \in BOOLEAN
         /\ \A k \in Check : checks[k].v \in Nat
         /\ \A e \in Evaluation : /\ gate[e].v0 \in Nat /\ gate[e].row.v \in Nat
                                  /\ gate[e].hurried \in BOOLEAN
<1>1. child.v \in Nat /\ child.rev \in Nat /\ child.on \in BOOLEAN
  BY SessionTyped, FieldsKept
<1>0. {NoVersion} \cup Version \subseteq Nat
  BY Numbers DEF NoVersion
<1>2. seen.v \in Nat
  BY <1>0, SessionTyped DEF Seen
<1>3. hybrid \in BOOLEAN /\ waived \in BOOLEAN
  BY DEF TypeOK, hybrid
<1>4. \A k \in Check : checks[k].v \in Nat
  BY <1>0 DEF TypeOK, Job
<1>5. ASSUME NEW e \in Evaluation
      PROVE  gate[e].v0 \in Nat /\ gate[e].row.v \in Nat /\ gate[e].hurried \in BOOLEAN
  <2>1. gate[e] \in Visit
    BY SessionTyped
  <2>2. /\ gate[e].v0 \in {NoVersion} \cup Version /\ gate[e].row.v \in {NoVersion} \cup Version
        /\ gate[e].hurried \in BOOLEAN
    BY <2>1 DEF Visit
  <2> QED BY <1>0, <2>2
<1> QED BY <1>1, <1>2, <1>3, <1>4, <1>5

LEMMA ReadyKept ==
  ASSUME TypeOK, Dated, Ready, Next
  PROVE  Ready'
<1>0. /\ child.v \in Nat /\ child.rev \in Nat /\ child.on \in BOOLEAN
      /\ seen.v \in Nat /\ hybrid \in BOOLEAN /\ waived \in BOOLEAN
  BY Typed
<1>1. CASE Tell \/ Chain \/ Recheck
  <2>1. /\ UNCHANGED <<hybrid, seen>> /\ Kept(child, child')
        /\ own' = own \/ own' = "none"
        /\ (Cancelled /\ (own' = own \/ ~child'.on)) \/ Triggered \/ Left
    BY <1>1, EntryStep
  <2>2. CASE Cancelled /\ (own' = own \/ ~child'.on)
    BY <2>1, <2>2 DEF Cancelled, Ready, Recent, Kept
  <2>3. CASE Triggered
    BY <2>1, <2>3 DEF Triggered, Ready
  <2>4. CASE Left
    BY <2>1, <2>4 DEF Left, Ready, Recent
  <2> QED BY <2>1, <2>2, <2>3, <2>4
<1>2. ASSUME NEW on \in BOOLEAN, Toggle(on) PROVE Ready'
  <2>1. CASE child' = child
    BY <1>2, <2>1 DEF Toggle, Ready, Recent, hybrid, history
  <2>2. CASE child'.on = on /\ child'.state = (IF on THEN "pending" ELSE "ready")
    <3>1. ~child'.on \/ child'.state # "ready"
      BY <2>2
    <3> QED BY <3>1 DEF Ready
  <2> QED BY <1>2, <2>1, <2>2, ToggleStep
<1>10. ASSUME NEW p \in Policies, Activate(p) PROVE Ready'
  <2>1. /\ child'.v = child.v /\ child'.on = child.on /\ child'.state = child.state
        /\ waived' = (waived \/ hybrid' # hybrid) /\ UNCHANGED <<own, seen>>
    BY <1>10, ActivateStep DEF Activate
  <2> QED BY <1>0, <2>1 DEF Ready, Recent
<1>3. CASE Store
  <2>1. /\ child'.v = child.v + 1 /\ child'.on = child.on /\ child'.state = child.state
        /\ own = "call" /\ own' = "stored" /\ UNCHANGED <<hybrid, seen, waived>>
    BY <1>3, StoreStep DEF Store, history
  <2> QED BY <1>0, <2>1 DEF Ready, Recent
<1>4. ASSUME UNCHANGED <<hybrid, seen>>, Kept(child, child'), child'.state = child.state,
             waived => waived', own = "stored" /\ own' # "stored" => waived'
      PROVE  Ready'
  BY <1>0, <1>4 DEF Kept, Ready, Recent
<1>5. ASSUME child'.state \in {"pending", "error"} PROVE Ready'
  BY <1>5 DEF Ready
<1>6. CASE Restart
  <2>1. /\ UNCHANGED <<hybrid, seen>> /\ waived' = (waived \/ own = "stored" \/ ~hybrid)
        /\ child' = child \/ child'.state = "pending"
    BY <1>6, RestartStep
  <2>2. Kept(child, child')
    BY <1>6, PlainKept DEF Plain
  <2> QED BY <1>4, <1>5, <2>1, <2>2
<1>7. CASE Message \/ NotStored \/ StoreParent \/ Sweep \/ \E life \in Open \cup {"ended"} : Lifecycle(life)
  <2>1. Kept(child, child')
    BY <1>7, PlainKept DEF Plain
  <2>2. /\ UNCHANGED seen /\ (waived => waived')
        /\ own = "stored" /\ own' # "stored" => waived'
    <3>1. CASE Message
      BY <3>1 DEF Message
    <3>2. CASE NotStored \/ StoreParent \/ \E life \in Open \cup {"ended"} : Lifecycle(life)
      BY <3>2 DEF NotStored, StoreParent, Lifecycle, barrier, history
    <3>3. CASE Sweep
      BY <3>3 DEF Sweep
    <3> QED BY <1>7, <3>1, <3>2, <3>3
  <2>3. child'.state = child.state
    <3>1. ASSUME NEW life \in Open \cup {"ended"}, Lifecycle(life) PROVE child'.state = child.state
      BY <3>1, SessionTyped, FieldsKept DEF Lifecycle
    <3> QED BY <1>7, <3>1 DEF Message, NotStored, StoreParent, Sweep
  <2> QED BY <1>4, <2>1, <2>2, <2>3, EngineKept
<1>8. ASSUME NEW k \in Check, Checking(k) PROVE Ready'
  <2>1. Kept(child, child') /\ UNCHANGED <<hybrid, own>>
    BY <1>8, PlainKept, CheckStep DEF Plain
  <2>2. CASE Conclude(k)
    <3>1. checks[k].task = "call" /\ checks[k].v \in Nat
      BY <2>2, Typed DEF Conclude
    <3>2. CASE Installed(k)
      <4>1. hybrid => checks[k].v = child.v
        BY <3>1, <3>2 DEF Installed, Current, Dated, JobsDated
      <4> QED BY <1>0, <2>1, <3>1, <3>2, <4>1 DEF Installed, Ready, Recent, Kept
    <3>3. CASE NotInstalled
      BY <1>4, <1>5, <2>1, <3>3 DEF NotInstalled
    <3>4. CASE Foreign
      BY <1>4, <2>1, <3>4 DEF Foreign
    <3> QED BY <2>2, <3>2, <3>3, <3>4, ConcludeStep DEF Dated
  <2>3. CASE Start(k) \/ Answer(k) \/ Abort(k) \/ CleanUp(k)
    <3>1. UNCHANGED <<child, seen>> /\ (waived => waived')
      BY <2>3, OthersStep
    <3> QED BY <1>4, <2>1, <3>1
  <2> QED BY <1>8, <2>2, <2>3 DEF Checking
<1>9. ASSUME NEW e \in Evaluation, Gate(e) PROVE Ready'
  <2>1. Kept(child, child') /\ UNCHANGED <<hybrid, own>> /\ GateSteps(e, gate[e], gate'[e])
    BY <1>9, PlainKept, GateStep DEF Plain
  <2>2. CASE Quietly
    BY <1>4, <2>1, <2>2 DEF Quietly, history
  <2>3. CASE Renews(gate[e], gate'[e])
    <3>1. CASE /\ gate[e].at = "check" /\ Current(gate[e].row.rev)
               /\ child'.state = "ready" => seen'.ok
               /\ seen'.v = gate[e].row.v /\ ~waived'
      <4>1. gate[e].row.v = child.v
        BY <3>1 DEF Current, Dated, RowsDated
      <4> QED BY <1>0, <2>1, <3>1, <4>1 DEF Ready, Recent, Kept
    <3>2. CASE UNCHANGED history /\ (child'.state = "error" \/ child'.state = child.state)
      BY <1>4, <1>5, <2>1, <3>2 DEF history
    <3> QED BY <2>3, <3>1, <3>2 DEF Renews
  <2>4. CASE UNCHANGED <<child, seen>> /\ waived' = (waived \/ ~hybrid)
    BY <1>4, <2>1, <2>4
  <2>5. CASE /\ child'.state = "ready" /\ seen'.ok /\ seen'.v = gate[e].row.v
             /\ waived' = (waived \/ gate[e].row.v # child.v)
    <3>1. ~waived' => seen'.ok /\ seen'.v = child.v
      BY <2>5
    <3> QED BY <1>0, <2>1, <3>1 DEF Ready, Recent, Kept
  <2> QED BY <2>1, <2>2, <2>3, <2>4, <2>5 DEF GateSteps
<1> QED BY <1>1, <1>2, <1>3, <1>6, <1>7, <1>8, <1>9, <1>10, StepKinds DEF Plain

Waiting == {"alignment", "read", "check", "decide"}

\* Who steps: an evaluation, or all of them stay, but for those a restart loses.
LEMMA GatesOfOthers ==
  ASSUME TypeOK, Next
  PROVE  \/ \E e \in Evaluation : Gate(e)
         \/ \A e \in Evaluation : gate'[e] = gate[e] \/ gate'[e].at = "lost"
<1>1. CASE Tell \/ Chain \/ Recheck
  BY <1>1, EntryStep
<1>2. CASE Store \/ (\E on \in BOOLEAN : Toggle(on)) \/ (\E p \in Policies : Activate(p))
  BY <1>2 DEF Toggle, Activate, Store
<1>3. CASE Restart
  BY <1>3, RestartStep, RestartGates DEF Waiting
<1>4. CASE Message \/ NotStored \/ StoreParent \/ Sweep \/ \E life \in Open \cup {"ended"} : Lifecycle(life)
  BY <1>4 DEF Message, NotStored, StoreParent, Sweep, Lifecycle
<1>5. CASE \E k \in Check : Checking(k)
  BY <1>5, CheckStep
<1>6. CASE \E e \in Evaluation : Gate(e)
  BY <1>6, GateStep
<1> QED BY <1>1, <1>2, <1>3, <1>4, <1>5, <1>6, StepKinds DEF Plain

LEMMA ArrivedKept ==
  ASSUME TypeOK, Arrived, Next
  PROVE  Arrived'
<1>0. child.v \in Nat /\ \A e \in Evaluation : gate[e].v0 \in Nat /\ gate[e].hurried \in BOOLEAN
  BY Typed
<1>1. /\ child'.v = child.v \/ child'.v = child.v + 1
      /\ own' = "stored" => own = "stored" \/ child'.v = child.v + 1
  <2>1. CASE Tell \/ Chain \/ Recheck
    BY <2>1, EntryStep DEF Kept
  <2>2. CASE (\E on \in BOOLEAN : Toggle(on)) \/ (\E p \in Policies : Activate(p))
    BY <2>2, ToggleStep, ActivateStep DEF Toggle, Activate
  <2>3. CASE Store
    BY <2>3, StoreStep
  <2>4. CASE Plain
    <3>1. child'.v = child.v
      BY <2>4, PlainKept DEF Kept
    <3>2. own' = "stored" => own = "stored"
      <4>1. CASE \E k \in Check : Checking(k)
        BY <4>1, CheckStep
      <4>2. CASE \E e \in Evaluation : Gate(e)
        BY <4>2, GateStep
      <4>3. CASE Restart
        BY <4>3, RestartStep
      <4>4. CASE Message \/ NotStored \/ StoreParent \/ Sweep \/ \E life \in Open \cup {"ended"} : Lifecycle(life)
        BY <4>4 DEF Message, NotStored, StoreParent, Sweep, Lifecycle
      <4> QED BY <2>4, <4>1, <4>2, <4>3, <4>4 DEF Plain
    <3> QED BY <3>1, <3>2
  <2> QED BY <2>1, <2>2, <2>3, <2>4, StepKinds
<1>2. ASSUME NEW e \in Evaluation, gate'[e] = gate[e] \/ gate'[e].at \notin Waiting
      PROVE  gate'[e].at \in Waiting /\ ~gate'[e].hurried =>
               gate'[e].v0 <= child'.v /\ (own' = "stored" => gate'[e].v0 < child'.v)
  BY <1>0, <1>1, <1>2 DEF Arrived, Waiting
<1>3. ASSUME NEW e \in Evaluation, Gate(e) PROVE Arrived'
  <2> DEFINE g == gate[e]
             h == gate'[e]
  <2>1. /\ UNCHANGED own /\ child'.v = child.v
        /\ \A f \in Evaluation \ {e} : gate'[f] = gate[f]
        /\ GateSteps(e, g, h)
    BY <1>3, GateStep, PlainKept DEF Plain, Kept
  <2>2. \/ h.at \notin Waiting
        \/ h.v0 = child.v /\ (h.hurried \/ own = "none")
        \/ g.at \in Waiting /\ h.v0 = g.v0 /\ (g.hurried => h.hurried)
    BY <2>1 DEF GateSteps, Comes, Goes, Reads, Renews, Leaves, Waiting
  <2>3. h.at \in Waiting /\ ~h.hurried =>
          h.v0 <= child'.v /\ (own' = "stored" => h.v0 < child'.v)
    BY <1>0, <2>1, <2>2 DEF Arrived, Waiting
  <2> QED BY <1>2, <2>1, <2>3 DEF Arrived, Waiting
<1> QED BY <1>2, <1>3, GatesOfOthers DEF Arrived, Waiting

LEMMA RowsComparedKept ==
  ASSUME TypeOK, Dated, RowsCompared, Next, TypeOK', Ready', Arrived'
  PROVE  RowsCompared'
<1> DEFINE Good(e) ==
      (/\ gate[e].row.policy # "legacy"
       /\ gate[e].at = "decide" /\ ~gate[e].hurried /\ ~gate[e].lapsed
       /\ gate[e].row.on /\ gate[e].row.state = "ready")
      => gate[e].seen.ok /\ gate[e].seen.v >= gate[e].v0
<1>1. ASSUME NEW e \in Evaluation, gate'[e] = gate[e] \/ gate'[e].at # "decide"
      PROVE  Good(e)'
  BY <1>1 DEF RowsCompared
<1>2. ASSUME NEW e \in Evaluation, Gate(e) PROVE RowsCompared'
  <2> DEFINE g == gate[e]
             h == gate'[e]
  <2>1. /\ \A f \in Evaluation \ {e} : gate'[f] = gate[f]
        /\ GateSteps(e, g, h) /\ UNCHANGED hybrid
    BY <1>2, GateStep
  <2>5. g.at = "check" /\ Current(g.row.rev) => hybrid
    BY DEF Dated, CheckedHybrid, Current
  <2>2. \/ h.at # "decide"
        \/ /\ h.row.on = child'.on /\ h.row.state = child'.state /\ h.seen = seen'
           /\ h.row.policy # "legacy" /\ ~h.lapsed => hybrid' /\ ~waived'
    <3>1. CASE Quietly /\ Reads(g, h)
      BY <3>1, <2>1 DEF Reads, Quietly, history, hybrid
    <3>2. CASE Renews(g, h)
      BY <3>2, <2>1, <2>5 DEF Renews, history
    <3> QED BY <2>1, <3>1, <3>2 DEF GateSteps, Comes, Goes, Leaves
  <2>3. Good(e)'
    <3>1. /\ child'.v \in Nat /\ seen'.v \in Nat /\ h.v0 \in Nat
      <4>1. child' \in Session /\ seen' \in Seen /\ h \in Visit
        BY DEF TypeOK, Session, Life, Standing, Seen
      <4>2. {NoVersion} \cup Version \subseteq Nat
        BY Numbers DEF NoVersion
      <4>3. child'.v \in Nat /\ seen'.v \in Nat
        BY <4>1, <4>2 DEF Session, Seen
      <4>4. h.v0 \in {NoVersion} \cup Version
        BY <4>1 DEF Visit
      <4> QED BY <4>2, <4>3, <4>4
    <3>2. ASSUME h.row.policy # "legacy", h.at = "decide", ~h.hurried, ~h.lapsed, h.row.on, h.row.state = "ready"
          PROVE  h.seen.ok /\ h.seen.v >= h.v0
      <4>1. /\ child'.on /\ child'.state = "ready" /\ h.seen = seen'
            /\ hybrid' /\ ~waived'
        BY <2>2, <3>2
      <4>2. seen'.ok /\ seen'.v >= child'.v - 1 /\ (own' = "stored" \/ seen'.v = child'.v)
        BY <3>2, <4>1 DEF Ready, Recent
      <4>3. h.v0 <= child'.v /\ (own' = "stored" => h.v0 < child'.v)
        BY <3>2 DEF Arrived
      <4> QED BY <3>1, <4>1, <4>2, <4>3
    <3> QED BY <3>2
  <2>4. ASSUME NEW f \in Evaluation PROVE Good(f)'
    BY <1>1, <2>1, <2>3, <2>4
  <2> QED BY <2>4 DEF RowsCompared
<1> QED BY <1>1, <1>2, GatesOfOthers DEF RowsCompared, Waiting

LEMMA ComparedKept ==
  ASSUME TypeOK, Dated, Compared, Next
  PROVE  Compared'
<1>1. Ready' /\ Arrived'
  BY ReadyKept, ArrivedKept DEF Compared
<1>2. RowsCompared'
  BY <1>1, RowsComparedKept, NextTyped DEF Compared
<1> QED BY <1>1, <1>2 DEF Compared

-----------------------------------------------------------------------------
(* The legacy verdict is about the intention an evaluation waited for. *)

Legacy == JobsCurrent /\ VerdictKnown /\ Informed

\* A check that ends without its verdict, and is missed by no one, is not the entry.
LEMMA PendingStands ==
  ASSUME TypeOK, Entries, NEW k \in Check, Start(k) \/ Answer(k) \/ Abort(k) \/ CleanUp(k),
         ~hybrid, ~waived', Pending
  PROVE  Pending'
<1>1. checks \in [Check -> Job] /\ checks[k] \in Job /\ Checking(k)
  BY DEF TypeOK, Checking
<1>2. PICK i \in Check : check = i /\ ~checks[i].event
  BY DEF Pending
<1>3. CASE i # k
  BY <1>1, <1>2, <1>3, CheckStep DEF Pending
<1>4. CASE i = k
  <2>1. ~checks[k].cancelled /\ checks[k].task # "yield"
    BY <1>2, <1>4 DEF Entries, EntryStands, EndedTold
  <2>2. CASE Start(k)
    <3>1. checks' = [checks EXCEPT ![k].task = "call", ![k].result = "asked",
                                   ![k].v = child.v, ![k].pv = parent, ![k].rev = child.rev,
                                   ![k].asHybrid = hybrid]
      BY <2>1, <2>2 DEF Start
    <3>2. checks'[k].event = checks[k].event
      BY <1>1, <3>1 DEF Job
    <3>3. UNCHANGED check
      BY <2>2 DEF Start, CheckOnly
    <3> QED BY <1>2, <1>4, <3>2, <3>3 DEF Pending
  <2>3. CASE Answer(k)
    <3>1. PICK r : checks' = [checks EXCEPT ![k].result = r]
      BY <2>3 DEF Answer
    <3>2. checks'[k].event = checks[k].event
      BY <1>1, <3>1 DEF Job
    <3>3. UNCHANGED check
      BY <2>3 DEF Answer, CheckOnly
    <3> QED BY <1>2, <1>4, <3>2, <3>3 DEF Pending
  <2>4. ~Abort(k) /\ ~CleanUp(k)
    BY <2>1 DEF Abort, CleanUp
  <2> QED BY <2>2, <2>3, <2>4
<1> QED BY <1>3, <1>4

LEMMA LegacyChecks ==
  ASSUME TypeOK, Entries, JobsDated, Arrived, Legacy, NEW k \in Check, Checking(k),
         ~hybrid, ~waived'
  PROVE  Legacy'
<1>0. /\ child.v \in Nat /\ \A i \in Check : checks[i].v \in Nat
      /\ \A e \in Evaluation : gate[e].v0 \in Nat
  BY Typed
<1>1. UNCHANGED <<hybrid, overridden, own, owed, gate>>
  BY CheckStep
<1>2. CASE Conclude(k)
  <2>1. /\ Fenced(k) /\ child' = child /\ (seen'.ok \/ (misaligned' /\ ~overridden'))
        /\ seen'.v = checks[k].v /\ (waived => checks[k].v = child.v)
    BY <1>2, ConcludeStep DEF Installed, Foreign, NotInstalled
  <2>2. checks[k].task = "call" /\ ~checks[k].cancelled /\ checks' = Ended(k)
    BY <1>2 DEF Conclude
  <2>3. \A i \in Check : checks'[i].task = "call" => checks'[i].cancelled
    <3>1. \A i \in Check : Live(i) => i = k
      BY <2>2 DEF Entries, CurrentCheckAwaited, Live
    <3>2. checks'[k].task = "yield"
      BY <2>2 DEF Ended, NoJob, TypeOK
    <3>3. \A i \in Check \ {k} : checks'[i] = checks[i]
      BY CheckStep
    <3> QED BY <3>1, <3>2, <3>3 DEF Live
  <2>4. Recent(checks[k].v)
    <3>1. CASE waived
      <4>1. checks[k].v = child.v
        BY <2>1, <3>1
      <4> QED BY <1>0, <4>1 DEF Recent
    <3>2. CASE ~waived
      BY <2>2, <3>2 DEF Legacy, JobsCurrent
    <3> QED BY <3>1, <3>2
  <2>5. Settled' /\ Recent(seen.v)'
    BY <1>1, <2>1, <2>4 DEF Settled, Recent
  <2>6. Informed'
    <3>1. ASSUME NEW e \in Evaluation, gate[e].at \in {"alignment", "read", "check", "decide"},
                 ~gate[e].hurried
          PROVE  seen'.v >= gate[e].v0
      <4>1. gate[e].v0 <= child.v /\ (own = "stored" => gate[e].v0 < child.v)
        BY <3>1 DEF Arrived
      <4>2. checks[k].v >= child.v - 1 /\ (own = "stored" \/ checks[k].v = child.v)
        BY <2>4 DEF Recent
      <4> QED BY <1>0, <2>1, <4>1, <4>2
    <3> QED BY <1>1, <2>5, <3>1 DEF Informed
  <2>7. JobsCurrent' /\ VerdictKnown'
    BY <2>3, <2>5 DEF JobsCurrent, VerdictKnown
  <2> QED BY <2>6, <2>7 DEF Legacy
<1>3. CASE Start(k) \/ Answer(k) \/ Abort(k) \/ CleanUp(k)
  <2>1. UNCHANGED <<child, misaligned, seen>> /\ ~waived
    BY <1>3, OthersStep
  <2>2. \A v : Recent(v)' = Recent(v)
    BY <1>1, <2>1 DEF Recent
  <2>3. JobsCurrent'
    <3>1. ASSUME NEW i \in Check, checks'[i].task = "call", ~checks'[i].cancelled
          PROVE  Recent(checks'[i].v)
      <4>1. CASE checks'[i].v = child.v
        BY <1>0, <4>1 DEF Recent
      <4>2. CASE checks[i].task = "call" /\ ~checks[i].cancelled /\ checks'[i].v = checks[i].v
        BY <2>1, <4>2 DEF Legacy, JobsCurrent
      <4> QED BY <3>1, <4>1, <4>2, CheckStep
    <3> QED BY <2>2, <3>1 DEF JobsCurrent
  <2>4. ~Pending' => ~Pending
    BY <1>3, PendingStands
  <2>5. VerdictKnown'
    <3>1. ASSUME "trigger" \notin owed, ~Pending' PROVE Settled /\ Recent(seen.v)
      BY <2>1, <2>4, <3>1 DEF Legacy, VerdictKnown
    <3>2. Settled' = Settled
      BY <1>1, <2>1 DEF Settled
    <3> QED BY <1>1, <2>1, <2>2, <3>1, <3>2 DEF VerdictKnown
  <2>6. Informed'
    <3>1. ASSUME NEW e \in Evaluation, gate[e].at \in {"alignment", "read", "check", "decide"},
                 ~gate[e].hurried, gate[e].at = "alignment" => ~Pending'
          PROVE  Settled /\ seen.v >= gate[e].v0
      <4>1. gate[e].at = "alignment" => ~Pending
        BY <2>4, <3>1
      <4> QED BY <2>1, <3>1, <4>1 DEF Legacy, Informed
    <3>2. Settled' = Settled
      BY <1>1, <2>1 DEF Settled
    <3> QED BY <1>1, <2>1, <3>1, <3>2 DEF Informed
  <2> QED BY <2>3, <2>5, <2>6 DEF Legacy
<1> QED BY <1>2, <1>3 DEF Checking

LEMMA LegacyGates ==
  ASSUME TypeOK, Entries, CheckedHybrid, Arrived, Legacy, NEW e \in Evaluation, Gate(e),
         ~hybrid, ~waived'
  PROVE  Legacy'
<1> DEFINE g == gate[e]
           h == gate'[e]
           Told(f) == (/\ gate[f].at \in {"alignment", "read", "check", "decide"}
                       /\ ~gate[f].hurried
                       /\ gate[f].at = "alignment" => ~Pending)
                      => Settled /\ seen.v >= gate[f].v0
<1>0. /\ child.v \in Nat /\ seen.v \in Nat /\ waived \in BOOLEAN
      /\ \A f \in Evaluation : gate[f].v0 \in Nat
  BY Typed
<1>1. /\ UNCHANGED <<hybrid, check, checks, own, owed>>
      /\ \A f \in Evaluation \ {e} : gate'[f] = gate[f]
      /\ GateSteps(e, g, h)
      /\ child'.v = child.v /\ child'.on = child.on
  BY GateStep, PlainKept DEF Plain, Kept
<1>2. Pending' = Pending /\ \A v : Recent(v)' = Recent(v)
  BY <1>1 DEF Pending, Recent
\* Where neither the verdict nor its memory changes, the evaluation itself remains to be told.
<1>3. ASSUME UNCHANGED <<misaligned, overridden, seen, waived>>, Told(e)'
      PROVE  Legacy'
  <2>1. Settled' = Settled
    BY <1>3 DEF Settled
  <2>2. JobsCurrent'
    BY <1>1, <1>2, <1>3 DEF Legacy, JobsCurrent
  <2>3. VerdictKnown'
    BY <1>1, <1>2, <1>3, <2>1 DEF Legacy, VerdictKnown
  <2>4. ASSUME NEW f \in Evaluation, f # e PROVE Told(f)'
    <3>1. Told(f)
      BY <1>3 DEF Legacy, Informed
    <3> QED BY <1>1, <1>2, <1>3, <2>1, <2>4, <3>1
  <2>5. Informed'
    BY <1>3, <2>4 DEF Informed
  <2> QED BY <2>2, <2>3, <2>5 DEF Legacy
<1>4. CASE Quietly /\ h.row = g.row /\ (h.at = "intention" \/ Comes(g, h) \/ Goes(g, h) \/ Leaves(g, h))
  <2>1. UNCHANGED <<misaligned, overridden, seen, waived, child>>
    BY <1>4 DEF Quietly, history
  <2>2. Settled' = Settled
    BY <2>1 DEF Settled
  <2>3. CASE h.at = "intention" \/ Leaves(g, h)
    BY <1>3, <2>1, <2>3 DEF Leaves
  <2>4. CASE Comes(g, h)
    <3>1. ASSUME ~h.hurried, h.at = "alignment" => ~Pending PROVE Settled /\ seen.v >= h.v0
      <4>1. own = "none" /\ child.on /\ "trigger" \notin owed /\ h.v0 = child.v
        BY <2>4, <3>1 DEF Comes
      <4>2. Waits
        BY <4>1 DEF Waits, hybrid
      <4>3. ~Pending
        BY <2>4, <3>1, <4>2 DEF Comes
      <4>4. Settled /\ Recent(seen.v)
        BY <2>1, <4>1, <4>3 DEF Legacy, VerdictKnown
      <4> QED BY <1>0, <4>1, <4>4 DEF Recent
    <3> QED BY <1>2, <1>3, <2>1, <2>2, <3>1
  <2>5. CASE Goes(g, h)
    <3>1. ASSUME ~h.hurried PROVE Settled /\ seen.v >= h.v0
      <4>1. /\ g.at = "alignment" /\ ~g.hurried /\ h.v0 = g.v0
            /\ check \in {0, g.on} /\ checks[g.on].event
        BY <2>5, <3>1 DEF Goes
      <4>2. ~Pending
        BY <4>1, Numbers DEF Pending
      <4> QED BY <2>1, <3>1, <4>1, <4>2 DEF Legacy, Informed
    <3>2. h.at = "read"
      BY <2>5 DEF Goes
    <3> QED BY <1>1, <1>3, <2>1, <2>2, <3>1, <3>2
  <2> QED BY <1>4, <2>3, <2>4, <2>5
<1>5. CASE Quietly /\ Reads(g, h)
  <2>1. UNCHANGED <<misaligned, overridden, seen, waived>>
    BY <1>5 DEF Quietly, history
  <2>2. Settled' = Settled
    BY <2>1 DEF Settled
  <2>3. ASSUME ~h.hurried PROVE Settled /\ seen.v >= h.v0
    <3>1. g.at = "read" /\ ~g.hurried /\ h.v0 = g.v0
      BY <1>5, <2>3 DEF Reads
    <3> QED BY <2>1, <3>1 DEF Legacy, Informed
  <2> QED BY <1>1, <1>3, <2>1, <2>2, <2>3
<1>6. CASE UNCHANGED <<misaligned, overridden>> /\ Renews(g, h)
  <2>1. /\ g.at \in {"check", "decide"} /\ UNCHANGED history
        /\ h.v0 = g.v0 /\ h.hurried = g.hurried /\ h.at = "decide"
    BY <1>6 DEF Renews, CheckedHybrid, Current
  <2>2. UNCHANGED <<misaligned, overridden, seen, waived>>
    BY <1>6, <2>1 DEF history
  <2>3. Settled' = Settled
    BY <2>2 DEF Settled
  <2>4. ASSUME ~h.hurried PROVE Settled /\ seen.v >= h.v0
    BY <2>1, <2>2, <2>4 DEF Legacy, Informed
  <2> QED BY <1>1, <1>3, <2>1, <2>2, <2>3, <2>4
<1>7. CASE UNCHANGED <<child, seen>> /\ waived' = (waived \/ ~hybrid)
  BY <1>7
<1>8. CASE /\ child'.state = "ready" /\ seen'.ok /\ seen'.v = g.row.v
           /\ waived' = (waived \/ g.row.v # child.v)
           /\ h.row = g.row /\ Leaves(g, h)
  <2>1. ~waived
    BY <1>8
  <2>2. Settled' /\ seen'.v = child.v
    BY <1>8 DEF Settled
  <2>3. JobsCurrent'
    BY <1>1, <1>2, <2>1 DEF Legacy, JobsCurrent
  <2>4. VerdictKnown'
    <3>1. Recent(seen.v)'
      BY <1>0, <1>1, <2>2 DEF Recent
    <3> QED BY <2>2, <3>1 DEF VerdictKnown
  <2>5. Informed'
    <3>1. ASSUME NEW f \in Evaluation, gate'[f].at \in {"alignment", "read", "check", "decide"},
                 ~gate'[f].hurried
          PROVE  seen'.v >= gate'[f].v0
      <4>1. f # e
        BY <1>8, <3>1 DEF Leaves
      <4>2. gate'[f] = gate[f] /\ gate[f].v0 <= child.v
        BY <1>1, <3>1, <4>1 DEF Arrived
      <4> QED BY <1>0, <2>2, <4>2
    <3> QED BY <2>2, <3>1 DEF Informed
  <2> QED BY <2>3, <2>4, <2>5 DEF Legacy
<1> QED BY <1>1, <1>4, <1>5, <1>6, <1>7, <1>8 DEF GateSteps

\* Where a verdict is owed, it is the same engine's.
LEMMA EngineStays ==
  ASSUME TypeOK, Next, ~waived'
  PROVE  UNCHANGED hybrid
BY StepKinds, EntryStep, ToggleStep, ActivateStep, StoreStep, PlainKept

LEMMA LegacyKept ==
  ASSUME TypeOK, Entries, Dated, Arrived, Legacy, Next
  PROVE  Legacy'
<1>1. ASSUME hybrid' \/ waived' PROVE Legacy'
  BY <1>1 DEF Legacy, JobsCurrent, VerdictKnown, Informed
<1> SUFFICES ASSUME ~hybrid', ~waived' PROVE Legacy'
  BY <1>1
<1>2. ~hybrid
  BY EngineStays
<1>0. child.v \in Nat /\ child.on \in BOOLEAN /\ seen.v \in Nat /\ \A k \in Check : checks[k].v \in Nat
  BY Typed
<1>3. CASE Tell \/ Chain \/ Recheck
  <2>1. /\ UNCHANGED <<hybrid, gate, seen>> /\ Kept(child, child')
        /\ own' = own \/ own' = "none"
        /\ Cancelled \/ Triggered \/ (Left /\ UNCHANGED owed)
    BY <1>3, EntryStep
  <2>2. CASE Cancelled
    BY <1>2, <2>2 DEF Cancelled
  <2>3. CASE Triggered
    <3>1. /\ check' \in Check /\ UNCHANGED <<misaligned, waived>> /\ (overridden' => overridden)
          /\ child'.on /\ ~checks'[check'].event /\ checks'[check'].task = "new"
          /\ \A k \in Check \ {check'} : checks'[k] = Stopped[k]
      BY <2>3 DEF Triggered
    <3>2. Pending'
      BY <3>1 DEF Pending
    <3>3. JobsCurrent'
      <4>1. ASSUME NEW k \in Check, checks'[k].task = "call" PROVE checks'[k].cancelled
        <5>1. Stopped[k].task = "call" /\ checks'[k] = Stopped[k]
          BY <3>1, <4>1
        <5> QED BY <5>1, StoppedSays DEF Entries, CurrentCheckAwaited, Live
      <4> QED BY <4>1 DEF JobsCurrent
    <3>4. VerdictKnown'
      BY <3>2 DEF VerdictKnown
    <3>5. Informed'
      <4>1. Settled => Settled'
        BY <2>1, <3>1 DEF Settled
      <4>2. ASSUME NEW e \in Evaluation, gate[e].at \in {"read", "check", "decide"},
                   ~gate[e].hurried
            PROVE  Settled /\ seen.v >= gate[e].v0
        BY <1>2, <3>1, <4>2 DEF Legacy, Informed
      <4> QED BY <2>1, <3>2, <4>1, <4>2 DEF Informed
    <3> QED BY <3>3, <3>4, <3>5 DEF Legacy
  <2>4. CASE Left /\ UNCHANGED owed
    <3>1. Pending' = Pending /\ Settled' = Settled /\ \A v : Recent(v)' = Recent(v)
      BY <2>1, <2>4 DEF Left, Pending, Settled, Recent
    <3>2. JobsCurrent'
      BY <1>2, <2>4, <3>1 DEF Left, Legacy, JobsCurrent
    <3>3. VerdictKnown'
      BY <1>2, <2>1, <2>4, <3>1 DEF Left, Legacy, VerdictKnown
    <3>4. Informed'
      BY <1>2, <2>1, <2>4, <3>1 DEF Left, Legacy, Informed
    <3> QED BY <3>2, <3>3, <3>4 DEF Legacy
  <2> QED BY <2>1, <2>2, <2>3, <2>4
\* The steps that touch neither the entry nor the verdict.
<1>4. ASSUME UNCHANGED <<check, checks, misaligned, overridden, seen, gate, waived>>,
             "trigger" \in owed => "trigger" \in owed',
             \A v \in Nat : Recent(v) => Recent(v)'
      PROVE  Legacy'
  <2>1. Pending' = Pending /\ Settled' = Settled
    BY <1>4 DEF Pending, Settled
  <2>2. Informed'
    BY <1>2, <1>4, <2>1 DEF Legacy, Informed
  <2>3. JobsCurrent'
    <3>1. ASSUME NEW k \in Check, checks[k].task = "call", ~checks[k].cancelled
          PROVE  Recent(checks[k].v)
      BY <1>2, <1>4, <3>1 DEF Legacy, JobsCurrent
    <3>2. \A k \in Check : Recent(checks[k].v) => Recent(checks[k].v)'
      BY <1>0, <1>4 DEF Recent
    <3> QED BY <1>4, <3>1, <3>2 DEF JobsCurrent
  <2>4. VerdictKnown'
    <3>1. Recent(seen.v) => Recent(seen.v)'
      BY <1>0, <1>4 DEF Recent
    <3> QED BY <1>2, <1>4, <2>1, <3>1 DEF Legacy, VerdictKnown
  <2> QED BY <2>2, <2>3, <2>4 DEF Legacy
<1>5. ASSUME NEW on \in BOOLEAN, Toggle(on) PROVE Legacy'
  <2>1. /\ UNCHANGED <<check, checks, misaligned, overridden, seen, gate, waived, own>>
        /\ "trigger" \in owed => "trigger" \in owed'
    BY <1>5 DEF Toggle, barrier, history
  <2>2. child'.v = child.v
    BY <1>5, ToggleStep
  <2> QED BY <1>4, <2>1, <2>2 DEF Recent
<1>10. ASSUME NEW p \in Policies, Activate(p) PROVE Legacy'
  <2>1. UNCHANGED <<check, checks, misaligned, overridden, seen, gate, own, owed>>
    BY <1>10 DEF Activate, barrier
  <2>2. child'.v = child.v /\ UNCHANGED waived
    BY <1>10, ActivateStep, Typed
  <2> QED BY <1>4, <2>1, <2>2 DEF Recent
<1>6. CASE Store \/ Message \/ NotStored \/ StoreParent \/ \E life \in Open \cup {"ended"} : Lifecycle(life)
  <2>1. UNCHANGED <<check, checks, misaligned, overridden, seen, gate, owed>>
    BY <1>6 DEF Store, Message, NotStored, StoreParent, Lifecycle, barrier, history
  <2>2. UNCHANGED waived
    <3>1. CASE Message
      <4>1. waived' = (waived \/ own = "stored")
        BY <3>1 DEF Message
      <4> QED BY <4>1, Typed
    <3> QED BY <1>6, <3>1 DEF Store, NotStored, StoreParent, Lifecycle, history
  <2>4. \A v \in Nat : Recent(v) => Recent(v)'
    <3>1. CASE Store
      <4>1. child'.v = child.v + 1 /\ own = "call" /\ own' = "stored"
        BY <3>1, StoreStep DEF Store
      <4> QED BY <1>0, <4>1 DEF Recent
    <3>2. CASE Message \/ NotStored
      <4>1. child'.v = child.v
        BY <3>2, PlainKept DEF Plain, Kept
      <4>2. own # "stored"
        <5>1. CASE Message
          <6>1. waived' = (waived \/ own = "stored")
            BY <5>1 DEF Message
          <6> QED BY <6>1
        <5> QED BY <3>2, <5>1 DEF NotStored
      <4> QED BY <4>1, <4>2 DEF Recent
    <3>3. CASE StoreParent \/ \E life \in Open \cup {"ended"} : Lifecycle(life)
      <4>1. child'.v = child.v /\ UNCHANGED own
        BY <3>3, PlainKept DEF Plain, Kept, StoreParent, Lifecycle
      <4> QED BY <4>1 DEF Recent
    <3> QED BY <1>6, <3>1, <3>2, <3>3
  <2> QED BY <1>4, <2>1, <2>2, <2>4
<1>7. CASE Sweep \/ Restart
  <2>1. waived'
    BY <1>2, <1>7 DEF Sweep, Restart
  <2> QED BY <2>1
<1>8. CASE \E k \in Check : Checking(k)
  BY <1>2, <1>8, LegacyChecks DEF Dated
<1>9. CASE \E e \in Evaluation : Gate(e)
  BY <1>2, <1>9, LegacyGates DEF Dated
<1> QED BY <1>3, <1>5, <1>6, <1>7, <1>8, <1>9, <1>10, StepKinds DEF Plain

-----------------------------------------------------------------------------
(* The theorems *)

LEMMA BarrierInvParts ==
  BarrierInv <=> TypeOK /\ Entries /\ Dated /\ Compared /\ Legacy
BY DEF BarrierInv, Entries, Dated, Compared, Legacy

LEMMA InitBarrier == Init => BarrierInv
<1> SUFFICES ASSUME Init PROVE BarrierInv
  OBVIOUS
<1>1. TypeOK
  BY InitTyped
<1>7. /\ child.v = 1 /\ child.rev = 1 /\ child.on
      /\ hybrid => child.state = "pending"
  <2>1. PICK p \in Policies :
          child = [v |-> 1, rev |-> 1, on |-> TRUE, mode |-> 1, life |-> "active",
                   state |-> IF p = "legacy" THEN "ready" ELSE "pending", acked |-> FALSE,
                   policy |-> p]
    BY DEF Init
  <2> QED BY <2>1 DEF hybrid
<1>8. /\ check = 0 /\ own = "none" /\ owed = {"trigger"}
      /\ \A k \in Check : checks[k].task = "none" /\ ~checks[k].cancelled
      /\ \A e \in Evaluation : gate[e].at = "new" /\ gate[e].row = child
  BY DEF Init, NoJob
<1>2. /\ child.v = 1 /\ child.rev = 1 /\ child.on /\ (hybrid => child.state = "pending")
      /\ check = 0 /\ own = "none" /\ owed = {"trigger"}
      /\ \A k \in Check : checks[k].task = "none" /\ ~checks[k].cancelled
      /\ \A e \in Evaluation : gate[e].at = "new" /\ gate[e].row = child
  BY <1>7, <1>8
<1>3. Entries
  BY <1>2, Numbers DEF Entries, CurrentCheckAwaited, Live, EntryStands, EndedTold
<1>4. Dated
  BY <1>2 DEF Dated, JobsDated, RowsDated, CheckedHybrid
<1>5. Compared
  BY <1>2 DEF Compared, Ready, Arrived, RowsCompared
<1>6. Legacy
  BY <1>2 DEF Legacy, JobsCurrent, VerdictKnown, Informed
<1> QED BY <1>1, <1>3, <1>4, <1>5, <1>6, BarrierInvParts

LEMMA NextBarrier == BarrierInv /\ [Next]_vars => BarrierInv'
<1> SUFFICES ASSUME BarrierInv, [Next]_vars PROVE BarrierInv'
  OBVIOUS
<1>1. TypeOK /\ Entries /\ Dated /\ Compared /\ Legacy
  BY BarrierInvParts
<1>2. CASE Next
  <2>1. TypeOK'
    BY <1>1, <1>2, NextTyped
  <2>2. Entries'
    BY <1>1, <1>2, EntriesKept
  <2>3. Dated' /\ Compared'
    BY <1>1, <1>2, DatedKept, ComparedKept
  <2>4. Legacy'
    BY <1>1, <1>2, LegacyKept DEF Compared
  <2>5. (TypeOK /\ Entries /\ Dated /\ Compared /\ Legacy)' => BarrierInv'
    BY DEF BarrierInv, Entries, Dated, Compared, Legacy
  <2> QED BY <2>1, <2>2, <2>3, <2>4, <2>5
<1>3. CASE UNCHANGED vars
  <2>1. /\ Pending' = Pending /\ Settled' = Settled /\ \A v : Recent(v)' = Recent(v)
        /\ UNCHANGED hybrid
    BY <1>3 DEF vars, barrier, history, Pending, Settled, Recent, hybrid
  <2>2. TypeOK'
    BY <1>1, <1>3, NextTyped
  <2>3. Entries'
    BY <1>1, <1>3 DEF vars, barrier, Entries, CurrentCheckAwaited, Live, EntryStands, EndedTold
  <2>4. Dated'
    BY <1>1, <1>3, <2>1 DEF vars, barrier, Dated, JobsDated, RowsDated, CheckedHybrid
  <2>5. Compared'
    BY <1>1, <1>3, <2>1 DEF vars, history, Compared, Ready, Arrived, RowsCompared
  <2>6. JobsCurrent' /\ VerdictKnown'
    BY <1>1, <1>3, <2>1 DEF vars, barrier, history, Legacy, JobsCurrent, VerdictKnown
  <2>7. Informed'
    BY <1>1, <1>3, <2>1 DEF vars, barrier, history, Legacy, Informed
  <2>8. (TypeOK /\ Entries /\ Dated /\ Compared /\ Legacy)' => BarrierInv'
    BY DEF BarrierInv, Entries, Dated, Compared, Legacy
  <2> QED BY <2>2, <2>3, <2>4, <2>5, <2>6, <2>7, <2>8 DEF Legacy
<1> QED BY <1>2, <1>3

LEMMA BarrierHolds == Spec => []BarrierInv
BY InitBarrier, NextBarrier, PTL DEF Spec

\* Every variable of the alignment barrier keeps its type.
THEOREM AlignmentTyped == Spec => []TypeOK
<1>1. BarrierInv => TypeOK
  BY DEF BarrierInv
<1> QED BY <1>1, BarrierHolds, PTL

\* The check of an alignment that is under way is always the one the next evaluation
\* waits for, whatever triggers, cancels and restarts come between (alignment.py).
THEOREM CheckAlwaysAwaited == Spec => []CurrentCheckAwaited
<1>1. BarrierInv => CurrentCheckAwaited
  BY DEF BarrierInv
<1> QED BY <1>1, BarrierHolds, PTL

\* A hybrid child is ready only for the intention it has: a verdict or an approval that
\* was read before a move of the session is never stored (set_alignment_state).  The
\* activation of hybrid_v1 for a legacy child, which leaves it ready as it was created
\* (update_session, refresh_inherited_policy), is the exception until the next verdict.
THEOREM ReadyForThisIntention == Spec => []ReadyIsForThisIntention
<1>1. BarrierInv => ReadyIsForThisIntention
  BY DEF BarrierInv, Ready, Recent, ReadyIsForThisIntention
<1> QED BY <1>1, BarrierHolds, PTL

\* PassedIsCompatible, of one step.
PassesCompatible ==
  \A e \in Evaluation :
    (/\ gate'[e].at = "passed" /\ gate[e].at = "decide"
     /\ gate[e].row.on /\ gate[e].row.policy # "bound"
     /\ ~gate[e].hurried /\ ~gate'[e].lapsed)
    => gate'[e].seen.ok /\ gate'[e].seen.v >= gate[e].v0

LEMMA DecisionCompatible ==
  ASSUME BarrierInv, NEW e \in Evaluation, Decide(e),
         gate'[e].at = "passed", gate[e].row.on, gate[e].row.policy # "bound",
         ~gate[e].hurried, ~gate'[e].lapsed
  PROVE  gate'[e].seen.ok /\ gate'[e].seen.v >= gate[e].v0
<1> DEFINE at == Outcome(gate[e].row)
           s == IF gate[e].row.policy = "legacy" THEN seen ELSE gate[e].seen
           b == IF gate[e].row.policy = "legacy" THEN Lapsed(e) ELSE gate[e].lapsed
<1>1. gate' = [gate EXCEPT ![e].at = at, ![e].seen = s, ![e].lapsed = b] /\ gate[e].at = "decide"
  BY DEF Decide
<1> HIDE DEF at, s, b
<1>2. TypeOK
  BY DEF BarrierInv
<1>3. gate'[e].at = at /\ gate'[e].seen = s /\ gate'[e].lapsed = b
  <2>1. gate' = [gate EXCEPT ![e].at = at, ![e].seen = s, ![e].lapsed = b]
    BY <1>1
  <2>2. gate \in [Evaluation -> Visit]
    BY <1>2, SessionTyped
  <2> QED BY <2>1, <2>2 DEF Visit
<1>4. Outcome(gate[e].row) = "passed"
  BY <1>3 DEF at
<1>5. CASE gate[e].row.policy # "legacy"
  <2>1. gate[e].row.state = "ready"
    <3>1. gate[e].row.state \in Standing /\ gate[e].row.policy \in Policies
      BY <1>2, SessionTyped DEF Visit, Standing
    <3>2. gate[e].row.policy \in {"hybrid", "autonomous"}
      BY <1>5, <3>1, AlignmentAssumption
    <3> QED BY <1>4, <3>1, <3>2 DEF Outcome, Standing
  <2>2. ~gate[e].lapsed
    BY <1>3, <1>5 DEF b
  <2> QED BY <1>1, <1>3, <1>5, <2>1, <2>2 DEF s, BarrierInv, RowsCompared
<1>6. CASE gate[e].row.policy = "legacy"
  <2>1. ~(misaligned /\ ~overridden)
    BY <1>4, <1>6 DEF Outcome
  <2>2. ~waived /\ ~hybrid
    BY <1>3, <1>6 DEF b, Lapsed
  <2>3. Settled /\ seen.v >= gate[e].v0
    BY <1>1, <2>2 DEF BarrierInv, Informed
  <2> QED BY <1>3, <1>6, <2>1, <2>3 DEF s, Settled
<1> QED BY <1>5, <1>6

\* A call that waited for the alignment of its session passes only on a verdict or an
\* approval of the intention it was made under, or of a later one (Evaluator.evaluate),
\* under any policy but one whose operator bound is approve.
THEOREM PassedAlwaysCompatible == Spec => PassedIsCompatible
<1>1. BarrierInv /\ [Next]_vars => [PassesCompatible]_vars
  <2> SUFFICES ASSUME BarrierInv, Next, NEW e \in Evaluation,
                      gate'[e].at = "passed", gate[e].at = "decide",
                      gate[e].row.on, gate[e].row.policy # "bound",
                      ~gate[e].hurried, ~gate'[e].lapsed
               PROVE  gate'[e].seen.ok /\ gate'[e].seen.v >= gate[e].v0
    BY DEF PassesCompatible
  <2>1. TypeOK
    BY DEF BarrierInv
  <2>2. PICK f \in Evaluation : Gate(f)
    BY <2>1, GatesOfOthers
  <2>3. f = e
    BY <2>1, <2>2, GateStep
  <2>5. ~Resume(e)
    <3>1. SUFFICES ASSUME Resume(e) PROVE FALSE
      OBVIOUS
    <3>2. gate' = [gate EXCEPT ![e].row = Again(e), ![e].seen = seen, ![e].lapsed = Lapsed(e)]
      BY <3>1 DEF Resume
    <3>3. gate \in [Evaluation -> Visit]
      BY <2>1, SessionTyped
    <3> QED BY <3>2, <3>3 DEF Visit
  <2>6. ~DenyEnded(e)
    <3>1. SUFFICES ASSUME DenyEnded(e) PROVE FALSE
      OBVIOUS
    <3>2. gate'[e].at = "denied"
      BY <2>1, <3>1, AtFields DEF DenyEnded
    <3> QED BY <3>2
  <2>7. Decide(e)
    BY <2>2, <2>3, <2>5, <2>6 DEF Gate, Enter, Updated, Hurry, Released, TimesOut, Read, CheckNow,
          Approve
  <2> QED BY <2>7, DecisionCompatible
<1> QED BY <1>1, BarrierHolds, PTL DEF Spec, PassedIsCompatible, PassesCompatible

=============================================================================
