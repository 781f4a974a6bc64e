------------------------ MODULE Authorization_proofs ------------------------
(* Theorems about Authorization, for every value of its constants. *)
EXTENDS Authorization, TLAPS

\* An evaluation holds what its place in the code has given it.
Engaged ==
  \A e \in Evaluator :
    /\ pc[e] # "idle" => ask[e] \in Ask
    /\ pc[e] \notin {"idle", "read"} => snap[e] \in Snapshot
    /\ pc[e] = "admit" => plan[e] \in Plan

Typed == TypeOK /\ Engaged

\* The parts of the type invariant, by the variables they are about.
SessionTyped ==
  /\ life \in [Session -> Life]
  /\ policy \in [Session -> Policy]
  /\ source \in [Session -> Policy]
  /\ polRev \in [Session -> Nat]
  /\ stRev \in [Session -> Nat]
  /\ pin \in [Session -> Pin \cup {None}]
  /\ killed \in [Session -> BOOLEAN]

AuditTyped ==
  /\ made \in SUBSET Call
  /\ row \in [Call -> Row \cup {None}]
  /\ \A c \in made : row[c] \in Row
  /\ clock \in Nat

EvalTyped ==
  /\ pc \in [Evaluator -> Step]
  /\ ask \in [Evaluator -> Ask \cup {None}]
  /\ snap \in [Evaluator -> Snapshot \cup {None}]
  /\ plan \in [Evaluator -> Plan \cup {None}]
  /\ Engaged

LEMMA TypedParts == Typed <=> SessionTyped /\ AuditTyped /\ EvalTyped
BY DEF Typed, TypeOK, SessionTyped, AuditTyped, EvalTyped

\* Revisions only grow, and a policy never changes without its state revision.
Advance ==
  \A s \in Session :
    /\ stRev[s] <= stRev'[s]
    /\ stRev'[s] = stRev[s] => polRev'[s] = polRev[s]

-----------------------------------------------------------------------------
(* Sessions: what each writer leaves behind *)

LEMMA SetStatusStep ==
  ASSUME SessionTyped, NEW s \in Session, NEW l \in Life, SetStatus(s, l),
         UNCHANGED <<policy, source, polRev, pin>>, killed' \in [Session -> BOOLEAN]
  PROVE  SessionTyped' /\ Advance
<1>1. life' \in [Session -> Life] /\ stRev' \in [Session -> Nat]
  BY DEF SetStatus, SessionTyped
<1>2. Advance
  BY DEF SetStatus, SessionTyped, Advance
<1> QED
  BY <1>1, <1>2 DEF SessionTyped

LEMMA IdentityType ==
  ASSUME SessionTyped, NEW s \in Session
  PROVE  Identity(s) \in Pin
BY DEF SessionTyped, Identity, Pin

LEMMA StorePolicyStep ==
  ASSUME SessionTyped, NEW s \in Session, NEW local \in Policy,
         StorePolicy(s, local), UNCHANGED <<life, killed>>
  PROVE  SessionTyped' /\ Advance
<1> DEFINE new == IF IsChild(s) THEN Inherited(policy[ParentOf[s]], local) ELSE local
           id == IF IsChild(s) THEN Identity(ParentOf[s]) ELSE None
<1>1. new \in Policy
  BY DEF Inherited, Policy
<1>2. id \in Pin \cup {None}
  BY IdentityType, AuthorizationAssumption DEF IsChild
<1>3. CASE UNCHANGED <<policy, source, polRev, stRev, pin>>
  BY <1>3 DEF SessionTyped, Advance
<1>4. CASE /\ policy' = [policy EXCEPT ![s] = new]
           /\ source' = [source EXCEPT ![s] = local]
           /\ pin' = [pin EXCEPT ![s] = id]
           /\ Revise(s)
  <2> HIDE DEF new, id
  <2>1. polRev' \in [Session -> Nat] /\ stRev' \in [Session -> Nat]
    BY <1>4 DEF Revise, SessionTyped
  <2>2. Advance
    BY <1>4 DEF Revise, SessionTyped, Advance
  <2> QED
    BY <1>1, <1>2, <1>4, <2>1, <2>2 DEF SessionTyped
<1> QED
  BY <1>3, <1>4 DEF StorePolicy

LEMMA SessionIdle ==
  ASSUME SessionTyped, UNCHANGED sessionVars
  PROVE  SessionTyped' /\ Advance
BY DEF SessionTyped, sessionVars, Advance

-----------------------------------------------------------------------------
(* Evaluations: what each step leaves behind *)

LEMMA EvalIdle ==
  ASSUME EvalTyped, UNCHANGED evalVars
  PROVE  EvalTyped'
BY DEF EvalTyped, Engaged, evalVars

LEMMA LeaveStep ==
  ASSUME EvalTyped, NEW e \in Evaluator, Leave(e)
  PROVE  EvalTyped'
<1>1. /\ pc' \in [Evaluator -> Step]
      /\ ask' \in [Evaluator -> Ask \cup {None}]
      /\ snap' \in [Evaluator -> Snapshot \cup {None}]
      /\ plan' \in [Evaluator -> Plan \cup {None}]
  BY DEF EvalTyped, Leave, Goto, Step
<1>2. Engaged'
  BY DEF EvalTyped, Engaged, Leave, Goto
<1> QED
  BY <1>1, <1>2 DEF EvalTyped

LEMMA GotoStep ==
  ASSUME EvalTyped, NEW e \in Evaluator, NEW step \in Step, Goto(e, step),
         UNCHANGED <<ask, snap, plan>>,
         pc[e] \notin {"idle", "read"}, step # "admit"
  PROVE  EvalTyped'
<1>1. pc' \in [Evaluator -> Step]
  BY DEF EvalTyped, Goto
<1>2. Engaged'
  BY DEF EvalTyped, Engaged, Goto
<1> QED
  BY <1>1, <1>2 DEF EvalTyped

LEMMA CaptureStep ==
  ASSUME SessionTyped, EvalTyped, NEW e \in Evaluator, NEW step \in Step,
         pc[e] # "idle", Capture(e), Goto(e, step), step # "admit",
         UNCHANGED <<ask, plan>>
  PROVE  EvalTyped'
<1> DEFINE s == ask[e].session
           now == [life |-> life[s], policy |-> policy[s], source |-> source[s],
                   pol |-> polRev[s], st |-> stRev[s], pin |-> pin[s]]
<1>1. s \in Session
  BY DEF EvalTyped, Engaged, Ask
<1>2. now \in Snapshot
  BY <1>1 DEF SessionTyped, Snapshot
<1>3. snap' = [snap EXCEPT ![e] = now]
  BY DEF Capture
<1> HIDE DEF now
<1>4. pc' \in [Evaluator -> Step] /\ snap' \in [Evaluator -> Snapshot \cup {None}]
  BY <1>2, <1>3 DEF EvalTyped, Goto
<1>5. Engaged'
  BY <1>2, <1>3 DEF EvalTyped, Engaged, Goto
<1> QED
  BY <1>4, <1>5 DEF EvalTyped

LEMMA VerdictType ==
  ASSUME NEW p \in Policy, NEW floor, NEW raw \in Outcome, NEW human
  PROVE  Verdict(p, floor, raw, human) \in Outcome
BY DEF Verdict, Outcome

LEMMA BeginStep ==
  ASSUME EvalTyped, NEW e \in Evaluator, NEW r \in Ask, Begin(e, r)
  PROVE  EvalTyped'
<1>1. /\ pc' = [pc EXCEPT ![e] = "read"]
      /\ ask' = [ask EXCEPT ![e] = r]
      /\ UNCHANGED <<snap, plan>>
  BY DEF Begin, Goto
<1>2. Engaged'
  BY <1>1 DEF EvalTyped, Engaged
<1> QED
  BY <1>1, <1>2 DEF EvalTyped, Step

LEMMA AssessStep ==
  ASSUME EvalTyped, NEW e \in Evaluator, NEW raw \in Outcome,
         NEW ref \in Call \cup {NoCall}, Assess(e, raw, ref)
  PROVE  EvalTyped'
<1> DEFINE human == ref # NoCall /\ Approved(ref, "user")
           new == [verdict |-> Verdict(snap[e].policy, FloorOf[ask[e].action], raw, human),
                   ref |-> ref]
<1>1. pc[e] \notin {"idle", "read"}
  BY DEF Assess, Assessing
<1>2. snap[e].policy \in Policy
  BY <1>1 DEF EvalTyped, Engaged, Snapshot
<1>3. new \in Plan
  BY <1>2, VerdictType DEF Plan
<1>4. /\ plan' = [plan EXCEPT ![e] = new]
      /\ pc' = [pc EXCEPT ![e] = "admit"]
      /\ UNCHANGED <<ask, snap>>
  BY DEF Assess, Goto
<1> HIDE DEF new
<1>5. Engaged'
  BY <1>1, <1>3, <1>4 DEF EvalTyped, Engaged
<1> QED
  BY <1>3, <1>4, <1>5 DEF EvalTyped, Step

-----------------------------------------------------------------------------
(* Audit rows: what each step leaves behind *)

LEMMA AuditIdle ==
  ASSUME AuditTyped, UNCHANGED auditVars
  PROVE  AuditTyped'
BY DEF AuditTyped, auditVars

\* The row that Admit writes.
NewRow(e) ==
  LET verdict == Recorded(ask[e], snap[e], plan[e].verdict)
  IN  [ask |-> ask[e], policy |-> snap[e].policy, pol |-> snap[e].pol,
       st |-> stRev[ask[e].session], verdict |-> verdict, effect |-> verdict,
       by |-> "none", ref |-> plan[e].ref, born |-> clock, at |-> 0]

LEMMA AdmitWrites ==
  ASSUME NEW e \in Evaluator, NEW c \in Call, Admit(e, c)
  PROVE  /\ pc[e] = "admit"
         /\ c \notin made
         /\ made' = made \cup {c}
         /\ row' = [row EXCEPT ![c] = NewRow(e)]
         /\ Leave(e)
         /\ UNCHANGED <<sessionVars, clock>>
BY DEF Admit, NewRow

LEMMA NewRowType ==
  ASSUME SessionTyped, AuditTyped, EvalTyped, NEW e \in Evaluator, pc[e] = "admit"
  PROVE  NewRow(e) \in Row
<1>1. ask[e] \in Ask /\ snap[e] \in Snapshot /\ plan[e] \in Plan
  BY DEF EvalTyped, Engaged
<1>2. Recorded(ask[e], snap[e], plan[e].verdict) \in Outcome
  BY <1>1 DEF Recorded, Plan, Outcome
<1>3. stRev[ask[e].session] \in Nat /\ clock \in Nat
  BY <1>1 DEF SessionTyped, AuditTyped, Ask
<1> QED
  BY <1>1, <1>2, <1>3 DEF NewRow, Row, Snapshot, Plan

LEMMA AdmitStep ==
  ASSUME SessionTyped, AuditTyped, EvalTyped, NEW e \in Evaluator, NEW c \in Call,
         Admit(e, c)
  PROVE  AuditTyped'
<1>1. NewRow(e) \in Row
  BY AdmitWrites, NewRowType
<1>2. row' \in [Call -> Row \cup {None}]
  BY <1>1, AdmitWrites DEF AuditTyped
<1>3. \A d \in made' : row'[d] \in Row
  BY <1>1, AdmitWrites DEF AuditTyped
<1> QED
  BY <1>2, <1>3, AdmitWrites DEF AuditTyped

\* The row that a human or a Judge leaves.
Resolved(c, by, decision, st) ==
  [row[c] EXCEPT !.by = by, !.effect = decision, !.st = st, !.at = clock + 1]

LEMMA HumanWrites ==
  ASSUME SessionTyped, AuditTyped, NEW c \in made, NEW decision, NEW note \in BOOLEAN,
         Human(c, decision, note)
  PROVE  \E st \in Nat :
           /\ row' = [row EXCEPT ![c] = Resolved(c, "user", decision, st)]
           /\ stRev' = [stRev EXCEPT ![row[c].ask.session] = st]
           /\ st \in {stRev[row[c].ask.session], stRev[row[c].ask.session] + 1}
           /\ clock' = clock + 1
           /\ UNCHANGED <<life, policy, source, polRev, pin, killed, made, evalVars>>
<1> DEFINE s == row[c].ask.session
           local == /\ decision = "approve" /\ ~note
                    /\ row[c].verdict = "escalate" /\ row[c].by = "none"
           st == IF local THEN stRev[s] ELSE stRev[s] + 1
<1>1. row[c] \in Row /\ c \in Call /\ row \in [Call -> Row \cup {None}]
  BY DEF AuditTyped
<1>2. s \in Session
  BY <1>1 DEF Row, Ask
<1>3. st \in Nat /\ st \in {stRev[s], stRev[s] + 1}
  BY <1>2 DEF SessionTyped
<1>4. /\ stRev' = [stRev EXCEPT ![s] = st]
      /\ clock' = clock + 1
      /\ row' = [row EXCEPT ![c].by = "user", ![c].effect = decision,
                            ![c].st = st, ![c].at = clock + 1]
      /\ UNCHANGED <<life, policy, source, polRev, pin, killed, made, evalVars>>
  BY DEF Human
<1> HIDE DEF st
<1>5. row' = [row EXCEPT ![c] = Resolved(c, "user", decision, st)]
  BY <1>1, <1>4 DEF Resolved, Row
<1> QED
  BY <1>3, <1>4, <1>5

LEMMA JudgeWrites ==
  ASSUME AuditTyped, NEW c \in made, NEW decision, Judge(c, decision)
  PROVE  /\ row' = [row EXCEPT ![c] = Resolved(c, "judge", decision, row[c].st)]
         /\ clock' = clock + 1
         /\ UNCHANGED <<sessionVars, made, evalVars>>
<1>1. row[c] \in Row /\ c \in Call /\ row \in [Call -> Row \cup {None}]
  BY DEF AuditTyped
<1>2. /\ row' = [row EXCEPT ![c].by = "judge", ![c].effect = decision,
                            ![c].at = clock + 1]
      /\ clock' = clock + 1
      /\ UNCHANGED <<sessionVars, made, evalVars>>
  BY DEF Judge
<1>3. row' = [row EXCEPT ![c] = Resolved(c, "judge", decision, row[c].st)]
  BY <1>1, <1>2 DEF Resolved, Row
<1> QED
  BY <1>2, <1>3

LEMMA ResolvedType ==
  ASSUME AuditTyped, NEW c \in made, NEW by \in {"judge", "user"},
         NEW decision \in {"approve", "deny"}, NEW st \in Nat
  PROVE  Resolved(c, by, decision, st) \in Row
<1>1. row[c] \in Row /\ clock + 1 \in Nat
  BY DEF AuditTyped
<1>2. decision \in Outcome /\ by \in {"none", "judge", "user"}
  BY DEF Outcome
<1> QED
  BY <1>1, <1>2 DEF Resolved, Row

LEMMA ResolveStep ==
  ASSUME AuditTyped, NEW c \in made, NEW new \in Row,
         row' = [row EXCEPT ![c] = new], clock' = clock + 1, UNCHANGED made
  PROVE  AuditTyped'
BY DEF AuditTyped

-----------------------------------------------------------------------------
(* One step of the system *)

\* Every step of an evaluation but Admit leaves the audit log alone.
LEMMA EvaluateTyped ==
  ASSUME SessionTyped, AuditTyped, EvalTyped, NEW e \in Evaluator, Evaluate(e)
  PROVE  SessionTyped' /\ AuditTyped' /\ EvalTyped' /\ Advance
<1>1. ASSUME NEW r \in Ask, Begin(e, r)
      PROVE  SessionTyped' /\ AuditTyped' /\ EvalTyped' /\ Advance
  <2>1. UNCHANGED <<sessionVars, auditVars>>
    BY <1>1 DEF Begin
  <2> QED
    BY <1>1, <2>1, BeginStep, SessionIdle, AuditIdle
<1>2. CASE Read(e)
  <2>1. UNCHANGED <<sessionVars, auditVars>>
    BY <1>2 DEF Read
  <2>2. pc[e] = "read" /\ Capture(e) /\ UNCHANGED <<ask, plan>>
    BY <1>2 DEF Read
  <2>3. \E step \in Step : Goto(e, step) /\ step # "admit"
    BY <1>2 DEF Read, Step
  <2>4. EvalTyped'
    BY <2>2, <2>3, CaptureStep
  <2> QED
    BY <2>1, <2>4, SessionIdle, AuditIdle
<1>3. CASE Inherit(e)
  <2>1. UNCHANGED <<sessionVars, auditVars>>
    BY <1>3 DEF Inherit
  <2>2. pc[e] = "inherit" /\ UNCHANGED <<ask, snap, plan>>
    BY <1>3 DEF Inherit
  <2>3. \E step \in Step : Goto(e, step) /\ step # "admit"
    BY <1>3 DEF Inherit, Step
  <2>4. EvalTyped'
    BY <2>2, <2>3, GotoStep
  <2> QED
    BY <2>1, <2>4, SessionIdle, AuditIdle
<1>4. CASE Activate(e)
  <2>1. /\ pc[e] = "activate"
        /\ StorePolicy(ask[e].session, snap[e].source)
        /\ Goto(e, "fetch")
        /\ UNCHANGED <<life, killed, auditVars, ask, snap, plan>>
    BY <1>4 DEF Activate
  <2>2. ask[e].session \in Session /\ snap[e].source \in Policy
    BY <2>1 DEF EvalTyped, Engaged, Ask, Snapshot
  <2>3. SessionTyped' /\ Advance
    BY <2>1, <2>2, StorePolicyStep
  <2>4. EvalTyped'
    BY <2>1, GotoStep DEF Step
  <2> QED
    BY <2>1, <2>3, <2>4, AuditIdle
<1>5. CASE Fetch(e)
  <2>1. UNCHANGED <<sessionVars, auditVars>>
    BY <1>5 DEF Fetch
  <2>2. pc[e] # "idle" /\ Capture(e) /\ UNCHANGED <<ask, plan>>
    BY <1>5 DEF Fetch
  <2>3. \E step \in Step : Goto(e, step) /\ step # "admit"
    BY <1>5 DEF Fetch, Step
  <2>4. EvalTyped'
    BY <2>2, <2>3, CaptureStep
  <2> QED
    BY <2>1, <2>4, SessionIdle, AuditIdle
<1>6. CASE Resume(e)
  <2>1. /\ pc[e] = "opened"
        /\ SetStatus(ask[e].session, "active")
        /\ Goto(e, "resumed")
        /\ UNCHANGED <<policy, source, polRev, pin, killed, auditVars, ask, snap, plan>>
    BY <1>6 DEF Resume
  <2>2. ask[e].session \in Session /\ "active" \in Life
    BY <2>1 DEF EvalTyped, Engaged, Ask, Life
  <2>3. SessionTyped' /\ Advance
    BY <2>1, <2>2, SetStatusStep DEF SessionTyped
  <2>4. EvalTyped'
    BY <2>1, GotoStep DEF Step
  <2> QED
    BY <2>1, <2>3, <2>4, AuditIdle
<1>7. CASE Disown(e)
  <2>1. UNCHANGED <<sessionVars, auditVars>>
    BY <1>7 DEF Disown
  <2>2. /\ pc[e] \notin {"idle", "read"}
        /\ Goto(e, "orphan")
        /\ UNCHANGED <<ask, snap, plan>>
    BY <1>7 DEF Disown, Assessing
  <2>3. EvalTyped'
    BY <2>2, GotoStep DEF Step
  <2> QED
    BY <2>1, <2>3, SessionIdle, AuditIdle
<1>8. CASE Orphan(e)
  <2>1. /\ pc[e] = "orphan"
        /\ SetStatus(ask[e].session, "suspended")
        /\ Leave(e)
        /\ UNCHANGED <<policy, source, polRev, pin, killed, auditVars>>
    BY <1>8 DEF Orphan
  <2>2. ask[e].session \in Session /\ "suspended" \in Life
    BY <2>1 DEF EvalTyped, Engaged, Ask, Life, Dead
  <2>3. SessionTyped' /\ Advance
    BY <2>1, <2>2, SetStatusStep DEF SessionTyped
  <2> QED
    BY <2>1, <2>3, LeaveStep, AuditIdle
<1>9. ASSUME NEW raw \in Outcome, NEW ref \in Call \cup {NoCall}, Assess(e, raw, ref)
      PROVE  SessionTyped' /\ AuditTyped' /\ EvalTyped' /\ Advance
  <2>1. UNCHANGED <<sessionVars, auditVars>>
    BY <1>9 DEF Assess
  <2> QED
    BY <1>9, <2>1, AssessStep, SessionIdle, AuditIdle
<1>10. ASSUME NEW c \in Call, Admit(e, c)
       PROVE  SessionTyped' /\ AuditTyped' /\ EvalTyped' /\ Advance
  BY <1>10, AdmitWrites, AdmitStep, LeaveStep, SessionIdle
<1>11. CASE GiveUp(e)
  <2>1. Leave(e) /\ UNCHANGED <<sessionVars, auditVars>>
    BY <1>11 DEF GiveUp
  <2> QED
    BY <2>1, LeaveStep, SessionIdle, AuditIdle
<1> QED
  BY <1>1, <1>2, <1>3, <1>4, <1>5, <1>6, <1>7, <1>8, <1>9, <1>10, <1>11 DEF Evaluate

LEMMA ClientsTyped ==
  ASSUME SessionTyped, AuditTyped, EvalTyped, Clients
  PROVE  /\ SessionTyped' /\ AuditTyped' /\ EvalTyped' /\ Advance
         /\ UNCHANGED <<auditVars, evalVars>>
<1>1. PICK s \in Session :
        \/ \E l \in Life : PatchStatus(s, l)
        \/ \E p \in Policy : PatchPolicy(s, p)
        \/ Evidence(s) \/ SweepIdle(s) \/ SweepChild(s)
  BY DEF Clients
<1>2. UNCHANGED <<auditVars, evalVars>>
  BY <1>1 DEF PatchStatus, PatchPolicy, Evidence, SweepIdle, SweepChild
<1>3. ASSUME NEW l \in Life, PatchStatus(s, l)
      PROVE  SessionTyped' /\ Advance
  <2>1. killed' \in [Session -> BOOLEAN]
    BY <1>3 DEF PatchStatus, SessionTyped
  <2> QED
    BY <1>3, <2>1, SetStatusStep DEF PatchStatus
<1>4. ASSUME NEW p \in Policy, PatchPolicy(s, p)
      PROVE  SessionTyped' /\ Advance
  BY <1>4, StorePolicyStep DEF PatchPolicy
<1>5. ASSUME Evidence(s)
      PROVE  SessionTyped' /\ Advance
  <2>1. /\ stRev' = [stRev EXCEPT ![s] = @ + 1]
        /\ UNCHANGED <<life, policy, source, polRev, pin, killed>>
    BY <1>5 DEF Evidence
  <2>2. SessionTyped'
    BY <2>1 DEF SessionTyped
  <2>3. Advance
    BY <2>1 DEF SessionTyped, Advance
  <2> QED
    BY <2>2, <2>3
<1>6. ASSUME NEW l \in Life, SetStatus(s, l),
             UNCHANGED <<policy, source, polRev, pin, killed>>
      PROVE  SessionTyped' /\ Advance
  <2>1. killed' \in [Session -> BOOLEAN]
    BY <1>6 DEF SessionTyped
  <2> QED
    BY <1>6, <2>1, SetStatusStep
<1>7. ASSUME SweepIdle(s) \/ SweepChild(s)
      PROVE  SessionTyped' /\ Advance
  <2>1. "idle" \in Life /\ "completed" \in Life
    BY DEF Life
  <2>2. \E l \in Life : SetStatus(s, l) /\ UNCHANGED <<policy, source, polRev, pin, killed>>
    BY <1>7, <2>1 DEF SweepIdle, SweepChild
  <2> QED
    BY <1>6, <2>2
<1> QED
  BY <1>1, <1>2, <1>3, <1>4, <1>5, <1>7, AuditIdle, EvalIdle

LEMMA ResolveTyped ==
  ASSUME SessionTyped, AuditTyped, EvalTyped, Resolve
  PROVE  SessionTyped' /\ AuditTyped' /\ EvalTyped' /\ Advance
<1>1. PICK c \in made, decision \in {"approve", "deny"} :
        (\E note \in BOOLEAN : Human(c, decision, note)) \/ Judge(c, decision)
  BY DEF Resolve
<1>2. row[c].ask.session \in Session /\ row[c].st \in Nat
  BY DEF AuditTyped, Row, Ask
<1>3. ASSUME NEW note \in BOOLEAN, Human(c, decision, note)
      PROVE  SessionTyped' /\ AuditTyped' /\ EvalTyped' /\ Advance
  <2>1. PICK st \in Nat :
          /\ row' = [row EXCEPT ![c] = Resolved(c, "user", decision, st)]
          /\ stRev' = [stRev EXCEPT ![row[c].ask.session] = st]
          /\ st \in {stRev[row[c].ask.session], stRev[row[c].ask.session] + 1}
          /\ clock' = clock + 1
          /\ UNCHANGED <<life, policy, source, polRev, pin, killed, made, evalVars>>
    BY <1>3, HumanWrites
  <2>2. SessionTyped' /\ Advance
    BY <1>2, <2>1 DEF SessionTyped, Advance
  <2>3. AuditTyped'
    BY <2>1, ResolvedType, ResolveStep
  <2> QED
    BY <2>1, <2>2, <2>3, EvalIdle
<1>4. CASE Judge(c, decision)
  <2>1. /\ row' = [row EXCEPT ![c] = Resolved(c, "judge", decision, row[c].st)]
        /\ clock' = clock + 1
        /\ UNCHANGED <<sessionVars, made, evalVars>>
    BY <1>4, JudgeWrites
  <2>2. AuditTyped'
    BY <1>2, <2>1, ResolvedType, ResolveStep
  <2> QED
    BY <2>1, <2>2, SessionIdle, EvalIdle
<1> QED
  BY <1>1, <1>3, <1>4

LEMMA StepTyped == Typed /\ [Next]_vars => Typed' /\ Advance
<1> SUFFICES ASSUME SessionTyped, AuditTyped, EvalTyped, [Next]_vars
             PROVE  SessionTyped' /\ AuditTyped' /\ EvalTyped' /\ Advance
  BY TypedParts DEF Typed, TypeOK, SessionTyped, AuditTyped, EvalTyped
<1>1. CASE Clients
  BY <1>1, ClientsTyped
<1>2. CASE \E e \in Evaluator : Evaluate(e)
  BY <1>2, EvaluateTyped
<1>3. CASE Resolve
  BY <1>3, ResolveTyped
<1>4. CASE UNCHANGED vars
  BY <1>4, SessionIdle, AuditIdle, EvalIdle DEF vars
<1> QED
  BY <1>1, <1>2, <1>3, <1>4 DEF Next

LEMMA InitTyped == Init => Typed
<1> SUFFICES ASSUME Init PROVE Typed
  OBVIOUS
<1>1. policy \in [Session -> Policy]
  BY DEF Init, Inherited, Policy
<1>2. pin \in [Session -> Pin \cup {None}]
  BY AuthorizationAssumption DEF Init, Pin, IsChild, Life
<1>3. EvalTyped /\ AuditTyped
  BY DEF Init, EvalTyped, AuditTyped, Engaged, Step
<1>4. SessionTyped
  BY <1>1, <1>2 DEF Init, SessionTyped, Life
<1> QED
  BY <1>3, <1>4, TypedParts

\* Every variable keeps its type: resolutions, admissions and reactivations
\* never leave a row, a revision or a captured session of another shape.
THEOREM AuthorizationTyped == Spec => []TypeOK
<1>1. Init => Typed
  BY InitTyped
<1>2. Typed /\ [Next]_vars => Typed'
  BY StepTyped
<1>3. Typed => TypeOK
  BY DEF Typed
<1> QED
  BY <1>1, <1>2, <1>3, PTL DEF Spec
-----------------------------------------------------------------------------
(* What a step may do to the rows and to the verdicts in flight *)

\* What no step changes in a row, and a row a human resolved keeps it all.
RowsKept ==
  \A c \in made :
    /\ c \in made'
    /\ row'[c].ask = row[c].ask
    /\ row'[c].pol = row[c].pol
    /\ row'[c].verdict = row[c].verdict
    /\ row'[c].ref = row[c].ref
    /\ row[c].by = "user" => row'[c] = row[c]

\* No evaluation reaches its verdict in this step.
PlansKept ==
  \A e \in Evaluator : pc'[e] = "admit" =>
    pc[e] = "admit" /\ ask'[e] = ask[e] /\ plan'[e] = plan[e]

LEMMA LeaveKeeps ==
  ASSUME EvalTyped, NEW e \in Evaluator, Leave(e)
  PROVE  PlansKept
BY DEF EvalTyped, Leave, Goto, PlansKept

LEMMA GotoKeeps ==
  ASSUME EvalTyped, NEW e \in Evaluator, NEW step \in Step \ {"admit"}, Goto(e, step),
         \A f \in Evaluator \ {e} : ask'[f] = ask[f] /\ plan'[f] = plan[f]
  PROVE  PlansKept
BY DEF EvalTyped, Goto, PlansKept

LEMMA EvaluateShape ==
  ASSUME EvalTyped, NEW e \in Evaluator, Evaluate(e)
  PROVE  \/ PlansKept /\ UNCHANGED auditVars
         \/ \E raw \in Outcome, ref \in Call \cup {NoCall} : Assess(e, raw, ref)
         \/ \E c \in Call : Admit(e, c)
<1>1. ASSUME NEW r \in Ask, Begin(e, r)
      PROVE  PlansKept /\ UNCHANGED auditVars
  <2>1. /\ Goto(e, "read")
        /\ ask' = [ask EXCEPT ![e] = r]
        /\ UNCHANGED <<auditVars, plan>>
    BY <1>1 DEF Begin
  <2>2. \A f \in Evaluator \ {e} : ask'[f] = ask[f] /\ plan'[f] = plan[f]
    BY <2>1 DEF EvalTyped
  <2> QED
    BY <2>1, <2>2, GotoKeeps DEF Step
<1>2. ASSUME NEW step \in Step \ {"admit"}, Goto(e, step), UNCHANGED <<auditVars, ask, plan>>
      PROVE  PlansKept /\ UNCHANGED auditVars
  BY <1>2, GotoKeeps
<1>3. ASSUME Read(e) \/ Inherit(e) \/ Activate(e) \/ Fetch(e) \/ Resume(e) \/ Disown(e)
      PROVE  /\ \E step \in Step \ {"admit"} : Goto(e, step)
             /\ UNCHANGED <<auditVars, ask, plan>>
  <2>1. CASE Read(e)
    BY <2>1 DEF Read, Step
  <2>2. CASE Inherit(e)
    BY <2>2 DEF Inherit, Step
  <2>3. CASE Activate(e)
    BY <2>3 DEF Activate, Step
  <2>4. CASE Fetch(e)
    BY <2>4 DEF Fetch, Step
  <2>5. CASE Resume(e)
    BY <2>5 DEF Resume, Step
  <2>6. CASE Disown(e)
    BY <2>6 DEF Disown, Step
  <2> QED
    BY <1>3, <2>1, <2>2, <2>3, <2>4, <2>5, <2>6
<1>4. ASSUME Orphan(e) \/ GiveUp(e)
      PROVE  PlansKept /\ UNCHANGED auditVars
  BY <1>4, LeaveKeeps DEF Orphan, GiveUp
<1> QED
  BY <1>1, <1>2, <1>3, <1>4 DEF Evaluate

\* A step leaves the audit log and the verdicts alone, reaches a verdict,
\* admits a call or resolves a row.
LEMMA StepShape ==
  ASSUME EvalTyped, [Next]_vars
  PROVE  \/ PlansKept /\ UNCHANGED auditVars
         \/ \E e \in Evaluator, raw \in Outcome, ref \in Call \cup {NoCall} :
              Assess(e, raw, ref)
         \/ \E e \in Evaluator, c \in Call : Admit(e, c)
         \/ Resolve
<1>1. ASSUME Clients
      PROVE  UNCHANGED <<auditVars, evalVars>>
  BY <1>1 DEF Clients, PatchStatus, PatchPolicy, Evidence, SweepIdle, SweepChild
<1>2. ASSUME UNCHANGED evalVars
      PROVE  PlansKept
  BY <1>2 DEF PlansKept, evalVars
<1>3. CASE Clients
  BY <1>1, <1>2, <1>3
<1>4. CASE UNCHANGED vars
  BY <1>2, <1>4 DEF vars
<1>5. CASE \E e \in Evaluator : Evaluate(e)
  BY <1>5, EvaluateShape
<1> QED
  BY <1>3, <1>4, <1>5 DEF Next

LEMMA AdmitKeeps ==
  ASSUME AuditTyped, EvalTyped, NEW e \in Evaluator, NEW c \in Call, Admit(e, c)
  PROVE  RowsKept /\ PlansKept
<1>1. RowsKept
  BY AdmitWrites DEF AuditTyped, RowsKept
<1>2. PlansKept
  BY AdmitWrites, LeaveKeeps
<1> QED
  BY <1>1, <1>2

\* What a resolution writes, and when it may.
Resolves(c, by, decision, st) ==
  /\ c \in made
  /\ row' = [row EXCEPT ![c] = Resolved(c, by, decision, st)]
  /\ by \in {"judge", "user"}
  /\ st = stRev'[row[c].ask.session]
  /\ Resolvable(c)
  /\ decision = "approve" => MayApprove(c, by)
  /\ row[c].pol = polRev'[row[c].ask.session]
  /\ clock' = clock + 1
  /\ UNCHANGED <<made, evalVars>>

LEMMA ResolveShape ==
  ASSUME SessionTyped, AuditTyped, Resolve
  PROVE  \E c \in made, by \in {"judge", "user"}, decision \in {"approve", "deny"},
            st \in Nat : Resolves(c, by, decision, st)
<1>1. PICK c \in made, decision \in {"approve", "deny"} :
        (\E note \in BOOLEAN : Human(c, decision, note)) \/ Judge(c, decision)
  BY DEF Resolve
<1>2. row[c].ask.session \in Session /\ row[c].st \in Nat
  BY DEF AuditTyped, Row, Ask
<1>3. ASSUME NEW note \in BOOLEAN, Human(c, decision, note)
      PROVE  \E st \in Nat : Resolves(c, "user", decision, st)
  <2>1. PICK st \in Nat :
          /\ row' = [row EXCEPT ![c] = Resolved(c, "user", decision, st)]
          /\ stRev' = [stRev EXCEPT ![row[c].ask.session] = st]
          /\ clock' = clock + 1
          /\ UNCHANGED <<polRev, made, evalVars>>
    BY <1>3, HumanWrites
  <2>2. st = stRev'[row[c].ask.session]
    BY <1>2, <2>1 DEF SessionTyped
  <2>3. /\ Resolvable(c)
        /\ decision = "approve" => MayApprove(c, "user")
        /\ RowCurrent(c)
    BY <1>3 DEF Human
  <2> QED
    BY <2>1, <2>2, <2>3 DEF Resolves, RowCurrent
<1>4. ASSUME Judge(c, decision)
      PROVE  Resolves(c, "judge", decision, row[c].st)
  <2>1. /\ row' = [row EXCEPT ![c] = Resolved(c, "judge", decision, row[c].st)]
        /\ clock' = clock + 1
        /\ UNCHANGED <<polRev, stRev, made, evalVars>>
    BY <1>4, JudgeWrites DEF sessionVars
  <2>2. /\ Resolvable(c)
        /\ decision = "approve" => MayApprove(c, "judge")
        /\ RowCurrent(c)
    BY <1>4 DEF Judge
  <2> QED
    BY <2>1, <2>2 DEF Resolves, RowCurrent
<1> QED
  BY <1>1, <1>2, <1>3, <1>4

LEMMA ResolveKeeps ==
  ASSUME AuditTyped, NEW c, NEW by, NEW decision, NEW st, Resolves(c, by, decision, st)
  PROVE  /\ RowsKept /\ PlansKept
         /\ row'[c].by = by /\ row'[c].effect = decision /\ row'[c].st = st
         /\ \A d \in made \ {c} : row'[d] = row[d]
<1>1. c \in Call /\ row[c] \in Row /\ row \in [Call -> Row \cup {None}] /\ made \subseteq Call
  BY DEF AuditTyped, Resolves
<1>2. row'[c] = Resolved(c, by, decision, st)
  BY <1>1 DEF Resolves
<1>3. /\ row'[c].by = by /\ row'[c].effect = decision /\ row'[c].st = st
      /\ row'[c].ask = row[c].ask /\ row'[c].pol = row[c].pol
      /\ row'[c].verdict = row[c].verdict /\ row'[c].ref = row[c].ref
  BY <1>1, <1>2 DEF Resolved, Row
<1>4. \A d \in made \ {c} : row'[d] = row[d]
  BY <1>1 DEF Resolves
<1>5. row[c].by # "user" /\ made' = made
  BY DEF Resolves, Resolvable
<1>6. RowsKept
  BY <1>3, <1>4, <1>5 DEF RowsKept
<1>7. PlansKept
  BY DEF Resolves, PlansKept, evalVars
<1> QED
  BY <1>3, <1>4, <1>6, <1>7

LEMMA StepKeepsRows == Typed /\ [Next]_vars => RowsKept
<1> SUFFICES ASSUME SessionTyped, AuditTyped, EvalTyped, [Next]_vars
             PROVE  RowsKept
  BY TypedParts
<1>1. ASSUME UNCHANGED auditVars
      PROVE  RowsKept
  BY <1>1 DEF RowsKept, auditVars
<1>2. ASSUME NEW e \in Evaluator, NEW raw, NEW ref, Assess(e, raw, ref)
      PROVE  RowsKept
  BY <1>1, <1>2 DEF Assess
<1>3. CASE Resolve
  BY <1>3, ResolveShape, ResolveKeeps
<1> QED
  BY <1>1, <1>2, <1>3, AdmitKeeps, StepShape

\* No Judge that was asked before it and no second human changes what a human
\* decided on a row.
THEOREM HumanDecisionFinal == Spec => HumanFinal
<1>1. RowsKept => \A c \in made : row[c].by = "user" => row'[c] = row[c]
  BY DEF RowsKept
<1>2. Typed /\ [Next]_vars
      => [\A c \in made : row[c].by = "user" => row'[c] = row[c]]_vars
  BY <1>1, StepKeepsRows
<1> QED
  BY <1>2, InitTyped, StepTyped, PTL DEF Spec, HumanFinal

-----------------------------------------------------------------------------
(* The floors, one admission per logical call, receipts within their policy *)

\* A call admitted outright is still in effect.
EffectsHeld == \A c \in made : row[c].verdict = "approve" => row[c].effect = "approve"

\* A verdict on its way to admission respects the floors, and the approval it
\* relies on is one of the same action.
VerdictHeld(e) ==
  /\ plan[e].ref # NoCall => plan[e].ref \in made /\ Exact(plan[e].ref, ask[e])
  /\ plan[e].verdict = "approve" =>
       /\ FloorOf[ask[e].action] # "deny"
       /\ FloorOf[ask[e].action] = "human" => HumanGrant(plan[e].ref, ask[e])

VerdictsHeld == \A e \in Evaluator : pc[e] = "admit" => VerdictHeld(e)

\* A row is never ahead of its session, and level with it only under the policy
\* revision it was made for.
RevisionsHeld ==
  \A c \in made :
    LET s == row[c].ask.session
    IN  row[c].st <= stRev[s] /\ (row[c].st = stRev[s] => row[c].pol = polRev[s])

Held == /\ EffectsHeld /\ VerdictsHeld /\ RevisionsHeld
        /\ FloorsHeld /\ OneAdmission /\ ReceiptsStayInPolicy

LEMMA GrantKept ==
  ASSUME RowsKept, NEW ref, NEW r, HumanGrant(ref, r)
  PROVE  HumanGrant(ref, r)'
BY DEF RowsKept, HumanGrant, Exact, Approved

LEMMA VerdictsKept ==
  ASSUME RowsKept, PlansKept, VerdictsHeld
  PROVE  VerdictsHeld'
<1> SUFFICES ASSUME NEW e \in Evaluator, pc'[e] = "admit"
             PROVE  VerdictHeld(e)'
  BY DEF VerdictsHeld
<1>1. VerdictHeld(e) /\ ask'[e] = ask[e] /\ plan'[e] = plan[e]
  BY DEF PlansKept, VerdictsHeld
<1>2. plan[e].ref \in made /\ Exact(plan[e].ref, ask[e])
      => plan[e].ref \in made' /\ Exact(plan[e].ref, ask[e])'
  BY <1>1 DEF RowsKept, Exact
<1>3. HumanGrant(plan[e].ref, ask[e])
      => plan[e].ref \in made' /\ Exact(plan[e].ref, ask[e])' /\ Approved(plan[e].ref, "user")'
  BY <1>1, GrantKept DEF HumanGrant
<1> QED
  BY <1>1, <1>2, <1>3 DEF VerdictHeld, HumanGrant, Exact, Approved

LEMMA RevisionsKept ==
  ASSUME SessionTyped, SessionTyped', AuditTyped, Advance, RevisionsHeld, NEW c \in made,
         row'[c].ask = row[c].ask, row'[c].pol = row[c].pol, row'[c].st = row[c].st
  PROVE  LET s == row'[c].ask.session
         IN  row'[c].st <= stRev'[s] /\ (row'[c].st = stRev'[s] => row'[c].pol = polRev'[s])
<1> DEFINE s == row[c].ask.session
<1>1. row[c].st \in Nat /\ s \in Session
  BY DEF AuditTyped, Row, Ask
<1>2. stRev[s] \in Nat /\ stRev'[s] \in Nat
  BY <1>1 DEF SessionTyped
<1>3. stRev[s] <= stRev'[s] /\ (stRev'[s] = stRev[s] => polRev'[s] = polRev[s])
  BY <1>1 DEF Advance
<1>4. row[c].st <= stRev[s] /\ (row[c].st = stRev[s] => row[c].pol = polRev[s])
  BY DEF RevisionsHeld
<1> QED
  BY <1>1, <1>2, <1>3, <1>4

\* Nothing is written to the audit log.
LEMMA IdleHeld ==
  ASSUME SessionTyped, SessionTyped', AuditTyped, Advance, Held, UNCHANGED auditVars
  PROVE  /\ EffectsHeld' /\ RevisionsHeld' /\ FloorsHeld' /\ OneAdmission'
         /\ ReceiptsStayInPolicy'
<1>1. made' = made /\ row' = row
  BY DEF auditVars
<1>2. RevisionsHeld'
  BY <1>1, RevisionsKept DEF Held, RevisionsHeld
<1>3. EffectsHeld' /\ ReceiptsStayInPolicy'
  BY <1>1 DEF Held, EffectsHeld, ReceiptsStayInPolicy
<1>4. FloorsHeld' /\ OneAdmission'
  BY <1>1 DEF Held, FloorsHeld, Floor, HumanGrant, Exact, Approved, OneAdmission, SameLogical
<1> QED
  BY <1>2, <1>3, <1>4

LEMMA AssessHeld ==
  ASSUME EvalTyped, VerdictsHeld, NEW e \in Evaluator, NEW raw \in Outcome,
         NEW ref \in Call \cup {NoCall}, Assess(e, raw, ref)
  PROVE  VerdictsHeld'
<1> DEFINE human == ref # NoCall /\ Approved(ref, "user")
           verdict == Verdict(snap[e].policy, FloorOf[ask[e].action], raw, human)
<1>1. /\ ref \in Receipts(e) \cup {NoCall}
      /\ plan' = [plan EXCEPT ![e] = [verdict |-> verdict, ref |-> ref]]
      /\ Goto(e, "admit")
      /\ UNCHANGED <<sessionVars, auditVars, ask, snap>>
  BY DEF Assess
<1>2. ref # NoCall => ref \in made /\ Exact(ref, ask[e])
  BY <1>1 DEF Receipts, HumanReceipts, JudgeReceipts
<1>3. verdict = "approve" => /\ FloorOf[ask[e].action] # "deny"
                             /\ FloorOf[ask[e].action] = "human" => human
  BY DEF Verdict
<1> HIDE DEF verdict
<1>4. plan'[e].verdict = verdict /\ plan'[e].ref = ref
  BY <1>1 DEF EvalTyped
<1>5. made' = made /\ row' = row /\ ask' = ask
  BY <1>1 DEF auditVars
<1>6. VerdictHeld(e)'
  BY <1>2, <1>3, <1>4, <1>5 DEF VerdictHeld, HumanGrant, Exact, Approved
<1>7. ASSUME NEW f \in Evaluator \ {e}, pc'[f] = "admit"
      PROVE  VerdictHeld(f)'
  <2>1. pc[f] = "admit" /\ plan'[f] = plan[f]
    BY <1>1, <1>7 DEF EvalTyped, Goto
  <2> QED
    BY <1>5, <2>1 DEF VerdictsHeld, VerdictHeld, HumanGrant, Exact, Approved
<1> QED
  BY <1>6, <1>7 DEF VerdictsHeld

\* FloorsHeld, row by row.
Granted(c) == HumanGrant(row[c].ref, row[c].ask)

FloorHeld(c) == row[c].effect = "approve" =>
  /\ Floor(c) # "deny"
  /\ Floor(c) = "human" => row[c].by = "user" \/ Granted(c)

LEMMA FloorsParts == (FloorsHeld <=> \A c \in made : FloorHeld(c))
                     /\ (FloorsHeld' <=> \A c \in made' : FloorHeld(c)')
BY DEF FloorsHeld, FloorHeld, Granted

LEMMA FloorKept ==
  ASSUME RowsKept, FloorsHeld, NEW c \in made, row'[c] = row[c]
  PROVE  FloorHeld(c)'
<1>1. FloorHeld(c)
  BY FloorsParts
<1>2. Granted(c) => Granted(c)'
  BY DEF RowsKept, Granted, HumanGrant, Exact, Approved
<1> QED
  BY <1>1, <1>2 DEF FloorHeld, Floor

LEMMA AdmitHeld ==
  ASSUME SessionTyped, AuditTyped, EvalTyped, SessionTyped', AuditTyped', Advance, Held,
         NEW e \in Evaluator, NEW c \in Call, Admit(e, c)
  PROVE  Held'
<1> DEFINE r == ask[e]
           new == NewRow(e)
           ref == plan[e].ref
<1>1. /\ pc[e] = "admit" /\ c \notin made /\ made' = made \cup {c}
      /\ row' = [row EXCEPT ![c] = new]
      /\ UNCHANGED <<sessionVars, clock>>
  BY AdmitWrites
<1>2. r \in Ask /\ snap[e] \in Snapshot /\ plan[e] \in Plan /\ new \in Row
  BY <1>1, NewRowType DEF EvalTyped, Engaged
<1>3. row'[c] = new /\ \A d \in made : d # c /\ row'[d] = row[d]
  BY <1>1 DEF AuditTyped
<1>4. /\ new.ask = r /\ new.pol = snap[e].pol /\ new.st = stRev[r.session]
      /\ new.effect = new.verdict /\ new.by = "none" /\ new.ref = ref
      /\ new.verdict = "approve" => plan[e].verdict = "approve"
  BY DEF NewRow, Recorded
<1> HIDE DEF new
<1>5. /\ SessionHolds(r.session, snap[e])
      /\ RefHolds(ref, r.session, snap[e])
      /\ LogicalHolds(r, ref)
  BY DEF Admit
<1>6. VerdictHeld(e)
  BY <1>1 DEF Held, VerdictsHeld
<1>7. RowsKept /\ PlansKept
  BY AdmitKeeps
<1>8. VerdictsHeld'
  BY <1>7, VerdictsKept DEF Held
<1>9. EffectsHeld'
  BY <1>1, <1>3, <1>4 DEF Held, EffectsHeld
<1>10. RevisionsHeld'
  <2>1. snap[e].pol = polRev[r.session] /\ r.session \in Session
    BY <1>2, <1>5 DEF SessionHolds, Ask
  <2>2. /\ row'[c].st <= stRev'[row'[c].ask.session]
        /\ row'[c].pol = polRev'[row'[c].ask.session]
    BY <1>1, <1>3, <1>4, <2>1 DEF sessionVars, SessionTyped
  <2>3. ASSUME NEW d \in made
        PROVE  LET s == row'[d].ask.session
               IN  row'[d].st <= stRev'[s] /\ (row'[d].st = stRev'[s] => row'[d].pol = polRev'[s])
    BY <1>3, RevisionsKept DEF Held
  <2> QED
    BY <1>1, <2>2, <2>3 DEF RevisionsHeld
<1>11. FloorsHeld'
  <2>1. FloorHeld(c)'
    <3>1. row'[c].effect = "approve" =>
            /\ FloorOf[r.action] # "deny"
            /\ FloorOf[r.action] = "human" => HumanGrant(ref, r)
      BY <1>3, <1>4, <1>6 DEF VerdictHeld
    <3>2. HumanGrant(ref, r) => Granted(c)'
      BY <1>1, <1>3, <1>4 DEF HumanGrant, Granted, Exact, Approved
    <3> QED
      BY <1>3, <1>4, <3>1, <3>2 DEF FloorHeld, Floor
  <2>2. ASSUME NEW d \in made
        PROVE  FloorHeld(d)'
    BY <1>3, <1>7, FloorKept DEF Held
  <2> QED
    BY <1>1, <2>1, <2>2, FloorsParts
<1>12. OneAdmission'
  <2>1. ASSUME NEW d \in made, SameLogical(d, r)
        PROVE  /\ row[d].ask.action = r.action
               /\ ~(row[d].verdict = "approve")
    BY <1>5, <2>1 DEF LogicalHolds, Held, EffectsHeld
  <2>2. ASSUME NEW d \in made, SameLogical(c, row[d].ask)' \/ SameLogical(d, row[c].ask)'
        PROVE  SameLogical(d, r)
    BY <1>3, <1>4, <2>2 DEF SameLogical
  <2>3. ASSUME NEW d \in made, NEW b \in made, d # b, SameLogical(d, row[b].ask)'
        PROVE  /\ row[d].ask.action = row[b].ask.action
               /\ ~(row[d].verdict = "approve" /\ row[b].verdict = "approve")
    BY <1>3, <2>3 DEF Held, OneAdmission, SameLogical
  <2> QED
    BY <1>1, <1>3, <1>4, <2>1, <2>2, <2>3 DEF OneAdmission
<1>13. ReceiptsStayInPolicy'
  <2>1. ASSUME ref # NoCall
        PROVE  ref \in made /\ row[ref].pol = new.pol
    <3>1. ref \in made /\ row[ref].ask.session = r.session
      BY <1>6, <2>1 DEF VerdictHeld, Exact
    <3>2. row[ref].st = stRev[r.session]
      BY <1>5, <2>1 DEF RefHolds
    <3>3. row[ref].pol = polRev[r.session]
      BY <3>1, <3>2 DEF Held, RevisionsHeld
    <3> QED
      BY <1>4, <1>5, <3>1, <3>3 DEF SessionHolds
  <2> QED
    BY <1>1, <1>3, <1>4, <2>1 DEF Held, ReceiptsStayInPolicy
<1> QED
  BY <1>8, <1>9, <1>10, <1>11, <1>12, <1>13 DEF Held

LEMMA ResolveHeld ==
  ASSUME SessionTyped, AuditTyped, EvalTyped, SessionTyped', AuditTyped', Advance, Held,
         NEW c \in made, NEW by \in {"judge", "user"},
         NEW decision \in {"approve", "deny"}, NEW st \in Nat,
         Resolves(c, by, decision, st)
  PROVE  Held'
<1>1. /\ RowsKept /\ PlansKept
      /\ row'[c].by = by /\ row'[c].effect = decision /\ row'[c].st = st
      /\ \A d \in made \ {c} : row'[d] = row[d]
  BY ResolveKeeps
<1>2. made' = made
  BY DEF Resolves
<1>3. VerdictsHeld'
  BY <1>1, VerdictsKept DEF Held
<1>4. EffectsHeld'
  <2>1. row'[c].verdict # "approve"
    BY <1>1 DEF Resolves, Resolvable, RowsKept
  <2> QED
    BY <1>1, <1>2, <2>1 DEF Held, EffectsHeld
<1>5. RevisionsHeld'
  <2>1. row'[c].st = stRev'[row'[c].ask.session] /\ row'[c].pol = polRev'[row'[c].ask.session]
    BY <1>1 DEF Resolves, RowsKept
  <2>2. row'[c].st <= stRev'[row'[c].ask.session]
    BY <1>1, <2>1
  <2>3. ASSUME NEW d \in made \ {c}
        PROVE  LET s == row'[d].ask.session
               IN  row'[d].st <= stRev'[s] /\ (row'[d].st = stRev'[s] => row'[d].pol = polRev'[s])
    BY <1>1, RevisionsKept DEF Held
  <2> QED
    BY <1>2, <2>1, <2>2, <2>3 DEF RevisionsHeld
<1>6. FloorsHeld'
  <2>1. FloorHeld(c)'
    BY <1>1 DEF Resolves, MayApprove, RowsKept, FloorHeld, Floor
  <2>2. ASSUME NEW d \in made \ {c}
        PROVE  FloorHeld(d)'
    BY <1>1, FloorKept DEF Held
  <2> QED
    BY <1>2, <2>1, <2>2, FloorsParts
<1>7. OneAdmission' /\ ReceiptsStayInPolicy'
  BY <1>1, <1>2 DEF Held, OneAdmission, SameLogical, ReceiptsStayInPolicy, RowsKept
<1> QED
  BY <1>3, <1>4, <1>5, <1>6, <1>7 DEF Held

LEMMA StepHeld == Typed /\ Held /\ [Next]_vars => Held'
<1> SUFFICES ASSUME SessionTyped, AuditTyped, EvalTyped, SessionTyped', AuditTyped',
                    EvalTyped', Advance, Held, [Next]_vars
             PROVE  Held'
  BY TypedParts, StepTyped DEF Typed, TypeOK, SessionTyped, AuditTyped, EvalTyped
<1>1. CASE PlansKept /\ UNCHANGED auditVars
  <2>1. RowsKept
    BY <1>1 DEF RowsKept, auditVars
  <2>2. VerdictsHeld'
    BY <1>1, <2>1, VerdictsKept DEF Held
  <2> QED
    BY <1>1, <2>2, IdleHeld DEF Held
<1>2. ASSUME NEW e \in Evaluator, NEW raw \in Outcome, NEW ref \in Call \cup {NoCall},
             Assess(e, raw, ref)
      PROVE  Held'
  <2>1. UNCHANGED auditVars
    BY <1>2 DEF Assess
  <2>2. VerdictsHeld'
    BY <1>2, AssessHeld DEF Held
  <2> QED
    BY <2>1, <2>2, IdleHeld DEF Held
<1>3. CASE Resolve
  BY <1>3, ResolveShape, ResolveHeld
<1> QED
  BY <1>1, <1>2, <1>3, AdmitHeld, StepShape

LEMMA InitHeld == Init => Held
BY DEF Init, Held, EffectsHeld, VerdictsHeld, RevisionsHeld, FloorsHeld, OneAdmission,
       ReceiptsStayInPolicy

LEMMA AlwaysHeld == Spec => []Held
BY InitTyped, StepTyped, InitHeld, StepHeld, PTL DEF Spec

\* Whoever answers first, a call whose floor demands a human is in effect only
\* on a human's approval of that very action, and a denial floor always stands.
THEOREM FloorsAlwaysHeld == Spec => []FloorsHeld
<1>1. Held => FloorsHeld
  BY DEF Held
<1> QED
  BY <1>1, AlwaysHeld, PTL

\* A logical call is admitted outright at most once, and names one action.
THEOREM LogicalCallAdmittedOnce == Spec => []OneAdmission
<1>1. Held => OneAdmission
  BY DEF Held
<1> QED
  BY <1>1, AlwaysHeld, PTL

\* An approval never outlives the policy revision it was given under.
THEOREM ReceiptsInTheirPolicy == Spec => []ReceiptsStayInPolicy
<1>1. Held => ReceiptsStayInPolicy
  BY DEF Held
<1> QED
  BY <1>1, AlwaysHeld, PTL

-----------------------------------------------------------------------------
(* A human's no under an operator bound *)

Decided(c) == row[c].by = "user"

\* Nothing is dated after the present, and a human says yes or no.
DatesHeld ==
  \A c \in made :
    /\ row[c].at <= clock /\ row[c].born <= clock
    /\ Decided(c) => row[c].effect \in {"approve", "deny"}

\* Two human decisions are never of the same moment, ...
DatesApart ==
  \A c, d \in made : c # d /\ Decided(c) /\ Decided(d) => row[c].at # row[d].at

\* ... so that, of those on an action, one is the latest.
LatestOf(u, r) ==
  /\ u \in made /\ Exact(u, r) /\ Decided(u)
  /\ \A d \in made : Exact(d, r) /\ Decided(d) => row[d].at <= row[u].at

LatestHeld ==
  \A r \in Ask :
    (\E c \in made : Exact(c, r) /\ Decided(c)) => \E u \in made : LatestOf(u, r)

VetoInv == DatesHeld /\ DatesApart /\ LatestHeld /\ VetoStands

\* A later yes to the exact action, at hand when the row was born.
Overruled(c, d) ==
  \E u \in made : /\ Exact(u, row[c].ask) /\ Approved(u, "user")
                  /\ row[d].at < row[u].at /\ row[u].at <= row[c].born

\* VetoStands, by the pair of rows it is about.
StandsAgainst(c, d) ==
  /\ row[c].policy = "bound" /\ row[c].verdict = "approve"
  /\ Exact(d, row[c].ask) /\ Decided(d) /\ row[d].effect = "deny"
  /\ row[d].at <= row[c].born
  => Overruled(c, d)

LEMMA VetoParts == /\ VetoStands <=> \A c, d \in made : StandsAgainst(c, d)
                   /\ VetoStands' <=> \A c, d \in made' : StandsAgainst(c, d)'
BY DEF VetoStands, StandsAgainst, Overruled, Decided

LEMMA AdmitVeto ==
  ASSUME SessionTyped, AuditTyped, EvalTyped, VetoInv,
         NEW e \in Evaluator, NEW c \in Call, Admit(e, c)
  PROVE  VetoInv'
<1> DEFINE r == ask[e]
<1>1. /\ pc[e] = "admit" /\ c \notin made /\ made' = made \cup {c}
      /\ row' = [row EXCEPT ![c] = NewRow(e)] /\ clock' = clock
  BY AdmitWrites
<1>2. r \in Ask /\ clock \in Nat
  BY <1>1 DEF EvalTyped, Engaged, AuditTyped
<1>3. row'[c] = NewRow(e) /\ \A d \in made : d # c /\ row'[d] = row[d]
  BY <1>1 DEF AuditTyped
<1>4. /\ row'[c].ask = r /\ row'[c].policy = snap[e].policy
      /\ row'[c].by = "none" /\ row'[c].born = clock /\ row'[c].at = 0
      /\ row'[c].verdict = Recorded(r, snap[e], plan[e].verdict)
  BY <1>3 DEF NewRow
<1>5. ~Decided(c)' /\ \A d \in made : Decided(d)' <=> Decided(d)
  BY <1>3, <1>4 DEF Decided
<1>6. DatesHeld' /\ DatesApart'
  BY <1>1, <1>2, <1>3, <1>4, <1>5 DEF VetoInv, DatesHeld, DatesApart
<1>7. LatestHeld'
  BY <1>1, <1>3, <1>5 DEF VetoInv, LatestHeld, LatestOf, Exact
<1>8. ASSUME NEW d \in made
      PROVE  StandsAgainst(c, d)'
  <2>1. SUFFICES ASSUME row'[c].policy = "bound", row'[c].verdict = "approve",
                        Exact(d, r), Decided(d), row[d].effect = "deny"
                 PROVE  Overruled(c, d)'
    BY <1>3, <1>4, <1>5 DEF StandsAgainst, Exact
  <2>2. ~Vetoed(r)
    BY <1>4, <2>1 DEF Recorded
  <2>3. PICK u \in made : LatestOf(u, r)
    BY <1>2, <2>1 DEF VetoInv, LatestHeld
  <2>4. row[u].effect = "approve"
    BY <2>2, <2>3 DEF Vetoed, LatestOf, Decided, VetoInv, DatesHeld
  <2>5. row[d].at \in Nat /\ row[u].at \in Nat
    BY DEF AuditTyped, Row
  <2>6. row[d].at <= row[u].at /\ row[d].at # row[u].at /\ row[u].at <= clock
    BY <2>1, <2>3, <2>4 DEF LatestOf, VetoInv, DatesApart, DatesHeld
  <2>7. row[d].at < row[u].at
    BY <2>5, <2>6
  <2>8. u \in made' /\ Exact(u, row[c].ask)' /\ Approved(u, "user")'
    BY <1>1, <1>3, <1>4, <2>3, <2>4 DEF LatestOf, Exact, Decided, Approved
  <2> QED
    BY <1>3, <1>4, <2>6, <2>7, <2>8 DEF Overruled
<1>9. ASSUME NEW b \in made, NEW d \in made
      PROVE  StandsAgainst(b, d)'
  <2>1. StandsAgainst(b, d)
    BY VetoParts DEF VetoInv
  <2>2. Overruled(b, d) => Overruled(b, d)'
    BY <1>1, <1>3 DEF Overruled, Exact, Approved
  <2> QED
    BY <1>3, <2>1, <2>2 DEF StandsAgainst, Exact, Decided
<1>10. \A b \in made' : StandsAgainst(b, c)'
  BY <1>5 DEF StandsAgainst
<1> QED
  BY <1>1, <1>6, <1>7, <1>8, <1>9, <1>10, VetoParts DEF VetoInv

\* A resolution is dated after every row that exists.
LEMMA ResolveDates ==
  ASSUME AuditTyped, NEW c, NEW by, NEW decision, NEW st, Resolves(c, by, decision, st)
  PROVE  /\ row'[c].at = clock + 1 /\ row'[c].born = row[c].born
         /\ row'[c].policy = row[c].policy
<1>1. c \in Call /\ row[c] \in Row /\ row \in [Call -> Row \cup {None}]
  BY DEF AuditTyped, Resolves
<1>2. row'[c] = Resolved(c, by, decision, st)
  BY <1>1 DEF Resolves
<1> QED
  BY <1>1, <1>2 DEF Resolved, Row

LEMMA ResolveVeto ==
  ASSUME AuditTyped, VetoInv, NEW c \in made, NEW by \in {"judge", "user"},
         NEW decision \in {"approve", "deny"}, NEW st \in Nat,
         Resolves(c, by, decision, st)
  PROVE  VetoInv'
<1>1. /\ made' = made /\ clock' = clock + 1 /\ ~Decided(c)
  BY DEF Resolves, Resolvable, Decided
<1>2. /\ row'[c].by = by /\ row'[c].effect = decision /\ row'[c].at = clock + 1
      /\ row'[c].born = row[c].born /\ row'[c].policy = row[c].policy
      /\ row'[c].ask = row[c].ask /\ row'[c].verdict = row[c].verdict
      /\ \A d \in made \ {c} : row'[d] = row[d]
  BY ResolveKeeps, ResolveDates DEF RowsKept
<1>3. /\ clock \in Nat
      /\ \A d \in made : row[d].at \in Nat /\ row[d].born \in Nat
  BY DEF AuditTyped, Row
<1>4. \A d \in made : row[d].at <= clock /\ row[d].born <= clock
  BY DEF VetoInv, DatesHeld
<1>5. Decided(c)' <=> by = "user"
  BY <1>2 DEF Decided
<1>6. \A d \in made \ {c} : (Decided(d)' <=> Decided(d)) /\ row'[d].at < clock + 1
  BY <1>2, <1>3, <1>4 DEF Decided
<1>7. \A d \in made : row'[d].ask = row[d].ask
  BY <1>2
<1>8. DatesHeld'
  <2>1. \A d \in made : row'[d].at <= clock + 1 /\ row'[d].born <= clock + 1
    BY <1>2, <1>3, <1>4
  <2>2. \A d \in made : Decided(d)' => row'[d].effect \in {"approve", "deny"}
    BY <1>2, <1>6 DEF VetoInv, DatesHeld
  <2> QED
    BY <1>1, <2>1, <2>2 DEF DatesHeld
<1>9. DatesApart'
  <2>1. \A d \in made \ {c} : row'[d].at # row'[c].at
    BY <1>2, <1>3, <1>4
  <2> QED
    BY <1>1, <1>2, <1>6, <2>1 DEF VetoInv, DatesApart
<1>10. LatestHeld'
  <2>1. SUFFICES ASSUME NEW r \in Ask, NEW d \in made, Exact(d, r)', Decided(d)'
                 PROVE  \E u \in made : LatestOf(u, r)'
    BY <1>1 DEF LatestHeld
  <2>2. CASE by = "user" /\ Exact(c, r)'
    <3>1. \A b \in made : row'[b].at <= row'[c].at
      BY <1>2, <1>3, <1>4
    <3> QED
      BY <1>1, <1>5, <2>2, <3>1 DEF LatestOf
  <2>3. CASE ~(by = "user" /\ Exact(c, r)')
    <3>1. \A b \in made : Exact(b, r)' /\ Decided(b)' <=> Exact(b, r) /\ Decided(b)
      BY <1>1, <1>5, <1>6, <1>7, <2>3 DEF Exact
    <3>2. PICK u \in made : LatestOf(u, r)
      BY <2>1, <3>1 DEF VetoInv, LatestHeld
    <3>3. \A b \in made : Decided(b) => row'[b].at = row[b].at
      BY <1>1, <1>2
    <3> QED
      BY <1>1, <3>1, <3>2, <3>3 DEF LatestOf
  <2> QED
    BY <2>2, <2>3
<1>11. ASSUME NEW b \in made, NEW d \in made
       PROVE  StandsAgainst(b, d)'
  <2>1. StandsAgainst(b, d)
    BY VetoParts DEF VetoInv
  <2>2. Overruled(b, d) /\ d # c => Overruled(b, d)'
    <3>1. SUFFICES ASSUME d # c,
                          NEW u \in made, Exact(u, row[b].ask), Approved(u, "user"),
                          row[d].at < row[u].at, row[u].at <= row[b].born
                   PROVE  Overruled(b, d)'
      BY DEF Overruled
    <3>2. u # c
      BY <1>1, <3>1 DEF Decided, Approved
    <3>3. row'[u] = row[u] /\ row'[d] = row[d] /\ row'[b].born = row[b].born
      BY <1>2, <3>1, <3>2
    <3> QED
      BY <1>1, <1>7, <3>1, <3>3 DEF Overruled, Exact, Approved
  <2>3. CASE d = c
    <3>1. ~(row'[c].at <= row'[b].born)
      BY <1>2, <1>3, <1>4
    <3> QED
      BY <2>3, <3>1 DEF StandsAgainst
  <2>4. CASE d # c
    <3>1. row'[d] = row[d] /\ row'[b].policy = row[b].policy
          /\ row'[b].verdict = row[b].verdict /\ row'[b].born = row[b].born
      BY <1>2, <2>4
    <3> QED
      BY <1>7, <2>1, <2>2, <2>4, <3>1 DEF StandsAgainst, Exact, Decided
  <2> QED
    BY <2>3, <2>4
<1> QED
  BY <1>1, <1>8, <1>9, <1>10, <1>11, VetoParts DEF VetoInv

LEMMA StepVeto == Typed /\ VetoInv /\ [Next]_vars => VetoInv'
<1> SUFFICES ASSUME SessionTyped, AuditTyped, EvalTyped, VetoInv, [Next]_vars
             PROVE  VetoInv'
  BY TypedParts
<1>1. ASSUME UNCHANGED auditVars
      PROVE  VetoInv'
  BY <1>1 DEF auditVars, VetoInv, DatesHeld, DatesApart, LatestHeld, LatestOf, VetoStands,
     Exact, Decided, Approved
<1>2. ASSUME NEW e \in Evaluator, NEW raw, NEW ref, Assess(e, raw, ref)
      PROVE  VetoInv'
  BY <1>1, <1>2 DEF Assess
<1>3. CASE Resolve
  BY <1>3, ResolveShape, ResolveVeto
<1> QED
  BY <1>1, <1>2, <1>3, AdmitVeto, StepShape

\* Under an operator bound a human's no to an action stands until a human says
\* yes to it, whatever becomes of the policy and of the evidence meanwhile.
THEOREM VetoAlwaysStands == Spec => []VetoStands
<1>1. Init => VetoInv
  BY DEF Init, VetoInv, DatesHeld, DatesApart, LatestHeld, VetoStands
<1>2. VetoInv => VetoStands
  BY DEF VetoInv
<1> QED
  BY <1>1, <1>2, InitTyped, StepTyped, StepVeto, PTL DEF Spec

-----------------------------------------------------------------------------
(* A child's bound is its parent's *)

\* A bound that comes with the parent identity it was composed under.
BoundFrom(p, id) == p = "bound" => id \in Pin /\ id.policy = "bound"

SessionsBound == \A s \in Session : IsChild(s) => BoundFrom(policy[s], pin[s])

SnapBound(e) ==
  pc[e] \notin {"idle", "read"} /\ IsChild(ask[e].session)
  => BoundFrom(snap[e].policy, snap[e].pin)

ChildrenBound == SessionsBound /\ \A e \in Evaluator : SnapBound(e)

LEMMA StoreBound ==
  ASSUME SessionTyped, SessionsBound, NEW s \in Session, NEW local \in Policy,
         StorePolicy(s, local)
  PROVE  SessionsBound'
<1> DEFINE p == ParentOf[s]
           new == IF IsChild(s) THEN Inherited(policy[p], local) ELSE local
           id == IF IsChild(s) THEN Identity(p) ELSE None
<1>1. CASE UNCHANGED <<policy, source, polRev, stRev, pin>>
  BY <1>1 DEF SessionsBound, IsChild, BoundFrom
<1>2. CASE /\ policy' = [policy EXCEPT ![s] = new]
           /\ pin' = [pin EXCEPT ![s] = id]
  <2>1. IsChild(s) => id \in Pin /\ id.policy = policy[p] /\ (new = "bound" => policy[p] = "bound")
    BY IdentityType, AuthorizationAssumption DEF IsChild, Identity, Inherited
  <2> HIDE DEF new, id
  <2>2. policy'[s] = new /\ pin'[s] = id
    BY <1>2 DEF SessionTyped
  <2>3. \A d \in Session \ {s} : policy'[d] = policy[d] /\ pin'[d] = pin[d]
    BY <1>2 DEF SessionTyped
  <2> QED
    BY <2>1, <2>2, <2>3 DEF SessionsBound, IsChild, BoundFrom
<1> QED
  BY <1>1, <1>2 DEF StorePolicy

\* What becomes of the snapshots when a step captures none.
LEMMA SnapsKept ==
  ASSUME \A e \in Evaluator : SnapBound(e),
         \A e \in Evaluator : pc'[e] \notin {"idle", "read"} =>
           pc[e] \notin {"idle", "read"} /\ ask'[e] = ask[e] /\ snap'[e] = snap[e]
  PROVE  \A e \in Evaluator : SnapBound(e)'
BY DEF SnapBound, IsChild, BoundFrom

LEMMA CaptureBound ==
  ASSUME EvalTyped, SessionsBound, \A f \in Evaluator : SnapBound(f),
         NEW e \in Evaluator, pc[e] # "idle",
         Capture(e), NEW step \in Step, Goto(e, step), UNCHANGED <<sessionVars, ask>>
  PROVE  \A f \in Evaluator : SnapBound(f)'
<1> DEFINE s == ask[e].session
<1>1. s \in Session
  BY DEF EvalTyped, Engaged, Ask
<1>2. snap'[e].policy = policy[s] /\ snap'[e].pin = pin[s]
  BY DEF Capture, EvalTyped
<1>3. SnapBound(e)'
  BY <1>1, <1>2 DEF SnapBound, SessionsBound, IsChild
<1>4. ASSUME NEW f \in Evaluator \ {e}
      PROVE  SnapBound(f)'
  <2>1. pc'[f] = pc[f] /\ snap'[f] = snap[f] /\ ask'[f] = ask[f]
    BY DEF Capture, Goto, EvalTyped
  <2> QED
    BY <2>1 DEF SnapBound, IsChild, BoundFrom
<1> QED
  BY <1>3, <1>4

LEMMA PolicyIdle ==
  ASSUME SessionsBound, UNCHANGED <<policy, pin>>
  PROVE  SessionsBound'
BY DEF SessionsBound, BoundFrom, IsChild

LEMMA EvaluateBound ==
  ASSUME SessionTyped, EvalTyped, ChildrenBound, NEW e \in Evaluator, Evaluate(e)
  PROVE  ChildrenBound'
<1> USE DEF ChildrenBound
<1>1. ASSUME Leave(e), UNCHANGED sessionVars
      PROVE  ChildrenBound'
  <2>1. \A f \in Evaluator : pc'[f] \notin {"idle", "read"} =>
          pc[f] \notin {"idle", "read"} /\ ask'[f] = ask[f] /\ snap'[f] = snap[f]
    BY <1>1 DEF Leave, Goto, EvalTyped
  <2> QED
    BY <1>1, <2>1, SnapsKept, PolicyIdle DEF sessionVars
<1>2. ASSUME NEW step \in Step, Goto(e, step), UNCHANGED <<ask, snap>>,
             pc[e] \notin {"idle", "read"}, SessionsBound'
      PROVE  ChildrenBound'
  <2>1. \A f \in Evaluator : pc'[f] \notin {"idle", "read"} =>
          pc[f] \notin {"idle", "read"} /\ ask'[f] = ask[f] /\ snap'[f] = snap[f]
    BY <1>2 DEF Goto, EvalTyped
  <2> QED
    BY <1>2, <2>1, SnapsKept
<1>3. ASSUME NEW r \in Ask, Begin(e, r)
      PROVE  ChildrenBound'
  <2>1. \A f \in Evaluator : pc'[f] \notin {"idle", "read"} =>
          pc[f] \notin {"idle", "read"} /\ ask'[f] = ask[f] /\ snap'[f] = snap[f]
    BY <1>3 DEF Begin, Goto, EvalTyped
  <2> QED
    BY <1>3, <2>1, SnapsKept, PolicyIdle DEF Begin, sessionVars
<1>4. CASE Read(e) \/ Fetch(e)
  <2>1. pc[e] # "idle" /\ Capture(e) /\ UNCHANGED <<sessionVars, ask>>
    BY <1>4 DEF Read, Fetch
  <2>2. \E step \in Step : Goto(e, step)
    BY <1>4 DEF Read, Fetch, Step
  <2> QED
    BY <2>1, <2>2, CaptureBound, PolicyIdle DEF sessionVars
<1>5. CASE Inherit(e) \/ Disown(e)
  <2>1. UNCHANGED <<sessionVars, ask, snap>> /\ pc[e] \notin {"idle", "read"}
    BY <1>5 DEF Inherit, Disown, Assessing
  <2>2. \E step \in Step : Goto(e, step)
    BY <1>5 DEF Inherit, Disown, Step
  <2> QED
    BY <1>2, <2>1, <2>2, PolicyIdle DEF sessionVars
<1>6. CASE Activate(e)
  <2>1. /\ StorePolicy(ask[e].session, snap[e].source)
        /\ Goto(e, "fetch") /\ UNCHANGED <<ask, snap>> /\ pc[e] = "activate"
    BY <1>6 DEF Activate
  <2>2. ask[e].session \in Session /\ snap[e].source \in Policy
    BY <2>1 DEF EvalTyped, Engaged, Ask, Snapshot
  <2> QED
    BY <1>2, <2>1, <2>2, StoreBound DEF Step
<1>7. CASE Resume(e)
  <2>1. UNCHANGED <<policy, pin, ask, snap>> /\ pc[e] = "opened" /\ Goto(e, "resumed")
    BY <1>7 DEF Resume
  <2> QED
    BY <1>2, <2>1, PolicyIdle DEF Step
<1>8. CASE Orphan(e)
  <2>1. Leave(e) /\ UNCHANGED <<policy, pin>>
    BY <1>8 DEF Orphan
  <2>2. \A f \in Evaluator : pc'[f] \notin {"idle", "read"} =>
          pc[f] \notin {"idle", "read"} /\ ask'[f] = ask[f] /\ snap'[f] = snap[f]
    BY <2>1 DEF Leave, Goto, EvalTyped
  <2> QED
    BY <2>1, <2>2, SnapsKept, PolicyIdle
<1>9. ASSUME NEW raw, NEW ref, Assess(e, raw, ref)
      PROVE  ChildrenBound'
  <2>1. /\ UNCHANGED <<policy, pin, ask, snap>> /\ Goto(e, "admit")
        /\ pc[e] \notin {"idle", "read"}
    BY <1>9 DEF Assess, Assessing, sessionVars
  <2> QED
    BY <1>2, <2>1, PolicyIdle DEF Step
<1>10. ASSUME (\E c \in Call : Admit(e, c)) \/ GiveUp(e)
       PROVE  ChildrenBound'
  BY <1>1, <1>10 DEF Admit, GiveUp
<1> QED
  BY <1>3, <1>4, <1>5, <1>6, <1>7, <1>8, <1>9, <1>10 DEF Evaluate

LEMMA StepBound == Typed /\ ChildrenBound /\ [Next]_vars => ChildrenBound'
<1> SUFFICES ASSUME SessionTyped, AuditTyped, EvalTyped, ChildrenBound, [Next]_vars
             PROVE  ChildrenBound'
  BY TypedParts
<1>1. ASSUME UNCHANGED evalVars, SessionsBound'
      PROVE  ChildrenBound'
  BY <1>1, SnapsKept DEF evalVars, ChildrenBound
<1>2. ASSUME UNCHANGED <<policy, pin, evalVars>>
      PROVE  ChildrenBound'
  BY <1>1, <1>2, PolicyIdle DEF ChildrenBound
<1>3. ASSUME NEW s \in Session, NEW p \in Policy, PatchPolicy(s, p)
      PROVE  ChildrenBound'
  BY <1>1, <1>3, StoreBound DEF PatchPolicy, ChildrenBound
<1>4. CASE Clients
  <2>1. PICK s \in Session :
          \/ \E l \in Life : PatchStatus(s, l)
          \/ \E p \in Policy : PatchPolicy(s, p)
          \/ Evidence(s) \/ SweepIdle(s) \/ SweepChild(s)
    BY <1>4 DEF Clients
  <2> QED
    BY <1>2, <1>3, <2>1 DEF PatchStatus, Evidence, SweepIdle, SweepChild
<1>5. CASE Resolve
  <2>1. ASSUME NEW c, NEW decision, NEW note, Human(c, decision, note)
        PROVE  UNCHANGED <<policy, pin, evalVars>>
    BY <2>1 DEF Human
  <2>2. ASSUME NEW c, NEW decision, Judge(c, decision)
        PROVE  UNCHANGED <<policy, pin, evalVars>>
    BY <2>2 DEF Judge, sessionVars
  <2>3. UNCHANGED <<policy, pin, evalVars>>
    BY Zenon, <1>5, <2>1, <2>2 DEF Resolve
  <2> QED
    BY <1>2, <2>3
<1>6. CASE UNCHANGED vars
  BY <1>2, <1>6 DEF vars, sessionVars
<1> QED
  BY <1>4, <1>5, <1>6, EvaluateBound DEF Next

LEMMA InitBound == Init => ChildrenBound
<1> SUFFICES ASSUME Init PROVE ChildrenBound
  OBVIOUS
<1>1. ASSUME NEW s \in Session, IsChild(s)
      PROVE  BoundFrom(policy[s], pin[s])
  <2>1. pin[s] \in Pin \cup {None}
    BY InitTyped, <1>1 DEF Typed, TypeOK
  <2>2. pin[s] = [policy |-> source[ParentOf[s]], pol |-> 1, st |-> 1, life |-> "active"]
    BY <1>1 DEF Init
  <2>3. ParentOf[s] \in Session /\ source[ParentOf[s]] \in Policy
    BY <1>1, AuthorizationAssumption DEF Init, IsChild
  <2>4. pin[s] \in Pin /\ pin[s].policy = source[ParentOf[s]]
    BY <2>2, <2>3 DEF Pin, Life
  <2>5. policy[s] = Inherited(source[ParentOf[s]], source[s])
    BY <1>1 DEF Init
  <2> QED
    BY <2>4, <2>5 DEF BoundFrom, Inherited
<1>2. \A e \in Evaluator : pc[e] = "idle"
  BY DEF Init
<1> QED
  BY <1>1, <1>2 DEF ChildrenBound, SessionsBound, SnapBound

LEMMA HumanKeepsMade ==
  ASSUME NEW c, NEW decision, NEW note, Human(c, decision, note)
  PROVE  made' = made
BY Zenon DEF Human

LEMMA JudgeKeepsMade ==
  ASSUME NEW c, NEW decision, Judge(c, decision)
  PROVE  made' = made
BY Zenon DEF Judge

\* A child's call is admitted only while its parent may work, and under a bound
\* only while the parent still has it.
THEOREM ChildStaysWithinParent == Spec => ChildGrantWithinParent
<1> DEFINE Within ==
      \A c \in made' \ made :
        LET p == ParentOf[row'[c].ask.session]
        IN  p # NoSession /\ row'[c].verdict = "approve" =>
              /\ life[p] \notin Dead
              /\ row'[c].policy = "bound" => policy[p] = "bound"
<1>1. ASSUME Typed, ChildrenBound, NEW e \in Evaluator, NEW c \in Call, Admit(e, c)
      PROVE  Within
  <2>1. pc[e] = "admit" /\ made' = made \cup {c} /\ row' = [row EXCEPT ![c] = NewRow(e)]
    BY <1>1, AdmitWrites
  <2>2. row'[c] = NewRow(e)
    BY <1>1, <2>1 DEF Typed, TypeOK
  <2>3. row'[c].ask = ask[e] /\ row'[c].policy = snap[e].policy
    BY <2>2 DEF NewRow
  <2>4. IsChild(ask[e].session) =>
          /\ life[ParentOf[ask[e].session]] \notin Dead
          /\ snap[e].pin = Identity(ParentOf[ask[e].session])
    BY <1>1 DEF Admit, ParentHolds
  <2>5. IsChild(ask[e].session) => BoundFrom(snap[e].policy, snap[e].pin)
    BY <1>1, <2>1 DEF ChildrenBound, SnapBound
  <2> QED
    BY <2>1, <2>3, <2>4, <2>5 DEF IsChild, BoundFrom, Identity
<1>2. ASSUME made' = made
      PROVE  Within
  BY <1>2
<1>3. ASSUME NEW e \in Evaluator, NEW raw, NEW ref, Assess(e, raw, ref)
      PROVE  made' = made
  BY <1>3 DEF Assess, auditVars
<1>4. ASSUME Resolve
      PROVE  made' = made
  <2>1. ASSUME NEW c \in made, NEW decision, NEW note, Human(c, decision, note)
        PROVE  made' = made
    BY <2>1, HumanKeepsMade
  <2>2. ASSUME NEW c \in made, NEW decision, Judge(c, decision)
        PROVE  made' = made
    BY <2>2, JudgeKeepsMade
  <2> QED
    BY <1>4, <2>1, <2>2, Zenon DEF Resolve
<1>5. ASSUME UNCHANGED auditVars
      PROVE  made' = made
  BY <1>5 DEF auditVars
<1> HIDE DEF Within
<1>6. Typed /\ ChildrenBound /\ [Next]_vars => [Within]_vars
  BY <1>1, <1>2, <1>3, <1>4, <1>5, TypedParts, StepShape
<1> USE DEF Within
<1> QED
  BY <1>6, InitTyped, StepTyped, InitBound, StepBound, PTL DEF Spec, ChildGrantWithinParent
=============================================================================
