--------------------------- MODULE Authorization ---------------------------
(***************************************************************************)
(* Hybrid authorization of tool calls: what an evaluation reads of its      *)
(* session (evaluator.py, session.py), the verdict it reaches               *)
(* (hybrid_runtime.py), the transaction that admits it under the session    *)
(* revisions (audit.py, AuditStore.insert), the human and Judge resolutions *)
(* of the row it leaves (AuditStore.resolve_escalation), and the delegated  *)
(* policy of a child session (policy_inheritance.py).                       *)
(*                                                                          *)
(* One action is one database transaction, or one read an evaluation makes  *)
(* between two of them.  A policy is abstracted to the one field that       *)
(* changes the protocol, maximum_outcome = approve ("bound"); policy_hash   *)
(* is then the policy itself.  The outcome of rules, model and Judge is any *)
(* outcome.  An error response leaves no trace, so every refusal, timeout   *)
(* and crash of an evaluation is GiveUp.                                    *)
(***************************************************************************)
EXTENDS Naturals, FiniteSets

CONSTANTS
  Session,      \* sessions of one tenant
  ParentOf,     \* parent_session_id, or NoSession
  Action,       \* exact actions: tool and args_hash under one mode
  FloorOf,      \* what a call of the action demands before it may run
  Logical,      \* logical_call_id values that clients supply
  Call,         \* call_id values, one per audit row ever inserted
  Evaluator,    \* concurrent evaluations
  NoSession, NoLogical, NoCall, None,
  MaxRevision   \* bound: environment writes stop at this state_revision

Life    == {"active", "idle", "completed", "suspended", "terminated"}
Dead    == {"suspended", "terminated"}
Stopped == Dead \cup {"completed"}
Policy  == {"judged", "bound"}
Outcome == {"approve", "escalate", "deny"}

\* A "human" floor is minimum_outcome = escalate or a require_approval rule,
\* a "deny" floor is minimum_outcome = deny.  Ancestry is one level deep.
ASSUME AuthorizationAssumption ==
  /\ ParentOf \in [Session -> Session \cup {NoSession}]
  /\ NoSession \notin Session
  /\ \A s \in Session : ParentOf[s] # NoSession => ParentOf[ParentOf[s]] = NoSession
  /\ FloorOf \in [Action -> {"none", "human", "deny"}]
  /\ NoLogical \notin Logical
  /\ NoCall \notin Call
  /\ MaxRevision \in [Session -> Nat]

VARIABLES
  life,     \* sessions.status
  policy,   \* sessions.policy, as composed with the parent's
  source,   \* sessions.policy_source, what the child itself asks for
  polRev,   \* sessions.policy_revision
  stRev,    \* sessions.state_revision
  pin,      \* sessions.parent_policy_hash
  killed,   \* history: the last status a client set was terminated
  made,     \* the call_ids that have an audit row
  row,      \* audit_log
  clock,    \* resolved_at: resolutions so far
  pc,       \* where each evaluation is
  ask,      \* the request it answers
  snap,     \* the session it captured
  plan      \* the verdict it reached and the approval it relies on

sessionVars == <<life, policy, source, polRev, stRev, pin, killed>>
auditVars   == <<made, row, clock>>
evalVars    == <<pc, ask, snap, plan>>
vars == <<sessionVars, auditVars, evalVars>>

IsChild(s) == ParentOf[s] # NoSession

Pin == [policy : Policy, pol : Nat, st : Nat, life : Life]

Ask == [session : Session, action : Action, logical : Logical \cup {NoLogical}]

Snapshot == [life : Life, policy : Policy, source : Policy, pol : Nat, st : Nat,
             pin : Pin \cup {None}]

Plan == [verdict : Outcome, ref : Call \cup {NoCall}]

\* by is resolved_by, effect is effective_decision, ref is approval_reference;
\* born is the clock at insertion, at the clock of the resolution.
Row == [ask : Ask, policy : Policy, pol : Nat, st : Nat, verdict : Outcome,
        effect : Outcome, by : {"none", "judge", "user"},
        ref : Call \cup {NoCall}, born : Nat, at : Nat]

Step == {"idle", "read", "inherit", "activate", "fetch", "opened", "resumed",
         "assess", "orphan", "admit"}

TypeOK ==
  /\ life \in [Session -> Life]
  /\ policy \in [Session -> Policy]
  /\ source \in [Session -> Policy]
  /\ polRev \in [Session -> Nat]
  /\ stRev \in [Session -> Nat]
  /\ pin \in [Session -> Pin \cup {None}]
  /\ killed \in [Session -> BOOLEAN]
  /\ made \in SUBSET Call
  /\ row \in [Call -> Row \cup {None}]
  /\ \A c \in made : row[c] \in Row
  /\ clock \in Nat
  /\ pc \in [Evaluator -> Step]
  /\ ask \in [Evaluator -> Ask \cup {None}]
  /\ snap \in [Evaluator -> Snapshot \cup {None}]
  /\ plan \in [Evaluator -> Plan \cup {None}]

-----------------------------------------------------------------------------
(* Sessions *)

\* authorization_identity of a session that has no parent.
Identity(s) == [policy |-> policy[s], pol |-> polRev[s], st |-> stRev[s],
                life |-> life[s]]

\* What a child may have of its parent's maximum_outcome.
Inherited(p, local) == IF p = "bound" /\ local = "bound" THEN "bound" ELSE "judged"

\* Sessions are created active with a policy; a child pins its parent.
Init ==
  /\ life = [s \in Session |-> "active"]
  /\ source \in [Session -> Policy]
  /\ policy = [s \in Session |-> IF IsChild(s)
                                 THEN Inherited(source[ParentOf[s]], source[s])
                                 ELSE source[s]]
  /\ polRev = [s \in Session |-> 1]
  /\ stRev = [s \in Session |-> 1]
  /\ pin = [s \in Session |-> IF IsChild(s)
                              THEN [policy |-> source[ParentOf[s]], pol |-> 1,
                                    st |-> 1, life |-> "active"]
                              ELSE None]
  /\ killed = [s \in Session |-> FALSE]
  /\ made = {}
  /\ row = [c \in Call |-> None]
  /\ clock = 0
  /\ pc = [e \in Evaluator |-> "idle"]
  /\ ask = [e \in Evaluator |-> None]
  /\ snap = [e \in Evaluator |-> None]
  /\ plan = [e \in Evaluator |-> None]

\* SessionStore.update_status: any status replaces any status.
SetStatus(s, l) ==
  /\ life' = [life EXCEPT ![s] = l]
  /\ stRev' = [stRev EXCEPT ![s] = @ + 1]

\* PATCH /session/{id}/status.
PatchStatus(s, l) ==
  /\ stRev[s] < MaxRevision[s]
  /\ SetStatus(s, l)
  /\ killed' = [killed EXCEPT ![s] = l = "terminated"]
  /\ UNCHANGED <<policy, source, polRev, pin, auditVars, evalVars>>

\* Mutant: a policy write leaves state_revision alone.
ReviseOnlyPolicy(s) ==
  /\ polRev' = [polRev EXCEPT ![s] = @ + 1]
  /\ UNCHANGED stRev

\* Every policy write moves both revisions.
Revise(s) ==
  /\ polRev' = [polRev EXCEPT ![s] = @ + 1]
  /\ stRev' = [stRev EXCEPT ![s] = @ + 1]

\* Store a local policy, composed with the parent's; an unchanged one is kept.
\* Both revisions and the parent are compared in the same UPDATE.
StorePolicy(s, local) ==
  LET p == ParentOf[s]
      new == IF IsChild(s) THEN Inherited(policy[p], local) ELSE local
      id == IF IsChild(s) THEN Identity(p) ELSE None
  IN  /\ IsChild(s) => life[p] \notin Dead
      /\ IF policy[s] = new /\ pin[s] = id /\ source[s] = local
         THEN UNCHANGED <<policy, source, polRev, stRev, pin>>
         ELSE /\ policy' = [policy EXCEPT ![s] = new]
              /\ source' = [source EXCEPT ![s] = local]
              /\ pin' = [pin EXCEPT ![s] = id]
              /\ Revise(s)

\* PATCH /session/{id} with a policy.
PatchPolicy(s, local) ==
  /\ stRev[s] < MaxRevision[s]
  /\ StorePolicy(s, local)
  /\ UNCHANGED <<life, killed, auditVars, evalVars>>

\* A user message, a generated intention, an alignment result or a human
\* decision on a row outside this model: only state_revision moves.
Evidence(s) ==
  /\ stRev[s] < MaxRevision[s]
  /\ stRev' = [stRev EXCEPT ![s] = @ + 1]
  /\ UNCHANGED <<life, policy, source, polRev, pin, killed, auditVars, evalVars>>

\* sweep_idle_sessions: not while a child is active or idle.
SweepIdle(s) ==
  /\ stRev[s] < MaxRevision[s]
  /\ life[s] = "active"
  /\ \A d \in Session : ParentOf[d] = s => life[d] \notin {"active", "idle"}
  /\ SetStatus(s, "idle")
  /\ UNCHANGED <<policy, source, polRev, pin, killed, auditVars, evalVars>>

\* sweep_child_sessions.
SweepChild(s) ==
  /\ stRev[s] < MaxRevision[s]
  /\ IsChild(s)
  /\ life[s] = "idle"
  /\ SetStatus(s, "completed")
  /\ UNCHANGED <<policy, source, polRev, pin, killed, auditVars, evalVars>>

-----------------------------------------------------------------------------
(* An evaluation, up to its verdict *)

Goto(e, step) == pc' = [pc EXCEPT ![e] = step]

Leave(e) ==
  /\ Goto(e, "idle")
  /\ ask' = [ask EXCEPT ![e] = None]
  /\ snap' = [snap EXCEPT ![e] = None]
  /\ plan' = [plan EXCEPT ![e] = None]

Capture(e) ==
  LET s == ask[e].session
  IN  snap' = [snap EXCEPT ![e] =
                 [life |-> life[s], policy |-> policy[s], source |-> source[s],
                  pol |-> polRev[s], st |-> stRev[s], pin |-> pin[s]]]

\* The first read: a stopped session is denied on a row no receipt can match.
Begin(e, r) ==
  /\ pc[e] = "idle"
  /\ made # Call
  /\ life[r.session] \notin Stopped
  /\ ask' = [ask EXCEPT ![e] = r]
  /\ Goto(e, "read")
  /\ UNCHANGED <<sessionVars, auditVars, snap, plan>>

\* refresh_inherited_policy reads the session it will return or reactivate.
Read(e) ==
  /\ pc[e] = "read"
  /\ Capture(e)
  /\ Goto(e, IF IsChild(ask[e].session) THEN "inherit" ELSE "opened")
  /\ UNCHANGED <<sessionVars, auditVars, ask, plan>>

\* ... then its parent, and compares the identity the child has pinned.
Inherit(e) ==
  LET p == ParentOf[ask[e].session]
  IN  /\ pc[e] = "inherit"
      /\ Goto(e, IF life[p] \in Dead THEN "orphan"
                 ELSE IF snap[e].pin = Identity(p) THEN "opened" ELSE "activate")
      /\ UNCHANGED <<sessionVars, auditVars, ask, snap, plan>>

\* A stale child is activated again from the source that Read saw.
Activate(e) ==
  /\ pc[e] = "activate"
  /\ StorePolicy(ask[e].session, snap[e].source)
  /\ Goto(e, "fetch")
  /\ UNCHANGED <<life, killed, auditVars, ask, snap, plan>>

\* The session is read back after Activate and after Resume; only after
\* Activate is its status looked at again.
Fetch(e) ==
  /\ pc[e] \in {"fetch", "resumed"}
  /\ Capture(e)
  /\ Goto(e, IF pc[e] = "fetch" THEN "opened" ELSE "assess")
  /\ UNCHANGED <<sessionVars, auditVars, ask, plan>>

\* An idle session is resumed whatever its status has become meanwhile.
Resume(e) ==
  /\ pc[e] = "opened"
  /\ snap[e].life = "idle"
  /\ SetStatus(ask[e].session, "active")
  /\ Goto(e, "resumed")
  /\ UNCHANGED <<policy, source, polRev, pin, killed, auditVars, ask, snap, plan>>

Assessing(e) == pc[e] = "assess" \/ (pc[e] = "opened" /\ snap[e].life = "active")

\* A parent found stopped while reactivating, or once more before assessing.
Disown(e) ==
  /\ pc[e] = "activate" \/ Assessing(e)
  /\ IsChild(ask[e].session)
  /\ life[ParentOf[ask[e].session]] \in Dead
  /\ Goto(e, "orphan")
  /\ UNCHANGED <<sessionVars, auditVars, ask, snap, plan>>

\* _deny_inactive_parent suspends the child and denies the call.
Orphan(e) ==
  /\ pc[e] = "orphan"
  /\ SetStatus(ask[e].session, "suspended")
  /\ Leave(e)
  /\ UNCHANGED <<policy, source, polRev, pin, killed, auditVars>>

-----------------------------------------------------------------------------
(* Approvals and the verdict *)

\* The same session, tool and args_hash.
Exact(c, r) == row[c].ask.session = r.session /\ row[c].ask.action = r.action

Approved(c, by) == row[c].by = by /\ row[c].effect = "approve"

\* A receipt counts under the revision and the policy it was given for.
Current(c, e) == row[c].st = snap[e].st /\ row[c].policy = snap[e].policy

\* A human approval, named by the request or found by find_hybrid_approval.
HumanReceipts(e) ==
  {c \in made : Exact(c, ask[e]) /\ Approved(c, "user") /\ Current(c, e)}

\* A Judge approval counts only as the latest approval of the exact action.
JudgeReceipts(e) ==
  {c \in made : /\ Exact(c, ask[e]) /\ Approved(c, "judge") /\ Current(c, e)
                /\ \A d \in made : (/\ Exact(d, ask[e]) /\ row[d].by # "none"
                                    /\ row[d].effect = "approve")
                                   => row[d].at <= row[c].at}

Receipts(e) ==
  IF snap[e].policy = "bound" THEN HumanReceipts(e)
  ELSE HumanReceipts(e) \cup JudgeReceipts(e)

\* Mutant: an outcome that still needs its assessment is not refused.
VerdictUnassessed(p, floor, raw, human) ==
  IF floor = "deny" THEN "deny" ELSE "needs_assessment"

\* finalize_result: rules, model and stored assessment say raw; human tells
\* whether a human approval of the exact action is at hand.
Verdict(p, floor, raw, human) ==
  LET capped == IF p = "bound" THEN "approve" ELSE raw
  IN  IF floor = "deny" \/ capped = "deny" THEN "deny"
      ELSE IF human THEN "approve"
      ELSE IF floor = "human" THEN "escalate"
      ELSE capped

\* Without a receipt in ref: none is found within ten minutes, or the task
\* context of a Judge receipt has moved on.
Assess(e, raw, ref) ==
  LET a == ask[e].action
      human == ref # NoCall /\ Approved(ref, "user")
  IN  /\ Assessing(e)
      /\ IsChild(ask[e].session) => life[ParentOf[ask[e].session]] \notin Dead
      /\ ref \in Receipts(e) \cup {NoCall}
      /\ plan' = [plan EXCEPT ![e] =
                    [verdict |-> Verdict(snap[e].policy, FloorOf[a], raw, human),
                     ref |-> ref]]
      /\ Goto(e, "admit")
      /\ UNCHANGED <<sessionVars, auditVars, ask, snap>>

-----------------------------------------------------------------------------
(* Admission: AuditStore.insert with an admission_snapshot *)

\* Mutant: only the parent's lifecycle is looked at.
ParentAlive(s, captured) ==
  IsChild(s) => life[ParentOf[s]] \notin Dead

\* validate_parent_chain, against the identity the snapshot has pinned.
ParentHolds(s, captured) ==
  IsChild(s) => /\ life[ParentOf[s]] \notin Dead
                /\ captured.pin = Identity(ParentOf[s])

\* The no-op UPDATE that locks the session; a bound call may be overtaken by
\* new evidence and by lifecycle changes.
SessionHolds(s, captured) ==
  /\ polRev[s] = captured.pol
  /\ captured.policy = "bound" \/ (stRev[s] = captured.st /\ life[s] = "active")

\* Mutant: a later resolution by anybody clears a human's denial.
VetoedLately(r) ==
  \E c \in made :
    /\ Exact(c, r) /\ row[c].by = "user" /\ row[c].effect = "deny"
    /\ \A d \in made : Exact(d, r) /\ row[d].by # "none" => row[d].at <= row[c].at

\* The latest human decision on the exact action is a denial.
Vetoed(r) ==
  \E c \in made :
    /\ Exact(c, r) /\ row[c].by = "user" /\ row[c].effect = "deny"
    /\ \A d \in made : Exact(d, r) /\ row[d].by = "user" => row[d].at <= row[c].at

\* The verdict as it is recorded under the lock.
Recorded(r, captured, verdict) ==
  IF captured.policy = "bound" /\ (life[r.session] # "active" \/ Vetoed(r))
  THEN "deny" ELSE verdict

\* The approval the verdict relies on still stands, at the current revision.
RefHolds(ref, s, captured) ==
  ref # NoCall => /\ row[ref].by # "none" /\ row[ref].effect = "approve"
                  /\ row[ref].st = stRev[s]
                  /\ row[ref].policy = captured.policy

SameLogical(c, r) ==
  /\ r.logical # NoLogical
  /\ row[c].ask.session = r.session
  /\ row[c].ask.logical = r.logical

\* Mutant: earlier admissions of the logical call are not looked at.
LogicalSameAction(r, ref) ==
  \A c \in made : SameLogical(c, r) => row[c].ask.action = r.action

\* A logical call names one action, and is admitted again only on the
\* approval of the escalation it left before.
LogicalHolds(r, ref) ==
  \A c \in made : SameLogical(c, r) =>
    /\ row[c].ask.action = r.action
    /\ row[c].effect = "approve" => row[c].verdict = "escalate" /\ c = ref

Admit(e, c) ==
  LET r == ask[e]
      verdict == Recorded(r, snap[e], plan[e].verdict)
  IN  /\ pc[e] = "admit"
      /\ c \notin made
      /\ ParentHolds(r.session, snap[e])
      /\ SessionHolds(r.session, snap[e])
      /\ RefHolds(plan[e].ref, r.session, snap[e])
      /\ LogicalHolds(r, plan[e].ref)
      /\ made' = made \cup {c}
      /\ row' = [row EXCEPT ![c] =
           [ask |-> r, policy |-> snap[e].policy, pol |-> snap[e].pol,
            st |-> stRev[r.session], verdict |-> verdict, effect |-> verdict,
            by |-> "none", ref |-> plan[e].ref, born |-> clock, at |-> 0]]
      /\ Leave(e)
      /\ UNCHANGED <<sessionVars, clock>>

\* Any check failed, a model call failed or timed out, or the process died.
GiveUp(e) ==
  /\ pc[e] # "idle"
  /\ Leave(e)
  /\ UNCHANGED <<sessionVars, auditVars>>

-----------------------------------------------------------------------------
(* Resolution: AuditStore.resolve_escalation *)

\* The session is active and as the row recorded it.
RowCurrent(c) ==
  LET s == row[c].ask.session
  IN  row[c].pol = polRev[s] /\ row[c].st = stRev[s] /\ life[s] = "active"

Floor(c) == FloorOf[row[c].ask.action]

\* Mutant: a row may be resolved again by whoever comes next.
ResolvableAgain(c) == row[c].verdict \in {"escalate", "deny"}

\* The WHERE of the UPDATE: a human may overrule a Judge, nobody a human.
Resolvable(c) == row[c].verdict \in {"escalate", "deny"} /\ row[c].by # "user"

\* Mutant: a Judge is trusted with human floors.
MayApproveAny(c, by) == Floor(c) # "deny"

\* Nobody lifts a denial floor, and only a human meets a human floor.
MayApprove(c, by) ==
  /\ Floor(c) # "deny"
  /\ by = "judge" => Floor(c) # "human"

\* Consent without a note to an open escalation concerns this call alone; any
\* other human decision changes what the session is authorized to do, and the
\* receipt moves to the new revision.
Human(c, decision, note) ==
  LET s == row[c].ask.session
      local == /\ decision = "approve" /\ ~note
               /\ row[c].verdict = "escalate" /\ row[c].by = "none"
      st == IF local THEN stRev[s] ELSE stRev[s] + 1
  IN  /\ Resolvable(c)
      /\ decision = "approve" => MayApprove(c, "user")
      /\ RowCurrent(c)
      /\ stRev' = [stRev EXCEPT ![s] = st]
      /\ clock' = clock + 1
      /\ row' = [row EXCEPT ![c].by = "user", ![c].effect = decision,
                            ![c].st = st, ![c].at = clock + 1]
      /\ UNCHANGED <<life, policy, source, polRev, pin, killed, made, evalVars>>

\* An operator-bound row is never reviewed; a row is reviewed once.
Judge(c, decision) ==
  /\ row[c].policy = "judged"
  /\ row[c].verdict = "escalate"
  /\ row[c].by = "none"
  /\ Floor(c) # "deny"
  /\ Resolvable(c)
  /\ decision = "approve" => MayApprove(c, "judge")
  /\ RowCurrent(c)
  /\ clock' = clock + 1
  /\ row' = [row EXCEPT ![c].by = "judge", ![c].effect = decision,
                        ![c].at = clock + 1]
  /\ UNCHANGED <<sessionVars, made, evalVars>>

-----------------------------------------------------------------------------
Clients ==
  \E s \in Session :
    \/ \E l \in Life : PatchStatus(s, l)
    \/ \E p \in Policy : PatchPolicy(s, p)
    \/ Evidence(s)
    \/ SweepIdle(s)
    \/ SweepChild(s)

Evaluate(e) ==
  \/ \E r \in Ask : Begin(e, r)
  \/ Read(e)
  \/ Inherit(e)
  \/ Activate(e)
  \/ Fetch(e)
  \/ Resume(e)
  \/ Disown(e)
  \/ Orphan(e)
  \/ \E raw \in Outcome, ref \in Call \cup {NoCall} : Assess(e, raw, ref)
  \/ \E c \in Call : Admit(e, c)
  \/ GiveUp(e)

Resolve ==
  \E c \in made, decision \in {"approve", "deny"} :
    \/ \E note \in BOOLEAN : Human(c, decision, note)
    \/ Judge(c, decision)

Next == Clients \/ (\E e \in Evaluator : Evaluate(e)) \/ Resolve

Spec == Init /\ [][Next]_vars

-----------------------------------------------------------------------------
(* What must hold *)

\* An approval a human gave to the same action in the same session.
HumanGrant(ref, r) == ref \in made /\ Exact(ref, r) /\ Approved(ref, "user")

\* No call whose floor demands a human runs on a model's word, a Judge's word
\* or an approval of something else, whichever of them answers first; a denial
\* floor is never lifted by anybody (docs/how-intaris-decides.md, precedence).
FloorsHeld ==
  \A c \in made : row[c].effect = "approve" =>
    /\ Floor(c) # "deny"
    /\ Floor(c) = "human" =>
         row[c].by = "user" \/ HumanGrant(row[c].ref, row[c].ask)

\* A human decision on a row is final: no Judge that started before it and no
\* second human changes its outcome or its receipt (resolve_escalation).
HumanFinal ==
  [][\A c \in made : row[c].by = "user" => row'[c] = row[c]]_vars

\* Two evaluations of one logical call are not both admitted outright, and
\* they are of the same action, however they interleave (AuditStore.insert).
OneAdmission ==
  \A c, d \in made :
    c # d /\ SameLogical(c, row[d].ask) =>
      /\ row[c].ask.action = row[d].ask.action
      /\ ~(row[c].verdict = "approve" /\ row[d].verdict = "approve")

\* An approval is only ever relied on under the policy revision it was given
\* for, although admission compares state revisions and policy hashes only.
ReceiptsStayInPolicy ==
  \A c \in made : row[c].ref # NoCall =>
    row[c].ref \in made /\ row[row[c].ref].pol = row[c].pol

\* Under an operator bound a human's no to the exact action stands until a
\* human says yes to it, across policy changes and new evidence
\* (docs/hybrid-authorization-revisions.md, operator approve bound).
VetoStands ==
  \A c, d \in made :
    /\ row[c].policy = "bound" /\ row[c].verdict = "approve"
    /\ Exact(d, row[c].ask) /\ row[d].by = "user" /\ row[d].effect = "deny"
    /\ row[d].at <= row[c].born
    => \E u \in made : /\ Exact(u, row[c].ask) /\ Approved(u, "user")
                       /\ row[d].at < row[u].at /\ row[u].at <= row[c].born

\* A call of a child is admitted only while its parent may work, and under an
\* operator bound only while the parent still has that bound, whatever changed
\* since the child's policy was composed (validate_parent_chain).
ChildGrantWithinParent ==
  [][\A c \in made' \ made :
       LET p == ParentOf[row'[c].ask.session]
       IN  p # NoSession /\ row'[c].verdict = "approve" =>
             /\ life[p] \notin Dead
             /\ row'[c].policy = "bound" => policy[p] = "bound"]_vars

\* docs/architecture.md: terminated means hard-killed, all evaluations denied.
NoGrantWhenKilled ==
  [][\A c \in made' \ made :
       row'[c].verdict = "approve" => ~killed[row'[c].ask.session]]_vars
=============================================================================
