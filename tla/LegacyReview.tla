---------------------------- MODULE LegacyReview ----------------------------
(***************************************************************************)
(* The legacy evaluation of tool calls in one active session: floors,      *)
(* ceilings and unattended tasks, what earlier approvals spare a call, the *)
(* Judge's review of what is escalated, and the human who may answer       *)
(* before, during or after it (evaluator.py, decision.py, judge.py,        *)
(* audit.py, api/evaluate.py, mcp/proxy.py).                               *)
(*                                                                         *)
(* Every call is a process: a worker thread evaluates it, then the request *)
(* waits for the Judge with a timeout, or (the MCP proxy) answers and      *)
(* leaves the review to a task of its own.  Between two database calls     *)
(* anything happens.  `rev` stands for policy_revision and state_revision. *)
(* The evaluator model and the Judge may say anything, so what they are    *)
(* told (precedents, history) is left out.  The read-only overlay,         *)
(* alignment and lifecycle stops are other modules'.                       *)
(***************************************************************************)
EXTENDS Naturals

CONSTANTS
  Call,         \* call_id values, each of one audit row
  Action,       \* exact calls: a tool and its arguments
  KindOf,       \* how the classifier sees an action
  PlaceOf,      \* its directory: of the path cache, of the write scope
  Request,      \* what clients ask for
  SessionPolicy,   \* policies that clients give the session
  Mode,         \* modes the Judge may be configured with
  NoCall, None,
  MaxChanges    \* bound: changes of the session that clients make

Outcome == {"deny", "escalate", "approve"}
Bound   == Outcome \cup {"none"}
Verdict == {"approve", "deny", "defer"}

\* Reads outside the project, edits, tools that a preference escalates, and
\* critical patterns.
Kind == {"look", "edit", "ask", "wipe"}

\* What the evaluator may decide by, and whom it has the approval from.
Via   == {"path", "retry", "scope", "preference", "critical", "model"}
Party == {"user", "judge", "model", None}
Basis == [via : Via, from : Party]

\* Evaluations and rows.
Evaluation ==
  [ask : Request, policy : SessionPolicy, rev : Nat, basis : Basis \cup {None}]
Row ==
  [action : Action, raw : Outcome, decision : Outcome, effect : Outcome,
   by : {None, "user", "judge"}, vetoed : BOOLEAN, max : Bound, min : Bound,
   lone : BOOLEAN, ref : Call \cup {NoCall}, via : Via, from : Party,
   override : {"none", "private", "capped"}]

\* What is not there is no record, outcome or party.
ASSUME NothingAssumption ==
  None \notin Outcome \cup {"stale", "user", "judge", "model"} \cup Row

\* What clients send, and what the policies that they give bound.
ASSUME InputAssumption ==
  /\ MaxChanges \in Nat /\ Mode \subseteq {"disabled", "auto", "advisory"}
  /\ KindOf \in [Action -> Kind]
  /\ Request \subseteq [action : Action, floor : Bound, lone : BOOLEAN,
                         route : {"api", "mcp"}, ref : Call \cup {NoCall}]
  /\ SessionPolicy \subseteq [max : Bound, min : Bound, alone : BOOLEAN,
                               allowed : {None} \cup SUBSET Verdict]

VARIABLES
  mode,      \* the configured mode of the Judge, or disabled
  policy,    \* the session's policy
  rev,       \* its revision
  changes,   \* how often clients changed the session
  row,       \* audit_log; `vetoed`: a human had denied the action by the insertion
  paths,     \* _approved_paths: places, each with who approved of it
  scope,     \* _approved_edit_scopes: the same, for one revision
  at,        \* where each call is
  eval,      \* its evaluation: the request, the session it read, the basis found
  may,       \* what its Judge was allowed to say
  late,      \* set_judge_reasoning threads that outlived their review
  lesson,    \* a resolution that has yet to be learned from
  answer     \* what its client was told

sessionVars == <<mode, policy, rev, changes>>
cacheVars   == <<paths, scope>>
reviewVars  == <<may, late, lesson>>
vars == <<sessionVars, row, cacheVars, at, eval, reviewVars, answer>>

made      == {c \in Call : row[c] # None}
Enabled   == mode # "disabled"
Act(c)    == eval[c].ask.action

-----------------------------------------------------------------------------
(* Outcomes *)

Severity(o) == CASE o = "deny" -> 0 [] o = "escalate" -> 1 [] OTHER -> 2

\* The stricter outcome.
clamp_outcome(actual, minimum) ==
  IF minimum # "none" /\ Severity(minimum) < Severity(actual) THEN minimum ELSE actual

\* The more permissive one.
cap_outcome(actual, maximum) ==
  IF maximum # "none" /\ Severity(maximum) > Severity(actual) THEN maximum ELSE actual

\* What holds for a call: the floor of its request and of its policy, the ceiling,
\* whether nobody attends to its task.
Minimum(c) ==
  IF eval[c].ask.floor = "none" THEN eval[c].policy.min
  ELSE clamp_outcome(eval[c].ask.floor, eval[c].policy.min)

Maximum(c) == eval[c].policy.max
Lone(c)    == eval[c].ask.lone \/ eval[c].policy.alone

\* The API asks the Judge instead of the human that an unattended task lacks.
JudgeUnattended(c) == eval[c].ask.route = "api" /\ Enabled /\ eval[c].ask.floor = "none"

\* An approval that the client names: a human approved of this very action.
Approved(c) ==
  LET r == eval[c].ask.ref IN
  /\ r \in made
  /\ row[r].action = Act(c) /\ row[r].decision = "escalate"
  /\ row[r].by = "user" /\ row[r].effect = "approve"

\* The ceiling, then the floor or the human approval of it.
Bounded(c, raw) ==
  LET capped == cap_outcome(raw, Maximum(c))
      named  == eval[c].ask.ref # NoCall
  IN IF Minimum(c) = "none" THEN capped
     ELSE IF Approved(c) /\ Minimum(c) = "escalate" /\ raw # "deny" THEN "approve"
     ELSE IF named /\ (~Approved(c) \/ raw = "deny") THEN "deny"
     ELSE clamp_outcome(capped, Minimum(c))

\* An unattended call that only the Judge may let pass.
Private(c, raw) ==
  /\ Lone(c) /\ JudgeUnattended(c) /\ Minimum(c) = "none"
  /\ raw \in {"deny", "escalate"} /\ Maximum(c) # "deny"

Decision(c, raw) ==
  IF Private(c, raw) THEN "escalate"
  ELSE IF Lone(c) /\ (raw # "approve" \/ Bounded(c, raw) = "escalate") THEN "deny"
  ELSE Bounded(c, raw)

-----------------------------------------------------------------------------
(* Evaluation *)

\* The request arrives and the session is read.
Begin(c, r) ==
  /\ at[c] = "idle"
  /\ eval' = [eval EXCEPT ![c] =
               [ask |-> r, policy |-> policy, rev |-> rev, basis |-> None]]
  /\ at' = [at EXCEPT ![c] = "begun"]
  /\ UNCHANGED <<sessionVars, row, cacheVars, reviewVars, answer>>

\* find_approved_escalation: the same action, approved by a human, or by the Judge
\* unless it was evaluated as a denial under a permissive ceiling.
Reusable(c) ==
  {d \in made :
     /\ row[d].action = Act(c)
     /\ row[d].by # None /\ row[d].effect = "approve"
     /\ row[d].override # "private"
     /\ \/ row[d].by = "user"
        \/ row[d].raw # "deny"
        \/ row[d].max \in {"none", "deny"}}

\* get_human_denials
Denied(action) ==
  \E d \in made : row[d].action = action /\ row[d].by = "user" /\ row[d].effect = "deny"

\* Write scopes of the session as it was read, unless a human denied the action.
ScopesFor(c) ==
  IF /\ KindOf[Act(c)] = "edit" /\ Minimum(c) = "none"
     /\ scope.rev = eval[c].rev /\ ~Denied(Act(c))
  THEN {s \in scope.places : s.place = PlaceOf[Act(c)]}
  ELSE {}

PathsFor(c) ==
  {p \in paths : KindOf[Act(c)] = "look" /\ p.place = PlaceOf[Act(c)]}

\* What the evaluator will decide by: a cached path, a retry (unless it is older
\* than the TTL), a write scope, the classifier's rule or the model.
Bases(c) ==
  LET retries == IF Minimum(c) = "none" /\ ~Lone(c) THEN Reusable(c) ELSE {}
      rule == CASE KindOf[Act(c)] = "ask"  -> "preference"
                [] KindOf[Act(c)] = "wipe" -> "critical"
                [] OTHER -> "model"
      fallback == IF ScopesFor(c) # {}
                  THEN {[via |-> "scope", from |-> s.by] : s \in ScopesFor(c)}
                  ELSE {[via |-> rule, from |-> None]}
  IN IF PathsFor(c) # {}
     THEN {[via |-> "path", from |-> p.by] : p \in PathsFor(c)}
     ELSE {[via |-> "retry", from |-> row[d].by] : d \in retries} \cup fallback

\* Caches and audit log are read before the model is asked.
Lookup(c) ==
  /\ at[c] = "begun"
  /\ \E b \in Bases(c) : eval' = [eval EXCEPT ![c].basis = b]
  /\ at' = [at EXCEPT ![c] = "judged"]
  /\ UNCHANGED <<sessionVars, row, cacheVars, reviewVars, answer>>

Raw(via) ==
  CASE via = "model"      -> Outcome
    [] via = "preference" -> {"escalate"}
    [] via = "critical"   -> {"deny"}
    [] OTHER              -> {"approve"}

\* The place of an action, approved of by whom.
Entry(action, by) == [place |-> PlaceOf[action], by |-> by]

\* _record_workspace_edit: an approval of a revision opens a scope for that revision.
Opened(action, by, revision) ==
  CASE revision < scope.rev -> scope
    [] revision > scope.rev -> [rev |-> revision, places |-> {Entry(action, by)}]
    [] OTHER -> IF \E s \in scope.places : s.place = PlaceOf[action] THEN scope
                ELSE [scope EXCEPT !.places = @ \cup {Entry(action, by)}]

\* _approve_path_prefix
Trusted(action, by) ==
  IF \E p \in paths : p.place = PlaceOf[action] THEN paths
  ELSE paths \cup {Entry(action, by)}

\* What the evaluator learns of the model's own approvals.
LearnOutright(c, raw) ==
  LET basis == eval[c].basis
      by == IF basis.via = "retry" THEN basis.from
            ELSE IF raw = "approve" THEN "model" ELSE "user"
  IN /\ paths' = IF /\ KindOf[Act(c)] = "look" /\ basis.via \in {"model", "retry"}
                    /\ Decision(c, raw) = "approve" /\ cap_outcome(raw, Maximum(c)) = raw
                 THEN Trusted(Act(c), by) ELSE paths
     /\ scope' = IF /\ KindOf[Act(c)] = "edit" /\ Minimum(c) = "none" /\ basis.via = "model"
                    /\ raw = "approve" /\ Decision(c, raw) = "approve"
                 THEN Opened(Act(c), "model", eval[c].rev) ELSE scope

NewRow(c, raw) ==
  [action |-> Act(c), raw |-> raw, decision |-> Decision(c, raw),
   effect |-> Decision(c, raw), by |-> None, vetoed |-> Denied(Act(c)),
   max |-> Maximum(c), min |-> Minimum(c), lone |-> Lone(c), ref |-> eval[c].ask.ref,
   via |-> eval[c].basis.via, from |-> eval[c].basis.from,
   override |-> IF Private(c, raw) THEN "private" ELSE "none"]

\* Mutant: a write scope is not fenced at the admission.
AdmissibleAnytime(c) == TRUE

\* A call that a write scope lets pass is admitted in the revision it was read in.
Admissible(c) == eval[c].basis.via = "scope" => rev = eval[c].rev

\* Who waits for what once the row is there.
Reviewed(c, raw) ==
  /\ Decision(c, raw) = "escalate" /\ Enabled
  /\ eval[c].ask.route = "api" => eval[c].ask.floor \notin {"deny", "escalate"}

\* The verdict is bounded, learned from and inserted.
Insert(c) ==
  /\ at[c] = "judged"
  /\ \E raw \in Raw(eval[c].basis.via) :
       /\ Admissible(c)
       /\ LearnOutright(c, raw)
       /\ row' = [row EXCEPT ![c] = NewRow(c, raw)]
       /\ at' = [at EXCEPT ![c] = IF Reviewed(c, raw) THEN "review" ELSE "done"]
       /\ answer' = [answer EXCEPT ![c] =
                       IF Reviewed(c, raw) /\ eval[c].ask.route = "api" THEN None
                       ELSE Decision(c, raw)]
  /\ eval' = [eval EXCEPT ![c] = None]
  /\ UNCHANGED <<sessionVars, reviewVars>>

\* The session changed meanwhile: the client has to ask again.
Refuse(c) ==
  /\ at[c] = "judged" /\ ~Admissible(c)
  /\ at' = [at EXCEPT ![c] = "done"]
  /\ answer' = [answer EXCEPT ![c] = "stale"]
  /\ eval' = [eval EXCEPT ![c] = None]
  /\ UNCHANGED <<sessionVars, row, cacheVars, reviewVars>>

-----------------------------------------------------------------------------
(* Review *)

\* What the policy lets the Judge say.
Permitted(p) ==
  LET binary == IF p.allowed = None THEN p.alone \/ mode = "auto" ELSE p.allowed = {}
      listed == IF binary THEN {"approve", "deny"}
                ELSE IF p.allowed = None THEN Verdict ELSE p.allowed
      heard == IF mode = "auto" THEN listed \ {"defer"} ELSE listed
  IN IF heard = {} THEN {"deny"} ELSE heard

\* An unattended call gets an approval or a denial.
JudgeMay(c) ==
  IF row[c].override = "private" THEN {"approve", "deny"} ELSE Permitted(policy)

\* Mutant: only the route keeps a floor from the Judge.
ReviewableUnderFloor(c) == row[c].min # "deny" /\ row[c].by = None

\* Floors are human-only, and so is what has been resolved.
Reviewable(c) == row[c].min \notin {"deny", "escalate"} /\ row[c].by = None

Load(c) ==
  /\ at[c] = "review"
  /\ IF Reviewable(c)
     THEN /\ may' = [may EXCEPT ![c] = JudgeMay(c)]
          /\ at' = [at EXCEPT ![c] = "thinking"]
     ELSE /\ at' = [at EXCEPT ![c] = "ended"]
          /\ UNCHANGED may
  /\ UNCHANGED <<sessionVars, row, cacheVars, eval, late, lesson, answer>>

\* resolve_escalation's WHERE clause.
Resolvable(c, by) ==
  /\ row[c].decision \in {"escalate", "deny"}
  /\ row[c].by \in {None, "judge"}
  /\ by = "user" => row[c].override # "private"

Resolve(c, by, decision) ==
  row' = [row EXCEPT ![c].by = by, ![c].effect = decision]

\* Mutants: the ceiling is the session's at the time of the answer, or holds for
\* unattended calls too.
DenialCappedNow(c) == policy.max = "escalate" /\ row[c].override # "private"
DenialCappedAlways(c) == row[c].max = "escalate"

\* A denial that the ceiling of the call leaves to a human.
DenialCapped(c) == row[c].max = "escalate" /\ row[c].override # "private"

\* The Judge answers.  Resolution and learning share the event loop with other
\* resolutions.  A human who came first makes the write fail, and that is all.
Answer(c, said) ==
  /\ at[c] = "thinking" /\ lesson = None /\ said \in may[c]
  /\ \/ /\ said = "defer"
        /\ at' = [at EXCEPT ![c] = "ended"]
        /\ UNCHANGED <<row, lesson>>
     \/ /\ said = "deny" /\ DenialCapped(c)
        /\ at' = [at EXCEPT ![c] = "noting"]
        /\ UNCHANGED <<row, lesson>>
     \/ /\ said # "defer" /\ ~(said = "deny" /\ DenialCapped(c))
        /\ at' = [at EXCEPT ![c] = "ended"]
        /\ IF Resolvable(c, "judge")
           THEN /\ Resolve(c, "judge", said)
                /\ lesson' = IF said = "approve" THEN [call |-> c, rev |-> rev] ELSE None
           ELSE UNCHANGED <<row, lesson>>
  /\ UNCHANGED <<sessionVars, cacheVars, eval, may, late, answer>>

\* set_judge_reasoning of a capped denial, if the row is still unresolved.
Annotate(c) ==
  row' = [row EXCEPT ![c].override =
            IF row[c].decision = "escalate" /\ row[c].by = None THEN "capped" ELSE @]

Note(c) ==
  /\ at[c] = "noting"
  /\ Annotate(c)
  /\ at' = [at EXCEPT ![c] = "ended"]
  /\ UNCHANGED <<sessionVars, cacheVars, eval, reviewVars, answer>>

\* The model fails, or the request's timeout expires; a thread goes on.
GiveUp(c) ==
  /\ \/ at[c] = "thinking" /\ UNCHANGED late
     \/ at[c] = "noting" /\ answer[c] = None /\ late' = late \cup {c}
  /\ at' = [at EXCEPT ![c] = "ended"]
  /\ UNCHANGED <<sessionVars, row, cacheVars, eval, may, lesson, answer>>

NoteLate(c) ==
  /\ c \in late
  /\ Annotate(c)
  /\ late' = late \ {c}
  /\ UNCHANGED <<sessionVars, cacheVars, at, eval, may, lesson, answer>>

\* An unattended call that its review did not resolve is denied ...
Unsettled(c) == row[c].override = "private" /\ row[c].effect = "escalate"

Fallback(c) ==
  /\ at[c] = "ended" /\ answer[c] = None /\ Unsettled(c)
  /\ Resolve(c, "judge", "deny")
  /\ UNCHANGED <<sessionVars, cacheVars, at, eval, reviewVars, answer>>

\* ... and the client is told what the row says.
Reply(c) ==
  /\ at[c] = "ended" /\ (answer[c] = None => ~Unsettled(c))
  /\ answer' = [answer EXCEPT ![c] =
                  IF answer[c] # None THEN @
                  ELSE IF row[c].by # None THEN row[c].effect ELSE "escalate"]
  /\ at' = [at EXCEPT ![c] = "done"]
  /\ UNCHANGED <<sessionVars, row, cacheVars, eval, reviewVars>>

-----------------------------------------------------------------------------
(* Clients *)

\* POST /decision; every human decision is a new revision.
Human(c, decision) ==
  /\ c \in made /\ lesson = None /\ Resolvable(c, "user")
  /\ Resolve(c, "user", decision)
  /\ rev' = rev + 1
  /\ lesson' = IF decision = "approve" THEN [call |-> c, rev |-> rev + 1] ELSE None
  /\ UNCHANGED <<mode, policy, changes, cacheVars, at, eval, may, late, answer>>

\* learn_from_approved_escalation, in the same task of the event loop.
Teaches(c) ==
  row[c].by = "user" \/ row[c].raw # "deny" \/ row[c].max \notin {"escalate", "approve"}

Learn ==
  /\ lesson # None
  /\ LET c == lesson.call IN
     /\ scope' = IF /\ Teaches(c) /\ KindOf[row[c].action] = "edit" /\ row[c].min = "none"
                    /\ lesson.rev = rev
                 THEN Opened(row[c].action, row[c].by, rev) ELSE scope
     /\ paths' = IF Teaches(c) /\ KindOf[row[c].action] = "look" THEN Trusted(row[c].action, row[c].by) ELSE paths
  /\ lesson' = None
  /\ UNCHANGED <<sessionVars, row, at, eval, may, late, answer>>

\* PATCH of the policy, and new user evidence.
SetPolicy(p) ==
  /\ changes < MaxChanges /\ p # policy
  /\ policy' = p /\ rev' = rev + 1 /\ changes' = changes + 1
  /\ UNCHANGED <<mode, row, cacheVars, at, eval, reviewVars, answer>>

Evidence ==
  /\ changes < MaxChanges
  /\ rev' = rev + 1 /\ changes' = changes + 1
  /\ UNCHANGED <<mode, policy, row, cacheVars, at, eval, reviewVars, answer>>

Init ==
  /\ mode \in Mode /\ policy \in SessionPolicy /\ rev = 1 /\ changes = 0
  /\ row = [c \in Call |-> None]
  /\ paths = {} /\ scope = [rev |-> 0, places |-> {}]
  /\ at = [c \in Call |-> "idle"]
  /\ eval = [c \in Call |-> None] /\ may = [c \in Call |-> {}]
  /\ late = {} /\ lesson = None /\ answer = [c \in Call |-> None]

CallStep(c) ==
  \/ \E r \in Request : Begin(c, r)
  \/ Lookup(c) \/ Insert(c) \/ Refuse(c)
  \/ Load(c) \/ (\E said \in Verdict : Answer(c, said)) \/ Note(c)
  \/ GiveUp(c) \/ NoteLate(c) \/ Fallback(c) \/ Reply(c)
  \/ \E decision \in {"approve", "deny"} : Human(c, decision)

Next ==
  \/ \E c \in Call : CallStep(c)
  \/ Learn
  \/ \E p \in SessionPolicy : SetPolicy(p)
  \/ Evidence

Spec == Init /\ [][Next]_vars

-----------------------------------------------------------------------------
(* Properties *)

Stage == {"idle", "begun", "judged", "review", "thinking", "noting", "ended", "done"}
Places == {PlaceOf[a] : a \in Action}

\* Type invariant; what an evaluation holds once it has begun, and found its basis.
TypeOK ==
  /\ mode \in Mode /\ policy \in SessionPolicy /\ rev \in Nat /\ changes \in Nat
  /\ row \in [Call -> Row \cup {None}]
  /\ paths \subseteq [place : Places, by : Party]
  /\ scope \in [rev : Nat, places : SUBSET [place : Places, by : Party]]
  /\ at \in [Call -> Stage]
  /\ eval \in [Call -> Evaluation \cup {None}]
  /\ \A c \in Call : /\ at[c] \in {"begun", "judged"} => eval[c] \in Evaluation
                     /\ at[c] = "judged" => eval[c].basis \in Basis
  /\ may \in [Call -> SUBSET Verdict] /\ late \subseteq Call
  /\ lesson # None => lesson.call \in made /\ lesson.rev \in Nat
  /\ answer \in [Call -> Outcome \cup {None, "stale"}]

\* An unattended call that was left to the Judge is never a human's, whatever
\* fails or comes late: it takes effect only if the Judge approved of it, and no
\* client is told that it is pending.
UnattendedSettledByJudge ==
  \A c \in made :
    row[c].lone /\ row[c].decision = "escalate" =>
      /\ row[c].by # "user"
      /\ row[c].effect = "approve" => row[c].by = "judge"
      /\ answer[c] # None => answer[c] = row[c].effect /\ answer[c] # "escalate"

\* Where the ceiling of a call left its denial to a human, no Judge ever denies
\* it, under whatever policy the session has meanwhile.
CappedDenialWaits ==
  \A c \in made :
    row[c].max = "escalate" /\ ~row[c].lone /\ row[c].by = "judge" =>
      row[c].effect = "approve" /\ answer[c] # "deny"

\* A call under a floor takes effect only if a human approved of it, or of an
\* earlier escalation of the same action that it names and that the evaluator
\* does not deny now.
FloorHeld ==
  \A c \in made :
    row[c].min \in {"deny", "escalate"} /\ row[c].effect = "approve" =>
      \/ row[c].by = "user"
      \/ /\ row[c].min = "escalate" /\ row[c].raw # "deny"
         /\ row[c].ref \in made
         /\ LET r == row[row[c].ref] IN
              /\ r.action = row[c].action /\ r.decision = "escalate"
              /\ r.by = "user" /\ r.effect = "approve"

\* No write scope lets an action pass that a human had denied by then.
DenialOutlivesScope ==
  \A c \in made : row[c].via = "scope" => ~row[c].vetoed
=============================================================================
