--------------------------- MODULE Services_proofs ---------------------------
(* What holds of the legacy review (LegacyReview) and of proxied calls         *)
(* (McpConnections) for every value of their constants.                        *)
EXTENDS LegacyReview, McpConnections, TLAPS

Floor == {"deny", "escalate"}

\* Where a call is tells what it has: a row only once it was inserted, a review
\* only of an escalation that is no human's, a late note only of an attended call.
Staged ==
  \A c \in Call :
    /\ at[c] \in {"idle", "begun", "judged"} => row[c] = None /\ answer[c] = None
    /\ at[c] \in {"review", "thinking", "noting", "ended"} =>
         c \in made /\ row[c].decision = "escalate"
    /\ at[c] \in {"thinking", "noting"} => row[c].min \notin Floor
    /\ at[c] = "noting" \/ c \in late => c \in made /\ row[c].override # "private"

\* What a row says of its resolution.
RowSound(c) ==
  /\ row[c].by = None => row[c].effect = row[c].decision
  /\ row[c].by = "judge" => row[c].decision = "escalate"

\* A private review is that of an unattended call; its client is answered once.
PrivateSound(c) ==
  /\ row[c].lone /\ row[c].decision = "escalate" => row[c].override = "private"
  /\ row[c].override = "private" =>
       /\ row[c].lone /\ row[c].decision = "escalate" /\ row[c].by # "user"
       /\ answer[c] # None =>
            at[c] = "done" /\ row[c].effect # "escalate" /\ answer[c] = row[c].effect

\* A denial that the ceiling leaves to a human is the evaluator's or the human's.
CappedSound(c) ==
  row[c].max = "escalate" /\ ~row[c].lone =>
    /\ row[c].by = "judge" => row[c].effect = "approve"
    /\ answer[c] = "deny" => row[c].decision = "deny" \/ row[c].by = "user"

FloorSound(c) ==
  row[c].min \in Floor /\ row[c].effect = "approve" =>
    \/ row[c].by = "user"
    \/ /\ row[c].min = "escalate" /\ row[c].raw # "deny"
       /\ row[c].ref \in made
       /\ LET r == row[row[c].ref] IN
            /\ r.action = row[c].action /\ r.decision = "escalate"
            /\ r.by = "user" /\ r.effect = "approve"

RowsSound ==
  \A c \in made : RowSound(c) /\ PrivateSound(c) /\ CappedSound(c) /\ FloorSound(c)

\* A scope that was found and may still be used is not denied by a human.
ScopeSound ==
  \A c \in Call :
    /\ at[c] \in {"begun", "judged"} => eval[c].rev <= rev
    /\ at[c] = "judged" /\ eval[c].basis.via = "scope" /\ eval[c].rev = rev =>
         ~Denied(Act(c))

IInv == TypeOK /\ Staged /\ RowsSound /\ ScopeSound /\ DenialOutlivesScope

-----------------------------------------------------------------------------
(* Outcomes *)

LEMMA ClampOutcome ==
  ASSUME NEW o \in Outcome, NEW m \in Bound
  PROVE  /\ clamp_outcome(o, m) \in Outcome
         /\ m \in Floor => clamp_outcome(o, m) # "approve"
BY DEF clamp_outcome, Severity, Outcome, Bound, Floor

LEMMA CapOutcome ==
  ASSUME NEW o \in Outcome, NEW m \in Bound
  PROVE  cap_outcome(o, m) \in Outcome
BY DEF cap_outcome, Outcome, Bound

\* What a call that began is bounded by.
LEMMA BoundsOfCall ==
  ASSUME NEW c \in Call, eval[c] \in Evaluation
  PROVE  /\ Minimum(c) \in Bound /\ Maximum(c) \in Bound /\ Lone(c) \in BOOLEAN
         /\ Act(c) \in Action /\ eval[c].ask.ref \in Call \cup {NoCall}
<1>1. eval[c].ask \in Request /\ eval[c].policy \in SessionPolicy
  BY DEF Evaluation
<1>2. /\ eval[c].ask.floor \in Bound /\ eval[c].ask.lone \in BOOLEAN
      /\ eval[c].ask.action \in Action /\ eval[c].ask.ref \in Call \cup {NoCall}
      /\ eval[c].policy.max \in Bound /\ eval[c].policy.min \in Bound
      /\ eval[c].policy.alone \in BOOLEAN
  BY <1>1, InputAssumption
<1>3. Minimum(c) \in Bound
  <2>1. CASE eval[c].ask.floor = "none"
    BY <1>2, <2>1 DEF Minimum
  <2>2. CASE eval[c].ask.floor # "none"
    BY <1>2, <2>2, ClampOutcome DEF Minimum, Bound
  <2> QED
    BY <2>1, <2>2
<1> QED
  BY <1>2, <1>3 DEF Maximum, Lone, Act

\* The decision on a call is an outcome, and a private review is a call's whose
\* client waits for it.
LEMMA DecisionOfCall ==
  ASSUME NEW c \in Call, eval[c] \in Evaluation, NEW raw \in Outcome
  PROVE  /\ Decision(c, raw) \in Outcome
         /\ Lone(c) /\ Decision(c, raw) = "escalate" => Private(c, raw)
         /\ Private(c, raw) =>
              /\ Lone(c) /\ Decision(c, raw) = "escalate" /\ Reviewed(c, raw)
              /\ eval[c].ask.route = "api"
<1>1. Bounded(c, raw) \in Outcome
  BY BoundsOfCall, ClampOutcome, CapOutcome DEF Bounded, Outcome
<1>2. CASE Private(c, raw)
  <2>1. Decision(c, raw) = "escalate"
    BY <1>2 DEF Decision
  <2> QED
    BY <1>2, <2>1 DEF Private, Reviewed, JudgeUnattended, Outcome
<1>3. CASE ~Private(c, raw) /\ Lone(c) /\ (raw # "approve" \/ Bounded(c, raw) = "escalate")
  <2>1. Decision(c, raw) = "deny"
    BY <1>3 DEF Decision
  <2> QED
    BY <1>3, <2>1 DEF Outcome
<1>4. CASE ~Private(c, raw) /\ ~(Lone(c) /\ (raw # "approve" \/ Bounded(c, raw) = "escalate"))
  <2>1. Decision(c, raw) = Bounded(c, raw)
    BY <1>4 DEF Decision
  <2> QED
    BY <1>1, <1>4, <2>1 DEF Outcome
<1> QED
  BY <1>2, <1>3, <1>4

\* A floor is passed only by the approval of an escalation that the call names.
LEMMA FloorOfCall ==
  ASSUME NEW c \in Call, eval[c] \in Evaluation, NEW raw \in Outcome,
         Minimum(c) \in Floor, Decision(c, raw) = "approve"
  PROVE  Minimum(c) = "escalate" /\ raw # "deny" /\ Approved(c)
<1>1. Decision(c, raw) = Bounded(c, raw)
  BY DEF Decision, Private
<1>2. cap_outcome(raw, Maximum(c)) \in Outcome
  BY BoundsOfCall, CapOutcome
<1>3. clamp_outcome(cap_outcome(raw, Maximum(c)), Minimum(c)) # "approve"
  BY <1>2, BoundsOfCall, ClampOutcome
<1> QED
  BY <1>1, <1>3 DEF Bounded, Floor

-----------------------------------------------------------------------------
(* What steps of a kind preserve *)

\* Steps that leave the rows alone, and the answers of calls that have one.
LEMMA SameRows ==
  ASSUME RowsSound, DenialOutlivesScope, row' = row,
         \A d \in made : answer'[d] = answer[d] /\ (at[d] = "done" => at'[d] = "done")
  PROVE  RowsSound' /\ DenialOutlivesScope' /\ made' = made
<1>1. made' = made
  BY DEF made
<1> QED
  BY <1>1 DEF RowsSound, RowSound, PrivateSound, CappedSound, FloorSound, DenialOutlivesScope

\* Steps that deny nothing, or change the revision.
LEMMA ScopeKept ==
  ASSUME TypeOK, ScopeSound, rev' \in Nat, rev <= rev',
         rev' = rev => \A a \in Action : Denied(a)' => Denied(a),
         \A d \in Call : at'[d] \in {"begun", "judged"} =>
                         at'[d] = at[d] /\ eval'[d] = eval[d]
  PROVE  ScopeSound'
<1> SUFFICES ASSUME NEW d \in Call, at'[d] \in {"begun", "judged"}
             PROVE  /\ eval'[d].rev <= rev'
                    /\ at'[d] = "judged" /\ eval'[d].basis.via = "scope"
                         /\ eval'[d].rev = rev' => ~Denied(Act(d))'
  BY DEF ScopeSound
<1>1. eval[d] \in Evaluation /\ eval'[d] = eval[d] /\ at'[d] = at[d]
  BY DEF TypeOK
<1>2. eval[d].rev \in Nat /\ eval[d].rev <= rev /\ rev \in Nat
  BY <1>1 DEF ScopeSound, TypeOK, Evaluation
<1>3. Act(d) \in Action /\ Act(d)' = Act(d)
  BY <1>1, BoundsOfCall DEF Act
<1>4. ASSUME at[d] = "judged", eval[d].basis.via = "scope", eval[d].rev = rev'
      PROVE  ~Denied(Act(d))'
  <2>1. rev' = rev
    BY <1>2, <1>4
  <2>2. ~Denied(Act(d))
    BY <1>4, <2>1 DEF ScopeSound
  <2> QED
    BY <1>3, <2>1, <2>2
<1> QED
  BY <1>1, <1>2, <1>4

LEMMA SameDenials ==
  ASSUME row' = row
  PROVE  \A a \in Action : Denied(a)' => Denied(a)
BY DEF Denied, made

LEMMA MadeRows ==
  ASSUME TypeOK, NEW c \in made
  PROVE  c \in Call /\ row[c] \in Row
BY DEF TypeOK, made

-----------------------------------------------------------------------------
(* Evaluation *)

LEMMA BeginStep ==
  ASSUME IInv, NEW c \in Call, NEW r \in Request, Begin(c, r)
  PROVE  IInv'
<1> USE DEF Begin, sessionVars, cacheVars, reviewVars
<1>1. eval'[c] \in Evaluation /\ eval'[c].rev = rev /\ at'[c] = "begun"
  BY DEF IInv, TypeOK, Evaluation
<1>2. TypeOK'
  BY <1>1 DEF IInv, TypeOK, Stage, made
<1>3. Staged'
  BY DEF IInv, Staged, TypeOK, made
<1>4. RowsSound' /\ DenialOutlivesScope'
  BY SameRows DEF IInv, Staged, TypeOK, made
<1>5. ScopeSound'
  BY <1>1, SameDenials DEF IInv, ScopeSound, TypeOK, Evaluation, Act, Denied, made
<1> QED
  BY <1>2, <1>3, <1>4, <1>5 DEF IInv

\* A basis has its type; it is a scope only if no human denied the action.
LEMMA BasisFound ==
  ASSUME TypeOK, NEW c \in Call, NEW b \in Bases(c)
  PROVE  b \in Basis /\ (b.via = "scope" => ~Denied(Act(c)))
<1>1. \A p \in PathsFor(c) : p.by \in Party
  BY DEF PathsFor, TypeOK
<1>2. \A s \in ScopesFor(c) : s.by \in Party /\ ~Denied(Act(c))
  BY DEF ScopesFor, TypeOK
<1>3. \A d \in Reusable(c) : row[d].by \in Party
  BY MadeRows DEF Reusable, Row, Party
<1>4. CASE PathsFor(c) # {}
  <2>1. PICK p \in PathsFor(c) : b = [via |-> "path", from |-> p.by]
    BY <1>4 DEF Bases
  <2> QED
    BY <1>1, <2>1 DEF Basis, Via
<1>5. CASE PathsFor(c) = {}
  <2>1. \/ \E d \in Reusable(c) : b = [via |-> "retry", from |-> row[d].by]
        \/ \E s \in ScopesFor(c) : b = [via |-> "scope", from |-> s.by]
        \/ \E v \in {"preference", "critical", "model"} : b = [via |-> v, from |-> None]
    BY <1>5 DEF Bases
  <2> QED
    BY <1>2, <1>3, <2>1 DEF Basis, Via, Party
<1> QED
  BY <1>4, <1>5

LEMMA LookupStep ==
  ASSUME IInv, NEW c \in Call, Lookup(c)
  PROVE  IInv'
<1> USE DEF Lookup, sessionVars, cacheVars, reviewVars
<1>1. PICK b \in Bases(c) : eval' = [eval EXCEPT ![c].basis = b]
  OBVIOUS
<1>2. b \in Basis /\ (b.via = "scope" => ~Denied(Act(c)))
  BY BasisFound DEF IInv
<1>3. /\ eval[c] \in Evaluation /\ eval'[c] \in Evaluation
      /\ eval'[c].basis = b /\ eval'[c].rev = eval[c].rev /\ eval'[c].ask = eval[c].ask
      /\ \A d \in Call \ {c} : eval'[d] = eval[d] /\ at'[d] = at[d]
      /\ at[c] = "begun" /\ at'[c] = "judged"
  BY <1>1, <1>2 DEF IInv, TypeOK, Evaluation
<1>4. TypeOK'
  BY <1>1, <1>2, <1>3 DEF IInv, TypeOK, Stage, made
<1>5. Staged'
  BY DEF IInv, Staged, TypeOK, made
<1>6. RowsSound' /\ DenialOutlivesScope'
  BY SameRows DEF IInv, Staged, TypeOK, made
<1>7. ScopeSound'
  <2> SUFFICES ASSUME NEW d \in Call
               PROVE  /\ at'[d] \in {"begun", "judged"} => eval'[d].rev <= rev'
                      /\ at'[d] = "judged" /\ eval'[d].basis.via = "scope"
                           /\ eval'[d].rev = rev' => ~Denied(Act(d))'
    BY DEF ScopeSound
  <2>1. CASE d = c
    BY <1>2, <1>3, <2>1 DEF IInv, ScopeSound, Act, Denied, made
  <2>2. CASE d # c
    BY <1>3, <2>2 DEF IInv, ScopeSound, Act, Denied, made
  <2> QED
    BY <2>1, <2>2
<1> QED
  BY <1>4, <1>5, <1>6, <1>7 DEF IInv

LEMMA RefuseStep ==
  ASSUME IInv, NEW c \in Call, Refuse(c)
  PROVE  IInv'
<1> USE DEF Refuse, sessionVars, cacheVars, reviewVars
<1>1. TypeOK'
  BY DEF IInv, TypeOK, Stage, made
<1>2. Staged'
  BY DEF IInv, Staged, TypeOK, made
<1>3. RowsSound' /\ DenialOutlivesScope'
  BY SameRows DEF IInv, Staged, TypeOK, made
<1>4. ScopeSound'
  BY ScopeKept, SameDenials DEF IInv, TypeOK
<1> QED
  BY <1>1, <1>2, <1>3, <1>4 DEF IInv

\* What the model's own approvals teach has its type.
LEMMA LearntOutright ==
  ASSUME TypeOK, NEW c \in Call, at[c] = "judged", NEW raw \in Outcome, LearnOutright(c, raw)
  PROVE  /\ paths' \subseteq [place : Places, by : Party]
         /\ scope' \in [rev : Nat, places : SUBSET [place : Places, by : Party]]
<1>1. eval[c] \in Evaluation /\ eval[c].basis \in Basis
  BY DEF TypeOK
<1>2. Act(c) \in Action /\ eval[c].rev \in Nat /\ eval[c].basis.from \in Party
  BY <1>1, BoundsOfCall DEF Evaluation, Basis
<1>3. \A p \in Party : Entry(Act(c), p) \in [place : Places, by : Party]
  BY <1>2 DEF Entry, Places
<1>4. \A p \in Party : Trusted(Act(c), p) \subseteq [place : Places, by : Party]
  BY <1>3 DEF Trusted, TypeOK
<1>5. Opened(Act(c), "model", eval[c].rev)
        \in [rev : Nat, places : SUBSET [place : Places, by : Party]]
  <2>1. Entry(Act(c), "model") \in [place : Places, by : Party]
    BY <1>3 DEF Party
  <2>2. scope.rev \in Nat /\ scope.places \subseteq [place : Places, by : Party]
        /\ scope \in [rev : Nat, places : SUBSET [place : Places, by : Party]]
    BY DEF TypeOK
  <2> QED
    BY <1>2, <2>1, <2>2 DEF Opened
<1>6. scope' \in [rev : Nat, places : SUBSET [place : Places, by : Party]]
  BY <1>5 DEF LearnOutright, TypeOK
<1>7. \A p \in Party : paths' = paths \/ \E q \in Party : paths' = Trusted(Act(c), q)
  BY <1>2 DEF LearnOutright, Party
<1> QED
  BY <1>4, <1>6, <1>7 DEF TypeOK, Party

\* A new row, by what its evaluation decided.
LEMMA NewRowSound ==
  ASSUME IInv, NEW c \in Call, at[c] = "judged", NEW raw \in Outcome
  PROVE  LET r == NewRow(c, raw) IN
         /\ r \in Row /\ r.by = None /\ r.effect = r.decision
         /\ r.decision = Decision(c, raw) /\ r.lone = Lone(c) /\ r.override # "capped"
         /\ r.lone /\ r.decision = "escalate" => r.override = "private"
         /\ r.override = "private" =>
              /\ r.lone /\ r.decision = "escalate" /\ Reviewed(c, raw)
              /\ eval[c].ask.route = "api"
         /\ r.min \in Floor /\ r.effect = "approve" =>
              /\ r.min = "escalate" /\ r.raw # "deny" /\ r.ref \in made
              /\ row[r.ref].action = r.action /\ row[r.ref].decision = "escalate"
              /\ row[r.ref].by = "user" /\ row[r.ref].effect = "approve"
         /\ r.via = eval[c].basis.via /\ r.vetoed = Denied(Act(c))
<1>1. eval[c] \in Evaluation /\ eval[c].basis \in Basis
  BY DEF IInv, TypeOK
<1>2. Decision(c, raw) \in Outcome
  BY <1>1, DecisionOfCall
<1>3. Denied(Act(c)) \in BOOLEAN /\ Private(c, raw) \in BOOLEAN
  BY DEF Denied, Private
<1>4. NewRow(c, raw) \in Row
  BY <1>1, <1>2, <1>3, BoundsOfCall DEF NewRow, Row, Basis, Party
<1>5. Minimum(c) \in Floor /\ Decision(c, raw) = "approve" =>
        Minimum(c) = "escalate" /\ raw # "deny" /\ Approved(c)
  BY <1>1, FloorOfCall
<1>6. /\ Lone(c) /\ Decision(c, raw) = "escalate" => Private(c, raw)
      /\ Private(c, raw) => /\ Lone(c) /\ Decision(c, raw) = "escalate"
                            /\ Reviewed(c, raw) /\ eval[c].ask.route = "api"
  BY <1>1, DecisionOfCall
<1> QED
  BY <1>4, <1>5, <1>6 DEF NewRow, Approved

LEMMA InsertStep ==
  ASSUME IInv, NEW c \in Call, Insert(c)
  PROVE  IInv'
<1> USE DEF sessionVars, reviewVars
<1>1. at[c] = "judged" /\ row[c] = None /\ c \notin made /\ c \notin late
  BY DEF Insert, IInv, Staged, made
<1>2. eval[c] \in Evaluation /\ eval[c].basis \in Basis /\ eval[c].ask \in Request
  BY <1>1 DEF IInv, TypeOK, Evaluation
<1>3. PICK raw \in Outcome :
        /\ Admissible(c) /\ LearnOutright(c, raw)
        /\ row' = [row EXCEPT ![c] = NewRow(c, raw)]
        /\ at' = [at EXCEPT ![c] = IF Reviewed(c, raw) THEN "review" ELSE "done"]
        /\ answer' = [answer EXCEPT ![c] =
                        IF Reviewed(c, raw) /\ eval[c].ask.route = "api" THEN None
                        ELSE Decision(c, raw)]
  BY DEF Insert, Raw, Outcome
<1> DEFINE r == NewRow(c, raw)
<1>4. /\ r \in Row /\ r.by = None /\ r.effect = r.decision
      /\ r.decision = Decision(c, raw) /\ r.lone = Lone(c) /\ r.override # "capped"
      /\ r.lone /\ r.decision = "escalate" => r.override = "private"
      /\ r.override = "private" =>
           /\ r.lone /\ r.decision = "escalate" /\ Reviewed(c, raw)
           /\ eval[c].ask.route = "api"
      /\ r.min \in Floor /\ r.effect = "approve" =>
           /\ r.min = "escalate" /\ r.raw # "deny" /\ r.ref \in made
           /\ row[r.ref].action = r.action /\ row[r.ref].decision = "escalate"
           /\ row[r.ref].by = "user" /\ row[r.ref].effect = "approve"
      /\ r.via = eval[c].basis.via /\ r.vetoed = Denied(Act(c))
  BY <1>1, NewRowSound
<1> HIDE DEF r
<1>5. /\ row' = [row EXCEPT ![c] = r] /\ row'[c] = r
      /\ \A d \in Call \ {c} : row'[d] = row[d] /\ at'[d] = at[d] /\ answer'[d] = answer[d]
      /\ at'[c] = (IF Reviewed(c, raw) THEN "review" ELSE "done")
      /\ answer'[c] = (IF Reviewed(c, raw) /\ eval[c].ask.route = "api" THEN None
                       ELSE Decision(c, raw))
      /\ eval' = [eval EXCEPT ![c] = None] /\ late' = late /\ rev' = rev
      /\ mode' = mode /\ policy' = policy /\ changes' = changes
      /\ may' = may /\ lesson' = lesson
  BY <1>3 DEF Insert, r, IInv, TypeOK
<1>6. made' = made \cup {c}
  BY <1>4, <1>5, NothingAssumption DEF made
<1>7. Decision(c, raw) \in Outcome
  BY <1>2, DecisionOfCall
<1>8. TypeOK'
  <2>1. /\ row' \in [Call -> Row \cup {None}] /\ at' \in [Call -> Stage]
        /\ answer' \in [Call -> Outcome \cup {None, "stale"}]
        /\ eval' \in [Call -> Evaluation \cup {None}]
    BY <1>3, <1>4, <1>5, <1>7 DEF IInv, TypeOK, Stage
  <2>2. /\ paths' \subseteq [place : Places, by : Party]
        /\ scope' \in [rev : Nat, places : SUBSET [place : Places, by : Party]]
    BY <1>1, <1>3, LearntOutright DEF IInv
  <2> QED
    BY <1>5, <1>6, <2>1, <2>2 DEF IInv, TypeOK
<1>9. Staged'
  BY <1>1, <1>4, <1>5, <1>6 DEF IInv, Staged, Reviewed
<1>10. RowsSound'
  <2> SUFFICES ASSUME NEW d \in made'
               PROVE  (RowSound(d) /\ PrivateSound(d) /\ CappedSound(d) /\ FloorSound(d))'
    BY DEF RowsSound
  <2>1. CASE d = c
    <3>1. r.ref \in made => r.ref # c /\ row'[r.ref] = row[r.ref] /\ r.ref \in made'
      BY <1>1, <1>5, <1>6 DEF made
    <3>2. None # "user" /\ None # "judge"
      BY NothingAssumption
    <3>3. (RowSound(c) /\ CappedSound(c))'
      BY <1>4, <1>5, <1>7, <3>2, NothingAssumption DEF RowSound, CappedSound, Outcome
    <3>4. PrivateSound(c)'
      BY <1>4, <1>5, <3>2 DEF PrivateSound
    <3>5. FloorSound(c)'
      BY <1>4, <1>5, <3>1 DEF FloorSound
    <3> QED
      BY <2>1, <3>3, <3>4, <3>5
  <2>2. CASE d # c
    <3>1. d \in made /\ row'[d] = row[d] /\ at'[d] = at[d] /\ answer'[d] = answer[d]
      BY <1>5, <1>6, <2>2 DEF made
    <3>2. \A e \in made : row'[e] = row[e] /\ e \in made'
      BY <1>1, <1>5, <1>6 DEF made
    <3> QED
      BY <3>1, <3>2
      DEF IInv, RowsSound, RowSound, PrivateSound, CappedSound, FloorSound
  <2> QED
    BY <2>1, <2>2
<1>11. ScopeSound'
  <2>1. \A a \in Action : Denied(a)' => Denied(a)
    BY <1>1, <1>4, <1>5, <1>6, NothingAssumption DEF Denied, made
  <2>2. \A d \in Call : at'[d] \in {"begun", "judged"} =>
                         at'[d] = at[d] /\ eval'[d] = eval[d]
    BY <1>5 DEF IInv, TypeOK
  <2> QED
    BY <1>5, <2>1, <2>2, ScopeKept DEF IInv, TypeOK
<1>12. DenialOutlivesScope'
  <2>1. r.via = "scope" => ~r.vetoed
    BY <1>1, <1>3, <1>4 DEF IInv, ScopeSound, Admissible
  <2> QED
    BY <1>1, <1>4, <1>5, <1>6, <2>1 DEF IInv, DenialOutlivesScope, made
<1> QED
  BY <1>8, <1>9, <1>10, <1>11, <1>12 DEF IInv

-----------------------------------------------------------------------------
(* Review *)

LEMMA PermittedVerdicts ==
  ASSUME TypeOK
  PROVE  Permitted(policy) \subseteq Verdict
<1>1. policy.allowed \in {None} \cup SUBSET Verdict
  BY InputAssumption DEF TypeOK
<1> QED
  BY <1>1 DEF Permitted, Verdict

LEMMA LoadStep ==
  ASSUME IInv, NEW c \in Call, Load(c)
  PROVE  IInv'
<1> USE DEF Load, sessionVars, cacheVars
<1>1. JudgeMay(c) \subseteq Verdict
  BY PermittedVerdicts DEF JudgeMay, Verdict, IInv
<1>2. TypeOK'
  BY <1>1 DEF IInv, TypeOK, Stage, made
<1>3. Staged'
  BY DEF IInv, Staged, TypeOK, made, Reviewable, Floor
<1>4. RowsSound' /\ DenialOutlivesScope'
  BY SameRows DEF IInv, Staged, TypeOK, made
<1>5. ScopeSound'
  BY ScopeKept, SameDenials DEF IInv, TypeOK
<1> QED
  BY <1>2, <1>3, <1>4, <1>5 DEF IInv

LEMMA GiveUpStep ==
  ASSUME IInv, NEW c \in Call, GiveUp(c)
  PROVE  IInv'
<1> USE DEF GiveUp, sessionVars, cacheVars
<1>1. TypeOK'
  BY DEF IInv, TypeOK, Stage, made
<1>2. Staged'
  BY DEF IInv, Staged, TypeOK, made
<1>3. RowsSound' /\ DenialOutlivesScope'
  BY SameRows DEF IInv, Staged, TypeOK, made
<1>4. ScopeSound'
  BY ScopeKept, SameDenials DEF IInv, TypeOK
<1> QED
  BY <1>1, <1>2, <1>3, <1>4 DEF IInv

LEMMA ReplyStep ==
  ASSUME IInv, NEW c \in Call, Reply(c)
  PROVE  IInv'
<1> USE DEF Reply, sessionVars, cacheVars, reviewVars
<1>1. c \in made /\ row[c] \in Row /\ row[c].decision = "escalate"
  BY MadeRows DEF IInv, Staged
<1>2. TypeOK'
  BY <1>1 DEF IInv, TypeOK, Stage, made, Row, Outcome
<1>3. Staged'
  BY DEF IInv, Staged, TypeOK, made
<1>4. made' = made
  BY DEF made
<1>5. RowsSound'
  <2> SUFFICES ASSUME NEW d \in made
               PROVE  (RowSound(d) /\ PrivateSound(d) /\ CappedSound(d) /\ FloorSound(d))'
    BY <1>4 DEF RowsSound
  <2>1. RowSound(d) /\ PrivateSound(d) /\ CappedSound(d) /\ FloorSound(d)
    BY DEF IInv, RowsSound
  <2>2. RowSound(d)' /\ FloorSound(d)'
    BY <2>1, <1>4 DEF RowSound, FloorSound
  <2>3. CASE d = c
    <3>1. /\ at'[c] = "done"
          /\ answer'[c] = (IF answer[c] # None THEN answer[c]
                           ELSE IF row[c].by # None THEN row[c].effect ELSE "escalate")
      BY DEF IInv, TypeOK
    <3>2. row[c].by \in {None, "user", "judge"} /\ None # "judge" /\ None # "user"
      BY <1>1, NothingAssumption DEF Row
    <3>3. PrivateSound(c)'
      BY <2>1, <2>3, <3>1, <3>2 DEF PrivateSound, RowSound, Unsettled
    <3>4. CappedSound(c)'
      BY <2>1, <2>3, <3>1, <3>2 DEF CappedSound, RowSound
    <3> QED
      BY <2>2, <2>3, <3>3, <3>4
  <2>4. CASE d # c
    BY <2>1, <2>2, <2>4 DEF PrivateSound, CappedSound, made
  <2> QED
    BY <2>3, <2>4
<1>6. ScopeSound'
  BY ScopeKept, SameDenials DEF IInv, TypeOK
<1> QED
  BY <1>2, <1>3, <1>4, <1>5, <1>6 DEF IInv, DenialOutlivesScope

\* A late or timely note changes nothing but the override of an attended call.
LEMMA AnnotateRows ==
  ASSUME IInv, NEW c \in made, row[c].override # "private", Annotate(c), answer' = answer,
         \A d \in Call : at[d] = "done" => at'[d] = "done"
  PROVE  /\ row' \in [Call -> Row \cup {None}] /\ made' = made
         /\ RowsSound' /\ DenialOutlivesScope'
         /\ \A d \in made : row[d].override # "private" => row'[d].override # "private"
         /\ \A d \in made : row'[d].decision = row[d].decision /\ row'[d].min = row[d].min
         /\ \A d \in Call : row[d] = None => row'[d] = None
         /\ \A a \in Action : Denied(a)' => Denied(a)
<1>1. c \in Call /\ row[c] \in Row
  BY MadeRows DEF IInv
<1>2. PICK o \in {row[c].override, "capped"} :
        row' = [row EXCEPT ![c].override = o]
  BY DEF Annotate
<1>3. o \in {"none", "private", "capped"} /\ o # "private"
  BY <1>1, <1>2 DEF Row
<1>4. /\ row'[c] = [row[c] EXCEPT !.override = o]
      /\ \A d \in Call \ {c} : row'[d] = row[d]
  BY <1>1, <1>2 DEF IInv, TypeOK
<1>5. row'[c] \in Row
  BY <1>1, <1>3, <1>4 DEF Row
<1>6. row' \in [Call -> Row \cup {None}]
  BY <1>1, <1>2, <1>3, <1>5 DEF IInv, TypeOK, Row
<1>7. made' = made
  BY <1>4, <1>5, NothingAssumption DEF made
<1>8. \A d \in made :
        /\ row'[d].action = row[d].action /\ row'[d].raw = row[d].raw
        /\ row'[d].decision = row[d].decision /\ row'[d].effect = row[d].effect
        /\ row'[d].by = row[d].by /\ row'[d].vetoed = row[d].vetoed
        /\ row'[d].max = row[d].max /\ row'[d].min = row[d].min
        /\ row'[d].lone = row[d].lone /\ row'[d].ref = row[d].ref /\ row'[d].via = row[d].via
        /\ d # c => row'[d].override = row[d].override
  BY <1>1, <1>4 DEF Row, made
<1>9. row'[c].override = o
  BY <1>1, <1>4 DEF Row
<1>10. \A d \in made : (RowSound(d) /\ CappedSound(d) /\ FloorSound(d))'
  BY <1>7, <1>8 DEF IInv, RowsSound, RowSound, CappedSound, FloorSound
<1>11. \A d \in made : PrivateSound(d)'
  BY <1>3, <1>8, <1>9 DEF IInv, RowsSound, PrivateSound, made
<1>12. RowsSound' /\ DenialOutlivesScope'
  BY <1>7, <1>8, <1>10, <1>11 DEF RowsSound, IInv, DenialOutlivesScope
<1>13. \A a \in Action : Denied(a)' => Denied(a)
  BY <1>7, <1>8 DEF Denied
<1> QED
  BY <1>3, <1>4, <1>6, <1>7, <1>8, <1>9, <1>12, <1>13 DEF made

LEMMA NoteStep ==
  ASSUME IInv, NEW c \in Call, Note(c) \/ NoteLate(c)
  PROVE  IInv'
<1>1. /\ c \in made /\ row[c].override # "private" /\ Annotate(c)
      /\ answer' = answer /\ eval' = eval /\ may' = may /\ lesson' = lesson
      /\ paths' = paths /\ scope' = scope /\ mode' = mode /\ policy' = policy
      /\ rev' = rev /\ changes' = changes
  BY DEF Note, NoteLate, IInv, Staged, sessionVars, cacheVars, reviewVars
<1>2. /\ late' \subseteq late
      /\ \A d \in Call :
           at'[d] = at[d] \/ (d = c /\ at[c] = "noting" /\ at'[c] = "ended")
      /\ at' \in [Call -> Stage]
  <2>1. CASE Note(c)
    BY <2>1 DEF Note, IInv, TypeOK, Stage, reviewVars
  <2>2. CASE NoteLate(c)
    BY <2>2 DEF NoteLate, IInv, TypeOK, sessionVars, cacheVars
  <2> QED
    BY <2>1, <2>2
<1>3. /\ row' \in [Call -> Row \cup {None}] /\ made' = made
      /\ RowsSound' /\ DenialOutlivesScope'
      /\ \A d \in made : row[d].override # "private" => row'[d].override # "private"
      /\ \A d \in made : row'[d].decision = row[d].decision /\ row'[d].min = row[d].min
      /\ \A d \in Call : row[d] = None => row'[d] = None
      /\ \A a \in Action : Denied(a)' => Denied(a)
  BY <1>1, <1>2, AnnotateRows
<1>4. TypeOK'
  BY <1>1, <1>2, <1>3 DEF IInv, TypeOK
<1>5. Staged'
  BY <1>1, <1>2, <1>3 DEF IInv, Staged
<1>6. ScopeSound'
  BY <1>1, <1>2, <1>3, ScopeKept DEF IInv, TypeOK
<1> QED
  BY <1>3, <1>4, <1>5, <1>6 DEF IInv

\* A resolution by the Judge or by a human.
LEMMA ResolveRows ==
  ASSUME IInv, NEW c \in made, NEW by \in {"user", "judge"},
         NEW decision \in {"approve", "deny"}, Resolve(c, by, decision),
         row[c].by # "user", answer' = answer,
         by = "user" => row[c].override # "private",
         by = "judge" => /\ row[c].decision = "escalate" /\ at[c] # "done"
                         /\ decision = "approve" => row[c].min \notin Floor
                         /\ decision = "deny" => row[c].max # "escalate" \/ row[c].lone,
         \A d \in Call : at[d] = "done" => at'[d] = "done"
  PROVE  /\ row' \in [Call -> Row \cup {None}] /\ made' = made
         /\ RowsSound' /\ DenialOutlivesScope'
         /\ \A d \in made : /\ row'[d].decision = row[d].decision
                             /\ row'[d].min = row[d].min
                             /\ row'[d].override = row[d].override
         /\ \A d \in Call : row[d] = None => row'[d] = None
         /\ by = "judge" \/ decision = "approve" => \A a \in Action : Denied(a)' => Denied(a)
<1>1. c \in Call /\ row[c] \in Row
  BY MadeRows DEF IInv
<1>2. /\ row'[c] = [row[c] EXCEPT !.by = by, !.effect = decision]
      /\ \A d \in Call \ {c} : row'[d] = row[d]
  BY <1>1 DEF Resolve, IInv, TypeOK
<1>3. row'[c] \in Row
  BY <1>1, <1>2 DEF Row, Outcome
<1>4. row' \in [Call -> Row \cup {None}]
  BY <1>1, <1>2, <1>3 DEF Resolve, IInv, TypeOK, Row, Outcome
<1>5. made' = made
  BY <1>2, <1>3, NothingAssumption DEF made
<1>6. \A d \in made :
        /\ row'[d].action = row[d].action /\ row'[d].raw = row[d].raw
        /\ row'[d].decision = row[d].decision /\ row'[d].override = row[d].override
        /\ row'[d].vetoed = row[d].vetoed
        /\ row'[d].max = row[d].max /\ row'[d].min = row[d].min
        /\ row'[d].lone = row[d].lone /\ row'[d].ref = row[d].ref /\ row'[d].via = row[d].via
        /\ d # c => row'[d].by = row[d].by /\ row'[d].effect = row[d].effect
  <2>1. \A d \in made \ {c} : row'[d] = row[d]
    BY <1>2 DEF made
  <2>2. /\ row'[c].action = row[c].action /\ row'[c].raw = row[c].raw
        /\ row'[c].decision = row[c].decision /\ row'[c].override = row[c].override
        /\ row'[c].max = row[c].max /\ row'[c].min = row[c].min
        /\ row'[c].ref = row[c].ref /\ row'[c].via = row[c].via
    BY <1>1, <1>2 DEF Row
  <2>3. row'[c].vetoed = row[c].vetoed /\ row'[c].lone = row[c].lone
    BY <1>1, <1>2 DEF Row
  <2> QED
    BY <2>1, <2>2, <2>3
<1>7. row'[c].by = by /\ row'[c].effect = decision
  BY <1>1, <1>2 DEF Row
<1>8. None # "user" /\ None # "judge"
  BY NothingAssumption
<1>9. \A d \in made : RowSound(d) /\ PrivateSound(d) /\ CappedSound(d) /\ FloorSound(d)
  BY DEF IInv, RowsSound
<1>10. \A d \in made : RowSound(d)'
  BY <1>6, <1>7, <1>8, <1>9 DEF RowSound
<1>11. \A d \in made : PrivateSound(d)'
  BY <1>6, <1>7, <1>8, <1>9 DEF PrivateSound, made
<1>12. \A d \in made : CappedSound(d)'
  BY <1>6, <1>7, <1>8, <1>9 DEF CappedSound
<1>13. \A d \in made : FloorSound(d)'
  BY <1>5, <1>6, <1>7, <1>9 DEF FloorSound
<1>14. RowsSound' /\ DenialOutlivesScope'
  BY <1>5, <1>6, <1>10, <1>11, <1>12, <1>13 DEF RowsSound, IInv, DenialOutlivesScope
<1>15. by = "judge" \/ decision = "approve" => \A a \in Action : Denied(a)' => Denied(a)
  BY <1>5, <1>6, <1>7 DEF Denied
<1> QED
  BY <1>2, <1>4, <1>5, <1>6, <1>14, <1>15 DEF made

\* What follows for a step that resolves a row and moves at most that call.
LEMMA ResolvedStep ==
  ASSUME IInv, row' \in [Call -> Row \cup {None}], made' = made,
         RowsSound', DenialOutlivesScope',
         \A d \in made : /\ row'[d].decision = row[d].decision
                         /\ row'[d].min = row[d].min
                         /\ row'[d].override = row[d].override,
         \A d \in Call : row[d] = None => row'[d] = None,
         at' \in [Call -> Stage],
         \A d \in Call : at'[d] = at[d] \/ (at[d] = "thinking" /\ at'[d] = "ended"),
         UNCHANGED <<mode, policy, changes, paths, scope, eval, may, late, answer>>,
         rev' \in Nat, rev <= rev',
         rev' = rev => \A a \in Action : Denied(a)' => Denied(a),
         lesson' # None => lesson'.call \in made /\ lesson'.rev \in Nat
  PROVE  IInv'
<1>1. TypeOK'
  BY DEF IInv, TypeOK
<1>2. Staged'
  BY DEF IInv, Staged
<1>3. ScopeSound'
  BY ScopeKept DEF IInv
<1> QED
  BY <1>1, <1>2, <1>3 DEF IInv

LEMMA FallbackStep ==
  ASSUME IInv, NEW c \in Call, Fallback(c)
  PROVE  IInv'
<1>1. /\ c \in made /\ row[c].decision = "escalate" /\ at[c] = "ended"
      /\ row[c].lone /\ row[c].by # "user" /\ Resolve(c, "judge", "deny")
      /\ at' = at /\ answer' = answer
  BY DEF Fallback, Unsettled, IInv, Staged, RowsSound, PrivateSound
<1>2. /\ row' \in [Call -> Row \cup {None}] /\ made' = made
      /\ RowsSound' /\ DenialOutlivesScope'
      /\ \A d \in made : /\ row'[d].decision = row[d].decision
                          /\ row'[d].min = row[d].min
                          /\ row'[d].override = row[d].override
      /\ \A d \in Call : row[d] = None => row'[d] = None
      /\ \A a \in Action : Denied(a)' => Denied(a)
  BY <1>1, ResolveRows
<1> QED
  BY <1>1, <1>2, ResolvedStep
  DEF Fallback, IInv, TypeOK, sessionVars, cacheVars, reviewVars

LEMMA AnswerStep ==
  ASSUME IInv, NEW c \in Call, NEW said \in Verdict, Answer(c, said)
  PROVE  IInv'
<1>1. /\ at[c] = "thinking" /\ c \in made /\ row[c].decision = "escalate"
      /\ row[c].min \notin Floor
      /\ answer' = answer /\ eval' = eval /\ may' = may /\ late' = late
      /\ paths' = paths /\ scope' = scope /\ mode' = mode /\ policy' = policy
      /\ rev' = rev /\ changes' = changes
  BY DEF Answer, IInv, Staged, sessionVars, cacheVars
<1>2. CASE said = "deny" /\ DenialCapped(c)
  <2>1. /\ at' = [at EXCEPT ![c] = "noting"] /\ row' = row /\ lesson' = lesson
        /\ row[c].override # "private"
    BY <1>2 DEF Answer, DenialCapped
  <2>2. TypeOK'
    BY <1>1, <2>1 DEF IInv, TypeOK, Stage, made
  <2>3. Staged'
    BY <1>1, <2>1 DEF IInv, Staged, TypeOK, made
  <2>4. RowsSound' /\ DenialOutlivesScope'
    BY <1>1, <2>1, SameRows DEF IInv, TypeOK, made
  <2>5. ScopeSound'
    BY <1>1, <2>1, ScopeKept, SameDenials DEF IInv, TypeOK
  <2> QED
    BY <2>2, <2>3, <2>4, <2>5 DEF IInv
<1>3. CASE ~(said = "deny" /\ DenialCapped(c))
  <2>1. at' = [at EXCEPT ![c] = "ended"]
    BY <1>3 DEF Answer
  <2>2. /\ at' \in [Call -> Stage]
        /\ \A d \in Call : at'[d] = at[d] \/ (at[d] = "thinking" /\ at'[d] = "ended")
        /\ \A d \in Call : at[d] = "done" => at'[d] = "done"
    BY <1>1, <2>1 DEF IInv, TypeOK, Stage
  <2>3. CASE row' = row /\ lesson' = lesson
    <3>1. RowsSound' /\ DenialOutlivesScope' /\ made' = made
      BY <1>1, <2>2, <2>3, SameRows DEF IInv, made
    <3>2. \A a \in Action : Denied(a)' => Denied(a)
      BY <2>3, SameDenials
    <3> QED
      BY <1>1, <2>2, <2>3, <3>1, <3>2, ResolvedStep DEF IInv, TypeOK
  <2>4. CASE ~(row' = row /\ lesson' = lesson)
    <3>1. /\ said # "defer" /\ Resolvable(c, "judge") /\ Resolve(c, "judge", said)
          /\ lesson' = IF said = "approve" THEN [call |-> c, rev |-> rev] ELSE None
      BY <1>3, <2>4 DEF Answer
    <3>2. said \in {"approve", "deny"} /\ row[c].by # "user"
      BY <3>1, NothingAssumption DEF Verdict, Resolvable
    <3>3. said = "deny" => row[c].max # "escalate" \/ row[c].lone
      BY <1>1, <1>3 DEF DenialCapped, IInv, RowsSound, PrivateSound
    <3>4. /\ row' \in [Call -> Row \cup {None}] /\ made' = made
          /\ RowsSound' /\ DenialOutlivesScope'
          /\ \A d \in made : /\ row'[d].decision = row[d].decision
                              /\ row'[d].min = row[d].min
                              /\ row'[d].override = row[d].override
          /\ \A d \in Call : row[d] = None => row'[d] = None
          /\ \A a \in Action : Denied(a)' => Denied(a)
      BY <1>1, <2>2, <3>1, <3>2, <3>3, ResolveRows
    <3>5. lesson' # None => lesson'.call \in made /\ lesson'.rev \in Nat
      BY <1>1, <3>1 DEF IInv, TypeOK
    <3> QED
      BY <1>1, <2>2, <3>4, <3>5, ResolvedStep DEF IInv, TypeOK
  <2> QED
    BY <2>3, <2>4
<1> QED
  BY <1>2, <1>3

-----------------------------------------------------------------------------
(* Clients *)

LEMMA HumanStep ==
  ASSUME IInv, NEW c \in Call, NEW decision \in {"approve", "deny"}, Human(c, decision)
  PROVE  IInv'
<1>1. /\ c \in made /\ row[c].by # "user" /\ row[c].override # "private"
      /\ Resolve(c, "user", decision) /\ at' = at /\ answer' = answer
      /\ rev' = rev + 1
      /\ lesson' = IF decision = "approve" THEN [call |-> c, rev |-> rev + 1] ELSE None
  BY NothingAssumption DEF Human, Resolvable
<1>2. /\ row' \in [Call -> Row \cup {None}] /\ made' = made
      /\ RowsSound' /\ DenialOutlivesScope'
      /\ \A d \in made : /\ row'[d].decision = row[d].decision
                          /\ row'[d].min = row[d].min
                          /\ row'[d].override = row[d].override
      /\ \A d \in Call : row[d] = None => row'[d] = None
  BY <1>1, ResolveRows
<1>3. rev \in Nat /\ rev' \in Nat /\ rev <= rev' /\ rev' # rev
  BY <1>1 DEF IInv, TypeOK
<1>4. lesson' # None => lesson'.call \in made /\ lesson'.rev \in Nat
  BY <1>1, <1>3
<1> QED
  BY <1>1, <1>2, <1>3, <1>4, ResolvedStep DEF Human, IInv, TypeOK, cacheVars

\* Learning, the policy and the evidence leave rows, calls and answers alone.
LEMMA SessionStep ==
  ASSUME IInv, TypeOK', UNCHANGED <<row, at, eval, late, answer>>, rev <= rev'
  PROVE  IInv'
<1>1. made' = made
  BY DEF made
<1>2. Staged'
  BY <1>1 DEF IInv, Staged
<1>3. RowsSound' /\ DenialOutlivesScope'
  BY SameRows DEF IInv
<1>4. ScopeSound'
  BY ScopeKept, SameDenials DEF IInv, TypeOK
<1> QED
  BY <1>2, <1>3, <1>4 DEF IInv

LEMMA LearnStep ==
  ASSUME IInv, Learn
  PROVE  IInv'
<1>1. lesson.call \in made /\ row[lesson.call] \in Row
  BY MadeRows DEF IInv, TypeOK, Learn
<1> DEFINE r == row[lesson.call]
<1>2. r.action \in Action /\ r.by \in Party /\ Entry(r.action, r.by) \in [place : Places, by : Party]
  BY <1>1 DEF Row, Party, Entry, Places
<1>3. Trusted(r.action, r.by) \subseteq [place : Places, by : Party]
  BY <1>2 DEF Trusted, IInv, TypeOK
<1>4. Opened(r.action, r.by, rev) \in [rev : Nat, places : SUBSET [place : Places, by : Party]]
  <2>1. /\ scope.rev \in Nat /\ scope.places \subseteq [place : Places, by : Party] /\ rev \in Nat
        /\ scope \in [rev : Nat, places : SUBSET [place : Places, by : Party]]
    BY DEF IInv, TypeOK
  <2> HIDE DEF r
  <2> QED
    BY <1>2, <2>1 DEF Opened
<1>5. TypeOK'
  <2>1. /\ paths' \subseteq [place : Places, by : Party]
        /\ scope' \in [rev : Nat, places : SUBSET [place : Places, by : Party]]
    BY <1>3, <1>4 DEF Learn, IInv, TypeOK
  <2> QED
    BY <2>1 DEF Learn, IInv, TypeOK, sessionVars, made
<1> QED
  BY <1>5, SessionStep DEF Learn, sessionVars, IInv, TypeOK

LEMMA SetPolicyStep ==
  ASSUME IInv, NEW p \in SessionPolicy, SetPolicy(p)
  PROVE  IInv'
<1>1. TypeOK'
  BY DEF SetPolicy, IInv, TypeOK, cacheVars, reviewVars, made
<1> QED
  BY <1>1, SessionStep DEF SetPolicy, reviewVars, IInv, TypeOK

LEMMA EvidenceStep ==
  ASSUME IInv, Evidence
  PROVE  IInv'
<1>1. TypeOK'
  BY DEF Evidence, IInv, TypeOK, cacheVars, reviewVars, made
<1> QED
  BY <1>1, SessionStep DEF Evidence, reviewVars, IInv, TypeOK

-----------------------------------------------------------------------------
(* Theorems *)

LEMMA InitHolds == Init => IInv
<1> SUFFICES ASSUME Init PROVE IInv
  OBVIOUS
<1>1. made = {}
  BY DEF Init, made
<1>2. TypeOK
  BY <1>1 DEF Init, TypeOK, Stage
<1>3. Staged
  BY <1>1 DEF Init, Staged
<1> QED
  BY <1>1, <1>2, <1>3 DEF IInv, RowsSound, ScopeSound, DenialOutlivesScope, Init

LEMMA NextHolds == IInv /\ [Next]_vars => IInv'
<1> SUFFICES ASSUME IInv, [Next]_vars PROVE IInv'
  OBVIOUS
<1>1. ASSUME NEW c \in Call, CallStep(c) PROVE IInv'
  BY <1>1, BeginStep, LookupStep, InsertStep, RefuseStep, LoadStep, AnswerStep, NoteStep,
     GiveUpStep, FallbackStep, ReplyStep, HumanStep DEF CallStep
<1>2. CASE UNCHANGED vars
  <2>1. TypeOK'
    BY <1>2 DEF IInv, TypeOK, vars, sessionVars, cacheVars, reviewVars, made
  <2> QED
    BY <1>2, <2>1, SessionStep DEF vars, sessionVars, reviewVars, IInv, TypeOK
<1> QED
  BY <1>1, <1>2, LearnStep, SetPolicyStep, EvidenceStep DEF Next

\* The inductive invariant of the legacy evaluation and its review.
THEOREM ReviewInvariant == Spec => []IInv
<1> QED
  BY InitHolds, NextHolds, PTL DEF Spec

\* Every variable of the evaluations, their rows and their reviews keeps its type.
THEOREM ReviewTyped == Spec => []TypeOK
<1>1. IInv => TypeOK
  BY DEF IInv
<1> QED
  BY <1>1, ReviewInvariant, PTL

\* An unattended call left to the Judge is settled by the Judge and never told to
\* be pending, whatever fails, times out or comes late.
THEOREM UnattendedAlwaysSettled == Spec => []UnattendedSettledByJudge
<1>1. IInv => UnattendedSettledByJudge
  <2> SUFFICES ASSUME IInv, NEW c \in made, row[c].lone, row[c].decision = "escalate"
               PROVE  /\ row[c].by # "user"
                      /\ row[c].effect = "approve" => row[c].by = "judge"
                      /\ answer[c] # None =>
                           answer[c] = row[c].effect /\ answer[c] # "escalate"
    BY DEF UnattendedSettledByJudge
  <2>1. RowSound(c) /\ PrivateSound(c) /\ row[c] \in Row
    BY MadeRows DEF IInv, RowsSound
  <2> QED
    BY <2>1 DEF RowSound, PrivateSound, Row
<1> QED
  BY <1>1, ReviewInvariant, PTL

\* A denial that the ceiling of a call leaves to a human is never the Judge's,
\* under whatever policies the session has.
THEOREM CappedDenialAlwaysWaits == Spec => []CappedDenialWaits
<1>1. IInv => CappedDenialWaits
  <2> SUFFICES ASSUME IInv, NEW c \in made, row[c].max = "escalate", ~row[c].lone,
                      row[c].by = "judge"
               PROVE  row[c].effect = "approve" /\ answer[c] # "deny"
    BY DEF CappedDenialWaits
  <2>1. RowSound(c) /\ CappedSound(c)
    BY DEF IInv, RowsSound
  <2> QED
    BY <2>1 DEF RowSound, CappedSound
<1> QED
  BY <1>1, ReviewInvariant, PTL

\* No call under a floor takes effect without a human, through whatever caches,
\* reviews and late answers.
THEOREM FloorAlwaysHeld == Spec => []FloorHeld
<1>1. IInv => FloorHeld
  BY DEF IInv, RowsSound, FloorSound, FloorHeld, Floor
<1> QED
  BY <1>1, ReviewInvariant, PTL

\* No write scope lets an action pass that a human had denied by its admission.
THEOREM DenialAlwaysOutlivesScope == Spec => []DenialOutlivesScope
<1>1. IInv => DenialOutlivesScope
  BY DEF IInv
<1> QED
  BY <1>1, ReviewInvariant, PTL

-----------------------------------------------------------------------------
(* The audit row of a proxied call *)

Place == {"fast", "line", "recheck", "connect", "failing", "claim", "send", "call", "record",
          "doubt", "evict", "close", "closing", "unhook", "end"}
Execution == {"not_dispatched", "dispatched", "completed", "uncertain"}
Marking   == {"dispatched", "completed", "uncertain"}

RowsTyped ==
  /\ place \in [Actor -> Place]
  /\ exec \in [ToolCall -> Execution] /\ marks \in [ToolCall -> SUBSET Marking]
  /\ sent \in SUBSET ToolCall /\ answered \in SUBSET ToolCall

\* A call that may send, or has, was dispatched, and a thread that is to write an
\* answer or a doubt was started by an answer, or after the call was sent.
RowTruthful(c) ==
  /\ place[c] \in {"send", "call", "record", "doubt"} => exec[c] # "not_dispatched"
  /\ place[c] \in {"call", "record", "doubt"} => c \in sent
  /\ c \in sent => exec[c] # "not_dispatched"
  /\ "completed" \in marks[c] => c \in answered
  /\ "uncertain" \in marks[c] => c \in sent
  /\ exec[c] = "completed" => c \in answered
  /\ exec[c] = "uncertain" => c \in sent

RowInv == RowsTyped /\ \A c \in ToolCall : RowTruthful(c)

\* Where a call may go without saying anything new of its row.
LEMMA RowUnmoved ==
  ASSUME RowInv, NEW a \in Actor, NEW p \in Place,
         place' = [place EXCEPT ![a] = p] \/ place' = place,
         p \notin {"send", "call", "record", "doubt"},
         UNCHANGED <<exec, sent, answered>>,
         marks' \in [ToolCall -> SUBSET Marking],
         \A c \in ToolCall : marks'[c] = marks[c] \/ marks'[c] = marks[c] \cup {"dispatched"}
                             \/ (marks'[c] = marks[c] \cup {"uncertain"} /\ c \in sent)
  PROVE  RowInv'
<1>1. RowsTyped'
  BY DEF RowInv, RowsTyped
<1>2. ASSUME NEW c \in ToolCall PROVE RowTruthful(c)'
  <2>1. RowTruthful(c) /\ c \in Actor
    BY DEF RowInv, Actor
  <2>2. place'[c] = place[c] \/ place'[c] = p
    BY <2>1 DEF RowInv, RowsTyped
  <2>3. /\ "completed" \in marks'[c] => "completed" \in marks[c]
        /\ "uncertain" \in marks'[c] => "uncertain" \in marks[c] \/ c \in sent
    OBVIOUS
  <2> QED
    BY <2>1, <2>2, <2>3 DEF RowTruthful
<1> QED
  BY <1>1, <1>2 DEF RowInv

LEMMA UseOfRow ==
  ASSUME RowInv, NEW c \in ToolCall, NEW i, Use(c, i), UNCHANGED <<exec, sent, answered>>
  PROVE  RowInv'
<1>1. c \in Actor /\ {"claim", "end"} \subseteq Place
  BY DEF Actor, Place
<1>2. PICK p \in {"claim", "end"} :
        /\ place' = [place EXCEPT ![c] = p]
        /\ marks' = [marks EXCEPT ![c] = @ \cup {"dispatched"}] \/ marks' = marks
  BY DEF Use
<1>3. marks \in [ToolCall -> SUBSET Marking]
  BY DEF RowInv, RowsTyped
<1>4. /\ marks' \in [ToolCall -> SUBSET Marking]
      /\ \A d \in ToolCall : marks'[d] = marks[d] \/ marks'[d] = marks[d] \cup {"dispatched"}
  BY <1>2, <1>3 DEF Marking
<1> QED
  BY <1>1, <1>2, <1>4, RowUnmoved

LEMMA MarkOfRow ==
  ASSUME RowInv, NEW c \in ToolCall, NEW state \in Marking, Mark(c, state)
  PROVE  RowInv'
<1>1. /\ c \in Actor /\ place \in [Actor -> Place] /\ exec \in [ToolCall -> Execution]
      /\ marks \in [ToolCall -> SUBSET Marking] /\ RowTruthful(c)
  BY DEF RowInv, RowsTyped, Actor
<1>2. /\ state \in marks[c] /\ UNCHANGED <<sent, answered>>
      /\ marks' = [marks EXCEPT ![c] = @ \ {state}]
  BY DEF Mark
<1>3. /\ exec'[c] = IF exec[c] = Before(state) THEN state ELSE exec[c]
      /\ exec' \in [ToolCall -> Execution]
      /\ \A d \in ToolCall : d # c => exec'[d] = exec[d]
  BY <1>1 DEF Mark, Claimable, Marking, Execution
<1>4. /\ place' \in [Actor -> Place] /\ \A d \in Actor : d # c => place'[d] = place[d]
      /\ \/ place'[c] = place[c] \/ place'[c] \in {"end", "evict"}
         \/ place'[c] = "send" /\ exec'[c] = "dispatched"
  <2>1. state = "dispatched" \/ state = "completed" \/ state = "uncertain"
    BY DEF Marking
  <2>2. Then[state] \in {"send", "end", "evict"} /\ (Then[state] = "send" => state = "dispatched")
    BY <2>1 DEF Then
  <2>3. \/ place' = place
        \/ place' = [place EXCEPT ![c] = "end"]
        \/ place' = [place EXCEPT ![c] = Then[state]] /\ exec'[c] = state
    BY <1>1 DEF Mark, Claimable
  <2> QED
    BY <1>1, <2>2, <2>3 DEF Place
<1>5. RowTruthful(c)'
  <2>1. exec[c] # "not_dispatched" => exec'[c] # "not_dispatched"
    BY <1>3 DEF Marking
  <2>2. /\ exec'[c] = "completed" => exec[c] = "completed" \/ state = "completed"
        /\ exec'[c] = "uncertain" => exec[c] = "uncertain" \/ state = "uncertain"
    BY <1>3
  <2>3. "completed" \in marks'[c] => "completed" \in marks[c]
    BY <1>1, <1>2
  <2>4. "uncertain" \in marks'[c] => "uncertain" \in marks[c]
    BY <1>1, <1>2
  <2> QED
    BY <1>1, <1>2, <1>4, <2>1, <2>2, <2>3, <2>4 DEF RowTruthful
<1>6. \A d \in ToolCall : d # c => RowTruthful(d)'
  <2>1. \A d \in ToolCall : d \in Actor /\ RowTruthful(d)
    BY DEF RowInv, Actor
  <2>2. \A d \in ToolCall : d # c => marks'[d] = marks[d]
    BY <1>1, <1>2
  <2> QED
    BY <1>2, <1>3, <1>4, <2>1, <2>2 DEF RowTruthful
<1>7. marks' \in [ToolCall -> SUBSET Marking]
  BY <1>1, <1>2
<1> QED
  BY <1>2, <1>3, <1>4, <1>5, <1>6, <1>7 DEF RowInv, RowsTyped

\* Sending a call, and what becomes of it.
LEMMA CallOfRow ==
  ASSUME RowInv, NEW c \in ToolCall, Send(c) \/ CallReturns(c) \/ CallFails(c)
  PROVE  RowInv'
<1>1. /\ c \in Actor /\ place \in [Actor -> Place] /\ RowTruthful(c)
      /\ marks \in [ToolCall -> SUBSET Marking]
      /\ sent \in SUBSET ToolCall /\ answered \in SUBSET ToolCall
  BY DEF RowInv, RowsTyped, Actor
<1>2. /\ exec' = exec /\ place[c] \in {"send", "call"} /\ (place[c] = "call" \/ sent' = sent \cup {c})
      /\ sent' \in {sent, sent \cup {c}} /\ answered' \in {answered, answered \cup {c}}
      /\ \E p \in {"call", "record", "doubt"} : place' = [place EXCEPT ![c] = p]
      /\ \/ marks' = marks
         \/ marks' = [marks EXCEPT ![c] = @ \cup {"completed"}] /\ answered' = answered \cup {c}
         \/ marks' = [marks EXCEPT ![c] = @ \cup {"uncertain"}] /\ place[c] = "call"
  BY DEF Send, CallReturns, CallFails
<1>3. /\ place' \in [Actor -> Place] /\ \A d \in Actor : d # c => place'[d] = place[d]
      /\ marks' \in [ToolCall -> SUBSET Marking] /\ \A d \in ToolCall : d # c => marks'[d] = marks[d]
      /\ sent' \in SUBSET ToolCall /\ answered' \in SUBSET ToolCall
  BY <1>1, <1>2 DEF Place, Marking
<1>4. c \in sent'
  BY <1>1, <1>2 DEF RowTruthful
<1>5. RowTruthful(c)'
  <2>1. "completed" \in marks'[c] => "completed" \in marks[c] \/ c \in answered'
    BY <1>1, <1>2
  <2>2. exec[c] # "not_dispatched"
    BY <1>1, <1>2 DEF RowTruthful
  <2> QED
    BY <1>1, <1>2, <1>4, <2>1, <2>2 DEF RowTruthful
<1>6. \A d \in ToolCall : d # c => RowTruthful(d)'
  <2>1. \A d \in ToolCall : d \in Actor /\ RowTruthful(d)
    BY DEF RowInv, Actor
  <2>2. \A d \in ToolCall : d # c => (d \in sent' <=> d \in sent) /\ (d \in answered' <=> d \in answered)
    BY <1>2
  <2> QED
    BY <1>2, <1>3, <2>1, <2>2 DEF RowTruthful
<1> QED
  BY <1>2, <1>3, <1>5, <1>6 DEF RowInv, RowsTyped

LEMMA CancelOfRow ==
  ASSUME RowInv, NEW c \in ToolCall, Cancel(c)
  PROVE  RowInv'
<1>1. /\ c \in Actor /\ "end" \in Place /\ RowTruthful(c) /\ marks \in [ToolCall -> SUBSET Marking]
  BY DEF RowInv, RowsTyped, Actor, Place
<1>2. /\ place' = [place EXCEPT ![c] = "end"] /\ UNCHANGED <<exec, sent, answered>>
      /\ \/ marks' = marks
         \/ Doubts(c) /\ marks' = [marks EXCEPT ![c] = @ \cup {"uncertain"}]
  BY DEF Cancel
<1>3. Doubts(c) => c \in sent
  BY <1>1 DEF Doubts, RowTruthful
<1>4. /\ marks' \in [ToolCall -> SUBSET Marking]
      /\ \A d \in ToolCall : marks'[d] = marks[d] \/ marks'[d] = marks[d] \cup {"dispatched"}
                             \/ (marks'[d] = marks[d] \cup {"uncertain"} /\ d \in sent)
  BY <1>1, <1>2, <1>3 DEF Marking
<1> QED
  BY <1>1, <1>2, <1>4, RowUnmoved

\* What has to do with connections only.
LEMMA RowElsewhere ==
  ASSUME RowInv,
         \/ \E c \in ToolCall : \/ Refused(c) \/ Lock(c) \/ HandOver(c) \/ ConnectFailed(c) \/ Raise(c)
                                \/ Evict(c) \/ Closed(c) \/ Evicted(c)
         \/ \E t \in Id : TaskStep(t)
         \/ Sweep \/ SweepStep
         \/ \E i \in Id : Break(i)
  PROVE  RowInv'
<1>1. UNCHANGED rowVars
  BY DEF Refused, Lock, HandOver, ConnectFailed, Raise, Evict, Closed, Evicted, TaskStep, BeginConnect,
         BeginClose, BeginStop, FinishConnect, FinishClose, Sweep, SweepStep, SweepClose, Swept, Break
<1>2. Sweeper \in Actor /\ \A c \in ToolCall : c \in Actor
  BY DEF Actor
<1>3. \/ place' = place
      \/ \E a \in Actor, p \in Place \ {"send", "call", "record", "doubt"} : place' = [place EXCEPT ![a] = p]
  <2>1. CASE \E c \in ToolCall : \/ Refused(c) \/ Lock(c) \/ HandOver(c) \/ ConnectFailed(c) \/ Raise(c)
                                 \/ Evict(c) \/ Closed(c) \/ Evicted(c)
    <3>1. PICK c \in ToolCall : \/ Refused(c) \/ Lock(c) \/ HandOver(c) \/ ConnectFailed(c)
                               \/ Raise(c) \/ Evict(c) \/ Closed(c) \/ Evicted(c)
      BY <2>1
    <3>2. \E p \in {"evict", "line", "recheck", "failing", "end", "closing", "unhook"} :
            place' = [place EXCEPT ![c] = p]
      BY <3>1 DEF Refused, Lock, HandOver, ConnectFailed, Raise, Evict, Closed, Evicted, Unhook
    <3>3. {"evict", "line", "recheck", "failing", "end", "closing", "unhook"}
            \subseteq Place \ {"send", "call", "record", "doubt"}
      BY DEF Place
    <3> QED
      BY <1>2, <3>2, <3>3
  <2>2. CASE \/ \E t \in Id : TaskStep(t)
             \/ \E i \in Id : Break(i)
    BY <2>2 DEF TaskStep, BeginConnect, BeginClose, BeginStop, FinishConnect, FinishClose, Break, callVars
  <2>3. CASE Sweep \/ SweepStep
    BY <1>2, <2>3 DEF Sweep, SweepStep, SweepClose, Swept, Closed, Unhook, Proceed, Place
  <2> QED
    BY <2>1, <2>2, <2>3
<1>4. UNCHANGED <<exec, sent, answered>> /\ marks' = marks /\ marks' \in [ToolCall -> SUBSET Marking]
  BY <1>1 DEF rowVars, RowInv, RowsTyped
<1>5. CASE place' = place
  BY <1>1, <1>5 DEF rowVars, RowInv, RowsTyped, RowTruthful
<1>6. ASSUME NEW a \in Actor, NEW p \in Place \ {"send", "call", "record", "doubt"},
             place' = [place EXCEPT ![a] = p]
      PROVE  RowInv'
  BY <1>4, <1>6, RowUnmoved
<1> QED
  BY <1>3, <1>5, <1>6

LEMMA RowNext ==
  ASSUME RowInv, [McpNext]_mcpVars
  PROVE  RowInv'
<1>1. ASSUME NEW c \in ToolCall, Cached(c) \/ Store(c) PROVE RowInv'
  <2>1. (\E i : Use(c, i)) /\ UNCHANGED <<exec, sent, answered>>
    BY <1>1 DEF Cached, Store
  <2> QED
    BY <2>1, UseOfRow
<1>2. ASSUME NEW c \in ToolCall, Recheck(c) PROVE RowInv'
  <2>1. UNCHANGED <<exec, sent, answered>>
    BY <1>2 DEF Recheck
  <2>2. CASE Use(c, cache[server[c]])
    BY <2>1, <2>2, UseOfRow
  <2>3. CASE place' = [place EXCEPT ![c] = "connect"] /\ marks' = marks
    BY <2>1, <2>3, RowUnmoved DEF Actor, Place, RowInv, RowsTyped
  <2> QED
    BY <1>2, <2>2, <2>3 DEF Recheck
<1>3. ASSUME NEW c \in ToolCall, MarkStep(c) \/ Cancel(c) \/ Send(c) \/ CallReturns(c) \/ CallFails(c)
      PROVE  RowInv'
  BY <1>3, MarkOfRow, CancelOfRow, CallOfRow DEF MarkStep, Marking
<1>4. CASE UNCHANGED mcpVars
  <2>1. UNCHANGED <<place, exec, marks, sent, answered>>
    BY <1>4 DEF mcpVars, callVars, rowVars
  <2> QED
    BY <2>1 DEF RowInv, RowsTyped, RowTruthful
<1> QED
  BY <1>1, <1>2, <1>3, <1>4, RowElsewhere DEF McpNext, ProxyStep

LEMMA RowInit == McpInit => RowInv
  BY DEF McpInit, McpInitAt, RowInv, RowsTyped, RowTruthful, Actor, Place, Execution, Marking

\* The audit row of a proxied call tells the truth of what was sent and answered,
\* whatever is cancelled while threads that write it are still on their way.
THEOREM RowAlwaysTrue == McpSpec => []RowTellsTruth
<1>1. RowInv => RowTellsTruth
  BY DEF RowInv, RowTruthful, RowTellsTruth
<1> QED
  BY <1>1, RowInit, RowNext, PTL DEF McpSpec

\* Only a claim from the state before may change the row, so no final state goes.
THEOREM FinalAlwaysStays == McpSpec => FinalStateStays
<1>1. RowInv /\ [McpNext]_mcpVars =>
        [\A c \in ToolCall : exec[c] \in {"completed", "uncertain"} => exec'[c] = exec[c]]_mcpVars
  <2> SUFFICES ASSUME RowInv, McpNext, NEW c \in ToolCall, exec[c] \in {"completed", "uncertain"}
               PROVE  exec'[c] = exec[c]
    OBVIOUS
  <2>1. ASSUME NEW d \in ToolCall, NEW state \in Marking, Mark(d, state) PROVE exec'[c] = exec[c]
    <3>1. exec \in [ToolCall -> Execution] /\ Before(state) \in {"not_dispatched", "dispatched"}
      BY DEF RowInv, RowsTyped, Before
    <3> QED
      BY <2>1, <3>1 DEF Mark, Claimable
  <2>2. ASSUME NEW d \in ToolCall, ProxyStep(d) \/ Cancel(d) PROVE exec' = exec
    BY <2>2 DEF ProxyStep, Cancel, Cached, Refused, Lock, HandOver, Recheck, Store, ConnectFailed, Raise,
                Send, CallReturns, CallFails, Evict, Closed, Evicted, rowVars
  <2>3. ASSUME (\E t \in Id : TaskStep(t)) \/ Sweep \/ SweepStep \/ (\E i \in Id : Break(i))
        PROVE  exec' = exec
    BY <2>3 DEF TaskStep, BeginConnect, BeginClose, BeginStop, FinishConnect, FinishClose, Sweep,
                SweepStep, SweepClose, Closed, Swept, Break, rowVars
  <2> QED
    BY <2>1, <2>2, <2>3 DEF McpNext, MarkStep, Marking
<1> QED
  BY <1>1, RowInit, RowNext, PTL DEF McpSpec, FinalStateStays

-----------------------------------------------------------------------------
(* Connections, locks and lifecycle tasks, while no call was cancelled and no lock
   was dropped *)

Calm == ~orphaned /\ spent.cancels = 0

Holding    == {"recheck", "connect", "failing"}
Connecting == {"connect", "failing"}
Closing    == {"closing", "unhook"}
Waiting    == {"connect", "closing"}
Leaving    == {"failing", "unhook"}

InLine(c) == \E n \in 1..Len(line[mine[c]]) : line[mine[c]][n] = c

\* A call that waits for a server's lock or holds it does so for the one that counts.
LockSound(c) ==
  /\ place[c] \in {"line"} \cup Holding => mine[c] = lockOf[server[c]] /\ mine[c] \in Id
  /\ place[c] = "line" => InLine(c)
  /\ place[c] \in Holding => holder[mine[c]] = c

\* Who closes holds the mutex, and the sweep has still something to close.
MutexSound ==
  /\ \A a \in Actor : place[a] \in {"close"} \cup Closing => mutex = a
  /\ \A c \in ToolCall : place[c] # "close"
  /\ place[Sweeper] \in {"end", "close"} \cup Closing
  /\ place[Sweeper] = "end" => mutex # Sweeper
  /\ place[Sweeper] = "close" => cache[server[Sweeper]] # 0
  /\ mutex = Sweeper => \A s \in idle : cache[s] # 0 /\ s # server[Sweeper]

\* Opening and closing connections of a server exclude one another.
PhasesApart ==
  \A a, b \in Actor : place[a] \in Connecting /\ place[b] \in Closing => server[a] # server[b]

\* A lifecycle task at rest, and one with one thing to do for an actor.
Rests(t) == t \notin ended /\ queue[t] = <<>> /\ doing[t] = Resting

Kinds == [connect |-> "connect", closing |-> "close"]

Pending(a, t) ==
  /\ place[a] \in Waiting /\ future[a] = "pending" /\ t \notin ended
  /\ \/ queue[t] = <<Op(Kinds[place[a]], a)>> /\ doing[t] = Resting
     \/ /\ queue[t] = <<>> /\ doing[t] = Op(Kinds[place[a]], a)
        /\ place[a] = "closing" => cache[server[a]] = 0

Served(a, t) ==
  /\ place[a] \in Waiting /\ future[a] \in {"ok", "error"} /\ Rests(t)
  /\ place[a] = "closing" => cache[server[a]] = 0
  /\ place[a] = "connect" /\ future[a] = "ok" => client[a] \in Id /\ owner[client[a]] = t

Stopping(a, t) ==
  /\ place[a] \in Leaving /\ awaited[a] = t /\ cache[server[a]] = 0 /\ doing[t] = Resting
  /\ \/ t \notin ended /\ queue[t] = <<Op("stop", a)>>
     \/ t \in ended /\ queue[t] = <<>>

Uses(a, s) == place[a] \in Connecting \cup Closing /\ server[a] = s

UseSound(a, s) ==
  /\ taskOf[s] # 0
  /\ place[a] \in Connecting => cache[s] = 0
  /\ Pending(a, taskOf[s]) \/ Served(a, taskOf[s]) \/ Stopping(a, taskOf[s])

\* A server's task serves the one who uses it, and owns its connection.
ServerSound(s) ==
  /\ \A a \in Actor : Uses(a, s) => UseSound(a, s)
  /\ (\A a \in Actor : ~Uses(a, s)) /\ taskOf[s] # 0 => Rests(taskOf[s])
  /\ cache[s] # 0 => taskOf[s] # 0 /\ owner[cache[s]] = taskOf[s]

TasksApart == \A s, r \in Server : taskOf[s] = taskOf[r] /\ taskOf[s] # 0 => s = r

\* Any other task has ended or is still to come, and so are connections.
Spare(t) == queue[t] = <<>> /\ doing[t] = Resting /\ (t \in ended <=> t <= created.task)

TasksSound ==
  /\ \A s \in Server : taskOf[s] <= created.task
  /\ \A t \in Id : (\A s \in Server : taskOf[s] # t) => Spare(t)

LinksSound == \A i \in Id : i > created.link => link[i] = "new" /\ owner[i] = 0

CallsTyped ==
  /\ place \in [Actor -> Place] /\ server \in [Actor -> Server]
  /\ client \in [Actor -> 0..MaxMade] /\ mine \in [Actor -> 0..MaxMade]
  /\ future \in [Actor -> {"none", "pending", "ok", "error", "cancelled"}]
  /\ awaited \in [Actor -> 0..MaxMade]

PoolTyped ==
  /\ cache \in [Server -> 0..MaxMade]
  /\ link \in [Id -> {"new", "open", "dead", "closing", "closed"}]
  /\ owner \in [Id -> 0..MaxMade] /\ idle \in SUBSET Server
  /\ created \in [{"link", "task", "lock"} -> 0..MaxMade]

LocksTyped ==
  /\ lockOf \in [Server -> 0..MaxMade]
  /\ holder \in [Id -> Actor \cup {Nobody}] /\ line \in [Id -> Seq(Actor)]

TasksTyped ==
  /\ taskOf \in [Server -> 0..MaxMade]
  /\ queue \in [Id -> Seq(Operation)] /\ doing \in [Id -> Operation]
  /\ ended \in SUBSET Id

Reachable(i) ==
  \/ \E s \in Server : cache[s] = i
  \/ \E c \in ToolCall : place[c] = "connect" /\ future[c] = "ok" /\ client[c] = i

ConnInv ==
  /\ \A c \in ToolCall : LockSound(c)
  /\ MutexSound /\ PhasesApart
  /\ \A s \in Server : ServerSound(s)
  /\ TasksApart /\ TasksSound /\ LinksSound
  /\ \A i \in Id : link[i] = "open" => Reachable(i)

\* The bounds of faults say nothing of it.
CalmInv ==
  /\ orphaned \in BOOLEAN /\ spent \in [{"cancels", "sweeps", "deaths"} -> Nat]
  /\ Calm => CallsTyped /\ PoolTyped /\ LocksTyped /\ TasksTyped /\ ConnInv

-----------------------------------------------------------------------------
(* What a step of one actor leaves to the others *)

Sound == CallsTyped /\ PoolTyped /\ LocksTyped /\ TasksTyped /\ ConnInv

Busy == {"line", "close"} \cup Holding \cup Closing

OthersStay(a) ==
  \A b \in Actor : b # a =>
    /\ place'[b] = place[b] /\ server'[b] = server[b] /\ client'[b] = client[b]
    /\ mine'[b] = mine[b] /\ future'[b] = future[b] /\ awaited'[b] = awaited[b]

\* A server has one user at a time: those that connect hold its lock, those that close
\* hold the mutex.
LEMMA UsersAlone ==
  ASSUME Sound, NEW s \in Server, NEW a \in Actor, NEW b \in Actor, Uses(a, s), Uses(b, s)
  PROVE  a = b
<1>1. ASSUME NEW x \in Actor, place[x] \in Connecting, server[x] = s
      PROVE  holder[lockOf[s]] = x
  <2>1. x \in ToolCall
    BY <1>1 DEF Sound, ConnInv, MutexSound, Actor, Connecting, Closing
  <2> QED
    BY <1>1, <2>1 DEF Sound, ConnInv, LockSound, Connecting, Holding
<1>2. ASSUME NEW x \in Actor, place[x] \in Closing PROVE mutex = x
  BY <1>2 DEF Sound, ConnInv, MutexSound
<1>3. ~(place[a] \in Connecting /\ place[b] \in Closing) /\ ~(place[b] \in Connecting /\ place[a] \in Closing)
  BY DEF Uses, Sound, ConnInv, PhasesApart
<1> QED
  BY <1>1, <1>2, <1>3 DEF Uses

\* Where nothing moved, a server's task serves on.
LEMMA ServerKept ==
  ASSUME Sound, NEW r \in Server, NEW a \in Actor, OthersStay(a), ~Uses(a, r), ~Uses(a, r)',
         taskOf'[r] = taskOf[r], cache'[r] = cache[r],
         \A t \in Id : t = taskOf[r] =>
           queue'[t] = queue[t] /\ doing'[t] = doing[t] /\ (t \in ended' <=> t \in ended),
         \A i \in Id : owner[i] # 0 => owner'[i] = owner[i]
  PROVE  ServerSound(r)'
<1>1. /\ ServerSound(r) /\ taskOf[r] \in 0..MaxMade /\ cache[r] \in 0..MaxMade /\ MaxMade \in Nat
  BY McpAssumption DEF Sound, ConnInv, TasksTyped, PoolTyped
<1>2. taskOf[r] # 0 => taskOf[r] \in Id
  BY <1>1 DEF Id
<1>3. ASSUME NEW b \in Actor, Uses(b, r)' PROVE UseSound(b, r)'
  <2>1. /\ b # a /\ Uses(b, r) /\ UseSound(b, r)
        /\ place'[b] = place[b] /\ server'[b] = server[b] /\ client'[b] = client[b]
        /\ future'[b] = future[b] /\ awaited'[b] = awaited[b]
    BY <1>1, <1>3 DEF Uses, OthersStay, ServerSound
  <2>2. /\ taskOf[r] \in Id /\ server[b] = r
    BY <1>2, <2>1 DEF UseSound, Uses
  <2>3. Pending(b, taskOf[r]) => Pending(b, taskOf[r])'
    BY <2>1, <2>2 DEF Pending
  <2>4. Served(b, taskOf[r]) => Served(b, taskOf[r])'
    <3>1. client[b] \in Id /\ owner[client[b]] = taskOf[r] => owner'[client[b]] = taskOf[r]
      BY <2>2 DEF Id
    <3> QED
      BY <2>1, <2>2, <3>1 DEF Served, Rests
  <2>5. Stopping(b, taskOf[r]) => Stopping(b, taskOf[r])'
    BY <2>1, <2>2 DEF Stopping
  <2> QED
    BY <2>1, <2>3, <2>4, <2>5 DEF UseSound
<1>4. (\A b \in Actor : ~Uses(b, r)') /\ taskOf'[r] # 0 => Rests(taskOf[r])'
  <2>1. (\A b \in Actor : ~Uses(b, r)') => \A b \in Actor : ~Uses(b, r)
    BY DEF Uses, OthersStay
  <2> QED
    BY <1>1, <1>2, <2>1 DEF ServerSound, Rests
<1>5. cache'[r] # 0 => taskOf'[r] # 0 /\ owner'[cache'[r]] = taskOf'[r]
  <2>1. cache[r] # 0 => cache[r] \in Id /\ taskOf[r] # 0 /\ owner[cache[r]] = taskOf[r]
    BY <1>1 DEF ServerSound, Id
  <2> QED
    BY <2>1
<1> QED
  BY <1>3, <1>4, <1>5 DEF ServerSound

LEMMA LocksKept ==
  ASSUME Sound, NEW a \in Actor, OthersStay(a), server'[a] = server[a], mine'[a] = mine[a],
         UNCHANGED <<lockOf, line>>,
         place'[a] = "line" => place[a] = "line", place'[a] \in Holding => place[a] \in Holding,
         \A l \in Id, b \in Actor : holder[l] = b /\ (b = a => place'[a] \in Holding) => holder'[l] = b
  PROVE  \A c \in ToolCall : LockSound(c)'
<1> SUFFICES ASSUME NEW c \in ToolCall PROVE LockSound(c)'
  OBVIOUS
<1>1. /\ c \in Actor /\ LockSound(c) /\ server'[c] = server[c] /\ mine'[c] = mine[c]
      /\ place'[c] = place[c] \/ c = a
  BY DEF Sound, ConnInv, Actor, OthersStay
<1>2. /\ place'[c] = "line" => place[c] = "line"
      /\ place'[c] \in Holding => place[c] \in Holding
  BY <1>1
<1>3. InLine(c) => InLine(c)'
  BY <1>1 DEF InLine
<1> QED
  BY <1>1, <1>2, <1>3 DEF LockSound

LEMMA PhasesKept ==
  ASSUME Sound, NEW a \in Actor, OthersStay(a),
         place'[a] \in Connecting =>
           /\ server'[a] = server[a]
           /\ \/ place[a] \in Connecting
              \/ \A b \in Actor : place[b] \in Closing => server[b] # server[a],
         place'[a] \in Closing =>
           /\ server'[a] = server[a]
           /\ \/ place[a] \in Closing
              \/ \A b \in Actor : place[b] \in Connecting => server[b] # server[a]
  PROVE  PhasesApart'
<1> SUFFICES ASSUME NEW x \in Actor, NEW y \in Actor, place'[x] \in Connecting, place'[y] \in Closing
             PROVE  server'[x] # server'[y]
  BY DEF PhasesApart, Connecting, Closing
<1>1. x # y
  BY DEF Connecting, Closing
<1>2. PhasesApart
  BY DEF Sound, ConnInv
<1>3. CASE x = a
  BY <1>1, <1>2, <1>3 DEF PhasesApart, OthersStay
<1>4. CASE y = a
  BY <1>1, <1>2, <1>4 DEF PhasesApart, OthersStay
<1>5. CASE x # a /\ y # a
  BY <1>2, <1>5 DEF PhasesApart, OthersStay
<1> QED
  BY <1>3, <1>4, <1>5

\* A step of a call that neither starts nor ends to close.
LEMMA MutexKept ==
  ASSUME Sound, NEW c \in ToolCall, OthersStay(c), UNCHANGED <<mutex, idle>>,
         place'[c] \in Closing => place[c] \in Closing, place'[c] # "close",
         \A s \in Server : mutex = Sweeper /\ cache[s] # 0 => cache'[s] # 0
  PROVE  MutexSound'
<1>1. /\ Sweeper \in Actor /\ Sweeper # c /\ MutexSound
      /\ place'[Sweeper] = place[Sweeper] /\ server'[Sweeper] = server[Sweeper]
      /\ server[Sweeper] \in Server /\ c \in Actor
  BY McpAssumption DEF Actor, OthersStay, Sound, ConnInv, CallsTyped
<1>2. \A b \in Actor : place'[b] \in {"close"} \cup Closing => place[b] \in {"close"} \cup Closing
  BY DEF OthersStay
<1>3. \A d \in ToolCall : place'[d] # "close"
  BY <1>1 DEF MutexSound, OthersStay, Actor
<1>4. place'[Sweeper] = "close" => cache'[server'[Sweeper]] # 0
  BY <1>1 DEF MutexSound
<1>5. mutex' = Sweeper => \A s \in idle' : cache'[s] # 0 /\ s # server'[Sweeper]
  BY <1>1 DEF MutexSound, Sound, PoolTyped
<1> QED
  BY <1>1, <1>2, <1>3, <1>4, <1>5 DEF MutexSound

LEMMA TasksKept ==
  ASSUME Sound, UNCHANGED taskVars, created'.task = created.task
  PROVE  TasksApart' /\ TasksSound' /\ TasksTyped'
  BY DEF taskVars, Sound, ConnInv, TasksApart, TasksSound, TasksTyped, Spare

LEMMA LinksKept ==
  ASSUME Sound, UNCHANGED <<link, owner>>, created'.link = created.link
  PROVE  LinksSound'
  BY DEF Sound, ConnInv, LinksSound

LEMMA ReachKept ==
  ASSUME Sound, NEW a \in Actor, OthersStay(a), UNCHANGED cache,
         \A i \in Id : link'[i] = "open" => link[i] = "open",
         place[a] = "connect" /\ future[a] = "ok" =>
           place'[a] = "connect" /\ future'[a] = "ok" /\ client'[a] = client[a]
  PROVE  \A i \in Id : link'[i] = "open" => Reachable(i)'
<1> SUFFICES ASSUME NEW i \in Id, link'[i] = "open" PROVE Reachable(i)'
  OBVIOUS
<1>1. Reachable(i)
  BY DEF Sound, ConnInv
<1>2. ASSUME NEW c \in ToolCall, place[c] = "connect", future[c] = "ok", client[c] = i
      PROVE  place'[c] = "connect" /\ future'[c] = "ok" /\ client'[c] = i
  BY <1>2 DEF OthersStay, Actor
<1> QED
  BY <1>1, <1>2 DEF Reachable

LEMMA SoundStays ==
  ASSUME Sound,
         UNCHANGED <<place, server, client, mine, future, awaited, poolVars, lockVars, taskVars,
                     created>>
  PROVE  Sound'
<1>1. UNCHANGED <<cache, link, owner, mutex, idle, lockOf, holder, line, taskOf, queue, doing, ended>>
  BY DEF poolVars, lockVars, taskVars
<1>2. CallsTyped' /\ PoolTyped' /\ LocksTyped' /\ TasksTyped'
  BY <1>1 DEF Sound, CallsTyped, PoolTyped, LocksTyped, TasksTyped
<1>3. (\A d \in ToolCall : LockSound(d)') /\ MutexSound' /\ PhasesApart'
  BY <1>1 DEF Sound, ConnInv, LockSound, InLine, MutexSound, PhasesApart
<1>4. TasksApart' /\ TasksSound' /\ LinksSound' /\ (\A i \in Id : link'[i] = "open" => Reachable(i)')
  BY <1>1 DEF Sound, ConnInv, TasksApart, TasksSound, Spare, LinksSound, Reachable
<1>5. \A s \in Server : ServerSound(s)'
  BY <1>1 DEF Sound, ConnInv, ServerSound, Uses, UseSound, Pending, Served, Stopping, Rests
<1> QED
  BY <1>2, <1>3, <1>4, <1>5 DEF Sound, ConnInv

(***************************************************************************)
(* Steps of calls that have to do with no connection and no task            *)
(***************************************************************************)
LEMMA QuietStep ==
  ASSUME Sound, NEW c \in ToolCall, OthersStay(c), CallsTyped', LocksTyped',
         created' \in [{"link", "task", "lock"} -> 0..MaxMade],
         place[c] \notin Connecting \cup Closing, place'[c] \notin Connecting \cup Closing \cup {"close"},
         UNCHANGED <<poolVars, taskVars>>, created'.task = created.task, created'.link = created.link,
         \A d \in ToolCall : LockSound(d)'
  PROVE  Sound'
<1>1. UNCHANGED <<cache, link, owner, mutex, idle, taskOf, queue, doing, ended>>
  BY DEF poolVars, taskVars
<1>2. c \in Actor
  BY DEF Actor
<1>3. MutexSound'
  BY <1>1, MutexKept
<1>4. PhasesApart'
  BY <1>2, PhasesKept
<1>5. \A r \in Server : ServerSound(r)'
  <2> SUFFICES ASSUME NEW r \in Server PROVE ServerSound(r)'
    OBVIOUS
  <2>1. ~Uses(c, r) /\ ~Uses(c, r)'
    BY DEF Uses
  <2> QED
    BY <1>1, <1>2, <2>1, ServerKept
<1>6. LinksSound' /\ TasksApart' /\ TasksSound' /\ TasksTyped'
  BY <1>1, TasksKept, LinksKept
<1>7. \A i \in Id : link'[i] = "open" => Reachable(i)'
  BY <1>1, <1>2, ReachKept DEF Connecting
<1>8. PoolTyped'
  BY <1>1 DEF Sound, PoolTyped
<1> QED
  BY <1>3, <1>4, <1>5, <1>6, <1>7, <1>8 DEF Sound, ConnInv

\* Where a call is that waits for nothing of a connection.
AtLarge == {"fast", "claim", "send", "call", "record", "doubt", "evict", "end"}

LEMMA FreeStep ==
  ASSUME Sound, NEW c \in ToolCall, place[c] \in AtLarge,
         NEW p \in AtLarge, place' = [place EXCEPT ![c] = p] \/ place' = place,
         client' = client \/ \E i \in 0..MaxMade : client' = [client EXCEPT ![c] = i],
         UNCHANGED <<server, mine, future, awaited, poolVars, lockVars, taskVars, created>>
  PROVE  Sound'
<1>1. /\ c \in Actor /\ CallsTyped /\ LocksTyped /\ PoolTyped
      /\ UNCHANGED <<lockOf, holder, line>>
  BY DEF Actor, Sound, lockVars
<1>2. AtLarge \subseteq Place /\ AtLarge \cap Busy = {} /\ "connect" \notin AtLarge
  BY DEF AtLarge, Place, Busy, Holding, Closing
<1>3. OthersStay(c) /\ CallsTyped' /\ LocksTyped' /\ place'[c] \in AtLarge
  BY <1>1, <1>2 DEF OthersStay, CallsTyped, LocksTyped
<1>4. \A d \in ToolCall : LockSound(d)'
  BY <1>1, <1>2, <1>3, LocksKept DEF Busy
<1>5. Connecting \subseteq Busy /\ Closing \subseteq Busy /\ "close" \in Busy
  BY DEF Busy, Connecting, Holding
<1> QED
  BY <1>1, <1>2, <1>3, <1>4, <1>5, QuietStep DEF PoolTyped

\* Cached, Refused, the steps of the proxied call itself, and nothing to evict.
LEMMA UseFree ==
  ASSUME Sound, NEW c \in ToolCall, NEW i \in 0..MaxMade, Use(c, i)
  PROVE  /\ client' = [client EXCEPT ![c] = i]
         /\ \E p \in {"claim", "end"} : place' = [place EXCEPT ![c] = p]
  BY DEF Use

LEMMA ProxyFree ==
  ASSUME Sound, NEW c \in ToolCall,
         \/ Cached(c) \/ Refused(c) \/ Send(c) \/ CallReturns(c) \/ CallFails(c)
         \/ (Evict(c) /\ ~Evictable(c))
  PROVE  Sound'
<1>1. ASSUME Cached(c) PROVE Sound'
  <2>1. cache[server[c]] \in 0..MaxMade
    BY DEF Sound, CallsTyped, PoolTyped, Actor
  <2>2. /\ Use(c, cache[server[c]]) /\ place[c] = "fast"
        /\ UNCHANGED <<server, mine, future, awaited, poolVars, lockVars, taskVars, created>>
    BY <1>1 DEF Cached
  <2>3. PICK p \in {"claim", "end"} : place' = [place EXCEPT ![c] = p]
    BY <2>1, <2>2, UseFree
  <2>4. client' = [client EXCEPT ![c] = cache[server[c]]]
    BY <2>1, <2>2, UseFree
  <2> QED
    BY <2>1, <2>2, <2>3, <2>4, FreeStep DEF AtLarge
<1>2. ASSUME Refused(c) \/ Send(c) \/ CallReturns(c) \/ CallFails(c) \/ (Evict(c) /\ ~Evictable(c))
      PROVE  Sound'
  <2>1. /\ place[c] \in AtLarge /\ client' = client
        /\ \E p \in {"evict", "call", "record", "doubt", "end"} : place' = [place EXCEPT ![c] = p]
        /\ UNCHANGED <<server, mine, future, awaited, poolVars, lockVars, taskVars, created>>
    BY <1>2 DEF Refused, Send, CallReturns, CallFails, Evict, AtLarge, poolVars
  <2> QED
    BY <2>1, FreeStep DEF AtLarge
<1> QED
  BY <1>1, <1>2

LEMMA MarkFree ==
  ASSUME Sound, NEW c \in ToolCall, MarkStep(c)
  PROVE  Sound'
<1>1. PICK state \in {"dispatched", "completed", "uncertain"} : Mark(c, state)
  BY DEF MarkStep
<1>2. /\ Waits[state] \in {"claim", "record", "doubt"} /\ Then[state] \in {"send", "end", "evict"}
  BY DEF Waits, Then
<1>3. UNCHANGED <<server, client, mine, future, awaited, poolVars, lockVars, taskVars, created>>
  BY <1>1 DEF Mark
<1>4. CASE place' = place
  BY <1>3, <1>4, SoundStays
<1>5. CASE place[c] = Waits[state] /\ \E p \in {"send", "end", "evict"} : place' = [place EXCEPT ![c] = p]
  BY <1>2, <1>3, <1>5, FreeStep DEF AtLarge
<1> QED
  BY <1>1, <1>2, <1>4, <1>5 DEF Mark

(***************************************************************************)
(* The connect lock                                                         *)
(***************************************************************************)
LEMMA LockStep ==
  ASSUME Sound, NEW c \in ToolCall, Lock(c)
  PROVE  Sound'
<1> DEFINE s == server[c]
<1> DEFINE l == IF lockOf[s] = 0 THEN created.lock + 1 ELSE lockOf[s]
<1>1. /\ c \in Actor /\ CallsTyped /\ LocksTyped /\ PoolTyped /\ s \in Server /\ l \in Id
      /\ lockOf[s] \in 0..MaxMade /\ created.lock \in 0..MaxMade /\ MaxMade \in Nat
  BY McpAssumption DEF Actor, Sound, Lock, CallsTyped, LocksTyped, PoolTyped
<1>2. /\ place[c] = "fast" /\ lockOf' = [lockOf EXCEPT ![s] = l] /\ mine' = [mine EXCEPT ![c] = l]
      /\ created' = [created EXCEPT !.lock = IF lockOf[s] = 0 THEN l ELSE @]
      /\ UNCHANGED <<server, client, future, awaited, poolVars, taskVars>>
      /\ \/ /\ Free(l) /\ holder' = [holder EXCEPT ![l] = c]
            /\ place' = [place EXCEPT ![c] = "recheck"] /\ line' = line
         \/ /\ ~Free(l) /\ line' = [line EXCEPT ![l] = Append(@, c)]
            /\ place' = [place EXCEPT ![c] = "line"] /\ holder' = holder
  BY DEF Lock
<1> HIDE DEF l
<1>3. {"recheck", "line"} \subseteq Place /\ 0..MaxMade = {0} \cup Id
  BY <1>1 DEF Place, Id
<1>4. OthersStay(c) /\ CallsTyped' /\ place'[c] \in {"recheck", "line"}
  BY <1>1, <1>2, <1>3 DEF OthersStay, CallsTyped
<1>5. LocksTyped'
  <2>1. lockOf' \in [Server -> 0..MaxMade]
    BY <1>1, <1>2, <1>3 DEF LocksTyped
  <2>2. holder' \in [Id -> Actor \cup {Nobody}]
    BY <1>1, <1>2 DEF LocksTyped
  <2>3. Append(line[l], c) \in Seq(Actor)
    BY <1>1 DEF LocksTyped
  <2>4. line' \in [Id -> Seq(Actor)]
    BY <1>1, <1>2, <2>3 DEF LocksTyped
  <2> QED
    BY <2>1, <2>2, <2>4 DEF LocksTyped
<1>6. /\ created' \in [{"link", "task", "lock"} -> 0..MaxMade]
      /\ created'.task = created.task /\ created'.link = created.link
  BY <1>1, <1>2, <1>3 DEF PoolTyped
<1>7. ASSUME NEW d \in ToolCall PROVE LockSound(d)'
  <2>1. /\ d \in Actor /\ LockSound(d) /\ mine[d] \in 0..MaxMade /\ server[d] \in Server
    BY <1>1 DEF Sound, ConnInv, Actor, CallsTyped
  <2>2. CASE d = c
    <3>1. mine'[c] = l /\ lockOf'[server'[c]] = l
      BY <1>1, <1>2 DEF CallsTyped, LocksTyped
    <3>2. CASE place'[c] = "recheck"
      <4>1. place' # [place EXCEPT ![c] = "line"]
        BY <1>1, <3>2 DEF CallsTyped
      <4>2. holder'[l] = c
        BY <1>1, <1>2, <4>1 DEF LocksTyped
      <4> QED
        BY <1>1, <2>2, <3>1, <3>2, <4>2 DEF LockSound
    <3>3. CASE place'[c] = "line"
      <4>1. place' # [place EXCEPT ![c] = "recheck"]
        BY <1>1, <3>3 DEF CallsTyped
      <4>2. line'[l] = Append(line[l], c) /\ line[l] \in Seq(Actor)
        BY <1>1, <1>2, <4>1 DEF LocksTyped
      <4>3. Len(line'[l]) = Len(line[l]) + 1 /\ Len(line[l]) \in Nat /\ line'[l][Len(line[l]) + 1] = c
        BY <1>1, <4>2
      <4>4. InLine(c)'
        BY <3>1, <4>3 DEF InLine
      <4> QED
        BY <1>1, <2>2, <3>1, <3>3, <4>4 DEF LockSound, Holding
    <3> QED
      BY <1>4, <2>2, <3>2, <3>3
  <2>3. CASE d # c
    <3>1. place'[d] = place[d] /\ server'[d] = server[d] /\ mine'[d] = mine[d]
      BY <1>4, <2>1, <2>3 DEF OthersStay
    <3>2. CASE place[d] \notin {"line"} \cup Holding
      BY <3>1, <3>2 DEF LockSound
    <3>3. CASE place[d] \in {"line"} \cup Holding
      <4>1. /\ mine[d] = lockOf[server[d]] /\ mine[d] \in Id
            /\ place[d] = "line" => InLine(d)
            /\ place[d] \in Holding => holder[mine[d]] = d
        BY <2>1, <3>3 DEF LockSound
      <4>2. lockOf'[server[d]] = mine[d]
        <5>1. CASE server[d] = s
          BY <1>1, <1>2, <4>1, <5>1 DEF LocksTyped, l, Id
        <5>2. CASE server[d] # s
          BY <1>1, <1>2, <2>1, <4>1, <5>2 DEF LocksTyped
        <5> QED
          BY <5>1, <5>2
      <4>3. holder[mine[d]] = d => holder'[mine[d]] = d
        <5>1. d # Nobody
          BY <2>1, McpAssumption
        <5> QED
          BY <1>1, <1>2, <4>1, <5>1 DEF LocksTyped, Free
      <4>4. InLine(d) => InLine(d)'
        <5> SUFFICES ASSUME InLine(d) PROVE InLine(d)'
          OBVIOUS
        <5>1. PICK n \in 1..Len(line[mine[d]]) : line[mine[d]][n] = d
          BY DEF InLine
        <5>2. line[mine[d]] \in Seq(Actor) /\ n \in 1..Len(line[mine[d]])
          BY <1>1, <4>1 DEF LocksTyped
        <5>3. line'[mine[d]] = line[mine[d]] \/ line'[mine[d]] = Append(line[mine[d]], c)
          BY <1>1, <1>2, <4>1 DEF LocksTyped
        <5>4. n \in 1..Len(line'[mine[d]]) /\ line'[mine[d]][n] = d
          BY <1>1, <5>1, <5>2, <5>3
        <5> QED
          BY <3>1, <5>4 DEF InLine
      <4> QED
        BY <3>1, <4>1, <4>2, <4>3, <4>4 DEF LockSound
    <3> QED
      BY <3>2, <3>3
  <2> QED
    BY <2>2, <2>3
<1>8. /\ place[c] \notin Connecting \cup Closing
      /\ place'[c] \notin Connecting \cup Closing \cup {"close"}
  BY <1>2, <1>4 DEF Connecting, Closing
<1> QED
  BY <1>2, <1>4, <1>5, <1>6, <1>7, <1>8, QuietStep

LEMMA HandOverStep ==
  ASSUME Sound, NEW c \in ToolCall, HandOver(c)
  PROVE  Sound'
<1> DEFINE l == mine[c]
<1>1. /\ c \in Actor /\ CallsTyped /\ LocksTyped /\ PoolTyped /\ MaxMade \in Nat
      /\ place[c] = "line" /\ l \in Id /\ l = lockOf[server[c]] /\ line[l] \in Seq(Actor) /\ line[l] # <<>>
  <2>1. LockSound(c) /\ place[c] = "line" /\ c \in Actor
    BY DEF Sound, ConnInv, HandOver, Actor
  <2>2. l \in Id /\ l = lockOf[server[c]] /\ InLine(c)
    BY <2>1 DEF LockSound
  <2>3. line[l] \in Seq(Actor)
    BY <2>2 DEF Sound, LocksTyped
  <2>4. line[l] # <<>>
    BY <2>2, <2>3 DEF InLine
  <2> QED
    BY <2>1, <2>2, <2>3, <2>4, McpAssumption DEF Sound
<1>2. /\ holder[l] = Nobody /\ Head(line[l]) = c
      /\ line' = [line EXCEPT ![l] = Tail(@)] /\ holder' = [holder EXCEPT ![l] = c]
      /\ place' = [place EXCEPT ![c] = "recheck"]
      /\ UNCHANGED <<server, client, mine, future, awaited, poolVars, lockOf, taskVars, created>>
  BY DEF HandOver
<1>3. OthersStay(c) /\ CallsTyped' /\ place'[c] = "recheck"
  BY <1>1, <1>2 DEF OthersStay, CallsTyped, Place
<1>4. LocksTyped'
  <2>1. Tail(line[l]) \in Seq(Actor)
    BY <1>1
  <2> QED
    BY <1>1, <1>2, <2>1 DEF LocksTyped
<1>5. ASSUME NEW d \in ToolCall PROVE LockSound(d)'
  <2>1. d \in Actor /\ LockSound(d) /\ server'[d] = server[d] /\ mine'[d] = mine[d] /\ lockOf' = lockOf
    BY <1>2 DEF Sound, ConnInv, Actor
  <2>2. CASE d = c
    BY <1>1, <1>2, <1>3, <2>1, <2>2 DEF LockSound, LocksTyped
  <2>3. CASE d # c
    <3>1. place'[d] = place[d]
      BY <1>3, <2>1, <2>3 DEF OthersStay
    <3>2. mine[d] \in Id /\ holder[mine[d]] = d => holder'[mine[d]] = d
      BY <1>1, <1>2, <2>1, McpAssumption DEF LocksTyped
    <3>3. mine[d] \in Id /\ InLine(d) => InLine(d)'
      <4> SUFFICES ASSUME mine[d] \in Id, InLine(d) PROVE InLine(d)'
        OBVIOUS
      <4>1. PICK n \in 1..Len(line[mine[d]]) : line[mine[d]][n] = d
        BY DEF InLine
      <4>2. CASE mine[d] # l
        BY <1>1, <1>2, <2>1, <4>1, <4>2 DEF InLine, LocksTyped
      <4>3. CASE mine[d] = l
        <5>1. line'[l] = Tail(line[l])
          BY <1>1, <1>2 DEF LocksTyped
        <5>2. n # 1
          BY <1>1, <1>2, <2>3, <4>1, <4>3
        <5>3. n \in 2..Len(line[l]) /\ Len(line[l]) \in Nat
          BY <1>1, <4>1, <4>3, <5>2
        <5>4. n - 1 \in 1..Len(Tail(line[l])) /\ Tail(line[l])[n - 1] = line[l][n]
          BY <1>1, <5>3
        <5> QED
          BY <2>1, <4>1, <4>3, <5>1, <5>4 DEF InLine
      <4> QED
        BY <4>2, <4>3
    <3> QED
      BY <2>1, <3>1, <3>2, <3>3 DEF LockSound
  <2> QED
    BY <2>2, <2>3
<1>6. /\ place[c] \notin Connecting \cup Closing
      /\ place'[c] \notin Connecting \cup Closing \cup {"close"}
      /\ created' \in [{"link", "task", "lock"} -> 0..MaxMade]
  BY <1>1, <1>2, <1>3 DEF Connecting, Closing, PoolTyped
<1> QED
  BY <1>2, <1>3, <1>4, <1>5, <1>6, QuietStep

LEMMA ReleaseTyped ==
  ASSUME LocksTyped, NEW c \in ToolCall, Release(c), UNCHANGED <<lockOf, line>>
  PROVE  LocksTyped' /\ \A l \in Id, b \in Actor : holder[l] = b /\ b # c => holder'[l] = b
  BY DEF LocksTyped, Release

\* The connection appeared while the call waited for the lock.
LEMMA RecheckUse ==
  ASSUME Sound, NEW c \in ToolCall, Recheck(c), cache[server[c]] # 0
  PROVE  Sound'
<1>1. /\ c \in Actor /\ CallsTyped /\ LocksTyped /\ PoolTyped /\ cache[server[c]] \in 0..MaxMade
  BY DEF Sound, CallsTyped, PoolTyped, Actor
<1>2. /\ place[c] = "recheck" /\ Use(c, cache[server[c]]) /\ Release(c)
      /\ UNCHANGED <<server, mine, future, awaited, poolVars, lockOf, line, taskVars, created>>
  BY DEF Recheck
<1>3. PICK p \in {"claim", "end"} : place' = [place EXCEPT ![c] = p]
  BY <1>1, <1>2, UseFree
<1>4. client' = [client EXCEPT ![c] = cache[server[c]]]
  BY <1>1, <1>2, UseFree
<1>5. OthersStay(c) /\ CallsTyped' /\ place'[c] = p
  BY <1>1, <1>2, <1>3, <1>4 DEF OthersStay, CallsTyped, Place
<1>6. LocksTyped' /\ \A l \in Id, b \in Actor : holder[l] = b /\ b # c => holder'[l] = b
  BY <1>1, <1>2, ReleaseTyped
<1>7. \A d \in ToolCall : LockSound(d)'
  BY <1>1, <1>2, <1>5, <1>6, LocksKept DEF Holding
<1>8. /\ place[c] \notin Connecting \cup Closing
      /\ place'[c] \notin Connecting \cup Closing \cup {"close"}
      /\ created' \in [{"link", "task", "lock"} -> 0..MaxMade]
  BY <1>1, <1>2, <1>5 DEF Connecting, Closing, PoolTyped
<1> QED
  BY <1>2, <1>5, <1>6, <1>7, <1>8, QuietStep

(***************************************************************************)
(* Submitting an operation: the server has no user, so its task rests       *)
(***************************************************************************)
LEMMA NewTask ==
  ASSUME Sound, NEW s \in Server, \A b \in Actor : ~Uses(b, s),
         NEW u \in Id, u = IF taskOf[s] = 0 \/ taskOf[s] \in ended THEN created.task + 1 ELSE taskOf[s]
  PROVE  /\ queue[u] = <<>> /\ doing[u] = Resting /\ u \notin ended
         /\ \A r \in Server : r # s => taskOf[r] # u
         /\ taskOf[s] # 0 => u = taskOf[s]
         /\ taskOf[s] = 0 => u = created.task + 1
<1>1. /\ taskOf[s] \in 0..MaxMade /\ created.task \in 0..MaxMade /\ MaxMade \in Nat
      /\ \A r \in Server : taskOf[r] \in 0..MaxMade /\ taskOf[r] <= created.task
  BY McpAssumption DEF Sound, TasksTyped, PoolTyped, ConnInv, TasksSound
<1>2. CASE taskOf[s] # 0
  <2>1. Rests(taskOf[s])
    BY <1>2 DEF Sound, ConnInv, ServerSound
  <2>2. u = taskOf[s]
    BY <1>2, <2>1 DEF Rests
  <2>3. \A r \in Server : r # s => taskOf[r] # u
    BY <1>2, <2>2 DEF Sound, ConnInv, TasksApart
  <2> QED
    BY <1>2, <2>1, <2>2, <2>3 DEF Rests
<1>3. CASE taskOf[s] = 0
  <2>1. u = created.task + 1 /\ \A r \in Server : taskOf[r] # u
    BY <1>1, <1>3
  <2>2. Spare(u) /\ ~(u <= created.task)
    BY <1>1, <2>1 DEF Sound, ConnInv, TasksSound
  <2> QED
    BY <1>3, <2>1, <2>2 DEF Spare
<1> QED
  BY <1>2, <1>3

LEMMA SubmitKinds ==
  ASSUME NEW a \in Actor, NEW p \in Waiting
  PROVE  Op(Kinds[p], a) \in Operation /\ p \in Place /\ p \in Connecting \cup Closing
  BY DEF Op, Kinds, Operation, Waiting, Place, Connecting, Closing

LEMMA SubmitStep ==
  ASSUME Sound, NEW a \in Actor, NEW p \in Waiting, Submit(a, server[a], Kinds[p]),
         place' = [place EXCEPT ![a] = p],
         UNCHANGED <<server, client, mine, awaited, cache, link, owner, idle>>,
         \A b \in Actor : ~Uses(b, server[a]),
         p = "connect" => cache[server[a]] = 0
  PROVE  /\ OthersStay(a) /\ CallsTyped' /\ PoolTyped' /\ TasksTyped'
         /\ \A r \in Server : ServerSound(r)'
         /\ TasksApart' /\ TasksSound' /\ LinksSound'
         /\ \A i \in Id : link'[i] = "open" => Reachable(i)'
<1> DEFINE s == server[a]
<1>1. /\ CallsTyped /\ PoolTyped /\ TasksTyped /\ s \in Server /\ MaxMade \in Nat
      /\ taskOf[s] \in 0..MaxMade /\ created.task \in 0..MaxMade
  BY McpAssumption DEF Sound, CallsTyped, TasksTyped, PoolTyped
<1>2. PICK u \in Id :
        /\ u = IF taskOf[s] = 0 \/ taskOf[s] \in ended THEN created.task + 1 ELSE taskOf[s]
        /\ taskOf' = [taskOf EXCEPT ![s] = u]
        /\ queue' = [queue EXCEPT ![u] = Append(IF taskOf[s] = 0 THEN <<>> ELSE queue[taskOf[s]], Op(Kinds[p], a))]
        /\ created' = [created EXCEPT !.task = IF taskOf[s] = 0 \/ taskOf[s] \in ended THEN u ELSE @]
        /\ future' = [future EXCEPT ![a] = "pending"]
        /\ doing' = doing /\ ended' = ended
  BY DEF Submit
<1>3. /\ queue[u] = <<>> /\ doing[u] = Resting /\ u \notin ended
      /\ \A r \in Server : r # s => taskOf[r] # u
      /\ taskOf[s] # 0 => u = taskOf[s]
      /\ taskOf[s] = 0 => u = created.task + 1
  <2>1. \A b \in Actor : ~Uses(b, s)
    OBVIOUS
  <2> HIDE DEF s
  <2> QED
    BY <1>1, <1>2, <2>1, NewTask
<1>4. queue' = [queue EXCEPT ![u] = <<Op(Kinds[p], a)>>]
  <2>1. (IF taskOf[s] = 0 THEN <<>> ELSE queue[taskOf[s]]) = <<>>
    BY <1>3
  <2>2. Append(<<>>, Op(Kinds[p], a)) = <<Op(Kinds[p], a)>>
    OBVIOUS
  <2> QED
    BY <1>2, <2>1, <2>2
<1>5. /\ Op(Kinds[p], a) \in Operation /\ p \in Place /\ p \in Connecting \cup Closing
  BY SubmitKinds
<1>6. /\ OthersStay(a) /\ CallsTyped' /\ place'[a] = p /\ future'[a] = "pending" /\ server' = server
  BY <1>1, <1>2, <1>5 DEF OthersStay, CallsTyped
<1>7. /\ created'.task = (IF taskOf[s] = 0 THEN u ELSE created.task)
      /\ created'.link = created.link /\ PoolTyped'
  <2>1. u \in 0..MaxMade
    BY <1>1 DEF Id
  <2>2. taskOf[s] # 0 => taskOf[s] \notin ended
    BY <1>3
  <2>3. /\ created' \in [{"link", "task", "lock"} -> 0..MaxMade] /\ created'.link = created.link
        /\ created'.task = (IF taskOf[s] = 0 \/ taskOf[s] \in ended THEN u ELSE created.task)
    BY <1>1, <1>2, <2>1 DEF PoolTyped
  <2> QED
    BY <1>1, <2>2, <2>3 DEF PoolTyped
<1>8. TasksTyped'
  <2>1. u \in 0..MaxMade /\ <<Op(Kinds[p], a)>> \in Seq(Operation)
    BY <1>1, <1>5 DEF Id
  <2> QED
    BY <1>1, <1>2, <1>4, <2>1 DEF TasksTyped
<1>9. taskOf'[s] = u /\ \A r \in Server : r # s => taskOf'[r] = taskOf[r]
  BY <1>1, <1>2 DEF TasksTyped
<1>10. queue'[u] = <<Op(Kinds[p], a)>> /\ \A t \in Id : t # u => queue'[t] = queue[t]
  BY <1>1, <1>4 DEF TasksTyped
<1>11. ASSUME NEW r \in Server, r # s PROVE ServerSound(r)'
  <2>1. ~Uses(a, r) /\ ~Uses(a, r)'
    BY <1>6, <1>11 DEF Uses
  <2> QED
    BY <1>2, <1>3, <1>6, <1>9, <1>10, <1>11, <2>1, ServerKept
<1>12. ServerSound(s)'
  <2>1. u # 0
    BY <1>1 DEF Id
  <2>2. Pending(a, u)'
    BY <1>2, <1>3, <1>6, <1>10 DEF Pending
  <2>3. ASSUME NEW b \in Actor, Uses(b, s)' PROVE b = a
    BY <1>6, <2>3 DEF Uses, OthersStay
  <2>4. place'[a] \in Connecting => cache'[s] = 0
    BY <1>6 DEF Connecting, Waiting
  <2>5. UseSound(a, s)'
    BY <1>9, <2>1, <2>2, <2>4 DEF UseSound
  <2>6. Uses(a, s)'
    BY <1>5, <1>6 DEF Uses
  <2>7. cache[s] # 0 => taskOf[s] # 0 /\ owner[cache[s]] = taskOf[s]
    BY <1>1 DEF Sound, ConnInv, ServerSound
  <2>8. cache'[s] # 0 => taskOf'[s] # 0 /\ owner'[cache'[s]] = taskOf'[s]
    BY <1>3, <1>9, <2>7
  <2> QED
    BY <2>3, <2>5, <2>6, <2>8 DEF ServerSound
<1>13. TasksApart'
  BY <1>3, <1>9 DEF TasksApart, Sound, ConnInv
<1>14. TasksSound'
  <2>1. \A r \in Server : taskOf[r] \in 0..MaxMade /\ taskOf[r] <= created.task
    BY <1>1 DEF Sound, ConnInv, TasksSound, TasksTyped
  <2>2. \A r \in Server : taskOf'[r] <= created'.task
    BY <1>1, <1>3, <1>7, <1>9, <2>1 DEF Id
  <2>3. ASSUME NEW t \in Id, \A r \in Server : taskOf'[r] # t PROVE Spare(t)'
    <3>1. t # u
      BY <1>1, <1>9, <2>3
    <3>2. \A r \in Server : taskOf[r] # t
      <4> SUFFICES ASSUME NEW r \in Server, taskOf[r] = t PROVE FALSE
        OBVIOUS
      <4>1. t # 0
        BY <1>1 DEF Id
      <4> QED
        BY <1>3, <1>9, <2>3, <3>1, <4>1
    <3>3. Spare(t)
      BY <3>2 DEF Sound, ConnInv, TasksSound
    <3>4. t <= created'.task <=> t <= created.task
      BY <1>1, <1>3, <1>7, <3>1 DEF Id
    <3> QED
      BY <1>2, <1>10, <3>1, <3>3, <3>4 DEF Spare
  <2> QED
    BY <2>2, <2>3 DEF TasksSound
<1>15. LinksSound'
  BY <1>7, LinksKept
<1>16. \A i \in Id : link'[i] = "open" => Reachable(i)'
  <2>1. place[a] # "connect"
    BY DEF Uses, Connecting
  <2> QED
    BY <1>6, <2>1, ReachKept
<1> QED
  BY <1>6, <1>7, <1>8, <1>11, <1>12, <1>13, <1>14, <1>15, <1>16

LEMMA RecheckConnect ==
  ASSUME Sound, NEW c \in ToolCall, Recheck(c), cache[server[c]] = 0
  PROVE  Sound'
<1> DEFINE s == server[c]
<1>1. /\ c \in Actor /\ place[c] = "recheck" /\ mutex = Nobody /\ Nobody \notin Actor
      /\ Submit(c, s, "connect") /\ place' = [place EXCEPT ![c] = "connect"]
      /\ UNCHANGED <<server, client, mine, awaited, cache, link, owner, mutex, idle, lockOf,
                     holder, line>>
  BY McpAssumption DEF Recheck, poolVars, Actor
<1>2. Submit(c, s, Kinds["connect"]) /\ "connect" \in Waiting
  BY <1>1 DEF Kinds, Waiting
<1>3. ASSUME NEW b \in Actor, place[b] \in Closing PROVE FALSE
  BY <1>1, <1>3 DEF Sound, ConnInv, MutexSound
<1>4. ASSUME NEW b \in Actor, Uses(b, s) PROVE FALSE
  <2>1. place[b] \in Connecting /\ server[b] = s
    BY <1>3, <1>4 DEF Uses
  <2>2. b \in ToolCall
    BY <1>1, <2>1 DEF Sound, ConnInv, MutexSound, Actor, Connecting, Closing
  <2>3. holder[lockOf[s]] = b /\ holder[lockOf[s]] = c
    BY <1>1, <2>1, <2>2 DEF Sound, ConnInv, LockSound, Connecting, Holding
  <2> QED
    BY <1>1, <2>1, <2>3 DEF Connecting
<1>5. /\ OthersStay(c) /\ CallsTyped' /\ PoolTyped' /\ TasksTyped'
      /\ \A r \in Server : ServerSound(r)'
      /\ TasksApart' /\ TasksSound' /\ LinksSound'
      /\ \A i \in Id : link'[i] = "open" => Reachable(i)'
  BY <1>1, <1>2, <1>4, SubmitStep
<1>6. place'[c] = "connect"
  BY <1>1 DEF Sound, CallsTyped
<1>7. LocksTyped'
  BY <1>1 DEF Sound, LocksTyped
<1>8. \A d \in ToolCall : LockSound(d)'
  BY <1>1, <1>5, <1>6, LocksKept DEF Holding
<1>9. PhasesApart'
  BY <1>1, <1>3, <1>5, <1>6, PhasesKept DEF Closing
<1>10. MutexSound'
  BY <1>1, <1>5, <1>6, MutexKept DEF Closing
<1> QED
  BY <1>5, <1>7, <1>8, <1>9, <1>10 DEF Sound, ConnInv

\* Closing for a call or for the sweep, which take or have the mutex.
LEMMA CloseSubmitted ==
  ASSUME Sound, NEW a \in Actor, place[a] \in {"evict", "close"}, mutex \in {Nobody, a},
         Submit(a, server[a], "close"), place' = [place EXCEPT ![a] = "closing"], mutex' = a,
         UNCHANGED <<server, client, mine, awaited, cache, link, owner, idle, lockOf, holder, line>>,
         cache[server[a]] # 0,
         \A x \in Actor : place[x] \in Closing => mutex = x,
         a # Sweeper => mutex = Nobody
  PROVE  Sound'
<1> DEFINE s == server[a]
<1>1. Submit(a, s, Kinds["closing"]) /\ "closing" \in Waiting /\ s \in Server /\ Nobody \notin Actor
      /\ Sweeper \in Actor
  BY McpAssumption DEF Kinds, Waiting, Sound, CallsTyped, Actor
<1>2. ASSUME NEW b \in Actor, place[b] \in Closing PROVE FALSE
  BY <1>1, <1>2 DEF Closing
<1>3. ASSUME NEW b \in Actor, place[b] \in Connecting PROVE server[b] # s
  BY <1>1, <1>3 DEF Sound, ConnInv, ServerSound, Uses, UseSound
<1>4. /\ OthersStay(a) /\ CallsTyped' /\ PoolTyped' /\ TasksTyped'
      /\ \A r \in Server : ServerSound(r)'
      /\ TasksApart' /\ TasksSound' /\ LinksSound'
      /\ \A i \in Id : link'[i] = "open" => Reachable(i)'
  BY <1>1, <1>2, <1>3, SubmitStep DEF Uses
<1>5. place'[a] = "closing"
  BY DEF Sound, CallsTyped
<1>6. LocksTyped'
  BY DEF Sound, LocksTyped
<1>7. \A d \in ToolCall : LockSound(d)'
  BY <1>4, <1>5, LocksKept DEF Holding
<1>8. PhasesApart'
  BY <1>3, <1>4, <1>5, PhasesKept DEF Connecting
<1>9. MutexSound'
  <2>1. MutexSound /\ \A b \in Actor : b # a => place'[b] = place[b]
    BY <1>4 DEF Sound, ConnInv, OthersStay
  <2>2. \A b \in Actor : b # a => place[b] \notin {"close"} \cup Closing
    BY <1>1, <1>2, <2>1 DEF MutexSound
  <2>3. \A d \in ToolCall : place'[d] # "close"
    BY <1>5, <2>1 DEF MutexSound, Actor
  <2>4. place'[Sweeper] \in {"end"} \cup Closing /\ (place'[Sweeper] = "end" => mutex' # Sweeper)
    BY <1>1, <1>5, <2>1, <2>2 DEF MutexSound, Closing
  <2>5. mutex' = Sweeper => \A r \in idle' : cache'[r] # 0 /\ r # server'[Sweeper]
    <3> SUFFICES ASSUME a = Sweeper PROVE \A r \in idle : cache[r] # 0 /\ r # server[Sweeper]
      OBVIOUS
    <3>1. place[Sweeper] = "close"
      BY <2>1 DEF MutexSound, Closing
    <3> QED
      BY <1>1, <2>1, <3>1 DEF MutexSound
  <2>6. \A b \in Actor : place'[b] \in {"close"} \cup Closing => mutex' = b
    BY <2>1, <2>2
  <2>7. place'[Sweeper] # "close"
    BY <2>4 DEF Closing
  <2> QED
    BY <2>3, <2>4, <2>5, <2>6, <2>7 DEF MutexSound
<1> QED
  BY <1>4, <1>6, <1>7, <1>8, <1>9 DEF Sound, ConnInv

LEMMA EvictStep ==
  ASSUME Sound, NEW c \in ToolCall, Evict(c), Evictable(c)
  PROVE  Sound'
<1>1. /\ c \in Actor /\ c # Sweeper /\ place[c] = "evict" /\ mutex = Nobody /\ mutex' = c
      /\ Submit(c, server[c], "close") /\ place' = [place EXCEPT ![c] = "closing"]
      /\ UNCHANGED <<server, client, mine, awaited, cache, link, owner, idle, lockOf, holder, line>>
      /\ cache[server[c]] # 0
  BY McpAssumption DEF Evict, Evictable, lockVars, Actor
<1>2. \A x \in Actor : place[x] \in Closing => mutex = x
  BY DEF Sound, ConnInv, MutexSound
<1> QED
  BY <1>1, <1>2, CloseSubmitted

LEMMA SweepCloseStep ==
  ASSUME Sound, SweepClose
  PROVE  Sound'
<1>1. /\ Sweeper \in Actor /\ place[Sweeper] = "close"
      /\ Submit(Sweeper, server[Sweeper], "close") /\ place' = [place EXCEPT ![Sweeper] = "closing"]
      /\ UNCHANGED <<server, client, mine, awaited, cache, link, owner, mutex, idle, lockOf,
                     holder, line>>
  BY DEF SweepClose, poolVars, lockVars, Actor
<1>2. /\ mutex = Sweeper /\ cache[server[Sweeper]] # 0
      /\ \A x \in Actor : place[x] \in Closing => mutex = x
  BY <1>1 DEF Sound, ConnInv, MutexSound
<1> QED
  BY <1>1, <1>2, CloseSubmitted

(***************************************************************************)
(* What was opened is stored; a task that failed or closed is stopped       *)
(***************************************************************************)
LEMMA StoreStep ==
  ASSUME Sound, NEW c \in ToolCall, Store(c)
  PROVE  Sound'
<1> DEFINE s == server[c]
<1>1. /\ c \in Actor /\ CallsTyped /\ LocksTyped /\ PoolTyped /\ TasksTyped /\ s \in Server
      /\ client[c] \in 0..MaxMade /\ Nobody \notin Actor
  BY McpAssumption DEF Sound, CallsTyped, Actor
<1>2. /\ place[c] = "connect" /\ future[c] = "ok" /\ mutex = Nobody
      /\ cache' = [cache EXCEPT ![s] = client[c]] /\ Use(c, client[c]) /\ Release(c)
      /\ UNCHANGED <<server, mine, future, awaited, link, owner, mutex, idle, lockOf, line,
                     taskVars, created>>
  BY DEF Store
<1>3. PICK p \in {"claim", "end"} : place' = [place EXCEPT ![c] = p]
  BY <1>1, <1>2, UseFree
<1>4. client' = client
  <2>1. client' = [client EXCEPT ![c] = client[c]]
    BY <1>1, <1>2, UseFree
  <2> QED
    BY <1>1, <2>1 DEF CallsTyped
<1>5. OthersStay(c) /\ CallsTyped' /\ place'[c] = p
  BY <1>1, <1>2, <1>3, <1>4 DEF OthersStay, CallsTyped, Place
<1>6. LocksTyped' /\ \A l \in Id, b \in Actor : holder[l] = b /\ b # c => holder'[l] = b
  BY <1>1, <1>2, ReleaseTyped
<1>7. \A d \in ToolCall : LockSound(d)'
  BY <1>1, <1>2, <1>5, <1>6, LocksKept DEF Holding
<1>8. cache'[s] = client[c] /\ \A r \in Server : r # s => cache'[r] = cache[r]
  BY <1>1, <1>2 DEF PoolTyped
<1>9. PoolTyped'
  BY <1>1, <1>2 DEF PoolTyped
<1>10. Uses(c, s) /\ Served(c, taskOf[s]) /\ taskOf[s] # 0 /\ cache[s] = 0
  <2>1. Uses(c, s)
    BY <1>2 DEF Uses, Connecting
  <2>2. UseSound(c, s)
    BY <1>1, <2>1 DEF Sound, ConnInv, ServerSound
  <2> QED
    BY <1>2, <2>1, <2>2 DEF UseSound, Pending, Stopping, Leaving, Connecting
<1>11. client[c] \in Id /\ owner[client[c]] = taskOf[s] /\ Rests(taskOf[s])
  BY <1>2, <1>10 DEF Served
<1>12. MutexSound'
  BY <1>1, <1>2, <1>5, <1>8, MutexKept, McpAssumption DEF Closing, Actor
<1>13. PhasesApart'
  BY <1>1, <1>5, PhasesKept DEF Connecting, Closing
<1>14. TasksApart' /\ TasksSound' /\ TasksTyped' /\ LinksSound'
  BY <1>2, TasksKept, LinksKept
<1>15. taskOf' = taskOf /\ queue' = queue /\ doing' = doing /\ ended' = ended
  BY <1>2 DEF taskVars
<1>16. ASSUME NEW r \in Server, r # s PROVE ServerSound(r)'
  <2>1. ~Uses(c, r) /\ ~Uses(c, r)'
    BY <1>2, <1>16 DEF Uses
  <2> QED
    BY <1>1, <1>2, <1>5, <1>8, <1>15, <1>16, <2>1, ServerKept
<1>17. ServerSound(s)'
  <2>1. server' = server
    BY <1>2
  <2>2. ASSUME NEW b \in Actor, Uses(b, s)' PROVE FALSE
    <3>1. b # c
      BY <1>5, <2>2 DEF Uses, Connecting, Closing
    <3>2. Uses(b, s)
      BY <1>5, <2>1, <2>2, <3>1 DEF Uses, OthersStay
    <3> QED
      BY <1>1, <1>10, <3>1, <3>2, UsersAlone
  <2>3. Rests(taskOf[s])'
    BY <1>11, <1>15, <2>1 DEF Rests
  <2>4. cache'[s] = client[c] /\ taskOf'[s] = taskOf[s] /\ owner'[cache'[s]] = taskOf[s]
    BY <1>2, <1>8, <1>11, <1>15
  <2> QED
    BY <1>10, <2>1, <2>2, <2>3, <2>4 DEF ServerSound
<1>18. ASSUME NEW i \in Id, link'[i] = "open" PROVE Reachable(i)'
  <2>1. Reachable(i) /\ i # 0
    BY <1>2, <1>18, McpAssumption DEF Sound, ConnInv, Id
  <2>2. ASSUME NEW r \in Server, cache[r] = i PROVE Reachable(i)'
    <3>1. r # s
      BY <1>10, <2>1, <2>2
    <3>2. cache'[r] = i
      BY <1>8, <2>2, <3>1
    <3> QED
      BY <3>2 DEF Reachable
  <2>3. ASSUME NEW d \in ToolCall, place[d] = "connect", future[d] = "ok", client[d] = i
        PROVE  Reachable(i)'
    <3>1. CASE d = c
      BY <1>1, <1>8, <2>3, <3>1 DEF Reachable
    <3>2. CASE d # c
      BY <1>5, <2>3, <3>2 DEF Reachable, OthersStay, Actor
    <3> QED
      BY <3>1, <3>2
  <2> QED
    BY <2>1, <2>2, <2>3 DEF Reachable
<1>19. \A r \in Server : ServerSound(r)'
  BY <1>2, <1>16, <1>17
<1> QED
  BY <1>5, <1>6, <1>7, <1>9, <1>12, <1>13, <1>14, <1>18, <1>19 DEF Sound, ConnInv

\* Served and about to stop the task that served: nothing of the server is cached.
LEMMA UnhookStep ==
  ASSUME Sound, NEW a \in Actor, NEW p \in Leaving, Unhook(a, server[a], p),
         Served(a, taskOf[server[a]]), future[a] = "ok" => place[a] = "closing",
         place[a] = "connect" <=> p = "failing",
         cache[server[a]] = 0, UNCHANGED <<server, client, mine, future, cache, link, owner, mutex,
                                           idle, lockVars, created>>
  PROVE  Sound'
<1> DEFINE s == server[a]
<1> DEFINE t == taskOf[s]
<1>1. /\ CallsTyped /\ LocksTyped /\ PoolTyped /\ TasksTyped /\ s \in Server /\ MaxMade \in Nat
      /\ t \in 0..MaxMade /\ Nobody \notin Actor
  BY McpAssumption DEF Sound, CallsTyped, TasksTyped
<1>2. place[a] \in Waiting /\ Rests(t) /\ Uses(a, s)
  BY DEF Served, Uses, Waiting, Connecting, Closing
<1>3. t # 0 /\ t \in Id
  BY <1>1, <1>2 DEF Sound, ConnInv, ServerSound, UseSound, Id
<1>4. /\ awaited' = [awaited EXCEPT ![a] = t] /\ queue' = [queue EXCEPT ![t] = <<Op("stop", a)>>]
      /\ place' = [place EXCEPT ![a] = p] /\ UNCHANGED <<taskOf, doing, ended>>
  <2>1. queue[t] = <<>> /\ Append(<<>>, Op("stop", a)) = <<Op("stop", a)>>
    BY <1>2 DEF Rests
  <2> QED
    BY <1>3, <2>1 DEF Unhook
<1>5. /\ OthersStay(a) /\ CallsTyped' /\ place'[a] = p /\ awaited'[a] = t
  <2>1. p \in Place
    BY DEF Leaving, Place
  <2> QED
    BY <1>1, <1>4, <2>1 DEF OthersStay, CallsTyped
<1>6. PoolTyped' /\ LocksTyped'
  BY <1>1 DEF PoolTyped, LocksTyped, lockVars
<1>7. TasksTyped'
  <2>1. <<Op("stop", a)>> \in Seq(Operation)
    BY DEF Op, Operation
  <2> QED
    BY <1>1, <1>4, <2>1 DEF TasksTyped
<1>8. \/ place[a] \in Connecting /\ p \in Connecting /\ place[a] \in Holding
      \/ place[a] \in Closing /\ p \in Closing /\ p \notin Holding
  BY <1>2 DEF Waiting, Leaving, Connecting, Closing, Holding
<1>9. p # "line" /\ p # "close"
  BY DEF Leaving
<1>10. \A d \in ToolCall : LockSound(d)'
  <2>1. UNCHANGED <<lockOf, line, holder>>
    BY DEF lockVars
  <2> QED
    BY <1>5, <1>8, <1>9, <2>1, LocksKept
<1>11. PhasesApart'
  <2>1. Connecting \cap Closing = {}
    BY DEF Connecting, Closing
  <2> QED
    BY <1>5, <1>8, <2>1, PhasesKept
<1>12. MutexSound'
  <2>1. MutexSound /\ \A b \in Actor : b # a => place'[b] = place[b]
    BY <1>5 DEF Sound, ConnInv, OthersStay
  <2>2. \A b \in Actor : place'[b] \in {"close"} \cup Closing => place[b] \in {"close"} \cup Closing
    <3>1. Connecting \cap Closing = {}
      BY DEF Connecting, Closing
    <3> QED
      BY <1>5, <1>8, <1>9, <2>1, <3>1
  <2>3. place'[Sweeper] = place[Sweeper] \/ (a = Sweeper /\ place[Sweeper] \in Closing /\ place'[Sweeper] \in Closing)
    <3>1. Sweeper \in Actor /\ Connecting \cap ({"end", "close"} \cup Closing) = {}
      BY DEF Connecting, Closing, Actor
    <3> QED
      BY <1>5, <1>8, <2>1, <3>1 DEF MutexSound
  <2>4. \A d \in ToolCall : place'[d] # "close"
    BY <1>5, <1>9, <2>1 DEF MutexSound, Actor
  <2>5. "end" \notin Closing /\ "close" \notin Closing
    BY DEF Closing
  <2> QED
    BY <2>1, <2>2, <2>3, <2>4, <2>5 DEF MutexSound
<1>13. queue'[t] = <<Op("stop", a)>> /\ \A u \in Id : u # t => queue'[u] = queue[u]
  BY <1>1, <1>3, <1>4 DEF TasksTyped
<1>14. ASSUME NEW r \in Server, r # s PROVE ServerSound(r)'
  <2>1. ~Uses(a, r) /\ ~Uses(a, r)'
    BY <1>14 DEF Uses
  <2>2. taskOf[r] # t
    BY <1>1, <1>3, <1>14 DEF Sound, ConnInv, TasksApart
  <2> QED
    BY <1>4, <1>5, <1>13, <1>14, <2>1, <2>2, ServerKept
<1>15. ServerSound(s)'
  <2>1. Stopping(a, t)'
    BY <1>2, <1>4, <1>5, <1>13 DEF Stopping, Rests
  <2>2. UseSound(a, s)'
    BY <1>3, <1>4, <2>1 DEF UseSound
  <2>3. Uses(a, s)'
    BY <1>5, <1>8 DEF Uses
  <2>4. ASSUME NEW b \in Actor, Uses(b, s)' PROVE b = a
    <3>1. b # a => Uses(b, s)
      BY <1>5, <2>4 DEF Uses, OthersStay
    <3> QED
      BY <1>1, <1>2, <3>1, UsersAlone
  <2> QED
    BY <2>2, <2>3, <2>4 DEF ServerSound
<1>16. TasksApart'
  BY <1>4 DEF Sound, ConnInv, TasksApart
<1>17. TasksSound'
  <2>1. \A u \in Id : (\A r \in Server : taskOf[r] # u) => u # t
    BY <1>1
  <2> QED
    BY <1>4, <1>13, <2>1 DEF Sound, ConnInv, TasksSound, Spare
<1>18. LinksSound' /\ \A i \in Id : link'[i] = "open" => Reachable(i)'
  BY LinksKept, ReachKept, <1>5
<1> QED
  BY <1>5, <1>6, <1>7, <1>10, <1>11, <1>12, <1>14, <1>15, <1>16, <1>17, <1>18 DEF Sound, ConnInv

LEMMA ConnectFailedStep ==
  ASSUME Sound, NEW c \in ToolCall, ConnectFailed(c)
  PROVE  Sound'
<1>1. /\ c \in Actor /\ place[c] = "connect" /\ future[c] = "error" /\ Unhook(c, server[c], "failing")
      /\ UNCHANGED <<server, client, mine, future, cache, link, owner, mutex, idle, lockVars, created>>
  BY DEF ConnectFailed, poolVars, Actor
<1>2. server[c] \in Server /\ Uses(c, server[c])
  BY <1>1 DEF Sound, CallsTyped, Uses, Connecting
<1>3. UseSound(c, server[c])
  BY <1>1, <1>2 DEF Sound, ConnInv, ServerSound
<1>4. Served(c, taskOf[server[c]]) /\ cache[server[c]] = 0
  BY <1>1, <1>3 DEF UseSound, Pending, Stopping, Leaving, Connecting
<1> QED
  BY <1>1, <1>4, UnhookStep DEF Leaving

LEMMA ClosedStep ==
  ASSUME Sound, NEW a \in Actor, Closed(a)
  PROVE  Sound'
<1>1. /\ place[a] = "closing" /\ future[a] \in {"ok", "error"} /\ Unhook(a, server[a], "unhook")
      /\ cache' = IF future[a] = "error" THEN [cache EXCEPT ![server[a]] = 0] ELSE cache
      /\ UNCHANGED <<server, client, mine, future, link, owner, mutex, idle, lockVars, created>>
  BY DEF Closed
<1>2. server[a] \in Server /\ Uses(a, server[a])
  BY <1>1 DEF Sound, CallsTyped, Uses, Closing
<1>3. UseSound(a, server[a])
  BY <1>1, <1>2 DEF Sound, ConnInv, ServerSound
<1>4. Served(a, taskOf[server[a]])
  BY <1>1, <1>3 DEF UseSound, Pending, Stopping, Leaving
<1>5. cache[server[a]] = 0
  BY <1>1, <1>4 DEF Served
<1>6. cache' = cache
  BY <1>1, <1>2, <1>5 DEF Sound, PoolTyped
<1> QED
  BY <1>1, <1>4, <1>5, <1>6, UnhookStep DEF Leaving

(***************************************************************************)
(* A task that ended is forgotten; the sweep                                *)
(***************************************************************************)
LEMMA ForgetStep ==
  ASSUME Sound, NEW a \in Actor, place[a] \in Leaving, Unhooked(a), Forget(a, server[a]), OthersStay(a),
         place'[a] \notin Connecting \cup Closing, UNCHANGED <<cache, link, owner, created>>
  PROVE  /\ TasksTyped' /\ (\A r \in Server : ServerSound(r)')
         /\ TasksApart' /\ TasksSound' /\ LinksSound'
         /\ \A i \in Id : link'[i] = "open" => Reachable(i)'
<1> PICK s \in Server : s = server[a]
  BY DEF Sound, CallsTyped
<1> DEFINE t == taskOf[s]
<1>1. /\ CallsTyped /\ PoolTyped /\ TasksTyped /\ MaxMade \in Nat /\ t \in 0..MaxMade
  BY McpAssumption DEF Sound, TasksTyped
<1>2. Uses(a, s) /\ UseSound(a, s)
  <2>1. Uses(a, s)
    BY DEF Uses, Leaving, Connecting, Closing
  <2> QED
    BY <2>1 DEF Sound, ConnInv, ServerSound
<1>3. t # 0 /\ t \in Id /\ Stopping(a, t)
  BY <1>1, <1>2 DEF UseSound, Pending, Served, Leaving, Waiting, Id
<1>4. /\ awaited[a] = t /\ cache[s] = 0 /\ doing[t] = Resting /\ t \in ended /\ queue[t] = <<>>
  BY <1>3 DEF Stopping, Unhooked
<1>5. taskOf' = [taskOf EXCEPT ![s] = 0] /\ UNCHANGED <<queue, doing, ended>>
  BY <1>3, <1>4 DEF Forget
<1>6. taskOf'[s] = 0 /\ \A r \in Server : r # s => taskOf'[r] = taskOf[r]
  BY <1>1, <1>5 DEF TasksTyped
<1>7. TasksTyped'
  BY <1>1, <1>5 DEF TasksTyped
<1>8. ASSUME NEW r \in Server, r # s PROVE ServerSound(r)'
  <2>1. ~Uses(a, r) /\ ~Uses(a, r)'
    BY <1>8 DEF Uses
  <2> QED
    BY <1>5, <1>6, <1>8, <2>1, ServerKept
<1>9. ServerSound(s)'
  <2>1. ASSUME NEW b \in Actor, Uses(b, s)' PROVE FALSE
    <3>1. b # a
      BY <2>1 DEF Uses
    <3>2. Uses(b, s)
      BY <2>1, <3>1 DEF Uses, OthersStay
    <3> QED
      BY <1>2, <3>1, <3>2, UsersAlone DEF Sound
  <2> QED
    BY <1>4, <1>6, <2>1 DEF ServerSound
<1>10. TasksApart'
  BY <1>6 DEF Sound, ConnInv, TasksApart
<1>11. TasksSound'
  <2>1. \A r \in Server : taskOf'[r] <= created'.task
    BY <1>1, <1>6 DEF Sound, ConnInv, TasksSound, PoolTyped
  <2>2. ASSUME NEW u \in Id, \A r \in Server : taskOf'[r] # u PROVE Spare(u)'
    <3>1. CASE u = t
      BY <1>3, <1>4, <1>5, <3>1 DEF Spare, Sound, ConnInv, TasksSound
    <3>2. CASE u # t
      <4>1. \A r \in Server : taskOf[r] # u
        BY <1>6, <2>2, <3>2
      <4> QED
        BY <1>5, <4>1 DEF Sound, ConnInv, TasksSound, Spare
    <3> QED
      BY <3>1, <3>2
  <2> QED
    BY <2>1, <2>2 DEF TasksSound
<1>12. LinksSound' /\ \A i \in Id : link'[i] = "open" => Reachable(i)'
  <2>1. place[a] # "connect"
    BY DEF Leaving
  <2> QED
    BY <2>1, LinksKept, ReachKept
<1> QED
  BY <1>7, <1>8, <1>9, <1>10, <1>11, <1>12

LEMMA RaiseStep ==
  ASSUME Sound, NEW c \in ToolCall, Raise(c)
  PROVE  Sound'
<1>1. /\ c \in Actor /\ CallsTyped /\ LocksTyped /\ PoolTyped
      /\ place[c] = "failing" /\ Unhooked(c) /\ Forget(c, server[c]) /\ Release(c)
      /\ place' = [place EXCEPT ![c] = "evict"]
      /\ UNCHANGED <<server, client, mine, future, awaited, cache, link, owner, mutex, idle,
                     lockOf, line, created>>
  BY DEF Raise, Actor, Sound, poolVars
<1>2. OthersStay(c) /\ CallsTyped' /\ PoolTyped' /\ place'[c] = "evict"
  BY <1>1 DEF OthersStay, CallsTyped, PoolTyped, Place
<1>3. LocksTyped' /\ \A l \in Id, b \in Actor : holder[l] = b /\ b # c => holder'[l] = b
  BY <1>1, ReleaseTyped
<1>4. \A d \in ToolCall : LockSound(d)'
  BY <1>1, <1>2, <1>3, LocksKept DEF Holding
<1>5. MutexSound'
  BY <1>1, <1>2, MutexKept DEF Closing
<1>6. PhasesApart'
  BY <1>1, <1>2, PhasesKept DEF Connecting, Closing
<1>7. /\ TasksTyped' /\ (\A r \in Server : ServerSound(r)')
      /\ TasksApart' /\ TasksSound' /\ LinksSound'
      /\ \A i \in Id : link'[i] = "open" => Reachable(i)'
  BY <1>1, <1>2, ForgetStep DEF Leaving, Connecting, Closing
<1> QED
  BY <1>2, <1>3, <1>4, <1>5, <1>6, <1>7 DEF Sound, ConnInv

LEMMA EvictedStep ==
  ASSUME Sound, NEW c \in ToolCall, Evicted(c)
  PROVE  Sound'
<1>1. /\ c \in Actor /\ c # Sweeper /\ Sweeper \in Actor /\ CallsTyped /\ LocksTyped /\ PoolTyped
      /\ Sweeper # Nobody /\ Nobody \notin Actor
      /\ place[c] = "unhook" /\ Unhooked(c) /\ Forget(c, server[c]) /\ mutex' = Nobody
      /\ place' = [place EXCEPT ![c] = "end"]
      /\ UNCHANGED <<server, client, mine, future, awaited, cache, link, owner, idle, lockOf,
                     holder, line, created>>
  BY McpAssumption DEF Evicted, Actor, Sound, lockVars
<1>2. OthersStay(c) /\ CallsTyped' /\ LocksTyped' /\ PoolTyped' /\ place'[c] = "end"
  BY <1>1 DEF OthersStay, CallsTyped, LocksTyped, PoolTyped, Place
<1>3. \A d \in ToolCall : LockSound(d)'
  BY <1>1, <1>2, LocksKept DEF Holding
<1>4. MutexSound'
  <2>1. /\ MutexSound /\ mutex = c /\ \A b \in Actor : b # c => place'[b] = place[b]
    BY <1>1, <1>2 DEF Sound, ConnInv, MutexSound, OthersStay, Closing
  <2>2. \A b \in Actor : place'[b] \notin {"close"} \cup Closing
    BY <1>2, <2>1 DEF MutexSound, Closing
  <2> QED
    BY <1>1, <2>1, <2>2 DEF MutexSound, Actor
<1>5. PhasesApart'
  BY <1>1, <1>2, PhasesKept DEF Connecting, Closing
<1>6. /\ TasksTyped' /\ (\A r \in Server : ServerSound(r)')
      /\ TasksApart' /\ TasksSound' /\ LinksSound'
      /\ \A i \in Id : link'[i] = "open" => Reachable(i)'
  BY <1>1, <1>2, ForgetStep DEF Leaving, Connecting, Closing
<1> QED
  BY <1>2, <1>3, <1>4, <1>5, <1>6 DEF Sound, ConnInv

\* The sweep goes on: locks that it drops are nobody's, or a waiter would be orphaned.
LEMMA TidyKept ==
  ASSUME Sound, Tidy, ~orphaned', OthersStay(Sweeper)
  PROVE  LocksTyped' /\ \A c \in ToolCall : LockSound(c)'
<1>1. /\ LocksTyped /\ CallsTyped /\ MaxMade \in Nat
      /\ lockOf' = [s \in Server |-> IF Stale(s) THEN 0 ELSE lockOf[s]]
      /\ UNCHANGED <<holder, line>> /\ \A s \in Server : Stale(s) => line[lockOf[s]] = <<>>
  BY McpAssumption DEF Sound, Tidy
<1>2. LocksTyped'
  BY <1>1 DEF LocksTyped
<1>3. ASSUME NEW c \in ToolCall PROVE LockSound(c)'
  <2>1. /\ LockSound(c) /\ place'[c] = place[c] /\ server'[c] = server[c] /\ mine'[c] = mine[c]
        /\ c # Nobody /\ server[c] \in Server
    BY <1>1, McpAssumption DEF Sound, ConnInv, OthersStay, Actor, CallsTyped
  <2>2. ASSUME place[c] \in {"line"} \cup Holding PROVE ~Stale(server[c])
    <3>1. CASE place[c] = "line"
      <4>1. InLine(c) /\ mine[c] = lockOf[server[c]]
        BY <2>1, <3>1 DEF LockSound
      <4>2. line[lockOf[server[c]]] # <<>>
        BY <4>1 DEF InLine
      <4> QED
        BY <1>1, <2>1, <4>2
    <3>2. CASE place[c] \in Holding
      BY <2>1, <3>2 DEF LockSound, Stale
    <3> QED
      BY <2>2, <3>1, <3>2
  <2>3. place[c] \in {"line"} \cup Holding => lockOf'[server[c]] = lockOf[server[c]]
    BY <1>1, <2>1, <2>2
  <2>4. InLine(c) => InLine(c)'
    BY <1>1, <2>1 DEF InLine
  <2> QED
    BY <1>1, <2>1, <2>3, <2>4 DEF LockSound
<1> QED
  BY <1>2, <1>3

LEMMA ProceedKept ==
  ASSUME Sound, NEW S \in SUBSET Server, Proceed(S), ~orphaned', \A s \in S : cache[s] # 0,
         place[Sweeper] \in {"end", "unhook"},
         \A c \in ToolCall : place[c] \notin Closing,
         UNCHANGED <<client, mine, future, awaited, cache, link, owner, created>>
  PROVE  /\ OthersStay(Sweeper) /\ CallsTyped' /\ PoolTyped' /\ LocksTyped'
         /\ (\A c \in ToolCall : LockSound(c)') /\ MutexSound' /\ PhasesApart'
         /\ place'[Sweeper] \in {"end", "close"}
<1>1. /\ Sweeper \in Actor /\ Sweeper \notin ToolCall /\ Nobody \notin Actor
      /\ CallsTyped /\ PoolTyped /\ LocksTyped /\ MutexSound
  BY McpAssumption DEF Actor, Sound, ConnInv
<1>2. \/ /\ Tidy /\ mutex' = Nobody /\ place' = [place EXCEPT ![Sweeper] = "end"]
         /\ UNCHANGED <<server, idle>>
      \/ /\ \E s \in S : server' = [server EXCEPT ![Sweeper] = s] /\ idle' = S \ {s}
         /\ mutex' = Sweeper /\ place' = [place EXCEPT ![Sweeper] = "close"] /\ UNCHANGED lockVars
  BY DEF Proceed
<1>3. /\ OthersStay(Sweeper) /\ CallsTyped' /\ PoolTyped' /\ place'[Sweeper] \in {"end", "close"}
  BY <1>1, <1>2 DEF OthersStay, CallsTyped, PoolTyped, Place
<1>4. LocksTyped' /\ \A c \in ToolCall : LockSound(c)'
  <2>1. CASE Tidy
    BY <1>3, <2>1, TidyKept
  <2>2. CASE UNCHANGED lockVars
    <3>1. UNCHANGED <<lockOf, holder, line>>
      BY <2>2 DEF lockVars
    <3>2. \A c \in ToolCall : c # Sweeper /\ c \in Actor
      BY <1>1 DEF Actor
    <3>3. LocksTyped'
      BY <1>1, <3>1 DEF LocksTyped
    <3>4. \A c \in ToolCall : LockSound(c)'
      BY <1>3, <3>1, <3>2 DEF OthersStay, LockSound, InLine, Sound, ConnInv
    <3> QED
      BY <3>3, <3>4
  <2> QED
    BY <1>2, <2>1, <2>2
<1>5. \A b \in Actor : b # Sweeper => place'[b] = place[b] /\ place[b] \notin {"close"} \cup Closing
  BY <1>1, <1>3 DEF OthersStay, MutexSound, Actor
<1>6. MutexSound'
  <2>1. CASE place' = [place EXCEPT ![Sweeper] = "end"] /\ mutex' = Nobody
    <3>1. place'[Sweeper] = "end" /\ "end" \notin {"close"} \cup Closing
      BY <1>1, <2>1 DEF CallsTyped, Closing
    <3> QED
      BY <1>1, <1>5, <2>1, <3>1 DEF MutexSound, Actor
  <2>2. ASSUME NEW s \in S, server' = [server EXCEPT ![Sweeper] = s], idle' = S \ {s},
               mutex' = Sweeper, place' = [place EXCEPT ![Sweeper] = "close"]
        PROVE  MutexSound'
    <3>1. place'[Sweeper] = "close" /\ server'[Sweeper] = s
      BY <1>1, <2>2 DEF CallsTyped
    <3>2. \A c \in ToolCall : place'[c] # "close"
      BY <1>1, <1>5 DEF Actor
    <3> QED
      BY <1>1, <1>5, <2>2, <3>1, <3>2 DEF MutexSound
  <2> QED
    BY <1>2, <2>1, <2>2
<1>7. PhasesApart'
  BY <1>1, <1>3, PhasesKept DEF Connecting, Closing
<1> QED
  BY <1>3, <1>4, <1>6, <1>7

LEMMA SweepBegins ==
  ASSUME Sound, Sweep, ~orphaned'
  PROVE  Sound'
<1>1. PICK S \in SUBSET Server : (\A s \in S : cache[s] # 0) /\ Proceed(S)
  BY DEF Sweep, Unused
<1>2. /\ place[Sweeper] = "end" /\ mutex = Nobody
      /\ UNCHANGED <<client, mine, future, awaited, cache, link, owner, taskVars, created>>
      /\ Sweeper \in Actor
  BY DEF Sweep, Actor
<1>3. \A c \in ToolCall : place[c] \notin Closing
  BY <1>2, McpAssumption DEF Sound, ConnInv, MutexSound, Actor
<1>4. /\ OthersStay(Sweeper) /\ CallsTyped' /\ PoolTyped' /\ LocksTyped'
      /\ (\A c \in ToolCall : LockSound(c)') /\ MutexSound' /\ PhasesApart'
      /\ place'[Sweeper] \in {"end", "close"}
  BY <1>1, <1>2, <1>3, ProceedKept
<1>5. TasksApart' /\ TasksSound' /\ TasksTyped' /\ LinksSound'
  BY <1>2, TasksKept, LinksKept
<1>6. \A i \in Id : link'[i] = "open" => Reachable(i)'
  BY <1>2, <1>4, ReachKept
<1>7. ASSUME NEW r \in Server PROVE ServerSound(r)'
  <2>1. ~Uses(Sweeper, r) /\ ~Uses(Sweeper, r)'
    BY <1>2, <1>4 DEF Uses, Connecting, Closing
  <2>2. UNCHANGED <<taskOf, queue, doing, ended>>
    BY <1>2 DEF taskVars
  <2> QED
    BY <1>2, <1>4, <2>1, <2>2, ServerKept
<1> QED
  BY <1>4, <1>5, <1>6, <1>7 DEF Sound, ConnInv

LEMMA SweptStep ==
  ASSUME Sound, Swept, ~orphaned'
  PROVE  Sound'
<1>1. /\ place[Sweeper] = "unhook" /\ Unhooked(Sweeper) /\ Forget(Sweeper, server[Sweeper])
      /\ Proceed(idle) /\ Sweeper \in Actor
      /\ UNCHANGED <<client, mine, future, awaited, cache, link, owner, created>>
  BY DEF Swept, Actor
<1>2. /\ mutex = Sweeper /\ idle \in SUBSET Server /\ \A s \in idle : cache[s] # 0
  BY <1>1 DEF Sound, PoolTyped, ConnInv, MutexSound, Closing
<1>3. \A c \in ToolCall : place[c] \notin Closing
  BY <1>2, McpAssumption DEF Sound, ConnInv, MutexSound, Actor
<1>4. /\ OthersStay(Sweeper) /\ CallsTyped' /\ PoolTyped' /\ LocksTyped'
      /\ (\A c \in ToolCall : LockSound(c)') /\ MutexSound' /\ PhasesApart'
      /\ place'[Sweeper] \in {"end", "close"}
  BY <1>1, <1>2, <1>3, ProceedKept
<1>5. /\ TasksTyped' /\ (\A r \in Server : ServerSound(r)')
      /\ TasksApart' /\ TasksSound' /\ LinksSound'
      /\ \A i \in Id : link'[i] = "open" => Reachable(i)'
  BY <1>1, <1>4, ForgetStep DEF Leaving, Connecting, Closing
<1> QED
  BY <1>4, <1>5 DEF Sound, ConnInv

(***************************************************************************)
(* Lifecycle tasks                                                          *)
(***************************************************************************)
\* Whatever a task has to do, it does for the user of its server.
LEMMA TaskAtWork ==
  ASSUME Sound, NEW t \in Id, Working(t), queue[t] # <<>> \/ doing[t] # Resting
  PROVE  \E s \in Server : \E a \in Actor :
           /\ server[a] = s /\ taskOf[s] = t /\ Uses(a, s) /\ UseSound(a, s)
           /\ Pending(a, t) \/ Stopping(a, t)
<1>1. \E s \in Server : taskOf[s] = t
  <2>1. (\A s \in Server : taskOf[s] # t) => Spare(t)
    BY DEF Sound, ConnInv, TasksSound
  <2> QED
    BY <2>1 DEF Spare, Working
<1>2. PICK s \in Server : taskOf[s] = t
  BY <1>1
<1>3. t # 0 /\ ~Rests(t) /\ ServerSound(s)
  BY McpAssumption DEF Id, Rests, Sound, ConnInv
<1>4. PICK a \in Actor : Uses(a, s)
  BY <1>2, <1>3 DEF ServerSound
<1>5. UseSound(a, s) /\ ~Served(a, t)
  BY <1>3, <1>4 DEF ServerSound, Served
<1> QED
  BY <1>2, <1>4, <1>5 DEF UseSound, Uses

\* A step of the task of a server that leaves the others, the locks and the mutex alone.
LEMMA TaskStepKept ==
  ASSUME Sound, NEW a \in Actor, NEW s \in Server, NEW t \in Id,
         server[a] = s, taskOf[s] = t, Uses(a, s), OthersStay(a),
         UNCHANGED <<place, server, mine, awaited, mutex, idle, lockVars, taskOf>>,
         CallsTyped', PoolTyped', TasksTyped',
         \A r \in Server : cache'[r] = cache[r] \/ (r = s /\ cache'[r] = 0 /\ place[a] \in Closing),
         place[a] \in Connecting => cache[s] = 0,
         cache'[s] = 0 \/ (cache'[s] = cache[s] /\ owner' = owner),
         \A u \in Id : u # t => queue'[u] = queue[u] /\ doing'[u] = doing[u] /\ (u \in ended' <=> u \in ended),
         \A i \in Id : owner[i] # 0 => owner'[i] = owner[i],
         created'.task = created.task,
         Pending(a, t)' \/ Served(a, t)' \/ Stopping(a, t)',
         LinksSound', \A i \in Id : link'[i] = "open" => Reachable(i)'
  PROVE  Sound'
<1>1. /\ LocksTyped' /\ t # 0
  BY McpAssumption DEF Sound, LocksTyped, lockVars, Id
<1>2. \A c \in ToolCall : LockSound(c)'
  BY DEF Sound, ConnInv, LockSound, InLine, lockVars
<1>3. PhasesApart'
  BY DEF Sound, ConnInv, PhasesApart
<1>4. MutexSound'
  <2>1. /\ MutexSound /\ Sweeper \in Actor
        /\ place[a] \in Closing => mutex = a
        /\ "close" \notin Closing /\ idle \in SUBSET Server /\ server[Sweeper] \in Server
    BY DEF Sound, ConnInv, MutexSound, Actor, Closing, PoolTyped, CallsTyped
  <2>2. place[Sweeper] = "close" => cache'[server[Sweeper]] # 0
    BY <2>1 DEF MutexSound
  <2>3. mutex = Sweeper => \A r \in idle : cache'[r] # 0 /\ r # server[Sweeper]
    BY <2>1 DEF MutexSound
  <2> QED
    BY <2>1, <2>2, <2>3 DEF MutexSound
<1>5. ASSUME NEW r \in Server, r # s PROVE ServerSound(r)'
  <2>1. ~Uses(a, r) /\ ~Uses(a, r)'
    BY <1>5 DEF Uses
  <2>2. taskOf[r] # t
    BY <1>1, <1>5 DEF Sound, ConnInv, TasksApart
  <2> QED
    BY <1>5, <2>1, <2>2, ServerKept
<1>6. ServerSound(s)'
  <2>1. Uses(a, s)' /\ \A b \in Actor : Uses(b, s)' <=> Uses(b, s)
    BY DEF Uses
  <2>2. ASSUME NEW b \in Actor, Uses(b, s) PROVE b = a
    BY <2>2, UsersAlone
  <2>3. place'[a] \in Connecting => cache'[s] = 0
    OBVIOUS
  <2>4. UseSound(a, s)'
    BY <1>1, <2>3 DEF UseSound
  <2>5. cache'[s] # 0 => taskOf'[s] # 0 /\ owner'[cache'[s]] = taskOf'[s]
    BY <1>1 DEF Sound, ConnInv, ServerSound
  <2> QED
    BY <2>1, <2>2, <2>4, <2>5 DEF ServerSound
<1>7. TasksApart'
  BY DEF Sound, ConnInv, TasksApart
<1>8. TasksSound'
  <2>1. \A u \in Id : (\A r \in Server : taskOf[r] # u) => u # t
    OBVIOUS
  <2> QED
    BY <2>1 DEF Sound, ConnInv, TasksSound, Spare
<1> QED
  BY <1>1, <1>2, <1>3, <1>4, <1>5, <1>6, <1>7, <1>8 DEF Sound, ConnInv

LEMMA OpParts ==
  ASSUME NEW k, NEW a
  PROVE  Op(k, a).kind = k /\ Op(k, a).by = a /\ Head(<<Op(k, a)>>) = Op(k, a) /\ Tail(<<Op(k, a)>>) = <<>>
  BY DEF Op

\* What the first operation of a task that is ready says of its user.
LEMMA ReadyFor ==
  ASSUME Sound, NEW t \in Id, Ready(t)
  PROVE  \E s \in Server : \E a \in Actor :
           /\ server[a] = s /\ taskOf[s] = t /\ Uses(a, s) /\ UseSound(a, s) /\ t \notin ended
           /\ Head(queue[t]).by = a /\ Tail(queue[t]) = <<>>
           /\ \/ /\ Pending(a, t) /\ Head(queue[t]).kind = Kinds[place[a]] /\ future[a] = "pending"
                 /\ Head(queue[t]) = Op(Kinds[place[a]], a)
              \/ Stopping(a, t) /\ Head(queue[t]).kind = "stop"
<1>1. PICK s \in Server, a \in Actor :
        /\ server[a] = s /\ taskOf[s] = t /\ Uses(a, s) /\ UseSound(a, s)
        /\ Pending(a, t) \/ Stopping(a, t)
  BY TaskAtWork DEF Ready
<1>2. queue[t] # <<>> /\ t \notin ended
  BY DEF Ready, Working
<1>3. CASE Pending(a, t)
  <2>1. queue[t] = <<Op(Kinds[place[a]], a)>> /\ future[a] = "pending"
    BY <1>2, <1>3 DEF Pending
  <2> QED
    BY <1>1, <1>2, <1>3, <2>1, OpParts
<1>4. CASE Stopping(a, t)
  <2>1. queue[t] = <<Op("stop", a)>>
    BY <1>2, <1>4 DEF Stopping
  <2> QED
    BY <1>1, <1>2, <1>4, <2>1, OpParts
<1> QED
  BY <1>1, <1>3, <1>4

LEMMA KindsOfPlaces ==
  ASSUME NEW p \in Waiting
  PROVE  /\ Kinds[p] \in {"connect", "close"} /\ (Kinds[p] = "connect" <=> p = "connect")
         /\ (Kinds[p] = "close" <=> p = "closing")
  BY DEF Waiting, Kinds

LEMMA BeginConnectStep ==
  ASSUME Sound, NEW t \in Id, BeginConnect(t)
  PROVE  Sound'
<1>1. /\ Ready(t) /\ Head(queue[t]).kind = "connect" /\ queue' = [queue EXCEPT ![t] = Tail(@)]
      /\ doing' = IF future[Head(queue[t]).by] = "cancelled" THEN doing ELSE [doing EXCEPT ![t] = Head(queue[t])]
      /\ UNCHANGED <<place, server, client, mine, future, awaited, cache, link, owner, mutex, idle,
                     lockVars, taskOf, ended, created>>
  BY DEF BeginConnect, Pop, callVars, poolVars
<1>2. PICK s \in Server, a \in Actor :
        /\ server[a] = s /\ taskOf[s] = t /\ Uses(a, s) /\ UseSound(a, s) /\ t \notin ended
        /\ Head(queue[t]).by = a /\ Tail(queue[t]) = <<>>
        /\ \/ /\ Pending(a, t) /\ Head(queue[t]).kind = Kinds[place[a]] /\ future[a] = "pending"
              /\ Head(queue[t]) = Op(Kinds[place[a]], a)
           \/ Stopping(a, t) /\ Head(queue[t]).kind = "stop"
  BY <1>1, ReadyFor
<1>3. /\ Pending(a, t) /\ place[a] \in Waiting /\ place[a] = "connect" /\ future[a] = "pending"
      /\ Head(queue[t]) = Op(Kinds[place[a]], a)
  <2>1. Pending(a, t) /\ place[a] \in Waiting
    BY <1>1, <1>2 DEF Pending
  <2> QED
    BY <1>1, <1>2, <2>1, KindsOfPlaces
<1>4. CallsTyped /\ PoolTyped /\ TasksTyped
  BY DEF Sound
<1>5. queue' = [queue EXCEPT ![t] = <<>>] /\ doing' = [doing EXCEPT ![t] = Op(Kinds[place[a]], a)]
  BY <1>1, <1>2, <1>3
<1>6. CallsTyped' /\ PoolTyped' /\ TasksTyped'
  <2>1. Op(Kinds[place[a]], a) \in Operation /\ <<>> \in Seq(Operation)
    BY <1>3, SubmitKinds
  <2>2. CallsTyped' /\ PoolTyped'
    BY <1>1, <1>4 DEF CallsTyped, PoolTyped
  <2>3. queue' \in [Id -> Seq(Operation)] /\ doing' \in [Id -> Operation]
    BY <1>4, <1>5, <2>1 DEF TasksTyped
  <2> QED
    BY <1>1, <1>4, <2>2, <2>3 DEF TasksTyped
<1>7. Pending(a, t)'
  BY <1>1, <1>2, <1>3, <1>4, <1>5 DEF Pending, TasksTyped
<1>8. \A u \in Id : u # t => queue'[u] = queue[u] /\ doing'[u] = doing[u]
  BY <1>4, <1>5 DEF TasksTyped
<1>9. OthersStay(a)
  BY <1>1 DEF OthersStay
<1>10. LinksSound' /\ \A i \in Id : link'[i] = "open" => Reachable(i)'
  BY <1>1, <1>9, LinksKept, ReachKept
<1>11. place[a] \in Connecting => cache[s] = 0
  BY <1>2 DEF UseSound
<1> QED
  BY <1>1, <1>2, <1>6, <1>7, <1>8, <1>9, <1>10, <1>11, TaskStepKept

LEMMA BeginStopStep ==
  ASSUME Sound, NEW t \in Id, BeginStop(t)
  PROVE  Sound'
<1>1. /\ Ready(t) /\ Head(queue[t]).kind = "stop" /\ queue' = [queue EXCEPT ![t] = Tail(@)]
      /\ ended' = ended \cup {t}
      /\ UNCHANGED <<place, server, client, mine, future, awaited, cache, link, owner, mutex, idle,
                     lockVars, taskOf, doing, created>>
  BY DEF BeginStop, Pop, callVars, poolVars
<1>2. PICK s \in Server, a \in Actor :
        /\ server[a] = s /\ taskOf[s] = t /\ Uses(a, s) /\ UseSound(a, s) /\ t \notin ended
        /\ Head(queue[t]).by = a /\ Tail(queue[t]) = <<>>
        /\ \/ /\ Pending(a, t) /\ Head(queue[t]).kind = Kinds[place[a]] /\ future[a] = "pending"
              /\ Head(queue[t]) = Op(Kinds[place[a]], a)
           \/ Stopping(a, t) /\ Head(queue[t]).kind = "stop"
  BY <1>1, ReadyFor
<1>3. Stopping(a, t)
  <2>1. Pending(a, t) => place[a] \in Waiting
    BY DEF Pending
  <2> QED
    BY <1>1, <1>2, <2>1, KindsOfPlaces
<1>4. CallsTyped /\ PoolTyped /\ TasksTyped
  BY DEF Sound
<1>5. queue' = [queue EXCEPT ![t] = <<>>]
  BY <1>1, <1>2
<1>6. CallsTyped' /\ PoolTyped' /\ TasksTyped'
  <2>1. <<>> \in Seq(Operation)
    OBVIOUS
  <2>2. CallsTyped' /\ PoolTyped'
    BY <1>1, <1>4 DEF CallsTyped, PoolTyped
  <2>3. queue' \in [Id -> Seq(Operation)] /\ ended' \in SUBSET Id
    BY <1>1, <1>4, <1>5, <2>1 DEF TasksTyped
  <2> QED
    BY <1>1, <1>4, <2>2, <2>3 DEF TasksTyped
<1>7. Stopping(a, t)'
  BY <1>1, <1>2, <1>3, <1>4, <1>5 DEF Stopping, TasksTyped
<1>8. \A u \in Id : u # t => queue'[u] = queue[u] /\ (u \in ended' <=> u \in ended)
  BY <1>1, <1>4, <1>5 DEF TasksTyped
<1>9. OthersStay(a)
  BY <1>1 DEF OthersStay
<1>10. LinksSound' /\ \A i \in Id : link'[i] = "open" => Reachable(i)'
  BY <1>1, <1>9, LinksKept, ReachKept
<1>11. place[a] \in Connecting => cache[s] = 0
  BY <1>2 DEF UseSound
<1> QED
  BY <1>1, <1>2, <1>6, <1>7, <1>8, <1>9, <1>10, <1>11, TaskStepKept

LEMMA RestingTyped == Resting \in Operation
  BY DEF Resting, Operation

LEMMA BeginCloseStep ==
  ASSUME Sound, NEW t \in Id, BeginClose(t)
  PROVE  Sound'
<1>1. Ready(t) /\ Head(queue[t]).kind = "close"
  BY DEF BeginClose
<1>2. PICK s \in Server, a \in Actor :
        /\ server[a] = s /\ taskOf[s] = t /\ Uses(a, s) /\ UseSound(a, s) /\ t \notin ended
        /\ Head(queue[t]).by = a /\ Tail(queue[t]) = <<>>
        /\ \/ /\ Pending(a, t) /\ Head(queue[t]).kind = Kinds[place[a]] /\ future[a] = "pending"
              /\ Head(queue[t]) = Op(Kinds[place[a]], a)
           \/ Stopping(a, t) /\ Head(queue[t]).kind = "stop"
  BY <1>1, ReadyFor
<1>3. /\ Pending(a, t) /\ place[a] \in Waiting /\ place[a] = "closing" /\ future[a] = "pending"
      /\ Head(queue[t]) = Op(Kinds[place[a]], a)
  <2>1. Pending(a, t) /\ place[a] \in Waiting
    BY <1>1, <1>2 DEF Pending
  <2> QED
    BY <1>1, <1>2, <2>1, KindsOfPlaces
<1>4. /\ queue' = [queue EXCEPT ![t] = <<>>] /\ cache' = [cache EXCEPT ![s] = 0]
      /\ IF Closable(cache[s], t)
           THEN /\ link' = [link EXCEPT ![cache[s]] = "closing"]
                /\ doing' = [doing EXCEPT ![t] = Op(Kinds[place[a]], a)] /\ future' = future
           ELSE future' = [future EXCEPT ![a] = "ok"] /\ link' = link /\ doing' = doing
      /\ UNCHANGED <<place, server, client, mine, awaited, owner, mutex, idle, lockVars, taskOf,
                     ended, created>>
  BY <1>2, <1>3 DEF BeginClose, Pop
<1>5. /\ CallsTyped /\ PoolTyped /\ TasksTyped /\ cache[s] \in 0..MaxMade /\ MaxMade \in Nat
  BY McpAssumption DEF Sound, PoolTyped
<1>6. OthersStay(a)
  BY <1>4, <1>5 DEF OthersStay, CallsTyped
<1>7. CallsTyped' /\ PoolTyped'
  <2>1. CallsTyped'
    BY <1>4, <1>5 DEF CallsTyped
  <2>2. link' \in [Id -> {"new", "open", "dead", "closing", "closed"}]
    BY <1>4, <1>5 DEF PoolTyped
  <2>3. cache' \in [Server -> 0..MaxMade]
    BY <1>4, <1>5 DEF PoolTyped
  <2> QED
    BY <1>4, <1>5, <2>1, <2>2, <2>3 DEF PoolTyped
<1>8. TasksTyped'
  <2>1. Op(Kinds[place[a]], a) \in Operation /\ <<>> \in Seq(Operation)
    BY <1>3, SubmitKinds
  <2>2. queue' \in [Id -> Seq(Operation)] /\ doing' \in [Id -> Operation]
    BY <1>4, <1>5, <2>1 DEF TasksTyped
  <2> QED
    BY <1>4, <1>5, <2>2 DEF TasksTyped
<1>9. cache'[s] = 0 /\ \A r \in Server : r # s => cache'[r] = cache[r]
  BY <1>4, <1>5 DEF PoolTyped
<1>10. place[a] \in Closing /\ place[a] \notin Connecting
  BY <1>3 DEF Closing, Connecting
<1>11. \A u \in Id : u # t => queue'[u] = queue[u] /\ doing'[u] = doing[u]
  BY <1>4, <1>5 DEF TasksTyped
<1>12. queue'[t] = <<>> /\ doing[t] = Resting
  BY <1>1, <1>4, <1>5 DEF TasksTyped, Ready
<1>13. Pending(a, t)' \/ Served(a, t)'
  <2>1. CASE Closable(cache[s], t)
    <3>1. doing'[t] = Op(Kinds[place'[a]], a) /\ future'[a] = "pending"
      BY <1>3, <1>4, <1>5, <2>1 DEF TasksTyped
    <3>2. Pending(a, t)'
      BY <1>2, <1>3, <1>4, <1>9, <1>12, <3>1 DEF Pending
    <3> QED
      BY <3>2
  <2>2. CASE ~Closable(cache[s], t)
    <3>1. doing'[t] = Resting /\ future'[a] = "ok"
      BY <1>4, <1>5, <1>12, <2>2 DEF CallsTyped
    <3>2. Rests(t)'
      BY <1>2, <1>4, <1>12, <3>1 DEF Rests
    <3>3. place'[a] = "closing" /\ place'[a] \in Waiting /\ cache'[server'[a]] = 0
      BY <1>2, <1>3, <1>4, <1>9
    <3> QED
      BY <3>1, <3>2, <3>3 DEF Served
  <2> QED
    BY <2>1, <2>2
<1>14. LinksSound'
  <2>1. cache[s] # 0 => cache[s] \in Id /\ owner[cache[s]] # 0
    BY <1>2, <1>5, McpAssumption DEF Sound, ConnInv, ServerSound, Id
  <2>2. \A i \in Id : i > created.link => link[i] = "new" /\ owner[i] = 0
    BY DEF Sound, ConnInv, LinksSound
  <2>3. \A i \in Id : i > created.link => i # cache[s]
    <3>1. 0 \notin Id
      BY McpAssumption DEF Id
    <3> QED
      BY <2>1, <2>2, <3>1
  <2>4. \A i \in Id : i # cache[s] => link'[i] = link[i]
    BY <1>4, <1>5 DEF PoolTyped
  <2> QED
    BY <1>4, <2>2, <2>3, <2>4 DEF LinksSound
<1>15. ASSUME NEW i \in Id, link'[i] = "open" PROVE Reachable(i)'
  <2>1. i # 0
    BY McpAssumption DEF Id
  <2>2. link[i] = "open" /\ i # cache[s]
    <3>1. CASE Closable(cache[s], t)
      BY <1>4, <1>5, <1>15, <3>1 DEF PoolTyped
    <3>2. CASE ~Closable(cache[s], t)
      <4>1. cache[s] = 0
        BY <1>2, <3>2 DEF Closable, Sound, ConnInv, ServerSound
      <4> QED
        BY <1>4, <1>15, <2>1, <3>2, <4>1
    <3> QED
      BY <3>1, <3>2
  <2>3. Reachable(i)
    BY <2>2 DEF Sound, ConnInv
  <2>4. ASSUME NEW r \in Server, cache[r] = i PROVE cache'[r] = i
    BY <1>9, <2>2, <2>4
  <2>5. ASSUME NEW c \in ToolCall, place[c] = "connect", future[c] = "ok", client[c] = i
        PROVE  place'[c] = "connect" /\ future'[c] = "ok" /\ client'[c] = i
    BY <1>3, <1>4, <1>6, <2>5 DEF OthersStay, Actor
  <2> QED
    BY <2>3, <2>4, <2>5 DEF Reachable
<1>16. \A i \in Id : link'[i] = "open" => Reachable(i)'
  BY <1>15
<1> QED
  BY <1>2, <1>4, <1>6, <1>7, <1>8, <1>9, <1>10, <1>11, <1>13, <1>14, <1>16, TaskStepKept

\* What a task is doing, it does for the user of its server, who waits for it.
LEMMA DoingFor ==
  ASSUME Sound, NEW t \in Id, Working(t), doing[t].kind \in {"connect", "close"}
  PROVE  \E s \in Server : \E a \in Actor :
           /\ server[a] = s /\ taskOf[s] = t /\ Uses(a, s) /\ UseSound(a, s)
           /\ t \notin ended /\ future[a] = "pending" /\ queue[t] = <<>> /\ doing[t].by = a
           /\ place[a] \in Waiting /\ doing[t].kind = Kinds[place[a]]
           /\ place[a] = "closing" => cache[s] = 0
<1>1. Resting.kind = "none" /\ doing[t] # Resting
  <2>1. Resting.kind = "none"
    BY OpParts DEF Resting
  <2> QED
    BY <2>1
<1>2. PICK s \in Server, a \in Actor :
        /\ server[a] = s /\ taskOf[s] = t /\ Uses(a, s) /\ UseSound(a, s)
        /\ Pending(a, t) \/ Stopping(a, t)
  BY <1>1, TaskAtWork
<1>3. Pending(a, t)
  BY <1>1, <1>2 DEF Stopping
<1>4. doing[t] = Op(Kinds[place[a]], a)
  BY <1>1, <1>3 DEF Pending
<1>5. doing[t].kind = Kinds[place[a]] /\ doing[t].by = a
  BY <1>4, OpParts
<1> QED
  BY <1>1, <1>2, <1>3, <1>5 DEF Pending

LEMMA FinishConnectStep ==
  ASSUME Sound, NEW t \in Id, FinishConnect(t)
  PROVE  Sound'
<1>1. Working(t) /\ doing[t].kind = "connect"
  BY DEF FinishConnect
<1>2. PICK s \in Server, a \in Actor :
        /\ server[a] = s /\ taskOf[s] = t /\ Uses(a, s) /\ UseSound(a, s)
        /\ t \notin ended /\ future[a] = "pending" /\ queue[t] = <<>> /\ doing[t].by = a
        /\ place[a] \in Waiting /\ doing[t].kind = Kinds[place[a]]
        /\ place[a] = "closing" => cache[s] = 0
  BY <1>1, DoingFor
<1>3. /\ CallsTyped /\ PoolTyped /\ TasksTyped /\ MaxMade \in Nat
      /\ created.link \in 0..MaxMade
  BY McpAssumption DEF Sound, PoolTyped
<1>4. place[a] = "connect" /\ a \in ToolCall
  BY <1>1, <1>2, KindsOfPlaces DEF Sound, ConnInv, MutexSound, Actor, Closing
<1>5. /\ doing' = [doing EXCEPT ![t] = Resting]
      /\ UNCHANGED <<place, server, mine, awaited, cache, mutex, idle, lockVars, taskOf, queue, ended>>
      /\ \/ /\ created.link + 1 \in Id
            /\ link' = [link EXCEPT ![created.link + 1] = "open"]
            /\ owner' = [owner EXCEPT ![created.link + 1] = t]
            /\ created' = [created EXCEPT !.link = created.link + 1]
            /\ future' = [future EXCEPT ![a] = "ok"] /\ client' = [client EXCEPT ![a] = created.link + 1]
         \/ future' = [future EXCEPT ![a] = "error"] /\ UNCHANGED <<link, owner, created, client>>
  BY <1>2 DEF FinishConnect, SetResult
<1>6. OthersStay(a) /\ CallsTyped'
  <2>1. created.link + 1 \in Id => created.link + 1 \in 0..MaxMade
    BY <1>3 DEF Id
  <2>2. client' \in [Actor -> 0..MaxMade] /\ \A b \in Actor : b # a => client'[b] = client[b]
    BY <1>3, <1>5, <2>1 DEF CallsTyped
  <2>3. /\ future' \in [Actor -> {"none", "pending", "ok", "error", "cancelled"}]
        /\ \A b \in Actor : b # a => future'[b] = future[b]
    BY <1>3, <1>5 DEF CallsTyped
  <2> QED
    BY <1>3, <1>5, <2>2, <2>3 DEF OthersStay, CallsTyped
<1>7. PoolTyped' /\ created'.task = created.task
  <2>1. t \in 0..MaxMade /\ (created.link + 1 \in Id => created.link + 1 \in 0..MaxMade)
    BY <1>3 DEF Id
  <2>2. link' \in [Id -> {"new", "open", "dead", "closing", "closed"}]
    BY <1>3, <1>5 DEF PoolTyped
  <2>3. owner' \in [Id -> 0..MaxMade]
    BY <1>3, <1>5, <2>1 DEF PoolTyped
  <2>4. created' \in [{"link", "task", "lock"} -> 0..MaxMade] /\ created'.task = created.task
    BY <1>3, <1>5, <2>1 DEF PoolTyped
  <2> QED
    BY <1>3, <1>5, <2>2, <2>3, <2>4 DEF PoolTyped
<1>8. TasksTyped' /\ doing'[t] = Resting /\ \A u \in Id : u # t => doing'[u] = doing[u]
  <2>1. Resting \in Operation
    BY RestingTyped
  <2> QED
    BY <1>3, <1>5, <2>1 DEF TasksTyped
<1>9. \A i \in Id : i > created.link => link[i] = "new" /\ owner[i] = 0
  BY DEF Sound, ConnInv, LinksSound
<1>10. \A i \in Id : owner[i] # 0 => owner'[i] = owner[i]
  BY <1>3, <1>5, <1>9 DEF PoolTyped
<1>11. cache[s] = 0 /\ t # 0
  BY <1>2, <1>3, <1>4 DEF UseSound, Connecting, Id
<1>12. Served(a, t)'
  <2>1. Rests(t)'
    BY <1>2, <1>5, <1>8 DEF Rests
  <2>2. CASE future' = [future EXCEPT ![a] = "error"]
    <3>1. future'[a] = "error"
      BY <1>3, <2>2 DEF CallsTyped
    <3> QED
      BY <1>2, <1>4, <1>5, <2>1, <3>1 DEF Served
  <2>3. CASE /\ created.link + 1 \in Id
             /\ owner' = [owner EXCEPT ![created.link + 1] = t]
             /\ future' = [future EXCEPT ![a] = "ok"] /\ client' = [client EXCEPT ![a] = created.link + 1]
    <3>1. future'[a] = "ok" /\ client'[a] = created.link + 1 /\ owner'[created.link + 1] = t
      BY <1>3, <2>3 DEF CallsTyped, PoolTyped
    <3> QED
      BY <1>2, <1>4, <1>5, <2>1, <2>3, <3>1 DEF Served
  <2> QED
    BY <1>5, <2>2, <2>3
<1>13. LinksSound'
  <2>1. CASE UNCHANGED <<link, owner, created>>
    BY <2>1, LinksKept
  <2>2. CASE /\ created.link + 1 \in Id
             /\ link' = [link EXCEPT ![created.link + 1] = "open"]
             /\ owner' = [owner EXCEPT ![created.link + 1] = t]
             /\ created' = [created EXCEPT !.link = created.link + 1]
    <3>1. created'.link = created.link + 1
      BY <1>3, <2>2 DEF PoolTyped
    <3> QED
      BY <1>3, <1>9, <2>2, <3>1 DEF LinksSound, PoolTyped, Id
  <2> QED
    BY <1>5, <2>1, <2>2
<1>14. \A i \in Id : link'[i] = "open" => Reachable(i)'
  <2>1. CASE link' = link
    BY <1>2, <1>5, <1>6, <2>1, ReachKept
  <2>2. CASE /\ created.link + 1 \in Id
             /\ link' = [link EXCEPT ![created.link + 1] = "open"]
             /\ future' = [future EXCEPT ![a] = "ok"] /\ client' = [client EXCEPT ![a] = created.link + 1]
    <3>1. future'[a] = "ok" /\ client'[a] = created.link + 1 /\ place'[a] = "connect"
      BY <1>3, <1>4, <1>5, <2>2 DEF CallsTyped
    <3>2. ASSUME NEW i \in Id, i = created.link + 1 PROVE Reachable(i)'
      <4>1. \E c \in ToolCall : place'[c] = "connect" /\ future'[c] = "ok" /\ client'[c] = i
        BY <1>4, <3>1, <3>2
      <4> QED
        BY <4>1 DEF Reachable
    <3>3. ASSUME NEW i \in Id, i # created.link + 1, link'[i] = "open" PROVE Reachable(i)'
      <4>1. Reachable(i)
        BY <1>3, <2>2, <3>3 DEF Sound, ConnInv, PoolTyped
      <4>2. ASSUME NEW c \in ToolCall, place[c] = "connect", future[c] = "ok", client[c] = i
            PROVE  place'[c] = "connect" /\ future'[c] = "ok" /\ client'[c] = i
        BY <1>2, <1>6, <4>2 DEF OthersStay, Actor
      <4> QED
        BY <1>5, <4>1, <4>2 DEF Reachable
    <3> QED
      BY <3>2, <3>3
  <2> QED
    BY <1>5, <2>1, <2>2
<1> QED
  BY <1>2, <1>5, <1>6, <1>7, <1>8, <1>10, <1>11, <1>12, <1>13, <1>14, TaskStepKept

LEMMA FinishCloseStep ==
  ASSUME Sound, NEW t \in Id, FinishClose(t)
  PROVE  Sound'
<1>1. Working(t) /\ doing[t].kind = "close"
  BY DEF FinishClose
<1>2. PICK s \in Server, a \in Actor :
        /\ server[a] = s /\ taskOf[s] = t /\ Uses(a, s) /\ UseSound(a, s)
        /\ t \notin ended /\ future[a] = "pending" /\ queue[t] = <<>> /\ doing[t].by = a
        /\ place[a] \in Waiting /\ doing[t].kind = Kinds[place[a]]
        /\ place[a] = "closing" => cache[s] = 0
  BY <1>1, DoingFor
<1>3. CallsTyped /\ PoolTyped /\ TasksTyped /\ place[a] = "closing" /\ cache[s] = 0
  BY <1>1, <1>2, KindsOfPlaces DEF Sound
<1>4. PICK outcome \in {"ok", "error"} : future' = [future EXCEPT ![a] = outcome]
  BY <1>2 DEF FinishClose, SetResult
<1>5. /\ doing' = [doing EXCEPT ![t] = Resting]
      /\ link' = [i \in Id |-> IF link[i] = "closing" /\ owner[i] = t THEN "closed" ELSE link[i]]
      /\ UNCHANGED <<place, server, client, mine, awaited, cache, owner, mutex, idle, lockVars,
                     taskOf, queue, ended, created>>
  BY DEF FinishClose
<1>6. OthersStay(a) /\ CallsTyped' /\ future'[a] = outcome
  BY <1>3, <1>4, <1>5 DEF OthersStay, CallsTyped
<1>7. PoolTyped' /\ \A i \in Id : link'[i] = link[i] \/ (link[i] = "closing" /\ link'[i] = "closed")
  BY <1>3, <1>5 DEF PoolTyped
<1>8. TasksTyped' /\ doing'[t] = Resting /\ \A u \in Id : u # t => doing'[u] = doing[u]
  <2>1. Resting \in Operation
    BY RestingTyped
  <2> QED
    BY <1>3, <1>5, <2>1 DEF TasksTyped
<1>9. Served(a, t)'
  <2>1. Rests(t)'
    BY <1>2, <1>5, <1>8 DEF Rests
  <2> QED
    BY <1>2, <1>3, <1>5, <1>6, <2>1 DEF Served
<1>10. LinksSound'
  BY <1>5, <1>7 DEF Sound, ConnInv, LinksSound
<1>11. \A i \in Id : link'[i] = "open" => Reachable(i)'
  BY <1>3, <1>5, <1>6, <1>7, ReachKept
<1> QED
  BY <1>2, <1>3, <1>5, <1>6, <1>7, <1>8, <1>9, <1>10, <1>11, TaskStepKept

LEMMA BreakStep ==
  ASSUME Sound, NEW i \in Id, Break(i)
  PROVE  Sound'
<1>1. /\ link[i] = "open" /\ link' = [link EXCEPT ![i] = "dead"]
      /\ UNCHANGED <<place, server, client, mine, future, awaited, cache, owner, mutex, idle,
                     lockOf, holder,
                     line, taskOf, queue, doing, ended, created>>
  BY DEF Break, callVars, lockVars, taskVars
<1>2. CallsTyped' /\ LocksTyped' /\ TasksTyped'
  BY <1>1 DEF Sound, CallsTyped, LocksTyped, TasksTyped
<1>3. PoolTyped' /\ \A j \in Id : j # i => link'[j] = link[j]
  BY <1>1 DEF Sound, PoolTyped
<1>4. (\A d \in ToolCall : LockSound(d)') /\ MutexSound' /\ PhasesApart'
  BY <1>1 DEF Sound, ConnInv, LockSound, InLine, MutexSound, PhasesApart
<1>5. TasksApart' /\ TasksSound'
  BY <1>1 DEF Sound, ConnInv, TasksApart, TasksSound, Spare
<1>6. LinksSound'
  BY <1>1, <1>3 DEF Sound, ConnInv, LinksSound
<1>7. link'[i] = "dead"
  BY <1>1 DEF Sound, PoolTyped
<1>8. \A j \in Id : link'[j] = "open" => Reachable(j)'
  BY <1>1, <1>3, <1>7 DEF Sound, ConnInv, Reachable
<1>9. \A s \in Server : ServerSound(s)'
  BY <1>1 DEF Sound, ConnInv, ServerSound, Uses, UseSound, Pending, Served, Stopping, Rests
<1> QED
  BY <1>2, <1>3, <1>4, <1>5, <1>6, <1>8, <1>9 DEF Sound, ConnInv

(***************************************************************************)
(* Calm ends for good, and until then nothing strays                        *)
(***************************************************************************)
LEMMA ConnInit == McpInit => CalmInv
<1> SUFFICES ASSUME McpInit PROVE CalmInv
  OBVIOUS
<1> USE DEF McpInit, McpInitAt
<1>1. /\ Sweeper \in Actor /\ MaxMade \in Nat /\ Resting \in Operation /\ Sweeper # Nobody
      /\ {"end", "fast"} \subseteq Place
  BY McpAssumption DEF Actor, Resting, Op, Operation, Place
<1>2. CallsTyped /\ PoolTyped /\ LocksTyped
  BY <1>1 DEF CallsTyped, PoolTyped, LocksTyped
<1>3. TasksTyped
  BY <1>1 DEF TasksTyped
<1>4. \A a \in Actor : place[a] \in {"end", "fast"}
  OBVIOUS
<1>5. (\A c \in ToolCall : LockSound(c)) /\ PhasesApart
  BY <1>4 DEF LockSound, PhasesApart, Holding, Connecting, Closing, Actor
<1>6. MutexSound
  BY <1>1, <1>4 DEF MutexSound, Closing, Actor
<1>7. \A s \in Server : ServerSound(s)
  BY <1>4 DEF ServerSound, Uses, Connecting, Closing
<1>8. TasksApart /\ TasksSound
  BY <1>1 DEF TasksApart, TasksSound, Spare, Id
<1>9. LinksSound /\ \A i \in Id : link[i] = "open" => Reachable(i)
  BY DEF LinksSound
<1> QED
  BY <1>2, <1>3, <1>5, <1>6, <1>7, <1>8, <1>9 DEF CalmInv, ConnInv

LEMMA SoundNext ==
  ASSUME Sound, CalmInv, Calm, McpNext, Calm'
  PROVE  Sound'
<1>1. ASSUME NEW c \in ToolCall, ProxyStep(c) PROVE Sound'
  <2>1. c \in Actor
    BY DEF Actor
  <2>2. CASE Evict(c)
    BY <2>2, ProxyFree, EvictStep
  <2>3. CASE Recheck(c)
    BY <2>3, RecheckUse, RecheckConnect
  <2>4. CASE Cached(c) \/ Refused(c) \/ Send(c) \/ CallReturns(c) \/ CallFails(c)
    BY <2>4, ProxyFree
  <2>5. CASE Lock(c) \/ HandOver(c) \/ Store(c) \/ ConnectFailed(c) \/ Raise(c)
    BY <2>5, LockStep, HandOverStep, StoreStep, ConnectFailedStep, RaiseStep
  <2>6. CASE Closed(c) \/ Evicted(c)
    BY <2>1, <2>6, ClosedStep, EvictedStep
  <2> QED
    BY <1>1, <2>2, <2>3, <2>4, <2>5, <2>6 DEF ProxyStep
<1>2. ASSUME NEW c \in ToolCall, Cancel(c) PROVE FALSE
  BY <1>2 DEF Cancel, Calm, CalmInv
<1>3. ASSUME NEW t \in Id, TaskStep(t) PROVE Sound'
  BY <1>3, BeginConnectStep, BeginCloseStep, BeginStopStep, FinishConnectStep, FinishCloseStep DEF TaskStep
<1>4. ASSUME Sweep \/ SweepStep PROVE Sound'
  <2>1. ~orphaned' /\ Sweeper \in Actor
    BY DEF Calm, Actor
  <2> QED
    BY <1>4, <2>1, SweepBegins, SweepCloseStep, ClosedStep, SweptStep DEF SweepStep
<1> QED
  BY <1>1, <1>2, <1>3, <1>4, MarkFree, BreakStep DEF McpNext

LEMMA CalmStays ==
  ASSUME CalmInv, McpNext
  PROVE  /\ orphaned' \in BOOLEAN /\ spent' \in [{"cancels", "sweeps", "deaths"} -> Nat]
         /\ Calm' => Calm
<1>1. /\ orphaned \in BOOLEAN /\ spent \in [{"cancels", "sweeps", "deaths"} -> Nat]
  BY DEF CalmInv
<1>2. ASSUME NEW c \in ToolCall, ProxyStep(c) \/ MarkStep(c) PROVE UNCHANGED <<orphaned, spent>>
  BY <1>2 DEF ProxyStep, MarkStep, Mark, Cached, Refused, Lock, HandOver, Recheck, Store, ConnectFailed, Raise,
              Send, CallReturns, CallFails, Evict, Closed, Evicted, lockVars
<1>3. ASSUME NEW t \in Id, TaskStep(t) PROVE UNCHANGED <<orphaned, spent>>
  BY <1>3 DEF TaskStep, BeginConnect, BeginClose, BeginStop, FinishConnect, FinishClose, lockVars
<1>4. ASSUME NEW c \in ToolCall, Cancel(c)
      PROVE  orphaned' = orphaned /\ spent' = [spent EXCEPT !.cancels = @ + 1]
  BY <1>4 DEF Cancel
<1>5. ASSUME NEW i \in Id, Break(i) PROVE orphaned' = orphaned /\ spent' = [spent EXCEPT !.deaths = @ + 1]
  BY <1>5 DEF Break, lockVars
<1>6. ASSUME NEW S, Proceed(S) PROVE orphaned' \in BOOLEAN /\ (orphaned => orphaned')
  BY <1>1, <1>6 DEF Proceed, Tidy, lockVars
<1>7. ASSUME Sweep \/ SweepStep
      PROVE  /\ orphaned' \in BOOLEAN /\ (orphaned => orphaned')
             /\ spent' = spent \/ spent' = [spent EXCEPT !.sweeps = @ + 1]
  <2>1. CASE Sweep
    BY <1>6, <2>1 DEF Sweep
  <2>2. CASE SweepClose \/ Closed(Sweeper)
    BY <1>1, <2>2 DEF SweepClose, Closed, lockVars
  <2>3. CASE Swept
    BY <1>6, <2>3 DEF Swept
  <2> QED
    BY <1>7, <2>1, <2>2, <2>3 DEF SweepStep
<1>8. /\ orphaned' \in BOOLEAN /\ (orphaned => orphaned')
      /\ \/ spent' = spent
         \/ spent' = [spent EXCEPT !.cancels = @ + 1]
         \/ spent' = [spent EXCEPT !.sweeps = @ + 1]
         \/ spent' = [spent EXCEPT !.deaths = @ + 1]
  BY <1>1, <1>2, <1>3, <1>4, <1>5, <1>7 DEF McpNext
<1> QED
  BY <1>1, <1>8 DEF Calm

LEMMA CalmNext ==
  ASSUME CalmInv, [McpNext]_mcpVars
  PROVE  CalmInv'
<1>1. CASE McpNext
  <2>1. /\ orphaned' \in BOOLEAN /\ spent' \in [{"cancels", "sweeps", "deaths"} -> Nat]
        /\ Calm' => Calm
    BY <1>1, CalmStays
  <2>2. Calm => Sound
    BY DEF CalmInv, Sound
  <2>3. Calm' => Sound'
    BY <1>1, <2>1, <2>2, SoundNext
  <2> QED
    BY <2>1, <2>3 DEF CalmInv, Sound
<1>2. CASE UNCHANGED mcpVars
  <2>1. /\ UNCHANGED <<place, server, client, mine, future, awaited, poolVars, lockVars, taskVars,
                       created>>
        /\ UNCHANGED <<orphaned, spent>>
    BY <1>2 DEF mcpVars, callVars, lockVars
  <2>2. Calm => Sound
    BY DEF CalmInv, Sound
  <2>3. (Calm' <=> Calm) /\ (Sound => Sound')
    BY <2>1, SoundStays DEF Calm
  <2> QED
    BY <2>1, <2>2, <2>3 DEF CalmInv, Sound
<1> QED
  BY <1>1, <1>2

\* Concurrent first calls connect once, and no connection is left open where nobody
\* would close it, through evictions, sweeps and broken connections.
THEOREM NothingStrays == McpSpec => []NoStrays
<1>1. CalmInv => NoStrays
  <2> SUFFICES ASSUME CalmInv, ~orphaned, ~(spent.cancels > 0) PROVE NoStrays
    BY DEF NoStrays
  <2>1. Calm
    BY DEF CalmInv, Calm
  <2> QED
    BY <2>1 DEF CalmInv, ConnInv, Reachable, NoStrays
<1> QED
  BY <1>1, ConnInit, CalmNext, PTL DEF McpSpec

\* Until a call is cancelled or a lock dropped, one call or the sweep at a time has a
\* server's lifecycle task connect, close or stop: no two wait for one task.
OneUser ==
  Calm => \A s \in Server, a, b \in Actor : Uses(a, s) /\ Uses(b, s) => a = b

THEOREM OneUserPerServer == McpSpec => []OneUser
<1>1. CalmInv => OneUser
  BY UsersAlone DEF CalmInv, Sound, OneUser
<1> QED
  BY <1>1, ConnInit, CalmNext, PTL DEF McpSpec
==============================================================================
