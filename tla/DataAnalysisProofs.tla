------------------------- MODULE DataAnalysisProofs -------------------------
(***************************************************************************)
(* What DataAnalysis keeps for any requirements, modes, calls and width of *)
(* a turn.  First its types, and that every reported requirement rests on  *)
(* evidence; the second needs a strengthening, for a call carries a copy   *)
(* of the requirements over an await (the grounder's) and puts it back.    *)
(*                                                                         *)
(* Then what its queries keep although the calls of a turn share the       *)
(* attempt that is current: a call that is past its plan has an attempt,   *)
(* the verdict and the result that the state speaks of are those of the    *)
(* last one, and the late phases are left by every plan.                   *)
(***************************************************************************)
EXTENDS DataAnalysis, FiniteSetTheorems, TLAPS

\* The state of a segment, with bindings that name attempts of it.
Sound(d) == d \in State /\ \A b \in d.bindings : b.attempt \in DOMAIN d.attempts

\* Supported, in any state.
Rests(d, r) ==
  \E claim \in d.claims :
    /\ claim.req = r /\ claim.evidence # {} /\ claim.evidence \subseteq d.bindings
    /\ r \in Structured => \E b \in claim.evidence : r \in d.attempts[b.attempt].reqs

\* A record of a result drops no claim, no binding and no attempt.
Keeps(d, e) ==
  /\ d.claims \subseteq e.claims /\ d.bindings \subseteq e.bindings
  /\ \A i \in DOMAIN d.attempts : i \in DOMAIN e.attempts /\ e.attempts[i].reqs = d.attempts[i].reqs

\* A record reports nothing that was not reported.
Reports(d, e) == \A r \in User : e.req[r] = "reported" => d.req[r] = "reported"

Follows(d, e) == Sound(e) /\ Keeps(d, e) /\ Reports(d, e)

-----------------------------------------------------------------------------
(* The state: what its updates keep. *)

\* What a claim rests on, it rests on for good.
LEMMA RestsForGood ==
  ASSUME NEW d, NEW e, NEW r \in User, Sound(d), Keeps(d, e), Rests(d, r)
  PROVE  Rests(e, r)
<1>1. PICK claim \in d.claims :
        /\ claim.req = r /\ claim.evidence # {} /\ claim.evidence \subseteq d.bindings
        /\ r \in Structured => \E b \in claim.evidence : r \in d.attempts[b.attempt].reqs
  BY DEF Rests
<1>2. claim \in e.claims /\ claim.evidence \subseteq e.bindings
  BY <1>1 DEF Keeps
<1>3. r \in Structured => \E b \in claim.evidence : r \in e.attempts[b.attempt].reqs
  BY <1>1 DEF Keeps, Sound
<1> QED
  BY <1>1, <1>2, <1>3 DEF Rests

\* Updating one attempt, or none if the index is outside.
LEMMA UpdateOne ==
  ASSUME NEW S, NEW s \in Seq(S), NEW i, NEW v, i \in DOMAIN s => v \in S
  PROVE  /\ [s EXCEPT ![i] = v] \in Seq(S)
         /\ DOMAIN [s EXCEPT ![i] = v] = DOMAIN s
         /\ \A j \in DOMAIN s : [s EXCEPT ![i] = v][j] = IF j = i THEN v ELSE s[j]
<1> DEFINE t == [s EXCEPT ![i] = v]
<1>1. DOMAIN s = 1..Len(s) /\ Len(s) \in Nat /\ \A j \in 1..Len(s) : s[j] \in S
  OBVIOUS
<1>2. t = [j \in 1..Len(s) |-> IF j = i THEN v ELSE s[j]]
  BY <1>1
<1>3. \A j \in 1..Len(s) : t[j] \in S
  BY <1>1, <1>2
<1>4. t \in [1..Len(s) -> S]
  BY <1>2, <1>3
<1>5. t \in Seq(S)
  BY <1>1, <1>4
<1> QED
  BY <1>1, <1>2, <1>5

\* advanceStatus stays in the statuses, and never reports.
LEMMA StatusTyped ==
  ASSUME NEW current \in Status, NEW target \in Status
  PROVE  /\ advanceStatus(current, target) \in Status
         /\ target # "reported" /\ advanceStatus(current, target) = "reported" => current = "reported"
  BY DEF advanceStatus

\* Advancing requirements changes nothing else.
LEMMA AdvancedFollows ==
  ASSUME NEW d, Sound(d), NEW ids, NEW status \in Status \ {"reported"}
  PROVE  Follows(d, Advanced(d, ids, status))
<1> DEFINE req == [r \in Requirement |-> IF r \in ids THEN advanceStatus(d.req[r], status) ELSE d.req[r]]
<1>1. req \in [Requirement -> Status] /\ \A r \in User : req[r] = "reported" => d.req[r] = "reported"
  BY StatusTyped DEF Sound, State, Requirement
<1>2. Advanced(d, ids, status) = [d EXCEPT !.req = req]
  BY DEF Advanced, Sound, State
<1> HIDE DEF req
<1>3. [d EXCEPT !.req = req] \in State
  BY <1>1 DEF Sound, State
<1> QED
  BY <1>1, <1>2, <1>3 DEF Follows, Sound, State, Keeps, Reports

\* Follows is transitive.
LEMMA FollowsOn ==
  ASSUME NEW d, NEW e, NEW f, Follows(d, e), Follows(e, f)
  PROVE  Follows(d, f)
  BY DEF Follows, Keeps, Reports

\* An inspection of the schema grounds a contract without requirements.
LEMMA InspectedFollows ==
  ASSUME NEW d, Sound(d)
  PROVE  Follows(d, Inspected(d))
<1> DEFINE e == [d EXCEPT !.inspected = TRUE, !.grounded = (User = {}) \/ @]
<1>1. Follows(d, e)
  BY DEF Follows, Sound, State, Keeps, Reports
<1>2. Follows(e, Advanced(e, {"CORE_SCHEMA"}, "validated"))
  BY <1>1, AdvancedFollows DEF Follows, Status
<1> QED
  BY <1>1, <1>2, FollowsOn DEF Inspected

\* The outcome of the provider chain may revoke the grounding, no more.
LEMMA ResolvedFollows ==
  ASSUME NEW d, Sound(d), NEW mode \in Modes
  PROVE  Follows(d, Resolved(d, mode))
<1> DEFINE changed == d.grounded /\ d.mode # "none" /\ d.mode # mode
           e == [d EXCEPT !.resolved = (mode # "unavailable"), !.mode = mode,
                          !.grounded = (User = {}) \/ (@ /\ ~changed)]
<1>1. Follows(d, e)
  BY DEF Follows, Sound, State, Keeps, Reports
<1>2. Follows(e, Advanced(e, {"CORE_SEMANTIC"}, "validated"))
  BY <1>1, AdvancedFollows DEF Follows, Status
<1> QED
  BY <1>1, <1>2, FollowsOn DEF Resolved

\* A plan appends its attempt.
LEMMA PlannedFollows ==
  ASSUME NEW d, Sound(d), NEW c \in Calls, call \in [Calls -> ToolCall]
  PROVE  Follows(d, Planned(d, c))
<1> DEFINE e == [d EXCEPT !.planned = TRUE, !.validated = FALSE, !.executed = FALSE,
                          !.passed = FALSE, !.currentEvidence = {},
                          !.attempts = Append(@, Attempt(c))]
<1>1. Attempt(c) \in QueryAttempt
  BY DEF Attempt, QueryAttempt, ToolCall
<1>2. d.attempts \in Seq(QueryAttempt)
  BY DEF Sound, State
<1>3. /\ Append(d.attempts, Attempt(c)) \in Seq(QueryAttempt)
      /\ \A i \in DOMAIN d.attempts : /\ i \in DOMAIN Append(d.attempts, Attempt(c))
                                       /\ Append(d.attempts, Attempt(c))[i] = d.attempts[i]
  BY <1>1, <1>2
<1>4. e \in State
  BY <1>3 DEF Sound, State
<1>5. Follows(d, e)
  BY <1>3, <1>4 DEF Follows, Sound, State, Keeps, Reports
<1>6. Follows(e, Advanced(e, call[c].reqs, "queried"))
  BY <1>5, AdvancedFollows DEF Follows, Status
<1> QED
  BY <1>5, <1>6, FollowsOn DEF Planned

\* The current attempt exists, or it has no requirements.
LEMMA CurrentExists ==
  ASSUME NEW d, Sound(d)
  PROVE  /\ Current(d) \in Nat /\ CurrentReqs(d) \subseteq User
         /\ CurrentReqs(d) # {} => Current(d) \in DOMAIN d.attempts
<1>1. d.attempts \in Seq(QueryAttempt)
  BY DEF Sound, State
<1>2. Len(d.attempts) \in Nat /\ DOMAIN d.attempts = 1..Len(d.attempts)
  BY <1>1
<1>3. d.attempts # <<>> => Len(d.attempts) \in 1..Len(d.attempts)
  BY <1>1
<1>4. d.attempts # <<>> => d.attempts[Len(d.attempts)] \in QueryAttempt
  BY <1>1, <1>3
<1> QED
  BY <1>2, <1>3, <1>4 DEF Current, CurrentReqs, currentAttempt, QueryAttempt

\* Another verdict on the current attempt leaves its requirements alone.
LEMMA AttemptUpdated ==
  ASSUME NEW d, Sound(d), NEW v,
         currentAttempt(d) \in QueryAttempt => v \in QueryAttempt /\ v.reqs = currentAttempt(d).reqs
  PROVE  /\ updateCurrentAttempt(d, v) \in Seq(QueryAttempt)
         /\ DOMAIN updateCurrentAttempt(d, v) = DOMAIN d.attempts
         /\ \A j \in DOMAIN d.attempts : updateCurrentAttempt(d, v)[j].reqs = d.attempts[j].reqs
<1>1. d.attempts \in Seq(QueryAttempt)
  BY DEF Sound, State
<1>2. Current(d) \in DOMAIN d.attempts => currentAttempt(d) \in QueryAttempt
  BY <1>1 DEF currentAttempt
<1>3. \A j \in DOMAIN d.attempts : j = Current(d) => d.attempts[j] = currentAttempt(d)
  BY DEF currentAttempt
<1> QED
  BY <1>1, <1>2, <1>3, UpdateOne DEF updateCurrentAttempt

\* The verdict on a query goes to the current attempt.
LEMMA ValidatedFollows ==
  ASSUME NEW d, Sound(d), NEW valid \in BOOLEAN
  PROVE  Follows(d, Validated(d, valid))
<1> DEFINE v == [currentAttempt(d) EXCEPT !.status = IF valid THEN "validated" ELSE "planned", !.valid = valid]
           t == updateCurrentAttempt(d, v)
           e == [d EXCEPT !.validated = valid, !.attempts = t]
<1>1. currentAttempt(d) \in QueryAttempt => v \in QueryAttempt /\ v.reqs = currentAttempt(d).reqs
  BY DEF QueryAttempt
<1>2. /\ t \in Seq(QueryAttempt) /\ DOMAIN t = DOMAIN d.attempts
      /\ \A j \in DOMAIN d.attempts : t[j].reqs = d.attempts[j].reqs
  <2> HIDE DEF v
  <2> QED
    BY <1>1, AttemptUpdated
<1> HIDE DEF t
<1>3. Follows(d, e)
  BY <1>2 DEF Follows, Sound, State, Keeps, Reports
<1>4. Follows(e, Advanced(e, {"CORE_QUERY"}, "validated"))
  BY <1>3, AdvancedFollows DEF Follows, Status
<1>5. Validated(d, valid) = IF valid THEN Advanced(e, {"CORE_QUERY"}, "validated") ELSE e
  BY DEF Validated, t
<1> QED
  BY <1>3, <1>4, <1>5, FollowsOn

\* So does the artifact of a query that ran.
LEMMA ExecutedFollows ==
  ASSUME NEW d, Sound(d), NEW c \in Calls
  PROVE  Follows(d, Executed(d, c))
<1> DEFINE v == [currentAttempt(d) EXCEPT !.status = "executed", !.artifact = c]
           t == updateCurrentAttempt(d, v)
           e == [d EXCEPT !.executed = TRUE, !.passed = FALSE, !.currentEvidence = {c}, !.attempts = t]
<1>1. currentAttempt(d) \in QueryAttempt => v \in QueryAttempt /\ v.reqs = currentAttempt(d).reqs
  BY DEF QueryAttempt
<1>2. /\ t \in Seq(QueryAttempt) /\ DOMAIN t = DOMAIN d.attempts
      /\ \A j \in DOMAIN d.attempts : t[j].reqs = d.attempts[j].reqs
  BY <1>1, AttemptUpdated
<1> HIDE DEF t
<1>3. Follows(d, e)
  BY <1>2 DEF Follows, Sound, State, Keeps, Reports
<1>4. Executed(d, c) = e
  BY DEF Executed, t
<1> QED
  BY <1>3, <1>4

\* So do the verified values.
LEMMA VerifiedFollows ==
  ASSUME NEW d, Sound(d), NEW c \in Calls, call \in [Calls -> ToolCall]
  PROVE  Follows(d, Verified(d, c))
<1> DEFINE v == [currentAttempt(d) EXCEPT !.verified = call[c].verified]
           t == updateCurrentAttempt(d, v)
           e == [d EXCEPT !.passed = call[c].valid, !.attempts = t]
<1>1. currentAttempt(d) \in QueryAttempt => v \in QueryAttempt /\ v.reqs = currentAttempt(d).reqs
  BY DEF QueryAttempt, ToolCall
<1>2. /\ t \in Seq(QueryAttempt) /\ DOMAIN t = DOMAIN d.attempts
      /\ \A j \in DOMAIN d.attempts : t[j].reqs = d.attempts[j].reqs
  BY <1>1, AttemptUpdated
<1> HIDE DEF t
<1>3. call[c].valid \in BOOLEAN
  BY DEF ToolCall
<1>4. Follows(d, e)
  BY <1>2, <1>3 DEF Follows, Sound, State, Keeps, Reports
<1>5. Follows(e, Advanced(e, {"CORE_RESULT"} \cup CurrentReqs(d), "validated"))
  BY <1>4, AdvancedFollows DEF Follows, Status
<1>6. Verified(d, c) =
        IF call[c].valid THEN Advanced(e, {"CORE_RESULT"} \cup CurrentReqs(d), "validated") ELSE e
  BY DEF Verified, t
<1> QED
  BY <1>4, <1>5, <1>6, FollowsOn

\* Evidence is bound to the current attempt, which exists if it has requirements.
LEMMA BoundFollows ==
  ASSUME NEW d, Sound(d), NEW c \in Calls
  PROVE  Follows(d, Bound(d, c))
<1> DEFINE v == [currentAttempt(d) EXCEPT !.status = "evidenced"]
           t == updateCurrentAttempt(d, v)
           new == IF d.passed THEN {[req |-> r, attempt |-> Current(d), artifact |-> c] : r \in CurrentReqs(d)} ELSE {}
           e == [d EXCEPT !.currentEvidence = @ \cup {c}, !.bindings = @ \cup new, !.attempts = t]
<1>1. currentAttempt(d) \in QueryAttempt => v \in QueryAttempt /\ v.reqs = currentAttempt(d).reqs
  BY DEF QueryAttempt
<1>2. /\ t \in Seq(QueryAttempt) /\ DOMAIN t = DOMAIN d.attempts
      /\ \A j \in DOMAIN d.attempts : t[j].reqs = d.attempts[j].reqs
  BY <1>1, AttemptUpdated
<1>3. new \subseteq Binding /\ \A b \in new : b.attempt \in DOMAIN d.attempts
  BY CurrentExists DEF Binding
<1>4. Bound(d, c) = Advanced(e, CurrentReqs(d) \cup {"CORE_EVIDENCE"}, "evidenced")
  BY DEF Bound
<1> HIDE DEF t, new
<1>5. Follows(d, e)
  BY <1>2, <1>3 DEF Follows, Sound, State, Keeps, Reports
<1>6. Follows(e, Advanced(e, CurrentReqs(d) \cup {"CORE_EVIDENCE"}, "evidenced"))
  BY <1>5, AdvancedFollows DEF Follows, Status
<1> QED
  BY <1>4, <1>5, <1>6, FollowsOn

\* A commit reports what it has evidence for.
LEMMA ReportedRests ==
  ASSUME NEW d, Sound(d), NEW claimed \in SUBSET User,
         NEW evidence \in [claimed -> (SUBSET d.bindings) \ {{}}],
         \A r \in claimed : ValuesVerified(d, r, evidence[r])
  PROVE  /\ Sound(Reported(d, evidence)) /\ Keeps(d, Reported(d, evidence))
         /\ \A r \in User : Reported(d, evidence).req[r] = "reported" =>
              d.req[r] = "reported" \/ Rests(Reported(d, evidence), r)
<1> DEFINE new == {[req |-> r, evidence |-> evidence[r]] : r \in claimed}
           req == [r \in Requirement |-> IF r \in claimed THEN "reported" ELSE d.req[r]]
           e == [d EXCEPT !.claims = d.claims \cup new, !.req = req]
<1>1. Reported(d, evidence) = e
  BY DEF Reported
<1>2. \A r \in claimed : evidence[r] \in SUBSET d.bindings /\ evidence[r] # {}
  OBVIOUS
<1>3. d.bindings \in SUBSET Binding
  BY DEF Sound, State
<1>4. new \subseteq [req : User, evidence : SUBSET Binding]
  BY <1>2, <1>3
<1>5. req \in [Requirement -> Status]
  BY DEF Sound, State, Status
<1>6. \A r \in User : req[r] = "reported" => d.req[r] = "reported" \/ r \in claimed
  BY DEF Requirement
<1>7. ASSUME NEW r \in claimed
      PROVE  \E claim \in new : claim.req = r /\ claim.evidence = evidence[r]
  <2> DEFINE claim == [req |-> r, evidence |-> evidence[r]]
  <2>1. claim \in new /\ claim.req = r /\ claim.evidence = evidence[r]
    OBVIOUS
  <2> QED
    BY <2>1
<1> HIDE DEF new, req
<1>8. Sound(e) /\ Keeps(d, e)
  BY <1>4, <1>5 DEF Sound, State, Keeps
<1>9. e.claims = d.claims \cup new /\ e.req = req /\ e.bindings = d.bindings /\ e.attempts = d.attempts
  BY DEF Sound, State
<1>10. ASSUME NEW r \in claimed PROVE Rests(e, r)
  <2>1. r \in Structured => \E b \in evidence[r] : r \in e.attempts[b.attempt].reqs
    BY <1>9 DEF ValuesVerified
  <2>2. PICK claim \in new : claim.req = r /\ claim.evidence = evidence[r]
    BY <1>7
  <2> QED
    BY <1>2, <1>9, <2>1, <2>2 DEF Rests
<1> QED
  BY <1>1, <1>6, <1>8, <1>9, <1>10

\* The grounder's answer reports what its copy of the requirements did.
LEMMA GroundedKeeps ==
  ASSUME NEW d, Sound(d), NEW requirements \in [Requirement -> Status]
  PROVE  /\ Sound(Grounded(d, requirements)) /\ Keeps(d, Grounded(d, requirements))
         /\ Grounded(d, requirements).req = requirements
BY DEF Grounded, Sound, State, Keeps

-----------------------------------------------------------------------------
(* The calls. *)

\* A step may note the requirements of the moment, nothing else.
CallsFollow ==
  /\ call' \in [Calls -> ToolCall]
  /\ \A c \in Calls : \A r \in User :
       call'[c].snapshot[r] = "reported" => call[c].snapshot[r] = "reported" \/ dom.req[r] = "reported"

\* A call that has not begun.
LEMMA IdleTyped == Idle \in ToolCall /\ \A r \in User : Idle.snapshot[r] # "reported"
<1> DEFINE snapshot == [r \in Requirement |-> "pending"]
<1>1. snapshot \in [Requirement -> Status]
  BY DEF Status
<1>2. {} \in SUBSET User /\ FALSE \in BOOLEAN /\ "idle" \in Position
  BY DEF Position
<1>3. Idle \in ToolCall
  <2>1. Idle = [name |-> "none", pc |-> "idle", reqs |-> {}, valid |-> FALSE,
                verified |-> {}, snapshot |-> snapshot]
    BY DEF Idle
  <2> HIDE DEF snapshot
  <2> QED
    BY <1>1, <1>2, <2>1 DEF ToolCall, Action
<1>4. \A r \in User : Idle.snapshot[r] = "pending"
  BY DEF Idle, Requirement
<1> QED
  BY <1>3, <1>4

\* A call enters at a position.
LEMMA EnterTyped == ASSUME NEW name PROVE Enter(name) \in Position
BY DEF Enter, Position

\* The next action of a chain.
LEMMA GotoFollows ==
  ASSUME call \in [Calls -> ToolCall], NEW c \in Calls, NEW name \in Action, Goto(c, name)
  PROVE  CallsFollow
BY EnterTyped DEF Goto, CallsFollow, ToolCall

\* The end of a chain.
LEMMA EndFollows ==
  ASSUME call \in [Calls -> ToolCall], NEW c \in Calls, End(c)
  PROVE  CallsFollow
BY IdleTyped DEF End, CallsFollow, ToolCall, Position

\* A position in the chain that changes alone.
LEMMA MoveFollows ==
  ASSUME call \in [Calls -> ToolCall], NEW c \in Calls, NEW p \in Position,
         call' = [call EXCEPT ![c].pc = p]
  PROVE  CallsFollow
BY DEF CallsFollow, ToolCall

\* The calls of a new turn carry no copy.
LEMMA TurnFollows ==
  ASSUME call \in [Calls -> ToolCall], Turn
  PROVE  CallsFollow
<1>1. PICK n \in 1..Width : \E q \in [1..n -> Request] :
        call' = [c \in Calls |->
          IF c - Used \in 1..n THEN [q[c - Used] EXCEPT !.pc = Enter(q[c - Used].name)] ELSE call[c]]
  BY DEF Turn
<1>2. PICK q \in [1..n -> Request] :
        call' = [c \in Calls |->
          IF c - Used \in 1..n THEN [q[c - Used] EXCEPT !.pc = Enter(q[c - Used].name)] ELSE call[c]]
  BY <1>1
<1>3. ASSUME NEW x \in Request
      PROVE  LET y == [x EXCEPT !.pc = Enter(x.name)]
             IN  y \in ToolCall /\ \A r \in User : y.snapshot[r] # "reported"
  <2>1. x \in ToolCall /\ \A r \in User : x.snapshot[r] # "reported"
    <3>1. CASE \E t \in Action : x = [Idle EXCEPT !.name = t]
      BY <3>1, IdleTyped DEF ToolCall
    <3>2. CASE \E R \in SUBSET User : x = [Idle EXCEPT !.name = "data.query.plan", !.reqs = R]
      <4>1. PICK R \in SUBSET User : x = [Idle EXCEPT !.name = "data.query.plan", !.reqs = R]
        BY <3>2
      <4>2. x \in ToolCall /\ x.snapshot = Idle.snapshot
        BY <4>1, IdleTyped DEF ToolCall, Action
      <4> QED
        BY <4>2, IdleTyped
    <3> QED
      <4>1. CASE \E t \in {"inspect_schema", "preview_table", "write_file", "analysis.requirements.commit"} :
                   x = [Idle EXCEPT !.name = t]
        BY <4>1, <3>1 DEF Action
      <4>2. CASE \E R \in SUBSET User : x = [Idle EXCEPT !.name = "data.query.plan", !.reqs = R]
        BY <4>2, <3>2
      <4> QED
        BY <4>1, <4>2 DEF Request
  <2> QED
    BY <2>1, EnterTyped DEF ToolCall
<1>4. ASSUME NEW c \in Calls
      PROVE  /\ call'[c] \in ToolCall
             /\ \A r \in User : call'[c].snapshot[r] = "reported" => call[c].snapshot[r] = "reported"
  <2>1. CASE c - Used \in 1..n
    BY <1>2, <1>3, <2>1
  <2>2. CASE c - Used \notin 1..n
    BY <1>2, <2>2
  <2> QED
    BY <2>1, <2>2
<1>5. call' = [c \in Calls |-> call'[c]]
  BY <1>2
<1> QED
  BY <1>4, <1>5 DEF CallsFollow

-----------------------------------------------------------------------------
(* The inductive invariant. *)

\* The copy a call carries reports only what rests on evidence.
SnapshotsRest ==
  \A c \in Calls : \A r \in User : call[c].snapshot[r] = "reported" => Rests(dom, r)

IInv == TypeOK /\ ClaimsRest /\ SnapshotsRest

\* Nothing is reported initially.
LEMMA InvInit == Init => IInv
<1> SUFFICES ASSUME Init PROVE IInv
  OBVIOUS
<1> DEFINE req == [r \in Requirement |-> "pending"]
<1>1. req \in [Requirement -> Status] /\ \A r \in User : req[r] # "reported"
  BY DEF Requirement, Status
<1>2. dom.req = req /\ dom.bindings = {}
  BY DEF Init, InitialState
<1>3. dom \in State
  <2>1. dom = [inspected |-> FALSE, resolved |-> FALSE, mode |-> "none", grounded |-> FALSE,
               planned |-> FALSE, validated |-> FALSE, executed |-> FALSE, passed |-> FALSE,
               currentEvidence |-> {}, req |-> req,
               attempts |-> <<>>, bindings |-> {}, claims |-> {}]
    BY DEF Init, InitialState
  <2>2. <<>> \in Seq(QueryAttempt)
    OBVIOUS
  <2> HIDE DEF req
  <2> QED
    BY <1>1, <2>1, <2>2 DEF State
<1>4. call = [c \in Calls |-> Idle] /\ call \in [Calls -> ToolCall]
  BY IdleTyped DEF Init
<1>5. SnapshotsRest
  BY <1>4, IdleTyped DEF SnapshotsRest
<1>6. ClaimsRest
  BY <1>1, <1>2 DEF ClaimsRest
<1>7. phase \in Phases /\ outcome \in {"none", "completed", "degraded", "partial"}
  BY DEF Init, Phases, Allowed
<1> QED
  BY <1>2, <1>3, <1>4, <1>5, <1>6, <1>7 DEF IInv, TypeOK

\* A record moves to a phase of the definition.
LEMMA PhaseTyped == ASSUME phase \in Phases, NEW name, NEW d PROVE NextPhase(name, d) \in Phases
BY DEF NextPhase

\* What every step owes to the invariant.
LEMMA StepKeeps ==
  ASSUME IInv, CallsFollow, Sound(dom'), Keeps(dom, dom'), phase' \in Phases,
         outcome' \in {"none", "completed", "degraded", "partial"},
         \A r \in User : dom'.req[r] = "reported" =>
           \/ dom.req[r] = "reported" \/ Rests(dom', r)
           \/ \E c \in Calls : call[c].snapshot[r] = "reported"
  PROVE  IInv'
<1>1. Sound(dom)
  BY DEF IInv, TypeOK, Sound
<1>2. \A r \in User : dom.req[r] = "reported" => Rests(dom, r)
  BY DEF IInv, ClaimsRest, Supported, Rests
<1>3. \A r \in User : Rests(dom, r) => Rests(dom', r)
  BY <1>1, RestsForGood
<1>4. \A r \in User : dom'.req[r] = "reported" => Rests(dom', r)
  BY <1>2, <1>3 DEF IInv, SnapshotsRest
<1>5. ClaimsRest'
  BY <1>4 DEF ClaimsRest, Supported, Rests
<1>6. SnapshotsRest'
  BY <1>2, <1>3 DEF IInv, SnapshotsRest, CallsFollow
<1>7. TypeOK'
  BY DEF TypeOK, Sound, CallsFollow
<1> QED
  BY <1>5, <1>6, <1>7 DEF IInv

\* A step that records nothing.
LEMMA StepUnrecorded ==
  ASSUME IInv, CallsFollow, UNCHANGED <<phase, dom>>, outcome' \in {"none", "completed", "degraded", "partial"}
  PROVE  IInv'
<1>1. Sound(dom') /\ Keeps(dom, dom') /\ phase' \in Phases
  BY DEF IInv, TypeOK, Sound, Keeps
<1> QED
  BY <1>1, StepKeeps

\* A step that records a result which reports nothing new.
LEMMA StepRecorded ==
  ASSUME IInv, CallsFollow, NEW c, NEW name, NEW d, Record(c, name, d), Follows(dom, d)
  PROVE  IInv'
<1>1. dom' = d /\ phase' = NextPhase(name, d) /\ outcome' = outcome
  BY DEF Record
<1>2. phase' \in Phases /\ outcome' \in {"none", "completed", "degraded", "partial"}
  BY <1>1, PhaseTyped DEF IInv, TypeOK
<1> QED
  BY <1>1, <1>2, StepKeeps DEF Follows, Reports

\* Every action of a call keeps the invariant.
LEMMA InvStep ==
  ASSUME IInv, NEW c \in Calls, Step(c)
  PROVE  IInv'
<1> USE DEF Position
<1>0. /\ Sound(dom) /\ call \in [Calls -> ToolCall]
      /\ outcome \in {"none", "completed", "degraded", "partial"}
  BY DEF IInv, TypeOK, Sound
<1>1. CASE Check(c)
  <2>1. CallsFollow
    BY <1>0, <1>1, MoveFollows, EndFollows DEF Check
  <2> QED
    BY <1>0, <1>1, <2>1, StepUnrecorded DEF Check
<1>2. CASE Begin(c)
  BY <1>0, <1>2, MoveFollows, StepUnrecorded DEF Begin
<1>3. CASE Fail(c)
  BY <1>0, <1>3, EndFollows, StepUnrecorded DEF Fail
<1>4. CASE Inspect(c)
  <2>1. CallsFollow
    BY <1>0, <1>4, GotoFollows DEF Inspect, Action
  <2> QED
    BY <1>0, <1>4, <2>1, InspectedFollows, StepRecorded DEF Inspect
<1>5. CASE Resolve(c)
  <2>1. PICK mode \in Modes : Record(c, "semantic.context.resolve", Resolved(dom, mode))
    BY <1>5 DEF Resolve
  <2>2. CallsFollow
    BY <1>0, <1>5, MoveFollows DEF Resolve
  <2> QED
    BY <1>0, <2>1, <2>2, ResolvedFollows, StepRecorded
<1>6. CASE ChainGround(c)
  <2>1. CASE call' = [call EXCEPT ![c].name = "analysis.contract.ground", ![c].pc = "called",
                                  ![c].snapshot = dom.req]
    <3>1. dom.req \in [Requirement -> Status]
      BY <1>0 DEF Sound, State
    <3> QED
      BY <1>0, <1>6, <2>1, <3>1, StepUnrecorded DEF ChainGround, CallsFollow, ToolCall, Action
  <2>2. CASE End(c)
    BY <1>0, <1>6, <2>2, EndFollows, StepUnrecorded DEF ChainGround
  <2> QED
    BY <1>6, <2>1, <2>2 DEF ChainGround
<1>7. CASE Ground(c)
  <2> DEFINE d == Grounded(dom, call[c].snapshot)
  <2>1. CallsFollow
    BY <1>0, <1>7, EndFollows DEF Ground
  <2>2. call[c].snapshot \in [Requirement -> Status]
    BY <1>0 DEF ToolCall
  <2>3. Sound(d) /\ Keeps(dom, d) /\ d.req = call[c].snapshot
    BY <1>0, <2>2, GroundedKeeps
  <2>4. dom' = d /\ phase' \in Phases /\ outcome' = outcome
    BY <1>7, PhaseTyped DEF Ground, Record, IInv, TypeOK
  <2> QED
    BY <1>0, <2>1, <2>3, <2>4, StepKeeps
<1>8. CASE Plan(c)
  <2>1. CallsFollow
    BY <1>0, <1>8, GotoFollows DEF Plan, Action
  <2> QED
    BY <1>0, <1>8, <2>1, PlannedFollows, StepRecorded DEF Plan
<1>9. CASE Validate(c)
  <2>1. PICK valid \in BOOLEAN : Record(c, "data.query.validate", Validated(dom, valid))
    BY <1>9 DEF Validate
  <2>2. CallsFollow
    BY <1>0, <1>9, GotoFollows DEF Validate, Action
  <2> QED
    BY <1>0, <2>1, <2>2, ValidatedFollows, StepRecorded
<1>10. CASE Run(c)
  <2>1. CallsFollow
    BY <1>0, <1>10, MoveFollows DEF Run
  <2> QED
    BY <1>0, <1>10, <2>1, ExecutedFollows, StepRecorded DEF Run
<1>11. CASE ChainVerify(c)
  <2>1. PICK valid \in BOOLEAN, complete \in BOOLEAN :
          call' = [call EXCEPT ![c].name = "analysis.result.validate", ![c].pc = "called",
                               ![c].valid = valid,
                               ![c].verified = IF complete THEN CurrentReqs(dom) \cap Structured ELSE {}]
    BY <1>11 DEF ChainVerify
  <2>2. PICK verified \in SUBSET User :
          call' = [call EXCEPT ![c].name = "analysis.result.validate", ![c].pc = "called",
                               ![c].valid = valid, ![c].verified = verified]
    BY <1>0, <2>1, CurrentExists
  <2>3. \A x \in ToolCall :
          LET y == [x EXCEPT !.name = "analysis.result.validate", !.pc = "called",
                             !.valid = valid, !.verified = verified]
          IN  y \in ToolCall /\ y.snapshot = x.snapshot
    BY DEF ToolCall, Action
  <2>4. CallsFollow
    BY <1>0, <2>2, <2>3 DEF CallsFollow
  <2> QED
    BY <1>0, <1>11, <2>4, StepUnrecorded DEF ChainVerify
<1>12. CASE VerifyResult(c)
  <2>1. CallsFollow
    BY <1>0, <1>12, GotoFollows, EndFollows DEF VerifyResult, Action
  <2> QED
    BY <1>0, <1>12, <2>1, VerifiedFollows, StepRecorded DEF VerifyResult
<1>13. CASE Bind(c)
  <2>1. CallsFollow
    BY <1>0, <1>13, EndFollows DEF Bind
  <2> QED
    BY <1>0, <1>13, <2>1, BoundFollows, StepRecorded DEF Bind
<1>14. CASE Commit(c)
  <2>1. \E claimed \in (SUBSET User) \ {{}} : \E evidence \in [claimed -> (SUBSET dom.bindings) \ {{}}] :
          /\ \A r \in claimed : ValuesVerified(dom, r, evidence[r])
          /\ Record(c, "analysis.requirements.commit", Reported(dom, evidence))
    <3> HIDE DEF Position
    <3> QED
      BY <1>14, Zenon DEF Commit
  <2>2. PICK claimed \in (SUBSET User) \ {{}} : \E evidence \in [claimed -> (SUBSET dom.bindings) \ {{}}] :
          /\ \A r \in claimed : ValuesVerified(dom, r, evidence[r])
          /\ Record(c, "analysis.requirements.commit", Reported(dom, evidence))
    BY <2>1
  <2>3. PICK evidence \in [claimed -> (SUBSET dom.bindings) \ {{}}] :
          /\ \A r \in claimed : ValuesVerified(dom, r, evidence[r])
          /\ Record(c, "analysis.requirements.commit", Reported(dom, evidence))
    BY <2>2
  <2>4. CallsFollow
    BY <1>0, <1>14, EndFollows DEF Commit
  <2>5. /\ Sound(Reported(dom, evidence)) /\ Keeps(dom, Reported(dom, evidence))
        /\ \A r \in User : Reported(dom, evidence).req[r] = "reported" =>
             dom.req[r] = "reported" \/ Rests(Reported(dom, evidence), r)
    BY <1>0, <2>3, ReportedRests
  <2>6. dom' = Reported(dom, evidence) /\ phase' \in Phases /\ outcome' = outcome
    BY <2>3, PhaseTyped DEF Record, IInv, TypeOK
  <2> QED
    BY <1>0, <2>4, <2>5, <2>6, StepKeeps
<1>15. CASE Other(c)
  <2>1. PICK name \in {"preview_table", "write_file"} : Record(c, name, dom)
    BY <1>15 DEF Other
  <2>2. CallsFollow
    BY <1>0, <1>15, EndFollows DEF Other
  <2>3. Follows(dom, dom)
    BY <1>0 DEF Follows, Keeps, Reports
  <2> QED
    BY <2>1, <2>2, <2>3, StepRecorded
<1> QED
  BY <1>1, <1>2, <1>3, <1>4, <1>5, <1>6, <1>7, <1>8, <1>9, <1>10, <1>11, <1>12, <1>13, <1>14, <1>15 DEF Step

\* Every step does.
LEMMA InvNext == IInv /\ [Next]_vars => IInv'
<1> SUFFICES ASSUME IInv, [Next]_vars PROVE IInv'
  OBVIOUS
<1>1. call \in [Calls -> ToolCall] /\ outcome \in {"none", "completed", "degraded", "partial"}
  BY DEF IInv, TypeOK
<1>2. CASE Turn
  BY <1>1, <1>2, TurnFollows, StepUnrecorded DEF Turn
<1>3. CASE Decide
  <2>1. CallsFollow
    BY <1>1, <1>3 DEF Decide, CallsFollow
  <2> QED
    BY <1>1, <1>3, <2>1, StepUnrecorded DEF Decide
<1>4. CASE \E c \in Calls : Step(c)
  BY <1>4, InvStep
<1>5. CASE UNCHANGED vars
  BY <1>5 DEF vars, IInv, TypeOK, ClaimsRest, Supported, SnapshotsRest, Rests
<1> QED
  BY <1>2, <1>3, <1>4, <1>5 DEF Next

-----------------------------------------------------------------------------
(* The theorems. *)

\* Every variable stays in its type, whatever the number of calls and the width
\* of a turn: a binding names an attempt that was planned.
THEOREM TypeCorrect == Spec => []TypeOK
<1>1. IInv => TypeOK
  BY DEF IInv
<1> QED
  BY <1>1, InvInit, InvNext, PTL DEF Spec

\* No requirement is ever reported without a claim that rests on bound evidence,
\* not even by the grounder's late copy.
THEOREM ClaimsSupported == Spec => []ClaimsRest
<1>1. IInv => ClaimsRest
  BY DEF IInv
<1> QED
  BY <1>1, InvInit, InvNext, PTL DEF Spec


-----------------------------------------------------------------------------
(* The state. *)

\* The queries, their evidence and the verdicts stay.
Quiet(d, e) ==
  /\ e.attempts = d.attempts /\ e.bindings = d.bindings /\ e.validated = d.validated
  /\ e.executed = d.executed /\ e.passed = d.passed /\ e.currentEvidence = d.currentEvidence

\* An update of requirements concerns no query.
LEMMA AdvancedQuiet ==
  ASSUME NEW d, Sound(d), NEW ids, NEW status
  PROVE  Quiet(d, Advanced(d, ids, status))
<1> DEFINE req == [r \in Requirement |-> IF r \in ids THEN advanceStatus(d.req[r], status) ELSE d.req[r]]
<1>1. Advanced(d, ids, status) = [d EXCEPT !.req = req]
  BY DEF Advanced, Sound, State
<1> HIDE DEF req
<1> QED
  BY <1>1 DEF Quiet, Sound, State

\* Nor do an inspection of the schema,
LEMMA InspectedQuiet ==
  ASSUME NEW d, Sound(d)
  PROVE  Quiet(d, Inspected(d))
<1> DEFINE e == [d EXCEPT !.inspected = TRUE, !.grounded = (User = {}) \/ @]
<1>1. Sound(e) /\ Quiet(d, e)
  BY DEF Quiet, Sound, State
<1>2. Inspected(d) = Advanced(e, {"CORE_SCHEMA"}, "validated")
  BY DEF Inspected
<1> HIDE DEF e
<1>3. Quiet(e, Inspected(d))
  BY <1>1, <1>2, AdvancedQuiet
<1> QED
  BY <1>1, <1>3 DEF Quiet

\* the outcome of the provider chain,
LEMMA ResolvedQuiet ==
  ASSUME NEW d, Sound(d), NEW mode \in Modes
  PROVE  Quiet(d, Resolved(d, mode))
<1> DEFINE changed == d.grounded /\ d.mode # "none" /\ d.mode # mode
           e == [d EXCEPT !.resolved = (mode # "unavailable"), !.mode = mode,
                          !.grounded = (User = {}) \/ (@ /\ ~changed)]
<1>1. Sound(e) /\ Quiet(d, e)
  BY DEF Quiet, Sound, State
<1>2. Resolved(d, mode) = IF e.resolved THEN Advanced(e, {"CORE_SEMANTIC"}, "validated") ELSE e
  BY DEF Resolved
<1> HIDE DEF e
<1>3. Quiet(e, Resolved(d, mode))
  BY <1>1, <1>2, AdvancedQuiet DEF Quiet
<1> QED
  BY <1>1, <1>3 DEF Quiet

\* the grounder's answer,
LEMMA GroundedQuiet ==
  ASSUME NEW d, Sound(d), NEW requirements
  PROVE  Quiet(d, Grounded(d, requirements))
BY DEF Grounded, Quiet, Sound, State

\* or a commit.
LEMMA ReportedQuiet ==
  ASSUME NEW d, Sound(d), NEW evidence
  PROVE  Quiet(d, Reported(d, evidence))
<1> DEFINE claims == {[req |-> r, evidence |-> evidence[r]] : r \in DOMAIN evidence}
           req == [r \in Requirement |-> IF r \in DOMAIN evidence THEN "reported" ELSE d.req[r]]
<1>1. Reported(d, evidence) = [d EXCEPT !.claims = d.claims \cup claims, !.req = req]
  BY DEF Reported
<1> HIDE DEF claims, req
<1> QED
  BY <1>1 DEF Quiet, Sound, State

\* Every attempt keeps its author; the current one has those of v.
LEMMA UpdatedBy ==
  ASSUME NEW d, Sound(d), NEW v, currentAttempt(d) \in QueryAttempt => v.by = currentAttempt(d).by
  PROVE  /\ DOMAIN updateCurrentAttempt(d, v) = DOMAIN d.attempts
         /\ \A j \in DOMAIN d.attempts : updateCurrentAttempt(d, v)[j].by = d.attempts[j].by
         /\ Len(updateCurrentAttempt(d, v)) = Len(d.attempts)
         /\ d.attempts # <<>> => updateCurrentAttempt(d, v)[Current(d)] = v
<1>1. /\ d.attempts \in Seq(QueryAttempt) /\ Len(d.attempts) \in Nat
      /\ DOMAIN d.attempts = 1..Len(d.attempts)
      /\ d.attempts # <<>> => Len(d.attempts) \in 1..Len(d.attempts)
  BY DEF Sound, State
<1>2. Current(d) \in DOMAIN d.attempts => currentAttempt(d) \in QueryAttempt
  BY <1>1 DEF currentAttempt
<1>3. \A j \in DOMAIN d.attempts : j = Current(d) => d.attempts[j] = currentAttempt(d)
  BY DEF currentAttempt
<1>4. updateCurrentAttempt(d, v) = [j \in 1..Len(d.attempts) |-> IF j = Current(d) THEN v ELSE d.attempts[j]]
  BY <1>1 DEF updateCurrentAttempt
<1>5. Len(updateCurrentAttempt(d, v)) = Len(d.attempts)
  BY <1>1, <1>4
<1> QED
  BY <1>1, <1>2, <1>3, <1>4, <1>5 DEF Current

\* Every attempt keeps its author.
KeepsBy(d, e) == \A j \in DOMAIN d.attempts : e.attempts[j].by = d.attempts[j].by

\* A plan appends the attempt of its call and clears the verdict.
LEMMA PlannedQueries ==
  ASSUME NEW d, Sound(d), NEW c \in Calls, call \in [Calls -> ToolCall]
  PROVE  LET e == Planned(d, c)
         IN  /\ e.bindings = d.bindings /\ e.validated = FALSE /\ e.executed = FALSE /\ e.passed = FALSE
             /\ KeepsBy(d, e)
             /\ e.attempts # <<>> /\ currentAttempt(e).by = c
<1> DEFINE f == [d EXCEPT !.planned = TRUE, !.validated = FALSE, !.executed = FALSE,
                          !.passed = FALSE, !.currentEvidence = {},
                          !.attempts = Append(@, Attempt(c))]
           s == Append(d.attempts, Attempt(c))
<1>1. Attempt(c) \in QueryAttempt /\ Attempt(c).by = c
  BY DEF Attempt, QueryAttempt, ToolCall
<1>2. d.attempts \in Seq(QueryAttempt)
  BY DEF Sound, State
<1>3. /\ s \in Seq(QueryAttempt) /\ s # <<>> /\ s[Len(s)] = Attempt(c)
      /\ \A j \in DOMAIN d.attempts : j \in DOMAIN s /\ s[j] = d.attempts[j]
  BY <1>1, <1>2
<1>4. /\ f.attempts = s /\ f.bindings = d.bindings /\ f.validated = FALSE
      /\ f.executed = FALSE /\ f.passed = FALSE /\ f \in State
  BY <1>3 DEF Sound, State
<1>5. Sound(f)
  BY <1>3, <1>4 DEF Sound
<1>6. Quiet(f, Planned(d, c))
  BY <1>5, AdvancedQuiet DEF Planned
<1>7. KeepsBy(d, Planned(d, c))
  BY <1>3, <1>4, <1>6 DEF Quiet, KeepsBy
<1> QED
  BY <1>1, <1>3, <1>4, <1>6, <1>7 DEF Quiet, Current, currentAttempt

\* Each of the other results goes to the current attempt.
Recorded(d, e) ==
  /\ \A j \in DOMAIN d.attempts : e.attempts[j].by = d.attempts[j].by
  /\ d.attempts # <<>> => e.attempts # <<>> /\ currentAttempt(e).by = currentAttempt(d).by

\* A result recorded as v on the current attempt keeps its author, if v does.
LEMMA RecordedBy ==
  ASSUME NEW d, Sound(d), NEW e, NEW v, e.attempts = updateCurrentAttempt(d, v),
         currentAttempt(d) \in QueryAttempt => v.by = currentAttempt(d).by
  PROVE  /\ Recorded(d, e)
         /\ d.attempts # <<>> => currentAttempt(e) = v
<1>1. d.attempts \in Seq(QueryAttempt) /\ (d.attempts # <<>> => Current(d) \in DOMAIN d.attempts)
  BY DEF Sound, State, Current
<1>2. /\ \A j \in DOMAIN d.attempts : e.attempts[j].by = d.attempts[j].by
      /\ Current(e) = Current(d)
      /\ d.attempts # <<>> => e.attempts[Current(d)] = v
  BY UpdatedBy DEF Current
<1>3. d.attempts # <<>> => e.attempts # <<>>
  <2>1. Len(d.attempts) = Len(e.attempts)
    BY UpdatedBy
  <2>2. d.attempts # <<>> => Len(d.attempts) # 0
    BY <1>1
  <2> QED
    BY <2>1, <2>2
<1> QED
  BY <1>1, <1>2, <1>3 DEF Recorded, currentAttempt

\* They leave the result and its evidence as they are, or add evidence.
SameResult(d, e) ==
  /\ e.executed = d.executed /\ d.currentEvidence \subseteq e.currentEvidence
  /\ d.attempts # <<>> => currentAttempt(e).artifact = currentAttempt(d).artifact

\* The flag and the attempt get the same verdict.
LEMMA ValidatedQueries ==
  ASSUME NEW d, Sound(d), NEW valid \in BOOLEAN
  PROVE  LET e == Validated(d, valid)
         IN  /\ e.bindings = d.bindings /\ e.validated = valid /\ Recorded(d, e)
             /\ d.attempts # <<>> => currentAttempt(e).valid = valid
             /\ SameResult(d, e)
<1> DEFINE v == [currentAttempt(d) EXCEPT !.status = IF valid THEN "validated" ELSE "planned",
                                          !.valid = valid]
           t == updateCurrentAttempt(d, v)
           f == [d EXCEPT !.validated = valid, !.attempts = t]
<1>1. currentAttempt(d) \in QueryAttempt =>
        /\ v \in QueryAttempt /\ v.reqs = currentAttempt(d).reqs
        /\ v.by = currentAttempt(d).by /\ v.valid = valid /\ v.artifact = currentAttempt(d).artifact
  BY DEF QueryAttempt
<1>2. d.attempts # <<>> => currentAttempt(d) \in QueryAttempt
  BY DEF Sound, State, currentAttempt, Current
<1>3. Validated(d, valid) = IF valid THEN Advanced(f, {"CORE_QUERY"}, "validated") ELSE f
  BY DEF Validated
<1> HIDE DEF v
<1>4. t \in Seq(QueryAttempt) /\ DOMAIN t = DOMAIN d.attempts
  BY <1>1, AttemptUpdated
<1>5. /\ Sound(f) /\ f.attempts = t /\ f.bindings = d.bindings /\ f.validated = valid
      /\ f.executed = d.executed /\ f.currentEvidence = d.currentEvidence
  BY <1>4 DEF Sound, State
<1> HIDE DEF f
<1>6. Quiet(f, Validated(d, valid))
  BY <1>3, <1>5, AdvancedQuiet DEF Quiet
<1>7. Validated(d, valid).attempts = t
  BY <1>5, <1>6 DEF Quiet
<1>8. /\ Recorded(d, Validated(d, valid))
      /\ d.attempts # <<>> => currentAttempt(Validated(d, valid)) = v
  BY <1>1, <1>7, RecordedBy
<1> QED
  BY <1>1, <1>2, <1>5, <1>6, <1>8 DEF Quiet, SameResult

\* A result of the query keeps the verdict.
LEMMA ExecutedQueries ==
  ASSUME NEW d, Sound(d), NEW c \in Calls
  PROVE  LET e == Executed(d, c)
         IN  /\ e.bindings = d.bindings /\ e.validated = d.validated /\ Recorded(d, e)
             /\ d.attempts # <<>> =>
                  currentAttempt(e).valid = currentAttempt(d).valid /\ currentAttempt(e).artifact = c
             /\ e.executed /\ e.currentEvidence = {c}
<1> DEFINE v == [currentAttempt(d) EXCEPT !.status = "executed", !.artifact = c]
<1>1. currentAttempt(d) \in QueryAttempt =>
        v.by = currentAttempt(d).by /\ v.valid = currentAttempt(d).valid /\ v.artifact = c
  BY DEF QueryAttempt
<1>2. d.attempts # <<>> => currentAttempt(d) \in QueryAttempt
  BY DEF Sound, State, currentAttempt, Current
<1>3. /\ Executed(d, c).attempts = updateCurrentAttempt(d, v)
      /\ Executed(d, c).bindings = d.bindings /\ Executed(d, c).validated = d.validated
      /\ Executed(d, c).executed /\ Executed(d, c).currentEvidence = {c}
  BY DEF Executed, Sound, State
<1> HIDE DEF v
<1>4. Recorded(d, Executed(d, c)) /\ (d.attempts # <<>> => currentAttempt(Executed(d, c)) = v)
  BY <1>1, <1>3, RecordedBy
<1> QED
  BY <1>1, <1>2, <1>3, <1>4

\* So do the verified values.
LEMMA VerifiedQueries ==
  ASSUME NEW d, Sound(d), NEW c \in Calls, call \in [Calls -> ToolCall]
  PROVE  LET e == Verified(d, c)
         IN  /\ e.bindings = d.bindings /\ e.validated = d.validated /\ Recorded(d, e)
             /\ d.attempts # <<>> => currentAttempt(e).valid = currentAttempt(d).valid
             /\ SameResult(d, e)
<1> DEFINE v == [currentAttempt(d) EXCEPT !.verified = call[c].verified]
           t == updateCurrentAttempt(d, v)
           f == [d EXCEPT !.passed = call[c].valid, !.attempts = t]
<1>1. currentAttempt(d) \in QueryAttempt =>
        /\ v \in QueryAttempt /\ v.reqs = currentAttempt(d).reqs
        /\ v.by = currentAttempt(d).by /\ v.valid = currentAttempt(d).valid
        /\ v.artifact = currentAttempt(d).artifact
  BY DEF QueryAttempt, ToolCall
<1>2. d.attempts # <<>> => currentAttempt(d) \in QueryAttempt
  BY DEF Sound, State, currentAttempt, Current
<1>3. Verified(d, c) =
        IF call[c].valid THEN Advanced(f, {"CORE_RESULT"} \cup CurrentReqs(d), "validated") ELSE f
  BY DEF Verified
<1> HIDE DEF v
<1>4. t \in Seq(QueryAttempt) /\ DOMAIN t = DOMAIN d.attempts /\ call[c].valid \in BOOLEAN
  BY <1>1, AttemptUpdated DEF ToolCall
<1>5. /\ Sound(f) /\ f.attempts = t /\ f.bindings = d.bindings /\ f.validated = d.validated
      /\ f.executed = d.executed /\ f.currentEvidence = d.currentEvidence
  BY <1>4 DEF Sound, State
<1> HIDE DEF f
<1>6. Quiet(f, Verified(d, c))
  BY <1>3, <1>5, AdvancedQuiet DEF Quiet
<1>7. Verified(d, c).attempts = t
  BY <1>5, <1>6 DEF Quiet
<1>8. Recorded(d, Verified(d, c)) /\ (d.attempts # <<>> => currentAttempt(Verified(d, c)) = v)
  BY <1>1, <1>7, RecordedBy
<1> QED
  BY <1>1, <1>2, <1>5, <1>6, <1>8 DEF Quiet, SameResult

\* A binding of the current attempt and of the artifact of a call.
NewBinding(d, c, b) == b.artifact = c /\ b.attempt = Current(d) /\ b.req \in CurrentReqs(d)

\* The new bindings are those of the current attempt and the call's artifact.
LEMMA BoundQueries ==
  ASSUME NEW d, Sound(d), NEW c \in Calls
  PROVE  LET e == Bound(d, c)
         IN  /\ e.validated = d.validated /\ Recorded(d, e)
             /\ d.attempts # <<>> => currentAttempt(e).valid = currentAttempt(d).valid
             /\ SameResult(d, e) /\ e.passed = d.passed
             /\ \A b \in e.bindings : b \in d.bindings \/ NewBinding(d, c, b)
<1> DEFINE v == [currentAttempt(d) EXCEPT !.status = "evidenced"]
           t == updateCurrentAttempt(d, v)
           new == IF d.passed
                  THEN {[req |-> r, attempt |-> Current(d), artifact |-> c] : r \in CurrentReqs(d)}
                  ELSE {}
           f == [d EXCEPT !.currentEvidence = @ \cup {c}, !.bindings = @ \cup new, !.attempts = t]
<1>1. currentAttempt(d) \in QueryAttempt =>
        /\ v \in QueryAttempt /\ v.reqs = currentAttempt(d).reqs
        /\ v.by = currentAttempt(d).by /\ v.valid = currentAttempt(d).valid
        /\ v.artifact = currentAttempt(d).artifact
  BY DEF QueryAttempt
<1>2. d.attempts # <<>> => currentAttempt(d) \in QueryAttempt
  BY DEF Sound, State, currentAttempt, Current
<1>3. Bound(d, c) = Advanced(f, CurrentReqs(d) \cup {"CORE_EVIDENCE"}, "evidenced")
  BY DEF Bound
<1>4. /\ new \subseteq Binding /\ \A b \in new : b.attempt \in DOMAIN d.attempts
      /\ \A b \in new : NewBinding(d, c, b)
  BY CurrentExists DEF Binding, NewBinding
<1> HIDE DEF v, new
<1>5. t \in Seq(QueryAttempt) /\ DOMAIN t = DOMAIN d.attempts
  BY <1>1, AttemptUpdated
<1>6. /\ Sound(f) /\ f.attempts = t /\ f.bindings = d.bindings \cup new /\ f.validated = d.validated
      /\ f.executed = d.executed /\ f.passed = d.passed
      /\ f.currentEvidence = d.currentEvidence \cup {c}
  BY <1>4, <1>5 DEF Sound, State
<1> HIDE DEF f
<1>7. Quiet(f, Bound(d, c))
  BY <1>3, <1>6, AdvancedQuiet
<1>8. Bound(d, c).attempts = t
  BY <1>6, <1>7 DEF Quiet
<1>9. Recorded(d, Bound(d, c)) /\ (d.attempts # <<>> => currentAttempt(Bound(d, c)) = v)
  BY <1>1, <1>8, RecordedBy
<1>10. d.attempts # <<>> => currentAttempt(Bound(d, c)).valid = currentAttempt(d).valid
  BY <1>1, <1>2, <1>9
<1>11. Bound(d, c).validated = d.validated /\ Bound(d, c).bindings = d.bindings \cup new
  BY <1>6, <1>7 DEF Quiet
<1>12. \A b \in Bound(d, c).bindings : b \in d.bindings \/ NewBinding(d, c, b)
  <2> SUFFICES ASSUME NEW b \in Bound(d, c).bindings, b \notin d.bindings
               PROVE  NewBinding(d, c, b)
    OBVIOUS
  <2>1. b \in new
    BY <1>11
  <2> QED
    BY <1>4, <2>1
<1>13. SameResult(d, Bound(d, c)) /\ Bound(d, c).passed = d.passed
  BY <1>1, <1>2, <1>6, <1>7, <1>9 DEF Quiet, SameResult
<1> QED
  BY <1>9, <1>10, <1>11, <1>12, <1>13

-----------------------------------------------------------------------------
(* The queries of a turn that share the current attempt. *)

Late == {"validation", "synthesis"}

\* The flags speak of the attempt that is current.
LastRests(d) ==
  /\ d.validated => d.attempts # <<>> /\ currentAttempt(d).valid
  /\ d.executed => d.attempts # <<>> /\ currentAttempt(d).artifact \in d.currentEvidence

\* EvidenceInOrder, in any state.
InOrder(d) ==
  \A b \in d.bindings :
    /\ b.req \in d.attempts[b.attempt].reqs
    /\ \E i \in 1..b.attempt : d.attempts[i].by = b.artifact

\* The query of a call was planned.
HasPlan(d, c) == \E i \in DOMAIN d.attempts : d.attempts[i].by = c

\* The actions of a chain after its plan.
Queried == {"data.query.validate", "run_sql_readonly", "analysis.result.validate", "analysis.evidence.bind"}

Writes(c) == call[c].name = "write_file" /\ call[c].pc \in {"called", "executing"}

QInv ==
  /\ IInv /\ LastRests(dom) /\ InOrder(dom)
  /\ \A c \in Calls : call[c].name \in Queried => HasPlan(dom, c)
  /\ \A c \in Calls : Writes(c) => \A r \in User : Rests(dom, r)
  /\ phase \in Late => dom.executed
  /\ outcome # "none" => Over
  /\ DecisionIsCurrent

\* The evidence stays in order while the attempts and the bindings stay.
LEMMA OrderKept ==
  ASSUME NEW d, NEW e, Sound(d), InOrder(d), Keeps(d, e), KeepsBy(d, e), e.bindings = d.bindings
  PROVE  InOrder(e)
<1> SUFFICES ASSUME NEW b \in d.bindings
             PROVE  /\ b.req \in e.attempts[b.attempt].reqs
                    /\ \E i \in 1..b.attempt : e.attempts[i].by = b.artifact
  BY DEF InOrder
<1>1. b.attempt \in DOMAIN d.attempts /\ DOMAIN d.attempts = 1..Len(d.attempts) /\ Len(d.attempts) \in Nat
  BY DEF Sound, State
<1>2. b.req \in e.attempts[b.attempt].reqs
  BY <1>1 DEF InOrder, Keeps
<1>3. PICK i \in 1..b.attempt : d.attempts[i].by = b.artifact
  BY DEF InOrder
<1>4. i \in DOMAIN d.attempts
  BY <1>1, <1>3
<1> QED
  BY <1>2, <1>3, <1>4 DEF KeepsBy

\* A binding to the last attempt is in order for every call that planned.
LEMMA BoundInOrder ==
  ASSUME NEW d, Sound(d), InOrder(d), NEW c \in Calls, HasPlan(d, c)
  PROVE  InOrder(Bound(d, c))
<1> DEFINE e == Bound(d, c)
<1>0. Sound(e) /\ Keeps(d, e)
  BY BoundFollows DEF Follows
<1>1. KeepsBy(d, e) /\ \A b \in e.bindings : b \in d.bindings \/ NewBinding(d, c, b)
  BY BoundQueries DEF Recorded, KeepsBy
<1> HIDE DEF e
<1> SUFFICES ASSUME NEW b \in e.bindings
             PROVE  /\ b.req \in e.attempts[b.attempt].reqs
                    /\ \E i \in 1..b.attempt : e.attempts[i].by = b.artifact
  BY DEF InOrder, e
<1>2. DOMAIN d.attempts = 1..Len(d.attempts) /\ Len(d.attempts) \in Nat
  BY DEF Sound, State
<1>3. CASE b \in d.bindings
  <2>1. b.attempt \in DOMAIN d.attempts
    BY <1>3 DEF Sound
  <2>2. b.req \in e.attempts[b.attempt].reqs
    BY <1>0, <1>3, <2>1 DEF InOrder, Keeps
  <2>3. PICK i \in 1..b.attempt : d.attempts[i].by = b.artifact
    BY <1>3 DEF InOrder
  <2>4. i \in DOMAIN d.attempts
    BY <1>2, <2>1, <2>3
  <2> QED
    BY <1>1, <2>2, <2>3, <2>4 DEF KeepsBy
<1>4. CASE NewBinding(d, c, b)
  <2>1. b.artifact = c /\ b.attempt = Len(d.attempts) /\ b.req \in CurrentReqs(d)
    BY <1>4 DEF NewBinding, Current
  <2>2. Len(d.attempts) \in DOMAIN d.attempts /\ b.req \in d.attempts[Len(d.attempts)].reqs
    BY <2>1, CurrentExists DEF CurrentReqs, currentAttempt, Current
  <2>3. b.req \in e.attempts[b.attempt].reqs
    BY <1>0, <2>1, <2>2 DEF Keeps
  <2>4. PICK i \in DOMAIN d.attempts : d.attempts[i].by = c
    BY DEF HasPlan
  <2>5. i \in 1..b.attempt /\ e.attempts[i].by = b.artifact
    BY <1>1, <1>2, <2>1, <2>4 DEF KeepsBy
  <2> QED
    BY <2>3, <2>5
<1> QED
  BY <1>1, <1>3, <1>4

\* What a record owes.
Goes(d, e) == Keeps(d, e) /\ KeepsBy(d, e) /\ LastRests(e) /\ InOrder(e)

\* Results that concern no query.
LEMMA QuietGoes ==
  ASSUME NEW d, NEW e, Sound(d), LastRests(d), InOrder(d), Keeps(d, e), Quiet(d, e)
  PROVE  Goes(d, e)
<1>1. KeepsBy(d, e) /\ LastRests(e)
  BY DEF Quiet, KeepsBy, LastRests, currentAttempt, Current
<1> QED
  BY <1>1, OrderKept DEF Goes, Quiet

\* A plan appends its attempt and clears the flags.
LEMMA PlannedGoes ==
  ASSUME NEW d, Sound(d), LastRests(d), InOrder(d), NEW c \in Calls, call \in [Calls -> ToolCall]
  PROVE  Goes(d, Planned(d, c)) /\ HasPlan(Planned(d, c), c)
<1> DEFINE e == Planned(d, c)
<1>1. Sound(e) /\ Keeps(d, e)
  BY PlannedFollows DEF Follows
<1>2. e.bindings = d.bindings /\ e.validated = FALSE /\ e.executed = FALSE
  BY PlannedQueries
<1>5. KeepsBy(d, e)
  BY PlannedQueries
<1>6. e.attempts # <<>> /\ currentAttempt(e).by = c
  BY PlannedQueries
<1> HIDE DEF e
<1>3. Current(e) \in DOMAIN e.attempts
  BY <1>1, <1>6 DEF Sound, State, Current
<1>4. HasPlan(e, c)
  BY <1>3, <1>6 DEF HasPlan, currentAttempt
<1> QED
  BY <1>1, <1>2, <1>4, <1>5, OrderKept DEF Goes, LastRests, e

\* The other results go to the attempt that is current, which there is.
LEMMA ValidatedGoes ==
  ASSUME NEW d, Sound(d), LastRests(d), InOrder(d), NEW c, HasPlan(d, c), NEW valid \in BOOLEAN
  PROVE  Goes(d, Validated(d, valid)) /\ (d.executed => Validated(d, valid).executed)
<1> DEFINE e == Validated(d, valid)
<1>1. Keeps(d, e)
  BY ValidatedFollows DEF Follows
<1>2. d.attempts # <<>>
  BY DEF HasPlan
<1>3. /\ e.bindings = d.bindings /\ e.validated = valid /\ KeepsBy(d, e) /\ e.attempts # <<>>
      /\ currentAttempt(e).valid = valid /\ SameResult(d, e)
  BY <1>2, ValidatedQueries DEF Recorded, KeepsBy
<1> HIDE DEF e
<1>4. LastRests(e)
  BY <1>2, <1>3 DEF LastRests, SameResult
<1> QED
  BY <1>1, <1>3, <1>4, OrderKept DEF Goes, SameResult, e

LEMMA ExecutedGoes ==
  ASSUME NEW d, Sound(d), LastRests(d), InOrder(d), NEW c \in Calls, HasPlan(d, c)
  PROVE  Goes(d, Executed(d, c)) /\ Executed(d, c).executed
<1> DEFINE e == Executed(d, c)
<1>1. Keeps(d, e)
  BY ExecutedFollows DEF Follows
<1>2. d.attempts # <<>>
  BY DEF HasPlan
<1>3. /\ e.bindings = d.bindings /\ e.validated = d.validated /\ KeepsBy(d, e) /\ e.attempts # <<>>
      /\ currentAttempt(e).valid = currentAttempt(d).valid /\ currentAttempt(e).artifact = c
      /\ e.executed /\ e.currentEvidence = {c}
  BY <1>2, ExecutedQueries DEF Recorded, KeepsBy
<1> HIDE DEF e
<1>4. LastRests(e)
  BY <1>2, <1>3 DEF LastRests
<1> QED
  BY <1>1, <1>3, <1>4, OrderKept DEF Goes, e

LEMMA VerifiedGoes ==
  ASSUME NEW d, Sound(d), LastRests(d), InOrder(d), NEW c \in Calls, HasPlan(d, c),
         call \in [Calls -> ToolCall]
  PROVE  Goes(d, Verified(d, c)) /\ (d.executed => Verified(d, c).executed)
<1> DEFINE e == Verified(d, c)
<1>1. Keeps(d, e)
  BY VerifiedFollows DEF Follows
<1>2. d.attempts # <<>>
  BY DEF HasPlan
<1>3. /\ e.bindings = d.bindings /\ e.validated = d.validated /\ KeepsBy(d, e) /\ e.attempts # <<>>
      /\ currentAttempt(e).valid = currentAttempt(d).valid /\ SameResult(d, e)
  BY <1>2, VerifiedQueries DEF Recorded, KeepsBy
<1> HIDE DEF e
<1>4. LastRests(e)
  BY <1>2, <1>3 DEF LastRests, SameResult
<1> QED
  BY <1>1, <1>3, <1>4, OrderKept DEF Goes, SameResult, e

LEMMA BoundGoes ==
  ASSUME NEW d, Sound(d), LastRests(d), InOrder(d), NEW c \in Calls, HasPlan(d, c)
  PROVE  Goes(d, Bound(d, c)) /\ (d.executed => Bound(d, c).executed)
<1> DEFINE e == Bound(d, c)
<1>1. Keeps(d, e)
  BY BoundFollows DEF Follows
<1>2. d.attempts # <<>>
  BY DEF HasPlan
<1>3. /\ e.validated = d.validated /\ KeepsBy(d, e) /\ e.attempts # <<>>
      /\ currentAttempt(e).valid = currentAttempt(d).valid /\ SameResult(d, e)
  BY <1>2, BoundQueries DEF Recorded, KeepsBy
<1>4. InOrder(e)
  BY BoundInOrder
<1> HIDE DEF e
<1>5. LastRests(e)
  BY <1>2, <1>3 DEF LastRests, SameResult
<1> QED
  BY <1>1, <1>3, <1>4, <1>5 DEF Goes, SameResult, e

-----------------------------------------------------------------------------
(* The phases. *)

\* The next phase is the one of the moment, or one that the action leads to.
LEMMA NextPhaseMoves ==
  ASSUME NEW name, NEW d
  PROVE  \/ /\ NextPhase(name, d) = phase
            /\ \A to \in Phases : ~(name \in Allowed[phase] /\ LeadsTo(phase, name, d, to))
         \/ LeadsTo(phase, name, d, NextPhase(name, d))
<1> DEFINE targets == {to \in Phases : name \in Allowed[phase] /\ LeadsTo(phase, name, d, to)}
<1>1. NextPhase(name, d) = IF targets = {} THEN phase ELSE CHOOSE to \in targets : TRUE
  BY DEF NextPhase
<1>2. \A to \in targets : to \in Phases /\ LeadsTo(phase, name, d, to)
  OBVIOUS
<1>3. targets = {} => \A to \in Phases : ~(name \in Allowed[phase] /\ LeadsTo(phase, name, d, to))
  OBVIOUS
<1> HIDE DEF targets
<1>4. targets # {} => (CHOOSE to \in targets : TRUE) \in targets
  OBVIOUS
<1> QED
  BY <1>1, <1>2, <1>3, <1>4

\* A record that leaves the result as it is enters a late phase with it only.
LEMMA LateKept ==
  ASSUME NEW name, NEW d, phase \in Late => dom.executed, dom.executed => d.executed
  PROVE  NextPhase(name, d) \in Late => d.executed
BY NextPhaseMoves DEF LeadsTo, Late

\* A plan leaves them, whichever phase it was admitted in.
LEMMA LateLeft ==
  ASSUME NEW d, ~d.executed, ~d.passed
  PROVE  NextPhase("data.query.plan", d) \notin Late
<1>1. phase \in Late => /\ "data.query.plan" \in Allowed[phase] /\ "query_planning" \in Phases
                        /\ LeadsTo(phase, "data.query.plan", d, "query_planning")
  BY DEF Late, Allowed, Review, Phases, LeadsTo
<1>2. CASE NextPhase("data.query.plan", d) = phase /\ phase \notin Late
  BY <1>2
<1>3. CASE LeadsTo(phase, "data.query.plan", d, NextPhase("data.query.plan", d))
  BY <1>3 DEF LeadsTo, Late
<1> QED
  BY <1>1, <1>2, <1>3, NextPhaseMoves

-----------------------------------------------------------------------------
(* The steps. *)

\* What the step of a call owes.
Carries(c) ==
  /\ Goes(dom, dom')
  /\ phase' \in Late => dom'.executed
  /\ call'[c].name \in Queried => HasPlan(dom', c)
  /\ (call'[c].name = "write_file" /\ call'[c].pc \in {"called", "executing"}) =>
       Writes(c) \/ \A r \in User : Rests(dom, r)

\* A call in flight is alone in its changes, and the run is not decided.
LEMMA StepIsOwn ==
  ASSUME call \in [Calls -> ToolCall], outcome # "none" => Over, NEW c \in Calls, Step(c)
  PROVE  /\ outcome = "none" /\ outcome' = outcome
         /\ \A x \in Calls \ {c} : call'[x] = call[x]
<1>1. call[c].pc \notin {"idle", "over"} /\ outcome' = outcome
  BY DEF Step, Check, Begin, Fail, Inspect, Resolve, ChainGround, Ground, Plan, Validate, Run,
         ChainVerify, VerifyResult, Bind, Commit, Other, Record
<1>2. \A x \in Calls \ {c} : call'[x] = call[x]
  BY DEF Step, Check, Begin, Fail, Inspect, Resolve, ChainGround, Ground, Plan, Validate, Run,
         ChainVerify, VerifyResult, Bind, Commit, Other, Goto, End
<1> QED
  BY <1>1, <1>2 DEF Over

\* A step that carries what it owes keeps the invariant.
LEMMA CarriesOn ==
  ASSUME QInv, NEW c \in Calls, Step(c), Carries(c)
  PROVE  QInv'
<1>1. IInv' /\ Sound(dom) /\ call \in [Calls -> ToolCall]
  BY InvStep DEF QInv, IInv, TypeOK, Sound
<1>2. outcome' = "none" /\ \A x \in Calls \ {c} : call'[x] = call[x]
  BY <1>1, StepIsOwn DEF QInv
<1>3. \A x \in Calls : HasPlan(dom, x) => HasPlan(dom', x)
  BY DEF HasPlan, Carries, Goes, Keeps, KeepsBy
<1>4. \A r \in User : Rests(dom, r) => Rests(dom', r)
  BY <1>1, RestsForGood DEF Carries, Goes
<1>5. ASSUME NEW x \in Calls, call'[x].name \in Queried PROVE HasPlan(dom', x)
  BY <1>2, <1>3, <1>5 DEF QInv, Carries
<1>6. ASSUME NEW x \in Calls, NEW r \in User,
             call'[x].name = "write_file" /\ call'[x].pc \in {"called", "executing"}
      PROVE  Rests(dom', r)
  BY <1>2, <1>4, <1>6 DEF QInv, Carries, Writes
<1>7. outcome' # "none" => Over'
  BY <1>2
<1>8. DecisionIsCurrent'
  BY <1>2 DEF DecisionIsCurrent
<1>9. \A x \in Calls : call'[x].name \in Queried => HasPlan(dom', x)
  BY <1>5
<1>10. \A x \in Calls : Writes(x)' => \A r \in User : Rests(dom', r)
  BY <1>6 DEF Writes
<1> QED
  BY <1>1, <1>7, <1>8, <1>9, <1>10 DEF QInv, Carries, Goes

\* A call that only moves on, or ends.
LEMMA UnrecordedCarries ==
  ASSUME QInv, NEW c \in Calls, UNCHANGED <<phase, dom>>,
         call'[c].name \in Queried => HasPlan(dom, c),
         (call'[c].name = "write_file" /\ call'[c].pc \in {"called", "executing"}) =>
           Writes(c) \/ \A r \in User : Rests(dom, r)
  PROVE  Carries(c)
<1>1. Sound(dom) /\ Keeps(dom, dom) /\ Quiet(dom, dom)
  BY DEF QInv, IInv, TypeOK, Sound, Keeps, Quiet
<1>2. Goes(dom, dom)
  BY <1>1, QuietGoes DEF QInv
<1> QED
  BY <1>2 DEF Carries, QInv

\* A record that leaves the result as it is.
LEMMA RecordedCarries ==
  ASSUME QInv, NEW c \in Calls, NEW name, NEW d, Record(c, name, d),
         Goes(dom, d), dom.executed => d.executed,
         call'[c].name \in Queried => HasPlan(d, c), call'[c].name # "write_file"
  PROVE  Carries(c)
<1>1. dom' = d /\ phase' = NextPhase(name, d)
  BY DEF Record
<1>2. NextPhase(name, d) \in Late => d.executed
  BY LateKept DEF QInv
<1> QED
  BY <1>1, <1>2 DEF Carries

\* Every step of a call carries what it owes.
LEMMA StepCarries ==
  ASSUME QInv, NEW c \in Calls, Step(c)
  PROVE  Carries(c)
<1>0. /\ Sound(dom) /\ call \in [Calls -> ToolCall] /\ LastRests(dom) /\ InOrder(dom)
      /\ call[c].name \in Queried => HasPlan(dom, c)
  BY DEF QInv, IInv, TypeOK, Sound
<1>e. End(c) => call'[c].name = "none"
  BY <1>0 DEF End, Idle
<1>g. \A name : Goto(c, name) => call'[c].name = name
  BY <1>0 DEF Goto, ToolCall
<1>1. CASE Check(c)
  <2>1. call'[c].name = "write_file" /\ call'[c].pc \in {"called", "executing"} =>
          \A r \in User : dom.req[r] = "reported"
    BY <1>0, <1>1, <1>e DEF Check, ToolCall
  <2>2. \A r \in User : dom.req[r] = "reported" => Rests(dom, r)
    BY DEF QInv, IInv, ClaimsRest, Supported, Rests
  <2>3. call'[c].name \in Queried => call[c].name \in Queried
    BY <1>0, <1>1, <1>e DEF Check, ToolCall, Queried
  <2> QED
    BY <1>0, <1>1, <2>1, <2>2, <2>3, UnrecordedCarries DEF Check
<1>2. CASE Begin(c)
  <2>1. call'[c].name = call[c].name /\ call[c].pc = "called"
    BY <1>0, <1>2 DEF Begin, ToolCall
  <2> QED
    BY <1>0, <1>2, <2>1, UnrecordedCarries DEF Begin, Writes
<1>3. CASE Fail(c)
  BY <1>3, <1>e, UnrecordedCarries DEF Fail, Queried
<1>4. CASE Inspect(c)
  <2>1. Goes(dom, Inspected(dom)) /\ (dom.executed => Inspected(dom).executed)
    BY <1>0, InspectedFollows, InspectedQuiet, QuietGoes DEF Follows, Quiet
  <2> QED
    BY <1>4, <1>g, <2>1, RecordedCarries DEF Inspect, Queried
<1>5. CASE Resolve(c)
  <2>1. PICK mode \in Modes : Record(c, "semantic.context.resolve", Resolved(dom, mode))
    BY <1>5 DEF Resolve
  <2>2. Goes(dom, Resolved(dom, mode)) /\ (dom.executed => Resolved(dom, mode).executed)
    BY <1>0, ResolvedFollows, ResolvedQuiet, QuietGoes DEF Follows, Quiet
  <2>3. call'[c].name = "semantic.context.resolve"
    BY <1>0, <1>5, <2>1 DEF Resolve, Record, ToolCall
  <2> QED
    BY <2>1, <2>2, <2>3, RecordedCarries DEF Queried
<1>6. CASE ChainGround(c)
  <2>1. call'[c].name \in {"none", "analysis.contract.ground"}
    BY <1>0, <1>6, <1>e DEF ChainGround, ToolCall
  <2> QED
    BY <1>6, <2>1, UnrecordedCarries DEF ChainGround, Queried
<1>7. CASE Ground(c)
  <2> DEFINE d == Grounded(dom, call[c].snapshot)
  <2>1. call[c].snapshot \in [Requirement -> Status]
    BY <1>0 DEF ToolCall
  <2>2. Goes(dom, d) /\ (dom.executed => d.executed)
    BY <1>0, <2>1, GroundedKeeps, GroundedQuiet, QuietGoes DEF Quiet
  <2> HIDE DEF d
  <2> QED
    BY <1>7, <1>e, <2>2, RecordedCarries DEF Ground, Queried, d
<1>8. CASE Plan(c)
  <2> DEFINE d == Planned(dom, c)
  <2>1. Goes(dom, d) /\ HasPlan(d, c)
    BY <1>0, PlannedGoes
  <2>2. ~d.executed /\ ~d.passed
    BY <1>0, PlannedQueries
  <2>3. dom' = d /\ phase' = NextPhase("data.query.plan", d)
    BY <1>8 DEF Plan, Record
  <2> HIDE DEF d
  <2>4. phase' \notin Late
    BY <2>2, <2>3, LateLeft
  <2>5. call'[c].name = "data.query.validate"
    BY <1>8, <1>g DEF Plan
  <2> QED
    BY <2>1, <2>3, <2>4, <2>5 DEF Carries
<1>9. CASE Validate(c)
  <2>1. PICK valid \in BOOLEAN : Record(c, "data.query.validate", Validated(dom, valid))
    BY <1>9 DEF Validate
  <2>2. HasPlan(dom, c)
    BY <1>0, <2>1 DEF Record, Queried
  <2>3. Goes(dom, Validated(dom, valid)) /\ (dom.executed => Validated(dom, valid).executed)
    BY <1>0, <2>2, ValidatedGoes
  <2>4. HasPlan(Validated(dom, valid), c)
    BY <2>2, <2>3 DEF Goes, Keeps, KeepsBy, HasPlan
  <2> QED
    BY <1>9, <1>g, <2>1, <2>3, <2>4, RecordedCarries DEF Validate
<1>10. CASE Run(c)
  <2>1. HasPlan(dom, c) /\ call'[c].name = "run_sql_readonly"
    BY <1>0, <1>10 DEF Run, Record, Queried, ToolCall
  <2>2. Goes(dom, Executed(dom, c)) /\ Executed(dom, c).executed
    BY <1>0, <2>1, ExecutedGoes
  <2>3. HasPlan(Executed(dom, c), c)
    BY <2>1, <2>2 DEF Goes, Keeps, KeepsBy, HasPlan
  <2> QED
    BY <1>10, <2>1, <2>2, <2>3, RecordedCarries DEF Run
<1>11. CASE ChainVerify(c)
  <2>1. call'[c].name = "analysis.result.validate" /\ call[c].name = "run_sql_readonly"
    BY <1>0, <1>11 DEF ChainVerify, ToolCall
  <2> QED
    BY <1>0, <1>11, <2>1, UnrecordedCarries DEF ChainVerify, Queried
<1>12. CASE VerifyResult(c)
  <2>1. Record(c, "analysis.result.validate", Verified(dom, c)) /\ HasPlan(dom, c)
    BY <1>0, <1>12 DEF VerifyResult, Record, Queried
  <2>2. Goes(dom, Verified(dom, c)) /\ (dom.executed => Verified(dom, c).executed)
    BY <1>0, <2>1, VerifiedGoes
  <2>3. HasPlan(Verified(dom, c), c)
    BY <2>1, <2>2 DEF Goes, Keeps, KeepsBy, HasPlan
  <2>4. call'[c].name # "write_file"
    BY <1>12, <1>e, <1>g DEF VerifyResult
  <2> QED
    BY <2>1, <2>2, <2>3, <2>4, RecordedCarries
<1>13. CASE Bind(c)
  <2>1. Record(c, "analysis.evidence.bind", Bound(dom, c)) /\ HasPlan(dom, c)
    BY <1>0, <1>13 DEF Bind, Record, Queried
  <2>2. Goes(dom, Bound(dom, c)) /\ (dom.executed => Bound(dom, c).executed)
    BY <1>0, <2>1, BoundGoes
  <2> QED
    BY <1>13, <1>e, <2>1, <2>2, RecordedCarries DEF Bind, Queried
<1>14. CASE Commit(c)
  <2>1. \E claimed \in (SUBSET User) \ {{}} : \E evidence \in [claimed -> (SUBSET dom.bindings) \ {{}}] :
          /\ \A r \in claimed : ValuesVerified(dom, r, evidence[r])
          /\ Record(c, "analysis.requirements.commit", Reported(dom, evidence))
    BY <1>14, Zenon DEF Commit
  <2>2. PICK claimed \in (SUBSET User) \ {{}} : \E evidence \in [claimed -> (SUBSET dom.bindings) \ {{}}] :
          /\ \A r \in claimed : ValuesVerified(dom, r, evidence[r])
          /\ Record(c, "analysis.requirements.commit", Reported(dom, evidence))
    BY <2>1
  <2>3. PICK evidence \in [claimed -> (SUBSET dom.bindings) \ {{}}] :
          /\ \A r \in claimed : ValuesVerified(dom, r, evidence[r])
          /\ Record(c, "analysis.requirements.commit", Reported(dom, evidence))
    BY <2>2
  <2>4. Keeps(dom, Reported(dom, evidence)) /\ Quiet(dom, Reported(dom, evidence))
    BY <1>0, <2>3, ReportedRests, ReportedQuiet
  <2>5. Goes(dom, Reported(dom, evidence)) /\ (dom.executed => Reported(dom, evidence).executed)
    BY <1>0, <2>4, QuietGoes DEF Quiet
  <2> QED
    BY <1>14, <1>e, <2>3, <2>5, RecordedCarries DEF Commit, Queried
<1>15. CASE Other(c)
  <2>1. PICK name \in {"preview_table", "write_file"} : Record(c, name, dom)
    BY <1>15 DEF Other
  <2>2. Goes(dom, dom)
    BY <1>0, QuietGoes DEF Keeps, Quiet
  <2> QED
    BY <1>15, <1>e, <2>1, <2>2, RecordedCarries DEF Other, Queried
<1> QED
  BY <1>1, <1>2, <1>3, <1>4, <1>5, <1>6, <1>7, <1>8, <1>9, <1>10, <1>11, <1>12, <1>13, <1>14, <1>15 DEF Step

\* Nothing is planned, bound or written initially.
LEMMA QueriesInit == Init => QInv
<1> SUFFICES ASSUME Init PROVE QInv
  OBVIOUS
<1>1. /\ dom.attempts = <<>> /\ dom.bindings = {} /\ ~dom.validated /\ ~dom.executed
      /\ outcome = "none" /\ phase = "scope"
  BY DEF Init, InitialState
<1>2. \A c \in Calls : call[c].name = "none"
  BY DEF Init, Idle
<1> QED
  BY <1>1, <1>2, InvInit DEF QInv, LastRests, InOrder, Queried, Writes, Late, DecisionIsCurrent

\* The calls of a new turn have planned and written nothing.
LEMMA QueriesTurn == QInv /\ Turn => QInv'
<1> SUFFICES ASSUME QInv, Turn PROVE QInv'
  OBVIOUS
<1>1. IInv' /\ outcome = "none" /\ UNCHANGED <<phase, dom, outcome>>
  BY InvNext DEF QInv, Next, Turn
<1>2. PICK n \in 1..Width : \E q \in [1..n -> Request] :
        call' = [c \in Calls |->
          IF c - Used \in 1..n THEN [q[c - Used] EXCEPT !.pc = Enter(q[c - Used].name)] ELSE call[c]]
  BY DEF Turn
<1>3. PICK q \in [1..n -> Request] :
        call' = [c \in Calls |->
          IF c - Used \in 1..n THEN [q[c - Used] EXCEPT !.pc = Enter(q[c - Used].name)] ELSE call[c]]
  BY <1>2
<1>4. ASSUME NEW x \in Request
      PROVE  LET y == [x EXCEPT !.pc = Enter(x.name)]
             IN  y.name \notin Queried /\ ~(y.name = "write_file" /\ y.pc \in {"called", "executing"})
  <2>1. x.name \in {"inspect_schema", "preview_table", "write_file", "analysis.requirements.commit",
                    "data.query.plan"}
        /\ x = [x EXCEPT !.name = x.name] /\ [x EXCEPT !.pc = Enter(x.name)].name = x.name
        /\ [x EXCEPT !.pc = Enter(x.name)].pc = Enter(x.name)
    BY DEF Request, Idle
  <2> QED
    BY <2>1 DEF Queried, Enter, Checked
<1>5. ASSUME NEW c \in Calls
      PROVE  \/ call'[c] = call[c]
             \/ /\ call'[c].name \notin Queried
                /\ ~(call'[c].name = "write_file" /\ call'[c].pc \in {"called", "executing"})
  BY <1>3, <1>4
<1>6. \A c \in Calls : call'[c].name \in Queried => HasPlan(dom', c)
  BY <1>1, <1>5 DEF QInv
<1>7. \A c \in Calls : Writes(c)' => \A r \in User : Rests(dom', r)
  BY <1>1, <1>5 DEF QInv, Writes
<1>8. DecisionIsCurrent' /\ (outcome' # "none" => Over')
  BY <1>1 DEF DecisionIsCurrent
<1> QED
  BY <1>1, <1>6, <1>7, <1>8 DEF QInv

\* A run is completed when the flags and the requirements say so, and they
\* speak of the query planned last and of claims that rest.
LEMMA QueriesDecide == QInv /\ Decide => QInv'
<1> SUFFICES ASSUME QInv, Decide PROVE QInv'
  OBVIOUS
<1>1. IInv' /\ Over /\ UNCHANGED <<phase, dom, call>>
  BY InvNext DEF QInv, Next, Decide
<1>2. outcome' \in {"completed", "degraded"} => Done(dom)
  BY DEF Decide
<1>3. Done(dom) => /\ dom.validated /\ dom.executed
                   /\ \A r \in User : dom.req[r] = "reported"
  BY DEF Done, Incomplete
<1>4. DecisionIsCurrent'
  BY <1>1, <1>2, <1>3 DEF DecisionIsCurrent, QInv, LastRests, IInv, ClaimsRest, Supported, Current,
     currentAttempt
<1>5. Over'
  BY <1>1 DEF Over
<1>6. \A c \in Calls : Writes(c)' <=> Writes(c)
  BY <1>1 DEF Writes
<1> QED
  BY <1>1, <1>4, <1>5, <1>6 DEF QInv

\* Every step keeps the invariant.
LEMMA QueriesNext == QInv /\ [Next]_vars => QInv'
<1> SUFFICES ASSUME QInv, [Next]_vars PROVE QInv'
  OBVIOUS
<1>1. CASE \E c \in Calls : Step(c)
  BY <1>1, StepCarries, CarriesOn
<1>2. CASE UNCHANGED vars
  <2>1. IInv' /\ UNCHANGED <<phase, dom, call, outcome>>
    BY <1>2, InvNext DEF QInv, vars
  <2>2. Over' <=> Over
    BY <2>1 DEF Over
  <2>3. DecisionIsCurrent' <=> DecisionIsCurrent
    BY <2>1 DEF DecisionIsCurrent, Supported, currentAttempt, Current
  <2>4. \A c \in Calls : Writes(c)' <=> Writes(c)
    BY <2>1 DEF Writes
  <2> QED
    BY <2>1, <2>2, <2>3, <2>4 DEF QInv
<1> QED
  BY <1>1, <1>2, QueriesTurn, QueriesDecide DEF Next

-----------------------------------------------------------------------------
(* The theorems on queries. *)

\* In the late phases something was executed since the last plan and it is
\* evidence of the query of that plan, however the calls of a turn interleave.
THEOREM PhasesMean == Spec => []PhaseSound
<1>1. QInv => PhaseSound
  BY DEF QInv, PhaseSound, LastRests, Late
<1> QED
  BY <1>1, QueriesInit, QueriesNext, PTL DEF Spec

\* A completed run rests on the query planned last, which is valid and has a
\* result, and on a supported claim of every requirement.
THEOREM DecisionStands == Spec => []DecisionIsCurrent
<1>1. QInv => DecisionIsCurrent
  BY DEF QInv
<1> QED
  BY <1>1, QueriesInit, QueriesNext, PTL DEF Spec

\* Evidence goes to no query planned before its own, and to no requirement that
\* its query was not planned for.
THEOREM EvidenceStaysInOrder == Spec => []EvidenceInOrder
<1>1. QInv => EvidenceInOrder
  BY DEF QInv, InOrder, EvidenceInOrder
<1> QED
  BY <1>1, QueriesInit, QueriesNext, PTL DEF Spec

\* A report that was let through is written over supported claims of every
\* requirement, whatever other calls have recorded since the check.
THEOREM ReportIsLast == Spec => []ReportAfterClaims
<1>1. QInv => ReportAfterClaims
  BY DEF QInv, ReportAfterClaims, Writes, Rests, Supported
<1> QED
  BY <1>1, QueriesInit, QueriesNext, PTL DEF Spec
=============================================================================
