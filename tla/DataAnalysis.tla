---------------------------- MODULE DataAnalysis ----------------------------
(***************************************************************************)
(* One data-analysis segment of packages/agent-runtime: the phases, the    *)
(* reducer and the completion policy of the protocol, under the actions    *)
(* that a run boundary adds before and after the agent's tool calls.       *)
(*                                                                         *)
(* The agent works in turns: the tool calls of a turn run concurrently and *)
(* the next turn waits for all of them.  A call is a chain of governed     *)
(* actions (run_sql_readonly: plan, validate, run, validate the result,    *)
(* bind its evidence), and other calls run wherever the chain awaits:      *)
(* before an action is admitted, while it executes, and before the next    *)
(* one is chosen.                                                          *)
(***************************************************************************)
EXTENDS Integers, Sequences, FiniteSets

CONSTANTS
  User,        \* the requirements extracted from the user's text
  Structured,  \* those whose assertions are checked against the result
  Derived,     \* those of kind validation or decision
  Modes,       \* outcomes of the semantic provider chain
  MaxCalls,    \* bound on the tool calls of the run
  Width        \* bound on the tool calls of a turn

ASSUME RequirementKinds == Structured \subseteq User /\ Derived \subseteq User
ASSUME ModesAreKnown == Modes \subseteq {"live", "cached", "fallback", "unavailable"}
ASSUME BoundsArePositive == MaxCalls \in Nat /\ Width \in Nat \ {0}

VARIABLES
  phase,    \* ProtocolRunState.phase
  dom,      \* DataAnalysisState
  call,     \* the tool calls: action, position in the chain, input
  outcome   \* status of the terminal decision

vars == <<phase, dom, call, outcome>>

Core        == {"CORE_SCHEMA", "CORE_SEMANTIC", "CORE_QUERY", "CORE_RESULT", "CORE_EVIDENCE"}
Requirement == Core \cup User
Calls       == 1..MaxCalls

-----------------------------------------------------------------------------
(* The definition: allowed actions and transitions. *)

\* The tools that are not data tools: the one that writes a report.
Common == {"write_file"}

Context == Common \cup {"inspect_schema", "preview_table", "semantic.context.resolve"}

Review == Context \cup {"data.query.plan", "analysis.result.validate", "analysis.evidence.bind",
                        "analysis.requirements.commit"}

Allowed ==
  [scope              |-> Common \cup {"inspect_schema"},
   semantic_grounding |-> Context \cup {"analysis.contract.ground"},
   query_planning     |-> Context \cup {"data.query.plan", "data.query.validate"},
   execution          |-> Context \cup {"run_sql_readonly", "data.query.plan"},
   validation         |-> Review,
   synthesis          |-> Review]

Phases == DOMAIN Allowed

\* Mutant: a plan made while an answer is composed does not reopen the planning.
LeadsToUnplanned(ph, name, d, to) ==
  \/ ph = "scope" /\ to = "semantic_grounding" /\ d.inspected
  \/ ph = "semantic_grounding" /\ to = "query_planning" /\ d.resolved /\ d.grounded
  \/ ph = "query_planning" /\ to = "execution" /\ d.validated
  \/ ph \in {"execution", "validation"} /\ to = "query_planning" /\ name = "data.query.plan"
  \/ ph = "execution" /\ to = "validation" /\ name = "run_sql_readonly" /\ d.executed
  \/ ph = "validation" /\ to = "synthesis" /\ d.passed /\ d.currentEvidence # {}

\* transitions[].when
LeadsTo(ph, name, d, to) ==
  \/ ph = "scope" /\ to = "semantic_grounding" /\ d.inspected
  \/ ph = "semantic_grounding" /\ to = "query_planning" /\ d.resolved /\ d.grounded
  \/ ph = "query_planning" /\ to = "execution" /\ d.validated
  \/ ph \in {"execution", "validation", "synthesis"} /\ to = "query_planning" /\ name = "data.query.plan"
  \/ ph = "execution" /\ to = "validation" /\ name = "run_sql_readonly" /\ d.executed
  \/ ph = "validation" /\ to = "synthesis" /\ d.passed /\ d.currentEvidence # {}

\* recordActionSuccess: an action the phase of the moment does not allow moves
\* nothing, though it is reduced.
NextPhase(name, d) ==
  LET targets == {to \in Phases : name \in Allowed[phase] /\ LeadsTo(phase, name, d, to)}
  IN  IF targets = {} THEN phase ELSE CHOOSE to \in targets : TRUE

-----------------------------------------------------------------------------
(* DataAnalysisState and its reducer. *)

Order == <<"pending", "queried", "validated", "evidenced", "reported">>
Rank(status) == CHOOSE i \in DOMAIN Order : Order[i] = status

advanceStatus(current, target) == IF Rank(target) > Rank(current) THEN target ELSE current

Advanced(d, ids, status) ==
  [d EXCEPT !.req = [r \in Requirement |-> IF r \in ids THEN advanceStatus(@[r], status) ELSE @[r]]]

InitialState ==
  [inspected |-> FALSE, resolved |-> FALSE, mode |-> "none", grounded |-> FALSE,
   planned |-> FALSE, validated |-> FALSE, executed |-> FALSE, passed |-> FALSE,
   currentEvidence |-> {}, req |-> [r \in Requirement |-> "pending"],
   attempts |-> <<>>, bindings |-> {}, claims |-> {}]

\* Mutant: the first attempt stays the current one.
CurrentFirst(d) == IF d.attempts = <<>> THEN 0 ELSE 1

\* currentQueryAttemptId names the attempt that was planned last.
Current(d) == Len(d.attempts)
currentAttempt(d) == d.attempts[Current(d)]
updateCurrentAttempt(d, attempt) == [d.attempts EXCEPT ![Current(d)] = attempt]
CurrentReqs(d) == IF d.attempts = <<>> THEN {} ELSE currentAttempt(d).reqs

Inspected(d) ==
  Advanced([d EXCEPT !.inspected = TRUE, !.grounded = (User = {}) \/ @], {"CORE_SCHEMA"}, "validated")

\* A mode that differs from the one before revokes the grounded contract;
\* trust and datasource revision are compared in the same way.
Resolved(d, mode) ==
  LET changed == d.grounded /\ d.mode # "none" /\ d.mode # mode
      next == [d EXCEPT !.resolved = (mode # "unavailable"), !.mode = mode,
                        !.grounded = (User = {}) \/ (@ /\ ~changed)]
  IN  IF next.resolved THEN Advanced(next, {"CORE_SEMANTIC"}, "validated") ELSE next

\* The grounder's requirements replace the state's: they are the ones it was
\* called with, with their new assertions.
Grounded(d, requirements) == [d EXCEPT !.grounded = TRUE, !.req = requirements]

Attempt(c) == [by |-> c, reqs |-> call[c].reqs, status |-> "planned", valid |-> FALSE,
               artifact |-> 0, verified |-> {}]

\* Mutant: a new plan keeps the verdict on the last query.
PlannedUnreset(d, c) ==
  Advanced([d EXCEPT !.planned = TRUE, !.attempts = Append(@, Attempt(c))], call[c].reqs, "queried")

Planned(d, c) ==
  Advanced([d EXCEPT !.planned = TRUE, !.validated = FALSE, !.executed = FALSE,
                     !.passed = FALSE, !.currentEvidence = {},
                     !.attempts = Append(@, Attempt(c))],
           call[c].reqs, "queried")

Validated(d, valid) ==
  LET next == [d EXCEPT !.validated = valid,
                        !.attempts = updateCurrentAttempt(d,
                          [currentAttempt(d) EXCEPT !.status = IF valid THEN "validated" ELSE "planned",
                                                    !.valid = valid])]
  IN  IF valid THEN Advanced(next, {"CORE_QUERY"}, "validated") ELSE next

\* The result is recorded on the attempt that is current when it arrives.  The
\* artifact of a query is named after its call.
Executed(d, c) ==
  [d EXCEPT !.executed = TRUE, !.passed = FALSE, !.currentEvidence = {c},
            !.attempts = updateCurrentAttempt(d,
              [currentAttempt(d) EXCEPT !.status = "executed", !.artifact = c])]

Verified(d, c) ==
  LET next == [d EXCEPT !.passed = call[c].valid,
                        !.attempts = updateCurrentAttempt(d,
                          [currentAttempt(d) EXCEPT !.verified = call[c].verified])]
  IN  IF call[c].valid THEN Advanced(next, {"CORE_RESULT"} \cup CurrentReqs(d), "validated") ELSE next

\* Mutant: the attempts are counted from zero.
BoundOffByOne(d, c) ==
  Advanced([d EXCEPT !.bindings = @ \cup {[req |-> r, attempt |-> Current(d) - 1, artifact |-> c] :
                                            r \in CurrentReqs(d)}],
           CurrentReqs(d) \cup {"CORE_EVIDENCE"}, "evidenced")

Bound(d, c) ==
  LET new  == {[req |-> r, attempt |-> Current(d), artifact |-> c] : r \in CurrentReqs(d)}
      next == [d EXCEPT !.currentEvidence = @ \cup {c},
                        !.bindings = @ \cup (IF d.passed THEN new ELSE {}),
                        !.attempts = updateCurrentAttempt(d, [currentAttempt(d) EXCEPT !.status = "evidenced"])]
  IN  Advanced(next, CurrentReqs(d) \cup {"CORE_EVIDENCE"}, "evidenced")

\* commitReportedClaims: bindings of the requirement and of the requirements it
\* is derived from, or any if it has none and is a validation or a decision.
Candidates(d, r, sources) ==
  LET own == {b \in d.bindings : b.req \in {r} \cup sources}
  IN  IF own = {} /\ r \in Derived THEN d.bindings ELSE own

\* Mutant: any query of the run may have verified the values.
VerifiedAnywhere(d, r, evidence) ==
  r \in Structured => \E i \in DOMAIN d.attempts : r \in d.attempts[i].verified

\* Every required value of a structured claim is among the verified values of
\* the bound queries, for an assertion that one of them was planned for.
ValuesVerified(d, r, evidence) ==
  LET bound == {d.attempts[b.attempt] : b \in evidence}
  IN  r \in Structured => /\ \E a \in bound : r \in a.reqs
                         /\ \E a \in bound : r \in a.verified

\* The claims of a commit stand on one state: none sees another.
Reported(d, evidence) ==
  LET claims == {[req |-> r, evidence |-> evidence[r]] : r \in DOMAIN evidence}
  IN  [d EXCEPT !.claims = @ \cup claims,
                !.req = [r \in Requirement |-> IF r \in DOMAIN evidence THEN "reported" ELSE @[r]]]

-----------------------------------------------------------------------------
(* completionPolicy *)

Incomplete(d) ==
  {r \in Core : d.req[r] \in {"pending", "queried"}} \cup {r \in User : d.req[r] # "reported"}

Done(d) ==
  /\ d.resolved /\ d.grounded /\ d.planned /\ d.validated /\ d.executed /\ d.passed
  /\ d.currentEvidence # {}
  /\ Incomplete(d) = {}

-----------------------------------------------------------------------------
(* The calls of a turn and the chain of each. *)

Idle == [name |-> "none", pc |-> "idle", reqs |-> {}, valid |-> FALSE,
         verified |-> {}, snapshot |-> [r \in Requirement |-> "pending"]]

\* A query names the requirements it supports.
Request ==
  {[Idle EXCEPT !.name = t] :
     t \in {"inspect_schema", "preview_table", "write_file", "analysis.requirements.commit"}}
  \cup {[Idle EXCEPT !.name = "data.query.plan", !.reqs = R] :
          R \in {S \in SUBSET User : User # {} => S # {}}}

\* afterPreparatoryActions runs for every action and has conditions for two.
Checked == {"run_sql_readonly", "write_file"}
Enter(name) == IF name \in Checked THEN "checking" ELSE "called"

Over == \A c \in Calls : call[c].pc \in {"idle", "over"}
Used == Cardinality({c \in Calls : call[c].pc # "idle"})

\* The model answers with up to Width tool calls.
Turn ==
  /\ outcome = "none" /\ Over
  /\ \E n \in 1..Width : \E q \in [1..n -> Request] :
       /\ Used + n <= MaxCalls
       /\ call' = [c \in Calls |->
            IF c - Used \in 1..n THEN [q[c - Used] EXCEPT !.pc = Enter(q[c - Used].name)] ELSE call[c]]
  /\ UNCHANGED <<phase, dom, outcome>>

Goto(c, name) == call' = [call EXCEPT ![c].name = name, ![c].pc = Enter(name)]
End(c)        == call' = [call EXCEPT ![c] = [Idle EXCEPT !.pc = "over"]]

\* Mutant: the report needs evidence only.
CheckEvidenced(c) ==
  /\ call[c].pc = "checking"
  /\ IF \/ call[c].name = "run_sql_readonly" /\ dom.validated
        \/ call[c].name = "write_file" /\ \A r \in User : dom.req[r] \in {"evidenced", "reported"}
     THEN call' = [call EXCEPT ![c].pc = "called"]
     ELSE End(c)
  /\ UNCHANGED <<phase, dom, outcome>>

\* assertCurrentQueryContract, assertRequirementsCommittedBeforeReport
Check(c) ==
  /\ call[c].pc = "checking"
  /\ IF \/ call[c].name = "run_sql_readonly" /\ dom.validated
        \/ call[c].name = "write_file" /\ \A r \in User : dom.req[r] = "reported"
     THEN call' = [call EXCEPT ![c].pc = "called"]
     ELSE End(c)
  /\ UNCHANGED <<phase, dom, outcome>>

\* beginAction
Begin(c) ==
  /\ call[c].pc = "called" /\ call[c].name \in Allowed[phase]
  /\ call' = [call EXCEPT ![c].pc = "executing"]
  /\ UNCHANGED <<phase, dom, outcome>>

\* Refused in this phase, by a policy or by the budget, or its execution
\* throws: the whole chain ends.
Fail(c) ==
  /\ call[c].pc \in {"called", "executing"}
  /\ End(c)
  /\ UNCHANGED <<phase, dom, outcome>>

Record(c, name, next) ==
  /\ call[c].pc = "executing" /\ call[c].name = name
  /\ dom' = next
  /\ phase' = NextPhase(name, next)
  /\ UNCHANGED outcome

Inspect(c) ==
  /\ Record(c, "inspect_schema", Inspected(dom))
  /\ Goto(c, "semantic.context.resolve")

Resolve(c) ==
  /\ \E mode \in Modes : Record(c, "semantic.context.resolve", Resolved(dom, mode))
  /\ call' = [call EXCEPT ![c].pc = "recorded"]

Ground(c) ==
  /\ Record(c, "analysis.contract.ground", Grounded(dom, call[c].snapshot))
  /\ End(c)

Plan(c) ==
  /\ Record(c, "data.query.plan", Planned(dom, c))
  /\ Goto(c, "data.query.validate")

\* The call's own statement must be read-only and have a schema, that of the
\* current attempt must satisfy its assertions.
Validate(c) ==
  /\ \E valid \in BOOLEAN : Record(c, "data.query.validate", Validated(dom, valid))
  /\ Goto(c, "run_sql_readonly")

Run(c) ==
  /\ Record(c, "run_sql_readonly", Executed(dom, c))
  /\ call' = [call EXCEPT ![c].pc = "recorded"]

VerifyResult(c) ==
  /\ Record(c, "analysis.result.validate", Verified(dom, c))
  /\ IF call[c].valid THEN Goto(c, "analysis.evidence.bind") ELSE End(c)

\* ANALYSIS_EVIDENCE_BINDING_INCOMPLETE is a Fail.
Bind(c) ==
  /\ CurrentReqs(dom) # {} => dom.passed
  /\ Record(c, "analysis.evidence.bind", Bound(dom, c))
  /\ End(c)

\* A commit has at most one claim of a requirement, and one that fails refuses
\* them all.  Explicit references narrow the candidates; those that match none
\* are ignored.
Commit(c) ==
  /\ call[c].pc = "executing"
  /\ \E claimed \in (SUBSET User) \ {{}} : \E evidence \in [claimed -> (SUBSET dom.bindings) \ {{}}] :
       /\ \A r \in claimed :
            /\ \E sources \in SUBSET User : evidence[r] \subseteq Candidates(dom, r, sources)
            /\ ValuesVerified(dom, r, evidence[r])
       /\ Record(c, "analysis.requirements.commit", Reported(dom, evidence))
  /\ End(c)

Other(c) ==
  /\ \E name \in {"preview_table", "write_file"} : Record(c, name, dom)
  /\ End(c)

\* automaticActions: chosen from the state of the moment.
ChainGround(c) ==
  /\ call[c].pc = "recorded" /\ call[c].name = "semantic.context.resolve"
  /\ IF User = {} \/ dom.grounded THEN End(c)
     ELSE call' = [call EXCEPT ![c].name = "analysis.contract.ground", ![c].pc = "called",
                               ![c].snapshot = dom.req]
  /\ UNCHANGED <<phase, dom, outcome>>

\* validateAnalysisResult: the values are verified against the assertions of
\* the current attempt; a valid result has all of them.
ChainVerify(c) ==
  /\ call[c].pc = "recorded" /\ call[c].name = "run_sql_readonly"
  /\ \E valid \in BOOLEAN, complete \in BOOLEAN :
       /\ valid => complete
       /\ call' = [call EXCEPT ![c].name = "analysis.result.validate", ![c].pc = "called",
                               ![c].valid = valid,
                               ![c].verified = IF complete THEN CurrentReqs(dom) \cap Structured ELSE {}]
  /\ UNCHANGED <<phase, dom, outcome>>

\* proposeCompletion with forceTerminal, after the last turn; a deadline makes
\* it partial.
Decide ==
  /\ outcome = "none" /\ Over
  /\ \/ outcome' = IF ~Done(dom) THEN "partial" ELSE IF dom.mode = "fallback" THEN "degraded" ELSE "completed"
     \/ outcome' = "partial"
  /\ UNCHANGED <<phase, dom, call>>

-----------------------------------------------------------------------------
Init ==
  /\ phase = "scope" /\ dom = InitialState /\ outcome = "none"
  /\ call = [c \in Calls |-> Idle]

Step(c) ==
  \/ Check(c) \/ Begin(c) \/ Fail(c)
  \/ Inspect(c) \/ Resolve(c) \/ ChainGround(c) \/ Ground(c)
  \/ Plan(c) \/ Validate(c) \/ Run(c) \/ ChainVerify(c) \/ VerifyResult(c) \/ Bind(c)
  \/ Commit(c) \/ Other(c)

Next == Turn \/ Decide \/ \E c \in Calls : Step(c)

Spec == Init /\ [][Next]_vars

-----------------------------------------------------------------------------
Status   == {"pending", "queried", "validated", "evidenced", "reported"}
Position == {"idle", "checking", "called", "executing", "recorded", "over"}
Action   == {"none", "inspect_schema", "preview_table", "write_file", "semantic.context.resolve",
             "analysis.contract.ground", "data.query.plan", "data.query.validate", "run_sql_readonly",
             "analysis.result.validate", "analysis.evidence.bind", "analysis.requirements.commit"}
Binding  == [req : User, attempt : Nat, artifact : Calls]

QueryAttempt ==
  [by : Calls, reqs : SUBSET User, status : {"planned", "validated", "executed", "evidenced"},
   valid : BOOLEAN, artifact : Calls \cup {0}, verified : SUBSET User]

State ==
  [inspected : BOOLEAN, resolved : BOOLEAN, mode : Modes \cup {"none"}, grounded : BOOLEAN,
   planned : BOOLEAN, validated : BOOLEAN, executed : BOOLEAN, passed : BOOLEAN,
   currentEvidence : SUBSET Calls, req : [Requirement -> Status],
   attempts : Seq(QueryAttempt), bindings : SUBSET Binding,
   claims : SUBSET [req : User, evidence : SUBSET Binding]]

ToolCall ==
  [name : Action, pc : Position, reqs : SUBSET User, valid : BOOLEAN, verified : SUBSET User,
   snapshot : [Requirement -> Status]]

\* Every variable stays in its type; a binding names an attempt that exists.
TypeOK ==
  /\ phase \in Phases /\ outcome \in {"none", "completed", "degraded", "partial"}
  /\ dom \in State /\ call \in [Calls -> ToolCall]
  /\ \A b \in dom.bindings : b.attempt \in DOMAIN dom.attempts

\* A result is judged and an answer composed only over a query that has one:
\* in the late phases something was executed since the last plan, it is recorded
\* on the query of that plan and it is evidence of the moment, whatever calls of
\* the turn return in a phase they were not admitted in.
PhaseSound ==
  phase \in {"validation", "synthesis"} =>
    /\ dom.executed /\ dom.attempts # <<>>
    /\ currentAttempt(dom).artifact \in dom.currentEvidence

\* A claim of the requirement rests on evidence that was bound; for a structured
\* one, on that of a query planned for it.
Supported(r) ==
  \E claim \in dom.claims :
    /\ claim.req = r /\ claim.evidence # {} /\ claim.evidence \subseteq dom.bindings
    /\ r \in Structured => \E b \in claim.evidence : r \in dom.attempts[b.attempt].reqs

\* A requirement is reported only on the strength of a supported claim, also
\* when the grounder puts back what it copied before other calls went on.
ClaimsRest == \A r \in User : dom.req[r] = "reported" => Supported(r)

\* A run is not completed by the merits of an earlier query: the query planned
\* last is valid, it has a result that came after the plan, and every
\* requirement of the user has a supported claim.
DecisionIsCurrent ==
  outcome \in {"completed", "degraded"} =>
    /\ dom.attempts # <<>> /\ currentAttempt(dom).valid
    /\ currentAttempt(dom).artifact \in dom.currentEvidence
    /\ \A r \in User : Supported(r)

\* No report is written before every requirement has its claim, although other
\* calls plan, ground and commit between the check and the write.
ReportAfterClaims ==
  \A c \in Calls : call[c].name = "write_file" /\ call[c].pc \in {"called", "executing"} =>
    \A r \in User : Supported(r)

\* Evidence may be bound to a query planned later than its own, never to an
\* earlier one, and for the requirements of that query only: concurrent queries
\* share the attempt that is current.
EvidenceInOrder ==
  \A b \in dom.bindings :
    /\ b.req \in dom.attempts[b.attempt].reqs
    /\ \E i \in 1..b.attempt : dom.attempts[i].by = b.artifact

\* A query is executed only if its own contract was validated
\* (run-protocol-boundary.test.ts:642).  Of two queries of a turn, the first
\* has the verdict that was recorded for the second.
ContractBeforeQuery ==
  \A c \in Calls : call[c].name = "run_sql_readonly" /\ call[c].pc = "executing" =>
    \E i \in DOMAIN dom.attempts : dom.attempts[i].by = c /\ dom.attempts[i].valid

\* A run is completed only when the query planned last has evidence of its own
\* (formal-protocols.test.ts:129).  Of two queries of a turn, the second can be
\* completed with the result of the first.
DecisionHasOwnEvidence ==
  outcome \in {"completed", "degraded"} => currentAttempt(dom).by \in dom.currentEvidence
=============================================================================
