---------------------------- MODULE ProtocolRun ----------------------------
(***************************************************************************)
(* One governed agent run in packages/agent-runtime: its protocol segments *)
(* (ProtocolRuntime over the metadata store), the tool calls that go       *)
(* through the ActionRouter, the handoffs between protocols, the event     *)
(* journal with its publication and replay, and the completion decision.   *)
(*                                                                         *)
(* Segments, journal and published events are rows and survive a crash.    *)
(* A run has a worker (a boundary: runtime, router, context package) at a  *)
(* time; a resume starts the next one, while calls of the suspended worker *)
(* may still be in flight.  Within the process a commit and the            *)
(* publication of its events are synchronous: only a crash cuts them.      *)
(***************************************************************************)
EXTENDS Naturals, Sequences, FiniteSets, SequencesExt

CONSTANTS
  Calls,         \* tool calls the agent makes
  CommitCall,    \* the answer commit of the completion: `runId`:general-answer-commit
  DataAnalysis,  \* the data-analysis definition: initial, allowed, target, goal
  MaxSegments,   \* bound on the handoffs of a run, plus one
  MaxWorkers,    \* bound on the resumes of a run, plus one
  MaxActions,    \* action budget of a segment (generalTaskMaxProtocolActions)
  MaxAutomatic   \* automatic actions after a call (protocolAutomaticActionMaxDepth)

ASSUME CommitCallApart == CommitCall \notin Calls
ASSUME BoundsAreNat ==
  MaxSegments \in Nat \ {0} /\ MaxWorkers \in Nat \ {0} /\ MaxActions \in Nat /\ MaxAutomatic \in Nat

VARIABLES
  run,         \* runs.status
  worker,      \* the newest worker of the run, 0 before the first
  stage,       \* where it is: assembling, starting, live, answering, deciding, decided
  seg,         \* protocol_state_snapshots, by segment number
  last,        \* the newest segment, 0 before the first
  active,      \* the segment each worker works on: boundary.segmentId
  call,        \* the calls of ActionRouter.execute
  journal,     \* protocol_event_journal, in insertion order
  acked,       \* its events with a published_at
  published,   \* protocol events of the journal among the run_events, in seq order
  announced,   \* proposals and rejections of handoffs among the run_events
  publishing,  \* events a synchronous loop is delivering
  emitted,     \* the first of them is written, not yet acknowledged
  deferred     \* events held back until RUN_STARTED

state == <<seg, last>>
log   == <<journal, acked, published, announced>>
queue == <<publishing, emitted, deferred>>
vars  == <<run, worker, stage, state, active, call, log, queue>>

All      == Calls \cup {CommitCall}
Segments == 1..MaxSegments
Workers  == 1..MaxWorkers
ActionId == All \X (0..MaxAutomatic)

-----------------------------------------------------------------------------
(* Protocol definitions. *)

WorkActions == {"tool", "handoff", "answer"}

\* "tool" stands for every tool that is not a data tool.
GeneralTask ==
  [initial |-> "understand",
   allowed |-> [understand |-> WorkActions, gather |-> WorkActions, answer |-> {}],
   target  |-> [ph \in {"understand", "gather"} |->
                 [n \in WorkActions |-> IF n = "answer" THEN "answer" ELSE "gather"]],
   goal    |-> {<<"general-task", "answer">>}]

\* validateProtocolDefinition: the initial phase and every target are phases.
ASSUME DataAnalysisDefined ==
  LET phases == DOMAIN DataAnalysis.allowed IN
  /\ DataAnalysis.initial \in phases
  /\ \A ph \in phases : \A n \in DataAnalysis.allowed[ph] : DataAnalysis.target[ph][n] \in phases

Protocols  == {"general-task", "data-analysis"}
Definition == [p \in Protocols |-> IF p = "general-task" THEN GeneralTask ELSE DataAnalysis]

Allowed(p, ph) == IF ph \in DOMAIN Definition[p].allowed THEN Definition[p].allowed[ph] ELSE {}

\* The transition of a phase the definition knows, for an action it allows there.
Target(p, ph, n) == IF n \in Allowed(p, ph) THEN Definition[p].target[ph][n] ELSE ph

\* The domain holds which results were folded in, and by which reducer.
NewSegment(p, package) ==
  [proto |-> p, rev |-> 0, status |-> "active", phase |-> Definition[p].initial, domain |-> {},
   package |-> package, decision |-> "none", action |-> [id \in ActionId |-> "none"]]

Absent == [NewSegment("general-task", 0) EXCEPT !.status = "none"]

\* Mutant: a failed decision is accepted as a completed one.
GoalUnchecked(x) == TRUE

\* completionPolicy
Goal(x) == Definition[x.proto].goal \subseteq x.domain

-----------------------------------------------------------------------------
(* Commits: the snapshot and its journal entries, in one transaction. *)

\* A commit journals two to five events; two stand for them.
Events(s, rev) == << <<s, rev, 1>>, <<s, rev, 2>> >>

\* INSERT OR IGNORE on the event id.
Inserted(entries, e) == IF e \in ToSet(entries) THEN entries ELSE Append(entries, e)

\* Mutant: the events are published without being journaled.
Unjournaled(entries, s, rev) == entries

\* appendEvents of a commit's events.
Journaled(entries, s, rev) == Inserted(Inserted(entries, <<s, rev, 1>>), <<s, rev, 2>>)

Commit(s, next) ==
  /\ seg' = [seg EXCEPT ![s] = next]
  /\ journal' = Journaled(journal, s, next.rev)
  /\ publishing' = Events(s, next.rev)
  /\ UNCHANGED <<last, acked, published, announced, emitted, deferred>>

Recorded(s, id, status) == [seg[s] EXCEPT !.rev = @ + 1, !.action[id] = status]

\* The context package of a worker's run state has a fresh random id, resumed
\* or not.
Package(w) == w

\* The protocol a worker's runtime, router and reducer currently run.
Proto(w) == seg[active[w]].proto

\* The unpublished entries, by the order of their insertion.
Pending ==
  LET left == {i \in DOMAIN journal : journal[i] \notin acked}
  IN  [n \in 1..Cardinality(left) |->
        journal[CHOOSE i \in left : Cardinality({j \in left : j <= i}) = n]]

InFlight(c) == call[c].pc \in {"called", "executing", "proposing", "proposed"}

\* A recorded proposal is being decided, in the synchronous block that recorded it.
HandingOff(c) == call[c].pc \in {"proposing", "proposed"}

\* No synchronous block is at work: anything else of the process can run.
Idle == publishing = <<>> /\ \A c \in All : ~HandingOff(c)

-----------------------------------------------------------------------------
(* The worker: claim or resume, assembly, stream, completion. *)

Claim ==
  /\ Idle /\ run = "new" /\ run' = "running"
  /\ worker' = 1 /\ stage' = "assembling"
  /\ UNCHANGED <<state, active, call, log, queue>>

\* Mutant: a resume assembles its agent without the replay.
ResumeWithoutReplay ==
  /\ Idle /\ run = "suspended" /\ worker < MaxWorkers
  /\ \A c \in All : call[c].name = "handoff" => call[c].pc \notin {"called", "executing"}
  /\ run' = "running"
  /\ worker' = worker + 1 /\ stage' = "assembling"
  /\ UNCHANGED <<state, active, call, log, queue>>

\* The pending events are replayed before the new worker's assembly.  A
\* proposed handoff only awaits settled promises, so none outlives the request
\* that a resume needs.
Resume ==
  /\ Idle /\ run = "suspended" /\ worker < MaxWorkers
  /\ \A c \in All : call[c].name = "handoff" => call[c].pc \notin {"called", "executing"}
  /\ run' = "running"
  /\ worker' = worker + 1 /\ stage' = "assembling"
  /\ publishing' = Pending
  /\ UNCHANGED <<state, active, call, log, emitted, deferred>>

\* createRunProtocolBoundary starts the first segment, whose events wait for
\* RUN_STARTED, or restores the newest one.
Start(p) ==
  /\ Idle /\ stage = "assembling" /\ last = 0
  /\ seg' = [seg EXCEPT ![1] = NewSegment(p, Package(worker))]
  /\ last' = 1 /\ active' = [active EXCEPT ![worker] = 1]
  /\ journal' = Journaled(journal, 1, 0)
  /\ deferred' = Events(1, 0)
  /\ stage' = "starting"
  /\ UNCHANGED <<run, worker, call, acked, published, announced, publishing, emitted>>

\* Mutant: the first segment is restored.
RestoreFirst ==
  /\ Idle /\ stage = "assembling" /\ last # 0
  /\ active' = [active EXCEPT ![worker] = 1]
  /\ stage' = "starting"
  /\ UNCHANGED <<run, worker, state, call, log, queue>>

\* latestByRun
Restore ==
  /\ Idle /\ stage = "assembling" /\ last # 0
  /\ active' = [active EXCEPT ![worker] = last]
  /\ stage' = "starting"
  /\ UNCHANGED <<run, worker, state, call, log, queue>>

\* RUN_STARTED: flushProtocolEvents
RunStarted ==
  /\ Idle /\ stage = "starting" /\ stage' = "live"
  /\ publishing' = deferred /\ deferred' = <<>>
  /\ UNCHANGED <<run, worker, state, active, call, log, emitted>>

\* A tool asks the user: the row is suspended, other calls are not stopped.
Suspend ==
  /\ Idle /\ stage = "live"
  /\ run' = "suspended" /\ stage' = "none"
  /\ UNCHANGED <<worker, state, active, call, log, queue>>

Dispatch(c, w, n) ==
  call' = [call EXCEPT ![c] = [pc |-> "called", by |-> w, at |-> active[w], name |-> n, step |-> 0]]

\* RUN_FINISHED, with the worker's calls over.  A general task first commits
\* the answer its messages gave, if they gave one.
Finish ==
  /\ Idle /\ stage = "live"
  /\ \A c \in All : InFlight(c) => call[c].by # worker
  /\ \/ /\ Proto(worker) = "general-task"
        /\ Dispatch(CommitCall, worker, "answer") /\ stage' = "answering"
     \/ stage' = "deciding" /\ UNCHANGED call
  /\ UNCHANGED <<run, worker, state, active, log, queue>>

AnswerCommitted ==
  /\ Idle /\ stage = "answering" /\ call[CommitCall].pc = "done"
  /\ stage' = "deciding"
  /\ UNCHANGED <<run, worker, state, active, call, log, queue>>

\* Mutant: the decision goes to the segment the worker was assembled with.
DecideFirst ==
  /\ Idle /\ stage = "deciding"
  /\ \E d \in {"partial"} \cup (IF Goal(seg[1]) THEN {"completed"} ELSE {}) :
       Commit(1, [seg[1] EXCEPT !.rev = @ + 1, !.status = "terminal", !.decision = d])
  /\ stage' = "decided"
  /\ UNCHANGED <<run, worker, active, call>>

\* proposeCompletion with forceTerminal: partial when the goal or the deadline
\* is missed.  It does not look at the segment's status.
Decide ==
  /\ Idle /\ stage = "deciding"
  /\ LET x == seg[active[worker]]
     IN  \E d \in {"partial"} \cup (IF Goal(x) THEN {"completed"} ELSE {}) :
           Commit(active[worker], [x EXCEPT !.rev = @ + 1, !.status = "terminal", !.decision = d])
  /\ stage' = "decided"
  /\ UNCHANGED <<run, worker, active, call>>

Complete ==
  /\ Idle /\ stage = "decided"
  /\ run' = "completed" /\ stage' = "none"
  /\ UNCHANGED <<worker, state, active, call, log, queue>>

\* Mutant: the failed answer commit ends the worker and leaves its row.
AnswerFailsSilently ==
  /\ Idle /\ stage = "answering" /\ call[CommitCall].pc = "failed"
  /\ stage' = "none"
  /\ UNCHANGED <<run, worker, state, active, call, log, queue>>

\* completeProtocolRun catches the failed answer commit.
AnswerFails ==
  /\ Idle /\ stage = "answering" /\ call[CommitCall].pc = "failed"
  /\ run' = "failed" /\ stage' = "none"
  /\ UNCHANGED <<worker, state, active, call, log, queue>>

\* A failure of the setup, the stream or the completion, a cancel, a reclaim.
Stop ==
  /\ Idle /\ run \in {"running", "suspended"}
  /\ run' \in {"failed", "canceled"} /\ stage' = "none"
  /\ UNCHANGED <<worker, state, active, call, log, queue>>

-----------------------------------------------------------------------------
(* ActionRouter.execute: called, begun, executing, recorded. *)

Call(c, n) ==
  /\ Idle /\ stage = "live" /\ call[c].pc = "idle"
  /\ Dispatch(c, worker, n)
  /\ UNCHANGED <<run, worker, stage, state, active, log, queue>>

Settle(c, pc) == call' = [call EXCEPT ![c].pc = pc]

ActionOf(c) == <<c, call[c].step>>

Used(x) == {id \in ActionId : x.action[id] # "none"}

\* beginAction: the worker's current definition against the segment the call
\* was made on, whatever that segment's status.
Admit(c) ==
  LET s == call[c].at IN
  /\ Idle /\ call[c].pc = "called"
  /\ Cardinality(Used(seg[s])) < MaxActions
  /\ call[c].name \in Allowed(Proto(call[c].by), seg[s].phase)
  /\ Commit(s, Recorded(s, ActionOf(c), "requested"))
  /\ Settle(c, "executing")
  /\ UNCHANGED <<run, worker, stage, active>>

\* Refused by a policy, a guard, the phase or the budget: a record, or (schema,
\* capability guard, failed preparation) none.
Reject(c) ==
  /\ Idle /\ call[c].pc = "called"
  /\ Commit(call[c].at, Recorded(call[c].at, ActionOf(c), "rejected"))
  /\ Settle(c, "failed")
  /\ UNCHANGED <<run, worker, stage, active>>

Drop(c) ==
  /\ Idle /\ call[c].pc = "called"
  /\ Settle(c, "failed")
  /\ UNCHANGED <<run, worker, stage, state, active, log, queue>>

\* The executor throws, or its result cannot be parsed or folded in.
Throw(c) ==
  /\ Idle /\ call[c].pc = "executing"
  /\ Commit(call[c].at, Recorded(call[c].at, ActionOf(c), "failed"))
  /\ Settle(c, "failed")
  /\ UNCHANGED <<run, worker, stage, active>>

\* Mutant: the refused result leaves its action open.
MismatchUnrecorded(c) ==
  /\ Idle /\ call[c].pc = "executing"
  /\ seg[call[c].at].package # Package(call[c].by)
  /\ Settle(c, "failed")
  /\ UNCHANGED <<run, worker, stage, state, active, log, queue>>

\* latestContextPackageRef refuses a package of another lineage: the call was
\* executed and its action is recorded as failed.
Mismatch(c) ==
  /\ Idle /\ call[c].pc = "executing"
  /\ seg[call[c].at].package # Package(call[c].by)
  /\ Commit(call[c].at, Recorded(call[c].at, ActionOf(c), "failed"))
  /\ Settle(c, "failed")
  /\ UNCHANGED <<run, worker, stage, active>>

\* recordActionSuccess, with the runtime and the reducer of the moment.
Succeeded(c) ==
  LET s == call[c].at
      p == Proto(call[c].by)
  IN  [Recorded(s, ActionOf(c), "succeeded") EXCEPT
        !.phase = Target(p, @, call[c].name),
        !.domain = @ \cup {<<p, call[c].name>>}]

\* Mutant: the automatic actions go one deeper.
ChainDeeper(c) ==
  \/ call[c].name # "handoff" /\ Settle(c, "done")
  \/ call[c].name = "handoff" /\ Settle(c, "proposing")
  \/ /\ Proto(call[c].by) = "data-analysis" /\ call[c].name # "handoff"
     /\ call[c].step <= MaxAutomatic
     /\ call' = [call EXCEPT ![c].pc = "called", ![c].name = "tool", ![c].step = @ + 1]

\* The call is over, or goes on: a handoff with the proposal it recorded, one of
\* data-analysis with an automatic action on the segment it was made on.
Chain(c) ==
  \/ call[c].name # "handoff" /\ Settle(c, "done")
  \/ call[c].name = "handoff" /\ Settle(c, "proposing")
  \/ /\ Proto(call[c].by) = "data-analysis" /\ call[c].name # "handoff"
     /\ call[c].step < MaxAutomatic
     /\ call' = [call EXCEPT ![c].pc = "called", ![c].name = "tool", ![c].step = @ + 1]

Return(c) ==
  /\ Idle /\ call[c].pc = "executing"
  /\ seg[call[c].at].package = Package(call[c].by)
  /\ Commit(call[c].at, Succeeded(c))
  /\ Chain(c)
  /\ UNCHANGED <<run, worker, stage, active>>

\* afterAction: the proposal of a target is announced to the reader, without a
\* journal entry, at the revision of the segment the worker is on by now.
Announce(c, kind) ==
  LET from == active[call[c].by]
  IN  announced' = announced \cup {<<from, seg[from].rev, kind>>}

\* The proposal names no target, or is announced.
Propose(c) ==
  /\ publishing = <<>> /\ call[c].pc = "proposing"
  /\ \/ Settle(c, "failed") /\ UNCHANGED announced
     \/ Settle(c, "proposed") /\ Announce(c, "proposed")
  /\ UNCHANGED <<run, worker, stage, state, active, journal, acked, published, queue>>

\* A target that is unknown or not authorized is rejected aloud; a source that
\* has ended by now throws.
RefuseHandoff(c) ==
  /\ publishing = <<>> /\ call[c].pc = "proposed"
  /\ \/ Announce(c, "rejected")
     \/ seg[active[call[c].by]].status # "active" /\ UNCHANGED announced
  /\ Settle(c, "failed")
  /\ UNCHANGED <<run, worker, stage, state, active, journal, acked, published, queue>>

\* transitionSegment: the segment the worker is on ends and the next one starts,
\* in a transaction of their own.
Handoff(c, p) ==
  LET w == call[c].by
      from == active[w]
      ended == [seg[from] EXCEPT !.rev = @ + 1, !.status = "handed_off"]
  IN
  /\ publishing = <<>> /\ call[c].pc = "proposed"
  /\ seg[from].status = "active" /\ from < MaxSegments
  /\ seg' = [seg EXCEPT ![from] = ended, ![from + 1] = NewSegment(p, ended.package)]
  /\ last' = from + 1 /\ active' = [active EXCEPT ![w] = from + 1]
  /\ journal' = Journaled(Inserted(journal, <<from, ended.rev, 1>>), from + 1, 0)
  /\ publishing' = << <<from, ended.rev, 1>> >> \o Events(from + 1, 0)
  /\ Settle(c, "done")
  /\ UNCHANGED <<run, worker, stage, acked, published, announced, emitted, deferred>>

-----------------------------------------------------------------------------
(* Publication: each event is written to run_events, then acknowledged. *)

\* RunEventRepository.append drops an event id it already has.
Emit ==
  /\ publishing # <<>> /\ ~emitted
  /\ published' = IF Head(publishing) \in ToSet(published) THEN published
                                                         ELSE Append(published, Head(publishing))
  /\ emitted' = TRUE
  /\ UNCHANGED <<run, worker, stage, state, active, call, journal, acked, announced, publishing, deferred>>

Acknowledge ==
  /\ publishing # <<>> /\ emitted
  /\ acked' = acked \cup {Head(publishing)}
  /\ publishing' = Tail(publishing)
  /\ emitted' = FALSE
  /\ UNCHANGED <<run, worker, stage, state, active, call, journal, published, announced, deferred>>

\* The process dies and the next one reclaims the run, unless it was suspended.
Crash ==
  /\ run' = IF run = "running" THEN "canceled" ELSE run
  /\ stage' = "none"
  /\ call' = [c \in All |-> IF InFlight(c) THEN [call[c] EXCEPT !.pc = "dead"] ELSE call[c]]
  /\ publishing' = <<>> /\ deferred' = <<>> /\ emitted' = FALSE
  /\ UNCHANGED <<worker, state, active, log>>

-----------------------------------------------------------------------------
Init ==
  /\ run = "new" /\ worker = 0 /\ stage = "none"
  /\ seg = [s \in Segments |-> Absent] /\ last = 0
  /\ active = [w \in Workers |-> 0]
  /\ call = [c \in All |-> [pc |-> "idle", by |-> 0, at |-> 0, name |-> "none", step |-> 0]]
  /\ journal = <<>> /\ acked = {} /\ published = <<>> /\ announced = {}
  /\ publishing = <<>> /\ emitted = FALSE /\ deferred = <<>>

Assemble == Restore \/ RunStarted \/ \E p \in Protocols : Start(p)

Conclude == AnswerCommitted \/ Decide \/ Complete \/ AnswerFails

Router(c) ==
  \/ Admit(c) \/ Reject(c) \/ Drop(c)
  \/ Throw(c) \/ Mismatch(c) \/ Return(c)
  \/ Propose(c) \/ RefuseHandoff(c)
  \/ \E p \in Protocols : Handoff(c, p)

Client == Claim \/ Resume \/ Suspend \/ Stop \/ \E c \in Calls, n \in {"tool", "handoff"} : Call(c, n)

Publish == Emit \/ Acknowledge

Next ==
  \/ Publish \/ Crash
  \/ Client \/ Assemble \/ Finish \/ Conclude
  \/ \E c \in All : Router(c)

Spec == Init /\ [][Next]_vars

\* A synchronous loop runs to its end, promises settle, and an agent stops
\* (its steps are bounded), though nobody has to cancel, suspend or resume.
Fairness ==
  /\ WF_vars(Publish)
  /\ WF_vars(Assemble)
  /\ WF_vars(Finish)
  /\ WF_vars(Conclude)
  /\ \A c \in All : WF_vars(Router(c))

FairSpec == Spec /\ Fairness

-----------------------------------------------------------------------------
SegmentStatus == {"none", "active", "handed_off", "terminal"}
ActionStatus  == {"none", "requested", "rejected", "failed", "succeeded"}
CallPc        == {"idle", "called", "executing", "proposing", "proposed", "done", "failed", "dead"}
Event         == Segments \X Nat \X {1, 2}
Phase         == {"understand", "gather", "answer"} \cup DOMAIN DataAnalysis.allowed

Segment ==
  [proto : Protocols, rev : Nat, status : SegmentStatus, phase : Phase,
   domain : SUBSET (Protocols \X WorkActions), package : 0..MaxWorkers,
   decision : {"none", "partial", "completed"}, action : [ActionId -> ActionStatus]]

ToolCall ==
  [pc : CallPc, by : 0..MaxWorkers, at : 0..MaxSegments, name : WorkActions \cup {"none"},
   step : 0..MaxAutomatic]

\* Every variable stays in its type.
TypeOK ==
  /\ run \in {"new", "running", "suspended", "completed", "failed", "canceled"}
  /\ worker \in 0..MaxWorkers
  /\ stage \in {"none", "assembling", "starting", "live", "answering", "deciding", "decided"}
  /\ seg \in [Segments -> Segment] /\ last \in 0..MaxSegments
  /\ active \in [Workers -> 0..MaxSegments]
  /\ call \in [All -> ToolCall]
  /\ journal \in Seq(Event) /\ acked \subseteq Event /\ published \in Seq(Event)
  /\ announced \subseteq Segments \X Nat \X {"proposed", "rejected"}
  /\ publishing \in Seq(Event) /\ emitted \in BOOLEAN /\ deferred \in Seq(Event)

\* The journal tells every revision of every segment, once, and nothing else:
\* no commit without its event, no event without its commit.
JournalExact ==
  /\ \A s \in Segments : seg[s].status # "none" =>
       \A r \in 0..seg[s].rev : <<s, r, 1>> \in ToSet(journal)
  /\ \A i \in DOMAIN journal :
       /\ seg[journal[i][1]].status # "none" /\ journal[i][2] <= seg[journal[i][1]].rev
       /\ \A j \in DOMAIN journal : journal[i] = journal[j] => i = j

\* What a client reads of the journal is a beginning of the commit history: no
\* event out of order, twice or skipped, through crashes, replays and resumes.
PublishedIsPrefix == IsPrefix(published, journal)

\* A run has one open segment, its newest, and its worker is on it.
OneOpenSegment ==
  /\ \A s \in Segments : s < last => seg[s].status = "handed_off"
  /\ \A s \in Segments : s > last => seg[s].status = "none"
  /\ last # 0 => seg[last].status \in {"active", "terminal"}
  /\ stage \in {"starting", "live", "answering", "deciding", "decided"} => active[worker] = last

\* An action recorded as requested is executing right now, unless its process
\* died: nothing is left open by a refusal, a failure or a handoff.
RequestedIsInFlight ==
  \A s \in Segments, c \in All, k \in 0..MaxAutomatic :
    seg[s].action[<<c, k>>] = "requested" =>
      \/ call[c].pc = "executing" /\ call[c].at = s /\ call[c].step = k
      \/ call[c].pc = "dead"

\* A run that completes a general task has its answer committed, or the newest
\* segment says that the task was left partial.
CompletedIsAnswered ==
  run = "completed" =>
    /\ seg[last].status = "terminal"
    /\ seg[last].proto = "general-task" /\ seg[last].decision = "completed" =>
         /\ seg[last].action[<<CommitCall, 0>>] = "succeeded"
         /\ seg[last].phase = "answer"

\* A worker that streams or completes owes no event: all that was committed,
\* also before the crash its run was resumed from, is published.
NothingOwed ==
  stage \in {"live", "answering", "deciding", "decided"} /\ publishing = <<>> => Pending = <<>>

\* The announcements are in no journal and never replayed, and yet in their
\* place: after the commit they stand on, a rejection after its proposal, and
\* before the start of the segment that a proposal led to.
AnnouncedInPlace ==
  /\ \A e \in announced :
       <<e[1], e[2], 1>> \in ToSet(published) /\ <<e[1], e[2], "proposed">> \in announced
  /\ \A s \in Segments : s > 1 /\ <<s, 0, 1>> \in ToSet(published) =>
       \E e \in announced : e[1] = s - 1 /\ e[3] = "proposed"

\* Every journaled event is published once and in its place, through crashes,
\* replays and resumes: never early, twice or out of order, and none is left
\* behind.  The announcements of handoffs are read in their place between them.
Published == PublishedIsPrefix /\ NothingOwed /\ AnnouncedInPlace

\* A segment that ended never gets another status.
EndedStaysEnded ==
  [][\A s \in Segments : seg[s].status \in {"handed_off", "terminal"} =>
       seg'[s].status = seg[s].status]_vars

\* A running run comes to rest, through every failure of its calls.
RunSettles == run = "running" ~> run # "running"


-----------------------------------------------------------------------------
(* What the repository says of the program, and it does not keep. *)

\* capabilities.md: a human interaction can be resumed.  A result of a resumed
\* worker is never refused because it is a resumed worker's.
ResumedRunCommits ==
  \A c \in All : call[c].pc = "executing" => seg[call[c].at].package = Package(call[c].by)
=============================================================================
