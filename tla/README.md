# DataFoundry: a TLA+ verification project

DataFoundry (`apps/`, `packages/`) is a data-analysis agent: a web and a
terminal client post a question to an API process, which runs an agent over
data sources, keeps every event of the run in SQLite, may suspend the run to ask
the user, and resumes it when the answer comes.  This directory models the
parts of it whose correctness depends on order: steps of several requests,
crashes between two writes, results that arrive after the state they were
computed for has moved on.

## Inventory

| Component | State | Operations | Talks to | What is hard | What makes it correct |
|---|---|---|---|---|---|
| Run lifecycle (`apps/api/src/server.ts`, `run-identity*.ts`, `stale-active-runs.ts`, `run-cancel-registry.ts`, `run-finalizer.ts`, `interaction-runtime-adapter.ts`) | run rows and interactions (SQLite); cancel handles and workers (memory) | claim, replay, resume, set up, stream, interrupt, finish, cancel, reclaim, restart | protocol runtime, event pipeline, clients | no lock but the synchrony of the code between two awaits; crashes; lost clients | one worker per run, an exact registry, a suspended run keeps its question, rows never stay running for ever |
| Protocol runtime (`packages/agent-runtime/src/protocol`, `capabilities`) | snapshots with a revision, event journal (SQLite); current runtime, segment, deferred events (memory) | begin / reject / settle an action, hand off, complete, publish, replay, restore | metadata store, event pipeline, tools | parallel tool calls, calls that outlive their worker, a crash between commit and publication | journal = history, what is published of it a prefix, announcements of handoffs in their place, one open segment, no action left open |
| Data-analysis protocol (`protocols/data-analysis.ts`) | the domain state of a segment | 13 action reducers, phase transitions, completion policy | runtime, semantic provider | plans, validations and evidence that become stale | a decision rests on the query planned last, a claim on bound evidence, a report on claims |
| Protocol routing | none | rank and pick a definition | classifier model | ties, missing definitions | deterministic, never unauthorised |
| Run events (`run-event-pipeline.ts`, `tool-call-result-bridge.ts`, projectors, `trace-section-coordinator.ts`) | `run_events`, delivered tool results, trace sections | emit, deduplicate, project, checkpoint, summarise in sections | everything that emits | three sources of one result, a late flush, a log that grows under its summariser | each result once, nothing of the run after the end its finalizer writes, sections that tile the log |
| Metadata store (`packages/metadata`) | all rows | transactions, compare-and-set, sequences | every component | partial transactions, contention, limits | a conditional write loses no update; see also the users of the rows |
| Conversation memory, branching, titles (`conversation-memory.ts`, `session-branching.ts`) | messages, drafts, summaries, branches | say, persist drafts, summarise, branch, delete | finalizer, web client | timeouts, late summaries, conversations that go on under a branch | no message passed over, a branch is a fixed prefix |
| Context engine | context packages and plans of a run | merge, select, budget | tools, runtime | identity and revision of a package | one lineage per run, budget kept |
| Tools and streams | caches, workspaces | governed execution, SQL guard, normalisation | router, gateway | aborts, parallel calls | every tool goes through the router |
| Configuration API | revisions, profiles, jobs | CRUD with revisions | all | concurrent edits | no lost update |
| Authentication | users, sessions, one-time tokens | login, register, reset | mail service | replays of a token | a token is used once |
| Knowledge (`packages/knowledge`) | documents, chunks, vectors | ingest, reindex, delete, retrieve | embedding service | requests that meet between two batches, deletions, crashes | the status of a document matches its vectors |
| Data gateway, files, artifacts, skills, semantic layer, providers | connections, assets | connect, reference, collect | external services | failing middle steps | a referenced asset is kept |
| Terminal client | session file and its lock, transcript | login, save, restore | API | two processes, stale locks | one writer of the file |
| Web client | transcript, branches, queue of prompts | render, restore, queue | API | events after restore | the same view live and restored |

The components, their sources and their status are in `PROJECT.json`, with the
hazards of the code and the properties that watch each of them.

## Plan

1 to 10 are done; the order is that of importance.

1. `RunLifecycle`, `RunLifecycleProofs`: the run row and its workers.
2. `ProtocolRun`, `ProtocolRunProofs`: the governed run, its journal and handoffs.
3. `DataAnalysis`, `DataAnalysisProofs`: the domain reducer, phases,
   completion policy and action chains of data-analysis.
4. `ActionLedger`, `SharedSegment`, `SharedSegmentProofs`: a segment written by
   several processes, and the atomic ledger it implements.
5. `RunEvents`, `RunEventsProofs`, `TraceSections`, `TraceSectionsProofs`: the event log of
   a run and what is made of it while it grows.
6. `Conversation`, `SessionFile`, `DurableProofs`: what outlives a run, at the
   server and in the terminal.
7. `KnowledgeBase`, `KnowledgeBaseProofs`: documents and their vectors.
8. The governed run for every bound (`ProtocolRunProofs`); the phases, the decision
   and the evidence of data-analysis for every width of a turn.
9. The events of a run, its sections, its conversation and the knowledge base for
   every bound.
10. `RunLease`, what the life of a run promises to the rest, with `RunLifecycle` as its
    implementation.
11. Pure operators against reference definitions: protocol ranking, step
    planning, checkpoint projection.

Every module `M` with a run has its instance in `MCM` and its configuration in `M.cfg`. What
the repository says of the program and the code does not keep is a definition of its own, at
the end of the module: three of them are findings, each with a configuration named for it
and a run that expects the violation; see "What the code does not keep". The modules share
no variable: they meet in the rows they model, each with what it needs of the others as free
steps.  `ProtocolRun` has the claim,
suspension and end of `RunLifecycle`; `RunEvents`, `TraceSections` and
`Conversation` have its stages; `SharedSegment` has the commits of `ProtocolRun`
without its atomicity.

## Run lifecycle: `RunLifecycle.tla`, `RunLease.tla`

`RunLease` is what the life of a run promises: one worker at a time holds a run and begins
on one that is new or waits for an answer, only a worker makes it wait, and a run
that is over and has no worker stays over.  `RunLifecycle` is how it is kept, by a row, a
question, a registry and the memory of each request.

**State.** `status`, `reason`, `startedAt` and `interaction` are columns of
`runs` and `interactions` and survive a crash.  `up`, `handle` (the
`RunCancelRegistry`), `pc`, `runOf`, `mode`, `call` and `connected` are the
memory of the process, kept for each POST.

**Steps.** Node runs the code between two awaits without interruption and
SQLite is called synchronously, so such a stretch is one action:

| Action | Code |
|---|---|
| `RejectRequest`, `ReplayRun`, `RejectClaim`, `ClaimRun`, `ResumeRun`, `RefuseResume` | `resolveRunIdentity` and what leads to it, with the reclaim of `resolveLiveSessionActiveRun` |
| `Register`, `Subscribe`, `SetupFails` | the setup in `run()`: the registration after the awaits, the subscription, `run().catch` |
| `Interrupt`, `ToolAnswered`, `FinishDeclined`, `FinishAgent`, `AgentFails` | the handlers of the agent's stream |
| `Teardown` | the end of a stream that has asked: its worker is `parted` from the run, and its second `unregisterCancel` may come when the next worker of the run has registered |
| `Complete`, `CompletionFails`, `Close` | the finalizer after its awaits |
| `CancelLive`, `CancelPersisted`, `ReadSession`, `Disconnect`, `Crash`, `Startup` | the cancel route, session readers, the subscriber's teardown, the process |

A status `queued` is never written by this code and is left out. User texts,
fingerprints and events are data: the guards they decide are free choices
between the actions (a POST may be rejected for a fingerprint or a configuration
at any time).

**Checked.** `RunLifecycle.cfg`: three requests (one with blank text, whose
failures leave no trace), two runs of one session, two questions, restart limit
at the number of runs, all under fairness.  Runs differ in nothing but their name, and so do
the requests with a text, so of each behaviour and its renamed copies one is checked
(`InOrder` of `MCRunLifecycle`: `q1` is the first of them to begin, `r1` the first to be
claimed; no request becomes idle again and no row goes, so a renaming meets it for
good).  Two runs are enough for a lock and a reclaim, three
requests for a claim and two competing resumes, or a claim, a duplicate and a
second run; sessions do not share state.  The safety properties are proved for any number.

- `OneWorkerPerRun`: nothing in memory guards a run, only the claim's insert and
  the suspended row do.
- `RegistryExact`: a handle exists exactly from registration to unregistration.
- `SuspendedKeepsQuestion`: a suspended run has a pending question and no worker.  This is not
  to say that it can be answered: see `SuspendedCanResume` below.
- `Leased` is `Lease!Spec` under the mapping `state[r] <- StateOf(r)`, from the status, and
  `holders[r] <- WorkersOf(r)`, the requests that work on `r`.  One step may move several
  runs: a claim reclaims others, a crash takes all workers.
- `WorkerEnds`, `CrashReclaimed`: every claimed request ends, and a row that a
  crash leaves running does not stay so.

A worker that is canceled while it is registered, before it streams, is `halted`: its setup
goes on, and fails or closes after its row was canceled.

Fairness is weak, for the worker of each request (its setup, stream and finalization, of which
one at a time is enabled) and for the restart: promises settle, the agent's stream ends (by the run timeout of server.ts:1075
where one is set, by the model provider where none is), and a process manager restarts the API.  Clients, cancels and crashes get none.

**Proved** (`RunLifecycleProofs.tla`), for any sets of runs, sessions, requests
and calls and any session assignment: `TypeOK`, the three safety properties above, `Leased` and
`SuspendedNeverReclaimed` (no claim, reader or restart reclaims a suspended run).  None is inductive alone.  `IInv` adds what holds the argument together: a working
request names a run whose row exists, a suspended row has no working request,
and a request that is registered or live owns its run's handle.  Claims need
"row absent, so no worker"; resumes need "suspended, so no worker"; every other
step lets a worker go (`Departs`), touches no worker (`RowsOnly`), or neither
(`Quiet`).  The assumptions are those named in `RunLifecycle`; TLC evaluates
them on its instances.  For `Leased` each action is mapped to one step of every run, by the three
shapes a run's part of it can have: its row settles under whoever holds it, its
worker goes, or nothing happens to it; a claim or a resume, and an interrupt, are in
addition a `Begin` and an `Ask`.  That a run whose worker goes
has no other is `OneWorkerPerRun`.

**Does not hold**:

- `OneLiveRunPerSession`: a run has no handle while it is
  set up and while it is finalized, so a reader or a second POST reclaims a run
  that is alive.
- `CancelIsFinal` (`CancelOverwritten.cfg`): a run that the user cancels while it finalizes
  becomes completed.  The rows that a reader or another claim reclaims are not counted here:
  that they can be completed too follows from `OneLiveRunPerSession`.
- `SuspendedCanResume` (`SuspendedLocked.cfg`): two runs of one session, of which one was reclaimed
  in its setup, can both be suspended; each refuses the other's resume, and nothing works in
  the session.

The model also shows, without a run of its own: a refused POST of a run id that is
taken fails the row of the run that owns the id, whatever its status
(`RejectRequest`, server.ts:128); canceling a suspended run leaves its question
pending (`CancelPersisted`), which revives nothing (`Leased`).

**Not modelled**: a resume that names a run without a row (it goes on as a
claim); the microtask of `cancelRun` between the registry and the row, taken as
one step; a question event that cannot be written before `finalizer.suspend`.

## Protocol run: `ProtocolRun.tla`

**State.** `seg` (protocol snapshots), `journal` with `acked`, and `published`
(protocol events among `run_events`) are rows.  `run`, `worker` and `stage` tell
where the run is: they are the projection of `RunLifecycle` that this module
needs, with a setup, a stream and a completion.  `announced` are the proposals and rejections
of handoffs, which are published to `run_events` and are in no journal; each is kept
with the segment and revision it was announced at.  `active`, `call`, `publishing`,
`emitted` and `deferred` are memory: the segment a boundary is on, the calls of
`ActionRouter.execute`, the loop that delivers events, and the events that wait
for `RUN_STARTED`.

A segment's `domain` keeps which result was folded in by which protocol's
reducer, its `action` the status of each action id, its `package` the identity of
its context package.  General-task is translated; data-analysis is the constant
`DataAnalysis`, given two of its phases by `MCProtocolRun`.

**Steps.** A commit (`Commit`: snapshot and journal in a transaction) and its
publication (`Emit`, `Acknowledge`, event by event) run without an await, so
while `publishing` is not empty only a `Crash` can intervene.

| Action | Code |
|---|---|
| `Claim`, `Resume`, `Start`, `Restore`, `RunStarted` | claim, replay of pending events, `createRunProtocolBoundary`, flush of deferred events |
| `Call`, `Admit`, `Reject`, `Drop`, `Throw`, `Mismatch`, `Return` | `ActionRouter.execute` around its awaits, with `beginAction`, `recordAction*` |
| `Chain` | automatic and preparatory actions, on the segment the call was made on |
| `Propose`, `RefuseHandoff`, `Handoff` | `afterAction`, after the commit of the proposing call: the announcement of the proposal, then either its rejection, announced as well, or the transaction of `transitionSegment` |
| `Suspend`, `Finish`, `AnswerCommitted`, `Decide`, `Complete`, `AnswerFails`, `Stop` | interrupt, `completeProtocolRun`, `failRun` / cancel / reclaim |

Three facts about the framework around the code are used: the stream finishes
after the worker's own calls are over; suspending does not stop the other calls;
a proposed handoff only awaits settled promises, so it is over before another
request can resume the run.

The commit of a proposing call and that of its handoff are two transactions, and what is
announced between them is not replayed: a crash may leave a proposal without a handoff,
and the other calls of the turn may commit before the announcement.

**Checked.** `ProtocolRun.cfg`: two calls and the answer commit, three segments,
one resume, three actions per segment (so the budget is met), one automatic
action.  Two calls give the parallel pair (handoff against tool, handoff
against handoff), two workers the call that outlives its worker.

- `JournalExact`: the journal is the history of every segment, revision by
  revision.
- `Published`: what was published *of the journal* is always a beginning of it
  (`PublishedIsPrefix`), and a streaming worker has published all of it (`NothingOwed`), crashes
  between commit, emission and acknowledgement included.  The announcements, which
  no journal has, come after the commit they stand on, a rejection after its proposal, and
  a segment is never read before the proposal that led to it (`AnnouncedInPlace`).
- `OneOpenSegment`, `EndedStaysEnded`: handoffs form a chain with one open end,
  where the worker is.
- `RequestedIsInFlight`: no refusal, failure or handoff leaves an action open.
- `CompletedIsAnswered`: a general task that completed has committed its answer.
- `RunSettles`: a running run comes to rest.

Fairness is weak for publication, assembly, stream end, completion and each
call's router steps, which end in promises that settle; the client's steps,
suspensions and crashes get none.

**Does not hold**:

- `ResumedRunCommits` (`ResumedCommits.cfg`): a resumed worker has a context package of a new identity,
  so the restored segment refuses all its results; a resumed general task ends
  failed at its answer commit.  `CompletedIsAnswered` and the rest are checked
  with this behaviour in the model.

**Proved** (`ProtocolRunProofs.tla`), for any calls, workers, segments, budget and
data-analysis definition: `TypeOK`, the five safety properties above and `EndedStaysEnded`.
None of the invariants but the type is inductive alone.  `IInv` adds

- `Control`: which stages need a running run, a worker and a segment, and that the
  answer commit is made once;
- `CallOk`: a call in flight was made on a segment its worker was on, by a worker that
  has only gone on from there, and a handoff is made by the newest worker only;
- `AnswerOk`: once the answer is folded in, nothing records its action again, and the
  newest segment of a general task stays in its last phase;
- `LogOk`: the log has a point `k` up to which entries are acknowledged, behind which
  those being published come next, and up to which, or one more, a reader has seen
  them; while something is alive that can commit, no entry is left behind;
- `DeferredOk`: nothing commits while the first events wait for `RUN_STARTED`;
- `HandoffOk`, on top of them: one call at a time is between the proposal and the decision of a
  handoff, a proposal that was made is announced at the revision of the moment, and each
  segment but the newest has one.  It needs that all commits have been read when a
  proposal is announced (`AllRead`), which `LogOk` gives.

A commit's entry is new because its revision is the next one of its segment
(`JournalExact`), and it comes last because a commit publishes to the end before the
next.  `BoundsAreNat` says that the bounds are numbers; `DataAnalysisDefined` is what
`validateProtocolDefinition` refuses a definition for: the initial phase and every
target are phases.

A call in flight at a handoff is admitted to, recorded on and folded into the
segment that ended: `EndedStaysEnded` promises the segment's status only.

**Not modelled**: commits contended by another process and a publication that
throws (both in `SharedSegment`), the idempotency cache, the completion deadline
other than as the choice of "partial", and the payloads of events (two stand
for the two to five of a commit).

## Data analysis: `DataAnalysis.tla`

One segment of the data-analysis protocol in full, where `ProtocolRun` gives it
two phases and an opaque domain.

**State.** `phase` and `dom` (`DataAnalysisState`) are what the runtime commits
with each action.  `call` holds the agent's tool calls, each at an action of its
chain: `checking` (before the awaits of the boundary's checks), `called` (before
`beginAction`), `executing`, `recorded` (before the next action is chosen),
`over`.  A query attempt names its call, and the artifact of a query is named
after its call, so that mixing two up is visible.  `outcome` is the decision.

**Steps.** The code between two awaits of `ActionRouter.execute` is one action:

| Action | Code |
|---|---|
| `Turn` | the agent framework (external): the tool calls of a step run concurrently, the next step waits for them |
| `Check`, `Begin`, `Fail` | `assertCurrentQueryContract`, `assertRequirementsCommittedBeforeReport`; `beginAction`; every refusal or error, which ends the chain |
| `Inspect`, `Resolve`, `Ground`, `Plan`, `Validate`, `Run`, `VerifyResult`, `Bind`, `Commit`, `Other` | `recordActionSuccess`: one case of `reduceDataAnalysisAction`, the transition it enables, and the next action of the chain |
| `ChainGround`, `ChainVerify` | `dataAnalysisAutomaticActions` after an await, from the state of the moment |
| `Decide` | `proposeCompletion` with `forceTerminal`, after the last turn |

The checks of SQL, of results and of values are free verdicts, as are the modes
of the semantic provider chain.  Trust and datasource revision, which the code
compares as it compares the mode, are folded into it.  The action budget and the
policies appear as `Fail`.

**Checked.** `DataAnalysis.cfg`: two requirements (one with a structured
assertion, one a decision, which may borrow evidence of any other), two modes,
four tool calls, two per turn.  Four calls suffice for inspect, two concurrent queries
and a commit or a report; with two requirements a query can support one, the
other or both.  Two calls in a turn are what the framework may run at once
and the smallest number at which actions return in a phase they were not admitted in.
The run ends at the decision, hence `CHECK_DEADLOCK FALSE`.

- `PhaseSound`: the phase is late only over a query that was executed since the last
  plan, whose artifact is evidence, whatever calls return in another phase.
- `DecisionIsCurrent`: a completed run rests on the query planned last, which is
  valid and has a result that came after its plan, and on a supported claim
  for each requirement.
- `EvidenceInOrder`: evidence is bound for the requirements of the query it is bound to, and
  to no query planned before its own.
- `ClaimsRest`: a reported requirement has a claim with bound evidence, for a
  structured one evidence of a query planned for it.
- `ReportAfterClaims`: when the report is written every requirement has a supported claim,
  whatever was planned, grounded and committed between the check and the write.

**Does not hold**, because the state has one current attempt for all queries of a turn:

- `ContractBeforeQuery`: a query is executed on the verdict over another
  query that was planned after it.
- `DecisionHasOwnEvidence`: a run is completed on a query that has
  no evidence of its own, but that of the query before it.

**Proved** (`DataAnalysisProofs.tla`), for any requirements, modes, number of
calls and width of a turn: `TypeOK` and the five properties above.  `ClaimsRest` is not
inductive: a grounding carries a copy of the requirements over an await and puts
it back.  `SnapshotsRest` adds that such a copy reports only what has a claim,
which holds because claims, bindings and attempts are never dropped (`Keeps`).
Every other record reports nothing (`Follows`), but `Commit`.

The rest is `QInv`, which says what the calls of a turn keep although they share the
attempt: the flags of the state speak of the last attempt (`LastRests`), a call past its
plan has an attempt (`HasPlan`, so what it binds is in order, `InOrder`), a call that
writes the report has seen all claims (`Writes`), and every plan leaves the late phases
(`LateLeft`), which are entered only with a result (`LateKept`).

The model also shows: the late copy of the grounder takes back what was recorded in
between, so a requirement may fall back to an earlier status (its claim stays); and a later
inspection whose semantic mode differs revokes the grounded contract in a phase that
cannot ground it again, so that the run can only end partial.

**Not modelled**: the links of tasks to requirements, results without an
artifact, `list_data_sources` and the semantic graph tool (they change no state
that differs from the modelled tools'), and handoffs, which `ProtocolRun` has.

## A segment of several processes: `SharedSegment.tla`, `ActionLedger.tla`

`ActionLedger` is what a segment promises: each record of an action is one
atomic step on the latest state, within the budget of that moment, a result is
folded into a domain that has all results before it, and the completion is
decided on the domain as it then is.  `SharedSegment` is how it is kept by
processes that share a database and no memory.

**State.** `row` is the snapshot.  Each writer (a call, or the completion) has an
operation `op`, a step `pc`, the snapshot `copy` it has read, its conflicts so far
`attempt`, and `told`, what its caller is or will be told.

| Action | Code |
|---|---|
| `Start`, `Execute` | `ActionRouter.execute` up to its first commit; the tool, which returns, throws or returns what cannot be processed |
| `Read`, `Write`, `Conflict` | an attempt of `commitWithRetry`: read and admission, `compareAndSet`, `PROTOCOL_REVISION_CONFLICT` |
| `Publish` | the publication after the commit, which may throw |
| `Propose`, `Die` | `proposeCompletion` (a single attempt); the process dies |

**Checked.** `SharedSegment.cfg`: three calls and a completion, two attempts each,
room for two actions: enough for a lost race, an exhausted retry and a budget
taken by another writer between read and write.

- `Atomic` is `Ledger!Spec` under the mapping `status <- row.status`,
  `folded <- row.folded`, `basis <- row.basis`.
- `ToldTruly`: what a caller is told agrees with the record.

**Proved** (`SharedSegmentProofs.tla`), for any calls, budget and number of attempts:
`TypeOK`, `ToldTruly` and `Atomic`.  The invariant says that a copy as old as the
row is the row and was admitted (`CopySound`): a conditional write then replaces
exactly the state its result was built from, which is the whole argument for the
refinement.  `CallOk` relates a call's operation, step and answer to its record, and
`DomainOk` the domain to the records.

The model also shows: a publication that throws after the commit makes a
succeeded action "uncommitted" to its caller and a begun one "not started"; an
action whose retries are exhausted stays requested although it was executed.

**Not modelled**: handoffs and phases (`ProtocolRun`), and the idempotency cache,
which is keyed by tool call ids that do not repeat.

## Run events: `RunEvents.tla`

**State.** `log` is `run_events` in order: type, tool call, and the pipeline that
wrote it.  `cur` and `stage` are the pipeline and stage of the current worker;
`tool` and `startedBy` what the runtime does with each call and for which
pipeline; `delivered`, `awaiting` and `named` the memory of each pipeline
(delivered results, the bridge's calls without a result, the plan projector's
calls); `memory` and `title` the two background tasks.

| Action | Code |
|---|---|
| `StartTool`, `EndCall`, `StreamResult`, `ToolReturns` | the agent's stream, and the governed tool that emits its own result through the pipeline it was started with |
| `ResumeFails` | the result of a resumed call whose interaction cannot be resolved: RUN_ERROR through the pipeline, with the markers it flushes, without a status; the stream goes on (server.ts:940-957) |
| `Ask`, `Resume` | the interrupt handler; the pipeline of the resumed run |
| `FinishAgent`, `MemorySettles`, `MemoryTimesOut`, `ReportStatus`, `Close` | `RunFinalizer.complete` between its awaits |
| `FailRun`, `Decline`, `CancelRun`, `Disconnect`, `TitleReady`, `Crash` | the other ends, the title task, the process |

**Checked.** `RunEvents.cfg`: two calls, one governed and of the task tools, and one
resume.  Two calls are the smallest number with a governed result beside one of
the stream, and one resume makes a tool outlive its pipeline.

- `ResultsSettled`: at a terminal event, and at the RUN_ERROR of a resume that fails, each call
  that the pipeline saw end has a result, its own or a marker; no call ever has two
  but one that such an error gave up, which can still ask and run again.
- `TerminalEndsRun`: a status comes before the end that the finalizer writes, and only a title, a
  plan or the result of a call the pipeline never saw end comes after it; a memory flush
  that timed out says nothing more.

**Does not hold**:

- `OneTerminalEvent`: the RUN_ERROR of a resume that fails is a terminal
  event past the finalizer, and the run goes on to another one.

**Proved** (`RunEventsProofs.tla`), for any calls, any governed and task tools among them
and any number of pipelines: `TypeOK` and both properties.  The log only grows, so the
invariant `EInv` has to say what a step may still append.  `DeliveredOk`: only the pipeline
a call was started with can deliver another result of it, and that pipeline remembers
the first.  `AwaitingOk`, `EndsOk`: every end the current pipeline has seen is settled or
awaited, by a call that is not over; so the markers of a terminal event settle exactly
what is left.  `Settled`: what the pipeline of a terminal event saw end has its result
before it, so that a result which comes later is of a call it never saw end.
`StageOk`: a terminal event of the finalizer leaves no stage that writes another, and the
closing stage has its status.  The calls that a RUN_ERROR in mid-stream marked as not
delivered (`GivenUp`) are excepted wherever the invariant says that a call with a result is
over; they stay excepted, for the log keeps both the marker and the error.

The model also shows: a call that a suspended pipeline saw end gets no marker
if the resumed run ends first; the dropped late result of a task tool still
emits its plan after the terminal event.

**Not modelled**: text and context events, the DAG and the checkpoints derived from
the rows, `interaction.resolved`.

## Trace sections: `TraceSections.tla`

**State.** `log`, `cur` and `stage` as above, reduced to context steps, others and
terminals; `sections` are the rows; `due` and `job` the pending range of each
coordinator and the range it is having summarised.  `overlapped` is history: two
coordinators have been at work on the run at once.

`Summarize` is `summarizeRange` up to its call of the model, `Summarized` the rest;
the log grows between them (`Record`, `Finish`, `FinishAgain`, `WriteLate`).

**Checked.** `TraceSections.cfg`: a check every two context steps, chunks of one,
sections of two, five events, one resume: a range is chunked, left over, merged
and closed.  Fairness is weak for each coordinator: the call of the model settles,
and a failed one ends in the fallback summary.

- `SectionsTile`: no gap, no overlap, only the last section open.
- `TraceCompletes`: the trace of a run that ended is completed up to its end.

Both are for runs that no two coordinators worked on at once.

**Does not hold**:

- `TerminalIsCovered`, what the smoke test of the sections asserts of an ended
  run: after a resume the coordinator of the suspended worker is not stopped, its late
  summary overwrites the completed section of the resumed run, and the final section
  is open and without the terminal event.

**Proved** (`TraceSectionsProofs.tla`), for any phases, pipelines and limits on checks,
chunks and sections: `TypeOK` and `SectionsTile`.  The coordinator writes back, extended,
what it read before the call of the model; `JobOk` says that meanwhile its range still
begins where the sections end, and its latest section is still the latest.  Its own
steps keep that.  Another coordinator could break it without being counted as at work,
by closing the trace when no context step is left (the second case of `Summarize`,
which calls no model).  `DueOk` excludes it: only the current coordinator is told of the
terminal event, all ranges of others end before it, and such a range has context steps,
which the current one would find left.  That a chunk is never empty and stays in its
range (`Chunk`) rests on a set of more than `m` numbers having one with `m` before it
(`Nth`).

## Conversation: `Conversation.tla`

**State.** `session`, `branch`, `messages`, `summaries` and `run` are rows; `worker` is who
works on a run in memory, whatever its row says, and `job` the summary it is having
made.

| Action | Code |
|---|---|
| `Ask`, `Suspend`, `Resume`, `Fail`, `Finish`, `Complete` | the run, as far as it writes messages; `persistEarlyFailedUserMessage` for a refused one |
| `Abandon`, `Reclaim` | the worker that goes and leaves its row; the row that a reader, a second POST or a cancel ends while its worker goes on, with drafts, a summary and a status still to write |
| `Summarized`, `FlushTimesOut` | `createAutomaticConversationSummary` after its await; the flush's timeout |
| `Branch`, `Delete` | `createSessionBranch` with its fork positions; the deletion with all descendants |

`Lineage(s)` is the least set of sessions that has `s` and the parent of each of its
branches: the same as the recursion of `resolveSessionLineageInner` (`LineageRecursion`), in
a form that can be proved about.  `Inherited(s)` is what the branch sees of its
ancestors, a segment for each branch of its lineage.

A flush stores all drafts of the run that are not there yet, one after the other
(`Drafts`), up to the bound on messages.

**Checked.** `Conversation.cfg`: two runs, a session and two branches (so a branch
of a branch), two questions, four messages in a session, with a window of two,
a trigger of two and one message kept.  Two runs are a run that is rewritten, with
a worker that goes on, and another one at work in the branch or the same session.

- `SummaryCovers`: a summary speaks for every message of its range, but those that
  had left the window before any summary was made.
- `BranchBeforeRun`: a branch inherits no message of the run it rewrites, but, from
  a checkpoint, its question, although the worker of a run that was reclaimed writes more of it
  after the branch was made; its ancestors live, and it is none of them.
- `BranchFrozen`: what a branch inherits does not change while it lives.

**Proved** (`DurableProofs.tla`), for any sessions, roots, runs, questions and limits
(with fewer messages kept than trigger a summary): `TypeOK`, both invariants and
`BranchFrozen`.  The invariant `CInv` adds

- `MessagesOk`: a message is of a run of its session, and a run's question is its
  first message, although a question that is sent again gets no second row;
- `BranchOk`: a branch and its parent live, the rewritten run is of the parent, the fork is a
  position the parent has reached before anything that run wrote but its question, and a
  branch is not in the lineage of its parent;
- `SummariesOk`, `JobOk`: what `SummaryCovers` says holds of each summary, and of one that is
  still being made unless its rows are gone;
- `WorkerOk`: work is done on a run that was accepted and not deleted, whether its row
  has ended or not.

Every step but a branch or a deletion lets conversations only grow (`Grows`), which keeps
whatever was said of a prefix (`WorkKept`).  A new branch is in no lineage but its own, since
lineages are live (`LiveLineage`, `BranchLineages`); a deletion takes a session with all
whose lineage has it, so that whoever is left keeps its lineage (`SurvivorsKin`, from
`KinSame`: a lineage depends on its own branches only).  `BranchBeforeRun` needs that
the branches form no cycle: a segment further up could be of the same session only
through a branch that is its own ancestor.  `SummaryMade` computes the range of
a summary: the messages counted lie between the last summary or the window and the
end, and all up to the `KeepRecent` last are read.  That sets of numbers have least and
greatest members, on which the fork positions and `Latest` rest, comes from the
library's well-foundedness of `<` (`Least`, `Greatest`).

The model also shows: a refused POST stores its question; a client that
retries it resends the message's id (data-tasks-app.tsx:585), the row of the
refused run is kept, and a branch that rewrites the second run starts after the
question it should rewrite.  Summaries are not used in branch sessions, and
messages beyond the window of an unsummarised session are lost to the summary.

**Not modelled**: the text of summaries, long-term memories (rows without a reader
in the run), the projection into a prompt, a POST that repeats a run's id in another session.

## Terminal session file: `SessionFile.tla`

**State.** `lock` and `file` are the two files, `pc`, `call` and `copy` the operations of
`TuiSessionStore`, each in a terminal of its own.  `saved`, `stale` and `usurped` are
history: what was written last for each server, whether some lock was left or
held for too long, whether the lock of an operation at work was removed.

Each file system call is an action (`OpenLock`, `WriteLock`, `CheckLock`, `ReclaimLock`,
`ReadFile`, `Quarantine`, `ReplaceFile`, `CheckOwn`, `ReleaseLock`), with `TimeOut`; `Throw` is a call
that fails in the critical section and goes on to the release; the faults are `Age` (ten seconds pass with the lock held) and `Die`.

**Checked.** `SessionFile.cfg`: three terminals (a holder, and two that reclaim) and two
servers, up to the first lock removed under its owner (`BeforeUsurped`, after which
the properties claim nothing).

- `OneHolder`: only the owner of the lock works on the file, until its lock is
  removed, which needs a lock left or held for too long.
- `SavesMerge`: what was written for one server is kept by the writes for the others.

**Does not hold**:

- `ConcurrentSavesMerge`, the same without the exemption and with no lock held for
  ten seconds by a living terminal (`InTime`): of two terminals that find the lock of a dead one
  stale, the second removes the fresh lock that the first has made since, two work at once, and a save is lost.

The definitions that would meet those of `Conversation` in `DurableProofs` are named for
the file: `FileInit`, `FileNext`, `FileSpec`, `FileTypeOK`.

**Proved** (`DurableProofs.tla`), for any terminals and servers: `FileTypeOK` and both.
`FileInv` adds that a live lock belongs to an operation in its critical section
(`OwnerInside`), that whoever is about to reclaim has seen a stale lock
(`StaleSeen`), and that a writer's copy is the file (`CopyFresh`): the file changes
only by its one holder.

The model also shows: a terminal that dies between
creating the lock and writing its payload leaves a lock nobody reclaims, and every
later operation times out; `releaseLock` removes a lock it cannot parse.

**Not modelled**: a `close` or a release of the lock that itself fails, which leaves the lock of
a living terminal.

## Knowledge base: `KnowledgeBase.tla`

**State.** `status`, `chunks` and `vectors` are the rows of one collection, `config` what
a request would resolve as its embedding configuration, `task` what each request
still has to embed and for which documents it will speak.  `blurred` is history:
whether two requests met on a document, or a crash interrupted one, since the
last reindex that met no other.

| Action | Code |
|---|---|
| `Ingest`, `ReindexDocument`, `Reindex` | `ingestText`, `reindexDocument`, `reindex` up to the first call of the embedding service |
| `Embedded`, `EmbeddingFails` | one batch of `indexRows` after its await, with the end of the request |
| `DeleteDocument`, `DeleteBase`, `Configure`, `Crash` | deletions, the resource and its secret, the process |

**Checked.** `KnowledgeBase.cfg`: three requests at a time, two documents of up to
three chunks, batches of two, so that a batch spans documents and a request
takes up to three of them.

- `StatusMatchesVectors`: a failed document on which nobody works has no vectors,
  however requests collided (an insert of a vector that is there throws, and
  the request clears what it works on) unless a crash interrupted one; one on which no two
  requests met has all or none when it is ready, and none when it is gone.

**Does not hold**, where requests do meet:

- `DeletedIsGone`: a document that is deleted while it is embedded leaves
  vectors, with its text, that search finds (upload, delete, answer), although index.ts:123
  promises that it cannot resurface.
- `ReadyMatchesVectors`: an upload and a reindex that meet on a document can
  leave it ready with part of its vectors, although index.ts:210 wants the "status
  matches vector state".

**Proved** (`KnowledgeBaseProofs.tla`), for any documents, chunks, requests and batch:
`TypeOK` and `StatusMatchesVectors`, document by document.  Of a document that is not
blurred, the one request that works on it has stored or still awaits every chunk, and no
other (`WorkOk`), so that it is complete when the request speaks for it and empty when
the request clears it; at rest it has all its vectors or none (`RestOk`); a document that
has never been has nothing, awaited or stored (`GoneOk`); and only a crash leaves vectors
of a failed one (`FailedOk`).

The model also shows: a document whose reindex a crash interrupts can stay ready with part
of its vectors; an upload whose secret cannot be read stays indexing for ever, as does one
that a crash interrupts.

**Not modelled**: a crash between the statements that store or delete one document
(they are not in a transaction), retrieval, vectors of different models in one
collection, the config job of a reindex and the revision of the resource.

## What the code does not keep

Statements of the repository, each a definition at the end of its module with the quoted text in
its comment.  The first three are findings, with a run that expects the violation.  The
others are in no configuration; TLC refutes each in seconds when it is the INVARIANT of
the configuration of its module, in place of what is listed there (`ConcurrentSavesMerge`:
with the CONSTRAINT `InTime` in place of `BeforeUsurped`).

| Definition | Shortest counterexample |
|---|---|
| `SuspendedCanResume` (`SuspendedLocked.cfg`) | two claims, the second reclaiming the first in its setup; both stream, both ask: 8 steps |
| `CancelIsFinal` (`CancelOverwritten.cfg`) | claim, register, stream, finish; cancel of the row; complete: 6 steps |
| `ResumedRunCommits` (`ResumedCommits.cfg`) | a resumed worker's first result meets another package |
| `RunLifecycle!OneLiveRunPerSession` | two claims, two registrations, two streams: 6 steps |
| `DataAnalysis!ContractBeforeQuery` | ground; two plans in a turn, one verdict, the query of the other call: 17 steps |
| `DataAnalysis!DecisionHasOwnEvidence` | the same, its result verified and bound, the second query failing, commit and decision: 28 steps |
| `RunEvents!OneTerminalEvent` | ask, resume, the tool returns, its interaction cannot be resolved, the run fails: 6 steps |
| `TraceSections!TerminalIsCovered` | two context steps, suspend and resume, the end; the resumed worker's summaries, then the late one of the suspended worker: 12 steps |
| `SessionFile!ConcurrentSavesMerge` | a terminal dies with its lock; two find it stale, each reclaims, both read, both write: 20 steps |
| `KnowledgeBase!DeletedIsGone` | upload, delete, the embedding answers: 3 steps |
| `KnowledgeBase!ReadyMatchesVectors` | upload, first batch; a reindex clears it and fails; last batch: 5 steps |

## What is only model-checked

Every invariant and action property of the runs, and both refinements, are stated by a
theorem, for every value of the constants.  What is left to TLC is liveness (`WorkerEnds`,
`CrashReclaimed`, `RunSettles`, `TraceCompletes`), which is beyond the prover, as is
`ENABLED`; and the findings, which are counterexamples.

The history variables `usurped`, `overlapped` and `blurred` limit what three of the
theorems say, each to the behaviours without one fault; what the code does behind that
limit is stated next to them (`ConcurrentSavesMerge`, `TerminalIsCovered`, `DeletedIsGone`,
`ReadyMatchesVectors`).  The proofs are not about whether the actions are those of
the code, which the map in `PROJECT.json` and the mutants are for.

## Not modelled

- Protocol routing: a ranking computed from the message, without state; its
  result is a free choice in `ProtocolRun`.
- Data gateway, semantic layer, providers: adapters of external services.
- Files, artifacts, skills: I/O on the file system around rows of their own.
- Authentication: rows around password hashing and a mail service, apart from
  the runs.
- The clients' interfaces and transcripts: presentation state computed from the
  events of `RunEvents` and the rows of `Conversation`.  They are most of the lines
  of the repository.
