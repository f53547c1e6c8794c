---------------------------- MODULE RunLifecycle ----------------------------
(***************************************************************************)
(* The life of an agent run in apps/api: the run row, the worker that a    *)
(* POST starts for it, the process-local cancel registry, the human        *)
(* questions that suspend a run, and the readers that reclaim stale rows.  *)
(*                                                                         *)
(* The API is one Node process over a synchronous SQLite store, so a step  *)
(* is the code between two awaits.  The rows (status, reason, startedAt,   *)
(* interaction) survive a crash, everything else is process memory.        *)
(***************************************************************************)
EXTENDS Naturals, FiniteSets

CONSTANTS
  Runs,          \* run ids
  Sessions,      \* session (thread) ids
  SessionOf,     \* the session each run id is posted to
  Requests,      \* POST requests, each served by one call of run()
  BlankInput,    \* the requests whose user text is blank
  Calls,         \* ids of the tool calls that ask the user
  NoRun, NoRequest, NoCall,
  ReclaimLimit   \* rows listByStatuses returns to the startup reclaim (500)

ASSUME RunsFinite     == IsFiniteSet(Runs)
ASSUME SessionOfTotal == SessionOf \in [Runs -> Sessions]
ASSUME Sentinels      == NoRun \notin Runs /\ NoRequest \notin Requests /\ NoCall \notin Calls
ASSUME LimitIsNat     == ReclaimLimit \in Nat

VARIABLES
  status,       \* runs.status, "none" before the row exists
  reason,       \* runs.error_message: "stale" is STALE_ACTIVE_RUN_RECLAIMED
  startedAt,    \* runs.started_at, as the order of the claims; 0 before
  interaction,  \* interactions.status of each run's tool calls
  up,           \* the API process is running
  handle,       \* RunCancelRegistry: the request that can cancel the run
  pc,           \* where each request's run() is
  runOf,        \* the run it works for
  mode,         \* a first submission, or a resume that answers or declines
  call,         \* the tool call it resumes
  connected     \* its subscriber is still there

rows    == <<status, reason, startedAt, interaction>>
request == <<runOf, mode, call>>
vars    == <<rows, up, handle, pc, request, connected>>

Settled   == {"completed", "failed", "canceled"}
RunStatus == {"none", "running", "suspended"} \cup Settled
Pc == {"idle", "claimed", "registered", "live", "halted", "completing", "closing", "canceling",
       "parted", "done"}

\* A request at work for its run.  A parted one has given the run up and waits
\* for the end of its stream.
Working(q) == pc[q] \notin {"idle", "parted", "done"}

-----------------------------------------------------------------------------
(* The run table. *)

\* updateStatus never looks at the status it replaces.  `stale` holds the
\* other rows reclaimed in the same step.
UpdateRows(r, s, why, stale) ==
  /\ status' = [x \in Runs |-> IF x = r THEN s ELSE IF x \in stale THEN "canceled" ELSE status[x]]
  /\ reason' = [x \in Runs |-> IF x = r THEN why ELSE IF x \in stale THEN "stale" ELSE reason[x]]

UpdateStatus(r, s, why) == UpdateRows(r, s, why, {})

ReclaimRows(stale) ==
  /\ status' = [x \in Runs |-> IF x \in stale THEN "canceled" ELSE status[x]]
  /\ reason' = [x \in Runs |-> IF x \in stale THEN "stale" ELSE reason[x]]

\* Mutant: the claims are counted from the row before.
StartedAtOffByOne(r) ==
  IF status[r] = "none" THEN Cardinality({x \in Runs : startedAt[x] # 0}) - 1 ELSE startedAt[r]

\* RunRepository.claim inserts the row once.
StartedAt(r) ==
  IF status[r] = "none" THEN Cardinality({x \in Runs : startedAt[x] # 0}) + 1 ELSE startedAt[r]
Claimed(r) == startedAt' = [startedAt EXCEPT ![r] = StartedAt(r)]

ActiveRuns(s, excluded) ==
  {r \in Runs : SessionOf[r] = s /\ status[r] \in {"running", "suspended"} /\ r # excluded}

\* resolveLiveSessionActiveRun walks the active rows from the newest: one that
\* is suspended or has a cancel handle stops it, any other is canceled.
Locked(r) == status[r] = "suspended" \/ handle[r] # NoRequest

LockedRuns(s, excluded) == {r \in ActiveRuns(s, excluded) : Locked(r)}

StaleRuns(s, excluded) ==
  {r \in ActiveRuns(s, excluded) \ LockedRuns(s, excluded) :
     \A b \in LockedRuns(s, excluded) : startedAt[b] < startedAt[r]}

-----------------------------------------------------------------------------
(* Submission: run() up to its first await. *)

Enter(q, r, m, c) ==
  /\ pc' = [pc EXCEPT ![q] = "claimed"]
  /\ runOf' = [runOf EXCEPT ![q] = r]
  /\ mode' = [mode EXCEPT ![q] = m]
  /\ call' = [call EXCEPT ![q] = c]
  /\ UNCHANGED <<up, handle, connected, interaction>>

Answered(q) ==
  /\ pc' = [pc EXCEPT ![q] = "done"]
  /\ UNCHANGED <<up, handle, connected, request>>

\* persistEarlyFailedUserMessage claims the id if it is free, then fails the
\* row whatever its status; blank input leaves no trace.
EarlyFailure(q, r, stale) ==
  IF q \in BlankInput
    THEN ReclaimRows(stale) /\ UNCHANGED startedAt
    ELSE UpdateRows(r, "failed", "other", stale) /\ Claimed(r)

\* A configuration that does not resolve, or an existing row that is not
\* replayable: another session, another fingerprint, still running, no events.
RejectRequest(q, r) ==
  /\ up /\ pc[q] = "idle"
  /\ EarlyFailure(q, r, {})
  /\ Answered(q) /\ UNCHANGED interaction

\* An identical request for a run that is not active returns its events.
ReplayRun(q, r) ==
  /\ up /\ pc[q] = "idle"
  /\ status[r] \in Settled \cup {"suspended"}
  /\ Answered(q) /\ UNCHANGED rows

\* The session is locked by another run, or the parent run or the data source
\* is refused after the reclaim.
RejectClaim(q, r) ==
  /\ up /\ pc[q] = "idle" /\ status[r] = "none"
  /\ EarlyFailure(q, r, StaleRuns(SessionOf[r], r))
  /\ Answered(q) /\ UNCHANGED interaction

ClaimRun(q, r) ==
  /\ up /\ pc[q] = "idle" /\ status[r] = "none"
  /\ LockedRuns(SessionOf[r], r) = {}
  /\ UpdateRows(r, "running", "none", StaleRuns(SessionOf[r], r))
  /\ Claimed(r)
  /\ Enter(q, r, "fresh", NoCall)

\* Mutant: an active run can be resumed while its question is open.
ResumableActive(r, c) == status[r] \in {"running", "suspended"} /\ interaction[r][c] = "pending"

\* Mutant: whatever still has an open question can be resumed.
ResumableAsked(r, c) == status[r] # "running" /\ interaction[r][c] = "pending"

\* The status and the interaction a resume request needs.
Resumable(r, c) == status[r] = "suspended" /\ interaction[r][c] = "pending"

ResumeRun(q, r, c, m) ==
  /\ up /\ pc[q] = "idle"
  /\ Resumable(r, c)
  /\ LockedRuns(SessionOf[r], r) = {}
  /\ UpdateRows(r, "running", "none", StaleRuns(SessionOf[r], r))
  /\ UNCHANGED startedAt
  /\ Enter(q, r, m, c)

\* A refused resume is answered with an error and persists nothing of its own.
RefuseResume(q, r, c) ==
  /\ up /\ pc[q] = "idle" /\ status[r] # "none"
  /\ \/ /\ status[r] = "suspended"
        /\ ~Resumable(r, c) \/ LockedRuns(SessionOf[r], r) # {}
        /\ ReclaimRows(StaleRuns(SessionOf[r], r))
     \/ status[r] # "suspended" /\ UNCHANGED <<status, reason>>
  /\ Answered(q) /\ UNCHANGED <<startedAt, interaction>>

-----------------------------------------------------------------------------
(* Setup: the awaits between the claim and the agent subscription. *)

Leave(q, next) == pc' = [pc EXCEPT ![q] = next] /\ UNCHANGED <<up, request>>

\* Mutant: the closure deletes the handle of the run, whoever registered it.
UnregisteredAnyone(q) == [r \in Runs |-> IF r = runOf[q] THEN NoRequest ELSE handle[r]]

\* The unregister closure deletes the handle only while it is its own.
Unregistered(q) ==
  [r \in Runs |-> IF r = runOf[q] /\ handle[r] = q THEN NoRequest ELSE handle[r]]
Unregister(q) == handle' = Unregistered(q)

\* subscriber.add on a closed subscriber runs the teardown at once, here and,
\* for the agent's subscription, at the end of the setup.
Register(q) ==
  /\ pc[q] = "claimed"
  /\ IF connected[q]
       THEN /\ handle' = [handle EXCEPT ![runOf[q]] = q]
            /\ Leave(q, "registered")
       ELSE Leave(q, "done") /\ UNCHANGED handle
  /\ UNCHANGED <<rows, connected>>

\* A run canceled meanwhile is subscribed too, and its events are dropped.
Subscribe(q) ==
  /\ pc[q] \in {"registered", "halted"}
  /\ Leave(q, IF pc[q] = "registered" THEN "live" ELSE "canceling")
  /\ UNCHANGED <<rows, handle, connected>>

\* run().catch: a fresh run is failed, canceled or not, a resumed one keeps
\* its row.
SetupFails(q) ==
  /\ pc[q] \in {"claimed", "registered", "halted"}
  /\ IF mode[q] = "fresh" THEN EarlyFailure(q, runOf[q], {})
                          ELSE UNCHANGED <<status, reason, startedAt>>
  /\ Unregister(q) /\ Leave(q, "done")
  /\ UNCHANGED <<interaction, connected>>

-----------------------------------------------------------------------------
(* The agent stream. *)

SetInteraction(r, c, s) == interaction' = [interaction EXCEPT ![r] = [@ EXCEPT ![c] = s]]

\* Mutant: the stream handler goes on after the interrupt.
InterruptKeepsStreaming(q, c) ==
  /\ pc[q] = "live"
  /\ interaction[runOf[q]][c] \in {"none", "pending"}
  /\ SetInteraction(runOf[q], c, "pending")
  /\ UpdateStatus(runOf[q], "suspended", "none")
  /\ UNCHANGED <<startedAt, connected, up, request, handle, pc>>

\* capture() inserts the question, or finds it still pending, and the run is
\* suspended; its worker is over, its stream is not.  A call that has
\* returned asks no more.
Interrupt(q, c) ==
  /\ pc[q] = "live"
  /\ interaction[runOf[q]][c] \in {"none", "pending"}
  /\ SetInteraction(runOf[q], c, "pending")
  /\ UpdateStatus(runOf[q], "suspended", "none")
  /\ Unregister(q) /\ Leave(q, "parted")
  /\ UNCHANGED <<startedAt, connected>>

\* The stream of a suspended run ends, or its subscriber goes: the worker
\* unregisters a second time, maybe after another has resumed the run.
Teardown(q) ==
  /\ pc[q] = "parted"
  /\ Unregister(q) /\ Leave(q, "done")
  /\ UNCHANGED <<rows, connected>>

\* The result of the resumed tool call resolves its question.
ToolAnswered(q) ==
  /\ pc[q] = "live" /\ mode[q] # "fresh"
  /\ interaction[runOf[q]][call[q]] = "pending"
  /\ SetInteraction(runOf[q], call[q], "resolved")
  /\ UNCHANGED <<status, reason, startedAt, up, handle, pc, request, connected>>

\* RUN_FINISHED of a declined resume cancels the question and the run.
FinishDeclined(q) ==
  /\ pc[q] = "live" /\ mode[q] = "decline"
  /\ IF interaction[runOf[q]][call[q]] = "pending"
       THEN SetInteraction(runOf[q], call[q], "canceled")
       ELSE UNCHANGED interaction
  /\ UpdateStatus(runOf[q], "canceled", "none")
  /\ Unregister(q) /\ Leave(q, "canceling")
  /\ UNCHANGED <<startedAt, connected>>

\* RUN_FINISHED otherwise: the handle goes, the row stays until the finalizer
\* has flushed memory.
FinishAgent(q) ==
  /\ pc[q] = "live" /\ mode[q] # "decline"
  /\ Unregister(q) /\ Leave(q, "completing")
  /\ UNCHANGED <<rows, connected>>

\* RUN_ERROR, a stream error or the run timeout: failRun is synchronous.
AgentFails(q) ==
  /\ pc[q] = "live"
  /\ UpdateStatus(runOf[q], "failed", "other")
  /\ Unregister(q) /\ Leave(q, "done")
  /\ UNCHANGED <<startedAt, interaction, connected>>

-----------------------------------------------------------------------------
(* Finalization. *)

Complete(q) ==
  /\ pc[q] = "completing"
  /\ UpdateStatus(runOf[q], "completed", "none")
  /\ Leave(q, "closing")
  /\ UNCHANGED <<startedAt, interaction, handle, connected>>

\* A failed protocol decision or commit, or an event that cannot be written
\* after the row was completed, ends in finalizer.fail.
CompletionFails(q) ==
  /\ pc[q] \in {"completing", "closing"}
  /\ UpdateStatus(runOf[q], "failed", "other")
  /\ Leave(q, "done")
  /\ UNCHANGED <<startedAt, interaction, handle, connected>>

\* Mutant: a canceled worker is never closed.
CloseCompletedOnly(q) ==
  /\ pc[q] = "closing"
  /\ Leave(q, "done")
  /\ UNCHANGED <<rows, handle, connected>>

\* The workspace is gone and the terminal event is written.
Close(q) ==
  /\ pc[q] \in {"closing", "canceling"}
  /\ Leave(q, "done")
  /\ UNCHANGED <<rows, handle, connected>>

-----------------------------------------------------------------------------
(* The environment: cancel requests, readers, lost clients, crashes. *)

\* POST /runs/:id/cancel through the worker's handle, which may still be in
\* its setup, or on the row alone.
CancelLive(r) ==
  /\ up /\ handle[r] # NoRequest
  /\ UpdateStatus(r, "canceled", "other")
  /\ Unregister(handle[r])
  /\ Leave(handle[r], IF pc[handle[r]] = "live" THEN "canceling" ELSE "halted")
  /\ UNCHANGED <<startedAt, interaction, connected>>

CancelPersisted(r) ==
  /\ up /\ handle[r] = NoRequest /\ status[r] \in {"running", "suspended"}
  /\ UpdateStatus(r, "canceled", "none")
  /\ UNCHANGED <<startedAt, interaction, up, handle, pc, request, connected>>

\* GET /sessions and the conversation restore resolve the active run too.
ReadSession(s) ==
  /\ up /\ StaleRuns(s, NoRun) # {}
  /\ ReclaimRows(StaleRuns(s, NoRun))
  /\ UNCHANGED <<startedAt, interaction, up, handle, pc, request, connected>>

\* The subscriber goes.  Before the subscription the setup runs on without a
\* handle; a live worker is aborted and its row left as it is.
Disconnect(q) ==
  /\ connected[q] /\ pc[q] \in {"claimed", "registered", "live"}
  /\ connected' = [connected EXCEPT ![q] = FALSE]
  /\ Unregister(q) /\ Leave(q, IF pc[q] = "live" THEN "done" ELSE "claimed")
  /\ UNCHANGED rows

Crash ==
  /\ up /\ up' = FALSE
  /\ handle' = [r \in Runs |-> NoRequest]
  /\ pc' = [q \in Requests |-> IF pc[q] = "idle" THEN "idle" ELSE "done"]
  /\ UNCHANGED <<rows, request, connected>>

\* Mutant: the startup reclaim looks for rows that still have a handle.
OrphansWithHandle == {r \in Runs : status[r] = "running" /\ handle[r] # NoRequest}

\* reclaimOrphanedQueuedAndRunningRuns, with the registry empty.
Orphans ==
  LET running == {r \in Runs : status[r] = "running"}
  IN  {r \in running : Cardinality({x \in running : startedAt[x] > startedAt[r]}) < ReclaimLimit}

Startup ==
  /\ ~up /\ up' = TRUE
  /\ ReclaimRows(Orphans)
  /\ UNCHANGED <<startedAt, interaction, handle, pc, request, connected>>

-----------------------------------------------------------------------------
Init ==
  /\ status = [r \in Runs |-> "none"]
  /\ reason = [r \in Runs |-> "none"]
  /\ startedAt = [r \in Runs |-> 0]
  /\ interaction = [r \in Runs |-> [c \in Calls |-> "none"]]
  /\ up = TRUE
  /\ handle = [r \in Runs |-> NoRequest]
  /\ pc = [q \in Requests |-> "idle"]
  /\ runOf = [q \in Requests |-> NoRun]
  /\ mode = [q \in Requests |-> "fresh"]
  /\ call = [q \in Requests |-> NoCall]
  /\ connected = [q \in Requests |-> TRUE]

Submit(q, r) ==
  \/ RejectRequest(q, r) \/ ReplayRun(q, r) \/ RejectClaim(q, r) \/ ClaimRun(q, r)
  \/ \E c \in Calls : RefuseResume(q, r, c) \/ \E m \in {"answer", "decline"} : ResumeRun(q, r, c, m)

Setup(q)  == Register(q) \/ Subscribe(q) \/ SetupFails(q)
Stream(q) == ToolAnswered(q) \/ FinishDeclined(q) \/ FinishAgent(q) \/ AgentFails(q)
             \/ Teardown(q) \/ \E c \in Calls : Interrupt(q, c)
Finish(q) == Complete(q) \/ CompletionFails(q) \/ Close(q)

Worker(q) == Setup(q) \/ Stream(q) \/ Finish(q)

Environment ==
  \/ \E r \in Runs : CancelLive(r) \/ CancelPersisted(r)
  \/ \E s \in Sessions : ReadSession(s)
  \/ \E q \in Requests : Disconnect(q)
  \/ Crash \/ Startup

Next ==
  \/ \E q \in Requests, r \in Runs : Submit(q, r)
  \/ \E q \in Requests : Worker(q)
  \/ Environment

Spec == Init /\ [][Next]_vars

\* Awaits of the setup and of the finalizer settle, the agent's stream ends (a
\* tool call is answered once, so answering cannot go on forever; the timeout
\* of server.ts:1075 enforces it where one is set, the model provider where
\* none is), and a stopped process is started again.  Clients owe nothing.
Fairness ==
  /\ \A q \in Requests : WF_vars(Worker(q))
  /\ WF_vars(Startup)

FairSpec == Spec /\ Fairness

-----------------------------------------------------------------------------
InteractionStatus == {"none", "pending", "resolved", "canceled"}

\* Every variable stays in its type.
TypeOK ==
  /\ status \in [Runs -> RunStatus]
  /\ reason \in [Runs -> {"none", "stale", "other"}]
  /\ startedAt \in [Runs -> Nat]
  /\ interaction \in [Runs -> [Calls -> InteractionStatus]]
  /\ up \in BOOLEAN
  /\ handle \in [Runs -> Requests \cup {NoRequest}]
  /\ pc \in [Requests -> Pc]
  /\ runOf \in [Requests -> Runs \cup {NoRun}]
  /\ mode \in [Requests -> {"fresh", "answer", "decline"}]
  /\ call \in [Requests -> Calls \cup {NoCall}]
  /\ connected \in [Requests -> BOOLEAN]

\* A run never has two workers, although nothing in memory guards it: a claim
\* inserts the row once and a resume needs a suspended row, which only the
\* run's own departing worker writes.
OneWorkerPerRun ==
  \A q1, q2 \in Requests :
    Working(q1) /\ Working(q2) /\ runOf[q1] = runOf[q2] => q1 = q2

\* The registry names exactly the workers that a cancel can still stop: those
\* registered or streaming.  A stale handle would keep a session locked for
\* ever, a missing one makes a live run look like an orphan.
RegistryExact ==
  /\ \A r \in Runs : handle[r] # NoRequest =>
       runOf[handle[r]] = r /\ pc[handle[r]] \in {"registered", "live"}
  /\ \A q \in Requests : pc[q] \in {"registered", "live"} => handle[runOf[q]] = q

\* A suspended run keeps an open question and has no worker, whatever cancel,
\* second resume or disconnect meets the interrupt (server.ts:847): a question
\* lost would leave nothing that an answer could name.
SuspendedKeepsQuestion ==
  \A r \in Runs : status[r] = "suspended" =>
    /\ \E c \in Calls : interaction[r][c] = "pending"
    /\ \A q \in Requests : Working(q) => runOf[q] # r

\* A run is a lease of RunLease.  With every interleaving of claims, resumes,
\* cancels, reclaims and crashes, a run that is settled and has no worker is never
\* worked on again, although its question may stay pending (config-api.ts:2129).
StateOf(r) ==
  CASE status[r] = "none" -> "new" [] status[r] = "suspended" -> "waiting"
    [] status[r] \in Settled -> "over" [] OTHER -> "running"

WorkersOf(r) == {q \in Requests : Working(q) /\ runOf[q] = r}

Lease == INSTANCE RunLease WITH
  Workers <- Requests,
  state <- [r \in Runs |-> StateOf(r)], holders <- [r \in Runs |-> WorkersOf(r)]

Leased == Lease!Spec

\* "Suspended (HITL) runs stay locked" (stale-active-runs.ts): no reclaim, of
\* a claim, a reader or a restart, takes a suspended run.
SuspendedNeverReclaimed ==
  [][\A r \in Runs : status[r] = "suspended" => reason'[r] # "stale"]_vars

\* Every claimed request comes to an end, through every failure and crash.
WorkerEnds == \A q \in Requests : pc[q] = "claimed" ~> pc[q] = "done"

\* A row a crash leaves running is reclaimed when the process returns.
CrashReclaimed == \A r \in Runs : (~up /\ status[r] = "running") ~> status[r] # "running"

-----------------------------------------------------------------------------
(* What the repository says of the program, and it does not keep. *)

\* run-error-message.ts: a chat has one active run at a time.
OneLiveRunPerSession ==
  \A q1, q2 \in Requests :
    pc[q1] = "live" /\ pc[q2] = "live" /\ q1 # q2 => SessionOf[runOf[q1]] # SessionOf[runOf[q2]]

\* web-workbench.md: a cancel that the backend has accepted ends the run.  The
\* rows that a reader or another claim reclaims are another matter.
CancelIsFinal ==
  [][\A r \in Runs :
       status[r] = "canceled" /\ reason[r] # "stale" => status'[r] # "completed"]_vars

\* capabilities.md: a human interaction can be resumed.  So can a suspended run
\* in a session where nothing is at work, if no other run locks the session.
SuspendedCanResume ==
  \A r \in Runs :
    status[r] = "suspended" /\ (\A q \in Requests : Working(q) => SessionOf[runOf[q]] # SessionOf[r]) =>
      LockedRuns(SessionOf[r], r) = {} /\ \E c \in Calls : Resumable(r, c)
=============================================================================
