------------------------- MODULE RunLifecycleProofs -------------------------
(***************************************************************************)
(* Proofs about RunLifecycle, for any runs, sessions, requests and calls.  *)
(*                                                                         *)
(* OneWorkerPerRun is not inductive alone: that a claim or a resume finds  *)
(* no worker on its run needs WorkerHasRow (a worker's run has a row) and  *)
(* the second half of SuspendedKeepsQuestion; that a suspension keeps that  *)
(* half needs OneWorkerPerRun; and that a handle leads to its worker needs *)
(* RegistryExact.  They are proved together as IInv.                       *)
(***************************************************************************)
EXTENDS RunLifecycle, FiniteSetTheorems, TLAPS

USE Sentinels, SessionOfTotal

WorkerHasRow ==
  \A q \in Requests : Working(q) => runOf[q] \in Runs /\ status[runOf[q]] # "none"

\* A suspended row was written by its worker, so it never shows a reclaim.
SuspendedReason == \A r \in Runs : status[r] = "suspended" => reason[r] # "stale"

IInv ==
  /\ TypeOK
  /\ WorkerHasRow
  /\ OneWorkerPerRun
  /\ RegistryExact
  /\ SuspendedKeepsQuestion
  /\ SuspendedReason

-----------------------------------------------------------------------------
(* The order of a claim is a natural number. *)
LEMMA StartedAtNat ==
  ASSUME TypeOK, NEW r \in Runs
  PROVE  StartedAt(r) \in Nat
<1>1. IsFiniteSet({x \in Runs : startedAt[x] # 0})
  BY RunsFinite, FS_Subset
<1>2. Cardinality({x \in Runs : startedAt[x] # 0}) \in Nat
  BY <1>1, FS_CardinalityType
<1> QED
  BY <1>2 DEF StartedAt, TypeOK

(* Only running rows without a handle are stale, and only running rows are  *)
(* orphans: a reclaim never reaches a suspended row.                        *)
LEMMA StaleAreRunning ==
  ASSUME TypeOK, NEW s, NEW x
  PROVE  \A r \in StaleRuns(s, x) : r \in Runs /\ status[r] = "running"
BY DEF StaleRuns, LockedRuns, ActiveRuns, Locked

(* The startup reclaim takes running rows only.                             *)
LEMMA OrphansAreRunning == \A r \in Orphans : r \in Runs /\ status[r] = "running"
BY DEF Orphans

-----------------------------------------------------------------------------
(* Types. *)
(* The initial state is well typed.                                         *)
LEMMA TypeInit == Init => TypeOK
BY DEF Init, TypeOK, RunStatus, Pc, InteractionStatus

(* A POST keeps the types.                                                  *)
LEMMA TypeSubmit ==
  ASSUME TypeOK, NEW q \in Requests, NEW r \in Runs, Submit(q, r)
  PROVE  TypeOK'
<1> USE DEF TypeOK, RunStatus, Settled, Pc, UpdateRows, ReclaimRows, Claimed, EarlyFailure,
            Answered, Enter, request
<1>1. StartedAt(r) \in Nat
  BY StartedAtNat
<1>2. CASE RejectRequest(q, r)
  BY <1>1, <1>2 DEF RejectRequest
<1>3. CASE ReplayRun(q, r)
  BY <1>3 DEF ReplayRun, rows
<1>4. CASE RejectClaim(q, r)
  <2>1. CASE q \in BlankInput
    BY <1>4, <2>1 DEF RejectClaim
  <2>2. CASE q \notin BlankInput
    <3>1. startedAt' \in [Runs -> Nat]
      BY <1>1, <1>4, <2>2 DEF RejectClaim
    <3>2. status' \in [Runs -> RunStatus] /\ reason' \in [Runs -> {"none", "stale", "other"}]
      BY <1>4, <2>2 DEF RejectClaim
    <3> QED
      BY <1>4, <3>1, <3>2 DEF RejectClaim
  <2> QED
    BY <2>1, <2>2
<1>5. CASE ClaimRun(q, r)
  BY <1>1, <1>5 DEF ClaimRun
<1>6. ASSUME NEW c \in Calls, RefuseResume(q, r, c) PROVE TypeOK'
  BY <1>6 DEF RefuseResume
<1>7. ASSUME NEW c \in Calls, NEW m \in {"answer", "decline"}, ResumeRun(q, r, c, m) PROVE TypeOK'
  BY <1>7 DEF ResumeRun
<1> QED
  BY <1>2, <1>3, <1>4, <1>5, <1>6, <1>7 DEF Submit

(* A worker's step keeps the types.                                         *)
LEMMA TypeWorker ==
  ASSUME TypeOK, NEW q \in Requests, Worker(q)
  PROVE  TypeOK'
<1> USE DEF TypeOK, RunStatus, Settled, Pc, InteractionStatus, UpdateStatus, UpdateRows, Leave, Unregister,
            Unregistered, SetInteraction, request, rows
<1>1. CASE Register(q)
  <2>1. CASE connected[q]
    <3>1. handle' = [handle EXCEPT ![runOf[q]] = q] /\ pc' = [pc EXCEPT ![q] = "registered"]
      BY <1>1, <2>1 DEF Register
    <3>2. handle' \in [Runs -> Requests \cup {NoRequest}] /\ pc' \in [Requests -> Pc]
      BY <3>1
    <3> QED
      BY <1>1, <2>1, <3>2 DEF Register
  <2>2. CASE ~connected[q]
    BY <1>1, <2>2 DEF Register
  <2> QED
    BY <2>1, <2>2
<1>2. CASE Subscribe(q)
  BY <1>2 DEF Subscribe
<1>3. CASE SetupFails(q)
  <2>1. StartedAt(runOf[q]) \in Nat \/ runOf[q] \notin Runs
    BY StartedAtNat
  <2> QED
    BY <1>3, <2>1 DEF SetupFails, EarlyFailure, ReclaimRows, Claimed
<1>4. CASE ToolAnswered(q)
  BY <1>4 DEF ToolAnswered
<1>5. CASE FinishDeclined(q)
  <2>1. [interaction EXCEPT ![runOf[q]] = [@ EXCEPT ![call[q]] = "canceled"]]
          \in [Runs -> [Calls -> InteractionStatus]]
    OBVIOUS
  <2>2. interaction' \in [Runs -> [Calls -> InteractionStatus]]
    BY <1>5, <2>1 DEF FinishDeclined
  <2> QED
    BY <1>5, <2>2 DEF FinishDeclined
<1>6. CASE FinishAgent(q)
  BY <1>6 DEF FinishAgent
<1>7. CASE AgentFails(q)
  BY <1>7 DEF AgentFails
<1>8. ASSUME NEW c \in Calls, Interrupt(q, c) PROVE TypeOK'
  BY <1>8 DEF Interrupt
<1>9. CASE Complete(q)
  BY <1>9 DEF Complete
<1>10. CASE CompletionFails(q)
  BY <1>10 DEF CompletionFails
<1>11. CASE Close(q)
  BY <1>11 DEF Close
<1>12. CASE Teardown(q)
  BY <1>12 DEF Teardown
<1> QED
  BY <1>1, <1>2, <1>3, <1>4, <1>5, <1>6, <1>7, <1>8, <1>9, <1>10, <1>11, <1>12
     DEF Worker, Setup, Stream, Finish

(* Cancels, readers, lost clients and crashes keep the types.               *)
LEMMA TypeEnvironment ==
  ASSUME TypeOK, Environment
  PROVE  TypeOK'
<1> USE DEF TypeOK, RunStatus, Settled, Pc, UpdateStatus, UpdateRows, ReclaimRows, Leave, Unregister,
            Unregistered, request, rows
<1>1. ASSUME NEW r \in Runs, CancelLive(r) PROVE TypeOK'
  BY <1>1 DEF CancelLive
<1>2. ASSUME NEW r \in Runs, CancelPersisted(r) PROVE TypeOK'
  BY <1>2 DEF CancelPersisted
<1>3. ASSUME NEW s \in Sessions, ReadSession(s) PROVE TypeOK'
  BY <1>3 DEF ReadSession
<1>4. ASSUME NEW q \in Requests, Disconnect(q) PROVE TypeOK'
  BY <1>4 DEF Disconnect
<1>5. CASE Crash
  BY <1>5 DEF Crash
<1>6. CASE Startup
  BY <1>6 DEF Startup
<1> QED
  BY <1>1, <1>2, <1>3, <1>4, <1>5, <1>6 DEF Environment

(* Every variable stays in its type, in every reachable state. *)
THEOREM TypeCorrect == Spec => []TypeOK
<1>1. TypeOK /\ [Next]_vars => TypeOK'
  <2>1. CASE UNCHANGED vars
    BY <2>1 DEF vars, rows, request, TypeOK
  <2> QED
    BY <2>1, TypeSubmit, TypeWorker, TypeEnvironment DEF Next
<1> QED
  BY TypeInit, <1>1, PTL DEF Spec

-----------------------------------------------------------------------------
(* The strengthening is inductive. *)
LEMMA InitIInv == Init => IInv
<1> SUFFICES ASSUME Init PROVE IInv
  OBVIOUS
<1>1. TypeOK
  BY TypeInit
<1> QED
  BY <1>1 DEF Init, IInv, WorkerHasRow, OneWorkerPerRun, RegistryExact, SuspendedKeepsQuestion,
              SuspendedReason, Working

(* A worker that unregisters and leaves the registered part of run() leaves *)
(* an exact registry.                                                       *)
LEMMA Departs ==
  ASSUME IInv, NEW q \in Requests, Working(q), Unregister(q), runOf' = runOf,
         NEW next \in Pc \ {"registered", "live"}, pc' = [pc EXCEPT ![q] = next]
  PROVE  RegistryExact'
<1> USE DEF IInv, TypeOK, WorkerHasRow, RegistryExact
<1>1. handle' = [r \in Runs |-> IF r = runOf[q] /\ handle[r] = q THEN NoRequest ELSE handle[r]]
  BY DEF Unregister, Unregistered
<1>2. ASSUME NEW r \in Runs, handle'[r] # NoRequest
      PROVE  runOf'[handle'[r]] = r /\ pc'[handle'[r]] \in {"registered", "live"}
  <2>1. handle'[r] = handle[r] /\ handle[r] \in Requests
    BY <1>1, <1>2
  <2>2. runOf[handle[r]] = r /\ pc[handle[r]] \in {"registered", "live"}
    BY <1>2, <2>1
  <2>3. handle[r] # q
    BY <1>1, <1>2, <2>2
  <2> QED
    BY <2>1, <2>2, <2>3
<1>3. ASSUME NEW x \in Requests, pc'[x] \in {"registered", "live"}
      PROVE  handle'[runOf'[x]] = x
  <2>1. x # q /\ pc[x] = pc'[x]
    BY <1>3
  <2>2. handle[runOf[x]] = x /\ runOf[x] \in Runs
    BY <1>3, <2>1 DEF Working
  <2> QED
    BY <1>1, <2>1, <2>2
<1> QED
  BY <1>2, <1>3

(* A step that starts no worker, settles rows or leaves them, and keeps the *)
(* questions of the suspended ones.                                         *)
LEMMA Quiet ==
  ASSUME IInv, TypeOK', RegistryExact', runOf' = runOf,
         \A q \in Requests : Working(q)' => Working(q),
         \A r \in Runs :
           \/ status'[r] \in Settled
           \/ /\ status'[r] = status[r] /\ reason'[r] = reason[r]
              /\ status[r] = "suspended" => interaction'[r] = interaction[r]
  PROVE  IInv'
<1>1. WorkerHasRow'
  BY DEF IInv, WorkerHasRow, Settled
<1>2. OneWorkerPerRun'
  BY DEF IInv, OneWorkerPerRun
<1>3. SuspendedKeepsQuestion'
  BY DEF IInv, SuspendedKeepsQuestion, Settled
<1>4. SuspendedReason'
  BY DEF IInv, SuspendedReason, Settled
<1> QED
  BY <1>1, <1>2, <1>3, <1>4 DEF IInv

(* The same for a step that touches neither the workers nor the registry.   *)
LEMMA RowsOnly ==
  ASSUME IInv, TypeOK', UNCHANGED <<handle, runOf>>,
         \A q \in Requests : pc'[q] = pc[q] \/ (pc[q] = "idle" /\ pc'[q] = "done"),
         \A r \in Runs :
           \/ status'[r] \in Settled
           \/ /\ status'[r] = status[r] /\ reason'[r] = reason[r]
              /\ status[r] = "suspended" => interaction'[r] = interaction[r]
  PROVE  IInv'
<1>1. RegistryExact'
  BY DEF IInv, RegistryExact, TypeOK
<1>2. \A q \in Requests : Working(q)' => Working(q)
  BY DEF Working
<1> QED
  BY <1>1, <1>2, Quiet

(* A claim or a resume starts a worker on a run that has none.              *)
LEMMA EnterKeepsIInv ==
  ASSUME IInv, TypeOK', NEW q \in Requests, NEW r \in Runs, NEW m, NEW c, pc[q] = "idle",
         Enter(q, r, m, c), status'[r] = "running",
         \A x \in Requests : Working(x) => runOf[x] # r,
         \A x \in Runs \ {r} :
           status'[x] \in Settled \/ (status'[x] = status[x] /\ reason'[x] = reason[x])
  PROVE  IInv'
<1> USE DEF IInv, TypeOK
<1>1. /\ pc' = [pc EXCEPT ![q] = "claimed"] /\ runOf' = [runOf EXCEPT ![q] = r]
      /\ UNCHANGED <<handle, interaction>>
  BY DEF Enter
<1>2. /\ ~Working(q) /\ Working(q)' /\ runOf'[q] = r
      /\ \A x \in Requests : x # q => (Working(x)' <=> Working(x)) /\ runOf'[x] = runOf[x]
  BY <1>1 DEF Working
<1>3. WorkerHasRow'
  BY <1>2 DEF WorkerHasRow, Settled
<1>4. OneWorkerPerRun'
  <2> SUFFICES ASSUME NEW q1 \in Requests, NEW q2 \in Requests, Working(q1)', Working(q2)',
                      runOf'[q1] = runOf'[q2]
               PROVE  q1 = q2
    BY DEF OneWorkerPerRun
  <2>1. CASE q1 # q /\ q2 # q
    BY <1>2, <2>1 DEF OneWorkerPerRun
  <2>2. CASE q1 = q \/ q2 = q
    BY <1>2, <2>2
  <2> QED
    BY <2>1, <2>2
<1>5. RegistryExact'
  BY <1>1 DEF RegistryExact
<1>6. SuspendedKeepsQuestion' /\ SuspendedReason'
  <2> SUFFICES ASSUME NEW x \in Runs, status'[x] = "suspended"
               PROVE  /\ \E k \in Calls : interaction'[x][k] = "pending"
                      /\ \A y \in Requests : Working(y)' => runOf'[y] # x
                      /\ reason'[x] # "stale"
    BY DEF SuspendedKeepsQuestion, SuspendedReason
  <2>1. x # r /\ status[x] = "suspended" /\ reason'[x] = reason[x]
    BY DEF Settled
  <2> QED
    BY <1>1, <1>2, <2>1 DEF SuspendedKeepsQuestion, SuspendedReason
<1> QED
  BY <1>3, <1>4, <1>5, <1>6

(* A POST keeps the strengthening: only a free or suspended row is taken.   *)
LEMMA SubmitKeepsIInv ==
  ASSUME IInv, NEW q \in Requests, NEW r \in Runs, Submit(q, r)
  PROVE  IInv'
<1>1. TypeOK /\ TypeOK'
  BY TypeSubmit DEF IInv
<1>2. \A x \in StaleRuns(SessionOf[r], r) : x \in Runs /\ status[x] = "running"
  BY <1>1, StaleAreRunning
<1>3. ASSUME Answered(q), pc[q] = "idle", UNCHANGED interaction,
             \A x \in Runs : status'[x] \in Settled
                             \/ (status'[x] = status[x] /\ reason'[x] = reason[x])
      PROVE  IInv'
  BY <1>1, <1>3, RowsOnly DEF Answered, request, TypeOK
<1>4. CASE RejectRequest(q, r)
  BY <1>3, <1>4 DEF RejectRequest, EarlyFailure, ReclaimRows, UpdateRows, Settled
<1>5. CASE ReplayRun(q, r)
  BY <1>3, <1>5 DEF ReplayRun, rows
<1>6. CASE RejectClaim(q, r)
  <2>1. \A x \in Runs : status'[x] \in Settled \/ (status'[x] = status[x] /\ reason'[x] = reason[x])
    <3>1. CASE q \in BlankInput
      BY <1>6, <3>1 DEF RejectClaim, EarlyFailure, ReclaimRows, Settled
    <3>2. CASE q \notin BlankInput
      BY <1>6, <3>2 DEF RejectClaim, EarlyFailure, UpdateRows, Settled
    <3> QED
      BY <3>1, <3>2
  <2> QED
    BY <1>3, <1>6, <2>1 DEF RejectClaim
<1>7. CASE ClaimRun(q, r)
  <2>1. \A x \in Requests : Working(x) => runOf[x] # r
    BY <1>7 DEF ClaimRun, IInv, WorkerHasRow
  <2>2. /\ status'[r] = "running"
        /\ \A x \in Runs \ {r} :
             status'[x] \in Settled \/ (status'[x] = status[x] /\ reason'[x] = reason[x])
    BY <1>7 DEF ClaimRun, UpdateRows, Settled
  <2> QED
    BY <1>1, <1>7, <2>1, <2>2, EnterKeepsIInv DEF ClaimRun
<1>8. ASSUME NEW c \in Calls, RefuseResume(q, r, c) PROVE IInv'
  <2>1. \A x \in Runs : status'[x] \in Settled \/ (status'[x] = status[x] /\ reason'[x] = reason[x])
    BY <1>8 DEF RefuseResume, ReclaimRows, Settled
  <2> QED
    BY <1>3, <1>8, <2>1 DEF RefuseResume
<1>9. ASSUME NEW c \in Calls, NEW m \in {"answer", "decline"}, ResumeRun(q, r, c, m) PROVE IInv'
  <2>1. \A x \in Requests : Working(x) => runOf[x] # r
    BY <1>9 DEF ResumeRun, Resumable, IInv, SuspendedKeepsQuestion
  <2>2. /\ status'[r] = "running"
        /\ \A x \in Runs \ {r} :
             status'[x] \in Settled \/ (status'[x] = status[x] /\ reason'[x] = reason[x])
    BY <1>9 DEF ResumeRun, UpdateRows, Settled
  <2> QED
    BY <1>1, <1>9, <2>1, <2>2, EnterKeepsIInv DEF ResumeRun
<1> QED
  BY <1>4, <1>5, <1>6, <1>7, <1>8, <1>9 DEF Submit

(* A worker's step keeps the strengthening.                                 *)
LEMMA WorkerKeepsIInv ==
  ASSUME IInv, NEW q \in Requests, Worker(q)
  PROVE  IInv'
<1>1. TypeOK /\ TypeOK'
  BY TypeWorker DEF IInv
<1>2. ASSUME Working(q), UNCHANGED interaction \/ status'[runOf[q]] \in Settled,
             Unregister(q), NEW next \in Pc \ {"registered", "live"}, Leave(q, next),
             \A r \in Runs : \/ status'[r] \in Settled
                             \/ /\ status'[r] = status[r] /\ reason'[r] = reason[r]
                                /\ status[r] = "suspended" => interaction'[r] = interaction[r]
      PROVE  IInv'
  <2>1. pc' = [pc EXCEPT ![q] = next] /\ runOf' = runOf
    BY <1>2 DEF Leave, request
  <2>2. RegistryExact'
    BY <1>2, <2>1, Departs
  <2>3. \A x \in Requests : Working(x)' => Working(x)
    BY <1>1, <1>2, <2>1 DEF Working, TypeOK
  <2> QED
    BY <1>1, <1>2, <2>1, <2>2, <2>3, Quiet
<1>3. ASSUME pc[q] \notin {"idle", "parted", "done", "registered", "live"}, UNCHANGED <<handle, interaction>>,
             NEW next \in Pc \ {"registered", "live"}, Leave(q, next),
             \A r \in Runs : \/ status'[r] \in Settled
                             \/ status'[r] = status[r] /\ reason'[r] = reason[r]
      PROVE  IInv'
  <2>1. pc' = [pc EXCEPT ![q] = next] /\ runOf' = runOf
    BY <1>3 DEF Leave, request
  <2>2. RegistryExact'
    BY <1>1, <1>3, <2>1 DEF IInv, RegistryExact, TypeOK
  <2>3. \A x \in Requests : Working(x)' => Working(x)
    BY <1>1, <1>3, <2>1 DEF Working, TypeOK
  <2> QED
    BY <1>1, <1>3, <2>1, <2>2, <2>3, Quiet
<1>4. Working(q) => runOf[q] \in Runs /\ status[runOf[q]] # "suspended"
  BY DEF IInv, WorkerHasRow, SuspendedKeepsQuestion
<1>5. CASE Register(q)
  <2>1. CASE connected[q]
    <3>1. /\ handle' = [handle EXCEPT ![runOf[q]] = q] /\ pc' = [pc EXCEPT ![q] = "registered"]
          /\ UNCHANGED <<runOf, rows>> /\ pc[q] = "claimed"
      BY <1>5, <2>1 DEF Register, Leave, request
    <3>2. \A x \in Requests : Working(x)' = Working(x)
      BY <1>1, <3>1 DEF Working, TypeOK
    <3>3. RegistryExact'
      <4>1. runOf[q] \in Runs /\ \A x \in Requests : Working(x) /\ runOf[x] = runOf[q] => x = q
        BY <1>4, <3>1 DEF IInv, OneWorkerPerRun, Working
      <4>2. ASSUME NEW r \in Runs, handle'[r] # NoRequest
            PROVE  runOf'[handle'[r]] = r /\ pc'[handle'[r]] \in {"registered", "live"}
        BY <1>1, <3>1, <4>1, <4>2 DEF IInv, RegistryExact, TypeOK
      <4>3. ASSUME NEW x \in Requests, pc'[x] \in {"registered", "live"}
            PROVE  handle'[runOf'[x]] = x
        <5>1. CASE x = q
          BY <1>1, <3>1, <4>1, <5>1 DEF TypeOK
        <5>2. CASE x # q
          <6>1. pc[x] \in {"registered", "live"} /\ runOf'[x] = runOf[x]
            BY <1>1, <3>1, <4>3, <5>2 DEF TypeOK
          <6>2. Working(x) /\ handle[runOf[x]] = x
            BY <6>1 DEF IInv, RegistryExact, Working
          <6>3. runOf[x] # runOf[q]
            BY <4>1, <5>2, <6>2
          <6> QED
            BY <1>1, <3>1, <6>1, <6>2, <6>3 DEF TypeOK
        <5> QED
          BY <5>1, <5>2
      <4> QED
        BY <4>2, <4>3 DEF RegistryExact
    <3> QED
      BY <1>1, <3>1, <3>2, <3>3, Quiet DEF rows
  <2>2. CASE ~connected[q]
    BY <1>3, <1>5, <2>2 DEF Register, rows, Pc
  <2> QED
    BY <2>1, <2>2
<1>6. CASE Subscribe(q)
  <2>1. /\ pc[q] \in {"registered", "halted"} /\ UNCHANGED <<runOf, rows, handle>>
        /\ pc' = [pc EXCEPT ![q] = IF pc[q] = "registered" THEN "live" ELSE "canceling"]
    BY <1>6 DEF Subscribe, Leave, request
  <2>2. CASE pc[q] = "registered"
    <3>1. RegistryExact' /\ \A x \in Requests : Working(x)' = Working(x)
      BY <1>1, <2>1, <2>2 DEF IInv, RegistryExact, Working, TypeOK
    <3> QED
      BY <1>1, <2>1, <3>1, Quiet DEF rows
  <2>3. CASE pc[q] = "halted"
    <3>1. RegistryExact' /\ \A x \in Requests : Working(x)' = Working(x)
      BY <1>1, <2>1, <2>3 DEF IInv, RegistryExact, Working, TypeOK
    <3> QED
      BY <1>1, <2>1, <3>1, Quiet DEF rows
  <2> QED
    BY <2>1, <2>2, <2>3
<1>7. CASE SetupFails(q)
  <2>1. \A r \in Runs : status'[r] \in Settled \/ (status'[r] = status[r] /\ reason'[r] = reason[r])
    BY <1>7 DEF SetupFails, EarlyFailure, ReclaimRows, UpdateRows, Settled
  <2> QED
    BY <1>2, <1>7, <2>1 DEF SetupFails, Pc, Working
<1>8. CASE ToolAnswered(q)
  <2>1. \A r \in Runs : r # runOf[q] => interaction'[r] = interaction[r]
    BY <1>1, <1>8 DEF ToolAnswered, SetInteraction, TypeOK
  <2>2. status[runOf[q]] # "suspended" /\ UNCHANGED <<status, reason, handle, pc, runOf>>
    BY <1>4, <1>8 DEF ToolAnswered, Working, request
  <2> QED
    BY <1>1, <2>1, <2>2, RowsOnly
<1>9. CASE FinishDeclined(q)
  <2>1. runOf[q] \in Runs /\ Working(q)
    BY <1>4, <1>9 DEF FinishDeclined, Working
  <2>2. \A r \in Runs : r # runOf[q] => interaction'[r] = interaction[r]
    BY <1>1, <1>9 DEF FinishDeclined, SetInteraction, TypeOK
  <2>3. status'[runOf[q]] = "canceled"
        /\ \A r \in Runs : r # runOf[q] => status'[r] = status[r] /\ reason'[r] = reason[r]
    BY <1>9, <2>1 DEF FinishDeclined, UpdateStatus, UpdateRows
  <2> QED
    BY <1>2, <1>9, <2>1, <2>2, <2>3 DEF FinishDeclined, Pc, Settled
<1>10. CASE FinishAgent(q)
  BY <1>2, <1>10 DEF FinishAgent, rows, Pc, Working
<1>11. CASE AgentFails(q)
  BY <1>2, <1>11 DEF AgentFails, UpdateStatus, UpdateRows, Pc, Working, Settled
<1>12. ASSUME NEW c \in Calls, Interrupt(q, c) PROVE IInv'
  <2>1. /\ pc' = [pc EXCEPT ![q] = "parted"] /\ runOf' = runOf /\ Working(q) /\ runOf[q] \in Runs
    BY <1>4, <1>12 DEF Interrupt, Leave, Working, request
  <2>2. RegistryExact'
    BY <1>12, <2>1, Departs DEF Interrupt, Pc
  <2>3. \A r \in Runs : \/ r = runOf[q] /\ status'[r] = "suspended" /\ reason'[r] = "none"
                        \/ r # runOf[q] /\ status'[r] = status[r] /\ reason'[r] = reason[r]
    BY <1>12 DEF Interrupt, UpdateStatus, UpdateRows
  <2>4. interaction'[runOf[q]][c] = "pending"
        /\ \A r \in Runs : r # runOf[q] => interaction'[r] = interaction[r]
    BY <1>1, <1>12, <2>1 DEF Interrupt, SetInteraction, TypeOK
  <2>5. \A x \in Requests : Working(x)' => Working(x) /\ x # q
    BY <1>1, <2>1 DEF Working, TypeOK
  <2>6. \A x \in Requests : Working(x)' => runOf[x] # runOf[q]
    BY <2>1, <2>5 DEF IInv, OneWorkerPerRun
  <2>7. SuspendedKeepsQuestion'
    BY <2>1, <2>3, <2>4, <2>5, <2>6 DEF IInv, SuspendedKeepsQuestion
  <2>8. WorkerHasRow' /\ OneWorkerPerRun' /\ SuspendedReason'
    BY <2>1, <2>3, <2>5 DEF IInv, WorkerHasRow, OneWorkerPerRun, SuspendedReason
  <2> QED
    BY <1>1, <2>2, <2>7, <2>8 DEF IInv
<1>13. CASE Complete(q)
  BY <1>3, <1>13 DEF Complete, UpdateStatus, UpdateRows, Pc, Settled
<1>14. CASE CompletionFails(q)
  BY <1>3, <1>14 DEF CompletionFails, UpdateStatus, UpdateRows, Pc, Settled
<1>15. CASE Close(q)
  BY <1>3, <1>15 DEF Close, rows, Pc
<1>16. CASE Teardown(q)
  <2>1. /\ pc[q] = "parted" /\ pc' = [pc EXCEPT ![q] = "done"] /\ UNCHANGED <<runOf, rows>>
        /\ handle' = [r \in Runs |-> IF r = runOf[q] /\ handle[r] = q THEN NoRequest ELSE handle[r]]
    BY <1>16 DEF Teardown, Leave, request, Unregister, Unregistered
  <2>2. \A r \in Runs : handle[r] # q
    BY <2>1 DEF IInv, RegistryExact
  <2>3. handle' = handle
    BY <1>1, <2>1, <2>2 DEF TypeOK
  <2>4. RegistryExact' /\ \A x \in Requests : Working(x)' = Working(x)
    BY <1>1, <2>1, <2>2, <2>3 DEF IInv, RegistryExact, Working, TypeOK
  <2> QED
    BY <1>1, <2>1, <2>4, Quiet DEF rows
<1> QED
  BY <1>5, <1>6, <1>7, <1>8, <1>9, <1>10, <1>11, <1>12, <1>13, <1>14, <1>15, <1>16
     DEF Worker, Setup, Stream, Finish

(* The environment's steps keep the strengthening.                          *)
LEMMA EnvironmentKeepsIInv ==
  ASSUME IInv, Environment
  PROVE  IInv'
<1>1. TypeOK /\ TypeOK'
  BY TypeEnvironment DEF IInv
<1>2. ASSUME NEW r \in Runs, CancelLive(r) PROVE IInv'
  <2> DEFINE q == handle[r]
  <2>1. q \in Requests /\ runOf[q] = r /\ pc[q] \in {"registered", "live"} /\ Working(q)
    BY <1>1, <1>2 DEF CancelLive, IInv, RegistryExact, TypeOK, Working
  <2> DEFINE next == IF pc[q] = "live" THEN "canceling" ELSE "halted"
  <2>2. /\ pc' = [pc EXCEPT ![q] = next] /\ runOf' = runOf /\ Unregister(q)
        /\ UNCHANGED interaction
    BY <1>2 DEF CancelLive, Leave, request
  <2>6. next \in Pc \ {"registered", "live"}
    BY DEF Pc
  <2>3. \A x \in Runs : status'[x] \in Settled \/ (status'[x] = status[x] /\ reason'[x] = reason[x])
    BY <1>2 DEF CancelLive, UpdateStatus, UpdateRows, Settled
  <2> HIDE DEF q, next
  <2>4. RegistryExact'
    BY <2>1, <2>2, <2>6, Departs
  <2>5. \A x \in Requests : Working(x)' => Working(x)
    BY <1>1, <2>1, <2>2 DEF Working, TypeOK
  <2> QED
    BY <1>1, <2>2, <2>3, <2>4, <2>5, Quiet
<1>3. ASSUME NEW r \in Runs, CancelPersisted(r) PROVE IInv'
  <2>1. UNCHANGED <<handle, runOf, pc, interaction>>
        /\ \A x \in Runs : status'[x] \in Settled \/ (status'[x] = status[x] /\ reason'[x] = reason[x])
    BY <1>3 DEF CancelPersisted, UpdateStatus, UpdateRows, Settled, request
  <2> QED
    BY <1>1, <2>1, RowsOnly
<1>4. ASSUME NEW s \in Sessions, ReadSession(s) PROVE IInv'
  <2>1. UNCHANGED <<handle, runOf, pc, interaction>>
        /\ \A x \in Runs : status'[x] \in Settled \/ (status'[x] = status[x] /\ reason'[x] = reason[x])
    BY <1>4 DEF ReadSession, ReclaimRows, Settled, request
  <2> QED
    BY <1>1, <2>1, RowsOnly
<1>5. ASSUME NEW q \in Requests, Disconnect(q) PROVE IInv'
  <2> DEFINE next == IF pc[q] = "live" THEN "done" ELSE "claimed"
  <2>1. /\ pc' = [pc EXCEPT ![q] = next] /\ runOf' = runOf /\ Unregister(q) /\ Working(q)
        /\ UNCHANGED rows
    BY <1>5 DEF Disconnect, Leave, Working, request
  <2>2. next \in Pc \ {"registered", "live"}
    BY DEF Pc
  <2> HIDE DEF next
  <2>3. RegistryExact'
    BY <2>1, <2>2, Departs
  <2>4. \A x \in Requests : Working(x)' => Working(x)
    BY <1>1, <2>1 DEF Working, TypeOK
  <2> QED
    BY <1>1, <2>1, <2>3, <2>4, Quiet DEF rows
<1>6. CASE Crash
  <2>1. /\ handle' = [r \in Runs |-> NoRequest] /\ UNCHANGED <<runOf, rows>>
        /\ \A x \in Requests : ~Working(x)'
    BY <1>6 DEF Crash, Working, request
  <2>2. RegistryExact'
    BY <2>1 DEF RegistryExact, Working
  <2> QED
    BY <1>1, <2>1, <2>2, Quiet DEF rows
<1>7. CASE Startup
  <2>1. UNCHANGED <<handle, runOf, pc, interaction>>
        /\ \A x \in Runs : status'[x] \in Settled \/ (status'[x] = status[x] /\ reason'[x] = reason[x])
    BY <1>7 DEF Startup, ReclaimRows, Settled, request
  <2> QED
    BY <1>1, <2>1, RowsOnly
<1> QED
  BY <1>2, <1>3, <1>4, <1>5, <1>6, <1>7 DEF Environment

(* Every step keeps the strengthening. *)
LEMMA NextKeepsIInv == IInv /\ [Next]_vars => IInv'
<1>1. ASSUME IInv, UNCHANGED vars PROVE IInv'
  BY <1>1 DEF vars, rows, request, IInv, TypeOK, WorkerHasRow, OneWorkerPerRun, RegistryExact,
              SuspendedKeepsQuestion, SuspendedReason, Working
<1> QED
  BY <1>1, SubmitKeepsIInv, WorkerKeepsIInv, EnvironmentKeepsIInv DEF Next

(* The strengthening holds in every reachable state.                        *)
LEMMA Inductive == Spec => []IInv
BY InitIInv, NextKeepsIInv, PTL DEF Spec

(* A run never has two workers: the database row alone serialises claims    *)
(* and resumes, with no lock in memory (run-identity-orchestrator.ts).      *)
THEOREM OneWorker == Spec => []OneWorkerPerRun
<1>1. IInv => OneWorkerPerRun
  BY DEF IInv
<1> QED
  BY <1>1, Inductive, PTL

(* The cancel registry holds the workers a cancel can still stop, no other. *)
THEOREM RegistryIsExact == Spec => []RegistryExact
<1>1. IInv => RegistryExact
  BY DEF IInv
<1> QED
  BY <1>1, Inductive, PTL

(* A suspended run keeps a pending question and nothing works on it.  Whether *)
(* an answer gets through is another matter: see SuspendedCanResume.          *)
THEOREM SuspendedHasQuestion == Spec => []SuspendedKeepsQuestion
<1>1. IInv => SuspendedKeepsQuestion
  BY DEF IInv
<1> QED
  BY <1>1, Inductive, PTL

-----------------------------------------------------------------------------
(* A step that a suspended row takes never shows a reclaim.                 *)
LEMMA StepKeepsSuspended ==
  ASSUME IInv, Next, NEW x \in Runs, status[x] = "suspended"
  PROVE  reason'[x] # "stale"
<1>1. TypeOK /\ reason[x] # "stale"
  BY DEF IInv, SuspendedReason
<1>2. ASSUME NEW q \in Requests, NEW r \in Runs, Submit(q, r) PROVE reason'[x] # "stale"
  <2> USE DEF UpdateRows, ReclaimRows, EarlyFailure
  <2>1. x \notin StaleRuns(SessionOf[r], r)
    BY <1>1, StaleAreRunning
  <2>2. CASE RejectRequest(q, r)
    BY <1>1, <2>2 DEF RejectRequest
  <2>3. CASE ReplayRun(q, r)
    BY <1>1, <2>3 DEF ReplayRun, rows
  <2>4. CASE RejectClaim(q, r)
    <3>1. CASE q \in BlankInput
      BY <1>1, <2>1, <2>4, <3>1 DEF RejectClaim
    <3>2. CASE q \notin BlankInput
      BY <1>1, <2>1, <2>4, <3>2 DEF RejectClaim
    <3> QED
      BY <3>1, <3>2
  <2>5. CASE ClaimRun(q, r)
    BY <1>1, <2>1, <2>5 DEF ClaimRun
  <2>6. ASSUME NEW c \in Calls, RefuseResume(q, r, c) PROVE reason'[x] # "stale"
    BY <1>1, <2>1, <2>6 DEF RefuseResume
  <2>7. ASSUME NEW c \in Calls, NEW m \in {"answer", "decline"}, ResumeRun(q, r, c, m)
        PROVE  reason'[x] # "stale"
    BY <1>1, <2>1, <2>7 DEF ResumeRun
  <2> QED
    BY <1>2, <2>2, <2>3, <2>4, <2>5, <2>6, <2>7 DEF Submit
<1>3. ASSUME NEW q \in Requests, Worker(q) PROVE reason'[x] # "stale"
  <2> USE DEF UpdateStatus, UpdateRows, ReclaimRows, EarlyFailure, rows
  <2>1. CASE Setup(q)
    BY <1>1, <2>1 DEF Setup, Register, Subscribe, SetupFails
  <2>2. CASE Stream(q)
    BY <1>1, <2>2 DEF Stream, ToolAnswered, FinishDeclined, FinishAgent, AgentFails, Interrupt, Teardown
  <2>3. CASE Finish(q)
    BY <1>1, <2>3 DEF Finish, Complete, CompletionFails, Close
  <2> QED
    BY <1>3, <2>1, <2>2, <2>3 DEF Worker
<1>4. CASE Environment
  <2> USE DEF UpdateStatus, UpdateRows, ReclaimRows, rows
  <2>1. ASSUME NEW s \in Sessions, ReadSession(s) PROVE reason'[x] # "stale"
    <3>1. x \notin StaleRuns(s, NoRun)
      BY <1>1, StaleAreRunning
    <3> QED
      BY <1>1, <2>1, <3>1 DEF ReadSession
  <2>2. CASE Startup
    <3>1. x \notin Orphans
      BY OrphansAreRunning
    <3> QED
      BY <1>1, <2>2, <3>1 DEF Startup
  <2>3. CASE Crash \/ \E r \in Runs : CancelLive(r) \/ CancelPersisted(r)
    BY <1>1, <2>3 DEF Crash, CancelLive, CancelPersisted
  <2>4. CASE \E q \in Requests : Disconnect(q)
    BY <1>1, <2>4 DEF Disconnect
  <2> QED
    BY <1>4, <2>1, <2>2, <2>3, <2>4 DEF Environment
<1> QED
  BY <1>2, <1>3, <1>4 DEF Next

(* No claim, reader or restart reclaims a suspended run.                    *)
THEOREM SuspendedSurvives == Spec => SuspendedNeverReclaimed
<1> DEFINE Kept == \A r \in Runs : status[r] = "suspended" => reason'[r] # "stale"
<1>1. IInv /\ [Next]_vars => [Kept]_vars
  BY StepKeepsSuspended
<1>2. Spec => [][Kept]_vars
  BY <1>1, Inductive, PTL DEF Spec
<1> QED
  BY <1>2 DEF SuspendedNeverReclaimed

-----------------------------------------------------------------------------
(* A run is a lease: what a step does to the status and workers of a run.   *)

Settles(r) ==
  /\ status'[r] \in Settled \/ status'[r] = status[r]
  /\ WorkersOf(r)' \in {WorkersOf(r), {}}

Begins(r) ==
  /\ status[r] \in {"none", "suspended"} /\ WorkersOf(r) = {}
  /\ status'[r] = "running" /\ \E q \in Requests : WorkersOf(r)' = {q}

Asks(r) == WorkersOf(r) # {} /\ status'[r] = "suspended" /\ WorkersOf(r)' = {}

(* Each of them is a step of the lease.                                     *)
LEMMA MovesMap ==
  ASSUME TypeOK, TypeOK', \A r \in Runs : Settles(r) \/ Begins(r) \/ Asks(r)
  PROVE  Lease!Next
<1> USE DEF Lease!Becomes
<1>1. \A r \in Runs : /\ status[r] = "none" => StateOf(r) = "new"
                      /\ status[r] = "suspended" => StateOf(r) = "waiting"
                      /\ status'[r] = "running" => StateOf(r)' = "running"
                      /\ status'[r] = "suspended" => StateOf(r)' = "waiting"
                      /\ status'[r] \in Settled => StateOf(r)' = "over"
                      /\ status'[r] = status[r] => StateOf(r)' = StateOf(r)
  BY DEF StateOf, Settled
<1>2. ASSUME NEW r \in Runs, Settles(r)
      PROVE  Lease!End(r) \/ Lease!Leave(r) \/ Lease!Rest(r)
  <2>1. WorkersOf(r)' \in {WorkersOf(r), {}}
    BY <1>2 DEF Settles
  <2>2. CASE status'[r] \in Settled
    BY <1>1, <2>1, <2>2 DEF Lease!End
  <2>3. CASE status'[r] = status[r]
    BY <1>1, <2>1, <2>3 DEF Lease!Leave, Lease!Rest
  <2> QED BY <1>2, <2>2, <2>3 DEF Settles
<1>3. ASSUME NEW r \in Runs, Begins(r) PROVE Lease!Begin(r)
  BY <1>1, <1>3 DEF Begins, Lease!Begin
<1>4. ASSUME NEW r \in Runs, Asks(r) PROVE Lease!Ask(r)
  BY <1>1, <1>4 DEF Asks, Lease!Ask
<1> QED
  BY <1>2, <1>3, <1>4 DEF Lease!Next

(* A step that touches no worker but settles rows.                          *)
LEMMA RowsSettle ==
  ASSUME runOf' = runOf, \A q \in Requests : Working(q)' <=> Working(q),
         \A r \in Runs : status'[r] \in Settled \/ status'[r] = status[r]
  PROVE  \A r \in Runs : Settles(r)
BY DEF Settles, WorkersOf

(* A worker goes, and its run has no other.                                 *)
LEMMA WorkerGoes ==
  ASSUME IInv, NEW q \in Requests, Working(q), runOf' = runOf, ~Working(q)',
         \A x \in Requests : x # q => (Working(x)' <=> Working(x))
  PROVE  \A r \in Runs : /\ r = runOf[q] => WorkersOf(r) # {} /\ WorkersOf(r)' = {}
                         /\ r # runOf[q] => WorkersOf(r)' = WorkersOf(r)
<1>1. \A x \in Requests : Working(x) /\ runOf[x] = runOf[q] => x = q
  BY DEF IInv, OneWorkerPerRun
<1> QED
  BY <1>1 DEF WorkersOf

(* A POST begins a run or settles others.                                   *)
LEMMA SubmitMoves ==
  ASSUME IInv, NEW q \in Requests, NEW r \in Runs, Submit(q, r)
  PROVE  \A x \in Runs : Settles(x) \/ Begins(x) \/ Asks(x)
<1> USE DEF UpdateRows, ReclaimRows, Settled
<1>1. TypeOK
  BY DEF IInv
<1>2. ASSUME Answered(q), pc[q] = "idle", \A x \in Runs : status'[x] \in Settled \/ status'[x] = status[x]
      PROVE  \A x \in Runs : Settles(x)
  <2>1. runOf' = runOf /\ \A x \in Requests : Working(x)' <=> Working(x)
    BY <1>1, <1>2 DEF Answered, request, Working, TypeOK
  <2> QED BY <1>2, <2>1, RowsSettle
<1>3. ASSUME NEW m, NEW c, pc[q] = "idle", Enter(q, r, m, c), status[r] \in {"none", "suspended"},
             status'[r] = "running", \A x \in Runs \ {r} : status'[x] \in Settled \/ status'[x] = status[x]
      PROVE  \A x \in Runs : Settles(x) \/ Begins(x)
  <2>1. \A x \in Requests : Working(x) => runOf[x] # r
    BY <1>3 DEF IInv, WorkerHasRow, SuspendedKeepsQuestion
  <2>2. /\ ~Working(q) /\ Working(q)' /\ runOf'[q] = r
        /\ \A x \in Requests : x # q => (Working(x)' <=> Working(x)) /\ runOf'[x] = runOf[x]
    BY <1>1, <1>3 DEF Enter, Working, TypeOK
  <2>3. WorkersOf(r) = {} /\ WorkersOf(r)' = {q}
    BY <2>1, <2>2 DEF WorkersOf
  <2>4. \A x \in Runs : x # r => WorkersOf(x)' = WorkersOf(x)
    BY <2>2 DEF WorkersOf
  <2> QED BY <1>3, <2>3, <2>4 DEF Settles, Begins
<1>4. CASE RejectRequest(q, r)
  BY <1>2, <1>4 DEF RejectRequest, EarlyFailure
<1>5. CASE ReplayRun(q, r)
  BY <1>2, <1>5 DEF ReplayRun, rows
<1>6. CASE RejectClaim(q, r)
  BY <1>2, <1>6 DEF RejectClaim, EarlyFailure
<1>7. CASE ClaimRun(q, r)
  <2>1. status'[r] = "running" /\ \A x \in Runs \ {r} : status'[x] \in Settled \/ status'[x] = status[x]
    BY <1>7 DEF ClaimRun
  <2> QED BY <1>3, <1>7, <2>1 DEF ClaimRun
<1>8. ASSUME NEW c \in Calls, RefuseResume(q, r, c) PROVE \A x \in Runs : Settles(x)
  BY <1>2, <1>8 DEF RefuseResume
<1>9. ASSUME NEW c \in Calls, NEW m \in {"answer", "decline"}, ResumeRun(q, r, c, m)
      PROVE  \A x \in Runs : Settles(x) \/ Begins(x)
  <2>1. status'[r] = "running" /\ \A x \in Runs \ {r} : status'[x] \in Settled \/ status'[x] = status[x]
    BY <1>9 DEF ResumeRun
  <2> QED BY <1>3, <1>9, <2>1 DEF ResumeRun, Resumable
<1> QED
  BY <1>4, <1>5, <1>6, <1>7, <1>8, <1>9 DEF Submit

(* A worker's step settles its run, leaves it or asks.                      *)
LEMMA WorkerMoves ==
  ASSUME IInv, NEW q \in Requests, Worker(q)
  PROVE  \A x \in Runs : Settles(x) \/ Begins(x) \/ Asks(x)
<1> USE DEF UpdateStatus, UpdateRows, ReclaimRows, Settled
<1>1. TypeOK
  BY DEF IInv
<1>2. ASSUME Working(q), NEW next, Leave(q, next),
             \A x \in Runs : status'[x] \in Settled \/ status'[x] = status[x]
      PROVE  \A x \in Runs : Settles(x)
  <2>1. runOf' = runOf /\ pc' = [pc EXCEPT ![q] = next]
    BY <1>2 DEF Leave, request
  <2>2. \A x \in Requests : x # q => (Working(x)' <=> Working(x))
    BY <1>1, <2>1 DEF Working, TypeOK
  <2>3. CASE Working(q)'
    <3>1. \A x \in Requests : Working(x)' <=> Working(x)
      BY <1>2, <2>2, <2>3
    <3> QED BY <1>2, <2>1, <3>1, RowsSettle
  <2>4. CASE ~Working(q)'
    <3>1. \A x \in Runs : WorkersOf(x)' \in {WorkersOf(x), {}}
      BY <1>2, <2>1, <2>2, <2>4, WorkerGoes
    <3> QED BY <1>2, <3>1 DEF Settles
  <2> QED BY <2>3, <2>4
<1>3. CASE Register(q) \/ Subscribe(q) \/ SetupFails(q)
  <2>1. Working(q) /\ \E next : Leave(q, next)
    BY <1>3 DEF Register, Subscribe, SetupFails, Working
  <2>2. \A x \in Runs : status'[x] \in Settled \/ status'[x] = status[x]
    BY <1>3 DEF Register, Subscribe, SetupFails, EarlyFailure, rows
  <2> QED BY <1>2, <2>1, <2>2
<1>4. CASE ToolAnswered(q)
  <2>1. runOf' = runOf /\ status' = status /\ \A x \in Requests : Working(x)' <=> Working(x)
    BY <1>4 DEF ToolAnswered, request, Working
  <2> QED BY <2>1, RowsSettle
<1>5. CASE FinishDeclined(q) \/ FinishAgent(q) \/ AgentFails(q)
  <2>1. Working(q) /\ \E next : Leave(q, next)
    BY <1>5 DEF FinishDeclined, FinishAgent, AgentFails, Working
  <2>2. \A x \in Runs : status'[x] \in Settled \/ status'[x] = status[x]
    BY <1>5 DEF FinishDeclined, FinishAgent, AgentFails, rows
  <2> QED BY <1>2, <2>1, <2>2
<1>6. ASSUME NEW c \in Calls, Interrupt(q, c) PROVE \A x \in Runs : Settles(x) \/ Asks(x)
  <2>1. runOf' = runOf /\ pc' = [pc EXCEPT ![q] = "parted"] /\ Working(q)
    BY <1>6 DEF Interrupt, Leave, request, Working
  <2>2. ~Working(q)' /\ \A x \in Requests : x # q => (Working(x)' <=> Working(x))
    BY <1>1, <2>1 DEF Working, TypeOK
  <2>3. \A x \in Runs : status'[x] = IF x = runOf[q] THEN "suspended" ELSE status[x]
    BY <1>6 DEF Interrupt
  <2>4. \A x \in Runs : /\ x = runOf[q] => WorkersOf(x) # {} /\ WorkersOf(x)' = {}
                        /\ x # runOf[q] => WorkersOf(x)' = WorkersOf(x)
    BY <2>1, <2>2, WorkerGoes
  <2> QED BY <2>3, <2>4 DEF Settles, Asks
<1>7. CASE Complete(q) \/ CompletionFails(q) \/ Close(q)
  <2>1. Working(q) /\ \E next : Leave(q, next)
    BY <1>7 DEF Complete, CompletionFails, Close, Working
  <2>2. \A x \in Runs : status'[x] \in Settled \/ status'[x] = status[x]
    BY <1>7 DEF Complete, CompletionFails, Close, rows
  <2> QED BY <1>2, <2>1, <2>2
<1>8. CASE Teardown(q)
  <2>1. runOf' = runOf /\ status' = status /\ pc[q] = "parted" /\ pc' = [pc EXCEPT ![q] = "done"]
    BY <1>8 DEF Teardown, Leave, request, rows
  <2>2. \A x \in Requests : Working(x)' <=> Working(x)
    BY <1>1, <2>1 DEF Working, TypeOK
  <2> QED BY <2>1, <2>2, RowsSettle
<1> QED
  BY <1>3, <1>4, <1>5, <1>6, <1>7, <1>8 DEF Worker, Setup, Stream, Finish

(* Readers, cancels, lost clients, crashes and restarts settle or leave.    *)
LEMMA EnvironmentMoves ==
  ASSUME IInv, Environment
  PROVE  \A x \in Runs : Settles(x)
<1> USE DEF UpdateStatus, UpdateRows, ReclaimRows, Settled
<1>1. TypeOK
  BY DEF IInv
<1>2. ASSUME UNCHANGED <<runOf, pc>>, \A x \in Runs : status'[x] \in Settled \/ status'[x] = status[x]
      PROVE  \A x \in Runs : Settles(x)
  <2>1. \A x \in Requests : Working(x)' <=> Working(x)
    BY <1>2 DEF Working
  <2> QED BY <1>2, <2>1, RowsSettle
<1>3. ASSUME NEW r \in Runs, CancelPersisted(r) PROVE \A x \in Runs : Settles(x)
  BY <1>2, <1>3 DEF CancelPersisted, request
<1>4. ASSUME NEW s \in Sessions, ReadSession(s) PROVE \A x \in Runs : Settles(x)
  BY <1>2, <1>4 DEF ReadSession, request
<1>5. CASE Startup
  BY <1>2, <1>5 DEF Startup, request
<1>6. ASSUME NEW r \in Runs, CancelLive(r) PROVE \A x \in Runs : Settles(x)
  <2> DEFINE q == handle[r]
  <2>1. q \in Requests /\ pc[q] \in {"registered", "live"}
    BY <1>1, <1>6 DEF CancelLive, IInv, RegistryExact, TypeOK
  <2>2. runOf' = runOf /\ pc' = [pc EXCEPT ![q] = IF pc[q] = "live" THEN "canceling" ELSE "halted"]
    BY <1>6 DEF CancelLive, Leave, request
  <2> HIDE DEF q
  <2>3. \A x \in Requests : Working(x)' <=> Working(x)
    BY <1>1, <2>1, <2>2 DEF Working, TypeOK
  <2>4. \A x \in Runs : status'[x] \in Settled \/ status'[x] = status[x]
    BY <1>6 DEF CancelLive
  <2> QED BY <2>2, <2>3, <2>4, RowsSettle
<1>7. ASSUME NEW q \in Requests, Disconnect(q) PROVE \A x \in Runs : Settles(x)
  <2>1. /\ runOf' = runOf /\ status' = status /\ Working(q)
        /\ pc' = [pc EXCEPT ![q] = IF pc[q] = "live" THEN "done" ELSE "claimed"]
    BY <1>7 DEF Disconnect, Leave, request, rows, Working
  <2>2. \A x \in Requests : x # q => (Working(x)' <=> Working(x))
    BY <1>1, <2>1 DEF Working, TypeOK
  <2>3. CASE pc[q] = "live"
    <3>1. ~Working(q)'
      BY <1>1, <2>1, <2>3 DEF Working, TypeOK
    <3>2. \A x \in Runs : WorkersOf(x)' \in {WorkersOf(x), {}}
      BY <2>1, <2>2, <3>1, WorkerGoes
    <3> QED BY <2>1, <3>2 DEF Settles
  <2>4. CASE pc[q] # "live"
    <3>1. Working(q)'
      BY <1>1, <2>1, <2>4 DEF Working, TypeOK
    <3>2. \A x \in Requests : Working(x)' <=> Working(x)
      BY <2>1, <2>2, <3>1
    <3> QED BY <2>1, <3>2, RowsSettle
  <2> QED BY <2>3, <2>4
<1>8. CASE Crash
  <2>1. status' = status /\ \A x \in Requests : ~Working(x)'
    BY <1>8 DEF Crash, Working, rows
  <2> QED BY <2>1 DEF Settles, WorkersOf
<1> QED
  BY <1>3, <1>4, <1>5, <1>6, <1>7, <1>8 DEF Environment

(* The lifecycle implements the lease: a run that is over and has no worker *)
(* is never worked on again, whatever question it leaves open.              *)
THEOREM RunsAreLeased == Spec => Leased
<1>1. Init => Lease!Init
  <2> SUFFICES ASSUME Init PROVE Lease!Init
    OBVIOUS
  <2>1. \A r \in Runs : StateOf(r) = "new" /\ WorkersOf(r) = {}
    BY DEF Init, StateOf, WorkersOf, Working, Settled
  <2> QED BY <2>1 DEF Lease!Init
<1>2. IInv /\ IInv' /\ [Next]_vars => [Lease!Next]_(Lease!vars)
  <2> SUFFICES ASSUME IInv, IInv', [Next]_vars PROVE Lease!Next \/ UNCHANGED Lease!vars
    BY DEF Lease!vars
  <2>1. TypeOK /\ TypeOK'
    BY DEF IInv
  <2>2. CASE Next
    <3>1. \A x \in Runs : Settles(x) \/ Begins(x) \/ Asks(x)
      BY <2>2, SubmitMoves, WorkerMoves, EnvironmentMoves DEF Next
    <3> QED BY <2>1, <3>1, MovesMap
  <2>3. CASE UNCHANGED vars
    <3>1. \A x \in Runs : StateOf(x)' = StateOf(x) /\ WorkersOf(x)' = WorkersOf(x)
      BY <2>3 DEF vars, rows, request, StateOf, WorkersOf, Working
    <3> QED BY <3>1 DEF Lease!vars
  <2> QED BY <2>2, <2>3
<1> QED
  BY <1>1, <1>2, Inductive, PTL DEF Spec, Leased, Lease!Spec
=============================================================================
