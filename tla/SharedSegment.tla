---------------------------- MODULE SharedSegment ----------------------------
(***************************************************************************)
(* One protocol segment that several processes write: commitWithRetry, the *)
(* part of ActionRouter.execute around it, and proposeCompletion.          *)
(*                                                                         *)
(* Every writer is a process of its own: between its read of the snapshot  *)
(* and its compare-and-set another one may commit.  (In one process the    *)
(* two are synchronous: ProtocolRun.)  A publication may throw after the   *)
(* commit, and a process may die anywhere.                                 *)
(***************************************************************************)
EXTENDS Naturals, FiniteSets

CONSTANTS
  Calls,       \* governed tool calls, one action each
  Completion,  \* the writer that proposes the completion
  MaxActions,  \* the segment's action budget
  Attempts,    \* protocolMaxCommitRetries + 1
  Undecided

ASSUME CompletionApart == Completion \notin Calls
ASSUME BoundsOk == MaxActions \in Nat /\ Attempts \in Nat \ {0}

VARIABLES
  row,         \* the snapshot: revision, action records, domain, decision
  op,          \* the operation each writer commits
  pc,          \* where it is: reading, writing, publishing, ...
  copy,        \* the snapshot it has read
  attempt,     \* its conflicts so far
  told         \* what its caller is told, or is to be told

writer == <<op, pc, copy, attempt, told>>
vars   == <<row, writer>>

Writers == Calls \cup {Completion}

\* A row is replaced as a whole: the ledger it must be seen as.
Ledger == INSTANCE ActionLedger WITH
  status <- row.status, folded <- row.folded, basis <- row.basis

Fresh == [rev |-> 0, status |-> [c \in Calls |-> "none"], folded |-> {}, basis |-> Undecided]

Used(x) == {c \in Calls : x.status[c] # "none"}

-----------------------------------------------------------------------------
(* What a writer builds from the snapshot it has read. *)

\* proposeCompletion
Decided(x) == [x EXCEPT !.rev = @ + 1, !.basis = x.folded]

Recorded(x, c, status) == [x EXCEPT !.rev = @ + 1, !.status[c] = status]

\* recordActionSuccess replays the reducer on the domain that was read.
Succeeded(x, c) == [Recorded(x, c, "succeeded") EXCEPT !.folded = @ \cup {c}]

Built(w) ==
  CASE op[w] = "begin"   -> Recorded(copy[w], w, "requested")
    [] op[w] = "reject"  -> Recorded(copy[w], w, "rejected")
    [] op[w] = "succeed" -> Succeeded(copy[w], w)
    [] op[w] = "fail"    -> Recorded(copy[w], w, "failed")
    [] OTHER             -> Decided(copy[w])

\* assertActionAllowedInState, requireRequestedAction
Admits(w) ==
  /\ op[w] = "begin" => Cardinality(Used(row)) < MaxActions
  /\ op[w] \in {"succeed", "fail"} => row.status[w] = "requested"

-----------------------------------------------------------------------------
(* The writers. *)

Begins(w, o, answer) ==
  /\ op' = [op EXCEPT ![w] = o] /\ pc' = [pc EXCEPT ![w] = "reading"]
  /\ attempt' = [attempt EXCEPT ![w] = 0] /\ told' = [told EXCEPT ![w] = answer]

Ends(w, answer) ==
  /\ pc' = [pc EXCEPT ![w] = "over"] /\ told' = [told EXCEPT ![w] = answer]
  /\ op' = [op EXCEPT ![w] = "none"] /\ attempt' = [attempt EXCEPT ![w] = 0]

Goes(w, step) == pc' = [pc EXCEPT ![w] = step] /\ UNCHANGED <<op, attempt, told>>

Forgets(w) == copy' = [copy EXCEPT ![w] = Fresh]

\* ActionRouter.execute, refused by a policy or not.
Start(c) ==
  /\ pc[c] = "idle"
  /\ \E o \in {"begin", "reject"} : Begins(c, o, "not_started")
  /\ UNCHANGED <<row, copy>>

Propose ==
  /\ pc[Completion] = "idle" /\ Begins(Completion, "decide", "failed")
  /\ UNCHANGED <<row, copy>>

\* Mutant: a retry takes the new revision and keeps the rest of its snapshot.
KeepsFirst(w) == IF attempt[w] = 0 THEN row ELSE [copy[w] EXCEPT !.rev = row.rev]

\* stateStore.get, in every attempt.
Seen(w) == row

\* What the operation's failure leads to: a call whose result cannot be
\* recorded has been executed; a failure that cannot be recorded is still told.
GivesUp(w, contended) ==
  \/ op[w] = "succeed" /\ contended  /\ Ends(w, "uncommitted")
  \/ op[w] = "succeed" /\ ~contended /\ Begins(w, "fail", "uncommitted")
  \/ op[w] # "succeed" /\ Ends(w, told[w])

Read(w) ==
  /\ pc[w] = "reading"
  /\ IF Admits(w)
       THEN /\ copy' = [copy EXCEPT ![w] = Seen(w)]
            /\ Goes(w, "writing")
       ELSE /\ Forgets(w)
            /\ IF op[w] = "begin" THEN Begins(w, "reject", "not_started") ELSE GivesUp(w, FALSE)
  /\ UNCHANGED row

\* compareAndSet
Unchanged(w) == copy[w].rev = row.rev

Write(w) ==
  /\ pc[w] = "writing" /\ Unchanged(w)
  /\ row' = Built(w)
  /\ Goes(w, "publishing") /\ Forgets(w)

\* Mutant: one attempt too many.
OneMore(w) == op[w] = "decide" \/ attempt[w] = Attempts

\* The completion has a single attempt.
Last(w) == op[w] = "decide" \/ attempt[w] + 1 = Attempts

\* PROTOCOL_REVISION_CONFLICT
Conflict(w) ==
  /\ pc[w] = "writing" /\ ~Unchanged(w)
  /\ \/ /\ ~Last(w) /\ pc' = [pc EXCEPT ![w] = "reading"]
        /\ attempt' = [attempt EXCEPT ![w] = @ + 1]
        /\ UNCHANGED <<op, told, copy>>
     \/ Last(w) /\ GivesUp(w, TRUE) /\ Forgets(w)
  /\ UNCHANGED row

\* Mutant: what was committed was done.
AllDone(w) == "done"

Answer(w) == IF op[w] \in {"succeed", "decide"} THEN "done" ELSE told[w]

\* The events of the commit are published, or the publication throws: the
\* commit stands, and its caller sees a failure.
Publish(w) ==
  /\ pc[w] = "publishing"
  /\ \/ op[w] = "begin" /\ Goes(w, "executing")
     \/ op[w] # "begin" /\ Ends(w, Answer(w))
     \/ GivesUp(w, FALSE)
  /\ UNCHANGED <<row, copy>>

\* The tool returns, throws, or returns what cannot be processed.
Execute(c) ==
  /\ pc[c] = "executing"
  /\ \/ Begins(c, "succeed", "uncommitted")
     \/ \E answer \in {"failed", "uncommitted"} : Begins(c, "fail", answer)
  /\ UNCHANGED <<row, copy>>

\* The process dies: nobody is told.
Die(w) ==
  /\ pc[w] \notin {"idle", "over"}
  /\ Ends(w, "nothing") /\ Forgets(w)
  /\ UNCHANGED row

Init ==
  /\ row = Fresh
  /\ op = [w \in Writers |-> "none"] /\ pc = [w \in Writers |-> "idle"]
  /\ copy = [w \in Writers |-> Fresh] /\ attempt = [w \in Writers |-> 0]
  /\ told = [w \in Writers |-> "nothing"]

Next ==
  \/ Propose
  \/ \E c \in Calls : Start(c) \/ Execute(c)
  \/ \E w \in Writers : Read(w) \/ Write(w) \/ Conflict(w) \/ Publish(w) \/ Die(w)

Spec == Init /\ [][Next]_vars

-----------------------------------------------------------------------------
Operations == {"begin", "reject", "succeed", "fail", "decide"}
Answers    == {"nothing", "not_started", "failed", "uncommitted", "done"}
Steps      == {"idle", "reading", "writing", "publishing", "executing", "over"}
Statuses   == {"none", "requested", "rejected", "succeeded", "failed"}
Snapshots  == [rev : Nat, status : [Calls -> Statuses], folded : SUBSET Calls,
               basis : (SUBSET Calls) \cup {Undecided}]

\* Every variable stays in its type.
TypeOK ==
  /\ row \in Snapshots
  /\ op \in [Writers -> Operations \cup {"none"}]
  /\ pc \in [Writers -> Steps]
  /\ copy \in [Writers -> Snapshots]
  /\ attempt \in [Writers -> Nat]
  /\ \A w \in Writers : attempt[w] < Attempts
  /\ told \in [Writers -> Answers]

\* What a call is told is so: done only with the result in the domain, not
\* started or failed only without it.  Uncommitted says that it was executed.
ToldTruly ==
  \A c \in Calls : pc[c] = "over" =>
    /\ told[c] = "done" => c \in row.folded
    /\ told[c] \in {"not_started", "failed"} => c \notin row.folded
    /\ told[c] \in {"failed", "uncommitted"} => row.status[c] \notin {"none", "rejected"}

\* "commits parallel action results without re-executing tools or losing
\* domain updates": the conditional writes of the snapshot amount to atomic
\* steps on it.
Atomic == Ledger!Spec
=============================================================================
