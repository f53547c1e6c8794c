------------------------------ MODULE RunEvents ------------------------------
(***************************************************************************)
(* The event log of one run: what RunEventPipeline writes, and when.       *)
(*                                                                         *)
(* Several writers share a pipeline without a lock: the agent stream, the  *)
(* tool boundary and the finalizer.  Only the stream looks at              *)
(* terminalStarted.  A run that suspends for a question goes on, after the *)
(* answer, in a new pipeline with a memory of its own; the tools of the    *)
(* old one are not stopped.  Events that no property tells apart (text,    *)
(* context steps, interaction.resolved) are left out.                      *)
(***************************************************************************)
EXTENDS Naturals, Sequences, FiniteSets, FiniteSetsExt, SequencesExt

CONSTANTS
  Calls,         \* tool calls of the run
  Governed,      \* those whose result the tool boundary emits
  Tasks,         \* the governed ones that change the task plan
  NoCall,
  Pipelines      \* pipelines of a run: 1 + how often it is resumed

ASSUME CallsOk ==
  IsFiniteSet(Calls) /\ Tasks \subseteq Governed /\ Governed \subseteq Calls /\ NoCall \notin Calls
ASSUME PipelinesOk == Pipelines \in Nat \ {0}

VARIABLES
  log,        \* run_events in seq order: type, tool call, pipeline that wrote it
  cur,        \* the pipeline of the current worker
  stage,      \* where that worker is; the stream is open while "streaming"
  tool,       \* what the runtime does with each call
  startedBy,  \* the pipeline whose agent started the call
  delivered,  \* deliveredToolResults of each pipeline
  awaiting,   \* calls the bridge of each pipeline saw end without a result
  named,      \* calls the task-plan projector of each pipeline knows the tool of
  memory,     \* the completed-run memory flush
  title       \* the session title task

worker == <<cur, stage, tool, startedBy, memory, title>>
bridge == <<delivered, awaiting, named>>
vars   == <<log, worker, bridge>>

Ps == 1 .. Pipelines
Types == {"end", "result", "marker", "plan", "asked", "status", "extracted", "flush", "title", "error", "terminal"}
Stages == {"streaming", "suspended", "flushing", "syncing", "canceling", "closing", "closed", "gone"}
Results == {"result", "marker"}

Event(p, type, c) == [type |-> type, call |-> c, by |-> p]
Plain(p, types) == [i \in DOMAIN types |-> Event(p, types[i], NoCall)]

-----------------------------------------------------------------------------
(* The pipeline: deliver() writes the row, then the observers see it. *)

Write(es) == log' = log \o es
Emit(p, types) == Write(Plain(p, types)) /\ UNCHANGED bridge

\* Mutant: the pipeline does not remember what it delivered.
EveryResult(p, c, type) == <<Event(p, type, c)>>

\* A second result of a call is dropped.
Fresh(p, c, type) == IF c \in delivered[p] THEN <<>> ELSE <<Event(p, type, c)>>

\* The result of a task tool projects a new plan, once per call.
Projected(p, c) == IF c \in Tasks \cap named[p] THEN <<Event(p, "plan", c)>> ELSE <<>>

\* The bridge and the projector observe a result that was dropped as well.
Deliver(p, c) ==
  /\ Write(Fresh(p, c, "result") \o Projected(p, c))
  /\ delivered' = [delivered EXCEPT ![p] = @ \cup {c}]
  /\ awaiting' = [awaiting EXCEPT ![p] = @ \ {c}]
  /\ named' = [named EXCEPT ![p] = @ \ {c}]

\* flushPendingResults: a marker for every call that ended without a result, in
\* some order; deliver() drops that of a call whose result it has.
Flushed(p, settled) ==
  LET calls == SetToSeq({c \in awaiting[p] \ settled : Fresh(p, c, "marker") # <<>>})
  IN  [i \in DOMAIN calls |-> Event(p, "marker", calls[i])]

EmitTerminal(p, before) ==
  /\ Write(Plain(p, before) \o Flushed(p, {}) \o Plain(p, <<"terminal">>))
  /\ delivered' = [delivered EXCEPT ![p] = @ \cup awaiting[p]]
  /\ awaiting' = [awaiting EXCEPT ![p] = {}]
  /\ UNCHANGED named

-----------------------------------------------------------------------------
(* The agent stream and its tools. *)

Streaming == stage = "streaming"

\* The model calls a tool, and the runtime starts it.
StartTool(c) ==
  /\ Streaming /\ tool[c] = "none"
  /\ tool' = [tool EXCEPT ![c] = "running"]
  /\ startedBy' = [startedBy EXCEPT ![c] = cur]
  /\ UNCHANGED <<log, cur, stage, memory, title, bridge>>

\* endedToolCallIds, of the worker.
Ended(c) == \E i \in DOMAIN log : log[i] = Event(cur, "end", c)

Span(c) ==
  /\ awaiting' = [awaiting EXCEPT ![cur] = @ \cup {c}]
  /\ named' = [named EXCEPT ![cur] = @ \cup {c}]

\* The span of the call (TOOL_CALL_START to TOOL_CALL_END) comes with the
\* stream, before or after the tool's own result.
EndCall(c) ==
  /\ Streaming /\ tool[c] \in {"running", "returned"} /\ startedBy[c] = cur /\ ~Ended(c)
  /\ Write(<<Event(cur, "end", c)>>) /\ Span(c)
  /\ UNCHANGED <<worker, delivered>>

\* A governed tool emits its result, or its error, wherever the worker is by
\* then; it writes through the pipeline it was started with.
ToolReturns(c) ==
  /\ tool[c] = "running"
  /\ tool' = [tool EXCEPT ![c] = "returned"]
  /\ IF c \in Governed THEN Deliver(startedBy[c], c) ELSE UNCHANGED <<log, bridge>>
  /\ UNCHANGED <<cur, stage, startedBy, memory, title>>

\* The stream repeats a governed result and brings the others.
StreamResult(c) ==
  /\ Streaming /\ tool[c] = "returned" /\ startedBy[c] = cur
  /\ tool' = [tool EXCEPT ![c] = "done"]
  /\ Deliver(cur, c)
  /\ UNCHANGED <<cur, stage, startedBy, memory, title>>

\* The call whose question this pipeline brings the answer to.
Resumed(c) == \E i \in DOMAIN log : log[i] = Event(cur - 1, "asked", c)

\* The result of the resumed call is there, and its interaction cannot be
\* resolved: the stream emits RUN_ERROR, reports no status and goes on.
ResumeFails(c) ==
  /\ Streaming /\ tool[c] = "returned" /\ startedBy[c] = cur /\ Resumed(c)
  /\ tool' = [tool EXCEPT ![c] = "done"]
  /\ Write(Fresh(cur, c, "result") \o Flushed(cur, {c}) \o Plain(cur, <<"error">>))
  /\ delivered' = [delivered EXCEPT ![cur] = @ \cup awaiting[cur] \cup {c}]
  /\ awaiting' = [awaiting EXCEPT ![cur] = {}]
  /\ named' = [named EXCEPT ![cur] = @ \ {c}]
  /\ UNCHANGED <<cur, stage, startedBy, memory, title>>

\* A tool of this stream asks the user: the run is suspended, and the span of the
\* call closed.
Question(c) == <<Event(cur, "asked", c), Event(cur, "status", NoCall)>>

Ask(c) ==
  /\ Streaming /\ tool[c] = "running" /\ startedBy[c] = cur /\ c \notin Governed
  /\ tool' = [tool EXCEPT ![c] = "asked"]
  /\ stage' = "suspended"
  /\ IF Ended(c)
       THEN Write(Question(c)) /\ UNCHANGED <<awaiting, named>>
       ELSE Write(Append(Question(c), Event(cur, "end", c))) /\ Span(c)
  /\ UNCHANGED <<cur, startedBy, memory, title, delivered>>

\* Mutant: the pipelines are counted twice.
SkipPipeline == cur + 2

NextPipeline == cur + 1

\* The answer opens a new pipeline in which the tool runs again.
Resume ==
  /\ stage = "suspended" /\ cur < Pipelines
  /\ cur' = NextPipeline /\ stage' = "streaming"
  /\ tool' = [c \in Calls |-> IF tool[c] = "asked" THEN "running" ELSE tool[c]]
  /\ startedBy' = [c \in Calls |-> IF tool[c] = "asked" THEN NextPipeline ELSE startedBy[c]]
  /\ UNCHANGED <<log, memory, title, bridge>>

-----------------------------------------------------------------------------
(* The finalizer. *)

Go(next) == stage' = next /\ UNCHANGED <<cur, tool, startedBy>>

FinishAgent ==
  /\ Streaming /\ Go("flushing") /\ memory' = "running"
  /\ UNCHANGED <<log, title, bridge>>

\* Mutant: the timeout closes neither the emitter nor the extraction.
Unscoped(types) == types

\* What the flush can still emit: after the timeout its emitter is closed.
Scoped(types) == IF memory = "late" THEN <<>> ELSE types

\* The flush settles, with or without new memories, in time or late.
MemorySettles(types) ==
  /\ memory \in {"running", "late"} /\ memory' = "settled"
  /\ Emit(cur, Scoped(types))
  /\ IF memory = "running" THEN Go("syncing") ELSE UNCHANGED <<stage, cur, tool, startedBy>>
  /\ UNCHANGED title

MemoryTimesOut ==
  /\ stage = "flushing" /\ memory = "running" /\ memory' = "late"
  /\ Go("syncing") /\ Emit(cur, <<"flush">>)
  /\ UNCHANGED title

\* The outputs are synced and the row is updated.
ReportStatus ==
  /\ stage \in {"syncing", "canceling"} /\ Go("closing")
  /\ Emit(cur, <<"status">>)
  /\ UNCHANGED <<memory, title>>

\* The workspace is destroyed.
Close ==
  /\ stage = "closing" /\ Go("closed")
  /\ EmitTerminal(cur, <<>>)
  /\ UNCHANGED <<memory, title>>

\* failRun from the stream; finalizer.fail after a completion that threw.
FailRun ==
  /\ stage \in {"streaming", "syncing", "closing"} /\ Go("closed")
  /\ EmitTerminal(cur, <<"status">>)
  /\ UNCHANGED <<memory, title>>

\* The end of a declined resume: the interaction's event, then the status.
Decline ==
  /\ Streaming /\ cur > 1 /\ Go("closing")
  /\ Emit(cur, <<"asked", "status">>)
  /\ UNCHANGED <<memory, title>>

CancelRun ==
  /\ Streaming /\ Go("canceling")
  /\ UNCHANGED <<log, memory, title, bridge>>

\* The subscriber of a live stream goes: no terminal event is written.
Disconnect ==
  /\ Streaming /\ Go("gone")
  /\ UNCHANGED <<log, memory, title, bridge>>

\* The title may be ready after the terminal event, and is still forwarded.
TitleReady ==
  /\ title = "running" /\ title' = "done"
  /\ Emit(1, <<"title">>)
  /\ UNCHANGED <<cur, stage, tool, startedBy, memory>>

\* The process stops: pipelines, tools and tasks are gone.
Crash ==
  /\ stage # "gone"
  /\ stage' = IF stage = "suspended" THEN stage ELSE "gone"
  /\ tool' = [c \in Calls |-> IF tool[c] = "asked" THEN "asked" ELSE "done"]
  /\ memory' = "settled" /\ title' = "done"
  /\ delivered' = [p \in Ps |-> {}] /\ awaiting' = [p \in Ps |-> {}] /\ named' = [p \in Ps |-> {}]
  /\ UNCHANGED <<log, cur, startedBy>>

-----------------------------------------------------------------------------
Init ==
  /\ log = <<>> /\ cur = 1 /\ stage = "streaming"
  /\ tool = [c \in Calls |-> "none"] /\ startedBy = [c \in Calls |-> 1]
  /\ delivered = [p \in Ps |-> {}] /\ awaiting = [p \in Ps |-> {}] /\ named = [p \in Ps |-> {}]
  /\ memory = "none" /\ title = "running"

Stream == \E c \in Calls : StartTool(c) \/ EndCall(c) \/ StreamResult(c) \/ ResumeFails(c) \/ Ask(c)
Memory == MemoryTimesOut \/ \E types \in {<<>>, <<"extracted">>, <<"flush">>} : MemorySettles(types)

Next ==
  \/ Stream \/ Resume \/ FinishAgent \/ FailRun \/ Decline \/ CancelRun \/ Disconnect
  \/ Memory \/ ReportStatus \/ Close \/ TitleReady \/ Crash
  \/ \E c \in Calls : ToolReturns(c)

Spec == Init /\ [][Next]_vars

-----------------------------------------------------------------------------
Events == [type : Types, call : Calls \cup {NoCall}, by : Ps]

\* Every variable stays in its type.
TypeOK ==
  /\ log \in Seq(Events)
  /\ cur \in Ps /\ stage \in Stages
  /\ tool \in [Calls -> {"none", "running", "returned", "done", "asked"}]
  /\ startedBy \in [Calls -> Ps]
  /\ {delivered, awaiting, named} \subseteq [Ps -> SUBSET Calls]
  /\ memory \in {"none", "running", "late", "settled"} /\ title \in {"running", "done"}

Terminals == {i \in DOMAIN log : log[i].type = "terminal"}
Errors == {i \in DOMAIN log : log[i].type = "error"}

\* A call got the marker of a RUN_ERROR after which its stream went on.
GivenUp(c) == \E e \in Errors : \E i \in 1 .. e : log[i] = Event(log[e].by, "marker", c)

\* "Must be delivered before RUN_FINISHED / RUN_ERROR": when a pipeline writes
\* either, every call it has seen end has one result, its own or a marker.  No
\* call ever has two, whoever delivers it and however late, but one that
\* RUN_ERROR gave up in mid-stream, which can still ask and run again.
ResultsSettled ==
  /\ \A t \in Terminals \cup Errors : \A i \in 1 .. t : log[i].type = "end" /\ log[i].by = log[t].by =>
       \E r \in 1 .. t : log[r].type \in Results /\ log[r].call = log[i].call
  /\ \A i, j \in DOMAIN log :
       log[i].type \in Results /\ log[j].type \in Results /\ log[i].call = log[j].call =>
         i = j \/ GivenUp(log[i].call)

\* The finalizer ends a run once, after the status it ends with.  What can still
\* follow is the title, a plan, and the result of a call whose end its pipeline
\* never saw (a tool that outlived a suspension, a span the stream did not
\* close): no memory event of a flush that the finalizer stopped waiting for.
\* The RUN_ERROR of a resume that fails is not an end: OneTerminalEvent.
TerminalEndsRun ==
  \A t \in Terminals :
    /\ \E i \in 1 .. t : log[i].type = "status" /\ log[i].by = log[t].by
    /\ \A i \in t + 1 .. Len(log) :
         /\ log[i].type \in {"result", "plan", "title"}
         /\ log[i].type = "result" => \A e \in 1 .. t : log[e].type = "end" /\ log[e].call = log[i].call => log[e].by # log[t].by
    /\ \A i, j \in 1 .. t : log[i].type = "flush" /\ j > i => log[j].type # "extracted"

\* run-finalizer.ts:30, "Owns terminal run state transitions and their externally
\* visible AG-UI event order": no run shows a second RUN_FINISHED or RUN_ERROR.
\* The code breaks it: the stream emits RUN_ERROR past the finalizer when the
\* interaction of a resumed call cannot be resolved, and ends again later.
OneTerminalEvent == Cardinality(Terminals \cup Errors) \leq 1
=============================================================================
