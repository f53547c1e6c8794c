---------------------------- MODULE TraceSections ----------------------------
(***************************************************************************)
(* Trace sections: TraceSectionCoordinator summarises the event log of a   *)
(* run in ranges while the log grows, with a call of the model between     *)
(* what it reads and what it writes.                                       *)
(*                                                                         *)
(* The coordinator belongs to the worker's pipeline.  A run that suspends  *)
(* for a question goes on with a second one, and the first is not stopped. *)
(***************************************************************************)
EXTENDS Naturals, Sequences, FiniteSets, FiniteSetsExt

CONSTANTS
  Phases,        \* phase keys a summary can name
  Pipelines,     \* workers of the run: 1 + how often it is resumed
  MaxEvents,     \* bound on the log
  CheckSteps,    \* CONTEXT_STEPS_PER_SECTION_CHECK (3)
  ChunkSteps,    \* MAX_CONTEXT_STEPS_PER_SUMMARY_CHUNK (3)
  SectionSteps   \* MAX_CONTEXT_STEPS_PER_SECTION (16)

ASSUME LimitsOk == {Pipelines, MaxEvents, CheckSteps, ChunkSteps, SectionSteps} \subseteq Nat \ {0}

VARIABLES
  log,        \* run_events in seq order, by kind
  cur,        \* the pipeline of the current worker
  stage,      \* what the run does
  sections,   \* rows of trace_sections
  due,        \* pendingByRun of each coordinator
  job,        \* the range each coordinator is having summarised
  overlapped  \* history: two coordinators worked on the run at once

run   == <<log, cur, stage>>
trace == <<sections, job, overlapped>>
vars  == <<run, due, trace>>

Ps == 1 .. Pipelines

\* Every context.compiled event leaves a context checkpoint at its seq.
ContextSteps(from, to, l) == {i \in from .. to : l[i] = "compiled"}

\* Mutant: the range that is due ends after the event observed.
AskedPast(d, to, force) == [to |-> to + 1, force |-> force]

\* schedule: one pending range per run, merged with what is already due.
Asked(d, to, force) ==
  IF d.to = 0 THEN [to |-> to, force |-> force]
  ELSE [to |-> IF d.to > to THEN d.to ELSE to, force |-> d.force \/ force]
NoDue == [to |-> 0, force |-> FALSE]

\* TraceSectionCoordinator.observe of the last event written.
Scheduled(d, l) ==
  LET n == Len(l) IN
  CASE l[n] = "terminal" -> Asked(d, n, TRUE)
    [] l[n] = "compiled" /\ Cardinality(ContextSteps(1, n, l)) % CheckSteps = 0 -> Asked(d, n, FALSE)
    [] OTHER -> d

-----------------------------------------------------------------------------
(* The run: deliver() writes the event, then the coordinator observes it. *)

Write(kind) ==
  /\ log' = Append(log, kind)
  /\ due' = [due EXCEPT ![cur] = Scheduled(@, log')]
  /\ UNCHANGED <<cur, trace>>

Record(kind) ==
  /\ stage = "running" /\ Len(log) < MaxEvents
  /\ Write(kind) /\ UNCHANGED stage

Terminals == {i \in DOMAIN log : log[i] = "terminal"}

\* RUN_FINISHED or RUN_ERROR.
Finish == stage = "running" /\ stage' = "over" /\ Write("terminal")

\* An emit that throws once the event is written ends in finalizer.fail, which
\* writes RUN_ERROR.
FinishAgain ==
  /\ stage = "over" /\ Cardinality(Terminals) = 1
  /\ Write("terminal") /\ UNCHANGED stage

\* A title or a late tool result.
WriteLate == stage = "over" /\ Len(log) < MaxEvents /\ Write("other") /\ UNCHANGED stage

Suspend == stage = "running" /\ stage' = "suspended" /\ UNCHANGED <<log, cur, due, trace>>

Resume ==
  /\ stage = "suspended" /\ cur < Pipelines
  /\ stage' = "running" /\ cur' = cur + 1
  /\ UNCHANGED <<log, due, trace>>

-----------------------------------------------------------------------------
(* The coordinator. *)

Section(from, to, phase, status) == [from |-> from, to |-> to, phase |-> phase, status |-> status]
NoSection == Section(0, 0, "none", "none")
NoJob == [from |-> 0, to |-> 0, status |-> "none", latest |-> NoSection]

\* listByRun orders by start seq, and the coordinator takes the last.
Latest(ss) ==
  IF ss = {} THEN NoSection ELSE CHOOSE x \in ss : \A y \in ss : y.from <= x.from
Busy(p) == job[p] # NoJob

\* upsert replaces the row of that start seq.
Upsert(s, ss) == {x \in ss : x.from # s.from} \cup {s}

\* Mutant: the next range starts at the last event already covered.
NextFromOverlap(ss) == IF ss = {} THEN 1 ELSE Latest(ss).to
NextFrom(ss) == Latest(ss).to + 1

\* The last event of the range to summarise: just before the context step that
\* exceeds the chunk, or all that is due.
ChunkEnd(steps, to) ==
  IF Cardinality(steps) <= ChunkSteps THEN to
  ELSE (CHOOSE i \in steps : Cardinality({j \in steps : j < i}) = ChunkSteps) - 1

\* Mutant: what a chunk leaves over is forgotten.
ForgetRest(p, d, consumed) == [due EXCEPT ![p] = NoDue]

\* processRun takes what is due and, in the end, puts back what a chunk leaves
\* over, merged with what was asked meanwhile: put back here, it merges then.
Consume(p, d, consumed) ==
  [due EXCEPT ![p] = IF consumed < d.to THEN Asked(NoDue, d.to, d.force) ELSE NoDue]

\* summarizeRange up to the call of the model.
Summarize(p) ==
  LET d     == due[p]
      from  == NextFrom(sections)
      steps == ContextSteps(from, d.to, log)
      to    == ChunkEnd(steps, d.to)
  IN
  /\ ~Busy(p) /\ d # NoDue
  /\ \/ /\ d.to < from \/ (Cardinality(steps) <= ChunkSteps /\ ~d.force)
        /\ due' = Consume(p, d, d.to) /\ UNCHANGED trace
     \/ /\ d.to >= from /\ d.force /\ steps = {} /\ sections # {}
        /\ sections' = Upsert([Latest(sections) EXCEPT !.to = d.to, !.status = "completed"], sections)
        /\ due' = Consume(p, d, d.to) /\ UNCHANGED <<job, overlapped>>
     \/ /\ d.to >= from /\ (d.force \/ Cardinality(steps) > ChunkSteps)
        /\ steps # {} \/ sections = {}
        /\ job' = [job EXCEPT ![p] =
             [from |-> from, to |-> to, latest |-> Latest(sections),
              status |-> IF d.force /\ to = d.to THEN "completed" ELSE "in-progress"]]
        /\ overlapped' = (overlapped \/ \E o \in Ps \ {p} : Busy(o))
        /\ due' = Consume(p, d, to) /\ UNCHANGED sections
  /\ UNCHANGED run

\* Whether the range joins the section the coordinator read before the call.
Merges(j, phase) ==
  /\ j.latest # NoSection /\ j.latest.phase = phase
  /\ Cardinality(ContextSteps(j.latest.from, j.latest.to, log))
       + Cardinality(ContextSteps(j.from, j.to, log)) <= SectionSteps

\* The section before is closed, as it was read, when another phase begins.
Closed(j) ==
  IF j.latest.status = "in-progress" THEN Upsert([j.latest EXCEPT !.status = "completed"], sections)
  ELSE sections

\* The model has named the phase (or the fallback has): the rest of
\* summarizeRange.
Summarized(p, phase) ==
  LET j == job[p] IN
  /\ Busy(p)
  /\ job' = [job EXCEPT ![p] = NoJob]
  /\ sections' = IF Merges(j, phase)
       THEN Upsert(Section(j.latest.from, j.to, phase, j.status), sections)
       ELSE Upsert(Section(j.from, j.to, phase, j.status), Closed(j))
  /\ UNCHANGED <<run, due, overlapped>>

-----------------------------------------------------------------------------
\* The process stops: only a suspended run is ever resumed.
Crash ==
  /\ stage # "lost" /\ stage' = IF stage = "suspended" THEN stage ELSE "lost"
  /\ due' = [p \in Ps |-> NoDue] /\ job' = [p \in Ps |-> NoJob]
  /\ UNCHANGED <<log, cur, sections, overlapped>>

Init ==
  /\ log = <<>> /\ cur = 1 /\ stage = "running"
  /\ sections = {} /\ overlapped = FALSE
  /\ due = [p \in Ps |-> NoDue] /\ job = [p \in Ps |-> NoJob]

Coordinate(p) == Summarize(p) \/ \E phase \in Phases : Summarized(p, phase)

Next ==
  \/ \E kind \in {"compiled", "other"} : Record(kind)
  \/ Finish \/ FinishAgain \/ WriteLate \/ Suspend \/ Resume
  \/ \E p \in Ps : Coordinate(p)
  \/ Crash

\* The call of the model settles: its failures end in the fallback summary.
Spec == Init /\ [][Next]_vars /\ \A p \in Ps : WF_vars(Coordinate(p))

-----------------------------------------------------------------------------
Kinds    == {"compiled", "other", "terminal"}
Events   == 1 .. Len(log)
Sections == [from : Events, to : Events, phase : Phases, status : {"in-progress", "completed"}]
Jobs     == [from : Events, to : Events, status : {"in-progress", "completed"}, latest : Sections \cup {NoSection}]

\* Every variable stays in its type, and no range reaches beyond the log.
TypeOK ==
  /\ log \in Seq(Kinds) /\ cur \in Ps /\ stage \in {"running", "suspended", "over", "lost"}
  /\ sections \subseteq Sections /\ overlapped \in BOOLEAN
  /\ due \in [Ps -> [to : 0 .. Len(log), force : BOOLEAN]]
  /\ job \in [Ps -> Jobs \cup {NoJob}]

\* Trace sections tile the log from its first event: each event up to the end of
\* the last section is in one of them, and only the last is open.  Holds while
\* one coordinator at a time works on the run.
SectionsTile ==
  ~overlapped =>
    /\ \A x \in sections : x.from <= x.to /\ x.to <= Latest(sections).to
    /\ \A i \in 1 .. Latest(sections).to :
         \E x \in sections : \A y \in sections : i \in y.from .. y.to <=> y = x
    /\ \A x \in sections : x.status = "completed" \/ x = Latest(sections)

\* The trace of a run that ended is completed up to its terminal event, however
\* far the summaries had fallen behind.
TraceCompletes ==
  Terminals # {} ~> \/ Latest(sections).status = "completed" /\ Latest(sections).to >= Max(Terminals)
                    \/ stage = "lost" \/ overlapped

\* "Final section should contain the terminal node" and "Terminal run should
\* complete every section": what the store shows of a run that ended, once no
\* coordinator has anything left to do.
TerminalIsCovered ==
  stage = "over" /\ (\A p \in Ps : ~Busy(p) /\ due[p] = NoDue) =>
    /\ Latest(sections).to >= Max(Terminals)
    /\ \A x \in sections : x.status = "completed"
=============================================================================
