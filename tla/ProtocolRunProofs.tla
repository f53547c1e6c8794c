-------------------------- MODULE ProtocolRunProofs --------------------------
(***************************************************************************)
(* Proofs about ProtocolRun, for any calls, any data-analysis definition   *)
(* and any bounds.                                                         *)
(*                                                                         *)
(* None of the invariants the runs check is inductive alone.  That one     *)
(* segment is open needs that only the newest worker hands off; that a     *)
(* completed run is answered needs that the answer commit is made once;    *)
(* that the journal has every entry once needs that a commit's revision is *)
(* a new one; and that its publication is a prefix needs to know how far   *)
(* acknowledgement and publication have come.  IInv says so.               *)
(***************************************************************************)
EXTENDS ProtocolRun, FiniteSetTheorems, SequenceTheorems, TLAPS

USE CommitCallApart, BoundsAreNat

Ready == {"starting", "live", "answering", "deciding", "decided"}
Ended == run \in {"completed", "failed", "canceled"}

\* Where the run is, its worker and its calls agree.  Only the newest worker
\* has a handoff in flight, and the answer commit is made once.
Control ==
  /\ stage # "none" => run = "running" /\ worker # 0
  /\ run = "new" => last = 0
  /\ stage \in Ready => last # 0 /\ active[worker] = last
  /\ call[CommitCall].pc # "idle" => stage \in {"answering", "deciding", "decided"} \/ Ended

\* A call in flight was made on a segment its worker was on, and the worker has
\* only gone on from there.
CallOk(c) ==
  InFlight(c) =>
    /\ call[c].by \in 1..worker /\ call[c].at \in 1..last
    /\ active[call[c].by] \in call[c].at..last
    /\ call[c].name # "none" /\ (call[c].name = "handoff" => call[c].by = worker)
    /\ (HandingOff(c) => call[c].name = "handoff")
    /\ call[c].name = "answer" => c = CommitCall /\ call[c].step = 0

\* The result of the answer commit was folded in.
Answered(s) == <<"general-task", "answer">> \in seg[s].domain

\* Once the answer is committed nothing records its action again; the newest
\* segment, if a general task, then stays in its last phase.
AnswerOk ==
  /\ \A s \in Segments : Answered(s) =>
       /\ call[CommitCall].pc # "idle" /\ (InFlight(CommitCall) => call[CommitCall].step # 0)
       /\ seg[s].action[<<CommitCall, 0>>] = "succeeded"
  /\ last # 0 /\ seg[last].proto = "general-task" =>
       /\ seg[last].phase \in {"understand", "gather", "answer"}
       /\ Answered(last) => seg[last].phase = "answer"
       /\ seg[last].decision = "completed" => Answered(last)
  /\ stage = "decided" \/ run = "completed" => last # 0 /\ seg[last].status = "terminal"

\* Something of the run is alive that can commit.
Alive == stage # "none" \/ \E c \in All : InFlight(c)

\* The first k journal entries are acknowledged, those being published come
\* next, and a reader has seen the first k or one more.  While something is
\* alive, no entry is left behind.
LogAt(k) ==
  /\ acked = {journal[i] : i \in 1..k}
  /\ k + Len(publishing) <= Len(journal)
  /\ \A i \in 1..Len(publishing) : publishing[i] = journal[k + i]
  /\ Len(published) \in {k, k + 1} /\ Len(published) <= Len(journal)
  /\ \A i \in 1..Len(published) : published[i] = journal[i]
  /\ emitted => publishing # <<>> /\ Len(published) = k + 1
  /\ Alive => k + Len(publishing) + Len(deferred) = Len(journal)

LogOk == \E k \in 0..Len(journal) : LogAt(k)

\* Nothing commits while the first events wait for RUN_STARTED.
DeferredOk ==
  deferred # <<>> =>
    /\ deferred = journal /\ acked = {} /\ publishing = <<>>
    /\ \A c \in All : ~InFlight(c)
    /\ stage = "starting" \/ Ended

IInv ==
  /\ TypeOK
  /\ Control /\ \A c \in All : CallOk(c)
  /\ OneOpenSegment /\ RequestedIsInFlight
  /\ JournalExact
  /\ LogOk /\ DeferredOk
  /\ AnswerOk

-----------------------------------------------------------------------------
(* Segments. *)

\* A segment that one action is recorded in.
LEMMA RecordedType ==
  ASSUME NEW s \in Segments, seg[s] \in Segment, NEW id \in ActionId, NEW status \in ActionStatus
  PROVE  LET y == Recorded(s, id, status) IN
         /\ y \in Segment
         /\ y.rev = seg[s].rev + 1
         /\ y.action = [seg[s].action EXCEPT ![id] = status]
         /\ y.proto = seg[s].proto /\ y.status = seg[s].status /\ y.phase = seg[s].phase
         /\ y.domain = seg[s].domain /\ y.decision = seg[s].decision
<1> DEFINE x == seg[s]
           f == [x.action EXCEPT ![id] = status]
<1>1. f \in [ActionId -> ActionStatus] /\ x.rev + 1 \in Nat
  BY DEF Segment
<1>2. Recorded(s, id, status) = [x EXCEPT !.rev = x.rev + 1, !.action = f]
  BY DEF Recorded, Segment
<1> HIDE DEF f
<1>3. /\ [x EXCEPT !.rev = x.rev + 1, !.action = f] \in Segment
      /\ [x EXCEPT !.rev = x.rev + 1, !.action = f].action = f
  BY <1>1 DEF Segment
<1> QED
  BY <1>2, <1>3 DEF Segment, f

\* A definition moves from phase to phase.
LEMMA TargetType ==
  ASSUME NEW p \in Protocols, NEW ph \in Phase, NEW n
  PROVE  Target(p, ph, n) \in Phase
<1>1. CASE p = "general-task"
  <2>1. Definition[p] = GeneralTask
    BY <1>1 DEF Definition
  <2>2. Target(p, ph, n) \in {ph, "answer", "gather"}
    BY <2>1 DEF Target, Allowed, GeneralTask, WorkActions
  <2> QED
    BY <2>2 DEF Phase
<1>2. CASE p = "data-analysis"
  <2>1. Definition[p] = DataAnalysis
    BY <1>2 DEF Definition, Protocols
  <2>2. CASE n \in Allowed(p, ph)
    BY <2>1, <2>2, DataAnalysisDefined DEF Target, Allowed, Phase
  <2>3. CASE n \notin Allowed(p, ph)
    BY <2>3 DEF Target
  <2> QED
    BY <2>2, <2>3
<1> QED
  BY <1>1, <1>2 DEF Protocols

\* The general task moves among its own phases, and never from the last.
LEMMA GeneralTarget ==
  ASSUME NEW ph \in {"understand", "gather", "answer"}, NEW n
  PROVE  /\ Target("general-task", ph, n) \in {"understand", "gather", "answer"}
         /\ ph = "answer" \/ n = "answer" => Target("general-task", ph, n) = "answer"
BY DEF Target, Allowed, Definition, Protocols, GeneralTask, WorkActions

\* A segment that the result of a call is folded in.
LEMMA SucceededType ==
  ASSUME TypeOK, NEW c \in All, call[c].at \in Segments, active[call[c].by] \in Segments,
         call[c].name \in WorkActions
  PROVE  LET s == call[c].at
             p == Proto(call[c].by)
             y == Succeeded(c)
         IN
         /\ y \in Segment
         /\ y.rev = seg[s].rev + 1
         /\ y.action = [seg[s].action EXCEPT ![ActionOf(c)] = "succeeded"]
         /\ y.proto = seg[s].proto /\ y.status = seg[s].status /\ y.decision = seg[s].decision
         /\ y.domain = seg[s].domain \cup {<<p, call[c].name>>}
         /\ y.phase = Target(p, seg[s].phase, call[c].name)
         /\ p \in Protocols
<1> DEFINE s == call[c].at
           p == Proto(call[c].by)
           r == Recorded(s, ActionOf(c), "succeeded")
           d == seg[s].domain \cup {<<p, call[c].name>>}
           ph == Target(p, seg[s].phase, call[c].name)
<1>1. seg[s] \in Segment /\ seg[active[call[c].by]] \in Segment /\ ActionOf(c) \in ActionId
  BY DEF TypeOK, ActionOf, ActionId, ToolCall
<1>2. p \in Protocols
  BY <1>1 DEF Proto, Segment
<1>3. /\ r \in Segment /\ r.rev = seg[s].rev + 1
      /\ r.action = [seg[s].action EXCEPT ![ActionOf(c)] = "succeeded"]
      /\ r.proto = seg[s].proto /\ r.status = seg[s].status /\ r.phase = seg[s].phase
      /\ r.domain = seg[s].domain /\ r.decision = seg[s].decision
  BY <1>1, RecordedType DEF ActionStatus
<1>4. ph \in Phase /\ d \in SUBSET (Protocols \X WorkActions)
  BY <1>1, <1>2, TargetType DEF Segment
<1>5. Succeeded(c) = [r EXCEPT !.phase = ph, !.domain = d]
  BY <1>3 DEF Succeeded, Segment
<1> HIDE DEF r, ph, d
<1>6. LET z == [r EXCEPT !.phase = ph, !.domain = d]
      IN  /\ z \in Segment /\ z.rev = r.rev /\ z.action = r.action /\ z.proto = r.proto
          /\ z.status = r.status /\ z.decision = r.decision /\ z.domain = d /\ z.phase = ph
  BY <1>3, <1>4 DEF Segment
<1> QED
  BY <1>2, <1>3, <1>5, <1>6 DEF ph, d

\* A new segment.
LEMMA NewSegmentType ==
  ASSUME NEW p \in Protocols, NEW package \in 0..MaxWorkers
  PROVE  LET y == NewSegment(p, package) IN
         /\ y \in Segment
         /\ y.proto = p /\ y.rev = 0 /\ y.status = "active" /\ y.domain = {} /\ y.decision = "none"
         /\ p = "general-task" => y.phase = "understand"
         /\ \A id \in ActionId : y.action[id] = "none"
<1> DEFINE f == [id \in ActionId |-> "none"]
           ph == Definition[p].initial
<1>1. f \in [ActionId -> ActionStatus] /\ \A id \in ActionId : f[id] = "none"
  BY DEF ActionStatus
<1>2. ph \in Phase /\ (p = "general-task" => ph = "understand")
  BY DataAnalysisDefined DEF Definition, Protocols, GeneralTask, Phase
<1>3. NewSegment(p, package) =
        [proto |-> p, rev |-> 0, status |-> "active", phase |-> ph, domain |-> {},
         package |-> package, decision |-> "none", action |-> f]
  BY DEF NewSegment
<1> HIDE DEF f, ph
<1>4. \A id \in ActionId : f[id] = "none"
  BY <1>1
<1> QED
  BY <1>1, <1>2, <1>3, <1>4 DEF Segment, SegmentStatus

\* No segment yet.
LEMMA AbsentType ==
  /\ Absent \in Segment
  /\ Absent.status = "none" /\ Absent.domain = {} /\ Absent.rev = 0
  /\ \A id \in ActionId : Absent.action[id] = "none"
<1> DEFINE x == NewSegment("general-task", 0)
<1>1. x \in Segment /\ x.domain = {} /\ x.rev = 0 /\ \A id \in ActionId : x.action[id] = "none"
  BY NewSegmentType DEF Protocols
<1>2. Absent = [x EXCEPT !.status = "none"]
  BY DEF Absent
<1> HIDE DEF x
<1>3. LET z == [x EXCEPT !.status = "none"]
      IN  z \in Segment /\ z.status = "none" /\ z.domain = x.domain /\ z.rev = x.rev /\ z.action = x.action
  BY <1>1 DEF Segment, SegmentStatus
<1> QED
  BY <1>1, <1>2, <1>3

\* A segment that is handed off.
LEMMA EndedType ==
  ASSUME NEW x \in Segment
  PROVE  LET y == [x EXCEPT !.rev = @ + 1, !.status = "handed_off"] IN
         /\ y \in Segment /\ y.rev = x.rev + 1 /\ y.status = "handed_off"
         /\ y.proto = x.proto /\ y.phase = x.phase /\ y.domain = x.domain /\ y.action = x.action
         /\ y.package = x.package
<1>1. x.rev + 1 \in Nat
  BY DEF Segment
<1> QED
  BY <1>1 DEF Segment, SegmentStatus

-----------------------------------------------------------------------------
(* The journal. *)

\* JournalExact of any journal and segments.
Exact(j, g) ==
  /\ \A s \in Segments : g[s].status # "none" =>
       \A r \in 0..g[s].rev : \E i \in DOMAIN j : j[i] = <<s, r, 1>>
  /\ \A i \in DOMAIN j : g[j[i][1]].status # "none" /\ j[i][2] <= g[j[i][1]].rev
  /\ \A i, k \in DOMAIN j : j[i] = j[k] => i = k

LEMMA ExactJournal ==
  /\ JournalExact <=> Exact(journal, seg)
  /\ JournalExact' <=> Exact(journal', seg')
<1>1. ASSUME NEW j, NEW e
      PROVE  e \in ToSet(j) <=> \E i \in DOMAIN j : j[i] = e
  BY DEF ToSet
<1> QED
  BY <1>1 DEF JournalExact, Exact

\* j gets the event e.
Extends(j, k, e) ==
  /\ k \in Seq(Event) /\ Len(k) = Len(j) + 1
  /\ \A i \in 1..Len(j) : k[i] = j[i]
  /\ k[Len(j) + 1] = e

LEMMA InsertedNew ==
  ASSUME NEW j \in Seq(Event), NEW e \in Event, \A i \in DOMAIN j : j[i] # e
  PROVE  Extends(j, Inserted(j, e), e)
<1>1. e \notin ToSet(j)
  BY DEF ToSet
<1>2. Inserted(j, e) = Append(j, e)
  BY <1>1 DEF Inserted
<1> QED
  BY <1>2, AppendProperties DEF Extends

\* The segment gets its next revision: its first, or one more.
NextRevision(x, y) ==
  /\ y.status # "none"
  /\ \/ x.status = "none" /\ y.rev = 0
     \/ x.status # "none" /\ y.rev = x.rev + 1

\* An entry of the new revision, or of one that a commit has just brought.
LEMMA ExactInserted ==
  ASSUME NEW g \in [Segments -> Segment], NEW j \in Seq(Event), NEW k, NEW s \in Segments,
         NEW y \in Segment, NEW n \in {1, 2}, Exact(j, g), Extends(j, k, <<s, y.rev, n>>),
         \A i \in DOMAIN j : j[i] # <<s, y.rev, n>>,
         (n = 1 /\ NextRevision(g[s], y)) \/ (g[s] = y /\ y.status # "none")
  PROVE  Exact(k, [g EXCEPT ![s] = y])
<1> DEFINE h == [g EXCEPT ![s] = y]
<1>1. /\ Len(j) \in Nat /\ DOMAIN j = 1..Len(j) /\ DOMAIN k = 1..Len(j) + 1
      /\ \A i \in DOMAIN j : j[i] \in Event /\ i \in DOMAIN k /\ k[i] = j[i]
      /\ Len(j) + 1 \in DOMAIN k /\ k[Len(j) + 1] = <<s, y.rev, n>>
      /\ \A i \in DOMAIN k : i \in DOMAIN j \/ i = Len(j) + 1
  BY DEF Extends
<1>2. /\ h[s] = y /\ \A t \in Segments : t # s => h[t] = g[t]
      /\ y.rev \in Nat /\ g[s].rev \in Nat
  BY DEF Segment
<1>3. \A t \in Segments : g[t].status # "none" => h[t].status # "none" /\ g[t].rev <= h[t].rev
  BY <1>2 DEF NextRevision, Segment
<1>4. ASSUME NEW t \in Segments, h[t].status # "none", NEW r \in 0..h[t].rev
      PROVE  \E i \in DOMAIN k : k[i] = <<t, r, 1>>
  <2>1. CASE g[t].status # "none" /\ r \in 0..g[t].rev
    <3>1. PICK i \in DOMAIN j : j[i] = <<t, r, 1>>
      BY <2>1 DEF Exact
    <3> QED
      BY <1>1, <3>1
  <2>2. CASE ~(g[t].status # "none" /\ r \in 0..g[t].rev)
    <3>1. t = s
      BY <1>2, <1>4, <2>2
    <3>2. n = 1 /\ r = y.rev
      BY <1>2, <1>4, <2>2, <3>1 DEF NextRevision
    <3> QED
      BY <1>1, <3>1, <3>2
  <2> QED
    BY <2>1, <2>2
<1>5. ASSUME NEW i \in DOMAIN k
      PROVE  h[k[i][1]].status # "none" /\ k[i][2] <= h[k[i][1]].rev
  <2>1. CASE i \in DOMAIN j
    <3>1. /\ j[i][1] \in Segments /\ j[i][2] \in Nat
          /\ g[j[i][1]].status # "none" /\ j[i][2] <= g[j[i][1]].rev
      BY <1>1, <2>1 DEF Exact, Event
    <3>2. g[j[i][1]].rev \in Nat /\ h[j[i][1]].rev \in Nat
      BY <1>2, <3>1 DEF Segment
    <3> QED
      BY <1>1, <1>3, <2>1, <3>1, <3>2
  <2>2. CASE i = Len(j) + 1
    BY <1>1, <1>2, <2>2 DEF NextRevision
  <2> QED
    BY <1>1, <2>1, <2>2
<1>6. \A i, m \in DOMAIN k : k[i] = k[m] => i = m
  BY <1>1 DEF Exact
<1> QED
  BY <1>4, <1>5, <1>6 DEF Exact

\* A revision that is new has no entry yet.
LEMMA NewRevision ==
  ASSUME NEW g \in [Segments -> Segment], NEW j \in Seq(Event), NEW s \in Segments,
         NEW y \in Segment, Exact(j, g), NextRevision(g[s], y), NEW n
  PROVE  \A i \in DOMAIN j : j[i] # <<s, y.rev, n>>
<1> SUFFICES ASSUME NEW i \in DOMAIN j, j[i] = <<s, y.rev, n>> PROVE FALSE
  OBVIOUS
<1>1. g[s].status # "none" /\ y.rev <= g[s].rev /\ y.rev \in Nat /\ g[s].rev \in Nat
  BY DEF Exact, Segment
<1> QED
  BY <1>1 DEF NextRevision

\* The first entry of a revision.
LEMMA JournaledOne ==
  ASSUME NEW g \in [Segments -> Segment], NEW j \in Seq(Event), NEW s \in Segments,
         NEW y \in Segment, Exact(j, g), NextRevision(g[s], y)
  PROVE  LET k == Inserted(j, <<s, y.rev, 1>>) IN
         Extends(j, k, <<s, y.rev, 1>>) /\ Exact(k, [g EXCEPT ![s] = y])
<1>1. <<s, y.rev, 1>> \in Event
  BY DEF Event, Segment
<1> QED
  <2>1. \A i \in DOMAIN j : j[i] # <<s, y.rev, 1>>
    BY NewRevision
  <2>2. Extends(j, Inserted(j, <<s, y.rev, 1>>), <<s, y.rev, 1>>)
    BY <1>1, <2>1, InsertedNew
  <2> QED
    BY <2>1, <2>2, ExactInserted

\* Both entries of a revision.
LEMMA JournaledBoth ==
  ASSUME NEW g \in [Segments -> Segment], NEW j \in Seq(Event), NEW s \in Segments,
         NEW y \in Segment, Exact(j, g), NextRevision(g[s], y)
  PROVE  LET k == Inserted(j, <<s, y.rev, 1>>)
             m == Journaled(j, s, y.rev)
         IN  /\ Extends(j, k, <<s, y.rev, 1>>) /\ Extends(k, m, <<s, y.rev, 2>>)
             /\ Exact(m, [g EXCEPT ![s] = y])
<1> DEFINE k == Inserted(j, <<s, y.rev, 1>>)
           m == Journaled(j, s, y.rev)
           h == [g EXCEPT ![s] = y]
<1>1. Extends(j, k, <<s, y.rev, 1>>) /\ Exact(k, h)
  BY JournaledOne
<1>2. m = Inserted(k, <<s, y.rev, 2>>)
  BY DEF Journaled
<1> HIDE DEF k, m
<1>3. \A i \in DOMAIN k : k[i] # <<s, y.rev, 2>>
  <2>1. \A i \in DOMAIN j : j[i] # <<s, y.rev, 2>>
    BY NewRevision
  <2>2. DOMAIN k = 1..Len(j) + 1 /\ DOMAIN j = 1..Len(j) /\ Len(j) \in Nat
    BY <1>1 DEF Extends
  <2>3. ASSUME NEW i \in DOMAIN k, i \notin DOMAIN j PROVE i = Len(j) + 1
    BY <2>2, <2>3
  <2>4. k[Len(j) + 1] = <<s, y.rev, 1>> /\ \A i \in DOMAIN j : k[i] = j[i]
    BY <1>1, <2>2 DEF Extends
  <2>5. <<s, y.rev, 1>> # <<s, y.rev, 2>>
    OBVIOUS
  <2> QED
    BY <2>1, <2>3, <2>4, <2>5
<1>4. <<s, y.rev, 2>> \in Event /\ k \in Seq(Event)
  BY <1>1 DEF Event, Segment, Extends
<1>5. Extends(k, m, <<s, y.rev, 2>>)
  BY <1>3, <1>4, <1>2, InsertedNew
<1>6. h \in [Segments -> Segment] /\ h[s] = y /\ y.status # "none" /\ [h EXCEPT ![s] = y] = h
  BY DEF NextRevision
<1> HIDE DEF h
<1>7. Exact(m, [h EXCEPT ![s] = y])
  BY <1>1, <1>3, <1>4, <1>5, <1>6, ExactInserted
<1> QED
  BY <1>1, <1>5, <1>6, <1>7 DEF k, m, h

-----------------------------------------------------------------------------
(* The publication. *)

\* k is j followed by the events.
Appends(j, k, events) ==
  /\ k \in Seq(Event) /\ events \in Seq(Event) /\ Len(k) = Len(j) + Len(events)
  /\ \A i \in 1..Len(j) : k[i] = j[i]
  /\ \A i \in 1..Len(events) : k[Len(j) + i] = events[i]

LEMMA EventsType ==
  ASSUME NEW s \in Segments, NEW rev \in Nat
  PROVE  /\ Events(s, rev) \in Seq(Event) /\ Len(Events(s, rev)) = 2
         /\ Events(s, rev)[1] = <<s, rev, 1>> /\ Events(s, rev)[2] = <<s, rev, 2>>
<1>1. <<s, rev, 1>> \in Event /\ <<s, rev, 2>> \in Event
  BY DEF Event
<1> QED
  BY <1>1 DEF Events

LEMMA BothAppend ==
  ASSUME NEW j \in Seq(Event), NEW k, NEW m, NEW s \in Segments, NEW rev \in Nat,
         Extends(j, k, <<s, rev, 1>>), Extends(k, m, <<s, rev, 2>>)
  PROVE  Appends(j, m, Events(s, rev))
<1>1. Len(j) \in Nat
  OBVIOUS
<1>2. /\ m \in Seq(Event) /\ Len(m) = Len(j) + 2
      /\ \A i \in 1..Len(j) : m[i] = j[i]
      /\ m[Len(j) + 1] = <<s, rev, 1>> /\ m[Len(j) + 2] = <<s, rev, 2>>
  BY <1>1 DEF Extends
<1>3. \A i \in 1..Len(Events(s, rev)) : m[Len(j) + i] = Events(s, rev)[i]
  <2>1. \A i \in 1..2 : i = 1 \/ i = 2
    OBVIOUS
  <2> QED
    BY <1>2, <2>1, EventsType
<1> QED
  BY <1>2, <1>3, EventsType DEF Appends

\* A replay reads what follows the acknowledged entries, in their order.
LEMMA PendingFollows ==
  ASSUME journal \in Seq(Event), \A i, m \in DOMAIN journal : journal[i] = journal[m] => i = m,
         NEW k \in 0..Len(journal), acked = {journal[i] : i \in 1..k}
  PROVE  /\ Pending \in Seq(Event) /\ Len(Pending) = Len(journal) - k
         /\ \A n \in 1..Len(Pending) : Pending[n] = journal[k + n]
<1> DEFINE left == {i \in DOMAIN journal : journal[i] \notin acked}
           n0 == Len(journal) - k
           upto(i) == {j \in left : j <= i}
           at(n) == CHOOSE i \in left : Cardinality(upto(i)) = n
<1>1. DOMAIN journal = 1..Len(journal) /\ Len(journal) \in Nat /\ k \in Nat /\ n0 \in Nat
  OBVIOUS
<1>2. left = (k + 1)..Len(journal)
  BY <1>1
<1>3. Pending = [n \in 1..Cardinality(left) |-> journal[at(n)]]
  BY DEF Pending
<1> HIDE DEF left
<1>4. ASSUME NEW a \in Int, NEW b \in Int, a <= b + 1
      PROVE  Cardinality(a..b) = b - a + 1
  <2>1. Cardinality(a..b) = IF a > b THEN 0 ELSE b - a + 1
    BY FS_Interval
  <2> QED
    BY <1>4, <2>1
<1>5. Cardinality(left) = n0
  <2>1. k + 1 \in Int /\ Len(journal) \in Int /\ k + 1 <= Len(journal) + 1
    BY <1>1
  <2>2. Cardinality((k + 1)..Len(journal)) = Len(journal) - (k + 1) + 1
    BY <1>4, <2>1
  <2> QED
    BY <1>1, <1>2, <2>2
<1>6. ASSUME NEW i \in left PROVE Cardinality(upto(i)) = i - k
  <2>1. i \in Int /\ k + 1 \in Int /\ k + 1 <= i + 1
    BY <1>1, <1>2
  <2>2. upto(i) = (k + 1)..i
    BY <1>1, <1>2
  <2>3. Cardinality((k + 1)..i) = i - (k + 1) + 1
    BY <1>4, <2>1
  <2> HIDE DEF upto
  <2> QED
    BY <1>1, <2>1, <2>2, <2>3
<1> HIDE DEF upto
<1>7. ASSUME NEW n \in 1..n0 PROVE at(n) = k + n
  <2>1. k + n \in left /\ \A i \in left : i \in Int /\ (i - k = n <=> i = k + n)
    BY <1>1, <1>2
  <2>2. \A i \in left : Cardinality(upto(i)) = n <=> i = k + n
    BY <1>6, <2>1
  <2> QED
    BY <2>1, <2>2
<1> HIDE DEF at
<1>8. Pending = [n \in 1..n0 |-> journal[k + n]]
  BY <1>5, <1>7, <1>3
<1>9. \A n \in 1..n0 : journal[k + n] \in Event
  <2>1. \A n \in 1..n0 : k + n \in DOMAIN journal
    BY <1>1
  <2> QED
    BY <2>1
<1> QED
  BY <1>1, <1>8, <1>9

\* A commit of something alive, whose events are published at once.
LEMMA LogCommit ==
  ASSUME TypeOK, LogOk, Alive, publishing = <<>>, deferred = <<>>,
         Appends(journal, journal', publishing'), UNCHANGED <<acked, published, emitted, deferred>>
  PROVE  LogOk' /\ DeferredOk'
<1>1. PICK k \in 0..Len(journal) : LogAt(k)
  BY DEF LogOk
<1>2. /\ Len(journal) \in Nat /\ Len(publishing) = 0 /\ Len(deferred) = 0
      /\ Len(publishing') \in Nat /\ Len(published) \in Nat
  BY DEF TypeOK, Appends
<1>3. k = Len(journal) /\ ~emitted
  BY <1>1, <1>2 DEF LogAt
<1>4. \A i \in 1..Len(journal) : journal'[i] = journal[i]
  BY DEF Appends
<1>5. acked' = {journal'[i] : i \in 1..k}
  BY <1>1, <1>3, <1>4 DEF LogAt
<1>6. /\ Len(journal') = k + Len(publishing')
      /\ \A i \in 1..Len(publishing') : publishing'[i] = journal'[k + i]
  BY <1>3 DEF Appends
<1>7. /\ Len(published') \in {k, k + 1} /\ Len(published') <= Len(journal')
      /\ \A i \in 1..Len(published') : published'[i] = journal'[i]
  BY <1>1, <1>2, <1>3, <1>4, <1>6 DEF LogAt
<1>8. LogAt(k)'
  BY <1>2, <1>3, <1>5, <1>6, <1>7 DEF LogAt
<1>9. k \in 0..Len(journal')
  BY <1>2, <1>3, <1>6
<1> QED
  BY <1>8, <1>9 DEF LogOk, DeferredOk

\* A step that touches no event, and revives nothing.
LEMMA LogQuiet ==
  ASSUME LogOk, UNCHANGED <<journal, acked, published, queue>>, Alive' => Alive
  PROVE  LogOk'
<1>1. PICK k \in 0..Len(journal) : LogAt(k)
  BY DEF LogOk
<1>2. LogAt(k)'
  BY <1>1 DEF LogAt, queue
<1> QED
  BY <1>2 DEF LogOk

\* Publishing what a replay found.
LEMMA LogReplay ==
  ASSUME TypeOK, JournalExact, LogOk, publishing = <<>>, deferred = <<>>, publishing' = Pending,
         UNCHANGED <<log, emitted, deferred>>
  PROVE  LogOk' /\ DeferredOk' /\ publishing' \in Seq(Event)
<1>1. PICK k \in 0..Len(journal) : LogAt(k)
  BY DEF LogOk
<1>2. \A i, m \in DOMAIN journal : journal[i] = journal[m] => i = m
  BY DEF JournalExact
<1>3. /\ Pending \in Seq(Event) /\ Len(Pending) = Len(journal) - k
      /\ \A n \in 1..Len(Pending) : Pending[n] = journal[k + n]
  BY <1>1, <1>2, PendingFollows DEF TypeOK, LogAt
<1>4. ~emitted /\ Len(deferred) = 0 /\ Len(journal) \in Nat
  BY <1>1 DEF LogAt, TypeOK
<1>5. LogAt(k)'
  BY <1>1, <1>3, <1>4 DEF LogAt, log
<1> QED
  BY <1>3, <1>5 DEF LogOk, DeferredOk, log

\* The first of the events being published is written, unless it was before.
LEMMA LogEmit ==
  ASSUME TypeOK, JournalExact, LogOk, Emit
  PROVE  LogOk' /\ published' \in Seq(Event)
<1>1. PICK k \in 0..Len(journal) : LogAt(k)
  BY DEF LogOk
<1>2. /\ Len(journal) \in Nat /\ Len(publishing) \in Nat \ {0} /\ Len(published) \in Nat
      /\ Head(publishing) = publishing[1] /\ DOMAIN published = 1..Len(published)
      /\ DOMAIN journal = 1..Len(journal)
  BY DEF TypeOK, Emit
<1>3. Head(publishing) = journal[k + 1] /\ k + 1 \in DOMAIN journal /\ Head(publishing) \in Event
  <2>0. k + Len(publishing) <= Len(journal) /\ k \in Nat /\ Len(publishing) >= 1
    <3>1. k + Len(publishing) <= Len(journal)
      BY <1>1, Zenon DEF LogAt
    <3> QED
      BY <1>2, <3>1
  <2>1. 1 \in 1..Len(publishing) /\ k + 1 <= Len(journal) /\ k + 1 \in 1..Len(journal)
    BY <1>2, <2>0
  <2>2. publishing[1] = journal[k + 1]
    BY <1>1, <2>1 DEF LogAt
  <2>3. journal[k + 1] \in Event
    BY <1>2, <2>1 DEF TypeOK
  <2> QED
    BY <1>2, <2>1, <2>2, <2>3
<1>4. CASE Len(published) = k
  <2>1. \A i \in DOMAIN published : published[i] # Head(publishing)
    <3>0. k \in Nat /\ Len(published) <= Len(journal) /\ \A i \in 1..Len(published) : published[i] = journal[i]
      BY <1>1 DEF LogAt
    <3>1. \A i \in DOMAIN published : published[i] = journal[i] /\ i \in DOMAIN journal /\ i # k + 1
      BY <1>2, <1>4, <3>0
    <3> QED
      BY <1>3, <3>1 DEF JournalExact
  <2>2. published' = Append(published, Head(publishing))
    BY <2>1 DEF Emit, ToSet
  <2>3. /\ published' \in Seq(Event) /\ Len(published') = k + 1
        /\ \A i \in 1..k : published'[i] = published[i]
        /\ published'[k + 1] = Head(publishing)
    BY <1>3, <1>4, <2>2, AppendProperties DEF TypeOK
  <2>4. \A i \in 1..Len(published') : published'[i] = journal[i]
    BY <1>1, <1>3, <1>4, <2>3 DEF LogAt
  <2>5. LogAt(k)'
    <3>1. /\ UNCHANGED <<journal, acked, publishing, deferred, stage, call>> /\ publishing # <<>>
      BY DEF Emit
    <3>2. k + 1 <= Len(journal)
      BY <1>2, <1>3
    <3> QED
      BY <1>1, <2>3, <2>4, <3>1, <3>2 DEF LogAt, Alive, InFlight
  <2> QED
    BY <2>3, <2>5 DEF LogOk, Emit
<1>5. CASE Len(published) = k + 1
  <2>1. k + 1 \in DOMAIN published /\ published[k + 1] = Head(publishing)
    BY <1>1, <1>2, <1>3, <1>5 DEF LogAt
  <2>2. published' = published
    BY <2>1 DEF Emit, ToSet
  <2>3. LogAt(k)'
    BY <1>1, <1>5, <2>2 DEF LogAt, Emit, Alive, InFlight
  <2> QED
    BY <2>2, <2>3 DEF LogOk, Emit, TypeOK
<1> QED
  BY <1>1, <1>4, <1>5 DEF LogAt

\* It is acknowledged.
LEMMA LogAcknowledge ==
  ASSUME TypeOK, LogOk, Acknowledge
  PROVE  LogOk' /\ acked' \subseteq Event /\ publishing' \in Seq(Event)
<1>1. PICK k \in 0..Len(journal) : LogAt(k)
  BY DEF LogOk
<1>2. /\ Len(journal) \in Nat /\ Len(publishing) \in Nat \ {0} /\ Len(deferred) \in Nat
      /\ Head(publishing) = publishing[1] /\ Head(publishing) \in Event
  BY DEF TypeOK, Acknowledge
<1>3. /\ publishing' \in Seq(Event) /\ Len(publishing') = Len(publishing) - 1
      /\ \A i \in 1..Len(publishing') : publishing'[i] = publishing[i + 1]
  BY HeadTailProperties DEF TypeOK, Acknowledge
<1>4. Head(publishing) = journal[k + 1] /\ k + 1 \in 0..Len(journal)
  BY <1>1, <1>2 DEF LogAt
<1>5. acked' = {journal[i] : i \in 1..k + 1}
  <2>1. \A i : i \in 1..k + 1 <=> i \in 1..k \/ i = k + 1
    BY <1>2
  <2> QED
    BY <1>1, <1>4, <2>1 DEF LogAt, Acknowledge
<1>6. \A i \in 1..Len(publishing') : publishing'[i] = journal[(k + 1) + i]
  <2> SUFFICES ASSUME NEW i \in 1..Len(publishing') PROVE publishing'[i] = journal[(k + 1) + i]
    OBVIOUS
  <2>1. i + 1 \in 1..Len(publishing) /\ k + (i + 1) = (k + 1) + i
    BY <1>2, <1>3
  <2> QED
    BY <1>1, <1>3, <2>1 DEF LogAt
<1>7. Len(published) = k + 1 /\ (Alive' => Alive)
  BY <1>1 DEF LogAt, Acknowledge, Alive, InFlight
<1>8. LogAt(k + 1)'
  <2>1. /\ journal' = journal /\ published' = published /\ deferred' = deferred /\ ~emitted'
    BY DEF Acknowledge
  <2>2. (k + 1) + Len(publishing') = k + Len(publishing)
    BY <1>2, <1>3
  <2> QED
    BY <1>1, <1>2, <1>5, <1>6, <1>7, <2>1, <2>2 DEF LogAt
<1>9. acked' \subseteq Event
  BY <1>2 DEF TypeOK, Acknowledge
<1> QED
  BY <1>3, <1>4, <1>8, <1>9 DEF LogOk, Acknowledge

-----------------------------------------------------------------------------
(* What a call in flight knows. *)

LEMMA CallFacts ==
  ASSUME IInv, NEW c \in All, InFlight(c)
  PROVE  /\ call[c].at \in Segments /\ call[c].by \in Workers /\ active[call[c].by] \in Segments
         /\ call[c].at <= active[call[c].by] /\ active[call[c].by] <= last
         /\ call[c].name \in WorkActions
         /\ seg[call[c].at] \in Segment /\ seg[call[c].at].status # "none"
         /\ call[c].step \in 0..MaxAutomatic /\ ActionOf(c) = <<c, call[c].step>> /\ ActionOf(c) \in ActionId
         /\ Alive /\ deferred = <<>> /\ last # 0
<1>1. call[c] \in ToolCall /\ worker \in 0..MaxWorkers /\ last \in 0..MaxSegments
  BY DEF IInv, TypeOK
<1>2. /\ call[c].by \in 1..worker /\ call[c].at \in 1..last
      /\ active[call[c].by] \in call[c].at..last /\ call[c].name # "none"
  BY DEF IInv, CallOk
<1>3. call[c].at \in Segments /\ call[c].by \in Workers /\ active[call[c].by] \in Segments
  BY <1>1, <1>2 DEF Segments, Workers
<1>4. seg[call[c].at] \in Segment
  BY <1>3 DEF IInv, TypeOK
<1>5. seg[call[c].at].status # "none"
  BY <1>1, <1>2, <1>3 DEF IInv, OneOpenSegment
<1>6. call[c].name \in WorkActions /\ call[c].step \in 0..MaxAutomatic
  BY <1>1, <1>2 DEF ToolCall
<1>7. ActionOf(c) = <<c, call[c].step>> /\ ActionOf(c) \in ActionId
  BY <1>6 DEF ActionOf, ActionId
<1>8. deferred = <<>>
  BY DEF IInv, DeferredOk
<1> QED
  BY <1>1, <1>2, <1>3, <1>4, <1>5, <1>6, <1>7, <1>8 DEF Alive

\* A call on the newest segment runs under that segment's protocol.
LEMMA NewestProto ==
  ASSUME IInv, NEW c \in All, InFlight(c), call[c].at = last
  PROVE  Proto(call[c].by) = seg[last].proto
<1>1. active[call[c].by] = last
  <2>1. active[call[c].by] \in Segments /\ last \in 0..MaxSegments
    BY CallFacts DEF IInv, TypeOK
  <2> QED
    BY <2>1, CallFacts DEF Segments
<1> QED
  BY <1>1 DEF Proto

-----------------------------------------------------------------------------
(* Steps that commit nothing. *)

LEMMA QuietKeeps ==
  ASSUME IInv, UNCHANGED <<state, journal, acked, published, queue>>, TypeOK', Control', \A c \in All : CallOk(c)',
         Alive' => Alive, RequestedIsInFlight', DeferredOk', AnswerOk'
  PROVE  IInv'
<1>1. OneOpenSegment'
  BY DEF IInv, OneOpenSegment, Control, Ready, state
<1>2. JournalExact'
  BY DEF IInv, JournalExact, state
<1>3. LogOk'
  BY LogQuiet DEF IInv
<1> QED
  BY <1>1, <1>2, <1>3 DEF IInv

\* Nor do their calls change.
LEMMA StillKeeps ==
  ASSUME IInv, UNCHANGED <<state, call, journal, acked, published, queue>>, TypeOK', Control', \A c \in All : CallOk(c)',
         Alive' => Alive, DeferredOk', AnswerOk'
  PROVE  IInv'
<1>1. RequestedIsInFlight'
  BY DEF IInv, RequestedIsInFlight, state
<1> QED
  BY <1>1, QuietKeeps

LEMMA SuspendKeeps == ASSUME IInv, Suspend PROVE IInv'
<1> USE DEF Suspend, state, log, queue
<1>1. TypeOK' /\ Control'
  BY DEF IInv, TypeOK, Control, Ready, Ended
<1>2. \A c \in All : CallOk(c)'
  BY DEF IInv, CallOk, InFlight, HandingOff
<1>3. DeferredOk'
  BY DEF IInv, DeferredOk, Control, Ended, InFlight
<1>4. AnswerOk'
  BY DEF IInv, AnswerOk, Answered, InFlight
<1>5. Alive' => Alive
  BY DEF Alive, InFlight
<1> QED
  BY <1>1, <1>2, <1>3, <1>4, <1>5, StillKeeps

LEMMA StopKeeps == ASSUME IInv, Stop PROVE IInv'
<1> USE DEF Stop, state, log, queue
<1>1. TypeOK' /\ Control'
  BY DEF IInv, TypeOK, Control, Ready, Ended
<1>2. \A c \in All : CallOk(c)'
  BY DEF IInv, CallOk, InFlight, HandingOff
<1>3. DeferredOk'
  BY DEF IInv, DeferredOk, Ended, InFlight
<1>4. AnswerOk'
  BY DEF IInv, AnswerOk, Answered, InFlight
<1>5. Alive' => Alive
  BY DEF Alive, InFlight
<1> QED
  BY <1>1, <1>2, <1>3, <1>4, <1>5, StillKeeps

\* The worker's own steps after its stream: the stage moves on, or it ends.
LEMMA ConcludeKeeps ==
  ASSUME IInv, AnswerCommitted \/ Complete \/ AnswerFails
  PROVE  IInv'
<1> USE DEF AnswerCommitted, Complete, AnswerFails, state, log, queue
<1>0. UNCHANGED <<worker, state, active, call, log, queue>> /\ stage # "none" /\ stage # "starting"
  OBVIOUS
<1>1. TypeOK' /\ Control'
  BY DEF IInv, TypeOK, Control, Ready, Ended
<1>2. \A c \in All : CallOk(c)'
  BY <1>0 DEF IInv, CallOk, InFlight, HandingOff
<1>3. DeferredOk'
  BY <1>0 DEF IInv, DeferredOk, Control, Ended, InFlight
<1>4. AnswerOk'
  BY DEF IInv, AnswerOk, Answered, InFlight
<1>5. Alive' => Alive
  BY <1>0 DEF Alive
<1> QED
  BY <1>0, <1>1, <1>2, <1>3, <1>4, <1>5, StillKeeps

LEMMA RestoreKeeps == ASSUME IInv, Restore PROVE IInv'
<1> USE DEF Restore, state, log, queue
<1>0. worker \in Workers /\ last \in 1..MaxSegments /\ active' = [active EXCEPT ![worker] = last]
  BY DEF IInv, TypeOK, Control, Workers
<1>1. TypeOK' /\ Control'
  BY <1>0 DEF IInv, TypeOK, Control, Ready, Ended
<1>2. \A c \in All : CallOk(c)'
  <2> SUFFICES ASSUME NEW c \in All, InFlight(c) PROVE CallOk(c)'
    BY DEF CallOk, InFlight, HandingOff
  <2>1. /\ call[c].at <= last /\ call[c].at \in Nat
        /\ active'[call[c].by] = IF call[c].by = worker THEN last ELSE active[call[c].by]
    <3>1. call[c].by \in Workers /\ call[c].at \in Segments /\ call[c].at <= last
      BY <1>0, CallFacts DEF Segments, IInv, CallOk
    <3> QED
      BY <1>0, <3>1 DEF IInv, TypeOK, Segments
  <2> QED
    BY <1>0, <2>1 DEF IInv, CallOk, HandingOff
<1>3. DeferredOk'
  BY DEF IInv, DeferredOk, Control, Ended, InFlight
<1>4. AnswerOk'
  BY DEF IInv, AnswerOk, Answered, InFlight, Control
<1>5. Alive' => Alive
  BY DEF Alive
<1> QED
  BY <1>1, <1>2, <1>3, <1>4, <1>5, StillKeeps

-----------------------------------------------------------------------------
(* Calls that begin or are dropped. *)

\* A call that begins while the worker streams.
LEMMA DispatchKeeps ==
  ASSUME IInv, stage = "live", NEW c \in All, call[c].pc = "idle", NEW n \in WorkActions,
         Dispatch(c, worker, n), n = "answer" => c = CommitCall,
         UNCHANGED <<run, worker, state, active, log, queue>>,
         \/ stage' = "live" /\ c # CommitCall
         \/ stage' = "answering"
  PROVE  IInv'
<1> USE DEF state, log, queue
<1> DEFINE new == [pc |-> "called", by |-> worker, at |-> active[worker], name |-> n, step |-> 0]
<1>1. /\ worker \in Workers /\ active[worker] = last /\ last \in 1..MaxSegments /\ run = "running"
      /\ 0 \in 0..MaxAutomatic
  BY DEF IInv, TypeOK, Control, Workers, Ready
<1>2. new \in ToolCall
  BY <1>1 DEF ToolCall, CallPc, Workers
<1>3. /\ call' = [call EXCEPT ![c] = new] /\ call'[c] = new
      /\ \A d \in All : d # c => call'[d] = call[d]
  BY DEF Dispatch, IInv, TypeOK
<1>4. TypeOK' /\ Control'
  <2>1. TypeOK'
    BY <1>2, <1>3 DEF IInv, TypeOK
  <2>2. Control'
    BY <1>1, <1>3 DEF IInv, Control, Ready, Ended, All
  <2> QED
    BY <2>1, <2>2
<1>5. \A d \in All : CallOk(d)'
  <2>1. CallOk(c)'
    <3>1. /\ call'[c].by = worker /\ call'[c].at = last /\ call'[c].name = n /\ call'[c].step = 0
          /\ worker' = worker /\ last' = last /\ active' = active
          /\ worker \in Nat \ {0} /\ last \in Nat \ {0} /\ n # "none"
      BY <1>1, <1>3 DEF WorkActions, Workers
    <3>2. ~HandingOff(c)'
      BY <1>3 DEF HandingOff
    <3> QED
      BY <1>1, <3>1, <3>2 DEF CallOk
  <2>2. ASSUME NEW d \in All, d # c PROVE CallOk(d)'
    BY <1>3, <2>2 DEF IInv, CallOk, InFlight, HandingOff
  <2> QED
    BY <2>1, <2>2
<1>6. RequestedIsInFlight'
  BY <1>3 DEF IInv, RequestedIsInFlight
<1>7. DeferredOk'
  BY <1>1 DEF IInv, DeferredOk, Ended
<1>8. AnswerOk'
  <2>1. call[CommitCall].pc = "idle"
    BY <1>1 DEF IInv, Control, Ended
  <2>2. \A s \in Segments : ~Answered(s)
    BY <2>1 DEF IInv, AnswerOk
  <2> QED
    BY <1>1, <2>2 DEF IInv, AnswerOk, Answered
<1>9. Alive
  BY DEF Alive
<1> QED
  BY <1>4, <1>5, <1>6, <1>7, <1>8, <1>9, QuietKeeps

LEMMA CallKeeps ==
  ASSUME IInv, NEW c \in Calls, NEW n \in {"tool", "handoff"}, Call(c, n)
  PROVE  IInv'
<1>1. c \in All /\ c # CommitCall /\ n \in WorkActions
  BY DEF All, WorkActions
<1> QED
  BY <1>1, DispatchKeeps DEF Call, state, log, queue

LEMMA FinishKeeps == ASSUME IInv, Finish PROVE IInv'
<1>1. CASE Dispatch(CommitCall, worker, "answer") /\ stage' = "answering"
  <2>1. run = "running" /\ call[CommitCall].pc = "idle"
    BY DEF IInv, Control, Finish, Ended
  <2> QED
    BY <1>1, <2>1, DispatchKeeps DEF Finish, All, WorkActions
<1>2. CASE stage' = "deciding" /\ UNCHANGED call
  <2> USE <1>2 DEF Finish, state, log, queue
  <2>1. TypeOK' /\ Control'
    BY DEF IInv, TypeOK, Control, Ready, Ended
  <2>2. \A c \in All : CallOk(c)'
    BY DEF IInv, CallOk, InFlight, HandingOff
  <2>3. DeferredOk'
    BY DEF IInv, DeferredOk, Control, Ended, InFlight
  <2>4. AnswerOk'
    BY DEF IInv, AnswerOk, Answered, InFlight, Control
  <2>5. Alive' => Alive
    BY DEF Alive
  <2> QED
    BY <2>1, <2>2, <2>3, <2>4, <2>5, StillKeeps
<1> QED
  BY <1>1, <1>2 DEF Finish

LEMMA DropKeeps == ASSUME IInv, NEW c \in All, Drop(c) PROVE IInv'
<1> USE DEF Drop, Settle, state, log, queue
<1>1. /\ call[c] \in ToolCall /\ call[c].pc = "called" /\ call' = [call EXCEPT ![c].pc = "failed"]
      /\ call'[c] = [call[c] EXCEPT !.pc = "failed"] /\ call'[c].pc = "failed"
      /\ \A d \in All : d # c => call'[d] = call[d]
  BY DEF IInv, TypeOK, ToolCall
<1>2. call'[c] \in ToolCall
  BY <1>1 DEF ToolCall, CallPc
<1>3. TypeOK'
  <2>1. call' \in [All -> ToolCall]
    BY <1>1, <1>2 DEF IInv, TypeOK
  <2> QED
    BY <2>1 DEF IInv, TypeOK
<1>4. Control'
  BY <1>1 DEF IInv, Control, Ready, Ended, All
<1>5. \A d \in All : CallOk(d)'
  BY <1>1 DEF IInv, CallOk, InFlight, HandingOff
<1>6. Alive' => Alive
  BY <1>1 DEF Alive, InFlight
<1>7. RequestedIsInFlight'
  BY <1>1 DEF IInv, RequestedIsInFlight
<1>8. DeferredOk'
  BY <1>1 DEF IInv, DeferredOk, Ended, InFlight
<1>9. AnswerOk'
  BY <1>1 DEF IInv, AnswerOk, Answered, InFlight, All
<1> QED
  BY <1>3, <1>4, <1>5, <1>6, <1>7, <1>8, <1>9, QuietKeeps

-----------------------------------------------------------------------------
(* Steps of the worker that touch the events and no segment. *)

\* A run without a segment has no event.
LEMMA NothingLogged ==
  ASSUME IInv, last = 0
  PROVE  /\ journal = <<>> /\ acked = {} /\ published = <<>>
         /\ publishing = <<>> /\ deferred = <<>> /\ ~emitted
         /\ \A c \in All : ~InFlight(c)
<1>1. journal = <<>>
  <2>1. \A s \in Segments : seg[s].status = "none"
    BY DEF IInv, OneOpenSegment, Segments
  <2>2. \A i \in DOMAIN journal : journal[i] \in Event
    BY DEF IInv, TypeOK
  <2>3. \A i \in DOMAIN journal : FALSE
    BY <2>1, <2>2 DEF IInv, JournalExact, Event
  <2>4. journal \in Seq(Event)
    BY DEF IInv, TypeOK
  <2>5. Len(journal) = 0
    BY <2>3, <2>4
  <2> QED
    BY <2>4, <2>5
<1>2. PICK k \in 0..Len(journal) : LogAt(k)
  BY DEF IInv, LogOk
<1>3. k = 0 /\ Len(publishing) \in Nat /\ Len(published) \in Nat /\ Len(journal) = 0
  BY <1>1 DEF IInv, TypeOK
<1>4. Len(publishing) = 0 /\ Len(published) = 0 /\ acked = {}
  BY <1>2, <1>3 DEF LogAt
<1>5. publishing = <<>> /\ published = <<>>
  BY <1>4 DEF IInv, TypeOK
<1>6. deferred = <<>>
  BY <1>1 DEF IInv, DeferredOk
<1>7. ~emitted
  BY <1>2, <1>5 DEF LogAt
<1>8. \A c \in All : ~InFlight(c)
  BY CallFacts
<1> QED
  BY <1>1, <1>4, <1>5, <1>6, <1>7, <1>8

LEMMA ClaimKeeps == ASSUME IInv, Claim PROVE IInv'
<1> USE DEF Claim, state, log, queue
<1>1. last = 0 /\ worker' = 1 /\ 1 \in 0..MaxWorkers
  BY DEF IInv, Control
<1>2. TypeOK' /\ Control'
  BY <1>1 DEF IInv, TypeOK, Control, Ready, Ended
<1>3. \A c \in All : CallOk(c)'
  BY <1>1, NothingLogged DEF CallOk, InFlight
<1>4. OneOpenSegment' /\ RequestedIsInFlight' /\ JournalExact'
  BY DEF IInv, OneOpenSegment, RequestedIsInFlight, JournalExact
<1>5. LogOk' /\ DeferredOk'
  <2>1. LogAt(0)'
    BY <1>1, NothingLogged DEF LogAt
  <2> QED
    BY <1>1, <2>1, NothingLogged DEF LogOk, DeferredOk
<1>6. AnswerOk'
  BY DEF IInv, AnswerOk, Answered, InFlight, Control
<1> QED
  BY <1>2, <1>3, <1>4, <1>5, <1>6 DEF IInv

LEMMA ResumeKeeps == ASSUME IInv, Resume PROVE IInv'
<1> USE DEF Resume, Idle, state
<1>1. worker + 1 \in 0..MaxWorkers /\ worker' = worker + 1 /\ worker \in Nat
  BY DEF IInv, TypeOK
<1>2. deferred = <<>>
  BY DEF IInv, DeferredOk, Control, Ended
<1>3. LogOk' /\ DeferredOk' /\ publishing' \in Seq(Event)
  BY <1>2, LogReplay DEF IInv, queue
<1>4. TypeOK' /\ Control'
  <2>1. TypeOK'
    BY <1>1, <1>3 DEF IInv, TypeOK, log
  <2>2. Control'
    BY <1>1 DEF IInv, Control, Ready, Ended
  <2> QED
    BY <2>1, <2>2
<1>5. \A c \in All : CallOk(c)'
  <2> SUFFICES ASSUME NEW c \in All, InFlight(c) PROVE CallOk(c)'
    BY DEF CallOk, InFlight, HandingOff
  <2>1. CallOk(c) /\ call[c].name # "handoff"
    BY DEF IInv, InFlight, HandingOff
  <2> QED
    BY <1>1, <2>1 DEF CallOk, InFlight, HandingOff
<1>6. OneOpenSegment' /\ RequestedIsInFlight' /\ JournalExact'
  BY DEF IInv, OneOpenSegment, RequestedIsInFlight, JournalExact, log
<1>7. AnswerOk'
  BY DEF IInv, AnswerOk, Answered, InFlight, Control
<1> QED
  BY <1>3, <1>4, <1>5, <1>6, <1>7 DEF IInv

LEMMA RunStartedKeeps == ASSUME IInv, RunStarted PROVE IInv'
<1> USE DEF RunStarted, Idle, state
<1>1. stage = "starting" /\ run = "running" /\ Alive
  BY DEF IInv, Control, Alive
<1>2. TypeOK' /\ Control'
  BY DEF IInv, TypeOK, Control, Ready, Ended, log
<1>3. \A c \in All : CallOk(c)'
  BY DEF IInv, CallOk, InFlight, HandingOff
<1>4. OneOpenSegment' /\ RequestedIsInFlight' /\ JournalExact'
  BY DEF IInv, OneOpenSegment, RequestedIsInFlight, JournalExact, log, Control, Ready
<1>5. DeferredOk'
  BY DEF DeferredOk
<1>6. LogOk'
  <2>1. PICK k \in 0..Len(journal) : LogAt(k)
    BY DEF IInv, LogOk
  <2>2. /\ Len(publishing) = 0 /\ Len(journal) \in Nat /\ Len(published) \in Nat /\ ~emitted
        /\ k + Len(publishing) + Len(deferred) = Len(journal)
        /\ journal' = journal /\ acked' = acked /\ published' = published
        /\ publishing' = deferred /\ deferred' = <<>> /\ emitted' = emitted /\ Len(deferred') = 0
    BY <1>1, <2>1 DEF IInv, TypeOK, LogAt, log
  <2>3. CASE deferred = <<>>
    <3>1. LogAt(k)'
      BY <2>1, <2>2, <2>3 DEF LogAt
    <3> QED
      BY <2>2, <3>1 DEF LogOk
  <2>4. CASE deferred # <<>>
    <3>1. deferred = journal /\ acked = {}
      BY <2>4 DEF IInv, DeferredOk
    <3>2. k = 0
      BY <2>2, <3>1
    <3>3. LogAt(k)'
      BY <2>1, <2>2, <2>4, <3>1, <3>2 DEF LogAt
    <3> QED
      BY <2>2, <3>3 DEF LogOk
  <2> QED
    BY <2>3, <2>4
<1>7. AnswerOk'
  BY DEF IInv, AnswerOk, Answered, InFlight, Control
<1> QED
  BY <1>2, <1>3, <1>4, <1>5, <1>6, <1>7 DEF IInv

LEMMA PublishKeeps == ASSUME IInv, Publish PROVE IInv'
<1>1. /\ UNCHANGED <<run, worker, stage, state, active, call, journal, announced, deferred>>
      /\ publishing # <<>> /\ emitted' \in BOOLEAN
  BY DEF Publish, Emit, Acknowledge, state
<1> USE <1>1 DEF state
<1>2. /\ LogOk' /\ published' \in Seq(Event) /\ publishing' \in Seq(Event) /\ acked' \subseteq Event
  <2>1. CASE Emit
    BY <2>1, LogEmit DEF IInv, Emit, TypeOK
  <2>2. CASE Acknowledge
    BY <2>2, LogAcknowledge DEF IInv, Acknowledge, TypeOK
  <2> QED
    BY <2>1, <2>2 DEF Publish
<1>3. TypeOK'
  BY <1>2 DEF IInv, TypeOK
<1>4. Control' /\ \A c \in All : CallOk(c)'
  BY DEF IInv, Control, Ready, Ended, CallOk, InFlight, HandingOff
<1>5. OneOpenSegment' /\ RequestedIsInFlight' /\ JournalExact'
  BY DEF IInv, OneOpenSegment, RequestedIsInFlight, JournalExact
<1>6. DeferredOk'
  BY DEF IInv, DeferredOk
<1>7. AnswerOk'
  BY DEF IInv, AnswerOk, Answered, InFlight
<1> QED
  BY <1>2, <1>3, <1>4, <1>5, <1>6, <1>7 DEF IInv

LEMMA CrashKeeps == ASSUME IInv, Crash PROVE IInv'
<1> USE DEF Crash, state, log
<1>1. \A c \in All : call[c] \in ToolCall /\ call'[c] =
          IF InFlight(c) THEN [call[c] EXCEPT !.pc = "dead"] ELSE call[c]
  BY DEF IInv, TypeOK
<1>2. \A c \in All : call'[c] \in ToolCall /\ ~InFlight(c)' /\ (call'[c].pc = "idle" <=> call[c].pc = "idle")
  BY <1>1 DEF ToolCall, CallPc, InFlight
<1>3. TypeOK'
  <2>1. call' \in [All -> ToolCall]
    BY <1>2
  <2>2. <<>> \in Seq(Event)
    OBVIOUS
  <2> QED
    BY <2>1, <2>2 DEF IInv, TypeOK
<1>4. Control'
  BY <1>2 DEF IInv, Control, Ready, Ended, All
<1>5. \A c \in All : CallOk(c)'
  BY <1>2 DEF CallOk
<1>6. OneOpenSegment' /\ JournalExact'
  BY DEF IInv, OneOpenSegment, JournalExact
<1>7. RequestedIsInFlight'
  <2> SUFFICES ASSUME NEW s \in Segments, NEW c \in All, NEW i \in 0..MaxAutomatic,
                      seg'[s].action[<<c, i>>] = "requested"
               PROVE  call'[c].pc = "dead"
    BY DEF RequestedIsInFlight
  <2>1. call[c].pc \in {"executing", "dead"}
    BY DEF IInv, RequestedIsInFlight
  <2> QED
    BY <1>1, <2>1 DEF InFlight, ToolCall
<1>8. LogOk'
  <2>1. PICK k \in 0..Len(journal) : LogAt(k)
    BY DEF IInv, LogOk
  <2>2. ~Alive'
    BY <1>2 DEF Alive
  <2>3. k + Len(publishing') <= Len(journal') /\ Len(publishing') = 0
    BY <2>1
  <2>4. LogAt(k)'
    BY <2>1, <2>2, <2>3 DEF LogAt
  <2> QED
    BY <2>4 DEF LogOk
<1>9. DeferredOk' /\ AnswerOk'
  <2>1. DeferredOk'
    BY DEF DeferredOk
  <2>2. stage' = "none" /\ (run' = "completed" => run = "completed")
    OBVIOUS
  <2>3. AnswerOk'
    BY <1>2, <2>2 DEF IInv, AnswerOk, Answered, All
  <2> QED
    BY <2>1, <2>3
<1> QED
  BY <1>3, <1>4, <1>5, <1>6, <1>7, <1>8, <1>9 DEF IInv

-----------------------------------------------------------------------------
(* Commits. *)

LEMMA OneAppends ==
  ASSUME NEW j \in Seq(Event), NEW k, NEW e \in Event, Extends(j, k, e)
  PROVE  Appends(j, k, <<e>>)
<1>1. \A i \in 1..Len(<<e>>) : i = 1 /\ <<e>>[i] = e
  OBVIOUS
<1> QED
  BY <1>1 DEF Extends, Appends

LEMMA AppendsTwice ==
  ASSUME NEW j \in Seq(Event), NEW k, NEW m, NEW e, NEW f, Appends(j, k, e), Appends(k, m, f)
  PROVE  Appends(j, m, e \o f)
<1>1. /\ Len(j) \in Nat /\ Len(e) \in Nat /\ Len(f) \in Nat
      /\ e \in Seq(Event) /\ f \in Seq(Event) /\ m \in Seq(Event)
      /\ Len(k) = Len(j) + Len(e) /\ Len(m) = Len(k) + Len(f)
  BY DEF Appends
<1>2. e \o f \in Seq(Event) /\ Len(e \o f) = Len(e) + Len(f)
  BY <1>1
<1>3. \A i \in 1..Len(j) : m[i] = j[i]
  <2>1. \A i \in 1..Len(j) : i \in 1..Len(k)
    BY <1>1
  <2> QED
    BY <2>1 DEF Appends
<1>4. ASSUME NEW i \in 1..Len(e \o f) PROVE m[Len(j) + i] = (e \o f)[i]
  <2>1. CASE i <= Len(e)
    <3>1. Len(j) + i \in 1..Len(k) /\ i \in 1..Len(e) /\ (e \o f)[i] = e[i]
      BY <1>1, <1>2, <2>1
    <3> QED
      BY <3>1 DEF Appends
  <2>2. CASE i > Len(e)
    <3>1. /\ i - Len(e) \in 1..Len(f) /\ (e \o f)[i] = f[i - Len(e)]
          /\ Len(j) + i = Len(k) + (i - Len(e))
      BY <1>1, <1>2, <2>2
    <3> QED
      BY <3>1 DEF Appends
  <2> QED
    BY <1>2, <2>1, <2>2
<1> QED
  BY <1>1, <1>2, <1>3, <1>4 DEF Appends

\* What a commit does to the journal and its publication.
LEMMA CommitLog ==
  ASSUME IInv, Idle, Alive, deferred = <<>>, NEW s \in Segments, NEW y \in Segment,
         NextRevision(seg[s], y), Commit(s, y)
  PROVE  /\ JournalExact' /\ LogOk' /\ DeferredOk'
         /\ journal' \in Seq(Event) /\ publishing' \in Seq(Event)
         /\ seg' \in [Segments -> Segment] /\ seg'[s] = y
         /\ \A t \in Segments : t # s => seg'[t] = seg[t]
<1>1. /\ seg \in [Segments -> Segment] /\ journal \in Seq(Event) /\ y.rev \in Nat
      /\ seg' = [seg EXCEPT ![s] = y]
      /\ journal' = Journaled(journal, s, y.rev) /\ publishing' = Events(s, y.rev)
      /\ UNCHANGED <<acked, published, emitted, deferred>> /\ publishing = <<>>
  BY DEF IInv, TypeOK, Segment, Commit, Idle
<1>2. Exact(journal, seg)
  BY ExactJournal DEF IInv
<1> DEFINE k == Inserted(journal, <<s, y.rev, 1>>)
<1>3. /\ Extends(journal, k, <<s, y.rev, 1>>) /\ Extends(k, journal', <<s, y.rev, 2>>)
      /\ Exact(journal', seg')
  BY <1>1, <1>2, JournaledBoth
<1> HIDE DEF k
<1>4. Appends(journal, journal', publishing')
  BY <1>1, <1>3, BothAppend
<1>5. LogOk' /\ DeferredOk'
  BY <1>1, <1>4, LogCommit DEF IInv
<1>6. JournalExact'
  BY <1>3, ExactJournal
<1> QED
  BY <1>1, <1>4, <1>5, <1>6 DEF Appends

LEMMA StartKeeps == ASSUME IInv, NEW p \in Protocols, Start(p) PROVE IInv'
<1> DEFINE y == NewSegment(p, Package(worker))
<1>1. /\ worker \in Workers /\ 1 \in Segments /\ run = "running" /\ last = 0
      /\ seg[1].status = "none" /\ stage = "assembling"
  <2>1. worker \in 0..MaxWorkers /\ worker # 0 /\ run = "running" /\ last = 0 /\ stage = "assembling"
    BY DEF Start, IInv, TypeOK, Control
  <2>2. 1 \in Segments
    BY DEF Segments
  <2> QED
    BY <2>1, <2>2 DEF IInv, OneOpenSegment, Workers, Segments
<1>2. /\ y \in Segment /\ y.proto = p /\ y.rev = 0 /\ y.status = "active" /\ y.domain = {}
      /\ y.decision = "none" /\ (p = "general-task" => y.phase = "understand")
      /\ \A id \in ActionId : y.action[id] = "none"
  <2>1. Package(worker) \in 0..MaxWorkers
    BY <1>1 DEF Package, Workers
  <2> QED
    BY <2>1, NewSegmentType
<1>3. /\ seg' = [seg EXCEPT ![1] = y] /\ last' = 1 /\ active' = [active EXCEPT ![worker] = 1]
      /\ journal' = Journaled(journal, 1, 0) /\ deferred' = Events(1, 0) /\ stage' = "starting"
      /\ UNCHANGED <<run, worker, call, acked, published, announced, publishing, emitted>>
  BY DEF Start
<1> HIDE DEF y
<1>4. /\ seg \in [Segments -> Segment] /\ seg' \in [Segments -> Segment] /\ seg'[1] = y
      /\ \A t \in Segments : t # 1 => seg'[t] = seg[t]
      /\ active' \in [Workers -> 0..MaxSegments] /\ active'[worker] = 1
  BY <1>1, <1>2, <1>3 DEF IInv, TypeOK
<1>5. /\ journal = <<>> /\ acked = {} /\ published = <<>> /\ publishing = <<>> /\ ~emitted
      /\ \A c \in All : ~InFlight(c)
  BY <1>1, NothingLogged
<1>6. Appends(journal, journal', Events(1, 0)) /\ Exact(journal', seg')
  <2>1. NextRevision(seg[1], y) /\ Exact(journal, seg) /\ journal \in Seq(Event)
    BY <1>1, <1>2, ExactJournal DEF NextRevision, IInv, TypeOK
  <2> DEFINE k == Inserted(journal, <<1, 0, 1>>)
  <2>2. /\ Extends(journal, k, <<1, 0, 1>>) /\ Extends(k, journal', <<1, 0, 2>>)
        /\ Exact(journal', seg')
    BY <1>1, <1>2, <1>3, <1>4, <2>1, JournaledBoth
  <2> QED
    BY <1>1, <2>1, <2>2, BothAppend
<1>7. deferred' = journal' /\ journal' \in Seq(Event) /\ Len(journal') = 2
  <2>1. /\ journal' \in Seq(Event) /\ Events(1, 0) \in Seq(Event) /\ Len(Events(1, 0)) = 2
        /\ Len(journal') = 2 /\ \A i \in 1..2 : journal'[i] = Events(1, 0)[i]
    BY <1>1, <1>5, <1>6, EventsType DEF Appends
  <2> QED
    BY <1>3, <2>1, SeqEqual
<1>8. LogOk' /\ DeferredOk' /\ JournalExact'
  <2>1. LogAt(0)'
    BY <1>3, <1>5, <1>7 DEF LogAt
  <2>2. 0 \in 0..Len(journal')
    BY <1>7
  <2> QED
    BY <1>3, <1>5, <1>6, <1>7, <2>1, <2>2, ExactJournal DEF LogOk, DeferredOk, InFlight
<1>9. TypeOK'
  BY <1>1, <1>3, <1>4, <1>7 DEF IInv, TypeOK, Segments
<1>10. Control' /\ OneOpenSegment'
  <2>1. Control'
    BY <1>1, <1>3, <1>4 DEF IInv, Control, Ready, Ended
  <2>2. OneOpenSegment'
    BY <1>1, <1>2, <1>3, <1>4 DEF IInv, OneOpenSegment, Segments
  <2> QED
    BY <2>1, <2>2
<1>11. \A c \in All : CallOk(c)'
  BY <1>3, <1>5 DEF CallOk, InFlight
<1>12. RequestedIsInFlight'
  BY <1>2, <1>3, <1>4 DEF IInv, RequestedIsInFlight, ActionId
<1>13. AnswerOk'
  BY <1>1, <1>2, <1>3, <1>4 DEF IInv, AnswerOk, Answered, InFlight
<1> QED
  BY <1>8, <1>9, <1>10, <1>11, <1>12, <1>13 DEF IInv

LEMMA DecideKeeps == ASSUME IInv, Decide PROVE IInv'
<1> DEFINE x == seg[last]
<1>1. /\ last \in Segments /\ active[worker] = last /\ run = "running" /\ x \in Segment
      /\ x.status \in {"active", "terminal"} /\ stage = "deciding" /\ Idle
  BY DEF Decide, IInv, TypeOK, Control, Ready, OneOpenSegment, Segments
<1>2. PICK d \in {"partial"} \cup (IF Goal(x) THEN {"completed"} ELSE {}) :
         Commit(last, [x EXCEPT !.rev = @ + 1, !.status = "terminal", !.decision = d])
  BY <1>1 DEF Decide
<1> DEFINE y == [x EXCEPT !.rev = @ + 1, !.status = "terminal", !.decision = d]
<1>3. /\ y \in Segment /\ y.rev = x.rev + 1 /\ y.status = "terminal" /\ y.decision = d
      /\ y.proto = x.proto /\ y.phase = x.phase /\ y.domain = x.domain /\ y.action = x.action
  <2>1. d \in {"partial", "completed"}
    BY <1>2
  <2> HIDE DEF x
  <2>2. x \in Segment /\ x.rev + 1 \in Nat
    BY <1>1 DEF Segment
  <2> QED
    BY <2>1, <2>2 DEF Segment, SegmentStatus
<1>4. NextRevision(seg[last], y) /\ Commit(last, y)
  BY <1>1, <1>2, <1>3 DEF NextRevision
<1>5. stage' = "decided" /\ UNCHANGED <<run, worker, active, call, last, acked, published, announced, emitted, deferred>>
  BY <1>4 DEF Decide, Commit
<1> HIDE DEF y
<1>6. Alive /\ deferred = <<>>
  BY <1>1 DEF Alive, IInv, DeferredOk, Ended
<1>7. /\ JournalExact' /\ LogOk' /\ DeferredOk'
      /\ journal' \in Seq(Event) /\ publishing' \in Seq(Event)
      /\ seg' \in [Segments -> Segment] /\ seg'[last] = y
      /\ \A t \in Segments : t # last => seg'[t] = seg[t]
  BY <1>1, <1>3, <1>4, <1>6, CommitLog
<1>8. TypeOK' /\ Control' /\ \A c \in All : CallOk(c)'
  <2>1. TypeOK'
    BY <1>5, <1>7 DEF IInv, TypeOK
  <2>2. Control'
    BY <1>1, <1>5 DEF IInv, Control, Ready, Ended
  <2>3. \A c \in All : CallOk(c)'
    BY <1>5 DEF IInv, CallOk, InFlight, HandingOff
  <2> QED
    BY <2>1, <2>2, <2>3
<1>9. OneOpenSegment' /\ RequestedIsInFlight'
  <2>1. OneOpenSegment'
    BY <1>1, <1>3, <1>5, <1>7 DEF IInv, OneOpenSegment, Segments
  <2>2. RequestedIsInFlight'
    BY <1>3, <1>5, <1>7 DEF IInv, RequestedIsInFlight
  <2> QED
    BY <2>1, <2>2
<1>10. AnswerOk'
  <2>1. \A s \in Segments : Answered(s)' <=> Answered(s)
    BY <1>3, <1>7 DEF Answered
  <2>2. \A s \in Segments : seg'[s].action = seg[s].action
    BY <1>3, <1>7
  <2>3. x.proto = "general-task" /\ d = "completed" => Answered(last)
    BY <1>2 DEF Goal, Definition, Protocols, GeneralTask, Answered
  <2>4. \A s \in Segments : Answered(s)' =>
          /\ call'[CommitCall].pc # "idle" /\ (InFlight(CommitCall)' => call'[CommitCall].step # 0)
          /\ seg'[s].action[<<CommitCall, 0>>] = "succeeded"
    BY <1>5, <2>1, <2>2 DEF IInv, AnswerOk, InFlight
  <2>5. seg'[last].proto = "general-task" =>
          /\ seg'[last].phase \in {"understand", "gather", "answer"}
          /\ Answered(last)' => seg'[last].phase = "answer"
          /\ seg'[last].decision = "completed" => Answered(last)'
    BY <1>1, <1>3, <1>5, <1>7, <2>1, <2>3 DEF IInv, AnswerOk, Segments
  <2> QED
    <3>1. last' = last /\ last # 0 /\ seg'[last'].status = "terminal"
      BY <1>1, <1>3, <1>5, <1>7 DEF Segments
    <3>2. InFlight(CommitCall)' <=> InFlight(CommitCall)
      BY <1>5 DEF InFlight
    <3> QED
      BY <2>4, <2>5, <3>1, <3>2 DEF AnswerOk, Answered
<1> QED
  BY <1>7, <1>8, <1>9, <1>10 DEF IInv

-----------------------------------------------------------------------------
(* Commits of a call. *)

LEMMA CallCommits ==
  ASSUME IInv, Idle, NEW c \in All, InFlight(c),
         NEW y \in Segment, NEW a \in ActionStatus, NEW z \in ToolCall,
         y.rev = seg[call[c].at].rev + 1, y.status = seg[call[c].at].status,
         y.action = [seg[call[c].at].action EXCEPT ![ActionOf(c)] = a],
         Commit(call[c].at, y), UNCHANGED <<run, worker, stage, active>>,
         call' = [call EXCEPT ![c] = z], z.by = call[c].by, z.at = call[c].at,
         z.pc \in {"called", "executing", "proposing", "done", "failed"},
         z.pc = "proposing" => z.name = "handoff",
         a = "requested" => z.pc = "executing" /\ z.step = call[c].step,
         z.pc \in {"called", "executing", "proposing"} =>
           /\ z.name # "none" /\ (z.name = "handoff" => call[c].name = "handoff")
           /\ z.name = "answer" => call[c].name = "answer" /\ z.step = call[c].step,
         AnswerOk'
  PROVE  IInv'
<1> DEFINE s == call[c].at
<1>1. /\ s \in Segments /\ seg[s].status # "none" /\ Alive /\ deferred = <<>>
      /\ ActionOf(c) = <<c, call[c].step>> /\ ActionOf(c) \in ActionId
  BY CallFacts
<1>2. NextRevision(seg[s], y)
  BY <1>1 DEF NextRevision
<1>3. /\ JournalExact' /\ LogOk' /\ DeferredOk'
      /\ journal' \in Seq(Event) /\ publishing' \in Seq(Event)
      /\ seg' \in [Segments -> Segment] /\ seg'[s] = y
      /\ \A t \in Segments : t # s => seg'[t] = seg[t]
  BY <1>1, <1>2, CommitLog
<1>4. last' = last /\ UNCHANGED <<acked, published, announced, emitted, deferred>>
  BY DEF Commit
<1>5. /\ call' \in [All -> ToolCall] /\ call'[c] = z /\ \A d \in All : d # c => call'[d] = call[d]
      /\ seg[s] \in Segment
  BY <1>1 DEF IInv, TypeOK
<1> HIDE DEF s
<1>6. TypeOK'
  BY <1>3, <1>4, <1>5 DEF IInv, TypeOK
<1>7. Control'
  <2>1. call'[CommitCall].pc # "idle" => call[CommitCall].pc # "idle"
    BY <1>5 DEF InFlight, All
  <2> QED
    BY <1>4, <2>1 DEF IInv, Control, Ready, Ended
<1>8. \A d \in All : CallOk(d)'
  <2>1. CallOk(c)'
    BY <1>4, <1>5 DEF IInv, CallOk, InFlight, HandingOff
  <2>2. ASSUME NEW d \in All, d # c PROVE CallOk(d)'
    BY <1>4, <1>5, <2>2 DEF IInv, CallOk, InFlight, HandingOff
  <2> QED
    BY <2>1, <2>2
<1>9. OneOpenSegment'
  <2>1. \A t \in Segments : seg'[t].status = seg[t].status
    BY <1>3 DEF s
  <2>2. last' = last /\ (last # 0 => last \in Segments)
    BY <1>4 DEF IInv, TypeOK, Segments
  <2>3. stage' = stage /\ active' = active /\ worker' = worker
    OBVIOUS
  <2> QED
    BY <2>1, <2>2, <2>3 DEF IInv, OneOpenSegment
<1>10. RequestedIsInFlight'
  <2> SUFFICES ASSUME NEW t \in Segments, NEW d \in All, NEW i \in 0..MaxAutomatic,
                      seg'[t].action[<<d, i>>] = "requested"
               PROVE  \/ call'[d].pc = "executing" /\ call'[d].at = t /\ call'[d].step = i
                      \/ call'[d].pc = "dead"
    BY DEF RequestedIsInFlight
  <2>1. <<d, i>> \in ActionId /\ seg[s].action \in [ActionId -> ActionStatus]
    BY <1>5 DEF ActionId, Segment
  <2>2. CASE t = s /\ d = c /\ i = call[c].step
    <3>1. seg'[t].action[<<d, i>>] = a
      BY <1>1, <1>3, <2>1, <2>2 DEF s
    <3> QED
      BY <1>5, <2>2, <3>1 DEF s
  <2>3. CASE ~(t = s /\ d = c /\ i = call[c].step)
    <3>1. seg[t].action[<<d, i>>] = "requested"
      <4>1. CASE t # s
        BY <1>3, <4>1
      <4>2. CASE t = s
        <5>1. <<d, i>> # ActionOf(c)
          BY <1>1, <2>3, <4>2
        <5>2. y.action[<<d, i>>] = seg[s].action[<<d, i>>]
          BY <2>1, <5>1 DEF s
        <5> QED
          BY <1>3, <4>2, <5>2
      <4> QED
        BY <4>1, <4>2
    <3>2. \/ call[d].pc = "executing" /\ call[d].at = t /\ call[d].step = i
          \/ call[d].pc = "dead"
      BY <3>1 DEF IInv, RequestedIsInFlight
    <3>3. d # c
      BY <2>3, <3>2 DEF s, InFlight
    <3> QED
      BY <1>5, <3>2, <3>3
  <2> QED
    BY <2>2, <2>3
<1> QED
  BY <1>3, <1>6, <1>7, <1>8, <1>9, <1>10 DEF IInv

\* An action is recorded and nothing is folded in.
LEMMA RecordKeeps ==
  ASSUME IInv, Idle, NEW c \in All, InFlight(c), NEW a \in ActionStatus, NEW pc \in {"executing", "failed"},
         Commit(call[c].at, Recorded(call[c].at, ActionOf(c), a)), Settle(c, pc),
         a = "requested" => pc = "executing", UNCHANGED <<run, worker, stage, active>>
  PROVE  IInv'
<1> DEFINE s == call[c].at
           y == Recorded(s, ActionOf(c), a)
           z == [call[c] EXCEPT !.pc = pc]
<1>1. /\ s \in Segments /\ seg[s] \in Segment /\ seg[s].status # "none" /\ Alive /\ deferred = <<>>
      /\ ActionOf(c) = <<c, call[c].step>> /\ ActionOf(c) \in ActionId /\ last # 0
  BY CallFacts
<1>2. /\ y \in Segment /\ y.rev = seg[s].rev + 1
      /\ y.action = [seg[s].action EXCEPT ![ActionOf(c)] = a]
      /\ y.proto = seg[s].proto /\ y.status = seg[s].status /\ y.phase = seg[s].phase
      /\ y.domain = seg[s].domain /\ y.decision = seg[s].decision
  BY <1>1, RecordedType
<1>3. /\ z \in ToolCall /\ z.pc = pc /\ z.by = call[c].by /\ z.at = call[c].at
      /\ z.name = call[c].name /\ z.step = call[c].step
      /\ call' = [call EXCEPT ![c] = z] /\ call'[c] = z
      /\ \A d \in All : d # c => call'[d] = call[d]
  BY DEF Settle, IInv, TypeOK, ToolCall, CallPc
<1>4. Commit(s, y) /\ seg' = [seg EXCEPT ![s] = y] /\ last' = last
  BY DEF Commit
<1> HIDE DEF s, y, z
<1>5. seg'[s] = y /\ \A t \in Segments : t # s => seg'[t] = seg[t]
  BY <1>1, <1>4 DEF IInv, TypeOK
<1>6. AnswerOk'
  <2>1. /\ \A t \in Segments : Answered(t)' <=> Answered(t)
        /\ \A t \in Segments : /\ seg'[t].proto = seg[t].proto /\ seg'[t].phase = seg[t].phase
                               /\ seg'[t].decision = seg[t].decision /\ seg'[t].status = seg[t].status
    BY <1>2, <1>5 DEF Answered
  <2>2. ASSUME NEW t \in Segments, Answered(t)
        PROVE  /\ call'[CommitCall].pc # "idle" /\ (InFlight(CommitCall)' => call'[CommitCall].step # 0)
               /\ seg'[t].action[<<CommitCall, 0>>] = "succeeded"
    <3>1. /\ call[CommitCall].pc # "idle" /\ (InFlight(CommitCall) => call[CommitCall].step # 0)
          /\ seg[t].action[<<CommitCall, 0>>] = "succeeded"
      BY <2>2 DEF IInv, AnswerOk
    <3>2. <<CommitCall, 0>> # ActionOf(c)
      BY <1>1, <3>1
    <3>3. seg'[t].action[<<CommitCall, 0>>] = seg[t].action[<<CommitCall, 0>>]
      <4>1. <<CommitCall, 0>> \in ActionId /\ seg[s].action \in [ActionId -> ActionStatus]
        BY <1>1 DEF ActionId, All, Segment
      <4>2. y.action[<<CommitCall, 0>>] = seg[s].action[<<CommitCall, 0>>]
        BY <1>2, <3>2, <4>1
      <4> QED
        BY <1>5, <4>2
    <3> QED
      BY <1>3, <3>1, <3>3 DEF InFlight, All
  <2>3. last \in Segments
    BY <1>1 DEF IInv, TypeOK, Segments
  <2>4. Answered(last)' <=> Answered(last)
    BY <1>2, <1>4, <1>5, <2>3 DEF Answered
  <2> QED
    BY <1>4, <2>1, <2>2, <2>3, <2>4 DEF IInv, AnswerOk, Answered
<1>7. /\ y.rev = seg[call[c].at].rev + 1 /\ y.status = seg[call[c].at].status
      /\ y.action = [seg[call[c].at].action EXCEPT ![ActionOf(c)] = a]
      /\ Commit(call[c].at, y)
  BY <1>2, <1>4 DEF s
<1>8. /\ z.pc \in {"called", "executing", "proposing", "done", "failed"} /\ z.name # "none"
      /\ (z.pc = "proposing" => z.name = "handoff")
      /\ (a = "requested" => z.pc = "executing" /\ z.step = call[c].step)
  BY <1>3 DEF IInv, CallOk
<1>9. z.pc \in {"called", "executing", "proposing"} =>
        /\ z.name # "none" /\ (z.name = "handoff" => call[c].name = "handoff")
        /\ z.name = "answer" => call[c].name = "answer" /\ z.step = call[c].step
  BY <1>3, <1>8
<1>10. /\ y \in Segment /\ z \in ToolCall /\ call' = [call EXCEPT ![c] = z]
       /\ z.by = call[c].by /\ z.at = call[c].at
  BY <1>2, <1>3
<1> QED
  BY <1>6, <1>7, <1>8, <1>9, <1>10, CallCommits, Zenon

LEMMA RefusedKeeps ==
  ASSUME IInv, NEW c \in All, Admit(c) \/ Reject(c) \/ Throw(c) \/ Mismatch(c)
  PROVE  IInv'
<1>1. Idle /\ InFlight(c) /\ UNCHANGED <<run, worker, stage, active>>
  BY DEF Admit, Reject, Throw, Mismatch, InFlight
<1>2. CASE Admit(c)
  BY <1>1, <1>2, RecordKeeps DEF Admit, ActionStatus
<1>3. CASE Reject(c)
  BY <1>1, <1>3, RecordKeeps DEF Reject, ActionStatus
<1>4. CASE Throw(c)
  BY <1>1, <1>4, RecordKeeps DEF Throw, ActionStatus
<1>5. CASE Mismatch(c)
  BY <1>1, <1>5, RecordKeeps DEF Mismatch, ActionStatus
<1> QED
  BY <1>2, <1>3, <1>4, <1>5

\* What a call is after its result: over, or at an automatic action.
LEMMA ChainEffect ==
  ASSUME TypeOK, NEW c \in All, Chain(c)
  PROVE  LET z == call'[c] IN
         /\ z \in ToolCall /\ call' = [call EXCEPT ![c] = z]
         /\ z.by = call[c].by /\ z.at = call[c].at
         /\ \/ z.pc = "done"
            \/ z.pc = "proposing" /\ z.name = "handoff" /\ call[c].name = "handoff" /\ z.step = call[c].step
            \/ /\ z.pc = "called" /\ z.name = "tool" /\ z.step = call[c].step + 1
               /\ Proto(call[c].by) = "data-analysis" /\ call[c].name # "handoff"
<1>1. call[c] \in ToolCall /\ call \in [All -> ToolCall]
  BY DEF TypeOK
<1>2. ASSUME NEW pc \in {"done", "proposing"}, Settle(c, pc)
      PROVE  /\ call'[c] \in ToolCall /\ call' = [call EXCEPT ![c] = call'[c]]
             /\ call'[c].by = call[c].by /\ call'[c].at = call[c].at /\ call'[c].pc = pc
             /\ call'[c].name = call[c].name /\ call'[c].step = call[c].step
  BY <1>1, <1>2 DEF Settle, ToolCall, CallPc
<1>3. ASSUME call[c].step < MaxAutomatic,
             call' = [call EXCEPT ![c].pc = "called", ![c].name = "tool", ![c].step = @ + 1]
      PROVE  /\ call'[c] \in ToolCall /\ call' = [call EXCEPT ![c] = call'[c]]
             /\ call'[c].by = call[c].by /\ call'[c].at = call[c].at
             /\ call'[c].pc = "called" /\ call'[c].name = "tool" /\ call'[c].step = call[c].step + 1
  BY <1>1, <1>3 DEF ToolCall, CallPc, WorkActions
<1> QED
  BY <1>2, <1>3 DEF Chain

LEMMA ReturnKeeps == ASSUME IInv, NEW c \in All, Return(c) PROVE IInv'
<1> DEFINE s == call[c].at
           p == Proto(call[c].by)
           y == Succeeded(c)
           z == call'[c]
<1>1. /\ Idle /\ InFlight(c) /\ UNCHANGED <<run, worker, stage, active>>
      /\ Commit(s, y) /\ Chain(c)
  BY DEF Return, InFlight
<1>2. /\ s \in Segments /\ seg[s] \in Segment /\ seg[s].status # "none"
      /\ active[call[c].by] \in Segments /\ call[c].name \in WorkActions
      /\ ActionOf(c) = <<c, call[c].step>> /\ ActionOf(c) \in ActionId /\ last # 0
      /\ call[c].step \in Nat
  BY <1>1, CallFacts
<1>3. /\ y \in Segment /\ y.rev = seg[s].rev + 1
      /\ y.action = [seg[s].action EXCEPT ![ActionOf(c)] = "succeeded"]
      /\ y.proto = seg[s].proto /\ y.status = seg[s].status /\ y.decision = seg[s].decision
      /\ y.domain = seg[s].domain \cup {<<p, call[c].name>>}
      /\ y.phase = Target(p, seg[s].phase, call[c].name)
      /\ p \in Protocols
  BY <1>2, SucceededType DEF IInv
<1>4. /\ z \in ToolCall /\ call' = [call EXCEPT ![c] = z]
      /\ z.by = call[c].by /\ z.at = call[c].at
      /\ \/ z.pc = "done"
         \/ z.pc = "proposing" /\ z.name = "handoff" /\ call[c].name = "handoff" /\ z.step = call[c].step
         \/ z.pc = "called" /\ z.name = "tool" /\ z.step = call[c].step + 1 /\ p = "data-analysis"
      /\ \A d \in All : d # c => call'[d] = call[d]
  BY <1>1, ChainEffect DEF IInv, TypeOK
<1>5. last \in Segments /\ last' = last /\ (s = last => p = seg[last].proto)
  BY <1>1, <1>2, NewestProto DEF IInv, TypeOK, Segments, Commit
<1>6. call[c].name = "answer" => c = CommitCall /\ call[c].step = 0
  BY <1>1 DEF IInv, CallOk
<1>7. seg'[s] = y /\ \A t \in Segments : t # s => seg'[t] = seg[t]
  BY <1>1, <1>2 DEF IInv, TypeOK, Commit
<1> HIDE DEF s, p, y, z
<1>8. \A t \in Segments : Answered(t)' =>
         Answered(t) \/ (t = s /\ p = "general-task" /\ call[c].name = "answer")
  BY <1>3, <1>7 DEF Answered
<1>9. AnswerOk'
  <2>1. ASSUME NEW t \in Segments, Answered(t)'
        PROVE  /\ call'[CommitCall].pc # "idle" /\ (InFlight(CommitCall)' => call'[CommitCall].step # 0)
               /\ seg'[t].action[<<CommitCall, 0>>] = "succeeded"
    <3>0. <<CommitCall, 0>> \in ActionId /\ seg[s].action \in [ActionId -> ActionStatus]
      BY <1>2 DEF ActionId, All, Segment
    <3>1. CASE Answered(t)
      <4>1. /\ call[CommitCall].pc # "idle" /\ (InFlight(CommitCall) => call[CommitCall].step # 0)
            /\ seg[t].action[<<CommitCall, 0>>] = "succeeded"
        BY <3>1 DEF IInv, AnswerOk
      <4>2. seg'[t].action[<<CommitCall, 0>>] = "succeeded"
        <5>1. CASE t = s
          <6>1. y.action[<<CommitCall, 0>>] = "succeeded"
            BY <1>2, <1>3, <3>0, <4>1, <5>1
          <6> QED
            BY <1>7, <5>1, <6>1
        <5>2. CASE t # s
          BY <1>7, <4>1, <5>2
        <5> QED
          BY <5>1, <5>2
      <4>3. call'[CommitCall].pc # "idle" /\ (InFlight(CommitCall)' => call'[CommitCall].step # 0)
        <5>1. CASE c = CommitCall
          BY <1>1, <1>2, <1>4, <4>1, <5>1 DEF InFlight, z
        <5>2. CASE c # CommitCall
          BY <1>4, <4>1, <5>2 DEF InFlight, All
        <5> QED
          BY <5>1, <5>2
      <4> QED
        BY <4>2, <4>3
    <3>2. CASE t = s /\ p = "general-task" /\ call[c].name = "answer"
      <4>1. y.action[<<CommitCall, 0>>] = "succeeded"
        BY <1>2, <1>3, <1>6, <3>0, <3>2
      <4>2. \/ z.pc = "done"
            \/ z.pc = "called" /\ z.step # 0
        <5>1. z.pc # "proposing"
          BY <1>4, <3>2
        <5>2. z.step = call[c].step + 1 => z.step # 0
          BY <1>2
        <5>3. \/ z.pc = "done" \/ z.pc = "proposing"
              \/ z.pc = "called" /\ z.step = call[c].step + 1
          BY <1>4, Zenon
        <5> QED
          BY <5>1, <5>2, <5>3, Zenon
      <4> QED
        BY <1>6, <1>7, <3>2, <4>1, <4>2 DEF InFlight, z
    <3> QED
      BY <1>8, <2>1, <3>1, <3>2
  <2>2. ASSUME seg'[last].proto = "general-task"
        PROVE  /\ seg'[last].phase \in {"understand", "gather", "answer"}
               /\ Answered(last)' => seg'[last].phase = "answer"
               /\ seg'[last].decision = "completed" => Answered(last)'
    <3>1. CASE s # last
      <4>1. seg'[last] = seg[last] /\ (Answered(last)' <=> Answered(last))
        BY <1>5, <1>7, <3>1 DEF Answered
      <4>2. /\ seg[last].phase \in {"understand", "gather", "answer"}
            /\ Answered(last) => seg[last].phase = "answer"
            /\ seg[last].decision = "completed" => Answered(last)
        BY <1>2, <2>2, <4>1 DEF IInv, AnswerOk
      <4> QED
        BY <4>1, <4>2
    <3>2. CASE s = last
      <4>1. p = "general-task" /\ seg[last].proto = "general-task" /\ seg'[last] = y
        BY <1>3, <1>5, <1>7, <2>2, <3>2
      <4>2. /\ seg[last].phase \in {"understand", "gather", "answer"}
            /\ Answered(last) => seg[last].phase = "answer"
            /\ seg[last].decision = "completed" => Answered(last)
        BY <1>2, <4>1 DEF IInv, AnswerOk
      <4>3. /\ y.phase \in {"understand", "gather", "answer"}
            /\ seg[last].phase = "answer" \/ call[c].name = "answer" => y.phase = "answer"
        BY <1>3, <3>2, <4>1, <4>2, GeneralTarget
      <4>4. Answered(last) => Answered(last)'
        BY <1>3, <1>5, <3>2, <4>1 DEF Answered
      <4>5. Answered(last)' => Answered(last) \/ call[c].name = "answer"
        BY <1>3, <1>5, <3>2, <4>1 DEF Answered
      <4>6. y.decision = seg[last].decision
        BY <1>3, <3>2
      <4> QED
        BY <4>1, <4>2, <4>3, <4>4, <4>5, <4>6
    <3> QED
      BY <3>1, <3>2
  <2>3. seg'[last].status = seg[last].status
    BY <1>3, <1>5, <1>7
  <2> QED
    BY <1>1, <1>5, <2>1, <2>2, <2>3 DEF IInv, AnswerOk, Answered
<1>10. /\ y.rev = seg[call[c].at].rev + 1 /\ y.status = seg[call[c].at].status
       /\ y.action = [seg[call[c].at].action EXCEPT ![ActionOf(c)] = "succeeded"]
       /\ Commit(call[c].at, y)
  BY <1>1, <1>3 DEF s
<1>11. /\ z.pc \in {"called", "executing", "proposing", "done", "failed"} /\ (z.pc = "proposing" => z.name = "handoff")
       /\ ("succeeded" = "requested" => z.pc = "executing" /\ z.step = call[c].step)
       /\ y \in Segment /\ z \in ToolCall /\ "succeeded" \in ActionStatus
       /\ call' = [call EXCEPT ![c] = z] /\ z.by = call[c].by /\ z.at = call[c].at
  BY <1>3, <1>4 DEF ActionStatus
<1>12. z.pc \in {"called", "executing", "proposing"} =>
        /\ z.name # "none" /\ (z.name = "handoff" => call[c].name = "handoff")
        /\ z.name = "answer" => call[c].name = "answer" /\ z.step = call[c].step
  BY <1>4
<1> QED
  BY <1>1, <1>9, <1>10, <1>11, <1>12, CallCommits, Zenon

-----------------------------------------------------------------------------
(* A handoff. *)

\* Only the newest worker hands off, and from the newest segment: the segment
\* it was on when it called is that one or was handed off already.
LEMMA HandoffFrom ==
  ASSUME IInv, NEW c \in All, HandingOff(c), seg[active[call[c].by]].status = "active"
  PROVE  /\ InFlight(c) /\ call[c].by = worker /\ worker \in Workers
         /\ active[worker] = last /\ last \in Segments
<1> DEFINE from == active[call[c].by]
<1>1. /\ InFlight(c) /\ call[c].by = worker
      /\ from \in Segments /\ worker \in Workers /\ from <= last
  <2>1. InFlight(c) /\ call[c].name = "handoff"
    BY DEF HandingOff, InFlight, IInv, CallOk
  <2> QED
    BY <2>1, CallFacts DEF IInv, CallOk
<1>2. last \in 0..MaxSegments /\ from \in 1..MaxSegments
  BY <1>1 DEF IInv, TypeOK, Segments
<1>3. ~(from < last)
  BY <1>1 DEF IInv, OneOpenSegment
<1>4. from = last
  BY <1>1, <1>2, <1>3
<1> QED
  BY <1>1, <1>4

\* A proposal that is announced, refused or names no target.
LEMMA ProposalKeeps ==
  ASSUME IInv, NEW c \in All, Propose(c) \/ RefuseHandoff(c)
  PROVE  IInv'
<1>1. /\ HandingOff(c) /\ InFlight(c)
      /\ UNCHANGED <<run, worker, stage, state, active, journal, acked, published, queue>>
  BY DEF Propose, RefuseHandoff, HandingOff, InFlight
<1>2. PICK pc \in {"proposed", "failed"} : Settle(c, pc)
  BY DEF Propose, RefuseHandoff
<1>3. /\ call[c] \in ToolCall /\ call'[c] = [call[c] EXCEPT !.pc = pc] /\ call'[c] \in ToolCall
      /\ call' \in [All -> ToolCall] /\ \A d \in All : d # c => call'[d] = call[d]
  BY <1>2 DEF Settle, IInv, TypeOK, ToolCall, CallPc
<1>4. /\ call'[c].by = call[c].by /\ call'[c].at = call[c].at /\ call'[c].name = call[c].name
      /\ call'[c].step = call[c].step /\ call'[c].pc = pc
  BY <1>3 DEF ToolCall
<1> USE DEF state
<1>5. announced' \subseteq Segments \X Nat \X {"proposed", "rejected"}
  <2>1. active[call[c].by] \in Segments /\ seg[active[call[c].by]].rev \in Nat
    BY <1>1, CallFacts DEF IInv, TypeOK, Segment
  <2> QED
    BY <2>1 DEF Propose, RefuseHandoff, Announce, IInv, TypeOK
<1>6. TypeOK'
  BY <1>1, <1>3, <1>5 DEF IInv, TypeOK, queue
<1>7. Control'
  BY <1>1, <1>3, <1>4 DEF IInv, Control, Ready, Ended, All, HandingOff
<1>8. \A d \in All : CallOk(d)'
  <2>1. CallOk(c)'
    BY <1>1, <1>4 DEF IInv, CallOk, InFlight, HandingOff
  <2>2. ASSUME NEW d \in All, d # c PROVE CallOk(d)'
    BY <1>1, <1>3, <2>2 DEF IInv, CallOk, InFlight, HandingOff
  <2> QED
    BY <2>1, <2>2
<1>9. Alive
  BY <1>1 DEF Alive
<1>10. RequestedIsInFlight'
  <2> SUFFICES ASSUME NEW s \in Segments, NEW d \in All, NEW i \in 0..MaxAutomatic,
                      seg'[s].action[<<d, i>>] = "requested"
               PROVE  \/ call'[d].pc = "executing" /\ call'[d].at = s /\ call'[d].step = i
                      \/ call'[d].pc = "dead"
    BY DEF RequestedIsInFlight
  <2>1. \/ call[d].pc = "executing" /\ call[d].at = s /\ call[d].step = i
        \/ call[d].pc = "dead"
    BY <1>1 DEF IInv, RequestedIsInFlight
  <2>2. d # c
    BY <1>1, <2>1 DEF HandingOff
  <2> QED
    BY <1>3, <2>1, <2>2
<1>11. DeferredOk'
  <2>1. deferred = <<>>
    BY <1>1, CallFacts
  <2> QED
    BY <1>1, <2>1 DEF DeferredOk, queue
<1>12. AnswerOk'
  <2>1. call'[CommitCall].pc # "idle" <=> call[CommitCall].pc # "idle"
    BY <1>1, <1>3, <1>4 DEF HandingOff, All
  <2>2. (InFlight(CommitCall) => call[CommitCall].step # 0) => (InFlight(CommitCall)' => call'[CommitCall].step # 0)
    BY <1>1, <1>3, <1>4 DEF InFlight, All
  <2> QED
    BY <1>1, <2>1, <2>2 DEF IInv, AnswerOk, Answered
<1> QED
  BY <1>1, <1>6, <1>7, <1>8, <1>9, <1>10, <1>11, <1>12, QuietKeeps

LEMMA HandoffKeeps ==
  ASSUME IInv, NEW c \in All, NEW p \in Protocols, Handoff(c, p)
  PROVE  IInv'
<1> DEFINE e == [seg[last] EXCEPT !.rev = @ + 1, !.status = "handed_off"]
           g2 == [seg EXCEPT ![last] = e]
           n == NewSegment(p, e.package)
           j2 == Inserted(journal, <<last, e.rev, 1>>)
<1>1. /\ InFlight(c) /\ call[c].by = worker /\ worker \in Workers /\ HandingOff(c)
      /\ active[worker] = last /\ last \in Segments /\ last + 1 \in Segments
      /\ seg[last].status = "active" /\ seg[last + 1].status = "none"
  <2>1. HandingOff(c) /\ seg[active[call[c].by]].status = "active" /\ active[call[c].by] < MaxSegments
    BY DEF Handoff, HandingOff
  <2>2. /\ InFlight(c) /\ call[c].by = worker /\ worker \in Workers
        /\ active[worker] = last /\ last \in Segments
    BY <2>1, HandoffFrom
  <2>3. last + 1 \in Segments /\ last + 1 > last
    BY <2>1, <2>2 DEF Segments
  <2> QED
    BY <2>1, <2>2, <2>3 DEF IInv, OneOpenSegment
<1>2. Alive /\ deferred = <<>> /\ call[c] \in ToolCall
  BY <1>1, CallFacts DEF IInv, TypeOK
<1>4. /\ seg' = [g2 EXCEPT ![last + 1] = n] /\ last' = last + 1
      /\ active' = [active EXCEPT ![worker] = last + 1]
      /\ journal' = Journaled(j2, last + 1, 0)
      /\ publishing' = << <<last, e.rev, 1>> >> \o Events(last + 1, 0)
      /\ Settle(c, "done") /\ publishing = <<>>
      /\ UNCHANGED <<run, worker, stage, acked, published, announced, emitted, deferred>>
  BY <1>1 DEF Handoff
<1>5. seg \in [Segments -> Segment] /\ seg[last] \in Segment
  BY <1>1 DEF IInv, TypeOK
<1>6. /\ e \in Segment /\ e.rev = seg[last].rev + 1 /\ e.status = "handed_off"
      /\ e.domain = seg[last].domain /\ e.action = seg[last].action /\ e.package \in 0..MaxWorkers
  <2>1. /\ e \in Segment /\ e.rev = seg[last].rev + 1 /\ e.status = "handed_off"
        /\ e.domain = seg[last].domain /\ e.action = seg[last].action
    BY <1>5, EndedType
  <2> QED
    BY <2>1 DEF Segment
<1> HIDE DEF e
<1>7. /\ g2 \in [Segments -> Segment] /\ g2[last] = e
      /\ \A t \in Segments : t # last => g2[t] = seg[t]
  BY <1>1, <1>5, <1>6
<1> HIDE DEF g2
<1>8. /\ n \in Segment /\ n.rev = 0 /\ n.status = "active" /\ n.domain = {} /\ n.decision = "none"
      /\ (n.proto = "general-task" => n.phase = "understand")
      /\ \A id \in ActionId : n.action[id] = "none"
  BY <1>6, NewSegmentType
<1> HIDE DEF n
<1>9. /\ seg' \in [Segments -> Segment] /\ seg'[last + 1] = n
      /\ \A t \in Segments : t # last + 1 => seg'[t] = g2[t]
  BY <1>1, <1>4, <1>7, <1>8
\* The journal gets the three entries, in order.
<1>11. Exact(j2, g2) /\ Appends(journal, j2, << <<last, e.rev, 1>> >>) /\ j2 \in Seq(Event)
  <2>1. /\ NextRevision(seg[last], e) /\ <<last, e.rev, 1>> \in Event
        /\ Exact(journal, seg) /\ journal \in Seq(Event)
    BY <1>1, <1>5, <1>6, ExactJournal DEF NextRevision, Event, Segment, IInv, TypeOK
  <2>2. Extends(journal, j2, <<last, e.rev, 1>>) /\ Exact(j2, g2)
    BY <1>1, <1>5, <1>6, <2>1, JournaledOne DEF g2
  <2> HIDE DEF j2
  <2>3. Appends(journal, j2, << <<last, e.rev, 1>> >>)
    BY <2>1, <2>2, OneAppends
  <2> QED
    BY <2>2, <2>3 DEF Appends
<1> HIDE DEF j2
<1>12. Exact(journal', seg') /\ Appends(j2, journal', Events(last + 1, 0))
  <2>1. g2[last + 1].status = "none"
    BY <1>1, <1>7 DEF Segments
  <2>2. NextRevision(g2[last + 1], n)
    BY <1>8, <2>1 DEF NextRevision
  <2> DEFINE k == Inserted(j2, <<last + 1, n.rev, 1>>)
  <2>3. /\ Extends(j2, k, <<last + 1, n.rev, 1>>)
        /\ Extends(k, Journaled(j2, last + 1, n.rev), <<last + 1, n.rev, 2>>)
        /\ Exact(Journaled(j2, last + 1, n.rev), [g2 EXCEPT ![last + 1] = n])
    BY <1>1, <1>7, <1>8, <1>11, <2>2, JournaledBoth
  <2> HIDE DEF k
  <2> QED
    BY <1>1, <1>4, <1>8, <1>11, <2>3, BothAppend
<1>13. Appends(journal, journal', publishing')
  BY <1>4, <1>11, <1>12, AppendsTwice DEF IInv, TypeOK
<1>14. JournalExact' /\ LogOk' /\ DeferredOk' /\ journal' \in Seq(Event) /\ publishing' \in Seq(Event)
  <2>1. LogOk' /\ DeferredOk'
    BY <1>2, <1>4, <1>13, LogCommit DEF IInv
  <2> QED
    BY <1>12, <1>13, <2>1, ExactJournal DEF Appends
\* The segments, the worker and the call.
<1>15. /\ call'[c] = [call[c] EXCEPT !.pc = "done"] /\ call'[c].pc = "done" /\ call'[c] \in ToolCall
       /\ call' \in [All -> ToolCall] /\ \A d \in All : d # c => call'[d] = call[d]
  BY <1>2, <1>4 DEF Settle, IInv, TypeOK, ToolCall, CallPc
<1>16. /\ last \in Nat \ {0} /\ last + 1 \in 0..MaxSegments /\ worker' = worker /\ stage' = stage /\ run' = run
       /\ active' \in [Workers -> 0..MaxSegments] /\ active'[worker] = last + 1
       /\ \A w \in Workers : w # worker => active'[w] = active[w]
  BY <1>1, <1>4 DEF IInv, TypeOK, Segments
<1>17. TypeOK'
  BY <1>4, <1>9, <1>14, <1>15, <1>16 DEF IInv, TypeOK
<1>18. Control'
  <2>1. call'[CommitCall].pc # "idle" => call[CommitCall].pc # "idle"
    BY <1>1, <1>15 DEF InFlight, All
  <2> QED
    BY <1>4, <1>16, <2>1 DEF IInv, Control, Ready, Ended
<1>19. \A d \in All : CallOk(d)'
  <2> SUFFICES ASSUME NEW d \in All, d # c, InFlight(d) PROVE CallOk(d)'
    BY <1>15 DEF CallOk, InFlight
  <2>1. CallOk(d) /\ call'[d] = call[d] /\ call[d].by \in Workers
    BY <1>15, CallFacts DEF IInv
  <2>2. call[d].at \in 1..last /\ active[call[d].by] \in call[d].at..last /\ call[d].by \in 1..worker
    BY <2>1 DEF CallOk
  <2>3. active'[call[d].by] \in {active[call[d].by], last + 1}
    BY <1>16, <2>1
  <2>4. call[d].at \in 1..last + 1 /\ active'[call[d].by] \in call[d].at..last + 1
    BY <1>16, <2>2, <2>3
  <2> QED
    BY <1>4, <1>16, <2>1, <2>2, <2>4 DEF CallOk, HandingOff
<1>20. OneOpenSegment'
  <2>1. \A t \in Segments : t # last /\ t # last + 1 => seg'[t].status = seg[t].status
    BY <1>7, <1>9
  <2>2. seg'[last].status = "handed_off" /\ seg'[last + 1].status = "active"
    BY <1>1, <1>6, <1>7, <1>8, <1>9, <1>16
  <2>3. \A t \in Segments : /\ t < last + 1 => t < last \/ t = last
                            /\ t > last + 1 => t > last /\ t # last + 1
                            /\ t < last => t # last + 1
    BY <1>16 DEF Segments
  <2> QED
    BY <1>4, <1>16, <2>1, <2>2, <2>3 DEF IInv, OneOpenSegment
<1>21. /\ \A t \in Segments : t # last + 1 =>
            seg'[t].action = seg[t].action /\ seg'[t].domain = seg[t].domain
       /\ \A id \in ActionId : seg'[last + 1].action[id] = "none"
  BY <1>6, <1>7, <1>8, <1>9
<1>22. RequestedIsInFlight'
  <2> SUFFICES ASSUME NEW t \in Segments, NEW d \in All, NEW i \in 0..MaxAutomatic,
                      seg'[t].action[<<d, i>>] = "requested"
               PROVE  \/ call'[d].pc = "executing" /\ call'[d].at = t /\ call'[d].step = i
                      \/ call'[d].pc = "dead"
    BY DEF RequestedIsInFlight
  <2>1. seg[t].action[<<d, i>>] = "requested"
    BY <1>21 DEF ActionId
  <2>2. \/ call[d].pc = "executing" /\ call[d].at = t /\ call[d].step = i
        \/ call[d].pc = "dead"
    BY <2>1 DEF IInv, RequestedIsInFlight
  <2>3. d # c
    BY <1>1, <2>2 DEF HandingOff
  <2> QED
    BY <1>15, <2>2, <2>3
<1>23. AnswerOk'
  <2>1. ASSUME NEW t \in Segments, Answered(t)' PROVE t # last + 1 /\ Answered(t)
    BY <1>8, <1>9, <1>21, <2>1 DEF Answered
  <2>2. ASSUME NEW t \in Segments, Answered(t)'
        PROVE  /\ call'[CommitCall].pc # "idle" /\ (InFlight(CommitCall)' => call'[CommitCall].step # 0)
               /\ seg'[t].action[<<CommitCall, 0>>] = "succeeded"
    <3>1. /\ call[CommitCall].pc # "idle" /\ (InFlight(CommitCall) => call[CommitCall].step # 0)
          /\ seg[t].action[<<CommitCall, 0>>] = "succeeded" /\ t # last + 1
      BY <2>1, <2>2 DEF IInv, AnswerOk
    <3> QED
      BY <1>15, <1>21, <3>1 DEF InFlight, All
  <2>3. stage # "decided" /\ run # "completed"
    BY <1>1 DEF IInv, AnswerOk
  <2>4. <<"general-task", "answer">> \notin seg'[last + 1].domain
    BY <1>8, <1>9
  <2>5. /\ last' = last + 1
        /\ seg'[last + 1].proto = "general-task" => seg'[last + 1].phase = "understand"
        /\ seg'[last + 1].decision = "none"
    BY <1>4, <1>8, <1>9
  <2>6. ~Answered(last)'
    BY <2>4, <2>5 DEF Answered
  <2> QED
    BY <1>4, <2>2, <2>3, <2>5, <2>6 DEF AnswerOk, Answered
<1> QED
  BY <1>14, <1>17, <1>18, <1>19, <1>20, <1>22, <1>23 DEF IInv

-----------------------------------------------------------------------------
(* The invariant. *)

LEMMA InvInit == Init => IInv
<1> SUFFICES ASSUME Init PROVE IInv
  OBVIOUS
<1> USE DEF Init
<1>1. \A s \in Segments : /\ seg[s] \in Segment /\ seg[s].status = "none" /\ seg[s].domain = {}
                          /\ \A id \in ActionId : seg[s].action[id] = "none"
  BY AbsentType
<1>2. \A c \in All : call[c] \in ToolCall /\ ~InFlight(c) /\ call[c].pc = "idle"
  BY DEF InFlight, ToolCall, CallPc
<1>3. TypeOK
  <2>1. call \in [All -> ToolCall]
    BY <1>2
  <2>2. seg \in [Segments -> Segment]
    BY <1>1
  <2>3. /\ journal \in Seq(Event) /\ published \in Seq(Event) /\ publishing \in Seq(Event)
        /\ deferred \in Seq(Event) /\ acked \subseteq Event /\ emitted \in BOOLEAN
    <3>1. <<>> \in Seq(Event)
      OBVIOUS
    <3> QED
      BY <3>1, Zenon
  <2>4. /\ active \in [Workers -> 0..MaxSegments] /\ last \in 0..MaxSegments /\ worker \in 0..MaxWorkers
        /\ run = "new" /\ stage = "none"
        /\ announced \subseteq Segments \X Nat \X {"proposed", "rejected"}
    OBVIOUS
  <2> HIDE DEF Init
  <2> QED
    BY <2>1, <2>2, <2>3, <2>4 DEF TypeOK
<1>4. Control /\ \A c \in All : CallOk(c)
  <2>1. run = "new" /\ stage = "none" /\ last = 0 /\ call[CommitCall].pc = "idle"
    BY <1>2 DEF All
  <2> HIDE DEF Init
  <2> QED
    BY <1>2, <2>1 DEF Control, CallOk, Ready, Ended
<1>5. OneOpenSegment /\ RequestedIsInFlight /\ JournalExact
  <2>1. last = 0 /\ stage = "none" /\ DOMAIN journal = {}
    OBVIOUS
  <2> HIDE DEF Init
  <2>2. OneOpenSegment
    BY <1>1, <2>1 DEF OneOpenSegment, Segments
  <2>3. RequestedIsInFlight
    BY <1>1 DEF RequestedIsInFlight, ActionId
  <2>4. JournalExact
    BY <1>1, <2>1 DEF JournalExact
  <2> QED
    BY <2>2, <2>3, <2>4
<1>6. LogOk
  <2>1. ~Alive
    BY <1>2 DEF Alive
  <2>2. LogAt(0)
    BY <2>1 DEF LogAt
  <2> QED
    BY <2>2 DEF LogOk
<1>7. DeferredOk /\ AnswerOk
  BY <1>1 DEF DeferredOk, AnswerOk, Answered
<1> QED
  BY <1>3, <1>4, <1>5, <1>6, <1>7 DEF IInv

LEMMA StutterKeeps == ASSUME IInv, UNCHANGED vars PROVE IInv'
<1> USE DEF vars, state, log, queue
<1>1. TypeOK' /\ Control' /\ \A c \in All : CallOk(c)'
  BY DEF IInv, TypeOK, Control, Ready, Ended, CallOk, InFlight, HandingOff
<1>2. DeferredOk' /\ AnswerOk' /\ (Alive' => Alive)
  BY DEF IInv, DeferredOk, Ended, AnswerOk, Answered, InFlight, Alive
<1> QED
  BY <1>1, <1>2, StillKeeps

LEMMA InvNext == IInv /\ [Next]_vars => IInv'
<1> SUFFICES ASSUME IInv, [Next]_vars PROVE IInv'
  OBVIOUS
<1>1. CASE UNCHANGED vars
  BY <1>1, StutterKeeps
<1>2. CASE Publish \/ Crash
  BY <1>2, PublishKeeps, CrashKeeps
<1>3. CASE Client
  BY <1>3, ClaimKeeps, ResumeKeeps, SuspendKeeps, StopKeeps, CallKeeps DEF Client
<1>4. CASE Assemble
  BY <1>4, RestoreKeeps, RunStartedKeeps, StartKeeps DEF Assemble
<1>5. CASE Finish \/ Conclude
  BY <1>5, FinishKeeps, ConcludeKeeps, DecideKeeps DEF Conclude
<1>6. ASSUME NEW c \in All, Router(c) PROVE IInv'
  BY <1>6, RefusedKeeps, DropKeeps, ReturnKeeps, ProposalKeeps, HandoffKeeps DEF Router
<1> QED
  BY <1>1, <1>2, <1>3, <1>4, <1>5, <1>6 DEF Next

\* The inductive invariant holds of every run of the specification.
THEOREM InvHolds == Spec => []IInv
BY InvInit, InvNext, PTL DEF Spec

-----------------------------------------------------------------------------
(* What the runs check. *)

\* Every variable of the protocol runtime keeps its type.
THEOREM TypeCorrect == Spec => []TypeOK
<1>1. IInv => TypeOK
  BY DEF IInv
<1> QED
  BY <1>1, InvHolds, PTL

\* The journal holds the first event of every revision and no event of another,
\* none twice, though it takes five of two segments at a handoff.
THEOREM JournalTellsCommits == Spec => []JournalExact
<1>1. IInv => JournalExact
  BY DEF IInv
<1> QED
  BY <1>1, InvHolds, PTL

\* Whatever crashes, replays and resumes there are, the events a client reads
\* are the first of the journal, in its order.
THEOREM PublishedInOrder == Spec => []PublishedIsPrefix
<1>1. IInv => PublishedIsPrefix
  <2> SUFFICES ASSUME IInv PROVE PublishedIsPrefix
    OBVIOUS
  <2>1. PICK k \in 0..Len(journal) : LogAt(k)
    BY DEF IInv, LogOk
  <2>2. /\ published \in Seq(Event) /\ journal \in Seq(Event)
        /\ Len(published) <= Len(journal) /\ \A i \in 1..Len(published) : published[i] = journal[i]
    BY <2>1 DEF IInv, TypeOK, LogAt
  <2>3. SubSeq(journal, 1, Len(published)) = published
    <3>1. /\ SubSeq(journal, 1, Len(published)) \in Seq(Event)
          /\ Len(SubSeq(journal, 1, Len(published))) = Len(published)
          /\ \A i \in 1..Len(published) : SubSeq(journal, 1, Len(published))[i] = journal[i]
      BY <2>2
    <3> QED
      BY <2>2, <3>1, SeqEqual
  <2> QED
    BY <2>2, <2>3 DEF PublishedIsPrefix, IsPrefix
<1> QED
  BY <1>1, InvHolds, PTL

\* A run has one segment that is not handed off, and its worker is on it.
THEOREM OneSegmentOpen == Spec => []OneOpenSegment
<1>1. IInv => OneOpenSegment
  BY DEF IInv
<1> QED
  BY <1>1, InvHolds, PTL

\* No refusal, failure, automatic action or handoff leaves an action open.
THEOREM NothingLeftOpen == Spec => []RequestedIsInFlight
<1>1. IInv => RequestedIsInFlight
  BY DEF IInv
<1> QED
  BY <1>1, InvHolds, PTL

\* A general task whose completed decision completes the run was answered, by
\* the one answer commit of the run.
THEOREM CompletedWithAnswer == Spec => []CompletedIsAnswered
<1>1. IInv => CompletedIsAnswered
  <2> SUFFICES ASSUME IInv, run = "completed"
               PROVE  /\ seg[last].status = "terminal"
                      /\ seg[last].proto = "general-task" /\ seg[last].decision = "completed" =>
                           /\ seg[last].action[<<CommitCall, 0>>] = "succeeded"
                           /\ seg[last].phase = "answer"
    BY DEF CompletedIsAnswered
  <2>1. last \in Segments /\ seg[last].status = "terminal"
    BY DEF IInv, AnswerOk, TypeOK, Segments
  <2>2. last # 0
    BY <2>1 DEF Segments
  <2>3. ASSUME seg[last].proto = "general-task", seg[last].decision = "completed"
        PROVE  seg[last].action[<<CommitCall, 0>>] = "succeeded" /\ seg[last].phase = "answer"
    <3>1. Answered(last) /\ seg[last].phase = "answer"
      BY <2>2, <2>3 DEF IInv, AnswerOk
    <3> QED
      BY <2>1, <3>1 DEF IInv, AnswerOk
  <2> QED
    BY <2>1, <2>3
<1> QED
  BY <1>1, InvHolds, PTL

\* A live worker owes no event, also of what its run committed before a crash.
THEOREM EverythingPublished == Spec => []NothingOwed
<1>1. IInv => NothingOwed
  <2> SUFFICES ASSUME IInv, stage \in {"live", "answering", "deciding", "decided"}, publishing = <<>>
               PROVE  Pending = <<>>
    BY DEF NothingOwed
  <2>1. PICK k \in 0..Len(journal) : LogAt(k)
    BY DEF IInv, LogOk
  <2>2. deferred = <<>>
    BY DEF IInv, DeferredOk, Control, Ended
  <2>3. k = Len(journal)
    BY <2>1, <2>2 DEF IInv, TypeOK, LogAt, Alive
  <2>4. Pending \in Seq(Event) /\ Len(Pending) = 0
    <3>1. \A i, m \in DOMAIN journal : journal[i] = journal[m] => i = m
      BY DEF IInv, JournalExact
    <3>2. acked = {journal[i] : i \in 1..k} /\ journal \in Seq(Event)
      BY <2>1 DEF IInv, TypeOK, LogAt
    <3>3. Pending \in Seq(Event) /\ Len(Pending) = Len(journal) - k
      BY <3>1, <3>2, PendingFollows
    <3> QED
      BY <2>3, <3>2, <3>3
  <2> QED
    BY <2>4
<1> QED
  BY <1>1, InvHolds, PTL

\* Of the proposals: one is decided at a time, an announced one at the revision
\* its segment still has; what is announced is of a revision that was read, and
\* every segment that was left was left after a proposal.
HandoffOk ==
  /\ \A c \in All : HandingOff(c) =>
       /\ \A d \in All : HandingOff(d) => d = c
       /\ call[c].pc = "proposed" =>
            <<active[call[c].by], seg[active[call[c].by]].rev, "proposed">> \in announced
  /\ \A e \in announced :
       <<e[1], e[2], 1>> \in ToSet(published) /\ <<e[1], e[2], "proposed">> \in announced
  /\ \A s \in Segments : s < last => \E e \in announced : e[1] = s /\ e[3] = "proposed"

\* When a proposal is decided, all that was committed has been read.
LEMMA AllRead ==
  ASSUME IInv, NEW c \in All, HandingOff(c), publishing = <<>>, NEW s \in Segments, seg[s].status # "none"
  PROVE  <<s, seg[s].rev, 1>> \in ToSet(published)
<1>1. PICK k \in 0..Len(journal) : LogAt(k)
  BY DEF IInv, LogOk
<1>2. InFlight(c)
  BY DEF HandingOff, InFlight
<1>3. Alive /\ deferred = <<>>
  BY <1>2, CallFacts
<1>4. /\ Len(journal) \in Nat /\ DOMAIN journal = 1..Len(journal)
      /\ Len(published) \in Nat /\ DOMAIN published = 1..Len(published)
  BY DEF IInv, TypeOK
<1>5. k = Len(journal) /\ Len(published) = Len(journal)
  <2>1. /\ k + Len(publishing) + Len(deferred) = Len(journal)
        /\ Len(published) \in {k, k + 1} /\ Len(published) <= Len(journal)
    BY <1>1, <1>3 DEF LogAt
  <2>2. /\ Len(publishing) = 0 /\ Len(deferred) = 0 /\ k \in Nat
        /\ Len(journal) \in Nat /\ Len(published) \in Nat
    BY <1>3, <1>4
  <2>3. k = Len(journal)
    BY <2>1, <2>2
  <2> QED
    BY <2>1, <2>2, <2>3
<1>6. \A i \in DOMAIN journal : i \in DOMAIN published /\ published[i] = journal[i]
  BY <1>1, <1>4, <1>5 DEF LogAt
<1>7. seg[s].rev \in 0..seg[s].rev
  BY DEF IInv, TypeOK, Segment
<1>8. <<s, seg[s].rev, 1>> \in ToSet(journal)
  BY <1>7 DEF IInv, JournalExact
<1> QED
  BY <1>6, <1>8 DEF ToSet

\* A step outside such a block that touches one call and announces nothing.
LEMMA HandoffIdle ==
  ASSUME HandoffOk, Idle, UNCHANGED <<announced, published>>, last' = last \/ last' = 1, NEW c \in All,
         \A d \in All : d # c => call'[d] = call[d], call'[c].pc # "proposed"
  PROVE  HandoffOk'
<1>1. \A d \in All : HandingOff(d)' => d = c
  BY DEF Idle, HandingOff
<1>2. \A s \in Segments : s < last' => s < last
  BY DEF Segments
<1> QED
  BY <1>1, <1>2 DEF HandoffOk, HandingOff

\* A step that publishes or announces, inside one or not, and goes on.
LEMMA HandoffGrows ==
  ASSUME HandoffOk, NEW a, announced' = announced \cup a, last' = last,
         ToSet(published) \subseteq ToSet(published'),
         \A e \in a : <<e[1], e[2], 1>> \in ToSet(published') /\ <<e[1], e[2], "proposed">> \in announced',
         \A c \in All : HandingOff(c)' =>
           /\ HandingOff(c)
           /\ call'[c].pc = "proposed" =>
                <<active'[call'[c].by], seg'[active'[call'[c].by]].rev, "proposed">> \in announced'
  PROVE  HandoffOk'
<1>1. \A c \in All : HandingOff(c)' =>
        /\ \A d \in All : HandingOff(d)' => d = c
        /\ call'[c].pc = "proposed" =>
             <<active'[call'[c].by], seg'[active'[call'[c].by]].rev, "proposed">> \in announced'
  BY DEF HandoffOk
<1>2. \A e \in announced' :
        <<e[1], e[2], 1>> \in ToSet(published') /\ <<e[1], e[2], "proposed">> \in announced'
  BY DEF HandoffOk
<1>3. \A s \in Segments : s < last' => \E e \in announced' : e[1] = s /\ e[3] = "proposed"
  BY DEF HandoffOk
<1> QED
  BY <1>1, <1>2, <1>3 DEF HandoffOk

LEMMA ProposalHandoff ==
  ASSUME IInv, HandoffOk, NEW c \in All, Propose(c) \/ RefuseHandoff(c)
  PROVE  HandoffOk'
<1> DEFINE from == active[call[c].by]
           at(kind) == <<from, seg[from].rev, kind>>
<1>1. /\ HandingOff(c) /\ publishing = <<>> /\ UNCHANGED <<seg, last, active, published>>
  BY DEF Propose, RefuseHandoff, HandingOff, state
<1>2. from \in Segments /\ seg[from].status # "none"
  <2>1. InFlight(c)
    BY <1>1 DEF HandingOff, InFlight
  <2>2. from \in Segments /\ from <= last /\ last # 0
    BY <2>1, CallFacts
  <2>3. last \in 0..MaxSegments
    BY DEF IInv, TypeOK
  <2> QED
    BY <2>2, <2>3 DEF IInv, OneOpenSegment, Segments
<1>3. <<from, seg[from].rev, 1>> \in ToSet(published)
  BY <1>1, <1>2, AllRead
<1>4. PICK pc \in {"proposed", "failed"} : Settle(c, pc)
  BY DEF Propose, RefuseHandoff
<1>5. /\ call[c] \in ToolCall /\ call'[c] = [call[c] EXCEPT !.pc = pc]
      /\ \A d \in All : d # c => call'[d] = call[d]
  BY <1>4 DEF Settle, IInv, TypeOK
<1>6. call'[c].by = call[c].by /\ call'[c].pc = pc
  BY <1>5 DEF ToolCall
<1>7. \A d \in All : HandingOff(d)' => d = c
  BY <1>1, <1>5 DEF HandoffOk, HandingOff
<1>8. CASE Propose(c)
  <2>1. \/ call'[c].pc = "failed" /\ announced' = announced
        \/ announced' = announced \cup {at("proposed")}
    <3>1. ASSUME Settle(c, "failed") PROVE call'[c].pc = "failed"
      BY <3>1, <1>5 DEF Settle, IInv, TypeOK, ToolCall
    <3> QED
      BY <1>8, <3>1 DEF Propose, Announce
  <2>2. CASE call'[c].pc = "failed" /\ announced' = announced
    <3>1. \A d \in All : ~HandingOff(d)'
      BY <1>7, <2>2 DEF HandingOff
    <3> QED
      BY <1>1, <2>2, <3>1 DEF HandoffOk
  <2>3. CASE announced' = announced \cup {at("proposed")}
    <3>1. \A e \in {at("proposed")} :
            <<e[1], e[2], 1>> \in ToSet(published') /\ <<e[1], e[2], "proposed">> \in announced'
      BY <1>1, <1>3, <2>3
    <3>2. <<active'[call'[c].by], seg'[active'[call'[c].by]].rev, "proposed">> \in announced'
      BY <1>1, <1>6, <2>3
    <3> QED
      BY <1>1, <1>7, <2>3, <3>1, <3>2, HandoffGrows
  <2> QED
    BY <2>1, <2>2, <2>3
<1>9. CASE RefuseHandoff(c)
  <2>1. call'[c].pc = "failed"
    BY <1>5, <1>9 DEF RefuseHandoff, Settle, IInv, TypeOK, ToolCall
  <2>2. \A d \in All : ~HandingOff(d)'
    BY <1>7, <2>1 DEF HandingOff
  <2>3. at("proposed") \in announced
    BY <1>1, <1>9 DEF HandoffOk, RefuseHandoff
  <2>4. CASE announced' = announced
    BY <1>1, <2>2, <2>4 DEF HandoffOk
  <2>5. CASE announced' = announced \cup {at("rejected")}
    <3>1. \A e \in {at("rejected")} :
            <<e[1], e[2], 1>> \in ToSet(published') /\ <<e[1], e[2], "proposed">> \in announced'
      BY <1>1, <1>3, <2>3, <2>5
    <3> QED
      BY <1>1, <2>2, <2>5, <3>1, HandoffGrows
  <2> QED
    BY <1>9, <2>4, <2>5 DEF RefuseHandoff, Announce
<1> QED
  BY <1>8, <1>9

LEMMA AcceptedHandoff ==
  ASSUME IInv, HandoffOk, NEW c \in All, NEW p \in Protocols, Handoff(c, p)
  PROVE  HandoffOk'
<1>1. /\ HandingOff(c) /\ seg[active[call[c].by]].status = "active" /\ call[c].pc = "proposed"
      /\ UNCHANGED <<announced, published>> /\ Settle(c, "done")
  BY DEF Handoff, HandingOff
<1>2. active[call[c].by] = last /\ last \in Segments
  BY <1>1, HandoffFrom
<1>3. last' = last + 1
  BY <1>2 DEF Handoff
<1>4. /\ call'[c].pc = "done" /\ \A d \in All : d # c => call'[d] = call[d]
  BY <1>1 DEF Settle, IInv, TypeOK, ToolCall
<1>5. \A d \in All : ~HandingOff(d)'
  BY <1>1, <1>4 DEF HandoffOk, HandingOff
<1>6. <<last, seg[last].rev, "proposed">> \in announced
  BY <1>1, <1>2 DEF HandoffOk
<1>7. ASSUME NEW s \in Segments, s < last' PROVE \E e \in announced' : e[1] = s /\ e[3] = "proposed"
  <2>1. CASE s = last
    <3>1. <<last, seg[last].rev, "proposed">> \in announced'
      BY <1>1, <1>6
    <3> QED
      BY <2>1, <3>1
  <2>2. CASE s # last
    <3>1. s < last
      BY <1>2, <1>3, <1>7, <2>2 DEF Segments
    <3> QED
      BY <1>1, <3>1 DEF HandoffOk
  <2> QED
    BY <2>1, <2>2
<1> QED
  BY <1>1, <1>5, <1>7 DEF HandoffOk

LEMMA HandoffNext == ASSUME IInv, HandoffOk, [Next]_vars PROVE HandoffOk'
<1> USE DEF state, log, queue
<1>1. CASE UNCHANGED vars
  BY <1>1 DEF vars, HandoffOk, HandingOff
<1>2. CASE Publish
  <2>1. UNCHANGED <<call, active, seg, last, announced>> /\ ToSet(published) \subseteq ToSet(published')
    <3>1. ASSUME NEW e, published' = Append(published, e) PROVE ToSet(published) \subseteq ToSet(published')
      <4>1. /\ published \in Seq(Event) /\ Len(published) \in Nat /\ DOMAIN published = 1..Len(published)
        BY DEF IInv, TypeOK
      <4>2. \A i \in DOMAIN published : i \in DOMAIN published' /\ published'[i] = published[i]
        BY <3>1, <4>1
      <4> QED
        BY <4>2 DEF ToSet
    <3> QED
      BY <1>2, <3>1 DEF Publish, Emit, Acknowledge
  <2> QED
    BY <2>1 DEF HandoffOk, HandingOff
<1>3. CASE Crash
  <2>1. \A c \in All : ~HandingOff(c)'
    BY <1>3 DEF Crash, HandingOff, InFlight, IInv, TypeOK, ToolCall
  <2> QED
    BY <1>3, <2>1 DEF HandoffOk, Crash
<1>4. CASE Client \/ Assemble \/ Finish \/ Conclude
  <2>1. Idle /\ UNCHANGED <<announced, published>> /\ (last' = last \/ last' = 1)
    BY <1>4 DEF Client, Claim, Resume, Suspend, Stop, Call, Assemble, Restore, RunStarted, Start, Finish,
                Conclude, AnswerCommitted, Decide, Complete, AnswerFails, Commit
  <2>2. call' = call \/ \E c \in All, n \in WorkActions : Dispatch(c, worker, n)
    BY <1>4 DEF Client, Claim, Resume, Suspend, Stop, Call, Assemble, Restore, RunStarted, Start, Finish,
                Conclude, AnswerCommitted, Decide, Complete, AnswerFails, Commit, All, WorkActions
  <2>3. CASE call' = call
    <3>1. CommitCall \in All /\ call'[CommitCall].pc # "proposed"
      BY <2>1, <2>3 DEF All, Idle, HandingOff
    <3> QED
      BY <2>1, <2>3, <3>1, HandoffIdle
  <2>4. ASSUME NEW c \in All, NEW n \in WorkActions, Dispatch(c, worker, n) PROVE HandoffOk'
    <3>1. call'[c].pc = "called" /\ \A d \in All : d # c => call'[d] = call[d]
      BY <2>4 DEF Dispatch, IInv, TypeOK
    <3> QED
      BY <2>1, <3>1, HandoffIdle
  <2> QED
    BY <2>2, <2>3, <2>4
<1>5. ASSUME NEW c \in All, Router(c) PROVE HandoffOk'
  <2>1. CASE Admit(c) \/ Reject(c) \/ Drop(c) \/ Throw(c) \/ Mismatch(c)
    <3>1. Idle /\ UNCHANGED <<announced, published>> /\ last' = last
      BY <2>1 DEF Admit, Reject, Drop, Throw, Mismatch, Commit
    <3>2. PICK pc \in {"executing", "failed"} : Settle(c, pc)
      BY <2>1 DEF Admit, Reject, Drop, Throw, Mismatch
    <3>3. call'[c].pc # "proposed" /\ \A d \in All : d # c => call'[d] = call[d]
      BY <3>2 DEF Settle, IInv, TypeOK, ToolCall
    <3> QED
      BY <3>1, <3>3, HandoffIdle
  <2>2. CASE Return(c)
    <3>1. Idle /\ UNCHANGED <<announced, published>> /\ last' = last /\ Chain(c)
      BY <2>2 DEF Return, Commit
    <3>2. call'[c].pc # "proposed" /\ call' = [call EXCEPT ![c] = call'[c]]
      BY <3>1, ChainEffect DEF IInv
    <3>3. \A d \in All : d # c => call'[d] = call[d]
      <4> DEFINE z == call'[c]
      <4>1. call' = [call EXCEPT ![c] = z]
        BY <3>2
      <4> HIDE DEF z
      <4> QED
        BY <4>1 DEF IInv, TypeOK
    <3> QED
      BY <3>1, <3>2, <3>3, HandoffIdle
  <2>3. CASE Propose(c) \/ RefuseHandoff(c)
    BY <2>3, ProposalHandoff
  <2>4. ASSUME NEW p \in Protocols, Handoff(c, p) PROVE HandoffOk'
    BY <2>4, AcceptedHandoff
  <2> QED
    BY <1>5, <2>1, <2>2, <2>3, <2>4 DEF Router
<1> QED
  BY <1>1, <1>2, <1>3, <1>4, <1>5 DEF Next

\* A proposal or a rejection is read after the commit it stands on, and before
\* the start of the segment it led to, though no journal holds it.
THEOREM AnnouncementsInPlace == Spec => []AnnouncedInPlace
<1>1. Init => HandoffOk
  BY DEF Init, HandoffOk, HandingOff, Segments
<1>2. Spec => []HandoffOk
  <2>1. IInv /\ HandoffOk /\ [Next]_vars => HandoffOk'
    BY HandoffNext
  <2> QED
    BY <1>1, <2>1, InvHolds, PTL DEF Spec
<1>3. IInv /\ HandoffOk => AnnouncedInPlace
  <2> SUFFICES ASSUME IInv, HandoffOk PROVE AnnouncedInPlace
    OBVIOUS
  <2>1. ASSUME NEW s \in Segments, s > 1, <<s, 0, 1>> \in ToSet(published)
        PROVE  \E e \in announced : e[1] = s - 1 /\ e[3] = "proposed"
    <3>1. PICK i \in DOMAIN published : published[i] = <<s, 0, 1>>
      BY <2>1 DEF ToSet
    <3>2. i \in DOMAIN journal /\ journal[i] = <<s, 0, 1>>
      <4>1. PICK k \in 0..Len(journal) : LogAt(k)
        BY DEF IInv, LogOk
      <4>2. /\ Len(published) <= Len(journal) /\ \A m \in 1..Len(published) : published[m] = journal[m]
        BY <4>1 DEF LogAt
      <4>3. /\ Len(journal) \in Nat /\ DOMAIN journal = 1..Len(journal)
            /\ Len(published) \in Nat /\ DOMAIN published = 1..Len(published)
        BY DEF IInv, TypeOK
      <4> QED
        BY <3>1, <4>2, <4>3
    <3>3. seg[s].status # "none"
      BY <3>2 DEF IInv, JournalExact
    <3>4. last \in 0..MaxSegments /\ s <= last
      BY <3>3 DEF IInv, TypeOK, OneOpenSegment, Segments
    <3>5. s - 1 \in Segments /\ s - 1 < last
      BY <2>1, <3>4 DEF Segments
    <3> QED
      BY <3>5 DEF HandoffOk
  <2> QED
    BY <2>1 DEF HandoffOk, AnnouncedInPlace
<1> QED
  BY <1>2, <1>3, InvHolds, PTL

\* So every event of the journal is published once, in its place, and none is
\* left behind by a worker that streams; a handoff's announcements, which are in
\* no journal, are read in their place between them.
THEOREM PublishedOnce == Spec => []Published
BY PublishedInOrder, EverythingPublished, AnnouncementsInPlace, PTL DEF Published

\* The status of an ended segment is its last, though late calls still commit
\* to it.
THEOREM EndedForGood == Spec => EndedStaysEnded
<1> DEFINE Kept == \A s \in Segments : seg[s].status \in {"handed_off", "terminal"} =>
                      seg'[s].status = seg[s].status
<1>1. IInv /\ [Next]_vars => [Kept]_vars
  <2> SUFFICES ASSUME IInv, Next PROVE Kept
    BY DEF vars, state
  <2>1. CASE seg' = seg
    BY <2>1
  <2>2. ASSUME NEW p \in Protocols, Start(p) PROVE Kept
    <3>1. /\ seg \in [Segments -> Segment] /\ last = 0 /\ seg' = [seg EXCEPT ![1] = NewSegment(p, Package(worker))]
      BY <2>2 DEF IInv, TypeOK, Start
    <3>2. \A s \in Segments : seg[s].status = "none"
      BY <3>1 DEF IInv, OneOpenSegment, Segments
    <3> QED
      BY <3>2
  <2>3. CASE Decide
    <3>1. /\ active[worker] = last /\ last \in Segments /\ seg[last].status \in {"active", "terminal"}
          /\ seg \in [Segments -> Segment]
      BY <2>3 DEF Decide, IInv, TypeOK, Control, Ready, OneOpenSegment, Segments
    <3>2. PICK d : Commit(last, [seg[last] EXCEPT !.rev = @ + 1, !.status = "terminal", !.decision = d])
      BY <2>3, <3>1 DEF Decide
    <3>3. /\ \A s \in Segments : s # last => seg'[s] = seg[s]
          /\ seg'[last].status = "terminal"
      BY <3>1, <3>2 DEF Commit, Segment
    <3> QED
      BY <3>1, <3>3
  <2>4. ASSUME NEW c \in All, Router(c) PROVE Kept
    <3> DEFINE s == call[c].at
    <3>1. ASSUME NEW y, Commit(s, y), y.status = seg[s].status PROVE Kept
      BY <3>1 DEF Commit, IInv, TypeOK
    <3>2. CASE InFlight(c)
      <4>1. /\ s \in Segments /\ seg[s] \in Segment /\ ActionOf(c) \in ActionId
            /\ active[call[c].by] \in Segments /\ call[c].name \in WorkActions
        BY <3>2, CallFacts
      <4>2. \A a \in ActionStatus : Recorded(s, ActionOf(c), a).status = seg[s].status
        BY <4>1, RecordedType
      <4>3. Succeeded(c).status = seg[s].status
        BY <4>1, SucceededType DEF IInv
      <4>4. CASE Admit(c) \/ Reject(c) \/ Throw(c) \/ Mismatch(c)
        BY <3>1, <4>2, <4>4 DEF Admit, Reject, Throw, Mismatch, ActionStatus
      <4>5. CASE Drop(c)
        BY <4>5 DEF Drop, state
      <4>6. CASE Return(c)
        BY <3>1, <4>3, <4>6 DEF Return
      <4>7. ASSUME NEW p \in Protocols, Handoff(c, p) PROVE Kept
        <5>1. HandingOff(c) /\ seg[active[call[c].by]].status = "active" /\ active[call[c].by] < MaxSegments
          BY <4>7 DEF Handoff, HandingOff
        <5>2. active[call[c].by] = last /\ last \in Segments /\ seg[last].status = "active"
          BY <5>1, HandoffFrom
        <5>3. last + 1 \in Segments /\ seg[last + 1].status = "none"
          BY <5>1, <5>2 DEF Segments, IInv, OneOpenSegment
        <5>4. \A t \in Segments : t # last /\ t # last + 1 => seg'[t] = seg[t]
          BY <4>7, <5>2 DEF Handoff, IInv, TypeOK
        <5> QED
          BY <5>2, <5>3, <5>4
      <4>8. CASE Propose(c) \/ RefuseHandoff(c)
        BY <4>8 DEF Propose, RefuseHandoff, state
      <4> QED
        BY <2>4, <4>4, <4>5, <4>6, <4>7, <4>8 DEF Router
    <3>3. CASE ~InFlight(c)
      BY <2>4, <3>3 DEF Router, Admit, Reject, Drop, Throw, Mismatch, Return, Propose,
         RefuseHandoff, Handoff, InFlight
    <3> QED
      BY <3>2, <3>3
  <2> QED
    BY <2>1, <2>2, <2>3, <2>4
       DEF Next, Publish, Emit, Acknowledge, Crash, Client, Claim, Resume, Suspend, Stop, Call, Assemble,
           Restore, RunStarted, Finish, Conclude, AnswerCommitted, Complete, AnswerFails, state
<1>2. Spec => [][Kept]_vars
  BY <1>1, InvHolds, PTL DEF Spec
<1> QED
  BY <1>2 DEF EndedStaysEnded
=============================================================================
