------------------------- MODULE TraceSectionsProofs -------------------------
(***************************************************************************)
(* What TraceSections keeps for any bounds and any number of pipelines.    *)
(*                                                                         *)
(* A coordinator reads the sections, calls the model and writes what it    *)
(* read back, extended; the tiling holds because nothing is written in     *)
(* between.  For the one coordinator at work that is plain of its own      *)
(* steps; that no other one closes the trace meanwhile without a call of   *)
(* its own needs to know who is told of the end of the run.                *)
(***************************************************************************)
EXTENDS TraceSections, FiniteSetTheorems, WellFoundedInduction, TLAPS

LEMMA Limits ==
  /\ Pipelines \in Nat /\ Pipelines > 0 /\ CheckSteps \in Nat /\ CheckSteps > 0
  /\ ChunkSteps \in Nat /\ ChunkSteps > 0
BY LimitsOk

\* A set of numbers has a least member.
LEMMA Least ==
  ASSUME NEW T, T \subseteq Nat, T # {}
  PROVE  \E x \in T : \A y \in T : x <= y
<1> DEFINE R == OpToRel(<, Nat)
<1>1. IsWellFoundedOn(R, Nat)
  BY NatLessThanWellFounded
<1>2. \A x, y \in Nat : x < y => <<x, y>> \in R
  BY DEF OpToRel
<1> HIDE DEF R
<1>3. PICK x \in T : \A y \in T : ~ (<<y, x>> \in R)
  BY <1>1, WFMin
<1>4. \A y \in T : ~ (y < x)
  BY <1>2, <1>3
<1>5. \A y \in T : x <= y
  BY <1>4
<1> QED
  BY <1>3, <1>5

\* A bounded one has a greatest.
LEMMA Greatest ==
  ASSUME NEW n \in Nat, NEW T, T \subseteq 0 .. n, T # {}
  PROVE  \E x \in T : \A y \in T : y <= x
<1> DEFINE U == {n - x : x \in T}
<1>1. U \subseteq Nat /\ U # {}
  <2>1. \A x \in T : x \in Nat /\ x <= n
    OBVIOUS
  <2>2. \A x \in T : n - x \in Nat
    BY <2>1
  <2> QED BY <2>2
<1>2. PICK u \in U : \A v \in U : u <= v
  <2> HIDE DEF U
  <2> QED BY <1>1, Least
<1>3. PICK x \in T : u = n - x
  OBVIOUS
<1>4. \A y \in T : n - x <= n - y
  BY <1>2, <1>3
<1>5. \A y \in T : y <= x
  BY <1>4
<1> QED
  BY <1>5

-----------------------------------------------------------------------------
(* Context steps and chunks. *)

LEMMA StepsFinite ==
  ASSUME NEW from \in Nat, NEW to \in Nat, NEW l
  PROVE  /\ IsFiniteSet(ContextSteps(from, to, l)) /\ Cardinality(ContextSteps(from, to, l)) \in Nat
         /\ ContextSteps(from, to, l) \subseteq from .. to
<1>1. IsFiniteSet(from .. to)
  BY FS_Interval
<1>2. ContextSteps(from, to, l) \subseteq from .. to
  BY DEF ContextSteps
<1> QED
  BY <1>1, <1>2, FS_Subset, FS_CardinalityType

Below(T, i) == {j \in T : j < i}

\* A set of more than m numbers has one with exactly m before it.
LEMMA Nth ==
  ASSUME NEW m \in Nat, NEW n \in Nat, NEW T, T \subseteq 0 .. n, IsFiniteSet(T), Cardinality(T) > m
  PROVE  \E i \in T : Cardinality(Below(T, i)) = m
<1> DEFINE Before(k) == Below(T, k)
           K == {k \in 0 .. n + 1 : Cardinality(Before(k)) > m}
<1>1. \A j \in T : j \in Nat /\ j <= n
  OBVIOUS
<1>2. \A k : Before(k) \subseteq T /\ \A j \in T : j \in Before(k) <=> j < k
  BY DEF Below
<1>3. K \subseteq 0 .. n + 1 /\ \A k \in 0 .. n + 1 : k \in K <=> Cardinality(Before(k)) > m
  OBVIOUS
<1> SUFFICES \E i \in T : Cardinality(Before(i)) = m
  OBVIOUS
<1> HIDE DEF Before, K
<1>4. \A k : IsFiniteSet(Before(k)) /\ Cardinality(Before(k)) \in Nat
  BY <1>2, FS_Subset, FS_CardinalityType
<1>5. n + 1 \in K
  <2>1. \A j \in T : j < n + 1
    BY <1>1
  <2>2. Before(n + 1) = T
    BY <1>2, <2>1
  <2> QED BY <2>2, <1>3
<1>6. PICK k \in K : \A o \in K : k <= o
  <2>1. K \subseteq Nat /\ K # {}
    BY <1>3, <1>5
  <2> QED BY <2>1, Least
<1>7. k # 0
  <2>1. \A j \in T : ~ (j < 0)
    BY <1>1
  <2>2. Before(0) = {}
    BY <1>2, <2>1
  <2>3. Cardinality(Before(0)) = 0
    BY <2>2, FS_EmptySet
  <2> QED BY <2>3, <1>3
<1>8. k \in 1 .. n + 1 /\ k - 1 \in 0 .. n + 1 /\ k - 1 \notin K
  BY <1>3, <1>6, <1>7
<1> DEFINE i == k - 1
<1>9. i \in 0 .. n /\ Cardinality(Before(i)) <= m /\ Cardinality(Before(i + 1)) > m
  BY <1>3, <1>4, <1>8
<1> HIDE DEF i
<1>10. i \in T
  <2> SUFFICES ASSUME i \notin T PROVE FALSE
    OBVIOUS
  <2>1. \A j \in T : j < i + 1 <=> j < i
    BY <1>1, <1>9
  <2>2. Before(i) = Before(i + 1)
    BY <1>2, <2>1
  <2> QED BY <2>2, <1>4, <1>9
<1>11. Cardinality(Before(i)) = Cardinality(Before(i + 1)) - 1
  <2>1. i \in Before(i + 1) /\ i \notin Before(i)
    BY <1>2, <1>9, <1>10
  <2>2. \A j \in T : j < i <=> j < i + 1 /\ j # i
    BY <1>1, <1>9
  <2>3. Before(i) = Before(i + 1) \ {i}
    BY <1>2, <2>2
  <2> QED BY <1>4, <2>1, <2>3, FS_RemoveElement
<1> QED
  BY <1>4, <1>9, <1>10, <1>11

\* A chunk is not empty and ends in what is due; if there are steps in the
\* range, there are some in the chunk.
LEMMA Chunk ==
  ASSUME NEW from \in Nat \ {0}, NEW to \in Nat, from <= to, NEW l
  PROVE  LET steps == ContextSteps(from, to, l)
             end   == ChunkEnd(steps, to)
         IN  /\ end \in from .. to
             /\ steps # {} => ContextSteps(from, end, l) # {}
<1> DEFINE steps == ContextSteps(from, to, l)
           end == ChunkEnd(steps, to)
<1>1. IsFiniteSet(steps) /\ Cardinality(steps) \in Nat /\ steps \subseteq from .. to
  BY StepsFinite
<1>2. CASE Cardinality(steps) <= ChunkSteps
  <2>1. end = to
    BY <1>2 DEF ChunkEnd
  <2> QED BY <2>1
<1>3. CASE ~ (Cardinality(steps) <= ChunkSteps)
  <2> DEFINE i == CHOOSE i \in steps : Cardinality({j \in steps : j < i}) = ChunkSteps
  <2>1. \E k \in steps : Cardinality({j \in steps : j < k}) = ChunkSteps
    <3> HIDE DEF steps
    <3>1. steps \subseteq 0 .. to /\ Cardinality(steps) > ChunkSteps /\ ChunkSteps \in Nat
      BY <1>1, <1>3, Limits
    <3>2. IsFiniteSet(steps)
      BY <1>1
    <3>3. \A m, n \in Nat : steps \subseteq 0 .. n /\ Cardinality(steps) > m =>
            \E k \in steps : Cardinality(Below(steps, k)) = m
      BY <3>2, Nth
    <3> QED BY <3>1, <3>3 DEF Below
  <2>2. i \in steps /\ Cardinality({j \in steps : j < i}) = ChunkSteps
    <3> HIDE DEF steps
    <3> QED BY <2>1
  <2>3. end = i - 1
    <3> HIDE DEF steps
    <3> QED BY <1>3 DEF ChunkEnd
  <2>4. PICK j \in steps : j < i
    <3> SUFFICES ASSUME \A j \in steps : ~ (j < i) PROVE FALSE
      OBVIOUS
    <3>1. {j \in steps : j < i} = {}
      OBVIOUS
    <3> HIDE DEF steps, i
    <3> QED BY <2>2, <3>1, FS_EmptySet, Limits
  <2>5. j < i
    BY <2>4
  <2>6. j \in from .. end /\ end \in from .. to
    <3> HIDE DEF steps, i, end
    <3> QED BY <1>1, <2>2, <2>3, <2>5
  <2>7. j \in ContextSteps(from, end, l)
    BY <2>5, <2>6 DEF ContextSteps
  <2> QED BY <2>6, <2>7
<1> QED
  BY <1>2, <1>3

-----------------------------------------------------------------------------
(* A set of sections that tiles. *)

\* SectionsTile, of one set; its sections begin with the first event.
Tiles(ss) ==
  /\ \A x \in ss : 1 <= x.from /\ x.from <= x.to /\ x.to <= Latest(ss).to
  /\ \A i \in 1 .. Latest(ss).to : \E x \in ss : \A y \in ss : i \in y.from .. y.to <=> y = x
  /\ \A x \in ss : x.status = "completed" \/ x = Latest(ss)

Numbered(ss) == \A x \in ss : x.from \in Nat /\ x.to \in Nat

LEMMA LatestEmpty == Latest({}) = NoSection /\ Latest({}).to = 0
BY DEF Latest, NoSection, Section

LEMMA LatestIn ==
  ASSUME NEW n \in Nat, NEW ss, ss # {}, \A x \in ss : x.from \in Nat /\ x.from <= n
  PROVE  Latest(ss) \in ss /\ \A y \in ss : y.from <= Latest(ss).from
<1> DEFINE T == {x.from : x \in ss}
<1>1. T # {} /\ (\A k \in T : k \in Nat /\ k <= n) /\ \A x \in ss : x.from \in T
  OBVIOUS
<1>2. \A k \in T : \E x \in ss : x.from = k
  OBVIOUS
<1> HIDE DEF T
<1>3. T \subseteq 0 .. n
  BY <1>1
<1>4. PICK k \in T : \A o \in T : o <= k
  BY <1>1, <1>3, Greatest
<1>5. \E x \in ss : \A y \in ss : y.from <= x.from
  BY <1>1, <1>2, <1>4
<1> QED
  BY <1>5 DEF Latest

LEMMA LatestIs ==
  ASSUME NEW ss, Numbered(ss), NEW l \in ss, \A y \in ss : y = l \/ y.from < l.from
  PROVE  Latest(ss) = l
<1>1. \A x \in ss : (\A y \in ss : y.from <= x.from) <=> x = l
  BY DEF Numbered
<1> QED
  BY <1>1 DEF Latest

\* The latest section lies behind all others.
LEMMA LatestBehind ==
  ASSUME NEW n \in Nat, NEW ss, ss # {}, Numbered(ss), \A x \in ss : x.from <= n, Tiles(ss)
  PROVE  /\ Latest(ss) \in ss
         /\ \A y \in ss : y = Latest(ss) \/ y.to < Latest(ss).from
<1> DEFINE l == Latest(ss)
<1>1. l \in ss /\ \A y \in ss : y.from <= l.from
  BY LatestIn DEF Numbered
<1> HIDE DEF l
<1>2. ASSUME NEW y \in ss, y # l PROVE y.to < l.from
  <2>1. /\ l.from \in Nat /\ l.to \in Nat /\ y.from \in Nat /\ y.to \in Nat
        /\ 1 <= l.from /\ l.from <= l.to
    BY <1>1 DEF Tiles, Numbered
  <2>2. PICK x \in ss : \A z \in ss : l.from \in z.from .. z.to <=> z = x
    <3>1. l.from \in 1 .. l.to
      BY <2>1
    <3> QED BY <3>1 DEF Tiles, l
  <2>3. l = x
    BY <1>1, <2>1, <2>2
  <2>4. l.from \notin y.from .. y.to
    BY <1>2, <2>2, <2>3
  <2> QED BY <1>1, <2>1, <2>4
<1> QED
  BY <1>1, <1>2 DEF l

\* Upsert of the latest section, reaching further: the tiling goes on to its end.
LEMMA TilesExtended ==
  ASSUME NEW n \in Nat, NEW ss, ss # {}, Numbered(ss), \A x \in ss : x.from <= n, Tiles(ss),
         NEW s, s.from = Latest(ss).from, s.to \in Nat, Latest(ss).to <= s.to
  PROVE  /\ Latest(Upsert(s, ss)) = s /\ Tiles(Upsert(s, ss)) /\ Numbered(Upsert(s, ss))
         /\ \A x \in Upsert(s, ss) : x.status = "completed" \/ x = s
<1> DEFINE l == Latest(ss)
           us == Upsert(s, ss)
<1>1. l \in ss /\ \A y \in ss : y = l \/ y.to < l.from
  BY LatestBehind
<1>2. \A x \in ss : 1 <= x.from /\ x.from <= x.to /\ x.to <= l.to /\ x.from \in Nat /\ x.to \in Nat
  BY DEF Tiles, Numbered
<1>3. \A i \in 1 .. l.to : \E x \in ss : \A y \in ss : i \in y.from .. y.to <=> y = x
  BY DEF Tiles
<1>4. \A x \in ss : x.status = "completed" \/ x = l
  BY DEF Tiles
<1>5. s.from = l.from /\ l.to <= s.to
  OBVIOUS
<1> HIDE DEF l
<1>6. \A x : x \in us <=> x = s \/ (x \in ss /\ x # l)
  <2>1. \A x \in ss : x.from = s.from <=> x = l
    BY <1>1, <1>2, <1>5
  <2> QED BY <2>1 DEF Upsert
<1> HIDE DEF us
<1>7. Numbered(us)
  BY <1>1, <1>2, <1>5, <1>6 DEF Numbered
<1>8. Latest(us) = s
  <2>1. \A y \in us : y = s \/ y.from < s.from
    BY <1>1, <1>2, <1>5, <1>6
  <2> QED BY <1>6, <1>7, <2>1, LatestIs
<1>9. \A x \in us : 1 <= x.from /\ x.from <= x.to /\ x.to <= s.to
  BY <1>1, <1>2, <1>5, <1>6
<1>10. ASSUME NEW i \in 1 .. s.to
       PROVE  \E x \in us : \A y \in us : i \in y.from .. y.to <=> y = x
  <2>1. CASE i < l.from
    <3>1. i \in 1 .. l.to
      BY <1>1, <1>2, <2>1
    <3>2. PICK x \in ss : \A y \in ss : i \in y.from .. y.to <=> y = x
      BY <1>3, <3>1
    <3>3. x # l /\ i \notin s.from .. s.to
      BY <1>1, <1>2, <1>5, <2>1, <3>2
    <3>4. x # s
      BY <3>2, <3>3
    <3> QED BY <1>6, <3>2, <3>3, <3>4
  <2>2. CASE ~ (i < l.from)
    <3>1. i \in s.from .. s.to
      BY <1>1, <1>2, <1>5, <2>2
    <3>2. \A y \in ss : y # l => i \notin y.from .. y.to
      BY <1>1, <1>2, <2>2
    <3> QED BY <1>6, <3>1, <3>2
  <2> QED BY <2>1, <2>2
<1>11. \A x \in us : x.status = "completed" \/ x = s
  BY <1>4, <1>6
<1> QED
  BY <1>7, <1>8, <1>9, <1>10, <1>11 DEF Tiles, us

\* Upsert of a section that begins after the last one, when all are closed.
LEMMA TilesAppended ==
  ASSUME NEW ss, Numbered(ss), Tiles(ss), \A x \in ss : x.status = "completed",
         NEW s, NEW n \in Nat, Latest(ss).to = n, s.from = n + 1, s.to \in Nat, s.from <= s.to
  PROVE  /\ Latest(Upsert(s, ss)) = s /\ Tiles(Upsert(s, ss))
<1> DEFINE us == Upsert(s, ss)
<1>1. \A x \in ss : 1 <= x.from /\ x.from <= x.to /\ x.to <= n /\ x.from \in Nat /\ x.to \in Nat
  BY DEF Tiles, Numbered
<1>2. \A i \in 1 .. n : \E x \in ss : \A y \in ss : i \in y.from .. y.to <=> y = x
  BY DEF Tiles
<1>3. \A x : x \in us <=> x = s \/ x \in ss
  <2>1. \A x \in ss : x.from # s.from
    BY <1>1
  <2> QED BY <2>1 DEF Upsert
<1> HIDE DEF us
<1>4. Numbered(us)
  BY <1>1, <1>3 DEF Numbered
<1>5. Latest(us) = s
  <2>1. \A y \in us : y = s \/ y.from < s.from
    BY <1>1, <1>3
  <2> QED BY <1>3, <1>4, <2>1, LatestIs
<1>6. \A x \in us : 1 <= x.from /\ x.from <= x.to /\ x.to <= s.to
  BY <1>1, <1>3
<1>7. ASSUME NEW i \in 1 .. s.to
      PROVE  \E x \in us : \A y \in us : i \in y.from .. y.to <=> y = x
  <2>1. CASE i <= n
    <3>1. PICK x \in ss : \A y \in ss : i \in y.from .. y.to <=> y = x
      BY <1>2, <2>1
    <3>2. i \notin s.from .. s.to
      BY <2>1
    <3> QED BY <1>3, <3>1, <3>2
  <2>2. CASE ~ (i <= n)
    <3>1. i \in s.from .. s.to
      BY <2>2
    <3>2. \A y \in ss : i \notin y.from .. y.to
      BY <1>1, <2>2
    <3> QED BY <1>3, <3>1, <3>2
  <2> QED BY <2>1, <2>2
<1>8. \A x \in us : x.status = "completed" \/ x = s
  BY <1>3
<1> QED
  BY <1>5, <1>6, <1>7, <1>8 DEF Tiles, us

-----------------------------------------------------------------------------
(* The inductive invariant. *)

Tile == ~overlapped => Tiles(sections)

\* Until two coordinators have been at work at once, the only one at work goes on
\* where the sections end, from the latest section as it is, over some context
\* steps unless there is no section yet.
JobOk ==
  ~overlapped =>
    /\ \A p, q \in Ps : Busy(p) /\ Busy(q) => p = q
    /\ \A p \in Ps : Busy(p) =>
         /\ job[p].from = NextFrom(sections) /\ job[p].latest = Latest(sections)
         /\ job[p].from <= job[p].to
         /\ ContextSteps(job[p].from, job[p].to, log) # {} \/ sections = {}

\* Only the current coordinator is forced to go to the end, by a terminal event
\* that no other one has seen.
DueOk ==
  /\ Terminals # {} => stage \in {"over", "lost"}
  /\ \A p \in Ps : due[p].force => p = cur /\ \E t \in Terminals : t <= due[p].to
  /\ \A p \in Ps : p # cur => \A t \in Terminals : due[p].to < t /\ job[p].to < t

TInv == TypeOK /\ Tile /\ JobOk /\ DueOk

Dues == [to : 0 .. Len(log), force : BOOLEAN]

LEMMA NoSectionApart ==
  /\ NoSection = [from |-> 0, to |-> 0, phase |-> "none", status |-> "none"]
  /\ NoJob = [from |-> 0, to |-> 0, status |-> "none", latest |-> NoSection]
  /\ NoSection \notin Sections /\ NoJob \notin Jobs
BY DEF NoSection, NoJob, Section, Sections, Jobs, Events

\* The rows and the next range, in numbers.
LEMMA RowsTyped ==
  ASSUME TypeOK
  PROVE  /\ Len(log) \in Nat /\ DOMAIN log = 1 .. Len(log)
         /\ Numbered(sections) /\ \A x \in sections : 1 <= x.from /\ x.from <= Len(log) /\ x.to <= Len(log)
         /\ Latest(sections) \in Sections \cup {NoSection}
         /\ Latest(sections).to \in 0 .. Len(log) /\ Latest(sections).from \in 0 .. Len(log)
         /\ NextFrom(sections) = Latest(sections).to + 1
         /\ (Latest(sections) = NoSection <=> sections = {})
         /\ sections # {} => Latest(sections) \in sections
<1>1. Len(log) \in Nat /\ DOMAIN log = 1 .. Len(log)
  BY DEF TypeOK
<1>2. \A x \in sections : x \in Sections /\ x.from \in 1 .. Len(log) /\ x.to \in 1 .. Len(log)
  BY DEF TypeOK, Sections, Events
<1>3. Numbered(sections) /\ \A x \in sections : 1 <= x.from /\ x.from <= Len(log) /\ x.to <= Len(log)
  BY <1>1, <1>2 DEF Numbered
<1>4. CASE sections = {}
  <2>1. Latest(sections) = NoSection /\ NoSection.to = 0 /\ NoSection.from = 0
    BY <1>4, LatestEmpty, NoSectionApart
  <2> QED BY <1>1, <1>3, <1>4, <2>1 DEF NextFrom
<1>5. CASE sections # {}
  <2>1. Latest(sections) \in sections
    BY <1>1, <1>3, <1>5, LatestIn DEF Numbered
  <2>2. Latest(sections) # NoSection
    BY <1>2, <2>1, NoSectionApart
  <2> QED BY <1>1, <1>2, <1>3, <1>5, <2>1, <2>2 DEF NextFrom
<1> QED
  BY <1>4, <1>5

LEMMA BusyTyped ==
  ASSUME TypeOK, NEW p \in Ps
  PROVE  /\ Busy(p) => job[p] \in Jobs
         /\ ~Busy(p) => job[p].to = 0
         /\ job[p].to \in 0 .. Len(log)
         /\ due[p] \in Dues
<1>1. Len(log) \in Nat
  BY DEF TypeOK
<1>2. Busy(p) => job[p] \in Jobs
  BY DEF TypeOK, Busy
<1>3. ~Busy(p) => job[p].to = 0
  BY NoSectionApart DEF Busy
<1>4. due[p] \in Dues
  BY DEF TypeOK, Dues
<1> QED
  BY <1>1, <1>2, <1>3, <1>4 DEF Jobs, Events

-----------------------------------------------------------------------------
(* The log grows. *)

LEMMA Logged ==
  ASSUME TypeOK, NEW kind \in Kinds, log' = Append(log, kind)
  PROVE  /\ log' \in Seq(Kinds) /\ Len(log') = Len(log) + 1 /\ Len(log) \in Nat
         /\ log'[Len(log')] = kind
         /\ \A i \in 1 .. Len(log) : log'[i] = log[i]
         /\ Terminals' = IF kind = "terminal" THEN Terminals \cup {Len(log) + 1} ELSE Terminals
         /\ \A t \in Terminals : t \in 1 .. Len(log)
<1>1. log \in Seq(Kinds) /\ Len(log) \in Nat /\ DOMAIN log = 1 .. Len(log)
  BY DEF TypeOK
<1>2. log' \in Seq(Kinds) /\ Len(log') = Len(log) + 1
  BY <1>1
<1>3. log'[Len(log) + 1] = kind /\ \A i \in 1 .. Len(log) : log'[i] = log[i]
  BY <1>1
<1>4. DOMAIN log' = 1 .. Len(log) + 1
  BY <1>1, <1>2
<1>5. Terminals = {i \in 1 .. Len(log) : log[i] = "terminal"}
  BY <1>1 DEF Terminals
<1>6. Terminals' = {i \in 1 .. Len(log) + 1 : log'[i] = "terminal"}
  BY <1>4 DEF Terminals
<1>7. \A i : i \in 1 .. Len(log) + 1 <=> i \in 1 .. Len(log) \/ i = Len(log) + 1
  BY <1>1
<1>8. CASE kind = "terminal"
  <2>1. \A i : i \in Terminals' <=> i \in Terminals \/ i = Len(log) + 1
    BY <1>3, <1>5, <1>6, <1>7, <1>8
  <2> QED BY <1>1, <1>2, <1>3, <1>5, <1>8, <2>1
<1>9. CASE kind # "terminal"
  <2>1. \A i : i \in Terminals' <=> i \in Terminals
    BY <1>3, <1>5, <1>6, <1>7, <1>9
  <2> QED BY <1>1, <1>2, <1>3, <1>5, <1>9, <2>1
<1> QED
  BY <1>8, <1>9

LEMMA AskedTyped ==
  ASSUME NEW n \in Nat, NEW d \in [to : 0 .. n, force : BOOLEAN], NEW to \in 1 .. n, NEW f \in BOOLEAN
  PROVE  /\ Asked(d, to, f) \in [to : 0 .. n, force : BOOLEAN]
         /\ to <= Asked(d, to, f).to /\ Asked(d, to, f).to \in 0 .. n
         /\ Asked(d, to, f).force => d.force \/ f
BY DEF Asked

\* What the coordinator makes of an event: only a terminal one forces it.
LEMMA ScheduledTyped ==
  ASSUME TypeOK, NEW kind \in Kinds, log' = Append(log, kind), NEW d \in Dues
  PROVE  /\ Scheduled(d, log') \in Dues'
         /\ d.to <= Len(log)
         /\ kind = "terminal" => Scheduled(d, log').to = Len(log')
         /\ kind = "compiled" => (Scheduled(d, log').force => d.force)
         /\ kind = "other" => Scheduled(d, log') = d
<1>1. /\ Len(log') = Len(log) + 1 /\ Len(log) \in Nat /\ log'[Len(log')] = kind
  BY Logged
<1>2. d \in [to : 0 .. Len(log'), force : BOOLEAN] /\ d.to <= Len(log)
  BY <1>1 DEF Dues
<1>3. \A f \in BOOLEAN : /\ Asked(d, Len(log'), f) \in [to : 0 .. Len(log'), force : BOOLEAN]
                         /\ Asked(d, Len(log'), f).to = Len(log')
                         /\ Asked(d, Len(log'), f).force => d.force \/ f
  <2>1. Len(log') \in Nat /\ Len(log') \in 1 .. Len(log')
    BY <1>1
  <2>2. ASSUME NEW f \in BOOLEAN
        PROVE  /\ Asked(d, Len(log'), f) \in [to : 0 .. Len(log'), force : BOOLEAN]
               /\ Len(log') <= Asked(d, Len(log'), f).to /\ Asked(d, Len(log'), f).to \in 0 .. Len(log')
               /\ Asked(d, Len(log'), f).force => d.force \/ f
    BY <1>2, <2>1, AskedTyped
  <2>3. \A f \in BOOLEAN : Asked(d, Len(log'), f).to = Len(log')
    BY <2>1, <2>2
  <2> QED BY <2>2, <2>3
<1>4. CASE kind = "terminal"
  <2>1. Scheduled(d, log') = Asked(d, Len(log'), TRUE)
    BY <1>1, <1>4 DEF Scheduled
  <2>2. Scheduled(d, log') \in Dues' /\ Scheduled(d, log').to = Len(log')
    BY <1>3, <2>1 DEF Dues
  <2> QED BY <1>2, <1>4, <2>2
<1>5. CASE kind = "compiled"
  <2>1. Scheduled(d, log') \in {Asked(d, Len(log'), FALSE), d}
    BY <1>1, <1>5 DEF Scheduled
  <2> QED BY <1>2, <1>3, <1>5, <2>1 DEF Dues
<1>6. CASE kind = "other"
  <2>1. Scheduled(d, log') = d
    BY <1>1, <1>6 DEF Scheduled
  <2> QED BY <1>2, <1>6, <2>1 DEF Dues
<1> QED
  BY <1>4, <1>5, <1>6 DEF Kinds

\* What is known of the rows and the ranges stays so.
LEMMA WriteKeeps ==
  ASSUME TInv, NEW kind \in Kinds, Write(kind), stage' \in {"running", "suspended", "over", "lost"}
  PROVE  TypeOK' /\ Tile' /\ JobOk'
<1> USE DEF TInv
<1>1. /\ log' \in Seq(Kinds) /\ Len(log') = Len(log) + 1 /\ Len(log) \in Nat
      /\ \A i \in 1 .. Len(log) : log'[i] = log[i]
  BY Logged DEF Write
<1>2. UNCHANGED <<cur, sections, job, overlapped>>
  BY DEF Write, trace
<1>3. Sections \subseteq Sections' /\ Jobs \subseteq Jobs' /\ Dues \subseteq Dues'
  <2>1. 1 .. Len(log) \subseteq 1 .. Len(log') /\ 0 .. Len(log) \subseteq 0 .. Len(log')
    BY <1>1
  <2> QED BY <2>1 DEF Sections, Jobs, Dues, Events
<1>4. due' \in [Ps -> Dues']
  <2>1. due \in [Ps -> Dues] /\ cur \in Ps
    BY DEF TypeOK, Dues
  <2>2. Scheduled(due[cur], log') \in Dues'
    BY <2>1, ScheduledTyped DEF Write
  <2>3. due' = [due EXCEPT ![cur] = Scheduled(due[cur], log')]
    BY DEF Write
  <2> QED BY <1>3, <2>1, <2>2, <2>3
<1>5. TypeOK'
  <2>1. sections' \subseteq Sections' /\ job' \in [Ps -> Jobs' \cup {NoJob}]
    BY <1>2, <1>3 DEF TypeOK
  <2> QED BY <1>1, <1>2, <1>4, <2>1 DEF TypeOK, Dues
<1>6. Tile'
  BY <1>2 DEF Tile
<1>7. JobOk'
  <2>1. \A p \in Ps : Busy(p)' <=> Busy(p)
    BY <1>2 DEF Busy
  <2>2. ASSUME NEW p \in Ps, Busy(p)
        PROVE  ContextSteps(job[p].from, job[p].to, log') = ContextSteps(job[p].from, job[p].to, log)
    <3>1. job[p].from \in 1 .. Len(log) /\ job[p].to \in 1 .. Len(log)
      BY <2>2, BusyTyped DEF Jobs, Events
    <3>2. \A i \in job[p].from .. job[p].to : log'[i] = log[i]
      BY <1>1, <3>1
    <3> QED BY <3>2 DEF ContextSteps
  <2> QED BY <1>2, <2>1, <2>2 DEF JobOk
<1> QED
  BY <1>5, <1>6, <1>7

LEMMA RecordKeeps ==
  ASSUME TInv, NEW kind \in {"compiled", "other"}, Write(kind), UNCHANGED stage,
         stage = "running" \/ kind = "other"
  PROVE  TInv'
<1> USE DEF TInv
<1>1. kind \in Kinds /\ kind # "terminal"
  BY DEF Kinds
<1>2. TypeOK' /\ Tile' /\ JobOk'
  BY <1>1, WriteKeeps DEF TypeOK
<1>3. Terminals' = Terminals
  BY <1>1, Logged DEF Write
<1>4. UNCHANGED <<cur, job>> /\ cur \in Ps /\ due \in [Ps -> Dues]
  BY DEF Write, trace, TypeOK, Dues
<1>5. /\ kind = "compiled" => (due'[cur].force => due[cur].force)
      /\ kind = "other" => due'[cur] = due[cur]
      /\ \A p \in Ps : p # cur => due'[p] = due[p]
  BY <1>1, <1>4, ScheduledTyped DEF Write
<1>6. DueOk'
  <2>1. CASE kind = "compiled"
    <3>1. Terminals = {} /\ kind # "other"
      BY <2>1 DEF DueOk
    <3>2. \A p \in Ps : ~due'[p].force
      BY <1>5, <2>1, <3>1 DEF DueOk
    <3> QED BY <1>3, <1>4, <3>1, <3>2 DEF DueOk
  <2>2. CASE kind = "other"
    <3>1. \A p \in Ps : due'[p] = due[p]
      BY <1>5, <2>2
    <3> QED BY <1>3, <1>4, <3>1 DEF DueOk
  <2> QED BY <2>1, <2>2
<1> QED
  BY <1>2, <1>6

LEMMA EndKeeps ==
  ASSUME TInv, Write("terminal"), stage \in {"running", "over"}, stage' = "over"
  PROVE  TInv'
<1> USE DEF TInv
<1>1. "terminal" \in Kinds
  BY DEF Kinds
<1>2. TypeOK' /\ Tile' /\ JobOk'
  BY <1>1, WriteKeeps
<1>3. /\ Terminals' = Terminals \cup {Len(log) + 1} /\ Len(log') = Len(log) + 1 /\ Len(log) \in Nat
  BY <1>1, Logged DEF Write
<1>4. UNCHANGED <<cur, job>> /\ cur \in Ps /\ due \in [Ps -> Dues]
  BY DEF Write, trace, TypeOK, Dues
<1>5. due'[cur].to = Len(log) + 1 /\ \A p \in Ps : p # cur => due'[p] = due[p]
  <2>1. Scheduled(due[cur], log').to = Len(log')
    BY <1>1, <1>4, ScheduledTyped DEF Write
  <2> QED BY <1>3, <1>4, <2>1 DEF Write
<1>6. \A p \in Ps : due[p].to < Len(log) + 1 /\ job[p].to < Len(log) + 1
  BY <1>3, BusyTyped DEF Dues
<1>7. DueOk'
  <2>1. \A p \in Ps : due'[p].force => p = cur' /\ \E t \in Terminals' : t <= due'[p].to
    BY <1>3, <1>4, <1>5 DEF DueOk
  <2>2. \A p \in Ps : p # cur' => \A t \in Terminals' : due'[p].to < t /\ job'[p].to < t
    BY <1>3, <1>4, <1>5, <1>6 DEF DueOk
  <2> QED BY <2>1, <2>2 DEF DueOk
<1> QED
  BY <1>2, <1>7

-----------------------------------------------------------------------------
(* The coordinator. *)

\* Nothing is asked of a coordinator that was not, and none goes further.
LEMMA Relieved ==
  ASSUME TInv, UNCHANGED <<log, cur>>, Terminals # {} => stage' \in {"over", "lost"},
         \A q \in Ps : due'[q] \in {due[q], NoDue},
         \A q \in Ps : job'[q].to \in {job[q].to, 0} \/ job'[q].to \in 0 .. due[q].to
  PROVE  DueOk'
<1>1. Terminals' = Terminals /\ \A t \in Terminals : t \in Nat /\ 0 < t
  BY DEF Terminals, TInv, TypeOK
<1>2. NoDue.to = 0 /\ NoDue.force = FALSE
  BY DEF NoDue
<1>3. \A q \in Ps : due'[q].force => q = cur' /\ \E t \in Terminals' : t <= due'[q].to
  BY <1>1, <1>2 DEF TInv, DueOk
<1>4. ASSUME NEW q \in Ps, q # cur', NEW t \in Terminals' PROVE due'[q].to < t /\ job'[q].to < t
  <2>1. due[q].to < t /\ job[q].to < t /\ due[q].to \in Nat /\ job[q].to \in Nat /\ t \in Nat /\ 0 < t
    <3>1. due[q].to \in Nat /\ job[q].to \in Nat
      BY BusyTyped DEF TInv, Dues, TypeOK
    <3> QED BY <1>1, <1>4, <3>1 DEF TInv, DueOk
  <2>2. due'[q].to \in {due[q].to, 0}
    BY <1>2
  <2> QED BY <2>1, <2>2
<1> QED
  BY <1>1, <1>3, <1>4 DEF DueOk

\* What a chunk leaves over is what was due.
LEMMA Consumed ==
  ASSUME TypeOK, NEW p \in Ps, NEW k, due' = Consume(p, due[p], k)
  PROVE  due' \in [Ps -> Dues] /\ \A q \in Ps : due'[q] \in {due[q], NoDue}
<1>1. due \in [Ps -> Dues] /\ Len(log) \in Nat
  BY DEF TypeOK, Dues
<1>2. NoDue \in Dues /\ NoDue.to = 0
  BY <1>1 DEF NoDue, Dues
<1>3. Asked(NoDue, due[p].to, due[p].force) = due[p]
  BY <1>1, <1>2 DEF Asked, Dues
<1>4. PICK x \in {due[p], NoDue} : due' = [due EXCEPT ![p] = x]
  BY <1>3 DEF Consume
<1> QED
  BY <1>1, <1>2, <1>4

\* A row written replaces rows of its kind.
LEMMA UpsertTyped ==
  ASSUME NEW ss, ss \subseteq Sections, NEW s \in Sections
  PROVE  Upsert(s, ss) \subseteq Sections
BY DEF Upsert

\* Nothing is to be summarised.
LEMMA SkipKeeps ==
  ASSUME TInv, NEW p \in Ps, NEW k, due' = Consume(p, due[p], k), UNCHANGED <<run, trace>>
  PROVE  TInv'
<1> USE DEF TInv
<1>1. UNCHANGED <<log, cur, stage, sections, job, overlapped>>
  BY DEF run, trace
<1>2. due' \in [Ps -> Dues] /\ \A q \in Ps : due'[q] \in {due[q], NoDue}
  BY Consumed
<1>3. TypeOK'
  BY <1>1, <1>2 DEF TypeOK, Dues, Sections, Jobs, Events
<1>4. Tile' /\ JobOk'
  BY <1>1 DEF Tile, JobOk, Busy
<1>5. DueOk'
  <2>1. \A q \in Ps : job'[q].to \in {job[q].to, 0}
    BY <1>1
  <2>2. Terminals # {} => stage' \in {"over", "lost"}
    BY <1>1 DEF DueOk
  <2> QED BY <1>1, <1>2, <2>1, <2>2, Relieved
<1> QED
  BY <1>3, <1>4, <1>5

\* The end of the run adds events but no context step: the last section takes
\* them.  No other coordinator is at work then, for it would be over context
\* steps that are still to be summarised here.
LEMMA CloseKeeps ==
  ASSUME TInv, NEW p \in Ps, ~Busy(p), due[p].force, due[p].to >= NextFrom(sections),
         ContextSteps(NextFrom(sections), due[p].to, log) = {}, sections # {},
         sections' = Upsert([Latest(sections) EXCEPT !.to = due[p].to, !.status = "completed"], sections),
         due' = Consume(p, due[p], due[p].to), UNCHANGED <<run, job, overlapped>>
  PROVE  TInv'
<1> USE DEF TInv
<1> DEFINE l == Latest(sections)
           s == [l EXCEPT !.to = due[p].to, !.status = "completed"]
<1>1. UNCHANGED <<log, cur, stage, job, overlapped>>
  BY DEF run
<1>2. due' \in [Ps -> Dues] /\ \A q \in Ps : due'[q] \in {due[q], NoDue}
  BY Consumed
<1>3. /\ l \in sections /\ l \in Sections /\ l.to \in Nat /\ NextFrom(sections) = l.to + 1
      /\ due[p].to \in 0 .. Len(log) /\ Len(log) \in Nat
  BY RowsTyped, BusyTyped DEF TypeOK, Dues
<1>4. s \in Sections /\ s.from = l.from /\ s.to = due[p].to /\ l.to <= s.to
  <2>1. due[p].to \in Nat /\ due[p].to >= l.to + 1
    BY <1>3
  <2>2. due[p].to \in Events /\ l.to <= due[p].to
    BY <1>3, <2>1 DEF Events
  <2> HIDE DEF l
  <2> QED BY <1>3, <2>2 DEF Sections
<1>5. sections' = Upsert(s, sections)
  OBVIOUS
<1> HIDE DEF s, l
<1>6. TypeOK'
  <2>1. sections' \subseteq Sections
    BY <1>4, <1>5, UpsertTyped DEF TypeOK
  <2> QED BY <1>1, <1>2, <2>1 DEF TypeOK, Dues, Sections, Jobs, Events
<1>7. Tile'
  <2> SUFFICES ASSUME ~overlapped PROVE Tiles(sections')
    BY <1>1 DEF Tile
  <2>1. Tiles(sections) /\ Numbered(sections) /\ \A x \in sections : x.from <= Len(log)
    BY RowsTyped DEF Tile
  <2>2. s.from = Latest(sections).from /\ s.to \in Nat /\ Latest(sections).to <= s.to
    BY <1>3, <1>4 DEF l
  <2> QED BY <1>3, <1>5, <2>1, <2>2, TilesExtended
<1>8. ~overlapped => \A o \in Ps : ~Busy(o)
  <2> SUFFICES ASSUME ~overlapped, NEW o \in Ps, Busy(o) PROVE FALSE
    OBVIOUS
  <2>1. p = cur /\ o # cur
    BY DEF DueOk
  <2>2. PICK t \in Terminals : t <= due[p].to
    BY DEF DueOk
  <2>3. job[o].to < t /\ t \in Nat
    BY <2>1 DEF DueOk, Terminals, TypeOK
  <2>4. job[o] \in Jobs /\ job[o].to \in Nat /\ job[o].from \in Nat
    BY BusyTyped DEF Jobs, Events
  <2>5. job[o].from = NextFrom(sections) /\ ContextSteps(job[o].from, job[o].to, log) # {}
    BY DEF JobOk
  <2>6. job[o].to <= due[p].to
    BY <1>3, <2>2, <2>3, <2>4
  <2>7. ContextSteps(job[o].from, job[o].to, log) \subseteq ContextSteps(NextFrom(sections), due[p].to, log)
    BY <1>3, <2>4, <2>5, <2>6 DEF ContextSteps
  <2> QED BY <2>5, <2>7
<1>9. JobOk'
  BY <1>1, <1>8 DEF JobOk, Busy
<1>10. DueOk'
  <2>1. \A q \in Ps : job'[q].to \in {job[q].to, 0}
    BY <1>1
  <2>2. Terminals # {} => stage' \in {"over", "lost"}
    BY <1>1 DEF DueOk
  <2> QED BY <1>1, <1>2, <2>1, <2>2, Relieved
<1> QED
  BY <1>6, <1>7, <1>9, <1>10

\* A range is given to the model.
LEMMA StartKeeps ==
  ASSUME TInv, NEW p \in Ps, ~Busy(p), due[p].to >= NextFrom(sections),
         NEW from, NEW to, NEW status \in {"in-progress", "completed"},
         from = NextFrom(sections), to = ChunkEnd(ContextSteps(from, due[p].to, log), due[p].to),
         ContextSteps(from, due[p].to, log) # {} \/ sections = {},
         job' = [job EXCEPT ![p] = [from |-> from, to |-> to, latest |-> Latest(sections), status |-> status]],
         overlapped' = (overlapped \/ \E o \in Ps \ {p} : Busy(o)),
         due' = Consume(p, due[p], to), UNCHANGED <<run, sections>>
  PROVE  TInv'
<1> USE DEF TInv
<1> DEFINE j == [from |-> from, to |-> to, latest |-> Latest(sections), status |-> status]
<1>1. UNCHANGED <<log, cur, stage, sections>>
  BY DEF run
<1>2. due' \in [Ps -> Dues] /\ \A q \in Ps : due'[q] \in {due[q], NoDue}
  BY Consumed
<1>3. /\ Latest(sections) \in Sections \cup {NoSection} /\ from \in Nat \ {0} /\ from <= due[p].to
      /\ due[p].to \in 0 .. Len(log) /\ due[p].to \in Nat /\ Len(log) \in Nat
  BY RowsTyped, BusyTyped DEF TypeOK, Dues
<1>4. /\ to \in from .. due[p].to
      /\ ContextSteps(from, due[p].to, log) # {} => ContextSteps(from, to, log) # {}
  BY <1>3, Chunk
<1>5. j \in Jobs /\ j # NoJob
  <2>1. from \in Events /\ to \in Events
    BY <1>3, <1>4 DEF Events
  <2>2. j \in Jobs
    BY <1>3, <2>1 DEF Jobs
  <2> QED BY <2>2, NoSectionApart
<1>6. \A q \in Ps : job'[q] = IF q = p THEN j ELSE job[q]
  BY DEF TypeOK
<1>7. j.from = from /\ j.to = to /\ j.latest = Latest(sections)
  OBVIOUS
<1> HIDE DEF j
<1>8. TypeOK'
  <2>1. job' \in [Ps -> Jobs \cup {NoJob}]
    BY <1>5 DEF TypeOK, j
  <2>2. overlapped' \in BOOLEAN
    BY DEF TypeOK
  <2> QED BY <1>1, <1>2, <2>1, <2>2 DEF TypeOK, Dues, Sections, Jobs, Events
<1>9. Tile'
  BY <1>1 DEF Tile
<1>10. JobOk'
  <2> SUFFICES ASSUME ~overlapped'
               PROVE  /\ \A q, r \in Ps : Busy(q)' /\ Busy(r)' => q = r
                      /\ \A q \in Ps : Busy(q)' =>
                           /\ job'[q].from = NextFrom(sections) /\ job'[q].latest = Latest(sections)
                           /\ job'[q].from <= job'[q].to
                           /\ ContextSteps(job'[q].from, job'[q].to, log) # {} \/ sections = {}
    BY <1>1 DEF JobOk
  <2>1. \A q \in Ps : Busy(q)' => q = p
    BY <1>6 DEF Busy
  <2>2. /\ job'[p].from = NextFrom(sections) /\ job'[p].latest = Latest(sections)
        /\ job'[p].from <= job'[p].to
        /\ ContextSteps(job'[p].from, job'[p].to, log) # {} \/ sections = {}
    BY <1>3, <1>4, <1>6, <1>7
  <2> QED BY <2>1, <2>2
<1>11. DueOk'
  <2>1. \A q \in Ps : job'[q].to \in {job[q].to, 0} \/ job'[q].to \in 0 .. due[q].to
    BY <1>3, <1>4, <1>6, <1>7
  <2>2. Terminals # {} => stage' \in {"over", "lost"}
    BY <1>1 DEF DueOk
  <2> QED BY <1>1, <1>2, <2>1, <2>2, Relieved
<1> QED
  BY <1>8, <1>9, <1>10, <1>11

LEMMA SummarizeKeeps ==
  ASSUME TInv, NEW p \in Ps, Summarize(p)
  PROVE  TInv'
<1> DEFINE d     == due[p]
           from  == NextFrom(sections)
           steps == ContextSteps(from, d.to, log)
           to    == ChunkEnd(steps, d.to)
<1>1. ~Busy(p) /\ UNCHANGED run
  BY DEF Summarize
<1>2. CASE due' = Consume(p, d, d.to) /\ UNCHANGED trace
  BY <1>1, <1>2, SkipKeeps
<1>3. CASE /\ d.to >= from /\ d.force /\ steps = {} /\ sections # {}
           /\ sections' = Upsert([Latest(sections) EXCEPT !.to = d.to, !.status = "completed"], sections)
           /\ due' = Consume(p, d, d.to) /\ UNCHANGED <<job, overlapped>>
  BY <1>1, <1>3, CloseKeeps
<1>4. CASE /\ d.to >= from
           /\ steps # {} \/ sections = {}
           /\ job' = [job EXCEPT ![p] =
                [from |-> from, to |-> to, latest |-> Latest(sections),
                 status |-> IF d.force /\ to = d.to THEN "completed" ELSE "in-progress"]]
           /\ overlapped' = (overlapped \/ \E o \in Ps \ {p} : Busy(o))
           /\ due' = Consume(p, d, to) /\ UNCHANGED sections
  <2> DEFINE status == IF d.force /\ to = d.to THEN "completed" ELSE "in-progress"
  <2>1. status \in {"in-progress", "completed"}
    OBVIOUS
  <2> HIDE DEF status
  <2>2. job' = [job EXCEPT ![p] = [from |-> from, to |-> to, latest |-> Latest(sections), status |-> status]]
    BY <1>4 DEF status
  <2> QED BY <1>1, <1>4, <2>1, <2>2, StartKeeps
<1> QED
  BY <1>2, <1>3, <1>4 DEF Summarize

\* The summary is written: it extends the section read before the call, or closes
\* that one and begins the next.
LEMMA SummarizedTyped ==
  ASSUME TypeOK, NEW p \in Ps, NEW phase \in Phases, Summarized(p, phase)
  PROVE  TypeOK'
<1> DEFINE j == job[p]
<1>1. UNCHANGED <<log, cur, stage, due, overlapped>>
  BY DEF Summarized, run
<1>2. j \in Jobs
  BY BusyTyped DEF Summarized
<1>3. job' \in [Ps -> Jobs \cup {NoJob}]
  BY DEF Summarized, TypeOK
<1>4. j.latest # NoSection => j.latest \in Sections
  BY <1>2 DEF Jobs
<1>5. j.from \in Events /\ j.to \in Events /\ j.status \in {"in-progress", "completed"}
  BY <1>2 DEF Jobs
<1>6. sections \subseteq Sections
  BY DEF TypeOK
<1>7. sections' = IF Merges(j, phase)
        THEN Upsert(Section(j.latest.from, j.to, phase, j.status), sections)
        ELSE Upsert(Section(j.from, j.to, phase, j.status), Closed(j))
  BY DEF Summarized
<1> HIDE DEF j
<1>8. sections' \subseteq Sections
  <2>1. CASE Merges(j, phase)
    <3>1. j.latest.from \in Events
      BY <1>4, <2>1 DEF Merges, Sections
    <3>2. Section(j.latest.from, j.to, phase, j.status) \in Sections
      BY <1>5, <3>1 DEF Section, Sections
    <3> QED BY <1>6, <1>7, <2>1, <3>2, UpsertTyped
  <2>2. CASE ~Merges(j, phase)
    <3>1. Section(j.from, j.to, phase, j.status) \in Sections
      BY <1>5 DEF Section, Sections
    <3>2. Closed(j) \subseteq Sections
      <4>1. CASE j.latest.status = "in-progress"
        <5>1. j.latest \in Sections
          BY <1>4, <4>1, NoSectionApart
        <5>2. [j.latest EXCEPT !.status = "completed"] \in Sections
          BY <5>1 DEF Sections
        <5> QED BY <1>6, <4>1, <5>2, UpsertTyped DEF Closed
      <4>2. CASE j.latest.status # "in-progress"
        BY <1>6, <4>2 DEF Closed
      <4> QED BY <4>1, <4>2
    <3> QED BY <1>7, <2>2, <3>1, <3>2, UpsertTyped
  <2> QED BY <2>1, <2>2
<1> QED
  BY <1>1, <1>3, <1>8 DEF TypeOK, Sections, Jobs, Events

LEMMA SummarizedTiles ==
  ASSUME TInv, ~overlapped, NEW p \in Ps, NEW phase \in Phases, Summarized(p, phase)
  PROVE  Tiles(sections')
<1> USE DEF TInv
<1> DEFINE j == job[p]
           l == Latest(sections)
<1>1. /\ Busy(p)
      /\ sections' = IF Merges(j, phase)
           THEN Upsert(Section(j.latest.from, j.to, phase, j.status), sections)
           ELSE Upsert(Section(j.from, j.to, phase, j.status), Closed(j))
  BY DEF Summarized
<1>2. j.from = l.to + 1 /\ j.latest = l /\ j.from <= j.to
  BY <1>1, RowsTyped DEF JobOk
<1>3. j.to \in Nat /\ l.to \in Nat /\ l.from \in Nat /\ Len(log) \in Nat
  BY <1>1, BusyTyped, RowsTyped DEF Jobs, Events
<1>4. Numbered(sections) /\ (\A x \in sections : x.from <= Len(log)) /\ Tiles(sections)
  BY RowsTyped DEF Tile
<1>5. l # NoSection => sections # {}
  BY RowsTyped
<1>6. \A from, to, status : LET s == Section(from, to, phase, status) IN s.from = from /\ s.to = to
  BY DEF Section
<1> HIDE DEF j
<1>7. CASE Merges(j, phase)
  <2> DEFINE s == Section(j.latest.from, j.to, phase, j.status)
  <2>1. sections # {}
    BY <1>2, <1>5, <1>7 DEF Merges
  <2>2. s.from = Latest(sections).from /\ s.to \in Nat /\ Latest(sections).to <= s.to
    BY <1>2, <1>3, <1>6
  <2>3. sections' = Upsert(s, sections)
    BY <1>1, <1>7
  <2> HIDE DEF s
  <2> QED BY <1>3, <1>4, <2>1, <2>2, <2>3, TilesExtended
<1>8. CASE ~Merges(j, phase)
  <2> DEFINE s == Section(j.from, j.to, phase, j.status)
             closed == Closed(j)
  <2>1. /\ Tiles(closed) /\ Numbered(closed) /\ Latest(closed).to = l.to
        /\ \A x \in closed : x.status = "completed"
    <3>1. CASE l.status = "in-progress"
      <4> DEFINE c == [l EXCEPT !.status = "completed"]
      <4>1. l # NoSection
        BY <3>1, NoSectionApart
      <4>2. sections # {} /\ l \in Sections
        BY <1>5, <4>1, RowsTyped
      <4>3. c.from = l.from /\ c.to = l.to /\ c.status = "completed"
        <5> HIDE DEF l
        <5> QED BY <4>2 DEF Sections
      <4>4. closed = Upsert(c, sections)
        BY <1>2, <3>1 DEF Closed
      <4> HIDE DEF c, closed
      <4>5. c.from = Latest(sections).from /\ c.to \in Nat /\ Latest(sections).to <= c.to
        BY <1>3, <4>3
      <4>6. /\ Latest(Upsert(c, sections)) = c /\ Tiles(Upsert(c, sections)) /\ Numbered(Upsert(c, sections))
            /\ \A x \in Upsert(c, sections) : x.status = "completed" \/ x = c
        BY <1>3, <1>4, <4>2, <4>5, TilesExtended
      <4> QED BY <4>3, <4>4, <4>6
    <3>2. CASE l.status # "in-progress"
      <4>1. closed = sections
        BY <1>2, <3>2 DEF Closed
      <4>2. \A x \in sections : x.status = "completed"
        <5>1. \A x \in sections : x.status \in {"in-progress", "completed"}
          BY DEF TypeOK, Sections
        <5> QED BY <1>4, <3>2, <5>1 DEF Tiles
      <4> QED BY <1>4, <4>1, <4>2
    <3> QED BY <3>1, <3>2
  <2>2. sections' = Upsert(s, closed)
    BY <1>1, <1>8
  <2>3. s.from = l.to + 1 /\ s.to \in Nat /\ s.from <= s.to
    BY <1>2, <1>3, <1>6
  <2> HIDE DEF s, closed, l
  <2> QED BY <1>3, <2>1, <2>2, <2>3, TilesAppended
<1> QED
  BY <1>7, <1>8

LEMMA SummarizedKeeps ==
  ASSUME TInv, NEW p \in Ps, NEW phase \in Phases, Summarized(p, phase)
  PROVE  TInv'
<1> USE DEF TInv
<1>1. UNCHANGED <<log, cur, stage, due, overlapped>>
  BY DEF Summarized, run
<1>2. TypeOK'
  BY SummarizedTyped
<1>3. Tile'
  BY <1>1, SummarizedTiles DEF Tile
<1>4. job' = [job EXCEPT ![p] = NoJob] /\ Busy(p) /\ NoJob.to = 0
  BY NoSectionApart DEF Summarized
<1>5. \A q \in Ps : job'[q] = IF q = p THEN NoJob ELSE job[q]
  BY <1>4 DEF TypeOK
<1>6. JobOk'
  <2>1. ~overlapped => \A q \in Ps : ~Busy(q)'
    BY <1>4, <1>5 DEF JobOk, Busy
  <2> QED BY <1>1, <2>1 DEF JobOk
<1>7. DueOk'
  <2>1. \A q \in Ps : job'[q].to \in {job[q].to, 0}
    BY <1>4, <1>5
  <2>2. Terminals # {} => stage' \in {"over", "lost"}
    BY <1>1 DEF DueOk
  <2> QED BY <1>1, <2>1, <2>2, Relieved
<1> QED
  BY <1>2, <1>3, <1>6, <1>7

-----------------------------------------------------------------------------
(* The run and the process. *)

LEMMA PausedKeeps ==
  ASSUME TInv, Suspend \/ Resume
  PROVE  TInv'
<1> USE DEF TInv
<1>1. UNCHANGED <<log, due, sections, job, overlapped>> /\ cur' \in Ps /\ stage' \in {"suspended", "running"}
  BY Limits DEF Suspend, Resume, trace, TypeOK, Ps
<1>2. TypeOK'
  BY <1>1 DEF TypeOK, Sections, Jobs, Events
<1>3. Tile' /\ JobOk'
  BY <1>1 DEF Tile, JobOk, Busy
<1>4. Terminals = {} /\ Terminals' = Terminals
  BY <1>1 DEF DueOk, Suspend, Resume, Terminals
<1>5. DueOk'
  BY <1>1, <1>4 DEF DueOk
<1> QED
  BY <1>2, <1>3, <1>5

LEMMA CrashKeeps ==
  ASSUME TInv, Crash
  PROVE  TInv'
<1> USE DEF TInv
<1>1. UNCHANGED <<log, cur, sections, overlapped>> /\ stage' \in {stage, "lost"}
  BY DEF Crash
<1>2. \A q \in Ps : due'[q] = NoDue /\ job'[q] = NoJob
  BY DEF Crash
<1>3. NoDue \in Dues /\ NoJob.to = 0
  BY NoSectionApart DEF NoDue, Dues, TypeOK
<1>4. TypeOK'
  <2>1. due' \in [Ps -> Dues] /\ job' \in [Ps -> Jobs \cup {NoJob}]
    BY <1>3 DEF Crash
  <2>2. stage' \in {"running", "suspended", "over", "lost"}
    BY <1>1 DEF TypeOK
  <2> QED BY <1>1, <2>1, <2>2 DEF TypeOK, Dues, Sections, Jobs, Events
<1>5. Tile' /\ JobOk'
  BY <1>1, <1>2 DEF Tile, JobOk, Busy
<1>6. DueOk'
  <2>1. Terminals # {} => stage' \in {"over", "lost"}
    BY <1>1 DEF DueOk
  <2> QED BY <1>1, <1>2, <1>3, <2>1, Relieved
<1> QED
  BY <1>4, <1>5, <1>6

LEMMA TInit ==
  Init => TInv
<1> SUFFICES ASSUME Init PROVE TInv
  OBVIOUS
<1> USE DEF Init
<1>1. Len(log) = 0 /\ Terminals = {} /\ 1 \in Ps
  BY Limits DEF Terminals, Ps
<1>2. TypeOK
  <2>1. log \in Seq(Kinds)
    OBVIOUS
  <2>2. NoDue \in [to : 0 .. Len(log), force : BOOLEAN]
    BY <1>1 DEF NoDue
  <2>3. sections \subseteq Sections /\ overlapped \in BOOLEAN
    OBVIOUS
  <2> QED BY <1>1, <2>1, <2>2, <2>3 DEF TypeOK
<1>3. Tile /\ JobOk
  BY LatestEmpty DEF Tile, Tiles, JobOk, Busy
<1>4. DueOk
  BY <1>1 DEF DueOk, NoDue
<1> QED
  BY <1>2, <1>3, <1>4 DEF TInv

LEMMA TNext ==
  TInv /\ [Next]_vars => TInv'
<1> SUFFICES ASSUME TInv, [Next]_vars PROVE TInv'
  OBVIOUS
<1>1. CASE \E kind \in {"compiled", "other"} : Record(kind)
  BY <1>1, RecordKeeps DEF Record
<1>2. CASE Finish
  BY <1>2, EndKeeps DEF Finish
<1>3. CASE FinishAgain
  BY <1>3, EndKeeps DEF FinishAgain
<1>4. CASE WriteLate
  BY <1>4, RecordKeeps DEF WriteLate
<1>5. CASE Suspend \/ Resume
  BY <1>5, PausedKeeps
<1>6. ASSUME NEW p \in Ps, Coordinate(p) PROVE TInv'
  BY <1>6, SummarizeKeeps, SummarizedKeeps DEF Coordinate
<1>7. CASE Crash
  BY <1>7, CrashKeeps
<1>8. CASE UNCHANGED vars
  BY <1>8 DEF vars, run, trace, TInv, TypeOK, Tile, JobOk, DueOk, Busy, Sections, Jobs, Events, Terminals
<1> QED
  BY <1>1, <1>2, <1>3, <1>4, <1>5, <1>6, <1>7, <1>8 DEF Next

-----------------------------------------------------------------------------
\* The inductive invariant of the coordinators and the log they summarise.
THEOREM TInvHolds == Spec => []TInv
BY TInit, TNext, PTL DEF Spec

\* Every variable stays in its type, and no range or section reaches beyond the
\* log, however far the summaries fall behind.
THEOREM TypeCorrect == Spec => []TypeOK
<1>1. TInv => TypeOK
  BY DEF TInv
<1> QED
  BY <1>1, TInvHolds, PTL

\* While one coordinator at a time works on the run, its sections tile the log:
\* chunks, rests, merged and closed sections neither miss an event nor take it
\* twice (summarizeRange).
THEOREM SectionsAlwaysTile == Spec => []SectionsTile
<1>1. TInv => SectionsTile
  BY DEF TInv, Tile, Tiles, SectionsTile
<1> QED
  BY <1>1, TInvHolds, PTL
=============================================================================
