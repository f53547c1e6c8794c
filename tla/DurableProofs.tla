---------------------------- MODULE DurableProofs ----------------------------
(***************************************************************************)
(* What outlives a run, for every bound.                                   *)
(*                                                                         *)
(* The rows of a conversation: its summaries cover their ranges and its    *)
(* branches are fixed prefixes from before the run they rewrite, for any   *)
(* sessions, runs, questions and limits.                                   *)
(*                                                                         *)
(* The session file of the terminals: until a lock is removed under an     *)
(* operation at work, the lock excludes and no saved session is lost, for  *)
(* any number of terminals and servers; and no such lock is removed unless *)
(* a terminal died in its critical section or was there for LOCK_STALE_MS. *)
(***************************************************************************)
EXTENDS Conversation, SessionFile, Integers, FiniteSetTheorems, SequenceTheorems, WellFoundedInduction, TLAPS

(***************************************************************************)
(* Conversation                                                            *)
(***************************************************************************)

LEMMA Limits ==
  /\ LoadLimit \in Nat /\ Trigger \in Nat /\ KeepRecent \in Nat /\ MaxMessages \in Nat
  /\ KeepRecent < Trigger
BY LimitsOk

-----------------------------------------------------------------------------
(* Numbers. *)

\* A set of numbers has a least member.
LEMMA Least ==
  ASSUME NEW T, T \subseteq Nat, T # {}
  PROVE  \E x \in T : \A y \in T : x <= y
<1> DEFINE R == OpToRel(<, Nat)
<1>1. IsWellFoundedOn(R, Nat)
  BY NatLessThanWellFounded
<1>2. \A x, y \in Nat : x < y => <<x, y>> \in R
  BY DEF OpToRel
<1> HIDE DEF R
<1>3. PICK x \in T : \A y \in T : ~ (<<y, x>> \in R)
  BY <1>1, WFMin
<1>4. \A y \in T : ~ (y < x)
  BY <1>2, <1>3
<1>5. \A y \in T : x <= y
  BY <1>4
<1> QED
  BY <1>3, <1>5

\* A bounded one has a greatest.
LEMMA Greatest ==
  ASSUME NEW n \in Nat, NEW T, T \subseteq 0 .. n, T # {}
  PROVE  \E x \in T : \A y \in T : y <= x
<1> DEFINE U == {n - x : x \in T}
<1>1. U \subseteq Nat /\ U # {}
  <2>1. \A x \in T : x \in Nat /\ x <= n
    OBVIOUS
  <2>2. \A x \in T : n - x \in Nat
    BY <2>1
  <2> QED BY <2>2
<1>2. PICK u \in U : \A v \in U : u <= v
  <2> HIDE DEF U
  <2> QED BY <1>1, Least
<1>3. PICK x \in T : u = n - x
  OBVIOUS
<1>4. \A y \in T : n - x <= n - y
  BY <1>2, <1>3
<1>5. \A y \in T : y <= x
  BY <1>4
<1> QED
  BY <1>5

LEMMA MinOf ==
  ASSUME NEW T, T \subseteq Nat, T # {}
  PROVE  Min(T) \in T /\ \A y \in T : Min(T) <= y
BY Least DEF Min

-----------------------------------------------------------------------------
(* Lineages, of any branches b. *)

ParentsOf(b, T) == {b[c].parent : c \in {c \in T : b[c] # NoBranch}}

Kin(b, s) ==
  {a \in Sessions : \A T \in SUBSET Sessions : s \in T /\ ParentsOf(b, T) \subseteq T => a \in T}

Closed(b, T) == \A c \in T : b[c] # NoBranch => b[c].parent \in T

LEMMA Lineages ==
  \A s : Lineage(s) = Kin(branch, s) /\ Lineage(s)' = Kin(branch', s)
BY DEF Lineage, Parents, Kin, ParentsOf

LEMMA KinDef ==
  ASSUME NEW b, NEW s
  PROVE  Kin(b, s) = {a \in Sessions : \A T \in SUBSET Sessions : s \in T /\ Closed(b, T) => a \in T}
<1>1. \A T : ParentsOf(b, T) \subseteq T <=> Closed(b, T)
  BY DEF ParentsOf, Closed
<1> QED
  BY <1>1 DEF Kin

\* A lineage has its session and the parent of each of its branches,
LEMMA KinClosed ==
  ASSUME NEW b, NEW s \in Sessions, Closed(b, Sessions)
  PROVE  s \in Kin(b, s) /\ Kin(b, s) \subseteq Sessions /\ Closed(b, Kin(b, s))
<1>1. s \in Kin(b, s) /\ Kin(b, s) \subseteq Sessions
  BY KinDef
<1>2. ASSUME NEW c \in Kin(b, s), b[c] # NoBranch PROVE b[c].parent \in Kin(b, s)
  <2>1. b[c].parent \in Sessions
    BY <1>1, <1>2 DEF Closed
  <2>2. ASSUME NEW T \in SUBSET Sessions, s \in T, Closed(b, T) PROVE b[c].parent \in T
    <3>1. c \in T
      BY <2>2, KinDef
    <3> QED BY <1>2, <2>2, <3>1 DEF Closed
  <2> QED BY <2>1, <2>2, KinDef
<1> QED
  BY <1>1, <1>2 DEF Closed

\* and no more.
LEMMA KinLeast ==
  ASSUME NEW b, NEW s, NEW T \in SUBSET Sessions, s \in T, Closed(b, T)
  PROVE  Kin(b, s) \subseteq T
BY KinDef

LEMMA KinOfKin ==
  ASSUME NEW b, NEW s \in Sessions, Closed(b, Sessions), NEW x \in Kin(b, s)
  PROVE  Kin(b, x) \subseteq Kin(b, s)
BY KinClosed, KinLeast

\* The lineage of a branch is that of its parent, and itself.
LEMMA KinOfBranch ==
  ASSUME NEW b, NEW s \in Sessions, Closed(b, Sessions), b[s] # NoBranch
  PROVE  Kin(b, s) = {s} \cup Kin(b, b[s].parent)
<1>1. b[s].parent \in Sessions
  BY DEF Closed
<1>2. /\ s \in Kin(b, s) /\ b[s].parent \in Kin(b, s)
      /\ b[s].parent \in Kin(b, b[s].parent) /\ Kin(b, b[s].parent) \subseteq Sessions
      /\ Closed(b, Kin(b, b[s].parent))
  BY <1>1, KinClosed DEF Closed
<1>3. Kin(b, b[s].parent) \subseteq Kin(b, s)
  BY <1>2, KinOfKin
<1>4. Closed(b, {s} \cup Kin(b, b[s].parent))
  BY <1>2 DEF Closed
<1>5. Kin(b, s) \subseteq {s} \cup Kin(b, b[s].parent)
  BY <1>2, <1>4, KinLeast
<1> QED
  BY <1>2, <1>3, <1>5

\* A lineage depends on its own branches only.
LEMMA KinSame ==
  ASSUME NEW b, NEW d, NEW s \in Sessions, Closed(b, Sessions), Closed(d, Sessions),
         \A c \in Kin(b, s) : d[c] = b[c]
  PROVE  Kin(d, s) = Kin(b, s)
<1>1. s \in Kin(b, s) /\ Kin(b, s) \subseteq Sessions /\ Closed(b, Kin(b, s))
  BY KinClosed
<1>2. Closed(d, Kin(b, s))
  BY <1>1 DEF Closed
<1>3. Kin(d, s) \subseteq Kin(b, s)
  BY <1>1, <1>2, KinLeast
<1>4. s \in Kin(d, s) /\ Closed(d, Kin(d, s)) /\ Kin(d, s) \subseteq Sessions
  BY KinClosed
<1>5. Closed(b, Kin(d, s))
  BY <1>3, <1>4 DEF Closed
<1>6. Kin(b, s) \subseteq Kin(d, s)
  BY <1>4, <1>5, KinLeast
<1> QED
  BY <1>3, <1>6

-----------------------------------------------------------------------------
(* Summaries. *)

\* What SummaryCovers says of one summary, of a session with n messages.
Covers(x, n) ==
  /\ x.read \subseteq x.from .. x.to /\ x.from <= x.to /\ x.to <= n
  /\ \A p \in x.from .. x.to : p \in x.read \/ p + LoadLimit <= x.to + KeepRecent

LEMMA Interval ==
  ASSUME NEW lo \in Nat, NEW n \in Nat
  PROVE  /\ lo > n => Cardinality(lo .. n) = 0
         /\ lo <= n => Cardinality(lo .. n) = n - lo + 1
<1>1. lo \in Int /\ n \in Int
  OBVIOUS
<1>2. Cardinality(lo .. n) = IF lo > n THEN 0 ELSE n - lo + 1
  BY <1>1, FS_Interval
<1> QED
  BY <1>2

\* Of the messages lo to n, those up to n - KeepRecent are summarised.
LEMMA KeptOut ==
  ASSUME NEW lo \in Nat, NEW n \in Nat, NEW p \in lo .. n
  PROVE  Cardinality({q \in lo .. n : q > p}) = n - p
<1>1. {q \in lo .. n : q > p} = (p + 1) .. n
  OBVIOUS
<1>2. p + 1 \in Nat /\ (p + 1 > n => n = p) /\ n - (p + 1) + 1 = n - p
  OBVIOUS
<1>3. /\ p + 1 > n => Cardinality((p + 1) .. n) = 0
      /\ p + 1 <= n => Cardinality((p + 1) .. n) = n - (p + 1) + 1
  BY <1>2, Interval
<1> QED
  <2>1. Cardinality((p + 1) .. n) = n - p
    BY <1>2, <1>3
  <2> QED BY <1>1, <2>1, Zenon

LEMMA SummaryMade ==
  ASSUME NEW latest \in Summaries, NEW n \in Nat, latest = NoSummary \/ Covers(latest, n),
         SummaryOf(latest, n) # NoJob
  PROVE  SummaryOf(latest, n) \in Summaries /\ Covers(SummaryOf(latest, n), n)
<1> DEFINE lo == IF n - LoadLimit > latest.to THEN n - LoadLimit + 1 ELSE latest.to + 1
           S  == SummaryOf(latest, n)
<1>1. latest.from \in Nat /\ latest.to \in Nat /\ latest.read \subseteq Nat
  BY DEF Summaries
<1>2. lo \in Nat /\ lo > latest.to /\ lo > n - LoadLimit /\ lo > 0
  BY <1>1, Limits
<1>3. {p \in 1 .. n : p > n - LoadLimit /\ p > latest.to} = lo .. n
  BY <1>1, Limits
<1>4. /\ Cardinality(lo .. n) >= Trigger
      /\ S = [from |-> IF latest = NoSummary THEN Min(lo .. n) ELSE latest.from,
              to   |-> UpTo(lo .. n),
              read |-> latest.read \cup {p \in lo .. n : Cardinality({q \in lo .. n : q > p}) >= KeepRecent}]
  <2> HIDE DEF lo
  <2>1. Cardinality(lo .. n) \in Nat
    <3>1. /\ lo > n => Cardinality(lo .. n) = 0
          /\ lo <= n => Cardinality(lo .. n) = n - lo + 1
      BY <1>2, Interval
    <3> QED BY <1>2, <3>1
  <2>2. SummaryOf(latest, n) =
          IF Cardinality(lo .. n) < Trigger THEN NoJob
          ELSE [from |-> IF latest = NoSummary THEN Min(lo .. n) ELSE latest.from,
                to   |-> UpTo(lo .. n),
                read |-> latest.read \cup {p \in lo .. n : Cardinality({q \in lo .. n : q > p}) >= KeepRecent}]
    BY <1>3 DEF SummaryOf
  <2> QED BY <2>1, <2>2, Limits
<1> HIDE DEF lo, S
<1>5. lo <= n - KeepRecent
  <2>1. /\ lo > n => Cardinality(lo .. n) = 0
        /\ lo <= n => Cardinality(lo .. n) = n - lo + 1
    BY <1>2, Interval
  <2> QED BY <1>2, <1>4, <2>1, Limits
<1>6. n - KeepRecent \in lo .. n
  BY <1>2, <1>5, Limits
<1>7. \A p \in lo .. n : Cardinality({q \in lo .. n : q > p}) = n - p
  BY <1>2, KeptOut
<1>8. UpTo(lo .. n) = n - KeepRecent
  <2>1. \E p \in lo .. n : Cardinality({q \in lo .. n : q > p}) = KeepRecent
    BY <1>6, <1>7, Limits
  <2>2. UpTo(lo .. n) \in lo .. n /\ Cardinality({q \in lo .. n : q > UpTo(lo .. n)}) = KeepRecent
    BY <2>1 DEF UpTo
  <2> QED BY <1>2, <1>7, <2>2, Limits
<1>9. {p \in lo .. n : Cardinality({q \in lo .. n : q > p}) >= KeepRecent} = lo .. (n - KeepRecent)
  BY <1>2, <1>7, Limits
<1>10. Min(lo .. n) = lo
  <2>1. lo .. n \subseteq Nat /\ lo \in lo .. n
    BY <1>2, <1>6
  <2>2. Min(lo .. n) \in lo .. n /\ \A y \in lo .. n : Min(lo .. n) <= y
    BY <2>1, MinOf
  <2> QED BY <1>2, <2>1, <2>2
<1>11. /\ S.to = n - KeepRecent /\ S.read = latest.read \cup lo .. (n - KeepRecent)
       /\ S.from = IF latest = NoSummary THEN lo ELSE latest.from
       /\ S = [from |-> S.from, to |-> S.to, read |-> S.read]
  BY <1>4, <1>8, <1>9, <1>10
<1>12. S \in Summaries
  <2>1. lo .. (n - KeepRecent) \subseteq Nat
    BY <1>2
  <2> QED BY <1>1, <1>2, <1>6, <1>11, <2>1 DEF Summaries
<1>13. Covers(S, n)
  <2>1. CASE latest = NoSummary
    <3>1. latest.read = {} /\ S.from = lo
      BY <1>11, <2>1 DEF NoSummary
    <3> QED BY <1>2, <1>6, <1>11, <3>1, Limits DEF Covers
  <2>2. CASE latest # NoSummary
    <3>1. Covers(latest, n) /\ S.from = latest.from
      BY <1>11, <2>2
    <3>2. S.read \subseteq S.from .. S.to /\ S.from <= S.to /\ S.to <= n
      <4>1. ASSUME NEW p \in latest.read PROVE p \in S.from .. S.to
        BY <1>1, <1>2, <1>5, <1>11, <3>1, Limits DEF Covers
      <4>2. latest.from <= lo
        BY <1>1, <1>2, <3>1 DEF Covers
      <4> QED BY <1>1, <1>2, <1>5, <1>11, <3>1, <4>1, <4>2, Limits
    <3>3. ASSUME NEW p \in S.from .. S.to PROVE p \in S.read \/ p + LoadLimit <= S.to + KeepRecent
      <4>1. p \in Nat /\ p >= latest.from /\ p <= n - KeepRecent
        BY <1>1, <1>11, <3>1, <3>3
      <4>2. CASE p <= latest.to
        BY <1>1, <1>2, <1>5, <1>11, <3>1, <4>1, <4>2, Limits DEF Covers
      <4>3. CASE p > latest.to /\ p <= n - LoadLimit
        BY <1>11, <4>1, <4>3, Limits
      <4>4. CASE p > latest.to /\ p > n - LoadLimit
        <5>1. p >= lo
          BY <1>1, <4>1, <4>4, Limits DEF lo
        <5> QED BY <1>2, <1>11, <4>1, <5>1, Limits
      <4> QED BY <1>1, <4>1, <4>2, <4>3, <4>4, Limits
    <3> QED BY <3>2, <3>3 DEF Covers
  <2> QED BY <2>1, <2>2
<1> QED
  BY <1>12, <1>13 DEF S
-----------------------------------------------------------------------------
(* The invariant. *)

\* A message is of a run of its session, the question of a run comes first, and
\* the answers have their own ids.
MessagesOk ==
  \A s \in Sessions : \A i \in DOMAIN messages[s] :
    /\ run[messages[s][i].run].session = s
    /\ messages[s][i].role = "user" =>
         \A j \in DOMAIN messages[s] : messages[s][j].run = messages[s][i].run => i <= j
    /\ messages[s][i].role = "user" => messages[s][i].id \in Questions
    /\ messages[s][i].role = "assistant" => messages[s][i].id = <<messages[s][i].run, i>>

\* A branch and its parent are there; the fork is a position of the parent up to
\* which the rewritten run has said nothing, or asked its question.
BranchOk ==
  \A c \in Sessions : branch[c] # NoBranch =>
    /\ Live(c) /\ Live(branch[c].parent)
    /\ run[branch[c].fork].session = branch[c].parent
    /\ branch[c].end <= Len(messages[branch[c].parent])
    /\ \A i \in 1 .. branch[c].end :
         messages[branch[c].parent][i].run = branch[c].fork =>
           branch[c].checkpoint /\ messages[branch[c].parent][i].role = "user"
    /\ c \notin Kin(branch, branch[c].parent)

SummariesOk == \A s \in Sessions : \A x \in summaries[s] : Covers(x, Len(messages[s]))

\* So is a summary that is being made, unless it will be thrown away.
JobOk ==
  \A r \in Runs : job[r] # NoJob =>
    /\ run[r] # Unasked
    /\ run[r].status # "deleted" => Covers(job[r], Len(messages[run[r].session]))

\* Work is done on a run that was accepted and not deleted.
WorkerOk == \A r \in Runs : worker[r] # "none" => run[r].status \in {"running", "suspended", "over"}

CInv == TypeOK /\ MessagesOk /\ BranchOk /\ SummariesOk /\ JobOk /\ WorkerOk

LEMMA CInit == Init => CInv
<1> SUFFICES ASSUME Init PROVE CInv
  OBVIOUS
<1>1. NoJob \in Summaries
  BY DEF NoJob, NoSummary, Summaries
<1>2. TypeOK
  BY <1>1 DEF Init, TypeOK
<1>3. MessagesOk /\ BranchOk /\ SummariesOk /\ JobOk /\ WorkerOk
  BY DEF Init, MessagesOk, BranchOk, SummariesOk, JobOk, WorkerOk
<1> QED
  BY <1>2, <1>3 DEF CInv

-----------------------------------------------------------------------------
(* What the steps have in common. *)

Asked(r) == run[r].session \in Sessions

LEMMA RunTypes ==
  ASSUME TypeOK, NEW r \in Runs
  PROVE  /\ Asked(r) <=> run[r] # Unasked
         /\ run[r] # Unasked <=> run[r].status # "none"
         /\ run[r] # Unasked => /\ run[r].session \in Sessions /\ run[r].question \in Questions
                               /\ run[r] = [session |-> run[r].session, question |-> run[r].question,
                                            status |-> run[r].status]
                               /\ run[r].status \in {"running", "suspended", "over", "refused", "deleted"}
BY RootsOk DEF TypeOK, Asked, Unasked

LEMMA BranchTypes ==
  ASSUME TypeOK
  PROVE  /\ Closed(branch, Sessions)
         /\ \A c \in Sessions : branch[c] # NoBranch =>
              branch[c].parent \in Sessions /\ branch[c].fork \in Runs /\ branch[c].end \in Nat
         /\ NoBranch.parent \notin Sessions
BY RootsOk DEF TypeOK, Closed, NoBranch

\* The least closed set is what resolveSessionLineageInner visits: the session,
\* and the lineage of its parent if it is a branch.
THEOREM LineageRecursion ==
  ASSUME TypeOK, NEW s \in Sessions
  PROVE  Lineage(s) = {s} \cup (IF branch[s] = NoBranch THEN {} ELSE Lineage(branch[s].parent))
<1>1. Closed(branch, Sessions)
  BY BranchTypes
<1>2. CASE branch[s] = NoBranch
  <2>1. Closed(branch, {s})
    BY <1>2 DEF Closed
  <2>2. Kin(branch, s) = {s}
    BY <1>1, <2>1, KinLeast, KinClosed
  <2> QED BY <1>2, <2>2, Lineages
<1>3. CASE branch[s] # NoBranch
  <2>1. Kin(branch, s) = {s} \cup Kin(branch, branch[s].parent)
    BY <1>1, <1>3, KinOfBranch
  <2> QED BY <1>3, <2>1, Lineages
<1> QED
  BY <1>2, <1>3

LEMMA MessageTypes ==
  ASSUME TypeOK, NEW s \in Sessions
  PROVE  /\ messages[s] \in Seq(Messages) /\ Len(messages[s]) \in Nat /\ DOMAIN messages[s] = 1 .. Len(messages[s])
         /\ \A i \in DOMAIN messages[s] :
              /\ messages[s][i] \in Messages /\ messages[s][i].run \in Runs
              /\ messages[s][i].role \in {"user", "assistant"}
<1>1. messages[s] \in Seq(Messages)
  BY DEF TypeOK
<1>2. Len(messages[s]) \in Nat /\ DOMAIN messages[s] = 1 .. Len(messages[s])
  BY <1>1
<1>3. \A i \in DOMAIN messages[s] : messages[s][i] \in Messages
  BY <1>1, <1>2
<1> QED
  BY <1>1, <1>2, <1>3 DEF Messages

\* The lineage of a live session is live.
LEMMA LiveLineage ==
  ASSUME TypeOK, BranchOk, NEW s \in Sessions, Live(s)
  PROVE  \A a \in Kin(branch, s) : Live(a)
<1> DEFINE T == {a \in Sessions : Live(a)}
<1>1. Closed(branch, T)
  BY BranchTypes DEF BranchOk, Closed
<1> QED
  BY <1>1, KinLeast

\* A run that was there keeps its session.
SessionsKept == \A r \in Runs : run[r] # Unasked => run'[r] # Unasked /\ run'[r].session = run[r].session

Grows(s) ==
  /\ Len(messages[s]) <= Len(messages'[s])
  /\ \A i \in 1 .. Len(messages[s]) : messages'[s][i] = messages[s][i]

\* Conversations that only grow keep their branches,
LEMMA BranchesKept ==
  ASSUME CInv, TypeOK', UNCHANGED branch, SessionsKept, \A s \in Sessions : Grows(s),
         \A s \in Sessions : Live(s) => Live(s)'
  PROVE  BranchOk'
<1> SUFFICES ASSUME NEW c \in Sessions, branch[c] # NoBranch
             PROVE  /\ Live(c)' /\ Live(branch[c].parent)'
                    /\ run'[branch[c].fork].session = branch[c].parent
                    /\ branch[c].end <= Len(messages'[branch[c].parent])
                    /\ \A i \in 1 .. branch[c].end :
                         messages'[branch[c].parent][i].run = branch[c].fork =>
                           branch[c].checkpoint /\ messages'[branch[c].parent][i].role = "user"
                    /\ c \notin Kin(branch, branch[c].parent)
  BY DEF BranchOk, Live
<1> DEFINE p == branch[c].parent
<1>1. p \in Sessions /\ branch[c].fork \in Runs /\ branch[c].end \in Nat
  BY BranchTypes DEF CInv
<1>2. run[branch[c].fork].session = p /\ run[branch[c].fork] # Unasked
  BY <1>1, RunTypes DEF CInv, BranchOk, Asked
<1>3. Len(messages[p]) \in Nat /\ Len(messages'[p]) \in Nat
  BY <1>1 DEF CInv, TypeOK
<1>4. \A i \in 1 .. branch[c].end : i \in 1 .. Len(messages[p])
  BY <1>1, <1>3 DEF CInv, BranchOk
<1>5. /\ Live(c) /\ Live(p) /\ branch[c].end <= Len(messages[p]) /\ c \notin Kin(branch, p)
      /\ \A i \in 1 .. branch[c].end :
           messages[p][i].run = branch[c].fork => branch[c].checkpoint /\ messages[p][i].role = "user"
  BY DEF CInv, BranchOk
<1>6. /\ Len(messages[p]) <= Len(messages'[p])
      /\ \A i \in 1 .. Len(messages[p]) : messages'[p][i] = messages[p][i]
  BY <1>1 DEF Grows
<1>7. Live(c)' /\ Live(p)'
  BY <1>1, <1>5
<1>8. run'[branch[c].fork].session = p
  BY <1>1, <1>2 DEF SessionsKept
<1>9. branch[c].end <= Len(messages'[p])
  BY <1>1, <1>3, <1>5, <1>6
<1>10. \A i \in 1 .. branch[c].end : messages'[p][i] = messages[p][i]
  BY <1>4, <1>6
<1>11. \A i \in 1 .. branch[c].end :
         messages'[p][i].run = branch[c].fork => branch[c].checkpoint /\ messages'[p][i].role = "user"
  BY <1>5, <1>10
<1> QED
  BY <1>5, <1>7, <1>8, <1>9, <1>11 DEF Live

\* and so do those that do not.
LEMMA MessagesKept ==
  ASSUME CInv, UNCHANGED messages, SessionsKept
  PROVE  MessagesOk' /\ \A s \in Sessions : Grows(s)
<1>1. ASSUME NEW s \in Sessions, NEW i \in DOMAIN messages[s]
      PROVE  run'[messages[s][i].run].session = s
  <2>1. run[messages[s][i].run].session = s /\ messages[s][i].run \in Runs
    BY <1>1, MessageTypes DEF CInv, MessagesOk
  <2>2. run[messages[s][i].run] # Unasked
    BY <2>1, RunTypes DEF CInv, Asked
  <2> QED BY <2>1, <2>2 DEF SessionsKept
<1>2. \A s \in Sessions : Len(messages[s]) \in Nat
  BY DEF CInv, TypeOK
<1>3. MessagesOk'
  BY <1>1 DEF CInv, MessagesOk
<1> QED
  BY <1>2, <1>3 DEF Grows

LEMMA CoversMore ==
  ASSUME NEW x \in Summaries, NEW n \in Nat, NEW m \in Nat, n <= m, Covers(x, n)
  PROVE  Covers(x, m)
BY DEF Covers, Summaries

\* A summary that covered goes on to cover.
LEMMA SummariesKept ==
  ASSUME CInv, TypeOK', \A s \in Sessions : Grows(s),
         \A s \in Sessions : \A x \in summaries'[s] : x \in summaries[s] \/ Covers(x, Len(messages'[s]))
  PROVE  SummariesOk'
<1> SUFFICES ASSUME NEW s \in Sessions, NEW x \in summaries[s] PROVE Covers(x, Len(messages'[s]))
  BY DEF SummariesOk, Covers
<1>1. x \in Summaries /\ Covers(x, Len(messages[s])) /\ Len(messages[s]) \in Nat /\ Len(messages'[s]) \in Nat
  BY DEF CInv, TypeOK, SummariesOk
<1> QED
  BY <1>1, CoversMore DEF Grows

LEMMA JobsKept ==
  ASSUME CInv, TypeOK', \A s \in Sessions : Grows(s), SessionsKept,
         \A r \in Runs : run'[r].status # "deleted" => run[r].status # "deleted",
         \A r \in Runs : job'[r] # NoJob =>
           \/ job'[r] = job[r]
           \/ run'[r] # Unasked /\ Covers(job'[r], Len(messages'[run'[r].session]))
  PROVE  JobOk'
<1> SUFFICES ASSUME NEW r \in Runs, job'[r] # NoJob, job'[r] = job[r]
             PROVE  /\ run'[r] # Unasked
                    /\ run'[r].status # "deleted" => Covers(job[r], Len(messages'[run'[r].session]))
  BY DEF JobOk, Covers
<1>1. run[r] # Unasked /\ run'[r] # Unasked /\ run'[r].session = run[r].session /\ run[r].session \in Sessions
  BY RunTypes DEF CInv, JobOk, SessionsKept
<1>2. job[r] \in Summaries /\ Len(messages[run[r].session]) \in Nat /\ Len(messages'[run[r].session]) \in Nat
  BY <1>1 DEF CInv, TypeOK
<1> QED
  BY <1>1, <1>2, CoversMore DEF CInv, JobOk, Grows

\* Steps that delete nothing and branch nothing.
LEMMA WorkKept ==
  ASSUME CInv, TypeOK', MessagesOk', WorkerOk', SessionsKept, UNCHANGED branch,
         \A s \in Sessions : Grows(s), \A s \in Sessions : Live(s) => Live(s)',
         \A s \in Sessions : \A x \in summaries'[s] : x \in summaries[s] \/ Covers(x, Len(messages'[s])),
         \A r \in Runs : run'[r].status # "deleted" => run[r].status # "deleted",
         \A r \in Runs : job'[r] # NoJob =>
           \/ job'[r] = job[r]
           \/ run'[r] # Unasked /\ Covers(job'[r], Len(messages'[run'[r].session]))
  PROVE  CInv'
BY BranchesKept, SummariesKept, JobsKept DEF CInv

-----------------------------------------------------------------------------
(* Messages and statuses. *)

\* messages as TypeOK types them.
MessagesTyped ==
  /\ messages \in [Sessions -> Seq(Messages)]
  /\ \A s \in Sessions : \A i, j \in DOMAIN messages[s] : messages[s][i].id = messages[s][j].id => i = j

\* A message that is stored is the last of its session, and its id a new one.
LEMMA AddedOne ==
  ASSUME TypeOK, NEW s \in Sessions, NEW m \in Messages, Say(s, m)
  PROVE  /\ MessagesTyped' /\ \A x \in Sessions : Grows(x)
         /\ \A x \in Sessions : x # s => messages'[x] = messages[x]
         /\ \A i \in DOMAIN messages'[s] :
              i \in DOMAIN messages[s] \/ (messages'[s][i] = m /\ i = Len(messages[s]) + 1)
<1>1. messages \in [Sessions -> Seq(Messages)] /\ messages[s] \in Seq(Messages)
  BY DEF TypeOK
<1>2. \A x \in Sessions : messages'[x] = IF x = s THEN Added(messages[s], m) ELSE messages[x]
  BY <1>1 DEF Say
<1>3. \A x \in Sessions : Len(messages[x]) \in Nat /\ DOMAIN messages[x] = 1 .. Len(messages[x])
  BY <1>1
<1>4. \A x \in Sessions : \A i, j \in DOMAIN messages[x] : messages[x][i].id = messages[x][j].id => i = j
  BY DEF TypeOK
<1>5. CASE \E i \in DOMAIN messages[s] : messages[s][i].id = m.id
  <2>1. messages'  = messages
    BY <1>1, <1>5 DEF Say, Added
  <2> QED BY <1>1, <1>3, <1>4, <2>1 DEF MessagesTyped, Grows
<1>6. CASE ~ \E i \in DOMAIN messages[s] : messages[s][i].id = m.id
  <2> DEFINE n == Len(messages[s])
  <2>1. messages'[s] = Append(messages[s], m)
    BY <1>2, <1>6 DEF Added
  <2>2. /\ messages'[s] \in Seq(Messages) /\ Len(messages'[s]) = n + 1 /\ DOMAIN messages'[s] = 1 .. (n + 1)
        /\ \A i \in 1 .. n : messages'[s][i] = messages[s][i]
        /\ messages'[s][n + 1] = m
    BY <1>1, <2>1
  <2>3. messages' \in [Sessions -> Seq(Messages)]
    <3>1. Added(messages[s], m) \in Seq(Messages)
      BY <1>6, <2>1, <2>2 DEF Added
    <3> QED BY <1>1, <3>1 DEF Say
  <2>4. \A i, j \in DOMAIN messages'[s] : messages'[s][i].id = messages'[s][j].id => i = j
    <3>1. \A i \in 1 .. n : messages[s][i].id # m.id
      BY <1>3, <1>6
    <3>2. \A i, j \in 1 .. n : messages[s][i].id = messages[s][j].id => i = j
      BY <1>3, <1>4
    <3>3. \A i \in 1 .. (n + 1) : i \in 1 .. n \/ i = n + 1
      BY <1>3
    <3> HIDE DEF n
    <3> QED BY <2>2, <3>1, <3>2, <3>3
  <2>5. \A x \in Sessions : x # s => messages'[x] = messages[x]
    BY <1>2
  <2>6. MessagesTyped'
    <3>1. ASSUME NEW x \in Sessions, NEW i \in DOMAIN messages'[x], NEW j \in DOMAIN messages'[x],
                 messages'[x][i].id = messages'[x][j].id
          PROVE  i = j
      <4>1. CASE x = s
        BY <2>4, <3>1, <4>1
      <4>2. CASE x # s
        BY <1>4, <2>5, <3>1, <4>2
      <4> QED BY <4>1, <4>2
    <3> QED BY <2>3, <3>1 DEF MessagesTyped
  <2>7. \A x \in Sessions : Grows(x)
    <3>1. Grows(s)
      BY <1>3, <2>2 DEF Grows
    <3>2. \A x \in Sessions : x # s => Grows(x)
      BY <1>3, <2>5 DEF Grows
    <3> QED BY <3>1, <3>2
  <2>8. \A i \in DOMAIN messages'[s] : i \in DOMAIN messages[s] \/ (messages'[s][i] = m /\ i = n + 1)
    BY <1>3, <2>2
  <2> QED BY <2>5, <2>6, <2>7, <2>8
<1> QED
  BY <1>5, <1>6

\* Messages that are added are of their session, and a question that is added
\* is the first message of its run.
LEMMA MoreMessages ==
  ASSUME CInv, SessionsKept, messages' \in [Sessions -> Seq(Messages)], \A x \in Sessions : Grows(x),
         \A x \in Sessions : \A i \in DOMAIN messages'[x] :
           \/ i \in DOMAIN messages[x]
           \/ /\ i > Len(messages[x]) /\ run'[messages'[x][i].run].session = x
              /\ \/ /\ messages'[x][i].role = "user" /\ messages'[x][i].id \in Questions
                    /\ \A j \in DOMAIN messages'[x] : messages'[x][j].run = messages'[x][i].run => i <= j
                 \/ /\ messages'[x][i].role = "assistant"
                    /\ messages'[x][i].id = <<messages'[x][i].run, i>>
  PROVE  MessagesOk'
<1> SUFFICES ASSUME NEW x \in Sessions, NEW i \in DOMAIN messages'[x]
             PROVE  /\ run'[messages'[x][i].run].session = x
                    /\ messages'[x][i].role = "user" =>
                         \A j \in DOMAIN messages'[x] : messages'[x][j].run = messages'[x][i].run => i <= j
                    /\ messages'[x][i].role = "user" => messages'[x][i].id \in Questions
                    /\ messages'[x][i].role = "assistant" => messages'[x][i].id = <<messages'[x][i].run, i>>
  BY DEF MessagesOk
<1>1. CASE i \notin DOMAIN messages[x]
  BY <1>1
<1>2. CASE i \in DOMAIN messages[x]
  <2>1. Len(messages[x]) \in Nat /\ DOMAIN messages[x] = 1 .. Len(messages[x])
    BY MessageTypes DEF CInv
  <2>2. \A j \in DOMAIN messages[x] : messages'[x][j] = messages[x][j]
    BY <2>1 DEF Grows
  <2>3. /\ run[messages[x][i].run].session = x /\ messages[x][i].run \in Runs
        /\ messages[x][i].role = "user" =>
             \A j \in DOMAIN messages[x] : messages[x][j].run = messages[x][i].run => i <= j
        /\ messages[x][i].role = "user" => messages[x][i].id \in Questions
        /\ messages[x][i].role = "assistant" => messages[x][i].id = <<messages[x][i].run, i>>
    BY <1>2, MessageTypes DEF CInv, MessagesOk
  <2>4. run'[messages[x][i].run].session = x
    <3>1. run[messages[x][i].run] # Unasked
      BY <2>3, RunTypes DEF CInv, Asked
    <3> QED BY <2>3, <3>1 DEF SessionsKept
  <2>5. ASSUME messages[x][i].role = "user", NEW j \in DOMAIN messages'[x],
               messages'[x][j].run = messages[x][i].run
        PROVE  i <= j
    <3>1. CASE j \in DOMAIN messages[x]
      BY <2>2, <2>3, <2>5, <3>1
    <3>2. CASE j \notin DOMAIN messages[x]
      <4>1. j > Len(messages[x]) /\ j \in Nat
        BY <2>5, <3>2
      <4> QED BY <1>2, <2>1, <4>1
    <3> QED BY <3>1, <3>2
  <2> QED BY <1>2, <2>2, <2>3, <2>4, <2>5
<1> QED
  BY <1>1, <1>2

\* The question of a run is its first message.
LEMMA SayKeeps ==
  ASSUME CInv, NEW s \in Sessions, NEW m \in Messages, Say(s, m), SessionsKept,
         run'[m.run].session = s, m.role = "user", m.id \in Questions, run[m.run] = Unasked
  PROVE  MessagesTyped' /\ MessagesOk' /\ \A x \in Sessions : Grows(x)
<1>1. /\ MessagesTyped' /\ \A x \in Sessions : Grows(x)
      /\ \A x \in Sessions : x # s => messages'[x] = messages[x]
      /\ \A i \in DOMAIN messages'[s] :
           i \in DOMAIN messages[s] \/ (messages'[s][i] = m /\ i = Len(messages[s]) + 1)
  BY AddedOne DEF CInv
<1>2. ASSUME NEW x \in Sessions, NEW i \in DOMAIN messages'[x], i \notin DOMAIN messages[x]
      PROVE  /\ x = s /\ i > Len(messages[s])
             /\ messages'[x][i].run = m.run /\ messages'[x][i].role = "user" /\ messages'[x][i].id \in Questions
             /\ \A j \in DOMAIN messages[x] : messages[x][j].run # m.run
             /\ \A j \in DOMAIN messages'[x] : j \in DOMAIN messages[x] \/ j = i
  <2>1. x = s
    BY <1>1, <1>2
  <2>2. messages'[x][i] = m /\ i = Len(messages[s]) + 1 /\ Len(messages[s]) \in Nat
    BY <1>1, <1>2, <2>1, MessageTypes DEF CInv
  <2>3. ASSUME NEW j \in DOMAIN messages[s] PROVE messages[s][j].run # m.run
    <3>1. run[messages[s][j].run].session = s /\ messages[s][j].run \in Runs
      BY <2>3, MessageTypes DEF CInv, MessagesOk
    <3>2. run[messages[s][j].run] # Unasked
      BY <3>1, RunTypes DEF CInv, Asked
    <3> QED BY <3>2
  <2>4. \A j \in DOMAIN messages'[s] : j \in DOMAIN messages[s] \/ j = i
    BY <1>1, <2>2
  <2> QED BY <2>1, <2>2, <2>3, <2>4
<1>3. ASSUME NEW x \in Sessions, NEW i \in DOMAIN messages'[x]
      PROVE  \/ i \in DOMAIN messages[x]
             \/ /\ run'[messages'[x][i].run].session = x
                /\ messages'[x][i].role = "user" /\ messages'[x][i].id \in Questions
                /\ \A j \in DOMAIN messages'[x] : messages'[x][j].run = messages'[x][i].run => i <= j
  <2> SUFFICES ASSUME i \notin DOMAIN messages[x]
               PROVE  /\ run'[messages'[x][i].run].session = x
                      /\ messages'[x][i].role = "user" /\ messages'[x][i].id \in Questions
                      /\ \A j \in DOMAIN messages'[x] : messages'[x][j].run = messages'[x][i].run => i <= j
    OBVIOUS
  <2>1. /\ x = s /\ messages'[x][i].run = m.run
        /\ messages'[x][i].role = "user" /\ messages'[x][i].id \in Questions
        /\ \A j \in DOMAIN messages[x] : messages[x][j].run # m.run
        /\ \A j \in DOMAIN messages'[x] : j \in DOMAIN messages[x] \/ j = i
    BY <1>2, <1>3
  <2>2. \A j \in DOMAIN messages[x] : messages'[x][j] = messages[x][j]
    BY <1>1, MessageTypes DEF CInv, Grows
  <2>3. i \in Nat
    BY <1>1, <1>3 DEF MessagesTyped
  <2>4. \A j \in DOMAIN messages'[x] : messages'[x][j].run = messages'[x][i].run => j = i
    BY <2>1, <2>2
  <2>5. run'[m.run].session = x
    BY <2>1
  <2> QED BY <2>1, <2>3, <2>4, <2>5
<1>4. \A x \in Sessions : \A i \in DOMAIN messages'[x] : i \in DOMAIN messages[x] \/ i > Len(messages[x])
  BY <1>2
<1> QED
  BY <1>1, <1>3, <1>4, MoreMessages DEF MessagesTyped

\* What is put after a sequence of messages.
LEMMA Concat ==
  ASSUME NEW D, NEW q \in Seq(D), NEW t \in Seq(D)
  PROVE  /\ q \o t \in Seq(D) /\ Len(q \o t) = Len(q) + Len(t) /\ DOMAIN (q \o t) = 1 .. (Len(q) + Len(t))
         /\ \A i \in 1 .. Len(q) : (q \o t)[i] = q[i]
         /\ \A i \in 1 .. Len(t) : (q \o t)[Len(q) + i] = t[i]
OBVIOUS

LEMMA DraftTyped ==
  ASSUME NEW r \in Runs, NEW k \in Nat
  PROVE  /\ Message(r, "assistant", <<r, k>>) \in Messages
         /\ Message(r, "assistant", <<r, k>>).run = r
         /\ Message(r, "assistant", <<r, k>>).role = "assistant"
         /\ Message(r, "assistant", <<r, k>>).id = <<r, k>>
<1>1. <<r, k>> \in Questions \cup (Runs \X Nat)
  OBVIOUS
<1> DEFINE id == <<r, k>>
<1> HIDE DEF id
<1>2. id \in Questions \cup (Runs \X Nat)
  BY <1>1 DEF id
<1>3. /\ Message(r, "assistant", id) \in Messages /\ Message(r, "assistant", id).run = r
      /\ Message(r, "assistant", id).role = "assistant" /\ Message(r, "assistant", id).id = id
  BY <1>2 DEF Message, Messages
<1> QED
  BY <1>3 DEF id

\* The drafts of a run come last in its session, with new ids.
LEMMA DraftsAdd ==
  ASSUME CInv, NEW r \in Runs, run[r] # Unasked, Drafts(r)
  PROVE  /\ MessagesTyped' /\ \A x \in Sessions : Grows(x)
         /\ \A x \in Sessions : \A i \in DOMAIN messages'[x] :
              \/ i \in DOMAIN messages[x]
              \/ /\ x = run[r].session /\ i > Len(messages[x])
                 /\ messages'[x][i].run = r /\ messages'[x][i].role = "assistant"
                 /\ messages'[x][i].id = <<r, i>>
<1> DEFINE s == run[r].session
           q == messages[s]
           L == Len(q)
<1>1. s \in Sessions
  BY RunTypes DEF CInv
<1>2. messages \in [Sessions -> Seq(Messages)] /\ q \in Seq(Messages) /\ L \in Nat /\ DOMAIN q = 1 .. L
  BY <1>1 DEF CInv, TypeOK
<1>3. PICK n \in 0 .. MaxMessages : messages' = [messages EXCEPT ![s] = @ \o Drafted(r, @, n)]
  BY DEF Drafts
<1> DEFINE t == Drafted(r, q, n)
<1>4. n \in Nat
  BY <1>3, Limits
<1>5. /\ t \in Seq(Messages) /\ Len(t) = n
      /\ \A j \in 1 .. n : t[j].run = r /\ t[j].role = "assistant" /\ t[j].id = <<r, L + j>>
  <2>1. t = [j \in 1 .. n |-> Message(r, "assistant", <<r, L + j>>)]
    BY DEF Drafted
  <2> HIDE DEF t, L
  <2>2. \A j \in 1 .. n : t[j] = Message(r, "assistant", <<r, L + j>>) /\ L + j \in Nat
    BY <1>2, <1>4, <2>1
  <2>3. ASSUME NEW j \in 1 .. n
        PROVE  /\ t[j] \in Messages
               /\ t[j].run = r /\ t[j].role = "assistant" /\ t[j].id = <<r, L + j>>
    <3> DEFINE k == L + j
    <3>1. k \in Nat /\ t[j] = Message(r, "assistant", <<r, k>>)
      BY <2>2, <2>3
    <3> HIDE DEF k
    <3>2. /\ Message(r, "assistant", <<r, k>>) \in Messages
          /\ Message(r, "assistant", <<r, k>>).run = r
          /\ Message(r, "assistant", <<r, k>>).role = "assistant"
          /\ Message(r, "assistant", <<r, k>>).id = <<r, k>>
      BY <3>1, DraftTyped
    <3>3. /\ t[j] \in Messages
          /\ t[j].run = r /\ t[j].role = "assistant" /\ t[j].id = <<r, k>>
      BY <3>1, <3>2
    <3> QED BY <3>3 DEF k
  <2>4. t \in Seq(Messages) /\ Len(t) = n
    <3>1. t \in [1 .. n -> Messages]
      BY <2>1, <2>3
    <3> QED BY <1>4, <3>1
  <2> QED BY <2>3, <2>4
<1>6. messages' = [messages EXCEPT ![s] = q \o t]
  BY <1>2, <1>3
<1> HIDE DEF t
<1>7. /\ q \o t \in Seq(Messages) /\ Len(q \o t) = L + n /\ DOMAIN (q \o t) = 1 .. (L + n)
      /\ \A i \in 1 .. L : (q \o t)[i] = q[i]
      /\ \A i \in 1 .. n : (q \o t)[L + i] = t[i]
  <2>1. /\ q \o t \in Seq(Messages) /\ Len(q \o t) = Len(q) + Len(t) /\ DOMAIN (q \o t) = 1 .. (Len(q) + Len(t))
        /\ \A i \in 1 .. Len(q) : (q \o t)[i] = q[i]
        /\ \A i \in 1 .. Len(t) : (q \o t)[Len(q) + i] = t[i]
    <3> HIDE DEF q
    <3>1. q \in Seq(Messages) /\ t \in Seq(Messages)
      BY <1>2, <1>5
    <3> QED BY <3>1, Concat
  <2> QED BY <1>5, <2>1
<1>8. /\ messages' \in [Sessions -> Seq(Messages)] /\ messages'[s] = q \o t
      /\ \A x \in Sessions : x # s => messages'[x] = messages[x]
  BY <1>1, <1>2, <1>6, <1>7
<1>9. ASSUME NEW i \in 1 .. (L + n), i \notin 1 .. L
      PROVE  /\ i > L /\ messages'[s][i].run = r /\ messages'[s][i].role = "assistant"
             /\ messages'[s][i].id = <<r, i>>
  <2>1. i - L \in 1 .. n /\ L + (i - L) = i /\ i > L
    BY <1>2, <1>4, <1>9
  <2>2. messages'[s][i] = t[i - L]
    BY <1>7, <1>8, <2>1
  <2> QED BY <1>5, <2>1, <2>2
<1>10. \A x \in Sessions : Grows(x)
  <2>1. Grows(s)
    BY <1>2, <1>4, <1>7, <1>8 DEF Grows
  <2>2. \A x \in Sessions : Len(messages[x]) \in Nat
    BY <1>2
  <2>3. \A x \in Sessions : x # s => Grows(x)
    BY <1>8, <2>2 DEF Grows
  <2> QED BY <2>1, <2>3
<1>11. ASSUME NEW i \in 1 .. (L + n), NEW j \in 1 .. (L + n), i < j
       PROVE  messages'[s][i].id # messages'[s][j].id
  <2>1. CASE j \in 1 .. L
    <3>1. i \in 1 .. L
      BY <1>2, <1>4, <1>11, <2>1
    <3>2. messages'[s][i] = q[i] /\ messages'[s][j] = q[j]
      BY <1>7, <1>8, <2>1, <3>1
    <3>3. q[i].id = q[j].id => i = j
      BY <1>1, <1>2, <2>1, <3>1 DEF CInv, TypeOK
    <3>4. i # j
      BY <1>2, <1>4, <1>11
    <3> QED BY <3>2, <3>3, <3>4
  <2>2. CASE j \notin 1 .. L
    <3>1. messages'[s][j].id = <<r, j>> /\ j \in Nat
      BY <1>2, <1>4, <1>9, <2>2
    <3>2. CASE i \in 1 .. L
      <4>1. messages'[s][i] = q[i]
        BY <1>7, <1>8, <3>2
      <4>2. /\ q[i].role \in {"user", "assistant"}
            /\ q[i].role = "user" => q[i].id \in Questions
            /\ q[i].role = "assistant" => q[i].id = <<q[i].run, i>>
        BY <1>1, <1>2, <3>2, MessageTypes DEF CInv, MessagesOk
      <4>3. <<r, j>> \notin Questions
        <5>1. <<r, j>> \in Runs \X Nat
          BY <3>1
        <5> QED BY <5>1, QuestionsOk
      <4>4. <<q[i].run, i>> # <<r, j>>
        <5>1. i # j
          BY <1>2, <1>4, <1>11
        <5> QED BY <5>1
      <4> QED BY <3>1, <4>1, <4>2, <4>3, <4>4
    <3>3. CASE i \notin 1 .. L
      <4>1. messages'[s][i].id = <<r, i>>
        BY <1>9, <3>3
      <4>2. i # j
        BY <1>2, <1>4, <1>11
      <4> QED BY <3>1, <4>1, <4>2
    <3> QED BY <3>2, <3>3
  <2> QED BY <2>1, <2>2
<1>12. MessagesTyped'
  <2>1. ASSUME NEW x \in Sessions, NEW i \in DOMAIN messages'[x], NEW j \in DOMAIN messages'[x],
               messages'[x][i].id = messages'[x][j].id
        PROVE  i = j
    <3>1. CASE x = s
      <4>1. i \in 1 .. (L + n) /\ j \in 1 .. (L + n)
        BY <1>7, <1>8, <2>1, <3>1
      <4>2. i \in Int /\ j \in Int
        BY <4>1
      <4>3. ~ (i < j) /\ ~ (j < i)
        BY <1>11, <2>1, <3>1, <4>1
      <4> QED BY <4>2, <4>3
    <3>2. CASE x # s
      BY <1>8, <2>1, <3>2 DEF CInv, TypeOK
    <3> QED BY <3>1, <3>2
  <2> QED BY <1>8, <2>1 DEF MessagesTyped
<1>13. ASSUME NEW x \in Sessions, NEW i \in DOMAIN messages'[x], i \notin DOMAIN messages[x]
       PROVE  /\ x = s /\ i > Len(messages[x])
              /\ messages'[x][i].run = r /\ messages'[x][i].role = "assistant"
              /\ messages'[x][i].id = <<r, i>>
  <2>1. x = s
    BY <1>8, <1>13
  <2>2. i \in 1 .. (L + n) /\ i \notin 1 .. L
    BY <1>2, <1>7, <1>8, <1>13, <2>1
  <2> QED BY <1>9, <2>1, <2>2
<1> QED
  BY <1>10, <1>12, <1>13

\* So it is when the run wrote its drafts.
LEMMA DraftsKeep ==
  ASSUME CInv, NEW r \in Runs, run[r] # Unasked, Drafts(r), SessionsKept
  PROVE  MessagesTyped' /\ MessagesOk' /\ \A x \in Sessions : Grows(x)
<1>1. /\ MessagesTyped' /\ \A x \in Sessions : Grows(x)
      /\ \A x \in Sessions : \A i \in DOMAIN messages'[x] :
           \/ i \in DOMAIN messages[x]
           \/ /\ x = run[r].session /\ i > Len(messages[x])
              /\ messages'[x][i].run = r /\ messages'[x][i].role = "assistant"
              /\ messages'[x][i].id = <<r, i>>
  BY DraftsAdd
<1>2. run'[r].session = run[r].session
  BY DEF SessionsKept
<1>3. \A x \in Sessions : \A i \in DOMAIN messages'[x] :
        \/ i \in DOMAIN messages[x]
        \/ /\ i > Len(messages[x]) /\ run'[messages'[x][i].run].session = x
           /\ messages'[x][i].role = "assistant" /\ messages'[x][i].id = <<messages'[x][i].run, i>>
  BY <1>1, <1>2
<1> QED
  BY <1>1, <1>3, MoreMessages DEF MessagesTyped

Stages == {"none", "working", "flushing"}

RunRows == [session : Sessions, question : Questions,
            status : {"running", "suspended", "over", "refused", "deleted"}]

LEMMA StatusKept ==
  ASSUME TypeOK, NEW r \in Runs, run[r] # Unasked,
         NEW status \in {"running", "suspended", "over"}, Status(r, status)
  PROVE  /\ run' \in [Runs -> RunRows \cup {Unasked}]
         /\ SessionsKept /\ run'[r].status = status
         /\ \A o \in Runs : o # r => run'[o] = run[o]
<1>1. run \in [Runs -> RunRows \cup {Unasked}]
  BY DEF TypeOK, RunRows
<1>2. run[r] \in RunRows
  BY <1>1
<1>3. [run[r] EXCEPT !.status = status] \in RunRows /\ Unasked \notin RunRows
  BY <1>2, RootsOk DEF RunRows, Unasked
<1>4. \A o \in Runs : run'[o] = IF o = r THEN [run[r] EXCEPT !.status = status] ELSE run[o]
  BY <1>1 DEF Status
<1>5. run' \in [Runs -> RunRows \cup {Unasked}]
  BY <1>1, <1>3 DEF Status
<1>6. [run[r] EXCEPT !.status = status].session = run[r].session /\ [run[r] EXCEPT !.status = status].status = status
  BY <1>2 DEF RunRows
<1> QED
  BY <1>3, <1>4, <1>5, <1>6 DEF SessionsKept

-----------------------------------------------------------------------------
(* The steps of runs. *)

\* TypeOK', of a step that leaves the sessions and branches.
LEMMA TypeKept ==
  ASSUME TypeOK, UNCHANGED branch, MessagesTyped',
         session' \in [Sessions -> {"none", "live", "deleted"}],
         summaries' \in [Sessions -> SUBSET Summaries],
         run' \in [Runs -> RunRows \cup {Unasked}], job' \in [Runs -> Summaries],
         worker' \in [Runs -> Stages]
  PROVE  TypeOK'
BY DEF TypeOK, MessagesTyped, RunRows, Stages

\* A step of a run that was accepted, and what its worker wrote.
LEMMA StatusStep ==
  ASSUME CInv, NEW r \in Runs, run[r].status \in {"running", "suspended", "over"},
         UNCHANGED run \/ \E status \in {"running", "suspended", "over"} : Status(r, status),
         UNCHANGED messages \/ Drafts(r), UNCHANGED <<rows, summaries>>,
         NEW stage \in Stages, worker' = [worker EXCEPT ![r] = stage],
         job' \in [Runs -> Summaries],
         \A o \in Runs : job'[o] # NoJob => job'[o] = job[o] \/ (o = r /\ Covers(job'[r], Len(messages'[run[r].session])))
  PROVE  CInv'
<1>1. TypeOK /\ run[r] # Unasked
  BY DEF CInv, Unasked
<1>2. /\ run' \in [Runs -> RunRows \cup {Unasked}]
      /\ SessionsKept /\ run'[r].status \in {"running", "suspended", "over"}
      /\ \A o \in Runs : o # r => run'[o] = run[o]
  <2>1. CASE UNCHANGED run
    BY <1>1, <2>1 DEF TypeOK, RunRows, SessionsKept
  <2>2. CASE \E status \in {"running", "suspended", "over"} : Status(r, status)
    <3>1. PICK status \in {"running", "suspended", "over"} : Status(r, status)
      BY <2>2
    <3> QED BY <1>1, <3>1, StatusKept
  <2> QED BY <2>1, <2>2
<1>3. MessagesTyped' /\ MessagesOk' /\ \A x \in Sessions : Grows(x)
  <2>1. CASE UNCHANGED messages
    <3>1. MessagesTyped'
      BY <1>1, <2>1 DEF TypeOK, MessagesTyped
    <3> QED BY <1>2, <2>1, <3>1, MessagesKept
  <2>2. CASE Drafts(r)
    BY <1>1, <1>2, <2>2, DraftsKeep
  <2> QED BY <2>1, <2>2
<1>4. worker' \in [Runs -> Stages] /\ WorkerOk'
  <2>1. worker \in [Runs -> Stages]
    BY <1>1 DEF TypeOK, Stages
  <2>2. worker' \in [Runs -> Stages] /\ \A o \in Runs : o # r => worker'[o] = worker[o]
    BY <2>1
  <2> QED BY <1>2, <2>2 DEF CInv, WorkerOk
<1>5. TypeOK'
  <2>1. /\ session' \in [Sessions -> {"none", "live", "deleted"}] /\ UNCHANGED branch
        /\ summaries' \in [Sessions -> SUBSET Summaries]
    BY <1>1 DEF TypeOK, rows
  <2> QED BY <1>1, <1>2, <1>3, <1>4, <2>1, TypeKept
<1>6. \A o \in Runs : run'[o].status # "deleted" => run[o].status # "deleted"
  BY <1>2
<1>7. \A o \in Runs : job'[o] # NoJob =>
        job'[o] = job[o] \/ (run'[o] # Unasked /\ Covers(job'[o], Len(messages'[run'[o].session])))
  BY <1>1, <1>2 DEF SessionsKept
<1>8. UNCHANGED branch /\ \A s \in Sessions : Live(s) => Live(s)'
  BY DEF rows, Live
<1>9. \A s \in Sessions : \A x \in summaries'[s] : x \in summaries[s] \/ Covers(x, Len(messages'[s]))
  OBVIOUS
<1> QED
  BY <1>2, <1>3, <1>4, <1>5, <1>6, <1>7, <1>8, <1>9, WorkKept

\* A step that starts no summary.
LEMMA PlainStep ==
  ASSUME CInv, NEW r \in Runs, run[r].status \in {"running", "suspended", "over"},
         UNCHANGED run \/ \E status \in {"running", "suspended", "over"} : Status(r, status),
         UNCHANGED messages \/ Drafts(r), UNCHANGED <<rows, summaries, job>>,
         NEW stage \in Stages, worker' = [worker EXCEPT ![r] = stage]
  PROVE  CInv'
<1>1. job' \in [Runs -> Summaries] /\ \A o \in Runs : job'[o] = job[o]
  BY DEF CInv, TypeOK
<1> QED
  BY <1>1, StatusStep

\* A worker is there.
LEMMA AtWork ==
  ASSUME CInv, NEW r \in Runs, worker[r] # "none"
  PROVE  run[r].status \in {"running", "suspended", "over"}
BY DEF CInv, WorkerOk

LEMMA SuspendKeeps == ASSUME CInv, NEW r \in Runs, Suspend(r) PROVE CInv'
<1>1. run[r].status \in {"running", "suspended", "over"} /\ worker' = [worker EXCEPT ![r] = "none"]
  BY AtWork DEF Suspend, Goes
<1> QED
  BY <1>1, PlainStep DEF Suspend, Stages

LEMMA ResumeKeeps == ASSUME CInv, NEW r \in Runs, Resume(r) PROVE CInv'
<1>1. /\ worker' = [worker EXCEPT ![r] = "working"] /\ Status(r, "running")
      /\ UNCHANGED messages /\ UNCHANGED <<rows, summaries, job>>
  BY DEF Resume, Goes, texts
<1> QED
  BY <1>1, PlainStep DEF Resume, Stages

LEMMA FailKeeps == ASSUME CInv, NEW r \in Runs, Fail(r) PROVE CInv'
<1>1. run[r].status \in {"running", "suspended", "over"} /\ worker' = [worker EXCEPT ![r] = "none"]
  BY AtWork DEF Fail, Goes
<1> QED
  BY <1>1, PlainStep DEF Fail, Stages

\* The worker goes and leaves the row, or the row ends and leaves the worker.
LEMMA QuietKeeps == ASSUME CInv, NEW r \in Runs, Abandon(r) \/ Reclaim(r) PROVE CInv'
<1>1. UNCHANGED messages /\ UNCHANGED <<rows, summaries, job>>
  BY DEF Abandon, Reclaim, texts
<1>2. CASE Abandon(r)
  <2>1. /\ run[r].status \in {"running", "suspended", "over"}
        /\ worker' = [worker EXCEPT ![r] = "none"] /\ UNCHANGED run
    BY <1>2, AtWork DEF Abandon, Goes
  <2> QED BY <1>1, <2>1, PlainStep DEF Stages
<1>3. CASE Reclaim(r)
  <2>1. worker[r] \in Stages /\ worker' = [worker EXCEPT ![r] = worker[r]]
    BY <1>3 DEF CInv, TypeOK, Stages, Reclaim
  <2>2. run[r].status \in {"running", "suspended", "over"} /\ Status(r, "over")
    BY <1>3 DEF Reclaim
  <2> QED BY <1>1, <2>1, <2>2, PlainStep
<1> QED
  BY <1>2, <1>3

LEMMA CompleteKeeps == ASSUME CInv, NEW r \in Runs, Complete(r) PROVE CInv'
<1>1. /\ run[r].status \in {"running", "suspended", "over"} /\ worker' = [worker EXCEPT ![r] = "none"]
      /\ UNCHANGED messages /\ UNCHANGED <<rows, summaries, job>>
  BY AtWork DEF Complete, Goes, texts
<1> QED
  BY <1>1, PlainStep DEF Complete, Stages

\* The summary a new one builds on covers its range.
LEMMA LatestCovers ==
  ASSUME CInv, NEW s \in Sessions
  PROVE  Latest(s) \in Summaries /\ (Latest(s) = NoSummary \/ Covers(Latest(s), Len(messages[s])))
<1>1. summaries[s] \subseteq Summaries /\ Len(messages[s]) \in Nat
  BY MessageTypes DEF CInv, TypeOK
<1>2. CASE summaries[s] = {}
  <2>1. NoSummary \in Summaries
    BY DEF NoSummary, Summaries
  <2> QED BY <1>2, <2>1 DEF Latest
<1>3. CASE summaries[s] # {}
  <2> DEFINE T == {x.to : x \in summaries[s]}
             n == Len(messages[s])
  <2>1. \A x \in summaries[s] : x.to \in Nat /\ Covers(x, n)
    BY <1>1 DEF CInv, SummariesOk, Summaries
  <2>2. \A x \in summaries[s] : x.to \in 0 .. n
    BY <1>1, <2>1 DEF Covers
  <2>3. T \subseteq 0 .. n /\ T # {}
    BY <1>3, <2>2
  <2>4. \E t \in T : \A u \in T : u <= t
    <3> HIDE DEF T, n
    <3> QED BY <1>1, <2>3, Greatest DEF n
  <2>5. \E x \in summaries[s] : \A y \in summaries[s] : y.to <= x.to
    BY <2>4
  <2>6. Latest(s) \in summaries[s]
    BY <1>3, <2>5 DEF Latest
  <2> QED BY <1>1, <2>1, <2>6
<1> QED
  BY <1>2, <1>3

LEMMA FinishKeeps == ASSUME CInv, NEW r \in Runs, Finish(r) PROVE CInv'
<1> DEFINE s == run[r].session
           x == SummaryOf(Latest(s), Len(messages'[s]))
<1>1. run[r] # Unasked /\ s \in Sessions /\ TypeOK
  <2>1. run[r].status \in {"running", "suspended", "over"}
    BY DEF CInv, WorkerOk, Finish
  <2> QED BY <2>1, RunTypes DEF CInv, Unasked
<1>2. SessionsKept
  BY DEF SessionsKept, Finish
<1>3. MessagesTyped' /\ \A y \in Sessions : Grows(y)
  BY <1>1, <1>2, DraftsKeep DEF Finish
<1>4. Len(messages[s]) \in Nat /\ Len(messages'[s]) \in Nat /\ Len(messages[s]) <= Len(messages'[s])
  BY <1>1, <1>3 DEF MessagesTyped, Grows, TypeOK
<1>5. Latest(s) \in Summaries /\ (Latest(s) = NoSummary \/ Covers(Latest(s), Len(messages'[s])))
  <2>1. Latest(s) \in Summaries /\ (Latest(s) = NoSummary \/ Covers(Latest(s), Len(messages[s])))
    BY <1>1, LatestCovers
  <2> QED BY <1>4, <2>1, CoversMore
<1>6. x # NoJob => x \in Summaries /\ Covers(x, Len(messages'[s]))
  BY <1>4, <1>5, SummaryMade
<1>7. x \in Summaries
  <2>1. NoJob \in Summaries
    BY DEF NoJob, NoSummary, Summaries
  <2> QED BY <1>6, <2>1
<1>8. job \in [Runs -> Summaries] /\ job' = [job EXCEPT ![r] = x]
  BY <1>1 DEF TypeOK, Finish
<1> HIDE DEF x
<1>9. job' \in [Runs -> Summaries] /\ job'[r] = x /\ \A o \in Runs : o # r => job'[o] = job[o]
  BY <1>7, <1>8
<1>10. \A o \in Runs : job'[o] # NoJob => job'[o] = job[o] \/ (o = r /\ Covers(job'[r], Len(messages'[s])))
  BY <1>6, <1>9
<1>11. run[r].status \in {"running", "suspended", "over"} /\ worker' = [worker EXCEPT ![r] = "flushing"]
  BY DEF CInv, WorkerOk, Finish, Goes
<1>12. UNCHANGED run /\ Drafts(r) /\ UNCHANGED <<rows, summaries>>
  BY DEF Finish
<1> QED
  BY <1>9, <1>10, <1>11, <1>12, StatusStep DEF Stages

\* A summary is stored or thrown away.
LEMMA SummarizedKeeps ==
  ASSUME CInv, NEW r \in Runs, Summarized(r) \/ FlushTimesOut(r)
  PROVE  CInv'
<1>1. TypeOK /\ job[r] # NoJob /\ job' = [job EXCEPT ![r] = NoJob] /\ UNCHANGED <<session, branch, messages, run, worker>>
  BY DEF CInv, Summarized, FlushTimesOut, rows, texts
<1>2. job' \in [Runs -> Summaries] /\ \A o \in Runs : job'[o] # NoJob => job'[o] = job[o]
  <2>1. NoJob \in Summaries
    BY DEF NoJob, NoSummary, Summaries
  <2>2. job \in [Runs -> Summaries]
    BY <1>1 DEF TypeOK
  <2>3. \A o \in Runs : job'[o] = IF o = r THEN NoJob ELSE job[o]
    BY <1>1, <2>2
  <2> QED BY <1>1, <2>1, <2>2, <2>3
<1>3. SessionsKept
  BY <1>1 DEF SessionsKept
<1>4. MessagesTyped' /\ MessagesOk' /\ \A s \in Sessions : Grows(s)
  BY <1>1, <1>3, MessagesKept DEF MessagesTyped, TypeOK
<1>5. /\ summaries' \in [Sessions -> SUBSET Summaries]
      /\ \A s \in Sessions : \A x \in summaries'[s] : x \in summaries[s] \/ Covers(x, Len(messages'[s]))
  <2>1. summaries \in [Sessions -> SUBSET Summaries] /\ job[r] \in Summaries
    BY <1>1 DEF TypeOK
  <2>2. CASE UNCHANGED summaries
    BY <2>1, <2>2
  <2>3. CASE /\ run[r].status # "deleted"
             /\ summaries' = [summaries EXCEPT ![run[r].session] = @ \cup {job[r]}]
    <3>1. run[r].session \in Sessions /\ Covers(job[r], Len(messages[run[r].session]))
      BY <1>1, <2>3, RunTypes DEF CInv, JobOk
    <3>2. \A s \in Sessions : summaries'[s] =
            IF s = run[r].session THEN summaries[s] \cup {job[r]} ELSE summaries[s]
      BY <2>1, <2>3
    <3>3. summaries' \in [Sessions -> SUBSET Summaries]
      BY <2>1, <2>3
    <3> QED BY <1>1, <3>1, <3>2, <3>3
  <2> QED BY <2>2, <2>3 DEF Summarized, FlushTimesOut, texts
<1>6. TypeOK'
  <2>1. session' \in [Sessions -> {"none", "live", "deleted"}] /\ UNCHANGED branch
        /\ run' \in [Runs -> RunRows \cup {Unasked}] /\ worker' \in [Runs -> Stages]
    BY <1>1 DEF TypeOK, RunRows, Stages
  <2> QED BY <1>1, <1>2, <1>4, <1>5, <2>1, TypeKept
<1>7. UNCHANGED branch /\ \A s \in Sessions : Live(s) => Live(s)'
  BY <1>1 DEF Live
<1>8. \A o \in Runs : run'[o].status # "deleted" => run[o].status # "deleted"
  BY <1>1
<1>9. WorkerOk'
  BY <1>1 DEF CInv, WorkerOk
<1> QED
  BY <1>2, <1>3, <1>4, <1>5, <1>6, <1>7, <1>8, <1>9, WorkKept

LEMMA WorkKeeps == ASSUME CInv, NEW r \in Runs, Work(r) PROVE CInv'
BY SuspendKeeps, ResumeKeeps, FailKeeps, QuietKeeps, FinishKeeps, SummarizedKeeps, CompleteKeeps DEF Work

LEMMA CrashKeeps == ASSUME CInv, Crash PROVE CInv'
<1>1. TypeOK /\ UNCHANGED <<session, branch, messages, summaries, run>>
  BY DEF CInv, Crash, rows, texts
<1>2. SessionsKept
  BY <1>1 DEF SessionsKept
<1>3. /\ job' \in [Runs -> Summaries] /\ \A r \in Runs : job'[r] = NoJob
      /\ worker' \in [Runs -> Stages] /\ WorkerOk'
  BY DEF Crash, NoJob, NoSummary, Summaries, Stages, WorkerOk
<1>4. MessagesTyped' /\ MessagesOk' /\ \A s \in Sessions : Grows(s)
  BY <1>1, <1>2, MessagesKept DEF MessagesTyped, TypeOK
<1>5. TypeOK'
  <2>1. /\ session' \in [Sessions -> {"none", "live", "deleted"}] /\ UNCHANGED branch
        /\ summaries' \in [Sessions -> SUBSET Summaries] /\ run' \in [Runs -> RunRows \cup {Unasked}]
    BY <1>1 DEF TypeOK, RunRows
  <2> QED BY <1>1, <1>3, <1>4, <2>1, TypeKept
<1>6. UNCHANGED branch /\ \A s \in Sessions : Live(s) => Live(s)'
  BY <1>1 DEF Live
<1>7. \A s \in Sessions : \A x \in summaries'[s] : x \in summaries[s] \/ Covers(x, Len(messages'[s]))
  BY <1>1
<1>8. \A r \in Runs : run'[r].status # "deleted" => run[r].status # "deleted"
  BY <1>1
<1> QED
  BY <1>2, <1>3, <1>4, <1>5, <1>6, <1>7, <1>8, WorkKept

LEMMA AskKeeps ==
  ASSUME CInv, NEW r \in Runs, NEW s \in Sessions, NEW q \in Questions,
         NEW status \in {"running", "refused"}, Ask(r, s, q, status)
  PROVE  CInv'
<1> DEFINE new == [session |-> s, status |-> status, question |-> q]
           m   == Message(r, "user", q)
<1>1. TypeOK /\ run[r] = Unasked /\ UNCHANGED <<branch, summaries, job>>
  BY DEF CInv, Ask, Open
<1>2. new \in RunRows /\ Unasked \notin RunRows /\ new.session = s
  BY RootsOk DEF RunRows, Unasked
<1>3. run \in [Runs -> RunRows \cup {Unasked}] /\ run' = [run EXCEPT ![r] = new]
  BY <1>1 DEF TypeOK, RunRows, Ask
<1> HIDE DEF new
<1>4. run' \in [Runs -> RunRows \cup {Unasked}] /\ run'[r] = new /\ \A o \in Runs : o # r => run'[o] = run[o]
  BY <1>2, <1>3
<1>5. SessionsKept /\ \A o \in Runs : run'[o].status # "deleted" => run[o].status # "deleted"
  BY <1>1, <1>4 DEF SessionsKept, Unasked
<1>6. MessagesTyped' /\ MessagesOk' /\ \A x \in Sessions : Grows(x)
  <2>1. m \in Messages /\ m.run = r /\ m.role = "user" /\ m.id \in Questions /\ Say(s, m)
    BY DEF Ask, Message, Messages
  <2> HIDE DEF m
  <2> QED BY <1>1, <1>2, <1>4, <1>5, <2>1, SayKeeps
<1>10. worker' \in [Runs -> Stages] /\ WorkerOk'
  <2>1. worker \in [Runs -> Stages] /\ new.status = status
    BY <1>1 DEF TypeOK, Stages, new
  <2>2. \A o \in Runs : o # r => worker'[o] = worker[o]
    BY <2>1 DEF Ask, Goes
  <2>3. worker[r] = "none"
    BY <1>1 DEF CInv, WorkerOk, Unasked
  <2>4. worker' \in [Runs -> Stages]
    BY <2>1 DEF Ask, Goes, Stages
  <2>5. status # "running" => worker'[r] = "none"
    BY <2>3 DEF Ask
  <2>6. WorkerOk'
    BY <1>4, <2>1, <2>2, <2>5 DEF CInv, WorkerOk
  <2> QED BY <2>4, <2>6
<1>7. TypeOK'
  <2>1. session' \in [Sessions -> {"none", "live", "deleted"}]
    BY <1>1 DEF TypeOK, Ask, Open
  <2>2. UNCHANGED branch /\ summaries' \in [Sessions -> SUBSET Summaries] /\ job' \in [Runs -> Summaries]
    BY <1>1 DEF TypeOK
  <2> QED BY <1>1, <1>4, <1>6, <1>10, <2>1, <2>2, TypeKept
<1>8. UNCHANGED branch /\ \A x \in Sessions : Live(x) => Live(x)'
  BY <1>1 DEF TypeOK, Ask, Open, Live
<1>9. /\ \A x \in Sessions : \A y \in summaries'[x] : y \in summaries[x] \/ Covers(y, Len(messages'[x]))
      /\ \A o \in Runs : job'[o] = job[o]
  BY <1>1
<1> QED
  BY <1>4, <1>5, <1>6, <1>7, <1>8, <1>9, <1>10, WorkKept

-----------------------------------------------------------------------------
(* Branches and deletion. *)

\* Where a branch forks off: inside the conversation, before all that the run
\* wrote there, or right after its question.
LEMMA ForkAt ==
  ASSUME CInv, NEW r \in Runs, NEW checkpoint \in BOOLEAN, run[r] # Unasked
  PROVE  LET s == run[r].session
             e == IF checkpoint THEN CheckpointEnd(r) ELSE RewriteEnd(r)
         IN  /\ e \in Nat /\ e <= Len(messages[s])
             /\ \A i \in 1 .. e : messages[s][i].run = r => checkpoint /\ messages[s][i].role = "user"
<1> DEFINE s == run[r].session
           asked == {p \in Positions(r) : messages[s][p].role = "user"}
<1>1. s \in Sessions
  BY RunTypes DEF CInv
<1>2. Len(messages[s]) \in Nat /\ DOMAIN messages[s] = 1 .. Len(messages[s])
  BY <1>1, MessageTypes DEF CInv
<1>3. /\ Positions(r) \subseteq 1 .. Len(messages[s])
      /\ \A p \in 1 .. Len(messages[s]) : p \in Positions(r) <=> messages[s][p].run = r
  BY <1>2 DEF Positions
<1>4. /\ RewriteEnd(r) \in Nat /\ RewriteEnd(r) <= Len(messages[s])
      /\ \A i \in 1 .. RewriteEnd(r) : messages[s][i].run # r
  <2>1. CASE Positions(r) = {}
    BY <1>2, <2>1 DEF RewriteEnd
  <2>2. CASE Positions(r) # {}
    <3>1. Positions(r) \subseteq Nat
      BY <1>2, <1>3
    <3>2. Min(Positions(r)) \in Positions(r) /\ \A y \in Positions(r) : Min(Positions(r)) <= y
      BY <2>2, <3>1, MinOf
    <3>3. RewriteEnd(r) = Min(Positions(r)) - 1
      BY <2>2 DEF RewriteEnd
    <3> QED BY <1>2, <1>3, <3>2, <3>3
  <2> QED BY <2>1, <2>2
<1>5. asked # {} => /\ Min(asked) \in Nat /\ Min(asked) <= Len(messages[s])
                    /\ \A i \in 1 .. Min(asked) : messages[s][i].run = r => messages[s][i].role = "user"
  <2> SUFFICES ASSUME asked # {}
               PROVE  /\ Min(asked) \in Nat /\ Min(asked) <= Len(messages[s])
                      /\ \A i \in 1 .. Min(asked) : messages[s][i].run = r => messages[s][i].role = "user"
    OBVIOUS
  <2>1. asked \subseteq Nat /\ asked \subseteq Positions(r) /\ \A p \in asked : messages[s][p].role = "user"
    BY <1>2, <1>3
  <2> HIDE DEF asked
  <2>2. Min(asked) \in asked
    BY <2>1, MinOf
  <2>3. /\ Min(asked) \in 1 .. Len(messages[s]) /\ messages[s][Min(asked)].run = r
        /\ messages[s][Min(asked)].role = "user"
    BY <1>3, <2>1, <2>2
  <2>4. \A j \in 1 .. Len(messages[s]) : messages[s][j].run = r => Min(asked) <= j
    BY <1>1, <1>2, <2>3 DEF CInv, MessagesOk
  <2>5. ASSUME NEW i \in 1 .. Min(asked), messages[s][i].run = r PROVE messages[s][i].role = "user"
    <3>1. i \in 1 .. Len(messages[s]) /\ i <= Min(asked) /\ Min(asked) \in Nat
      BY <1>2, <2>3, <2>5
    <3>2. i = Min(asked)
      BY <2>4, <2>5, <3>1
    <3> QED BY <2>3, <3>2
  <2> QED BY <1>2, <2>3, <2>5
<1>6. CheckpointEnd(r) = IF asked = {} THEN RewriteEnd(r) ELSE Min(asked)
  BY DEF CheckpointEnd
<1> HIDE DEF asked
<1>7. CASE ~ checkpoint
  BY <1>4, <1>7
<1>8. CASE checkpoint /\ asked = {}
  BY <1>4, <1>6, <1>8
<1>9. CASE checkpoint /\ asked # {}
  BY <1>5, <1>6, <1>9
<1> QED
  BY <1>7, <1>8, <1>9

\* A new branch is in no lineage but its own, and no lineage changes.
LEMMA BranchLineages ==
  ASSUME CInv, NEW active \in Sessions, NEW r \in Runs, NEW child \in Sessions, NEW checkpoint \in BOOLEAN,
         Branch(active, r, child, checkpoint), NEW s \in Sessions, Live(s)
  PROVE  /\ child \notin Kin(branch, s) /\ Kin(branch', s) = Kin(branch, s)
         /\ \A c \in Kin(branch, s) : branch'[c] = branch[c]
<1>1. TypeOK /\ BranchOk /\ Closed(branch, Sessions) /\ session[child] = "none"
  BY BranchTypes DEF CInv, Branch
<1>2. \A c \in Sessions : c # child => branch'[c] = branch[c]
  BY <1>1 DEF Branch, TypeOK
<1>3. branch'[child].parent \in Sessions
  <2>1. run[r] # Unasked /\ run[r].session \in Sessions
    BY <1>1, RunTypes DEF Branch, Unasked
  <2>2. branch \in [Sessions -> [parent : Sessions, fork : Runs, checkpoint : BOOLEAN, end : Nat] \cup {NoBranch}]
    BY <1>1 DEF TypeOK
  <2>3. branch'[child].parent = run[r].session
    BY <2>2 DEF Branch
  <2> QED BY <2>1, <2>3
<1>4. Closed(branch', Sessions)
  BY <1>1, <1>2, <1>3 DEF Closed
<1>5. child \notin Kin(branch, s)
  <2>1. ~ Live(child)
    BY <1>1 DEF Live
  <2> QED BY <1>1, <2>1, LiveLineage
<1>6. Kin(branch, s) \subseteq Sessions
  BY <1>1, KinClosed
<1>7. \A c \in Kin(branch, s) : branch'[c] = branch[c]
  BY <1>2, <1>5, <1>6
<1> QED
  BY <1>1, <1>4, <1>5, <1>7, KinSame

LEMMA BranchKeeps ==
  ASSUME CInv, NEW active \in Sessions, NEW r \in Runs, NEW child \in Sessions, NEW checkpoint \in BOOLEAN,
         Branch(active, r, child, checkpoint)
  PROVE  CInv'
<1> DEFINE parent == run[r].session
           end == IF checkpoint THEN CheckpointEnd(r) ELSE RewriteEnd(r)
           new == [parent |-> parent, fork |-> r, checkpoint |-> checkpoint, end |-> end]
<1>1. TypeOK /\ BranchOk /\ UNCHANGED <<messages, summaries, run, worker, job>> /\ Live(active) /\ session[child] = "none"
  BY DEF CInv, Branch, texts
<1>2. run[r] # Unasked /\ parent \in Sessions
  BY <1>1, RunTypes DEF Branch, Unasked
<1>3. /\ end \in Nat /\ end <= Len(messages[parent])
      /\ \A i \in 1 .. end : messages[parent][i].run = r => checkpoint /\ messages[parent][i].role = "user"
  BY <1>2, ForkAt
<1> HIDE DEF end
<1>4. branch' = [branch EXCEPT ![child] = new] /\ session' = [session EXCEPT ![child] = "live"]
  BY DEF Branch, end
<1>5. /\ branch \in [Sessions -> [parent : Sessions, fork : Runs, checkpoint : BOOLEAN, end : Nat] \cup {NoBranch}]
      /\ session \in [Sessions -> {"none", "live", "deleted"}]
  BY <1>1 DEF TypeOK
<1>6. /\ new \in [parent : Sessions, fork : Runs, checkpoint : BOOLEAN, end : Nat]
      /\ new.parent = parent /\ new.fork = r /\ new.checkpoint = checkpoint /\ new.end = end
  BY <1>2, <1>3
<1> HIDE DEF new
<1>7. TypeOK'
  <2>1. branch' \in [Sessions -> [parent : Sessions, fork : Runs, checkpoint : BOOLEAN, end : Nat] \cup {NoBranch}]
    BY <1>4, <1>5, <1>6
  <2>2. session' \in [Sessions -> {"none", "live", "deleted"}]
    BY <1>4, <1>5
  <2> QED BY <1>1, <2>1, <2>2 DEF TypeOK
<1>8. \A c \in Sessions : /\ branch'[c] = IF c = child THEN new ELSE branch[c]
                          /\ session'[c] = IF c = child THEN "live" ELSE session[c]
  BY <1>4, <1>5
<1>9. ~ Live(child) /\ \A a \in Sessions : Live(a) => session'[a] = "live"
  BY <1>1, <1>8 DEF Live
<1>10. ASSUME NEW x \in Sessions, Live(x)
       PROVE  Kin(branch', x) = Kin(branch, x) /\ child \notin Kin(branch, x)
  BY <1>10, BranchLineages
<1>11. Live(parent)
  <2>1. parent \in Kin(branch, active)
    BY Lineages DEF Branch
  <2> QED BY <1>1, <2>1, LiveLineage
<1>12. ASSUME NEW c \in Sessions, branch'[c] # NoBranch
       PROVE  /\ session'[c] = "live" /\ session'[branch'[c].parent] = "live"
              /\ run'[branch'[c].fork].session = branch'[c].parent
              /\ branch'[c].end <= Len(messages'[branch'[c].parent])
              /\ \A i \in 1 .. branch'[c].end :
                   messages'[branch'[c].parent][i].run = branch'[c].fork =>
                     branch'[c].checkpoint /\ messages'[branch'[c].parent][i].role = "user"
              /\ c \notin Kin(branch', branch'[c].parent)
  <2>1. CASE c = child
    <3>1. branch'[c] = new /\ session'[c] = "live" /\ session'[parent] = "live"
      BY <1>2, <1>8, <1>9, <1>11, <2>1 DEF Live
    <3>2. c \notin Kin(branch', parent)
      BY <1>2, <1>10, <1>11, <2>1
    <3> QED BY <1>1, <1>3, <1>6, <3>1, <3>2
  <2>2. CASE c # child
    <3>1. branch'[c] = branch[c] /\ branch[c] # NoBranch
      BY <1>8, <1>12, <2>2
    <3>2. branch[c].parent \in Sessions
      BY <1>1, <3>1, BranchTypes
    <3>3. /\ Live(c) /\ Live(branch[c].parent)
          /\ run[branch[c].fork].session = branch[c].parent
          /\ branch[c].end <= Len(messages[branch[c].parent])
          /\ \A i \in 1 .. branch[c].end :
               messages[branch[c].parent][i].run = branch[c].fork =>
                 branch[c].checkpoint /\ messages[branch[c].parent][i].role = "user"
          /\ c \notin Kin(branch, branch[c].parent)
      BY <1>1, <3>1 DEF BranchOk
    <3>4. session'[c] = "live" /\ session'[branch[c].parent] = "live" /\ c \notin Kin(branch', branch[c].parent)
      BY <1>9, <1>10, <3>2, <3>3
    <3> QED BY <1>1, <3>1, <3>3, <3>4
  <2> QED BY <2>1, <2>2
<1>13. BranchOk'
  BY <1>12 DEF BranchOk, Live
<1>14. MessagesOk' /\ SummariesOk' /\ JobOk' /\ WorkerOk'
  BY <1>1 DEF CInv, MessagesOk, SummariesOk, JobOk, WorkerOk, Covers
<1> QED
  BY <1>7, <1>13, <1>14 DEF CInv

\* Whoever is left keeps his lineage.
LEMMA SurvivorsKin ==
  ASSUME CInv, NEW s \in Sessions, Delete(s), NEW x \in Sessions, x \notin WithDescendants(s)
  PROVE  /\ \A c \in Kin(branch, x) : c \notin WithDescendants(s) /\ branch'[c] = branch[c]
         /\ Closed(branch', Sessions) /\ Kin(branch', x) = Kin(branch, x)
<1>1. Closed(branch, Sessions) /\ NoBranch.parent \notin Sessions
  BY BranchTypes DEF CInv
<1>2. \A c \in Sessions : c \in WithDescendants(s) <=> s \in Kin(branch, c)
  BY Lineages DEF WithDescendants
<1>3. x \in Kin(branch, x) /\ Kin(branch, x) \subseteq Sessions /\ Closed(branch, Kin(branch, x))
  BY <1>1, KinClosed
<1>4. \A c \in Kin(branch, x) : c \notin WithDescendants(s)
  BY <1>1, <1>2, <1>3, KinOfKin
<1>5. \A c \in Sessions : branch'[c] =
        IF c \in WithDescendants(s) \/ branch[c].parent \in WithDescendants(s) THEN NoBranch ELSE branch[c]
  BY DEF Delete
<1>6. WithDescendants(s) \subseteq Sessions
  BY DEF WithDescendants
<1>7. ASSUME NEW c \in Kin(branch, x) PROVE branch'[c] = branch[c]
  <2>1. CASE branch[c] = NoBranch
    BY <1>1, <1>3, <1>4, <1>5, <1>6, <2>1
  <2>2. CASE branch[c] # NoBranch
    <3>1. branch[c].parent \in Kin(branch, x)
      BY <1>3, <2>2 DEF Closed
    <3> QED BY <1>3, <1>4, <1>5, <3>1
  <2> QED BY <2>1, <2>2
<1>8. Closed(branch', Sessions)
  BY <1>1, <1>5 DEF Closed
<1> QED
  BY <1>1, <1>4, <1>7, <1>8, KinSame

LEMMA DeleteKeeps == ASSUME CInv, NEW s \in Sessions, Delete(s) PROVE CInv'
<1> DEFINE gone == WithDescendants(s)
<1>1. TypeOK
  BY DEF CInv
<1>2. /\ \A x \in Sessions : session'[x] = IF x \in gone THEN "deleted" ELSE session[x]
      /\ \A x \in Sessions : branch'[x] = IF x \in gone \/ branch[x].parent \in gone THEN NoBranch ELSE branch[x]
      /\ \A x \in Sessions : messages'[x] = IF x \in gone THEN <<>> ELSE messages[x]
      /\ \A x \in Sessions : summaries'[x] = IF x \in gone THEN {} ELSE summaries[x]
      /\ \A r \in Runs : run'[r] = IF run[r].session \in gone THEN [run[r] EXCEPT !.status = "deleted"] ELSE run[r]
      /\ \A r \in Runs : worker'[r] = IF run[r].session \in gone THEN "none" ELSE worker[r]
      /\ job' = job
  BY DEF Delete
<1>3. gone \subseteq Sessions
  BY DEF WithDescendants
<1>4. ASSUME NEW r \in Runs
      PROVE  /\ run'[r] \in RunRows \cup {Unasked}
             /\ run[r] # Unasked => run'[r] # Unasked
             /\ run'[r].session = run[r].session
             /\ run'[r].status # "deleted" => run'[r] = run[r] /\ run[r].session \notin gone
             /\ run[r].session \notin gone => run'[r] = run[r]
  <2>1. run[r] \in RunRows \cup {Unasked} /\ Unasked \notin RunRows /\ Unasked.session \notin gone
    BY <1>1, <1>3, RootsOk DEF TypeOK, RunRows, Unasked
  <2>2. CASE run[r].session \in gone
    <3>1. run[r] \in RunRows
      BY <2>1, <2>2
    <3>2. /\ [run[r] EXCEPT !.status = "deleted"] \in RunRows
          /\ [run[r] EXCEPT !.status = "deleted"].session = run[r].session
          /\ [run[r] EXCEPT !.status = "deleted"].status = "deleted"
      BY <3>1 DEF RunRows
    <3>3. run'[r] = [run[r] EXCEPT !.status = "deleted"]
      BY <1>2, <2>2
    <3>4. run'[r] \in RunRows /\ run'[r].session = run[r].session /\ run'[r].status = "deleted"
      BY <3>2, <3>3
    <3> QED BY <2>1, <2>2, <3>4
  <2>3. CASE run[r].session \notin gone
    BY <1>2, <2>1, <2>3
  <2> QED BY <2>2, <2>3
<1>5. \A x \in Sessions, i \in Nat : i \in DOMAIN messages'[x] => x \notin gone /\ messages'[x] = messages[x]
  BY <1>2
<1>6. TypeOK'
  <2>1. session' \in [Sessions -> {"none", "live", "deleted"}]
    <3>1. session' = [x \in Sessions |-> session'[x]]
      BY DEF Delete
    <3> QED BY <1>1, <1>2, <3>1 DEF TypeOK
  <2>2. branch' \in [Sessions -> [parent : Sessions, fork : Runs, checkpoint : BOOLEAN, end : Nat] \cup {NoBranch}]
    <3>1. branch' = [x \in Sessions |-> branch'[x]]
      BY DEF Delete
    <3>2. \A x \in Sessions :
            branch'[x] \in [parent : Sessions, fork : Runs, checkpoint : BOOLEAN, end : Nat] \cup {NoBranch}
      BY <1>1, <1>2 DEF TypeOK
    <3> QED BY <3>1, <3>2
  <2>3. MessagesTyped'
    <3>1. messages' = [x \in Sessions |-> messages'[x]]
      BY DEF Delete
    <3>2. \A x \in Sessions : messages'[x] \in Seq(Messages)
      <4>1. <<>> \in Seq(Messages) /\ \A x \in Sessions : messages[x] \in Seq(Messages)
        BY <1>1 DEF TypeOK
      <4> QED BY <1>2, <4>1
    <3>3. ASSUME NEW x \in Sessions, NEW i \in DOMAIN messages'[x], NEW j \in DOMAIN messages'[x],
                 messages'[x][i].id = messages'[x][j].id
          PROVE  i = j
      <4>1. messages'[x] = messages[x]
        BY <1>2, <3>3
      <4> QED BY <1>1, <3>3, <4>1 DEF TypeOK
    <3> QED BY <3>1, <3>2, <3>3 DEF MessagesTyped
  <2>4. summaries' \in [Sessions -> SUBSET Summaries]
    <3>1. summaries' = [x \in Sessions |-> summaries'[x]]
      BY DEF Delete
    <3> QED BY <1>1, <1>2, <3>1 DEF TypeOK
  <2>5. run' \in [Runs -> RunRows \cup {Unasked}]
    <3>1. run' = [r \in Runs |-> run'[r]]
      BY DEF Delete
    <3> QED BY <1>4, <3>1
  <2>6. job' \in [Runs -> Summaries]
    BY <1>1, <1>2 DEF TypeOK
  <2>7. worker' \in [Runs -> {"none", "working", "flushing"}]
    <3>1. worker' = [r \in Runs |-> worker'[r]]
      BY DEF Delete
    <3> QED BY <1>1, <1>2, <3>1 DEF TypeOK
  <2> QED BY <2>1, <2>2, <2>3, <2>4, <2>5, <2>6, <2>7 DEF TypeOK, MessagesTyped, RunRows
<1>7. MessagesOk'
  <2>1. ASSUME NEW x \in Sessions, NEW i \in DOMAIN messages'[x]
        PROVE  /\ run'[messages'[x][i].run].session = x
               /\ messages'[x][i].role = "user" =>
                    \A j \in DOMAIN messages'[x] : messages'[x][j].run = messages'[x][i].run => i <= j
               /\ messages'[x][i].role = "user" => messages'[x][i].id \in Questions
               /\ messages'[x][i].role = "assistant" => messages'[x][i].id = <<messages'[x][i].run, i>>
    <3>1. messages'[x] = messages[x]
      BY <1>2, <2>1
    <3>2. messages[x][i].run \in Runs
      BY <1>1, <2>1, <3>1, MessageTypes
    <3> QED BY <1>4, <2>1, <3>1, <3>2 DEF CInv, MessagesOk
  <2> QED BY <2>1 DEF MessagesOk
<1>8. ASSUME NEW c \in Sessions, branch'[c] # NoBranch
      PROVE  /\ session'[c] = "live" /\ session'[branch'[c].parent] = "live"
             /\ run'[branch'[c].fork].session = branch'[c].parent
             /\ branch'[c].end <= Len(messages'[branch'[c].parent])
             /\ \A i \in 1 .. branch'[c].end :
                  messages'[branch'[c].parent][i].run = branch'[c].fork =>
                    branch'[c].checkpoint /\ messages'[branch'[c].parent][i].role = "user"
             /\ c \notin Kin(branch', branch'[c].parent)
  <2>1. branch'[c] = branch[c] /\ branch[c] # NoBranch /\ c \notin gone /\ branch[c].parent \notin gone
    BY <1>2, <1>8
  <2>2. branch[c].parent \in Sessions /\ branch[c].fork \in Runs
    BY <1>1, <2>1, BranchTypes
  <2>3. /\ Live(c) /\ Live(branch[c].parent)
        /\ run[branch[c].fork].session = branch[c].parent
        /\ branch[c].end <= Len(messages[branch[c].parent])
        /\ \A i \in 1 .. branch[c].end :
             messages[branch[c].parent][i].run = branch[c].fork =>
               branch[c].checkpoint /\ messages[branch[c].parent][i].role = "user"
        /\ c \notin Kin(branch, branch[c].parent)
    BY <2>1 DEF CInv, BranchOk
  <2>4. c \notin Kin(branch', branch[c].parent)
    BY <2>1, <2>2, <2>3, SurvivorsKin
  <2>5. /\ session'[c] = "live" /\ session'[branch[c].parent] = "live"
        /\ messages'[branch[c].parent] = messages[branch[c].parent]
        /\ run'[branch[c].fork].session = run[branch[c].fork].session
    BY <1>2, <1>4, <2>1, <2>2, <2>3 DEF Live
  <2> QED BY <2>1, <2>3, <2>4, <2>5
<1>9. BranchOk'
  BY <1>8 DEF BranchOk, Live
<1>10. SummariesOk'
  <2>1. ASSUME NEW x \in Sessions, NEW y \in summaries'[x] PROVE Covers(y, Len(messages'[x]))
    <3>1. summaries'[x] = summaries[x] /\ messages'[x] = messages[x]
      BY <1>2, <2>1
    <3> QED BY <2>1, <3>1 DEF CInv, SummariesOk
  <2> QED BY <2>1 DEF SummariesOk, Covers
<1>11. JobOk'
  <2>1. ASSUME NEW r \in Runs, job'[r] # NoJob
        PROVE  /\ run'[r] # Unasked
               /\ run'[r].status # "deleted" => Covers(job'[r], Len(messages'[run'[r].session]))
    <3>1. /\ job'[r] = job[r] /\ run[r] # Unasked
          /\ run[r].status # "deleted" => Covers(job[r], Len(messages[run[r].session]))
      BY <1>2, <2>1 DEF CInv, JobOk
    <3>2. run'[r] # Unasked /\ run[r].session \in Sessions
      BY <1>1, <1>4, <3>1, RunTypes
    <3>3. ASSUME run'[r].status # "deleted" PROVE Covers(job'[r], Len(messages'[run'[r].session]))
      <4>1. run'[r] = run[r] /\ run[r].session \notin gone
        BY <1>4, <3>3
      <4>2. messages'[run[r].session] = messages[run[r].session]
        BY <1>2, <3>2, <4>1
      <4> QED BY <3>1, <3>3, <4>1, <4>2
    <3> QED BY <3>2, <3>3
  <2> QED BY <2>1 DEF JobOk, Covers
<1>12. WorkerOk'
  BY <1>2, <1>4 DEF CInv, WorkerOk
<1> QED
  BY <1>6, <1>7, <1>9, <1>10, <1>11, <1>12 DEF CInv

LEMMA CNext == CInv /\ [Next]_vars => CInv'
<1> SUFFICES ASSUME CInv, [Next]_vars PROVE CInv'
  OBVIOUS
<1>1. CASE UNCHANGED vars
  <2>1. UNCHANGED <<session, branch, messages, summaries, run, worker, job>>
    BY <1>1 DEF vars, rows, texts
  <2>2. TypeOK'
    BY <2>1 DEF CInv, TypeOK
  <2>3. MessagesOk' /\ BranchOk' /\ SummariesOk' /\ JobOk' /\ WorkerOk'
    BY <2>1 DEF CInv, MessagesOk, BranchOk, SummariesOk, JobOk, WorkerOk, Live, Covers
  <2> QED BY <2>2, <2>3 DEF CInv
<1>2. CASE Next
  BY <1>2, AskKeeps, WorkKeeps, BranchKeeps, DeleteKeeps, CrashKeeps DEF Next
<1> QED
  BY <1>1, <1>2

-----------------------------------------------------------------------------
(* What follows. *)

LEMMA SummariesFollow == CInv => SummaryCovers
<1> SUFFICES ASSUME CInv, NEW s \in Sessions, NEW x \in summaries[s]
             PROVE  /\ x.read \subseteq x.from .. x.to /\ x.to <= Len(messages[s])
                    /\ \A p \in x.from .. x.to : p \in x.read \/ p + LoadLimit <= x.to + KeepRecent
  BY DEF SummaryCovers
<1>1. Covers(x, Len(messages[s]))
  BY DEF CInv, SummariesOk
<1> QED
  BY <1>1 DEF Covers

\* A prefix of a sequence, by its positions.
LEMMA Prefix ==
  ASSUME NEW D, NEW q \in Seq(D), NEW e \in Nat, e <= Len(q)
  PROVE  /\ SubSeq(q, 1, e) \in Seq(D) /\ Len(SubSeq(q, 1, e)) = e /\ DOMAIN SubSeq(q, 1, e) = 1 .. e
         /\ \A i \in 1 .. e : SubSeq(q, 1, e)[i] = q[i]
OBVIOUS

LEMMA InheritedIs ==
  ASSUME CInv, NEW s \in Sessions
  PROVE  /\ DOMAIN Inherited(s) = {c \in Kin(branch, s) : branch[c] # NoBranch}
         /\ \A c \in DOMAIN Inherited(s) :
              /\ c \in Sessions /\ Inherited(s)[c] = SubSeq(messages[branch[c].parent], 1, branch[c].end)
              /\ DOMAIN Inherited(s)[c] = 1 .. branch[c].end
              /\ \A i \in 1 .. branch[c].end : Inherited(s)[c][i] = messages[branch[c].parent][i]
<1>1. DOMAIN Inherited(s) = {c \in Kin(branch, s) : branch[c] # NoBranch}
  BY Lineages DEF Inherited
<1>2. ASSUME NEW c \in DOMAIN Inherited(s)
      PROVE  /\ c \in Sessions /\ Inherited(s)[c] = SubSeq(messages[branch[c].parent], 1, branch[c].end)
             /\ DOMAIN Inherited(s)[c] = 1 .. branch[c].end
             /\ \A i \in 1 .. branch[c].end : Inherited(s)[c][i] = messages[branch[c].parent][i]
  <2>1. c \in Sessions /\ branch[c] # NoBranch
    BY <1>1, <1>2 DEF Kin
  <2>2. branch[c].parent \in Sessions /\ branch[c].end \in Nat /\ branch[c].end <= Len(messages[branch[c].parent])
    BY <2>1, BranchTypes DEF CInv, BranchOk
  <2>3. messages[branch[c].parent] \in Seq(Messages)
    BY <2>2, MessageTypes DEF CInv
  <2>4. Inherited(s)[c] = SubSeq(messages[branch[c].parent], 1, branch[c].end)
    BY <1>2 DEF Inherited, Segment
  <2>5. /\ DOMAIN SubSeq(messages[branch[c].parent], 1, branch[c].end) = 1 .. branch[c].end
        /\ \A i \in 1 .. branch[c].end :
             SubSeq(messages[branch[c].parent], 1, branch[c].end)[i] = messages[branch[c].parent][i]
    BY <2>2, <2>3, Prefix
  <2> QED BY <2>1, <2>4, <2>5
<1> QED
  BY <1>1, <1>2

\* Only the last segment of what a branch inherits is of the session whose run
\* it rewrites: an ancestor that is a branch of that session too is not one of
\* the ancestors of that session.
LEMMA BranchesFollow == CInv => BranchBeforeRun
<1> SUFFICES ASSUME CInv, NEW s \in Sessions, branch[s] # NoBranch
             PROVE  /\ \A c \in DOMAIN Inherited(s) : \A i \in DOMAIN Inherited(s)[c] :
                         Inherited(s)[c][i].run = branch[s].fork =>
                           branch[s].checkpoint /\ Inherited(s)[c][i].role = "user"
                    /\ \A a \in Lineage(s) : Live(a)
                    /\ s \notin Lineage(branch[s].parent)
  BY DEF BranchBeforeRun
<1> DEFINE parent == branch[s].parent
<1>1. TypeOK /\ BranchOk /\ Closed(branch, Sessions) /\ parent \in Sessions /\ branch[s].fork \in Runs
  BY BranchTypes DEF CInv
<1>2. /\ Live(s) /\ run[branch[s].fork].session = parent
      /\ \A i \in 1 .. branch[s].end :
           messages[parent][i].run = branch[s].fork =>
             branch[s].checkpoint /\ messages[parent][i].role = "user"
      /\ s \notin Kin(branch, parent)
  BY <1>1 DEF BranchOk
<1>3. \A a \in Lineage(s) : Live(a)
  BY <1>1, <1>2, Lineages, LiveLineage
<1>4. s \notin Lineage(parent)
  BY <1>2, Lineages
<1>5. ASSUME NEW c \in DOMAIN Inherited(s), NEW i \in DOMAIN Inherited(s)[c],
             Inherited(s)[c][i].run = branch[s].fork
      PROVE  branch[s].checkpoint /\ Inherited(s)[c][i].role = "user"
  <2>1. /\ c \in Sessions /\ branch[c] # NoBranch /\ c \in Kin(branch, s) /\ i \in 1 .. branch[c].end
        /\ Inherited(s)[c][i] = messages[branch[c].parent][i]
    BY <1>5, InheritedIs
  <2>2. branch[c].parent \in Sessions /\ branch[c].end \in Nat /\ branch[c].end <= Len(messages[branch[c].parent])
    BY <1>1, <2>1, BranchTypes DEF BranchOk
  <2>3. i \in DOMAIN messages[branch[c].parent]
    BY <1>1, <2>1, <2>2, MessageTypes
  <2>4. run[messages[branch[c].parent][i].run].session = branch[c].parent
    BY <2>2, <2>3 DEF CInv, MessagesOk
  <2>5. branch[c].parent = parent
    BY <1>2, <1>5, <2>1, <2>4
  <2>6. CASE c = s
    BY <1>2, <1>5, <2>1, <2>6
  <2>7. CASE c # s
    <3>1. c \in Kin(branch, parent)
      BY <1>1, <2>1, <2>7, KinOfBranch
    <3>2. Kin(branch, c) \subseteq Kin(branch, parent) /\ Kin(branch, parent) = Kin(branch, branch[c].parent)
      BY <1>1, <2>5, <3>1, KinOfKin
    <3>3. c \notin Kin(branch, branch[c].parent)
      BY <1>1, <2>1 DEF BranchOk
    <3> QED BY <3>1, <3>2, <3>3
  <2> QED BY <2>6, <2>7
<1> QED
  BY <1>3, <1>4, <1>5

LEMMA PrefixSame ==
  ASSUME NEW D, NEW q \in Seq(D), NEW u \in Seq(D), NEW e \in Nat, e <= Len(q), e <= Len(u),
         \A i \in 1 .. e : u[i] = q[i]
  PROVE  SubSeq(u, 1, e) = SubSeq(q, 1, e)
<1>1. /\ SubSeq(q, 1, e) \in Seq(D) /\ SubSeq(u, 1, e) \in Seq(D)
      /\ Len(SubSeq(q, 1, e)) = e /\ Len(SubSeq(u, 1, e)) = e
      /\ \A i \in 1 .. e : SubSeq(q, 1, e)[i] = SubSeq(u, 1, e)[i]
  BY Prefix
<1> QED
  BY <1>1, SeqEqual

\* What is inherited stays, when the lineage does and the conversations grow.
LEMMA InheritedKept ==
  ASSUME CInv, CInv', NEW s \in Sessions, Kin(branch', s) = Kin(branch, s),
         \A c \in Kin(branch, s) : branch'[c] = branch[c],
         \A c \in Kin(branch, s) : branch[c] # NoBranch => Grows(branch[c].parent)
  PROVE  Inherited(s)' = Inherited(s)
<1> DEFINE B == {c \in Kin(branch, s) : branch[c] # NoBranch}
<1>1. /\ Inherited(s) = [c \in B |-> SubSeq(messages[branch[c].parent], 1, branch[c].end)]
      /\ Inherited(s)' = [c \in B |-> SubSeq(messages'[branch[c].parent], 1, branch[c].end)]
  <2>1. B = {c \in Lineage(s) : branch[c] # NoBranch} /\ B = {c \in Lineage(s)' : branch'[c] # NoBranch}
    BY Lineages
  <2>2. Inherited(s)' = [c \in {c \in Lineage(s)' : branch'[c] # NoBranch} |->
                           SubSeq(messages'[branch'[c].parent], 1, branch'[c].end)]
    BY DEF Inherited, Segment
  <2> QED BY <2>1, <2>2 DEF Inherited, Segment
<1>2. ASSUME NEW c \in B
      PROVE  SubSeq(messages'[branch[c].parent], 1, branch[c].end) = SubSeq(messages[branch[c].parent], 1, branch[c].end)
  <2>1. c \in Sessions /\ branch[c] # NoBranch /\ Grows(branch[c].parent)
    BY DEF Kin
  <2>2. branch[c].parent \in Sessions /\ branch[c].end \in Nat /\ branch[c].end <= Len(messages[branch[c].parent])
    BY <2>1, BranchTypes DEF CInv, BranchOk
  <2>3. messages[branch[c].parent] \in Seq(Messages) /\ messages'[branch[c].parent] \in Seq(Messages)
    BY <2>2 DEF CInv, TypeOK
  <2>4. /\ branch[c].end <= Len(messages'[branch[c].parent])
        /\ \A i \in 1 .. branch[c].end : messages'[branch[c].parent][i] = messages[branch[c].parent][i]
    BY <2>1, <2>2, <2>3 DEF Grows
  <2> QED BY <2>2, <2>3, <2>4, PrefixSame
<1> QED
  BY <1>1, <1>2

LEMMA FrozenStep ==
  ASSUME CInv, [Next]_vars, NEW s \in Sessions, branch[s] # NoBranch, Live(s)'
  PROVE  Inherited(s)' = Inherited(s)
<1>1. CInv'
  BY CNext
<1>2. Live(s) /\ TypeOK /\ Kin(branch, s) \subseteq Sessions /\ Closed(branch, Kin(branch, s)) /\ s \in Kin(branch, s)
  BY BranchTypes, KinClosed DEF CInv, BranchOk
<1>3. \A c \in Kin(branch, s) : branch[c] # NoBranch => branch[c].parent \in Kin(branch, s) /\ branch[c].parent \in Sessions
  BY <1>2 DEF Closed
<1>4. ASSUME UNCHANGED branch, \A x \in Sessions : Grows(x) PROVE Inherited(s)' = Inherited(s)
  BY <1>1, <1>3, <1>4, InheritedKept
<1>5. UNCHANGED messages => \A x \in Sessions : Grows(x)
  <2>1. \A x \in Sessions : Len(messages[x]) \in Nat
    BY <1>2, MessageTypes
  <2> QED BY <2>1 DEF Grows
<1>6. CASE UNCHANGED vars
  BY <1>4, <1>5, <1>6 DEF vars, rows, texts
<1>7. CASE \E r \in Runs, x \in Sessions, q \in Questions, status \in {"running", "refused"} : Ask(r, x, q, status)
  <2> SUFFICES ASSUME NEW r \in Runs, NEW x \in Sessions, NEW q \in Questions,
                      UNCHANGED branch, Say(x, Message(r, "user", q))
               PROVE  Inherited(s)' = Inherited(s)
    BY <1>7 DEF Ask, Open
  <2>1. Message(r, "user", q) \in Messages
    BY DEF Message, Messages
  <2>2. \A y \in Sessions : Grows(y)
    BY <1>2, <2>1, AddedOne
  <2> QED BY <1>4, <2>2
<1>8. CASE \E r \in Runs : Work(r)
  <2> SUFFICES ASSUME NEW r \in Runs, Work(r) PROVE Inherited(s)' = Inherited(s)
    BY <1>8
  <2>1. UNCHANGED branch
    BY DEF Work, Suspend, Resume, Fail, Abandon, Reclaim, Finish, Summarized, FlushTimesOut, Complete, rows
  <2>2. UNCHANGED messages \/ (Drafts(r) /\ worker[r] = "working")
    BY DEF Work, Suspend, Resume, Fail, Abandon, Reclaim, Finish, Summarized, FlushTimesOut, Complete, texts
  <2>3. CASE UNCHANGED messages
    BY <1>4, <1>5, <2>1, <2>3
  <2>4. CASE Drafts(r) /\ worker[r] = "working"
    <3>1. run[r] # Unasked
      BY <2>4 DEF CInv, WorkerOk, Unasked
    <3>2. \A y \in Sessions : Grows(y)
      BY <2>4, <3>1, DraftsAdd
    <3> QED BY <1>4, <2>1, <3>2
  <2> QED BY <2>2, <2>3, <2>4
<1>9. CASE \E x, child \in Sessions, r \in Runs : \E checkpoint \in BOOLEAN : Branch(x, r, child, checkpoint)
  <2> SUFFICES ASSUME NEW x \in Sessions, NEW child \in Sessions, NEW r \in Runs, NEW checkpoint \in BOOLEAN,
                      Branch(x, r, child, checkpoint)
               PROVE  Inherited(s)' = Inherited(s)
    BY <1>9
  <2>1. Kin(branch', s) = Kin(branch, s) /\ \A c \in Kin(branch, s) : branch'[c] = branch[c]
    BY <1>2, BranchLineages
  <2>2. \A y \in Sessions : Grows(y)
    BY <1>5 DEF Branch, texts
  <2> QED BY <1>1, <1>3, <2>1, <2>2, InheritedKept
<1>10. CASE \E x \in Sessions : Delete(x)
  <2> SUFFICES ASSUME NEW x \in Sessions, Delete(x) PROVE Inherited(s)' = Inherited(s)
    BY <1>10
  <2>1. s \notin WithDescendants(x)
    BY DEF Delete, Live
  <2>2. /\ \A c \in Kin(branch, s) : c \notin WithDescendants(x) /\ branch'[c] = branch[c]
        /\ Kin(branch', s) = Kin(branch, s)
    BY <2>1, SurvivorsKin
  <2>3. \A c \in Kin(branch, s) : messages'[c] = messages[c] /\ Len(messages[c]) \in Nat
    BY <1>2, <2>2, MessageTypes DEF Delete
  <2>4. \A c \in Kin(branch, s) : Grows(c)
    BY <2>3 DEF Grows
  <2> QED BY <1>1, <1>3, <2>2, <2>4, InheritedKept
<1>11. CASE Crash
  BY <1>4, <1>5, <1>11 DEF Crash, rows, texts
<1> QED
  BY <1>6, <1>7, <1>8, <1>9, <1>10, <1>11 DEF Next

-----------------------------------------------------------------------------
LEMMA CAlways == Spec => []CInv
BY CInit, CNext, PTL DEF Spec

\* The rows are well formed and a message id is stored once per session, however
\* often a refused question is sent again.
THEOREM ConversationTyped == Spec => []TypeOK
<1>1. CInv => TypeOK
  BY DEF CInv
<1> QED
  BY <1>1, CAlways, PTL

\* A summary speaks for every message of its range, for any limits and any
\* number of sessions and of runs finishing at once.
THEOREM SummariesCover == Spec => []SummaryCovers
BY SummariesFollow, CAlways, PTL

\* A branch goes back to before the run it rewrites, and its ancestors are all
\* there, however deep the branches nest.
THEOREM BranchesBeforeTheirRun == Spec => []BranchBeforeRun
BY BranchesFollow, CAlways, PTL

\* What a branch inherits never changes while it lives.
THEOREM BranchesStayFrozen == Spec => BranchFrozen
<1>1. CInv /\ [Next]_vars =>
        [\A s \in Sessions : branch[s] # NoBranch /\ Live(s)' => Inherited(s)' = Inherited(s)]_vars
  BY FrozenStep
<1> QED
  BY <1>1, CAlways, PTL DEF Spec, BranchFrozen

(***************************************************************************)
(* SessionFile                                                             *)
(***************************************************************************)

Logins == [Keys -> Ops \cup {NoOp}]

\* A live lock belongs to an operation at work, which cannot reclaim it.
OwnerInside == lock.live => lock.owner \in Ops /\ pc[lock.owner] \in Inside

\* What counts as a stale lock, and what has been seen as one.
StaleSeen ==
  /\ lock.old => stale
  /\ lock.written /\ ~lock.live => stale
  /\ \A o \in Ops : pc[o] = "reclaiming" => stale

\* The file can be parsed from its repair on, so while somebody writes.
Parsed ==
  /\ file = Corrupt <=> saved = Corrupt
  /\ \A o \in Ops : pc[o] = "writing" => file # Corrupt

\* The sessions an operation is about to change are those of the file.
CopyFresh == ~usurped => \A o \in Ops : pc[o] = "writing" => copy[o] = saved

FileInv ==
  /\ FileTypeOK /\ OwnerInside /\ StaleSeen /\ Parsed /\ CopyFresh
  /\ OneHolder /\ SavesMerge

LEMMA EmptyType == Empty \in Logins /\ Empty # Corrupt
<1>1. PICK k \in Keys : TRUE
  BY KeysOk
<1>2. Empty[k] # Corrupt[k]
  BY CorruptOk DEF Empty, Corrupt
<1> QED
  BY <1>2 DEF Empty, Logins

LEMMA ChangedType ==
  ASSUME NEW x \in Logins, NEW o \in Ops
  PROVE  Changed(o, x) \in Logins /\ Changed(o, x) # Corrupt
<1>1. Changed(o, x) \in Logins
  BY DEF Changed, Logins
<1>2. PICK k \in Keys : TRUE
  BY KeysOk
<1>3. Changed(o, x)[k] \in Ops \cup {NoOp}
  BY <1>1, <1>2 DEF Logins
<1>4. Corrupt[k] = "corrupt"
  BY <1>2 DEF Corrupt
<1> QED
  BY <1>1, <1>3, <1>4, CorruptOk

LEMMA IdleType == Idle \in [kind : Kinds, key : Keys \cup {NoOp}]
  BY DEF Idle, Kinds

LEMMA FileInitInv == FileInit => FileInv
<1> SUFFICES ASSUME FileInit PROVE FileInv
  OBVIOUS
<1>1. FileTypeOK
  BY EmptyType, IdleType DEF FileInit, FileTypeOK, Logins, NoLock
<1> QED
  BY <1>1 DEF FileInit, FileInv, OwnerInside, StaleSeen, Parsed, CopyFresh, OneHolder, SavesMerge, NoLock, Inside

-----------------------------------------------------------------------------
(* The steps, one by one. *)

\* At most one operation has the lock.
LEMMA Alone ==
  ASSUME FileInv, ~usurped, NEW o \in Ops, NEW p \in Ops, pc[o] \in Inside, pc[p] \in Inside
  PROVE  o = p
  BY DEF FileInv, OneHolder, Own

Steps == Inside \cup {"idle", "opening", "checking", "reclaiming"}

\* A step of o that removes or writes nothing is right if it keeps o's place in
\* or out of the critical section, reclaims a stale lock only, and goes to
\* write the sessions of the file.
LEMMA QuietStep ==
  ASSUME FileInv, NEW o \in Ops, NEW step \in Steps, Go(o, step),
         UNCHANGED <<lock, store, stale, usurped>>,
         call' \in [Ops -> [kind : Kinds, key : Keys \cup {NoOp}]],
         copy' \in [Ops -> Logins], \A p \in Ops \ {o} : copy'[p] = copy[p],
         Own(o) => step \in Inside,
         step \in Inside => pc[o] \in Inside,
         step = "reclaiming" => stale,
         step = "writing" => file # Corrupt /\ copy'[o] = file
  PROVE  FileInv'
<1>1. FileTypeOK'
  BY DEF FileInv, FileTypeOK, Go, store, Steps, Logins
<1>2. pc'[o] = step /\ \A p \in Ops \ {o} : pc'[p] = pc[p]
  BY DEF Go, FileInv, FileTypeOK
<1>3. OwnerInside'
  BY <1>2 DEF FileInv, OwnerInside, Own
<1>4. StaleSeen' /\ Parsed' /\ SavesMerge'
  BY <1>2 DEF FileInv, StaleSeen, Parsed, SavesMerge, store
<1>5. CopyFresh'
  BY <1>2 DEF FileInv, CopyFresh, SavesMerge, store
<1>6. OneHolder'
  BY <1>2 DEF FileInv, OneHolder, Own
<1> QED
  BY <1>1, <1>3, <1>4, <1>5, <1>6 DEF FileInv

LEMMA EndCallTyped ==
  ASSUME FileInv, NEW o \in Ops, EndCall(o)
  PROVE  /\ Go(o, "idle")
         /\ call' \in [Ops -> [kind : Kinds, key : Keys \cup {NoOp}]]
         /\ copy' \in [Ops -> Logins] /\ \A p \in Ops \ {o} : copy'[p] = copy[p]
  BY EmptyType, IdleType DEF EndCall, FileInv, FileTypeOK, Logins

LEMMA OwnInside ==
  ASSUME FileInv, NEW o \in Ops, Own(o)
  PROVE  pc[o] \in Inside
  BY DEF FileInv, OwnerInside, Own

LEMMA BeginKeeps ==
  ASSUME FileInv, NEW o \in Ops, NEW kind \in Kinds, NEW key \in Keys, Begin(o, kind, key)
  PROVE  FileInv'
<1>1. call' \in [Ops -> [kind : Kinds, key : Keys \cup {NoOp}]]
  BY DEF Begin, FileInv, FileTypeOK
<1>2. ~Own(o)
  BY OwnInside DEF Begin, Inside
<1> QED
  BY <1>1, <1>2, QuietStep DEF Begin, Steps, Inside, FileInv, FileTypeOK, Logins

LEMMA OpenLockKeeps ==
  ASSUME FileInv, NEW o \in Ops, OpenLock(o)
  PROVE  FileInv'
<1>1. CASE lock # NoLock
  <2>1. ~Own(o)
    BY OwnInside DEF OpenLock, Inside
  <2> QED
    BY <1>1, <2>1, QuietStep DEF OpenLock, Steps, Inside, FileInv, FileTypeOK, Logins
<1>2. CASE lock = NoLock
  <2>1. /\ lock' = [owner |-> o, written |-> FALSE, old |-> FALSE, live |-> TRUE]
        /\ pc' = [pc EXCEPT ![o] = "created"]
        /\ UNCHANGED <<call, copy, file, saved, stale, usurped>>
    BY <1>2 DEF OpenLock, Go, store
  <2>2. pc'[o] = "created" /\ \A p \in Ops \ {o} : pc'[p] = pc[p]
    BY <2>1 DEF FileInv, FileTypeOK
  <2>3. \A p \in Ops : ~usurped => pc[p] \notin Inside
    BY <1>2 DEF FileInv, OneHolder, Own, NoLock
  <2>4. FileTypeOK'
    BY <2>1 DEF FileInv, FileTypeOK, Inside
  <2>5. OwnerInside' /\ OneHolder'
    BY <2>1, <2>2, <2>3 DEF FileInv, OwnerInside, OneHolder, Own, Inside
  <2>6. StaleSeen' /\ Parsed' /\ CopyFresh' /\ SavesMerge'
    BY <2>1, <2>2 DEF FileInv, StaleSeen, Parsed, CopyFresh, SavesMerge
  <2> QED
    BY <2>4, <2>5, <2>6 DEF FileInv
<1> QED
  BY <1>1, <1>2

LEMMA WriteLockKeeps ==
  ASSUME FileInv, NEW o \in Ops, WriteLock(o)
  PROVE  FileInv'
<1>1. /\ lock' = [lock EXCEPT !.written = lock.written \/ Own(o)]
      /\ pc' = [pc EXCEPT ![o] = "holding"] /\ pc[o] = "created"
      /\ UNCHANGED <<call, copy, file, saved, stale, usurped>>
  BY DEF WriteLock, Go, store
<1>2. pc'[o] = "holding" /\ \A p \in Ops \ {o} : pc'[p] = pc[p]
  BY <1>1 DEF FileInv, FileTypeOK
<1>3. /\ lock'.owner = lock.owner /\ lock'.live = lock.live /\ lock'.old = lock.old
      /\ lock'.written = (lock.written \/ Own(o))
      /\ lock' \in [owner : Ops \cup {NoOp}, written : BOOLEAN, old : BOOLEAN, live : BOOLEAN]
  BY <1>1 DEF FileInv, FileTypeOK, Own
<1>4. FileTypeOK'
  BY <1>1, <1>3 DEF FileInv, FileTypeOK, Inside
<1>5. OwnerInside' /\ OneHolder'
  BY <1>1, <1>2, <1>3 DEF FileInv, OwnerInside, OneHolder, Own, Inside
<1>6. StaleSeen' /\ Parsed' /\ CopyFresh' /\ SavesMerge'
  BY <1>1, <1>2, <1>3 DEF FileInv, StaleSeen, Parsed, CopyFresh, SavesMerge, Own
<1> QED
  BY <1>4, <1>5, <1>6 DEF FileInv

LEMMA CheckLockKeeps ==
  ASSUME FileInv, NEW o \in Ops, CheckLock(o)
  PROVE  FileInv'
<1>1. ~Own(o)
  BY OwnInside DEF CheckLock, Inside
<1>2. StaleLock => stale
  BY DEF StaleLock, FileInv, StaleSeen
<1>3. PICK step \in {"reclaiming", "opening"} : Go(o, step) /\ (step = "reclaiming" => StaleLock)
  BY DEF CheckLock
<1> QED
  BY <1>1, <1>2, <1>3, QuietStep DEF CheckLock, Steps, Inside, FileInv, FileTypeOK, Logins

LEMMA TimeOutKeeps ==
  ASSUME FileInv, NEW o \in Ops, TimeOut(o)
  PROVE  FileInv'
<1>1. ~Own(o)
  BY OwnInside DEF TimeOut, Inside
<1> QED
  BY <1>1, EndCallTyped, QuietStep DEF TimeOut, Steps, Inside

LEMMA CheckOwnKeeps ==
  ASSUME FileInv, NEW o \in Ops, CheckOwn(o)
  PROVE  FileInv'
<1>1. CASE Releasable(o)
  BY <1>1, QuietStep DEF CheckOwn, Steps, Inside, FileInv, FileTypeOK, Logins
<1>2. CASE ~Releasable(o)
  <2>1. ~Own(o)
    BY <1>2 DEF Releasable, Own, NoLock
  <2> QED
    BY <1>2, <2>1, EndCallTyped, QuietStep DEF CheckOwn, Steps, Inside
<1> QED
  BY <1>1, <1>2

LEMMA ReadFileKeeps ==
  ASSUME FileInv, NEW o \in Ops, ReadFile(o)
  PROVE  FileInv'
<1>1. CASE file = Corrupt
  BY <1>1, QuietStep DEF ReadFile, Steps, Inside, FileInv, FileTypeOK, Logins
<1>2. CASE file # Corrupt
  <2>1. file \in Logins
    BY <1>2 DEF FileInv, FileTypeOK, Logins
  <2>2. copy' = [copy EXCEPT ![o] = file] /\ copy \in [Ops -> Logins]
    BY <1>2 DEF ReadFile, Continue, FileInv, FileTypeOK, Logins
  <2>3. PICK step \in {"closing", "writing"} : Go(o, step)
    BY <1>2 DEF ReadFile, Continue
  <2>4. copy' \in [Ops -> Logins] /\ copy'[o] = file /\ \A p \in Ops \ {o} : copy'[p] = copy[p]
    BY <2>1, <2>2
  <2> QED
    BY <1>2, <2>3, <2>4, QuietStep DEF ReadFile, Steps, Inside, FileInv, FileTypeOK
<1> QED
  BY <1>1, <1>2

\* The file is replaced by an operation that is in its critical section, before
\* and after: no other one is about to write.
LEMMA ReplaceStep ==
  ASSUME FileInv, NEW o \in Ops, NEW step \in Inside, pc[o] \in Inside, Go(o, step),
         UNCHANGED <<call, lock, stale, usurped>>,
         copy' \in [Ops -> Logins], \A p \in Ops \ {o} : copy'[p] = copy[p],
         file' \in Logins, file' # Corrupt, saved' \in Logins, saved' # Corrupt,
         ~usurped => file' = saved',
         step = "writing" => copy'[o] = saved'
  PROVE  FileInv'
<1>1. pc'[o] = step /\ \A p \in Ops \ {o} : pc'[p] = pc[p]
  BY DEF Go, FileInv, FileTypeOK
<1>2. FileTypeOK'
  BY DEF FileInv, FileTypeOK, Go, Logins
<1>3. OwnerInside' /\ OneHolder'
  BY <1>1 DEF FileInv, OwnerInside, OneHolder, Own
<1>4. StaleSeen' /\ Parsed' /\ SavesMerge'
  BY <1>1 DEF FileInv, StaleSeen, Parsed, SavesMerge, Inside
<1>5. CopyFresh'
  <2> SUFFICES ASSUME ~usurped, NEW p \in Ops, pc'[p] = "writing" PROVE copy'[p] = saved'
    BY DEF CopyFresh
  <2>1. p = o
    BY <1>1, Alone DEF Inside
  <2> QED
    BY <1>1, <2>1
<1> QED
  BY <1>2, <1>3, <1>4, <1>5 DEF FileInv

LEMMA QuarantineKeeps ==
  ASSUME FileInv, NEW o \in Ops, Quarantine(o)
  PROVE  FileInv'
<1>1. /\ file' = Empty /\ saved' = Empty
      /\ UNCHANGED <<call, lock, stale, usurped>> /\ pc[o] = "quarantining"
  BY DEF Quarantine
<1>2. CASE Continue(o, Repaired)
  <2>1. PICK step \in {"closing", "writing"} : Go(o, step)
    BY <1>2 DEF Continue
  <2>2. copy' = [copy EXCEPT ![o] = Empty]
    BY <1>2 DEF Continue, Repaired
  <2>3. copy' \in [Ops -> Logins] /\ copy'[o] = Empty /\ \A p \in Ops \ {o} : copy'[p] = copy[p]
    BY <2>2, EmptyType DEF FileInv, FileTypeOK, Logins
  <2> QED
    BY <1>1, <2>1, <2>3, EmptyType, ReplaceStep DEF Inside
<1>3. CASE Go(o, "closing") /\ UNCHANGED copy
  <2>1. copy' \in [Ops -> Logins]
    BY <1>3 DEF FileInv, FileTypeOK, Logins
  <2> QED
    BY <1>1, <1>3, <2>1, EmptyType, ReplaceStep DEF Inside
<1> QED
  BY <1>2, <1>3 DEF Quarantine

LEMMA ThrowKeeps ==
  ASSUME FileInv, NEW o \in Ops, Throw(o)
  PROVE  FileInv'
<1>1. pc[o] \in Inside /\ UNCHANGED <<call, copy>>
  BY DEF Throw, Inside
<1> QED
  BY <1>1, QuietStep DEF Throw, Steps, Inside, FileInv, FileTypeOK, Logins

LEMMA ReplaceFileKeeps ==
  ASSUME FileInv, NEW o \in Ops, ReplaceFile(o)
  PROVE  FileInv'
<1>1. /\ pc[o] = "writing" /\ Go(o, "closing")
      /\ file' = Changed(o, copy[o]) /\ saved' = Changed(o, saved)
      /\ UNCHANGED <<call, copy, lock, stale, usurped>>
  BY DEF ReplaceFile, Written
<1>2. copy \in [Ops -> Logins] /\ saved \in Logins
  BY <1>1 DEF FileInv, FileTypeOK, Parsed, Logins
<1>3. file' \in Logins /\ file' # Corrupt /\ saved' \in Logins /\ saved' # Corrupt
  BY <1>1, <1>2, ChangedType
<1>4. ~usurped => file' = saved'
  BY <1>1 DEF FileInv, CopyFresh
<1> QED
  BY <1>1, <1>2, <1>3, <1>4, ReplaceStep DEF Inside

\* The lock file goes: it was o's own, or nobody's who is at work, or the
\* history says so.
LEMMA UnlinkStep ==
  ASSUME FileInv, NEW o \in Ops, NEW step \in {"opening", "idle"}, Go(o, step), Unlink(o),
         call' \in [Ops -> [kind : Kinds, key : Keys \cup {NoOp}]],
         copy' \in [Ops -> Logins], \A p \in Ops \ {o} : copy'[p] = copy[p],
         lock.live /\ lock.owner # o => stale
  PROVE  FileInv'
<1>1. pc'[o] = step /\ \A p \in Ops \ {o} : pc'[p] = pc[p]
  BY DEF Go, FileInv, FileTypeOK
<1>2. /\ lock' = NoLock /\ UNCHANGED <<file, saved, stale>>
      /\ usurped' = (usurped \/ (lock.live /\ lock.owner # o))
  BY DEF Unlink, store
<1>3. /\ NoLock \in [owner : Ops \cup {NoOp}, written : BOOLEAN, old : BOOLEAN, live : BOOLEAN]
      /\ NoLock.live = FALSE /\ NoLock.written = FALSE /\ NoLock.old = FALSE
  BY DEF NoLock
<1>4. FileTypeOK'
  <2>1. usurped' \in BOOLEAN
    BY <1>2
  <2> QED
    BY <1>2, <1>3, <2>1 DEF FileInv, FileTypeOK, Go, Logins
<1>5. OwnerInside'
  BY <1>2, <1>3 DEF OwnerInside
<1>6. StaleSeen' /\ Parsed'
  BY <1>1, <1>2, <1>3 DEF FileInv, StaleSeen, Parsed
<1>7. CopyFresh' /\ SavesMerge'
  BY <1>1, <1>2 DEF FileInv, CopyFresh, SavesMerge
<1>8. OneHolder'
  <2>1. usurped' => stale'
    BY <1>2 DEF FileInv, OneHolder
  <2>2. ASSUME ~usurped', NEW p \in Ops PROVE pc'[p] \notin Inside
    <3>1. ~usurped /\ ~(lock.live /\ lock.owner # o)
      BY <1>2, <2>2
    <3>2. CASE p = o
      BY <1>1, <3>2 DEF Inside
    <3>3. CASE p # o
      BY <1>1, <3>1, <3>3 DEF FileInv, OneHolder, Own
    <3> QED
      BY <3>2, <3>3
  <2> QED
    BY <2>1, <2>2 DEF OneHolder
<1> QED
  BY <1>4, <1>5, <1>6, <1>7, <1>8 DEF FileInv

LEMMA ReclaimLockKeeps ==
  ASSUME FileInv, NEW o \in Ops, ReclaimLock(o)
  PROVE  FileInv'
<1>1. stale
  BY DEF ReclaimLock, FileInv, StaleSeen
<1> QED
  BY <1>1, UnlinkStep DEF ReclaimLock, FileInv, FileTypeOK, Logins

LEMMA ReleaseLockKeeps ==
  ASSUME FileInv, NEW o \in Ops, ReleaseLock(o)
  PROVE  FileInv'
<1>1. lock.live /\ lock.owner # o => stale
  BY DEF ReleaseLock, FileInv, OneHolder, Own, Inside
<1> QED
  BY <1>1, EndCallTyped, UnlinkStep DEF ReleaseLock

LEMMA AgeKeeps ==
  ASSUME FileInv, Age
  PROVE  FileInv'
<1>1. /\ lock'.owner = lock.owner /\ lock'.live = lock.live /\ lock'.written = lock.written
      /\ lock' \in [owner : Ops \cup {NoOp}, written : BOOLEAN, old : BOOLEAN, live : BOOLEAN]
      /\ stale' = TRUE
      /\ UNCHANGED <<pc, call, copy, file, saved, usurped>>
  BY DEF Age, FileInv, FileTypeOK, ops, store
<1> QED
  BY <1>1 DEF FileInv, FileTypeOK, OwnerInside, StaleSeen, Parsed, CopyFresh, OneHolder, SavesMerge, Own

LEMMA DieKeeps ==
  ASSUME FileInv, NEW o \in Ops, Die(o)
  PROVE  FileInv'
<1>1. /\ pc'[o] = "idle" /\ \A p \in Ops \ {o} : pc'[p] = pc[p]
      /\ pc' \in [Ops -> Steps]
  BY DEF Die, EndCall, Go, FileInv, FileTypeOK, Steps
<1>2. /\ lock'.owner = lock.owner /\ lock'.old = lock.old /\ lock'.written = lock.written
      /\ lock'.live = (lock.live /\ lock.owner # o)
      /\ lock' \in [owner : Ops \cup {NoOp}, written : BOOLEAN, old : BOOLEAN, live : BOOLEAN]
      /\ stale' = (stale \/ (lock.owner = o /\ lock.live))
      /\ UNCHANGED <<file, saved, usurped>>
  BY DEF Die, FileInv, FileTypeOK, store, Own
<1>3. /\ call' \in [Ops -> [kind : Kinds, key : Keys \cup {NoOp}]]
      /\ copy' \in [Ops -> Logins] /\ \A p \in Ops \ {o} : copy'[p] = copy[p]
  BY EndCallTyped DEF Die
<1>4. FileTypeOK'
  BY <1>1, <1>2, <1>3 DEF FileInv, FileTypeOK, Steps, Logins
<1>5. OwnerInside' /\ OneHolder'
  BY <1>1, <1>2 DEF FileInv, OwnerInside, OneHolder, Own, Inside
<1>6. StaleSeen' /\ Parsed' /\ SavesMerge'
  BY <1>1, <1>2 DEF FileInv, StaleSeen, Parsed, SavesMerge
<1>7. CopyFresh'
  BY <1>1, <1>2, <1>3 DEF FileInv, CopyFresh
<1> QED
  BY <1>4, <1>5, <1>6, <1>7 DEF FileInv

-----------------------------------------------------------------------------
(* The invariant. *)

LEMMA FileNextInv == FileInv /\ [FileNext]_fileVars => FileInv'
<1> SUFFICES ASSUME FileInv, [FileNext]_fileVars PROVE FileInv'
  OBVIOUS
<1>1. CASE Age
  BY <1>1, AgeKeeps
<1>2. ASSUME NEW o \in Ops, Die(o) PROVE FileInv'
  BY <1>2, DieKeeps
<1>3. ASSUME NEW o \in Ops, Step(o) PROVE FileInv'
  BY <1>3, BeginKeeps, OpenLockKeeps, WriteLockKeeps, CheckLockKeeps, TimeOutKeeps, ReclaimLockKeeps,
     ReadFileKeeps, QuarantineKeeps, ReplaceFileKeeps, ThrowKeeps, CheckOwnKeeps, ReleaseLockKeeps
     DEF Step
<1>4. CASE UNCHANGED fileVars
  BY <1>4 DEF fileVars, ops, store, FileInv, FileTypeOK, OwnerInside, StaleSeen, Parsed, CopyFresh, OneHolder,
     SavesMerge, Own
<1> QED
  BY <1>1, <1>2, <1>3, <1>4 DEF FileNext

LEMMA FileAlways == FileSpec => []FileInv
  BY FileInitInv, FileNextInv, PTL DEF FileSpec

\* Every variable stays in its type.
THEOREM SessionFileTyped == FileSpec => []FileTypeOK
<1>1. FileInv => FileTypeOK
  BY DEF FileInv
<1> QED
  BY <1>1, FileAlways, PTL

\* withFileLock excludes, until a lock is removed under an operation at work;
\* none is while nobody died in it or was in it for LOCK_STALE_MS.
THEOREM MutualExclusion == FileSpec => []OneHolder
<1>1. FileInv => OneHolder
  BY DEF FileInv
<1> QED
  BY <1>1, FileAlways, PTL

\* Until then the session file has what was saved last for each server.
THEOREM NothingLost == FileSpec => []SavesMerge
<1>1. FileInv => SavesMerge
  BY DEF FileInv
<1> QED
  BY <1>1, FileAlways, PTL
=============================================================================
