-------------------------- MODULE RunEventsProofs --------------------------
(***************************************************************************)
(* What RunEvents keeps for any calls, any tools among them and any number *)
(* of pipelines.                                                           *)
(*                                                                         *)
(* The log only grows, so a property of it is kept as long as what a step  *)
(* appends agrees with it.  The steps are of three kinds: those that       *)
(* append neither an end nor a result nor a terminal event, those that     *)
(* deliver a result, and those that flush the results a pipeline owes      *)
(* before its terminal event or before the RUN_ERROR of a failed resume.   *)
(***************************************************************************)
EXTENDS RunEvents, FiniteSetTheorems, TLAPS

HasResult(c) == \E i \in DOMAIN log : log[i].type \in Results /\ log[i].call = c

\* No call has two results but one that was given up.
OneResult ==
  \A i, j \in DOMAIN log :
    log[i].type \in Results /\ log[j].type \in Results /\ log[i].call = log[j].call =>
      i = j \/ GivenUp(log[i].call)

\* A pipeline remembers as delivered only what was; the one that can deliver
\* another result of a call remembers the first.
DeliveredOk ==
  /\ \A p \in Ps : \A c \in delivered[p] : HasResult(c)
  /\ \A c \in Calls : HasResult(c) => c \in delivered[startedBy[c]] \/ tool[c] = "done" \/ GivenUp(c)

\* Until the run is closed, a call that has a result has returned or was given up.
ToolOk ==
  /\ stage \notin {"closed", "gone"} =>
       \A c \in Calls : HasResult(c) => tool[c] \in {"returned", "done"} \/ GivenUp(c)
  /\ \A c \in Calls : tool[c] = "asked" => stage = "suspended"
  /\ \A c \in Calls : startedBy[c] \leq cur

\* The calls for which the current pipeline owes a result are its own.
AwaitingOk ==
  /\ \A c \in awaiting[cur] : startedBy[c] = cur /\ tool[c] \in {"running", "returned", "asked"}
  /\ \A p \in Ps : p > cur => awaiting[p] = {}

\* The call c is one of the pipeline p, which has a result of it or awaits one.
Seen(p, c) ==
  c \in Calls /\ startedBy[c] = p /\ tool[c] # "none" /\ c \in awaiting[p] \cup delivered[p]

\* Every end the current pipeline has seen is settled or awaits its result.
EndsOk ==
  /\ \A i \in DOMAIN log : log[i].by \leq cur
  /\ stage \notin {"suspended", "gone"} =>
       \A i \in DOMAIN log : log[i].type = "end" /\ log[i].by = cur => Seen(cur, log[i].call)

\* The pipeline p started the call and remembers its result, or nothing more comes.
Remembered(p, c) == (startedBy[c] = p /\ c \in delivered[p]) \/ tool[c] = "done"

\* What the pipeline of a terminal event had seen end it remembers.
ClosedOk ==
  \A t \in Terminals : \A i \in 1 .. t : log[i].type = "end" /\ log[i].by = log[t].by =>
    log[i].call \in Calls /\ Remembered(log[t].by, log[i].call)

\* What the pipeline of a terminal event had seen end was settled before it.
Settled ==
  \A t \in Terminals \cup Errors : \A i \in 1 .. t : log[i].type = "end" /\ log[i].by = log[t].by =>
    \E r \in 1 .. t : log[r].type \in Results /\ log[r].call = log[i].call

\* The stage agrees with the log.
StageOk ==
  /\ Terminals # {} => stage \in {"closed", "gone"}
  /\ stage = "closing" => \E i \in DOMAIN log : log[i].type = "status" /\ log[i].by = cur
  /\ memory = "running" => stage = "flushing"
  /\ stage \in {"streaming", "suspended"} \/ memory = "running" =>
       \A i \in DOMAIN log : log[i].type \notin {"flush", "extracted"}

\* No memory is extracted after the flush was reported.
FlushLast == \A i, j \in DOMAIN log : log[i].type = "flush" /\ j > i => log[j].type # "extracted"

\* The event e may follow the terminal event at t.
Afterwards(t, e) ==
  /\ e.type \in {"result", "plan", "title"}
  /\ e.type = "result" => \A i \in 1 .. t : log[i].type = "end" /\ log[i].call = e.call => log[i].by # log[t].by

EndOk ==
  \A t \in Terminals :
    /\ \E i \in 1 .. t : log[i].type = "status" /\ log[i].by = log[t].by
    /\ \A i \in t + 1 .. Len(log) : Afterwards(t, log[i])

EInv ==
  /\ TypeOK /\ OneResult /\ DeliveredOk /\ ToolOk /\ AwaitingOk /\ EndsOk /\ ClosedOk /\ Settled
  /\ StageOk /\ FlushLast /\ EndOk

-----------------------------------------------------------------------------
(* The log grows. *)

New == DOMAIN log' \ DOMAIN log
Grows ==
  /\ log' \in Seq(Events) /\ Len(log) \leq Len(log')
  /\ \A i \in DOMAIN log : i \in DOMAIN log' /\ log'[i] = log[i]

\* Nothing that is written is of these types.
Without(types) == \A i \in New : log'[i].type \notin types

LEMMA Domains ==
  ASSUME log \in Seq(Events), log' \in Seq(Events)
  PROVE  /\ DOMAIN log = 1 .. Len(log) /\ Len(log) \in Nat
         /\ DOMAIN log' = 1 .. Len(log') /\ Len(log') \in Nat
OBVIOUS

\* What is written is what is appended.
LEMMA Written ==
  ASSUME log \in Seq(Events), NEW es \in Seq(Events), Write(es)
  PROVE  /\ Grows
         /\ \A i \in New : i - Len(log) \in DOMAIN es /\ log'[i] = es[i - Len(log)]
         /\ \A k \in DOMAIN es : Len(log) + k \in New /\ log'[Len(log) + k] = es[k]
         /\ Len(log') = Len(log) + Len(es)
BY DEF Write, Grows, New

LEMMA Unwritten ==
  ASSUME log \in Seq(Events), UNCHANGED log
  PROVE  Grows /\ New = {}
BY DEF Grows, New

LEMMA EventType ==
  ASSUME NEW p \in Ps, NEW type \in Types, NEW c \in Calls \cup {NoCall}
  PROVE  /\ Event(p, type, c) \in Events
         /\ Event(p, type, c).type = type /\ Event(p, type, c).call = c /\ Event(p, type, c).by = p
BY DEF Event, Events

LEMMA PlainSeq ==
  ASSUME NEW p \in Ps, NEW types \in Seq(Types)
  PROVE  /\ Plain(p, types) \in Seq(Events) /\ Len(Plain(p, types)) = Len(types)
         /\ DOMAIN Plain(p, types) = 1 .. Len(types)
         /\ \A i \in 1 .. Len(types) :
              /\ Plain(p, types)[i].type = types[i] /\ Plain(p, types)[i].call = NoCall
              /\ Plain(p, types)[i].by = p
<1>. DEFINE s == Plain(p, types)
<1>1. \A i \in 1 .. Len(types) : types[i] \in Types
  OBVIOUS
<1>2. \A i \in 1 .. Len(types) : s[i] \in Events /\ s[i].type = types[i] /\ s[i].call = NoCall /\ s[i].by = p
  BY <1>1, EventType DEF Plain
<1>3. s = [i \in 1 .. Len(types) |-> s[i]]
  BY DEF Plain
<1>4. Len(types) \in Nat /\ DOMAIN s = 1 .. Len(types)
  BY DEF Plain
<1>. HIDE DEF s
<1>5. s \in [1 .. Len(types) -> Events]
  BY <1>2, <1>3, <1>4
<1>6. s \in Seq(Events) /\ Len(s) = Len(types)
  BY <1>4, <1>5
<1>. QED
  BY <1>2, <1>4, <1>6 DEF s

-----------------------------------------------------------------------------
(* What a longer log keeps. *)

LEMMA HasGrown ==
  ASSUME log \in Seq(Events), Grows, NEW c
  PROVE  /\ HasResult(c) => HasResult(c)'
         /\ HasResult(c)' => HasResult(c) \/ \E i \in New : log'[i].type \in Results /\ log'[i].call = c
         /\ \A i \in New : log'[i].type \in Results /\ log'[i].call = c => HasResult(c)'
BY Domains DEF HasResult, Grows, New

LEMMA TerminalsGrown ==
  ASSUME log \in Seq(Events), Grows, Without({"terminal"})
  PROVE  Terminals' = Terminals
BY Domains DEF Terminals, Grows, New, Without

LEMMA ErrorsGrown ==
  ASSUME log \in Seq(Events), Grows
  PROVE  /\ Without({"error"}) => Errors' = Errors
         /\ Errors \subseteq Errors'
         /\ \A c : GivenUp(c) => GivenUp(c)'
<1>1. (Without({"error"}) => Errors' = Errors) /\ Errors \subseteq Errors'
  BY Domains DEF Errors, Grows, New, Without
<1>2. ASSUME NEW c, GivenUp(c)
      PROVE  GivenUp(c)'
  <2>1. PICK e \in Errors : \E i \in 1 .. e : log[i] = Event(log[e].by, "marker", c)
    BY <1>2 DEF GivenUp
  <2>0. PICK i \in 1 .. e : log[i] = Event(log[e].by, "marker", c)
    BY <2>1
  <2>2. e \in DOMAIN log /\ i \in DOMAIN log
    BY <2>1, Domains DEF Errors, Grows
  <2>3. log'[i] = Event(log'[e].by, "marker", c)
    BY <2>0, <2>2 DEF Grows
  <2>. QED
    BY <1>1, <2>1, <2>3 DEF GivenUp, Event
<1>. QED
  BY <1>1, <1>2

LEMMA OneResultKept ==
  ASSUME log \in Seq(Events), Grows, OneResult,
         \A i \in New : log'[i].type \in Results =>
           /\ \A c : c = log'[i].call => ~HasResult(c) \/ GivenUp(c)'
           /\ \A j \in New : log'[j].type \in Results /\ log'[j].call = log'[i].call => i = j
  PROVE  OneResult'
<1>1. \A i \in DOMAIN log' : (i \in DOMAIN log /\ log'[i] = log[i]) \/ i \in New
  BY DEF Grows, New
<1>2. \A c : GivenUp(c) => GivenUp(c)'
  BY ErrorsGrown
<1>3. ASSUME NEW i \in DOMAIN log', NEW j \in DOMAIN log', NEW c, c = log'[i].call,
             log'[i].type \in Results, log'[j].type \in Results, log'[j].call = c, i # j
      PROVE  GivenUp(c)'
  <2>1. CASE i \in New /\ j \in New
    BY <2>1, <1>3
  <2>2. CASE i \in New /\ j \in DOMAIN log /\ log'[j] = log[j]
    <3>1. HasResult(c)
      BY <2>2, <1>3 DEF HasResult
    <3>. QED
      BY <3>1, <2>2, <1>3
  <2>3. CASE j \in New /\ i \in DOMAIN log /\ log'[i] = log[i]
    <3>1. HasResult(c)
      BY <2>3, <1>3 DEF HasResult
    <3>. QED
      BY <3>1, <2>3, <1>3
  <2>4. CASE i \in DOMAIN log /\ log'[i] = log[i] /\ j \in DOMAIN log /\ log'[j] = log[j]
    <3>1. GivenUp(c)
      BY <2>4, <1>3 DEF OneResult
    <3>. QED
      BY <3>1, <1>2
  <2>. QED
    BY <1>1, <2>1, <2>2, <2>3, <2>4
<1>. QED
  BY <1>3 DEF OneResult, GivenUp, Errors

LEMMA SettledOld ==
  ASSUME log \in Seq(Events), Grows, Settled, NEW t \in Terminals \cup Errors, NEW i \in 1 .. t,
         log'[i].type = "end", log'[i].by = log'[t].by
  PROVE  \E r \in 1 .. t : log'[r].type \in Results /\ log'[r].call = log'[i].call
<1>1. t \in DOMAIN log /\ DOMAIN log = 1 .. Len(log) /\ Len(log) \in Nat
  BY DEF Terminals, Errors
<1>2. \A j \in 1 .. t : j \in DOMAIN log /\ log'[j] = log[j]
  BY <1>1 DEF Grows
<1>3. t \in 1 .. t
  BY <1>1
<1>. QED
  BY <1>2, <1>3 DEF Settled

LEMMA SettledKept ==
  ASSUME log \in Seq(Events), Grows, Without({"terminal"}), Without({"error"}), Settled
  PROVE  Settled'
<1>1. Terminals' = Terminals /\ Errors' = Errors
  BY TerminalsGrown, ErrorsGrown
<1>. QED
  BY <1>1, SettledOld DEF Settled

LEMMA ClosedKept ==
  ASSUME log \in Seq(Events), Grows, Without({"terminal"}), ClosedOk,
         \A p : \A c \in Calls : Remembered(p, c) => Remembered(p, c)'
  PROVE  ClosedOk'
<1>1. ASSUME NEW t \in Terminals, NEW i \in 1 .. t, log'[i].type = "end", log'[i].by = log'[t].by,
             NEW p, p = log'[t].by, NEW c, c = log'[i].call
      PROVE  c \in Calls /\ Remembered(p, c)'
  <2>1. t \in DOMAIN log /\ DOMAIN log = 1 .. Len(log) /\ Len(log) \in Nat
    BY DEF Terminals
  <2>2. log'[i] = log[i] /\ log'[t] = log[t]
    BY <2>1 DEF Grows
  <2>3. c \in Calls /\ Remembered(p, c)
    BY <1>1, <2>2 DEF ClosedOk
  <2>. QED
    BY <2>3
<1>. QED
  BY <1>1, TerminalsGrown DEF ClosedOk, Remembered

LEMMA FlushLastKept ==
  ASSUME log \in Seq(Events), Grows, FlushLast, Without({"extracted"})
  PROVE  FlushLast'
BY Domains DEF FlushLast, Grows, New, Without

LEMMA EndOkKept ==
  ASSUME log \in Seq(Events), Grows, EndOk, Without({"terminal"}),
         \A t \in Terminals : \A i \in New : Afterwards(t, log'[i])
  PROVE  EndOk'
<1>. SUFFICES ASSUME NEW t \in Terminals
              PROVE  /\ \E i \in 1 .. t : log'[i].type = "status" /\ log'[i].by = log'[t].by
                     /\ \A i \in t + 1 .. Len(log') : Afterwards(t, log[i])'
  BY TerminalsGrown DEF EndOk
<1>1. t \in DOMAIN log /\ DOMAIN log = 1 .. Len(log) /\ Len(log) \in Nat /\ t \in 1 .. t
  BY DEF Terminals
<1>2. \A j \in 1 .. t : j \in DOMAIN log /\ log'[j] = log[j]
  BY <1>1 DEF Grows
<1>3. \A e : Afterwards(t, e) => Afterwards(t, e)'
  BY <1>1, <1>2 DEF Afterwards
<1>4. ASSUME NEW i \in t + 1 .. Len(log')
      PROVE  Afterwards(t, log'[i])
  <2>1. CASE i \in DOMAIN log
    BY <2>1, <1>1 DEF EndOk, Grows
  <2>2. CASE i \notin DOMAIN log
    <3>1. i \in New
      BY <2>2, <1>1, Domains DEF New, Grows
    <3>. QED
      BY <3>1
  <2>. QED
    BY <2>1, <2>2
<1>5. \A i \in t + 1 .. Len(log') : Afterwards(t, log[i])'
  <2>. TAKE i \in t + 1 .. Len(log')
  <2>1. Afterwards(t, log'[i])
    BY <1>4
  <2>. QED
    BY <2>1, <1>1, <1>2 DEF Afterwards
<1>. QED
  BY <1>1, <1>2, <1>5 DEF EndOk

-----------------------------------------------------------------------------
(* The markers that end a pipeline: one for each call it still owes one. *)

Owed(p, settled) == {c \in awaiting[p] \ settled : c \notin delivered[p]}

LEMMA OneEach ==
  ASSUME NEW S, IsFiniteSet(S)
  PROVE  /\ SetToSeq(S) \in [1 .. Cardinality(S) -> S] /\ Cardinality(S) \in Nat
         /\ \A i, j \in 1 .. Cardinality(S) : SetToSeq(S)[i] = SetToSeq(S)[j] => i = j
         /\ \A c \in S : \E i \in 1 .. Cardinality(S) : SetToSeq(S)[i] = c
<1>. DEFINE n == Cardinality(S)
            I == 1 .. n
<1>1. n \in Nat /\ ExistsBijection(I, S)
  BY FS_CardinalityType
<1>2. PICK g \in Bijection(I, S) : TRUE
  BY <1>1 DEF ExistsBijection
<1>3. g \in [I -> S] /\ IsInjective(g)
  BY <1>2 DEF Bijection, Injection
<1>4. SetToSeq(S) \in [I -> S] /\ IsInjective(SetToSeq(S))
  BY <1>3 DEF SetToSeq
<1>5. Cardinality(I) = n
  BY <1>1, FS_Interval, 1 \in Int, n \in Int
<1>6. SetToSeq(S) \in Injection(I, S)
  BY <1>4 DEF Injection
<1>7. SetToSeq(S) \in Surjection(I, S)
  BY <1>5, <1>6, FS_Injection
<1>. QED
  BY <1>1, <1>4, <1>7 DEF IsInjective, Surjection

LEMMA FlushedSeq ==
  ASSUME TypeOK, NEW p \in Ps, NEW settled
  PROVE  /\ Flushed(p, settled) \in Seq(Events)
         /\ \A i \in DOMAIN Flushed(p, settled) :
              /\ Flushed(p, settled)[i].type = "marker" /\ Flushed(p, settled)[i].by = p
              /\ Flushed(p, settled)[i].call \in Owed(p, settled)
              /\ \A j \in DOMAIN Flushed(p, settled) : Flushed(p, settled)[j].call = Flushed(p, settled)[i].call => i = j
         /\ \A c \in Owed(p, settled) : \E i \in DOMAIN Flushed(p, settled) : Flushed(p, settled)[i].call = c
<1>. DEFINE S == {c \in awaiting[p] \ settled : Fresh(p, c, "marker") # <<>>}
            calls == SetToSeq(S)
            n == Cardinality(S)
            s == [i \in DOMAIN calls |-> Event(p, "marker", calls[i])]
<1>1. S = Owed(p, settled)
  <2>1. \A c : Fresh(p, c, "marker") # <<>> <=> c \notin delivered[p]
    BY DEF Fresh
  <2>. QED
    BY <2>1 DEF Owed
<1>2. S \subseteq Calls
  BY DEF TypeOK
<1>3. IsFiniteSet(S)
  BY <1>2, CallsOk, FS_Subset
<1>4. Flushed(p, settled) = s
  BY DEF Flushed
<1>. HIDE DEF S
<1>5. /\ calls \in [1 .. n -> S] /\ n \in Nat
      /\ \A i, j \in 1 .. n : calls[i] = calls[j] => i = j
      /\ \A c \in S : \E i \in 1 .. n : calls[i] = c
  BY <1>3, OneEach
<1>. HIDE DEF calls, n
<1>6. \A i \in 1 .. n : s[i] \in Events /\ s[i].type = "marker" /\ s[i].call = calls[i] /\ s[i].by = p
  <2>. TAKE i \in 1 .. n
  <2>1. calls[i] \in Calls /\ s[i] = Event(p, "marker", calls[i])
    BY <1>2, <1>5
  <2>. QED
    BY <2>1, EventType DEF Types
<1>7. DOMAIN s = 1 .. n /\ s = [i \in 1 .. n |-> s[i]]
  BY <1>5
<1>. HIDE DEF s
<1>8. s \in Seq(Events)
  BY <1>5, <1>6, <1>7
<1>9. \A i \in DOMAIN s : s[i].call \in S /\ \A j \in DOMAIN s : s[j].call = s[i].call => i = j
  BY <1>5, <1>6, <1>7
<1>10. \A c \in S : \E i \in DOMAIN s : s[i].call = c
  BY <1>5, <1>6, <1>7
<1>. QED
  BY <1>1, <1>4, <1>6, <1>7, <1>8, <1>9, <1>10

-----------------------------------------------------------------------------
(* A step that writes neither an end nor a result nor a terminal event. *)

LEMMA AsideKeeps ==
  ASSUME EInv, Grows, UNCHANGED <<tool, startedBy, bridge, cur>>, StageOk', stage' \in Stages,
         memory' \in {"none", "running", "late", "settled"}, title' \in {"running", "done"},
         Without({"end", "result", "marker", "error", "terminal"}), FlushLast',
         \A i \in New : log'[i].by \leq cur,
         stage' = stage \/ stage \notin {"suspended", "closed", "gone"},
         stage \in {"closed", "gone"} => \A i \in New : log'[i].type = "title"
  PROVE  EInv'
<1>1. log \in Seq(Events) /\ log' \in Seq(Events)
  BY DEF EInv, TypeOK, Grows
<1>2. TypeOK'
  BY <1>1 DEF EInv, TypeOK, bridge
<1>3. \A i \in New : log'[i].type \notin Results
  BY DEF Without, Results
<1>4. \A c : HasResult(c)' <=> HasResult(c)
  BY <1>1, <1>3, HasGrown
<1>14. \A c : GivenUp(c) => GivenUp(c)'
  BY <1>1, ErrorsGrown
<1>5. OneResult'
  BY <1>1, <1>3, OneResultKept DEF EInv
<1>6. DeliveredOk'
  BY <1>4, <1>14 DEF EInv, DeliveredOk, bridge
<1>7. ToolOk'
  BY <1>4, <1>14 DEF EInv, ToolOk
<1>8. AwaitingOk'
  BY DEF EInv, AwaitingOk, bridge
<1>9. EndsOk'
  <2>1. \A i \in DOMAIN log' : (i \in DOMAIN log /\ log'[i] = log[i]) \/ i \in New
    BY <1>1, Domains DEF Grows, New
  <2>2. \A i \in DOMAIN log' : log'[i].by \leq cur
    BY <2>1 DEF EInv, EndsOk
  <2>3. ASSUME stage' \notin {"suspended", "gone"}, NEW i \in DOMAIN log', log'[i].type = "end", log'[i].by = cur
        PROVE  Seen(cur, log'[i].call)
    <3>1. i \in DOMAIN log /\ log'[i] = log[i]
      BY <2>1, <2>3 DEF Without
    <3>2. stage \notin {"suspended", "gone"}
      BY <2>3
    <3>. QED
      BY <2>3, <3>1, <3>2 DEF EInv, EndsOk
  <2>. QED
    BY <2>2, <2>3 DEF EndsOk, Seen, bridge
<1>10. Without({"terminal"}) /\ Without({"error"})
  BY DEF Without
<1>11. Settled'
  BY <1>1, <1>10, SettledKept DEF EInv
<1>12. EndOk'
  <2>1. ASSUME NEW t \in Terminals, NEW i \in New
        PROVE  Afterwards(t, log'[i])
    <3>1. stage \in {"closed", "gone"}
      BY <2>1 DEF EInv, StageOk
    <3>. QED
      BY <3>1 DEF Afterwards
  <2>. QED
    BY <1>1, <1>10, <2>1, EndOkKept DEF EInv
<1>13. ClosedOk'
  BY <1>1, <1>10, ClosedKept DEF EInv, Remembered, bridge
<1>. QED
  BY <1>13, <1>2, <1>5, <1>6, <1>7, <1>8, <1>9, <1>11, <1>12 DEF EInv

LEMMA Emitted ==
  ASSUME TypeOK, NEW p \in Ps, NEW types \in Seq(Types), Emit(p, types)
  PROVE  /\ Grows /\ UNCHANGED bridge
         /\ \A i \in New : \E k \in 1 .. Len(types) :
              i = Len(log) + k /\ log'[i].type = types[k] /\ log'[i].by = p
         /\ \A k \in 1 .. Len(types) :
              Len(log) + k \in New /\ log'[Len(log) + k].type = types[k] /\ log'[Len(log) + k].by = p
<1>. DEFINE es == Plain(p, types)
<1>1. log \in Seq(Events)
  BY DEF TypeOK
<1>2. /\ es \in Seq(Events) /\ DOMAIN es = 1 .. Len(types)
      /\ \A k \in 1 .. Len(types) : es[k].type = types[k] /\ es[k].by = p
  BY PlainSeq
<1>3. Write(es) /\ UNCHANGED bridge
  BY DEF Emit
<1>. HIDE DEF es
<1>4. /\ Grows
      /\ \A i \in New : i - Len(log) \in DOMAIN es /\ log'[i] = es[i - Len(log)]
      /\ \A k \in DOMAIN es : Len(log) + k \in New /\ log'[Len(log) + k] = es[k]
  BY <1>1, <1>2, <1>3, Written
<1>5. ASSUME NEW i \in New
      PROVE  \E k \in 1 .. Len(types) : i = Len(log) + k /\ log'[i].type = types[k] /\ log'[i].by = p
  <2>1. i \in Nat /\ Len(log) \in Nat
    BY <1>1, <1>4, Domains DEF New, Grows
  <2>2. i - Len(log) \in 1 .. Len(types) /\ i = Len(log) + (i - Len(log))
    BY <1>2, <1>4, <2>1
  <2>. QED
    BY <1>2, <1>4, <2>2
<1>. QED
  BY <1>2, <1>3, <1>4, <1>5

LEMMA CurOk ==
  ASSUME EInv
  PROVE  cur \in Ps /\ 1 \in Ps /\ 1 \leq cur /\ cur \leq cur /\ log \in Seq(Events) /\ TypeOK
BY PipelinesOk DEF EInv, TypeOK, Ps

\* Plain steps that write nothing.
LEMMA Quietly ==
  ASSUME EInv, UNCHANGED <<log, cur, tool, startedBy, bridge>>, StageOk', stage' \in Stages,
         memory' \in {"none", "running", "late", "settled"}, title' \in {"running", "done"},
         stage' = stage \/ stage \notin {"suspended", "closed", "gone"}
  PROVE  EInv'
<1>1. Grows /\ New = {}
  BY CurOk, Unwritten
<1>2. FlushLast'
  BY DEF EInv, FlushLast
<1>3. Without({"end", "result", "marker", "error", "terminal"})
  BY <1>1 DEF Without
<1>. QED
  BY <1>1, <1>2, <1>3, AsideKeeps

LEMMA FinishAgentKeeps == EInv /\ FinishAgent => EInv'
<1>. SUFFICES ASSUME EInv, FinishAgent PROVE EInv'
  OBVIOUS
<1>1. /\ UNCHANGED <<log, cur, tool, startedBy, bridge, title>>
      /\ stage = "streaming" /\ stage' = "flushing" /\ memory' = "running"
  BY DEF FinishAgent, Streaming, Go
<1>2. StageOk'
  BY <1>1 DEF EInv, StageOk, Terminals
<1>3. title \in {"running", "done"}
  BY DEF EInv, TypeOK
<1>. QED
  BY <1>1, <1>2, <1>3, Quietly DEF Stages

LEMMA CancelKeeps == EInv /\ (CancelRun \/ Disconnect) => EInv'
<1>. SUFFICES ASSUME EInv, CancelRun \/ Disconnect PROVE EInv'
  OBVIOUS
<1>1. /\ UNCHANGED <<log, cur, tool, startedBy, bridge, title, memory>>
      /\ stage = "streaming" /\ stage' \in {"canceling", "gone"}
  BY DEF CancelRun, Disconnect, Streaming, Go
<1>2. StageOk'
  BY <1>1 DEF EInv, StageOk, Terminals
<1>3. title \in {"running", "done"} /\ memory \in {"none", "running", "late", "settled"}
  BY DEF EInv, TypeOK
<1>. QED
  BY <1>1, <1>2, <1>3, Quietly DEF Stages

\* A step of the finalizer that writes plain events, where a status may be.
LEMMA AsideEmits ==
  ASSUME EInv, NEW p \in Ps, p \leq cur, NEW types \in Seq(Types), Emit(p, types),
         \A k \in 1 .. Len(types) : types[k] \in {"asked", "status", "flush", "title", "extracted"},
         UNCHANGED <<cur, tool, startedBy>>, stage' \in Stages,
         memory' \in {"none", "running", "late", "settled"}, title' \in {"running", "done"},
         stage' = stage \/ stage \notin {"suspended", "closed", "gone"},
         stage \in {"closed", "gone"} => \A k \in 1 .. Len(types) : types[k] = "title",
         \A k \in 1 .. Len(types) : types[k] = "extracted" => memory = "running" /\ Len(types) = 1,
         stage' = "closing" => stage = "closing" \/ (p = cur /\ \E k \in 1 .. Len(types) : types[k] = "status"),
         memory' = "running" => stage' = "flushing" /\ memory = "running",
         stage' \in {"streaming", "suspended"} \/ memory' = "running" =>
           /\ stage \in {"streaming", "suspended"} \/ memory = "running"
           /\ \A k \in 1 .. Len(types) : types[k] \notin {"flush", "extracted"}
  PROVE  EInv'
<1>1. log \in Seq(Events) /\ TypeOK
  BY CurOk
<1>2. /\ Grows /\ UNCHANGED bridge
      /\ \A i \in New : \E k \in 1 .. Len(types) :
           i = Len(log) + k /\ log'[i].type = types[k] /\ log'[i].by = p
      /\ \A k \in 1 .. Len(types) :
           Len(log) + k \in New /\ log'[Len(log) + k].type = types[k] /\ log'[Len(log) + k].by = p
  BY <1>1, Emitted
<1>3. Without({"end", "result", "marker", "error", "terminal"}) /\ Without({"terminal"})
  BY <1>2 DEF Without
<1>4. \A i \in New : log'[i].by \leq cur
  BY <1>2
<1>5. stage \in {"closed", "gone"} => \A i \in New : log'[i].type = "title"
  BY <1>2
<1>6. \A i \in DOMAIN log' : (i \in DOMAIN log /\ log'[i] = log[i]) \/ i \in New
  BY <1>2 DEF Grows, New
<1>7. FlushLast'
  <2>1. CASE \E k \in 1 .. Len(types) : types[k] = "extracted"
    <3>1. memory = "running" /\ Len(types) = 1
      BY <2>1
    <3>2. \A i \in DOMAIN log : log[i].type # "flush"
      BY <3>1 DEF EInv, StageOk
    <3>3. \A i \in New : log'[i].type # "flush"
      BY <2>1, <3>1, <1>2
    <3>. QED
      BY <1>6, <3>2, <3>3 DEF FlushLast
  <2>2. CASE ~\E k \in 1 .. Len(types) : types[k] = "extracted"
    <3>1. Without({"extracted"})
      BY <2>2, <1>2 DEF Without
    <3>. QED
      BY <3>1, <1>1, <1>2, FlushLastKept DEF EInv
  <2>. QED
    BY <2>1, <2>2
<1>8. StageOk'
  <2>1. Terminals' # {} => stage' \in {"closed", "gone"}
    BY <1>1, <1>2, <1>3, TerminalsGrown DEF EInv, StageOk
  <2>2. stage' = "closing" => \E i \in DOMAIN log' : log'[i].type = "status" /\ log'[i].by = cur
    <3>1. CASE stage = "closing"
      BY <3>1, <1>2 DEF EInv, StageOk, Grows
    <3>2. CASE p = cur /\ \E k \in 1 .. Len(types) : types[k] = "status"
      BY <3>2, <1>2 DEF New
    <3>. QED
      BY <3>1, <3>2
  <2>3. stage' \in {"streaming", "suspended"} \/ memory' = "running" =>
          \A i \in DOMAIN log' : log'[i].type \notin {"flush", "extracted"}
    <3>. SUFFICES ASSUME stage' \in {"streaming", "suspended"} \/ memory' = "running", NEW i \in DOMAIN log'
                  PROVE  log'[i].type \notin {"flush", "extracted"}
      OBVIOUS
    <3>1. CASE i \in DOMAIN log /\ log'[i] = log[i]
      BY <3>1 DEF EInv, StageOk
    <3>2. CASE i \in New
      BY <3>2, <1>2
    <3>. QED
      BY <3>1, <3>2, <1>6
  <2>. QED
    BY <2>1, <2>2, <2>3 DEF StageOk
<1>. QED
  BY <1>2, <1>3, <1>4, <1>5, <1>7, <1>8, AsideKeeps

LEMMA NoEvents ==
  /\ <<>> \in Seq(Types) /\ Len(<<>>) = 0
  /\ \A type \in Types : <<type>> \in Seq(Types) /\ Len(<<type>>) = 1 /\ <<type>>[1] = type
OBVIOUS

LEMMA Typed ==
  ASSUME EInv
  PROVE  stage \in Stages /\ memory \in {"none", "running", "late", "settled"} /\ title \in {"running", "done"}
BY DEF EInv, TypeOK

LEMMA TitleKeeps == EInv /\ TitleReady => EInv'
<1>. SUFFICES ASSUME EInv, TitleReady PROVE EInv'
  OBVIOUS
<1>1. Emit(1, <<"title">>) /\ UNCHANGED <<cur, stage, tool, startedBy, memory>> /\ title' = "done"
  BY DEF TitleReady
<1>2. memory = "running" => stage = "flushing"
  BY DEF EInv, StageOk
<1>. DEFINE types == <<"title">>
<1>3. types \in Seq(Types) /\ Len(types) = 1 /\ types[1] = "title"
  BY NoEvents DEF Types
<1>. HIDE DEF types
<1>4. Emit(1, types)
  BY <1>1 DEF types
<1>. QED
  BY <1>1, <1>2, <1>3, <1>4, CurOk, Typed, AsideEmits

LEMMA ReportKeeps == EInv /\ ReportStatus => EInv'
<1>. SUFFICES ASSUME EInv, ReportStatus PROVE EInv'
  OBVIOUS
<1>. DEFINE types == <<"status">>
<1>1. /\ Emit(cur, types) /\ UNCHANGED <<cur, tool, startedBy, memory, title>>
      /\ stage \in {"syncing", "canceling"} /\ stage' = "closing"
  BY DEF ReportStatus, Go
<1>2. types \in Seq(Types) /\ Len(types) = 1 /\ types[1] = "status"
  BY NoEvents DEF Types
<1>. HIDE DEF types
<1>3. memory # "running"
  BY <1>1 DEF EInv, StageOk
<1>. QED
  BY <1>1, <1>2, <1>3, CurOk, Typed, AsideEmits DEF Stages

LEMMA DeclineKeeps == EInv /\ Decline => EInv'
<1>. SUFFICES ASSUME EInv, Decline PROVE EInv'
  OBVIOUS
<1>. DEFINE types == <<"asked", "status">>
<1>1. /\ Emit(cur, types) /\ UNCHANGED <<cur, tool, startedBy, memory, title>>
      /\ stage = "streaming" /\ stage' = "closing"
  BY DEF Decline, Streaming, Go
<1>2. types \in Seq(Types) /\ Len(types) = 2 /\ types[1] = "asked" /\ types[2] = "status"
  BY DEF Types
<1>. HIDE DEF types
<1>3. memory # "running"
  BY <1>1 DEF EInv, StageOk
<1>. QED
  BY <1>1, <1>2, <1>3, CurOk, Typed, AsideEmits DEF Stages

LEMMA TimesOutKeeps == EInv /\ MemoryTimesOut => EInv'
<1>. SUFFICES ASSUME EInv, MemoryTimesOut PROVE EInv'
  OBVIOUS
<1>. DEFINE types == <<"flush">>
<1>1. /\ Emit(cur, types) /\ UNCHANGED <<cur, tool, startedBy, title>>
      /\ stage = "flushing" /\ stage' = "syncing" /\ memory' = "late"
  BY DEF MemoryTimesOut, Go
<1>2. types \in Seq(Types) /\ Len(types) = 1 /\ types[1] = "flush"
  BY NoEvents DEF Types
<1>. HIDE DEF types
<1>. QED
  BY <1>1, <1>2, CurOk, Typed, AsideEmits DEF Stages

LEMMA SettlesKeeps ==
  ASSUME EInv, NEW some \in {<<>>, <<"extracted">>, <<"flush">>}, MemorySettles(some)
  PROVE  EInv'
<1>. DEFINE types == Scoped(some)
<1>1. /\ Emit(cur, types) /\ UNCHANGED title /\ memory \in {"running", "late"} /\ memory' = "settled"
      /\ IF memory = "running" THEN Go("syncing") ELSE UNCHANGED <<stage, cur, tool, startedBy>>
  BY DEF MemorySettles
<1>2. /\ types \in Seq(Types) /\ Len(types) \in {0, 1}
      /\ \A k \in 1 .. Len(types) : types[k] \in {"extracted", "flush"} /\ memory = "running"
  <2>1. types = <<>> \/ (memory = "running" /\ \E type \in {"extracted", "flush"} : types = <<type>>)
    BY <1>1 DEF Scoped
  <2>. HIDE DEF types
  <2>2. CASE types = <<>>
    BY <2>2, NoEvents
  <2>3. ASSUME memory = "running", NEW type \in {"extracted", "flush"}, types = <<type>>
        PROVE  types \in Seq(Types) /\ Len(types) = 1 /\ types[1] \in {"extracted", "flush"}
    BY <2>3, NoEvents DEF Types
  <2>. QED
    BY <2>1, <2>2, <2>3
<1>. HIDE DEF types
<1>3. memory = "running" => stage = "flushing"
  BY DEF EInv, StageOk
<1>4. UNCHANGED <<cur, tool, startedBy>>
  BY <1>1 DEF Go
<1>5. stage' = IF memory = "running" THEN "syncing" ELSE stage
  BY <1>1 DEF Go
<1>6. CASE memory = "running"
  <2>1. stage = "flushing" /\ stage' = "syncing" /\ memory' = "settled" /\ title' = title
    BY <1>1, <1>3, <1>5, <1>6
  <2>2. \A k \in 1 .. Len(types) : types[k] \in {"extracted", "flush"} /\ Len(types) = 1
    BY <1>2
  <2>3. types \in Seq(Types) /\ Emit(cur, types)
    BY <1>1, <1>2
  <2>. QED
    BY <1>4, <1>6, <2>1, <2>2, <2>3, CurOk, Typed, AsideEmits DEF Stages
<1>7. CASE memory = "late"
  <2>1. Len(types) = 0 /\ \A k \in 1 .. Len(types) : FALSE
    BY <1>2, <1>7
  <2>. QED
    BY <1>1, <1>2, <1>4, <1>5, <1>7, <2>1, CurOk, Typed, AsideEmits
<1>. QED
  BY <1>1, <1>6, <1>7

-----------------------------------------------------------------------------
(* A result is delivered: the first of its call is written, another is not. *)

Sent(p, c) == Fresh(p, c, "result") \o Projected(p, c)

LEMMA DeliverSeq ==
  ASSUME NEW p \in Ps, NEW c \in Calls, NEW es, es = Sent(p, c)
  PROVE  /\ es \in Seq(Events)
         /\ \A k \in DOMAIN es :
              /\ es[k].type \in {"result", "plan"} /\ es[k].call = c /\ es[k].by = p
              /\ es[k].type = "result" => k = 1 /\ c \notin delivered[p]
         /\ c \notin delivered[p] => 1 \in DOMAIN es /\ es[1].type = "result"
<1>. DEFINE r == Event(p, "result", c)
            q == Event(p, "plan", c)
            f == Fresh(p, c, "result")
            g == Projected(p, c)
<1>1. /\ r \in Events /\ r.type = "result" /\ r.call = c /\ r.by = p
      /\ q \in Events /\ q.type = "plan" /\ q.call = c /\ q.by = p
  BY EventType DEF Types
<1>. HIDE DEF r, q
<1>2. f = IF c \in delivered[p] THEN <<>> ELSE <<r>>
  BY DEF Fresh, r
<1>3. g = IF c \in Tasks \cap named[p] THEN <<q>> ELSE <<>>
  BY DEF Projected, q
<1>4. es = f \o g
  BY DEF Sent
<1>. HIDE DEF f, g
<1>5. f \in Seq(Events) /\ Len(f) = (IF c \in delivered[p] THEN 0 ELSE 1) /\ \A k \in 1 .. Len(f) : f[k] = r
  BY <1>1, <1>2
<1>6. g \in Seq(Events) /\ Len(g) \in {0, 1} /\ \A k \in 1 .. Len(g) : g[k] = q
  BY <1>1, <1>3
<1>7. /\ es \in Seq(Events) /\ DOMAIN es = 1 .. Len(f) + Len(g)
      /\ \A k \in DOMAIN es : es[k] = IF k \leq Len(f) THEN f[k] ELSE g[k - Len(f)]
  BY <1>4, <1>5, <1>6
<1>8. \A k \in DOMAIN es : es[k] = IF k \leq Len(f) THEN r ELSE q
  BY <1>5, <1>6, <1>7
<1>. QED
  BY <1>1, <1>5, <1>6, <1>7, <1>8

LEMMA DeliverWrites ==
  ASSUME EInv, NEW c \in Calls, tool[c] \in {"running", "returned"}, Deliver(startedBy[c], c)
  PROVE  /\ Grows
         /\ \A i \in New :
              /\ log'[i].type \in {"result", "plan"} /\ log'[i].call = c /\ log'[i].by = startedBy[c]
              /\ log'[i].type = "result" => c \notin delivered[startedBy[c]] /\ i = Len(log) + 1
         /\ HasResult(c)'
         /\ \A d : d # c => (HasResult(d)' <=> HasResult(d))
<1>. DEFINE p == startedBy[c]
            es == Sent(p, c)
<1>1. p \in Ps /\ log \in Seq(Events)
  BY DEF EInv, TypeOK
<1>2. c \in delivered[p] => HasResult(c)
  BY <1>1 DEF EInv, DeliveredOk
<1>3. Write(es)
  BY DEF Deliver, Sent
<1>. HIDE DEF es, p
<1>4. /\ es \in Seq(Events)
      /\ \A k \in DOMAIN es :
           /\ es[k].type \in {"result", "plan"} /\ es[k].call = c /\ es[k].by = p
           /\ es[k].type = "result" => k = 1 /\ c \notin delivered[p]
      /\ c \notin delivered[p] => 1 \in DOMAIN es /\ es[1].type = "result"
  BY <1>1, DeliverSeq DEF es
<1>5. /\ Grows
      /\ \A i \in New : i - Len(log) \in DOMAIN es /\ log'[i] = es[i - Len(log)]
      /\ \A k \in DOMAIN es : Len(log) + k \in New /\ log'[Len(log) + k] = es[k]
  BY <1>1, <1>3, <1>4, Written
<1>6. \A i \in New : i \in Nat /\ Len(log) \in Nat
  BY <1>1, <1>5, Domains DEF New, Grows
<1>7. \A i \in New :
        /\ log'[i].type \in {"result", "plan"} /\ log'[i].call = c /\ log'[i].by = p
        /\ log'[i].type = "result" => c \notin delivered[p] /\ i = Len(log) + 1
  BY <1>4, <1>5, <1>6
<1>8. HasResult(c)'
  <2>1. CASE HasResult(c)
    BY <2>1, <1>1, <1>5, HasGrown
  <2>2. CASE ~HasResult(c)
    <3>1. Len(log) + 1 \in New /\ log'[Len(log) + 1].type = "result" /\ log'[Len(log) + 1].call = c
      BY <2>2, <1>2, <1>4, <1>5
    <3>. QED
      BY <3>1, <1>1, <1>5, HasGrown DEF Results
  <2>. QED
    BY <2>1, <2>2
<1>9. \A d : d # c => (HasResult(d)' <=> HasResult(d))
  BY <1>1, <1>5, <1>7, HasGrown
<1>. QED
  BY <1>5, <1>7, <1>8, <1>9 DEF p

LEMMA DeliverKeeps ==
  ASSUME EInv, NEW c \in Calls, tool[c] \in {"running", "returned"}, Deliver(startedBy[c], c),
         NEW s \in {"returned", "done"}, tool' = [tool EXCEPT ![c] = s],
         UNCHANGED <<cur, stage, startedBy, memory, title>>
  PROVE  EInv'
<1>. DEFINE p == startedBy[c]
<1>1. p \in Ps /\ log \in Seq(Events) /\ cur \in Ps /\ p \leq cur
  BY DEF EInv, TypeOK, ToolOk
<1>2. /\ Grows
      /\ \A i \in New :
           /\ log'[i].type \in {"result", "plan"} /\ log'[i].call = c /\ log'[i].by = p
           /\ log'[i].type = "result" => c \notin delivered[p] /\ i = Len(log) + 1
      /\ HasResult(c)'
      /\ \A d : d # c => (HasResult(d)' <=> HasResult(d))
  BY DeliverWrites
<1>3. /\ delivered' = [delivered EXCEPT ![p] = @ \cup {c}]
      /\ awaiting' = [awaiting EXCEPT ![p] = @ \ {c}]
      /\ named' = [named EXCEPT ![p] = @ \ {c}]
  BY DEF Deliver
<1>4. tool \in [Calls -> {"none", "running", "returned", "done", "asked"}] /\ startedBy \in [Calls -> Ps]
  BY DEF EInv, TypeOK
<1>5. delivered \in [Ps -> SUBSET Calls] /\ awaiting \in [Ps -> SUBSET Calls] /\ named \in [Ps -> SUBSET Calls]
  BY DEF EInv, TypeOK
<1>6. Without({"terminal"}) /\ Without({"error"}) /\ Without({"extracted"}) /\ Without({"end"}) /\ Without({"flush"})
  BY <1>2 DEF Without
<1>7. \A i \in DOMAIN log' : (i \in DOMAIN log /\ log'[i] = log[i]) \/ i \in New
  BY <1>2 DEF Grows, New
<1>18. c \notin delivered[p] => ~HasResult(c) \/ GivenUp(c)
  BY DEF EInv, DeliveredOk
<1>19. \A d : GivenUp(d) => GivenUp(d)'
  BY <1>1, <1>2, ErrorsGrown
<1>. HIDE DEF p
<1>8. TypeOK'
  <2>1. delivered' \in [Ps -> SUBSET Calls] /\ awaiting' \in [Ps -> SUBSET Calls] /\ named' \in [Ps -> SUBSET Calls]
    BY <1>1, <1>3, <1>5
  <2>2. tool' \in [Calls -> {"none", "running", "returned", "done", "asked"}]
    BY <1>4
  <2>. QED
    BY <1>2, <2>1, <2>2 DEF EInv, TypeOK, Grows
<1>9. OneResult'
  BY <1>1, <1>2, <1>18, <1>19, OneResultKept DEF EInv, Results
<1>10. DeliveredOk'
  <2>1. \A q \in Ps : \A d \in delivered'[q] : HasResult(d)'
    <3>. TAKE q \in Ps
    <3>. TAKE d \in delivered'[q]
    <3>1. d = c \/ d \in delivered[q]
      BY <1>1, <1>3, <1>5
    <3>. QED
      BY <3>1, <1>2 DEF EInv, DeliveredOk
  <2>2. ASSUME NEW d \in Calls, HasResult(d)'
        PROVE  d \in delivered'[startedBy[d]] \/ tool'[d] = "done" \/ GivenUp(d)'
    <3>1. CASE d = c
      BY <3>1, <1>1, <1>3, <1>5 DEF p
    <3>2. CASE d # c
      <4>1. d \in delivered[startedBy[d]] \/ tool[d] = "done" \/ GivenUp(d)
        BY <2>2, <3>2, <1>2 DEF EInv, DeliveredOk
      <4>. QED
        BY <4>1, <1>19, <3>2, <1>1, <1>3, <1>4, <1>5
    <3>. QED
      BY <3>1, <3>2
  <2>. QED
    BY <2>1, <2>2 DEF DeliveredOk
<1>11. ToolOk'
  <2>1. \A d \in Calls : tool'[d] = IF d = c THEN s ELSE tool[d]
    BY <1>4
  <2>. QED
    BY <2>1, <1>2, <1>19 DEF EInv, ToolOk
<1>12. AwaitingOk'
  <2>1. \A q \in Ps : awaiting'[q] = IF q = p THEN awaiting[q] \ {c} ELSE awaiting[q]
    BY <1>1, <1>3, <1>5
  <2>2. \A d \in Calls : tool'[d] = IF d = c THEN s ELSE tool[d]
    BY <1>4
  <2>3. ASSUME NEW d \in awaiting'[cur]
        PROVE  startedBy[d] = cur /\ tool'[d] \in {"running", "returned", "asked"}
    <3>1. d \in awaiting[cur] /\ d \in Calls
      BY <2>1, <1>1, <1>5
    <3>2. startedBy[d] = cur /\ tool[d] \in {"running", "returned", "asked"}
      BY <3>1 DEF EInv, AwaitingOk
    <3>3. d # c
      BY <3>2, <2>1, <1>1 DEF p
    <3>. QED
      BY <3>1, <3>2, <3>3, <2>2
  <2>4. \A q \in Ps : q > cur => awaiting'[q] = {}
    BY <2>1 DEF EInv, AwaitingOk
  <2>. QED
    BY <2>3, <2>4 DEF AwaitingOk
<1>13. EndsOk'
  <2>1. \A i \in DOMAIN log' : log'[i].by \leq cur
    BY <1>1, <1>2, <1>7 DEF EInv, EndsOk
  <2>2. ASSUME stage \notin {"suspended", "gone"}, NEW i \in DOMAIN log', log'[i].type = "end", log'[i].by = cur,
               NEW d, d = log'[i].call
        PROVE  d \in Calls /\ startedBy[d] = cur /\ tool'[d] # "none" /\ d \in awaiting'[cur] \cup delivered'[cur]
    <3>1. i \in DOMAIN log /\ log'[i] = log[i]
      BY <2>2, <1>6, <1>7 DEF Without
    <3>2. d \in Calls /\ startedBy[d] = cur /\ tool[d] # "none" /\ d \in awaiting[cur] \cup delivered[cur]
      BY <2>2, <3>1 DEF EInv, EndsOk, Seen
    <3>3. d \in awaiting'[cur] \cup delivered'[cur]
      BY <3>2, <1>1, <1>3, <1>5
    <3>. QED
      BY <3>2, <3>3, <1>4
  <2>. QED
    BY <2>1, <2>2 DEF EndsOk, Seen
<1>20. ClosedOk'
  <2>1. ASSUME NEW d \in Calls, NEW q, Remembered(q, d)
        PROVE  Remembered(q, d)'
    <3>1. startedBy[d] \in Ps /\ delivered[startedBy[d]] \subseteq delivered'[startedBy[d]]
      BY <1>1, <1>3, <1>4, <1>5
    <3>2. tool[d] = "done" => tool'[d] = "done"
      BY <1>4
    <3>. QED
      BY <2>1, <3>1, <3>2 DEF Remembered
  <2>. QED
    BY <2>1, <1>1, <1>2, <1>6, ClosedKept DEF EInv
<1>14. Settled'
  BY <1>1, <1>2, <1>6, SettledKept DEF EInv
<1>15. StageOk'
  <2>1. Terminals' = Terminals
    BY <1>1, <1>2, <1>6, TerminalsGrown
  <2>2. stage = "closing" => \E i \in DOMAIN log' : log'[i].type = "status" /\ log'[i].by = cur
    BY <1>2 DEF EInv, StageOk, Grows
  <2>3. stage \in {"streaming", "suspended"} \/ memory = "running" =>
          \A i \in DOMAIN log' : log'[i].type \notin {"flush", "extracted"}
    BY <1>6, <1>7 DEF EInv, StageOk, Without
  <2>. QED
    BY <2>1, <2>2, <2>3 DEF EInv, StageOk
<1>16. FlushLast'
  BY <1>1, <1>2, <1>6, FlushLastKept DEF EInv
<1>17. EndOk'
  <2>1. ASSUME NEW t \in Terminals, NEW i \in New
        PROVE  Afterwards(t, log'[i])
    <3>1. ASSUME log'[i].type = "result", NEW e \in 1 .. t, log[e].type = "end", log[e].call = c
          PROVE  log[e].by # log[t].by
      <4>1. c \notin delivered[startedBy[c]] /\ tool[c] # "done"
        BY <3>1, <1>2 DEF p
      <4>2. ~Remembered(log[t].by, c)
        BY <4>1 DEF Remembered
      <4>. QED
        BY <3>1, <4>2 DEF EInv, ClosedOk
    <3>2. log'[i].type \in {"result", "plan"} /\ log'[i].call = c
      BY <1>2
    <3>. QED
      BY <3>1, <3>2 DEF Afterwards
  <2>. QED
    BY <1>1, <1>2, <1>6, <2>1, EndOkKept DEF EInv
<1>. QED
  BY <1>20, <1>8, <1>9, <1>10, <1>11, <1>12, <1>13, <1>14, <1>15, <1>16, <1>17 DEF EInv

-----------------------------------------------------------------------------
(* A pipeline ends: the markers it owes, then the terminal event. *)

LEMMA Concat ==
  ASSUME NEW S, NEW s \in Seq(S), NEW t \in Seq(S), NEW u, u = s \o t
  PROVE  /\ u \in Seq(S) /\ Len(u) = Len(s) + Len(t)
         /\ \A k \in 1 .. Len(s) : u[k] = s[k]
         /\ \A k \in 1 .. Len(t) : u[Len(s) + k] = t[k]
OBVIOUS

LEMMA ClosingWrites ==
  ASSUME EInv, NEW settled, NEW x \in {"terminal", "error"},
         NEW a \in Seq(Events), \A k \in DOMAIN a : a[k].type \in {"status", "result"} /\ a[k].by = cur,
         Write(a \o Flushed(cur, settled) \o Plain(cur, <<x>>))
  PROVE  /\ Grows /\ Len(log') \in New /\ log'[Len(log')].type = x
         /\ \A i \in New :
              /\ log'[i].type \in {"status", "result", "marker", x} /\ log'[i].by = cur
              /\ log'[i].type = x => i = Len(log')
              /\ log'[i].type = "marker" => log'[i].call \in Owed(cur, settled)
              /\ log'[i].type \in {"status", "result"} =>
                   \E k \in DOMAIN a : i = Len(log) + k /\ log'[i] = a[k]
         /\ \A i, j \in New :
              log'[i].type = "marker" /\ log'[j].type = "marker" /\ log'[i].call = log'[j].call => i = j
         /\ \A c \in Owed(cur, settled) : \E i \in New : log'[i].type = "marker" /\ log'[i].call = c
         /\ \A k \in DOMAIN a : Len(log) + k \in New /\ log'[Len(log) + k] = a[k]
<1>. DEFINE f == Flushed(cur, settled)
            types == <<x>>
            z == Plain(cur, types)
            es == a \o f \o z
<1>1. cur \in Ps /\ log \in Seq(Events) /\ TypeOK
  BY CurOk
<1>2. types \in Seq(Types) /\ Len(types) = 1 /\ types[1] = x
  BY NoEvents DEF Types
<1>3. Write(es)
  OBVIOUS
<1>. HIDE DEF types
<1>4. /\ a \in Seq(Events) /\ Len(a) \in Nat
      /\ \A k \in 1 .. Len(a) : a[k].type \in {"status", "result"} /\ a[k].by = cur
  OBVIOUS
<1>5. z \in Seq(Events) /\ Len(z) = 1 /\ z[1].type = x /\ z[1].by = cur
  BY <1>1, <1>2, PlainSeq
<1>6. /\ f \in Seq(Events)
      /\ \A i \in DOMAIN f :
           /\ f[i].type = "marker" /\ f[i].by = cur /\ f[i].call \in Owed(cur, settled)
           /\ \A j \in DOMAIN f : f[j].call = f[i].call => i = j
      /\ \A c \in Owed(cur, settled) : \E i \in DOMAIN f : f[i].call = c
  BY <1>1, FlushedSeq
<1>. HIDE DEF f, z
<1>. DEFINE m == Len(a)
            n == Len(a) + Len(f)
<1>7. m \in Nat /\ n \in Nat /\ m \leq n /\ DOMAIN a = 1 .. m /\ DOMAIN f = 1 .. n - m
  BY <1>4, <1>6
<1>8. /\ es \in Seq(Events) /\ Len(es) = n + 1 /\ DOMAIN es = 1 .. n + 1
      /\ \A k \in 1 .. n + 1 :
           es[k] = IF k \leq m THEN a[k] ELSE IF k \leq n THEN f[k - m] ELSE z[1]
  <2>. DEFINE b == a \o f
  <2>0. b = a \o f
    OBVIOUS
  <2>2. es = b \o z
    OBVIOUS
  <2>. HIDE DEF b, es
  <2>1. a \in Seq(Events) /\ f \in Seq(Events) /\ z \in Seq(Events) /\ Len(z) = 1
    BY <1>4, <1>5, <1>6
  <2>3. /\ b \in Seq(Events) /\ Len(b) = n
        /\ \A k \in 1 .. m : b[k] = a[k]
        /\ \A k \in 1 .. Len(f) : b[m + k] = f[k]
    BY ONLY <2>0, <2>1, Concat
  <2>. HIDE DEF m, n
  <2>4. /\ es \in Seq(Events) /\ Len(es) = n + 1
        /\ \A k \in 1 .. n : es[k] = b[k]
        /\ es[n + 1] = z[1]
    <3>1. b \in Seq(Events) /\ z \in Seq(Events)
      BY <2>1, <2>3
    <3>2. /\ es \in Seq(Events) /\ Len(es) = Len(b) + Len(z)
          /\ \A k \in 1 .. Len(b) : es[k] = b[k]
          /\ \A k \in 1 .. Len(z) : es[Len(b) + k] = z[k]
      BY ONLY <2>2, <3>1, Concat
    <3>. QED
      BY <2>1, <2>3, <3>2
  <2>5. DOMAIN es = 1 .. n + 1
    BY <2>4
  <2>6. ASSUME NEW k \in 1 .. n + 1
        PROVE  es[k] = IF k \leq m THEN a[k] ELSE IF k \leq n THEN f[k - m] ELSE z[1]
    <3>1. CASE k \leq m
      <4>1. k \in 1 .. m /\ k \in 1 .. n
        BY <1>7, <3>1
      <4>. QED
        BY <2>3, <2>4, <3>1, <4>1
    <3>2. CASE ~(k \leq m) /\ k \leq n
      <4>1. k \in 1 .. n /\ k - m \in 1 .. Len(f) /\ m + (k - m) = k
        BY <1>6, <1>7, <3>2
      <4>2. b[m + (k - m)] = f[k - m]
        BY <2>3, <4>1
      <4>. QED
        BY <2>4, <3>2, <4>1, <4>2
    <3>3. CASE ~(k \leq m) /\ ~(k \leq n)
      <4>1. k = n + 1
        BY <1>7, <3>3
      <4>. QED
        BY <2>4, <3>3, <4>1
    <3>4. k \leq m => k \leq n
      BY <1>7
    <3>. QED
      BY <3>1, <3>2, <3>3, <3>4
  <2>. QED
    BY <2>4, <2>5, <2>6
<1>. HIDE DEF es, m, n
<1>9. \A k \in 1 .. n + 1 : k > m /\ k \leq n => k - m \in DOMAIN f
  BY <1>7
<1>10. \A k \in 1 .. n + 1 :
         /\ k \leq m => es[k].type \in {"status", "result"} /\ es[k].by = cur /\ es[k] = a[k]
         /\ k > m /\ k \leq n => es[k].type = "marker" /\ es[k].by = cur /\ es[k].call \in Owed(cur, settled) /\ es[k] = f[k - m]
         /\ k > n => es[k].type = x /\ es[k].by = cur
  <2>. TAKE k \in 1 .. n + 1
  <2>1. k \leq m => es[k] = a[k] /\ k \in 1 .. Len(a)
    BY <1>7, <1>8
  <2>2. k > m /\ k \leq n => es[k] = f[k - m]
    BY <1>7, <1>8
  <2>3. k > n => es[k] = z[1]
    BY <1>7, <1>8
  <2>4. \A i \in DOMAIN f : f[i].type = "marker" /\ f[i].by = cur /\ f[i].call \in Owed(cur, settled)
    BY <1>6
  <2>. QED
    BY <1>4, <1>5, <1>9, <2>1, <2>2, <2>3, <2>4
<1>11. \A k \in 1 .. n + 1 :
         /\ es[k].type \in {"status", "result", "marker", x} /\ es[k].by = cur
         /\ es[k].type = x => k = n + 1
         /\ es[k].type = "marker" => k > m /\ k \leq n /\ es[k].call \in Owed(cur, settled)
         /\ es[k].type \in {"status", "result"} => k \leq m /\ es[k] = a[k]
  BY <1>7, <1>10
<1>12. \A k, l \in 1 .. n + 1 :
         es[k].type = "marker" /\ es[l].type = "marker" /\ es[k].call = es[l].call => k = l
  <2>. TAKE k, l \in 1 .. n + 1
  <2>. HAVE es[k].type = "marker" /\ es[l].type = "marker" /\ es[k].call = es[l].call
  <2>1. k > m /\ k \leq n /\ l > m /\ l \leq n
    BY <1>11
  <2>2. es[k] = f[k - m] /\ es[l] = f[l - m] /\ k - m \in DOMAIN f /\ l - m \in DOMAIN f
    BY <2>1, <1>9, <1>10
  <2>3. k - m = l - m
    BY <2>2, <1>6
  <2>. QED
    BY <2>3, <1>7
<1>13. /\ Grows
       /\ \A i \in New : i - Len(log) \in 1 .. n + 1 /\ log'[i] = es[i - Len(log)]
       /\ \A k \in 1 .. n + 1 : Len(log) + k \in New /\ log'[Len(log) + k] = es[k]
       /\ Len(log') = Len(log) + (n + 1)
  BY <1>1, <1>3, <1>8, Written
<1>14. \A i \in New : i \in Nat /\ Len(log) \in Nat
  BY <1>1, <1>13, Domains DEF New, Grows
<1>15. \A i \in New :
         /\ log'[i].type \in {"status", "result", "marker", x} /\ log'[i].by = cur
         /\ log'[i].type = x => i = Len(log')
         /\ log'[i].type = "marker" => log'[i].call \in Owed(cur, settled)
         /\ log'[i].type \in {"status", "result"} =>
              \E k \in DOMAIN a : i = Len(log) + k /\ log'[i] = a[k]
  <2>. TAKE i \in New
  <2>. DEFINE k == i - Len(log)
  <2>1. k \in 1 .. n + 1 /\ log'[i] = es[k]
    BY <1>13
  <2>2. (k = n + 1 => i = Len(log')) /\ i = Len(log) + k /\ (k \leq m => k \in DOMAIN a)
    BY <2>1, <1>7, <1>13, <1>14
  <2>. HIDE DEF k
  <2>. QED
    BY <1>11, <2>1, <2>2
<1>16. \A i, j \in New : log'[i].type = "marker" /\ log'[j].type = "marker" /\ log'[i].call = log'[j].call => i = j
  <2>. TAKE i, j \in New
  <2>. HAVE log'[i].type = "marker" /\ log'[j].type = "marker" /\ log'[i].call = log'[j].call
  <2>. DEFINE k == i - Len(log)
              l == j - Len(log)
  <2>1. k = l
    <3>1. k \in 1 .. n + 1 /\ l \in 1 .. n + 1 /\ log'[i] = es[k] /\ log'[j] = es[l]
      BY <1>13
    <3>. HIDE DEF k, l
    <3>. QED
      BY <3>1, <1>12
  <2>. QED
    BY <2>1, <1>14
<1>17. Len(log') \in New /\ log'[Len(log')].type = x
  <2>1. n + 1 \in 1 .. n + 1 /\ n + 1 > n
    BY <1>7
  <2>2. es[n + 1].type = x
    BY <2>1, <1>10
  <2>. QED
    BY <2>1, <2>2, <1>13
<1>18. \A c \in Owed(cur, settled) : \E i \in New : log'[i].type = "marker" /\ log'[i].call = c
  <2>. TAKE c \in Owed(cur, settled)
  <2>1. PICK k \in DOMAIN f : f[k].call = c
    BY <1>6
  <2>2. m + k \in 1 .. n + 1 /\ m + k > m /\ m + k \leq n /\ (m + k) - m = k
    BY <1>7
  <2>3. es[m + k].type = "marker" /\ es[m + k].call = c
    BY <2>1, <2>2, <1>10
  <2>. QED
    BY <2>2, <2>3, <1>13
<1>19. \A k \in DOMAIN a : Len(log) + k \in New /\ log'[Len(log) + k] = a[k]
  <2>. TAKE k \in DOMAIN a
  <2>1. k \in 1 .. n + 1 /\ k \leq m
    BY <1>7
  <2>. QED
    BY <2>1, <1>10, <1>13
<1>. HIDE DEF es
<1>. QED
  BY <1>13, <1>15, <1>16, <1>17, <1>18, <1>19

LEMMA TerminalWrites ==
  ASSUME EInv, NEW before \in Seq(Types), \A k \in 1 .. Len(before) : before[k] = "status",
         EmitTerminal(cur, before)
  PROVE  /\ Grows /\ Len(log') \in New /\ log'[Len(log')].type = "terminal"
         /\ \A i \in New :
              /\ log'[i].type \in {"status", "marker", "terminal"} /\ log'[i].by = cur
              /\ log'[i].type = "terminal" => i = Len(log')
              /\ log'[i].type = "marker" => log'[i].call \in Owed(cur, {})
         /\ \A i, j \in New :
              log'[i].type = "marker" /\ log'[j].type = "marker" /\ log'[i].call = log'[j].call => i = j
         /\ \A c \in Owed(cur, {}) : \E i \in New : log'[i].type = "marker" /\ log'[i].call = c
         /\ Len(before) > 0 => \E i \in New : log'[i].type = "status"
<1>. DEFINE a == Plain(cur, before)
            x == "terminal"
            none == {}
<1>1. Write(a \o Flushed(cur, none) \o Plain(cur, <<x>>))
  BY DEF EmitTerminal
<1>2. /\ a \in Seq(Events) /\ DOMAIN a = 1 .. Len(before) /\ Len(before) \in Nat
      /\ \A k \in 1 .. Len(before) : a[k].type = "status" /\ a[k].by = cur
  BY CurOk, PlainSeq
<1>. HIDE DEF a
<1>3. /\ a \in Seq(Events)
      /\ \A k \in DOMAIN a : a[k].type \in {"status", "result"} /\ a[k].by = cur
  BY <1>2
<1>4. x \in {"terminal", "error"}
  OBVIOUS
<1>. HIDE DEF x, none
<1>5. /\ Grows /\ Len(log') \in New /\ log'[Len(log')].type = x
      /\ \A i \in New :
           /\ log'[i].type \in {"status", "result", "marker", x} /\ log'[i].by = cur
           /\ log'[i].type = x => i = Len(log')
           /\ log'[i].type = "marker" => log'[i].call \in Owed(cur, none)
           /\ log'[i].type \in {"status", "result"} =>
                \E k \in DOMAIN a : i = Len(log) + k /\ log'[i] = a[k]
      /\ \A i, j \in New :
           log'[i].type = "marker" /\ log'[j].type = "marker" /\ log'[i].call = log'[j].call => i = j
      /\ \A c \in Owed(cur, none) : \E i \in New : log'[i].type = "marker" /\ log'[i].call = c
      /\ \A k \in DOMAIN a : Len(log) + k \in New /\ log'[Len(log) + k] = a[k]
  BY <1>1, <1>3, <1>4, ClosingWrites
<1>6. \A i \in New : log'[i].type # "result"
  BY <1>2, <1>5
<1>7. Len(before) > 0 => 1 \in DOMAIN a
  BY <1>2
<1>. QED
  BY <1>2, <1>5, <1>6, <1>7 DEF x, none

LEMMA TerminalKeeps ==
  ASSUME EInv, NEW before \in Seq(Types), \A k \in 1 .. Len(before) : before[k] = "status",
         EmitTerminal(cur, before), stage \in {"streaming", "syncing", "closing"}, stage' = "closed",
         Len(before) > 0 \/ stage = "closing", UNCHANGED <<cur, tool, startedBy, memory, title>>
  PROVE  EInv'
<1>. DEFINE owed == Owed(cur, {})
            last == Len(log')
<1>1. cur \in Ps /\ log \in Seq(Events) /\ TypeOK
  BY CurOk
<1>2. /\ Grows /\ last \in New /\ log'[last].type = "terminal"
      /\ \A i \in New :
           /\ log'[i].type \in {"status", "marker", "terminal"} /\ log'[i].by = cur
           /\ log'[i].type = "terminal" => i = last
           /\ log'[i].type = "marker" => log'[i].call \in owed
      /\ \A i, j \in New :
           log'[i].type = "marker" /\ log'[j].type = "marker" /\ log'[i].call = log'[j].call => i = j
      /\ \A c \in owed : \E i \in New : log'[i].type = "marker" /\ log'[i].call = c
      /\ Len(before) > 0 => \E i \in New : log'[i].type = "status"
  BY TerminalWrites
<1>3. /\ delivered' = [delivered EXCEPT ![cur] = @ \cup awaiting[cur]]
      /\ awaiting' = [awaiting EXCEPT ![cur] = {}]
      /\ UNCHANGED named
  BY DEF EmitTerminal
<1>4. delivered \in [Ps -> SUBSET Calls] /\ awaiting \in [Ps -> SUBSET Calls]
  BY DEF EInv, TypeOK
<1>5. \A i \in DOMAIN log' : (i \in DOMAIN log /\ log'[i] = log[i]) \/ i \in New
  BY <1>2 DEF Grows, New
<1>6. DOMAIN log = 1 .. Len(log) /\ Len(log) \in Nat /\ DOMAIN log' = 1 .. last /\ last \in Nat
  BY <1>1, <1>2, Domains DEF Grows
<1>7. Terminals = {}
  BY DEF EInv, StageOk
<1>8. owed = awaiting[cur] \ delivered[cur]
  BY DEF Owed
<1>. HIDE DEF owed, last
<1>24. \A c : GivenUp(c) => GivenUp(c)'
  BY <1>1, <1>2, ErrorsGrown
<1>9. \A c \in owed : (~HasResult(c) \/ GivenUp(c)) /\ c \in Calls /\ startedBy[c] = cur
  BY <1>1, <1>4, <1>8 DEF EInv, AwaitingOk, DeliveredOk
<1>10. \A c : HasResult(c)' <=> HasResult(c) \/ c \in owed
  <2>. TAKE c
  <2>1. HasResult(c)' => HasResult(c) \/ c \in owed
    BY <1>1, <1>2, HasGrown DEF Results
  <2>2. HasResult(c) => HasResult(c)'
    BY <1>1, <1>2, HasGrown
  <2>3. c \in owed => HasResult(c)'
    BY <1>1, <1>2, HasGrown DEF Results
  <2>. QED
    BY <2>1, <2>2, <2>3
<1>11. TypeOK'
  <2>1. delivered' \in [Ps -> SUBSET Calls] /\ awaiting' \in [Ps -> SUBSET Calls]
    BY <1>1, <1>3, <1>4
  <2>. QED
    BY <1>2, <1>3, <2>1 DEF EInv, TypeOK, Grows, Stages
<1>12. OneResult'
  <2>1. \A i \in New : log'[i].type \in Results => log'[i].type = "marker"
    BY <1>2 DEF Results
  <2>2. \A i \in New : log'[i].type \in Results =>
          /\ \A c : c = log'[i].call => ~HasResult(c) \/ GivenUp(c)'
          /\ \A j \in New : log'[j].type \in Results /\ log'[j].call = log'[i].call => i = j
    BY <1>2, <1>9, <1>24, <2>1
  <2>. QED
    BY <1>1, <1>2, <2>2, OneResultKept DEF EInv
<1>13. DeliveredOk'
  <2>1. ASSUME NEW p \in Ps, NEW c \in delivered'[p]
        PROVE  HasResult(c)'
    <3>1. c \in delivered[p] \/ c \in owed
      BY <1>1, <1>3, <1>4, <1>8
    <3>. QED
      BY <3>1, <1>10 DEF EInv, DeliveredOk
  <2>2. ASSUME NEW c \in Calls, HasResult(c)'
        PROVE  c \in delivered'[startedBy[c]] \/ tool[c] = "done" \/ GivenUp(c)'
    <3>1. CASE HasResult(c)
      <4>1. startedBy[c] \in Ps
        BY DEF EInv, TypeOK
      <4>2. delivered[startedBy[c]] \subseteq delivered'[startedBy[c]]
        BY <4>1, <1>3, <1>4
      <4>. QED
        BY <3>1, <4>2, <1>24 DEF EInv, DeliveredOk
    <3>2. CASE c \in owed
      BY <3>2, <1>1, <1>3, <1>4, <1>8, <1>9
    <3>. QED
      BY <3>1, <3>2, <2>2, <1>10
  <2>. QED
    BY <2>1, <2>2 DEF DeliveredOk
<1>14. ToolOk'
  BY <1>24 DEF EInv, ToolOk
<1>15. AwaitingOk'
  BY <1>1, <1>3, <1>4 DEF EInv, AwaitingOk
\* What the pipeline saw end is settled now.
<1>16. ASSUME NEW i \in DOMAIN log', log'[i].type = "end", log'[i].by = cur, NEW c, c = log'[i].call
       PROVE  HasResult(c)' /\ Seen(cur, c) /\ c \in delivered'[cur]
  <2>1. i \in DOMAIN log /\ log'[i] = log[i]
    BY <1>2, <1>5, <1>16
  <2>2. Seen(cur, c)
    BY <2>1, <1>16 DEF EInv, EndsOk
  <2>3. c \in delivered[cur] => HasResult(c)
    BY <1>1 DEF EInv, DeliveredOk
  <2>4. c \in awaiting[cur] \/ c \in delivered[cur]
    BY <2>2 DEF Seen
  <2>5. c \in delivered'[cur]
    BY <2>4, <1>1, <1>3, <1>4
  <2>. QED
    BY <2>2, <2>3, <2>4, <2>5, <1>8, <1>10
<1>17. EndsOk'
  <2>1. \A i \in DOMAIN log' : log'[i].by \leq cur
    BY <1>1, <1>2, <1>5, CurOk DEF EInv, EndsOk
  <2>2. \A i \in DOMAIN log' : log'[i].type = "end" /\ log'[i].by = cur =>
          \A c : c = log'[i].call =>
            c \in Calls /\ startedBy[c] = cur /\ tool[c] # "none" /\ c \in delivered'[cur]
    BY <1>16 DEF Seen
  <2>. QED
    BY <2>1, <2>2 DEF EndsOk, Seen
<1>18. Terminals' = {last}
  <2>1. \A i \in Terminals' : i \in DOMAIN log' /\ log'[i].type = "terminal"
    BY DEF Terminals
  <2>2. \A i \in DOMAIN log : log[i].type # "terminal"
    BY <1>7 DEF Terminals
  <2>3. last \in DOMAIN log'
    BY <1>2 DEF New
  <2>. QED
    BY <1>2, <1>5, <2>1, <2>2, <2>3 DEF Terminals
<1>19. log'[last].by = cur
  BY <1>2
<1>20. Settled'
  <2>0. Errors' = Errors
    BY <1>1, <1>2, ErrorsGrown DEF Without
  <2>1. \A i \in 1 .. last : log'[i].type = "end" /\ log'[i].by = log'[last].by =>
          \E r \in 1 .. last : log'[r].type \in Results /\ log'[r].call = log'[i].call
    BY <1>6, <1>16, <1>19 DEF HasResult
  <2>2. ASSUME NEW t \in Errors, NEW i \in 1 .. t, log'[i].type = "end", log'[i].by = log'[t].by
        PROVE  \E r \in 1 .. t : log'[r].type \in Results /\ log'[r].call = log'[i].call
    <3>1. t \in Terminals \cup Errors
      OBVIOUS
    <3>. QED
      BY <3>1, <2>2, <1>1, <1>2, SettledOld DEF EInv
  <2>. QED
    BY <1>18, <2>0, <2>1, <2>2 DEF Settled
<1>25. ClosedOk'
  <2>1. \A i \in 1 .. last : log'[i].type = "end" /\ log'[i].by = cur =>
          \A c : c = log'[i].call => c \in Calls /\ startedBy[c] = cur /\ c \in delivered'[cur]
    BY <1>6, <1>16 DEF Seen
  <2>. QED
    BY <2>1, <1>18, <1>19 DEF ClosedOk, Remembered
<1>21. StageOk'
  BY DEF EInv, StageOk
<1>22. FlushLast'
  <2>1. Without({"extracted"})
    BY <1>2 DEF Without
  <2>. QED
    BY <1>1, <1>2, <2>1, FlushLastKept DEF EInv
<1>23. EndOk'
  <2>1. \E i \in DOMAIN log' : log'[i].type = "status" /\ log'[i].by = cur
    <3>1. CASE Len(before) > 0
      <4>1. PICK i \in New : log'[i].type = "status"
        BY <3>1, <1>2
      <4>2. i \in DOMAIN log' /\ log'[i].by = cur
        BY <1>2 DEF New
      <4>. QED
        BY <4>1, <4>2
    <3>2. CASE stage = "closing"
      BY <3>2, <1>2 DEF EInv, StageOk, Grows
    <3>. QED
      BY <3>1, <3>2
  <2>2. \A i \in last + 1 .. last : FALSE
    BY <1>6
  <2>3. \E i \in 1 .. last : log'[i].type = "status" /\ log'[i].by = log'[last].by
    BY <2>1, <1>6, <1>19
  <2>4. \A i \in last + 1 .. Len(log') : FALSE
    BY <2>2 DEF last
  <2>. QED
    BY <1>18, <2>3, <2>4 DEF EndOk
<1>. QED
  BY <1>25, <1>11, <1>12, <1>13, <1>14, <1>15, <1>17, <1>20, <1>21, <1>22, <1>23 DEF EInv

LEMMA CloseKeeps == EInv /\ (Close \/ FailRun) => EInv'
<1>. SUFFICES ASSUME EInv, Close \/ FailRun PROVE EInv'
  OBVIOUS
<1>1. CASE Close
  <2>. DEFINE before == <<>>
  <2>1. /\ EmitTerminal(cur, before) /\ stage = "closing" /\ stage' = "closed"
        /\ UNCHANGED <<cur, tool, startedBy, memory, title>>
    BY <1>1 DEF Close, Go
  <2>2. before \in Seq(Types) /\ Len(before) = 0
    BY NoEvents
  <2>. HIDE DEF before
  <2>3. \A k \in 1 .. Len(before) : before[k] = "status"
    BY <2>2
  <2>4. stage \in {"streaming", "syncing", "closing"}
    BY <2>1
  <2>. QED
    BY <2>1, <2>2, <2>3, <2>4, TerminalKeeps
<1>2. CASE FailRun
  <2>. DEFINE before == <<"status">>
  <2>1. /\ EmitTerminal(cur, before) /\ stage \in {"streaming", "syncing", "closing"} /\ stage' = "closed"
        /\ UNCHANGED <<cur, tool, startedBy, memory, title>>
    BY <1>2 DEF FailRun, Go
  <2>2. before \in Seq(Types) /\ Len(before) = 1 /\ before[1] = "status"
    BY NoEvents DEF Types
  <2>. HIDE DEF before
  <2>3. \A k \in 1 .. Len(before) : before[k] = "status"
    BY <2>2
  <2>4. Len(before) > 0
    BY <2>2
  <2>. QED
    BY <2>1, <2>2, <2>3, <2>4, TerminalKeeps
<1>. QED
  BY <1>1, <1>2

LEMMA ResultKeeps ==
  ASSUME EInv, NEW c \in Calls, ToolReturns(c) \/ StreamResult(c)
  PROVE  EInv'
<1>1. CASE StreamResult(c)
  BY <1>1, DeliverKeeps DEF StreamResult
<1>2. CASE ToolReturns(c) /\ c \in Governed
  BY <1>2, DeliverKeeps DEF ToolReturns
<1>3. CASE ToolReturns(c) /\ c \notin Governed
  <2>1. /\ tool[c] = "running" /\ tool' = [tool EXCEPT ![c] = "returned"]
        /\ UNCHANGED <<log, cur, stage, startedBy, delivered, awaiting, named, memory, title>>
    BY <1>3 DEF ToolReturns, bridge
  <2>2. tool \in [Calls -> {"none", "running", "returned", "done", "asked"}]
    BY DEF EInv, TypeOK
  <2>3. \A d \in Calls : tool'[d] = IF d = c THEN "returned" ELSE tool[d]
    BY <2>1, <2>2
  <2>4. \A d : (HasResult(d)' <=> HasResult(d)) /\ (GivenUp(d)' <=> GivenUp(d))
    BY <2>1 DEF HasResult, GivenUp, Errors
  <2>5. TypeOK'
    BY <2>1, <2>2 DEF EInv, TypeOK
  <2>6. DeliveredOk'
    BY <2>1, <2>3, <2>4 DEF EInv, DeliveredOk
  <2>7. ToolOk'
    BY <2>1, <2>3, <2>4 DEF EInv, ToolOk
  <2>8. AwaitingOk'
    <3>1. awaiting[cur] \subseteq Calls
      BY CurOk DEF EInv, TypeOK
    <3>. QED
      BY <2>1, <2>3, <3>1 DEF EInv, AwaitingOk
  <2>9. OneResult' /\ Settled' /\ StageOk' /\ FlushLast' /\ EndOk'
    BY <2>1 DEF EInv, OneResult, GivenUp, Errors, Settled, Terminals, StageOk, FlushLast, EndOk, Afterwards
  <2>10. EndsOk'
    <3>1. \A d : Seen(cur, d) => Seen(cur, d)'
      BY <2>1, <2>3 DEF Seen
    <3>2. ASSUME stage \notin {"suspended", "gone"}, NEW i \in DOMAIN log, log[i].type = "end", log[i].by = cur,
                 NEW d, d = log[i].call
          PROVE  Seen(cur, d)'
      BY <3>1, <3>2 DEF EInv, EndsOk
    <3>3. \A i \in DOMAIN log : log[i].by \leq cur
      BY DEF EInv, EndsOk
    <3>. QED
      BY <2>1, <3>2, <3>3 DEF EndsOk, Seen
  <2>11. ClosedOk'
    <3>1. \A p : \A d \in Calls : Remembered(p, d) => Remembered(p, d)'
      BY <2>1, <2>3 DEF Remembered
    <3>2. Grows /\ New = {} /\ log \in Seq(Events)
      BY <2>1, CurOk, Unwritten
    <3>3. Without({"terminal"})
      BY <3>2 DEF Without
    <3>. QED
      BY <3>1, <3>2, <3>3, ClosedKept DEF EInv
  <2>. QED
    BY <2>10, <2>11, <2>5, <2>6, <2>7, <2>8, <2>9 DEF EInv
<1>. QED
  BY <1>1, <1>2, <1>3

\* The RUN_ERROR of a resume that fails: the result of its call, the markers of
\* the others, and the error, after which the stream goes on.
LEMMA FailsWrites ==
  ASSUME EInv, NEW c \in Calls, ResumeFails(c)
  PROVE  /\ Grows /\ Len(log') \in New /\ log'[Len(log')].type = "error"
         /\ \A i \in New :
              /\ log'[i].type \in {"result", "marker", "error"} /\ log'[i].by = cur
              /\ log'[i].type = "error" => i = Len(log')
              /\ log'[i].type = "marker" => log'[i].call \in Owed(cur, {c})
              /\ log'[i].type = "result" => log'[i].call = c /\ c \notin delivered[cur]
         /\ \A i, j \in New :
              log'[i].type \in Results /\ log'[j].type \in Results /\ log'[i].call = log'[j].call => i = j
         /\ \A d \in Owed(cur, {c}) : \E i \in New : log'[i].type = "marker" /\ log'[i].call = d
         /\ c \notin delivered[cur] => \E i \in New : log'[i].type = "result" /\ log'[i].call = c
<1>. DEFINE a == Fresh(cur, c, "result")
            x == "error"
            only == {c}
            r == Event(cur, "result", c)
<1>1. Write(a \o Flushed(cur, only) \o Plain(cur, <<x>>))
  BY DEF ResumeFails
<1>2. r \in Events /\ r.type = "result" /\ r.call = c /\ r.by = cur
  BY CurOk, EventType DEF Types
<1>3. a = IF c \in delivered[cur] THEN <<>> ELSE <<r>>
  BY DEF Fresh
<1>. HIDE DEF a, r
<1>4. /\ a \in Seq(Events)
      /\ \A k \in DOMAIN a : k = 1 /\ a[k] = r /\ c \notin delivered[cur]
      /\ c \notin delivered[cur] => 1 \in DOMAIN a
  BY <1>2, <1>3
<1>5. \A k \in DOMAIN a : a[k].type \in {"status", "result"} /\ a[k].by = cur
  BY <1>2, <1>4
<1>6. x \in {"terminal", "error"}
  OBVIOUS
<1>. HIDE DEF x, only
<1>7. /\ Grows /\ Len(log') \in New /\ log'[Len(log')].type = x
      /\ \A i \in New :
           /\ log'[i].type \in {"status", "result", "marker", x} /\ log'[i].by = cur
           /\ log'[i].type = x => i = Len(log')
           /\ log'[i].type = "marker" => log'[i].call \in Owed(cur, only)
           /\ log'[i].type \in {"status", "result"} =>
                \E k \in DOMAIN a : i = Len(log) + k /\ log'[i] = a[k]
      /\ \A i, j \in New :
           log'[i].type = "marker" /\ log'[j].type = "marker" /\ log'[i].call = log'[j].call => i = j
      /\ \A d \in Owed(cur, only) : \E i \in New : log'[i].type = "marker" /\ log'[i].call = d
      /\ \A k \in DOMAIN a : Len(log) + k \in New /\ log'[Len(log) + k] = a[k]
  BY <1>1, <1>4, <1>5, <1>6, ClosingWrites
<1>8. \A i \in New :
        log'[i].type \in {"status", "result"} => i = Len(log) + 1 /\ log'[i] = r /\ c \notin delivered[cur]
  BY <1>4, <1>7
<1>9. \A i \in New : log'[i].type = "marker" => log'[i].call # c
  BY <1>7 DEF Owed, only
<1>10. \A i, j \in New :
         log'[i].type \in Results /\ log'[j].type \in Results /\ log'[i].call = log'[j].call => i = j
  BY <1>2, <1>7, <1>8, <1>9 DEF Results
<1>11. c \notin delivered[cur] => \E i \in New : log'[i].type = "result" /\ log'[i].call = c
  BY <1>2, <1>4, <1>7
<1>. QED
  BY <1>2, <1>7, <1>8, <1>10, <1>11 DEF x, only

LEMMA FailsKeeps ==
  ASSUME EInv, NEW c \in Calls, ResumeFails(c)
  PROVE  EInv'
<1>. DEFINE owed == Owed(cur, {c})
            last == Len(log')
<1>1. cur \in Ps /\ log \in Seq(Events) /\ TypeOK
  BY CurOk
<1>2. /\ Grows /\ last \in New /\ log'[last].type = "error"
      /\ \A i \in New :
           /\ log'[i].type \in {"result", "marker", "error"} /\ log'[i].by = cur
           /\ log'[i].type = "error" => i = last
           /\ log'[i].type = "marker" => log'[i].call \in owed
           /\ log'[i].type = "result" => log'[i].call = c /\ c \notin delivered[cur]
      /\ \A i, j \in New :
           log'[i].type \in Results /\ log'[j].type \in Results /\ log'[i].call = log'[j].call => i = j
      /\ \A d \in owed : \E i \in New : log'[i].type = "marker" /\ log'[i].call = d
      /\ c \notin delivered[cur] => \E i \in New : log'[i].type = "result" /\ log'[i].call = c
  BY FailsWrites
<1>3. /\ stage = "streaming" /\ tool[c] = "returned" /\ startedBy[c] = cur
      /\ tool' = [tool EXCEPT ![c] = "done"]
      /\ delivered' = [delivered EXCEPT ![cur] = @ \cup awaiting[cur] \cup {c}]
      /\ awaiting' = [awaiting EXCEPT ![cur] = {}]
      /\ named' = [named EXCEPT ![cur] = @ \ {c}]
      /\ UNCHANGED <<cur, stage, startedBy, memory, title>>
  BY DEF ResumeFails, Streaming
<1>4. /\ delivered \in [Ps -> SUBSET Calls] /\ awaiting \in [Ps -> SUBSET Calls] /\ named \in [Ps -> SUBSET Calls]
      /\ tool \in [Calls -> {"none", "running", "returned", "done", "asked"}] /\ startedBy \in [Calls -> Ps]
  BY DEF EInv, TypeOK
<1>5. \A i \in DOMAIN log' : (i \in DOMAIN log /\ log'[i] = log[i]) \/ i \in New
  BY <1>2 DEF Grows, New
<1>6. DOMAIN log = 1 .. Len(log) /\ Len(log) \in Nat /\ DOMAIN log' = 1 .. last /\ last \in Nat
  BY <1>1, <1>2, Domains DEF Grows
<1>7. Terminals = {} /\ Without({"terminal"}) /\ Without({"extracted"}) /\ Without({"flush"}) /\ Without({"end"})
  BY <1>2, <1>3 DEF EInv, StageOk, Without
<1>8. owed = (awaiting[cur] \ {c}) \ delivered[cur]
  BY DEF Owed
<1>9. /\ \A d \in Calls : tool'[d] = IF d = c THEN "done" ELSE tool[d]
      /\ delivered'[cur] = delivered[cur] \cup awaiting[cur] \cup {c} /\ awaiting'[cur] = {}
      /\ \A p \in Ps : delivered[p] \subseteq delivered'[p]
      /\ \A p \in Ps : p # cur => delivered'[p] = delivered[p] /\ awaiting'[p] = awaiting[p]
  BY <1>1, <1>3, <1>4
<1>. HIDE DEF owed, last
<1>10. \A d : GivenUp(d) => GivenUp(d)'
  BY <1>1, <1>2, ErrorsGrown
\* What got a marker here is given up.
<1>11. \A d \in owed : GivenUp(d)'
  <2>. TAKE d \in owed
  <2>1. PICK i \in New : log'[i].type = "marker" /\ log'[i].call = d
    BY <1>2
  <2>2. i \in DOMAIN log' /\ log' \in Seq(Events) /\ log'[i].by = cur /\ log'[last].by = cur
    BY <1>2, <2>1 DEF New, Grows
  <2>3. log'[i] \in Events /\ i \in 1 .. last
    BY <1>6, <2>2
  <2>4. log'[i] = Event(log'[last].by, "marker", d)
    BY <2>1, <2>2, <2>3 DEF Event, Events
  <2>5. last \in Errors'
    BY <1>2 DEF Errors, New
  <2>. QED
    BY <2>3, <2>4, <2>5 DEF GivenUp
<1>12. \A d \in owed : d \in Calls /\ d # c /\ startedBy[d] = cur /\ (~HasResult(d) \/ GivenUp(d))
  BY <1>1, <1>4, <1>8 DEF EInv, AwaitingOk, DeliveredOk
<1>13. c \notin delivered[cur] => ~HasResult(c) \/ GivenUp(c)
  BY <1>3 DEF EInv, DeliveredOk
<1>14. /\ \A d : HasResult(d) => HasResult(d)'
       /\ \A d : HasResult(d)' => HasResult(d) \/ d \in owed \/ d = c
       /\ \A d \in owed : HasResult(d)'
       /\ c \notin delivered[cur] => HasResult(c)'
  BY <1>1, <1>2, HasGrown DEF Results
<1>15. TypeOK'
  <2>1. /\ delivered' \in [Ps -> SUBSET Calls] /\ awaiting' \in [Ps -> SUBSET Calls] /\ named' \in [Ps -> SUBSET Calls]
        /\ tool' \in [Calls -> {"none", "running", "returned", "done", "asked"}]
    BY <1>1, <1>3, <1>4
  <2>. QED
    BY <1>2, <1>3, <2>1 DEF EInv, TypeOK, Grows
<1>16. OneResult'
  <2>1. \A i \in New : log'[i].type \in Results =>
          /\ \A d : d = log'[i].call => ~HasResult(d) \/ GivenUp(d)'
          /\ \A j \in New : log'[j].type \in Results /\ log'[j].call = log'[i].call => i = j
    BY <1>2, <1>10, <1>12, <1>13 DEF Results
  <2>. QED
    BY <1>1, <1>2, <2>1, OneResultKept DEF EInv
<1>17. DeliveredOk'
  <2>1. ASSUME NEW p \in Ps, NEW d \in delivered'[p]
        PROVE  HasResult(d)'
    <3>1. d \in delivered[p] \/ d \in owed \/ (d = c /\ c \notin delivered[cur])
      BY <1>8, <1>9, <2>1
    <3>. QED
      BY <3>1, <1>14 DEF EInv, DeliveredOk
  <2>2. ASSUME NEW d \in Calls, HasResult(d)'
        PROVE  d \in delivered'[startedBy[d]] \/ tool'[d] = "done" \/ GivenUp(d)'
    <3>1. CASE d = c
      BY <3>1, <1>9
    <3>2. CASE d \in owed
      BY <3>2, <1>11
    <3>3. CASE HasResult(d) /\ d # c
      <4>1. startedBy[d] \in Ps
        BY <1>4
      <4>. QED
        BY <3>3, <4>1, <1>9, <1>10 DEF EInv, DeliveredOk
    <3>. QED
      BY <2>2, <3>1, <3>2, <3>3, <1>14
  <2>. QED
    BY <2>1, <2>2, <1>3 DEF DeliveredOk
<1>18. ToolOk'
  <2>1. ASSUME NEW d \in Calls, HasResult(d)'
        PROVE  tool'[d] \in {"returned", "done"} \/ GivenUp(d)'
    <3>1. CASE d = c
      BY <3>1, <1>9
    <3>2. CASE d \in owed
      BY <3>2, <1>11
    <3>3. CASE HasResult(d) /\ d # c
      BY <3>3, <1>3, <1>9, <1>10 DEF EInv, ToolOk
    <3>. QED
      BY <2>1, <3>1, <3>2, <3>3, <1>14
  <2>2. \A d \in Calls : tool'[d] # "asked" /\ startedBy[d] \leq cur
    BY <1>3, <1>9 DEF EInv, ToolOk
  <2>. QED
    BY <1>3, <2>1, <2>2 DEF ToolOk
<1>19. AwaitingOk'
  BY <1>1, <1>3, <1>9 DEF EInv, AwaitingOk
\* What the pipeline saw end is settled now.
<1>20. ASSUME NEW i \in DOMAIN log', log'[i].type = "end", log'[i].by = cur, NEW d, d = log'[i].call
       PROVE  HasResult(d)' /\ Seen(cur, d)'
  <2>1. i \in DOMAIN log /\ log'[i] = log[i]
    BY <1>2, <1>5, <1>20
  <2>2. d \in Calls /\ startedBy[d] = cur /\ tool[d] # "none" /\ d \in awaiting[cur] \cup delivered[cur]
    BY <2>1, <1>3, <1>20 DEF EInv, EndsOk, Seen
  <2>3. d \in delivered[cur] => HasResult(d)
    BY <1>1 DEF EInv, DeliveredOk
  <2>4. d \in delivered[cur] \/ d \in owed \/ (d = c /\ c \notin delivered[cur])
    BY <2>2, <1>8
  <2>5. Seen(cur, d)'
    BY <2>2, <1>3, <1>9 DEF Seen
  <2>. QED
    BY <2>3, <2>4, <2>5, <1>14
<1>21. EndsOk'
  <2>1. \A i \in DOMAIN log' : log'[i].by \leq cur
    BY <1>1, <1>2, <1>5, CurOk DEF EInv, EndsOk
  <2>. QED
    BY <2>1, <1>3, <1>20 DEF EndsOk, Seen
<1>22. Terminals' = {}
  BY <1>1, <1>2, <1>7, TerminalsGrown
<1>23. Settled'
  <2>1. \A t \in Errors' : t \in Errors \/ t = last
    BY <1>2, <1>5 DEF Errors
  <2>2. ASSUME NEW i \in 1 .. last, log'[i].type = "end", log'[i].by = log'[last].by
        PROVE  \E r \in 1 .. last : log'[r].type \in Results /\ log'[r].call = log'[i].call
    <3>1. i \in DOMAIN log' /\ log'[i].by = cur
      BY <2>2, <1>2, <1>6
    <3>. QED
      BY <3>1, <2>2, <1>6, <1>20 DEF HasResult
  <2>3. ASSUME NEW t \in Errors, NEW i \in 1 .. t, log'[i].type = "end", log'[i].by = log'[t].by
        PROVE  \E r \in 1 .. t : log'[r].type \in Results /\ log'[r].call = log'[i].call
    <3>1. t \in Terminals \cup Errors
      OBVIOUS
    <3>. QED
      BY <3>1, <2>3, <1>1, <1>2, SettledOld DEF EInv
  <2>. QED
    BY <1>22, <2>1, <2>2, <2>3 DEF Settled
<1>24. StageOk'
  <2>1. \A i \in DOMAIN log' : log'[i].type \notin {"flush", "extracted"}
    BY <1>3, <1>5, <1>7 DEF EInv, StageOk, Without
  <2>2. memory # "running"
    BY <1>3 DEF EInv, StageOk
  <2>. QED
    BY <1>3, <1>22, <2>1, <2>2 DEF StageOk
<1>25. FlushLast'
  BY <1>1, <1>2, <1>7, FlushLastKept DEF EInv
<1>26. EndOk' /\ ClosedOk'
  BY <1>22 DEF EndOk, ClosedOk
<1>. QED
  BY <1>15, <1>16, <1>17, <1>18, <1>19, <1>21, <1>23, <1>24, <1>25, <1>26 DEF EInv

-----------------------------------------------------------------------------
(* The other steps of the stream, the resume and the crash. *)

LEMMA StartKeeps ==
  ASSUME EInv, NEW c \in Calls, StartTool(c)
  PROVE  EInv'
<1>1. /\ stage = "streaming" /\ tool[c] = "none" /\ tool' = [tool EXCEPT ![c] = "running"]
      /\ startedBy' = [startedBy EXCEPT ![c] = cur]
      /\ UNCHANGED <<log, cur, stage, delivered, awaiting, named, memory, title>>
  BY DEF StartTool, Streaming, bridge
<1>2. /\ tool \in [Calls -> {"none", "running", "returned", "done", "asked"}]
      /\ startedBy \in [Calls -> Ps] /\ cur \in Ps /\ awaiting[cur] \subseteq Calls
  BY CurOk DEF EInv, TypeOK
<1>3. /\ \A d \in Calls : tool'[d] = IF d = c THEN "running" ELSE tool[d]
      /\ \A d \in Calls : startedBy'[d] = IF d = c THEN cur ELSE startedBy[d]
  BY <1>1, <1>2
<1>4. \A d : (HasResult(d)' <=> HasResult(d)) /\ (GivenUp(d)' <=> GivenUp(d))
  BY <1>1 DEF HasResult, GivenUp, Errors
<1>5. HasResult(c) => GivenUp(c)
  BY <1>1 DEF EInv, ToolOk
<1>6. TypeOK'
  BY <1>1, <1>2 DEF EInv, TypeOK
<1>7. DeliveredOk'
  BY <1>1, <1>3, <1>4, <1>5 DEF EInv, DeliveredOk
<1>8. ToolOk'
  BY <1>1, <1>3, <1>4, <1>5, CurOk DEF EInv, ToolOk
<1>9. AwaitingOk'
  BY <1>1, <1>2, <1>3 DEF EInv, AwaitingOk
<1>10. OneResult' /\ Settled' /\ StageOk' /\ FlushLast' /\ EndOk'
  BY <1>1 DEF EInv, OneResult, GivenUp, Errors, Settled, Terminals, StageOk, FlushLast, EndOk, Afterwards
<1>11. EndsOk'
  <2>1. \A d : Seen(cur, d) => Seen(cur, d)'
    BY <1>1, <1>3 DEF Seen
  <2>2. ASSUME NEW i \in DOMAIN log, log[i].type = "end", log[i].by = cur, NEW d, d = log[i].call
        PROVE  Seen(cur, d)'
    BY <1>1, <2>1, <2>2 DEF EInv, EndsOk
  <2>3. \A i \in DOMAIN log : log[i].by \leq cur
    BY DEF EInv, EndsOk
  <2>. QED
    BY <1>1, <2>2, <2>3 DEF EndsOk, Seen
<1>12. ClosedOk'
  BY <1>1 DEF EInv, StageOk, ClosedOk, Terminals
<1>. QED
  BY <1>6, <1>7, <1>8, <1>9, <1>10, <1>11, <1>12 DEF EInv

\* What a step of the stream that writes no result, terminal event or memory
\* event keeps of the log.
LEMMA StreamKeeps ==
  ASSUME EInv, stage = "streaming", Grows, Without({"result", "marker", "error", "terminal", "extracted", "flush"}),
         stage' \in {"streaming", "suspended"}, UNCHANGED <<cur, memory>>
  PROVE  /\ \A c : (HasResult(c)' <=> HasResult(c)) /\ (GivenUp(c) => GivenUp(c)')
         /\ OneResult' /\ ClosedOk' /\ Settled' /\ FlushLast' /\ EndOk' /\ StageOk'
<1>1. log \in Seq(Events) /\ Without({"terminal"}) /\ Without({"error"}) /\ Without({"extracted"})
  BY CurOk DEF Without
<1>2. \A i \in New : log'[i].type \notin Results
  BY DEF Without, Results
<1>3. \A i \in DOMAIN log' : (i \in DOMAIN log /\ log'[i] = log[i]) \/ i \in New
  BY DEF Grows, New
<1>4. Terminals = {} /\ Terminals' = {}
  BY <1>1, TerminalsGrown DEF EInv, StageOk
<1>5. StageOk'
  <2>1. memory # "running"
    BY DEF EInv, StageOk
  <2>2. \A i \in DOMAIN log' : log'[i].type \notin {"flush", "extracted"}
    BY <1>3 DEF EInv, StageOk, Without
  <2>. QED
    BY <1>4, <2>1, <2>2 DEF StageOk
<1>6. OneResult'
  BY <1>1, <1>2, OneResultKept DEF EInv
<1>7. ClosedOk'
  BY <1>4 DEF ClosedOk
<1>. QED
  BY <1>1, <1>2, <1>4, <1>5, <1>6, <1>7, HasGrown, ErrorsGrown, SettledKept, FlushLastKept DEF EInv, EndOk

\* The span of a call of this stream.
LEMMA SpanKeeps ==
  ASSUME EInv, stage = "streaming", NEW c \in Calls, startedBy[c] = cur, Span(c),
         tool[c] \in {"running", "returned"}, tool'[c] \in {"running", "returned", "asked"},
         \A d \in Calls : d # c => tool'[d] = tool[d],
         Grows, Without({"result", "marker", "error", "terminal", "extracted", "flush"}),
         \A i \in New : log'[i].by = cur /\ (log'[i].type = "end" => log'[i].call = c),
         stage' \in {"streaming", "suspended"}, UNCHANGED <<cur, memory, startedBy, delivered>>
  PROVE  AwaitingOk' /\ EndsOk' /\ awaiting' \in [Ps -> SUBSET Calls] /\ named' \in [Ps -> SUBSET Calls]
<1>1. cur \in Ps /\ cur \leq cur /\ awaiting \in [Ps -> SUBSET Calls] /\ named \in [Ps -> SUBSET Calls]
  BY CurOk DEF EInv, TypeOK
<1>2. /\ awaiting' = [awaiting EXCEPT ![cur] = @ \cup {c}]
      /\ named' = [named EXCEPT ![cur] = @ \cup {c}]
  BY DEF Span
<1>3. \A p \in Ps : awaiting'[p] = IF p = cur THEN awaiting[p] \cup {c} ELSE awaiting[p]
  BY <1>1, <1>2
<1>5. AwaitingOk'
  <2>1. \A p \in Ps : p > cur => p # cur
    BY <1>1 DEF Ps
  <2>2. \A p \in Ps : p > cur => awaiting'[p] = {}
    BY <1>3, <2>1 DEF EInv, AwaitingOk
  <2>3. \A d \in awaiting'[cur] : startedBy[d] = cur /\ tool'[d] \in {"running", "returned", "asked"}
    <3>. TAKE d \in awaiting'[cur]
    <3>0. awaiting'[cur] = awaiting[cur] \cup {c} /\ awaiting[cur] \subseteq Calls
      BY <1>1, <1>3
    <3>1. d = c \/ (d \in awaiting[cur] /\ d \in Calls)
      BY <3>0
    <3>2. d \in awaiting[cur] => startedBy[d] = cur /\ tool[d] \in {"running", "returned", "asked"}
      BY DEF EInv, AwaitingOk
    <3>. QED
      BY <3>1, <3>2
  <2>. QED
    BY <2>2, <2>3 DEF AwaitingOk
<1>6. EndsOk'
  <2>1. \A i \in DOMAIN log' : (i \in DOMAIN log /\ log'[i] = log[i]) \/ i \in New
    BY DEF Grows, New
  <2>2. \A i \in DOMAIN log' : log'[i].by \leq cur
    BY <1>1, <2>1 DEF EInv, EndsOk
  <2>3. ASSUME NEW i \in DOMAIN log', log'[i].type = "end", log'[i].by = cur, NEW d, d = log'[i].call
        PROVE  Seen(cur, d)'
    <3>1. CASE i \in DOMAIN log /\ log'[i] = log[i]
      <4>1. Seen(cur, d)
        BY <2>3, <3>1 DEF EInv, EndsOk
      <4>. QED
        BY <4>1, <1>1, <1>3 DEF Seen
    <3>2. CASE i \in New
      <4>1. d = c
        BY <2>3, <3>2
      <4>. QED
        BY <4>1, <1>1, <1>3 DEF Seen
    <3>. QED
      BY <3>1, <3>2, <2>1
  <2>. QED
    BY <2>2, <2>3 DEF EndsOk, Seen
<1>. QED
  BY <1>1, <1>2, <1>5, <1>6

LEMMA EndCallKeeps ==
  ASSUME EInv, NEW c \in Calls, EndCall(c)
  PROVE  EInv'
<1>. DEFINE e == Event(cur, "end", c)
            es == <<e>>
<1>1. /\ stage = "streaming" /\ tool[c] \in {"running", "returned"} /\ startedBy[c] = cur
      /\ Write(es) /\ Span(c) /\ UNCHANGED <<cur, stage, tool, startedBy, memory, title, delivered>>
  BY DEF EndCall, Streaming, worker
<1>2. e \in Events /\ e.type = "end" /\ e.call = c /\ e.by = cur
  BY CurOk, EventType DEF Types
<1>. HIDE DEF e
<1>3. es \in Seq(Events) /\ Len(es) = 1 /\ \A k \in DOMAIN es : es[k] = e
  BY <1>2
<1>. HIDE DEF es
<1>4. Grows /\ \A i \in New : log'[i] = e
  BY <1>1, <1>3, CurOk, Written
<1>5. Without({"result", "marker", "error", "terminal", "extracted", "flush"})
  BY <1>2, <1>4 DEF Without
<1>6. /\ \A d : (HasResult(d)' <=> HasResult(d)) /\ (GivenUp(d) => GivenUp(d)')
      /\ OneResult' /\ ClosedOk' /\ Settled' /\ FlushLast' /\ EndOk' /\ StageOk'
  BY <1>1, <1>4, <1>5, StreamKeeps
<1>7. AwaitingOk' /\ EndsOk' /\ awaiting' \in [Ps -> SUBSET Calls] /\ named' \in [Ps -> SUBSET Calls]
  BY <1>1, <1>2, <1>4, <1>5, SpanKeeps
<1>8. TypeOK'
  BY <1>1, <1>4, <1>7 DEF EInv, TypeOK, Grows
<1>9. DeliveredOk' /\ ToolOk'
  BY <1>1, <1>6 DEF EInv, DeliveredOk, ToolOk
<1>. QED
  BY <1>6, <1>7, <1>8, <1>9 DEF EInv

LEMMA AskKeeps ==
  ASSUME EInv, NEW c \in Calls, Ask(c)
  PROVE  EInv'
<1>. DEFINE q == Event(cur, "asked", c)
            r == Event(cur, "status", NoCall)
            a == <<q, r>>
            e == Event(cur, "end", c)
            es == IF Ended(c) THEN a ELSE Append(a, e)
<1>1. /\ stage = "streaming" /\ tool[c] = "running" /\ startedBy[c] = cur
      /\ tool' = [tool EXCEPT ![c] = "asked"] /\ stage' = "suspended"
      /\ UNCHANGED <<cur, startedBy, memory, title, delivered>>
  BY DEF Ask, Streaming
<1>2. Write(es) /\ (Span(c) \/ (Ended(c) /\ UNCHANGED <<awaiting, named>>))
  BY DEF Ask, Question
<1>3. q \in Events /\ q.type = "asked" /\ q.by = cur /\ r \in Events /\ r.type = "status" /\ r.by = cur
  BY CurOk, EventType DEF Types
<1>. HIDE DEF q, r
<1>4. /\ a \in Seq(Events) /\ Len(a) = 2
      /\ \A k \in 1 .. 2 : a[k].type \in {"asked", "status"} /\ a[k].by = cur
  BY <1>3
<1>5. e \in Events /\ e.type = "end" /\ e.call = c /\ e.by = cur
  BY CurOk, EventType DEF Types
<1>. HIDE DEF a, e
<1>6. /\ es \in Seq(Events)
      /\ \A k \in DOMAIN es : (k \in 1 .. 2 /\ es[k] = a[k]) \/ (es[k] = e /\ ~Ended(c))
  <2>1. CASE Ended(c)
    <3>1. es = a /\ DOMAIN a = 1 .. 2
      BY <2>1, <1>4
    <3>. QED
      BY <3>1, <1>4
  <2>2. CASE ~Ended(c)
    <3>1. es = Append(a, e)
      BY <2>2
    <3>. HIDE DEF es
    <3>2. es \in Seq(Events) /\ DOMAIN es = 1 .. 3 /\ es[3] = e /\ es[1] = a[1] /\ es[2] = a[2]
      <4>1. a \in Seq(Events) /\ Len(a) = 2 /\ e \in Events
        BY <1>4, <1>5
      <4>2. es \in Seq(Events) /\ Len(es) = 3 /\ es[3] = e /\ \A k \in 1 .. 2 : es[k] = a[k]
        BY ONLY <3>1, <4>1
      <4>. QED
        BY <4>2
    <3>3. \A k \in 1 .. 3 : k \in 1 .. 2 \/ k = 3
      OBVIOUS
    <3>4. \A k \in 1 .. 2 : k = 1 \/ k = 2
      OBVIOUS
    <3>5. \A k \in 1 .. 2 : es[k] = a[k]
      BY <3>2, <3>4
    <3>. QED
      BY <2>2, <3>2, <3>3, <3>5
  <2>. QED
    BY <2>1, <2>2
<1>. HIDE DEF es
<1>7. /\ Grows
      /\ \A i \in New : /\ log'[i].type \in {"asked", "status", "end"} /\ log'[i].by = cur
                        /\ log'[i].type = "end" => log'[i].call = c /\ ~Ended(c)
  <2>1. \A k \in DOMAIN es : /\ es[k].type \in {"asked", "status", "end"} /\ es[k].by = cur
                             /\ es[k].type = "end" => es[k].call = c /\ ~Ended(c)
    <3>. TAKE k \in DOMAIN es
    <3>1. CASE k \in 1 .. 2 /\ es[k] = a[k]
      BY <3>1, <1>4
    <3>2. CASE es[k] = e /\ ~Ended(c)
      BY <3>2, <1>5
    <3>. QED
      BY <3>1, <3>2, <1>6
  <2>2. log \in Seq(Events)
    BY CurOk
  <2>3. Grows /\ \A i \in New : i - Len(log) \in DOMAIN es /\ log'[i] = es[i - Len(log)]
    BY <1>2, <1>6, <2>2, Written
  <2>. QED
    BY <2>1, <2>3
<1>8. Without({"result", "marker", "error", "terminal", "extracted", "flush"})
  BY <1>7 DEF Without
<1>9. /\ \A d : (HasResult(d)' <=> HasResult(d)) /\ (GivenUp(d) => GivenUp(d)')
      /\ OneResult' /\ ClosedOk' /\ Settled' /\ FlushLast' /\ EndOk' /\ StageOk'
  BY <1>1, <1>7, <1>8, StreamKeeps
<1>10. /\ tool \in [Calls -> {"none", "running", "returned", "done", "asked"}]
       /\ cur \in Ps /\ awaiting \in [Ps -> SUBSET Calls] /\ named \in [Ps -> SUBSET Calls]
  BY DEF EInv, TypeOK
<1>11. \A d \in Calls : tool'[d] = IF d = c THEN "asked" ELSE tool[d]
  BY <1>1, <1>10
<1>12. AwaitingOk' /\ EndsOk' /\ awaiting' \in [Ps -> SUBSET Calls] /\ named' \in [Ps -> SUBSET Calls]
  <2>1. CASE Span(c)
    BY <2>1, <1>1, <1>7, <1>8, <1>11, SpanKeeps
  <2>2. CASE UNCHANGED <<awaiting, named>>
    <3>1. AwaitingOk'
      BY <2>2, <1>1, <1>10, <1>11 DEF EInv, AwaitingOk
    <3>2. \A i \in DOMAIN log' : (i \in DOMAIN log /\ log'[i] = log[i]) \/ i \in New
      BY <1>7 DEF Grows, New
    <3>3. \A i \in DOMAIN log' : log'[i].by \leq cur
      BY <3>2, <1>7, CurOk DEF EInv, EndsOk
    <3>4. EndsOk'
      BY <3>3, <1>1 DEF EndsOk
    <3>. QED
      BY <2>2, <3>1, <3>4, <1>10
  <2>. QED
    BY <2>1, <2>2, <1>2
<1>13. TypeOK'
  BY <1>1, <1>7, <1>10, <1>12 DEF EInv, TypeOK, Grows, Stages
<1>14. DeliveredOk'
  BY <1>1, <1>9, <1>11 DEF EInv, DeliveredOk
<1>15. ToolOk'
  <2>1. HasResult(c) => GivenUp(c)
    BY <1>1 DEF EInv, ToolOk
  <2>. QED
    BY <2>1, <1>1, <1>9, <1>11 DEF EInv, ToolOk
<1>. QED
  BY <1>9, <1>12, <1>13, <1>14, <1>15 DEF EInv

LEMMA ResumeKeeps == EInv /\ Resume => EInv'
<1>. SUFFICES ASSUME EInv, Resume PROVE EInv'
  OBVIOUS
<1>1. /\ stage = "suspended" /\ cur < Pipelines /\ cur' = cur + 1 /\ stage' = "streaming"
      /\ tool' = [c \in Calls |-> IF tool[c] = "asked" THEN "running" ELSE tool[c]]
      /\ startedBy' = [c \in Calls |-> IF tool[c] = "asked" THEN cur + 1 ELSE startedBy[c]]
      /\ UNCHANGED <<log, memory, title, delivered, awaiting, named>>
  BY DEF Resume, NextPipeline, bridge
<1>2. /\ tool \in [Calls -> {"none", "running", "returned", "done", "asked"}]
      /\ startedBy \in [Calls -> Ps] /\ cur \in Ps
  BY DEF EInv, TypeOK
<1>3. cur + 1 \in Ps /\ cur + 1 > cur
  BY <1>1, <1>2, PipelinesOk DEF Ps
<1>4. \A d : (HasResult(d)' <=> HasResult(d)) /\ (GivenUp(d)' <=> GivenUp(d))
  BY <1>1 DEF HasResult, GivenUp, Errors
<1>5. \A c \in Calls : HasResult(c) => tool[c] \in {"returned", "done"} \/ GivenUp(c)
  BY <1>1 DEF EInv, ToolOk
<1>6. TypeOK'
  BY <1>1, <1>2, <1>3 DEF EInv, TypeOK, Stages
<1>7. DeliveredOk'
  <2>1. \A c \in Calls : HasResult(c) => (startedBy'[c] = startedBy[c] /\ tool'[c] = tool[c]) \/ GivenUp(c)
    BY <1>1, <1>5
  <2>. QED
    BY <2>1, <1>1, <1>4 DEF EInv, DeliveredOk
<1>8. ToolOk'
  <2>1. \A c \in Calls : startedBy'[c] \leq cur'
    <3>. TAKE c \in Calls
    <3>1. startedBy[c] \in Ps /\ startedBy[c] \leq cur
      BY <1>2 DEF EInv, ToolOk
    <3>. QED
      BY <3>1, <1>1, <1>2, <1>3 DEF Ps
  <2>2. \A c \in Calls : tool'[c] # "asked" /\ (HasResult(c) => tool'[c] \in {"returned", "done"} \/ GivenUp(c))
    BY <1>1, <1>2, <1>5
  <2>. QED
    BY <2>1, <2>2, <1>4 DEF ToolOk
<1>9. awaiting[cur + 1] = {}
  BY <1>3 DEF EInv, AwaitingOk
<1>10. AwaitingOk'
  <2>1. \A p \in Ps : p > cur + 1 => p > cur
    BY <1>2 DEF Ps
  <2>. QED
    BY <2>1, <1>1, <1>9 DEF EInv, AwaitingOk
<1>11. EndsOk'
  <2>0. \A i \in DOMAIN log : log[i] \in Events
    BY CurOk
  <2>1. \A i \in DOMAIN log : log[i].by \in Ps /\ log[i].by \leq cur
    BY <2>0 DEF EInv, EndsOk, Events
  <2>2. \A i \in DOMAIN log : log[i].by \leq cur + 1 /\ log[i].by # cur + 1
    BY <2>1, <1>2 DEF Ps
  <2>. QED
    BY <2>2, <1>1 DEF EndsOk
<1>12. StageOk'
  BY <1>1 DEF EInv, StageOk, Terminals
<1>14. ClosedOk'
  BY <1>1 DEF EInv, StageOk, ClosedOk, Terminals
<1>13. OneResult' /\ Settled' /\ FlushLast' /\ EndOk'
  BY <1>1 DEF EInv, OneResult, GivenUp, Errors, Settled, Terminals, FlushLast, EndOk, Afterwards
<1>. QED
  BY <1>6, <1>7, <1>8, <1>10, <1>11, <1>12, <1>13, <1>14 DEF EInv

LEMMA CrashKeeps == EInv /\ Crash => EInv'
<1>. SUFFICES ASSUME EInv, Crash PROVE EInv'
  OBVIOUS
<1>1. /\ stage' = (IF stage = "suspended" THEN "suspended" ELSE "gone") /\ stage # "gone"
      /\ tool' = [c \in Calls |-> IF tool[c] = "asked" THEN "asked" ELSE "done"]
      /\ memory' = "settled" /\ title' = "done"
      /\ delivered' = [p \in Ps |-> {}] /\ awaiting' = [p \in Ps |-> {}] /\ named' = [p \in Ps |-> {}]
      /\ UNCHANGED <<log, cur, startedBy>>
  BY DEF Crash
<1>2. cur \in Ps
  BY CurOk
<1>3. \A d : (HasResult(d)' <=> HasResult(d)) /\ (GivenUp(d)' <=> GivenUp(d))
  BY <1>1 DEF HasResult, GivenUp, Errors
<1>4. \A c \in Calls : HasResult(c) => tool'[c] = "done" \/ GivenUp(c)
  BY <1>1 DEF EInv, ToolOk
<1>5. TypeOK'
  BY <1>1 DEF EInv, TypeOK, Stages
<1>6. DeliveredOk'
  BY <1>1, <1>3, <1>4 DEF DeliveredOk
<1>7. ToolOk'
  <2>1. \A c \in Calls : tool'[c] = "asked" => tool[c] = "asked"
    BY <1>1
  <2>. QED
    BY <2>1, <1>1, <1>3, <1>4 DEF EInv, ToolOk
<1>8. AwaitingOk'
  BY <1>1, <1>2 DEF AwaitingOk
<1>9. EndsOk'
  BY <1>1 DEF EInv, EndsOk
<1>10. StageOk'
  BY <1>1 DEF EInv, StageOk, Terminals
<1>12. ClosedOk'
  <2>1. Terminals # {} => \A c \in Calls : tool'[c] = "done"
    BY <1>1 DEF EInv, StageOk, ToolOk
  <2>2. ASSUME NEW t \in Terminals, NEW i \in 1 .. t, log[i].type = "end", log[i].by = log[t].by
        PROVE  log[i].call \in Calls /\ tool'[log[i].call] = "done"
    <3>1. log[i].call \in Calls
      BY <2>2 DEF EInv, ClosedOk
    <3>. QED
      BY <3>1, <2>1
  <2>. QED
    BY <1>1, <2>2 DEF ClosedOk, Remembered, Terminals
<1>11. OneResult' /\ Settled' /\ FlushLast' /\ EndOk'
  BY <1>1 DEF EInv, OneResult, GivenUp, Errors, Settled, Terminals, FlushLast, EndOk, Afterwards
<1>. QED
  BY <1>5, <1>6, <1>7, <1>8, <1>9, <1>10, <1>11, <1>12 DEF EInv

-----------------------------------------------------------------------------
(* The theorems. *)

LEMMA InitKeeps == Init => EInv
<1>. SUFFICES ASSUME Init PROVE EInv
  OBVIOUS
<1>1. /\ log = <<>> /\ DOMAIN log = {} /\ log \in Seq(Events) /\ cur = 1 /\ stage = "streaming" /\ memory = "none"
      /\ tool = [c \in Calls |-> "none"] /\ startedBy = [c \in Calls |-> 1]
      /\ awaiting = [p \in Ps |-> {}] /\ delivered = [p \in Ps |-> {}]
  BY DEF Init
<1>2. 1 \in Ps /\ 1 \leq 1
  BY PipelinesOk DEF Ps
<1>3. TypeOK
  BY <1>1, <1>2 DEF Init, TypeOK, Stages
<1>4. Terminals = {} /\ \A c : ~HasResult(c)
  BY <1>1 DEF Terminals, HasResult
<1>5. DeliveredOk /\ ToolOk /\ AwaitingOk
  BY <1>1, <1>2, <1>4 DEF DeliveredOk, ToolOk, AwaitingOk
<1>6. OneResult /\ EndsOk /\ ClosedOk /\ Settled /\ StageOk /\ FlushLast /\ EndOk
  BY <1>1, <1>4 DEF OneResult, EndsOk, ClosedOk, Settled, Errors, StageOk, FlushLast, EndOk
<1>. QED
  BY <1>3, <1>5, <1>6 DEF EInv

LEMMA StutterKeeps == EInv /\ UNCHANGED vars => EInv'
BY DEF EInv, vars, worker, bridge, TypeOK, OneResult, DeliveredOk, HasResult, ToolOk, AwaitingOk, EndsOk,
       GivenUp, Errors, Seen, ClosedOk, Remembered, Settled, Terminals, StageOk, FlushLast, EndOk, Afterwards

LEMMA StepKeeps == EInv /\ [Next]_vars => EInv'
<1>. SUFFICES ASSUME EInv, [Next]_vars PROVE EInv'
  OBVIOUS
<1>1. CASE Stream
  BY <1>1, StartKeeps, EndCallKeeps, ResultKeeps, FailsKeeps, AskKeeps DEF Stream
<1>2. CASE Resume
  BY <1>2, ResumeKeeps
<1>3. CASE FinishAgent
  BY <1>3, FinishAgentKeeps
<1>4. CASE FailRun \/ Close
  BY <1>4, CloseKeeps
<1>5. CASE Decline
  BY <1>5, DeclineKeeps
<1>6. CASE CancelRun \/ Disconnect
  BY <1>6, CancelKeeps
<1>7. CASE Memory
  BY <1>7, TimesOutKeeps, SettlesKeeps DEF Memory
<1>8. CASE ReportStatus
  BY <1>8, ReportKeeps
<1>9. CASE TitleReady
  BY <1>9, TitleKeeps
<1>10. CASE Crash
  BY <1>10, CrashKeeps
<1>11. CASE \E c \in Calls : ToolReturns(c)
  BY <1>11, ResultKeeps
<1>12. CASE UNCHANGED vars
  BY <1>12, StutterKeeps
<1>. QED
  BY <1>1, <1>2, <1>3, <1>4, <1>5, <1>6, <1>7, <1>8, <1>9, <1>10, <1>11, <1>12 DEF Next

\* The inductive invariant holds in every reachable state.
THEOREM EInvHolds == Spec => []EInv
<1>1. Init => EInv
  BY InitKeeps
<1>2. EInv /\ [Next]_vars => EInv'
  BY StepKeeps
<1>. QED
  BY <1>1, <1>2, PTL DEF Spec

\* Every variable stays in its type, whatever the number of calls and of
\* pipelines: the log holds events of this run's pipelines only, and no resume
\* opens a pipeline the run does not have.
THEOREM TypeCorrect == Spec => []TypeOK
<1>1. EInv => TypeOK
  BY DEF EInv
<1>. QED
  BY <1>1, EInvHolds, PTL

\* flushPendingResults and the memory of deliver() settle every call: when a
\* pipeline writes its terminal event, or the RUN_ERROR of a resume that fails,
\* each call it saw end has a result or a marker, and no call that such an error
\* did not give up has two, though the tools of a suspended pipeline write on and
\* the calls it asked for run again in another.
THEOREM ResultsAreSettled == Spec => []ResultsSettled
<1>1. EInv => ResultsSettled
  BY DEF EInv, Settled, OneResult, ResultsSettled
<1>. QED
  BY <1>1, EInvHolds, PTL

\* The terminal event of the finalizer follows the status, and only a title, a
\* plan or the result of a call whose end its pipeline never saw follows it; a memory is
\* never reported as extracted after the flush that gave up on it.
THEOREM NothingAfterTheEnd == Spec => []TerminalEndsRun
<1>1. EInv => TerminalEndsRun
  <2>. SUFFICES ASSUME EInv, NEW t \in Terminals
                PROVE  /\ \E i \in 1 .. t : log[i].type = "status" /\ log[i].by = log[t].by
                       /\ \A i \in t + 1 .. Len(log) : Afterwards(t, log[i])
                       /\ \A i, j \in 1 .. t : log[i].type = "flush" /\ j > i => log[j].type # "extracted"
    BY DEF TerminalEndsRun, Afterwards
  <2>1. 1 .. t \subseteq DOMAIN log
    <3>1. t \in DOMAIN log /\ DOMAIN log = 1 .. Len(log) /\ Len(log) \in Nat
      BY CurOk DEF Terminals
    <3>. QED
      BY <3>1
  <2>2. \A i, j \in 1 .. t : log[i].type = "flush" /\ j > i => log[j].type # "extracted"
    BY <2>1 DEF EInv, FlushLast
  <2>. QED
    BY <2>2 DEF EInv, EndOk
<1>. QED
  BY <1>1, EInvHolds, PTL
=============================================================================
