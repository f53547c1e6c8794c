------------------------ MODULE SharedSegmentProofs ------------------------
(***************************************************************************)
(* For any number of calls, any budget and any number of attempts: the     *)
(* conditional writes of SharedSegment implement the atomic ledger, and    *)
(* what a call is told is so.                                              *)
(***************************************************************************)
EXTENDS SharedSegment, TLAPS

\* A copy that is as old as the row is the row, and was admitted.
CopySound(w) ==
  pc[w] = "writing" =>
    /\ copy[w].rev <= row.rev
    /\ copy[w].rev = row.rev => copy[w] = row
    /\ op[w] = "begin" => Cardinality(Used(copy[w])) < MaxActions
    /\ op[w] \in {"succeed", "fail"} => copy[w].status[w] = "requested"

\* Operation, step and answer of a call, and the record of its action.
CallOk(o, p, t, s) ==
  /\ o # "decide"
  /\ p = "idle" => s = "none"
  /\ p = "executing" => o = "begin" /\ s = "requested" /\ t = "not_started"
  /\ p \in {"reading", "writing"} =>
       \/ o \in {"begin", "reject"} /\ s = "none" /\ t = "not_started"
       \/ o = "succeed" /\ s = "requested" /\ t = "uncommitted"
       \/ o = "fail" /\ s = "requested" /\ t = "failed"
       \/ o = "fail" /\ s \in {"requested", "succeeded"} /\ t = "uncommitted"
  /\ p = "publishing" =>
       \/ o = "begin" /\ s = "requested" /\ t = "not_started"
       \/ o = "reject" /\ s = "rejected" /\ t = "not_started"
       \/ o = "succeed" /\ s = "succeeded" /\ t = "uncommitted"
       \/ o = "fail" /\ s = "failed" /\ t \in {"failed", "uncommitted"}
  /\ p = "over" =>
       /\ t = "done" => s = "succeeded"
       /\ t \in {"not_started", "failed"} => s # "succeeded"
       /\ t \in {"failed", "uncommitted"} => s \notin {"none", "rejected"}

CallsOk == \A c \in Calls : CallOk(op[c], pc[c], told[c], row.status[c])

CompletionOk ==
  /\ op[Completion] \in {"none", "decide"}
  /\ pc[Completion] \in {"reading", "writing", "publishing"} => op[Completion] = "decide"
  /\ pc[Completion] # "executing"

DomainOk == \A c \in Calls : c \in row.folded <=> row.status[c] = "succeeded"

IInv ==
  /\ TypeOK
  /\ \A w \in Writers : CopySound(w)
  /\ CallsOk /\ CompletionOk /\ DomainOk

-----------------------------------------------------------------------------
(* Snapshots. *)

LEMMA FreshType == Fresh \in Snapshots
<1>1. [c \in Calls |-> "none"] \in [Calls -> Statuses]
  BY DEF Statuses
<1> QED
  BY <1>1 DEF Fresh, Snapshots

\* What a call records in a snapshot.
LEMMA RecordedType ==
  ASSUME NEW x \in Snapshots, NEW c \in Calls, NEW s \in Statuses
  PROVE  /\ Recorded(x, c, s) \in Snapshots
         /\ Recorded(x, c, s).rev = x.rev + 1
         /\ Recorded(x, c, s).status = [x.status EXCEPT ![c] = s]
         /\ Recorded(x, c, s).folded = x.folded
         /\ Recorded(x, c, s).basis = x.basis
<1> DEFINE f == [x.status EXCEPT ![c] = s]
<1>1. f \in [Calls -> Statuses]
  BY DEF Snapshots
<1> DEFINE y == [x EXCEPT !.rev = x.rev + 1]
<1>2. y \in Snapshots /\ y.rev = x.rev + 1 /\ y.status = x.status /\ y.folded = x.folded /\ y.basis = x.basis
  BY DEF Snapshots
<1>3. Recorded(x, c, s) = [y EXCEPT !.status = f]
  BY <1>2 DEF Recorded, Snapshots
<1> HIDE DEF f, y
<1>4. [y EXCEPT !.status = f] \in Snapshots
  BY <1>1, <1>2 DEF Snapshots
<1> QED
  BY <1>1, <1>2, <1>3, <1>4 DEF Snapshots, f

LEMMA SucceededType ==
  ASSUME NEW x \in Snapshots, NEW c \in Calls
  PROVE  /\ Succeeded(x, c) \in Snapshots
         /\ Succeeded(x, c).rev = x.rev + 1
         /\ Succeeded(x, c).status = [x.status EXCEPT ![c] = "succeeded"]
         /\ Succeeded(x, c).folded = x.folded \cup {c}
         /\ Succeeded(x, c).basis = x.basis
<1> DEFINE r == Recorded(x, c, "succeeded")
<1>1. /\ r \in Snapshots /\ r.rev = x.rev + 1 /\ r.status = [x.status EXCEPT ![c] = "succeeded"]
      /\ r.folded = x.folded /\ r.basis = x.basis
  BY RecordedType DEF Statuses
<1>2. Succeeded(x, c) = [r EXCEPT !.folded = @ \cup {c}]
  BY DEF Succeeded
<1> HIDE DEF r
<1> QED
  BY <1>1, <1>2 DEF Snapshots

LEMMA DecidedType ==
  ASSUME NEW x \in Snapshots
  PROVE  /\ Decided(x) \in Snapshots
         /\ Decided(x).rev = x.rev + 1
         /\ Decided(x).status = x.status
         /\ Decided(x).folded = x.folded
         /\ Decided(x).basis = x.folded
<1> DEFINE y == [x EXCEPT !.rev = x.rev + 1]
<1>1. y \in Snapshots /\ y.rev = x.rev + 1 /\ y.status = x.status /\ y.folded = x.folded
  BY DEF Snapshots
<1>2. Decided(x) = [y EXCEPT !.basis = x.folded]
  BY DEF Decided
<1> HIDE DEF y
<1> QED
  BY <1>1, <1>2 DEF Snapshots

\* What a writer commits, from the row as it is.
LEMMA BuiltType ==
  ASSUME IInv, NEW w \in Writers, pc[w] = "writing", Unchanged(w)
  PROVE  /\ Built(w) \in Snapshots
         /\ Built(w).rev = row.rev + 1
         /\ op[w] = "decide" =>
              w = Completion /\ Built(w).status = row.status
              /\ Built(w).folded = row.folded /\ Built(w).basis = row.folded
         /\ op[w] # "decide" =>
              w \in Calls /\ Built(w).basis = row.basis
              /\ Built(w).folded = IF op[w] = "succeed" THEN row.folded \cup {w} ELSE row.folded
         /\ op[w] = "begin" => row.status[w] = "none" /\ Cardinality(Used(row)) < MaxActions
                               /\ Built(w).status = [row.status EXCEPT ![w] = "requested"]
         /\ op[w] = "reject" => row.status[w] = "none"
                               /\ Built(w).status = [row.status EXCEPT ![w] = "rejected"]
         /\ op[w] = "succeed" => row.status[w] = "requested"
                               /\ Built(w).status = [row.status EXCEPT ![w] = "succeeded"]
         /\ op[w] = "fail" => row.status[w] = "requested"
                               /\ Built(w).status = [row.status EXCEPT ![w] = "failed"]
         /\ op[w] \in Operations
<1>1. copy[w] = row /\ row \in Snapshots
  BY DEF IInv, CopySound, Unchanged, TypeOK
<1>2. w \in Calls \/ w = Completion
  BY DEF Writers
<1>3. op[w] = "decide" => w = Completion
  BY <1>2 DEF IInv, CallsOk, CallOk
<1>4. op[w] # "decide" => w \in Calls
  BY <1>2 DEF IInv, CompletionOk
<1>5. op[w] \in Operations
  BY <1>2 DEF IInv, CallsOk, CallOk, CompletionOk, Operations
<1>6. CASE op[w] = "decide"
  BY <1>1, <1>3, <1>6, DecidedType DEF Built, Operations
<1>7. CASE op[w] = "begin"
  <2>1. row.status[w] = "none" /\ Cardinality(Used(row)) < MaxActions
    BY <1>1, <1>4, <1>7 DEF IInv, CallsOk, CallOk, CopySound
  <2> QED
    BY <1>1, <1>4, <1>7, <2>1, RecordedType DEF Built, Operations, Statuses
<1>8. CASE op[w] = "reject"
  <2>1. row.status[w] = "none"
    BY <1>4, <1>8 DEF IInv, CallsOk, CallOk
  <2> QED
    BY <1>1, <1>4, <1>8, <2>1, RecordedType DEF Built, Operations, Statuses
<1>9. CASE op[w] = "succeed"
  <2>1. row.status[w] = "requested"
    BY <1>1, <1>9 DEF IInv, CopySound
  <2> QED
    BY <1>1, <1>4, <1>9, <2>1, SucceededType DEF Built, Operations
<1>10. CASE op[w] = "fail"
  <2>1. row.status[w] = "requested"
    BY <1>1, <1>10 DEF IInv, CopySound
  <2> QED
    BY <1>1, <1>4, <1>10, <2>1, RecordedType DEF Built, Operations, Statuses
<1> QED
  BY <1>5, <1>6, <1>7, <1>8, <1>9, <1>10 DEF Operations

-----------------------------------------------------------------------------
(* The steps of a writer. *)

\* A step of w that leaves the row, and what the other writers have, alone.
Local(w) ==
  /\ UNCHANGED row
  /\ op' \in [Writers -> Operations \cup {"none"}] /\ pc' \in [Writers -> Steps]
  /\ copy' \in [Writers -> Snapshots] /\ told' \in [Writers -> Answers]
  /\ attempt' \in [Writers -> Nat] /\ attempt'[w] < Attempts
  /\ \A v \in Writers \ {w} :
       /\ op'[v] = op[v] /\ pc'[v] = pc[v] /\ copy'[v] = copy[v]
       /\ attempt'[v] = attempt[v] /\ told'[v] = told[v]

\* Such a step is right when it is for w.
LEMMA LocalStep ==
  ASSUME IInv, NEW w \in Writers, Local(w), CopySound(w)',
         w \in Calls => CallOk(op'[w], pc'[w], told'[w], row.status[w]),
         w = Completion => CompletionOk'
  PROVE  IInv'
<1>1. TypeOK'
  BY DEF IInv, TypeOK, Local
<1>2. ASSUME NEW v \in Writers PROVE CopySound(v)'
  <2>1. CASE v # w
    <3>1. pc'[v] = pc[v] /\ copy'[v] = copy[v] /\ op'[v] = op[v] /\ row' = row
      BY <2>1 DEF Local
    <3> QED
      BY <3>1 DEF IInv, CopySound, Used
  <2> QED
    BY <2>1
<1>3. CallsOk'
  <2> SUFFICES ASSUME NEW c \in Calls PROVE CallOk(op'[c], pc'[c], told'[c], row'.status[c])
    BY DEF CallsOk
  <2>1. row' = row
    BY DEF Local
  <2>2. CASE c = w
    BY <2>1, <2>2
  <2>3. CASE c # w
    BY <2>1, <2>3 DEF Local, Writers, IInv, CallsOk
  <2> QED
    BY <2>2, <2>3
<1>4. CompletionOk'
  BY DEF IInv, CompletionOk, Local, Writers
<1>5. DomainOk'
  BY DEF IInv, DomainOk, Local
<1> QED
  BY <1>1, <1>2, <1>3, <1>4, <1>5 DEF IInv

Copies(w) == copy' = copy \/ \E x \in Snapshots : copy' = [copy EXCEPT ![w] = x]

LEMMA CopyForgotten ==
  ASSUME NEW w \in Writers
  PROVE  Forgets(w) => Copies(w)
  BY FreshType DEF Forgets, Copies

LEMMA BeginsLocal ==
  ASSUME IInv, NEW w \in Writers, NEW o \in Operations, NEW answer \in Answers,
         Begins(w, o, answer), UNCHANGED row, Copies(w)
  PROVE  Local(w) /\ pc'[w] = "reading" /\ op'[w] = o /\ told'[w] = answer /\ CopySound(w)'
  BY BoundsOk DEF IInv, TypeOK, Local, Begins, Copies, Steps, CopySound

LEMMA EndsLocal ==
  ASSUME IInv, NEW w \in Writers, NEW answer \in Answers,
         Ends(w, answer), UNCHANGED row, Copies(w)
  PROVE  Local(w) /\ pc'[w] = "over" /\ op'[w] = "none" /\ told'[w] = answer /\ CopySound(w)'
  BY BoundsOk DEF IInv, TypeOK, Local, Ends, Copies, Steps, CopySound

LEMMA GoesLocal ==
  ASSUME IInv, NEW w \in Writers, NEW step \in Steps,
         Goes(w, step), UNCHANGED row, Copies(w)
  PROVE  Local(w) /\ pc'[w] = step /\ op'[w] = op[w] /\ told'[w] = told[w]
  BY DEF IInv, TypeOK, Local, Goes, Copies

\* A writer that gives up.
LEMMA GivesUpKeeps ==
  ASSUME IInv, NEW w \in Writers, NEW contended \in BOOLEAN, GivesUp(w, contended),
         pc[w] \in {"reading", "writing", "publishing"},
         UNCHANGED row, Copies(w)
  PROVE  IInv'
<1>1. CASE op[w] = "succeed" /\ contended /\ Ends(w, "uncommitted")
  <2>1. Local(w) /\ pc'[w] = "over" /\ op'[w] = "none" /\ told'[w] = "uncommitted" /\ CopySound(w)'
    BY <1>1, EndsLocal DEF Answers
  <2>2. w \in Calls
    BY <1>1 DEF IInv, CompletionOk, Writers
  <2>3. CallOk(op'[w], pc'[w], told'[w], row.status[w])
    BY <1>1, <2>1, <2>2 DEF IInv, CallsOk, CallOk
  <2> QED
    BY <2>1, <2>2, <2>3, LocalStep, CompletionApart
<1>2. CASE op[w] = "succeed" /\ Begins(w, "fail", "uncommitted")
  <2>1. Local(w) /\ pc'[w] = "reading" /\ op'[w] = "fail" /\ told'[w] = "uncommitted" /\ CopySound(w)'
    BY <1>2, BeginsLocal DEF Answers, Operations
  <2>2. w \in Calls
    BY <1>2 DEF IInv, CompletionOk, Writers
  <2>3. CallOk(op'[w], pc'[w], told'[w], row.status[w])
    BY <1>2, <2>1, <2>2 DEF IInv, CallsOk, CallOk
  <2> QED
    BY <2>1, <2>2, <2>3, LocalStep, CompletionApart
<1>3. CASE op[w] # "succeed" /\ Ends(w, told[w])
  <2>1. told[w] \in Answers
    BY DEF IInv, TypeOK
  <2>2. Local(w) /\ pc'[w] = "over" /\ op'[w] = "none" /\ told'[w] = told[w] /\ CopySound(w)'
    BY <1>3, <2>1, EndsLocal
  <2>3. w \in Calls => CallOk(op'[w], pc'[w], told'[w], row.status[w])
    BY <1>3, <2>2 DEF IInv, CallsOk, CallOk
  <2>4. w = Completion => CompletionOk'
    BY <2>2 DEF CompletionOk
  <2> QED
    BY <2>2, <2>3, <2>4, LocalStep
<1> QED
  BY <1>1, <1>2, <1>3 DEF GivesUp

LEMMA StartKeeps ==
  ASSUME IInv, NEW c \in Calls, Start(c)
  PROVE  IInv'
<1>1. PICK o \in {"begin", "reject"} : Begins(c, o, "not_started")
  BY DEF Start
<1>2. Local(c) /\ pc'[c] = "reading" /\ op'[c] = o /\ told'[c] = "not_started" /\ CopySound(c)'
  BY <1>1, BeginsLocal DEF Start, Copies, Operations, Answers, Writers
<1>3. CallOk(op'[c], pc'[c], told'[c], row.status[c])
  BY <1>2 DEF Start, IInv, CallsOk, CallOk
<1> QED
  BY <1>2, <1>3, LocalStep, CompletionApart DEF Writers

LEMMA ProposeKeeps ==
  ASSUME IInv, Propose
  PROVE  IInv'
<1>1. /\ Local(Completion) /\ pc'[Completion] = "reading" /\ op'[Completion] = "decide"
      /\ CopySound(Completion)'
  BY BeginsLocal DEF Propose, Copies, Operations, Answers, Writers
<1>2. CompletionOk'
  BY <1>1 DEF CompletionOk
<1> QED
  BY <1>1, <1>2, LocalStep, CompletionApart DEF Writers

LEMMA ExecuteKeeps ==
  ASSUME IInv, NEW c \in Calls, Execute(c)
  PROVE  IInv'
<1>1. PICK o \in {"succeed", "fail"}, answer \in {"failed", "uncommitted"} :
        Begins(c, o, answer) /\ (o = "succeed" => answer = "uncommitted")
  BY DEF Execute
<1>2. Local(c) /\ pc'[c] = "reading" /\ op'[c] = o /\ told'[c] = answer /\ CopySound(c)'
  BY <1>1, BeginsLocal DEF Execute, Copies, Operations, Answers, Writers
<1>3. CallOk(op'[c], pc'[c], told'[c], row.status[c])
  BY <1>1, <1>2 DEF Execute, IInv, CallsOk, CallOk
<1> QED
  BY <1>2, <1>3, LocalStep, CompletionApart DEF Writers

LEMMA DieKeeps ==
  ASSUME IInv, NEW w \in Writers, Die(w)
  PROVE  IInv'
<1>1. Local(w) /\ pc'[w] = "over" /\ op'[w] = "none" /\ told'[w] = "nothing" /\ CopySound(w)'
  BY EndsLocal, CopyForgotten DEF Die, Answers
<1>2. w \in Calls => CallOk(op'[w], pc'[w], told'[w], row.status[w])
  BY <1>1 DEF CallOk
<1>3. w = Completion => CompletionOk'
  BY <1>1 DEF CompletionOk
<1> QED
  BY <1>1, <1>2, <1>3, LocalStep

LEMMA ReadKeeps ==
  ASSUME IInv, NEW w \in Writers, Read(w)
  PROVE  IInv'
<1>1. CASE Admits(w)
  <2>1. copy' = [copy EXCEPT ![w] = row] /\ Goes(w, "writing") /\ UNCHANGED row
    BY <1>1 DEF Read, Seen
  <2>2. Copies(w)
    BY <2>1 DEF Copies, IInv, TypeOK
  <2>3. Local(w) /\ pc'[w] = "writing" /\ op'[w] = op[w] /\ told'[w] = told[w]
    BY <2>1, <2>2, GoesLocal DEF Steps
  <2>4. copy'[w] = row /\ row' = row /\ row.rev \in Nat
    BY <2>1 DEF IInv, TypeOK, Snapshots
  <2>5. CopySound(w)'
    BY <1>1, <2>3, <2>4 DEF CopySound, Admits, Used
  <2>6. w \in Calls => CallOk(op'[w], pc'[w], told'[w], row.status[w])
    BY <2>3 DEF Read, IInv, CallsOk, CallOk
  <2>7. w = Completion => CompletionOk'
    BY <2>3 DEF Read, IInv, CompletionOk
  <2> QED
    BY <2>3, <2>5, <2>6, <2>7, LocalStep
<1>2. CASE ~Admits(w) /\ op[w] = "begin"
  <2>1. Local(w) /\ pc'[w] = "reading" /\ op'[w] = "reject" /\ told'[w] = "not_started" /\ CopySound(w)'
    BY <1>2, BeginsLocal, CopyForgotten DEF Read, Operations, Answers
  <2>2. w \in Calls
    BY <1>2 DEF IInv, CompletionOk, Writers
  <2>3. CallOk(op'[w], pc'[w], told'[w], row.status[w])
    BY <1>2, <2>1, <2>2 DEF Read, IInv, CallsOk, CallOk
  <2> QED
    BY <2>1, <2>2, <2>3, LocalStep, CompletionApart
<1>3. CASE ~Admits(w) /\ op[w] # "begin"
  BY <1>3, GivesUpKeeps, CopyForgotten DEF Read
<1> QED
  BY <1>1, <1>2, <1>3

LEMMA ConflictKeeps ==
  ASSUME IInv, NEW w \in Writers, Conflict(w)
  PROVE  IInv'
<1>1. CASE Last(w)
  BY <1>1, GivesUpKeeps, CopyForgotten DEF Conflict
<1>2. CASE ~Last(w)
  <2>1. attempt[w] \in Nat /\ attempt[w] < Attempts
    BY DEF IInv, TypeOK
  <2>2. attempt[w] + 1 < Attempts
    BY <1>2, <2>1, BoundsOk DEF Last
  <2>3. /\ pc' = [pc EXCEPT ![w] = "reading"]
        /\ attempt' = [attempt EXCEPT ![w] = attempt[w] + 1]
        /\ UNCHANGED <<row, op, told, copy>>
    BY <1>2 DEF Conflict
  <2>4. Local(w) /\ pc'[w] = "reading"
    BY <2>1, <2>2, <2>3 DEF IInv, TypeOK, Local, Steps
  <2>5. CopySound(w)'
    BY <2>4 DEF CopySound
  <2>6. w \in Calls => CallOk(op'[w], pc'[w], told'[w], row.status[w])
    BY <2>3, <2>4 DEF Conflict, IInv, CallsOk, CallOk
  <2>7. w = Completion => CompletionOk'
    BY <2>3, <2>4 DEF Conflict, IInv, CompletionOk
  <2> QED
    BY <2>4, <2>5, <2>6, <2>7, LocalStep
<1> QED
  BY <1>1, <1>2

LEMMA PublishKeeps ==
  ASSUME IInv, NEW w \in Writers, Publish(w)
  PROVE  IInv'
<1>1. UNCHANGED row /\ Copies(w) /\ pc[w] = "publishing"
  BY DEF Publish, Copies
<1>2. CASE op[w] = "begin" /\ Goes(w, "executing")
  <2>1. Local(w) /\ pc'[w] = "executing" /\ op'[w] = "begin" /\ told'[w] = told[w]
    BY <1>1, <1>2, GoesLocal DEF Steps
  <2>2. w \in Calls
    BY <1>2 DEF IInv, CompletionOk, Writers
  <2>3. CallOk(op'[w], pc'[w], told'[w], row.status[w])
    BY <1>1, <1>2, <2>1, <2>2 DEF IInv, CallsOk, CallOk
  <2>4. CopySound(w)'
    BY <2>1 DEF CopySound
  <2> QED
    BY <2>1, <2>2, <2>3, <2>4, LocalStep, CompletionApart
<1>3. CASE op[w] # "begin" /\ Ends(w, Answer(w))
  <2>1. Answer(w) \in Answers
    BY DEF Answer, Answers, IInv, TypeOK
  <2>2. Local(w) /\ pc'[w] = "over" /\ op'[w] = "none" /\ told'[w] = Answer(w) /\ CopySound(w)'
    BY <1>1, <1>3, <2>1, EndsLocal
  <2>3. w \in Calls => CallOk(op'[w], pc'[w], told'[w], row.status[w])
    BY <1>1, <1>3, <2>2 DEF IInv, CallsOk, CallOk, Answer
  <2>4. w = Completion => CompletionOk'
    BY <2>2 DEF CompletionOk
  <2> QED
    BY <2>2, <2>3, <2>4, LocalStep
<1>4. CASE GivesUp(w, FALSE)
  BY <1>1, <1>4, GivesUpKeeps
<1> QED
  BY <1>2, <1>3, <1>4 DEF Publish

\* The copies of the others are older than the row from here on.
LEMMA WriteKeeps ==
  ASSUME IInv, NEW w \in Writers, Write(w)
  PROVE  IInv'
<1> DEFINE b == Built(w)
<1>1. /\ pc[w] = "writing" /\ row' = b
      /\ pc' = [pc EXCEPT ![w] = "publishing"] /\ UNCHANGED <<op, attempt, told>>
      /\ copy' = [copy EXCEPT ![w] = Fresh]
  BY DEF Write, Goes, Forgets
<1>2. /\ b \in Snapshots /\ b.rev = row.rev + 1 /\ op[w] \in Operations
      /\ op[w] = "decide" => b.status = row.status /\ b.folded = row.folded
      /\ op[w] # "decide" =>
           w \in Calls /\ b.folded = IF op[w] = "succeed" THEN row.folded \cup {w} ELSE row.folded
      /\ op[w] = "begin" => b.status = [row.status EXCEPT ![w] = "requested"]
      /\ op[w] = "reject" => b.status = [row.status EXCEPT ![w] = "rejected"]
      /\ op[w] = "succeed" => b.status = [row.status EXCEPT ![w] = "succeeded"]
      /\ op[w] = "fail" => row.status[w] = "requested" /\ b.status = [row.status EXCEPT ![w] = "failed"]
      /\ op[w] \in {"begin", "reject"} => row.status[w] = "none"
  BY BuiltType DEF Write
<1> HIDE DEF b
<1>3. row \in Snapshots
  BY DEF IInv, TypeOK
<1>4. TypeOK'
  BY <1>1, <1>2, FreshType DEF IInv, TypeOK, Steps
<1>5. ASSUME NEW v \in Writers PROVE CopySound(v)'
  <2>1. CASE v = w
    BY <1>1, <2>1 DEF CopySound, IInv, TypeOK
  <2>2. CASE v # w
    <3>1. pc'[v] = pc[v] /\ copy'[v] = copy[v] /\ op'[v] = op[v] /\ copy[v] \in Snapshots
      BY <1>1, <2>2 DEF IInv, TypeOK
    <3>2. pc[v] = "writing" => copy[v].rev < row'.rev
      BY <1>1, <1>2, <1>3, <3>1 DEF IInv, CopySound, Snapshots
    <3>3. row'.rev \in Nat /\ copy[v].rev \in Nat
      BY <1>1, <1>2, <3>1 DEF Snapshots
    <3>4. pc[v] = "writing" => copy'[v].rev <= row'.rev /\ copy'[v].rev # row'.rev
      BY <3>1, <3>2, <3>3
    <3>5. pc[v] = "writing" =>
            /\ op'[v] = "begin" => Cardinality(Used(copy'[v])) < MaxActions
            /\ op'[v] \in {"succeed", "fail"} => copy'[v].status[v] = "requested"
      BY <3>1 DEF IInv, CopySound, Used
    <3> QED
      BY <3>1, <3>4, <3>5 DEF CopySound, Used
  <2> QED
    BY <2>1, <2>2
<1>6. CallsOk'
  <2> SUFFICES ASSUME NEW c \in Calls PROVE CallOk(op'[c], pc'[c], told'[c], row'.status[c])
    BY DEF CallsOk
  <2>1. CallOk(op[c], pc[c], told[c], row.status[c])
    BY DEF IInv, CallsOk
  <2>2. CASE c = w
    <3>1. pc'[w] = "publishing" /\ op'[w] = op[w] /\ told'[w] = told[w]
      BY <1>1 DEF IInv, TypeOK
    <3>2. op[w] # "decide"
      BY <2>1, <2>2 DEF CallOk
    <3>3. row'.status[w] = CASE op[w] = "begin" -> "requested" [] op[w] = "reject" -> "rejected"
                             [] op[w] = "succeed" -> "succeeded" [] OTHER -> "failed"
      BY <1>1, <1>2, <1>3, <2>2, <3>2 DEF Snapshots, Operations
    <3> QED
      BY <1>1, <1>2, <2>1, <2>2, <3>1, <3>2, <3>3 DEF CallOk, Operations
  <2>3. CASE c # w
    <3>1. pc'[c] = pc[c] /\ op'[c] = op[c] /\ told'[c] = told[c]
      BY <1>1, <2>3 DEF IInv, TypeOK, Writers
    <3>2. row'.status[c] = row.status[c]
      BY <1>1, <1>2, <1>3, <2>3 DEF Snapshots, Operations
    <3> QED
      BY <2>1, <3>1, <3>2
  <2> QED
    BY <2>2, <2>3
<1>7. CompletionOk'
  <2>1. pc'[Completion] \in {pc[Completion], "publishing"} /\ op' = op
    BY <1>1 DEF IInv, TypeOK, Writers
  <2>2. pc'[Completion] = "publishing" => op[Completion] = "decide"
    <3>1. CASE w = Completion
      BY <1>1, <3>1 DEF IInv, CompletionOk
    <3>2. CASE w # Completion
      BY <1>1, <3>2 DEF IInv, CompletionOk, TypeOK, Writers
    <3> QED
      BY <3>1, <3>2
  <2> QED
    BY <2>1, <2>2 DEF IInv, CompletionOk
<1>8. DomainOk'
  <2> SUFFICES ASSUME NEW c \in Calls PROVE c \in row'.folded <=> row'.status[c] = "succeeded"
    BY DEF DomainOk
  <2>1. c \in row.folded <=> row.status[c] = "succeeded"
    BY DEF IInv, DomainOk
  <2> QED
    BY <1>1, <1>2, <1>3, <2>1 DEF Snapshots, Operations
<1> QED
  BY <1>4, <1>5, <1>6, <1>7, <1>8 DEF IInv

-----------------------------------------------------------------------------
(* The invariant. *)

LEMMA InitInv == Init => IInv
<1> SUFFICES ASSUME Init PROVE IInv
  OBVIOUS
<1>1. Fresh.status = [c \in Calls |-> "none"] /\ Fresh.folded = {}
  BY DEF Fresh
<1>2. TypeOK
  BY FreshType, BoundsOk DEF Init, TypeOK, Steps, Answers
<1>3. \A w \in Writers : CopySound(w)
  BY DEF Init, CopySound
<1>4. CallsOk /\ CompletionOk /\ DomainOk
  BY <1>1 DEF Init, CallsOk, CallOk, CompletionOk, DomainOk, Writers
<1> QED
  BY <1>2, <1>3, <1>4 DEF IInv

LEMMA NextInv == IInv /\ [Next]_vars => IInv'
<1> SUFFICES ASSUME IInv, [Next]_vars PROVE IInv'
  OBVIOUS
<1>1. CASE Propose
  BY <1>1, ProposeKeeps
<1>2. ASSUME NEW c \in Calls, Start(c) \/ Execute(c) PROVE IInv'
  BY <1>2, StartKeeps, ExecuteKeeps
<1>3. ASSUME NEW w \in Writers, Read(w) \/ Write(w) \/ Conflict(w) \/ Publish(w) \/ Die(w) PROVE IInv'
  BY <1>3, ReadKeeps, WriteKeeps, ConflictKeeps, PublishKeeps, DieKeeps
<1>4. CASE UNCHANGED vars
  BY <1>4 DEF vars, writer, IInv, TypeOK, CopySound, CallsOk, CompletionOk, DomainOk, Used
<1> QED
  BY <1>1, <1>2, <1>3, <1>4 DEF Next

LEMMA Inductive == Spec => []IInv
  BY InitInv, NextInv, PTL DEF Spec

\* Every variable stays in its type, the attempts of an operation below
\* protocolMaxCommitRetries + 1 included.
THEOREM TypeInvariant == Spec => []TypeOK
<1>1. IInv => TypeOK
  BY DEF IInv
<1> QED
  BY <1>1, Inductive, PTL

\* What ActionRouter.execute tells its caller is so.
THEOREM Truthful == Spec => []ToldTruly
<1>1. IInv => ToldTruly
  BY DEF IInv, CallsOk, CallOk, DomainOk, ToldTruly
<1> QED
  BY <1>1, Inductive, PTL

-----------------------------------------------------------------------------
(* The refinement. *)

\* commitWithRetry loses no update, whatever the interleaving: every step is
\* one of the atomic ledger, on the ledger's latest state, or none.
LEMMA StepRefines == IInv /\ [Next]_vars => [Ledger!Next]_Ledger!vars
<1> SUFFICES ASSUME IInv, [Next]_vars PROVE [Ledger!Next]_Ledger!vars
  OBVIOUS
<1>1. CASE UNCHANGED row
  BY <1>1 DEF Ledger!vars
<1>2. ASSUME NEW w \in Writers, Write(w) PROVE Ledger!Next
  <2> DEFINE b == Built(w)
  <2>1. row' = b /\ pc[w] = "writing" /\ Unchanged(w)
    BY <1>2 DEF Write
  <2>2. Cardinality(Used(row)) = Ledger!Cardinality(Ledger!Used)
    BY DEF Used, Ledger!Used, Cardinality, Ledger!Cardinality
  <2>3. CASE op[w] = "decide"
    <3>1. b.status = row.status /\ b.folded = row.folded /\ b.basis = row.folded
      BY <2>1, <2>3, BuiltType
    <3> QED
      BY <2>1, <3>1 DEF Ledger!Next, Ledger!Decide
  <2>4. CASE op[w] = "begin"
    <3>1. /\ w \in Calls /\ b.folded = row.folded /\ b.basis = row.basis
          /\ row.status[w] = "none" /\ Cardinality(Used(row)) < MaxActions
          /\ b.status = [row.status EXCEPT ![w] = "requested"]
      BY <2>1, <2>4, BuiltType
    <3>2. Ledger!Request(w)
      BY <2>1, <2>2, <3>1 DEF Ledger!Request, Ledger!Record
    <3> QED
      BY <3>1, <3>2 DEF Ledger!Next
  <2>5. CASE op[w] = "reject"
    <3>1. /\ w \in Calls /\ b.folded = row.folded /\ b.basis = row.basis
          /\ row.status[w] = "none" /\ b.status = [row.status EXCEPT ![w] = "rejected"]
      BY <2>1, <2>5, BuiltType
    <3>2. Ledger!Reject(w)
      BY <2>1, <3>1 DEF Ledger!Reject, Ledger!Record
    <3> QED
      BY <3>1, <3>2 DEF Ledger!Next
  <2>6. CASE op[w] = "succeed"
    <3>1. /\ w \in Calls /\ b.folded = row.folded \cup {w} /\ b.basis = row.basis
          /\ row.status[w] = "requested" /\ b.status = [row.status EXCEPT ![w] = "succeeded"]
      BY <2>1, <2>6, BuiltType
    <3>2. Ledger!Succeed(w)
      BY <2>1, <3>1 DEF Ledger!Succeed, Ledger!Record
    <3> QED
      BY <3>1, <3>2 DEF Ledger!Next
  <2>7. CASE op[w] = "fail"
    <3>1. /\ w \in Calls /\ b.folded = row.folded /\ b.basis = row.basis
          /\ row.status[w] = "requested" /\ b.status = [row.status EXCEPT ![w] = "failed"]
      BY <2>1, <2>7, BuiltType
    <3>2. Ledger!Fail(w)
      BY <2>1, <3>1 DEF Ledger!Fail, Ledger!Record
    <3> QED
      BY <3>1, <3>2 DEF Ledger!Next
  <2> QED
    BY <2>1, <2>3, <2>4, <2>5, <2>6, <2>7, BuiltType DEF Operations
<1>3. UNCHANGED row \/ \E w \in Writers : Write(w)
  BY DEF Next, vars, Propose, Start, Execute, Read, Conflict, Publish, Die
<1> QED
  BY <1>1, <1>2, <1>3

\* The protocol store of several processes is an atomic ledger.
THEOREM Refinement == Spec => Ledger!Spec
<1>1. Init => Ledger!Init
  BY DEF Init, Ledger!Init, Fresh
<1> QED
  BY <1>1, StepRefines, Inductive, PTL DEF Spec, Ledger!Spec

\* "commits parallel action results without re-executing tools or losing
\* domain updates", as the property of the run.
THEOREM CommitsAreAtomic == Spec => Atomic
  BY Refinement DEF Atomic
=============================================================================
