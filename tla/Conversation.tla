----------------------------- MODULE Conversation -----------------------------
(***************************************************************************)
(* The conversation of a session: its messages, the summaries made of      *)
(* them, and the branches that inherit a prefix of them.                   *)
(*                                                                         *)
(* Runs and their summaries work on one session at a time or at once       *)
(* (which run is admitted is RunLifecycle's question), while the user      *)
(* branches the session and deletes it.  The row of a run may end before   *)
(* its worker does.                                                        *)
(***************************************************************************)
EXTENDS Naturals, Sequences, FiniteSets, FiniteSetsExt

CONSTANTS
  Sessions,      \* ids of sessions; a branch takes a new one
  Roots,         \* those a client opens itself
  Runs,
  Questions,     \* ids of the user messages the client makes
  NoSession,
  NoRun,
  LoadLimit,     \* historyLoadLimit (96)
  Trigger,       \* summaryTriggerMessages (18)
  KeepRecent,    \* summaryKeepRecentMessages (8)
  MaxMessages    \* bound on the messages of a session

ASSUME RootsOk == Roots \subseteq Sessions /\ NoSession \notin Sessions /\ NoRun \notin Runs
ASSUME QuestionsOk == \A q \in Questions : q \notin Runs \X Nat
ASSUME LimitsOk == {LoadLimit, Trigger, KeepRecent, MaxMessages} \subseteq Nat /\ KeepRecent < Trigger

VARIABLES
  session,    \* rows of sessions; "deleted" is an id that was in use
  branch,     \* session_branches, by child
  messages,   \* conversation_messages of each session, by position
  summaries,  \* conversation_summaries of each session
  run,        \* rows of runs
  worker,     \* the work in this process on each run, whatever its row says
  job         \* the summary each completed run is having made

rows  == <<session, branch>>
texts == <<messages, summaries>>
vars  == <<rows, texts, run, worker, job>>

NoBranch == [parent |-> NoSession, fork |-> NoRun, checkpoint |-> FALSE, end |-> 0]
Unasked  == [session |-> NoSession, status |-> "none", question |-> 0]
NoSummary == [from |-> 0, to |-> 0, read |-> {}]
NoJob    == NoSummary
Live(s)  == session[s] = "live"

-----------------------------------------------------------------------------
(* Lineage: what a session sees of its ancestors. *)

Parents(T) == {branch[c].parent : c \in {c \in T : branch[c] # NoBranch}}

\* resolveSessionLineageInner: the session, its parent if it is a branch, the
\* parent of that, and no other.
Lineage(s) ==
  {a \in Sessions : \A T \in SUBSET Sessions : s \in T /\ Parents(T) \subseteq T => a \in T}

\* clampLineageAtSession: the parent's messages up to the fork.
Segment(c) == SubSeq(messages[branch[c].parent], 1, branch[c].end)

\* What listVisibleConversationMessages takes of the ancestors.
Inherited(s) == [c \in {c \in Lineage(s) : branch[c] # NoBranch} |-> Segment(c)]

-----------------------------------------------------------------------------
(* Rows. *)

\* sessions.create keeps an existing row.
Open(s) == session' = [session EXCEPT ![s] = "live"] /\ UNCHANGED branch

Message(r, role, id) == [run |-> r, role |-> role, id |-> id]

\* Mutant: every message gets a row.
AddedAgain(ms, m) == Append(ms, m)

\* INSERT OR IGNORE: a message id is stored once per session.
Added(ms, m) == IF \E i \in DOMAIN ms : ms[i].id = m.id THEN ms ELSE Append(ms, m)
Say(s, m) == messages' = [messages EXCEPT ![s] = Added(@, m)]

\* The messages the run has drafted since its last flush, on top of those there.
Drafted(r, ms, n) == [i \in 1 .. n |-> Message(r, "assistant", <<r, Len(ms) + i>>)]

\* persistAssistantDrafts stores them all.
Drafts(r) ==
  \E n \in 0 .. MaxMessages :
    /\ n = 0 \/ Len(messages[run[r].session]) + n <= MaxMessages
    /\ messages' = [messages EXCEPT ![run[r].session] = @ \o Drafted(r, @, n)]

Status(r, status) == run' = [run EXCEPT ![r].status = status]
Goes(r, stage) == worker' = [worker EXCEPT ![r] = stage]

-----------------------------------------------------------------------------
(* Runs. *)

\* A message id is sent again when the request that brought it was refused.
Sendable(s, q) ==
  \A o \in Runs : run[o].question = q => run[o].session = s /\ run[o].status = "refused"

\* A POST with a new run id, claimed or refused (RUN_ALREADY_ACTIVE, a
\* configuration that does not resolve): both store the question.
Ask(r, s, q, status) ==
  /\ run[r] = Unasked /\ Sendable(s, q)
  /\ s \in Roots \/ session[s] # "none"
  /\ run' = [run EXCEPT ![r] = [session |-> s, status |-> status, question |-> q]]
  /\ Open(s) /\ Say(s, Message(r, "user", q))
  /\ IF status = "running" THEN Goes(r, "working") ELSE UNCHANGED worker
  /\ UNCHANGED <<summaries, job>>

\* The worker flushes its drafts and suspends the run, ended meanwhile or not.
Suspend(r) ==
  /\ worker[r] = "working" /\ Goes(r, "none")
  /\ Drafts(r) /\ Status(r, "suspended")
  /\ UNCHANGED <<rows, summaries, job>>

Resume(r) ==
  /\ run[r].status = "suspended" /\ Status(r, "running") /\ Goes(r, "working")
  /\ UNCHANGED <<rows, texts, job>>

\* The worker fails the run, or is canceled through its handle.
Fail(r) ==
  /\ worker[r] = "working" /\ Goes(r, "none")
  /\ Drafts(r) /\ Status(r, "over")
  /\ UNCHANGED <<rows, summaries, job>>

\* The subscriber goes, or the setup of a resumed run fails: the row is left.
Abandon(r) ==
  /\ worker[r] = "working" /\ Goes(r, "none")
  /\ UNCHANGED <<rows, texts, run, job>>

\* A reader or another request reclaims a row without a handle, the user cancels
\* it, or its request comes again and is refused: the row ends, its worker, if
\* there is one, goes on.
Reclaim(r) ==
  /\ run[r].status \in {"running", "suspended"} /\ Status(r, "over")
  /\ UNCHANGED <<rows, texts, worker, job>>

\* ORDER BY to_position DESC: the summary that reaches furthest.
Latest(s) ==
  IF summaries[s] = {} THEN NoSummary
  ELSE CHOOSE x \in summaries[s] : \A y \in summaries[s] : y.to <= x.to

\* Mutant: the messages that are kept out of the summary count as summarised.
UpToLast(unsummarized) == Max(unsummarized)

\* The last of the messages to summarise.
UpTo(unsummarized) ==
  CHOOSE p \in unsummarized : Cardinality({q \in unsummarized : q > p}) = KeepRecent

\* createAutomaticConversationSummary up to the call of the model.
SummaryOf(latest, n) ==
  LET unsummarized == {p \in 1 .. n : p > n - LoadLimit /\ p > latest.to} IN
  IF Cardinality(unsummarized) < Trigger THEN NoJob
  ELSE [from |-> IF latest = NoSummary THEN Min(unsummarized) ELSE latest.from,
        to   |-> UpTo(unsummarized),
        read |-> latest.read \cup {p \in unsummarized : Cardinality({q \in unsummarized : q > p}) >= KeepRecent}]

\* RunFinalizer.complete up to the memory flush.
Finish(r) ==
  LET s == run[r].session IN
  /\ worker[r] = "working" /\ Goes(r, "flushing") /\ Drafts(r)
  /\ job' = [job EXCEPT ![r] = SummaryOf(Latest(s), Len(messages'[s]))]
  /\ UNCHANGED <<rows, summaries, run>>

\* The summary is stored, unless its range is there or its rows are gone.
Summarized(r) ==
  LET s == run[r].session IN
  /\ job[r] # NoJob /\ job' = [job EXCEPT ![r] = NoJob]
  /\ IF run[r].status # "deleted" /\ ~\E x \in summaries[s] : x.from = job[r].from /\ x.to = job[r].to
       THEN summaries' = [summaries EXCEPT ![s] = @ \cup {job[r]}]
       ELSE UNCHANGED summaries
  /\ UNCHANGED <<rows, messages, run, worker>>

\* MEMORY_EXTRACTION_TIMEOUT: the late summary is aborted.
FlushTimesOut(r) ==
  /\ job[r] # NoJob /\ job' = [job EXCEPT ![r] = NoJob]
  /\ UNCHANGED <<rows, texts, run, worker>>

\* The rest of complete, even if the run was canceled meanwhile.
Complete(r) ==
  /\ worker[r] = "flushing" /\ job[r] = NoJob /\ Goes(r, "none") /\ Status(r, "over")
  /\ UNCHANGED <<rows, texts, job>>

\* The process ends; the next one reclaims the rows, by and by.
Crash ==
  /\ worker' = [r \in Runs |-> "none"] /\ job' = [r \in Runs |-> NoJob]
  /\ UNCHANGED <<rows, texts, run>>

-----------------------------------------------------------------------------
(* Branches and deletion. *)

Positions(r) == {p \in DOMAIN messages[run[r].session] : messages[run[r].session][p].run = r}

\* Mutant: the branch inherits the first message of the run.
RewriteEndLate(r) == IF Positions(r) = {} THEN 0 ELSE Min(Positions(r))

\* runRewriteForkMessageEndPosition.
RewriteEnd(r) == IF Positions(r) = {} THEN 0 ELSE Min(Positions(r)) - 1

\* checkpointForkMessageEndPosition: no checkpoint carries a position.
CheckpointEnd(r) ==
  LET asked == {p \in Positions(r) : messages[run[r].session][p].role = "user"}
  IN  IF asked = {} THEN RewriteEnd(r) ELSE Min(asked)

\* createSessionBranch, of a run of the active session's lineage.
Branch(active, r, child, checkpoint) ==
  /\ Live(active) /\ session[child] = "none" /\ child \notin Roots
  /\ run[r].status \in {"over", "refused"}
  /\ run[r].session \in Lineage(active)
  /\ session' = [session EXCEPT ![child] = "live"]
  /\ branch' = [branch EXCEPT ![child] = 
       [parent |-> run[r].session, fork |-> r, checkpoint |-> checkpoint,
        end |-> IF checkpoint THEN CheckpointEnd(r) ELSE RewriteEnd(r)]]
  /\ UNCHANGED <<texts, run, worker, job>>

\* Mutant: the branches of a branch are left.
WithChildren(s) == {s} \cup {c \in Sessions : branch[c].parent = s}

\* collectDescendantSessionIds, and the session.
WithDescendants(s) == {c \in Sessions : s \in Lineage(c)}

\* sessions.delete: one transaction, whatever the runs are doing.  What their
\* workers write later has no rows to refer to.
Delete(s) ==
  LET gone == WithDescendants(s) IN
  /\ Live(s)
  /\ session' = [x \in Sessions |-> IF x \in gone THEN "deleted" ELSE session[x]]
  /\ branch' = [x \in Sessions |-> IF x \in gone \/ branch[x].parent \in gone THEN NoBranch ELSE branch[x]]
  /\ messages' = [x \in Sessions |-> IF x \in gone THEN <<>> ELSE messages[x]]
  /\ summaries' = [x \in Sessions |-> IF x \in gone THEN {} ELSE summaries[x]]
  /\ run' = [r \in Runs |-> IF run[r].session \in gone THEN [run[r] EXCEPT !.status = "deleted"] ELSE run[r]]
  /\ worker' = [r \in Runs |-> IF run[r].session \in gone THEN "none" ELSE worker[r]]
  /\ UNCHANGED <<job>>

-----------------------------------------------------------------------------
Init ==
  /\ session = [s \in Sessions |-> "none"]
  /\ branch = [s \in Sessions |-> NoBranch]
  /\ messages = [s \in Sessions |-> <<>>] /\ summaries = [s \in Sessions |-> {}]
  /\ run = [r \in Runs |-> Unasked] /\ worker = [r \in Runs |-> "none"]
  /\ job = [r \in Runs |-> NoJob]

Work(r) ==
  \/ Suspend(r) \/ Resume(r) \/ Fail(r) \/ Abandon(r) \/ Reclaim(r) \/ Finish(r)
  \/ Summarized(r) \/ FlushTimesOut(r) \/ Complete(r)

Next ==
  \/ \E r \in Runs, s \in Sessions, q \in Questions, status \in {"running", "refused"} : Ask(r, s, q, status)
  \/ \E r \in Runs : Work(r)
  \/ \E s, child \in Sessions, r \in Runs : \E checkpoint \in BOOLEAN : Branch(s, r, child, checkpoint)
  \/ \E s \in Sessions : Delete(s)
  \/ Crash

Spec == Init /\ [][Next]_vars

-----------------------------------------------------------------------------
\* Every variable stays in its type; a message id is stored once per session.
Messages  == [run : Runs, role : {"user", "assistant"}, id : Questions \cup (Runs \X Nat)]
Summaries == [from : Nat, to : Nat, read : SUBSET Nat]

TypeOK ==
  /\ session \in [Sessions -> {"none", "live", "deleted"}]
  /\ branch \in [Sessions -> [parent : Sessions, fork : Runs, checkpoint : BOOLEAN, end : Nat] \cup {NoBranch}]
  /\ messages \in [Sessions -> Seq(Messages)]
  /\ \A s \in Sessions : \A i, j \in DOMAIN messages[s] : messages[s][i].id = messages[s][j].id => i = j
  /\ summaries \in [Sessions -> SUBSET Summaries]
  /\ run \in [Runs -> [session : Sessions, question : Questions,
                      status : {"running", "suspended", "over", "refused", "deleted"}] \cup {Unasked}]
  /\ worker \in [Runs -> {"none", "working", "flushing"}]
  /\ job \in [Runs -> Summaries]

\* A summary speaks for every message of its range: each was read by it or by
\* one it builds on, whatever runs, timeouts and other summaries came between.
\* Only what had left the window of LoadLimit messages is passed over.
SummaryCovers ==
  \A s \in Sessions : \A x \in summaries[s] :
    /\ x.read \subseteq x.from .. x.to /\ x.to <= Len(messages[s])
    /\ \A p \in x.from .. x.to : p \in x.read \/ p + LoadLimit <= x.to + KeepRecent

\* A branch goes back to before the run it rewrites: what it inherits has no
\* message of that run but, from a checkpoint, its question, although a worker
\* whose row was reclaimed goes on writing after the branch was made.  Its
\* ancestors are all still there, and it is none of them (SESSION_BRANCH_CYCLE).
BranchBeforeRun ==
  \A s \in Sessions : branch[s] # NoBranch =>
    /\ \A c \in DOMAIN Inherited(s) : \A i \in DOMAIN Inherited(s)[c] :
         Inherited(s)[c][i].run = branch[s].fork =>
           branch[s].checkpoint /\ Inherited(s)[c][i].role = "user"
    /\ \A a \in Lineage(s) : Live(a)
    /\ s \notin Lineage(branch[s].parent)

\* What a branch inherits never changes while it lives, however the
\* conversations of its ancestors and the runs that were in flight when it was
\* made go on, and whatever else is deleted.
BranchFrozen ==
  [][\A s \in Sessions : branch[s] # NoBranch /\ Live(s)' => Inherited(s)' = Inherited(s)]_vars
=============================================================================
