---------------------------- MODULE ActionLedger ----------------------------
(***************************************************************************)
(* What a protocol segment promises to those who act on it, whoever they   *)
(* are and however many: every record is one atomic step on the latest     *)
(* state.  Used and budget are those of that moment, a result is folded    *)
(* into the domain with all the results before it, and the completion is   *)
(* decided on the domain as it then is.                                    *)
(***************************************************************************)
EXTENDS Naturals, FiniteSets

CONSTANTS
  Calls,       \* governed tool calls
  MaxActions,  \* the segment's action budget
  Undecided

VARIABLES
  status,      \* the record of each call's action
  folded,      \* the domain: the results it was reduced with, in order or not
  basis        \* the domain the completion was decided on

vars == <<status, folded, basis>>

Used == {c \in Calls : status[c] # "none"}

Record(c, from, to) ==
  /\ status[c] = from
  /\ status' = [status EXCEPT ![c] = to]

Init ==
  /\ status = [c \in Calls |-> "none"]
  /\ folded = {} /\ basis = Undecided

Request(c) ==
  /\ Cardinality(Used) < MaxActions
  /\ Record(c, "none", "requested")
  /\ UNCHANGED <<folded, basis>>

Reject(c) == Record(c, "none", "rejected") /\ UNCHANGED <<folded, basis>>

Fail(c) == Record(c, "requested", "failed") /\ UNCHANGED <<folded, basis>>

Succeed(c) ==
  /\ Record(c, "requested", "succeeded")
  /\ folded' = folded \cup {c}
  /\ UNCHANGED basis

Decide == basis' = folded /\ UNCHANGED <<status, folded>>

Next ==
  \/ Decide
  \/ \E c \in Calls : Request(c) \/ Reject(c) \/ Fail(c) \/ Succeed(c)

Spec == Init /\ [][Next]_vars
=============================================================================
