------------------------------ MODULE RunLease ------------------------------
(***************************************************************************)
(* What the life of a run promises to those who post to it, read it or     *)
(* cancel it: one worker at a time holds a run, it begins on a run that is *)
(* new or waits for an answer, only the worker makes the run wait, and a   *)
(* run that is over and has no worker stays over.                          *)
(*                                                                         *)
(* Runs move independently, and several of them in one step: a claim       *)
(* reclaims others.                                                        *)
(***************************************************************************)
CONSTANTS
  Runs,
  Workers

VARIABLES
  state,   \* of each run: "new", "running", "waiting" or "over"
  holders  \* the workers of each run: none, or one

vars == <<state, holders>>

Becomes(r, s, h) == state'[r] = s /\ holders'[r] = h

Begin(r) ==
  /\ state[r] \in {"new", "waiting"} /\ holders[r] = {}
  /\ \E w \in Workers : Becomes(r, "running", {w})

\* The worker asks and is gone.
Ask(r) == holders[r] # {} /\ Becomes(r, "waiting", {})

\* The run ends with its worker, under it, or without one.
End(r) == \E h \in {holders[r], {}} : Becomes(r, "over", h)

\* The worker is gone; somebody else will settle the run.
Leave(r) == Becomes(r, state[r], {})

Rest(r) == Becomes(r, state[r], holders[r])

Init == state = [r \in Runs |-> "new"] /\ holders = [r \in Runs |-> {}]

Next == \A r \in Runs : Begin(r) \/ Ask(r) \/ End(r) \/ Leave(r) \/ Rest(r)

Spec == Init /\ [][Next]_vars
=============================================================================
