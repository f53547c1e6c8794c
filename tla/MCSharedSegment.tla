--------------------------- MODULE MCSharedSegment ---------------------------
(* Three calls, a completion, room for two actions, two attempts. *)
EXTENDS SharedSegment, TLC

CONSTANTS a, b, c

Identical == Permutations(Calls)
=============================================================================
