--------------------------- MODULE MCConversation ---------------------------
(* One conversation with two branches. *)
EXTENDS Conversation, TLC

CONSTANTS s1, b1, b2, r1, r2, q1, q2

Identical == Permutations(Runs) \cup Permutations(Sessions \ Roots) \cup Permutations(Questions)
=============================================================================
