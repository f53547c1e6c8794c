---------------------------- MODULE MCRunEvents ----------------------------
(* Two calls, one governed and of a task tool, in a run resumed once. *)
EXTENDS RunEvents

CONSTANTS c1, c2
=============================================================================
