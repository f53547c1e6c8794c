--------------------------- MODULE MCTraceSections ---------------------------
(* A run of two workers, with chunks and sections of one and two steps. *)
EXTENDS TraceSections
=============================================================================
