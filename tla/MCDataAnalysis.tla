--------------------------- MODULE MCDataAnalysis ---------------------------
(* Small instances of DataAnalysis. *)
EXTENDS DataAnalysis
=============================================================================
