--------------------------- MODULE MCProtocolRun ---------------------------
(* Small instances of ProtocolRun. *)
EXTENDS ProtocolRun

\* Two of the phases of data-analysis: a tool that inspects the schema leaves
\* the first, and the general answer is not an action of the protocol.
Analysis ==
  LET allowed == {"tool", "handoff"}
  IN  [initial |-> "scope",
       allowed |-> [scope |-> allowed, synthesis |-> allowed],
       target  |-> [ph \in {"scope", "synthesis"} |-> [n \in allowed |->
                     IF n = "tool" THEN "synthesis" ELSE ph]],
       goal    |-> {<<"data-analysis", "tool">>}]
=============================================================================
