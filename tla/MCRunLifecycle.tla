--------------------------- MODULE MCRunLifecycle ---------------------------
(* Small instances of RunLifecycle: every run of one shared session. *)
EXTENDS RunLifecycle

CONSTANTS s1, q1, q2, q3, r1, r2, c1, c2

OneSession == [r \in Runs |-> s1]

\* Runs, and the requests with a text, differ in nothing but their name: of each
\* behaviour and its renamed copies, the one that begins with q1 and r1 is checked.
InOrder ==
  /\ pc[q1] = "idle" => pc[q2] = "idle"
  /\ status[r1] = "none" => status[r2] = "none"
=============================================================================
