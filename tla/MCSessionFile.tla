---------------------------- MODULE MCSessionFile ----------------------------
(* Three terminals and two servers.  SessionFile.cfg ends at the first lock that
   is removed under an operation at work: nothing is claimed after that.
   With InTime as the constraint instead, no lock is held for LOCK_STALE_MS and
   behaviours go on. *)
EXTENDS SessionFile, TLC

CONSTANTS k1, k2, o1, o2, o3

BeforeUsurped == ~usurped
InTime == ~lock.old
Identical == Permutations(Ops) \cup Permutations(Keys)
=============================================================================
