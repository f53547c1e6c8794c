--------------------------- MODULE MCKnowledgeBase ---------------------------
EXTENDS KnowledgeBase, TLC

CONSTANTS t1, t2, t3

\* Requests differ in nothing but their name.
Identical == Permutations({t1, t2, t3})
=============================================================================
