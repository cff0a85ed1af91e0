----------------------------- MODULE MCClientBase -----------------------------
EXTENDS ClientBase, TLC

CONSTANTS m1, m2, t1, t2

MCSymmetry == Permutations({m1, m2}) \cup Permutations({t1, t2})
=============================================================================
