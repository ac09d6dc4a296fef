---------------------------- MODULE MCOodaLoop ----------------------------
EXTENDS OodaLoop, TLC

CONSTANTS a, b

ServerSymmetry == Permutations(Servers)
=============================================================================
