---------------------------- MODULE MCStateFile ----------------------------
EXTENDS StateFile, TLC

CONSTANTS r1, r2

RunnerSymmetry == Permutations(Runners)
=============================================================================
