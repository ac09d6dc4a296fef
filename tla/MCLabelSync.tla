---------------------------- MODULE MCLabelSync ----------------------------
(***************************************************************************)
(* Labels share nothing but the run they are synced in: one is enough.     *)
(***************************************************************************)
EXTENDS LabelSync, TLC

CONSTANTS h1, h2, l1

HostSymmetry == Permutations(Hosts)
=============================================================================
