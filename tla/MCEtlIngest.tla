---------------------------- MODULE MCEtlIngest ----------------------------
(***************************************************************************)
(* Two hosts, one per team or both in one, for TLC.                        *)
(***************************************************************************)
EXTENDS EtlIngest, TLC

CONSTANTS h1, h2, s1, s2, t1, t2

OneHost == h1 :> t1
OneTeam == h1 :> t1 @@ h2 :> t1

Symmetry == Permutations(Hosts) \cup Permutations(Software)
=============================================================================
