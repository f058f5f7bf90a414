----------------------------- MODULE MCViewPings -----------------------------
(***************************************************************************)
(* ViewPings for TLC: the service looks at no name and ranges over its     *)
(* servers in any order, so servers may be exchanged in runs of safety.    *)
(***************************************************************************)
EXTENDS ViewPings, TLC

ServerSymmetry == Permutations(KVServer)
=============================================================================
