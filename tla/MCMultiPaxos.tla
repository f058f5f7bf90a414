---------------------------- MODULE MCMultiPaxos ----------------------------
(***************************************************************************)
(* MultiPaxos for TLC, where the commands of clients may be exchanged: the *)
(* code looks at no command, so the runs of safety that have two of them   *)
(* need to check one of each pair of states that differ in their names.    *)
(* Servers are not exchanged: their ids order ballots.                     *)
(***************************************************************************)
EXTENDS MultiPaxos, TLC

RequestSymmetry == Permutations(Request)
=============================================================================
