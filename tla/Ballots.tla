------------------------------ MODULE Ballots ------------------------------
(***************************************************************************)
(* Ballot numbers of the Multi-Paxos key-value store: the pair (term,      *)
(* server id) of types.BallotNumber and its lexicographic order.           *)
(***************************************************************************)
EXTENDS Integers

CONSTANT N  \* number of servers in the cluster (flag -peers)

ASSUME NAssumption == N \in Nat \ {0}

\* Server ids are positions in the peers slice.
Server == 0 .. N - 1

Ballot == [term : Nat, id : Server]

NewBallotNumber(term, id) == [term |-> term, id |-> id]

\* The zero value BallotNumber{} of a LogEntry that was never written.
ZeroBallot == NewBallotNumber(0, 0)

Compare(b, other) ==
  IF b.term < other.term THEN -1
  ELSE IF b.term > other.term THEN 1
  ELSE IF b.id < other.id THEN -1
  ELSE IF b.id > other.id THEN 1
  ELSE 0

GreaterThanTerm(b, other) ==  \* mutant: a tie of terms counts as greater
  b.term >= other.term
GreaterThan(b, other) == Compare(b, other) > 0

\* The acceptor's test `ballot.Compare(npromised) >= 0`.
AtLeast(b, other) == Compare(b, other) >= 0
=============================================================================
