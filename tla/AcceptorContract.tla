-------------------------- MODULE AcceptorContract --------------------------
(***************************************************************************)
(* What the acceptors of the Multi-Paxos store promise the rest of the     *)
(* cluster, whatever crashes, lost messages and failed saves happen: a     *)
(* promise is only given for a ballot above every earlier promise of the   *)
(* same server, and an entry is only accepted at a ballot that no promise  *)
(* of that server excludes. Nothing is ever taken back.                    *)
(*                                                                         *)
(* This is a specification, not code: MultiPaxos is shown to implement it. *)
(***************************************************************************)
EXTENDS Ballots

VARIABLES
  granted,  \* the promises given so far: a set of [srv, ballot]
  votes     \* the entries accepted so far: a set of [srv, ballot, ...]

Init == granted = {} /\ votes = {}

\* Server g.srv promises to ignore every ballot below g.ballot.
Promise(g) ==
  /\ \A h \in granted : h.srv = g.srv => GreaterThan(g.ballot, h.ballot)
  /\ granted' = granted \cup {g}
  /\ UNCHANGED votes

\* Server v.srv accepts an entry at v.ballot.
Cast(v) ==
  /\ \A g \in granted : g.srv = v.srv => AtLeast(v.ballot, g.ballot)
  /\ votes' = votes \cup {v}
  /\ UNCHANGED granted

Next ==
  \/ \E g \in granted' : Promise(g)
  \/ \E v \in votes' : Cast(v)

Spec == Init /\ [][Next]_<<granted, votes>>
=============================================================================
