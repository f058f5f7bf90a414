---------------------------- MODULE ChosenProofs ----------------------------
(***************************************************************************)
(* What a majority stands for in MultiPaxos, for every number of servers,  *)
(* every set of requests and every bound: a leader is elected by one, and  *)
(* what is committed was accepted by one. Both are counted by goroutines,  *)
(* in sets of servers; the proofs show who is in them, and why an answer   *)
(* to one proposal is never counted for another. Then, what the promises   *)
(* of a majority tell the one that it elects; and last, what the learners  *)
(* make of what was committed.                                             *)
(***************************************************************************)
EXTENDS MultiPaxosProofs, FiniteSetTheorems

\* Whoever is counted, and the one who counts, are a majority together.
LEMMA CountedMajority ==
  ASSUME NEW counted \in SUBSET Server, NEW s \in Server, s \notin counted,
         Cardinality(counted) + 1 >= Majority,
         NEW all \in SUBSET Server, counted \cup {s} \subseteq all
  PROVE  Cardinality(all) >= Majority
<1>1. IsFiniteSet(Server)
  BY NAssumption, FS_Interval DEF Server
<1>2. IsFiniteSet(all) /\ IsFiniteSet(counted)
  BY <1>1, FS_Subset
<1>3. /\ IsFiniteSet(counted \cup {s})
      /\ Cardinality(counted \cup {s}) = Cardinality(counted) + 1
  BY <1>2, FS_AddElement
<1>4. Cardinality(counted \cup {s}) <= Cardinality(all)
  BY <1>2, FS_Subset
<1>5. /\ Cardinality(counted) \in Nat /\ Cardinality(all) \in Nat
      /\ Majority \in Nat
  BY <1>2, FS_CardinalityType, NAssumption DEF Majority
<1>6. QED
  BY <1>3, <1>4, <1>5

LEMMA LargerMajority ==
  ASSUME NEW few \in SUBSET Server, NEW more \in SUBSET Server,
         few \subseteq more, Cardinality(few) >= Majority
  PROVE  Cardinality(more) >= Majority
<1>1. IsFiniteSet(Server)
  BY NAssumption, FS_Interval DEF Server
<1>2. IsFiniteSet(few) /\ IsFiniteSet(more)
  BY <1>1, FS_Subset
<1>3. Cardinality(few) <= Cardinality(more)
  BY <1>2, FS_Subset
<1>4. /\ Cardinality(few) \in Nat /\ Cardinality(more) \in Nat
      /\ Majority \in Nat
  BY <1>2, FS_CardinalityType, NAssumption DEF Majority
<1>5. QED
  BY <1>3, <1>4

-----------------------------------------------------------------------------
(* Proposals. The name of a proposal is used once by its server: a request *)
(* is taken up once, and the ballot that names a no-op is above all that   *)
(* its server ever promised, also before a crash. So an Accept on its way  *)
(* belongs to the proposal of its name and to no other.                    *)

\* Server s has used this name, or may have.
Used(s, id) ==
  IF id \in Request THEN id \in submitted
  ELSE [srv |-> s, ballot |-> id] \in granted

\* Accept m belongs to proposal p.
Belongs(m, p) ==
  p.phase = "sent" /\ p.ballot = m.entry.ballot /\ p.index = m.entry.index

NamesUsed ==
  /\ \A p \in props : Used(p.srv, p.id)
  /\ \A m \in msgs : m.type = "Accept" => Used(m.src, m.id)

NamesApart ==
  /\ \A p, q \in props : p.id = q.id /\ p.srv = q.srv => p = q
  /\ \A m \in msgs, p \in props :
       m.type = "Accept" /\ p.id = m.id /\ p.srv = m.src => Belongs(m, p)

\* Nobody has the name that server s would give a proposal.
Free(s, id) ==
  /\ \A p \in props : ~(p.id = id /\ p.srv = s)
  /\ \A m \in msgs : m.type = "Accept" => ~(m.id = id /\ m.src = s)

\* The no-op that an election may end with.
NoOpFree(s) ==
  round[s].kind = "election" =>
    /\ [srv |-> s, ballot |-> round[s].ballot] \in granted
    /\ Free(s, round[s].ballot)

NoOpsFree == \A s \in Server : NoOpFree(s)

\* Who is counted has accepted.
Counted ==
  \A p \in props :
    /\ p.srv \notin p.acks
    /\ p.phase # "sent" => p.acks = {}
    /\ p.phase = "sent" => p.acks \cup {p.srv} \subseteq Accepters(p)

ProposalInv == NamesUsed /\ NamesApart /\ NoOpsFree /\ Counted

\* Histories, and the elections under way, after a step.
HistoriesGrow ==
  /\ votes \subseteq votes'
  /\ submitted \subseteq submitted'
  /\ granted \subseteq granted'

SameElections ==
  \A s \in Server : round'[s].kind = "election" =>
    round[s].kind = "election" /\ round'[s].ballot = round[s].ballot

NoNewAccepts == \A m \in msgs' : m.type = "Accept" => m \in msgs

LEMMA UsedKept ==
  ASSUME HistoriesGrow, NEW s, NEW id, Used(s, id)
  PROVE  Used(s, id)'
  BY DEF HistoriesGrow, Used

LEMMA AcceptersKept ==
  ASSUME votes \subseteq votes', NEW a
  PROVE  Accepters(a) \subseteq Accepters(a)'
  BY DEF Accepters

\* A step that begins nothing: proposals and calls only go away.
LEMMA ProposalsKept ==
  ASSUME ProposalInv, HistoriesGrow, SameElections, NoNewAccepts,
         props' \subseteq props
  PROVE  ProposalInv'
<1>1. NamesUsed'
  BY UsedKept DEF ProposalInv, NamesUsed, NoNewAccepts
<1>2. NamesApart'
  BY DEF ProposalInv, NamesApart, NoNewAccepts, Belongs
<1>3. NoOpsFree'
  <2>1. SUFFICES ASSUME NEW s \in Server, round'[s].kind = "election"
                 PROVE  NoOpFree(s)'
    BY DEF NoOpsFree, NoOpFree
  <2>2. /\ round'[s].ballot = round[s].ballot
        /\ [srv |-> s, ballot |-> round[s].ballot] \in granted
        /\ Free(s, round[s].ballot)
    BY <2>1 DEF SameElections, ProposalInv, NoOpsFree, NoOpFree
  <2>3. QED
    BY <2>1, <2>2 DEF NoOpFree, Free, NoNewAccepts, HistoriesGrow
<1>4. Counted'
  BY AcceptersKept DEF ProposalInv, Counted, HistoriesGrow, Accepters
<1>5. QED
  BY <1>1, <1>2, <1>3, <1>4 DEF ProposalInv

\* A step that begins proposal n, of a name that nobody has.
LEMMA ProposalBegun ==
  ASSUME ProposalInv, HistoriesGrow, SameElections, NoNewAccepts,
         NEW n, props' = props \cup {n},
         n.acks = {}, n.phase # "sent", Free(n.srv, n.id),
         Used(n.srv, n.id)',
         \A s \in Server :
           round'[s].kind = "election" /\ n.srv = s => n.id # round'[s].ballot
  PROVE  ProposalInv'
<1>1. NamesUsed'
  BY UsedKept DEF ProposalInv, NamesUsed, NoNewAccepts
<1>2. NamesApart'
  BY DEF ProposalInv, NamesApart, NoNewAccepts, Belongs, Free
<1>3. NoOpsFree'
  <2>1. SUFFICES ASSUME NEW s \in Server, round'[s].kind = "election"
                 PROVE  NoOpFree(s)'
    BY DEF NoOpsFree, NoOpFree
  <2>2. /\ round'[s].ballot = round[s].ballot
        /\ [srv |-> s, ballot |-> round[s].ballot] \in granted
        /\ Free(s, round[s].ballot)
    BY <2>1 DEF SameElections, ProposalInv, NoOpsFree, NoOpFree
  <2>3. QED
    BY <2>1, <2>2 DEF NoOpFree, Free, NoNewAccepts, HistoriesGrow
<1>4. Counted'
  BY AcceptersKept DEF ProposalInv, Counted, HistoriesGrow, Accepters
<1>5. QED
  BY <1>1, <1>2, <1>3, <1>4 DEF ProposalInv

\* A step that takes proposal p further, and may send its entry.
LEMMA ProposalMoved ==
  ASSUME ProposalInv, HistoriesGrow, SameElections,
         NEW p \in props, p.phase # "sent", NEW q,
         props' = (props \ {p}) \cup {q},
         q.id = p.id, q.srv = p.srv, q.acks = {},
         q.phase = "sent" => q.srv \in Accepters(q)',
         \A m \in msgs' : m.type = "Accept" =>
           m \in msgs \/ (m.id = p.id /\ m.src = p.srv /\ Belongs(m, q))
  PROVE  ProposalInv'
<1>1. NamesUsed'
  BY UsedKept DEF ProposalInv, NamesUsed
<1>2. NamesApart'
  BY DEF ProposalInv, NamesApart, Belongs
<1>3. NoOpsFree'
  <2>1. SUFFICES ASSUME NEW s \in Server, round'[s].kind = "election"
                 PROVE  NoOpFree(s)'
    BY DEF NoOpsFree, NoOpFree
  <2>2. /\ round'[s].ballot = round[s].ballot
        /\ [srv |-> s, ballot |-> round[s].ballot] \in granted
        /\ Free(s, round[s].ballot)
    BY <2>1 DEF SameElections, ProposalInv, NoOpsFree, NoOpFree
  <2>3. QED
    BY <2>1, <2>2 DEF NoOpFree, Free, HistoriesGrow
<1>4. Counted'
  BY AcceptersKept DEF ProposalInv, Counted, HistoriesGrow, Accepters
<1>5. QED
  BY <1>1, <1>2, <1>3, <1>4 DEF ProposalInv

-----------------------------------------------------------------------------
(* The actions.                                                            *)

LEMMA StartElectionProposals ==
  ASSUME TypeInv, PromiseInv, ProposalInv, NEW s \in Server, StartElection(s)
  PROVE  ProposalInv'
<1> DEFINE b == NextBallot(s)
<1>1. round \in [Server -> Rounds] /\ b \in Ballot /\ ps[s].npromised \in Ballot
  BY NextBallotType, StorageAt DEF TypeInv, RoundOK
<1>2. /\ props' = props /\ HistoriesGrow /\ NoNewAccepts
      /\ \A t \in Server \ {s} : round'[t] = round[t]
  BY <1>1 DEF StartElection, HistoriesGrow, NoNewAccepts
<1>3. CASE UNCHANGED round
  BY <1>2, <1>3, ProposalsKept DEF SameElections
<1>4. CASE /\ round' = [round EXCEPT ![s] =
                          [IdleRound EXCEPT !.kind = "election", !.ballot = b]]
           /\ granted' = granted \cup {[srv |-> s, ballot |-> b]}
  <2>1. [srv |-> s, ballot |-> b] \notin granted
    <3>1. GreaterThan(b, ps[s].npromised)
      BY NextBallotGreater DEF TypeInv
    <3>2. ASSUME [srv |-> s, ballot |-> b] \in granted
          PROVE  GreaterThan(b, b)
      BY <1>1, <3>1, <3>2, BallotTransitive DEF PromiseInv, PromisesKept
    <3>3. ~GreaterThan(b, b)
      <4> HIDE DEF b
      <4>1. b.term \in Nat /\ b.id \in Int
        BY <1>1, BallotTypes DEF Server
      <4>2. QED
        BY <1>1, <4>1, BallotOrder
    <3>4. QED
      BY <3>2, <3>3
  <2>2. b \notin Request
    BY <1>1, NamesAssumption
  <2>3. Free(s, b)
    <3> HIDE DEF b
    <3>1. ~Used(s, b)
      BY <2>1, <2>2 DEF Used
    <3>2. QED
      BY <3>1 DEF ProposalInv, NamesUsed, Free
  <2>4. round'[s].ballot = b
    BY <1>1, <1>4 DEF IdleRound
  <2>5. NamesUsed' /\ NamesApart' /\ Counted'
    BY <1>2, UsedKept, AcceptersKept DEF ProposalInv, NamesUsed, NamesApart,
       Counted, NoNewAccepts, Belongs, HistoriesGrow, Accepters
  <2>6. NoOpFree(s)'
    BY <1>2, <1>4, <2>3, <2>4 DEF NoOpFree, Free, NoNewAccepts
  <2>7. ASSUME NEW t \in Server \ {s} PROVE NoOpFree(t)'
    BY <1>2 DEF ProposalInv, NoOpsFree, NoOpFree, Free, NoNewAccepts,
       HistoriesGrow
  <2>8. NoOpsFree'
    BY <2>6, <2>7 DEF NoOpsFree
  <2>9. QED
    BY <2>5, <2>8 DEF ProposalInv
<1>5. QED
  BY <1>3, <1>4 DEF StartElection

LEMMA FinishElectionProposals ==
  ASSUME TypeInv, ProposalInv, NEW s \in Server, FinishElection(s)
  PROVE  ProposalInv'
<1>0. PICK n : n = [id |-> round[s].ballot, srv |-> s, phase |-> "spawn",
                    index |-> 0, ballot |-> ZeroBallot, acks |-> {}]
  OBVIOUS
<1>1. round \in [Server -> Rounds]
  BY DEF TypeInv, RoundOK
<1>2. HistoriesGrow /\ NoNewAccepts
  BY DEF FinishElection, HistoriesGrow, NoNewAccepts, history
<1>3. /\ round' = [round EXCEPT ![s] = IdleRound]
      /\ round[s].kind = "election"
  BY DEF FinishElection
<1>4. SameElections /\ round'[s].kind # "election"
  BY <1>1, <1>3 DEF SameElections, IdleRound
<1>5. CASE props' = props
  BY <1>2, <1>4, <1>5, ProposalsKept
<1>6. CASE props' = props \cup {n}
  <2>1. /\ n.id = round[s].ballot /\ n.srv = s /\ n.acks = {}
        /\ n.phase # "sent"
    BY <1>0
  <2>2. /\ [srv |-> s, ballot |-> round[s].ballot] \in granted
        /\ Free(s, round[s].ballot)
    BY <1>3 DEF ProposalInv, NoOpsFree, NoOpFree
  <2>3. round[s].ballot \notin Request
    BY <1>1, NamesAssumption DEF Rounds
  <2>4. Used(n.srv, n.id)'
    BY <1>2, <2>1, <2>2, <2>3 DEF Used, HistoriesGrow
  <2>5. Free(n.srv, n.id)
    BY <2>1, <2>2
  <2>6. \A t \in Server :
          round'[t].kind = "election" /\ n.srv = t => n.id # round'[t].ballot
    BY <1>4, <2>1
  <2>7. QED
    BY <1>2, <1>4, <1>6, <2>1, <2>4, <2>5, <2>6, ProposalBegun
<1>7. QED
  BY <1>0, <1>5, <1>6 DEF FinishElection

LEMMA ReadLogLengthProposals ==
  ASSUME TypeInv, ProposalInv, NEW s \in Server, NEW r \in Request,
         ReadLogLength(s, r)
  PROVE  ProposalInv'
<1>0. PICK n : n = [id |-> r, srv |-> s, phase |-> "read",
                    index |-> GetLogLength(ps[s]), ballot |-> ZeroBallot,
                    acks |-> {}]
  OBVIOUS
<1>1. n.id = r /\ n.srv = s /\ n.acks = {} /\ n.phase # "sent"
  BY <1>0
<1>2. /\ props' = props \cup {n} /\ submitted' = submitted \cup {r}
      /\ r \notin submitted
      /\ UNCHANGED <<round, msgs, granted, votes>>
  BY <1>0 DEF ReadLogLength, history
<1>3. HistoriesGrow /\ NoNewAccepts /\ SameElections
  BY <1>2 DEF HistoriesGrow, NoNewAccepts, SameElections
<1>4. Free(n.srv, n.id)
  <2>1. ~Used(s, r)
    BY <1>2 DEF Used
  <2>2. QED
    BY <1>1, <2>1 DEF Free, ProposalInv, NamesUsed
<1>5. Used(n.srv, n.id)'
  BY <1>1, <1>2 DEF Used
<1>6. \A t \in Server :
        round'[t].kind = "election" /\ n.srv = t => n.id # round'[t].ballot
  BY <1>1, <1>2, NamesAssumption DEF TypeInv, RoundOK, Rounds
<1>7. QED
  BY <1>1, <1>2, <1>3, <1>4, <1>5, <1>6, ProposalBegun

LEMMA ProposeNoOpProposals ==
  ASSUME TypeInv, ProposalInv, NEW p \in props, ProposeNoOp(p)
  PROVE  ProposalInv'
<1>0. PICK q :
        q = [p EXCEPT !.phase = "read", !.index = GetLogLength(ps[p.srv])]
  OBVIOUS
<1>1. p \in Proposals
  BY ProposalType DEF TypeInv
<1>2. /\ p.phase # "sent" /\ props' = (props \ {p}) \cup {q}
      /\ UNCHANGED <<round, msgs, granted, votes, submitted>>
  BY <1>0 DEF ProposeNoOp, history
<1>3. q.id = p.id /\ q.srv = p.srv /\ q.acks = p.acks /\ q.phase # "sent"
  BY <1>0, <1>1 DEF Proposals
<1>4. p.acks = {}
  BY <1>2 DEF ProposalInv, Counted
<1>5. HistoriesGrow /\ SameElections
  BY <1>2 DEF HistoriesGrow, SameElections
<1>6. QED
  BY <1>2, <1>3, <1>4, <1>5, ProposalMoved

LEMMA ProposeEntryProposals ==
  ASSUME TypeInv, ProposalInv, NEW p \in props, ProposeEntry(p)
  PROVE  ProposalInv'
<1>0. PICK entry, q :
        /\ entry = EntryOf(p)
        /\ q = [p EXCEPT !.phase = "sent", !.ballot = entry.ballot]
  OBVIOUS
<1> DEFINE own == [srv |-> p.srv, by |-> p.srv, id |-> p.id,
                   ballot |-> entry.ballot, index |-> entry.index]
           calls == [type : {"Accept"}, src : {p.srv}, dst : Peers(p.srv),
                     id : {p.id}, entry : {entry}]
<1>1. p \in Proposals /\ p.srv \in Server
  BY ProposalType DEF TypeInv
<1>2. /\ p.phase # "sent"
      /\ UNCHANGED <<round, submitted, granted>>
      /\ \/ /\ props' = (props \ {p}) \cup {q}
            /\ msgs' = msgs \cup calls
            /\ votes' = votes \cup {own}
         \/ props' = props \ {p} /\ UNCHANGED <<msgs, votes>>
  BY <1>0 DEF ProposeEntry, Returned
<1>3. HistoriesGrow /\ SameElections
  BY <1>2 DEF HistoriesGrow, SameElections
<1>4. CASE props' = props \ {p} /\ UNCHANGED <<msgs, votes>>
  BY <1>3, <1>4, ProposalsKept DEF NoNewAccepts
<1>5. CASE /\ props' = (props \ {p}) \cup {q}
           /\ msgs' = msgs \cup calls
           /\ votes' = votes \cup {own}
  <2>1. /\ q.id = p.id /\ q.srv = p.srv /\ q.acks = p.acks /\ q.phase = "sent"
        /\ q.ballot = entry.ballot /\ q.index = p.index
    BY <1>0, <1>1 DEF Proposals
  <2>2. entry.index = p.index
    BY <1>0 DEF EntryOf
  <2>3. \A m \in calls : m.id = p.id /\ m.src = p.srv /\ m.entry = entry
    OBVIOUS
  <2>4. /\ own.srv = p.srv /\ own.id = p.id /\ own.ballot = entry.ballot
        /\ own.index = entry.index
    OBVIOUS
  <2>5. p.acks = {}
    BY <1>2 DEF ProposalInv, Counted
  <2> HIDE DEF own, calls
  <2>6. q.srv \in Accepters(q)'
    BY <1>1, <1>5, <2>1, <2>2, <2>4 DEF Accepters
  <2>7. \A m \in msgs' : m.type = "Accept" =>
          m \in msgs \/ (m.id = p.id /\ m.src = p.srv /\ Belongs(m, q))
    BY <1>5, <2>1, <2>2, <2>3 DEF Belongs
  <2>8. QED
    BY <1>2, <1>3, <1>5, <2>1, <2>5, <2>6, <2>7, ProposalMoved
<1>6. QED
  BY <1>2, <1>4, <1>5

\* A yes is counted for the proposal it was asked for, whose index and ballot
\* it names.
LEMMA HandleAcceptProposals ==
  ASSUME TypeInv, ProposalInv, NEW m \in msgs, HandleAccept(m)
  PROVE  ProposalInv'
<1>0. PICK vote : vote = [srv |-> m.dst, by |-> m.src, id |-> m.id,
                          ballot |-> m.entry.ballot, index |-> m.entry.index]
  OBVIOUS
<1> DEFINE counted(p) == [p EXCEPT !.acks = @ \cup {m.dst}]
<1>1. m.type = "Accept" /\ m.src \in Server /\ m.dst \in Server /\ m.src # m.dst
  BY AcceptType DEF HandleAccept, TypeInv
<1>2. /\ UNCHANGED <<round, submitted, granted>> /\ msgs' = msgs \ {m}
      /\ \/ /\ votes' = votes \cup {vote}
            /\ CountAccept(m)
         \/ UNCHANGED <<props, votes>>
  BY <1>0 DEF HandleAccept
<1>3. HistoriesGrow /\ SameElections /\ NoNewAccepts
  BY <1>2 DEF HistoriesGrow, SameElections, NoNewAccepts
<1>4. CASE props' = props
  BY <1>3, <1>4, ProposalsKept
<1>5. CASE /\ props' = (props \ Callers(m)) \cup {counted(p) : p \in Callers(m)}
           /\ votes' = votes \cup {vote}
  <2>1. props \subseteq Proposals
    BY DEF TypeInv, PropsOK
  <2>2. \A p \in props :
          /\ counted(p).id = p.id /\ counted(p).srv = p.srv
          /\ counted(p).phase = p.phase /\ counted(p).ballot = p.ballot
          /\ counted(p).index = p.index
          /\ counted(p).acks = p.acks \cup {m.dst}
    BY <2>1 DEF Proposals
  <2> HIDE DEF counted
  <2>3. \A q \in props' :
          \/ q \in props
          \/ \E p \in props : p \in Callers(m) /\ q = counted(p)
    BY <1>5 DEF Callers
  <2>4. \A p \in Callers(m) : p \in props /\ p.id = m.id /\ p.srv = m.src
    BY DEF Callers
  <2>5. \A q \in props' : \E p \in props : q.id = p.id /\ q.srv = p.srv
    BY <2>2, <2>3
  <2>6. NamesUsed'
    <3>1. \A q \in props' : Used(q.srv, q.id)'
      <4>1. TAKE q \in props'
      <4>2. PICK p \in props : q.id = p.id /\ q.srv = p.srv
        BY <2>5
      <4>3. Used(p.srv, p.id)'
        BY <1>3, UsedKept DEF ProposalInv, NamesUsed
      <4>4. QED
        BY <4>2, <4>3
    <3>2. QED
      BY <1>3, <3>1, UsedKept DEF ProposalInv, NamesUsed, NoNewAccepts
  <2>7. NamesApart'
    <3>1. \A a, b \in props' : a.id = b.id /\ a.srv = b.srv => a = b
      <4>1. SUFFICES ASSUME NEW a \in props', NEW b \in props',
                            a.id = b.id, a.srv = b.srv
                     PROVE  a = b
        OBVIOUS
      <4>2. /\ \/ a \in props /\ a \notin Callers(m)
               \/ \E p \in props : p \in Callers(m) /\ a = counted(p)
            /\ \/ b \in props /\ b \notin Callers(m)
               \/ \E p \in props : p \in Callers(m) /\ b = counted(p)
        BY <1>5, <2>4
      <4>3. \A p, q \in props : p.id = q.id /\ p.srv = q.srv => p = q
        BY DEF ProposalInv, NamesApart
      <4>4. QED
        BY <2>2, <2>4, <4>1, <4>2, <4>3 DEF Callers
    <3>2. \A n \in msgs', q \in props' :
            n.type = "Accept" /\ q.id = n.id /\ q.srv = n.src => Belongs(n, q)
      BY <1>3, <2>2, <2>3 DEF ProposalInv, NamesApart, NoNewAccepts, Belongs
    <3>3. QED
      BY <3>1, <3>2 DEF NamesApart, Belongs
  <2>8. NoOpsFree'
    <3>1. \A s, id : Free(s, id) => Free(s, id)'
      BY <1>3, <2>5 DEF Free, NoNewAccepts
    <3>2. QED
      BY <1>2, <3>1 DEF ProposalInv, NoOpsFree, NoOpFree
  <2>9. Counted'
    <3>1. ASSUME NEW p \in props
          PROVE  /\ p.srv \notin p.acks
                 /\ p.phase # "sent" => p.acks = {}
                 /\ p.phase = "sent" =>
                      p.acks \cup {p.srv} \subseteq Accepters(p)'
      BY <1>3, AcceptersKept DEF ProposalInv, Counted, HistoriesGrow
    <3>2. ASSUME NEW p \in props, p \in Callers(m)
          PROVE  /\ counted(p).srv \notin counted(p).acks
                 /\ counted(p).phase = "sent"
                 /\ counted(p).acks \cup {counted(p).srv}
                      \subseteq Accepters(counted(p))'
      <4>1. p.phase = "sent" /\ p.ballot = vote.ballot /\ p.index = vote.index
            /\ p.id = vote.id /\ vote.srv = m.dst
        BY <1>0, <1>1, <2>4, <3>2 DEF ProposalInv, NamesApart, Belongs
      <4>2. vote \in votes'
        BY <1>5
      <4>3. m.dst \in Accepters(p)'
        BY <1>1, <4>1, <4>2 DEF Accepters
      <4>4. Accepters(counted(p))' = Accepters(p)'
        BY <2>2 DEF Accepters
      <4>5. QED
        BY <1>1, <2>2, <2>4, <3>1, <3>2, <4>1, <4>3, <4>4
    <3>3. ASSUME NEW q \in props'
          PROVE  /\ q.srv \notin q.acks
                 /\ q.phase # "sent" => q.acks = {}
                 /\ q.phase = "sent" =>
                      q.acks \cup {q.srv} \subseteq Accepters(q)'
      BY <2>3, <3>1, <3>2
    <3>4. QED
      BY <3>3 DEF Counted, Accepters
  <2>10. QED
    BY <2>6, <2>7, <2>8, <2>9 DEF ProposalInv
<1>6. QED
  BY <1>2, <1>4, <1>5 DEF CountAccept

\* A round of heartbeats is no election, and no election is begun by counting.
LEMMA HandleHeartbeatElections ==
  ASSUME TypeInv, NEW m \in msgs, HandleHeartbeat(m)
  PROVE  /\ SameElections
         /\ \A s \in Server : round'[s].kind = round[s].kind
         /\ \A s \in Server : round'[s].seq = round[s].seq
         /\ \A s \in Server : round[s].seq # m.seq => round'[s] = round[s]
<1>1. m.src \in Server /\ round \in [Server -> Rounds]
  BY HeartbeatType DEF HandleHeartbeat, TypeInv, RoundOK
<1>2. CASE round' = round
  BY <1>2 DEF SameElections
<1>3. CASE round[m.src].seq = m.seq /\
           round' = [round EXCEPT
             ![m.src].acks = @ \cup {m.dst},
             ![m.src].behind = @ \cup {s \in {m.dst} :
                                 GetLogLength(ps[s]) < round[m.src].len}]
  <2>1. /\ round'[m.src].kind = round[m.src].kind
        /\ round'[m.src].ballot = round[m.src].ballot
        /\ round'[m.src].seq = round[m.src].seq
    BY <1>1, <1>3 DEF Rounds
  <2>2. \A s \in Server \ {m.src} : round'[s] = round[s]
    BY <1>1, <1>3
  <2>3. QED
    BY <1>3, <2>1, <2>2 DEF SameElections
<1>4. QED
  BY <1>2, <1>3 DEF HandleHeartbeat, CountHeartbeat

\* The actions that begin no proposal, send no entry and start no election.
LEMMA OtherProposals ==
  ASSUME TypeInv, ProposalInv,
         \/ UNCHANGED vars
         \/ \E s \in Server :
              \/ SendHeartbeats(s) \/ InitiateStateTransfer(s)
              \/ FinishHeartbeats(s) \/ ApplyCommittedEntries(s) \/ Restart(s)
         \/ \E p \in props : FinishProposal(p)
         \/ \E m \in msgs :
              HandlePrepare(m) \/ ReceivePromise(m) \/ HandleHeartbeat(m)
  PROVE  ProposalInv'
<1>1. round \in [Server -> Rounds]
  BY DEF TypeInv, RoundOK
<1>2. ASSUME NEW s \in Server, SendHeartbeats(s)
      PROVE  /\ HistoriesGrow /\ SameElections /\ NoNewAccepts
             /\ props' \subseteq props
  <2>1. \A t \in Server : round'[t].kind = "election" => round'[t] = round[t]
    <3>1. round'[s].kind = "heartbeat"
      BY <1>1, <1>2 DEF SendHeartbeats, IdleRound
    <3>2. \A t \in Server \ {s} : round'[t] = round[t]
      BY <1>1, <1>2 DEF SendHeartbeats
    <3>3. QED
      BY <3>1, <3>2
  <2>2. QED
    BY <1>2, <2>1 DEF SendHeartbeats, HistoriesGrow, SameElections,
       NoNewAccepts, history
<1>3. ASSUME NEW s \in Server, FinishHeartbeats(s) \/ Restart(s)
      PROVE  /\ HistoriesGrow /\ SameElections /\ NoNewAccepts
             /\ props' \subseteq props
  <2>1. round' = [round EXCEPT ![s] = IdleRound]
    BY <1>3 DEF FinishHeartbeats, Restart
  <2>2. SameElections
    BY <1>1, <2>1 DEF SameElections, IdleRound
  <2>3. QED
    BY <1>3, <2>2 DEF FinishHeartbeats, Restart, HistoriesGrow, NoNewAccepts,
       history
<1>4. ASSUME \/ UNCHANGED vars
             \/ \E s \in Server :
                  InitiateStateTransfer(s) \/ ApplyCommittedEntries(s)
             \/ \E p \in props : FinishProposal(p)
             \/ \E m \in msgs : HandlePrepare(m)
      PROVE  /\ HistoriesGrow /\ SameElections /\ NoNewAccepts
             /\ props' \subseteq props
  <2>1. HistoriesGrow /\ props' \subseteq props /\ UNCHANGED round
    BY <1>4 DEF vars, InitiateStateTransfer, ApplyCommittedEntries,
       FinishProposal, Returned, HandlePrepare, HistoriesGrow, history
  <2>2. SameElections
    BY <2>1 DEF SameElections
  <2>3. ASSUME NEW n \in msgs, HandlePrepare(n)
        PROVE  \A m \in msgs' : m \in msgs \/ m.type = "Promise"
    BY <2>3 DEF HandlePrepare
  <2>4. ASSUME ~ \E m \in msgs : HandlePrepare(m)
        PROVE  msgs' = msgs
    BY <1>4, <2>4 DEF vars, InitiateStateTransfer, ApplyCommittedEntries,
       FinishProposal
  <2>5. NoNewAccepts
    BY <2>3, <2>4 DEF NoNewAccepts
  <2>6. QED
    BY <2>1, <2>2, <2>5
<1>5. ASSUME NEW m \in msgs, ReceivePromise(m)
      PROVE  /\ HistoriesGrow /\ SameElections /\ NoNewAccepts
             /\ props' \subseteq props
  <2>1. SameElections
    <3>1. round' = [round EXCEPT ![m.dst].acks = @ \cup {m.src}]
      BY <1>5 DEF ReceivePromise
    <3>2. \A s \in Server : /\ round'[s].kind = round[s].kind
                            /\ round'[s].ballot = round[s].ballot
      BY <1>1, <3>1 DEF Rounds
    <3>3. QED
      BY <3>2 DEF SameElections
  <2>2. QED
    BY <1>5, <2>1 DEF ReceivePromise, HistoriesGrow, NoNewAccepts, history
<1>6. ASSUME NEW m \in msgs, HandleHeartbeat(m)
      PROVE  /\ HistoriesGrow /\ SameElections /\ NoNewAccepts
             /\ props' \subseteq props
  BY <1>6, HandleHeartbeatElections
     DEF HandleHeartbeat, HistoriesGrow, NoNewAccepts, history
<1>7. QED
  BY <1>2, <1>3, <1>4, <1>5, <1>6, ProposalsKept

LEMMA ProposalsInvariance ==
  ASSUME RestartRole = {}
  PROVE  Spec => [](TypeInv /\ PromiseInv /\ ProposalInv)
<1>1. Init => ProposalInv
  BY DEF Init, ProposalInv, NamesUsed, NamesApart, NoOpsFree, NoOpFree, Counted,
     IdleRound
<1>2. ASSUME TypeInv, PromiseInv, ProposalInv, [Next]_vars
      PROVE  ProposalInv'
  BY <1>2, StartElectionProposals, FinishElectionProposals,
     ReadLogLengthProposals, ProposeNoOpProposals, ProposeEntryProposals,
     HandleAcceptProposals, OtherProposals DEF Next, Internal
<1>3. QED
  BY <1>1, <1>2, PromiseInvariance, PTL DEF Spec

-----------------------------------------------------------------------------
(* Commits. An index counts as committed because a proposal succeeded there *)
(* or because the heartbeat of a server says so to which that applies.      *)

SucceededAt(index) == \E a \in acked : a.index = index

CommitInv ==
  /\ CommitsAreChosen
  /\ \A m \in msgs :
       m.type = "Heartbeat" /\ m.commit # -1 => SucceededAt(m.commit)

\* A step that commits nothing new.
LEMMA CommitsKept ==
  ASSUME CommitInv, votes \subseteq votes', acked' = acked,
         \A s \in Server :
           commitIndex'[s] # -1 => commitIndex'[s] = commitIndex[s],
         \A m \in msgs' : m.type = "Heartbeat" => m \in msgs
  PROVE  CommitInv'
<1>1. ASSUME NEW a \in acked
      PROVE  Cardinality(Accepters(a)') >= Majority
  <2>1. Accepters(a) \subseteq Accepters(a)' /\ Accepters(a)' \subseteq Server
    BY DEF Accepters
  <2>2. Cardinality(Accepters(a)) >= Majority
    BY DEF CommitInv, CommitsAreChosen
  <2>3. QED
    BY <2>1, <2>2, LargerMajority
<1>2. CommitsAreChosen'
  BY <1>1 DEF CommitInv, CommitsAreChosen, Accepters
<1>3. QED
  BY <1>2 DEF CommitInv, SucceededAt

LEMMA FinishProposalCommits ==
  ASSUME TypeInv, ProposalInv, CommitInv, NEW p \in props, FinishProposal(p)
  PROVE  CommitInv'
<1>0. PICK a : a = [id |-> p.id, ballot |-> p.ballot, index |-> p.index]
  OBVIOUS
<1>1. p.srv \in Server /\ p.acks \subseteq Server
  BY ProposalType DEF TypeInv
<1>2. UNCHANGED <<votes, msgs>> /\ p.phase = "sent"
  BY DEF FinishProposal
<1>3. CASE UNCHANGED <<commitIndex, acked>>
  BY <1>2, <1>3, CommitsKept
<1>4. CASE /\ Cardinality(p.acks) + 1 >= Majority
           /\ commitIndex' = [commitIndex EXCEPT
                               ![p.srv] = IF p.index > @ THEN p.index ELSE @]
           /\ acked' = acked \cup {a}
  <2>1. p.srv \notin p.acks /\ p.acks \cup {p.srv} \subseteq Accepters(p)
    BY <1>2 DEF ProposalInv, Counted
  <2>2. Accepters(p) \subseteq Server /\ Accepters(p) = Accepters(a)
    BY <1>0 DEF Accepters
  <2>3. Cardinality(Accepters(a)) >= Majority
    BY <1>1, <1>4, <2>1, <2>2, CountedMajority
  <2>4. \A b \in acked' : Cardinality(Accepters(b)) >= Majority
    BY <1>4, <2>3 DEF CommitInv, CommitsAreChosen
  <2>5. \A s \in Server : commitIndex'[s] \in {commitIndex[s], p.index}
    BY <1>4 DEF TypeInv, ServerOK
  <2>6. SucceededAt(p.index)'
    BY <1>0, <1>4 DEF SucceededAt
  <2>7. CommitsAreChosen'
    BY <1>2, <1>4, <2>4, <2>5, <2>6
       DEF CommitInv, CommitsAreChosen, SucceededAt, Accepters
  <2>8. QED
    BY <1>2, <1>4, <2>7 DEF CommitInv, SucceededAt
<1>5. QED
  BY <1>0, <1>3, <1>4 DEF FinishProposal

LEMMA HeartbeatCommits ==
  ASSUME TypeInv, CommitInv,
         \/ \E s \in Server : SendHeartbeats(s)
         \/ \E m \in msgs : HandleHeartbeat(m)
  PROVE  CommitInv'
<1>1. ASSUME NEW s \in Server, SendHeartbeats(s)
      PROVE  CommitInv'
  <2>1. /\ UNCHANGED <<votes, acked, commitIndex>>
        /\ \A m \in msgs' : m \in msgs \/ m.commit = commitIndex[s]
    BY <1>1 DEF SendHeartbeats, server, history
  <2>2. CommitsAreChosen'
    BY <2>1 DEF CommitInv, CommitsAreChosen, Accepters
  <2>3. QED
    BY <2>1, <2>2 DEF CommitInv, CommitsAreChosen, SucceededAt
<1>2. ASSUME NEW m \in msgs, HandleHeartbeat(m)
      PROVE  CommitInv'
  <2>1. /\ UNCHANGED <<votes, acked>> /\ msgs' \subseteq msgs
        /\ m.type = "Heartbeat"
        /\ commitIndex' = [commitIndex EXCEPT
                             ![m.dst] = IF m.commit > @ THEN m.commit ELSE @]
    BY <1>2 DEF HandleHeartbeat, history
  <2>2. \A s \in Server : commitIndex'[s] \in {commitIndex[s], m.commit}
    BY <2>1 DEF TypeInv, ServerOK
  <2>3. CommitsAreChosen'
    BY <2>1, <2>2 DEF CommitInv, CommitsAreChosen, SucceededAt, Accepters
  <2>4. QED
    BY <2>1, <2>3 DEF CommitInv, SucceededAt
<1>3. QED
  BY <1>1, <1>2

\* What the steps leave alone that neither commit nor tell others of a commit.
LEMMA OthersTellNothing ==
  ASSUME TypeInv,
         \/ UNCHANGED vars
         \/ \E s \in Server :
              \/ StartElection(s) \/ FinishElection(s)
              \/ InitiateStateTransfer(s) \/ FinishHeartbeats(s)
              \/ ApplyCommittedEntries(s) \/ Restart(s)
              \/ \E request \in Request : ReadLogLength(s, request)
         \/ \E p \in props : ProposeNoOp(p) \/ ProposeEntry(p)
         \/ \E m \in msgs :
              HandlePrepare(m) \/ ReceivePromise(m) \/ HandleAccept(m)
  PROVE  /\ votes \subseteq votes' /\ acked' = acked
         /\ \A m \in msgs' : m.type = "Heartbeat" => m \in msgs
         /\ \A s \in Server :
              commitIndex'[s] # -1 => commitIndex'[s] = commitIndex[s]
<1>1. votes \subseteq votes' /\ acked' = acked
  BY DEF vars, StartElection, FinishElection, InitiateStateTransfer,
     FinishHeartbeats, ApplyCommittedEntries, Restart, ReadLogLength,
     ProposeNoOp, ProposeEntry, HandlePrepare, ReceivePromise, HandleAccept,
     history
<1>2. \A m \in msgs' : m.type = "Heartbeat" => m \in msgs
  <2>1. ASSUME NEW s \in Server, StartElection(s)
        PROVE  \A m \in msgs' : m \in msgs \/ m.type = "Prepare"
    <3>. DEFINE Asked(b) == [type : {"Prepare"}, src : {s}, dst : Peers(s),
                            ballot : {b}]
    <3>1. msgs' = msgs \/ msgs' = msgs \cup Asked(NextBallot(s))
      BY <2>1 DEF StartElection
    <3>2. \A m \in Asked(NextBallot(s)) : m.type = "Prepare"
      OBVIOUS
    <3>. HIDE DEF Asked
    <3>3. QED
      BY <3>1, <3>2
  <2>2. ASSUME NEW p \in props, ProposeEntry(p)
        PROVE  \A m \in msgs' : m \in msgs \/ m.type = "Accept"
    <3>. DEFINE Asked(e) == [type : {"Accept"}, src : {p.srv},
                            dst : Peers(p.srv), id : {p.id}, entry : {e}]
    <3>1. msgs' = msgs \/ msgs' = msgs \cup Asked(EntryOf(p))
      BY <2>2 DEF ProposeEntry
    <3>2. \A m \in Asked(EntryOf(p)) : m.type = "Accept"
      OBVIOUS
    <3>. HIDE DEF Asked
    <3>3. QED
      BY <3>1, <3>2
  <2>3. ASSUME NEW n \in msgs, HandlePrepare(n)
        PROVE  \A m \in msgs' : m \in msgs \/ m.type = "Promise"
    BY <2>3 DEF HandlePrepare
  <2>4. ASSUME \/ UNCHANGED vars
               \/ \E s \in Server :
                    \/ FinishElection(s) \/ InitiateStateTransfer(s)
                    \/ FinishHeartbeats(s) \/ ApplyCommittedEntries(s)
                    \/ Restart(s)
                    \/ \E request \in Request : ReadLogLength(s, request)
               \/ \E p \in props : ProposeNoOp(p)
               \/ \E m \in msgs : ReceivePromise(m) \/ HandleAccept(m)
        PROVE  msgs' \subseteq msgs
    BY <2>4 DEF vars, FinishElection, InitiateStateTransfer, FinishHeartbeats,
       ApplyCommittedEntries, Restart, ReadLogLength, ProposeNoOp,
       ReceivePromise, HandleAccept
  <2>5. QED
    BY <2>1, <2>2, <2>3, <2>4
<1>3. \A s \in Server : commitIndex'[s] # -1 => commitIndex'[s] = commitIndex[s]
  <2>1. CASE \E s \in Server : Restart(s)
    BY <2>1 DEF Restart, TypeInv, ServerOK
  <2>2. CASE ~ \E s \in Server : Restart(s)
    <3>1. commitIndex' = commitIndex
      BY <2>2 DEF vars, server, StartElection, FinishElection,
         InitiateStateTransfer, FinishHeartbeats, ApplyCommittedEntries,
         ReadLogLength, ProposeNoOp, ProposeEntry, HandlePrepare,
         ReceivePromise, HandleAccept
    <3>2. QED
      BY <3>1
  <2>3. QED
    BY <2>1, <2>2
<1>4. QED
  BY <1>1, <1>2, <1>3

LEMMA OtherCommits ==
  ASSUME TypeInv, CommitInv,
         \/ UNCHANGED vars
         \/ \E s \in Server :
              \/ StartElection(s) \/ FinishElection(s)
              \/ InitiateStateTransfer(s) \/ FinishHeartbeats(s)
              \/ ApplyCommittedEntries(s) \/ Restart(s)
              \/ \E request \in Request : ReadLogLength(s, request)
         \/ \E p \in props : ProposeNoOp(p) \/ ProposeEntry(p)
         \/ \E m \in msgs :
              HandlePrepare(m) \/ ReceivePromise(m) \/ HandleAccept(m)
  PROVE  CommitInv'
  BY OthersTellNothing, CommitsKept

\* No client hears OK and no server learns of a commit without a majority that
\* accepted: not by answers counted twice, counted for another proposal or
\* given to an earlier life of the server, nor by heartbeats of a deposed one.
THEOREM CommittedIsChosen ==
  ASSUME RestartRole = {}
  PROVE  Spec => []CommitsAreChosen
<1>1. Init => CommitInv
  BY DEF Init, CommitInv, CommitsAreChosen
<1>2. ASSUME TypeInv, ProposalInv, CommitInv, [Next]_vars
      PROVE  CommitInv'
  BY <1>2, FinishProposalCommits, HeartbeatCommits, OtherCommits
     DEF Next, Internal
<1>3. CommitInv => CommitsAreChosen
  BY DEF CommitInv
<1>4. QED
  BY <1>1, <1>2, <1>3, ProposalsInvariance, PTL DEF Spec

-----------------------------------------------------------------------------
(* Elections. The round of a candidate has the number 0, which no round of *)
(* heartbeats has: a late answer to a heartbeat is no promise. And only    *)
(* servers that promised the ballot of the round answer it with a promise. *)

\* The candidate and those it counted promised its ballot; it counted others.
Campaigning(s) ==
  round[s].kind = "election" =>
    /\ round[s].seq = 0 /\ round[s].ballot.id = s
    /\ s \notin round[s].acks
    /\ round[s].acks \cup {s} \subseteq Promisers(round[s].ballot)

AnswersTrue ==
  \A m \in msgs :
    /\ m.type = "Promise" => [srv |-> m.src, ballot |-> m.ballot] \in granted
    /\ m.type = "Heartbeat" => m.seq # 0

ElectionInv == AnswersTrue /\ \A s \in Server : Campaigning(s)

NoNewAnswers ==
  \A m \in msgs' : m.type \in {"Promise", "Heartbeat"} => m \in msgs

\* A round that ends, or goes on as it was, while more is promised.
LEMMA CampaignKept ==
  ASSUME granted \subseteq granted', NEW s \in Server, Campaigning(s),
         round'[s].kind = "election" => round'[s] = round[s]
  PROVE  Campaigning(s)'
  BY DEF Campaigning, Promisers

LEMMA AnswersKept ==
  ASSUME ElectionInv, NoNewAnswers, granted \subseteq granted'
  PROVE  AnswersTrue'
  BY DEF ElectionInv, AnswersTrue, NoNewAnswers

LEMMA StartElectionCampaigns ==
  ASSUME TypeInv, ElectionInv, NEW s \in Server, StartElection(s)
  PROVE  ElectionInv'
<1> DEFINE b == NextBallot(s)
           asked == [type : {"Prepare"}, src : {s}, dst : Peers(s),
                     ballot : {b}]
<1>1. round \in [Server -> Rounds] /\ b.id = s
  BY DEF TypeInv, RoundOK, NextBallot, NewBallotNumber
<1>2. \A m \in asked : m.type = "Prepare"
  OBVIOUS
<1>3. /\ granted \subseteq granted'
      /\ msgs' = msgs \/ msgs' = msgs \cup asked
      /\ \A t \in Server \ {s} : round'[t] = round[t]
  BY <1>1 DEF StartElection
<1> HIDE DEF asked
<1>4. AnswersTrue'
  BY <1>2, <1>3, AnswersKept DEF NoNewAnswers
<1>5. \A t \in Server \ {s} : Campaigning(t)'
  BY <1>3, CampaignKept DEF ElectionInv
<1>6. Campaigning(s)'
  <2>1. CASE UNCHANGED round
    BY <1>3, <2>1, CampaignKept DEF ElectionInv
  <2>2. CASE /\ round' = [round EXCEPT ![s] =
                            [IdleRound EXCEPT !.kind = "election",
                                              !.ballot = b]]
             /\ granted' = granted \cup {[srv |-> s, ballot |-> b]}
    <3>1. /\ round'[s].seq = 0 /\ round'[s].ballot = b
          /\ round'[s].acks = {}
      BY <1>1, <2>2 DEF IdleRound
    <3> HIDE DEF b
    <3>2. QED
      BY <1>1, <2>2, <3>1 DEF Campaigning, Promisers
  <2>3. QED
    BY <2>1, <2>2 DEF StartElection
<1>7. QED
  BY <1>4, <1>5, <1>6 DEF ElectionInv

LEMMA HandlePrepareCampaigns ==
  ASSUME TypeInv, ElectionInv, NEW m \in msgs, HandlePrepare(m)
  PROVE  ElectionInv'
<1>0. PICK promise :
        promise = [type |-> "Promise", src |-> m.dst, dst |-> m.src,
                   ballot |-> m.ballot,
                   accepted |-> GetAllAcceptedEntries(ps[m.dst])]
  OBVIOUS
<1>1. /\ promise.type = "Promise" /\ promise.src = m.dst
      /\ promise.ballot = m.ballot
  BY <1>0
<1>2. /\ round' = round
      /\ \/ /\ msgs' = (msgs \ {m}) \cup {promise}
            /\ granted' = granted \cup {[srv |-> m.dst, ballot |-> m.ballot]}
         \/ msgs' = msgs \ {m} /\ granted' = granted
  BY <1>0 DEF HandlePrepare
<1>3. AnswersTrue'
  BY <1>1, <1>2 DEF ElectionInv, AnswersTrue
<1>4. \A s \in Server : Campaigning(s)'
  BY <1>2, CampaignKept DEF ElectionInv
<1>5. QED
  BY <1>3, <1>4 DEF ElectionInv

LEMMA ReceivePromiseCampaigns ==
  ASSUME TypeInv, ElectionInv, NEW m \in msgs, ReceivePromise(m)
  PROVE  ElectionInv'
<1>1. /\ m.type = "Promise" /\ m.src \in Server /\ m.dst \in Server
      /\ m.src # m.dst
  BY PromiseType DEF ReceivePromise, TypeInv
<1>2. /\ round \in [Server -> Rounds]
      /\ round' = [round EXCEPT ![m.dst].acks = @ \cup {m.src}]
      /\ round[m.dst].ballot = m.ballot /\ round[m.dst].kind = "election"
      /\ granted' = granted /\ msgs' = msgs \ {m}
  BY DEF ReceivePromise, TypeInv, RoundOK, history
<1>3. AnswersTrue'
  BY <1>2, AnswersKept DEF NoNewAnswers
<1>4. \A s \in Server \ {m.dst} : Campaigning(s)'
  BY <1>2, CampaignKept DEF ElectionInv
<1>5. Campaigning(m.dst)'
  <2>1. [srv |-> m.src, ballot |-> m.ballot] \in granted
    BY <1>1 DEF ElectionInv, AnswersTrue
  <2>2. /\ round'[m.dst].seq = round[m.dst].seq
        /\ round'[m.dst].ballot = round[m.dst].ballot
        /\ round'[m.dst].acks = round[m.dst].acks \cup {m.src}
    BY <1>1, <1>2 DEF Rounds
  <2>3. Promisers(m.ballot)' = Promisers(m.ballot)
        /\ m.src \in Promisers(m.ballot)
    BY <1>1, <1>2, <2>1 DEF Promisers
  <2>4. Campaigning(m.dst)
    BY <1>1 DEF ElectionInv
  <2>5. QED
    BY <1>1, <1>2, <2>2, <2>3, <2>4 DEF Campaigning, Promisers
<1>6. QED
  BY <1>3, <1>4, <1>5 DEF ElectionInv

LEMMA SendHeartbeatsCampaigns ==
  ASSUME TypeInv, ElectionInv, NEW s \in Server, SendHeartbeats(s)
  PROVE  ElectionInv'
<1> DEFINE asked == [type : {"Heartbeat"}, src : {s}, dst : Peers(s),
                     ballot : {ps[s].npromised}, commit : {commitIndex[s]},
                     seq : {heartbeats'}]
<1>1. heartbeats' # 0 /\ round \in [Server -> Rounds]
  BY DEF SendHeartbeats, TypeInv, CountersOK, RoundOK
<1>2. \A m \in asked : m.type = "Heartbeat" /\ m.seq # 0
  BY <1>1
<1>3. /\ granted' = granted /\ msgs' = msgs \cup asked
      /\ \A t \in Server : round'[t].kind = "election" => round'[t] = round[t]
  BY <1>1 DEF SendHeartbeats, IdleRound, history
<1> HIDE DEF asked
<1>4. AnswersTrue'
  BY <1>2, <1>3 DEF ElectionInv, AnswersTrue
<1>5. QED
  BY <1>3, <1>4, CampaignKept DEF ElectionInv

LEMMA HandleHeartbeatCampaigns ==
  ASSUME TypeInv, ElectionInv, NEW m \in msgs, HandleHeartbeat(m)
  PROVE  ElectionInv'
<1>1. m.seq # 0 /\ granted' = granted /\ msgs' = msgs \ {m}
  BY DEF HandleHeartbeat, ElectionInv, AnswersTrue, history
<1>2. AnswersTrue'
  BY <1>1, AnswersKept DEF NoNewAnswers
<1>3. ASSUME NEW s \in Server, round'[s].kind = "election"
      PROVE  round'[s] = round[s]
  BY <1>1, <1>3, HandleHeartbeatElections DEF ElectionInv, Campaigning
<1>4. QED
  BY <1>1, <1>2, <1>3, CampaignKept DEF ElectionInv

LEMMA OtherCampaigns ==
  ASSUME TypeInv, ElectionInv,
         \/ UNCHANGED vars
         \/ \E s \in Server :
              \/ FinishElection(s) \/ InitiateStateTransfer(s)
              \/ FinishHeartbeats(s) \/ ApplyCommittedEntries(s) \/ Restart(s)
              \/ \E request \in Request : ReadLogLength(s, request)
         \/ \E p \in props :
              ProposeNoOp(p) \/ ProposeEntry(p) \/ FinishProposal(p)
         \/ \E m \in msgs : HandleAccept(m)
  PROVE  ElectionInv'
<1>1. granted' = granted
  BY DEF vars, FinishElection, InitiateStateTransfer, FinishHeartbeats,
     ApplyCommittedEntries, Restart, ReadLogLength, ProposeNoOp, ProposeEntry,
     FinishProposal, HandleAccept, history
<1>2. NoNewAnswers
  <2>1. ASSUME NEW p \in props, ProposeEntry(p)
        PROVE  NoNewAnswers
    <3>. DEFINE Asked(e) == [type : {"Accept"}, src : {p.srv},
                            dst : Peers(p.srv), id : {p.id}, entry : {e}]
    <3>1. msgs' = msgs \/ msgs' = msgs \cup Asked(EntryOf(p))
      BY <2>1 DEF ProposeEntry
    <3>2. \A m \in Asked(EntryOf(p)) : m.type = "Accept"
      OBVIOUS
    <3>. HIDE DEF Asked
    <3>3. QED
      BY <3>1, <3>2 DEF NoNewAnswers
  <2>2. CASE ~ \E p \in props : ProposeEntry(p)
    BY <2>2 DEF NoNewAnswers, vars, FinishElection, InitiateStateTransfer,
       FinishHeartbeats, ApplyCommittedEntries, Restart, ReadLogLength,
       ProposeNoOp, FinishProposal, HandleAccept
  <2>3. QED
    BY <2>1, <2>2
<1>3. \A s \in Server : round'[s].kind = "election" => round'[s] = round[s]
  <2>1. round \in [Server -> Rounds]
    BY DEF TypeInv, RoundOK
  <2>2. UNCHANGED round \/ \E t \in Server :
                             round' = [round EXCEPT ![t] = IdleRound]
    BY DEF vars, FinishElection, InitiateStateTransfer, FinishHeartbeats,
       ApplyCommittedEntries, Restart, ReadLogLength, ProposeNoOp,
       ProposeEntry, FinishProposal, HandleAccept
  <2>3. QED
    BY <2>1, <2>2 DEF IdleRound
<1>4. QED
  BY <1>1, <1>2, <1>3, AnswersKept, CampaignKept DEF ElectionInv

LEMMA ElectionInvariance == Spec => [](TypeInv /\ ElectionInv)
<1>1. Init => ElectionInv
  BY DEF Init, ElectionInv, AnswersTrue, Campaigning, IdleRound
<1>2. ASSUME TypeInv, ElectionInv, [Next]_vars
      PROVE  ElectionInv'
  BY <1>2, StartElectionCampaigns, HandlePrepareCampaigns,
     ReceivePromiseCampaigns, SendHeartbeatsCampaigns,
     HandleHeartbeatCampaigns, OtherCampaigns DEF Next, Internal
<1>3. QED
  BY <1>1, <1>2, TypeInvariance, PTL DEF Spec

\* The only way to be a leader without the flag.
LEMMA OnlyElectionLeads ==
  ASSUME TypeInv, RestartRole = {}, Next, NEW s \in Server,
         state[s] # "Leader", state'[s] = "Leader"
  PROVE  round[s].kind = "election" /\ Elected(s)
<1> USE DEF TypeInv, ServerOK
<1>1. ASSUME NEW t \in Server, FinishElection(t)
      PROVE  round[s].kind = "election" /\ Elected(s)
  BY <1>1 DEF FinishElection, AfterElection
<1>2. ASSUME NEW t \in Server,
             StartElection(t) \/ FinishHeartbeats(t) \/ Restart(t)
      PROVE  FALSE
  BY <1>2 DEF StartElection, FinishHeartbeats, Restart, StartState
<1>3. ASSUME \/ \E p \in props : FinishProposal(p)
             \/ \E m \in msgs : HandlePrepare(m) \/ HandleHeartbeat(m)
      PROVE  FALSE
  BY <1>3 DEF FinishProposal, HandlePrepare, HandleHeartbeat
<1>4. ASSUME \/ \E t \in Server :
                  \/ SendHeartbeats(t) \/ InitiateStateTransfer(t)
                  \/ ApplyCommittedEntries(t)
                  \/ \E request \in Request : ReadLogLength(t, request)
             \/ \E p \in props : ProposeNoOp(p) \/ ProposeEntry(p)
             \/ \E m \in msgs : ReceivePromise(m) \/ HandleAccept(m)
      PROVE  FALSE
  BY <1>4 DEF SendHeartbeats, InitiateStateTransfer, ApplyCommittedEntries,
     ReadLogLength, ProposeNoOp, ProposeEntry, ReceivePromise, HandleAccept,
     server
<1>5. QED
  BY <1>1, <1>2, <1>3, <1>4 DEF Next, Internal

\* Whoever becomes leader, other than by the flag, has the promises of a
\* majority for one ballot of its own: promises of an earlier candidacy, or
\* late answers to heartbeats, make no leader.
THEOREM LeadersAreElected ==
  ASSUME RestartRole = {}
  PROVE  Spec => ElectedByMajority
<1>1. ASSUME TypeInv, ElectionInv, Next, NEW s \in Server,
             state[s] # "Leader", state'[s] = "Leader"
      PROVE  \E g \in granted :
               /\ g.srv = s /\ g.ballot.id = s
               /\ Cardinality(Promisers(g.ballot)) >= Majority
  <2>1. round[s].kind = "election" /\ Elected(s) /\ Campaigning(s)
    BY <1>1, OnlyElectionLeads DEF ElectionInv
  <2>2. /\ round[s].acks \in SUBSET Server
        /\ Promisers(round[s].ballot) \in SUBSET Server
    BY <1>1 DEF TypeInv, RoundOK, Rounds, Promisers
  <2>3. Cardinality(Promisers(round[s].ballot)) >= Majority
    BY <2>1, <2>2, CountedMajority DEF Campaigning, Elected
  <2>4. /\ [srv |-> s, ballot |-> round[s].ballot] \in granted
        /\ round[s].ballot.id = s
    BY <2>1 DEF Campaigning, Promisers
  <2>5. QED
    BY <2>3, <2>4
<1>2. ASSUME TypeInv, ElectionInv, [Next]_vars
      PROVE  [\A s \in Server : state[s] # "Leader" /\ state'[s] = "Leader" =>
                \E g \in granted :
                  /\ g.srv = s /\ g.ballot.id = s
                  /\ Cardinality(Promisers(g.ballot)) >= Majority]_vars
  BY <1>1, <1>2
<1>3. QED
  BY <1>2, ElectionInvariance, PTL DEF Spec, ElectedByMajority

-----------------------------------------------------------------------------
(* Promises. What a server accepted is marked in its memory, from which a  *)
(* promise is made; and what it accepts while the promise is on its way is *)
(* not below the ballot it promised.                                       *)

LEMMA NotGreaterThanLess ==
  ASSUME NEW a \in Ballot, NEW b \in Ballot, AtLeast(a, b)
  PROVE  ~GreaterThan(b, a)
  BY BallotOrder, NAssumption DEF Ballot, Server

LEMMA HandlePrepareReports ==
  ASSUME TypeInv, MarksKept, PromisesReport, NEW m \in msgs, HandlePrepare(m)
  PROVE  PromisesReport'
<1>0. PICK promise :
        promise = [type |-> "Promise", src |-> m.dst, dst |-> m.src,
                   ballot |-> m.ballot,
                   accepted |-> GetAllAcceptedEntries(ps[m.dst])]
  OBVIOUS
<1>1. /\ promise.src = m.dst
      /\ promise.accepted = GetAllAcceptedEntries(ps[m.dst])
  BY <1>0
<1>2. m.dst \in Server
  BY PrepareType DEF HandlePrepare, TypeInv
<1>3. ASSUME NEW v \in votes, v.srv = m.dst, v.by # v.srv
      PROVE  \E e \in promise.accepted : e.index = v.index
  <2>1. PICK h \in ps[m.dst].highest : h.index = v.index
    BY <1>3 DEF MarksKept, Marked
  <2>2. QED
    BY <1>1, <1>2, <2>1, StorageAt, AcceptedEntriesReported DEF TypeInv
<1>4. votes' = votes /\ msgs' \subseteq msgs \cup {promise}
  BY <1>0 DEF HandlePrepare
<1>5. QED
  BY <1>1, <1>3, <1>4 DEF PromisesReport

LEMMA HandleAcceptReports ==
  ASSUME TypeInv, PromiseInv, ElectionInv, PromisesReport,
         NEW m \in msgs, HandleAccept(m)
  PROVE  PromisesReport'
<1>0. PICK vote : vote = [srv |-> m.dst, by |-> m.src, id |-> m.id,
                          ballot |-> m.entry.ballot, index |-> m.entry.index]
  OBVIOUS
<1>1. vote.srv = m.dst /\ vote.ballot = m.entry.ballot
  BY <1>0
<1>2. /\ votes' \subseteq votes \cup {vote} /\ msgs' = msgs \ {m}
      /\ AtLeast(vote.ballot, ps[m.dst].npromised)
  BY <1>0, <1>1 DEF HandleAccept, MayFollow
<1>3. /\ m.dst \in Server /\ vote.ballot \in Ballot
      /\ ps[m.dst].npromised \in Ballot
  <2>1. m.dst \in Server /\ m.entry \in LogEntry
    BY AcceptType DEF HandleAccept, TypeInv
  <2>2. QED
    BY <1>1, <2>1, StorageAt DEF TypeInv, LogEntry
<1>4. ASSUME NEW n \in msgs, n.type = "Promise", n.src = vote.srv
      PROVE  ~GreaterThan(n.ballot, vote.ballot)
  <2>1. n.ballot \in Ballot
    BY <1>4, PromiseType DEF TypeInv
  <2>2. AtLeast(ps[m.dst].npromised, n.ballot)
    BY <1>1, <1>4 DEF ElectionInv, AnswersTrue, PromiseInv, PromisesKept
  <2>3. AtLeast(vote.ballot, n.ballot)
    BY <1>2, <1>3, <2>1, <2>2, BallotTransitive
  <2>4. QED
    BY <1>3, <2>1, <2>3, NotGreaterThanLess
<1>5. QED
  BY <1>2, <1>4 DEF PromisesReport

LEMMA OtherReports ==
  ASSUME PromisesReport,
         \/ UNCHANGED vars
         \/ \E s \in Server :
              \/ StartElection(s) \/ FinishElection(s) \/ SendHeartbeats(s)
              \/ InitiateStateTransfer(s) \/ FinishHeartbeats(s)
              \/ ApplyCommittedEntries(s) \/ Restart(s)
              \/ \E request \in Request : ReadLogLength(s, request)
         \/ \E p \in props :
              ProposeNoOp(p) \/ ProposeEntry(p) \/ FinishProposal(p)
         \/ \E m \in msgs : ReceivePromise(m) \/ HandleHeartbeat(m)
  PROVE  PromisesReport'
<1>1. \A m \in msgs' : m.type = "Promise" => m \in msgs
  <2>1. ASSUME NEW s \in Server, StartElection(s)
        PROVE  \A m \in msgs' : m \in msgs \/ m.type = "Prepare"
    <3>. DEFINE Asked(b) == [type : {"Prepare"}, src : {s}, dst : Peers(s),
                            ballot : {b}]
    <3>1. msgs' = msgs \/ msgs' = msgs \cup Asked(NextBallot(s))
      BY <2>1 DEF StartElection
    <3>2. \A m \in Asked(NextBallot(s)) : m.type = "Prepare"
      OBVIOUS
    <3>. HIDE DEF Asked
    <3>3. QED
      BY <3>1, <3>2
  <2>2. ASSUME NEW s \in Server, SendHeartbeats(s)
        PROVE  \A m \in msgs' : m \in msgs \/ m.type = "Heartbeat"
    BY <2>2 DEF SendHeartbeats
  <2>3. ASSUME NEW p \in props, ProposeEntry(p)
        PROVE  \A m \in msgs' : m \in msgs \/ m.type = "Accept"
    <3>. DEFINE Asked(e) == [type : {"Accept"}, src : {p.srv},
                            dst : Peers(p.srv), id : {p.id}, entry : {e}]
    <3>1. msgs' = msgs \/ msgs' = msgs \cup Asked(EntryOf(p))
      BY <2>3 DEF ProposeEntry
    <3>2. \A m \in Asked(EntryOf(p)) : m.type = "Accept"
      OBVIOUS
    <3>. HIDE DEF Asked
    <3>3. QED
      BY <3>1, <3>2
  <2>4. CASE ~ \/ \E s \in Server : StartElection(s) \/ SendHeartbeats(s)
               \/ \E p \in props : ProposeEntry(p)
    BY <2>4 DEF vars, FinishElection, InitiateStateTransfer, FinishHeartbeats,
       ApplyCommittedEntries, Restart, ReadLogLength, ProposeNoOp,
       FinishProposal, ReceivePromise, HandleHeartbeat
  <2>5. QED
    BY <2>1, <2>2, <2>3, <2>4
<1>2. \A v \in votes' : v \in votes \/ v.by = v.srv
  <2>1. ASSUME NEW p \in props, ProposeEntry(p)
        PROVE  \A v \in votes' : v \in votes \/ v.by = v.srv
    <3>1. PICK own : own = [srv |-> p.srv, by |-> p.srv, id |-> p.id,
                            ballot |-> EntryOf(p).ballot,
                            index |-> EntryOf(p).index]
      OBVIOUS
    <3>2. own.by = own.srv
      BY <3>1
    <3>3. votes' = votes \/ votes' = votes \cup {own}
      BY <2>1, <3>1 DEF ProposeEntry
    <3>4. QED
      BY <3>2, <3>3
  <2>2. CASE ~ \E p \in props : ProposeEntry(p)
    BY <2>2 DEF vars, StartElection, FinishElection, SendHeartbeats,
       InitiateStateTransfer, FinishHeartbeats, ApplyCommittedEntries, Restart,
       ReadLogLength, ProposeNoOp, FinishProposal, ReceivePromise,
       HandleHeartbeat, history
  <2>3. QED
    BY <2>1, <2>2
<1>3. QED
  BY <1>1, <1>2 DEF PromisesReport

\* A candidate that counts a promise learns of every index at which the server
\* that gave it had accepted something below its ballot, as long as the
\* promise is on its way.
THEOREM PromisesAreComplete ==
  ASSUME RestartRole = {}
  PROVE  Spec => []PromisesReport
<1>1. Init => PromisesReport
  BY DEF Init, PromisesReport
<1>2. ASSUME TypeInv, PromiseInv, MarksKept, ElectionInv, PromisesReport,
             [Next]_vars
      PROVE  PromisesReport'
  BY <1>2, HandlePrepareReports, HandleAcceptReports, OtherReports
     DEF Next, Internal
<1>3. QED
  BY <1>1, <1>2, PromiseInvariance, MarksInvariance, ElectionInvariance, PTL
     DEF Spec

-----------------------------------------------------------------------------
(* Elections. adoptAcceptedEntries compares ballots only, so it could take  *)
(* padding for an entry; but nothing is ever proposed under the ballot that *)
(* padding has, for the leader of that ballot is server 0 of term 0.        *)

LEMMA AboveZero ==
  ASSUME NEW a \in Ballot, NEW b \in Ballot
  PROVE  /\ a # ZeroBallot => GreaterThan(a, ZeroBallot)
         /\ GreaterThan(a, b) => a # ZeroBallot
         /\ AtLeast(a, b) /\ b # ZeroBallot => a # ZeroBallot
<1>1. /\ a.term \in Nat /\ a.id \in Nat /\ b.term \in Nat /\ b.id \in Nat
      /\ ZeroBallot.term = 0 /\ ZeroBallot.id = 0 /\ ZeroBallot \in Ballot
  BY BallotTypes, NAssumption DEF Server, ZeroBallot, NewBallotNumber
<1>2. /\ a = ZeroBallot <=> a.term = 0 /\ a.id = 0
      /\ b = ZeroBallot <=> b.term = 0 /\ b.id = 0
  BY DEF Ballot, ZeroBallot, NewBallotNumber
<1>3. QED
  BY <1>1, <1>2, BallotOrder

\* The slots of a log whose ballot is zero are its padding.
PaddingIsZero(p) ==
  \A i \in 1 .. Len(p.log) : p.log[i].cmd = Blank <=> p.log[i].ballot = ZeroBallot

\* A log that changes so, and loses no command.
StaysOccupied(p, q) ==
  PaddingIsZero(q) /\ \A i \in Nat : Occupied(p, i) => Occupied(q, i)

\* An entry that somebody proposed.
Proposed(e) == e.cmd # Blank /\ e.ballot # ZeroBallot

LEMMA GetPadding ==
  ASSUME NEW p \in PersistentState, PaddingIsZero(p), NEW i \in Nat
  PROVE  GetLogEntry(p, i).cmd = Blank <=> GetLogEntry(p, i).ballot = ZeroBallot
<1>1. Len(p.log) \in Nat
  BY LenProperties DEF PersistentState
<1>2. CASE i < Len(p.log)
  BY <1>1, <1>2 DEF GetLogEntry, PaddingIsZero
<1>3. CASE ~(i < Len(p.log))
  BY <1>3 DEF GetLogEntry, EmptyEntry
<1>4. QED
  BY <1>2, <1>3

LEMMA SetNpromisedOccupies ==
  ASSUME NEW p \in PersistentState, PaddingIsZero(p), NEW b \in Ballot
  PROVE  StaysOccupied(p, SetNpromised(p, b))
  BY SetNpromisedType DEF StaysOccupied, PaddingIsZero, Occupied

LEMMA AppendLogOccupies ==
  ASSUME NEW p \in PersistentState, PaddingIsZero(p),
         NEW e \in LogEntry, Proposed(e)
  PROVE  StaysOccupied(p, AppendLog(p, e))
<1> DEFINE q == AppendLog(p, e)
<1>1. /\ Len(q.log) = Len(p.log) + 1 /\ q.log[Len(p.log) + 1] = e
      /\ \A i \in 1 .. Len(p.log) : q.log[i] = p.log[i]
  BY AppendLogKeeps
<1>2. Len(p.log) \in Nat
  BY LenProperties DEF PersistentState
<1> HIDE DEF q
<1>3. PaddingIsZero(q)
  <2>1. \A i \in 1 .. Len(q.log) : i \in 1 .. Len(p.log) \/ i = Len(p.log) + 1
    BY <1>1, <1>2
  <2>2. QED
    BY <1>1, <2>1 DEF PaddingIsZero, Proposed
<1>4. ASSUME NEW i \in Nat, Occupied(p, i)
      PROVE  Occupied(q, i)
  <2>1. i + 1 \in 1 .. Len(p.log) /\ i < Len(q.log)
    BY <1>1, <1>2, <1>4 DEF Occupied
  <2>2. QED
    BY <1>1, <1>4, <2>1 DEF Occupied
<1>5. QED
  BY <1>3, <1>4 DEF StaysOccupied, q

LEMMA UpdateLogOccupies ==
  ASSUME NEW p \in PersistentState, PaddingIsZero(p),
         NEW e \in LogEntry, Proposed(e)
  PROVE  LET q == UpdateLog(p, e.index, e)
         IN  /\ StaysOccupied(p, q)
             /\ StaysOccupied(p, SetHighestAcceptedBallot(q, e.index, e.ballot))
<1> DEFINE q == UpdateLog(p, e.index, e)
<1>1. e.index \in Nat /\ e.ballot \in Ballot
  BY DEF LogEntry
<1>2. /\ q \in PersistentState
      /\ Len(q.log) >= Len(p.log)
      /\ \A i \in 1 .. Len(q.log) :
           q.log[i] = IF i = e.index + 1 THEN e ELSE GetLogEntry(p, i - 1)
  BY <1>1, UpdateLogSlots
<1>3. SetHighestAcceptedBallot(q, e.index, e.ballot).log = q.log
  BY <1>1, <1>2, SetHighestKeeps
<1> HIDE DEF q
<1>4. Len(p.log) \in Nat /\ Len(q.log) \in Nat
  BY <1>2, LenProperties DEF PersistentState
<1>5. PaddingIsZero(q)
  <2>1. \A i \in 1 .. Len(q.log) : i - 1 \in Nat
    BY <1>4
  <2>2. QED
    BY <1>2, <2>1, GetPadding DEF PaddingIsZero, Proposed
<1>6. ASSUME NEW i \in Nat, Occupied(p, i)
      PROVE  Occupied(q, i)
  <2>1. i + 1 \in 1 .. Len(q.log) /\ i < Len(q.log) /\ (i + 1) - 1 = i
    BY <1>2, <1>4, <1>6 DEF Occupied
  <2>2. GetLogEntry(p, i).cmd # Blank
    BY <1>6 DEF Occupied, GetLogEntry
  <2>3. q.log[i + 1] = e \/ q.log[i + 1] = GetLogEntry(p, i)
    BY <1>2, <2>1
  <2>4. QED
    BY <2>1, <2>2, <2>3 DEF Occupied, Proposed
<1>7. StaysOccupied(p, q)
  BY <1>5, <1>6 DEF StaysOccupied
<1>8. QED
  BY <1>3, <1>7 DEF StaysOccupied, PaddingIsZero, Occupied, q

\* Whatever a promise brings finds its place, or something that had been
\* proposed is there already.
LEMMA AdoptEntriesOccupies ==
  ASSUME NEW p \in PersistentState, PaddingIsZero(p),
         NEW entries, Reportable(entries), \A e \in entries : Proposed(e)
  PROVE  LET q == AdoptEntries(p, entries)
         IN  StaysOccupied(p, q) /\ \A e \in entries : Occupied(q, e.index)
<1> DEFINE q == AdoptEntries(p, entries)
<1>1. /\ q \in PersistentState
      /\ Len(q.log) >= Len(p.log)
      /\ \A i \in 1 .. Len(q.log) :
           \/ q.log[i] = GetLogEntry(p, i - 1)
           \/ q.log[i] \in entries /\ q.log[i].index = i - 1
      /\ \A e \in entries : Adopts(p, e) =>
           e.index < Len(q.log) /\ q.log[e.index + 1] \in entries
  BY AdoptEntriesSlots
<1> HIDE DEF q
<1>2. Len(p.log) \in Nat /\ Len(q.log) \in Nat
  BY <1>1, LenProperties DEF PersistentState
<1>3. PaddingIsZero(q)
  <2>1. \A i \in 1 .. Len(q.log) : i - 1 \in Nat
    BY <1>2
  <2>2. QED
    BY <1>1, <2>1, GetPadding DEF PaddingIsZero, Proposed
<1>4. ASSUME NEW i \in Nat, Occupied(p, i)
      PROVE  Occupied(q, i)
  <2>1. i + 1 \in 1 .. Len(q.log) /\ i < Len(q.log) /\ (i + 1) - 1 = i
    BY <1>1, <1>2, <1>4 DEF Occupied
  <2>2. GetLogEntry(p, i).cmd # Blank
    BY <1>4 DEF Occupied, GetLogEntry
  <2>3. q.log[i + 1] \in entries \/ q.log[i + 1] = GetLogEntry(p, i)
    BY <1>1, <2>1
  <2>4. QED
    BY <2>1, <2>2, <2>3 DEF Occupied, Proposed
<1>5. ASSUME NEW e \in entries
      PROVE  Occupied(q, e.index)
  <2>1. e.index \in Nat /\ e.ballot \in Ballot
    BY DEF Reportable, LogEntry
  <2>2. CASE Adopts(p, e)
    BY <1>1, <2>1, <2>2 DEF Occupied, Proposed
  <2>3. CASE ~Adopts(p, e)
    <3>1. /\ e.index < Len(p.log)
          /\ ~GreaterThan(e.ballot, GetLogEntry(p, e.index).ballot)
      BY <1>2, <2>1, <2>3 DEF Adopts
    <3>2. GetLogEntry(p, e.index).ballot # ZeroBallot
      BY <2>1, <3>1, AboveZero DEF Proposed
    <3>3. GetLogEntry(p, e.index).cmd # Blank
      BY <2>1, <3>2, GetPadding
    <3>4. Occupied(p, e.index)
      BY <3>1, <3>3 DEF Occupied, GetLogEntry
    <3>5. QED
      BY <1>4, <2>1, <3>4
  <2>4. QED
    BY <2>2, <2>3
<1>6. QED
  BY <1>3, <1>4, <1>5 DEF StaysOccupied, q

\* What was proposed, and who may propose, in memory, files and messages.
LogsSound ==
  \A s \in Server : PaddingIsZero(ps[s]) /\ PaddingIsZero(disk[s])

EntriesSound ==
  \A m \in msgs :
    /\ m.type = "Accept" => Proposed(m.entry)
    /\ m.type = "Promise" => \A e \in m.accepted : Proposed(e)

BallotsSound ==
  \A s \in Server :
    /\ state[s] = "Leader" => ps[s].npromised # ZeroBallot
    /\ round[s].kind = "election" => round[s].ballot # ZeroBallot

SoundInv == LogsSound /\ EntriesSound /\ BallotsSound

\* A step after which the logs are sound, and those of candidates lost nothing.
LogsStay ==
  \A s \in Server :
    /\ PaddingIsZero(ps'[s]) /\ PaddingIsZero(disk'[s])
    /\ round'[s].kind = "election" =>
         \A i \in Nat : Occupied(ps[s], i) => Occupied(ps'[s], i)

LEMMA WriteStays ==
  ASSUME TypeInv, LogsSound, NEW s \in Server, NEW p, NEW q,
         StaysOccupied(ps[s], p), StaysOccupied(ps[s], q),
         ps' = [ps EXCEPT ![s] = p],
         disk' = disk \/ disk' = [disk EXCEPT ![s] = q]
  PROVE  LogsStay
<1>1. ps'[s] = p /\ \A t \in Server \ {s} : ps'[t] = ps[t]
  BY DEF TypeInv, StorageOK
<1>2. disk'[s] \in {disk[s], q} /\ \A t \in Server \ {s} : disk'[t] = disk[t]
  BY DEF TypeInv, StorageOK
<1>3. QED
  BY <1>1, <1>2 DEF LogsStay, LogsSound, StaysOccupied

LEMMA SaveStays ==
  ASSUME TypeInv, LogsSound, NEW s \in Server, NEW p,
         StaysOccupied(ps[s], p), Save(s, p) \/ SaveFails(s, p)
  PROVE  LogsStay
  BY WriteStays DEF Save, SaveFails

LEMMA QuietStays ==
  ASSUME LogsSound, UNCHANGED storage
  PROVE  LogsStay
  BY DEF LogsStay, LogsSound, storage

LEMMA PromiseStays ==
  ASSUME TypeInv, SoundInv,
         \/ \E s \in Server : StartElection(s)
         \/ \E m \in msgs : HandlePrepare(m)
  PROVE  LogsStay
<1>1. ASSUME NEW s \in Server, StartElection(s)
      PROVE  LogsStay
  <2>1. StaysOccupied(ps[s], SetNpromised(ps[s], NextBallot(s)))
    BY StorageAt, NextBallotType, SetNpromisedOccupies
       DEF TypeInv, SoundInv, LogsSound
  <2>2. QED
    BY <1>1, <2>1, SaveStays DEF StartElection, SoundInv
<1>2. ASSUME NEW m \in msgs, HandlePrepare(m)
      PROVE  LogsStay
  <2>1. m.dst \in Server /\ m.ballot \in Ballot
    BY <1>2, PrepareType DEF HandlePrepare, TypeInv
  <2>2. StaysOccupied(ps[m.dst], SetNpromised(ps[m.dst], m.ballot))
    BY <2>1, StorageAt, SetNpromisedOccupies DEF TypeInv, SoundInv, LogsSound
  <2>3. QED
    BY <1>2, <2>1, <2>2, SaveStays DEF HandlePrepare, SoundInv
<1>3. QED
  BY <1>1, <1>2

\* The entry of a leader is a proposal.
LEMMA EntryProposed ==
  ASSUME TypeInv, SoundInv, NEW p \in props, state[p.srv] = "Leader"
  PROVE  EntryOf(p) \in LogEntry /\ Proposed(EntryOf(p))
  BY ProposalType, EntryOfType DEF TypeInv, SoundInv, BallotsSound, Proposed

LEMMA ProposeEntryStays ==
  ASSUME TypeInv, SoundInv, NEW p \in props, ProposeEntry(p)
  PROVE  LogsStay
<1>1. CASE UNCHANGED storage
  BY <1>1, QuietStays DEF SoundInv
<1>2. CASE /\ state[p.srv] = "Leader"
           /\ \/ Save(p.srv, AppendLog(ps[p.srv], EntryOf(p)))
              \/ SaveFails(p.srv, AppendLog(ps[p.srv], EntryOf(p)))
  <2>1. p.srv \in Server
    BY ProposalType DEF TypeInv
  <2>2. StaysOccupied(ps[p.srv], AppendLog(ps[p.srv], EntryOf(p)))
    BY <1>2, <2>1, EntryProposed, StorageAt, AppendLogOccupies
       DEF TypeInv, SoundInv, LogsSound
  <2>3. QED
    BY <1>2, <2>1, <2>2, SaveStays DEF SoundInv
<1>3. QED
  BY <1>1, <1>2 DEF ProposeEntry

LEMMA HandleAcceptStays ==
  ASSUME TypeInv, SoundInv, NEW m \in msgs, HandleAccept(m)
  PROVE  LogsStay
<1> DEFINE s == m.dst
           written == UpdateLog(ps[s], m.entry.index, m.entry)
           accepted == SetHighestAcceptedBallot(written, m.entry.index,
                                                m.entry.ballot)
<1>1. m.dst \in Server /\ m.entry \in LogEntry /\ Proposed(m.entry)
  BY AcceptType DEF HandleAccept, TypeInv, SoundInv, EntriesSound
<1>2. StaysOccupied(ps[s], written) /\ StaysOccupied(ps[s], accepted)
  BY <1>1, StorageAt, UpdateLogOccupies DEF TypeInv, SoundInv, LogsSound
<1>3. \/ Save(s, accepted) \/ SaveFails(s, written)
      \/ /\ ps' = [ps EXCEPT ![s] = accepted]
         /\ disk' = [disk EXCEPT ![s] = written]
  BY DEF HandleAccept
<1> HIDE DEF written, accepted
<1>4. QED
  BY <1>1, <1>2, <1>3, SaveStays, WriteStays DEF SoundInv

LEMMA ReceivePromiseStays ==
  ASSUME TypeInv, SoundInv, NEW m \in msgs, ReceivePromise(m)
  PROVE  LogsStay /\ \A e \in m.accepted : Occupied(ps'[m.dst], e.index)
<1> DEFINE adopted == AdoptEntries(ps[m.dst], m.accepted)
<1>1. /\ m.dst \in Server /\ Reportable(m.accepted)
      /\ \A e \in m.accepted : Proposed(e)
  BY PromiseType DEF ReceivePromise, TypeInv, SoundInv, EntriesSound
<1>2. /\ StaysOccupied(ps[m.dst], adopted)
      /\ \A e \in m.accepted : Occupied(adopted, e.index)
  BY <1>1, StorageAt, AdoptEntriesOccupies DEF TypeInv, SoundInv, LogsSound
<1>3. \/ adopted = ps[m.dst] /\ UNCHANGED storage
      \/ Save(m.dst, adopted) \/ SaveFails(m.dst, adopted)
  BY DEF ReceivePromise
<1> HIDE DEF adopted
<1>4. LogsStay
  BY <1>1, <1>2, <1>3, SaveStays, QuietStays DEF SoundInv
<1>5. ps'[m.dst] = adopted
  BY <1>1, <1>3 DEF Save, SaveFails, storage, TypeInv, StorageOK
<1>6. QED
  BY <1>2, <1>4, <1>5

LEMMA RestartStays ==
  ASSUME TypeInv, SoundInv, NEW s \in Server, Restart(s)
  PROVE  LogsStay
<1>1. PaddingIsZero(Loaded(s, disk[s], s \in RestartRole))
  BY StorageAt, BallotTypes, SetNpromisedOccupies
     DEF TypeInv, SoundInv, LogsSound, Loaded, StaysOccupied
<1>2. /\ round' = [round EXCEPT ![s] = IdleRound]
      /\ ps' = [ps EXCEPT ![s] = Loaded(s, disk[s], s \in RestartRole)]
      /\ disk' = disk
  BY DEF Restart
<1>3. round'[s].kind # "election" /\ \A t \in Server \ {s} : ps'[t] = ps[t]
  BY <1>2 DEF TypeInv, RoundOK, StorageOK, IdleRound
<1>4. PaddingIsZero(ps'[s])
  BY <1>1, <1>2 DEF TypeInv, StorageOK
<1>5. QED
  BY <1>2, <1>3, <1>4 DEF LogsStay, SoundInv, LogsSound

LEMMA StepStays ==
  ASSUME TypeInv, SoundInv, [Next]_vars
  PROVE  LogsStay
<1>1. ASSUME \/ UNCHANGED vars
             \/ \E s \in Server :
                  \/ FinishElection(s) \/ SendHeartbeats(s)
                  \/ InitiateStateTransfer(s) \/ FinishHeartbeats(s)
                  \/ ApplyCommittedEntries(s)
                  \/ \E request \in Request : ReadLogLength(s, request)
             \/ \E p \in props : ProposeNoOp(p) \/ FinishProposal(p)
             \/ \E m \in msgs : HandleHeartbeat(m)
      PROVE  LogsStay
  <2>1. UNCHANGED storage
    BY <1>1 DEF vars, FinishElection, SendHeartbeats, InitiateStateTransfer,
       FinishHeartbeats, ApplyCommittedEntries, ReadLogLength, ProposeNoOp,
       FinishProposal, HandleHeartbeat
  <2>2. QED
    BY <2>1, QuietStays DEF SoundInv
<1>2. QED
  BY <1>1, PromiseStays, ProposeEntryStays, HandleAcceptStays,
     ReceivePromiseStays, RestartStays DEF Next, Internal

\* The messages of a step: what is new is no Accept and no Promise, but for
\* the entry of a leader and for the answer to a Prepare.
LEMMA NewMessages ==
  ASSUME [Next]_vars, NEW m \in msgs'
  PROVE  \/ m \in msgs
         \/ m.type \in {"Prepare", "Heartbeat"}
         \/ /\ m.type = "Accept"
            /\ \E p \in props : state[p.srv] = "Leader" /\ m.entry = EntryOf(p)
         \/ /\ m.type = "Promise"
            /\ \E n \in msgs : /\ n.type = "Prepare"
                               /\ m.accepted = GetAllAcceptedEntries(ps[n.dst])
<1>1. ASSUME NEW s \in Server, StartElection(s)
      PROVE  m \in msgs \/ m.type = "Prepare"
  <2> DEFINE asked == [type : {"Prepare"}, src : {s}, dst : Peers(s),
                       ballot : {NextBallot(s)}]
  <2>1. msgs' = msgs \/ msgs' = msgs \cup asked
    BY <1>1 DEF StartElection
  <2>2. \A n \in asked : n.type = "Prepare"
    OBVIOUS
  <2> HIDE DEF asked
  <2>3. QED
    BY <2>1, <2>2
<1>2. ASSUME NEW s \in Server, SendHeartbeats(s)
      PROVE  m \in msgs \/ m.type = "Heartbeat"
  BY <1>2 DEF SendHeartbeats
<1>3. ASSUME NEW p \in props, ProposeEntry(p)
      PROVE  \/ m \in msgs
             \/ /\ state[p.srv] = "Leader"
                /\ m.type = "Accept" /\ m.entry = EntryOf(p)
  <2> DEFINE asked == [type : {"Accept"}, src : {p.srv}, dst : Peers(p.srv),
                       id : {p.id}, entry : {EntryOf(p)}]
  <2>1. msgs' = msgs \/ (state[p.srv] = "Leader" /\ msgs' = msgs \cup asked)
    BY <1>3 DEF ProposeEntry
  <2>2. \A n \in asked : n.type = "Accept" /\ n.entry = EntryOf(p)
    OBVIOUS
  <2> HIDE DEF asked
  <2>3. QED
    BY <2>1, <2>2
<1>4. ASSUME NEW n \in msgs, HandlePrepare(n)
      PROVE  \/ m \in msgs
             \/ /\ m.type = "Promise" /\ n.type = "Prepare"
                /\ m.accepted = GetAllAcceptedEntries(ps[n.dst])
  BY <1>4 DEF HandlePrepare
<1>5. ASSUME \/ UNCHANGED vars
             \/ \E s \in Server :
                  \/ FinishElection(s) \/ InitiateStateTransfer(s)
                  \/ FinishHeartbeats(s) \/ ApplyCommittedEntries(s)
                  \/ Restart(s)
                  \/ \E request \in Request : ReadLogLength(s, request)
             \/ \E p \in props : ProposeNoOp(p) \/ FinishProposal(p)
             \/ \E n \in msgs :
                  ReceivePromise(n) \/ HandleAccept(n) \/ HandleHeartbeat(n)
      PROVE  m \in msgs
  BY <1>5 DEF vars, FinishElection, InitiateStateTransfer, FinishHeartbeats,
     ApplyCommittedEntries, Restart, ReadLogLength, ProposeNoOp,
     FinishProposal, ReceivePromise, HandleAccept, HandleHeartbeat
<1>6. QED
  BY <1>1, <1>2, <1>3, <1>4, <1>5 DEF Next, Internal

LEMMA EntriesSoundNext ==
  ASSUME TypeInv, SoundInv, [Next]_vars
  PROVE  EntriesSound'
<1>1. ASSUME NEW m \in msgs, NEW e \in GetAllAcceptedEntries(ps[m.dst]),
             m.type = "Prepare"
      PROVE  Proposed(e)
  <2>1. ps[m.dst] \in PersistentState /\ SlotsFilled(ps[m.dst])
        /\ PaddingIsZero(ps[m.dst])
    BY <1>1, PrepareType, StorageAt DEF TypeInv, SoundInv, LogsSound
  <2>2. PICK h \in ps[m.dst].highest : e = GetLogEntry(ps[m.dst], h.index)
    BY DEF GetAllAcceptedEntries
  <2>3. h.index \in Nat
    BY <2>1 DEF PersistentState, Accepted
  <2>4. e.cmd # Blank
    BY <2>1, AcceptedEntriesReported DEF Reportable
  <2>5. QED
    BY <2>1, <2>2, <2>3, <2>4, GetPadding DEF Proposed
<1>2. ASSUME NEW m \in msgs'
      PROVE  /\ m.type = "Accept" => Proposed(m.entry)
             /\ m.type = "Promise" => \A e \in m.accepted : Proposed(e)
  <2>1. CASE m \in msgs
    BY <2>1 DEF SoundInv, EntriesSound
  <2>2. CASE m.type \in {"Prepare", "Heartbeat"}
    BY <2>2
  <2>3. CASE /\ m.type = "Accept"
             /\ \E p \in props : state[p.srv] = "Leader" /\ m.entry = EntryOf(p)
    BY <2>3, EntryProposed
  <2>4. CASE /\ m.type = "Promise"
             /\ \E n \in msgs : /\ n.type = "Prepare"
                                /\ m.accepted = GetAllAcceptedEntries(ps[n.dst])
    BY <1>1, <2>4
  <2>5. QED
    BY <2>1, <2>2, <2>3, <2>4, NewMessages
<1>3. QED
  BY <1>2 DEF EntriesSound

LEMMA AcceptKeepsPromise ==
  ASSUME NEW p \in PersistentState, NEW e \in LogEntry
  PROVE  LET q == UpdateLog(p, e.index, e)
         IN  /\ q.npromised = p.npromised
             /\ SetHighestAcceptedBallot(q, e.index, e.ballot).npromised
                  = p.npromised
<1> DEFINE q == UpdateLog(p, e.index, e)
<1>1. e.index \in Nat /\ e.ballot \in Ballot
  BY DEF LogEntry
<1>2. q \in PersistentState /\ q.npromised = p.npromised
  BY <1>1, UpdateLogKeeps
<1> HIDE DEF q
<1>3. SetHighestAcceptedBallot(q, e.index, e.ballot).npromised = q.npromised
  BY <1>2 DEF SetHighestAcceptedBallot, PersistentState
<1>4. QED
  BY <1>2, <1>3 DEF q

\* Whoever is elected has promised the ballot of its election, or a greater
\* one: it proposes under no less.
LEMMA BallotsSoundNext ==
  ASSUME TypeInv, PromiseInv, ElectionInv, SoundInv, RestartRole = {},
         [Next]_vars
  PROVE  BallotsSound'
<1> USE DEF TypeInv
<1>1. state \in [Server -> {"Follower", "Candidate", "Leader"}]
      /\ ps \in [Server -> PersistentState] /\ round \in [Server -> Rounds]
  BY DEF ServerOK, StorageOK, RoundOK
<1>2. ASSUME NEW s \in Server, StartElection(s)
      PROVE  BallotsSound'
  <2>1. NextBallot(s) \in Ballot /\ NextBallot(s) # ZeroBallot
    BY NextBallotType, NextBallotGreater, StorageAt, AboveZero
  <2>2. SetNpromised(ps[s], NextBallot(s)).npromised = NextBallot(s)
    BY <1>1, NextBallotType, SetNpromisedType
  <2>3. /\ ps' = [ps EXCEPT ![s] = SetNpromised(ps[s], NextBallot(s))]
        /\ state' = [state EXCEPT ![s] = "Candidate"] \/ state' = state
    BY <1>2 DEF StartElection, Save, SaveFails
  <2>4. \/ round' = round
        \/ round' = [round EXCEPT ![s] = [IdleRound EXCEPT !.kind = "election",
                                            !.ballot = NextBallot(s)]]
    BY <1>2 DEF StartElection
  <2>5. \A t \in Server : state'[t] = "Leader" => ps'[t].npromised # ZeroBallot
    BY <1>1, <2>1, <2>2, <2>3 DEF SoundInv, BallotsSound
  <2>6. ASSUME NEW t \in Server, round'[t].kind = "election"
        PROVE  round'[t].ballot # ZeroBallot
    <3>1. round'[t] = round[t] \/ round'[t].ballot = NextBallot(s)
      BY <1>1, <2>4 DEF IdleRound
    <3>2. QED
      BY <2>1, <2>6, <3>1 DEF SoundInv, BallotsSound
  <2>7. QED
    BY <2>5, <2>6 DEF BallotsSound
<1>3. ASSUME NEW m \in msgs, HandlePrepare(m)
      PROVE  BallotsSound'
  <2>1. m.dst \in Server /\ m.ballot \in Ballot
    BY <1>3, PrepareType DEF HandlePrepare
  <2>2. m.ballot # ZeroBallot
    BY <1>3, <2>1, StorageAt, AboveZero DEF HandlePrepare
  <2>3. SetNpromised(ps[m.dst], m.ballot).npromised = m.ballot
    BY <1>1, <2>1, SetNpromisedType
  <2>4. /\ ps' = [ps EXCEPT ![m.dst] = SetNpromised(ps[m.dst], m.ballot)]
        /\ state' = [state EXCEPT ![m.dst] = "Follower"] \/ state' = state
        /\ round' = round
    BY <1>3 DEF HandlePrepare, Save, SaveFails
  <2>5. QED
    BY <1>1, <2>1, <2>2, <2>3, <2>4 DEF SoundInv, BallotsSound
<1>4. ASSUME NEW s \in Server, FinishElection(s)
      PROVE  BallotsSound'
  <2>1. /\ round[s].kind = "election"
        /\ round' = [round EXCEPT ![s] = IdleRound]
        /\ state' = [state EXCEPT ![s] = AfterElection(s)] /\ ps' = ps
    BY <1>4 DEF FinishElection, storage
  <2>2. [srv |-> s, ballot |-> round[s].ballot] \in granted
    BY <2>1 DEF ElectionInv, Campaigning, Promisers
  <2>3. AtLeast(ps[s].npromised, round[s].ballot)
    BY <2>2 DEF PromiseInv, PromisesKept
  <2>4. round[s].ballot \in Ballot /\ ps[s].npromised \in Ballot
    BY <1>1, StorageAt DEF Rounds
  <2>5. ps[s].npromised # ZeroBallot
    BY <2>1, <2>3, <2>4, AboveZero DEF SoundInv, BallotsSound
  <2>6. \A t \in Server : round'[t].kind = "election" => round'[t] = round[t]
    BY <1>1, <2>1 DEF IdleRound
  <2>7. \A t \in Server : state'[t] = "Leader" => t = s \/ state[t] = "Leader"
    BY <1>1, <2>1
  <2>8. QED
    BY <2>1, <2>5, <2>6, <2>7 DEF SoundInv, BallotsSound
<1>5. ASSUME NEW s \in Server, Restart(s)
      PROVE  BallotsSound'
  <2>1. /\ round' = [round EXCEPT ![s] = IdleRound]
        /\ state' = [state EXCEPT ![s] = "Follower"]
        /\ ps' = [ps EXCEPT ![s] = Loaded(s, disk[s], s \in RestartRole)]
    BY <1>5 DEF Restart, StartState
  <2>2. \A t \in Server \ {s} : /\ round'[t] = round[t] /\ state'[t] = state[t]
                                /\ ps'[t] = ps[t]
    BY <1>1, <2>1
  <2>3. round'[s].kind = "idle" /\ state'[s] = "Follower"
    BY <1>1, <2>1 DEF IdleRound
  <2>4. QED
    BY <2>2, <2>3 DEF SoundInv, BallotsSound
<1>6. ASSUME NEW s \in Server, SendHeartbeats(s) \/ FinishHeartbeats(s)
      PROVE  BallotsSound'
  <2>1. /\ round'[s].kind # "election"
        /\ \A t \in Server \ {s} : round'[t] = round[t]
    <3>1. CASE SendHeartbeats(s)
      BY <1>1, <3>1 DEF SendHeartbeats, IdleRound
    <3>2. CASE FinishHeartbeats(s)
      BY <1>1, <3>2 DEF FinishHeartbeats, IdleRound
    <3>3. QED
      BY <1>6, <3>1, <3>2
  <2>2. ps' = ps /\ \A t \in Server : state'[t] \in {state[t], "Follower"}
    BY <1>1, <1>6 DEF SendHeartbeats, FinishHeartbeats, storage, server
  <2>3. QED
    BY <2>1, <2>2 DEF SoundInv, BallotsSound
<1>7. ASSUME NEW m \in msgs, HandleHeartbeat(m)
      PROVE  BallotsSound'
  <2>1. ps' = ps /\ \A t \in Server : state'[t] \in {state[t], "Follower"}
    BY <1>1, <1>7 DEF HandleHeartbeat, storage
  <2>2. SameElections
    BY <1>7, HandleHeartbeatElections
  <2>3. QED
    BY <2>1, <2>2 DEF SameElections, SoundInv, BallotsSound
<1>8. ASSUME NEW m \in msgs, ReceivePromise(m)
      PROVE  BallotsSound'
  <2>1. m.dst \in Server /\ Reportable(m.accepted)
    BY <1>8, PromiseType DEF ReceivePromise
  <2>2. AdoptEntries(ps[m.dst], m.accepted).npromised = ps[m.dst].npromised
    BY <1>1, <2>1, AdoptEntriesKeeps
  <2>3. \A s \in Server : ps'[s].npromised = ps[s].npromised
    BY <1>1, <1>8, <2>1, <2>2 DEF ReceivePromise, Save, SaveFails, storage
  <2>4. \A s \in Server : /\ round'[s].kind = round[s].kind
                          /\ round'[s].ballot = round[s].ballot
    BY <1>1, <1>8 DEF ReceivePromise, Rounds
  <2>5. state' = state
    BY <1>8 DEF ReceivePromise, server
  <2>6. QED
    BY <2>3, <2>4, <2>5 DEF SoundInv, BallotsSound
<1>9. ASSUME NEW p \in props, ProposeEntry(p)
      PROVE  BallotsSound'
  <2>1. p.srv \in Server /\ EntryOf(p) \in LogEntry
    BY ProposalType, EntryOfType
  <2>2. AppendLog(ps[p.srv], EntryOf(p)).npromised = ps[p.srv].npromised
    BY <1>1, <2>1, AppendLogKeeps
  <2>3. \A s \in Server : ps'[s].npromised = ps[s].npromised
    BY <1>1, <1>9, <2>1, <2>2 DEF ProposeEntry, Save, SaveFails, storage
  <2>4. state' = state /\ round' = round
    BY <1>9 DEF ProposeEntry, server
  <2>5. QED
    BY <2>3, <2>4 DEF SoundInv, BallotsSound
<1>10. ASSUME NEW m \in msgs, HandleAccept(m)
       PROVE  BallotsSound'
  <2> DEFINE written == UpdateLog(ps[m.dst], m.entry.index, m.entry)
             accepted == SetHighestAcceptedBallot(written, m.entry.index,
                                                  m.entry.ballot)
  <2>1. /\ m.dst \in Server /\ m.entry \in LogEntry
        /\ m.entry.index \in Nat /\ m.entry.ballot \in Ballot
    BY <1>10, AcceptType DEF HandleAccept
  <2>2. /\ written.npromised = ps[m.dst].npromised
        /\ accepted.npromised = ps[m.dst].npromised
    BY <1>1, <2>1, AcceptKeepsPromise
  <2>3. \/ ps' = [ps EXCEPT ![m.dst] = accepted]
        \/ ps' = [ps EXCEPT ![m.dst] = written]
    BY <1>10 DEF HandleAccept, Save, SaveFails
  <2> HIDE DEF written, accepted
  <2>4. \A s \in Server : ps'[s].npromised = ps[s].npromised
    BY <1>1, <2>1, <2>2, <2>3
  <2>5. state' = state /\ round' = round
    BY <1>10 DEF HandleAccept, server
  <2>6. QED
    BY <2>4, <2>5 DEF SoundInv, BallotsSound
<1>11. ASSUME \/ UNCHANGED vars
              \/ \E s \in Server :
                   \/ InitiateStateTransfer(s) \/ ApplyCommittedEntries(s)
                   \/ \E request \in Request : ReadLogLength(s, request)
              \/ \E p \in props : ProposeNoOp(p) \/ FinishProposal(p)
       PROVE  BallotsSound'
  <2>1. /\ ps' = ps /\ round' = round
        /\ \A t \in Server : state'[t] \in {state[t], "Follower"}
    BY <1>1, <1>11 DEF vars, InitiateStateTransfer, ApplyCommittedEntries,
       ReadLogLength, ProposeNoOp, FinishProposal, storage, server
  <2>2. QED
    BY <2>1 DEF SoundInv, BallotsSound
<1>12. QED
  BY <1>2, <1>3, <1>4, <1>5, <1>6, <1>7, <1>8, <1>9, <1>10, <1>11
     DEF Next, Internal

LEMMA SoundInvariance ==
  ASSUME RestartRole = {}
  PROVE  Spec => []SoundInv
<1>1. ASSUME Init
      PROVE  SoundInv
  <2>1. ASSUME NEW s \in Server
        PROVE  /\ Len(ps[s].log) = 0 /\ Len(disk[s].log) = 0
               /\ round[s].kind = "idle"
               /\ state[s] = "Leader" => ps[s].npromised = NewBallotNumber(1, s)
    <3>1. /\ FreshState(s) \in PersistentState /\ Len(FreshState(s).log) = 0
          /\ NewBallotNumber(1, s) \in Ballot
      BY FreshStateType, BallotTypes, EmptySeq DEF FreshState
    <3>2. /\ ps[s] = Loaded(s, FreshState(s), s \in LeaderRole)
          /\ disk[s] = FreshState(s) /\ round[s].kind = "idle"
          /\ state[s] = "Leader" => s \in LeaderRole
      BY <1>1 DEF Init, IdleRound, StartState
    <3>3. QED
      BY <3>1, <3>2, SetNpromisedType DEF Loaded
  <2>2. ASSUME NEW s \in Server
        PROVE  NewBallotNumber(1, s) # ZeroBallot
    BY DEF NewBallotNumber, ZeroBallot
  <2>3. LogsSound /\ BallotsSound
    BY <2>1, <2>2 DEF LogsSound, BallotsSound, PaddingIsZero
  <2>4. EntriesSound
    BY <1>1 DEF Init, EntriesSound
  <2>5. QED
    BY <2>3, <2>4 DEF SoundInv
<1>2. ASSUME TypeInv, PromiseInv, ElectionInv, SoundInv, [Next]_vars
      PROVE  SoundInv'
  <2>1. LogsSound'
    BY <1>2, StepStays DEF LogsStay, LogsSound
  <2>2. QED
    BY <1>2, <2>1, EntriesSoundNext, BallotsSoundNext DEF SoundInv
<1>3. QED
  BY <1>1, <1>2, PromiseInvariance, ElectionInvariance, PTL DEF Spec

\* A candidate has a command wherever a server whose promise it counted, or it
\* itself, accepted another's proposal before promising.
Learned(s) ==
  round[s].kind = "election" =>
    \A v \in votes :
      /\ v.srv \in Electorate(s) /\ v.by # v.srv
      /\ GreaterThan(round[s].ballot, v.ballot)
      => Occupied(ps[s], v.index)

LearnedInv == \A s \in Server : Learned(s)

\* A round that ends, or goes on as it was, while no follower accepts.
LEMMA LearnedKept ==
  ASSUME TypeInv, LogsStay, NEW s \in Server, Learned(s),
         round'[s].kind = "election" => round'[s] = round[s],
         \A v \in votes' : v \in votes \/ v.by = v.srv
  PROVE  Learned(s)'
<1>1. \A v \in votes : v.index \in Nat
  BY DEF TypeInv, HistoryOK, Votes
<1>2. QED
  BY <1>1 DEF Learned, Electorate, LogsStay

LEMMA OtherRounds ==
  ASSUME TypeInv, ElectionInv, [Next]_vars, NEW s \in Server,
         ~StartElection(s), ~ \E m \in msgs : m.dst = s /\ ReceivePromise(m),
         round'[s].kind = "election"
  PROVE  round'[s] = round[s]
<1>1. round \in [Server -> Rounds]
  BY DEF TypeInv, RoundOK
<1>2. ASSUME NEW t \in Server, StartElection(t)
      PROVE  round'[s] = round[s]
  BY <1>1, <1>2 DEF StartElection
<1>3. ASSUME NEW t \in Server, SendHeartbeats(t)
      PROVE  round'[s] = round[s]
  BY <1>1, <1>3 DEF SendHeartbeats, IdleRound
<1>4. ASSUME NEW t \in Server,
             FinishElection(t) \/ FinishHeartbeats(t) \/ Restart(t)
      PROVE  round'[s] = round[s]
  <2>1. round' = [round EXCEPT ![t] = IdleRound]
    BY <1>4 DEF FinishElection, FinishHeartbeats, Restart
  <2>2. QED
    BY <1>1, <2>1 DEF IdleRound
<1>5. ASSUME NEW m \in msgs, ReceivePromise(m)
      PROVE  round'[s] = round[s]
  BY <1>1, <1>5 DEF ReceivePromise
<1>6. ASSUME NEW m \in msgs, HandleHeartbeat(m)
      PROVE  round'[s] = round[s]
  <2>1. m.seq # 0 /\ round[s].kind = "election"
    BY <1>6, HandleHeartbeatElections
       DEF HandleHeartbeat, ElectionInv, AnswersTrue, SameElections
  <2>2. round[s].seq = 0
    BY <2>1 DEF ElectionInv, Campaigning
  <2>3. QED
    BY <1>6, <2>1, <2>2, HandleHeartbeatElections
<1>7. CASE \/ UNCHANGED vars
           \/ \E t \in Server :
                \/ InitiateStateTransfer(t) \/ ApplyCommittedEntries(t)
                \/ \E request \in Request : ReadLogLength(t, request)
           \/ \E p \in props :
                ProposeNoOp(p) \/ ProposeEntry(p) \/ FinishProposal(p)
           \/ \E m \in msgs : HandlePrepare(m) \/ HandleAccept(m)
  BY <1>7 DEF vars, InitiateStateTransfer, ApplyCommittedEntries,
     ReadLogLength, ProposeNoOp, ProposeEntry, FinishProposal, HandlePrepare,
     HandleAccept
<1>8. QED
  BY <1>2, <1>3, <1>4, <1>5, <1>6, <1>7 DEF Next, Internal

\* Only HandleAccept accepts another's proposal.
LEMMA OtherVotes ==
  ASSUME [Next]_vars, ~ \E m \in msgs : HandleAccept(m)
  PROVE  \A v \in votes' : v \in votes \/ v.by = v.srv
<1>1. ASSUME NEW p \in props, ProposeEntry(p)
      PROVE  \A v \in votes' : v \in votes \/ v.by = v.srv
  <2>1. PICK own : own = [srv |-> p.srv, by |-> p.srv, id |-> p.id,
                          ballot |-> EntryOf(p).ballot,
                          index |-> EntryOf(p).index]
    OBVIOUS
  <2>2. own.by = own.srv
    BY <2>1
  <2>3. votes' = votes \/ votes' = votes \cup {own}
    BY <1>1, <2>1 DEF ProposeEntry
  <2>4. QED
    BY <2>2, <2>3
<1>2. CASE ~ \E p \in props : ProposeEntry(p)
  BY <1>2 DEF Next, Internal, vars, StartElection, FinishElection,
     SendHeartbeats, InitiateStateTransfer, FinishHeartbeats,
     ApplyCommittedEntries, Restart, ReadLogLength, ProposeNoOp,
     FinishProposal, HandlePrepare, ReceivePromise, HandleHeartbeat, history
<1>3. QED
  BY <1>1, <1>2

LEMMA StartElectionLearns ==
  ASSUME TypeInv, MarksKept, LogsStay, NEW s \in Server, StartElection(s),
         round'[s].kind = "election"
  PROVE  Learned(s)'
<1>1. round \in [Server -> Rounds] /\ votes' = votes
  BY DEF TypeInv, RoundOK, StartElection
<1>2. round'[s].acks = {}
  BY <1>1 DEF StartElection, IdleRound
<1>3. ASSUME NEW v \in votes, v.srv = s, v.by # v.srv
      PROVE  Occupied(ps'[s], v.index)
  <2>1. v.index \in Nat
    BY DEF TypeInv, HistoryOK, Votes
  <2>2. PICK h \in ps[s].highest : h.index = v.index
    BY <1>3 DEF MarksKept, Marked
  <2>3. Occupied(ps[s], v.index)
    BY <2>2, StorageAt DEF TypeInv, SlotsFilled, Occupied
  <2>4. QED
    BY <2>1, <2>3 DEF LogsStay
<1>4. QED
  BY <1>1, <1>2, <1>3 DEF Learned, Electorate

LEMMA ReceivePromiseLearns ==
  ASSUME TypeInv, SoundInv, PromisesReport, LogsStay,
         NEW m \in msgs, ReceivePromise(m), Learned(m.dst)
  PROVE  Learned(m.dst)'
<1>1. /\ round \in [Server -> Rounds] /\ m.dst \in Server
      /\ m.type = "Promise" /\ votes' = votes
  BY PromiseType DEF TypeInv, RoundOK, ReceivePromise, history
<1>2. /\ round[m.dst].kind = "election" /\ round[m.dst].ballot = m.ballot
      /\ round'[m.dst].kind = "election" /\ round'[m.dst].ballot = m.ballot
      /\ round'[m.dst].acks = round[m.dst].acks \cup {m.src}
  BY <1>1 DEF ReceivePromise, Rounds
<1>3. ASSUME NEW v \in votes, v.srv = m.src, v.by # v.srv,
             GreaterThan(m.ballot, v.ballot)
      PROVE  Occupied(ps'[m.dst], v.index)
  <2>1. PICK e \in m.accepted : e.index = v.index
    BY <1>1, <1>3 DEF PromisesReport
  <2>2. QED
    BY <2>1, ReceivePromiseStays
<1>4. ASSUME NEW v \in votes, v.srv \in Electorate(m.dst), v.by # v.srv,
             GreaterThan(m.ballot, v.ballot)
      PROVE  Occupied(ps'[m.dst], v.index)
  <2>1. v.index \in Nat
    BY DEF TypeInv, HistoryOK, Votes
  <2>2. Occupied(ps[m.dst], v.index)
    BY <1>2, <1>4 DEF Learned
  <2>3. QED
    BY <1>1, <1>2, <2>1, <2>2 DEF LogsStay
<1>5. QED
  BY <1>1, <1>2, <1>3, <1>4 DEF Learned, Electorate

\* What a server accepts after its promise is not below the ballot promised.
LEMMA HandleAcceptLearns ==
  ASSUME TypeInv, PromiseInv, ElectionInv, LogsStay, NEW s \in Server,
         Learned(s), NEW m \in msgs, HandleAccept(m)
  PROVE  Learned(s)'
<1>0. PICK vote : vote = [srv |-> m.dst, by |-> m.src, id |-> m.id,
                          ballot |-> m.entry.ballot, index |-> m.entry.index]
  OBVIOUS
<1>1. vote.srv = m.dst /\ vote.ballot = m.entry.ballot
  BY <1>0
<1>2. /\ votes' \subseteq votes \cup {vote} /\ round' = round
      /\ AtLeast(vote.ballot, ps[m.dst].npromised)
  BY <1>0, <1>1 DEF HandleAccept, MayFollow
<1>3. /\ m.dst \in Server /\ vote.ballot \in Ballot
      /\ ps[m.dst].npromised \in Ballot /\ round[s].ballot \in Ballot
  <2>1. m.dst \in Server /\ m.entry \in LogEntry
    BY AcceptType DEF HandleAccept, TypeInv
  <2>2. QED
    BY <1>1, <2>1, StorageAt DEF TypeInv, LogEntry, RoundOK, Rounds
<1>4. ASSUME round[s].kind = "election", vote.srv \in Electorate(s)
      PROVE  ~GreaterThan(round[s].ballot, vote.ballot)
  <2>1. [srv |-> m.dst, ballot |-> round[s].ballot] \in granted
    BY <1>1, <1>4 DEF ElectionInv, Campaigning, Promisers, Electorate
  <2>2. AtLeast(ps[m.dst].npromised, round[s].ballot)
    BY <2>1 DEF PromiseInv, PromisesKept
  <2>3. AtLeast(vote.ballot, round[s].ballot)
    BY <1>2, <1>3, <2>2, BallotTransitive
  <2>4. QED
    BY <1>3, <2>3, NotGreaterThanLess
<1>5. ASSUME NEW v \in votes, round[s].kind = "election",
             v.srv \in Electorate(s), v.by # v.srv,
             GreaterThan(round[s].ballot, v.ballot)
      PROVE  Occupied(ps'[s], v.index)
  <2>1. v.index \in Nat
    BY DEF TypeInv, HistoryOK, Votes
  <2>2. QED
    BY <1>2, <1>5, <2>1 DEF Learned, LogsStay
<1>6. QED
  BY <1>2, <1>4, <1>5 DEF Learned, Electorate

LEMMA LearnedNext ==
  ASSUME TypeInv, PromiseInv, MarksKept, ElectionInv, SoundInv, PromisesReport,
         LearnedInv, [Next]_vars
  PROVE  LearnedInv'
<1>1. LogsStay
  BY StepStays
<1>2. SUFFICES ASSUME NEW s \in Server PROVE Learned(s)'
  BY DEF LearnedInv
<1>3. Learned(s)
  BY DEF LearnedInv
<1>4. CASE \E m \in msgs : HandleAccept(m)
  BY <1>1, <1>3, <1>4, HandleAcceptLearns
<1>5. CASE StartElection(s)
  <2>1. CASE round'[s].kind = "election"
    BY <1>1, <1>5, <2>1, StartElectionLearns
  <2>2. CASE round'[s].kind # "election"
    BY <2>2 DEF Learned
  <2>3. QED
    BY <2>1, <2>2
<1>6. CASE \E m \in msgs : m.dst = s /\ ReceivePromise(m)
  BY <1>1, <1>3, <1>6, ReceivePromiseLearns
<1>7. CASE /\ ~ \E m \in msgs : HandleAccept(m)
           /\ ~StartElection(s)
           /\ ~ \E m \in msgs : m.dst = s /\ ReceivePromise(m)
  BY <1>1, <1>3, <1>7, OtherRounds, OtherVotes, LearnedKept
<1>8. QED
  BY <1>4, <1>5, <1>6, <1>7

LEMMA LearnedInvariance ==
  ASSUME RestartRole = {}
  PROVE  Spec => []LearnedInv
<1>1. Init => LearnedInv
  BY DEF Init, LearnedInv, Learned
<1>2. QED
  BY <1>1, LearnedNext, PromiseInvariance, MarksInvariance, ElectionInvariance,
     SoundInvariance, PromisesAreComplete, PTL DEF Spec

\* Two majorities of the servers have a server in common.
LEMMA MajoritiesMeet ==
  ASSUME NEW P \in SUBSET Server, NEW Q \in SUBSET Server,
         Cardinality(P) >= Majority, Cardinality(Q) >= Majority
  PROVE  P \cap Q # {}
<1>1. IsFiniteSet(Server) /\ Cardinality(Server) = N
  BY NAssumption, FS_Interval DEF Server
<1>2. IsFiniteSet(P) /\ IsFiniteSet(Q)
  BY <1>1, FS_Subset
<1>3. SUFFICES ASSUME P \cap Q = {} PROVE FALSE
  OBVIOUS
<1>4. IsFiniteSet(P \cup Q) /\ Cardinality(P \cup Q)
        = Cardinality(P) + Cardinality(Q) - Cardinality(P \cap Q)
  BY <1>2, FS_Union
<1>5. Cardinality(P \cap Q) = 0
  BY <1>3, FS_EmptySet
<1>6. Cardinality(P \cup Q) <= N
  BY <1>1, FS_Subset
<1>7. /\ Cardinality(P) \in Nat /\ Cardinality(Q) \in Nat
      /\ Cardinality(P \cup Q) \in Nat
  BY <1>2, <1>4, FS_CardinalityType
<1>8. N \in Nat /\ Majority \in Nat /\ 2 * Majority > N
  BY NAssumption DEF Majority
<1>9. QED
  BY <1>4, <1>5, <1>6, <1>7, <1>8

\* Whoever is about to become leader has heard from an accepter of everything
\* that was committed under lower ballots, and if that accepter was a follower
\* its own next proposals go beyond it in the log. What is left is the case of
\* the old leader as the only witness: its own entry is not among those that a
\* promise reports.
THEOREM CommitsAreFound ==
  ASSUME RestartRole = {}
  PROVE  Spec => []ElectionsFindCommits
<1>1. ASSUME TypeInv, ElectionInv, CommitsAreChosen, LearnedInv,
             NEW s \in Server, round[s].kind = "election", Elected(s),
             NEW a \in acked, GreaterThan(round[s].ballot, a.ballot)
      PROVE  /\ Accepters(a) \cap Electorate(s) # {}
             /\ Followers(a) \cap Electorate(s) # {} => Occupied(ps[s], a.index)
  <2>1. round[s].acks \in SUBSET Server /\ s \notin round[s].acks
    BY <1>1 DEF TypeInv, RoundOK, Rounds, ElectionInv, Campaigning
  <2>2. Cardinality(Electorate(s)) >= Majority
    BY <1>1, <2>1, CountedMajority DEF Elected, Electorate
  <2>3. Accepters(a) \cap Electorate(s) # {}
    BY <1>1, <2>1, <2>2, MajoritiesMeet
       DEF CommitsAreChosen, Accepters, Electorate
  <2>4. ASSUME NEW t \in Followers(a) \cap Electorate(s)
        PROVE  Occupied(ps[s], a.index)
    BY <1>1, <2>4 DEF Followers, LearnedInv, Learned
  <2>5. QED
    BY <2>3, <2>4
<1>2. TypeInv /\ ElectionInv /\ CommitsAreChosen /\ LearnedInv
        => ElectionsFindCommits
  BY <1>1 DEF ElectionsFindCommits
<1>3. QED
  BY <1>2, ElectionInvariance, CommittedIsChosen, LearnedInvariance, PTL

-----------------------------------------------------------------------------
(* AppliedOnce. A server knows only commits that succeeded, and its learner *)
(* moves forward below them; whether names of proposals are unique does not *)
(* matter, so nothing is assumed of restarts.                               *)

CommitsSucceeded ==
  /\ \A s \in Server : commitIndex[s] # -1 => SucceededAt(commitIndex[s])
  /\ \A m \in msgs :
       m.type = "Heartbeat" /\ m.commit # -1 => SucceededAt(m.commit)

\* The learner of s has passed what it applied, and not its commit index.
Forward(s) ==
  /\ lastApplied[s] <= commitIndex[s]
  /\ \A i \in DOMAIN applied[s] :
       /\ applied[s][i].pos <= lastApplied[s]
       /\ \A j \in 1 .. i - 1 : applied[s][j].pos < applied[s][i].pos

LearnerInv == CommitsSucceeded /\ \A s \in Server : Forward(s)

LEMMA HeartbeatSucceeded ==
  ASSUME TypeInv, CommitsSucceeded,
         \/ \E s \in Server : SendHeartbeats(s)
         \/ \E m \in msgs : HandleHeartbeat(m)
  PROVE  CommitsSucceeded'
<1>1. ASSUME NEW s \in Server, SendHeartbeats(s)
      PROVE  CommitsSucceeded'
  <2>1. /\ UNCHANGED <<acked, commitIndex>>
        /\ \A m \in msgs' : m \in msgs \/ m.commit = commitIndex[s]
    BY <1>1 DEF SendHeartbeats, server, history
  <2>2. QED
    BY <2>1 DEF CommitsSucceeded, SucceededAt
<1>2. ASSUME NEW m \in msgs, HandleHeartbeat(m)
      PROVE  CommitsSucceeded'
  <2>1. /\ UNCHANGED acked /\ msgs' \subseteq msgs /\ m.type = "Heartbeat"
        /\ commitIndex' = [commitIndex EXCEPT
                             ![m.dst] = IF m.commit > @ THEN m.commit ELSE @]
    BY <1>2 DEF HandleHeartbeat, history
  <2>2. \A s \in Server : commitIndex'[s] \in {commitIndex[s], m.commit}
    BY <2>1 DEF TypeInv, ServerOK
  <2>3. QED
    BY <2>1, <2>2 DEF CommitsSucceeded, SucceededAt
<1>3. QED
  BY <1>1, <1>2

LEMMA FinishProposalSucceeded ==
  ASSUME TypeInv, CommitsSucceeded, NEW p \in props, FinishProposal(p)
  PROVE  CommitsSucceeded'
<1>0. PICK a : a = [id |-> p.id, ballot |-> p.ballot, index |-> p.index]
  OBVIOUS
<1>1. UNCHANGED msgs
  BY DEF FinishProposal
<1>2. CASE UNCHANGED <<commitIndex, acked>>
  BY <1>1, <1>2 DEF CommitsSucceeded, SucceededAt
<1>3. CASE /\ commitIndex' = [commitIndex EXCEPT
                               ![p.srv] = IF p.index > @ THEN p.index ELSE @]
           /\ acked' = acked \cup {a}
  <2>1. \A s \in Server : commitIndex'[s] \in {commitIndex[s], p.index}
    BY <1>3 DEF TypeInv, ServerOK
  <2>2. SucceededAt(p.index)' /\ a.index = p.index
    BY <1>0, <1>3 DEF SucceededAt
  <2>3. \A i : SucceededAt(i) => SucceededAt(i)'
    BY <1>3 DEF SucceededAt
  <2>4. QED
    BY <1>1, <2>1, <2>2, <2>3 DEF CommitsSucceeded
<1>4. QED
  BY <1>0, <1>2, <1>3 DEF FinishProposal

LEMMA SucceededNext ==
  ASSUME TypeInv, CommitsSucceeded, [Next]_vars
  PROVE  CommitsSucceeded'
<1>1. CASE \E p \in props : FinishProposal(p)
  BY <1>1, FinishProposalSucceeded
<1>2. CASE \/ \E s \in Server : SendHeartbeats(s)
           \/ \E m \in msgs : HandleHeartbeat(m)
  BY <1>2, HeartbeatSucceeded
<1>3. CASE \/ UNCHANGED vars
           \/ \E s \in Server :
                \/ StartElection(s) \/ FinishElection(s)
                \/ InitiateStateTransfer(s) \/ FinishHeartbeats(s)
                \/ ApplyCommittedEntries(s) \/ Restart(s)
                \/ \E request \in Request : ReadLogLength(s, request)
           \/ \E p \in props : ProposeNoOp(p) \/ ProposeEntry(p)
           \/ \E m \in msgs :
                HandlePrepare(m) \/ ReceivePromise(m) \/ HandleAccept(m)
  BY <1>3, OthersTellNothing DEF CommitsSucceeded, SucceededAt
<1>4. QED
  BY <1>1, <1>2, <1>3 DEF Next, Internal

LEMMA SameSegment ==
  ASSUME NEW a \in Nat, NEW b \in Nat, 1 .. a = 1 .. b
  PROVE  a = b
<1>1. (a = 0 \/ a \in 1 .. b) /\ (b = 0 \/ b \in 1 .. a)
  OBVIOUS
<1>2. QED
  BY <1>1

\* One tick of applyLoop: what it adds follows lastApplied, in order.
LEMMA ApplyForward ==
  ASSUME TypeInv, NEW s \in Server, Forward(s), ApplyCommittedEntries(s)
  PROVE  Forward(s)'
<1> DEFINE last == lastApplied[s]
           upto == SmallerOf(AppliedUpTo(s), GetLogLength(ps[s]) - 1)
           new == [i \in 1 .. upto - last |->
                     [pos |-> last + i,
                      cmd |-> GetLogEntry(ps[s], last + i).cmd]]
<1>1. /\ last \in Nat \cup {-1} /\ commitIndex[s] \in Nat \cup {-1}
      /\ GetLogLength(ps[s]) \in Nat /\ last < commitIndex[s]
  BY StorageAt DEF TypeInv, ApplyCommittedEntries, ServerOK, GetLogLength
<1>2. /\ AppliedUpTo(s) \in Nat \cup {-1} /\ upto \in Int
      /\ last <= AppliedUpTo(s) /\ AppliedUpTo(s) <= commitIndex[s]
      /\ upto <= AppliedUpTo(s)
  BY <1>1 DEF AppliedUpTo, SmallerOf
<1>3. applied'[s] = applied[s] \o new
  BY DEF TypeInv, ServerOK, ApplyCommittedEntries
<1> HIDE DEF upto
<1>4. /\ last \in Int /\ lastApplied'[s] \in Int /\ upto \in Int
      /\ last <= lastApplied'[s] /\ upto <= lastApplied'[s]
      /\ lastApplied'[s] <= commitIndex'[s]
  <2>1. lastApplied'[s] = AppliedUpTo(s) /\ commitIndex' = commitIndex
    BY DEF TypeInv, ServerOK, ApplyCommittedEntries
  <2>2. QED
    BY <1>1, <1>2, <2>1
<1>5. PICK k \in Nat : 1 .. upto - last = 1 .. k /\ (k = 0 \/ k = upto - last)
  <2>1. CASE upto - last \in Nat
    BY <2>1
  <2>2. CASE upto - last \notin Nat
    BY <1>1, <1>2, <2>2
  <2>3. QED
    BY <2>1, <2>2
<1>6. PICK more : more = new
  OBVIOUS
<1>7. /\ DOMAIN more = 1 .. k /\ more = [i \in 1 .. k |-> more[i]]
      /\ \A i \in 1 .. k : more[i].pos = last + i
  BY <1>5, <1>6
<1>8. /\ more \in [1 .. k -> {more[i] : i \in 1 .. k}]
      /\ more \in Seq({more[i] : i \in 1 .. k}) /\ Len(more) = k
  <2>1. more \in [1 .. k -> {more[i] : i \in 1 .. k}]
    BY <1>7
  <2>2. more \in Seq({more[i] : i \in 1 .. k})
    BY <2>1, FunctionIsSeq
  <2>3. Len(more) \in Nat /\ 1 .. Len(more) = 1 .. k
    BY <1>7, <2>2, LenProperties
  <2>4. QED
    BY <2>1, <2>2, <2>3, SameSegment
<1> HIDE DEF new
<1>9. PICK n : n = Len(applied[s])
  OBVIOUS
<1>10. /\ n \in Nat /\ DOMAIN applied[s] = 1 .. n
       /\ \A i \in 1 .. n : applied[s][i].pos \in Nat
  <2>1. applied[s] \in Seq([pos : Nat, cmd : Command])
    BY DEF TypeInv, ServerOK
  <2>2. n \in Nat /\ DOMAIN applied[s] = 1 .. n
    BY <1>9, <2>1, LenProperties
  <2>3. \A i \in 1 .. n : applied[s][i] \in [pos : Nat, cmd : Command]
    BY <1>9, <2>1, ElementOfSeq
  <2>4. QED
    BY <2>2, <2>3
<1>11. /\ DOMAIN applied'[s] = 1 .. n + k
       /\ \A i \in 1 .. n : applied'[s][i] = applied[s][i]
       /\ \A i \in n + 1 .. n + k : applied'[s][i] = more[i - n]
  <2>1. /\ applied[s] \in Seq([pos : Nat, cmd : Command])
        /\ more \in Seq({more[i] : i \in 1 .. k})
    BY <1>8 DEF TypeInv, ServerOK
  <2>. DEFINE U == [pos : Nat, cmd : Command] \cup {more[i] : i \in 1 .. k}
  <2>2. applied[s] \in Seq(U) /\ more \in Seq(U)
    <3>1. applied[s] \in [1 .. n -> [pos : Nat, cmd : Command]]
      BY <1>9, <2>1, LenProperties
    <3>2. applied[s] \in [1 .. n -> U]
      BY <3>1
    <3>3. more \in [1 .. k -> U]
      BY <1>8
    <3>4. n \in Nat /\ k \in Nat
      BY <1>10
    <3>5. QED
      BY <3>2, <3>3, <3>4, FunctionIsSeq
  <2>. HIDE DEF U
  <2>3. /\ applied[s] \o more \in Seq(U)
        /\ Len(applied[s] \o more) = n + k
        /\ \A i \in 1 .. n + k : (applied[s] \o more)[i] =
              IF i <= n THEN applied[s][i] ELSE more[i - n]
    <3>1. Len(applied[s]) = n /\ Len(more) = k
      BY <1>8, <1>9
    <3>2. ASSUME NEW a \in Seq(U), NEW b \in Seq(U)
          PROVE  /\ a \o b \in Seq(U)
                 /\ Len(a \o b) = Len(a) + Len(b)
                 /\ \A i \in 1 .. Len(a) + Len(b) : (a \o b)[i] =
                      IF i <= Len(a) THEN a[i] ELSE b[i - Len(a)]
      BY ConcatProperties
    <3>3. QED
      BY <2>2, <3>1, <3>2
  <2>4. DOMAIN (applied[s] \o more) = 1 .. n + k
    BY <2>3, LenProperties
  <2>5. /\ \A i \in 1 .. n : i \in 1 .. n + k /\ i <= n
        /\ \A i \in n + 1 .. n + k : i \in 1 .. n + k /\ ~(i <= n)
    BY <1>10
  <2>6. QED
    BY <1>3, <1>6, <2>3, <2>4, <2>5
<1>12. /\ \A i \in 1 .. n : /\ applied'[s][i].pos \in Nat
                            /\ applied'[s][i].pos <= last
       /\ \A i \in n + 1 .. n + k :
            i - n \in 1 .. k /\ applied'[s][i].pos = last + (i - n)
  <2>1. \A i \in 1 .. n : applied[s][i].pos <= last
    BY <1>10 DEF Forward
  <2>2. \A i \in n + 1 .. n + k : i - n \in 1 .. k
    BY <1>10
  <2>3. \A i \in 1 .. n : applied'[s][i] = applied[s][i]
    BY <1>11
  <2>4. ASSUME NEW i \in n + 1 .. n + k
        PROVE  applied'[s][i].pos = more[i - n].pos
    <3>1. applied'[s][i] = more[i - n]
      BY <1>11
    <3>2. QED
      BY <3>1
  <2>5. \A i \in n + 1 .. n + k : more[i - n].pos = last + (i - n)
    BY <1>7, <2>2
  <2>6. \A i \in 1 .. n : /\ applied'[s][i].pos \in Nat
                          /\ applied'[s][i].pos <= last
    BY <1>10, <2>1, <2>3
  <2>7. QED
    BY <2>2, <2>4, <2>5, <2>6
<1>13. ASSUME NEW i \in 1 .. n + k
       PROVE  /\ applied'[s][i].pos <= lastApplied'[s]
              /\ \A j \in 1 .. i - 1 : applied'[s][j].pos < applied'[s][i].pos
  <2>1. CASE i \in 1 .. n
    <3>1. \A j \in 1 .. i - 1 : /\ j \in 1 .. n
                                /\ applied[s][j].pos < applied[s][i].pos
      BY <1>10, <2>1 DEF Forward
    <3>2. applied'[s][i].pos \in Nat /\ applied'[s][i].pos <= last
      BY <1>12, <2>1
    <3>3. applied'[s][i].pos <= lastApplied'[s]
      BY <1>4, <3>2
    <3>4. QED
      BY <1>11, <2>1, <3>1, <3>3
  <2>2. CASE i \in n + 1 .. n + k
    <3>1. /\ applied'[s][i].pos = last + (i - n) /\ last + (i - n) <= upto
          /\ last < last + (i - n)
      BY <1>1, <1>2, <1>5, <1>10, <1>12, <2>2
    <3>2. ASSUME NEW j \in 1 .. i - 1
          PROVE  applied'[s][j].pos < applied'[s][i].pos
      <4>1. CASE j \in 1 .. n
        <5>1. applied'[s][j].pos \in Nat /\ applied'[s][j].pos <= last
          BY <1>12, <4>1
        <5>2. applied'[s][i].pos \in Int
          BY <1>4, <1>10, <3>1
        <5>3. QED
          BY <1>4, <3>1, <5>1, <5>2
      <4>2. CASE j \in n + 1 .. n + k
        BY <1>1, <1>10, <1>12, <3>1, <2>2, <4>2
      <4>3. QED
        BY <1>10, <2>2, <4>1, <4>2
    <3>3. applied'[s][i].pos <= lastApplied'[s]
      BY <1>4, <1>10, <3>1
    <3>4. QED
      BY <3>2, <3>3
  <2>3. QED
    BY <1>10, <2>1, <2>2
<1>14. QED
  BY <1>4, <1>11, <1>13 DEF Forward

\* Every other step leaves the learner alone, raises the commit index, or
\* starts again from nothing.
LEMMA OthersForward ==
  ASSUME TypeInv, [Next]_vars, NEW s \in Server, Forward(s),
         ~ApplyCommittedEntries(s)
  PROVE  Forward(s)'
<1>1. CASE Restart(s)
  <2>1. /\ commitIndex'[s] = -1 /\ lastApplied'[s] = -1
        /\ applied'[s] = << >>
    BY <1>1 DEF Restart, TypeInv, ServerOK
  <2>2. QED
    BY <2>1 DEF Forward
<1>2. CASE ~Restart(s)
  <2>0. commitIndex[s] \in Int /\ lastApplied[s] \in Int
    BY DEF TypeInv, ServerOK
  <2>1. /\ lastApplied'[s] = lastApplied[s] /\ applied'[s] = applied[s]
        /\ commitIndex'[s] >= commitIndex[s]
    <3>1. CASE \E p \in props : FinishProposal(p)
      <4>1. PICK p \in props : FinishProposal(p)
        BY <3>1
      <4>2. p.srv \in Server /\ p.index \in Int
        BY ProposalType DEF TypeInv
      <4>3. /\ UNCHANGED <<lastApplied, applied>>
            /\ \/ UNCHANGED commitIndex
               \/ commitIndex' = [commitIndex EXCEPT
                     ![p.srv] = IF p.index > @ THEN p.index ELSE @]
        BY <4>1 DEF FinishProposal
      <4>4. QED
        <5>1. commitIndex \in [Server -> Nat \cup {-1}]
          BY DEF TypeInv, ServerOK
        <5>2. QED
          BY <2>0, <4>2, <4>3, <5>1
    <3>2. CASE \E m \in msgs : HandleHeartbeat(m)
      <4>1. PICK m \in msgs : HandleHeartbeat(m)
        BY <3>2
      <4>2. m.dst \in Server /\ m.commit \in Int
        BY <4>1, HeartbeatType DEF TypeInv, HandleHeartbeat
      <4>3. /\ UNCHANGED <<lastApplied, applied>>
            /\ commitIndex' = [commitIndex EXCEPT
                     ![m.dst] = IF m.commit > @ THEN m.commit ELSE @]
        BY <4>1 DEF HandleHeartbeat
      <4>4. QED
        <5>1. commitIndex \in [Server -> Nat \cup {-1}]
          BY DEF TypeInv, ServerOK
        <5>2. QED
          BY <2>0, <4>2, <4>3, <5>1
    <3>3. CASE \E t \in Server : Restart(t) \/ ApplyCommittedEntries(t)
      <4>1. PICK t \in Server : Restart(t) \/ ApplyCommittedEntries(t)
        BY <3>3
      <4>2. t # s
        BY <1>2, <4>1
      <4>3. QED
        BY <2>0, <4>1, <4>2
           DEF Restart, ApplyCommittedEntries, TypeInv, ServerOK
    <3>4. CASE \/ UNCHANGED vars
               \/ \E t \in Server :
                    \/ StartElection(t) \/ FinishElection(t)
                    \/ SendHeartbeats(t) \/ InitiateStateTransfer(t)
                    \/ FinishHeartbeats(t)
                    \/ \E request \in Request : ReadLogLength(t, request)
               \/ \E p \in props : ProposeNoOp(p) \/ ProposeEntry(p)
               \/ \E m \in msgs :
                    HandlePrepare(m) \/ ReceivePromise(m) \/ HandleAccept(m)
      <4>1. UNCHANGED <<lastApplied, applied, commitIndex>>
        BY <3>4 DEF vars, server, StartElection, FinishElection,
           SendHeartbeats, InitiateStateTransfer, FinishHeartbeats,
           ReadLogLength, ProposeNoOp, ProposeEntry, HandlePrepare,
           ReceivePromise, HandleAccept
      <4>2. QED
        BY <2>0, <4>1
    <3>5. QED
      BY <3>1, <3>2, <3>3, <3>4 DEF Next, Internal
  <2>2. commitIndex'[s] \in Int
    <3>1. TypeInv'
      BY TypeInvNext
    <3>2. QED
      BY <3>1 DEF TypeInv, ServerOK
  <2>3. QED
    BY <2>0, <2>1, <2>2 DEF Forward
<1>3. QED
  BY <1>1, <1>2

\* The learner applies no index twice in one life of its server, none that it
\* has passed, and none beyond a proposal that a client or a new leader was
\* told succeeded: whatever commit indices heartbeats bring, in any order, to
\* logs of any length, and with servers restarted in either way.
THEOREM LearnerGoesForward == Spec => []AppliedOnce
<1>1. Init => LearnerInv
  BY DEF Init, LearnerInv, CommitsSucceeded, Forward
<1>2. ASSUME TypeInv, LearnerInv, [Next]_vars
      PROVE  LearnerInv'
  <2>1. CommitsSucceeded'
    BY <1>2, SucceededNext DEF LearnerInv
  <2>2. ASSUME NEW s \in Server
        PROVE  Forward(s)'
    BY <1>2, ApplyForward, OthersForward DEF LearnerInv
  <2>3. QED
    BY <2>1, <2>2 DEF LearnerInv
<1>3. TypeInv /\ LearnerInv => AppliedOnce
  <2>1. SUFFICES ASSUME TypeInv, LearnerInv, NEW s \in Server,
                        NEW i \in DOMAIN applied[s]
                 PROVE  /\ \A j \in 1 .. i - 1 :
                             applied[s][j].pos < applied[s][i].pos
                        /\ \E a \in acked : applied[s][i].pos <= a.index
    BY DEF AppliedOnce
  <2>2. /\ applied[s][i].pos \in Nat /\ applied[s][i].pos <= lastApplied[s]
        /\ lastApplied[s] \in Int /\ commitIndex[s] \in Int
        /\ lastApplied[s] <= commitIndex[s]
    <3>1. applied[s] \in Seq([pos : Nat, cmd : Command])
      BY <2>1 DEF TypeInv, ServerOK
    <3>2. lastApplied[s] \in Int /\ commitIndex[s] \in Int
      BY <2>1 DEF TypeInv, ServerOK
    <3>3. applied[s][i] \in [pos : Nat, cmd : Command]
      BY <2>1, <3>1, LenProperties, ElementOfSeq
    <3>4. QED
      BY <2>1, <3>2, <3>3 DEF LearnerInv, Forward
  <2>3. PICK a \in acked : a.index = commitIndex[s]
    BY <2>1, <2>2 DEF LearnerInv, CommitsSucceeded, SucceededAt
  <2>4. QED
    BY <2>1, <2>2, <2>3 DEF LearnerInv, Forward
<1>4. QED
  BY <1>1, <1>2, <1>3, TypeInvariance, PTL DEF Spec
=============================================================================
