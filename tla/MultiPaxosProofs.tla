-------------------------- MODULE MultiPaxosProofs --------------------------
(***************************************************************************)
(* Proofs about MultiPaxos, for every number of servers, every set of      *)
(* requests and every bound: types, promises, the acceptors' contract, the *)
(* freshness of a candidate's ballot.                                      *)
(***************************************************************************)
EXTENDS MultiPaxos, PersistenceProofs

(***************************************************************************)
(* TypeOK is not inductive: what a promise brings must be fit to be        *)
(* adopted, so it must come from slots that are filled. The parts of the   *)
(* stronger invariant are named for the variables they are about.          *)
(***************************************************************************)
ServerOK ==
  /\ state \in [Server -> {"Follower", "Candidate", "Leader"}]
  /\ currentLeader \in [Server -> Server \cup {-1}]
  /\ commitIndex \in [Server -> Nat \cup {-1}]
  /\ lastApplied \in [Server -> Nat \cup {-1}]
  /\ applied \in [Server -> Seq([pos : Nat, cmd : Command])]
  /\ stuck \in [Server -> BOOLEAN]

StorageOK ==
  /\ ps \in [Server -> PersistentState]
  /\ disk \in [Server -> PersistentState]
  /\ \A s \in Server : SlotsFilled(ps[s]) /\ SlotsFilled(disk[s])
  /\ faults \in Nat

RoundOK == round \in [Server -> Rounds]

PropsOK == props \subseteq Proposals

MsgsOK ==
  /\ msgs \subseteq Messages
  /\ \A m \in msgs : /\ m.src # m.dst
                     /\ m.type = "Promise" => Reportable(m.accepted)
                     /\ m.type = "Accept" => m.entry.cmd # Blank

CountersOK == submitted \subseteq Request /\ {heartbeats, restarts} \subseteq Nat

HistoryOK ==
  /\ granted \subseteq [srv : Server, ballot : Ballot]
  /\ votes \subseteq Votes
  /\ acked \subseteq [id : ProposalId, ballot : Ballot, index : Nat]

TypeInv ==
  ServerOK /\ StorageOK /\ RoundOK /\ PropsOK /\ MsgsOK /\ CountersOK
  /\ HistoryOK

LEMMA TypeInvImplies == TypeInv => TypeOK
  BY DEF TypeInv, TypeOK, ServerOK, StorageOK, RoundOK, PropsOK, MsgsOK,
     CountersOK, HistoryOK

LEMMA BallotTypes ==
  /\ ZeroBallot \in Ballot
  /\ \A t \in Nat, s \in Server : NewBallotNumber(t, s) \in Ballot
  /\ \A b \in Ballot : b.term \in Nat /\ b.id \in Server
  BY NAssumption DEF ZeroBallot, NewBallotNumber, Ballot, Server

LEMMA IdleRoundType == IdleRound \in Rounds
  BY BallotTypes DEF IdleRound, Rounds

\* What the parts say of one server.
LEMMA StorageAt ==
  ASSUME StorageOK, NEW s \in Server
  PROVE  /\ ps[s] \in PersistentState /\ SlotsFilled(ps[s])
         /\ disk[s] \in PersistentState /\ SlotsFilled(disk[s])
         /\ ps[s].npromised \in Ballot /\ disk[s].npromised \in Ballot
         /\ Len(ps[s].log) \in Nat
<1>1. ps[s] \in PersistentState /\ disk[s] \in PersistentState
  BY DEF StorageOK
<1>2. ps[s].npromised \in Ballot /\ disk[s].npromised \in Ballot
      /\ ps[s].log \in Seq(LogEntry)
  BY <1>1 DEF PersistentState
<1>3. QED
  BY <1>1, <1>2, LenProperties DEF StorageOK

\* Saving a well-formed state, or failing to.
LEMMA SaveType ==
  ASSUME StorageOK, NEW s \in Server, NEW p \in PersistentState, SlotsFilled(p),
         Save(s, p) \/ SaveFails(s, p)
  PROVE  StorageOK'
  BY DEF StorageOK, Save, SaveFails

\* Promising a ballot leaves the log and its marks alone.
LEMMA SetNpromisedFills ==
  ASSUME NEW p \in PersistentState, SlotsFilled(p), NEW b \in Ballot
  PROVE  SetNpromised(p, b) \in PersistentState
         /\ SlotsFilled(SetNpromised(p, b))
  BY SetNpromisedType DEF SlotsFilled

LEMMA InitType == Init => TypeInv
<1> SUFFICES ASSUME Init PROVE TypeInv
  OBVIOUS
<1>1. ServerOK
  BY EmptySeq DEF Init, ServerOK, StartState, StartLeader
<1>2. ASSUME NEW s \in Server
      PROVE  FreshState(s) \in PersistentState /\ SlotsFilled(FreshState(s))
  BY FreshStateType DEF FreshState, SlotsFilled
<1>3. ASSUME NEW s \in Server
      PROVE  /\ Loaded(s, FreshState(s), s \in LeaderRole) \in PersistentState
             /\ SlotsFilled(Loaded(s, FreshState(s), s \in LeaderRole))
  <2>1. CASE s \in LeaderRole
    BY <1>2, <2>1, SetNpromisedFills, BallotTypes DEF Loaded
  <2>2. CASE s \notin LeaderRole
    BY <1>2, <2>2 DEF Loaded
  <2>3. QED
    BY <2>1, <2>2
<1>4. StorageOK
  BY <1>2, <1>3 DEF Init, StorageOK
<1>5. RoundOK /\ PropsOK /\ MsgsOK /\ CountersOK /\ HistoryOK
  BY IdleRoundType DEF Init, RoundOK, PropsOK, MsgsOK, CountersOK, HistoryOK
<1>6. QED
  BY <1>1, <1>4, <1>5 DEF TypeInv

-----------------------------------------------------------------------------
(* Each action preserves the type invariant.                               *)

LEMMA NextBallotType ==
  ASSUME StorageOK, NEW s \in Server
  PROVE  NextBallot(s) \in Ballot
  BY StorageAt, BallotTypes DEF NextBallot

LEMMA StartElectionType ==
  ASSUME TypeInv, NEW s \in Server, StartElection(s)
  PROVE  TypeInv'
<1> DEFINE ballot == NextBallot(s)
           voted == SetNpromised(ps[s], ballot)
<1> USE DEF TypeInv
<1>1. ballot \in Ballot
  BY NextBallotType
<1>2. voted \in PersistentState /\ SlotsFilled(voted)
  BY <1>1, StorageAt, SetNpromisedFills
<1>3. Save(s, voted) \/ SaveFails(s, voted)
  BY DEF StartElection
<1>4. StorageOK'
  BY <1>2, <1>3, SaveType
<1> HIDE DEF ballot, voted
<1>5. CASE UNCHANGED <<state, round, msgs, granted>>
  BY <1>4, <1>5 DEF StartElection, ServerOK, RoundOK, PropsOK, MsgsOK,
     CountersOK, HistoryOK, bounds
<1>6. CASE /\ state' = [state EXCEPT ![s] = "Candidate"]
           /\ round' = [round EXCEPT ![s] =
                          [IdleRound EXCEPT !.kind = "election",
                                            !.ballot = ballot]]
           /\ msgs' = msgs \cup [type : {"Prepare"}, src : {s},
                                 dst : Peers(s), ballot : {ballot}]
           /\ granted' = granted \cup {[srv |-> s, ballot |-> ballot]}
  <2>1. ServerOK'
    BY <1>6 DEF StartElection, ServerOK
  <2>2. RoundOK'
    BY <1>1, <1>6, IdleRoundType DEF RoundOK, Rounds
  <2>3. MsgsOK'
    BY <1>1, <1>6 DEF MsgsOK, Messages, Peers
  <2>4. PropsOK' /\ CountersOK' /\ HistoryOK'
    BY <1>1, <1>6 DEF StartElection, PropsOK, CountersOK, HistoryOK, bounds
  <2>5. QED
    BY <1>4, <2>1, <2>2, <2>3, <2>4
<1>7. QED
  BY <1>5, <1>6 DEF StartElection, ballot, voted

LEMMA PrepareType ==
  ASSUME MsgsOK, NEW m \in msgs, m.type = "Prepare"
  PROVE  /\ m.src \in Server /\ m.dst \in Server /\ m.src # m.dst
         /\ m.ballot \in Ballot
  BY DEF MsgsOK, Messages

LEMMA HandlePrepareType ==
  ASSUME TypeInv, NEW m \in msgs, HandlePrepare(m)
  PROVE  TypeInv'
<1> DEFINE s == m.dst
           promised == SetNpromised(ps[s], m.ballot)
           promise == [type |-> "Promise", src |-> s, dst |-> m.src,
                       ballot |-> m.ballot,
                       accepted |-> GetAllAcceptedEntries(ps[s])]
<1> USE DEF TypeInv
<1>1. s \in Server /\ m.src \in Server /\ m.src # s /\ m.ballot \in Ballot
  BY PrepareType DEF HandlePrepare
<1>2. promised \in PersistentState /\ SlotsFilled(promised)
  BY <1>1, StorageAt, SetNpromisedFills
<1>3. Save(s, promised) \/ SaveFails(s, promised)
  BY DEF HandlePrepare
<1>4. StorageOK'
  BY <1>1, <1>2, <1>3, SaveType
<1>5. promise \in Messages /\ Reportable(promise.accepted)
  <2>1. Reportable(GetAllAcceptedEntries(ps[s]))
    BY <1>1, StorageAt, AcceptedEntriesReported
  <2>2. QED
    BY <1>1, <2>1 DEF Messages, Reportable
<1>6. MsgsOK'
  <2>1. msgs' = (msgs \ {m}) \cup {promise} \/ msgs' = msgs \ {m}
    BY DEF HandlePrepare
  <2>2. promise.type = "Promise" /\ promise.src # promise.dst
    BY <1>1
  <2> HIDE DEF promise
  <2>3. QED
    BY <1>5, <2>1, <2>2 DEF MsgsOK
<1>7. ServerOK'
  BY <1>1 DEF HandlePrepare, ServerOK
<1>8. HistoryOK'
  BY <1>1 DEF HandlePrepare, HistoryOK
<1>9. RoundOK' /\ PropsOK' /\ CountersOK'
  BY DEF HandlePrepare, RoundOK, PropsOK, CountersOK, bounds
<1>10. QED
  BY <1>4, <1>6, <1>7, <1>8, <1>9

LEMMA PromiseType ==
  ASSUME MsgsOK, NEW m \in msgs, m.type = "Promise"
  PROVE  /\ m.src \in Server /\ m.dst \in Server /\ m.src # m.dst
         /\ m.ballot \in Ballot /\ Reportable(m.accepted)
  BY DEF MsgsOK, Messages

\* Adoption keeps every slot filled that was.
LEMMA AdoptEntriesFills ==
  ASSUME NEW p \in PersistentState, SlotsFilled(p),
         NEW entries, Reportable(entries)
  PROVE  /\ AdoptEntries(p, entries) \in PersistentState
         /\ SlotsFilled(AdoptEntries(p, entries))
<1> DEFINE q == AdoptEntries(p, entries)
<1>1. /\ q \in PersistentState /\ q.highest = p.highest
      /\ Len(q.log) >= Len(p.log)
      /\ \A i \in 1 .. Len(p.log) :
           \/ q.log[i] = p.log[i]
           \/ q.log[i].index = i - 1 /\ q.log[i].cmd # Blank
  BY AdoptEntriesKeeps
<1>2. Len(p.log) \in Nat /\ Len(q.log) \in Nat
  BY <1>1, LenProperties DEF PersistentState
<1>3. \A h \in p.highest : h.index \in Nat
  BY DEF PersistentState, Accepted
<1> HIDE DEF q
<1>4. SlotsFilled(q)
  BY <1>1, <1>2, <1>3, SMTT(40) DEF SlotsFilled
<1>5. QED
  BY <1>1, <1>4 DEF q

LEMMA ReceivePromiseType ==
  ASSUME TypeInv, NEW m \in msgs, ReceivePromise(m)
  PROVE  TypeInv'
<1> DEFINE s == m.dst
           adopted == AdoptEntries(ps[s], m.accepted)
<1> USE DEF TypeInv
<1>1. s \in Server /\ m.src \in Server /\ Reportable(m.accepted)
  BY PromiseType DEF ReceivePromise
<1>2. adopted \in PersistentState /\ SlotsFilled(adopted)
  BY <1>1, StorageAt, AdoptEntriesFills
<1>3. UNCHANGED storage \/ Save(s, adopted) \/ SaveFails(s, adopted)
  BY DEF ReceivePromise
<1>4. StorageOK'
  <2>1. CASE UNCHANGED storage
    BY <2>1 DEF StorageOK, storage
  <2>2. CASE Save(s, adopted) \/ SaveFails(s, adopted)
    BY <1>1, <1>2, <2>2, SaveType
  <2>3. QED
    BY <1>3, <2>1, <2>2
<1>5. RoundOK'
  <2>1. round' = [round EXCEPT ![s].acks = @ \cup {m.src}]
    BY DEF ReceivePromise
  <2>2. QED
    BY <1>1, <2>1 DEF RoundOK, Rounds
<1>6. MsgsOK'
  BY DEF ReceivePromise, MsgsOK
<1>7. ServerOK' /\ PropsOK' /\ CountersOK' /\ HistoryOK'
  BY DEF ReceivePromise, ServerOK, PropsOK, CountersOK, HistoryOK, server,
     bounds, history
<1>8. QED
  BY <1>4, <1>5, <1>6, <1>7

LEMMA FinishElectionType ==
  ASSUME TypeInv, NEW s \in Server, FinishElection(s)
  PROVE  TypeInv'
<1> USE DEF TypeInv
<1>1. StorageOK' /\ CountersOK' /\ HistoryOK' /\ MsgsOK'
  BY DEF FinishElection, StorageOK, CountersOK, HistoryOK, MsgsOK, storage,
     bounds, history
<1>2. RoundOK'
  BY IdleRoundType DEF FinishElection, RoundOK
<1>3. ServerOK'
  BY DEF FinishElection, ServerOK, AfterElection
<1>4. PropsOK'
  <2>1. round[s].ballot \in Ballot
    BY DEF RoundOK, Rounds
  <2>2. QED
    BY <2>1, BallotTypes DEF FinishElection, PropsOK, Proposals, ProposalId
<1>5. QED
  BY <1>1, <1>2, <1>3, <1>4

LEMMA ReadLogLengthType ==
  ASSUME TypeInv, NEW s \in Server, NEW request \in Request,
         ReadLogLength(s, request)
  PROVE  TypeInv'
<1> USE DEF TypeInv
<1>1. GetLogLength(ps[s]) \in Nat
  BY StorageAt DEF GetLogLength
<1>2. PropsOK'
  BY <1>1, BallotTypes DEF ReadLogLength, PropsOK, Proposals, ProposalId
<1>3. ServerOK' /\ StorageOK' /\ RoundOK' /\ MsgsOK' /\ CountersOK'
      /\ HistoryOK'
  BY DEF ReadLogLength, ServerOK, StorageOK, RoundOK, MsgsOK, CountersOK,
     HistoryOK, server, storage, bounds, history
<1>4. QED
  BY <1>2, <1>3

LEMMA ProposalType ==
  ASSUME PropsOK, NEW p \in props
  PROVE  /\ p \in Proposals
         /\ p.srv \in Server /\ p.id \in ProposalId /\ p.index \in Nat
         /\ p.ballot \in Ballot /\ p.acks \subseteq Server
  BY DEF PropsOK, Proposals

LEMMA ProposeNoOpType ==
  ASSUME TypeInv, NEW p \in props, ProposeNoOp(p)
  PROVE  TypeInv'
<1> USE DEF TypeInv
<1>1. GetLogLength(ps[p.srv]) \in Nat
  BY StorageAt, ProposalType DEF GetLogLength
<1>2. PropsOK'
  <2>1. [p EXCEPT !.phase = "read", !.index = GetLogLength(ps[p.srv])]
          \in Proposals
    BY <1>1, ProposalType DEF Proposals
  <2>2. QED
    BY <2>1 DEF ProposeNoOp, PropsOK
<1>3. ServerOK' /\ StorageOK' /\ RoundOK' /\ MsgsOK' /\ CountersOK'
      /\ HistoryOK'
  BY DEF ProposeNoOp, ServerOK, StorageOK, RoundOK, MsgsOK, CountersOK,
     HistoryOK, server, storage, bounds, history
<1>4. QED
  BY <1>2, <1>3

LEMMA EntryOfType ==
  ASSUME StorageOK, PropsOK, NEW p \in props
  PROVE  /\ EntryOf(p) \in LogEntry /\ EntryOf(p).cmd # Blank
         /\ EntryOf(p).ballot = ps[p.srv].npromised
         /\ EntryOf(p).index = p.index
<1>1. ps[p.srv].npromised \in Ballot /\ p.index \in Nat
  BY StorageAt, ProposalType
<1>2. NoOp # Blank
  BY DEF NoOp, Blank
<1>3. QED
  BY <1>1, <1>2, RequestAssumption DEF EntryOf, LogEntry, Command

\* Appending keeps every slot filled that was.
LEMMA AppendLogFills ==
  ASSUME NEW p \in PersistentState, SlotsFilled(p), NEW e \in LogEntry
  PROVE  AppendLog(p, e) \in PersistentState /\ SlotsFilled(AppendLog(p, e))
<1>1. \A h \in p.highest : h.index \in Nat
  BY DEF PersistentState, Accepted
<1>2. Len(p.log) \in Nat
  BY LenProperties DEF PersistentState
<1> DEFINE q == AppendLog(p, e)
<1>3. /\ q \in PersistentState /\ q.highest = p.highest
      /\ Len(q.log) = Len(p.log) + 1
      /\ \A i \in 1 .. Len(p.log) : q.log[i] = p.log[i]
  BY AppendLogKeeps
<1> HIDE DEF q
<1>4. SlotsFilled(q)
  BY <1>1, <1>2, <1>3, SMTT(40) DEF SlotsFilled
<1>5. QED
  BY <1>3, <1>4 DEF q

LEMMA ProposeEntryType ==
  ASSUME TypeInv, NEW p \in props, ProposeEntry(p)
  PROVE  TypeInv'
<1> DEFINE s == p.srv
           entry == EntryOf(p)
           appended == AppendLog(ps[s], entry)
           sent == [p EXCEPT !.phase = "sent", !.ballot = entry.ballot]
           own == [srv |-> s, by |-> s, id |-> p.id, ballot |-> entry.ballot,
                   index |-> entry.index]
<1> USE DEF TypeInv
<1>1. /\ s \in Server /\ p.id \in ProposalId
      /\ entry \in LogEntry /\ entry.cmd # Blank
  BY ProposalType, EntryOfType
<1>2. entry.ballot \in Ballot /\ entry.index \in Nat
  BY <1>1 DEF LogEntry
<1>3. appended \in PersistentState /\ SlotsFilled(appended)
  BY <1>1, StorageAt, AppendLogFills
<1>4. UNCHANGED storage \/ Save(s, appended) \/ SaveFails(s, appended)
  BY DEF ProposeEntry
<1>5. StorageOK'
  <2>1. CASE UNCHANGED storage
    BY <2>1 DEF StorageOK, storage
  <2>2. CASE Save(s, appended) \/ SaveFails(s, appended)
    BY <1>1, <1>3, <2>2, SaveType
  <2>3. QED
    BY <1>4, <2>1, <2>2
<1>6. PropsOK'
  <2>1. sent \in Proposals
    BY <1>2, ProposalType DEF Proposals
  <2>2. props' = (props \ {p}) \cup {sent} \/ props' = props \ {p}
    BY DEF ProposeEntry, Returned
  <2>3. QED
    BY <2>1, <2>2 DEF PropsOK
<1>7. MsgsOK'
  <2>1. \/ msgs' = msgs
        \/ msgs' = msgs \cup [type : {"Accept"}, src : {s}, dst : Peers(s),
                              id : {p.id}, entry : {entry}]
    BY DEF ProposeEntry
  <2> HIDE DEF entry, s
  <2>2. QED
    BY <1>1, <2>1 DEF MsgsOK, Messages, Peers
<1>8. HistoryOK'
  <2>1. own \in Votes
    BY <1>1, <1>2 DEF Votes
  <2>2. votes' = votes \/ votes' = votes \cup {own}
    BY DEF ProposeEntry
  <2>3. granted' = granted /\ acked' = acked
    BY DEF ProposeEntry
  <2>4. QED
    BY <2>1, <2>2, <2>3 DEF HistoryOK
<1>9. ServerOK' /\ RoundOK' /\ CountersOK'
  BY DEF ProposeEntry, ServerOK, RoundOK, CountersOK, server, bounds
<1>10. QED
  BY <1>5, <1>6, <1>7, <1>8, <1>9

LEMMA AcceptType ==
  ASSUME MsgsOK, NEW m \in msgs, m.type = "Accept"
  PROVE  /\ m.src \in Server /\ m.dst \in Server /\ m.src # m.dst
         /\ m.id \in ProposalId
         /\ m.entry \in LogEntry /\ m.entry.cmd # Blank
         /\ m.entry.index \in Nat /\ m.entry.ballot \in Ballot
  BY DEF MsgsOK, Messages, LogEntry

\* Accepting an entry fills its slot and keeps the others filled, with the
\* mark and without it.
LEMMA UpdateLogFills ==
  ASSUME NEW p \in PersistentState, SlotsFilled(p),
         NEW e \in LogEntry, e.cmd # Blank
  PROVE  LET q == UpdateLog(p, e.index, e)
             r == SetHighestAcceptedBallot(q, e.index, e.ballot)
         IN  /\ q \in PersistentState /\ SlotsFilled(q)
             /\ r \in PersistentState /\ SlotsFilled(r)
<1> DEFINE q == UpdateLog(p, e.index, e)
           r == SetHighestAcceptedBallot(q, e.index, e.ballot)
<1>1. e.index \in Nat /\ e.ballot \in Ballot
  BY DEF LogEntry
<1>2. /\ q \in PersistentState /\ q.highest = p.highest
      /\ Len(q.log) >= Len(p.log) /\ Len(q.log) > e.index
      /\ q.log[e.index + 1] = e
      /\ \A i \in 1 .. Len(p.log) : i # e.index + 1 => q.log[i] = p.log[i]
  BY <1>1, UpdateLogKeeps
<1> HIDE DEF q
<1>3. /\ r \in PersistentState /\ r.log = q.log
      /\ \A h \in r.highest : h \in q.highest \/ h.index = e.index
  BY <1>1, <1>2, SetHighestKeeps
<1> HIDE DEF r
<1>4. Len(p.log) \in Nat /\ Len(q.log) \in Nat
  BY <1>2, LenProperties DEF PersistentState
<1>5. \A h \in p.highest : h.index \in Nat
  BY DEF PersistentState, Accepted
<1>6. SlotsFilled(q)
  <2> SUFFICES ASSUME NEW h \in p.highest
               PROVE  /\ h.index < Len(q.log)
                      /\ q.log[h.index + 1].index = h.index
                      /\ q.log[h.index + 1].cmd # Blank
    BY <1>2 DEF SlotsFilled
  <2>1. CASE h.index = e.index
    BY <1>2, <2>1
  <2>2. CASE h.index # e.index
    <3>1. /\ h.index < Len(p.log)
          /\ p.log[h.index + 1].index = h.index
          /\ p.log[h.index + 1].cmd # Blank
      BY DEF SlotsFilled
    <3>2. q.log[h.index + 1] = p.log[h.index + 1]
      <4>1. h.index \in Nat /\ h.index < Len(p.log)
        BY <1>5, <3>1
      <4>2. h.index + 1 \in 1 .. Len(p.log) /\ h.index + 1 # e.index + 1
        BY <1>1, <1>4, <2>2, <4>1
      <4>3. QED
        BY <1>2, <4>2
    <3>3. QED
      BY <1>2, <1>4, <1>5, <3>1, <3>2
  <2>3. QED
    BY <2>1, <2>2
<1>7. SlotsFilled(r)
  BY <1>1, <1>2, <1>3, <1>6 DEF SlotsFilled
<1>8. QED
  BY <1>2, <1>3, <1>6, <1>7 DEF q, r

LEMMA HandleAcceptType ==
  ASSUME TypeInv, NEW m \in msgs, HandleAccept(m)
  PROVE  TypeInv'
<1> DEFINE s == m.dst
           written == UpdateLog(ps[s], m.entry.index, m.entry)
           accepted == SetHighestAcceptedBallot(written, m.entry.index,
                                                m.entry.ballot)
           vote == [srv |-> s, by |-> m.src, id |-> m.id,
                    ballot |-> m.entry.ballot, index |-> m.entry.index]
<1> USE DEF TypeInv
<1>1. /\ m.src \in Server /\ s \in Server /\ m.id \in ProposalId
      /\ m.entry \in LogEntry /\ m.entry.cmd # Blank
      /\ m.entry.index \in Nat /\ m.entry.ballot \in Ballot
  BY AcceptType DEF HandleAccept
<1>2. /\ written \in PersistentState /\ SlotsFilled(written)
      /\ accepted \in PersistentState /\ SlotsFilled(accepted)
  BY <1>1, StorageAt, UpdateLogFills
<1>3. \/ Save(s, accepted) \/ SaveFails(s, written)
      \/ /\ faults' = faults + 1
         /\ ps' = [ps EXCEPT ![s] = accepted]
         /\ disk' = [disk EXCEPT ![s] = written]
  BY DEF HandleAccept
<1>4. StorageOK'
  <2>1. CASE Save(s, accepted) \/ SaveFails(s, written)
    BY <1>1, <1>2, <2>1, SaveType
  <2>2. CASE /\ faults' = faults + 1
             /\ ps' = [ps EXCEPT ![s] = accepted]
             /\ disk' = [disk EXCEPT ![s] = written]
    <3> HIDE DEF accepted, written
    <3> QED  BY <1>1, <1>2, <2>2 DEF StorageOK
  <2>3. QED
    BY <1>3, <2>1, <2>2
<1>5. PropsOK'
  <2>1. \/ props' = props
        \/ props' = (props \ Callers(m)) \cup
             {[p EXCEPT !.acks = @ \cup {m.dst}] : p \in Callers(m)}
    BY DEF HandleAccept, CountAccept
  <2>2. \A p \in Callers(m) :
          [p EXCEPT !.acks = @ \cup {m.dst}] \in Proposals
    BY <1>1 DEF Callers, PropsOK, Proposals
  <2>3. QED
    BY <2>1, <2>2 DEF PropsOK
<1>6. MsgsOK'
  BY DEF HandleAccept, MsgsOK
<1>7. HistoryOK'
  <2>1. vote \in Votes
    BY <1>1 DEF Votes
  <2>2. votes' = votes \/ votes' = votes \cup {vote}
    BY DEF HandleAccept
  <2>3. granted' = granted /\ acked' = acked
    BY DEF HandleAccept
  <2>4. QED
    BY <2>1, <2>2, <2>3 DEF HistoryOK
<1>8. ServerOK' /\ RoundOK' /\ CountersOK'
  BY DEF HandleAccept, ServerOK, RoundOK, CountersOK, server, bounds
<1>9. QED
  BY <1>4, <1>5, <1>6, <1>7, <1>8

LEMMA FinishProposalType ==
  ASSUME TypeInv, NEW p \in props, FinishProposal(p)
  PROVE  TypeInv'
<1> USE DEF TypeInv
<1>1. p.srv \in Server /\ p.id \in ProposalId /\ p.index \in Nat
      /\ p.ballot \in Ballot
  BY ProposalType
<1>2. StorageOK' /\ RoundOK' /\ MsgsOK' /\ CountersOK' /\ PropsOK'
  BY DEF FinishProposal, StorageOK, RoundOK, MsgsOK, CountersOK, PropsOK,
     Returned, storage, bounds
<1>3. ServerOK'
  BY <1>1 DEF FinishProposal, ServerOK
<1>4. HistoryOK'
  BY <1>1 DEF FinishProposal, HistoryOK
<1>5. QED
  BY <1>2, <1>3, <1>4

LEMMA SendHeartbeatsType ==
  ASSUME TypeInv, NEW s \in Server, SendHeartbeats(s)
  PROVE  TypeInv'
<1> USE DEF TypeInv
<1>1. GetLogLength(ps[s]) \in Nat /\ heartbeats' \in Nat
      /\ ps[s].npromised \in Ballot /\ commitIndex[s] \in Nat \cup {-1}
  BY StorageAt DEF SendHeartbeats, GetLogLength, CountersOK, ServerOK
<1>2. RoundOK'
  BY <1>1, IdleRoundType DEF SendHeartbeats, RoundOK, Rounds
<1>3. MsgsOK'
  BY <1>1 DEF SendHeartbeats, MsgsOK, Messages, Peers
<1>4. ServerOK' /\ StorageOK' /\ PropsOK' /\ CountersOK' /\ HistoryOK'
  BY <1>1 DEF SendHeartbeats, ServerOK, StorageOK, PropsOK, CountersOK,
     HistoryOK, server, storage, history
<1>5. QED
  BY <1>2, <1>3, <1>4

LEMMA HeartbeatType ==
  ASSUME MsgsOK, NEW m \in msgs, m.type = "Heartbeat"
  PROVE  /\ m.src \in Server /\ m.dst \in Server /\ m.ballot \in Ballot
         /\ m.commit \in Nat \cup {-1} /\ m.seq \in Nat
  BY DEF MsgsOK, Messages

LEMMA HandleHeartbeatType ==
  ASSUME TypeInv, NEW m \in msgs, HandleHeartbeat(m)
  PROVE  TypeInv'
<1> USE DEF TypeInv
<1>1. /\ m.src \in Server /\ m.dst \in Server /\ m.ballot \in Ballot
      /\ m.commit \in Nat \cup {-1}
  BY HeartbeatType DEF HandleHeartbeat
<1>2. m.ballot.id \in Server
  BY <1>1, BallotTypes
<1>3. ServerOK'
  BY <1>1, <1>2 DEF HandleHeartbeat, ServerOK
<1>4. RoundOK'
  BY <1>1 DEF HandleHeartbeat, CountHeartbeat, RoundOK, Rounds
<1>5. StorageOK' /\ PropsOK' /\ CountersOK' /\ HistoryOK' /\ MsgsOK'
  BY DEF HandleHeartbeat, StorageOK, PropsOK, CountersOK, HistoryOK, MsgsOK,
     storage, bounds, history
<1>6. QED
  BY <1>3, <1>4, <1>5

LEMMA InitiateStateTransferType ==
  ASSUME TypeInv, NEW s \in Server, InitiateStateTransfer(s)
  PROVE  TypeInv'
<1> USE DEF TypeInv
<1>1. ServerOK'
  BY DEF InitiateStateTransfer, ServerOK
<1>2. StorageOK' /\ RoundOK' /\ PropsOK' /\ MsgsOK' /\ CountersOK'
      /\ HistoryOK'
  BY DEF InitiateStateTransfer, StorageOK, RoundOK, PropsOK, MsgsOK,
     CountersOK, HistoryOK, storage, bounds, history
<1>3. QED
  BY <1>1, <1>2

LEMMA FinishHeartbeatsType ==
  ASSUME TypeInv, NEW s \in Server, FinishHeartbeats(s)
  PROVE  TypeInv'
<1> USE DEF TypeInv
<1>1. ServerOK'
  BY DEF FinishHeartbeats, ServerOK
<1>2. RoundOK'
  BY IdleRoundType DEF FinishHeartbeats, RoundOK
<1>3. StorageOK' /\ PropsOK' /\ MsgsOK' /\ CountersOK' /\ HistoryOK'
  BY DEF FinishHeartbeats, StorageOK, PropsOK, MsgsOK, CountersOK, HistoryOK,
     storage, bounds, history
<1>4. QED
  BY <1>1, <1>2, <1>3

\* A function on an initial segment is a sequence.
LEMMA FunctionIsSeq ==
  ASSUME NEW S, NEW n \in Nat, NEW f \in [1 .. n -> S]
  PROVE  f \in Seq(S)
  BY SeqDef

LEMMA ApplyCommittedEntriesType ==
  ASSUME TypeInv, NEW s \in Server, ApplyCommittedEntries(s)
  PROVE  TypeInv'
<1> DEFINE last == lastApplied[s]
           upto == SmallerOf(AppliedUpTo(s), GetLogLength(ps[s]) - 1)
           more == [i \in 1 .. upto - last |->
                      [pos |-> last + i,
                       cmd |-> GetLogEntry(ps[s], last + i).cmd]]
<1> USE DEF TypeInv
<1>1. /\ last \in Nat \cup {-1} /\ commitIndex[s] \in Nat \cup {-1}
      /\ GetLogLength(ps[s]) \in Nat /\ last < commitIndex[s]
  BY StorageAt DEF ApplyCommittedEntries, ServerOK, GetLogLength
<1>2. AppliedUpTo(s) \in Nat \cup {-1} /\ upto \in Int
  BY <1>1 DEF AppliedUpTo, SmallerOf
<1> HIDE DEF upto
<1>3. more \in Seq([pos : Nat, cmd : Command])
  <2>1. \A i \in 1 .. upto - last : last + i \in Nat
    BY <1>1, <1>2
  <2>2. \A i \in 1 .. upto - last : GetLogEntry(ps[s], last + i) \in LogEntry
    BY <2>1, StorageAt, GetLogEntryType
  <2>3. more \in [1 .. upto - last -> [pos : Nat, cmd : Command]]
    BY <2>1, <2>2 DEF LogEntry
  <2>4. CASE upto - last \in Nat
    BY <2>3, <2>4, FunctionIsSeq
  <2>5. CASE upto - last \notin Nat
    <3>1. 1 .. upto - last = 1 .. 0
      BY <1>1, <1>2, <2>5
    <3>2. more \in [1 .. 0 -> [pos : Nat, cmd : Command]]
      BY <2>3, <3>1
    <3>3. QED
      BY <3>2, FunctionIsSeq
  <2>6. QED
    BY <2>4, <2>5
<1> HIDE DEF more
<1>4. applied[s] \o more \in Seq([pos : Nat, cmd : Command])
  BY <1>3, ConcatProperties DEF ServerOK
<1>5. ServerOK'
  <2>1. /\ lastApplied' = [lastApplied EXCEPT ![s] = AppliedUpTo(s)]
        /\ applied' = [applied EXCEPT ![s] = @ \o more]
        /\ UNCHANGED <<state, currentLeader, commitIndex, stuck>>
    BY DEF ApplyCommittedEntries, more, upto
  <2>2. QED
    BY <1>2, <1>4, <2>1 DEF ServerOK
<1>6. StorageOK' /\ RoundOK' /\ PropsOK' /\ MsgsOK' /\ CountersOK'
      /\ HistoryOK'
  BY DEF ApplyCommittedEntries, StorageOK, RoundOK, PropsOK, MsgsOK,
     CountersOK, HistoryOK, storage, bounds, history
<1>7. QED
  BY <1>5, <1>6

LEMMA RestartType ==
  ASSUME TypeInv, NEW s \in Server, Restart(s)
  PROVE  TypeInv'
<1> DEFINE role == s \in RestartRole
           loaded == Loaded(s, disk[s], role)
<1> USE DEF TypeInv
<1>1. loaded \in PersistentState /\ SlotsFilled(loaded)
  <2>1. disk[s] \in PersistentState /\ SlotsFilled(disk[s])
    BY StorageAt
  <2>2. NewBallotNumber(1, s) \in Ballot
    BY BallotTypes
  <2>3. QED
    BY <2>1, <2>2, SetNpromisedFills DEF Loaded
<1>2. StorageOK'
  <2>1. ps' = [ps EXCEPT ![s] = loaded] /\ UNCHANGED <<disk, faults>>
    BY DEF Restart
  <2> HIDE DEF loaded
  <2>2. QED
    BY <1>1, <2>1 DEF StorageOK
<1>3. ServerOK'
  <2>1. StartState(role) \in {"Follower", "Candidate", "Leader"}
        /\ StartLeader(s, role) \in Server \cup {-1}
    BY DEF StartState, StartLeader
  <2>2. << >> \in Seq([pos : Nat, cmd : Command])
    BY EmptySeq
  <2>3. QED
    BY <2>1, <2>2 DEF Restart, ServerOK
<1>4. RoundOK'
  BY IdleRoundType DEF Restart, RoundOK
<1>5. PropsOK' /\ MsgsOK' /\ CountersOK' /\ HistoryOK'
  BY DEF Restart, PropsOK, MsgsOK, CountersOK, HistoryOK, history
<1>6. QED
  BY <1>2, <1>3, <1>4, <1>5

LEMMA StutterType ==
  ASSUME TypeInv, UNCHANGED vars
  PROVE  TypeInv'
<1> USE DEF TypeInv
<1>1. ServerOK' /\ RoundOK' /\ PropsOK'
  BY DEF vars, server, ServerOK, RoundOK, PropsOK
<1>2. StorageOK'
  BY DEF vars, storage, StorageOK
<1>3. MsgsOK' /\ CountersOK' /\ HistoryOK'
  BY DEF vars, bounds, history, MsgsOK, CountersOK, HistoryOK
<1>4. QED
  BY <1>1, <1>2, <1>3

LEMMA TypeInvNext ==
  ASSUME TypeInv, [Next]_vars
  PROVE  TypeInv'
<1>1. CASE UNCHANGED vars
  BY <1>1, StutterType
<1>2. CASE Next
  BY <1>2, StartElectionType, FinishElectionType, SendHeartbeatsType,
     InitiateStateTransferType, FinishHeartbeatsType,
     ApplyCommittedEntriesType, RestartType, ReadLogLengthType,
     ProposeNoOpType, ProposeEntryType, FinishProposalType,
     HandlePrepareType, ReceivePromiseType, HandleAcceptType,
     HandleHeartbeatType DEF Next, Internal
<1>3. QED
  BY <1>1, <1>2

LEMMA TypeInvariance == Spec => []TypeInv
  BY InitType, TypeInvNext, PTL DEF Spec

\* The values every variable can take, whatever fails and whoever crashes: in
\* particular no handler writes outside the log or adopts a padding entry.
THEOREM TypeCorrect == Spec => []TypeOK
  BY TypeInvariance, TypeInvImplies, PTL

-----------------------------------------------------------------------------
(***************************************************************************)
(* Promises. PromisesKept is about memory and file at once, and a restart  *)
(* puts the file in the place of memory: the file must never be ahead. The *)
(* ballots a server proposed under are kept like the ones it promised,     *)
(* although nobody calls SetNpromised for the ballot of the leader flag:   *)
(* the save of the proposed entry writes it as well.                       *)
(***************************************************************************)
FileBehind ==
  \A s \in Server : AtLeast(ps[s].npromised, disk[s].npromised)

OwnVotesKept ==
  \A v \in votes : v.by = v.srv => AtLeast(disk[v.srv].npromised, v.ballot)

PromiseInv == PromisesKept /\ FileBehind /\ OwnVotesKept

LEMMA HistoryAt ==
  ASSUME HistoryOK
  PROVE  /\ \A g \in granted : g.srv \in Server /\ g.ballot \in Ballot
         /\ \A v \in votes : v.srv \in Server /\ v.ballot \in Ballot
  BY DEF HistoryOK, Votes

LEMMA InitPromises == Init => PromiseInv
<1> SUFFICES ASSUME Init PROVE FileBehind
  BY DEF Init, PromiseInv, PromisesKept, OwnVotesKept
<1>1. ASSUME NEW s \in Server
      PROVE  AtLeast(ps[s].npromised, disk[s].npromised)
  <2>1. ps[s] = Loaded(s, FreshState(s), s \in LeaderRole)
        /\ disk[s] = FreshState(s)
    BY DEF Init
  <2>2. FreshState(s) \in PersistentState
        /\ FreshState(s).npromised = NewBallotNumber(0, s)
    BY FreshStateType DEF FreshState
  <2>3. NewBallotNumber(0, s) \in Ballot /\ NewBallotNumber(1, s) \in Ballot
    BY BallotTypes
  <2>4. AtLeast(NewBallotNumber(1, s), NewBallotNumber(0, s))
        /\ AtLeast(NewBallotNumber(0, s), NewBallotNumber(0, s))
    BY <2>3, BallotOrder, NAssumption DEF NewBallotNumber, Server
  <2>5. CASE s \in LeaderRole
    BY <2>1, <2>2, <2>3, <2>4, <2>5, SetNpromisedType DEF Loaded
  <2>6. CASE s \notin LeaderRole
    BY <2>1, <2>2, <2>4, <2>6 DEF Loaded
  <2>7. QED
    BY <2>5, <2>6
<1>2. QED
  BY <1>1 DEF FileBehind

\* Memory and file after a step of server s that does not lower its promise:
\* what holds of the old promises holds of the new ones.
StorageGrows(s) ==
  /\ \A t \in Server \ {s} : ps'[t] = ps[t] /\ disk'[t] = disk[t]
  /\ AtLeast(ps'[s].npromised, ps[s].npromised)
  /\ \/ disk'[s].npromised = disk[s].npromised
     \/ disk'[s].npromised = ps'[s].npromised

LEMMA GrowthKeepsPromises ==
  ASSUME TypeInv, TypeInv', PromiseInv, NEW s \in Server, StorageGrows(s)
  PROVE  /\ FileBehind'
         /\ \A g \in granted : /\ AtLeast(ps'[g.srv].npromised, g.ballot)
                               /\ AtLeast(disk'[g.srv].npromised, g.ballot)
         /\ \A v \in votes : v.by = v.srv =>
              AtLeast(disk'[v.srv].npromised, v.ballot)
<1>1. /\ ps[s].npromised \in Ballot /\ ps'[s].npromised \in Ballot
      /\ disk[s].npromised \in Ballot /\ disk'[s].npromised \in Ballot
  BY StorageAt DEF TypeInv, StorageOK, PersistentState
<1>2. AtLeast(ps[s].npromised, disk[s].npromised)
  BY DEF PromiseInv, FileBehind
<1>3. /\ AtLeast(ps'[s].npromised, disk'[s].npromised)
      /\ AtLeast(disk'[s].npromised, disk[s].npromised)
      /\ AtLeast(ps'[s].npromised, disk[s].npromised)
  BY <1>1, <1>2, BallotTransitive DEF StorageGrows
<1>4. FileBehind'
  BY <1>3 DEF StorageGrows, PromiseInv, FileBehind
<1>5. ASSUME NEW b \in Ballot, AtLeast(disk[s].npromised, b)
      PROVE  AtLeast(ps'[s].npromised, b) /\ AtLeast(disk'[s].npromised, b)
  BY <1>1, <1>3, <1>5, BallotTransitive
<1>6. QED
  BY <1>4, <1>5, HistoryAt
     DEF StorageGrows, TypeInv, PromiseInv, PromisesKept, OwnVotesKept

\* Saving, or failing to save, a state that promises at least as much.
LEMMA SaveGrows ==
  ASSUME TypeInv, NEW s \in Server, NEW p \in PersistentState,
         AtLeast(p.npromised, ps[s].npromised), Save(s, p) \/ SaveFails(s, p)
  PROVE  /\ StorageGrows(s)
         /\ ps'[s] = p
         /\ Save(s, p) => disk'[s] = p
  BY DEF StorageGrows, Save, SaveFails, TypeInv, StorageOK

\* A promise given in a step that saves the ballot promised.
LEMMA GrantKeepsPromises ==
  ASSUME TypeInv, TypeInv', PromiseInv, NEW s \in Server, NEW b \in Ballot,
         GreaterThan(b, ps[s].npromised), UNCHANGED votes,
         \/ /\ Save(s, SetNpromised(ps[s], b))
            /\ granted' = granted \cup {[srv |-> s, ballot |-> b]}
         \/ /\ SaveFails(s, SetNpromised(ps[s], b))
            /\ granted' = granted
  PROVE  PromiseInv'
<1> DEFINE p == SetNpromised(ps[s], b)
<1>1. ps[s] \in PersistentState /\ ps[s].npromised \in Ballot
  BY StorageAt DEF TypeInv
<1>2. p \in PersistentState /\ p.npromised = b
  BY <1>1, SetNpromisedType
<1>3. AtLeast(p.npromised, ps[s].npromised) /\ AtLeast(b, b)
  BY <1>1, <1>2, BallotTransitive
<1> HIDE DEF p
<1>4. StorageGrows(s) /\ ps'[s] = p /\ (Save(s, p) => disk'[s] = p)
  BY <1>2, <1>3, SaveGrows DEF p
<1>5. /\ FileBehind'
      /\ \A g \in granted : /\ AtLeast(ps'[g.srv].npromised, g.ballot)
                            /\ AtLeast(disk'[g.srv].npromised, g.ballot)
      /\ \A v \in votes : v.by = v.srv =>
           AtLeast(disk'[v.srv].npromised, v.ballot)
  BY <1>4, GrowthKeepsPromises
<1>6. PromisesKept'
  <2>1. CASE granted' = granted
    BY <1>5, <2>1 DEF PromisesKept
  <2>2. CASE Save(s, p) /\ granted' = granted \cup {[srv |-> s, ballot |-> b]}
    BY <1>2, <1>3, <1>4, <1>5, <2>2 DEF PromisesKept
  <2>3. QED
    BY <2>1, <2>2 DEF p
<1>7. OwnVotesKept'
  BY <1>5 DEF OwnVotesKept
<1>8. QED
  BY <1>5, <1>6, <1>7 DEF PromiseInv

\* A step of s that leaves promises alone and accepts at most vote v: its own
\* votes must be covered by the file.
LEMMA VoteKeepsPromises ==
  ASSUME TypeInv, TypeInv', PromiseInv, NEW s \in Server, StorageGrows(s),
         UNCHANGED granted, NEW v,
         \/ votes' = votes
         \/ /\ votes' = votes \cup {v}
            /\ v.by = v.srv => AtLeast(disk'[v.srv].npromised, v.ballot)
  PROVE  PromiseInv'
<1>1. /\ FileBehind'
      /\ \A g \in granted : /\ AtLeast(ps'[g.srv].npromised, g.ballot)
                            /\ AtLeast(disk'[g.srv].npromised, g.ballot)
      /\ \A w \in votes : w.by = w.srv =>
           AtLeast(disk'[w.srv].npromised, w.ballot)
  BY GrowthKeepsPromises
<1>2. PromisesKept' /\ OwnVotesKept'
  BY <1>1 DEF PromisesKept, OwnVotesKept
<1>3. QED
  BY <1>1, <1>2 DEF PromiseInv

LEMMA NextBallotGreater ==
  ASSUME StorageOK, NEW s \in Server
  PROVE  GreaterThan(NextBallot(s), ps[s].npromised)
<1>1. ps[s].npromised \in Ballot /\ NextBallot(s) \in Ballot
  BY StorageAt, NextBallotType
<1>2. NextBallot(s).term = ps[s].npromised.term + 1
  BY DEF NextBallot, NewBallotNumber
<1>3. QED
  BY <1>1, <1>2, NextTermGreater

LEMMA StartElectionPromises ==
  ASSUME TypeInv, TypeInv', PromiseInv, NEW s \in Server, StartElection(s)
  PROVE  PromiseInv'
<1> DEFINE b == NextBallot(s)
<1>1. b \in Ballot /\ GreaterThan(b, ps[s].npromised)
  BY NextBallotType, NextBallotGreater DEF TypeInv
<1>2. UNCHANGED votes
  BY DEF StartElection
<1>3. \/ /\ Save(s, SetNpromised(ps[s], b))
         /\ granted' = granted \cup {[srv |-> s, ballot |-> b]}
      \/ /\ SaveFails(s, SetNpromised(ps[s], b))
         /\ granted' = granted
  BY DEF StartElection
<1> HIDE DEF b
<1>4. QED
  BY <1>1, <1>2, <1>3, GrantKeepsPromises

LEMMA HandlePreparePromises ==
  ASSUME TypeInv, TypeInv', PromiseInv, NEW m \in msgs, HandlePrepare(m)
  PROVE  PromiseInv'
<1>1. m.dst \in Server /\ m.ballot \in Ballot
  BY PrepareType DEF HandlePrepare, TypeInv
<1>2. GreaterThan(m.ballot, ps[m.dst].npromised) /\ UNCHANGED votes
  BY DEF HandlePrepare
<1>3. \/ /\ Save(m.dst, SetNpromised(ps[m.dst], m.ballot))
         /\ granted' = granted \cup {[srv |-> m.dst, ballot |-> m.ballot]}
      \/ /\ SaveFails(m.dst, SetNpromised(ps[m.dst], m.ballot))
         /\ granted' = granted
  BY DEF HandlePrepare
<1>4. QED
  BY <1>1, <1>2, <1>3, GrantKeepsPromises

\* A step that touches neither storage nor history of promises and votes.
LEMMA QuietPromises ==
  ASSUME PromiseInv, UNCHANGED <<storage, granted, votes>>
  PROVE  PromiseInv'
  BY DEF PromiseInv, PromisesKept, FileBehind, OwnVotesKept, storage

LEMMA ReceivePromisePromises ==
  ASSUME TypeInv, TypeInv', PromiseInv, NEW m \in msgs, ReceivePromise(m)
  PROVE  PromiseInv'
<1> DEFINE s == m.dst
           adopted == AdoptEntries(ps[s], m.accepted)
<1>1. s \in Server /\ Reportable(m.accepted)
  BY PromiseType DEF ReceivePromise, TypeInv
<1>2. ps[s] \in PersistentState /\ ps[s].npromised \in Ballot
  BY <1>1, StorageAt DEF TypeInv
<1>3. adopted \in PersistentState /\ adopted.npromised = ps[s].npromised
  BY <1>1, <1>2, AdoptEntriesKeeps
<1>4. UNCHANGED <<granted, votes>>
  BY DEF ReceivePromise, history
<1>5. UNCHANGED storage \/ Save(s, adopted) \/ SaveFails(s, adopted)
  BY DEF ReceivePromise
<1> HIDE DEF adopted
<1>6. CASE UNCHANGED storage
  BY <1>4, <1>6, QuietPromises
<1>7. CASE Save(s, adopted) \/ SaveFails(s, adopted)
  <2>1. AtLeast(adopted.npromised, ps[s].npromised)
    BY <1>2, <1>3, BallotTransitive
  <2>2. StorageGrows(s)
    BY <1>1, <1>3, <1>7, <2>1, SaveGrows
  <2>3. QED
    BY <1>1, <1>4, <2>2, VoteKeepsPromises
<1>8. QED
  BY <1>5, <1>6, <1>7

LEMMA ProposeEntryPromises ==
  ASSUME TypeInv, TypeInv', PromiseInv, NEW p \in props, ProposeEntry(p)
  PROVE  PromiseInv'
<1> DEFINE s == p.srv
           entry == EntryOf(p)
           appended == AppendLog(ps[s], entry)
           own == [srv |-> s, by |-> s, id |-> p.id, ballot |-> entry.ballot,
                   index |-> entry.index]
<1>1. s \in Server /\ entry \in LogEntry
      /\ entry.ballot = ps[s].npromised
  BY ProposalType, EntryOfType DEF TypeInv
<1>2. ps[s] \in PersistentState /\ ps[s].npromised \in Ballot
  BY <1>1, StorageAt DEF TypeInv
<1>3. appended \in PersistentState /\ appended.npromised = ps[s].npromised
  BY <1>1, <1>2, AppendLogKeeps
<1>4. \/ UNCHANGED <<storage, votes>>
      \/ Save(s, appended) /\ votes' = votes \cup {own}
      \/ SaveFails(s, appended) /\ UNCHANGED votes
  BY DEF ProposeEntry
<1>5. UNCHANGED granted
  BY DEF ProposeEntry
<1>6. own.srv = s /\ own.ballot = ps[s].npromised
  BY <1>1
<1> HIDE DEF appended, own
<1>7. CASE UNCHANGED <<storage, votes>>
  BY <1>5, <1>7, QuietPromises
<1>8. CASE \/ Save(s, appended) /\ votes' = votes \cup {own}
           \/ SaveFails(s, appended) /\ UNCHANGED votes
  <2>1. AtLeast(ps[s].npromised, ps[s].npromised)
    BY <1>2, BallotTransitive
  <2>2. StorageGrows(s) /\ (Save(s, appended) => disk'[s] = appended)
    BY <1>1, <1>3, <1>8, <2>1, SaveGrows
  <2>3. Save(s, appended) => AtLeast(disk'[own.srv].npromised, own.ballot)
    BY <1>3, <1>6, <2>1, <2>2
  <2>4. QED
    BY <1>1, <1>5, <1>8, <2>2, <2>3, VoteKeepsPromises
<1>9. QED
  BY <1>4, <1>7, <1>8

LEMMA HandleAcceptPromises ==
  ASSUME TypeInv, TypeInv', PromiseInv, NEW m \in msgs, HandleAccept(m)
  PROVE  PromiseInv'
<1> DEFINE s == m.dst
           written == UpdateLog(ps[s], m.entry.index, m.entry)
           accepted == SetHighestAcceptedBallot(written, m.entry.index,
                                                m.entry.ballot)
           vote == [srv |-> s, by |-> m.src, id |-> m.id,
                    ballot |-> m.entry.ballot, index |-> m.entry.index]
<1>1. /\ s \in Server /\ m.src # s /\ m.entry \in LogEntry
      /\ m.entry.index \in Nat /\ m.entry.ballot \in Ballot
  BY AcceptType DEF HandleAccept, TypeInv
<1>2. ps[s] \in PersistentState /\ ps[s].npromised \in Ballot
  BY <1>1, StorageAt DEF TypeInv
<1>3. written \in PersistentState /\ written.npromised = ps[s].npromised
  BY <1>1, <1>2, UpdateLogKeeps
<1> HIDE DEF written
<1>4. accepted \in PersistentState /\ accepted.npromised = ps[s].npromised
  <2>1. /\ SetHighestAcceptedBallot(written, m.entry.index, m.entry.ballot)
             \in PersistentState
        /\ SetHighestAcceptedBallot(written, m.entry.index,
                                    m.entry.ballot).npromised
             = written.npromised
    BY <1>1, <1>3, SetHighestKeeps, ZenonT(60)
  <2>2. QED
    BY <1>3, <2>1
<1> HIDE DEF accepted
<1>5. AtLeast(ps[s].npromised, ps[s].npromised)
  BY <1>2, BallotTransitive
<1>6. \/ Save(s, accepted) \/ SaveFails(s, written)
      \/ /\ ps' = [ps EXCEPT ![s] = accepted]
         /\ disk' = [disk EXCEPT ![s] = written]
  BY DEF HandleAccept, accepted, written
<1>7. StorageGrows(s)
  <2>1. CASE Save(s, accepted) \/ SaveFails(s, written)
    BY <1>1, <1>3, <1>4, <1>5, <2>1, SaveGrows
  <2>2. CASE /\ ps' = [ps EXCEPT ![s] = accepted]
             /\ disk' = [disk EXCEPT ![s] = written]
    BY <1>1, <1>3, <1>4, <1>5, <2>2 DEF StorageGrows, TypeInv, StorageOK
  <2>3. QED
    BY <1>6, <2>1, <2>2
<1>8. /\ UNCHANGED granted
      /\ votes' = votes \/ votes' = votes \cup {vote}
  BY DEF HandleAccept
<1>9. vote.by # vote.srv
  BY <1>1
<1> HIDE DEF vote
<1>10. QED
  BY <1>1, <1>7, <1>8, <1>9, VoteKeepsPromises

\* A restart without the leader flag puts the file in the place of memory.
LEMMA RestartPromises ==
  ASSUME RestartRole = {}, TypeInv, TypeInv', PromiseInv,
         NEW s \in Server, Restart(s)
  PROVE  PromiseInv'
<1>1. /\ ps' = [ps EXCEPT ![s] = disk[s]]
      /\ UNCHANGED <<disk, granted, votes>>
  BY DEF Restart, Loaded, history
<1>2. /\ ps'[s] = disk[s]
      /\ \A t \in Server \ {s} : ps'[t] = ps[t]
  BY <1>1 DEF TypeInv, StorageOK
<1>3. disk[s].npromised \in Ballot
  BY StorageAt DEF TypeInv
<1>4. AtLeast(disk[s].npromised, disk[s].npromised)
  BY <1>3, BallotTransitive
<1>5. FileBehind'
  BY <1>1, <1>2, <1>4 DEF PromiseInv, FileBehind
<1>6. PromisesKept'
  BY <1>1, <1>2, HistoryAt DEF TypeInv, PromiseInv, PromisesKept
<1>7. OwnVotesKept'
  BY <1>1 DEF PromiseInv, OwnVotesKept
<1>8. QED
  BY <1>5, <1>6, <1>7 DEF PromiseInv

\* The actions that do not reach storage.
LEMMA OtherPromises ==
  ASSUME PromiseInv,
         \/ UNCHANGED vars
         \/ \E s \in Server :
              \/ FinishElection(s) \/ SendHeartbeats(s)
              \/ InitiateStateTransfer(s) \/ FinishHeartbeats(s)
              \/ ApplyCommittedEntries(s)
              \/ \E request \in Request : ReadLogLength(s, request)
         \/ \E p \in props : ProposeNoOp(p) \/ FinishProposal(p)
         \/ \E m \in msgs : HandleHeartbeat(m)
  PROVE  PromiseInv'
<1>1. UNCHANGED <<storage, granted, votes>>
  BY DEF vars, FinishElection, SendHeartbeats, InitiateStateTransfer,
     FinishHeartbeats, ApplyCommittedEntries, ReadLogLength, ProposeNoOp,
     FinishProposal, HandleHeartbeat, history
<1>2. QED
  BY <1>1, QuietPromises

LEMMA PromiseInvariance ==
  ASSUME RestartRole = {}
  PROVE  Spec => [](TypeInv /\ PromiseInv)
<1>1. ASSUME TypeInv, TypeInv', PromiseInv, [Next]_vars
      PROVE  PromiseInv'
  <2>1. CASE UNCHANGED vars
    BY <1>1, <2>1, OtherPromises
  <2>2. CASE Next
    BY <1>1, <2>2, StartElectionPromises, HandlePreparePromises,
       ReceivePromisePromises, ProposeEntryPromises, HandleAcceptPromises,
       RestartPromises, OtherPromises DEF Next, Internal
  <2>3. QED
    BY <1>1, <2>1, <2>2
<1>2. QED
  BY InitPromises, TypeInvariance, <1>1, PTL DEF Spec

\* A server that is never restarted with the leader flag keeps every promise
\* it gave, in memory and in its file, through failed saves and crashes.
THEOREM PromisesAreKept ==
  ASSUME RestartRole = {}
  PROVE  Spec => []PromisesKept
<1>1. PromiseInv => PromisesKept
  BY DEF PromiseInv
<1>2. QED
  BY <1>1, PromiseInvariance, PTL

-----------------------------------------------------------------------------
(***************************************************************************)
(* The acceptors' contract. A step gives at most one promise, above what   *)
(* its server's memory holds, or casts at most one vote, not below it; and *)
(* memory covers every promise given before.                               *)
(***************************************************************************)
Grants(g) ==
  /\ granted' = granted \cup {g} /\ UNCHANGED votes
  /\ g.srv \in Server /\ g.ballot \in Ballot
  /\ GreaterThan(g.ballot, ps[g.srv].npromised)

CastsVote(v) ==
  /\ votes' = votes \cup {v} /\ UNCHANGED granted
  /\ v.srv \in Server /\ v.ballot \in Ballot
  /\ AtLeast(v.ballot, ps[v.srv].npromised)

AcceptorStep ==
  \/ UNCHANGED <<granted, votes>>
  \/ \E g \in granted' : Grants(g)
  \/ \E v \in votes' : CastsVote(v)

LEMMA GrantSteps ==
  ASSUME TypeInv,
         \/ \E s \in Server : StartElection(s)
         \/ \E m \in msgs : HandlePrepare(m)
  PROVE  AcceptorStep
<1>1. ASSUME NEW s \in Server, StartElection(s)
      PROVE  AcceptorStep
  <2> DEFINE g == [srv |-> s, ballot |-> NextBallot(s)]
  <2>1. g.ballot \in Ballot /\ GreaterThan(g.ballot, ps[g.srv].npromised)
    BY NextBallotType, NextBallotGreater DEF TypeInv
  <2>2. /\ UNCHANGED votes
        /\ granted' = granted \/ granted' = granted \cup {g}
    BY <1>1 DEF StartElection
  <2>3. g.srv = s
    OBVIOUS
  <2> HIDE DEF g
  <2>4. QED
    BY <2>1, <2>2, <2>3 DEF AcceptorStep, Grants
<1>2. ASSUME NEW m \in msgs, HandlePrepare(m)
      PROVE  AcceptorStep
  <2> DEFINE g == [srv |-> m.dst, ballot |-> m.ballot]
  <2>1. m.dst \in Server /\ m.ballot \in Ballot
    BY <1>2, PrepareType DEF HandlePrepare, TypeInv
  <2>2. GreaterThan(m.ballot, ps[m.dst].npromised)
    BY <1>2 DEF HandlePrepare
  <2>3. /\ UNCHANGED votes
        /\ granted' = granted \/ granted' = granted \cup {g}
    BY <1>2 DEF HandlePrepare
  <2>4. g.srv = m.dst /\ g.ballot = m.ballot
    OBVIOUS
  <2> HIDE DEF g
  <2>5. QED
    BY <2>1, <2>2, <2>3, <2>4 DEF AcceptorStep, Grants
<1>3. QED
  BY <1>1, <1>2

LEMMA VoteSteps ==
  ASSUME TypeInv,
         \/ \E p \in props : ProposeEntry(p)
         \/ \E m \in msgs : HandleAccept(m)
  PROVE  AcceptorStep
<1>1. ASSUME NEW p \in props, ProposeEntry(p)
      PROVE  AcceptorStep
  <2> DEFINE v == [srv |-> p.srv, by |-> p.srv, id |-> p.id,
                   ballot |-> EntryOf(p).ballot, index |-> EntryOf(p).index]
  <2>1. p.srv \in Server /\ v.ballot = ps[p.srv].npromised
    BY ProposalType, EntryOfType DEF TypeInv
  <2>2. v.ballot \in Ballot /\ AtLeast(v.ballot, v.ballot)
    BY <2>1, StorageAt, BallotTransitive DEF TypeInv
  <2>3. /\ UNCHANGED granted
        /\ votes' = votes \/ votes' = votes \cup {v}
    BY <1>1 DEF ProposeEntry
  <2>4. v.srv = p.srv
    OBVIOUS
  <2> HIDE DEF v
  <2>5. QED
    BY <2>1, <2>2, <2>3, <2>4 DEF AcceptorStep, CastsVote
<1>2. ASSUME NEW m \in msgs, HandleAccept(m)
      PROVE  AcceptorStep
  <2> DEFINE v == [srv |-> m.dst, by |-> m.src, id |-> m.id,
                   ballot |-> m.entry.ballot, index |-> m.entry.index]
  <2>1. m.dst \in Server /\ m.entry.ballot \in Ballot
    BY <1>2, AcceptType DEF HandleAccept, TypeInv
  <2>2. AtLeast(m.entry.ballot, ps[m.dst].npromised)
    BY <1>2 DEF HandleAccept, MayFollow
  <2>3. /\ UNCHANGED granted
        /\ votes' = votes \/ votes' = votes \cup {v}
    BY <1>2 DEF HandleAccept
  <2>4. v.srv = m.dst /\ v.ballot = m.entry.ballot
    OBVIOUS
  <2> HIDE DEF v
  <2>5. QED
    BY <2>1, <2>2, <2>3, <2>4 DEF AcceptorStep, CastsVote
<1>3. QED
  BY <1>1, <1>2

LEMMA EveryAcceptorStep ==
  ASSUME TypeInv, [Next]_vars
  PROVE  AcceptorStep
<1>1. CASE \/ UNCHANGED vars
           \/ \E s \in Server :
                \/ FinishElection(s) \/ SendHeartbeats(s)
                \/ InitiateStateTransfer(s) \/ FinishHeartbeats(s)
                \/ ApplyCommittedEntries(s) \/ Restart(s)
                \/ \E request \in Request : ReadLogLength(s, request)
           \/ \E p \in props : ProposeNoOp(p) \/ FinishProposal(p)
           \/ \E m \in msgs : ReceivePromise(m) \/ HandleHeartbeat(m)
  BY <1>1 DEF AcceptorStep, vars, FinishElection, SendHeartbeats,
     InitiateStateTransfer, FinishHeartbeats, ApplyCommittedEntries, Restart,
     ReadLogLength, ProposeNoOp, FinishProposal, ReceivePromise,
     HandleHeartbeat, history
<1>2. QED
  BY <1>1, GrantSteps, VoteSteps DEF Next, Internal

\* The instance's comparisons are this module's.
LEMMA SameOrder ==
  ASSUME NEW a, NEW b
  PROVE  /\ A!GreaterThan(a, b) = GreaterThan(a, b)
         /\ A!AtLeast(a, b) = AtLeast(a, b)
  BY DEF A!GreaterThan, A!AtLeast, A!Compare, GreaterThan, AtLeast, Compare

LEMMA ContractStep ==
  ASSUME TypeInv, PromiseInv, AcceptorStep
  PROVE  [A!Next]_<<granted, votes>>
<1>1. \A g \in granted : /\ g.srv \in Server /\ g.ballot \in Ballot
                         /\ AtLeast(ps[g.srv].npromised, g.ballot)
  BY HistoryAt DEF TypeInv, PromiseInv, PromisesKept
<1>2. \A s \in Server : ps[s].npromised \in Ballot
  BY StorageAt DEF TypeInv
<1>3. ASSUME NEW g \in granted', Grants(g)
      PROVE  A!Next
  <2>1. ASSUME NEW h \in granted, h.srv = g.srv
        PROVE  GreaterThan(g.ballot, h.ballot)
    <3>1. /\ g.ballot \in Ballot /\ h.ballot \in Ballot
          /\ GreaterThan(g.ballot, ps[g.srv].npromised)
          /\ AtLeast(ps[g.srv].npromised, h.ballot)
          /\ ps[g.srv].npromised \in Ballot
      BY <1>1, <1>2, <1>3, <2>1 DEF Grants
    <3>2. QED
      BY <3>1, BallotTransitive
  <2>2. A!Promise(g)
    BY <1>3, <2>1, SameOrder DEF A!Promise, Grants
  <2>3. QED
    BY <2>2 DEF A!Next
<1>4. ASSUME NEW v \in votes', CastsVote(v)
      PROVE  A!Next
  <2>1. ASSUME NEW g \in granted, g.srv = v.srv
        PROVE  AtLeast(v.ballot, g.ballot)
    <3>1. /\ v.ballot \in Ballot /\ g.ballot \in Ballot
          /\ AtLeast(v.ballot, ps[v.srv].npromised)
          /\ AtLeast(ps[v.srv].npromised, g.ballot)
          /\ ps[v.srv].npromised \in Ballot
      BY <1>1, <1>2, <1>4, <2>1 DEF CastsVote
    <3>2. QED
      BY <3>1, BallotTransitive
  <2>2. A!Cast(v)
    BY <1>4, <2>1, SameOrder DEF A!Cast, CastsVote
  <2>3. QED
    BY <2>2 DEF A!Next
<1>5. QED
  BY <1>3, <1>4 DEF AcceptorStep

\* The servers together implement AcceptorContract: no server gives the same
\* or a lower promise twice, or accepts below a promise it gave, even across
\* a crash between any two saves.
THEOREM ImplementsContract ==
  ASSUME RestartRole = {}
  PROVE  Spec => Contract
<1>1. Init => A!Init
  BY DEF Init, A!Init
<1>2. ASSUME TypeInv, PromiseInv, [Next]_vars
      PROVE  [A!Next]_<<granted, votes>>
  BY <1>2, EveryAcceptorStep, ContractStep
<1>3. QED
  BY <1>1, <1>2, PromiseInvariance, PTL DEF Spec, Contract, A!Spec

\* A candidacy begins with StartElection only, and with a ballot whose term is
\* above the one promised.
LEMMA OnlyStartCampaigns ==
  ASSUME TypeInv, Next, NEW s \in Server,
         round[s].kind # "election", round'[s].kind = "election"
  PROVE  round'[s].ballot = NextBallot(s)
<1> round \in [Server -> Rounds] /\ msgs \subseteq Messages
  BY DEF TypeInv, RoundOK, MsgsOK
<1>1. ASSUME NEW t \in Server, StartElection(t)
      PROVE  round'[s].ballot = NextBallot(s)
  <2>1. CASE round' = [round EXCEPT ![t] =
                         [IdleRound EXCEPT !.kind = "election",
                                           !.ballot = NextBallot(t)]]
    <3>1. s = t
      BY <2>1
    <3>2. round'[s] = [IdleRound EXCEPT !.kind = "election",
                                        !.ballot = NextBallot(s)]
      BY <2>1, <3>1
    <3>3. QED
      BY <3>2 DEF IdleRound
  <2>2. QED
    BY <1>1, <2>1 DEF StartElection
<1>2. ASSUME NEW t \in Server,
             FinishElection(t) \/ FinishHeartbeats(t) \/ Restart(t)
      PROVE  FALSE
  BY <1>2 DEF FinishElection, FinishHeartbeats, Restart, IdleRound
<1>3. ASSUME NEW t \in Server, SendHeartbeats(t)
      PROVE  FALSE
  BY <1>3 DEF SendHeartbeats, IdleRound
<1>4. ASSUME NEW m \in msgs, ReceivePromise(m)
      PROVE  FALSE
  BY <1>4 DEF ReceivePromise
<1>5. ASSUME NEW m \in msgs, HandleHeartbeat(m)
      PROVE  FALSE
  <2>1. m.src \in Server /\ round[m.src] \in Rounds
    BY <1>5 DEF HandleHeartbeat, Messages
  <2>2. round'[m.src].kind = round[m.src].kind
    BY <1>5, <2>1 DEF HandleHeartbeat, CountHeartbeat, Rounds
  <2>3. s # m.src => round'[s] = round[s]
    BY <1>5, <2>1 DEF HandleHeartbeat, CountHeartbeat
  <2>4. QED
    BY <2>2, <2>3
<1>6. ASSUME UNCHANGED round
      PROVE  FALSE
  BY <1>6
<1>7. ASSUME \/ \E t \in Server :
                  \/ InitiateStateTransfer(t) \/ ApplyCommittedEntries(t)
                  \/ \E request \in Request : ReadLogLength(t, request)
             \/ \E p \in props :
                  ProposeNoOp(p) \/ ProposeEntry(p) \/ FinishProposal(p)
             \/ \E m \in msgs : HandlePrepare(m) \/ HandleAccept(m)
      PROVE  UNCHANGED round
  BY <1>7 DEF InitiateStateTransfer, ApplyCommittedEntries, ReadLogLength,
     ProposeNoOp, ProposeEntry, FinishProposal, HandlePrepare, HandleAccept
<1>8. QED
  BY <1>1, <1>2, <1>3, <1>4, <1>5, <1>6, <1>7 DEF Next, Internal

\* A candidate's ballot is above every ballot its server proposed under
\* before, in this life or an earlier one.
THEOREM CandidateBallotIsFresh ==
  ASSUME RestartRole = {}
  PROVE  Spec => NewBallotFresh
<1> DEFINE Fresh ==
      \A s \in Server :
        round[s].kind # "election" /\ round'[s].kind = "election" =>
          \A v \in votes : v.srv = s /\ v.by = s =>
            GreaterThan(round'[s].ballot, v.ballot)
<1>1. ASSUME TypeInv, PromiseInv, [Next]_vars
      PROVE  Fresh
  <2>1. SUFFICES ASSUME NEW s \in Server, round[s].kind # "election",
                        round'[s].kind = "election",
                        NEW v \in votes, v.srv = s, v.by = s
                 PROVE  GreaterThan(round'[s].ballot, v.ballot)
    OBVIOUS
  <2>2. CASE Next
    <3>1. round'[s].ballot = NextBallot(s)
      BY <1>1, <2>1, <2>2, OnlyStartCampaigns
    <3>2. /\ ps[s].npromised \in Ballot /\ disk[s].npromised \in Ballot
          /\ v.ballot \in Ballot
          /\ AtLeast(ps[s].npromised, disk[s].npromised)
          /\ AtLeast(disk[s].npromised, v.ballot)
      BY <1>1, <2>1, StorageAt, HistoryAt
         DEF TypeInv, PromiseInv, FileBehind, OwnVotesKept
    <3>3. /\ NextBallot(s) \in Ballot
          /\ GreaterThan(NextBallot(s), ps[s].npromised)
      BY <3>2, NextTermGreater DEF NextBallot, NewBallotNumber, Ballot
    <3>4. QED
      BY <3>1, <3>2, <3>3, BallotTransitive
  <2>3. CASE UNCHANGED vars
    BY <2>1, <2>3 DEF vars
  <2>4. QED
    BY <1>1, <2>2, <2>3
<1>2. QED
  BY <1>1, PromiseInvariance, PTL DEF Spec, NewBallotFresh

-----------------------------------------------------------------------------
(***************************************************************************)
(* Acceptance is durable. SlotsFilled already says what a marked slot      *)
(* holds, so what is left to show is that no mark is ever lost: neither in *)
(* memory, from which the next save is taken, nor in the file.             *)
(***************************************************************************)
Marked(p, index) == \E h \in p.highest : h.index = index

MarksKept ==
  \A v \in votes : v.by # v.srv =>
    Marked(ps[v.srv], v.index) /\ Marked(disk[v.srv], v.index)

\* A step of server s that loses none of the marks of its memory, and lets
\* its file lag behind at most.
MarksGrow(s) ==
  /\ \A t \in Server \ {s} : ps'[t] = ps[t] /\ disk'[t] = disk[t]
  /\ \A i \in Nat : Marked(ps[s], i) => Marked(ps'[s], i)
  /\ \/ disk'[s].highest = disk[s].highest
     \/ disk'[s].highest = ps[s].highest
     \/ disk'[s].highest = ps'[s].highest

LEMMA SaveMarks ==
  ASSUME TypeInv, NEW s \in Server, NEW p \in PersistentState,
         \A i \in Nat : Marked(ps[s], i) => Marked(p, i),
         Save(s, p) \/ SaveFails(s, p)
  PROVE  MarksGrow(s) /\ (Save(s, p) => ps'[s] = p /\ disk'[s] = p)
  BY DEF MarksGrow, Save, SaveFails, TypeInv, StorageOK

LEMMA GrowthKeepsMarks ==
  ASSUME TypeInv, MarksKept, NEW s \in Server, MarksGrow(s), NEW v,
         \/ votes' = votes
         \/ /\ votes' = votes \cup {v}
            /\ v.by # v.srv => /\ Marked(ps'[v.srv], v.index)
                               /\ Marked(disk'[v.srv], v.index)
  PROVE  MarksKept'
<1>1. ASSUME NEW w \in votes, w.by # w.srv
      PROVE  Marked(ps'[w.srv], w.index) /\ Marked(disk'[w.srv], w.index)
  <2>1. /\ w.srv \in Server /\ w.index \in Nat
        /\ Marked(ps[w.srv], w.index) /\ Marked(disk[w.srv], w.index)
    BY <1>1 DEF MarksKept, TypeInv, HistoryOK, Votes
  <2>2. CASE w.srv = s
    BY <2>1, <2>2 DEF MarksGrow, Marked
  <2>3. CASE w.srv # s
    BY <2>1, <2>3 DEF MarksGrow
  <2>4. QED
    BY <2>2, <2>3
<1>2. QED
  BY <1>1 DEF MarksKept

LEMMA PromiseMarks ==
  ASSUME TypeInv, MarksKept,
         \/ \E s \in Server : StartElection(s)
         \/ \E m \in msgs : HandlePrepare(m)
  PROVE  MarksKept'
<1>1. UNCHANGED votes
  BY DEF StartElection, HandlePrepare
<1>2. PICK s \in Server, b \in Ballot :
        \/ Save(s, SetNpromised(ps[s], b))
        \/ SaveFails(s, SetNpromised(ps[s], b))
  BY NextBallotType, PrepareType DEF StartElection, HandlePrepare, TypeInv
<1>3. /\ SetNpromised(ps[s], b) \in PersistentState
      /\ SetNpromised(ps[s], b).highest = ps[s].highest
  BY StorageAt, SetNpromisedType DEF TypeInv
<1>4. MarksGrow(s)
  BY <1>2, <1>3, SaveMarks DEF Marked
<1>5. QED
  BY <1>1, <1>4, GrowthKeepsMarks

LEMMA LogMarks ==
  ASSUME TypeInv, MarksKept,
         \/ \E m \in msgs : ReceivePromise(m)
         \/ \E p \in props : ProposeEntry(p)
  PROVE  MarksKept'
<1>1. ASSUME NEW m \in msgs, ReceivePromise(m)
      PROVE  MarksKept'
  <2> DEFINE q == AdoptEntries(ps[m.dst], m.accepted)
  <2>1. m.dst \in Server /\ Reportable(m.accepted)
    BY <1>1, PromiseType DEF ReceivePromise, TypeInv
  <2>2. q \in PersistentState /\ q.highest = ps[m.dst].highest
    BY <2>1, StorageAt, AdoptEntriesKeeps DEF TypeInv
  <2>3. /\ UNCHANGED votes
        /\ UNCHANGED storage \/ Save(m.dst, q) \/ SaveFails(m.dst, q)
    BY <1>1 DEF ReceivePromise, history
  <2> HIDE DEF q
  <2>4. UNCHANGED storage \/ MarksGrow(m.dst)
    BY <2>1, <2>2, <2>3, SaveMarks DEF Marked
  <2>5. QED
    BY <2>1, <2>3, <2>4, GrowthKeepsMarks DEF MarksKept, storage
<1>2. ASSUME NEW p \in props, ProposeEntry(p)
      PROVE  MarksKept'
  <2> DEFINE s == p.srv
             q == AppendLog(ps[s], EntryOf(p))
             own == [srv |-> s, by |-> s, id |-> p.id,
                     ballot |-> EntryOf(p).ballot, index |-> EntryOf(p).index]
  <2>1. s \in Server /\ EntryOf(p) \in LogEntry
    BY ProposalType, EntryOfType DEF TypeInv
  <2>2. q \in PersistentState /\ q.highest = ps[s].highest
    BY <2>1, StorageAt, AppendLogKeeps DEF TypeInv
  <2>3. /\ votes' = votes \/ votes' = votes \cup {own}
        /\ UNCHANGED <<storage, votes>> \/ Save(s, q) \/ SaveFails(s, q)
    BY <1>2 DEF ProposeEntry
  <2>4. own.by = own.srv
    OBVIOUS
  <2> HIDE DEF q, own
  <2>5. UNCHANGED <<storage, votes>> \/ MarksGrow(s)
    BY <2>1, <2>2, <2>3, SaveMarks DEF Marked
  <2>6. QED
    BY <2>1, <2>3, <2>4, <2>5, GrowthKeepsMarks DEF MarksKept, storage
<1>3. QED
  BY <1>1, <1>2

LEMMA HandleAcceptMarks ==
  ASSUME TypeInv, MarksKept, NEW m \in msgs, HandleAccept(m)
  PROVE  MarksKept'
<1> DEFINE s == m.dst
           index == m.entry.index
           written == UpdateLog(ps[s], index, m.entry)
           accepted == SetHighestAcceptedBallot(written, index, m.entry.ballot)
           vote == [srv |-> s, by |-> m.src, id |-> m.id,
                    ballot |-> m.entry.ballot, index |-> index]
<1>1. /\ s \in Server /\ m.entry \in LogEntry
      /\ index \in Nat /\ m.entry.ballot \in Ballot
  BY AcceptType DEF HandleAccept, TypeInv
<1>2. written \in PersistentState /\ written.highest = ps[s].highest
  BY <1>1, StorageAt, UpdateLogKeeps DEF TypeInv
<1>3. /\ vote.srv = s /\ vote.index = index
      /\ \/ Save(s, accepted) /\ votes' = votes \cup {vote}
         \/ SaveFails(s, written) /\ UNCHANGED votes
         \/ /\ ps' = [ps EXCEPT ![s] = accepted]
            /\ disk' = [disk EXCEPT ![s] = written]
            /\ UNCHANGED votes
  BY DEF HandleAccept
<1> HIDE DEF written, index, vote
<1>4. /\ accepted \in PersistentState
      /\ [index |-> index, ballot |-> m.entry.ballot] \in accepted.highest
      /\ \A h \in written.highest : \E k \in accepted.highest :
           k.index = h.index
  <2>1. written \in PersistentState /\ index \in Nat
        /\ m.entry.ballot \in Ballot
    BY <1>1, <1>2
  <2>2. ASSUME NEW b \in Ballot
        PROVE  LET q == SetHighestAcceptedBallot(written, index, b)
               IN  /\ q \in PersistentState
                   /\ [index |-> index, ballot |-> b] \in q.highest
                   /\ \A h \in written.highest : \E k \in q.highest :
                        k.index = h.index
    BY <2>1, SetHighestKeeps
  <2>3. QED
    BY <2>1, <2>2
<1> HIDE DEF accepted
<1>5. /\ Marked(accepted, index)
      /\ \A i \in Nat : Marked(ps[s], i) => Marked(accepted, i)
      /\ \A i \in Nat : Marked(ps[s], i) => Marked(written, i)
  BY <1>2, <1>4 DEF Marked
<1>6. CASE Save(s, accepted) /\ votes' = votes \cup {vote}
  <2>1. MarksGrow(s) /\ ps'[s] = accepted /\ disk'[s] = accepted
    BY <1>1, <1>4, <1>5, <1>6, SaveMarks
  <2>2. QED
    BY <1>1, <1>3, <1>5, <1>6, <2>1, GrowthKeepsMarks
<1>7. CASE SaveFails(s, written) /\ UNCHANGED votes
  <2>1. MarksGrow(s)
    BY <1>1, <1>2, <1>5, <1>7, SaveMarks
  <2>2. QED
    BY <1>1, <1>7, <2>1, GrowthKeepsMarks
<1>8. CASE /\ ps' = [ps EXCEPT ![s] = accepted]
           /\ disk' = [disk EXCEPT ![s] = written]
           /\ UNCHANGED votes
  <2>1. MarksGrow(s)
    BY <1>1, <1>2, <1>5, <1>8 DEF MarksGrow, TypeInv, StorageOK
  <2>2. QED
    BY <1>1, <1>8, <2>1, GrowthKeepsMarks
<1>9. QED
  BY <1>3, <1>6, <1>7, <1>8

LEMMA RestartMarks ==
  ASSUME TypeInv, MarksKept, NEW s \in Server, Restart(s)
  PROVE  MarksKept'
<1> DEFINE loaded == Loaded(s, disk[s], s \in RestartRole)
<1>1. loaded.highest = disk[s].highest
  <2>1. disk[s] \in PersistentState /\ NewBallotNumber(1, s) \in Ballot
    BY StorageAt, BallotTypes DEF TypeInv
  <2>2. QED
    BY <2>1, SetNpromisedType DEF Loaded
<1>2. ps' = [ps EXCEPT ![s] = loaded] /\ UNCHANGED <<disk, votes>>
  BY DEF Restart, history
<1> HIDE DEF loaded
<1>3. /\ ps'[s].highest = disk[s].highest
      /\ \A t \in Server \ {s} : ps'[t] = ps[t]
  BY <1>1, <1>2 DEF TypeInv, StorageOK
<1>4. \A v \in votes : v.srv \in Server
  BY HistoryAt DEF TypeInv
<1>5. QED
  BY <1>2, <1>3, <1>4 DEF MarksKept, Marked

LEMMA MarksInvariance == Spec => [](TypeInv /\ MarksKept)
<1>1. Init => MarksKept
  BY DEF Init, MarksKept
<1>2. ASSUME TypeInv, MarksKept, [Next]_vars
      PROVE  MarksKept'
  <2>1. CASE \/ UNCHANGED vars
             \/ \E s \in Server :
                  \/ FinishElection(s) \/ SendHeartbeats(s)
                  \/ InitiateStateTransfer(s) \/ FinishHeartbeats(s)
                  \/ ApplyCommittedEntries(s)
                  \/ \E request \in Request : ReadLogLength(s, request)
             \/ \E p \in props : ProposeNoOp(p) \/ FinishProposal(p)
             \/ \E m \in msgs : HandleHeartbeat(m)
    <3>1. UNCHANGED <<storage, votes>>
      BY <2>1 DEF vars, FinishElection, SendHeartbeats, InitiateStateTransfer,
         FinishHeartbeats, ApplyCommittedEntries, ReadLogLength, ProposeNoOp,
         FinishProposal, HandleHeartbeat, history
    <3>2. QED
      BY <1>2, <3>1 DEF MarksKept, storage
  <2>2. QED
    BY <1>2, <2>1, PromiseMarks, LogMarks, HandleAcceptMarks, RestartMarks
       DEF Next, Internal
<1>3. QED
  BY <1>1, <1>2, TypeInvariance, PTL DEF Spec

\* Whatever fails and whoever restarts, with the flag or without: the file of
\* an acceptor that said yes holds an entry at that index, marked accepted.
THEOREM AcceptanceIsDurable == Spec => []AcceptedSlotsDurable
<1>1. TypeInv /\ MarksKept => AcceptedSlotsDurable
  BY HistoryAt
     DEF TypeInv, MarksKept, Marked, StorageOK, SlotsFilled,
         AcceptedSlotsDurable
<1>2. QED
  BY <1>1, MarksInvariance, PTL
=============================================================================
