----------------------------- MODULE MultiPaxos -----------------------------
(***************************************************************************)
(* The Multi-Paxos key-value store of multipaxos_kvstore/server: N         *)
(* servers, each proposer, acceptor and learner at once. A critical        *)
(* section of s.mu is one action; everything the code does between two of  *)
(* them (gRPC calls, goroutines, the wait for them) interleaves freely.    *)
(*                                                                         *)
(* Time is abstracted: an election timeout, an RPC timeout and a tick of a *)
(* loop may happen whenever the code could take them. A message that stays *)
(* in msgs is refused, lost or late: a handler that refuses changes        *)
(* nothing, and a caller that hears no yes does not care why. So the       *)
(* wait for the calls of a round or a proposal (wg.Wait) may be over at    *)
(* any time, the calls still out having failed or timed out, and what they *)
(* asked for may still be handled later: the handlers ignore the context   *)
(* of the call.                                                            *)
(***************************************************************************)
EXTENDS Persistence

CONSTANTS
  LeaderRole,     \* servers first started with the flag -role_leader
  RestartRole,    \* servers started with that flag again after a crash
  Electors,       \* bound: servers whose election timeout may fire
  MaxTerm,        \* bound: no election beyond this term
  MaxHeartbeats,  \* bound: rounds of heartbeats
  MaxRestarts,    \* bound: crashes
  MaxFaults       \* bound: saves that fail

ASSUME BoundsAssumption ==
  /\ LeaderRole \subseteq Server
  /\ RestartRole \subseteq Server
  /\ Electors \subseteq Server
  /\ {MaxTerm, MaxHeartbeats, MaxRestarts, MaxFaults} \subseteq Nat

VARIABLES
  state,          \* PaxosServer.state
  currentLeader,  \* PaxosServer.currentLeader, -1 when unknown
  commitIndex,    \* PaxosServer.commitIndex, -1 at first
  lastApplied,    \* PaxosServer.lastApplied, -1 at first
  applied,        \* the entries given to kvStore.Apply, as [pos, cmd]
  stuck,          \* s.mu is held for ever by the one who waits for it
  ps,             \* PaxosServer.ps, in memory
  disk,           \* the file of ps: what a restarted server loads
  round,          \* what the goroutine of electionLoop is doing
  props,          \* the calls of proposeEntry under way
  msgs,           \* the RPCs sent and the promises returned, not yet handled
  submitted,      \* the requests a leader has taken up
  heartbeats,     \* counter: rounds of heartbeats
  restarts,       \* counter: crashes
  faults,         \* counter: failed saves
  granted,        \* history: promises given, with a candidate's own
  votes,          \* history: accepts given, with a proposer's own
  acked           \* history: the proposals that succeeded

server == <<state, currentLeader, commitIndex, lastApplied, applied, stuck>>
storage == <<ps, disk, faults>>
bounds == <<heartbeats, restarts>>
history == <<granted, votes, acked>>
vars == <<server, storage, round, props, msgs, submitted, bounds, history>>

ProposalId == Request \cup Ballot  \* a no-op is named by its election's ballot

ASSUME NamesAssumption == \A request \in Request : request \notin Ballot

Majority == N \div 2 + 1

Peers(s) == Server \ {s}

-----------------------------------------------------------------------------
(* Shapes.                                                                 *)

Messages ==
       [type : {"Prepare"}, src : Server, dst : Server, ballot : Ballot]
  \cup [type : {"Promise"}, src : Server, dst : Server, ballot : Ballot,
        accepted : SUBSET LogEntry]
  \cup [type : {"Accept"}, src : Server, dst : Server, id : ProposalId,
        entry : LogEntry]
  \cup [type : {"Heartbeat"}, src : Server, dst : Server, ballot : Ballot,
        commit : Nat \cup {-1}, seq : Nat]

\* One iteration of electionLoop: the peers that answered yes, and those that
\* a heartbeat found to have less than len entries.
Rounds ==
  [kind : {"idle", "election", "heartbeat"}, ballot : Ballot, len : Nat,
   seq : Nat, acks : SUBSET Server, behind : SUBSET Server]

\* One call of proposeEntry: still to read the log length, read, or sent.
Proposals ==
  [id : ProposalId, srv : Server, phase : {"spawn", "read", "sent"},
   index : Nat, ballot : Ballot, acks : SUBSET Server]

Votes ==
  [srv : Server, by : Server, id : ProposalId, ballot : Ballot, index : Nat]

TypeOK ==
  /\ state \in [Server -> {"Follower", "Candidate", "Leader"}]
  /\ currentLeader \in [Server -> Server \cup {-1}]
  /\ commitIndex \in [Server -> Nat \cup {-1}]
  /\ lastApplied \in [Server -> Nat \cup {-1}]
  /\ applied \in [Server -> Seq([pos : Nat, cmd : Command])]
  /\ stuck \in [Server -> BOOLEAN]
  /\ ps \in [Server -> PersistentState]
  /\ disk \in [Server -> PersistentState]
  /\ round \in [Server -> Rounds]
  /\ props \subseteq Proposals
  /\ msgs \subseteq Messages
  /\ submitted \subseteq Request
  /\ {heartbeats, restarts, faults} \subseteq Nat
  /\ granted \subseteq [srv : Server, ballot : Ballot]
  /\ votes \subseteq Votes
  /\ acked \subseteq [id : ProposalId, ballot : Ballot, index : Nat]

-----------------------------------------------------------------------------
(* Initial state.                                                          *)

IdleRound ==
  [kind |-> "idle", ballot |-> ZeroBallot, len |-> 0, seq |-> 0,
   acks |-> {}, behind |-> {}]

\* NewPaxosServer: the leader flag sets Npromised in memory and saves nothing.
Loaded(s, p, role) ==
  IF role THEN SetNpromised(p, NewBallotNumber(1, s)) ELSE p

StartState(role) == IF role THEN "Leader" ELSE "Follower"

StartLeader(s, role) == IF role THEN s ELSE -1

Init ==
  /\ state = [s \in Server |-> StartState(s \in LeaderRole)]
  /\ currentLeader = [s \in Server |-> StartLeader(s, s \in LeaderRole)]
  /\ commitIndex = [s \in Server |-> -1]
  /\ lastApplied = [s \in Server |-> -1]
  /\ applied = [s \in Server |-> << >>]
  /\ stuck = [s \in Server |-> FALSE]
  /\ disk = [s \in Server |-> FreshState(s)]
  /\ ps = [s \in Server |-> Loaded(s, FreshState(s), s \in LeaderRole)]
  /\ round = [s \in Server |-> IdleRound]
  /\ props = {} /\ msgs = {} /\ submitted = {}
  /\ heartbeats = 0 /\ restarts = 0 /\ faults = 0
  /\ granted = {} /\ votes = {} /\ acked = {}

-----------------------------------------------------------------------------
(* Saving. Memory changes first; the file is replaced whole or not at all. *)

SaveLater(s, p) ==  \* mutant: answers before the file is written
  /\ ps' = [ps EXCEPT ![s] = p]
  /\ UNCHANGED <<disk, faults>>
Save(s, p) ==
  /\ ps' = [ps EXCEPT ![s] = p]
  /\ disk' = [disk EXCEPT ![s] = p]
  /\ UNCHANGED faults

SaveFails(s, p) ==
  /\ faults < MaxFaults
  /\ faults' = faults + 1
  /\ ps' = [ps EXCEPT ![s] = p]
  /\ UNCHANGED disk

-----------------------------------------------------------------------------
(* electionLoop: elections.                                                *)

NextBallotFirst(s) ==  \* mutant: the promised term is not looked at
  NewBallotNumber(1, s)
NextBallot(s) == NewBallotNumber(ps[s].npromised.term + 1, s)

\* startElection up to the calls: vote for ourselves, then ask the peers. A
\* failed save ends it, with the new ballot promised in memory.
StartElection(s) ==
  LET ballot == NextBallot(s)
      voted == SetNpromised(ps[s], ballot)
  IN
  /\ ~stuck[s] /\ state[s] = "Follower" /\ round[s].kind = "idle"
  /\ s \in Electors /\ ballot.term <= MaxTerm
  /\ \/ /\ Save(s, voted)
        /\ state' = [state EXCEPT ![s] = "Candidate"]
        /\ round' = [round EXCEPT ![s] =
                       [IdleRound EXCEPT !.kind = "election",
                                         !.ballot = ballot]]
        /\ msgs' = msgs \cup [type : {"Prepare"}, src : {s},
                              dst : Peers(s), ballot : {ballot}]
        /\ granted' = granted \cup {[srv |-> s, ballot |-> ballot]}
     \/ /\ SaveFails(s, voted)
        /\ UNCHANGED <<state, round, msgs, granted>>
  /\ UNCHANGED <<currentLeader, commitIndex, lastApplied, applied, stuck, props,
                 submitted, bounds, votes, acked>>

\* A promise is saved before it is answered, and makes a leader a follower.
HandlePrepare(m) ==
  LET s == m.dst
      promised == SetNpromised(ps[s], m.ballot)
      promise == [type |-> "Promise", src |-> s, dst |-> m.src,
                  ballot |-> m.ballot,
                  accepted |-> GetAllAcceptedEntries(ps[s])]
  IN
  /\ m.type = "Prepare" /\ ~stuck[s]
  /\ GreaterThan(m.ballot, ps[s].npromised)
  /\ \/ /\ Save(s, promised)
        /\ state' = [state EXCEPT ![s] = "Follower"]
        /\ msgs' = (msgs \ {m}) \cup {promise}
        /\ granted' = granted \cup {[srv |-> s, ballot |-> m.ballot]}
     \/ /\ SaveFails(s, promised)
        /\ msgs' = msgs \ {m}
        /\ UNCHANGED <<state, granted>>
  /\ UNCHANGED <<currentLeader, commitIndex, lastApplied, applied, stuck, round,
                 props, submitted, bounds, votes, acked>>

\* The goroutine of one call counts the promise and adopts what it brings.
\* Each adopted entry is saved, and an error of that save is ignored.
ReceivePromise(m) ==
  LET s == m.dst
      adopted == AdoptEntries(ps[s], m.accepted)
  IN
  /\ m.type = "Promise" /\ ~stuck[s]
  /\ round[s].kind = "election" /\ round[s].ballot = m.ballot
  /\ round' = [round EXCEPT ![s].acks = @ \cup {m.src}]
  /\ msgs' = msgs \ {m}
  /\ \/ adopted = ps[s] /\ UNCHANGED storage
     \/ adopted # ps[s] /\ Save(s, adopted)
     \/ adopted # ps[s] /\ SaveFails(s, adopted)
  /\ UNCHANGED <<server, props, submitted, bounds, history>>

ElectedTooSoon(s) ==  \* mutant: off by one, half the servers are enough
  Cardinality(round[s].acks) + 1 >= Majority - 1
Elected(s) == Cardinality(round[s].acks) + 1 >= Majority

AfterElectionStay(s) ==  \* mutant: a candidate that lost stays one
  IF Elected(s) THEN "Leader" ELSE "Candidate"
AfterElection(s) == IF Elected(s) THEN "Leader" ELSE "Follower"

\* After wg.Wait: becomeLeader, or back to follower. Neither looks at what
\* the server promised to others meanwhile. A late promise finds no caller.
FinishElection(s) ==
  /\ ~stuck[s] /\ round[s].kind = "election"
  /\ state' = [state EXCEPT ![s] = AfterElection(s)]
  /\ \/ /\ Elected(s)
        /\ currentLeader' = [currentLeader EXCEPT ![s] = s]
        /\ props' = props \cup {[id |-> round[s].ballot, srv |-> s,
                                 phase |-> "spawn", index |-> 0,
                                 ballot |-> ZeroBallot, acks |-> {}]}
     \/ ~Elected(s) /\ UNCHANGED <<currentLeader, props>>
  /\ round' = [round EXCEPT ![s] = IdleRound]
  /\ msgs' = {m \in msgs : ~(m.type = "Promise" /\ m.dst = s)}
  /\ UNCHANGED <<commitIndex, lastApplied, applied, stuck, storage, submitted,
                 bounds, history>>

-----------------------------------------------------------------------------
(* Proposals: Put, Delete and the no-op of a new leader.                   *)

\* Put and Delete up to the call of proposeEntry: under one read lock, a
\* leader reads the log length, which becomes the index of the new entry.
ReadLogLength(s, request) ==
  /\ ~stuck[s] /\ state[s] = "Leader" /\ request \notin submitted
  /\ submitted' = submitted \cup {request}
  /\ props' = props \cup {[id |-> request, srv |-> s, phase |-> "read",
                           index |-> GetLogLength(ps[s]),
                           ballot |-> ZeroBallot, acks |-> {}]}
  /\ UNCHANGED <<server, storage, round, msgs, bounds, history>>

\* proposeNoOp up to the call of proposeEntry. It does not take s.mu.
ProposeNoOp(p) ==
  /\ p.phase = "spawn"
  /\ props' = (props \ {p}) \cup
              {[p EXCEPT !.phase = "read",
                         !.index = GetLogLength(ps[p.srv])]}
  /\ UNCHANGED <<server, storage, round, msgs, submitted, bounds, history>>

EntryOf(p) ==
  [index |-> p.index, ballot |-> ps[p.srv].npromised,
   cmd |-> IF p.id \in Request THEN p.id ELSE NoOp]

ReturnedNot(p) == props  \* mutant: the caller is never answered
Returned(p) == props \ {p}

\* proposeEntry up to the calls. The entry keeps the index read before and
\* takes the ballot promised now, and goes to the end of the log.
ProposeEntry(p) ==
  LET s == p.srv
      entry == EntryOf(p)
      appended == AppendLog(ps[s], entry)
      sent == [p EXCEPT !.phase = "sent", !.ballot = entry.ballot]
  IN
  /\ p.phase = "read" /\ ~stuck[s]
  /\ \/ /\ state[s] = "Leader"
        /\ Save(s, appended)
        /\ props' = (props \ {p}) \cup {sent}
        /\ msgs' = msgs \cup [type : {"Accept"}, src : {s}, dst : Peers(s),
                              id : {p.id}, entry : {entry}]
        /\ votes' = votes \cup {[srv |-> s, by |-> s, id |-> p.id,
                                 ballot |-> entry.ballot,
                                 index |-> entry.index]}
     \/ /\ state[s] = "Leader"
        /\ SaveFails(s, appended)
        /\ props' = Returned(p)
        /\ UNCHANGED <<msgs, votes>>
     \/ /\ state[s] # "Leader"
        /\ props' = Returned(p)
        /\ UNCHANGED <<storage, msgs, votes>>
  /\ UNCHANGED <<server, round, submitted, bounds, granted, acked>>

\* The proposal, if it is still under way, whose goroutine sent Accept m.
CallersAny(m) == {p \in props : p.srv = m.src}  \* mutant: any of the server's
Callers(m) == {p \in props : p.id = m.id /\ p.srv = m.src}

\* The goroutine counts the yes of m.dst, or its answer is lost.
CountAccept(m) ==
  \/ props' = (props \ Callers(m)) \cup
              {[p EXCEPT !.acks = @ \cup {m.dst}] : p \in Callers(m)}
  \/ UNCHANGED props

\* The acceptor's test in HandleAccept and HandleHeartbeat.
MayFollowTerm(s, ballot) ==  \* mutant: the server id is not compared
  ballot.term >= ps[s].npromised.term
MayFollow(s, ballot) == AtLeast(ballot, ps[s].npromised)

\* Two saves: the entry, then the ballot accepted at its index. Npromised is
\* compared and left alone, and a leader remains one.
HandleAccept(m) ==
  LET s == m.dst
      written == UpdateLog(ps[s], m.entry.index, m.entry)
      accepted == SetHighestAcceptedBallot(written, m.entry.index,
                                           m.entry.ballot)
  IN
  /\ m.type = "Accept" /\ ~stuck[s]
  /\ MayFollow(s, m.entry.ballot)
  /\ msgs' = msgs \ {m}
  /\ \/ /\ Save(s, accepted)
        /\ CountAccept(m)
        /\ votes' = votes \cup {[srv |-> s, by |-> m.src, id |-> m.id,
                                 ballot |-> m.entry.ballot,
                                 index |-> m.entry.index]}
     \/ /\ SaveFails(s, written)
        /\ UNCHANGED <<props, votes>>
     \/ /\ faults < MaxFaults /\ faults' = faults + 1
        /\ ps' = [ps EXCEPT ![s] = accepted]
        /\ disk' = [disk EXCEPT ![s] = written]
        /\ UNCHANGED <<props, votes>>
  /\ UNCHANGED <<server, round, submitted, bounds, granted, acked>>

\* After wg.Wait: commit the entry and answer the client, or step down.
FinishProposal(p) ==
  LET s == p.srv
      won == Cardinality(p.acks) + 1 >= Majority
  IN
  /\ p.phase = "sent" /\ ~stuck[s]
  /\ props' = Returned(p)
  /\ \/ /\ won
        /\ commitIndex' = [commitIndex EXCEPT
                             ![s] = IF p.index > @ THEN p.index ELSE @]
        /\ acked' = acked \cup {[id |-> p.id, ballot |-> p.ballot,
                                 index |-> p.index]}
        /\ UNCHANGED <<state, currentLeader>>
     \/ /\ ~won /\ state[s] = "Leader"
        /\ state' = [state EXCEPT ![s] = "Follower"]
        /\ currentLeader' = [currentLeader EXCEPT ![s] = -1]
        /\ UNCHANGED <<commitIndex, acked>>
     \/ /\ ~won /\ state[s] # "Leader"
        /\ UNCHANGED <<state, currentLeader, commitIndex, acked>>
  /\ UNCHANGED <<lastApplied, applied, stuck, storage, round, msgs, submitted,
                 bounds, granted, votes>>

-----------------------------------------------------------------------------
(* electionLoop: heartbeats.                                               *)

\* sendHeartbeats up to the calls.
SendHeartbeats(s) ==
  /\ ~stuck[s] /\ state[s] = "Leader" /\ round[s].kind = "idle"
  /\ heartbeats < MaxHeartbeats
  /\ heartbeats' = heartbeats + 1
  /\ round' = [round EXCEPT ![s] =
                 [IdleRound EXCEPT !.kind = "heartbeat",
                                   !.len = GetLogLength(ps[s]),
                                   !.seq = heartbeats']]
  /\ msgs' = msgs \cup [type : {"Heartbeat"}, src : {s}, dst : Peers(s),
                        ballot : {ps[s].npromised}, commit : {commitIndex[s]},
                        seq : {heartbeats'}]
  /\ UNCHANGED <<server, storage, props, submitted, restarts, history>>

\* The goroutine counts the yes of m.dst, and finds out from the log length
\* that comes with it whether the peer is behind; or its answer is lost.
CountHeartbeat(m) ==
  \/ /\ round[m.src].seq = m.seq
     /\ round' = [round EXCEPT
          ![m.src].acks = @ \cup {m.dst},
          ![m.src].behind = @ \cup {s \in {m.dst} :
                              GetLogLength(ps[s]) < round[m.src].len}]
  \/ UNCHANGED round

\* Whoever sends at least the promised ballot is the leader, and its commit
\* index counts for this log as well.
HandleHeartbeat(m) ==
  LET s == m.dst
  IN
  /\ m.type = "Heartbeat" /\ ~stuck[s]
  /\ MayFollow(s, m.ballot)
  /\ msgs' = msgs \ {m}
  /\ state' = [state EXCEPT ![s] = "Follower"]
  /\ currentLeader' = [currentLeader EXCEPT ![s] = m.ballot.id]
  /\ commitIndex' = [commitIndex EXCEPT
                       ![s] = IF m.commit > @ THEN m.commit ELSE @]
  /\ CountHeartbeat(m)
  /\ UNCHANGED <<lastApplied, applied, stuck, storage, props, submitted, bounds,
                 history>>

\* initiateStateTransfer holds s.mu for reading while getPeerClient waits to
\* hold it for writing: from here on nobody gets s.mu, and nothing is sent.
InitiateStateTransfer(s) ==
  /\ ~stuck[s] /\ round[s].behind # {}
  /\ stuck' = [stuck EXCEPT ![s] = TRUE]
  /\ UNCHANGED <<state, currentLeader, commitIndex, lastApplied, applied,
                 storage, round, props, msgs, submitted, bounds, history>>

\* After wg.Wait: a leader that too few answered steps down.
FinishHeartbeats(s) ==
  /\ ~stuck[s] /\ round[s].kind = "heartbeat"
  /\ round[s].behind = {}
  /\ round' = [round EXCEPT ![s] = IdleRound]
  /\ \/ /\ Cardinality(round[s].acks) + 1 < Majority /\ state[s] = "Leader"
        /\ state' = [state EXCEPT ![s] = "Follower"]
        /\ currentLeader' = [currentLeader EXCEPT ![s] = -1]
     \/ /\ Cardinality(round[s].acks) + 1 >= Majority \/ state[s] # "Leader"
        /\ UNCHANGED <<state, currentLeader>>
  /\ UNCHANGED <<commitIndex, lastApplied, applied, stuck, storage, props, msgs,
                 submitted, bounds, history>>

-----------------------------------------------------------------------------
(* applyLoop, and crashes.                                                 *)

SmallerOf(a, b) == IF a < b THEN a ELSE b

\* Where the loop of one tick leaves lastApplied.
AppliedUpToShort(s) ==  \* mutant: the loop ends one index early
  SmallerOf(commitIndex[s] - 1, GetLogLength(ps[s]))
AppliedUpToLog(s) ==  \* mutant: the commit index is not looked at
  GetLogLength(ps[s])
AppliedUpTo(s) ==
  IF lastApplied[s] + 1 >= GetLogLength(ps[s]) THEN lastApplied[s] + 1
  ELSE SmallerOf(commitIndex[s], GetLogLength(ps[s]))

\* One tick: apply up to the commit index. At the first index that is not in
\* the log the loop stops, but lastApplied has already passed it.
ApplyCommittedEntries(s) ==
  LET last == lastApplied[s]
      upto == SmallerOf(AppliedUpTo(s), GetLogLength(ps[s]) - 1)
  IN
  /\ ~stuck[s] /\ last < commitIndex[s]
  /\ lastApplied' = [lastApplied EXCEPT ![s] = AppliedUpTo(s)]
  /\ applied' = [applied EXCEPT ![s] = @ \o
                   [i \in 1 .. upto - last |->
                      [pos |-> last + i,
                       cmd |-> GetLogEntry(ps[s], last + i).cmd]]]
  /\ UNCHANGED <<state, currentLeader, commitIndex, stuck, storage, round,
                 props, msgs, submitted, bounds, history>>

\* The process of s dies, with every goroutine, and a new one is started from
\* the file. What it sent may still arrive; answers to it do not.
Restart(s) ==
  LET role == s \in RestartRole
  IN
  /\ restarts < MaxRestarts
  /\ restarts' = restarts + 1
  /\ ps' = [ps EXCEPT ![s] = Loaded(s, disk[s], role)]
  /\ state' = [state EXCEPT ![s] = StartState(role)]
  /\ currentLeader' = [currentLeader EXCEPT ![s] = StartLeader(s, role)]
  /\ commitIndex' = [commitIndex EXCEPT ![s] = -1]
  /\ lastApplied' = [lastApplied EXCEPT ![s] = -1]
  /\ applied' = [applied EXCEPT ![s] = << >>]
  /\ stuck' = [stuck EXCEPT ![s] = FALSE]
  /\ round' = [round EXCEPT ![s] = IdleRound]
  /\ props' = {p \in props : p.srv # s}
  /\ msgs' = {m \in msgs : ~(m.type = "Promise" /\ m.dst = s)}
  /\ UNCHANGED <<disk, faults, submitted, heartbeats, history>>

-----------------------------------------------------------------------------
\* What the servers do among themselves.
Internal ==
  \/ \E s \in Server :
       \/ StartElection(s) \/ FinishElection(s)
       \/ SendHeartbeats(s) \/ InitiateStateTransfer(s) \/ FinishHeartbeats(s)
       \/ ApplyCommittedEntries(s)
  \/ \E p \in props : ProposeNoOp(p)
  \/ \E p \in props : ProposeEntry(p)
  \/ \E p \in props : FinishProposal(p)
  \/ \E m \in msgs : HandlePrepare(m)
  \/ \E m \in msgs : ReceivePromise(m)
  \/ \E m \in msgs : HandleAccept(m)
  \/ \E m \in msgs : HandleHeartbeat(m)

Next ==
  \/ Internal
  \/ \E s \in Server : Restart(s)
  \/ \E s \in Server, request \in Request : ReadLogLength(s, request)

Spec == Init /\ [][Next]_vars

-----------------------------------------------------------------------------
(* Properties of safety.                                                   *)

\* Every ballot a server ever promised, to a candidate or to itself, is still
\* excluded by its Npromised, in memory and in the file that a restart loads.
PromisesKept ==
  \A g \in granted :
    /\ AtLeast(ps[g.srv].npromised, g.ballot)
    /\ AtLeast(disk[g.srv].npromised, g.ballot)

\* The servers that accepted proposal a, under one ballot and at one index.
Accepters(a) ==
  {s \in Server : \E v \in votes :
     v.srv = s /\ v.id = a.id /\ v.ballot = a.ballot /\ v.index = a.index}

\* A client is told OK, and any server believes an index committed, only when
\* a majority accepted one proposal at that index under one ballot.
CommitsAreChosen ==
  /\ \A a \in acked : Cardinality(Accepters(a)) >= Majority
  /\ \A s \in Server : commitIndex[s] # -1 =>
       \E a \in acked : a.index = commitIndex[s]

\* What an acceptor told a proposer it accepted survives in its file: the slot
\* of that index holds an entry of that index and is marked as accepted.
AcceptedSlotsDurable ==
  \A v \in votes : v.by # v.srv =>
    /\ v.index < Len(disk[v.srv].log)
    /\ disk[v.srv].log[v.index + 1].index = v.index
    /\ disk[v.srv].log[v.index + 1].cmd # Blank
    /\ \E h \in disk[v.srv].highest : h.index = v.index

\* A promise on its way to a candidate brings an entry for every index at
\* which its server accepted something below the candidate's ballot.
PromisesReport ==
  \A m \in msgs : m.type = "Promise" =>
    \A v \in votes :
      v.srv = m.src /\ v.by # v.srv /\ GreaterThan(m.ballot, v.ballot) =>
        \E e \in m.accepted : e.index = v.index

\* The servers that promised ballot b.
Promisers(b) == {s \in Server : [srv |-> s, ballot |-> b] \in granted}

\* The candidate and the peers whose promises it has counted.
Electorate(s) == round[s].acks \cup {s}

\* The servers that accepted proposal a when its proposer asked them.
Followers(a) ==
  {s \in Server : \E v \in votes :
     /\ v.srv = s /\ v.by # s
     /\ v.id = a.id /\ v.ballot = a.ballot /\ v.index = a.index}

\* A log has a command, and not only padding, at this index.
Occupied(p, index) == index < Len(p.log) /\ p.log[index + 1].cmd # Blank

\* A candidate that a majority promised has counted an accepter of every
\* proposal that succeeded under a lower ballot, and unless that is only the
\* proposer itself, has a command at its index: it will not reuse the index.
ElectionsFindCommits ==
  \A s \in Server : round[s].kind = "election" /\ Elected(s) =>
    \A a \in acked : GreaterThan(round[s].ballot, a.ballot) =>
      /\ Accepters(a) \cap Electorate(s) # {}
      /\ Followers(a) \cap Electorate(s) # {} => Occupied(ps[s], a.index)

\* The learner gives no index to the store twice, and goes back to none it
\* passed; and it gives none beyond a proposal that succeeded. That it gives
\* every index to the store is AppliedInOrder, which fails.
AppliedOnce ==
  \A s \in Server : \A i \in DOMAIN applied[s] :
    /\ \A j \in 1 .. i - 1 : applied[s][j].pos < applied[s][i].pos
    /\ \E a \in acked : applied[s][i].pos <= a.index

\* A server becomes leader, other than by its flag, only when a majority with
\* itself promised one ballot of its own.
ElectedByMajority ==
  [][\A s \in Server : state[s] # "Leader" /\ state'[s] = "Leader" =>
       \E g \in granted :
         /\ g.srv = s /\ g.ballot.id = s
         /\ Cardinality(Promisers(g.ballot)) >= Majority]_vars

\* A candidate campaigns under a ballot above every ballot it ever proposed
\* under, so also above the ballot of the flag, which start-up does not save.
NewBallotFresh ==
  [][\A s \in Server :
       round[s].kind # "election" /\ round'[s].kind = "election" =>
         \A v \in votes : v.srv = s /\ v.by = s =>
           GreaterThan(round'[s].ballot, v.ballot)]_vars

\* The acceptors keep the contract that the rest of the cluster relies on.
A == INSTANCE AcceptorContract

Contract == A!Spec

-----------------------------------------------------------------------------
(* Fairness and properties of liveness. Calls time out after 1 to 5        *)
(* seconds, goroutines run, and applyLoop ticks: what is under way goes    *)
(* on. Nothing is assumed of messages, elections, heartbeats or clients.   *)

Fairness ==
  /\ \A s \in Server : /\ WF_vars(FinishElection(s))
                       /\ WF_vars(FinishHeartbeats(s))
                       /\ WF_vars(InitiateStateTransfer(s))
                       /\ WF_vars(ApplyCommittedEntries(s))
  /\ \A id \in Request \cup [term : 0 .. MaxTerm, id : Server] :
       WF_vars(\E p \in props : /\ p.id = id
                                /\ \/ ProposeNoOp(p)
                                   \/ ProposeEntry(p)
                                   \/ FinishProposal(p))

FairSpec == Spec /\ Fairness

\* A candidate becomes something else, even when no peer ever answers.
CandidaciesEnd ==
  \A s \in Server : state[s] = "Candidate" ~> state[s] # "Candidate"

\* A client that called Put or Delete hears a result, unless the server has
\* locked itself out of s.mu.
ProposalsEnd ==
  \A r \in Request : \A s \in Server :
    (\E p \in props : p.id = r /\ p.srv = s) ~>
      \/ ~ \E p \in props : p.id = r /\ p.srv = s
      \/ stuck[s]

\* The learner catches up with the commit index it knows.
AppliesCatchUp ==
  \A s \in Server : lastApplied[s] < commitIndex[s] ~>
                      lastApplied[s] >= commitIndex[s] \/ stuck[s]

-----------------------------------------------------------------------------
(* What comments and tests of the repository say, and the code does not.   *)

\* types.go: an entry's index defines the global ordering of commands. So no
\* two servers apply different commands at one position.
AppliedAgree ==
  \A s, t \in Server :
    \A i \in DOMAIN applied[s], j \in DOMAIN applied[t] :
      applied[s][i].pos = applied[t][j].pos =>
        applied[s][i].cmd = applied[t][j].cmd

\* applyCommittedEntries: the learner applies strictly in sequential order.
AppliedInOrder ==
  \A s \in Server : \A i \in DOMAIN applied[s] : applied[s][i].pos = i - 1

\* initiateStateTransfer sends the missing entries to a lagging follower: the
\* goroutine that found a peer behind gets through with it.
TransfersEnd ==
  \A s \in Server : round[s].behind # {} ~> round[s].behind = {}

=============================================================================
