------------------------- MODULE PaxosClientsProofs -------------------------
(***************************************************************************)
(* What a client of the Multi-Paxos store may rely on when its Put or      *)
(* Delete returned without an error: for every number of servers and       *)
(* clients, whatever was given up, retried or handled late. The servers do *)
(* with clients what they do in MultiPaxos, so its theorems hold of them.  *)
(***************************************************************************)
EXTENDS PaxosClients, ChosenProofs

CallsOK ==
  /\ trying \in [Op -> -1 .. N]
  /\ sent \subseteq Request
  /\ ok \subseteq Op
  /\ giveUps \in Nat

\* A call that returned OK has been answered so by the server it asked last,
\* for it asks no other.
OKsAnswered == \A op \in ok : Answered(op)

CallInv == CallsOK /\ OKsAnswered

LEMMA CallInit == ClientInit => Init /\ CallInv
  BY NAssumption DEF ClientInit, CallInv, CallsOK, OKsAnswered

\* The next server is asked only by a call that is not over, the last one
\* being followed by none.
LEMMA TryNextCalls ==
  ASSUME CallInv, NEW op \in Op, TryNext(op)
  PROVE  /\ UNCHANGED vars /\ op \notin ok
         /\ trying' = [trying EXCEPT ![op] = @ + 1]
         /\ CallsOK'
<1>1. /\ UNCHANGED vars /\ op \notin ok /\ trying[op] # N /\ ok' = ok
      /\ trying' = [trying EXCEPT ![op] = @ + 1]
  BY DEF TryNext, Ended
<1>2. trying' \in [Op -> -1 .. N]
  BY <1>1, NAssumption DEF CallInv, CallsOK
<1>3. sent' \subseteq Request
  <2>1. [op : {op}, srv : {trying[op] + 1} \cap Server] \subseteq Request
    BY OpAssumption
  <2>2. sent \subseteq Request
    BY DEF CallInv, CallsOK
  <2>3. QED
    BY <2>1, <2>2 DEF TryNext
<1>4. giveUps' \in Nat
  BY DEF TryNext, CallInv, CallsOK
<1>5. QED
  BY <1>1, <1>2, <1>3, <1>4 DEF CallInv, CallsOK

\* Seen from the servers, a client's request is one of MultiPaxos.
LEMMA ClientStepIsStep ==
  ASSUME CallInv, [ClientNext]_allVars
  PROVE  [Next]_vars
<1>1. ASSUME NEW r \in sent, HandleRequest(r)
      PROVE  Next
  <2>1. r \in Request /\ r.srv \in Server
    BY OpAssumption DEF CallInv, CallsOK
  <2>2. QED
    BY <1>1, <2>1 DEF HandleRequest, Next
<1>2. CASE \E op \in Op : TryNext(op) \/ HearOK(op)
  BY <1>2 DEF TryNext, HearOK
<1>3. QED
  BY <1>1, <1>2 DEF ClientNext, RestartServer, Next, allVars

LEMMA SuccessesStay ==
  ASSUME [Next]_vars
  PROVE  acked \subseteq acked'
  BY DEF Next, Internal, vars, history, StartElection, FinishElection,
     SendHeartbeats, InitiateStateTransfer, FinishHeartbeats,
     ApplyCommittedEntries, Restart, ReadLogLength, ProposeNoOp, ProposeEntry,
     FinishProposal, HandlePrepare, ReceivePromise, HandleAccept,
     HandleHeartbeat

LEMMA CallsInvariance ==
  ASSUME CallInv, [ClientNext]_allVars
  PROVE  CallInv'
<1>1. acked \subseteq acked'
  BY ClientStepIsStep, SuccessesStay
<1>2. ASSUME NEW op \in Op, TryNext(op)
      PROVE  CallInv'
  <2>1. ok' = ok
    BY <1>2 DEF TryNext
  <2>2. \A other \in ok : trying'[other] = trying[other]
    BY <1>2, TryNextCalls DEF CallInv, CallsOK
  <2>3. QED
    BY <1>1, <1>2, <2>1, <2>2, TryNextCalls
       DEF CallInv, OKsAnswered, Answered, RequestOf
<1>3. ASSUME NEW op \in Op, HearOK(op)
      PROVE  CallInv'
  BY <1>1, <1>3
     DEF HearOK, CallInv, CallsOK, OKsAnswered, Answered, RequestOf
<1>4. CASE \/ UNCHANGED clientVars
           \/ \E s \in Server : RestartServer(s)
           \/ \E r \in sent : HandleRequest(r)
  <2>1. UNCHANGED <<trying, ok, giveUps>> /\ sent' \subseteq sent
    BY <1>4 DEF clientVars, RestartServer, HandleRequest
  <2>2. QED
    BY <1>1, <2>1 DEF CallInv, CallsOK, OKsAnswered, Answered, RequestOf
<1>5. QED
  BY <1>2, <1>3, <1>4 DEF ClientNext, allVars

\* With any clients, the servers are those of MultiPaxos.
THEOREM ServersAreMultiPaxos == ClientSpec => Spec /\ []CallInv
<1>1. QED
  BY CallInit, ClientStepIsStep, CallsInvariance, PTL DEF ClientSpec, Spec

THEOREM ClientTypeCorrect == ClientSpec => []ClientTypeOK
<1>1. TypeOK /\ CallInv => ClientTypeOK
  BY DEF CallInv, CallsOK, ClientTypeOK
<1>2. QED
  BY <1>1, ServersAreMultiPaxos, TypeCorrect, PTL

\* A Put or Delete that returned OK was accepted by a majority of the servers,
\* and by a request its caller was still waiting for: never on the strength of
\* a request it gave up, nor of one for another call.
THEOREM OKIsChosen ==
  ASSUME RestartRole = {}
  PROVE  ClientSpec => []OKMeansChosen
<1>1. ASSUME TypeInv, CommitsAreChosen, CallInv
      PROVE  OKMeansChosen
  <2>1. SUFFICES ASSUME NEW op \in ok
                 PROVE  \E v \in votes :
                          /\ v.id = RequestOf(op)
                          /\ Cardinality(Accepters(v)) >= Majority
    BY DEF OKMeansChosen
  <2>2. PICK a \in acked : a.id = RequestOf(op)
    BY <1>1 DEF CallInv, OKsAnswered, Answered
  <2>3. Cardinality(Accepters(a)) >= Majority
    BY <1>1, <2>2 DEF CommitsAreChosen
  <2>4. Accepters(a) # {}
    <3>1. Majority \in Nat /\ Majority > 0
      BY NAssumption DEF Majority
    <3>2. QED
      BY <2>3, <3>1, FS_EmptySet
  <2>5. PICK v \in votes :
          v.id = a.id /\ v.ballot = a.ballot /\ v.index = a.index
    BY <2>4 DEF Accepters
  <2>6. Accepters(v) = Accepters(a)
    BY <2>5 DEF Accepters
  <2>7. QED
    BY <2>2, <2>3, <2>5, <2>6
<1>2. QED
  BY <1>1, ServersAreMultiPaxos, TypeInvariance, CommittedIsChosen, PTL
=============================================================================
