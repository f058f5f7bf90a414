---------------------------- MODULE PaxosClients ----------------------------
(***************************************************************************)
(* The Multi-Paxos store with the clients that use it (client/client.go)   *)
(* and the map that its learners build (types.KVStore). A client's Put or  *)
(* Delete calls one server after the other until one says OK. A call that  *)
(* fails may still be under way, or still arrive: the next server is then  *)
(* asked for the same once more. Each such call is a request of MultiPaxos.*)
(***************************************************************************)
EXTENDS MultiPaxos, SequencesExt

CONSTANTS
  Client, Key, Value,
  Op,         \* the calls of Put and Delete that clients make
  MaxGiveUps  \* bound: requests given up although they are under way

ASSUME OpAssumption ==
  /\ MaxGiveUps \in Nat
  /\ Op \subseteq [by : Client, type : {"Put", "Delete"}, key : Key,
                   value : Value]
  /\ Request = [op : Op, srv : Server]

VARIABLES
  trying,  \* the server each call asks: -1 before the first, N after the last
  sent,    \* the requests on their way to their servers
  ok,      \* the calls that returned without an error
  giveUps  \* counter: requests given up

clientVars == <<trying, sent, ok, giveUps>>
allVars == <<vars, clientVars>>

ClientTypeOK ==
  /\ TypeOK
  /\ trying \in [Op -> -1 .. N]
  /\ sent \subseteq Request
  /\ ok \subseteq Op
  /\ giveUps \in Nat

ClientInit ==
  /\ Init
  /\ trying = [op \in Op |-> -1]
  /\ sent = {} /\ ok = {} /\ giveUps = 0

-----------------------------------------------------------------------------
(* Clients.                                                                *)

RequestOf(op) == [op |-> op, srv |-> trying[op]]

AnsweredSent(op) ==  \* mutant: a request that was taken up counts as done
  RequestOf(op) \in submitted
\* The server that is being asked says OK.
Answered(op) == \E a \in acked : a.id = RequestOf(op)

UnderWay(r) == r \in sent \/ \E p \in props : p.id = r

EndedOK(op) == op \in ok  \* mutant: the list of servers has no end
Ended(op) == op \in ok \/ trying[op] = N

\* A call begins, when its client has no other, or the server it asks is not
\* the leader, or says that the proposal failed, or has died.
Refused(op) ==
  \/ /\ trying[op] = -1
     /\ \A other \in Op :
          other.by = op.by => trying[other] = -1 \/ Ended(other)
  \/ RequestOf(op) \in sent /\ state[trying[op]] # "Leader"
  \/ trying[op] # -1 /\ ~UnderWay(RequestOf(op)) /\ ~Answered(op)

\* The loop of Put and Delete goes on to the next server when it is refused,
\* or gives up after 5 s. After the last server the call has failed.
TryNext(op) ==
  /\ ~Ended(op)
  /\ \/ /\ Refused(op)
        /\ sent' = (sent \ {RequestOf(op)}) \cup
                     [op : {op}, srv : {trying[op] + 1} \cap Server]
        /\ UNCHANGED giveUps
     \/ /\ trying[op] # -1 /\ giveUps < MaxGiveUps
        /\ giveUps' = giveUps + 1
        /\ sent' = sent \cup [op : {op}, srv : {trying[op] + 1} \cap Server]
  /\ trying' = [trying EXCEPT ![op] = @ + 1]
  /\ UNCHANGED <<vars, ok>>

\* A server takes up a request, perhaps after the client has given it up.
HandleRequest(r) ==
  /\ ReadLogLength(r.srv, r)
  /\ sent' = sent \ {r}
  /\ UNCHANGED <<trying, ok, giveUps>>

HearOK(op) ==
  /\ op \notin ok /\ Answered(op)
  /\ ok' = ok \cup {op}
  /\ UNCHANGED <<vars, trying, sent, giveUps>>

\* A server that dies takes along the requests it has not taken up.
RestartServer(s) ==
  /\ Restart(s)
  /\ sent' = {r \in sent : r.srv # s}
  /\ UNCHANGED <<trying, ok, giveUps>>

ClientNext ==
  \/ Internal /\ UNCHANGED clientVars
  \/ \E s \in Server : RestartServer(s)
  \/ \E r \in sent : HandleRequest(r)
  \/ \E op \in Op : TryNext(op)
  \/ \E op \in Op : HearOK(op)

ClientSpec == ClientInit /\ [][ClientNext]_allVars

-----------------------------------------------------------------------------
(* The map of a learner, and Get.                                          *)

ApplyPuts(store, entry) ==  \* mutant: a key cannot be deleted
  LET op == entry.cmd.op
  IN  IF entry.cmd \in {NoOp, Blank} \/ op.type = "Delete" THEN store
      ELSE [k \in DOMAIN store \cup {op.key} |->
              IF k = op.key THEN op.value ELSE store[k]]
\* KVStore.Apply.
Apply(store, entry) ==
  LET op == entry.cmd.op
  IN  IF entry.cmd \in {NoOp, Blank} THEN store
      ELSE IF op.type = "Delete" THEN Restrict(store, DOMAIN store \ {op.key})
      ELSE [k \in DOMAIN store \cup {op.key} |->
              IF k = op.key THEN op.value ELSE store[k]]

kvStore(s) == FoldLeft(Apply, << >>, applied[s])

\* What a client's Get may return: any server that has the key may be the
\* first one to answer.
Get(k) == {kvStore(s)[k] : s \in {t \in Server : k \in DOMAIN kvStore(t)}}

-----------------------------------------------------------------------------
(* Properties of safety.                                                   *)

\* A client hears OK only when a majority of the servers accepted its command
\* at one index under one ballot, by a request that the client waited for.
OKMeansChosen ==
  \A op \in ok : \E v \in votes :
    /\ v.id = RequestOf(op)
    /\ Cardinality(Accepters(v)) >= Majority

\* A server has a value for a key just when the last command on that key that
\* it applied put that value.
StoreIsLastWrite ==
  \A s \in Server : \A k \in Key :
    LET on == {i \in DOMAIN applied[s] :
                 applied[s][i].cmd \in Request /\ applied[s][i].cmd.op.key = k}
        last == applied[s][Max(on)].cmd.op
    IN  IF on # {} /\ last.type = "Put"
        THEN k \in DOMAIN kvStore(s) /\ kvStore(s)[k] = last.value
        ELSE k \notin DOMAIN kvStore(s)
=============================================================================
