------------------------ MODULE PrimaryBackupProofs ------------------------
(***************************************************************************)
(* The safety of the primary/backup store, for any servers, clients, keys  *)
(* and bounds: its types, that a server with the current number has the    *)
(* current role, that queueing Puts ends, and that the store, as the view  *)
(* service sees it, is what ViewPings says; and that a confirmed key is    *)
(* not dropped as long as nothing fails.                                   *)
(***************************************************************************)
EXTENDS PrimaryBackup, ViewServiceProofs, SequenceTheorems

-----------------------------------------------------------------------------
(* Type correctness, in parts.                                             *)

PingCalls == [srv : KVServer, num : Nat, expired : BOOLEAN]

PingsOK ==
  /\ up \subseteq KVServer /\ reading \subseteq KVServer
  /\ calls \subseteq PingCalls
  /\ numberRead \in [KVServer -> Nat \cup {-1}]

KvOK == kv \in [KVServer -> KVState]

WorkOK ==
  /\ transfers \subseteq Transfers
  /\ \A t \in transfers : t.phase = "replay" => t.pending # << >>
  /\ puts \subseteq PutCalls
  /\ rpcs \subseteq Rpcs

ClientsOK ==
  /\ client \in [Client -> Clients]
  /\ begun \in Nat
  /\ confirmed \in Store

CountersOK == crashes \in Nat /\ delays \in Nat /\ timeouts \in Nat

TypeInv ==
  ServiceInv /\ PingsOK /\ KvOK /\ WorkOK /\ ClientsOK /\ CountersOK

StoreTypeOK == PingsOK /\ KvOK /\ WorkOK /\ ClientsOK /\ CountersOK

LEMMA TypeParts == TypeInv => TypeOK
  BY DEF TypeInv, TypeOK, PingsOK, KvOK, WorkOK, ClientsOK, CountersOK,
     PingCalls, ServiceInv

LEMMA NoneIsNoServer == None \in Name /\ None \notin KVServer
  BY ViewAssumption DEF Name

LEMMA EmptyStoreType == EmptyStore \in Store
  BY DEF EmptyStore, NoValue, Store

LEMMA FreshKVType == FreshKV \in KVState
<1>1. NoView \in View
  BY DEF NoView, View, Name
<1>2. << >> \in Seq(Put)
  OBVIOUS
<1>3. QED
  BY <1>1, <1>2, EmptyStoreType, NoneIsNoServer DEF FreshKV, KVState

LEMMA KVFields ==
  ASSUME NEW k \in KVState
  PROVE  /\ k.currentView \in View /\ k.data \in Store
         /\ k.role \in {"primary", "backup", "default"}
         /\ k.lastBackup \in Name /\ k.syncing \in BOOLEAN
         /\ k.pendingQueue \in Seq(Put)
         /\ k.currentView.num \in Nat
         /\ k.currentView.backup \in Name
  BY DEF KVState, View

LEMMA StoreUpdate ==
  ASSUME NEW d \in Store, NEW p \in Put
  PROVE  [d EXCEPT ![p.key] = p.value] \in Store
  BY DEF Store, Put

LEMMA KvUpdate ==
  ASSUME KvOK, NEW s \in KVServer, NEW k \in KVState,
         kv' = [kv EXCEPT ![s] = k]
  PROVE  KvOK'
  BY DEF KvOK

LEMMA AbandonType ==
  ASSUME PingsOK, NEW s \in KVServer, Abandon(s)
  PROVE  calls' \subseteq PingCalls /\ reading' \subseteq KVServer
<1>1. ASSUME NEW c \in calls
      PROVE  [c EXCEPT !.expired = @ \/ c.srv = s] \in PingCalls
  <2>1. PICK r \in KVServer, n \in Nat, e \in BOOLEAN :
          c = [srv |-> r, num |-> n, expired |-> e]
    BY DEF PingsOK, PingCalls
  <2>2. (e \/ r = s) \in BOOLEAN
    OBVIOUS
  <2>3. [c EXCEPT !.expired = @ \/ c.srv = s]
          = [srv |-> r, num |-> n, expired |-> e \/ r = s]
    BY <2>1
  <2>4. QED
    BY <2>2, <2>3 DEF PingCalls
<1>2. QED
  BY <1>1 DEF Abandon, PingsOK

LEMMA AttemptType == ASSUME CountersOK PROVE Attempt \in Nat
  BY DEF CountersOK, Attempt

LEMMA RoleType ==
  \A v, s : RoleIn(v, s) \in {"primary", "backup", "default"}
  BY DEF RoleIn

LEMMA HandleViewChangeType ==
  ASSUME NEW k \in KVState, NEW s
  PROVE  HandleViewChange(k, s) \in KVState
  BY RoleType, KVFields DEF HandleViewChange, KVState

LEMMA HandleViewChangeFields ==
  ASSUME NEW k \in KVState, NEW s
  PROVE  LET role == RoleIn(k.currentView, s)
             next == HandleViewChange(k, s)
         IN  /\ next.role = role
             /\ role = "primary" => next.lastBackup = k.currentView.backup
BY DEF HandleViewChange, KVState

-----------------------------------------------------------------------------
(* One lemma per action: the types, and what happens to the service.       *)

Quietly == UNCHANGED serviceVars

LEMMA SendPingType ==
  ASSUME TypeInv, NEW s \in KVServer, SendPing(s)
  PROVE  StoreTypeOK'
<1>1. [srv |-> s, num |-> kv[s].currentView.num, expired |-> FALSE]
        \in PingCalls
  BY KVFields DEF TypeInv, KvOK, PingCalls
<1>2. PingsOK'
  BY <1>1 DEF TypeInv, PingsOK, SendPing
<1>3. QED
  BY <1>2 DEF TypeInv, StoreTypeOK, SendPing, clients, KvOK, WorkOK, ClientsOK,
     CountersOK

LEMMA ReadNumberType ==
  ASSUME TypeInv, NEW s \in KVServer, ReadNumber(s)
  PROVE  StoreTypeOK'
<1>1. currentView.num \in Nat
  BY ViewFields DEF TypeInv, ServiceInv
<1>2. PingsOK'
  BY <1>1 DEF TypeInv, PingsOK, ReadNumber
<1>3. QED
  BY <1>2 DEF TypeInv, StoreTypeOK, ReadNumber, clients, KvOK, WorkOK,
     ClientsOK, CountersOK

LEMMA ReadNamesType ==
  ASSUME TypeInv, NEW s \in KVServer, ReadNames(s)
  PROVE  StoreTypeOK'
<1> DEFINE v == [currentView EXCEPT !.num = numberRead[s]]
           next == [kv[s] EXCEPT !.currentView = v]
           changed == numberRead[s] # kv[s].currentView.num
           k == IF changed THEN HandleViewChange(next, s) ELSE next
<1>1. numberRead[s] \in Nat /\ currentView \in View /\ kv[s] \in KVState
  BY ViewFields DEF TypeInv, ServiceInv, PingsOK, KvOK, ReadNames
<1>2. v \in View
  BY <1>1 DEF View
<1>3. next \in KVState
  <2> HIDE DEF v
  <2>1. QED
    BY <1>1, <1>2 DEF KVState
<1>4. k \in KVState
  <2> HIDE DEF next, changed
  <2>1. QED
    BY <1>3, HandleViewChangeType
<1>5. KvOK'
  <2>1. kv' = [kv EXCEPT ![s] = k]
    BY DEF ReadNames
  <2> HIDE DEF k
  <2>2. QED
    BY <1>4, <2>1, KvUpdate DEF TypeInv
<1>6. NewTransfer(next, s) \subseteq Transfers
  <2> HIDE DEF next
  <2>1. next.currentView.num \in Nat /\ next.currentView.backup \in Name
    BY <1>3, KVFields
  <2>2. << >> \in Seq(Put)
    OBVIOUS
  <2>3. ASSUME NEW t \in NewTransfer(next, s) PROVE t \in Transfers
    <3>1. PICK b \in Name :
            t = [srv |-> s, backup |-> b, num |-> next.currentView.num,
                 try |-> 0, phase |-> "begin", copy |-> EmptyStore,
                 pending |-> << >>]
      BY <2>1, <2>3 DEF NewTransfer
    <3>2. QED
      BY <2>1, <2>2, <3>1, EmptyStoreType DEF Transfers
  <2>4. QED
    BY <2>3
<1>7. WorkOK'
  <2>1. /\ transfers' \subseteq transfers \cup NewTransfer(next, s)
        /\ UNCHANGED <<puts, rpcs>>
    BY DEF ReadNames
  <2>2. \A t \in NewTransfer(next, s) : t.phase = "begin"
    BY DEF NewTransfer
  <2> HIDE DEF next
  <2>3. QED
    BY <1>6, <2>1, <2>2 DEF TypeInv, WorkOK
<1>8. PingsOK'
  BY DEF TypeInv, PingsOK, ReadNames
<1>9. QED
  BY <1>5, <1>7, <1>8 DEF TypeInv, StoreTypeOK, ReadNames, clients, ClientsOK,
     CountersOK

LEMMA HandlePingType ==
  ASSUME TypeInv, NEW c \in calls, HandlePing(c)
  PROVE  StoreTypeOK'
<1>1. c.srv \in KVServer
  BY DEF TypeInv, PingsOK, PingCalls
<1>2. PingsOK'
  BY <1>1 DEF TypeInv, PingsOK, HandlePing
<1>3. QED
  BY <1>2 DEF TypeInv, StoreTypeOK, HandlePing, clients, KvOK, WorkOK,
     ClientsOK, CountersOK

LEMMA PingTimeoutType ==
  ASSUME TypeInv, NEW s \in KVServer, PingTimeout(s)
  PROVE  StoreTypeOK'
<1>1. PingsOK'
  BY AbandonType DEF TypeInv, PingsOK, PingTimeout
<1>2. QED
  BY <1>1 DEF TypeInv, StoreTypeOK, PingTimeout, clients, KvOK, WorkOK,
     ClientsOK, CountersOK

LEMMA PingsLapseType ==
  ASSUME TypeInv, NEW s \in KVServer, PingsLapse(s)
  PROVE  StoreTypeOK'
BY DEF TypeInv, StoreTypeOK, PingsLapse, clients, PingsOK, KvOK, WorkOK,
   ClientsOK, CountersOK

LEMMA TickerFiresType ==
  ASSUME TypeInv, TickerFires
  PROVE  StoreTypeOK'
BY DEF TypeInv, StoreTypeOK, TickerFires, pings, clients, PingsOK, KvOK, WorkOK,
   ClientsOK, CountersOK

LEMMA ForgetType ==
  ASSUME ClientsOK, NEW c \in Client
  PROVE  Forget(c) \in Clients
BY NoneIsNoServer DEF ClientsOK, Clients, Forget

LEMMA CrashType ==
  ASSUME TypeInv, NEW s \in KVServer, Crash(s)
  PROVE  StoreTypeOK'
<1>1. PingsOK'
  BY AbandonType DEF TypeInv, PingsOK, Crash
<1>2. KvOK'
  BY FreshKVType, KvUpdate DEF TypeInv, Crash
<1>3. WorkOK'
  BY DEF TypeInv, WorkOK, Crash
<1>4. ClientsOK'
  <2>1. \A c \in Client :
          (IF client[c].try # -1 /\ client[c].primary = s
           THEN Forget(c) ELSE client[c]) \in Clients
    BY ForgetType DEF TypeInv, ClientsOK
  <2>2. QED
    BY <2>1 DEF TypeInv, ClientsOK, Crash
<1>5. CountersOK'
  BY DEF TypeInv, CountersOK, Crash
<1>6. QED
  BY <1>1, <1>2, <1>3, <1>4, <1>5 DEF StoreTypeOK

LEMMA StartType ==
  ASSUME TypeInv, NEW s \in KVServer, Start(s)
  PROVE  StoreTypeOK'
BY DEF TypeInv, StoreTypeOK, Start, clients, PingsOK, KvOK, WorkOK, ClientsOK,
   CountersOK

\* Most actions leave all this alone.
LEMMA AwayFromPings ==
  ASSUME TypeInv, UNCHANGED pings
  PROVE  PingsOK' /\ delays' \in Nat
BY DEF TypeInv, PingsOK, CountersOK, pings

LEMMA BeginTransferType ==
  ASSUME TypeInv, NEW t \in transfers, BeginTransfer(t)
  PROVE  StoreTypeOK'
<1> DEFINE k == [kv[t.srv] EXCEPT !.syncing = TRUE]
           sent == [t EXCEPT !.phase = "sent", !.try = Attempt,
                             !.copy = kv[t.srv].data]
           rpc(b) == [type |-> "SyncState", src |-> t.srv, num |-> t.num,
                      try |-> Attempt, dst |-> b, copy |-> sent.copy]
<1>1. t \in Transfers /\ t.srv \in KVServer /\ kv[t.srv] \in KVState
  BY DEF TypeInv, WorkOK, KvOK, Transfers
<1>2. kv[t.srv].data \in Store /\ Attempt \in Nat
  BY <1>1, KVFields, AttemptType DEF TypeInv
<1>3. KvOK'
  <2>1. k \in KVState
    BY <1>1 DEF KVState
  <2>2. kv' = [kv EXCEPT ![t.srv] = k]
    BY DEF BeginTransfer
  <2> HIDE DEF k
  <2>3. QED
    BY <1>1, <2>1, <2>2, KvUpdate DEF TypeInv
<1>4. /\ sent \in Transfers /\ sent.copy = kv[t.srv].data
      /\ sent.phase = "sent"
  BY <1>1, <1>2 DEF Transfers
<1>5. ASSUME NEW b \in {t.backup} \cap up
      PROVE  rpc(b) \in Rpcs
  <2>1. b \in KVServer /\ t.num \in Nat
    BY <1>1 DEF TypeInv, PingsOK, Transfers
  <2> HIDE DEF sent
  <2>2. QED
    BY <1>1, <1>2, <1>4, <2>1 DEF Rpcs
<1>6. WorkOK'
  <2>1. /\ transfers' = (transfers \ {t}) \cup {sent}
        /\ rpcs' = rpcs \cup {rpc(b) : b \in {t.backup} \cap up}
        /\ puts' = puts
    BY DEF BeginTransfer
  <2> HIDE DEF sent, rpc
  <2>2. QED
    BY <1>4, <1>5, <2>1 DEF TypeInv, WorkOK
<1>7. QED
  BY <1>3, <1>6, AwayFromPings DEF TypeInv, StoreTypeOK, BeginTransfer, clients,
     ClientsOK, CountersOK

LEMMA HandleSyncStateType ==
  ASSUME TypeInv, NEW m \in rpcs, HandleSyncState(m)
  PROVE  StoreTypeOK'
<1> DEFINE k == [kv[m.dst] EXCEPT !.data = m.copy]
<1>1. m.dst \in KVServer /\ m.copy \in Store
  BY DEF TypeInv, WorkOK, Rpcs, HandleSyncState
<1>2. KvOK'
  <2>1. k \in KVState
    BY <1>1 DEF TypeInv, KvOK, KVState
  <2>2. kv' = [kv EXCEPT ![m.dst] = k]
    BY DEF HandleSyncState
  <2> HIDE DEF k
  <2>3. QED
    BY <1>1, <2>1, <2>2, KvUpdate DEF TypeInv
<1>3. \A t \in Transfers : /\ [t EXCEPT !.phase = "synced"] \in Transfers
                            /\ [t EXCEPT !.phase = "synced"].phase = "synced"
  BY DEF Transfers
<1>4. WorkOK'
  BY <1>3 DEF TypeInv, WorkOK, HandleSyncState
<1>5. QED
  BY <1>2, <1>4, AwayFromPings DEF TypeInv, StoreTypeOK, HandleSyncState,
     clients, ClientsOK, CountersOK

LEMMA FinishTransferType ==
  ASSUME TypeInv, NEW t \in transfers, FinishTransfer(t)
  PROVE  StoreTypeOK'
<1>1. t \in Transfers /\ t.srv \in KVServer /\ kv[t.srv] \in KVState
  BY DEF TypeInv, WorkOK, KvOK, Transfers
<1>2. KvOK'
  <2>1. Drained(kv[t.srv]) \in KVState
    <3>1. << >> \in Seq(Put)
      OBVIOUS
    <3>2. QED
      BY <1>1, <3>1 DEF Drained, KVState
  <2>2. kv' = [kv EXCEPT ![t.srv] = Drained(kv[t.srv])]
    BY DEF FinishTransfer
  <2>3. QED
    BY <1>1, <2>1, <2>2, KvUpdate DEF TypeInv
<1>3. WorkOK'
  <2> DEFINE replay == [t EXCEPT !.phase = "replay",
                                 !.pending = kv[t.srv].pendingQueue]
  <2>1. replay \in Transfers /\ replay.pending = kv[t.srv].pendingQueue
    BY <1>1, KVFields DEF Transfers
  <2>2. /\ transfers' = (transfers \ {t}) \cup
             (IF kv[t.srv].pendingQueue = << >> THEN {} ELSE {replay})
        /\ UNCHANGED <<puts, rpcs>>
    BY DEF FinishTransfer
  <2> HIDE DEF replay
  <2>3. QED
    BY <2>1, <2>2 DEF TypeInv, WorkOK
<1>4. QED
  BY <1>2, <1>3, AwayFromPings DEF TypeInv, StoreTypeOK, FinishTransfer, clients,
     ClientsOK, CountersOK

LEMMA TransferErrorType ==
  ASSUME TypeInv, NEW t \in transfers, TransferError(t)
  PROVE  StoreTypeOK'
<1> DEFINE k == [kv[t.srv] EXCEPT !.syncing = FALSE]
<1>1. t \in Transfers /\ t.srv \in KVServer /\ kv[t.srv] \in KVState
  BY DEF TypeInv, WorkOK, KvOK, Transfers
<1>2. KvOK'
  <2>1. k \in KVState
    BY <1>1 DEF KVState
  <2>2. kv' = [kv EXCEPT ![t.srv] = k]
    BY DEF TransferError, FailTransfer
  <2> HIDE DEF k
  <2>3. QED
    BY <1>1, <2>1, <2>2, KvUpdate DEF TypeInv
<1>3. WorkOK' /\ timeouts' \in Nat
  BY DEF TypeInv, WorkOK, CountersOK, TransferError, FailTransfer
<1>4. QED
  BY <1>2, <1>3, AwayFromPings DEF TypeInv, StoreTypeOK, TransferError, clients,
     ClientsOK, CountersOK

LEMMA ReplayType ==
  ASSUME TypeInv, NEW t \in transfers, Replay(t)
  PROVE  StoreTypeOK'
<1>1. t \in Transfers
  BY DEF TypeInv, WorkOK
<1> DEFINE id == [srv |-> t.srv, num |-> t.num]
           call == [by |-> id, try |-> Attempt, srv |-> t.srv,
                    put |-> Head(t.pending), phase |-> "arriving",
                    backup |-> None]
<1>2. t.pending \in Seq(Put) /\ t.srv \in KVServer /\ t.num \in Nat
  BY <1>1 DEF Transfers
<1>3. t.pending # << >>
  BY DEF Replay, TypeInv, WorkOK
<1>4. Head(t.pending) \in Put /\ Tail(t.pending) \in Seq(Put)
  BY <1>2, <1>3
<1>5. call \in PutCalls
  <2>1. id \in TransferId
    BY <1>2 DEF TransferId
  <2> HIDE DEF id
  <2>2. QED
    BY <1>2, <1>4, <2>1, AttemptType, NoneIsNoServer DEF PutCalls, TypeInv
<1>6. WorkOK'
  <2> DEFINE left == [t EXCEPT !.pending = Tail(t.pending)]
  <2>1. left \in Transfers /\ left.pending = Tail(t.pending)
    BY <1>1, <1>4 DEF Transfers
  <2>2. /\ transfers' = (transfers \ {t}) \cup
             (IF Tail(t.pending) = << >> THEN {} ELSE {left})
        /\ puts' = puts \cup {call} /\ rpcs' = rpcs
    BY DEF Replay
  <2> HIDE DEF left, call
  <2>3. QED
    BY <1>5, <2>1, <2>2 DEF TypeInv, WorkOK
<1>7. QED
  BY <1>6, AwayFromPings DEF TypeInv, StoreTypeOK, Replay, clients, KvOK,
     ClientsOK, CountersOK

LEMMA ConfirmType ==
  ASSUME TypeInv, NEW p \in puts, Confirm(p)
  PROVE  puts' \subseteq puts /\ ClientsOK'
<1>1. p.put \in Put
  BY DEF TypeInv, WorkOK, PutCalls
<1>2. CASE Awaited(p)
  <2> DEFINE c == [client[p.by] EXCEPT !.op = "idle", !.try = -1]
  <2>1. p.by \in Client /\ client[p.by] \in Clients
    BY <1>2 DEF Awaited, TypeInv, ClientsOK
  <2>2. c \in Clients
    BY <2>1 DEF Clients
  <2>3. client' = [client EXCEPT ![p.by] = c]
    BY <1>2, <2>1 DEF Confirm, TypeInv, ClientsOK
  <2>4. client' \in [Client -> Clients]
    <3> HIDE DEF c
    <3>1. QED
      BY <2>1, <2>2, <2>3 DEF TypeInv, ClientsOK
  <2>5. confirmed' \in Store
    BY <1>1, <1>2, StoreUpdate DEF Confirm, TypeInv, ClientsOK
  <2>6. QED
    BY <2>4, <2>5 DEF Confirm, TypeInv, ClientsOK
<1>3. CASE ~Awaited(p)
  BY <1>3 DEF Confirm, TypeInv, ClientsOK
<1>4. QED
  BY <1>2, <1>3

LEMMA RefusePutType ==
  ASSUME TypeInv, NEW p \in puts, RefusePut(p)
  PROVE  StoreTypeOK'
<1>1. ClientsOK'
  <2>1. Awaited(p) => p.by \in Client /\ Forget(p.by) \in Clients
    BY ForgetType DEF Awaited, TypeInv
  <2>2. QED
    BY <2>1 DEF TypeInv, ClientsOK, RefusePut
<1>2. WorkOK'
  BY DEF TypeInv, WorkOK, RefusePut
<1>3. QED
  BY <1>1, <1>2, AwayFromPings DEF TypeInv, StoreTypeOK, RefusePut, KvOK,
     CountersOK

LEMMA QueuePutType ==
  ASSUME TypeInv, NEW p \in puts, QueuePut(p)
  PROVE  StoreTypeOK'
<1> DEFINE k == [kv[p.srv] EXCEPT !.pendingQueue = Append(@, p.put)]
<1>1. p.srv \in KVServer /\ p.put \in Put /\ kv[p.srv] \in KVState
  BY DEF TypeInv, WorkOK, PutCalls, KvOK
<1>2. KvOK'
  <2>1. Append(kv[p.srv].pendingQueue, p.put) \in Seq(Put)
    BY <1>1, KVFields
  <2>2. k \in KVState
    BY <1>1, <2>1 DEF KVState
  <2>3. kv' = [kv EXCEPT ![p.srv] = k]
    BY DEF QueuePut
  <2> HIDE DEF k
  <2>4. QED
    BY <1>1, <2>2, <2>3, KvUpdate DEF TypeInv
<1>3. puts' \subseteq puts /\ ClientsOK'
  BY ConfirmType DEF QueuePut
<1>4. QED
  BY <1>2, <1>3, AwayFromPings DEF TypeInv, StoreTypeOK, QueuePut, WorkOK,
     CountersOK

LEMMA ForwardPutType ==
  ASSUME TypeInv, NEW p \in puts, ForwardPut(p)
  PROVE  StoreTypeOK'
<1> DEFINE backup == kv[p.srv].currentView.backup
           next == [p EXCEPT !.backup = backup,
                             !.phase = IF backup = None THEN "write"
                                       ELSE "forward"]
           rpc(b) == [type |-> "ForwardUpdate", by |-> p.by, try |-> p.try,
                      src |-> p.srv, dst |-> b, put |-> p.put]
<1>1. p \in PutCalls /\ p.srv \in KVServer /\ kv[p.srv] \in KVState
  BY DEF TypeInv, WorkOK, PutCalls, KvOK
<1>2. backup \in Name
  BY <1>1, KVFields
<1>3. next \in PutCalls
  <2> HIDE DEF backup
  <2>1. QED
    BY <1>1, <1>2 DEF PutCalls
<1>4. ASSUME NEW b \in {backup} \cap up PROVE rpc(b) \in Rpcs
  <2>1. b \in KVServer
    BY DEF TypeInv, PingsOK
  <2>2. QED
    BY <1>1, <2>1 DEF PutCalls, Rpcs
<1>5. WorkOK'
  <2>1. /\ puts' = (puts \ {p}) \cup {next}
        /\ rpcs' = rpcs \cup {rpc(b) : b \in {backup} \cap up}
        /\ transfers' = transfers
    BY DEF ForwardPut
  <2> HIDE DEF backup, next, rpc
  <2>2. QED
    BY <1>3, <1>4, <2>1 DEF TypeInv, WorkOK
<1>6. QED
  BY <1>5, AwayFromPings DEF TypeInv, StoreTypeOK, ForwardPut, clients, KvOK,
     ClientsOK, CountersOK

LEMMA HandleForwardUpdateType ==
  ASSUME TypeInv, NEW m \in rpcs, HandleForwardUpdate(m)
  PROVE  StoreTypeOK'
<1>1. m.dst \in KVServer /\ m.put \in Put /\ kv[m.dst] \in KVState
  BY DEF TypeInv, WorkOK, Rpcs, HandleForwardUpdate, KvOK
<1> DEFINE d == [kv[m.dst].data EXCEPT ![m.put.key] = m.put.value]
           k == [kv[m.dst] EXCEPT !.data = d]
<1>2. KvOK'
  <2>1. d \in Store
    BY <1>1, KVFields, StoreUpdate
  <2>2. kv' = [kv EXCEPT ![m.dst] = k] \/ kv' = kv
    BY DEF HandleForwardUpdate
  <2> HIDE DEF d
  <2>3. k \in KVState
    BY <1>1, <2>1 DEF KVState
  <2> HIDE DEF k
  <2>4. QED
    BY <1>1, <2>2, <2>3, KvUpdate DEF TypeInv, KvOK
<1>3. \A p \in PutCalls : [p EXCEPT !.phase = "write"] \in PutCalls
  BY DEF PutCalls
<1>4. WorkOK'
  BY <1>3 DEF TypeInv, WorkOK, HandleForwardUpdate
<1>5. QED
  BY <1>2, <1>4, AwayFromPings DEF TypeInv, StoreTypeOK, HandleForwardUpdate,
     clients, ClientsOK, CountersOK

LEMMA ForwardErrorType ==
  ASSUME TypeInv, NEW p \in puts, ForwardError(p)
  PROVE  StoreTypeOK'
<1>1. [p EXCEPT !.phase = "write"] \in PutCalls
  BY DEF TypeInv, WorkOK, PutCalls
<1>2. WorkOK' /\ timeouts' \in Nat
  BY <1>1 DEF TypeInv, WorkOK, CountersOK, ForwardError
<1>3. QED
  BY <1>2, AwayFromPings DEF TypeInv, StoreTypeOK, ForwardError, clients, KvOK,
     ClientsOK, CountersOK

LEMMA WritePutType ==
  ASSUME TypeInv, NEW p \in puts, WritePut(p)
  PROVE  StoreTypeOK'
<1>1. p.srv \in KVServer /\ p.put \in Put /\ kv[p.srv] \in KVState
  BY DEF TypeInv, WorkOK, PutCalls, KvOK
<1> DEFINE d == [kv[p.srv].data EXCEPT ![p.put.key] = p.put.value]
           k == [kv[p.srv] EXCEPT !.data = d]
<1>2. KvOK'
  <2>1. d \in Store
    BY <1>1, KVFields, StoreUpdate
  <2>2. kv' = [kv EXCEPT ![p.srv] = k]
    BY DEF WritePut
  <2> HIDE DEF d
  <2>3. k \in KVState
    BY <1>1, <2>1 DEF KVState
  <2> HIDE DEF k
  <2>4. QED
    BY <1>1, <2>2, <2>3, KvUpdate DEF TypeInv
<1>3. puts' \subseteq puts /\ ClientsOK'
  BY ConfirmType DEF WritePut
<1>4. QED
  BY <1>2, <1>3, AwayFromPings DEF TypeInv, StoreTypeOK, WritePut, WorkOK,
     CountersOK

LEMMA ClientUpdate ==
  ASSUME ClientsOK, NEW c \in Client, NEW x \in Clients,
         client' = [client EXCEPT ![c] = x],
         begun' \in Nat, confirmed' = confirmed
  PROVE  ClientsOK'
BY DEF ClientsOK

LEMMA BeginType ==
  ASSUME TypeInv, NEW c \in Client, NEW k \in Key,
         BeginPut(c, k) \/ BeginGet(c, k)
  PROVE  StoreTypeOK'
<1> DEFINE x(op, value) ==
             [client[c] EXCEPT !.op = op, !.put = [key |-> k, value |-> value]]
<1>1. client[c] \in Clients /\ begun \in Nat
  BY DEF TypeInv, ClientsOK
<1>2. ASSUME NEW op \in {"put", "get"}, NEW value \in Nat
      PROVE  x(op, value) \in Clients
  <2>1. [key |-> k, value |-> value] \in Put
    BY DEF Put
  <2>2. QED
    BY <1>1, <2>1 DEF Clients
<1>3. ClientsOK'
  <2>1. /\ begun' = begun + 1 /\ confirmed' = confirmed
        /\ \/ client' = [client EXCEPT ![c] = x("put", begun + 1)]
           \/ client' = [client EXCEPT ![c] = x("get", 0)]
    BY DEF BeginPut, BeginGet, NoValue
  <2> HIDE DEF x
  <2>2. x("put", begun + 1) \in Clients /\ x("get", 0) \in Clients
    <3>1. begun + 1 \in Nat /\ 0 \in Nat
      BY <1>1
    <3>2. QED
      BY <1>2, <3>1, ZenonT(60)
  <2>3. QED
    BY <1>1, <2>1, <2>2, ClientUpdate DEF TypeInv
<1>4. QED
  BY <1>3, AwayFromPings DEF TypeInv, StoreTypeOK, BeginPut, BeginGet, KvOK,
     WorkOK, CountersOK

LEMMA UpdatePrimaryType ==
  ASSUME TypeInv, NEW c \in Client, UpdatePrimary(c)
  PROVE  StoreTypeOK'
<1> DEFINE x == [client[c] EXCEPT !.primary = currentView.primary]
<1>1. x \in Clients
  BY ViewFields DEF TypeInv, ServiceInv, ClientsOK, Clients
<1>2. client' = [client EXCEPT ![c] = x]
  BY DEF UpdatePrimary
<1> HIDE DEF x
<1>3. ClientsOK'
  BY <1>1, <1>2, ClientUpdate DEF TypeInv, ClientsOK, UpdatePrimary
<1>4. QED
  BY <1>3, AwayFromPings DEF TypeInv, StoreTypeOK, UpdatePrimary, KvOK, WorkOK,
     CountersOK

LEMMA CallPutType ==
  ASSUME TypeInv, NEW c \in Client, CallPut(c)
  PROVE  StoreTypeOK'
<1> DEFINE s == client[c].primary
           call == [by |-> c, try |-> Attempt, srv |-> s,
                    put |-> client[c].put, phase |-> "arriving",
                    backup |-> None]
           x == [client[c] EXCEPT !.try = Attempt]
<1>1. /\ client[c] \in Clients /\ s \in Name /\ client[c].put \in Put
      /\ Attempt \in Nat
  BY AttemptType DEF TypeInv, ClientsOK, Clients
<1>2. s \in KVServer
  BY <1>1 DEF CallPut, Name
<1>3. call \in PutCalls
  BY <1>1, <1>2, NoneIsNoServer DEF PutCalls
<1>4. x \in Clients /\ Forget(c) \in Clients
  BY <1>1, ForgetType DEF Clients, TypeInv
<1>5. /\ puts' = puts \cup {call} \/ puts' = puts
      /\ \/ client' = [client EXCEPT ![c] = x]
         \/ client' = [client EXCEPT ![c] = Forget(c)]
      /\ UNCHANGED <<transfers, rpcs, begun, confirmed>>
  BY DEF CallPut
<1> HIDE DEF x, call, s
<1>6. ClientsOK'
  BY <1>4, <1>5, ClientUpdate DEF TypeInv, ClientsOK
<1>7. WorkOK'
  BY <1>3, <1>5 DEF TypeInv, WorkOK
<1>8. QED
  BY <1>6, <1>7, AwayFromPings DEF TypeInv, StoreTypeOK, CallPut, KvOK,
     CountersOK

LEMMA CallTimeoutType ==
  ASSUME TypeInv, NEW c \in Client, CallTimeout(c)
  PROVE  StoreTypeOK'
<1>1. ClientsOK' /\ timeouts' \in Nat
  BY ForgetType, ClientUpdate DEF TypeInv, ClientsOK, CountersOK, CallTimeout
<1>2. QED
  BY <1>1, AwayFromPings DEF TypeInv, StoreTypeOK, CallTimeout, KvOK, WorkOK,
     CountersOK

LEMMA GetType ==
  ASSUME TypeInv, NEW c \in Client, Get(c)
  PROVE  StoreTypeOK'
<1> DEFINE x == [client[c] EXCEPT !.op = "idle"]
<1>1. x \in Clients /\ Forget(c) \in Clients
  BY ForgetType DEF TypeInv, ClientsOK, Clients
<1>2. \/ client' = [client EXCEPT ![c] = x]
      \/ client' = [client EXCEPT ![c] = Forget(c)]
  BY DEF Get
<1> HIDE DEF x
<1>3. ClientsOK'
  BY <1>1, <1>2, ClientUpdate DEF TypeInv, ClientsOK, Get
<1>4. QED
  BY <1>3, AwayFromPings DEF TypeInv, StoreTypeOK, Get, KvOK, WorkOK, CountersOK

-----------------------------------------------------------------------------
(* The steps on the store, which leave views and roles alone, and the      *)
(* steps of pings and crashes.                                             *)

StoreNext ==
  \/ \E t \in transfers : TransferNext(t)
  \/ \E p \in puts : PutNext(p)
  \/ \E m \in rpcs : HandleSyncState(m) \/ HandleForwardUpdate(m)
  \/ \E c \in Client : ClientNext(c)

PingNext ==
  \/ TickerFires
  \/ \E s \in KVServer : ServerNext(s)
  \/ \E c \in calls : HandlePing(c)

LEMMA NextParts == Next <=> StoreNext \/ PingNext
  BY DEF Next, StoreNext, PingNext

LEMMA StoreNextType ==
  ASSUME TypeInv, StoreNext
  PROVE  StoreTypeOK'
BY BeginTransferType, HandleSyncStateType, FinishTransferType,
   TransferErrorType, ReplayType, RefusePutType, QueuePutType, ForwardPutType,
   HandleForwardUpdateType, ForwardErrorType, WritePutType, BeginType,
   UpdatePrimaryType, CallPutType, CallTimeoutType, GetType
   DEF StoreNext, TransferNext, PutNext, ClientNext

LEMMA PingNextType ==
  ASSUME TypeInv, PingNext
  PROVE  StoreTypeOK'
BY SendPingType, ReadNumberType, ReadNamesType, HandlePingType,
   PingTimeoutType, PingsLapseType, TickerFiresType, CrashType, StartType
   DEF PingNext, ServerNext

SameRoles(s) ==
  /\ kv'[s].currentView = kv[s].currentView
  /\ kv'[s].role = kv[s].role
  /\ kv'[s].lastBackup = kv[s].lastBackup

LEMMA StoreNextRoles ==
  ASSUME TypeInv, StoreNext
  PROVE  /\ UNCHANGED <<serviceVars, pings, crashes>>
         /\ \A s \in KVServer : SameRoles(s)
<1>1. ASSUME UNCHANGED kv
      PROVE  \A s \in KVServer : SameRoles(s)
  BY <1>1 DEF SameRoles
<1>2. kv \in [KVServer -> KVState]
  BY DEF TypeInv, KvOK
<1>3. ASSUME NEW t \in transfers, TransferNext(t)
      PROVE  /\ UNCHANGED <<serviceVars, pings, crashes>>
             /\ \A s \in KVServer : SameRoles(s)
  <2>1. UNCHANGED <<serviceVars, pings, crashes>>
    BY <1>3 DEF TransferNext, BeginTransfer, FinishTransfer, TransferError, Replay
  <2>2. CASE BeginTransfer(t)
    BY <1>2, <2>1, <2>2 DEF BeginTransfer, SameRoles, KVState
  <2>3. CASE FinishTransfer(t)
    BY <1>2, <2>1, <2>3 DEF FinishTransfer, Drained, SameRoles, KVState
  <2>4. CASE TransferError(t)
    BY <1>2, <2>1, <2>4 DEF TransferError, FailTransfer, SameRoles, KVState
  <2>5. CASE Replay(t)
    BY <1>1, <2>1, <2>5 DEF Replay
  <2>6. QED
    BY <1>3, <2>2, <2>3, <2>4, <2>5 DEF TransferNext
<1>4. ASSUME NEW p \in puts, PutNext(p)
      PROVE  /\ UNCHANGED <<serviceVars, pings, crashes>>
             /\ \A s \in KVServer : SameRoles(s)
  <2>1. UNCHANGED <<serviceVars, pings, crashes>>
    BY <1>4 DEF PutNext, RefusePut, QueuePut, ForwardPut, ForwardError, WritePut
  <2>2. CASE QueuePut(p)
    BY <1>2, <2>1, <2>2 DEF QueuePut, SameRoles, KVState
  <2>3. CASE WritePut(p)
    BY <1>2, <2>1, <2>3 DEF WritePut, SameRoles, KVState
  <2>4. CASE RefusePut(p) \/ ForwardPut(p) \/ ForwardError(p)
    BY <1>1, <2>1, <2>4 DEF RefusePut, ForwardPut, ForwardError
  <2>5. QED
    BY <1>4, <2>2, <2>3, <2>4 DEF PutNext
<1>5. ASSUME NEW m \in rpcs, HandleSyncState(m) \/ HandleForwardUpdate(m)
      PROVE  /\ UNCHANGED <<serviceVars, pings, crashes>>
             /\ \A s \in KVServer : SameRoles(s)
  <2>1. UNCHANGED <<serviceVars, pings, crashes>>
    BY <1>5 DEF HandleSyncState, HandleForwardUpdate
  <2>2. CASE HandleSyncState(m)
    BY <1>2, <2>1, <2>2 DEF HandleSyncState, SameRoles, KVState
  <2>3. CASE HandleForwardUpdate(m) /\ kv[m.dst].role = "backup"
    BY <1>2, <2>1, <2>3 DEF HandleForwardUpdate, SameRoles, KVState
  <2>4. CASE HandleForwardUpdate(m) /\ kv[m.dst].role # "backup"
    BY <1>1, <2>1, <2>4 DEF HandleForwardUpdate
  <2>5. QED
    BY <1>5, <2>2, <2>3, <2>4
<1>6. ASSUME NEW c \in Client, ClientNext(c)
      PROVE  /\ UNCHANGED <<serviceVars, pings, crashes>>
             /\ \A s \in KVServer : SameRoles(s)
  BY <1>1, <1>6 DEF ClientNext, BeginPut, BeginGet, UpdatePrimary, CallPut,
     CallTimeout, Get
<1>7. QED
  BY <1>3, <1>4, <1>5, <1>6 DEF StoreNext

LEMMA ServiceNext ==
  ASSUME TypeInv, [Next]_vars
  PROVE  ServiceInv' /\ ServiceStep
<1>1. ServiceInv
  BY DEF TypeInv
<1>2. CASE UNCHANGED serviceVars
  BY <1>1, <1>2, UnchangedSafe
<1>3. ASSUME NEW c \in calls, HandlePing(c)
      PROVE  ServiceInv' /\ ServiceStep
  <2>1. c.srv \in KVServer /\ c.num \in Nat
    BY DEF TypeInv, PingsOK, PingCalls
  <2>2. QED
    BY <1>1, <1>3, <2>1, PingSafe DEF HandlePing
<1>4. CASE TickerFires
  BY <1>1, <1>4, TickSafe DEF TickerFires
<1>5. ASSUME NEW s \in KVServer, ServerNext(s)
      PROVE  ServiceInv' /\ ServiceStep
  <2>1. CASE PingsLapse(s)
    BY <1>1, <2>1, LapseSafe DEF PingsLapse
  <2>2. CASE ~PingsLapse(s)
    BY <1>2, <1>5, <2>2 DEF ServerNext, SendPing, ReadNumber, ReadNames,
       PingTimeout, Crash, Start
  <2>3. QED
    BY <2>1, <2>2
<1>6. CASE StoreNext
  BY <1>2, <1>6, StoreNextRoles
<1>7. CASE UNCHANGED vars
  BY <1>2, <1>7 DEF vars
<1>8. QED
  BY <1>3, <1>4, <1>5, <1>6, <1>7, NextParts DEF PingNext

LEMMA TypeInit == ASSUME Init PROVE TypeInv
<1>1. ServiceInv
  BY InitSafe DEF Init
<1>2. PingsOK /\ KvOK
  BY FreshKVType DEF Init, PingsOK, KvOK
<1>3. ClientsOK
  <2>1. PICK k \in Key : client = [c \in Client |-> IdleClient(k)]
    BY DEF Init
  <2>2. IdleClient(k) \in Clients
    BY NoneIsNoServer DEF IdleClient, Clients, Put, NoValue
  <2>3. QED
    BY <2>1, <2>2, EmptyStoreType DEF Init, ClientsOK
<1>4. WorkOK /\ CountersOK
  BY DEF Init, WorkOK, CountersOK
<1>5. QED
  BY <1>1, <1>2, <1>3, <1>4 DEF TypeInv

LEMMA TypeNext ==
  ASSUME TypeInv, [Next]_vars
  PROVE  TypeInv'
<1>1. StoreTypeOK'
  <2>1. CASE UNCHANGED vars
    BY <2>1 DEF TypeInv, StoreTypeOK, vars, pings, clients, PingsOK, KvOK,
       WorkOK, ClientsOK, CountersOK
  <2>2. QED
    BY <2>1, StoreNextType, PingNextType, NextParts
<1>2. QED
  BY <1>1, ServiceNext DEF TypeInv, StoreTypeOK

LEMMA TypeInvariant == Spec => []TypeInv
<1>1. Init => TypeInv
  BY TypeInit
<1>2. TypeInv /\ [Next]_vars => TypeInv'
  BY TypeNext
<1>3. QED
  BY <1>1, <1>2, PTL DEF Spec

\* The state of servers, clients, calls and service stays what it is declared
\* to be; in particular no replay runs out of queued Puts.
THEOREM TypeCorrect == Spec => []TypeOK
  BY TypeInvariant, TypeParts, PTL

-----------------------------------------------------------------------------
(* Views and roles. No server is ahead of the service, so a server that     *)
(* holds the current number got it from the current view: the names that    *)
(* gRPC reads after the number are of that view or of a later one.          *)

RolesInv ==
  /\ UpToDate
  /\ \A s \in KVServer : /\ kv[s].currentView.num <= currentView.num
                         /\ numberRead[s] <= currentView.num
  /\ currentView.num = 0 => currentView = NoView

LEMMA RolesInit == ASSUME Init PROVE RolesInv
<1>1. currentView = NoView
  BY DEF Init, ServiceInit, currentView
<1>2. \A s \in KVServer : RoleIn(NoView, s) = "default"
  BY NoneIsNoServer DEF RoleIn, NoView
<1>3. \A s \in KVServer :
        /\ kv[s] = FreshKV /\ numberRead[s] = -1
        /\ kv[s].currentView = NoView /\ kv[s].role = "default"
        /\ kv[s].lastBackup = None
  BY DEF Init, FreshKV
<1>4. UpToDate
  BY <1>1, <1>2, <1>3 DEF UpToDate
<1>5. QED
  BY <1>1, <1>3, <1>4 DEF RolesInv, NoView

\* The view may move on under servers that keep what they know.
LEMMA RolesKept ==
  ASSUME TypeInv, RolesInv, ServiceStep, numberRead' = numberRead,
         (currentView.num \in Nat)', \A s \in KVServer : SameRoles(s)
  PROVE  RolesInv'
<1>1. /\ currentView.num \in Nat
      /\ currentView'.num \in Nat
      /\ currentView'.num >= currentView.num
      /\ currentView' # currentView => currentView'.num # currentView.num
  BY ViewFields DEF TypeInv, ServiceInv, ServiceStep
<1>2. ASSUME NEW s \in KVServer
      PROVE  /\ kv'[s].currentView.num <= currentView'.num
             /\ numberRead'[s] <= currentView'.num
             /\ kv'[s].currentView.num = currentView'.num =>
                  /\ kv'[s].currentView = currentView'
                  /\ kv'[s].role = RoleIn(currentView', s)
                  /\ kv'[s].role = "primary" =>
                       kv'[s].lastBackup = currentView'.backup
  <2>1. kv[s].currentView.num \in Nat /\ numberRead[s] \in Nat \cup {-1}
    BY KVFields DEF TypeInv, KvOK, PingsOK
  <2>2. /\ kv[s].currentView.num <= currentView.num
        /\ numberRead[s] <= currentView.num
        /\ kv[s].currentView.num = currentView.num =>
             /\ kv[s].currentView = currentView
             /\ kv[s].role = RoleIn(currentView, s)
             /\ kv[s].role = "primary" =>
                  kv[s].lastBackup = currentView.backup
    BY DEF RolesInv, UpToDate
  <2>3. SameRoles(s)
    OBVIOUS
  <2>4. /\ kv'[s].currentView.num <= currentView'.num
        /\ numberRead'[s] <= currentView'.num
    BY <1>1, <2>1, <2>2, <2>3 DEF SameRoles
  <2>5. kv'[s].currentView.num = currentView'.num =>
          /\ kv[s].currentView.num = currentView.num
          /\ currentView' = currentView
    BY <1>1, <2>1, <2>2, <2>3 DEF SameRoles
  <2>6. QED
    BY <2>2, <2>3, <2>4, <2>5 DEF SameRoles
<1>3. currentView'.num = 0 => currentView' = NoView
  BY <1>1 DEF RolesInv
<1>4. QED
  BY <1>2, <1>3 DEF RolesInv, UpToDate

LEMMA RolesReadNumber ==
  ASSUME TypeInv, RolesInv, NEW s \in KVServer, ReadNumber(s)
  PROVE  RolesInv'
<1>1. currentView.num \in Nat /\ currentView' = currentView /\ kv' = kv
  BY ViewFields DEF TypeInv, ServiceInv, ReadNumber, serviceVars, currentView
<1>2. numberRead' = [numberRead EXCEPT ![s] = currentView.num]
  BY DEF ReadNumber
<1>3. \A r \in KVServer : numberRead'[r] <= currentView.num
  BY <1>1, <1>2 DEF TypeInv, PingsOK, RolesInv
<1>4. QED
  BY <1>1, <1>3 DEF RolesInv, UpToDate

LEMMA RolesReadNames ==
  ASSUME TypeInv, RolesInv, NEW s \in KVServer, ReadNames(s)
  PROVE  RolesInv'
<1> DEFINE v == [currentView EXCEPT !.num = numberRead[s]]
           next == [kv[s] EXCEPT !.currentView = v]
           changed == numberRead[s] # kv[s].currentView.num
           k == IF changed THEN HandleViewChange(next, s) ELSE next
<1>1. /\ currentView \in View /\ currentView.num \in Nat
      /\ currentView' = currentView
  BY ViewFields DEF TypeInv, ServiceInv, ReadNames, serviceVars, currentView
<1>2. /\ numberRead[s] \in Nat /\ numberRead[s] <= currentView.num
      /\ kv[s] \in KVState
  BY DEF TypeInv, PingsOK, KvOK, RolesInv, ReadNames
<1>3. /\ v.num = numberRead[s]
      /\ numberRead[s] = currentView.num => v = currentView
  BY <1>1 DEF View
<1>4. kv' = [kv EXCEPT ![s] = k]
  BY DEF ReadNames
<1>5. k.currentView = v
  <2> HIDE DEF v
  <2>1. next.currentView = v
    BY <1>2 DEF KVState
  <2>2. HandleViewChange(next, s).currentView = next.currentView
    BY <1>2 DEF HandleViewChange, KVState
  <2>3. QED
    BY <2>1, <2>2
<1>6. changed => /\ k.role = RoleIn(v, s)
                 /\ k.role = "primary" => k.lastBackup = v.backup
  <2>1. v \in View
    BY <1>1, <1>2 DEF View
  <2> HIDE DEF v
  <2>2. next.currentView = v /\ next \in KVState
    BY <1>2, <2>1 DEF KVState
  <2> HIDE DEF next
  <2>3. QED
    BY <2>2, HandleViewChangeFields
<1>7. ~changed => k.role = kv[s].role /\ k.lastBackup = kv[s].lastBackup
  BY <1>2 DEF KVState
<1>8. k.currentView.num = currentView.num =>
        /\ k.currentView = currentView
        /\ k.role = RoleIn(currentView, s)
        /\ k.role = "primary" => k.lastBackup = currentView.backup
  <2> HIDE DEF v, k
  <2>1. CASE changed
    BY <1>3, <1>5, <1>6, <2>1
  <2>2. CASE ~changed
    BY <1>3, <1>5, <1>7, <2>2 DEF RolesInv, UpToDate
  <2>3. QED
    BY <2>1, <2>2
<1>9. \A r \in KVServer : kv'[r] = IF r = s THEN k ELSE kv[r]
  <2> HIDE DEF k
  <2>1. QED
    BY <1>4 DEF TypeInv, KvOK
<1>10. UpToDate'
  <2> HIDE DEF k
  <2>1. QED
    BY <1>1, <1>8, <1>9 DEF UpToDate, RolesInv
<1>11. \A r \in KVServer : /\ kv'[r].currentView.num <= currentView.num
                           /\ numberRead'[r] <= currentView.num
  <2> HIDE DEF k, v
  <2>1. \A r \in KVServer : kv'[r].currentView.num <= currentView.num
    BY <1>2, <1>3, <1>5, <1>9 DEF RolesInv
  <2>2. numberRead' = [numberRead EXCEPT ![s] = -1]
    BY DEF ReadNames
  <2>3. \A r \in KVServer : numberRead'[r] <= currentView.num
    BY <1>1, <2>2 DEF TypeInv, PingsOK, RolesInv
  <2>4. QED
    BY <2>1, <2>3
<1>12. QED
  BY <1>1, <1>10, <1>11 DEF RolesInv

LEMMA RolesCrash ==
  ASSUME TypeInv, RolesInv, NEW s \in KVServer, Crash(s)
  PROVE  RolesInv'
<1>1. currentView.num \in Nat /\ currentView' = currentView
  BY ViewFields DEF TypeInv, ServiceInv, Crash, serviceVars, currentView
<1>2. \A r \in KVServer : /\ kv'[r] = IF r = s THEN FreshKV ELSE kv[r]
                          /\ numberRead'[r] = IF r = s THEN -1 ELSE numberRead[r]
  BY DEF TypeInv, KvOK, PingsOK, Crash
<1>3. /\ FreshKV.currentView = NoView /\ NoView.num = 0
      /\ FreshKV.role = "default" /\ RoleIn(NoView, s) = "default"
  BY NoneIsNoServer DEF FreshKV, NoView, RoleIn
<1>4. UpToDate'
  BY <1>1, <1>2, <1>3 DEF UpToDate, RolesInv
<1>5. \A r \in KVServer : /\ kv'[r].currentView.num <= currentView.num
                          /\ numberRead'[r] <= currentView.num
  BY <1>1, <1>2, <1>3 DEF RolesInv
<1>6. QED
  BY <1>1, <1>4, <1>5 DEF RolesInv

LEMMA RolesNext ==
  ASSUME TypeInv, RolesInv, [Next]_vars
  PROVE  RolesInv'
<1>1. ServiceStep /\ (currentView.num \in Nat)'
  BY ServiceNext DEF ServiceInv, ServiceTypeOK, ViewServer, View, currentView
<1>2. ASSUME UNCHANGED <<kv, numberRead>>
      PROVE  RolesInv'
  BY <1>1, <1>2, RolesKept DEF SameRoles
<1>3. CASE StoreNext
  BY <1>1, <1>3, RolesKept, StoreNextRoles DEF pings
<1>4. CASE TickerFires
  BY <1>2, <1>4 DEF TickerFires, pings
<1>5. ASSUME NEW s \in KVServer, ServerNext(s)
      PROVE  RolesInv'
  <2>1. CASE ReadNumber(s)
    BY <2>1, RolesReadNumber
  <2>2. CASE ReadNames(s)
    BY <2>2, RolesReadNames
  <2>3. CASE Crash(s)
    BY <2>3, RolesCrash
  <2>4. CASE SendPing(s) \/ PingTimeout(s) \/ PingsLapse(s) \/ Start(s)
    BY <1>2, <2>4 DEF SendPing, PingTimeout, PingsLapse, Start
  <2>5. QED
    BY <1>5, <2>1, <2>2, <2>3, <2>4 DEF ServerNext
<1>6. ASSUME NEW c \in calls, HandlePing(c)
      PROVE  RolesInv'
  BY <1>2, <1>6 DEF HandlePing
<1>7. CASE UNCHANGED vars
  BY <1>2, <1>7 DEF vars, pings
<1>8. QED
  BY <1>3, <1>4, <1>5, <1>6, <1>7, NextParts DEF PingNext

\* A server that has the current number has the current view and its role,
\* however the reading of answers overlaps with ticks: of the servers that are
\* up to date only one believes itself primary.
THEOREM CurrentNumberCurrentRole == Spec => []UpToDate
<1>1. Init => RolesInv
  BY RolesInit
<1>2. TypeInv /\ RolesInv /\ [Next]_vars => RolesInv'
  BY RolesNext
<1>3. RolesInv => UpToDate
  BY DEF RolesInv
<1>4. QED
  BY <1>1, <1>2, <1>3, TypeInvariant, PTL DEF Spec

-----------------------------------------------------------------------------
(* The queueing of Puts. Transfers may overlap on one server: any that ends *)
(* ends the queueing for all, and the one that goes on is of no harm.       *)

Working(s) == \E t \in transfers : t.srv = s /\ t.phase \in {"sent", "synced"}

\* Nobody begins to queue, and no transfer at work goes away.
LEMMA SyncingKept ==
  ASSUME SyncingEnds, NEW S \in SUBSET KVServer,
         \A s \in S : kv'[s].syncing => kv[s].syncing \/ Working(s)',
         \A s \in S : Working(s) => Working(s)',
         \A s \in KVServer \ S : ~kv'[s].syncing
  PROVE  SyncingEnds'
BY DEF SyncingEnds, Working

LEMMA SyncingTransfer ==
  ASSUME TypeInv, SyncingEnds, NEW t \in transfers, TransferNext(t)
  PROVE  SyncingEnds'
<1>1. kv \in [KVServer -> KVState] /\ t \in Transfers /\ t.srv \in KVServer
  BY DEF TypeInv, KvOK, WorkOK, Transfers
<1>2. CASE BeginTransfer(t)
  <2> DEFINE sent == [t EXCEPT !.phase = "sent", !.try = Attempt,
                               !.copy = kv[t.srv].data]
  <2>1. sent.srv = t.srv /\ sent.phase = "sent"
    BY <1>1 DEF Transfers
  <2>2. transfers' = (transfers \ {t}) \cup {sent} /\ t.phase = "begin"
    BY <1>2 DEF BeginTransfer
  <2>3. \A s \in KVServer \ {t.srv} : kv'[s] = kv[s]
    BY <1>1, <1>2 DEF BeginTransfer
  <2> HIDE DEF sent
  <2>4. Working(t.srv)'
    BY <2>1, <2>2 DEF Working
  <2>5. \A s \in KVServer : Working(s) => Working(s)'
    BY <2>2 DEF Working
  <2>6. QED
    BY <2>3, <2>4, <2>5, SyncingKept
<1>3. CASE FinishTransfer(t) \/ TransferError(t)
  <2>1. ~kv'[t.srv].syncing
    <3>1. CASE FinishTransfer(t)
      BY <1>1, <3>1 DEF FinishTransfer, Drained, KVState
    <3>2. CASE TransferError(t)
      BY <1>1, <3>2 DEF TransferError, FailTransfer, KVState
    <3>3. QED
      BY <1>3, <3>1, <3>2
  <2>2. /\ transfers \ {t} \subseteq transfers'
        /\ \A s \in KVServer \ {t.srv} : kv'[s] = kv[s]
    BY <1>1, <1>3 DEF FinishTransfer, TransferError, FailTransfer
  <2>3. \A s \in KVServer \ {t.srv} : Working(s) => Working(s)'
    BY <2>2 DEF Working
  <2>4. QED
    BY <2>1, <2>2, <2>3, SyncingKept
<1>4. CASE Replay(t)
  <2>1. transfers \ {t} \subseteq transfers' /\ t.phase = "replay" /\ kv' = kv
    BY <1>4 DEF Replay
  <2>2. \A s \in KVServer : Working(s) => Working(s)'
    BY <2>1 DEF Working
  <2>3. QED
    BY <2>1, <2>2, SyncingKept
<1>5. QED
  BY <1>2, <1>3, <1>4 DEF TransferNext

LEMMA SyncingSyncState ==
  ASSUME TypeInv, SyncingEnds, NEW m \in rpcs, HandleSyncState(m)
  PROVE  SyncingEnds'
<1> DEFINE waiting == {t \in transfers : t.phase = "sent" /\ m \in SyncOf(t)}
           done(t) == [t EXCEPT !.phase = "synced"]
<1>1. kv \in [KVServer -> KVState] /\ transfers \subseteq Transfers
  BY DEF TypeInv, KvOK, WorkOK
<1>2. \A t \in transfers : done(t).srv = t.srv /\ done(t).phase = "synced"
  BY <1>1 DEF Transfers
<1>3. transfers' = (transfers \ waiting) \cup {done(t) : t \in waiting}
  BY DEF HandleSyncState
<1>4. waiting \subseteq transfers
  OBVIOUS
<1>5. \A s \in KVServer : kv'[s].syncing = kv[s].syncing
  BY <1>1 DEF HandleSyncState, KVState
<1>6. \A s \in KVServer : Working(s) => Working(s)'
  <2> HIDE DEF waiting, done
  <2>1. QED
    BY <1>2, <1>3, <1>4 DEF Working
<1>7. QED
  BY <1>5, <1>6, SyncingKept

LEMMA SyncingNext ==
  ASSUME TypeInv, SyncingEnds, [Next]_vars
  PROVE  SyncingEnds'
<1>1. kv \in [KVServer -> KVState]
  BY DEF TypeInv, KvOK
<1>2. ASSUME transfers' = transfers,
             \A s \in KVServer : kv'[s].syncing = kv[s].syncing
      PROVE  SyncingEnds'
  BY <1>2 DEF SyncingEnds
<1>3. ASSUME NEW p \in puts, PutNext(p)
      PROVE  SyncingEnds'
  <2>1. transfers' = transfers
    BY <1>3 DEF PutNext, RefusePut, QueuePut, ForwardPut, ForwardError, WritePut
  <2>2. CASE QueuePut(p)
    BY <1>1, <1>2, <2>1, <2>2 DEF QueuePut, KVState
  <2>3. CASE WritePut(p)
    BY <1>1, <1>2, <2>1, <2>3 DEF WritePut, KVState
  <2>4. CASE RefusePut(p) \/ ForwardPut(p) \/ ForwardError(p)
    BY <1>2, <2>1, <2>4 DEF RefusePut, ForwardPut, ForwardError
  <2>5. QED
    BY <1>3, <2>2, <2>3, <2>4 DEF PutNext
<1>4. ASSUME NEW m \in rpcs, HandleForwardUpdate(m)
      PROVE  SyncingEnds'
  BY <1>1, <1>2, <1>4 DEF HandleForwardUpdate, KVState
<1>5. ASSUME NEW s \in KVServer, ReadNames(s)
      PROVE  SyncingEnds'
  <2>1. transfers \subseteq transfers'
    BY <1>5 DEF ReadNames
  <2>2. \A k \in KVState : HandleViewChange(k, s).syncing = k.syncing
    BY DEF HandleViewChange, KVState
  <2>3. \A r \in KVServer : kv'[r].syncing = kv[r].syncing
    <3> DEFINE next == [kv[s] EXCEPT !.currentView =
                          [currentView EXCEPT !.num = numberRead[s]]]
               changed == numberRead[s] # kv[s].currentView.num
    <3>1. next.syncing = kv[s].syncing
      BY <1>1 DEF KVState
    <3>2. HandleViewChange(next, s).syncing = kv[s].syncing
      BY <1>1 DEF HandleViewChange, KVState
    <3>3. kv' = [kv EXCEPT ![s] = IF changed THEN HandleViewChange(next, s)
                                  ELSE next]
      BY <1>5 DEF ReadNames
    <3> HIDE DEF next, changed
    <3>4. QED
      BY <1>1, <3>1, <3>2, <3>3
  <2>4. \A r \in KVServer : Working(r) => Working(r)'
    BY <2>1 DEF Working
  <2>5. QED
    BY <2>3, <2>4, SyncingKept
<1>6. ASSUME NEW s \in KVServer, Crash(s)
      PROVE  SyncingEnds'
  <2>1. \A r \in KVServer : kv'[r] = IF r = s THEN FreshKV ELSE kv[r]
    BY <1>1, <1>6 DEF Crash
  <2>2. ~kv'[s].syncing
    BY <2>1 DEF FreshKV
  <2>3. \A r \in KVServer \ {s} : Working(r) => Working(r)'
    BY <1>6 DEF Crash, Working
  <2>4. QED
    BY <2>1, <2>2, <2>3, SyncingKept
<1>7. ASSUME NEW c \in Client, ClientNext(c)
      PROVE  SyncingEnds'
  BY <1>2, <1>7 DEF ClientNext, BeginPut, BeginGet, UpdatePrimary, CallPut,
     CallTimeout, Get
<1>8. ASSUME NEW s \in KVServer,
             SendPing(s) \/ ReadNumber(s) \/ PingTimeout(s) \/ PingsLapse(s)
               \/ Start(s)
      PROVE  SyncingEnds'
  BY <1>2, <1>8 DEF SendPing, ReadNumber, PingTimeout, PingsLapse, Start
<1>9. ASSUME NEW c \in calls, HandlePing(c)
      PROVE  SyncingEnds'
  BY <1>2, <1>9 DEF HandlePing
<1>10. CASE TickerFires \/ UNCHANGED vars
  BY <1>2, <1>10 DEF TickerFires, vars
<1>11. QED
  BY <1>3, <1>4, <1>5, <1>6, <1>7, <1>8, <1>9, <1>10, SyncingTransfer,
     SyncingSyncState DEF Next, ServerNext

\* Whenever a server queues Puts, a goroutine runs on it that ends the queueing:
\* every way out of a transfer, and of the server, was provided for.
THEOREM QueueingHasAnEnd == Spec => []SyncingEnds
<1>1. Init => SyncingEnds
  BY DEF Init, SyncingEnds, FreshKV
<1>2. TypeInv /\ SyncingEnds /\ [Next]_vars => SyncingEnds'
  BY SyncingNext
<1>3. QED
  BY <1>1, <1>2, TypeInvariant, PTL DEF Spec

-----------------------------------------------------------------------------
(* What the view service sees. Every step of the store is one of ViewPings  *)
(* for the service and its pings, or leaves them alone: reading the number  *)
(* of an answer tells it to the server, reading the names is not seen.      *)

pingVars == <<serviceVars, up, Told, calls, reading, crashes, delays>>

LEMMA PingVars == Pings!vars' = Pings!vars <=> UNCHANGED pingVars
BY DEF Pings!vars, Pings!serviceVars, Pings!bounds, pingVars, serviceVars

LEMMA SameService ==
  /\ Tick <=> Pings!Tick
  /\ \A s : Lapse(s) <=> Pings!Lapse(s)
  /\ \A s, num : Ping(s, num) <=> Pings!Ping(s, num)
  /\ \A s : Abandon(s) <=> Pings!Abandon(s)
<1>1. Tick <=> Pings!Tick
  BY DEF Tick, Pings!Tick, currentView, Pings!currentView, MarkDead,
     Pings!MarkDead, HandleDeadPrimary, Pings!HandleDeadPrimary,
     HandleDeadBackup, Pings!HandleDeadBackup, AssignPrimary,
     Pings!AssignPrimary, AssignBackup, Pings!AssignBackup, Fit, Pings!Fit,
     RemoveFromIdle, Pings!RemoveFromIdle, NewView, Pings!NewView, Alive,
     Pings!Alive, Dead, Pings!Dead
<1>2. \A s : Lapse(s) <=> Pings!Lapse(s)
  BY DEF Lapse, Pings!Lapse, Known, Pings!Known
<1>3. \A s, num : Ping(s, num) <=> Pings!Ping(s, num)
  BY DEF Ping, Pings!Ping, Known, Pings!Known, currentView,
     Pings!currentView, Acknowledges, Pings!Acknowledges
<1>4. \A s : Abandon(s) <=> Pings!Abandon(s)
  BY DEF Abandon, Pings!Abandon
<1>5. QED
  BY <1>1, <1>2, <1>3, <1>4

LEMMA PingsInit == Init => Pings!Init
<1>1. ServiceInit => Pings!ServiceInit
  BY DEF ServiceInit, Pings!ServiceInit, NoView, Pings!NoView
<1>2. Init => Told = [s \in KVServer |-> 0]
  BY DEF Init, Told, FreshKV, NoView
<1>3. QED
  BY <1>1, <1>2 DEF Init, Pings!Init

\* What a server is told changes with what it knows only.
LEMMA ToldKept ==
  ASSUME numberRead' = numberRead,
         \A s \in KVServer : kv'[s].currentView = kv[s].currentView
  PROVE  Told' = Told
BY DEF Told

\* What a fault needs is what ViewPings asks for.
LEMMA FaultsBounded ==
  ASSUME TypeInv, NEW fault, MayHappen(fault)
  PROVE  crashes < MaxFaults /\ delays < MaxFaults
BY StoreAssumption DEF TypeInv, CountersOK, MayHappen

LEMMA PingsSendPing ==
  ASSUME TypeInv, NEW s \in KVServer, SendPing(s)
  PROVE  Pings!SendPing(s)
<1>1. Told' = Told
  BY ToldKept DEF SendPing
<1>2. Told[s] = kv[s].currentView.num
  BY DEF Told, SendPing, Waiting
<1>3. ~Pings!Waiting(s)
  BY DEF Pings!Waiting, SendPing, Waiting
<1>4. QED
  BY <1>1, <1>2, <1>3 DEF SendPing, Pings!SendPing, Pings!serviceVars,
     serviceVars, Pings!bounds

LEMMA PingsHandlePing ==
  ASSUME NEW c \in calls, HandlePing(c)
  PROVE  Pings!HandlePing(c)
<1>1. Told' = Told
  BY ToldKept DEF HandlePing
<1>2. Pings!Ping(c.srv, c.num)
  BY SameService DEF HandlePing
<1>3. QED
  BY <1>1, <1>2 DEF HandlePing, Pings!HandlePing, Pings!bounds

LEMMA PingsReadNumber ==
  ASSUME TypeInv, NEW s \in KVServer, ReadNumber(s)
  PROVE  Pings!ReadReply(s)
<1>1. currentView.num \in Nat /\ currentView.num # -1
  BY ViewFields DEF TypeInv, ServiceInv
<1>2. \A r \in KVServer :
        numberRead'[r] = IF r = s THEN currentView.num ELSE numberRead[r]
  BY DEF TypeInv, PingsOK, ReadNumber
<1>3. Told' = [Told EXCEPT ![s] = currentView.num]
  <2>1. Told' = [r \in KVServer |-> IF numberRead'[r] # -1 THEN numberRead'[r]
                                    ELSE kv[r].currentView.num]
    BY DEF Told, ReadNumber
  <2>2. QED
    BY <1>1, <1>2, <2>1 DEF Told
<1>4. QED
  BY <1>3 DEF ReadNumber, Pings!ReadReply, Pings!serviceVars, serviceVars,
     Pings!bounds, Pings!currentView, currentView

LEMMA PingsReadNames ==
  ASSUME TypeInv, NEW s \in KVServer, ReadNames(s)
  PROVE  UNCHANGED pingVars
<1> DEFINE v == [currentView EXCEPT !.num = numberRead[s]]
           next == [kv[s] EXCEPT !.currentView = v]
           changed == numberRead[s] # kv[s].currentView.num
           k == IF changed THEN HandleViewChange(next, s) ELSE next
<1>1. /\ currentView \in View /\ numberRead[s] \in Nat /\ numberRead[s] # -1
      /\ kv[s] \in KVState
  BY ViewFields DEF TypeInv, ServiceInv, PingsOK, KvOK, ReadNames
<1>2. v.num = numberRead[s]
  BY <1>1 DEF View
<1>3. k.currentView = v
  <2> HIDE DEF v
  <2>1. next.currentView = v
    BY <1>1 DEF KVState
  <2>2. HandleViewChange(next, s).currentView = next.currentView
    BY <1>1 DEF HandleViewChange, KVState
  <2>3. QED
    BY <2>1, <2>2
<1>4. kv' = [kv EXCEPT ![s] = k] /\ numberRead' = [numberRead EXCEPT ![s] = -1]
  BY DEF ReadNames
<1>5. \A r \in KVServer :
        /\ kv'[r] = IF r = s THEN k ELSE kv[r]
        /\ numberRead'[r] = IF r = s THEN -1 ELSE numberRead[r]
  <2> HIDE DEF k
  <2>1. QED
    BY <1>4 DEF TypeInv, KvOK, PingsOK
<1>6. Told' = Told
  <2> HIDE DEF k, v
  <2>1. \A r \in KVServer :
          (IF numberRead'[r] # -1 THEN numberRead'[r]
           ELSE kv'[r].currentView.num)
          = (IF numberRead[r] # -1 THEN numberRead[r]
             ELSE kv[r].currentView.num)
    BY <1>1, <1>2, <1>3, <1>5
  <2>2. QED
    BY <2>1 DEF Told
<1>7. QED
  BY <1>6 DEF ReadNames, pingVars

LEMMA PingsPingTimeout ==
  ASSUME TypeInv, NEW s \in KVServer, PingTimeout(s)
  PROVE  Pings!PingTimeout(s)
<1>1. Told' = Told
  BY ToldKept DEF PingTimeout
<1>2. Pings!Waiting(s)
  BY DEF PingTimeout, Waiting, Pings!Waiting
<1>3. delays < MaxFaults /\ Pings!Abandon(s)
  BY FaultsBounded, SameService DEF PingTimeout
<1>4. QED
  BY <1>1, <1>2, <1>3 DEF PingTimeout, Pings!PingTimeout, Pings!serviceVars,
     serviceVars

LEMMA PingsCrash ==
  ASSUME TypeInv, NEW s \in KVServer, Crash(s)
  PROVE  Pings!Crash(s)
<1>1. \A r \in KVServer : /\ kv'[r] = IF r = s THEN FreshKV ELSE kv[r]
                          /\ numberRead'[r] = IF r = s THEN -1 ELSE numberRead[r]
  BY DEF TypeInv, KvOK, PingsOK, Crash
<1>2. FreshKV.currentView.num = 0
  BY DEF FreshKV, NoView
<1>3. Told' = [Told EXCEPT ![s] = 0]
  BY <1>1, <1>2 DEF Told
<1>4. crashes < MaxFaults /\ Pings!Abandon(s)
  BY FaultsBounded, SameService DEF Crash
<1>5. QED
  BY <1>3, <1>4 DEF Crash, Pings!Crash, Pings!serviceVars, serviceVars

LEMMA PingsStart ==
  ASSUME NEW s \in KVServer, Start(s)
  PROVE  Pings!Start(s)
<1>1. Told' = Told
  BY ToldKept DEF Start
<1>2. QED
  BY <1>1 DEF Start, Pings!Start, Pings!serviceVars, serviceVars, Pings!bounds

LEMMA PingsPingsLapse ==
  ASSUME TypeInv, NEW s \in KVServer, PingsLapse(s)
  PROVE  Pings!PingsLapse(s)
<1>1. Told' = Told
  BY ToldKept DEF PingsLapse
<1>2. Pings!Lapse(s)
  BY SameService DEF PingsLapse
<1>3. MayHappen("delay") => delays < MaxFaults
  BY FaultsBounded
<1>4. QED
  BY <1>1, <1>2, <1>3 DEF PingsLapse, Pings!PingsLapse

LEMMA PingsTickerFires ==
  ASSUME TickerFires
  PROVE  Pings!TickerFires
<1>1. Told' = Told
  BY ToldKept DEF TickerFires, pings
<1>2. QED
  BY <1>1, SameService DEF TickerFires, pings, Pings!TickerFires, Pings!bounds

LEMMA PingsNext ==
  ASSUME TypeInv, [Next]_vars
  PROVE  [Pings!Next]_Pings!vars
<1>1. CASE TickerFires
  BY <1>1, PingsTickerFires DEF Pings!Next
<1>2. ASSUME NEW s \in KVServer, ServerNext(s)
      PROVE  [Pings!Next]_Pings!vars
  <2>1. CASE ReadNames(s)
    BY <2>1, PingsReadNames, PingVars
  <2>2. CASE ~ReadNames(s)
    BY <1>2, <2>2, PingsSendPing, PingsReadNumber, PingsPingTimeout,
       PingsPingsLapse, PingsCrash, PingsStart DEF ServerNext, Pings!Next
  <2>3. QED
    BY <2>1, <2>2
<1>3. ASSUME NEW c \in calls, HandlePing(c)
      PROVE  [Pings!Next]_Pings!vars
  BY <1>3, PingsHandlePing DEF Pings!Next
<1>4. CASE StoreNext
  <2>1. /\ UNCHANGED <<serviceVars, pings, crashes>>
        /\ \A s \in KVServer : SameRoles(s)
    BY <1>4, StoreNextRoles
  <2>2. Told' = Told
    BY <2>1, ToldKept DEF pings, SameRoles
  <2>3. QED
    BY <2>1, <2>2, PingVars DEF pings, pingVars
<1>5. CASE UNCHANGED vars
  <2>1. Told' = Told
    BY <1>5, ToldKept DEF vars, pings
  <2>2. QED
    BY <1>5, <2>1, PingVars DEF vars, pings, pingVars
<1>6. QED
  BY <1>1, <1>2, <1>3, <1>4, <1>5, NextParts DEF PingNext

\* The view service with the whole store around it is the one of ViewPings,
\* whose theorems therefore hold of it: for the service it makes no difference
\* that servers take the number and the names of an answer one after the other.
THEOREM StoreImplementsPings == Spec => ImplementsPings
<1>1. Init => Pings!Init
  BY PingsInit
<1>2. TypeInv /\ [Next]_vars => [Pings!Next]_Pings!vars
  BY PingsNext
<1>3. QED
  BY <1>1, <1>2, TypeInvariant, PTL DEF Spec, ImplementsPings, Pings!Spec

-----------------------------------------------------------------------------
(* ConfirmedKept. First, no Put writes NoValue, wherever it waits.          *)

Written(queue) == \A i \in DOMAIN queue : queue[i].value # NoValue

ClientsWrite ==
  \A c \in Client : client[c].op = "put" => client[c].put.value # NoValue

PutsWrite == \A p \in puts : p.put.value # NoValue

QueuesWrite ==
  /\ \A s \in KVServer : Written(kv[s].pendingQueue)
  /\ \A t \in transfers : Written(t.pending)

ValuesInv == ClientsWrite /\ PutsWrite /\ QueuesWrite

LEMMA AppendedQueue ==
  ASSUME NEW q \in Seq(Put), NEW e \in Put
  PROVE  /\ Written(q) /\ e.value # NoValue => Written(Append(q, e))
         /\ \A k : Mentions(q, k) => Mentions(Append(q, e), k)
         /\ Mentions(Append(q, e), e.key)
<1>1. PICK n \in Nat : n = Len(q) /\ DOMAIN q = 1 .. n
  BY LenProperties
<1>2. /\ DOMAIN Append(q, e) = 1 .. n + 1 /\ Append(q, e)[n + 1] = e
      /\ \A i \in 1 .. n : Append(q, e)[i] = q[i]
  BY <1>1, AppendProperties
<1>3. \A i \in 1 .. n + 1 : i \in 1 .. n \/ i = n + 1
  BY <1>1
<1>4. Written(q) /\ e.value # NoValue => Written(Append(q, e))
  BY <1>1, <1>2, <1>3 DEF Written
<1>5. (\A i \in 1 .. n : i \in 1 .. n + 1) /\ n + 1 \in 1 .. n + 1
  BY <1>1
<1>6. QED
  BY <1>1, <1>2, <1>4, <1>5 DEF Mentions

LEMMA TakenQueue ==
  ASSUME NEW q \in Seq(Put), q # << >>
  PROVE  /\ Written(q) => Head(q).value # NoValue /\ Written(Tail(q))
         /\ \A k : Mentions(q, k) => Head(q).key = k \/ Mentions(Tail(q), k)
<1>1. PICK n \in Nat : n = Len(q) /\ DOMAIN q = 1 .. n
  BY LenProperties
<1>2. n # 0
  BY <1>1, EmptySeq
<1>3. /\ Head(q) = q[1] /\ DOMAIN Tail(q) = 1 .. n - 1
      /\ \A i \in 1 .. n - 1 : Tail(q)[i] = q[i + 1]
  BY <1>1, HeadTailProperties, LenProperties
<1>4. Written(q) => Head(q).value # NoValue /\ Written(Tail(q))
  BY <1>1, <1>2, <1>3 DEF Written
<1>5. ASSUME NEW i \in 1 .. n, i # 1
      PROVE  i - 1 \in 1 .. n - 1 /\ Tail(q)[i - 1] = q[i]
  BY <1>1, <1>3, <1>5
<1>6. \A k : Mentions(q, k) => Head(q).key = k \/ Mentions(Tail(q), k)
  BY <1>1, <1>3, <1>5 DEF Mentions
<1>7. QED
  BY <1>4, <1>6

LEMMA ClientsWriteNext ==
  ASSUME TypeInv, ValuesInv, [Next]_vars
  PROVE  ClientsWrite'
<1>1. client \in [Client -> Clients] /\ begun \in Nat
  BY DEF TypeInv, ClientsOK
<1>2. ASSUME UNCHANGED client PROVE ClientsWrite'
  BY <1>2 DEF ValuesInv, ClientsWrite
<1>3. ASSUME NEW c \in Client, NEW k \in Key, BeginPut(c, k)
      PROVE  ClientsWrite'
  <2>1. PICK p : p = [key |-> k, value |-> begun']
    OBVIOUS
  <2> DEFINE new == [client[c] EXCEPT !.op = "put", !.put = p]
  <2>2. p.value # NoValue
    BY <1>1, <1>3, <2>1 DEF BeginPut, NoValue
  <2>3. client' = [client EXCEPT ![c] = new]
    BY <1>1, <1>3, <2>1 DEF BeginPut
  <2>4. new.put = p
    BY <1>1 DEF Clients
  <2> HIDE DEF new
  <2>5. QED
    BY <1>1, <2>2, <2>3, <2>4 DEF ValuesInv, ClientsWrite
<1>4. ASSUME NEW c \in Client, NEW new \in Clients,
             client' = [client EXCEPT ![c] = new],
             new.op = "put" => client[c].op = "put" /\ new.put = client[c].put
      PROVE  ClientsWrite'
  BY <1>1, <1>4 DEF ValuesInv, ClientsWrite
<1>5. ASSUME NEW c \in Client
      PROVE  /\ Forget(c) \in Clients /\ Forget(c).op = client[c].op
             /\ Forget(c).put = client[c].put
  BY <1>1, NoneIsNoServer DEF Forget, Clients
<1>6. ASSUME NEW c \in Client, ClientNext(c)
      PROVE  ClientsWrite'
  <2>1. ASSUME NEW k \in Key, BeginGet(c, k)
        PROVE  ClientsWrite'
    <3> DEFINE p == [key |-> k, value |-> NoValue]
               new == [client[c] EXCEPT !.op = "get", !.put = p]
    <3>1. p \in Put /\ client' = [client EXCEPT ![c] = new]
      BY <2>1 DEF BeginGet, Put, NoValue
    <3> HIDE DEF p
    <3>2. new \in Clients /\ new.op = "get"
      BY <1>1, <3>1 DEF Clients
    <3> HIDE DEF new
    <3>3. QED
      BY <1>4, <3>1, <3>2
  <2>2. CASE UpdatePrimary(c)
    <3> DEFINE new == [client[c] EXCEPT !.primary = currentView.primary]
    <3>1. client' = [client EXCEPT ![c] = new] /\ currentView.primary \in Name
      BY <2>2, ViewFields DEF UpdatePrimary, TypeInv, ServiceInv
    <3>2. new \in Clients /\ new.op = client[c].op /\ new.put = client[c].put
      BY <1>1, <3>1 DEF Clients
    <3> HIDE DEF new
    <3>3. QED
      BY <1>4, <3>1, <3>2
  <2>3. CASE CallPut(c)
    <3>1. CASE client' = [client EXCEPT ![c] = Forget(c)]
      BY <1>4, <1>5, <3>1
    <3>2. CASE client' = [client EXCEPT ![c].try = Attempt]
      <4> DEFINE new == [client[c] EXCEPT !.try = Attempt]
      <4>1. client' = [client EXCEPT ![c] = new] /\ Attempt \in Nat
        BY <3>2, AttemptType DEF TypeInv
      <4>2. new \in Clients /\ new.op = client[c].op /\ new.put = client[c].put
        BY <1>1, <4>1 DEF Clients
      <4> HIDE DEF new
      <4>3. QED
        BY <1>4, <4>1, <4>2
    <3>3. QED
      BY <2>3, <3>1, <3>2 DEF CallPut
  <2>4. CASE CallTimeout(c)
    BY <1>4, <1>5, <2>4 DEF CallTimeout
  <2>5. CASE Get(c)
    <3>1. CASE client' = [client EXCEPT ![c].op = "idle"]
      <4> DEFINE new == [client[c] EXCEPT !.op = "idle"]
      <4>1. client' = [client EXCEPT ![c] = new]
        BY <3>1
      <4>2. new \in Clients /\ new.op = "idle"
        BY <1>1 DEF Clients
      <4> HIDE DEF new
      <4>3. QED
        BY <1>4, <4>1, <4>2
    <3>2. CASE client' = [client EXCEPT ![c] = Forget(c)]
      BY <1>4, <1>5, <3>2
    <3>3. QED
      BY <2>5, <3>1, <3>2 DEF Get
  <2>6. QED
    BY <1>3, <1>6, <2>1, <2>2, <2>3, <2>4, <2>5 DEF ClientNext
<1>7. ASSUME NEW p \in puts, Confirm(p)
      PROVE  ClientsWrite'
  <2>1. CASE Awaited(p)
    <3> DEFINE new == [client[p.by] EXCEPT !.op = "idle", !.try = -1]
    <3>1. p.by \in Client /\ client' = [client EXCEPT ![p.by] = new]
      BY <1>1, <1>7, <2>1 DEF Confirm, Awaited
    <3>2. new \in Clients /\ new.op = "idle"
      BY <1>1, <3>1 DEF Clients
    <3> HIDE DEF new
    <3>3. QED
      BY <1>4, <3>1, <3>2
  <2>2. CASE ~Awaited(p)
    BY <1>2, <1>7, <2>2 DEF Confirm
  <2>3. QED
    BY <2>1, <2>2
<1>8. ASSUME NEW p \in puts, PutNext(p)
      PROVE  ClientsWrite'
  <2>1. CASE QueuePut(p) \/ WritePut(p)
    BY <1>7, <2>1 DEF QueuePut, WritePut
  <2>2. CASE RefusePut(p)
    <3>1. CASE Awaited(p)
      BY <1>4, <1>5, <2>2, <3>1 DEF RefusePut, Awaited
    <3>2. CASE ~Awaited(p)
      BY <1>2, <2>2, <3>2 DEF RefusePut
    <3>3. QED
      BY <3>1, <3>2
  <2>3. CASE ForwardPut(p) \/ ForwardError(p)
    BY <1>2, <2>3 DEF ForwardPut, ForwardError, clients
  <2>4. QED
    BY <1>8, <2>1, <2>2, <2>3 DEF PutNext
<1>9. ASSUME NEW s \in KVServer, Crash(s)
      PROVE  ClientsWrite'
  <2>1. \A c \in Client : client'[c] \in {client[c], Forget(c)}
    BY <1>9 DEF Crash
  <2>2. QED
    BY <1>5, <2>1 DEF ValuesInv, ClientsWrite
<1>10. ASSUME NEW s \in KVServer, ServerNext(s), ~Crash(s)
       PROVE  ClientsWrite'
  BY <1>2, <1>10 DEF ServerNext, SendPing, ReadNumber, ReadNames, PingTimeout,
     PingsLapse, Start, clients
<1>11. CASE \/ TickerFires \/ UNCHANGED vars
            \/ \E c \in calls : HandlePing(c)
            \/ \E t \in transfers : TransferNext(t)
            \/ \E m \in rpcs : HandleSyncState(m) \/ HandleForwardUpdate(m)
  BY <1>2, <1>11 DEF TickerFires, HandlePing, TransferNext, BeginTransfer,
     FinishTransfer, TransferError, Replay, HandleSyncState,
     HandleForwardUpdate, clients, vars
<1>12. QED
  BY <1>6, <1>8, <1>9, <1>10, <1>11, NextParts DEF StoreNext, PingNext

LEMMA PutsWriteNext ==
  ASSUME TypeInv, ValuesInv, [Next]_vars
  PROVE  PutsWrite'
<1>1. puts \subseteq PutCalls /\ transfers \subseteq Transfers
  BY DEF TypeInv, WorkOK
<1>2. ASSUME puts' \subseteq puts PROVE PutsWrite'
  BY <1>2 DEF ValuesInv, PutsWrite
<1>3. ASSUME NEW t \in transfers, Replay(t)
      PROVE  PutsWrite'
  <2>1. t.pending \in Seq(Put) /\ t.pending # << >> /\ Written(t.pending)
    BY <1>1, <1>3 DEF Replay, TypeInv, WorkOK, ValuesInv, QueuesWrite, Transfers
  <2>2. Head(t.pending).value # NoValue
    BY <2>1, TakenQueue
  <2>3. \A p \in puts' : p \in puts \/ p.put = Head(t.pending)
    BY <1>3 DEF Replay
  <2>4. QED
    BY <2>2, <2>3 DEF ValuesInv, PutsWrite
<1>4. ASSUME NEW c \in Client, ClientNext(c)
      PROVE  PutsWrite'
  <2>1. CASE CallPut(c)
    <3>1. client[c].put.value # NoValue
      BY <2>1 DEF CallPut, ValuesInv, ClientsWrite
    <3>2. \A p \in puts' : p \in puts \/ p.put = client[c].put
      BY <2>1 DEF CallPut
    <3>3. QED
      BY <3>1, <3>2 DEF ValuesInv, PutsWrite
  <2>2. CASE ~CallPut(c)
    BY <1>2, <1>4, <2>2 DEF ClientNext, BeginPut, BeginGet, UpdatePrimary,
       CallTimeout, Get
  <2>3. QED
    BY <2>1, <2>2
<1>5. ASSUME NEW p \in puts, PutNext(p)
      PROVE  PutsWrite'
  <2>1. CASE ForwardPut(p) \/ ForwardError(p)
    <3>1. ASSUME ForwardPut(p)
          PROVE  \A q \in puts' : q \in puts \/ q.put = p.put
      BY <1>1, <3>1 DEF ForwardPut, PutCalls
    <3>2. ASSUME ForwardError(p)
          PROVE  \A q \in puts' : q \in puts \/ q.put = p.put
      BY <1>1, <3>2 DEF ForwardError, PutCalls
    <3>3. QED
      BY <2>1, <3>1, <3>2 DEF ValuesInv, PutsWrite
  <2>2. CASE RefusePut(p) \/ QueuePut(p) \/ WritePut(p)
    BY <1>2, <2>2 DEF RefusePut, QueuePut, WritePut, Confirm
  <2>3. QED
    BY <1>5, <2>1, <2>2 DEF PutNext
<1>6. ASSUME NEW m \in rpcs, HandleForwardUpdate(m)
      PROVE  PutsWrite'
  <2>1. \A q \in puts' : \E p \in puts : q.put = p.put
    BY <1>1, <1>6 DEF HandleForwardUpdate, PutCalls
  <2>2. QED
    BY <2>1 DEF ValuesInv, PutsWrite
<1>7. CASE \/ TickerFires \/ UNCHANGED vars
           \/ \E c \in calls : HandlePing(c)
           \/ \E s \in KVServer : ServerNext(s)
           \/ \E t \in transfers :
                BeginTransfer(t) \/ FinishTransfer(t) \/ TransferError(t)
           \/ \E m \in rpcs : HandleSyncState(m)
  BY <1>2, <1>7 DEF TickerFires, vars, HandlePing, ServerNext, SendPing,
     ReadNumber, ReadNames, PingTimeout, PingsLapse, Crash, Start,
     BeginTransfer, FinishTransfer, TransferError, HandleSyncState
<1>8. QED
  BY <1>3, <1>4, <1>5, <1>6, <1>7, NextParts
     DEF StoreNext, PingNext, TransferNext

\* A step that neither queues nor takes from a queue.
LEMMA QueuesStay ==
  ASSUME QueuesWrite,
         \A s \in KVServer : kv'[s].pendingQueue = kv[s].pendingQueue,
         \A t \in transfers' : t \in transfers
           \/ t.pending = << >> \/ \E u \in transfers : t.pending = u.pending
  PROVE  QueuesWrite'
<1>1. Written(<< >>)
  BY DEF Written
<1>2. QED
  BY <1>1 DEF QueuesWrite

\* What ReadNames does to the server, apart from its view.
LEMMA ReadNamesKeeps ==
  ASSUME TypeInv, NEW s \in KVServer, ReadNames(s)
  PROVE  /\ \A r \in KVServer : /\ kv'[r].data = kv[r].data
                                /\ kv'[r].syncing = kv[r].syncing
                                /\ kv'[r].pendingQueue = kv[r].pendingQueue
                                /\ r # s => kv'[r] = kv[r]
         /\ kv'[s].role = kv[s].role \/ kv'[s].role = RoleIn(currentView, s)
         /\ \A t \in transfers' : t \in transfers \/
              /\ t.srv = s /\ t.phase = "begin" /\ t.pending = << >>
              /\ kv'[s].role = RoleIn(currentView, s)
              /\ kv'[s].role = "primary"
              /\ t.backup = currentView.backup /\ t.backup # None
<1>1. kv \in [KVServer -> KVState] /\ currentView \in View
  BY ViewFields DEF TypeInv, KvOK, ServiceInv
<1> DEFINE v == [currentView EXCEPT !.num = numberRead[s]]
           next == [kv[s] EXCEPT !.currentView = v]
           changed == numberRead[s] # kv[s].currentView.num
           k == IF changed THEN HandleViewChange(next, s) ELSE next
           new == IF changed /\ RoleIn(next.currentView, s) = "primary"
                  THEN NewTransfer(next, s) ELSE {}
<1>2. kv' = [kv EXCEPT ![s] = k] /\ transfers' = transfers \cup new
  BY DEF ReadNames
<1>3. v.primary = currentView.primary /\ v.backup = currentView.backup
  BY <1>1 DEF View
<1>4. RoleIn(v, s) = RoleIn(currentView, s)
  BY <1>3 DEF RoleIn
<1> HIDE DEF v
<1>5. /\ next.currentView = v /\ next.data = kv[s].data
      /\ next.role = kv[s].role /\ next.syncing = kv[s].syncing
      /\ next.pendingQueue = kv[s].pendingQueue
      /\ DOMAIN next = DOMAIN kv[s]
  BY <1>1 DEF KVState
<1>6. next.currentView.backup = currentView.backup
  BY <1>3, <1>5
<1> HIDE DEF next
<1>7. LET h == HandleViewChange(next, s)
      IN  /\ h.data = next.data /\ h.syncing = next.syncing
          /\ h.pendingQueue = next.pendingQueue
          /\ h.role = RoleIn(next.currentView, s)
  BY <1>1, <1>5 DEF HandleViewChange, KVState
<1>8. /\ k.data = kv[s].data /\ k.syncing = kv[s].syncing
      /\ k.pendingQueue = kv[s].pendingQueue
      /\ changed => k.role = RoleIn(currentView, s)
      /\ ~changed => k.role = kv[s].role
  BY <1>4, <1>5, <1>7
<1>9. \A t \in new :
        /\ t.srv = s /\ t.phase = "begin" /\ t.pending = << >>
        /\ changed /\ RoleIn(currentView, s) = "primary"
        /\ t.backup = currentView.backup /\ t.backup # None
  BY <1>4, <1>5, <1>6 DEF NewTransfer
<1> HIDE DEF k, new, changed
<1>10. kv'[s] = k /\ \A r \in KVServer : r # s => kv'[r] = kv[r]
  BY <1>1, <1>2
<1>11. QED
  BY <1>2, <1>8, <1>9, <1>10

LEMMA QueuesWriteNext ==
  ASSUME TypeInv, ValuesInv, [Next]_vars
  PROVE  QueuesWrite'
<1>1. /\ kv \in [KVServer -> KVState] /\ transfers \subseteq Transfers
      /\ puts \subseteq PutCalls /\ QueuesWrite /\ KvOK
  BY DEF TypeInv, WorkOK, KvOK, ValuesInv
<1>2. ASSUME \A s \in KVServer : kv'[s].pendingQueue = kv[s].pendingQueue,
             transfers' \subseteq transfers
      PROVE  QueuesWrite'
  BY <1>1, <1>2, QueuesStay
<1>3. ASSUME NEW t \in transfers, BeginTransfer(t)
      PROVE  QueuesWrite'
  <2>1. \A s \in KVServer : kv'[s].pendingQueue = kv[s].pendingQueue
    BY <1>1, <1>3 DEF BeginTransfer, KVState
  <2>2. \A u \in transfers' : u \in transfers \/ u.pending = t.pending
    BY <1>1, <1>3 DEF BeginTransfer, Transfers
  <2>3. QED
    BY <1>1, <2>1, <2>2, QueuesStay
<1>4. ASSUME NEW t \in transfers, FinishTransfer(t)
      PROVE  QueuesWrite'
  <2>1. t.srv \in KVServer /\ kv[t.srv] \in KVState
    BY <1>1 DEF Transfers
  <2>2. \A s \in KVServer : \/ kv'[s].pendingQueue = << >>
                            \/ kv'[s].pendingQueue = kv[s].pendingQueue
    BY <1>1, <1>4, <2>1 DEF FinishTransfer, Drained, KVState
  <2>3. \A u \in transfers' :
          u \in transfers \/ u.pending = kv[t.srv].pendingQueue
    BY <1>1, <1>4 DEF FinishTransfer, Transfers
  <2>4. Written(<< >>)
    BY DEF Written
  <2>5. QED
    BY <1>1, <2>1, <2>2, <2>3, <2>4 DEF QueuesWrite
<1>5. ASSUME NEW t \in transfers, TransferError(t)
      PROVE  QueuesWrite'
  <2>1. \A s \in KVServer : kv'[s].pendingQueue = kv[s].pendingQueue
    BY <1>1, <1>5 DEF TransferError, FailTransfer, KVState
  <2>2. QED
    BY <1>2, <1>5, <2>1 DEF TransferError, FailTransfer
<1>6. ASSUME NEW t \in transfers, Replay(t)
      PROVE  QueuesWrite'
  <2>1. t.pending \in Seq(Put) /\ t.pending # << >> /\ Written(t.pending)
    BY <1>1, <1>6 DEF Replay, TypeInv, WorkOK, QueuesWrite, Transfers
  <2>2. Written(Tail(t.pending))
    BY <2>1, TakenQueue
  <2>3. /\ kv' = kv
        /\ \A u \in transfers' : u \in transfers \/ u.pending = Tail(t.pending)
    BY <1>1, <1>6 DEF Replay, Transfers
  <2>4. QED
    BY <1>1, <2>2, <2>3 DEF QueuesWrite
<1>7. ASSUME NEW m \in rpcs, HandleSyncState(m)
      PROVE  QueuesWrite'
  <2>1. \A s \in KVServer : kv'[s].pendingQueue = kv[s].pendingQueue
    BY <1>1, <1>7 DEF HandleSyncState, KVState
  <2>2. \A u \in transfers' : \E t \in transfers : u.pending = t.pending
    BY <1>1, <1>7 DEF HandleSyncState, Transfers
  <2>3. QED
    BY <1>1, <2>1, <2>2, QueuesStay
<1>8. ASSUME NEW m \in rpcs, HandleForwardUpdate(m)
      PROVE  QueuesWrite'
  BY <1>1, <1>2, <1>8 DEF HandleForwardUpdate, KVState
<1>9. ASSUME NEW p \in puts, PutNext(p)
      PROVE  QueuesWrite'
  <2>1. transfers' = transfers
    BY <1>9 DEF PutNext, RefusePut, QueuePut, ForwardPut, ForwardError, WritePut
  <2>2. CASE QueuePut(p)
    <3>1. p.srv \in KVServer /\ p.put \in Put /\ p.put.value # NoValue
      BY <1>1 DEF PutCalls, ValuesInv, PutsWrite
    <3>2. kv[p.srv].pendingQueue \in Seq(Put) /\ Written(kv[p.srv].pendingQueue)
      BY <1>1, <3>1, KVFields DEF QueuesWrite
    <3>3. Written(Append(kv[p.srv].pendingQueue, p.put))
      BY <3>1, <3>2, AppendedQueue
    <3>4. \A s \in KVServer :
            \/ kv'[s].pendingQueue = kv[s].pendingQueue
            \/ kv'[s].pendingQueue = Append(kv[p.srv].pendingQueue, p.put)
      BY <1>1, <2>2, <3>1 DEF QueuePut, KVState
    <3>5. QED
      BY <1>1, <2>1, <3>3, <3>4 DEF QueuesWrite
  <2>3. CASE WritePut(p)
    BY <1>1, <1>2, <2>1, <2>3 DEF WritePut, KVState
  <2>4. CASE RefusePut(p) \/ ForwardPut(p) \/ ForwardError(p)
    BY <1>2, <2>1, <2>4 DEF RefusePut, ForwardPut, ForwardError
  <2>5. QED
    BY <1>9, <2>2, <2>3, <2>4 DEF PutNext
<1>10. ASSUME NEW s \in KVServer, ReadNames(s)
       PROVE  QueuesWrite'
  BY <1>1, <1>10, ReadNamesKeeps, QueuesStay
<1>11. ASSUME NEW s \in KVServer, Crash(s)
       PROVE  QueuesWrite'
  <2>1. \A r \in KVServer : kv'[r] = kv[r] \/ kv'[r].pendingQueue = << >>
    BY <1>1, <1>11 DEF Crash, FreshKV
  <2>2. transfers' \subseteq transfers /\ Written(<< >>)
    BY <1>11 DEF Crash, Written
  <2>3. QED
    BY <1>1, <2>1, <2>2 DEF QueuesWrite
<1>12. CASE \/ TickerFires \/ UNCHANGED vars
            \/ \E c \in calls : HandlePing(c)
            \/ \E c \in Client : ClientNext(c)
            \/ \E s \in KVServer :
                 \/ SendPing(s) \/ ReadNumber(s) \/ PingTimeout(s)
                 \/ PingsLapse(s) \/ Start(s)
  BY <1>2, <1>12 DEF TickerFires, vars, HandlePing, ClientNext, BeginPut,
     BeginGet, UpdatePrimary, CallPut, CallTimeout, Get, SendPing, ReadNumber,
     PingTimeout, PingsLapse, Start
<1>13. QED
  BY <1>3, <1>4, <1>5, <1>6, <1>7, <1>8, <1>9, <1>10, <1>11, <1>12, NextParts
     DEF StoreNext, PingNext, TransferNext, ServerNext

LEMMA ValuesInvariance == Spec => []ValuesInv
<1>1. Init => ValuesInv
  BY DEF Init, ValuesInv, ClientsWrite, PutsWrite, QueuesWrite, Written,
     IdleClient, FreshKV
<1>2. TypeInv /\ ValuesInv /\ [Next]_vars => ValuesInv'
  BY ClientsWriteNext, PutsWriteNext, QueuesWriteNext DEF ValuesInv
<1>3. QED
  BY <1>1, <1>2, TypeInvariant, PTL DEF Spec

-----------------------------------------------------------------------------
(* As long as the first primary is in office and has not crashed, it is the *)
(* only server that serves, whatever happens to the others: whose names a   *)
(* server may read, it reads no other primary.                              *)

NobodyDown == crashes = 0 => up = KVServer

Calm == \A s \in KVServer : Serving(s) => s = currentView.primary

PrimaryCrashes == \E s \in KVServer : Serving(s) /\ Crash(s)

LEMMA WhoRuns ==
  ASSUME [Next]_vars
  PROVE  \/ \E s \in KVServer : Crash(s)
         \/ /\ crashes' = crashes
            /\ \/ up' = up
               \/ \E s \in Returning \ up : up' = up \cup {s}
<1> DEFINE Same == crashes' = crashes /\ up' = up
<1>1. ASSUME NEW s \in KVServer, ServerNext(s)
      PROVE  Same \/ Start(s) \/ Crash(s)
  BY <1>1 DEF ServerNext, SendPing, ReadNumber, ReadNames, PingTimeout,
     PingsLapse
<1>2. ASSUME NEW t \in transfers, TransferNext(t)
      PROVE  Same
  BY <1>2 DEF TransferNext, BeginTransfer, FinishTransfer, TransferError,
     Replay, pings
<1>3. ASSUME NEW p \in puts, PutNext(p)
      PROVE  Same
  BY <1>3 DEF PutNext, RefusePut, QueuePut, ForwardPut, ForwardError, WritePut,
     pings
<1>4. ASSUME NEW c \in Client, ClientNext(c)
      PROVE  Same
  BY <1>4 DEF ClientNext, BeginPut, BeginGet, UpdatePrimary, CallPut,
     CallTimeout, Get, pings
<1>5. ASSUME \/ TickerFires \/ UNCHANGED vars
             \/ \E c \in calls : HandlePing(c)
             \/ \E m \in rpcs : HandleSyncState(m) \/ HandleForwardUpdate(m)
      PROVE  Same
  BY <1>5 DEF TickerFires, HandlePing, HandleSyncState, HandleForwardUpdate,
     pings, vars
<1>6. Same \/ \E s \in KVServer : Start(s) \/ Crash(s)
  BY <1>1, <1>2, <1>3, <1>4, <1>5 DEF Next
<1>7. QED
  BY <1>6 DEF Start

LEMMA NobodyDownNext ==
  ASSUME TypeInv, NobodyDown, [Next]_vars
  PROVE  NobodyDown'
<1>1. crashes \in Nat /\ up' \subseteq KVServer
  BY TypeNext DEF TypeInv, CountersOK, PingsOK
<1>2. QED
  BY <1>1, WhoRuns DEF NobodyDown, Crash

\* Only a tick changes the names of the view, or when the primary came.
LEMMA OfficeKept ==
  ASSUME TypeInv, [Next]_vars, ~TickerFires
  PROVE  currentView' = currentView /\ since' = since
<1>1. CASE UNCHANGED serviceVars
  BY <1>1 DEF serviceVars, currentView
<1>2. ASSUME NEW c \in calls, HandlePing(c)
      PROVE  currentView' = currentView /\ since' = since
  <2>1. Ping(c.srv, c.num)
    BY <1>2 DEF HandlePing
  <2>2. c.srv \in KVServer /\ service \in ViewServer
    BY ViewFields DEF TypeInv, ServiceInv, PingsOK, PingCalls
  <2>3. QED
    BY <2>1, <2>2, PingKeepsView DEF Ping, TypeInv, ServiceInv
<1>3. ASSUME NEW s \in KVServer, ServerNext(s)
      PROVE  currentView' = currentView /\ since' = since
  BY <1>1, <1>3 DEF ServerNext, SendPing, ReadNumber, ReadNames, PingTimeout,
     PingsLapse, Lapse, Crash, Start, currentView
<1>4. CASE StoreNext
  BY <1>1, <1>4, StoreNextRoles
<1>5. CASE UNCHANGED vars
  BY <1>1, <1>5 DEF vars
<1>6. QED
  BY <1>2, <1>3, <1>4, <1>5, NextParts DEF PingNext

\* A step after which the first primary runs has found it running: a primary
\* that follows another one comes with a view of a higher number than 1.
LEMMA FirstPrimaryStays ==
  ASSUME TypeInv, RolesInv, NobodyDown, [Next]_vars, FirstPrimaryRuns'
  PROVE  /\ FirstPrimaryRuns
         /\ currentView.primary # None =>
              currentView'.primary = currentView.primary
         /\ \A s \in KVServer : Crash(s) => s # currentView.primary
<1>1. /\ since \in Nat /\ since <= currentView.num /\ currentView.num \in Nat
      /\ currentView'.num \in Nat /\ crashes \in Nat
      /\ currentView.num = 0 => currentView.primary = None
  <2>1. /\ since \in Nat /\ since <= currentView.num
        /\ currentView.num \in Nat /\ crashes \in Nat
    BY ViewFields DEF TypeInv, ServiceInv, CountersOK
  <2>2. ServiceTypeOK'
    BY ServiceNext DEF ServiceInv
  <2>3. currentView'.num \in Nat
    BY <2>2, ServerFields DEF ServiceTypeOK, currentView, View
  <2>4. currentView.num = 0 => currentView.primary = None
    BY DEF RolesInv, NoView
  <2>5. QED
    BY <2>1, <2>3, <2>4
<1>2. /\ currentView'.num >= currentView.num
      /\ currentView' # currentView => currentView'.num # currentView.num
  BY ServiceNext DEF ServiceStep
<1>3. since' <= 1
  BY DEF FirstPrimaryRuns
<1>4. /\ since <= 1
      /\ currentView.primary # None =>
           currentView'.primary = currentView.primary
  <2>1. CASE TickerFires
    <3>1. since' = IF currentView'.primary # currentView.primary
                   THEN currentView'.num ELSE since
      BY <2>1 DEF TickerFires, Tick
    <3>2. QED
      BY <1>1, <1>2, <1>3, <3>1
  <2>2. CASE ~TickerFires
    BY <1>3, <2>2, OfficeKept
  <2>3. QED
    BY <2>1, <2>2
<1>5. ASSUME currentView.primary # None
      PROVE  /\ currentView.primary \in up'
             /\ crashes' = 0 \/ currentView.primary \notin Returning
  <2>1. currentView'.primary = currentView.primary
    BY <1>4, <1>5
  <2>2. QED
    BY <1>5, <2>1 DEF FirstPrimaryRuns
<1>6. ASSUME NEW s \in KVServer, Crash(s)
      PROVE  s # currentView.primary
  BY <1>5, <1>6, NoneIsNoServer DEF Crash
<1>7. ASSUME currentView.primary # None
      PROVE  /\ currentView.primary \in up
             /\ crashes = 0 \/ currentView.primary \notin Returning
  <2>1. CASE \E s \in KVServer : Crash(s)
    BY <1>1, <1>5, <1>7, <2>1 DEF Crash
  <2>2. CASE crashes' = crashes /\ up' = up
    BY <1>5, <1>7, <2>2
  <2>3. CASE /\ crashes' = crashes
             /\ \E s \in Returning \ up : up' = up \cup {s}
    BY <1>5, <1>7, <2>3, StoreAssumption DEF NobodyDown
  <2>4. QED
    BY <2>1, <2>2, <2>3, WhoRuns
<1>8. QED
  BY <1>4, <1>6, <1>7 DEF FirstPrimaryRuns

\* Who serves after a step served before it, or read that it is primary.
LEMMA WhoServes ==
  ASSUME TypeInv, [Next]_vars, NEW s \in KVServer, Serving(s)'
  PROVE  Serving(s) \/ s = currentView.primary
<1>1. kv \in [KVServer -> KVState]
  BY DEF TypeInv, KvOK
<1>2. ASSUME NEW r \in KVServer, ReadNames(r)
      PROVE  Serving(s) \/ s = currentView.primary
  <2>1. /\ s # r => kv'[s] = kv[s]
        /\ kv'[r].role = kv[r].role \/ kv'[r].role = RoleIn(currentView, r)
    BY <1>2, ReadNamesKeeps
  <2>2. RoleIn(currentView, r) = "primary" => r = currentView.primary
    BY DEF RoleIn
  <2>3. QED
    BY <2>1, <2>2 DEF Serving
<1>3. ASSUME NEW r \in KVServer, Crash(r)
      PROVE  Serving(s)
  BY <1>1, <1>3 DEF Crash, FreshKV, Serving
<1>4. ASSUME NEW r \in KVServer, ServerNext(r), ~ReadNames(r), ~Crash(r)
      PROVE  Serving(s)
  BY <1>4 DEF ServerNext, SendPing, ReadNumber, PingTimeout, PingsLapse, Start,
     Serving
<1>5. CASE StoreNext
  BY <1>5, StoreNextRoles DEF SameRoles, Serving
<1>6. CASE TickerFires \/ UNCHANGED vars \/ \E c \in calls : HandlePing(c)
  BY <1>6 DEF TickerFires, HandlePing, vars, Serving
<1>7. QED
  BY <1>2, <1>3, <1>4, <1>5, <1>6, NextParts DEF PingNext

LEMMA CalmNext ==
  ASSUME TypeInv, RolesInv, NobodyDown, Calm, [Next]_vars, FirstPrimaryRuns'
  PROVE  Calm' /\ ~PrimaryCrashes
<1>1. /\ currentView.primary # None =>
           currentView'.primary = currentView.primary
      /\ \A s \in KVServer : Crash(s) => s # currentView.primary
  BY FirstPrimaryStays
<1>2. ASSUME NEW s \in KVServer, Serving(s)'
      PROVE  s = currentView'.primary
  BY <1>1, <1>2, WhoServes, NoneIsNoServer DEF Calm
<1>3. QED
  BY <1>1, <1>2 DEF Calm, PrimaryCrashes

-----------------------------------------------------------------------------
(* Meanwhile the goroutines at work are those of the first primary: its     *)
(* transfers are to another server, and the Puts that are forwarded,        *)
(* written or replayed are its own.                                         *)

TransfersAtWork ==
  \A t \in transfers : Serving(t.srv) /\ t.backup \in KVServer \ {t.srv}

SyncsAtWork ==
  \A m \in rpcs : m.type = "SyncState" => Serving(m.src) /\ m.dst # m.src

PutsAtWork ==
  \A p \in puts : p.phase # "arriving" \/ p.by \notin Client => Serving(p.srv)

AtWork == TransfersAtWork /\ SyncsAtWork /\ PutsAtWork

LEMMA ServingStays ==
  ASSUME TypeInv, Calm, ~PrimaryCrashes, [Next]_vars
  PROVE  \A s \in KVServer : Serving(s) => Serving(s)'
<1>1. ASSUME NEW s \in KVServer, ReadNames(s)
      PROVE  \A r \in KVServer : Serving(r) => Serving(r)'
  <2>1. /\ \A r \in KVServer : r # s => kv'[r] = kv[r]
        /\ kv'[s].role = kv[s].role \/ kv'[s].role = RoleIn(currentView, s)
    BY <1>1, ReadNamesKeeps
  <2>2. Serving(s) => RoleIn(currentView, s) = "primary"
    BY DEF Calm, RoleIn
  <2>3. QED
    BY <2>1, <2>2 DEF Serving
<1>2. ASSUME NEW s \in KVServer, ServerNext(s), ~ReadNames(s)
      PROVE  \A r \in KVServer : Serving(r) => kv'[r] = kv[r]
  <2>1. CASE Crash(s)
    <3>1. ~Serving(s) /\ kv' = [kv EXCEPT ![s] = FreshKV]
      BY <2>1 DEF PrimaryCrashes, Crash
    <3>2. QED
      BY <3>1 DEF TypeInv, KvOK
  <2>2. CASE ~Crash(s)
    BY <1>2, <2>2 DEF ServerNext, SendPing, ReadNumber, PingTimeout, PingsLapse,
       Start
  <2>3. QED
    BY <2>1, <2>2
<1>3. CASE \A r \in KVServer : Serving(r) => kv'[r] = kv[r]
  BY <1>3 DEF Serving
<1>4. CASE StoreNext
  BY <1>4, StoreNextRoles DEF SameRoles, Serving
<1>5. CASE TickerFires \/ UNCHANGED vars \/ \E c \in calls : HandlePing(c)
  BY <1>3, <1>5 DEF TickerFires, HandlePing, vars
<1>6. QED
  BY <1>1, <1>2, <1>3, <1>4, <1>5, NextParts DEF PingNext

\* Steps that add no transfer.
LEMMA TransfersStay ==
  ASSUME TypeInv, TransfersAtWork,
         \A s \in KVServer : Serving(s) => Serving(s)',
         \A u \in transfers' : u \in transfers \/
           \E t \in transfers : u.srv = t.srv /\ u.backup = t.backup
  PROVE  TransfersAtWork'
<1>1. \A t \in transfers : t.srv \in KVServer
  BY DEF TypeInv, WorkOK, Transfers
<1>2. QED
  BY <1>1 DEF TransfersAtWork

LEMMA BeginTransferAtWork ==
  ASSUME TypeInv, TransfersAtWork, SyncsAtWork,
         \A s \in KVServer : Serving(s) => Serving(s)',
         NEW t \in transfers, BeginTransfer(t)
  PROVE  TransfersAtWork' /\ SyncsAtWork'
<1>1. t \in Transfers /\ t.srv \in KVServer /\ rpcs \subseteq Rpcs
  BY DEF TypeInv, WorkOK, Transfers
<1>2. Serving(t.srv)' /\ t.backup # t.srv
  BY <1>1 DEF TransfersAtWork
<1>3. PICK sent :
        sent = [t EXCEPT !.phase = "sent", !.try = Attempt,
                         !.copy = kv[t.srv].data]
  OBVIOUS
<1>4. PICK sync :
        sync = [type |-> "SyncState", src |-> t.srv, num |-> t.num,
                try |-> Attempt, dst |-> t.backup, copy |-> sent.copy]
  OBVIOUS
<1>5. /\ transfers' = (transfers \ {t}) \cup {sent}
      /\ rpcs' \subseteq rpcs \cup {sync}
  BY <1>3, <1>4 DEF BeginTransfer
<1>6. /\ sent.srv = t.srv /\ sent.backup = t.backup
      /\ sync.type = "SyncState" /\ sync.src = t.srv /\ sync.dst = t.backup
  BY <1>1, <1>3, <1>4 DEF Transfers
<1>7. TransfersAtWork'
  BY <1>5, <1>6, TransfersStay
<1>8. \A m \in rpcs : m.type = "SyncState" => m.src \in KVServer
  BY <1>1 DEF Rpcs
<1>9. SyncsAtWork'
  BY <1>2, <1>5, <1>6, <1>8 DEF SyncsAtWork
<1>10. QED
  BY <1>7, <1>9

LEMMA HandleSyncStateAtWork ==
  ASSUME TypeInv, TransfersAtWork,
         \A s \in KVServer : Serving(s) => Serving(s)',
         NEW m \in rpcs, HandleSyncState(m)
  PROVE  TransfersAtWork'
<1>1. transfers \subseteq Transfers
  BY DEF TypeInv, WorkOK
<1>2. \A u \in transfers' : u \in transfers \/
        \E t \in transfers : u = [t EXCEPT !.phase = "synced"]
  BY DEF HandleSyncState
<1>3. ASSUME NEW t \in transfers, NEW u, u = [t EXCEPT !.phase = "synced"]
      PROVE  u.srv = t.srv /\ u.backup = t.backup
  BY <1>1, <1>3 DEF Transfers
<1>4. QED
  BY <1>2, <1>3, TransfersStay

LEMMA TransfersNext ==
  ASSUME TypeInv, Calm, ~PrimaryCrashes, TransfersAtWork, SyncsAtWork, [Next]_vars
  PROVE  TransfersAtWork' /\ SyncsAtWork'
<1>1. /\ \A s \in KVServer : Serving(s) => Serving(s)'
      /\ transfers \subseteq Transfers /\ rpcs \subseteq Rpcs
  BY ServingStays DEF TypeInv, WorkOK
<1>2. ASSUME rpcs' \subseteq rpcs
      PROVE  SyncsAtWork'
  <2>1. \A m \in rpcs : m.type = "SyncState" => m.src \in KVServer
    BY <1>1 DEF Rpcs
  <2>2. QED
    BY <1>1, <1>2, <2>1 DEF SyncsAtWork
<1>3. ASSUME transfers' \subseteq transfers, rpcs' \subseteq rpcs
      PROVE  TransfersAtWork' /\ SyncsAtWork'
  BY <1>1, <1>2, <1>3, TransfersStay
<1>4. ASSUME NEW t \in transfers, TransferNext(t)
      PROVE  TransfersAtWork' /\ SyncsAtWork'
  <2>1. t \in Transfers
    BY <1>1
  <2>2. CASE BeginTransfer(t)
    BY <1>1, <2>2, BeginTransferAtWork
  <2>3. CASE FinishTransfer(t)
    <3>1. PICK u : u = [t EXCEPT !.phase = "replay",
                              !.pending = kv[t.srv].pendingQueue]
      OBVIOUS
    <3>2. u.srv = t.srv /\ u.backup = t.backup
      BY <2>1, <2>3, <3>1 DEF FinishTransfer, Transfers
    <3>3. rpcs' = rpcs /\ transfers' \subseteq transfers \cup {u}
      BY <2>3, <3>1 DEF FinishTransfer
    <3>4. QED
      BY <1>1, <1>2, <3>2, <3>3, TransfersStay
  <2>4. CASE Replay(t)
    <3>1. PICK u : u = [t EXCEPT !.pending = Tail(t.pending)]
      OBVIOUS
    <3>2. u.srv = t.srv /\ u.backup = t.backup
      BY <2>1, <2>4, <3>1 DEF Replay, Transfers
    <3>3. rpcs' = rpcs /\ transfers' \subseteq transfers \cup {u}
      BY <2>4, <3>1 DEF Replay
    <3>4. QED
      BY <1>1, <1>2, <3>2, <3>3, TransfersStay
  <2>5. CASE TransferError(t)
    BY <1>3, <2>5 DEF TransferError, FailTransfer
  <2>6. QED
    BY <1>4, <2>2, <2>3, <2>4, <2>5 DEF TransferNext
<1>5. ASSUME NEW m \in rpcs, HandleSyncState(m)
      PROVE  TransfersAtWork' /\ SyncsAtWork'
  BY <1>1, <1>2, <1>5, HandleSyncStateAtWork DEF HandleSyncState
<1>6. ASSUME NEW m \in rpcs, HandleForwardUpdate(m)
      PROVE  TransfersAtWork' /\ SyncsAtWork'
  BY <1>1, <1>2, <1>6, TransfersStay DEF HandleForwardUpdate
<1>7. ASSUME NEW p \in puts, PutNext(p)
      PROVE  TransfersAtWork' /\ SyncsAtWork'
  <2>1. CASE ForwardPut(p)
    <3>1. /\ transfers' = transfers
          /\ \A m \in rpcs' : m \in rpcs \/ m.type = "ForwardUpdate"
      BY <2>1 DEF ForwardPut
    <3>2. \A m \in rpcs : m.type = "SyncState" => m.src \in KVServer
      BY <1>1 DEF Rpcs
    <3>3. SyncsAtWork'
      BY <1>1, <3>1, <3>2 DEF SyncsAtWork
    <3>4. QED
      BY <1>1, <3>1, <3>3, TransfersStay
  <2>2. CASE ~ForwardPut(p)
    BY <1>3, <1>7, <2>2 DEF PutNext, RefusePut, QueuePut, ForwardError, WritePut
  <2>3. QED
    BY <2>1, <2>2
<1>8. ASSUME NEW s \in KVServer, ReadNames(s)
      PROVE  TransfersAtWork' /\ SyncsAtWork'
  <2>1. /\ rpcs' = rpcs /\ currentView.backup \in Name /\ PartsApart
        /\ currentView' = currentView
    BY <1>8, ViewFields
       DEF ReadNames, TypeInv, ServiceInv, serviceVars, currentView
  <2>2. ASSUME NEW t \in transfers', t \notin transfers
        PROVE  Serving(t.srv)' /\ t.backup \in KVServer \ {t.srv}
    <3>1. /\ t.srv = s /\ t.phase = "begin" /\ kv'[s].role = "primary"
          /\ RoleIn(currentView, s) = "primary"
          /\ t.backup = currentView.backup /\ t.backup # None
      BY <1>8, <2>2, ReadNamesKeeps
    <3>2. s = currentView.primary
      BY <3>1 DEF RoleIn
    <3>3. QED
      BY <2>1, <3>1, <3>2 DEF Serving, PartsApart, Name
  <2>3. ASSUME NEW t \in transfers
        PROVE  Serving(t.srv)' /\ t.backup \in KVServer \ {t.srv}
    BY <1>1 DEF TransfersAtWork, Transfers
  <2>4. TransfersAtWork'
    BY <2>2, <2>3 DEF TransfersAtWork
  <2>5. QED
    BY <1>2, <2>1, <2>4
<1>9. ASSUME NEW s \in KVServer, ServerNext(s), ~ReadNames(s)
      PROVE  TransfersAtWork' /\ SyncsAtWork'
  BY <1>3, <1>9 DEF ServerNext, SendPing, ReadNumber, PingTimeout, PingsLapse,
     Crash, Start
<1>10. CASE \/ TickerFires \/ UNCHANGED vars
            \/ \E c \in calls : HandlePing(c)
            \/ \E c \in Client : ClientNext(c)
  BY <1>3, <1>10 DEF TickerFires, HandlePing, vars, ClientNext, BeginPut,
     BeginGet, UpdatePrimary, CallPut, CallTimeout, Get
<1>11. QED
  BY <1>4, <1>5, <1>6, <1>7, <1>8, <1>9, <1>10 DEF Next

LEMMA PutsNext ==
  ASSUME TypeInv, Calm, ~PrimaryCrashes, TransfersAtWork, PutsAtWork, [Next]_vars
  PROVE  PutsAtWork'
<1>1. /\ \A s \in KVServer : Serving(s) => Serving(s)'
      /\ puts \subseteq PutCalls /\ transfers \subseteq Transfers
  BY ServingStays DEF TypeInv, WorkOK
<1>2. \A p \in puts : p.srv \in KVServer
  BY <1>1 DEF PutCalls
<1>3. ASSUME puts' \subseteq puts PROVE PutsAtWork'
  BY <1>1, <1>2, <1>3 DEF PutsAtWork
<1>4. ASSUME NEW t \in transfers, Replay(t)
      PROVE  PutsAtWork'
  <2>1. Serving(t.srv)'
    BY <1>1 DEF TransfersAtWork, Transfers
  <2>2. \A p \in puts' : p \in puts \/ p.srv = t.srv
    BY <1>4 DEF Replay
  <2>3. QED
    BY <1>1, <1>2, <2>1, <2>2 DEF PutsAtWork
<1>5. ASSUME NEW c \in Client, ClientNext(c)
      PROVE  PutsAtWork'
  <2>1. \A p \in puts' : p \in puts \/ (p.phase = "arriving" /\ p.by = c)
    BY <1>5 DEF ClientNext, BeginPut, BeginGet, UpdatePrimary, CallPut,
       CallTimeout, Get
  <2>2. QED
    BY <1>1, <1>2, <2>1 DEF PutsAtWork
<1>6. ASSUME NEW p \in puts, PutNext(p)
      PROVE  PutsAtWork'
  <2>1. CASE ForwardPut(p) \/ ForwardError(p)
    <3>1. Serving(p.srv)
      BY <2>1 DEF ForwardPut, ForwardError, Serving, PutsAtWork
    <3>2. \A q \in puts' : q \in puts \/ q.srv = p.srv
      BY <1>1, <2>1 DEF ForwardPut, ForwardError, PutCalls
    <3>3. QED
      BY <1>1, <1>2, <3>1, <3>2 DEF PutsAtWork
  <2>2. CASE RefusePut(p) \/ QueuePut(p) \/ WritePut(p)
    BY <1>3, <2>2 DEF RefusePut, QueuePut, WritePut, Confirm
  <2>3. QED
    BY <1>6, <2>1, <2>2 DEF PutNext
<1>7. ASSUME NEW m \in rpcs, HandleForwardUpdate(m)
      PROVE  PutsAtWork'
  <2>1. \A q \in puts' :
          \E p \in puts : p = q \/ (p.phase = "forward" /\ q.srv = p.srv)
    BY <1>1, <1>7 DEF HandleForwardUpdate, PutCalls
  <2>2. QED
    BY <1>1, <1>2, <2>1 DEF PutsAtWork
<1>8. CASE \/ TickerFires \/ UNCHANGED vars
           \/ \E c \in calls : HandlePing(c)
           \/ \E s \in KVServer : ServerNext(s)
           \/ \E t \in transfers :
                BeginTransfer(t) \/ FinishTransfer(t) \/ TransferError(t)
           \/ \E m \in rpcs : HandleSyncState(m)
  BY <1>3, <1>8 DEF TickerFires, vars, HandlePing, ServerNext, SendPing,
     ReadNumber, ReadNames, PingTimeout, PingsLapse, Crash, Start,
     BeginTransfer, FinishTransfer, TransferError, HandleSyncState
<1>9. QED
  BY <1>4, <1>5, <1>6, <1>7, <1>8, NextParts DEF StoreNext, PingNext,
     TransferNext

LEMMA AtWorkNext ==
  ASSUME TypeInv, Calm, AtWork, ~PrimaryCrashes, [Next]_vars
  PROVE  AtWork'
BY TransfersNext, PutsNext DEF AtWork

-----------------------------------------------------------------------------
(* Where the value of a key is, and where a step takes it: from the way to  *)
(* the primary into its queue or its store, from the queue to the goroutine *)
(* of the transfer, from there onto its way again, and out of the store     *)
(* never, because nobody but the primary itself writes there.               *)

LEMMA StoredStays ==
  ASSUME TypeInv, Calm, AtWork, ValuesInv, ~PrimaryCrashes, [Next]_vars,
         NEW k \in Key, Stored(k)
  PROVE  Stored(k)'
<1>1. PICK s \in KVServer : Serving(s) /\ kv[s].data[k] # NoValue
  BY DEF Stored
<1>2. Serving(s)' /\ kv \in [KVServer -> KVState]
  BY <1>1, ServingStays DEF TypeInv, KvOK
<1>3. ASSUME kv'[s].data[k] # NoValue PROVE Stored(k)'
  BY <1>2, <1>3 DEF Stored
<1>4. ASSUME kv'[s].data = kv[s].data PROVE Stored(k)'
  BY <1>1, <1>3, <1>4
<1>5. ASSUME NEW m \in rpcs, HandleSyncState(m)
      PROVE  kv'[s].data = kv[s].data
  <2>1. m.dst \in KVServer /\ m.src \in KVServer
    BY <1>5 DEF TypeInv, WorkOK, Rpcs, HandleSyncState
  <2>2. m.dst # s
    BY <1>1, <1>5, <2>1 DEF HandleSyncState, AtWork, SyncsAtWork, Calm
  <2>3. QED
    BY <1>2, <1>5, <2>1, <2>2 DEF HandleSyncState
<1>6. ASSUME NEW m \in rpcs, HandleForwardUpdate(m)
      PROVE  kv'[s].data = kv[s].data
  BY <1>1, <1>2, <1>6 DEF HandleForwardUpdate, Serving
<1>7. ASSUME NEW p \in puts, WritePut(p)
      PROVE  kv'[s].data[k] # NoValue
  <2>1. /\ p.srv \in KVServer /\ p.put \in Put /\ p.put.value # NoValue
        /\ kv[p.srv].data \in Store
    BY <1>2, KVFields DEF TypeInv, WorkOK, PutCalls, ValuesInv, PutsWrite
  <2>2. p.put.key \in Key
    BY <2>1 DEF Put
  <2>3. CASE s = p.srv
    <3>1. PICK d : d = [kv[s].data EXCEPT ![p.put.key] = p.put.value]
      OBVIOUS
    <3>2. kv' = [kv EXCEPT ![s].data = d]
      BY <1>7, <2>3, <3>1 DEF WritePut
    <3>3. kv'[s].data = d
      BY <1>2, <3>2 DEF KVState
    <3>4. d[k] = IF k = p.put.key THEN p.put.value ELSE kv[s].data[k]
      BY <2>1, <2>2, <2>3, <3>1 DEF Store
    <3>5. QED
      BY <1>1, <2>1, <3>3, <3>4
  <2>4. CASE s # p.srv
    BY <1>1, <1>2, <1>7, <2>4 DEF WritePut
  <2>5. QED
    BY <2>3, <2>4
<1>8. ASSUME NEW p \in puts, PutNext(p), ~WritePut(p)
      PROVE  kv'[s].data = kv[s].data
  <2>1. CASE QueuePut(p)
    BY <1>2, <2>1 DEF QueuePut, KVState
  <2>2. CASE ~QueuePut(p)
    BY <1>8, <2>2 DEF PutNext, RefusePut, ForwardPut, ForwardError
  <2>3. QED
    BY <2>1, <2>2
<1>9. ASSUME NEW t \in transfers, TransferNext(t)
      PROVE  kv'[s].data = kv[s].data
  <2>1. CASE BeginTransfer(t)
    BY <1>2, <2>1 DEF BeginTransfer, KVState
  <2>2. CASE FinishTransfer(t)
    BY <1>2, <2>2 DEF FinishTransfer, Drained, KVState
  <2>3. CASE TransferError(t)
    BY <1>2, <2>3 DEF TransferError, FailTransfer, KVState
  <2>4. CASE Replay(t)
    BY <2>4 DEF Replay
  <2>5. QED
    BY <1>9, <2>1, <2>2, <2>3, <2>4 DEF TransferNext
<1>10. ASSUME NEW r \in KVServer, ServerNext(r)
       PROVE  kv'[s].data = kv[s].data
  <2>1. CASE ReadNames(r)
    BY <2>1, ReadNamesKeeps
  <2>2. CASE Crash(r)
    <3>1. r # s
      BY <1>1, <2>2 DEF PrimaryCrashes
    <3>2. QED
      BY <1>2, <2>2, <3>1 DEF Crash
  <2>3. CASE ~ReadNames(r) /\ ~Crash(r)
    BY <1>10, <2>3 DEF ServerNext, SendPing, ReadNumber, PingTimeout,
       PingsLapse, Start
  <2>4. QED
    BY <2>1, <2>2, <2>3
<1>11. ASSUME \/ TickerFires \/ UNCHANGED vars
              \/ \E c \in calls : HandlePing(c)
              \/ \E c \in Client : ClientNext(c)
       PROVE  kv'[s].data = kv[s].data
  BY <1>11 DEF TickerFires, HandlePing, vars, ClientNext, BeginPut, BeginGet,
     UpdatePrimary, CallPut, CallTimeout, Get
<1>12. QED
  BY <1>3, <1>4, <1>5, <1>6, <1>7, <1>8, <1>9, <1>10, <1>11 DEF Next

LEMMA QueuedStays ==
  ASSUME TypeInv, Calm, AtWork, ~PrimaryCrashes, [Next]_vars, NEW k \in Key, Queued(k)
  PROVE  Queued(k)' \/ ToReplay(k)'
<1>1. PICK s \in KVServer :
        Serving(s) /\ Mentions(kv[s].pendingQueue, k)
  BY DEF Queued
<1>2. /\ Serving(s)' /\ kv \in [KVServer -> KVState]
      /\ transfers \subseteq Transfers
  BY <1>1, ServingStays DEF TypeInv, KvOK, WorkOK
<1>3. ASSUME Mentions(kv'[s].pendingQueue, k)
      PROVE  Queued(k)'
  BY <1>2, <1>3 DEF Queued
<1>4. ASSUME kv'[s].pendingQueue = kv[s].pendingQueue
      PROVE  Queued(k)'
  BY <1>1, <1>3, <1>4
<1>5. ASSUME NEW p \in puts, QueuePut(p)
      PROVE  Queued(k)'
  <2>1. p.srv \in KVServer /\ p.put \in Put
    BY DEF TypeInv, WorkOK, PutCalls
  <2>2. kv[s].pendingQueue \in Seq(Put)
    BY <1>2, KVFields
  <2>3. CASE s = p.srv
    <3>1. Mentions(Append(kv[s].pendingQueue, p.put), k)
      BY <1>1, <2>1, <2>2, AppendedQueue
    <3>2. kv'[s].pendingQueue = Append(kv[s].pendingQueue, p.put)
      BY <1>2, <1>5, <2>3 DEF QueuePut, KVState
    <3>3. QED
      BY <1>3, <3>1, <3>2
  <2>4. CASE s # p.srv
    BY <1>2, <1>4, <1>5, <2>4 DEF QueuePut
  <2>5. QED
    BY <2>3, <2>4
<1>6. ASSUME NEW p \in puts, PutNext(p), ~QueuePut(p)
      PROVE  Queued(k)'
  <2>1. CASE WritePut(p)
    BY <1>2, <1>4, <2>1 DEF WritePut, KVState
  <2>2. CASE ~WritePut(p)
    BY <1>4, <1>6, <2>2 DEF PutNext, RefusePut, ForwardPut, ForwardError
  <2>3. QED
    BY <2>1, <2>2
<1>7. ASSUME NEW t \in transfers, FinishTransfer(t)
      PROVE  Queued(k)' \/ ToReplay(k)'
  <2>1. t \in Transfers /\ t.srv \in KVServer
    BY <1>2 DEF Transfers
  <2>2. CASE t.srv = s
    <3>1. PICK u : u = [t EXCEPT !.phase = "replay",
                                 !.pending = kv[s].pendingQueue]
      OBVIOUS
    <3>2. u.phase = "replay" /\ u.pending = kv[s].pendingQueue
      BY <2>1, <3>1 DEF Transfers
    <3>3. kv[s].pendingQueue # << >>
      BY <1>1 DEF Mentions
    <3>4. u \in transfers'
      BY <1>7, <2>2, <3>1, <3>3 DEF FinishTransfer
    <3>5. QED
      BY <1>1, <3>2, <3>4 DEF ToReplay
  <2>3. CASE t.srv # s
    BY <1>2, <1>4, <1>7, <2>1, <2>3 DEF FinishTransfer
  <2>4. QED
    BY <2>2, <2>3
<1>8. ASSUME NEW t \in transfers, BeginTransfer(t)
      PROVE  Queued(k)'
  BY <1>2, <1>4, <1>8 DEF BeginTransfer, KVState
<1>9. ASSUME NEW t \in transfers, TransferError(t)
      PROVE  Queued(k)'
  BY <1>2, <1>4, <1>9 DEF TransferError, FailTransfer, KVState
<1>10. ASSUME NEW m \in rpcs, HandleSyncState(m) \/ HandleForwardUpdate(m)
       PROVE  Queued(k)'
  BY <1>2, <1>4, <1>10 DEF HandleSyncState, HandleForwardUpdate, KVState
<1>11. ASSUME NEW r \in KVServer, ServerNext(r)
       PROVE  Queued(k)'
  <2>1. CASE ReadNames(r)
    BY <1>4, <2>1, ReadNamesKeeps
  <2>2. CASE Crash(r)
    <3>1. r # s
      BY <1>1, <2>2 DEF PrimaryCrashes
    <3>2. QED
      BY <1>2, <1>4, <2>2, <3>1 DEF Crash
  <2>3. CASE ~ReadNames(r) /\ ~Crash(r)
    BY <1>4, <1>11, <2>3 DEF ServerNext, SendPing, ReadNumber, PingTimeout,
       PingsLapse, Start
  <2>4. QED
    BY <2>1, <2>2, <2>3
<1>12. ASSUME \/ TickerFires \/ UNCHANGED vars
              \/ \E c \in calls : HandlePing(c)
              \/ \E c \in Client : ClientNext(c)
              \/ \E t \in transfers : Replay(t)
       PROVE  Queued(k)'
  BY <1>4, <1>12 DEF TickerFires, HandlePing, vars, ClientNext, BeginPut,
     BeginGet, UpdatePrimary, CallPut, CallTimeout, Get, Replay
<1>13. QED
  BY <1>5, <1>6, <1>7, <1>8, <1>9, <1>10, <1>11, <1>12
     DEF Next, TransferNext

LEMMA ToReplayStays ==
  ASSUME TypeInv, Calm, AtWork, ~PrimaryCrashes, [Next]_vars, NEW k \in Key, ToReplay(k)
  PROVE  ToReplay(k)' \/ Replayed(k)'
<1>1. PICK t \in transfers : t.phase = "replay" /\ Mentions(t.pending, k)
  BY DEF ToReplay
<1>2. t \in Transfers /\ t.pending \in Seq(Put) /\ t.pending # << >>
  BY <1>1 DEF TypeInv, WorkOK, Transfers
<1>3. ASSUME t \in transfers' PROVE ToReplay(k)'
  BY <1>1, <1>3 DEF ToReplay
<1>4. CASE Replay(t)
  <2> DEFINE id == [srv |-> t.srv, num |-> t.num]
  <2>1. id \notin Client
    BY <1>2, CallersAssumption DEF TransferId, Transfers
  <2> HIDE DEF id
  <2>2. PICK p \in puts' : p.by = id /\ p.put = Head(t.pending)
    <3>1. PICK p : p = [by |-> id, try |-> Attempt, srv |-> t.srv,
                        put |-> Head(t.pending), phase |-> "arriving",
                        backup |-> None]
      OBVIOUS
    <3>2. p \in puts' /\ p.by = id /\ p.put = Head(t.pending)
      BY <1>4, <3>1 DEF Replay, id
    <3>3. QED
      BY <3>2
  <2>3. CASE Head(t.pending).key = k
    BY <2>1, <2>2, <2>3 DEF Replayed
  <2>4. CASE Mentions(Tail(t.pending), k)
    <3>1. PICK u : u = [t EXCEPT !.pending = Tail(t.pending)]
      OBVIOUS
    <3>2. u.phase = "replay" /\ u.pending = Tail(t.pending)
      BY <1>1, <1>2, <3>1 DEF Transfers
    <3>3. Tail(t.pending) # << >>
      BY <2>4 DEF Mentions
    <3>4. u \in transfers'
      BY <1>4, <3>1, <3>3 DEF Replay
    <3>5. QED
      BY <2>4, <3>2, <3>4 DEF ToReplay
  <2>5. QED
    BY <1>1, <1>2, <2>3, <2>4, TakenQueue
<1>5. ASSUME NEW u \in transfers, TransferNext(u), ~Replay(t)
      PROVE  t \in transfers'
  BY <1>1, <1>5 DEF TransferNext, BeginTransfer, FinishTransfer, TransferError,
     FailTransfer, Replay
<1>6. ASSUME NEW m \in rpcs, HandleSyncState(m)
      PROVE  t \in transfers'
  BY <1>1, <1>6 DEF HandleSyncState
<1>7. ASSUME NEW s \in KVServer, ServerNext(s)
      PROVE  t \in transfers'
  <2>1. Crash(s) => s # t.srv
    BY <1>1 DEF AtWork, TransfersAtWork, PrimaryCrashes
  <2>2. QED
    BY <1>7, <2>1 DEF ServerNext, SendPing, ReadNumber, ReadNames, PingTimeout,
       PingsLapse, Crash, Start
<1>8. ASSUME NEW p \in puts, PutNext(p)
      PROVE  t \in transfers'
  BY <1>8 DEF PutNext, RefusePut, QueuePut, ForwardPut, ForwardError, WritePut
<1>9. ASSUME \/ TickerFires \/ UNCHANGED vars
             \/ \E c \in calls : HandlePing(c)
             \/ \E c \in Client : ClientNext(c)
             \/ \E m \in rpcs : HandleForwardUpdate(m)
      PROVE  t \in transfers'
  BY <1>9 DEF TickerFires, HandlePing, vars, ClientNext, BeginPut, BeginGet,
     UpdatePrimary, CallPut, CallTimeout, Get, HandleForwardUpdate
<1>10. QED
  BY <1>3, <1>4, <1>5, <1>6, <1>7, <1>8, <1>9 DEF Next

\* A Put that is confirmed was queued, or written.
LEMMA ConfirmedPut ==
  ASSUME TypeInv, Calm, ValuesInv, ~PrimaryCrashes, [Next]_vars, NEW p \in puts,
         QueuePut(p) \/ (WritePut(p) /\ Serving(p.srv))
  PROVE  Queued(p.put.key)' \/ Stored(p.put.key)'
<1>1. /\ p.srv \in KVServer /\ p.put \in Put /\ p.put.value # NoValue
      /\ kv \in [KVServer -> KVState] /\ kv[p.srv] \in KVState
  BY DEF TypeInv, WorkOK, KvOK, PutCalls, ValuesInv, PutsWrite
<1>2. Serving(p.srv)'
  BY <1>1, ServingStays DEF QueuePut, Serving
<1>3. CASE QueuePut(p)
  <2>1. Mentions(Append(kv[p.srv].pendingQueue, p.put), p.put.key)
    BY <1>1, KVFields, AppendedQueue
  <2>2. kv'[p.srv].pendingQueue = Append(kv[p.srv].pendingQueue, p.put)
    BY <1>1, <1>3 DEF QueuePut, KVState
  <2>3. QED
    BY <1>1, <1>2, <2>1, <2>2 DEF Queued
<1>4. CASE WritePut(p)
  <2>1. PICK d : d = [kv[p.srv].data EXCEPT ![p.put.key] = p.put.value]
    OBVIOUS
  <2>2. kv' = [kv EXCEPT ![p.srv].data = d]
    BY <1>4, <2>1 DEF WritePut
  <2>3. kv'[p.srv].data = d
    BY <1>1, <2>2 DEF KVState
  <2>4. kv[p.srv].data \in Store /\ p.put.key \in Key
    BY <1>1, KVFields DEF Put
  <2>5. d[p.put.key] = p.put.value
    BY <2>1, <2>4 DEF Store
  <2>6. QED
    BY <1>1, <1>2, <2>3, <2>5 DEF Stored
<1>5. QED
  BY <1>3, <1>4

LEMMA ReplayedStays ==
  ASSUME TypeInv, Calm, AtWork, ValuesInv, ~PrimaryCrashes, [Next]_vars,
         NEW k \in Key, Replayed(k)
  PROVE  Replayed(k)' \/ Queued(k)' \/ Stored(k)'
<1>1. PICK p \in puts : p.by \notin Client /\ p.put.key = k
  BY DEF Replayed
<1>2. p \in PutCalls /\ puts \subseteq PutCalls /\ Serving(p.srv)
  BY <1>1 DEF TypeInv, WorkOK, AtWork, PutsAtWork
<1>3. ASSUME NEW q \in puts', q.by = p.by, q.put = p.put
      PROVE  Replayed(k)'
  BY <1>1, <1>3 DEF Replayed
<1>4. CASE p \in puts'
  BY <1>3, <1>4
<1>5. CASE QueuePut(p) \/ WritePut(p)
  BY <1>1, <1>2, <1>5, ConfirmedPut
<1>6. ~RefusePut(p)
  BY <1>2 DEF RefusePut, Serving
<1>7. CASE ForwardPut(p)
  <2>1. PICK q : q = [p EXCEPT !.backup = kv[p.srv].currentView.backup,
                               !.phase = IF kv[p.srv].currentView.backup = None
                                         THEN "write" ELSE "forward"]
    OBVIOUS
  <2>2. q \in puts'
    BY <1>7, <2>1 DEF ForwardPut
  <2>3. q.by = p.by /\ q.put = p.put
    BY <1>2, <2>1 DEF PutCalls
  <2>4. QED
    BY <1>3, <2>2, <2>3
<1>8. CASE ForwardError(p)
  <2>1. PICK q : q = [p EXCEPT !.phase = "write"]
    OBVIOUS
  <2>2. q \in puts' /\ q.by = p.by /\ q.put = p.put
    BY <1>2, <1>8, <2>1 DEF ForwardError, PutCalls
  <2>3. QED
    BY <1>3, <2>2
<1>9. ASSUME NEW q \in puts, PutNext(q), q # p
      PROVE  p \in puts'
  BY <1>9 DEF PutNext, RefusePut, QueuePut, ForwardPut, ForwardError, WritePut,
     Confirm
<1>10. ASSUME NEW m \in rpcs, HandleForwardUpdate(m)
       PROVE  Replayed(k)'
  <2>1. PICK q : q = [p EXCEPT !.phase = "write"]
    OBVIOUS
  <2>2. q.by = p.by /\ q.put = p.put
    BY <1>2, <2>1 DEF PutCalls
  <2>3. p \in puts' \/ q \in puts'
    BY <1>10, <2>1 DEF HandleForwardUpdate
  <2>4. QED
    BY <1>3, <2>2, <2>3
<1>11. ASSUME NEW t \in transfers, TransferNext(t)
       PROVE  p \in puts'
  BY <1>11 DEF TransferNext, BeginTransfer, FinishTransfer, TransferError, Replay
<1>12. ASSUME NEW s \in KVServer, ServerNext(s)
       PROVE  p \in puts'
  <2>1. Crash(s) => s # p.srv
    BY <1>2 DEF PrimaryCrashes
  <2>2. QED
    BY <1>12, <2>1 DEF ServerNext, SendPing, ReadNumber, ReadNames, PingTimeout,
       PingsLapse, Crash, Start
<1>13. ASSUME NEW c \in Client, ClientNext(c)
       PROVE  p \in puts'
  BY <1>13 DEF ClientNext, BeginPut, BeginGet, UpdatePrimary, CallPut,
     CallTimeout, Get
<1>14. ASSUME \/ TickerFires \/ UNCHANGED vars
              \/ \E c \in calls : HandlePing(c)
              \/ \E m \in rpcs : HandleSyncState(m)
       PROVE  p \in puts'
  BY <1>14 DEF TickerFires, HandlePing, vars, HandleSyncState
<1>15. QED
  BY <1>4, <1>5, <1>6, <1>7, <1>8, <1>9, <1>10, <1>11, <1>12, <1>13, <1>14
     DEF Next, PutNext

\* What a client is told is stored is in the queue of the primary, or in its
\* store.
LEMMA NewlyConfirmed ==
  ASSUME TypeInv, Calm, AtWork, ValuesInv, ~PrimaryCrashes, [Next]_vars, NEW k \in Key,
         confirmed'[k] # confirmed[k]
  PROVE  Queued(k)' \/ Stored(k)'
<1>1. PICK p \in puts : QueuePut(p) \/ WritePut(p)
  <2>1. ASSUME NEW s \in KVServer, ServerNext(s)
        PROVE  confirmed' = confirmed
    BY <2>1 DEF ServerNext, SendPing, ReadNumber, ReadNames, PingTimeout,
       PingsLapse, Crash, Start, clients
  <2>2. ASSUME NEW t \in transfers, TransferNext(t)
        PROVE  confirmed' = confirmed
    BY <2>2 DEF TransferNext, BeginTransfer, FinishTransfer, TransferError,
       Replay, clients
  <2>3. ASSUME NEW c \in Client, ClientNext(c)
        PROVE  confirmed' = confirmed
    BY <2>3 DEF ClientNext, BeginPut, BeginGet, UpdatePrimary, CallPut,
       CallTimeout, Get, clients
  <2>4. ASSUME NEW p \in puts, PutNext(p), ~QueuePut(p), ~WritePut(p)
        PROVE  confirmed' = confirmed
    BY <2>4 DEF PutNext, RefusePut, ForwardPut, ForwardError, clients
  <2>5. ASSUME \/ TickerFires \/ UNCHANGED vars
               \/ \E c \in calls : HandlePing(c)
               \/ \E m \in rpcs : HandleSyncState(m) \/ HandleForwardUpdate(m)
        PROVE  confirmed' = confirmed
    BY <2>5 DEF TickerFires, HandlePing, vars, HandleSyncState,
       HandleForwardUpdate, clients
  <2>6. QED
    BY <2>1, <2>2, <2>3, <2>4, <2>5 DEF Next
<1>2. k = p.put.key
  BY <1>1 DEF QueuePut, WritePut, Confirm, TypeInv, ClientsOK, Store
<1>3. WritePut(p) => Serving(p.srv)
  BY DEF WritePut, AtWork, PutsAtWork
<1>4. QED
  BY <1>1, <1>2, <1>3, ConfirmedPut

-----------------------------------------------------------------------------
(* ConfirmedKept.                                                           *)

Kept == \A k \in Key : confirmed[k] # NoValue =>
          Stored(k) \/ Queued(k) \/ ToReplay(k) \/ Replayed(k)

KeptInv == NobodyDown /\ (FirstPrimaryRuns => Calm /\ AtWork /\ Kept)

LEMMA KeptInit == ASSUME Init PROVE KeptInv
<1>1. NobodyDown /\ Calm
  BY DEF Init, NobodyDown, Calm, Serving, FreshKV
<1>2. AtWork
  BY DEF Init, AtWork, TransfersAtWork, SyncsAtWork, PutsAtWork
<1>3. Kept
  BY DEF Init, Kept, EmptyStore
<1>4. QED
  BY <1>1, <1>2, <1>3 DEF KeptInv

LEMMA KeptNext ==
  ASSUME TypeInv, RolesInv, ValuesInv, KeptInv, [Next]_vars
  PROVE  KeptInv'
<1>1. NobodyDown'
  BY NobodyDownNext DEF KeptInv
<1> SUFFICES ASSUME FirstPrimaryRuns'
             PROVE  Calm' /\ AtWork' /\ Kept'
  BY <1>1 DEF KeptInv
<1>2. Calm /\ AtWork /\ Kept
  BY FirstPrimaryStays DEF KeptInv
<1>3. Calm' /\ ~PrimaryCrashes
  BY <1>2, CalmNext DEF KeptInv
<1>4. AtWork'
  BY <1>2, <1>3, AtWorkNext
<1>5. ASSUME NEW k \in Key, confirmed'[k] # NoValue
      PROVE  Stored(k)' \/ Queued(k)' \/ ToReplay(k)' \/ Replayed(k)'
  <2>1. CASE confirmed'[k] # confirmed[k]
    BY <1>2, <1>3, <2>1, NewlyConfirmed
  <2>2. CASE confirmed'[k] = confirmed[k]
    <3>1. Stored(k) \/ Queued(k) \/ ToReplay(k) \/ Replayed(k)
      BY <1>2, <1>5, <2>2 DEF Kept
    <3>2. QED
      BY <1>2, <1>3, <3>1, StoredStays, QueuedStays, ToReplayStays,
         ReplayedStays
  <2>3. QED
    BY <2>1, <2>2
<1>6. Kept'
  BY <1>5 DEF Kept
<1>7. QED
  BY <1>3, <1>4, <1>6

\* As long as the first primary is in office and has not crashed, a key that a
\* client was told is stored is in its store, in its queue, or on its way from
\* there: no step of a transfer drops it in between, though backups come and
\* go, transfers overlap and fail, and a replayed Put is queued again.
THEOREM ConfirmedIsKept == Spec => []ConfirmedKept
<1>1. Init => RolesInv /\ KeptInv
  BY RolesInit, KeptInit
<1>2. TypeInv /\ ValuesInv /\ RolesInv /\ KeptInv /\ [Next]_vars
        => RolesInv' /\ KeptInv'
  BY RolesNext, KeptNext
<1>3. KeptInv => ConfirmedKept
  BY DEF KeptInv, Kept, ConfirmedKept
<1>4. QED
  BY <1>1, <1>2, <1>3, TypeInvariant, ValuesInvariance, PTL DEF Spec
=============================================================================
