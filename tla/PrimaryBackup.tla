--------------------------- MODULE PrimaryBackup ---------------------------
(***************************************************************************)
(* The primary/backup store: the key-value servers (kvserver) with the     *)
(* view service they ping and the clients (client_main) that use them. A   *)
(* critical section of kv.mu is one action; the calls between servers, the *)
(* goroutine of a state transfer and the handlers of Put interleave.       *)
(*                                                                         *)
(* The service answers a ping with its only View structure, which gRPC     *)
(* reads without the lock while the ticker may change it: first the number *)
(* (ReadNumber), later the names (ReadNames), so a server may hold the     *)
(* names of a newer view under an older number.                            *)
(*                                                                         *)
(* A call that stays in rpcs is late or lost. A caller whose peer is down  *)
(* gets an error; otherwise it may give up, which MaxFaults bounds, and    *)
(* what it sent may still be handled.                                      *)
(***************************************************************************)
EXTENDS ViewService, Sequences

CONSTANTS
  Key,         \* the keys of the store
  Client,      \* clients, each doing one operation after the other
  MaxOps,      \* bound: operations that clients begin
  FaultKinds,  \* bound: the kinds of faults that happen
  MaxFaults,   \* bound: faults of all kinds
  Returning    \* bound: the servers that are started again after a crash

ASSUME StoreAssumption ==
  /\ {MaxOps, MaxFaults} \subseteq Nat
  /\ FaultKinds \subseteq {"crash", "delay", "timeout"}
  /\ Returning \subseteq KVServer

VARIABLES
  up,          \* the servers that run
  kv,          \* KVServer of each server
  calls,       \* pings sent and not yet handled
  reading,     \* the servers whose reply gRPC has still to read
  numberRead,  \* the number read out of the view for a server, -1 for none
  transfers,   \* goroutines of transferState
  puts,        \* handlers of Put
  rpcs,        \* ForwardUpdate and SyncState calls not yet handled
  client,      \* the clients
  begun,       \* counter: operations begun
  crashes,     \* counter: crashes
  delays,      \* counter: pings of a running server late or given up
  timeouts,    \* counter: other calls given up although the peer runs
  confirmed    \* history: the last value of each key that a Put confirmed

pings == <<up, calls, reading, numberRead, delays>>
clients == <<client, begun, confirmed>>
vars == <<serviceVars, pings, kv, transfers, puts, rpcs, clients, crashes,
          timeouts>>

-----------------------------------------------------------------------------
(* Shapes. Values are the numbers of the Puts that wrote them.             *)

NoValue == 0

Store == [Key -> Nat]

Put == [key : Key, value : Nat]

KVState ==
  [currentView : View, role : {"primary", "backup", "default"}, data : Store,
   lastBackup : Name, syncing : BOOLEAN, pendingQueue : Seq(Put)]

\* One call of transferState, up to the replay of what was queued.
Transfers ==
  [srv : KVServer, backup : Name, num : Nat, try : Nat,
   phase : {"begin", "sent", "synced", "replay"}, copy : Store,
   pending : Seq(Put)]

TransferId == [srv : KVServer, num : Nat]

ASSUME CallersAssumption == \A c \in Client : c \notin TransferId

\* One call of Put, by a client or by the replay of a transfer.
PutCalls ==
  [by : Client \cup TransferId, try : Nat, srv : KVServer, put : Put,
   phase : {"arriving", "forward", "write"}, backup : Name]

Rpcs ==
       [type : {"ForwardUpdate"}, by : Client \cup TransferId, try : Nat,
        src : KVServer, dst : KVServer, put : Put]
  \cup [type : {"SyncState"}, src : KVServer, num : Nat, try : Nat,
        dst : KVServer, copy : Store]

\* A client's operation, the primary it has cached, and the attempt it waits
\* for, -1 for none.
Clients ==
  [op : {"idle", "put", "get"}, put : Put, primary : Name,
   try : Nat \cup {-1}]

TypeOK ==
  /\ ServiceTypeOK
  /\ up \subseteq KVServer /\ reading \subseteq KVServer
  /\ kv \in [KVServer -> KVState]
  /\ calls \subseteq [srv : KVServer, num : Nat, expired : BOOLEAN]
  /\ numberRead \in [KVServer -> Nat \cup {-1}]
  /\ transfers \subseteq Transfers
  /\ puts \subseteq PutCalls
  /\ rpcs \subseteq Rpcs
  /\ client \in [Client -> Clients]
  /\ {begun, crashes, delays, timeouts} \subseteq Nat
  /\ confirmed \in Store

EmptyStore == [k \in Key |-> NoValue]

\* StartServer.
FreshKV ==
  [currentView |-> NoView, role |-> "default", data |-> EmptyStore,
   lastBackup |-> None, syncing |-> FALSE, pendingQueue |-> << >>]

IdleClient(k) ==
  [op |-> "idle", put |-> [key |-> k, value |-> NoValue], primary |-> None,
   try |-> -1]

Init ==
  /\ ServiceInit
  /\ up = KVServer /\ calls = {} /\ reading = {}
  /\ kv = [s \in KVServer |-> FreshKV]
  /\ numberRead = [s \in KVServer |-> -1]
  /\ transfers = {} /\ puts = {} /\ rpcs = {}
  /\ \E k \in Key : client = [c \in Client |-> IdleClient(k)]
  /\ begun = 0 /\ crashes = 0 /\ delays = 0 /\ timeouts = 0
  /\ confirmed = EmptyStore

\* Tells the attempts of a call apart from those that were given up before.
Attempt == crashes + timeouts

MayHappen(fault) ==
  fault \in FaultKinds /\ crashes + delays + timeouts < MaxFaults

-----------------------------------------------------------------------------
(* Pings and views, as in ViewPings; here an answer carries a whole view.  *)

WaitingUnread(s) ==  \* mutant: pings again while the answer is being read
  s \in reading \/ \E c \in calls : c.srv = s /\ ~c.expired
Waiting(s) ==
  \/ s \in reading \/ numberRead[s] # -1
  \/ \E c \in calls : c.srv = s /\ ~c.expired

\* ping up to the call.
SendPing(s) ==
  /\ s \in up /\ ~Waiting(s)
  /\ calls' = calls \cup {[srv |-> s, num |-> kv[s].currentView.num,
                           expired |-> FALSE]}
  /\ UNCHANGED <<serviceVars, up, kv, reading, numberRead, transfers, puts, rpcs,
                 clients, crashes, delays, timeouts>>

HandlePing(c) ==
  /\ Ping(c.srv, c.num)
  /\ calls' = calls \ {c}
  /\ reading' = reading \cup {s \in {c.srv} : ~c.expired}
  /\ UNCHANGED <<up, kv, numberRead, transfers, puts, rpcs, clients, crashes,
                 delays, timeouts>>

\* The first field of the answer.
ReadNumber(s) ==
  /\ s \in reading
  /\ reading' = reading \ {s}
  /\ numberRead' = [numberRead EXCEPT ![s] = currentView.num]
  /\ UNCHANGED <<serviceVars, up, kv, calls, transfers, puts, rpcs, clients,
                 crashes, delays, timeouts>>

RoleIn(v, s) ==
  IF v.primary = s THEN "primary"
  ELSE IF v.backup = s THEN "backup" ELSE "default"

HandleViewChangeKept(k, s) ==  \* mutant: only a server without a role takes one
  LET role == IF k.role = "default" THEN RoleIn(k.currentView, s) ELSE k.role
  IN  [k EXCEPT !.role = role,
                !.lastBackup = IF role = "primary" THEN k.currentView.backup
                               ELSE @]
HandleViewChangeBackup(k, s) ==  \* mutant: losing the backup is not noticed
  LET role == RoleIn(k.currentView, s)
      backup == k.currentView.backup
  IN  [k EXCEPT !.role = role,
                !.lastBackup = IF role = "primary" /\ backup # None
                               THEN backup ELSE @]
\* handleViewChange: a primary remembers its backup, also that it has none.
HandleViewChange(k, s) ==
  LET role == RoleIn(k.currentView, s)
  IN  [k EXCEPT !.role = role,
                !.lastBackup = IF role = "primary" THEN k.currentView.backup
                               ELSE @]

\* The goroutine that a new backup is given, unless it is the last one known.
NewTransfer(k, s) ==
  {[srv |-> s, backup |-> b, num |-> k.currentView.num, try |-> 0,
    phase |-> "begin", copy |-> EmptyStore, pending |-> << >>] :
     b \in {k.currentView.backup} \ {None, k.lastBackup}}

\* The names of the answer, and the end of ping. The view is stored anyway,
\* and acted upon when its number is another.
ReadNames(s) ==
  LET next == [kv[s] EXCEPT
                 !.currentView = [currentView EXCEPT !.num = numberRead[s]]]
      changed == numberRead[s] # kv[s].currentView.num
  IN
  /\ numberRead[s] # -1
  /\ numberRead' = [numberRead EXCEPT ![s] = -1]
  /\ kv' = [kv EXCEPT ![s] = IF changed THEN HandleViewChange(next, s)
                                         ELSE next]
  /\ transfers' = transfers \cup
       (IF changed /\ RoleIn(next.currentView, s) = "primary"
        THEN NewTransfer(next, s) ELSE {})
  /\ UNCHANGED <<serviceVars, up, calls, reading, puts, rpcs, clients, crashes,
                 delays, timeouts>>

\* Nobody waits any more for what s called.
Abandon(s) ==
  /\ calls' = {[c EXCEPT !.expired = @ \/ c.srv = s] : c \in calls}
  /\ reading' = reading \ {s}

\* ping gives up and leaves the view as it is. (Giving up after the number was
\* read is the same for everybody as giving up before.)
PingTimeout(s) ==
  /\ Waiting(s) /\ numberRead[s] = -1 /\ MayHappen("delay")
  /\ delays' = delays + 1
  /\ Abandon(s)
  /\ UNCHANGED <<serviceVars, up, kv, numberRead, transfers, puts, rpcs, clients,
                 crashes, timeouts>>

\* Time passes: a crashed server is late, and one that runs may be.
PingsLapse(s) ==
  /\ Lapse(s)
  /\ \/ s \notin up /\ UNCHANGED delays
     \/ s \in up /\ MayHappen("delay") /\ delays' = delays + 1
  /\ UNCHANGED <<up, kv, calls, reading, numberRead, transfers, puts, rpcs,
                 clients, crashes, timeouts>>

TickerFires ==
  /\ Tick
  /\ UNCHANGED <<pings, kv, transfers, puts, rpcs, clients, crashes, timeouts>>

-----------------------------------------------------------------------------
(* Crashes. The store is in memory only. A client that waits for the       *)
(* server gets an error and looks for the primary again; what the server   *)
(* sent may still arrive, what was sent to it does not.                    *)

ForgetCall(c) ==  \* mutant: the cached primary is kept
  [client[c] EXCEPT !.try = -1]
Forget(c) == [client[c] EXCEPT !.primary = None, !.try = -1]

Crash(s) ==
  /\ s \in up /\ MayHappen("crash")
  /\ crashes' = crashes + 1
  /\ up' = up \ {s}
  /\ Abandon(s)
  /\ numberRead' = [numberRead EXCEPT ![s] = -1]
  /\ kv' = [kv EXCEPT ![s] = FreshKV]
  /\ transfers' = {t \in transfers : t.srv # s}
  /\ puts' = {p \in puts : p.srv # s}
  /\ rpcs' = {m \in rpcs : m.dst # s}
  /\ client' = [c \in Client |->
                  IF client[c].try # -1 /\ client[c].primary = s
                  THEN Forget(c) ELSE client[c]]
  /\ UNCHANGED <<serviceVars, delays, timeouts, begun, confirmed>>

Start(s) ==
  /\ s \in Returning \ up
  /\ up' = up \cup {s}
  /\ UNCHANGED <<serviceVars, calls, reading, numberRead, delays, kv, transfers,
                 puts, rpcs, clients, crashes, timeouts>>

-----------------------------------------------------------------------------
(* State transfer.                                                         *)

\* Puts are queued from here on, and the store is copied for the new backup.
BeginTransfer(t) ==
  LET sent == [t EXCEPT !.phase = "sent", !.try = Attempt,
                        !.copy = kv[t.srv].data]
  IN
  /\ t.phase = "begin"
  /\ kv' = [kv EXCEPT ![t.srv].syncing = TRUE]
  /\ transfers' = (transfers \ {t}) \cup {sent}
  /\ rpcs' = rpcs \cup {[type |-> "SyncState", src |-> t.srv, num |-> t.num,
                         try |-> Attempt, dst |-> b, copy |-> sent.copy] :
                          b \in {t.backup} \cap up}
  /\ UNCHANGED <<serviceVars, pings, puts, clients, crashes, timeouts>>

SyncOf(t) ==
  {m \in rpcs : /\ m.type = "SyncState" /\ m.src = t.srv
                /\ m.num = t.num /\ m.try = t.try}

\* The store is overwritten, whatever the role and the view of m.dst.
HandleSyncState(m) ==
  LET waiting == {t \in transfers : t.phase = "sent" /\ m \in SyncOf(t)}
  IN
  /\ m.type = "SyncState"
  /\ kv' = [kv EXCEPT ![m.dst].data = m.copy]
  /\ rpcs' = rpcs \ {m}
  /\ transfers' = (transfers \ waiting) \cup
                    {[t EXCEPT !.phase = "synced"] : t \in waiting}
  /\ UNCHANGED <<serviceVars, pings, puts, clients, crashes, timeouts>>

Drained(k) == [k EXCEPT !.syncing = FALSE, !.pendingQueue = << >>]

FinishTransferEmptied(t) ==  \* mutant: the queue is emptied before it is read
  /\ t.phase = "synced"
  /\ kv' = [kv EXCEPT ![t.srv] = Drained(@)]
  /\ transfers' = transfers \ {t}
  /\ UNCHANGED <<serviceVars, pings, puts, rpcs, clients, crashes, timeouts>>
\* Success ends the time of queueing, and what was queued is taken along.
FinishTransfer(t) ==
  LET queued == kv[t.srv].pendingQueue
  IN
  /\ t.phase = "synced"
  /\ kv' = [kv EXCEPT ![t.srv] = Drained(@)]
  /\ transfers' = (transfers \ {t}) \cup
       (IF queued = << >> THEN {}
        ELSE {[t EXCEPT !.phase = "replay", !.pending = queued]})
  /\ UNCHANGED <<serviceVars, pings, puts, rpcs, clients, crashes, timeouts>>

FailTransferSyncing(t) ==  \* mutant: the error path forgets the flag
  /\ kv' = kv
  /\ transfers' = transfers \ {t}
\* Failure ends it too; what was queued stays.
FailTransfer(t) ==
  /\ kv' = [kv EXCEPT ![t.srv].syncing = FALSE]
  /\ transfers' = transfers \ {t}

\* SyncState meets a backup that is down, or gives up.
TransferError(t) ==
  /\ \/ t.phase = "sent" /\ SyncOf(t) = {} /\ UNCHANGED timeouts
     \/ /\ t.phase \in {"sent", "synced"} /\ MayHappen("timeout")
        /\ timeouts' = timeouts + 1
  /\ FailTransfer(t)
  /\ UNCHANGED <<serviceVars, pings, puts, rpcs, clients, crashes>>

\* The queued Puts are put again one after the other.
Replay(t) ==
  LET id == [srv |-> t.srv, num |-> t.num]
      rest == Tail(t.pending)
  IN
  /\ t.phase = "replay" /\ ~ \E p \in puts : p.by = id
  /\ puts' = puts \cup {[by |-> id, try |-> Attempt, srv |-> t.srv,
                         put |-> Head(t.pending), phase |-> "arriving",
                         backup |-> None]}
  /\ transfers' = (transfers \ {t}) \cup
       (IF rest = << >> THEN {} ELSE {[t EXCEPT !.pending = rest]})
  /\ UNCHANGED <<serviceVars, pings, kv, rpcs, clients, crashes, timeouts>>

-----------------------------------------------------------------------------
(* Put and ForwardUpdate.                                                  *)

Awaited(p) == p.by \in Client /\ client[p.by].try = p.try

\* The handler returns OK.
Confirm(p) ==
  /\ puts' = puts \ {p}
  /\ IF Awaited(p)
     THEN /\ client' = [client EXCEPT ![p.by].op = "idle", ![p.by].try = -1]
          /\ confirmed' = [confirmed EXCEPT ![p.put.key] = p.put.value]
     ELSE UNCHANGED <<client, confirmed>>
  /\ UNCHANGED begun

\* The handler answers ErrNotPrimary: the client looks for the primary again.
RefusePut(p) ==
  /\ p.phase = "arriving" /\ kv[p.srv].role # "primary"
  /\ puts' = puts \ {p}
  /\ client' = IF Awaited(p) THEN [client EXCEPT ![p.by] = Forget(p.by)]
               ELSE client
  /\ UNCHANGED <<serviceVars, pings, kv, transfers, rpcs, begun, confirmed,
                 crashes, timeouts>>

\* During a state transfer the Put is queued, and confirmed.
QueuePut(p) ==
  /\ p.phase = "arriving" /\ kv[p.srv].role = "primary" /\ kv[p.srv].syncing
  /\ kv' = [kv EXCEPT ![p.srv].pendingQueue = Append(@, p.put)]
  /\ Confirm(p)
  /\ UNCHANGED <<serviceVars, pings, transfers, rpcs, crashes, timeouts>>

\* Otherwise it is forwarded to the backup of the moment, if there is one.
ForwardPut(p) ==
  LET backup == kv[p.srv].currentView.backup
  IN
  /\ p.phase = "arriving" /\ kv[p.srv].role = "primary" /\ ~kv[p.srv].syncing
  /\ puts' = (puts \ {p}) \cup
       {[p EXCEPT !.backup = backup,
                  !.phase = IF backup = None THEN "write" ELSE "forward"]}
  /\ rpcs' = rpcs \cup {[type |-> "ForwardUpdate", by |-> p.by, try |-> p.try,
                         src |-> p.srv, dst |-> b, put |-> p.put] :
                          b \in {backup} \cap up}
  /\ UNCHANGED <<serviceVars, pings, kv, transfers, clients, crashes, timeouts>>

ForwardOf(p) ==
  {m \in rpcs : /\ m.type = "ForwardUpdate" /\ m.src = p.srv
                /\ m.by = p.by /\ m.try = p.try}

\* A server that is not (yet) backup refuses, which the caller does not mind.
HandleForwardUpdate(m) ==
  LET waiting == {p \in puts : p.phase = "forward" /\ m \in ForwardOf(p)}
  IN
  /\ m.type = "ForwardUpdate"
  /\ kv' = IF kv[m.dst].role = "backup"
           THEN [kv EXCEPT ![m.dst].data[m.put.key] = m.put.value] ELSE kv
  /\ rpcs' = rpcs \ {m}
  /\ puts' = (puts \ waiting) \cup {[p EXCEPT !.phase = "write"] : p \in waiting}
  /\ UNCHANGED <<serviceVars, pings, transfers, clients, crashes, timeouts>>

\* The backup is down, or ForwardUpdate gives up; neither does the caller mind.
ForwardError(p) ==
  /\ p.phase = "forward"
  /\ \/ ForwardOf(p) = {} /\ UNCHANGED timeouts
     \/ MayHappen("timeout") /\ timeouts' = timeouts + 1
  /\ puts' = (puts \ {p}) \cup {[p EXCEPT !.phase = "write"]}
  /\ UNCHANGED <<serviceVars, pings, kv, transfers, rpcs, clients, crashes>>

\* The primary's own store comes last, whatever happened meanwhile.
WritePut(p) ==
  /\ p.phase = "write"
  /\ kv' = [kv EXCEPT ![p.srv].data[p.put.key] = p.put.value]
  /\ Confirm(p)
  /\ UNCHANGED <<serviceVars, pings, transfers, rpcs, crashes, timeouts>>

-----------------------------------------------------------------------------
(* Clients.                                                                *)

BeginPut(c, k) ==
  /\ client[c].op = "idle" /\ begun < MaxOps
  /\ begun' = begun + 1
  /\ client' = [client EXCEPT ![c].op = "put",
                              ![c].put = [key |-> k, value |-> begun']]
  /\ UNCHANGED <<serviceVars, pings, kv, transfers, puts, rpcs, confirmed,
                 crashes, timeouts>>

BeginGet(c, k) ==
  /\ client[c].op = "idle" /\ begun < MaxOps
  /\ begun' = begun + 1
  /\ client' = [client EXCEPT ![c].op = "get",
                              ![c].put = [key |-> k, value |-> NoValue]]
  /\ UNCHANGED <<serviceVars, pings, kv, transfers, puts, rpcs, confirmed,
                 crashes, timeouts>>

\* GetView, when no primary is cached.
UpdatePrimary(c) ==
  /\ client[c].op # "idle" /\ client[c].primary = None
  /\ currentView.primary # None
  /\ client' = [client EXCEPT ![c].primary = currentView.primary]
  /\ UNCHANGED <<serviceVars, pings, kv, transfers, puts, rpcs, begun, confirmed,
                 crashes, timeouts>>

\* Put calls the cached primary, and forgets it when it is down.
CallPut(c) ==
  LET s == client[c].primary
  IN
  /\ client[c].op = "put" /\ s # None /\ client[c].try = -1
  /\ \/ /\ s \in up
        /\ puts' = puts \cup {[by |-> c, try |-> Attempt, srv |-> s,
                               put |-> client[c].put, phase |-> "arriving",
                               backup |-> None]}
        /\ client' = [client EXCEPT ![c].try = Attempt]
     \/ /\ s \notin up
        /\ client' = [client EXCEPT ![c] = Forget(c)]
        /\ UNCHANGED puts
  /\ UNCHANGED <<serviceVars, pings, kv, transfers, rpcs, begun, confirmed,
                 crashes, timeouts>>

\* Put gives up after 2 s and tries again; its call may still be handled.
CallTimeout(c) ==
  /\ client[c].try # -1 /\ MayHappen("timeout")
  /\ timeouts' = timeouts + 1
  /\ client' = [client EXCEPT ![c] = Forget(c)]
  /\ UNCHANGED <<serviceVars, pings, kv, transfers, puts, rpcs, begun, confirmed,
                 crashes>>

\* Get, the client's loop and the handler, which only reads: the value, or
\* none, from a server that believes itself primary; anything else is retried.
Get(c) ==
  LET s == client[c].primary
  IN
  /\ client[c].op = "get" /\ s # None
  /\ \/ /\ s \in up /\ kv[s].role = "primary"
        /\ client' = [client EXCEPT ![c].op = "idle"]
     \/ /\ s \notin up \/ kv[s].role # "primary"
        /\ client' = [client EXCEPT ![c] = Forget(c)]
  /\ UNCHANGED <<serviceVars, pings, kv, transfers, puts, rpcs, begun, confirmed,
                 crashes, timeouts>>

-----------------------------------------------------------------------------
ServerNext(s) ==
  \/ SendPing(s) \/ ReadNumber(s) \/ ReadNames(s) \/ PingTimeout(s)
  \/ PingsLapse(s) \/ Crash(s) \/ Start(s)

TransferNext(t) ==
  BeginTransfer(t) \/ FinishTransfer(t) \/ TransferError(t) \/ Replay(t)

PutNext(p) ==
  RefusePut(p) \/ QueuePut(p) \/ ForwardPut(p) \/ ForwardError(p) \/ WritePut(p)

ClientNext(c) ==
  \/ \E k \in Key : BeginPut(c, k) \/ BeginGet(c, k)
  \/ UpdatePrimary(c) \/ CallPut(c) \/ CallTimeout(c) \/ Get(c)

Next ==
  \/ TickerFires
  \/ \E s \in KVServer : ServerNext(s)
  \/ \E c \in calls : HandlePing(c)
  \/ \E t \in transfers : TransferNext(t)
  \/ \E p \in puts : PutNext(p)
  \/ \E m \in rpcs : HandleSyncState(m) \/ HandleForwardUpdate(m)
  \/ \E c \in Client : ClientNext(c)

Spec == Init /\ [][Next]_vars

-----------------------------------------------------------------------------
(* Properties of safety.                                                   *)

\* A server that holds the current view's number holds the current view, has
\* the role of that view, and as primary has noticed its backup: at most one
\* server that is up to date believes itself primary, though views are read
\* while they change, and are only acted upon when their number changes.
UpToDate ==
  \A s \in KVServer : kv[s].currentView.num = currentView.num =>
    /\ kv[s].currentView = currentView
    /\ kv[s].role = RoleIn(currentView, s)
    /\ kv[s].role = "primary" => kv[s].lastBackup = currentView.backup

\* Puts are queued only while the goroutine of a transfer is at work that will
\* end the queueing, also when transfers overlap, fail or lose their server.
SyncingEnds ==
  \A s \in KVServer : kv[s].syncing =>
    \E t \in transfers : t.srv = s /\ t.phase \in {"sent", "synced"}

Holds(queue, put) == \E i \in DOMAIN queue : queue[i] = put

Mentions(queue, k) == \E i \in DOMAIN queue : queue[i].key = k

Serving(s) == kv[s].role = "primary"

\* Where a value of key k may be: in the primary's store, in its queue, with
\* the goroutine that replays a queue, or on its way from there.
Stored(k) == \E s \in KVServer : Serving(s) /\ kv[s].data[k] # NoValue

Queued(k) == \E s \in KVServer : Serving(s) /\ Mentions(kv[s].pendingQueue, k)

ToReplay(k) ==
  \E t \in transfers : t.phase = "replay" /\ Mentions(t.pending, k)

Replayed(k) == \E p \in puts : p.by \notin Client /\ p.put.key = k

\* The first primary is in office and has not crashed: it runs, and nobody has
\* crashed or it is not one that returns.
FirstPrimaryRuns ==
  LET primary == currentView.primary
  IN  /\ since <= 1
      /\ primary # None =>
           primary \in up /\ (crashes = 0 \/ primary \notin Returning)

\* As long as the first primary is in office and has not crashed, a key that a
\* client was told is stored is with it, in its store or on the way there:
\* though Puts are confirmed when they are only queued, a backup that is late
\* is dropped and taken back so that two transfers overlap and a replayed Put
\* is queued again, and a transfer fails because its backup crashes or does not
\* answer. (The value may be that of an older Put, and what a failed transfer
\* leaves in the queue waits there for another one.)
ConfirmedKept ==
  FirstPrimaryRuns =>
    \A k \in Key : confirmed[k] # NoValue =>
      Stored(k) \/ Queued(k) \/ ToReplay(k) \/ Replayed(k)

\* What the view service sees of the servers is what ViewPings says: the
\* number of a server's view, or the one that is on its way to it.
Told ==
  [s \in KVServer |-> IF numberRead[s] # -1 THEN numberRead[s]
                      ELSE kv[s].currentView.num]

Pings ==
  INSTANCE ViewPings
    WITH told <- Told, MaxCrashes <- MaxFaults, MaxDelays <- MaxFaults

ImplementsPings == Pings!Spec

-----------------------------------------------------------------------------
(* Liveness. The ticker, and the ping loop of a server that runs, go on;   *)
(* calls end, with an answer of a peer that runs if they are made again    *)
(* and again.                                                              *)

PingLoop(s) ==
  \/ SendPing(s) \/ ReadNumber(s) \/ ReadNames(s)
  \/ \E c \in calls : c.srv = s /\ ~c.expired /\ HandlePing(c)

Transferring(t) == TransferNext(t) \/ \E m \in SyncOf(t) : HandleSyncState(m)

Putting(p) == PutNext(p) \/ \E m \in ForwardOf(p) : HandleForwardUpdate(m)

Fairness ==
  /\ WF_vars(TickerFires)
  /\ \A s \in KVServer :
       /\ WF_vars(s \notin up /\ PingsLapse(s))
       /\ WF_vars(PingLoop(s))
       /\ WF_vars(\E t \in transfers : t.srv = s /\ Transferring(t))
       /\ WF_vars(\E p \in puts : p.srv = s /\ Putting(p))
  /\ \A c \in Client : WF_vars(UpdatePrimary(c) \/ CallPut(c) \/ Get(c))

FairSpec == Spec /\ Fairness

\* The view service is never for ever of the opinion that a running server is
\* primary which itself does not know: the one it names comes to serve.
PrimaryServes ==
  []<>(currentView.primary \in up => kv[currentView.primary].role = "primary")

\* A Put of s that was queued and is not yet put: in the queue, with the
\* goroutine that replays it, or on its way from there.
Waits(s, put) ==
  \/ Holds(kv[s].pendingQueue, put)
  \/ \E t \in transfers :
       t.srv = s /\ t.phase = "replay" /\ Holds(t.pending, put)
  \/ \E p \in puts : p.srv = s /\ p.by \notin Client /\ p.put = put

\* What a transfer that failed leaves in the queue, with queueing over and no
\* other transfer at work.
LeftBehind(s, put) ==
  /\ Holds(kv[s].pendingQueue, put) /\ ~kv[s].syncing
  /\ ~ \E t \in transfers : t.srv = s /\ t.phase # "replay"

\* A queued Put gets into the store of the server that queued it, also when the
\* next transfer queues it again, unless the server loses its role or every
\* transfer that could have replayed it failed.
QueuedPutsReplayed ==
  \A s \in KVServer, put \in [key : Key, value : 1..MaxOps] :
    Waits(s, put) ~> \/ kv[s].data[put.key] = put.value
                     \/ ~Serving(s) \/ LeftBehind(s, put)

\* Every operation of a client ends, whomever it has cached as primary and
\* whoever crashes, unless the view service is left with a dead primary, or
\* with none.
OperationsEnd ==
  \A c \in Client :
    []<>(client[c].op = "idle") \/ <>[](currentView.primary \notin up)

-----------------------------------------------------------------------------
(* What the repository says, and the code does not.                        *)

Quiet == transfers = {} /\ puts = {} /\ rpcs = {}

\* kvserver.proto: ForwardUpdate is called by the primary to replicate updates
\* to the backup. So once nothing is under way and both hold the current view,
\* the backup has what clients were told is stored.
BackupHasConfirmed ==
  LET v == currentView
      settled == Quiet /\ \A s \in {v.primary, v.backup} : kv[s].currentView = v
  IN  v.backup # None /\ settled => kv[v.backup].data = confirmed
=============================================================================
