# Verification of goDistributedSystemDemo

The repository holds two independent key-value stores, both in Go over gRPC:

* a **Multi-Paxos store** (`multipaxos_kvstore/`): N servers, each one proposer,
  acceptor and learner, that replicate a log of commands;
* a **primary/backup store** (`kv_server_main/`) whose roles are assigned by a
  **view service** (`view/`).

This directory models them in TLA+, checks the models with TLC and proves
theorems about them with TLAPS. `PROJECT.json` is the index: components, runs,
mutants, the source lines behind every definition, findings, hazards, theorems.

## 1. Inventory

### Multi-Paxos store

| Part | State it keeps | Operations | What must hold |
|---|---|---|---|
| Ballots (`types/types.go`) | — | compare (term, id) | a strict total order |
| Persistent state (`persistence/persistence.go`) | `Log`, `Npromised`, `HighestAcceptedBallot`, and a JSON file of all three | append, update, set, save (temporary file + rename), load | the file is never behind what was answered |
| Acceptor (`HandlePrepare`, `HandleAccept`) | the persistent state | promise, accept | promises only rise, nothing is accepted below a promise, a promise reports what was accepted |
| Proposer, phase 1 (`electionLoop`, `startElection`, `adoptAcceptedEntries`, `becomeLeader`) | `state`, `currentLeader` | campaign, adopt, lead or step back | elected by a majority, under a new ballot of one's own; a candidacy ends |
| Proposer, phase 2 (`Put`, `Delete`, `proposeNoOp`, `proposeEntry`) | `commitIndex` | append, ask the peers, commit or step down | OK only after a majority accepted; a call ends |
| Heartbeats (`sendHeartbeats`, `HandleHeartbeat`) | `commitIndex`, `currentLeader` | spread the commit index, find peers that are behind | a commit index stands for a chosen index |
| State transfer (`initiateStateTransfer`, `HandleStateTransfer`) | the log | send the missing entries | a lagging peer catches up |
| Learner (`applyLoop`, `KVStore`) | `lastApplied`, the map | apply up to `commitIndex` | same command at the same position everywhere, in order |
| RPC (`paxos_client.go`, `grpc_server.go`) | cached connections | Prepare, Accept (2 s), Heartbeat (1 s), TransferState (5 s) | — |
| Client (`client/client.go`) | — | try each server until one says OK | OK is the answer to the request it waits for |

The servers interact by RPCs only. Inside one server, gRPC handlers, the election
goroutine (which also sends heartbeats), one goroutine per client call, one per
RPC and the apply goroutine share one `PaxosServer` behind `s.mu`.

What is hard: a round of RPCs is sent outside the lock, so everything a handler
may do lies between what a proposer read and what it concludes; RPCs are lost, or
handled after their caller gave up; two saves make one accept; a save may fail and
leave memory ahead of the file; a server may crash anywhere and comes back from its
file; the flag `-role_leader` makes a leader without an election.

### Primary/backup store

| Part | State it keeps | Operations | What must hold |
|---|---|---|---|
| View service (`view/viewservice/server.go`) | current view, who is alive, idle servers, `primaryAcked` | `Ping`, `GetView`, one tick every 0.5 s | a new primary held the data; the view moves only after the primary acknowledged it; a dead primary is replaced |
| KV server (`kv_server_main/kvserver/server.go`) | view, role, data, `lastBackup`, `syncing`, `pendingQueue` | `ping`, `handleViewChange`, `transferState`, `Get`, `Put`, `ForwardUpdate`, `SyncState` | the backup holds every acknowledged Put; one primary answers |
| Client (`client_main/`) | cached primary | `Get`, `Put` with retries, `UpdatePrimary` | an operation ends once a server serves |

KV servers ping the view service with the view number they hold and take over the
view it returns; a primary forwards Puts to its backup and copies its whole store to
a new one. What is hard: the view a server holds is old when it is used, replies
share one view structure with the ticker, Puts run while the store is being copied,
and failed forwards are ignored.

## 2. Modules

| Module | What it is |
|---|---|
| `Ballots` | ballot numbers and their order |
| `Persistence` | the persistent state as a value, with the effect of each method |
| `AcceptorContract` | abstract specification: what acceptors promise the cluster |
| `MultiPaxos` | the servers and the network, one action per critical section |
| `PaxosClients` | `MultiPaxos` composed with its clients and the map of its learners |
| `ViewService` | the view service: a ping, and the steps of a tick |
| `ViewPings` | `ViewService` composed with servers that do nothing but ping, crash and start |
| `PrimaryBackup` | `ViewService` composed with the key-value servers and their clients |
| `MCMultiPaxos`, `MCPaxosClients`, `MCViewPings`, `MCPrimaryBackup` | for TLC: symmetry, the calls that clients make, a later initial state |
| `PersistenceProofs` | lemmas on ballots and on every operator of `Persistence` |
| `MultiPaxosProofs` | types, promises, the contract, fresh ballots, durability |
| `ChosenProofs` | majorities: elections, commits, what promises report and elections find, the learner's positions |
| `PaxosClientsProofs` | what OK means to a client |
| `StoreProofs` | the map of a learner |
| `ViewServiceProofs` | the view service, whoever pings it |
| `ViewProofs` | the theorems about the view service with its pings |
| `PrimaryBackupProofs` | types, views and roles, queueing, the refinement, confirmed Puts |

`Persistence` and `Ballots` are pure operators; `MultiPaxos` is built from them and
implements `AcceptorContract` by the identity on `granted` and `votes`. `PaxosClients`
adds its variables to those of `MultiPaxos`, and every step of a server in it is one of
`MultiPaxos!Next`. `ViewPings` and `PrimaryBackup` both extend `ViewService` with its
surroundings; `ViewPings` is the abstract specification of what the view service sees
of the servers, and `PrimaryBackup` implements it (`ImplementsPings`), with `told` mapped
to the number that a server holds or is about to hold.

### How the Multi-Paxos model corresponds to the code

*State.* `state`, `currentLeader`, `commitIndex`, `lastApplied` and `ps` are the
fields of `PaxosServer`, one value per server; `disk` is the file of `ps`. `applied`
is the sequence of entries given to `kvStore.Apply`; the key-value map is a function
of it. `stuck` says that `s.mu` is held for ever. `round` is the local state of
the goroutine of `electionLoop` (an election or a round of heartbeats), `props` that
of the calls of `proposeEntry`. `granted`, `votes` and `acked` are histories that
no server reads; the clients of `PaxosClients` take their OK from `acked`. `nextIndex` and `matchIndex` are written and never read by the
code; they, `lastHeartbeat` and `heartbeatCh`, which only decide when things happen,
have no counterpart.

*Actions.* A critical section of `s.mu` is one action:

| Code | Action |
|---|---|
| `startElection` up to the calls | `StartElection` |
| `HandlePrepare` | `HandlePrepare` |
| a promise counted, `adoptAcceptedEntries` | `ReceivePromise` |
| after `wg.Wait`: `becomeLeader`, or follower again | `FinishElection` |
| `Put`, `Delete` up to `RUnlock` | `ReadLogLength` |
| `proposeNoOp` up to `proposeEntry` | `ProposeNoOp` |
| `proposeEntry` up to the calls | `ProposeEntry` |
| `HandleAccept`, and its answer counted | `HandleAccept` |
| after `wg.Wait`: commit, or step down | `FinishProposal` |
| `sendHeartbeats` up to the calls | `SendHeartbeats` |
| `HandleHeartbeat`, and its answer counted | `HandleHeartbeat` |
| `initiateStateTransfer`, `getPeerClient` | `InitiateStateTransfer` |
| after `wg.Wait`: step down without a majority | `FinishHeartbeats` |
| one tick of `applyLoop` | `ApplyCommittedEntries` |
| a crash, `load`, `NewPaxosServer` | `Restart` |

Each save may fail (`SaveFails`): memory then holds what the file does not, and the
handler returns its error. `HandleAccept` has two saves and either may fail.

*Abstractions.* Time is left out: a timeout may fire whenever the code could take
it. A message that stays in `msgs` is refused, lost or late, and `wg.Wait` may end at
any time with the calls still out counted as failed; what they asked for may be
handled later, because the handlers ignore the context of the call. A refused RPC
changes nothing in the code and is no step of the model. The answer to an accept or
a heartbeat is counted when it is given, or never: counting touches nothing but the
caller's own counter, so a later moment would make no difference; answers to prepares,
which carry entries, are messages of their own. The operation, key and value of an
entry are one opaque command, and each request is submitted once. The saves of `adoptAcceptedEntries`,
one per adopted entry, succeed or fail together. `HandleStateTransfer` has no action
because no execution sends its RPC: its only caller blocks first.

### How the clients of the Multi-Paxos store correspond to the code

*State.* A call of `Put` or `Delete` is an element of `Op`: client, operation, key, value.
`trying` is the index of the loop over the servers, `sent` the requests that no server has
taken up, `ok` the calls that returned without an error. A request of `MultiPaxos` is a
call made to one server, so a retried call is several requests, which may all be applied.

| Code | Action |
|---|---|
| one round of the loop of `Put`, `Delete` | `TryNext` |
| the handler of the request, up to `proposeEntry` | `HandleRequest` (`ReadLogLength`) |
| a response with `Success` | `HearOK` |
| a crash of a server | `RestartServer` (`Restart`) |
| `KVStore.Apply` | `Apply`, folded over `applied` |
| `Get` of client and server | `Get`, the values a client may read |

*Abstractions.* A client goes on to the next server when it is refused (`Refused`: no
leader, a failed proposal, a dead server) or when it gives up after 5 s, which may be at
any time and which `MaxGiveUps` bounds. A client makes one call after the other. The
value `reject`, which the server refuses before it changes anything, is not put.
`Get` changes nothing, so it is an operator and not an action.

### How the view model corresponds to the code

*State.* `service` is the `ViewServer` structure: `currentView`, `servers` (name to
alive), `idleServers` (as a set) and `primaryAcked`. Instead of times of pings, `late`
holds the servers whose last ping is older than `DeadInterval`. `told` is the number in
`KVServer.currentView`; `calls` are pings that were sent, `reading` the servers whose
reply is not yet marshalled. `lastAck` and `since` are histories that only properties
read.

*Actions.* `Ping` and `checkFailuresAndPromote` hold `vs.mu` throughout and are one action
each:

| Code | Action |
|---|---|
| `KVServer.ping` up to the call | `SendPing` |
| `ViewServer.Ping` | `HandlePing` (`Ping`) |
| the rest of `KVServer.ping` | `ReadReply`, or `PingTimeout` after 2 s |
| one tick of `ticker` | `TickerFires` (`Tick`: `MarkDead`, `HandleDeadPrimary`, `HandleDeadBackup`, `AssignPrimary`, `AssignBackup`) |
| `DeadInterval` passes without a ping | `PingsLapse` |
| a server process dies, `StartServer` | `Crash`, `Start` |

*Abstractions.* The loops over the map of servers may choose any server that fits, as Go
ranges over maps in no order. `Ping` answers with a pointer to the service's only `View`,
which is marshalled after the lock is released: `ReadReply` reads the number at that later
moment. The view service itself does not crash: it keeps nothing on disk, and nothing in
the repository starts it again beside running servers. `GetView` changes nothing.

### How the primary/backup model corresponds to the code

*State.* `kv` is the `KVServer` structure of each server. `calls`, `reading` and
`numberRead` are the pings under way: sent, answered but not yet marshalled, and with the
number marshalled but not the names. `transfers` are goroutines of `transferState`, `puts`
handlers of `Put`, `rpcs` the calls of `ForwardUpdate` and `SyncState` under way. `client`
is a client's operation, its cached primary and the attempt it waits for. Values are the
numbers of the Puts that wrote them. `confirmed` is a history: the last value of each key
that a client was told is stored.

| Code | Action |
|---|---|
| `KVServer.ping` up to the call | `SendPing` |
| `ViewServer.Ping` | `HandlePing` |
| gRPC marshals the answer: number, names | `ReadNumber`, then `ReadNames` |
| the rest of `ping`, `handleViewChange` | `ReadNames` |
| no answer within 2 s | `PingTimeout` |
| a tick; `DeadInterval` passes | `TickerFires`; `PingsLapse` |
| a server process dies, `StartServer` | `Crash`, `Start` |
| `transferState` up to the call | `BeginTransfer` |
| `SyncState` | `HandleSyncState` |
| `transferState`: success; error | `FinishTransfer`; `TransferError` |
| the replay of the queue | `Replay`, one `Put` at a time |
| `Put`: not primary; syncing; else | `RefusePut`; `QueuePut`; `ForwardPut` |
| `ForwardUpdate`; its error | `HandleForwardUpdate`; `ForwardError` |
| the last critical section of `Put` | `WritePut` |
| client `Put`, `Get` | `BeginPut`, `BeginGet`, `CallPut`, `CallTimeout`, `Get` |
| client `UpdatePrimary`, `GetView` | `UpdatePrimary` |

*Abstractions.* The answer to a ping is torn between the number and the names, where it
matters what a server holds under which number; a tear between the names of primary and
backup is left out, and so are the views that one tick passes through, since `Tick` is one
step: a reader sees the view before the tick or after it. An answer to a call between
servers is taken when it is given: a late answer is a slow server. An attempt is told
from an earlier one by the crashes and timeouts before it (`Attempt`), which are what
makes one attempt follow another. Errors of calls to a server that is down come at
once. A client's Get is one step with the handler, which only reads.

## 3. Runs

The Paxos configurations say `CHECK_DEADLOCK FALSE`: the bounded system ends when every
counter is used up and the remaining messages are lost.

Bounds: `Electors` (servers whose election timeout fires), `MaxTerm` (no election
beyond it), `MaxHeartbeats` (rounds), `MaxRestarts` (crashes), `MaxFaults` (in
`MultiPaxos`, failed saves), `Request` (client commands), `MaxGiveUps` (requests given up
though they are under way); in `ViewPings` `MaxCrashes`, and `MaxDelays` (pings given up,
or servers late though they run); in `PrimaryBackup` `MaxOps` (client operations),
`FaultKinds` and `MaxFaults` (crashes, late pings and calls given up, all together), and
`Returning` (servers that start again after a crash).

| Run | Instance | Shows |
|---|---|---|
| `paxos_elections` | N = 3, leader 0 by its flag, servers 0 and 1 campaign, terms to 2 | `PromisesKept`, `ElectedByMajority`, `NewBallotFresh`, `Contract` |
| `paxos_failover` | N = 3, one Put, server 1 campaigns, one crash of any server, one failed save | `TypeOK`, `PromisesKept`, `CommitsAreChosen`, `AcceptedSlotsDurable`, `PromisesReport`, `ElectionsFindCommits`, `Contract` |
| `paxos_clients` | N = 2, one client that puts and deletes one key, server 1 campaigns, one crash, one request given up | `ClientTypeOK`, `CommitsAreChosen`, `OKMeansChosen`, `StoreIsLastWrite` |
| `paxos_liveness` | N = 2, one Put, one heartbeat round, one crash (the flag given again to server 0), one failed save | `AppliedOnce`, `CandidaciesEnd`, `ProposalsEnd`, `AppliesCatchUp` |
| `view_service` | 3 servers, one crash, one delay (a ping given up, or a running server that is late) | `TypeOK`, `PartsApart`, `AckedInOffice`, `BackupSucceeds`, `NumbersNameViews` |
| `view_liveness` | 2 servers, one crash, one delay | `DeadPrimaryLeaves`, `BackupIsFound` |
| `kv_roles` | 2 servers, one fault of any kind, crashed servers return, no clients | `TypeOK`, `UpToDate`, `SyncingEnds`, `ImplementsPings` |
| `kv_liveness` | 2 servers, the second joining, one client with one operation, one fault (a crash, a ping that is late or given up, a call given up), nobody returns | `ConfirmedKept`, `PrimaryServes`, `QueuedPutsReplayed`, `OperationsEnd` |

Why the bounds are enough. *Paxos:* three servers are the least for which a majority is
neither one nor all; two candidates and term 2 give ties of terms, a candidate that is
overtaken during its election, and one that campaigns again; one crash and one failed
save are where the file and memory part, and the fault can be any save. With two
servers a majority is everybody, any lost message matters, and a client has a server to
go on to: two calls of one client, one request given up and one crash give a request
handled after its call failed, a call that succeeds at the second server while the first
still proposes it, and a Delete that races the Put before it. *View service:* three servers
are the least for which one is idle while there are a primary and a backup; one crash with
one delay is the least for which both are found dead in one tick, and for which a delayed
ping of a server that has crashed and started again arrives in a later view.
*Primary/backup:* two servers are what the tests start; one fault is where a view is torn
by a tick, a transfer fails or overlaps with the next one, or a server comes back to
the part it had. `kv_roles` has no clients because views, roles and transfers do not depend
on them. `kv_liveness` starts from `Joining`, a state that the model reaches, where the first
server is primary and acknowledged, as in `auto_test_p2.sh`, the second has just been made
backup in view 2, and neither has been told; there the second server's transfer races the
client. With one late ping the backup is dropped and taken back, so that two transfers
overlap, the first one ends the queueing of the second, and a Put that is replayed is
queued again; with one crash or one call given up a transfer fails, and leaves its Put in
the queue. All of this happens in the run with the one operation of its client, while the
first primary is in office, and can break `ConfirmedKept` and `QueuedPutsReplayed`. What one
operation does not give is a newer Put beside an older one; for `ConfirmedKept` the theorem
covers it. `kv_backup` starts there too, without any fault. The theorems cover every number
of servers and operations and every bound.

Runs that end in a violation, each of a sentence the repository says:

| Run | Property | What happens |
|---|---|---|
| `failover_loses_put` | `AppliedAgree` | the proposer's own entry is not marked as accepted, so a new leader elected with its promise does not learn of it |
| `apply_skips` | `AppliedInOrder` | the learner passes an index it does not have and never returns to it |
| `state_transfer` | `TransfersEnd` | the leader's goroutine waits for a lock that it holds itself |
| `kv_backup` | `BackupHasConfirmed` | a Put that read that there is no backup writes after the transfer to a new one, which never gets the value |

Each property of a passing run has a mutant in `PROJECT.json`: a definition of the
model changed the way a bug of the code would change it, which TLC finds.

*Fairness.* `FairSpec` assumes weak fairness of what is under way inside a server:
the end of a round of calls (every call has a timeout of 1 to 5 s), the steps of
a client call, the tick of `applyLoop`, the goroutine that starts a state transfer.
Nothing is assumed of elections, heartbeats, clients, crashes or the delivery of
messages. A server locked out by its own state transfer is excused by
`ProposalsEnd` and `AppliesCatchUp`; `state_transfer` is about it.

`ViewPings!FairSpec` assumes weak fairness of the ticker (a loop over a Go ticker), of
the lateness of a server that has crashed (time passes), of the next ping of a running
server (its `pingLoop`), and of the handling and the reply of a call that is not given
up. Calls are given up at most `MaxDelays` times: the liveness is that of a network that
works in the end. Nothing is assumed of crashes or of restarts, and calls whose caller
gave up need never be handled.

`PrimaryBackup!FairSpec` assumes weak fairness of the ticker, of the lateness of a server
that has crashed, of the ping loop of a running server with the handling of its ping, of
the transfers and of the Puts of a server with the calls they wait for, and of a client's
loop. A call that is still awaited is handled, or ends with an error, since every one has
a timeout; nothing is assumed of calls that were given up, of crashes or of restarts. The
properties name what is excused, at the state they excuse: `OperationsEnd` a view service
left with a dead primary that never acknowledged its view, `QueuedPutsReplayed` a server
that has lost its role, and a Put that is in the queue when queueing is over and no
transfer is at work, because every one failed: the code leaves it there. A crash, a late
ping or a call given up elsewhere excuses nothing.

## 4. Proofs

For every N, every set of requests and every bound, `MultiPaxosProofs` proves:

* `TypeCorrect`: `Spec => []TypeOK`. The strengthening `MsgsOK` says that messages go
  from one server to another and that no entry they carry is blank, `StorageOK` that every
  marked slot of a log is filled: what a promise brings can be adopted.
* `PromisesAreKept`: `Spec => []PromisesKept`. Not inductive alone: a save writes all
  of memory, so one must know that memory is never below the file (`FileBehind`), and a
  candidate or proposer must not undercut what it voted for itself
  (`OwnVotesKept`). `PromiseInv` is the conjunction. Assumes `RestartRole = {}`:
  a server restarted with `-role_leader` overwrites its promise, and the property fails.
* `ImplementsContract`: `Spec => Contract`, from `EveryAcceptorStep`: each step either
  leaves `granted` and `votes` alone, or is a `Promise` or a `Cast` of the contract. Same
  assumption.
* `CandidateBallotIsFresh`: `Spec => NewBallotFresh`, from the same invariant. Same
  assumption.
* `AcceptanceIsDurable`: `Spec => []AcceptedSlotsDurable`, with no assumption on
  restarts. Its invariant `MarksKept` says of memory and of the file that every marked
  index is filled with an entry of that index (`SlotsFilled`), and that memory keeps
  every mark of the file.

`ChosenProofs` proves, for the same parameters and with `RestartRole = {}`:

* `CommittedIsChosen`: `Spec => []CommitsAreChosen`. The goroutine that counts an
  answer is found by a name and a server, so the invariant `ProposalInv` says that a server uses a name once (`NamesUsed`, `NamesApart`, `NoOpsFree`: a request is taken
  up once, and the ballot that names a no-op is above everything its server promised, which
  is where `PromiseInv` comes in), hence that an Accept on its way belongs to the proposal of
  its name, and that whoever is counted has accepted (`Counted`). `NamesAssumption` says that
  requests are not ballots. Counting itself is `CountedMajority`, from the library's facts on
  finite sets. `CommitInv` adds that the commit index of a heartbeat stands for a proposal
  that succeeded.
* `LeadersAreElected`: `Spec => ElectedByMajority`. `ElectionInv` says that a promise on its
  way was given, that the candidate never counts itself, and that the number of a round of
  heartbeats, which an election does not have, keeps their answers apart.
* `PromisesAreComplete`: `Spec => []PromisesReport`, from the marks of
  `AcceptanceIsDurable`, which a promise is made of, and from `PromisesKept`: what a server
  accepts while its promise is on its way is not below it.
* `CommitsAreFound`: `Spec => []ElectionsFindCommits`, the heart of the election rule. Two
  majorities meet (`MajoritiesMeet`), so a candidate that may lead counts itself or the
  promise of an accepter. `LearnedInv` says that it has a command wherever such a server
  accepted another's proposal under a lower ballot: the promise reported it
  (`PromisesReport`), and it was adopted unless something was there. For this `SoundInv` says
  that only padding carries the zero ballot, so that nothing reported loses against it, and
  `StepStays` that no log loses a command while its server campaigns. The case left out, a
  proposer that is the only witness, is the one that `failover_loses_put` shows.

and without any assumption on restarts

* `LearnerGoesForward`: `Spec => []AppliedOnce`. `LearnerInv` says that a commit index,
  held, on its way or about to be sent, is not beyond a proposal that succeeded
  (`CommitsSucceeded`), and that `lastApplied` is what the learner's last position was, or
  further (`Forward`).

`PaxosClientsProofs` shows that the servers with any clients are those of `MultiPaxos`
(`ServersAreMultiPaxos`), so that all of this holds of them, and

* `ClientTypeCorrect`: `ClientSpec => []ClientTypeOK`;
* `OKIsChosen`: `ClientSpec => []OKMeansChosen`, with `RestartRole = {}`, since a call that
  is over asks no other server (`OKsAnswered`).

`StoreProofs` proves `StoreCorrect`: `ClientSpec => []StoreIsLastWrite`. The map is a fold
over the entries applied. The prover has no induction over data, so the proof takes the
shortest prefix whose map would be wrong, which exists among natural numbers, and shows
that its last command does not make it so.

For any set of servers and any bounds, `ViewProofs` proves `TypeCorrect`,
`PartsAreApart`, `AcknowledgedInOffice`, `NumbersAreUnique` and `BackupTakesOver`, from the
lemmas of `ViewServiceProofs`. A tick is a chain of five functions of the state of the
service. Each satisfies the relation `Advances` (numbers grow with every change of the
view, the parts stay apart, and an acknowledged primary was acknowledged before), which is
transitive, so `TickAdvances` follows step by step. The inductive invariant `ServiceInv`
adds to the two state properties that an office is not younger than the current view
(`since <= currentView.num`), which is what makes a ping that names the current view one
of the present office.

For any servers, clients, keys and bounds, `PrimaryBackupProofs` proves

* `TypeCorrect`: `Spec => []TypeOK`;
* `CurrentNumberCurrentRole`: `Spec => []UpToDate`. `RolesInv` adds that no server holds, or
  is about to hold, a number above that of the service, and that number 0 is the empty
  view: so whoever reads the current number reads the names of the current view.
* `QueueingHasAnEnd`: `Spec => []SyncingEnds`, inductive with the types;
* `ConfirmedIsKept`: `Spec => []ConfirmedKept`. `ValuesInv` says that whatever is put has a
  value. The property speaks of the time while the first primary is in office and has not
  crashed (`FirstPrimaryRuns`), whatever the others do and whatever is late or given up. A
  step after which that holds has found it holding, with the same primary
  (`FirstPrimaryStays`, for which `NobodyDown` says that without crashes everyone is up). In
  that time `Calm` says that nobody else serves, and `AtWork` that its transfers go to
  another server, that SyncState comes from it, and that the Puts that are forwarded,
  written or replayed are its own. Then each step takes a key only from the replay into
  the queue or the store, from the queue to the transfer, from there to the replay, and
  never out of the store (`StoredStays`, `QueuedStays`, `ToReplayStays`, `ReplayedStays`).
  `CallersAssumption` says that a client is not a transfer, so that a Put tells who called.
  The value may be an old one: a replayed Put may come behind a newer Put of the same key.
* `StoreImplementsPings`: `Spec => ImplementsPings`, by a step of `ViewPings` or a stutter
  for each action, under the mapping `Told`. With it the theorems of `ViewProofs` hold of
  the whole store.

`PersistenceProofs` holds the lemmas on the operators: types, what each method keeps,
that ballots are totally ordered, that `GetAllAcceptedEntries` reports every filled
and marked slot.

Every invariant, action property and refinement that a passing run checks is proved. Only
model-checked is all liveness under fairness (`CandidaciesEnd`, `ProposalsEnd`,
`AppliesCatchUp`, `DeadPrimaryLeaves`, `BackupIsFound`, `PrimaryServes`,
`QueuedPutsReplayed`, `OperationsEnd`), which is out of the prover's reach. Without
`RestartRole = {}` the theorems that assume it do not hold: a server restarted with
`-role_leader` goes back to term 1.

## 5. Not modelled

* Generated protobuf code, flag parsing, printing, and the build and test scripts: they
  carry the calls that the models have as messages, or start the processes.
* `HandleStateTransfer` of the Multi-Paxos store, which no execution reaches
  (`state_transfer` shows why), with the `TransferState` wrappers.
* The conversions of the RPC wrappers between protobuf and Go structures, field by field.
* A crash of the view service.
* `nextIndex` and `matchIndex`, which the code writes and never reads.

## 6. Plan

Left for later: agreement of the learners under the assumptions that would make it hold
(the own vote marked, one proposal at a time), as a variant that shows which repairs
suffice; which value of a key survives a transfer of the primary/backup store when two
clients put, beyond `ConfirmedKept`, which says that one does.
