------------------------------ MODULE ViewPings ------------------------------
(***************************************************************************)
(* The view service with the servers that ping it, as far as the service   *)
(* can tell: the view numbers they send. A server's pingLoop makes one     *)
(* call after the other; a call may time out and be handled later, and a   *)
(* server may crash and start again with view 0.                           *)
(*                                                                         *)
(* The service answers with its only View structure, which gRPC reads      *)
(* after the service's lock is released: the number a server is told may   *)
(* be of a later view than the one its ping met (ReadReply). What it takes *)
(* to arrive afterwards is part of how slow its server is.                 *)
(***************************************************************************)
EXTENDS ViewService

CONSTANTS
  MaxCrashes,  \* bound: crashes
  MaxDelays    \* bound: pings of a running server that are late or given up

ASSUME PingsAssumption == {MaxCrashes, MaxDelays} \subseteq Nat

VARIABLES
  up,       \* the servers that run
  told,     \* the number of KVServer.currentView of each server
  calls,    \* pings sent and not yet handled
  reading,  \* the servers whose reply gRPC has still to read
  crashes,  \* counter: crashes
  delays    \* counter: pings of a running server that are late or given up

bounds == <<crashes, delays>>
vars == <<serviceVars, up, told, calls, reading, bounds>>

TypeOK ==
  /\ ServiceTypeOK
  /\ up \subseteq KVServer /\ reading \subseteq KVServer
  /\ told \in [KVServer -> Nat]
  /\ calls \subseteq [srv : KVServer, num : Nat, expired : BOOLEAN]
  /\ {crashes, delays} \subseteq Nat

Init ==
  /\ ServiceInit
  /\ up = KVServer
  /\ told = [s \in KVServer |-> 0]
  /\ calls = {} /\ reading = {}
  /\ crashes = 0 /\ delays = 0

\* pingLoop is in the middle of a ping.
Waiting(s) == s \in reading \/ \E c \in calls : c.srv = s /\ ~c.expired

\* ping up to the call.
SendPing(s) ==
  /\ s \in up /\ ~Waiting(s)
  /\ calls' = calls \cup {[srv |-> s, num |-> told[s], expired |-> FALSE]}
  /\ UNCHANGED <<serviceVars, up, told, reading, bounds>>

\* The service handles a call, and answers when somebody waits for it.
HandlePing(c) ==
  /\ Ping(c.srv, c.num)
  /\ calls' = calls \ {c}
  /\ reading' = reading \cup {s \in {c.srv} : ~c.expired}
  /\ UNCHANGED <<up, told, bounds>>

\* The number is read out of the shared view and reaches its server.
ReadReply(s) ==
  /\ s \in reading
  /\ told' = [told EXCEPT ![s] = currentView.num]
  /\ reading' = reading \ {s}
  /\ UNCHANGED <<serviceVars, up, calls, bounds>>

\* Nobody waits any more for what s called.
Abandon(s) ==
  /\ calls' = {[c EXCEPT !.expired = @ \/ c.srv = s] : c \in calls}
  /\ reading' = reading \ {s}

\* ping gives up after 2 s and leaves the view as it is.
PingTimeout(s) ==
  /\ Waiting(s) /\ delays < MaxDelays
  /\ delays' = delays + 1
  /\ Abandon(s)
  /\ UNCHANGED <<serviceVars, up, told, crashes>>

Crash(s) ==
  /\ s \in up /\ crashes < MaxCrashes
  /\ crashes' = crashes + 1
  /\ up' = up \ {s}
  /\ told' = [told EXCEPT ![s] = 0]
  /\ Abandon(s)
  /\ UNCHANGED <<serviceVars, delays>>

\* A server starts with an empty view.
Start(s) ==
  /\ s \notin up
  /\ up' = up \cup {s}
  /\ UNCHANGED <<serviceVars, told, calls, reading, bounds>>

\* Time passes: a crashed server is late, and one that runs may be.
PingsLapse(s) ==
  /\ Lapse(s)
  /\ \/ s \notin up /\ UNCHANGED delays
     \/ s \in up /\ delays < MaxDelays /\ delays' = delays + 1
  /\ UNCHANGED <<up, told, calls, reading, crashes>>

TickerFires == Tick /\ UNCHANGED <<up, told, calls, reading, bounds>>

-----------------------------------------------------------------------------
Next ==
  \/ \E s \in KVServer :
       \/ SendPing(s) \/ ReadReply(s) \/ PingTimeout(s)
       \/ Crash(s) \/ Start(s) \/ PingsLapse(s)
  \/ \E c \in calls : HandlePing(c)
  \/ TickerFires

Spec == Init /\ [][Next]_vars

-----------------------------------------------------------------------------
(* Liveness. The ticker runs; a crashed server is late in the end; a       *)
(* running server goes on pinging, and its calls end, with a reply if they *)
(* are made again and again.                                               *)

Fairness ==
  /\ WF_vars(TickerFires)
  /\ \A s \in KVServer :
       /\ WF_vars(s \notin up /\ PingsLapse(s))
       /\ WF_vars(SendPing(s))
       /\ WF_vars(\E c \in calls : c.srv = s /\ ~c.expired /\ HandlePing(c))
       /\ WF_vars(ReadReply(s))

FairSpec == Spec /\ Fairness

\* A primary that acknowledged its office and stays dead does not remain
\* primary, whether its backup lives, dies with it or is missing.
DeadPrimaryLeaves ==
  \A s \in KVServer :
    (currentView.primary = s /\ service.primaryAcked /\ s \notin up) ~>
      (currentView.primary # s \/ s \in up)

\* As long as a primary and some other server run, a missing backup is found.
BackupIsFound ==
  \A s \in KVServer : \A t \in KVServer \ {s} :
    (/\ currentView.primary = s /\ currentView.backup = None
     /\ {s, t} \subseteq up) ~>
      \/ currentView.backup # None \/ currentView.primary # s
      \/ ~({s, t} \subseteq up)
=============================================================================
