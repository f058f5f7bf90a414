---------------------------- MODULE ViewService ----------------------------
(***************************************************************************)
(* The view service of the primary/backup store (view/viewservice). Ping   *)
(* and one tick of the ticker each run under the service's lock, and are   *)
(* one action each. ViewPings composes it with the servers that ping it.   *)
(*                                                                         *)
(* Time: `late' holds the servers whose last ping is older than            *)
(* DeadInterval. It grows when time passes (Lapse) and a ping of the       *)
(* server takes it out.                                                    *)
(***************************************************************************)
EXTENDS Integers

CONSTANTS
  KVServer,  \* names of the key-value servers
  None       \* the empty name

ASSUME ViewAssumption == None \notin KVServer

VARIABLES
  service,  \* ViewServer: its view, who is alive, who is idle, primaryAcked
  late,     \* the servers whose last ping is older than DeadInterval
  lastAck,  \* history: the last ping in which a primary named the current view
  since     \* history: the number of the view that brought the primary

serviceVars == <<service, late, lastAck, since>>

Name == KVServer \cup {None}

View == [num : Nat, primary : Name, backup : Name]

NoViewBelow ==  \* mutant: views are counted from -1
  [num |-> -1, primary |-> None, backup |-> None]
NoView == [num |-> 0, primary |-> None, backup |-> None]

currentView == service.currentView

Known == DOMAIN service.servers

\* The servers that have pinged, and whether they are alive.
ServerInfo == UNION {[S -> BOOLEAN] : S \in SUBSET KVServer}

ViewServer ==
  [currentView : View,
   servers : ServerInfo,
   idleServers : SUBSET KVServer,
   primaryAcked : BOOLEAN]

ServiceTypeOK ==
  /\ service \in ViewServer
  /\ late \subseteq KVServer
  /\ lastAck \in [srv : Name, num : Nat] /\ since \in Nat

\* No primary yet, which counts as acknowledged.
ServiceInit ==
  /\ service = [currentView |-> NoView, servers |-> [s \in {} |-> TRUE],
                idleServers |-> {}, primaryAcked |-> TRUE]
  /\ late = {} /\ lastAck = [srv |-> None, num |-> 0] /\ since = 0

\* DeadInterval has passed since the last ping of s.
Lapse(s) ==
  /\ s \in Known \ late
  /\ late' = late \cup {s}
  /\ UNCHANGED <<service, lastAck, since>>

-----------------------------------------------------------------------------
(* Ping.                                                                   *)

AcknowledgesAny(s, num) ==  \* mutant: the view number is not compared
  s = currentView.primary
Acknowledges(s, num) == s = currentView.primary /\ num = currentView.num

\* Server s, which holds view num, pings for the first time, or again.
Ping(s, num) ==
  /\ late' = late \ {s}
  /\ service' =
       [service EXCEPT
          !.servers = [t \in Known \cup {s} |-> t = s \/ @[t]],
          !.idleServers = @ \cup ({s} \ (Known \cup {currentView.primary,
                                                      currentView.backup})),
          !.primaryAcked = @ \/ Acknowledges(s, num)]
  /\ lastAck' = IF Acknowledges(s, num) THEN [srv |-> s, num |-> num]
                ELSE lastAck
  /\ UNCHANGED since

-----------------------------------------------------------------------------
(* Ticker. checkFailuresAndPromote is a sequence of steps on the state sv  *)
(* of the service.                                                         *)

Alive(sv, s) == s \in DOMAIN sv.servers /\ sv.servers[s]

Dead(sv, s) == s \in DOMAIN sv.servers /\ ~sv.servers[s]

\* Each change of the view takes the next number.
NewViewUncounted(sv, primary, backup, acked) ==  \* mutant: number forgotten
  [sv EXCEPT !.currentView.primary = primary, !.currentView.backup = backup,
             !.primaryAcked = acked]
NewView(sv, primary, backup, acked) ==
  [sv EXCEPT !.currentView = [num |-> @.num + 1, primary |-> primary,
                              backup |-> backup],
             !.primaryAcked = acked]

MarkDead(sv) ==
  [sv EXCEPT !.servers = [s \in DOMAIN @ |-> @[s] /\ s \notin late]]

HandleDeadPrimaryAny(sv) ==  \* mutant: a backup that is dead too is dropped
  LET v == sv.currentView
  IN  IF ~Dead(sv, v.primary) \/ ~sv.primaryAcked THEN sv
      ELSE IF Alive(sv, v.backup) THEN NewView(sv, v.backup, None, FALSE)
      ELSE NewView(sv, None, None, TRUE)
\* An acknowledged primary that is dead gives way to its backup, or to nobody
\* when it has none. It stays while its backup is dead too.
HandleDeadPrimary(sv) ==
  LET v == sv.currentView
  IN  IF ~Dead(sv, v.primary) \/ ~sv.primaryAcked THEN sv
      ELSE IF v.backup = None THEN NewView(sv, None, None, TRUE)
      ELSE IF Alive(sv, v.backup) THEN NewView(sv, v.backup, None, FALSE)
      ELSE sv

HandleDeadBackup(sv) ==
  LET v == sv.currentView
  IN  IF Dead(sv, v.backup) THEN NewView(sv, v.primary, None, sv.primaryAcked)
      ELSE sv

RemoveFromIdle(sv, s) == [sv EXCEPT !.idleServers = @ \ {s}]

\* Whom the loops over the servers may choose: who is alive and has no part.
FitAny(sv, other) ==  \* mutant: the other part is not looked at
  {s \in DOMAIN sv.servers : Alive(sv, s)}
FitIdle(sv, other) ==  \* mutant: only idle servers are looked at
  {s \in sv.idleServers : Alive(sv, s) /\ s # other}
Fit(sv, other) ==
  {s \in DOMAIN sv.servers : Alive(sv, s) /\ s # other}

\* The results of choosing a primary, in whatever order the map is ranged over.
AssignPrimary(sv) ==
  LET v == sv.currentView
      fit == Fit(sv, v.backup)
  IN  IF v.primary = None /\ sv.primaryAcked /\ fit # {}
      THEN {RemoveFromIdle(NewView(sv, s, v.backup, FALSE), s) : s \in fit}
      ELSE {sv}

AssignBackupUnacked(sv) ==  \* mutant: the new view is to be acknowledged first
  LET v == sv.currentView
      fit == Fit(sv, v.primary)
  IN  IF v.backup = None /\ v.primary # None /\ sv.primaryAcked /\ fit # {}
      THEN {RemoveFromIdle(NewView(sv, v.primary, s, FALSE), s) : s \in fit}
      ELSE {sv}
\* The same for a backup, which does not take the acknowledgement back.
AssignBackup(sv) ==
  LET v == sv.currentView
      fit == Fit(sv, v.primary)
  IN  IF v.backup = None /\ v.primary # None /\ sv.primaryAcked /\ fit # {}
      THEN {RemoveFromIdle(NewView(sv, v.primary, s, TRUE), s) : s \in fit}
      ELSE {sv}

Tick ==
  \E sv \in AssignPrimary(HandleDeadBackup(HandleDeadPrimary(MarkDead(service)))) :
    /\ service' \in AssignBackup(sv)
    /\ since' = IF currentView'.primary # currentView.primary
                THEN currentView'.num ELSE since
    /\ UNCHANGED <<late, lastAck>>

-----------------------------------------------------------------------------
(* Properties of safety.                                                   *)

\* The steps of a tick keep the parts apart: nobody is primary and backup at
\* once, and there is no backup without a primary to copy from.
PartsApart ==
  currentView.backup # None =>
    /\ currentView.primary # None
    /\ currentView.primary # currentView.backup

\* A server that takes over from another was its backup, which the other may
\* have copied its data to, unless there was no backup at all.
BackupSucceeds ==
  [][currentView'.primary \notin {None, currentView.primary} =>
       \/ currentView'.primary = currentView.backup
       \/ currentView.backup = None]_serviceVars

\* Two views of one number are one view, so that a server may compare numbers
\* to see whether anything changed, and numbers only grow.
NumbersNameViews ==
  [][/\ currentView'.num >= currentView.num
     /\ currentView' # currentView => currentView'.num # currentView.num]_serviceVars

\* primaryAcked is true only when the primary named, since it came into
\* office, the view that was current at the time: delayed pings that it sent
\* in an earlier office or as a backup do not count.
AckedInOffice ==
  service.primaryAcked /\ currentView.primary # None =>
    lastAck.srv = currentView.primary /\ lastAck.num >= since
=============================================================================
