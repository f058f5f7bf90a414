------------------------- MODULE ViewServiceProofs -------------------------
(***************************************************************************)
(* What pings and ticks do to the view service, for any set of servers and *)
(* whoever pings: the invariant of the service, and the relation between   *)
(* its views before and after a step. The steps of a tick are taken one by *)
(* one: each satisfies a relation between the state of the service before  *)
(* it and after it, and the relations compose.                             *)
(***************************************************************************)
EXTENDS ViewService, TLAPS

Apart(v) == v.backup # None => v.primary # None /\ v.primary # v.backup

\* What each part of a tick does to the state of the service: numbers grow
\* with every change, and an acknowledged primary was so before.
Advances(sv, next) ==
  /\ next \in ViewServer /\ Apart(next.currentView)
  /\ next.currentView.num >= sv.currentView.num
  /\ next.currentView # sv.currentView =>
       next.currentView.num # sv.currentView.num
  /\ next.primaryAcked /\ next.currentView.primary # None =>
       /\ sv.primaryAcked
       /\ sv.currentView.primary = next.currentView.primary

LEMMA AdvancesTransitive ==
  ASSUME NEW a \in ViewServer, NEW b, NEW c, Advances(a, b), Advances(b, c)
  PROVE  Advances(a, c)
<1>1. /\ a.currentView.num \in Nat /\ b.currentView.num \in Nat
      /\ c.currentView.num \in Nat
  BY DEF Advances, ViewServer, View
<1>2. QED
  BY <1>1 DEF Advances

\* A state of the service is its four fields.
LEMMA ServerFields ==
  ASSUME NEW sv \in ViewServer
  PROVE  /\ sv.currentView \in View
         /\ sv.servers \in [DOMAIN sv.servers -> BOOLEAN]
         /\ DOMAIN sv.servers \subseteq KVServer
         /\ sv.idleServers \subseteq KVServer
         /\ sv.primaryAcked \in BOOLEAN
  BY DEF ViewServer, ServerInfo

LEMMA NewViewFields ==
  ASSUME NEW sv \in ViewServer, NEW p \in Name, NEW b \in Name
  PROVE  \A acked \in BOOLEAN :
           /\ NewView(sv, p, b, acked) \in ViewServer
           /\ NewView(sv, p, b, acked).currentView =
                [num |-> sv.currentView.num + 1, primary |-> p, backup |-> b]
           /\ NewView(sv, p, b, acked).primaryAcked = acked
<1>1. [num |-> sv.currentView.num + 1, primary |-> p, backup |-> b] \in View
  BY DEF ViewServer, View
<1>2. TAKE acked \in BOOLEAN
<1>3. NewView(sv, p, b, acked) =
        [sv EXCEPT !.currentView = [num |-> sv.currentView.num + 1,
                                    primary |-> p, backup |-> b],
                   !.primaryAcked = acked]
  BY DEF NewView, ViewServer
<1>4. QED
  BY <1>1, <1>3 DEF ViewServer

\* The same for a view that nobody, or somebody, has acknowledged.
LEMMA NewViewUnacked ==
  ASSUME NEW sv \in ViewServer, NEW p \in Name, NEW b \in Name
  PROVE  /\ NewView(sv, p, b, FALSE) \in ViewServer
         /\ NewView(sv, p, b, FALSE).currentView =
              [num |-> sv.currentView.num + 1, primary |-> p, backup |-> b]
         /\ ~NewView(sv, p, b, FALSE).primaryAcked
<1>1. FALSE \in BOOLEAN
  OBVIOUS
<1>2. QED
  BY <1>1, NewViewFields, ZenonT(60)

LEMMA NewViewAcked ==
  ASSUME NEW sv \in ViewServer, NEW p \in Name, NEW b \in Name
  PROVE  /\ NewView(sv, p, b, TRUE) \in ViewServer
         /\ NewView(sv, p, b, TRUE).currentView =
              [num |-> sv.currentView.num + 1, primary |-> p, backup |-> b]
         /\ NewView(sv, p, b, TRUE).primaryAcked
<1>1. TRUE \in BOOLEAN
  OBVIOUS
<1>2. QED
  BY <1>1, NewViewFields, ZenonT(60)

LEMMA NewViewNobody ==
  ASSUME NEW sv \in ViewServer
  PROVE  /\ NewView(sv, None, None, TRUE) \in ViewServer
         /\ NewView(sv, None, None, TRUE).currentView =
              [num |-> sv.currentView.num + 1, primary |-> None, backup |-> None]
<1>1. None \in Name
  BY DEF Name
<1>2. QED
  BY <1>1, NewViewAcked

\* A new view is an advance when its parts are apart and what it is
\* acknowledged by was acknowledged before.
LEMMA NewViewAdvances ==
  ASSUME NEW sv \in ViewServer, NEW next \in ViewServer,
         NEW p \in Name, NEW b \in Name,
         next.currentView =
           [num |-> sv.currentView.num + 1, primary |-> p, backup |-> b],
         b # None => p # None /\ p # b,
         next.primaryAcked /\ p # None =>
           sv.primaryAcked /\ sv.currentView.primary = p
  PROVE  Advances(sv, next) /\ next.currentView.primary = p
<1>1. /\ next.currentView.num = sv.currentView.num + 1
      /\ next.currentView.primary = p /\ next.currentView.backup = b
      /\ sv.currentView.num \in Nat
  BY DEF ViewServer, View
<1>2. /\ next.currentView.num >= sv.currentView.num
      /\ next.currentView.num # sv.currentView.num
  BY <1>1
<1>3. QED
  BY <1>1, <1>2, ZenonT(60) DEF Advances, Apart

LEMMA RemoveFromIdleKeeps ==
  ASSUME NEW sv \in ViewServer, NEW s
  PROVE  LET next == RemoveFromIdle(sv, s)
         IN  /\ next \in ViewServer
             /\ next.currentView = sv.currentView
             /\ next.primaryAcked = sv.primaryAcked
  BY DEF RemoveFromIdle, ViewServer

LEMMA MarkDeadAdvances ==
  ASSUME NEW sv \in ViewServer, Apart(sv.currentView)
  PROVE  /\ Advances(sv, MarkDead(sv))
         /\ MarkDead(sv).currentView = sv.currentView
<1>1. PICK S \in SUBSET KVServer : sv.servers \in [S -> BOOLEAN]
  BY DEF ViewServer, ServerInfo
<1> DEFINE alive == [s \in DOMAIN sv.servers |-> sv.servers[s] /\ s \notin late]
<1>2. alive \in ServerInfo
  <2>1. alive \in [S -> BOOLEAN]
    BY <1>1
  <2> HIDE DEF alive
  <2>2. QED
    BY <2>1 DEF ServerInfo
<1>3. MarkDead(sv) = [sv EXCEPT !.servers = alive]
  BY DEF MarkDead, ViewServer
<1> HIDE DEF alive
<1>4. MarkDead(sv) \in ViewServer
  BY <1>2, <1>3 DEF ViewServer
<1>5. /\ MarkDead(sv).currentView = sv.currentView
      /\ MarkDead(sv).primaryAcked = sv.primaryAcked
  BY <1>3 DEF ViewServer
<1>6. QED
  BY <1>4, <1>5, ServerFields DEF Advances, View

\* The dead primary: whoever comes after it was its backup.
LEMMA HandleDeadPrimaryAdvances ==
  ASSUME NEW sv \in ViewServer, Apart(sv.currentView)
  PROVE  LET v == sv.currentView
             next == HandleDeadPrimary(sv).currentView
         IN  /\ Advances(sv, HandleDeadPrimary(sv))
             /\ next.primary \in {v.primary, v.backup}
             /\ next.primary # v.primary /\ v.backup # None =>
                  next.primary = v.backup
<1> DEFINE v == sv.currentView
<1>1. /\ v \in View /\ sv.primaryAcked \in BOOLEAN /\ None \in Name
      /\ v.num \in Nat /\ v.primary \in Name /\ v.backup \in Name
  BY ServerFields DEF View, Name
<1>2. CASE HandleDeadPrimary(sv) = sv
  BY <1>1, <1>2 DEF Advances
<1>3. CASE /\ HandleDeadPrimary(sv) = NewView(sv, None, None, TRUE)
           /\ v.backup = None
  <2>1. /\ HandleDeadPrimary(sv) \in ViewServer
        /\ HandleDeadPrimary(sv).currentView =
             [num |-> v.num + 1, primary |-> None, backup |-> None]
    BY <1>3, NewViewNobody
  <2>2. /\ Advances(sv, HandleDeadPrimary(sv))
        /\ HandleDeadPrimary(sv).currentView.primary = None
    <3>1. None # None => None # None /\ None # None
      OBVIOUS
    <3>2. HandleDeadPrimary(sv).primaryAcked /\ None # None =>
            sv.primaryAcked /\ sv.currentView.primary = None
      OBVIOUS
    <3>3. QED
      BY <1>1, <2>1, <3>1, <3>2, NewViewAdvances, ZenonT(60)
  <2>3. QED
    BY <1>3, <2>2, ZenonT(60)
<1>4. CASE HandleDeadPrimary(sv) = NewView(sv, v.backup, None, FALSE)
  <2>1. /\ HandleDeadPrimary(sv) \in ViewServer
        /\ HandleDeadPrimary(sv).currentView =
             [num |-> v.num + 1, primary |-> v.backup, backup |-> None]
        /\ ~HandleDeadPrimary(sv).primaryAcked
    <3>1. /\ NewView(sv, v.backup, None, FALSE) \in ViewServer
          /\ NewView(sv, v.backup, None, FALSE).currentView =
               [num |-> v.num + 1, primary |-> v.backup, backup |-> None]
          /\ ~NewView(sv, v.backup, None, FALSE).primaryAcked
      BY <1>1, NewViewUnacked, ZenonT(60)
    <3>2. QED
      BY <1>4, <3>1, ZenonT(60)
  <2>2. QED
    BY <1>1, <2>1 DEF Advances, Apart
<1>5. QED
  BY <1>2, <1>3, <1>4 DEF HandleDeadPrimary

LEMMA HandleDeadBackupAdvances ==
  ASSUME NEW sv \in ViewServer, Apart(sv.currentView)
  PROVE  /\ Advances(sv, HandleDeadBackup(sv))
         /\ HandleDeadBackup(sv).currentView.primary = sv.currentView.primary
<1> DEFINE v == sv.currentView
<1>1. /\ v \in View /\ sv.primaryAcked \in BOOLEAN /\ None \in Name
      /\ v.num \in Nat /\ v.primary \in Name /\ v.backup \in Name
  BY ServerFields DEF View, Name
<1>2. CASE HandleDeadBackup(sv) = sv
  BY <1>1, <1>2 DEF Advances
<1>3. CASE HandleDeadBackup(sv)
             = NewView(sv, v.primary, None, sv.primaryAcked)
  <2>1. /\ HandleDeadBackup(sv) \in ViewServer
        /\ HandleDeadBackup(sv).currentView =
             [num |-> v.num + 1, primary |-> v.primary, backup |-> None]
        /\ HandleDeadBackup(sv).primaryAcked = sv.primaryAcked
    BY <1>1, <1>3, NewViewFields
  <2>2. QED
    BY <1>1, <2>1 DEF Advances, Apart
<1>4. QED
  BY <1>2, <1>3 DEF HandleDeadBackup

LEMMA AssignPrimaryAdvances ==
  ASSUME NEW sv \in ViewServer, Apart(sv.currentView),
         NEW next \in AssignPrimary(sv)
  PROVE  /\ Advances(sv, next)
         /\ sv.currentView.primary # None =>
              next.currentView.primary = sv.currentView.primary
<1> DEFINE v == sv.currentView
<1>1. /\ v \in View /\ sv.primaryAcked \in BOOLEAN
      /\ v.num \in Nat /\ v.primary \in Name /\ v.backup \in Name
  BY ServerFields DEF View, Name
<1>2. CASE next = sv
  BY <1>1, <1>2 DEF Advances
<1>3. ASSUME NEW s \in Fit(sv, v.backup), v.primary = None,
             next = RemoveFromIdle(NewView(sv, s, v.backup, FALSE), s)
      PROVE  Advances(sv, next)
  <2>1. s \in Name /\ s # None /\ s # v.backup
    BY <1>3, ServerFields, ViewAssumption DEF Fit, Name
  <2> DEFINE assigned == NewView(sv, s, v.backup, FALSE)
  <2>2. /\ assigned \in ViewServer /\ ~assigned.primaryAcked
        /\ assigned.currentView = [num |-> v.num + 1, primary |-> s,
                                   backup |-> v.backup]
    BY <1>1, <2>1, NewViewUnacked
  <2>3. /\ next \in ViewServer /\ ~next.primaryAcked
        /\ next.currentView = [num |-> v.num + 1, primary |-> s,
                               backup |-> v.backup]
    <3> HIDE DEF assigned
    <3>1. next = RemoveFromIdle(assigned, s)
      BY <1>3 DEF assigned
    <3>2. QED
      BY <2>2, <3>1, RemoveFromIdleKeeps
  <2>4. QED
    BY <1>1, <2>1, <2>3 DEF Advances, Apart
<1>4. QED
  BY <1>2, <1>3 DEF AssignPrimary

LEMMA AssignBackupAdvances ==
  ASSUME NEW sv \in ViewServer, Apart(sv.currentView),
         NEW next \in AssignBackup(sv)
  PROVE  /\ Advances(sv, next)
         /\ next.currentView.primary = sv.currentView.primary
<1> DEFINE v == sv.currentView
<1>1. /\ v \in View /\ sv.primaryAcked \in BOOLEAN
      /\ v.num \in Nat /\ v.primary \in Name /\ v.backup \in Name
  BY ServerFields DEF View, Name
<1>2. CASE next = sv
  BY <1>1, <1>2 DEF Advances
<1>3. ASSUME NEW s \in Fit(sv, v.primary), v.primary # None, sv.primaryAcked,
             next = RemoveFromIdle(NewView(sv, v.primary, s, TRUE), s)
      PROVE  Advances(sv, next) /\ next.currentView.primary = v.primary
  <2>1. s \in Name /\ s # v.primary
    BY <1>3, ServerFields DEF Fit, Name
  <2> DEFINE assigned == NewView(sv, v.primary, s, TRUE)
  <2>2. /\ assigned \in ViewServer
        /\ assigned.currentView = [num |-> v.num + 1, primary |-> v.primary,
                                   backup |-> s]
    <3>1. v.primary \in Name /\ s \in Name
      BY <1>1, <2>1
    <3>2. QED
      BY <3>1, NewViewAcked, ZenonT(60)
  <2>3. /\ next \in ViewServer
        /\ next.currentView = [num |-> v.num + 1, primary |-> v.primary,
                               backup |-> s]
    <3> HIDE DEF assigned
    <3>1. next = RemoveFromIdle(assigned, s)
      BY <1>3 DEF assigned
    <3>2. QED
      BY <2>2, <3>1, RemoveFromIdleKeeps
  <2>4. QED
    <3>1. s # None => v.primary # None /\ v.primary # s
      BY <1>3, <2>1
    <3>2. next.primaryAcked /\ v.primary # None =>
            sv.primaryAcked /\ sv.currentView.primary = v.primary
      BY <1>3, ZenonT(60)
    <3>3. QED
      BY <1>1, <2>1, <2>3, <3>1, <3>2, NewViewAdvances
<1>4. QED
  BY <1>2, <1>3 DEF AssignBackup

-----------------------------------------------------------------------------
(* The actions.                                                            *)

\* Who succeeds a primary in a step.
Succeeds(v, w) ==
  w.primary \notin {None, v.primary} => w.primary = v.backup \/ v.backup = None

LEMMA TickAdvances ==
  ASSUME service \in ViewServer, Apart(currentView), Tick
  PROVE  Advances(service, service') /\ Succeeds(currentView, currentView')
<1> DEFINE marked == MarkDead(service)
           primaryDone == HandleDeadPrimary(marked)
           backupDone == HandleDeadBackup(primaryDone)
<1>1. /\ Advances(service, marked) /\ marked.currentView = currentView
  BY MarkDeadAdvances DEF currentView
<1>2. marked \in ViewServer /\ Apart(marked.currentView)
  BY <1>1 DEF Advances
<1>3. /\ Advances(marked, primaryDone)
      /\ primaryDone.currentView.primary \in {currentView.primary,
                                               currentView.backup}
  BY <1>1, <1>2, HandleDeadPrimaryAdvances
<1>4. primaryDone \in ViewServer /\ Apart(primaryDone.currentView)
  BY <1>3 DEF Advances
<1>5. /\ Advances(primaryDone, backupDone)
      /\ backupDone.currentView.primary = primaryDone.currentView.primary
  BY <1>4, HandleDeadBackupAdvances
<1>6. backupDone \in ViewServer /\ Apart(backupDone.currentView)
  BY <1>5 DEF Advances
<1>7. PICK sv \in AssignPrimary(backupDone) : service' \in AssignBackup(sv)
  BY DEF Tick
<1>8. /\ Advances(backupDone, sv)
      /\ backupDone.currentView.primary # None =>
           sv.currentView.primary = backupDone.currentView.primary
  BY <1>6, AssignPrimaryAdvances
<1>9. sv \in ViewServer /\ Apart(sv.currentView)
  BY <1>8 DEF Advances
<1>10. /\ Advances(sv, service')
       /\ currentView'.primary = sv.currentView.primary
  BY <1>7, <1>9, AssignBackupAdvances DEF currentView
<1>11. Advances(service, service')
  <2> HIDE DEF marked, primaryDone, backupDone
  <2>1. Advances(service, primaryDone)
    BY <1>1, <1>3, AdvancesTransitive
  <2>2. Advances(service, backupDone)
    BY <2>1, <1>5, AdvancesTransitive
  <2>3. Advances(service, sv)
    BY <2>2, <1>8, AdvancesTransitive
  <2>4. QED
    BY <2>3, <1>10, AdvancesTransitive
<1>12. Succeeds(currentView, currentView')
  <2> HIDE DEF marked, primaryDone, backupDone
  <2>1. CASE primaryDone.currentView.primary = None
    <3>1. currentView.primary = None \/ currentView.backup = None
      BY <1>3, <2>1
    <3>2. currentView.backup = None
      BY <3>1 DEF Apart
    <3>3. QED
      BY <3>2 DEF Succeeds
  <2>2. CASE primaryDone.currentView.primary # None
    BY <1>3, <1>5, <1>8, <1>10, <2>2 DEF Succeeds
  <2>3. QED
    BY <2>1, <2>2
<1>13. QED
  BY <1>11, <1>12

LEMMA PingKeepsView ==
  ASSUME ServiceTypeOK, NEW s \in KVServer, NEW num, Ping(s, num)
  PROVE  /\ service' \in ViewServer
         /\ currentView' = currentView
         /\ service'.primaryAcked <=>
              service.primaryAcked \/ Acknowledges(s, num)
<1>1. service \in ViewServer
  BY DEF ServiceTypeOK
<1> DEFINE servers == [t \in Known \cup {s} |-> t = s \/ service.servers[t]]
           idle == service.idleServers \cup
                     ({s} \ (Known \cup {currentView.primary,
                                        currentView.backup}))
           acked == service.primaryAcked \/ Acknowledges(s, num)
<1>2. PICK S \in SUBSET KVServer : service.servers \in [S -> BOOLEAN]
  BY <1>1 DEF ViewServer, ServerInfo
<1>3. Known = S
  BY <1>2 DEF Known
<1>4. servers \in [S \cup {s} -> BOOLEAN]
  BY <1>2, <1>3
<1>5. S \cup {s} \in SUBSET KVServer
  OBVIOUS
<1>6. servers \in ServerInfo
  BY <1>4, <1>5, ZenonT(60) DEF ServerInfo
<1>7. idle \subseteq KVServer
  BY <1>1, ServerFields
<1>8. acked \in BOOLEAN
  BY <1>1, ServerFields, ZenonT(60) DEF Acknowledges
<1>9. service' = [service EXCEPT !.servers = servers, !.idleServers = idle,
                                 !.primaryAcked = acked]
  BY <1>1 DEF Ping, ViewServer, Known
<1>10. /\ service' \in ViewServer /\ currentView' = currentView
       /\ service'.primaryAcked = acked
  <2> HIDE DEF servers, idle, acked
  <2>1. QED
    BY <1>1, <1>6, <1>7, <1>8, <1>9 DEF ViewServer, currentView
<1>11. QED
  BY <1>10, ZenonT(60)

-----------------------------------------------------------------------------
(* The inductive invariant. AckedInOffice is preserved by a ping because    *)
(* the current view is not older than the office of its primary.           *)

ServiceInv ==
  /\ ServiceTypeOK
  /\ PartsApart
  /\ AckedInOffice
  /\ since <= currentView.num

\* What every step on the service keeps to.
ServiceStep ==
  /\ Succeeds(currentView, currentView')
  /\ currentView'.num >= currentView.num
  /\ currentView' # currentView => currentView'.num # currentView.num

LEMMA ViewFields ==
  ASSUME ServiceTypeOK
  PROVE  /\ service \in ViewServer /\ currentView \in View
         /\ currentView.num \in Nat /\ currentView.primary \in Name
         /\ currentView.backup \in Name
         /\ service.primaryAcked \in BOOLEAN
         /\ lastAck.srv \in Name /\ lastAck.num \in Nat /\ since \in Nat
  BY ServerFields DEF ServiceTypeOK, currentView, View

LEMMA InitSafe == ASSUME ServiceInit PROVE ServiceInv
<1>1. /\ service.currentView = NoView /\ service.servers = [s \in {} |-> TRUE]
      /\ service.idleServers = {} /\ service.primaryAcked = TRUE
  BY DEF ServiceInit
<1>2. [s \in {} |-> TRUE] \in [{} -> BOOLEAN]
  OBVIOUS
<1>3. service.servers \in ServerInfo
  BY <1>1, <1>2 DEF ServerInfo
<1>4. NoView \in View
  BY DEF NoView, View, Name
<1>5. service \in ViewServer
  BY <1>1, <1>3, <1>4 DEF ServiceInit, ViewServer
<1>6. QED
  BY <1>1, <1>4, <1>5 DEF ServiceInit, ServiceInv, ServiceTypeOK, PartsApart,
     AckedInOffice, currentView, NoView, Name

LEMMA UnchangedSafe ==
  ASSUME ServiceInv, UNCHANGED serviceVars
  PROVE  ServiceInv' /\ ServiceStep
<1>1. currentView' = currentView /\ currentView.num \in Nat
  BY ViewFields DEF ServiceInv, serviceVars, currentView
<1>2. ServiceInv'
  BY DEF ServiceInv, ServiceTypeOK, PartsApart, AckedInOffice, currentView,
     serviceVars
<1>3. QED
  BY <1>1, <1>2 DEF ServiceStep, Succeeds

LEMMA LapseSafe ==
  ASSUME ServiceInv, NEW s \in KVServer, Lapse(s)
  PROVE  ServiceInv' /\ ServiceStep
<1>1. currentView' = currentView /\ currentView.num \in Nat
  BY ViewFields DEF ServiceInv, Lapse, currentView
<1>2. ServiceInv'
  BY <1>1 DEF ServiceInv, ServiceTypeOK, PartsApart, AckedInOffice, Lapse
<1>3. QED
  BY <1>1, <1>2 DEF ServiceStep, Succeeds

LEMMA PingSafe ==
  ASSUME ServiceInv, NEW s \in KVServer, NEW num \in Nat, Ping(s, num)
  PROVE  ServiceInv' /\ ServiceStep
<1>1. /\ service' \in ViewServer /\ currentView' = currentView
      /\ service'.primaryAcked <=>
           service.primaryAcked \/ Acknowledges(s, num)
  BY PingKeepsView DEF ServiceInv
<1>2. currentView.num \in Nat
  BY ViewFields DEF ServiceInv
<1>3. ServiceTypeOK'
  BY <1>1 DEF ServiceInv, ServiceTypeOK, Ping, Name
<1>4. AckedInOffice'
  <2>1. CASE Acknowledges(s, num)
    BY <1>1, <1>2, <2>1 DEF ServiceInv, AckedInOffice, Ping, Acknowledges
  <2>2. CASE ~Acknowledges(s, num)
    <3>1. /\ service'.primaryAcked <=> service.primaryAcked
          /\ UNCHANGED <<lastAck, since>>
      BY <1>1, <2>2 DEF Ping
    <3>2. QED
      BY <1>1, <3>1 DEF ServiceInv, AckedInOffice
  <2>3. QED
    BY <2>1, <2>2
<1>5. PartsApart' /\ (since <= currentView.num)'
  BY <1>1 DEF ServiceInv, PartsApart, Ping
<1>6. QED
  BY <1>1, <1>2, <1>3, <1>4, <1>5 DEF ServiceInv, ServiceStep, Succeeds

LEMMA TickSafe ==
  ASSUME ServiceInv, Tick
  PROVE  ServiceInv' /\ ServiceStep
<1>1. /\ Advances(service, service')
      /\ Succeeds(currentView, currentView')
  BY TickAdvances, ViewFields DEF ServiceInv, PartsApart, Apart
<1>2. /\ service' \in ViewServer /\ currentView' \in View
      /\ currentView.num \in Nat /\ currentView'.num \in Nat
      /\ since \in Nat
  BY <1>1, ViewFields DEF Advances, ServiceInv, ViewServer, View, currentView
<1>3. /\ since' = IF currentView'.primary # currentView.primary
                  THEN currentView'.num ELSE since
      /\ UNCHANGED <<late, lastAck>>
  BY DEF Tick
<1>4. ServiceTypeOK'
  BY <1>2, <1>3 DEF ServiceInv, ServiceTypeOK
<1>5. /\ currentView'.num >= currentView.num
      /\ currentView' # currentView => currentView'.num # currentView.num
  BY <1>1 DEF Advances, currentView
<1>6. AckedInOffice'
  <2>1. service'.primaryAcked /\ currentView'.primary # None =>
          service.primaryAcked /\ currentView.primary = currentView'.primary
    BY <1>1, ZenonT(60) DEF Advances, currentView
  <2>2. QED
    BY <1>3, <2>1 DEF ServiceInv, AckedInOffice
<1>7. PartsApart'
  BY <1>1 DEF Advances, Apart, PartsApart, currentView
<1>8. (since <= currentView.num)'
  BY <1>2, <1>3, <1>5 DEF ServiceInv
<1>9. QED
  BY <1>1, <1>4, <1>5, <1>6, <1>7, <1>8 DEF ServiceInv, ServiceStep
=============================================================================
