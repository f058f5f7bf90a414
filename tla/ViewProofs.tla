----------------------------- MODULE ViewProofs -----------------------------
(***************************************************************************)
(* The safety of the view service, for any set of servers and any pattern  *)
(* of pings, delays and crashes.                                           *)
(***************************************************************************)
EXTENDS ViewPings, ViewServiceProofs

-----------------------------------------------------------------------------
(* The theorems.                                                           *)

ViewInv == TypeOK /\ ServiceInv

LEMMA ViewInvInit == ASSUME Init PROVE ViewInv
<1>1. ServiceInv
  BY InitSafe DEF Init
<1>2. {crashes, delays} \subseteq Nat /\ told \in [KVServer -> Nat]
  BY DEF Init
<1>3. QED
  BY <1>1, <1>2 DEF Init, ViewInv, TypeOK, ServiceInv

LEMMA ViewInvNext ==
  ASSUME ViewInv, [Next]_vars
  PROVE  ViewInv' /\ ServiceStep
<1> USE DEF ViewInv
<1> DEFINE PingsTypeOK ==
             /\ up \subseteq KVServer /\ reading \subseteq KVServer
             /\ told \in [KVServer -> Nat]
             /\ calls \subseteq [srv : KVServer, num : Nat, expired : BOOLEAN]
             /\ crashes \in Nat /\ delays \in Nat
<1>1. ServiceInv /\ PingsTypeOK
  BY DEF TypeOK
<1>2. SUFFICES PingsTypeOK' /\ ServiceInv' /\ ServiceStep
  BY DEF TypeOK, ServiceInv
<1>3. ASSUME NEW s \in KVServer, SendPing(s)
      PROVE  PingsTypeOK' /\ ServiceInv' /\ ServiceStep
  <2>1. [srv |-> s, num |-> told[s], expired |-> FALSE]
          \in [srv : KVServer, num : Nat, expired : BOOLEAN]
    BY <1>1
  <2>2. QED
    BY <1>1, <1>3, <2>1, UnchangedSafe DEF SendPing, bounds
<1>4. ASSUME NEW s \in KVServer, ReadReply(s)
      PROVE  PingsTypeOK' /\ ServiceInv' /\ ServiceStep
  <2>1. currentView.num \in Nat
    BY <1>1, ViewFields DEF ServiceInv
  <2>2. PingsTypeOK'
    BY <1>1, <1>4, <2>1 DEF ReadReply, bounds
  <2>3. QED
    BY <1>1, <1>4, <2>2, UnchangedSafe DEF ReadReply
<1>5. ASSUME NEW s \in KVServer, Abandon(s)
      PROVE  /\ calls' \subseteq [srv : KVServer, num : Nat, expired : BOOLEAN]
             /\ reading' \subseteq KVServer
  <2>1. ASSUME NEW c \in calls
        PROVE  [c EXCEPT !.expired = @ \/ c.srv = s]
                 \in [srv : KVServer, num : Nat, expired : BOOLEAN]
    <3>1. PICK r \in KVServer, n \in Nat, e \in BOOLEAN :
            c = [srv |-> r, num |-> n, expired |-> e]
      BY <1>1
    <3>2. (e \/ r = s) \in BOOLEAN
      OBVIOUS
    <3>3. [c EXCEPT !.expired = @ \/ c.srv = s]
            = [srv |-> r, num |-> n, expired |-> e \/ r = s]
      BY <3>1
    <3>4. QED
      BY <3>2, <3>3
  <2>2. QED
    BY <1>1, <1>5, <2>1 DEF Abandon
<1>6. ASSUME NEW s \in KVServer, PingTimeout(s)
      PROVE  PingsTypeOK' /\ ServiceInv' /\ ServiceStep
  BY <1>1, <1>5, <1>6, UnchangedSafe DEF PingTimeout
<1>7. ASSUME NEW s \in KVServer, Crash(s)
      PROVE  PingsTypeOK' /\ ServiceInv' /\ ServiceStep
  BY <1>1, <1>5, <1>7, UnchangedSafe DEF Crash
<1>8. ASSUME NEW s \in KVServer, Start(s)
      PROVE  PingsTypeOK' /\ ServiceInv' /\ ServiceStep
  BY <1>1, <1>8, UnchangedSafe DEF Start, bounds
<1>9. ASSUME NEW s \in KVServer, PingsLapse(s)
      PROVE  PingsTypeOK' /\ ServiceInv' /\ ServiceStep
  BY <1>1, <1>9, LapseSafe DEF PingsLapse
<1>10. ASSUME NEW c \in calls, HandlePing(c)
       PROVE  PingsTypeOK' /\ ServiceInv' /\ ServiceStep
  <2>1. c.srv \in KVServer /\ c.num \in Nat
    BY <1>1
  <2>2. ServiceInv' /\ ServiceStep
    BY <1>1, <1>10, <2>1, PingSafe DEF HandlePing
  <2>3. QED
    BY <1>1, <1>10, <2>1, <2>2 DEF HandlePing, bounds
<1>11. CASE TickerFires
  BY <1>1, <1>11, TickSafe DEF TickerFires, bounds
<1>12. CASE UNCHANGED vars
  BY <1>1, <1>12, UnchangedSafe DEF vars, bounds
<1>13. QED
  BY <1>3, <1>4, <1>6, <1>7, <1>8, <1>9, <1>10, <1>11, <1>12 DEF Next

LEMMA ViewInvariant == Spec => []ViewInv
<1>1. Init => ViewInv
  BY ViewInvInit
<1>2. ViewInv /\ [Next]_vars => ViewInv'
  BY ViewInvNext
<1>3. QED
  BY <1>1, <1>2, PTL DEF Spec

\* The state of the view service and of its servers stays what it is declared
\* to be.
THEOREM TypeCorrect == Spec => []TypeOK
<1>1. ViewInv => TypeOK
  BY DEF ViewInv
<1>2. QED
  BY <1>1, ViewInvariant, PTL

\* Whatever pings are sent, lost, late or repeated and whoever crashes, no
\* server is primary and backup at once, and no view has a backup alone.
THEOREM PartsAreApart == Spec => []PartsApart
<1>1. ViewInv => PartsApart
  BY DEF ViewInv, ServiceInv
<1>2. QED
  BY <1>1, ViewInvariant, PTL

\* primaryAcked never comes from a ping of another office: checking the
\* number of the current view alone keeps delayed pings out.
THEOREM AcknowledgedInOffice == Spec => []AckedInOffice
<1>1. ViewInv => AckedInOffice
  BY DEF ViewInv, ServiceInv
<1>2. QED
  BY <1>1, ViewInvariant, PTL

\* No step gives two views one number, though a tick may pass through several
\* views.
THEOREM NumbersAreUnique == Spec => NumbersNameViews
<1>1. ViewInv /\ [Next]_vars =>
        [/\ currentView'.num >= currentView.num
         /\ currentView' # currentView =>
              currentView'.num # currentView.num]_serviceVars
  BY ViewInvNext DEF ServiceStep
<1>2. QED
  BY <1>1, ViewInvariant, PTL DEF Spec, NumbersNameViews

\* A tick never passes over a backup, even when primary and backup are found
\* dead at once.
THEOREM BackupTakesOver == Spec => BackupSucceeds
<1>1. ViewInv /\ [Next]_vars =>
        [currentView'.primary \notin {None, currentView.primary} =>
           \/ currentView'.primary = currentView.backup
           \/ currentView.backup = None]_serviceVars
  BY ViewInvNext DEF ServiceStep, Succeeds
<1>2. QED
  BY <1>1, ViewInvariant, PTL DEF Spec, BackupSucceeds
=============================================================================
