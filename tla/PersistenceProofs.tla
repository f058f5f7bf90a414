------------------------- MODULE PersistenceProofs -------------------------
(***************************************************************************)
(* Lemmas about ballots and about the operators on the persistent state:   *)
(* what they keep and what they return. MultiPaxosProofs cites them.       *)
(***************************************************************************)
EXTENDS Persistence, SequenceTheorems, WellFoundedInduction, TLAPS

\* The comparison of ballots in two words, for the provers.
LEMMA BallotOrder ==
  ASSUME NEW a \in Ballot, NEW b \in Ballot
  PROVE  /\ GreaterThan(a, b) <=> \/ a.term > b.term
                                  \/ a.term = b.term /\ a.id > b.id
         /\ AtLeast(a, b) <=> \/ a.term > b.term
                              \/ a.term = b.term /\ a.id >= b.id
  BY NAssumption DEF Ballot, Server, GreaterThan, AtLeast, Compare

\* Being at least as great is a preorder, and being greater is its strict part.
LEMMA BallotTransitive ==
  ASSUME NEW a \in Ballot, NEW b \in Ballot, NEW c \in Ballot
  PROVE  /\ AtLeast(a, a)
         /\ AtLeast(a, b) /\ AtLeast(b, c) => AtLeast(a, c)
         /\ GreaterThan(a, b) => AtLeast(a, b)
         /\ GreaterThan(a, b) /\ AtLeast(b, c) => GreaterThan(a, c)
         /\ AtLeast(a, b) /\ GreaterThan(b, c) => GreaterThan(a, c)
  BY BallotOrder, NAssumption DEF Ballot, Server

\* A ballot of the next term is greater, whatever the server ids.
LEMMA NextTermGreater ==
  ASSUME NEW b \in Ballot, NEW c \in Ballot, c.term = b.term + 1
  PROVE  GreaterThan(c, b)
  BY BallotOrder, NAssumption DEF Ballot, Server

\* A bounded set of naturals that is not empty has a greatest element.
LEMMA MaxOfBounded ==
  ASSUME NEW S, S \subseteq Nat, S # {}, NEW b \in Nat, \A x \in S : x <= b
  PROVE  Max(S) \in S /\ \A x \in S : x <= Max(S)
<1> DEFINE T == {b - x : x \in S}
<1>1. T \subseteq Nat /\ T # {}
  OBVIOUS
<1> DEFINE R == {ss \in Nat \X Nat : ss[1] < ss[2]}
<1>2. IsWellFoundedOn(R, Nat)
  BY NatLessThanWellFounded DEF OpToRel
<1>3. \E t \in T : \A u \in T : <<u, t>> \notin R
  <2> HIDE DEF T, R
  <2> QED  BY <1>1, <1>2, WFMin
<1>4. PICK t \in T : \A u \in T : ~(u < t)
  BY <1>1, <1>3
<1>5. PICK x \in S : t = b - x
  BY <1>4
<1>6. \A y \in S : x >= y
  BY <1>4, <1>5
<1>7. QED
  BY <1>6 DEF Max

-----------------------------------------------------------------------------
(* The operators on the log.                                               *)

LEMMA EmptyEntryType == EmptyEntry \in LogEntry
  BY NAssumption DEF EmptyEntry, LogEntry, ZeroBallot, NewBallotNumber, Ballot,
     Server, Command

LEMMA FreshStateType ==
  ASSUME NEW s \in Server
  PROVE  FreshState(s) \in PersistentState
  BY EmptySeq DEF FreshState, PersistentState, NewBallotNumber, Ballot

LEMMA SetNpromisedType ==
  ASSUME NEW p \in PersistentState, NEW b \in Ballot
  PROVE  /\ SetNpromised(p, b) \in PersistentState
         /\ SetNpromised(p, b).npromised = b
         /\ SetNpromised(p, b).log = p.log
         /\ SetNpromised(p, b).highest = p.highest
  BY DEF SetNpromised, PersistentState

LEMMA GetLogEntryType ==
  ASSUME NEW p \in PersistentState, NEW i \in Nat
  PROVE  GetLogEntry(p, i) \in LogEntry
<1>1. CASE i < Len(p.log)
  BY <1>1, LenProperties, ElementOfSeq DEF GetLogEntry, PersistentState
<1>2. CASE ~(i < Len(p.log))
  BY <1>2, EmptyEntryType DEF GetLogEntry
<1>3. QED
  BY <1>1, <1>2

\* Replacing the log leaves the rest of the state alone.
LEMMA WithLog ==
  ASSUME NEW p \in PersistentState, NEW f \in Seq(LogEntry)
  PROVE  LET q == [p EXCEPT !.log = f]
         IN  /\ q \in PersistentState /\ q.log = f
             /\ q.npromised = p.npromised /\ q.highest = p.highest
  BY DEF PersistentState

\* Appending keeps every entry and everything else.
LEMMA AppendLogKeeps ==
  ASSUME NEW p \in PersistentState, NEW e \in LogEntry
  PROVE  LET q == AppendLog(p, e)
         IN  /\ q \in PersistentState
             /\ q.npromised = p.npromised /\ q.highest = p.highest
             /\ Len(q.log) = Len(p.log) + 1
             /\ q.log[Len(p.log) + 1] = e
             /\ \A i \in 1 .. Len(p.log) : q.log[i] = p.log[i]
<1>1. p.log \in Seq(LogEntry)
  BY DEF PersistentState
<1>2. /\ Append(p.log, e) \in Seq(LogEntry)
      /\ Len(Append(p.log, e)) = Len(p.log) + 1
      /\ Append(p.log, e)[Len(p.log) + 1] = e
      /\ \A i \in 1 .. Len(p.log) : Append(p.log, e)[i] = p.log[i]
  BY <1>1, AppendProperties
<1>3. QED
  BY <1>2, WithLog DEF AppendLog

\* A function on 1 .. n with entries as values is a log.
LEMMA LogByDefinition ==
  ASSUME NEW n \in Nat, NEW f \in [1 .. n -> LogEntry]
  PROVE  f \in Seq(LogEntry) /\ Len(f) = n
  BY SeqDef

\* UpdateLog writes the entry at the index, keeps every other one, and pads.
LEMMA UpdateLogSlots ==
  ASSUME NEW p \in PersistentState, NEW index \in Nat, NEW e \in LogEntry
  PROVE  LET q == UpdateLog(p, index, e)
         IN  /\ q \in PersistentState
             /\ q.npromised = p.npromised /\ q.highest = p.highest
             /\ Len(q.log) >= Len(p.log) /\ Len(q.log) > index
             /\ \A i \in 1 .. Len(q.log) :
                  q.log[i] = IF i = index + 1 THEN e ELSE GetLogEntry(p, i - 1)
<1> DEFINE n == Max({Len(p.log), index + 1})
           f == [i \in 1 .. n |->
                   IF i = index + 1 THEN e ELSE GetLogEntry(p, i - 1)]
<1>1. Len(p.log) \in Nat
  BY LenProperties DEF PersistentState
<1>2. n \in Nat /\ n >= Len(p.log) /\ n >= index + 1
  <2>1. n \in {Len(p.log), index + 1}
        /\ \A x \in {Len(p.log), index + 1} : x <= n
    <3>1. Len(p.log) + index + 1 \in Nat
      BY <1>1
    <3>2. /\ {Len(p.log), index + 1} \subseteq Nat
          /\ \A x \in {Len(p.log), index + 1} : x <= Len(p.log) + index + 1
      BY <1>1
    <3> HIDE DEF n
    <3>3. QED
      BY <3>1, <3>2, MaxOfBounded DEF n
  <2>2. QED
    BY <1>1, <2>1
<1> HIDE DEF n
<1>3. f \in [1 .. n -> LogEntry]
  BY <1>2, GetLogEntryType
<1>4. f \in Seq(LogEntry) /\ Len(f) = n
  BY <1>2, <1>3, LogByDefinition
<1>5. UpdateLog(p, index, e) = [p EXCEPT !.log = f]
  BY DEF UpdateLog, n
<1>6. \A i \in 1 .. n :
        f[i] = IF i = index + 1 THEN e ELSE GetLogEntry(p, i - 1)
  OBVIOUS
<1> HIDE DEF f
<1>7. QED
  BY <1>1, <1>2, <1>4, <1>5, <1>6, WithLog

LEMMA UpdateLogKeeps ==
  ASSUME NEW p \in PersistentState, NEW index \in Nat, NEW e \in LogEntry
  PROVE  LET q == UpdateLog(p, index, e)
         IN  /\ q \in PersistentState
             /\ q.npromised = p.npromised /\ q.highest = p.highest
             /\ Len(q.log) >= Len(p.log) /\ Len(q.log) > index
             /\ q.log[index + 1] = e
             /\ \A i \in 1 .. Len(p.log) :
                  i # index + 1 => q.log[i] = p.log[i]
<1> DEFINE q == UpdateLog(p, index, e)
<1>1. /\ q \in PersistentState
      /\ q.npromised = p.npromised /\ q.highest = p.highest
      /\ Len(q.log) >= Len(p.log) /\ Len(q.log) > index
      /\ \A i \in 1 .. Len(q.log) :
           q.log[i] = IF i = index + 1 THEN e ELSE GetLogEntry(p, i - 1)
  BY UpdateLogSlots
<1> HIDE DEF q
<1>2. Len(p.log) \in Nat /\ Len(q.log) \in Nat
  BY <1>1, LenProperties DEF PersistentState
<1>3. /\ index + 1 \in 1 .. Len(q.log)
      /\ \A i \in 1 .. Len(p.log) : i \in 1 .. Len(q.log)
      /\ \A i \in 1 .. Len(p.log) : GetLogEntry(p, i - 1) = p.log[i]
  BY <1>1, <1>2 DEF GetLogEntry
<1>4. QED
  BY <1>1, <1>3 DEF q

LEMMA SetHighestKeeps ==
  ASSUME NEW p \in PersistentState, NEW index \in Nat, NEW b \in Ballot
  PROVE  LET q == SetHighestAcceptedBallot(p, index, b)
         IN  /\ q \in PersistentState
             /\ q.npromised = p.npromised /\ q.log = p.log
             /\ [index |-> index, ballot |-> b] \in q.highest
             /\ \A h \in q.highest : h \in p.highest \/ h.index = index
             /\ \A h \in p.highest : \E k \in q.highest : k.index = h.index
<1> DEFINE new == {h \in p.highest : h.index # index}
                    \cup {[index |-> index, ballot |-> b]}
<1>1. new \subseteq Accepted
  BY DEF PersistentState, Accepted
<1>2. SetHighestAcceptedBallot(p, index, b) = [p EXCEPT !.highest = new]
  BY DEF SetHighestAcceptedBallot
<1>3. /\ [p EXCEPT !.highest = new] \in PersistentState
      /\ [p EXCEPT !.highest = new].npromised = p.npromised
      /\ [p EXCEPT !.highest = new].log = p.log
      /\ [p EXCEPT !.highest = new].highest = new
  <2> HIDE DEF new
  <2> QED  BY <1>1 DEF PersistentState
<1>4. ASSUME NEW h \in p.highest
      PROVE  \E k \in new : k.index = h.index
  <2>1. CASE h.index = index
    <3>1. [index |-> index, ballot |-> b] \in new
      OBVIOUS
    <3>2. QED
      BY <2>1, <3>1
  <2>2. CASE h.index # index
    BY <2>2
  <2>3. QED
    BY <2>1, <2>2
<1>5. QED
  BY <1>2, <1>3, <1>4

\* A state whose accepted slots hold entries of their own index.
SlotsFilled(p) ==
  \A h \in p.highest :
    /\ h.index < Len(p.log)
    /\ p.log[h.index + 1].index = h.index
    /\ p.log[h.index + 1].cmd # Blank

\* Entries that a promise may bring: bounded, and none of them padding.
Reportable(entries) ==
  /\ entries \subseteq LogEntry
  /\ \E b \in Nat : \A e \in entries : e.index <= b
  /\ \A e \in entries : e.cmd # Blank

\* What GetAllAcceptedEntries returns from such a state: an entry for every
\* index with an accepted ballot.
LEMMA AcceptedEntriesReported ==
  ASSUME NEW p \in PersistentState, SlotsFilled(p)
  PROVE  /\ Reportable(GetAllAcceptedEntries(p))
         /\ \A h \in p.highest :
              \E e \in GetAllAcceptedEntries(p) : e.index = h.index
<1>1. Len(p.log) \in Nat
  BY LenProperties DEF PersistentState
<1>2. \A h \in p.highest : h.index \in Nat
  BY DEF PersistentState, Accepted
<1>3. \A h \in p.highest : GetLogEntry(p, h.index) \in LogEntry
  BY <1>2, GetLogEntryType
<1>4. \A h \in p.highest : /\ GetLogEntry(p, h.index).index = h.index
                           /\ GetLogEntry(p, h.index).cmd # Blank
  BY DEF SlotsFilled, GetLogEntry
<1>5. GetAllAcceptedEntries(p) = {GetLogEntry(p, h.index) : h \in p.highest}
  BY DEF SlotsFilled, GetAllAcceptedEntries
<1>6. \A e \in GetAllAcceptedEntries(p) : e.index <= Len(p.log)
  BY <1>1, <1>2, <1>4, <1>5 DEF SlotsFilled
<1>7. QED
  BY <1>1, <1>3, <1>4, <1>5, <1>6 DEF Reportable

\* Adopting never shortens the log, and a slot it changes gets an entry of the
\* promise with the slot's own index.
LEMMA AdoptEntriesSlots ==
  ASSUME NEW p \in PersistentState, NEW entries, Reportable(entries)
  PROVE  LET q == AdoptEntries(p, entries)
         IN  /\ q \in PersistentState
             /\ q.npromised = p.npromised /\ q.highest = p.highest
             /\ Len(q.log) >= Len(p.log)
             /\ \A i \in 1 .. Len(q.log) :
                  \/ q.log[i] = GetLogEntry(p, i - 1)
                  \/ q.log[i] \in entries /\ q.log[i].index = i - 1
             /\ \A e \in entries : Adopts(p, e) =>
                  e.index < Len(q.log) /\ q.log[e.index + 1] \in entries
<1> DEFINE new == {e \in entries : Adopts(p, e)}
           At(i) == {e \in new : e.index = i}
           lengths == {Len(p.log)} \cup {e.index + 1 : e \in new}
           n == Max(lengths)
           f == [i \in 1 .. n |->
                   IF At(i - 1) # {} THEN CHOOSE e \in At(i - 1) : TRUE
                                     ELSE GetLogEntry(p, i - 1)]
<1>1. Len(p.log) \in Nat
  BY LenProperties DEF PersistentState
<1>2. PICK b \in Nat : \A e \in entries : e.index <= b
  BY DEF Reportable
<1>3. new \subseteq LogEntry
  BY DEF Reportable
<1>4. n \in Nat /\ n >= Len(p.log) /\ \A e \in new : e.index + 1 <= n
  <2>1. lengths \subseteq Nat /\ lengths # {}
    BY <1>1, <1>3 DEF LogEntry
  <2>2. Len(p.log) + b + 1 \in Nat
        /\ \A x \in lengths : x <= Len(p.log) + b + 1
    BY <1>1, <1>2, <1>3 DEF LogEntry
  <2>3. Len(p.log) \in lengths /\ \A e \in new : e.index + 1 \in lengths
    OBVIOUS
  <2> HIDE DEF lengths, new
  <2>4. QED
    BY <2>1, <2>2, <2>3, MaxOfBounded
<1> HIDE DEF n
<1>5. \A i \in 1 .. n : At(i - 1) # {} =>
        (CHOOSE e \in At(i - 1) : TRUE) \in At(i - 1)
  OBVIOUS
<1>6. f \in [1 .. n -> LogEntry]
  <2>1. \A i \in 1 .. n : GetLogEntry(p, i - 1) \in LogEntry
    BY <1>4, GetLogEntryType
  <2>2. QED
    BY <1>3, <1>5, <2>1
<1>7. f \in Seq(LogEntry) /\ Len(f) = n
  BY <1>4, <1>6, LogByDefinition
<1>8. AdoptEntries(p, entries) = [p EXCEPT !.log = f]
  BY DEF AdoptEntries, n
<1>9. ASSUME NEW i \in 1 .. n
      PROVE  \/ f[i] = GetLogEntry(p, i - 1)
             \/ f[i] \in entries /\ f[i].index = i - 1
  <2>1. CASE At(i - 1) # {}
    <3>1. f[i] \in At(i - 1)
      BY <1>5, <2>1
    <3>2. QED
      BY <3>1
  <2>2. CASE At(i - 1) = {}
    BY <2>2
  <2>3. QED
    BY <2>1, <2>2
<1>10. ASSUME NEW e \in entries, Adopts(p, e)
       PROVE  e.index < n /\ f[e.index + 1] \in entries
  <2>1. e \in new /\ e.index \in Nat
    BY <1>3, <1>10 DEF LogEntry
  <2>2. e.index + 1 \in 1 .. n /\ e.index < n
    BY <1>4, <2>1
  <2>3. At((e.index + 1) - 1) # {}
    BY <2>1
  <2>4. QED
    BY <1>5, <2>2, <2>3
<1> HIDE DEF f
<1>11. QED
  BY <1>4, <1>7, <1>8, <1>9, <1>10, WithLog

LEMMA AdoptEntriesKeeps ==
  ASSUME NEW p \in PersistentState, NEW entries, Reportable(entries)
  PROVE  LET q == AdoptEntries(p, entries)
         IN  /\ q \in PersistentState
             /\ q.npromised = p.npromised /\ q.highest = p.highest
             /\ Len(q.log) >= Len(p.log)
             /\ \A i \in 1 .. Len(p.log) :
                  \/ q.log[i] = p.log[i]
                  \/ q.log[i].index = i - 1 /\ q.log[i].cmd # Blank
<1> DEFINE q == AdoptEntries(p, entries)
<1>1. /\ q \in PersistentState
      /\ q.npromised = p.npromised /\ q.highest = p.highest
      /\ Len(q.log) >= Len(p.log)
      /\ \A i \in 1 .. Len(q.log) :
           \/ q.log[i] = GetLogEntry(p, i - 1)
           \/ q.log[i] \in entries /\ q.log[i].index = i - 1
  BY AdoptEntriesSlots
<1> HIDE DEF q
<1>2. Len(p.log) \in Nat /\ Len(q.log) \in Nat
  BY <1>1, LenProperties DEF PersistentState
<1>3. /\ \A i \in 1 .. Len(p.log) : i \in 1 .. Len(q.log)
      /\ \A i \in 1 .. Len(p.log) : GetLogEntry(p, i - 1) = p.log[i]
  BY <1>1, <1>2 DEF GetLogEntry
<1>4. QED
  BY <1>1, <1>3 DEF q, Reportable
=============================================================================
