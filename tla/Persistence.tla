---------------------------- MODULE Persistence ----------------------------
(***************************************************************************)
(* The persistent state of one server (persistence.PersistentState) as a   *)
(* value: its log, the ballot it promised and the map from log index to    *)
(* the ballot accepted there. The operators are the in-memory effect of    *)
(* the methods; saving to disk is the caller's step (MultiPaxos!Save),     *)
(* because each save can fail or be the last thing before a crash.         *)
(*                                                                         *)
(* Indices are 0-based as in the code, so index i is position i+1 of the   *)
(* sequence. The Go map HighestAcceptedBallot is the set of its pairs. The *)
(* operation, key and value of an entry are one opaque command.            *)
(***************************************************************************)
EXTENDS Ballots, Sequences, FiniteSetsExt

CONSTANT Request  \* the commands clients ask for, one per Put or Delete call

NoOp == [type |-> "No-Op"]
Blank == [type |-> ""]   \* that of the zero LogEntry{} that pads a log

ASSUME RequestAssumption == NoOp \notin Request /\ Blank \notin Request

Command == Request \cup {NoOp, Blank}

LogEntry == [index : Nat, ballot : Ballot, cmd : Command]

Accepted == [index : Nat, ballot : Ballot]

PersistentState ==
  [log : Seq(LogEntry), npromised : Ballot, highest : SUBSET Accepted]

\* The zero value of LogEntry: what UpdateLog pads with.
EmptyEntry == [index |-> 0, ballot |-> ZeroBallot, cmd |-> Blank]

FreshStateBefore(s) ==  \* mutant: terms start below zero
  [log |-> << >>, npromised |-> NewBallotNumber(-1, s), highest |-> {}]
\* NewPersistentState of server s when it finds no file.
FreshState(s) ==
  [log |-> << >>, npromised |-> NewBallotNumber(0, s), highest |-> {}]

SetNpromised(p, ballot) == [p EXCEPT !.npromised = ballot]

AppendLog(p, entry) == [p EXCEPT !.log = Append(@, entry)]

GetLogLength(p) == Len(p.log)

\* The entry at an index that exists, and the padding otherwise.
GetLogEntry(p, index) ==
  IF index < Len(p.log) THEN p.log[index + 1] ELSE EmptyEntry

UpdateLogAtEnd(p, index, entry) ==  \* mutant: the index is not looked at
  AppendLog(p, entry)
\* Overwrite in place, or extend with empty entries up to the index.
UpdateLog(p, index, entry) ==
  [p EXCEPT !.log = [i \in 1 .. Max({Len(@), index + 1}) |->
                       IF i = index + 1 THEN entry ELSE GetLogEntry(p, i - 1)]]

\* Whatever the ballot stored before, the new one replaces it.
SetHighestAcceptedBallot(p, index, ballot) ==
  [p EXCEPT !.highest = {h \in @ : h.index # index}
                          \cup {[index |-> index, ballot |-> ballot]}]

GetAllAcceptedButLast(p) ==  \* mutant: off by one at the end of the log
  {GetLogEntry(p, h.index) : h \in {a \in p.highest : a.index < Len(p.log) - 1}}
\* The entries whose position has an accepted ballot.
GetAllAcceptedEntries(p) ==
  {GetLogEntry(p, h.index) : h \in {a \in p.highest : a.index < Len(p.log)}}

(***************************************************************************)
(* The loop of adoptAcceptedEntries over one promise's entries. Accepted   *)
(* entries have distinct indices (MultiPaxos!AcceptedSlotsDurable), so the *)
(* order of the loop does not matter. An entry replaces what the log has   *)
(* at its index only when nothing is there or its ballot is greater.       *)
(***************************************************************************)
AdoptsInLog(p, e) ==  \* mutant: entries beyond the end of the log are lost
  e.index < Len(p.log) /\ GreaterThan(e.ballot, GetLogEntry(p, e.index).ballot)
Adopts(p, e) ==
  \/ e.index >= Len(p.log)
  \/ GreaterThan(e.ballot, GetLogEntry(p, e.index).ballot)

AdoptEntries(p, entries) ==
  LET new == {e \in entries : Adopts(p, e)}
      At(i) == {e \in new : e.index = i}
  IN  [p EXCEPT !.log =
         [i \in 1 .. Max({Len(@)} \cup {e.index + 1 : e \in new}) |->
            IF At(i - 1) # {} THEN CHOOSE e \in At(i - 1) : TRUE
                              ELSE GetLogEntry(p, i - 1)]]
=============================================================================
