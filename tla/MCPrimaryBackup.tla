-------------------------- MODULE MCPrimaryBackup --------------------------
(***************************************************************************)
(* PrimaryBackup for TLC, from a later start: the store has had a primary  *)
(* for a while when its second server joins and the clients begin, as in   *)
(* auto_test_p2.sh. The state is one that PrimaryBackup reaches: First     *)
(* pinged, became primary of view 1, was told so and acknowledged it; then *)
(* Second pinged, and a tick made it backup in view 2, before First pinged *)
(* again and before gRPC read the answer to Second.                        *)
(***************************************************************************)
EXTENDS PrimaryBackup

CONSTANTS
  First,   \* the server that has been running
  Second   \* the server that joins

ViewOne == [num |-> 1, primary |-> First, backup |-> None]

Joining ==
  /\ service = [currentView |-> [ViewOne EXCEPT !.num = 2, !.backup = Second],
                servers |-> [s \in {First, Second} |-> TRUE],
                idleServers |-> {}, primaryAcked |-> TRUE]
  /\ late = {} /\ lastAck = [srv |-> First, num |-> 1] /\ since = 1
  /\ up = KVServer /\ calls = {} /\ reading = {Second}
  /\ kv = [[s \in KVServer |-> FreshKV] EXCEPT
             ![First].currentView = ViewOne, ![First].role = "primary"]
  /\ numberRead = [s \in KVServer |-> -1]
  /\ transfers = {} /\ puts = {} /\ rpcs = {}
  /\ \E k \in Key : client = [c \in Client |-> IdleClient(k)]
  /\ begun = 0 /\ crashes = 0 /\ delays = 0 /\ timeouts = 0
  /\ confirmed = EmptyStore

JoiningSpec == Joining /\ [][Next]_vars /\ Fairness
=============================================================================
