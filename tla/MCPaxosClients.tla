--------------------------- MODULE MCPaxosClients ---------------------------
(***************************************************************************)
(* PaxosClients for TLC: some clients put each value once and some delete, *)
(* all of them one and the same set of keys.                               *)
(***************************************************************************)
EXTENDS PaxosClients

CONSTANTS
  Putters, Deleters,  \* the clients that call Put, and Delete
  NoValue             \* the value of a Delete

Ops ==
       [by : Putters, type : {"Put"}, key : Key, value : Value \ {NoValue}]
  \cup [by : Deleters, type : {"Delete"}, key : Key, value : {NoValue}]

Requests == [op : Ops, srv : Server]
=============================================================================
