------------------------ MODULE MC_ChatterProtocol ------------------------
(***************************************************************************)
(* Instantiation of ChatterProtocol for TLC: a client host and a server   *)
(* host, one ordered user channel and the unordered reliable channel.     *)
(***************************************************************************)
EXTENDS ChatterProtocol

CONSTANTS client, server

MCNode == {client, server}
MCConnectors == {client}
MCServer == {server}
====
