-------------------------- MODULE MC_ExampleApp ---------------------------
(***************************************************************************)
(* Instantiation of ExampleApp for TLC: the example program's host and two *)
(* remote hosts, ra (the server it connects to, for a client) and rb.      *)
(***************************************************************************)
EXTENDS ExampleApp

CONSTANTS ra, rb, zero

MCRemote == {ra, rb}
MCServer == {ra}
MCInTypes == {"CONNECT_REQUEST", "CONNECT_RESPONSE", "CONNECT_ACKNOWLEDGE",
              "CONNECT_COMPLETE", "DISCONNECT_NOTIFY", "USER_DATA"}
====
