----------------------------- MODULE ExampleApp -----------------------------
(***************************************************************************)
(* The example program (examples/main.cpp) as the application thread of   *)
(* a Host, composed with HostPeerTable's net_worker.  A client starts with *)
(* one slot and calls Host::connect(server) at once; a server starts with  *)
(* more slots and connects to nobody.  Then main loops forever: the client *)
(* sends a user packet to host_address whenever its address part is not    *)
(* zero, and both drain the event queue with get_event, the client taking  *)
(* host_address from PEER_CONNECTED and the server echoing every           *)
(* PACKET_RECEIVED to the event's address with Host::send.                 *)
(*                                                                         *)
(* host_address is a default-constructed HostAddress: like the slot        *)
(* addresses after Peer::reset it is indeterminate until PEER_CONNECTED,   *)
(* and is drawn from ResetAddr.                                            *)
(***************************************************************************)
EXTENDS HostPeerTable

CONSTANTS
    IsClient,    \* main was given a server address (argc >= 2)
    ServerAddr   \* that address

ASSUME IsClient \in BOOLEAN /\ ServerAddr \in Remote

VARIABLES
    main,        \* main's place in its loop, and the address it is echoing to
    hostAddress  \* main's local host_address

appVars == <<main, hostAddress>>
allVars == <<vars, appVars>>

\* HostAddress::address() != 0: only the zero address has a zero IP part
AddressNonZero(a) == a # NoAddr

AppInit ==
    /\ Init
    /\ main = [pc |-> IF IsClient THEN "start" ELSE "send"]
    /\ hostAddress \in ResetAddr

\* The client's host.connect(server) right after host.start, while
\* net_worker and recv_worker already run.
MainStart ==
    /\ main.pc = "start"
    /\ ConnectFind(ServerAddr)
    /\ main' = [pc |-> "send"]
    /\ UNCHANGED hostAddress

\* Top of the loop: the client's host.send(host_address, p) when the
\* address part is not zero; the server sends nothing here.
MainSend ==
    /\ main.pc = "send"
    /\ \/ /\ IsClient /\ AddressNonZero(hostAddress)
          /\ SendFind(hostAddress)
       \/ /\ ~(IsClient /\ AddressNonZero(hostAddress))
          /\ app = Idle
          /\ UNCHANGED vars
    /\ main' = [pc |-> "events"]
    /\ UNCHANGED hostAddress

\* One turn of the while (e = host.get_event()) loop: PEER_CONNECTED sets
\* host_address, PACKET_RECEIVED makes the server echo to e->address, other
\* events are ignored; an empty queue ends the loop (i++, sleep).
MainEvent ==
    /\ main.pc = "events"
    /\ \/ /\ evq = <<>> /\ app = Idle
          /\ main' = [pc |-> "send"]
          /\ UNCHANGED <<vars, hostAddress>>
       \/ /\ GetEvent
          /\ LET e == Head(evq)
             IN /\ hostAddress' = IF e.type = "PEER_CONNECTED" THEN e.addr ELSE hostAddress
                /\ main' = IF e.type = "PACKET_RECEIVED" /\ ~IsClient
                           THEN [pc |-> "echo", to |-> e.addr]
                           ELSE main

\* The server's host.send(e->address, p) of the echo
MainEcho ==
    /\ main.pc = "echo"
    /\ SendFind(main.to)
    /\ main' = [pc |-> "events"]
    /\ UNCHANGED hostAddress

AppNext ==
    \/ MainStart
    \/ MainSend
    \/ MainEvent
    \/ MainEcho
    \/ (ConnectProtocol \/ SendProtocol) /\ UNCHANGED appVars
    \/ /\ \/ \E r \in Remote, t \in InTypes : ReceiveFind(r, t)
          \/ ReceiveHandle
          \/ DrainSendQueue
          \/ \E i \in Slots : Update(i)
       /\ UNCHANGED appVars

AppSpec == AppInit /\ [][AppNext]_allVars

=============================================================================
