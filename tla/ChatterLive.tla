---------------------------- MODULE ChatterLive -----------------------------
(***************************************************************************)
(* Progress of the chatter protocol (spec.md section 8, handshake          *)
(* liveness and reliability) under the fairness that the code and a        *)
(* loss-free network give:                                                 *)
(*  - net_worker runs its loop forever (Host::net_worker sleeps at most    *)
(*    10 ms between passes), so Tick is weakly fair for a running host;    *)
(*  - every datagram sent is delivered at least once: the ghost `seen`     *)
(*    records the datagrams a host has taken from the network, and taking *)
(*    one it has not taken yet is weakly fair (duplicates stay possible);  *)
(*  - an application in Connectors calls Host::connect when its peer slot  *)
(*    is free, as examples/main.cpp does at start.                         *)
(* Whether the connect and idle timeouts may fire is the constant Timeouts *)
(* of ChatterProtocol: {FALSE} states that delays stay below them.         *)
(***************************************************************************)
EXTENDS ChatterProtocol

VARIABLE seen   \* seen[n]: datagrams host n has received at least once

liveVars == <<vars, seen>>

LiveInit ==
    /\ Init
    /\ seen = [n \in Node |-> {}]

\* net_worker takes datagram m, which recv_worker read from the socket
Deliver(n, m) ==
    /\ seen' = [seen EXCEPT ![n] = @ \cup {m}]
    /\ ReceiveMsg(n, m)

\* The network delivers some datagram to n that n has not received yet
DeliverFresh(n) == \E m \in net \ seen[n] : Deliver(n, m)

LiveNext ==
    \/ \E n \in Node : \E m \in net : Deliver(n, m)
    \/ /\ \/ \E n \in Node :
                \/ Connect(n)
                \/ \E ch \in UserChannels, len \in PayloadLen : Send(n, ch, len)
                \/ Shutdown(n)
                \/ Tick(n)
          \/ Terminated
       /\ UNCHANGED seen

Fairness ==
    /\ \A n \in Node : WF_liveVars(UNCHANGED seen /\ Tick(n))
    /\ \A n \in Node : WF_liveVars(DeliverFresh(n))
    /\ \A n \in Connectors : WF_liveVars(UNCHANGED seen /\ Connect(n))

LiveSpec == LiveInit /\ [][LiveNext]_liveVars /\ Fairness

-----------------------------------------------------------------------------
(* Properties *)

\* Handshake liveness (spec.md section 8): when one host connects and no
\* datagram is lost, both peers reach CONNECTED through the four-way
\* handshake of protocol.cpp and stay there.
HandshakeCompletes == <>[](\A n \in Node : peer[n].state = "CONNECTED")

\* The reliable user packets an application can send within the bounds
UserIds == {Id(s, ch, q, "USER_DATA") : s \in 1..MaxSessions, ch \in UserChannels,
                                         q \in 0..(MaxSends - 1)}

\* id is in its sender's sent_reliable list
UserInFlight(n, id) ==
    \E i \in DOMAIN peer[n].sent[id.ch] :
        /\ peer[n].sent[id.ch][i].seq = id.seq
        /\ peer[n].sent[id.ch][i].ep = id.ep
        /\ peer[n].sent[id.ch][i].type = "USER_DATA"

\* Reliability (spec.md section 8): a reliable packet given to Host::send
\* is sent from the send queue, retransmitted by do_resends while it is
\* unacknowledged, and eventually removed by a PROTO_ACK (Peer::ack_packet).
ReliableDelivery ==
    \A n \in Senders : \A id \in UserIds : UserInFlight(n, id) ~> id \in acked[n]

=============================================================================
