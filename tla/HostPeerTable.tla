--------------------------- MODULE HostPeerTable ---------------------------
(***************************************************************************)
(* The Host's peer table (host.cpp) and the two threads that use it        *)
(* without a lock: the application thread (Host::connect, Host::send) and  *)
(* net_worker (receive_message with Protocol::handle_message, the send     *)
(* queue drain, Protocol::update).  Only the three queues are guarded by   *)
(* mutexes; every access to a Peer slot is unsynchronised.                *)
(*                                                                         *)
(* Each thread is split where the code leaves the slot and comes back to   *)
(* it: between finding a slot (find_available_peer, find_peer_by_address)  *)
(* and acting on it (Protocol::connect, Protocol::send, handle_message).   *)
(* The protocol is abstracted to what decides where datagrams and events   *)
(* go: the slot's state and m_address.  Sequence numbers, acks of          *)
(* reliable packets, retransmission and congestion control are modelled   *)
(* in ChatterProtocol; here the congestion gate of the drain is a choice   *)
(* of the slots whose window is full.                                      *)
(*                                                                         *)
(* Peer::reset assigns HostAddress(), whose constructor builds and drops a *)
(* temporary (hostaddress.cpp) and leaves m_address and m_port            *)
(* uninitialised: the copy is of indeterminate bytes.  The outcomes a      *)
(* build produces are the slot's old address (the copy elided) or one of   *)
(* ResetAddr.                                                              *)
(*                                                                         *)
(* Remote hosts are an environment that may send any datagram at any time. *)
(* Ghost state records, for every datagram the host writes and every event *)
(* it queues, the remote it is meant for.                                  *)
(***************************************************************************)
EXTENDS Naturals, Sequences, FiniteSets

CONSTANTS
    Remote,          \* addresses of remote hosts
    NoAddr,          \* the zero address
    MaxConnections,  \* Host::start's max_connections: the number of slots
    ConnectTo,       \* addresses the application passes to Host::connect
    SendTo,          \* addresses the application passes to Host::send
    InTypes,         \* packet types the remotes send
    ResetAddr,       \* values Peer::reset may leave in m_address
    MaxAppCalls,     \* bound: calls of the application thread
    MaxDatagrams     \* bound: datagrams received

ASSUME NoAddr \notin Remote /\ ResetAddr \subseteq Remote \cup {NoAddr}
ASSUME ResetAddr # {}
ASSUME ConnectTo \cup SendTo \subseteq Remote /\ MaxConnections \in Nat \ {0}

Slots == 1..MaxConnections
Addr == Remote \cup {NoAddr}
\* Protocol::send_ack: the types acknowledged by a PROTO_ACK
GenericAcked == {"CONNECT_COMPLETE", "DISCONNECT_NOTIFY", "USER_DATA"}

VARIABLES
    slot,     \* slot[i]: m_peers[i]: state, m_address, m_is_incoming_connection
    sendq,    \* Host::m_send_queue: [slot, type, for]
    app,      \* the application thread: its step and what it has found
    netw,     \* net_worker: its place in the loop, the slot and datagram at hand
    evq,      \* Host::m_event_queue: the events not yet taken by get_event
    \* ghost state, read only by the properties
    owner,    \* owner[i]: the remote the session of slot i is with, or NoAddr
    wire,     \* datagrams written: [type, to (m_address), for (intended remote)]
    events,   \* events queued: [type, addr (e->address), for]
    calls,    \* application calls made (bound)
    received  \* datagrams received (bound)

vars == <<slot, sendq, app, netw, evq, owner, wire, events, calls, received>>

Idle == [pc |-> "idle"]
\* net_worker between datagrams of its inbound batch
Receiving == [pc |-> "recv"]

\* Peer::reset: m_address takes an indeterminate value
ResetValues(old) == {old} \cup ResetAddr

Reset(s, a) == [s EXCEPT !.state = "DISCONNECTED", !.incoming = FALSE, !.addr = a]

\* The first slot, in index order, satisfying P; 0 when there is none.
FirstSlot(P(_)) == IF \E i \in Slots : P(i) THEN CHOOSE i \in Slots : P(i) /\ \A j \in 1..(i - 1) : ~P(j)
                   ELSE 0

\* Host::find_peer_by_address: the first slot whose m_address matches, in
\* any state.
FindPeerByAddress(a) == FirstSlot(LAMBDA i : slot[i].addr = a)

\* Host::find_available_peer: the first DISCONNECTED slot
FindAvailablePeer == FirstSlot(LAMBDA i : slot[i].state = "DISCONNECTED")

\* Host::send_packet_internal: nothing leaves for a DISCONNECTED slot; the
\* datagram goes to the slot's m_address as it is when sent.
Transmit(s, type, for) ==
    IF s.state = "DISCONNECTED" THEN {} ELSE {[type |-> type, to |-> s.addr, for |-> for]}

Event(type, addr, for) == [type |-> type, addr |-> addr, for |-> for]

\* The events of a sequence queued by Host::queue_event
Queued(q) == {q[k] : k \in DOMAIN q}

Init ==
    \* Peer::Peer calls reset: the initial address is indeterminate too
    /\ slot \in [Slots -> [state: {"DISCONNECTED"}, incoming: {FALSE}, addr: ResetAddr]]
    /\ sendq = <<>>
    /\ app = Idle
    /\ netw = Receiving
    /\ evq = <<>>
    /\ owner = [i \in Slots |-> NoAddr]
    /\ wire = {}
    /\ events = {}
    /\ calls = 0
    /\ received = 0

(***************************************************************************)
(* Application thread                                                      *)
(***************************************************************************)
\* Host::connect, up to the return of find_available_peer, which writes
\* the address into the first DISCONNECTED slot (connect returns false
\* when there is none).
ConnectFind(a) ==
    /\ app = Idle /\ calls < MaxAppCalls
    /\ LET i == FindAvailablePeer
       IN IF i = 0 THEN UNCHANGED <<slot, app>>
          ELSE /\ slot' = [slot EXCEPT ![i].addr = a]
               /\ app' = [pc |-> "connect", slot |-> i, to |-> a]
    /\ calls' = calls + 1
    /\ UNCHANGED <<evq, sendq, netw, owner, wire, events, received>>

\* Protocol::connect on the slot found: CONNECT_REQUEST is sent at once
\* (send(p, true)) to the slot's m_address.
ConnectProtocol ==
    /\ app.pc = "connect"
    /\ LET i == app.slot
           s == [slot[i] EXCEPT !.state = "CONNECTION_REQUESTED"]
       IN IF slot[i].state # "DISCONNECTED" THEN UNCHANGED <<slot, owner, wire>>
          ELSE /\ slot' = [slot EXCEPT ![i] = s]
               /\ owner' = [owner EXCEPT ![i] = app.to]
               /\ wire' = wire \cup Transmit(s, "CONNECT_REQUEST", app.to)
    /\ app' = Idle
    /\ UNCHANGED <<evq, sendq, netw, events, calls, received>>

\* Host::send, up to the return of find_peer_by_address (send returns
\* when no slot holds the address).
SendFind(a) ==
    /\ app = Idle /\ calls < MaxAppCalls
    /\ LET i == FindPeerByAddress(a)
       IN app' = IF i = 0 THEN Idle ELSE [pc |-> "send", slot |-> i, to |-> a]
    /\ calls' = calls + 1
    /\ UNCHANGED <<evq, slot, sendq, netw, owner, wire, events, received>>

\* Host::queue_outgoing_packet of a packet that is not immediate: appended
\* to m_send_queue under its mutex (immediate packets are Transmit).
QueueOutgoingPacket(it) == sendq' = Append(sendq, it)

\* Protocol::send of the user packet: queue_outgoing_packet (not immediate)
SendProtocol ==
    /\ app.pc = "send"
    /\ QueueOutgoingPacket([slot |-> app.slot, type |-> "USER_DATA", for |-> app.to])
    /\ app' = Idle
    /\ UNCHANGED <<evq, slot, netw, owner, wire, events, calls, received>>

\* Host::get_event: the front of m_event_queue is taken under its mutex
\* (nothing is taken when the queue is empty).
GetEvent ==
    /\ app = Idle /\ evq # <<>>
    /\ evq' = Tail(evq)
    /\ UNCHANGED <<slot, sendq, app, netw, owner, wire, events, calls, received>>

(***************************************************************************)
(* net_worker                                                              *)
(***************************************************************************)
\* Host::receive_message of a datagram of type t from remote r, up to the
\* call of handle_message: the slot holding r, else the first DISCONNECTED
\* slot, which takes r as its address; the datagram is dropped when there
\* is neither.
ReceiveFind(r, t) ==
    /\ netw = Receiving /\ received < MaxDatagrams
    /\ LET byAddr == FindPeerByAddress(r)
           i      == IF byAddr # 0 THEN byAddr ELSE FindAvailablePeer
       IN /\ slot' = IF byAddr = 0 /\ i # 0 THEN [slot EXCEPT ![i].addr = r] ELSE slot
          /\ netw' = IF i = 0 THEN Receiving ELSE [pc |-> "handle", slot |-> i, from |-> r, type |-> t]
    /\ received' = received + 1
    /\ UNCHANGED <<evq, sendq, app, owner, wire, events, calls>>

\* Protocol::handle_message on slot s (owned by own) of a reliable packet
\* of type t from r: send_ack, then the handler.  ra is the address
\* Peer::reset leaves.  The result: the slot, its owner, datagrams sent at
\* once (out), packets queued (q) and events (ev).  The handlers are
\* handle_ping and handle_connect_request .. handle_user_data; handle_pong
\* and handle_ack change neither the state nor m_address (OTHER).
HandleMessage(s, own, t, r, ra) ==
    LET ack == IF t \in GenericAcked THEN Transmit(s, "PROTO_ACK", r) ELSE {}
        R(ns, no, out, q, ev) == [s |-> ns, own |-> no, out |-> ack \cup out, q |-> q, ev |-> ev]
        Go(st) == [s EXCEPT !.state = st]
        Off == Reset(s, ra)
    IN CASE t = "CONNECT_REQUEST" /\ s.state = "DISCONNECTED" ->
              R([Go("CONNECTION_RESPONDED") EXCEPT !.incoming = TRUE], r, {},
                <<"CONNECT_RESPONSE">>, <<>>)
         [] t = "CONNECT_RESPONSE" /\ s.state = "CONNECTION_REQUESTED" ->
              R(Go("CONNECTION_ACKNOWLEDGED"), own,
                Transmit(Go("CONNECTION_ACKNOWLEDGED"), "CONNECT_ACKNOWLEDGE", r), <<>>, <<>>)
         [] t = "CONNECT_ACKNOWLEDGE" /\ s.state = "CONNECTION_RESPONDED" ->
              R(Go("CONNECTED"), own, Transmit(Go("CONNECTED"), "CONNECT_COMPLETE", r), <<>>,
                <<Event("PEER_CONNECTED", s.addr, r)>>)
         [] t = "CONNECT_COMPLETE" /\ s.state = "CONNECTION_ACKNOWLEDGED" ->
              R(Go("CONNECTED"), own, {}, <<>>, <<Event("PEER_CONNECTED", s.addr, r)>>)
         \* handle_disconnect_notify reads m_address after peer->reset()
         [] t = "DISCONNECT_NOTIFY" /\ s.state = "CONNECTED" ->
              R(Off, NoAddr, {}, <<>>, <<Event("PEER_DISCONNECTED", Off.addr, r)>>)
         [] t = "USER_DATA" /\ s.state = "CONNECTED" ->
              R(s, own, {}, <<>>, <<Event("PACKET_RECEIVED", s.addr, r)>>)
         [] t = "PROTO_PING" /\ s.state = "CONNECTED" ->
              R(s, own, Transmit(s, "PROTO_PONG", r), <<>>, <<>>)
         [] OTHER -> R(s, own, {}, <<>>, <<>>)

\* Protocol::handle_message on the slot receive_message found
ReceiveHandle ==
    /\ netw.pc = "handle"
    /\ LET i == netw.slot
       IN \E ra \in ResetValues(slot[i].addr) :
            LET h == HandleMessage(slot[i], owner[i], netw.type, netw.from, ra)
            IN /\ slot' = [slot EXCEPT ![i] = h.s]
               /\ owner' = [owner EXCEPT ![i] = h.own]
               /\ wire' = wire \cup h.out
               /\ sendq' = sendq \o [k \in DOMAIN h.q |-> [slot |-> i, type |-> h.q[k], for |-> netw.from]]
               /\ evq' = evq \o h.ev
               /\ events' = events \cup Queued(h.ev)
    /\ netw' = Receiving
    /\ UNCHANGED <<app, calls, received>>

\* The send-queue drain that follows the inbound batch: every queued
\* packet whose slot's congestion window is not full is handed to
\* send_packet_internal and erased (dropped for a DISCONNECTED slot); the
\* others stay.  full: the slots whose window is full.  Only user data
\* fills a window: handshake packets are a few bytes against the 3000-byte
\* minimum, and a reset slot has m_bytes_on_wire = 0.
DrainSendQueue ==
    /\ netw.pc = "recv"
    /\ \E full \in SUBSET {i \in Slots : slot[i].state = "CONNECTED"} :
          /\ sendq' = SelectSeq(sendq, LAMBDA it : it.slot \in full)
          /\ wire' = wire \cup UNION {Transmit(slot[sendq[k].slot], sendq[k].type, sendq[k].for) :
                                        k \in {k \in DOMAIN sendq : sendq[k].slot \notin full}}
    /\ netw' = [pc |-> "update", next |-> 1]
    /\ UNCHANGED <<evq, slot, app, owner, events, calls, received>>

\* The update loop moves to the next slot, or back to the inbound batch.
NextSlot(i) == IF i = MaxConnections THEN Receiving ELSE [pc |-> "update", next |-> i + 1]

\* Protocol::update of slot i, called for every slot that is not
\* DISCONNECTED: a handshake past kConnectTimeOut raises
\* PEER_UNABLE_TO_CONNECT for an outgoing connection and resets the slot;
\* a CONNECTED slot past the peer timeout raises PEER_TIMED_OUT and is
\* reset, else sends the keep-alive PROTO_PING when it is due; otherwise
\* nothing is due.  The event reads m_address before the reset.
\* Retransmission is in ChatterProtocol.
Update(i) ==
    /\ netw = [pc |-> "update", next |-> i]
    /\ LET s == slot[i]
       IN \/ /\ s.state # "DISCONNECTED"
             /\ \E ra \in ResetValues(s.addr) :
                   /\ slot' = [slot EXCEPT ![i] = Reset(s, ra)]
                   /\ owner' = [owner EXCEPT ![i] = NoAddr]
                   /\ LET ev == IF s.state = "CONNECTED" THEN <<Event("PEER_TIMED_OUT", s.addr, owner[i])>>
                                 ELSE IF s.incoming THEN <<>>
                                 ELSE <<Event("PEER_UNABLE_TO_CONNECT", s.addr, owner[i])>>
                      IN /\ evq' = evq \o ev
                         /\ events' = events \cup Queued(ev)
                   /\ UNCHANGED wire
          \/ /\ s.state = "CONNECTED"
             /\ wire' = wire \cup Transmit(s, "PROTO_PING", owner[i])
             /\ UNCHANGED <<slot, owner, evq, events>>
          \/ UNCHANGED <<slot, owner, evq, events, wire>>
    /\ netw' = NextSlot(i)
    /\ UNCHANGED <<sendq, app, calls, received>>

Next ==
    \/ \E a \in ConnectTo : ConnectFind(a)
    \/ ConnectProtocol
    \/ \E a \in SendTo : SendFind(a)
    \/ SendProtocol
    \/ GetEvent
    \/ \E r \in Remote, t \in InTypes : ReceiveFind(r, t)
    \/ ReceiveHandle
    \/ DrainSendQueue
    \/ \E i \in Slots : Update(i)

Spec == Init /\ [][Next]_vars

-----------------------------------------------------------------------------
(* Properties *)

TypeOK ==
    /\ \A i \in Slots : slot[i].addr \in Addr /\ owner[i] \in Addr
    /\ app.pc \in {"idle", "connect", "send"} /\ netw.pc \in {"recv", "handle", "update"}
    /\ \A d \in wire : d.to \in Addr /\ d.for \in Remote
    /\ \A e \in events : e.addr \in Addr /\ e.for \in Remote
    /\ Queued(evq) \subseteq events

\* The slot's m_address stands for the remote of its session wherever the
\* code uses it: every datagram the host writes goes to the remote it is
\* meant for (the target of Host::connect or Host::send, or the sender of
\* the packet it answers), and every event names the remote it is about.
\* find_available_peer, find_peer_by_address and Peer::reset change or
\* read m_address with no lock against the other thread.
AddressIntegrity ==
    /\ \A d \in wire : d.to = d.for
    /\ \A e \in events : e.addr = e.for

=============================================================================
