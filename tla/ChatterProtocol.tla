-------------------------- MODULE ChatterProtocol --------------------------
(***************************************************************************)
(* The chatter protocol engine between two hosts over an unreliable        *)
(* datagram network.  Each host has one peer slot (the other host), a      *)
(* net_worker thread (Host::net_worker: drain the inbound queue through    *)
(* Protocol::handle_message, drain the send queue under congestion         *)
(* gating, run Protocol::update), a recv_worker thread that moves          *)
(* datagrams from the socket to the inbound queue, and an application     *)
(* that calls Host::connect, Host::send and Host::shutdown.                *)
(*                                                                         *)
(* Timers are not modelled by a clock: a timer whose deadline the code     *)
(* compares with timestamp_now() may expire at any update of the peer      *)
(* (the network delay is unbounded, so any expiry order is possible).      *)
(* RTT samples only feed the retransmission timeout, which is abstracted   *)
(* together with the clock.  Packet objects (shared_ptr) that are both in  *)
(* a channel's sent_reliable list and in the send queue are represented    *)
(* by the in-flight record plus a queue item marked "tracked" while the    *)
(* object is still in the list.                                            *)
(*                                                                         *)
(* net_worker's loop is split into Receive (one datagram of the inbound    *)
(* batch) and Tick (send-queue drain followed by Protocol::update).  Any   *)
(* interleaving of the two is a run of the loop: consecutive Receives form *)
(* one batch, a Tick with no Receive before it follows an empty batch.     *)
(* recv_worker's push into m_recv_queue only fixes when a datagram can be  *)
(* processed, so a datagram is taken from the network by Receive itself.  *)
(* Each step of a thread is atomic: the unsynchronised accesses of the     *)
(* application thread (Host::send, Host::connect) to the peer slot are not *)
(* split further.                                                          *)
(***************************************************************************)
EXTENDS Integers, Sequences, SequencesExt, FiniteSets

CONSTANTS
    Node,              \* the two hosts
    Connectors,        \* hosts whose application calls Host::connect
    Senders,           \* hosts whose application calls Host::send
    Stoppers,          \* hosts whose application calls Host::shutdown
    AppWaitsConnected, \* TRUE: applications send only to a CONNECTED peer, as
                       \* examples/main.cpp does after PEER_CONNECTED
    UserChannels,      \* channels of user packets: 0..31 ordered, 32 unordered
    PayloadLen,        \* payload sizes (bytes) of user packets
    MaxSends,          \* bound: Host::send calls per host
    MaxSessions,       \* bound: sessions (connect or bound request) per host
    Timeouts,          \* outcomes of the connect/idle timeout checks: {FALSE}
                       \* when every datagram arrives well within kConnectTimeout
    ByteUnit,          \* bytes per unit of the model's lengths, MTU and window
    MTU,               \* kMTU (1500 in config.h): the congestion window unit
    MaxCongestionWindow \* kMaxCongestionWindow (INT_MAX - kCongestionInc - 1 in the code)

ASSUME Cardinality(Node) = 2 /\ Connectors \subseteq Node /\ Senders \subseteq Node
ASSUME Stoppers \subseteq Node /\ AppWaitsConnected \in BOOLEAN /\ Timeouts \subseteq BOOLEAN
ASSUME UserChannels \subseteq 0..32 /\ PayloadLen \subseteq 1..65507 /\ MTU \in Nat \ {0}
ASSUME ByteUnit \in Nat \ {0}

\* config.h and types.h
kMTU == MTU
kCongestionInc == kMTU
kCongestionDecFactor == 2
kMinCongestionWindow == kMTU * 2
kReliableUnorderedChannel == 32
\* m_bytes_on_wire is uint32_t.  It is held here in two's complement form:
\* a negative value v stands for the uint32 value 2^32 + v, which is larger
\* than any congestion window (at most INT_MAX).  Sums stay exact mod 2^32.

\* A payload of b bytes in the model's unit (rounded down): the handshake
\* payloads (a u32 sequence number, plus the ok flag in CONNECT_RESPONSE)
\* are a few bytes against a window of 2 * 1500.
Bytes(b) == b \div ByteUnit

Channel == UserChannels \cup {kReliableUnorderedChannel}
Other(n) == CHOOSE o \in Node : o # n

PeerState == {"DISCONNECTED", "CONNECTION_REQUESTED", "CONNECTION_RESPONDED",
              "CONNECTION_ACKNOWLEDGED", "CONNECTED", "DISCONNECT_PENDING"}
Handshaking == {"CONNECTION_REQUESTED", "CONNECTION_RESPONDED", "CONNECTION_ACKNOWLEDGED"}
PacketType == {"CONNECT_REQUEST", "CONNECT_RESPONSE", "CONNECT_ACKNOWLEDGE",
               "CONNECT_COMPLETE", "PROTO_ACK", "PROTO_PING", "PROTO_PONG",
               "DISCONNECT_NOTIFY", "USER_DATA"}
\* Protocol::send_ack: the reliable packets acknowledged by a PROTO_ACK
GenericAcked == {"CONNECT_COMPLETE", "DISCONNECT_NOTIFY", "USER_DATA"}

VARIABLES
    peer,      \* peer[n]: Host n's Peer slot (peer.h)
    sendq,     \* sendq[n]: Host::m_send_queue
    running,   \* running[n]: Host::m_run_threads
    net,       \* every datagram ever sent: one may be delivered any number
               \* of times (duplicated), never (lost), in any order
    \* ghost state, read only by the properties
    session,   \* session[n]: number of sessions host n has started
    bound,     \* bound[n]: pairs <<s, o>>: in session s, n took o for the other's session
    hist,      \* hist[n]: pairs <<s, state>>: n reached state (ACKNOWLEDGED or CONNECTED) in session s
    sends,     \* sends[n]: Host::send calls made by n's application (bound)
    delivered, \* delivered[n][id]: PACKET_RECEIVED events for id (saturating at 2)
    acked      \* acked[n]: ids of n's packets removed from sent_reliable by an ack

vars == <<peer, sendq, running, net, session, bound, hist,
          sends, delivered, acked>>

(***************************************************************************)
(* Records                                                                 *)
(***************************************************************************)
\* A datagram.  arg is the sequence number carried in the payload (the
\* acknowledged one of a PROTO_ACK, the echoed one of a handshake reply);
\* a PROTO_ACK's ch is the channel byte (32 when absent); ep is the
\* sender's session when the packet object was created (ghost).
Msg(src, type, rel, ch, seq, len, arg, ep) ==
    [src |-> src, dst |-> Other(src), type |-> type, rel |-> rel, ch |-> ch,
     seq |-> seq, len |-> len, arg |-> arg, ep |-> ep]

\* Identity of a reliable packet object: sender session, channel, sequence.
Id(ep, ch, seq, type) == [ep |-> ep, ch |-> ch, seq |-> seq, type |-> type]

\* Peer::reset
Reset(p) ==
    [p EXCEPT !.state = "DISCONNECTED", !.incoming = FALSE, !.addr = FALSE,
              !.nextSeq = [c \in Channel |-> 0], !.sent = [c \in Channel |-> <<>>],
              !.cwnd = kMinCongestionWindow, !.bow = 0]

InitPeer == Reset([state |-> "DISCONNECTED", incoming |-> FALSE, addr |-> FALSE,
                   nextSeq |-> <<>>, sent |-> <<>>, cwnd |-> 0, bow |-> 0])

\* Peer::congestion_window_full (uint32 comparison)
WindowFull(p) == p.bow < 0 \/ p.bow >= p.cwnd

(***************************************************************************)
(* One step of the net_worker or of the application acts on a context:    *)
(* the peer p, the send queue q, datagrams out written to the socket, the *)
(* event kinds ev queued, the ids ak acknowledged, the sender session ep. *)
(***************************************************************************)
Ctx(n) == [p |-> peer[n], q |-> sendq[n], out |-> {}, ev |-> {}, ak |-> {},
           ep |-> session[n], n |-> n]

Untrack(q, ch, seq) ==
    [i \in DOMAIN q |-> IF q[i].ch = ch /\ q[i].seq = seq
                        THEN [q[i] EXCEPT !.tracked = FALSE] ELSE q[i]]

UntrackAll(q) == [i \in DOMAIN q |-> [q[i] EXCEPT !.tracked = FALSE]]

\* Peer::reset applied to a context: the queued objects stay in the queue.
ResetCtx(c) == [c EXCEPT !.p = Reset(@), !.q = UntrackAll(@)]

\* Host::send_packet_internal for an unreliable packet sent immediately
Transmit(c, m) ==
    IF c.p.state = "DISCONNECTED" THEN c ELSE [c EXCEPT !.out = @ \cup {m}]

\* Protocol::send of a reliable packet: sequence number, sent_reliable,
\* then Host::queue_outgoing_packet (send_packet_internal when immediate).
SendReliable(c, type, ch, len, arg, immediate) ==
    LET seq  == c.p.nextSeq[ch]
        live == immediate /\ c.p.state # "DISCONNECTED"
        obj  == [type |-> type, seq |-> seq, len |-> len, arg |-> arg, ep |-> c.ep,
                 count |-> IF live THEN 1 ELSE 0, queued |-> ~live]
        item == [type |-> type, ch |-> ch, seq |-> seq, len |-> len, arg |-> arg,
                 ep |-> c.ep, tracked |-> TRUE]
    IN [c EXCEPT !.p.nextSeq[ch] = seq + 1,
                 !.p.sent[ch] = Append(@, obj),
                 !.p.bow = IF live THEN @ + len ELSE @,
                 !.out = IF live THEN @ \cup {Msg(c.n, type, TRUE, ch, seq, len, arg, c.ep)}
                         ELSE @,
                 !.q = IF immediate THEN @ ELSE Append(@, item)]

\* Peer::ack_packet followed by the caller's m_bytes_on_wire decrement.
\* found: the object removed, or the empty set.
AckPacket(c, ch, seq) ==
    LET i == SelectInSeq(c.p.sent[ch], LAMBDA o : o.seq = seq)
        o == c.p.sent[ch][i]
    IN IF i = 0 THEN c
       ELSE [c EXCEPT !.p.sent[ch] = RemoveAt(@, i),
                      !.p.bow = @ - o.len,
                      !.q = Untrack(@, ch, seq),
                      !.ak = @ \cup {Id(o.ep, ch, seq, o.type)}]

AckedObject(c, ch, seq) ==
    LET i == SelectInSeq(c.p.sent[ch], LAMBDA o : o.seq = seq)
    IN IF i = 0 THEN {} ELSE {c.p.sent[ch][i]}

(***************************************************************************)
(* Protocol handlers (protocol.cpp)                                        *)
(***************************************************************************)
\* Mutant: the ack omits the channel byte of an ORDERED packet.
SendAckNoChannel(c, m) ==
    IF m.rel /\ m.type \in GenericAcked
    THEN Transmit(c, Msg(c.n, "PROTO_ACK", FALSE, kReliableUnorderedChannel, 0, 0, m.seq, c.ep))
    ELSE c

\* Protocol::send_ack
SendAck(c, m) ==
    IF m.rel /\ m.type \in GenericAcked
    THEN Transmit(c, Msg(c.n, "PROTO_ACK", FALSE, m.ch, 0, 0, m.seq, c.ep))
    ELSE c

HandlePing(c, m) ==
    IF c.p.state # "CONNECTED" THEN c
    ELSE Transmit(c, Msg(c.n, "PROTO_PONG", FALSE, kReliableUnorderedChannel, 0, 0, 0, c.ep))

\* calculate_rtt only feeds the retransmission timeout (abstracted).
HandlePong(c, m) == c

HandleAck(c, m) ==
    IF c.p.state = "DISCONNECT_PENDING"
    THEN [ResetCtx(c) EXCEPT !.ev = @ \cup {"PEER_DISCONNECTED"}]
    ELSE LET sent == AckedObject(c, m.ch, m.arg)
             c1   == AckPacket(c, m.ch, m.arg)
         IN IF \E o \in sent : o.count = 1
            THEN [c1 EXCEPT !.p.cwnd = IF @ + kCongestionInc > MaxCongestionWindow
                                       THEN MaxCongestionWindow ELSE @ + kCongestionInc]
            ELSE c1

HandleConnectRequest(c, m) ==
    IF c.p.state # "DISCONNECTED" THEN c
    ELSE SendReliable([c EXCEPT !.p.state = "CONNECTION_RESPONDED", !.p.incoming = TRUE,
                                !.ep = @ + 1],
                      "CONNECT_RESPONSE", kReliableUnorderedChannel, Bytes(5), m.seq, FALSE)

\* Mutant: the requester goes straight to CONNECTED on the response.
HandleConnectResponseSkipsAck(c, m) ==
    IF c.p.state # "CONNECTION_REQUESTED" THEN c
    ELSE [AckPacket(c, kReliableUnorderedChannel, m.arg)
            EXCEPT !.p.state = "CONNECTED", !.ev = @ \cup {"PEER_CONNECTED"}]

\* The response's ok flag is always written true by handle_connect_request.
HandleConnectResponse(c, m) ==
    IF c.p.state # "CONNECTION_REQUESTED" THEN c
    ELSE SendReliable([AckPacket(c, kReliableUnorderedChannel, m.arg)
                         EXCEPT !.p.state = "CONNECTION_ACKNOWLEDGED"],
                      "CONNECT_ACKNOWLEDGE", kReliableUnorderedChannel, Bytes(4), m.seq, TRUE)

\* Mutant: the responder connects without sending CONNECT_COMPLETE.
HandleConnectAcknowledgeNoComplete(c, m) ==
    IF c.p.state # "CONNECTION_RESPONDED" THEN c
    ELSE [AckPacket(c, kReliableUnorderedChannel, m.arg)
            EXCEPT !.p.state = "CONNECTED", !.ev = @ \cup {"PEER_CONNECTED"}]

HandleConnectAcknowledge(c, m) ==
    IF c.p.state # "CONNECTION_RESPONDED" THEN c
    ELSE [SendReliable([AckPacket(c, kReliableUnorderedChannel, m.arg)
                          EXCEPT !.p.state = "CONNECTED"],
                       "CONNECT_COMPLETE", kReliableUnorderedChannel, Bytes(4), m.seq, TRUE)
          EXCEPT !.ev = @ \cup {"PEER_CONNECTED"}]

HandleConnectComplete(c, m) ==
    IF c.p.state # "CONNECTION_ACKNOWLEDGED" THEN c
    ELSE [AckPacket(c, kReliableUnorderedChannel, m.arg)
            EXCEPT !.p.state = "CONNECTED", !.ev = @ \cup {"PEER_CONNECTED"}]

HandleDisconnectNotify(c, m) ==
    IF c.p.state # "CONNECTED" THEN c
    ELSE [ResetCtx(c) EXCEPT !.ev = @ \cup {"PEER_DISCONNECTED"}]

HandleUserData(c, m) ==
    IF c.p.state # "CONNECTED" \/ m.len = 0 THEN c
    ELSE [c EXCEPT !.ev = @ \cup {"PACKET_RECEIVED"}]

\* Protocol::handle_message for one datagram (one packet per datagram)
HandleMessage(c, m) ==
    LET a == SendAck(c, m)
    IN CASE m.type = "PROTO_PING"          -> HandlePing(a, m)
         [] m.type = "PROTO_PONG"          -> HandlePong(a, m)
         [] m.type = "PROTO_ACK"           -> HandleAck(a, m)
         [] m.type = "CONNECT_REQUEST"     -> HandleConnectRequest(a, m)
         [] m.type = "CONNECT_RESPONSE"    -> HandleConnectResponse(a, m)
         [] m.type = "CONNECT_ACKNOWLEDGE" -> HandleConnectAcknowledge(a, m)
         [] m.type = "CONNECT_COMPLETE"    -> HandleConnectComplete(a, m)
         [] m.type = "DISCONNECT_NOTIFY"   -> HandleDisconnectNotify(a, m)
         [] m.type = "USER_DATA"           -> HandleUserData(a, m)

(***************************************************************************)
(* Periodic service: Protocol::update and Protocol::do_resends             *)
(***************************************************************************)
\* Mutant: the congestion window decrease without the kMinCongestionWindow floor.
HalveNoFloor(w) == w \div kCongestionDecFactor

\* Retransmissions trigger a congestion window decrease (floored).
Halve(w) == IF w \div kCongestionDecFactor < kMinCongestionWindow
            THEN kMinCongestionWindow ELSE w \div kCongestionDecFactor

\* Mutant: do_resends without the !m_send_queued test.
ResendableAll(p) == UNION {{<<ch, i>> : i \in DOMAIN p.sent[ch]} : ch \in Channel}

\* In-flight packets not currently queued for send: <<channel, index>>.
Resendable(p) ==
    UNION {{<<ch, i>> : i \in {j \in DOMAIN p.sent[ch] : ~p.sent[ch][j].queued}} : ch \in Channel}

\* The packet do_resends reaches first: lowest channel, then list order.
FirstInOrder(todo) ==
    CHOOSE x \in todo : \A y \in todo : x[1] < y[1] \/ (x[1] = y[1] /\ x[2] <= y[2])

\* do_resends over the set todo of expired packets, in channel and list order
RECURSIVE Resend(_, _)
Resend(c, todo) ==
    IF todo = {} THEN c
    ELSE LET x  == FirstInOrder(todo)
             ch == x[1]
             o  == c.p.sent[ch][x[2]]
         IN Resend([c EXCEPT !.p.cwnd = Halve(@),
                             !.p.sent[ch][x[2]].queued = TRUE,
                             !.q = Append(@, [type |-> o.type, ch |-> ch, seq |-> o.seq,
                                              len |-> o.len, arg |-> o.arg, ep |-> o.ep,
                                              tracked |-> TRUE])],
                   todo \ {x})

\* do_resends: the packets in expired whose RTO passed.
DoResends(c, expired) == Resend(c, expired)

\* Protocol::service_rtt: the keep-alive PROTO_PING (unreliable, immediate)
ServiceRtt(c) ==
    Transmit(c, Msg(c.n, "PROTO_PING", FALSE, kReliableUnorderedChannel, 0, 0, 0, c.ep))

\* Protocol::update for one peer: timedOut is the connect or peer timeout
\* check, ping the keep-alive check, expired the packets whose RTO passed.
Update(c, timedOut, ping, expired) ==
    CASE c.p.state \in Handshaking /\ timedOut ->
            [ResetCtx(c) EXCEPT !.ev = IF c.p.incoming THEN @ ELSE @ \cup {"PEER_UNABLE_TO_CONNECT"}]
      [] c.p.state \in Handshaking ->
            DoResends(c, expired)
      [] c.p.state = "CONNECTED" /\ timedOut ->
            \* the keep-alive and do_resends that follow act on the reset peer
            [ResetCtx(c) EXCEPT !.ev = @ \cup {"PEER_TIMED_OUT"}]
      [] c.p.state = "CONNECTED" ->
            DoResends(IF ping THEN ServiceRtt(c) ELSE c, expired)
      [] OTHER -> c

(***************************************************************************)
(* Send queue drain in Host::net_worker with send_packet_internal          *)
(***************************************************************************)
\* Mutant: send_packet_internal without the m_bytes_on_wire increment.
SendQueuedNoBytes(c, it) ==
    IF c.p.state = "DISCONNECTED" THEN c
    ELSE LET i == SelectInSeq(c.p.sent[it.ch], LAMBDA o : o.seq = it.seq)
         IN [c EXCEPT !.p.sent[it.ch] =
                          IF it.tracked
                          THEN [@ EXCEPT ![i].count = IF @ < 2 THEN @ + 1 ELSE 2,
                                         ![i].queued = FALSE]
                          ELSE @,
                      !.out = @ \cup {Msg(c.n, it.type, TRUE, it.ch, it.seq, it.len, it.arg, it.ep)}]

\* Host::send_packet_internal for a packet taken from the send queue
SendQueued(c, it) ==
    IF c.p.state = "DISCONNECTED" THEN c
    ELSE LET i == SelectInSeq(c.p.sent[it.ch], LAMBDA o : o.seq = it.seq)
         IN [c EXCEPT !.p.bow = @ + it.len,
                      !.p.sent[it.ch] =
                          IF it.tracked
                          THEN [@ EXCEPT ![i].count = IF @ < 2 THEN @ + 1 ELSE 2,
                                         ![i].queued = FALSE]
                          ELSE @,
                      !.out = @ \cup {Msg(c.n, it.type, TRUE, it.ch, it.seq, it.len, it.arg, it.ep)}]

RECURSIVE Drain(_, _, _)
Drain(c, kept, todo) ==
    IF todo = <<>> THEN [c EXCEPT !.q = kept]
    ELSE IF WindowFull(c.p)
         THEN Drain(c, Append(kept, Head(todo)), Tail(todo))
         ELSE Drain(SendQueued(c, Head(todo)), kept, Tail(todo))

(***************************************************************************)
(* Actions                                                                 *)
(***************************************************************************)
\* Write a context back: the peer, the send queue, the socket, the ghosts.
Commit(n, c) ==
    /\ peer' = [peer EXCEPT ![n] = c.p]
    /\ sendq' = [sendq EXCEPT ![n] = c.q]
    /\ net' = net \cup c.out
    /\ session' = [session EXCEPT ![n] = c.ep]
    /\ acked' = [acked EXCEPT ![n] = @ \cup c.ak]
    /\ hist' = [hist EXCEPT ![n] = IF c.p.state \in {"CONNECTION_ACKNOWLEDGED", "CONNECTED"}
                                   THEN @ \cup {<<c.ep, c.p.state>>} ELSE @]

\* The session bound: a host starts at most MaxSessions sessions.
SessionBudget(n) == session[n] < MaxSessions

\* Host::find_available_peer: a DISCONNECTED slot takes the remote address.
ClaimSlot(c) == [c EXCEPT !.p.addr = TRUE]

\* Protocol::connect (a new session starts)
ProtocolConnect(c) ==
    SendReliable([c EXCEPT !.ep = @ + 1, !.p.state = "CONNECTION_REQUESTED"],
                 "CONNECT_REQUEST", kReliableUnorderedChannel, 0, 0, TRUE)

\* Protocol::disconnect: DISCONNECT_NOTIFY to a CONNECTED peer
ProtocolDisconnect(c) ==
    IF c.p.state # "CONNECTED" THEN c
    ELSE SendReliable(c, "DISCONNECT_NOTIFY", kReliableUnorderedChannel, 0, 0, TRUE)

\* Host::connect: find_available_peer, then Protocol::connect
Connect(n) ==
    /\ running[n] /\ n \in Connectors
    /\ peer[n].state = "DISCONNECTED"
    /\ SessionBudget(n)
    /\ Commit(n, ProtocolConnect(ClaimSlot(Ctx(n))))
    /\ UNCHANGED <<running, bound, sends, delivered>>

\* Host::send of a RELIABLE (and, on channels 0..31, ORDERED) user packet:
\* find_peer_by_address matches the slot's address whatever its state.
Send(n, ch, len) ==
    /\ running[n] /\ n \in Senders /\ sends[n] < MaxSends
    /\ AppWaitsConnected => peer[n].state = "CONNECTED"
    /\ peer[n].addr
    /\ Commit(n, SendReliable(Ctx(n), "USER_DATA", ch, len, 0, FALSE))
    /\ sends' = [sends EXCEPT ![n] = @ + 1]
    /\ UNCHANGED <<running, bound, delivered>>

\* Host::shutdown: Protocol::disconnect of a CONNECTED peer, reset, stop.
Shutdown(n) ==
    /\ running[n] /\ n \in Stoppers
    /\ Commit(n, ResetCtx(ProtocolDisconnect(Ctx(n))))
    /\ running' = [running EXCEPT ![n] = FALSE]
    /\ UNCHANGED <<bound, sends, delivered>>

\* recv_worker queues a datagram m from the socket and net_worker takes it
\* out of m_recv_queue: Host::receive_message, then Protocol::handle_message.
\* Only the order of these steps matters (see the module header), so the
\* datagram is taken from the network when the worker processes it.  The
\* slot is found by address, else claimed by find_available_peer (it is
\* DISCONNECTED whenever its address is clear, so with one remote host the
\* "no connections available" return cannot happen).
ReceiveMsg(n, m) ==
    /\ running[n]
    /\ m.dst = n
    /\ m.type = "CONNECT_REQUEST" /\ peer[n].state = "DISCONNECTED" => SessionBudget(n)
    /\ LET c  == HandleMessage(ClaimSlot(Ctx(n)), m)
           id == Id(m.ep, m.ch, m.seq, m.type)
       IN /\ Commit(n, c)
          /\ bound' = [bound EXCEPT ![n] =
                         IF /\ c.p.state # peer[n].state
                            /\ c.p.state \in {"CONNECTION_RESPONDED", "CONNECTION_ACKNOWLEDGED"}
                         THEN @ \cup {<<c.ep, m.ep>>} ELSE @]
          /\ delivered' = [delivered EXCEPT ![n] =
                             IF "PACKET_RECEIVED" \notin c.ev THEN @
                             ELSE IF id \in DOMAIN @ THEN [@ EXCEPT ![id] = 2]
                             ELSE (id :> 1) @@ @]
    /\ UNCHANGED <<running, sends>>

Receive(n) == \E m \in net : ReceiveMsg(n, m)

\* One pass of net_worker after its inbound batch: drain the send queue under
\* congestion gating, then Protocol::update of the peer if not DISCONNECTED.
\* timedOut: the connect or peer timeout fired; ping: the keep-alive is due;
\* expired: the in-flight packets whose RTO passed.
Tick(n) ==
    /\ running[n]
    /\ LET d == Drain(Ctx(n), <<>>, sendq[n])
       IN \E timedOut \in Timeouts, ping \in BOOLEAN, expired \in SUBSET Resendable(d.p) :
            Commit(n, Update(d, timedOut, ping, expired))
    /\ UNCHANGED <<running, bound, sends, delivered>>

\* Both hosts have shut down.
Terminated ==
    /\ \A n \in Node : ~running[n]
    /\ UNCHANGED vars

Init ==
    /\ peer = [n \in Node |-> InitPeer]
    /\ sendq = [n \in Node |-> <<>>]
    /\ running = [n \in Node |-> TRUE]
    /\ net = {}
    /\ session = [n \in Node |-> 0]
    /\ bound = [n \in Node |-> {}]
    /\ hist = [n \in Node |-> {}]
    /\ sends = [n \in Node |-> 0]
    /\ delivered = [n \in Node |-> <<>>]
    /\ acked = [n \in Node |-> {}]

Next ==
    \/ \E n \in Node :
          \/ Connect(n)
          \/ \E ch \in UserChannels, len \in PayloadLen : Send(n, ch, len)
          \/ Shutdown(n)
          \/ Receive(n)
          \/ Tick(n)
    \/ Terminated

Spec == Init /\ [][Next]_vars

(***************************************************************************)
(* Properties                                                              *)
(***************************************************************************)
InFlight == [type: PacketType, seq: Nat, len: Nat, arg: Nat, ep: Nat,
             count: 0..2, queued: BOOLEAN]
QueueItem == [type: PacketType, ch: Channel, seq: Nat, len: Nat, arg: Nat, ep: Nat,
              tracked: BOOLEAN]

TypeOK ==
    /\ \A n \in Node :
          /\ peer[n].state \in PeerState
          /\ peer[n].incoming \in BOOLEAN /\ peer[n].addr \in BOOLEAN
          /\ peer[n].nextSeq \in [Channel -> Nat]
          /\ \A ch \in Channel : peer[n].sent[ch] \in Seq(InFlight)
          /\ peer[n].cwnd \in kMinCongestionWindow..MaxCongestionWindow
          /\ peer[n].bow \in Int
          /\ sendq[n] \in Seq(QueueItem)
          /\ session[n] \in 0..MaxSessions
          /\ bound[n] \subseteq (1..MaxSessions) \X (1..MaxSessions)
    /\ \A m \in net : m.type \in PacketType /\ m.dst = Other(m.src)

\* The in-flight packet objects of n on channel ch carrying sequence seq
InFlightWith(n, ch, seq) ==
    {i \in DOMAIN peer[n].sent[ch] : peer[n].sent[ch][i].seq = seq}

\* Bytes of the in-flight packets of p that send_packet_internal has sent
SentBytes(p) ==
    MapThenSumSet(LAMBDA ch : FoldSeq(LAMBDA o, acc : IF o.count >= 1 THEN acc + o.len ELSE acc,
                                      0, p.sent[ch]),
                  Channel)

\* The m_send_queued flag protocol of do_resends and the send-queue drain:
\* a packet object still in sent_reliable is in m_send_queue at most once,
\* and only while its m_send_queued flag is set (do_resends re-queues only
\* packets whose flag is clear; send_packet_internal clears it on sending).
NoDoubleQueue ==
    \A n \in Node : \A i \in DOMAIN sendq[n] :
        LET it == sendq[n][i]
        IN it.tracked =>
             /\ \A j \in InFlightWith(n, it.ch, it.seq) : peer[n].sent[it.ch][j].queued
             /\ \A k \in DOMAIN sendq[n] :
                  k # i /\ sendq[n][k].tracked => <<sendq[n][k].ch, sendq[n][k].seq>> # <<it.ch, it.seq>>

\* Congestion accounting (send_packet_internal adds data_len, handle_ack
\* subtracts it): m_bytes_on_wire never wraps below zero and covers the
\* bytes of every reliable packet that has been sent and not yet acked.
BytesOnWireCoversInFlight ==
    \A n \in Node : peer[n].bow >= SentBytes(peer[n])

\* The handshake binds two sessions: a CONNECTED host took some session o
\* of the other host for its partner, that session took this one for its
\* partner, and reached CONNECTED (for the accepting side's partner) or
\* CONNECTION_ACKNOWLEDGED (for the requesting side's partner).  The
\* handshake handlers check only the peer state and handle_connect_response
\* never compares the echoed sequence number.
HandshakeBinding ==
    \A n \in Node : peer[n].state = "CONNECTED" =>
        \E o \in 1..MaxSessions :
            /\ <<session[n], o>> \in bound[n]
            /\ <<o, session[n]>> \in bound[Other(n)]
            /\ <<o, IF peer[n].incoming THEN "CONNECTION_ACKNOWLEDGED" ELSE "CONNECTED">>
                 \in hist[Other(n)]

\* A reliable user packet that its sender saw acknowledged reached the
\* receiving application as a PACKET_RECEIVED event (send_ack acknowledges
\* before handle_user_data checks that the peer is CONNECTED).
AckedImpliesDelivered ==
    \A n \in Node : \A id \in acked[n] :
        id.type = "USER_DATA" => id \in DOMAIN delivered[Other(n)]

\* Reliable delivery with TCP-like guarantees (spec.md section 1): each
\* reliable user packet raises PACKET_RECEIVED once, and on the ordered
\* channels 0..31 only after every earlier packet of its session and
\* channel.  handle_user_data raises the event for every copy that arrives
\* while CONNECTED; nothing on the receive path tracks sequence numbers.
SequencedDelivery ==
    [][\A n \in Node : \A id \in DOMAIN delivered'[n] :
          /\ delivered'[n][id] = 1
          /\ id \notin DOMAIN delivered[n] /\ id.ch # kReliableUnorderedChannel =>
                \A s \in 0..(id.seq - 1) : [id EXCEPT !.seq = s] \in DOMAIN delivered[n]]_vars

\* m_bytes_on_wire equals the bytes of the in-flight reliable packets that
\* have been sent, each counted once (send_packet_internal adds data_len at
\* every retransmission, handle_ack subtracts it once).
BytesOnWireExact ==
    \A n \in Node : peer[n].bow = SentBytes(peer[n])
====
