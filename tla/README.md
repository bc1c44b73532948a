# TLA+ models of chatter

chatter is a reliable, congestion-controlled messaging protocol over UDP
(`src/src`, `src/include/chatter`). This directory holds the TLA+ modules
that model it, the TLC configurations that check them, and `PROJECT.json`,
which lists the components, runs, mutants, the definition-to-source map,
the findings and the hazards.

## The system

| Part | Source | State | Operations |
|---|---|---|---|
| Wire packet | `packet.cpp/h` | 16-bit command word (type, flags, channel), sequence number, payload buffer, read cursor | pack/unpack, typed `write`/`read` (silent short read), `read_raw` |
| Peer | `peer.cpp/h` | connection state, address, `is_incoming`, timestamps, RTT average/deviation (uint16), congestion window and bytes on wire (uint32), 33 channels (next sequence, `sent_reliable` list) | `ack_packet`, `reset`, `get_rto`, `congestion_window_full` |
| Protocol | `protocol.cpp/h` | none of its own: it drives the Peer | `send`, `connect`, `disconnect`, `handle_message` and one handler per packet type, `send_ack`, `update`, `do_resends`, `service_rtt`, `calculate_rtt`, `limit_rto` |
| Host | `host.cpp/h` | peer table, inbound queue, send queue, event queue, two threads | `start`, `connect`, `send`, `shutdown`, `get_event`, `net_worker`, `recv_worker`, `send_packet_internal` |
| Events | `event.h` | kind, address, packet | queued by handlers, read by the application |
| Socket shim | `unix.cpp` | none | byte-order helpers (modelled), socket calls (their size limits modelled) |
| Addresses, listener, packet pool | `hostaddress.cpp`, `ipaddress.cpp`, `packet_listener.cpp`, `packetpool.h` | value objects, logging, an unused stub | not modelled |

How they interact: `recv_worker` blocks on the socket and pushes each
datagram into the inbound queue. `net_worker` loops forever. Each pass
hands every queued datagram to `Host::receive_message`, which finds the
peer slot by address (or claims a DISCONNECTED one) and calls
`Protocol::handle_message`. That acks reliable packets and runs the
handler for the type. The pass then drains the send queue, skipping
packets whose peer's congestion window is full, and calls
`Protocol::update` for every peer that is not DISCONNECTED. `update`
handles the connect and idle timeouts, the keep-alive ping and
retransmission. The application thread calls `connect`, `send` and
`shutdown` directly on the same peer slots, without a lock.

A reliable packet object is shared: it sits in its channel's
`sent_reliable` list until acked, and also in the send queue while it
waits to be sent or re-sent. The `m_send_queued` flag records that second
membership.

## What makes it hard

- The network loses, duplicates and reorders datagrams. The handshake has
  four messages (REQUEST, RESPONSE, ACKNOWLEDGE, COMPLETE) and generic acks
  (PROTO_ACK), and every handler must cope with any of them arriving in
  any state.
- Timers fire on both hosts independently. The connect timeout, idle
  timeout, keep-alive and per-packet RTO race with late answers.
- Congestion accounting (`m_bytes_on_wire` against `m_congestion_window`)
  is spread over `send_packet_internal`, `handle_ack` and the three
  handshake handlers.
- Sessions reuse sequence numbers: `Peer::reset` restarts them at 0, so a
  delayed packet of a previous session looks current.
- The application thread and `net_worker` share the peer table without a
  lock. A slot found by one thread can be claimed or reset by the other
  before it is used.

## Modules

### ChatterProtocol (Protocol, Peer and Host with two hosts)

Two hosts (`Node`), each with one peer slot for the other.

The state variables:
- `peer[n]` is the slot: state, `incoming`, `addr` (address set or
  cleared), `nextSeq`, `sent` (the `sent_reliable` lists of in-flight
  records with `count` (send count, saturating at 2) and `queued`),
  `cwnd` and `bow`.
- `sendq[n]` is `m_send_queue`. An item is `tracked` while its packet
  object is still in `sent_reliable`, so that `send_packet_internal` can
  update that object.
- `running[n]` is `m_run_threads`.
- `net` is the set of every datagram ever sent.

Receiving a datagram does not remove it from `net`, so it may be
delivered any number of times, never, or in any order. That models loss,
duplication and reordering without extra actions.

`m_bytes_on_wire` is a uint32. It is kept in two's-complement form: a
negative value stands for the wrapped value near 2^32, which is larger than
any window. This makes `congestion_window_full` exact.

Actions:

| Action | Code |
|---|---|
| `Connect(n)` | `Host::connect` → `find_available_peer` (`ClaimSlot`) → `Protocol::connect` (`ProtocolConnect`) |
| `Send(n, ch, len)` | `Host::send` → `find_peer_by_address` (any state) → `Protocol::send` (`SendReliable`) of a reliable user packet |
| `Shutdown(n)` | `Host::shutdown`: `Protocol::disconnect` of a CONNECTED peer, `Peer::reset`, stop the threads |
| `Receive(n)` = `ReceiveMsg(n, m)` for some `m` | one datagram of `net_worker`'s batch: `recv_worker` + `Host::receive_message` + `Protocol::handle_message` (`SendAck`, then `HandlePing` … `HandleUserData`) |
| `Tick(n)` | one `net_worker` pass after its inbound batch: the send-queue drain (`Drain`/`SendQueued`), then `Protocol::update` (`Update`, `ServiceRtt`, `DoResends`/`Resend`) |
| `Terminated` | both hosts shut down |

A handler is an operator on a context record: the peer, the send queue,
the datagrams written, the events raised and the packets acked. A whole
handler, with every call it makes, is therefore one step.

Abstractions:

- **Clock.** Each timer comparison in `update` and `do_resends` is a
  nondeterministic choice made at every `Tick`. This covers the connect
  and idle timeouts, keep-alive due, and the RTO expiry of each in-flight
  packet not queued. Because network delay is unbounded, every expiry
  order is possible. RTT samples only feed the RTO, so `calculate_rtt`
  and `get_rto` are abstracted with it here; their arithmetic is the
  module RttEstimator.
- **Worker loop.** `Receive` and `Tick` may interleave freely, and every
  such interleaving is a run of the loop: consecutive `Receive`s form one
  batch, and a `Tick` with no `Receive` before it follows an empty batch.
  `recv_worker`'s push only decides when a datagram can be processed, so
  `Receive` takes the datagram from `net`. Acks processed in a batch are
  still seen by the `update` of the same pass, as the spec requires.
- **Threads.** Each step of a thread is atomic. The application's
  unsynchronised accesses are listed as hazards, not split into smaller
  steps yet.
- **Packets.** One packet per datagram, as `parse_message` does. A
  datagram is a record of the fields the protocol reads: type, reliable,
  channel, sequence, payload length and the echoed sequence `arg`.
  Payload lengths follow the code: the response is 5 bytes (seq + bool),
  the acknowledge and complete are 4, request and notify are 0. They are
  divided by the constant `ByteUnit`, the bytes per unit of the model's
  lengths, MTU and window (1 in the safety runs, 750 in the liveness runs,
  where a 4-byte reply against a 3000-byte window rounds to 0).
- **Data.** `kMTU` is the constant `MTU`, scaled down from 1500 (the
  window floor is 2·MTU, the increment 1·MTU). The
  `kMaxCongestionWindow` cap is `MaxCongestionWindow`, so the window can
  fill and hit its cap within a few packets.

Ghost variables, read only by the properties:
- `session[n]` counts the host's sessions.
- `bound[n]` records which session of the other host a session took for
  its partner.
- `hist[n]` records the ACKNOWLEDGED or CONNECTED states reached per
  session.
- `delivered[n]` counts PACKET_RECEIVED events per packet id.
- `acked[n]` holds the ids removed from `sent_reliable` by an ack.
- `sends[n]` bounds `Host::send` calls.

Constants:
- `Connectors`, `Senders` and `Stoppers` choose which applications call
  `connect`, `send` and `shutdown`.
- `AppWaitsConnected` restricts `send` to a CONNECTED peer, as
  `examples/main.cpp` does after PEER_CONNECTED.
- `MaxSends` and `MaxSessions` are the bounds.

### ChatterLive (progress of ChatterProtocol)

`ChatterLive` extends `ChatterProtocol` with one ghost variable, `seen[n]`:
the datagrams host n has taken from the network at least once.
`Deliver(n, m)` is `ReceiveMsg` plus that record, and `DeliverFresh(n)`
delivers a datagram not seen yet. `LiveSpec` adds fairness:

- `WF(Tick(n))`. `net_worker` loops while `m_run_threads` is set and
  waits at most 10 ms for the inbound queue (`host.cpp` 179-188), so a
  running host's pass always comes again.
- `WF(DeliverFresh(n))`. This is the network assumption of spec §8
  ("no loss"): every datagram sent is delivered at least once.
  Duplicates and reordering are still possible, because `Deliver` of a
  datagram already seen stays in the next-state relation.
- `WF(Connect(n))` for the hosts in `Connectors`. `examples/main.cpp`
  calls `connect` at start.
- `Timeouts = {FALSE}` in these runs. Delays stay below
  `kConnectTimeout` and the idle timeout. Retransmissions stay
  unconstrained: any RTO may expire at any pass.

### PacketHeader (the wire form of one datagram)

`sent` records the fields a sender gave a packet. `rx` is what the
receiver's `parse_message` made of the datagram.

The operators are `packet.cpp`'s accessors on the 16-bit command word,
with the masks and shifts of `packet.h` (Bitwise module):
- `SetType`/`GetType`, `SetFlag`/`HasFlag`, `SetChannel`/`GetChannel`,
  `NewPacket`;
- `ReadRaw`: the command word, a big-endian sequence number iff RELIABLE,
  then the payload;
- `NetBytes`/`HostValue`: the byte-order helpers of `unix.cpp`;
- `ParseMessage`: `Protocol::parse_message`.

`Receive` is `recv_worker`'s `recvfrom` into `RecvMsg::msg`. The bytes
after the datagram are the uninitialised rest of a fresh stack object,
so they are a nondeterministic choice over `JunkBytes`.

Actions, one datagram at a time:
- `SendPacket`: a packet built by the library;
- `Foreign`: any other datagram;
- `Handled`: the receive loop moves on.

`kMTU` and `kMaxUDPPayloadSize` are constants, scaled down with the
payload lengths.

### PacketPayload and ScalarStream (typed payload and its promise)

`PacketPayload` is the payload byte buffer with its read cursor.
- `Write(k, v)` is the typed `write` overload. It appends `Encode(k, v)`:
  the value's bytes in network order (`NetBytes`), and a bool as 1 or 0.
- `Read(k)` is the typed `read`. It checks `check_bounds`, and then
  either decodes (`Decode`: `HostValue`, two's complement for signed
  kinds) and advances the cursor, or leaves the caller's variable and
  the cursor as they were.
- `layout` records the kinds written, so a read follows the layout, as
  every reader in `protocol.cpp` does.

`ScalarStream` is the abstract promise: a sequence of typed items
written in order and read back in order, where a read at the end leaves
the caller's variable unchanged. `PacketPayload` instantiates it with
the refinement mapping
`items <- Written, next <- Consumed`:
- `Written` decodes the buffer item by item at the offsets of `layout`;
- `Consumed` counts the items wholly before the cursor.

`StreamRefinement` (`Stream!Spec`) is checked as a property.

### RttEstimator (RTT average, deviation and retransmission timeout)

The state is one peer's `m_rtt_avg` and `m_rtt_dev`, both uint16, and
the `m_rto` of one packet. The actions are:
- `ConnectSample`: the handshake handlers set the average to the time
  since connect.
- `Sample`: `calculate_rtt`, from `handle_pong` or the ack of a packet
  sent once.
- `Send`: `limit_rto(get_rto())` in `Protocol::send`.
- `Resend`: the doubling in `do_resends`.
- `Reset`: `Peer::reset`.

The arithmetic follows the C++ types:
- The error is a uint64 difference converted to float. When the sample
  is the smaller, it rounds to 2^64.
- `get_rto` wraps at 2^16.
- The cast of a negative float to uint64 is undefined behaviour. It is a
  choice between the outcomes of x86-64 builds (wrap) and AArch64 builds
  (saturate to 0).

### HostPeerTable (the peer table shared by two threads)

`Host` keeps its peers in `m_peers`, one slot per connection. Two threads
use the slots without a lock:
- The application thread calls `Host::connect` and `Host::send`.
- `net_worker` runs `receive_message` and `Protocol::handle_message`, then
  the send-queue drain, then `Protocol::update` of every slot.

Only the three queues are guarded by mutexes. The state is:
- `slot[i]`: the slot's state, `m_is_incoming_connection` and `m_address`;
- `sendq`: the send queue, entries of a slot and a packet type;
- `app` and `netw`: each thread's program counter and the slot it holds;
- `evq`: `m_event_queue`. Handlers and `Protocol::update` append the
  events they create (`Host::queue_event`), and `GetEvent` is
  `Host::get_event`.

Each thread is split where the code finds a slot and later acts on it:
- `ConnectFind` is `find_available_peer`, and `ConnectProtocol` is
  `Protocol::connect`.
- `SendFind` is `find_peer_by_address`, and `SendProtocol` is
  `Protocol::send`.
- `ReceiveFind` is `receive_message`'s lookup or claim, and `ReceiveHandle`
  is `handle_message` with the handlers (`HandleMessage`).

`net_worker`'s loop has three phases: the inbound batch (`ReceiveFind` and
`ReceiveHandle`), `DrainSendQueue`, then `Update(1)` to `Update(N)`. The
protocol is abstracted to what decides where datagrams and events go: the
state and the address. The congestion gate of the drain is a choice of
the CONNECTED slots whose window is full. Sequence numbers, acks and
retransmission are in ChatterProtocol.

`Peer::reset` assigns `HostAddress()`. That constructor builds and drops a
temporary, so the address it leaves is indeterminate. `ResetValues(old)`
is the choice between the old address (the copy elided) and `ResetAddr`.
The initial address is drawn from `ResetAddr`, because the `Peer`
constructor calls `reset`.

Remote hosts are an environment that may send any datagram type at any
time. Ghost state records, for each datagram written (`wire`) and each
event queued (`events`), the remote it is meant for. `owner[i]` is the
remote of slot `i`'s session. `AddressIntegrity` says that every datagram
goes to, and every event names, the remote it is meant for.

### ExampleApp (examples/main.cpp on top of HostPeerTable)

ExampleApp composes the example program with HostPeerTable. `main` is
the application thread, and HostPeerTable's net_worker actions run
beside it unchanged. The state adds `main` (the program's place in its
loop) and `hostAddress` (its local `host_address`).
- `MainStart`: a client's `host.connect(server)` right after
  `host.start`. The network threads already run at that point.
- `MainSend`: the top of the loop. The client calls
  `host.send(host_address, p)` when the address part is not zero.
- `MainEvent`: one turn of the `get_event` loop. PEER_CONNECTED sets
  `host_address`. The server answers PACKET_RECEIVED with `MainEcho`,
  which is `host.send(e->address, p)`.

`host_address` is default-constructed, so it starts indeterminate, like
a slot's address, and is drawn from `ResetAddr`. `host.shutdown()` follows
`while (1)` and is unreachable.

## Runs

`MC_ChatterProtocol.tla` and `MC_ChatterLive.tla` define a client and a
server; only the client connects. The safety configurations use user
channel 2 and the unordered channel 32, MTU 4 (window 8..12), payload 4,
`ByteUnit` 1 and `Timeouts = {FALSE, TRUE}`.

| Run | Config | Expect | What it shows |
|---|---|---|---|
| core | `MC_Core.cfg` | pass | One session per host, one client user packet, either host may shut down at any time. `TypeOK`; `NoDoubleQueue` (a packet object is in the send queue at most once, and only while its `m_send_queued` flag is set); `BytesOnWireCoversInFlight` (bytes on wire never wraps and covers every sent, unacked reliable packet); `HandshakeBinding` (a CONNECTED host's partner session bound back to it and reached CONNECTED, or ACKNOWLEDGED for the requester). 264k distinct states, about 1 minute. |
| acked_not_delivered | `MC_AckedNotDelivered.cfg` | violation | `AckedImpliesDelivered`. The server sends right after PEER_CONNECTED. The packet overtakes CONNECT_COMPLETE, and the client, still ACKNOWLEDGED, acks it and drops it. The sender never retransmits: reliable data is lost. |
| bytes_leak | `MC_BytesLeak.cfg` | violation | `BytesOnWireExact`. One retransmission counts the packet twice in `m_bytes_on_wire`. The ack subtracts it once. |
| sequencing | `MC_Sequencing.cfg` | violation | `SequencedDelivery` (action property: each reliable user packet is delivered once, and on an ordered channel after its predecessors). Packet 1 of channel 2 reaches the application before packet 0. Copies are delivered again for the same reason: the receive path keeps no sequence state. |
| host_race | `MC_HostRace.cfg` (`MC_ExampleApp.tla`) | violation | `AddressIntegrity`. The example client has one slot and connects to `ra` right after `start`, while `rb` sends a datagram. `find_available_peer` writes `ra` into the DISCONNECTED slot. net_worker's `receive_message` then finds the slot still DISCONNECTED and overwrites the address with `rb`. `Protocol::connect` sends the CONNECT_REQUEST for `ra` to `rb`, three steps after start. |
| stale_ack_bytes | `MC_StaleAckBytes.cfg` | violation | `BytesOnWireCoversInFlight` with two sessions. After a reconnect, the client's CONNECT_ACKNOWLEDGE answering the server's old response acks the server's new, still-queued response (same channel and sequence 0). `m_bytes_on_wire` wraps, and the server's window is full for the rest of the connection. |
| liveness | `MC_Liveness.cfg` | pass | `LiveSpec`. `HandshakeCompletes` (both peers reach CONNECTED and stay there) and `ReliableDelivery` (a reliable packet the client sends after connecting is eventually acknowledged). Both hold under any pattern of spurious retransmissions and duplicates. 5.9k distinct states, about 2 minutes. |
| header | `MC_Header.cfg` | pass | `HeaderRoundTrip`. For every type 0..8, every flag word (including bits above the six-bit field), channels inside and outside 0..31, and sequence numbers with distinct bytes, the receiver's `get_type`/`has_flag`/`get_channel` and parse recover the reference unpacking of spec §3. That reference is: six flag bits, the channel clamped to 31 when ORDERED and 32 otherwise, and the sequence number iff RELIABLE. 3.2k states. |
| short_datagram | `MC_ShortDatagram.cfg` | violation | `ParseWithinDatagram`. A 2-byte datagram whose command word has RELIABLE set is parsed with a sequence number taken from the uninitialised bytes after it. |
| recv_overflow | `MC_RecvOverflow.cfg` | violation | `RecvFitsBuffer`. A library packet longer than `kMTU` is accepted by `recvfrom` (told the buffer holds `kMaxUDPPayloadSize`) into the `kMTU`-byte `RecvMsg::msg`. |
| rtt_average | `MC_RttAverage.cfg` | violation | `EstimatorTracksSamples` (action property: a sample moves the average and the deviation toward it). A 400 ms handshake sample, then a 20 ms round trip: the average stays at 400, because `calculate_rtt` subtracts in uint64 and a smaller sample becomes a float near 2^64 whose increments vanish in the uint16 fields. |
| payload | `MC_Payload.cfg` | pass | `TypeOK`; `StreamRefinement`. Writes and reads of bool, u8, i16, u32 and i64 (values with distinct bytes and the sign bit set), in any order and past the end, implement `ScalarStream`. 2.2k states, about 80 s. |

Each property of a passing run has a mutant in `PROJECT.json` that TLC
must catch:
- the window decrease without its floor breaks `TypeOK`;
- `do_resends` without the `!m_send_queued` test breaks `NoDoubleQueue`;
- `send_packet_internal` without the bytes increment breaks
  `BytesOnWireCoversInFlight`;
- a response handler that goes straight to CONNECTED breaks
  `HandshakeBinding`;
- an acknowledge handler that connects without sending CONNECT_COMPLETE
  breaks `HandshakeCompletes`;
- `send_ack` without the channel byte of an ORDERED packet breaks
  `ReliableDelivery`;
- `get_channel` ignoring the ORDERED flag breaks `HeaderRoundTrip`;
- `read` advancing the cursor on a failed bounds check breaks the payload
  `TypeOK`;
- decoding without the byte swap breaks `StreamRefinement`.

### Bounds

- **Two hosts and one slot each.** Every handshake message, ack, ping and
  retransmission arises between them.
- **One session per host in the passing runs.** With two, the stale-ack
  defect breaks `BytesOnWireCoversInFlight`, which is what
  `stale_ack_bytes` shows.
- **One user packet in core and liveness.** It can be sent before,
  during and after the handshake. With a send count of 2,
  acked-after-retransmit is possible.
- **Safety window range.** The scaled MTU makes the window range 8..12. A
  user packet of 4 bytes plus the 5-byte handshake response fill it, so
  congestion gating actually blocks the drain.
- **Liveness scale.** The liveness runs measure lengths in units of 750
  bytes: MTU 2 is 1500, the window floor 4 is 3000 and is also the cap,
  and the user payload 1 is 750 bytes. The handshake replies round to 0,
  as 4 bytes are against a 3000-byte window.
- **Peer table.** `host_race` runs the example client. It uses one slot
  (the client's `max_connections`), two remotes, two application calls
  and three datagrams. The race needs only one of each.
- **Wire.** The header run scales `kMTU` and `kMaxUDPPayloadSize` to 8,
  and sequence numbers stay below 2^31, TLC's integer range. The payload
  run bounds writes and reads to 3 each. It sets `CHECK_DEADLOCK FALSE`
  because a bounded run ends once both bounds are reached.

### Fairness

See ChatterLive above:
- the worker loop is weakly fair;
- each datagram is delivered at least once;
- the connecting application connects.

No fairness is assumed for `Send` or `Shutdown`: they are the
application's choice. With `Connectors <- MCNode` (both applications
connect), `HandshakeCompletes` fails: each host drops the other's
CONNECT_REQUEST because it is not DISCONNECTED, and both retransmit
until the connect timeout. The spec's handshake property names one
initiator, so no run keeps that configuration. It is recorded as a
hazard. No fairness is assumed for duplicate delivery or
retransmission either.

The stall that the bytes-on-wire leak causes is not checked. It needs
two user packets, and that `ReliableDelivery` instance takes TLC more
than ten minutes. `bytes_leak` shows the leak that causes it.

## Not modelled, and why

- `parse_message` with several packets per datagram: the code stops after
  the first packet.
- Unreliable user packets: they are not tracked and add no bytes.
- The event queue and `get_event` in ChatterProtocol. HostPeerTable models them.
- `build_packet_stats` and the packet listener.
- The payload's `float`/`double` overloads. They are `memcpy` of the bit
  pattern, and no protocol path uses them.
- `unset_flag` and `debug_string`.
- Address parsing and formatting. The packet pool is a stub that the
  library does not use.
- The echo server's uninitialised `int flags` (main.cpp line 66).
  ExampleApp does not model a user packet's flags.
- `Host::shutdown` racing `net_worker` in HostPeerTable. The example
  program never reaches `shutdown`. `shutdown` clears
  `m_peers` while the worker may hold a slot, which is a use after free.
- The unlocked push into `sent_reliable` by `Host::send` while
  `net_worker` iterates the list. This is a data race on a `std::list`,
  below the abstraction of HostPeerTable.
- Memory-safety hazards that are out of TLA+'s reach:
  - `m_peers.clear()` while a worker runs;
  - the send-side overflow in `read_raw`.

  They are listed in `PROJECT.json` hazards.

## Plan

1. **RTO wrap.** Show the `get_rto` wrap at a deviation near 16384 ms
   (a hazard in `PROJECT.json`), if the run budget allows.
2. **HostPeerTable.** A passing run of ExampleApp's echo server with
   several slots, and `Host::shutdown` racing net_worker.
3. **Reliable channel.** An abstract reliable, ordered channel, with
   ChatterProtocol shown to implement it or not (INSTANCE … WITH), given
   the findings above.
