---------------------------- MODULE PacketHeader ----------------------------
(***************************************************************************)
(* The wire form of a chatter packet (packet.h, packet.cpp) and the path   *)
(* of one datagram through it: Packet construction and the command-word    *)
(* accessors, Packet::read_raw on the sending host, the recv_worker's      *)
(* recvfrom into a RecvMsg, and Protocol::parse_message on the receiving   *)
(* host.  The 16-bit command word is packed and unpacked with the same     *)
(* masks and shifts as the code, using the Bitwise community module.       *)
(*                                                                         *)
(* Bytes beyond the datagram in RecvMsg::msg are the uninitialised stack   *)
(* array of a fresh local (host.cpp recv_worker); reading them is a read   *)
(* of an indeterminate value, modelled as a choice among JunkBytes.        *)
(* kMTU and kMaxUDPPayloadSize are constants so that they can be scaled    *)
(* down together with the payload lengths.                                 *)
(***************************************************************************)
EXTENDS Integers, Sequences, Bitwise

CONSTANTS
    Types,              \* PacketType values given to set_type
    FlagWords,          \* int flags given to Packet::create
    Channels,           \* ProtocolChannelID (uint8_t) values given to create
    Seqs,               \* sequence numbers (kept below 2^31 for TLC)
    PayloadLens,        \* lengths of the appended payload
    ForeignCmds,        \* command words of datagrams not built by read_raw
    ForeignLens,        \* their total lengths (>= 2, see receive_message)
    JunkBytes,          \* values an uninitialised byte may hold
    kMTU,               \* config.h: size of RecvMsg::msg
    kMaxUDPPayloadSize  \* config.h: size passed to recvfrom and read_raw

VARIABLES
    sent,   \* the fields the sender gave the packet, or NoPacket
    rx      \* what parse_message made of the datagram, or NoRx

vars == <<sent, rx>>

\* packet.h: layout of the 16-bit command word
kPacketTypeShift == 11
kPacketFlagShift == 5
kPacketTypeMask == 63488    \* 0xF800
kPacketFlagMask == 2016     \* 0x07E0
kPacketChanMask == 31       \* 0x001F

\* types.h: PacketFlag bits and the two PacketTypes constructed by default
RELIABLE == 1
ORDERED == 2
USER_DATA == 8
kReliableUnorderedChannel == 32

\* ~mask on a uint16_t field: the complement within 16 bits
Compl16(m) == 65535 - m

\* Packet::set_type
SetType(cmd, type) ==
    (cmd & Compl16(kPacketTypeMask)) | ((type * 2^kPacketTypeShift) % 65536)

\* Packet::get_type
GetType(cmd) == shiftR(cmd & kPacketTypeMask, kPacketTypeShift)

\* Packet::set_flag: the flag int is shifted and masked to 6 bits
SetFlag(cmd, flag) == cmd | ((flag * 2^kPacketFlagShift) & kPacketFlagMask)

\* Packet::has_flag
HasFlag(cmd, flag) == (shiftR(cmd & kPacketFlagMask, kPacketFlagShift) & flag) > 0

\* Packet::set_channel: clamp to 31, zero the field, or the value in
SetChannel(cmd, chan) ==
    LET c == IF chan > 31 THEN 31 ELSE chan
    IN  (cmd & Compl16(kPacketChanMask)) | c

\* Mutant: the channel field read whatever the ORDERED flag says
GetChannelNoOrdered(cmd) == cmd & kPacketChanMask

\* Packet::get_channel: the channel field only counts for ORDERED packets
GetChannel(cmd) ==
    IF HasFlag(cmd, ORDERED) THEN cmd & kPacketChanMask
                             ELSE kReliableUnorderedChannel

\* Packet::Packet(flags, channel)
NewPacket(flags, channel) ==
    LET clamped == IF channel > 31 THEN 31 ELSE channel
    IN  SetChannel(SetFlag(SetType(0, USER_DATA), flags), clamped)

\* platform::HostToNet16/32/64 followed by memcpy: big-endian bytes
RECURSIVE NetBytes(_, _)
NetBytes(v, width) ==
    IF width = 0 THEN <<>> ELSE NetBytes(v \div 256, width - 1) \o <<v % 256>>

\* platform::NetToHost16/32 applied to bytes read in place
RECURSIVE HostValue(_)
HostValue(bytes) ==
    IF bytes = <<>> THEN 0 ELSE HostValue(SubSeq(bytes, 1, Len(bytes) - 1)) * 256 + bytes[Len(bytes)]

\* Packet::read_raw: command word, sequence number iff RELIABLE, payload
ReadRaw(pkt) ==
    NetBytes(pkt.cmd, 2)
      \o (IF HasFlag(pkt.cmd, RELIABLE) THEN NetBytes(pkt.seq, 4) ELSE <<>>)
      \o pkt.data

\* Protocol::parse_message on msg[0 .. msg_size-1] of the buffer buf.  The
\* loop body runs exactly once (msg_cursor is set to msg_size at its end).
ParseMessage(buf, msgSize) ==
    LET cmd    == HostValue(SubSeq(buf, 1, 2))
        rel    == HasFlag(cmd, RELIABLE)
        cursor == IF rel THEN 6 ELSE 2
        dataLen == msgSize - cursor
    IN  [cmd    |-> cmd,
         seq    |-> IF rel THEN HostValue(SubSeq(buf, 3, 6)) ELSE 0,
         data   |-> IF dataLen > 0 THEN SubSeq(buf, cursor + 1, msgSize) ELSE <<>>,
         cursor |-> cursor,
         size   |-> msgSize]

NoPacket == [type |-> -1]
NoRx == [size |-> 0]

\* recv_worker reads into a fresh RecvMsg; bytes past the datagram are
\* indeterminate.  Six bytes suffice: parse_message reads at most msg[5]
\* beyond a datagram shorter than a header.
Junk == [1..6 -> JunkBytes]

\* SocketSendTo of a datagram larger than a UDP payload fails (unix.cpp
\* ignores the error); otherwise recvfrom stores it at RecvMsg::msg, the
\* receive loop keeps it, and receive_message parses it unless it is
\* shorter than a command word.
Receive(bytes) ==
    IF Len(bytes) > kMaxUDPPayloadSize THEN rx' = NoRx
    ELSE \E junk \in Junk : rx' = ParseMessage(bytes \o junk, Len(bytes))

Init ==
    /\ sent = NoPacket
    /\ rx = NoRx

\* One datagram is followed at a time: from its construction to its parse.
Idle == sent = NoPacket /\ rx = NoRx

\* A protocol or application packet: Packet::create(flags, channel), then
\* set_type, a reliable sequence number and a payload, sent by
\* send_packet_internal (read_raw into its buffer) and received.
SendPacket(type, flags, channel, seq, len) ==
    LET pkt == [cmd  |-> SetType(NewPacket(flags, channel), type),
                seq  |-> seq,
                data |-> [i \in 1..len |-> 7]]
    IN  /\ Idle
        /\ sent' = [type |-> type, flags |-> flags, channel |-> channel,
                    seq |-> seq, len |-> len]
        /\ Receive(ReadRaw(pkt))

\* A datagram from any other sender: a command word and a few more bytes.
Foreign(cmd, len) ==
    /\ Idle
    /\ len >= 2
    /\ sent' = NoPacket
    /\ Receive(NetBytes(cmd, 2) \o [i \in 1..(len - 2) |-> 7])

\* handle_message takes the parsed packets; the receive loop waits for the
\* next datagram.
Handled ==
    /\ ~Idle
    /\ sent' = NoPacket
    /\ rx' = NoRx

Next ==
    \/ Handled
    \/ \E t \in Types, f \in FlagWords, c \in Channels, s \in Seqs, l \in PayloadLens :
          SendPacket(t, f, c, s, l)
    \/ \E c \in ForeignCmds, l \in ForeignLens : Foreign(c, l)

Spec == Init /\ [][Next]_vars

-----------------------------------------------------------------------------
(* Properties *)

\* Reference unpacking of spec.md section 3, with plain arithmetic instead
\* of masks: the type, the low six flag bits, and the channel clamped to
\* 0..31 for ORDERED packets, or the reliable unordered channel otherwise.
FlagBit(flags, bit) == (flags \div bit) % 2 = 1
Reference(s) ==
    [type    |-> s.type,
     flags   |-> s.flags % 64,
     channel |-> IF ~FlagBit(s.flags, ORDERED) THEN kReliableUnorderedChannel
                 ELSE IF s.channel > 31 THEN 31 ELSE s.channel,
     seq     |-> IF FlagBit(s.flags, RELIABLE) THEN s.seq ELSE 0,
     len     |-> s.len]

Unpacked(r) ==
    [type    |-> GetType(r.cmd),
     flags   |-> shiftR(r.cmd & kPacketFlagMask, kPacketFlagShift),
     channel |-> GetChannel(r.cmd),
     seq     |-> r.seq,
     len     |-> Len(r.data)]

\* Header packing (spec.md section 8): whatever type, flags and channel a
\* packet is built with by Packet::Packet, set_type and set_flag, the
\* receiver's parse_message and get_type/has_flag/get_channel recover them,
\* with the sequence number present iff RELIABLE and the payload intact.
HeaderRoundTrip ==
    sent /= NoPacket /\ rx /= NoRx => Unpacked(rx) = Reference(sent)

\* parse_message takes the command word and the sequence number only from
\* the msg_size bytes the datagram carried (host.cpp receive_message checks
\* only that msg_size covers the command word).
ParseWithinDatagram == rx /= NoRx => rx.cursor <= rx.size

\* Every datagram the receive loop accepts fits in RecvMsg::msg, the kMTU
\* array that recv_worker hands to recvfrom with kMaxUDPPayloadSize.
RecvFitsBuffer == rx /= NoRx => rx.size <= kMTU

=============================================================================
