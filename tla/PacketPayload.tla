---------------------------- MODULE PacketPayload ---------------------------
(***************************************************************************)
(* The payload of a Packet (packet.cpp): m_data, a byte vector that the    *)
(* write overloads append to in network byte order (platform.h helpers),   *)
(* and m_read_pos, the cursor the read overloads advance after            *)
(* check_bounds.  The caller's layout knowledge is the ghost `layout` (the *)
(* kinds written, in order): callers read the kind that comes next, as    *)
(* the protocol handlers and the example application do, or read at the    *)
(* end.  float and double are copied in host representation and are left *)
(* out; integers stay below 2^31 in magnitude for TLC.                    *)
(***************************************************************************)
EXTENDS Integers, Sequences, FiniteSets

CONSTANTS Kinds, Values, Initial, MaxItems, MaxReads

VARIABLES
    data,       \* Packet::m_data
    readPos,    \* Packet::m_read_pos
    layout,     \* ghost: the kinds written, in order
    out,        \* the caller's output variable
    got         \* ghost: the caller's variable after each read

vars == <<data, readPos, layout, out, got>>

\* sizeof of each overload's argument type
Width(k) == CASE k \in {"bool", "u8", "i8"} -> 1
              [] k \in {"u16", "i16"} -> 2
              [] k \in {"u32", "i32"} -> 4
              [] k \in {"u64", "i64"} -> 8

Signed(k) == k \in {"i8", "i16", "i32", "i64"}

\* HostToNetNN then append_bytes: big-endian two's complement bytes
RECURSIVE NetBytes(_, _)
NetBytes(v, width) ==
    IF width = 0 THEN <<>> ELSE NetBytes(v \div 256, width - 1) \o <<v % 256>>

Encode(k, v) ==
    IF k = "bool" THEN <<IF v THEN 1 ELSE 0>> ELSE NetBytes(v, Width(k))

\* NetToHostNN of the bytes at the cursor, reinterpreted as the target type
RECURSIVE HostValue(_)
HostValue(bytes) ==
    IF bytes = <<>> THEN 0 ELSE HostValue(SubSeq(bytes, 1, Len(bytes) - 1)) * 256 + bytes[Len(bytes)]

SignedValue(bytes) ==
    LET top == IF bytes[1] >= 128 THEN bytes[1] - 256 ELSE bytes[1]
    IN  HostValue(<<top>> \o Tail(bytes))

\* Mutant: the bytes taken in memory order without NetToHostNN
DecodeNoSwap(k, bytes) ==
    IF k = "bool" THEN bytes[1] = 1
    ELSE HostValue([i \in 1..Len(bytes) |-> bytes[Len(bytes) + 1 - i]])

\* read(bool) sets data = (val == true); the others convert the bytes
Decode(k, bytes) ==
    CASE k = "bool" -> bytes[1] = 1
      [] Signed(k)  -> SignedValue(bytes)
      [] OTHER      -> HostValue(bytes)

\* Packet::check_bounds
CheckBounds(n) == readPos + n <= Len(data)

\* Byte offset of the i-th scalar written
Offset(i) ==
    LET n(w) == Cardinality({j \in 1..(i - 1) : Width(layout[j]) = w})
    IN  n(1) + 2 * n(2) + 4 * n(4) + 8 * n(8)

\* How many scalars lie wholly before the cursor
Consumed == Cardinality({i \in 1..Len(layout) : Offset(i) + Width(layout[i]) <= readPos})

Init ==
    /\ data = <<>>
    /\ readPos = 0
    /\ layout = <<>>
    /\ out \in Initial
    /\ got = <<>>

\* Packet::write(T): append_bytes of the converted value
Write(k, v) ==
    /\ Len(layout) < MaxItems
    /\ data' = data \o Encode(k, v)
    /\ layout' = Append(layout, k)
    /\ UNCHANGED <<readPos, out, got>>

\* Mutant: the cursor is advanced even when check_bounds fails
ReadAdvanceAlways(k) ==
    /\ Len(got) < MaxReads
    /\ Consumed < Len(layout) => k = layout[Consumed + 1]
    /\ IF CheckBounds(Width(k))
         THEN out' = Decode(k, SubSeq(data, readPos + 1, readPos + Width(k)))
         ELSE UNCHANGED out
    /\ readPos' = readPos + Width(k)
    /\ got' = Append(got, out')
    /\ UNCHANGED <<data, layout>>

\* Packet::read(T&): a silent short read when check_bounds fails
Read(k) ==
    /\ Len(got) < MaxReads
    /\ Consumed < Len(layout) => k = layout[Consumed + 1]
    /\ IF CheckBounds(Width(k))
         THEN /\ out' = Decode(k, SubSeq(data, readPos + 1, readPos + Width(k)))
              /\ readPos' = readPos + Width(k)
         ELSE UNCHANGED <<out, readPos>>
    /\ got' = Append(got, out')
    /\ UNCHANGED <<data, layout>>

Next ==
    \/ \E k \in Kinds : \E v \in Values[k] : Write(k, v)
    \/ \E k \in Kinds : Read(k)

Spec == Init /\ [][Next]_vars

-----------------------------------------------------------------------------
(* Properties *)

TypeOK ==
    /\ data \in Seq(0..255)
    /\ readPos \in 0..Len(data)
    /\ layout \in Seq(Kinds)

\* The scalars the bytes encode, read back at their offsets
Written ==
    [i \in 1..Len(layout) |->
        [kind |-> layout[i],
         val  |-> Decode(layout[i], SubSeq(data, Offset(i) + 1, Offset(i) + Width(layout[i])))]]

Stream == INSTANCE ScalarStream WITH items <- Written, next <- Consumed

\* Round-trip framing (spec.md section 8) and the silent short read: the
\* byte buffer of Packet::write/read with m_read_pos and check_bounds
\* behaves as the scalar stream of ScalarStream, each read yielding the
\* value written at that position and a read at the end changing nothing.
StreamRefinement == Stream!Spec

=============================================================================
