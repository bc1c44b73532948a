-------------------------- MODULE MC_PacketPayload --------------------------
EXTENDS PacketPayload

\* The scalar kinds the protocol and the example write: the u8 channel of
\* an ordered PROTO_ACK, the u32 sequence numbers, the bool of
\* CONNECT_RESPONSE, the example's int64, and a 16-bit signed value;
\* values with distinct bytes and the sign bit set.
MCKinds == {"bool", "u8", "i16", "u32", "i64"}
MCValues ==
    [k \in MCKinds |->
        CASE k = "bool" -> {TRUE}
          [] k = "u8"   -> {200}
          [] k = "u16"  -> {258}
          [] k = "i16"  -> {-2}
          [] k = "u32"  -> {16909060}
          [] k = "u64"  -> {16909060}
          [] k = "i64"  -> {-123}]
\* Whatever an uninitialised variable of the caller holds
MCInitial == {0}
=============================================================================
