---------------------------- MODULE ScalarStream ----------------------------
(***************************************************************************)
(* What a Packet payload promises its callers (spec.md sections 3 and 4):  *)
(* scalars are appended by write and consumed in the same order by read;  *)
(* a read that follows the layout written yields the value written, and a  *)
(* read past the end leaves the caller's variable unchanged and consumes   *)
(* nothing.  This is the abstract specification that PacketPayload, the    *)
(* byte buffer with a read cursor of packet.cpp, is shown to implement.    *)
(***************************************************************************)
EXTENDS Naturals, Sequences

CONSTANTS
    Kinds,      \* scalar types of the write/read overloads
    Values,     \* Values[k]: values of kind k that the callers write
    Initial,    \* values the caller's uninitialised variable may hold
    MaxItems,   \* bound on the number of writes
    MaxReads    \* bound on the number of reads

VARIABLES
    items,  \* the scalars written, in order: [kind, val]
    next,   \* how many of them have been read
    out,    \* the caller's output variable
    got     \* the value of that variable after each read

vars == <<items, next, out, got>>

Init ==
    /\ items = <<>>
    /\ next = 0
    /\ out \in Initial
    /\ got = <<>>

Write(k, v) ==
    /\ Len(items) < MaxItems
    /\ items' = Append(items, [kind |-> k, val |-> v])
    /\ UNCHANGED <<next, out, got>>

\* The caller reads the kind it knows comes next, or reads at the end.
Read(k) ==
    /\ Len(got) < MaxReads
    /\ got' = Append(got, out')
    /\ \/ /\ next < Len(items)
          /\ items[next + 1].kind = k
          /\ out' = items[next + 1].val
          /\ next' = next + 1
       \/ /\ next = Len(items)
          /\ UNCHANGED <<out, next>>
    /\ UNCHANGED items

Next ==
    \/ \E k \in Kinds : \E v \in Values[k] : Write(k, v)
    \/ \E k \in Kinds : Read(k)

Spec == Init /\ [][Next]_vars

=============================================================================
