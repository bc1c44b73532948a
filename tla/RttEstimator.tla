---------------------------- MODULE RttEstimator ----------------------------
(***************************************************************************)
(* The round-trip-time estimator of one Peer and the retransmission       *)
(* timeout of one reliable packet: Peer::get_rto, Protocol::calculate_rtt, *)
(* Protocol::limit_rto, the RTO set by Protocol::send and the backoff of   *)
(* Protocol::do_resends, with the C++ widths of the code: m_rtt_avg and    *)
(* m_rtt_dev are uint16_t, the measurement is uint64_t, and calculate_rtt  *)
(* computes in float.                                                      *)
(*                                                                         *)
(* Measurements are milliseconds below 2^24, so every value calculate_rtt  *)
(* converts to float is exact except the uint64 difference                 *)
(* measurement - m_rtt_avg when the measurement is the smaller: 2^64 - d   *)
(* for d < 2^16 rounds to 2^64 (the float spacing there is 2^40).         *)
(* static_cast<uint64_t> of a negative float of magnitude >= 1 is          *)
(* undefined; the outcomes the builds produce are the constant             *)
(* FloatToUnsigned: "wrap" (x86-64: the signed conversion, read modulo    *)
(* 2^64) and "saturate" (AArch64 fcvtzu: 0).                             *)
(***************************************************************************)
EXTENDS Integers

CONSTANTS
    Samples,           \* RTT measurements (ms) given to calculate_rtt
    ConnectSamples,    \* time since m_connect_ts (ms) at the handshake sample
    FloatToUnsigned,   \* outcomes of a negative float -> uint64 conversion
    MaxSteps           \* bound on the number of steps

ASSUME Samples \cup ConnectSamples \subseteq 0..(2^24 - 1)
ASSUME FloatToUnsigned \subseteq {"wrap", "saturate"} /\ FloatToUnsigned # {}

VARIABLES
    avg,     \* Peer::m_rtt_avg
    dev,     \* Peer::m_rtt_dev
    rto,     \* Packet::m_rto of the packet in flight
    sample,  \* the measurement of the last calculate_rtt step, or NoSample
    steps    \* steps taken (bound)

vars == <<avg, dev, rto, sample, steps>>

\* config.h
kRetransmissionBackOffFactor == 2
kMinRetransmissionInterval == 10
kMaxRetransmissionInterval == 3000

NoSample == -1
U16 == 65536

\* Peer::get_rto: uint16 + 4 * uint16 in int, returned as uint16_t
GetRto(a, d) == (a + 4 * d) % U16

\* Protocol::limit_rto on its uint16_t argument
LimitRto(r) ==
    IF r > kMaxRetransmissionInterval THEN kMaxRetransmissionInterval
    ELSE IF r < kMinRetransmissionInterval THEN kMinRetransmissionInterval
    ELSE r

\* static_cast<uint64_t>(x) of x = q / 4 (a float that is a multiple of
\* 0.25), read modulo 2^16 when added to a uint16 field.
ToUnsigned(q, conv) ==
    CASE q >= 0         -> q \div 4
      [] q > -4         -> 0               \* |x| < 1 truncates to 0
      [] conv = "wrap"  -> -((-q) \div 4)  \* 2^64 - trunc(|x|)
      [] OTHER          -> 0

\* Protocol::calculate_rtt: error = measurement - m_rtt_avg in uint64,
\* converted to float; the average gains error / 8, the deviation
\* (|error| - m_rtt_dev) / 4.  When the measurement is below the average
\* the error is 2^64 as a float, and the increments 2^61 and 2^62 are
\* multiples of 2^16: both fields keep their values.
CalculateRtt(a, d, m, conv) ==
    IF m < a THEN [avg |-> a, dev |-> d]
    ELSE LET e == m - a
         IN [avg |-> (a + e \div 8) % U16,
             dev |-> (d + ToUnsigned(e - d, conv)) % U16]

Init ==
    /\ avg = 0
    /\ dev = 0
    /\ rto = 0
    /\ sample = NoSample
    /\ steps = 0

Step == steps < MaxSteps /\ steps' = steps + 1

\* handle_connect_response / handle_connect_acknowledge: the average is
\* set to the time since connect (uint64 stored in a uint16).
ConnectSample(m) ==
    /\ Step
    /\ avg' = m % U16
    /\ sample' = NoSample
    /\ UNCHANGED <<dev, rto>>

\* handle_pong, or handle_ack of a packet sent once: calculate_rtt
Sample(m) ==
    /\ Step
    /\ \E conv \in FloatToUnsigned :
          LET r == CalculateRtt(avg, dev, m, conv)
          IN avg' = r.avg /\ dev' = r.dev
    /\ sample' = m
    /\ UNCHANGED rto

\* Protocol::send: packet->m_rto = limit_rto(peer->get_rto())
Send ==
    /\ Step
    /\ rto' = LimitRto(GetRto(avg, dev))
    /\ sample' = NoSample
    /\ UNCHANGED <<avg, dev>>

\* do_resends: p->m_rto = limit_rto(p->m_rto * kRetransmissionBackOffFactor)
Resend ==
    /\ Step
    /\ rto > 0
    /\ rto' = LimitRto((rto * kRetransmissionBackOffFactor) % U16)
    /\ sample' = NoSample
    /\ UNCHANGED <<avg, dev>>

\* Peer::reset
Reset ==
    /\ Step
    /\ avg' = 0 /\ dev' = 0
    /\ sample' = NoSample
    /\ UNCHANGED rto

Next ==
    \/ \E m \in ConnectSamples : ConnectSample(m)
    \/ \E m \in Samples : Sample(m)
    \/ Send
    \/ Resend
    \/ Reset

Spec == Init /\ [][Next]_vars

-----------------------------------------------------------------------------
(* Properties *)

\* The TCP-style estimator of spec.md sections 2 and 8: a sample m moves
\* the average an eighth of the way toward m, and the deviation a quarter
\* of the way toward |m - average|.  Here: a sample at least 8 ms away from
\* the average moves it toward the sample without passing it, and one whose
\* error is at least 4 ms away from the deviation moves the deviation
\* toward that error (calculate_rtt's error is an unsigned difference).
EstimatorTracksSamples ==
    [][sample' # NoSample =>
        LET m == sample'
            e == IF m >= avg THEN m - avg ELSE avg - m
        IN /\ m >= avg + 8 => avg < avg' /\ avg' <= m
           /\ m + 8 <= avg => m <= avg' /\ avg' < avg
           /\ e >= dev + 4 => dev' > dev
           /\ e + 4 <= dev => dev' < dev]_vars

=============================================================================
