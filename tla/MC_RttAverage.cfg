\* A handshake sample of 400 ms (a retransmitted CONNECT_REQUEST), then
\* round trips of 20 and 100 ms; both float conversion outcomes.
CONSTANTS
    Samples = {20, 100}
    ConnectSamples = {400}
    FloatToUnsigned = {"wrap", "saturate"}
    MaxSteps = 4
SPECIFICATION Spec
PROPERTY EstimatorTracksSamples
