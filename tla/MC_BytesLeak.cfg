\* One connection; the client sends one reliable user packet.
CONSTANTS
    client = client
    server = server
    Node <- MCNode
    Connectors <- MCConnectors
    Senders <- MCConnectors
    Stoppers = {}
    AppWaitsConnected = TRUE
    UserChannels = {2}
    PayloadLen = {4}
    MaxSends = 1
    MaxSessions = 1
    Timeouts = {FALSE, TRUE}
    ByteUnit = 1
    MTU = 4
    MaxCongestionWindow = 12
SPECIFICATION Spec
INVARIANT BytesOnWireExact
