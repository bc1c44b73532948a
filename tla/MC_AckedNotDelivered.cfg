\* The accepting host sends one reliable user packet once it is CONNECTED
\* (its application waits for PEER_CONNECTED, as examples/main.cpp does).
CONSTANTS
    client = client
    server = server
    Node <- MCNode
    Connectors <- MCConnectors
    Senders <- MCServer
    Stoppers = {}
    AppWaitsConnected = TRUE
    UserChannels = {2}
    PayloadLen = {4}
    MaxSends = 1
    MaxSessions = 1
    Timeouts = {FALSE, TRUE}
    ByteUnit = 1
    MTU = 4
    MaxCongestionWindow = 12
SPECIFICATION Spec
INVARIANT AckedImpliesDelivered
