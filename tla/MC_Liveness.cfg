\* The client connects and sends one reliable ordered packet once
\* CONNECTED; no loss, no timeout, any pattern of retransmissions and
\* duplicates.  Lengths are in units of
\* 750 bytes: MTU 2 is kMTU = 1500, the window floor 4 is kMinCongestionWindow
\* (3000 bytes; the window is capped there, a bound), a user payload of 1
\* is 750 bytes (the example sends 480).
CONSTANTS
    client = client
    server = server
    Node <- MCNode
    Connectors <- MCConnectors
    Senders <- MCConnectors
    Stoppers = {}
    AppWaitsConnected = TRUE
    UserChannels = {2}
    PayloadLen = {1}
    MaxSends = 1
    MaxSessions = 1
    Timeouts = {FALSE}
    ByteUnit = 750
    MTU = 2
    MaxCongestionWindow = 4
SPECIFICATION LiveSpec
PROPERTY
    HandshakeCompletes
    ReliableDelivery
