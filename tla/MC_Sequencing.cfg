\* One connection; the client sends two reliable user packets on ordered
\* channel 2; datagrams may be lost, duplicated and reordered.
CONSTANTS
    client = client
    server = server
    Node <- MCNode
    Connectors <- MCConnectors
    Senders <- MCConnectors
    Stoppers = {}
    AppWaitsConnected = TRUE
    UserChannels = {2}
    PayloadLen = {4}
    MaxSends = 2
    MaxSessions = 1
    Timeouts = {FALSE, TRUE}
    ByteUnit = 1
    MTU = 4
    MaxCongestionWindow = 12
SPECIFICATION Spec
PROPERTY SequencedDelivery
