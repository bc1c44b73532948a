\* The example client (examples/main.cpp with a server address): one slot,
\* Host::connect(ra) right after Host::start, while rb sends datagrams to
\* the client's port.
CONSTANTS
    ra = ra
    rb = rb
    zero = zero
    NoAddr = zero
    Remote <- MCRemote
    MaxConnections = 1
    ConnectTo <- MCServer
    SendTo <- MCServer
    InTypes <- MCInTypes
    ResetAddr = {zero}
    MaxAppCalls = 2
    MaxDatagrams = 3
    IsClient = TRUE
    ServerAddr = ra
SPECIFICATION AppSpec
INVARIANT AddressIntegrity
