CONSTANTS
    Types = {8}
    FlagWords = {3}
    Channels = {2}
    Seqs = {258}
    PayloadLens = {1}
    ForeignCmds = {14336, 16416}
    ForeignLens = {2, 3, 5}
    JunkBytes = {0, 5}
    kMTU = 16
    kMaxUDPPayloadSize = 16
SPECIFICATION Spec
INVARIANT ParseWithinDatagram
