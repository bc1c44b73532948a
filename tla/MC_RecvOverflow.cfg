CONSTANTS
    Types = {8}
    FlagWords = {0, 3}
    Channels = {2}
    Seqs = {258}
    PayloadLens = {1, 5}
    ForeignCmds = {14336}
    ForeignLens = {2}
    JunkBytes = {0, 5}
    kMTU = 8
    kMaxUDPPayloadSize = 16
SPECIFICATION Spec
INVARIANT RecvFitsBuffer
