CONSTANTS
    Types = {0, 1, 2, 3, 4, 5, 6, 7, 8}
    FlagWords = {0, 1, 2, 3, 4, 8, 15, 66}
    Channels = {0, 2, 31, 32, 255}
    Seqs = {0, 258, 16909060}
    PayloadLens = {0, 1, 3}
    ForeignCmds = {16384}
    ForeignLens = {2}
    JunkBytes = {0}
    kMTU = 8
    kMaxUDPPayloadSize = 8
SPECIFICATION Spec
INVARIANT HeaderRoundTrip
