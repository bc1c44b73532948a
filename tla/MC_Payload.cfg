\* Up to three writes of the kinds the code uses and three reads that
\* follow the layout or run off its end.
CONSTANTS
    Kinds <- MCKinds
    Values <- MCValues
    Initial <- MCInitial
    MaxItems = 3
    MaxReads = 3
SPECIFICATION Spec
INVARIANT TypeOK
PROPERTY StreamRefinement
CHECK_DEADLOCK FALSE
