\* Callers that mask the interrupt and callers that do not, on a slow wire.
CONSTANTS
    NBuf       = 3
    InitSeq    = 1
    MaxReplies = 3
    MaxResends = 1
SPECIFICATION FairSpec
INVARIANTS RingInv IntactUnlessEarly
PROPERTY Returns
