\* A buffer that comes round after nine bytes.
CONSTANTS
    LenBytes = 13
    MaxLine  = 4
    Styles  <- MCStyles
SPECIFICATION FairSpec
INVARIANTS TypeOK ReadSound InOrder
PROPERTIES LineDelivered NothingHeld
