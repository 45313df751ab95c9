SPECIFICATION LoaderSpec
CONSTANTS
    LineMax = 7
    HexMax = 2
    NumMod = 3
    Retries = 2
    MaxRetrans = 3
    DestSize = 2
    MaxBlocks = 3
    Tries = 3
    MaxNoise = 2
    Pieces <- MCPieces
    MaxPieces = 3
    MaxLoads = 1
INVARIANTS ObeysScreen RecallRepeats TransferSound
PROPERTY Succeeds
CHECK_DEADLOCK FALSE
