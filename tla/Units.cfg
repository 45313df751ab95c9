SPECIFICATION UnitsSpec
CONSTANTS
    Base = 1024
    Sizes = {16, 256, 300}
    MaxBlocks = 4
    Interval = 500
    TimeWrap = 1000000
    MaxSeconds = 4
    TicksPerCall = 1
    TypeWidth = 4
    Unroll = 8
    MaxCount = 70
    Source = 90
    HexMax = 2
    MaxWidth = 4
    MemBufEntries = 4
    ExecBase = 16
    Top = 20
    Tables <- MCTables
    Frames <- MCFrames
    Stack = {0, 170}
    Items <- MCItems
    MaxItems = 3
    LenBytes = 30
    MaxLine = 6
    MaxTelnetTx = 12
    Texts = {1, 2, 3}
    MaxText = 28
    BitPulse = 43
    BitAdjust = 48
    Depth = 2
    Traffic <- MCTraffic
    MaxBytes = 4
    Lines = {1, 2}
    CmdDepth = 2
    MaxWrites = 3
INVARIANTS DisjointUnlessTorn Aligned ClockInv NeverEarly
INVARIANTS CopyExact ReadsBack ImageExact ReplySound OptionsKeptOut TextAsPut BytesArrive ReadsLatest
\* The routines return, and malloc ends with MaxBlocks blocks.
CHECK_DEADLOCK FALSE
