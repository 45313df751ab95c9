SPECIFICATION BusSpec
CONSTANTS
    Lines = {1, 2}
    CmdDepth = 2
    MaxWrites = 3
INVARIANT BufferKeeps
