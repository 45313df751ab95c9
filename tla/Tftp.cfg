\* One file after the other, on a lossy network.
CONSTANTS
    Uploads <- Session
    BlockMod = 8
    Cap      = 2
SPECIFICATION FairSpec
INVARIANTS SavedInv ImageWhole BootsOneFile
PROPERTY Starts
\* The run ends when the new program has been started.
CHECK_DEADLOCK FALSE
