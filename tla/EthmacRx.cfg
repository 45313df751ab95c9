\* Frames at any time.
CONSTANTS
    NBuf      = 3
    MaxFrames = 7
    MaxDrops  = 1
SPECIFICATION FairSpec
INVARIANTS FramesInv KeepsUp
PROPERTY RaisedIsParsed
\* The run ends when MaxFrames frames were received.
CHECK_DEADLOCK FALSE
