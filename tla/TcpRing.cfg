\* The client keeps up; the ring comes round and the sequence numbers wrap.
CONSTANTS
    NBuf       = 3
    SeqMod     = 7
    InitSeq    = 3
    Lengths    = {1, 2}
    Repeats    = FALSE
    Paced      = TRUE
    Window     = 3
    EchoModes  = {TRUE, FALSE}
    MaxBytes   = 5
    MaxReplies = 5
    Strays     = {2}
SPECIFICATION FairSpec
INVARIANTS SeqInv AckSound AckComplete
PROPERTIES ImplementsStream Delivered
