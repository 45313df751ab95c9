\* The client types while bytes sent to it are outstanding.
CONSTANTS
    NBuf       = 3
    SeqMod     = 16
    InitSeq    = 1
    Lengths    = {1}
    Repeats    = TRUE
    Paced      = TRUE
    Window     = 8
    EchoModes  = {FALSE}
    MaxBytes   = 5
    MaxReplies = 5
    Strays     = {}
SPECIFICATION Spec
INVARIANT AckSound
