\* Two hosts with their own source ports.
CONSTANTS
    Clients  = {"a", "b"}
    Port    <- OwnPorts
    MaxLines = 1
SPECIFICATION FairSpec
INVARIANTS SocketsInv OnlyWhenAsked
PROPERTY Served
\* The boot loader ends when it starts a program.
CHECK_DEADLOCK FALSE
