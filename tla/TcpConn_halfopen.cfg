\* A client that goes away before it is greeted.
CONSTANTS
    Clients  = {"a"}
    Port    <- OwnPorts
    MaxLines = 1
SPECIFICATION FairSpec
PROPERTY ListenerReturns
\* The boot loader ends when it starts a program.
CHECK_DEADLOCK FALSE
