---------------------------- MODULE SerialLoader ----------------------------
(***************************************************************************)
(* The serial boot loader as a whole: the command line (Console) and the   *)
(* transfer it starts (Xmodem) share one serial line with a terminal       *)
(* emulator.  What the sender still sends when the transfer has returned   *)
(* is read as keys.                                                        *)
(***************************************************************************)
EXTENDS Console

CONSTANTS
    NumMod, Retries, MaxRetrans, DestSize, MaxBlocks, Tries, MaxNoise,  \* of Xmodem
    Pieces,     \* what the user types: a set of sequences of keys
    MaxPieces,  \* bound: pieces typed
    MaxLoads    \* bound: transfers

\* Three numbers tell apart the blocks that can be under way at once.
ASSUME NumberAssumption ==
    /\ NumMod \in Nat /\ NumMod >= 3
    /\ DestSize \in Nat /\ MaxBlocks \in Nat

VARIABLES
    pc, trychar, crc, packetno, retry, retrans, dest, result, total, acked,
    spc, mode, tries, up, down, noise, crossed, beheaded, rewound,  \* of Xmodem
    rest,       \* the keys of a piece still to be typed
    pieces, loads

X == INSTANCE Xmodem

receiver   == <<pc, trychar, crc, packetno, retry, retrans, dest, result>>
sender     == <<total, acked, spc, mode, tries>>
history    == <<noise, crossed, beheaded, rewound>>
xmodemVars == <<receiver, sender, up, down, history>>
user       == <<rest, pieces, loads>>
vars       == <<consoleVars, xmodemVars, user>>

LoaderInit == Init /\ X!Init /\ rest = <<>> /\ pieces = 0 /\ loads = 0

\* A key, and the call of xmodemReceive when it ends a line that loads.
Press(c) ==
    /\ Key(c)
    /\ IF busy' = "load"
       THEN loads < MaxLoads /\ loads' = loads + 1 /\ X!Call
       ELSE loads' = loads /\ UNCHANGED xmodemVars

\* The user types when the emulator has no transfer under way.
Type ==
    /\ spc = "over" /\ up = <<>>
    /\ \/ rest # <<>> /\ Press(Head(rest)) /\ rest' = Tail(rest) /\ UNCHANGED pieces
       \/ /\ rest = <<>> /\ pieces < MaxPieces /\ pieces' = pieces + 1
          /\ \E p \in Pieces : Press(Head(p)) /\ rest' = Tail(p)

\* What the sender sends after the transfer has returned is read as keys.  A
\* packet is many; what it leaves on the line stands for them.
Stray ==
    /\ pc = "out" /\ up # <<>>
    /\ Key(IF Head(up).type = "packet" THEN "junk" ELSE Head(up).type)
    /\ up' = Tail(up)
    /\ UNCHANGED <<receiver, sender, down, history, user>>

Back ==
    /\ pc = "out" /\ Resume
    /\ UNCHANGED <<xmodemVars, user>>

Transfer == (X!xmodemReceive \/ X!Line) /\ UNCHANGED <<consoleVars, user>>

LoaderNext == Type \/ Stray \/ Back \/ Transfer

Fairness ==
    /\ WF_vars(X!xmodemReceive /\ UNCHANGED <<consoleVars, user>>)
    /\ WF_vars((X!Send \/ X!Hear \/ X!SenderTimeout) /\ UNCHANGED <<consoleVars, user>>)

LoaderSpec == LoaderInit /\ [][LoaderNext]_vars /\ Fairness
-----------------------------------------------------------------------------
\* Xmodem's properties: see there.
TransferSound == X!TransferSound
Succeeds == X!Succeeds
=============================================================================
