----------------------------- MODULE ByteStream -----------------------------
(***************************************************************************)
(* What the transmit side of a connection promises its caller: a byte,     *)
(* once written, is kept for retransmission until the peer has it.         *)
(***************************************************************************)
EXTENDS Integers, FiniteSets

CONSTANT MaxBytes       \* bound: the length of the stream

VARIABLES
    written,    \* the number of bytes written to the stream
    kept,       \* the positions that can still be retransmitted
    received    \* the positions the peer has

vars == <<written, kept, received>>

Positions == 0 .. MaxBytes - 1

Init ==
    /\ written = 0
    /\ kept = {}
    /\ received = {}

\* New bytes are kept from the start; bytes the peer has may be dropped.
Write ==
    /\ written' \in written + 1 .. MaxBytes
    /\ written .. written' - 1 \subseteq kept'
    /\ kept' \subseteq kept \cup written .. written' - 1
    /\ kept \ kept' \subseteq received
    /\ UNCHANGED received

\* Only bytes the peer has are dropped.
Release ==
    /\ kept' \subseteq kept
    /\ kept \ kept' \subseteq received
    /\ UNCHANGED <<written, received>>

\* A kept byte reaches the peer, possibly by a late copy.
Arrive ==
    /\ received \subseteq received'
    /\ received' \subseteq 0 .. written - 1
    /\ UNCHANGED <<written, kept>>

Next == Write \/ Release \/ Arrive

Spec == Init /\ [][Next]_vars
-----------------------------------------------------------------------------
(* The promise: what the peer lacks is kept.                               *)
Kept == 0 .. written - 1 \subseteq kept \cup received
=============================================================================
