------------------------------- MODULE Xmodem -------------------------------
(***************************************************************************)
(* The XMODEM receiver of the serial boot loader (boot-loader-serial/      *)
(* xmodem.c) with a sender at the other end of a noisy serial line.        *)
(*                                                                         *)
(* A file is the sequence of its blocks 1..total, one for each packet; the *)
(* two packet sizes are handled alike.  A packet or a control byte is one  *)
(* message: the receiver reads a packet without anybody else acting.  What *)
(* noise did to a packet is its fate.                                      *)
(***************************************************************************)
EXTENDS Integers, Sequences, SequencesExt

CONSTANTS
    NumMod,      \* packet numbers are bytes: 256
    Retries,     \* polls before the receiver gives up: 80
    MaxRetrans,  \* MAXRETRANS, repeats of a packet: 25
    DestSize,    \* destsz, in blocks
    MaxBlocks,   \* bound: blocks of a file
    Tries,       \* the sender's attempts for one message
    MaxNoise     \* bound: messages that noise hits

VARIABLES
    pc,        \* the receiver: polling, listening, after a CAN, or out
    trychar, crc, packetno, retry, retrans,  \* its locals
    dest,      \* what it stored: the blocks in dest[0..len)
    result,    \* what xmodemReceive returned
    total,     \* the sender: blocks of its file
    acked,     \* blocks it holds for received
    spc, mode, tries,
    up, down,  \* the line to the receiver and the line to the sender
    noise,     \* messages hit so far
    crossed,   \* history: a prompt was sent to a sender that had started
    beheaded,  \* history: a packet arrived without its first byte
    rewound    \* history: a repeat was taken for a bad packet

receiver == <<trychar, crc, packetno, retry, retrans, dest, result>>
sender   == <<total, acked, spc, mode, tries>>
history  == <<noise, crossed, beheaded, rewound>>
vars     == <<pc, receiver, sender, up, down, history>>

Fates == {"whole", "garbled", "beheaded"}
None == "none"

Init ==
    /\ pc = "out" /\ trychar = None /\ crc = FALSE /\ packetno = 0
    /\ retry = 0 /\ retrans = 0 /\ dest = <<>> /\ result = None
    /\ total = 0 /\ acked = 0 /\ spc = "over" /\ mode = None /\ tries = 0
    /\ up = <<>> /\ down = <<>>
    /\ noise = 0 /\ crossed = FALSE /\ beheaded = FALSE /\ rewound = FALSE
-----------------------------------------------------------------------------
(* The receiver. *)

\* The call; the user then chooses a file in the terminal emulator.
Call ==
    /\ pc' = "poll" /\ trychar' = "C" /\ crc' = FALSE /\ packetno' = 1 % NumMod
    /\ retry' = 0 /\ retrans' = MaxRetrans /\ dest' = <<>> /\ result' = None
    /\ total' \in 0..MaxBlocks /\ acked' = 0
    /\ spc' = "ready" /\ mode' = None /\ tries' = 0
    /\ up' = <<>> /\ down' = <<>>
    /\ crossed' = FALSE /\ beheaded' = FALSE /\ rewound' = FALSE
    /\ UNCHANGED noise

\* What goes to the sender.  Until it has started, only the last byte counts.
Out(bytes) == down' = IF spc = "ready" THEN <<Last(bytes)>> ELSE down \o bytes

\* flushinput is called first: what had arrived is gone.  So are the locals.
Return(value, bytes) ==
    /\ up' = <<>> /\ Out(bytes)
    /\ result' = value /\ pc' = "out"
    /\ trychar' = None /\ crc' = FALSE /\ packetno' = 0 /\ retry' = 0 /\ retrans' = 0

Cancel == <<"CAN", "CAN", "CAN">>

\* The head of the loop of at most Retries polls.
Prompt ==
    /\ pc = "poll" /\ retry < Retries
    /\ IF trychar = None THEN UNCHANGED down ELSE Out(<<trychar>>)
    /\ crossed' = (crossed \/ (trychar # None /\ spc # "ready"))
    /\ pc' = "listen"
    /\ UNCHANGED <<receiver, sender, up, noise, beheaded, rewound>>

\* After the last poll: ask for checksums instead of CRCs, or give up.
Exhausted ==
    /\ \/ trychar = "C" /\ trychar' = "NAK" /\ retry' = 0 /\ pc' = "poll"
          /\ UNCHANGED <<result, down, up, crc, packetno, retrans>>
       \/ trychar # "C" /\ Return("sync error", Cancel)
    /\ UNCHANGED dest

LastPoll ==
    /\ pc = "poll" /\ retry = Retries
    /\ Exhausted
    /\ crossed' = (crossed \/ (trychar # None /\ spc # "ready"))
    /\ UNCHANGED <<sender, noise, beheaded, rewound>>

\* _inbyte returns -1.  A sender at work is not silent for as long as all
\* polls take.
Silence ==
    /\ pc \in {"listen", "can"} /\ up = <<>>
    /\ retry + 1 = Retries /\ trychar = None => spc = "over"
    /\ retry' = retry + 1 /\ pc' = "poll"
    /\ UNCHANGED <<trychar, crc, packetno, retrans, dest, result, sender, up, down, history>>

\* The mode is fixed by the first packet (start_recv).
Crc == crc \/ trychar = "C"

\* After a packet: an answer, and all polls anew.
Continue(bytes) ==
    /\ Out(bytes) /\ retry' = 0 /\ pc' = "poll"
    /\ crc' = Crc /\ trychar' = None
    /\ UNCHANGED result

\* A number is the one expected, or the one before; the subtraction is done
\* in integers, so that there is none before 0.
Expected(p) == p.no = packetno

\* Mutation: a repeat is not told from a bad packet.
RepeatedNever(p) == FALSE

Repeated(p) == p.no = packetno - 1

\* check(), in the mode in force.
Checked(p) == p.fate = "whole" /\ p.crc = Crc

\* A packet with the expected number is copied as far as the memory goes.
Stored(p) == IF Len(dest) < DestSize THEN Append(dest, p.block) ELSE dest

\* Mutation: the number of the packet is not counted on.
FollowingNot(n) == n

Following(n) == (n + 1) % NumMod

\* A good packet: the new one refills the retries, the old one uses one up.
Accept(p) ==
    LET left == (IF Expected(p) THEN MaxRetrans + 1 ELSE retrans) - 1
    IN  /\ dest' = IF Expected(p) THEN Stored(p) ELSE dest
        /\ \/ /\ left > 0 /\ retrans' = left
              /\ packetno' = IF Expected(p) THEN Following(packetno) ELSE packetno
              /\ Continue(<<"ACK">>) /\ up' = Tail(up)
           \/ left <= 0 /\ Return("too many", Cancel)

Reject == Continue(<<"NAK">>) /\ up' = <<>> /\ UNCHANGED <<packetno, retrans, dest>>

Packet(p) ==
    IF Checked(p) /\ (Expected(p) \/ Repeated(p)) THEN Accept(p) ELSE Reject

EndOfFile == Return("ok", <<"ACK">>) /\ UNCHANGED dest

\* The bytes of a packet without its first one are taken for headers: its
\* number or its data may look like an end, a CAN or the start of a packet, or
\* they use up polls.
Junk ==
    \/ EndOfFile
    \/ Return("canceled", <<"ACK">>) /\ UNCHANGED dest
    \/ Reject
    \/ Exhausted
    \/ /\ retry' \in (retry + 1)..Retries /\ pc' = "poll" /\ up' = Tail(up)
       /\ UNCHANGED <<trychar, crc, packetno, retrans, dest, result, down>>

\* The byte that _inbyte returns.
Listen ==
    /\ pc = "listen" /\ up # <<>>
    /\ LET m == Head(up)
       IN  \/ m.type = "packet" /\ m.fate # "beheaded" /\ Packet(m)
           \/ m.type = "packet" /\ m.fate = "beheaded" /\ Junk
           \/ m.type = "EOT" /\ EndOfFile
           \/ /\ m.type = "CAN"
              /\ pc' = "can" /\ up' = Tail(up)
              /\ UNCHANGED <<receiver, down>>
    /\ rewound' = (rewound \/ (Head(up).type = "packet" /\ packetno = 0 /\ Head(up).no = NumMod - 1))
    /\ UNCHANGED <<sender, noise, crossed, beheaded>>

\* After a CAN: a second one cancels, anything else is dropped.
SecondCan ==
    /\ pc = "can" /\ up # <<>>
    /\ \/ Head(up).type = "CAN" /\ Return("canceled", <<"ACK">>)
       \/ /\ Head(up).type # "CAN"
          /\ retry' = retry + 1 /\ pc' = "poll" /\ up' = Tail(up)
          /\ UNCHANGED <<trychar, crc, packetno, retrans, down, result>>
    /\ UNCHANGED <<dest, sender, history>>

xmodemReceive == Prompt \/ LastPoll \/ Silence \/ Listen \/ SecondCan
-----------------------------------------------------------------------------
(* The sender: a terminal emulator, and the noise on the line. *)

Start ==
    /\ spc = "ready" /\ down # <<>> /\ Head(down) \in {"C", "NAK"}
    /\ mode' = Head(down) /\ down' = <<>> /\ spc' = "send"
    /\ UNCHANGED <<pc, receiver, total, acked, tries, up, history>>

Message(fate) ==
    IF acked = total THEN [type |-> "EOT"]
    ELSE [type |-> "packet", no |-> (acked + 1) % NumMod, block |-> acked + 1,
          crc |-> mode = "C", fate |-> fate]

\* A message replaces whatever was heard before.
Send ==
    /\ spc = "send"
    /\ \E fate \in Fates \cup {"lost"} :
        /\ fate # "whole" => noise < MaxNoise
        /\ acked = total => fate \in {"whole", "lost"}
        /\ up' = IF fate = "lost" THEN up ELSE Append(up, Message(fate))
        /\ noise' = IF fate = "whole" THEN noise ELSE noise + 1
        /\ beheaded' = (beheaded \/ fate = "beheaded")
    /\ down' = <<>> /\ spc' = "wait"
    /\ UNCHANGED <<pc, receiver, total, acked, mode, tries, crossed, rewound>>

Leave == spc' = "over" /\ acked' = 0 /\ tries' = 0 /\ mode' = None

\* Once more, or two CANs when that was tried too often.
Again ==
    \/ tries < Tries /\ tries' = tries + 1 /\ spc' = "send" /\ UNCHANGED <<up, acked, mode>>
    \/ tries = Tries /\ Leave /\ up' = up \o <<[type |-> "CAN"], [type |-> "CAN"]>>

Hear ==
    /\ spc = "wait" /\ down # <<>>
    /\ down' = Tail(down)
    /\ \/ Head(down) = "ACK" /\ acked < total
          /\ acked' = acked + 1 /\ tries' = 0 /\ spc' = "send" /\ UNCHANGED <<mode, up>>
       \/ Head(down) = "ACK" /\ acked = total /\ Leave /\ UNCHANGED up
       \/ Head(down) = "NAK" /\ Again
       \/ Head(down) = "CAN" /\ Leave /\ UNCHANGED up
       \/ Head(down) \notin {"ACK", "NAK", "CAN"} /\ UNCHANGED <<acked, tries, spc, mode, up>>
    /\ UNCHANGED <<pc, receiver, total, history>>

\* Nothing is on its way and no answer came.
SenderTimeout ==
    /\ spc = "wait" /\ up = <<>> /\ down = <<>>
    /\ Again
    /\ UNCHANGED <<pc, receiver, total, down, history>>

LoseReply ==
    /\ spc = "wait" /\ down # <<>> /\ noise < MaxNoise
    /\ down' = Tail(down) /\ noise' = noise + 1
    /\ UNCHANGED <<pc, receiver, sender, up, crossed, beheaded, rewound>>

Line == Start \/ Send \/ Hear \/ SenderTimeout \/ LoseReply
-----------------------------------------------------------------------------
Next == xmodemReceive \/ Line
Fairness == WF_vars(xmodemReceive) /\ WF_vars(Send \/ Hear \/ SenderTimeout)

\* What is in memory is the beginning of the file, each block once, whatever
\* noise does and through the wrap of the packet numbers.
Prefix == \A i \in 1..Len(dest) : dest[i] = i

Whole == Len(dest) = IF total < DestSize THEN total ELSE DestSize

\* A normal end means that the file is there, as far as the memory goes,
\* unless a header was lost or a prompt crossed the sender's start.
EndIsWhole == result = "ok" => Whole \/ beheaded \/ crossed

\* What a transfer leaves in memory.
TransferSound == Prefix /\ EndIsWhole

\* And a transfer that starts comes to its normal end through all other
\* noise, unless the ack of a packet was lost where the numbers wrap.
Succeeds == spc = "send" ~> (result = "ok" \/ beheaded \/ crossed \/ rewound)
=============================================================================
