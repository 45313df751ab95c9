---------------------------- MODULE LoaderProofs ----------------------------
(***************************************************************************)
(* Proofs about what reaches the boot loaders.  SerialLoader: what a       *)
(* transfer leaves in memory, for every length of a file and any noise;    *)
(* and what the command line carries out, for any keys, any length of a    *)
(* line and any number of digits.  EthmacRx: whatever the MAC and the      *)
(* interrupt handler interleave, every frame put in a buffer is parsed     *)
(* once or is still in its buffer, for every size of the ring and any      *)
(* number of frames.                                                       *)
(***************************************************************************)
EXTENDS SerialLoader, EthmacRx, TLAPS, SequenceTheorems, WellFoundedInduction

-----------------------------------------------------------------------------
(***************************************************************************)
(* The invariant of a transfer in which r blocks have arrived.  A message  *)
(* and its answer are one token that goes round between the two sides; a   *)
(* second one only comes in when a prompt crosses the sender's start.      *)
(***************************************************************************)
Bytes    == {"C", "NAK", "ACK", "CAN"}
Messages == [type : {"EOT", "CAN"}]
            \cup [type : {"packet"}, no : Nat, block : Nat, crc : BOOLEAN, fate : X!Fates]

IsPacket(m) == m.type = "packet"

\* The block a message is about: that of the end comes after the last one.
Block(m) == IF m.type = "EOT" THEN total + 1 ELSE m.block

\* What may be on its way to the receiver.
Possible(m, r) ==
    /\ IsPacket(m) => /\ r <= m.block /\ m.block <= r + 2 /\ m.block <= total
                      /\ m.no = m.block % NumMod
                      /\ m.fate = "beheaded" => beheaded
    /\ m.type = "EOT" => crossed \/ r = total

OnTheLine(r) ==
    /\ up \in Seq(Messages)
    /\ \A k \in 1 .. Len(up) : Possible(up[k], r)
    /\ \A j, k \in 1 .. Len(up) :
          j < k /\ IsPacket(up[j]) /\ IsPacket(up[k]) => up[j].block <= up[k].block

Elements(s) == {s[k] : k \in 1 .. Len(s)}
Due   == spc = "send" \/ "ACK" \in Elements(down) \/ "NAK" \in Elements(down)
Alone == trychar = "C" \/ (pc = "poll" /\ trychar # "none") \/ ~crossed
Limit == IF Alone THEN 1 ELSE 2

\* The sender is at the block that was received last, the one before, or,
\* when a prompt has crossed, the one after.
AtWork(r) ==
    /\ acked \in Nat /\ acked <= total
    /\ r - 1 <= acked /\ acked <= (IF crossed THEN r + 1 ELSE r)
    /\ Len(up) <= Limit /\ (Due => Len(up) < Limit)
    /\ \A k \in 1 .. Len(up) :
          /\ up[k].type # "CAN"
          /\ Block(up[k]) = acked \/ Block(up[k]) = acked + 1
          /\ ~crossed \/ k = 2 => Block(up[k]) = acked + 1
    /\ spc = "wait" /\ "ACK" \in Elements(down) =>
          /\ acked <= (IF crossed THEN r ELSE r - 1)
          /\ up # <<>> => Block(up[1]) = acked + 1

Stored(r) ==
    /\ dest \in Seq(Nat)
    /\ Len(dest) = IF r < DestSize THEN r ELSE DestSize

Running(r) ==
    /\ r <= total
    /\ trychar \in {"none", "C", "NAK"}
    /\ packetno = (r + 1) % NumMod
    /\ Stored(r) /\ OnTheLine(r) /\ down \in Seq(Bytes)
    /\ spc = "ready" => up = <<>> /\ r = 0 /\ acked = 0
    /\ spc \in {"send", "wait"} => AtWork(r)
    /\ pc = "can" => spc = "over"

TransferInv ==
    /\ total \in Nat /\ X!TransferSound
    /\ pc \in {"poll", "listen", "can", "out"} /\ spc \in {"ready", "send", "wait", "over"}
    /\ crossed \in BOOLEAN /\ beheaded \in BOOLEAN
    /\ pc # "out" => result = "none" /\ \E r \in Nat : Running(r)
-----------------------------------------------------------------------------
(* Packet numbers and sequences.                                           *)

LEMMA Remainder ==
    ASSUME NEW m \in Nat \ {0}, NEW q \in Nat, NEW e \in 0 .. m - 1
    PROVE  (m * q + e) % m = e
BY SMT

\* A number that is the one expected, or the one before, names its block.
LEMMA NumberNames ==
    ASSUME NEW r \in Nat, NEW b \in Nat, r <= b, b <= r + 2
    PROVE  /\ b % NumMod = (r + 1) % NumMod => b = r + 1
           /\ b % NumMod = ((r + 1) % NumMod) - 1 => b = r
           /\ (((r + 1) % NumMod) + 1) % NumMod = (r + 2) % NumMod
<1> USE NumberAssumption
<1>1. PICK q \in Nat, e \in 0 .. NumMod - 1 : r = NumMod * q + e
    <2>1. \E q \in Nat, e \in 0 .. NumMod - 1 : q = r \div NumMod /\ e = r % NumMod /\ r = NumMod * q + e
        OBVIOUS
    <2> QED
        BY <2>1
<1>2. ASSUME NEW d \in 0 .. 2
      PROVE  (r + d) % NumMod = IF e + d < NumMod THEN e + d ELSE e + d - NumMod
    <2>1. CASE e + d < NumMod
        <3>1. PICK f \in 0 .. NumMod - 1 : f = e + d
            BY <2>1
        <3>2. (NumMod * q + f) % NumMod = f
            BY Remainder
        <3> QED
            BY <1>1, <2>1, <3>1, <3>2
    <2>2. CASE e + d >= NumMod
        <3>1. PICK f \in 0 .. NumMod - 1 : f = e + d - NumMod
            BY <1>2, <2>2
        <3>2. (NumMod * (q + 1) + f) % NumMod = f
            BY Remainder, q + 1 \in Nat
        <3>3. NumMod * (q + 1) = NumMod * q + NumMod
            OBVIOUS
        <3> QED
            BY <1>1, <2>2, <3>1, <3>2, <3>3
    <2> QED
        BY <2>1, <2>2
<1>3. /\ r % NumMod = e
      /\ (r + 1) % NumMod = IF e + 1 < NumMod THEN e + 1 ELSE e + 1 - NumMod
      /\ (r + 2) % NumMod = IF e + 2 < NumMod THEN e + 2 ELSE e + 2 - NumMod
    BY <1>2, r + 0 = r
<1>4. b = r \/ b = r + 1 \/ b = r + 2
    OBVIOUS
<1>5. b % NumMod = (r + 1) % NumMod => b = r + 1
    BY <1>1, <1>3, <1>4
<1>6. b % NumMod = ((r + 1) % NumMod) - 1 => b = r
    BY <1>1, <1>3, <1>4
<1>7. (((r + 1) % NumMod) + 1) % NumMod = (r + 2) % NumMod
    <2>1. CASE e + 2 < NumMod
        <3>1. ((r + 1) % NumMod) + 1 = NumMod * 0 + (e + 2) /\ e + 2 \in 0 .. NumMod - 1
            BY <1>3, <2>1
        <3> QED
            BY <1>3, <2>1, <3>1, Remainder
    <2>2. CASE e + 2 = NumMod
        <3>1. ((r + 1) % NumMod) + 1 = NumMod * 1 + 0 /\ 0 \in 0 .. NumMod - 1
            BY <1>3, <2>2
        <3>2. (((r + 1) % NumMod) + 1) % NumMod = 0
            BY <3>1, Remainder
        <3> QED
            BY <1>3, <2>2, <3>2
    <2>3. CASE e + 1 = NumMod
        <3>1. ((r + 1) % NumMod) + 1 = NumMod * 0 + 1 /\ 1 \in 0 .. NumMod - 1
            BY <1>3, <2>3
        <3>2. (((r + 1) % NumMod) + 1) % NumMod = 1
            BY <3>1, Remainder
        <3> QED
            BY <1>3, <2>3, <3>2
    <2> QED
        BY <1>1, <2>1, <2>2, <2>3
<1> QED
    BY <1>5, <1>6, <1>7

LEMMA OneMore ==
    ASSUME NEW S, NEW s \in Seq(S), NEW e \in S
    PROVE  /\ Append(s, e) \in Seq(S) /\ s \o <<e>> = Append(s, e)
           /\ Len(Append(s, e)) = Len(s) + 1 /\ Append(s, e)[Len(s) + 1] = e
           /\ \A k \in 1 .. Len(s) : Append(s, e)[k] = s[k]
           /\ Elements(Append(s, e)) = Elements(s) \cup {e}
<1>1. /\ Append(s, e) \in Seq(S) /\ s \o <<e>> = Append(s, e)
      /\ Len(Append(s, e)) = Len(s) + 1 /\ Append(s, e)[Len(s) + 1] = e
      /\ \A k \in 1 .. Len(s) : Append(s, e)[k] = s[k]
    OBVIOUS
<1>2. Len(s) \in Nat
    OBVIOUS
<1> DEFINE t == Append(s, e)
<1> HIDE DEF t
<1>3. \A x : x \in Elements(t) <=> x \in Elements(s) \cup {e}
    <2> TAKE x
    <2>1. ASSUME x \in Elements(t) PROVE x \in Elements(s) \cup {e}
        <3>1. PICK k \in 1 .. Len(t) : x = t[k]
            BY <2>1 DEF Elements
        <3>2. k \in 1 .. Len(s) \/ k = Len(s) + 1
            BY <1>1, <1>2 DEF t
        <3> QED
            BY <1>1, <3>1, <3>2 DEF Elements, t
    <2>2. ASSUME x \in Elements(s) \cup {e} PROVE x \in Elements(t)
        <3>1. CASE x = e
            <4>1. Len(s) + 1 \in 1 .. Len(t) /\ t[Len(s) + 1] = e
                BY <1>1, <1>2 DEF t
            <4> QED
                BY <3>1, <4>1 DEF Elements
        <3>2. CASE x \in Elements(s)
            <4>1. PICK k \in 1 .. Len(s) : x = s[k]
                BY <3>2 DEF Elements
            <4>2. k \in 1 .. Len(t) /\ t[k] = s[k]
                BY <1>1, <1>2 DEF t
            <4> QED
                BY <4>1, <4>2 DEF Elements
        <3> QED
            BY <2>2, <3>1, <3>2
    <2> QED
        BY <2>1, <2>2
<1>4. Elements(t) = Elements(s) \cup {e}
    BY <1>3
<1> QED
    BY <1>1, <1>4 DEF t

LEMMA OneLess ==
    ASSUME NEW S, NEW s \in Seq(S), s # <<>>
    PROVE  /\ Len(s) \in Nat \ {0} /\ Head(s) = s[1] /\ s[1] \in S /\ s[1] \in Elements(s)
           /\ Tail(s) \in Seq(S) /\ Len(Tail(s)) = Len(s) - 1
           /\ \A k \in 1 .. Len(s) - 1 : Tail(s)[k] = s[k + 1]
           /\ Elements(Tail(s)) \subseteq Elements(s)
<1>1. /\ Len(s) \in Nat \ {0} /\ Head(s) = s[1] /\ s[1] \in S
      /\ Tail(s) \in Seq(S) /\ Len(Tail(s)) = Len(s) - 1
      /\ \A k \in 1 .. Len(s) - 1 : Tail(s)[k] = s[k + 1]
    OBVIOUS
<1>2. s[1] \in Elements(s)
    BY <1>1 DEF Elements
<1>3. ASSUME NEW x \in Elements(Tail(s)) PROVE x \in Elements(s)
    <2>1. PICK k \in 1 .. Len(s) - 1 : x = Tail(s)[k]
        BY <1>1, <1>3 DEF Elements
    <2>2. k + 1 \in 1 .. Len(s) /\ x = s[k + 1]
        BY <1>1, <2>1
    <2> QED
        BY <2>2 DEF Elements
<1> QED
    BY <1>1, <1>2, <1>3

LEMMA Nobody == Elements(<<>>) = {}
BY DEF Elements
-----------------------------------------------------------------------------
(* The receiver.                                                           *)

\* A step that does not end the transfer.
LEMMA StillRunning ==
    ASSUME TransferInv, pc # "out", pc' \in {"poll", "listen", "can"},
           total' = total, result' = result, spc' \in {"ready", "send", "wait", "over"},
           crossed' \in BOOLEAN, beheaded' \in BOOLEAN,
           dest' = dest \/ X!Prefix', NEW q \in Nat, Running(q)'
    PROVE  TransferInv'
BY DEF TransferInv, X!TransferSound, X!Prefix, X!EndIsWhole

LEMMA Answers ==
    ASSUME down \in Seq(Bytes), NEW b \in Bytes, X!Out(<<b>>)
    PROVE  /\ down' \in Seq(Bytes)
           /\ spc # "ready" => Elements(down') = Elements(down) \cup {b}
<1>1. CASE spc = "ready"
    <2>1. X!Last(<<b>>) = b
        BY DEF X!Last
    <2> QED
        BY <1>1, <2>1 DEF X!Out
<1>2. CASE spc # "ready"
    <2>1. down' = down \o <<b>>
        BY <1>2 DEF X!Out
    <2>2. /\ Append(down, b) \in Seq(Bytes) /\ down \o <<b>> = Append(down, b)
          /\ Elements(Append(down, b)) = Elements(down) \cup {b}
        BY OneMore
    <2> QED
        BY <2>1, <2>2
<1> QED
    BY <1>1, <1>2

\* The receiver takes a message.
LEMMA TakesOne ==
    ASSUME NEW r \in Nat, OnTheLine(r), up # <<>>, up' = Tail(up), UNCHANGED <<total, crossed, beheaded>>,
           NEW q \in Nat, q = r \/ (q = r + 1 /\ IsPacket(Head(up)) /\ Head(up).block = q),
           total \in Nat
    PROVE  OnTheLine(q)'
<1>1. /\ Len(up) \in Nat \ {0} /\ Head(up) = up[1] /\ up[1] \in Messages
      /\ up' \in Seq(Messages) /\ Len(up') = Len(up) - 1
      /\ \A k \in 1 .. Len(up) - 1 : up'[k] = up[k + 1]
    BY OneLess DEF OnTheLine
<1>2. \A k \in 1 .. Len(up) : up[k] \in Messages
    BY DEF OnTheLine
<1>3. ASSUME NEW k \in 1 .. Len(up') PROVE Possible(up[k], q)'
    <2>1. up'[k] = up[k + 1] /\ k + 1 \in 1 .. Len(up) /\ 1 \in 1 .. Len(up) /\ 1 < k + 1
        BY <1>1
    <2>2. Possible(up[k + 1], r) /\ up[k + 1] \in Messages
        BY <1>2, <2>1 DEF OnTheLine
    <2>3. CASE q = r
        BY <2>1, <2>2, <2>3 DEF Possible, IsPacket
    <2>4. CASE q = r + 1 /\ IsPacket(up[1]) /\ up[1].block = q
        <3>1. Possible(up[1], r)
            BY <2>1 DEF OnTheLine
        <3>2. IsPacket(up[k + 1]) => q <= up[k + 1].block
            BY <2>1, <2>4 DEF OnTheLine
        <3>3. IsPacket(up[k + 1]) => up[k + 1].block \in Nat
            BY <2>2 DEF Messages, IsPacket
        <3>4. q <= total
            BY <2>4, <3>1 DEF Possible
        <3>5. up[k + 1].type = "EOT" => crossed \/ q = total
            BY <2>2, <2>4, <3>4 DEF Possible
        <3> QED
            BY <2>1, <2>2, <2>4, <3>2, <3>3, <3>5 DEF Possible, IsPacket
    <2> QED
        BY <1>1, <2>3, <2>4
<1>4. ASSUME NEW j \in 1 .. Len(up'), NEW k \in 1 .. Len(up'), j < k,
             IsPacket(up'[j]), IsPacket(up'[k])
      PROVE  up'[j].block <= up'[k].block
    <2>1. /\ up'[j] = up[j + 1] /\ j + 1 \in 1 .. Len(up)
          /\ up'[k] = up[k + 1] /\ k + 1 \in 1 .. Len(up) /\ j + 1 < k + 1
        BY <1>1, <1>4
    <2> QED
        BY <1>4, <2>1 DEF OnTheLine
<1> QED
    BY <1>1, <1>3, <1>4 DEF OnTheLine, IsPacket

LEMMA LineCleared ==
    ASSUME NEW q, up' = <<>> PROVE OnTheLine(q)'
BY DEF OnTheLine

LEMMA LineKept ==
    ASSUME NEW q, OnTheLine(q), up' = up, total' = total, crossed => crossed', beheaded => beheaded'
    PROVE  OnTheLine(q)'
BY DEF OnTheLine, Possible, IsPacket


\* The answer to a packet, with which the mode is fixed.
LEMMA AckKeeps ==
    ASSUME TransferInv, NEW r \in Nat, Running(r), pc = "listen", up # <<>>,
           X!Out(<<"ACK">>), up' = Tail(up), pc' = "poll", trychar' = "none",
           UNCHANGED <<sender, crossed, beheaded, result>>,
           NEW q \in Nat, q = r \/ q = r + 1, IsPacket(Head(up)), Head(up).block = q,
           packetno' = (q + 1) % NumMod, Stored(q)', X!Prefix'
    PROVE  TransferInv'
<1>1. /\ Len(up) \in Nat \ {0} /\ Head(up) = up[1] /\ up[1] \in Messages
      /\ Len(up') = Len(up) - 1 /\ \A k \in 1 .. Len(up) - 1 : up'[k] = up[k + 1]
      /\ 1 \in 1 .. Len(up)
    BY OneLess DEF Running, OnTheLine
<1>2. OnTheLine(q)'
    BY TakesOne DEF Running, TransferInv, sender
<1>3. q <= total
    BY <1>1 DEF Running, OnTheLine, Possible
<1>4. spc # "ready" /\ down' \in Seq(Bytes) /\ Elements(down') = Elements(down) \cup {"ACK"}
    BY Answers DEF Running, Bytes
<1>5. ASSUME spc \in {"send", "wait"} PROVE AtWork(q)'
    <2>1. AtWork(r) /\ total \in Nat
        BY <1>5 DEF Running, TransferInv
    <2>2. /\ acked' = acked /\ spc' = spc /\ total' = total /\ crossed' = crossed /\ acked \in Nat
          /\ Due'
        BY <1>4, <2>1 DEF sender, Due, AtWork
    <2>3. /\ Block(up[1]) = q /\ Block(up[1]) \in {acked, acked + 1}
          /\ ~crossed => Block(up[1]) = acked + 1
        BY <1>1, <2>1 DEF AtWork, Block, IsPacket
    <2>4. /\ r - 1 <= acked /\ acked <= (IF crossed THEN r + 1 ELSE r)
          /\ Len(up) <= Limit
        BY <2>1 DEF AtWork
    <2>5. Limit' = IF crossed THEN 2 ELSE 1
        BY <2>2 DEF Limit, Alone
    <2>6. Limit \in {1, 2} /\ (~crossed => Limit = 1)
        BY DEF Limit, Alone
    <2>7. Len(up') < Limit' /\ Len(up') <= Limit' /\ Len(up') \in {0, 1}
        BY <1>1, <2>4, <2>5, <2>6
    <2>8. ASSUME NEW k \in 1 .. Len(up')
          PROVE  up'[k].type # "CAN" /\ k = 1 /\ Block(up[2]) = acked + 1 /\ up'[k] = up[2]
        <3>1. k = 1 /\ 2 \in 1 .. Len(up) /\ up'[1] = up[2]
            BY <1>1, <2>7
        <3> QED
            BY <2>1, <3>1 DEF AtWork
    <2>9. ASSUME NEW k \in 1 .. Len(up') PROVE Block(up[k])' = acked + 1 /\ k # 2
        BY <2>2, <2>8 DEF Block
    <2>10. up' # <<>> => 1 \in 1 .. Len(up')
        BY <1>1, <1>2 DEF OnTheLine
    <2>11. q - 1 <= acked /\ acked <= (IF crossed THEN q ELSE q - 1)
        BY <2>2, <2>3
    <2> QED
        BY <2>1, <2>2, <2>7, <2>8, <2>9, <2>10, <2>11 DEF AtWork
<1>6. Running(q)'
    BY <1>2, <1>3, <1>4, <1>5 DEF Running, sender
<1> QED
    BY <1>6, StillRunning DEF TransferInv, sender

LEMMA NakKeeps ==
    ASSUME TransferInv, NEW r \in Nat, Running(r), pc = "listen", up # <<>>,
           X!Out(<<"NAK">>), up' = <<>>, pc' = "poll", trychar' = "none",
           UNCHANGED <<sender, crossed, beheaded, result, packetno, dest>>
    PROVE  TransferInv'
<1>1. spc # "ready" /\ down' \in Seq(Bytes) /\ Elements(down') = Elements(down) \cup {"NAK"}
    BY Answers DEF Running, Bytes
<1>2. ASSUME spc \in {"send", "wait"} PROVE AtWork(r)'
    <2>1. AtWork(r) /\ Len(up') = 0
        BY <1>2 DEF Running
    <2>2. Limit' \in {1, 2}
        BY DEF Limit
    <2> QED
        BY <1>1, <2>1, <2>2 DEF AtWork, sender
<1>3. Running(r)'
    BY <1>1, <1>2, LineCleared DEF Running, Stored, sender
<1> QED
    BY <1>3, StillRunning DEF TransferInv, sender

\* A message, or part of one, that is dropped.
LEMMA DropKeeps ==
    ASSUME TransferInv, NEW r \in Nat, Running(r), pc \in {"listen", "can"}, up # <<>>, up' = Tail(up),
           pc' = "poll" \/ (pc' = "can" /\ spc = "over"),
           UNCHANGED <<sender, crossed, beheaded, result, trychar, packetno, dest, down>>
    PROVE  TransferInv'
<1>1. /\ Len(up) \in Nat \ {0} /\ Len(up') = Len(up) - 1
      /\ \A k \in 1 .. Len(up) - 1 : up'[k] = up[k + 1]
    BY OneLess DEF Running, OnTheLine
<1>2. OnTheLine(r)'
    BY TakesOne DEF Running, TransferInv, sender
<1>3. ASSUME spc \in {"send", "wait"} PROVE AtWork(r)'
    <2>1. AtWork(r) /\ pc = "listen" /\ pc' = "poll" /\ Due' = Due /\ Limit \in {1, 2} /\ Limit' \in {1, 2}
        BY <1>3 DEF Running, Due, Limit, sender
    <2>2. Len(up') \in {0, 1} /\ (Due' => Len(up') = 0)
        BY <1>1, <2>1 DEF AtWork
    <2>3. ASSUME NEW k \in 1 .. Len(up')
          PROVE  k = 1 /\ up'[k] = up[2] /\ up[2].type # "CAN" /\ Block(up[2]) = acked + 1
        <3>1. k = 1 /\ 2 \in 1 .. Len(up) /\ up'[1] = up[2]
            BY <1>1, <2>2
        <3> QED
            BY <2>1, <3>1 DEF AtWork
    <2>4. ASSUME NEW k \in 1 .. Len(up') PROVE Block(up[k])' = acked + 1 /\ k # 2
        <3>1. k = 1 /\ up'[k] = up[2] /\ Block(up[2]) = acked + 1 /\ total' = total
            BY <2>3 DEF sender
        <3> QED
            BY <3>1 DEF Block
    <2>5. "ACK" \in Elements(down') => Due'
        BY DEF Due
    <2>6. up' # <<>> => Len(up') # 0
        BY <1>2 DEF OnTheLine
    <2> QED
        BY <2>1, <2>2, <2>3, <2>4, <2>5, <2>6 DEF AtWork, sender
<1>4. Running(r)'
    BY <1>2, <1>3 DEF Running, Stored, sender
<1> QED
    BY <1>4, StillRunning DEF TransferInv, sender

LEMMA SilenceKeeps ==
    ASSUME TransferInv, NEW r \in Nat, Running(r), X!Silence
    PROVE  TransferInv'
<1>1. /\ up = <<>> /\ pc' = "poll" /\ Len(up) = 0
      /\ UNCHANGED <<sender, crossed, beheaded, result, trychar, packetno, dest, up, down>>
    BY DEF X!Silence, X!sender, X!history, sender
<1>2. spc \in {"send", "wait"} => AtWork(r)'
    <2>1. Limit' \in {1, 2}
        BY DEF Limit
    <2> QED
        BY <1>1, <2>1 DEF Running, AtWork, sender
<1>3. Running(r)'
    BY <1>1, <1>2, LineKept DEF Running, Stored, sender
<1> QED
    BY <1>1, <1>3, StillRunning DEF TransferInv, sender, X!Silence

\* All polls are used up: NAK instead of C.
LEMMA FallBackKeeps ==
    ASSUME TransferInv, NEW r \in Nat, Running(r), pc # "out", pc' = "poll", trychar = "C", trychar' = "NAK",
           crossed' \in BOOLEAN, crossed => crossed',
           UNCHANGED <<sender, beheaded, result, packetno, dest, up, down>>
    PROVE  TransferInv'
<1>1. Limit = 1 /\ Limit' = 1 /\ Due' = Due
    BY DEF Limit, Alone, Due, sender
<1>2. spc \in {"send", "wait"} => AtWork(r)'
    <2> SUFFICES ASSUME spc \in {"send", "wait"} PROVE AtWork(r)'
        OBVIOUS
    <2>1. AtWork(r) /\ \A k \in 1 .. Len(up) : Block(up[k])' = Block(up[k])
        BY DEF Running, Block, sender
    <2> QED
        BY <1>1, <2>1 DEF AtWork, sender
<1>3. Running(r)'
    BY <1>2, LineKept DEF Running, Stored, sender
<1> QED
    BY <1>3, StillRunning DEF TransferInv, sender

LEMMA PromptKeeps ==
    ASSUME TransferInv, NEW r \in Nat, Running(r), X!Prompt
    PROVE  TransferInv'
<1>1. /\ pc = "poll" /\ pc' = "listen" /\ UNCHANGED <<sender, up, beheaded, result, trychar, packetno, dest>>
      /\ crossed' = (crossed \/ (trychar # "none" /\ spc # "ready"))
      /\ IF trychar = "none" THEN UNCHANGED down ELSE X!Out(<<trychar>>)
    BY DEF X!Prompt, X!receiver, X!sender, sender, X!None
<1>2. down' \in Seq(Bytes)
    BY <1>1, Answers DEF Running, Bytes
<1>3. ASSUME spc \in {"send", "wait"} PROVE AtWork(r)'
    <2>1. AtWork(r) /\ \A k \in 1 .. Len(up) : Block(up[k])' = Block(up[k])
        BY <1>1, <1>3 DEF Running, Block, sender
    <2>2. CASE trychar = "none"
        <3>1. Limit' = Limit /\ Due' = Due /\ crossed' = crossed /\ down' = down
            BY <1>1, <2>2 DEF Limit, Alone, Due, sender, TransferInv
        <3> QED
            BY <1>1, <2>1, <3>1 DEF AtWork, sender
    <2>3. CASE trychar = "C"
        <3>1. Elements(down') = Elements(down) \cup {"C"}
            BY <1>1, <1>3, <2>3, Answers DEF Running, Bytes
        <3>2. Limit' = 1 /\ Limit = 1 /\ Due' = Due /\ crossed'
            BY <1>1, <1>3, <2>3, <3>1 DEF Limit, Alone, Due, sender
        <3> QED
            BY <1>1, <2>1, <3>1, <3>2 DEF AtWork, sender
    <2>4. CASE trychar = "NAK"
        <3>1. Elements(down') = Elements(down) \cup {"NAK"}
            BY <1>1, <1>3, <2>4, Answers DEF Running, Bytes
        <3>2. Limit' = 2 /\ Limit = 1 /\ crossed'
            BY <1>1, <1>3, <2>4, <3>1 DEF Limit, Alone, Due, sender
        <3>3. Len(up) <= 1 /\ Len(up) \in Nat
            BY <2>1, <3>2 DEF AtWork, Running, OnTheLine
        <3> QED
            BY <1>1, <2>1, <3>1, <3>2, <3>3 DEF AtWork, sender
    <2> QED
        BY <2>2, <2>3, <2>4 DEF Running
<1>4. OnTheLine(r)'
    BY <1>1, LineKept DEF Running, sender
<1>5. Running(r)'
    BY <1>1, <1>2, <1>3, <1>4 DEF Running, Stored, sender
<1>6. crossed' \in BOOLEAN
    BY <1>1
<1> QED
    BY <1>1, <1>5, <1>6, StillRunning DEF TransferInv, sender

LEMMA EndKeeps ==
    ASSUME TransferInv, pc' = "out", UNCHANGED sender, beheaded' = beheaded,
           crossed' \in BOOLEAN, crossed => crossed', X!Prefix', result' = "ok" => X!EndIsWhole'
    PROVE  TransferInv'
BY DEF TransferInv, X!TransferSound, X!EndIsWhole, sender

\* The block that is expected goes behind those that are there.
LEMMA StoredNext ==
    ASSUME NEW r \in Nat, Stored(r), X!Prefix, NEW p, p.block = r + 1, dest' = X!Stored(p)
    PROVE  Stored(r + 1)' /\ X!Prefix'
<1> USE NumberAssumption DEF Stored, X!Prefix
<1>1. CASE Len(dest) < DestSize
    <2>1. Len(dest) = r /\ dest' = Append(dest, r + 1)
        BY <1>1 DEF X!Stored
    <2>2. /\ dest' \in Seq(Nat) /\ Len(dest') = r + 1 /\ dest'[r + 1] = r + 1
          /\ \A k \in 1 .. r : dest'[k] = dest[k]
        BY <2>1, OneMore, r + 1 \in Nat
    <2>3. \A k \in 1 .. r + 1 : dest'[k] = k
        <3>1. \A k \in 1 .. r + 1 : k \in 1 .. r \/ k = r + 1
            OBVIOUS
        <3> QED
            BY <2>1, <2>2, <3>1
    <2> QED
        BY <1>1, <2>1, <2>2, <2>3
<1>2. CASE ~(Len(dest) < DestSize)
    BY <1>2 DEF X!Stored
<1> QED
    BY <1>1, <1>2

LEMMA AcceptKeeps ==
    ASSUME TransferInv, NEW r \in Nat, Running(r), pc = "listen", up # <<>>,
           UNCHANGED <<sender, crossed, beheaded>>,
           NEW p, p = Head(up), IsPacket(p), X!Accept(p), X!Expected(p) \/ X!Repeated(p)
    PROVE  TransferInv'
<1>1. up \in Seq(Messages) /\ 1 \in 1 .. Len(up) /\ p = up[1] /\ p \in Messages
    BY OneLess DEF Running, OnTheLine
<1>2. /\ p.block \in Nat /\ r <= p.block /\ p.block <= r + 2 /\ p.no = p.block % NumMod
      /\ packetno = (r + 1) % NumMod /\ Stored(r) /\ X!Prefix /\ result = "none" /\ packetno \in Int
    BY <1>1, NumberAssumption
    DEF Running, OnTheLine, Possible, IsPacket, Messages, TransferInv, X!TransferSound
<1>3. PICK q \in {r, r + 1} :
          /\ p.block = q /\ q \in Nat /\ Stored(q)' /\ X!Prefix'
          /\ X!Expected(p) => q = r + 1
          /\ ~X!Expected(p) => q = r
    <2>1. CASE X!Expected(p)
        <3>1. p.block = r + 1
            BY <1>2, <2>1, NumberNames DEF X!Expected
        <3>2. dest' = X!Stored(p)
            BY <2>1 DEF X!Accept
        <3> QED
            BY <1>2, <2>1, <3>1, <3>2, StoredNext
    <2>2. CASE ~X!Expected(p)
        <3>1. p.no = packetno - 1
            BY <2>2 DEF X!Repeated
        <3>2. p.block = r
            BY <1>2, <3>1, NumberNames
        <3>3. dest' = dest
            BY <2>2 DEF X!Accept
        <3> QED
            BY <1>2, <2>2, <3>2, <3>3 DEF Stored, X!Prefix
    <2> QED
        BY <2>1, <2>2
<1>4. CASE X!Return("too many", X!Cancel)
    BY <1>3, <1>4, EndKeeps DEF X!Return, TransferInv
<1>5. CASE /\ packetno' = IF X!Expected(p) THEN X!Following(packetno) ELSE packetno
           /\ X!Continue(<<"ACK">>) /\ up' = Tail(up)
    <2>1. packetno' = (q + 1) % NumMod
        <3>1. CASE X!Expected(p)
            <4>1. packetno' = (((r + 1) % NumMod) + 1) % NumMod /\ q = r + 1
                BY <1>2, <1>3, <1>5, <3>1 DEF X!Following
            <4>2. (((r + 1) % NumMod) + 1) % NumMod = (r + 2) % NumMod
                BY NumberNames, r <= r
            <4> QED
                BY <4>1, <4>2
        <3>2. CASE ~X!Expected(p)
            BY <1>2, <1>3, <1>5, <3>2
        <3> QED
            BY <3>1, <3>2
    <2>2. X!Out(<<"ACK">>) /\ pc' = "poll" /\ trychar' = "none" /\ result' = result
        BY <1>5 DEF X!Continue, X!None
    <2> QED
        BY <1>3, <1>5, <2>1, <2>2, AckKeeps
<1> QED
    BY <1>4, <1>5 DEF X!Accept

LEMMA RejectKeeps ==
    ASSUME TransferInv, NEW r \in Nat, Running(r), pc = "listen", up # <<>>,
           UNCHANGED <<sender, crossed, beheaded>>, X!Reject
    PROVE  TransferInv'
BY NakKeeps DEF X!Reject, X!Continue, X!None

\* The end is only heard when every block was received.
LEMMA FileEnds ==
    ASSUME TransferInv, NEW r \in Nat, Running(r), UNCHANGED <<sender, crossed, beheaded>>,
           X!EndOfFile, r = total \/ crossed \/ beheaded
    PROVE  TransferInv'
<1>1. pc' = "out" /\ dest' = dest
    BY DEF X!EndOfFile, X!Return
<1>2. X!Prefix' /\ X!EndIsWhole'
    BY <1>1 DEF Running, Stored, TransferInv, X!TransferSound, X!Prefix, X!EndIsWhole, X!Whole, sender
<1> QED
    BY <1>1, <1>2, EndKeeps DEF TransferInv

LEMMA GivesUp ==
    ASSUME TransferInv, UNCHANGED <<sender, beheaded>>, crossed' \in BOOLEAN, crossed => crossed',
           NEW value, value # "ok", NEW bytes, X!Return(value, bytes), dest' = dest
    PROVE  TransferInv'
BY EndKeeps DEF X!Return, TransferInv, X!TransferSound, X!Prefix

LEMMA ExhaustedKeeps ==
    ASSUME TransferInv, NEW r \in Nat, Running(r), pc # "out", UNCHANGED <<sender, beheaded>>,
           crossed' \in BOOLEAN, crossed => crossed', X!Exhausted
    PROVE  TransferInv'
<1>1. CASE trychar = "C" /\ trychar' = "NAK" /\ pc' = "poll"
           /\ UNCHANGED <<result, down, up, packetno, dest>>
    BY <1>1, FallBackKeeps
<1>2. CASE X!Return("sync error", X!Cancel) /\ dest' = dest
    BY <1>2, GivesUp
<1> QED
    BY <1>1, <1>2 DEF X!Exhausted

LEMMA JunkKeeps ==
    ASSUME TransferInv, NEW r \in Nat, Running(r), pc = "listen", up # <<>>,
           UNCHANGED <<sender, crossed, beheaded>>, X!Junk, beheaded
    PROVE  TransferInv'
<1>0. crossed' \in BOOLEAN /\ (crossed => crossed')
    BY DEF TransferInv
<1>1. CASE X!EndOfFile
    BY <1>1, FileEnds
<1>2. CASE X!Return("canceled", <<"ACK">>) /\ UNCHANGED dest
    BY <1>0, <1>2, GivesUp
<1>3. CASE X!Reject
    BY <1>3, RejectKeeps
<1>4. CASE X!Exhausted
    BY <1>0, <1>4, ExhaustedKeeps
<1>5. CASE /\ pc' = "poll" /\ up' = Tail(up)
           /\ UNCHANGED <<trychar, crc, packetno, retrans, dest, result, down>>
    BY <1>5, DropKeeps
<1> QED
    BY <1>1, <1>2, <1>3, <1>4, <1>5 DEF X!Junk

LEMMA ListenKeeps ==
    ASSUME TransferInv, NEW r \in Nat, Running(r), X!Listen
    PROVE  TransferInv'
<1>1. /\ pc = "listen" /\ up # <<>> /\ UNCHANGED <<sender, crossed, beheaded>>
      /\ up \in Seq(Messages) /\ Possible(up[1], r) /\ Head(up) = up[1] /\ 1 \in 1 .. Len(up)
    BY OneLess DEF X!Listen, X!sender, sender, Running, OnTheLine
<1>2. CASE IsPacket(Head(up)) /\ X!Packet(Head(up))
    BY <1>1, <1>2, AcceptKeeps, RejectKeeps DEF X!Packet
<1>3. CASE IsPacket(Head(up)) /\ Head(up).fate = "beheaded" /\ X!Junk
    BY <1>1, <1>3, JunkKeeps DEF Possible
<1>4. CASE Head(up).type = "EOT" /\ X!EndOfFile
    BY <1>1, <1>4, FileEnds DEF Possible
<1>5. CASE Head(up).type = "CAN" /\ pc' = "can" /\ up' = Tail(up) /\ UNCHANGED <<X!receiver, down>>
    <2>1. spc = "over"
        BY <1>1, <1>5 DEF Running, AtWork, TransferInv
    <2> QED
        BY <1>1, <1>5, <2>1, DropKeeps DEF X!receiver
<1> QED
    BY <1>2, <1>3, <1>4, <1>5 DEF X!Listen, IsPacket

LEMMA ReceiverKeeps ==
    ASSUME TransferInv, X!xmodemReceive
    PROVE  TransferInv'
<1>1. pc # "out"
    BY DEF X!xmodemReceive, X!Prompt, X!LastPoll, X!Silence, X!Listen, X!SecondCan
<1>2. PICK r \in Nat : Running(r)
    BY <1>1 DEF TransferInv
<1>3. CASE X!LastPoll
    <2>1. /\ crossed' \in BOOLEAN /\ (crossed => crossed') /\ UNCHANGED <<sender, beheaded>> /\ X!Exhausted
        BY <1>3 DEF X!LastPoll, X!sender, sender, TransferInv
    <2> QED
        BY <1>1, <1>2, <2>1, ExhaustedKeeps
<1>4. CASE X!SecondCan
    <2>1. /\ pc = "can" /\ up # <<>> /\ UNCHANGED <<sender, crossed, beheaded, dest>>
        BY <1>4 DEF X!SecondCan, X!sender, X!history, sender
    <2>2. CASE X!Return("canceled", <<"ACK">>)
        BY <2>1, <2>2, GivesUp DEF TransferInv
    <2>3. CASE pc' = "poll" /\ up' = Tail(up)
               /\ UNCHANGED <<trychar, crc, packetno, retrans, down, result>>
        BY <1>2, <2>1, <2>3, DropKeeps
    <2> QED
        BY <1>4, <2>2, <2>3 DEF X!SecondCan
<1> QED
    BY <1>2, <1>3, <1>4, PromptKeeps, SilenceKeeps, ListenKeeps DEF X!xmodemReceive
-----------------------------------------------------------------------------
(* The sender.                                                             *)

\* Once the transfer has returned it disturbs nothing.
LEMMA SenderAlone ==
    ASSUME TransferInv, pc = "out", UNCHANGED <<pc, receiver, total>>, crossed' = crossed,
           beheaded' \in BOOLEAN, beheaded => beheaded', spc' \in {"ready", "send", "wait", "over"}
    PROVE  TransferInv'
BY DEF TransferInv, X!TransferSound, X!Prefix, X!EndIsWhole, X!Whole, receiver

\* While it runs, it is up to the sender to keep its part.
LEMMA SenderKeeps ==
    ASSUME TransferInv, NEW r \in Nat, Running(r), pc # "out",
           UNCHANGED <<receiver, total, crossed>>, beheaded' \in BOOLEAN,
           OnTheLine(r)', down' \in Seq(Bytes), spc' \in {"send", "wait", "over"},
           spc' # "over" => pc # "can" /\ AtWork(r)'
    PROVE  TransferInv'
<1>1. Running(r)'
    BY DEF Running, Stored, receiver
<1> QED
    BY <1>1, StillRunning DEF TransferInv, receiver

LEMMA StartKeeps ==
    ASSUME TransferInv, NEW r \in Nat, Running(r), pc # "out", X!Start
    PROVE  TransferInv'
<1>1. /\ spc = "ready" /\ spc' = "send" /\ down' = <<>> /\ UNCHANGED <<receiver, total, crossed, beheaded, up, acked>>
    BY DEF X!Start, X!receiver, X!history, receiver
<1>2. up = <<>> /\ r = 0 /\ acked = 0 /\ Len(up) = 0 /\ pc # "can"
    BY <1>1 DEF Running
<1>3. Limit' \in {1, 2}
    BY DEF Limit
<1>4. AtWork(r)'
    BY <1>1, <1>2, <1>3 DEF AtWork, TransferInv
<1>5. OnTheLine(r)'
    BY <1>1, <1>2, LineCleared
<1> QED
    BY <1>1, <1>2, <1>4, <1>5, SenderKeeps DEF TransferInv

\* The message that is sent now is about the block after the last acked one.
LEMMA SentIsPossible ==
    ASSUME TransferInv, NEW r \in Nat, Running(r), spc = "send",
           NEW fate \in X!Fates, fate = "beheaded" => beheaded', UNCHANGED <<total, crossed>>,
           NEW m, m = X!Message(fate)
    PROVE  /\ m \in Messages /\ Possible(m, r)' /\ m.type # "CAN"
           /\ Block(m) = acked + 1 /\ (IsPacket(m) => m.block = acked + 1)
<1> USE NumberAssumption
<1>1. /\ acked \in Nat /\ acked <= total /\ r - 1 <= acked /\ acked <= (IF crossed THEN r + 1 ELSE r)
      /\ r <= total /\ total \in Nat
    BY DEF Running, AtWork, TransferInv
<1>2. CASE acked = total
    <2>1. m = [type |-> "EOT"]
        BY <1>2 DEF X!Message
    <2>2. m \in Messages /\ m.type = "EOT"
        BY <2>1 DEF Messages
    <2>3. ~crossed => r = total
        BY <1>1, <1>2
    <2> QED
        BY <1>2, <2>2, <2>3 DEF Possible, IsPacket, Block
<1>3. CASE acked # total
    <2>1. m = [type |-> "packet", no |-> (acked + 1) % NumMod, block |-> acked + 1,
               crc |-> mode = "C", fate |-> fate]
        BY <1>3 DEF X!Message
    <2>2. /\ m.type = "packet" /\ m.no = (acked + 1) % NumMod /\ m.block = acked + 1 /\ m.fate = fate
        BY <2>1
    <2>3. m \in Messages
        <3>1. (acked + 1) % NumMod \in Nat /\ acked + 1 \in Nat /\ (mode = "C") \in BOOLEAN
            BY <1>1
        <3> QED
            BY <2>1, <3>1 DEF Messages
    <2>4. r <= acked + 1 /\ acked + 1 <= r + 2 /\ acked + 1 <= total
        BY <1>1, <1>3
    <2> QED
        BY <2>2, <2>3, <2>4 DEF Possible, IsPacket, Block
<1> QED
    BY <1>2, <1>3

LEMMA SendKeeps ==
    ASSUME TransferInv, NEW r \in Nat, Running(r), pc # "out", X!Send
    PROVE  TransferInv'
<1>1. /\ spc = "send" /\ spc' = "wait" /\ down' = <<>> /\ UNCHANGED <<receiver, total, acked, crossed>>
      /\ pc # "can"
    BY DEF X!Send, X!receiver, receiver, Running
<1>2. PICK fate \in X!Fates \cup {"lost"} :
          /\ up' = IF fate = "lost" THEN up ELSE Append(up, X!Message(fate))
          /\ beheaded' = (beheaded \/ fate = "beheaded")
    BY DEF X!Send
<1>3. beheaded' \in BOOLEAN /\ (beheaded => beheaded')
    BY <1>2 DEF TransferInv
<1>4. /\ AtWork(r) /\ Len(up) < Limit /\ Limit' = Limit /\ Limit \in {1, 2} /\ Len(up) \in Nat
      /\ (~crossed => Limit = 1) /\ up \in Seq(Messages)
    BY <1>1 DEF Running, AtWork, Due, Limit, Alone, receiver, OnTheLine
<1>5. "ACK" \notin Elements(down') /\ ~Due'
    BY <1>1, Nobody DEF Due
<1>6. CASE fate = "lost"
    <2>1. \A k \in 1 .. Len(up) : Block(up[k])' = Block(up[k])
        BY <1>1, <1>2, <1>6 DEF Block
    <2>2. AtWork(r)'
        BY <1>1, <1>2, <1>4, <1>5, <1>6, <2>1 DEF AtWork
    <2>3. OnTheLine(r)'
        BY <1>1, <1>2, <1>3, <1>6, LineKept DEF Running
    <2> QED
        BY <1>1, <1>3, <2>2, <2>3, SenderKeeps
<1>7. CASE fate # "lost"
    <2>0. PICK m : m = X!Message(fate)
        OBVIOUS
    <2>1. /\ m \in Messages /\ Possible(m, r)' /\ m.type # "CAN"
          /\ Block(m) = acked + 1 /\ (IsPacket(m) => m.block = acked + 1)
        <3>1. fate \in X!Fates /\ (fate = "beheaded" => beheaded')
            BY <1>2, <1>7
        <3> QED
            BY <1>1, <2>0, <3>1, SentIsPossible
    <2>2. up' = Append(up, m)
        BY <1>2, <1>7, <2>0
    <2>3. /\ up' \in Seq(Messages) /\ Len(up') = Len(up) + 1 /\ up'[Len(up) + 1] = m
          /\ \A k \in 1 .. Len(up) : up'[k] = up[k]
        BY <1>4, <2>1, <2>2, OneMore
    <2>4. \A k \in 1 .. Len(up') : k \in 1 .. Len(up) \/ k = Len(up) + 1
        BY <1>4, <2>3
    <2>5. \A k \in 1 .. Len(up) : Block(up[k]) = acked \/ Block(up[k]) = acked + 1
        BY <1>4 DEF AtWork
    <2>6. OnTheLine(r)'
        <3>1. ASSUME NEW k \in 1 .. Len(up') PROVE Possible(up[k], r)'
            <4>1. CASE k \in 1 .. Len(up)
                BY <1>1, <1>3, <2>3, <4>1 DEF Running, OnTheLine, Possible, IsPacket
            <4>2. CASE k = Len(up) + 1
                <5>1. up'[k] = m
                    BY <2>3, <4>2
                <5> QED
                    BY <2>1, <5>1 DEF Possible, IsPacket
            <4> QED
                BY <2>4, <4>1, <4>2
        <3>2. ASSUME NEW j \in 1 .. Len(up'), NEW k \in 1 .. Len(up'), j < k,
                     IsPacket(up'[j]), IsPacket(up'[k])
              PROVE  up'[j].block <= up'[k].block
            <4>1. j \in 1 .. Len(up)
                BY <1>4, <2>3, <3>2
            <4>2. CASE k \in 1 .. Len(up)
                BY <2>3, <3>2, <4>1, <4>2 DEF Running, OnTheLine
            <4>3. CASE k = Len(up) + 1
                <5>1. up'[k] = m /\ up'[j] = up[j] /\ up[j].block = Block(up[j])
                    BY <2>3, <3>2, <4>1, <4>3 DEF Block, IsPacket
                <5>2. up'[k].block = acked + 1 /\ (up'[j].block = acked \/ up'[j].block = acked + 1)
                    BY <2>1, <2>5, <3>2, <4>1, <5>1
                <5> QED
                    BY <1>4, <5>2 DEF AtWork
            <4> QED
                BY <2>4, <4>2, <4>3
        <3> QED
            BY <2>3, <3>1, <3>2 DEF OnTheLine, IsPacket
    <2>7. ASSUME NEW k \in 1 .. Len(up')
          PROVE  /\ up'[k].type # "CAN"
                 /\ Block(up[k])' = acked \/ Block(up[k])' = acked + 1
                 /\ ~crossed \/ k = 2 => Block(up[k])' = acked + 1
        <3>1. CASE k \in 1 .. Len(up)
            <4>1. up'[k] = up[k] /\ Block(up[k])' = Block(up[k]) /\ crossed /\ k # 2
                BY <1>1, <1>4, <2>3, <3>1 DEF Block
            <4> QED
                BY <1>4, <3>1, <4>1 DEF AtWork
        <3>2. CASE k = Len(up) + 1
            <4>1. up'[k] = m
                BY <2>3, <3>2
            <4> QED
                BY <1>1, <2>1, <4>1 DEF Block
        <3> QED
            BY <2>4, <3>1, <3>2
    <2>8. AtWork(r)'
        BY <1>1, <1>4, <1>5, <2>3, <2>7 DEF AtWork
    <2> QED
        BY <1>1, <1>3, <2>6, <2>8, SenderKeeps
<1> QED
    BY <1>6, <1>7

\* An answer that changes nothing, or is lost.
LEMMA IgnoredKeeps ==
    ASSUME TransferInv, NEW r \in Nat, Running(r), pc # "out", spc = "wait", down # <<>>, down' = Tail(down),
           UNCHANGED <<receiver, sender, up, crossed, beheaded>>
    PROVE  TransferInv'
<1>1. down' \in Seq(Bytes) /\ Elements(down') \subseteq Elements(down)
    BY OneLess DEF Running
<1>2. /\ AtWork(r) /\ Limit' = Limit /\ (Due' => Due) /\ pc # "can"
      /\ \A k \in 1 .. Len(up) : Block(up[k])' = Block(up[k])
    BY <1>1 DEF Running, Limit, Alone, Due, Block, receiver, sender
<1>3. AtWork(r)'
    BY <1>1, <1>2 DEF AtWork, sender
<1>4. OnTheLine(r)'
    BY LineKept DEF Running, sender
<1> QED
    BY <1>1, <1>2, <1>3, <1>4, SenderKeeps DEF TransferInv, sender

\* The sender leaves, and what it sent stays on the line.
LEMMA LeaveKeeps ==
    ASSUME TransferInv, NEW r \in Nat, Running(r), pc # "out",
           UNCHANGED <<receiver, total, crossed, beheaded>>, spc' = "over",
           up' = up \/ up' = up \o <<[type |-> "CAN"], [type |-> "CAN"]>>, down' \in Seq(Bytes)
    PROVE  TransferInv'
<1>1. CASE up' = up
    <2>1. OnTheLine(r)'
        BY <1>1, LineKept DEF Running
    <2> QED
        BY <2>1, SenderKeeps DEF TransferInv
<1>2. CASE up' = up \o <<[type |-> "CAN"], [type |-> "CAN"]>>
    <2>1. PICK can : can = [type |-> "CAN"]
        OBVIOUS
    <2>2. can \in Messages /\ can.type = "CAN" /\ up \in Seq(Messages) /\ Len(up) \in Nat
        BY <2>1 DEF Messages, Running, OnTheLine
    <2>3. /\ up' \in Seq(Messages) /\ Len(up') = Len(up) + 2
          /\ \A k \in 1 .. Len(up) : up'[k] = up[k]
          /\ up'[Len(up) + 1] = can /\ up'[Len(up) + 2] = can
        BY <1>2, <2>1, <2>2
    <2>4. ASSUME NEW k \in 1 .. Len(up')
          PROVE  \/ k \in 1 .. Len(up) /\ up'[k] = up[k]
                 \/ k > Len(up) /\ up'[k].type = "CAN"
        <3>1. k \in 1 .. Len(up) \/ k = Len(up) + 1 \/ k = Len(up) + 2
            BY <2>2, <2>3
        <3> QED
            BY <2>2, <2>3, <3>1
    <2>5. OnTheLine(r)'
        <3>1. ASSUME NEW k \in 1 .. Len(up') PROVE Possible(up[k], r)'
            BY <2>4 DEF Running, OnTheLine, Possible, IsPacket
        <3>2. ASSUME NEW j \in 1 .. Len(up'), NEW k \in 1 .. Len(up'), j < k,
                     IsPacket(up'[j]), IsPacket(up'[k])
              PROVE  up'[j].block <= up'[k].block
            <4>1. j \in 1 .. Len(up) /\ up'[j] = up[j] /\ k \in 1 .. Len(up) /\ up'[k] = up[k]
                BY <2>4, <3>2 DEF IsPacket
            <4> QED
                BY <3>2, <4>1 DEF Running, OnTheLine
        <3> QED
            BY <2>3, <3>1, <3>2 DEF OnTheLine, IsPacket
    <2> QED
        BY <2>5, SenderKeeps DEF TransferInv
<1> QED
    BY <1>1, <1>2

\* A message is sent once more, or the sender gives up.
LEMMA AgainKeeps ==
    ASSUME TransferInv, NEW r \in Nat, Running(r), pc # "out", spc = "wait",
           UNCHANGED <<receiver, total, crossed, beheaded>>, down' \in Seq(Bytes), X!Again,
           up = <<>> \/ Due
    PROVE  TransferInv'
<1>1. CASE spc' = "send" /\ UNCHANGED <<up, acked, mode>>
    <2>1. /\ AtWork(r) /\ Limit' = Limit /\ Limit \in {1, 2} /\ pc # "can" /\ Len(up) < Limit
          /\ \A k \in 1 .. Len(up) : Block(up[k])' = Block(up[k])
        BY <1>1 DEF Running, Limit, Alone, Block, receiver, AtWork
    <2>2. AtWork(r)'
        BY <1>1, <2>1 DEF AtWork
    <2>3. OnTheLine(r)'
        BY <1>1, LineKept DEF Running
    <2> QED
        BY <1>1, <2>1, <2>2, <2>3, SenderKeeps DEF TransferInv
<1>2. CASE X!Leave /\ up' = up \o <<[type |-> "CAN"], [type |-> "CAN"]>>
    BY <1>2, LeaveKeeps DEF X!Leave
<1> QED
    BY <1>1, <1>2 DEF X!Again

\* An ACK moves the sender on.
LEMMA AckedKeeps ==
    ASSUME TransferInv, NEW r \in Nat, Running(r), pc # "out", spc = "wait", spc' = "send",
           "ACK" \in Elements(down), acked < total, acked' = acked + 1, down' \in Seq(Bytes),
           UNCHANGED <<receiver, total, crossed, beheaded, up>>
    PROVE  TransferInv'
<1>1. /\ AtWork(r) /\ Limit' = Limit /\ Limit \in {1, 2} /\ (~crossed => Limit = 1) /\ pc # "can" /\ Due
      /\ \A k \in 1 .. Len(up) : Block(up[k])' = Block(up[k])
      /\ up \in Seq(Messages) /\ Len(up) \in Nat /\ total \in Nat /\ (Len(up) # 0 => up # <<>>)
    BY DEF Running, Limit, Alone, Block, receiver, Due, TransferInv, OnTheLine
<1>2. /\ Len(up) < Limit /\ acked \in Nat /\ r - 1 <= acked + 1 /\ acked + 1 <= total
      /\ acked + 1 <= (IF crossed THEN r + 1 ELSE r)
    BY <1>1 DEF AtWork
<1>3. ASSUME NEW k \in 1 .. Len(up)
      PROVE  up[k].type # "CAN" /\ Block(up[k]) = acked + 1 /\ k # 2 /\ crossed
    <2>1. k = 1 /\ up # <<>> /\ crossed
        BY <1>1, <1>2
    <2> QED
        BY <1>1, <2>1 DEF AtWork
<1>4. AtWork(r)'
    BY <1>1, <1>2, <1>3 DEF AtWork
<1>5. OnTheLine(r)'
    BY LineKept DEF Running
<1> QED
    BY <1>1, <1>4, <1>5, SenderKeeps DEF TransferInv

LEMMA HearKeeps ==
    ASSUME TransferInv, NEW r \in Nat, Running(r), pc # "out", X!Hear
    PROVE  TransferInv'
<1>1. /\ spc = "wait" /\ down # <<>> /\ down' = Tail(down)
      /\ UNCHANGED <<receiver, total, crossed, beheaded>>
    BY DEF X!Hear, X!receiver, X!history, receiver
<1>2. down' \in Seq(Bytes) /\ Head(down) \in Elements(down)
    BY <1>1, OneLess DEF Running
<1>3. CASE Head(down) = "ACK" /\ acked < total /\ acked' = acked + 1 /\ spc' = "send" /\ UNCHANGED up
    BY <1>1, <1>2, <1>3, AckedKeeps
<1>4. CASE X!Leave /\ UNCHANGED up
    BY <1>1, <1>2, <1>4, LeaveKeeps DEF X!Leave
<1>5. CASE Head(down) = "NAK" /\ X!Again
    BY <1>1, <1>2, <1>5, AgainKeeps DEF Due
<1>6. CASE UNCHANGED <<acked, tries, spc, mode, up>>
    BY <1>1, <1>6, IgnoredKeeps DEF sender
<1> QED
    BY <1>3, <1>4, <1>5, <1>6 DEF X!Hear

LEMMA LineKeeps ==
    ASSUME TransferInv, X!Line
    PROVE  TransferInv'
<1>1. CASE pc = "out"
    <2>1. /\ UNCHANGED <<pc, receiver, total, crossed>> /\ beheaded' \in BOOLEAN /\ (beheaded => beheaded')
        BY DEF TransferInv, X!Line, X!Start, X!Send, X!Hear, X!SenderTimeout, X!LoseReply, X!receiver,
               receiver, X!history, X!sender
    <2>2. spc' \in {"ready", "send", "wait", "over"}
        BY DEF TransferInv, X!Line, X!Start, X!Send, X!Hear, X!SenderTimeout, X!LoseReply, X!sender,
               X!Again, X!Leave
    <2> QED
        BY <1>1, <2>1, <2>2, SenderAlone
<1>2. CASE pc # "out"
    <2>1. PICK r \in Nat : Running(r)
        BY <1>2 DEF TransferInv
    <2>2. CASE X!SenderTimeout
        <3>1. /\ spc = "wait" /\ up = <<>> /\ X!Again
              /\ UNCHANGED <<receiver, total, crossed, beheaded, down>>
            BY <2>2 DEF X!SenderTimeout, X!receiver, X!history, receiver
        <3> QED
            BY <1>2, <2>1, <3>1, AgainKeeps DEF Running
    <2>3. CASE X!LoseReply
        <3>1. /\ spc = "wait" /\ down # <<>> /\ down' = Tail(down)
              /\ UNCHANGED <<receiver, sender, up, crossed, beheaded>>
            BY <2>3 DEF X!LoseReply, X!receiver, X!sender, receiver, sender
        <3> QED
            BY <1>2, <2>1, <3>1, IgnoredKeeps
    <2> QED
        BY <1>2, <2>1, <2>2, <2>3, StartKeeps, SendKeeps, HearKeeps DEF X!Line
<1> QED
    BY <1>1, <1>2
-----------------------------------------------------------------------------
\* Every call starts a transfer anew.
LEMMA CallStarts ==
    ASSUME X!Call PROVE TransferInv'
<1> USE NumberAssumption
<1>1. /\ pc' = "poll" /\ trychar' = "C" /\ packetno' = 1 % NumMod /\ dest' = <<>> /\ result' = "none"
      /\ total' \in Nat /\ acked' = 0 /\ spc' = "ready" /\ up' = <<>> /\ down' = <<>>
      /\ crossed' = FALSE /\ beheaded' = FALSE
    BY DEF X!Call, X!None
<1>2. Running(0)'
    <2>1. packetno' = (0 + 1) % NumMod
        BY <1>1
    <2> QED
        BY <1>1, <2>1, LineCleared DEF Running, Stored
<1>3. (\E r \in Nat : Running(r))'
    BY <1>2, 0 \in Nat
<1>4. X!TransferSound'
    <2>1. Len(dest') = 0 /\ 1 .. 0 = {} /\ result' # "ok"
        BY <1>1
    <2> QED
        BY <2>1 DEF X!TransferSound, X!Prefix, X!EndIsWhole
<1> QED
    BY <1>1, <1>3, <1>4 DEF TransferInv

LEMMA NobodyMoves ==
    ASSUME TransferInv, UNCHANGED <<receiver, sender, crossed, beheaded>>,
           pc = "out" \/ UNCHANGED <<up, down>>
    PROVE  TransferInv'
<1>1. CASE pc = "out"
    BY <1>1 DEF TransferInv, X!TransferSound, X!Prefix, X!EndIsWhole, X!Whole, receiver, sender
<1>2. CASE pc # "out"
    <2>1. PICK r \in Nat : Running(r)
        BY <1>2 DEF TransferInv
    <2>2. OnTheLine(r)'
        BY <1>2, <2>1, LineKept DEF Running, sender
    <2>3. ASSUME spc \in {"send", "wait"} PROVE AtWork(r)'
        <3>1. /\ AtWork(r) /\ Limit' = Limit /\ Due' = Due
              /\ \A k \in 1 .. Len(up) : Block(up[k])' = Block(up[k])
            BY <1>2, <2>1, <2>3 DEF Running, Limit, Alone, Due, Block, receiver, sender
        <3> QED
            BY <1>2, <3>1 DEF AtWork, sender
    <2>4. Running(r)'
        BY <1>2, <2>1, <2>2, <2>3 DEF Running, Stored, receiver, sender
    <2> QED
        BY <1>2, <2>1, <2>4, StillRunning DEF TransferInv, receiver, sender
<1> QED
    BY <1>1, <1>2

LEMMA TransferStep ==
    ASSUME TransferInv, [LoaderNext]_vars PROVE TransferInv'
<1> USE DEF xmodemVars, history
<1>1. CASE Type
    <2>1. X!Call \/ UNCHANGED xmodemVars
        BY <1>1 DEF Type, Press
    <2> QED
        BY <2>1, CallStarts, NobodyMoves
<1>2. CASE Stray
    BY <1>2, NobodyMoves DEF Stray
<1>3. CASE Back
    BY <1>3, NobodyMoves DEF Back
<1>4. CASE Transfer
    BY <1>4, ReceiverKeeps, LineKeeps DEF Transfer
<1>5. CASE UNCHANGED vars
    BY <1>5, NobodyMoves DEF vars
<1> QED
    BY <1>1, <1>2, <1>3, <1>4, <1>5 DEF LoaderNext

(* What is in memory is the beginning of the file, each block once, and a  *)
(* normal end means that it is all there, unless a header was lost or a    *)
(* prompt crossed the start: whatever noise does, for files of any length. *)
THEOREM FileArrives == LoaderSpec => []TransferSound
<1>1. LoaderInit => TransferInv
    <2> SUFFICES ASSUME LoaderInit PROVE TransferInv
        OBVIOUS
    <2>1. /\ pc = "out" /\ dest = <<>> /\ result = "none" /\ total = 0 /\ spc = "over"
          /\ crossed = FALSE /\ beheaded = FALSE
        BY DEF LoaderInit, X!Init, X!None
    <2>2. Len(dest) = 0 /\ 1 .. 0 = {} /\ 0 \in Nat
        BY <2>1
    <2> QED
        BY <2>1, <2>2 DEF TransferInv, X!TransferSound, X!Prefix, X!EndIsWhole
<1>2. TransferInv => TransferSound
    BY DEF TransferInv, TransferSound
<1>3. TransferInv /\ [LoaderNext]_vars => TransferInv'
    BY TransferStep
<1> QED
    BY <1>1, <1>2, <1>3, PTL DEF LoaderSpec
-----------------------------------------------------------------------------
(***************************************************************************)
(* The command line.  First the numbers of a line: what get_hex reads.     *)
(***************************************************************************)

\* A set of natural numbers has a least element.
LEMMA Least ==
    ASSUME NEW set, set \subseteq Nat, set # {}
    PROVE  \E x \in set : \A y \in set : x <= y
<1> DEFINE R == {ss \in Nat \X Nat : ss[1] < ss[2]}
<1>1. IsWellFoundedOn(R, Nat)
    BY NatLessThanWellFounded, Zenon DEF OpToRel
<1>2. \A x, y \in Nat : y < x => <<y, x>> \in R
    OBVIOUS
<1> HIDE DEF R
<1>3. \E x \in set : \A y \in set : ~ (<<y, x>> \in R)
    BY <1>1, WFMin, Zenon
<1>4. \E x \in set : \A y \in set : ~(y < x)
    BY <1>2, <1>3, Zenon
<1> QED
    BY <1>4

\* n digits from a position on, as far as get_hex looks.
IsRun(b, start, n) ==
    /\ n \in 0 .. HexMax + 1
    /\ \A k \in 0 .. n - 1 : b[start + k] \in Digits
    /\ n <= HexMax => b[start + n] \notin Digits

Hex(b, start, n) ==
    [found  |-> n > 0,
     value  |-> IF n > HexMax THEN [k \in 1 .. HexMax |-> b[start + 1 + k - 1]]
                              ELSE [k \in 1 .. n |-> b[start + k - 1]],
     length |-> IF n > HexMax THEN HexMax ELSE n]

LEMMA HexIs ==
    ASSUME NEW b, NEW start \in Nat, NEW n, IsRun(b, start, n)
    PROVE  get_hex(b, start) = Hex(b, start, n)
<1> USE LineFits DEF IsRun
<1> DEFINE stops == {k \in 0 .. HexMax : b[start + k] \notin Digits}
           run   == IF stops = {} THEN HexMax + 1
                    ELSE CHOOSE k \in stops : \A m \in stops : k <= m
<1>1. run = n
    <2>1. CASE n = HexMax + 1
        <3>1. stops = {}
            BY <2>1
        <3> QED
            BY <2>1, <3>1
    <2>2. CASE n <= HexMax
        <3>1. n \in stops /\ \A m \in stops : m \in Nat /\ n <= m
            <4>1. n \in stops
                BY <2>2
            <4>2. ASSUME NEW m \in stops, m < n PROVE FALSE
                <5>1. m \in 0 .. n - 1 /\ b[start + m] \notin Digits
                    BY <4>2
                <5> QED
                    BY <5>1
            <4> QED
                BY <4>1, <4>2
        <3> HIDE DEF stops
        <3>2. \A k \in stops : (\A m \in stops : k <= m) => k = n
            BY <3>1
        <3>3. (CHOOSE k \in stops : \A m \in stops : k <= m) = n
            BY <3>1, <3>2
        <3> QED
            BY <3>1, <3>3
    <2> QED
        BY <2>1, <2>2
<1>2. get_hex(b, start) =
        LET first == IF run > HexMax THEN start + 1 ELSE start
        IN  [found  |-> run > 0,
             value  |-> [k \in 1 .. (IF run > HexMax THEN HexMax ELSE run) |-> b[first + k - 1]],
             length |-> IF run > HexMax THEN HexMax ELSE run]
    BY DEF get_hex
<1> HIDE DEF run
<1>3. get_hex(b, start) =
        LET first == IF n > HexMax THEN start + 1 ELSE start
        IN  [found  |-> n > 0,
             value  |-> [k \in 1 .. (IF n > HexMax THEN HexMax ELSE n) |-> b[first + k - 1]],
             length |-> IF n > HexMax THEN HexMax ELSE n]
    BY <1>1, <1>2
<1>4. CASE n > HexMax
    BY <1>3, <1>4 DEF Hex
<1>5. CASE ~(n > HexMax)
    BY <1>3, <1>5 DEF Hex
<1> QED
    BY <1>4, <1>5

LEMMA RunExists ==
    ASSUME NEW b, NEW start \in Nat
    PROVE  \E n : IsRun(b, start, n)
<1> USE LineFits DEF IsRun
<1> DEFINE stops == {k \in 0 .. HexMax : b[start + k] \notin Digits}
<1>1. CASE stops = {}
    <2>1. ASSUME NEW k \in 0 .. (HexMax + 1) - 1 PROVE b[start + k] \in Digits
        <3>1. k \in 0 .. HexMax
            OBVIOUS
        <3>2. ~(k \in stops)
            BY <1>1
        <3> QED
            BY <3>1, <3>2
    <2>2. IsRun(b, start, HexMax + 1)
        BY <2>1
    <2> QED
        BY <2>2
<1>2. CASE stops # {}
    <2>1. PICK n \in stops : \A m \in stops : n <= m
        <3>1. stops \subseteq Nat
            OBVIOUS
        <3> HIDE DEF stops
        <3> QED
            BY <1>2, <3>1, Least
    <2>2. IsRun(b, start, n)
        BY <2>1
    <2> QED
        BY <2>2
<1> QED
    BY <1>1, <1>2

\* Lines that agree up to a NUL behind a CR are parsed alike.
LEMMA HexLocal ==
    ASSUME NEW b, NEW c, NEW start \in Nat, NEW m \in Nat, start <= m,
           \A k \in 0 .. m : b[k] = c[k], b[m] \notin Digits
    PROVE  get_hex(b, start) = get_hex(c, start)
<1> USE LineFits
<1>1. PICK n : IsRun(b, start, n)
    BY RunExists
<1>2. n \in 0 .. HexMax + 1 /\ start + n <= m
    <2>1. n \in 0 .. HexMax + 1
        BY <1>1 DEF IsRun
    <2>2. ASSUME start + n > m PROVE FALSE
        <3>1. m - start \in 0 .. n - 1 /\ start + (m - start) = m
            BY <2>1, <2>2
        <3> QED
            BY <1>1, <3>1 DEF IsRun
    <2> QED
        BY <2>1, <2>2
<1>3. \A k \in 0 .. n : start + k \in 0 .. m /\ b[start + k] = c[start + k]
    BY <1>2
<1>4. IsRun(c, start, n)
    BY <1>1, <1>2, <1>3 DEF IsRun
<1>5. Hex(b, start, n) = Hex(c, start, n)
    <2>1. CASE n > HexMax
        <3>1. \A k \in 1 .. HexMax : b[start + 1 + k - 1] = c[start + 1 + k - 1]
            <4>1. \A k \in 1 .. HexMax : k \in 0 .. n /\ start + 1 + k - 1 = start + k
                BY <1>2, <2>1
            <4> QED
                BY <1>3, <4>1
        <3>2. [k \in 1 .. HexMax |-> b[start + 1 + k - 1]] = [k \in 1 .. HexMax |-> c[start + 1 + k - 1]]
            BY <3>1
        <3> QED
            BY <2>1, <3>2 DEF Hex
    <2>2. CASE ~(n > HexMax)
        <3>1. \A k \in 1 .. n : b[start + k - 1] = c[start + k - 1]
            <4>1. \A k \in 1 .. n : k - 1 \in 0 .. n /\ start + (k - 1) = start + k - 1
                BY <1>2, <2>2
            <4> QED
                BY <1>3, <4>1
        <3>2. [k \in 1 .. n |-> b[start + k - 1]] = [k \in 1 .. n |-> c[start + k - 1]]
            BY <3>1
        <3> QED
            BY <2>2, <3>2 DEF Hex
    <2> QED
        BY <2>1, <2>2
<1> QED
    BY <1>1, <1>4, <1>5, HexIs

LEMMA ParseLocal ==
    ASSUME NEW b, NEW c, NEW m \in Nat, 2 <= m,
           \A k \in 0 .. m : b[k] = c[k], b[m - 1] = "CR", b[m] = "NUL"
    PROVE  parse(b) = parse(c)
<1> USE LineFits
<1>1. b[0] = c[0] /\ b[1] = c[1] /\ "NUL" \notin Digits /\ "CR" \notin Digits
    BY DEF Digits
<1>2. CASE m = 2
    BY <1>1, <1>2 DEF parse
<1>3. CASE m # 2
    <2>1. get_hex(b, 2) = get_hex(c, 2)
        BY <1>1, HexLocal
    <2>2. get_hex(b, 2).length \in Nat /\ 3 + get_hex(b, 2).length <= m
        <3>1. PICK n : IsRun(b, 2, n)
            BY RunExists
        <3>2. get_hex(b, 2).length = IF n > HexMax THEN HexMax ELSE n
            BY <3>1, HexIs DEF Hex
        <3>3. n \in 0 .. HexMax + 1
            BY <3>1 DEF IsRun
        <3>4. ASSUME 2 + n > m - 1 PROVE FALSE
            <4>1. m - 3 \in 0 .. n - 1 /\ 2 + (m - 3) = m - 1
                BY <1>3, <3>3, <3>4
            <4> QED
                BY <1>1, <3>1, <4>1 DEF IsRun
        <3> QED
            BY <3>2, <3>3, <3>4
    <2>3. get_data(b) = get_data(c)
        BY <1>1, <2>1, <2>2, HexLocal DEF get_data
    <2> QED
        BY <1>1, <2>1, <2>3 DEF parse
<1> QED
    BY <1>2, <1>3
-----------------------------------------------------------------------------
(* What a line asks for.                                                   *)

IsLongest(s, from, n) ==
    \/ n = 0 /\ from > Len(s)
    \/ /\ n \in Nat /\ from + n - 1 <= Len(s)
       /\ \A k \in from .. (from + n - 1) : s[k] \in Digits
       /\ from + n > Len(s) \/ s[from + n] \notin Digits

LEMMA LongestIs ==
    ASSUME NEW s, Len(s) \in Nat, NEW from \in Nat \ {0}, NEW n, IsLongest(s, from, n)
    PROVE  Longest(s, from) = n
<1> DEFINE Fits(m) == /\ from + m - 1 <= Len(s) \/ m = 0
                      /\ \A k \in from .. (from + m - 1) : s[k] \in Digits
                      /\ from + m > Len(s) \/ s[from + m] \notin Digits
<1>1. n \in 0 .. Len(s) /\ Fits(n)
    BY DEF IsLongest
<1>2. ASSUME NEW m \in 0 .. Len(s), NEW l \in 0 .. Len(s), Fits(m), Fits(l), m < l
      PROVE  FALSE
    <2>1. from + m \in from .. (from + l - 1) /\ from + m <= Len(s)
        BY <1>2
    <2> QED
        BY <1>2, <2>1
<1>3. \A m \in 0 .. Len(s) : Fits(m) => m = n
    BY <1>1, <1>2
<1>4. Longest(s, from) = CHOOSE m \in 0 .. Len(s) : Fits(m)
    BY DEF Longest
<1> HIDE DEF Fits
<1> QED
    BY <1>1, <1>3, <1>4

LEMMA LongestExists ==
    ASSUME NEW s, Len(s) \in Nat, NEW from \in Nat \ {0}
    PROVE  \E n \in Nat : IsLongest(s, from, n)
<1>1. CASE from > Len(s)
    BY <1>1 DEF IsLongest
<1>2. CASE from <= Len(s)
    <2> DEFINE stops == {k \in Nat : from + k > Len(s) \/ s[from + k] \notin Digits}
    <2>1. Len(s) \in stops
        OBVIOUS
    <2>2. PICK n \in stops : \A k \in stops : n <= k
        <3>1. stops \subseteq Nat /\ stops # {}
            BY <2>1
        <3> HIDE DEF stops
        <3> QED
            BY <3>1, Least
    <2>3. n \in Nat /\ (from + n > Len(s) \/ s[from + n] \notin Digits)
        BY <2>2
    <2>4. \A k \in 0 .. n - 1 : from + k <= Len(s) /\ s[from + k] \in Digits
        <3> TAKE k \in 0 .. n - 1
        <3>1. k \in Nat /\ ~(n <= k)
            BY <2>3
        <3>2. k \notin stops
            BY <2>2, <3>1
        <3> QED
            BY <3>1, <3>2
    <2>5. from + n - 1 <= Len(s)
        <3>1. CASE n = 0
            BY <1>2, <3>1
        <3>2. CASE n # 0
            <4>1. n - 1 \in 0 .. n - 1
                BY <2>3, <3>2
            <4>2. from + (n - 1) <= Len(s)
                BY <2>4, <4>1
            <4> QED
                BY <2>3, <4>2
        <3> QED
            BY <3>1, <3>2
    <2>6. ASSUME NEW k \in from .. (from + n - 1) PROVE s[k] \in Digits
        <3>1. k - from \in 0 .. n - 1 /\ from + (k - from) = k
            BY <2>3
        <3> QED
            BY <2>4, <3>1
    <2> QED
        BY <2>3, <2>5, <2>6 DEF IsLongest
<1> QED
    BY <1>1, <1>2

\* The buffer b holds the text s, and behind it the end of a line.
TextIs(b, s) ==
    /\ s = [k \in 1 .. Len(s) |-> b[k - 1]] /\ Len(s) \in 0 .. LineMax
    /\ \/ b[Len(s)] = "CR" /\ b[Len(s) + 1] = "NUL"
       \/ b[Len(s)] = "NUL" /\ Len(s) = LineMax

LEMMA TextSeq ==
    ASSUME NEW n \in Nat, NEW b, NEW s, s = [k \in 1 .. n |-> b[k - 1]]
    PROVE  /\ s \in Seq({b[k - 1] : k \in 1 .. n}) /\ Len(s) = n
           /\ \A k \in 1 .. n : s[k] = b[k - 1]
<1>1. s \in [1 .. n -> {b[k - 1] : k \in 1 .. n}]
    OBVIOUS
<1>2. \A k \in 1 .. n : s[k] = b[k - 1]
    OBVIOUS
<1>3. s \in Seq({b[k - 1] : k \in 1 .. n})
    BY <1>1, SeqDef
<1> QED
    BY <1>1, <1>2, <1>3, LenProperties

LEMMA WordSeq ==
    ASSUME NEW S, NEW s \in Seq(S), NEW from \in Nat \ {0}
    PROVE  \E n \in Nat :
              /\ IsLongest(s, from, n) /\ (n > 0 => from <= Len(s) /\ from + n - 1 <= Len(s))
              /\ Word(s, from) \in Seq(S) /\ Len(Word(s, from)) = n
              /\ \A k \in 1 .. n : Word(s, from)[k] = s[from + k - 1]
<1>1. Len(s) \in Nat
    OBVIOUS
<1>2. PICK n \in Nat : IsLongest(s, from, n)
    BY <1>1, LongestExists
<1>3. Word(s, from) = SubSeq(s, from, from + n - 1)
    BY <1>1, <1>2, LongestIs DEF Word
<1>4. n > 0 => from <= Len(s) /\ from + n - 1 <= Len(s)
    BY <1>1, <1>2 DEF IsLongest
<1>5. Word(s, from) \in Seq(S) /\ Len(Word(s, from)) = n /\ \A k \in 1 .. n : Word(s, from)[k] = s[from + k - 1]
    <2>1. CASE n = 0
        BY <1>1, <1>3, <2>1
    <2>2. CASE n > 0
        BY <1>1, <1>3, <1>4, <2>2
    <2> QED
        BY <2>1, <2>2
<1> QED
    BY <1>2, <1>4, <1>5

\* get_hex finds the longest run of digits, if it is not too long.
LEMMA WordFound ==
    ASSUME NEW b, NEW s, TextIs(b, s), NEW from \in 3 .. Len(s) + 2, from <= LineMax,
           NEW S, s \in Seq(S), Len(Word(s, from)) <= HexMax
    PROVE  LET a == get_hex(b, from - 1)
           IN  /\ a.value = Word(s, from) /\ a.length = Len(Word(s, from))
               /\ a.found <=> Word(s, from) # <<>>
<1> USE LineFits
<1>1. Len(s) \in Nat /\ from \in Nat \ {0} /\ from - 1 \in Nat
    <2>1. Len(s) \in 0 .. LineMax
        BY DEF TextIs
    <2> QED
        BY <2>1
<1>2. PICK n \in Nat :
          /\ IsLongest(s, from, n) /\ (n > 0 => from <= Len(s) /\ from + n - 1 <= Len(s))
          /\ Word(s, from) \in Seq(S) /\ Len(Word(s, from)) = n
          /\ \A k \in 1 .. n : Word(s, from)[k] = s[from + k - 1]
    BY <1>1, WordSeq
<1>4. n > 0 => from <= Len(s) /\ from + n - 1 <= Len(s)
    BY <1>2
<1>5. Word(s, from) \in Seq(S) /\ Len(Word(s, from)) = n /\ \A k \in 1 .. n : Word(s, from)[k] = s[from + k - 1]
    BY <1>2
<1>6. \A k \in 1 .. Len(s) : s[k] = b[k - 1]
    BY <1>1 DEF TextIs
<1>7. IsRun(b, from - 1, n)
    <2>1. n \in 0 .. HexMax + 1 /\ n <= HexMax
        BY <1>5
    <2>2. ASSUME NEW k \in 0 .. n - 1 PROVE b[from - 1 + k] \in Digits
        <3>1. /\ from + k \in from .. (from + n - 1) /\ from + k \in 1 .. Len(s) /\ n > 0
              /\ from + k - 1 = from - 1 + k
            BY <1>1, <1>2, <1>4
        <3>2. s[from + k] \in Digits
            BY <1>2, <3>1 DEF IsLongest
        <3> QED
            BY <1>6, <3>1, <3>2
    <2>3. b[from - 1 + n] \notin Digits
        <3>1. CASE from + n <= Len(s)
            <4>1. s[from + n] \notin Digits /\ from + n \in 1 .. Len(s) /\ from + n - 1 = from - 1 + n
                <5>1. from + n > Len(s) \/ s[from + n] \notin Digits
                    BY <1>1, <1>2, <3>1 DEF IsLongest
                <5> QED
                    BY <1>1, <3>1, <5>1
            <4> QED
                BY <1>6, <4>1
        <3>2. CASE from + n > Len(s)
            <4>1. from - 1 + n = Len(s) \/ (from - 1 + n = Len(s) + 1 /\ Len(s) < LineMax)
                BY <1>1, <1>4, <3>2
            <4>2. b[from - 1 + n] \in {"CR", "NUL"}
                <5>1. CASE from - 1 + n = Len(s)
                    <6>1. b[Len(s)] \in {"CR", "NUL"}
                        BY DEF TextIs
                    <6> QED
                        BY <5>1, <6>1
                <5>2. CASE from - 1 + n = Len(s) + 1 /\ Len(s) < LineMax
                    <6>1. b[Len(s) + 1] = "NUL" \/ Len(s) = LineMax
                        BY DEF TextIs
                    <6> QED
                        BY <1>1, <5>2, <6>1
                <5> QED
                    BY <4>1, <5>1, <5>2
            <4> QED
                BY <4>2 DEF Digits
        <3> QED
            BY <1>1, <3>1, <3>2
    <2> QED
        BY <2>1, <2>2, <2>3 DEF IsRun
<1>8. get_hex(b, from - 1) = Hex(b, from - 1, n) /\ n <= HexMax
    BY <1>1, <1>5, <1>7, HexIs
<1>9. [k \in 1 .. n |-> b[from - 1 + k - 1]] = Word(s, from)
    <2>1. \A k \in 1 .. n : b[from - 1 + k - 1] = Word(s, from)[k]
        <3> TAKE k \in 1 .. n
        <3>1. from + k - 1 \in 1 .. Len(s) /\ from + k - 1 - 1 = from - 1 + k - 1
            BY <1>1, <1>4
        <3>2. Word(s, from)[k] = s[from + k - 1] /\ s[from + k - 1] = b[from + k - 1 - 1]
            BY <1>5, <1>6, <3>1
        <3> QED
            BY <3>1, <3>2
    <2>2. Word(s, from) = [k \in 1 .. n |-> Word(s, from)[k]]
        BY <1>5
    <2> QED
        BY <2>1, <2>2
<1>10. n > 0 <=> Word(s, from) # <<>>
    BY <1>5
<1>11. /\ get_hex(b, from - 1).value = Word(s, from)
       /\ get_hex(b, from - 1).length = n
       /\ get_hex(b, from - 1).found <=> n > 0
    <2>1. ~(n > HexMax)
        BY <1>1, <1>8
    <2>2. Hex(b, from - 1, n) = [found |-> n > 0, value |-> Word(s, from), length |-> n]
        BY <1>9, <2>1 DEF Hex
    <2> DEFINE h == get_hex(b, from - 1)
    <2>3. h = [found |-> n > 0, value |-> Word(s, from), length |-> n]
        BY <1>8, <2>2
    <2> HIDE DEF h
    <2>4. h.value = Word(s, from) /\ h.length = n /\ (h.found <=> n > 0)
        BY <2>3
    <2> QED
        BY <2>4 DEF h
<1> QED
    BY <1>5, <1>10, <1>11

\* parse does what the text asks for.
LEMMA ParseAsked ==
    ASSUME NEW b, NEW s, TextIs(b, s), ~Overlong(s), \A k \in 1 .. Len(s) : s[k] \notin {"CR", "NUL"}
    PROVE  parse(b) = Asked(s)
<1> USE LineFits
<1>1. Len(s) \in Nat /\ Len(s) <= LineMax /\ s = [k \in 1 .. Len(s) |-> b[k - 1]]
    <2>1. Len(s) \in 0 .. LineMax /\ s = [k \in 1 .. Len(s) |-> b[k - 1]]
        BY DEF TextIs
    <2> QED
        BY <2>1
<1>2. /\ \A k \in 1 .. Len(s) : s[k] = b[k - 1]
    BY <1>1, TextSeq
<1>7. PICK S : s \in Seq(S)
    <2>1. s \in Seq({b[k - 1] : k \in 1 .. Len(s)})
        BY <1>1, TextSeq
    <2> QED
        BY <2>1
<1>3. \/ b[Len(s)] = "CR" /\ b[Len(s) + 1] = "NUL"
      \/ b[Len(s)] = "NUL" /\ Len(s) = LineMax
    BY DEF TextIs
<1>4. CASE Len(s) = 0
    <2>1. s = <<>> /\ b[1] = "NUL"
        BY <1>1, <1>2, <1>3, <1>4
    <2> QED
        BY <2>1 DEF parse, Asked
<1>5. CASE Len(s) = 1
    <2>1. s # <<>> /\ b[1] = "CR" /\ s[1] = b[0]
        BY <1>1, <1>2, <1>3, <1>5
    <2> QED
        BY <1>5, <2>1 DEF parse, Asked
<1>6. CASE Len(s) >= 2
    <2>1. s # <<>> /\ Len(s) # 1 /\ s[1] = b[0] /\ s[2] = b[1] /\ b[1] \notin {"CR", "NUL"}
        BY <1>1, <1>2, <1>6
    <2>2. PICK n \in Nat : /\ IsLongest(s, 3, n) /\ Len(Number(s)) = n
                           /\ n > 0 => 3 + n - 1 <= Len(s)
        BY <1>7, WordSeq, 3 \in Nat \ {0} DEF Number
    <2>3. n <= HexMax
        <3>1. CASE Len(s) > 2
            BY <2>2, <3>1 DEF Overlong
        <3>2. CASE Len(s) = 2
            BY <2>2, <3>2
        <3> QED
            BY <1>1, <1>6, <3>1, <3>2
    <2>4. PICK l \in Nat : /\ Len(Second(s)) = l
                           /\ l > 0 => 4 + n <= Len(s)
        <3>1. Second(s) = Word(s, 4 + n) /\ 4 + n \in Nat \ {0}
            BY <2>2 DEF Second
        <3>2. PICK l \in Nat : /\ Len(Word(s, 4 + n)) = l
                               /\ l > 0 => 4 + n <= Len(s)
            BY <1>7, <3>1, WordSeq
        <3> QED
            BY <3>1, <3>2
    <2>5. l <= HexMax
        <3>1. CASE Len(s) > 2
            BY <2>4, <3>1 DEF Overlong
        <3>2. CASE Len(s) = 2
            BY <2>4, <3>2
        <3> QED
            BY <1>1, <1>6, <3>1, <3>2
    <2>6. /\ get_hex(b, 2).value = Number(s) /\ get_hex(b, 2).length = n
          /\ get_hex(b, 2).found <=> Number(s) # <<>>
        <3>1. 3 \in 3 .. Len(s) + 2 /\ 3 <= LineMax /\ 3 - 1 = 2
            BY <1>1, <1>6
        <3> QED
            <4>1. Number(s) = Word(s, 3)
                BY DEF Number
            <4>2. LET h == get_hex(b, 3 - 1)
                  IN  /\ h.value = Word(s, 3) /\ h.length = Len(Word(s, 3))
                      /\ h.found <=> Word(s, 3) # <<>>
                BY <1>7, <2>2, <2>3, <3>1, <4>1, WordFound
            <4> QED
                BY <2>2, <3>1, <4>1, <4>2
    <2>7. /\ get_data(b).value = Second(s)
          /\ get_data(b).found <=> Second(s) # <<>>
        <3>1. 4 + n \in 3 .. Len(s) + 2 /\ 4 + n <= LineMax /\ (4 + n) - 1 = 3 + n
            BY <1>1, <1>6, <2>2, <2>3
        <3>2. Second(s) = Word(s, 4 + n)
            BY <2>2 DEF Second
        <3>3. get_data(b) = get_hex(b, (4 + n) - 1)
            BY <2>6, <3>1 DEF get_data
        <3> QED
            <4>1. LET h == get_hex(b, (4 + n) - 1)
                  IN  /\ h.value = Word(s, 4 + n) /\ h.length = Len(Word(s, 4 + n))
                      /\ h.found <=> Word(s, 4 + n) # <<>>
                BY <1>7, <2>4, <2>5, <3>1, <3>2, WordFound
            <4> QED
                BY <3>2, <3>3, <4>1
    <2> DEFINE a == get_hex(b, 2)
               d == get_data(b)
    <2>8. /\ a.value = Number(s) /\ (a.found <=> Number(s) # <<>>)
          /\ d.value = Second(s) /\ (d.found <=> Second(s) # <<>>)
        BY <2>6, <2>7
    <2>9. parse(b) =
            CASE b[1] = "NUL" -> Nothing
              [] b[1] = "CR"  -> [op |-> IF b[0] \in {"h", "l", "s"} THEN b[0] ELSE "invalid"]
              [] b[1] \notin {"NUL", "CR", " "} -> [op |-> "invalid"]
              [] b[1] = " " /\ b[0] \in {"j", "p", "r", "b"} ->
                    IF a.found THEN [op |-> b[0], address |-> a.value] ELSE Nothing
              [] b[1] = " " /\ b[0] \in {"d", "w"} ->
                    IF a.found /\ d.found
                    THEN [op |-> b[0], address |-> a.value, data |-> d.value] ELSE Nothing
              [] OTHER -> [op |-> "invalid"]
        BY DEF parse
    <2> HIDE DEF a, d
    <2>10. CASE b[1] # " "
        <3>1. parse(b) = [op |-> "invalid"]
            BY <2>1, <2>9, <2>10
        <3> QED
            BY <2>1, <2>10, <3>1 DEF Asked
    <2>11. CASE b[1] = " " /\ b[0] \in {"j", "p", "r", "b"}
        <3>1. parse(b) = IF a.found THEN [op |-> b[0], address |-> a.value] ELSE Nothing
            BY <2>9, <2>11
        <3>2. Asked(s) = IF Number(s) = <<>> THEN Nothing ELSE [op |-> s[1], address |-> Number(s)]
            BY <2>1, <2>11 DEF Asked
        <3> QED
            BY <2>1, <2>8, <3>1, <3>2
    <2>12. CASE b[1] = " " /\ b[0] \in {"d", "w"}
        <3>1. parse(b) = IF a.found /\ d.found
                         THEN [op |-> b[0], address |-> a.value, data |-> d.value] ELSE Nothing
            BY <2>9, <2>12
        <3>2. Asked(s) = IF Number(s) = <<>> \/ Second(s) = <<>> THEN Nothing
                         ELSE [op |-> s[1], address |-> Number(s), data |-> Second(s)]
            BY <2>1, <2>12 DEF Asked
        <3> QED
            BY <2>1, <2>8, <3>1, <3>2
    <2>13. CASE b[1] = " " /\ b[0] \notin {"j", "p", "r", "b", "d", "w"}
        <3>1. parse(b) = [op |-> "invalid"]
            BY <2>9, <2>13
        <3> QED
            BY <2>1, <2>13, <3>1 DEF Asked
    <2> QED
        BY <2>10, <2>11, <2>12, <2>13
<1> QED
    BY <1>1, <1>4, <1>5, <1>6
-----------------------------------------------------------------------------
(***************************************************************************)
(* The invariant of the command line.  Beyond ObeysScreen: no end of line  *)
(* is inside a text, the line that was kept is the one that kept speaks    *)
(* of, and a line as it was recalled is that line.                         *)
(***************************************************************************)
Buffers ==
    /\ DOMAIN buf = 0 .. LineMax /\ DOMAIN lbuf = 0 .. LineMax
    /\ i \in 0 .. LineMax - 1 /\ li \in 0 .. LineMax - 1
    /\ \A k \in 0 .. i - 1 : buf[k] # "CR"
    /\ \A k \in 0 .. li - 1 : lbuf[k] # "CR"

OnScreen ==
    /\ odd \in BOOLEAN
    /\ odd \/ (seen = [k \in 1 .. i |-> buf[k - 1]] /\ \A k \in 0 .. i - 1 : buf[k] \notin Hidden)

DidAsked == did.odd \/ Overlong(did.shown) \/ did.act = Asked(did.shown)

KeptLine == kept.full \/ (li >= 1 /\ lbuf[li] = "CR" /\ kept.act = parse([lbuf EXCEPT ![li + 1] = "NUL"]))

FreshLine == fresh => i = li /\ \A k \in 0 .. li - 1 : buf[k] = lbuf[k]

ConsoleInv == Buffers /\ OnScreen /\ DidAsked /\ KeptLine /\ FreshLine

\* A character that shows goes behind the others.
LEMMA ShownLonger ==
    ASSUME Buffers, OnScreen, ~odd, NEW c, c \notin Hidden,
           NEW b, b[i] = c, \A k \in 0 .. i - 1 : b[k] = buf[k]
    PROVE  /\ Shown(seen, c) = [k \in 1 .. i + 1 |-> b[k - 1]]
           /\ \A k \in 0 .. i : b[k] \notin Hidden
<1> USE LineFits
<1>1. /\ i \in Nat /\ i <= LineMax /\ seen = [k \in 1 .. i |-> buf[k - 1]] /\ DOMAIN buf = 0 .. LineMax
      /\ \A k \in 0 .. i - 1 : buf[k] \notin Hidden
    BY DEF Buffers, OnScreen
<1>2. b[i] = c /\ \A k \in 0 .. i - 1 : b[k] = buf[k]
    OBVIOUS
<1>3. Shown(seen, c) = Append(seen, c)
    BY DEF Shown, Hidden
<1> DEFINE S == {buf[k - 1] : k \in 1 .. i} \cup {c}
<1>4. seen \in Seq(S) /\ Len(seen) = i /\ \A k \in 1 .. i : seen[k] = buf[k - 1]
    <2>1. i \in Nat /\ seen = [k \in 1 .. i |-> buf[k - 1]]
        BY <1>1
    <2>2. /\ seen \in Seq({buf[k - 1] : k \in 1 .. i}) /\ Len(seen) = i
          /\ \A k \in 1 .. i : seen[k] = buf[k - 1]
        <3> HIDE DEF S
        <3> QED
            BY ONLY <2>1, TextSeq, Zenon
    <2>3. {buf[k - 1] : k \in 1 .. i} \subseteq S
        OBVIOUS
    <2>4. seen \in Seq(S)
        <3> HIDE DEF S
        <3> QED
            BY ONLY <2>2, <2>3, SeqMonotonic, Zenon
    <2> QED
        BY <2>2, <2>4
<1>5. c \in S
    OBVIOUS
<1> HIDE DEF S
<1>6. /\ Append(seen, c) \in Seq(S) /\ Len(Append(seen, c)) = i + 1 /\ Append(seen, c)[i + 1] = c
      /\ \A k \in 1 .. i : Append(seen, c)[k] = seen[k]
    BY <1>1, <1>4, <1>5
<1>7. \A k \in 1 .. i + 1 : Append(seen, c)[k] = b[k - 1]
    <2> TAKE k \in 1 .. i + 1
    <2>1. CASE k = i + 1
        BY <1>1, <1>2, <1>6, <2>1
    <2>2. CASE k \in 1 .. i
        BY <1>1, <1>2, <1>4, <1>6, <2>2
    <2> QED
        BY <1>1, <2>1, <2>2
<1>8. Append(seen, c) = [k \in 1 .. i + 1 |-> b[k - 1]]
    <2> DEFINE t == Append(seen, c)
    <2>1. t \in Seq(S) /\ Len(t) = i + 1 /\ \A k \in 1 .. i + 1 : t[k] = b[k - 1]
        BY <1>6, <1>7
    <2> HIDE DEF t
    <2>2. t = [k \in 1 .. Len(t) |-> t[k]]
        BY <2>1
    <2>3. t = [k \in 1 .. i + 1 |-> t[k]]
        BY <2>1, <2>2
    <2>4. t = [k \in 1 .. i + 1 |-> b[k - 1]]
        BY <2>1, <2>3
    <2> QED
        BY <2>4 DEF t
<1>9. \A k \in 0 .. i : b[k] \notin Hidden
    BY <1>1, <1>2
<1> QED
    BY <1>3, <1>8, <1>9

\* The end of a line, as it was entered or as it became too long.
LEMMA EndLineKeeps ==
    ASSUME ConsoleInv, NEW c, NEW b, b = [buf EXCEPT ![i] = c], NEW s, NEW hidden \in BOOLEAN,
           c = "CR" \/ i + 1 = LineMax,
           s = (IF c = "CR" THEN seen ELSE Shown(seen, c)),
           ~hidden => ~odd /\ (c # "CR" => c \notin Hidden),
           EndLine(b, i + 1, s, hidden), fresh' = FALSE
    PROVE  ConsoleInv'
<1> USE LineFits
<1>1. /\ Buffers /\ OnScreen /\ KeptLine /\ i \in Nat /\ i + 1 <= LineMax /\ DOMAIN buf = 0 .. LineMax
      /\ li \in 0 .. LineMax - 1
    BY DEF ConsoleInv, Buffers
<1>2. PICK line : line = [b EXCEPT ![i + 1] = "NUL"]
    OBVIOUS
<1>3. /\ DOMAIN b = 0 .. LineMax /\ b[i] = c /\ \A k \in 0 .. i - 1 : b[k] = buf[k]
      /\ DOMAIN line = 0 .. LineMax /\ line[i + 1] = "NUL" /\ line[i] = c
      /\ \A k \in 0 .. i : line[k] = b[k]
    <2>1. DOMAIN b = 0 .. LineMax /\ b[i] = c /\ \A k \in 0 .. i - 1 : b[k] = buf[k]
        BY <1>1
    <2>2. i + 1 \in DOMAIN b /\ i \in DOMAIN b /\ \A k \in 0 .. i : k # i + 1 /\ k \in DOMAIN b
        BY <1>1, <2>1
    <2>3. DOMAIN line = DOMAIN b /\ line[i + 1] = "NUL" /\ \A k \in 0 .. i : line[k] = b[k]
        BY <1>2, <2>2
    <2>4. i \in 0 .. i
        BY <1>1
    <2> QED
        BY <2>1, <2>3, <2>4
<1>4. /\ lbuf' = IF i + 1 > 1 THEN b ELSE lbuf
      /\ li' = IF i + 1 > 1 THEN i ELSE li
      /\ buf' = line /\ i' = 0 /\ seen' = <<>> /\ odd' = FALSE
      /\ did' = [act |-> parse(line), shown |-> s, odd |-> hidden]
      /\ kept' = IF i + 1 > 1 THEN [act |-> parse(line), full |-> b[i] # "CR"] ELSE kept
    BY <1>1, <1>2 DEF EndLine, Remembered
<1>5. \A k \in 0 .. i - 1 : buf[k] # "CR"
    BY <1>1 DEF Buffers
<1>6. Buffers'
    <2>1. CASE i > 0
        <3>1. i + 1 > 1 /\ lbuf' = b /\ li' = i /\ buf' = line /\ i' = 0
            BY <1>1, <1>4, <2>1
        <3>2. DOMAIN buf' = 0 .. LineMax /\ DOMAIN lbuf' = 0 .. LineMax
            BY <1>3, <3>1
        <3>3. i' \in 0 .. LineMax - 1 /\ li' \in 0 .. LineMax - 1
            BY <1>1, <3>1
        <3>4. \A k \in 0 .. i - 1 : b[k] # "CR"
            BY <1>3, <1>5
        <3>5. \A k \in 0 .. li' - 1 : lbuf'[k] # "CR"
            BY <3>1, <3>4
        <3>6. \A k \in 0 .. i' - 1 : buf'[k] # "CR"
            BY <3>1
        <3> QED
            BY <3>2, <3>3, <3>5, <3>6 DEF Buffers
    <2>2. CASE i = 0
        <3>1. ~(i + 1 > 1) /\ lbuf' = lbuf /\ li' = li /\ buf' = line /\ i' = 0
            BY <1>1, <1>4, <2>2
        <3>2. DOMAIN buf' = 0 .. LineMax /\ DOMAIN lbuf' = 0 .. LineMax
            BY <1>1, <1>3, <3>1 DEF Buffers
        <3>3. \A k \in 0 .. li' - 1 : lbuf'[k] # "CR"
            BY <1>1, <3>1 DEF Buffers
        <3>4. i' \in 0 .. LineMax - 1 /\ li' \in 0 .. LineMax - 1 /\ \A k \in 0 .. i' - 1 : buf'[k] # "CR"
            BY <1>1, <3>1
        <3> QED
            BY <3>2, <3>3, <3>4 DEF Buffers
    <2> QED
        BY <1>1, <2>1, <2>2
<1>7. OnScreen'
    <2>1. seen' = [k \in 1 .. i' |-> buf'[k - 1]] /\ odd' = FALSE
        BY <1>4
    <2>2. \A k \in 0 .. i' - 1 : buf'[k] \notin Hidden
        BY <1>4
    <2> QED
        BY <2>1, <2>2 DEF OnScreen
<1>8. DidAsked'
    <2>1. ASSUME ~hidden, ~Overlong(s) PROVE parse(line) = Asked(s)
        <3>1. CASE c = "CR"
            <4>1. s = [k \in 1 .. i |-> buf[k - 1]] /\ \A k \in 0 .. i - 1 : buf[k] \notin Hidden
                BY <1>1, <2>1, <3>1 DEF OnScreen
            <4>2. Len(s) = i /\ \A k \in 1 .. i : s[k] = buf[k - 1]
                BY <1>1, <4>1, TextSeq
            <4>3. \A k \in 1 .. i : buf[k - 1] = line[k - 1] /\ s[k] \notin {"CR", "NUL"}
                <5> TAKE k \in 1 .. i
                <5>1. k - 1 \in 0 .. i - 1 /\ k - 1 \in 0 .. i
                    BY <1>1
                <5> QED
                    BY <1>3, <1>5, <4>1, <4>2, <5>1 DEF Hidden
            <4>4. s = [k \in 1 .. i |-> line[k - 1]]
                BY <4>1, <4>3
            <4>5. TextIs(line, s)
                BY <1>1, <1>3, <3>1, <4>2, <4>4 DEF TextIs
            <4> QED
                BY <2>1, <4>2, <4>3, <4>5, ParseAsked
        <3>2. CASE c # "CR"
            <4>1. s = [k \in 1 .. i + 1 |-> b[k - 1]] /\ \A k \in 0 .. i : b[k] \notin Hidden
                <5>1. ~odd /\ c \notin Hidden /\ s = Shown(seen, c)
                    BY <2>1, <3>2
                <5>2. /\ Shown(seen, c) = [k \in 1 .. i + 1 |-> b[k - 1]]
                      /\ \A k \in 0 .. i : b[k] \notin Hidden
                    <6>1. b[i] = c /\ \A k \in 0 .. i - 1 : b[k] = buf[k]
                        BY <1>3
                    <6>2. /\ Buffers /\ OnScreen /\ ~odd /\ c \notin Hidden
                        BY <1>1, <5>1
                    <6> QED
                        BY ONLY <6>1, <6>2, ShownLonger, Zenon
                <5> QED
                    BY <5>1, <5>2
            <4>2. Len(s) = i + 1 /\ \A k \in 1 .. i + 1 : s[k] = b[k - 1]
                BY <1>1, <4>1, TextSeq, i + 1 \in Nat
            <4>3. \A k \in 1 .. i + 1 : b[k - 1] = line[k - 1] /\ s[k] \notin {"CR", "NUL"}
                <5> TAKE k \in 1 .. i + 1
                <5>1. k - 1 \in 0 .. i /\ (k - 1 \in 0 .. i - 1 \/ k - 1 = i)
                    BY <1>1
                <5>2. b[k - 1] # "CR"
                    BY <1>3, <1>5, <3>2, <5>1
                <5> QED
                    BY <1>3, <4>1, <4>2, <5>1, <5>2 DEF Hidden
            <4>4. s = [k \in 1 .. i + 1 |-> line[k - 1]]
                BY <4>1, <4>3
            <4>5. TextIs(line, s)
                <5>1. i + 1 = LineMax /\ Len(s) = LineMax /\ LineMax \in Nat
                    BY <1>1, <3>2, <4>2
                <5>2. s = [k \in 1 .. Len(s) |-> line[k - 1]]
                    BY <4>2, <4>4, Zenon
                <5>4. Len(s) \in 0 .. LineMax
                    BY <5>1
                <5>3. line[Len(s)] = "NUL"
                    BY <1>3, <5>1
                <5> QED
                    BY <5>1, <5>2, <5>3, <5>4 DEF TextIs
            <4> QED
                BY <2>1, <4>2, <4>3, <4>5, ParseAsked
        <3> QED
            BY <3>1, <3>2
    <2>2. did'.act = parse(line) /\ did'.shown = s /\ (did'.odd <=> hidden)
        BY <1>4
    <2> QED
        BY <2>1, <2>2 DEF DidAsked
<1>9. KeptLine'
    <2>1. CASE i > 0
        <3>4. kept' = [act |-> parse(line), full |-> c # "CR"] /\ lbuf' = b /\ li' = i
            BY <1>1, <1>3, <1>4, <2>1
        <3>1. kept'.act = parse(line) /\ (kept'.full <=> c # "CR") /\ lbuf' = b /\ li' = i
            BY <3>4
        <3>2. i >= 1 /\ (c = "CR" => b[i] = "CR") /\ line = [b EXCEPT ![i + 1] = "NUL"]
            BY <1>1, <1>2, <1>3, <2>1
        <3>3. kept'.full \/ (li' >= 1 /\ lbuf'[li'] = "CR" /\ kept'.act = parse([lbuf' EXCEPT ![li' + 1] = "NUL"]))
            BY <3>1, <3>2
        <3> QED
            BY <3>3 DEF KeptLine
    <2>2. CASE i = 0
        BY <1>1, <1>4, <2>2 DEF KeptLine
    <2> QED
        BY <1>1, <2>1, <2>2
<1>10. FreshLine'
    BY DEF FreshLine
<1> QED
    BY <1>6, <1>7, <1>8, <1>9, <1>10 DEF ConsoleInv

\* A backspace takes the last character off the screen too.
LEMMA RubbedOut ==
    ASSUME Buffers, OnScreen, ~odd, i > 0
    PROVE  Shown(seen, "BS") = [k \in 1 .. i - 1 |-> buf[k - 1]]
<1> USE LineFits
<1>1. i \in Nat /\ i - 1 \in Nat /\ seen = [k \in 1 .. i |-> buf[k - 1]]
    BY DEF Buffers, OnScreen
<1>2. /\ seen \in Seq({buf[k - 1] : k \in 1 .. i}) /\ Len(seen) = i
      /\ \A k \in 1 .. i : seen[k] = buf[k - 1]
    <2>1. i \in Nat /\ seen = [k \in 1 .. i |-> buf[k - 1]]
        BY <1>1
    <2> QED
        BY ONLY <2>1, TextSeq, Zenon
<1>3. PICK S : seen \in Seq(S)
    BY <1>2
<1>4. seen # <<>>
    BY <1>1, <1>2, <1>3
<1>5. Shown(seen, "BS") = SubSeq(seen, 1, i - 1)
    BY <1>2, <1>4 DEF Shown, Front
<1> DEFINE t == SubSeq(seen, 1, i - 1)
<1>6. t \in Seq(S) /\ Len(t) = i - 1 /\ \A k \in 1 .. i - 1 : t[k] = buf[k - 1]
    BY <1>1, <1>2, <1>3
<1> HIDE DEF t
<1>7. t = [k \in 1 .. Len(t) |-> t[k]]
    BY <1>6
<1>8. t = [k \in 1 .. i - 1 |-> t[k]]
    BY <1>6, <1>7
<1>9. t = [k \in 1 .. i - 1 |-> buf[k - 1]]
    BY <1>6, <1>8
<1> QED
    BY <1>5, <1>9 DEF t

LEMMA CharacterKeeps ==
    ASSUME ConsoleInv, NEW c, Character(c)
    PROVE  ConsoleInv'
<1> USE LineFits
<1>1. /\ Buffers /\ OnScreen /\ KeptLine /\ DidAsked /\ i \in Nat /\ i + 1 <= LineMax
      /\ DOMAIN buf = 0 .. LineMax /\ odd \in BOOLEAN
    BY DEF ConsoleInv, Buffers, OnScreen
<1>2. CASE Rubs(c)
    <2>1. c = "BS" /\ i > 0
        BY <1>2 DEF Rubs
    <2>2. /\ buf' = buf /\ i' = i - 1 /\ seen' = Shown(seen, "BS") /\ fresh' = FALSE
          /\ UNCHANGED <<lbuf, li, busy, did, kept>>
        BY <1>1, <1>2, <2>1 DEF Character
    <2>3. odd' = odd
        BY <1>1, <1>2, <2>1 DEF Character
    <2>4. Buffers'
        BY <1>1, <2>1, <2>2 DEF Buffers
    <2>5. OnScreen'
        <3>1. CASE odd
            BY <1>1, <2>3, <3>1 DEF OnScreen
        <3>2. CASE ~odd
            <4>1. seen' = [k \in 1 .. i - 1 |-> buf[k - 1]]
                BY <1>1, <2>1, <2>2, <3>2, RubbedOut, Zenon
            <4>2. \A k \in 0 .. i - 1 : buf[k] \notin Hidden
                BY <1>1, <3>2 DEF OnScreen
            <4>3. \A k \in 0 .. i' - 1 : buf'[k] \notin Hidden
                BY <1>1, <2>2, <4>2
            <4>4. seen' = [k \in 1 .. i' |-> buf'[k - 1]]
                BY <2>2, <4>1, Zenon
            <4> QED
                BY <1>1, <2>3, <4>3, <4>4 DEF OnScreen
        <3> QED
            BY <1>1, <3>1, <3>2
    <2> QED
        BY <1>1, <2>2, <2>4, <2>5 DEF ConsoleInv, DidAsked, KeptLine, FreshLine
<1>3. CASE ~Rubs(c)
    <2>1. PICK b : b = [buf EXCEPT ![i] = c]
        OBVIOUS
    <2>2. PICK hidden \in BOOLEAN : hidden <=> (odd \/ (c \in Hidden /\ (c = "BS" => i = 0)))
        OBVIOUS
    <2>3. c = "BS" => i = 0
        BY <1>1, <1>3 DEF Rubs
    <2>4. ~hidden <=> ~odd /\ c \notin Hidden
        BY <2>2, <2>3
    <2>5. CASE c = "CR" \/ i + 1 = LineMax
        <3>1. PICK s : s = (IF c = "CR" THEN seen ELSE Shown(seen, c))
            OBVIOUS
        <3>2. EndLine(b, i + 1, s, hidden) /\ fresh' = FALSE
            <4>1. hidden = (odd \/ (c \in Hidden /\ (c = "BS" => i = 0)))
                BY <2>2
            <4> QED
                BY <1>1, <1>3, <2>1, <2>5, <3>1, <4>1 DEF Character
        <3> QED
            BY <2>1, <2>4, <2>5, <3>1, <3>2, EndLineKeeps, Zenon
    <2>6. CASE c # "CR" /\ i + 1 < LineMax
        <3>1. /\ buf' = b /\ i' = i + 1 /\ seen' = Shown(seen, c) /\ fresh' = FALSE
              /\ UNCHANGED <<lbuf, li, busy, did, kept>>
            BY <1>1, <1>3, <2>1, <2>6 DEF Character
        <3>2. odd' \in BOOLEAN /\ (odd' <=> hidden)
            BY <1>1, <1>3, <2>2, <2>6 DEF Character
        <3>3. b[i] = c /\ DOMAIN b = 0 .. LineMax /\ \A k \in 0 .. i - 1 : b[k] = buf[k]
            BY <1>1, <2>1
        <3>4. Buffers'
            <4>1. \A k \in 0 .. i' - 1 : buf'[k] # "CR"
                <5> TAKE k \in 0 .. i' - 1
                <5>1. CASE k = i
                    BY <2>6, <3>1, <3>3, <5>1
                <5>2. CASE k \in 0 .. i - 1
                    BY <1>1, <3>1, <3>3, <5>2 DEF Buffers
                <5> QED
                    BY <1>1, <3>1, <5>1, <5>2
            <4>2. DOMAIN buf' = 0 .. LineMax /\ i' \in 0 .. LineMax - 1
                BY <1>1, <2>6, <3>1, <3>3
            <4> QED
                BY <1>1, <3>1, <4>1, <4>2 DEF Buffers
        <3>5. OnScreen'
            <4>1. CASE hidden
                BY <3>2, <4>1 DEF OnScreen
            <4>2. CASE ~hidden
                <5>1. /\ Shown(seen, c) = [k \in 1 .. i + 1 |-> b[k - 1]]
                      /\ \A k \in 0 .. i : b[k] \notin Hidden
                    <6>1. b[i] = c /\ \A k \in 0 .. i - 1 : b[k] = buf[k]
                        BY <3>3
                    <6>2. /\ Buffers /\ OnScreen /\ ~odd /\ c \notin Hidden
                        BY <1>1, <2>4, <4>2
                    <6> QED
                        BY <6>1, <6>2, ShownLonger, Zenon
                <5>2. seen' = [k \in 1 .. i' |-> buf'[k - 1]]
                    BY <3>1, <5>1, Zenon
                <5>3. \A k \in 0 .. i' - 1 : buf'[k] \notin Hidden
                    BY <1>1, <3>1, <5>1
                <5> QED
                    BY <3>2, <5>2, <5>3 DEF OnScreen
            <4> QED
                BY <4>1, <4>2
        <3> QED
            BY <1>1, <3>1, <3>4, <3>5 DEF ConsoleInv, DidAsked, KeptLine, FreshLine
    <2> QED
        BY <1>1, <2>5, <2>6
<1> QED
    BY <1>2, <1>3

LEMMA RecallKeeps ==
    ASSUME ConsoleInv, Recall
    PROVE  ConsoleInv'
<1> USE LineFits
<1>1. /\ Buffers /\ OnScreen /\ KeptLine /\ DidAsked /\ li \in Nat /\ li + 1 <= LineMax
      /\ odd \in BOOLEAN
    BY DEF ConsoleInv, Buffers, OnScreen
<1>2. /\ buf' = [k \in 0 .. LineMax |-> IF k < li THEN lbuf[k] ELSE buf[k]] /\ i' = li
      /\ seen' = [k \in 1 .. li |-> lbuf[k - 1]] /\ UNCHANGED <<lbuf, li, busy, did, kept>>
    BY DEF Recall
<1>3. odd' = (odd \/ \E k \in 0 .. (li - 1) : lbuf[k] \in Hidden)
    BY DEF Recall
<1>4. \A k \in 0 .. li - 1 : buf'[k] = lbuf[k]
    BY <1>1, <1>2
<1>5. Buffers'
    <2>1. DOMAIN buf' = 0 .. LineMax /\ i' = li /\ lbuf' = lbuf /\ li' = li
        BY <1>2
    <2> QED
        BY <1>1, <1>4, <2>1 DEF Buffers
<1>6. OnScreen'
    <2>1. odd' \in BOOLEAN
        BY <1>1, <1>3
    <2>2. ASSUME ~odd' PROVE \A k \in 0 .. i' - 1 : buf'[k] \notin Hidden
        BY <1>2, <1>3, <1>4, <2>2
    <2>3. seen' = [k \in 1 .. li |-> buf'[k - 1]]
        <3>1. \A k \in 1 .. li : lbuf[k - 1] = buf'[k - 1]
            BY <1>1, <1>4
        <3>2. [k \in 1 .. li |-> lbuf[k - 1]] = [k \in 1 .. li |-> buf'[k - 1]]
            BY <3>1
        <3> QED
            BY <1>2, <3>2, Zenon
    <2>4. seen' = [k \in 1 .. i' |-> buf'[k - 1]]
        BY <1>2, <2>3, Zenon
    <2> QED
        BY <2>1, <2>2, <2>4 DEF OnScreen
<1>7. FreshLine'
    BY <1>2, <1>4 DEF FreshLine
<1> QED
    BY <1>1, <1>2, <1>5, <1>6, <1>7 DEF ConsoleInv, DidAsked, KeptLine

LEMMA KeyKeeps ==
    ASSUME ConsoleInv, NEW c, Key(c)
    PROVE  ConsoleInv'
<1>1. CASE Character(c)
    BY <1>1, CharacterKeeps
<1>2. CASE Recall
    BY <1>2, RecallKeeps
<1>3. CASE UNCHANGED <<buf, i, lbuf, li, busy, seen, did, kept, odd, fresh>>
    BY <1>3 DEF ConsoleInv, Buffers, OnScreen, DidAsked, KeptLine, FreshLine
<1> QED
    BY <1>1, <1>2, <1>3 DEF Key

LEMMA ConsoleStep == ConsoleInv /\ [LoaderNext]_vars => ConsoleInv'
<1> SUFFICES ASSUME ConsoleInv, [LoaderNext]_vars PROVE ConsoleInv'
    OBVIOUS
<1>1. ASSUME NEW c, Key(c) PROVE ConsoleInv'
    BY <1>1, KeyKeeps
<1>2. CASE UNCHANGED <<buf, i, lbuf, li, seen, did, kept, odd, fresh>>
    BY <1>2 DEF ConsoleInv, Buffers, OnScreen, DidAsked, KeptLine, FreshLine
<1>3. CASE Type
    BY <1>1, <1>3 DEF Type, Press
<1>4. CASE Stray
    BY <1>1, <1>4 DEF Stray
<1>5. CASE Back
    BY <1>2, <1>5 DEF Back, Resume
<1>6. CASE Transfer
    BY <1>2, <1>6 DEF Transfer, consoleVars
<1>7. CASE UNCHANGED vars
    BY <1>2, <1>7 DEF vars, consoleVars
<1> QED
    BY <1>3, <1>4, <1>5, <1>6, <1>7 DEF LoaderNext

LEMMA ConsoleInit == LoaderInit => ConsoleInv
<1> SUFFICES ASSUME LoaderInit PROVE ConsoleInv
    OBVIOUS
<1> USE LineFits
<1>1. /\ DOMAIN buf = 0 .. LineMax /\ lbuf = buf /\ i = 0 /\ li = 0 /\ seen = <<>> /\ odd = FALSE
      /\ fresh = FALSE /\ kept.full /\ did.act = Nothing /\ did.shown = <<>>
    BY DEF LoaderInit, Init
<1>2. Buffers
    BY <1>1 DEF Buffers
<1>3. OnScreen
    BY <1>1 DEF OnScreen
<1>4. DidAsked
    BY <1>1 DEF DidAsked, Asked
<1> QED
    BY <1>1, <1>2, <1>3, <1>4 DEF ConsoleInv, KeptLine, FreshLine

(***************************************************************************)
(* The command that is carried out is the one on the screen, for any keys  *)
(* in any order, any length of a line that holds the longest command and   *)
(* any number of digits.                                                   *)
(***************************************************************************)
THEOREM ScreenObeyed == LoaderSpec => []ObeysScreen
<1>1. ConsoleInv => ObeysScreen
    BY LineFits DEF ConsoleInv, Buffers, OnScreen, DidAsked, ObeysScreen
<1> QED
    BY <1>1, ConsoleInit, ConsoleStep, PTL DEF LoaderSpec

(***************************************************************************)
(* A recalled line that is entered again does what it did the first time,  *)
(* whatever was typed over the buffer behind it.                           *)
(***************************************************************************)
THEOREM RecallIsExact == LoaderSpec => []RecallRepeats
<1>1. ASSUME ConsoleInv PROVE RecallRepeats
    <2> SUFFICES ASSUME fresh, ~kept.full
                 PROVE  parse([buf EXCEPT ![i] = "CR", ![i + 1] = "NUL"]) = kept.act
        BY DEF RecallRepeats
    <2> USE LineFits
    <2>1. /\ li \in Nat /\ li + 1 <= LineMax /\ DOMAIN buf = 0 .. LineMax /\ DOMAIN lbuf = 0 .. LineMax
          /\ i = li /\ \A k \in 0 .. li - 1 : buf[k] = lbuf[k]
        BY <1>1 DEF ConsoleInv, Buffers, FreshLine
    <2>2. PICK b : b = [buf EXCEPT ![li] = "CR", ![li + 1] = "NUL"]
        OBVIOUS
    <2>3. PICK a : a = [lbuf EXCEPT ![li + 1] = "NUL"]
        OBVIOUS
    <2>4. li >= 1 /\ lbuf[li] = "CR" /\ kept.act = parse(a)
        BY <1>1, <2>3 DEF ConsoleInv, KeptLine
    <2>5. \A k \in 0 .. li + 1 : b[k] = a[k]
        <3>1. \A k \in 0 .. li - 1 : b[k] = buf[k] /\ a[k] = lbuf[k]
            BY <2>1, <2>2, <2>3
        <3>2. b[li] = "CR" /\ a[li] = "CR" /\ b[li + 1] = "NUL" /\ a[li + 1] = "NUL"
            BY <2>1, <2>2, <2>3, <2>4
        <3>3. \A k \in 0 .. li + 1 : k \in 0 .. li - 1 \/ k = li \/ k = li + 1
            BY <2>1
        <3> QED
            BY <2>1, <3>1, <3>2, <3>3
    <2>6. b[li] = "CR" /\ b[li + 1] = "NUL"
        BY <2>1, <2>2
    <2>7. parse(b) = parse(a)
        <3>1. li + 1 \in Nat /\ 2 <= li + 1 /\ b[(li + 1) - 1] = "CR"
            BY <2>1, <2>4, <2>6
        <3> QED
            BY <2>5, <2>6, <3>1, ParseLocal
    <2> QED
        BY <2>1, <2>2, <2>4, <2>7
<1> QED
    BY <1>1, ConsoleInit, ConsoleStep, PTL DEF LoaderSpec
-----------------------------------------------------------------------------
(* The receive ring.                                                       *)

(***************************************************************************)
(* FramesInv is not inductive: it does not say which buffer holds a frame, *)
(* nor that the one the MAC is writing to is nobody else's.                *)
(***************************************************************************)

\* What is in the buffers: frames that came, no two alike.
Full(d) == d \in Index /\ ~empty[d]
Distinct ==
    /\ \A d \in Index : Full(d) => data[d] \in 1 .. received
    /\ \A d, j \in Index : Full(d) /\ Full(j) /\ data[d] = data[j] => d = j

\* What was parsed: frames that came, each once; what was not is in a buffer.
Once ==
    /\ \A a \in DOMAIN handled : handled[a] \in 1 .. received
    /\ \A a, b \in DOMAIN handled : handled[a] = handled[b] => a = b
    /\ \A f \in 1 .. received :
          \/ \E a \in DOMAIN handled : handled[a] = f
          \/ \E d \in Index : Full(d) /\ data[d] = f

\* A buffer with a parsed frame is the one that the handler is about to mark.
Parsed(d) == \E a \in DOMAIN handled : handled[a] = data[d]
AtHand ==
    /\ place \in {"parse", "mark"} => Full(buffer)
    /\ \A d \in Index : Full(d) => (Parsed(d) <=> place = "mark" /\ d = buffer)

\* The MAC writes the next frame, to an empty buffer.
Writing == filling => empty[fill] /\ data[fill] = received + 1 /\ received < MaxFrames

IInv == TypeOK /\ Distinct /\ Once /\ AtHand /\ Writing
-----------------------------------------------------------------------------
\* The invariant says what FramesInv says, with sets for quantifiers.
LEMMA Enough == IInv => FramesInv
<1> SUFFICES ASSUME IInv PROVE FramesInv
    OBVIOUS
<1>1. Handled = {handled[a] : a \in DOMAIN handled}
    BY DEF Handled, Range
<1>2. IsInjective(handled)
    BY DEF IInv, Once, IsInjective
<1>3. 1 .. received = Handled \cup Waiting
    BY <1>1 DEF IInv, Once, Distinct, Full, Waiting
<1>4. place # "mark" => Handled \cap Waiting = {}
    BY <1>1 DEF IInv, AtHand, Parsed, Full, Waiting
<1> QED
    BY <1>2, <1>3, <1>4 DEF IInv, FramesInv, OnceOrWaiting

\* open_link leaves every buffer empty.
LEMMA Start == RingInit => IInv
BY RingAssumption, BoundAssumption
   DEF RingInit, IInv, TypeOK, Index, Distinct, Once, AtHand, Writing, Full

-----------------------------------------------------------------------------
(* The steps of the MAC.                                                   *)

\* A frame that starts is written to a buffer that counts for nothing.
LEMMA FrameStartsKeeps == IInv /\ FrameStarts => IInv'
<1> SUFFICES ASSUME IInv, FrameStarts PROVE IInv'
    OBVIOUS
<1> USE DEF FrameStarts, isr
<1>1. /\ fill \in Index /\ received \in Nat /\ received + 1 \in 0 .. MaxFrames
      /\ data \in [Index -> 0 .. MaxFrames]
    BY BoundAssumption DEF IInv, TypeOK
<1>2. TypeOK'
    BY <1>1 DEF IInv, TypeOK
<1>3. \A d \in Index : /\ Full(d)' <=> Full(d)
                       /\ Full(d) => data'[d] = data[d] /\ (Parsed(d)' <=> Parsed(d))
    BY <1>1 DEF Full, Parsed
<1>4. Distinct'
    BY <1>3 DEF IInv, Distinct
<1>5. Once'
    BY <1>3 DEF IInv, Once
<1>6. AtHand'
    BY <1>3 DEF IInv, AtHand, Full
<1>7. Writing'
    BY <1>1 DEF Writing
<1> QED
    BY <1>2, <1>4, <1>5, <1>6, <1>7 DEF IInv

\* A frame that ends fills the buffer: a new one, that nobody has parsed.
LEMMA FrameEndsKeeps ==
    ASSUME NEW source \in Enabled, IInv, FrameEnds(source)
    PROVE  IInv'
<1> USE DEF FrameEnds, isr
<1>1. /\ fill \in Index /\ empty[fill] /\ data[fill] = received + 1
      /\ received \in Nat /\ received < MaxFrames /\ received' = received + 1
      /\ empty \in [Index -> BOOLEAN] /\ data' = data /\ handled' = handled
    BY BoundAssumption DEF IInv, TypeOK, Writing
<1>2. TypeOK'
    <2>1. NextDescriptor(fill) \in Index
        BY <1>1, RingAssumption DEF NextDescriptor, Index
    <2>2. received' \in 0 .. MaxFrames
        BY <1>1, BoundAssumption
    <2>3. irq' \subseteq Sources
        BY DEF IInv, TypeOK, Sources, Enabled
    <2>4. raced' \in BOOLEAN
        BY DEF IInv, TypeOK
    <2> QED
        BY <1>1, <2>1, <2>2, <2>3, <2>4 DEF IInv, TypeOK
<1>3. \A d \in Index : /\ Full(d)' <=> Full(d) \/ d = fill
                       /\ Full(d) => d # fill
                       /\ Parsed(d)' <=> Parsed(d)
    BY <1>1 DEF Full, Parsed
<1>4. \A f \in 1 .. received : f # received + 1 /\ f \in 1 .. received'
    BY <1>1
<1>5. ~Parsed(fill)
    BY <1>1, <1>4 DEF IInv, Once, Parsed
<1>6. Distinct'
    BY <1>1, <1>3, <1>4 DEF IInv, Distinct
<1>7. Once'
    <2>1. \A f \in 1 .. received' : f \in 1 .. received \/ f = received + 1
        BY <1>1
    <2>2. \A d \in Index : d = fill => Full(d)' /\ data'[d] = received + 1
        BY <1>1, <1>3
    <2> QED
        BY <1>1, <1>3, <1>4, <2>1, <2>2 DEF IInv, Once
<1>8. AtHand'
    <2>1. place \in {"parse", "mark"} => buffer \in Index /\ Full(buffer)
        BY DEF IInv, AtHand, Full
    <2> QED
        BY <1>1, <1>3, <1>5, <2>1 DEF IInv, AtHand, Full
<1>9. Writing'
    BY DEF Writing
<1> QED
    BY <1>2, <1>6, <1>7, <1>8, <1>9 DEF IInv

-----------------------------------------------------------------------------
(* The steps of the handler.                                               *)

\* parse_rx_packet gets a frame that was not parsed before.
LEMMA ParseKeeps == IInv /\ Parse => IInv'
<1> SUFFICES ASSUME IInv, Parse PROVE IInv'
    OBVIOUS
<1> USE DEF Parse, mac
<1>1. /\ Full(buffer) /\ ~Parsed(buffer) /\ buffer \in Index
      /\ data[buffer] \in 1 .. received /\ received \in 0 .. MaxFrames
      /\ handled \in Seq(1 .. MaxFrames)
    BY DEF IInv, TypeOK, AtHand, Distinct, Full
<1>2. /\ DOMAIN handled = 1 .. Len(handled) /\ Len(handled) \in Nat
      /\ DOMAIN handled' = 1 .. Len(handled) + 1
      /\ \A a \in 1 .. Len(handled) : handled'[a] = handled[a]
      /\ handled'[Len(handled) + 1] = data[buffer]
    BY <1>1
<1>3. \A a \in DOMAIN handled' : a \in DOMAIN handled \/ a = Len(handled) + 1
    BY <1>2
<1>4. \A a \in DOMAIN handled : a \in DOMAIN handled' /\ handled'[a] = handled[a]
    BY <1>2
<1>5. Len(handled) + 1 \in DOMAIN handled'
    BY <1>2
<1>6. TypeOK'
    <2>1. data[buffer] \in 1 .. MaxFrames
        BY <1>1, BoundAssumption
    <2>2. handled' \in Seq(1 .. MaxFrames)
        BY <1>1, <2>1
    <2> QED
        BY <2>2 DEF IInv, TypeOK
<1>7. \A d \in Index : Full(d)' <=> Full(d)
    BY DEF Full
<1>8. \A d \in Index : Parsed(d)' <=> Parsed(d) \/ data[d] = data[buffer]
    BY <1>2, <1>3, <1>4, <1>5 DEF Parsed
<1>9. Distinct'
    BY <1>7 DEF IInv, Distinct
<1>10. Once'
    <2>1. \A a \in DOMAIN handled' : handled'[a] \in 1 .. received'
        BY <1>1, <1>2, <1>3, <1>4 DEF IInv, Once
    <2>2. \A a, b \in DOMAIN handled' : handled'[a] = handled'[b] => a = b
        BY <1>1, <1>2, <1>3, <1>4 DEF IInv, Once, Parsed
    <2>3. \A f \in 1 .. received' :
              \/ \E a \in DOMAIN handled' : handled'[a] = f
              \/ \E d \in Index : Full(d)' /\ data'[d] = f
        BY <1>4, <1>7 DEF IInv, Once
    <2> QED
        BY <2>1, <2>2, <2>3 DEF Once
<1>11. AtHand'
    <2>1. \A d \in Index : Full(d) => (data[d] = data[buffer] <=> d = buffer)
        BY <1>1 DEF IInv, Distinct
    <2>2. \A d \in Index : Full(d) => ~Parsed(d)
        BY DEF IInv, AtHand
    <2>3. Full(buffer)'
        BY <1>1, <1>7
    <2> QED
        BY <1>7, <1>8, <2>1, <2>2, <2>3 DEF AtHand
<1>12. Writing'
    BY DEF IInv, Writing
<1> QED
    BY <1>6, <1>9, <1>10, <1>11, <1>12 DEF IInv

\* The buffer is given back after its frame was parsed.
LEMMA MarkKeeps == IInv /\ Mark => IInv'
<1> SUFFICES ASSUME IInv, Mark PROVE IInv'
    OBVIOUS
<1> USE DEF Mark, mac
<1>1. /\ Full(buffer) /\ Parsed(buffer) /\ buffer \in Index
      /\ empty \in [Index -> BOOLEAN] /\ fill \in Index
    BY DEF IInv, TypeOK, AtHand, Full
<1>2. TypeOK'
    <2>1. buffer + 1 \in 0 .. NBuf
        BY <1>1, RingAssumption DEF Index
    <2> QED
        BY <1>1, <2>1 DEF IInv, TypeOK
<1>3. \A d \in Index : Full(d)' <=> Full(d) /\ d # buffer
    BY <1>1 DEF Full
<1>4. \A d \in Index : Parsed(d)' <=> Parsed(d)
    BY DEF Parsed
<1>5. Distinct'
    BY <1>3 DEF IInv, Distinct
<1>6. Once'
    BY <1>1, <1>3 DEF IInv, Once, Parsed
<1>7. AtHand'
    BY <1>3, <1>4 DEF IInv, AtHand
<1>8. Writing'
    BY <1>1 DEF IInv, Writing, Full
<1> QED
    BY <1>2, <1>5, <1>6, <1>7, <1>8 DEF IInv

\* The other steps only move the handler, or count.
LEMMA OthersKeep ==
    IInv /\ (FrameDropped \/ Interrupt \/ Skip \/ Found \/ Finish \/ UNCHANGED rxVars) => IInv'
<1> SUFFICES ASSUME IInv, FrameDropped \/ Interrupt \/ Skip \/ Found \/ Finish \/ UNCHANGED rxVars
             PROVE  IInv'
    OBVIOUS
<1> USE DEF FrameDropped, Interrupt, Skip, Found, Finish, rxVars, mac, isr
<1>1. /\ empty' = empty /\ data' = data /\ handled' = handled /\ received' = received
      /\ fill' = fill /\ filling' = filling
    OBVIOUS
<1>2. TypeOK'
    <2>1. buffer' \in 0 .. NBuf
        BY RingAssumption DEF IInv, TypeOK
    <2>2. drops' \in 0 .. MaxDrops
        BY BoundAssumption DEF IInv, TypeOK
    <2>3. irq' \subseteq Sources /\ int_src' \subseteq Sources
        BY DEF IInv, TypeOK, Sources
    <2>4. place' \in {"off", "scan", "parse", "mark"} /\ raced' \in BOOLEAN
        BY DEF IInv, TypeOK
    <2> QED
        BY <1>1, <2>1, <2>2, <2>3, <2>4 DEF IInv, TypeOK
<1>3. \A d \in Index : (Full(d)' <=> Full(d)) /\ (Parsed(d)' <=> Parsed(d))
    BY <1>1 DEF Full, Parsed
<1>4. Distinct' /\ Once' /\ Writing'
    BY <1>1, <1>3 DEF IInv, Distinct, Once, Writing
<1>5. AtHand'
    <2>1. (place = "mark" <=> place' = "mark") /\ (place = "mark" => buffer' = buffer)
        OBVIOUS
    <2>2. place' \in {"parse", "mark"} => Full(buffer)'
        <3>1. CASE Found
            BY <3>1, RingAssumption DEF IInv, TypeOK, Index, Full
        <3>2. CASE FrameDropped \/ UNCHANGED rxVars
            BY <3>2 DEF IInv, AtHand, Full
        <3>3. CASE Interrupt \/ Skip \/ Finish
            BY <3>3
        <3> QED
            BY <3>1, <3>2, <3>3
    <2> QED
        BY <1>3, <2>1, <2>2 DEF IInv, AtHand
<1> QED
    BY <1>2, <1>4, <1>5 DEF IInv
-----------------------------------------------------------------------------
LEMMA InvHolds == Spec => []IInv
<1>1. IInv /\ [Next]_rxVars => IInv'
    <2> SUFFICES ASSUME IInv, [Next]_rxVars PROVE IInv'
        OBVIOUS
    <2>1. CASE FrameStarts
        BY <2>1, FrameStartsKeeps
    <2>2. CASE \E source \in Enabled : FrameEnds(source)
        BY <2>2, FrameEndsKeeps
    <2>3. CASE Parse
        BY <2>3, ParseKeeps
    <2>4. CASE Mark
        BY <2>4, MarkKeeps
    <2>5. CASE FrameDropped \/ Interrupt \/ Skip \/ Found \/ Finish \/ UNCHANGED rxVars
        BY <2>5, OthersKeep
    <2> QED
        BY <2>1, <2>2, <2>3, <2>4, <2>5 DEF Next, Mac, Handler
<1> QED
    BY <1>1, Start, PTL DEF Spec

(* No frame that the MAC put in a buffer is lost from the ring, parsed     *)
(* twice, or overwritten before it was parsed.                             *)
THEOREM FramesHold == Spec => []FramesInv
BY InvHolds, Enough, PTL
-----------------------------------------------------------------------------
(***************************************************************************)
(* KeepsUp needs to know where the frames are.  The MAC goes round: a full *)
(* buffer below the one it is at was filled in this round, another one in  *)
(* the last.  As long as frames end while one is parsed or outside the     *)
(* handler, the MAC cannot get past the buffer that is parsed: those       *)
(* between the two, or all behind the scan, are empty.                     *)
(***************************************************************************)
Placed(q) ==
    /\ received = NBuf * q + fill
    /\ \A d \in Index : Full(d) => data[d] = IF d < fill THEN NBuf * q + d + 1
                                                       ELSE NBuf * q - NBuf + d + 1
Rounds == \E q \in Nat : Placed(q)

Behind ==
    place # "off" =>
        \/ fill < buffer /\ \A d \in fill .. buffer - 1 : empty[d]
        \/ fill >= buffer /\ \A d \in 0 .. buffer - 1 : empty[d]
        \/ fill = buffer /\ place \in {"parse", "mark"}

Quiet == place = "off" /\ irq \cap Enabled = {} => \A d \in fill .. NBuf - 1 : empty[d]

ScanInv == ~raced => Behind /\ Quiet

LapInv == ~raced => LapOrder

KeepInv == Rounds /\ ScanInv /\ LapInv

LEMMA OneQuotient ==
    ASSUME NEW m \in Nat \ {0}, NEW q \in Nat, NEW r \in 0 .. m - 1
    PROVE  (m * q + r) \div m = q
BY SMT

LEMMA HandledIs == \A f : f \in Handled <=> \E a \in DOMAIN handled : handled[a] = f
BY DEF Handled, Range

\* The lap of a frame in a buffer.
LEMMA LapOfFull ==
    ASSUME IInv, NEW q \in Nat, Placed(q), NEW d \in Index, Full(d)
    PROVE  /\ d < fill => Lap(data[d]) = q
           /\ d >= fill => q > 0 /\ Lap(data[d]) = q - 1
<1>1. /\ NBuf \in Nat \ {0} /\ d \in 0 .. NBuf - 1 /\ data[d] \in Nat /\ data[d] >= 1
      /\ NBuf * q \in Nat
    <2>1. data[d] \in 1 .. received /\ received \in Nat
        BY BoundAssumption DEF IInv, Distinct, TypeOK
    <2> QED
        BY <2>1, RingAssumption DEF Index
<1>2. ASSUME d < fill PROVE Lap(data[d]) = q
    <2>1. data[d] - 1 = NBuf * q + d
        BY <1>1, <1>2 DEF Placed
    <2> QED
        BY <1>1, <2>1, OneQuotient DEF Lap
<1>3. ASSUME d >= fill PROVE q > 0 /\ Lap(data[d]) = q - 1
    <2>1. data[d] = NBuf * q - NBuf + d + 1
        <3>1. ~(d < fill)
            BY <1>1, <1>3 DEF IInv, TypeOK, Index
        <3> QED
            BY <3>1 DEF Placed
    <2>2. q # 0
        <3>1. ASSUME q = 0 PROVE NBuf * q = 0
            BY <1>1, <3>1
        <3> QED
            BY <1>1, <2>1, <3>1
    <2>3. q - 1 \in Nat
        BY <2>2
    <2>4. data[d] - 1 = NBuf * (q - 1) + d
        <3>1. NBuf * (q - 1) = NBuf * q - NBuf
            BY <1>1
        <3> QED
            BY <1>1, <2>1, <3>1
    <2>5. Lap(data[d]) = q - 1
        BY <1>1, <2>3, <2>4, OneQuotient DEF Lap
    <2> QED
        BY <2>3, <2>5
<1> QED
    BY <1>2, <1>3
-----------------------------------------------------------------------------
\* A frame that ends takes the MAC on by one buffer, but never past the one
\* that is parsed.
LEMMA FrameEndsPlaces ==
    ASSUME IInv, Rounds, NEW source \in Enabled, FrameEnds(source)
    PROVE  Rounds'
<1>1. PICK q \in Nat : Placed(q)
    BY DEF Rounds
<1>2. /\ fill \in 0 .. NBuf - 1 /\ NBuf \in Nat \ {0} /\ NBuf * q \in Nat
      /\ data' = data /\ data[fill] = received + 1 /\ received' = received + 1
      /\ fill' = NextDescriptor(fill) /\ received = NBuf * q + fill
    BY <1>1, RingAssumption DEF FrameEnds, IInv, TypeOK, Index, Writing, Placed
<1>3. \A d \in Index : Full(d)' <=> Full(d) \/ d = fill
    BY <1>2 DEF Full, FrameEnds, IInv, TypeOK
<1>4. CASE fill = NBuf - 1
    <2>1. fill' = 0 /\ NBuf * (q + 1) = NBuf * q + NBuf /\ q + 1 \in Nat
        BY <1>2, <1>4 DEF NextDescriptor
    <2>2. received' = NBuf * (q + 1) + fill'
        BY <1>2, <1>4, <2>1
    <2>3. ASSUME NEW d \in Index, Full(d)'
          PROVE  data'[d] = NBuf * (q + 1) - NBuf + d + 1 /\ ~(d < fill')
        <3>1. d \in 0 .. NBuf - 1
            BY DEF Index
        <3>2. CASE d = fill
            BY <1>2, <1>4, <2>1, <3>1, <3>2
        <3>3. CASE d # fill
            <4>1. d < fill /\ data[d] = NBuf * q + d + 1
                BY <1>1, <1>2, <1>3, <1>4, <2>3, <3>1, <3>3 DEF Placed
            <4> QED
                BY <1>2, <2>1, <3>1, <4>1
        <3> QED
            BY <3>2, <3>3
    <2>4. Placed(q + 1)'
        BY <2>2, <2>3 DEF Placed
    <2> QED
        BY <2>1, <2>4 DEF Rounds
<1>5. CASE fill # NBuf - 1
    <2>1. fill' = fill + 1 /\ received' = NBuf * q + fill'
        BY <1>2, <1>5 DEF NextDescriptor
    <2>2. ASSUME NEW d \in Index, Full(d)'
          PROVE  data'[d] = IF d < fill' THEN NBuf * q + d + 1 ELSE NBuf * q - NBuf + d + 1
        <3>1. d \in 0 .. NBuf - 1
            BY DEF Index
        <3>2. CASE d = fill
            BY <1>2, <2>1, <3>1, <3>2
        <3>3. CASE d # fill
            <4>1. data[d] = (IF d < fill THEN NBuf * q + d + 1 ELSE NBuf * q - NBuf + d + 1)
                  /\ (d < fill <=> d < fill')
                BY <1>1, <1>2, <1>3, <2>1, <2>2, <3>1, <3>3 DEF Placed
            <4> QED
                BY <1>2, <4>1
        <3> QED
            BY <3>2, <3>3
    <2>3. Placed(q)'
        BY <2>1, <2>2 DEF Placed
    <2> QED
        BY <2>3 DEF Rounds
<1> QED
    BY <1>4, <1>5

LEMMA FrameEndsScan ==
    ASSUME IInv, ScanInv, NEW source \in Enabled, FrameEnds(source)
    PROVE  ScanInv'
<1> SUFFICES ASSUME ~raced' PROVE Behind' /\ Quiet'
    BY DEF ScanInv
<1>1. /\ ~raced /\ place \notin {"scan", "mark"} /\ place' = place /\ buffer' = buffer
      /\ empty' = [empty EXCEPT ![fill] = FALSE] /\ fill' = NextDescriptor(fill)
      /\ irq' = irq \cup {source}
    BY DEF FrameEnds, isr
<1>2. /\ fill \in 0 .. NBuf - 1 /\ NBuf \in Nat \ {0} /\ empty[fill] /\ empty \in [Index -> BOOLEAN]
      /\ place \in {"off", "parse"} /\ buffer \in 0 .. NBuf
    BY <1>1, RingAssumption DEF FrameEnds, IInv, TypeOK, Index, Writing
<1>3. Quiet'
    BY <1>1 DEF Quiet
<1>4. ASSUME place = "parse" PROVE Behind'
    <2>1. buffer \in 0 .. NBuf - 1 /\ ~empty[buffer] /\ fill # buffer
        BY <1>2, <1>4 DEF IInv, AtHand, Full, Index
    <2>2. \A d \in 0 .. NBuf - 1 : d # fill => empty'[d] = empty[d]
        BY <1>1, <1>2 DEF Index
    <2>3. CASE fill < buffer /\ \A d \in fill .. buffer - 1 : empty[d]
        <3>1. fill' = fill + 1
            BY <1>1, <1>2, <2>1, <2>3 DEF NextDescriptor
        <3>2. \A d \in fill' .. buffer - 1 : empty'[d]
            BY <1>2, <2>1, <2>2, <2>3, <3>1
        <3>3. fill' < buffer \/ fill' = buffer
            BY <1>2, <2>1, <2>3, <3>1
        <3> QED
            BY <1>1, <1>4, <3>2, <3>3 DEF Behind
    <2>4. CASE fill > buffer /\ \A d \in 0 .. buffer - 1 : empty[d]
        <3>1. \A d \in 0 .. buffer - 1 : empty'[d]
            BY <1>2, <2>1, <2>2, <2>4
        <3>2. CASE fill = NBuf - 1
            <4>1. fill' = 0
                BY <1>1, <3>2 DEF NextDescriptor
            <4>2. fill' < buffer \/ fill' = buffer
                BY <2>1, <4>1
            <4> QED
                BY <1>1, <1>4, <3>1, <4>1, <4>2 DEF Behind
        <3>3. CASE fill # NBuf - 1
            <4>1. fill' = fill + 1 /\ fill' >= buffer
                BY <1>1, <1>2, <2>1, <2>4, <3>3 DEF NextDescriptor
            <4> QED
                BY <1>1, <3>1, <4>1 DEF Behind
        <3> QED
            BY <3>2, <3>3
    <2> QED
        BY <1>1, <1>2, <1>4, <2>1, <2>3, <2>4 DEF ScanInv, Behind
<1>5. CASE place = "off"
    BY <1>1, <1>3, <1>5 DEF Behind
<1> QED
    BY <1>2, <1>3, <1>4, <1>5, <1>1 DEF Behind

\* A new frame is the last of its lap.
LEMMA FrameEndsLaps ==
    ASSUME IInv, LapInv, NEW source \in Enabled, FrameEnds(source)
    PROVE  LapInv'
<1>1. received' = received + 1 /\ received \in Nat
    BY BoundAssumption DEF FrameEnds, IInv, TypeOK
<1>2. Handled' = Handled /\ \A f \in Handled : f \in 1 .. received
    BY HandledIs DEF IInv, Once, FrameEnds, Handled
<1>3. raced => raced'
    BY DEF FrameEnds
<1> SUFFICES ASSUME ~raced, LapOrder, NEW f \in 1 .. received', NEW g \in 1 .. received', f < g,
                    Lap(f) = Lap(g), g \in Handled
             PROVE  f \in Handled
    BY <1>2, <1>3 DEF LapInv, LapOrder, Lap
<1>4. g \in 1 .. received
    BY <1>2
<1>5. f \in 1 .. received
    BY <1>1, <1>4
<1> QED
    BY <1>4, <1>5 DEF LapOrder

\* The frame that is parsed is the first of its lap that was not.
LEMMA ParseLaps ==
    ASSUME IInv, Rounds, ScanInv, LapInv, Parse
    PROVE  LapInv'
<1> SUFFICES ASSUME ~raced, NEW f \in 1 .. received, NEW g \in 1 .. received, f < g, Lap(f) = Lap(g),
                    g \in Handled'
             PROVE  f \in Handled'
    BY DEF LapInv, LapOrder, Lap, Parse, mac
<1>1. /\ place = "parse" /\ handled' = Append(handled, data[buffer]) /\ Full(buffer)
      /\ handled \in Seq(1 .. MaxFrames)
    BY DEF Parse, IInv, AtHand, TypeOK
<1>2. /\ DOMAIN handled = 1 .. Len(handled) /\ Len(handled) \in Nat
      /\ DOMAIN handled' = 1 .. Len(handled) + 1
      /\ \A a \in 1 .. Len(handled) : handled'[a] = handled[a]
      /\ handled'[Len(handled) + 1] = data[buffer]
    BY <1>1
<1>3. Handled' = Handled \cup {data[buffer]}
    <2>1. \A h : h \in Handled' <=> \E a \in DOMAIN handled' : handled'[a] = h
        BY DEF Handled, Range
    <2>2. \A a : a \in DOMAIN handled' <=> a \in DOMAIN handled \/ a = Len(handled) + 1
        BY <1>2
    <2> QED
        BY <1>2, <2>1, <2>2, HandledIs
<1>4. CASE g \in Handled
    BY <1>3, <1>4 DEF LapInv, LapOrder
<1>5. CASE g = data[buffer]
    <2> SUFFICES ASSUME f \notin Handled PROVE FALSE
        BY <1>3
    <2>1. PICK c \in Index : Full(c) /\ data[c] = f
        BY HandledIs DEF IInv, Once
    <2>2. PICK q \in Nat : Placed(q)
        BY DEF Rounds
    <2>3. /\ c \in 0 .. NBuf - 1 /\ buffer \in 0 .. NBuf - 1 /\ fill \in 0 .. NBuf - 1
          /\ NBuf \in Nat \ {0} /\ NBuf * q \in Nat /\ ~empty[c]
        BY <1>1, <2>1, RingAssumption DEF Full, Index, IInv, TypeOK
    <2>4. /\ c < fill => Lap(f) = q /\ f = NBuf * q + c + 1
          /\ ~(c < fill) => Lap(f) = q - 1 /\ f = NBuf * q - NBuf + c + 1
        BY <2>1, <2>2, <2>3, LapOfFull DEF Placed
    <2>5. /\ buffer < fill => Lap(g) = q /\ g = NBuf * q + buffer + 1
          /\ ~(buffer < fill) => Lap(g) = q - 1 /\ g = NBuf * q - NBuf + buffer + 1
        <3>1. buffer \in Index /\ data[buffer] = g
            BY <1>1, <1>5 DEF Full
        <3>2. data[buffer] = IF buffer < fill THEN NBuf * q + buffer + 1 ELSE NBuf * q - NBuf + buffer + 1
            BY <1>1, <2>2, <3>1 DEF Placed
        <3>3. /\ buffer < fill => Lap(data[buffer]) = q
              /\ buffer >= fill => Lap(data[buffer]) = q - 1
            BY <1>1, <2>2, <3>1, LapOfFull
        <3> QED
            BY <2>3, <3>1, <3>2, <3>3
    <2>6. (c < fill <=> buffer < fill) /\ c < buffer
        <3>1. q # q - 1
            OBVIOUS
        <3>2. c < fill <=> buffer < fill
            BY <2>4, <2>5, <3>1
        <3> QED
            BY <2>3, <2>4, <2>5, <3>2
    <2>7. \/ fill < buffer /\ \A d \in fill .. buffer - 1 : empty[d]
          \/ fill >= buffer /\ \A d \in 0 .. buffer - 1 : empty[d]
          \/ fill = buffer
        BY <1>1 DEF ScanInv, Behind
    <2> QED
        BY <2>3, <2>6, <2>7
<1> QED
    BY <1>3, <1>4, <1>5

\* The scan leaves an empty buffer behind it with each step.
LEMMA HandlerScan ==
    ASSUME IInv, ScanInv, Interrupt \/ Skip \/ Found \/ Parse \/ Mark \/ Finish
    PROVE  ScanInv'
<1> SUFFICES ASSUME ~raced, Behind, Quiet PROVE Behind' /\ Quiet'
    BY DEF ScanInv, Interrupt, Skip, Found, Parse, Mark, Finish
<1>1. /\ fill \in 0 .. NBuf - 1 /\ NBuf \in Nat \ {0} /\ buffer \in 0 .. NBuf /\ fill' = fill
      /\ empty \in [Index -> BOOLEAN]
    BY RingAssumption DEF Interrupt, Skip, Found, Parse, Mark, Finish, mac, IInv, TypeOK, Index
<1>2. CASE Interrupt
    BY <1>1, <1>2 DEF Interrupt, Behind, Quiet, mac
<1>3. CASE Found \/ Parse
    BY <1>1, <1>3 DEF Found, Parse, Behind, Quiet, mac
<1>4. CASE Finish
    BY <1>1, <1>4 DEF Finish, Behind, Quiet, mac
<1>5. CASE Skip \/ Mark
    <2>1. /\ buffer' = buffer + 1 /\ place' = "scan" /\ buffer \in 0 .. NBuf - 1
          /\ empty'[buffer] /\ \A d \in 0 .. NBuf - 1 : empty[d] => empty'[d]
        <3>1. CASE Skip
            BY <1>1, <3>1 DEF Skip
        <3>2. CASE Mark
            BY <1>1, <3>2 DEF Mark, IInv, AtHand, Full, Index
        <3> QED
            BY <1>5, <3>1, <3>2
    <2>2. Quiet'
        BY <2>1 DEF Quiet
    <2>3. CASE fill < buffer /\ \A d \in fill .. buffer - 1 : empty[d]
        BY <1>1, <2>1, <2>2, <2>3 DEF Behind
    <2>4. CASE fill > buffer /\ \A d \in 0 .. buffer - 1 : empty[d]
        BY <1>1, <2>1, <2>2, <2>4 DEF Behind
    <2>5. CASE fill = buffer
        BY <1>1, <2>1, <2>2, <2>5 DEF Behind
    <2> QED
        BY <1>1, <1>5, <2>2, <2>3, <2>4, <2>5 DEF Behind, Skip, Mark
<1> QED
    BY <1>2, <1>3, <1>4, <1>5

LEMMA KeepStep == ASSUME IInv, KeepInv, [Next]_rxVars PROVE KeepInv'
<1>0. Rounds /\ ScanInv /\ LapInv
    BY DEF KeepInv
<1>1. ASSUME NEW source \in Enabled, FrameEnds(source) PROVE KeepInv'
    BY <1>0, <1>1, FrameEndsPlaces, FrameEndsScan, FrameEndsLaps DEF KeepInv
\* Only the end of a frame moves the MAC; the handler only empties buffers.
<1>2. ASSUME UNCHANGED <<fill, received>>,
             \A d \in Index : Full(d)' => Full(d) /\ data'[d] = data[d]
      PROVE  Rounds'
    BY <1>0, <1>2 DEF Rounds, Placed
<1>3. CASE FrameStarts
    <2>1. \A d \in Index : Full(d)' => Full(d) /\ data'[d] = data[d]
        BY <1>3 DEF FrameStarts, Full, IInv, TypeOK
    <2> QED
        BY <1>0, <1>2, <1>3, <2>1
        DEF FrameStarts, isr, KeepInv, ScanInv, Behind, Quiet, LapInv, LapOrder, Handled, Lap
<1>4. CASE FrameDropped
    <2>1. irq' \cap Enabled = irq \cap Enabled
        BY <1>4 DEF FrameDropped, Enabled
    <2> QED
        BY <1>0, <1>2, <1>4, <2>1
        DEF FrameDropped, isr, Full, KeepInv, ScanInv, Behind, Quiet, LapInv, LapOrder, Handled, Lap
<1>5. CASE Interrupt \/ Skip \/ Found \/ Parse \/ Mark \/ Finish
    <2>1. Rounds'
        BY <1>2, <1>5 DEF Interrupt, Skip, Found, Parse, Mark, Finish, mac, Full, IInv, TypeOK
    <2>2. ScanInv'
        BY <1>0, <1>5, HandlerScan
    <2>3. LapInv'
        <3>1. CASE Parse
            BY <1>0, <3>1, ParseLaps
        <3>2. CASE ~Parse
            BY <1>0, <1>5, <3>2
            DEF Interrupt, Skip, Found, Mark, Finish, mac, LapInv, LapOrder, Handled, Lap
        <3> QED
            BY <3>1, <3>2
    <2> QED
        BY <2>1, <2>2, <2>3 DEF KeepInv
<1>6. CASE UNCHANGED rxVars
    BY <1>0, <1>6 DEF rxVars, mac, isr, KeepInv, Rounds, Placed, Full, ScanInv, Behind, Quiet, LapInv,
                      LapOrder, Handled, Lap
<1> QED
    BY <1>1, <1>3, <1>4, <1>5, <1>6 DEF Next, Mac, Handler

(* As long as frames end while one is parsed or outside the handler, the   *)
(* MAC is never left at a full buffer that no handler will free, and the   *)
(* frames of a lap are parsed in the order they came.                      *)
THEOREM HandlerKeepsUp == Spec => []KeepsUp
<1>1. RingInit => KeepInv
    <2> SUFFICES ASSUME RingInit PROVE KeepInv
        OBVIOUS
    <2>1. NBuf * 0 = 0 /\ \A d \in Index : ~Full(d)
        BY RingAssumption DEF RingInit, Full
    <2>2. Placed(0)
        BY <2>1 DEF RingInit, Placed
    <2>3. ScanInv
        BY DEF RingInit, ScanInv, Behind, Quiet, Index
    <2>4. LapInv
        BY DEF RingInit, LapInv, LapOrder
    <2> QED
        BY <2>2, <2>3, <2>4 DEF KeepInv, Rounds
<1>2. IInv /\ KeepInv => KeepsUp
    <2> SUFFICES ASSUME IInv, KeepInv PROVE KeepsUp
        OBVIOUS
    <2>1. fill \in fill .. NBuf - 1
        BY RingAssumption DEF IInv, TypeOK, Index
    <2>2. NotDeaf
        BY <2>1 DEF KeepInv, ScanInv, Quiet, NotDeaf
    <2>3. LapOrder
        BY DEF KeepInv, LapInv, LapOrder
    <2> QED
        BY <2>2, <2>3 DEF KeepsUp
<1> QED
    BY <1>1, <1>2, InvHolds, KeepStep, PTL DEF Spec
=============================================================================
