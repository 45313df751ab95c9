-------------------------- MODULE LineBufferProofs --------------------------
(***************************************************************************)
(* Proofs about LineBuffer: memory safety for every size and every client, *)
(* and that no interleaving of put_byte with get_line loses, repeats or    *)
(* reorders a byte, as long as the buffer does not wrap, or for a client   *)
(* that waits for its answers.                                             *)
(***************************************************************************)
EXTENDS LineBuffer, SequenceTheorems, TLAPS

LEMMA WrapInside ==
    ASSUME NEW p \in Nat
    PROVE  Wrap(p) \in Nat /\ Wrap(p) + MaxLine < LenBytes
BY SizeAssumption DEF Wrap

\* The line handed out is a sequence of len integers.
LEMMA LineType ==
    ASSUME TypeOK, pc = "check"
    PROVE  Line \in Seq(Int) /\ Len(Line) = len /\ len \in Nat
<1>1. len \in Nat /\ buf \in [Cells -> Int]
    BY SizeAssumption DEF TypeOK
<1>2. \A i \in 1 .. len : read_ptr + i - 1 \in Cells
    BY SizeAssumption DEF TypeOK, Cells
<1>3. \A i \in 1 .. len : buf[read_ptr + i - 1] - Byte(0) \in Int
    <2> TAKE i \in 1 .. len
    <2> QED
        BY <1>1, <1>2, Z3 DEF Byte
<1>4. Line \in [1 .. len -> Int]
    BY <1>3 DEF Line
<1> QED
    BY <1>1, <1>4

\* What is stored for the n-th byte of what was typed.
Kept(bytes, n) == Stored(n, bytes[n])

\* What one put_byte does to the client's two sequences.
LEMMA PutSequences ==
    ASSUME TypeOK, put_byte
    PROVE  /\ typed' \in Seq({0, 1, 2}) /\ packet' \in Seq({0, 1, 2})
           /\ Len(typed') = Len(typed) + 1
           /\ Len(packet') = Len(packet) - 1 /\ Len(packet') \in Nat
           /\ Head(packet) \in {0, 1, 2} /\ typed'[Len(typed) + 1] = Head(packet)
           /\ \A n \in 1 .. Len(typed) : typed'[n] = typed[n]
<1>1. typed \in Seq({0, 1, 2}) /\ packet \in Seq({0, 1, 2}) /\ packet # <<>>
    BY DEF TypeOK, put_byte
<1>2. /\ Head(packet) \in {0, 1, 2}
      /\ Tail(packet) \in Seq({0, 1, 2})
      /\ Len(Tail(packet)) = Len(packet) - 1
    BY <1>1, HeadTailProperties
<1>3. /\ Append(typed, Head(packet)) \in Seq({0, 1, 2})
      /\ Len(Append(typed, Head(packet))) = Len(typed) + 1
      /\ Append(typed, Head(packet))[Len(typed) + 1] = Head(packet)
      /\ \A n \in 1 .. Len(typed) : Append(typed, Head(packet))[n] = typed[n]
    BY <1>1, <1>2, AppendProperties
<1>4. Len(Tail(packet)) \in Nat
    BY <1>2, LenProperties
<1> QED
    BY <1>2, <1>3, <1>4 DEF put_byte

\* put_byte writes the byte and its marker, both inside the buffer.
LEMMA PutCells ==
    ASSUME TypeOK, put_byte
    PROVE  /\ write_ptr + 1 \in Cells /\ write_ptr \in Cells
           /\ buf' \in [Cells -> Int]
           /\ buf'[write_ptr] = Kept(typed', Len(typed) + 1)
           /\ \A n \in 1 .. Len(typed) : Kept(typed', n) = Kept(typed, n)
           /\ buf'[write_ptr + 1] \in {EndMark, MoreMark}
           /\ buf'[write_ptr + 1] = EndMark <=> typed'[Len(typed')] = 1
           /\ \A c \in Cells \ {write_ptr, write_ptr + 1} : buf'[c] = buf[c]
<1>1. write_ptr \in Cells /\ write_ptr + 1 \in Cells /\ write_ptr # write_ptr + 1
    BY SizeAssumption DEF TypeOK, Cells
<1> DEFINE stored == Stored(Len(typed) + 1, Head(packet))
<1>2. stored \in Int /\ EndMark \in Int /\ MoreMark \in Int
    <2>1. Len(typed) \in Nat
        BY LenProperties DEF TypeOK
    <2> QED
        BY <2>1 DEF Stored, Byte, EndMark, MoreMark
<1>3. buf \in [Cells -> Int]
    BY DEF TypeOK
<1> DEFINE mark == IF Head(packet) = 1 THEN EndMark ELSE MoreMark
<1>4. buf' = [buf EXCEPT ![write_ptr]     = stored,
                         ![write_ptr + 1] = mark]
    BY DEF put_byte
<1>5. mark \in {EndMark, MoreMark} /\ (mark = EndMark <=> typed'[Len(typed')] = 1)
    BY PutSequences DEF EndMark, MoreMark
<1>6. stored = Kept(typed', Len(typed) + 1) /\ \A n \in 1 .. Len(typed) : Kept(typed', n) = Kept(typed, n)
    BY PutSequences DEF Kept
<1> HIDE DEF mark, stored
<1> QED
    BY <1>1, <1>2, <1>3, <1>4, <1>5, <1>6
-----------------------------------------------------------------------------
(* Memory safety.                                                          *)

LEMMA TypeInit == Init => TypeOK
<1> SUFFICES ASSUME Init PROVE TypeOK
    OBVIOUS
<1>1. buf \in [Cells -> Int]
    BY DEF Init, Junk
<1>2. <<>> \in Seq({0, 1, 2}) /\ <<>> \in Seq(Int)
    BY EmptySeq
<1>3. 0 \in 0 .. MaxLine /\ 0 + MaxLine < LenBytes
    BY SizeAssumption
<1> QED
    BY <1>1, <1>2, <1>3 DEF Init, TypeOK

LEMMA TypeStep == TypeOK /\ [Next]_vars => TypeOK'
<1> SUFFICES ASSUME TypeOK, [Next]_vars PROVE TypeOK'
    OBVIOUS
<1>1. CASE \E p \in style.packets : Receive(p)
    BY <1>1, StylesAssumption DEF Receive, TypeOK, history
<1>2. CASE put_byte
    <2>1. write_ptr' \in Nat /\ write_ptr' + MaxLine < LenBytes
        <3>1. write_ptr + 1 \in Nat
            BY DEF TypeOK
        <3> QED
            BY <1>2, <3>1, WrapInside DEF put_byte
    <2> QED
        BY <1>2, <2>1, PutSequences, PutCells DEF put_byte, TypeOK, history
<1>3. CASE GetLine
    <2>1. read_ptr' \in Nat /\ read_ptr' + MaxLine < LenBytes
        BY <1>3, WrapInside DEF GetLine, TypeOK
    <2> QED
        BY <1>3, <2>1, SizeAssumption DEF GetLine, TypeOK, client
<1>4. CASE Scan
    BY <1>4, SizeAssumption DEF Scan, TypeOK, client, history
<1>5. CASE Check
    <2>1. Line \in Seq(Int)
        BY <1>5, LineType DEF Check
    <2>2. taken \o Line \in Seq(Int) /\ Len(taken) \in Nat
        BY <2>1, ConcatProperties, LenProperties DEF TypeOK
    <2>3. read_ptr + len \in Nat
        BY SizeAssumption DEF TypeOK
    <2> QED
        BY <1>5, <2>2, <2>3 DEF Check, TypeOK, client
<1>6. CASE UNCHANGED vars
    BY <1>6 DEF vars, client, history, TypeOK
<1> QED
    BY <1>1, <1>2, <1>3, <1>4, <1>5, <1>6 DEF Next, MainLoop

\* No access of put_byte or get_line leaves the buffer, for every size.
THEOREM InsideBuffer == Spec => []TypeOK
<1> QED
    BY TypeInit, TypeStep, PTL DEF Spec
-----------------------------------------------------------------------------
(***************************************************************************)
(* Order.  Until the buffer wraps, write_ptr and read_ptr count the bytes  *)
(* put and the bytes taken, and cell c holds byte c + 1.  The scan has     *)
(* passed by no Ctrl-A: that is a marker to it.                            *)
(***************************************************************************)
Counts ==
    /\ write_ptr = Len(typed)
    /\ read_ptr = Len(taken) /\ read_ptr <= write_ptr

Contents ==
    /\ \A c \in 0 .. write_ptr - 1 : buf[c] = Kept(typed, c + 1)
    /\ write_ptr > 0 => /\ buf[write_ptr] \in {EndMark, MoreMark}
                        /\ buf[write_ptr] = EndMark <=> typed[Len(typed)] = 1

ScanInv ==
    pc # "idle" => /\ read_ptr + len <= snapshot
                   /\ read_ptr < snapshot
                   /\ snapshot <= write_ptr

\* No Ctrl-A among the bytes that the scan has passed.
NoMark == pc # "idle" => \A j \in 1 .. len : typed[Len(taken) + j] # 2

Identity == \A i \in 1 .. Len(taken) : taken[i] = i

StreamInv == Counts /\ Contents /\ ScanInv /\ NoMark /\ Identity

\* write_ptr stays below the wrap as long as the buffer has not come round.
LEMMA NoWrap ==
    ASSUME NEW p \in Nat, p + MaxLine < LenBytes
    PROVE  Wrap(p) = p
BY SizeAssumption DEF Wrap

\* The types as plain facts about numbers.
LEMMA Lengths ==
    ASSUME TypeOK
    PROVE  /\ Len(typed) \in Nat /\ Len(packet) \in Nat /\ Len(taken) \in Nat
           /\ write_ptr \in Nat /\ read_ptr \in Nat /\ snapshot \in Nat
           /\ len \in 0 .. MaxLine /\ MaxLine \in Nat /\ LenBytes \in Nat
BY SizeAssumption, LenProperties DEF TypeOK

LEMMA PutKeepsStream ==
    ASSUME TypeOK, StreamInv, FirstPass', put_byte
    PROVE  StreamInv'
<1>1. write_ptr' = write_ptr + 1
    <2>1. write_ptr + 1 \in Nat /\ write_ptr + 1 + MaxLine < LenBytes
        BY PutSequences, Lengths DEF FirstPass, StreamInv, Counts
    <2> QED
        BY <2>1, NoWrap DEF put_byte
<1>2. UNCHANGED <<read_ptr, pc, snapshot, len, taken>>
    BY DEF put_byte, history
<1>3. Counts'
    <2>1. Len(typed') = Len(typed) + 1
        BY PutSequences
    <2>2. read_ptr' = read_ptr /\ Len(taken') = Len(taken)
        BY <1>2
    <2> QED
        BY <1>1, <2>1, <2>2, Lengths DEF StreamInv, Counts
<1>4. Contents'
    <2>1. \A c \in 0 .. write_ptr - 1 : c \in Cells \ {write_ptr, write_ptr + 1}
        BY PutCells, Lengths DEF Cells
    <2>2. \A c \in 0 .. write_ptr - 1 : buf'[c] = Kept(typed', c + 1)
        <3> TAKE c \in 0 .. write_ptr - 1
        <3>1. c + 1 \in 1 .. Len(typed)
            BY Lengths DEF StreamInv, Counts
        <3>2. Kept(typed', c + 1) = Kept(typed, c + 1) /\ buf[c] = Kept(typed, c + 1)
            BY <3>1, PutCells DEF StreamInv, Contents
        <3> QED
            BY <2>1, <3>2, PutCells
    <2>3. buf'[write_ptr] = Kept(typed', write_ptr + 1)
        BY PutCells DEF StreamInv, Counts
    <2>4. \A c \in 0 .. write_ptr' - 1 : c \in 0 .. write_ptr - 1 \/ c = write_ptr
        BY <1>1, Lengths
    <2> QED
        BY <1>1, <2>2, <2>3, <2>4, PutCells DEF Contents
<1>5. ScanInv'
    BY <1>1, <1>2, Lengths DEF StreamInv, ScanInv
<1>6. Identity'
    BY <1>2 DEF StreamInv, Identity
<1>7. NoMark'
    <2>1. ASSUME pc # "idle", NEW j \in 1 .. len PROVE typed'[Len(taken) + j] # 2
        <3>1. Len(taken) + j \in 1 .. Len(typed)
            BY <2>1, Lengths DEF StreamInv, Counts, ScanInv
        <3> QED
            BY <2>1, <3>1, PutSequences DEF StreamInv, NoMark
    <2> QED
        BY <1>2, <2>1 DEF NoMark
<1> QED
    BY <1>3, <1>4, <1>5, <1>6, <1>7 DEF StreamInv

LEMMA CheckKeepsStream ==
    ASSUME TypeOK, StreamInv, Check
    PROVE  StreamInv'
<1>1. UNCHANGED <<buf, write_ptr, packet, typed>> /\ pc' = "idle"
    BY DEF Check, client
<1>2. Contents' /\ ScanInv' /\ NoMark'
    BY <1>1 DEF StreamInv, Contents, ScanInv, NoMark, Kept
<1>3. CASE ret' = "empty"
    <2>1. UNCHANGED <<read_ptr, taken>>
        BY <1>3 DEF Check
    <2> QED
        BY <1>1, <1>2, <2>1 DEF StreamInv, Counts, Identity
<1>4. CASE ret' = "line"
    <2>1. taken' = taken \o Line /\ read_ptr' = read_ptr + len /\ pc = "check"
        BY <1>4 DEF Check
    <2>2. Line \in Seq(Int) /\ Len(Line) = len /\ len \in Nat
        BY <2>1, LineType
    <2>3. taken \in Seq(Int)
        BY DEF TypeOK
    <2>4. /\ Len(taken') = Len(taken) + len
          /\ \A i \in 1 .. Len(taken) + len :
                taken'[i] = IF i <= Len(taken) THEN taken[i] ELSE Line[i - Len(taken)]
        BY <2>1, <2>2, <2>3, ConcatProperties
    <2>5. read_ptr + len <= write_ptr
        BY <2>1, Lengths DEF StreamInv, ScanInv
    <2>6. \A i \in 1 .. len : Line[i] = read_ptr + i
        <3> TAKE i \in 1 .. len
        <3>1. read_ptr + i - 1 \in 0 .. write_ptr - 1
            BY <2>5, Lengths
        <3>2. buf[read_ptr + i - 1] = Kept(typed, read_ptr + i - 1 + 1)
            BY <3>1 DEF StreamInv, Contents
        <3>3. typed[read_ptr + i] # 2 /\ read_ptr + i - 1 + 1 = read_ptr + i
            BY <2>1, Lengths DEF StreamInv, Counts, NoMark
        <3> QED
            BY <3>2, <3>3, Lengths DEF Line, Byte, Kept, Stored
    <2>7. Counts'
        BY <1>1, <2>1, <2>4, <2>5, Lengths DEF StreamInv, Counts
    <2>8. Identity'
        <3> SUFFICES ASSUME NEW i \in 1 .. Len(taken') PROVE taken'[i] = i
            BY DEF Identity
        <3>1. CASE i <= Len(taken)
            <4>1. i \in 1 .. Len(taken) /\ taken'[i] = taken[i]
                BY <2>4, <3>1, Lengths
            <4> QED
                BY <4>1 DEF StreamInv, Identity
        <3>2. CASE ~(i <= Len(taken))
            <4>1. i - Len(taken) \in 1 .. len /\ taken'[i] = Line[i - Len(taken)]
                BY <2>4, <3>2, Lengths
            <4>2. read_ptr = Len(taken)
                BY DEF StreamInv, Counts
            <4> QED
                BY <2>6, <4>1, <4>2, Lengths
        <3> QED
            BY <3>1, <3>2
    <2> QED
        BY <1>2, <2>7, <2>8 DEF StreamInv
<1> QED
    BY <1>3, <1>4 DEF Check

LEMMA ScanKeepsStream ==
    ASSUME TypeOK, StreamInv, Scan
    PROVE  StreamInv'
<1>1. UNCHANGED <<buf, write_ptr, read_ptr, snapshot, packet, typed, taken>>
    BY DEF Scan, client, history
<1>2. read_ptr + len <= snapshot /\ read_ptr < snapshot /\ snapshot <= write_ptr
    BY DEF Scan, StreamInv, ScanInv
<1>3. len' = len \/ (len' = len + 1 /\ read_ptr + len # snapshot)
    BY DEF Scan
<1>4. read_ptr + len' <= snapshot
    <2>1. read_ptr \in Nat /\ snapshot \in Nat /\ len \in Nat
        BY Lengths
    <2> QED
        BY <1>2, <1>3, <2>1
<1>5. ScanInv'
    BY <1>1, <1>2, <1>4 DEF ScanInv
<1>6. Counts' /\ Contents' /\ Identity'
    BY <1>1 DEF StreamInv, Counts, Contents, Identity, Kept
<1>7. NoMark'
    <2>1. CASE len' = len
        BY <1>1, <2>1 DEF Scan, StreamInv, NoMark
    <2>2. CASE len' = len + 1 /\ Here \notin {EndMark, MoreMark} /\ read_ptr + len # snapshot
        <3>1. /\ read_ptr + len \in 0 .. write_ptr - 1 /\ read_ptr = Len(taken)
              /\ Len(taken) + len + 1 = Len(taken) + (len + 1)
            BY <1>2, <2>2, Lengths DEF StreamInv, Counts
        <3>2. Here = Kept(typed, Len(taken) + (len + 1))
            BY <3>1 DEF StreamInv, Contents, Here
        <3>3. typed[Len(taken) + (len + 1)] # 2
            BY <2>2, <3>2 DEF Kept, Stored
        <3>4. \A j \in 1 .. len + 1 : j \in 1 .. len \/ j = len + 1
            BY Lengths
        <3>5. \A j \in 1 .. len : typed[Len(taken) + j] # 2
            BY DEF Scan, StreamInv, NoMark
        <3> QED
            BY <1>1, <2>2, <3>3, <3>4, <3>5 DEF NoMark
    <2> QED
        BY <1>3, <2>1, <2>2 DEF Scan
<1> QED
    BY <1>5, <1>6, <1>7 DEF StreamInv

\* What has been typed only grows: the first pass, once over, is over.
LEMMA PassEnds ==
    ASSUME TypeOK, [Next]_vars, FirstPass'
    PROVE  FirstPass
<1>1. CASE put_byte
    BY <1>1, PutSequences, Lengths DEF FirstPass
<1>2. CASE UNCHANGED typed
    BY <1>2 DEF FirstPass
<1> QED
    BY <1>1, <1>2 DEF Next, MainLoop, Receive, GetLine, Scan, Check, client, vars

LEMMA StreamStep ==
    TypeOK /\ (FirstPass => StreamInv) /\ [Next]_vars => (FirstPass' => StreamInv')
<1> SUFFICES ASSUME TypeOK, FirstPass => StreamInv, [Next]_vars, FirstPass'
             PROVE  StreamInv'
    OBVIOUS
<1>p. FirstPass /\ StreamInv
    BY PassEnds
<1> USE DEF StreamInv, Counts, Contents, ScanInv, NoMark, Identity, Kept
<1>1. CASE \E p \in style.packets : Receive(p)
    BY <1>1, <1>p DEF Receive, history
<1>2. CASE put_byte
    BY <1>2, <1>p, PutKeepsStream
<1>3. CASE GetLine
    <2>1. read_ptr' = read_ptr
        <3>1. read_ptr \in Nat /\ read_ptr + MaxLine < LenBytes
            BY <1>p, Lengths DEF FirstPass
        <3> QED
            BY <1>3, <3>1, NoWrap DEF GetLine
    <2> QED
        BY <1>3, <1>p, <2>1, Lengths DEF GetLine, client
<1>4. CASE Scan
    BY <1>4, <1>p, ScanKeepsStream
<1>5. CASE Check
    BY <1>5, <1>p, CheckKeepsStream
<1>6. CASE UNCHANGED vars
    BY <1>6, <1>p DEF vars, client, history
<1> QED
    BY <1>1, <1>2, <1>3, <1>4, <1>5, <1>6 DEF Next, MainLoop

LEMMA StreamHolds == Spec => [](FirstPass => StreamInv)
<1>1. Init => StreamInv
    BY EmptySeq
    DEF Init, StreamInv, Counts, Contents, ScanInv, NoMark, Identity
<1> QED
    BY <1>1, StreamStep, InsideBuffer, PTL DEF Spec

\* The bytes handed out are the bytes typed, in their order, and the scan
\* only looks at cells that were written, until the buffer comes round, for
\* every client, typing ahead or not, with any packets.
THEOREM BytesInOrder == Spec => []((FirstPass => InOrder) /\ NoJunkRead)
<1>1. TypeOK /\ (FirstPass => StreamInv) => (FirstPass => InOrder) /\ NoJunkRead
    <2> SUFFICES ASSUME TypeOK, FirstPass, StreamInv PROVE InOrder /\ NoJunkRead
        BY DEF NoJunkRead
    <2>1. InOrder
        BY Lengths DEF StreamInv, Counts, Identity, InOrder
    <2>2. ASSUME pc # "idle" PROVE Here # Junk
        <3>1. read_ptr + len \in 0 .. write_ptr - 1 \/ read_ptr + len = write_ptr
            BY <2>2, Lengths DEF StreamInv, ScanInv
        <3>2. CASE read_ptr + len \in 0 .. write_ptr - 1
            <4>1. Here = Kept(typed, read_ptr + len + 1)
                BY <3>2 DEF StreamInv, Contents, Here
            <4> QED
                BY <4>1, Lengths DEF Kept, Stored, MoreMark, Byte, Junk
        <3>3. CASE read_ptr + len = write_ptr
            <4>1. write_ptr > 0
                BY <2>2, Lengths DEF StreamInv, ScanInv
            <4> QED
                BY <3>3, <4>1
                DEF StreamInv, Contents, Here, EndMark, MoreMark, Junk
        <3> QED
            BY <3>1, <3>2, <3>3
    <2> QED
        BY <2>1, <2>2 DEF NoJunkRead
<1> QED
    BY <1>1, StreamHolds, InsideBuffer, PTL
-----------------------------------------------------------------------------
(***************************************************************************)
(* Lines.  A client that sends them one at a time has at most one of them  *)
(* under way, and the main loop looks at it when all of it was put.  The   *)
(* scan stops at its end, or at a Ctrl-A, where nothing is returned.       *)
(***************************************************************************)
OneLine ==
    /\ \A i \in 1 .. Len(packet) : packet[i] = 1 <=> i = Len(packet)
    /\ \A n \in Len(taken) + 1 .. Len(typed) : typed[n] = 1 <=> n = Len(typed) /\ packet = <<>>
    /\ Len(typed) + Len(packet) <= Len(taken) + MaxLine

WholePoll ==
    /\ pc # "idle" => packet = <<>> /\ snapshot = write_ptr
    /\ pc = "check" => read_ptr + len = write_ptr \/ Here = MoreMark

LastLine ==
    ret = "line" => \A i \in cut + 1 .. Len(taken) : i >= 1 /\ (typed[i] = 1 <=> i = Len(taken))

LineInv == LineByLine => OneLine /\ WholePoll /\ LastLine

\* A packet comes when every line was taken: it is the next one.
LEMMA ReceiveKeepsLine ==
    ASSUME TypeOK, StreamInv, LineByLine, OneLine, WholePoll, LastLine,
           NEW p \in style.packets, Receive(p)
    PROVE  OneLine' /\ WholePoll' /\ LastLine'
<1>1. /\ packet = <<>> /\ packet' = p /\ ~CompleteLine /\ FitsLine(Len(p))
      /\ UNCHANGED <<write_ptr, read_ptr, pc, snapshot, len, ret, typed, taken, cut>>
    BY DEF Receive, LineByLine, history
<1>2. p \in Seq({0, 1, 2}) /\ Len(p) \in Nat
    BY StylesAssumption, LenProperties DEF TypeOK
<1>3. Len(taken) = Len(typed) /\ read_ptr = write_ptr
    <2>1. Len(taken) <= Len(typed) /\ read_ptr = Len(taken) /\ write_ptr = Len(typed)
        BY DEF StreamInv, Counts
    <2>2. ASSUME Len(taken) < Len(typed) PROVE FALSE
        <3>1. Len(typed) \in Len(taken) + 1 .. Len(typed)
            BY <2>2, Lengths
        <3>2. typed[Len(typed)] = 1
            BY <1>1, <3>1 DEF OneLine
        <3> QED
            BY <1>1, <3>1, <3>2 DEF CompleteLine
    <2> QED
        BY <2>1, <2>2, Lengths
<1>4. pc = "idle"
    BY <1>3, Lengths DEF StreamInv, ScanInv
<1>5. Len(p) <= MaxLine
    <2>1. PICK n \in 0 .. Len(typed) : Len(typed) - n + Len(p) <= MaxLine
        BY <1>1 DEF FitsLine
    <2> QED
        BY <1>2, <2>1, Lengths
<1>6. OneLine'
    <2>1. \A i \in 1 .. Len(p) : p[i] = 1 <=> i = Len(p)
        BY DEF LineByLine
    <2>2. Len(taken) + 1 .. Len(typed) = {}
        BY <1>3, Lengths
    <2>3. Len(typed) + Len(p) <= Len(taken) + MaxLine
        BY <1>2, <1>3, <1>5, Lengths
    <2> QED
        BY <1>1, <2>1, <2>2, <2>3 DEF OneLine
<1>7. WholePoll' /\ LastLine'
    BY <1>1, <1>4 DEF WholePoll, LastLine
<1> QED
    BY <1>6, <1>7

\* The end of the line is the last byte of the packet.
LEMMA PutKeepsLine ==
    ASSUME TypeOK, StreamInv, OneLine, WholePoll, LastLine, put_byte
    PROVE  OneLine' /\ WholePoll' /\ LastLine'
<1>1. /\ packet # <<>> /\ packet' = Tail(packet) /\ typed' = Append(typed, Head(packet))
      /\ UNCHANGED <<read_ptr, pc, snapshot, len, ret, taken, cut>>
    BY DEF put_byte, history
<1>2. /\ typed \in Seq({0, 1, 2}) /\ packet \in Seq({0, 1, 2}) /\ Len(packet) \in Nat \ {0}
      /\ Len(typed') = Len(typed) + 1 /\ Len(packet') = Len(packet) - 1
      /\ Len(typed) \in Nat /\ Len(taken) \in Nat /\ Len(taken) <= Len(typed)
    BY <1>1, PutSequences, Lengths, EmptySeq DEF TypeOK, StreamInv, Counts
<1>3. \A n \in 1 .. Len(typed) : typed'[n] = typed[n]
    BY <1>1, <1>2, AppendProperties
<1>4. typed'[Len(typed) + 1] = packet[1]
    BY <1>1, <1>2, AppendProperties
<1>5. \A i \in 1 .. Len(packet) - 1 : packet'[i] = packet[i + 1]
    BY <1>1, <1>2, HeadTailProperties
<1>6. packet' = <<>> <=> Len(packet) = 1
    <2>1. packet' \in Seq({0, 1, 2})
        BY PutSequences
    <2>2. packet' = <<>> <=> Len(packet') = 0
        BY <2>1, EmptySeq
    <2> QED
        BY <1>2, <2>2
<1>7. OneLine'
    <2>1. ASSUME NEW i \in 1 .. Len(packet') PROVE packet'[i] = 1 <=> i = Len(packet')
        <3>1. i \in 1 .. Len(packet) - 1 /\ i + 1 \in 1 .. Len(packet)
            BY <1>2
        <3>2. packet'[i] = packet[i + 1]
            BY <1>5, <3>1
        <3>3. packet[i + 1] = 1 <=> i + 1 = Len(packet)
            BY <3>1 DEF OneLine
        <3>4. i + 1 = Len(packet) <=> i = Len(packet')
            BY <1>2, <3>1
        <3> QED
            BY <3>2, <3>3, <3>4
    <2>2. ASSUME NEW n \in Len(taken) + 1 .. Len(typed')
          PROVE  typed'[n] = 1 <=> n = Len(typed') /\ packet' = <<>>
        <3>1. CASE n = Len(typed')
            <4>1. typed'[n] = packet[1] /\ 1 \in 1 .. Len(packet)
                BY <1>2, <1>4, <3>1
            <4>2. packet[1] = 1 <=> Len(packet) = 1
                BY <1>2, <4>1 DEF OneLine
            <4> QED
                BY <1>6, <3>1, <4>1, <4>2
        <3>2. CASE n # Len(typed')
            <4>1. n \in Len(taken) + 1 .. Len(typed) /\ n \in 1 .. Len(typed)
                BY <1>2, <3>2
            <4>2. typed[n] # 1
                BY <1>1, <4>1 DEF OneLine
            <4> QED
                BY <1>3, <3>2, <4>1, <4>2
        <3> QED
            BY <3>1, <3>2
    <2>3. Len(typed') + Len(packet') <= Len(taken) + MaxLine
        <3>1. Len(typed) + Len(packet) <= Len(taken) + MaxLine
            BY DEF OneLine
        <3> QED
            BY <1>2, <3>1, Lengths
    <2> QED
        BY <1>1, <2>1, <2>2, <2>3 DEF OneLine
<1>8. WholePoll'
    BY <1>1 DEF WholePoll
<1>9. LastLine'
    <2>1. \A i \in cut + 1 .. Len(taken) : i >= 1 => i \in 1 .. Len(typed)
        BY <1>2 DEF TypeOK
    <2> QED
        BY <1>1, <1>3, <2>1 DEF LastLine
<1> QED
    BY <1>7, <1>8, <1>9

\* The scan stops at the end of the line, which is where the writer is, or
\* at a Ctrl-A.
LEMMA ScanKeepsLine ==
    ASSUME TypeOK, StreamInv, OneLine, WholePoll, LastLine, Scan
    PROVE  OneLine' /\ WholePoll' /\ LastLine'
<1>1. /\ pc = "scan" /\ packet = <<>> /\ snapshot = write_ptr
      /\ UNCHANGED <<buf, packet, typed, taken, cut, ret, write_ptr, read_ptr, snapshot>>
    BY DEF Scan, client, history, WholePoll
<1>2. OneLine' /\ LastLine'
    BY <1>1 DEF OneLine, LastLine
<1>3. ASSUME pc' = "check" PROVE len' = len /\ (read_ptr + len = write_ptr \/ Here = MoreMark)
    <2>1. /\ len' = len
          /\ read_ptr + len = snapshot \/ Here \in {EndMark, MoreMark} \/ ~(len < MaxLine)
        BY <1>3 DEF Scan
    <2>2. /\ read_ptr + len <= write_ptr /\ read_ptr = Len(taken) /\ write_ptr = Len(typed)
          /\ Len(packet) = 0 /\ Len(typed) <= Len(taken) + MaxLine
        <3>1. Len(packet) = 0
            BY <1>1, EmptySeq
        <3> QED
            BY <1>1, <3>1, Lengths DEF StreamInv, ScanInv, Counts, OneLine
    <2>3. ASSUME read_ptr + len < write_ptr PROVE Here # EndMark /\ len < MaxLine
        <3>1. read_ptr + len \in 0 .. write_ptr - 1
            BY <2>3, Lengths
        <3>2. Here = Kept(typed, read_ptr + len + 1)
            BY <3>1 DEF StreamInv, Contents, Here
        <3> QED
            BY <2>2, <2>3, <3>2, Lengths DEF Kept, Stored, Byte, EndMark, MoreMark
    <2> QED
        BY <1>1, <2>1, <2>2, <2>3, Lengths
<1>4. WholePoll'
    BY <1>1, <1>3 DEF WholePoll, Here
<1> QED
    BY <1>2, <1>4

\* What is returned is all that was typed: up to the end of the line.
LEMMA CheckKeepsLine ==
    ASSUME TypeOK, StreamInv, StreamInv', OneLine, WholePoll, LastLine, Check
    PROVE  OneLine' /\ WholePoll' /\ LastLine'
<1>1. /\ pc = "check" /\ pc' = "idle" /\ packet = <<>>
      /\ UNCHANGED <<packet, typed, write_ptr>>
    BY DEF Check, client, WholePoll
<1>2. WholePoll'
    BY <1>1 DEF WholePoll
<1>3. CASE ret' = "empty"
    BY <1>1, <1>2, <1>3 DEF Check, OneLine, LastLine
<1>4. CASE ret' = "line"
    <2>1. read_ptr' = read_ptr + len /\ cut' = Len(taken) /\ read_ptr + len = write_ptr
        BY <1>1, <1>4 DEF Check, WholePoll
    <2>2. Len(taken') = Len(typed) /\ Len(typed) = write_ptr
        BY <1>1, <2>1 DEF StreamInv, Counts
    <2>3. OneLine'
        <3>1. Len(packet) = 0 /\ Len(taken') + 1 .. Len(typed) = {}
            BY <1>1, <2>2, EmptySeq, Lengths
        <3>2. Len(typed) + Len(packet) <= Len(taken') + MaxLine
            BY <2>2, <3>1, Lengths
        <3> QED
            BY <1>1, <3>1, <3>2 DEF OneLine
    <2>4. LastLine'
        <3>1. \A n \in Len(taken) + 1 .. Len(typed) : n >= 1 /\ (typed[n] = 1 <=> n = Len(typed))
            BY <1>1, Lengths DEF OneLine
        <3> QED
            BY <1>1, <2>1, <2>2, <3>1 DEF LastLine
    <2> QED
        BY <1>2, <2>3, <2>4
<1> QED
    BY <1>3, <1>4 DEF Check

LEMMA LineStep ==
    /\ TypeOK /\ (FirstPass => StreamInv) /\ (FirstPass => LineInv)
    /\ (FirstPass' => StreamInv') /\ [Next]_vars
    => (FirstPass' => LineInv')
<1> SUFFICES ASSUME TypeOK, FirstPass => StreamInv, FirstPass => LineInv,
                    FirstPass' => StreamInv', [Next]_vars, FirstPass', LineByLine'
             PROVE  OneLine' /\ WholePoll' /\ LastLine'
    BY DEF LineInv
<1>1. StreamInv /\ StreamInv' /\ LineInv
    BY PassEnds
<1>2. LineByLine
    <2>1. style' = style
        BY DEF Next, MainLoop, Receive, put_byte, GetLine, Scan, Check, client, vars
    <2> QED
        BY <2>1 DEF LineByLine
<1>3. OneLine /\ WholePoll /\ LastLine
    BY <1>1, <1>2 DEF LineInv
<1>4. CASE \E p \in style.packets : Receive(p)
    BY <1>1, <1>2, <1>3, <1>4, ReceiveKeepsLine
<1>5. CASE put_byte
    BY <1>1, <1>3, <1>5, PutKeepsLine
<1>6. CASE GetLine
    BY <1>3, <1>6 DEF GetLine, client, OneLine, WholePoll, LastLine
<1>7. CASE Scan
    BY <1>1, <1>3, <1>7, ScanKeepsLine
<1>8. CASE Check
    BY <1>1, <1>3, <1>8, CheckKeepsLine
<1>9. CASE UNCHANGED vars
    BY <1>3, <1>9 DEF vars, client, history, OneLine, WholePoll, LastLine, Here
<1> QED
    BY <1>4, <1>5, <1>6, <1>7, <1>8, <1>9 DEF Next, MainLoop

LEMMA LineStart == Init => LineInv
<1> SUFFICES ASSUME Init PROVE LineInv
    OBVIOUS
<1>1. /\ packet = <<>> /\ typed = <<>> /\ taken = <<>> /\ pc = "idle" /\ ret = "none"
      /\ Len(<<>>) = 0 /\ 1 .. 0 = {} /\ 0 + 1 .. 0 = {} /\ 0 + 0 <= 0 + MaxLine
    BY SizeAssumption, EmptySeq DEF Init
<1> QED
    BY <1>1 DEF LineInv, OneLine, WholePoll, LastLine

(* Until the buffer comes round, get_line looks at nothing that was not    *)
(* written, and to a client that sends lines one at a time it returns      *)
(* whole lines: for every size, and packets that hold any lines.           *)
THEOREM LinesWhole == Spec => []ReadSound
<1>1. TypeOK /\ (FirstPass => StreamInv) /\ (FirstPass => LineInv) => WholeLine
    <2> SUFFICES ASSUME TypeOK, StreamInv, LineInv, LineByLine, ret = "line",
                        NEW i \in cut + 1 .. Len(taken)
                 PROVE  taken[i] \in DOMAIN typed /\ (typed[taken[i]] = 1 <=> i = Len(taken))
        BY DEF WholeLine
    <2>1. i >= 1 /\ (typed[i] = 1 <=> i = Len(taken))
        BY DEF LineInv, LastLine
    <2>2. i \in 1 .. Len(taken) /\ i \in 1 .. Len(typed)
        BY <2>1, Lengths DEF StreamInv, Counts, TypeOK
    <2>3. taken[i] = i
        BY <2>2 DEF StreamInv, Identity
    <2>4. DOMAIN typed = 1 .. Len(typed)
        BY LenProperties DEF TypeOK
    <2> QED
        BY <2>1, <2>2, <2>3, <2>4
<1> QED
    BY <1>1, LineStart, StreamHolds, BytesInOrder, LineStep, InsideBuffer, PTL
    DEF Spec, ReadSound

(* And it holds no line of theirs back: it returns 0 to such a client only *)
(* while no line is complete, if no Ctrl-A was typed.                      *)
THEOREM NoneHeldBack == Spec => NothingHeld
<1> DEFINE Poll == (GetLine \/ Check) /\ ret' = "empty"
<1>1. /\ TypeOK /\ (FirstPass => StreamInv) /\ (FirstPass => LineInv)
      => [FirstPass /\ LineByLine /\ Tame /\ Poll => ~CompleteLine]_vars
    <2> SUFFICES ASSUME TypeOK, FirstPass, StreamInv, LineInv, LineByLine, Tame, Poll,
                        CompleteLine
                 PROVE  FALSE
        OBVIOUS
    <2>1. /\ write_ptr = Len(typed) /\ read_ptr = Len(taken) /\ read_ptr < write_ptr
          /\ typed[Len(typed)] = 1
        <3>1. PICK n \in Len(taken) + 1 .. Len(typed) : typed[n] = 1
            BY DEF CompleteLine
        <3>2. n = Len(typed)
            BY <3>1 DEF LineInv, OneLine
        <3> QED
            BY <3>1, <3>2, Lengths DEF StreamInv, Counts
    <2>2. buf[write_ptr] = EndMark
        BY <2>1, Lengths DEF StreamInv, Contents
    <2>3. CASE GetLine
        <3>1. read_ptr' = read_ptr
            <4>1. read_ptr + MaxLine < LenBytes
                BY <2>1, Lengths DEF FirstPass
            <4> QED
                BY <2>3, <4>1, Lengths, NoWrap DEF GetLine
        <3> QED
            BY <2>1, <2>3, <3>1, Lengths DEF GetLine
    <2>4. CASE Check
        <3>1. pc = "check" /\ (Here = MoreMark \/ len = 0)
            BY <2>4 DEF Check
        <3>2. read_ptr + len = write_ptr
            <4> SUFFICES ASSUME read_ptr + len # write_ptr PROVE FALSE
                OBVIOUS
            <4>1. Here = MoreMark
                BY <3>1 DEF LineInv, WholePoll
            <4>2. read_ptr + len \in 0 .. write_ptr - 1
                BY <3>1, Lengths DEF StreamInv, ScanInv
            <4>3. Here = Kept(typed, read_ptr + len + 1)
                BY <4>2 DEF StreamInv, Contents, Here
            <4>4. typed[read_ptr + len + 1] # 2
                BY <2>1, <4>2, Lengths DEF Tame
            <4> QED
                BY <4>1, <4>2, <4>3, <4>4 DEF Kept, Stored, Byte, MoreMark
        <3>3. Here = EndMark /\ len # 0
            BY <2>1, <2>2, <3>2, Lengths DEF Here
        <3> QED
            BY <3>1, <3>3 DEF EndMark, MoreMark
    <2> QED
        BY <2>3, <2>4
<1> QED
    BY <1>1, LineStart, StreamHolds, LineStep, InsideBuffer, PTL DEF Spec, NothingHeld
-----------------------------------------------------------------------------
(***************************************************************************)
(* Order through the wrap.  A client that waits for the answer to a line   *)
(* is never more than a line ahead of the reader, so that a buffer of two  *)
(* lines does not overwrite what was not read: the unread bytes follow     *)
(* each other from read_ptr on, round the wrap at Turn, and a marker in    *)
(* the cell at Turn stops a scan that starts before it.                    *)
(***************************************************************************)
Turn == LenBytes - MaxLine
Unread == Len(typed) - Len(taken)
Cell(j) == IF read_ptr + j < Turn THEN read_ptr + j ELSE read_ptr + j - Turn

Ahead ==
    /\ Len(taken) <= Len(typed) /\ Len(typed) + Len(packet) <= Len(taken) + MaxLine
    /\ read_ptr <= Turn
    /\ read_ptr + Unread = write_ptr \/ read_ptr + Unread = write_ptr + Turn

Waiting ==
    /\ \A j \in 0 .. Unread - 1 : buf[Cell(j)] = Kept(typed, Len(taken) + j + 1)
    /\ read_ptr < Turn /\ read_ptr + Unread >= Turn => buf[Turn] \in {EndMark, MoreMark}

\* The scan goes to the bytes that were there when it began, v of them.
Scanned ==
    pc # "idle" =>
        /\ read_ptr < Turn /\ read_ptr + len <= Turn
        /\ \E v \in 1 .. Unread :
              /\ len <= v
              /\ (snapshot = read_ptr + v /\ read_ptr + v < Turn) \/ snapshot + Turn = read_ptr + v

RingInv == Ahead /\ Waiting /\ Scanned /\ NoMark /\ Identity

LEMMA Numbers ==
    ASSUME TypeOK, LenBytes > 2 * MaxLine
    PROVE  /\ Turn \in Nat /\ MaxLine \in Nat /\ MaxLine < Turn /\ Turn + MaxLine = LenBytes
           /\ Unread \in Int /\ write_ptr \in Nat /\ write_ptr < Turn
BY Lengths, SizeAssumption DEF Turn, Unread, TypeOK

\* The places of unread byte j, of the writer behind u of them, and of a
\* reader that has a turn to go or less.
LEMMA Places ==
    ASSUME NEW t \in Nat, NEW r \in Nat, NEW w \in Nat, NEW u \in Nat, r <= t, w < t, u < t,
           r + u = w \/ r + u = w + t
    PROVE  /\ r + u >= t => r + u = w + t
           /\ r + u < t => r + u = w
           /\ w + 1 = t /\ u + 1 < t => r + u = w
           /\ r = t => w = u
           /\ \A j \in 0 .. u - 1 : r + j # w /\ r + j # w + t
           /\ u + 1 < t => \A j \in 0 .. u - 1 : r + j # w + 1 /\ r + j # w + 1 + t
OBVIOUS

\* All lines whose ends came were returned when the next packet comes.
LEMMA ReceiveKeepsRing ==
    ASSUME TypeOK, LenBytes > 2 * MaxLine, RingInv, style.lockstep,
           NEW p \in style.packets, Receive(p)
    PROVE  RingInv'
<1>1. /\ packet' = p /\ ~CompleteLine /\ FitsLine(Len(p))
      /\ UNCHANGED <<buf, write_ptr, read_ptr, pc, snapshot, len, typed, taken>>
    BY DEF Receive, history
<1>2. p \in Seq({0, 1, 2}) /\ Len(p) \in Nat
    BY StylesAssumption, LenProperties DEF TypeOK
<1>3. PICK n \in 0 .. Len(typed) : /\ n > 0 => typed[n] = 1
                                   /\ Len(typed) - n + Len(p) <= MaxLine
    BY <1>1 DEF FitsLine
<1>4. n <= Len(taken)
    <2> SUFFICES ASSUME ~(n <= Len(taken)) PROVE FALSE
        OBVIOUS
    <2>1. n \in Len(taken) + 1 .. Len(typed) /\ typed[n] = 1
        BY <1>3, Lengths
    <2> QED
        BY <1>1, <2>1 DEF CompleteLine
<1>5. Len(typed) + Len(p) <= Len(taken) + MaxLine
    BY <1>2, <1>3, <1>4, Lengths
<1>6. Unread' = Unread /\ \A j : Cell(j)' = Cell(j)
    BY <1>1 DEF Unread, Cell, Turn
<1>7. Ahead'
    BY <1>1, <1>5, <1>6 DEF RingInv, Ahead, Turn
<1>8. Waiting' /\ Scanned' /\ NoMark' /\ Identity'
    BY <1>1, <1>6 DEF RingInv, Waiting, Scanned, NoMark, Identity, Turn, Kept
<1> QED
    BY <1>7, <1>8 DEF RingInv

\* The byte and its marker go behind the unread bytes.
LEMMA PutKeepsRing ==
    ASSUME TypeOK, LenBytes > 2 * MaxLine, RingInv, put_byte
    PROVE  RingInv'
<1>1. UNCHANGED <<read_ptr, pc, snapshot, len, taken>> /\ write_ptr' = Wrap(write_ptr + 1)
    BY DEF put_byte, history
<1>2. /\ Len(typed') = Len(typed) + 1 /\ Len(packet') = Len(packet) - 1 /\ Len(packet') \in Nat
      /\ Len(taken') = Len(taken)
    BY <1>1, PutSequences
<1>3. PICK u \in Nat : u = Unread /\ u + 1 <= MaxLine /\ Unread' = u + 1
    <2>1. Len(typed) - Len(taken) \in Nat /\ Len(typed) - Len(taken) + 1 <= MaxLine
        BY <1>2, Lengths DEF RingInv, Ahead
    <2>2. Unread' = Len(typed) - Len(taken) + 1
        BY <1>2, Lengths DEF Unread
    <2> QED
        BY <2>1, <2>2 DEF Unread
<1>4. write_ptr' = IF write_ptr + 1 = Turn THEN 0 ELSE write_ptr + 1
    BY <1>1, Lengths, Numbers DEF Wrap
<1>5. read_ptr + u = write_ptr \/ read_ptr + u = write_ptr + Turn
    BY <1>3 DEF RingInv, Ahead
<1>6. /\ read_ptr \in Nat /\ read_ptr <= Turn /\ write_ptr \in Nat /\ write_ptr < Turn
      /\ Turn \in Nat /\ u + 1 < Turn /\ u < Turn /\ Turn < LenBytes /\ LenBytes \in Nat
    <2>1. read_ptr <= Turn
        BY DEF RingInv, Ahead
    <2> QED
        BY <1>3, <2>1, Lengths, Numbers
<1>p. /\ read_ptr + u >= Turn => read_ptr + u = write_ptr + Turn
      /\ read_ptr + u < Turn => read_ptr + u = write_ptr
      /\ write_ptr + 1 = Turn => read_ptr + u = write_ptr
      /\ \A j \in 0 .. u - 1 : /\ read_ptr + j # write_ptr /\ read_ptr + j # write_ptr + Turn
                              /\ read_ptr + j # write_ptr + 1 /\ read_ptr + j # write_ptr + 1 + Turn
    BY ONLY u \in Nat, <1>5, <1>6, Places
<1>7. Ahead'
    <2>1. read_ptr + (u + 1) = write_ptr' \/ read_ptr + (u + 1) = write_ptr' + Turn
        BY ONLY u \in Nat, <1>4, <1>5, <1>6, <1>p
    <2>2. Len(taken) <= Len(typed) + 1 /\ Len(typed) + 1 + Len(packet') <= Len(taken) + MaxLine
        BY <1>2, Lengths DEF RingInv, Ahead
    <2>3. Turn' = Turn
        BY DEF Turn
    <2> QED
        BY <1>1, <1>2, <1>3, <1>6, <2>1, <2>2, <2>3 DEF Ahead
<1>8. Waiting'
    <2>1. ASSUME NEW j \in 0 .. u
          PROVE  buf'[Cell(j)] = Kept(typed', Len(taken) + j + 1)
        <3>1. CASE j = u
            <4>1. Cell(j) = write_ptr
                BY ONLY <3>1, u \in Nat, <1>6, <1>p DEF Cell
            <4>2. Len(taken) + j + 1 = Len(typed) + 1
                BY <1>3, <3>1, Lengths DEF Unread
            <4> QED
                BY <4>1, <4>2, PutCells
        <3>2. CASE j # u
            <4>1. Cell(j) \in Cells \ {write_ptr, write_ptr + 1}
                <5>1. j \in 0 .. u - 1
                    BY <3>2
                <5>2. /\ read_ptr + j # write_ptr /\ read_ptr + j # write_ptr + Turn
                      /\ read_ptr + j # write_ptr + 1 /\ read_ptr + j # write_ptr + 1 + Turn
                    BY <1>p, <5>1
                <5> QED
                    BY ONLY <5>1, <5>2, u \in Nat, <1>6 DEF Cell, Cells
            <4>2. buf'[Cell(j)] = buf[Cell(j)]
                BY <4>1, PutCells
            <4>3. j \in 0 .. Unread - 1
                BY <1>3, <3>2
            <4>4. Len(taken) + j + 1 \in 1 .. Len(typed)
                BY <1>3, <4>3, Lengths DEF Unread
            <4> QED
                BY <4>2, <4>3, <4>4, PutCells DEF RingInv, Waiting
        <3> QED
            BY <3>1, <3>2
    <2>2. ASSUME read_ptr < Turn, read_ptr + (u + 1) >= Turn
          PROVE  buf'[Turn] \in {EndMark, MoreMark}
        <3>1. CASE write_ptr + 1 = Turn
            BY <3>1, PutCells
        <3>2. CASE write_ptr + 1 # Turn
            <4>1. read_ptr + u >= Turn
                BY ONLY u \in Nat, <1>4, <1>5, <1>6, <1>p, <2>2, <3>2
            <4>2. Turn \in Cells \ {write_ptr, write_ptr + 1}
                BY <3>2, Lengths, Numbers, SizeAssumption DEF Cells
            <4>3. buf'[Turn] = buf[Turn]
                BY <4>2, PutCells
            <4>4. buf[Turn] \in {EndMark, MoreMark}
                BY <1>3, <2>2, <4>1 DEF RingInv, Waiting
            <4> QED
                BY <4>3, <4>4
        <3> QED
            BY <3>1, <3>2
    <2>3. Turn' = Turn /\ \A j : Cell(j)' = Cell(j)
        BY <1>1 DEF Cell, Turn
    <2>4. 0 .. Unread' - 1 = 0 .. u
        BY <1>3
    <2> QED
        BY <1>1, <1>2, <1>3, <2>1, <2>2, <2>3, <2>4 DEF Waiting
<1>9. Scanned'
    <2>1. Turn' = Turn
        BY DEF Turn
    <2>2. \A v \in 1 .. Unread : v \in 1 .. Unread'
        BY <1>3
    <2> QED
        BY <1>1, <2>1, <2>2 DEF RingInv, Scanned
<1>10. Identity'
    BY <1>1 DEF RingInv, Identity
<1>11. NoMark'
    <2>1. ASSUME pc # "idle", NEW j \in 1 .. len PROVE typed'[Len(taken) + j] # 2
        <3>1. PICK v \in 1 .. Unread : len <= v
            BY <2>1 DEF RingInv, Scanned
        <3>2. Len(taken) + j \in 1 .. Len(typed)
            BY <1>3, <3>1, Lengths DEF Unread
        <3> QED
            BY <2>1, <3>2, PutSequences DEF RingInv, NoMark
    <2> QED
        BY <1>1, <2>1 DEF NoMark
<1> QED
    BY <1>7, <1>8, <1>9, <1>10, <1>11 DEF RingInv

\* get_line wraps read_ptr as put_byte wrapped write_ptr.
LEMMA GetKeepsRing ==
    ASSUME TypeOK, LenBytes > 2 * MaxLine, RingInv, GetLine
    PROVE  RingInv'
<1>1. /\ UNCHANGED <<buf, write_ptr, packet, typed, taken>>
      /\ snapshot' = write_ptr /\ read_ptr' = Wrap(read_ptr) /\ len' = 0
      /\ pc' # "idle" => read_ptr' # write_ptr
    BY DEF GetLine, client
<1>2. Unread' = Unread /\ Turn' = Turn
    BY <1>1 DEF Unread, Turn
<1>3. PICK u \in Nat : u = Unread /\ u <= MaxLine
    BY Lengths, Numbers DEF RingInv, Ahead, Unread
<1>4. read_ptr' = IF read_ptr = Turn THEN 0 ELSE read_ptr
    BY <1>1, Lengths, Numbers DEF Wrap, RingInv, Ahead
<1>5. /\ read_ptr \in Nat /\ read_ptr <= Turn
      /\ read_ptr + u = write_ptr \/ read_ptr + u = write_ptr + Turn
    BY <1>3, Lengths DEF RingInv, Ahead
<1>6. /\ read_ptr' \in Nat /\ read_ptr' < Turn
      /\ read_ptr' + u = write_ptr \/ read_ptr' + u = write_ptr + Turn
    BY <1>3, <1>4, <1>5, Lengths, Numbers
<1>7. Ahead'
    <2>1. /\ Len(taken') <= Len(typed') /\ Len(typed') + Len(packet') <= Len(taken') + MaxLine
        BY <1>1 DEF RingInv, Ahead
    <2>2. Unread' = u /\ write_ptr' = write_ptr /\ read_ptr' <= Turn
        BY <1>1, <1>2, <1>3, <1>6, Numbers
    <2> QED
        BY <1>2, <1>6, <2>1, <2>2 DEF Ahead
<1>8. Waiting'
    <2>1. \A j \in 0 .. Unread - 1 : Cell(j)' = Cell(j)
        BY <1>2, <1>3, <1>4, <1>5, Lengths, Numbers DEF Cell
    <2>2. read_ptr' < Turn /\ read_ptr' + Unread >= Turn => read_ptr < Turn /\ read_ptr + Unread >= Turn
        BY <1>3, <1>4, <1>5, Lengths, Numbers
    <2> QED
        BY <1>1, <1>2, <2>1, <2>2 DEF RingInv, Waiting, Kept
<1>9. Scanned'
    <2> SUFFICES ASSUME read_ptr' # write_ptr
                 PROVE  /\ read_ptr' < Turn /\ read_ptr' + 0 <= Turn
                        /\ \E v \in 1 .. Unread :
                              /\ 0 <= v
                              /\ \/ write_ptr = read_ptr' + v /\ read_ptr' + v < Turn
                                 \/ write_ptr + Turn = read_ptr' + v
        BY <1>1, <1>2 DEF Scanned
    <2>1. u \in 1 .. Unread
        BY <1>3, <1>6, Lengths, Numbers
    <2> QED
        BY <1>3, <1>6, <2>1, Lengths, Numbers
<1>10. Identity' /\ NoMark'
    BY <1>1 DEF RingInv, Identity, NoMark
<1> QED
    BY <1>7, <1>8, <1>9, <1>10 DEF RingInv

\* The scan stops at the snapshot, or at the marker in front of the wrap.
LEMMA ScanKeepsRing ==
    ASSUME TypeOK, LenBytes > 2 * MaxLine, RingInv, Scan
    PROVE  RingInv'
<1>1. UNCHANGED <<buf, write_ptr, read_ptr, snapshot, packet, typed, taken>> /\ pc = "scan"
    BY DEF Scan, client, history
<1>2. Unread' = Unread /\ Turn' = Turn /\ \A j : Cell(j)' = Cell(j)
    BY <1>1 DEF Unread, Turn, Cell
<1>3. PICK v \in 1 .. Unread :
          /\ len <= v
          /\ (snapshot = read_ptr + v /\ read_ptr + v < Turn) \/ snapshot + Turn = read_ptr + v
    BY <1>1 DEF RingInv, Scanned
<1>4. read_ptr < Turn /\ read_ptr + len <= Turn
    BY <1>1 DEF RingInv, Scanned
<1>5. \/ len' = len
      \/ len' = len + 1 /\ read_ptr + len # snapshot /\ buf[read_ptr + len] \notin {EndMark, MoreMark}
    BY DEF Scan, Here
<1>6. len' <= v /\ read_ptr + len' <= Turn
    <2>1. CASE len' = len
        BY <1>3, <1>4, <2>1
    <2>2. CASE len' = len + 1 /\ read_ptr + len # snapshot /\ buf[read_ptr + len] \notin {EndMark, MoreMark}
        <3>0. /\ v \in Nat /\ len \in Nat /\ read_ptr \in Nat /\ snapshot \in Nat /\ Turn \in Nat
              /\ len <= v /\ read_ptr + len <= Turn /\ len' = len + 1
            BY <1>3, <1>4, <2>2, Lengths, Numbers
        <3>1. CASE snapshot = read_ptr + v /\ read_ptr + v < Turn
            <4>1. len # v
                BY <2>2, <3>1
            <4> QED
                BY ONLY <3>0, <3>1, <4>1
        <3>2. CASE snapshot + Turn = read_ptr + v
            <4>1. read_ptr + Unread >= Turn
                BY <1>3, <3>2, Lengths, Numbers
            <4>2. buf[Turn] \in {EndMark, MoreMark}
                BY <1>4, <4>1 DEF RingInv, Waiting
            <4>3. read_ptr + len # Turn
                BY <2>2, <4>2
            <4> QED
                BY ONLY <3>0, <3>2, <4>3
        <3> QED
            BY <1>3, <3>1, <3>2
    <2> QED
        BY <1>5, <2>1, <2>2
<1>7. Scanned'
    BY <1>1, <1>2, <1>3, <1>4, <1>6 DEF Scanned
<1>8. Ahead' /\ Waiting' /\ Identity'
    BY <1>1, <1>2 DEF RingInv, Ahead, Waiting, Identity, Kept
<1>9. NoMark'
    <2>1. \A j \in 1 .. len : typed[Len(taken) + j] # 2
        BY <1>1 DEF RingInv, NoMark
    <2>2. CASE len' = len
        BY <1>1, <2>1, <2>2 DEF NoMark
    <2>3. CASE len' = len + 1 /\ buf[read_ptr + len] \notin {EndMark, MoreMark}
        <3>1. len \in 0 .. Unread - 1 /\ read_ptr + len < Turn
            <4>1. /\ v \in Nat /\ Unread \in Int /\ v <= Unread /\ len + 1 <= v
                  /\ len \in Nat /\ read_ptr \in Nat /\ Turn \in Nat
                BY <1>3, <1>6, <2>3, Lengths, Numbers
            <4>2. read_ptr + (len + 1) <= Turn
                BY <1>6, <2>3
            <4> QED
                BY ONLY <4>1, <4>2
        <3>2. buf[read_ptr + len] = Kept(typed, Len(taken) + len + 1)
            BY <3>1 DEF RingInv, Waiting, Cell
        <3>3. typed[Len(taken) + len + 1] # 2
            BY <2>3, <3>2 DEF Kept, Stored
        <3>4. \A j \in 1 .. len + 1 : j \in 1 .. len \/ Len(taken) + j = Len(taken) + len + 1
            <4>1. len \in Nat /\ Len(taken) \in Nat
                BY Lengths
            <4>2. \A j \in 1 .. len + 1 : j \in 1 .. len \/ j = len + 1
                BY <4>1
            <4> QED
                BY <4>1, <4>2
        <3>5. \A j \in 1 .. len + 1 : typed[Len(taken) + j] # 2
            BY <2>1, <3>3, <3>4
        <3> QED
            BY <1>1, <2>3, <3>5 DEF NoMark
    <2> QED
        BY <1>5, <2>2, <2>3
<1> QED
    BY <1>7, <1>8, <1>9 DEF RingInv

\* What is returned are the oldest unread bytes.
LEMMA CheckKeepsRing ==
    ASSUME TypeOK, LenBytes > 2 * MaxLine, RingInv, Check
    PROVE  RingInv'
<1>1. UNCHANGED <<buf, write_ptr, packet, typed>> /\ pc = "check" /\ pc' = "idle" /\ Turn' = Turn
    BY DEF Check, client, Turn
<1>2. Scanned' /\ NoMark'
    BY <1>1 DEF Scanned, NoMark
<1>3. CASE UNCHANGED <<read_ptr, taken>>
    <2>1. Unread' = Unread /\ \A j : Cell(j)' = Cell(j)
        BY <1>1, <1>3 DEF Unread, Cell
    <2> QED
        BY <1>1, <1>2, <1>3, <2>1 DEF RingInv, Ahead, Waiting, Identity, Kept
<1>4. CASE read_ptr' = read_ptr + len /\ taken' = taken \o Line
    <2>1. PICK v \in 1 .. Unread : len <= v
        BY <1>1 DEF RingInv, Scanned
    <2>2. /\ read_ptr \in Nat /\ len \in Nat /\ len <= Unread /\ read_ptr + len <= Turn
          /\ read_ptr < Turn
        BY <1>1, <2>1, Lengths, Numbers DEF RingInv, Scanned
    <2>3. Line \in Seq(Int) /\ Len(Line) = len
        BY <1>1, LineType
    <2>4. /\ Len(taken') = Len(taken) + len
          /\ \A i \in 1 .. Len(taken) + len :
                taken'[i] = IF i <= Len(taken) THEN taken[i] ELSE Line[i - Len(taken)]
        BY <1>4, <2>2, <2>3, ConcatProperties DEF TypeOK
    <2>5. Unread' = Unread - len
        BY <1>1, <2>4, <2>2, Lengths DEF Unread
    <2>6. \A i \in 1 .. len : Line[i] = Len(taken) + i
        <3> TAKE i \in 1 .. len
        <3>1. i - 1 \in 0 .. Unread - 1 /\ Cell(i - 1) = read_ptr + i - 1
            BY <2>2, Numbers DEF Cell
        <3>2. buf[read_ptr + i - 1] = Kept(typed, Len(taken) + (i - 1) + 1)
            BY <3>1 DEF RingInv, Waiting
        <3>3. typed[Len(taken) + i] # 2 /\ Len(taken) + (i - 1) + 1 = Len(taken) + i
            BY <1>1, Lengths DEF RingInv, NoMark
        <3> QED
            BY <3>2, <3>3, Lengths DEF Line, Byte, Kept, Stored
    <2>7. Identity'
        <3> SUFFICES ASSUME NEW i \in 1 .. Len(taken') PROVE taken'[i] = i
            BY DEF Identity
        <3>1. CASE i <= Len(taken)
            <4>1. i \in 1 .. Len(taken) /\ taken'[i] = taken[i]
                BY <2>2, <2>4, <3>1, Lengths
            <4> QED
                BY <4>1 DEF RingInv, Identity
        <3>2. CASE ~(i <= Len(taken))
            <4>1. i - Len(taken) \in 1 .. len /\ taken'[i] = Line[i - Len(taken)]
                BY <2>2, <2>4, <3>2, Lengths
            <4> QED
                BY <2>6, <4>1, Lengths
        <3> QED
            BY <3>1, <3>2
    <2>8. Ahead'
        <3>1. /\ Len(taken) + len <= Len(typed)
              /\ Len(typed) + Len(packet) <= Len(taken) + len + MaxLine
            BY <2>2, Lengths DEF RingInv, Ahead, Unread
        <3>2. (read_ptr + len) + (Unread - len) = read_ptr + Unread
            BY <2>2, Numbers
        <3>3. read_ptr + Unread = write_ptr \/ read_ptr + Unread = write_ptr + Turn
            BY DEF RingInv, Ahead
        <3> QED
            BY <1>1, <1>4, <2>2, <2>4, <2>5, <3>1, <3>2, <3>3 DEF Ahead
    <2>9. Waiting'
        <3>1. ASSUME NEW j \in 0 .. Unread' - 1
              PROVE  buf'[Cell(j)'] = Kept(typed', Len(taken') + j + 1)
            <4>1. j + len \in 0 .. Unread - 1 /\ Cell(j)' = Cell(j + len)
                <5>1. /\ j \in Nat /\ Unread' \in Int /\ j < Unread' /\ Unread \in Int /\ Turn \in Nat
                      /\ read_ptr \in Nat /\ len \in Nat /\ Unread' = Unread - len
                    BY <2>2, <2>5, Numbers
                <5>2. j + len \in 0 .. Unread - 1 /\ (read_ptr + len) + j = read_ptr + (j + len)
                    BY ONLY <5>1
                <5> QED
                    BY ONLY <1>1, <1>4, <5>1, <5>2 DEF Cell
            <4>2. buf[Cell(j + len)] = Kept(typed, Len(taken) + (j + len) + 1)
                BY <4>1 DEF RingInv, Waiting
            <4>3. Len(taken) + (j + len) + 1 = Len(taken') + j + 1
                BY <2>2, <2>4, Lengths
            <4> QED
                BY <1>1, <4>1, <4>2, <4>3 DEF Kept
        <3>2. ASSUME read_ptr' < Turn', read_ptr' + Unread' >= Turn'
              PROVE  buf'[Turn'] \in {EndMark, MoreMark}
            <4>1. read_ptr + Unread >= Turn
                BY <1>1, <1>4, <2>2, <2>5, <3>2, Numbers
            <4> QED
                BY <1>1, <2>2, <4>1 DEF RingInv, Waiting
        <3> QED
            BY <3>1, <3>2 DEF Waiting
    <2> QED
        BY <1>2, <2>7, <2>8, <2>9 DEF RingInv
<1> QED
    BY <1>3, <1>4 DEF Check

LEMMA RingStep ==
    LenBytes > 2 * MaxLine =>
        (TypeOK /\ (style.lockstep => RingInv) /\ [Next]_vars => (style.lockstep => RingInv)')
<1> SUFFICES ASSUME LenBytes > 2 * MaxLine, TypeOK, style.lockstep => RingInv, [Next]_vars,
                    style'.lockstep
             PROVE  RingInv'
    OBVIOUS
<1>1. style' = style
    BY DEF Next, MainLoop, Receive, put_byte, GetLine, Scan, Check, client, vars
<1>2. RingInv /\ style.lockstep
    BY <1>1
<1>3. CASE \E p \in style.packets : Receive(p)
    BY <1>2, <1>3, ReceiveKeepsRing
<1>4. CASE put_byte
    BY <1>2, <1>4, PutKeepsRing
<1>5. CASE GetLine
    BY <1>2, <1>5, GetKeepsRing
<1>6. CASE Scan
    BY <1>2, <1>6, ScanKeepsRing
<1>7. CASE Check
    BY <1>2, <1>7, CheckKeepsRing
<1>8. CASE UNCHANGED vars
    <2>1. UNCHANGED <<buf, write_ptr, read_ptr, pc, snapshot, len, packet, typed, taken>>
        BY <1>8 DEF vars, client, history
    <2> QED
        BY <1>2, <2>1
        DEF RingInv, Ahead, Waiting, Scanned, NoMark, Identity, Unread, Cell, Turn, Kept
<1> QED
    BY <1>3, <1>4, <1>5, <1>6, <1>7, <1>8 DEF Next, MainLoop

(* The bytes get_line returns are the bytes typed, in their order: until   *)
(* the buffer comes round for every client, and for ever for one that      *)
(* waits for the answer to a line, in a buffer of more than two lines.     *)
THEOREM OrderThroughWrap == LenBytes > 2 * MaxLine => (Spec => []InOrder)
<1> SUFFICES ASSUME LenBytes > 2 * MaxLine PROVE Spec => []InOrder
    OBVIOUS
<1>1. Init => RingInv
    <2> SUFFICES ASSUME Init PROVE RingInv
        OBVIOUS
    <2>1. /\ packet = <<>> /\ typed = <<>> /\ taken = <<>> /\ pc = "idle" /\ read_ptr = 0 /\ write_ptr = 0
          /\ Len(<<>>) = 0 /\ Turn \in Nat /\ 0 < Turn
        BY SizeAssumption, EmptySeq DEF Init, Turn
    <2>2. Unread = 0 /\ 0 .. Unread - 1 = {} /\ 1 .. 0 = {}
        BY <2>1 DEF Unread
    <2> QED
        BY <2>1, <2>2, SizeAssumption DEF RingInv, Ahead, Waiting, Scanned, NoMark, Identity
<1>2. TypeOK /\ (style.lockstep => RingInv) /\ (FirstPass => InOrder) => InOrder
    BY Lengths DEF InOrder, RingInv, Ahead, Identity
<1>3. TypeOK /\ (style.lockstep => RingInv) /\ [Next]_vars => (style.lockstep => RingInv)'
    BY RingStep
<1> QED
    BY <1>1, <1>2, <1>3, BytesInOrder, InsideBuffer, PTL DEF Spec
=============================================================================
