---------------------------- MODULE TcpRingProofs ----------------------------
(***************************************************************************)
(* Proofs about TcpRing, for every size of the ring, every modulus of the  *)
(* sequence numbers and streams of any length: sequence numbers follow the *)
(* stream; with a client whose acks advance, nothing is marked that did    *)
(* not arrive, and in the first lap nothing that did is left unmarked; and *)
(* whatever the client, the ring implements ByteStream but for three kinds *)
(* of steps that lose bytes.                                               *)
(***************************************************************************)
EXTENDS TcpRing, TLAPS

\* No ack arrives twice, and none of an earlier connection lies just ahead of
\* the stream.
AcksAdvance == ~Repeats /\ \A s \in Strays : s \notin InitSeq + 1 .. InitSeq + Window

\* The stream does not come round to a sequence number it has used.
ShortStream == MaxBytes <= SeqMod

(***************************************************************************)
(* The numbers of slots and of the next byte are those of their positions; *)
(* positions that were not written are nowhere.                            *)
(***************************************************************************)
Numbered ==
    /\ state = "LISTENING" => written = 0 /\ tx_seq = InitSeq
    /\ state = "PENDING" => written = 1 /\ tx_seq = InitSeq
    /\ state = "OPEN" => tx_seq = SeqOf(written)
    /\ state # "OPEN" => heard = 0
    /\ written <= heard + Window /\ heard <= written

Filled(slot, end) ==
    slot.payload_valid =>
        slot.ending_seq = SeqOf(slot.to) /\ slot.from < slot.to /\ slot.to <= end

Written ==
    /\ \A i \in Index : Filled(slots[i], written)
    /\ \A s \in wire : s.to <= written
    /\ got \subseteq 0 .. written - 1
    /\ \A a \in offered : a >= 1 /\ 0 .. a - 1 \subseteq got
    /\ 0 .. heard - 1 \subseteq got

IInv == TypeOK /\ Numbered /\ Written

\* Where rx_ack is, as seen from the stream.
Acked ==
    IF heard > 0 THEN rx_ack = SeqOf(heard) ELSE rx_ack \notin InitSeq + 1 .. InitSeq + Window
-----------------------------------------------------------------------------
(* Numbers modulo SeqMod.                                                  *)

LEMMA Divided ==
    ASSUME NEW m \in Nat \ {0}, NEW n \in Nat
    PROVE  n % m \in 0 .. m - 1 /\ n \div m \in Nat /\ n = m * (n \div m) + (n % m)
<1>1. n % m \in 0 .. m - 1 /\ n \div m \in Nat
    BY SMT
<1>2. n = m * (n \div m) + (n % m)
    BY SMTT(30)
<1> QED
    BY <1>1, <1>2

LEMMA OneRemainder ==
    ASSUME NEW m \in Nat \ {0}, NEW q \in Nat, NEW r \in 0 .. m - 1
    PROVE  (m * q + r) % m = r
BY SMT

LEMMA Small == ASSUME NEW m \in Nat \ {0}, NEW n \in 0 .. m - 1 PROVE n % m = n
BY SMT

\* Less than a round further on.
LEMMA Further ==
    ASSUME NEW m \in Nat \ {0}, NEW n \in Nat, NEW d \in 0 .. m - 1
    PROVE  (n + d) % m = IF (n % m) + d < m THEN (n % m) + d ELSE (n % m) + d - m
<1> DEFINE q == n \div m
           r == n % m
<1>1. q \in Nat /\ r \in 0 .. m - 1 /\ n = m * q + r
    BY Divided
<1> HIDE DEF q, r
<1>2. CASE r + d < m
    <2>1. n + d = m * q + (r + d) /\ r + d \in 0 .. m - 1
        BY <1>1, <1>2, SMT
    <2>2. (n + d) % m = r + d
        BY <1>1, <2>1, OneRemainder
    <2> QED
        BY <1>2, <2>2 DEF r
<1>3. CASE ~(r + d < m)
    <2>1. n + d = m * (q + 1) + (r + d - m) /\ q + 1 \in Nat /\ r + d - m \in 0 .. m - 1
        BY <1>1, <1>3, SMT
    <2>2. (n + d) % m = r + d - m
        BY <2>1, OneRemainder
    <2> QED
        BY <1>3, <2>2 DEF r
<1> QED
    BY <1>2, <1>3

LEMMA SeqIs ==
    ASSUME NEW p \in Nat
    PROVE  SeqOf(p) \in 0 .. SeqMod - 1
BY SeqAssumption, Divided DEF SeqOf

\* d bytes on, the number is d higher, or has wrapped once.
LEMMA SeqFurther ==
    ASSUME NEW p \in Nat, NEW d \in 0 .. SeqMod - 1
    PROVE  /\ SeqOf(p + d) = IF SeqOf(p) + d < SeqMod THEN SeqOf(p) + d ELSE SeqOf(p) + d - SeqMod
           /\ (SeqOf(p) + d) % SeqMod = SeqOf(p + d)
<1>1. SeqMod \in Nat \ {0} /\ InitSeq + p \in Nat /\ InitSeq + (p + d) = (InitSeq + p) + d
    BY SeqAssumption
<1>2. SeqOf(p + d) = IF SeqOf(p) + d < SeqMod THEN SeqOf(p) + d ELSE SeqOf(p) + d - SeqMod
    BY <1>1, Further DEF SeqOf
<1>3. SeqOf(p) \in 0 .. SeqMod - 1
    BY SeqIs
<1>4. SeqOf(p) % SeqMod = SeqOf(p)
    BY <1>1, <1>3, Small
<1>5. SeqOf(p) \in Nat
    BY <1>1, <1>3
<1>6. (SeqOf(p) + d) % SeqMod =
          IF (SeqOf(p) % SeqMod) + d < SeqMod THEN (SeqOf(p) % SeqMod) + d
                                            ELSE (SeqOf(p) % SeqMod) + d - SeqMod
    BY <1>1, <1>5, Further
<1> QED
    BY <1>2, <1>4, <1>6

\* Before the first wrap.
LEMMA SeqFirst == \A p \in 0 .. Window : SeqOf(p) = InitSeq + p
BY SeqAssumption, Small DEF SeqOf

\* In a short stream no two positions share a number.
LEMMA SeqDistinct ==
    ASSUME ShortStream, NEW p \in 1 .. MaxBytes, NEW q \in 1 .. MaxBytes, SeqOf(p) = SeqOf(q)
    PROVE  p = q
<1>1. ASSUME NEW a \in 1 .. MaxBytes, NEW b \in 1 .. MaxBytes, a < b PROVE SeqOf(a) # SeqOf(b)
    <2>1. b - a \in 1 .. SeqMod - 1 /\ a \in Nat /\ b = a + (b - a)
        BY <1>1, SeqAssumption, BoundAssumption DEF ShortStream
    <2>2. SeqOf(b) = IF SeqOf(a) + (b - a) < SeqMod THEN SeqOf(a) + (b - a)
                                                    ELSE SeqOf(a) + (b - a) - SeqMod
        BY <2>1, SeqFurther
    <2>3. SeqOf(a) \in 0 .. SeqMod - 1
        BY <2>1, SeqIs
    <2> QED
        BY <2>1, <2>2, <2>3, SeqAssumption
<1>2. ~(p < q) /\ ~(q < p)
    BY <1>1
<1> QED
    BY <1>2, BoundAssumption
-----------------------------------------------------------------------------
(* The ring as a value.                                                    *)

Rings == [slots : [Index -> Slots], cur : Index, seq : 0 .. SeqMod - 1, written : 0 .. MaxBytes]

\* A slot that was just filled.
New(from, n) ==
    [payload_valid |-> n > 0, ack_received |-> FALSE, ending_seq |-> SeqOf(from + n),
     from |-> from, to |-> from + n]

\* A ring whose slots are segments of what was written.
Sound(ring) == ring \in Rings /\ \A i \in Index : Filled(ring.slots[i], ring.written)

\* One more slot filled, with n bytes.
Extended(ring, n, next) ==
    /\ Sound(next)
    /\ next.slots = [i \in Index |-> IF i = ring.cur THEN New(ring.written, n) ELSE ring.slots[i]]
    /\ next.cur = (ring.cur + 1) % NBuf
    /\ next.written = ring.written + n

\* The ring when an ack has been looked at.
After(ack) == [Ring EXCEPT !.slots = tcp_ack(ack)]

LEMMA NewHolds ==
    ASSUME NEW from, NEW n
    PROVE  /\ New(from, n).payload_valid <=> n > 0
           /\ ~New(from, n).ack_received
           /\ New(from, n).from = from /\ New(from, n).to = from + n
BY DEF New

LEMMA NextSlot == ASSUME NEW i \in Index PROVE (i + 1) % NBuf \in Index
<1>1. NBuf \in Nat \ {0} /\ i + 1 \in Nat
    BY RingAssumption DEF Index
<1> QED
    BY <1>1, Divided DEF Index

\* tcp_open and tcp_reply fill one slot with what follows in the stream.
LEMMA FillIs ==
    ASSUME NEW ring, Sound(ring), NEW n \in Nat, n < SeqMod, ring.written + n <= MaxBytes,
           ring.seq = SeqOf(ring.written), NEW seq \in 0 .. SeqMod - 1
    PROVE  Extended(ring, n, Fill(ring, n, seq)) /\ Fill(ring, n, seq).seq = seq
<1> DEFINE next == Fill(ring, n, seq)
           f == [i \in Index |-> IF i = ring.cur THEN New(ring.written, n) ELSE ring.slots[i]]
<1>1. /\ ring.slots \in [Index -> Slots] /\ ring.cur \in Index
      /\ ring.written \in 0 .. MaxBytes /\ ring.written + n \in 0 .. MaxBytes
    BY BoundAssumption DEF Rings, Sound
<1>2. ring.written \in Nat /\ ring.written + n \in Nat /\ n \in 0 .. SeqMod - 1
    BY <1>1, SeqAssumption, BoundAssumption
<1>3. (ring.seq + n) % SeqMod = SeqOf(ring.written + n)
    BY <1>2, SeqFurther
<1>4. SeqOf(ring.written + n) \in 0 .. SeqMod - 1
    BY <1>2, SeqIs
<1>5. New(ring.written, n) \in Slots
    BY <1>1, <1>4 DEF New, Slots
<1>6. (ring.cur + 1) % NBuf \in Index
    BY <1>1, NextSlot
<1>7. [ring.slots EXCEPT ![ring.cur] = New(ring.written, n)] = f
    BY <1>1
<1>8. next = [slots |-> f, cur |-> (ring.cur + 1) % NBuf, seq |-> seq,
              written |-> ring.written + n]
    BY <1>3, <1>7 DEF Fill, New
<1>9. f \in [Index -> Slots]
    BY <1>1, <1>5
<1> HIDE DEF f, next
<1>10. next \in Rings
    BY <1>1, <1>6, <1>8, <1>9 DEF Rings
<1>11. ASSUME NEW i \in Index PROVE Filled(next.slots[i], next.written)
    <2>1. next.slots[i] = f[i] /\ next.written = ring.written + n
        BY <1>8
    <2>2. CASE i = ring.cur
        <3>1. f[i] = New(ring.written, n)
            BY <2>2 DEF f
        <3>2. /\ f[i].ending_seq = SeqOf(f[i].to) /\ f[i].from = ring.written
              /\ f[i].to = ring.written + n
            BY <3>1 DEF New
        <3>5. f[i].payload_valid => n > 0
            BY <3>1, NewHolds
        <3>3. f[i].payload_valid => f[i].from < f[i].to
            BY <1>2, <3>2, <3>5
        <3>4. f[i].to <= next.written
            BY <1>2, <2>1, <3>2
        <3> QED
            BY <2>1, <3>2, <3>3, <3>4 DEF Filled
    <2>3. CASE i # ring.cur
        <3>1. f[i] = ring.slots[i] /\ Filled(ring.slots[i], ring.written) /\ ring.slots[i] \in Slots
            BY <1>1, <2>3 DEF f, Sound
        <3> QED
            BY <1>2, <2>1, <3>1 DEF Filled, Slots
    <2> QED
        BY <2>2, <2>3
<1> QED
    BY <1>8, <1>10, <1>11 DEF Sound, Extended, next, f

\* tcp_reply keeps the number of the next byte in step with the stream.
LEMMA ReplyIs ==
    ASSUME NEW ring, Sound(ring), NEW n \in Nat, n < SeqMod, ring.written + n <= MaxBytes,
           ring.seq = SeqOf(ring.written)
    PROVE  /\ Extended(ring, n, tcp_reply(ring, n))
           /\ tcp_reply(ring, n).seq = SeqOf(tcp_reply(ring, n).written)
<1>1. ring.written \in Nat /\ ring.written + n \in Nat /\ n \in 0 .. SeqMod - 1
    BY SeqAssumption, BoundAssumption DEF Sound, Rings
<1>2. (ring.seq + n) % SeqMod = SeqOf(ring.written + n)
    BY <1>1, SeqFurther
<1>3. SeqOf(ring.written) \in 0 .. SeqMod - 1 /\ SeqOf(ring.written + n) \in 0 .. SeqMod - 1
    BY <1>1, SeqIs
<1> QED
    BY <1>2, <1>3, FillIs DEF tcp_reply, Extended

\* tcp_open counts the SYN, but leaves the number where it was.
LEMMA OpenIs ==
    ASSUME NEW ring, Sound(ring), 1 < SeqMod, ring.written + 1 <= MaxBytes,
           ring.seq = SeqOf(ring.written)
    PROVE  Extended(ring, 1, tcp_open(ring)) /\ tcp_open(ring).seq = ring.seq
<1>1. ring.seq \in 0 .. SeqMod - 1
    BY DEF Sound, Rings
<1>2. ASSUME NEW n \in Nat, n = 1, NEW seq \in 0 .. SeqMod - 1, seq = ring.seq
      PROVE  Extended(ring, n, Fill(ring, n, seq)) /\ Fill(ring, n, seq).seq = seq
    <2>1. n < SeqMod /\ ring.written + n <= MaxBytes
        BY <1>2
    <2> QED
        BY <2>1, FillIs
<1> QED
    BY <1>1, <1>2 DEF tcp_open

LEMMA ReplyNothing ==
    ASSUME NEW ring, Sound(ring), 0 < SeqMod, ring.seq = SeqOf(ring.written)
    PROVE  /\ Extended(ring, 0, tcp_reply(ring, 0))
           /\ tcp_reply(ring, 0).seq = SeqOf(tcp_reply(ring, 0).written)
           /\ tcp_reply(ring, 0).written = ring.written
<1>1. ring.written \in 0 .. MaxBytes
    BY DEF Sound, Rings
<1>2. ASSUME NEW n \in Nat, n = 0
      PROVE  /\ Extended(ring, n, tcp_reply(ring, n))
             /\ tcp_reply(ring, n).seq = SeqOf(tcp_reply(ring, n).written)
             /\ tcp_reply(ring, n).written = ring.written
    <2>1. n < SeqMod /\ ring.written + n <= MaxBytes /\ ring.written + n = ring.written
        BY <1>1, <1>2, BoundAssumption
    <2> QED
        BY <2>1, ReplyIs DEF Extended
<1> QED
    BY <1>2

\* tcp_ack marks slots that are covered, and changes nothing else.
LEMMA AckMarks ==
    ASSUME TypeOK, NEW ack
    PROVE  /\ tcp_ack(ack) \in [Index -> Slots]
           /\ \A i \in Index :
                 /\ tcp_ack(ack)[i].payload_valid = slots[i].payload_valid
                 /\ tcp_ack(ack)[i].ending_seq = slots[i].ending_seq
                 /\ tcp_ack(ack)[i].from = slots[i].from /\ tcp_ack(ack)[i].to = slots[i].to
                 /\ tcp_ack(ack)[i].ack_received =
                       (slots[i].ack_received \/ (Covers(ack, slots[i]) /\ Visited(ack, i)))
<1>1. ASSUME NEW i \in Index
      PROVE  /\ tcp_ack(ack)[i] \in Slots
             /\ tcp_ack(ack)[i].payload_valid = slots[i].payload_valid
             /\ tcp_ack(ack)[i].ending_seq = slots[i].ending_seq
             /\ tcp_ack(ack)[i].from = slots[i].from /\ tcp_ack(ack)[i].to = slots[i].to
             /\ tcp_ack(ack)[i].ack_received =
                   (slots[i].ack_received \/ (Covers(ack, slots[i]) /\ Visited(ack, i)))
    <2>1. slots[i] \in Slots
        BY DEF TypeOK
    <2>2. tcp_ack(ack)[i] = IF Covers(ack, slots[i]) /\ Visited(ack, i)
                            THEN [slots[i] EXCEPT !.ack_received = TRUE] ELSE slots[i]
        BY DEF tcp_ack
    <2>3. CASE Covers(ack, slots[i]) /\ Visited(ack, i)
        BY <2>1, <2>2, <2>3 DEF Slots
    <2>4. CASE ~(Covers(ack, slots[i]) /\ Visited(ack, i))
        BY <2>1, <2>2, <2>4 DEF Slots
    <2> QED
        BY <2>3, <2>4
<1>2. tcp_ack(ack) \in [Index -> Slots]
    BY <1>1 DEF tcp_ack
<1> QED
    BY <1>1, <1>2

LEMMA AckKeeps ==
    ASSUME IInv, NEW ack
    PROVE  /\ Sound(After(ack)) /\ After(ack).slots = tcp_ack(ack)
           /\ After(ack).cur = cur /\ After(ack).seq = tx_seq /\ After(ack).written = written
<1>1. /\ After(ack).slots = tcp_ack(ack) /\ After(ack).cur = cur
      /\ After(ack).seq = tx_seq /\ After(ack).written = written
      /\ After(ack) = [slots |-> tcp_ack(ack), cur |-> cur, seq |-> tx_seq, written |-> written]
    BY DEF After, Ring
<1>2. After(ack) \in Rings
    BY <1>1, AckMarks DEF IInv, TypeOK, Rings
<1>3. ASSUME NEW i \in Index PROVE Filled(tcp_ack(ack)[i], written)
    BY AckMarks DEF IInv, Written, Filled
<1> QED
    BY <1>1, <1>2, <1>3 DEF Sound

LEMMA RingIs ==
    ASSUME IInv
    PROVE  /\ Sound(Ring) /\ Ring.slots = slots
           /\ Ring.cur = cur /\ Ring.seq = tx_seq /\ Ring.written = written
BY DEF IInv, TypeOK, Written, Sound, Ring, Rings
-----------------------------------------------------------------------------
(* Sequence numbers follow the stream, for any client.                     *)

\* What the actions that fill slots leave behind.
LEMMA Filling ==
    ASSUME IInv, NEW ring, Sound(ring), NEW k \in Nat, SetRing(ring, k),
           written <= ring.written, UNCHANGED <<got, offered>>,
           NEW h \in Nat, heard' = h, 0 .. h - 1 \subseteq got,
           wire' = wire \/ (wire' = wire \cup {[from |-> written, to |-> ring.written]})
    PROVE  Written' /\ slots' \in [Index -> Slots] /\ cur' \in Index /\ replies' \in Nat
           /\ tx_seq' \in 0 .. SeqMod - 1 /\ written' \in 0 .. MaxBytes /\ wire' \subseteq Segments
<1>1. /\ ring.slots \in [Index -> Slots] /\ ring.cur \in Index /\ ring.seq \in 0 .. SeqMod - 1
      /\ ring.written \in 0 .. MaxBytes
      /\ \A i \in Index : Filled(ring.slots[i], ring.written)
    BY DEF Sound, Rings
<1>2. /\ slots' = ring.slots /\ cur' = ring.cur /\ tx_seq' = ring.seq
      /\ written' = ring.written /\ replies' = replies + k
    BY DEF SetRing
<1>3. written \in Nat /\ written' \in Nat /\ written <= written' /\ written \in 0 .. MaxBytes
    BY <1>1, <1>2, BoundAssumption DEF IInv, TypeOK
<1>4. wire' \subseteq Segments
    BY <1>1, <1>3 DEF IInv, TypeOK, Segments
<1>5. \A i \in Index : Filled(slots[i], written)'
    BY <1>1, <1>2 DEF Filled
<1>6. ASSUME NEW s \in wire' PROVE s.to <= written'
    <2>1. CASE s \in wire
        <3>1. s.to \in Nat /\ s.to <= written
            BY <2>1, BoundAssumption DEF IInv, TypeOK, Written, Segments
        <3> QED
            BY <1>3, <3>1
    <2>2. CASE s \notin wire
        BY <1>2, <1>3, <2>2
    <2> QED
        BY <2>1, <2>2
<1>7. got' \subseteq 0 .. written' - 1
    <2>1. ASSUME NEW m \in Nat, NEW n \in Nat, m <= n PROVE 0 .. m - 1 \subseteq 0 .. n - 1
        BY <2>1
    <2>2. 0 .. written - 1 \subseteq 0 .. written' - 1
        BY <1>3, <2>1
    <2>3. got \subseteq 0 .. written - 1 /\ got' = got
        BY DEF IInv, Written
    <2> QED
        BY <2>2, <2>3
<1>8. (\A a \in offered' : a >= 1 /\ 0 .. a - 1 \subseteq got') /\ 0 .. heard' - 1 \subseteq got'
    BY DEF IInv, Written
<1>9. Written'
    BY <1>5, <1>6, <1>7, <1>8 DEF Written
<1>10. replies' \in Nat
    BY <1>2 DEF IInv, TypeOK
<1> QED
    BY <1>1, <1>2, <1>4, <1>9, <1>10

\* An ack that arrives is of bytes the client has.
LEMMA ArrivalIs ==
    ASSUME IInv, NEW a \in Arrivals
    PROVE  /\ a \in 1 .. MaxBytes /\ a <= written /\ a >= heard /\ 0 .. a - 1 \subseteq got
           /\ (IF a > heard THEN a ELSE heard) = a
           /\ ~Repeats => a > heard
<1>1. a \in offered /\ a \in 0 .. MaxBytes /\ a >= 1 /\ 0 .. a - 1 \subseteq got
    BY DEF Arrivals, IInv, Written, TypeOK
<1>2. a \in Nat /\ heard \in Nat /\ written \in Nat
    BY <1>1, BoundAssumption DEF IInv, TypeOK
<1>3. a > heard \/ (Repeats /\ a = heard)
    BY DEF Arrivals
<1>4. a - 1 \in 0 .. written - 1
    BY <1>1, <1>2 DEF IInv, Written
<1> QED
    BY <1>1, <1>2, <1>3, <1>4

LEMMA RoomIs ==
    ASSUME IInv, NEW ring, ring.written = written, NEW k \in Nat, NEW n \in Nat, Room(ring, k, n)
    PROVE  n < SeqMod /\ written + n <= MaxBytes /\ written + n <= heard + Window /\ 0 < SeqMod
BY SeqAssumption, BoundAssumption DEF Room, IInv, TypeOK, Numbered

\* The handshake is over: the SYN counts.
LEMMA Opened ==
    ASSUME IInv, state = "PENDING"
    PROVE  written = 1 /\ (tx_seq + 1) % SeqMod = SeqOf(1) /\ SeqOf(1) \in 0 .. SeqMod - 1
<1>1. written = 1 /\ tx_seq = InitSeq /\ heard = 0 /\ 1 <= Window
    BY SeqAssumption DEF IInv, Numbered
<1>2. InitSeq = SeqOf(0) /\ 1 \in 0 .. SeqMod - 1
    BY <1>1, SeqFirst, SeqAssumption
<1>3. (SeqOf(0) + 1) % SeqMod = SeqOf(0 + 1)
    BY <1>2, SeqFurther
<1> QED
    BY <1>1, <1>2, <1>3, SeqIs

LEMMA TypeAndNumbers == Spec => []IInv
<1>1. Init => IInv
    <2> SUFFICES ASSUME Init PROVE IInv
        OBVIOUS
    <2>1. /\ [payload_valid |-> FALSE, ack_received |-> FALSE, ending_seq |-> 0,
             from |-> 0, to |-> 0] \in Slots
          /\ 0 \in Index /\ InitSeq \in 0 .. SeqMod - 1 /\ 0 \in 0 .. SeqMod - 1
          /\ 0 .. 0 - 1 = {}
        BY SeqAssumption, RingAssumption, BoundAssumption DEF Slots, Index
    <2>2. TypeOK
        BY <2>1, BoundAssumption DEF Init, TypeOK
    <2>3. Numbered
        BY SeqAssumption DEF Init, Numbered
    <2>4. Written
        BY <2>1 DEF Init, Written, Filled
    <2> QED
        BY <2>2, <2>3, <2>4 DEF IInv
<1>2. IInv /\ [Next]_vars => IInv'
    <2> SUFFICES ASSUME IInv, [Next]_vars PROVE IInv'
        OBVIOUS
    <2>0. /\ written \in Nat /\ heard \in Nat /\ written <= heard + Window /\ heard <= written
          /\ TypeOK /\ Numbered /\ Written /\ written \in 0 .. MaxBytes
        BY BoundAssumption DEF IInv, TypeOK, Numbered
    <2>1. CASE Open
        <3>1. state = "LISTENING" /\ Room(Ring, 1, 1) /\ SetRing(tcp_open(Ring), 1)
              /\ state' = "PENDING" /\ wire' = wire \cup {[from |-> 0, to |-> 1]}
              /\ UNCHANGED <<rx_ack, got, offered, heard>>
            BY <2>1 DEF Open, client
        <3>2. written = 0 /\ tx_seq = InitSeq /\ heard = 0
            BY <2>0, <3>1 DEF Numbered
        <3>3. tx_seq = SeqOf(0) /\ tx_seq \in 0 .. SeqMod - 1
            BY <2>0, <3>2, SeqFirst, SeqAssumption DEF TypeOK
        <3>4. 1 < SeqMod /\ 0 + 1 <= MaxBytes /\ 0 + 1 <= Window
            BY <3>1, <3>2, RingIs, RoomIs, SeqAssumption
        <3>5. /\ Sound(tcp_open(Ring)) /\ tcp_open(Ring).seq = tx_seq
              /\ tcp_open(Ring).written = 1
            <4>1. /\ Sound(Ring) /\ Ring.seq = tx_seq /\ tx_seq = SeqOf(Ring.written)
                  /\ Ring.written + 1 <= MaxBytes /\ 0 + 1 = 1 /\ Ring.written = 0
                BY <3>2, <3>3, <3>4, RingIs
            <4> QED
                BY <3>4, <4>1, OpenIs DEF Extended
        <3>6. Written' /\ slots' \in [Index -> Slots] /\ cur' \in Index /\ replies' \in Nat
              /\ tx_seq' \in 0 .. SeqMod - 1 /\ written' \in 0 .. MaxBytes /\ wire' \subseteq Segments
            BY <2>0, <3>1, <3>2, <3>5, Filling DEF Written
        <3>7. TypeOK'
            BY <2>0, <3>1, <3>6 DEF TypeOK
        <3>8. written' = 1 /\ tx_seq' = InitSeq
            BY <3>1, <3>2, <3>5 DEF SetRing
        <3>9. Numbered'
            BY <3>1, <3>2, <3>4, <3>8, SeqAssumption DEF Numbered
        <3> QED
            BY <3>6, <3>7, <3>9 DEF IInv
    <2>2. CASE SynRepeated
        <3>1. state = "PENDING" /\ state' = "OPEN" /\ tx_seq' = (tx_seq + 1) % SeqMod
              /\ UNCHANGED <<slots, cur, rx_ack, written, replies, wire, got, offered, heard>>
            BY <2>2 DEF SynRepeated, client
        <3>2. tx_seq' = SeqOf(1) /\ SeqOf(1) \in 0 .. SeqMod - 1 /\ written = 1
            BY <2>0, <3>1, Opened
        <3> QED
            BY <2>0, <3>1, <3>2 DEF IInv, TypeOK, Numbered, Written, Filled
    <2>3. ASSUME NEW ack \in Strays, StrayAck(ack) PROVE IInv'
        <3>1. state = "LISTENING" /\ rx_ack' = ack /\ slots' = tcp_ack(ack)
              /\ UNCHANGED <<state, cur, tx_seq, written, replies, wire, got, offered, heard>>
            BY <2>3 DEF StrayAck, client
        <3>2. slots' \in [Index -> Slots] /\ \A i \in Index : Filled(slots'[i], written)
            BY <3>1, AckKeeps DEF Sound, Rings
        <3>3. rx_ack' \in 0 .. SeqMod - 1
            BY <3>1, PeerAssumption
        <3> QED
            BY <2>0, <3>1, <3>2, <3>3 DEF IInv, TypeOK, Numbered, Written, Filled
    <2>4. ASSUME NEW ack \in Strays, StrayFin(ack) PROVE IInv'
        <3>1. state = "LISTENING" /\ rx_ack' = ack
              /\ Room(After(ack), 1, 0) /\ SetRing(tcp_reply(After(ack), 0), 1)
              /\ UNCHANGED <<state, wire, got, offered, heard>>
            BY <2>4 DEF StrayFin, After, client
        <3>2. written = 0 /\ tx_seq = InitSeq /\ tx_seq = SeqOf(0)
            BY <2>0, <3>1, SeqFirst, SeqAssumption DEF Numbered
        <3>3. /\ Sound(tcp_reply(After(ack), 0)) /\ tcp_reply(After(ack), 0).seq = SeqOf(0)
              /\ tcp_reply(After(ack), 0).written = 0
            <4>1. /\ Sound(After(ack)) /\ After(ack).written = 0 /\ After(ack).seq = SeqOf(0)
                BY <3>2, AckKeeps
            <4>2. 0 < SeqMod /\ After(ack).written + 0 <= MaxBytes /\ After(ack).written + 0 = 0
                BY <4>1, SeqAssumption, BoundAssumption
            <4>3. After(ack).seq = SeqOf(After(ack).written)
                BY <4>1
            <4> QED
                BY <4>1, <4>2, <4>3, ReplyNothing DEF Extended
        <3>4. Written' /\ slots' \in [Index -> Slots] /\ cur' \in Index /\ replies' \in Nat
              /\ tx_seq' \in 0 .. SeqMod - 1 /\ written' \in 0 .. MaxBytes /\ wire' \subseteq Segments
            BY <2>0, <3>1, <3>2, <3>3, Filling DEF Written
        <3>5. TypeOK'
            BY <2>0, <3>1, <3>4, PeerAssumption DEF TypeOK
        <3>6. written' = 0 /\ tx_seq' = InitSeq
            BY <3>1, <3>2, <3>3 DEF SetRing
        <3>7. Numbered'
            BY <2>0, <3>1, <3>6, SeqAssumption DEF Numbered
        <3> QED
            BY <3>4, <3>5, <3>7 DEF IInv
    <2>5. ASSUME NEW n \in Lengths, Send(n) PROVE IInv'
        <3>1. state = "OPEN" /\ Room(Ring, 1, n) /\ SetRing(tcp_reply(Ring, n), 1)
              /\ wire' = wire \cup {[from |-> written, to |-> written + n]}
              /\ UNCHANGED <<state, rx_ack, got, offered, heard>> /\ n \in Nat
            BY <2>5, LengthAssumption DEF Send, client
        <3>2. /\ Sound(tcp_reply(Ring, n)) /\ tcp_reply(Ring, n).written = written + n
              /\ tcp_reply(Ring, n).seq = SeqOf(tcp_reply(Ring, n).written)
              /\ written + n <= heard + Window
            <4>1. /\ Sound(Ring) /\ Ring.written = written /\ Ring.seq = SeqOf(Ring.written)
                BY <2>0, <3>1, RingIs DEF Numbered
            <4>2. n < SeqMod /\ Ring.written + n <= MaxBytes /\ written + n <= heard + Window
                BY <3>1, <4>1, RoomIs
            <4> QED
                BY <3>1, <4>1, <4>2, ReplyIs DEF Extended
        <3>3. Written' /\ slots' \in [Index -> Slots] /\ cur' \in Index /\ replies' \in Nat
              /\ tx_seq' \in 0 .. SeqMod - 1 /\ written' \in 0 .. MaxBytes /\ wire' \subseteq Segments
            <4>1. wire' = wire \cup {[from |-> written, to |-> tcp_reply(Ring, n).written]}
                BY <3>1, <3>2
            <4>2. written <= tcp_reply(Ring, n).written
                BY <2>0, <3>1, <3>2
            <4>3. heard' = heard /\ 0 .. heard - 1 \subseteq got
                BY <2>0, <3>1 DEF Written
            <4> QED
                BY <2>0, <3>1, <3>2, <4>1, <4>2, <4>3, Filling
        <3>4. TypeOK'
            BY <2>0, <3>1, <3>3 DEF TypeOK
        <3>5. Numbered'
            BY <2>0, <3>1, <3>2 DEF Numbered, SetRing
        <3> QED
            BY <3>3, <3>4, <3>5 DEF IInv
    <2>6. ASSUME NEW a \in offered, AckArrives(a) PROVE IInv'
        <3>1. state # "LISTENING" /\ a \in Arrivals /\ slots' = tcp_ack(SeqOf(a))
              /\ rx_ack' = SeqOf(a) /\ heard' = (IF a > heard THEN a ELSE heard)
              /\ UNCHANGED <<cur, written, replies, wire, got, offered>>
              /\ IF state = "PENDING"
                   THEN tx_seq' = (tx_seq + 1) % SeqMod /\ state' = "OPEN"
                   ELSE UNCHANGED <<tx_seq, state>>
            BY <2>6 DEF AckArrives, client
        <3>2. a \in 1 .. MaxBytes /\ a <= written /\ a >= heard /\ 0 .. a - 1 \subseteq got /\ heard' = a
            BY <2>0, <3>1, ArrivalIs
        <3>3. slots' \in [Index -> Slots] /\ \A i \in Index : Filled(slots'[i], written)
            BY <3>1, AckKeeps DEF Sound, Rings
        <3>4. rx_ack' \in 0 .. SeqMod - 1 /\ heard' \in 0 .. MaxBytes /\ a \in Nat
            BY <3>1, <3>2, SeqIs, BoundAssumption
        <3>5. state' = "OPEN" /\ tx_seq' = SeqOf(written) /\ SeqOf(written) \in 0 .. SeqMod - 1
            BY <2>0, <3>1, Opened, SeqIs DEF Numbered, TypeOK
        <3> QED
            BY <2>0, <3>1, <3>2, <3>3, <3>4, <3>5, SeqAssumption DEF IInv, TypeOK, Numbered, Written, Filled
    <2>7. ASSUME NEW a \in offered, NEW n \in Lengths, NEW echo \in EchoModes, DataArrives(a, n, echo)
          PROVE  IInv'
        <3> DEFINE acked == After(SeqOf(a))
                   reply == tcp_reply(acked, 0)
        <3>1. /\ state = "OPEN" /\ a \in Arrivals
              /\ IF echo
                   THEN /\ Room(acked, 2, n) /\ SetRing(tcp_reply(reply, n), 2)
                        /\ wire' = wire \cup {[from |-> written, to |-> written + n]}
                   ELSE Room(acked, 1, 0) /\ SetRing(reply, 1) /\ UNCHANGED wire
              /\ rx_ack' = SeqOf(a) /\ heard' = (IF a > heard THEN a ELSE heard)
              /\ UNCHANGED <<state, got, offered>> /\ n \in Nat
            BY <2>7, LengthAssumption DEF DataArrives, After, client
        <3>2. a \in 1 .. MaxBytes /\ a <= written /\ a >= heard /\ 0 .. a - 1 \subseteq got /\ heard' = a
            BY <2>0, <3>1, ArrivalIs
        <3>3. /\ Sound(acked) /\ acked.seq = SeqOf(acked.written) /\ acked.written = written
              /\ 0 < SeqMod /\ acked.written + 0 <= MaxBytes
            BY <2>0, <3>1, AckKeeps, SeqAssumption, BoundAssumption DEF Numbered
        <3> HIDE DEF acked
        <3>4. /\ Sound(reply) /\ reply.seq = SeqOf(reply.written) /\ reply.written = written
            BY <2>0, <3>3, ReplyNothing DEF Extended
        <3> HIDE DEF reply
        <3>5. \E ring, k :
                 /\ k \in Nat /\ Sound(ring) /\ SetRing(ring, k) /\ written <= ring.written
                 /\ ring.written <= heard + Window /\ ring.seq = SeqOf(ring.written)
                 /\ wire' = wire \/ wire' = wire \cup {[from |-> written, to |-> ring.written]}
            <4>1. CASE echo
                <5>1. n < SeqMod /\ reply.written + n <= MaxBytes /\ written + n <= heard + Window
                    BY <3>1, <3>3, <3>4, <4>1, RoomIs
                <5>2. /\ Sound(tcp_reply(reply, n)) /\ tcp_reply(reply, n).written = written + n
                      /\ tcp_reply(reply, n).seq = SeqOf(tcp_reply(reply, n).written)
                    BY <3>1, <3>4, <5>1, ReplyIs DEF Extended
                <5>3. wire' = wire \cup {[from |-> written, to |-> tcp_reply(reply, n).written]}
                    BY <3>1, <4>1, <5>2
                <5>4. written <= tcp_reply(reply, n).written /\ 2 \in Nat /\ SetRing(tcp_reply(reply, n), 2)
                      /\ tcp_reply(reply, n).written <= heard + Window
                    BY <2>0, <3>1, <4>1, <5>1, <5>2
                <5> QED
                    BY <5>2, <5>3, <5>4
            <4>2. CASE ~echo
                <5>1. written <= reply.written /\ 1 \in Nat /\ SetRing(reply, 1) /\ wire' = wire
                      /\ reply.written <= heard + Window
                    BY <2>0, <3>1, <3>4, <4>2
                <5> QED
                    BY <3>4, <5>1
            <4> QED
                BY <4>1, <4>2
        <3>6. PICK ring, k :
                 /\ k \in Nat /\ Sound(ring) /\ SetRing(ring, k) /\ written <= ring.written
                 /\ ring.written <= heard + Window /\ ring.seq = SeqOf(ring.written)
                 /\ wire' = wire \/ wire' = wire \cup {[from |-> written, to |-> ring.written]}
            BY <3>5
        <3>7. Written' /\ slots' \in [Index -> Slots] /\ cur' \in Index /\ replies' \in Nat
              /\ tx_seq' \in 0 .. SeqMod - 1 /\ written' \in 0 .. MaxBytes /\ wire' \subseteq Segments
            <4>1. heard' = a /\ a \in Nat /\ 0 .. a - 1 \subseteq got /\ UNCHANGED <<got, offered>>
                BY <3>1, <3>2, BoundAssumption
            <4> QED
                BY <3>6, <4>1, Filling
        <3>8. /\ rx_ack' \in 0 .. SeqMod - 1 /\ heard' \in 0 .. MaxBytes /\ a \in Nat
            BY <3>1, <3>2, SeqIs, BoundAssumption
        <3>9. TypeOK'
            BY <2>0, <3>1, <3>7, <3>8 DEF TypeOK
        <3>10. written' = ring.written /\ tx_seq' = ring.seq /\ ring.written \in Nat
            BY <3>6, BoundAssumption DEF SetRing, Sound, Rings
        <3>11. Numbered'
            BY <2>0, <3>1, <3>2, <3>6, <3>8, <3>10, SeqAssumption DEF Numbered
        <3> QED
            BY <3>7, <3>9, <3>11 DEF IInv
    <2>8. ASSUME NEW i \in Index, Retransmit(i) PROVE IInv'
        <3>1. wire' = wire \cup {Segment(slots[i])} /\ UNCHANGED <<sender, got, offered, heard>>
              /\ slots[i].payload_valid
            BY <2>8 DEF Retransmit, client, Unacked
        <3>2. Segment(slots[i]) \in Segments /\ Segment(slots[i]).to <= written
            BY <2>0, <3>1 DEF TypeOK, Slots, Segments, Segment, Written, Filled
        <3> QED
            BY <2>0, <3>1, <3>2 DEF sender, IInv, TypeOK, Numbered, Written, Filled
    <2>9. ASSUME NEW s \in wire, Deliver(s) PROVE IInv'
        <3>1. got' = got \cup s.from .. s.to - 1 /\ UNCHANGED <<sender, wire, offered, heard>>
            BY <2>9 DEF Deliver
        <3>2. s.from \in 0 .. MaxBytes /\ s.to \in 0 .. MaxBytes /\ s.to <= written
            BY <2>0 DEF TypeOK, Segments, Written
        <3>3. s.from .. s.to - 1 \subseteq 0 .. written - 1 /\ s.from .. s.to - 1 \subseteq 0 .. MaxBytes - 1
            BY <2>0, <3>2, BoundAssumption
        <3> QED
            BY <2>0, <3>1, <3>3 DEF sender, IInv, TypeOK, Numbered, Written, Filled
    <2>10. ASSUME NEW s \in wire, Lose(s) PROVE IInv'
        BY <2>0, <2>10 DEF Lose, sender, client, IInv, TypeOK, Numbered, Written, Filled
    <2>11. CASE Acknowledge
        <3>1. PICK n \in 1 .. MaxBytes : Cumulative(n) /\ offered' = offered \cup {n}
            BY <2>11 DEF Acknowledge
        <3>2. n >= 1 /\ 0 .. n - 1 \subseteq got /\ n \in 0 .. MaxBytes
            BY <3>1, BoundAssumption DEF Cumulative
        <3>3. UNCHANGED <<sender, wire, got, heard>>
            BY <2>11 DEF Acknowledge
        <3> QED
            BY <2>0, <3>1, <3>2, <3>3 DEF sender, IInv, TypeOK, Numbered, Written, Filled
    <2>12. CASE UNCHANGED vars
        BY <2>0, <2>12 DEF vars, sender, client, IInv, TypeOK, Numbered, Written, Filled
    <2> QED
        BY <2>1, <2>2, <2>3, <2>4, <2>5, <2>6, <2>7, <2>8, <2>9, <2>10, <2>11, <2>12 DEF Next, Network
<1> QED
    BY <1>1, <1>2, PTL DEF Spec

(* The number of the next byte is the one its position demands, the SYN    *)
(* included, whatever acks arrive and however often.                       *)
THEOREM NumbersFollow == Spec => []SeqInv
<1>1. IInv => SeqInv
    BY DEF IInv, Numbered, SeqInv, SeqContiguous
<1> QED
    BY <1>1, TypeAndNumbers, PTL
-----------------------------------------------------------------------------
(* What an ack that arrives covers: with acks that advance, exactly what   *)
(* ends between the last one and this one.                                 *)

\* Positions, numbers and the last ack, as the lemmas below need them.
LEMMA AckPlaces ==
    ASSUME IInv, Acked, NEW a \in Arrivals, a > heard,
           NEW t \in Nat, heard < t, t <= written
    PROVE  LET W == Window
               M == SeqMod
               da == a - heard
               dt == t - heard
           IN  /\ da \in 1 .. W /\ dt \in 1 .. W /\ W < M
               /\ rx_ack \in 0 .. M - 1
               /\ heard > 0 =>
                     /\ SeqOf(a) = IF rx_ack + da < M THEN rx_ack + da ELSE rx_ack + da - M
                     /\ SeqOf(t) = IF rx_ack + dt < M THEN rx_ack + dt ELSE rx_ack + dt - M
               /\ heard = 0 =>
                     /\ SeqOf(a) = InitSeq + da /\ SeqOf(t) = InitSeq + dt
                     /\ rx_ack \notin InitSeq + 1 .. InitSeq + W
<1>1. /\ a \in Nat /\ heard \in Nat /\ written \in Nat /\ written <= heard + Window
      /\ a <= written /\ a > heard /\ rx_ack \in 0 .. SeqMod - 1
      /\ SeqMod \in Nat /\ InitSeq \in Nat /\ Window \in Nat /\ Window < SeqMod
    BY ArrivalIs, BoundAssumption, SeqAssumption DEF IInv, TypeOK, Numbered
<1>2. /\ a - heard \in 1 .. Window /\ t - heard \in 1 .. Window
      /\ a - heard \in 0 .. SeqMod - 1 /\ t - heard \in 0 .. SeqMod - 1
      /\ heard + (a - heard) = a /\ heard + (t - heard) = t
    BY <1>1
<1>3. ASSUME heard > 0
      PROVE  /\ SeqOf(a) = IF rx_ack + (a - heard) < SeqMod THEN rx_ack + (a - heard)
                                                           ELSE rx_ack + (a - heard) - SeqMod
             /\ SeqOf(t) = IF rx_ack + (t - heard) < SeqMod THEN rx_ack + (t - heard)
                                                           ELSE rx_ack + (t - heard) - SeqMod
    <2>1. rx_ack = SeqOf(heard)
        BY <1>3 DEF Acked
    <2>2. SeqOf(heard + (a - heard)) =
              IF SeqOf(heard) + (a - heard) < SeqMod THEN SeqOf(heard) + (a - heard)
                                                     ELSE SeqOf(heard) + (a - heard) - SeqMod
        BY <1>1, <1>2, SeqFurther
    <2>3. SeqOf(heard + (t - heard)) =
              IF SeqOf(heard) + (t - heard) < SeqMod THEN SeqOf(heard) + (t - heard)
                                                     ELSE SeqOf(heard) + (t - heard) - SeqMod
        BY <1>1, <1>2, SeqFurther
    <2> QED
        BY <1>2, <2>1, <2>2, <2>3
<1>4. ASSUME heard = 0
      PROVE  /\ SeqOf(a) = InitSeq + (a - heard) /\ SeqOf(t) = InitSeq + (t - heard)
             /\ rx_ack \notin InitSeq + 1 .. InitSeq + Window
    <2>1. a \in 0 .. Window /\ t \in 0 .. Window /\ a - heard = a /\ t - heard = t
        BY <1>1, <1>4
    <2>2. rx_ack \notin InitSeq + 1 .. InitSeq + Window
        BY <1>4 DEF Acked
    <2> QED
        BY <2>1, <2>2, SeqFirst
<1> QED
    BY <1>1, <1>2, <1>3, <1>4

LEMMA CoversOnly ==
    ASSUME IInv, Acked, NEW a \in Arrivals, a > heard, NEW i \in Index,
           Covers(SeqOf(a), slots[i])
    PROVE  slots[i].to <= a
<1> DEFINE t == slots[i].to
<1>1. /\ slots[i].payload_valid /\ slots[i].ending_seq = SeqOf(t) /\ t <= written
      /\ t \in Nat /\ a \in Nat /\ heard \in Nat /\ a >= heard
    BY ArrivalIs, BoundAssumption DEF Covers, IInv, Written, Filled, TypeOK, Slots
<1>2. IF SeqOf(a) > rx_ack THEN SeqOf(t) > rx_ack /\ SeqOf(t) <= SeqOf(a)
                           ELSE SeqOf(t) < rx_ack => SeqOf(t) <= SeqOf(a)
    BY <1>1 DEF Covers
<1> HIDE DEF t
<1>3. ASSUME t > a PROVE FALSE
    <2>1. heard < t
        BY <1>1, <1>3
    <2> DEFINE A == SeqOf(a)
               T == SeqOf(t)
               da == a - heard
               dt == t - heard
    <2>2. /\ da \in 1 .. Window /\ dt \in 1 .. Window /\ Window < SeqMod /\ da < dt
          /\ rx_ack \in 0 .. SeqMod - 1 /\ SeqMod \in Nat /\ InitSeq \in Nat /\ Window \in Nat
        BY <1>1, <1>3, <2>1, AckPlaces, SeqAssumption
    <2>3. heard > 0 => /\ A = IF rx_ack + da < SeqMod THEN rx_ack + da ELSE rx_ack + da - SeqMod
                       /\ T = IF rx_ack + dt < SeqMod THEN rx_ack + dt ELSE rx_ack + dt - SeqMod
        BY <1>1, <2>1, AckPlaces
    <2>4. heard = 0 => /\ A = InitSeq + da /\ T = InitSeq + dt
                       /\ rx_ack \notin InitSeq + 1 .. InitSeq + Window
        BY <1>1, <2>1, AckPlaces
    <2>5. heard > 0 \/ heard = 0
        BY <1>1
    <2>6. IF A > rx_ack THEN T > rx_ack /\ T <= A ELSE T < rx_ack => T <= A
        BY <1>2
    <2> HIDE DEF A, T, da, dt
    <2>7. CASE heard > 0
        BY <2>2, <2>3, <2>6, <2>7
    <2>8. CASE heard = 0
        BY <2>2, <2>4, <2>6, <2>8
    <2> QED
        BY <2>5, <2>7, <2>8
<1> QED
    BY <1>1, <1>3 DEF t

LEMMA CoversAll ==
    ASSUME IInv, Acked, NEW a \in Arrivals, a > heard, NEW i \in Index,
           slots[i].payload_valid, heard < slots[i].to, slots[i].to <= a
    PROVE  Covers(SeqOf(a), slots[i])
<1> DEFINE t == slots[i].to
           A == SeqOf(a)
           T == SeqOf(t)
           da == a - heard
           dt == t - heard
<1>1. /\ slots[i].ending_seq = T /\ t <= written /\ heard < t /\ t <= a
      /\ t \in Nat /\ a \in Nat /\ heard \in Nat
    BY ArrivalIs, BoundAssumption DEF IInv, Written, Filled, TypeOK, Slots
<1>2. /\ da \in 1 .. Window /\ dt \in 1 .. Window /\ Window < SeqMod /\ dt <= da
      /\ rx_ack \in 0 .. SeqMod - 1 /\ SeqMod \in Nat /\ InitSeq \in Nat /\ Window \in Nat
    BY <1>1, AckPlaces, SeqAssumption
<1>3. heard > 0 => /\ A = IF rx_ack + da < SeqMod THEN rx_ack + da ELSE rx_ack + da - SeqMod
                   /\ T = IF rx_ack + dt < SeqMod THEN rx_ack + dt ELSE rx_ack + dt - SeqMod
    BY <1>1, AckPlaces
<1>4. heard = 0 => /\ A = InitSeq + da /\ T = InitSeq + dt
                   /\ rx_ack \notin InitSeq + 1 .. InitSeq + Window
    BY <1>1, AckPlaces
<1>5. heard > 0 \/ heard = 0
    BY <1>1
<1>6. ASSUME IF A > rx_ack THEN T > rx_ack /\ T <= A ELSE T < rx_ack => T <= A
      PROVE  Covers(A, slots[i])
    BY <1>1, <1>6 DEF Covers
<1> HIDE DEF t, A, T, da, dt
<1>7. CASE heard > 0
    <2>1. IF A > rx_ack THEN T > rx_ack /\ T <= A ELSE T < rx_ack => T <= A
        BY <1>2, <1>3, <1>7
    <2> QED
        BY <1>6, <2>1 DEF A
<1>8. CASE heard = 0
    <2>1. IF A > rx_ack THEN T > rx_ack /\ T <= A ELSE T < rx_ack => T <= A
        BY <1>2, <1>4, <1>8
    <2> QED
        BY <1>6, <2>1 DEF A
<1> QED
    BY <1>5, <1>7, <1>8
-----------------------------------------------------------------------------
(* Every step leaves the ring alone, or takes in an ack and fills up to    *)
(* two slots.                                                              *)

Still == UNCHANGED <<slots, cur, rx_ack, written, replies, heard>> /\ got \subseteq got'

Heeds(base) ==
    \/ base = Ring /\ UNCHANGED <<rx_ack, heard>>
    \/ /\ state = "LISTENING" /\ UNCHANGED heard
       /\ \E ack \in Strays : base = After(ack) /\ rx_ack' = ack
    \/ \E a \in Arrivals :
          /\ base = After(SeqOf(a)) /\ rx_ack' = SeqOf(a) /\ heard' = IF a > heard THEN a ELSE heard
          /\ a = heard => Reheard

\* A client that keeps up has what the slot held.
Puts(ring, n, next) ==
    /\ Sound(ring) /\ Extended(ring, n, next)
    /\ Paced /\ Unacked(ring.slots[ring.cur]) =>
          ring.slots[ring.cur].from .. ring.slots[ring.cur].to - 1 \subseteq got

Fills(base, ring, k) ==
    \/ ring = base /\ k = 0
    \/ k = 1 /\ \E n \in Nat : Puts(base, n, ring)
    \/ k = 2 /\ \E mid : \E n \in Nat : Puts(base, 0, mid) /\ Puts(mid, n, ring)

Becomes(ring, k) ==
    slots' = ring.slots /\ cur' = ring.cur /\ written' = ring.written /\ replies' = replies + k

Moves ==
    /\ \E base, ring, k : Heeds(base) /\ Fills(base, ring, k) /\ Becomes(ring, k)
    /\ UNCHANGED got

LEMMA RoomSpares ==
    ASSUME NEW ring, Sound(ring), NEW k \in {1, 2}, NEW n, Room(ring, k, n), Paced
    PROVE  /\ Unacked(ring.slots[ring.cur]) =>
                 ring.slots[ring.cur].from .. ring.slots[ring.cur].to - 1 \subseteq got
           /\ k = 2 => LET next == (ring.cur + 1) % NBuf
                       IN  Unacked(ring.slots[next]) =>
                             ring.slots[next].from .. ring.slots[next].to - 1 \subseteq got
<1>1. ASSUME NEW j \in 0 .. k - 1, Unacked(ring.slots[(ring.cur + j) % NBuf])
      PROVE  ring.slots[(ring.cur + j) % NBuf].from .. ring.slots[(ring.cur + j) % NBuf].to - 1
                 \subseteq got
    BY <1>1 DEF Room
<1>2. ring.cur \in 0 .. NBuf - 1 /\ NBuf \in Nat \ {0}
    BY RingAssumption DEF Sound, Rings, Index
<1>3. ring.cur + 0 = ring.cur /\ ring.cur % NBuf = ring.cur /\ 0 \in 0 .. k - 1
    BY <1>2, Small
<1>4. (ring.cur + 0) % NBuf = ring.cur
    BY <1>3
<1>5. k = 2 => 1 \in 0 .. k - 1
    OBVIOUS
<1>6. Unacked(ring.slots[ring.cur]) =>
          ring.slots[ring.cur].from .. ring.slots[ring.cur].to - 1 \subseteq got
    BY <1>1, <1>3, <1>4
<1> QED
    BY <1>1, <1>5, <1>6

LEMMA StepIs == ASSUME IInv, [Next]_vars PROVE Still \/ Moves
<1> USE DEF Becomes
<1>1. CASE Open
    <2>1. state = "LISTENING" /\ Room(Ring, 1, 1) /\ SetRing(tcp_open(Ring), 1)
          /\ UNCHANGED <<rx_ack, got, heard>>
        BY <1>1 DEF Open, client
    <2>2. Ring.written = 0 /\ Ring.seq = SeqOf(0) /\ 1 < SeqMod /\ 0 + 1 <= MaxBytes /\ Sound(Ring)
        BY <2>1, RingIs, RoomIs, SeqFirst, SeqAssumption DEF IInv, Numbered
    <2>3. Puts(Ring, 1, tcp_open(Ring))
        BY <2>1, <2>2, OpenIs, RoomSpares DEF Puts
    <2>4. Fills(Ring, tcp_open(Ring), 1)
        BY <2>3 DEF Fills
    <2> QED
        BY <2>1, <2>4 DEF Moves, Heeds, SetRing
<1>2. ASSUME NEW ack \in Strays, StrayAck(ack) PROVE Moves
    <2>1. /\ state = "LISTENING" /\ rx_ack' = ack /\ slots' = tcp_ack(ack)
          /\ UNCHANGED <<cur, tx_seq, written, replies, got, heard>>
        BY <1>2 DEF StrayAck, client
    <2>2. Heeds(After(ack)) /\ Fills(After(ack), After(ack), 0)
        BY <2>1 DEF Heeds, Fills
    <2>3. Becomes(After(ack), 0)
        BY <2>1, AckKeeps DEF IInv, TypeOK
    <2> QED
        BY <2>1, <2>2, <2>3 DEF Moves, SetRing
<1>3. ASSUME NEW ack \in Strays, StrayFin(ack) PROVE Moves
    <2>1. state = "LISTENING" /\ rx_ack' = ack
          /\ Room(After(ack), 1, 0) /\ SetRing(tcp_reply(After(ack), 0), 1)
          /\ UNCHANGED <<got, heard>>
        BY <1>3 DEF StrayFin, After, client
    <2>2. /\ Sound(After(ack)) /\ After(ack).seq = SeqOf(After(ack).written) /\ 0 < SeqMod
        BY <2>1, AckKeeps, SeqFirst, SeqAssumption DEF IInv, Numbered
    <2>3. Puts(After(ack), 0, tcp_reply(After(ack), 0))
        BY <2>1, <2>2, ReplyNothing, RoomSpares DEF Puts
    <2>4. Heeds(After(ack)) /\ Fills(After(ack), tcp_reply(After(ack), 0), 1)
        BY <2>1, <2>3 DEF Heeds, Fills
    <2> QED
        BY <2>1, <2>4 DEF Moves, SetRing
<1>4. ASSUME NEW n \in Lengths, Send(n) PROVE Moves
    <2>1. state = "OPEN" /\ Room(Ring, 1, n) /\ SetRing(tcp_reply(Ring, n), 1)
          /\ UNCHANGED <<rx_ack, got, heard>> /\ n \in Nat
        BY <1>4, LengthAssumption DEF Send, client
    <2>2. Sound(Ring) /\ Ring.written = written /\ Ring.seq = SeqOf(Ring.written)
        BY <2>1, RingIs DEF IInv, Numbered
    <2>3. n < SeqMod /\ Ring.written + n <= MaxBytes
        BY <2>1, <2>2, RoomIs
    <2>4. Puts(Ring, n, tcp_reply(Ring, n))
        BY <2>1, <2>2, <2>3, ReplyIs, RoomSpares DEF Puts
    <2>5. Heeds(Ring) /\ Fills(Ring, tcp_reply(Ring, n), 1)
        BY <2>1, <2>4 DEF Heeds, Fills
    <2> QED
        BY <2>1, <2>5 DEF Moves, SetRing
<1>5. ASSUME NEW a \in offered, AckArrives(a) PROVE Moves
    <2>1. /\ a \in Arrivals /\ rx_ack' = SeqOf(a) /\ heard' = (IF a > heard THEN a ELSE heard)
          /\ slots' = tcp_ack(SeqOf(a)) /\ UNCHANGED <<cur, written, replies, got>>
          /\ a = heard => Reheard
        BY <1>5 DEF AckArrives, Reheard, client
    <2>2. Heeds(After(SeqOf(a))) /\ Fills(After(SeqOf(a)), After(SeqOf(a)), 0)
        BY <2>1 DEF Heeds, Fills
    <2>3. Becomes(After(SeqOf(a)), 0)
        BY <2>1, AckKeeps DEF IInv, TypeOK
    <2> QED
        BY <2>1, <2>2, <2>3 DEF Moves
<1>6. ASSUME NEW a \in offered, NEW n \in Lengths, NEW echo \in EchoModes, DataArrives(a, n, echo)
      PROVE  Moves
    <2> DEFINE acked == After(SeqOf(a))
               reply == tcp_reply(acked, 0)
    <2>1. /\ state = "OPEN" /\ a \in Arrivals
          /\ IF echo
               THEN Room(acked, 2, n) /\ SetRing(tcp_reply(reply, n), 2)
               ELSE Room(acked, 1, 0) /\ SetRing(reply, 1)
          /\ rx_ack' = SeqOf(a) /\ heard' = (IF a > heard THEN a ELSE heard)
          /\ UNCHANGED got /\ n \in Nat
        BY <1>6, LengthAssumption DEF DataArrives, After, client
    <2>2. /\ Sound(acked) /\ acked.seq = SeqOf(acked.written) /\ acked.written = written /\ 0 < SeqMod
        BY <2>1, AckKeeps, SeqAssumption DEF IInv, Numbered
    <2>3. Heeds(acked)
        <3>1. a = heard => Reheard
            BY <1>6 DEF Reheard
        <3> QED
            BY <2>1, <3>1 DEF Heeds
    <2> HIDE DEF acked
    <2>4. /\ Extended(acked, 0, reply) /\ reply.seq = SeqOf(reply.written) /\ reply.written = written
        BY <2>2, ReplyNothing
    <2>5. Sound(reply)
        BY <2>4 DEF Extended
    <2>6. Puts(acked, 0, reply)
        BY <2>1, <2>2, <2>4, RoomSpares DEF Puts
    <2> HIDE DEF reply
    <2>7. CASE ~echo
        <3>1. Fills(acked, reply, 1) /\ SetRing(reply, 1)
            BY <2>1, <2>6, <2>7 DEF Fills
        <3> QED
            BY <2>1, <2>3, <3>1 DEF Moves, SetRing
    <2>8. CASE echo
        <3>1. n < SeqMod /\ reply.written + n <= MaxBytes
            BY <2>1, <2>2, <2>4, <2>8, RoomIs
        <3>2. Extended(reply, n, tcp_reply(reply, n))
            BY <2>1, <2>4, <2>5, <3>1, ReplyIs
        <3>3. ASSUME Paced, Unacked(reply.slots[reply.cur])
              PROVE  reply.slots[reply.cur].from .. reply.slots[reply.cur].to - 1 \subseteq got
            <4> DEFINE next == (acked.cur + 1) % NBuf
            <4>1. /\ reply.cur = next /\ acked.cur \in Index /\ next \in Index
                  /\ reply.slots[next] = IF next = acked.cur THEN New(acked.written, 0) ELSE acked.slots[next]
                BY <2>2, <2>4, NextSlot DEF Extended, Sound, Rings
            <4>2. next # acked.cur
                BY <3>3, <4>1, NewHolds DEF Unacked
            <4>3. Unacked(acked.slots[next]) => acked.slots[next].from .. acked.slots[next].to - 1 \subseteq got
                BY <2>1, <2>2, <2>8, <3>3, RoomSpares
            <4> QED
                BY <3>3, <4>1, <4>2, <4>3
        <3>4. Puts(reply, n, tcp_reply(reply, n))
            BY <2>5, <3>2, <3>3 DEF Puts
        <3>5. Fills(acked, tcp_reply(reply, n), 2)
            BY <2>1, <2>6, <3>4 DEF Fills
        <3> QED
            BY <2>1, <2>3, <2>8, <3>5 DEF Moves, SetRing
    <2> QED
        BY <2>7, <2>8
<1>7. CASE SynRepeated
    BY <1>7 DEF SynRepeated, Still, client
<1>8. ASSUME NEW i \in Index, Retransmit(i) PROVE Still
    BY <1>8 DEF Retransmit, Still, sender, client
<1>9. ASSUME NEW s \in wire, Deliver(s) \/ Lose(s) PROVE Still
    BY <1>9 DEF Deliver, Lose, Still, sender, client
<1>10. CASE Acknowledge
    BY <1>10 DEF Acknowledge, Still, sender
<1>11. CASE UNCHANGED vars
    BY <1>11 DEF vars, Still, sender, client
<1> QED
    BY <1>1, <1>2, <1>3, <1>4, <1>5, <1>6, <1>7, <1>8, <1>9, <1>10, <1>11 DEF Next, Network
-----------------------------------------------------------------------------
(* What is marked has arrived.                                             *)

Safe(ring, has) ==
    \A i \in Index : ring.slots[i].payload_valid /\ ring.slots[i].ack_received =>
                        ring.slots[i].from .. ring.slots[i].to - 1 \subseteq has

LEMMA PutsSafe ==
    ASSUME NEW ring, NEW n, NEW next, Puts(ring, n, next), NEW has, Safe(ring, has)
    PROVE  Safe(next, has)
<1> SUFFICES ASSUME NEW i \in Index, next.slots[i].payload_valid, next.slots[i].ack_received
             PROVE  next.slots[i].from .. next.slots[i].to - 1 \subseteq has
    BY DEF Safe
<1>1. next.slots[i] = IF i = ring.cur THEN New(ring.written, n) ELSE ring.slots[i]
    BY DEF Puts, Extended
<1>2. i # ring.cur
    BY <1>1, NewHolds
<1> QED
    BY <1>1, <1>2 DEF Safe

LEMMA FillsSafe ==
    ASSUME NEW base, NEW ring, NEW k, Fills(base, ring, k), NEW has, Safe(base, has)
    PROVE  Safe(ring, has)
BY PutsSafe DEF Fills

\* A socket that listens has nothing to mark.
LEMMA NothingYet ==
    ASSUME IInv, state = "LISTENING", NEW i \in Index
    PROVE  ~slots[i].payload_valid
<1>1. written = 0 /\ slots[i].from \in Nat /\ slots[i].to \in Nat
    BY BoundAssumption DEF IInv, TypeOK, Slots, Numbered
<1> QED
    BY <1>1 DEF IInv, Written, Filled

AckInv == IInv /\ Acked /\ AckSound

LEMMA HeedsSafe ==
    ASSUME AckInv, AcksAdvance, NEW base, Heeds(base)
    PROVE  Safe(base, got) /\ Acked'
<1>0. IInv /\ Acked /\ AckSound
    BY DEF AckInv
<1>1. CASE base = Ring /\ UNCHANGED <<rx_ack, heard>>
    BY <1>0, <1>1 DEF Ring, Safe, AckSound, Acked
<1>2. ASSUME state = "LISTENING", UNCHANGED heard, NEW ack \in Strays, base = After(ack), rx_ack' = ack
      PROVE  Safe(base, got) /\ Acked'
    <2>1. Safe(base, got)
        BY <1>0, <1>2, NothingYet, AckMarks, AckKeeps DEF IInv, Safe
    <2>2. heard = 0
        BY <1>0, <1>2 DEF IInv, Numbered
    <2> QED
        BY <1>2, <2>1, <2>2 DEF Acked, AcksAdvance
<1>3. ASSUME NEW a \in Arrivals, base = After(SeqOf(a)), rx_ack' = SeqOf(a),
             heard' = IF a > heard THEN a ELSE heard
      PROVE  Safe(base, got) /\ Acked'
    <2>1. a \in 1 .. MaxBytes /\ 0 .. a - 1 \subseteq got /\ heard' = a /\ a > heard
        BY <1>0, <1>3, ArrivalIs DEF AcksAdvance
    <2>2. ASSUME NEW i \in Index, base.slots[i].payload_valid, base.slots[i].ack_received
          PROVE  base.slots[i].from .. base.slots[i].to - 1 \subseteq got
        <3>1. /\ slots[i].payload_valid
              /\ base.slots[i].from = slots[i].from /\ base.slots[i].to = slots[i].to
              /\ slots[i].ack_received \/ Covers(SeqOf(a), slots[i])
            <4>1. base.slots = tcp_ack(SeqOf(a)) /\ TypeOK
                BY <1>0, <1>3, AckKeeps DEF IInv
            <4>2. /\ base.slots[i].payload_valid = slots[i].payload_valid
                  /\ base.slots[i].from = slots[i].from /\ base.slots[i].to = slots[i].to
                  /\ base.slots[i].ack_received =
                        (slots[i].ack_received \/ (Covers(SeqOf(a), slots[i]) /\ Visited(SeqOf(a), i)))
                BY <4>1, AckMarks
            <4> QED
                BY <2>2, <4>2, Zenon
        <3>2. CASE slots[i].ack_received
            BY <1>0, <3>1, <3>2 DEF AckSound
        <3>3. CASE Covers(SeqOf(a), slots[i])
            <4>1. slots[i].to <= a /\ slots[i].from \in Nat /\ slots[i].to \in Nat /\ a \in Nat
                BY <1>0, <2>1, <3>3, CoversOnly, BoundAssumption DEF IInv, TypeOK, Slots
            <4>2. slots[i].from .. slots[i].to - 1 \subseteq 0 .. a - 1
                BY <4>1
            <4> QED
                BY <2>1, <3>1, <4>2
        <3> QED
            BY <3>1, <3>2, <3>3
    <2> QED
        BY <1>3, <2>1, <2>2 DEF Safe, Acked
<1> QED
    BY <1>1, <1>2, <1>3 DEF Heeds

LEMMA AckInvHolds == AcksAdvance => (Spec => []AckInv)
<1> SUFFICES ASSUME AcksAdvance PROVE Spec => []AckInv
    OBVIOUS
<1>1. Init /\ IInv => AckInv
    <2> SUFFICES ASSUME Init, IInv PROVE Acked /\ AckSound
        BY DEF AckInv
    <2>1. heard = 0 /\ rx_ack = 0 /\ \A i \in Index : ~slots[i].payload_valid
        BY DEF Init
    <2> QED
        BY <2>1, SeqAssumption DEF Acked, AckSound
<1>2. AckInv /\ IInv' /\ [Next]_vars => AckInv'
    <2> SUFFICES ASSUME AckInv, IInv', [Next]_vars PROVE Acked' /\ AckSound'
        BY DEF AckInv
    <2>1. CASE Still
        BY <2>1 DEF Still, AckInv, Acked, AckSound
    <2>2. CASE Moves
        <3>1. PICK base, ring, k : Heeds(base) /\ Fills(base, ring, k) /\ Becomes(ring, k)
            BY <2>2 DEF Moves
        <3>2. Safe(ring, got) /\ Acked'
            BY <3>1, HeedsSafe, FillsSafe
        <3> QED
            BY <2>2, <3>1, <3>2 DEF Moves, Becomes, Safe, AckSound
    <2> QED
        BY <2>1, <2>2, StepIs DEF AckInv
<1> QED
    BY <1>1, <1>2, TypeAndNumbers, PTL DEF Spec

(* With acks that advance, a slot is only marked when the client has every *)
(* byte of its segment: tcp_retransmit gives up on nothing the client      *)
(* lacks, through every wrap of the ring and of the sequence numbers.      *)
THEOREM MarkedArrived == AcksAdvance => (Spec => []AckSound)
<1>1. AckInv => AckSound
    BY DEF AckInv
<1> QED
    BY <1>1, AckInvHolds, PTL
-----------------------------------------------------------------------------
(* In the first lap what was acked is marked.                              *)

\* k slots are filled, in the order of the stream, and those that are not
\* marked end behind position h.
Lined(ring, k, h) ==
    k <= NBuf =>
        /\ k < NBuf => ring.cur = k
        /\ \A i \in Index : ring.slots[i].payload_valid => i < k
        /\ \A i, j \in Index :
              i < j /\ ring.slots[i].payload_valid /\ ring.slots[j].payload_valid =>
                 ring.slots[i].to < ring.slots[j].to
        /\ \A i \in Index : Unacked(ring.slots[i]) => ring.slots[i].to > h

LEMMA PutsLined ==
    ASSUME NEW ring, NEW n \in Nat, NEW next, Puts(ring, n, next), NEW k \in Nat, NEW h \in Nat,
           Lined(ring, k, h), h <= ring.written
    PROVE  Lined(next, k + 1, h) /\ h <= next.written
<1>1. /\ Sound(ring) /\ next.cur = (ring.cur + 1) % NBuf /\ next.written = ring.written + n
      /\ ring.written \in Nat /\ NBuf \in Nat \ {0} /\ ring.cur \in 0 .. NBuf - 1
      /\ \A i \in Index : ring.slots[i] \in Slots
    <2>1. Sound(ring) /\ next.cur = (ring.cur + 1) % NBuf /\ next.written = ring.written + n
        BY DEF Puts, Extended
    <2>2. ring.slots \in [Index -> Slots] /\ ring.cur \in Index /\ ring.written \in 0 .. MaxBytes
        BY <2>1 DEF Sound, Rings
    <2> QED
        BY <2>1, <2>2, BoundAssumption, RingAssumption DEF Index
<1>2. ASSUME NEW i \in Index
      PROVE  next.slots[i] = IF i = ring.cur THEN New(ring.written, n) ELSE ring.slots[i]
    BY DEF Puts, Extended
<1>3. h <= next.written
    BY <1>1
<1> SUFFICES ASSUME k + 1 <= NBuf
             PROVE  /\ k + 1 < NBuf => next.cur = k + 1
                    /\ \A i \in Index : next.slots[i].payload_valid => i < k + 1
                    /\ \A i, j \in Index :
                          i < j /\ next.slots[i].payload_valid /\ next.slots[j].payload_valid =>
                             next.slots[i].to < next.slots[j].to
                    /\ \A i \in Index : Unacked(next.slots[i]) => next.slots[i].to > h
    BY <1>3 DEF Lined
<1>4. /\ ring.cur = k
      /\ \A i \in Index : ring.slots[i].payload_valid => i < k
      /\ \A i, j \in Index :
            i < j /\ ring.slots[i].payload_valid /\ ring.slots[j].payload_valid =>
               ring.slots[i].to < ring.slots[j].to
      /\ \A i \in Index : Unacked(ring.slots[i]) => ring.slots[i].to > h
    <2>1. k <= NBuf /\ k < NBuf
        BY <1>1
    <2> QED
        BY <2>1 DEF Lined
<1>5. k + 1 < NBuf => next.cur = k + 1
    BY <1>1, <1>4, Small
\* The new slot is the last one, and ends behind all the others.
<1>6. ASSUME NEW i \in Index, next.slots[i].payload_valid
      PROVE  \/ i = k /\ next.slots[i].to = ring.written + n /\ n > 0
             \/ i < k /\ next.slots[i] = ring.slots[i] /\ next.slots[i].to <= ring.written
    <2>1. CASE i = k
        <3>1. next.slots[i] = New(ring.written, n)
            BY <1>2, <1>4, <2>1
        <3> QED
            BY <1>6, <2>1, <3>1, NewHolds
    <2>2. CASE i # k
        <3>1. next.slots[i] = ring.slots[i]
            BY <1>2, <1>4, <2>2
        <3> QED
            BY <1>1, <1>4, <1>6, <3>1 DEF Sound, Filled
    <2> QED
        BY <2>1, <2>2
<1>7. ASSUME NEW i \in Index, next.slots[i].payload_valid PROVE i < k + 1
    BY <1>6, <1>7 DEF Index
<1>8. ASSUME NEW i \in Index, NEW j \in Index, i < j,
             next.slots[i].payload_valid, next.slots[j].payload_valid
      PROVE  next.slots[i].to < next.slots[j].to
    <2>1. i \in Nat /\ j \in Nat /\ ring.slots[i].to \in Nat /\ ring.slots[j].to \in Nat
        BY <1>1, BoundAssumption DEF Index, Slots
    <2>2. i < k /\ next.slots[i] = ring.slots[i] /\ next.slots[i].to <= ring.written
        BY <1>6, <1>8, <2>1
    <2>3. CASE j = k
        <3>1. next.slots[j].to = ring.written + n /\ n > 0
            BY <1>6, <1>8, <2>1, <2>3
        <3> QED
            BY <1>1, <2>1, <2>2, <3>1
    <2>4. CASE j # k
        <3>1. next.slots[j] = ring.slots[j]
            BY <1>6, <1>8, <2>4
        <3> QED
            BY <1>4, <1>8, <2>2, <3>1
    <2> QED
        BY <2>3, <2>4
<1>9. ASSUME NEW i \in Index, Unacked(next.slots[i]) PROVE next.slots[i].to > h
    <2>1. next.slots[i].payload_valid
        BY <1>9 DEF Unacked
    <2>2. CASE i = k
        <3>1. next.slots[i].to = ring.written + n /\ n > 0
            BY <1>6, <2>1, <2>2
        <3> QED
            BY <1>1, <3>1
    <2>3. CASE i # k
        <3>1. next.slots[i] = ring.slots[i]
            BY <1>6, <2>1, <2>3
        <3> QED
            BY <1>4, <1>9, <3>1
    <2> QED
        BY <2>2, <2>3
<1> QED
    BY <1>5, <1>7, <1>8, <1>9

LineInv == AckInv /\ Lined(Ring, replies, heard)

LEMMA HeedsLined ==
    ASSUME LineInv, AcksAdvance, ShortStream, NEW base, Heeds(base)
    PROVE  /\ Lined(base, replies, heard') /\ heard' \in Nat /\ heard' <= base.written
<1>0. /\ IInv /\ Acked /\ Lined(Ring, replies, heard) /\ heard \in Nat /\ heard <= written
      /\ Ring.slots = slots /\ Ring.cur = cur /\ Ring.written = written
    BY BoundAssumption DEF LineInv, AckInv, Ring, IInv, TypeOK, Numbered
<1>1. CASE base = Ring /\ UNCHANGED <<rx_ack, heard>>
    BY <1>0, <1>1
\* Marking changes nothing about the order.
<1>2. ASSUME NEW ack, base = After(ack), NEW h \in Nat,
             \A i \in Index : Unacked(base.slots[i]) => base.slots[i].to > h \/ ~(replies <= NBuf)
      PROVE  Lined(base, replies, h)
    <2>1. /\ base.cur = cur
          /\ \A i \in Index : /\ base.slots[i].payload_valid = slots[i].payload_valid
                             /\ base.slots[i].to = slots[i].to
        BY <1>0, <1>2, AckMarks, AckKeeps DEF IInv
    <2> QED
        BY <1>0, <1>2, <2>1 DEF Lined
<1>3. ASSUME state = "LISTENING", UNCHANGED heard, NEW ack \in Strays, base = After(ack)
      PROVE  /\ Lined(base, replies, heard') /\ heard' \in Nat /\ heard' <= base.written
    <2>1. base.written = written
        BY <1>0, <1>3, AckKeeps
    <2>2. \A i \in Index : ~Unacked(base.slots[i])
        BY <1>0, <1>3, NothingYet, AckMarks, AckKeeps DEF IInv, Unacked
    <2> QED
        BY <1>0, <1>2, <1>3, <2>1, <2>2
<1>4. ASSUME NEW a \in Arrivals, base = After(SeqOf(a)), heard' = IF a > heard THEN a ELSE heard
      PROVE  /\ Lined(base, replies, heard') /\ heard' \in Nat /\ heard' <= base.written
    <2>1. /\ a \in 1 .. MaxBytes /\ a \in Nat /\ a <= written /\ heard' = a
          /\ base.written = written /\ base.slots = tcp_ack(SeqOf(a)) /\ TypeOK
        BY <1>0, <1>4, ArrivalIs, AckKeeps, BoundAssumption DEF IInv
    <2>2. ASSUME NEW i \in Index, Unacked(base.slots[i]), replies <= NBuf
          PROVE  base.slots[i].to > a
        <3>1. /\ slots[i].payload_valid /\ ~slots[i].ack_received
              /\ ~(Covers(SeqOf(a), slots[i]) /\ Visited(SeqOf(a), i))
              /\ base.slots[i].to = slots[i].to
            <4>1. /\ base.slots[i].payload_valid = slots[i].payload_valid
                  /\ base.slots[i].to = slots[i].to
                  /\ base.slots[i].ack_received =
                        (slots[i].ack_received \/ (Covers(SeqOf(a), slots[i]) /\ Visited(SeqOf(a), i)))
                BY <2>1, AckMarks
            <4>2. base.slots[i].payload_valid /\ ~base.slots[i].ack_received
                BY <2>2 DEF Unacked
            <4> QED
                BY <4>1, <4>2, Zenon
        <3>2. slots[i].to > heard /\ slots[i].to \in 0 .. MaxBytes
            BY <1>0, <2>1, <2>2, <3>1 DEF Lined, Unacked, TypeOK, Slots
        <3> SUFFICES ASSUME slots[i].to <= a PROVE FALSE
            BY <2>1, <3>1, <3>2, BoundAssumption
        <3>3. Covers(SeqOf(a), slots[i])
            <4>1. a > heard
                BY <1>0, ArrivalIs DEF AcksAdvance
            <4> QED
                BY <1>0, <3>1, <3>2, <4>1, CoversAll
        <3>4. PICK j \in Index : j < i /\ Covers(SeqOf(a), slots[j]) /\ slots[j].ending_seq = SeqOf(a)
            BY <3>1, <3>3 DEF Visited
        <3>5. /\ slots[j].payload_valid /\ slots[j].to < slots[i].to
              /\ SeqOf(slots[j].to) = SeqOf(a) /\ slots[j].to \in 1 .. MaxBytes
            <4>1. slots[j].payload_valid /\ slots[j].ending_seq = SeqOf(slots[j].to)
                  /\ slots[j].from < slots[j].to /\ slots[j].from \in 0 .. MaxBytes
                  /\ slots[j].to \in 0 .. MaxBytes
                BY <1>0, <3>4 DEF Covers, IInv, Written, Filled, TypeOK, Slots
            <4>2. slots[j].to < slots[i].to
                BY <1>0, <2>2, <3>1, <3>4, <4>1 DEF Lined
            <4>3. slots[j].to \in 1 .. MaxBytes
                BY <4>1, BoundAssumption
            <4> QED
                BY <3>4, <4>1, <4>2, <4>3
        <3>6. slots[j].to = a
            BY <2>1, <3>5, SeqDistinct
        <3> QED
            BY <2>1, <3>2, <3>5, <3>6, BoundAssumption
    <2>3. Lined(base, replies, a)
        BY <1>2, <1>4, <2>1, <2>2
    <2> QED
        BY <2>1, <2>3
<1> QED
    BY <1>1, <1>3, <1>4 DEF Heeds

LEMMA FillsLined ==
    ASSUME NEW base, NEW ring, NEW k, Fills(base, ring, k), NEW m \in Nat, NEW h \in Nat,
           Lined(base, m, h), h <= base.written
    PROVE  Lined(ring, m + k, h)
<1>1. CASE ring = base /\ k = 0
    BY <1>1
<1>2. ASSUME k = 1, NEW n \in Nat, Puts(base, n, ring) PROVE Lined(ring, m + k, h)
    BY <1>2, PutsLined
<1>3. ASSUME k = 2, NEW mid, NEW n \in Nat, Puts(base, 0, mid), Puts(mid, n, ring)
      PROVE  Lined(ring, m + k, h)
    <2>1. \A z \in Nat : Puts(base, z, mid) => Lined(mid, m + 1, h) /\ h <= mid.written
        BY PutsLined
    <2>2. Lined(mid, m + 1, h) /\ h <= mid.written /\ m + 1 \in Nat
        BY <1>3, <2>1
    <2>3. Lined(ring, (m + 1) + 1, h)
        BY <1>3, <2>2, PutsLined
    <2> QED
        BY <1>3, <2>3
<1> QED
    BY <1>1, <1>2, <1>3 DEF Fills

(* "Find the packets lower than or equal to seq and mark them as acked":   *)
(* until the ring comes round, no slot below the last ack is left          *)
(* unmarked, as long as the stream is shorter than the sequence numbers    *)
(* reach.                                                                  *)
THEOREM AckedMarked == AcksAdvance /\ ShortStream => (Spec => []AckComplete)
<1> SUFFICES ASSUME AcksAdvance, ShortStream PROVE Spec => []AckComplete
    OBVIOUS
<1>1. Init /\ AckInv => LineInv
    <2> SUFFICES ASSUME Init, AckInv PROVE Lined(Ring, replies, heard)
        BY DEF LineInv
    <2>1. cur = 0 /\ replies = 0 /\ \A i \in Index : ~slots[i].payload_valid
        BY DEF Init
    <2> QED
        BY <2>1 DEF Lined, Ring, Unacked
<1>2. LineInv /\ AckInv' /\ [Next]_vars => LineInv'
    <2> SUFFICES ASSUME LineInv, AckInv', [Next]_vars PROVE Lined(Ring, replies, heard)'
        BY DEF LineInv
    <2>0. IInv /\ replies \in Nat
        BY DEF LineInv, AckInv, IInv, TypeOK
    <2>1. CASE Still
        BY <2>1 DEF Still, LineInv, Lined, Ring, Unacked
    <2>2. CASE Moves
        <3>1. PICK base, ring, k : Heeds(base) /\ Fills(base, ring, k) /\ Becomes(ring, k)
            BY <2>2 DEF Moves
        <3>2. /\ Lined(base, replies, heard') /\ heard' \in Nat /\ heard' <= base.written
            BY <3>1, HeedsLined
        <3>3. Lined(ring, replies + k, heard')
            BY <2>0, <3>1, <3>2, FillsLined
        <3> QED
            BY <3>1, <3>3 DEF Becomes, Lined, Ring, Unacked
    <2> QED
        BY <2>0, <2>1, <2>2, StepIs
<1>3. LineInv => AckComplete
    BY DEF LineInv, Lined, Ring, AckComplete
<1> QED
    BY <1>1, <1>2, <1>3, AckInvHolds, PTL DEF Spec
-----------------------------------------------------------------------------
(* The ring implements ByteStream.                                         *)

LEMMA HeldIs == \A p : p \in Held <=> \E i \in Index : Unacked(slots[i]) /\ p \in slots[i].from .. slots[i].to - 1
BY DEF Held

LEMMA HeldNext ==
    \A p : p \in Held' <=> \E i \in Index : Unacked(slots'[i]) /\ p \in slots'[i].from .. slots'[i].to - 1
BY DEF Held, Unacked

\* A ring on the way from slots to slots': it holds what it held and what is
\* new, but for what the client has.
HeldBy(ring, p) == \E i \in Index : Unacked(ring.slots[i]) /\ p \in ring.slots[i].from .. ring.slots[i].to - 1

Keeps(ring) ==
    /\ \A p : p \in Held => HeldBy(ring, p) \/ p \in got
    /\ \A p : HeldBy(ring, p) => p \in Held \/ p \in written .. ring.written - 1
    /\ \A p \in written .. ring.written - 1 : HeldBy(ring, p)

\* The slot that is filled next has nothing that the client lacks.
Spares(ring) ==
    Unacked(ring.slots[ring.cur]) => ring.slots[ring.cur].from .. ring.slots[ring.cur].to - 1 \subseteq got

LEMMA PutsKeeps ==
    ASSUME NEW ring, NEW n \in Nat, NEW next, Puts(ring, n, next), Spares(ring), Keeps(ring),
           ring.written = written, written \in Nat
    PROVE  Keeps(next) /\ next.written = written + n
<1>1. next.written = written + n
    BY DEF Puts, Extended
<1>2. ASSUME NEW i \in Index
      PROVE  next.slots[i] = IF i = ring.cur THEN New(written, n) ELSE ring.slots[i]
    BY DEF Puts, Extended
<1>3. ring.cur \in Index
    BY DEF Puts, Sound, Rings
<1>4. n > 0 => Unacked(next.slots[ring.cur])
    BY <1>2, <1>3, NewHolds DEF Unacked
<1>5. next.slots[ring.cur].from = written /\ next.slots[ring.cur].to = written + n
    BY <1>2, <1>3, NewHolds
\* What the slot held the client has.
<1>6. ASSUME NEW p, p \in Held PROVE HeldBy(next, p) \/ p \in got
    <2>1. CASE p \in got
        BY <2>1
    <2>2. CASE HeldBy(ring, p)
        <3>1. PICK i \in Index : Unacked(ring.slots[i]) /\ p \in ring.slots[i].from .. ring.slots[i].to - 1
            BY <2>2 DEF HeldBy
        <3>2. CASE i = ring.cur
            BY <3>1, <3>2 DEF Spares
        <3>3. CASE i # ring.cur
            BY <1>2, <3>1, <3>3 DEF HeldBy
        <3> QED
            BY <3>2, <3>3
    <2> QED
        BY <1>6, <2>1, <2>2 DEF Keeps
<1>7. ASSUME NEW p, HeldBy(next, p) PROVE p \in Held \/ p \in written .. next.written - 1
    <2>1. PICK i \in Index : Unacked(next.slots[i]) /\ p \in next.slots[i].from .. next.slots[i].to - 1
        BY <1>7 DEF HeldBy
    <2>2. CASE i = ring.cur
        BY <1>1, <1>5, <2>1, <2>2
    <2>3. CASE i # ring.cur
        <3>1. HeldBy(ring, p)
            BY <1>2, <2>1, <2>3 DEF HeldBy
        <3>2. p \in Held \/ p \in written .. written - 1
            BY <3>1 DEF Keeps
        <3> QED
            BY <3>2
    <2> QED
        BY <2>2, <2>3
<1>8. ASSUME NEW p \in written .. next.written - 1 PROVE HeldBy(next, p)
    <2>1. n > 0 /\ p \in written .. (written + n) - 1
        BY <1>1
    <2> QED
        BY <1>3, <1>4, <1>5, <2>1 DEF HeldBy
<1> QED
    BY <1>1, <1>6, <1>7, <1>8 DEF Keeps

\* Once an ack has come, it is the one that is noted.
Noted == heard > 0 => rx_ack = SeqOf(heard)
NotedInv == IInv /\ Noted

LEMMA NotedHolds == Spec => []NotedInv
<1>1. Init /\ IInv => NotedInv
    BY DEF Init, NotedInv, Noted
<1>2. NotedInv /\ IInv' /\ [Next]_vars => NotedInv'
    <2> SUFFICES ASSUME NotedInv, IInv', [Next]_vars PROVE Noted'
        BY DEF NotedInv
    <2>0. IInv /\ Noted /\ heard \in Nat
        BY BoundAssumption DEF NotedInv, IInv, TypeOK
    <2>1. CASE Still
        BY <2>0, <2>1 DEF Still, Noted
    <2>2. CASE Moves
        <3>1. PICK base : Heeds(base)
            BY <2>2 DEF Moves
        <3>2. CASE UNCHANGED <<rx_ack, heard>>
            BY <2>0, <3>2 DEF Noted
        <3>3. CASE state = "LISTENING" /\ UNCHANGED heard
            BY <2>0, <3>3 DEF Noted, IInv, Numbered
        <3>4. ASSUME NEW a \in Arrivals, rx_ack' = SeqOf(a), heard' = IF a > heard THEN a ELSE heard
              PROVE  Noted'
            <4>1. heard' = a
                BY <2>0, <3>4, ArrivalIs
            <4> QED
                BY <3>4, <4>1 DEF Noted
        <3> QED
            BY <3>1, <3>2, <3>3, <3>4 DEF Heeds
    <2> QED
        BY <2>0, <2>1, <2>2, StepIs
<1> QED
    BY <1>1, <1>2, TypeAndNumbers, PTL DEF Spec

\* An ack that is neither the last one again nor the first one after a stray
\* marks what it is for.
LEMMA HeedsKeeps ==
    ASSUME NotedInv, NEW base, Heeds(base), ~Reheard, ~Misled
    PROVE  Keeps(base) /\ base.written = written
<1>0. IInv /\ Noted /\ TypeOK /\ written \in Nat /\ heard \in Nat
    BY BoundAssumption DEF NotedInv, IInv, TypeOK
<1>1. CASE base = Ring
    <2>1. base.slots = slots /\ base.written = written
        BY <1>1 DEF Ring
    <2> QED
        BY <1>0, <2>1, HeldIs DEF Keeps, HeldBy
<1>2. ASSUME NEW ack, base = After(ack),
             \A i \in Index : Unacked(slots[i]) /\ Covers(ack, slots[i]) =>
                                  slots[i].from .. slots[i].to - 1 \subseteq got
      PROVE  Keeps(base) /\ base.written = written
    <2>1. base.written = written /\ base.slots = tcp_ack(ack)
        BY <1>0, <1>2, AckKeeps
    <2>2. ASSUME NEW i \in Index
          PROVE  /\ base.slots[i].from = slots[i].from /\ base.slots[i].to = slots[i].to
                 /\ base.slots[i].payload_valid = slots[i].payload_valid
                 /\ slots[i].ack_received => base.slots[i].ack_received
                 /\ base.slots[i].ack_received => slots[i].ack_received \/ Covers(ack, slots[i])
        <3>1. base.slots[i].ack_received =
                  (slots[i].ack_received \/ (Covers(ack, slots[i]) /\ Visited(ack, i)))
            BY <1>0, <2>1, AckMarks
        <3>2. /\ slots[i].ack_received => base.slots[i].ack_received
              /\ base.slots[i].ack_received => slots[i].ack_received \/ Covers(ack, slots[i])
            BY <3>1, Zenon
        <3> QED
            BY <1>0, <2>1, <3>2, AckMarks
    <2>3. ASSUME NEW p, p \in Held PROVE HeldBy(base, p) \/ p \in got
        <3>1. PICK i \in Index : Unacked(slots[i]) /\ p \in slots[i].from .. slots[i].to - 1
            BY <2>3, HeldIs
        <3>2. CASE base.slots[i].ack_received
            BY <1>2, <2>2, <3>1, <3>2 DEF Unacked
        <3>3. CASE ~base.slots[i].ack_received
            BY <2>2, <3>1, <3>3 DEF HeldBy, Unacked
        <3> QED
            BY <3>2, <3>3
    <2>4. ASSUME NEW p, HeldBy(base, p) PROVE p \in Held
        BY <2>2, <2>4, HeldIs DEF HeldBy, Unacked
    <2>5. written .. base.written - 1 = {}
        BY <1>0, <2>1
    <2> QED
        BY <2>1, <2>3, <2>4, <2>5 DEF Keeps
<1>3. ASSUME state = "LISTENING", NEW ack, base = After(ack)
      PROVE  Keeps(base) /\ base.written = written
    <2>1. \A i \in Index : ~Unacked(slots[i])
        BY <1>0, <1>3, NothingYet DEF Unacked
    <2> QED
        BY <1>2, <1>3, <2>1
<1>4. ASSUME NEW a \in Arrivals, base = After(SeqOf(a)), heard' = (IF a > heard THEN a ELSE heard),
             a = heard => Reheard
      PROVE  Keeps(base) /\ base.written = written
    <2>1. a \in 1 .. MaxBytes /\ 0 .. a - 1 \subseteq got /\ a > heard /\ heard' > 0 /\ a \in Nat
        BY <1>0, <1>4, ArrivalIs, BoundAssumption
    <2>2. Acked
        BY <1>0, <2>1 DEF Acked, Noted, Misled
    <2>3. ASSUME NEW i \in Index, Covers(SeqOf(a), slots[i])
          PROVE  slots[i].from .. slots[i].to - 1 \subseteq got
        <3>1. slots[i].to <= a
            BY <1>0, <2>1, <2>2, <2>3, CoversOnly
        <3>2. slots[i].from \in Nat /\ slots[i].to \in Nat
            BY <1>0, BoundAssumption DEF TypeOK, Slots
        <3>3. slots[i].from .. slots[i].to - 1 \subseteq 0 .. a - 1
            BY <2>1, <3>1, <3>2
        <3> QED
            BY <2>1, <3>3
    <2> QED
        BY <1>2, <1>4, <2>3
<1> QED
    BY <1>1, <1>3, <1>4 DEF Heeds

\* What the ack leaves unmarked was unmarked.
LEMMA HeedsOnly ==
    ASSUME IInv, NEW base, Heeds(base), NEW i \in Index, Unacked(base.slots[i])
    PROVE  /\ Unacked(slots[i]) /\ base.cur = cur
           /\ base.slots[i].from = slots[i].from /\ base.slots[i].to = slots[i].to
<1>1. CASE base = Ring
    BY <1>1 DEF Ring
<1>2. ASSUME NEW ack, base = After(ack)
      PROVE  /\ Unacked(slots[i]) /\ base.cur = cur
             /\ base.slots[i].from = slots[i].from /\ base.slots[i].to = slots[i].to
    <2>1. base.slots = tcp_ack(ack) /\ base.cur = cur /\ TypeOK
        BY <1>2, AckKeeps DEF IInv
    <2>2. base.slots[i].ack_received =
              (slots[i].ack_received \/ (Covers(ack, slots[i]) /\ Visited(ack, i)))
        BY <2>1, AckMarks
    <2>3. slots[i].ack_received => base.slots[i].ack_received
        BY <2>2, Zenon
    <2>4. /\ base.slots[i].from = slots[i].from /\ base.slots[i].to = slots[i].to
          /\ base.slots[i].payload_valid = slots[i].payload_valid
        BY <2>1, AckMarks
    <2> QED
        BY <2>1, <2>3, <2>4 DEF Unacked
<1> QED
    BY <1>1, <1>2 DEF Heeds

LEMMA FillsKeeps ==
    ASSUME IInv, NEW base, NEW ring, NEW k, Heeds(base), Fills(base, ring, k), Becomes(ring, k),
           ~Overruns, Keeps(base), base.written = written
    PROVE  Keeps(ring) /\ \E n \in Nat : ring.written = written + n
<1>0. written \in Nat /\ replies \in Nat /\ cur \in 0 .. NBuf - 1 /\ NBuf \in Nat \ {0} /\ cur \in Index
    BY BoundAssumption, RingAssumption DEF IInv, TypeOK, Index
<1>1. CASE ring = base /\ k = 0
    BY <1>0, <1>1
\* The slots that are filled are those that Overruns is about.
<1>2. ASSUME NEW j \in Nat, k \in {1, 2}, j < k
      PROVE  (cur + j) % NBuf \in Refilled
    <2>1. replies' = replies + k
        BY DEF Becomes
    <2>2. j \in 0 .. replies' - replies - 1
        BY <1>0, <1>2, <2>1
    <2> QED
        BY <2>2 DEF Refilled
<1>3. ASSUME NEW i \in Refilled, i \in Index, Unacked(base.slots[i])
      PROVE  base.slots[i].from .. base.slots[i].to - 1 \subseteq got
    BY <1>3, HeedsOnly DEF Overruns
<1>4. ASSUME k \in {1, 2}, NEW n, NEW next, Puts(base, n, next) PROVE Spares(base)
    <2>1. base.cur \in Index
        BY <1>4 DEF Puts, Sound, Rings
    <2>2. (cur + 0) % NBuf \in Refilled /\ (cur + 0) % NBuf = cur
        BY <1>0, <1>2, <1>4, Small
    <2> QED
        BY <1>3, <2>1, <2>2, HeedsOnly DEF Spares
<1>5. ASSUME k = 1, NEW n \in Nat, Puts(base, n, ring)
      PROVE  Keeps(ring) /\ \E m \in Nat : ring.written = written + m
    <2>1. Spares(base)
        BY <1>4, <1>5
    <2> QED
        BY <1>0, <1>5, <2>1, PutsKeeps
<1>6. ASSUME k = 2, NEW mid, NEW n \in Nat, Puts(base, 0, mid), Puts(mid, n, ring)
      PROVE  Keeps(ring) /\ \E m \in Nat : ring.written = written + m
    <2>1. Spares(base)
        BY <1>4, <1>6
    <2>2. \A z \in Nat : Puts(base, z, mid) => Keeps(mid) /\ mid.written = written + z
        BY <1>0, <2>1, PutsKeeps
    <2>3. Keeps(mid) /\ mid.written = written
        BY <1>0, <1>6, <2>2
    <2>4. ASSUME Unacked(mid.slots[mid.cur])
          PROVE  mid.slots[mid.cur].from .. mid.slots[mid.cur].to - 1 \subseteq got
        <3> DEFINE i == mid.cur
        <3>1. /\ i \in Index /\ i = (base.cur + 1) % NBuf
              /\ mid.slots[i] = IF i = base.cur THEN New(base.written, 0) ELSE base.slots[i]
            BY <1>6 DEF Puts, Extended, Sound, Rings
        <3>2. mid.slots[i] = base.slots[i]
            BY <2>4, <3>1, NewHolds DEF Unacked
        <3>3. base.cur = cur
            BY <2>4, <3>1, <3>2, HeedsOnly
        <3>4. i \in Refilled
            BY <1>2, <1>6, <3>1, <3>3
        <3> QED
            BY <1>3, <2>4, <3>1, <3>2, <3>4
    <2> QED
        BY <1>0, <1>6, <2>3, <2>4, PutsKeeps DEF Spares
<1> QED
    BY <1>1, <1>5, <1>6 DEF Fills

(* Whatever the pace of the client and whatever acks it repeats, and       *)
(* whatever reached the socket before it: each step is one of ByteStream   *)
(* or changes nothing there, but for the steps that LosesNothingElse names *)
(* (filling a slot with bytes the client lacks, taking the last ack again, *)
(* taking the first one when a stray one ahead of it is noted).            *)
THEOREM NothingElseLost == Spec => LosesNothingElse
<1>1. NotedInv /\ IInv' /\ [Next]_vars =>
          Stream!Next \/ UNCHANGED Stream!vars \/ Overruns \/ Reheard \/ Misled
    <2> SUFFICES ASSUME NotedInv, IInv', [Next]_vars, ~Overruns, ~Reheard, ~Misled
                 PROVE  Stream!Next
        OBVIOUS
    <2>0. IInv /\ written \in Nat /\ written \in 0 .. MaxBytes
        BY BoundAssumption DEF NotedInv, IInv, TypeOK
    <2>1. CASE Still
        <3>1. Held' = Held
            BY <2>1, HeldIs, HeldNext DEF Still
        <3>2. got' \subseteq 0 .. written - 1
            BY <2>1 DEF Still, IInv, Written
        <3> QED
            BY <2>1, <3>1, <3>2 DEF Still, Stream!Next, Stream!Arrive
    <2>2. CASE Moves
        <3>1. PICK base, ring, k : Heeds(base) /\ Fills(base, ring, k) /\ Becomes(ring, k)
            BY <2>2 DEF Moves
        <3>2. Keeps(ring) /\ \E n \in Nat : ring.written = written + n
            BY <2>0, <3>1, HeedsKeeps, FillsKeeps
        <3>3. PICK n \in Nat : written' = written + n
            BY <3>1, <3>2 DEF Becomes
        <3>4. \A p : p \in Held' <=> HeldBy(ring, p)
            BY <3>1, HeldNext DEF Becomes, HeldBy
        <3>5. /\ Held \ Held' \subseteq got
              /\ Held' \subseteq Held \cup (written .. written' - 1)
              /\ written .. written' - 1 \subseteq Held'
            BY <3>1, <3>2, <3>4 DEF Keeps, Becomes
        <3>6. written' \in 0 .. MaxBytes /\ got' = got
            BY <2>2 DEF IInv, TypeOK, Moves
        <3>7. CASE n = 0
            <4>1. written' = written /\ written .. written' - 1 = {}
                BY <2>0, <3>3, <3>7
            <4> QED
                BY <3>5, <3>6, <4>1 DEF Stream!Next, Stream!Release
        <3>8. CASE n # 0
            <4>1. written' \in written + 1 .. MaxBytes
                BY <2>0, <3>3, <3>6, <3>8, BoundAssumption
            <4> QED
                BY <3>5, <3>6, <4>1 DEF Stream!Next, Stream!Write
        <3> QED
            BY <3>7, <3>8
    <2> QED
        BY <2>0, <2>1, <2>2, StepIs
<1> QED
    BY <1>1, NotedHolds, TypeAndNumbers, PTL DEF Spec, LosesNothingElse

(* A behaviour without such steps implements ByteStream.                   *)
THEOREM RingImplementsStream == Spec /\ [][~(Overruns \/ Reheard \/ Misled)]_vars => ImplementsStream
<1>1. Init => Stream!Init
    <2> SUFFICES ASSUME Init PROVE Stream!Init
        OBVIOUS
    <2>1. \A i \in Index : ~Unacked(slots[i])
        BY DEF Init, Unacked
    <2>2. Held = {}
        BY <2>1, HeldIs
    <2> QED
        BY <2>2 DEF Init, Stream!Init
<1>2. /\ [Stream!Next \/ UNCHANGED Stream!vars \/ Overruns \/ Reheard \/ Misled]_vars
      /\ [~(Overruns \/ Reheard \/ Misled)]_vars
      => [Stream!Next]_(Stream!vars)
    <2>1. UNCHANGED vars => UNCHANGED Stream!vars
        BY HeldIs, HeldNext DEF vars, sender, client, Stream!vars
    <2> QED
        BY <2>1
<1> QED
    BY <1>1, <1>2, NothingElseLost, PTL DEF Spec, LosesNothingElse, ImplementsStream, Stream!Spec
=============================================================================
