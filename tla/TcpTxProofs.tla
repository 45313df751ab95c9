----------------------------- MODULE TcpTxProofs -----------------------------
(***************************************************************************)
(* Proofs about TcpTx: the callers of tcp_reply that mask the Ethernet     *)
(* interrupt exclude the handler, and until the handler replies inside a   *)
(* call of one that does not, the slots describe their packets and no two  *)
(* payloads have the same sequence number.  For every size of the ring and *)
(* any number of calls.                                                    *)
(***************************************************************************)
EXTENDS TcpTx, TLAPS

(***************************************************************************)
(* The type.                                                               *)
(***************************************************************************)

\* What is sent from a slot is a frame.
LEMMA FrameOfType ==
    ASSUME TypeOK, NEW b \in Index, NEW c \in Index
    PROVE  FrameOf(b, c) \in Frame
BY RingAssumption DEF TypeOK, FrameOf, Frame, Slots

\* The next slot is a slot.
LEMMA AfterType == ASSUME NEW i \in Index PROVE After(i) \in Index
BY RingAssumption DEF After, Index

\* No slot is sent from before the first call, and none is marked as sent.
LEMMA TypeStart == Init => TypeOK
<1> SUFFICES ASSUME Init PROVE TypeOK
    OBVIOUS
<1>1. 0 \in Index /\ 0 \in 0 .. NBuf /\ 1 \in 1 .. NBuf
    BY RingAssumption DEF Index
<1>2. slots \in [Index -> Slots]
    BY <1>1 DEF Init, Slots
<1>3. NoFrame \in Frame
    BY <1>1 DEF NoFrame, Frame
<1>4. call \in Call
    BY <1>1 DEF Init, Call
<1> QED
    BY <1>1, <1>2, <1>3, <1>4, RingAssumption DEF Init, TypeOK

\* tcp_reply in the main loop keeps the type.
LEMMA TypeReply == TypeOK /\ Reply => TypeOK'
<1> SUFFICES ASSUME TypeOK, Reply PROVE TypeOK'
    OBVIOUS
<1> USE DEF TypeOK, Main, ring, mac, dma, main, count, notes
<1>1. CASE \E len \in {0, 1}, masks \in BOOLEAN : CallReply(len, masks)
    <2>1. PICK len \in {0, 1}, masks \in BOOLEAN : CallReply(len, masks)
        BY <1>1
    <2>2. calls + 1 \in 1 .. NBuf
        BY <2>1, RingAssumption, BoundAssumption DEF CallReply
    <2>3. call' \in Call
        BY <2>1, <2>2 DEF CallReply, Call
    <2> QED
        BY <2>1, <2>2, <2>3 DEF CallReply
<1>2. CASE CopyPayload
    <2>1. call.id \in 0 .. NBuf
        BY RingAssumption DEF Call
    <2>2. slots' \in [Index -> Slots]
        BY <1>2, <2>1 DEF CopyPayload, Slots
    <2> QED
        BY <1>2, <2>2 DEF CopyPayload
<1>3. CASE SetValid
    <2>1. (call.len > 0) \in BOOLEAN
        OBVIOUS
    <2>2. slots' \in [Index -> Slots]
        BY <1>3, <2>1 DEF SetValid, Slots
    <2> QED
        BY <1>3, <2>2 DEF SetValid
<1>4. CASE LoadSeq
    BY <1>4 DEF LoadSeq
<1>5. CASE StoreSeq
    <2>1. tx_seq' \in Nat
        BY <1>5 DEF StoreSeq, Call
    <2>2. slots' \in [Index -> Slots]
        BY <1>5 DEF StoreSeq, Slots
    <2> QED
        BY <1>5, <2>1, <2>2 DEF StoreSeq
<1>6. CASE Book
    <2>1. call.len \in Nat /\ seq + call.len \in Nat
        BY DEF Call
    <2>2. slots' \in [Index -> Slots]
        <3>1. [slots[cur] EXCEPT !.starting_seq = seq, !.ending_seq = seq + call.len,
                                 !.len_bytes = call.len] \in Slots
            BY <2>1 DEF Slots
        <3>2. slots' = [slots EXCEPT ![cur] =
                  [slots[cur] EXCEPT !.starting_seq = seq, !.ending_seq = seq + call.len,
                                     !.len_bytes = call.len]]
            BY <1>6 DEF Book
        <3> QED
            BY <3>1, <3>2
    <2> QED
        BY <1>6, <2>2 DEF Book
<1>7. CASE Copy
    BY <1>7, FrameOfType DEF Copy
<1>8. CASE Start
    BY <1>8, FrameOfType DEF Start
<1>9. CASE NextSlot
    BY <1>9, AfterType DEF NextSlot
<1> QED
    BY <1>1, <1>2, <1>3, <1>4, <1>5, <1>6, <1>7, <1>8, <1>9 DEF Reply

\* So do the other steps.
LEMMA TypeOthers ==
    TypeOK /\ (Retransmit \/ Handler \/ MacBegins \/ MacEnds \/ UNCHANGED vars) => TypeOK'
<1> SUFFICES ASSUME TypeOK,
                    Retransmit \/ Handler \/ MacBegins \/ MacEnds \/ UNCHANGED vars
             PROVE  TypeOK'
    OBVIOUS
<1> USE DEF TypeOK, Main, ring, mac, dma, main, count, notes
<1>1. CASE \E i \in Index : Choose(i)
    BY <1>1 DEF Choose
<1>2. CASE Mask
    BY <1>2 DEF Mask
<1>3. CASE Resend
    BY <1>3, FrameOfType DEF Resend
<1>4. CASE Restart
    BY <1>4, FrameOfType DEF Restart
<1>5. CASE Interrupt \/ Return
    BY <1>5 DEF Interrupt, Return
<1>6. CASE \E len \in {0, 1} : IsrReply(len)
    <2>1. PICK len \in {0, 1} : IsrReply(len)
        BY <1>6
    <2>2. calls + 1 \in 0 .. NBuf /\ tx_seq + len \in Nat /\ len \in Nat
        BY <2>1, RingAssumption, BoundAssumption DEF IsrReply
    <2>3. 0 \in 0 .. NBuf /\ slots[cur].data \in 0 .. NBuf
        BY RingAssumption DEF Slots
    <2>4. slots' \in [Index -> Slots]
        BY <2>1, <2>2, <2>3 DEF IsrReply, Slots
    <2>5. txbuf' \in Frame
        BY <2>1, <2>2, <2>3 DEF IsrReply, Frame
    <2>6. torn' \in BOOLEAN /\ early' \in BOOLEAN
        BY <2>1 DEF IsrReply
    <2> QED
        BY <2>1, <2>2, <2>4, <2>5, <2>6 DEF IsrReply
<1>7. CASE IsrStart
    BY <1>7, FrameOfType, AfterType DEF IsrStart
<1>8. CASE MacBegins \/ MacEnds
    BY <1>8 DEF MacBegins, MacEnds
<1>9. CASE UNCHANGED vars
    BY <1>9 DEF vars
<1> QED
    BY <1>1, <1>2, <1>3, <1>4, <1>5, <1>6, <1>7, <1>8, <1>9 DEF Retransmit, Handler

\* The state is always well formed, for every size of the ring.
THEOREM TypeCorrect == Spec => []TypeOK
<1>1. TypeOK /\ [Next]_vars => TypeOK'
    BY TypeReply, TypeOthers DEF Next
<1> QED
    BY <1>1, TypeStart, PTL DEF Spec
-----------------------------------------------------------------------------
(***************************************************************************)
(* Exclusion.  The mask is what connects the two: the callers in question  *)
(* hold it throughout, and the handler does not start under it.            *)
(***************************************************************************)
MaskInv ==
    /\ InCall /\ (pc \in {"resend", "restart"} \/ call.masks) => masked
    /\ masked => isr = "off"

\* Every step keeps the mask and the handler apart.
LEMMA MaskKeeps == TypeOK /\ MaskInv /\ [Next]_vars => MaskInv'
<1> SUFFICES ASSUME TypeOK, MaskInv, [Next]_vars PROVE MaskInv'
    OBVIOUS
<1> USE DEF MaskInv, InCall, Main, ring, mac, dma, main, count, notes
<1>1. CASE \E len \in {0, 1}, masks \in BOOLEAN : CallReply(len, masks)
    BY <1>1 DEF CallReply
<1>2. CASE CopyPayload \/ SetValid \/ LoadSeq \/ StoreSeq \/ Book \/ Copy \/ Start \/ NextSlot
    BY <1>2 DEF CopyPayload, SetValid, LoadSeq, StoreSeq, Book, Copy, Start, NextSlot
<1>3. CASE Retransmit
    BY <1>3 DEF Retransmit, Choose, Mask, Resend, Restart
<1>4. CASE Handler
    BY <1>4 DEF Handler, Interrupt, IsrReply, IsrStart, Return
<1>5. CASE MacBegins \/ MacEnds \/ UNCHANGED vars
    BY <1>5 DEF MacBegins, MacEnds, vars
<1> QED
    BY <1>1, <1>2, <1>3, <1>4, <1>5 DEF Next, Reply
-----------------------------------------------------------------------------
(***************************************************************************)
(* The ring.  Between SetValid and Book the current slot is neither what   *)
(* it was nor what it will be; all others are settled, with numbers below  *)
(* the one that the call has taken.  The handler changes none of this      *)
(* unless it replies inside the call.                                      *)
(***************************************************************************)
Building == {"load", "store", "book"}
Settled(i) == slots[i].payload_valid /\ ~(i = cur /\ pc \in Building)

Described(i) ==
    /\ slots[i].seq = slots[i].starting_seq
    /\ slots[i].ending_seq = slots[i].seq + slots[i].len_bytes

\* The numbers that a later packet gets are above this one.
Fresh == IF pc = "book" THEN seq ELSE tx_seq

Slotted ==
    /\ \A i \in Index : Settled(i) => Described(i) /\ slots[i].starting_seq < Fresh
    /\ \A i, j \in Index :
          i # j /\ Settled(i) /\ Settled(j) => slots[i].starting_seq # slots[j].starting_seq

\* Where the call has got to, and that the handler is not in a reply.
Stage ==
    /\ InCall => isr # "wait"
    /\ pc \in {"payload", "valid"} \cup Building => buf = cur
    /\ pc \in Building => slots[cur].payload_valid = (call.len > 0)
    /\ pc = "store" => seq = tx_seq
    /\ pc = "book" => slots[cur].seq = seq /\ tx_seq = seq + call.len

OrderInv == ~torn => Slotted /\ Stage

\* tcp_reply in the main loop.
LEMMA OrderReply == TypeOK /\ OrderInv /\ Reply => OrderInv'
<1> SUFFICES ASSUME TypeOK, OrderInv, Reply, ~torn' PROVE Slotted' /\ Stage'
    BY DEF OrderInv
<1> USE DEF Main, ring, mac, dma, main, count, notes
<1>0. ~torn /\ torn' = torn /\ Slotted /\ Stage
    BY DEF OrderInv, Reply, CallReply, CopyPayload, SetValid, LoadSeq, StoreSeq, Book,
           Copy, Start, NextSlot
<1>t. /\ cur \in Index /\ tx_seq \in Nat /\ seq \in Nat /\ call.len \in {0, 1}
      /\ slots \in [Index -> Slots] /\ torn \in BOOLEAN
    BY DEF TypeOK, Call
<1>1. CASE \E len \in {0, 1}, masks \in BOOLEAN : CallReply(len, masks)
    <2>1. Stage'
        BY <1>1 DEF Stage, CallReply, Building
    <2> QED
        BY <1>0, <1>1, <2>1 DEF CallReply, Slotted, Settled, Described, Fresh, Building
<1>2. CASE CopyPayload
    <2>1. \A i \in Index : /\ slots'[i].payload_valid = slots[i].payload_valid
                           /\ slots'[i].seq = slots[i].seq
                           /\ slots'[i].starting_seq = slots[i].starting_seq
                           /\ slots'[i].ending_seq = slots[i].ending_seq
                           /\ slots'[i].len_bytes = slots[i].len_bytes
        BY <1>2, <1>t DEF CopyPayload, Slots
    <2>2. Stage'
        BY <1>0, <1>2 DEF CopyPayload, Stage, Building, InCall
    <2> QED
        BY <1>0, <1>2, <2>1, <2>2 DEF CopyPayload, Slotted, Settled, Described, Fresh, Building
<1>3. CASE SetValid
    <2>1. \A i \in Index : i # cur => slots'[i] = slots[i]
        BY <1>3, <1>t DEF SetValid
    <2>2. slots'[cur].payload_valid = (call.len > 0)
        BY <1>3, <1>t DEF SetValid, Slots
    <2>3. Stage'
        BY <1>0, <1>3, <2>2 DEF SetValid, Stage, Building, InCall
    <2> QED
        BY <1>0, <1>3, <2>1, <2>3 DEF SetValid, Slotted, Settled, Described, Fresh, Building
<1>4. CASE LoadSeq
    <2>1. Stage'
        BY <1>0, <1>4 DEF LoadSeq, Stage, Building, InCall
    <2> QED
        BY <1>0, <1>4, <2>1 DEF LoadSeq, Slotted, Settled, Described, Fresh, Building
<1>5. CASE StoreSeq
    <2>1. buf = cur /\ seq = tx_seq
        BY <1>0, <1>5 DEF StoreSeq, Stage, Building
    <2>2. \A i \in Index : i # cur => slots'[i] = slots[i]
        BY <1>5, <1>t, <2>1 DEF StoreSeq
    <2>3. slots'[cur].seq = seq /\ slots'[cur].payload_valid = slots[cur].payload_valid
        BY <1>5, <1>t, <2>1 DEF StoreSeq, Slots
    <2>4. Stage'
        BY <1>0, <1>5, <2>3 DEF StoreSeq, Stage, Building, InCall
    <2> QED
        BY <1>0, <1>5, <2>1, <2>2, <2>4 DEF StoreSeq, Slotted, Settled, Described, Fresh, Building
<1>6. CASE Book
    <2>1. \A i \in Index : i # cur => slots'[i] = slots[i]
        BY <1>6, <1>t DEF Book
    <2>2. /\ slots'[cur].starting_seq = seq /\ slots'[cur].ending_seq = seq + call.len
          /\ slots'[cur].len_bytes = call.len /\ slots'[cur].seq = slots[cur].seq
          /\ slots'[cur].payload_valid = slots[cur].payload_valid
        BY <1>6, <1>t DEF Book, Slots
    <2>3. /\ slots[cur].seq = seq /\ slots[cur].payload_valid = (call.len > 0)
          /\ tx_seq = seq + call.len
        BY <1>0, <1>6 DEF Book, Stage, Building
    <2>4. \A i \in Index : i # cur /\ slots[i].payload_valid =>
              Described(i) /\ slots[i].starting_seq < seq /\ slots[i].starting_seq \in Nat
        BY <1>0, <1>6, <1>t DEF Book, Slotted, Settled, Fresh, Slots
    <2>5. Stage'
        BY <1>0, <1>6 DEF Book, Stage, Building, InCall
    <2>6. \A i \in Index : Settled(i)' => Described(i)' /\ slots'[i].starting_seq < Fresh'
        <3> SUFFICES ASSUME NEW i \in Index, Settled(i)'
                     PROVE  Described(i)' /\ slots'[i].starting_seq < Fresh'
            OBVIOUS
        <3>1. CASE i = cur
            BY <1>6, <1>t, <2>2, <2>3, <3>1 DEF Book, Settled, Described, Fresh
        <3>2. CASE i # cur
            BY <1>6, <1>t, <2>1, <2>3, <2>4, <3>2 DEF Book, Settled, Described, Fresh
        <3> QED
            BY <3>1, <3>2
    <2>7. \A i, j \in Index :
              i # j /\ Settled(i)' /\ Settled(j)' => slots'[i].starting_seq # slots'[j].starting_seq
        BY <1>0, <1>6, <1>t, <2>1, <2>2, <2>4 DEF Book, Slotted, Settled
    <2> QED
        BY <2>5, <2>6, <2>7 DEF Slotted
<1>7. CASE Copy \/ Start \/ NextSlot
    <2>1. Stage'
        BY <1>0, <1>7 DEF Copy, Start, NextSlot, Stage, Building, InCall
    <2> QED
        BY <1>0, <1>7, <2>1
           DEF Copy, Start, NextSlot, Slotted, Settled, Described, Fresh, Building
<1> QED
    BY <1>1, <1>2, <1>3, <1>4, <1>5, <1>6, <1>7 DEF Reply

\* A reply of the handler outside the calls of the main loop.
LEMMA OrderIsrReply ==
    ASSUME TypeOK, OrderInv, NEW len \in {0, 1}, IsrReply(len)
    PROVE  OrderInv'
<1> SUFFICES ASSUME ~torn' PROVE Slotted' /\ Stage'
    BY DEF OrderInv
<1> USE DEF IsrReply, main
<1>1. ~torn /\ ~InCall /\ Slotted /\ Stage
    BY DEF OrderInv, TypeOK
<1>2. /\ cur \in Index /\ tx_seq \in Nat /\ slots \in [Index -> Slots]
    BY DEF TypeOK
<1>3. pc \in {"idle", "mask"}
    BY <1>1 DEF InCall
<1>4. Stage'
    BY <1>3 DEF Stage, InCall, Building
<1>5. \A i \in Index : i # cur => slots'[i] = slots[i]
    BY <1>2
<1>6. /\ slots'[cur].payload_valid = (len > 0)
      /\ slots'[cur].starting_seq = tx_seq /\ slots'[cur].seq = tx_seq
      /\ slots'[cur].ending_seq = tx_seq + len /\ slots'[cur].len_bytes = len
    BY <1>2
<1>7. \A i \in Index : i # cur /\ slots[i].payload_valid =>
          Described(i) /\ slots[i].starting_seq < tx_seq /\ slots[i].starting_seq \in Nat
    BY <1>1, <1>2, <1>3 DEF Slotted, Settled, Fresh, Building, Slots
<1>8. Fresh' = tx_seq + len
    BY <1>3 DEF Fresh
<1>9. \A i \in Index : Settled(i)' => Described(i)' /\ slots'[i].starting_seq < Fresh'
    <2> SUFFICES ASSUME NEW i \in Index, Settled(i)'
                 PROVE  Described(i)' /\ slots'[i].starting_seq < Fresh'
        OBVIOUS
    <2>1. CASE i = cur
        <3>1. len > 0
            BY <1>6, <2>1 DEF Settled
        <3> QED
            BY <1>2, <1>6, <1>8, <2>1, <3>1 DEF Described
    <2>2. CASE i # cur
        BY <1>2, <1>5, <1>7, <1>8, <2>2 DEF Settled, Described
    <2> QED
        BY <2>1, <2>2
<1>10. \A i, j \in Index :
           i # j /\ Settled(i)' /\ Settled(j)' => slots'[i].starting_seq # slots'[j].starting_seq
    BY <1>1, <1>2, <1>3, <1>5, <1>6, <1>7 DEF Slotted, Settled, Building
<1> QED
    BY <1>4, <1>9, <1>10 DEF Slotted

\* The other steps do not write to the slots.
LEMMA OrderOthers ==
    /\ TypeOK /\ OrderInv
    /\ Retransmit \/ Interrupt \/ IsrStart \/ Return \/ MacBegins \/ MacEnds \/ UNCHANGED vars
    => OrderInv'
<1> SUFFICES ASSUME TypeOK, OrderInv, ~torn',
                    \/ Retransmit \/ Interrupt \/ IsrStart \/ Return
                    \/ MacBegins \/ MacEnds \/ UNCHANGED vars
             PROVE  Slotted' /\ Stage'
    BY DEF OrderInv
<1> USE DEF Main, ring, mac, dma, main, count, notes
<1>1. slots' = slots /\ tx_seq' = tx_seq /\ call' = call /\ seq' = seq /\ torn' = torn
    BY DEF Retransmit, Choose, Mask, Resend, Restart, Interrupt, IsrStart, Return, MacBegins,
           MacEnds, vars
<1>2. ~torn /\ Slotted /\ Stage
    BY <1>1 DEF OrderInv
<1>3. CASE Retransmit \/ IsrStart
    <2>1. pc \notin Building \cup {"payload", "valid"} /\ pc' \notin Building \cup {"payload", "valid"}
        BY <1>2, <1>3 DEF Retransmit, Choose, Mask, Resend, Restart, IsrStart, Stage, InCall,
                          Building
    <2>2. InCall' => isr' # "wait"
        BY <1>2, <1>3 DEF Retransmit, Choose, Mask, Resend, Restart, IsrStart, Stage, InCall
    <2> QED
        BY <1>1, <1>2, <2>1, <2>2 DEF Slotted, Stage, Settled, Described, Fresh, Building
<1>4. CASE Interrupt \/ Return \/ MacBegins \/ MacEnds \/ UNCHANGED vars
    <2>1. pc' = pc /\ buf' = buf /\ cur' = cur /\ (isr' = "wait" => isr = "wait")
        BY <1>4 DEF Interrupt, Return, MacBegins, MacEnds, vars
    <2> QED
        BY <1>1, <1>2, <2>1 DEF Slotted, Stage, Settled, Described, Fresh, Building, InCall
<1> QED
    BY <1>3, <1>4
-----------------------------------------------------------------------------
(* The callers that mask the interrupt keep the handler out; and until it  *)
(* replies inside another call, every slot with a payload says of its      *)
(* packet what the packet says itself, and has a number of its own.        *)
THEOREM RingHolds == Spec => []RingInv
<1> DEFINE IInv == TypeOK /\ MaskInv /\ OrderInv
<1>1. Init => IInv
    BY TypeStart DEF Init, MaskInv, OrderInv, Slotted, Stage, Settled, InCall, Building, Index
<1>2. IInv /\ [Next]_vars => IInv'
    <2>1. TypeOK /\ [Next]_vars => TypeOK'
        BY TypeReply, TypeOthers DEF Next
    <2>2. TypeOK /\ OrderInv /\ [Next]_vars => OrderInv'
        BY OrderReply, OrderIsrReply, OrderOthers DEF Next, Handler
    <2> QED
        BY <2>1, <2>2, MaskKeeps
<1>3. IInv => RingInv
    <2> SUFFICES ASSUME IInv PROVE RingInv
        OBVIOUS
    <2>1. SlotsDescribe
        BY DEF OrderInv, Slotted, Settled, Described, Building, SlotsDescribe
    <2>2. SeqsDistinct
        BY DEF OrderInv, Slotted, Settled, Building, SeqsDistinct
    <2>3. Exclusion
        BY DEF MaskInv, Exclusion
    <2> QED
        BY <2>1, <2>2, <2>3 DEF RingInv
<1> QED
    BY <1>1, <1>2, <1>3, PTL DEF Spec
-----------------------------------------------------------------------------
(***************************************************************************)
(* The wire.  While no copy was made over a frame that had not left, the   *)
(* transmit buffer holds the frame of whoever waits to set the ready bit,  *)
(* and then the one that was due, until it has left.                       *)
(***************************************************************************)
Buffered ==
    /\ FramesIntact
    /\ ready => txbuf = due
    /\ sending => half = due
    /\ pc = "start" => txbuf = FrameOf(buf, cur)
    /\ pc = "restart" => txbuf = FrameOf(buf, buf)
    /\ isr = "wait" => txbuf = FrameOf(cur, cur)

WireInv == early \/ torn \/ Buffered

\* Every step keeps what is due in the transmit buffer, or is early or torn.
LEMMA WireKeeps == TypeOK /\ OrderInv /\ WireInv /\ [Next]_vars => WireInv'
<1> SUFFICES ASSUME TypeOK, OrderInv, WireInv, [Next]_vars, ~early', ~torn'
             PROVE  Buffered'
    BY DEF WireInv
<1> USE DEF Main, ring, mac, dma, main, count, notes
<1>0. (early => early') /\ (torn => torn')
    <2>1. CASE Copy \/ Resend
        <3>1. early' = (early \/ ready)
            BY <2>1 DEF Copy, Resend
        <3>2. torn' = torn
            BY <2>1 DEF Copy, Resend
        <3> QED
            BY <3>1, <3>2, Zenon
    <2>2. CASE \E len \in {0, 1} : IsrReply(len)
        BY <2>2, Zenon DEF IsrReply
    <2>3. CASE ~(Copy \/ Resend \/ \E len \in {0, 1} : IsrReply(len))
        <3>1. early' = early /\ torn' = torn
            BY <2>3 DEF Next, Reply, Retransmit, Handler, CallReply, CopyPayload, SetValid,
                        LoadSeq, StoreSeq, Book, Start, NextSlot, Choose, Mask, Restart,
                        Interrupt, IsrStart, Return, MacBegins, MacEnds, vars
        <3> QED
            BY <3>1
    <2> QED
        BY <2>1, <2>2, <2>3
<1>t. /\ Buffered /\ (InCall => isr # "wait")
      /\ slots \in [Index -> Slots] /\ cur \in Index /\ (sending => ready)
    BY <1>0 DEF WireInv, OrderInv, Stage, TypeOK
<1> USE DEF Buffered, FramesIntact
<1>1. CASE (\E len \in {0, 1}, masks \in BOOLEAN : CallReply(len, masks))
           \/ CopyPayload \/ SetValid \/ LoadSeq \/ StoreSeq \/ Book \/ NextSlot
    BY <1>t, <1>1 DEF CallReply, CopyPayload, SetValid, LoadSeq, StoreSeq, Book, NextSlot
<1>2. CASE Copy
    <2>1. ~ready /\ ready' = ready
        BY <1>2 DEF Copy
    <2> QED
        BY <1>t, <1>2, <2>1 DEF Copy, FrameOf
<1>3. CASE Start
    BY <1>t, <1>3 DEF Start, FrameOf
<1>4. CASE (\E i \in Index : Choose(i)) \/ Mask
    BY <1>t, <1>4 DEF Choose, Mask
<1>5. CASE Resend
    <2>1. ~ready /\ ready' = ready
        BY <1>5 DEF Resend
    <2> QED
        BY <1>t, <1>5, <2>1 DEF Resend, FrameOf
<1>6. CASE Restart
    BY <1>t, <1>6 DEF Restart, FrameOf
<1>7. CASE \E len \in {0, 1} : IsrReply(len)
    <2>1. PICK len \in {0, 1} : IsrReply(len)
        BY <1>7
    <2>2. ~ready /\ ready' = ready /\ pc' = pc /\ cur' = cur /\ ~InCall
        BY <2>1 DEF IsrReply
    <2>3. txbuf' = FrameOf(cur, cur)'
        BY <1>t, <2>1, <2>2 DEF IsrReply, FrameOf, Slots
    <2> QED
        BY <1>t, <2>1, <2>2, <2>3 DEF IsrReply, InCall
<1>8. CASE IsrStart
    <2>1. pc' = pc /\ pc \notin {"start", "restart"} /\ isr' # "wait"
        BY <1>t, <1>8 DEF IsrStart, InCall
    <2>2. sending' = sending /\ ~sending /\ wire' = wire /\ txbuf' = due'
        BY <1>t, <1>8 DEF IsrStart
    <2> QED
        BY <1>t, <2>1, <2>2
<1>9. CASE Interrupt \/ Return
    BY <1>t, <1>9 DEF Interrupt, Return, FrameOf
<1>10. CASE MacBegins \/ MacEnds
    BY <1>t, <1>10 DEF MacBegins, MacEnds, FrameOf
<1>11. CASE UNCHANGED vars
    BY <1>t, <1>11 DEF vars, FrameOf
<1> QED
    BY <1>1, <1>2, <1>3, <1>4, <1>5, <1>6, <1>7, <1>8, <1>9, <1>10, <1>11
       DEF Next, Reply, Retransmit, Handler

(* What leaves is what its sender meant to send, from the first byte to    *)
(* the last, unless a frame was copied before the one ahead had left, or   *)
(* the handler replied inside a call that had not masked it.               *)
THEOREM FramesLeaveWhole == Spec => []IntactUnlessEarly
<1> DEFINE IInv == TypeOK /\ OrderInv /\ WireInv
<1>1. Init => IInv
    BY TypeStart
       DEF Init, OrderInv, Slotted, Stage, Settled, InCall, Building, WireInv, Buffered, FramesIntact
<1>2. IInv /\ [Next]_vars => IInv'
    <2>1. TypeOK /\ [Next]_vars => TypeOK'
        BY TypeReply, TypeOthers DEF Next
    <2>2. TypeOK /\ OrderInv /\ [Next]_vars => OrderInv'
        BY OrderReply, OrderIsrReply, OrderOthers DEF Next, Handler
    <2> QED
        BY <2>1, <2>2, WireKeeps
<1>3. IInv => IntactUnlessEarly
    BY DEF WireInv, Buffered, IntactUnlessEarly
<1> QED
    BY <1>1, <1>2, <1>3, PTL DEF Spec
=============================================================================
