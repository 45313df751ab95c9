------------------------------- MODULE TcpTx -------------------------------
(***************************************************************************)
(* How segments of one connection get from tcp_reply to the wire: the main *)
(* loop and the Ethernet interrupt handler both run tcp_reply on the same  *)
(* ring, and both end in ethmac_tx_packet, which copies the frame to the   *)
(* one transmit buffer of the MAC.  tcp_tx and tcp_retransmit mask the     *)
(* Ethernet interrupt around it; the other callers in the main loop        *)
(* (telnet_options, tcp_disconnect, the reset of process_tcp) do not.      *)
(*                                                                         *)
(* The handler runs to completion, so its tcp_reply is one step up to the  *)
(* wait for the MAC; the main loop's takes a step for each group of        *)
(* accesses to shared state.  tcp_current_buf is read again in each.       *)
(***************************************************************************)
EXTENDS Integers, Sequences

CONSTANTS
    NBuf,       \* TCP_TX_BUFFERS
    InitSeq,    \* tcp_tx_seq once the connection is open
    MaxReplies, \* bound: calls of tcp_reply (no more than NBuf)
    MaxResends  \* bound: frames sent again

ASSUME RingAssumption   == NBuf \in Nat \ {0} /\ InitSeq \in Nat
ASSUME BoundAssumption  == MaxReplies \in 0 .. NBuf /\ MaxResends \in Nat

VARIABLES
    slots,      \* tcp_buf
    cur,        \* tcp_current_buf
    tx_seq,     \* tcp_tx_seq
    masked,     \* the Ethernet interrupt is off in the interrupt controller
    txbuf,      \* the frame in ETHMAC_TX_BUFFER
    ready,      \* the ready bit of the transmit descriptor
    sending,    \* the MAC has read the first half of the frame
    half,       \* that half
    wire,       \* history: the frames that left, and what they should be
    due,        \* history: the frame whose sender set the ready bit
    calls,      \* history: calls of tcp_reply; a call's number is its payload
    resends,    \* history: frames sent again
    torn,       \* history: the handler replied inside a call of the main loop
    early,      \* history: a frame was copied before the one ahead had left
    pc, call,   \* the main loop: its place, and the call it is in
    buf, seq,   \* tcp_reply's buf (a slot) and tcp_header's starting_seq
    isr         \* the handler: "off", "on" or "wait" for the MAC

ring == <<slots, cur, tx_seq>>
dma  == <<sending, half, wire>>
mac  == <<txbuf, ready, dma>>
main == <<pc, call, buf, seq, masked>>
count == <<calls, resends>>
notes == <<torn, early>>
vars == <<ring, mac, main, isr, due, count, notes>>

Index == 0 .. NBuf - 1
Call  == [id : 1 .. NBuf, len : {0, 1}, masks : BOOLEAN]
Frame == [seq : Nat, data : 0 .. NBuf, len : Nat]
NoFrame == [seq |-> 0, data |-> 0, len |-> 0]

Slots == [payload_valid : BOOLEAN, starting_seq : Nat, ending_seq : Nat,
          len_bytes : Nat, seq : Nat, data : 0 .. NBuf]

\* The frame in the buffer of slot b, sent with the length of slot c.
FrameOf(b, c) ==
    [seq |-> slots[b].seq, len |-> slots[c].len_bytes,
     data |-> IF slots[c].len_bytes > 0 THEN slots[b].data ELSE 0]

TypeOK ==
    /\ slots \in [Index -> Slots]
    /\ cur \in Index /\ tx_seq \in Nat /\ masked \in BOOLEAN
    /\ txbuf \in Frame /\ due \in Frame /\ half \in Frame
    /\ ready \in BOOLEAN /\ sending \in BOOLEAN /\ (sending => ready)
    /\ calls \in 0 .. NBuf /\ resends \in Nat
    /\ torn \in BOOLEAN /\ early \in BOOLEAN
    /\ pc \in {"idle", "payload", "valid", "load", "store", "book", "copy",
               "start", "next", "mask", "resend", "restart"}
    /\ call \in Call /\ buf \in Index /\ seq \in Nat
    /\ isr \in {"off", "on", "wait"}

Init ==
    /\ slots = [i \in Index |->
                  [payload_valid |-> FALSE, starting_seq |-> 0, ending_seq |-> 0,
                   len_bytes |-> 0, seq |-> 0, data |-> 0]]
    /\ cur = 0 /\ tx_seq = InitSeq
    /\ txbuf = NoFrame /\ ready = FALSE /\ sending = FALSE /\ half = NoFrame /\ wire = {}
    /\ due = NoFrame /\ calls = 0 /\ resends = 0
    /\ torn = FALSE /\ early = FALSE
    /\ pc = "idle" /\ call = [id |-> 1, len |-> 0, masks |-> FALSE]
    /\ buf = 0 /\ seq = 0 /\ masked = FALSE /\ isr = "off"

After(i) == IF i = NBuf - 1 THEN 0 ELSE i + 1

\* The main loop is inside tcp_reply or the body of tcp_retransmit.
InCall == pc \notin {"idle", "mask"}

\* The main loop runs when the handler does not.
Main(place, next) == isr = "off" /\ pc = place /\ pc' = next
-----------------------------------------------------------------------------
(* tcp_reply in the main loop.                                             *)

\* tcp_tx, or a bare tcp_reply: buf is the buffer of the current slot.
CallReply(len, masks) ==
    /\ Main("idle", "payload")
    /\ calls < MaxReplies
    /\ calls' = calls + 1
    /\ call' = [id |-> calls + 1, len |-> len, masks |-> masks]
    /\ buf' = cur
    /\ masked' = masks
    /\ UNCHANGED <<ring, mac, seq, isr, due, resends, notes>>

CopyPayload ==
    /\ Main("payload", "valid")
    /\ slots' = IF call.len > 0 THEN [slots EXCEPT ![buf].data = call.id] ELSE slots
    /\ UNCHANGED <<cur, tx_seq, mac, call, buf, seq, masked, isr, due, count, notes>>

SetValid ==
    /\ Main("valid", "load")
    /\ slots' = [slots EXCEPT ![cur].payload_valid = call.len > 0]
    /\ UNCHANGED <<cur, tx_seq, mac, call, buf, seq, masked, isr, due, count, notes>>

\* tcp_header: the sequence number is loaded, then advanced and stored.
LoadSeq ==
    /\ Main("load", "store")
    /\ seq' = tx_seq
    /\ UNCHANGED <<ring, mac, call, buf, masked, isr, due, count, notes>>

\* Mutation: the header takes the number after it was advanced.
StoreSeqFirst ==
    /\ Main("store", "book")
    /\ tx_seq' = seq + call.len
    /\ slots' = [slots EXCEPT ![buf].seq = seq + call.len]
    /\ UNCHANGED <<cur, mac, call, buf, seq, masked, isr, due, count, notes>>

StoreSeq ==
    /\ Main("store", "book")
    /\ tx_seq' = seq + call.len
    /\ slots' = [slots EXCEPT ![buf].seq = seq]
    /\ UNCHANGED <<cur, mac, call, buf, seq, masked, isr, due, count, notes>>

\* starting_seq, ending_seq and len_bytes of the slot.
Book ==
    /\ Main("book", "copy")
    /\ slots' = [slots EXCEPT ![cur].starting_seq = seq,
                              ![cur].ending_seq = seq + call.len,
                              ![cur].len_bytes = call.len]
    /\ UNCHANGED <<cur, tx_seq, mac, call, buf, seq, masked, isr, due, count, notes>>

\* ethmac_tx_packet: the copy, then the wait, then the ready bit.
Copy ==
    /\ Main("copy", "start")
    /\ early' = (early \/ ready)
    /\ txbuf' = FrameOf(buf, cur)
    /\ UNCHANGED <<ring, ready, dma, call, buf, seq, masked, isr, due, count, torn>>

Start ==
    /\ Main("start", "next")
    /\ ~ready
    /\ ready' = TRUE
    /\ due' = FrameOf(buf, cur)
    /\ UNCHANGED <<ring, txbuf, dma, call, buf, seq, masked, isr, count, notes>>

\* The next slot; tcp_tx enables the interrupt again.
NextSlot ==
    /\ Main("next", "idle")
    /\ cur' = After(cur)
    /\ masked' = FALSE
    /\ UNCHANGED <<slots, tx_seq, mac, call, buf, seq, isr, due, count, notes>>
-----------------------------------------------------------------------------
(* tcp_retransmit: a slot that is due is chosen before the mask is set.    *)

Choose(i) ==
    /\ Main("idle", "mask")
    /\ resends < MaxResends
    /\ slots[i].payload_valid
    /\ resends' = resends + 1
    /\ buf' = i
    /\ UNCHANGED <<ring, mac, call, seq, masked, isr, due, calls, notes>>

Mask ==
    /\ Main("mask", "resend")
    /\ masked' = TRUE
    /\ UNCHANGED <<ring, mac, call, buf, seq, isr, due, count, notes>>

\* Mutation: the length is that of the current slot.
ResendOtherLength ==
    /\ Main("resend", "restart")
    /\ early' = (early \/ ready)
    /\ txbuf' = FrameOf(buf, cur)
    /\ UNCHANGED <<ring, ready, dma, call, buf, seq, masked, isr, due, count, torn>>

Resend ==
    /\ Main("resend", "restart")
    /\ early' = (early \/ ready)
    /\ txbuf' = FrameOf(buf, buf)
    /\ UNCHANGED <<ring, ready, dma, call, buf, seq, masked, isr, due, count, torn>>

\* Mutation: the loop over the slots is not left.
RestartLoops ==
    /\ Main("restart", "mask")
    /\ ~ready
    /\ ready' = TRUE
    /\ due' = FrameOf(buf, buf)
    /\ masked' = FALSE
    /\ UNCHANGED <<ring, txbuf, dma, call, buf, seq, isr, count, notes>>

Restart ==
    /\ Main("restart", "idle")
    /\ ~ready
    /\ ready' = TRUE
    /\ due' = FrameOf(buf, buf)
    /\ masked' = FALSE
    /\ UNCHANGED <<ring, txbuf, dma, call, buf, seq, isr, count, notes>>
-----------------------------------------------------------------------------
(* The interrupt handler: tcp_response to a data segment answers with an   *)
(* empty segment, and with the payload in echo mode.                       *)

Interrupt ==
    /\ isr = "off" /\ ~masked
    /\ isr' = "on"
    /\ UNCHANGED <<ring, mac, main, due, count, notes>>

IsrReply(len) ==
    /\ isr = "on"
    /\ calls < MaxReplies
    /\ torn' = (torn \/ InCall)
    /\ early' = (early \/ ready)
    /\ calls' = calls + 1
    /\ tx_seq' = tx_seq + len
    /\ slots' = [slots EXCEPT ![cur] =
                    [payload_valid |-> len > 0, starting_seq |-> tx_seq,
                     ending_seq |-> tx_seq + len, len_bytes |-> len, seq |-> tx_seq,
                     data |-> IF len > 0 THEN calls + 1 ELSE @.data]]
    /\ txbuf' = [seq |-> tx_seq, len |-> len, data |-> IF len > 0 THEN calls + 1 ELSE 0]
    /\ isr' = "wait"
    /\ UNCHANGED <<cur, ready, dma, main, due, resends>>

IsrStart ==
    /\ isr = "wait" /\ ~ready
    /\ ready' = TRUE
    /\ due' = FrameOf(cur, cur)
    /\ cur' = After(cur)
    /\ isr' = "on"
    /\ UNCHANGED <<slots, tx_seq, txbuf, dma, main, count, notes>>

Return ==
    /\ isr = "on"
    /\ isr' = "off"
    /\ UNCHANGED <<ring, mac, main, due, count, notes>>
-----------------------------------------------------------------------------
(* The MAC reads the frame while it sends it, and then clears the ready    *)
(* bit.                                                                    *)

MacBegins ==
    /\ ready /\ ~sending
    /\ sending' = TRUE
    /\ half' = txbuf
    /\ UNCHANGED <<ring, txbuf, ready, wire, main, isr, due, count, notes>>

MacEnds ==
    /\ sending
    /\ wire' = wire \cup {[first |-> half, last |-> txbuf, due |-> due]}
    /\ sending' = FALSE
    /\ ready' = FALSE
    /\ UNCHANGED <<ring, txbuf, half, main, isr, due, count, notes>>
-----------------------------------------------------------------------------
Reply ==
    \/ \E len \in {0, 1}, masks \in BOOLEAN : CallReply(len, masks)
    \/ CopyPayload \/ SetValid \/ LoadSeq \/ StoreSeq \/ Book
    \/ Copy \/ Start \/ NextSlot

Retransmit == (\E i \in Index : Choose(i)) \/ Mask \/ Resend \/ Restart

Handler == Interrupt \/ (\E len \in {0, 1} : IsrReply(len)) \/ IsrStart \/ Return

Next == Reply \/ Retransmit \/ Handler \/ MacBegins \/ MacEnds

Spec == Init /\ [][Next]_vars

\* The MAC sends what is ready, the handler ends, and after each run of the
\* handler the main loop gets on: strong fairness, as the interrupts between
\* two of its steps may be many.
FairSpec ==
    /\ Spec
    /\ WF_vars(MacBegins \/ MacEnds)
    /\ SF_vars(Reply \/ Retransmit)
    /\ WF_vars(IsrStart) /\ WF_vars(Return)
-----------------------------------------------------------------------------
(* Properties.                                                             *)

(* What leaves is what the sender that set the ready bit meant to send:    *)
(* one frame from its first byte to its last, with its own length.         *)
FramesIntact == \A f \in wire : f.first = f.due /\ f.last = f.due

(* A frame is only spoilt by a copy made before the frame ahead had left,  *)
(* or by a handler that replied inside a call that had not masked it.      *)
IntactUnlessEarly == early \/ torn \/ FramesIntact

(* "fill in the information about the packet about to be sent": what a     *)
(* slot says of its packet is what the header of the packet says, so that  *)
(* the acks for it and its retransmissions are about the same bytes, until *)
(* the handler replies inside a call that had not masked it.               *)
SlotsDescribe ==
    ~torn /\ pc = "idle" /\ isr # "wait" =>
        \A i \in Index :
            slots[i].payload_valid =>
                /\ slots[i].seq = slots[i].starting_seq
                /\ slots[i].ending_seq = slots[i].seq + slots[i].len_bytes

(* No two payloads have the same sequence number: the main loop and the    *)
(* handler never take the same one.                                        *)
SeqsDistinct ==
    \A i, j \in Index :
        /\ i # j /\ slots[i].payload_valid /\ slots[j].payload_valid
        /\ ~torn /\ pc = "idle" /\ isr # "wait"
        => slots[i].starting_seq # slots[j].starting_seq

(* While the main loop is inside tcp_reply or ethmac_tx_packet under       *)
(* tcp_tx or tcp_retransmit, the handler is not.                           *)
Exclusion ==
    InCall /\ (pc \in {"resend", "restart"} \/ call.masks) => isr = "off"

(* The ring of slots is in order between calls, and the callers that mask  *)
(* the interrupt keep the handler out: the type and all of these.          *)
RingInv == TypeOK /\ SlotsDescribe /\ SeqsDistinct /\ Exclusion

(* A frame that was handed over leaves, and tcp_reply comes to its end.    *)
Returns == pc # "idle" ~> pc = "idle"
=============================================================================
