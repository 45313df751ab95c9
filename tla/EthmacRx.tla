------------------------------ MODULE EthmacRx ------------------------------
(***************************************************************************)
(* How received frames reach parse_rx_packet: the MAC fills a ring of      *)
(* receive buffers and raises an interrupt; ethmac_interrupt masks the     *)
(* MAC's interrupts, reads their source, scans the buffers in index order  *)
(* from 0, and at the end clears the sources it read and unmasks.  The MAC *)
(* keeps receiving all the while.                                          *)
(*                                                                         *)
(* A frame's number is its place among the frames the MAC put in a buffer. *)
(***************************************************************************)
EXTENDS Integers, Sequences, SequencesExt

CONSTANTS
    NBuf,       \* ETHMAC_RX_BUFFERS
    MaxFrames,  \* bound: frames received
    MaxDrops    \* bound: frames that find no buffer

ASSUME RingAssumption  == NBuf \in Nat \ {0}
ASSUME BoundAssumption == MaxFrames \in Nat /\ MaxDrops \in Nat

VARIABLES
    empty,      \* the empty bit of each receive descriptor
    data,       \* the frame in each buffer
    fill,       \* the descriptor the MAC is at
    filling,    \* the MAC is writing a frame to its buffer
    received,   \* frames put in buffers so far
    drops,      \* frames that found no buffer
    irq,        \* ETHMAC_INT_SOURCE
    place,      \* the handler's
    int_src, buffer,   \* its variables
    handled,    \* history: the frames parsed, in order
    raced       \* history: a frame ended between two steps of the scan

mac == <<fill, filling, received, drops>>
isr == <<place, int_src, buffer>>
rxVars == <<empty, data, mac, irq, isr, handled, raced>>

Index   == 0 .. NBuf - 1
Sources == {"rxb", "rxe", "busy"}
Enabled == {"rxb", "rxe"}       \* 0xc in ETHMAC_INT_MASK
Handled == Range(handled)

TypeOK ==
    /\ empty \in [Index -> BOOLEAN]
    /\ data \in [Index -> 0 .. MaxFrames]
    /\ fill \in Index /\ filling \in BOOLEAN
    /\ received \in 0 .. MaxFrames /\ drops \in 0 .. MaxDrops
    /\ irq \subseteq Sources /\ int_src \subseteq Sources
    /\ place \in {"off", "scan", "parse", "mark"}
    /\ buffer \in 0 .. NBuf
    /\ handled \in Seq(1 .. MaxFrames)
    /\ raced \in BOOLEAN

\* open_link: every descriptor is empty and raises an interrupt.
RingInit ==
    /\ empty = [i \in Index |-> TRUE]
    /\ data = [i \in Index |-> 0]
    /\ fill = 0 /\ filling = FALSE /\ received = 0 /\ drops = 0
    /\ irq = {} /\ int_src = {} /\ place = "off" /\ buffer = 0
    /\ handled = <<>>
    /\ raced = FALSE
-----------------------------------------------------------------------------
(* The MAC.                                                                *)

\* The frame is written to the buffer if the descriptor is empty; if not, it
\* is dropped, and the source that says so is not enabled.
FrameStarts ==
    /\ ~filling
    /\ received < MaxFrames
    /\ empty[fill]
    /\ filling' = TRUE
    /\ data' = [data EXCEPT ![fill] = received + 1]
    /\ UNCHANGED <<empty, fill, received, drops, irq, isr, handled, raced>>

FrameDropped ==
    /\ ~filling
    /\ drops < MaxDrops
    /\ ~empty[fill]
    /\ drops' = drops + 1
    /\ irq' = irq \cup {"busy"}
    /\ UNCHANGED <<empty, data, fill, filling, received, isr, handled, raced>>

\* The wrap bit is set in the last descriptor.
NextDescriptor(i) == IF i = NBuf - 1 THEN 0 ELSE i + 1

\* The status is written back, and a good or a bad frame is signalled.
FrameEnds(source) ==
    /\ filling
    /\ empty' = [empty EXCEPT ![fill] = FALSE]
    /\ fill' = NextDescriptor(fill)
    /\ filling' = FALSE
    /\ received' = received + 1
    /\ irq' = irq \cup {source}
    /\ raced' = (raced \/ place \in {"scan", "mark"})
    /\ UNCHANGED <<data, drops, isr, handled>>
-----------------------------------------------------------------------------
(* ethmac_interrupt.                                                       *)

\* Masks, and reads the source.
Interrupt ==
    /\ place = "off"
    /\ irq \cap Enabled # {}
    /\ int_src' = irq
    /\ buffer' = 0
    /\ place' = "scan"
    /\ UNCHANGED <<empty, data, mac, irq, handled, raced>>

\* Mutation: after an empty buffer the scan goes on two further.
SkipTwo ==
    /\ place = "scan" /\ buffer < NBuf
    /\ empty[buffer]
    /\ buffer' = IF buffer < NBuf - 1 THEN buffer + 2 ELSE NBuf
    /\ UNCHANGED <<empty, data, mac, irq, place, int_src, handled, raced>>

Skip ==
    /\ place = "scan" /\ buffer < NBuf
    /\ empty[buffer]
    /\ buffer' = buffer + 1
    /\ UNCHANGED <<empty, data, mac, irq, place, int_src, handled, raced>>

\* Mutation: the descriptor is given back to the MAC before the frame is parsed.
FoundReleases ==
    /\ place = "scan" /\ buffer < NBuf
    /\ ~empty[buffer]
    /\ place' = "parse"
    /\ empty' = [empty EXCEPT ![buffer] = TRUE]
    /\ UNCHANGED <<data, mac, irq, int_src, buffer, handled, raced>>

Found ==
    /\ place = "scan" /\ buffer < NBuf
    /\ ~empty[buffer]
    /\ place' = "parse"
    /\ UNCHANGED <<empty, data, mac, irq, int_src, buffer, handled, raced>>

\* parse_rx_packet, with everything it calls.
Parse ==
    /\ place = "parse"
    /\ handled' = Append(handled, data[buffer])
    /\ place' = "mark"
    /\ UNCHANGED <<empty, data, mac, irq, int_src, buffer, raced>>

\* "set empty flag again"
Mark ==
    /\ place = "mark"
    /\ empty' = [empty EXCEPT ![buffer] = TRUE]
    /\ buffer' = buffer + 1
    /\ place' = "scan"
    /\ UNCHANGED <<data, mac, irq, int_src, handled, raced>>

\* Mutation: the interrupts stay masked.
FinishMasked ==
    /\ place = "scan" /\ buffer = NBuf
    /\ irq' = irq \ int_src
    /\ place' = "scan"
    /\ UNCHANGED <<empty, data, mac, int_src, buffer, handled, raced>>

\* Clears the sources that were read, and unmasks.
Finish ==
    /\ place = "scan" /\ buffer = NBuf
    /\ irq' = irq \ int_src
    /\ place' = "off"
    /\ UNCHANGED <<empty, data, mac, int_src, buffer, handled, raced>>
-----------------------------------------------------------------------------
Mac     == FrameStarts \/ FrameDropped \/ \E source \in Enabled : FrameEnds(source)
Handler == Interrupt \/ Skip \/ Found \/ Parse \/ Mark \/ Finish

Next == Mac \/ Handler
Spec == RingInit /\ [][Next]_rxVars

\* The interrupt is taken, and the handler runs to its end.
FairSpec == Spec /\ WF_rxVars(Handler)
-----------------------------------------------------------------------------
(* Properties.                                                             *)

(* Every frame the MAC put in a buffer is parsed once or still there, and  *)
(* a buffer is never written while its frame is needed.                    *)
Waiting == {data[i] : i \in {j \in Index : ~empty[j]}}
OnceOrWaiting ==
    /\ IsInjective(handled)
    /\ 1 .. received = Handled \cup Waiting
    /\ place # "mark" => Handled \cap Waiting = {}

(* As long as frames end while one is parsed or outside the handler, the   *)
(* MAC is never left waiting for a buffer that no handler will free: when  *)
(* no interrupt is pending, the descriptor it is at is empty.              *)
NotDeaf == ~raced /\ place = "off" /\ irq \cap Enabled = {} => empty[fill]

(* Then too, frames put in the ring in one lap are parsed in the order     *)
(* they came.                                                              *)
Lap(f) == (f - 1) \div NBuf
LapOrder ==
    \A f, g \in 1 .. received :
        ~raced /\ f < g /\ Lap(f) = Lap(g) /\ g \in Handled => f \in Handled

(* The handler keeps up with the MAC, if no frame ends behind its scan. *)
KeepsUp == NotDeaf /\ LapOrder

(* No frame is lost or parsed twice, and the state is well formed. *)
FramesInv == TypeOK /\ OnceOrWaiting

(* A frame that is in a buffer while a source is pending, other than those *)
(* the running handler will clear, is parsed: by that handler or the next. *)
Pending == IF place = "off" THEN irq ELSE irq \ int_src
RaisedIsParsed ==
    \A f \in 1 .. MaxFrames :
        f \in Waiting /\ Pending \cap Enabled # {} ~> f \in Handled
=============================================================================
