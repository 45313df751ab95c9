------------------------------ MODULE TcpRing ------------------------------
(***************************************************************************)
(* The transmit ring of one TCP socket (tcp.c): TCP_TX_BUFFERS slots, each *)
(* with the segment it holds, filled in turn by tcp_open and tcp_reply,    *)
(* marked by tcp_ack when the client acknowledges them, and sent again by  *)
(* tcp_retransmit until they are marked.  Frames may be lost, delayed,     *)
(* repeated or reordered on the way to the client.                         *)
(*                                                                         *)
(* Sequence numbers are modulo SeqMod as in the code.  The history counts  *)
(* positions of the stream: 0 is the SYN, position p has sequence number   *)
(* SeqOf(p).                                                               *)
(***************************************************************************)
EXTENDS Integers, FiniteSets

CONSTANTS
    NBuf,       \* TCP_TX_BUFFERS
    SeqMod,     \* 2^32 in the C
    InitSeq,    \* tcp_tx_seq of a new socket (0x100)
    Lengths,    \* the payload lengths the telnet server sends
    Repeats,    \* does an ack arrive again, say with the client's next key?
    Paced,      \* does the client keep up, so that the ring never comes
                \* round to a slot with bytes it lacks?
    Window,     \* bound: the bytes sent beyond the last ack
    Strays,     \* acks of earlier connections that reach the listening socket
    EchoModes,  \* is the client's input echoed (telnet echo_mode)?
    MaxBytes,   \* bound: positions of the stream, the SYN included
    MaxReplies  \* bound: the number of slots filled

ASSUME RingAssumption == NBuf \in Nat \ {0}
ASSUME SeqAssumption ==
    SeqMod \in Nat /\ InitSeq \in Nat /\ Window \in Nat /\ InitSeq + Window < SeqMod
ASSUME LengthAssumption == Lengths \subseteq Nat \ {0}
ASSUME PeerAssumption ==
    /\ Strays \subseteq 0 .. SeqMod - 1
    /\ Repeats \in BOOLEAN /\ Paced \in BOOLEAN /\ EchoModes \subseteq BOOLEAN
ASSUME BoundAssumption == MaxBytes \in Nat /\ MaxReplies \in Nat

VARIABLES
    state,      \* tcp_connection_state
    slots,      \* tcp_buf
    cur,        \* tcp_current_buf
    tx_seq,     \* tcp_tx_seq
    rx_ack,     \* tcp_rx_ack
    written,    \* history: the length of the stream written so far
    replies,    \* history: the number of slots filled
    wire,       \* segments on their way to the client
    got,        \* the client: the positions it has
    offered,    \* the client: every cumulative ack it has sent
    heard       \* history: the highest ack that has arrived

sender == <<state, slots, cur, tx_seq, rx_ack, written, replies>>
client == <<got, offered>>
vars   == <<sender, wire, client, heard>>

Index == 0 .. NBuf - 1
SeqOf(p) == (InitSeq + p) % SeqMod

\* What the client acknowledges: the end of the prefix it has.
Cumulative(n) == 0 .. n - 1 \subseteq got /\ n \notin got

Segments == [from : 0 .. MaxBytes, to : 0 .. MaxBytes]
Segment(slot) == [from |-> slot.from, to |-> slot.to]

Slots == [payload_valid : BOOLEAN, ack_received : BOOLEAN,
          ending_seq : 0 .. SeqMod - 1, from : 0 .. MaxBytes, to : 0 .. MaxBytes]

\* A slot that tcp_retransmit will send.
Unacked(slot) == slot.payload_valid /\ ~slot.ack_received

TypeOK ==
    /\ state \in {"LISTENING", "PENDING", "OPEN"}
    /\ slots \in [Index -> Slots]
    /\ cur \in Index
    /\ tx_seq \in 0 .. SeqMod - 1 /\ rx_ack \in 0 .. SeqMod - 1
    /\ written \in 0 .. MaxBytes /\ replies \in Nat
    /\ wire \subseteq Segments
    /\ got \subseteq 0 .. MaxBytes - 1
    /\ offered \subseteq 0 .. MaxBytes
    /\ heard \in 0 .. MaxBytes

\* new_socket and listen_socket.
Init ==
    /\ state = "LISTENING"
    /\ slots = [i \in Index |-> [payload_valid |-> FALSE, ack_received |-> FALSE,
                                 ending_seq |-> 0, from |-> 0, to |-> 0]]
    /\ cur = 0
    /\ tx_seq = InitSeq /\ rx_ack = 0
    /\ written = 0 /\ replies = 0
    /\ wire = {} /\ got = {} /\ offered = {} /\ heard = 0
-----------------------------------------------------------------------------
(* The ring as a value, so that a handler that acks and then replies is    *)
(* one step.                                                               *)

Ring == [slots |-> slots, cur |-> cur, seq |-> tx_seq, written |-> written]

\* Mutation: one byte is not taken for a payload.
FillForgetsOne(ring, n, seq) ==
    [slots   |-> [ring.slots EXCEPT ![ring.cur] =
                    [payload_valid |-> n > 1, ack_received |-> FALSE,
                     ending_seq |-> (ring.seq + n) % SeqMod,
                     from |-> ring.written, to |-> ring.written + n]],
     cur     |-> (ring.cur + 1) % NBuf,
     seq     |-> seq,
     written |-> ring.written + n]

\* Fill the current slot with n bytes and move on to the next slot.
Fill(ring, n, seq) ==
    [slots   |-> [ring.slots EXCEPT ![ring.cur] =
                    [payload_valid |-> n > 0, ack_received |-> FALSE,
                     ending_seq |-> (ring.seq + n) % SeqMod,
                     from |-> ring.written, to |-> ring.written + n]],
     cur     |-> (ring.cur + 1) % NBuf,
     seq     |-> seq,
     written |-> ring.written + n]

\* tcp_reply with n bytes of payload; tcp_header adds them to tcp_tx_seq.
tcp_reply(ring, n) == Fill(ring, n, (ring.seq + n) % SeqMod)

\* Mutation: the SYN is counted at once, and again by tcp_response.
tcp_openCounts(ring) == Fill(ring, 1, (ring.seq + 1) % SeqMod)

\* tcp_open: the SYN counts as one byte that tcp_tx_seq does not have yet.
tcp_open(ring) == Fill(ring, 1, ring.seq)

\* May k more slots be filled, with n bytes?
Room(ring, k, n) ==
    /\ replies + k <= MaxReplies /\ written + n <= MaxBytes
    /\ written + n - heard <= Window
    /\ Paced => \A j \in 0 .. k - 1 :
                    LET old == ring.slots[(ring.cur + j) % NBuf]
                    IN  Unacked(old) => old.from .. old.to - 1 \subseteq got

\* Mutation: an ack does not cover the segment that ends at it.
CoversStrict(ack, slot) ==
    /\ slot.payload_valid
    /\ IF ack > rx_ack
         THEN slot.ending_seq > rx_ack /\ slot.ending_seq < ack
         ELSE slot.ending_seq < rx_ack => slot.ending_seq < ack

\* Mutation: an ack covers one byte too many.
CoversEarly(ack, slot) ==
    /\ slot.payload_valid
    /\ IF ack > rx_ack
         THEN slot.ending_seq > rx_ack /\ slot.ending_seq <= ack + 1
         ELSE slot.ending_seq < rx_ack => slot.ending_seq <= ack

\* ack_valid: which slots an ack covers.
Covers(ack, slot) ==
    /\ slot.payload_valid
    /\ IF ack > rx_ack
         THEN slot.ending_seq > rx_ack /\ slot.ending_seq <= ack
         ELSE slot.ending_seq < rx_ack => slot.ending_seq <= ack

\* The loop of tcp_ack ends at the first slot covered that ends at the ack.
Visited(ack, i) ==
    ~ \E j \in Index :
        j < i /\ Covers(ack, slots[j]) /\ slots[j].ending_seq = ack

tcp_ack(ack) ==
    [i \in Index |-> IF Covers(ack, slots[i]) /\ Visited(ack, i)
                       THEN [slots[i] EXCEPT !.ack_received = TRUE]
                       ELSE slots[i]]

SetRing(ring, k) ==
    /\ slots' = ring.slots
    /\ cur' = ring.cur
    /\ tx_seq' = ring.seq
    /\ written' = ring.written
    /\ replies' = replies + k
-----------------------------------------------------------------------------
(* The boot loader.                                                        *)

\* Once a connection is closed, what its client still sends reaches the
\* listening socket: its acks are noted there, and its FIN is answered.
StrayAck(ack) ==
    /\ state = "LISTENING"
    /\ rx_ack' = ack
    /\ slots' = tcp_ack(ack)
    /\ UNCHANGED <<state, cur, tx_seq, written, replies, wire, client, heard>>

StrayFin(ack) ==
    /\ state = "LISTENING"
    /\ rx_ack' = ack
    /\ LET acked == [Ring EXCEPT !.slots = tcp_ack(ack)]
       IN  Room(acked, 1, 0) /\ SetRing(tcp_reply(acked, 0), 1)
    /\ UNCHANGED <<state, wire, client, heard>>

\* A SYN on the listening socket: tcp_response, tcp_open.
Open ==
    /\ state = "LISTENING"
    /\ Room(Ring, 1, 1)
    /\ SetRing(tcp_open(Ring), 1)
    /\ state' = "PENDING"
    /\ wire' = wire \cup {[from |-> 0, to |-> 1]}
    /\ UNCHANGED <<rx_ack, client, heard>>

\* The main loop sends n bytes: telnet_options, or telnet_tx through tcp_tx.
Send(n) ==
    /\ state = "OPEN"
    /\ Room(Ring, 1, n)
    /\ SetRing(tcp_reply(Ring, n), 1)
    /\ wire' = wire \cup {[from |-> written, to |-> written + n]}
    /\ UNCHANGED <<state, rx_ack, client, heard>>

\* The acks that can arrive next.
Arrivals == {a \in offered : a > heard \/ (Repeats /\ a = heard)}

\* tcp_response to an ack without payload.
AckArrives(a) ==
    /\ state # "LISTENING" /\ a \in Arrivals
    /\ slots' = tcp_ack(SeqOf(a))
    /\ rx_ack' = SeqOf(a)
    /\ heard' = IF a > heard THEN a ELSE heard
    /\ IF state = "PENDING"
         THEN tx_seq' = (tx_seq + 1) % SeqMod /\ state' = "OPEN"
         ELSE UNCHANGED <<tx_seq, state>>
    /\ UNCHANGED <<cur, written, replies, wire, client>>

\* tcp_response to an ack with n bytes of payload: the segment is acked by
\* an empty segment and, in echo mode, echoed.
DataArrives(a, n, echo) ==
    LET acked == [Ring EXCEPT !.slots = tcp_ack(SeqOf(a))]
        reply == tcp_reply(acked, 0)
    IN  /\ state = "OPEN" /\ a \in Arrivals
        /\ IF echo
             THEN /\ Room(acked, 2, n)
                  /\ SetRing(tcp_reply(reply, n), 2)
                  /\ wire' = wire \cup {[from |-> written, to |-> written + n]}
             ELSE /\ Room(acked, 1, 0)
                  /\ SetRing(reply, 1)
                  /\ UNCHANGED wire
        /\ rx_ack' = SeqOf(a)
        /\ heard' = IF a > heard THEN a ELSE heard
        /\ UNCHANGED <<state, client>>

\* The client repeats its SYN, which carries no ack: tcp_response takes it
\* for the segment that completes the handshake.
SynRepeated ==
    /\ state = "PENDING"
    /\ tx_seq' = (tx_seq + 1) % SeqMod
    /\ state' = "OPEN"
    /\ UNCHANGED <<slots, cur, rx_ack, written, replies, wire, client, heard>>

\* Mutation: slot 0 is never looked at.
RetransmitSkipsZero(i) ==
    /\ i > 0 /\ Unacked(slots[i])
    /\ wire' = wire \cup {Segment(slots[i])}
    /\ UNCHANGED <<sender, client, heard>>

\* tcp_retransmit: slot i is the first whose timer has expired.
Retransmit(i) ==
    /\ Unacked(slots[i])
    /\ wire' = wire \cup {Segment(slots[i])}
    /\ UNCHANGED <<sender, client, heard>>
-----------------------------------------------------------------------------
(* The network and the client.                                             *)

\* A segment reaches the client, which may get it again later.
Deliver(s) ==
    /\ s \in wire
    /\ got' = got \cup s.from .. s.to - 1
    /\ UNCHANGED <<sender, wire, offered, heard>>

Lose(s) ==
    /\ s \in wire
    /\ wire' = wire \ {s}
    /\ UNCHANGED <<sender, client, heard>>

\* The client sends its cumulative ack; the SYN must have reached it.
Acknowledge ==
    /\ \E n \in 1 .. MaxBytes : Cumulative(n) /\ offered' = offered \cup {n}
    /\ UNCHANGED <<sender, wire, got, heard>>

Network == Acknowledge \/ \E s \in wire : Deliver(s) \/ Lose(s)

Next ==
    \/ Open \/ SynRepeated
    \/ \E ack \in Strays : StrayAck(ack) \/ StrayFin(ack)
    \/ \E n \in Lengths : Send(n)
    \/ \E a \in offered : AckArrives(a)
    \/ \E a \in offered, n \in Lengths, echo \in EchoModes : DataArrives(a, n, echo)
    \/ \E i \in Index : Retransmit(i)
    \/ Network

Spec == Init /\ [][Next]_vars

\* Slot timers expire again and again (500 ms) and the main loop polls them
\* faster than that; a segment sent often enough is not lost every time.
Reaches(p) == \E s \in wire : p \in s.from .. s.to - 1 /\ Deliver(s)

Fairness ==
    /\ \A i \in Index : WF_vars(Retransmit(i))
    /\ \A p \in 0 .. MaxBytes - 1 : SF_vars(Reaches(p))

FairSpec == Spec /\ Fairness
-----------------------------------------------------------------------------
(* Properties.                                                             *)

(* A slot is only marked when the client has every byte of its segment:    *)
(* tcp_retransmit gives up on nothing the client lacks.                    *)
AckSound ==
    \A i \in Index : slots[i].payload_valid /\ slots[i].ack_received
                        => slots[i].from .. slots[i].to - 1 \subseteq got

(* "Find the packets lower than or equal to seq and mark them as acked":   *)
(* until the ring comes round, no slot below the last ack is left          *)
(* unmarked.                                                               *)
AckComplete ==
    replies <= NBuf => \A i \in Index : Unacked(slots[i]) => slots[i].to > heard

(* The stream has no gap: the sequence number of the next byte is the one  *)
(* its position demands, the SYN included.                                 *)
SeqContiguous == state = "OPEN" => tx_seq = SeqOf(written)

(* The ring is well formed, and the above. *)
SeqInv == TypeOK /\ SeqContiguous

(* Every byte written reaches the client.                                  *)
Delivered == \A p \in 0 .. MaxBytes - 1 : written > p ~> p \in got

\* The bytes that can still be retransmitted.
Held == UNION {slots[i].from .. slots[i].to - 1 : i \in {j \in Index : Unacked(slots[j])}}

(* The ring implements ByteStream: what is dropped from it the client has. *)
Stream == INSTANCE ByteStream WITH kept <- Held, received <- got
ImplementsStream == Stream!Spec

\* The slots that this step fills.
Refilled == {(cur + j) % NBuf : j \in 0 .. replies' - replies - 1}

\* The ring comes round to a slot with bytes that the client lacks.
Overruns ==
    \E i \in Refilled : Unacked(slots[i]) /\ ~(slots[i].from .. slots[i].to - 1 \subseteq got)

\* The ack that arrives is the last one again.
Reheard ==
    \E a \in offered :
        a = heard /\ (AckArrives(a) \/ \E n \in Lengths, echo \in EchoModes : DataArrives(a, n, echo))

\* The first ack of a client finds one of an earlier connection noted that is
\* ahead of it.
Misled == heard = 0 /\ heard' > 0 /\ rx_ack \in InitSeq + 1 .. InitSeq + Window

(* Whatever the pace of the client and whatever acks arrive, each step is  *)
(* one of ByteStream or changes nothing there, but for a step that fills a *)
(* slot too soon, or takes the last ack again or the first one after a     *)
(* stray one: nothing else loses a byte that the client lacks.             *)
LosesNothingElse ==
    [][Stream!Next \/ UNCHANGED Stream!vars \/ Overruns \/ Reheard \/ Misled]_vars
=============================================================================
