--------------------------- MODULE TelnetOptions ---------------------------
(***************************************************************************)
(* How telnet.c tells the options of a telnet client from its text:        *)
(* parse_telnet_options takes those at the head of a packet, and           *)
(* parse_telnet_payload takes the rest for text.  The stage of the option  *)
(* parser is a local variable: it does not outlive the packet.             *)
(*                                                                         *)
(* The client sends commands and letters (items); TCP cuts their bytes     *)
(* into packets anywhere.                                                  *)
(***************************************************************************)
EXTENDS Integers, Sequences

CONSTANTS
    Items,    \* bound: what the client may send, each a sequence of bytes
    MaxItems  \* bound: how many of them

VARIABLES
    items,     \* what the client sends
    taken,     \* how many of its bytes have arrived
    open,      \* connection_state is TELNET_OPEN
    echo_mode,
    rxbuf,     \* the bytes that went to the line buffer
    strange    \* history: something came that the parser cannot take

telnetVars == <<items, taken, open, echo_mode, rxbuf, strange>>

IAC == 255
SB  == 250
SE  == 240
NOP == 241
DONT == 254
DO   == 253
ECHO == 1

Idle ==
    /\ items = <<>> /\ taken = 0 /\ open = FALSE /\ echo_mode = FALSE
    /\ rxbuf = <<>> /\ strange = FALSE

\* The bytes of the first n items, and of all of them.
Stream ==
    LET upto[n \in 0..Len(items)] == IF n = 0 THEN <<>> ELSE upto[n - 1] \o items[n]
    IN  upto
Bytes == Stream[Len(items)]
-----------------------------------------------------------------------------
\* The client decides what it will send.
Client ==
    /\ items = <<>>
    /\ \E n \in 1..MaxItems : items' \in [1..n -> Items]
    /\ UNCHANGED <<taken, open, echo_mode, rxbuf, strange>>

\* Mutation: the option after a DONT is taken like one after a DO.
ParseDontAsDo(st, c, k) ==
    IF st.text > 0 THEN st
    ELSE CASE st.stage = 0 /\ c = IAC -> [st EXCEPT !.stage = 1, !.open = TRUE]
           [] st.stage = 0 /\ c # IAC -> IF c < 128 THEN [st EXCEPT !.text = k] ELSE st
           [] st.stage = 1 -> [st EXCEPT !.stage = IF c = NOP THEN 0 ELSE 2, !.stage1 = c]
           [] st.stage = 2 -> [st EXCEPT !.stage = 0, !.echo = @ \/ c = ECHO]

\* One byte in the state [stage, stage1, open, echo, text] of the parser; text
\* is the place of the first byte of the payload, 0 while there is none.
Parse(st, c, k) ==
    IF st.text > 0 THEN st
    ELSE CASE st.stage = 0 /\ c = IAC -> [st EXCEPT !.stage = 1, !.open = TRUE]
           [] st.stage = 0 /\ c # IAC -> IF c < 128 THEN [st EXCEPT !.text = k] ELSE st
           [] st.stage = 1 -> [st EXCEPT !.stage = IF c = NOP THEN 0 ELSE 2, !.stage1 = c]
           [] st.stage = 2 ->
                 [st EXCEPT !.stage = 0,
                            !.echo = IF c # ECHO THEN @
                                     ELSE IF st.stage1 = DO THEN TRUE
                                     ELSE IF st.stage1 = DONT THEN FALSE ELSE @]

\* The state after k bytes of a packet, and after all of them.
Parsed(packet) ==
    LET after[k \in 0..Len(packet)] ==
          IF k = 0 THEN [stage |-> 0, stage1 |-> 0, open |-> open, echo |-> echo_mode, text |-> 0]
          ELSE Parse(after[k - 1], packet[k], k)
    IN  after
parse_telnet_options(packet) == Parsed(packet)[Len(packet)]

\* What is in the line buffer after k bytes of text; what is not a letter is
\* dropped.
Letter(c) == c < 128 /\ c \notin {0, 10}
Added(buffer, bytes) ==
    LET after[k \in 0..Len(bytes)] ==
          IF k = 0 THEN buffer
          ELSE IF Letter(bytes[k]) THEN Append(after[k - 1], bytes[k]) ELSE after[k - 1]
    IN  after
parse_telnet_payload(buffer, bytes) == Added(buffer, bytes)[Len(bytes)]

\* What kind items are.
IsText(item) == item[1] # IAC
Negotiation(item) ==
    \/ item = <<IAC, NOP>>
    \/ Len(item) = 3 /\ item[1] = IAC /\ item[2] \in 251..254

\* The next n bytes are whole negotiations in front of whole items of text,
\* as the parser can take them.
Plain(n) ==
    \E first, mid, last \in 0..Len(items) :
        /\ taken = Len(Stream[first]) /\ taken + n = Len(Stream[last])
        /\ first <= mid /\ mid <= last
        /\ \A k \in (first + 1)..mid : Negotiation(items[k])
        /\ \A k \in (mid + 1)..last : IsText(items[k])

\* A packet with the next n bytes of the stream.
Receive ==
    /\ taken < Len(Bytes)
    /\ \E n \in 1..(Len(Bytes) - taken) :
          LET packet == SubSeq(Bytes, taken + 1, taken + n)
              st     == parse_telnet_options(packet)
          IN  /\ taken' = taken + n
              /\ open' = st.open /\ echo_mode' = st.echo
              /\ rxbuf' = IF st.text = 0 THEN rxbuf
                           ELSE parse_telnet_payload(rxbuf, SubSeq(packet, st.text, n))
              /\ strange' = (strange \/ ~Plain(n))
    /\ UNCHANGED items

\* The client goes; the next one finds the telnet object reset.
telnet_disconnect ==
    /\ items # <<>> /\ taken = Len(Bytes)
    /\ items' = <<>> /\ taken' = 0 /\ open' = FALSE /\ echo_mode' = FALSE
    /\ rxbuf' = <<>> /\ strange' = FALSE

TelnetNext == Client \/ Receive \/ telnet_disconnect
-----------------------------------------------------------------------------
\* What the client typed in n items, and what it last asked about echoing.
Typed ==
    LET upto[n \in 0..Len(items)] ==
          IF n = 0 THEN <<>>
          ELSE IF IsText(items[n]) THEN parse_telnet_payload(upto[n - 1], items[n]) ELSE upto[n - 1]
    IN  upto
EchoAsked ==
    LET upto[n \in 0..Len(items)] ==
          IF n = 0 THEN FALSE
          ELSE IF items[n] = <<IAC, DO, ECHO>> THEN TRUE
          ELSE IF items[n] = <<IAC, DONT, ECHO>> THEN FALSE
          ELSE upto[n - 1]
    IN  upto

\* Options never become text and text is never taken for an option, and the
\* echo is as the client asked last, when all that came were negotiations,
\* whole and in front of the text of their packets.
OptionsKeptOut ==
    items # <<>> /\ taken = Len(Bytes) /\ ~strange =>
        rxbuf = Typed[Len(items)] /\ echo_mode = EchoAsked[Len(items)]
=============================================================================
