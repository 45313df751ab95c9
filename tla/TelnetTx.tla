------------------------------ MODULE TelnetTx ------------------------------
(***************************************************************************)
(* The transmit line buffer of a telnet connection: put_line and get_line  *)
(* of line-buffer.c, and telnet_tx of telnet.c, which stuffs lines into a  *)
(* packet.  All of it runs in the main loop.                               *)
(*                                                                         *)
(* A character is its position in all that was put.  Text ends at a cell   *)
(* that holds 0; a cell that holds 1 says that more is to come.            *)
(***************************************************************************)
EXTENDS Integers, Sequences, FiniteSetsExt

CONSTANTS
    LenBytes,     \* len_bytes: 0x80000
    MaxLine,      \* MAX_LINE: 128
    MaxTelnetTx,  \* MAX_TELNET_TX: 1024
    Texts,        \* bound: the lengths of the texts, at most MaxLine \div 2
    MaxText       \* bound: characters put

EndMark  == 0
MoreMark == 1
Other    == -1
Char(n)  == n + 1   \* the n-th character put: never one of the above

VARIABLES
    cells,                \* txbuf->buf, empty until the connection is made
    write_ptr, read_ptr,
    first_line, total,         \* where the packet starts, total_line_len
    line_len,             \* of telnet_tx
    pc,                   \* "pass", "more" in the loop of telnet_tx, "over"
    put,                  \* history: characters put
    sent                  \* history: characters sent

txVars == <<cells, write_ptr, read_ptr, first_line, total, line_len, pc, put, sent>>

NoCells == <<>>

Idle ==
    /\ cells = NoCells /\ write_ptr = 0 /\ read_ptr = 0
    /\ first_line = 0 /\ total = 0 /\ line_len = 0
    /\ pc = "over" /\ put = 0 /\ sent = <<>>

\* malloc does not clear the buffer: what is there may look like a mark.
init_line_buffer ==
    /\ cells = NoCells
    /\ \E junk \in {EndMark, MoreMark, Other} : cells' = [c \in 0 .. LenBytes - 1 |-> junk]
    /\ UNCHANGED <<write_ptr, read_ptr, first_line, total, line_len, pc, put, sent>>
-----------------------------------------------------------------------------
\* Both pointers wrap as soon as a full line might not fit any more.
Wrap(ptr) == IF ptr + MaxLine >= LenBytes THEN 0 ELSE ptr

\* Mutation: only the zero at buf[len].
EndsOnce(n) == {write_ptr + 2 * n}

\* print leaves buf behind the text, so that buf[len] = 0 lands twice as far;
\* the cell at the new write_ptr is zeroed too.
Ends(n) == {write_ptr + 2 * n, Wrap(write_ptr + n)}

put_line(n) ==
    /\ cells # NoCells /\ pc \in {"pass", "over"} /\ put + n <= MaxText
    /\ cells' = [c \in DOMAIN cells |->
                    IF c \in Ends(n) THEN EndMark
                    ELSE IF c \in write_ptr .. write_ptr + n - 1
                         THEN Char(put + c - write_ptr + 1) ELSE cells[c]]
    /\ write_ptr' = Wrap(write_ptr + n)
    /\ put' = put + n
    /\ pc' = "pass"
    /\ UNCHANGED <<read_ptr, first_line, total, line_len, sent>>
-----------------------------------------------------------------------------
\* get_line: where the next line starts, where the scan for its end stops, and
\* what is returned.
Start == Wrap(read_ptr)
Stop == Min({n \in 0 .. MaxLine : \/ n = MaxLine \/ Start + n = write_ptr
                                  \/ cells[Start + n] \in {EndMark, MoreMark}})
LineLen == IF Start = write_ptr \/ cells[Start + Stop] = MoreMark THEN 0 ELSE Stop

\* telnet_tx takes the first line.
First ==
    /\ cells # NoCells /\ pc \in {"pass", "over"}
    /\ read_ptr' = Start + LineLen
    /\ first_line' = Start
    /\ total' = LineLen /\ line_len' = LineLen
    /\ pc' = IF LineLen > 0 THEN "more" ELSE "over"
    /\ UNCHANGED <<cells, write_ptr, put, sent>>

\* And further ones while the packet has room.
More ==
    /\ pc = "more" /\ total < MaxTelnetTx /\ line_len > 0
    /\ read_ptr' = Start + LineLen
    /\ total' = total + LineLen /\ line_len' = LineLen
    /\ UNCHANGED <<cells, write_ptr, first_line, pc, put, sent>>

\* The packet is what lies behind the first line, whatever the lines were.
Packet == [k \in 1 .. total |-> IF first_line + k - 1 \in DOMAIN cells
                                  THEN cells[first_line + k - 1] ELSE Other]
Send ==
    /\ pc = "more" /\ (total >= MaxTelnetTx \/ line_len = 0)
    /\ sent' = sent \o Packet
    /\ pc' = "over"
    /\ UNCHANGED <<cells, write_ptr, read_ptr, first_line, total, line_len, put>>

TxNext == init_line_buffer \/ (\E n \in Texts : put_line(n)) \/ First \/ More \/ Send
-----------------------------------------------------------------------------
(* "Grab as many lines as possible to stuff into a packet": until the      *)
(* buffer comes round, the client is sent the text that was put, in order, *)
(* and when a pass is over nothing is left but what did not fit in a       *)
(* packet.  A packet always fits a frame.                                  *)
TextAsPut ==
    /\ total < MaxTelnetTx + MaxLine
    /\ put + MaxLine < LenBytes =>
          /\ \A k \in DOMAIN sent : k <= put /\ sent[k] = Char(k)
          /\ pc = "over" => Len(sent) = put \/ total >= MaxTelnetTx
=============================================================================
