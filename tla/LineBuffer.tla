----------------------------- MODULE LineBuffer -----------------------------
(***************************************************************************)
(* The receive line buffer of a telnet connection (line-buffer.c,          *)
(* telnet.c).  The interrupt handler appends the bytes of a telnet packet  *)
(* with put_byte, each followed by a marker: 0 when the byte ended a line, *)
(* 1 when the line goes on.  The main loop takes lines out with get_line,  *)
(* which reads the buffer cell by cell and can be interrupted before each  *)
(* of those reads.                                                         *)
(*                                                                         *)
(* A byte is represented by its position in the stream the client typed,   *)
(* so that loss, reordering and duplication show; but a Ctrl-A, which      *)
(* parse_telnet_payload lets through, is the same byte as the second       *)
(* marker.                                                                 *)
(***************************************************************************)
EXTENDS Integers, Sequences

CONSTANTS
    LenBytes,   \* len_bytes, the size of the buffer (0x1000 in new_telnet)
    MaxLine,    \* MAX_LINE
    Styles      \* the ways in which a client types, one of them per behaviour

ASSUME SizeAssumption ==
    /\ MaxLine \in Nat \ {0}
    /\ LenBytes \in Nat /\ LenBytes > MaxLine + 1
\* packets:  what one telnet packet can hold, where 1 ends a line ('\r') and
\*           2 is a Ctrl-A;
\* lockstep: the client waits for the answer to a line;
\* most:     bound: the number of bytes it types.
ASSUME StylesAssumption ==
    \A s \in Styles : /\ s.packets \subseteq Seq({0, 1, 2})
                      /\ s.lockstep \in BOOLEAN
                      /\ s.most \in Nat

EndMark  == 0       \* the line is complete
MoreMark == 1       \* the line goes on
Junk     == -1      \* malloc does not clear the buffer
Byte(n)  == n + 1   \* the n-th byte typed, when it is none of the above

\* What is stored for it.
Stored(n, kind) == IF kind = 2 THEN MoreMark ELSE Byte(n)

VARIABLES
    style,      \* how this client types
    buf,        \* telnet_buf->buf
    write_ptr,  \* telnet_buf->write_ptr
    read_ptr,   \* telnet_buf->read_ptr
    packet,     \* the bytes the interrupt handler has yet to put
    pc,         \* where the main loop is in get_line
    snapshot,   \* get_line's copy of write_ptr
    len,        \* get_line's len
    ret,        \* what get_line returned: a line, or 0
    typed,      \* history: for each byte put, which kind it was
    taken,      \* history: the bytes get_line has returned
    cut         \* history: where in taken the last line begins

client  == <<style, packet, typed>>
history == <<taken, cut>>
vars == <<buf, write_ptr, read_ptr, pc, snapshot, len, ret, client, history>>

Cells == 0 .. LenBytes - 1

\* The line being typed has room for k more bytes.
FitsLine(k) ==
    \E n \in 0 .. Len(typed) :
        (n > 0 => typed[n] = 1) /\ Len(typed) - n + k <= MaxLine

\* A line whose end has been put but not returned.
CompleteLine == \E n \in Len(taken) + 1 .. Len(typed) : typed[n] = 1

(* Types; every index put_byte or get_line uses lies inside the buffer.    *)
TypeOK ==
    /\ style \in Styles
    /\ buf \in [Cells -> Int]
    /\ write_ptr \in Nat /\ write_ptr + MaxLine < LenBytes
    /\ read_ptr \in Nat /\ snapshot \in Nat
    /\ len \in 0 .. MaxLine
    /\ pc \in {"idle", "scan", "check"}
    /\ pc # "idle" => read_ptr + MaxLine < LenBytes
    /\ ret \in {"none", "line", "empty"}
    /\ packet \in Seq({0, 1, 2}) /\ typed \in Seq({0, 1, 2})
    /\ taken \in Seq(Int)
    /\ cut \in Nat

Init ==
    /\ style \in Styles
    /\ buf = [c \in Cells |-> Junk]
    /\ write_ptr = 0 /\ read_ptr = 0
    /\ packet = <<>> /\ typed = <<>>
    /\ pc = "idle" /\ snapshot = 0 /\ len = 0 /\ ret = "none"
    /\ taken = <<>> /\ cut = 0
-----------------------------------------------------------------------------
(* The interrupt handler: parse_telnet_payload, one put_byte per byte.     *)
(* The main loop does not run until the packet is done.  The client types  *)
(* lines of at most MaxLine bytes.                                         *)

Receive(p) ==
    /\ packet = <<>>
    /\ Len(typed) + Len(p) <= style.most /\ FitsLine(Len(p))
    /\ style.lockstep => ~CompleteLine
    /\ packet' = p
    /\ UNCHANGED <<style, buf, write_ptr, read_ptr, pc, snapshot, len, ret, typed, history>>

\* Mutation: the bytes run to the end of the buffer.
WrapLate(ptr) == IF ptr >= LenBytes THEN 0 ELSE ptr

\* Both pointers wrap as soon as a full line might not fit any more.
Wrap(ptr) == IF ptr + MaxLine >= LenBytes THEN 0 ELSE ptr

\* Mutation: the last byte of a line is marked like the others.
put_byteOpen ==
    /\ packet # <<>>
    /\ buf' = [buf EXCEPT
                ![write_ptr]     = Stored(Len(typed) + 1, Head(packet)),
                ![write_ptr + 1] = MoreMark]
    /\ write_ptr' = Wrap(write_ptr + 1)
    /\ typed' = Append(typed, Head(packet))
    /\ packet' = Tail(packet)
    /\ UNCHANGED <<style, read_ptr, pc, snapshot, len, ret, history>>

put_byte ==
    /\ packet # <<>>
    /\ buf' = [buf EXCEPT
                ![write_ptr]     = Stored(Len(typed) + 1, Head(packet)),
                ![write_ptr + 1] = IF Head(packet) = 1 THEN EndMark ELSE MoreMark]
    /\ write_ptr' = Wrap(write_ptr + 1)
    /\ typed' = Append(typed, Head(packet))
    /\ packet' = Tail(packet)
    /\ UNCHANGED <<style, read_ptr, pc, snapshot, len, ret, history>>
-----------------------------------------------------------------------------
(* get_line in the main loop.                                              *)

\* Copies write_ptr, wraps read_ptr, and returns 0 if they are equal.
GetLine ==
    /\ pc = "idle" /\ packet = <<>>
    /\ snapshot' = write_ptr
    /\ read_ptr' = Wrap(read_ptr)
    /\ len' = 0
    /\ IF read_ptr' = write_ptr
         THEN pc' = "idle" /\ ret' = "empty"
         ELSE pc' = "scan" /\ ret' = "none"
    /\ UNCHANGED <<buf, write_ptr, client, taken, cut>>

Here == buf[read_ptr + len]

\* Mutation: the scan never moves on.
ScanNoStep ==
    /\ pc = "scan" /\ packet = <<>>
    /\ IF read_ptr + len # snapshot /\ Here \notin {EndMark, MoreMark} /\ len < MaxLine
         THEN len' = len /\ pc' = "scan"
         ELSE len' = len /\ pc' = "check"
    /\ UNCHANGED <<buf, write_ptr, read_ptr, snapshot, ret, client, history>>

\* One test of the loop that looks for the next marker.
Scan ==
    /\ pc = "scan" /\ packet = <<>>
    /\ IF read_ptr + len # snapshot /\ Here \notin {EndMark, MoreMark} /\ len < MaxLine
         THEN len' = len + 1 /\ pc' = "scan"
         ELSE len' = len     /\ pc' = "check"
    /\ UNCHANGED <<buf, write_ptr, read_ptr, snapshot, ret, client, history>>

\* The line returned: the len bytes at read_ptr.
Line == [i \in 1 .. len |-> buf[read_ptr + i - 1] - Byte(0)]

\* Mutation: the line is handed out but not skipped.
CheckNoAdvance ==
    /\ pc = "check" /\ packet = <<>>
    /\ pc' = "idle"
    /\ IF Here = MoreMark \/ len = 0
         THEN ret' = "empty" /\ UNCHANGED <<read_ptr, taken, cut>>
         ELSE /\ ret' = "line"
              /\ read_ptr' = read_ptr
              /\ taken' = taken \o Line
              /\ cut' = Len(taken)
    /\ UNCHANGED <<buf, write_ptr, snapshot, len, client>>

\* Mutation: the marker is skipped as if each line kept its own.
CheckSkipMarker ==
    /\ pc = "check" /\ packet = <<>>
    /\ pc' = "idle"
    /\ IF Here = MoreMark \/ len = 0
         THEN ret' = "empty" /\ UNCHANGED <<read_ptr, taken, cut>>
         ELSE /\ ret' = "line"
              /\ read_ptr' = read_ptr + len + 1
              /\ taken' = taken \o Line
              /\ cut' = Len(taken)
    /\ UNCHANGED <<buf, write_ptr, snapshot, len, client>>

\* The last read: a MoreMark means that the line is not complete.
Check ==
    /\ pc = "check" /\ packet = <<>>
    /\ pc' = "idle"
    /\ IF Here = MoreMark \/ len = 0
         THEN ret' = "empty" /\ UNCHANGED <<read_ptr, taken, cut>>
         ELSE /\ ret' = "line"
              /\ read_ptr' = read_ptr + len
              /\ taken' = taken \o Line
              /\ cut' = Len(taken)
    /\ UNCHANGED <<buf, write_ptr, snapshot, len, client>>

MainLoop == GetLine \/ Scan \/ Check

Next == (\E p \in style.packets : Receive(p)) \/ put_byte \/ MainLoop

Spec == Init /\ [][Next]_vars

\* The handler finishes its packet and the main loop keeps polling; the
\* client owes nothing.
FairSpec == Spec /\ WF_vars(put_byte) /\ WF_vars(MainLoop)
-----------------------------------------------------------------------------
(* Properties.                                                             *)

\* The client types a line at a time, in one packet, and waits for its answer.
LineByLine ==
    /\ style.lockstep
    /\ \A p \in style.packets : \A i \in 1 .. Len(p) : p[i] = 1 <=> i = Len(p)

\* The buffer has not come round: byte n is still in cell n - 1.
FirstPass == Len(typed) + MaxLine < LenBytes

(* The bytes get_line returns are the bytes typed: none lost, repeated or  *)
(* out of order, wherever the lines were cut.  For a client that waits for *)
(* the answer to a line this holds through the wrap of the buffer.         *)
InOrder ==
    FirstPass \/ style.lockstep =>
        /\ Len(taken) <= Len(typed)
        /\ \A i \in 1 .. Len(taken) : taken[i] = i

(* Until the buffer comes round, get_line never looks at a cell that has   *)
(* not been written.                                                       *)
NoJunkRead == FirstPass /\ pc \in {"scan", "check"} => Here # Junk

(* "return 0 if buffer doesn't have a complete line": to a client that     *)
(* sends lines, get_line returns one complete line, its end the last byte. *)
WholeLine ==
    FirstPass /\ LineByLine /\ ret = "line" =>
        \A i \in cut + 1 .. Len(taken) :
            taken[i] \in DOMAIN typed /\ (typed[taken[i]] = 1 <=> i = Len(taken))

(* What get_line looks at was written, and what it returns is a line.      *)
ReadSound == NoJunkRead /\ WholeLine

(* Every line such a client completes before the buffer comes round is     *)
(* handed to the command interpreter, unless it typed a Ctrl-A: that line, *)
(* and every line behind it, never is.                                     *)
LineDelivered ==
    \A n \in 1 .. LenBytes - MaxLine - 1 :
        /\ LineByLine
        /\ Len(typed) >= n /\ typed[n] = 1
        /\ \A m \in 1 .. n : typed[m] # 2
        ~> Len(taken) >= n

\* No Ctrl-A was typed so far.
Tame == \A n \in 1 .. Len(typed) : typed[n] # 2

(* "Check if there are some chars from put_char but not a complete line":  *)
(* when get_line returns 0 to such a client, no line is complete.          *)
NothingHeld ==
    [][FirstPass /\ LineByLine /\ Tame /\ (GetLine \/ Check) /\ ret' = "empty"
       => ~CompleteLine]_vars
=============================================================================
