------------------------------ MODULE Console ------------------------------
(***************************************************************************)
(* The command line of the serial boot loader (boot-loader-serial/         *)
(* boot-loader-serial.c): main reads a key at a time into a buffer, edits  *)
(* it, recalls the last line, and gives each finished line to parse.       *)
(*                                                                         *)
(* A character is a one-letter string; "CR", "BS", "ESC", "NUL" and those  *)
(* that a transfer leaves over ("EOT", "CAN", "junk") are named.  A number is the  *)
(* sequence of its digits.  The terminal is known as far as the cursor.    *)
(***************************************************************************)
EXTENDS Integers, Sequences, SequencesExt

CONSTANTS
    LineMax,   \* characters of a line: 19, buf has one more
    HexMax     \* digits of a number: 8

ASSUME LineFits == HexMax \in Nat \ {0} /\ LineMax \in Nat /\ LineMax >= 3 + 2 * HexMax

VARIABLES
    buf, i,     \* the current line and its length
    lbuf, li,   \* the last line and its length
    esc,        \* how much of an escape sequence was seen
    busy,       \* "no", or what parse is at: "load" or "run"
    seen,       \* the terminal: what the line shows, up to the cursor, unless odd
    did,        \* history: what parse did last, and what the line showed then
    kept,       \* history: what it did for the last line that had a text
    odd,        \* history: the line holds characters that do not show
    fresh       \* history: the line is as it was recalled

consoleVars == <<buf, i, lbuf, li, esc, busy, seen, did, kept, odd, fresh>>

Hidden == {"NUL", "BS", "EOT", "CAN", "junk"}
Digits == {"1", "A", "b"}
Nothing == [op |-> "nothing"]

Init ==
    /\ buf = [k \in 0..LineMax |-> "NUL"] /\ lbuf = buf
    /\ i = 0 /\ li = 0 /\ esc = 0 /\ busy = "no" /\ seen = <<>>
    /\ did = [act |-> Nothing, shown |-> <<>>, odd |-> FALSE]
    /\ kept = [act |-> Nothing, full |-> TRUE]
    /\ odd = FALSE /\ fresh = FALSE
-----------------------------------------------------------------------------
(* parse *)

\* get_hex: the digits from a position on; one more than HexMax is read, and
\* pushes the first one out of the word.
get_hex(b, start) ==
    LET stops == {n \in 0..HexMax : b[start + n] \notin Digits}
        run   == IF stops = {} THEN HexMax + 1 ELSE CHOOSE n \in stops : \A m \in stops : n <= m
        first == IF run > HexMax THEN start + 1 ELSE start
    IN  [found  |-> run > 0,
         value  |-> [n \in 1..(IF run > HexMax THEN HexMax ELSE run) |-> b[first + n - 1]],
         length |-> IF run > HexMax THEN HexMax ELSE run]

get_data(b) == get_hex(b, 3 + get_hex(b, 2).length)

\* What parse makes of a finished line.
parse(b) ==
    LET a == get_hex(b, 2)
        d == get_data(b)
    IN  CASE b[1] = "NUL" -> Nothing
          [] b[1] = "CR"  -> [op |-> IF b[0] \in {"h", "l", "s"} THEN b[0] ELSE "invalid"]
          [] b[1] \notin {"NUL", "CR", " "} -> [op |-> "invalid"]
          [] b[1] = " " /\ b[0] \in {"j", "p", "r", "b"} ->
                IF a.found THEN [op |-> b[0], address |-> a.value] ELSE Nothing
          [] b[1] = " " /\ b[0] \in {"d", "w"} ->
                IF a.found /\ d.found
                THEN [op |-> b[0], address |-> a.value, data |-> d.value] ELSE Nothing
          [] OTHER -> [op |-> "invalid"]

\* load_run: a transfer, or the program takes over.
load_run(act) ==
    CASE act.op \in {"l", "b"} -> "load"
      [] act.op = "j"          -> "run"
      [] OTHER                 -> "no"
-----------------------------------------------------------------------------
(* main *)

\* What _outbyte shows: a backspace moves the cursor back.
Shown(s, c) ==
    CASE c = "BS"    -> IF s = <<>> THEN s ELSE Front(s)
      [] c \in Hidden \ {"BS"} -> s
      [] OTHER       -> Append(s, c)

\* Mutation: the first character cannot be rubbed out.
RubsButFirst(c) == c = "BS" /\ i > 1

\* A backspace takes the last character away; on an empty line it is stored.
Rubs(c) == c = "BS" /\ i > 0

\* Mutation: every line is kept for recall.
RememberedAlways(n) == TRUE

\* Lines without a text are not kept for recall.
Remembered(n) == n > 1

\* The end of a line of n characters.
EndLine(b, n, s, hidden) ==
    LET line == [b EXCEPT ![n] = "NUL"]
        act  == parse(line)
    IN  /\ lbuf' = IF Remembered(n) THEN b ELSE lbuf
        /\ li' = IF Remembered(n) THEN n - 1 ELSE li
        /\ buf' = line /\ i' = 0
        /\ busy' = load_run(act)
        /\ did' = [act |-> act, shown |-> s, odd |-> hidden]
        /\ kept' = IF n > 1 THEN [act |-> act, full |-> b[n - 1] # "CR"] ELSE kept
        /\ seen' = <<>> /\ odd' = FALSE

\* A character that is not part of an escape sequence.
Character(c) ==
    LET n == IF Rubs(c) THEN i - 1 ELSE i + 1
        b == IF Rubs(c) THEN buf ELSE [buf EXCEPT ![i] = c]
        s == Shown(seen, c)
        hidden == odd \/ (c \in Hidden /\ (c = "BS" => i = 0))
    IN  /\ fresh' = FALSE
        /\ IF c = "CR" \/ n >= LineMax
           THEN EndLine(b, n, IF c = "CR" THEN seen ELSE s, hidden)
           ELSE buf' = b /\ i' = n /\ seen' = s /\ odd' = hidden /\ UNCHANGED <<lbuf, li, busy, did, kept>>

\* Cursor up: the cursor goes back and the last line is written over this one.
Recall ==
    /\ buf' = [k \in 0..LineMax |-> IF k < li THEN lbuf[k] ELSE buf[k]]
    /\ i' = li
    /\ seen' = [k \in 1..li |-> lbuf[k - 1]]
    /\ odd' = (odd \/ \E k \in 0..(li - 1) : lbuf[k] \in Hidden)
    /\ fresh' = TRUE
    /\ UNCHANGED <<lbuf, li, busy, did, kept>>

\* The body of main's loop for the byte c.
Key(c) ==
    /\ busy = "no"
    /\ \/ /\ c = "ESC" /\ esc' = 1
          /\ UNCHANGED <<buf, i, lbuf, li, busy, seen, did, kept, odd, fresh>>
       \/ /\ c = "[" /\ esc = 1 /\ esc' = 2
          /\ UNCHANGED <<buf, i, lbuf, li, busy, seen, did, kept, odd, fresh>>
       \/ /\ c # "ESC" /\ esc = 2 /\ esc' = 0
          /\ IF c = "A" THEN Recall
             ELSE UNCHANGED <<buf, i, lbuf, li, busy, seen, did, kept, odd, fresh>>
       \/ /\ c # "ESC" /\ ~(c = "[" /\ esc = 1) /\ esc # 2 /\ esc' = 0
          /\ Character(c)

\* load_run has come back from a transfer.
Resume ==
    /\ busy = "load" /\ busy' = "no"
    /\ UNCHANGED <<buf, i, lbuf, li, esc, seen, did, kept, odd, fresh>>
-----------------------------------------------------------------------------
(* What a line that shows s asks for: a letter, or a letter and one or two *)
(* numbers, each the longest run of digits at its place.                   *)
Longest(s, from) ==
    CHOOSE n \in 0..Len(s) :
        /\ from + n - 1 <= Len(s) \/ n = 0
        /\ \A k \in from..(from + n - 1) : s[k] \in Digits
        /\ from + n > Len(s) \/ s[from + n] \notin Digits

Word(s, from) == SubSeq(s, from, from + Longest(s, from) - 1)
Number(s) == Word(s, 3)
Second(s) == Word(s, 4 + Len(Number(s)))

Asked(s) ==
    IF s = <<>> THEN Nothing
    ELSE IF Len(s) = 1 THEN [op |-> IF s[1] \in {"h", "l", "s"} THEN s[1] ELSE "invalid"]
    ELSE IF s[2] # " " \/ s[1] \notin {"d", "j", "p", "r", "b", "w"} THEN [op |-> "invalid"]
    ELSE IF Number(s) = <<>> \/ (s[1] \in {"d", "w"} /\ Second(s) = <<>>) THEN Nothing
    ELSE IF s[1] \in {"d", "w"} THEN [op |-> s[1], address |-> Number(s), data |-> Second(s)]
    ELSE [op |-> s[1], address |-> Number(s)]

Overlong(s) ==
    Len(s) > 2 /\ (Len(Number(s)) > HexMax \/ Len(Second(s)) > HexMax)

\* The command that is carried out is the one the terminal shows, through
\* backspaces, escape sequences and recalled lines, as long as every
\* character of the line shows and no number is too long.
ObeysScreen ==
    /\ i \in 0..(LineMax - 1)
    /\ odd \/ seen = [k \in 1..i |-> buf[k - 1]]
    /\ did.odd \/ Overlong(did.shown) \/ did.act = Asked(did.shown)

\* A recalled line that is entered again does what it did the first time,
\* unless its length had ended it: then its last character is gone.
RecallRepeats ==
    fresh /\ ~kept.full =>
        parse([buf EXCEPT ![i] = "CR", ![i + 1] = "NUL"]) = kept.act
=============================================================================
