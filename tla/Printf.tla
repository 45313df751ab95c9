------------------------------- MODULE Printf -------------------------------
(***************************************************************************)
(* The numbers that print (mini-libc/printf.c) writes, and get_hex, which  *)
(* reads them back when a user types them in.  Division is _div of         *)
(* mini-libc/libc_asm.S, which takes its operands for signed.              *)
(*                                                                         *)
(* A character is its code less that of '0'.                               *)
(***************************************************************************)
EXTENDS Integers, Sequences

CONSTANTS
    HexMax,    \* hexadecimal digits of an int, as many as get_hex reads: 8
    MaxWidth   \* bound: the width in a conversion

VARIABLES
    asked,   \* the conversion and its argument, or Idle
    out      \* the characters that were written

printfVars == <<asked, out>>

Powers ==
    LET power[n \in 0..HexMax] == IF n = 0 THEN 1 ELSE 16 * power[n - 1]
    IN  power
Mod  == Powers[HexMax]
Half == Mod \div 2
Word == 0..(Mod - 1)
Signed(u) == IF u >= Half THEN u - Mod ELSE u

Space == -16
Minus == -3
Nul   == -48
Zero  == 0
Letter == 49   \* 'a'

None == [conv |-> "none"]
Conversions ==
    [conv : {"d", "u", "x", "c"}, value : Word, width : 0..MaxWidth, right : BOOLEAN, zero : BOOLEAN]

Idle == asked = None /\ out = <<>>

\* _div by a positive number, of words taken for signed.
_div(u, b) == IF u >= Half THEN (Mod - ((Mod - u) \div b)) % Mod ELSE u \div b
Quotient(u, b) == IF b = 16 THEN u \div 16 ELSE _div(u, b)
Remainder(u, b) == IF b = 16 THEN u % 16 ELSE Signed((u - _div(u, b) * b) % Mod)

\* Mutation: ten is written as a digit.
DigitOffByOne(t) == IF t > 10 THEN t + Letter - 10 ELSE t

Digit(t) == IF t >= 10 THEN t + Letter - 10 ELSE t

\* What is left after n turns of the loop of printi, and the digits that it
\* puts into print_buf, from the end, until nothing is.
Left(u0, b) ==
    LET left[n \in 0..Mod] == IF n = 0 THEN u0 ELSE Quotient(left[n - 1], b)
    IN  left
Digits(u0, b) ==
    LET left == Left(u0, b)
        len  == CHOOSE n \in 1..Mod : left[n] = 0 /\ left[n - 1] # 0
    IN  [k \in 1..len |-> Digit(Remainder(left[len - k], b))]

\* How many padding characters a string gets.
Fill(string, width) == IF width > Len(string) THEN width - Len(string) ELSE 0

\* prints
Padded(string, width, right, zero) ==
    LET padding == [k \in 1..Fill(string, width) |-> IF zero THEN Zero ELSE Space]
    IN  IF right THEN string \o padding ELSE padding \o string

\* printi
Printed(u, b, sg, width, right, zero) ==
    LET neg    == sg /\ Signed(u) < 0
        digits == Digits(IF neg THEN (Mod - u) % Mod ELSE u, b)
    IN  IF u = 0 THEN Padded(<<Zero>>, width, right, zero)
        ELSE IF neg /\ width > 0 /\ zero THEN <<Minus>> \o Padded(digits, width - 1, right, zero)
        ELSE IF neg THEN Padded(<<Minus>> \o digits, width, right, zero)
        ELSE Padded(digits, width, right, zero)

\* print: one conversion of the format.
print ==
    /\ asked = None
    /\ asked' \in Conversions
    /\ LET a == asked'
           char == a.value - 48
       IN  out' = CASE a.conv = "d" -> Printed(a.value, 10, TRUE, a.width, a.right, a.zero)
                    [] a.conv = "u" -> Printed(a.value, 10, FALSE, a.width, a.right, a.zero)
                    [] a.conv = "x" -> Printed(a.value, 16, FALSE, a.width, a.right, a.zero)
                    [] a.conv = "c" -> Padded(IF char = Nul THEN <<>> ELSE <<char>>,
                                              a.width, a.right, a.zero)

Return == asked # None /\ asked' = None /\ out' = <<>>

PrintfNext == print \/ Return
-----------------------------------------------------------------------------
(* get_hex of utilities.c: the number at the beginning of a string. *)
IsHex(c) == c \in 0..9 \/ c \in Letter..(Letter + 5)
HexValue(c) == IF c \in 0..9 THEN c ELSE c - Letter + 10

get_hex(string) ==
    LET ends == {n \in 0..Len(string) : n = Len(string) \/ n = HexMax \/ ~IsHex(string[n + 1])}
        len  == CHOOSE n \in ends : \A m \in ends : n <= m
        num[n \in 0..Len(string)] == IF n = 0 THEN 0 ELSE (num[n - 1] * 16 + HexValue(string[n])) % Mod
    IN  [length |-> len, num |-> num[len]]
-----------------------------------------------------------------------------
(* What a reader makes of the characters, who skips spaces and the sign.   *)
Signs(string) == {k \in 1..Len(string) : string[k] = Minus /\ \A j \in 1..(k - 1) : string[j] = Space}
Magnitudes(string) ==
    LET upto[n \in 0..Len(string)] ==
          IF n = 0 THEN 0
          ELSE IF string[n] = Space \/ n \in Signs(string) THEN upto[n - 1]
          ELSE upto[n - 1] * 10 + string[n]
    IN  upto
Decimal(string) ==
    LET magnitude == Magnitudes(string)[Len(string)]
    IN  IF Signs(string) = {} THEN magnitude ELSE -magnitude

\* The top half of the words is printed wrongly where it counts as positive.
Misprinted(a) ==
    \/ a.conv = "u" /\ a.value >= Half
    \/ a.conv = "d" /\ a.value = Half

\* A printed number reads back as the number, and fills its width; zeros to
\* the right of a number make another one.  What %x prints with leading zeros
\* or without padding is what get_hex reads.
ReadsBack ==
    asked # None =>
        /\ Len(out) >= asked.width
        /\ \/ asked.zero /\ asked.right
           \/ asked.conv \notin {"d", "u"}
           \/ Misprinted(asked)
           \/ Decimal(out) = IF asked.conv = "d" THEN Signed(asked.value) ELSE asked.value
        /\ asked.conv = "x" /\ ~asked.right /\ asked.width <= HexMax /\ (asked.zero \/ asked.width = 0)
           => get_hex(out) = [length |-> Len(out), num |-> asked.value]
=============================================================================
