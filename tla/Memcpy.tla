------------------------------- MODULE Memcpy -------------------------------
(***************************************************************************)
(* mini-libc/memcpy.c as it is built: LITTLE_ENDIAN and INDEXED_COPY.  The *)
(* XMODEM receiver copies every packet with it, from an odd address.       *)
(*                                                                         *)
(* A cell of memory holds the address it had its content from, so that the *)
(* memory starts as the identity.  A word is the sequence of its bytes.    *)
(***************************************************************************)
EXTENDS Integers, Sequences

CONSTANTS
    TypeWidth,  \* TYPE_WIDTH: 4
    Unroll,     \* words of the unrolled loop: 8
    MaxCount,   \* bound: bytes copied
    Source      \* bound: the source starts here or up to TypeWidth - 1 above

VARIABLES mem, dest, src, count, dst8, src8, left, srcWord, at

memcpyVars == <<mem, dest, src, count, dst8, src8, left, srcWord, at>>

Addresses == 0..(Source + 2 * TypeWidth + MaxCount)
NoWord == <<>>

Idle ==
    /\ at = "idle" /\ mem = <<>> /\ srcWord = NoWord
    /\ dest = 0 /\ src = 0 /\ count = 0 /\ dst8 = 0 /\ src8 = 0 /\ left = 0

\* The call; source and destination do not overlap.
memcpy ==
    /\ at = "idle"
    /\ mem' = [a \in Addresses |-> a]
    /\ dest' \in 0..(TypeWidth - 1) /\ src' \in Source..(Source + TypeWidth - 1)
    /\ count' \in 0..MaxCount
    /\ dst8' = dest' /\ src8' = src' /\ srcWord' = NoWord
    /\ left' = count'
    /\ at' = IF count' < 2 * TypeWidth THEN "rest" ELSE "align"

\* One byte; left counts the bytes that are still to be copied.
Byte ==
    /\ mem' = [mem EXCEPT ![dst8] = mem[src8]]
    /\ dst8' = dst8 + 1 /\ src8' = src8 + 1 /\ left' = left - 1

Align ==
    /\ at = "align" /\ (dst8 % TypeWidth) # 0
    /\ Byte
    /\ UNCHANGED <<dest, src, count, srcWord, at>>

Word(a) == [k \in 1..TypeWidth |-> mem[a + k - 1]]
Aligned(a) == a - (a % TypeWidth)

\* The destination is aligned: the source decides.  COPY_SHIFT rounds it down
\* and reads the first word ahead.
Choose ==
    /\ at = "align" /\ (dst8 % TypeWidth) = 0
    /\ at' = IF (src8 % TypeWidth) = 0 THEN "words" ELSE "shifted"
    /\ srcWord' = IF (src8 % TypeWidth) = 0 THEN NoWord ELSE Word(Aligned(src8))
    /\ UNCHANGED <<mem, dest, src, count, dst8, src8, left>>

\* Words one by one until their number is a multiple of Unroll, then Unroll
\* at a time.
AtOnce == IF (left \div TypeWidth) % Unroll # 0 THEN 1 ELSE Unroll

NoShift ==
    /\ at = "words" /\ left >= TypeWidth
    /\ LET n == AtOnce * TypeWidth
       IN  /\ mem' = [b \in DOMAIN mem |-> IF b \in dst8..(dst8 + n - 1) THEN mem[src8 + b - dst8] ELSE mem[b]]
           /\ dst8' = dst8 + n /\ src8' = src8 + n /\ left' = left - n
    /\ UNCHANGED <<dest, src, count, srcWord, at>>

\* Mutation: the two shifts are exchanged.
JoinedSwapped(w, next, shift) ==
    SubSeq(w, TypeWidth - shift + 1, TypeWidth) \o SubSeq(next, 1, TypeWidth - shift)

\* CP_SH: the rest of the word read before, and the beginning of the next.
Joined(w, next, shift) == SubSeq(w, shift + 1, TypeWidth) \o SubSeq(next, 1, shift)

CopyShift ==
    /\ at = "shifted" /\ left >= TypeWidth
    /\ LET shift == src8 % TypeWidth
           word(k) == IF k = 0 THEN srcWord ELSE Word(Aligned(src8) + k * TypeWidth)
           n == AtOnce * TypeWidth
       IN  /\ mem' = [b \in DOMAIN mem |->
                         IF b \in dst8..(dst8 + n - 1)
                         THEN LET k == (b - dst8) \div TypeWidth
                              IN  Joined(word(k), word(k + 1), shift)[((b - dst8) % TypeWidth) + 1]
                         ELSE mem[b]]
           /\ srcWord' = word(AtOnce)
           /\ dst8' = dst8 + n /\ src8' = src8 + n /\ left' = left - n
    /\ UNCHANGED <<dest, src, count, at>>

\* COPY_REMAINING: the bytes that do not fill a word.
Remaining ==
    /\ \/ at = "rest"
       \/ at \in {"words", "shifted"} /\ left < TypeWidth
    /\ mem' = [b \in DOMAIN mem |-> IF b \in dst8..(dst8 + left - 1) THEN mem[src8 + b - dst8] ELSE mem[b]]
    /\ at' = "done"
    /\ UNCHANGED <<dest, src, count, dst8, src8, left, srcWord>>

Return ==
    /\ at = "done"
    /\ at' = "idle" /\ mem' = <<>> /\ srcWord' = NoWord
    /\ dest' = 0 /\ src' = 0 /\ count' = 0 /\ dst8' = 0 /\ src8' = 0 /\ left' = 0

MemcpyNext ==
    memcpy \/ Align \/ Choose \/ NoShift \/ CopyShift \/ Remaining \/ Return
-----------------------------------------------------------------------------
\* When memcpy returns the destination holds the source, byte for byte, at
\* every alignment of the two; and no step writes anywhere else.
CopyExact ==
    /\ at = "done" => \A k \in 0..(count - 1) : mem[dest + k] = src + k
    /\ \A a \in DOMAIN mem : a \notin dest..(dest + count - 1) => mem[a] = a
=============================================================================
