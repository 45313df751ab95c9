---------------------------- MODULE UnitsProofs ----------------------------
(***************************************************************************)
(* Proofs about the units: malloc, the timer, memcpy, the ELF splitters,   *)
(* the telnet output, the memory bus and the UART, each as a part of       *)
(* UnitsSpec.  A step of one unit leaves the others alone, so that each    *)
(* has an invariant of its own.  DataProofs has the other units.           *)
(***************************************************************************)
EXTENDS Units, TLAPS, SequenceTheorems, WellFoundedInduction

-----------------------------------------------------------------------------
(* malloc.                                                                 *)

\* RoundUp goes up, by less than a granule, to a multiple of the granule.
LEMMA RoundUpBounds ==
    ASSUME NEW x \in Nat
    PROVE  /\ RoundUp(x) \in Nat
           /\ RoundUp(x) >= x
           /\ RoundUp(x) < x + Granule
           /\ RoundUp(x) % Granule = 0
BY SMT DEF RoundUp, Granule

-----------------------------------------------------------------------------
\* A step of another unit is no step of malloc.
LEMMA MallocAlone == UnitsSpec => Spec
<1>1. UnitsInit => Init
    BY DEF UnitsInit
<1>2. [UnitsNext]_all => [Next]_vars
    BY DEF UnitsNext, all
<1> QED
    BY <1>1, <1>2, PTL DEF UnitsSpec, Spec

-----------------------------------------------------------------------------
(* A sequence of blocks below a limit, each above the ones before it.      *)
Stacked(s, limit) ==
    /\ \A i \in 1 .. Len(s) : End(s[i]) <= limit
    /\ \A i, j \in 1 .. Len(s) : i < j => End(s[i]) <= s[j].addr

\* A block that starts at the limit keeps the sequence stacked below any
\* limit past the block's end.
LEMMA StackOneMore ==
    ASSUME NEW s \in Seq(Block), NEW limit \in Nat, NEW top \in Nat,
           NEW b \in Block, b.addr = limit, End(b) <= top, Stacked(s, limit)
    PROVE  Stacked(Append(s, b), top)
<1> DEFINE t == Append(s, b)
<1>1. Len(t) = Len(s) + 1 /\ t[Len(s) + 1] = b /\ Len(s) \in Nat
    OBVIOUS
<1>2. \A i \in 1 .. Len(s) : t[i] = s[i] /\ s[i] \in Block
    OBVIOUS
<1> HIDE DEF t
<1> USE DEF End, Block, Stacked
<1>3. limit <= top
    OBVIOUS
<1>4. \A i \in 1 .. Len(s) : End(t[i]) <= limit
    BY <1>2
<1>5. \A i \in 1 .. Len(t) : End(t[i]) <= top
    <2> SUFFICES ASSUME NEW i \in 1 .. Len(t) PROVE End(t[i]) <= top
        OBVIOUS
    <2>1. CASE i = Len(s) + 1
        BY <1>1, <2>1
    <2>2. CASE i \in 1 .. Len(s)
        <3>1. t[i] = s[i] /\ s[i] \in Block /\ End(t[i]) <= limit
            BY <1>2, <1>4, <2>2
        <3> QED
            BY <1>3, <3>1
    <2> QED
        BY <1>1, <2>1, <2>2
<1>6. \A i, j \in 1 .. Len(t) : i < j => End(t[i]) <= t[j].addr
    <2> SUFFICES ASSUME NEW i \in 1 .. Len(t), NEW j \in 1 .. Len(t), i < j
                 PROVE  End(t[i]) <= t[j].addr
        OBVIOUS
    <2>1. i \in 1 .. Len(s)
        BY <1>1
    <2>2. CASE j = Len(s) + 1
        BY <1>1, <1>4, <2>1, <2>2
    <2>3. CASE j \in 1 .. Len(s)
        <3>1. t[i] = s[i] /\ t[j] = s[j] /\ End(s[i]) <= s[j].addr
            BY <1>2, <2>1, <2>3
        <3> QED
            BY <3>1
    <2>4. j = Len(s) + 1 \/ j \in 1 .. Len(s)
        BY <1>1
    <2> QED
        BY <2>2, <2>3, <2>4
<1> QED
    BY <1>5, <1>6 DEF t

(* The inductive invariant: until a call is torn, the blocks are stacked   *)
(* below the pointer, and a call that has loaded the pointer still holds   *)
(* its current value.                                                      *)
BumpInv ==
    "store" \notin torn => /\ Stacked(blocks, pointer)
                           /\ pc = "store" => r2 = pointer

\* Each action of either caller keeps the types and BumpInv.
LEMMA BumpStep == TypeOK /\ BumpInv /\ [Next]_vars => TypeOK' /\ BumpInv'
<1> SUFFICES ASSUME TypeOK, BumpInv, [Next]_vars PROVE TypeOK' /\ BumpInv'
    OBVIOUS
<1> USE DEF TypeOK, Stores
<1>1. CASE \E n \in Sizes : Call(n)
    BY <1>1, SizesAssumption DEF Call, BumpInv
<1>2. CASE LoadPointer
    BY <1>2 DEF LoadPointer, BumpInv
<1>3. CASE StorePointer
    <2> DEFINE new == [addr |-> r2, size |-> size]
    <2>1. /\ blocks' = Append(blocks, new)
          /\ pointer' = RoundUp(size + r2)
          /\ torn' = torn /\ pc' = "load_count"
        BY <1>3 DEF StorePointer
    <2>2. size + r2 \in Nat /\ new \in Block /\ new.addr = r2
        BY <1>3 DEF StorePointer, Block
    <2>3. pointer' \in Nat /\ End(new) <= pointer'
        BY <2>1, <2>2, RoundUpBounds DEF End
    <2>4. TypeOK'
        BY <1>3, <2>1, <2>2, <2>3 DEF StorePointer
    <2>5. ASSUME "store" \notin torn PROVE Stacked(blocks', pointer')
        <3>1. r2 = pointer /\ Stacked(blocks, pointer)
            BY <1>3, <2>5 DEF StorePointer, BumpInv
        <3> HIDE DEF new
        <3> QED
            BY <2>1, <2>2, <2>3, <3>1, StackOneMore
    <2> QED
        BY <2>1, <2>4, <2>5 DEF BumpInv
<1>4. CASE LoadCount
    BY <1>4 DEF LoadCount, BumpInv
<1>5. CASE StoreCount
    BY <1>5 DEF StoreCount, BumpInv
<1>6. CASE \E n \in Sizes : IrqMalloc(n)
    <2> PICK n \in Sizes : IrqMalloc(n)
        BY <1>6
    <2> DEFINE new == [addr |-> pointer, size |-> n]
    <2>1. /\ blocks' = Append(blocks, new)
          /\ pointer' = RoundUp(n + pointer)
          /\ torn' = torn \cup ({pc} \cap Stores) /\ pc' = pc
        BY DEF IrqMalloc
    <2>2. n + pointer \in Nat /\ new \in Block /\ new.addr = pointer
        BY SizesAssumption DEF Block
    <2>3. pointer' \in Nat /\ End(new) <= pointer'
        BY <2>1, <2>2, SizesAssumption, RoundUpBounds DEF End
    <2>4. TypeOK'
        BY <2>1, <2>2, <2>3 DEF IrqMalloc
    <2>5. ASSUME "store" \notin torn' PROVE Stacked(blocks', pointer') /\ pc # "store"
        <3>1. pc # "store" /\ Stacked(blocks, pointer)
            BY <2>1, <2>5 DEF BumpInv
        <3> HIDE DEF new
        <3> QED
            BY <2>1, <2>2, <2>3, <3>1, StackOneMore
    <2> QED
        BY <2>1, <2>4, <2>5 DEF BumpInv
<1>7. CASE UNCHANGED vars
    BY <1>7 DEF vars, BumpInv
<1> QED
    BY <1>1, <1>2, <1>3, <1>4, <1>5, <1>6, <1>7 DEF Next, MainLoop

\* Until a call is torn, no two blocks overlap: with one caller at a time,
\* and with a handler that allocates at any other moment.
THEOREM TornIsTheOnlyOverlap == UnitsSpec => []DisjointUnlessTorn
<1>1. Init => TypeOK /\ BumpInv
    BY BaseAssumption DEF Init, TypeOK, BumpInv, Stacked, Block, Stores
<1>2. BumpInv => DisjointUnlessTorn
    BY DEF BumpInv, DisjointUnlessTorn, BlocksDisjoint, Stacked
<1> QED
    BY <1>1, <1>2, BumpStep, MallocAlone, PTL DEF Spec
-----------------------------------------------------------------------------
(* Alignment needs no mutual exclusion: whatever value the main loop       *)
(* loaded was once the pointer, and the pointer is always a multiple of    *)
(* the granule.                                                            *)
AlignInv ==
    /\ Aligned
    /\ pointer % Granule = 0
    /\ pc = "store" => r2 % Granule = 0

LEMMA AppendAligned ==
    ASSUME NEW s \in Seq(Block), NEW b \in Block, b.addr % Granule = 0,
           \A i \in 1 .. Len(s) : s[i].addr % Granule = 0
    PROVE  /\ Append(s, b) \in Seq(Block)
           /\ \A i \in 1 .. Len(Append(s, b)) : Append(s, b)[i].addr % Granule = 0
<1>1. Len(Append(s, b)) = Len(s) + 1 /\ Append(s, b) \in Seq(Block)
    OBVIOUS
<1>2. \A i \in 1 .. Len(s) : Append(s, b)[i] = s[i]
    OBVIOUS
<1>3. Append(s, b)[Len(s) + 1] = b
    OBVIOUS
<1> QED
    BY <1>1, <1>2, <1>3

LEMMA AlignStep == TypeOK /\ AlignInv /\ [Next]_vars => TypeOK' /\ AlignInv'
<1> SUFFICES ASSUME TypeOK, AlignInv, [Next]_vars PROVE TypeOK' /\ AlignInv'
    OBVIOUS
<1> USE DEF TypeOK, AlignInv, Aligned, Stores
<1>1. CASE \E n \in Sizes : Call(n)
    BY <1>1, SizesAssumption DEF Call
<1>2. CASE LoadPointer
    BY <1>2 DEF LoadPointer
<1>3. CASE StorePointer
    <2> DEFINE new == [addr |-> r2, size |-> size]
    <2>1. new \in Block /\ new.addr % Granule = 0
        BY <1>3 DEF StorePointer, Block
    <2>2. blocks' = Append(blocks, new) /\ pointer' = RoundUp(size + r2)
        BY <1>3 DEF StorePointer
    <2>3. blocks' \in Seq(Block) /\ Aligned'
        BY <2>1, <2>2, AppendAligned
    <2>4. pointer' \in Nat /\ pointer' % Granule = 0
        <3>1. size + r2 \in Nat
            OBVIOUS
        <3> QED
            BY <2>2, <3>1, RoundUpBounds
    <2> QED
        BY <1>3, <2>3, <2>4 DEF StorePointer
<1>4. CASE LoadCount
    BY <1>4 DEF LoadCount
<1>5. CASE StoreCount
    BY <1>5 DEF StoreCount
<1>6. CASE UNCHANGED vars
    BY <1>6 DEF vars
<1>7. CASE \E n \in Sizes : IrqMalloc(n)
    <2> PICK n \in Sizes : IrqMalloc(n)
        BY <1>7
    <2> DEFINE new == [addr |-> pointer, size |-> n]
    <2>1. n \in Nat \ {0}
        BY SizesAssumption
    <2>2. new \in Block /\ new.addr % Granule = 0
        BY <2>1 DEF Block
    <2>3. blocks' = Append(blocks, new) /\ pointer' = RoundUp(n + pointer)
        BY DEF IrqMalloc
    <2>4. blocks' \in Seq(Block) /\ Aligned'
        BY <2>2, <2>3, AppendAligned
    <2>5. pointer' \in Nat /\ pointer' % Granule = 0
        BY <2>1, <2>3, RoundUpBounds
    <2> QED
        BY <2>4, <2>5 DEF IrqMalloc
<1> QED
    BY <1>1, <1>2, <1>3, <1>4, <1>5, <1>6, <1>7 DEF Next, MainLoop

\* Every block is aligned, with the interrupt handler allocating or not.
THEOREM AlwaysAligned == UnitsSpec => [](TypeOK /\ Aligned)
<1>1. Init => TypeOK /\ AlignInv
    BY BaseAssumption DEF Init, TypeOK, AlignInv, Aligned, Block, Stores
<1>2. AlignInv => Aligned
    BY DEF AlignInv
<1> QED
    BY <1>1, <1>2, AlignStep, MallocAlone, PTL DEF Spec
-----------------------------------------------------------------------------
(* A timer.                                                                *)

(***************************************************************************)
(* What timer.c needs and never states: the ticks that fall into one call  *)
(* of set_timer fit into the sub-second part of the interval, and into the *)
(* rest of the second.  500 ms has it for up to 50 ticks; 1000 ms, whose   *)
(* sub-second part is 0, does not have it for a single one.                *)
(***************************************************************************)
Margin ==
    /\ H!TickMs * TicksPerCall <= H!mseconds
    /\ H!TickMs * TicksPerCall <= H!MsPerSecond - H!mseconds

-----------------------------------------------------------------------------
\* The interval splits into seconds and a rest below a second.
LEMMA IntervalSplit ==
    /\ H!seconds \in Nat /\ H!mseconds \in Nat /\ H!mseconds < H!MsPerSecond
    /\ Interval = H!MsPerSecond * H!seconds + H!mseconds
    /\ H!seconds > 0 \/ H!mseconds > 0
BY TimerAssumption, SMT DEF H!seconds, H!mseconds, H!MsPerSecond

\* The types are inductive.
LEMMA ClockStart == H!Init => H!TypeOK
BY DEF H!Init, H!TypeOK, H!Time, H!Setting, H!MsPerSecond, H!TickMs

LEMMA ClockStep == H!TypeOK /\ [H!Next]_(H!vars) => H!TypeOK'
<1> SUFFICES ASSUME H!TypeOK, [H!Next]_(H!vars) PROVE H!TypeOK'
    OBVIOUS
<1> USE IntervalSplit, TimerAssumption
    DEF H!TypeOK, H!Time, H!Setting, H!Polling, H!MsPerSecond, H!TickMs
<1>1. CASE H!TimerInterrupt
    BY <1>1 DEF H!TimerInterrupt
<1>2. CASE H!SetBranch
    BY <1>2 DEF H!SetBranch
<1>3. CASE H!SetSeconds
    BY <1>3 DEF H!SetSeconds
<1>4. CASE H!SetMilliseconds
    BY <1>4 DEF H!SetMilliseconds, H!Unsigned, H!Now, H!Millis
<1>5. CASE H!PollSeconds
    BY <1>5 DEF H!PollSeconds
<1>6. CASE H!PollEqual
    BY <1>6 DEF H!PollEqual
<1>7. CASE H!PollMilliseconds
    BY <1>7 DEF H!PollMilliseconds
<1>8. CASE H!Expired
    BY <1>8 DEF H!Expired, H!Now, H!Millis
<1>9. CASE UNCHANGED H!vars
    BY <1>9 DEF H!vars
<1> QED
    BY <1>1, <1>2, <1>3, <1>4, <1>5, <1>6, <1>7, <1>8, <1>9
    DEF H!Next, H!MainLoop

\* A step of another unit is no step of the timer.
LEMMA TimerAlone == UnitsSpec => H!Spec
<1>1. UnitsInit => H!Init
    BY DEF UnitsInit
<1>2. [UnitsNext]_all => [H!Next]_(H!vars)
    BY DEF UnitsNext, all, timing, H!vars
<1> QED
    BY <1>1, <1>2, PTL DEF UnitsSpec, H!Spec

\* The types of Timer, and a clock that is normalised at every moment.
LEMMA TypeCorrect == UnitsSpec => []H!TypeOK
<1> QED
    BY ClockStart, ClockStep, TimerAlone, PTL DEF H!Spec
-----------------------------------------------------------------------------
(***************************************************************************)
(* How late: what set_timer has stored so far is bounded by the clock.     *)
(* At "set_ms" the seconds of the timer lie between the ones it must       *)
(* reach and the ones the clock had when they were loaded.                 *)
(***************************************************************************)
StoreBounds ==
    /\ phase = "set_ms" =>
        /\ timer.s >= carry + H!seconds
        /\ timer.s <= now.s + carry + H!seconds
    /\ phase \in H!Polling =>
        /\ H!MsPerSecond * (timer.s - H!seconds - 1) <= done
        /\ H!IsSet(timer)

LEMMA StoreStep == H!TypeOK /\ StoreBounds /\ [H!Next]_(H!vars) => StoreBounds'
<1> SUFFICES ASSUME H!TypeOK, StoreBounds, [H!Next]_(H!vars) PROVE StoreBounds'
    OBVIOUS
<1> USE IntervalSplit, TimerAssumption
    DEF H!TypeOK, H!Time, H!Setting, H!Polling, H!MsPerSecond, H!TickMs, StoreBounds, H!IsSet
<1>1. CASE H!TimerInterrupt
    BY <1>1 DEF H!TimerInterrupt
<1>2. CASE H!SetBranch
    BY <1>2 DEF H!SetBranch
<1>3. CASE H!SetSeconds
    BY <1>3 DEF H!SetSeconds
<1>4. CASE H!SetMilliseconds
    BY <1>4 DEF H!SetMilliseconds, H!Unsigned, H!Now, H!Millis
<1>5. CASE H!PollSeconds
    BY <1>5 DEF H!PollSeconds
<1>6. CASE H!PollEqual
    BY <1>6 DEF H!PollEqual
<1>7. CASE H!PollMilliseconds
    BY <1>7 DEF H!PollMilliseconds
<1>8. CASE H!Expired
    BY <1>8 DEF H!Expired
<1>9. CASE UNCHANGED H!vars
    BY <1>9 DEF H!vars
<1> QED
    BY <1>1, <1>2, <1>3, <1>4, <1>5, <1>6, <1>7, <1>8, <1>9
    DEF H!Next, H!MainLoop

(* The clock stays normalised, and what set_timer stores is a timer that   *)
(* is set and not too late (ArmedIsSet, LateBound), for every interval and *)
(* any number of ticks.                                                    *)
THEOREM TornIsBounded == UnitsSpec => []ClockInv
<1>1. H!Init => StoreBounds
    BY DEF H!Init, StoreBounds, H!Polling
<1>2. H!TypeOK /\ StoreBounds => ClockInv
    BY IntervalSplit
    DEF H!TypeOK, H!Time, StoreBounds, ClockInv, H!ClockInv, H!ArmedIsSet, H!LateBound,
        H!ReadsExpired, H!Now, H!Millis, H!MsPerSecond, H!TickMs
<1> QED
    BY <1>1, <1>2, ClockStart, ClockStep, StoreStep, TimerAlone, PTL DEF H!Spec
-----------------------------------------------------------------------------
(***************************************************************************)
(* Never early, given Margin.  Where set_timer has decided not to carry,   *)
(* no tick of its budget can leave the current second; where it carries,   *)
(* either the second is still the one it started in, or the clock has just *)
(* wrapped and the millisecond subtraction will borrow, which makes the    *)
(* timer late and never early.                                             *)
(***************************************************************************)
SameSecond ==
    /\ now.ms < H!MsPerSecond - H!mseconds + H!TickMs * ticks
    /\ armed + H!mseconds < H!MsPerSecond * (now.s + 1)

JustWrapped == now.ms < H!TickMs * ticks

NotEarly ==
    /\ armed <= H!Now
    /\ phase \in H!Setting => ticks <= TicksPerCall
    /\ phase = "set_seconds" =>
        \/ carry = 0 /\ SameSecond
        \/ carry = 1 /\ (now.ms >= H!MsPerSecond - H!mseconds \/ JustWrapped)
    /\ phase = "set_ms" =>
        \/ carry = 0 /\ SameSecond /\ timer.s = now.s + H!seconds
        \/ /\ carry = 1
           /\ armed < H!MsPerSecond * (timer.s - H!seconds)
           /\ timer.s = now.s + 1 + H!seconds \/ JustWrapped
    /\ phase \in H!Polling =>
        /\ armed + Interval < H!MsPerSecond * (timer.s + 1)
        /\ armed + Interval <= H!Millis(timer)
    /\ phase = "poll_ms" => timer.s <= now.s
    /\ phase = "expired" => H!Now > armed + Interval

LEMMA NotEarlyStep ==
    ASSUME Margin
    PROVE  H!TypeOK /\ NotEarly /\ [H!Next]_(H!vars) => NotEarly'
<1> SUFFICES ASSUME H!TypeOK, NotEarly, [H!Next]_(H!vars) PROVE NotEarly'
    OBVIOUS
<1> USE IntervalSplit, TimerAssumption, Margin
    DEF H!TypeOK, H!Time, H!Setting, H!Polling, H!MsPerSecond, H!TickMs, NotEarly, Margin,
        SameSecond, JustWrapped, H!Now, H!Millis
<1>1. CASE H!TimerInterrupt
    BY <1>1 DEF H!TimerInterrupt
<1>2. CASE H!SetBranch
    BY <1>2 DEF H!SetBranch
<1>3. CASE H!SetSeconds
    BY <1>3 DEF H!SetSeconds
<1>4. CASE H!SetMilliseconds
    BY <1>4 DEF H!SetMilliseconds, H!Unsigned
<1>5. CASE H!PollSeconds
    BY <1>5 DEF H!PollSeconds
<1>6. CASE H!PollEqual
    BY <1>6 DEF H!PollEqual
<1>7. CASE H!PollMilliseconds
    BY <1>7 DEF H!PollMilliseconds
<1>8. CASE H!Expired
    BY <1>8 DEF H!Expired
<1>9. CASE UNCHANGED H!vars
    BY <1>9 DEF H!vars
<1> QED
    BY <1>1, <1>2, <1>3, <1>4, <1>5, <1>6, <1>7, <1>8, <1>9
    DEF H!Next, H!MainLoop

\* With Margin, no interleaving of the timer interrupt makes a timer fire early.
THEOREM NeverEarlyHolds ==
    ASSUME Margin
    PROVE  UnitsSpec => []NeverEarly
<1>1. H!Init => NotEarly
    BY TimerAssumption
    DEF H!Init, NotEarly, H!Polling, H!Setting, H!Now, H!Millis, H!MsPerSecond
<1>2. NotEarly => NeverEarly
    BY DEF NotEarly, NeverEarly, H!NeverEarly
<1>3. H!TypeOK /\ NotEarly /\ [H!Next]_(H!vars) => NotEarly'
    BY NotEarlyStep, Margin
<1> QED
    BY <1>1, <1>2, <1>3, ClockStart, ClockStep, TimerAlone, PTL DEF H!Spec
-----------------------------------------------------------------------------
(* memcpy.                                                                 *)

\* The memory after n bytes.
After(n) == [a \in C!Addresses |-> IF a \in dest .. (dest + n - 1) THEN src + (a - dest) ELSE a]

\* What was read ahead of a shifted source, the bytes that count.
WordAhead ==
    LET shift == src8 % TypeWidth
    IN  /\ shift # 0
        /\ \A j \in (shift + 1) .. TypeWidth : srcWord[j] = src8 - shift + j - 1
        /\ srcWord \in [1 .. TypeWidth -> Int]

Copying ==
    /\ dest \in 0 .. TypeWidth - 1 /\ src \in Source .. Source + TypeWidth - 1
    /\ copied \in 0 .. MaxCount /\ left \in 0 .. copied
    /\ dst8 = dest + (copied - left) /\ src8 = src + (copied - left)
    /\ mem = After(IF at = "done" THEN copied ELSE copied - left)
    /\ at = "align" => copied >= 2 * TypeWidth /\ dst8 <= TypeWidth
    /\ at = "shifted" => WordAhead
    /\ at \in {"align", "words", "shifted", "rest", "done"}

CopyInv ==
    /\ at = "idle" => mem = <<>>
    /\ at # "idle" => Copying
-----------------------------------------------------------------------------
\* Quotient and remainder, for a divisor that is not a number but a name.
LEMMA Division ==
    ASSUME NEW a \in Nat, NEW d \in Nat \ {0}
    PROVE  \E q \in Nat, r \in 0 .. d - 1 : q = a \div d /\ r = a % d /\ a = d * q + r
OBVIOUS

LEMMA LeastFactor ==
    ASSUME NEW a \in Nat, NEW b \in Nat, NEW d \in Nat, a <= b
    PROVE  a * d <= b * d
<1>1. PICK c \in Nat : b = a + c
    <2>1. b - a \in Nat /\ b = a + (b - a)
        OBVIOUS
    <2> QED
        BY <2>1
<1>2. b * d = a * d + c * d
    BY <1>1
<1>3. c * d \in Nat /\ a * d \in Nat
    OBVIOUS
<1> QED
    BY <1>2, <1>3

LEMMA Remainder ==
    ASSUME NEW a \in Nat, NEW d \in Nat \ {0}, NEW q \in Nat, NEW r \in 0 .. d - 1, a = d * q + r
    PROVE  a % d = r
<1>1. PICK p \in Nat, s \in 0 .. d - 1 : s = a % d /\ a = d * p + s
    BY Division
<1>2. ~(p < q)
    <2>1. SUFFICES ASSUME p < q PROVE FALSE
        OBVIOUS
    <2>2. (p + 1) * d <= q * d
        BY <1>1, <2>1, LeastFactor
    <2>3. (p + 1) * d = d * p + d /\ q * d = d * q
        BY <1>1
    <2>4. d * p \in Nat /\ d * q \in Nat
        BY <1>1
    <2> QED
        BY <1>1, <2>2, <2>3, <2>4
<1>3. ~(q < p)
    <2>1. SUFFICES ASSUME q < p PROVE FALSE
        OBVIOUS
    <2>2. (q + 1) * d <= p * d
        BY <1>1, <2>1, LeastFactor
    <2>3. (q + 1) * d = d * q + d /\ p * d = d * p
        BY <1>1
    <2>4. d * p \in Nat /\ d * q \in Nat
        BY <1>1
    <2> QED
        BY <1>1, <2>2, <2>3, <2>4
<1>4. p = q
    BY <1>1, <1>2, <1>3
<1>5. d * p \in Nat
    BY <1>1
<1>6. s = r
    BY <1>1, <1>4, <1>5
<1> QED
    BY <1>1, <1>6

LEMMA SameRemainder ==
    ASSUME NEW a \in Nat, NEW d \in Nat \ {0}, NEW m \in Nat
    PROVE  (a + m * d) % d = a % d
<1>1. PICK q \in Nat, r \in 0 .. d - 1 : r = a % d /\ a = d * q + r
    BY Division
<1>2. q + m \in Nat /\ a + m * d \in Nat
    BY <1>1
<1>3. d * (q + m) = d * q + m * d
    OBVIOUS
<1>4. d * q \in Nat /\ m * d \in Nat
    OBVIOUS
<1>5. a + m * d = d * (q + m) + r
    BY <1>1, <1>3, <1>4
<1>6. (a + m * d) % d = r
    BY <1>2, <1>5, Remainder
<1> QED
    BY <1>1, <1>6

\* What is copied at once is there to be copied.
LEMMA EnoughLeft ==
    ASSUME left \in Nat, left >= TypeWidth
    PROVE  C!AtOnce \in Nat \ {0} /\ C!AtOnce * TypeWidth <= left
<1> DEFINE q == left \div TypeWidth
<1>1. q \in Nat /\ q * TypeWidth <= left /\ q >= 1
    <2>1. PICK d \in Nat, r \in 0 .. TypeWidth - 1 : d = q /\ left = TypeWidth * d + r
        BY Division, CopyAssumption
    <2> HIDE DEF q
    <2>2. TypeWidth * d = d * TypeWidth /\ d * TypeWidth \in Nat
        BY CopyAssumption
    <2>3. d # 0
        BY <2>1, CopyAssumption
    <2> QED
        BY <2>1, <2>2, <2>3, CopyAssumption
<1>2. CASE q % Unroll # 0
    <2>1. C!AtOnce = 1
        BY <1>2 DEF C!AtOnce
    <2> QED
        BY <2>1, CopyAssumption
<1>3. CASE q % Unroll = 0
    <2>1. C!AtOnce = Unroll
        BY <1>3 DEF C!AtOnce
    <2> HIDE DEF q
    <2>2. PICK d \in Nat : q = Unroll * d
        <3>1. PICK d \in Nat, r \in 0 .. Unroll - 1 : r = q % Unroll /\ q = Unroll * d + r
            BY <1>1, Division, CopyAssumption
        <3>2. Unroll * d \in Nat /\ r = 0
            BY <1>3, <3>1, CopyAssumption
        <3> QED
            BY <3>1, <3>2
    <2>3. d >= 1
        <3>1. d # 0
            BY <1>1, <2>2, CopyAssumption
        <3> QED
            BY <3>1
    <2>4. 1 * Unroll <= d * Unroll
        BY <2>3, LeastFactor, CopyAssumption
    <2>5. Unroll <= q
        BY <2>2, <2>4, CopyAssumption
    <2>6. Unroll * TypeWidth <= q * TypeWidth
        BY <1>1, <2>5, LeastFactor, CopyAssumption
    <2>7. Unroll * TypeWidth \in Nat /\ q * TypeWidth \in Nat
        BY <1>1, CopyAssumption
    <2> QED
        BY <1>1, <2>1, <2>6, <2>7, CopyAssumption
<1> QED
    BY <1>2, <1>3

\* Reading the source: no byte of it was overwritten.
LEMMA SourceKept ==
    ASSUME Copying, NEW n \in 0 .. copied, NEW a \in C!Addresses, a >= Source
    PROVE  After(n)[a] = a
BY CopyAssumption DEF Copying, After, C!Addresses

\* n further bytes that come from where they should.
LEMMA FurtherBytes ==
    ASSUME Copying, at # "done", NEW n \in 0 .. left, NEW g,
           g = [b \in DOMAIN mem |-> g[b]],
           \A b \in C!Addresses :
               g[b] = IF b \in dst8 .. (dst8 + n - 1) THEN src8 + (b - dst8) ELSE mem[b]
    PROVE  g = After(copied - left + n)
<1>1. mem = After(copied - left) /\ DOMAIN mem = C!Addresses
    BY DEF Copying, After
<1>2. /\ dest \in Nat /\ src \in Nat /\ copied \in Nat /\ left \in 0 .. copied
      /\ dst8 = dest + (copied - left) /\ src8 = src + (copied - left)
    BY CopyAssumption DEF Copying
<1>3. ASSUME NEW b \in C!Addresses PROVE g[b] = After(copied - left + n)[b]
    <2>1. b \in Nat
        BY DEF C!Addresses
    <2>2. CASE b \in dst8 .. (dst8 + n - 1)
        <3>1. b \in dest .. (dest + (copied - left + n) - 1)
              /\ src8 + (b - dst8) = src + (b - dest)
            BY <1>2, <2>1, <2>2
        <3> QED
            BY <2>2, <3>1 DEF After
    <2>3. CASE b \notin dst8 .. (dst8 + n - 1)
        <3>1. g[b] = After(copied - left)[b]
            BY <1>1, <2>3
        <3>2. b \in dest .. (dest + (copied - left + n) - 1)
              <=> b \in dest .. (dest + (copied - left) - 1)
            BY <1>2, <2>1, <2>3
        <3> QED
            BY <3>1, <3>2 DEF After
    <2> QED
        BY <2>2, <2>3
<1> HIDE DEF After
<1>4. After(copied - left + n) = [b \in C!Addresses |-> After(copied - left + n)[b]]
    BY DEF After
<1> QED
    BY <1>1, <1>3, <1>4

LEMMA CopyCallStep ==
    ASSUME C!memcpy
    PROVE  Copying'
<1>1. PICK d \in 0 .. TypeWidth - 1, s \in Source .. Source + TypeWidth - 1, n \in 0 .. MaxCount :
          /\ dest' = d /\ src' = s /\ copied' = n /\ dst8' = d /\ src8' = s /\ left' = n
          /\ mem' = [a \in C!Addresses |-> a]
          /\ at' = IF n < 2 * TypeWidth THEN "rest" ELSE "align"
    BY DEF C!memcpy
<1>2. n \in Nat /\ d \in Nat /\ s \in Nat /\ d <= TypeWidth
    BY CopyAssumption
<1>3. n - n = 0 /\ d .. (d + 0 - 1) = {} /\ n \in 0 .. n
      /\ d = d + (n - n) /\ s = s + (n - n)
    BY <1>2
<1>4. mem' = [a \in C!Addresses |-> IF a \in d .. (d + (n - n) - 1) THEN s + (a - d) ELSE a]
    BY <1>1, <1>3
<1>5. at' = "align" => n >= 2 * TypeWidth
    BY <1>1, <1>2, CopyAssumption
<1>6. at' \in {"align", "rest"}
    BY <1>1
<1>7. mem' = After(copied - left)'
    BY <1>1, <1>4 DEF After
<1> QED
    BY <1>1, <1>2, <1>3, <1>5, <1>6, <1>7 DEF Copying

\* The numbers of a call, and the bytes that it reads and writes.
LEMMA CallNumbers ==
    ASSUME Copying
    PROVE  /\ dest \in Nat /\ src \in Nat /\ copied \in Nat /\ left \in Nat
           /\ dst8 \in Nat /\ src8 \in Nat /\ left <= copied
           /\ dst8 = dest + (copied - left) /\ src8 = src + (copied - left)
           /\ \A b \in Int : b >= src8 /\ b < src8 + left + TypeWidth => b \in C!Addresses /\ b >= Source
           /\ \A b \in Int : b >= dst8 /\ b < dst8 + left => b \in C!Addresses
BY CopyAssumption DEF Copying, C!Addresses

LEMMA SourceByte ==
    ASSUME Copying, at # "done", NEW b \in Int, b >= src8, b < src8 + left + TypeWidth
    PROVE  mem[b] = b
<1>1. b \in C!Addresses /\ b >= Source /\ copied - left \in 0 .. copied
    BY CallNumbers
<1>2. mem = After(copied - left)
    BY DEF Copying
<1> QED
    BY <1>1, <1>2, SourceKept

\* A step that copies n bytes and stays in the routine.
LEMMA CopiesOn ==
    ASSUME Copying, at # "done", NEW n \in 0 .. left, NEW g, mem' = [b \in DOMAIN mem |-> g[b]],
           \A b \in C!Addresses :
               g[b] = IF b \in dst8 .. (dst8 + n - 1) THEN src8 + (b - dst8) ELSE mem[b],
           dst8' = dst8 + n, src8' = src8 + n, left' = left - n,
           UNCHANGED <<dest, src, copied>>
    PROVE  /\ left' \in 0 .. copied'
           /\ dst8' = dest' + (copied' - left') /\ src8' = src' + (copied' - left')
           /\ mem' = After(copied - left)'
<1>1. /\ dest \in Nat /\ src \in Nat /\ copied \in Nat /\ left \in Nat /\ left <= copied
      /\ dst8 = dest + (copied - left) /\ src8 = src + (copied - left) /\ n \in Nat
    BY CallNumbers
<1>2. copied - left + n = copied - (left - n)
    BY <1>1
<1>3. mem' = After(copied - left + n)
    <2> DEFINE h == [b \in DOMAIN mem |-> g[b]]
    <2>1. DOMAIN mem = C!Addresses
        BY DEF Copying, After
    <2>2. h = [b \in DOMAIN mem |-> h[b]]
        OBVIOUS
    <2>3. \A b \in C!Addresses :
              h[b] = IF b \in dst8 .. (dst8 + n - 1) THEN src8 + (b - dst8) ELSE mem[b]
        BY <2>1
    <2>4. mem' = h
        OBVIOUS
    <2> HIDE DEF h
    <2> QED
        BY <2>2, <2>3, <2>4, FurtherBytes
<1>4. After(copied - left)' = After(copied - left + n)
    BY <1>2 DEF After
<1>5. left - n \in 0 .. copied
    BY <1>1
<1>6. dst8 + n = dest + (copied - (left - n)) /\ src8 + n = src + (copied - (left - n))
    BY <1>1
<1> QED
    BY <1>3, <1>4, <1>5, <1>6

\* Memory holds numbers, in the words that the source touches too.
LEMMA WordRead ==
    ASSUME Copying, NEW a \in Int, a > src8 - TypeWidth, a <= src8 + left
    PROVE  C!Word(a) \in [1 .. TypeWidth -> Int]
<1>1. dest \in Nat /\ src \in Nat /\ DOMAIN mem = C!Addresses
      /\ \A b \in C!Addresses : mem[b] \in Int
    <2>1. dest \in Nat /\ src \in Nat
        BY CallNumbers
    <2> QED
        BY <2>1 DEF Copying, After, C!Addresses
<1>2. ASSUME NEW k \in 1 .. TypeWidth PROVE mem[a + k - 1] \in Int
    <2>1. src8 >= Source /\ src8 + left <= Source + TypeWidth + MaxCount /\ src8 \in Nat /\ left \in Nat
        BY CopyAssumption DEF Copying
    <2>2. a + k - 1 \in C!Addresses
        BY <2>1, CopyAssumption DEF C!Addresses
    <2> QED
        BY <1>1, <2>2
<1> QED
    BY <1>2 DEF C!Word

LEMMA CopyAlignStep ==
    ASSUME Copying, C!Align
    PROVE  Copying'
<1>1. /\ at = "align" /\ dst8 % TypeWidth # 0 /\ UNCHANGED <<dest, src, copied, srcWord, at>>
      /\ mem' = [mem EXCEPT ![dst8] = mem[src8]]
      /\ dst8' = dst8 + 1 /\ src8' = src8 + 1 /\ left' = left - 1
    BY DEF C!Align, C!Byte
<1>2. /\ dest \in Nat /\ copied \in Nat /\ left \in Nat /\ dst8 \in Nat /\ src8 \in Nat
      /\ dst8 = dest + (copied - left)
    BY CallNumbers
<1>3. copied >= 2 * TypeWidth /\ dst8 <= TypeWidth
    BY <1>1 DEF Copying
<1>4. dst8 # TypeWidth
    <2>1. TypeWidth = TypeWidth * 1 + 0
        BY CopyAssumption
    <2>2. TypeWidth % TypeWidth = 0
        BY <2>1, Remainder, CopyAssumption
    <2> QED
        BY <1>1, <2>2
<1>5. left >= 1 /\ dst8 + 1 <= TypeWidth
    BY <1>2, <1>3, <1>4, CopyAssumption
<1>6. mem[src8] = src8
    BY <1>1, <1>2, SourceByte, CopyAssumption
<1>7. mem' = [b \in DOMAIN mem |-> mem'[b]]
    BY <1>1
<1>8. ASSUME NEW b \in C!Addresses
      PROVE  mem'[b] = IF b \in dst8 .. (dst8 + 1 - 1) THEN src8 + (b - dst8) ELSE mem[b]
    <2>1. DOMAIN mem = C!Addresses /\ b \in Nat
        BY DEF Copying, After, C!Addresses
    <2>2. b \in dst8 .. (dst8 + 1 - 1) <=> b = dst8
        BY <1>2, <2>1
    <2>3. src8 + (dst8 - dst8) = src8
        BY <1>2
    <2> QED
        BY <1>1, <1>6, <2>1, <2>2, <2>3
<1>9. /\ left' \in 0 .. copied'
      /\ dst8' = dest' + (copied' - left') /\ src8' = src' + (copied' - left')
      /\ mem' = After(copied - left)'
    <2>1. 1 \in 0 .. left
        BY <1>2, <1>5
    <2> QED
        BY <1>1, <1>7, <1>8, <2>1, CopiesOn
<1> QED
    BY <1>1, <1>3, <1>5, <1>9 DEF Copying

LEMMA CopyChooseStep ==
    ASSUME Copying, C!Choose
    PROVE  Copying'
<1>1. /\ at = "align" /\ UNCHANGED <<mem, dest, src, copied, dst8, src8, left>>
      /\ at' = IF (src8 % TypeWidth) = 0 THEN "words" ELSE "shifted"
      /\ srcWord' = IF (src8 % TypeWidth) = 0 THEN C!NoWord ELSE C!Word(C!Aligned(src8))
    BY DEF C!Choose
<1>2. mem = After(copied - left) /\ After(copied - left)' = After(copied - left)
    BY <1>1 DEF Copying, After
<1>3. src8 \in Nat /\ left \in Nat
    BY CallNumbers
<1>4. ASSUME src8 % TypeWidth # 0 PROVE WordAhead'
    <2>1. PICK q \in Nat, shift \in 0 .. TypeWidth - 1 : shift = src8 % TypeWidth
        BY <1>3, Division, CopyAssumption
    <2>2. srcWord' = [j \in 1 .. TypeWidth |-> mem[src8 - shift + j - 1]]
        BY <1>1, <1>4, <2>1 DEF C!Word, C!Aligned
    <2>3. ASSUME NEW j \in (shift + 1) .. TypeWidth
          PROVE  srcWord'[j] = src8 - shift + j - 1
        <3>1. src8 - shift + j - 1 \in Int /\ src8 - shift + j - 1 >= src8
              /\ src8 - shift + j - 1 < src8 + left + TypeWidth /\ j \in 1 .. TypeWidth
            BY <1>3, <2>1, CopyAssumption
        <3> QED
            BY <1>1, <2>2, <3>1, SourceByte
    <2>4. srcWord' \in [1 .. TypeWidth -> Int]
        <3>1. srcWord' = C!Word(src8 - shift)
            BY <1>1, <1>4, <2>1 DEF C!Aligned
        <3> QED
            BY <1>3, <2>1, <3>1, WordRead, CopyAssumption
    <2>5. src8' % TypeWidth = shift /\ shift # 0 /\ src8' = src8
        BY <1>1, <1>4, <2>1
    <2> QED
        BY <2>3, <2>4, <2>5 DEF WordAhead
<1> QED
    BY <1>1, <1>2, <1>4 DEF Copying

LEMMA CopyWordsStep ==
    ASSUME Copying, C!NoShift
    PROVE  Copying'
<1> DEFINE n == C!AtOnce * TypeWidth
           g == [b \in DOMAIN mem |-> IF b \in dst8 .. (dst8 + n - 1) THEN mem[src8 + b - dst8] ELSE mem[b]]
<1>1. /\ at = "words" /\ left >= TypeWidth /\ UNCHANGED <<dest, src, copied, srcWord, at>>
      /\ mem' = g /\ dst8' = dst8 + n /\ src8' = src8 + n /\ left' = left - n
    BY DEF C!NoShift
<1>2. dst8 \in Nat /\ src8 \in Nat /\ left \in Nat
    BY CallNumbers
<1>3. C!AtOnce \in Nat \ {0} /\ n <= left
    BY <1>1, <1>2, EnoughLeft
<1>4. n \in Nat
    BY <1>3, CopyAssumption
<1> HIDE DEF n
<1>5. ASSUME NEW b \in C!Addresses
      PROVE  g[b] = IF b \in dst8 .. (dst8 + n - 1) THEN src8 + (b - dst8) ELSE mem[b]
    <2>1. DOMAIN mem = C!Addresses /\ b \in Nat
        BY DEF Copying, After, C!Addresses
    <2>2. ASSUME b \in dst8 .. (dst8 + n - 1) PROVE mem[src8 + b - dst8] = src8 + (b - dst8)
        <3>1. /\ src8 + b - dst8 = src8 + (b - dst8) /\ src8 + (b - dst8) \in Int
              /\ src8 + (b - dst8) >= src8 /\ src8 + (b - dst8) < src8 + left + TypeWidth
            BY <1>2, <1>3, <1>4, <2>1, <2>2, CopyAssumption
        <3> QED
            BY <1>1, <3>1, SourceByte
    <2> QED
        BY <2>1, <2>2
<1>6. mem' = [b \in DOMAIN mem |-> g[b]] /\ n \in 0 .. left
    BY <1>1, <1>2, <1>3, <1>4
<1> HIDE DEF g
<1>7. /\ left' \in 0 .. copied'
      /\ dst8' = dest' + (copied' - left') /\ src8' = src' + (copied' - left')
      /\ mem' = After(copied - left)'
    BY <1>1, <1>5, <1>6, CopiesOn
<1> QED
    BY <1>1, <1>7 DEF Copying

LEMMA CopyRestStep ==
    ASSUME Copying, C!Remaining
    PROVE  Copying'
<1> DEFINE g == [b \in DOMAIN mem |-> IF b \in dst8 .. (dst8 + left - 1) THEN mem[src8 + b - dst8] ELSE mem[b]]
<1>1. /\ at # "done" /\ at' = "done"
      /\ UNCHANGED <<dest, src, copied, dst8, src8, left, srcWord>>
      /\ mem' = g
    BY DEF C!Remaining
<1>2. dst8 \in Nat /\ src8 \in Nat /\ left \in Nat /\ copied \in Nat
    BY CallNumbers
<1>3. ASSUME NEW b \in C!Addresses
      PROVE  g[b] = IF b \in dst8 .. (dst8 + left - 1) THEN src8 + (b - dst8) ELSE mem[b]
    <2>1. DOMAIN mem = C!Addresses /\ b \in Nat
        BY DEF Copying, After, C!Addresses
    <2>2. ASSUME b \in dst8 .. (dst8 + left - 1) PROVE mem[src8 + b - dst8] = src8 + (b - dst8)
        <3>1. /\ src8 + b - dst8 = src8 + (b - dst8) /\ src8 + (b - dst8) \in Int
              /\ src8 + (b - dst8) >= src8 /\ src8 + (b - dst8) < src8 + left + TypeWidth
            BY <1>2, <2>1, <2>2, CopyAssumption
        <3> QED
            BY <1>1, <3>1, SourceByte
    <2> QED
        BY <2>1, <2>2
<1>4. g = [b \in DOMAIN mem |-> g[b]] /\ left \in 0 .. left /\ copied - left + left = copied
    BY <1>2
<1>5. mem' = After(copied)
    <2> HIDE DEF g
    <2>1. g = After(copied - left + left)
        BY <1>1, <1>3, <1>4, FurtherBytes
    <2> QED
        BY <1>1, <1>4, <2>1
<1>6. mem' = After(copied)'
    BY <1>1, <1>5 DEF After
<1> QED
    BY <1>1, <1>6 DEF Copying

LEMMA Behind ==
    ASSUME NEW s \in Seq(Int), NEW t \in Seq(Int), NEW i \in Int, i > Len(s), i <= Len(s) + Len(t)
    PROVE  (s \o t)[i] = t[i - Len(s)]
OBVIOUS

LEMMA JoinedByte ==
    ASSUME NEW w \in [1 .. TypeWidth -> Int], NEW x \in [1 .. TypeWidth -> Int],
           NEW shift \in 1 .. TypeWidth - 1, NEW r \in 0 .. TypeWidth - 1
    PROVE  C!Joined(w, x, shift)[r + 1] =
               IF r < TypeWidth - shift THEN w[shift + r + 1] ELSE x[r + 1 - (TypeWidth - shift)]
<1> DEFINE left_part  == SubSeq(w, shift + 1, TypeWidth)
           right_part == SubSeq(x, 1, shift)
<1>1. w \in Seq(Int) /\ Len(w) = TypeWidth /\ x \in Seq(Int) /\ Len(x) = TypeWidth
    BY CopyAssumption
<1>2. left_part \in Seq(Int) /\ Len(left_part) = TypeWidth - shift
      /\ \A k \in 1 .. TypeWidth - shift : left_part[k] = w[shift + k]
    BY <1>1, CopyAssumption
<1>3. right_part \in Seq(Int) /\ Len(right_part) = shift
      /\ \A k \in 1 .. shift : right_part[k] = x[k]
    BY <1>1, CopyAssumption
<1>4. C!Joined(w, x, shift) = left_part \o right_part
    BY DEF C!Joined
<1> HIDE DEF left_part, right_part
<1>5. CASE r < TypeWidth - shift
    <2>1. r + 1 \in 1 .. TypeWidth - shift /\ shift + (r + 1) = shift + r + 1
        BY <1>5, CopyAssumption
    <2>2. (left_part \o right_part)[r + 1] = left_part[r + 1]
        BY <1>2, <1>3, <2>1, CopyAssumption
    <2> QED
        BY <1>2, <1>4, <1>5, <2>1, <2>2
<1>6. CASE ~(r < TypeWidth - shift)
    <2>1. r + 1 - (TypeWidth - shift) \in 1 .. shift
        BY <1>6, CopyAssumption
    <2>2. (left_part \o right_part)[r + 1] = right_part[r + 1 - (TypeWidth - shift)]
        <3>1. /\ r + 1 \in Int /\ r + 1 > Len(left_part)
              /\ r + 1 <= Len(left_part) + Len(right_part)
            BY <1>2, <1>3, <1>6, CopyAssumption
        <3>2. (left_part \o right_part)[r + 1] = right_part[r + 1 - Len(left_part)]
            <4> DEFINE i == r + 1
            <4>1. left_part \in Seq(Int) /\ right_part \in Seq(Int)
                BY <1>2, <1>3
            <4>2. i \in Int /\ i > Len(left_part) /\ i <= Len(left_part) + Len(right_part)
                BY <3>1
            <4> HIDE DEF i
            <4>3. (left_part \o right_part)[i] = right_part[i - Len(left_part)]
                BY <4>1, <4>2, Behind
            <4> QED
                BY <4>3 DEF i
        <3> QED
            BY <1>2, <3>2
    <2> QED
        BY <1>3, <1>4, <1>6, <2>1, <2>2
<1> QED
    BY <1>5, <1>6

LEMMA CopyShiftedStep ==
    ASSUME Copying, C!CopyShift
    PROVE  Copying'
<1> DEFINE shift == src8 % TypeWidth
           n == C!AtOnce * TypeWidth
           word(k) == IF k = 0 THEN srcWord ELSE C!Word(C!Aligned(src8) + k * TypeWidth)
           g == [b \in DOMAIN mem |->
                    IF b \in dst8 .. (dst8 + n - 1)
                    THEN C!Joined(word((b - dst8) \div TypeWidth), word((b - dst8) \div TypeWidth + 1), shift)
                             [((b - dst8) % TypeWidth) + 1]
                    ELSE mem[b]]
<1>1. /\ at = "shifted" /\ left >= TypeWidth /\ UNCHANGED <<dest, src, copied, at>>
      /\ mem' = g /\ srcWord' = word(C!AtOnce)
      /\ dst8' = dst8 + n /\ src8' = src8 + n /\ left' = left - n
    BY DEF C!CopyShift
<1>2. dst8 \in Nat /\ src8 \in Nat /\ left \in Nat
    BY CallNumbers
<1>3. C!AtOnce \in Nat \ {0} /\ n <= left
    BY <1>1, <1>2, EnoughLeft
<1>4. n \in Nat
    BY <1>3, CopyAssumption
<1>5. /\ shift \in 1 .. TypeWidth - 1 /\ srcWord \in [1 .. TypeWidth -> Int]
      /\ \A j \in (shift + 1) .. TypeWidth : srcWord[j] = src8 - shift + j - 1
    <2>1. PICK q \in Nat, r \in 0 .. TypeWidth - 1 : r = shift
        BY <1>2, Division, CopyAssumption
    <2>2. WordAhead
        BY <1>1 DEF Copying
    <2> QED
        BY <2>1, <2>2, CopyAssumption DEF WordAhead
<1> DEFINE base(k) == src8 - shift + k * TypeWidth
\* The words that are joined, all of them but what comes before the source.
<1>6. ASSUME NEW k \in 0 .. C!AtOnce
      PROVE  /\ word(k) \in [1 .. TypeWidth -> Int]
             /\ \A j \in 1 .. TypeWidth : k > 0 \/ j > shift => word(k)[j] = base(k) + j - 1
    <2>1. k * TypeWidth \in Nat /\ k * TypeWidth <= n
        <3>1. k * TypeWidth <= C!AtOnce * TypeWidth
            BY <1>3, LeastFactor, CopyAssumption
        <3> QED
            BY <1>3, <3>1, CopyAssumption
    <2> HIDE DEF n, shift
    <2>2. CASE k = 0
        <3>1. word(k) = srcWord /\ base(k) = src8 - shift
            BY <1>2, <1>5, <2>2, CopyAssumption
        <3> QED
            BY <1>5, <2>2, <3>1
    <2>3. CASE k # 0
        <3> DEFINE a == C!Aligned(src8) + k * TypeWidth
        <3>1. a = base(k)
            BY DEF C!Aligned, shift
        <3>2. k * TypeWidth >= TypeWidth
            <4>1. 1 * TypeWidth <= k * TypeWidth
                BY <1>3, <2>3, LeastFactor, CopyAssumption
            <4> QED
                BY <4>1, CopyAssumption
        <3>3. base(k) \in Int /\ base(k) > src8 /\ base(k) < src8 + left
            BY <1>2, <1>3, <1>4, <1>5, <2>1, <3>2, CopyAssumption
        <3>4. word(k) = C!Word(a)
            BY <2>3
        <3> HIDE DEF base, word, a
        <3>5. C!Word(base(k)) \in [1 .. TypeWidth -> Int]
            BY <1>2, <3>3, WordRead, CopyAssumption
        <3>6. ASSUME NEW j \in 1 .. TypeWidth PROVE C!Word(base(k))[j] = base(k) + j - 1
            <4>1. base(k) + j - 1 \in Int /\ base(k) + j - 1 >= src8 /\ base(k) + j - 1 < src8 + left + TypeWidth
                BY <1>2, <3>3, CopyAssumption
            <4>2. mem[base(k) + j - 1] = base(k) + j - 1
                BY <1>1, <4>1, SourceByte
            <4> QED
                BY <4>2 DEF C!Word
        <3> QED
            BY <3>1, <3>4, <3>5, <3>6
    <2> QED
        BY <2>2, <2>3
<1> HIDE DEF word
<1>7. ASSUME NEW b \in C!Addresses
      PROVE  g[b] = IF b \in dst8 .. (dst8 + n - 1) THEN src8 + (b - dst8) ELSE mem[b]
    <2>1. DOMAIN mem = C!Addresses /\ b \in Nat
        BY DEF Copying, After, C!Addresses
    <2>2. ASSUME b \in dst8 .. (dst8 + n - 1)
          PROVE  C!Joined(word((b - dst8) \div TypeWidth), word((b - dst8) \div TypeWidth + 1), shift)
                             [((b - dst8) % TypeWidth) + 1] = src8 + (b - dst8)
        <3>1. b - dst8 \in Nat /\ b - dst8 < n
            BY <1>2, <1>4, <2>1, <2>2
        <3>2. PICK k \in Nat, r \in 0 .. TypeWidth - 1 :
                  k = (b - dst8) \div TypeWidth /\ r = (b - dst8) % TypeWidth
                  /\ b - dst8 = TypeWidth * k + r
            BY <3>1, Division, CopyAssumption
        <3>3. k * TypeWidth \in Nat /\ TypeWidth * k = k * TypeWidth
              /\ (k + 1) * TypeWidth = k * TypeWidth + TypeWidth
            BY CopyAssumption
        <3>4. k < C!AtOnce
            <4>1. SUFFICES ASSUME C!AtOnce <= k PROVE FALSE
                BY <1>3
            <4>2. n <= k * TypeWidth
                BY <1>3, <4>1, LeastFactor, CopyAssumption
            <4> HIDE DEF n
            <4> QED
                BY <1>4, <3>1, <3>2, <3>3, <4>2, CopyAssumption
        <3>5. k \in 0 .. C!AtOnce /\ k + 1 \in 0 .. C!AtOnce /\ k + 1 > 0
            BY <1>3, <3>4
        <3> HIDE DEF n, shift
        <3>6. C!Joined(word(k), word(k + 1), shift)[r + 1] =
                  IF r < TypeWidth - shift THEN word(k)[shift + r + 1]
                  ELSE word(k + 1)[r + 1 - (TypeWidth - shift)]
            BY <1>5, <1>6, <3>5, JoinedByte
        <3>7. CASE r < TypeWidth - shift
            <4>1. shift + r + 1 \in 1 .. TypeWidth /\ shift + r + 1 > shift
                BY <1>5, <3>7, CopyAssumption
            <4>2. word(k)[shift + r + 1] = base(k) + (shift + r + 1) - 1
                BY <1>6, <3>5, <4>1
            <4>3. base(k) + (shift + r + 1) - 1 = src8 + (b - dst8)
                <5>1. PICK m \in Nat : m = k * TypeWidth
                    BY <3>3
                <5>2. base(k) = src8 - shift + m /\ b - dst8 = m + r
                    BY <3>2, <3>3, <5>1
                <5> QED
                    BY <1>2, <1>5, <5>2
            <4> QED
                BY <3>2, <3>6, <3>7, <4>2, <4>3
        <3>8. CASE ~(r < TypeWidth - shift)
            <4>1. r + 1 - (TypeWidth - shift) \in 1 .. TypeWidth
                BY <1>5, <3>8, CopyAssumption
            <4>2. word(k + 1)[r + 1 - (TypeWidth - shift)]
                      = base(k + 1) + (r + 1 - (TypeWidth - shift)) - 1
                BY <1>6, <3>5, <4>1
            <4>3. base(k + 1) + (r + 1 - (TypeWidth - shift)) - 1 = src8 + (b - dst8)
                <5>1. PICK m \in Nat : m = k * TypeWidth
                    BY <3>3
                <5>2. base(k + 1) = src8 - shift + (m + TypeWidth) /\ b - dst8 = m + r
                    BY <3>2, <3>3, <5>1
                <5> QED
                    BY <1>2, <1>5, <5>2, CopyAssumption
            <4> QED
                BY <3>2, <3>6, <3>8, <4>2, <4>3
        <3> QED
            BY <3>7, <3>8
    <2> QED
        BY <2>1, <2>2
<1>8. WordAhead'
    <2>1. (src8 + n) % TypeWidth = shift
        BY <1>2, <1>3, SameRemainder, CopyAssumption
    <2>2. srcWord' \in [1 .. TypeWidth -> Int]
        BY <1>1, <1>3, <1>6
    <2>3. ASSUME NEW j \in (shift + 1) .. TypeWidth PROVE srcWord'[j] = src8 + n - shift + j - 1
        <3>1. j \in 1 .. TypeWidth /\ C!AtOnce \in 0 .. C!AtOnce
            BY <1>3, <1>5, CopyAssumption
        <3>2. srcWord'[j] = base(C!AtOnce) + j - 1
            BY <1>1, <1>3, <1>6, <3>1
        <3>3. base(C!AtOnce) = src8 - shift + n
            OBVIOUS
        <3> HIDE DEF n, shift
        <3>4. src8 - shift + n + j - 1 = src8 + n - shift + j - 1
            BY <1>2, <1>4, <1>5, CopyAssumption
        <3> QED
            BY <3>2, <3>3, <3>4
    <2>4. shift # 0
        BY <1>5
    <2>5. src8' = src8 + n
        BY <1>1
    <2> HIDE DEF n, shift
    <2>6. src8' % TypeWidth = shift
        BY <2>1, <2>5, Zenon
    <2>7. \A j \in (shift + 1) .. TypeWidth : srcWord'[j] = src8' - shift + j - 1
        <3>1. ASSUME NEW j \in (shift + 1) .. TypeWidth PROVE srcWord'[j] = src8' - shift + j - 1
            <4>1. srcWord'[j] = src8 + n - shift + j - 1
                BY <2>3
            <4> QED
                BY <1>2, <1>4, <1>5, <2>5, <4>1
        <3> QED
            BY <3>1
    <2> QED
        BY <2>2, <2>4, <2>6, <2>7 DEF WordAhead
<1> HIDE DEF n
<1>9. mem' = [b \in DOMAIN mem |-> g[b]] /\ n \in 0 .. left
    BY <1>1, <1>2, <1>3, <1>4
<1> HIDE DEF g
<1>10. /\ left' \in 0 .. copied'
       /\ dst8' = dest' + (copied' - left') /\ src8' = src' + (copied' - left')
       /\ mem' = After(copied - left)'
    BY <1>1, <1>7, <1>9, CopiesOn
<1> QED
    BY <1>1, <1>8, <1>10 DEF Copying

\* memcpy copies every byte and no other, for every width of a word, number of
\* words per round, alignment and length.
THEOREM CopyIsExact == UnitsSpec => []CopyExact
<1>1. UnitsInit => CopyInv
    BY DEF UnitsInit, C!Idle, CopyInv
<1>2. CopyInv /\ [UnitsNext]_all => CopyInv'
    <2> SUFFICES ASSUME CopyInv, [UnitsNext]_all PROVE CopyInv'
        OBVIOUS
    <2>1. CASE C!MemcpyNext
        <3>1. CASE C!memcpy
            BY <3>1, CopyCallStep DEF C!memcpy, CopyInv, Copying
        <3>2. CASE C!Align
            <4>1. Copying
                BY <3>2 DEF C!Align, CopyInv
            <4> QED
                BY <3>2, <4>1, CopyAlignStep DEF CopyInv, Copying
        <3>3. CASE C!Choose
            <4>1. Copying
                BY <3>3 DEF C!Choose, CopyInv
            <4> QED
                BY <3>3, <4>1, CopyChooseStep DEF CopyInv, Copying
        <3>4. CASE C!NoShift
            <4>1. Copying
                BY <3>4 DEF C!NoShift, CopyInv
            <4> QED
                BY <3>4, <4>1, CopyWordsStep DEF CopyInv, Copying
        <3>5. CASE C!CopyShift
            <4>1. Copying
                BY <3>5 DEF C!CopyShift, CopyInv
            <4> QED
                BY <3>5, <4>1, CopyShiftedStep DEF CopyInv, Copying
        <3>6. CASE C!Remaining
            <4>1. Copying
                BY <3>6 DEF C!Remaining, CopyInv
            <4> QED
                BY <3>6, <4>1, CopyRestStep DEF CopyInv, Copying
        <3>7. CASE C!Return
            BY <3>7 DEF C!Return, CopyInv
        <3> QED
            BY <2>1, <3>1, <3>2, <3>3, <3>4, <3>5, <3>6, <3>7 DEF C!MemcpyNext
    <2>2. CASE UNCHANGED copying
        BY <2>2 DEF copying, CopyInv, Copying, After, WordAhead
    <2>3. C!MemcpyNext \/ UNCHANGED copying
        <3>1. CASE UnitsNext
            BY <3>1 DEF UnitsNext
        <3>2. CASE UNCHANGED all
            BY <3>2 DEF all
        <3> QED
            BY <3>1, <3>2
    <2> QED
        BY <2>1, <2>2, <2>3
<1>3. CopyInv => CopyExact
    <2> SUFFICES ASSUME CopyInv PROVE CopyExact
        OBVIOUS
    <2>1. CASE at = "idle"
        BY <2>1 DEF CopyInv, CopyExact, C!CopyExact
    <2>2. CASE at # "idle"
        <3>1. Copying
            BY <2>2 DEF CopyInv
        <3>2. dest \in Nat /\ src \in Nat /\ copied \in Nat /\ left \in Nat /\ left <= copied
              /\ dest + copied - 1 <= Source + TypeWidth + MaxCount
            BY <3>1, CallNumbers, CopyAssumption DEF Copying
        <3>3. ASSUME at = "done", NEW k \in 0 .. (copied - 1) PROVE mem[dest + k] = src + k
            <4>1. dest + k \in C!Addresses /\ dest + k \in dest .. (dest + copied - 1)
                  /\ src + ((dest + k) - dest) = src + k
                BY <3>2, CopyAssumption DEF C!Addresses
            <4>2. mem = After(copied)
                BY <3>1, <3>3 DEF Copying
            <4> QED
                BY <4>1, <4>2 DEF After
        <3>4. ASSUME NEW a \in DOMAIN mem, a \notin dest .. (dest + copied - 1) PROVE mem[a] = a
            <4> DEFINE m == IF at = "done" THEN copied ELSE copied - left
            <4>1. m \in Nat /\ m <= copied
                BY <3>2
            <4>2. mem = After(m)
                BY <3>1 DEF Copying
            <4> HIDE DEF m
            <4>3. a \in C!Addresses /\ a \in Nat
                BY <4>2 DEF After, C!Addresses
            <4>4. a \notin dest .. (dest + m - 1)
                BY <3>2, <3>4, <4>1, <4>3
            <4> QED
                BY <4>2, <4>3, <4>4 DEF After
        <3> QED
            BY <3>3, <3>4 DEF CopyExact, C!CopyExact
    <2> QED
        BY <2>1, <2>2
<1> QED
    BY <1>1, <1>2, <1>3, PTL DEF UnitsSpec
-----------------------------------------------------------------------------
\* A set of natural numbers has a least element.
LEMMA Least ==
    ASSUME NEW set, set \subseteq Nat, set # {}
    PROVE  \E x \in set : \A y \in set : x <= y
<1> DEFINE R == {ss \in Nat \X Nat : ss[1] < ss[2]}
<1>1. IsWellFoundedOn(R, Nat)
    BY NatLessThanWellFounded, Zenon DEF OpToRel
<1>2. \A x, y \in Nat : y < x => <<y, x>> \in R
    OBVIOUS
<1> HIDE DEF R
<1>3. \E x \in set : \A y \in set : ~ (<<y, x>> \in R)
    BY <1>1, WFMin, Zenon
<1>4. \E x \in set : \A y \in set : ~(y < x)
    BY <1>2, <1>3, Zenon
<1> QED
    BY <1>4
-----------------------------------------------------------------------------
(* The ELF splitters.                                                      *)

Entries == 0 .. MemBufEntries - 1
Section == [type : {"PROGBITS", "NOBITS", "STRTAB"}, addr : Nat, offset : Nat, size : Nat]

\* The section writes address a: the words of the serial boot loader go beyond
\* what the section is meant for.
Hits(s, a) == IF target = "serial" THEN a \in E!Words(s) ELSE E!In(s, a)

\* The sections copied so far that are meant for address a, and those that
\* wrote there.
Wanters(a) == {n \in E!Chosen : n < next /\ E!In(elf.sections[n], a)}
Writers(a) == {n \in E!Chosen : n < next /\ Hits(elf.sections[n], a)}

\* What a table holds at address a: the bits of the section that is meant for
\* it, if it wrote there last, or what was there.
Filled(table, a) ==
    \A n \in Wanters(a) :
        E!Straight(elf.sections[n]) /\ (\A m \in Writers(a) : m <= n) =>
            table[a] = E!Bits(elf.sections[n], a)
Clean(table, a) == Writers(a) = {} => table[a] = E!Old

WholeImage == \A a \in E!Cells : Filled(memory, a) /\ Clean(memory, a)

EthmacImage ==
    /\ \A a \in E!Cells :
          /\ Clean(memory, a)
          /\ placed /\ MemBufEntries < a /\ a < ExecBase => Filled(memory, a)
          /\ next = E!Past + 1 /\ a < MemBufEntries => Filled(memory, a)
    /\ \A a \in Entries : Filled(entry, a) /\ Clean(entry, a)

Splitting ==
    /\ elf.sections \in Seq(Section)
    /\ memory \in [E!Cells -> Int] /\ entry \in [Entries -> Int]
    /\ next \in 1 .. E!Past + 1
    /\ ~E!Good(elf) => next = E!Past + 1
    /\ target = "ethmac" => EthmacImage
    /\ target \in {"serial", "tool"} => WholeImage
    /\ target \in {"serial", "ethmac", "tool"}

ElfInv == target = "none" \/ Splitting

-----------------------------------------------------------------------------
\* Counted in words from x on, a is in one of them.
LEMMA WordOf ==
    ASSUME NEW x \in Nat, NEW length \in Nat, NEW a \in Nat, x <= a, a < x + length
    PROVE  \E j \in 0 .. (length - 1) : j % 4 = 0 /\ a - (x - 0) - j \in 0 .. 3
<1> DEFINE i == a - x
           j == i - (i % 4)
<1>1. i \in Nat /\ i < length
    OBVIOUS
<1>2. i % 4 \in 0 .. 3 /\ j % 4 = 0 /\ j \in 0 .. i
    <2> HIDE DEF i
    <2> QED
        BY <1>1, SMT
<1>3. a - (x - 0) - j = i % 4
    BY <1>2
<1> HIDE DEF i, j
<1>4. j \in 0 .. (length - 1)
    BY <1>1, <1>2
<1> QED
    BY <1>2, <1>3, <1>4

\* A word that holds a, counted from a multiple of four, starts at or behind
\* every multiple of four up to a.
LEMMA WordStart ==
    ASSUME NEW x \in Nat, NEW y \in Nat, NEW j \in Nat, NEW a \in Nat,
           x % 4 = 0, y % 4 = 0, j % 4 = 0, x <= a, a - (y - 0) - j \in 0 .. 3
    PROVE  x <= y + j /\ y + j <= a
<1>1. y + j <= a /\ a <= y + j + 3
    OBVIOUS
<1>2. (y + j) % 4 = 0
    BY SMT
<1> DEFINE b == y + j
<1>3. b \in Nat /\ b % 4 = 0 /\ a <= b + 3
    BY <1>1, <1>2
<1> HIDE DEF b
<1>4. x <= b
    BY <1>3, SMT
<1> QED
    BY <1>1, <1>4 DEF b

\* The words of a straight section cover it.
LEMMA WordsCover ==
    ASSUME NEW s \in Section, NEW a \in E!Cells, E!Crook(s) = 0, E!In(s, a)
    PROVE  a \in E!Words(s)
<1>1. s.addr \in Nat /\ s.size \in Nat /\ a \in Nat /\ s.addr <= a /\ a < s.addr + s.size
    BY ElfAssumption DEF E!In, Section, E!Cells
<1>2. \E j \in 0 .. (s.size - 1) : j % 4 = 0 /\ a - (s.addr - 0) - j \in 0 .. 3
    BY <1>1, WordOf
<1> QED
    BY <1>2 DEF E!Words

\* A word of a straight section that reaches into another one starts in both.
LEMMA TailsSpare ==
    ASSUME NEW s \in Section, NEW t \in Section, NEW a \in E!Cells,
           E!Crook(s) = 0, E!Crook(t) = 0, E!In(s, a), a \in E!Words(t)
    PROVE  ~E!Apart(s, t)
<1>1. /\ a \in Nat /\ s.addr \in Nat /\ s.size \in Nat /\ t.addr \in Nat /\ t.size \in Nat
    BY ElfAssumption DEF Section, E!Cells
<1>2. PICK j \in 0 .. (t.size - 1) : j % 4 = 0 /\ a - (t.addr - 0) - j \in 0 .. 3
    BY DEF E!Words
<1>3. s.addr <= a /\ a < s.addr + s.size
    BY DEF E!In
<1>4. s.addr % 4 = 0 /\ t.addr % 4 = 0
    BY DEF E!Crook
<1>5. j \in Nat /\ j < t.size
    BY <1>1
<1>6. s.addr <= t.addr + j /\ t.addr + j <= a
    BY <1>1, <1>2, <1>3, <1>4, <1>5, WordStart
<1> QED
    BY <1>1, <1>3, <1>5, <1>6 DEF E!Apart

\* Section by section: who is meant for an address and who wrote there.
LEMMA OneMore ==
    ASSUME Splitting, next < E!Past, next' = next + 1, elf' = elf, target' = target, NEW a
    PROVE  /\ next \in Nat /\ E!Good(elf) /\ E!Current \in Section
           /\ \A n \in Wanters(a) \cup Writers(a) : n \in Nat /\ n < next
           /\ Wanters(a)' = Wanters(a) \cup {n \in {next} : E!Loaded(E!Current) /\ E!In(E!Current, a)}
           /\ Writers(a)' = Writers(a) \cup {n \in {next} : E!Loaded(E!Current) /\ Hits(E!Current, a)}
<1>1. next \in 1 .. Len(elf.sections) /\ E!Good(elf) /\ next \in Nat
    BY DEF Splitting, E!Past
<1>2. E!Current \in Section /\ E!Current = elf.sections[next]
    BY <1>1 DEF Splitting, E!Current
<1>3. /\ E!Chosen' = E!Chosen /\ E!Chosen \subseteq Nat
      /\ next \in E!Chosen <=> E!Loaded(E!Current)
    BY <1>1, <1>2 DEF E!Chosen, Splitting
<1>4. \A n \in E!Chosen : n < next' <=> n < next \/ n = next
    BY <1>1, <1>3
<1>5. \A n : /\ E!In(elf'.sections[n], a) <=> E!In(elf.sections[n], a)
             /\ Hits(elf.sections[n], a)' <=> Hits(elf.sections[n], a)
    BY DEF Hits
<1>6. Wanters(a)' = {n \in E!Chosen : (n < next \/ n = next) /\ E!In(elf.sections[n], a)}
    BY <1>3, <1>4, <1>5 DEF Wanters
<1>7. Writers(a)' = {n \in E!Chosen : (n < next \/ n = next) /\ Hits(elf.sections[n], a)}
    BY <1>3, <1>4, <1>5 DEF Writers
<1>8. \A n \in Wanters(a) \cup Writers(a) : n \in Nat /\ n < next
    BY <1>3 DEF Wanters, Writers
<1> QED
    BY <1>1, <1>2, <1>3, <1>6, <1>7, <1>8, Zenon DEF Wanters, Writers

\* What a section puts at an address that it hits.
Stored(s, a) == IF target = "serial" THEN E!Bits(s, a + E!Crook(s)) ELSE E!Bits(s, a)

\* A table that takes the section's bits where the section hits.
LEMMA TableStep ==
    ASSUME Splitting, next < E!Past, next' = next + 1, elf' = elf, target' = target,
           NEW a \in Nat, target = "serial" => a \in E!Cells, NEW table, NEW table2,
           table2[a] = IF E!Loaded(E!Current) /\ Hits(E!Current, a)
                       THEN Stored(E!Current, a) ELSE table[a]
    PROVE  /\ Filled(table, a) =>
                  \A n \in Wanters(a)' :
                      E!Straight(elf.sections[n]) /\ (\A m \in Writers(a)' : m <= n) =>
                          table2[a] = E!Bits(elf.sections[n], a)
           /\ Clean(table, a) => (Writers(a)' = {} => table2[a] = E!Old)
           /\ table[a] \in Int => table2[a] \in Int
<1> DEFINE hit == E!Loaded(E!Current) /\ Hits(E!Current, a)
<1>1. /\ next \in Nat /\ E!Current \in Section
      /\ \A n \in Wanters(a) \cup Writers(a) : n \in Nat /\ n < next
      /\ Wanters(a)' = Wanters(a) \cup {n \in {next} : E!Loaded(E!Current) /\ E!In(E!Current, a)}
      /\ Writers(a)' = Writers(a) \cup {n \in {next} : hit}
    BY OneMore
<1>2. ASSUME Filled(table, a), NEW n \in Wanters(a)', E!Straight(elf.sections[n]),
             \A m \in Writers(a)' : m <= n
      PROVE  table2[a] = E!Bits(elf.sections[n], a)
    <2>1. CASE n \in Wanters(a)
        <3>1. n \in Nat /\ n < next
            BY <1>1, <2>1
        <3>2. next \notin Writers(a)'
            BY <1>1, <1>2, <3>1
        <3>3. ~hit /\ \A m \in Writers(a) : m <= n
            BY <1>1, <1>2, <3>2
        <3> QED
            BY <1>2, <2>1, <3>3 DEF Filled
    <2>2. CASE n = next /\ E!Loaded(E!Current) /\ E!In(E!Current, a)
        <3>1. E!Straight(E!Current) /\ E!Current = elf.sections[n]
            BY <1>2, <2>2 DEF E!Current
        <3>2. CASE target = "serial"
            <4>1. E!Crook(E!Current) = 0
                BY <3>1, <3>2 DEF E!Straight
            <4>2. Hits(E!Current, a)
                BY <1>1, <2>2, <3>2, <4>1, WordsCover DEF Hits
            <4>3. table2[a] = E!Bits(E!Current, a + 0)
                BY <2>2, <3>2, <4>1, <4>2 DEF Stored
            <4>4. a + 0 = a
                OBVIOUS
            <4> QED
                BY <3>1, <4>3, <4>4
        <3>3. CASE target # "serial"
            BY <2>2, <3>1, <3>3 DEF Hits, Stored
        <3> QED
            BY <3>2, <3>3
    <2> QED
        BY <1>1, <1>2, <2>1, <2>2
<1>3. ASSUME Clean(table, a), Writers(a)' = {} PROVE table2[a] = E!Old
    BY <1>1, <1>3 DEF Clean
<1>4. table[a] \in Int => table2[a] \in Int
    <2>1. E!Current.addr \in Nat /\ E!Current.offset \in Nat /\ E!Crook(E!Current) \in Int
        BY <1>1 DEF Section, E!Crook
    <2> QED
        BY <2>1 DEF E!Bits, Stored
<1> QED
    BY <1>2, <1>3, <1>4

\* The serial boot loader and the tool: one table, all of it.
LEMMA WholeStep ==
    ASSUME Splitting, E!SerialSection \/ E!ToolSection
    PROVE  Splitting'
<1>1. /\ target \in {"serial", "tool"} /\ next < E!Past /\ next' = next + 1 /\ elf' = elf
      /\ target' = target /\ entry' = entry
      /\ memory' = IF E!Loaded(E!Current)
                   THEN [a \in E!Cells |-> IF Hits(E!Current, a) THEN Stored(E!Current, a) ELSE memory[a]]
                   ELSE memory
    <2>1. CASE E!SerialSection
        BY <2>1 DEF E!SerialSection, Hits, Stored
    <2>2. CASE E!ToolSection
        BY <2>2 DEF E!ToolSection, Hits, Stored
    <2> QED
        BY <2>1, <2>2
<1>2. WholeImage /\ memory \in [E!Cells -> Int]
    BY <1>1 DEF Splitting
<1>3. ASSUME NEW a \in E!Cells
      PROVE  /\ memory'[a] \in Int
             /\ \A n \in Wanters(a)' :
                   E!Straight(elf.sections[n]) /\ (\A m \in Writers(a)' : m <= n) =>
                       memory'[a] = E!Bits(elf.sections[n], a)
             /\ Writers(a)' = {} => memory'[a] = E!Old
    <2>1. memory'[a] = IF E!Loaded(E!Current) /\ Hits(E!Current, a)
                       THEN Stored(E!Current, a) ELSE memory[a]
        BY <1>1, <1>2
    <2>2. a \in Nat
        BY ElfAssumption DEF E!Cells
    <2>3. Filled(memory, a) /\ Clean(memory, a) /\ memory[a] \in Int
        BY <1>2 DEF WholeImage
    <2> QED
        BY <1>1, <2>1, <2>2, <2>3, TableStep
<1>4. memory' \in [E!Cells -> Int]
    <2>1. memory' = [a \in E!Cells |-> memory'[a]]
        BY <1>1, <1>2
    <2> QED
        BY <1>3, <2>1
<1>5. WholeImage'
    BY <1>1, <1>3 DEF WholeImage, Filled, Clean, E!Cells, E!Straight
<1>6. next' \in 1 .. E!Past' + 1 /\ E!Good(elf) /\ E!Past' = E!Past
    BY <1>1 DEF Splitting, E!Past
<1> QED
    BY <1>1, <1>4, <1>5, <1>6 DEF Splitting, E!Cells, Entries

LEMMA EthmacStep ==
    ASSUME Splitting, E!EthmacSection
    PROVE  Splitting'
<1>1. /\ target = "ethmac" /\ next < E!Past /\ next' = next + 1 /\ elf' = elf /\ target' = target
      /\ placed' = placed
      /\ IF E!Loaded(E!Current)
         THEN /\ memory' = [a \in E!Cells |-> IF E!In(E!Current, a) /\ a > MemBufEntries /\ a < ExecBase /\ placed
                                               THEN E!Bits(E!Current, a) ELSE memory[a]]
              /\ entry' = [a \in DOMAIN entry |-> IF E!In(E!Current, a) THEN E!Bits(E!Current, a) ELSE entry[a]]
         ELSE memory' = memory /\ entry' = entry
    BY DEF E!EthmacSection
<1>2. EthmacImage /\ memory \in [E!Cells -> Int] /\ entry \in [Entries -> Int]
      /\ next \in Nat /\ E!Past \in Nat
    BY <1>1 DEF Splitting, E!Past
<1>3. ASSUME NEW a \in E!Cells
      PROVE  /\ memory'[a] \in Int
             /\ placed /\ MemBufEntries < a /\ a < ExecBase =>
                    \A n \in Wanters(a)' :
                        E!Straight(elf.sections[n]) /\ (\A m \in Writers(a)' : m <= n) =>
                            memory'[a] = E!Bits(elf.sections[n], a)
             /\ Writers(a)' = {} => memory'[a] = E!Old
    <2>1. a \in Nat
        BY ElfAssumption DEF E!Cells
    <2>2. Clean(memory, a) /\ memory[a] \in Int
          /\ (placed /\ MemBufEntries < a /\ a < ExecBase => Filled(memory, a))
        BY <1>2 DEF EthmacImage
    <2>3. CASE placed /\ MemBufEntries < a /\ a < ExecBase
        <3>1. memory'[a] = IF E!Loaded(E!Current) /\ Hits(E!Current, a)
                           THEN Stored(E!Current, a) ELSE memory[a]
            BY <1>1, <1>2, <2>1, <2>3, ElfAssumption DEF Hits, Stored
        <3> QED
            BY <1>1, <2>1, <2>2, <2>3, <3>1, TableStep
    <2>4. CASE ~(placed /\ MemBufEntries < a /\ a < ExecBase)
        <3>1. memory'[a] = memory[a]
            BY <1>1, <1>2, <2>1, <2>4, ElfAssumption
        <3>2. Writers(a)' = {} => Writers(a) = {}
            BY <1>1, <2>1, OneMore
        <3> QED
            BY <2>2, <2>4, <3>1, <3>2 DEF Clean
    <2> QED
        BY <2>3, <2>4
<1>4. ASSUME NEW a \in Entries
      PROVE  /\ entry'[a] \in Int
             /\ \A n \in Wanters(a)' :
                   E!Straight(elf.sections[n]) /\ (\A m \in Writers(a)' : m <= n) =>
                       entry'[a] = E!Bits(elf.sections[n], a)
             /\ Writers(a)' = {} => entry'[a] = E!Old
    <2>1. entry'[a] = IF E!Loaded(E!Current) /\ Hits(E!Current, a)
                      THEN Stored(E!Current, a) ELSE entry[a]
        BY <1>1, <1>2 DEF Hits, Stored
    <2>2. a \in Nat /\ Filled(entry, a) /\ Clean(entry, a) /\ entry[a] \in Int
        BY <1>2, ElfAssumption DEF Entries, EthmacImage
    <2> QED
        BY <1>1, <2>1, <2>2, TableStep
<1>5. memory' \in [E!Cells -> Int] /\ entry' \in [Entries -> Int]
    <2>1. memory' = [a \in E!Cells |-> memory'[a]] /\ entry' = [a \in Entries |-> entry'[a]]
        BY <1>1, <1>2
    <2> QED
        BY <1>3, <1>4, <2>1
<1>6. next' \in 1 .. E!Past' + 1 /\ next' # E!Past' + 1 /\ E!Good(elf) /\ E!Past' = E!Past
    BY <1>1, <1>2 DEF Splitting, E!Past
<1>7. EthmacImage'
    BY <1>1, <1>3, <1>4, <1>6 DEF EthmacImage, Filled, Clean, E!Cells, Entries, E!Straight
<1> QED
    BY <1>1, <1>5, <1>6, <1>7 DEF Splitting, E!Cells, Entries
-----------------------------------------------------------------------------
\* Past the sections, what they are meant for and what they wrote is settled.
LEMMA NoMore ==
    ASSUME Splitting, next = E!Past, next' = next + 1, elf' = elf, target' = target, NEW a
    PROVE  Wanters(a)' = Wanters(a) /\ Writers(a)' = Writers(a)
<1>1. E!Chosen' = E!Chosen /\ \A n \in E!Chosen : n < next /\ n < next'
    BY DEF Splitting, E!Chosen, E!Past
<1>2. \A n : Hits(elf.sections[n], a)' <=> Hits(elf.sections[n], a)
    BY DEF Hits
<1> QED
    BY <1>1, <1>2 DEF Wanters, Writers

LEMMA RebootStep ==
    ASSUME Splitting, E!Reboot
    PROVE  Splitting'
<1>1. /\ target = "ethmac" /\ next = E!Past /\ next' = next + 1 /\ elf' = elf /\ target' = target
      /\ placed' = placed /\ entry' = entry
      /\ memory' = [a \in E!Cells |-> IF a < MemBufEntries /\ entry[a] # E!Old THEN entry[a] ELSE memory[a]]
    BY DEF E!Reboot
<1>2. EthmacImage /\ memory \in [E!Cells -> Int] /\ entry \in [Entries -> Int]
    BY <1>1 DEF Splitting
<1>3. ASSUME NEW a \in E!Cells
      PROVE  /\ memory'[a] \in Int
             /\ placed /\ MemBufEntries < a /\ a < ExecBase => Filled(memory', a)
             /\ a < MemBufEntries => Filled(memory', a)
             /\ Clean(memory', a)
    <2>1. a \in Nat /\ a \in E!Cells
        BY ElfAssumption DEF E!Cells
    <2>2. Clean(memory, a) /\ memory[a] \in Int
          /\ (placed /\ MemBufEntries < a /\ a < ExecBase => Filled(memory, a))
        BY <1>2 DEF EthmacImage
    <2>3. CASE a < MemBufEntries
        <3>1. a \in Entries
            BY <2>1, <2>3, ElfAssumption DEF Entries
        <3>2. Filled(entry, a) /\ Clean(entry, a) /\ entry[a] \in Int
            BY <1>2, <3>1 DEF EthmacImage
        <3>3. memory'[a] = IF entry[a] # E!Old THEN entry[a] ELSE memory[a]
            BY <1>1, <2>1, <2>3
        <3>4. ASSUME NEW n \in Wanters(a), E!Straight(elf.sections[n]), \A m \in Writers(a) : m <= n
              PROVE  memory'[a] = E!Bits(elf.sections[n], a)
            <4>1. entry[a] = E!Bits(elf.sections[n], a)
                BY <3>2, <3>4 DEF Filled
            <4>2. elf.sections[n] \in Section /\ E!In(elf.sections[n], a)
                BY DEF Wanters, E!Chosen, Splitting
            <4>3. entry[a] # E!Old
                BY <2>1, <4>1, <4>2 DEF E!Bits, E!Old, E!In, Section
            <4> QED
                BY <3>3, <4>1, <4>3
        <3>5. Filled(memory', a)
            BY <3>4 DEF Filled
        <3>6. Clean(memory', a)
            BY <2>2, <3>2, <3>3 DEF Clean
        <3> QED
            BY <2>1, <2>2, <2>3, <3>2, <3>3, <3>5, <3>6, ElfAssumption
    <2>4. CASE ~(a < MemBufEntries)
        <3>1. memory'[a] = memory[a]
            BY <1>1, <2>1, <2>4
        <3> QED
            BY <2>2, <2>4, <3>1 DEF Filled, Clean
    <2> QED
        BY <2>3, <2>4
<1>4. memory' \in [E!Cells -> Int]
    <2>1. memory' = [a \in E!Cells |-> memory'[a]]
        BY <1>1
    <2> QED
        BY <1>3, <2>1
<1>5. ASSUME NEW a \in Entries PROVE Filled(entry, a) /\ Clean(entry, a)
    BY <1>2 DEF EthmacImage
<1>6. EthmacImage'
    BY <1>1, <1>3, <1>5, NoMore DEF EthmacImage, Filled, Clean, E!Cells, Entries, E!Straight
<1>7. next' \in 1 .. E!Past' + 1 /\ E!Past' = E!Past /\ (~E!Good(elf') => next' = E!Past' + 1)
    BY <1>1 DEF Splitting, E!Past
<1> QED
    BY <1>1, <1>4, <1>6, <1>7 DEF Splitting, E!Cells, Entries

LEMMA Greatest ==
    ASSUME NEW set, set \subseteq E!Cells, set # {}
    PROVE  \E x \in set : \A y \in set : y <= x
<1> DEFINE R == {Top - x : x \in set}
<1>1. \A x \in set : x \in Nat /\ Top - x \in Nat
    BY ElfAssumption DEF E!Cells
<1>2. R \subseteq Nat /\ R # {}
    BY <1>1
<1> HIDE DEF R
<1>3. PICK r \in R : \A y \in R : r <= y
    BY <1>2, Least
<1>4. PICK x \in set : r = Top - x
    BY DEF R
<1>5. \A y \in set : r <= Top - y
    BY <1>3 DEF R
<1> QED
    BY <1>1, <1>4, <1>5, ElfAssumption

LEMMA ListingStep ==
    ASSUME Splitting, E!Listing
    PROVE  Splitting'
<1> DEFINE kept == {a \in E!Cells : memory[a] # E!Old}
           max_out == IF kept = {} THEN 0 ELSE CHOOSE a \in kept : \A b \in kept : b <= a
<1>1. /\ target = "tool" /\ next = E!Past /\ next' = next + 1 /\ elf' = elf /\ target' = target
      /\ placed' = placed /\ entry' = entry
      /\ memory' = [a \in E!Cells |-> IF a - (a % 4) < max_out + 3 THEN memory[a] ELSE E!Old]
    BY DEF E!Listing
<1>2. WholeImage /\ memory \in [E!Cells -> Int]
    BY <1>1 DEF Splitting
<1>3. ASSUME NEW a \in kept PROVE a \in E!Cells /\ max_out \in Nat /\ a <= max_out
    <2>1. kept \subseteq E!Cells /\ kept # {}
        OBVIOUS
    <2> HIDE DEF kept
    <2>2. max_out \in kept /\ \A b \in kept : b <= max_out
        BY <2>1, Greatest
    <2> HIDE DEF max_out
    <2>3. max_out \in Nat
        BY <2>1, <2>2, ElfAssumption DEF E!Cells
    <2> QED
        BY <1>3, <2>1, <2>2, <2>3
<1> HIDE DEF max_out
<1>4. ASSUME NEW a \in E!Cells PROVE memory'[a] = memory[a]
    <2>1. CASE a \in kept
        <3>1. a \in Nat /\ max_out \in Nat /\ a <= max_out
            BY <1>3, <2>1, ElfAssumption DEF E!Cells
        <3>2. a - (a % 4) < max_out + 3
            BY <3>1, SMT
        <3> QED
            BY <1>1, <3>2
    <2>2. CASE a \notin kept
        BY <1>1, <2>2
    <2> QED
        BY <2>1, <2>2
<1>5. memory' = memory
    BY <1>1, <1>2, <1>4
<1>6. WholeImage'
    BY <1>1, <1>2, <1>5, NoMore DEF WholeImage, Filled, Clean, E!Cells, E!Straight
<1>7. next' \in 1 .. E!Past' + 1 /\ E!Past' = E!Past /\ (~E!Good(elf') => next' = E!Past' + 1)
    BY <1>1 DEF Splitting, E!Past
<1> QED
    BY <1>1, <1>2, <1>5, <1>6, <1>7 DEF Splitting, E!Cells, Entries

LEMMA SplitterStart ==
    ASSUME E!elfsplitter
    PROVE  Splitting'
<1>1. PICK magic \in BOOLEAN, machine \in BOOLEAN, table \in Tables :
          elf' = [magic |-> magic, machine |-> machine, sections |-> table]
    BY DEF E!elfsplitter
<1>2. elf'.sections \in Seq(Section)
    BY <1>1, ElfAssumption DEF Section
<1>3. /\ target' \in {"serial", "ethmac", "tool"}
      /\ memory' = E!Empty /\ entry' = [a \in Entries |-> E!Old]
      /\ next' = IF E!Good(elf') THEN 1 ELSE Len(elf'.sections) + 2
    BY DEF E!elfsplitter, Entries
<1>4. memory' \in [E!Cells -> Int] /\ entry' \in [Entries -> Int]
      /\ (\A a \in E!Cells : memory'[a] = E!Old) /\ (\A a \in Entries : entry'[a] = E!Old)
    BY <1>3 DEF E!Empty, E!Old
<1>5. next' \in 1 .. E!Past' + 1 /\ (~E!Good(elf') => next' = E!Past' + 1)
    BY <1>2, <1>3 DEF E!Past
<1>6. \A n \in E!Chosen' : ~(n < next')
    <2>1. CASE E!Good(elf')
        BY <1>2, <1>3, <2>1 DEF E!Chosen
    <2>2. CASE ~E!Good(elf')
        BY <2>2 DEF E!Chosen
    <2> QED
        BY <2>1, <2>2
<1>7. \A a : Wanters(a)' = {} /\ Writers(a)' = {}
    BY <1>6 DEF Wanters, Writers
<1>8. WholeImage' /\ EthmacImage'
    BY <1>4, <1>7 DEF WholeImage, EthmacImage, Filled, Clean, E!Cells, Entries
<1> QED
    BY <1>2, <1>3, <1>4, <1>5, <1>8 DEF Splitting, E!Cells, Entries

LEMMA ElfStep ==
    ASSUME ElfInv, E!ElfNext
    PROVE  ElfInv'
<1>1. E!elfsplitter \/ E!Return \/ target # "none"
    BY DEF E!ElfNext, E!SerialSection, E!EthmacSection, E!ToolSection, E!Reboot, E!Listing
<1>2. target # "none" => Splitting
    BY DEF ElfInv
<1>3. E!Return => target' = "none"
    BY DEF E!Return
<1> QED
    BY <1>1, <1>2, <1>3, SplitterStart, WholeStep, EthmacStep, RebootStep, ListingStep
       DEF E!ElfNext, ElfInv

LEMMA ImageIs == ElfInv => ImageExact
<1> SUFFICES ASSUME Splitting, E!Whole, NEW a \in E!Cells
             PROVE  /\ \A n \in E!Chosen :
                          E!In(elf.sections[n], a) /\ E!Straight(elf.sections[n]) /\ E!Kept(n, a)
                          /\ ~E!Lost(a) => memory[a] = E!Bits(elf.sections[n], a)
                    /\ (\A n \in E!Chosen : a \notin E!Stores(elf.sections[n])) => memory[a] = E!Old
    BY DEF ElfInv, ImageExact, E!ImageExact
<1>1. a \in Nat /\ target \in {"serial", "ethmac", "tool"}
    BY ElfAssumption DEF Splitting, E!Cells
<1>2. \A n \in E!Chosen : n \in Nat /\ n < next /\ elf.sections[n] \in Section
    BY DEF E!Chosen, E!Whole, E!Past, Splitting
<1>3. \A n \in E!Chosen : a \in E!Stores(elf.sections[n]) <=> Hits(elf.sections[n], a)
    BY DEF E!Stores, Hits
<1>4. /\ Wanters(a) = {n \in E!Chosen : E!In(elf.sections[n], a)}
      /\ Writers(a) = {n \in E!Chosen : a \in E!Stores(elf.sections[n])}
    BY <1>2, <1>3 DEF Wanters, Writers
<1>5. Clean(memory, a) /\ (~E!Lost(a) => Filled(memory, a))
    <2>1. CASE target = "ethmac"
        <3>1. EthmacImage /\ next = E!Past + 1
            BY <2>1 DEF Splitting, E!Whole
        <3>2. ~E!Lost(a) => a < MemBufEntries \/ (placed /\ MemBufEntries < a /\ a < ExecBase)
            BY <1>1, <2>1, ElfAssumption DEF E!Lost
        <3> QED
            BY <3>1, <3>2 DEF EthmacImage
    <2>2. CASE target # "ethmac"
        BY <1>1, <2>2 DEF Splitting, WholeImage
    <2> QED
        BY <2>1, <2>2
<1>6. ASSUME NEW n \in E!Chosen, E!In(elf.sections[n], a), E!Straight(elf.sections[n]),
             E!Kept(n, a), ~E!Lost(a)
      PROVE  memory[a] = E!Bits(elf.sections[n], a)
    <2>1. ASSUME NEW m \in Writers(a), ~(m <= n) PROVE FALSE
        <3>1. m \in E!Chosen /\ m > n /\ a \in E!Stores(elf.sections[m])
            BY <1>2, <1>4, <2>1
        <3>2. E!Straight(elf.sections[m]) /\ E!Apart(elf.sections[n], elf.sections[m])
            BY <1>6, <3>1 DEF E!Kept
        <3>3. elf.sections[n] \in Section /\ elf.sections[m] \in Section
            BY <1>2, <3>1
        <3>4. CASE target = "serial"
            BY <1>6, <3>1, <3>2, <3>3, <3>4, TailsSpare DEF E!Straight, E!Stores
        <3>5. CASE target # "serial"
            <4>1. E!In(elf.sections[m], a)
                BY <3>1, <3>5 DEF E!Stores
            <4> QED
                BY <1>1, <1>6, <3>2, <3>3, <4>1 DEF E!In, E!Apart, Section
        <3> QED
            BY <3>4, <3>5
    <2> QED
        BY <1>4, <1>5, <1>6, <2>1 DEF Filled
<1>7. (\A n \in E!Chosen : a \notin E!Stores(elf.sections[n])) => memory[a] = E!Old
    BY <1>4, <1>5 DEF Clean
<1> QED
    BY <1>6, <1>7

\* Each of the three splitters puts every byte where the file wants it and
\* changes nothing else, for every file: any number of sections, in any order
\* and anywhere, but for the places that ImageExact names.
THEOREM ImagesAreExact == UnitsSpec => []ImageExact
<1>1. UnitsInit => ElfInv
    BY DEF UnitsInit, E!Idle, ElfInv
<1>2. ElfInv /\ [UnitsNext]_all => ElfInv'
    <2>1. ASSUME ElfInv, E!ElfNext PROVE ElfInv'
        BY <2>1, ElfStep
    <2>2. ASSUME ElfInv, UNCHANGED splitting PROVE ElfInv'
        <3>1. target' = target /\ elf' = elf /\ next' = next /\ memory' = memory
              /\ entry' = entry /\ placed' = placed
            BY <2>2 DEF splitting
        <3>2. /\ E!Chosen' = E!Chosen /\ E!Past' = E!Past
              /\ \A a : Wanters(a)' = Wanters(a) /\ Writers(a)' = Writers(a)
            BY <3>1 DEF E!Chosen, E!Past, Wanters, Writers, Hits
        <3>3. Splitting' <=> Splitting
            BY <3>1, <3>2 DEF Splitting, WholeImage, EthmacImage, Filled, Clean, E!Cells, Entries, E!Straight
        <3> QED
            BY <2>2, <3>1, <3>3 DEF ElfInv
    <2> QED
        BY <2>1, <2>2 DEF UnitsNext, all
<1> QED
    BY <1>1, <1>2, ImageIs, PTL DEF UnitsSpec
-----------------------------------------------------------------------------
(* The telnet output.                                                      *)

Room == 0 .. LenBytes - 1

\* Text up to write_ptr and an end behind it; what was sent ends where the
\* packet at hand starts.
FirstLap ==
    /\ write_ptr = put /\ read_ptr \in 0 .. put
    /\ cells = O!NoCells => put = 0 /\ stage = "over"
    /\ cells # O!NoCells =>
          /\ cells \in [Room -> Int]
          /\ \A c \in 0 .. put - 1 : cells[c] = O!Char(c + 1)
          /\ put > 0 => cells[put] = O!EndMark
    /\ sent \in Seq(Int)
    /\ \A k \in 1 .. Len(sent) : sent[k] = O!Char(k)
    /\ stage = "more" => /\ first_line = Len(sent) /\ read_ptr = first_line + total
                         /\ line_len = 0 => read_ptr = put
    /\ stage # "more" => Len(sent) = read_ptr
    /\ stage = "over" => read_ptr = put \/ total >= MaxTelnetTx

TxInv ==
    /\ put \in Nat /\ total \in 0 .. MaxTelnetTx + MaxLine - 1
    /\ put + MaxLine < LenBytes => FirstLap
-----------------------------------------------------------------------------
\* Where the scan for the end of a line stops.
LEMMA StopsSomewhere ==
    O!Stop \in 0 .. MaxLine
<1> DEFINE stops == {n \in 0 .. MaxLine : \/ n = MaxLine \/ O!Start + n = write_ptr
                                          \/ cells[O!Start + n] \in {O!EndMark, O!MoreMark}}
<1>1. stops \subseteq Nat /\ MaxLine \in stops
    BY TextAssumption
<1>2. O!Stop = O!Min(stops)
    BY DEF O!Stop
<1>3. O!Min(stops) \in stops
    <2> HIDE DEF stops
    <2>1. \E x \in stops : \A y \in stops : x <= y
        BY <1>1, Least
    <2> QED
        BY <2>1 DEF O!Min
<1>4. stops \subseteq 0 .. MaxLine
    OBVIOUS
<1> QED
    BY <1>2, <1>3, <1>4

LEMMA StopsAtTheFirst ==
    /\ \/ O!Stop = MaxLine \/ O!Start + O!Stop = write_ptr
       \/ cells[O!Start + O!Stop] \in {O!EndMark, O!MoreMark}
    /\ \A n \in 0 .. MaxLine : O!Start + n = write_ptr => O!Stop <= n
<1> DEFINE stops == {n \in 0 .. MaxLine : \/ n = MaxLine \/ O!Start + n = write_ptr
                                          \/ cells[O!Start + n] \in {O!EndMark, O!MoreMark}}
<1>1. stops \subseteq Nat /\ MaxLine \in stops
    BY TextAssumption
<1>2. O!Stop = O!Min(stops)
    BY DEF O!Stop
<1>3. O!Min(stops) \in stops /\ \A y \in stops : O!Min(stops) <= y
    <2> HIDE DEF stops
    <2>1. \E x \in stops : \A y \in stops : x <= y
        BY <1>1, Least
    <2> QED
        BY <2>1 DEF O!Min
<1> QED
    BY <1>2, <1>3

LEMMA LineLength ==
    O!LineLen \in 0 .. MaxLine
BY StopsSomewhere, TextAssumption DEF O!LineLen

\* In the first lap get_line returns text that was put, and nothing only if
\* there is none.
LEMMA LineOfText ==
    ASSUME FirstLap, put \in Nat, put + MaxLine < LenBytes, cells # O!NoCells
    PROVE  /\ O!Start = read_ptr
           /\ O!LineLen \in 0 .. (put - read_ptr)
           /\ O!LineLen = 0 => read_ptr = put
<1>1. write_ptr = put /\ read_ptr \in 0 .. put
    BY DEF FirstLap
<1>2. O!Start = read_ptr
    BY <1>1, TextAssumption DEF O!Start, O!Wrap
<1>3. CASE read_ptr = put
    BY <1>1, <1>2, <1>3 DEF O!LineLen
<1>4. CASE read_ptr # put
    <2>1. read_ptr < put /\ read_ptr \in Nat
        BY <1>1, <1>4
    <2>2. O!Stop \in 0 .. MaxLine
        BY StopsSomewhere
    <2>3. O!Stop <= put - read_ptr
        <3>1. CASE put - read_ptr <= MaxLine
            <4>1. put - read_ptr \in 0 .. MaxLine /\ O!Start + (put - read_ptr) = write_ptr
                BY <1>1, <1>2, <2>1, <3>1, TextAssumption
            <4> QED
                BY <4>1, StopsAtTheFirst
        <3>2. CASE ~(put - read_ptr <= MaxLine)
            BY <2>1, <2>2, <3>2, TextAssumption
        <3> QED
            BY <3>1, <3>2
    <2>4. ASSUME NEW n \in 0 .. (put - read_ptr)
          PROVE  /\ n # put - read_ptr => cells[read_ptr + n] \notin {O!EndMark, O!MoreMark}
                 /\ cells[read_ptr + n] # O!MoreMark
        <3>1. CASE n = put - read_ptr
            <4>1. read_ptr + n = put /\ put > 0
                BY <2>1, <3>1
            <4> QED
                BY <3>1, <4>1 DEF FirstLap, O!EndMark, O!MoreMark
        <3>2. CASE n # put - read_ptr
            <4>1. read_ptr + n \in 0 .. put - 1
                BY <2>1, <3>2
            <4>2. cells[read_ptr + n] = O!Char(read_ptr + n + 1)
                BY <4>1 DEF FirstLap
            <4> QED
                BY <4>1, <4>2 DEF O!Char, O!EndMark, O!MoreMark
        <3> QED
            BY <3>1, <3>2
    <2>5. O!Stop \in 0 .. (put - read_ptr)
        BY <2>1, <2>2, <2>3
    <2>6. O!LineLen = O!Stop
        BY <1>1, <1>2, <1>4, <2>4, <2>5 DEF O!LineLen
    <2>7. O!Stop # 0
        <3>1. SUFFICES ASSUME O!Stop = 0 PROVE FALSE
            OBVIOUS
        <3>2. O!Stop # MaxLine /\ O!Start + O!Stop # write_ptr
            BY <1>1, <1>2, <2>1, <3>1, TextAssumption
        <3>3. cells[read_ptr + O!Stop] \in {O!EndMark, O!MoreMark}
            BY <1>2, <3>2, StopsAtTheFirst
        <3>4. O!Stop # put - read_ptr
            BY <2>1, <3>1
        <3> QED
            BY <2>4, <2>5, <3>3, <3>4
    <2> QED
        BY <1>2, <2>5, <2>6, <2>7
<1> QED
    BY <1>2, <1>3, <1>4

LEMMA PutStep ==
    ASSUME TxInv, NEW n \in Texts, O!put_line(n)
    PROVE  TxInv'
<1>1. /\ n \in Nat /\ n > 0 /\ 2 * n <= MaxLine /\ put \in Nat /\ put' = put + n
    BY TextAssumption, TextFits DEF TxInv, O!put_line
<1>2. put' \in Nat /\ total' \in 0 .. MaxTelnetTx + MaxLine - 1
    BY <1>1 DEF TxInv, O!put_line
<1>3. ASSUME put' + MaxLine < LenBytes PROVE FirstLap'
    <2>1. FirstLap /\ put + n + MaxLine < LenBytes
        BY <1>1, <1>3, TextAssumption DEF TxInv
    <2>2. /\ cells # O!NoCells /\ stage \in {"pass", "over"} /\ stage' = "pass"
          /\ UNCHANGED <<read_ptr, first_line, total, line_len, sent>>
        BY DEF O!put_line
    <2>3. write_ptr = put /\ write_ptr' = put'
        BY <1>1, <2>1, TextAssumption DEF O!put_line, O!Wrap, FirstLap
    <2>4. O!Ends(n) = {put + 2 * n, put + n}
        BY <1>1, <2>1, <2>3, TextAssumption DEF O!Ends, O!Wrap
    <2>5. cells \in [Room -> Int]
        BY <2>1, <2>2 DEF FirstLap
    <2>6. cells' = [c \in Room |-> IF c \in O!Ends(n) THEN O!EndMark
                                   ELSE IF c \in put .. put + n - 1
                                        THEN O!Char(put + c - put + 1) ELSE cells[c]]
        BY <2>3, <2>5 DEF O!put_line
    <2>7. cells' \in [Room -> Int]
        <3>1. ASSUME NEW c \in Room PROVE cells'[c] \in Int
            BY <1>1, <2>5, <2>6 DEF Room, O!EndMark, O!Char
        <3> QED
            BY <2>6, <3>1
    <2>8. ASSUME NEW c \in 0 .. put' - 1 PROVE cells'[c] = O!Char(c + 1)
        <3>1. c \in Room /\ c \notin O!Ends(n)
            BY <1>1, <2>1, <2>4, TextAssumption DEF Room
        <3>2. CASE c \in put .. put + n - 1
            <4>1. put + c - put + 1 = c + 1
                BY <1>1
            <4> QED
                BY <2>6, <3>1, <3>2, <4>1
        <3>3. CASE c \notin put .. put + n - 1
            <4>1. c \in 0 .. put - 1
                BY <1>1, <3>3
            <4> QED
                BY <2>1, <2>2, <2>6, <3>1, <3>3, <4>1 DEF FirstLap
        <3> QED
            BY <3>2, <3>3
    <2>9. cells'[put'] = O!EndMark
        <3>1. put' \in Room /\ put' \in O!Ends(n)
            BY <1>1, <2>1, <2>4, TextAssumption DEF Room
        <3> QED
            BY <2>6, <3>1
    <2>10. read_ptr \in 0 .. put /\ Len(sent) = read_ptr
        BY <2>1, <2>2 DEF FirstLap
    <2>11. sent \in Seq(Int) /\ \A k \in 1 .. Len(sent) : sent[k] = O!Char(k)
        BY <2>1 DEF FirstLap
    <2>12. write_ptr' = put' /\ read_ptr' \in 0 .. put'
        BY <1>1, <2>2, <2>3, <2>10
    <2>13. cells' # O!NoCells
        <3>1. 0 \in DOMAIN cells'
            BY <1>1, <2>1, <2>6, TextAssumption DEF Room
        <3> QED
            BY <3>1 DEF O!NoCells
    <2> QED
        BY <2>2, <2>7, <2>8, <2>9, <2>10, <2>11, <2>12, <2>13 DEF FirstLap
<1> QED
    BY <1>2, <1>3 DEF TxInv

LEMMA ConnectStep ==
    ASSUME TxInv, O!init_line_buffer
    PROVE  TxInv'
<1>1. /\ cells = O!NoCells
      /\ UNCHANGED <<write_ptr, read_ptr, first_line, total, line_len, stage, put, sent>>
    BY DEF O!init_line_buffer
<1>2. PICK junk \in {O!EndMark, O!MoreMark, O!Other} :
          cells' = [c \in 0 .. LenBytes - 1 |-> junk]
    BY DEF O!init_line_buffer
<1>3. junk \in Int
    BY DEF O!EndMark, O!MoreMark, O!Other
<1>4. ASSUME put + MaxLine < LenBytes PROVE FirstLap'
    <2>1. FirstLap /\ put = 0 /\ stage = "over"
        BY <1>1, <1>4 DEF TxInv, FirstLap
    <2>2. cells' \in [Room -> Int]
        BY <1>2, <1>3 DEF Room
    <2>3. cells' # O!NoCells
        <3>1. 0 \in DOMAIN cells'
            BY <1>2, <1>4, <2>1, TextAssumption
        <3> QED
            BY <3>1 DEF O!NoCells
    <2> QED
        BY <1>1, <2>1, <2>2, <2>3 DEF FirstLap
<1> QED
    BY <1>1, <1>4 DEF TxInv

LEMMA FirstStep ==
    ASSUME TxInv, O!First
    PROVE  TxInv'
<1>1. /\ cells # O!NoCells /\ stage \in {"pass", "over"}
      /\ UNCHANGED <<cells, write_ptr, put, sent>>
      /\ read_ptr' = O!Start + O!LineLen /\ line_len' = O!LineLen
      /\ first_line' = O!Start /\ total' = O!LineLen
      /\ stage' = IF O!LineLen > 0 THEN "more" ELSE "over"
    BY DEF O!First
<1>2. total' \in 0 .. MaxTelnetTx + MaxLine - 1
    BY <1>1, LineLength, TextAssumption
<1>3. ASSUME put + MaxLine < LenBytes PROVE FirstLap'
    <2>1. FirstLap /\ put \in Nat
        BY <1>3 DEF TxInv
    <2>2. /\ O!Start = read_ptr /\ O!LineLen \in 0 .. (put - read_ptr)
          /\ O!LineLen = 0 => read_ptr = put
        BY <1>1, <1>3, <2>1, LineOfText
    <2>3. read_ptr \in 0 .. put /\ Len(sent) = read_ptr
        BY <1>1, <2>1 DEF FirstLap
    <2>4. read_ptr' = read_ptr + O!LineLen /\ read_ptr' \in 0 .. put
        BY <1>1, <2>1, <2>2, <2>3
    <2>5. first_line' = Len(sent) /\ read_ptr' = first_line' + total'
        BY <1>1, <2>2, <2>3
    <2>6. stage' # "more" => O!LineLen = 0 /\ read_ptr' = put /\ Len(sent) = read_ptr'
        BY <1>1, <2>2, <2>3, <2>4
    <2>7. stage' = "more" => line_len' # 0
        BY <1>1, <2>2
    <2> QED
        BY <1>1, <2>1, <2>4, <2>5, <2>6, <2>7 DEF FirstLap
<1> QED
    BY <1>1, <1>2, <1>3 DEF TxInv

LEMMA MoreStep ==
    ASSUME TxInv, O!More
    PROVE  TxInv'
<1>1. /\ stage = "more" /\ total < MaxTelnetTx
      /\ UNCHANGED <<cells, write_ptr, first_line, stage, put, sent>>
      /\ read_ptr' = O!Start + O!LineLen /\ line_len' = O!LineLen
      /\ total' = total + O!LineLen
    BY DEF O!More
<1>2. total' \in 0 .. MaxTelnetTx + MaxLine - 1
    <2>1. total \in Nat
        BY TextAssumption DEF TxInv
    <2> QED
        BY <1>1, <2>1, LineLength, TextAssumption
<1>3. ASSUME put + MaxLine < LenBytes PROVE FirstLap'
    <2>1. FirstLap /\ put \in Nat /\ cells # O!NoCells /\ total \in Nat
        BY <1>1, <1>3, TextAssumption DEF TxInv, FirstLap
    <2>2. /\ O!Start = read_ptr /\ O!LineLen \in 0 .. (put - read_ptr)
          /\ O!LineLen = 0 => read_ptr = put
        BY <1>3, <2>1, LineOfText
    <2>3. /\ read_ptr \in 0 .. put
          /\ first_line = Len(sent) /\ read_ptr = first_line + total
        BY <1>1, <2>1 DEF FirstLap
    <2>4. read_ptr' = read_ptr + O!LineLen /\ read_ptr' \in 0 .. put
        BY <1>1, <2>1, <2>2, <2>3
    <2>5. read_ptr' = first_line + total'
        <3>1. Len(sent) \in Nat
            BY <2>1 DEF FirstLap
        <3> QED
            BY <1>1, <2>1, <2>2, <2>3, <2>4, <3>1
    <2>6. O!LineLen = 0 => read_ptr' = put
        BY <2>2, <2>3, <2>4
    <2> QED
        BY <1>1, <2>1, <2>3, <2>4, <2>5, <2>6 DEF FirstLap
<1> QED
    BY <1>1, <1>2, <1>3 DEF TxInv

LEMMA SendStep ==
    ASSUME TxInv, O!Send
    PROVE  TxInv'
<1>1. /\ stage = "more" /\ stage' = "over" /\ (total >= MaxTelnetTx \/ line_len = 0)
      /\ UNCHANGED <<cells, write_ptr, read_ptr, first_line, total, line_len, put>>
      /\ sent' = sent \o O!Packet
    BY DEF O!Send
<1>2. ASSUME put + MaxLine < LenBytes PROVE FirstLap'
    <2>1. FirstLap /\ put \in Nat /\ cells # O!NoCells /\ total \in Nat
        BY <1>1, <1>2, TextAssumption DEF TxInv, FirstLap
    <2>2. /\ read_ptr \in 0 .. put /\ first_line = Len(sent) /\ first_line \in Nat
          /\ read_ptr = first_line + total
          /\ line_len = 0 => read_ptr = put
          /\ sent \in Seq(Int) /\ \A k \in 1 .. Len(sent) : sent[k] = O!Char(k)
        BY <1>1, <2>1 DEF FirstLap
    <2>3. DOMAIN cells = Room
        BY <2>1 DEF FirstLap
    <2>4. ASSUME NEW k \in 1 .. total PROVE O!Packet[k] = O!Char(first_line + k)
        <3>1. first_line + k - 1 \in 0 .. put - 1
            BY <2>1, <2>2
        <3>2. first_line + k - 1 \in DOMAIN cells
            BY <1>2, <2>1, <2>3, <3>1, TextAssumption DEF Room
        <3>3. O!Packet[k] = cells[first_line + k - 1]
            BY <3>2 DEF O!Packet
        <3>4. first_line + k - 1 + 1 = first_line + k
            BY <2>2
        <3> QED
            BY <2>1, <3>1, <3>3, <3>4 DEF FirstLap
    <2>5. O!Packet \in Seq(Int) /\ Len(O!Packet) = total
        <3>1. O!Packet \in [1 .. total -> Int]
            <4>1. ASSUME NEW k \in 1 .. total PROVE O!Packet[k] \in Int
                BY <2>2, <2>4 DEF O!Char
            <4>2. O!Packet = [k \in 1 .. total |-> O!Packet[k]]
                BY DEF O!Packet
            <4> HIDE DEF O!Packet
            <4> QED
                BY <4>1, <4>2
        <3> QED
            BY <2>1, <3>1
    <2>6. sent' \in Seq(Int) /\ Len(sent') = read_ptr
        <3>1. sent \o O!Packet \in Seq(Int) /\ Len(sent \o O!Packet) = Len(sent) + Len(O!Packet)
            BY <2>2, <2>5
        <3>2. Len(sent) + Len(O!Packet) = read_ptr
            BY <2>2, <2>5
        <3> QED
            BY <1>1, <3>1, <3>2
    <2>7. ASSUME NEW k \in 1 .. Len(sent') PROVE sent'[k] = O!Char(k)
        <3>1. CASE k <= Len(sent)
            BY <1>1, <2>2, <2>5, <2>6, <3>1
        <3>2. CASE ~(k <= Len(sent))
            <4>1. k - Len(sent) \in 1 .. total /\ first_line + (k - Len(sent)) = k
                BY <2>1, <2>2, <2>6, <3>2
            <4>2. sent'[k] = O!Packet[k - Len(sent)]
                BY <1>1, <2>2, <2>5, <2>6, <3>2
            <4> QED
                BY <2>4, <4>1, <4>2
        <3> QED
            BY <3>1, <3>2
    <2> QED
        BY <1>1, <2>1, <2>2, <2>6, <2>7 DEF FirstLap
<1> QED
    BY <1>1, <1>2 DEF TxInv

LEMMA TxMeans == TxInv => TextAsPut
<1> SUFFICES ASSUME TxInv PROVE TextAsPut
    OBVIOUS
<1>1. total < MaxTelnetTx + MaxLine
    BY TextAssumption DEF TxInv
<1>2. ASSUME put + MaxLine < LenBytes
      PROVE  /\ \A k \in DOMAIN sent : k <= put /\ sent[k] = O!Char(k)
             /\ stage = "over" => Len(sent) = put \/ total >= MaxTelnetTx
    <2>1. FirstLap /\ put \in Nat /\ total \in Nat
        BY <1>2, TextAssumption DEF TxInv
    <2>2. Len(sent) \in Nat /\ Len(sent) <= read_ptr /\ read_ptr <= put /\ DOMAIN sent = 1 .. Len(sent)
        <3>1. sent \in Seq(Int) /\ read_ptr \in 0 .. put
            BY <2>1 DEF FirstLap
        <3>2. Len(sent) \in Nat /\ DOMAIN sent = 1 .. Len(sent)
            BY <3>1
        <3>3. stage = "more" => Len(sent) <= read_ptr
            BY <2>1, <3>2 DEF FirstLap
        <3>4. stage # "more" => Len(sent) <= read_ptr
            BY <2>1, <3>1 DEF FirstLap
        <3> QED
            BY <2>1, <3>1, <3>2, <3>3, <3>4
    <2>3. \A k \in 1 .. Len(sent) : k <= put
        <3>1. read_ptr \in 0 .. put
            BY <2>1 DEF FirstLap
        <3> QED
            BY <2>1, <2>2, <3>1
    <2> QED
        BY <2>1, <2>2, <2>3 DEF FirstLap
<1> QED
    BY <1>1, <1>2 DEF TextAsPut, O!TextAsPut

\* Until the buffer comes round a telnet client is sent the text that was put,
\* in order and whole, whatever the lengths of the lines and however they are
\* stuffed into packets; and a packet fits a frame.
THEOREM OutputIsText == UnitsSpec => []TextAsPut
<1>1. UnitsInit => TxInv
    <2> SUFFICES ASSUME UnitsInit PROVE TxInv
        OBVIOUS
    <2>1. /\ cells = O!NoCells /\ write_ptr = 0 /\ read_ptr = 0 /\ total = 0
          /\ stage = "over" /\ put = 0 /\ sent = <<>>
        BY DEF UnitsInit, O!Idle
    <2>2. sent \in Seq(Int) /\ Len(sent) = 0
        BY <2>1
    <2> QED
        BY <2>1, <2>2, TextAssumption DEF TxInv, FirstLap
<1>2. TxInv /\ [UnitsNext]_all => TxInv'
    <2> SUFFICES ASSUME TxInv, [UnitsNext]_all PROVE TxInv'
        OBVIOUS
    <2>1. CASE O!TxNext
        <3>1. CASE O!init_line_buffer
            BY <3>1, ConnectStep
        <3>2. CASE \E n \in Texts : O!put_line(n)
            BY <3>2, PutStep
        <3>3. CASE O!First
            BY <3>3, FirstStep
        <3>4. CASE O!More
            BY <3>4, MoreStep
        <3>5. CASE O!Send
            BY <3>5, SendStep
        <3> QED
            BY <2>1, <3>1, <3>2, <3>3, <3>4, <3>5 DEF O!TxNext
    <2>2. CASE UNCHANGED output
        BY <2>2 DEF output, TxInv, FirstLap
    <2>3. O!TxNext \/ UNCHANGED output
        <3>1. CASE UnitsNext
            BY <3>1 DEF UnitsNext
        <3>2. CASE UNCHANGED all
            BY <3>2 DEF all
        <3> QED
            BY <3>1, <3>2
    <2> QED
        BY <2>1, <2>2, <2>3
<1> QED
    BY <1>1, <1>2, TxMeans, PTL DEF UnitsSpec
-----------------------------------------------------------------------------
(* The memory bus.                                                         *)
Transfer == [stb : BOOLEAN, we : BOOLEAN, adr : Lines \cup {0}, dat : Nat, cyc : BOOLEAN]
Command  == [we : BOOLEAN, adr : Lines \cup {0}]

Stage == [wreq : BOOLEAN, rreq : BOOLEAN, adr : Lines \cup {0}, active : BOOLEAN,
          ready : BOOLEAN, ack : BOOLEAN, dat : Nat, cmd_en : BOOLEAN, cmd : Command,
          wr_en : BOOLEAN, wr : Nat, buffered : BOOLEAN, buf : Nat]

BusTypes ==
    /\ req \in [{0, 1} -> Transfer]
    /\ \A m \in {0, 1} : req[m].stb => req[m].adr \in Lines
    /\ arb \in [current : {0, 1}, hold : [{0, 1} -> BOOLEAN]]
    /\ br \in Stage
    /\ mcb \in [cmds : Seq(Command), data : Seq(Nat), read : Seq(Nat), memory : [Lines -> Nat]]
    /\ want \in [Lines -> Nat] /\ writes \in Nat

LEMMA MasterType == BusTypes => B!current_master \in {0, 1} /\ B!Master \in Transfer
                                /\ (B!Master.stb => B!Master.adr \in Lines)
BY DEF BusTypes, B!Master, B!current_master, B!select_master, B!next_master

\* The registers of the bridge, one by one.
LEMMA BridgeBits ==
    /\ B!Bridge.wreq <=> IF B!cmd_full THEN br.wreq ELSE B!write_request
    /\ B!Bridge.rreq <=> IF B!cmd_full THEN br.rreq ELSE B!read_request
    /\ B!Bridge.cmd_en <=> IF B!cmd_full THEN br.cmd_en ELSE br.wreq \/ br.rreq
    /\ B!Bridge.wr_en <=> IF B!cmd_full THEN br.wr_en ELSE B!write_request \/ br.buffered
    /\ B!Bridge.buffered <=> B!cmd_full /\ (B!write_request \/ br.buffered)
    /\ B!Bridge.ready <=> br.ack \/ (br.ready /\ ~B!read_request)
    /\ B!Bridge.active <=> B!read_request \/ (br.active /\ ~br.ack)
    /\ B!Bridge.ack <=> B!rd_valid /\ br.active
BY Zenon DEF B!Bridge

LEMMA BridgeWords ==
    /\ B!Bridge.adr = IF B!cmd_full THEN br.adr ELSE B!Master.adr
    /\ B!Bridge.cmd = IF B!cmd_full THEN br.cmd ELSE [we |-> br.wreq, adr |-> br.adr]
    /\ B!Bridge.wr = IF B!cmd_full THEN br.wr ELSE IF br.buffered THEN br.buf ELSE B!Master.dat
    /\ B!Bridge.buf = IF B!cmd_full /\ B!write_request THEN B!Master.dat ELSE br.buf
    /\ B!Bridge.dat = IF B!rd_valid /\ br.active THEN Head(mcb.read) ELSE br.dat
BY DEF B!Bridge

LEMMA BridgeType ==
    ASSUME BusTypes
    PROVE  B!Bridge \in Stage
<1>0. B!Bridge =
       [wreq |-> B!Bridge.wreq, rreq |-> B!Bridge.rreq, adr |-> B!Bridge.adr, cmd_en |-> B!Bridge.cmd_en,
        cmd |-> B!Bridge.cmd, wr_en |-> B!Bridge.wr_en, wr |-> B!Bridge.wr,
        buffered |-> B!Bridge.buffered, buf |-> B!Bridge.buf, ready |-> B!Bridge.ready,
        active |-> B!Bridge.active, ack |-> B!Bridge.ack, dat |-> B!Bridge.dat]
    BY DEF B!Bridge
<1>1. br \in Stage
    BY DEF BusTypes, Stage
<1>2. B!write_request \in BOOLEAN /\ B!read_request \in BOOLEAN /\ B!cmd_full \in BOOLEAN /\ B!rd_valid \in BOOLEAN
    BY DEF B!write_request, B!read_request, B!cmd_full, B!rd_valid
<1>3. /\ B!Bridge.wreq \in BOOLEAN /\ B!Bridge.rreq \in BOOLEAN /\ B!Bridge.cmd_en \in BOOLEAN
      /\ B!Bridge.wr_en \in BOOLEAN /\ B!Bridge.buffered \in BOOLEAN /\ B!Bridge.ready \in BOOLEAN
      /\ B!Bridge.active \in BOOLEAN /\ B!Bridge.ack \in BOOLEAN
    BY <1>1, <1>2 DEF B!Bridge, Stage
<1>4. B!Bridge.adr \in Lines \cup {0} /\ B!Bridge.wr \in Nat /\ B!Bridge.buf \in Nat
    BY <1>1, MasterType, BridgeWords DEF Stage, Transfer
<1>5. B!Bridge.cmd \in Command
    BY <1>1, BridgeWords DEF Stage, Command
<1>6. B!Bridge.dat \in Nat
    BY <1>1, BridgeWords DEF Stage, BusTypes, B!rd_valid
<1> QED
    BY <1>0, <1>3, <1>4, <1>5, <1>6 DEF Stage

-----------------------------------------------------------------------------
(* Queues: t is s without its first p elements and with n times e behind.  *)
Moved(s, t, p, n, e) ==
    /\ Len(t) = Len(s) - p + n
    /\ \A k \in 1 .. Len(s) - p : t[k] = s[k + p]
    /\ n = 1 => t[Len(s) - p + 1] = e

Turn(b) == IF b THEN 1 ELSE 0

LEMMA QueueMoves ==
    ASSUME NEW S, NEW s \in Seq(S), NEW e \in S, NEW pop \in BOOLEAN, NEW push \in BOOLEAN,
           pop => s # <<>>
    PROVE  LET t == (IF pop THEN Tail(s) ELSE s) \o IF push THEN <<e>> ELSE <<>>
           IN  t \in Seq(S) /\ Moved(s, t, Turn(pop), Turn(push), e)
<1> DEFINE r == IF pop THEN Tail(s) ELSE s
           x == IF push THEN <<e>> ELSE <<>>
<1>1. /\ r \in Seq(S) /\ Len(r) = Len(s) - Turn(pop)
      /\ \A k \in 1 .. Len(s) - Turn(pop) : r[k] = s[k + Turn(pop)]
    <2>1. CASE pop
        <3>1. Tail(s) \in Seq(S) /\ Len(Tail(s)) = Len(s) - 1
              /\ \A k \in 1 .. Len(s) - 1 : Tail(s)[k] = s[k + 1]
            BY <2>1
        <3> QED
            BY <2>1, <3>1 DEF Turn
    <2>2. CASE ~pop
        <3>1. Len(s) \in Nat /\ \A k \in 1 .. Len(s) - 0 : k + 0 = k
            OBVIOUS
        <3> QED
            BY <2>2, <3>1 DEF Turn
    <2> QED
        BY <2>1, <2>2
<1>2. x \in Seq(S) /\ Len(x) = Turn(push) /\ (Turn(push) = 1 => x[1] = e)
    BY DEF Turn
<1>3. /\ r \o x \in Seq(S) /\ Len(r \o x) = Len(r) + Len(x)
      /\ \A k \in 1 .. Len(r) : (r \o x)[k] = r[k]
      /\ \A k \in 1 .. Len(x) : (r \o x)[Len(r) + k] = x[k]
    <2> HIDE DEF r, x
    <2>1. r \in Seq(S) /\ x \in Seq(S)
        BY <1>1, <1>2
    <2>2. r \o x \in Seq(S) /\ Len(r \o x) = Len(r) + Len(x)
        BY <2>1
    <2>3. \A k \in 1 .. Len(r) : (r \o x)[k] = r[k]
        BY <2>1
    <2>4. \A k \in 1 .. Len(x) : (r \o x)[Len(r) + k] = x[k]
        BY <2>1
    <2> QED
        BY <2>2, <2>3, <2>4
<1>4. Turn(push) \in {0, 1} /\ Len(r) \in Nat
    BY <1>1 DEF Turn
<1> QED
    <2> HIDE DEF r, x
    <2> SUFFICES Moved(s, r \o x, Turn(pop), Turn(push), e)
        BY <1>3 DEF r, x
    <2> QED
        BY <1>1, <1>2, <1>3, <1>4 DEF Moved

LEMMA TailOfJoined ==
    ASSUME NEW S, NEW s \in Seq(S), NEW t \in Seq(S), s # <<>>
    PROVE  Tail(s) \o t = Tail(s \o t)
BY SMT
-----------------------------------------------------------------------------
Pipe == mcb.cmds \o IF br.cmd_en THEN <<br.cmd>> ELSE <<>>

LEMMA PipeMoves ==
    ASSUME BusTypes, NEW go \in BOOLEAN, go => B!Ready, mcb' = B!Controller(go), br' = B!Bridge
    PROVE  LET push == ~B!cmd_full /\ (br.wreq \/ br.rreq)
           IN  /\ Pipe \in Seq(Command) /\ Pipe' \in Seq(Command) /\ (go => Pipe # <<>>)
               /\ Pipe' = (IF go THEN Tail(Pipe) ELSE Pipe)
                          \o IF push THEN <<[we |-> br.wreq, adr |-> br.adr]>> ELSE <<>>
<1> DEFINE push == ~B!cmd_full /\ (br.wreq \/ br.rreq)
           new == [we |-> br.wreq, adr |-> br.adr]
           x == IF br.cmd_en THEN <<br.cmd>> ELSE <<>>
           c == IF go THEN Tail(mcb.cmds) ELSE mcb.cmds
<1>1. mcb.cmds \in Seq(Command) /\ br.cmd \in Command /\ br \in Stage /\ new \in Command
    BY DEF BusTypes, Stage, Command
<1>2. go => mcb.cmds # <<>>
    BY DEF B!Ready
<1>3. x \in Seq(Command) /\ c \in Seq(Command)
    BY <1>1, <1>2
<1>4. mcb'.cmds = c \o IF br.cmd_en /\ ~B!cmd_full THEN <<br.cmd>> ELSE <<>>
    BY DEF B!Controller
<1>5. c \o x = IF go THEN Tail(Pipe) ELSE Pipe
    <2>1. go => Tail(mcb.cmds) \o x = Tail(mcb.cmds \o x)
        BY <1>1, <1>2, <1>3, TailOfJoined
    <2> QED
        BY <2>1 DEF Pipe
<1>6. Pipe \in Seq(Command) /\ (go => Pipe # <<>>)
    <2>1. Pipe = mcb.cmds \o x
        BY DEF Pipe
    <2> HIDE DEF x
    <2> QED
        BY <1>1, <1>2, <1>3, <2>1
<1>7. Pipe' = mcb'.cmds \o IF br'.cmd_en THEN <<br'.cmd>> ELSE <<>>
    BY DEF Pipe
<1>8. CASE B!cmd_full
    <2>1. br'.cmd_en <=> br.cmd_en
        BY <1>8, BridgeBits
    <2>2. br'.cmd = br.cmd
        BY <1>8, BridgeWords
    <2>3. mcb'.cmds = c
        <3>1. mcb'.cmds = c \o <<>>
            BY <1>4, <1>8
        <3> HIDE DEF c
        <3> QED
            BY <1>3, <3>1
    <2>4. Pipe' = c \o x
        BY <1>7, <2>1, <2>2, <2>3
    <2>5. c \o x \in Seq(Command) /\ (c \o x) \o <<>> = c \o x
        <3> HIDE DEF c, x
        <3> QED
            BY <1>3
    <2>6. Pipe' = (c \o x) \o <<>>
        BY <2>4, <2>5
    <2> QED
        BY <1>5, <1>6, <1>8, <2>4, <2>5, <2>6
<1>9. CASE ~B!cmd_full
    <2>1. br'.cmd_en <=> br.wreq \/ br.rreq
        BY <1>9, BridgeBits
    <2>2. br'.cmd = new
        BY <1>9, BridgeWords
    <2>3. mcb'.cmds = c \o x
        BY <1>4, <1>9
    <2>4. Pipe' = (c \o x) \o IF push THEN <<new>> ELSE <<>>
        BY <1>7, <1>9, <2>1, <2>2, <2>3
    <2>5. Pipe' \in Seq(Command)
        <3>1. c \o x \in Seq(Command) /\ (IF push THEN <<new>> ELSE <<>>) \in Seq(Command)
            BY <1>1, <1>3
        <3> HIDE DEF c, x, push, new
        <3> QED
            BY <2>4, <3>1
    <2> QED
        BY <1>5, <1>6, <2>4, <2>5
<1> QED
    BY <1>8, <1>9

-----------------------------------------------------------------------------
\* The writes that the controller has the data of; a read comes behind them.
Backlog == Len(mcb.data)
InPipe  == Len(Pipe) = Backlog + 1
Asked   == req[arb.current].adr

\* A read is in one place, and what was read is what was last written.
Underway ==
    \/ /\ br.rreq /\ ~InPipe /\ mcb.read = <<>> /\ ~br.ack
       /\ br.adr = Asked
    \/ /\ InPipe /\ ~br.rreq /\ mcb.read = <<>> /\ ~br.ack
       /\ ~Pipe[Backlog + 1].we /\ Pipe[Backlog + 1].adr = Asked
    \/ /\ mcb.read = <<want[Asked]>> /\ ~br.rreq /\ ~InPipe /\ ~br.ack
    \/ /\ br.ack /\ ~br.rreq /\ ~InPipe /\ mcb.read = <<>>
       /\ br.dat = want[Asked]

Reader ==
    IF br.active
    THEN /\ arb.hold[arb.current] /\ req[arb.current].stb /\ ~req[arb.current].we
         /\ ~br.wreq /\ Underway
    ELSE ~br.rreq /\ ~InPipe /\ mcb.read = <<>> /\ ~br.ack

Queue ==
    /\ br.wr_en <=> br.wreq
    /\ ~br.buffered
    /\ br.ready <=> ~br.active
    /\ Len(Pipe) \in {Backlog, Backlog + 1}
    /\ \A k \in 1 .. Backlog : Pipe[k].we /\ Pipe[k].adr \in Lines
    /\ br.wreq => br.adr \in Lines

\* The k-th write on its way, or for k = 0 what is in memory, is the newest of line l.
Newest(l, k) == ~(br.wreq /\ br.adr = l) /\ \A j \in k + 1 .. Backlog : Pipe[j].adr # l

UpToDate ==
    /\ br.wreq => want[br.adr] = br.wr
    /\ \A k \in 1 .. Backlog : Newest(Pipe[k].adr, k) => mcb.data[k] = want[Pipe[k].adr]
    /\ \A l \in Lines : Newest(l, 0) => mcb.memory[l] = want[l]

Live == BusTypes /\ answer[1] = answer[2] /\ Queue /\ Reader /\ UpToDate

BusInv == ~pressed => Live
-----------------------------------------------------------------------------
\* What the controller and the bridge do to the queues in a clock.
Flow(go) ==
    /\ Moved(Pipe, Pipe', Turn(go), Turn(~B!cmd_full /\ (br.wreq \/ br.rreq)),
             [we |-> br.wreq, adr |-> br.adr])
    /\ Moved(mcb.data, mcb'.data, Turn(go /\ Backlog > 0), Turn(~B!cmd_full /\ br.wreq), br.wr)
    /\ go => Len(Pipe) > 0
    /\ mcb'.read = IF go /\ Backlog = 0 THEN <<mcb.memory[Pipe[1].adr]>> ELSE <<>>
    /\ mcb'.memory = IF go /\ Backlog > 0
                     THEN [mcb.memory EXCEPT ![Pipe[1].adr] = mcb.data[1]] ELSE mcb.memory
    /\ mcb' \in [cmds : Seq(Command), data : Seq(Nat), read : Seq(Nat), memory : [Lines -> Nat]]

LEMMA Flows ==
    ASSUME Live, B!BusNext
    PROVE  \E go \in BOOLEAN : Flow(go)
<1>1. PICK go \in {FALSE} \cup {B!Ready} : mcb' = B!Controller(go)
    BY DEF B!BusNext
<1>2. go \in BOOLEAN /\ (go => B!Ready) /\ br' = B!Bridge
    BY <1>1 DEF B!BusNext, B!Ready
<1>3. BusTypes /\ Queue /\ Reader
    BY DEF Live
<1> DEFINE push == ~B!cmd_full /\ (br.wreq \/ br.rreq)
           new == [we |-> br.wreq, adr |-> br.adr]
<1>4. br \in Stage /\ new \in Command /\ mcb.data \in Seq(Nat) /\ mcb.memory \in [Lines -> Nat]
      /\ mcb.cmds \in Seq(Command)
    BY <1>3 DEF BusTypes, Stage, Command
<1>5. /\ Pipe \in Seq(Command) /\ Pipe' \in Seq(Command) /\ (go => Pipe # <<>>)
      /\ Pipe' = (IF go THEN Tail(Pipe) ELSE Pipe) \o IF push THEN <<new>> ELSE <<>>
    BY <1>1, <1>2, <1>3, PipeMoves
<1>6. Moved(Pipe, Pipe', Turn(go), Turn(push), new)
    <2> HIDE DEF push, new
    <2>1. push \in BOOLEAN
        BY DEF push
    <2> QED
        BY <1>2, <1>4, <1>5, <2>1, QueueMoves
<1>7. go => mcb.cmds # <<>> /\ Head(mcb.cmds) = Pipe[1] /\ Len(Pipe) > 0
    <2>1. go => mcb.cmds # <<>>
        BY <1>2 DEF B!Ready
    <2>2. go => Pipe[1] = mcb.cmds[1]
        <3> DEFINE x == IF br.cmd_en THEN <<br.cmd>> ELSE <<>>
        <3>1. x \in Seq(Command) /\ Pipe = mcb.cmds \o x
            BY <1>4 DEF Pipe, Stage
        <3> HIDE DEF x
        <3> QED
            BY <1>4, <2>1, <3>1
    <2> QED
        BY <1>4, <1>5, <2>1, <2>2
<1>8. ASSUME go PROVE Pipe[1].we <=> Backlog > 0
    <2>1. Backlog \in Nat /\ Len(Pipe) \in {Backlog, Backlog + 1}
        BY <1>3, <1>4 DEF Backlog, Queue
    <2>2. CASE Backlog > 0
        <3>1. 1 \in 1 .. Backlog
            BY <2>1, <2>2
        <3> QED
            BY <1>3, <2>2, <3>1 DEF Queue
    <2>3. CASE ~(Backlog > 0)
        <3>1. Backlog = 0 /\ InPipe
            BY <1>7, <1>8, <2>1, <2>3 DEF InPipe
        <3>2. ~Pipe[Backlog + 1].we
            BY <1>3, <3>1 DEF Reader, Underway
        <3>3. Backlog + 1 = 1
            BY <3>1
        <3> QED
            BY <2>3, <3>2, <3>3
    <2> QED
        BY <2>2, <2>3
<1>9. /\ mcb'.data = (IF go /\ Backlog > 0 THEN Tail(mcb.data) ELSE mcb.data)
                     \o IF ~B!cmd_full /\ br.wreq THEN <<br.wr>> ELSE <<>>
      /\ mcb'.read = IF go /\ Backlog = 0 THEN <<mcb.memory[Pipe[1].adr]>> ELSE <<>>
      /\ mcb'.memory = IF go /\ Backlog > 0
                       THEN [mcb.memory EXCEPT ![Pipe[1].adr] = mcb.data[1]] ELSE mcb.memory
    <2>1. br.wr_en <=> br.wreq
        BY <1>3 DEF Queue
    <2>2. Backlog \in Nat /\ (Backlog > 0 => Head(mcb.data) = mcb.data[1])
        BY <1>4 DEF Backlog
    <2>3. CASE go
        <3>1. (Head(mcb.cmds).we <=> Backlog > 0) /\ Head(mcb.cmds) = Pipe[1]
            BY <1>7, <1>8, <2>3
        <3>2. ~(Backlog > 0) <=> Backlog = 0
            BY <2>2
        <3> QED
            BY <1>1, <2>1, <2>2, <2>3, <3>1, <3>2 DEF B!Controller
    <2>4. CASE ~go
        BY <1>1, <2>1, <2>4 DEF B!Controller
    <2> QED
        BY <2>3, <2>4
<1>10. mcb'.data \in Seq(Nat)
       /\ Moved(mcb.data, mcb'.data, Turn(go /\ Backlog > 0), Turn(~B!cmd_full /\ br.wreq), br.wr)
    <2> DEFINE q == go /\ Backlog > 0
               w == ~B!cmd_full /\ br.wreq
    <2>1. q \in BOOLEAN /\ w \in BOOLEAN /\ br.wr \in Nat /\ (q => mcb.data # <<>>)
        BY <1>4 DEF Backlog, Stage
    <2>2. mcb'.data = (IF q THEN Tail(mcb.data) ELSE mcb.data) \o IF w THEN <<br.wr>> ELSE <<>>
        BY <1>9
    <2> HIDE DEF q, w
    <2>3. mcb'.data \in Seq(Nat) /\ Moved(mcb.data, mcb'.data, Turn(q), Turn(w), br.wr)
        <3>1. /\ ((IF q THEN Tail(mcb.data) ELSE mcb.data) \o IF w THEN <<br.wr>> ELSE <<>>) \in Seq(Nat)
              /\ Moved(mcb.data, (IF q THEN Tail(mcb.data) ELSE mcb.data) \o IF w THEN <<br.wr>> ELSE <<>>,
                       Turn(q), Turn(w), br.wr)
            BY <1>4, <2>1, QueueMoves, Zenon
        <3> QED
            BY <2>2, <3>1, Zenon
    <2> QED
        BY <2>3 DEF q, w
<1>11. mcb'.cmds \in Seq(Command)
    <2>1. (IF go THEN Tail(mcb.cmds) ELSE mcb.cmds) \in Seq(Command)
        BY <1>4, <1>7
    <2>2. (IF br.cmd_en /\ ~B!cmd_full THEN <<br.cmd>> ELSE <<>>) \in Seq(Command)
        BY <1>4 DEF Stage
    <2>3. mcb'.cmds = (IF go THEN Tail(mcb.cmds) ELSE mcb.cmds)
                      \o IF br.cmd_en /\ ~B!cmd_full THEN <<br.cmd>> ELSE <<>>
        BY <1>1 DEF B!Controller
    <2> QED
        BY <2>1, <2>2, <2>3
<1>12. go /\ Backlog = 0 => Pipe[1].adr \in Lines
    <2>1. ASSUME go, Backlog = 0 PROVE InPipe
        BY <1>3, <1>7, <2>1 DEF Queue, InPipe
    <2>2. InPipe => req[arb.current].stb /\ Pipe[Backlog + 1].adr = Asked
        BY <1>3 DEF Reader, Underway
    <2>3. arb.current \in {0, 1} /\ (req[arb.current].stb => Asked \in Lines)
        BY <1>3 DEF BusTypes, Asked
    <2>4. Backlog = 0 => Backlog + 1 = 1
        OBVIOUS
    <2> QED
        BY <2>1, <2>2, <2>3, <2>4
<1>13. mcb'.read \in Seq(Nat) /\ mcb'.memory \in [Lines -> Nat]
    <2>1. mcb'.read \in Seq(Nat)
        BY <1>4, <1>9, <1>12
    <2>2. Backlog > 0 => mcb.data[1] \in Nat
        BY <1>4 DEF Backlog
    <2> QED
        BY <1>4, <1>9, <2>1, <2>2
<1>14. mcb' = [cmds |-> mcb'.cmds, data |-> mcb'.data, read |-> mcb'.read, memory |-> mcb'.memory]
    BY <1>1 DEF B!Controller
<1> QED
    BY <1>2, <1>6, <1>7, <1>9, <1>10, <1>11, <1>13, <1>14 DEF Flow

-----------------------------------------------------------------------------
\* What the masters may ask for.
LEMMA ChoicesType ==
    ASSUME BusTypes, NEW m \in {0, 1}, NEW n \in Nat
    PROVE  \A c \in B!Choices(m, n) :
               /\ c \in Transfer /\ (c.stb => c.adr \in Lines)
               /\ ~B!Free(m) => c = req[m]
<1> SUFFICES ASSUME NEW c \in B!Choices(m, n)
             PROVE  /\ c \in Transfer /\ (c.stb => c.adr \in Lines)
                    /\ ~B!Free(m) => c = req[m]
    OBVIOUS
<1>1. CASE ~B!Free(m)
    BY <1>1 DEF B!Choices, BusTypes
<1>2. CASE B!Free(m)
    <2>1. \/ c = B!None
          \/ c = [B!None EXCEPT !.cyc = TRUE]
          \/ \E l \in Lines : c = [stb |-> TRUE, we |-> FALSE, adr |-> l, dat |-> 0, cyc |-> TRUE]
          \/ \E l \in Lines : c = [stb |-> TRUE, we |-> TRUE, adr |-> l, dat |-> n, cyc |-> TRUE]
        BY <1>2 DEF B!Choices
    <2>2. c = B!None \/ c = [B!None EXCEPT !.cyc = TRUE] => c \in Transfer /\ ~c.stb
        <3>1. B!None \in Transfer /\ ~B!None.stb
            BY DEF B!None, Transfer
        <3>2. [B!None EXCEPT !.cyc = TRUE] \in Transfer /\ ~[B!None EXCEPT !.cyc = TRUE].stb
            BY <3>1 DEF Transfer
        <3> QED
            BY <3>1, <3>2
    <2>3. ASSUME NEW l \in Lines, NEW w \in BOOLEAN, NEW d \in Nat,
                 c = [stb |-> TRUE, we |-> w, adr |-> l, dat |-> d, cyc |-> TRUE]
          PROVE  c \in Transfer /\ c.adr \in Lines
        BY <2>3 DEF Transfer
    <2>4. CASE c = B!None \/ c = [B!None EXCEPT !.cyc = TRUE]
        BY <1>2, <2>2, <2>4
    <2>5. CASE \E l \in Lines : c = [stb |-> TRUE, we |-> FALSE, adr |-> l, dat |-> 0, cyc |-> TRUE]
        BY <1>2, <2>3, <2>5
    <2>6. CASE \E l \in Lines : c = [stb |-> TRUE, we |-> TRUE, adr |-> l, dat |-> n, cyc |-> TRUE]
        BY <1>2, <2>3, <2>6
    <2> QED
        BY <2>1, <2>4, <2>5, <2>6
<1> QED
    BY <1>1, <1>2

LEMMA RequestsType ==
    ASSUME BusTypes, B!BusNext
    PROVE  /\ req' \in [{0, 1} -> Transfer] /\ writes' \in Nat
           /\ \A m \in {0, 1} : /\ req'[m].stb => req'[m].adr \in Lines
                                /\ ~B!Free(m) => req'[m] = req[m]
<1>1. writes \in Nat /\ writes + 1 \in Nat /\ writes + 2 \in Nat
    BY DEF BusTypes
<1>2. PICK a \in B!Choices(0, writes + 1) :
          \E b \in B!Choices(1, IF B!Free(0) /\ a.stb /\ a.we THEN writes + 2 ELSE writes + 1) :
             req' = [m \in {0, 1} |-> IF m = 0 THEN a ELSE b]
    BY DEF B!BusNext
<1> DEFINE n == IF B!Free(0) /\ a.stb /\ a.we THEN writes + 2 ELSE writes + 1
<1>3. PICK b \in B!Choices(1, n) : req' = [m \in {0, 1} |-> IF m = 0 THEN a ELSE b]
    BY <1>2
<1>4. n \in Nat
    BY <1>1
<1> HIDE DEF n
<1>5. a \in Transfer /\ (a.stb => a.adr \in Lines) /\ (~B!Free(0) => a = req[0])
    BY <1>1, ChoicesType
<1>6. b \in Transfer /\ (b.stb => b.adr \in Lines) /\ (~B!Free(1) => b = req[1])
    BY <1>4, ChoicesType
<1>7. req'[0] = a /\ req'[1] = b /\ req' \in [{0, 1} -> Transfer]
    BY <1>3, <1>5, <1>6
<1>8. writes' \in Nat
    <2>1. writes' = writes + B!Begun(0) + B!Begun(1)
        BY DEF B!BusNext
    <2>2. B!Begun(0) \in {0, 1} /\ B!Begun(1) \in {0, 1}
        BY DEF B!Begun
    <2> QED
        BY <1>1, <2>1, <2>2
<1>9. ASSUME NEW m \in {0, 1}
      PROVE  (req'[m].stb => req'[m].adr \in Lines) /\ (~B!Free(m) => req'[m] = req[m])
    <2>1. CASE m = 0
        BY <1>5, <1>7, <2>1
    <2>2. CASE m = 1
        BY <1>6, <1>7, <2>2
    <2> QED
        BY <2>1, <2>2
<1> QED
    BY <1>7, <1>8, <1>9
-----------------------------------------------------------------------------
\* While a read waits nothing else is asked for, and its master keeps the bus.
LEMMA Waiting ==
    ASSUME Live, B!BusNext, br.active
    PROVE  /\ B!current_master = arb.current /\ B!Master = req[arb.current]
           /\ B!Master.stb /\ ~B!write_request /\ ~B!read_request
           /\ B!wb_ack <=> br.ack
           /\ want' = want /\ arb'.current = arb.current
           /\ ~br.ack => req'[arb.current] = req[arb.current] /\ arb'.hold[arb.current]
<1>1. BusTypes /\ Queue /\ Reader
    BY DEF Live
<1>2. /\ arb.hold[arb.current] /\ req[arb.current].stb /\ ~req[arb.current].we
      /\ arb.current \in {0, 1} /\ ~br.ready
    BY <1>1 DEF BusTypes, Queue, Reader
<1>3. B!current_master = arb.current
    BY <1>2 DEF B!current_master, B!select_master
<1>4. B!Master = req[arb.current]
    BY <1>3 DEF B!Master
<1>5. B!Master.stb /\ ~B!write_request /\ ~B!read_request /\ (B!wb_ack <=> br.ack)
    BY <1>2, <1>4 DEF B!write_request, B!read_request, B!wb_ack, B!write_ack
<1>6. want' = want
    BY <1>2, <1>4 DEF B!BusNext
<1>7. arb' = [current |-> B!current_master,
              hold |-> [m \in {0, 1} |-> req[m].stb /\ ~B!Acked(m)]]
    BY DEF B!BusNext
<1>8. ASSUME ~br.ack PROVE req'[arb.current] = req[arb.current] /\ arb'.hold[arb.current]
    <2>1. ~B!Acked(arb.current) /\ ~B!Free(arb.current)
        BY <1>2, <1>5, <1>8 DEF B!Acked, B!Free
    <2>2. req'[arb.current] = req[arb.current]
        BY <1>1, <1>2, <2>1, RequestsType
    <2>3. arb'.hold[arb.current] <=> req[arb.current].stb /\ ~B!Acked(arb.current)
        BY <1>2, <1>7, Zenon
    <2> QED
        BY <1>2, <2>1, <2>2, <2>3
<1> QED
    BY <1>3, <1>4, <1>5, <1>6, <1>7, <1>8

\* Otherwise the master that has the bus reads, writes, or asks for nothing.
LEMMA Asking ==
    ASSUME Live, B!BusNext, ~pressed', ~br.active
    PROVE  LET m == B!current_master IN
           /\ arb'.current = m /\ m \in {0, 1}
           /\ B!write_request <=> req[m].stb /\ req[m].we
           /\ B!read_request <=> req[m].stb /\ ~req[m].we
           /\ req[m].stb => ~B!cmd_full /\ req[m].adr \in Lines
           /\ B!wb_ack <=> B!write_request
           /\ want' = IF B!write_request THEN [want EXCEPT ![req[m].adr] = req[m].dat] ELSE want
           /\ B!read_request => req'[m] = req[m] /\ arb'.hold[m]
<1> DEFINE m == B!current_master
<1>1. BusTypes /\ Queue /\ Reader
    BY DEF Live
<1>2. ~br.rreq /\ ~br.ack /\ br.ready /\ ~br.buffered /\ m \in {0, 1} /\ B!Master = req[m]
    BY <1>1, MasterType DEF Queue, Reader, B!Master
<1>3. /\ B!write_request <=> req[m].stb /\ req[m].we
      /\ B!read_request <=> req[m].stb /\ ~req[m].we
    BY <1>2, Zenon DEF B!write_request, B!read_request
<1>4. B!wb_ack <=> B!write_request
    BY <1>2, Zenon DEF B!wb_ack, B!write_ack
<1>5. req[m].stb => ~B!cmd_full /\ req[m].adr \in Lines
    <2>1. pressed' = (pressed \/ (B!cmd_full /\ B!Master.stb))
        BY DEF B!BusNext
    <2> QED
        BY <1>1, <1>2, <2>1 DEF BusTypes
<1>6. want' = IF B!write_request THEN [want EXCEPT ![req[m].adr] = req[m].dat] ELSE want
    <2>1. want' = IF B!wb_ack /\ B!Master.we THEN [want EXCEPT ![B!Master.adr] = B!Master.dat] ELSE want
        BY DEF B!BusNext
    <2> QED
        BY <1>2, <1>3, <1>4, <2>1
<1>7. arb' = [current |-> B!current_master,
              hold |-> [k \in {0, 1} |-> req[k].stb /\ ~B!Acked(k)]]
    BY DEF B!BusNext
<1>8. ASSUME B!read_request PROVE req'[m] = req[m] /\ arb'.hold[m]
    <2>1. ~B!Acked(m) /\ ~B!Free(m)
        BY <1>2, <1>3, <1>4, <1>8 DEF B!Acked, B!Free
    <2>2. req'[m] = req[m]
        BY <1>1, <1>2, <2>1, RequestsType
    <2>3. arb'.hold[m] <=> req[m].stb /\ ~B!Acked(m)
        BY <1>2, <1>7, Zenon
    <2> QED
        BY <1>3, <1>8, <2>1, <2>2, <2>3
<1> QED
    BY <1>2, <1>3, <1>4, <1>5, <1>6, <1>7, <1>8

-----------------------------------------------------------------------------
\* Writes keep step with their data, and a read stays behind them.
Shift(go) ==
    LET d == Turn(go /\ Backlog > 0)
        w == ~B!cmd_full /\ br.wreq
        new == [we |-> br.wreq, adr |-> br.adr]
    IN  /\ Backlog \in Nat /\ d <= Backlog /\ Backlog' = Backlog - d + Turn(w)
        /\ \A k \in 1 .. Backlog - d : Pipe'[k] = Pipe[k + d] /\ mcb'.data[k] = mcb.data[k + d]
        /\ w => Pipe'[Backlog'] = new /\ mcb'.data[Backlog'] = br.wr
        /\ InPipe' <=> (InPipe /\ ~(go /\ Backlog = 0)) \/ br.rreq
        /\ InPipe' => Pipe'[Backlog' + 1] = IF InPipe THEN Pipe[Backlog + 1] ELSE new
        /\ Len(Pipe') \in {Backlog', Backlog' + 1}

LEMMA Shifts ==
    ASSUME Live, NEW go \in BOOLEAN, Flow(go), br.rreq => ~B!cmd_full
    PROVE  Shift(go)
<1> DEFINE d == Turn(go /\ Backlog > 0)
           p == Turn(go)
           w == Turn(~B!cmd_full /\ br.wreq)
           x == Turn(~B!cmd_full /\ (br.wreq \/ br.rreq))
           new == [we |-> br.wreq, adr |-> br.adr]
           data == mcb.data
           L == Len(Pipe)
<1>1. BusTypes /\ Queue /\ Reader
    BY DEF Live
<1>2. Backlog \in Nat /\ L \in {Backlog, Backlog + 1} /\ (InPipe <=> L = Backlog + 1) /\ (go => L > 0)
    BY <1>1 DEF BusTypes, Backlog, Queue, InPipe, Flow
<1>3. /\ Len(Pipe') = L - p + x
      /\ \A k \in 1 .. L - p : Pipe'[k] = Pipe[k + p]
      /\ x = 1 => Pipe'[L - p + 1] = new
    BY DEF Flow, Moved
<1>4. /\ Backlog' = Backlog - d + w
      /\ \A k \in 1 .. Backlog - d : mcb'.data[k] = data[k + d]
      /\ w = 1 => mcb'.data[Backlog - d + 1] = br.wr
    BY DEF Flow, Moved, Backlog
<1>5. InPipe' <=> Len(Pipe') = Backlog' + 1
    BY DEF InPipe
<1>6. d \in {0, 1} /\ p \in {0, 1} /\ w \in {0, 1} /\ x \in {0, 1}
      /\ (p = 1 <=> go) /\ (d = 1 <=> go /\ Backlog > 0) /\ d <= Backlog
    BY <1>2 DEF Turn
<1> HIDE DEF d, p, w, x, new, L
<1>7. CASE InPipe
    <2>1. ~br.rreq /\ ~br.wreq
        BY <1>1, <1>7 DEF Reader, Underway
    <2>2. w = 0 /\ x = 0 /\ ~(~B!cmd_full /\ br.wreq)
        BY <2>1 DEF Turn, w, x
    <2>3. CASE go /\ Backlog = 0
        <3>1. Len(Pipe') = 0 /\ Backlog' = 0 /\ Backlog' = Backlog - d + w /\ Backlog - d = 0
            BY <1>2, <1>3, <1>4, <1>6, <1>7, <2>2, <2>3
        <3>2. ~InPipe' /\ Len(Pipe') \in {Backlog', Backlog' + 1}
            BY <1>5, <3>1
        <3> QED
            BY <1>2, <1>6, <2>1, <2>2, <2>3, <3>1, <3>2 DEF Shift, d, w, new
    <2>4. CASE ~(go /\ Backlog = 0)
        <3>1. p = d
            BY <1>2, <1>6, <2>4
        <3>2. Len(Pipe') = Backlog + 1 - d /\ Backlog' = Backlog - d
            BY <1>2, <1>3, <1>4, <1>6, <1>7, <2>2, <3>1
        <3>3. \A k \in 1 .. Backlog + 1 - d : Pipe'[k] = Pipe[k + d]
            <4>1. Backlog + 1 - d = L - p
                BY <1>2, <1>6, <1>7, <3>1
            <4> QED
                BY <1>3, <3>1, <4>1
        <3>4. \A k \in 1 .. Backlog - d : k \in 1 .. Backlog + 1 - d
            BY <1>2, <1>6
        <3>5. Pipe'[Backlog' + 1] = Pipe[Backlog + 1]
            <4>1. Backlog - d + 1 \in 1 .. Backlog + 1 - d /\ Backlog - d + 1 + d = Backlog + 1
                BY <1>2, <1>6
            <4> QED
                BY <3>2, <3>3, <4>1
        <3>6. InPipe'
            BY <1>2, <1>5, <1>6, <3>2
        <3>7. Len(Pipe') \in {Backlog', Backlog' + 1}
            BY <1>2, <1>6, <3>2
        <3>8. Backlog' = Backlog - d + w
            BY <1>4
        <3> QED
            BY <1>2, <1>4, <1>6, <1>7, <2>1, <2>2, <2>4, <3>3, <3>4, <3>5, <3>6, <3>7, <3>8 DEF Shift, d, w, new
    <2> QED
        BY <2>3, <2>4
<1>8. CASE ~InPipe
    <2>1. L = Backlog /\ p = d
        BY <1>2, <1>6, <1>8
    <2>2. \A k \in 1 .. Backlog - d : Pipe'[k] = Pipe[k + d]
        BY <1>3, <2>1
    <2>3. CASE br.rreq
        <3>1. ~br.wreq
            BY <1>1, <2>3 DEF Reader
        <3>2. x = 1 /\ w = 0 /\ ~(~B!cmd_full /\ br.wreq)
            BY <2>3, <3>1 DEF Turn, w, x
        <3>3. Len(Pipe') = Backlog - d + 1 /\ Backlog' = Backlog - d /\ Pipe'[Backlog - d + 1] = new
            BY <1>2, <1>3, <1>4, <1>6, <2>1, <3>2
        <3>4. InPipe' /\ Len(Pipe') \in {Backlog', Backlog' + 1} /\ Pipe'[Backlog' + 1] = new
            BY <1>5, <3>3
        <3>5. Backlog' = Backlog - d + w
            BY <1>4
        <3> QED
            BY <1>2, <1>4, <1>6, <1>8, <2>2, <2>3, <3>2, <3>4, <3>5 DEF Shift, d, w, new
    <2>4. CASE ~br.rreq
        <3>1. x = w
            BY <2>4 DEF Turn, w, x
        <3>2. Len(Pipe') = Backlog' /\ Backlog' = Backlog - d + w
            BY <1>3, <1>4, <2>1, <3>1
        <3>3. ~InPipe' /\ Len(Pipe') \in {Backlog', Backlog' + 1}
            BY <1>2, <1>5, <1>6, <3>2
        <3>4. ASSUME ~B!cmd_full /\ br.wreq PROVE Pipe'[Backlog'] = new /\ mcb'.data[Backlog'] = br.wr
            <4>1. w = 1
                BY <3>4 DEF Turn, w
            <4> QED
                BY <1>3, <1>4, <2>1, <3>1, <4>1
        <3> QED
            BY <1>2, <1>4, <1>6, <1>8, <2>2, <2>4, <3>2, <3>3, <3>4 DEF Shift, d, w, new
    <2> QED
        BY <2>3, <2>4
<1> QED
    BY <1>7, <1>8

-----------------------------------------------------------------------------
\* The two ways in which the bridge takes a clock, as long as nobody presses.
LEMMA BusyBridge ==
    ASSUME Live, B!BusNext, ~pressed', br.active
    PROVE  /\ ~B!cmd_full /\ ~br.wreq /\ ~br'.wreq /\ ~br'.rreq /\ ~br'.wr_en /\ ~br'.buffered
           /\ br'.active <=> ~br.ack
           /\ br'.ready <=> br.ack
           /\ br'.ack <=> mcb.read # <<>>
           /\ mcb.read # <<>> => br'.dat = Head(mcb.read)
<1>1. br' = B!Bridge /\ pressed' = (pressed \/ (B!cmd_full /\ B!Master.stb))
    BY DEF B!BusNext
<1>2. ~br.buffered /\ ~br.wreq /\ ~br.ready
    BY DEF Live, Queue, Reader
<1>3. ~B!cmd_full /\ ~B!write_request /\ ~B!read_request
    BY <1>1, Waiting
<1>4. B!rd_valid <=> mcb.read # <<>>
    BY DEF B!rd_valid
<1>5. B!Bridge.dat = IF B!rd_valid /\ br.active THEN Head(mcb.read) ELSE br.dat
    BY BridgeWords
<1>6. /\ ~B!Bridge.wreq /\ ~B!Bridge.rreq /\ ~B!Bridge.wr_en /\ ~B!Bridge.buffered
      /\ B!Bridge.active <=> ~br.ack
      /\ B!Bridge.ready <=> br.ack
      /\ B!Bridge.ack <=> B!rd_valid
    BY <1>2, <1>3, BridgeBits, Zenon
<1> QED
    BY <1>1, <1>2, <1>3, <1>4, <1>5, <1>6

LEMMA FreeBridge ==
    ASSUME Live, B!BusNext, ~pressed', ~br.active
    PROVE  /\ br'.wreq <=> IF B!cmd_full THEN br.wreq ELSE B!write_request
           /\ br'.wr_en <=> br'.wreq
           /\ br'.rreq <=> B!read_request
           /\ br'.active <=> B!read_request
           /\ br'.ready <=> ~B!read_request
           /\ ~br'.buffered /\ ~br'.ack /\ ~br.rreq
           /\ br'.adr = IF B!cmd_full THEN br.adr ELSE req[B!current_master].adr
           /\ br'.wr = IF B!cmd_full THEN br.wr ELSE req[B!current_master].dat
           /\ B!read_request \/ B!write_request => ~B!cmd_full
<1>1. br' = B!Bridge
    BY DEF B!BusNext
<1>2. ~br.buffered /\ br.ready /\ ~br.rreq /\ ~br.ack /\ (br.wr_en <=> br.wreq)
    BY Zenon DEF Live, Queue, Reader
<1>3. B!read_request \/ B!write_request => ~B!cmd_full
    BY Asking
<1>4. B!Master = req[B!current_master]
    BY DEF B!Master
<1>5. B!Bridge.adr = IF B!cmd_full THEN br.adr ELSE req[B!current_master].adr
    BY <1>4, BridgeWords
<1>6. B!Bridge.wr = IF B!cmd_full THEN br.wr ELSE req[B!current_master].dat
    BY <1>2, <1>4, BridgeWords
<1>7. /\ B!Bridge.wreq <=> IF B!cmd_full THEN br.wreq ELSE B!write_request
      /\ B!Bridge.wr_en <=> B!Bridge.wreq
      /\ ~B!Bridge.buffered /\ ~B!Bridge.ack
      /\ B!Bridge.active <=> B!read_request
      /\ B!Bridge.ready <=> ~B!read_request
    BY <1>2, <1>3, BridgeBits, Zenon
<1>8. B!Bridge.rreq <=> B!read_request
    BY <1>2, <1>3, BridgeBits, Zenon
<1> QED
    BY <1>1, <1>2, <1>3, <1>5, <1>6, <1>7, <1>8

LEMMA QueueStep ==
    ASSUME Live, B!BusNext, ~pressed', NEW go \in BOOLEAN, Shift(go)
    PROVE  Queue'
<1>1. BusTypes /\ Queue /\ Reader
    BY DEF Live
<1>2. (br'.wr_en <=> br'.wreq) /\ ~br'.buffered /\ (br'.ready <=> ~br'.active)
    <2>1. CASE br.active
        BY <2>1, BusyBridge, Zenon
    <2>2. CASE ~br.active
        BY <2>2, FreeBridge, Zenon
    <2> QED
        BY <2>1, <2>2
<1>3. br'.wreq => br'.adr \in Lines
    <2>1. CASE br.active
        BY <2>1, BusyBridge
    <2>2. CASE ~br.active
        <3>1. CASE B!cmd_full
            BY <1>1, <2>2, <3>1, FreeBridge DEF Queue
        <3>2. CASE ~B!cmd_full
            BY <2>2, <3>2, FreeBridge, Asking
        <3> QED
            BY <3>1, <3>2
    <2> QED
        BY <2>1, <2>2
<1>4. ASSUME NEW k \in 1 .. Backlog' PROVE Pipe'[k].we /\ Pipe'[k].adr \in Lines
    <2> DEFINE d == Turn(go /\ Backlog > 0)
               w == ~B!cmd_full /\ br.wreq
               new == [we |-> br.wreq, adr |-> br.adr]
    <2>1. /\ Backlog \in Nat /\ d \in {0, 1} /\ d <= Backlog /\ Backlog' = Backlog - d + Turn(w)
          /\ Turn(w) \in {0, 1} /\ (Turn(w) = 1 <=> w)
        BY DEF Shift, Turn
    <2>2. \A i \in 1 .. Backlog - d : Pipe'[i] = Pipe[i + d]
        BY DEF Shift
    <2>3. w => Pipe'[Backlog'] = new
        BY DEF Shift
    <2> HIDE DEF d
    <2>4. CASE k \in 1 .. Backlog - d
        <3>1. k + d \in 1 .. Backlog
            BY <2>1, <2>4
        <3> QED
            BY <1>1, <2>2, <2>4, <3>1 DEF Queue
    <2>5. CASE k \notin 1 .. Backlog - d
        <3>1. w /\ k = Backlog'
            <4> HIDE DEF w
            <4> QED
                BY <2>1, <2>5
        <3>2. br.wreq /\ br.adr \in Lines
            BY <1>1, <3>1 DEF Queue
        <3> QED
            BY <2>3, <3>1, <3>2
    <2> QED
        BY <2>4, <2>5
<1>5. Len(Pipe') \in {Backlog', Backlog' + 1}
    BY DEF Shift
<1> QED
    BY <1>2, <1>3, <1>4, <1>5 DEF Queue

LEMMA ReaderStep ==
    ASSUME Live, B!BusNext, ~pressed', NEW go \in BOOLEAN, Flow(go), Shift(go)
    PROVE  Reader'
<1>1. BusTypes /\ Queue /\ Reader /\ UpToDate
    BY DEF Live
<1> DEFINE new == [we |-> br.wreq, adr |-> br.adr]
<1>2. /\ Backlog \in Nat
      /\ InPipe' <=> (InPipe /\ ~(go /\ Backlog = 0)) \/ br.rreq
      /\ InPipe' => Pipe'[Backlog' + 1] = IF InPipe THEN Pipe[Backlog + 1] ELSE new
    BY DEF Shift
<1>3. mcb'.read = IF go /\ Backlog = 0 THEN <<mcb.memory[Pipe[1].adr]>> ELSE <<>>
    BY DEF Flow
<1>4. go /\ Backlog = 0 => InPipe
    BY <1>1, <1>2 DEF Flow, Queue, InPipe
<1>5. CASE br.active
    <2>1. /\ ~B!cmd_full /\ ~br.wreq /\ ~br'.wreq /\ ~br'.rreq
          /\ br'.active <=> ~br.ack
          /\ br'.ack <=> mcb.read # <<>>
          /\ mcb.read # <<>> => br'.dat = Head(mcb.read)
        BY <1>5, BusyBridge
    <2>2. Underway
        BY <1>1, <1>5 DEF Reader
    <2>3. CASE br.ack
        <3>1. ~br.rreq /\ ~InPipe /\ mcb.read = <<>>
            BY <2>2, <2>3 DEF Underway
        <3>2. ~InPipe' /\ mcb'.read = <<>> /\ ~br'.ack /\ ~br'.active
            BY <1>2, <1>3, <1>4, <2>1, <2>3, <3>1
        <3> QED
            BY <2>1, <3>2 DEF Reader
    <2>4. CASE ~br.ack
        <3>1. /\ want' = want /\ arb'.current = arb.current
              /\ req'[arb.current] = req[arb.current] /\ arb'.hold[arb.current]
              /\ req[arb.current].stb /\ ~req[arb.current].we
            BY <1>1, <1>5, <2>4, Waiting DEF Reader
        <3>2. Asked' = Asked
            BY <3>1 DEF Asked
        <3>3. CASE br.rreq
            <4>1. ~InPipe /\ mcb.read = <<>> /\ br.adr = Asked
                BY <2>2, <3>3 DEF Underway
            <4>2. InPipe' /\ Pipe'[Backlog' + 1] = new /\ mcb'.read = <<>> /\ ~br'.ack
                BY <1>2, <1>3, <1>4, <2>1, <3>3, <4>1
            <4>3. ~new.we /\ new.adr = Asked
                BY <2>1, <4>1
            <4>4. Underway'
                BY <2>1, <3>2, <4>2, <4>3 DEF Underway
            <4> QED
                BY <2>1, <2>4, <3>1, <4>4 DEF Reader
        <3>4. CASE InPipe
            <4>1. ~br.rreq /\ mcb.read = <<>> /\ ~Pipe[Backlog + 1].we /\ Pipe[Backlog + 1].adr = Asked
                BY <2>2, <3>4 DEF Underway
            <4>2. ~br'.ack
                BY <2>1, <4>1
            <4>3. CASE go /\ Backlog = 0
                <5>1. mcb'.read = <<mcb.memory[Asked]>> /\ ~InPipe'
                    BY <1>2, <1>3, <4>1, <4>3
                <5>2. Asked \in Lines
                    BY <1>1, <3>1 DEF BusTypes, Asked
                <5>3. Newest(Asked, 0)
                    BY <2>1, <4>3 DEF Newest
                <5>4. mcb.memory[Asked] = want[Asked]
                    BY <1>1, <5>2, <5>3 DEF UpToDate
                <5>5. mcb'.read = <<want'[Asked']>>
                    BY <3>1, <3>2, <5>1, <5>4
                <5>6. Underway'
                    BY <2>1, <4>2, <5>1, <5>5 DEF Underway
                <5> QED
                    BY <2>1, <2>4, <3>1, <5>6 DEF Reader
            <4>4. CASE ~(go /\ Backlog = 0)
                <5>1. InPipe' /\ Pipe'[Backlog' + 1] = Pipe[Backlog + 1] /\ mcb'.read = <<>>
                    BY <1>2, <1>3, <3>4, <4>4
                <5>2. Underway'
                    BY <2>1, <3>2, <4>1, <4>2, <5>1 DEF Underway
                <5> QED
                    BY <2>1, <2>4, <3>1, <5>2 DEF Reader
            <4> QED
                BY <4>3, <4>4
        <3>5. CASE ~br.rreq /\ ~InPipe
            <4>1. mcb.read = <<want[Asked]>>
                BY <2>2, <2>4, <3>5 DEF Underway
            <4>2. br'.ack /\ br'.dat = want[Asked]
                BY <2>1, <4>1
            <4>3. ~InPipe' /\ mcb'.read = <<>>
                BY <1>2, <1>3, <1>4, <3>5
            <4>4. Underway'
                BY <2>1, <3>1, <3>2, <4>2, <4>3 DEF Underway
            <4> QED
                BY <2>1, <2>4, <3>1, <4>4 DEF Reader
        <3> QED
            BY <3>3, <3>4, <3>5
    <2> QED
        BY <2>3, <2>4
<1>6. CASE ~br.active
    <2>1. ~br.rreq /\ ~InPipe /\ mcb.read = <<>> /\ ~br.ack
        BY <1>1, <1>6 DEF Reader
    <2>2. ~InPipe' /\ mcb'.read = <<>> /\ ~br'.ack
        BY <1>2, <1>3, <1>4, <1>6, <2>1, FreeBridge
    <2>3. (br'.rreq <=> B!read_request) /\ (br'.active <=> B!read_request)
        BY <1>6, FreeBridge
    <2>4. CASE B!read_request
        <3> DEFINE m == B!current_master
        <3>1. /\ arb'.current = m /\ req[m].stb /\ ~req[m].we /\ ~B!cmd_full
              /\ req'[m] = req[m] /\ arb'.hold[m] /\ ~B!write_request
            BY <1>6, <2>4, Asking
        <3>2. br'.adr = req[m].adr /\ ~br'.wreq
            BY <1>6, <3>1, FreeBridge
        <3>3. br'.adr = Asked'
            BY <3>1, <3>2 DEF Asked
        <3>4. Underway'
            BY <2>2, <2>3, <2>4, <3>3 DEF Underway
        <3> QED
            BY <2>3, <2>4, <3>1, <3>2, <3>4 DEF Reader
    <2>5. CASE ~B!read_request
        BY <2>2, <2>3, <2>5 DEF Reader
    <2> QED
        BY <2>4, <2>5
<1> QED
    BY <1>5, <1>6

\* Newest of a line in the next clock.
WillBeNewest(l, k) ==
    ~(br'.wreq /\ br'.adr = l) /\ \A j \in k + 1 .. Backlog' : Pipe'[j].adr # l

\* It was before, and no other write begins.
LEMMA NewestStays ==
    ASSUME Live, B!BusNext, ~pressed', NEW go \in BOOLEAN, Shift(go), NEW l \in Lines,
           NEW k \in Nat, k <= Backlog - Turn(go /\ Backlog > 0), WillBeNewest(l, k)
    PROVE  Newest(l, k + Turn(go /\ Backlog > 0)) /\ want'[l] = want[l]
<1> DEFINE d == Turn(go /\ Backlog > 0)
           w == ~B!cmd_full /\ br.wreq
           new == [we |-> br.wreq, adr |-> br.adr]
<1>1. BusTypes /\ Queue /\ Reader
    BY DEF Live
<1>2. /\ Backlog \in Nat /\ d \in {0, 1} /\ d <= Backlog /\ Backlog' = Backlog - d + Turn(w)
      /\ Turn(w) \in {0, 1} /\ (Turn(w) = 1 <=> w)
    BY DEF Shift, Turn
<1>3. \A i \in 1 .. Backlog - d : Pipe'[i] = Pipe[i + d]
    BY DEF Shift
<1>4. w => Pipe'[Backlog'] = new
    BY DEF Shift
<1>5. ~(br'.wreq /\ br'.adr = l) /\ \A j \in k + 1 .. Backlog' : Pipe'[j].adr # l
    BY DEF WillBeNewest
<1> HIDE DEF d
<1>6. k <= Backlog - d
    BY DEF d
<1>7. ASSUME NEW j \in (k + d) + 1 .. Backlog PROVE Pipe[j].adr # l
    <2>1. j - d \in k + 1 .. Backlog' /\ j - d \in 1 .. Backlog - d /\ (j - d) + d = j
        <3> HIDE DEF w
        <3> QED
            BY <1>2, <1>6
    <2> QED
        BY <1>3, <1>5, <2>1
<1>8. ~(br.wreq /\ br.adr = l)
    <2> SUFFICES ASSUME br.wreq, br.adr = l PROVE FALSE
        OBVIOUS
    <2>1. CASE w
        <3>1. Backlog' \in k + 1 .. Backlog'
            <4>1. Turn(w) = 1
                BY <1>2, <2>1
            <4> HIDE DEF w
            <4> QED
                BY <1>2, <1>6, <4>1
        <3> QED
            BY <1>4, <1>5, <2>1, <3>1
    <2>2. CASE ~w
        <3>1. B!cmd_full /\ ~br.active
            BY <1>1, <2>2 DEF Reader
        <3>2. br'.wreq /\ br'.adr = br.adr
            BY <3>1, FreeBridge
        <3> QED
            BY <1>5, <3>2
    <2> QED
        BY <2>1, <2>2
<1>9. want'[l] = want[l]
    <2>1. CASE br.active
        BY <2>1, Waiting
    <2>2. CASE ~br.active /\ ~B!write_request
        BY <2>2, Asking
    <2>3. CASE ~br.active /\ B!write_request
        <3>1. br'.wreq /\ br'.adr = req[B!current_master].adr
            BY <2>3, FreeBridge
        <3>2. want' = [want EXCEPT ![req[B!current_master].adr] = req[B!current_master].dat]
            BY <2>3, Asking
        <3> QED
            BY <1>1, <1>5, <3>1, <3>2 DEF BusTypes
    <2> QED
        BY <2>1, <2>2, <2>3
<1> QED
    BY <1>7, <1>8, <1>9 DEF Newest, d

LEMMA UpToDateStep ==
    ASSUME Live, B!BusNext, ~pressed', NEW go \in BOOLEAN, Flow(go), Shift(go), Queue'
    PROVE  UpToDate'
<1> DEFINE d == Turn(go /\ Backlog > 0)
           w == ~B!cmd_full /\ br.wreq
           new == [we |-> br.wreq, adr |-> br.adr]
<1>1. BusTypes /\ Queue /\ Reader /\ UpToDate
    BY DEF Live
<1>2. /\ Backlog \in Nat /\ d \in {0, 1} /\ d <= Backlog /\ Backlog' = Backlog - d + Turn(w)
      /\ Turn(w) \in {0, 1} /\ (Turn(w) = 1 <=> w)
    BY DEF Shift, Turn
<1>3. \A i \in 1 .. Backlog - d : Pipe'[i] = Pipe[i + d] /\ mcb'.data[i] = mcb.data[i + d]
    BY DEF Shift
<1>4. w => Pipe'[Backlog'] = new /\ mcb'.data[Backlog'] = br.wr
    BY DEF Shift
<1>5. br'.wreq => want'[br'.adr] = br'.wr
    <2>1. CASE br.active
        BY <2>1, BusyBridge
    <2>2. CASE ~br.active /\ B!cmd_full
        <3>1. ~B!write_request
            BY <2>2, FreeBridge
        <3>2. want' = want
            BY <2>2, <3>1, Asking
        <3> QED
            BY <1>1, <2>2, <3>2, FreeBridge DEF UpToDate
    <2>3. CASE ~br.active /\ ~B!cmd_full
        <3> DEFINE m == B!current_master
        <3>1. /\ br'.wreq <=> B!write_request
              /\ br'.adr = req[m].adr /\ br'.wr = req[m].dat
            BY <2>3, FreeBridge
        <3>2. B!write_request => req[m].adr \in Lines
                                 /\ want' = [want EXCEPT ![req[m].adr] = req[m].dat]
            BY <2>3, Asking
        <3> QED
            BY <1>1, <3>1, <3>2 DEF BusTypes
    <2> QED
        BY <2>1, <2>2, <2>3
<1>6. ASSUME NEW k \in 1 .. Backlog', WillBeNewest(Pipe'[k].adr, k)
      PROVE  mcb'.data[k] = want'[Pipe'[k].adr]
    <2> DEFINE l == Pipe'[k].adr
    <2>1. l \in Lines
        BY DEF Queue
    <2>2. CASE k \in 1 .. Backlog - d
        <3>1. k \in Nat /\ k <= Backlog - d /\ k + d \in 1 .. Backlog
            <4> HIDE DEF d
            <4> QED
                BY <1>2, <2>2
        <3>2. Newest(l, k + d) /\ want'[l] = want[l]
            BY <1>6, <2>1, <3>1, NewestStays
        <3>3. Pipe'[k] = Pipe[k + d] /\ mcb'.data[k] = mcb.data[k + d]
            BY <1>3, <2>2
        <3>4. mcb.data[k + d] = want[Pipe[k + d].adr]
            BY <1>1, <3>1, <3>2, <3>3 DEF UpToDate
        <3> QED
            BY <3>2, <3>3, <3>4
    <2>3. CASE k \notin 1 .. Backlog - d
        <3>1. w /\ k = Backlog'
            <4> HIDE DEF w, d
            <4> QED
                BY <1>2, <2>3
        <3>2. l = br.adr /\ mcb'.data[k] = br.wr
            BY <1>4, <3>1
        <3>3. want[l] = br.wr
            BY <1>1, <3>1, <3>2 DEF UpToDate
        <3>4. want'[l] = want[l]
            <4>1. CASE br.active
                BY <4>1, Waiting
            <4>2. CASE ~br.active /\ ~B!write_request
                BY <4>2, Asking
            <4>3. CASE ~br.active /\ B!write_request
                <5>1. br'.wreq /\ br'.adr = req[B!current_master].adr
                    BY <4>3, FreeBridge
                <5>2. want' = [want EXCEPT ![req[B!current_master].adr] = req[B!current_master].dat]
                    BY <4>3, Asking
                <5>3. br'.adr # l
                    BY <1>6, <5>1 DEF WillBeNewest
                <5> QED
                    BY <1>1, <2>1, <5>1, <5>2, <5>3 DEF BusTypes
            <4> QED
                BY <4>1, <4>2, <4>3
        <3> QED
            BY <3>2, <3>3, <3>4
    <2> QED
        BY <2>2, <2>3
<1>7. ASSUME NEW l \in Lines, WillBeNewest(l, 0) PROVE mcb'.memory[l] = want'[l]
    <2>1. Newest(l, d) /\ want'[l] = want[l]
        <3>1. 0 <= Backlog - d /\ 0 + d = d
            BY <1>2
        <3> QED
            BY <1>7, <3>1, NewestStays
    <2>2. mcb'.memory = IF go /\ Backlog > 0
                        THEN [mcb.memory EXCEPT ![Pipe[1].adr] = mcb.data[1]] ELSE mcb.memory
        BY DEF Flow
    <2>5. mcb.memory \in [Lines -> Nat]
        BY <1>1 DEF BusTypes
    <2>3. CASE go /\ Backlog > 0
        <3>1. d = 1 /\ 1 \in 1 .. Backlog
            BY <1>2, <2>3 DEF Turn
        <3>2. CASE Pipe[1].adr = l
            BY <1>1, <2>5, <2>1, <2>2, <2>3, <3>1, <3>2 DEF UpToDate
        <3>3. CASE Pipe[1].adr # l
            <4>1. \A j \in 0 + 1 .. Backlog : j = 1 \/ j \in 1 + 1 .. Backlog
                BY <1>2
            <4>2. Newest(l, 0)
                BY <2>1, <3>1, <3>3, <4>1 DEF Newest
            <4> QED
                BY <1>1, <2>5, <2>1, <2>2, <2>3, <3>3, <4>2 DEF UpToDate
        <3> QED
            BY <3>2, <3>3
    <2>4. CASE ~(go /\ Backlog > 0)
        <3>1. d = 0
            BY <2>4 DEF Turn
        <3> QED
            BY <1>1, <2>1, <2>2, <2>4, <3>1 DEF UpToDate
    <2> QED
        BY <2>3, <2>4
<1> QED
    BY <1>5, <1>6, <1>7 DEF UpToDate, Newest, WillBeNewest

LEMMA BusTypesStep ==
    ASSUME Live, B!BusNext, ~pressed', NEW go \in BOOLEAN, Flow(go)
    PROVE  BusTypes'
<1>1. BusTypes /\ B!current_master \in {0, 1}
    BY MasterType DEF Live
<1>2. /\ req' \in [{0, 1} -> Transfer] /\ writes' \in Nat
      /\ \A m \in {0, 1} : req'[m].stb => req'[m].adr \in Lines
    BY <1>1, RequestsType
<1>3. arb' \in [current : {0, 1}, hold : [{0, 1} -> BOOLEAN]]
    <2> DEFINE h == [m \in {0, 1} |-> req[m].stb /\ ~B!Acked(m)]
    <2>1. arb' = [current |-> B!current_master, hold |-> h]
        BY DEF B!BusNext
    <2>2. \A m \in {0, 1} : (req[m].stb /\ ~B!Acked(m)) \in BOOLEAN
        OBVIOUS
    <2>3. h \in [{0, 1} -> BOOLEAN]
        BY <2>2
    <2> HIDE DEF h
    <2> QED
        BY <1>1, <2>1, <2>3
<1>4. br' \in Stage
    BY <1>1, BridgeType DEF B!BusNext
<1>5. want' \in [Lines -> Nat]
    <2>1. CASE br.active
        BY <1>1, <2>1, Waiting DEF BusTypes
    <2>2. CASE ~br.active
        <3>1. req[B!current_master].dat \in Nat
            BY <1>1 DEF BusTypes, Transfer
        <3> QED
            BY <1>1, <2>2, <3>1, Asking DEF BusTypes
    <2> QED
        BY <2>1, <2>2
<1> QED
    BY <1>2, <1>3, <1>4, <1>5 DEF BusTypes, Flow

\* What a read is answered is what was last written to its line.
LEMMA AnswerStep ==
    ASSUME Live, B!BusNext, ~pressed'
    PROVE  answer'[1] = answer'[2]
<1>1. answer' = IF B!wb_ack /\ ~B!Master.we THEN <<br.dat, want[B!Master.adr]>> ELSE answer
    BY DEF B!BusNext
<1>2. CASE br.active
    <2>1. (B!wb_ack <=> br.ack) /\ B!Master = req[arb.current]
        BY <1>2, Waiting
    <2>2. br.ack => br.dat = want[req[arb.current].adr]
        BY <1>2 DEF Live, Reader, Underway, Asked
    <2> QED
        BY <1>1, <2>1, <2>2 DEF Live
<1>3. CASE ~br.active
    BY <1>1, <1>3, Asking DEF Live, B!write_request
<1> QED
    BY <1>2, <1>3

LEMMA BusStep ==
    ASSUME BusInv, B!BusNext
    PROVE  BusInv'
<1> SUFFICES ASSUME ~pressed' PROVE Live'
    BY DEF BusInv
<1>1. Live
    BY DEF BusInv, B!BusNext
<1>2. PICK go \in BOOLEAN : Flow(go)
    BY <1>1, Flows
<1>3. br.rreq => ~B!cmd_full
    BY <1>1, BusyBridge DEF Live, Reader
<1>4. Shift(go)
    BY <1>1, <1>2, <1>3, Shifts
<1>5. BusTypes'
    BY <1>1, <1>2, BusTypesStep
<1>6. Queue' /\ Reader'
    BY <1>1, <1>2, <1>4, QueueStep, ReaderStep
<1>7. UpToDate'
    BY <1>1, <1>2, <1>4, <1>6, UpToDateStep
<1>8. answer'[1] = answer'[2]
    BY <1>1, AnswerStep
<1> QED
    BY <1>5, <1>6, <1>7, <1>8 DEF Live

LEMMA BusStart == B!Idle => BusInv
<1> SUFFICES ASSUME B!Idle PROVE Live
    BY DEF BusInv
<1>1. /\ br = [wreq |-> FALSE, rreq |-> FALSE, adr |-> 0, active |-> FALSE, ready |-> TRUE,
               ack |-> FALSE, dat |-> 0, cmd_en |-> FALSE, cmd |-> [we |-> FALSE, adr |-> 0],
               wr_en |-> FALSE, wr |-> 0, buffered |-> FALSE, buf |-> 0]
      /\ mcb = [cmds |-> <<>>, data |-> <<>>, read |-> <<>>, memory |-> B!Cleared]
      /\ want = B!Cleared /\ answer = <<0, 0>> /\ writes = 0
    BY DEF B!Idle
<1>2. req \in [{0, 1} -> Transfer] /\ \A m \in {0, 1} : ~req[m].stb
    BY DEF B!Idle, B!None, Transfer
<1>3. arb \in [current : {0, 1}, hold : [{0, 1} -> BOOLEAN]]
    BY DEF B!Idle
<1>4. B!Cleared \in [Lines -> Nat] /\ \A l \in Lines : B!Cleared[l] = 0
    BY DEF B!Cleared
<1>5. br \in Stage
    BY <1>1 DEF Stage, Command
<1>6. BusTypes
    BY <1>1, <1>2, <1>3, <1>4, <1>5 DEF BusTypes
<1>7. Pipe = <<>> /\ Backlog = 0 /\ Len(Pipe) = 0
    BY <1>1 DEF Pipe, Backlog
<1>8. Queue /\ Reader
    BY <1>1, <1>7 DEF Queue, Reader, InPipe
<1>9. UpToDate
    BY <1>1, <1>4, <1>7 DEF UpToDate
<1> QED
    BY <1>1, <1>6, <1>8, <1>9 DEF Live

LEMMA BusReads == BusInv => ReadsLatest
<1> SUFFICES ASSUME Live PROVE answer[1] = answer[2] /\ B!ReadIsOnItsWay
    BY DEF BusInv, ReadsLatest, B!ReadsLatest
<1>1. ASSUME br.active, InPipe
      PROVE  (br.cmd_en /\ ~br.cmd.we) \/ \E k \in DOMAIN mcb.cmds : ~mcb.cmds[k].we
    <2>1. mcb.cmds \in Seq(Command) /\ br.cmd \in Command /\ Backlog \in Nat
        BY DEF Live, BusTypes, Stage, Backlog
    <2>2. ~Pipe[Backlog + 1].we /\ Len(Pipe) = Backlog + 1
        BY <1>1 DEF Live, Reader, Underway, InPipe
    <2>3. CASE br.cmd_en
        <3>1. Pipe = Append(mcb.cmds, br.cmd)
            BY <2>1, <2>3 DEF Pipe
        <3>2. Len(mcb.cmds) = Backlog /\ Pipe[Backlog + 1] = br.cmd
            BY <2>1, <2>2, <3>1
        <3> QED
            BY <2>2, <2>3, <3>2
    <2>4. CASE ~br.cmd_en
        <3>1. Pipe = mcb.cmds
            BY <2>1, <2>4 DEF Pipe
        <3>2. Backlog + 1 \in DOMAIN mcb.cmds
            BY <2>1, <2>2, <3>1
        <3> QED
            BY <2>2, <3>1, <3>2
    <2> QED
        BY <2>3, <2>4
<1>2. br.active => br.rreq \/ InPipe \/ mcb.read # <<>> \/ br.ack
    BY DEF Live, Reader, Underway
<1> QED
    BY <1>1, <1>2 DEF Live, B!ReadIsOnItsWay, B!rd_valid

\* Until a transfer meets a full command FIFO, every read of either master
\* returns what was last written to its line, however the transfers follow
\* each other and whenever the controller gets to them.
THEOREM BusIsMemory == UnitsSpec => []ReadsLatest
<1>1. UnitsInit => BusInv
    BY BusStart DEF UnitsInit
<1>2. BusInv /\ [UnitsNext]_all => BusInv'
    <2>1. ASSUME BusInv, B!BusNext PROVE BusInv'
        BY <2>1, BusStep
    <2>2. ASSUME BusInv, UNCHANGED memoryBus PROVE BusInv'
        <3>1. /\ req' = req /\ arb' = arb /\ br' = br /\ mcb' = mcb /\ want' = want
              /\ answer' = answer /\ writes' = writes /\ pressed' = pressed
            BY <2>2 DEF memoryBus
        <3>2. Pipe' = Pipe /\ Backlog' = Backlog /\ Asked' = Asked
            BY <3>1 DEF Pipe, Backlog, Asked
        <3>3. BusTypes' <=> BusTypes
            BY <3>1 DEF BusTypes
        <3>4. (Queue' <=> Queue) /\ (InPipe' <=> InPipe)
            BY <3>1, <3>2 DEF Queue, InPipe
        <3>5. Reader' <=> Reader
            BY <3>1, <3>2, <3>4 DEF Reader, Underway
        <3>6. UpToDate' <=> UpToDate
            BY <3>1, <3>2 DEF UpToDate, Newest
        <3> QED
            BY <2>2, <3>1, <3>3, <3>4, <3>5, <3>6 DEF BusInv, Live
    <2> QED
        BY <2>1, <2>2 DEF UnitsNext, all
<1> QED
    BY <1>1, <1>2, BusReads, PTL DEF UnitsSpec

-----------------------------------------------------------------------------
(* The UART.  The transmitter and the receiver count the same clocks, and  *)
(* the start bit sets the receiver a fixed number of clocks behind: where  *)
(* the one is tells where the other is, so that every bit is sampled while *)
(* it is on the line.                                                      *)

\* Clocks of a bit, and how many of them have passed in this state of the transmitter.
Width == IF tx.state = U!TXD_STOP2 THEN BitAdjust ELSE BitPulse
Place == IF tx.count = 0 THEN Width - 1 ELSE tx.count - 1
\* So long after the edge of a start bit the receiver begins with the data.
Lag == U!RxHalfPulse + 6

UartTypes ==
    /\ tx \in [fifo : Seq(Traffic), state : 0..12, txd : {0, 1}, pulse : BOOLEAN, count : Nat,
               cts : [1..4 -> {0, 1}]]
    /\ rx \in [fifo : Seq(Traffic), empty : BOOLEAN, full : BOOLEAN, state : 0..12,
               byte : Seq({0, 1}), en : BOOLEAN, count : Nat, restart : BOOLEAN, d : [1..5 -> {0, 1}]]
    /\ bus \in [ack : BOOLEAN, polled : BOOLEAN]
    /\ written \in Seq(Traffic) /\ gotten \in Seq(Traffic)

Sending ==
    /\ tx.count < Width
    /\ tx.pulse => tx.count = 0
    /\ tx.count = 0 => tx.pulse \/ tx.state = 0
    /\ tx.state # 0 => tx.fifo # <<>>
    /\ tx.txd = IF tx.state = 2 THEN 0
                ELSE IF tx.state \in 3..10 THEN Head(tx.fifo)[tx.state - 2] ELSE 1

High(i) == rx.d[i] = 1
AllHigh == \A i \in 1..5 : High(i)
Waits == rx.state \in {0, 1} /\ (rx.en => rx.state = 1)
\* The receiver is in a bit since j clocks.
InBit(state, j) ==
    /\ rx.state = state
    /\ j = 0 => rx.restart /\ rx.count # U!RxBitPulse /\ rx.count # 0
    /\ j > 0 => ~rx.restart /\ rx.count = j - 1
Clear == \A i \in 1..4 : tx.cts[i] = 0 => rx.state = 1

\* Where the receiver is, by the place of the transmitter: between two bytes,
Rest ==
    /\ tx.state \in {12, 0, 1} => Waits /\ AllHigh
    /\ tx.state = 12 => \A i \in 1..4 : Place >= i /\ tx.cts[i] = 0 => rx.state = 1
    /\ tx.state = 0 => Clear
    /\ tx.state = 1 => rx.state = 1
\* in a start bit,
Start ==
    tx.state = 2 =>
        /\ Place <= 2 => rx.state = 1 /\ \A i \in 1..5 : High(i) <=> i > Place
        /\ Place = 3 => rx.state = 3 /\ rx.restart
        /\ Place = 4 => rx.state = 2 /\ rx.restart /\ rx.count = 0
        /\ Place > 4 /\ Place < Lag => rx.state = 2 /\ ~rx.restart /\ rx.count = Place - 5
\* in the data,
Data ==
    /\ tx.state \in 2..10 /\ Place >= Lag => InBit(tx.state + 2, Place - Lag)
    /\ tx.state \in 3..11 /\ Place < Lag => InBit(tx.state + 1, BitPulse + Place - Lag)
\* and in the stop bits.
Stop ==
    tx.state = 11 =>
        /\ Place = Lag => rx.state = 0
        /\ Place > Lag => Waits
        /\ \A i \in 1..5 : i <= Place => High(i)

Pushed == (tx.state = 10 /\ Place >= Lag + 2) \/ tx.state \in {11, 12}

BitsSoFar ==
    /\ rx.state \in 1..3 => rx.byte = <<>>
    /\ rx.state \in 4..12 => /\ Len(rx.byte) = rx.state - 4
                             /\ \A i \in 1..(rx.state - 4) : rx.byte[i] = Head(tx.fifo)[i]
Spare ==
    /\ Len(rx.fifo) <= Depth
    /\ rx.state = 0 /\ ~rx.full => Len(rx.fifo) < Depth
    /\ rx.state \in 1..11 \/ (rx.state = 12 /\ ~Pushed) => ~rx.full /\ Len(rx.fifo) < Depth
Reads ==
    /\ ~bus.ack /\ ~rx.empty => rx.fifo # <<>>
    /\ bus.polled => rx.fifo # <<>> /\ ~rx.empty
Unsent == IF Pushed THEN Tail(tx.fifo) ELSE tx.fifo
Stream == written = gotten \o (rx.fifo \o Unsent)

Line == Rest /\ Start /\ Data /\ Stop
UartInv == UartTypes /\ Sending /\ Line /\ BitsSoFar /\ Spare /\ Reads /\ Stream
-----------------------------------------------------------------------------
LEMMA AsSeq ==
    ASSUME NEW S, NEW n \in Nat, NEW s \in [1..n -> S]
    PROVE  s \in Seq(S) /\ Len(s) = n
OBVIOUS

LEMMA Constants ==
    /\ Lag \in Nat /\ Lag >= 12 /\ Lag + 7 < BitPulse /\ Lag + 1 < BitAdjust
    /\ U!RxHalfPulse \in Nat /\ U!RxHalfPulse = Lag - 6 /\ U!RxBitPulse = BitPulse - 2
    /\ U!RxHalfPulse > 0 /\ U!RxHalfPulse + 1 < U!RxBitPulse
<1>1. PICK h \in Nat : h = BitPulse \div 2 /\ (BitPulse = 2 * h \/ BitPulse = 2 * h + 1)
    BY UartAssumption
<1> QED
    BY <1>1, UartAssumption DEF Lag, U!RxHalfPulse, U!RxBitPulse

\* The registers of the transmitter.
LEMMA TxStep ==
    ASSUME UartTypes, NEW push \in Seq(Traffic), tx' = U!Transmitter(push)
    PROVE  /\ tx'.fifo = (IF U!TxPop THEN Tail(tx.fifo) ELSE tx.fifo) \o push
           /\ tx'.state = IF tx.pulse THEN U!NextState ELSE tx.state
           /\ tx'.txd = IF tx.pulse THEN U!NextTxd ELSE tx.txd
           /\ tx'.pulse <=> U!PulseEnd
           /\ tx'.count = IF U!PulseEnd THEN 0 ELSE tx.count + 1
           /\ tx'.cts[1] = IF rx.en THEN 0 ELSE 1
           /\ \A i \in 2..4 : tx'.cts[i] = tx.cts[i - 1]
           /\ tx'.cts \in [1..4 -> {0, 1}]
<1>1. tx.cts \in Seq({0, 1}) /\ Len(tx.cts) = 4
    <2>1. PICK n \in Nat : n = 4
        OBVIOUS
    <2>2. tx.cts \in [1..n -> {0, 1}]
        BY <2>1 DEF UartTypes
    <2>3. PICK c \in [1..n -> {0, 1}] : c = tx.cts
        BY <2>2
    <2>4. c \in Seq({0, 1}) /\ Len(c) = n
        BY AsSeq
    <2> QED
        BY ONLY <2>1, <2>2, <2>3, <2>4
<1>2. tx'.cts = <<IF rx.en THEN 0 ELSE 1>> \o SubSeq(tx.cts, 1, 3)
    BY DEF U!Transmitter
<1>3. tx'.cts \in Seq({0, 1}) /\ Len(tx'.cts) = 4
    BY <1>1, <1>2
<1>4. tx'.cts[1] = IF rx.en THEN 0 ELSE 1
    BY <1>1, <1>2
<1>5. \A i \in 2..4 : tx'.cts[i] = tx.cts[i - 1]
    BY <1>1, <1>2
<1>6. tx'.cts \in [1..4 -> {0, 1}]
    BY ONLY <1>3, LenProperties
<1>7. /\ tx'.fifo = (IF U!TxPop THEN Tail(tx.fifo) ELSE tx.fifo) \o push
      /\ tx'.state = IF tx.pulse THEN U!NextState ELSE tx.state
      /\ tx'.txd = IF tx.pulse THEN U!NextTxd ELSE tx.txd
      /\ tx'.count = IF U!PulseEnd THEN 0 ELSE tx.count + 1
    BY DEF U!Transmitter
<1>8. tx'.pulse <=> U!PulseEnd
    BY DEF U!Transmitter
<1> QED
    BY ONLY <1>4, <1>5, <1>6, <1>7, <1>8

\* The registers of the receiver, but for those of the state machine.
Before(op) ==
    [rx EXCEPT
        !.fifo  = (IF op = "DR" /\ ~rx.empty /\ @ # <<>> THEN Tail(@) ELSE @)
                  \o IF U!RxPush THEN <<rx.byte>> ELSE <<>>,
        !.full  = Len(rx.fifo) = Depth,
        !.empty = rx.fifo = <<>>,
        !.count = IF rx.restart THEN 0 ELSE @ + 1,
        !.d     = <<tx.txd>> \o SubSeq(@, 1, 4)]

LEMMA RxStep ==
    ASSUME UartTypes, NEW op, rx' = U!Receiver(op)
    PROVE  /\ rx'.fifo = (IF op = "DR" /\ ~rx.empty /\ rx.fifo # <<>> THEN Tail(rx.fifo) ELSE rx.fifo)
                         \o IF U!RxPush THEN <<rx.byte>> ELSE <<>>
           /\ rx'.full <=> Len(rx.fifo) = Depth
           /\ rx'.empty <=> rx.fifo = <<>>
           /\ rx'.d[1] = tx.txd /\ \A i \in 2..5 : rx'.d[i] = rx.d[i - 1]
           /\ rx'.d \in [1..5 -> {0, 1}]
<1> DEFINE r == Before(op)
<1>1. rx' = U!Machine(r)
    BY DEF U!Receiver, Before
<1>2. /\ r.fifo = (IF op = "DR" /\ ~rx.empty /\ rx.fifo # <<>> THEN Tail(rx.fifo) ELSE rx.fifo)
                         \o IF U!RxPush THEN <<rx.byte>> ELSE <<>>
      /\ r.full = (Len(rx.fifo) = Depth)
      /\ r.empty = (rx.fifo = <<>>)
      /\ r.d = <<tx.txd>> \o SubSeq(rx.d, 1, 4)
      /\ DOMAIN r = {"fifo", "empty", "full", "state", "byte", "en", "count", "restart", "d"}
    BY DEF Before, UartTypes
<1> HIDE DEF r
<1>3. rx.state \in {0, 1, 2, 3} \cup 4..11 \cup {12}
    BY DEF UartTypes
<1>4. U!Machine(r).fifo = r.fifo /\ U!Machine(r).full = r.full /\ U!Machine(r).empty = r.empty /\ U!Machine(r).d = r.d
    BY <1>2, <1>3 DEF U!Machine, U!RxdIdle, U!RXD_IDLE, U!RXD_START, U!RXD_START_MID, U!RXD_START_MID1, U!RXD_DATA,
        U!RXD_STOP
<1>5. rx.d \in Seq({0, 1}) /\ Len(rx.d) = 5 /\ tx.txd \in {0, 1}
    <2>1. PICK n \in Nat : n = 5
        OBVIOUS
    <2>2. rx.d \in [1..n -> {0, 1}] /\ tx.txd \in {0, 1}
        BY <2>1 DEF UartTypes
    <2>3. PICK c \in [1..n -> {0, 1}] : c = rx.d
        BY <2>2
    <2>4. c \in Seq({0, 1}) /\ Len(c) = n
        BY AsSeq
    <2> QED
        BY ONLY <2>1, <2>2, <2>3, <2>4
<1>6. rx'.d = <<tx.txd>> \o SubSeq(rx.d, 1, 4)
    BY <1>1, <1>2, <1>4
<1>7. rx'.d \in Seq({0, 1}) /\ Len(rx'.d) = 5 /\ rx'.d[1] = tx.txd
    BY <1>5, <1>6
<1>8. \A i \in 2..5 : rx'.d[i] = rx.d[i - 1]
    BY <1>5, <1>6
<1>9. rx'.d \in [1..5 -> {0, 1}]
    BY ONLY <1>7, LenProperties
<1> QED
    BY <1>1, <1>2, <1>4, <1>7, <1>8, <1>9

\* And those of the state machine.
LEMMA RxMachine ==
    ASSUME UartTypes, NEW op, rx' = U!Receiver(op), rx.state \in 0..3
    PROVE  /\ rx.state = 0 => IF rx.full THEN rx'.state = 0 /\ ~rx'.en
                              ELSE rx'.state = 1 /\ rx'.en /\ rx'.restart /\ rx'.byte = <<>>
           /\ rx.state = 1 => /\ IF U!rx_start THEN rx'.state = 3 /\ rx'.restart ELSE rx'.state = 1
                              /\ rx'.en = rx.en /\ rx'.byte = rx.byte
           /\ rx.state = 2 => /\ rx'.state = IF rx.count = U!RxHalfPulse THEN 4 ELSE 2
                              /\ rx'.restart <=> rx.count = U!RxHalfPulse
                              /\ rx'.byte = rx.byte
           /\ rx.state = 3 => rx'.state = 2 /\ (rx.restart => rx'.restart) /\ rx'.byte = rx.byte
           /\ rx.state # 1 => rx'.count = IF rx.restart THEN 0 ELSE rx.count + 1
           /\ rx.state = 0 /\ rx.full => rx'.byte = rx.byte /\ rx'.restart = rx.restart
           /\ rx.state # 0 => rx'.en = rx.en
           /\ rx.state = 1 => rx'.count \in Nat /\ rx'.restart \in BOOLEAN
<1> DEFINE r == Before(op)
<1>1. rx' = U!Machine(r)
    BY DEF U!Receiver, Before
<1>2. /\ r.state = rx.state /\ r.en = rx.en /\ r.byte = rx.byte /\ r.restart = rx.restart
      /\ r.count = IF rx.restart THEN 0 ELSE rx.count + 1
      /\ DOMAIN r = {"fifo", "empty", "full", "state", "byte", "en", "count", "restart", "d"}
    BY DEF Before, UartTypes
<1>3. r.count \in Nat /\ r.restart \in BOOLEAN
    BY <1>2 DEF UartTypes
<1> HIDE DEF r
<1> USE DEF U!RXD_IDLE, U!RXD_START, U!RXD_START_MID, U!RXD_START_MID1, U!RXD_DATA, U!RXD_STOP
<1>4. CASE rx.state = 0
    <2>1. rx' = U!RxdIdle(r)
        BY <1>1, <1>4 DEF U!Machine
    <2>2. CASE rx.full
        <3>1. rx' = [r EXCEPT !.en = FALSE]
            BY <2>1, <2>2 DEF U!RxdIdle
        <3> QED
            BY <1>2, <1>4, <2>2, <3>1
    <2>3. CASE ~rx.full
        <3>1. rx' = [r EXCEPT !.state = 1, !.en = TRUE, !.restart = TRUE, !.byte = <<>>]
            BY <2>1, <2>3 DEF U!RxdIdle
        <3>2. /\ rx'.state = 1 /\ rx'.en = TRUE /\ rx'.restart = TRUE /\ rx'.byte = <<>>
              /\ rx'.count = r.count
            BY ONLY <1>2, <3>1
        <3> QED
            BY ONLY <1>2, <1>4, <2>3, <3>2
    <2> QED
        BY <2>2, <2>3
<1>5. CASE rx.state = 1
    <2>1. CASE U!rx_start
        <3>1. rx' = [r EXCEPT !.state = 3, !.restart = TRUE]
            BY <1>1, <1>5, <2>1 DEF U!Machine
        <3> QED
            BY <1>2, <1>3, <1>5, <2>1, <3>1
    <2>2. CASE ~U!rx_start
        <3>1. rx' = [r EXCEPT !.restart = FALSE, !.count = 0]
            BY <1>1, <1>5, <2>2 DEF U!Machine
        <3> QED
            BY <1>2, <1>3, <1>5, <2>2, <3>1
    <2> QED
        BY <2>1, <2>2
<1>6. CASE rx.state = 2
    <2>1. rx' = [r EXCEPT !.restart = rx.count = U!RxHalfPulse, !.state = IF rx.count = U!RxHalfPulse THEN 4 ELSE @]
        BY <1>1, <1>6 DEF U!Machine
    <2>2. rx'.restart <=> rx.count = U!RxHalfPulse
        BY <1>2, <2>1
    <2>3. rx'.state = (IF rx.count = U!RxHalfPulse THEN 4 ELSE 2) /\ rx'.byte = rx.byte
        BY <1>2, <1>6, <2>1
    <2>4. rx'.count = r.count /\ rx'.en = rx.en
        BY <1>2, <2>1
    <2> QED
        BY <1>2, <1>6, <2>2, <2>3, <2>4
<1>7. CASE rx.state = 3
    BY <1>1, <1>2, <1>3, <1>7 DEF U!Machine
<1> QED
    BY <1>4, <1>5, <1>6, <1>7

\* In the bits.
LEMMA RxBits ==
    ASSUME UartTypes, NEW op, rx' = U!Receiver(op), rx.state \in 4..12
    PROVE  /\ rx'.state = IF ~U!Sampled THEN rx.state ELSE IF rx.state = 12 THEN 0 ELSE rx.state + 1
           /\ rx'.restart <=> U!Sampled
           /\ rx'.byte = IF U!Sampled /\ rx.state # 12 THEN Append(rx.byte, tx.txd) ELSE rx.byte
           /\ rx'.count = IF rx.restart THEN 0 ELSE rx.count + 1
           /\ rx'.en = rx.en
<1> DEFINE r == Before(op)
<1>1. rx' = U!Machine(r)
    BY DEF U!Receiver, Before
<1>2. /\ r.state = rx.state /\ r.en = rx.en /\ r.byte = rx.byte
      /\ r.count = IF rx.restart THEN 0 ELSE rx.count + 1
      /\ DOMAIN r = {"fifo", "empty", "full", "state", "byte", "en", "count", "restart", "d"}
    BY DEF Before, UartTypes
<1> HIDE DEF r
<1> USE DEF U!RXD_IDLE, U!RXD_START, U!RXD_START_MID, U!RXD_START_MID1, U!RXD_DATA, U!RXD_STOP
<1>3. CASE rx.state \in 4..11
    <2>1. rx' = [r EXCEPT !.restart = U!Sampled,
             !.state = IF U!Sampled THEN @ + 1 ELSE @,
             !.byte = IF U!Sampled THEN Append(@, tx.txd) ELSE @]
        BY <1>1, <1>3 DEF U!Machine
    <2> QED
        BY <1>2, <1>3, <2>1
<1>4. CASE rx.state = 12
    <2>1. rx' = [r EXCEPT !.restart = U!Sampled, !.state = IF U!Sampled THEN U!RXD_IDLE ELSE @]
        BY <1>1, <1>4 DEF U!Machine
    <2> QED
        BY <1>2, <1>4, <2>1
<1> QED
    BY <1>3, <1>4
-----------------------------------------------------------------------------
(* A clock of the transmitter: it stays in its state or goes to the next   *)
(* one; the first clocks of all come before the first pulse.               *)

Stays ==
    /\ ~tx.pulse /\ tx'.state = tx.state /\ tx'.txd = tx.txd
    /\ Place' = Place + 1 /\ Place + 1 < Width
Turns ==
    /\ tx.pulse /\ tx'.state = U!NextState /\ tx'.txd = U!NextTxd
    /\ Place = Width - 1 /\ Place' = 0
Wakes == ~tx.pulse /\ tx.state = 0 /\ tx'.state = 0 /\ tx'.txd = tx.txd

LEMMA PlaceTypes ==
    ASSUME UartTypes, Sending
    PROVE  Place \in Nat /\ Place < Width /\ Width \in Nat /\ tx.state \in 0..12
           /\ Width = IF tx.state = 11 THEN BitAdjust ELSE BitPulse
<1>1. tx.count \in Nat /\ tx.state \in 0..12
    BY DEF UartTypes
<1>2. Width \in Nat /\ Width > 0 /\ Width = IF tx.state = 11 THEN BitAdjust ELSE BitPulse
    BY UartAssumption DEF Width, U!TXD_STOP2
<1>3. tx.count < Width
    BY DEF Sending
<1> HIDE DEF Width
<1> QED
    BY <1>1, <1>2, <1>3 DEF Place

LEMMA NextStates ==
    ASSUME UartTypes
    PROVE  /\ tx.state = 0 => \/ U!NextState = 0
                              \/ U!NextState = 1 /\ tx.fifo # <<>> /\ tx.cts[2] = 0
           /\ tx.state = 12 => U!NextState = 0
           /\ tx.state \in 1..11 => U!NextState = tx.state + 1
           /\ U!NextTxd = IF tx.state = 1 THEN 0
                        ELSE IF tx.state \in 2..9 THEN Head(tx.fifo)[tx.state - 1] ELSE 1
           /\ U!NextState \in 0..12
<1> USE DEF U!TXD_IDLE, U!TXD_START, U!TXD_DATA, U!TXD_STOP2, U!TXD_STOP3
<1>1. tx.state \in 0..12
    BY DEF UartTypes
<1>2. CASE tx.state = 0
    <2>1. PICK n \in Nat : n = 4
        OBVIOUS
    <2>2. PICK c \in [1..n -> {0, 1}] : c = tx.cts
        BY <2>1 DEF UartTypes
    <2>3. c \in Seq({0, 1}) /\ Len(c) = n
        BY AsSeq
    <2>4. Tail(c) = <<0, 0, 0>> => c[2] = 0
        <3>1. c # <<>>
            <4>1. Len(c) # 0
                BY ONLY <2>1, <2>3
            <4> QED
                BY <4>1
        <3>2. Tail(c)[1] = c[2]
            <4>1. /\ Len(Tail(c)) = Len(c) - 1
                  /\ \A i \in 1..Len(Tail(c)) : Tail(c)[i] = c[i + 1]
                BY ONLY <2>3, <3>1, HeadTailProperties
            <4>2. 1 \in 1..(n - 1) /\ 1 + 1 = 2
                BY <2>1
            <4> QED
                BY ONLY <2>3, <4>1, <4>2
        <3>3. <<0, 0, 0>>[1] = 0
            OBVIOUS
        <3> QED
            BY ONLY <3>2, <3>3
    <2>5. U!NextState = IF Tail(c) = <<0, 0, 0>> /\ tx.fifo # <<>> THEN 1 ELSE 0
        BY <1>2, <2>2 DEF U!NextState
    <2>6. U!NextTxd = 1
        BY <1>2 DEF U!NextTxd
    <2> QED
        BY <1>2, <2>2, <2>4, <2>5, <2>6
<1>3. CASE tx.state # 0
    BY <1>1, <1>3 DEF U!NextState, U!NextTxd
<1> QED
    BY <1>2, <1>3

LEMMA Tick ==
    ASSUME UartTypes, Sending, NEW push \in Seq(Traffic), tx' = U!Transmitter(push)
    PROVE  /\ Stays \/ Turns \/ Wakes
           /\ tx'.state \in 0..12 /\ tx'.count \in Nat /\ tx'.count < Width'
           /\ tx'.pulse => tx'.count = 0
           /\ tx'.count = 0 => tx'.pulse \/ tx'.state = 0
<1>1. /\ tx'.state = IF tx.pulse THEN U!NextState ELSE tx.state
      /\ tx'.txd = IF tx.pulse THEN U!NextTxd ELSE tx.txd
      /\ tx'.pulse <=> U!PulseEnd
      /\ tx'.count = IF U!PulseEnd THEN 0 ELSE tx.count + 1
    BY TxStep
<1>2. U!PulseEnd <=> tx.count = Width - 1
    BY DEF U!PulseEnd, Width
<1>3. PICK c \in Nat : c = tx.count
    BY DEF UartTypes
<1>4. PICK w \in Nat : w = Width /\ w >= 14 /\ c < w
    BY <1>3, UartAssumption DEF Width, Sending
<1>5. Place = IF c = 0 THEN w - 1 ELSE c - 1
    BY <1>3, <1>4 DEF Place
<1>6. Place' = IF tx'.count = 0 THEN Width' - 1 ELSE tx'.count - 1
    BY DEF Place
<1>7. Width' = IF tx'.state = 11 THEN BitAdjust ELSE BitPulse
    BY DEF Width, U!TXD_STOP2
<1>8. Width = IF tx.state = 11 THEN BitAdjust ELSE BitPulse
    BY DEF Width, U!TXD_STOP2
<1>9. tx'.state \in 0..12
    BY <1>1, NextStates DEF UartTypes
<1>10. CASE tx.pulse
    <2>1. c = 0
        BY <1>3, <1>10 DEF Sending
    <2>2. ~U!PulseEnd
        BY <1>2, <1>3, <1>4, <2>1
    <2>3. tx'.count = 1 /\ ~tx'.pulse
        BY <1>1, <1>3, <2>1, <2>2
    <2>4. Place = w - 1 /\ Place' = 0
        BY <1>5, <1>6, <2>1, <2>3
    <2>5. Turns
        BY <1>1, <1>4, <1>10, <2>4 DEF Turns
    <2>6. 1 < Width'
        BY <1>7, UartAssumption
    <2> QED
        BY <1>9, <2>3, <2>5, <2>6
<1>11. CASE ~tx.pulse
    <2>1. Width' = w
        BY <1>1, <1>4, <1>7, <1>8, <1>11
    <2>2. tx'.count = IF c = w - 1 THEN 0 ELSE c + 1
        BY <1>1, <1>2, <1>3, <1>4
    <2>3. tx'.pulse <=> c = w - 1
        BY <1>1, <1>2, <1>3, <1>4
    <2>4. c = 0 => tx.state = 0
        BY <1>3, <1>11 DEF Sending
    <2>5. CASE c = 0
        BY <1>1, <1>4, <1>9, <1>11, <2>1, <2>2, <2>3, <2>4, <2>5 DEF Wakes
    <2>6. CASE c # 0
        <3>1. Place' = Place + 1 /\ Place + 1 < w
            BY <1>4, <1>5, <1>6, <2>1, <2>2, <2>6
        <3>2. Stays
            BY <1>1, <1>4, <1>11, <3>1 DEF Stays
        <3> QED
            BY <1>4, <1>9, <2>1, <2>2, <2>3, <2>6, <3>2
    <2> QED
        BY <2>5, <2>6
<1> QED
    BY <1>10, <1>11

LEMMA InFront ==
    ASSUME NEW S, NEW s \in Seq(S), NEW t \in Seq(S), s # <<>>
    PROVE  s \o t # <<>> /\ Head(s \o t) = Head(s) /\ Tail(s \o t) = Tail(s) \o t
BY SMT

LEMMA Kept ==
    ASSUME UartTypes, NEW push \in Seq(Traffic), tx' = U!Transmitter(push), tx.fifo # <<>>, ~U!TxPop
    PROVE  tx'.fifo # <<>> /\ Head(tx'.fifo) = Head(tx.fifo) /\ Tail(tx'.fifo) = Tail(tx.fifo) \o push
<1>1. tx'.fifo = tx.fifo \o push
    BY TxStep
<1>2. tx.fifo \in Seq(Traffic)
    BY DEF UartTypes
<1> QED
    BY ONLY <1>1, <1>2, tx.fifo # <<>>, push \in Seq(Traffic), InFront

LEMMA SendingStep ==
    ASSUME UartTypes, Sending, NEW push \in Seq(Traffic), tx' = U!Transmitter(push)
    PROVE  Sending'
<1>1. /\ Stays \/ Turns \/ Wakes
      /\ tx'.state \in 0..12 /\ tx'.count \in Nat /\ tx'.count < Width'
      /\ tx'.pulse => tx'.count = 0
      /\ tx'.count = 0 => tx'.pulse \/ tx'.state = 0
    BY Tick
<1>2. U!TxPop <=> tx.state = 12 /\ tx.pulse /\ tx.fifo # <<>>
    BY DEF U!TxPop, U!TXD_STOP3
<1>3. tx.fifo # <<>> /\ ~U!TxPop => tx'.fifo # <<>> /\ Head(tx'.fifo) = Head(tx.fifo)
    BY Kept
<1>4. /\ tx.state \in 0..12
      /\ tx.state # 0 => tx.fifo # <<>>
      /\ tx.txd = IF tx.state = 2 THEN 0
                  ELSE IF tx.state \in 3..10 THEN Head(tx.fifo)[tx.state - 2] ELSE 1
    BY DEF Sending, UartTypes
<1>5. CASE Stays \/ Wakes
    <2>1. tx'.state = tx.state /\ tx'.txd = tx.txd /\ ~tx.pulse
        BY <1>5 DEF Stays, Wakes
    <2> QED
        BY <1>1, <1>2, <1>3, <1>4, <2>1 DEF Sending
<1>6. CASE Turns
    <2>1. tx'.state = U!NextState /\ tx'.txd = U!NextTxd /\ tx.pulse
        BY <1>6 DEF Turns
    <2>2. /\ tx.state = 0 => \/ U!NextState = 0
                             \/ U!NextState = 1 /\ tx.fifo # <<>>
          /\ tx.state = 12 => U!NextState = 0
          /\ tx.state \in 1..11 => U!NextState = tx.state + 1
          /\ U!NextTxd = IF tx.state = 1 THEN 0
                       ELSE IF tx.state \in 2..9 THEN Head(tx.fifo)[tx.state - 1] ELSE 1
        BY NextStates
    <2>3. tx'.state # 0 => tx'.fifo # <<>> /\ Head(tx'.fifo) = Head(tx.fifo)
        BY <1>2, <1>3, <1>4, <2>1, <2>2
    <2>4. tx'.txd = IF tx'.state = 2 THEN 0
                    ELSE IF tx'.state \in 3..10 THEN Head(tx'.fifo)[tx'.state - 2] ELSE 1
        <3>1. CASE tx.state \in 2..9
            <4>1. tx'.state = tx.state + 1 /\ tx'.state \in 3..10 /\ tx'.state # 2 /\ tx'.state - 2 = tx.state - 1
                BY <2>1, <2>2, <3>1
            <4>2. tx'.txd = Head(tx.fifo)[tx.state - 1]
                BY <2>1, <2>2, <3>1
            <4> QED
                BY <2>3, <4>1, <4>2
        <3>2. CASE tx.state = 1
            BY <2>1, <2>2, <3>2
        <3>3. CASE tx.state \in {0, 10, 11, 12}
            <4>1. tx'.state \notin 2..10
                BY <2>1, <2>2, <3>3
            <4>2. tx'.txd = 1
                BY <2>1, <2>2, <3>3
            <4> QED
                BY <1>1, <4>1, <4>2
        <3> QED
            BY <1>4, <3>1, <3>2, <3>3
    <2> QED
        BY <1>1, <2>3, <2>4 DEF Sending
<1> QED
    BY <1>1, <1>5, <1>6
-----------------------------------------------------------------------------
(* A clock of the receiver, where the transmitter is.                      *)

LEMMA HighStep ==
    ASSUME UartTypes, NEW op, rx' = U!Receiver(op)
    PROVE  /\ High(1)' <=> tx.txd = 1
           /\ \A i \in 2..5 : High(i)' <=> High(i - 1)
BY RxStep DEF High

LEMMA WaitsStep ==
    ASSUME UartTypes, NEW op, rx' = U!Receiver(op), Waits, High(1)
    PROVE  Waits' /\ (rx.state = 1 => rx'.state = 1)
<1>1. ~U!rx_start
    BY DEF U!rx_start, High
<1>2. rx.state = 0 \/ rx.state = 1
    BY DEF Waits
<1>3. /\ rx.state = 0 => IF rx.full THEN rx'.state = 0 /\ ~rx'.en
                         ELSE rx'.state = 1 /\ rx'.en
      /\ rx.state = 1 => /\ IF U!rx_start THEN rx'.state = 3 /\ rx'.restart ELSE rx'.state = 1
                         /\ rx'.en = rx.en
    BY RxMachine
<1> QED
    BY <1>1, <1>2, <1>3 DEF Waits

\* The first bytes of a FIFO that is full are awaited with the line high.
LEMMA RestStep ==
    ASSUME UartTypes, Sending, Line, NEW push \in Seq(Traffic), NEW op,
           tx' = U!Transmitter(push), rx' = U!Receiver(op)
    PROVE  Rest'
<1>1. Stays \/ Turns \/ Wakes
    BY Tick
<1>2. /\ tx.state = 0 => \/ U!NextState = 0
                         \/ U!NextState = 1 /\ tx.fifo # <<>> /\ tx.cts[2] = 0
      /\ tx.state = 12 => U!NextState = 0
      /\ tx.state \in 1..11 => U!NextState = tx.state + 1
    BY NextStates
<1>3. Place \in Nat /\ Place < Width /\ tx.state \in 0..12
      /\ Width = IF tx.state = 11 THEN BitAdjust ELSE BitPulse
    BY PlaceTypes
<1>4. Lag \in Nat /\ Lag >= 12 /\ Lag + 7 < BitPulse /\ Lag + 1 < BitAdjust /\ BitPulse \in Nat /\ BitAdjust \in Nat
    BY Constants, UartAssumption
<1>5. SUFFICES ASSUME tx'.state \in {12, 0, 1} PROVE Rest'
    BY DEF Rest, Clear
<1>6. /\ tx.state \in {0, 1, 11, 12}
      /\ tx.state = 11 => Place = BitAdjust - 1 /\ tx'.state = 12 /\ Place' = 0
    <2>1. CASE Stays \/ Wakes
        BY <1>5, <2>1 DEF Stays, Wakes
    <2>2. CASE Turns
        BY <1>2, <1>3, <1>5, <2>2 DEF Turns
    <2> QED
        BY <1>1, <2>1, <2>2
<1>7. Waits /\ AllHigh /\ tx.txd = 1
    <2>1. CASE tx.state = 11
        <3>1. Place > Lag /\ \A i \in 1..5 : i <= Place
            BY <1>4, <1>6, <2>1
        <3>2. Waits /\ \A i \in 1..5 : High(i)
            BY <2>1, <3>1 DEF Line, Stop
        <3> QED
            BY <2>1, <3>2 DEF AllHigh, Sending
    <2>2. CASE tx.state \in {0, 1, 12}
        BY <2>2 DEF Line, Rest, Sending
    <2> QED
        BY <1>6, <2>1, <2>2
<1>8. Waits' /\ (rx.state = 1 => rx'.state = 1)
    <2>1. High(1)
        BY <1>7 DEF AllHigh
    <2> QED
        BY <1>7, <2>1, WaitsStep
<1>9. AllHigh'
    <2>1. \A i \in 2..5 : i - 1 \in 1..5
        OBVIOUS
    <2>2. High(1)' /\ \A i \in 2..5 : High(i)'
        BY <1>7, <2>1, HighStep DEF AllHigh
    <2>3. \A i \in 1..5 : i = 1 \/ i \in 2..5
        OBVIOUS
    <2> QED
        BY <2>2, <2>3 DEF AllHigh
<1>10. /\ tx'.cts[1] = IF rx.en THEN 0 ELSE 1
       /\ \A i \in 2..4 : tx'.cts[i] = tx.cts[i - 1]
    BY TxStep
<1>11. tx'.cts[1] = 0 => rx.state = 1
    BY <1>7, <1>10 DEF Waits
<1>12. tx'.state = 12 => \A i \in 1..4 : Place' >= i /\ tx'.cts[i] = 0 => rx'.state = 1
    <2> SUFFICES ASSUME tx'.state = 12, NEW i \in 1..4, Place' >= i, tx'.cts[i] = 0 PROVE rx.state = 1
        BY <1>8
    <2>1. Stays /\ tx.state = 12
        <3>1. CASE Turns
            BY <1>2, <1>6, <3>1 DEF Turns
        <3>2. CASE Stays \/ Wakes
            BY <3>2 DEF Stays, Wakes
        <3> QED
            BY <1>1, <3>1, <3>2
    <2>2. Place >= i - 1
        BY <1>3, <2>1 DEF Stays
    <2>3. CASE i = 1
        BY <1>11, <2>3
    <2>4. CASE i # 1
        <3>1. i \in 2..4 /\ i - 1 \in 1..4
            BY <2>4
        <3>2. tx.cts[i - 1] = 0
            BY <1>10, <3>1
        <3> QED
            BY <2>1, <2>2, <3>1, <3>2 DEF Line, Rest
    <2> QED
        BY <2>3, <2>4
<1>13. tx'.state = 0 => Clear'
    <2> SUFFICES ASSUME tx'.state = 0, NEW i \in 1..4, tx'.cts[i] = 0 PROVE rx.state = 1
        BY <1>8 DEF Clear
    <2>1. tx.state = 0 \/ (tx.state = 12 /\ Place >= 4)
        <3>1. CASE Turns
            BY <1>2, <1>3, <1>4, <1>6, <3>1 DEF Turns
        <3>2. CASE Stays \/ Wakes
            BY <3>2 DEF Stays, Wakes
        <3> QED
            BY <1>1, <3>1, <3>2
    <2>3. CASE i = 1
        BY <1>11, <2>3
    <2>4. CASE i # 1
        <3>1. i \in 2..4 /\ i - 1 \in 1..4 /\ i - 1 <= 4
            BY <2>4
        <3>2. tx.cts[i - 1] = 0
            BY <1>10, <3>1
        <3>3. tx.state = 12 => Place >= i - 1
            BY <1>3, <2>1, <3>1
        <3> QED
            BY <2>1, <3>1, <3>2, <3>3 DEF Line, Rest, Clear
    <2> QED
        BY <2>3, <2>4
<1>14. tx'.state = 1 => rx'.state = 1
    <2> SUFFICES ASSUME tx'.state = 1 PROVE rx.state = 1
        BY <1>8
    <2>1. CASE tx.state = 1
        BY <2>1 DEF Line, Rest
    <2>2. CASE tx.state = 0
        <3>1. tx.cts[2] = 0
            BY <1>1, <1>2, <2>2 DEF Stays, Wakes, Turns
        <3>2. 2 \in 1..4
            OBVIOUS
        <3> QED
            BY <2>2, <3>1, <3>2 DEF Line, Rest, Clear
    <2>3. CASE tx.state \in {11, 12}
        BY <1>1, <1>2, <1>6, <2>3 DEF Stays, Turns, Wakes
    <2> QED
        BY <1>6, <2>1, <2>2, <2>3
<1> QED
    BY <1>8, <1>9, <1>12, <1>13, <1>14 DEF Rest

\* A bit is a pulse long.
NextBit(state, j) ==
    /\ rx'.state = state
    /\ j = 0 => rx'.restart /\ rx'.count # U!RxBitPulse /\ rx'.count # 0
    /\ j > 0 => ~rx'.restart /\ rx'.count = j - 1

LEMMA BitStep ==
    ASSUME UartTypes, NEW op, rx' = U!Receiver(op), NEW q \in 4..12, NEW j \in Nat, j < BitPulse, InBit(q, j)
    PROVE  /\ U!Sampled <=> j + 1 = BitPulse
           /\ j + 1 < BitPulse => NextBit(q, j + 1)
           /\ j + 1 = BitPulse => IF q = 12 THEN rx'.state = 0 ELSE NextBit(q + 1, 0)
<1>1. PICK c \in Nat : c = rx.count
    BY DEF UartTypes
<1>2. BitPulse \in Nat /\ BitPulse > 14 /\ U!RxBitPulse = BitPulse - 2
    BY Constants, UartAssumption
<1>3. /\ rx.state = q
      /\ j = 0 => rx.restart /\ c # U!RxBitPulse
      /\ j > 0 => ~rx.restart /\ c = j - 1
    BY <1>1 DEF InBit
<1>4. U!Sampled <=> j + 1 = BitPulse
    <2>1. U!Sampled <=> c = BitPulse - 2
        BY <1>1, <1>2 DEF U!Sampled
    <2> QED
        BY <1>2, <1>3, <2>1
<1>5. /\ q # 12 => rx'.state = IF U!Sampled THEN q + 1 ELSE q
      /\ q = 12 => rx'.state = IF U!Sampled THEN 0 ELSE 12
      /\ rx'.restart <=> U!Sampled
      /\ rx'.count = IF rx.restart THEN 0 ELSE c + 1
    <2>1. rx.state \in 4..12
        BY <1>3
    <2>2. /\ rx'.state = IF ~U!Sampled THEN rx.state ELSE IF rx.state = 12 THEN 0 ELSE rx.state + 1
          /\ rx'.restart <=> U!Sampled
          /\ rx'.count = IF rx.restart THEN 0 ELSE rx.count + 1
        BY <2>1, RxBits
    <2> QED
        BY <1>1, <1>3, <2>2
<1>6. rx'.count = j
    BY <1>2, <1>3, <1>5
<1> QED
    BY <1>2, <1>4, <1>5, <1>6 DEF NextBit

LEMMA DataStep ==
    ASSUME UartTypes, Sending, Line, NEW push \in Seq(Traffic), NEW op,
           tx' = U!Transmitter(push), rx' = U!Receiver(op)
    PROVE  Data'
<1>1. PICK s \in 0..12, p \in Nat, w \in Nat :
         /\ s = tx.state /\ p = Place /\ w = Width /\ p < w
         /\ w = IF s = 11 THEN BitAdjust ELSE BitPulse
    BY PlaceTypes
<1>2. PICK l \in Nat, b \in Nat :
         /\ l = Lag /\ b = BitPulse /\ l >= 12 /\ l + 7 < b
         /\ U!RxHalfPulse = l - 6 /\ U!RxBitPulse = b - 2
    BY Constants, UartAssumption
<1>3. /\ s \in 2..10 /\ p >= l => InBit(s + 2, p - l)
      /\ s \in 3..11 /\ p < l => InBit(s + 1, b + p - l)
    BY <1>1, <1>2 DEF Line, Data
<1>4. SUFFICES /\ tx'.state \in 2..10 /\ Place' >= l => NextBit(tx'.state + 2, Place' - l)
               /\ tx'.state \in 3..11 /\ Place' < l => NextBit(tx'.state + 1, b + Place' - l)
    <2>1. Lag' = Lag
        BY DEF Lag, U!RxHalfPulse
    <2> QED
        BY <1>2, <1>4, <2>1 DEF Data, InBit, NextBit
<1>5. \A q \in 4..12, j \in Nat : j < b /\ InBit(q, j) =>
         /\ j + 1 < b => NextBit(q, j + 1)
         /\ j + 1 = b /\ q < 12 => NextBit(q + 1, 0)
    BY <1>2, BitStep
<1>6. CASE Stays
    <2>1. tx'.state = s /\ Place' = p + 1 /\ p + 1 < w
        BY <1>1, <1>6 DEF Stays
    <2>2. ASSUME s \in 2..10, p + 1 >= l PROVE NextBit(s + 2, (p + 1) - l)
        <3>1. w = b
            BY <1>1, <1>2, <2>2
        <3>2. CASE p >= l
            <4>1. p - l \in Nat /\ s + 2 \in 4..12 /\ p - l < b /\ (p - l) + 1 < b /\ (p - l) + 1 = (p + 1) - l
                BY <1>2, <2>1, <2>2, <3>1, <3>2
            <4>2. NextBit(s + 2, (p - l) + 1)
                BY <1>3, <1>5, <2>2, <3>2, <4>1
            <4> QED
                BY <4>1, <4>2
        <3>3. CASE p < l /\ s # 2
            <4>1. /\ b + p - l \in Nat /\ b + p - l < b /\ (b + p - l) + 1 = b /\ (p + 1) - l = 0
                  /\ s + 1 \in 4..12 /\ s + 1 < 12 /\ (s + 1) + 1 = s + 2 /\ s \in 3..11
                BY <1>2, <2>2, <3>3
            <4>2. NextBit((s + 1) + 1, 0)
                BY <1>3, <1>5, <3>3, <4>1
            <4> QED
                BY <4>1, <4>2
        <3>4. CASE p < l /\ s = 2
            <4>1. p > 4 /\ p = l - 1
                BY <1>2, <2>2, <3>4
            <4>2. rx.state = 2 /\ ~rx.restart /\ rx.count = p - 5
                BY <1>1, <1>2, <3>4, <4>1 DEF Line, Start
            <4>3. rx.count = U!RxHalfPulse /\ rx.count + 1 # U!RxBitPulse /\ rx.count + 1 # 0
                BY <1>2, <4>1, <4>2
            <4>4. rx.state \in 0..3
                BY <4>2
            <4>5. rx'.state = 4 /\ rx'.restart /\ rx'.count = rx.count + 1
                <5>1. /\ rx.state = 2 => /\ rx'.state = IF rx.count = U!RxHalfPulse THEN 4 ELSE 2
                                         /\ rx'.restart <=> rx.count = U!RxHalfPulse
                      /\ rx.state # 1 => rx'.count = IF rx.restart THEN 0 ELSE rx.count + 1
                    BY <4>4, RxMachine
                <5> QED
                    BY <4>2, <4>3, <5>1
            <4>6. s + 2 = 4 /\ (p + 1) - l = 0
                BY <1>2, <3>4, <4>1
            <4>7. NextBit(4, 0)
                BY <4>3, <4>5 DEF NextBit
            <4> QED
                BY <4>6, <4>7
        <3> QED
            BY <3>2, <3>3, <3>4
    <2>3. ASSUME s \in 3..11, p + 1 < l PROVE NextBit(s + 1, b + (p + 1) - l)
        <3>1. /\ b + p - l \in Nat /\ b + p - l < b /\ (b + p - l) + 1 < b
              /\ (b + p - l) + 1 = b + (p + 1) - l /\ s + 1 \in 4..12 /\ p < l
            BY <1>2, <2>3
        <3>2. NextBit(s + 1, (b + p - l) + 1)
            BY <1>3, <1>5, <2>3, <3>1
        <3> QED
            BY <3>1, <3>2
    <2> QED
        BY <2>1, <2>2, <2>3
<1>7. CASE Turns
    <2>1. tx'.state = U!NextState /\ Place' = 0 /\ p = w - 1
        BY <1>1, <1>7 DEF Turns
    <2>2. ~(Place' >= l)
        BY <1>2, <2>1
    <2>3. ASSUME tx'.state \in 3..11 PROVE NextBit(tx'.state + 1, b + 0 - l)
        <3>1. /\ s = 0 => U!NextState = 0 \/ U!NextState = 1
              /\ s = 12 => U!NextState = 0
              /\ s \in 1..11 => U!NextState = s + 1
            BY <1>1, NextStates
        <3>2. s \in 2..10 /\ tx'.state = s + 1
            BY <2>1, <2>3, <3>1
        <3>3. p = b - 1
            BY <1>1, <1>2, <2>1, <3>2
        <3>4. /\ p >= l /\ p - l \in Nat /\ p - l < b /\ (p - l) + 1 < b /\ (p - l) + 1 = b + 0 - l
              /\ s + 2 \in 4..12 /\ (s + 1) + 1 = s + 2
            BY <1>2, <3>2, <3>3
        <3>5. NextBit(s + 2, (p - l) + 1)
            BY <1>3, <1>5, <3>2, <3>4
        <3> QED
            BY <3>2, <3>4, <3>5
    <2> QED
        BY <2>1, <2>2, <2>3
<1>8. CASE Wakes
    BY <1>8 DEF Wakes
<1> QED
    BY <1>6, <1>7, <1>8, Tick

LEMMA StartStep ==
    ASSUME UartTypes, Sending, Line, NEW push \in Seq(Traffic), NEW op,
           tx' = U!Transmitter(push), rx' = U!Receiver(op)
    PROVE  Start'
<1>1. SUFFICES ASSUME tx'.state = 2 PROVE Start'
    BY DEF Start
<1>2. Lag' = Lag /\ Lag \in Nat /\ Lag >= 12 /\ U!RxHalfPulse = Lag - 6
    BY Constants DEF Lag, U!RxHalfPulse
<1>3. Place \in Nat
    BY PlaceTypes
<1>4. /\ High(1)' <=> tx.txd = 1
      /\ \A i \in 2..5 : High(i)' <=> High(i - 1)
    BY HighStep
<1>5. \/ Stays /\ tx.state = 2 /\ Place' = Place + 1
      \/ Turns /\ tx.state = 1 /\ Place' = 0
    <2>1. /\ tx.state = 0 => U!NextState = 0 \/ U!NextState = 1
          /\ tx.state = 12 => U!NextState = 0
          /\ tx.state \in 1..11 => U!NextState = tx.state + 1
        BY NextStates
    <2>2. tx.state \in 0..12
        BY PlaceTypes
    <2> QED
        BY <1>1, <2>1, <2>2, Tick DEF Stays, Turns, Wakes
<1>6. CASE Turns /\ tx.state = 1 /\ Place' = 0
    <2>1. Waits /\ AllHigh /\ rx.state = 1 /\ tx.txd = 1
        BY <1>6 DEF Line, Rest, Sending
    <2>2. High(1)
        BY <2>1 DEF AllHigh
    <2>3. rx'.state = 1
        BY <2>1, <2>2, WaitsStep
    <2>4. \A i \in 1..5 : High(i)'
        <3>1. \A i \in 2..5 : i - 1 \in 1..5
            OBVIOUS
        <3>2. \A i \in 1..5 : i = 1 \/ i \in 2..5
            OBVIOUS
        <3> QED
            BY <1>4, <2>1, <3>1, <3>2 DEF AllHigh
    <2>5. \A i \in 1..5 : i > Place'
        BY <1>6
    <2> QED
        BY <1>2, <1>6, <2>3, <2>4, <2>5 DEF Start
<1>7. CASE Stays /\ tx.state = 2 /\ Place' = Place + 1
    <2>1. tx.txd = 0
        BY <1>7 DEF Sending
    <2>2. /\ Place <= 2 => rx.state = 1 /\ \A i \in 1..5 : High(i) <=> i > Place
          /\ Place = 3 => rx.state = 3 /\ rx.restart
          /\ Place = 4 => rx.state = 2 /\ rx.restart /\ rx.count = 0
          /\ Place > 4 /\ Place < Lag => rx.state = 2 /\ ~rx.restart /\ rx.count = Place - 5
        BY <1>7 DEF Line, Start
    <2>3. CASE Place <= 2
        <3>1. rx.state \in 0..3 /\ rx.state = 1
            BY <2>2, <2>3
        <3>2. IF U!rx_start THEN rx'.state = 3 /\ rx'.restart ELSE rx'.state = 1
            BY <3>1, RxMachine
        <3>3. U!rx_start <=> Place = 2
            <4>1. \A i \in 1..5 : rx.d[i] \in {0, 1} /\ (rx.d[i] = 1 <=> i > Place)
                BY <2>2, <2>3 DEF High, UartTypes
            <4>2. 5 \in 1..5 /\ 4 \in 1..5 /\ 2 \in 1..5 /\ 1 \in 1..5
                OBVIOUS
            <4>3. (rx.d[5] = 1 <=> 5 > Place) /\ (rx.d[4] = 1 <=> 4 > Place)
                  /\ (rx.d[2] = 0 <=> ~(2 > Place)) /\ (rx.d[1] = 0 <=> ~(1 > Place))
                BY <4>1, <4>2
            <4> QED
                BY <1>3, <2>3, <4>3 DEF U!rx_start
        <3>4. \A i \in 1..5 : High(i)' <=> i > Place + 1
            <4>1. ~High(1)'
                BY <1>4, <2>1
            <4>2. ASSUME NEW i \in 2..5 PROVE High(i)' <=> i > Place + 1
                <5>1. i - 1 \in 1..5 /\ (i - 1 > Place <=> i > Place + 1)
                    BY <1>3
                <5> QED
                    BY <1>4, <2>2, <2>3, <5>1
            <4>3. \A i \in 1..5 : i = 1 \/ i \in 2..5
                OBVIOUS
            <4>4. ~(1 > Place + 1)
                BY <1>3
            <4> QED
                BY <4>1, <4>2, <4>3, <4>4
        <3>5. Place' = 3 <=> Place = 2
            BY <1>3, <1>7
        <3>6. Place' <= 3 /\ Place' \in Nat
            BY <1>3, <1>7, <2>3
        <3>7. Place' <= 2 => rx'.state = 1
            BY <3>2, <3>3, <3>5, <3>6
        <3>8. Place' = 3 => rx'.state = 3 /\ rx'.restart
            BY <3>2, <3>3, <3>5
        <3>9. \A i \in 1..5 : High(i)' <=> i > Place'
            BY <1>7, <3>4
        <3>10. Place' # 4 /\ ~(Place' > 4)
            BY <3>6
        <3> QED
            BY <3>7, <3>8, <3>9, <3>10 DEF Start
    <2>4. CASE Place = 3
        <3>1. rx.state \in 0..3 /\ rx.state = 3 /\ rx.restart
            BY <2>2, <2>4
        <3>2. /\ rx.state = 3 => rx'.state = 2 /\ (rx.restart => rx'.restart)
              /\ rx.state # 1 => rx'.count = IF rx.restart THEN 0 ELSE rx.count + 1
            BY <3>1, RxMachine
        <3>3. rx'.state = 2 /\ rx'.restart /\ rx'.count = 0
            BY ONLY <3>1, <3>2
        <3>4. Place' = 4
            BY <1>7, <2>4
        <3> QED
            BY <3>3, <3>4 DEF Start
    <2>5. CASE Place >= 4 /\ Place' < Lag
        <3>1. /\ rx.state = 2 /\ rx.count \in Nat /\ rx.count # U!RxHalfPulse
              /\ (IF rx.restart THEN 0 ELSE rx.count + 1) = Place' - 5
            <4>1. CASE Place = 4
                BY <1>2, <1>7, <2>2, <4>1
            <4>2. CASE Place > 4
                <5>1. Place < Lag
                    BY <1>2, <1>3, <1>7, <2>5
                <5> QED
                    BY <1>2, <1>3, <1>7, <2>2, <2>5, <4>2, <5>1
            <4> QED
                BY <1>3, <2>5, <4>1, <4>2
        <3>2. rx.state \in 0..3
            BY <3>1
        <3>3. /\ rx.state = 2 => /\ rx'.state = IF rx.count = U!RxHalfPulse THEN 4 ELSE 2
                                 /\ rx'.restart <=> rx.count = U!RxHalfPulse
              /\ rx.state # 1 => rx'.count = IF rx.restart THEN 0 ELSE rx.count + 1
            BY <3>2, RxMachine
        <3>4. rx'.state = 2 /\ ~rx'.restart /\ rx'.count = Place' - 5
            BY <3>1, <3>3
        <3>5. Place' > 4 /\ ~(Place' <= 2) /\ Place' # 3 /\ Place' # 4
            BY <1>3, <1>7, <2>5
        <3> QED
            BY <3>4, <3>5 DEF Start
    <2>6. CASE Place' >= Lag
        <3>1. ~(Place' <= 2) /\ Place' # 3 /\ Place' # 4 /\ ~(Place' < Lag)
            BY <1>2, <1>3, <1>7, <2>6
        <3> QED
            BY <1>2, <3>1 DEF Start
    <2>7. Place <= 2 \/ Place = 3 \/ (Place >= 4 /\ (Place' < Lag \/ Place' >= Lag))
        BY <1>2, <1>3, <1>7
    <2> QED
        BY <2>3, <2>4, <2>5, <2>6, <2>7
<1> QED
    BY <1>5, <1>6, <1>7

LEMMA StopStep ==
    ASSUME UartTypes, Sending, Line, NEW push \in Seq(Traffic), NEW op,
           tx' = U!Transmitter(push), rx' = U!Receiver(op)
    PROVE  Stop'
<1>1. SUFFICES ASSUME tx'.state = 11 PROVE Stop'
    BY DEF Stop
<1>2. Lag' = Lag /\ Lag \in Nat /\ Lag >= 12
    BY Constants DEF Lag, U!RxHalfPulse
<1>3. Place \in Nat
    BY PlaceTypes
<1>4. \/ Stays /\ tx.state = 11 /\ Place' = Place + 1
      \/ Turns /\ Place' = 0
    <2>1. tx.state \in 0..12
        BY PlaceTypes
    <2> QED
        BY <1>1, <2>1, Tick DEF Stays, Turns, Wakes
<1>5. CASE Turns /\ Place' = 0
    <2>1. Place' # Lag /\ ~(Place' > Lag) /\ \A i \in 1..5 : ~(i <= Place')
        BY <1>2, <1>5
    <2> QED
        BY <1>2, <2>1 DEF Stop
<1>6. CASE Stays /\ tx.state = 11 /\ Place' = Place + 1
    <2>1. tx.txd = 1
        BY <1>6 DEF Sending
    <2>2. /\ Place = Lag => rx.state = 0
          /\ Place > Lag => Waits
          /\ \A i \in 1..5 : i <= Place => High(i)
          /\ Place < Lag => InBit(12, BitPulse + Place - Lag)
        BY <1>6 DEF Line, Stop, Data
    <2>3. ASSUME NEW i \in 1..5, i <= Place + 1 PROVE High(i)'
        <3>1. CASE i = 1
            BY <2>1, <3>1, HighStep
        <3>2. CASE i # 1
            <4>1. i \in 2..5 /\ i - 1 \in 1..5 /\ i - 1 <= Place
                BY <1>3, <2>3, <3>2
            <4> QED
                BY <2>2, <4>1, HighStep
        <3> QED
            BY <3>1, <3>2
    <2>4. Place + 1 = Lag => rx'.state = 0
        <3> SUFFICES ASSUME Place + 1 = Lag PROVE rx'.state = 0
            OBVIOUS
        <3>1. PICK b \in Nat : b = BitPulse /\ b > 0
            BY UartAssumption
        <3>2. PICK j \in Nat : j = b - 1
            BY <3>1
        <3>3. InBit(12, j) /\ j < BitPulse /\ j + 1 = BitPulse
            <4>1. Place < Lag /\ BitPulse + Place - Lag = j
                BY <1>2, <1>3, <3>1, <3>2
            <4> QED
                BY <2>2, <3>1, <3>2, <4>1
        <3>4. 12 \in 4..12
            OBVIOUS
        <3>5. j + 1 = BitPulse => IF 12 = 12 THEN rx'.state = 0 ELSE NextBit(12 + 1, 0)
            BY <3>3, <3>4, BitStep
        <3> QED
            BY <3>3, <3>5
    <2>5. Place + 1 > Lag => Waits'
        <3>1. CASE Place = Lag
            <4>1. rx.state = 0 /\ rx.state \in 0..3
                BY <2>2, <3>1
            <4>2. IF rx.full THEN rx'.state = 0 /\ ~rx'.en ELSE rx'.state = 1 /\ rx'.en
                BY <4>1, RxMachine
            <4> QED
                BY <4>2 DEF Waits
        <3>2. CASE Place > Lag
            <4>1. 1 \in 1..5 /\ 1 <= Place
                BY <1>2, <1>3, <3>2
            <4> QED
                BY <2>2, <3>2, <4>1, WaitsStep
        <3> QED
            BY <1>2, <1>3, <3>1, <3>2
    <2> QED
        BY <1>2, <1>6, <2>3, <2>4, <2>5 DEF Stop
<1> QED
    BY <1>4, <1>5, <1>6

\* Where the receiver is in the bits, the transmitter sends them.
LEMMA Underneath ==
    ASSUME UartTypes, Sending, Line, rx.state \in 4..12
    PROVE  /\ tx.state \in 2..11 /\ tx.fifo # <<>> /\ ~U!TxPop
           /\ tx.state = 11 => Place < Lag
           /\ U!Sampled /\ rx.state # 12 => tx.txd = Head(tx.fifo)[rx.state - 3]
           /\ rx.count = 0 => rx.state # 12 \/ (tx.state = 10 /\ Place = Lag + 1)
           /\ rx.state = 12 /\ tx.state = 10 => Place >= Lag /\ (Place = Lag + 1 => rx.count = 0)
           /\ tx.state = 10 /\ Place >= Lag => rx.state = 12
           /\ rx.state = 12 => tx.state \in {10, 11}
<1>1. PICK s \in 0..12, p \in Nat, w \in Nat :
         /\ s = tx.state /\ p = Place /\ w = Width /\ p < w
         /\ w = IF s = 11 THEN BitAdjust ELSE BitPulse
    BY PlaceTypes
<1>2. PICK l \in Nat, b \in Nat : l = Lag /\ b = BitPulse /\ l >= 12 /\ l + 7 < b
    BY Constants, UartAssumption
<1>3. /\ s \in 2..10 /\ p >= l => InBit(s + 2, p - l)
      /\ s \in 3..11 /\ p < l => InBit(s + 1, b + p - l)
    BY <1>1, <1>2 DEF Line, Data
<1>4. s \in 2..11 /\ (s = 11 => p < l) /\ (s = 2 => p >= l)
    <2>1. s \notin {12, 0, 1}
        BY <1>1 DEF Line, Rest, Waits
    <2>2. s = 11 => p < l
        BY <1>1, <1>2 DEF Line, Stop, Waits
    <2>3. s = 2 => p >= l
        <3> SUFFICES ASSUME s = 2, p < l PROVE FALSE
            OBVIOUS
        <3>1. p <= 2 \/ p = 3 \/ p = 4 \/ (p > 4 /\ p < l)
            OBVIOUS
        <3>2. /\ p <= 2 => rx.state = 1
              /\ p = 3 => rx.state = 3
              /\ p = 4 => rx.state = 2
              /\ p > 4 /\ p < l => rx.state = 2
            BY <1>1, <1>2 DEF Line, Start
        <3> QED
            BY <3>1, <3>2
    <2> QED
        BY <2>1, <2>2, <2>3
<1>5. tx.fifo # <<>> /\ ~U!TxPop
    BY <1>1, <1>4 DEF Sending, U!TxPop, U!TXD_STOP3
<1>6. PICK q \in 4..12, j \in Nat :
         /\ InBit(q, j) /\ j < b
         /\ p >= l => q = s + 2 /\ j = p - l
         /\ p < l => q = s + 1 /\ j = b + p - l
    <2>1. CASE p >= l
        <3>1. s \in 2..10 /\ s + 2 \in 4..12 /\ p - l \in Nat /\ p - l < b
            BY <1>1, <1>2, <1>4, <2>1
        <3> QED
            BY <1>3, <2>1, <3>1
    <2>2. CASE p < l
        <3>1. s \in 3..11 /\ s + 1 \in 4..12 /\ b + p - l \in Nat /\ b + p - l < b
            BY <1>1, <1>2, <1>4, <2>2
        <3> QED
            BY <1>3, <2>2, <3>1
    <2> QED
        BY <2>1, <2>2
<1>7. rx.state = q /\ (j = 0 => rx.count # 0 /\ rx.count # U!RxBitPulse) /\ (j > 0 => rx.count = j - 1)
    BY <1>6 DEF InBit
<1>8. U!RxBitPulse = b - 2
    BY <1>2, Constants
<1>9. U!Sampled => j = b - 1
    BY <1>2, <1>6, <1>7, <1>8 DEF U!Sampled
<1>10. U!Sampled /\ q # 12 => tx.txd = Head(tx.fifo)[q - 3]
    <2> SUFFICES ASSUME U!Sampled, q # 12 PROVE tx.txd = Head(tx.fifo)[q - 3]
        OBVIOUS
    <2>1. p < l
        BY <1>1, <1>2, <1>4, <1>6, <1>9
    <2>2. s = q - 1 /\ s \in 3..10 /\ s - 2 = q - 3 /\ s # 2
        BY <1>4, <1>6, <2>1
    <2> QED
        BY <1>1, <2>2 DEF Sending
<1>11. rx.count = 0 => j = 1
    BY <1>7
<1>12. j = 1 => p = l + 1
    BY <1>2, <1>6
<1>13. q = 12 => s \in {10, 11} /\ (s = 10 <=> p >= l)
    BY <1>4, <1>6
<1>14. p = l + 1 => j = 1
    BY <1>6
<1>15. s = 10 /\ p >= l => q = 12
    BY <1>6
<1>16. j = 1 => rx.count = 0
    BY <1>7
<1>17. rx.count = 0 => q # 12 \/ (s = 10 /\ p = l + 1)
    BY <1>11, <1>12, <1>13
<1> QED
    BY ONLY <1>1, <1>2, <1>4, <1>5, <1>7, <1>10, <1>13, <1>14, <1>15, <1>16, <1>17

LEMMA Appended ==
    ASSUME NEW S, NEW s \in Seq(S), NEW e \in S, NEW n \in Nat, Len(s) = n, NEW f, \A i \in 1..n : s[i] = f[i],
        e = f[n + 1]
    PROVE  /\ Append(s, e) \in Seq(S) /\ Len(Append(s, e)) = n + 1
           /\ \A i \in 1..(n + 1) : Append(s, e)[i] = f[i]
OBVIOUS

LEMMA BitsStep ==
    ASSUME UartTypes, Sending, Line, BitsSoFar, NEW push \in Seq(Traffic), NEW op,
           tx' = U!Transmitter(push), rx' = U!Receiver(op)
    PROVE  BitsSoFar'
<1>1. CASE rx.state \in 0..3
    <2>1. /\ rx.state = 0 => IF rx.full THEN rx'.state = 0 ELSE rx'.state = 1 /\ rx'.byte = <<>>
          /\ rx.state = 1 => /\ rx'.state = 3 \/ rx'.state = 1
                             /\ rx'.byte = rx.byte
          /\ rx.state = 2 => /\ rx'.state = 4 \/ rx'.state = 2
                             /\ rx'.byte = rx.byte
          /\ rx.state = 3 => rx'.state = 2 /\ rx'.byte = rx.byte
        BY <1>1, RxMachine
    <2>2. rx.state = 0 \/ rx.state = 1 \/ rx.state = 2 \/ rx.state = 3
        BY <1>1
    <2>3. rx'.state \in 1..4 => rx'.byte = <<>>
        BY <2>1, <2>2 DEF BitsSoFar
    <2>4. rx'.state \in 0..4
        BY <2>1, <2>2
    <2>5. \A i \in 1..(4 - 4) : FALSE
        OBVIOUS
    <2> QED
        BY <2>3, <2>4, <2>5 DEF BitsSoFar
<1>2. CASE rx.state \in 4..12
    <2>1. /\ tx.fifo # <<>> /\ ~U!TxPop
          /\ U!Sampled /\ rx.state # 12 => tx.txd = Head(tx.fifo)[rx.state - 3]
        BY <1>2, Underneath
    <2>2. Head(tx'.fifo) = Head(tx.fifo)
        BY <2>1, Kept
    <2>3. PICK q \in 4..12, n \in Nat : q = rx.state /\ n = q - 4
        BY <1>2
    <2>4. rx.byte \in Seq({0, 1}) /\ Len(rx.byte) = n /\ \A i \in 1..n : rx.byte[i] = Head(tx.fifo)[i]
        BY <1>2, <2>3 DEF BitsSoFar, UartTypes
    <2>5. /\ rx'.state = IF ~U!Sampled THEN rx.state ELSE IF rx.state = 12 THEN 0 ELSE rx.state + 1
          /\ rx'.byte = IF U!Sampled /\ rx.state # 12 THEN Append(rx.byte, tx.txd) ELSE rx.byte
        BY <1>2, RxBits
    <2>6. CASE ~U!Sampled
        <3>1. rx'.state = q /\ rx'.byte = rx.byte
            BY <2>3, <2>5, <2>6
        <3> QED
            BY <2>2, <2>3, <2>4, <3>1 DEF BitsSoFar
    <2>7. CASE U!Sampled /\ q # 12
        <3>1. rx'.state = q + 1 /\ rx'.byte = Append(rx.byte, tx.txd)
            BY <2>3, <2>5, <2>7
        <3>2. tx.txd \in {0, 1} /\ tx.txd = Head(tx.fifo)[n + 1]
            <4>1. tx.txd \in {0, 1}
                BY DEF UartTypes
            <4>2. rx.state - 3 = n + 1 /\ rx.state # 12
                BY <2>3, <2>7
            <4> QED
                BY <2>1, <2>7, <4>1, <4>2
        <3>3. /\ Len(Append(rx.byte, tx.txd)) = n + 1
              /\ \A i \in 1..(n + 1) : Append(rx.byte, tx.txd)[i] = Head(tx.fifo)[i]
            BY <2>4, <3>2, Appended
        <3>4. rx'.state - 4 = n + 1 /\ rx'.state \notin 1..3
            BY <2>3, <3>1
        <3> QED
            BY <2>2, <3>1, <3>3, <3>4 DEF BitsSoFar
    <2>8. CASE U!Sampled /\ q = 12
        <3>1. rx'.state = 0
            BY <2>3, <2>5, <2>8
        <3> QED
            BY <3>1 DEF BitsSoFar
    <2> QED
        BY <2>6, <2>7, <2>8
<1>3. rx.state \in 0..12
    BY DEF UartTypes
<1> QED
    BY <1>1, <1>2, <1>3

\* A byte is complete when it is pushed.
LEMMA Complete ==
    ASSUME UartTypes, Sending, Line, BitsSoFar, rx.state = 12
    PROVE  rx.byte = Head(tx.fifo) /\ rx.byte \in Traffic
<1>1. tx.fifo \in Seq(Traffic) /\ tx.fifo # <<>>
    BY Underneath DEF UartTypes
<1>2. PICK h \in Traffic : h = Head(tx.fifo)
    BY <1>1, HeadTailProperties
<1>3. PICK n \in Nat : n = 8
    OBVIOUS
<1>4. h \in [1..n -> {0, 1}]
    BY <1>3, UartAssumption
<1>5. PICK c \in Seq({0, 1}) : c = rx.byte
    BY DEF UartTypes
<1>6. Len(c) = n /\ \A i \in 1..n : c[i] = h[i]
    BY <1>2, <1>3, <1>5 DEF BitsSoFar
<1>7. h \in Seq({0, 1}) /\ Len(h) = n
    BY <1>4, AsSeq
<1>8. c = h
    BY <1>6, <1>7, SeqEqual
<1> QED
    BY <1>2, <1>5, <1>8

LEMMA PushStep ==
    ASSUME UartTypes, Sending, Line, BitsSoFar, Spare, NEW push \in Seq(Traffic), NEW op,
           tx' = U!Transmitter(push), rx' = U!Receiver(op)
    PROVE  /\ U!RxPush => /\ ~Pushed /\ Pushed' /\ tx.fifo # <<>> /\ ~U!TxPop
                          /\ Len(rx.fifo) < Depth /\ rx.byte = Head(tx.fifo) /\ rx.byte \in Traffic
           /\ ~U!RxPush => /\ ~Pushed => ~Pushed'
                           /\ Pushed => (Pushed' /\ ~U!TxPop) \/ (~Pushed' /\ U!TxPop)
           /\ Pushed => tx.fifo # <<>>
           /\ U!TxPop => Pushed
<1>1. PICK s \in 0..12, p \in Nat, w \in Nat :
         /\ s = tx.state /\ p = Place /\ w = Width /\ p < w
         /\ w = IF s = 11 THEN BitAdjust ELSE BitPulse
    BY PlaceTypes
<1>2. PICK l \in Nat, b \in Nat : l = Lag /\ b = BitPulse /\ l >= 12 /\ l + 7 < b
    BY Constants, UartAssumption
<1>3. Lag' = l
    BY <1>2 DEF Lag, U!RxHalfPulse
<1>4. Pushed <=> (s = 10 /\ p >= l + 2) \/ s \in {11, 12}
    BY <1>1, <1>2 DEF Pushed
<1>5. Pushed' <=> (tx'.state = 10 /\ Place' >= l + 2) \/ tx'.state \in {11, 12}
    BY <1>3 DEF Pushed
<1>6. U!TxPop <=> s = 12 /\ tx.pulse /\ tx.fifo # <<>>
    BY <1>1 DEF U!TxPop, U!TXD_STOP3
<1>7. s # 0 => tx.fifo # <<>>
    BY <1>1 DEF Sending
<1>8. /\ s = 0 => U!NextState = 0 \/ U!NextState = 1
      /\ s = 12 => U!NextState = 0
      /\ s \in 1..11 => U!NextState = s + 1
    BY <1>1, NextStates
<1>9. \/ ~tx.pulse /\ tx'.state = s /\ Place' = p + 1 /\ p + 1 < w
      \/ tx.pulse /\ tx'.state = U!NextState /\ p = w - 1 /\ Place' = 0
      \/ ~tx.pulse /\ s = 0 /\ tx'.state = 0
    BY <1>1, Tick DEF Stays, Turns, Wakes
<1>10. U!RxPush <=> s = 10 /\ p = l + 1
    <2>1. ASSUME U!RxPush PROVE s = 10 /\ p = l + 1
        <3>1. rx.state = 12 /\ rx.count = 0 /\ rx.state \in 4..12
            BY <2>1 DEF U!RxPush, U!RXD_STOP
        <3>2. rx.count = 0 => rx.state # 12 \/ (tx.state = 10 /\ Place = Lag + 1)
            BY <3>1, Underneath
        <3> QED
            BY <1>1, <1>2, <3>1, <3>2
    <2>2. ASSUME s = 10, p = l + 1 PROVE U!RxPush
        <3>1. InBit(12, 1)
            <4>1. tx.state \in 2..10 /\ Place >= Lag /\ tx.state + 2 = 12 /\ Place - Lag = 1
                BY <1>1, <1>2, <2>2
            <4>2. InBit(tx.state + 2, Place - Lag)
                BY <4>1 DEF Line, Data
            <4> QED
                BY <4>1, <4>2
        <3>2. rx.state = 12 /\ rx.count = 0
            BY <3>1 DEF InBit
        <3>3. ~Pushed
            BY <1>4, <2>2
        <3>4. ~rx.full
            BY <3>2, <3>3 DEF Spare
        <3> QED
            BY <3>2, <3>4 DEF U!RxPush, U!RXD_STOP
    <2> QED
        BY <2>1, <2>2
<1>11. ASSUME U!RxPush
       PROVE  /\ ~Pushed /\ Pushed' /\ tx.fifo # <<>> /\ ~U!TxPop
              /\ Len(rx.fifo) < Depth /\ rx.byte = Head(tx.fifo) /\ rx.byte \in Traffic
    <2>1. s = 10 /\ p = l + 1
        BY <1>10, <1>11
    <2>2. ~Pushed /\ ~U!TxPop /\ tx.fifo # <<>>
        BY <1>4, <1>6, <1>7, <2>1
    <2>3. rx.state = 12
        BY <1>11 DEF U!RxPush, U!RXD_STOP
    <2>4. p + 1 < w
        BY <1>1, <1>2, <2>1
    <2>5. Pushed'
        BY <1>5, <1>9, <2>1, <2>4
    <2>6. Len(rx.fifo) < Depth
        BY <2>2, <2>3 DEF Spare
    <2> QED
        BY <2>2, <2>3, <2>5, <2>6, Complete
<1>12. ASSUME ~U!RxPush, ~Pushed PROVE ~Pushed'
    <2>1. CASE s = 10
        <3>1. p < l + 1
            BY <1>4, <1>10, <1>12, <2>1
        <3>2. p # w - 1
            BY <1>1, <1>2, <2>1, <3>1
        <3> QED
            BY <1>5, <1>9, <2>1, <3>1, <3>2
    <2>2. CASE s # 10
        <3>1. s \in 0..9
            BY <1>4, <1>12, <2>2
        <3>2. tx'.state \in 0..9 \/ (tx'.state = 10 /\ Place' = 0)
            BY <1>8, <1>9, <3>1
        <3> QED
            BY <1>5, <3>2
    <2> QED
        BY <2>1, <2>2
<1>13. ASSUME Pushed PROVE (Pushed' /\ ~U!TxPop) \/ (~Pushed' /\ U!TxPop)
    <2>1. CASE s = 12
        <3>1. CASE tx.pulse
            BY <1>5, <1>6, <1>7, <1>8, <1>9, <2>1, <3>1
        <3>2. CASE ~tx.pulse
            BY <1>5, <1>6, <1>9, <2>1, <3>2
        <3> QED
            BY <3>1, <3>2
    <2>2. CASE s = 11
        BY <1>5, <1>6, <1>8, <1>9, <2>2
    <2>3. CASE s = 10
        BY <1>4, <1>5, <1>6, <1>8, <1>9, <1>13, <2>3
    <2> QED
        BY <1>4, <1>13, <2>1, <2>2, <2>3
<1> QED
    BY ONLY <1>4, <1>6, <1>7, <1>11, <1>12, <1>13
-----------------------------------------------------------------------------
(* The FIFO of the receiver, and who reads it.                             *)

Popped(op) == IF op = "DR" /\ ~rx.empty /\ rx.fifo # <<>> THEN Tail(rx.fifo) ELSE rx.fifo

LEMMA FifoStep ==
    ASSUME UartTypes, Sending, Line, BitsSoFar, Spare, NEW push \in Seq(Traffic), NEW op,
           tx' = U!Transmitter(push), rx' = U!Receiver(op)
    PROVE  /\ Popped(op) \in Seq(Traffic) /\ Len(Popped(op)) <= Len(rx.fifo)
           /\ ~U!RxPush => rx'.fifo = Popped(op)
           /\ U!RxPush => rx'.fifo = Popped(op) \o <<rx.byte>> /\ rx.byte \in Traffic
           /\ rx'.fifo \in Seq(Traffic)
           /\ Len(rx'.fifo) = Len(Popped(op)) + IF U!RxPush THEN 1 ELSE 0
<1>1. rx.fifo \in Seq(Traffic)
    BY DEF UartTypes
<1>2. Popped(op) \in Seq(Traffic) /\ Len(Popped(op)) <= Len(rx.fifo)
    <2>1. CASE rx.fifo = <<>>
        BY <1>1, <2>1 DEF Popped
    <2>2. CASE rx.fifo # <<>>
        <3>1. Tail(rx.fifo) \in Seq(Traffic) /\ Len(Tail(rx.fifo)) = Len(rx.fifo) - 1 /\ Len(rx.fifo) \in Nat
            BY <1>1, <2>2, HeadTailProperties
        <3> QED
            BY <1>1, <3>1 DEF Popped
    <2> QED
        BY <2>1, <2>2
<1>3. rx'.fifo = Popped(op) \o IF U!RxPush THEN <<rx.byte>> ELSE <<>>
    BY RxStep DEF Popped
<1>4. U!RxPush => rx.byte \in Traffic
    BY PushStep
<1> HIDE DEF Popped
<1>5. CASE U!RxPush
    BY <1>2, <1>3, <1>4, <1>5
<1>6. CASE ~U!RxPush
    <2>1. rx'.fifo = Popped(op)
        BY <1>2, <1>3, <1>6
    <2>2. Len(Popped(op)) + 0 = Len(Popped(op))
        BY <1>2
    <2> QED
        BY <1>2, <1>6, <2>1, <2>2
<1> QED
    BY <1>5, <1>6

LEMMA SpareStep ==
    ASSUME UartTypes, Sending, Line, BitsSoFar, Spare, NEW push \in Seq(Traffic), NEW op,
           tx' = U!Transmitter(push), rx' = U!Receiver(op)
    PROVE  Spare'
<1>1. PICK n \in Nat, m \in Nat : n = Len(rx.fifo) /\ m = Len(rx'.fifo) /\ m <= n + (IF U!RxPush THEN 1 ELSE 0)
    <2>1. rx.fifo \in Seq(Traffic)
        BY DEF UartTypes
    <2>2. /\ Popped(op) \in Seq(Traffic) /\ Len(Popped(op)) <= Len(rx.fifo)
          /\ rx'.fifo \in Seq(Traffic)
          /\ Len(rx'.fifo) = Len(Popped(op)) + IF U!RxPush THEN 1 ELSE 0
        BY FifoStep
    <2>3. Len(rx.fifo) \in Nat /\ Len(rx'.fifo) \in Nat /\ Len(Popped(op)) \in Nat
        BY <2>1, <2>2
    <2> QED
        BY <2>2, <2>3
<1>2. PICK d \in Nat : d = Depth
    BY UartAssumption
<1>3. rx'.full <=> n = d
    BY <1>1, <1>2, RxStep
<1>4. /\ n <= d
      /\ rx.state = 0 /\ ~rx.full => n < d
      /\ rx.state \in 1..11 \/ (rx.state = 12 /\ ~Pushed) => n < d
    BY <1>1, <1>2 DEF Spare
<1>5. CASE U!RxPush
    <2>1. rx.state = 12 /\ rx.count = 0 /\ rx.state \in 4..12
        BY <1>5 DEF U!RxPush, U!RXD_STOP
    <2>2. ~U!Sampled
        BY <2>1, Constants DEF U!Sampled
    <2>3. rx'.state = 12
        <3>1. rx'.state = IF ~U!Sampled THEN rx.state ELSE IF rx.state = 12 THEN 0 ELSE rx.state + 1
            BY <2>1, RxBits
        <3> QED
            BY <2>1, <2>2, <3>1
    <2>4. Pushed' /\ n < d
        BY <1>1, <1>2, <1>5, PushStep
    <2>5. m <= d
        BY <1>1, <1>5, <2>4
    <2> QED
        BY <1>1, <1>2, <2>3, <2>4, <2>5 DEF Spare
<1>6. CASE ~U!RxPush
    <2>1. m <= n
        BY <1>1, <1>6
    <2>2. rx'.state = 0 /\ ~rx'.full => m < d
        BY <1>3, <1>4, <2>1
    <2>3. rx'.state \in 1..11 \/ (rx'.state = 12 /\ ~Pushed') => n < d
        <3>1. CASE rx.state = 0
            <4>1. rx.state \in 0..3
                BY <3>1
            <4>2. rx.full => rx'.state = 0
                BY <3>1, <4>1, RxMachine
            <4> QED
                BY <1>4, <3>1, <4>2
        <3>2. CASE rx.state \in 1..11
            BY <1>4, <3>2
        <3>3. CASE rx.state = 12
            <4>1. rx.state \in 4..12
                BY <3>3
            <4>2. ~U!TxPop
                BY <4>1, Underneath
            <4>3. rx'.state = 12 \/ rx'.state = 0
                BY <3>3, <4>1, RxBits
            <4>4. Pushed => Pushed'
                BY <1>6, <4>2, PushStep
            <4> QED
                BY <1>4, <3>3, <4>3, <4>4
        <3>4. rx.state \in 0..12
            BY DEF UartTypes
        <3> QED
            BY <3>1, <3>2, <3>3, <3>4
    <2> QED
        BY <1>1, <1>2, <1>3, <1>4, <2>1, <2>2, <2>3 DEF Spare
<1> QED
    BY <1>5, <1>6

LEMMA ReadsStep ==
    ASSUME UartTypes, Sending, Line, BitsSoFar, Spare, Reads, NEW push \in Seq(Traffic),
           NEW op \in {"none", "FR", "DR"}, tx' = U!Transmitter(push), rx' = U!Receiver(op),
           op # "none" => ~bus.ack, op = "DR" => bus.polled,
           bus' = [ack |-> op # "none", polled |-> (op = "FR" /\ ~rx.empty) \/ (op = "none" /\ bus.polled)]
    PROVE  Reads'
<1>1. rx'.empty <=> rx.fifo = <<>>
    BY RxStep
<1>2. bus'.ack <=> op # "none"
    OBVIOUS
<1>3. bus'.polled <=> (op = "FR" /\ ~rx.empty) \/ (op = "none" /\ bus.polled)
    OBVIOUS
<1>4. op # "DR" /\ rx.fifo # <<>> => rx'.fifo # <<>>
    <2> SUFFICES ASSUME op # "DR", rx.fifo # <<>> PROVE rx'.fifo # <<>>
        OBVIOUS
    <2>1. Popped(op) = rx.fifo
        BY DEF Popped
    <2>2. CASE U!RxPush
        <3>1. rx'.fifo = Popped(op) \o <<rx.byte>> /\ rx.byte \in Traffic /\ Popped(op) \in Seq(Traffic)
            BY <2>2, FifoStep
        <3> QED
            BY <3>1
    <2>3. CASE ~U!RxPush
        BY <2>1, <2>3, FifoStep
    <2> QED
        BY <2>2, <2>3
<1>5. bus'.polled => op # "DR" /\ rx.fifo # <<>>
    BY <1>3 DEF Reads
<1>6. ~bus'.ack /\ ~rx'.empty => rx'.fifo # <<>>
    BY <1>1, <1>2, <1>4
<1> QED
    BY <1>1, <1>4, <1>5, <1>6 DEF Reads

\* Concatenation is associative: both sides have the same bytes in the same places.
Regrouped(a, b, c) == (a \o b) \o c = a \o (b \o c)

LEMMA Rejoined ==
    ASSUME NEW S, NEW a \in Seq(S), NEW b \in Seq(S), NEW c \in Seq(S)
    PROVE  Regrouped(a, b, c)
<1>1. (a \o b) \o c = a \o (b \o c)
    OBVIOUS
<1> QED
    BY <1>1 DEF Regrouped

HandedOver(g, f, u) == Append(g, Head(f)) \o (Tail(f) \o u) = g \o (f \o u)
LandedIn(f, u, p) == (f \o <<Head(u)>>) \o (Tail(u) \o p) = (f \o u) \o p

LEMMA Handed ==
    ASSUME NEW S, NEW g \in Seq(S), NEW f \in Seq(S), NEW u \in Seq(S), f # <<>>
    PROVE  HandedOver(g, f, u)
<1>1. Append(g, Head(f)) \in Seq(S) /\ Head(f) \in S /\ Tail(f) \in Seq(S) /\ f = <<Head(f)>> \o Tail(f)
    BY ONLY g \in Seq(S), f \in Seq(S), f # <<>>
<1>2. PICK h \in S, r \in Seq(S) : h = Head(f) /\ r = Tail(f) /\ f = <<h>> \o r
    BY ONLY <1>1, Zenon
<1>3. Append(g, h) = g \o <<h>> /\ <<h>> \in Seq(S) /\ r \o u \in Seq(S)
    BY ONLY g \in Seq(S), h \in S, r \in Seq(S), u \in Seq(S)
<1>4. Regrouped(g, <<h>>, r \o u) /\ Regrouped(<<h>>, r, u)
    BY ONLY <1>3, g \in Seq(S), r \in Seq(S), u \in Seq(S), Rejoined, Zenon
<1>5. (g \o <<h>>) \o (r \o u) = g \o (<<h>> \o (r \o u)) /\ (<<h>> \o r) \o u = <<h>> \o (r \o u)
    BY ONLY <1>4, Zenon DEF Regrouped
<1> QED
    BY ONLY <1>1, <1>2, <1>3, <1>5, Zenon DEF HandedOver

LEMMA Received ==
    ASSUME NEW S, NEW f \in Seq(S), NEW u \in Seq(S), NEW p \in Seq(S), u # <<>>
    PROVE  LandedIn(f, u, p)
<1>1. PICK h \in S, r \in Seq(S) : h = Head(u) /\ r = Tail(u) /\ u = <<h>> \o r
    <2>1. Head(u) \in S /\ Tail(u) \in Seq(S) /\ u = <<Head(u)>> \o Tail(u)
        BY ONLY u \in Seq(S), u # <<>>
    <2> QED
        BY ONLY <2>1, Zenon
<1>2. <<h>> \in Seq(S) /\ r \o p \in Seq(S) /\ <<h>> \o r \in Seq(S)
    BY ONLY h \in S, r \in Seq(S), p \in Seq(S)
<1>3. Regrouped(f, <<h>>, r \o p) /\ Regrouped(<<h>>, r, p) /\ Regrouped(f, <<h>> \o r, p)
    BY ONLY <1>2, f \in Seq(S), r \in Seq(S), p \in Seq(S), Rejoined, Zenon
<1>4. /\ (f \o <<h>>) \o (r \o p) = f \o (<<h>> \o (r \o p))
      /\ (<<h>> \o r) \o p = <<h>> \o (r \o p)
      /\ (f \o (<<h>> \o r)) \o p = f \o ((<<h>> \o r) \o p)
    BY ONLY <1>3, Zenon DEF Regrouped
<1> QED
    BY ONLY <1>1, <1>4, Zenon DEF LandedIn

LEMMA UnsentStep ==
    ASSUME UartTypes, Sending, Line, BitsSoFar, Spare, NEW push \in Seq(Traffic), NEW op,
           tx' = U!Transmitter(push), rx' = U!Receiver(op)
    PROVE  /\ Unsent \in Seq(Traffic)
           /\ ~U!RxPush => Unsent' = Unsent \o push
           /\ U!RxPush => Unsent # <<>> /\ Unsent' = Tail(Unsent) \o push /\ rx.byte = Head(Unsent)
<1>1. /\ U!RxPush => /\ ~Pushed /\ Pushed' /\ tx.fifo # <<>> /\ ~U!TxPop /\ rx.byte = Head(tx.fifo)
      /\ ~U!RxPush => /\ ~Pushed => ~Pushed'
                      /\ Pushed => (Pushed' /\ ~U!TxPop) \/ (~Pushed' /\ U!TxPop)
      /\ Pushed => tx.fifo # <<>>
      /\ U!TxPop => Pushed
    BY PushStep
<1>2. tx'.fifo = (IF U!TxPop THEN Tail(tx.fifo) ELSE tx.fifo) \o push
    BY TxStep
<1>3. tx.fifo \in Seq(Traffic)
    BY DEF UartTypes
<1>4. tx.fifo # <<>> => Tail(tx.fifo) \in Seq(Traffic)
    BY <1>3
<1>5. tx.fifo # <<>> /\ ~U!TxPop => Tail(tx'.fifo) = Tail(tx.fifo) \o push
    BY Kept
<1>6. Unsent \in Seq(Traffic)
    BY <1>1, <1>3, <1>4 DEF Unsent
<1>7. Unsent' = IF Pushed' THEN Tail(tx'.fifo) ELSE tx'.fifo
    BY DEF Unsent
<1>8. CASE U!RxPush
    BY <1>1, <1>5, <1>6, <1>7, <1>8 DEF Unsent
<1>9. CASE ~U!RxPush /\ ~Pushed
    BY <1>1, <1>2, <1>6, <1>7, <1>9 DEF Unsent
<1>10. CASE ~U!RxPush /\ Pushed
    BY <1>1, <1>2, <1>5, <1>6, <1>7, <1>10 DEF Unsent
<1> QED
    BY <1>8, <1>9, <1>10

LEMMA StreamStep ==
    ASSUME UartTypes, Sending, Line, BitsSoFar, Spare, Reads, Stream, NEW push \in Seq(Traffic),
           NEW op \in {"none", "FR", "DR"}, tx' = U!Transmitter(push), rx' = U!Receiver(op),
           op = "DR" => bus.polled, written' = written \o push,
           gotten' = IF op = "DR" THEN Append(gotten, IF rx.fifo = <<>> THEN <<>> ELSE Head(rx.fifo)) ELSE gotten
    PROVE  Stream' /\ gotten' \in Seq(Traffic)
<1>1. PICK g \in Seq(Traffic), f \in Seq(Traffic), u \in Seq(Traffic), w \in Seq(Traffic) :
         g = gotten /\ f = rx.fifo /\ u = Unsent /\ w = written
    BY UnsentStep DEF UartTypes
<1>2. w = g \o (f \o u)
    BY <1>1 DEF Stream
<1>3. PICK h \in Seq(Traffic), e \in Seq(Traffic) :
         /\ h = gotten' /\ e = Popped(op) /\ h \o (e \o u) = g \o (f \o u)
         /\ h \o e = g \o f
    <2>1. CASE op = "DR"
        <3>1. f # <<>> /\ ~rx.empty
            BY <1>1, <2>1 DEF Reads
        <3>2. Popped(op) = Tail(f) /\ gotten' = Append(g, Head(f))
            BY <1>1, <2>1, <3>1 DEF Popped
        <3>3. HandedOver(g, f, u)
            BY ONLY <3>1, g \in Seq(Traffic), f \in Seq(Traffic), u \in Seq(Traffic), Handed, Zenon
        <3>4. Tail(f) \in Seq(Traffic) /\ <<>> \in Seq(Traffic) /\ Append(g, Head(f)) \in Seq(Traffic)
            BY ONLY <3>1, f \in Seq(Traffic), g \in Seq(Traffic)
        <3>5. HandedOver(g, f, <<>>)
            BY ONLY <3>1, <3>4, g \in Seq(Traffic), f \in Seq(Traffic), Handed, Zenon
        <3>6. Tail(f) \o <<>> = Tail(f) /\ f \o <<>> = f
            BY ONLY <3>4, f \in Seq(Traffic)
        <3>7. /\ Append(g, Head(f)) \o (Tail(f) \o u) = g \o (f \o u)
              /\ Append(g, Head(f)) \o Tail(f) = g \o f
            BY ONLY <3>3, <3>5, <3>6, Zenon DEF HandedOver
        <3> QED
            BY ONLY <3>2, <3>4, <3>7, Zenon
    <2>2. CASE op # "DR"
        <3>1. Popped(op) = f /\ gotten' = g
            BY <1>1, <2>2 DEF Popped
        <3> QED
            BY <3>1
    <2> QED
        BY <2>1, <2>2
<1>4. written' = g \o ((f \o u) \o push)
    <2>1. f \o u \in Seq(Traffic)
        OBVIOUS
    <2>2. written' = (g \o (f \o u)) \o push
        BY <1>1, <1>2
    <2>3. Regrouped(g, f \o u, push)
        BY ONLY <2>1, g \in Seq(Traffic), push \in Seq(Traffic), Rejoined, Zenon
    <2> QED
        BY ONLY <2>2, <2>3, Zenon DEF Regrouped
<1>5. rx'.fifo \o Unsent' = (e \o u) \o push
    <2>1. CASE U!RxPush
        <3>1. u # <<>> /\ Unsent' = Tail(u) \o push /\ rx.byte = Head(u)
            BY <1>1, <2>1, UnsentStep
        <3>2. rx'.fifo = e \o <<Head(u)>>
            BY <1>3, <2>1, <3>1, FifoStep
        <3>3. LandedIn(e, u, push)
            BY ONLY <3>1, e \in Seq(Traffic), u \in Seq(Traffic), push \in Seq(Traffic), Received, Zenon
        <3> QED
            BY ONLY <3>1, <3>2, <3>3, Zenon DEF LandedIn
    <2>2. CASE ~U!RxPush
        <3>1. Unsent' = u \o push
            BY <1>1, <2>2, UnsentStep
        <3>2. rx'.fifo = e
            BY <1>3, <2>2, FifoStep
        <3>3. Regrouped(e, u, push)
            BY ONLY e \in Seq(Traffic), u \in Seq(Traffic), push \in Seq(Traffic), Rejoined, Zenon
        <3> QED
            BY ONLY <3>1, <3>2, <3>3, Zenon DEF Regrouped
    <2> QED
        BY <2>1, <2>2
<1>6. h \o ((e \o u) \o push) = g \o ((f \o u) \o push)
    <2>1. e \o u \in Seq(Traffic) /\ f \o u \in Seq(Traffic)
        OBVIOUS
    <2>2. Regrouped(h, e \o u, push) /\ Regrouped(g, f \o u, push)
        BY ONLY <2>1, h \in Seq(Traffic), g \in Seq(Traffic), push \in Seq(Traffic), Rejoined, Zenon
    <2> QED
        BY ONLY <1>3, <2>2, Zenon DEF Regrouped
<1>7. Stream'
    BY ONLY <1>3, <1>4, <1>5, <1>6, Zenon DEF Stream
<1> QED
    BY ONLY <1>3, <1>7, Zenon
-----------------------------------------------------------------------------
(* The registers keep their types.                                         *)

TxRegisters == [fifo : Seq(Traffic), state : 0..12, txd : {0, 1}, pulse : BOOLEAN, count : Nat,
                cts : [1..4 -> {0, 1}]]
RxRegisters == [fifo : Seq(Traffic), empty : BOOLEAN, full : BOOLEAN, state : 0..12, byte : Seq({0, 1}),
                en : BOOLEAN, count : Nat, restart : BOOLEAN, d : [1..5 -> {0, 1}]]

LEMMA TxTypes ==
    ASSUME UartTypes, Sending, NEW push \in Seq(Traffic), tx' = U!Transmitter(push)
    PROVE  tx' \in TxRegisters
<1>1. tx'.cts \in [1..4 -> {0, 1}] /\ tx'.state \in 0..12 /\ tx'.count \in Nat
    BY TxStep, Tick
<1>2. tx'.fifo \in Seq(Traffic)
    <2>1. tx.fifo \in Seq(Traffic)
        BY DEF UartTypes
    <2>2. U!TxPop => tx.fifo # <<>>
        BY DEF U!TxPop
    <2>3. tx'.fifo = (IF U!TxPop THEN Tail(tx.fifo) ELSE tx.fifo) \o push
        BY TxStep
    <2> QED
        BY ONLY <2>1, <2>2, <2>3, push \in Seq(Traffic)
<1>3. tx'.txd \in {0, 1}
    <2>1. /\ tx'.state # 0 => tx'.fifo # <<>>
          /\ tx'.txd = IF tx'.state = 2 THEN 0
                       ELSE IF tx'.state \in 3..10 THEN Head(tx'.fifo)[tx'.state - 2] ELSE 1
        BY SendingStep DEF Sending
    <2>2. CASE tx'.state \in 3..10
        <3>1. Head(tx'.fifo) \in Traffic
            BY ONLY <1>2, <2>1, <2>2
        <3>2. PICK h \in [1..8 -> {0, 1}], s \in 3..10 : h = Head(tx'.fifo) /\ s = tx'.state
            BY <3>1, <2>2, UartAssumption
        <3>3. tx'.txd = h[s - 2]
            BY ONLY <2>1, <2>2, <3>2
        <3>4. s - 2 \in 1..8
            OBVIOUS
        <3> QED
            BY ONLY <3>3, <3>4, h \in [1..8 -> {0, 1}]
    <2> QED
        BY ONLY <2>1, <2>2
<1>4. PICK p \in BOOLEAN :
         U!Transmitter(push) = [fifo |-> tx'.fifo, state |-> tx'.state, txd |-> tx'.txd, pulse |-> p,
                              count |-> tx'.count, cts |-> tx'.cts]
    BY DEF U!Transmitter, U!PulseEnd
<1> QED
    BY ONLY <1>1, <1>2, <1>3, <1>4, tx' = U!Transmitter(push) DEF TxRegisters

LEMMA RxTypes ==
    ASSUME UartTypes, Sending, Line, BitsSoFar, Spare, NEW push \in Seq(Traffic), NEW op,
           tx' = U!Transmitter(push), rx' = U!Receiver(op)
    PROVE  rx' \in RxRegisters
<1>1. PICK r : r = Before(op) /\ rx' = U!Machine(r)
    BY DEF U!Receiver, Before
<1>2. PICK v \in RxRegisters : v = rx
    BY DEF UartTypes, RxRegisters
<1>3. PICK f \in Seq(Traffic), e \in BOOLEAN, g \in BOOLEAN, c \in Nat, d \in [1..5 -> {0, 1}] :
         r = [v EXCEPT !.fifo = f, !.full = g, !.empty = e, !.count = c, !.d = d]
    <2>1. Before(op).fifo = rx'.fifo
        BY RxStep DEF Before, UartTypes
    <2>2. rx'.fifo \in Seq(Traffic)
        BY FifoStep
    <2>3. PICK c \in Nat : c = IF rx.restart THEN 0 ELSE rx.count + 1
        BY DEF UartTypes
    <2>4. PICK e \in BOOLEAN, g \in BOOLEAN : g = (Len(rx.fifo) = Depth) /\ e = (rx.fifo = <<>>)
        OBVIOUS
    <2>5. Before(op) = [v EXCEPT !.fifo = Before(op).fifo, !.full = (Len(rx.fifo) = Depth),
                           !.empty = (rx.fifo = <<>>), !.count = IF rx.restart THEN 0 ELSE rx.count + 1,
                           !.d = <<tx.txd>> \o SubSeq(rx.d, 1, 4)]
        BY <1>2, <2>1 DEF Before, UartTypes
    <2>6. r.d = <<tx.txd>> \o SubSeq(rx.d, 1, 4)
        BY <1>1 DEF Before, UartTypes
    <2>7. rx'.d = r.d
        <3>1. DOMAIN r = {"fifo", "empty", "full", "state", "byte", "en", "count", "restart", "d"}
            BY <1>1 DEF Before, UartTypes
        <3>2. rx.state \in {0, 1, 2, 3} \cup 4..11 \cup {12}
            BY DEF UartTypes
        <3> QED
            BY <1>1, <3>1, <3>2 DEF U!Machine, U!RxdIdle, U!RXD_IDLE, U!RXD_START, U!RXD_START_MID, U!RXD_START_MID1,
                                    U!RXD_DATA, U!RXD_STOP
    <2>8. PICK d \in [1..5 -> {0, 1}] : d = r.d
        BY <2>7, RxStep
    <2>9. r = [v EXCEPT !.fifo = rx'.fifo, !.full = g, !.empty = e, !.count = c, !.d = d]
        BY ONLY <1>1, <2>1, <2>3, <2>4, <2>5, <2>6, <2>8
    <2> QED
        BY ONLY <2>2, <2>9, Zenon
<1>4. r \in RxRegisters
    BY ONLY <1>3 DEF RxRegisters
<1>5. rx.state \in 0..12 /\ r.byte = rx.byte /\ r.state = rx.state
    BY <1>2, <1>3 DEF UartTypes, RxRegisters
<1>6. tx.txd \in {0, 1} /\ (rx.state \in 4..11 => Append(r.byte, tx.txd) \in Seq({0, 1}))
    BY <1>5 DEF UartTypes
<1> USE DEF U!RXD_IDLE, U!RXD_START, U!RXD_START_MID, U!RXD_START_MID1, U!RXD_DATA, U!RXD_STOP
<1>7. CASE rx.state = 0
    <2>1. rx' = U!RxdIdle(r)
        BY <1>1, <1>7 DEF U!Machine
    <2>2. [r EXCEPT !.en = FALSE] \in RxRegisters
        BY ONLY <1>4 DEF RxRegisters
    <2>3. PICK q \in 0..12, s \in Seq({0, 1}), b \in BOOLEAN : q = 1 /\ s = <<>> /\ b = TRUE
        <3>1. 1 \in 0..12 /\ <<>> \in Seq({0, 1}) /\ TRUE \in BOOLEAN
            OBVIOUS
        <3> QED
            BY ONLY <3>1, Zenon
    <2>4. [r EXCEPT !.state = q, !.en = b, !.restart = b, !.byte = s] \in RxRegisters
        BY ONLY <1>4, q \in 0..12, s \in Seq({0, 1}), b \in BOOLEAN DEF RxRegisters
    <2>5. [r EXCEPT !.state = q, !.en = b, !.restart = b, !.byte = s]
             = [r EXCEPT !.state = 1, !.en = TRUE, !.restart = TRUE, !.byte = <<>>]
        BY ONLY <2>3, Zenon
    <2> QED
        BY ONLY <2>1, <2>2, <2>4, <2>5 DEF U!RxdIdle
<1>8. CASE rx.state = 1
    <2>1. PICK q \in 0..12, b \in BOOLEAN, m \in Nat, x \in BOOLEAN : q = 3 /\ b = TRUE /\ m = 0 /\ x = FALSE
        <3>1. 3 \in 0..12 /\ 0 \in Nat /\ TRUE \in BOOLEAN /\ FALSE \in BOOLEAN
            OBVIOUS
        <3> QED
            BY ONLY <3>1, Zenon
    <2>2. [r EXCEPT !.state = q, !.restart = b] \in RxRegisters
        BY ONLY <1>4, q \in 0..12, b \in BOOLEAN DEF RxRegisters
    <2>3. [r EXCEPT !.restart = x, !.count = m] \in RxRegisters
        BY ONLY <1>4, m \in Nat, x \in BOOLEAN DEF RxRegisters
    <2>4. /\ [r EXCEPT !.state = q, !.restart = b] = [r EXCEPT !.state = 3, !.restart = TRUE]
          /\ [r EXCEPT !.restart = x, !.count = m] = [r EXCEPT !.restart = FALSE, !.count = 0]
        BY ONLY <2>1, Zenon
    <2>5. rx' = IF U!rx_start THEN [r EXCEPT !.state = 3, !.restart = TRUE]
                ELSE [r EXCEPT !.restart = FALSE, !.count = 0]
        BY <1>1, <1>8 DEF U!Machine
    <2> QED
        BY ONLY <2>2, <2>3, <2>4, <2>5
<1>9. CASE rx.state = 3
    <2>1. PICK q \in 0..12 : q = 2
        OBVIOUS
    <2>2. [r EXCEPT !.state = q] \in RxRegisters
        BY ONLY <1>4, q \in 0..12 DEF RxRegisters
    <2>3. rx' = [r EXCEPT !.state = 2]
        BY <1>1, <1>9 DEF U!Machine
    <2> QED
        BY ONLY <2>1, <2>2, <2>3
<1>10. CASE rx.state = 2
    <2>1. PICK b \in BOOLEAN, q \in 0..12 :
              b = (rx.count = U!RxHalfPulse) /\ q = IF rx.count = U!RxHalfPulse THEN 4 ELSE r.state
        <3>1. PICK b \in BOOLEAN : b = (rx.count = U!RxHalfPulse)
            OBVIOUS
        <3>2. (IF rx.count = U!RxHalfPulse THEN 4 ELSE r.state) \in 0..12
            BY ONLY <1>5, <1>10
        <3> QED
            BY ONLY <3>1, <3>2, Zenon
    <2>2. U!Machine(r) = [r EXCEPT !.restart = rx.count = U!RxHalfPulse,
                           !.state = IF rx.count = U!RxHalfPulse THEN 4 ELSE @]
        BY <1>10 DEF U!Machine
    <2>3. [r EXCEPT !.restart = rx.count = U!RxHalfPulse, !.state = IF rx.count = U!RxHalfPulse THEN 4 ELSE @]
          = [r EXCEPT !.restart = b, !.state = q]
        BY ONLY <1>3, <2>1
    <2>4. [r EXCEPT !.restart = b, !.state = q] \in RxRegisters
        BY ONLY <1>4, b \in BOOLEAN, q \in 0..12 DEF RxRegisters
    <2> QED
        BY ONLY <1>1, <2>2, <2>3, <2>4
<1>11. CASE rx.state \in 4..11
    <2>1. PICK b \in BOOLEAN, q \in 0..12, s \in Seq({0, 1}) :
             /\ b = U!Sampled /\ q = (IF b THEN r.state + 1 ELSE r.state)
             /\ s = (IF b THEN Append(r.byte, tx.txd) ELSE r.byte)
        <3>1. PICK b \in BOOLEAN : b = U!Sampled
            BY DEF U!Sampled
        <3>2. (IF b THEN r.state + 1 ELSE r.state) \in 0..12
            BY ONLY <1>5, <1>11
        <3>3. (IF b THEN Append(r.byte, tx.txd) ELSE r.byte) \in Seq({0, 1})
            BY <1>4, <1>6, <1>11 DEF RxRegisters
        <3> QED
            BY ONLY <3>1, <3>2, <3>3, Zenon
    <2>2. U!Machine(r) = [r EXCEPT !.restart = U!Sampled, !.state = IF U!Sampled THEN @ + 1 ELSE @,
                           !.byte = IF U!Sampled THEN Append(@, tx.txd) ELSE @]
        BY <1>11 DEF U!Machine
    <2>3. [r EXCEPT !.restart = U!Sampled, !.state = IF U!Sampled THEN @ + 1 ELSE @,
              !.byte = IF U!Sampled THEN Append(@, tx.txd) ELSE @]
          = [r EXCEPT !.restart = b, !.state = q, !.byte = s]
        BY ONLY <1>3, <2>1
    <2>4. [r EXCEPT !.restart = b, !.state = q, !.byte = s] \in RxRegisters
        BY ONLY <1>4, b \in BOOLEAN, q \in 0..12, s \in Seq({0, 1}) DEF RxRegisters
    <2> QED
        BY ONLY <1>1, <2>2, <2>3, <2>4
<1>12. CASE rx.state = 12
    <2>1. PICK b \in BOOLEAN, q \in 0..12 : b = U!Sampled /\ q = IF U!Sampled THEN 0 ELSE r.state
        <3>1. PICK b \in BOOLEAN : b = U!Sampled
            BY DEF U!Sampled
        <3>2. (IF U!Sampled THEN 0 ELSE r.state) \in 0..12
            BY ONLY <1>5
        <3> QED
            BY ONLY <3>1, <3>2, Zenon
    <2>2. U!Machine(r) = [r EXCEPT !.restart = U!Sampled, !.state = IF U!Sampled THEN 0 ELSE @]
        BY <1>12 DEF U!Machine
    <2>3. [r EXCEPT !.restart = U!Sampled, !.state = IF U!Sampled THEN 0 ELSE @]
              = [r EXCEPT !.restart = b, !.state = q]
        BY ONLY <1>3, <2>1
    <2>4. [r EXCEPT !.restart = b, !.state = q] \in RxRegisters
        BY ONLY <1>4, b \in BOOLEAN, q \in 0..12 DEF RxRegisters
    <2> QED
        BY ONLY <1>1, <2>2, <2>3, <2>4
<1> QED
    BY <1>5, <1>7, <1>8, <1>9, <1>10, <1>11, <1>12

LEMMA Kinds ==
    UartTypes <=> /\ tx \in TxRegisters /\ rx \in RxRegisters /\ bus \in [ack : BOOLEAN, polled : BOOLEAN]
                  /\ written \in Seq(Traffic) /\ gotten \in Seq(Traffic)
BY DEF UartTypes, TxRegisters, RxRegisters

LEMMA TypesStep ==
    ASSUME UartTypes, Sending, Line, BitsSoFar, Spare, NEW push \in Seq(Traffic), NEW op,
           tx' = U!Transmitter(push), rx' = U!Receiver(op),
           bus' = [ack |-> op # "none", polled |-> (op = "FR" /\ ~rx.empty) \/ (op = "none" /\ bus.polled)],
           written' = written \o push, gotten' \in Seq(Traffic)
    PROVE  UartTypes'
<1>1. tx' \in TxRegisters /\ rx' \in RxRegisters
    BY TxTypes, RxTypes
<1>2. written' \in Seq(Traffic)
    BY DEF UartTypes
<1>3. bus' \in [ack : BOOLEAN, polled : BOOLEAN]
    <2>1. PICK a \in BOOLEAN, b \in BOOLEAN :
              a = (op # "none") /\ b = ((op = "FR" /\ ~rx.empty) \/ (op = "none" /\ bus.polled))
        <3>1. PICK a \in BOOLEAN : a = (op # "none")
            OBVIOUS
        <3>2. PICK b \in BOOLEAN : b = ((op = "FR" /\ ~rx.empty) \/ (op = "none" /\ bus.polled))
            OBVIOUS
        <3> QED
            BY ONLY <3>1, <3>2, Zenon
    <2>2. bus' = [ack |-> a, polled |-> b]
        BY ONLY <2>1, bus' = [ack |-> op # "none", polled |-> (op = "FR" /\ ~rx.empty) \/ (op = "none" /\ bus.polled)]
    <2> QED
        BY ONLY <2>2, a \in BOOLEAN, b \in BOOLEAN
<1> QED
    BY ONLY <1>1, <1>2, <1>3, gotten' \in Seq(Traffic) DEF UartTypes, TxRegisters, RxRegisters

\* Every clock keeps the invariant.
LEMMA UartStep ==
    ASSUME UartInv, U!UartNext
    PROVE  UartInv'
<1>1. PICK p \in {<<>>} \cup {<<b>> : b \in Traffic}, op \in {"none", "FR", "DR"} : U!Clock(p, op)
    BY DEF U!UartNext
<1>2. PICK push \in Seq(Traffic) : push = p
    <2>1. p \in Seq(Traffic)
        <3>1. p = <<>> \/ \E b \in Traffic : p = <<b>>
            OBVIOUS
        <3>2. <<>> \in Seq(Traffic) /\ \A b \in Traffic : <<b>> \in Seq(Traffic)
            OBVIOUS
        <3> QED
            BY ONLY <3>1, <3>2, Zenon
    <2> QED
        BY ONLY <2>1, Zenon
<1>3. /\ op # "none" => ~bus.ack
      /\ op = "DR" => bus.polled
      /\ tx' = U!Transmitter(push)
      /\ rx' = U!Receiver(op)
      /\ bus' = [ack |-> op # "none", polled |-> (op = "FR" /\ ~rx.empty) \/ (op = "none" /\ bus.polled)]
      /\ written' = written \o push
      /\ gotten' = IF op = "DR" THEN Append(gotten, IF rx.fifo = <<>> THEN <<>> ELSE Head(rx.fifo)) ELSE gotten
    BY <1>1, <1>2, Zenon DEF U!Clock
<1>4. UartTypes /\ Sending /\ Line /\ BitsSoFar /\ Spare /\ Reads /\ Stream
    BY DEF UartInv
<1>5. Sending'
    BY ONLY <1>3, <1>4, push \in Seq(Traffic), SendingStep, Zenon
<1>6. Rest' /\ Start' /\ Data' /\ Stop'
    BY ONLY <1>3, <1>4, push \in Seq(Traffic), RestStep, StartStep, DataStep, StopStep, Zenon
<1>7. BitsSoFar' /\ Spare'
    BY ONLY <1>3, <1>4, push \in Seq(Traffic), BitsStep, SpareStep, Zenon
<1>8. Reads'
    BY ONLY <1>3, <1>4, push \in Seq(Traffic), op \in {"none", "FR", "DR"}, ReadsStep, Zenon
<1>9. Stream' /\ gotten' \in Seq(Traffic)
    BY ONLY <1>3, <1>4, push \in Seq(Traffic), op \in {"none", "FR", "DR"}, StreamStep, Zenon
<1>10. UartTypes'
    BY ONLY <1>3, <1>4, <1>9, push \in Seq(Traffic), TypesStep, Zenon
<1> QED
    BY ONLY <1>5, <1>6, <1>7, <1>8, <1>9, <1>10, Zenon DEF UartInv, Line

\* And so does a step of another unit.
LEMMA UartStutter ==
    ASSUME UartInv, UNCHANGED U!uartVars
    PROVE  UartInv'
<1>1. tx' = tx /\ rx' = rx /\ bus' = bus /\ written' = written /\ gotten' = gotten
    BY DEF U!uartVars
<1>2. UartTypes' /\ Sending' /\ BitsSoFar' /\ Spare' /\ Reads'
    <2>1. UartTypes'
        BY <1>1 DEF UartInv, UartTypes
    <2>2. Sending'
        BY <1>1 DEF UartInv, Sending, Width
    <2>3. Pushed' <=> Pushed
        BY <1>1, Zenon DEF Pushed, Place, Width, Lag, U!RxHalfPulse
    <2>4. BitsSoFar' /\ Spare' /\ Reads'
        BY <1>1, <2>3 DEF UartInv, BitsSoFar, Spare, Reads
    <2> QED
        BY <2>1, <2>2, <2>4
<1>3. Stream'
    <2>1. Pushed' <=> Pushed
        BY <1>1, Zenon DEF Pushed, Place, Width, Lag, U!RxHalfPulse
    <2>2. Unsent' = Unsent
        BY <1>1, <2>1 DEF Unsent
    <2> QED
        BY <1>1, <2>2 DEF UartInv, Stream
<1>4. Line'
    <2>1. Place' = Place /\ Lag' = Lag /\ U!RxHalfPulse' = U!RxHalfPulse /\ U!RxBitPulse' = U!RxBitPulse
        BY <1>1, Zenon DEF Place, Width, Lag, U!RxHalfPulse, U!RxBitPulse
    <2>2. (Waits' <=> Waits) /\ (AllHigh' <=> AllHigh) /\ (Clear' <=> Clear) /\ \A i \in 1..5 : High(i)' <=> High(i)
        BY <1>1 DEF Waits, AllHigh, Clear, High
    <2>3. Rest'
        BY <1>1, <2>1, <2>2 DEF UartInv, Line, Rest
    <2>4. Start'
        BY <1>1, <2>1, <2>2 DEF UartInv, Line, Start
    <2>5. \A q, j : InBit(q, j)' <=> InBit(q, j)
        BY <1>1, <2>1 DEF InBit
    <2>6. Data'
        BY <1>1, <2>1 DEF UartInv, Line, Data, InBit
    <2>7. Stop'
        BY <1>1, <2>1, <2>2 DEF UartInv, Line, Stop
    <2> QED
        BY <2>3, <2>4, <2>6, <2>7 DEF Line
<1> QED
    BY <1>2, <1>3, <1>4 DEF UartInv

LEMMA IdleInv == ASSUME U!Idle PROVE UartInv
<1>1. /\ tx = [fifo |-> <<>>, state |-> 0, txd |-> 1, pulse |-> FALSE, count |-> 0, cts |-> <<1, 1, 1, 1>>]
      /\ rx = [fifo |-> <<>>, empty |-> TRUE, full |-> FALSE, state |-> 0, byte |-> <<>>,
             en |-> FALSE, count |-> 0, restart |-> FALSE, d |-> <<1, 1, 1, 1, 1>>]
      /\ bus = [ack |-> FALSE, polled |-> FALSE]
      /\ written = <<>> /\ gotten = <<>>
    BY DEF U!Idle, U!TXD_IDLE, U!RXD_IDLE
<1>2. /\ tx.fifo = <<>> /\ tx.state = 0 /\ tx.txd = 1 /\ tx.pulse = FALSE /\ tx.count = 0
      /\ \A i \in 1..4 : tx.cts[i] = 1
    BY <1>1
<1>3. /\ rx.fifo = <<>> /\ rx.empty /\ rx.full = FALSE /\ rx.state = 0 /\ rx.en = FALSE
      /\ \A i \in 1..5 : rx.d[i] = 1
    BY <1>1
<1>4. UartTypes
    <2>1. tx \in TxRegisters
        <3>1. PICK q \in 0..12, b \in {0, 1}, x \in BOOLEAN, n \in Nat : q = 0 /\ b = 1 /\ x = FALSE /\ n = 0
            <4>1. 0 \in 0..12 /\ 1 \in {0, 1} /\ FALSE \in BOOLEAN /\ 0 \in Nat
                OBVIOUS
            <4> QED
                BY ONLY <4>1, Zenon
        <3>2. PICK c \in [1..4 -> {0, 1}], f \in Seq(Traffic) : c = <<1, 1, 1, 1>> /\ f = <<>>
            <4>1. PICK v \in Seq({0, 1}) : v = <<1, 1, 1, 1>> /\ Len(v) = 4
                <5>1. <<1, 1, 1, 1>> \in Seq({0, 1}) /\ Len(<<1, 1, 1, 1>>) = 4
                    OBVIOUS
                <5> QED
                    BY ONLY <5>1, Zenon
            <4>2. v \in [1..4 -> {0, 1}]
                BY ONLY <4>1, LenProperties
            <4>3. <<>> \in Seq(Traffic)
                OBVIOUS
            <4> QED
                BY ONLY <4>1, <4>2, <4>3, Zenon
        <3>3. tx = [fifo |-> f, state |-> q, txd |-> b, pulse |-> x, count |-> n, cts |-> c]
            BY ONLY <1>1, <3>1, <3>2, Zenon
        <3> QED
            BY ONLY <3>3, q \in 0..12, b \in {0, 1}, x \in BOOLEAN, n \in Nat, c \in [1..4 -> {0, 1}],
                f \in Seq(Traffic) DEF TxRegisters
    <2>2. rx \in RxRegisters
        <3>1. PICK q \in 0..12, s \in Seq({0, 1}), x \in BOOLEAN, y \in BOOLEAN, n \in Nat :
                  q = 0 /\ s = <<>> /\ x = FALSE /\ y = TRUE /\ n = 0
            <4>1. 0 \in 0..12 /\ <<>> \in Seq({0, 1}) /\ FALSE \in BOOLEAN /\ TRUE \in BOOLEAN /\ 0 \in Nat
                OBVIOUS
            <4> QED
                BY ONLY <4>1, Zenon
        <3>2. PICK c \in [1..5 -> {0, 1}], f \in Seq(Traffic) : c = <<1, 1, 1, 1, 1>> /\ f = <<>>
            <4>1. PICK v \in Seq({0, 1}) : v = <<1, 1, 1, 1, 1>> /\ Len(v) = 5
                <5>1. <<1, 1, 1, 1, 1>> \in Seq({0, 1}) /\ Len(<<1, 1, 1, 1, 1>>) = 5
                    OBVIOUS
                <5> QED
                    BY ONLY <5>1, Zenon
            <4>2. v \in [1..5 -> {0, 1}]
                BY ONLY <4>1, LenProperties
            <4>3. <<>> \in Seq(Traffic)
                OBVIOUS
            <4> QED
                BY ONLY <4>1, <4>2, <4>3, Zenon
        <3>3. rx = [fifo |-> f, empty |-> y, full |-> x, state |-> q, byte |-> s, en |-> x, count |-> n,
                    restart |-> x, d |-> c]
            BY ONLY <1>1, <3>1, <3>2, Zenon
        <3> QED
            BY ONLY <3>3, q \in 0..12, s \in Seq({0, 1}), x \in BOOLEAN, y \in BOOLEAN, n \in Nat,
                c \in [1..5 -> {0, 1}], f \in Seq(Traffic) DEF RxRegisters
    <2>3. bus \in [ack : BOOLEAN, polled : BOOLEAN] /\ written \in Seq(Traffic) /\ gotten \in Seq(Traffic)
        BY ONLY <1>1
    <2> QED
        BY ONLY <2>1, <2>2, <2>3 DEF UartTypes, TxRegisters, RxRegisters
<1>5. Sending
    BY <1>2, UartAssumption DEF Sending, Width, U!TXD_STOP2
<1>6. Line
    <2>1. Waits /\ AllHigh /\ Clear
        BY <1>2, <1>3 DEF Waits, AllHigh, High, Clear
    <2> QED
        BY <1>2, <2>1 DEF Line, Rest, Start, Data, Stop
<1>7. BitsSoFar /\ ~Pushed
    BY <1>2, <1>3 DEF BitsSoFar, Pushed
<1>8. Spare /\ Reads
    BY <1>1, <1>3, UartAssumption DEF Spare, Reads
<1>9. Stream
    BY <1>1, <1>2, <1>3, <1>7 DEF Stream, Unsent
<1> QED
    BY <1>4, <1>5, <1>6, <1>7, <1>8, <1>9 DEF UartInv

LEMMA ArrivesBy ==
    ASSUME UartInv
    PROVE  U!BytesArrive
<1>1. PICK g \in Seq(Traffic), f \in Seq(Traffic), u \in Seq(Traffic), w \in Seq(Traffic) :
         g = gotten /\ f = rx.fifo /\ u = Unsent /\ w = written
    <2>1. Unsent \in Seq(Traffic)
        <3>1. tx.fifo \in Seq(Traffic)
            BY DEF UartInv, UartTypes
        <3>2. Pushed => tx.fifo # <<>>
            BY DEF UartInv, Sending, Pushed
        <3> QED
            BY <3>1, <3>2 DEF Unsent
    <2> QED
        BY <2>1 DEF UartInv, UartTypes
<1>2. w = g \o (f \o u)
    BY <1>1 DEF UartInv, Stream
<1>3. Regrouped(g, f, u)
    BY ONLY g \in Seq(Traffic), f \in Seq(Traffic), u \in Seq(Traffic), Rejoined, Zenon
<1>4. PICK h \in Seq(Traffic) : h = g \o f /\ w = h \o u
    <2>1. g \o f \in Seq(Traffic)
        OBVIOUS
    <2> QED
        BY ONLY <1>2, <1>3, <2>1, Zenon DEF Regrouped
<1>5. U!Begins(h, w)
    <2>1. Len(h) <= Len(w) /\ h = SubSeq(w, 1, Len(h))
        BY ONLY <1>4, h \in Seq(Traffic), u \in Seq(Traffic)
    <2> QED
        BY <2>1 DEF U!Begins
<1>6. Len(rx.fifo) <= Depth
    BY DEF UartInv, Spare
<1>7. tx.fifo = <<>> /\ tx.state = U!TXD_IDLE => u = <<>>
    BY <1>1 DEF Unsent, Pushed, U!TXD_IDLE
<1>8. tx.fifo = <<>> /\ tx.state = U!TXD_IDLE => h = w
    BY ONLY <1>4, <1>7, h \in Seq(Traffic)
<1> QED
    BY ONLY <1>1, <1>4, <1>5, <1>6, <1>8, Zenon DEF U!BytesArrive

\* What _inbyte returns is what _outbyte wrote, bit by bit and in order, for
\* every baud rate far enough below the clock: nothing is lost to flow
\* control or to the late flags, and nothing stays behind.
THEOREM BytesAllArrive == UnitsSpec => []BytesArrive
<1>1. UnitsInit => UartInv
    BY IdleInv DEF UnitsInit
<1>2. UartInv /\ [UnitsNext]_all => UartInv'
    <2>1. ASSUME UartInv, U!UartNext PROVE UartInv'
        BY <2>1, UartStep
    <2>2. ASSUME UartInv, UNCHANGED serial PROVE UartInv'
        BY <2>2, UartStutter DEF serial, U!uartVars
    <2> QED
        BY <2>1, <2>2 DEF UnitsNext, all
<1>3. UartInv => U!BytesArrive
    BY ArrivesBy
<1> QED
    BY <1>1, <1>2, <1>3, PTL DEF UnitsSpec, BytesArrive
=============================================================================
