------------------------------- MODULE Malloc -------------------------------
(***************************************************************************)
(* malloc of the boot loader (start.S): a bump allocator with no free.     *)
(* The main loop calls it for sockets, telnet objects and ELF buffers; the *)
(* interrupt handler calls it for the blocks of a TFTP upload              *)
(* (init_buffer_512).  An interrupt can fall between any two instructions  *)
(* of the main loop's call, and runs to completion.                        *)
(***************************************************************************)
EXTENDS Integers, Sequences

CONSTANTS
    Base,           \* ADR_MALLOC_BASE
    Sizes,          \* the sizes asked for
    MaxBlocks       \* bound: the number of calls

Granule == 256

ASSUME BaseAssumption == Base \in Nat /\ Base % Granule = 0
ASSUME SizesAssumption == Sizes \subseteq Nat \ {0}

VARIABLES
    pointer,    \* the word at AdrMallocPointer
    count,      \* the word at AdrMallocCount
    blocks,     \* history: every block handed out, in order
    torn,       \* history: the stores a handler's call fell just before
    pc, size, r2  \* the main loop's call: place, r0 on entry, r2

vars == <<pointer, count, blocks, torn, pc, size, r2>>

\* The places between the load of a shared word and its store.
Stores == {"store", "store_count"}

Block == [addr : Nat, size : Nat \ {0}]
End(b) == b.addr + b.size

TypeOK ==
    /\ pointer \in Nat /\ count \in Nat
    /\ blocks \in Seq(Block)
    /\ torn \subseteq Stores
    /\ pc \in {"idle", "load", "load_count"} \cup Stores
    /\ size \in Nat /\ r2 \in Nat
    /\ pc \in {"load", "store"} => size > 0

\* Mutations: the bic without the add, and no rounding at all.
RoundDown(x) == x - (x % Granule)
Unrounded(x) == x

\* tst, bic, add: up to the next multiple of 0x100.
RoundUp(x) == IF x % Granule = 0 THEN x ELSE x - (x % Granule) + Granule

\* init_malloc, before interrupts are enabled.
Init ==
    /\ pointer = Base
    /\ count = 0
    /\ blocks = <<>>
    /\ torn = {}
    /\ pc = "idle"
    /\ size = 0 /\ r2 = 0
-----------------------------------------------------------------------------
(* The main loop's call, one action per access to shared memory.           *)

Call(n) ==
    /\ pc = "idle"
    /\ Len(blocks) < MaxBlocks
    /\ size' = n
    /\ pc' = "load"
    /\ UNCHANGED <<pointer, count, blocks, torn, r2>>

LoadPointer ==
    /\ pc = "load"
    /\ r2' = pointer
    /\ pc' = "store"
    /\ UNCHANGED <<pointer, count, blocks, torn, size>>

\* The block returned starts at the pointer before the update.
StorePointer ==
    /\ pc = "store"
    /\ pointer' = RoundUp(size + r2)
    /\ blocks' = Append(blocks, [addr |-> r2, size |-> size])
    /\ pc' = "load_count"
    /\ UNCHANGED <<count, torn, size, r2>>

LoadCount ==
    /\ pc = "load_count"
    /\ r2' = count
    /\ pc' = "store_count"
    /\ UNCHANGED <<pointer, count, blocks, torn, size>>

StoreCount ==
    /\ pc = "store_count"
    /\ count' = r2 + 1
    /\ pc' = "idle"
    /\ UNCHANGED <<pointer, blocks, torn, size, r2>>

(* The interrupt handler's call.                                           *)
IrqMalloc(n) ==
    /\ Len(blocks) < MaxBlocks
    /\ pointer' = RoundUp(n + pointer)
    /\ blocks' = Append(blocks, [addr |-> pointer, size |-> n])
    /\ count' = count + 1
    /\ torn' = torn \cup ({pc} \cap Stores)
    /\ UNCHANGED <<pc, size, r2>>

MainLoop ==
    \/ \E n \in Sizes : Call(n)
    \/ LoadPointer \/ StorePointer \/ LoadCount \/ StoreCount

Next == MainLoop \/ \E n \in Sizes : IrqMalloc(n)

Spec == Init /\ [][Next]_vars
-----------------------------------------------------------------------------
(* Properties.                                                             *)

(* No two blocks handed out overlap.                                       *)
BlocksDisjoint ==
    \A i, j \in 1 .. Len(blocks) :
        i < j => \/ End(blocks[i]) <= blocks[j].addr
                 \/ End(blocks[j]) <= blocks[i].addr

(* The window is the only one: a handler that allocates at any moment      *)
(* except between the load and the store of the pointer never makes two    *)
(* blocks overlap.                                                         *)
DisjointUnlessTorn == "store" \notin torn => BlocksDisjoint

(* Every block starts on a 256-byte boundary: callers store words in it.   *)
Aligned == \A i \in 1 .. Len(blocks) : blocks[i].addr % Granule = 0
=============================================================================
