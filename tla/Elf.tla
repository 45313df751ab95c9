-------------------------------- MODULE Elf --------------------------------
(***************************************************************************)
(* The three ELF splitters: of the serial boot loader, of the Ethernet     *)
(* boot loader and of the host tool that makes memory images (elfsplitter.c *)
(* twice, tools/amber-elfsplitter.c).  They take the sections of a file    *)
(* one by one: those with bits are copied, those without are zeroed.       *)
(*                                                                         *)
(* A file has any number of sections, in any order, and nothing keeps them *)
(* apart.  The byte of the file at offset k is k.  A cell of memory that   *)
(* was not written is Old.                                                 *)
(***************************************************************************)
EXTENDS Integers, Sequences

CONSTANTS
    MemBufEntries, \* MEM_BUF_ENTRIES: 32
    ExecBase,      \* ADR_EXEC_BASE: where the boot loader itself is
    Top,           \* bound: addresses
    Tables         \* bound: the section tables of the files, sequences of
                   \* [type, addr, offset, size]

VARIABLES
    target,  \* whose splitter runs: "serial", "ethmac" or "tool"
    elf,     \* the file: [magic, machine, sections]
    next,    \* the section it is at
    memory,  \* what it wrote: memory, or outbuf of the tool
    entry,   \* elf_mem0_g: kept for the addresses below MemBufEntries
    placed   \* outbuf of the Ethernet boot loader happened to be 0

elfVars == <<target, elf, next, memory, entry, placed>>

Old   == -1
Cells == 0..(Top - 1)
Empty == [a \in Cells |-> Old]
NoFile == [magic |-> FALSE, machine |-> FALSE, sections |-> <<>>]

Idle ==
    /\ target = "none" /\ elf = NoFile /\ next = 0 /\ placed = FALSE
    /\ memory = <<>> /\ entry = <<>>

\* A file that starts with ELF, for this processor.
Good(file) == file.magic /\ file.machine

\* The call.  The Ethernet boot loader never sets outbuf: what it writes
\* through it lands in the right place only if it happens to be 0.
elfsplitter ==
    /\ target = "none" /\ target' \in {"serial", "ethmac", "tool"}
    /\ \E magic, machine \in BOOLEAN, table \in Tables :
          elf' = [magic |-> magic, machine |-> machine, sections |-> table]
    /\ placed' \in BOOLEAN /\ (target' # "ethmac" => placed')
    /\ memory' = Empty
    /\ entry' = [a \in 0..(MemBufEntries - 1) |-> Old]
    /\ next' = IF Good(elf') THEN 1 ELSE Len(elf'.sections) + 2

In(s, a) == a >= s.addr /\ a < s.addr + s.size
Bits(s, a) == IF s.type = "PROGBITS" THEN s.offset + (a - s.addr) ELSE 0
Loaded(s) == s.type \in {"PROGBITS", "NOBITS"}

Current == elf.sections[next]
Past    == Len(elf.sections) + 1  \* next, when the sections are done

\* How far a section's address is into its word.
Crook(s) == s.addr % 4

\* Mutation: the last word is left out when it is not full.
FullWords(s) ==
    {a \in Cells : \E j \in 0..(s.size - 4) : j % 4 = 0 /\ a - (s.addr - Crook(s)) - j \in 0..3}

\* Words at a time, at the word the address is in (the processor has no other
\* stores of a word): the last word may reach beyond the section, and a
\* section that does not start at a word is moved down to one.
Words(s) ==
    {a \in Cells : \E j \in 0..(s.size - 1) : j % 4 = 0 /\ a - (s.addr - Crook(s)) - j \in 0..3}

SerialSection ==
    /\ target = "serial" /\ next < Past
    /\ memory' = IF Loaded(Current)
                 THEN [a \in Cells |-> IF a \in Words(Current)
                                       THEN Bits(Current, a + Crook(Current)) ELSE memory[a]]
                 ELSE memory
    /\ next' = next + 1
    /\ UNCHANGED <<target, elf, entry, placed>>

\* Byte by byte; low addresses are kept for later, high ones are refused.
EthmacSection ==
    /\ target = "ethmac" /\ next < Past
    /\ IF Loaded(Current)
       THEN /\ memory' = [a \in Cells |-> IF In(Current, a) /\ a > MemBufEntries /\ a < ExecBase /\ placed
                                          THEN Bits(Current, a) ELSE memory[a]]
            /\ entry' = [a \in DOMAIN entry |-> IF In(Current, a) THEN Bits(Current, a) ELSE entry[a]]
       ELSE UNCHANGED <<memory, entry>>
    /\ next' = next + 1
    /\ UNCHANGED <<target, elf, placed>>

ToolSection ==
    /\ target = "tool" /\ next < Past
    /\ memory' = IF Loaded(Current)
                 THEN [a \in Cells |-> IF In(Current, a) THEN Bits(Current, a) ELSE memory[a]]
                 ELSE memory
    /\ next' = next + 1
    /\ UNCHANGED <<target, elf, entry, placed>>

\* reboot() of tftp.c: the low addresses get what was kept for them.
Reboot ==
    /\ target = "ethmac" /\ next = Past
    /\ memory' = [a \in Cells |-> IF a < MemBufEntries /\ entry[a] # Old THEN entry[a] ELSE memory[a]]
    /\ next' = next + 1
    /\ UNCHANGED <<target, elf, entry, placed>>

\* The tool prints the words up to the last byte that was written.
Listing ==
    /\ target = "tool" /\ next = Past
    /\ LET written == {a \in Cells : memory[a] # Old}
           max_out == IF written = {} THEN 0 ELSE CHOOSE a \in written : \A b \in written : b <= a
       IN  memory' = [a \in Cells |-> IF a - (a % 4) < max_out + 3 THEN memory[a] ELSE Old]
    /\ next' = next + 1
    /\ UNCHANGED <<target, elf, entry, placed>>

Return ==
    /\ next = Past + 1 \/ (target = "serial" /\ next = Past)
    /\ target' = "none" /\ elf' = NoFile /\ next' = 0 /\ placed' = FALSE
    /\ memory' = <<>> /\ entry' = <<>>

ElfNext ==
    elfsplitter \/ SerialSection \/ EthmacSection \/ ToolSection \/ Reboot \/ Listing \/ Return
-----------------------------------------------------------------------------
Whole == next = Past + 1 \/ (target = "serial" /\ next = Past)

\* The sections that are loaded, and the cells that each one writes.
Chosen == {n \in DOMAIN elf.sections : Good(elf) /\ Loaded(elf.sections[n])}
Stores(s) == IF target = "serial" THEN Words(s) ELSE {a \in Cells : In(s, a)}

Straight(s) == target = "serial" => Crook(s) = 0
Apart(s, t) == s.addr + s.size <= t.addr \/ t.addr + t.size <= s.addr

\* No section behind it in the file writes there, but for one that is
\* straight and apart: the tail of its last word must not matter.
Kept(n, a) ==
    \A m \in Chosen : m > n /\ a \in Stores(elf.sections[m]) =>
        Straight(elf.sections[m]) /\ Apart(elf.sections[n], elf.sections[m])

\* In the Ethernet boot loader: the addresses from ExecBase on, the one at
\* MemBufEntries, which is written behind the table, and all above the table
\* when outbuf is not 0.
Lost(a) ==
    target = "ethmac" /\ a >= MemBufEntries /\ (a >= ExecBase \/ a = MemBufEntries \/ ~placed)

\* The image is the file's.  Every byte of a section with or without bits is
\* where the file wants it, whatever the order of the sections in the file,
\* unless a later section is meant for the same place; and what no section
\* writes is as it was.
ImageExact ==
    target # "none" /\ Whole =>
        \A a \in Cells :
            /\ \A n \in Chosen :
                  In(elf.sections[n], a) /\ Straight(elf.sections[n]) /\ Kept(n, a) /\ ~Lost(a) =>
                      memory[a] = Bits(elf.sections[n], a)
            /\ (\A n \in Chosen : a \notin Stores(elf.sections[n])) => memory[a] = Old
=============================================================================
