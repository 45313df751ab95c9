------------------------------- MODULE Units -------------------------------
(***************************************************************************)
(* The parts of the system that stand on their own, one of them in each    *)
(* behaviour: malloc, a timer of the main loop, the routines that the boot *)
(* loaders rely on (memcpy, print, the ELF splitters, the packet parser,   *)
(* the telnet option parser and the telnet output) and the hardware (two   *)
(* UARTs, the memory bus).                                                 *)
(***************************************************************************)
EXTENDS Malloc

CONSTANTS
    Interval, TimeWrap, MaxSeconds, TicksPerCall, \* of Timer (TimeWrap is its Word)
    TypeWidth, Unroll, MaxCount, Source,      \* of Memcpy
    HexMax, MaxWidth,                         \* of Printf
    MemBufEntries, ExecBase, Top, Tables,     \* of Elf
    Frames, Stack,                            \* of Packet
    Items, MaxItems,                          \* of TelnetOptions
    LenBytes, MaxLine, MaxTelnetTx, Texts, MaxText,  \* of TelnetTx
    BitPulse, BitAdjust, Depth, Traffic, MaxBytes,    \* of Uart
    Lines, CmdDepth, MaxWrites                \* of MemoryBus

\* As in Timer.
ASSUME TimerAssumption ==
    /\ Interval \in Nat \ {0} /\ TimeWrap \in Nat /\ TimeWrap > 4000
    /\ MaxSeconds \in Nat /\ TicksPerCall \in Nat

\* The lines of telnet.c: at most 33 characters, and MAX_LINE is 128.
ASSUME TextFits == \A n \in Texts : n > 0 /\ 2 * n <= MaxLine

ASSUME TextAssumption ==
    /\ LenBytes \in Nat /\ MaxLine \in Nat \ {0} /\ MaxTelnetTx \in Nat \ {0}
    /\ Texts \subseteq Nat

\* No byte of the source is one of the destination.
ASSUME CopyAssumption ==
    /\ TypeWidth \in Nat \ {0} /\ Unroll \in Nat \ {0} /\ MaxCount \in Nat
    /\ Source \in Nat /\ Source >= TypeWidth + MaxCount

\* An int has more than one hexadecimal digit.
ASSUME PrintfAssumption == HexMax \in Nat /\ HexMax >= 2 /\ MaxWidth \in Nat

ASSUME ElfAssumption ==
    /\ Top \in Nat /\ MemBufEntries \in Nat /\ ExecBase \in Nat
    /\ Tables \subseteq Seq([type : {"PROGBITS", "NOBITS", "STRTAB"}, addr : Nat, offset : Nat, size : Nat])

VARIABLES
    unit,  \* the one that runs in this behaviour
    now, timer, carry, phase, armed, done, ticks,
    mem, dest, src, copied, dst8, src8, left, srcWord, at,
    asked, out,
    target, elf, next, memory, entry, placed,
    frame, reply, handed,
    items, taken, open, echo_mode, rxbuf, strange,
    cells, write_ptr, read_ptr, first_line, total, line_len, stage, put, sent,
    tx, rx, bus, written, gotten,
    req, arb, br, mcb, want, answer, writes, pressed

H == INSTANCE Timer WITH pc <- phase, base <- armed, Word <- TimeWrap
C == INSTANCE Memcpy WITH count <- copied
P == INSTANCE Printf
E == INSTANCE Elf
K == INSTANCE Packet
T == INSTANCE TelnetOptions
O == INSTANCE TelnetTx WITH pc <- stage
U == INSTANCE Uart
B == INSTANCE MemoryBus

\* Every frame is one that a station sends; the stack holds bytes.
ASSUME FramesAssumption == Stack \subseteq K!Byte /\ \A f \in Frames : K!Legal(f)

\* An item is a sequence of bytes, and text has no IAC in it.
ASSUME ItemsAssumption ==
    /\ MaxItems \in Nat
    /\ \A item \in Items : /\ item \in Seq(Int) /\ item # <<>>
                           /\ T!IsText(item) => \A k \in 1..Len(item) : item[k] # T!IAC

\* As in Uart: BITADJUST makes up for the rounding of eleven bits, at most
\* half a clock each and half for itself, and a byte has eight bits.
ASSUME UartAssumption ==
    /\ BitPulse \in Nat /\ BitPulse >= 20 /\ BitAdjust \in Nat /\ BitAdjust >= BitPulse - 6
    /\ Depth \in Nat \ {0} /\ Traffic \subseteq [1 .. 8 -> {0, 1}]

timing    == <<now, timer, carry, phase, armed, done, ticks>>
copying   == <<mem, dest, src, copied, dst8, src8, left, srcWord, at>>
printing  == <<asked, out>>
splitting == <<target, elf, next, memory, entry, placed>>
parsing   == <<frame, reply, handed>>
options   == <<items, taken, open, echo_mode, rxbuf, strange>>
output    == <<cells, write_ptr, read_ptr, first_line, total, line_len, stage, put, sent>>
serial    == <<tx, rx, bus, written, gotten>>
memoryBus == <<req, arb, br, mcb, want, answer, writes, pressed>>

all == <<unit, vars, timing, copying, printing, splitting, parsing, options, output, serial, memoryBus>>

Names == {"malloc", "timer", "memcpy", "print", "elfsplitter", "packet", "options", "output",
          "uart", "memory"}

UnitsInit ==
    /\ unit \in Names
    /\ Init /\ H!Init /\ C!Idle /\ P!Idle /\ E!Idle /\ K!Idle /\ T!Idle /\ O!Idle /\ U!Idle /\ B!Idle

UnitsNext ==
    \/ /\ unit = "malloc" /\ Next
       /\ UNCHANGED <<unit, timing, copying, printing, splitting, parsing, options, output, serial, memoryBus>>
    \/ /\ unit = "timer" /\ H!Next
       /\ UNCHANGED <<unit, vars, copying, printing, splitting, parsing, options, output, serial, memoryBus>>
    \/ /\ unit = "memcpy" /\ C!MemcpyNext
       /\ UNCHANGED <<unit, vars, timing, printing, splitting, parsing, options, output, serial, memoryBus>>
    \/ /\ unit = "print" /\ P!PrintfNext
       /\ UNCHANGED <<unit, vars, timing, copying, splitting, parsing, options, output, serial, memoryBus>>
    \/ /\ unit = "elfsplitter" /\ E!ElfNext
       /\ UNCHANGED <<unit, vars, timing, copying, printing, parsing, options, output, serial, memoryBus>>
    \/ /\ unit = "packet" /\ K!PacketNext
       /\ UNCHANGED <<unit, vars, timing, copying, printing, splitting, options, output, serial, memoryBus>>
    \/ /\ unit = "options" /\ T!TelnetNext
       /\ UNCHANGED <<unit, vars, timing, copying, printing, splitting, parsing, output, serial, memoryBus>>
    \/ /\ unit = "output" /\ O!TxNext
       /\ UNCHANGED <<unit, vars, timing, copying, printing, splitting, parsing, options, serial, memoryBus>>
    \/ /\ unit = "uart" /\ U!UartNext
       /\ UNCHANGED <<unit, vars, timing, copying, printing, splitting, parsing, options, output, memoryBus>>
    \/ /\ unit = "memory" /\ B!BusNext
       /\ UNCHANGED <<unit, vars, timing, copying, printing, splitting, parsing, options, output, serial>>

UnitsSpec == UnitsInit /\ [][UnitsNext]_all

\* The properties of the units: see there.
ClockInv       == H!ClockInv
NeverEarly     == H!NeverEarly
CopyExact      == C!CopyExact
ReadsBack      == P!ReadsBack
ImageExact     == E!ImageExact
ReplySound     == K!ReplySound
OptionsKeptOut == T!OptionsKeptOut
TextAsPut      == O!TextAsPut
BytesArrive    == U!BytesArrive
ReadsLatest    == B!ReadsLatest
=============================================================================
