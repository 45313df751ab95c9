# TLA+ models of the Amber boot loaders and their hardware

This directory holds TLA+ specifications of the Amber project in `src/amber`: an
ARM-compatible processor system for an FPGA, the two boot loaders that run on it
and the parts they rely on. The models describe what several actors do to shared
state and the algorithms that are easy to get wrong at an edge, the TLC
configurations check them on small instances, and the `*Proofs` modules prove
theorems about them for every value of their constants.

## Inventory

The system is an FPGA design (`hw/vlog`) and the software that runs on it
(`sw`). The core logic of the software is the Ethernet boot loader
(`sw/boot-loader-ethmac`): a telnet and TFTP server without an operating system.
It has two actors on one processor, the **main loop** (`boot-loader-ethmac.c`:
`process_led`, `process_tftp`, `process_sockets`, for ever) and the **interrupt
handler** (`start.S` `service_irq`, which calls `timer_interrupt` and
`ethmac_interrupt`, does not nest, and runs to its end), and two around it: the
**Ethernet MAC**, which reads and writes memory on its own, and the **network**.
The older serial boot loader (`sw/boot-loader-serial`) has one thread that polls
a UART: a command line, and an XMODEM receiver with a terminal emulator on the
other side.

| Component | State | Operations | Shared with | What is hard | What must be right | Modules |
|---|---|---|---|---|---|---|
| Timer (`timer.c`, `led.c`) | `current_time_g`, a `time_t` per user | `timer_interrupt`; `set_timer`, `timer_expired` | handler writes, main loop reads in parts | torn reads around a full second; zero means not set | never early, late by a bounded time, always fires | `Timer` |
| Allocator (`start.S`) | pointer and count, two words in memory | `malloc` | both actors allocate | load and store of the pointer are apart | blocks disjoint, aligned, counted | `Malloc` |
| Line buffer (`line-buffer.c`, `telnet.c`) | byte array with end-of-line markers, two indices | `put_byte` (handler), `get_line`, `put_line`, `telnet_tx` (main loop) | one producer, one consumer, no lock | packets cut lines, indices wrap separately, marks are told from text by their value | bytes in order, whole lines, every line returned | `LineBuffer`, `TelnetTx` |
| TCP ring (`tcp.c`) | 256 slots with sequence numbers and ack flags | `tcp_open`, `tcp_reply`, `tcp_ack`, `tcp_retransmit` | peer over a lossy network | wrap of ring and of sequence numbers, repeated and stray acks | nothing marked acked that did not arrive, everything arrives | `ByteStream`, `TcpRing` |
| Transmit path (`tcp.c`, `ethmac.c`) | the ring's cursor, one transmit buffer, one descriptor | `tcp_tx`, `tcp_reply`, `ethmac_tx_packet` | both actors and the MAC | only some callers mask the interrupt; the buffer is reused while it is sent | frames leave as built, slots describe packets | `TcpTx` |
| Receive path (`ethmac.c`, `packet.c`) | 8 buffers and descriptors, interrupt source and mask | `ethmac_interrupt`, `parse_rx_packet` | MAC fills, handler empties | frames come while the handler scans; late clearing of the source | each frame parsed once, and in the end; the MAC never stuck | `EthmacRx` |
| Headers (`packet.c`) | none | `parse_arp`, `parse_ip`, `parse_ping`, checksums | hands on to TCP and UDP | carries of the checksum, odd lengths, IP options | right answer or none | `Packet` |
| Connections (`tcp.c`, `telnet.c`) | chain of sockets, a telnet session for each | `parse_tcp_packet`, `tcp_response`, `process_tcp`, `process_telnet`, `parse_telnet_options`, disconnects | handler and main loop change states | resets, lost clients, equal ports, a single listening socket, options cut by packets, an upload that ends all sessions | always a way to connect; lines stay with their connection; options are not text | `TcpConn`, `TelnetOptions` |
| TFTP and reboot (`tftp.c`, `udp.c`, `elfsplitter.c`) | chain of blocks, vectors table, two-stage timer | `parse_tftp_packet`, `process_tftp`, `process_file`, `elfsplitter`, `reboot` | handler writes, main loop reads | repeats, a second upload while the first is processed, sections in any order | acked means saved; the image is whole; one file is started | `Tftp`, `Elf` |
| Serial boot loader (`sw/boot-loader-serial`) | two line buffers, the escape stage; packet number, polls and repeats left | `main`, `parse`, `get_hex`; `xmodemReceive`; `elfsplitter` | one serial line for keys and packets | edited and recalled lines; timeouts, repeats and the wrap of the packet number; leftovers of a transfer | the command is the one on the screen; memory holds the beginning of the file, and all of it at a normal end | `Console`, `Xmodem`, `SerialLoader`, `Elf` |
| UART (`hw/vlog/system/uart.v`) | two FIFOs, bit counters, flow control | bus registers, shift in and out | processor and line | late flags, full FIFO, pulse counts that do not divide | bytes arrive, in order, none invented | `Uart` |
| Arbiter, memory bridge | grant and holds; request registers, write buffer, read flag | bus cycles | two masters, the memory controller | grant within a transfer, reads after buffered writes, a full command FIFO | a read returns what was last written | `MemoryBus` |
| C library (`sw/mini-libc`) | none | `memcpy`, `print`, `printi`, `_div`, `_outbyte`, `_inbyte` | all programs | shifts between unaligned words, signed division of unsigned numbers | copies exact, numbers read back | `Memcpy`, `Printf`, `Uart` |
| Host tools (`sw/tools`) | none | `amber-elfsplitter` | makes memory images | section tails, addresses | the image is the file's | `Elf` |
| PHY (`ethmac.c`) | none | `init_phy`, `mdio_*` | - | start-up only | - | not modelled |
| Interrupt controller, timer module | enables, counters | register writes | processor | - | - | not modelled |
| Amber 23/25 cores | pipeline, caches, bus masters | instructions | bus | stalls, cache misses with writes | - | not modelled |
| Ethernet MAC core (third party) | - | - | boot loader | - | - | as the boot loader sees it |
| Demos, hardware tests, Linux image, lab test bench | - | - | - | - | - | not modelled |

How they meet: the handler calls `timer_interrupt` and, through
`parse_rx_packet`, the parsers of ARP, ping, TCP and TFTP, which answer at once
through the transmit path and leave bytes, blocks and socket states for the main
loop. The main loop polls them, allocates, sends and resends. All of it stands
on `malloc`, `memcpy` and the memory bus, which processor and MAC share. The
serial boot loader stands on the UART.

## Plan

The modules were written in this order; all are in place.

1. `Timer`, `Malloc`, `LineBuffer`: the data that handler and main loop share
   without a lock, each with its proofs.
2. `ByteStream` (abstract) and `TcpRing` (implements it): what a connection
   promises and how the ring of slots keeps it.
3. `TcpTx` and `EthmacRx`: the two sides of the Ethernet driver, with proofs of
   the exclusion and of the fate of frames.
4. `TcpConn` and `Tftp`: the protocols above, with proofs.
5. `Xmodem` and `Console`, and `SerialLoader`, which composes them over one
   line.
6. The parts that stand on their own: `Memcpy`, `Printf`, `Elf`, `Packet`,
   `TelnetOptions`, `TelnetTx`, `Uart`, `MemoryBus`, and `Units`, which runs one
   of them (or `Malloc`, or `Timer`) in each behaviour.

What could follow: the composition of `EthmacRx` with the protocols that it
feeds; the caches of the cores over `MemoryBus`.

## How the modules correspond to the code

`PROJECT.json` maps each definition to its lines. Definitions keep the names of
the code where they model one function or variable. In all modules:

- the main loop takes one step for each group of accesses to state that another
  actor shares, because an interrupt can fall between any two of them; the
  interrupt handler takes one step for all it does between two points where
  another actor (the MAC) can act, because it does not nest; hardware takes one
  step for each clock;
- variables that the comments call *history* record the past for the properties;
  no guard of the code's actions reads them, apart from bounds;
- definitions under a comment that begins with *Mutation* are variants with a
  plausible bug. They are not part of any specification; each shows that some
  property fails when the code is changed like that.

**Timer.** `current_time_g` is `now`; `set_timer` is `SetBranch`, `SetSeconds`,
`SetMilliseconds`, one for each load of the clock, and `timer_expired` is
`PollSeconds`, `PollEqual`, `PollMilliseconds`. A tick is 10 ms. Unsigned
subtraction wraps at `Word`.

**Malloc.** One action for each load and store of the pointer and the count.
`IrqMalloc` is a whole call in the handler. `blocks` is the history of what was
handed out, and `torn` of the stores that a call of the handler fell just
before.

**LineBuffer.** The buffer holds pairs of a byte and a marker; a cell of the
model is one pair's part, so that the order of the two writes is visible. A byte
is its number in the stream, which lets `InOrder` compare what was read with
what was typed; only a Ctrl-A is stored as what it is (`Stored`), byte 1, since
`parse_telnet_payload` lets it through (`telnet.c:218`) and `get_line` takes it
for the second mark. `Receive` is a packet in the handler; the main loop does
not run until the packet's bytes are put. `style` is the client's habit, chosen
at the start: what its packets hold and whether it waits for answers.

**TelnetTx.** The other direction, all in the main loop. `print` advances the
pointer that `put_line` gives it, so that the `buf[len] = 0` after it lands at
`write_ptr + 2 * len`, and the zero that ends the text is the one at
`write_ptr`. Lines of `telnet.c` have at most 33 characters, so that twice the
length stays inside `MAX_LINE` (`TextFits`). `malloc` does not clear the buffer,
and what is there at the start may be either mark.

**ByteStream and TcpRing.** `ByteStream` has three actions: bytes are written,
bytes that arrived are released, bytes arrive. A byte that was written is kept
until it arrived (`Kept`). In `TcpRing` a packet is a range of positions of the
stream; a slot stores its sequence numbers modulo `SeqMod` as the code does
modulo 2^32, and the positions are history. The peer acks cumulatively. The
refinement maps `kept` to the bytes in slots that would be sent again.

**TcpTx.** The main loop's `tcp_reply` is nine steps, since it reads
`tcp_current_buf` again in each statement; the handler's is two, before and
after the wait for the MAC. `txbuf`, `ready` and `sending` are the transmit
buffer and its descriptor. Callers that mask the interrupt and callers that do
not both run; `torn` records that the handler replied inside a call that had not
masked it, `early` that a frame was copied before the one ahead had left.

**EthmacRx.** The handler's place is `place`, and the initial state `RingInit`;
one module of proofs holds `pc` and `Init` of the serial loader as well. The
MAC's side is taken from the descriptor and interrupt logic of
`eth_wishbone.v` and `eth_registers.v`: it stays at a descriptor that is not
empty and drops frames there. The handler is `Interrupt`, `Skip` or
`Found`-`Parse`-`Mark` for each buffer, and `Finish`. `raced` records that a
frame ended between two steps of the scan.

**Packet.** One action, `parse_rx_packet`, for a frame of `Frames`: the answer
to an ARP request or a ping, and who else is given the packet. IP headers and
ICMP messages are bytes, so that the checksum is the code's. It answers any ICMP
message that is for this station, whatever its type, and looks at no checksum of
what comes in, as the code does; IP options move the message, and the answer
then carries bytes of the stack that nobody set (`Stack`).

**TcpConn.** A socket and its telnet session are one record. A client's segment
is received by an action of the client that runs the whole of
`parse_tcp_packet`; the chain is walked by `process_sockets` with the pair `pc`,
`at`. `tcp_reset` is never set in the code, so its branch is absent.
`process_tftp`, which runs before each round, is the third place that asks
sockets to disconnect: after anybody's upload, all of them (`tftp.c:184`), and
when its timer expires again the boot loader ends (`"rebooted"`). That there is
an upload is a choice of the model here; `Tftp` has what leads to it. `struck`
records that a socket got a reset while it listened. `rude`, which only the
greeting (`Served`) depends on, records that a client was reset or vanished
before it was greeted, or that a host sent a reset for a client that had gone.

**TelnetOptions.** A packet is `parse_telnet_payload`: options at its head, then
text. The client's items are a letter, a carriage return, negotiations, two-byte
commands and a subnegotiation; TCP cuts their bytes anywhere. The stage of the
parser is a local variable, so that an option in two packets is not recognised;
that, a subnegotiation, a two-byte command and an option behind text leak into
the text or swallow some of it. `strange` records them.

**Tftp.** A block is the pair of its upload and its number. `file` is what
`udp_file_g` points to and `old` what the main loop still walks after a write
request replaced it; `detached` tells the two apart. `tcp_disconnect` is the
flag of all sockets in the chain. `hurried` records that the
client began an upload before the verdict on the last one.

**Elf.** The three splitters share their walk and differ in where they write:
memory, in whole words (serial boot loader), memory from `ExecBase` down and a
table below `MemBufEntries` (Ethernet boot loader), or a buffer (host tool). A
file has any table of sections: the code takes them as they come, with no test
of their order, place or distance. The serial splitter stores a word at the word
its address is in, as the processor does: a section whose address is no multiple
of four lands up to three bytes below it (`Crook`), and its last word may reach
beyond it. `outbuf` of the Ethernet boot loader is never set, though it is
written through: `placed` says whether it happened to be 0.

**Xmodem.** `xmodemReceive` is `Prompt`, `Silence`, `Listen` (a packet, an end,
a cancel), `SecondCan` and `LastPoll`. A packet is one message, whose `fate` is
what noise did to it: a garbled one fails its check, a beheaded one lost its
first byte and is taken for something else (`Junk`). The sender follows the
protocol: it starts when it is prompted, sends a block again when it hears NAK
or nothing, and gives up after `Tries`. It is not part of the repository. Three
histories name what the receiver cannot survive: `beheaded`, `crossed` (a second
prompt passes the sender's first packet, so that one of its answers is taken for
another) and `rewound`: the number before 0 is -1 to the code (`xmodem.c:176`),
so that packet 255 sent again at the wrap is a bad packet, for ever.

**Console and SerialLoader.** `Key` is one turn of `main`'s loop. `seen` is what
the terminal shows up to the cursor, `odd` that the line holds characters that
do not show: a backspace on an empty line is stored. `parse` works on the buffer
with what older lines left in it. `SerialLoader` joins the two on one line: the
user types when the emulator is idle, and what the sender still sends when the
transfer has returned is read as keys (`Stray`).

**Memcpy.** As it is built: `LITTLE_ENDIAN` and `INDEXED_COPY`. `Align` copies
bytes until the destination is aligned, `NoShift` and `CopyShift` whole words,
`Remaining` the rest. The eight shifted loops are one action with the shift as a
parameter.

**Printf.** `print` of one conversion. `_div` takes its operands for signed, so
that `%u` from 2^31 on and the smallest `%d` come out wrong (`Misprinted`).
`get_hex` reads the output back. `boot-loader-ethmac/print.c` repeats this file.

**Uart.** The transmitter of one UART, the receiver of another and the wire
between them, one step for each clock, with the real pulse counts; the two ends
of the bus are `_outbyte`, which polls the full flag and writes, and `_inbyte`,
which polls the empty flag and reads. The flags are registered, one clock late,
and the clock in which a read is acked hides it.

**MemoryBus.** The arbiter with its holds, the bridge with its request registers
and write buffer, and the controller's command, data and read FIFOs, one step
for each clock. A master holds its request until the ack. A line has one word,
and byte lanes and masks are left out. The controller takes its commands when it
likes.

**Units.** One behaviour runs one of the units, so that one run checks them all.
`Timer` is one of them too; its liveness has a run of its own, with fairness.

`MCLineBuffer`, `MCTftp`, `MCTcpConn`, `MCSerialLoader` and `MCUnits` define the
packets, files, ports, keys and frames that the configurations choose from.

## What the runs check

A run explores sound and unsound traffic of its component, within the bounds
below and what the last section leaves out, and a property that only holds for
part of the traffic names that part, mostly by a history variable that records
the first time the rest happened. Two runs leave traffic out by a constant:
`TcpConn` gives its clients ports of their own, and `TcpRing` is restricted by
constants to one kind of client, which repeats no ack (`Repeats`) and keeps up
with the ring (`Paced`); what can go wrong with the others is a theorem
(`NothingElseLost`, below). Each such property says two things: that the code is right
until then, and that nothing else goes wrong. An invariant whose name ends in
`Inv` joins the type invariant with the safety properties that are proved
together with it.

| Run | Shows |
|---|---|
| `Timer` | Polling comes to fire a timer that was set, again and again (`KeepsFiring`). |
| `LineBuffer` | The indices stay in the buffer (`TypeOK`) and the bytes in order (`InOrder`); before the wrap, a client that sends lines has each returned whole, and nothing is read that was not written (`ReadSound`); as long as it types no Ctrl-A, each line is returned in the end (`LineDelivered`), and a call that returns nothing leaves no complete line behind (`NothingHeld`). |
| `TcpRing` | With a client that acks before it sends, acks are sound through both wraps (`AckSound`) and sequence numbers contiguous (`SeqInv`), the ring refines `ByteStream` (`ImplementsStream`), acks are complete in the first lap (`AckComplete`), and every byte arrives (`Delivered`). |
| `TcpTx` | Masking excludes the handler; until it replies inside a call that does not mask, slots describe their packets and sequence numbers are distinct (`RingInv`); frames are spoilt only by that or by an early copy (`IntactUnlessEarly`); calls end (`Returns`). |
| `EthmacRx` | No frame is lost from the ring, overwritten or parsed twice (`FramesInv`); one with a pending source is parsed (`RaisedIsParsed`); until `raced`, the MAC never waits in vain and a lap is parsed in order (`KeepsUp`). |
| `TcpConn` | One way in and no mixing of connections whatever clients do (`SocketsInv`); until an upload ends all sessions, a connection is closed only because its client asked or because its socket was reset while it listened (`OnlyWhenAsked`); quit closes, unless the loader reboots first, and until then and until `rude` clients are greeted and telnet listens again (`Served`). |
| `Tftp` | What is acked is saved, once and in order (`SavedInv`); until `hurried`, the image is whole (`ImageWhole`) and the file that was sent is started, after the sockets were asked to disconnect (`BootsOneFile`, `Starts`). |
| `SerialLoader` | The command carried out is the one on the screen (`ObeysScreen`); a recalled line does it again (`RecallRepeats`); memory holds the beginning of the file, and all of it at a normal end (`TransferSound`); a transfer that starts comes to a normal end (`Succeeds`). |
| `Units` | Blocks overlap only after a call of the handler fell between the load and the store of the pointer (`DisjointUnlessTorn`), and alignment survives even that (`Aligned`); the clock is normalised (`ClockInv`), a 500 ms timer is never early (`NeverEarly`), its lateness is bounded and it is never mistaken for one that is not set (`ClockInv` too); copies are exact at every alignment (`CopyExact`); printed numbers read back (`ReadsBack`); the three splitters make the file's image, with sections in any order, but for the bytes that the property names (`ImageExact`); ARP and ping are answered correctly (`ReplySound`); options do not become text (`OptionsKeptOut`); telnet output is sent as it was put (`TextAsPut`); UARTs lose and invent nothing (`BytesArrive`); reads return what was last written (`ReadsLatest`). |

Three more runs expect a violation: each checks one property that states what a
comment of the code says, and TLC finds the counterexample. They are the
*findings* of `PROJECT.json`.

| Run | Counterexample |
|---|---|
| `TcpRing_repeated` | An ack that repeats the last one marks every outstanding packet; one that was lost is not sent again. |
| `TcpConn_halfopen` | A client that resets or goes away before it is greeted leaves telnet without a listening socket for ever. |
| `MemoryBus_full` | A write that meets a full command FIFO is acked, but its command is never issued: its data goes to the address of a later write. |

Other counterexamples that the models give when a constant or a condition is
changed, and that explain the conditions above:

- `Malloc` without `torn`: the handler allocates between the load and the store
  of the pointer, and the main loop and the handler get the same block.
- `Timer` with `Interval = 1000` (the reboot timer of `tftp.c:170`): a tick
  between the loads of `set_timer` at a full second arms a timer that fires
  almost at once, and `NeverEarly` fails.
- `LineBuffer` for a client that types key by key: a line is returned in pieces
  (`WholeLine`), and a complete line waits behind an unfinished one
  (`LineDelivered`). Without `FirstPass`: the writer wraps inside a line and the
  reader only between lines, so that a line across the wrap is never returned
  (`LineDelivered`). Without `Tame` (`NothingHeld`) and the same condition in
  `LineDelivered`: a Ctrl-A passes `telnet.c:218` and is taken for the mark that
  the line goes on (`line-buffer.c:136`), so that neither its line nor any behind
  it is returned, unless the buffer comes round over it.
- `TcpRing` past the first lap: the loop of `tcp_ack` breaks at the first slot
  it does not cover and leaves older ones unmarked (`AckComplete`). With a stray
  ack ahead of the stream, as in `Strays = {6}`: a listening socket notes it in
  `tcp_rx_ack`, and later acks are taken for wrapped ones (`AckSound`).
- `TcpTx` without `early`: `ethmac_tx_packet` copies first and polls the ready
  bit afterwards, over the frame that is being sent.
- `EthmacRx` without `raced`: the source is cleared after the scan, with the
  interrupt of a frame that ended behind it; if it is the last of a burst it
  waits for another frame, and when the ring is full there is never another one.
- `TcpConn` with `OnePort` for `OwnPorts`: commands of one host are run for the
  other (`RightConnection`). Without `struck`: a late reset is kept by the
  listening socket and disconnects the next client (`OnlyWhenAsked`). Without
  `reboot_stage_g`: an upload closes the connections of clients that asked for
  nothing.
- `Tftp` without `hurried`: a write request replaces the file that
  `process_file` copies (`ImageWhole`), or the file whose vectors wait for the
  reboot (`BootsOneFile`). With `BlockMod = 2`: blocks past the wrap of the
  block number are acked and dropped (`AckedSaved`).
- `Elf` without `Straight`: a section of the serial loader that starts between
  two words is moved down, and the end of its last word or its beginning may spoil
  a section copied before. Without `Apart`: of two sections that share a word or
  a byte the later one in the file wins (`ImageExact`). Without `Lost`: the byte
  at `MEM_BUF_ENTRIES` goes behind the table, those from `ADR_EXEC_BASE` on are
  refused, and all that go through `outbuf` depend on what it holds.
- `Console` without `full`: a line that was ended by its length is recalled
  without its last character (`boot-loader-serial.c:90`). Without `Overlong`:
  `get_hex` pushes the first of nine digits out.
- `Xmodem` without `crossed`: a NAK that still asks for the start reaches a
  sender that has sent its first block. The block is sent and acked twice, the
  sender is one ack ahead from then on, and a block that is lost later is taken
  for received. A file longer than `DestSize` ends normally and is cut.
- `TelnetTx` past the first lap: a packet is taken from consecutive memory
  though its lines are not, and carries what lies behind the wrap (once in 512
  KB).
- `MemoryBus` past `pressed`: a read that meets a full command FIFO is lost as
  well, and the bus waits for ever.

### Bounds

- Rings: 3 slots stand for 256 transmit slots and 8 receive buffers. The code
  treats all slots alike but for the first and the last. `TcpRing` goes round by
  two slots, and its sequence numbers modulo 7 wrap; `EthmacRx` goes round more
  than twice; `TcpTx` fills each slot once.
- A line buffer of 13 bytes with lines of 4 stands for 4096 and 128: what
  matters is how often a line fits, and where the wrap falls in a line. Clients
  type up to 12 bytes, past the wrap after 9, or 7 when they type ahead; those
  that type a Ctrl-A type up to 9, or 5. For
  output, 30 bytes with lines of 6 and packets of 12: the wrap falls after 24 of
  at most 28 characters.
- Time: four seconds in ticks of 10 ms; one tick inside a call of `set_timer`,
  whose loads take microseconds.
- TFTP: files of up to three blocks, block numbers modulo 8 (no wrap), two
  packets on their way in each direction.
- Connections: two clients, each of which connects once; a third adds nothing
  new to the chain but another closed socket.
- Serial boot loader: lines of 7 characters, numbers of 2 digits and three
  pieces typed, enough for a command with two numbers to be edited, recalled and
  cut. Packet numbers modulo 3 wrap in a file of three blocks; memory for two of
  them; noise hits two messages, one fewer than the sender tries, and two polls
  are left to the receiver, so that each of the ways to give up is taken.
- Units: four blocks from sizes below, at and above 256; copies of up to 70
  bytes at all 16 alignments, twice round the unrolled loop of eight words and
  every rest; words of 8 bits for 32 in printing, all values; files of up to
  three sections of up to 6 bytes, in any order, apart, adjacent and overlapping,
  at words and between them and on both sides of the limits of the Ethernet boot
  loader; three items of a telnet client in
  every cut; the UART's own pulse counts with FIFOs of two entries for 16 and
  four bytes; two lines of memory, three writes and two commands in the
  controller's FIFO for four.
- Bounds on histories and traffic (`MaxFrames`, `MaxReplies`, `most`,
  `MaxBytes`, `MaxBlocks`, `MaxNoise`, `MaxWrites`) are in the guards of the
  actions that start new work, never in those that finish it.

### Fairness

Only what the code's scheduling gives: the main loop goes on (`WF` on its
actions, or `SF` in `TcpTx`, where interrupts may fall between any two of its
steps); the handler, once entered, ends; a pending enabled interrupt is taken;
the MAC finishes a frame. Timer ticks come for ever. Peers are fair only where
delivery is the question: `TcpRing` assumes that each byte sent again and again
arrives in the end (strong fairness of its delivery), `Tftp` the same of
requests and acks, `TcpConn` that a client repeats its SYN and ack until they
are received, and `SerialLoader` that a sender that has started goes on, answers
and times out, with noise that ends. One assumption is about time: a sender at
work is not silent for as long as all of the receiver's polls take (`Silence`):
80 polls of `DLY_1S` against the timeouts of a terminal emulator.

## Proofs

`tlapm` checks eight modules, for every value of the constants that satisfies
the assumptions named in the modules; none bounds the number of steps or of
actors. `LineBufferProofs`, `TcpTxProofs`, `TcpConnProofs`, `TftpProofs` and
`TcpRingProofs` are about one component each, `LoaderProofs` about what reaches
the boot loaders (`SerialLoader` and `EthmacRx`). `UnitsProofs` and `DataProofs`
are about the parts of `Units`; the second has those that go over data in loops.

- **LineBuffer.** `InsideBuffer` proves the bounds of both indices for every
  client. `BytesInOrder` holds until the buffer comes round (`FirstPass`), for
  every size and every client, typing ahead or not; its invariant is that cell
  *n* holds byte *n + 1* below `write_ptr` and a marker at it, that the reader
  is not ahead of the snapshot it took, and the snapshot not ahead of the
  writer. `LinesWhole` proves `ReadSound`, which adds that a client that sends
  line by line has each line returned whole (`WholeLine`). `LineInv` says what
  such a client makes of the buffer: `OneLine`, what was typed and not yet taken
  is part of one line; `WholePoll`, a poll starts when no packet is half put and
  looks at all of that line; `LastLine`, what the last call returned holds no
  end of line but its last byte. `LinesWhole` is safety only. `NoneHeldBack`
  proves `NothingHeld`: if such a client typed no Ctrl-A, `get_line` only returns
  0 while no line is complete, because the cell its scan stops at is the mark of
  the one line there is. `OrderThroughWrap` proves `InOrder` as the runs
  check it: a client that waits for its answers has its bytes returned in order
  for ever, in a buffer of more than two lines (the code's has 32). `RingInv`
  follows the unread bytes round the wrap: there is at most one line of them
  (`Ahead`), because the client only goes on when every line that ended was
  returned; they lie one after the other from `read_ptr` on (`Waiting`), with a
  marker in the cell where they turn, which stops a scan that would run past it;
  and a scan covers no more than what was there when it began (`Scanned`).
- **EthmacRx.** `FramesHold`: every frame that came is in a buffer or parsed,
  and never parsed twice, however MAC and handler interleave. `FramesInv` does
  not say which buffer holds a frame; the invariant does: full buffers hold
  different frames that came, a buffer whose frame is parsed is the one at hand,
  about to be marked, and the MAC writes the next frame to an empty one.
  `HandlerKeepsUp` proves `KeepsUp`: unless `raced`, the MAC is never left at a
  full buffer that no handler will free, and the frames of a lap are parsed in
  the order they came. `KeepInv` needs to know where the frames are. `Rounds`: a
  full buffer below the one the MAC is at was filled in this round, another one
  in the last. `ScanInv`: the buffers between the MAC and the scan, or all
  behind the scan, are empty (`Behind`), and when no interrupt is pending those
  from the MAC on are (`Quiet`). `LapInv` is the order.
- **TcpTx.** `RingHolds` and `FramesLeaveWhole`. The invariant has three parts
  on top of the type: while a call that masks is under way the handler is not
  in, and the mask is what the callers made it; the slots behind the cursor are
  settled, the one at it is as far as the call's stage says, and the sequence
  number follows the last one; and what is in the transmit buffer or on the wire
  is what the slot described, unless `early` or `torn`.
- **TcpConn.** `SocketsHold` and `ClosedWhenAsked`, for any number of clients
  with different source ports (`DistinctPorts`). One way in is not inductive: a
  greeted connection makes a new socket while an older one could still wait.
  `Door` follows a socket from the moment it listens until it is greeted, and
  only then is a new one made. `Own` ties what a socket holds to the client
  whose SYN it answered. For `ClosedWhenAsked` a request to disconnect is
  followed from the one who made it to the end of the connection.
- **Tftp.** `SavedHolds`, `WholeImages` and `OneFileBoots`, for any files whose
  block numbers do not wrap (`NoWrap`) and any number of packets on their way.
  The invariant names the upload whose write request was taken last; the client
  is at the block that was saved last, at the next one or at the next write
  request, every packet is one of the two, those of the later one behind, and
  until `hurried` the main loop works on a file that is whole; the reboot is the
  second stage, behind the request to disconnect.
- **TcpRing.** `NumbersFollow` proves `SeqInv`: the numbers of the slots are
  those of their positions in the stream, in the order of the ring.
  `MarkedArrived` proves `AckSound`, that a slot marked as acked did arrive, when
  acks only advance (`AcksAdvance`): the inductive part, `AckInv`, is that
  `tcp_rx_ack` is the number of an ack that the peer has given. Which slots a
  number covers is arithmetic modulo the width of sequence numbers; the lemmas
  before the theorem settle it for every width, start and window in which the
  window does not take the first numbers past the wrap (`SeqAssumption`).
  `AckedMarked` proves the other direction,
  `AckComplete`, for a stream that does not come round (`ShortStream`), where
  the slots lie in line (`Lined`). `NothingElseLost` proves `LosesNothingElse`,
  with no condition on the client, its acks or strays: each step of the ring
  leaves the stream as it is (`Still`) or takes one of its steps (`Moves`), but
  for the three kinds of step that are named. Without strays ahead and without
  an ack that repeats the last, the numbers an ack covers are those of bytes that
  arrived (`CoversOnly`, `CoversAll`); a slot is only lost by being filled.
  `RingImplementsStream` says the same of whole behaviours: one without any such
  step implements `ByteStream`. The code prevents none of the three
  (`tcp.c:477`, `tcp.c:500`): they are conditions on client and network. TLC
  agrees that none of the three can be left out: with `Paced = FALSE`,
  `Repeats = TRUE`, `Strays = {2, 5}` and two slots, `LosesNothingElse` holds, and
  fails without any one of them.
- **SerialLoader.** `FileArrives` proves `TransferSound` for files and noise of
  any length, any bound on polls and repeats, and packet numbers modulo 3 or
  more (`NumberAssumption`): what is in memory is a beginning of the file. The
  receiver has taken *r* blocks, and `TransferInv` says what can be about then.
  What is on the line to it (`OnTheLine`) are blocks from *r* to *r + 2* with the
  numbers that go with them, in order, so that the number tells a repeat from
  the next block. That they go no further is the hard part, because nothing
  counts them: a message and its answer are a single token (`AtWork`, `Due`),
  which the sender holds or has sent, and only a prompt that crosses the
  sender's start makes a second one (`Alone`, `Limit`). An end before the last
  block can only come of that.
  `ScreenObeyed` and `RecallIsExact` prove `ObeysScreen` and `RecallRepeats` for
  any keys and any lengths of a line and of its numbers (`LineFits`).
  `ConsoleInv` adds to them that a line that is not `odd` has no hidden
  character, that the line kept for recall is the one `kept` tells of, and that
  it still stands in the buffer as recalled. The lemmas before it are about
  `parse`: `ParseLocal`, it reads nothing behind the end of a line, so that what
  older lines left there does not matter; and `ParseAsked`, the digits it finds
  (`IsRun`) are the longest run on the screen (`IsLongest`).
- **Units.** A behaviour of `Units` is one of the parts that stand on their own.
  A step of one leaves the variables of the others alone, so each proof has the
  invariant of its part and one lemma that the other parts do not disturb it.
  - *Malloc.* `RoundUpBounds` is the arithmetic of the rounding.
    `TornIsTheOnlyOverlap` proves `DisjointUnlessTorn` for any sizes and any
    number of calls of both actors. Disjointness is not inductive: nothing in it
    says where the next block will lie. `BumpInv` adds that the blocks are
    stacked in the order they were handed out, all below the pointer, and that
    between the load and the store `r2` still equals the pointer.
    `AlwaysAligned` needs only that the pointer and a loaded `r2` are aligned,
    and holds whether or not a call was torn. `MallocAlone` is the step from
    `Units` to the specification of `Malloc`.
  - *Timer.* `TypeCorrect`, the first part of `ClockInv`, is inductive as it
    stands. `TornIsBounded` proves the rest. It needs `StoreBounds`, which says between the loads how far the clock may have moved
    past the values already stored. `NeverEarlyHolds` adds that what was stored
    is at least the base time plus the interval (`NotEarly`), under the
    assumption `Margin`: the ticks that fall in one call fit into the part of the
    interval below a second, and into the rest of that second. The
    counterexample above shows that it is needed.
  - *Memcpy.* `CopyIsExact` proves `CopyExact` for every count, both alignments
    and any number of turns of the unrolled loop (`CopyAssumption`): the bytes
    that were asked for are copied, and no others are touched. The invariant,
    `Copying`, says what memory is after *n* bytes and what is left to do; for a
    source that is not aligned, `WordAhead` says what the word loaded ahead
    holds.
  - *Elf.* `ImagesAreExact` proves `ImageExact` for any number of sections, of
    any place and length and in any order. What a cell holds is decided by the
    last section that wrote it (`Writers`): it is a byte of that section, and the
    one the file wants there if that section is meant for the cell (`Wanters`).
    `TailsSpare` is the geometry of the serial splitter: words of a section that
    starts at a word do not reach into one that is apart and starts at a word.
  - *TelnetTx.* `OutputIsText` proves `TextAsPut` for output that does not come
    round (`TextFits`): a packet carries the characters printed, in order and
    none twice. `FirstLap` says what each half of a cell holds, behind the
    writer and at it.
  - *MemoryBus.* `BusIsMemory` proves `ReadsLatest` for any number of lines,
    writes and entries of the command FIFO, until `pressed`, when a transfer
    meets a full command FIFO: a read returns the newest write before it. The
    write buffer of the bridge is only used from then on, so that the theorem
    says nothing of it; `MemoryBus_full` shows what is wrong there. `BusInv`
    keeps commands and data in step: the writes in flight are those whose data
    is on its way, in the same order; a read is behind all of them; and memory,
    with what is in flight applied to it, is what the processor expects.
  - *Uart.* `BytesAllArrive` proves `BytesArrive`, clock by clock, for any depth
    of the FIFOs, any bytes, bit periods from 20 clocks on and any adjustment of
    the stop bit that is not more than 6 clocks below a period
    (`UartAssumption`). The two ends share nothing but the line, so `UartInv`
    says where the one is when the other is somewhere: from a start bit on, the
    receiver is a fixed number of clocks behind the transmitter (`Lag`), and its
    counter follows from the transmitter's state and count (`Place`). Each bit
    is then sampled while it is on the line, and the bits so far are those of
    the byte at the head of the sender's FIFO (`BitsSoFar`). `Spare` is flow
    control: while a byte is awaited or under way there is room for it, because
    the flag that stops the next one is read before it can start. `Reads` is the
    bus: a flag that says that there is a byte is right whenever a read may
    follow. `Stream` joins them: what was written is what was returned, then the
    receiver's FIFO, then the sender's without the byte that has passed over.
  - *Packet* (`DataProofs`). `RepliesSound` proves `ReplySound` for every frame
    that `Legal` allows (`FramesAssumption`) and whatever the stack held. The
    hard part is the checksum. The code adds the bytes one by one, those at odd
    places times 256, while the reader adds words: `SumOfWords` says that the
    sums are equal, for odd lengths too; `Carries`, that two turns of the carry
    are enough for any message of the station; `ChecksumVerifies`,
    that a message with its complement in it sums to a multiple of 65535 and not
    to 0. `HeaderSound` and `EchoSound` follow the bytes that are copied.
  - *Printf* (`DataProofs`). `NumbersReadBack` proves `ReadsBack` for ints of two
    or more hexadecimal digits, and any width (`PrintfAssumption`). `LoopEnds`:
    the loop of `printi` ends, because each quotient is nearer to zero; where
    `_div` takes the word for a negative number, the distance to 2^32 is what
    shrinks (`Distance`). `Spelled` and `HexSpelled`: read from the front, the
    digits are the number. `PaddedIs` gives the ways a number is laid out, and
    `ReadAs` and `HexReads` read each of them back.
  - *TelnetOptions* (`DataProofs`). `OptionsStayOut` proves `OptionsKeptOut` for
    any items of any number, of which text has no `IAC` (`ItemsAssumption`), and
    any cut into packets. `OptionsInv`: until `strange`, what has arrived ends
    with an item, item *m*, and then the line buffer is `Typed[m]` and the echo
    `EchoAsked[m]`. For a packet that takes whole negotiations and then whole
    text, `Heads` says that after each negotiation the parser is between options
    (`Between`) with the echo as it was asked; `Finds`, that it stops at the
    first byte that is text, those that are not letters having been skipped; and
    `Tails`, that the text from there on fills the buffer as the items do one by
    one. `SameItem` is about the ends of items: a place in the stream is the end
    of one item only.

`PROJECT.json` lists the theorems with the properties of the runs that they
state. Every invariant of the passing runs is stated by one of them, and so are
the action property `NothingHeld` and the refinement of
`ByteStream`.

Loops over data are recursive functions in the models, and what they compute is
proved by induction over the numbers below the length of the data. The induction
theorems of the library take a predicate as an operator, which the provers cannot
instantiate. `DataProofs` states induction for sets instead: `Least` (a set of
naturals has a least element) comes from the well-foundedness of the order of
`Nat` and the minimality theorem, and `Induct` from `Least`. With it, `Loop`
(steps that are functions) and `Looping` (steps that are relations) say that a
recursive function has the value of its loop after each turn. `LoaderProofs` uses
`Least` too, for the digits of a command.

Out of the prover's reach and left to TLC: liveness, with the fairness and
`ENABLED` it rests on (`KeepsFiring`, `LineDelivered`, `Delivered`, `Returns`,
`RaisedIsParsed`, `Served`, `Starts`, `Succeeds`).

## What is not modelled

- The texts of packets and screens: TCP and UDP headers, option strings of TFTP,
  what commands print. The commands of telnet are to quit or any other.
- `malloc` at the end of memory: it never checks (`start.S:456`), and nothing is
  ever freed, so that every connection and every upload takes memory for good.
- The status bits of a received frame (`ethmac.c:321`): the code does not look
  at them, and a frame with an error is parsed like any other.
- Any promise about a FIN on an open connection (`tcp.c:336`): `TcpConn` has the
  segment, and as in the code it leaves the socket open.
- A TFTP data packet before any write request (`tftp.c:115`), which goes through
  a null pointer: the client of `Tftp` follows the protocol.
- What becomes of bytes in a slot that is filled again before they arrived
  (`tcp.c:477`): they are lost. `Paced` keeps `TcpRing` from it, and
  `LosesNothingElse` names it.
- More input than a line buffer holds (`telnet.c:231`), and the two stores in
  which a new socket is already in the chain and its next pointer not yet clear
  (`tcp.c:103`): both have the effect of whatever memory held.
- Sections of an ELF file that lie over the file itself or over the loader that
  copies them, or beyond the buffer of the host tool: none of the three
  splitters looks.
- Uploads and IP packets with lengths below their headers; fragments.
- On the serial side: characters of the screen to the right of the cursor, the
  keyboard during a transfer, the start in simulation (`boot-loader-serial.c`
  without a prompt), commands that read and write memory. A CRC is taken to
  detect every garbled packet.
- `strcmp` of `utilities.c` (which takes a prefix for equal), `strcpy`,
  `strncpy` and `strncmp`.
- The third-party MAC beyond descriptors and interrupt sources; the PHY, which
  is set up by a sequence of register writes with nobody else active.
- UART interrupts, its receive timeout and its mode without FIFOs, which is tied
  off; overflow of a receive FIFO by a sender that ignores flow control. Both
  ends run from one clock.
- Slaves of the bus other than memory, which are chosen by address only; the
  branch of the bridge for a bus of 128 bits, where a buffered write is not even
  given to the data FIFO (`wb_xs6_ddr3_bridge.v:171` does not look at
  `write_buf_r`); the bridge of the other board; two FIFOs (`afifo.v`, `ddr3_afifo.v`) that nothing
  instantiates.
- The interrupt controller and the timer module: masks and counters without two
  actors, but for the masks that `EthmacRx` and `TcpTx` have where software uses
  them.
- Timing other than ticks of the timer and clocks of the hardware modules.
  `early` and `raced` stand for the two comparisons of speed that matter: the
  time to build a frame against the time to send one, and the time to pass an
  empty descriptor against the time to receive one.
- The processor cores: pipelines with caches are beyond explicit-state checking.
  The models take from them that an interrupt can fall between any two
  instructions and that each word access is atomic.
- Demo programs, hardware tests, the Linux image, tools that rewrite text files,
  and the lab's test bench and netlist: no state shared by two actors.
