----------------------------- MODULE MemoryBus -----------------------------
(***************************************************************************)
(* The path to main memory, clock by clock: the Wishbone arbiter between   *)
(* the Ethernet MAC (master 0) and the processor (master 1), the bridge to *)
(* the memory controller (wb_xs6_ddr3_bridge.v), and the controller's      *)
(* FIFOs.  Memory is the only slave; an address is a line of it.           *)
(***************************************************************************)
EXTENDS Integers, Sequences, FiniteSets

CONSTANTS
    Lines,      \* bound: addresses
    CmdDepth,   \* entries of the controller's command FIFO
    MaxWrites   \* bound: writes; the n-th one writes n

VARIABLES
    req,        \* the transfer of each master: stb, we, adr, dat, and cyc
    arb,        \* current_master_r and the hold registers
    br,         \* registers of the bridge
    mcb,        \* the controller: its FIFOs and the memory
    want,       \* history: what was last written and acked, for each address
    answer,     \* history: the last read: what it got, what was wanted
    writes,     \* history: writes begun
    pressed     \* history: a transfer met a full command FIFO

busVars == <<req, arb, br, mcb, want, answer, writes, pressed>>

None == [stb |-> FALSE, we |-> FALSE, adr |-> 0, dat |-> 0, cyc |-> FALSE]
Cleared == [l \in Lines |-> 0]

Idle ==
    /\ req = [m \in {0, 1} |-> None]
    /\ arb = [current |-> 0, hold |-> [m \in {0, 1} |-> FALSE]]
    /\ br = [wreq |-> FALSE, rreq |-> FALSE, adr |-> 0, active |-> FALSE, ready |-> TRUE,
             ack |-> FALSE, dat |-> 0, cmd_en |-> FALSE, cmd |-> [we |-> FALSE, adr |-> 0],
             wr_en |-> FALSE, wr |-> 0, buffered |-> FALSE, buf |-> 0]
    /\ mcb = [cmds |-> <<>>, data |-> <<>>, read |-> <<>>, memory |-> Cleared]
    /\ want = Cleared /\ answer = <<0, 0>> /\ writes = 0 /\ pressed = FALSE
-----------------------------------------------------------------------------
(* The arbiter: the MAC comes first, but a transfer is not split up.       *)

next_master == IF req[0].cyc THEN 0 ELSE 1

\* Mutation: the holds of the two masters are swapped.
select_masterSwapped == ~arb.hold[1 - arb.current]

select_master == ~arb.hold[arb.current]

current_master == IF select_master THEN next_master ELSE arb.current

Master == req[current_master]
-----------------------------------------------------------------------------
(* The bridge.                                                             *)

cmd_full == Len(mcb.cmds) = CmdDepth

write_request == Master.stb /\ Master.we /\ ~br.rreq
read_request  == Master.stb /\ ~Master.we /\ br.ready

write_ack == write_request /\ ~br.buffered
wb_ack    == (Master.stb /\ br.ack) \/ write_ack

rd_valid == mcb.read # <<>>

\* Every register of the bridge after the clock.  The stages towards the
\* controller stand still while its command FIFO is full.
Bridge ==
    [wreq   |-> IF cmd_full THEN br.wreq ELSE write_request,
     rreq   |-> IF cmd_full THEN br.rreq ELSE read_request,
     adr    |-> IF cmd_full THEN br.adr ELSE Master.adr,
     cmd_en |-> IF cmd_full THEN br.cmd_en ELSE br.wreq \/ br.rreq,
     cmd    |-> IF cmd_full THEN br.cmd ELSE [we |-> br.wreq, adr |-> br.adr],
     wr_en  |-> IF cmd_full THEN br.wr_en ELSE write_request \/ br.buffered,
     wr     |-> IF cmd_full THEN br.wr ELSE IF br.buffered THEN br.buf ELSE Master.dat,
     buffered |-> cmd_full /\ (write_request \/ br.buffered),
     buf    |-> IF cmd_full /\ write_request THEN Master.dat ELSE br.buf,
     ready  |-> br.ack \/ (br.ready /\ ~read_request),
     active |-> read_request \/ (br.active /\ ~br.ack),
     ack    |-> rd_valid /\ br.active,
     dat    |-> IF rd_valid /\ br.active THEN Head(mcb.read) ELSE br.dat]
-----------------------------------------------------------------------------
(* The controller takes commands in order, when it comes to it (go).  It   *)
(* shows what it read for one clock: its read FIFO is always emptied.      *)

Ready == mcb.cmds # <<>> /\ (Head(mcb.cmds).we => mcb.data # <<>>)

Controller(go) ==
    LET cmd == Head(mcb.cmds) IN
    [cmds   |-> (IF go THEN Tail(mcb.cmds) ELSE mcb.cmds)
                \o IF br.cmd_en /\ ~cmd_full THEN <<br.cmd>> ELSE <<>>,
     data   |-> (IF go /\ cmd.we THEN Tail(mcb.data) ELSE mcb.data)
                \o IF br.wr_en /\ ~cmd_full THEN <<br.wr>> ELSE <<>>,
     read   |-> IF go /\ ~cmd.we THEN <<mcb.memory[cmd.adr]>> ELSE <<>>,
     memory |-> IF go /\ cmd.we THEN [mcb.memory EXCEPT ![cmd.adr] = Head(mcb.data)]
                ELSE mcb.memory]
-----------------------------------------------------------------------------
(* A master keeps its transfer until it is acked.                          *)

Acked(m) == wb_ack /\ current_master = m
Free(m)  == ~req[m].stb \/ Acked(m)

\* What master m may ask for next; the MAC may keep its cycle in between.
Choices(m, n) ==
    IF ~Free(m) THEN {req[m]}
    ELSE {None} \cup {[None EXCEPT !.cyc = TRUE] : k \in {0} \ {m}}
         \cup {[stb |-> TRUE, we |-> FALSE, adr |-> l, dat |-> 0, cyc |-> TRUE] : l \in Lines}
         \cup {[stb |-> TRUE, we |-> TRUE, adr |-> l, dat |-> n, cyc |-> TRUE] :
                  l \in {k \in Lines : n <= MaxWrites}}

Begun(m) == IF Free(m) /\ req'[m].stb /\ req'[m].we THEN 1 ELSE 0

BusNext ==
    /\ \E go \in {FALSE} \cup {Ready} : mcb' = Controller(go)
    /\ br' = Bridge
    /\ arb' = [current |-> current_master,
               hold |-> [m \in {0, 1} |-> req[m].stb /\ ~Acked(m)]]
    /\ \E a \in Choices(0, writes + 1) :
          \E b \in Choices(1, IF Free(0) /\ a.stb /\ a.we THEN writes + 2 ELSE writes + 1) :
             req' = [m \in {0, 1} |-> IF m = 0 THEN a ELSE b]
    /\ writes' = writes + Begun(0) + Begun(1)
    /\ want' = IF wb_ack /\ Master.we THEN [want EXCEPT ![Master.adr] = Master.dat] ELSE want
    /\ answer' = IF wb_ack /\ ~Master.we THEN <<br.dat, want[Master.adr]>> ELSE answer
    /\ pressed' = (pressed \/ (cmd_full /\ Master.stb))
BusSpec == Idle /\ [][BusNext]_busVars
-----------------------------------------------------------------------------
ReadIsOnItsWay ==
    br.active => \/ br.rreq \/ br.ack \/ rd_valid
                 \/ br.cmd_en /\ ~br.cmd.we
                 \/ \E k \in DOMAIN mcb.cmds : ~mcb.cmds[k].we

(* As long as no transfer meets a full command FIFO, each master's reads   *)
(* return what was last written by either, and a read that waits for its   *)
(* answer is on its way through the bridge or the controller.              *)
ReadsLatest == pressed \/ (answer[1] = answer[2] /\ ReadIsOnItsWay)

(* "Buffer 1 write request": a write that meets a full command FIFO is     *)
(* kept, so that reads return what was last written.                       *)
BufferKeeps == answer[1] = answer[2]
=============================================================================
