-------------------------------- MODULE Tftp --------------------------------
(***************************************************************************)
(* Upload and reboot (tftp.c, udp.c).  A client writes files by TFTP, one  *)
(* block at a time; the interrupt handler acknowledges each block and      *)
(* chains it to the file of the last write request.  The main loop polls   *)
(* for a complete file, copies it to one buffer, splits the ELF image and  *)
(* arms the reboot timer; its second expiry starts the new program.        *)
(*                                                                         *)
(* udp_file_g is shared: the handler points it at a new file on each write *)
(* request, and the main loop loads it again at every use.                 *)
(***************************************************************************)
EXTENDS Integers, Sequences

CONSTANTS
    Uploads,    \* the files the client writes, one after the other
    BlockMod,   \* 2^16: block numbers are modulo BlockMod
    Cap         \* bound: packets in flight in each direction

ASSUME UploadsAssumption ==
    Uploads \in Seq([blocks : Nat \ {0}, elf : BOOLEAN, linux : BOOLEAN,
                     octet : BOOLEAN])
ASSUME ModAssumption == BlockMod \in Nat \ {0} /\ Cap \in Nat \ {0}

VARIABLES
    file,       \* the file udp_file_g points to
    null,       \* udp_file_g is still NULL
    old,        \* the file process_file walks, once udp_file_g has moved on
    pc,         \* the main loop's place in process_tftp
    detached,   \* process_file walks old, no longer file
    node,       \* process_file: the block it is at
    image,      \* process_file: the bytes copied so far
    elf_mem0_g, \* the vectors of the file split last; <<>> when not an ELF
    armed,      \* reboot_timer_g is set
    stage,      \* reboot_stage_g
    tcp_disconnect,  \* the sockets of first_socket_g's chain are told to close
    booted,     \* what reboot started
    up, blk,    \* the client: its upload, and the block it awaits the ack of
    hurried,    \* history: it began an upload before the verdict on the last
    requests,   \* packets on their way to the boot loader
    acks        \* replies on their way to the client

server == <<file, null, old, detached>>
loader == <<pc, node, image, elf_mem0_g, armed, stage, tcp_disconnect, booted>>
client == <<up, blk, hurried>>
vars   == <<server, loader, client, requests, acks>>

Whole(u) == [b \in 1 .. Uploads[u].blocks |-> [up |-> u, blk |-> b]]

Piece  == [up : 1 .. Len(Uploads), blk : Nat]
Packet == [up : 1 .. Len(Uploads), blk : Nat]    \* blk 0: a write request
Answer == [up : 1 .. Len(Uploads), ack : {-1} \cup 0 .. BlockMod - 1]
File   == [blocks : Seq(Piece), last_block : Nat, ready : BOOLEAN,
           complete : BOOLEAN, linux_boot : BOOLEAN]

TypeOK ==
    /\ file \in File /\ null \in BOOLEAN
    /\ old \in File /\ detached \in BOOLEAN
    /\ pc \in {"look", "clear", "size", "walk", "split", "timer", "rebooted"}
    /\ node \in Nat /\ image \in Seq(Piece)
    /\ elf_mem0_g \in Seq(Piece)
    /\ armed \in BOOLEAN /\ stage \in {0, 1} /\ tcp_disconnect \in BOOLEAN
    /\ up \in 1 .. Len(Uploads) + 1 /\ blk \in Nat /\ hurried \in BOOLEAN
    /\ requests \in Seq(Packet) /\ acks \in Seq(Answer)

\* init_buffer_512.
NewFile(linux) == [blocks |-> <<>>, last_block |-> 0, ready |-> FALSE,
                   complete |-> FALSE, linux_boot |-> linux]

Init ==
    /\ file = NewFile(FALSE) /\ old = NewFile(FALSE)
    /\ null = TRUE /\ detached = FALSE
    /\ pc = "look" /\ node = 0 /\ image = <<>>
    /\ elf_mem0_g = <<>> /\ armed = FALSE /\ stage = 0 /\ tcp_disconnect = FALSE
    /\ booted = [image |-> <<>>, linux |-> FALSE]
    /\ up = 1 /\ blk = 0 /\ hurried = FALSE
    /\ requests = <<>> /\ acks = <<>>
-----------------------------------------------------------------------------
(* The client: it sends the packet of its current block, again on a        *)
(* timeout, and goes on when the ack for it arrives.                       *)

\* The boot loader is through with every file, and does not reboot.
Settled == ~armed /\ ~file.ready /\ pc \in {"look", "timer"}

ClientSends ==
    /\ up <= Len(Uploads) /\ Len(requests) < Cap
    /\ hurried' = (hurried \/ (blk = 0 /\ ~Settled))
    /\ requests' = Append(requests, [up |-> up, blk |-> blk])
    /\ UNCHANGED <<server, loader, up, blk, acks>>

NextUpload == up' = up + 1 /\ blk' = 0

\* Each upload has a port of its own, to which its answers go; -1 is the
\* error reply, on which the client gives up.
ClientHears ==
    /\ acks # <<>> /\ acks' = Tail(acks)
    /\ LET a == Head(acks)
           refused == a.up = up /\ a.ack = -1 /\ blk = 0
           done    == a.up = up /\ a.ack = blk % BlockMod
       IN  IF refused \/ (done /\ blk = Uploads[up].blocks)
             THEN NextUpload
             ELSE up' = up /\ blk' = IF done THEN blk + 1 ELSE blk
    /\ UNCHANGED <<server, loader, hurried, requests>>

Lose ==
    \/ /\ requests # <<>> /\ requests' = Tail(requests)
       /\ UNCHANGED <<server, loader, client, acks>>
    \/ /\ acks # <<>> /\ acks' = Tail(acks)
       /\ UNCHANGED <<server, loader, client, requests>>
-----------------------------------------------------------------------------
(* The interrupt handler: parse_tftp_packet and udp_reply.                 *)

\* Mutations: a block is saved again; the short last block is left out.
SaveAgain(f, u, b) ==
    LET last == b = Uploads[u].blocks
    IN  IF b % BlockMod >= f.last_block
          THEN [f EXCEPT !.last_block = b % BlockMod,
                            !.blocks = Append(@, [up |-> u, blk |-> b]),
                            !.ready = last, !.complete = last]
          ELSE f

SaveShort(f, u, b) ==
    LET last == b = Uploads[u].blocks
    IN  IF b % BlockMod > f.last_block
          THEN [f EXCEPT !.last_block = b % BlockMod,
                            !.blocks = IF last THEN @
                                       ELSE Append(@, [up |-> u, blk |-> b]),
                            !.ready = last, !.complete = last]
          ELSE f

\* A block that was not received before is saved; a short one ends the file.
Save(f, u, b) ==
    LET last == b = Uploads[u].blocks
    IN  IF b % BlockMod > f.last_block
          THEN [f EXCEPT !.last_block = b % BlockMod,
                            !.blocks = Append(@, [up |-> u, blk |-> b]),
                            !.ready = last, !.complete = last]
          ELSE f

Receive == requests # <<>> /\ requests' = Tail(requests) /\ Len(acks) < Cap

\* UDP_WRITE: a new file, and an ack of block 0 or an error.
WriteRequest ==
    LET p == Head(requests)
    IN  /\ Receive /\ p.blk = 0 /\ pc # "rebooted"
        /\ file' = NewFile(Uploads[p.up].linux) /\ null' = FALSE
        /\ old' = IF detached THEN old ELSE file
        /\ detached' = TRUE
        /\ acks' = Append(acks, [up |-> p.up, ack |-> IF Uploads[p.up].octet THEN 0 ELSE -1])
        /\ UNCHANGED <<loader, client>>

\* UDP_DATA: every block is acknowledged, a new one is saved.
Data ==
    LET p == Head(requests)
    IN  /\ Receive /\ p.blk > 0 /\ pc # "rebooted"
        /\ acks' = Append(acks, [up |-> p.up, ack |-> p.blk % BlockMod])
        /\ file' = Save(file, p.up, p.blk)
        /\ UNCHANGED <<null, old, detached, loader, client>>
-----------------------------------------------------------------------------
(* The main loop: process_tftp.                                            *)

Look ==
    /\ pc = "look"
    /\ pc' = IF ~null /\ file.ready THEN "clear" ELSE "timer"
    /\ UNCHANGED <<server, node, image, elf_mem0_g, armed, stage, tcp_disconnect, booted,
                   client, requests, acks>>

Clear ==
    /\ pc = "clear" /\ pc' = "size"
    /\ file' = [file EXCEPT !.ready = FALSE]
    /\ UNCHANGED <<null, old, detached, node, image, elf_mem0_g, armed, stage, tcp_disconnect, booted,
                   client, requests, acks>>

\* process_file: the buffer, and the head of the list.
Size ==
    /\ pc = "size" /\ pc' = "walk"
    /\ detached' = FALSE /\ node' = 1 /\ image' = <<>>
    /\ UNCHANGED <<file, null, old, elf_mem0_g, armed, stage, tcp_disconnect, booted,
                   client, requests, acks>>

\* Copy one block of the list; the last has no successor.
Walk ==
    LET list == IF detached THEN old ELSE file
    IN  /\ pc = "walk"
        /\ image' = IF node <= Len(list.blocks)
                      THEN Append(image, list.blocks[node]) ELSE image
        /\ IF node < Len(list.blocks) \/ (node = Len(list.blocks) /\ ~list.complete)
             THEN node' = node + 1 /\ pc' = "walk"
             ELSE node' = node     /\ pc' = "split"
        /\ UNCHANGED <<server, elf_mem0_g, armed, stage, tcp_disconnect, booted,
                       client, requests, acks>>

\* The image begins with the ELF header of its first block.
IsElf(bytes) == bytes # <<>> /\ bytes[1].blk = 1 /\ Uploads[bytes[1].up].elf

\* Mutation: the reboot timer is armed for any file.
SplitAny ==
    /\ pc = "split" /\ pc' = "timer"
    /\ elf_mem0_g' = IF IsElf(image) THEN image ELSE <<>>
    /\ armed' = TRUE
    /\ UNCHANGED <<server, node, image, stage, tcp_disconnect, booted,
                   client, requests, acks>>

\* Mutation: the reboot timer is not armed.
SplitForgets ==
    /\ pc = "split" /\ pc' = "timer"
    /\ elf_mem0_g' = IF IsElf(image) THEN image ELSE <<>>
    /\ armed' = armed
    /\ UNCHANGED <<server, node, image, stage, tcp_disconnect, booted,
                   client, requests, acks>>

\* elfsplitter and its verdict: the timer is armed for an ELF file.
Split ==
    /\ pc = "split" /\ pc' = "timer"
    /\ elf_mem0_g' = IF IsElf(image) THEN image ELSE <<>>
    /\ armed' = (armed \/ IsElf(image))
    /\ UNCHANGED <<server, node, image, stage, tcp_disconnect, booted,
                   client, requests, acks>>

NotExpired ==
    /\ pc = "timer" /\ pc' = "look"
    /\ UNCHANGED <<server, node, image, elf_mem0_g, armed, stage, tcp_disconnect, booted,
                   client, requests, acks>>

\* The first expiry asks every socket to disconnect, whoever it belongs to
\* (TcpConn has what comes of it), and arms the timer again.
Disconnect ==
    /\ pc = "timer" /\ armed /\ stage = 0
    /\ stage' = 1 /\ pc' = "look"
    /\ tcp_disconnect' = TRUE
    /\ UNCHANGED <<server, node, image, elf_mem0_g, armed, booted,
                   client, requests, acks>>

\* close_link and reboot: the vectors of the file split last, and the flag of
\* the current file.
Reboot ==
    /\ pc = "timer" /\ armed /\ stage = 1
    /\ booted' = [image |-> elf_mem0_g, linux |-> file.linux_boot]
    /\ pc' = "rebooted"
    /\ UNCHANGED <<server, node, image, elf_mem0_g, armed, stage, tcp_disconnect,
                   client, requests, acks>>

ProcessTftp ==
    \/ Look \/ Clear \/ Size \/ Walk \/ Split
    \/ NotExpired \/ Disconnect \/ Reboot

Next ==
    \/ ClientSends \/ ClientHears \/ Lose
    \/ WriteRequest \/ Data
    \/ ProcessTftp

Spec == Init /\ [][Next]_vars

\* The client repeats a packet until it is answered, a packet repeated often
\* enough gets through, the main loop runs, and an armed timer expires.
FairSpec ==
    /\ Spec
    /\ WF_vars(ClientSends) /\ SF_vars(ClientHears)
    /\ SF_vars(WriteRequest) /\ SF_vars(Data)
    /\ WF_vars(Look \/ Clear \/ Size \/ Walk \/ Split \/ NotExpired)
    /\ SF_vars(Disconnect) /\ SF_vars(Reboot)
-----------------------------------------------------------------------------
(* Properties.                                                             *)

(* A block the client has been told is received is in the file, at its     *)
(* place: nothing acknowledged is lost, nothing is saved twice.            *)
AckedSaved ==
    blk > 1 =>
        /\ Len(file.blocks) >= blk - 1
        /\ \A b \in 1 .. Len(file.blocks) : file.blocks[b] = [up |-> up, blk |-> b]

(* The state is well formed, and the above. *)
SavedInv == TypeOK /\ AckedSaved

(* What elfsplitter accepts is one upload, whole: never the beginning of a *)
(* file, and never two files.  This and the next two hold for a client     *)
(* that awaits the verdict on a file before it writes another.             *)
ImageWhole ==
    hurried \/ elf_mem0_g = <<>> \/ \E u \in 1 .. Len(Uploads) : elf_mem0_g = Whole(u)

(* The program started is the one whose vectors were kept for it, it is    *)
(* started in the way its name asks for, and not before the sockets were   *)
(* asked to disconnect.                                                    *)
BootsOneFile ==
    ~hurried /\ pc = "rebooted" =>
        /\ tcp_disconnect
        /\ \E u \in 1 .. Len(Uploads) :
               booted = [image |-> Whole(u), linux |-> Uploads[u].linux]

(* An ELF file whose last block was acknowledged is started.               *)
Starts ==
    \A u \in 1 .. Len(Uploads) :
        Uploads[u].elf /\ Uploads[u].octet /\ up > u ~> pc = "rebooted" \/ hurried
=============================================================================
