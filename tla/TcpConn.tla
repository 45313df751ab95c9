------------------------------- MODULE TcpConn ------------------------------
(***************************************************************************)
(* The life of telnet connections: the chain of sockets, the assignment of *)
(* a received segment to a socket (parse_tcp_packet, tcp_response, in the  *)
(* Ethernet interrupt handler), and the main loop that visits the sockets  *)
(* in turn (process_sockets, process_tcp, process_telnet) and listens on a *)
(* new socket once a connection has been greeted.  After an upload the     *)
(* main loop asks every socket to disconnect, and reboots (process_tftp).  *)
(*                                                                         *)
(* Sequence numbers and buffers are left to TcpRing and TcpTx; a command   *)
(* is "quit" or any other.  A segment that is lost is one that is not      *)
(* received; what a client sends again may be received again.              *)
(***************************************************************************)
EXTENDS Naturals, Sequences

CONSTANTS
    Clients,    \* telnet clients, each connecting once
    Port,       \* the source port of each
    MaxLines    \* bound: commands waiting in a line buffer

ASSUME ClientAssumption == DOMAIN Port = Clients
ASSUME BoundAssumption  == MaxLines \in Nat

VARIABLES
    sockets,    \* the chain from first_socket_g, with each socket's telnet_t
    pc, at,     \* the main loop: its place, and the socket it is at
    reboot_stage_g,  \* 1 once the sockets are asked to disconnect
    client,     \* the clients' side
    asked,      \* history: clients that typed quit or sent a reset
    rude        \* history: a client reset or vanished before it was greeted,
                \* or a host sent a reset for a client that had gone

main == <<pc, at, reboot_stage_g>>
vars == <<sockets, main, client, asked, rude>>

Nobody   == "nobody"
ASSUME NobodyAssumption == Nobody \notin Clients

Segments == {"syn", "ack", "fin", "rst", "line", "quit"}
Lines    == {"line", "quit"}
Index    == 1 .. Len(sockets)

Socket == [state : {"LISTENING", "PENDING", "OPEN", "CLOSED"},
           src : Clients \cup {Nobody},      \* whose segment is in rx_packet
           tcp_disconnect : BOOLEAN, options_sent : BOOLEAN,
           sent_opening_message : BOOLEAN,
           rxbuf : Seq([from : Clients, text : Lines]),
           opener : Clients \cup {Nobody},   \* history: whose SYN it answered
           struck : BOOLEAN]          \* history: it was reset while it listened

TypeOK ==
    /\ sockets \in Seq(Socket)
    /\ pc \in {"visit", "forget", "listen", "command", "rebooted"}
    /\ reboot_stage_g \in {0, 1}
    /\ at \in Index
    /\ client \in [Clients -> {"off", "syn", "est", "gone"}]
    /\ asked \subseteq Clients
    /\ rude \in BOOLEAN

\* listen_socket, with new_socket and new_telnet.
NewSocket ==
    [state |-> "LISTENING", src |-> Nobody, tcp_disconnect |-> FALSE,
     options_sent |-> FALSE, sent_opening_message |-> FALSE,
     rxbuf |-> <<>>, opener |-> Nobody, struck |-> FALSE]

\* main: listen_telnet, and then the loop.
Init ==
    /\ sockets = <<NewSocket>>
    /\ pc = "visit" /\ at = 1 /\ reboot_stage_g = 0
    /\ client = [c \in Clients |-> "off"]
    /\ asked = {}
    /\ rude = FALSE
-----------------------------------------------------------------------------
(* The interrupt handler.                                                  *)

\* The first socket in the chain that satisfies P, if any.
FirstOf(P) == {i \in P : \A j \in P : i <= j}

\* Mutation: the port is not compared.
ConnectedAny(c) == {i \in Index : sockets[i].state \in {"PENDING", "OPEN"}}

\* parse_tcp_packet: a connection is known by its source port only.
Connected(c) ==
    {i \in Index : /\ sockets[i].state \in {"PENDING", "OPEN"}
                   /\ sockets[i].src # Nobody /\ Port[sockets[i].src] = Port[c]}

Listening == {i \in Index : sockets[i].state = "LISTENING"}

Assigned(c) == IF Connected(c) # {} THEN FirstOf(Connected(c)) ELSE FirstOf(Listening)

\* Mutation: a FIN disconnects as a reset does.
tcp_responseFin(socket, c, segment) ==
    IF segment \in {"rst", "fin"} THEN [socket EXCEPT !.tcp_disconnect = TRUE,
                                                     !.struck = @ \/ socket.state = "LISTENING"]
    ELSE CASE socket.state = "LISTENING" ->
                 IF segment = "syn" THEN [socket EXCEPT !.state = "PENDING", !.opener = c]
                                    ELSE socket
           [] socket.state = "PENDING" -> [socket EXCEPT !.state = "OPEN"]
           [] socket.state = "OPEN" /\ segment \in Lines ->
                 [socket EXCEPT !.rxbuf = Append(@, [from |-> c, text |-> segment])]
           [] OTHER -> socket

\* tcp_response: a reset is noted in every state.
tcp_response(socket, c, segment) ==
    IF segment = "rst" THEN [socket EXCEPT !.tcp_disconnect = TRUE,
                                           !.struck = @ \/ socket.state = "LISTENING"]
    ELSE CASE socket.state = "LISTENING" ->
                 IF segment = "syn" THEN [socket EXCEPT !.state = "PENDING", !.opener = c]
                                    ELSE socket
           [] socket.state = "PENDING" -> [socket EXCEPT !.state = "OPEN"]
           [] socket.state = "OPEN" /\ segment \in Lines ->
                 [socket EXCEPT !.rxbuf = Append(@, [from |-> c, text |-> segment])]
           [] OTHER -> socket

\* The segment is copied into rx_packet of the socket it is assigned to; the
\* link is closed when the boot loader reboots.
Receive(c, segment) ==
    /\ pc # "rebooted"
    /\ sockets' = [i \in Index |->
                     IF i \in Assigned(c)
                     THEN tcp_response([sockets[i] EXCEPT !.src = c], c, segment)
                     ELSE sockets[i]]
    /\ UNCHANGED main
-----------------------------------------------------------------------------
(* The clients.                                                            *)

\* A socket that answered the SYN of c.
Answers(c)  == {i \in Index : sockets[i].opener = c}
Greeted(c)  == \E i \in Answers(c) : sockets[i].sent_opening_message

\* The first SYN, and the ones sent again.
SendSyn(c) ==
    /\ client[c] \in {"off", "syn"}
    /\ client' = [client EXCEPT ![c] = "syn"]
    /\ Receive(c, "syn")
    /\ UNCHANGED <<asked, rude>>

\* The answer to the SYN was received; it is sent again until acked.
SendAck(c) ==
    /\ client[c] \in {"syn", "est"}
    /\ Answers(c) # {}
    /\ client' = [client EXCEPT ![c] = "est"]
    /\ Receive(c, "ack")
    /\ UNCHANGED <<asked, rude>>

SendLine(c, text) ==
    /\ client[c] = "est"
    /\ \A i \in Index : Len(sockets[i].rxbuf) < MaxLines
    /\ asked' = IF text = "quit" THEN asked \cup {c} ELSE asked
    /\ Receive(c, text)
    /\ UNCHANGED <<client, rude>>

\* The client closes the connection.
SendFin(c) ==
    /\ client[c] = "est"
    /\ client' = [client EXCEPT ![c] = "gone"]
    /\ Receive(c, "fin")
    /\ UNCHANGED <<asked, rude>>

\* The client gives up, with a reset or without a word.
SendRst(c) ==
    /\ client[c] \in {"syn", "est"}
    /\ rude' = (rude \/ ~ \E i \in Answers(c) : sockets[i].state = "OPEN" /\ Greeted(c))
    /\ client' = [client EXCEPT ![c] = "gone"]
    /\ asked' = asked \cup {c}
    /\ Receive(c, "rst")

Vanish(c) ==
    /\ client[c] \in {"syn", "est"}
    /\ rude' = (rude \/ ~Greeted(c))
    /\ client' = [client EXCEPT ![c] = "gone"]
    /\ UNCHANGED <<sockets, main, asked>>

\* tcp_retransmit goes on after a connection is closed, and the host of a
\* client that is gone answers with a reset.
AnswerRst(c) ==
    /\ client[c] = "gone"
    /\ Answers(c) # {}
    /\ asked' = asked \cup {c}
    /\ Receive(c, "rst")
    /\ rude' = TRUE
    /\ UNCHANGED client
-----------------------------------------------------------------------------
(* The main loop.                                                          *)

Here == sockets[at]

Main(place, next) ==
    pc = place /\ pc' = next /\ UNCHANGED <<reboot_stage_g, client, asked, rude>>

\* The next socket of the chain, or the first one in the next round.
Advance == at' = IF at < Len(sockets) THEN at + 1 ELSE 1

\* process_tcp has nothing to do for a socket that is not open.
PassBy ==
    /\ Main("visit", "visit")
    /\ Here.state # "OPEN"
    /\ Advance
    /\ UNCHANGED sockets

\* tcp_disconnect, and telnet_disconnect.
Disconnect ==
    /\ Main("visit", "forget")
    /\ Here.tcp_disconnect /\ Here.state = "OPEN"
    /\ sockets' = [sockets EXCEPT ![at].state = "CLOSED"]
    /\ UNCHANGED at

Forget ==
    /\ Main("forget", "visit")
    /\ sockets' = [sockets EXCEPT ![at].options_sent = FALSE,
                                  ![at].sent_opening_message = FALSE,
                                  ![at].tcp_disconnect = FALSE]
    /\ Advance

Talking == Here.state = "OPEN" /\ ~Here.tcp_disconnect

\* process_telnet: first the options, and in a later round the greeting.
SendOptions ==
    /\ Main("visit", "visit")
    /\ Talking /\ ~Here.options_sent
    /\ sockets' = [sockets EXCEPT ![at].options_sent = TRUE]
    /\ Advance

Greet ==
    /\ Main("visit", "listen")
    /\ Talking /\ Here.options_sent /\ ~Here.sent_opening_message
    /\ sockets' = [sockets EXCEPT ![at].sent_opening_message = TRUE]
    /\ UNCHANGED at

\* "create a new socket to listen for any other connect requests"
listen_telnet ==
    /\ Main("listen", "command")
    /\ sockets' = Append(sockets, NewSocket)
    /\ UNCHANGED at

GoOn ==
    /\ Main("visit", "command")
    /\ Talking /\ Here.options_sent /\ Here.sent_opening_message
    /\ UNCHANGED <<sockets, at>>

\* Mutation: the quit command has no effect.
CommandIgnored ==
    /\ Main("command", "visit")
    /\ sockets' = IF Here.rxbuf = <<>> THEN sockets
                  ELSE [sockets EXCEPT ![at].rxbuf = Tail(@)]
    /\ Advance

\* get_line and parse_command.
Command ==
    /\ Main("command", "visit")
    /\ sockets' = IF Here.rxbuf = <<>> THEN sockets
                  ELSE [sockets EXCEPT ![at].rxbuf = Tail(@),
                          ![at].tcp_disconnect = @ \/ Head(Here.rxbuf).text = "quit"]
    /\ Advance

\* Before each round: somebody has uploaded a program (see Tftp), and its
\* timer has expired.  Every socket is asked to disconnect, and the next time
\* the boot loader ends.
process_tftp ==
    /\ pc = "visit" /\ at = 1
    /\ IF reboot_stage_g = 0
         THEN /\ reboot_stage_g' = 1 /\ pc' = pc
              /\ sockets' = [i \in Index |-> [sockets[i] EXCEPT !.tcp_disconnect = TRUE]]
         ELSE pc' = "rebooted" /\ UNCHANGED <<sockets, reboot_stage_g>>
    /\ UNCHANGED <<at, client, asked, rude>>

process_sockets ==
    \/ PassBy \/ Disconnect \/ Forget
    \/ SendOptions \/ Greet \/ listen_telnet \/ GoOn \/ Command
-----------------------------------------------------------------------------
ClientStep(c) ==
    \/ SendSyn(c) \/ SendAck(c) \/ SendFin(c)
    \/ SendRst(c) \/ Vanish(c) \/ AnswerRst(c)
    \/ \E text \in Lines : SendLine(c, text)

Next == process_tftp \/ process_sockets \/ \E c \in Clients : ClientStep(c)

Spec == Init /\ [][Next]_vars

\* The loop goes on, and a client that began to connect sends its SYN and
\* its ack until they are received.
FairSpec ==
    /\ Spec
    /\ WF_vars(process_sockets)
    /\ \A c \in Clients : /\ WF_vars(client[c] = "syn" /\ SendSyn(c))
                          /\ WF_vars(SendAck(c))
-----------------------------------------------------------------------------
(* Properties.                                                             *)

(* There is one way in: never two sockets that listen or wait for the end  *)
(* of a handshake, which would let a client be answered twice.             *)
OneDoor ==
    \A i, j \in Index :
        /\ sockets[i].state \in {"LISTENING", "PENDING"}
        /\ sockets[j].state \in {"LISTENING", "PENDING"}
        => i = j

(* "search for an open socket that matches the tcp connection": what is in *)
(* a socket's line buffer was typed by the client that opened it.          *)
RightConnection ==
    \A i \in Index : \A k \in DOMAIN sockets[i].rxbuf :
        sockets[i].rxbuf[k].from = sockets[i].opener

(* Sockets and clients match: the state is well formed, and both of these. *)
SocketsInv == TypeOK /\ OneDoor /\ RightConnection

(* "Other side requesting to reset a connection": until a program that was *)
(* uploaded ends all of them, a connection is closed only because its own  *)
(* client typed quit or reset it, or because of a reset that its socket    *)
(* got while it listened.  Such a reset, of whomever, closes no other.     *)
OnlyWhenAsked ==
    reboot_stage_g = 0 =>
        \A i \in Index : sockets[i].state = "CLOSED" =>
            sockets[i].opener \in asked \/ sockets[i].struck

(* "listen for any other connect requests from telnet clients": telnet     *)
(* never stays without a listening socket, unless it is about to reboot.   *)
ListenerReturns == []<>(Listening # {} \/ reboot_stage_g = 1)

(* While clients finish their handshakes, a client that connects is        *)
(* greeted, if it stays and there is no reboot: telnet listens again.      *)
ConnectsInTheEnd ==
    \A c \in Clients :
        client[c] = "syn" ~> \/ client[c] = "gone" \/ Greeted(c)
                             \/ rude \/ reboot_stage_g = 1

(* The quit command closes the connection, if the loader lives that long.  *)
QuitCloses ==
    \A c \in Clients :
        (\E i \in Answers(c) : \E k \in DOMAIN sockets[i].rxbuf :
            sockets[i].rxbuf[k].text = "quit")
        ~> pc = "rebooted" \/ \E i \in Answers(c) : sockets[i].state = "CLOSED"

(* A session begins and ends: both of these. *)
Served == ConnectsInTheEnd /\ QuitCloses
=============================================================================
