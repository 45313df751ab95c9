---------------------------- MODULE TcpConnProofs ---------------------------
(***************************************************************************)
(* Proofs about TcpConn, for any number of clients that connect, type,     *)
(* quit, close, reset and vanish: there is one way in, and, when clients   *)
(* have different source ports, connections are not mixed up and, until    *)
(* the boot loader ends them all, only closed when their client asked for  *)
(* it or a reset reached their socket while it listened.                   *)
(***************************************************************************)
EXTENDS TcpConn, SequenceTheorems, TLAPS

\* A connection is known by its port only.
DistinctPorts == \A c, d \in Clients : Port[c] = Port[d] => c = d

(***************************************************************************)
(* OneDoor is not inductive: a greeted connection makes a new socket while *)
(* an older one could still wait.  The invariant follows a socket from the *)
(* moment it listens until it is greeted; only then is a new one made.     *)
(***************************************************************************)

\* A socket that has not been greeted yet.
Waits(s) == s.state \in {"LISTENING", "PENDING"} \/ (s.state = "OPEN" /\ ~s.sent_opening_message)

Door ==
    /\ \A i, j \in Index : Waits(sockets[i]) /\ Waits(sockets[j]) => i = j
    /\ pc = "listen" => \A i \in Index : ~Waits(sockets[i])
    /\ pc = "forget" => Here.state = "CLOSED"

\* What a socket holds comes from the client whose SYN it answered, and it
\* is disconnected when that one asked, or it was struck.
Own(s, told, has_asked) ==
    /\ s.state = "LISTENING" => s.opener = Nobody /\ s.rxbuf = <<>>
    /\ s.state \in {"PENDING", "OPEN"} => s.src = s.opener /\ s.opener \in Clients
    /\ \A k \in DOMAIN s.rxbuf :
          /\ s.rxbuf[k].from = s.opener
          /\ s.rxbuf[k].text = "quit" => s.opener \in has_asked
    /\ told = 0 /\ (s.tcp_disconnect \/ s.state = "CLOSED") =>
          s.opener \in has_asked \/ s.struck

Owned == \A i \in Index : Own(sockets[i], reboot_stage_g, asked)
-----------------------------------------------------------------------------
\* A chain of the same length.
LEMMA SameLength ==
    ASSUME NEW S, NEW s \in Seq(S), NEW t \in [1 .. Len(s) -> S]
    PROVE  t \in Seq(S) /\ Len(t) = Len(s)
<1>1. Len(s) \in Nat
    BY LenProperties
<1>2. t \in Seq(S)
    BY <1>1, SeqDef
<1> QED
    BY <1>1, <1>2, LenProperties

\* One socket of the chain is replaced.
LEMMA Replaced ==
    ASSUME TypeOK, NEW s \in Socket, sockets' = [sockets EXCEPT ![at] = s]
    PROVE  /\ sockets' \in Seq(Socket) /\ Len(sockets') = Len(sockets)
           /\ \A i \in Index : sockets'[i] = IF i = at THEN s ELSE sockets[i]
<1>1. sockets \in [1 .. Len(sockets) -> Socket]
    BY LenProperties DEF TypeOK
<1>2. sockets' \in [1 .. Len(sockets) -> Socket]
    BY <1>1
<1>3. \A i \in Index : sockets'[i] = IF i = at THEN s ELSE sockets[i]
    BY <1>1 DEF Index
<1> QED
    BY <1>2, <1>3, SameLength DEF TypeOK

\* The histories only grow.
LEMMA OwnStays ==
    ASSUME NEW s \in Socket, NEW told, NEW told_now,
           NEW has_asked, NEW asked_now, Own(s, told, has_asked),
           told_now = 0 => told = 0, has_asked \subseteq asked_now
    PROVE  Own(s, told_now, asked_now)
BY DEF Own, Socket

\* tcp_response, for a socket that the segment is assigned to.
LEMMA ResponseTyped ==
    ASSUME NEW s \in Socket, NEW c \in Clients, NEW segment \in Segments
    PROVE  tcp_response([s EXCEPT !.src = c], c, segment) \in Socket
<1> DEFINE u == [s EXCEPT !.src = c]
<1> SUFFICES tcp_response(u, c, segment) \in Socket
    OBVIOUS
<1>1. u \in Socket
    BY DEF Socket
<1>2. segment \in Lines => Append(u.rxbuf, [from |-> c, text |-> segment])
                              \in Seq([from : Clients, text : Lines])
    <2>1. u.rxbuf \in Seq([from : Clients, text : Lines])
        BY <1>1 DEF Socket
    <2> QED
        BY <2>1, AppendProperties
<1> HIDE DEF u
<1>3. CASE segment = "rst" \/ u.state \in {"PENDING", "CLOSED"}
    BY <1>1, <1>3 DEF tcp_response, Socket
<1>4. CASE segment # "rst" /\ u.state = "LISTENING"
    BY <1>1, <1>4 DEF tcp_response, Socket
<1>5. CASE segment # "rst" /\ u.state = "OPEN" /\ segment \in Lines
    <2> DEFINE longer == Append(u.rxbuf, [from |-> c, text |-> segment])
    <2>1. tcp_response(u, c, segment) = [u EXCEPT !.rxbuf = longer]
        BY <1>5 DEF tcp_response
    <2>2. longer \in Seq([from : Clients, text : Lines])
        BY <1>2, <1>5
    <2> HIDE DEF longer
    <2> QED
        BY <1>1, <2>1, <2>2 DEF Socket
<1>6. CASE segment # "rst" /\ u.state = "OPEN" /\ segment \notin Lines
    BY <1>1, <1>6 DEF tcp_response
<1> QED
    BY <1>1, <1>3, <1>4, <1>5, <1>6 DEF Socket

LEMMA ResponseKeeps ==
    ASSUME NEW s \in Socket, NEW c \in Clients, NEW segment \in Segments,
           NEW told, NEW has_asked, Own(s, told, has_asked),
           NEW asked_now, has_asked \subseteq asked_now, has_asked \subseteq Clients,
           s.state = "LISTENING" \/ (s.state \in {"PENDING", "OPEN"} /\ s.src = c),
           segment = "quit" => c \in asked_now,
           segment = "rst" => c \in asked_now
    PROVE  LET t == tcp_response([s EXCEPT !.src = c], c, segment)
           IN  /\ Own(t, told, asked_now)
               /\ Waits(t) => Waits(s)
               /\ t.state # "CLOSED"
<1> DEFINE u == [s EXCEPT !.src = c]
           t == tcp_response(u, c, segment)
<1> SUFFICES Own(t, told, asked_now) /\ (Waits(t) => Waits(s)) /\ t.state # "CLOSED"
    OBVIOUS
<1>1. /\ u.state = s.state /\ u.src = c /\ u.tcp_disconnect = s.tcp_disconnect
      /\ u.opener = s.opener /\ u.rxbuf = s.rxbuf /\ u.options_sent = s.options_sent
      /\ u.sent_opening_message = s.sent_opening_message /\ u.struck = s.struck
    BY DEF Socket
<1>u. u \in Socket
    BY DEF Socket
<1> HIDE DEF u
<1>2. CASE segment = "rst"
    <2>1. t = [u EXCEPT !.tcp_disconnect = TRUE, !.struck = @ \/ u.state = "LISTENING"]
        BY <1>2 DEF tcp_response
    <2>2. /\ t.state = s.state /\ t.src = c /\ t.opener = s.opener /\ t.rxbuf = s.rxbuf
          /\ t.sent_opening_message = s.sent_opening_message
          /\ t.struck <=> (s.struck \/ s.state = "LISTENING")
        BY <1>1, <1>u, <2>1 DEF Socket
    <2>3. c \in asked_now
        BY <1>2
    <2>4. s.state \in {"PENDING", "OPEN"} => s.opener = c
        BY DEF Own
    <2>5. t.opener \in asked_now \/ t.struck
        BY <2>2, <2>3, <2>4
    <2>6. \A k \in DOMAIN t.rxbuf :
              /\ t.rxbuf[k].from = t.opener
              /\ t.rxbuf[k].text = "quit" => t.opener \in asked_now
        BY <2>2 DEF Own
    <2>7. /\ t.state = "LISTENING" => t.opener = Nobody /\ t.rxbuf = <<>>
          /\ t.state \in {"PENDING", "OPEN"} => t.src = t.opener /\ t.opener \in Clients
        BY <2>2, <2>4 DEF Own
    <2>8. Own(t, told, asked_now)
        BY <2>5, <2>6, <2>7 DEF Own
    <2> QED
        BY <2>2, <2>8 DEF Waits
<1>3. CASE segment # "rst" /\ s.state = "LISTENING"
    <2>1. t = IF segment = "syn" THEN [u EXCEPT !.state = "PENDING", !.opener = c] ELSE u
        BY <1>1, <1>3 DEF tcp_response
    <2>2. told # 0 \/ ~s.tcp_disconnect \/ s.struck
        BY <1>3, NobodyAssumption DEF Own
    <2>3. s.rxbuf = <<>> /\ s.opener = Nobody
        BY <1>3 DEF Own
    <2>4. t.rxbuf = <<>> /\ DOMAIN t.rxbuf = {}
        BY <1>1, <1>u, <2>1, <2>3 DEF Socket
    <2>5. CASE segment = "syn"
        <3>1. /\ t.state = "PENDING" /\ t.src = c /\ t.opener = c
              /\ t.tcp_disconnect = s.tcp_disconnect /\ t.struck = s.struck
            BY <1>1, <1>u, <2>1, <2>5 DEF Socket
        <3> QED
            BY <1>3, <2>2, <2>4, <3>1 DEF Own, Waits, Socket
    <2>6. CASE segment # "syn"
        <3>1. t = u
            BY <2>1, <2>6
        <3> QED
            BY <1>1, <1>3, <2>2, <2>3, <2>4, <3>1 DEF Own, Waits, Socket
    <2> QED
        BY <2>5, <2>6
<1>4. CASE segment # "rst" /\ s.state = "PENDING"
    <2>1. t = [u EXCEPT !.state = "OPEN"]
        BY <1>1, <1>4 DEF tcp_response
    <2> QED
        BY <1>1, <1>u, <1>4, <2>1 DEF Own, Waits, Socket
<1>5. CASE segment # "rst" /\ s.state = "OPEN" /\ segment \in Lines
    <2> DEFINE line == [from |-> c, text |-> segment]
    <2>1. t = [u EXCEPT !.rxbuf = Append(u.rxbuf, line)]
        BY <1>1, <1>5 DEF tcp_response
    <2>2. /\ DOMAIN t.rxbuf = 1 .. Len(u.rxbuf) + 1
          /\ \A k \in DOMAIN t.rxbuf : t.rxbuf[k] = line
                \/ (k \in DOMAIN u.rxbuf /\ t.rxbuf[k] = u.rxbuf[k])
        <3>1. u.rxbuf \in Seq([from : Clients, text : Lines])
            BY <1>u DEF Socket
        <3>2. line \in [from : Clients, text : Lines]
            BY <1>5
        <3>3. t.rxbuf = Append(u.rxbuf, line)
            BY <2>1, <1>u DEF Socket
        <3> QED
            BY <3>1, <3>2, <3>3, AppendProperties, LenProperties
    <2>3. /\ t.state = "OPEN" /\ t.src = c /\ t.opener = s.opener
          /\ t.tcp_disconnect = s.tcp_disconnect
          /\ t.sent_opening_message = s.sent_opening_message /\ t.struck = s.struck
        BY <1>1, <1>u, <1>5, <2>1 DEF Socket
    <2>4. s.opener = c /\ s.rxbuf = u.rxbuf
        BY <1>1, <1>5 DEF Own
    <2>5. \A k \in DOMAIN t.rxbuf :
              /\ t.rxbuf[k].from = t.opener
              /\ t.rxbuf[k].text = "quit" => t.opener \in asked_now
        BY <2>2, <2>3, <2>4 DEF Own
    <2> QED
        BY <1>5, <2>3, <2>4, <2>5 DEF Own, Waits, Socket
<1>6. CASE segment # "rst" /\ s.state = "OPEN" /\ segment \notin Lines
    <2>1. t = u
        BY <1>1, <1>6 DEF tcp_response
    <2> QED
        BY <1>1, <1>6, <2>1 DEF Own, Waits, Socket
<1> QED
    BY <1>2, <1>3, <1>4, <1>5, <1>6
-----------------------------------------------------------------------------
IInv == TypeOK /\ Door /\ Owned

LEMMA Start == Init => IInv
<1> SUFFICES ASSUME Init PROVE IInv
    OBVIOUS
<1>1. NewSocket \in Socket
    BY EmptySeq DEF NewSocket, Socket
<1>2. sockets \in Seq(Socket) /\ Len(sockets) = 1 /\ sockets[1] = NewSocket
    BY <1>1 DEF Init
<1>3. Index = {1}
    BY <1>2 DEF Index
<1>4. TypeOK
    BY <1>2, <1>3 DEF Init, TypeOK
<1>5. Door
    BY <1>3 DEF Init, Door
<1>6. Own(NewSocket, reboot_stage_g, asked)
    BY DEF Init, Own, NewSocket
<1>7. Owned
    BY <1>2, <1>3, <1>6 DEF Owned
<1> QED
    BY <1>4, <1>5, <1>7 DEF IInv

\* A segment is only assigned to a socket that listens, or to one of the
\* sender's connection.
LEMMA AssignedTo ==
    ASSUME DistinctPorts, IInv, NEW c \in Clients, NEW i \in Index, i \in Assigned(c)
    PROVE  /\ sockets[i].state = "LISTENING"
              \/ (sockets[i].state \in {"PENDING", "OPEN"} /\ sockets[i].src = c)
           /\ sockets[i].state = "LISTENING" => Connected(c) = {}
<1>1. CASE Connected(c) # {}
    <2>1. i \in Connected(c)
        BY <1>1 DEF Assigned, FirstOf
    <2>2. sockets[i].state \in {"PENDING", "OPEN"} /\ Port[sockets[i].src] = Port[c]
        BY <2>1 DEF Connected
    <2>3. sockets[i].src \in Clients
        BY <2>2 DEF IInv, Owned, Own
    <2> QED
        BY <2>2, <2>3 DEF DistinctPorts
<1>2. CASE Connected(c) = {}
    <2>1. i \in Listening
        BY <1>2 DEF Assigned, FirstOf
    <2> QED
        BY <1>2, <2>1 DEF Listening
<1> QED
    BY <1>1, <1>2

LEMMA ReceiveKeeps ==
    ASSUME DistinctPorts, IInv, NEW c \in Clients, NEW segment \in Segments,
           Receive(c, segment),
           client' \in [Clients -> {"off", "syn", "est", "gone"}],
           asked \subseteq asked', asked' \subseteq Clients,
           rude' \in BOOLEAN,
           segment \in {"quit", "rst"} => c \in asked'
    PROVE  IInv'
<1> DEFINE t(i) == tcp_response([sockets[i] EXCEPT !.src = c], c, segment)
<1>1. /\ sockets \in Seq(Socket) /\ Len(sockets) \in Nat
      /\ \A i \in Index : sockets[i] \in Socket
      /\ asked \subseteq Clients /\ at \in Index /\ reboot_stage_g' = reboot_stage_g
    BY LenProperties DEF IInv, TypeOK, Index, Receive, main
<1>2. sockets' = [i \in Index |-> IF i \in Assigned(c) THEN t(i) ELSE sockets[i]]
    BY DEF Receive
<1>3. ASSUME NEW i \in Index
      PROVE  /\ sockets'[i] \in Socket
             /\ Own(sockets'[i], reboot_stage_g, asked')
             /\ Waits(sockets'[i]) => Waits(sockets[i])
             /\ sockets[i].state = "CLOSED" => sockets'[i].state = "CLOSED"
    <2>1. CASE i \in Assigned(c)
        <3>1. sockets'[i] = t(i)
            BY <1>2, <2>1
        <3>2. t(i) \in Socket
            BY <1>1, ResponseTyped
        <3>3. Own(sockets[i], reboot_stage_g, asked)
            BY DEF IInv, Owned
        <3>4. \/ sockets[i].state = "LISTENING"
              \/ sockets[i].state \in {"PENDING", "OPEN"} /\ sockets[i].src = c
            BY <2>1, AssignedTo
        <3>6. /\ Own(t(i), reboot_stage_g, asked')
              /\ Waits(t(i)) => Waits(sockets[i])
              /\ t(i).state # "CLOSED"
            BY <1>1, <3>3, <3>4, ResponseKeeps
        <3>7. sockets[i].state # "CLOSED"
            BY <3>4
        <3> QED
            BY <3>1, <3>2, <3>6, <3>7
    <2>2. CASE i \notin Assigned(c)
        <3>1. sockets'[i] = sockets[i]
            BY <1>2, <2>2
        <3>2. Own(sockets[i], reboot_stage_g, asked)
            BY DEF IInv, Owned
        <3>3. Own(sockets[i], reboot_stage_g, asked')
            BY <1>1, <3>2, OwnStays
        <3> QED
            BY <1>1, <3>1, <3>3
    <2> QED
        BY <2>1, <2>2
<1>4. sockets' \in [1 .. Len(sockets) -> Socket]
    <2> HIDE DEF t
    <2> QED
        BY <1>2, <1>3 DEF Index
<1>5. sockets' \in Seq(Socket) /\ Len(sockets') = Len(sockets)
    BY <1>1, <1>4, SameLength
<1>6. Index' = Index /\ pc' = pc /\ at' = at
    BY <1>5 DEF Index, Receive, main
<1>7. TypeOK'
    BY <1>1, <1>5, <1>6 DEF IInv, TypeOK
<1>8. Door'
    BY <1>1, <1>3, <1>6 DEF IInv, Door, Here
<1>9. Owned'
    BY <1>1, <1>3, <1>6 DEF Owned
<1> QED
    BY <1>7, <1>8, <1>9 DEF IInv

LEMMA ClientKeeps ==
    ASSUME DistinctPorts, IInv, NEW c \in Clients, ClientStep(c)
    PROVE  IInv'
<1>1. /\ client \in [Clients -> {"off", "syn", "est", "gone"}]
      /\ rude \in BOOLEAN /\ asked \subseteq Clients
    BY DEF IInv, TypeOK
<1>2. CASE SendSyn(c)
    BY <1>1, <1>2, ReceiveKeeps DEF SendSyn, Segments
<1>3. CASE SendAck(c)
    BY <1>1, <1>3, ReceiveKeeps DEF SendAck, Segments
<1>4. CASE SendFin(c)
    BY <1>1, <1>4, ReceiveKeeps DEF SendFin, Segments
<1>5. ASSUME NEW text \in Lines, SendLine(c, text) PROVE IInv'
    <2>1. /\ text \in Segments /\ Receive(c, text) /\ client' = client /\ rude' = rude
          /\ asked \subseteq asked' /\ asked' \subseteq Clients /\ text # "rst"
          /\ text = "quit" => c \in asked'
        BY <1>1, <1>5 DEF SendLine, Segments, Lines
    <2> QED
        BY <1>1, <2>1, ReceiveKeeps
<1>6. CASE SendRst(c)
    BY <1>1, <1>6, ReceiveKeeps DEF SendRst, Segments
<1>7. CASE AnswerRst(c)
    BY <1>1, <1>7, ReceiveKeeps DEF AnswerRst, Segments
<1>8. CASE Vanish(c)
    <2>1. /\ sockets' = sockets /\ pc' = pc /\ at' = at /\ asked' = asked /\ Index' = Index
          /\ rude' \in BOOLEAN /\ reboot_stage_g' = reboot_stage_g
          /\ client' \in [Clients -> {"off", "syn", "est", "gone"}]
        BY <1>1, <1>8 DEF Vanish, Index, main
    <2>2. TypeOK' /\ Door'
        BY <2>1 DEF IInv, TypeOK, Door, Here
    <2>3. ASSUME NEW i \in Index PROVE Own(sockets[i], reboot_stage_g', asked')
        <3>1. Own(sockets[i], reboot_stage_g, asked)
            BY DEF IInv, Owned
        <3> QED
            BY <2>1, <3>1
    <2>4. Owned'
        BY <2>1, <2>3 DEF Owned
    <2> QED
        BY <2>2, <2>4 DEF IInv
<1> QED
    BY <1>2, <1>3, <1>4, <1>5, <1>6, <1>7, <1>8 DEF ClientStep
-----------------------------------------------------------------------------
(* The main loop changes the socket it is at, or adds one.                 *)

\* A step that changes the socket at hand to s.
LEMMA SocketKeeps ==
    ASSUME IInv, NEW s \in Socket, sockets' = [sockets EXCEPT ![at] = s],
           UNCHANGED <<client, asked, rude, reboot_stage_g>>,
           Own(s, reboot_stage_g, asked), Waits(s) => Waits(Here),
           Here.state = "CLOSED" => s.state = "CLOSED",
           pc' \in {"visit", "forget", "listen", "command"}, at' \in Index,
           pc' = "listen" => Waits(Here) /\ ~Waits(s),
           pc' = "forget" => s.state = "CLOSED" /\ at' = at
    PROVE  IInv'
<1>1. /\ sockets' \in Seq(Socket) /\ Len(sockets') = Len(sockets)
      /\ \A i \in Index : sockets'[i] = IF i = at THEN s ELSE sockets[i]
    BY Replaced DEF IInv
<1>2. Index' = Index
    BY <1>1 DEF Index
<1>3. TypeOK'
    BY <1>1, <1>2 DEF IInv, TypeOK
<1>4. at \in Index /\ sockets'[at] = s
    BY <1>1 DEF IInv, TypeOK
<1>5. \A i \in Index : Waits(sockets'[i]) => Waits(sockets[i])
    BY <1>1 DEF Here
<1>6. Door'
    <2>1. \A i, j \in Index : Waits(sockets'[i]) /\ Waits(sockets'[j]) => i = j
        BY <1>5 DEF IInv, Door
    <2>2. ASSUME pc' = "listen", NEW i \in Index PROVE ~Waits(sockets'[i])
        BY <1>1, <1>4, <1>5, <2>2 DEF IInv, Door, Here
    <2>3. pc' = "forget" => sockets'[at'].state = "CLOSED"
        BY <1>4
    <2> QED
        BY <1>2, <2>1, <2>2, <2>3 DEF Door, Here
<1>7. Owned'
    BY <1>1, <1>2 DEF IInv, Owned
<1> QED
    BY <1>3, <1>6, <1>7 DEF IInv

\* A step that moves the main loop only.
LEMMA PlaceKeeps ==
    ASSUME IInv, UNCHANGED <<sockets, client, asked, rude, reboot_stage_g>>,
           pc' \in {"visit", "command"}, at' \in Index
    PROVE  IInv'
<1>1. Index' = Index
    BY DEF Index
<1> QED
    BY <1>1 DEF IInv, TypeOK, Door, Owned, Here

LEMMA LoopKeeps == ASSUME IInv, process_sockets PROVE IInv'
<1>1. /\ sockets \in Seq(Socket) /\ at \in Index /\ Here \in Socket
      /\ Len(sockets) \in Nat
    BY LenProperties DEF IInv, TypeOK, Index, Here
<1>2. Own(Here, reboot_stage_g, asked)
    BY <1>1 DEF IInv, Owned, Here
<1>3. Advance => at' \in Index
    BY <1>1 DEF Advance, Index
<1>4. CASE PassBy
    BY <1>3, <1>4, PlaceKeeps DEF PassBy, Main
<1>5. CASE Disconnect
    <2> DEFINE s == [Here EXCEPT !.state = "CLOSED"]
    <2>1. /\ s \in Socket /\ s.state = "CLOSED" /\ Own(s, reboot_stage_g, asked) /\ ~Waits(s)
        BY <1>1, <1>2, <1>5 DEF Disconnect, Socket, Own, Waits
    <2>2. sockets' = [sockets EXCEPT ![at] = s]
        BY <1>1, <1>5 DEF Disconnect, Here
    <2> HIDE DEF s
    <2> QED
        BY <1>1, <1>5, <2>1, <2>2, SocketKeeps DEF Disconnect, Main
<1>6. CASE Forget
    <2> DEFINE s == [Here EXCEPT !.options_sent = FALSE,
                                 !.sent_opening_message = FALSE,
                                 !.tcp_disconnect = FALSE]
    <2>1. Here.state = "CLOSED"
        BY <1>6 DEF Forget, Main, IInv, Door
    <2>2. /\ s \in Socket /\ s.state = "CLOSED" /\ Own(s, reboot_stage_g, asked) /\ ~Waits(s)
        BY <1>1, <1>2, <2>1 DEF Socket, Own, Waits
    <2>3. sockets' = [sockets EXCEPT ![at] = s]
        BY <1>1, <1>6 DEF Forget, Here
    <2> HIDE DEF s
    <2> QED
        BY <1>3, <1>6, <2>2, <2>3, SocketKeeps DEF Forget, Main
<1>7. CASE SendOptions
    <2> DEFINE s == [Here EXCEPT !.options_sent = TRUE]
    <2>1. /\ s \in Socket /\ s.state = Here.state /\ Own(s, reboot_stage_g, asked)
          /\ Waits(s) => Waits(Here)
        BY <1>1, <1>2 DEF Socket, Own, Waits
    <2>2. sockets' = [sockets EXCEPT ![at] = s]
        BY <1>1, <1>7 DEF SendOptions, Here
    <2> HIDE DEF s
    <2> QED
        BY <1>3, <1>7, <2>1, <2>2, SocketKeeps DEF SendOptions, Main
<1>8. CASE Greet
    <2> DEFINE s == [Here EXCEPT !.sent_opening_message = TRUE]
    <2>1. /\ s \in Socket /\ s.state = Here.state /\ Own(s, reboot_stage_g, asked)
          /\ Waits(Here) /\ ~Waits(s)
        BY <1>1, <1>2, <1>8 DEF Greet, Talking, Socket, Own, Waits
    <2>2. sockets' = [sockets EXCEPT ![at] = s]
        BY <1>1, <1>8 DEF Greet, Here
    <2> HIDE DEF s
    <2> QED
        BY <1>1, <1>8, <2>1, <2>2, SocketKeeps DEF Greet, Main
<1>9. CASE listen_telnet
    <2>1. NewSocket \in Socket /\ Own(NewSocket, reboot_stage_g, asked)
        BY EmptySeq DEF NewSocket, Socket, Own
    <2>2. /\ sockets' \in Seq(Socket) /\ Len(sockets') = Len(sockets) + 1
          /\ \A i \in Index : sockets'[i] = sockets[i]
          /\ sockets'[Len(sockets) + 1] = NewSocket
        BY <1>1, <1>9, <2>1, AppendProperties DEF listen_telnet, Index
    <2>3. Index' = Index \cup {Len(sockets) + 1}
        BY <1>1, <2>2 DEF Index
    <2>4. TypeOK'
        BY <1>9, <2>2, <2>3 DEF IInv, TypeOK, listen_telnet, Main
    <2>5. \A i \in Index : ~Waits(sockets'[i])
        BY <1>9, <2>2 DEF IInv, Door, listen_telnet, Main
    <2>6. Door'
        BY <1>9, <2>3, <2>5 DEF Door, listen_telnet, Main
    <2>7. Owned'
        BY <1>9, <2>1, <2>2, <2>3 DEF IInv, Owned, listen_telnet, Main
    <2> QED
        BY <2>4, <2>6, <2>7 DEF IInv
<1>10. CASE GoOn
    BY <1>1, <1>10, PlaceKeeps DEF GoOn, Main
<1>11. CASE Command /\ Here.rxbuf = <<>>
    BY <1>3, <1>11, PlaceKeeps DEF Command, Main
<1>12. CASE Command /\ Here.rxbuf # <<>>
    <2> DEFINE quit == Head(Here.rxbuf).text = "quit"
               s == [Here EXCEPT !.rxbuf = Tail(@), !.tcp_disconnect = @ \/ quit]
    <2>1. Here.rxbuf \in Seq([from : Clients, text : Lines])
        BY <1>1 DEF Socket
    <2>2. /\ Tail(Here.rxbuf) \in Seq([from : Clients, text : Lines])
          /\ Head(Here.rxbuf) = Here.rxbuf[1] /\ 1 \in DOMAIN Here.rxbuf
          /\ \A k \in DOMAIN Tail(Here.rxbuf) :
                k + 1 \in DOMAIN Here.rxbuf /\ Tail(Here.rxbuf)[k] = Here.rxbuf[k + 1]
        BY <1>12, <2>1, HeadTailProperties, LenProperties, EmptySeq
    <2>3. /\ s \in Socket /\ s.state = Here.state /\ s.opener = Here.opener
          /\ s.src = Here.src /\ s.rxbuf = Tail(Here.rxbuf)
          /\ s.tcp_disconnect <=> (Here.tcp_disconnect \/ quit)
          /\ s.struck = Here.struck
          /\ s.sent_opening_message = Here.sent_opening_message
        BY <1>1, <2>2 DEF Socket
    <2>4. quit => Here.opener \in asked
        BY <1>2, <2>2 DEF Own
    <2>5. Here.state # "LISTENING"
        BY <1>2, <1>12 DEF Own
    <2>6. sockets' = [sockets EXCEPT ![at] = s]
        BY <1>1, <1>12 DEF Command, Here
    <2> HIDE DEF s, quit
    <2>7. Own(s, reboot_stage_g, asked)
        BY <1>2, <2>2, <2>3, <2>4, <2>5 DEF Own
    <2>8. Waits(s) => Waits(Here)
        BY <2>3 DEF Waits
    <2> QED
        BY <1>3, <1>12, <2>3, <2>6, <2>7, <2>8, SocketKeeps DEF Command, Main
<1> QED
    BY <1>4, <1>5, <1>6, <1>7, <1>8, <1>9, <1>10, <1>11, <1>12 DEF process_sockets
-----------------------------------------------------------------------------
(* process_tftp asks every socket, or ends the loop. *)
LEMMA TftpKeeps == ASSUME IInv, process_tftp PROVE IInv'
<1>1. sockets \in Seq(Socket) /\ Len(sockets) \in Nat /\ \A i \in Index : sockets[i] \in Socket
    BY LenProperties DEF IInv, TypeOK, Index
<1>2. CASE reboot_stage_g = 0
    <2>1. sockets' = [i \in Index |-> [sockets[i] EXCEPT !.tcp_disconnect = TRUE]]
        BY <1>2 DEF process_tftp
    <2>2. ASSUME NEW i \in Index
          PROVE  /\ sockets'[i] \in Socket /\ Own(sockets'[i], 1, asked)
                 /\ Waits(sockets'[i]) <=> Waits(sockets[i])
        <3> DEFINE s == sockets[i]
                   t == [s EXCEPT !.tcp_disconnect = TRUE]
        <3>1. Own(s, reboot_stage_g, asked) /\ s \in Socket
            BY <1>1 DEF IInv, Owned
        <3>2. sockets'[i] = t
            BY <2>1
        <3> HIDE DEF s
        <3>3. /\ t \in Socket /\ t.state = s.state /\ t.src = s.src
              /\ t.opener = s.opener /\ t.rxbuf = s.rxbuf
              /\ t.sent_opening_message = s.sent_opening_message
            BY <3>1 DEF Socket
        <3> HIDE DEF t
        <3>4. Own(t, 1, asked) /\ (Waits(t) <=> Waits(s))
            BY <3>1, <3>3 DEF Own, Waits
        <3> QED
            BY <3>2, <3>3, <3>4 DEF s
    <2>3. sockets' \in [1 .. Len(sockets) -> Socket]
        BY <2>1, <2>2 DEF Index
    <2>4. sockets' \in Seq(Socket) /\ Len(sockets') = Len(sockets) /\ Index' = Index
        BY <1>1, <2>3, SameLength DEF Index
    <2>5. pc = "visit" /\ pc' = pc /\ at' = at /\ reboot_stage_g' = 1
          /\ UNCHANGED <<client, asked, rude>>
        BY <1>2 DEF process_tftp
    <2>6. TypeOK'
        BY <2>4, <2>5 DEF IInv, TypeOK
    <2>7. Door'
        BY <2>2, <2>4, <2>5 DEF IInv, Door
    <2>8. Owned'
        BY <2>2, <2>4, <2>5 DEF Owned
    <2> QED
        BY <2>6, <2>7, <2>8 DEF IInv
<1>3. CASE reboot_stage_g # 0
    <2>1. /\ UNCHANGED <<sockets, reboot_stage_g, at, client, asked, rude>>
          /\ pc' = "rebooted" /\ Index' = Index
        BY <1>3 DEF process_tftp, Index
    <2> QED
        BY <2>1 DEF IInv, TypeOK, Door, Owned, Here
<1> QED
    BY <1>2, <1>3

LEMMA Inductive == DistinctPorts => (Spec => []IInv)
<1> SUFFICES ASSUME DistinctPorts PROVE Spec => []IInv
    OBVIOUS
<1>1. IInv /\ [Next]_vars => IInv'
    <2> SUFFICES ASSUME IInv, [Next]_vars PROVE IInv'
        OBVIOUS
    <2>1. CASE process_sockets
        BY <2>1, LoopKeeps
    <2>2. CASE \E c \in Clients : ClientStep(c)
        BY <2>2, ClientKeeps
    <2>3. CASE UNCHANGED vars
        BY <2>3 DEF vars, main, IInv, TypeOK, Index, Door, Owned, Here
    <2>4. CASE process_tftp
        BY <2>4, TftpKeeps
    <2> QED
        BY <2>1, <2>2, <2>3, <2>4 DEF Next
<1> QED
    BY <1>1, Start, PTL DEF Spec

(* There is one way in, and what is in a line buffer was typed by the      *)
(* client of its socket, when clients have different source ports.         *)
THEOREM SocketsHold == DistinctPorts => (Spec => []SocketsInv)
<1>1. IInv => SocketsInv
    BY DEF IInv, SocketsInv, OneDoor, RightConnection, Door, Owned, Own, Waits
<1> QED
    BY <1>1, Inductive, PTL

(* Until an uploaded program ends all connections, one is closed only      *)
(* because its own client typed quit or reset it, or because of a reset    *)
(* that its socket got while it listened.                                  *)
THEOREM ClosedWhenAsked == DistinctPorts => (Spec => []OnlyWhenAsked)
<1>1. IInv => OnlyWhenAsked
    BY DEF IInv, OnlyWhenAsked, Owned, Own
<1> QED
    BY <1>1, Inductive, PTL
=============================================================================
