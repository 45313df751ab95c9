------------------------------- MODULE Packet -------------------------------
(***************************************************************************)
(* Ethernet, ARP, IP and ICMP of the Ethernet boot loader (packet.c): what *)
(* parse_rx_packet answers to a frame, and what it hands on to TCP and     *)
(* UDP.  It runs in the interrupt handler, from end to end.                *)
(*                                                                         *)
(* IP headers and ICMP messages are sequences of bytes, the rest of a      *)
(* frame is a record; MAC addresses are names.                             *)
(***************************************************************************)
EXTENDS Integers, Sequences

CONSTANTS
    Frames,  \* bound: the frames that come
    Stack    \* bound: what an uninitialised byte of the stack may hold

VARIABLES
    frame,   \* the frame that is parsed, or NoFrame
    reply,   \* the frame that was sent for it, or NoFrame
    handed   \* who else was given it: "tcp", "udp" or "nobody"

packetVars == <<frame, reply, handed>>

NoFrame == [type |-> "none"]
self_g  == [mac |-> "self", ip |-> <<192, 168, 0, 17>>]

Idle == frame = NoFrame /\ reply = NoFrame /\ handed = "nobody"

Byte == 0..255
High(w) == w \div 256
Low(w)  == w % 256

\* The numbers of a sequence are added one after the other.
Totals(s) ==
    LET upto[n \in 0..Len(s)] == IF n = 0 THEN 0 ELSE upto[n - 1] + s[n]
    IN  upto
Total(s) == Totals(s)[Len(s)]

\* Mutation: a byte that is left over is the low one of a word.
SumOddLow(bytes) ==
    Total([k \in 1..Len(bytes) |-> IF k % 2 = 1 /\ k < Len(bytes) THEN bytes[k] * 256 ELSE bytes[k]])

\* The words of a message; a byte that is left over is the high one of a word.
Sum(bytes) ==
    Total([k \in 1..Len(bytes) |-> IF k % 2 = 1 THEN bytes[k] * 256 ELSE bytes[k]])

\* The carries are added until there are none.
Carried(sum) == (sum % 65536) + (sum \div 65536)
header_checksum16(bytes) == 65535 - Carried(Carried(Sum(bytes)))

\* The two bytes at place n become the checksum of all of it.
WithChecksum(bytes, n) ==
    LET c == header_checksum16(bytes)
    IN  [bytes EXCEPT ![n] = High(c), ![n + 1] = Low(c)]

ip_header(target_ip, ip_len, ip_proto) ==
    WithChecksum(<<69, 0, High(ip_len), Low(ip_len), 0, 0, 0, 0, 64, ip_proto, 0, 0>>
                    \o self_g.ip \o target_ip, 11)

ethernet_header(target_mac, type) == [dst |-> target_mac, src |-> self_g.mac, type |-> type]

arp_reply(mac, ip) ==
    [eth |-> ethernet_header(mac, "arp"), op |-> 2,
     sender |-> self_g, target |-> [mac |-> mac, ip |-> ip], type |-> "arp"]

\* The message is as long as that of the frame would be without IP options;
\* what is not copied from it is what the stack holds.
ping_reply(f, message, u) ==
    LET hlen == (f.header[1] % 16) * 4
        icmp == [k \in 1..(f.len - 20) |->
                    IF k <= 4 THEN 0
                    ELSE IF k <= 8 \/ k <= f.len - hlen THEN message[k] ELSE u]
    IN  [eth |-> ethernet_header(f.src, "ip"), type |-> "ip",
         header |-> ip_header(SubSeq(f.header, 13, 16), f.len, 1),
         message |-> WithChecksum(icmp, 3)]

parse_arp_packet(f) ==
    /\ reply' = IF f.op = 1 /\ f.target = self_g.ip THEN arp_reply(f.sender.mac, f.sender.ip) ELSE NoFrame
    /\ handed' = "nobody"

\* IP version 4, to this address; the rest by its protocol.
parse_ip_packet(f) ==
    LET mine  == f.header[1] \div 16 = 4 /\ SubSeq(f.header, 17, 20) = self_g.ip
        proto == f.header[10]
    IN  /\ \E u \in Stack :
              reply' = IF mine /\ proto = 1 THEN ping_reply(f, f.message, u) ELSE NoFrame
        /\ handed' = CASE mine /\ proto = 6  -> "tcp"
                       [] mine /\ proto = 17 -> "udp"
                       [] OTHER              -> "nobody"

parse_rx_packet ==
    /\ frame = NoFrame
    /\ \E f \in Frames :
          /\ frame' = f
          /\ CASE f.type = "arp" -> parse_arp_packet(f)
               [] f.type = "ip"  -> parse_ip_packet(f)
               [] OTHER          -> reply' = NoFrame /\ handed' = "nobody"

Return == frame # NoFrame /\ frame' = NoFrame /\ reply' = NoFrame /\ handed' = "nobody"

PacketNext == parse_rx_packet \/ Return
-----------------------------------------------------------------------------
(* What the other end expects (RFC 826, 791, 792, 1071). *)

Words(bytes) ==
    LET even == IF Len(bytes) % 2 = 0 THEN bytes ELSE Append(bytes, 0)
    IN  [k \in 1..(Len(even) \div 2) |-> 256 * even[2 * k - 1] + even[2 * k]]

\* The words of a message with its checksum add up to a multiple of 65535.
Verifies(bytes) == Total(Words(bytes)) > 0 /\ Total(Words(bytes)) % 65535 = 0

\* What another station sends.  ping_reply makes its answer in a buffer of 96
\* bytes and does not look whether the echo fits: what it does to one that is
\* longer is not defined.
Legal(f) ==
    /\ f.type \in {"arp", "ip", "other"}
    /\ f.type = "arp" => f.sender \in [mac : {f.sender.mac}, ip : {f.sender.ip}]
    /\ f.type = "ip" =>
          /\ f.header \in [1..20 -> Byte] /\ f.header[1] % 16 >= 5
          /\ f.message \in Seq(Byte) /\ f.len = 4 * (f.header[1] % 16) + Len(f.message)
          /\ f.header[10] = 1 => Len(f.message) >= 8 /\ 14 + f.len <= 96

ForSelf(f) ==
    \/ f.type = "arp" /\ f.op = 1 /\ f.target = self_g.ip
    \/ f.type = "ip" /\ f.header[1] \div 16 = 4 /\ SubSeq(f.header, 17, 20) = self_g.ip

Optioned(f) == f.header[1] % 16 > 5

\* Who asks is answered, once and correctly: the address this station has;
\* or an echo whose checksums hold, with the number and the data of the
\* message it is for.  After IP options the echo is padded with strange bytes.
ReplySound ==
    frame # NoFrame =>
        /\ (reply # NoFrame) = (ForSelf(frame) /\ (frame.type = "ip" => frame.header[10] = 1))
        /\ (handed # "nobody") = (frame.type = "ip" /\ ForSelf(frame) /\ frame.header[10] \in {6, 17})
        /\ reply # NoFrame /\ frame.type = "arp" =>
              /\ reply.eth.dst = frame.sender.mac /\ reply.op = 2
              /\ reply.sender = self_g /\ reply.target = frame.sender
        /\ reply # NoFrame /\ frame.type = "ip" =>
              /\ reply.eth.dst = frame.src
              /\ SubSeq(reply.header, 13, 20) = self_g.ip \o SubSeq(frame.header, 13, 16)
              /\ Verifies(reply.header) /\ Verifies(reply.message)
              /\ SubSeq(reply.message, 1, 2) = <<0, 0>>
              /\ SubSeq(reply.message, 5, Len(frame.message)) =
                    SubSeq(frame.message, 5, Len(frame.message))
              /\ Optioned(frame) \/ Len(reply.message) = Len(frame.message)
=============================================================================
