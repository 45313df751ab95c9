----------------------------- MODULE TftpProofs -----------------------------
(***************************************************************************)
(* Proofs about Tftp, for any files and any number of packets in flight,   *)
(* lost or repeated: what is acknowledged is saved, once and in order, as  *)
(* long as block numbers do not wrap; and a client that awaits the verdict *)
(* on each file has it split and started whole.                            *)
(***************************************************************************)
EXTENDS Tftp, SequenceTheorems, TLAPS

\* No file is so long that its block numbers wrap (32 MB).
NoWrap == \A u \in 1 .. Len(Uploads) : Uploads[u].blocks < BlockMod

(***************************************************************************)
(* The invariant names the upload u whose write request was taken last (0: *)
(* none yet).  The client is at the block saved last, at the next one, or  *)
(* at the next write request, and every packet on its way is of one of the *)
(* two, those of the later one behind.                                     *)
(***************************************************************************)
Saved == Len(file.blocks)

\* The file holds the first blocks of u.
Filed(u) ==
    /\ u = 0 => Saved = 0
    /\ u # 0 => Saved <= Uploads[u].blocks /\ file.linux_boot = Uploads[u].linux
    /\ \A b \in 1 .. Saved : file.blocks[b] = [up |-> u, blk |-> b]
    /\ file.last_block = Saved
    /\ file.ready => file.complete
    /\ file.complete => u # 0 /\ Saved = Uploads[u].blocks

Place(u) ==
    \/ u # 0 /\ up = u /\ blk = Saved
    \/ u # 0 /\ up = u /\ blk = Saved + 1 /\ blk <= Uploads[u].blocks
    \/ up = u + 1 /\ blk = 0

Current(p) == p.up = up /\ p.blk = blk
Queue(u) ==
    /\ \A i \in DOMAIN requests :
          Current(requests[i]) \/ (requests[i].up = u /\ requests[i].blk = Saved)
    /\ \A i, j \in DOMAIN requests : i < j /\ Current(requests[i]) => Current(requests[j])

Replies(u) ==
    \A i \in DOMAIN acks : acks[i].up < u \/ (acks[i].up = u /\ acks[i].ack <= Saved)

\* The main loop works on a file that is whole.
Asking == \E i \in DOMAIN requests : requests[i].blk = 0
Loading(u) ==
    /\ Asking => Settled
    /\ armed => /\ ~file.ready /\ pc \in {"look", "timer", "rebooted"}
                /\ file.complete /\ elf_mem0_g = Whole(u)
    /\ pc \in {"clear", "size", "walk", "split"} => file.complete /\ ~armed
    /\ pc \in {"size", "walk", "split"} => ~file.ready
    /\ pc = "walk" =>
          /\ ~detached /\ node <= Saved /\ Len(image) = node - 1
          /\ \A b \in 1 .. node - 1 : image[b] = file.blocks[b]
    /\ pc = "split" => image = Whole(u)
    /\ pc = "rebooted" => u # 0 /\ booted = [image |-> Whole(u), linux |-> Uploads[u].linux]
    /\ elf_mem0_g = <<>> \/ \E v \in 1 .. Len(Uploads) : elf_mem0_g = Whole(v)

Holds(u) ==
    /\ Filed(u) /\ Place(u) /\ Queue(u) /\ Replies(u)
    /\ hurried \/ Loading(u)

IInv ==
    /\ TypeOK
    /\ pc = "walk" => node >= 1
    /\ \E u \in 0 .. Len(Uploads) : Holds(u)
-----------------------------------------------------------------------------
(* Sequences. *)

LEMMA AppendedIs ==
    ASSUME NEW S, NEW s \in Seq(S), NEW e \in S
    PROVE  /\ Append(s, e) \in Seq(S)
           /\ DOMAIN s = 1 .. Len(s) /\ Len(s) \in Nat
           /\ Len(Append(s, e)) = Len(s) + 1
           /\ DOMAIN Append(s, e) = 1 .. Len(s) + 1
           /\ \A i \in 1 .. Len(s) : Append(s, e)[i] = s[i]
           /\ Append(s, e)[Len(s) + 1] = e
BY AppendProperties, LenProperties

LEMMA TailIs ==
    ASSUME NEW S, NEW s \in Seq(S), s # <<>>
    PROVE  /\ Tail(s) \in Seq(S) /\ 1 \in DOMAIN s /\ Head(s) = s[1] /\ s[1] \in S
           /\ \A i \in DOMAIN Tail(s) :
                 i \in Nat /\ i + 1 \in DOMAIN s /\ Tail(s)[i] = s[i + 1]
<1>1. Len(s) \in Nat \ {0} /\ DOMAIN s = 1 .. Len(s)
    BY EmptySeq, LenProperties
<1>2. /\ Tail(s) \in Seq(S) /\ Head(s) \in S /\ Head(s) = s[1]
      /\ Len(Tail(s)) = Len(s) - 1
      /\ \A i \in 1 .. Len(Tail(s)) : Tail(s)[i] = s[i + 1]
    BY HeadTailProperties
<1>3. DOMAIN Tail(s) = 1 .. Len(s) - 1
    BY <1>2, LenProperties
<1> QED
    BY <1>1, <1>2, <1>3

\* A sequence of all the blocks of an upload is that upload.
LEMMA IsWhole ==
    ASSUME NEW u \in 1 .. Len(Uploads), NEW s \in Seq(Piece),
           Len(s) = Uploads[u].blocks,
           \A b \in 1 .. Len(s) : s[b] = [up |-> u, blk |-> b]
    PROVE  s = Whole(u)
<1>1. s \in [1 .. Len(s) -> Piece]
    BY LenProperties
<1>2. s = [b \in 1 .. Len(s) |-> s[b]]
    BY <1>1
<1>3. s = [b \in 1 .. Len(s) |-> [up |-> u, blk |-> b]]
    BY <1>2
<1> QED
    BY <1>3 DEF Whole

LEMMA Unwrapped == ASSUME NEW m \in Nat \ {0}, NEW n \in Nat, n < m PROVE n % m = n
BY SMT

\* What is known of the uploads.
LEMMA UploadIs ==
    ASSUME NEW u \in 1 .. Len(Uploads)
    PROVE  Uploads[u] \in [blocks : Nat \ {0}, elf : BOOLEAN, linux : BOOLEAN, octet : BOOLEAN]
BY UploadsAssumption, LenProperties

LEMMA SomeUploads == Len(Uploads) \in Nat
BY UploadsAssumption, LenProperties

\* The sockets are asked to disconnect in the first stage of the reboot.
Told == stage = 1 \/ pc = "rebooted" => tcp_disconnect

LEMMA AllTold == Spec => []Told
<1>1. Init => Told
    BY DEF Init, Told
<1>2. Told /\ [Next]_vars => Told'
    <2> SUFFICES ASSUME Told, [Next]_vars PROVE Told'
        OBVIOUS
    <2>1. CASE ProcessTftp
        BY <2>1 DEF ProcessTftp, Look, Clear, Size, Walk, Split, NotExpired, Disconnect,
                    Reboot, Told
    <2>2. CASE UNCHANGED loader
        BY <2>2 DEF loader, Told
    <2> QED
        BY <2>1, <2>2 DEF Next, vars, ClientSends, ClientHears, Lose, WriteRequest, Data
<1> QED
    BY <1>1, <1>2, PTL DEF Spec

LEMMA Enough == IInv /\ Told => SavedInv /\ ImageWhole /\ BootsOneFile
<1> SUFFICES ASSUME IInv, Told PROVE SavedInv /\ ImageWhole /\ BootsOneFile
    OBVIOUS
<1>1. PICK u \in 0 .. Len(Uploads) : Holds(u)
    BY DEF IInv
<1>2. Len(file.blocks) \in Nat /\ blk \in Nat
    BY LenProperties DEF IInv, TypeOK, File
<1>3. AckedSaved
    BY <1>1, <1>2 DEF AckedSaved, Holds, Filed, Place, Saved
<1>4. ImageWhole
    BY <1>1 DEF ImageWhole, Holds, Loading
<1>5. BootsOneFile
    BY <1>1, SomeUploads DEF BootsOneFile, Holds, Loading, Told
<1> QED
    BY <1>3, <1>4, <1>5 DEF IInv, SavedInv

LEMMA Start == Init => IInv
<1> SUFFICES ASSUME Init PROVE IInv
    OBVIOUS
<1>1. /\ file \in File /\ old \in File /\ Len(file.blocks) = 0
      /\ file.last_block = 0 /\ ~file.ready /\ ~file.complete
    BY EmptySeq DEF Init, NewFile, File
<1>2. TypeOK
    <2>1. /\ <<>> \in Seq(Piece) /\ <<>> \in Seq(Packet) /\ <<>> \in Seq(Answer)
          /\ 1 \in 1 .. Len(Uploads) + 1
        BY EmptySeq, SomeUploads
    <2>2. /\ node = 0 /\ up = 1 /\ blk = 0 /\ stage = 0 /\ tcp_disconnect = FALSE /\ pc = "look"
          /\ null = TRUE /\ detached = FALSE /\ armed = FALSE /\ hurried = FALSE
          /\ image = <<>> /\ elf_mem0_g = <<>> /\ requests = <<>> /\ acks = <<>>
        BY DEF Init
    <2> QED
        BY <1>1, <2>1, <2>2 DEF TypeOK
<1>3. Filed(0) /\ Place(0)
    <2>1. up = 1 /\ blk = 0
        BY DEF Init
    <2> QED
        BY <1>1, <2>1 DEF Filed, Place, Saved
<1>4. Queue(0) /\ Replies(0) /\ ~Asking
    BY EmptySeq DEF Init, Queue, Replies, Asking
<1>5. Loading(0)
    BY <1>1, <1>4 DEF Init, Loading
<1> QED
    BY <1>2, <1>3, <1>4, <1>5, SomeUploads DEF Init, IInv, Holds
-----------------------------------------------------------------------------
(* The client and the network. *)

\* The types of what the client, the network and the handler change.
LEMMA Typed ==
    ASSUME IInv
    PROVE  /\ file \in File /\ file.blocks \in Seq(Piece) /\ Saved \in Nat
           /\ requests \in Seq(Packet) /\ acks \in Seq(Answer)
           /\ up \in 1 .. Len(Uploads) + 1 /\ blk \in Nat
           /\ hurried \in BOOLEAN /\ armed \in BOOLEAN
           /\ Len(Uploads) \in Nat
BY LenProperties, SomeUploads DEF IInv, TypeOK, File, Saved

LEMMA SendsKeeps == ASSUME IInv, ClientSends PROVE IInv'
<1> DEFINE p == [up |-> up, blk |-> blk]
<1>1. /\ up \in 1 .. Len(Uploads) /\ requests' = Append(requests, p)
      /\ hurried' = (hurried \/ (blk = 0 /\ ~Settled))
      /\ UNCHANGED <<file, null, old, detached, pc, node, image, elf_mem0_g, armed,
                     stage, tcp_disconnect, booted, up, blk, acks>>
    BY Typed DEF ClientSends, server, loader
<1>2. p \in Packet
    BY <1>1, Typed DEF Packet
<1>3. /\ requests' \in Seq(Packet)
      /\ DOMAIN requests = 1 .. Len(requests) /\ Len(requests) \in Nat
      /\ DOMAIN requests' = 1 .. Len(requests) + 1
      /\ \A i \in 1 .. Len(requests) : requests'[i] = requests[i]
      /\ requests'[Len(requests) + 1] = p
    BY <1>1, <1>2, Typed, AppendedIs
<1>4. TypeOK'
    BY <1>1, <1>3, Typed DEF IInv, TypeOK
<1>5. PICK u \in 0 .. Len(Uploads) : Holds(u)
    BY DEF IInv
<1>6. Filed(u)' /\ Place(u)' /\ Replies(u)'
    BY <1>1, <1>5 DEF Holds, Filed, Place, Replies, Saved
<1>7. Queue(u)'
    BY <1>1, <1>3, <1>5 DEF Holds, Queue, Current, Saved
<1>8. ASSUME ~hurried' PROVE Loading(u)'
    <2>1. ~hurried /\ Loading(u) /\ (blk = 0 => Settled)
        BY <1>1, <1>5, <1>8 DEF Holds
    <2>2. Asking' => Settled'
        BY <1>1, <1>3, <2>1 DEF Loading, Asking, Settled
    <2> QED
        BY <1>1, <2>1, <2>2 DEF Loading, Saved
<1> QED
    BY <1>1, <1>4, <1>5, <1>6, <1>7, <1>8 DEF IInv, Holds

LEMMA HearsKeeps == ASSUME NoWrap, IInv, ClientHears PROVE IInv'
<1> DEFINE a == acks[1]
           refused == a.up = up /\ a.ack = -1 /\ blk = 0
           done == a.up = up /\ a.ack = blk % BlockMod
<1>1. /\ acks # <<>> /\ acks' = Tail(acks)
      /\ UNCHANGED <<file, null, old, detached, pc, node, image, elf_mem0_g, armed,
                     stage, tcp_disconnect, booted, hurried, requests>>
    BY DEF ClientHears, server, loader
<1>2. /\ acks' \in Seq(Answer) /\ 1 \in DOMAIN acks /\ a \in Answer /\ Head(acks) = a
      /\ \A i \in DOMAIN acks' : i + 1 \in DOMAIN acks /\ acks'[i] = acks[i + 1]
    BY <1>1, Typed, TailIs
<1>3. IF refused \/ (done /\ blk = Uploads[up].blocks)
      THEN up' = up + 1 /\ blk' = 0
      ELSE up' = up /\ blk' = IF done THEN blk + 1 ELSE blk
    BY <1>2 DEF ClientHears, NextUpload
<1>4. PICK u \in 0 .. Len(Uploads) : Holds(u)
    BY DEF IInv
<1>5. u # 0 => Uploads[u].blocks \in Nat \ {0} /\ Uploads[u].blocks < BlockMod
    BY UploadIs, Typed DEF NoWrap
<1>6. a.up < u \/ (a.up = u /\ a.ack <= Saved)
    BY <1>2, <1>4 DEF Holds, Replies
<1>7. u # 0 /\ up = u => blk % BlockMod = blk
    <2> SUFFICES ASSUME u # 0, up = u PROVE blk % BlockMod = blk
        OBVIOUS
    <2>1. blk < BlockMod
        <3>1. blk = Saved \/ blk <= Uploads[u].blocks
            BY <1>4, Typed DEF Holds, Place
        <3>2. Saved <= Uploads[u].blocks
            BY <1>4 DEF Holds, Filed
        <3> QED
            BY <1>5, <3>1, <3>2, Typed, ModAssumption
    <2> QED
        BY <2>1, Typed, ModAssumption, Unwrapped
<1>8. refused \/ done => u # 0 /\ up = u /\ blk = Saved
    BY <1>2, <1>4, <1>6, <1>7, Typed DEF Holds, Place, Answer
<1>9. Filed(u)' /\ Replies(u)'
    BY <1>1, <1>2, <1>4 DEF Holds, Filed, Replies, Saved
<1>10. Place(u)' /\ blk' \in Nat /\ up' \in 1 .. Len(Uploads) + 1
    <2>1. CASE ~refused /\ ~done
        BY <1>1, <1>3, <1>4, <2>1, Typed DEF Holds, Place, Saved
    <2>2. CASE refused \/ done
        <3>1. /\ Saved' = Saved /\ u # 0 /\ up = u /\ blk = Saved
              /\ Saved <= Uploads[u].blocks
            BY <1>1, <1>4, <1>8, <2>2 DEF Holds, Filed, Saved
        <3>2. CASE up' = up + 1 /\ blk' = 0
            BY <3>1, <3>2, Typed DEF Place
        <3>3. CASE up' = up /\ blk' = blk + 1 /\ blk # Uploads[up].blocks
            BY <1>5, <3>1, <3>3, Typed DEF Place
        <3>4. refused => blk' = 0 /\ up' = up + 1
            BY <1>3
        <3> QED
            BY <1>3, <2>2, <3>2, <3>3, <3>4
    <2> QED
        BY <2>1, <2>2
<1>11. Queue(u)'
    <2>1. CASE ~refused /\ ~done
        BY <1>1, <1>3, <1>4, <2>1 DEF Holds, Queue, Current, Saved
    <2>2. CASE refused \/ done
        <3>1. \A i \in DOMAIN requests : requests[i].up = u /\ requests[i].blk = Saved
            BY <1>4, <1>8, <2>2 DEF Holds, Queue, Current
        <3>2. ~(up' = u /\ blk' = Saved)
            BY <1>3, <1>8, <2>2, Typed
        <3> QED
            BY <1>1, <3>1, <3>2 DEF Queue, Current, Saved
    <2> QED
        BY <2>1, <2>2
<1>12. TypeOK'
    BY <1>1, <1>2, <1>10 DEF IInv, TypeOK
<1>13. hurried' \/ Loading(u)'
    BY <1>1, <1>4 DEF Holds, Loading, Saved, Asking, Settled
<1> QED
    BY <1>1, <1>4, <1>9, <1>10, <1>11, <1>12, <1>13 DEF IInv, Holds

LEMMA LoseKeeps == ASSUME IInv, Lose PROVE IInv'
<1>1. UNCHANGED <<file, null, old, detached, pc, node, image, elf_mem0_g, armed,
                  stage, tcp_disconnect, booted, up, blk, hurried>>
    BY DEF Lose, server, loader, client
<1>2. PICK u \in 0 .. Len(Uploads) : Holds(u)
    BY DEF IInv
<1>3. Filed(u)' /\ Place(u)'
    BY <1>1, <1>2 DEF Holds, Filed, Place, Saved
<1>4. CASE requests # <<>> /\ requests' = Tail(requests) /\ acks' = acks
    <2>1. /\ requests' \in Seq(Packet)
          /\ \A i \in DOMAIN requests' :
                i \in Nat /\ i + 1 \in DOMAIN requests /\ requests'[i] = requests[i + 1]
        BY <1>4, Typed, TailIs
    <2>2. Queue(u)' /\ Replies(u)' /\ (Asking' => Asking)
        BY <1>1, <1>2, <1>4, <2>1 DEF Holds, Queue, Current, Replies, Saved, Asking
    <2>3. hurried' \/ Loading(u)'
        BY <1>1, <1>2, <2>2 DEF Holds, Loading, Settled, Saved
    <2>4. TypeOK'
        BY <1>1, <1>4, <2>1 DEF IInv, TypeOK
    <2> QED
        BY <1>1, <1>2, <1>3, <2>2, <2>3, <2>4 DEF IInv, Holds
<1>5. CASE acks # <<>> /\ acks' = Tail(acks) /\ requests' = requests
    <2>1. /\ acks' \in Seq(Answer)
          /\ \A i \in DOMAIN acks' : i + 1 \in DOMAIN acks /\ acks'[i] = acks[i + 1]
        BY <1>5, Typed, TailIs
    <2>2. Queue(u)' /\ Replies(u)' /\ (Asking' => Asking)
        BY <1>1, <1>2, <1>5, <2>1 DEF Holds, Queue, Current, Replies, Saved, Asking
    <2>3. hurried' \/ Loading(u)'
        BY <1>1, <1>2, <2>2 DEF Holds, Loading, Settled, Saved
    <2>4. TypeOK'
        BY <1>1, <1>5, <2>1 DEF IInv, TypeOK
    <2> QED
        BY <1>1, <1>2, <1>3, <2>2, <2>3, <2>4 DEF IInv, Holds
<1> QED
    BY <1>4, <1>5 DEF Lose
-----------------------------------------------------------------------------
(* The handler. *)

\* It takes the first request and answers it.
LEMMA TakenRequest ==
    ASSUME IInv, Receive
    PROVE  /\ requests' \in Seq(Packet) /\ 1 \in DOMAIN requests
           /\ Head(requests) = requests[1] /\ requests[1] \in Packet
           /\ \A i \in DOMAIN requests' :
                 i \in Nat /\ i + 1 \in DOMAIN requests /\ requests'[i] = requests[i + 1]
BY Typed, TailIs DEF Receive

LEMMA Answered ==
    ASSUME IInv, NEW u \in 0 .. Len(Uploads), NEW v \in 1 .. Len(Uploads), NEW n \in Int,
           NEW a \in Answer, acks' = Append(acks, a), Replies(u),
           u < v \/ (u = v /\ Saved <= n), a.up = v, a.ack <= n
    PROVE  /\ acks' \in Seq(Answer)
           /\ \A i \in DOMAIN acks' :
                 acks'[i].up < v \/ (acks'[i].up = v /\ acks'[i].ack <= n)
<1>1. /\ acks' \in Seq(Answer)
      /\ DOMAIN acks = 1 .. Len(acks) /\ Len(acks) \in Nat
      /\ DOMAIN acks' = 1 .. Len(acks) + 1
      /\ \A i \in 1 .. Len(acks) : acks'[i] = acks[i]
      /\ acks'[Len(acks) + 1] = a
    BY Typed, AppendedIs
<1>2. ASSUME NEW i \in 1 .. Len(acks)
      PROVE  acks[i].up < v \/ (acks[i].up = v /\ acks[i].ack <= n)
    <2>1. acks[i].up < u \/ (acks[i].up = u /\ acks[i].ack <= Saved)
        BY <1>1 DEF Replies
    <2>2. acks[i] \in Answer
        BY <1>1, Typed
    <2>3. acks[i].up \in Nat
        BY <2>2, Typed DEF Answer
    <2>4. CASE acks[i].up < v
        BY <2>4
    <2>5. CASE acks[i].up = v
        <3>1. u = v
            BY <2>1, <2>5, Typed
        <3>2. acks[i].ack \in Int
            BY <2>2, ModAssumption DEF Answer
        <3> QED
            BY <2>1, <2>5, <3>1, <3>2, Typed
    <2> QED
        BY <2>1, <2>3, <2>4, <2>5, Typed
<1>3. ASSUME NEW i \in DOMAIN acks'
      PROVE  acks'[i].up < v \/ (acks'[i].up = v /\ acks'[i].ack <= n)
    <2>1. CASE i \in 1 .. Len(acks)
        BY <1>1, <1>2, <2>1
    <2>2. CASE i = Len(acks) + 1
        BY <1>1, <2>2
    <2> QED
        BY <1>1, <2>1, <2>2
<1> QED
    BY <1>1, <1>3

LEMMA WriteKeeps == ASSUME NoWrap, IInv, WriteRequest PROVE IInv'
<1> DEFINE p == requests[1]
           a == [up |-> p.up, ack |-> IF Uploads[p.up].octet THEN 0 ELSE -1]
<1>1. /\ requests' \in Seq(Packet) /\ 1 \in DOMAIN requests
      /\ Head(requests) = p /\ p \in Packet
      /\ \A i \in DOMAIN requests' :
            i \in Nat /\ i + 1 \in DOMAIN requests /\ requests'[i] = requests[i + 1]
    BY TakenRequest DEF WriteRequest
<1>2. /\ p.up \in 1 .. Len(Uploads) /\ p.blk = 0 /\ pc # "rebooted"
      /\ file' = NewFile(Uploads[p.up].linux) /\ null' = FALSE
      /\ old' = (IF detached THEN old ELSE file) /\ detached' = TRUE
      /\ acks' = Append(acks, a)
      /\ UNCHANGED <<pc, node, image, elf_mem0_g, armed, stage, tcp_disconnect, booted, up, blk, hurried>>
    BY <1>1 DEF WriteRequest, loader, client, Packet
<1>v. PICK v \in 1 .. Len(Uploads) : v = p.up
    BY <1>2
<1>3. Uploads[v].blocks \in Nat \ {0} /\ Uploads[v].linux \in BOOLEAN
    BY <1>2, <1>v, UploadIs
<1>4. /\ file' \in File /\ Saved' = 0 /\ file'.last_block = 0
      /\ ~file'.ready /\ ~file'.complete /\ file'.linux_boot = Uploads[v].linux
    BY <1>2, <1>v, <1>3, EmptySeq DEF NewFile, File, Saved
<1>5. PICK u \in 0 .. Len(Uploads) : Holds(u)
    BY DEF IInv
<1>6. (u = v /\ Saved = 0) \/ (v = u + 1 /\ up = v /\ blk = 0)
    <2>1. Current(p) \/ (p.up = u /\ p.blk = Saved)
        BY <1>1, <1>5 DEF Holds, Queue
    <2> QED
        BY <1>2, <1>v, <1>5, <2>1, Typed DEF Holds, Place, Current
<1>7. a \in Answer /\ a.up = v /\ a.ack <= 0
    BY <1>2, <1>v, ModAssumption DEF Answer
<1>8. acks' \in Seq(Answer) /\ Replies(v)'
    <2>1. u < v \/ (u = v /\ Saved <= 0)
        BY <1>6, Typed
    <2>2. Replies(u)
        BY <1>5 DEF Holds
    <2> HIDE DEF a
    <2>3. /\ acks' \in Seq(Answer)
          /\ \A i \in DOMAIN acks' :
                acks'[i].up < v \/ (acks'[i].up = v /\ acks'[i].ack <= 0)
        BY <1>2, <1>v, <1>7, <2>1, <2>2, Answered
    <2> QED
        BY <1>4, <2>3 DEF Replies
<1>9. TypeOK'
    BY <1>1, <1>2, <1>v, <1>4, <1>8 DEF IInv, TypeOK
<1>10. Filed(v)'
    BY <1>2, <1>v, <1>3, <1>4 DEF Filed, Saved
<1>11. Place(v)'
    BY <1>2, <1>v, <1>3, <1>4, <1>5, <1>6, Typed DEF Holds, Place
<1>12. Queue(v)'
    <2>1. CASE u = v /\ Saved = 0
        BY <1>1, <1>2, <1>v, <1>4, <1>5, <2>1 DEF Holds, Queue, Current
    <2>2. CASE v = u + 1 /\ up = v /\ blk = 0
        <3>1. Current(p)
            BY <1>2, <1>v, <2>2 DEF Current
        <3>2. \A i \in DOMAIN requests' : Current(requests'[i])
            BY <1>1, <1>5, <3>1 DEF Holds, Queue
        <3>3. \A i \in DOMAIN requests' : requests'[i].up = up' /\ requests'[i].blk = blk'
            BY <1>2, <1>v, <3>2 DEF Current
        <3> QED
            BY <3>3 DEF Queue, Current
    <2> QED
        BY <1>6, <2>1, <2>2
<1>13. ASSUME ~hurried' PROVE Loading(v)'
    <2>1. Loading(u) /\ Settled
        BY <1>1, <1>2, <1>v, <1>5, <1>13 DEF Holds, Loading, Asking
    <2>2. ~armed /\ pc \in {"look", "timer"} /\ Settled'
        BY <1>2, <1>v, <1>4, <2>1 DEF Settled
    <2> QED
        BY <1>2, <1>v, <2>1, <2>2 DEF Loading
<1>14. Holds(v)'
    BY <1>8, <1>10, <1>11, <1>12, <1>13 DEF Holds
<1>15. pc' = "walk" => node' >= 1
    BY <1>2, <1>v DEF IInv
<1> QED
    BY <1>2, <1>v, <1>9, <1>14, <1>15, Typed DEF IInv

LEMMA DataKeeps == ASSUME NoWrap, IInv, Data PROVE IInv'
<1> DEFINE p == requests[1]
           a == [up |-> p.up, ack |-> p.blk % BlockMod]
<1>1. /\ requests' \in Seq(Packet) /\ 1 \in DOMAIN requests
      /\ Head(requests) = p /\ p \in Packet
      /\ \A i \in DOMAIN requests' :
            i \in Nat /\ i + 1 \in DOMAIN requests /\ requests'[i] = requests[i + 1]
    BY TakenRequest DEF Data
<1>2. /\ p.up \in 1 .. Len(Uploads) /\ p.blk \in Nat /\ p.blk > 0 /\ pc # "rebooted"
      /\ file' = Save(file, p.up, p.blk) /\ acks' = Append(acks, a)
      /\ UNCHANGED <<null, old, detached, pc, node, image, elf_mem0_g, armed, stage,
                     tcp_disconnect, booted, up, blk, hurried>>
    BY <1>1 DEF Data, loader, client, Packet
<1>3. PICK u \in 0 .. Len(Uploads) : Holds(u)
    BY DEF IInv
<1>4. /\ u = p.up /\ u # 0
      /\ p.blk = Saved \/ (p.blk = Saved + 1 /\ Current(p))
    <2>1. Current(p) \/ (p.up = u /\ p.blk = Saved)
        BY <1>1, <1>3 DEF Holds, Queue
    <2> QED
        BY <1>2, <1>3, <2>1, Typed DEF Holds, Place, Current
<1>5. Uploads[u].blocks \in Nat \ {0} /\ Uploads[u].blocks < BlockMod
    BY <1>2, <1>4, UploadIs DEF NoWrap
<1>6. /\ Saved <= Uploads[u].blocks /\ p.blk <= Uploads[u].blocks
      /\ file.last_block = Saved
    BY <1>3, <1>4, Typed DEF Holds, Filed, Place, Current
<1>7. p.blk % BlockMod = p.blk
    <2>1. p.blk < BlockMod
        BY <1>2, <1>5, <1>6, ModAssumption
    <2> QED
        BY <1>2, <2>1, ModAssumption, Unwrapped
<1>8. a \in Answer /\ a.up = u /\ a.ack = p.blk
    <2>1. p.blk \in 0 .. BlockMod - 1
        BY <1>2, <1>5, <1>6, ModAssumption
    <2> QED
        BY <1>2, <1>4, <1>7, <2>1 DEF Answer
<1>9. acks' \in Seq(Answer)
      /\ \A i \in DOMAIN acks' : acks'[i].up < u \/ (acks'[i].up = u /\ acks'[i].ack <= p.blk)
    <2>1. u = u /\ Saved <= p.blk /\ a.ack <= p.blk
        BY <1>2, <1>4, <1>8, Typed
    <2>2. Replies(u)
        BY <1>3 DEF Holds
    <2> HIDE DEF a
    <2> QED
        BY <1>2, <1>4, <1>8, <2>1, <2>2, Answered
<1>10. CASE p.blk = Saved
    <2>1. file' = file
        BY <1>2, <1>6, <1>7, <1>10 DEF Save
    <2>2. TypeOK'
        BY <1>1, <1>2, <1>9, <2>1 DEF IInv, TypeOK
    <2>3. Filed(u)' /\ Place(u)' /\ Replies(u)'
        BY <1>2, <1>3, <1>9, <1>10, <2>1 DEF Holds, Filed, Place, Replies, Saved
    <2>4. Queue(u)' /\ (Asking' => Asking)
        BY <1>1, <1>2, <1>3, <2>1 DEF Holds, Queue, Current, Saved, Asking
    <2>5. hurried' \/ Loading(u)'
        BY <1>2, <1>3, <2>1, <2>4 DEF Holds, Loading, Settled, Saved
    <2> QED
        BY <1>2, <1>3, <2>1, <2>2, <2>3, <2>4, <2>5 DEF IInv, Holds
<1>11. CASE p.blk = Saved + 1 /\ Current(p)
    <2> DEFINE e == [up |-> u, blk |-> p.blk]
               last == p.blk = Uploads[u].blocks
    <2>1. file' = [file EXCEPT !.last_block = p.blk, !.blocks = Append(file.blocks, e),
                               !.ready = last, !.complete = last]
        <3>1. p.blk > file.last_block
            BY <1>6, <1>11, Typed
        <3> QED
            BY <1>2, <1>4, <1>7, <3>1 DEF Save
    <2>2. e \in Piece
        BY <1>2, <1>4 DEF Piece
    <2> HIDE DEF e
    <2>3. /\ Append(file.blocks, e) \in Seq(Piece)
          /\ Len(Append(file.blocks, e)) = Saved + 1
          /\ \A i \in 1 .. Saved : Append(file.blocks, e)[i] = file.blocks[i]
          /\ Append(file.blocks, e)[Saved + 1] = e
        BY <2>2, Typed, AppendedIs DEF Saved
    <2>4. /\ file' \in File /\ file'.blocks = Append(file.blocks, e)
          /\ file'.last_block = p.blk /\ file'.ready = last /\ file'.complete = last
          /\ file'.linux_boot = file.linux_boot
        BY <1>2, <2>1, <2>3, Typed DEF File
    <2>5. Saved' = Saved + 1
        BY <2>3, <2>4 DEF Saved
    <2>6. ~file.complete
        BY <1>3, <1>6, <1>11, Typed DEF Holds, Filed
    <2>7. TypeOK'
        BY <1>1, <1>2, <1>9, <2>4 DEF IInv, TypeOK
    <2>8. Filed(u)'
        <3>1. \A b \in 1 .. Saved : file.blocks[b] = [up |-> u, blk |-> b]
            BY <1>3 DEF Holds, Filed
        <3>2. \A b \in 1 .. Saved + 1 : file'.blocks[b] = [up |-> u, blk |-> b]
            <4>1. Saved \in Nat
                BY Typed
            <4>2. e = [up |-> u, blk |-> Saved + 1]
                BY <1>11 DEF e
            <4>3. ASSUME NEW b \in 1 .. Saved + 1
                  PROVE  Append(file.blocks, e)[b] = [up |-> u, blk |-> b]
                <5>1. CASE b = Saved + 1
                    BY <2>3, <4>2, <5>1
                <5>2. CASE b \in 1 .. Saved
                    BY <2>3, <3>1, <5>2
                <5>3. b = Saved + 1 \/ b \in 1 .. Saved
                    BY <4>1
                <5> QED
                    BY <5>1, <5>2, <5>3
            <4> QED
                BY <2>4, <4>3
        <3>3. file.linux_boot = Uploads[u].linux
            BY <1>3, <1>4 DEF Holds, Filed
        <3>4. /\ u # 0 /\ Saved' = p.blk /\ Saved' <= Uploads[u].blocks
              /\ file'.last_block = Saved' /\ file'.linux_boot = Uploads[u].linux
            BY <1>4, <1>6, <1>11, <2>4, <2>5, <3>3
        <3>5. \A b \in 1 .. Saved' : file'.blocks[b] = [up |-> u, blk |-> b]
            BY <2>5, <3>2
        <3>6. (file'.ready => file'.complete) /\ (file'.complete => Saved' = Uploads[u].blocks)
            BY <2>4, <3>4
        <3> QED
            BY <3>4, <3>5, <3>6 DEF Filed
    <2>9. Place(u)'
        BY <1>2, <1>4, <1>11, <2>5 DEF Place, Current
    <2>10. Replies(u)'
        BY <1>9, <1>11, <2>5 DEF Replies
    <2>11. \A i \in DOMAIN requests' : Current(requests'[i])
        <3>1. ASSUME NEW i \in DOMAIN requests' PROVE Current(requests'[i])
            <4>1. i + 1 \in DOMAIN requests /\ 1 < i + 1 /\ requests'[i] = requests[i + 1]
                BY <1>1, LenProperties
            <4> QED
                BY <1>1, <1>3, <1>11, <4>1 DEF Holds, Queue
        <3> QED
            BY <3>1
    <2>12. Queue(u)' /\ ~Asking'
        <3>1. \A i \in DOMAIN requests' : requests'[i].up = up' /\ requests'[i].blk = blk'
            BY <1>2, <2>11 DEF Current
        <3>2. blk' # 0
            BY <1>2, <1>11 DEF Current
        <3> QED
            BY <3>1, <3>2 DEF Queue, Current, Asking
    <2>13. ASSUME ~hurried' PROVE Loading(u)'
        <3>1. Loading(u)
            BY <1>2, <1>3, <2>13 DEF Holds
        <3>2. ~armed /\ pc \in {"look", "timer"}
            BY <1>2, <2>6, <2>7, <3>1 DEF Loading, TypeOK
        <3> QED
            BY <1>2, <2>12, <3>1, <3>2 DEF Loading
    <2> QED
        BY <1>2, <2>7, <2>8, <2>9, <2>10, <2>12, <2>13 DEF IInv, Holds
<1> QED
    BY <1>4, <1>10, <1>11
-----------------------------------------------------------------------------
(* The main loop. *)

\* It changes nothing of the file but the flag that it is ready.
LEMMA LoopOnly ==
    ASSUME NEW u \in 0 .. Len(Uploads), Holds(u), UNCHANGED <<client, requests, acks>>,
           file' = file \/ (pc = "clear" /\ file' = [file EXCEPT !.ready = FALSE]),
           file \in File
    PROVE  /\ Saved' = Saved /\ file' \in File
           /\ file'.complete = file.complete /\ file'.blocks = file.blocks
           /\ Filed(u)' /\ Place(u)' /\ Queue(u)' /\ Replies(u)'
<1>1. /\ file' \in File /\ file'.blocks = file.blocks /\ file'.complete = file.complete
      /\ file'.last_block = file.last_block /\ file'.linux_boot = file.linux_boot
      /\ (file'.ready => file.ready)
    BY DEF File
<1>2. Saved' = Saved /\ up' = up /\ blk' = blk /\ requests' = requests /\ acks' = acks
    BY <1>1 DEF Saved, client
<1>3. Filed(u)'
    BY <1>1, <1>2 DEF Holds, Filed
<1> QED
    BY <1>1, <1>2, <1>3 DEF Holds, Place, Queue, Current, Replies

LEMMA LoopKeeps == ASSUME IInv, ProcessTftp PROVE IInv'
<1>1. PICK u \in 0 .. Len(Uploads) : Holds(u)
    BY DEF IInv
<1>2. /\ UNCHANGED <<null, old, up, blk, hurried, requests, acks>>
      /\ file' = file \/ (pc = "clear" /\ file' = [file EXCEPT !.ready = FALSE])
    BY DEF ProcessTftp, Look, Clear, Size, Walk, Split, NotExpired, Disconnect, Reboot,
           server, client
<1>3. /\ Saved' = Saved /\ file' \in File
      /\ file'.complete = file.complete /\ file'.blocks = file.blocks
      /\ Filed(u)' /\ Place(u)' /\ Queue(u)' /\ Replies(u)'
    BY <1>1, <1>2, Typed, LoopOnly DEF client
<1>4. /\ Asking' = Asking /\ Saved \in Nat /\ u \in Nat
      /\ file.blocks \in Seq(Piece) /\ image \in Seq(Piece) /\ node \in Nat
    BY <1>2, Typed DEF Asking, IInv, TypeOK
<1> SUFFICES TypeOK' /\ (pc' = "walk" => node' >= 1) /\ (hurried \/ Loading(u)')
    BY <1>1, <1>2, <1>3 DEF IInv, Holds
<1>5. hurried \/ Loading(u)
    BY <1>1 DEF Holds
<1>6. Filed(u)
    BY <1>1 DEF Holds
<1>7. CASE Look
    <2>1. /\ pc = "look" /\ pc' = (IF ~null /\ file.ready THEN "clear" ELSE "timer")
          /\ UNCHANGED <<file, detached, node, image, elf_mem0_g, armed, stage, tcp_disconnect, booted>>
        BY <1>7 DEF Look, server
    <2>2. TypeOK'
        BY <1>2, <2>1 DEF IInv, TypeOK
    <2>3. ASSUME ~hurried PROVE Loading(u)'
        BY <1>3, <1>4, <1>5, <1>6, <2>1, <2>3 DEF Loading, Settled, Filed
    <2> QED
        BY <2>1, <2>2, <2>3
<1>8. CASE Clear
    <2>1. /\ pc = "clear" /\ pc' = "size" /\ file' = [file EXCEPT !.ready = FALSE]
          /\ UNCHANGED <<detached, node, image, elf_mem0_g, armed, stage, tcp_disconnect, booted>>
        BY <1>8 DEF Clear
    <2>2. ~file'.ready
        BY <2>1, Typed DEF File
    <2>3. TypeOK'
        BY <1>2, <1>3, <2>1 DEF IInv, TypeOK
    <2>4. ASSUME ~hurried PROVE Loading(u)'
        BY <1>3, <1>4, <1>5, <2>1, <2>2, <2>4 DEF Loading, Settled
    <2> QED
        BY <2>1, <2>3, <2>4
<1>9. CASE Size
    <2>1. /\ pc = "size" /\ pc' = "walk" /\ detached' = FALSE /\ node' = 1 /\ image' = <<>>
          /\ UNCHANGED <<file, elf_mem0_g, armed, stage, tcp_disconnect, booted>>
        BY <1>9 DEF Size
    <2>2. TypeOK'
        BY <1>2, <2>1, EmptySeq DEF IInv, TypeOK
    <2>3. ASSUME ~hurried PROVE Loading(u)'
        <3>1. Saved >= 1
            <4>1. file.complete
                BY <1>5, <2>1, <2>3 DEF Loading
            <4>2. u # 0 /\ Saved = Uploads[u].blocks
                BY <1>6, <4>1 DEF Filed
            <4> QED
                BY <1>4, <4>2, UploadIs
        <3>2. Len(image') = 0
            BY <2>1, EmptySeq
        <3> QED
            BY <1>3, <1>4, <1>5, <2>1, <2>3, <3>1, <3>2 DEF Loading, Settled
    <2> QED
        BY <2>1, <2>2, <2>3
<1>10. CASE Walk
    <2> DEFINE list == IF detached THEN old ELSE file
    <2>1. /\ pc = "walk" /\ node >= 1
          /\ image' = (IF node <= Len(list.blocks) THEN Append(image, list.blocks[node]) ELSE image)
          /\ IF node < Len(list.blocks) \/ (node = Len(list.blocks) /\ ~list.complete)
             THEN node' = node + 1 /\ pc' = "walk"
             ELSE node' = node     /\ pc' = "split"
          /\ UNCHANGED <<file, detached, elf_mem0_g, armed, stage, tcp_disconnect, booted>>
        BY <1>10 DEF Walk, server, IInv
    <2>2. list.blocks \in Seq(Piece) /\ Len(list.blocks) \in Nat
        BY LenProperties DEF IInv, TypeOK, File
    <2>3. node <= Len(list.blocks) => list.blocks[node] \in Piece
        BY <1>4, <2>1, <2>2, LenProperties
    <2>4. image' \in Seq(Piece)
        BY <1>4, <2>1, <2>3, AppendedIs
    <2>5. TypeOK'
        BY <1>2, <1>4, <2>1, <2>4 DEF IInv, TypeOK
    <2>6. ASSUME ~hurried PROVE Loading(u)'
        <3>1. /\ ~detached /\ node <= Saved /\ Len(image) = node - 1
              /\ \A b \in 1 .. node - 1 : image[b] = file.blocks[b]
              /\ file.complete /\ ~armed /\ ~file.ready
            BY <1>5, <2>1, <2>6 DEF Loading
        <3>2. list = file /\ node <= Len(file.blocks)
            BY <3>1 DEF Saved
        <3>3. image' = Append(image, file.blocks[node]) /\ file.blocks[node] \in Piece
            BY <2>1, <2>3, <3>2
        <3>4. /\ Len(image') = node
              /\ \A b \in 1 .. node : image'[b] = file.blocks[b]
            <4>1. /\ Len(image') = Len(image) + 1
                  /\ \A b \in 1 .. Len(image) : image'[b] = image[b]
                  /\ image'[Len(image) + 1] = file.blocks[node]
                BY <1>4, <3>3, AppendedIs
            <4> QED
                BY <1>4, <2>1, <3>1, <4>1
        <3>5. CASE node < Len(file.blocks)
            <4>1. node' = node + 1 /\ pc' = "walk" /\ node + 1 <= Saved
                BY <1>4, <2>1, <3>2, <3>5 DEF Saved
            <4> QED
                BY <1>3, <1>4, <1>5, <2>1, <2>6, <3>1, <3>4, <4>1 DEF Loading, Settled
        <3>6. CASE node = Len(file.blocks)
            <4>1. pc' = "split"
                BY <2>1, <3>1, <3>2, <3>6
            <4>2. u # 0 /\ Saved = Uploads[u].blocks
                BY <1>6, <3>1 DEF Filed
            <4>3. \A b \in 1 .. Len(image') : image'[b] = [up |-> u, blk |-> b]
                BY <1>6, <3>4, <3>6 DEF Filed, Saved
            <4>4. image' = Whole(u)
                <5>1. u \in 1 .. Len(Uploads)
                    BY <1>4, <4>2, Typed
                <5>2. Len(image') = Uploads[u].blocks
                    BY <3>4, <3>6, <4>2 DEF Saved
                <5> QED
                    BY <2>4, <4>3, <5>1, <5>2, IsWhole
            <4> QED
                BY <1>3, <1>4, <1>5, <2>1, <2>6, <3>1, <4>1, <4>4 DEF Loading, Settled
        <3> QED
            BY <1>4, <2>2, <3>2, <3>5, <3>6
    <2>7. pc' = "walk" => node' >= 1
        BY <1>4, <2>1
    <2> QED
        BY <2>5, <2>6, <2>7
<1>11. CASE Split
    <2>1. /\ pc = "split" /\ pc' = "timer"
          /\ elf_mem0_g' = (IF IsElf(image) THEN image ELSE <<>>)
          /\ armed' = (armed \/ IsElf(image))
          /\ UNCHANGED <<file, detached, node, image, stage, tcp_disconnect, booted>>
        BY <1>11 DEF Split, server
    <2>2. elf_mem0_g' \in Seq(Piece)
        BY <1>4, <2>1, EmptySeq
    <2>3. armed' \in BOOLEAN
        BY <2>1 DEF IInv, TypeOK
    <2>4. TypeOK'
        BY <1>2, <2>1, <2>2, <2>3 DEF IInv, TypeOK
    <2>5. ASSUME ~hurried PROVE Loading(u)'
        <3>1. image = Whole(u) /\ file.complete /\ ~armed /\ ~file.ready /\ ~Asking
            BY <1>5, <2>1, <2>5 DEF Loading, Settled
        <3>2. u \in 1 .. Len(Uploads)
            BY <1>6, <3>1, Typed DEF Filed
        <3>3. armed' => elf_mem0_g' = Whole(u)
            BY <2>1, <3>1
        <3>4. elf_mem0_g' = <<>> \/ \E v \in 1 .. Len(Uploads) : elf_mem0_g' = Whole(v)
            BY <2>1, <3>1, <3>2
        <3> QED
            BY <1>3, <1>4, <2>1, <3>1, <3>3, <3>4 DEF Loading
    <2> QED
        BY <2>1, <2>4, <2>5
<1>12. CASE NotExpired \/ Disconnect
    <2>1. /\ pc = "timer" /\ pc' = "look" /\ stage' \in {0, 1} /\ tcp_disconnect' \in BOOLEAN
          /\ UNCHANGED <<file, detached, node, image, elf_mem0_g, armed, booted>>
        BY <1>12 DEF NotExpired, Disconnect, server, IInv, TypeOK
    <2>2. TypeOK'
        BY <1>2, <2>1 DEF IInv, TypeOK
    <2>3. ASSUME ~hurried PROVE Loading(u)'
        BY <1>3, <1>4, <1>5, <2>1, <2>3 DEF Loading, Settled
    <2> QED
        BY <2>1, <2>2, <2>3
<1>13. CASE Reboot
    <2>1. /\ pc = "timer" /\ armed /\ pc' = "rebooted"
          /\ booted' = [image |-> elf_mem0_g, linux |-> file.linux_boot]
          /\ UNCHANGED <<file, detached, node, image, elf_mem0_g, armed, stage, tcp_disconnect>>
        BY <1>13 DEF Reboot, server
    <2>2. TypeOK'
        BY <1>2, <2>1 DEF IInv, TypeOK
    <2>3. ASSUME ~hurried PROVE Loading(u)'
        <3>1. ~file.ready /\ file.complete /\ elf_mem0_g = Whole(u) /\ ~Asking
            BY <1>5, <2>1, <2>3 DEF Loading, Settled
        <3>2. u # 0 /\ file.linux_boot = Uploads[u].linux
            BY <1>6, <3>1 DEF Filed
        <3> QED
            BY <1>3, <1>4, <1>5, <2>1, <2>3, <3>1, <3>2 DEF Loading
    <2> QED
        BY <2>1, <2>2, <2>3
<1> QED
    BY <1>7, <1>8, <1>9, <1>10, <1>11, <1>12, <1>13 DEF ProcessTftp
-----------------------------------------------------------------------------
LEMMA Inductive == NoWrap => (Spec => []IInv)
<1> SUFFICES ASSUME NoWrap PROVE Spec => []IInv
    OBVIOUS
<1>1. IInv /\ [Next]_vars => IInv'
    <2> SUFFICES ASSUME IInv, [Next]_vars PROVE IInv'
        OBVIOUS
    <2>1. CASE Next
        BY <2>1, SendsKeeps, HearsKeeps, LoseKeeps, WriteKeeps, DataKeeps, LoopKeeps DEF Next
    <2>2. CASE UNCHANGED vars
        <3>1. /\ UNCHANGED <<file, null, old, pc, detached, node, image, elf_mem0_g, armed>>
              /\ UNCHANGED <<stage, tcp_disconnect, booted, up, blk, hurried, requests, acks>>
            BY <2>2 DEF vars, server, loader, client
        <3>2. PICK u \in 0 .. Len(Uploads) : Holds(u)
            BY DEF IInv
        <3>3. Filed(u)' /\ Place(u)' /\ Replies(u)'
            BY <3>1, <3>2 DEF Holds, Filed, Place, Replies, Saved
        <3>4. Queue(u)'
            BY <3>1, <3>2 DEF Holds, Queue, Current, Saved
        <3>5. hurried' \/ Loading(u)'
            BY <3>1, <3>2 DEF Holds, Loading, Asking, Settled, Saved
        <3>6. TypeOK' /\ (pc' = "walk" => node' >= 1)
            BY <3>1 DEF IInv, TypeOK
        <3> QED
            BY <3>2, <3>3, <3>4, <3>5, <3>6 DEF IInv, Holds
    <2> QED
        BY <2>1, <2>2
<1> QED
    BY <1>1, Start, PTL DEF Spec

(* What the client was told is received is in the file, once and in order, *)
(* for any files whose block numbers do not wrap.                          *)
THEOREM SavedHolds == NoWrap => (Spec => []SavedInv)
<1>1. IInv /\ Told => SavedInv
    BY Enough
<1> QED
    BY <1>1, AllTold, Inductive, PTL

(* What elfsplitter accepts is one upload, whole, when the client awaits   *)
(* the verdict on each file.                                               *)
THEOREM WholeImages == NoWrap => (Spec => []ImageWhole)
<1>1. IInv /\ Told => ImageWhole
    BY Enough
<1> QED
    BY <1>1, AllTold, Inductive, PTL

(* And the program that is started is that file, started as its name asks. *)
THEOREM OneFileBoots == NoWrap => (Spec => []BootsOneFile)
<1>1. IInv /\ Told => BootsOneFile
    BY Enough
<1> QED
    BY <1>1, AllTold, Inductive, PTL
=============================================================================
