------------------------------ MODULE MCUnits ------------------------------
(* The inputs of the instance that TLC checks. *)
EXTENDS Units

\* Sections in any order, some at odd addresses, one over another, with tails
\* of words over the next one.
SectionsAt(types, addrs, sizes, offset) ==
    [type : types, addr : addrs, offset : {offset}, size : sizes]

Bitted == {"PROGBITS", "NOBITS"}
First  == SectionsAt(Bitted, {0, 4, 6, 8, 14}, {0, 1, 3, 6}, 36)
Second == SectionsAt(Bitted, {0, 4, 6, 8, 14}, {1, 3, 6}, 68) \cup SectionsAt({"STRTAB"}, {4}, {3}, 68)
Third  == SectionsAt({"PROGBITS"}, {4, 8}, {3}, 100)

MCTables ==
    {<<>>} \cup {<<s>> : s \in First} \cup {<<s, t>> : s \in First, t \in Second}
    \cup {<<u, s, t>> : u \in Third, s \in {s \in First : s.size = 3}, t \in {t \in Second : t.size = 6}}

Self    == <<192, 168, 0, 17>>
Another == <<192, 168, 0, 255>>

ArpFrames ==
    [type : {"arp"}, src : {"A"}, op : {1, 2}, target : {Self, Another},
     sender : [mac : {"A", "B"}, ip : {Another}]]

IpHeader(first, len, proto, dst) ==
    <<first, 0, 0, len, 0, 0, 0, 0, 64, proto, 0, 0>> \o Another \o dst

Data == UNION {[1..n -> {0, 7, 255}] : n \in 0..3}

IpFrame(first, hlen, proto, dst, message) ==
    [type |-> "ip", src |-> "A", header |-> IpHeader(first, hlen + Len(message), proto, dst),
     len |-> hlen + Len(message), message |-> message]

Echo(data) == {<<8, 0, 1, 2>> \o number \o data : number \in {<<0, 0, 0, 1>>, <<255, 255, 255, 254>>}}

MCFrames ==
    ArpFrames \cup {[type |-> "other"]}
    \cup {IpFrame(first, IF first = 70 THEN 24 ELSE 20, proto, dst, m) :
             first \in {69, 70, 101}, proto \in {1, 2, 6, 17}, dst \in {Self, Another},
             m \in UNION {Echo(d) : d \in Data}}

MCItems == {<<97>>, <<13>>, <<255, 253, 1>>, <<255, 254, 1>>, <<255, 251, 3>>,
            <<255, 241>>, <<255, 244>>, <<255, 250, 24, 0, 120, 255, 240>>}

\* Bits of a byte, the first one sent first.
MCTraffic == {<<0, 1, 1, 0, 1, 0, 0, 1>>, <<1, 0, 0, 0, 0, 0, 0, 0>>}
=============================================================================
