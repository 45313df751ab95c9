\* process_led and tcp_retransmit: an interval of 500 ms.
CONSTANTS
    Interval     = 500
    Word         = 1000000
    MaxSeconds   = 4
    TicksPerCall = 1
SPECIFICATION FairSpec
PROPERTY KeepsFiring
\* The clock stops at the bound, and polling goes on.
