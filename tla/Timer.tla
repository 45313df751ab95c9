------------------------------- MODULE Timer -------------------------------
(***************************************************************************)
(* The software clock of the Ethernet boot loader (timer.c) and one user   *)
(* of it.  timer_interrupt advances current_time_g by 10 ms; it runs in    *)
(* the interrupt handler and so between any two loads of the main loop.    *)
(* The main loop arms a timer with set_timer, polls it with timer_expired  *)
(* and arms it again when it fires: process_led (500 ms), tcp_retransmit   *)
(* (500 ms) and the two reboot stages of process_tftp (1000 ms) all have   *)
(* this shape.  The members of time_t are volatile, so every mention of    *)
(* current_time_g in the C source is one load, and one action here.        *)
(***************************************************************************)
EXTENDS Integers

CONSTANTS
    Interval,       \* the milliseconds passed to set_timer
    Word,           \* 2^32 in the C: unsigned arithmetic is modulo Word
    MaxSeconds,     \* bound: the clock stops at this many seconds of uptime
    TicksPerCall    \* bound: timer interrupts that can fall into one set_timer

MsPerSecond == 1000
TickMs      == 10

ASSUME IntervalAssumption == Interval \in Nat \ {0}
ASSUME WordAssumption     == Word \in Nat /\ Word > 4 * MsPerSecond
ASSUME BoundAssumption    == MaxSeconds \in Nat /\ TicksPerCall \in Nat

VARIABLES
    now,      \* current_time_g
    timer,    \* the time_t armed by the main loop
    carry,    \* the branch set_timer took: 1 = into the next second
    pc,       \* the next load of the main loop
    base,     \* history: uptime in ms when the last set_timer was called
    done,     \* history: uptime in ms when it returned
    ticks     \* timer interrupts since that call, up to its return

vars == <<now, timer, carry, pc, base, done, ticks>>

Setting == {"set_branch", "set_seconds", "set_ms"}
Polling == {"poll_seconds", "poll_equal", "poll_ms"}

Millis(t) == t.s * MsPerSecond + t.ms
Now       == Millis(now)

\* milliseconds = 1000 * seconds + mseconds, as _div computes it.
seconds  == Interval \div MsPerSecond
mseconds == Interval % MsPerSecond

\* Unsigned subtraction: the operand is never below -MsPerSecond.
Unsigned(x) == IF x < 0 THEN x + Word ELSE x
-----------------------------------------------------------------------------
Time == [s : Nat, ms : Nat]

(* Types, and the clock is always normalised: current_time_g holds a       *)
(* multiple of 10 ms below a second.                                       *)
TypeOK ==
    /\ now \in Time /\ now.ms < MsPerSecond /\ now.ms % TickMs = 0
    /\ timer \in Time
    /\ carry \in {0, 1}
    /\ pc \in Setting \cup Polling \cup {"expired"}
    /\ base \in Nat /\ done \in Nat /\ ticks \in Nat

\* new_timer; the first set_timer is called with interrupts already on.
Init ==
    /\ now   = [s |-> 0, ms |-> 0]
    /\ timer = [s |-> 0, ms |-> 0]
    /\ carry = 0
    /\ pc    = "set_branch"
    /\ base  = 0 /\ done = 0 /\ ticks = 0
-----------------------------------------------------------------------------
(* The interrupt handler.                                                  *)

TimerInterrupt ==
    /\ now.s < MaxSeconds
    /\ pc \in Setting => ticks < TicksPerCall
    /\ now' = IF now.ms = MsPerSecond - TickMs
                THEN [s |-> now.s + 1, ms |-> 0]
                ELSE [now EXCEPT !.ms = @ + TickMs]
    /\ ticks' = IF pc \in Setting THEN ticks + 1 ELSE ticks
    /\ UNCHANGED <<timer, carry, pc, base, done>>
-----------------------------------------------------------------------------
(* set_timer, one action per load of current_time_g.                       *)

SetBranch ==
    /\ pc = "set_branch"
    /\ carry' = IF now.ms >= MsPerSecond - mseconds THEN 1 ELSE 0
    /\ pc' = "set_seconds"
    /\ UNCHANGED <<now, timer, base, done, ticks>>

\* Mutation: the carry is added twice.
SetSecondsCarryTwice ==
    /\ pc = "set_seconds"
    /\ timer' = [timer EXCEPT !.s = now.s + 2 * carry + seconds]
    /\ pc' = "set_ms"
    /\ UNCHANGED <<now, carry, base, done, ticks>>

\* The final timer->seconds += seconds touches only the caller's timer.
SetSeconds ==
    /\ pc = "set_seconds"
    /\ timer' = [timer EXCEPT !.s = now.s + carry + seconds]
    /\ pc' = "set_ms"
    /\ UNCHANGED <<now, carry, base, done, ticks>>

SetMilliseconds ==
    /\ pc = "set_ms"
    /\ timer' = [timer EXCEPT !.ms =
                    Unsigned(now.ms + mseconds - carry * MsPerSecond)]
    /\ pc' = "poll_seconds"
    /\ done' = Now
    /\ UNCHANGED <<now, carry, base, ticks>>
-----------------------------------------------------------------------------
(* timer_expired, polled by the main loop.  A timer of (0,0) is not set.   *)

IsSet(t) == t.s # 0 \/ t.ms # 0

\* Mutation: the comparison of whole seconds left out.
PollSecondsSkipped ==
    /\ pc = "poll_seconds"
    /\ IsSet(timer)
    /\ pc' = "poll_equal"
    /\ UNCHANGED <<now, timer, carry, base, done, ticks>>

PollSeconds ==
    /\ pc = "poll_seconds"
    /\ IsSet(timer)
    /\ pc' = IF timer.s < now.s THEN "expired" ELSE "poll_equal"
    /\ UNCHANGED <<now, timer, carry, base, done, ticks>>

PollEqual ==
    /\ pc = "poll_equal"
    /\ pc' = IF timer.s = now.s THEN "poll_ms" ELSE "poll_seconds"
    /\ UNCHANGED <<now, timer, carry, base, done, ticks>>

\* Mutation: <= for <.
PollMillisecondsWeak ==
    /\ pc = "poll_ms"
    /\ pc' = IF timer.ms <= now.ms THEN "expired" ELSE "poll_seconds"
    /\ UNCHANGED <<now, timer, carry, base, done, ticks>>

PollMilliseconds ==
    /\ pc = "poll_ms"
    /\ pc' = IF timer.ms < now.ms THEN "expired" ELSE "poll_seconds"
    /\ UNCHANGED <<now, timer, carry, base, done, ticks>>

\* The caller's work on expiry (led_flip), then the call of set_timer.
Expired ==
    /\ pc = "expired"
    /\ base' = Now
    /\ ticks' = 0
    /\ pc' = "set_branch"
    /\ UNCHANGED <<now, timer, carry, done>>

MainLoop ==
    \/ SetBranch \/ SetSeconds \/ SetMilliseconds
    \/ PollSeconds \/ PollEqual \/ PollMilliseconds \/ Expired

Next == TimerInterrupt \/ MainLoop

Spec == Init /\ [][Next]_vars

\* The processor keeps executing and the hardware timer is periodic.
FairSpec == Spec /\ WF_vars(MainLoop) /\ WF_vars(TimerInterrupt)
-----------------------------------------------------------------------------
(* Properties.                                                             *)

(* timer_expired never says yes before the interval has elapsed since the  *)
(* set_timer call, however the interrupts fall between the loads of both.  *)
NeverEarly == pc = "expired" => Now > base + Interval

(* A torn set_timer may make the timer late, but never by more than        *)
(* 2 seconds less the sub-second part of the interval: from then on a      *)
(* poll succeeds at its first or its last comparison.                      *)
ReadsExpired ==
    \/ timer.s < now.s
    \/ timer.s = now.s /\ timer.ms < now.ms

LateBound ==
    pc \in Polling /\ Now > done + Interval + 2 * MsPerSecond - mseconds
        => ReadsExpired

(* A timer that was armed is never mistaken for one that is not set: the   *)
(* encoding of "not set" as (0,0) never collides with a computed expiry.   *)
ArmedIsSet == pc \in Polling => IsSet(timer)

(* What set_timer leaves behind is a timer that is set and not too late: *)
(* both of these, of a clock that is normalised at every moment.         *)
ClockInv == TypeOK /\ ArmedIsSet /\ LateBound

(* The poll answers once the expiry lies in the past: the heartbeat goes   *)
(* on until the bound on the clock.                                        *)
KeepsFiring ==
    pc \in Polling /\ timer.s + 1 < MaxSeconds ~> pc = "expired"
=============================================================================
