------------------------------- MODULE Timer --------------------------------
(***************************************************************************)
(* kernel/timer.c: the tick counter, a thread that sleeps on it, and the   *)
(* clock the shell's `uptime` command makes of it.                         *)
(*                                                                         *)
(* sleep_ticks compares the counter and halts in two instructions, and the *)
(* tick may come between them.  The counter is one aligned 64-bit word and *)
(* volatile: every load is atomic and is done where the code says.         *)
(***************************************************************************)
EXTENDS Integers

CONSTANTS
  U64,         \* number of values of a uint64_t: 2^64
  TIMER_FREQ,  \* ticks in a second: 100
  SECOND,      \* milliseconds in a second: 1000
  MINUTE,      \* seconds in a minute, and minutes in an hour: 60
  Sleeps       \* the arguments sleep_ticks is called with

ASSUME ClockAssumption ==
  /\ {U64, TIMER_FREQ, SECOND, MINUTE} \subseteq Nat \ {0}
  /\ U64 >= 2

ASSUME SleepsAssumption == Sleeps \subseteq 0..U64-1

VARIABLES
  ticks,
  pc,      \* of the thread: "run" outside sleep_ticks, else its next step
  target,  \* local of sleep_ticks
  n,       \* its argument
  rested,  \* the thread did something since the last tick
  begin,   \* history: ticks when sleep_ticks was called
  slept    \* history: ticks that came since, n + 2 for any number above n + 1

vars == <<ticks, pc, target, n, rested, begin, slept>>

Init ==
  /\ ticks = 0
  /\ pc = "run" /\ target = 0 /\ n = 0
  /\ rested = TRUE /\ begin = 0 /\ slept = 0

-----------------------------------------------------------------------------

timer_get_ticks == ticks

\* Mutant: the deadline is taken one tick too early.
sleep_ticks_short(k) ==
  /\ pc = "run"
  /\ target' = (timer_get_ticks + k - 1) % U64
  /\ pc' = "test"
  /\ n' = k /\ begin' = ticks /\ slept' = 0
  /\ rested' = TRUE
  /\ UNCHANGED ticks

\* sleep_ticks is entered; the sum is taken in 64 bits.
sleep_ticks(k) ==
  /\ pc = "run"
  /\ target' = (timer_get_ticks + k) % U64
  /\ pc' = "test"
  /\ n' = k /\ begin' = ticks /\ slept' = 0
  /\ rested' = TRUE
  /\ UNCHANGED ticks

\* Mutant: <= for <.
SleepTest_inclusive ==
  /\ pc = "test"
  /\ pc' = IF ticks <= target THEN "hlt" ELSE "run"
  /\ rested' = TRUE
  /\ UNCHANGED <<ticks, target, n, begin, slept>>

\* The condition of the loop.
SleepTest ==
  /\ pc = "test"
  /\ pc' = IF ticks < target THEN "hlt" ELSE "run"
  /\ rested' = TRUE
  /\ UNCHANGED <<ticks, target, n, begin, slept>>

\* An interrupt that came before the hlt does not end it.
SleepHlt ==
  /\ pc = "hlt"
  /\ pc' = "halted"
  /\ rested' = TRUE
  /\ UNCHANGED <<ticks, target, n, begin, slept>>

\* The thread does something else.
Work ==
  /\ pc = "run" /\ ~rested
  /\ rested' = TRUE
  /\ UNCHANGED <<ticks, pc, target, n, begin, slept>>

\* One tick more; two too many are as good as any number.
Later == IF slept < n + 2 THEN slept + 1 ELSE slept

Wake == pc' = IF pc = "halted" THEN "test" ELSE pc

\* Mutant: no end of interrupt for IRQ0, so that the controller holds back
\* every tick behind the first.
timer_tick_no_eoi ==
  /\ rested /\ rested' = FALSE
  /\ ticks = 0
  /\ ticks' = (ticks + 1) % U64
  /\ slept' = IF pc = "run" THEN slept ELSE Later
  /\ Wake
  /\ UNCHANGED <<target, n, begin>>

\* IRQ0.  Ticks are 10 ms apart: the thread takes a step between two of them.
timer_tick ==
  /\ rested /\ rested' = FALSE
  /\ ticks' = (ticks + 1) % U64
  /\ slept' = IF pc = "run" THEN slept ELSE Later
  /\ Wake
  /\ UNCHANGED <<target, n, begin>>

\* Any other interrupt ends a hlt too.
OtherIrq ==
  /\ pc = "halted"
  /\ Wake
  /\ UNCHANGED <<ticks, target, n, rested, begin, slept>>

Thread == (\E k \in Sleeps : sleep_ticks(k)) \/ SleepTest \/ SleepHlt \/ Work

Next == Thread \/ timer_tick \/ OtherIrq

Spec == Init /\ [][Next]_vars

\* The CPU executes a thread that sleeps, and the PIT is free-running.
Fairness == WF_vars(SleepTest \/ SleepHlt \/ Work) /\ WF_vars(timer_tick)

FairSpec == Spec /\ Fairness

-----------------------------------------------------------------------------
(* The clock of the `uptime` command.                                      *)

\* Mutant: the product in a type of half the range.
timer_uptime_ms_narrow(t) == ((t * SECOND) % (U64 \div 2)) \div TIMER_FREQ

timer_uptime_ms(t) == ((t * SECOND) % U64) \div TIMER_FREQ

\* ksh_hndl_uptime: what "%lu:%lu:%lu" prints.
ksh_hndl_uptime(t) ==
  LET total_seconds == timer_uptime_ms(t) \div SECOND
  IN  [h |-> total_seconds \div (MINUTE * MINUTE),
       m |-> (total_seconds \div MINUTE) % MINUTE,
       s |-> total_seconds % MINUTE]

-----------------------------------------------------------------------------
(* Properties.                                                             *)

\* The deadline is not a count the loop can overrun: it lies behind the wrap of
\* the counter, or is the last count before it.
Wraps == begin + n >= U64 - 1

\* However ticks and other interrupts fall between the comparison and the hlt,
\* sleep_ticks never returns before n ticks and oversleeps by one at most.
SleepExact ==
  [][pc = "test" /\ pc' = "run" => Wraps \/ slept \in {n, n + 1}]_vars

\* And it does return.
SleepEnds == pc # "run" ~> (pc = "run" \/ Wraps)

\* `uptime` shows the seconds that passed, split without a remainder, until the
\* product in timer_uptime_ms overflows.
UptimeExact ==
  ticks * SECOND < U64 =>
    LET up == ksh_hndl_uptime(ticks)
    IN  /\ up.m < MINUTE /\ up.s < MINUTE
        /\ up.h * MINUTE * MINUTE + up.m * MINUTE + up.s = ticks \div TIMER_FREQ
=============================================================================
