---------------------------- MODULE TimerProofs -----------------------------
(***************************************************************************)
(* Theorems about Timer for every frequency, width of the counter and      *)
(* length of a sleep: sleep_ticks is exact to a tick, and the clock of the *)
(* `uptime` command shows the seconds that passed.                         *)
(***************************************************************************)
EXTENDS Timer, TLAPS

\* The counter, the deadline and the locals stay in range.
Typed ==
  /\ {ticks, target, begin} \subseteq 0..U64-1
  /\ pc \in {"run", "test", "hlt", "halted"}
  /\ n \in Sleeps \cup {0}
  /\ rested \in BOOLEAN
  /\ slept \in 0..n+2

\* The tick that may still come before the thread's next step.
Due == IF rested THEN 1 ELSE 0

\* While the deadline can be reached, the counter tells how long the thread has
\* slept, and the thread is never more than a tick away from noticing the end.
OnTime ==
  pc # "run" /\ ~Wraps =>
    /\ target = begin + n
    /\ ticks = begin + slept
    /\ pc = "test"   => slept + Due <= n + 1
    /\ pc = "hlt"    => slept + Due <= n
    /\ pc = "halted" => slept <= n /\ rested = TRUE

IInv == Typed /\ OnTime

-----------------------------------------------------------------------------
(* The counter.                                                            *)

\* The arguments of sleep_ticks are counts.
LEMMA Counts ==
  /\ U64 \in Nat /\ U64 >= 2
  /\ Sleeps \cup {0} \subseteq Nat
  /\ \A a \in Nat : a % U64 \in 0..U64-1
  /\ \A a \in Nat : a < U64 => a % U64 = a
BY ClockAssumption, SleepsAssumption

LEMMA InitExact == Init => IInv
BY ClockAssumption DEF Init, IInv, Typed, OnTime

\* Every step, of the thread and of an interrupt.
LEMMA NextExact == IInv /\ [Next]_vars => IInv'
<1> SUFFICES ASSUME IInv, [Next]_vars PROVE IInv'
  OBVIOUS
<1>1. /\ ticks \in 0..U64-1 /\ target \in 0..U64-1 /\ begin \in 0..U64-1
      /\ ticks \in Nat /\ begin \in Nat /\ n \in Nat /\ slept \in 0..n+2
      /\ pc \in {"run", "test", "hlt", "halted"}
      /\ n \in Sleeps \cup {0} /\ rested \in BOOLEAN
  BY Counts DEF IInv, Typed
<1>2. ASSUME NEW d \in Sleeps, sleep_ticks(d) PROVE IInv'
  <2>1. d \in Nat /\ ticks + d \in Nat
    BY <1>1, Counts
  <2>2. Typed'
    BY <1>1, <1>2, <2>1, Counts DEF sleep_ticks, timer_get_ticks, Typed
  <2>3. OnTime'
    <3>1. SUFFICES ASSUME ~Wraps' PROVE /\ target' = begin' + n'
                                        /\ ticks' = begin' + slept'
                                        /\ pc' = "test" /\ slept' = 0 /\ rested' = TRUE
      BY <1>2, <2>1 DEF OnTime, Due, sleep_ticks
    <3>2. begin' = ticks /\ n' = d /\ slept' = 0 /\ ticks' = ticks
      BY <1>2 DEF sleep_ticks
    <3>3. ticks + d < U64
      BY <1>1, <2>1, <3>1, <3>2, Counts DEF Wraps
    <3> QED
      BY <1>1, <1>2, <2>1, <3>2, <3>3, Counts DEF sleep_ticks, timer_get_ticks
  <2> QED
    BY <2>2, <2>3 DEF IInv
<1>3. CASE SleepTest
  <2>1. Typed'
    BY <1>1, <1>3 DEF SleepTest, Typed
  <2>2. OnTime'
    BY <1>1, <1>3 DEF SleepTest, IInv, OnTime, Due, Wraps
  <2> QED
    BY <2>1, <2>2 DEF IInv
<1>4. CASE SleepHlt
  <2>1. Typed'
    BY <1>1, <1>4 DEF SleepHlt, Typed
  <2>2. OnTime'
    BY <1>1, <1>4 DEF SleepHlt, IInv, OnTime, Due, Wraps
  <2> QED
    BY <2>1, <2>2 DEF IInv
<1>5. CASE Work
  BY <1>1, <1>5 DEF Work, IInv, Typed, OnTime
<1>6. CASE timer_tick
  <2>1. ticks + 1 \in Nat
    BY <1>1
  <2>2. Typed'
    <3>1. ticks' \in 0..U64-1
      BY <1>6, <2>1, Counts DEF timer_tick
    <3>2. pc' \in {"run", "test", "hlt", "halted"} /\ rested' \in BOOLEAN
      BY <1>1, <1>6 DEF timer_tick, Wake
    <3>3. target' = target /\ begin' = begin /\ n' = n
      BY <1>6 DEF timer_tick
    <3>4. slept' \in 0..n+2
      BY <1>1, <1>6 DEF timer_tick, Later
    <3> QED
      BY <1>1, <3>1, <3>2, <3>3, <3>4 DEF Typed
  <2>3. OnTime'
    <3>1. SUFFICES ASSUME pc' # "run", ~Wraps'
                   PROVE  OnTime'
      BY DEF OnTime
    <3>2. pc # "run" /\ ~Wraps /\ begin + n < U64 - 1
      BY <1>1, <1>6, <3>1, Counts DEF timer_tick, Wake, Wraps
    <3>3. slept <= n /\ ticks = begin + slept /\ rested = TRUE
      BY <1>1, <1>6, <3>2 DEF IInv, OnTime, Due, timer_tick
    <3>4. ticks' = ticks + 1 /\ slept' = slept + 1
      <4>1. ticks + 1 < U64
        BY <1>1, <3>2, <3>3, Counts
      <4> QED
        BY <1>1, <1>6, <2>1, <3>2, <3>3, <4>1, Counts DEF timer_tick, Later
    <3> QED
      BY <1>1, <1>6, <3>2, <3>3, <3>4 DEF IInv, OnTime, Due, timer_tick, Wake
  <2> QED
    BY <2>2, <2>3 DEF IInv
<1>7. CASE OtherIrq
  <2>1. Typed'
    BY <1>1, <1>7 DEF OtherIrq, Wake, Typed
  <2>2. OnTime'
    BY <1>1, <1>7 DEF OtherIrq, Wake, IInv, OnTime, Due, Wraps
  <2> QED
    BY <2>1, <2>2 DEF IInv
<1>8. CASE UNCHANGED vars
  BY <1>8 DEF vars, IInv, Typed, OnTime, Due, Wraps
<1> QED
  BY <1>2, <1>3, <1>4, <1>5, <1>6, <1>7, <1>8 DEF Next, Thread

LEMMA AlwaysExact == Spec => []IInv
BY InitExact, NextExact, PTL DEF Spec

-----------------------------------------------------------------------------
(* The clock.                                                              *)

\* A quotient and a remainder that fit are the ones `/' and `%' compute.
LEMMA Quotient ==
  ASSUME NEW b \in Nat \ {0}, NEW q \in Nat, NEW r \in Nat, r < b
  PROVE  (q * b + r) \div b = q
<1> DEFINE a == q * b + r
           p == a \div b
           s == a % b
<1>1. q * b \in Nat /\ a \in Nat
  OBVIOUS
<1>2. p \in Nat /\ s \in Nat /\ s < b /\ a = b * p + s
  <2> HIDE DEF a
  <2> QED
    BY <1>1
<1>3. b * p = p * b
  BY <1>2
<1> HIDE DEF p, s
<1>4. ~(p < q)
  <2>1. SUFFICES ASSUME p + 1 <= q PROVE FALSE
    BY <1>2
  <2> DEFINE e == q - (p + 1)
  <2>2. e \in Nat /\ q = e + p + 1
    BY <1>2, <2>1
  <2> HIDE DEF e
  <2>3. q * b = e * b + p * b + b /\ e * b \in Nat /\ p * b \in Nat
    BY <1>2, <2>2
  <2> QED
    BY <1>1, <1>2, <1>3, <2>3
<1>5. ~(q < p)
  <2>1. SUFFICES ASSUME q + 1 <= p PROVE FALSE
    BY <1>2
  <2> DEFINE e == p - (q + 1)
  <2>2. e \in Nat /\ p = e + q + 1
    BY <1>2, <2>1
  <2> HIDE DEF e
  <2>3. p * b = e * b + q * b + b /\ e * b \in Nat /\ q * b \in Nat
    BY <1>2, <2>2
  <2> QED
    BY <1>1, <1>2, <1>3, <2>3
<1>6. p = q
  BY <1>2, <1>4, <1>5
<1> QED
  BY <1>6 DEF p

\* Every count has a quotient and a remainder.
LEMMA Split ==
  ASSUME NEW a \in Nat, NEW b \in Nat \ {0}
  PROVE  /\ a \div b \in Nat /\ a % b \in Nat /\ a % b < b
         /\ a = (a \div b) * b + (a % b)
<1>1. a \div b \in Nat /\ a % b \in Nat /\ a % b < b /\ a = b * (a \div b) + (a % b)
  OBVIOUS
<1>2. b * (a \div b) = (a \div b) * b
  BY <1>1
<1> QED
  BY <1>1, <1>2

\* Dividing twice is dividing by the product.
LEMMA DivideTwice ==
  ASSUME NEW a \in Nat, NEW b \in Nat \ {0}, NEW c \in Nat \ {0}
  PROVE  a \div (b * c) = (a \div b) \div c
<1> DEFINE p == a \div b
           r == a % b
           q == p \div c
           s == p % c
<1>1. p \in Nat /\ r \in Nat /\ r < b /\ a = p * b + r
  BY Split
<1> HIDE DEF p, r
<1>2. q \in Nat /\ s \in Nat /\ s + 1 <= c /\ p = q * c + s
  BY <1>1, Split
<1> HIDE DEF q, s
<1> DEFINE d == b * c
           t == s * b + r
<1>3. d \in Nat \ {0} /\ t \in Nat
  BY <1>1, <1>2
<1>4. a = q * d + t
  <2>1. p * b = (q * c) * b + s * b
    BY <1>1, <1>2
  <2>2. (q * c) * b = q * (b * c)
    BY <1>2
  <2>3. (q * c) * b \in Nat /\ s * b \in Nat
    BY <1>2
  <2> QED
    BY <1>1, <2>1, <2>2, <2>3
<1>5. t < d
  <2> DEFINE e == c - (s + 1)
  <2>1. e \in Nat /\ c = e + s + 1
    BY <1>2
  <2> HIDE DEF e
  <2>2. b * c = e * b + s * b + b /\ e * b \in Nat /\ s * b \in Nat
    BY <1>2, <2>1
  <2> QED
    BY <1>1, <2>2
<1> HIDE DEF d, t
<1>6. a \div d = q
  BY <1>2, <1>3, <1>4, <1>5, Quotient
<1> QED
  BY <1>6 DEF d, q, p

\* Milliseconds are cut to seconds, but no second is lost.
LEMMA WholeSeconds ==
  ASSUME NEW t \in Nat, t * SECOND < U64
  PROVE  timer_uptime_ms(t) \div SECOND = t \div TIMER_FREQ
<1>1. SECOND \in Nat \ {0} /\ TIMER_FREQ \in Nat \ {0} /\ U64 \in Nat \ {0}
  BY ClockAssumption
<1> DEFINE m == t * SECOND
<1>2. m \in Nat /\ m % U64 = m
  BY <1>1
<1>3. timer_uptime_ms(t) = m \div TIMER_FREQ
  BY <1>2 DEF timer_uptime_ms
<1>4. m = t * SECOND + 0 /\ m \div SECOND = t
  <2>1. (t * SECOND + 0) \div SECOND = t
    BY <1>1, Quotient
  <2>2. m = t * SECOND + 0
    BY <1>1
  <2> QED
    BY <2>1, <2>2
<1> HIDE DEF m
<1>5. (m \div TIMER_FREQ) \div SECOND = m \div (TIMER_FREQ * SECOND)
  BY <1>1, <1>2, DivideTwice
<1>6. (m \div SECOND) \div TIMER_FREQ = m \div (SECOND * TIMER_FREQ)
  BY <1>1, <1>2, DivideTwice
<1>7. TIMER_FREQ * SECOND = SECOND * TIMER_FREQ
  BY <1>1
<1> QED
  BY <1>3, <1>4, <1>5, <1>6, <1>7

-----------------------------------------------------------------------------
(* The theorems.                                                           *)

\* sleep_ticks returns after n or n + 1 ticks, whatever comes between its
\* comparison and its hlt, for every n and every width of the counter.
THEOREM SleepIsExact == Spec => SleepExact
<1>1. IInv /\ [Next]_vars
        => [pc = "test" /\ pc' = "run" => Wraps \/ slept \in {n, n + 1}]_vars
  <2> SUFFICES ASSUME IInv, Next, pc = "test", pc' = "run", ~Wraps
               PROVE  slept \in {n, n + 1}
    BY DEF vars
  <2>1. n \in Nat /\ slept \in Nat /\ begin \in Nat
    BY Counts DEF IInv, Typed
  <2>2. SleepTest
    BY DEF Next, Thread, sleep_ticks, SleepHlt, Work, timer_tick, OtherIrq, Wake
  <2>3. ~(ticks < target)
    BY <2>2 DEF SleepTest
  <2>4. target = begin + n /\ ticks = begin + slept /\ slept + Due <= n + 1
    BY DEF IInv, OnTime
  <2> QED
    BY <2>1, <2>3, <2>4 DEF Due
<1> QED
  BY <1>1, AlwaysExact, PTL DEF Spec, SleepExact

\* `uptime` shows the seconds since boot, split into hours, minutes and seconds
\* without a remainder, at every frequency, until its product overflows.
THEOREM UptimeIsExact == Spec => []UptimeExact
<1>1. IInv => UptimeExact
  <2>1. SUFFICES ASSUME IInv, ticks * SECOND < U64
                 PROVE  LET up == ksh_hndl_uptime(ticks)
                        IN  /\ up.m < MINUTE /\ up.s < MINUTE
                            /\ up.h * MINUTE * MINUTE + up.m * MINUTE + up.s
                                 = ticks \div TIMER_FREQ
    BY DEF UptimeExact
  <2>2. ticks \in Nat /\ MINUTE \in Nat \ {0} /\ TIMER_FREQ \in Nat \ {0}
    <3>1. ticks \in 0..U64-1
      BY <2>1 DEF IInv, Typed
    <3> QED
      BY <3>1, ClockAssumption
  <2> DEFINE total == timer_uptime_ms(ticks) \div SECOND
             minutes == total \div MINUTE
             hours == minutes \div MINUTE
             s == total % MINUTE
             m == minutes % MINUTE
  <2>3. total = ticks \div TIMER_FREQ
    BY <2>1, <2>2, WholeSeconds
  <2>4. total \in Nat
    BY <2>2, <2>3, Split
  <2>5. ksh_hndl_uptime(ticks) = [h |-> total \div (MINUTE * MINUTE), m |-> m, s |-> s]
    BY DEF ksh_hndl_uptime
  <2> HIDE DEF total
  <2>6. minutes \in Nat /\ s \in Nat /\ s < MINUTE /\ total = minutes * MINUTE + s
    BY <2>2, <2>4, Split
  <2>7. total \div (MINUTE * MINUTE) = hours
    BY <2>2, <2>4, DivideTwice
  <2> HIDE DEF minutes, s
  <2>8. hours \in Nat /\ m \in Nat /\ m < MINUTE /\ minutes = hours * MINUTE + m
    BY <2>2, <2>6, Split
  <2> HIDE DEF hours, m
  <2>9. hours * MINUTE * MINUTE + m * MINUTE + s = total
    <3>1. minutes * MINUTE = hours * MINUTE * MINUTE + m * MINUTE
      BY <2>2, <2>8
    <3> QED
      BY <2>6, <3>1
  <2> QED
    BY <2>3, <2>5, <2>6, <2>7, <2>8, <2>9
<1> QED
  BY <1>1, AlwaysExact, PTL
=============================================================================
