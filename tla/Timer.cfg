SPECIFICATION FairSpec
CONSTANTS
  U64 = 128
  TIMER_FREQ = 2
  SECOND = 4
  MINUTE = 3
  Sleeps = {0, 1, 3, 64}
INVARIANT UptimeExact
PROPERTIES SleepExact SleepEnds
