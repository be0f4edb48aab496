SPECIFICATION FairSpec
CONSTANTS
  FirmwareMasks <- AllOrNothingMasked
  Devices = {7, 12}
  Exceptions = {3, 8, 11, 13, 14}
  TICKS = 2
  MaxKeys = 2
  MaxDepth = 3
  MaxFaults = 2
CHECK_DEADLOCK FALSE
INVARIANTS TypeOK InterruptsReady NoNestedIrq AllAcknowledged EachKeyOnce
PROPERTIES PanicIsFinal TicksGoOn KeyAnswered
