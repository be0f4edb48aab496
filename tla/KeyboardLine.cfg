SPECIFICATION HFairSpec
CONSTANTS
  KBD_BUF_SIZE = 4
  LINE_MAX = 3
  SIZE_T = 16
  MaxTyped = 4
  Scancodes = {57, 28, 14, 42, 54, 170, 182}
  Stray = {97}
  Console <- MCConsole
  Echo <- MCEcho
INVARIANTS TypeOK LineUsable BufferTerminated CleanLineDelivered BufferHoldsLine NoStuckShift
PROPERTY PendingLineRead
