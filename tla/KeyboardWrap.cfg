SPECIFICATION HSpec
CONSTANTS
  KBD_BUF_SIZE = 5
  LINE_MAX = 4
  SIZE_T = 16
  MaxTyped = 3
  Scancodes = {30, 28}
  Stray = {0}
  Console <- MCConsole
  Echo <- MCEcho
INVARIANT WrappedLineDelivered
