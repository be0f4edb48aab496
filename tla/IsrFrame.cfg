SPECIFICATION Spec
CONSTANTS
  Vectors = {2, 3, 6, 13, 17, 33}
  ErrorCodes = {0, 5}
  LinkAddress <- MCLinkAddress
  HALF = 4
  MaxDepth = 3
INVARIANTS DispatchSeesFrame CallAligned
PROPERTY Resumed
CHECK_DEADLOCK FALSE
