SPECIFICATION Spec
CONSTANTS
  FAN = 2
  Frames = {0,1,2,3,4,5,6,7,8,9,10,11,12,13,14,15,16}
  Cr3 = 8
  BootTables <- MCBootTables
  SCRATCH = 4
  SCRATCH_VIRT = 101
  VIRT_BASE = 100
  PHYS_BASE = 12
  TlbSize = 2
  HHDM = 8
  TEXT = 1
  BootUarts <- MCBootUarts
  Requests <- MCRequests
  MaxCalls = 2
INVARIANTS TypeOK TlbCoherent KernelReady FirstMappingSafe
PROPERTY ImplementsAddressMap
CHECK_DEADLOCK FALSE
