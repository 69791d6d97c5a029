SPECIFICATION HSpec
CONSTANTS
  li = li
  st = st
  ld = ld
  bc = bc
  un = un
  b1 = b1
  b2 = b2
  b3 = b3
  b4 = b4
  NoBlock = NoBlock
  Always = Always
  Word <- MCWord
  Size = 3
  PcMod = 6
  Decode <- MCDecode
  MaxInsns = 2
  MaxSteps = 2
  HostCells <- None
  HostPcs <- Starts
  HostTranslatable <- None
  Programs <- MCMemories
  Pc <- MCPc
  Buffer <- MCBuffer3
  CodeLens <- MCCodeLens
  MaxBytes = 5
  UsedBound = 8
INVARIANTS
  ExactAccounts
  EvictsLeastRecentlyRun
PROPERTIES
  CallsReturn
