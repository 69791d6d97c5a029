SPECIFICATION Spec
CONSTANTS
  v1 = v1
  v2 = v2
  v3 = v3
  v4 = v4
  v5 = v5
  RAX = RAX
  RBX = RBX
  MaxOps = 5
  MaxOperands = 2
  NoReg = NoReg
  Imm <- MCImm
  Kind <- MCKind
  VReg <- MCVReg
  HostGpr <- MCHostGpr
  HostGprs <- MCHostGprs
  Blocks <- MCBlocks
INVARIANTS
  TypeOK
  LiveValuesApart
  SharedRegistersDisjoint
  PoolPartition
  SpillOnlyUnderPressure
  ScarceRegistersLast
  SpillBudget
  IInv
PROPERTIES
  OnlyOpenIntervalsMove
  Terminates
