SPECIFICATION EmitSpec
CONSTANTS
  v1 = v1
  v2 = v2
  v3 = v3
  v4 = v4
  v5 = v5
  RAX = RAX
  RBX = RBX
  RCX = RCX
  RDX = RDX
  R8 = R8
  R9 = R9
  i32 = i32
  i64 = i64
  NoReg = NoReg
  Junk = Junk
  SpillSlots = 1
  VReg <- MCVReg
  Imm <- MCImm
  Imm64 <- MCImm64
  Kind <- MCKind
  HostGpr <- SixRegs
  HostGprs <- SixInPool
  Blocks <- MCBlocks
INVARIANTS
  OperandsIntact
