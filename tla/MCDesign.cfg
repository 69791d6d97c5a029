SPECIFICATION Spec
CONSTANTS
  rax = rax
  rbx = rbx
  NoReg = NoReg
  WideBits = 4
  NarrowBits = 2
  ByteBits = 2
  VReg <- MCVReg
  Imm <- Word
  Kind <- designKind
  HostGpr <- MCHostGpr
  HostGprs <- MCPool
  Lowered <- MCLowered
  Starts <- MCStarts
INVARIANTS
  PassesPreserve
  LiveApart
PROPERTIES
  FarthestEndIsSpilled
