SPECIFICATION Spec
CONSTANTS
  v1 = v1
  v2 = v2
  v3 = v3
  NoReg = NoReg
  WideBits = 4
  NarrowBits = 2
  Widths <- OnlyWide
  VReg <- MCVReg
  Imm <- Word
  Kind <- MCKind
  Zero = 0
  World <- MCWorld
  Fold <- WideFold
  Run <- Emitted
  Blocks <- MCBlocks
INVARIANTS
  PassTypeOK
  WideIsPreserved
  ExactlyDeadRemoved
  PassInv
