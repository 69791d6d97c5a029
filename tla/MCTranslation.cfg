SPECIFICATION Spec
CONSTANTS
  NoReg = NoReg
  VRegAt <- MCVRegAt
  VReg <- MCVReg
  Imm <- Word
  Kind <- OpKinds
  Indices <- MCIndices
  WideBits = 8
  NarrowBits = 4
  HalfBits = 2
  ByteBits = 2
  CrBits = 8
  InsnLen = 2
  WordBytes = 2
  LiBits = 3
  MemSize = 12
  VecSum <- MCVecSum
  ZeroReg = 3
  LinkReg = 2
  NopWord <- MCNopWord
  Words <- MCWords
  Starts <- MCStarts
  MaxInsns = 3
INVARIANTS
  TranslationTypeOK
  RegistersTracked
  BlockIsSequence
  LoweredWellFormed
  ExitIsLast
