SPECIFICATION Spec
CONSTANTS
  Start = 3
  Size = 14
  Header = 2
  Word = 32
  Request <- Small
INVARIANTS
  TypeOK
  Chain
  TakenBlocks
PROPERTY IsAllocator
