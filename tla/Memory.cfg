SPECIFICATION Spec
CONSTANTS
  p1 = p1
  p2 = p2
  p3 = p3
  Nobody = nobody
  Process = {p1, p2, p3}
  Program = {"long", "flush"}
  Segments <- Files
  Writable <- PagesWritten
  Frames = 51
  WordBits = 4
  LockedWords = 1
  KernelPages = 2
  Slots = 18
  Entries = 2
  HeapFirst = 2
  HeapLast = 3
SYMMETRY Processes
INVARIANTS
  TypeOK
  FrameOwnership
  AllAccounted
PROPERTIES
  OthersKeepTheirPages
  IsolatedMemories
