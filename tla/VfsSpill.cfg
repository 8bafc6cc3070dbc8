SPECIFICATION Spec
CONSTANTS
  f = f
  g = g
  h = h
  f4 = f4
  out = out
  out2 = out2
  out3 = out3
  out4 = out4
  File = {f, g, h, f4, out, out2, out3, out4}
  Stream = {out, out2, out3, out4}
  Buffer <- CodeBuffers
  Offset = {8}
  Newline <- NewlineCells
  DefaultFiles <- CodeDefaults
  CLUSTER_COUNT = 28
  CLUSTER_SIZE = 8
  ENTRY_SIZE = 3
  COUNT_SIZE = 2
  EOF_CLUSTER = 28
  FREE_CLUSTER = 27
  TAKEN_CLUSTER = 26
  MAX_SHELL_FILE_SIZE = 6
  WORD = 1000
  MaxCalls = 2
VIEW WithoutHistory
PROPERTY DirectoryKeepsToItself
CHECK_DEADLOCK FALSE
