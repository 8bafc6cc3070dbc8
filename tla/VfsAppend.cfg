SPECIFICATION Spec
CONSTANTS
  f = f
  g = g
  h = h
  f4 = f4
  out = out
  out2 = out2
  out3 = out3
  out4 = out4
  File = {f, g, out}
  Stream = {out}
  Buffer <- TwoBuffers
  Offset = {0, 1, 2, 3, 4, 5}
  Newline <- NewlineCells
  DefaultFiles <- OneDefault
  CLUSTER_COUNT = 14
  CLUSTER_SIZE = 3
  ENTRY_SIZE = 2
  COUNT_SIZE = 1
  EOF_CLUSTER = 99
  FREE_CLUSTER = 98
  TAKEN_CLUSTER = 97
  MAX_SHELL_FILE_SIZE = 4
  WORD = 1000
  MaxCalls = 3
PROPERTY AppendAlwaysAppends
CHECK_DEADLOCK FALSE
