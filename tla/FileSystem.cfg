SPECIFICATION Spec
CONSTANTS
  f = f
  g = g
  h = h
  f4 = f4
  out = out
  out2 = out2
  out3 = out3
  out4 = out4
  File = {f, g, h, out}
  Stream = {out}
  Buffer <- TwoBuffers
  Offset = {0, 3, 6}
  Newline <- NewlineCells
  DefaultFiles <- TwoDefaults
  CLUSTER_COUNT = 11
  CLUSTER_SIZE = 5
  ENTRY_SIZE = 2
  COUNT_SIZE = 2
  EOF_CLUSTER = 99
  FREE_CLUSTER = 98
  TAKEN_CLUSTER = 97
  MAX_SHELL_FILE_SIZE = 6
  WORD = 1000
  MaxCalls = 3
VIEW WithoutHistory
INVARIANT TypeOK
INVARIANT ChainsAreSeparate
PROPERTY ClustersAreReturned
PROPERTY AppendAppends
PROPERTY InsertInserts
PROPERTY PanicsOnlyWhenFull
PROPERTY Isolation
PROPERTY CopyCopies
PROPERTY StreamKeepsItsEnd
CHECK_DEADLOCK FALSE
