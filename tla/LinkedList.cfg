SPECIFICATION Spec
CONSTANTS
  Node = {n1, n2, n3, n4}
  Data = {a, b, c}
  NULL = NULL
INVARIANTS
  TypeOK
  WellLinked
PROPERTY IsSequence
