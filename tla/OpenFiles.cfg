SPECIFICATION Spec
CONSTANTS
  File = {f, g, h}
  SystemFile = {h}
  Process = {p, q, r}
INVARIANT TypeOK
INVARIANT OpenIsHeld
SYMMETRY NameSymmetry
