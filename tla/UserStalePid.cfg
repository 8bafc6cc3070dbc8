SPECIFICATION USpec
CONSTANTS
  s1 = s1
  s2 = s2
  a = a
  Idle = idle
  Shell <- TwoShells
  NUMBER_OF_TERMINALS = 2
  MAX_NUMBER_OF_PROCESSES = 4
  Pcb = {idle, s1, s2, a}
  Programs = {"work"}
INVARIANT WaiterHasChild
