SPECIFICATION Spec
CONSTANTS
  Terminal = {1, 2}
  Process = {"shell1", "shell2", "prog2"}
  Shells = {"shell1", "shell2"}
  shell_id <- ShellId
  Key <- Keys
  key_map <- Plain
  key_map_shifted <- Capitals
  digit <- Digits
  BuffSize = 3
  Rows = 2
  Cols = 3
  Register = 16
  Texts <- Printed
INVARIANTS
  TypeOK
  CursorOnScreen
  FocusedReadersFirst
PROPERTIES
  TerminalOrderKept
  NothingOldIsRead
