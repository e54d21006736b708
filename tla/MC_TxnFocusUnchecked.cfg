CONSTANTS
  MaxInserts = 3
  MaxLines = 2
  MaxStmts = 2
  UncheckedWithFocus = TRUE
  UseWhilePipelined = FALSE

SPECIFICATION Spec

\* The transaction ends by commit or by End(); the program then stops.
CHECK_DEADLOCK FALSE

INVARIANT
  NoInterleavedCommands
