CONSTANTS
  Queries <- MCQueries
  BadQueries <- MCBadQueries
  MaxQueries = 2
  IdBits = 3
  InTxnBlock = FALSE
  Cancels = FALSE

SPECIFICATION Spec

\* The hang stops every action; report it as the blocked call that never
\* returns rather than as a deadlock.
CHECK_DEADLOCK FALSE

PROPERTY CallsReturn
