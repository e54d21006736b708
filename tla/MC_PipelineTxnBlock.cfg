\* The pipeline on a transaction (work): PostgreSQL skips the rest of a
\* failed combined command and rejects every later statement of the
\* failed transaction block.
CONSTANTS
  Queries <- MCQueries
  BadQueries <- MCBadQueries
  MaxQueries = 3
  IdBits = 3
  InTxnBlock = TRUE
  Cancels = TRUE

SPECIFICATION Spec

\* A retrieve for a skipped statement blocks forever (the batch_abort run).
CHECK_DEADLOCK FALSE

INVARIANT FailuresIsolated
