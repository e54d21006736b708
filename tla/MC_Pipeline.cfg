\* The pipeline on a nontransaction: two query texts, one of which the
\* backend rejects, cancels between calls, three inserts.
CONSTANTS
  Queries <- MCQueries
  BadQueries <- MCBadQueries
  MaxQueries = 3
  IdBits = 3
  InTxnBlock = FALSE
  Cancels = TRUE

SPECIFICATION Spec

\* A failed or canceled statement makes the backend skip the rest of its
\* batch, and a caller blocked on a skipped query then waits forever (the
\* pipeline_batch_abort run): the program really stops there.
CHECK_DEADLOCK FALSE

INVARIANT StageOrder
PROPERTY PipelineRefinement
