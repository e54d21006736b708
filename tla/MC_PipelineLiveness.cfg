\* The pipeline when every statement succeeds and nothing is canceled:
\* retain(), resume(), every blocking call and flush() in any order.
CONSTANTS
  Queries <- MCQueries
  BadQueries = {}
  MaxQueries = 3
  IdBits = 3
  InTxnBlock = FALSE
  Cancels = FALSE

SPECIFICATION Spec

PROPERTY CallsReturn
