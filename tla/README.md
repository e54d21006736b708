# TLA+ models of libpqxx

This directory has TLA+ specifications of the parts of libpqxx, the C++ client
library for PostgreSQL, that are found in this repository's `src/`. They come
with TLC configurations that check them. The sources are excerpts from several
library versions (trunk, 2.2.2, 2.6.7, release 2.1). The models follow the
lines that are present. Much of the library is present only as declarations
with their doc comments. Where the declaration or its comment states the
behaviour (the issuing policy of `retain()`, the `in_doubt` outcome of
`commit()`, what becomes of a SET on abort), the `PROJECT.json` map cites
those lines. Control that neither shows is marked `spec_modelled`, and is
taken from `spec.md`: the checks of `exec()`, `commit()` and `abort()`, the
pipeline's blocking loop, the table streams' destructors, and the server.

## The system

| Part | Source | State | Operations |
|---|---|---|---|
| Transaction | `trunk/include/pqxx/transaction_base.hxx` | `m_Status` (nascent, active, aborted, committed, in_doubt), `m_Focus`, `m_PendingError`, `m_Vars`, `m_reactivation_avoidance` | `Begin`/`activate`, `exec`, `commit`, `abort`, `End`, `set_variable`/`get_variable`, `DirectExec(Retries)` |
| Focus registry | same file, `transactionfocus` (52-79), `RegisterFocus`/`UnregisterFocus`/`RegisterPendingError` (373-376) | the transaction's `unique<>` slot, each focus's `m_registered` | `register_me`, `unregister_me`, `reg_pending_error`, `CheckPendingError` |
| Pipeline | `trunk/libpqxx/include/pqxx/pipeline.hxx` | `m_queries`, `m_waiting`, `m_sent`, `m_completed`, `m_nextid`, `m_retain` | `insert`, `retain`, `resume`, `retrieve(id)`, `retrieve()`, `complete`, `flush`, `is_running`, `is_finished` |
| Cursor (old API) | `trunk/libpqxx/src/cursor.cxx` | `m_Count`, `m_Done`, the backend cursor position | constructor (DECLARE), `SetCount`, `Fetch`, `Move`, `operator>>`, `OffsetString`, `MakeFetchCmd` |
| Transactor / perform | `trunk/libpqxx/test/test026.cxx`, `trunk/test/test018.cxx` | the transactor's private state (`m_Conversions`) | `perform` retries `operator()` in a fresh transaction, then `OnCommit`/`OnAbort`/`on_doubt` |
| Year conversion | `test026.cxx` 35-45 | none (pure) | `To4Digits` |
| Table streams | `transaction_base.hxx` 378-387, `r2_2_2/test/test068.cxx` | a focus holding the connection in COPY state | `BeginCopyRead`/`ReadCopyLine`, `BeginCopyWrite`/`WriteCopyLine`/`EndCopyWrite` |
| Connection | `trunk/libpqxx/src/connection.cxx`, `test000.cxx`, `tags/2.6.7/.../connectionpolicy.hxx` | open or broken, lazy or eager | connect on construction, `cancel_query` |
| Noticer, binarystring, trigger, compiler headers | `test014.cxx`, `test_binarystring.cxx`, `trigger.hxx`, `compiler.h`, `transaction_base.h` | no protocol state | output, byte conversion, declarations |

How the parts interact:

- A transaction owns one connection.
- A cursor or a table stream is a *focus* of the transaction. While a focus is registered, the transaction refuses `exec`, `commit` and other foci.
- A pipeline is not a focus. `pipeline.hxx:56` has no `transactionfocus` base, and the TODO at line 35 leaves blocking the transaction to a future "sessionfocus". The spec (lines 38, 82, 119) says otherwise.
- A focus that fails in a place where it cannot throw (a destructor) leaves a *pending error*. The transaction throws it at the start of its next operation.
- A pipeline sends its queries as one combined command over the transaction's connection. It reads the results back in order.
- The backend runs one command at a time and answers in FIFO order. A cancel request races the statement it is meant to cancel.

## Modules

### `Pipeline` (with `PipelineAbstract`, checked by `MC_Pipeline`)

The variables are the class members, named as in the header.

Two collaborators are added:

- the backend, as `srvQueue` (texts still to run) and `responses` (results not yet read), plus the cancel request `cancelReq`;
- the caller's thread, as `pc`: the blocking call it is in.

Two history variables are added: `delivered` and `lastOut`.

Actions:

- `query_id` is an `unsigned` (line 59). `IdSpace` is `2^IdBits`, and `generate_id` increments `m_nextid` modulo it, so the id counter wraps as the code's does. The passing runs use `IdBits = 3`: eight ids, more than three inserts can use, so no id wraps there, and the behaviour is the same as with 32 bits. TLC's integers cannot hold `2^32`. A wrap would hand out the id of a query still pending, contrary to spec line 36, but only after 2^32 inserts on one pipeline; no run checks it.
- `Insert` follows the issuing policy documented at lines 90-106. The first query goes out eagerly. Later queries wait while a batch is in flight, or while `m_retain` is set.
- `Retain` and `Resume` turn retention on and off.
- `RetrieveId` and `RetrieveOldest` either hand out a buffered result through `deliver`, or block.
- `Complete` blocks.
- `Flush` forgets at once when nothing is in flight. Otherwise it drains the batch first (`FlushDrain`). Spec 4.2 says `flush()` discards everything "without waiting", and the header is silent. A batch already sent still answers on the connection, though, and spec 3 requires every response to be read in order against the sent queue. A flush that did not read those answers would have the next batch take them as its own results. The drain is the only reading that satisfies both.
- `Await` is one turn of the blocking loop. It reads the answered batch (`consumeresults`, one result per sent id, in order, as spec 4.2 describes) and issues what waits (`send_waiting`). `send_waiting` appends the batch to the backend's queue, and only the read empties `responses`. A request for results of unissued queries resumes issuing even when retained (lines 100-102).
- `Return` ends a blocking call once its goal holds.
- `ServerAnswer`, `ServerCancel` and `CancelIgnored` model the backend. It runs a combined command statement by statement and, as PostgreSQL does, skips the rest of it after a statement fails or is canceled (`RestOfBatch`). With `InTxnBlock` the backend runs a transaction block, as it does for a pipeline on `work`. The first failed or canceled statement fails the block (`srvFailed`), and the backend then rejects every later statement (`Outcome`). The passing runs use `InTxnBlock = FALSE`, as on a `nontransaction`. `CancelQuery` is the test's `cancel_query()` call; the constant `Cancels` says whether the caller makes it.

`PipelineAbstract` states what the pipeline promises:

- every id is fresh;
- a result is handed out at most once, and it is the result of that id's own query;
- `retrieve()` gives the oldest query not yet retrieved;
- `flush` forgets the pending queries.

The refinement mapping is `pending <- m_queries`, `handedOut <- delivered`, `out <- lastOut`.

### `Transaction` (checked by `MC_Transaction`)

- `m_Status`, `m_Focus` and `m_PendingError` are the members. `registered[f]` is each focus's `m_registered`.
- The connection is `conn`. The server's view of the backend transaction is `backend`: none, open, failed, committed or rolled back.
- The session's variables are `sessVal` (now) and `sessBase` (outside any transaction block, what a rollback returns to). `reconnected` is a history flag: `Begin` replaced a broken connection.

Actions:

- `Begin` is `activate()`. A nascent transaction may start on a fresh connection.
- `Exec` runs a statement with no retries.
- `Exec` and `Commit` first check the status, the pending error and the focus slot (spec 4.1 and 4.3).
- `Commit` has four outcomes: committed; rejected and rolled back; connection lost after the server committed; connection lost before. The last two report `in_doubt` (lines 113-126).
- `Abort` works only from nascent or active.
- `ConnectionLoss` breaks the connection.
- `ThrowPending` is `CheckPendingError`.
- `RegisterMe`, `UnregisterMe` and `RegPendingError` model the focus side.

### Session variables and `DirectExec` in `Transaction`

- `m_Vars` is the variable cache. `sessVal` is what the server holds for each variable.
- `SetVariable` goes to the connection directly, in any status; it consults neither the status nor the focus slot. The SET happens first, and the value is cached only if the server accepts it. Inside the backend transaction a rejected SET fails it. Outside one (before `BEGIN`, after the end) the SET changes the session for good.
- `GetVariable` returns the cached value in any state, or queries the server when nothing is cached.
- Header lines 263-267: a value set in a transaction is forgotten if it aborts (`RollBack`, in `Abort` and a rejected `Commit`), kept if it commits (`CommitSession`), and not restored when the connection is recovered (`SessionLost`, in `ConnectionLoss`, a commit that loses the connection, and `Begin` on a fresh connection). `m_Vars` is never cleared.
- `DirectExec(retries)` reconnects a broken connection only when `retries > 0`. `Begin` uses one retry; `Exec` uses none.

### `YearConversion` (checked by `MC_YearConversion`)

- This is the `UpdateYears` transactor of `test026.cxx`, run by `perform()`.
- `To4Digits` is an operator translated from lines 35-45. `RefYear` is the century window that the file's header comment describes (lines 22-25), written independently.
- One attempt:
  - `Select` reads the table and notes conversions in `m_Conversions`. A rejected year aborts the attempt after some rows have been noted.
  - `Update` issues one `UPDATE ... WHERE year=old` per map key, in key order.
  - `Commit` either commits and runs `OnCommit`, or loses the connection and ends in doubt.
- `LoseConnection` aborts an attempt. `Retry` is `perform()` starting a fresh copy of the transactor, with an empty `m_Conversions`.
- `OtherWriter` is another client that commits single-row changes at any time. It cannot write rows the attempt has already updated, because those rows are locked.
- The transaction runs at `read_committed` (`transaction_base.hxx:109`). Each statement sees the committed table plus the attempt's own uncommitted rows (`mine`).
- `before` and `touched` are history variables. `before` is the SELECT's snapshot. `touched` holds the rows the other client wrote since then.

### `TxnFocus` (checked by itself)

This module composes a transaction with a pipeline and two kinds of focus on one connection. `wire` is the connection's protocol state: idle, a pipeline batch in flight, COPY OUT, or COPY IN. `m_Focus` is the slot; only the table streams use it.

- **Pipeline.** Abstracted to counts of waiting, sent and completed queries; the `Pipeline` module checks the internals.
  - `PipelineCtor` calls `attach`, which ties the pipeline to its transaction (`pipeAlive`) and leaves the slot alone.
  - `PipeInsert` issues a batch when none is in flight.
  - `PipeConsume` reads a batch's results, then issues what waits.
  - `PipelineDtor` waits for the batch in flight, then calls `detach`.
- **Table reader.** `ReaderCtor` registers (`RegisterFocus`) and issues the COPY. `ReadCopyLine` reads rows until the end. `ReaderDtor` drains what is left, then unregisters (`UnregisterFocus`).
- **Table writer.** `WriterCtor` registers and issues the COPY, and `WriteCopyLine` sends rows. `WriterDtor` calls `EndCopyWrite`, which ends the COPY, and then unregisters.
- **Transaction.**
  - `Exec` and `Commit` are refused while a stream holds the slot.
  - `End` is the destructor's implicit abort. It runs after the pipeline and the streams are destroyed, because C++ destroys them first.
  - `Abort` is the caller's explicit `abort()`. It does not consult the slot.
  - `SetVariable` sends SET and caches the value. `GetVariable` sends a query only when nothing is cached. Neither consults the slot. The constant `UncheckedWithFocus` says whether the caller calls `abort()` or these two while a stream is alive, ignoring, for the latter, the header's warning (lines 278-279).
- **The caller beside a pipeline.** Nothing in the library keeps the transaction's statements or a stream away from a live pipeline, or a new pipeline away from a live stream. The constant `UseWhilePipelined` says whether the caller mixes them anyway (`PipelineQuiet`).
- `mixed` is a history flag. It records a command that went out while the wire was busy.

### `Cursor` (checked by `MC_Cursor`)

- `m_Count` and `m_Done` are the members. `pos` is the backend cursor position, from 0 (before the first row) to `NRows + 1` (after the last).
- `Offset` is what `OffsetString` means to the backend: `ALL` and `BACKWARD ALL` move as far as there are rows.
- `Rows` and `NewPos` give PostgreSQL's FETCH/MOVE semantics for the commands that `MakeFetchCmd` and `Move` build.
- Every method is one action, and each keeps the zero-count early return and the `m_Done` updates of the code.

## Runs

| Run | Properties | What it shows |
|---|---|---|
| `pipeline` (`MC_Pipeline.cfg`) | `StageOrder`, `PipelineRefinement` | On a `nontransaction`, with a query the backend rejects and cancels between calls, the pipeline behaves correctly across interleavings of insert, retain, resume, retrieve, complete, flush and cancel with backend progress. The waiting, sent and completed stages stay disjoint and in insertion order, which is what makes positional filing of results correct. The pipeline implements its abstract promise. The deadlock check is off: a caller blocked on a statement that the backend skipped waits forever (see `pipeline_batch_abort`). |
| `pipeline_liveness` (`MC_PipelineLiveness.cfg`) | `CallsReturn` | When no statement fails and none is canceled, every blocking call returns, whatever the caller retained. A query that is waited for gets issued despite `retain()`, and each batch is read in full before the next goes out. |
| `transaction` (`MC_Transaction.cfg`) | `OutcomeMatchesBackend`, `FocusAgreement`, `GetVariableCurrent` | A committed or aborted report never contradicts the server, including across connection loss. The focus slot and the foci's own flags agree under any order of register and unregister. While the transaction is active on the session it began in, `get_variable()` returns the value that session holds, after any mix of accepted and rejected SETs inside and before the transaction. |
| `cursor` (`MC_Cursor.cfg`) | `TypeOK`, `DoneMeansExhausted` | `done()` never claims exhaustion unless the cursor is at the end in its stride's direction, over any sequence of calls. |
| `year_conversion` (`MC_YearConversion.cfg`) | `TypeOK`, `To4DigitsMatchesReference`, `UpdatesMatchConversion`, `ReportMatchesCommittedAttempt` | `To4Digits` matches the header's century window at every boundary. Retries, lost connections, in-doubt commits and a concurrent writer all occur. When `perform()` succeeds, every row left alone by the other client holds the conversion of its snapshot year. The report contains exactly the committed attempt's conversions and nothing from an aborted one. |
| `txn_focus` (`MC_TxnFocus.cfg`) | `TypeOK`, `NoInterleavedCommands`, `FocusOwnsWire` | The pipeline and the streams take turns on the connection, with the transaction's statements in between: `exec`, `set_variable`, `get_variable`, `commit`, `abort` and `End`. The caller keeps everything else away from a live pipeline, and calls `abort` and the variable functions only while no stream is alive. The slot then keeps streams apart from each other and from `exec` and `commit`. No command goes out while a batch or a COPY is on the wire. The wire always belongs to the live pipeline or to the registered stream that started its COPY. |

Violation runs. Each checks one claim that the code's tests, comments or spec make:

| Run | Property | What TLC finds |
|---|---|---|
| `pipeline_batch_abort` (`MC_PipelineBatchAbort.cfg`, a rejected query) | `CallsReturn` | PostgreSQL skips the rest of a multi-statement command after an error. `consumeresults()` waits for one result per sent id, so a retrieve blocks forever. Neither the header nor the spec says how the rest of a failed batch is handled. |
| `year_conversion_isolation` (`MC_YearConversionIsolation.cfg`) | `UpdatesSeeOnlySnapshot` | The comment at `test026.cxx` 71-73 says changes by others do not affect the transaction. At `read_committed`, an UPDATE rewrites a row that another client committed after the SELECT. |
| `txn_focus_unchecked` (`MC_TxnFocusUnchecked.cfg`, `UncheckedWithFocus = TRUE`) | `NoInterleavedCommands` | `abort()`, `set_variable()` and an uncached `get_variable()` do not consult the focus slot. The spec makes the focus registry the only arbiter of the connection (lines 82 and 119), but only the header's warning (278-279) keeps the variable functions away from a live stream, and nothing keeps `abort()` away. TLC finds a ROLLBACK sent into a table reader's COPY, whose failure `abort()` swallows. A SET does the same. A cached `get_variable()` sends nothing and is harmless. |
| `txn_focus_pipeline` (`MC_TxnFocusPipeline.cfg`, `UseWhilePipelined = TRUE`) | `NoInterleavedCommands` | The spec says a pipeline registers as the transaction's focus (lines 38, 82, 119), so the registry would refuse anything else while it lives. The class at `pipeline.hxx:56` has no `transactionfocus` base, and the TODO at line 35 leaves that blocking undone. TLC finds a table reader's COPY issued behind a pipeline batch in flight; `exec()` would do the same. |
| `transaction_var_after_end` (`MC_TransactionVarAfterEnd.cfg`) | `GetVariableApplicable` | `get_variable()` is documented to return the currently applicable value, and it answers from `m_Vars` first. Header lines 263-267 say a SET is forgotten when the transaction aborts, and not restored when the connection is recovered. Nothing clears `m_Vars`. TLC finds a `set_variable()` before `BEGIN` whose session then dies; `get_variable()` still returns the lost value. An abort after a SET inside the transaction gives the same result. |
| `pipeline_txn_block` (`MC_PipelineTxnBlock.cfg`, `InTxnBlock = TRUE`) | `FailuresIsolated` | Spec line 103 says a failing query does not abort its siblings. On a transaction block, a query canceled (or rejected) in one batch fails the block, and a good query of the next batch is retrieved as an error. The isolation the spec promises holds only on a `nontransaction`. |

For each property, `PROJECT.json` lists a mutant: a plausible bug in the mapped code (an off-by-one bound, a dropped guard, a missing reset, a lost erase) that TLC shows violates it.

### Bounds

- **Pipeline.** Two query texts, one good and one rejected by the backend, and three inserts. That is enough for a batch in flight while two more queries wait, for retain and resume around them, for out-of-order retrieves, for a flush with a batch in flight, and for a cancel landing on either query or on an idle backend. `IdBits = 3` keeps ids below the wrap.
- **Transaction.** Two foci, so one can hold the slot while the other registers and unregisters. One variable with two values besides its default, and three statements, so a SET can be rejected after an accepted one, or follow a SET made before `BEGIN`, before a read.
- **Pipeline liveness.** No rejected query and no cancel: those are exactly the cases where the backend skips statements and a call hangs, shown by `pipeline_batch_abort`.
- **Year conversion.** Two row slots and the years -1, 5, 70, 100, 1970 and 2005. Each slot may also be null or absent. This gives a rejected year, both centuries, a 2-digit year beside its 4-digit form, and a row the other client can insert. Two attempts and one foreign write are enough for an aborted attempt, a change in between, and a successful retry. `To4Digits` is compared with the reference on five windows of years, around 0, 70, 100, 1970 and 2070.
- **TxnFocus.** Three inserts per pipeline, so a second batch can be queued behind the first. COPYs of up to two rows, so a reader can be destroyed mid-stream. Two statements (`exec`, `set_variable` or an uncached `get_variable`), so a cached read can follow a SET.
- **Cursor.** Two rows and strides in -2..2, plus `ALL` and `BACKWARD_ALL`. That covers overshooting in both directions, zero counts and the keyword sentinels.

### Fairness

In `Pipeline`:

- The backend eventually answers a statement it is running (`WF Server`).
- A thread blocked in `retrieve`, `complete` or `flush` keeps running its loop. It waits in a blocking read, not for a scheduler, which justifies `WF Await`, `WF FlushDrain` and `WF Return`.
- The caller's own calls (`Insert`, `Retain`, `Resume` and so on) have no fairness: a program may stop calling at any time.

The `pipeline` run checks only safety and does not use fairness. `pipeline_liveness` uses it.

`Transaction`, `YearConversion` and `TxnFocus` check only safety properties, so they assume no fairness. The `YearConversion` and `TxnFocus` runs turn off the deadlock check because the program really does stop: after a commit, an in-doubt commit or the last failed attempt, or once the transaction has ended. In `Transaction` a step is always possible (the connection may break, a focus may register or unregister), so its deadlock check stays on.

## Not modelled

- **What `test_cancel_query` expects.** The cancel race is modelled (`CancelQuery`, `ServerCancel`, `CancelIgnored`) and occurs in the `pipeline` and `pipeline_txn_block` runs. If the statement completes before the cancel arrives, `retrieve()` returns its normal result. The test expects an `sql_error` instead, but it is written against a later pipeline API (a named pipeline, `retain(0)`), so no property states that claim here.

- **The reactivation-avoidance counter.** Only its declaration and `clear()` are in `src/`. Nothing there increments it or consults it, so there is no code to translate.
- **Connection policies.** `connectionpolicy.hxx` and the lazy, asynchronous and null connections of `test000`, `test026` and `test068` are declarations only; their bodies are not in `src/`. `connection.cxx` only calls `Connect()` from the constructors. `Transaction` abstracts the connection to open or broken.
- **The `FailedInsert`/`CountEvents` transactors of test018.** Every attempt of `FailedInsert` inserts one row and then throws, so its only effect on state is a row that each abort rolls back. The `perform()` retry loop it exercises is already checked by `YearConversion`. A property about it would hold by the shape of the model alone.
- **Escaping and `binarystring`.** Only their tests are in `src/` (`test000`, `test_binarystring`). The spec puts escaping and type conversion out of scope.

Noticers, trigger declarations, `compiler.h` and the forwarding header `transaction_base.h` have no protocol state and are left out.
