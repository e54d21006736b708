------------------------------ MODULE TxnFocus ------------------------------
(***************************************************************************)
(* A transaction, its table streams and a pipeline taking turns on its    *)
(* connection (transaction_base.hxx 262-283 and 373-387, pipeline.hxx     *)
(* 35, 56-62 and 113-118).  The connection is one ordered channel; wire  *)
(* is its protocol state: idle, a pipeline batch whose results are still  *)
(* to be read, or a COPY in either direction.                             *)
(*                                                                         *)
(* A table reader or writer is a transactionfocus: it registers in the    *)
(* transaction's unique<> focus slot m_Focus in its constructor and       *)
(* unregisters in its destructor, and exec() and commit() are refused     *)
(* while the slot is taken.  The pipeline is not a transactionfocus       *)
(* (pipeline.hxx:56 has no base class; the TODO at :35 leaves blocking    *)
(* the transaction to a future "sessionfocus"): it attaches to the        *)
(* transaction without taking the slot, and nothing in the library stops  *)
(* the transaction or a stream from using the connection while a batch is *)
(* in flight.  Whether the caller does so anyway is UseWhilePipelined.    *)
(* The pipeline is abstracted to counts of waiting, sent and completed    *)
(* queries; the Pipeline module checks its internals.                     *)
(***************************************************************************)
EXTENDS Naturals

CONSTANTS
  MaxInserts,        \* bound on pipeline::insert() calls per pipeline
  MaxLines,          \* rows a COPY may carry
  MaxStmts,          \* bound on the transaction's own statements
  UncheckedWithFocus, \* does the caller call abort(), set_variable() or
                     \* get_variable() while a stream is alive?
  UseWhilePipelined  \* does it use the transaction or a stream beside a live pipeline?

ASSUME {UncheckedWithFocus, UseWhilePipelined} \subseteq BOOLEAN

NoFocus == "none"
Streams == {"reader", "writer"}

VARIABLES
  m_Status,   \* transaction_base::m_Status (the transaction has begun)
  m_Focus,    \* the unique<> focus slot: a stream, or none
  pipeAlive,  \* a pipeline is attached to the transaction
  wire,       \* "idle", "batch", "copy_out" or "copy_in"
  queued,     \* pipeline: m_waiting
  sent,       \* pipeline: m_sent, the batch on the wire
  done,       \* pipeline: m_completed
  inserts,    \* insert() calls made on the current pipeline
  lines,      \* rows the COPY still carries (reader) or has carried (writer)
  stmts,      \* exec(), set_variable() and uncached get_variable() calls made
  varCached,  \* the session variable's value is in m_Vars
  mixed       \* history: a command went out while the wire was not idle

vars == <<m_Status, m_Focus, pipeAlive, wire, queued, sent, done, inserts, lines,
          stmts, varCached, mixed>>
pipeVars == <<queued, sent, done, inserts>>
txnVars == <<m_Status, stmts, varCached>>

Init ==
  /\ m_Status = "active"
  /\ m_Focus = NoFocus
  /\ pipeAlive = FALSE
  /\ wire = "idle"
  /\ queued = 0 /\ sent = 0 /\ done = 0 /\ inserts = 0
  /\ lines = 0
  /\ stmts = 0
  /\ varCached = FALSE
  /\ mixed = FALSE

\* A command goes out on the connection now.
SendCommand == mixed' = (mixed \/ wire # "idle")

\* The caller's discipline: no use of the transaction or of a stream while
\* a pipeline lives, unless UseWhilePipelined.
PipelineQuiet == UseWhilePipelined \/ ~pipeAlive

\* RegisterFocus(): refused while another focus holds the slot, or once
\* the transaction has ended.
RegisterFocus(k) ==
  /\ m_Status = "active"
  /\ m_Focus = NoFocus
  /\ m_Focus' = k

\* UnregisterFocus(): empties the slot of its own focus.
UnregisterFocus(k) ==
  /\ m_Focus = k
  /\ m_Focus' = NoFocus

\* pipeline::attach() and detach(): the pipeline ties itself to its
\* transaction; the focus slot is left alone.
attach == pipeAlive' = TRUE
detach == pipeAlive' = FALSE

-----------------------------------------------------------------------------
(* The pipeline                                                            *)

\* pipeline(t): attach(), with empty queues.
PipelineCtor ==
  /\ m_Status = "active"
  /\ ~pipeAlive
  /\ UseWhilePipelined \/ m_Focus = NoFocus
  /\ attach
  /\ queued' = 0 /\ sent' = 0 /\ done' = 0 /\ inserts' = 0
  /\ UNCHANGED <<m_Focus, wire, lines, mixed>> /\ UNCHANGED txnVars

\* insert(): the query waits; with no batch in flight send_waiting()
\* issues everything waiting as one batch.
PipeInsert ==
  /\ pipeAlive
  /\ UseWhilePipelined \/ m_Focus = NoFocus
  /\ inserts < MaxInserts
  /\ inserts' = inserts + 1
  /\ IF sent = 0
       THEN /\ sent' = queued + 1 /\ queued' = 0
            /\ wire' = "batch"
            /\ SendCommand
       ELSE /\ queued' = queued + 1
            /\ UNCHANGED <<sent, wire, mixed>>
  /\ UNCHANGED <<m_Focus, pipeAlive, done, lines>> /\ UNCHANGED txnVars

\* consumeresults() from a retrieve(), complete() or the destructor: the
\* batch's results are read, which frees the wire; then send_waiting()
\* issues what waits as the next batch.
PipeConsume ==
  /\ pipeAlive
  /\ sent > 0
  /\ done' = done + sent
  /\ IF queued > 0
       THEN sent' = queued /\ queued' = 0 /\ wire' = "batch"
       ELSE sent' = 0 /\ UNCHANGED queued /\ wire' = "idle"
  /\ UNCHANGED <<m_Focus, pipeAlive, inserts, lines, mixed>> /\ UNCHANGED txnVars

\* Mutant: retrieve() takes a result that is not there.
PipeRetrieveUnguarded ==
  /\ pipeAlive
  /\ done' = done - 1
  /\ UNCHANGED <<m_Focus, pipeAlive, wire, queued, sent, inserts, lines, mixed>>
  /\ UNCHANGED txnVars

\* retrieve() of a completed result.
PipeRetrieve ==
  /\ pipeAlive
  /\ done > 0
  /\ done' = done - 1
  /\ UNCHANGED <<m_Focus, pipeAlive, wire, queued, sent, inserts, lines, mixed>>
  /\ UNCHANGED txnVars

\* Mutant: the destructor detaches with a batch still in flight.
PipelineDtorDetachesFirst ==
  /\ pipeAlive
  /\ detach
  /\ queued' = 0 /\ done' = 0
  /\ UNCHANGED <<m_Focus, wire, sent, inserts, lines, mixed>> /\ UNCHANGED txnVars

\* ~pipeline(): the results of a batch in flight are read first (PipeConsume
\* from the destructor), what waits or was completed is dropped, then
\* detach().
PipelineDtor ==
  /\ pipeAlive
  /\ sent = 0
  /\ detach
  /\ queued' = 0 /\ done' = 0
  /\ UNCHANGED <<m_Focus, wire, sent, inserts, lines, mixed>> /\ UNCHANGED txnVars

-----------------------------------------------------------------------------
(* Table streams                                                           *)

\* tablereader(T, table): register, then BeginCopyRead issues
\* COPY table TO STDOUT; the server streams some number of rows.
ReaderCtor ==
  /\ PipelineQuiet
  /\ RegisterFocus("reader")
  /\ SendCommand
  /\ wire' = "copy_out"
  /\ lines' \in 0 .. MaxLines
  /\ UNCHANGED <<pipeAlive>> /\ UNCHANGED txnVars /\ UNCHANGED pipeVars

\* ReadCopyLine: the next row, or false at the end of the data, which
\* ends the COPY.
ReadCopyLine ==
  /\ m_Focus = "reader"
  /\ wire = "copy_out"
  /\ IF lines > 0 THEN lines' = lines - 1 /\ UNCHANGED wire
                  ELSE wire' = "idle" /\ UNCHANGED lines
  /\ UNCHANGED <<m_Focus, pipeAlive, mixed>> /\ UNCHANGED txnVars /\ UNCHANGED pipeVars

\* ~tablereader(): reads what is left of the COPY, then unregisters.
ReaderDtor ==
  /\ UnregisterFocus("reader")
  /\ wire' = "idle"
  /\ lines' = 0
  /\ UNCHANGED <<pipeAlive, mixed>> /\ UNCHANGED txnVars /\ UNCHANGED pipeVars

\* tablewriter(T, table): register, then BeginCopyWrite issues
\* COPY table FROM STDIN.
WriterCtor ==
  /\ PipelineQuiet
  /\ RegisterFocus("writer")
  /\ SendCommand
  /\ wire' = "copy_in"
  /\ lines' = 0
  /\ UNCHANGED <<pipeAlive>> /\ UNCHANGED txnVars /\ UNCHANGED pipeVars

\* WriteCopyLine: one row of COPY data.
WriteCopyLine ==
  /\ m_Focus = "writer"
  /\ lines < MaxLines
  /\ lines' = lines + 1
  /\ UNCHANGED <<m_Focus, pipeAlive, wire, mixed>> /\ UNCHANGED txnVars
  /\ UNCHANGED pipeVars

\* Mutant: EndCopyWrite() that does not end the COPY.
EndCopyWriteSkipsEnd == UNCHANGED <<wire, lines>>

\* EndCopyWrite(): the end-of-data marker ends the COPY.
EndCopyWrite ==
  /\ wire' = "idle"
  /\ lines' = 0

\* ~tablewriter(): EndCopyWrite(), then unregister.
WriterDtor ==
  /\ UnregisterFocus("writer")
  /\ EndCopyWrite
  /\ UNCHANGED <<pipeAlive, mixed>> /\ UNCHANGED txnVars /\ UNCHANGED pipeVars

-----------------------------------------------------------------------------
(* The transaction's own statements                                       *)

\* exec(): refused while a stream holds the focus slot.
Exec ==
  /\ PipelineQuiet
  /\ m_Status = "active"
  /\ m_Focus = NoFocus
  /\ stmts < MaxStmts
  /\ stmts' = stmts + 1
  /\ SendCommand
  /\ UNCHANGED <<m_Status, m_Focus, pipeAlive, wire, lines, varCached>>
  /\ UNCHANGED pipeVars

\* commit(): refused while a stream holds the focus slot.
Commit ==
  /\ PipelineQuiet
  /\ m_Status = "active"
  /\ m_Focus = NoFocus
  /\ m_Status' = "committed"
  /\ SendCommand
  /\ UNCHANGED <<m_Focus, pipeAlive, wire, lines, stmts, varCached>>
  /\ UNCHANGED pipeVars

\* abort() called by the caller: from active it sends the rollback; a
\* failure is swallowed.  abort() does not consult the focus slot; whether
\* the caller calls it while a stream is alive is UncheckedWithFocus.
Abort ==
  /\ PipelineQuiet
  /\ UncheckedWithFocus \/ m_Focus = NoFocus
  /\ m_Status = "active"
  /\ m_Status' = "aborted"
  /\ SendCommand
  /\ UNCHANGED <<m_Focus, pipeAlive, wire, lines, stmts, varCached>>
  /\ UNCHANGED pipeVars

\* set_variable(Var, Val): SET goes out on the connection directly, with no
\* look at the focus slot, and the value is cached in m_Vars.  Whether the
\* caller heeds the warning at transaction_base.hxx 278-279 and keeps it
\* away from a live stream is UncheckedWithFocus.
SetVariable ==
  /\ PipelineQuiet
  /\ UncheckedWithFocus \/ m_Focus = NoFocus
  /\ m_Status = "active"
  /\ stmts < MaxStmts
  /\ stmts' = stmts + 1
  /\ varCached' = TRUE
  /\ SendCommand
  /\ UNCHANGED <<m_Status, m_Focus, pipeAlive, wire, lines>> /\ UNCHANGED pipeVars

\* get_variable(Var): a value cached by set_variable() is returned with no
\* round trip; otherwise the server is queried, again with no look at the
\* focus slot.
GetVariable ==
  /\ PipelineQuiet
  /\ UncheckedWithFocus \/ m_Focus = NoFocus
  /\ ~varCached
  /\ stmts < MaxStmts
  /\ stmts' = stmts + 1
  /\ SendCommand
  /\ UNCHANGED <<m_Status, m_Focus, pipeAlive, wire, lines, varCached>>
  /\ UNCHANGED pipeVars

\* End(), from the destructor: an active transaction is aborted.  The
\* streams and the pipeline, constructed later with a reference to it, are
\* destroyed first.
End ==
  /\ m_Status = "active"
  /\ m_Focus = NoFocus
  /\ ~pipeAlive
  /\ m_Status' = "aborted"
  /\ SendCommand
  /\ UNCHANGED <<m_Focus, pipeAlive, wire, lines, stmts, varCached>>
  /\ UNCHANGED pipeVars

Next ==
  \/ PipelineCtor \/ PipeInsert \/ PipeConsume \/ PipeRetrieve \/ PipelineDtor
  \/ ReaderCtor \/ ReadCopyLine \/ ReaderDtor
  \/ WriterCtor \/ WriteCopyLine \/ WriterDtor
  \/ Exec \/ Commit \/ Abort \/ SetVariable \/ GetVariable \/ End

Spec == Init /\ [][Next]_vars

-----------------------------------------------------------------------------
(* Properties                                                              *)

TypeOK ==
  /\ m_Status \in {"active", "aborted", "committed"}
  /\ m_Focus \in Streams \cup {NoFocus}
  /\ pipeAlive \in BOOLEAN
  /\ wire \in {"idle", "batch", "copy_out", "copy_in"}
  /\ {queued, sent, done, inserts, lines, stmts} \subseteq Nat
  /\ {varCached, mixed} \subseteq BOOLEAN

\* The connection is one ordered channel: no command (a pipeline batch, a
\* COPY, a statement, SET, commit or rollback) ever goes out while the
\* results of an earlier pipeline batch, or a COPY, are still on the wire,
\* over any order of stream and pipeline construction, use and destruction
\* and transaction calls.
NoInterleavedCommands == ~mixed

\* Whatever holds the wire belongs to a live owner: a batch in flight to an
\* attached pipeline, a COPY to the registered stream that started it.
FocusOwnsWire ==
  /\ wire = "batch" => pipeAlive
  /\ wire = "copy_out" => m_Focus = "reader"
  /\ wire = "copy_in" => m_Focus = "writer"

=============================================================================
