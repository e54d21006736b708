---------------------------- MODULE Transaction ----------------------------
(***************************************************************************)
(* pqxx::transaction_base (include/pqxx/transaction_base.hxx): the life   *)
(* cycle of one transaction on one connection, its cache of session      *)
(* variables, and the registry of the transactionfocus objects (cursors,  *)
(* table streams) that may hold the transaction's connection.            *)
(*                                                                         *)
(* m_Status follows the Status enum; m_Focus is the unique<> slot of the  *)
(* registered focus; registered[f] is each focus's own m_registered;      *)
(* m_PendingError is the deferred error a focus left behind; m_Vars is    *)
(* the cache set_variable() fills.  The connection collaborator is conn   *)
(* (open or broken) and the server's state: backend, its view of this    *)
(* transaction's backend transaction; sessVal, each variable's value in  *)
(* the session now; sessBase, its value outside any transaction block,   *)
(* which a rollback returns to.  A broken connection takes its session,   *)
(* and every variable set in it, with it.                                *)
(***************************************************************************)
EXTENDS Naturals, TLC

CONSTANTS
  Foci,      \* transactionfocus objects that may use the transaction
  NoFocus,   \* the empty unique<> slot
  MaxExec,   \* bound on statements (exec, SET, SHOW) that reach the server
  Vars,      \* session variable names
  Values,    \* values they may take
  Default    \* every variable's value when a session starts

ASSUME NoFocus \notin Foci /\ MaxExec \in Nat /\ Default \in Values

Statuses == {"nascent", "active", "aborted", "committed", "in_doubt"}

\* Backend transaction, as the server sees it: none begun, open, open but
\* failed by an SQL error (every later statement fails), committed, or
\* rolled back (by ROLLBACK, a rejected COMMIT, or the connection dying).
Backend == {"none", "open", "failed", "committed", "rolledback"}
Live == {"open", "failed"}

VARIABLES
  m_Status,        \* Status
  m_Focus,         \* internal::unique<transactionfocus> m_Focus
  registered,      \* transactionfocus::m_registered, per focus
  m_PendingError,  \* m_PendingError is non-empty
  conn,            \* the connection: "open" or "broken"
  backend,         \* the server's backend transaction for this transaction
  execs,           \* statements that reached the server
  m_Vars,          \* std::map<string,string> m_Vars: values set_variable() cached
  sessVal,         \* the session's value of each variable
  sessBase,        \* ... outside any transaction block
  lastGet,         \* history: the variable and value get_variable() last returned
  reconnected      \* history: Begin() replaced a broken connection

vars == <<m_Status, m_Focus, registered, m_PendingError, conn, backend, execs,
          m_Vars, sessVal, sessBase, lastGet, reconnected>>
focusVars == <<m_Focus, registered>>
sessVars == <<sessVal, sessBase>>
varVars == <<m_Vars, sessVal, sessBase, lastGet, reconnected>>
NoGet == [var |-> "none", val |-> Default]
FreshSession == [v \in Vars |-> Default]

Init ==
  /\ m_Status = "nascent"
  /\ m_Focus = NoFocus
  /\ registered = [f \in Foci |-> FALSE]
  /\ m_PendingError = FALSE
  /\ conn = "open"
  /\ backend = "none"
  /\ execs = 0
  /\ m_Vars = <<>>
  /\ sessVal = FreshSession
  /\ sessBase = FreshSession
  /\ lastGet = NoGet
  /\ reconnected = FALSE

-----------------------------------------------------------------------------
(* The server session                                                      *)

\* The backend transaction ends without committing: every SET made inside
\* it is undone.
RollBack == sessVal' = sessBase /\ UNCHANGED sessBase

\* The backend transaction commits: its SETs outlive it.
CommitSession == sessBase' = sessVal /\ UNCHANGED sessVal

\* The connection dies: the session is gone, and a new one starts from the
\* defaults.
SessionLost == sessVal' = FreshSession /\ sessBase' = FreshSession

-----------------------------------------------------------------------------
(* Transaction operations                                                 *)

\* What exec() and commit() check first: the transaction is active, no
\* error is pending and no focus is open.
CanExec == m_Status = "active" /\ ~m_PendingError /\ m_Focus = NoFocus

\* DirectExec(C, Retries): send a statement on the connection.  A broken
\* connection is reconnected transparently only when Retries > 0; with no
\* retries the call throws broken_connection (no step).
DirectExec(retries) ==
  \/ conn = "open" /\ UNCHANGED conn
  \/ conn = "broken" /\ retries > 0 /\ conn' = "open"

\* CheckPendingError(): a pending error is thrown (and cleared) at the
\* start of the next operation, which then does nothing else.
ThrowPending ==
  /\ m_PendingError
  /\ m_PendingError' = FALSE
  /\ UNCHANGED <<m_Status, focusVars, conn, backend, execs, varVars>>

\* activate() from nascent: Begin() issues BEGIN through DirectExec with
\* retries, so a broken connection is replaced by a fresh one (nothing of
\* the transaction is on the server yet).  Failing to connect leaves the
\* transaction nascent, a step that changes nothing.
Begin ==
  /\ m_Status = "nascent"
  /\ ~m_PendingError
  /\ m_Focus = NoFocus
  /\ DirectExec(1)
  /\ m_Status' = "active"
  /\ backend' = "open"
  /\ IF conn = "broken" THEN SessionLost ELSE UNCHANGED sessVars
  /\ reconnected' = (reconnected \/ conn = "broken")
  /\ UNCHANGED <<focusVars, m_PendingError, execs, m_Vars, lastGet>>

\* exec(): do_exec() runs the statement through DirectExec with no
\* retries.  The server runs it in the backend transaction; an SQL error
\* fails that transaction (every later statement fails too).  Terminal
\* states, a pending error or an open focus make exec() throw first.
Exec ==
  /\ CanExec
  /\ execs < MaxExec
  /\ DirectExec(0)
  /\ execs' = execs + 1
  /\ \/ UNCHANGED backend
     \/ backend = "open" /\ backend' = "failed"
  /\ UNCHANGED <<m_Status, focusVars, m_PendingError, varVars>>

\* Mutant: set_variable() that caches the value before knowing whether the
\* SET succeeded.
SetVariableCachesFirst(v, x) ==
  /\ execs < MaxExec
  /\ DirectExec(0)
  /\ execs' = execs + 1
  /\ m_Vars' = (v :> x) @@ m_Vars
  /\ \/ backend = "open" /\ sessVal' = [sessVal EXCEPT ![v] = x] /\ UNCHANGED <<backend, sessBase>>
     \/ backend = "open" /\ backend' = "failed" /\ UNCHANGED sessVars
     \/ backend = "failed" /\ UNCHANGED <<backend, sessVars>>
     \/ /\ backend \notin Live
        /\ sessVal' = [sessVal EXCEPT ![v] = x] /\ sessBase' = [sessBase EXCEPT ![v] = x]
        /\ UNCHANGED backend
  /\ UNCHANGED <<m_Status, focusVars, m_PendingError, lastGet, reconnected>>

\* set_variable(Var, Val): issue SET on the connection, then record the
\* value in m_Vars.  Inside the backend transaction the server may reject
\* the SET (failing the transaction), or reject it because the transaction
\* already failed; the exception then skips the caching.  A SET accepted
\* inside the transaction lasts only as long as it; outside one (before
\* BEGIN or after the end) it changes the session for good.  Like
\* get_variable() it goes to the connection directly, checking neither
\* the status nor the focus slot.
SetVariable(v, x) ==
  /\ execs < MaxExec
  /\ DirectExec(0)
  /\ execs' = execs + 1
  /\ \/ /\ backend = "open"
        /\ sessVal' = [sessVal EXCEPT ![v] = x]
        /\ m_Vars' = (v :> x) @@ m_Vars
        /\ UNCHANGED <<backend, sessBase>>
     \/ backend = "open" /\ backend' = "failed" /\ UNCHANGED <<m_Vars, sessVars>>
     \/ backend = "failed" /\ UNCHANGED <<backend, m_Vars, sessVars>>
     \/ /\ backend \notin Live
        /\ sessVal' = [sessVal EXCEPT ![v] = x]
        /\ sessBase' = [sessBase EXCEPT ![v] = x]
        /\ m_Vars' = (v :> x) @@ m_Vars
        /\ UNCHANGED backend
  /\ UNCHANGED <<m_Status, focusVars, m_PendingError, lastGet, reconnected>>

\* get_variable(Var): the value cached by set_variable() if there is one,
\* without a round trip, in whatever state the transaction and its
\* connection are; otherwise the server is queried (a failed backend
\* transaction or a broken connection makes the query throw: no step).
GetVariable(v) ==
  /\ IF v \in DOMAIN m_Vars
       THEN /\ lastGet' = [var |-> v, val |-> m_Vars[v]]
            /\ UNCHANGED <<conn, backend, execs>>
       ELSE /\ execs < MaxExec
            /\ DirectExec(0)
            /\ execs' = execs + 1
            /\ backend # "failed"
            /\ lastGet' = [var |-> v, val |-> sessVal[v]]
            /\ UNCHANGED backend
  /\ UNCHANGED <<m_Status, focusVars, m_PendingError, m_Vars, sessVars, reconnected>>

\* Mutant: commit() that treats every lost connection as a failed commit.
CommitLossIsAbort ==
  /\ CanExec
  /\ \/ /\ conn = "open" /\ backend = "open"
        /\ backend' = "committed" /\ m_Status' = "committed" /\ UNCHANGED conn
        /\ CommitSession
     \/ /\ conn = "open"
        /\ backend' = "rolledback" /\ m_Status' = "aborted" /\ UNCHANGED conn
        /\ RollBack
     \/ /\ conn = "open" /\ backend = "open"
        /\ backend' = "committed" /\ conn' = "broken" /\ m_Status' = "aborted"
        /\ SessionLost
     \/ /\ conn' = "broken"
        /\ backend' = "rolledback" /\ m_Status' = "aborted"
        /\ SessionLost
  /\ UNCHANGED <<focusVars, m_PendingError, execs, m_Vars, lastGet, reconnected>>

\* commit() on an active transaction with no focus open.  The server
\* commits or rejects the COMMIT (it always rejects it for a failed backend
\* transaction); the connection may die before the COMMIT arrives, or after
\* the server committed and before its answer arrived.  Without an answer
\* the outcome is unknowable: in_doubt.
Commit ==
  /\ CanExec
  /\ \/ /\ conn = "open" /\ backend = "open"
        /\ backend' = "committed" /\ m_Status' = "committed" /\ UNCHANGED conn
        /\ CommitSession
     \/ /\ conn = "open"
        /\ backend' = "rolledback" /\ m_Status' = "aborted" /\ UNCHANGED conn
        /\ RollBack
     \/ /\ conn = "open" /\ backend = "open"
        /\ backend' = "committed" /\ conn' = "broken" /\ m_Status' = "in_doubt"
        /\ SessionLost
     \/ /\ conn' = "broken"
        /\ backend' = "rolledback" /\ m_Status' = "in_doubt"
        /\ SessionLost
  /\ UNCHANGED <<focusVars, m_PendingError, execs, m_Vars, lastGet, reconnected>>

\* abort(): from nascent no rollback is needed; from active ROLLBACK is
\* sent and any failure swallowed; a repeated abort, or one after in_doubt,
\* changes nothing; abort after commit is a usage error (no change).  The
\* m_Vars cache is left as it is.
Abort ==
  /\ m_Status \in {"nascent", "active"}
  /\ m_Status' = "aborted"
  /\ IF backend \in Live
       THEN backend' = "rolledback" /\ RollBack
       ELSE UNCHANGED <<backend, sessVars>>
  /\ UNCHANGED <<focusVars, m_PendingError, conn, execs, m_Vars, lastGet, reconnected>>

\* The connection dies; the server rolls back an open backend transaction
\* and the session ends.
ConnectionLoss ==
  /\ conn = "open"
  /\ conn' = "broken"
  /\ backend' = IF backend \in Live THEN "rolledback" ELSE backend
  /\ SessionLost
  /\ UNCHANGED <<m_Status, focusVars, m_PendingError, execs, m_Vars, lastGet, reconnected>>

-----------------------------------------------------------------------------
(* The focus registry                                                      *)

\* transactionfocus::register_me(): RegisterFocus() puts f in the unique<>
\* slot, throwing if any focus (f included) is already there; only when it
\* succeeds does f set m_registered.
RegisterMe(f) ==
  /\ m_Focus = NoFocus
  /\ m_Focus' = f
  /\ registered' = [registered EXCEPT ![f] = TRUE]
  /\ UNCHANGED <<m_Status, m_PendingError, conn, backend, execs, varVars>>

\* Mutant: an unregister that empties the slot whoever holds it.
UnregisterAnyone(f) ==
  /\ m_Focus' = NoFocus
  /\ registered' = [registered EXCEPT ![f] = FALSE]
  /\ UNCHANGED <<m_Status, m_PendingError, conn, backend, execs, varVars>>

\* transactionfocus::unregister_me() throw (): UnregisterFocus() empties the
\* slot only if f is the one in it (otherwise the unique<> error is caught
\* and reported as a notice); f then clears m_registered.
UnregisterMe(f) ==
  /\ m_Focus' = IF m_Focus = f THEN NoFocus ELSE m_Focus
  /\ registered' = [registered EXCEPT ![f] = FALSE]
  /\ UNCHANGED <<m_Status, m_PendingError, conn, backend, execs, varVars>>

\* transactionfocus::reg_pending_error() throw (): RegisterPendingError()
\* keeps the first error only.
RegPendingError(f) ==
  /\ ~m_PendingError
  /\ m_PendingError' = TRUE
  /\ UNCHANGED <<m_Status, focusVars, conn, backend, execs, varVars>>

Next ==
  \/ ThrowPending
  \/ Begin
  \/ Exec
  \/ \E v \in Vars, x \in Values : SetVariable(v, x)
  \/ \E v \in Vars : GetVariable(v)
  \/ Commit
  \/ Abort
  \/ ConnectionLoss
  \/ \E f \in Foci : RegisterMe(f) \/ UnregisterMe(f) \/ RegPendingError(f)

Spec == Init /\ [][Next]_vars

-----------------------------------------------------------------------------
(* Properties                                                              *)

\* The status commit() leaves never contradicts what the server did: a
\* transaction reported committed was committed by the server, and one
\* reported aborted was not.  When the connection dies around the COMMIT
\* the only honest report is in_doubt.
OutcomeMatchesBackend ==
  /\ m_Status = "committed" => backend = "committed"
  /\ m_Status = "aborted" => backend # "committed"

\* A focus believes it is registered exactly when it holds the
\* transaction's focus slot, whatever order foci register and unregister
\* in, including a focus unregistering that never got the slot.
FocusAgreement == \A f \in Foci : registered[f] <=> m_Focus = f

\* While the transaction is active on the session it began in, get_variable()
\* returns the value the variable has in that session at that moment,
\* whether it answers from the m_Vars cache or asks the server, after any
\* mix of successful, rejected and doomed set_variable() calls inside and
\* before the transaction: the cache never holds a value the server did
\* not take.
GetVariableCurrent ==
  [][(lastGet' # lastGet /\ m_Status' = "active" /\ conn' = "open" /\ ~reconnected')
       => lastGet'.val = sessVal'[lastGet'.var]]_vars

\* transaction_base.hxx 273-276: get_variable() returns the "currently
\* applicable value" of the variable, in any state of the transaction.
\* The header also says (263-267) that a value set in a transaction is
\* forgotten when it aborts and is not restored when the connection is
\* recovered, while the m_Vars cache it answers from is never cleared.
GetVariableApplicable ==
  [][lastGet' # lastGet => lastGet'.val = sessVal'[lastGet'.var]]_vars

=============================================================================
