------------------------------ MODULE Pipeline ------------------------------
(***************************************************************************)
(* pqxx::pipeline (include/pqxx/pipeline.hxx): a throughput-optimised     *)
(* query manager over the single ordered connection of a transaction.     *)
(*                                                                         *)
(* The state is the class's members: m_queries (text of every query not   *)
(* yet handed back), m_waiting (inserted, not yet issued), m_sent (issued *)
(* as one batch, results not yet read), m_completed (results read, not    *)
(* yet retrieved), m_nextid and m_retain.  The connection collaborator is *)
(* the backend's FIFO: srvQueue holds the texts of the batch it is still  *)
(* executing, responses the results it has produced that the pipeline     *)
(* has not read.  The connection admits one batch at a time: a new batch  *)
(* may be issued only after every result of the previous one is read.    *)
(*                                                                         *)
(* The caller is one thread; retrieve(), complete() and flush() block it. *)
(* pc records which call it is blocked in; Await is one turn of the       *)
(* blocking loop (read the batch's results, issue what is waiting) and    *)
(* Return ends the call once its goal holds.                              *)
(***************************************************************************)
EXTENDS Naturals, Sequences, SequencesExt, FiniteSets, FiniteSetsExt, Functions

CONSTANTS
  Queries,      \* query texts the caller may insert
  BadQueries,   \* texts the backend rejects with an SQL error
  MaxQueries,   \* bound on insert() calls while m_nextid <= MaxQueries
  IdBits,       \* width of the unsigned query_id
  InTxnBlock,         \* the pipeline's transaction runs a backend
                      \* transaction block (work does; nontransaction not)
  Cancels             \* the caller calls cancel_query() between pipeline calls

ASSUME /\ BadQueries \subseteq Queries /\ MaxQueries \in Nat \ {0}
       /\ IdBits \in Nat \ {0}
       /\ {InTxnBlock, Cancels} \subseteq BOOLEAN

\* typedef unsigned query_id: arithmetic on it is modulo 2^IdBits.
IdSpace == 2 ^ IdBits

\* generate_id(): the id after id; an unsigned m_nextid wraps to 0.
generate_id(id) == (id + 1) % IdSpace

\* The ids MaxQueries inserts can hand out: 1 .. MaxQueries while
\* MaxQueries < IdSpace, and ids that have wrapped around otherwise.
Ids == {i % IdSpace : i \in 1 .. MaxQueries}

\* A result is tagged with the query it answers, so a result handed to the
\* wrong query id is visible.
Statuses == {"ok", "error", "canceled"}
Results == [query : Queries, status : Statuses]
Answer(q) == [query |-> q, status |-> IF q \in BadQueries THEN "error" ELSE "ok"]
Canceled(q) == [query |-> q, status |-> "canceled"]

\* What the caller's thread is doing: idle, or blocked in a call.
Ops == {"idle", "retrieve", "oldest", "complete", "flush"}
Idle == [op |-> "idle", id |-> 0]
NoOut == [id |-> 0, res |-> [query |-> CHOOSE q \in Queries : TRUE, status |-> "ok"],
          oldest |-> FALSE]

VARIABLES
  m_queries,    \* query_id -> text, for every query not yet retrieved
  m_waiting,    \* ids inserted but not yet issued, in insertion order
  m_sent,       \* ids of the batch issued to the backend, in issue order
  m_completed,  \* query_id -> result read from the backend, not yet retrieved
  m_nextid,     \* next query_id to hand out
  m_retain,     \* retain(): hold off issuing queries
  srvQueue,     \* texts of the issued batch the backend has not answered yet
  responses,    \* results the backend produced that the pipeline has not read
  srvFailed,    \* the backend transaction block has failed
  cancelReq,    \* a cancel request is travelling to the backend
  pc,           \* the call the caller's thread is blocked in
  delivered,    \* history: ids whose result was handed to the caller
  lastOut       \* history: the last result handed out, and whether by retrieve()

vars == <<m_queries, m_waiting, m_sent, m_completed, m_nextid, m_retain,
          srvQueue, responses, srvFailed, cancelReq, pc, delivered, lastOut>>
pipeVars == <<m_queries, m_waiting, m_sent, m_completed, m_nextid, m_retain>>
srvVars == <<srvQueue, responses, cancelReq, srvFailed>>

Init ==
  /\ m_queries = <<>>
  /\ m_waiting = <<>>
  /\ m_sent = <<>>
  /\ m_completed = <<>>
  /\ m_nextid = 1
  /\ m_retain = FALSE
  /\ srvQueue = <<>>
  /\ responses = <<>>
  /\ srvFailed = FALSE
  /\ cancelReq = FALSE
  /\ pc = Idle
  /\ delivered = {}
  /\ lastOut = NoOut

-----------------------------------------------------------------------------
(* Helpers                                                                 *)

Without(f, k) == Restrict(f, DOMAIN f \ {k})

\* send_waiting(): issue every waiting query as one combined command.  The
\* backend receives the texts in the order of m_waiting.
send_waiting(qs, w) ==
  /\ srvQueue' = srvQueue \o [i \in DOMAIN w |-> qs[w[i]]]
  /\ m_sent' = w
  /\ m_waiting' = <<>>

\* consumeresults(): read one result per entry of m_sent, in order, and file
\* each under the id at the same position.  Possible once the backend has
\* answered the whole batch (the read blocks until then).
consumeresults ==
  m_completed @@ [k \in ToSet(m_sent) |->
                    responses[CHOOSE i \in DOMAIN m_sent : m_sent[i] = k]]
\* The read blocks until the backend has sent one result per sent query.
BatchAnswered == srvQueue = <<>> /\ Len(responses) = Len(m_sent)

\* Mutant: deliver() that does not erase the query's text.
deliverKeepsQuery(id, oldest) ==
  /\ m_queries' = m_queries
  /\ m_completed' = Without(m_completed, id)
  /\ delivered' = delivered \cup {id}
  /\ lastOut' = [id |-> id, res |-> m_completed[id], oldest |-> oldest]

\* deliver(): remove the result from the pipeline and hand it to the caller
\* (an error result is thrown at this point, after removal).
deliver(id, oldest) ==
  /\ m_queries' = Without(m_queries, id)
  /\ m_completed' = Without(m_completed, id)
  /\ delivered' = delivered \cup {id}
  /\ lastOut' = [id |-> id, res |-> m_completed[id], oldest |-> oldest]

\* is_running(id): the query has been issued; is_finished(id): its result
\* is buffered; empty(): nothing is pending in any stage.
is_running(id) == id \in ToSet(m_sent)
is_finished(id) == id \in DOMAIN m_completed
empty == m_queries = <<>>

\* The condition on which the blocked call c can return.
Goal(c, completed) ==
  CASE c.op = "retrieve" -> c.id \in DOMAIN completed
    [] c.op = "oldest"   -> DOMAIN completed # {}
    [] c.op = "complete" -> m_waiting = <<>> /\ m_sent = <<>>
    [] c.op = "flush"    -> FALSE

-----------------------------------------------------------------------------
(* The caller's calls                                                      *)

\* Mutant: insert() that issues eagerly even while a batch is in flight.
InsertWhileBusy(q) ==
  /\ pc = Idle
  /\ m_nextid <= MaxQueries
  /\ LET id == m_nextid
         qs == (id :> q) @@ m_queries
         w  == Append(m_waiting, id)
     IN /\ m_queries' = qs
        /\ m_nextid' = generate_id(id)
        /\ IF ~m_retain
             THEN send_waiting(qs, w)
             ELSE /\ m_waiting' = w
                  /\ UNCHANGED <<m_sent, srvQueue>>
  /\ UNCHANGED <<m_completed, m_retain, responses, cancelReq, srvFailed, pc, delivered, lastOut>>

\* insert(): allocate an id and queue the query; issue it at once when not
\* retained and no batch is in flight (the first query goes out eagerly,
\* later ones accumulate while it runs).
Insert(q) ==
  /\ pc = Idle
  /\ m_nextid <= MaxQueries
  /\ LET id == m_nextid
         qs == (id :> q) @@ m_queries
         w  == Append(m_waiting, id)
     IN /\ m_queries' = qs
        /\ m_nextid' = generate_id(id)
        /\ IF ~m_retain /\ m_sent = <<>>
             THEN send_waiting(qs, w)
             ELSE /\ m_waiting' = w
                  /\ UNCHANGED <<m_sent, srvQueue>>
  /\ UNCHANGED <<m_completed, m_retain, responses, cancelReq, srvFailed, pc, delivered, lastOut>>

\* retain(): { m_retain = true; }
Retain ==
  /\ pc = Idle
  /\ m_retain' = TRUE
  /\ UNCHANGED <<m_queries, m_waiting, m_sent, m_completed, m_nextid>>
  /\ UNCHANGED <<srvVars, pc, delivered, lastOut>>

\* resume(): stop retaining and issue what is waiting if the connection is
\* free; otherwise it goes out once the batch in flight has been read.
Resume ==
  /\ pc = Idle
  /\ m_retain' = FALSE
  /\ IF m_sent = <<>> /\ m_waiting # <<>>
       THEN send_waiting(m_queries, m_waiting)
       ELSE UNCHANGED <<m_waiting, m_sent, srvQueue>>
  /\ UNCHANGED <<m_queries, m_completed, m_nextid, responses, cancelReq, srvFailed, pc, delivered, lastOut>>

\* Start a blocking call c: the caller blocks in it, and what is waiting is
\* issued at once if the connection is free (a request for results of
\* queries not yet issued resumes issuing even when retained).
Block(c) ==
  /\ pc' = c
  /\ IF m_sent = <<>> /\ m_waiting # <<>>
       THEN send_waiting(m_queries, m_waiting)
       ELSE UNCHANGED <<m_waiting, m_sent, srvQueue>>
  /\ UNCHANGED <<m_queries, m_completed, m_nextid, m_retain, responses, cancelReq, srvFailed, delivered, lastOut>>

\* retrieve(id): hand out the result if it is there; an id never inserted
\* or already retrieved is a usage error (no state change).
RetrieveId(id) ==
  /\ pc = Idle
  /\ id \in DOMAIN m_queries
  /\ IF id \in DOMAIN m_completed
       THEN /\ deliver(id, FALSE)
            /\ UNCHANGED <<m_waiting, m_sent, m_nextid, m_retain, srvVars, pc>>
       ELSE Block([op |-> "retrieve", id |-> id])

\* retrieve(): the oldest result not yet retrieved; an empty pipeline is a
\* usage error.
RetrieveOldest ==
  /\ pc = Idle
  /\ ~empty
  /\ IF m_completed # <<>>
       THEN /\ deliver(Min(DOMAIN m_completed), TRUE)
            /\ UNCHANGED <<m_waiting, m_sent, m_nextid, m_retain, srvVars, pc>>
       ELSE Block([op |-> "oldest", id |-> 0])

\* complete(): wait until every inserted query has its result buffered.
Complete ==
  /\ pc = Idle
  /\ ~Goal([op |-> "complete", id |-> 0], m_completed)
  /\ Block([op |-> "complete", id |-> 0])

\* flush(): forget all pending queries and buffered results.  Results of a
\* batch in flight are read and discarded first (FlushDrain), so that they
\* cannot be taken for the results of a later batch.
Forget ==
  /\ m_queries' = <<>>
  /\ m_waiting' = <<>>
  /\ m_sent' = <<>>
  /\ m_completed' = <<>>
  /\ responses' = <<>>

Flush ==
  /\ pc = Idle
  /\ IF m_sent = <<>>
       THEN /\ Forget
            /\ UNCHANGED pc
       ELSE /\ pc' = [op |-> "flush", id |-> 0]
            /\ UNCHANGED <<pipeVars, responses>>
  /\ UNCHANGED <<m_nextid, m_retain, srvQueue, cancelReq, srvFailed, delivered, lastOut>>

\* Mutant: a blocking loop that honours retain() even for queries whose
\* results the caller is waiting for.
AwaitHonoursRetain ==
  /\ pc # Idle
  /\ ~Goal(pc, m_completed)
  /\ pc.op # "flush"
  /\ IF m_sent = <<>>
       THEN /\ m_waiting # <<>> /\ ~m_retain
            /\ send_waiting(m_queries, m_waiting)
            /\ UNCHANGED <<m_completed, responses>>
       ELSE /\ BatchAnswered
            /\ m_completed' = consumeresults
            /\ responses' = <<>>
            /\ IF m_waiting # <<>> /\ ~m_retain
                 THEN send_waiting(m_queries, m_waiting)
                 ELSE /\ m_sent' = <<>>
                      /\ UNCHANGED <<m_waiting, srvQueue>>
  /\ UNCHANGED <<m_queries, m_nextid, m_retain, cancelReq, srvFailed, pc, delivered, lastOut>>

\* One turn of a blocked call's loop: read the results of the batch in
\* flight once the backend has answered it, then issue the waiting queries
\* if the call still needs them or nothing is retained.
Await ==
  /\ pc # Idle
  /\ ~Goal(pc, m_completed)
  /\ pc.op # "flush"
  /\ IF m_sent = <<>>
       THEN /\ m_waiting # <<>>
            /\ send_waiting(m_queries, m_waiting)
            /\ UNCHANGED <<m_completed, responses>>
       ELSE /\ BatchAnswered
            /\ m_completed' = consumeresults
            /\ responses' = <<>>
            /\ IF m_waiting # <<>> /\ (~m_retain \/ ~Goal(pc, m_completed'))
                 THEN send_waiting(m_queries, m_waiting)
                 ELSE /\ m_sent' = <<>>
                      /\ UNCHANGED <<m_waiting, srvQueue>>
  /\ UNCHANGED <<m_queries, m_nextid, m_retain, cancelReq, srvFailed, pc, delivered, lastOut>>

\* flush() reads and discards the results of the batch in flight once the
\* backend has answered it, then forgets everything and returns.
FlushDrain ==
  /\ pc.op = "flush"
  /\ BatchAnswered
  /\ Forget
  /\ pc' = Idle
  /\ UNCHANGED <<m_nextid, m_retain, srvQueue, cancelReq, srvFailed, delivered, lastOut>>

\* The blocked call returns once its goal holds.
Return ==
  /\ pc # Idle
  /\ pc.op # "flush"
  /\ Goal(pc, m_completed)
  /\ pc' = Idle
  /\ CASE pc.op = "retrieve" ->
            /\ deliver(pc.id, FALSE)
            /\ UNCHANGED <<m_waiting, m_sent, m_nextid, m_retain, srvVars>>
       [] pc.op = "oldest" ->
            /\ deliver(Min(DOMAIN m_completed), TRUE)
            /\ UNCHANGED <<m_waiting, m_sent, m_nextid, m_retain, srvVars>>
       [] pc.op = "complete" ->
            UNCHANGED <<pipeVars, srvVars, delivered, lastOut>>

-----------------------------------------------------------------------------
(* The connection collaborator                                             *)

\* test_cancel_query(): connection_base::cancel_query() called between
\* pipeline calls asks the backend to cancel what it runs.
CancelQuery ==
  /\ Cancels
  /\ pc = Idle
  /\ ~cancelReq
  /\ cancelReq' = TRUE
  /\ UNCHANGED <<pipeVars, srvQueue, responses, srvFailed, pc, delivered, lastOut>>

\* What is left of the batch after a statement that produced result r:
\* the backend skips the rest of a combined command after a statement in
\* it fails or is canceled.
RestOfBatch(r) == IF r.status # "ok" THEN <<>> ELSE Tail(srvQueue)

\* Inside a failed transaction block the backend rejects every statement
\* ("current transaction is aborted") until the block ends; outside one,
\* each statement stands alone.
Outcome(q) ==
  IF srvFailed THEN [query |-> q, status |-> "error"] ELSE Answer(q)

\* A statement that fails, or is canceled, fails the transaction block.
FailsBlock(r) == srvFailed' = (InTxnBlock /\ (srvFailed \/ r.status # "ok"))

\* The backend finishes the statement at the head of the batch.
ServerAnswer ==
  /\ srvQueue # <<>>
  /\ LET r == Outcome(Head(srvQueue))
     IN /\ responses' = Append(responses, r)
        /\ srvQueue' = RestOfBatch(r)
        /\ FailsBlock(r)
  /\ UNCHANGED <<pipeVars, cancelReq, pc, delivered, lastOut>>

\* The cancel request reaches the backend while it runs a statement (a
\* failed block rejects statements without running them).
ServerCancel ==
  /\ cancelReq
  /\ srvQueue # <<>>
  /\ ~srvFailed
  /\ LET r == Canceled(Head(srvQueue))
     IN /\ responses' = Append(responses, r)
        /\ srvQueue' = RestOfBatch(r)
        /\ FailsBlock(r)
  /\ cancelReq' = FALSE
  /\ UNCHANGED <<pipeVars, pc, delivered, lastOut>>

\* The cancel request reaches an idle backend and is ignored.
CancelIgnored ==
  /\ cancelReq
  /\ srvQueue = <<>>
  /\ cancelReq' = FALSE
  /\ UNCHANGED <<pipeVars, srvQueue, responses, srvFailed, pc, delivered, lastOut>>

Server == ServerAnswer \/ ServerCancel \/ CancelIgnored

Next ==
  \/ \E q \in Queries : Insert(q)
  \/ Retain
  \/ Resume
  \/ \E id \in Ids : RetrieveId(id)
  \/ RetrieveOldest
  \/ Complete
  \/ Flush
  \/ Await
  \/ FlushDrain
  \/ Return
  \/ CancelQuery
  \/ Server

\* The backend eventually answers what it was sent, and a blocked caller
\* keeps running its loop (it is blocked in a read, not descheduled).
Fairness ==
  /\ WF_vars(Server)
  /\ WF_vars(Await)
  /\ WF_vars(FlushDrain)
  /\ WF_vars(Return)

Spec == Init /\ [][Next]_vars /\ Fairness

-----------------------------------------------------------------------------
(* Properties                                                              *)

\* Every query not yet retrieved is in exactly one stage (waiting, sent,
\* completed), and the stages follow insertion order: every completed id is
\* older than every sent id, every sent id older than every waiting id, and
\* m_sent and m_waiting are in id order.  This is what lets retrieve() take
\* the smallest completed id as the oldest query, and consumeresults() file
\* the i-th result under the i-th sent id.  It can break only through a
\* sequence of inserts, retains, resumes and out-of-order retrieves.
StageOrder ==
  LET C == DOMAIN m_completed
      S == {id \in Ids : is_running(id)}
      W == ToSet(m_waiting)
      Ascending(s) == \A i, j \in DOMAIN s : i < j => s[i] < s[j]
  IN /\ DOMAIN m_queries = C \cup S \cup W
     /\ C \cap S = {} /\ C \cap W = {} /\ S \cap W = {}
     /\ Ascending(m_sent) /\ Ascending(m_waiting)
     /\ \A c \in C, s \in S \cup W : c < s
     /\ \A s \in S, w \in W : s < w

\* The pipeline implements PipelineAbstract: ids are never reused, each
\* id's result is handed out at most once and is the result of that id's
\* own query, and retrieve() hands out the oldest query not yet retrieved.
\* The mapping: pending <- m_queries, handedOut <- delivered,
\* out <- lastOut; batching, the wire and the blocking loop are stutters.
Abs == INSTANCE PipelineAbstract WITH
         pending <- m_queries, handedOut <- delivered, out <- lastOut
PipelineRefinement == Abs!AbsSpec

\* Every blocking call (retrieve(id), retrieve(), complete(), flush())
\* returns when no statement fails and none is canceled, whatever the
\* caller retained: a query it waits for is eventually issued, although
\* retain() holds it back, and every batch is read in full before the next
\* goes out.  (A failed statement makes the backend skip the rest of its
\* batch; the pipeline_batch_abort run shows the hang that follows.)
CallsReturn == \A o \in Ops \ {"idle"} : pc.op = o ~> pc.op = "idle"

\* Spec line 103: one query among many in a pipeline failing is isolated to
\* its query id and does not fail its siblings.  A result handed to the
\* caller is an error only when its own query is one the backend rejects.
FailuresIsolated ==
  lastOut.res.status = "error" => lastOut.res.query \in BadQueries

=============================================================================
