-------------------------- MODULE PipelineAbstract --------------------------
(***************************************************************************)
(* What pqxx::pipeline promises its caller, with batching, the wire and   *)
(* the blocking loop left out: every inserted query gets a fresh id; the  *)
(* caller can take each id's result at most once, and it is the result   *)
(* of that id's own query (its answer, or a cancellation); retrieve()     *)
(* hands out the oldest query not yet retrieved; flush() forgets every    *)
(* pending query.                                                         *)
(***************************************************************************)
EXTENDS Naturals, FiniteSets, FiniteSetsExt, Functions, TLC

CONSTANTS Queries, BadQueries, MaxQueries

Ids == 1 .. MaxQueries
Answer(q) == [query |-> q, status |-> IF q \in BadQueries THEN "error" ELSE "ok"]
Canceled(q) == [query |-> q, status |-> "canceled"]
NoOut == [id |-> 0, res |-> [query |-> CHOOSE q \in Queries : TRUE, status |-> "ok"],
          oldest |-> FALSE]

VARIABLES
  pending,    \* id -> text of every query inserted and not yet retrieved
  handedOut,  \* ids already retrieved
  out         \* the last result handed out

absVars == <<pending, handedOut, out>>

AbsInsert ==
  \E id \in Ids \ (DOMAIN pending \cup handedOut), q \in Queries :
    /\ pending' = (id :> q) @@ pending
    /\ UNCHANGED <<handedOut, out>>

AbsRetrieve ==
  \E id \in DOMAIN pending, oldest \in BOOLEAN :
    /\ oldest => id = Min(DOMAIN pending)
    /\ \E res \in {Answer(pending[id]), Canceled(pending[id])} :
         out' = [id |-> id, res |-> res, oldest |-> oldest]
    /\ pending' = Restrict(pending, DOMAIN pending \ {id})
    /\ handedOut' = handedOut \cup {id}

AbsFlush ==
  /\ pending' = <<>>
  /\ UNCHANGED <<handedOut, out>>

AbsNext == AbsInsert \/ AbsRetrieve \/ AbsFlush

AbsInit == pending = <<>> /\ handedOut = {} /\ out = NoOut

AbsSpec == AbsInit /\ [][AbsNext]_absVars

=============================================================================
