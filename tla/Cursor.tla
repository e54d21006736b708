------------------------------ MODULE Cursor ------------------------------
(***************************************************************************)
(* pqxx::Cursor (libpqxx/src/cursor.cxx): a named SQL cursor declared in  *)
(* a transaction, read in strides of m_Count rows.  m_Done says the last  *)
(* stride read with operator>> came back empty.                           *)
(*                                                                         *)
(* The backend cursor is pos over a result of NRows rows: 0 is before the *)
(* first row, NRows + 1 after the last (PostgreSQL's FETCH and MOVE       *)
(* semantics).  A count is a row count, or the library's ALL() and        *)
(* BACKWARD_ALL() sentinels that OffsetString() turns into the keywords   *)
(* "ALL" and "BACKWARD ALL".                                              *)
(***************************************************************************)
EXTENDS Integers, Sequences

CONSTANTS
  NRows,          \* rows in the cursor's query result
  ALL,            \* Cursor::ALL(), the largest Result_size_type
  BACKWARD_ALL,   \* Cursor::BACKWARD_ALL()
  MaxStride       \* plain counts range over -MaxStride .. MaxStride

ASSUME /\ NRows \in Nat /\ MaxStride \in Nat
       /\ ALL > MaxStride /\ BACKWARD_ALL < -MaxStride

Counts == (-MaxStride .. MaxStride) \cup {ALL, BACKWARD_ALL}
Positions == 0 .. NRows + 1

VARIABLES
  pos,       \* backend cursor position
  m_Count,   \* stride used by operator>>
  m_Done,    \* last operator>> read nothing
  lastRows   \* rows the last FETCH returned, in order

vars == <<pos, m_Count, m_Done, lastRows>>

\* What the backend does with OffsetString(Count): the keywords move as far
\* as there are rows; a number moves that many rows, negative backwards.
Offset(c) ==
  CASE c = ALL          -> NRows + 1
    [] c = BACKWARD_ALL -> -(NRows + 1)
    [] OTHER            -> c

\* FETCH/MOVE of n rows from position p: the rows passed over, and where
\* the cursor ends (after the last row, or before the first, when it runs
\* off the end; on the last row read otherwise).
Rows(p, n) ==
  IF n > 0
    THEN [i \in 1 .. (IF p >= NRows THEN 0 ELSE (IF p + n > NRows THEN NRows ELSE p + n) - p)
           |-> p + i]
    ELSE [i \in 1 .. (IF p <= 1 THEN 0 ELSE p - (IF p + n < 1 THEN 1 ELSE p + n))
           |-> p - i]
NewPos(p, n) ==
  IF n > 0 THEN (IF p + n > NRows THEN NRows + 1 ELSE p + n)
           ELSE (IF p + n < 1 THEN 0 ELSE p + n)

\* Cursor::Cursor(): m_Count = Count, m_Done = false, then DECLARE.
Init ==
  /\ pos = 0
  /\ m_Count \in Counts
  /\ m_Done = FALSE
  /\ lastRows = <<>>

\* Mutant: SetCount storing one more than asked (an off-by-one stride).
SetCountOffByOne(c) ==
  /\ m_Done' = FALSE
  /\ m_Count' = c + 1
  /\ UNCHANGED <<pos, lastRows>>

\* Cursor::SetCount(Count): m_Done = false; m_Count = Count.
SetCount(c) ==
  /\ m_Done' = FALSE
  /\ m_Count' = c
  /\ UNCHANGED <<pos, lastRows>>

\* Cursor::Fetch(Count): a zero count yields an empty result without a
\* query and leaves m_Done alone; otherwise FETCH (MakeFetchCmd), then
\* m_Done = false.  The result is returned as lastRows.
FetchRows(c) ==
  IF c = 0
    THEN /\ lastRows' = <<>>
         /\ UNCHANGED pos
    ELSE /\ lastRows' = Rows(pos, Offset(c))
         /\ pos' = NewPos(pos, Offset(c))

Fetch(c) ==
  /\ FetchRows(c)
  /\ m_Done' = IF c = 0 THEN m_Done ELSE FALSE
  /\ UNCHANGED m_Count

\* Cursor::operator>>(R): R = Fetch(m_Count); m_Done = R.empty().
Read ==
  /\ FetchRows(m_Count)
  /\ m_Done' = (lastRows' = <<>>)
  /\ UNCHANGED m_Count

\* Mutant: Move that forgets to reset m_Done.
MoveKeepsDone(c) ==
  /\ c # 0
  /\ pos' = NewPos(pos, Offset(c))
  /\ UNCHANGED <<m_Count, m_Done, lastRows>>

\* Cursor::Move(Count): nothing for a zero count; else m_Done = false and
\* MOVE.
Move(c) ==
  /\ c # 0
  /\ m_Done' = FALSE
  /\ pos' = NewPos(pos, Offset(c))
  /\ UNCHANGED <<m_Count, lastRows>>

Next ==
  \/ \E c \in Counts : SetCount(c) \/ Fetch(c) \/ Move(c)
  \/ Read

Spec == Init /\ [][Next]_vars

-----------------------------------------------------------------------------
(* Properties                                                              *)

TypeOK ==
  /\ pos \in Positions
  /\ m_Count \in Counts
  /\ m_Done \in BOOLEAN
  /\ lastRows \in Seq(1 .. NRows)

\* When the cursor says it is done and its stride is not zero, reading on
\* with operator>> can yield nothing: it stands past the last row for a
\* forward stride, before the first for a backward one.  SetCount, Move
\* and Fetch all move the cursor or its direction, so each must forget
\* m_Done; a caller looping on done() would otherwise stop early or never.
DoneMeansExhausted ==
  m_Done /\ m_Count # 0 =>
    IF Offset(m_Count) > 0 THEN pos = NRows + 1 ELSE pos = 0

=============================================================================
