--------------------------- MODULE YearConversion ---------------------------
(***************************************************************************)
(* The UpdateYears transactor of test026.cxx run by perform().  An attempt *)
(* reads every year of table "events", notes To4Digits of each non-null   *)
(* one in m_Conversions (a std::map, so ordered by key), then issues one  *)
(* UPDATE events SET year=new WHERE year=old per entry in key order and  *)
(* commits; OnCommit() then publishes m_Conversions.  A rejected year or  *)
(* a lost connection aborts the attempt (OnAbort) and perform() runs a    *)
(* fresh copy of the transactor again, up to MaxAttempts times; a         *)
(* connection lost during commit leaves the outcome in doubt, and perform *)
(* gives up.  Another client writes single rows, committing at once.      *)
(*                                                                         *)
(* The transaction runs at read_committed (transaction_base.hxx:109): each *)
(* statement sees the rows committed when it starts, plus its own writes. *)
(* table is the committed table; mine holds this attempt's uncommitted    *)
(* row versions, which also lock those rows against the other client.     *)
(***************************************************************************)
EXTENDS Integers, Sequences, SequencesExt, FiniteSets, FiniteSetsExt, TLC

CONSTANTS
  Rows,            \* row slots of table events
  Years,           \* years a row may hold
  ProbeYears,      \* years on which To4Digits is compared with its description
  Null,            \* a null year field (r[0].to(Y) returns false)
  Absent,          \* no row in this slot
  Rejected,        \* To4Digits threw runtime_error
  MaxAttempts,     \* attempts perform() makes
  MaxOtherWrites   \* bound on the other client's writes

ASSUME Years \cup ProbeYears \subseteq Int
ASSUME MaxAttempts \in Nat \ {0} /\ MaxOtherWrites \in Nat

\* Mutant: the 21st-century branch taken for 70 as well.
To4DigitsWindowOffByOne(Y) ==
  CASE Y < 0    -> Rejected
    [] Y <= 70  -> Y + 2000
    [] Y < 100  -> Y + 1900
    [] Y < 1970 -> Rejected
    [] OTHER    -> Y

\* To4Digits(Y): the century window of the program.
To4Digits(Y) ==
  CASE Y < 0    -> Rejected
    [] Y < 70   -> Y + 2000
    [] Y < 100  -> Y + 1900
    [] Y < 1970 -> Rejected
    [] OTHER    -> Y

\* The program's description of the conversion: a 2-digit year names the
\* year of 1970 .. 2069 with the same last two digits; a 4-digit year from
\* 1970 on stands; no other year is possible.
RefYear(y) ==
  IF y \in 0 .. 99 THEN CHOOSE z \in 1970 .. 2069 : z % 100 = y
  ELSE IF y >= 1970 THEN y ELSE Rejected

VARIABLES
  table,           \* committed contents of events: slot -> year, Null or Absent
  mine,            \* this attempt's uncommitted row versions
  before,          \* history: the table as this attempt's SELECT saw it
  touched,         \* history: slots the other client wrote since that SELECT
  m_Conversions,   \* UpdateYears::m_Conversions, old year -> new year
  todo,            \* keys of m_Conversions not yet written back, in key order
  phase,           \* "select", "update", "aborted", "committed", "in_doubt"
  attempt,         \* perform()'s attempt number
  otherWrites,     \* writes the other client made
  theConversions   \* the global map OnCommit() publishes

vars == <<table, mine, before, touched, m_Conversions, todo, phase, attempt,
          otherWrites, theConversions>>

Init ==
  /\ table \in [Rows -> Years \cup {Null, Absent}]
  /\ mine = <<>>
  /\ before = table
  /\ touched = {}
  /\ m_Conversions = <<>>
  /\ todo = <<>>
  /\ phase = "select"
  /\ attempt = 1
  /\ otherWrites = 0
  /\ theConversions = <<>>

\* The table as a statement of this attempt sees it.
View == [r \in Rows |-> IF r \in DOMAIN mine THEN mine[r] ELSE table[r]]

\* The years a SELECT result holds that r[0].to(Y) reads.
YearsIn(t) == {t[r] : r \in Rows} \ {Null, Absent}

\* operator(): SELECT year FROM events, then m_Conversions[Y] = To4Digits(Y)
\* for every non-null year.  A rejected year throws after the rows read
\* before it were noted, and the attempt aborts.
Select ==
  /\ phase = "select"
  /\ before' = table
  /\ touched' = {}
  /\ LET ys == YearsIn(table)
         good == {y \in ys : To4Digits(y) # Rejected}
     IN IF good = ys
          THEN /\ m_Conversions' = [y \in ys |-> To4Digits(y)] @@ m_Conversions
               /\ todo' = SetToSortSeq(DOMAIN m_Conversions', <)
               /\ phase' = "update"
          ELSE /\ \E noted \in SUBSET good :
                    m_Conversions' = [y \in noted |-> To4Digits(y)] @@ m_Conversions
               /\ phase' = "aborted"
               /\ UNCHANGED todo
  /\ UNCHANGED <<table, mine, attempt, otherWrites, theConversions>>

\* One iteration of the write-back loop:
\*   UPDATE events SET year=<new> WHERE year=<old>
Update ==
  /\ phase = "update"
  /\ todo # <<>>
  /\ LET k == Head(todo)
     IN mine' = [r \in {s \in Rows : View[s] = k} |-> m_Conversions[k]] @@ mine
  /\ todo' = Tail(todo)
  /\ UNCHANGED <<table, before, touched, m_Conversions, phase, attempt,
                 otherWrites, theConversions>>

\* The transaction's view with its writes made permanent.
Merged == View

\* Mutant: the write-back loop stops one entry short.
CommitSkipsLast ==
  /\ phase = "update"
  /\ Len(todo) <= 1
  /\ table' = Merged
  /\ theConversions' = m_Conversions
  /\ phase' = "committed"
  /\ UNCHANGED <<mine, before, touched, m_Conversions, todo, attempt, otherWrites>>

\* The body returned: the transaction commits and OnCommit() publishes
\* m_Conversions; or the connection is lost during the commit, the server
\* may or may not have committed, and perform() reports in_doubt_error
\* without calling OnCommit or retrying.
Commit ==
  /\ phase = "update"
  /\ todo = <<>>
  /\ \/ /\ table' = Merged
        /\ theConversions' = m_Conversions
        /\ phase' = "committed"
     \/ /\ table' \in {table, Merged}
        /\ phase' = "in_doubt"
        /\ UNCHANGED theConversions
  /\ UNCHANGED <<mine, before, touched, m_Conversions, todo, attempt, otherWrites>>

\* T.Exec() throws broken_connection: the attempt aborts and its writes
\* are rolled back.
LoseConnection ==
  /\ phase \in {"select", "update"}
  /\ phase' = "aborted"
  /\ mine' = <<>>
  /\ UNCHANGED <<table, before, touched, m_Conversions, todo, attempt,
                 otherWrites, theConversions>>

\* Mutant: the next attempt reuses the transactor with its m_Conversions.
RetryKeepsConversions ==
  /\ phase = "aborted"
  /\ attempt < MaxAttempts
  /\ attempt' = attempt + 1
  /\ phase' = "select"
  /\ mine' = <<>>
  /\ todo' = <<>>
  /\ UNCHANGED <<table, before, touched, m_Conversions, otherWrites, theConversions>>

\* Mutant: one attempt more than perform() allows.
RetryPastBound ==
  /\ phase = "aborted"
  /\ attempt <= MaxAttempts
  /\ attempt' = attempt + 1
  /\ phase' = "select"
  /\ mine' = <<>>
  /\ todo' = <<>>
  /\ m_Conversions' = <<>>
  /\ UNCHANGED <<table, before, touched, otherWrites, theConversions>>

\* OnAbort() has run; perform() retries with a fresh copy of the
\* transactor, so m_Conversions starts empty (test026.cxx 86-88).
Retry ==
  /\ phase = "aborted"
  /\ attempt < MaxAttempts
  /\ attempt' = attempt + 1
  /\ phase' = "select"
  /\ mine' = <<>>
  /\ todo' = <<>>
  /\ m_Conversions' = <<>>
  /\ UNCHANGED <<table, before, touched, otherWrites, theConversions>>

\* Another client inserts, changes, nulls or deletes one row and commits;
\* rows this attempt has updated are locked until it ends.
OtherWriter ==
  /\ phase \in {"select", "update", "aborted"}
  /\ otherWrites < MaxOtherWrites
  /\ \E r \in Rows \ DOMAIN mine, y \in Years \cup {Null, Absent} :
       /\ y # table[r]
       /\ table' = [table EXCEPT ![r] = y]
       /\ touched' = touched \cup {r}
  /\ otherWrites' = otherWrites + 1
  /\ UNCHANGED <<mine, before, m_Conversions, todo, phase, attempt, theConversions>>

Next == Select \/ Update \/ Commit \/ LoseConnection \/ Retry \/ OtherWriter

\* The program ends after a committed or in-doubt attempt, or when
\* perform() has used up its attempts.
Spec == Init /\ [][Next]_vars

-----------------------------------------------------------------------------
(* Properties                                                              *)

TypeOK ==
  /\ table \in [Rows -> Int \cup {Null, Absent}]
  /\ phase \in {"select", "update", "aborted", "committed", "in_doubt"}
  /\ attempt \in 1 .. MaxAttempts
  /\ todo \in Seq(Int)

\* To4Digits agrees with the program's own description of the conversion
\* (the header comment of test026) on every probed year, the window
\* boundaries 0, 69/70, 99/100 and 1969/1970 included, and every conversion
\* the transactor has noted is the one the description gives.
To4DigitsMatchesReference ==
  /\ \A y \in ProbeYears : To4Digits(y) = RefYear(y)
  /\ \A y \in DOMAIN m_Conversions : m_Conversions[y] = RefYear(y)

\* When perform() succeeds, every row the other client left alone since the
\* committed attempt's SELECT holds the conversion of the year it held then
\* (null rows and empty slots unchanged), although the UPDATEs ran one key
\* at a time over rows an earlier UPDATE may already have rewritten.
UpdatesMatchConversion ==
  phase = "committed" =>
    \A r \in Rows \ touched :
      table[r] = IF before[r] \in {Null, Absent} THEN before[r]
                 ELSE To4Digits(before[r])

\* The conversions main() reports are exactly those of the attempt that
\* committed, none left over from an aborted attempt whose years another
\* client has since changed (the comments at test026.cxx 86-88, 128-131).
ReportMatchesCommittedAttempt ==
  phase = "committed" =>
    theConversions = [y \in YearsIn(before) |-> To4Digits(y)]

\* The comment at test026.cxx 71-73: being in a transaction, the UPDATEs
\* are not affected by changes others make meanwhile; that is, they only
\* rewrite rows that held that year when the SELECT ran.
UpdatesSeeOnlySnapshot ==
  \A r \in DOMAIN mine : r \notin touched

=============================================================================
