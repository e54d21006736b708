CONSTANTS
  Null = Null
  Absent = Absent
  Rejected = Rejected
  Rows <- MCRows
  Years <- MCYears
  ProbeYears <- MCProbeYears
  MaxAttempts = 2
  MaxOtherWrites = 1

SPECIFICATION Spec

\* perform() ends: committed, in doubt, or out of attempts.
CHECK_DEADLOCK FALSE

INVARIANTS
  TypeOK
  To4DigitsMatchesReference
  UpdatesMatchConversion
  ReportMatchesCommittedAttempt
