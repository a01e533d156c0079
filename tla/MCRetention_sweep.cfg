SPECIFICATION FairSpec
CONSTANTS
  m1 = m1
  m2 = m2
  None = None
  NoRequest = NoRequest
  Meetings = {m1, m2}
  Sweepers = {s1, s2}
  Users = {u1, u2}
  Expires <- TwoExpiries
  Recovery = 2
  Batch = 1
  MaxTime = 3
INVARIANTS
  TypeOK
  PurgedOnlyWhenDue
  OneReceiptPerMeeting
  AuditExact
  WaitsOnlyForStaleSweep
PROPERTIES
  DueIsPurged
