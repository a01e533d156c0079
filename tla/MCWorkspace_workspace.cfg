SPECIFICATION Spec
CONSTANTS
  Callers = {t1, t2}
  Role <- MCRole
  Requests <- MCRequests
  Keys = {"QUICK", "P"}
  Earlier <- MCEarlier
  MaxMeetings = 4
  PageSize = 1
  MaxTime = 2
  None = None
SYMMETRY Symmetry
CHECK_DEADLOCK FALSE
INVARIANTS
  TypeOK
  OneQuickMeeting
  ConsentAudited
  PagesComplete
