CONSTANTS
  Path <- MCPath
  Time = {1, 2}
  WalkRank <- MCWalkRank
  ByteRank <- MCWalkRank
  None = None
  CallbackMayFail = TRUE
SPECIFICATION FairSpec
INVARIANTS ReportExact
PROPERTIES Terminates
CHECK_DEADLOCK FALSE
