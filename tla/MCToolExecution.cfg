CONSTANTS
  Calls = {k1, k2, k3}
  Conns = {d1, d2}
  Tools = {"record_trace", "update_working_context"}
  Courses <- MCCourses
  Required <- MCRequired
  Permissions = {0, 2}
  Prompt = TRUE
  MaxOutages = 1
SPECIFICATION FairSpec
INVARIANTS
  TypeOK
  PoolIsSound
  BlockedOnlyWhenExhausted
PROPERTIES
  ResultMeansComplete
  EveryCallAnswered
