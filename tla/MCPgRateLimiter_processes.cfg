CONSTANTS
  p1 = p1
  p2 = p2
  k1 = k1
  k2 = k2
  Callers = {http}
  Quota = 2
  Window = 2
  Second = 1
  MaxTime = 3
  Procs = {p1, p2}
  Calls = {k1, k2}
  TxnLimit = 2
  MaxFailures = 1
  MaxRestarts = 1
  Host <- TwoProcesses
SPECIFICATION FairSpec
INVARIANTS
  TypeOK
  RecordedWhileInWindow
  OvershootIsBounded
  BudgetIsBounded
PROPERTY
  EveryCallAnswered
