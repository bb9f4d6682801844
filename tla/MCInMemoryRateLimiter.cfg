CONSTANTS
  Callers = {alice, bob}
  Quota = 2
  Window = 2
  Second = 2
  MaxTime = 7
SPECIFICATION Spec
INVARIANTS
  TypeOK
  DequeIsRecentHistory
  QuotaPerWindow
  RetryAfterIsExact
PROPERTIES
  KeepsContract
