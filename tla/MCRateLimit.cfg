SPECIFICATION Spec
CONSTANTS
  p1 = p1
  Process = {p1}
  t1 = t1
  t2 = t2
  Thread = {t1, t2}
  ProcessOf <- MCProcessOf
  limit = 2
  window_seconds = 3
  MaxFailures = 3
INVARIANTS
  RateLimitTypeOK
  MemoryWindowHolds
PROPERTY
  KeyIsAdmittedAgain
