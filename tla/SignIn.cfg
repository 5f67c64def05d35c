\* Signing in on the web and on the desktop, and the desktop's cache.  Stopping is allowed:
\* pages, sign-ins and failures are bounded.
SPECIFICATION Spec
CONSTANTS
  Users = {u1, u2}
  Tabs = {t1, t2}
  MaxSignIns = 2
  MaxLoads = 3
  MaxFailures = 4
  None = None
  Docs = {d1}
  Pubs = {p1, p2}
  Terms = {w1}
  Schemas = {s1, s2}
  Absent = Absent
INVARIANTS
  TypeOK
  MemoryIsDurable
  StoreServes
PROPERTIES
  AnswersAreDurable
  DesktopAnswersHold
  StartKeepsSessions
  StoreKeeps
  AuthCommandsEnd
CHECK_DEADLOCK FALSE
