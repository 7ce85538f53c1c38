\* Four calls on one user, with a replica, a cache and a flight group; the
\* cache and the database may fail.
CONSTANTS
  o1 = o1  o2 = o2  o3 = o3  o4 = o4  p1 = p1  p2 = p2  u1 = u1  u2 = u2
  id1 = id1  alias1 = alias1  id2 = id2  junk = junk
  n1 = n1  n2 = n2  e1 = e1  e2 = e2
  Ops = {o1, o2, o3, o4}
  Instances = {p1, p2}
  InstanceOf <- MCInstanceOf
  Ids = {id1, alias1, id2, junk}
  UserOf <- MCUserOf
  NoUser = NoUser
  Users = {u1, u2}
  Names = {n1, n2}
  Emails = {e1, e2}
  NoRow = NoRow
  Replicated = TRUE
  InitialTables <- MCTables
  Calls <- MCRaces
  Absent = Absent  BadEmail = BadEmail  Miss = Miss  Failed = Failed  NoOp = NoOp
  WithCache = TRUE  WithFlight = TRUE
  Faults = {"cache", "db"}
SYMMETRY Perms
SPECIFICATION Spec
INVARIANTS TypeOK NoPhantomRows StaleOnlyByRace OneFetchPerId
\* Calls are finite: the model stops when all have returned.
CHECK_DEADLOCK FALSE
