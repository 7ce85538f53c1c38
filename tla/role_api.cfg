\* Three requests by either transport, under every authentication mode, with and
\* without a replica; the database may fail.
CONSTANTS
  o1 = o1  o2 = o2  o3 = o3  s1 = s1  s2 = s2  n1 = n1  n2 = n2
  Ops = {o1, o2, o3}
  Seeds = {s1, s2}
  Junk = Junk
  Names = {n1, n2}
  Empty = Empty  Long = Long
  Times = {2, 3}
  Calls <- MCCalls
  InitialRoles <- MCRoles
  Configs = {"unconfigured", "on"}
  Topologies = {TRUE, FALSE}
  MaxInt = 511
  MaxWire = 5
  Faults = {"db", "ambiguous", "panic"}
SYMMETRY Perms
SPECIFICATION Spec
INVARIANTS TypeOK AnswersTellTheTruth ConflictsAreReal OnlyAuthenticatedWrites PagesPartitionTheTable
\* Requests are finite: the model stops when all are answered.
CHECK_DEADLOCK FALSE
