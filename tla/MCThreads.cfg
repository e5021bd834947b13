CONSTANTS
  MaxRequests = 2
  MaxWaiting = 1
  MaxReloads = 3
  MaxRejoins = 2
  s1 = s1
  n1 = n1
  n2 = n2
  Slots = {s1}
  Names = {n1, n2}
  MaxThreads = 2
  MaxNum = 1
  w1 = w1
  w2 = w2
  j1 = j1
  j2 = j2
  j3 = j3
  Workers = {w1, w2}
  PoolJobs = {j1, j2, j3}
  v4 = v4
  v6 = v6
  Protocols = {v6}
  MaxInfo = 1
  MaxFlight = 2
  MaxFaults = 2
  u1 = u1
  u2 = u2
  StunServers = {u1, u2}
  NoServer = NoServer
  MaxShift = 2
  Enough = 2
  Old = 2
  MaxAnswers = 1
  MaxFeeds = 2
SPECIFICATION Spec
INVARIANTS
  TypeOK
  SettledClientPlays
  TablesHaveOneRow
  JobsTakenInOrder
PROPERTIES
  NewMapComes
  QueriesEnd
  JobsDoneOrPoolGone
  RegistrationConverges
  CheckingEnds
CHECK_DEADLOCK FALSE
