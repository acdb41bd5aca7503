SPECIFICATION ScopeSpec
CONSTANTS
  t1 = t1
  t2 = t2
  c1 = c1
  c2 = c2
  Tasks <- MCTasks
  Connections <- MCConnections
  MaxId = 2
  MaxJobs = 4
INVARIANTS
  NeverAnError
CHECK_DEADLOCK FALSE
