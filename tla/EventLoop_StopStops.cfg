SPECIFICATION FairSpec
CONSTANTS
  t1 = t1
  t2 = t2
  Posters = {t1}
  MaxTasks = 1
  ConnFds = {2}
  MaxConns = 1
PROPERTY StopStops
CHECK_DEADLOCK FALSE
