SPECIFICATION FairSpec
CONSTANTS
  t1 = t1
  t2 = t2
  Posters <- MCPosters
  MaxTasks = 2
  ConnFds = {2, 3}
  MaxConns = 3
INVARIANTS TypeOK NoLostWakeup NoStaleEvent TasksInOrder
PROPERTIES TaskRuns StopOfRunningLoop
CHECK_DEADLOCK FALSE
