SPECIFICATION FairSpec
CONSTANTS
  Worker = {w1, w2, w3}
  Client = {c1, c2}
  MaxTasks = 4
INVARIANTS EachTaskOnce NoLostWakeup DrainedWhenDestroyed
PROPERTIES TasksRun DestructorReturns
CHECK_DEADLOCK FALSE
