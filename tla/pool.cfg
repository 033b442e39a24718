SPECIFICATION FairSpec
CONSTANTS
  Workers = {w1, w2, w3}
  Owner = owner
  Nobody = Nobody
  MaxCalls = 3
INVARIANT TasksWakeWorkers
INVARIANT EachTaskOnce
INVARIANT PopFindsTask
INVARIANT DrainedWhenDestroyed
PROPERTY AcceptedIsFinished
PROPERTY DestructorReturnsOutsideWindow
CHECK_DEADLOCK FALSE
