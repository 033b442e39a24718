SPECIFICATION FairSpec
CONSTANTS
  Workers = {w1, w2}
  Owner = owner
  Nobody = Nobody
  MaxCalls = 3
PROPERTY DestructorReturns
CHECK_DEADLOCK FALSE
