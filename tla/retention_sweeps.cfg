\* The retention service beside one request at a time to the API.
SPECIFICATION FairSpec
CONSTANTS
  Request = {"api"}
  RetentionDays = 1
  AdminDays = {1, 2}
  Ticks = 2
  FirstDay = 2
  LastDay = 3
  MaxWrites = 1
  MaxErrors = 1
INVARIANT TypeOK
PROPERTIES
  WindowRespected
  EventuallyExpired
\* The clock stops on the last day, and the service may be stopped.
CHECK_DEADLOCK FALSE
