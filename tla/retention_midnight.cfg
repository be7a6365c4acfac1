\* DELETE of the index of tomorrow, at midnight.
SPECIFICATION FairSpec
CONSTANTS
  Request = {"api"}
  RetentionDays = 1
  AdminDays = {1}
  Ticks = 2
  FirstDay = 2
  LastDay = 3
  MaxWrites = 1
  MaxErrors = 0
PROPERTY TodayProtected
CHECK_DEADLOCK FALSE
