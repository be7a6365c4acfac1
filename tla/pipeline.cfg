\* Two workers with two requests, or another client with two; one fault.
SPECIFICATION MCSpec
CONSTANTS
  Text <- MCText
  Stamp = {1, 2}
  DayLen = 2
  Worker = {"w1", "w2"}
  Flag <- MCFlag
  Request = {1, 2, 3, 4}
  ClientRequest = {3, 4}
  Payload <- MCPayload
  Partition = {0, 1}
  Faults = {"timeout", "unacked", "refused", "sigterm", "redelivery", "throttle", "dlq", "cancel"}
  MaxFaults = 1
  Size = {0, 5}
  DefaultSize = 1
  MaxSize = 2
  ResultWindow = 2
INVARIANTS
  TypeOK
  JobsAccounted
  GeneratedAccepted
  SuccessIsStored
  GracefulStop
  OnlyRefusedDeadLettered
  OneDocument
  PagingComplete
PROPERTIES
  EventuallyFinished
  AcceptedSearchable
CHECK_DEADLOCK FALSE
