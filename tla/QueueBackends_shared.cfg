SPECIFICATION BackendSpec
CONSTANTS
  QueueNames = {"a", "b"}
  JobIds = {1, 2}
  Processes = {1, 2}
  UsedBy <- AnyQueue
  MaxRecords = 4
INVARIANT RecordsCurrent
CHECK_DEADLOCK FALSE
