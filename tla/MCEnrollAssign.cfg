SPECIFICATION Spec
CONSTANTS
  w1 = w1
  w2 = w2
  operator = operator
  NULL = NULL
  Workers <- TwoWorkers
  Senders <- MCSenders
  SenderOf <- OwnSenders
  OperatorSender = operator
  TargetTopics <- MCTargetTopics
  TopicOf <- SameTopic
  SourceTopic = "update"
  Sequential = FALSE
  MaxRetries = 1
  IgnoreOlder = TRUE
  WorkerStatuses = {"in_progress", "finished"}
  OperatorStatuses = {"aborted"}
  PatchRetries = {NULL}
  PostStatuses = {"finished", "pending"}
  CreatedAt = {1}
  MayTie = TRUE
  CursorLimit = 2
  MayDelete = TRUE
  MayLose = TRUE
  MaxEvents = 4
  MaxSources = 2
SYMMETRY Symmetry
INVARIANTS
  TargetHasSource
  AtMostOneTarget
  OneServicePerJob
CHECK_DEADLOCK FALSE
