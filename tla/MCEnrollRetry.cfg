SPECIFICATION FairSpec
CONSTANTS
  w1 = w1
  w2 = w2
  operator = operator
  NULL = NULL
  Workers <- TwoWorkers
  Senders <- MCSenders
  SenderOf <- OwnSenders
  OperatorSender = operator
  TargetTopics <- MCTargetTopics
  TopicOf <- SameTopic
  SourceTopic = "update"
  Sequential = FALSE
  MaxRetries = 0
  IgnoreOlder = FALSE
  WorkerStatuses = {"finished", "failed"}
  OperatorStatuses = {"restarted"}
  PatchRetries = {NULL, 3}
  PostStatuses = {"finished"}
  CreatedAt = {1}
  MayTie = TRUE
  CursorLimit = 1
  MayDelete = FALSE
  MayLose = FALSE
  MaxEvents = 4
  MaxSources = 2
INVARIANTS
  RetriesBounded
PROPERTIES
  EverySourceProcessed
CHECK_DEADLOCK FALSE
