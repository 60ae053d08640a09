SPECIFICATION FairEndpointSpec
CONSTANTS
  w1 = w1
  w2 = w2
  operator = operator
  NULL = NULL
  Workers <- TwoWorkers
  Senders <- MCSenders
  SenderOf <- OwnSenders
  OperatorSender = operator
  TargetTopics = {"sync"}
  TopicOf <- SameTopic
  SourceTopic = "update"
  Sequential = TRUE
  MaxRetries = 1
  IgnoreOlder = FALSE
  WorkerStatuses = {"finished"}
  OperatorStatuses = {}
  PatchRetries = {NULL}
  PostStatuses = {"finished"}
  CreatedAt = {1, 2}
  MayTie = FALSE
  CursorLimit = 2
  MayDelete = FALSE
  MayLose = TRUE
  MaxEvents = 4
  MaxSources = 2
  Keys <- MCKeys
  KeyOf <- OwnKeys
  MaxCrashes = 1
INVARIANTS
  EndpointTypeOK
  OneServicePerJob
  OneActiveJob
PROPERTIES
  FinishedStaysFinished
  EverySourceProcessed
CHECK_DEADLOCK FALSE
