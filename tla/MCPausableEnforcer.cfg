SPECIFICATION FairSpec
CONSTANTS
  Bot = "bot"
  Worker = "worker"
  Restarting = {"bot"}
  Faults = {"corrupt", "persist"}
  MaxResults = 2
  MaxClock = 4
  MaxCrashes = 2
CHECK_DEADLOCK FALSE
INVARIANTS
  StampIsHonest
  AckedStateSurvives
  CycleObeysAck
PROPERTIES
  AckReachesWorker
  
