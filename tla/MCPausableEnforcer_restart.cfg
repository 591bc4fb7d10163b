SPECIFICATION FairSpec
CONSTANTS
  Bot = "bot"
  Worker = "worker"
  Restarting = {"worker"}
  Faults = {}
  MaxResults = 1
  MaxClock = 3
  MaxCrashes = 1
CHECK_DEADLOCK FALSE
PROPERTIES
  AckReachesWorker
