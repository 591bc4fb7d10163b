SPECIFICATION FairSpec
CONSTANTS
  AccountOrder <- TwoAccounts
  authorized_user_ids <- Whitelist
  Updates <- FewUpdates
  Nothing = Nothing
  MaxUpdates = 3
  MaxBatch = 2
  MaxStarts = 1
  MaxFailures = 1
CHECK_DEADLOCK FALSE
INVARIANTS
  TypeOK
  AtLeastOnce
  NewestDecides
PROPERTIES
  IsReplayedLog
  EventuallyExecuted
