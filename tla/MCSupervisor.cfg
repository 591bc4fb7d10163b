SPECIFICATION FairSpec
CONSTANTS
  AccountOrder <- TwoAccounts
  Bot = "bot"
  Configs <- SomeConfigs
  Slow <- BotAndFirst
  MaxInterrupts = 2
CHECK_DEADLOCK FALSE
INVARIANTS
  TypeOK
  StartsTheBuilt
  LocksAgree
  EndsOnlyOnRequest
  CleanExit
PROPERTIES
  Exits
  WatchesOn
