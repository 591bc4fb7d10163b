SPECIFICATION Spec
CONSTANTS
  AccountOrder <- TwoAccounts
  Bot = "bot"
  Configs <- SomeConfigs
  Slow <- BotAndFirst
  MaxInterrupts = 2
CHECK_DEADLOCK FALSE
INVARIANT OthersUnaffected
