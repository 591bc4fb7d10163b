SPECIFICATION FairSpec
CONSTANTS
  MinutesPerDay = 3
  Symbols = {"EURUSD"}
  NoTicket = NoTicket
  Modes = {"hybrid"}
  Rules <- SmallRules
  StartBalance = 100
  Kinds <- NakedPosition
  Profits <- LossOrProfit
  SymbolInfo = {"EURUSD"}
  Refusing = {1}
  Raising = {}
  MaxTickets = 2
  MaxTime = 1
  CooldownMinutes = 2
  LossTrigger = 1
CHECK_DEADLOCK FALSE
PROPERTIES
  EventuallyFlat
