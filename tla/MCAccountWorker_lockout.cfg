SPECIFICATION Spec
CONSTANTS
  MinutesPerDay = 6
  Symbols = {"EURUSD"}
  NoTicket = NoTicket
  Modes = {"hybrid"}
  Rules <- SmallRules
  StartBalance = 100
  Kinds <- NakedPosition
  Profits <- LossOrProfit
  SymbolInfo = {"EURUSD"}
  Refusing = {}
  Raising = {}
  MaxTickets = 3
  MaxTime = 3
  CooldownMinutes = 3
  LossTrigger = 1
CHECK_DEADLOCK FALSE
INVARIANTS
  LockoutHolds
