SPECIFICATION FairSpec
CONSTANTS
  MinutesPerDay = 2
  Symbols = {"EURUSD"}
  NoTicket = NoTicket
  Modes = {"passive", "hybrid"}
  Rules <- SmallRules
  StartBalance = 100
  Kinds <- NakedPosition
  Profits <- LossOnly
  SymbolInfo = {"EURUSD"}
  Refusing = {}
  Raising = {3}
  MaxTickets = 3
  MaxTime = 1
  CooldownMinutes = 2
  LossTrigger = 1
CHECK_DEADLOCK FALSE
INVARIANTS
  TypeOK
  CooldownEnforced
  AlertsAll
PROPERTIES
  ClosesOnlyForCause
  EventuallyFlat
