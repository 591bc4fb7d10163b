SPECIFICATION Spec
CONSTANTS
  MinutesPerDay = 4
  Symbols = {"EURUSD", "USDJPY"}
  NoTicket = NoTicket
  RuleSet <- SmallRuleSet
  Snapshots <- SmallSnapshots
  Midnight = 4
  DealTimes = {3, 4, 5}
  Legs <- SmallLegs
  Cycles <- SmallCycles
  Strict <- StrictRules
  Instants = {1, 2, 3, 4}
  MaxDeals = 4
  MaxCycles = 3
CHECK_DEADLOCK FALSE
INVARIANTS
  SessionIsClockwise
  CooldownIsTheRun
  TighterFlagsMore
  DayOfDeals
  SavesOfAnIncident
  WindowsAddUp
