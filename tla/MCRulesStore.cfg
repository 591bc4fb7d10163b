SPECIFICATION FairSpec
CONSTANTS
  risk = risk
  trades = trades
  v1 = v1
  v2 = v2
  bad = bad
  Unset = Unset
  Fields <- SmallFields
  ValidValues <- TwoValues
  Baselines <- OneBaseline
  Edits <- SomeEdits
  InvalidValues <- OneBadValue
  Setters <- SmallSetters
  Bot = "bot"
  Worker = "worker"
  Faults = {"delete", "persist"}
  MaxClock = 3
  MaxCrashes = 1
CHECK_DEADLOCK FALSE
INVARIANTS
  TypeOK
  RulesAreMerged
  StampsAreHonest
  IndInv
  AckedIsDurable
  EffectiveByNextCycle
  AuditTrail
PROPERTIES
  WritesAreSparse
  WorkerCatchesUp
