\* Two riders of different profiles: compositions that pass through each other.
CONSTANTS
  base = base
  r1 = r1
  r2 = r2
  Base = base
  Plans <- ThreePlans
  InitialFacts <- TwoRiderFacts
  InitialStatus = {"Active", "Draft"}
  Decisions = {"Aps", "Standard", "Substandard"}
  MarkTargets = {"NotTakenUp"}
SPECIFICATION Spec
INVARIANTS
  UwFieldsMatchPlans
  CurrentLetterCoversActive
PROPERTIES
  NoticesOmitEarlierCycles
  ExclusionAsksAgain
  CustomerIsReminded
  ImplementsSerialPolicy
