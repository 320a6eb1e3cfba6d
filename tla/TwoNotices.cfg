\* Two underwriters decline at the same time, the policy awaiting its IP file.
CONSTANTS
  base = base
  r1 = r1
  r2 = r2
  s1 = s1
  s2 = s2
  Base = base
  Plans <- ThreePlans
  Sessions <- TwoSlots
  InitialFacts <- ContendedFacts
  InitialPlans <- ContendedPlans
  InitialSubstatus = {"PendingManualUnderwriting", "PendingUwCloaAssessment", "PendingIpRequestFile"}
  Commands <- ContendedCommands
  MaxCommands = 2
SYMMETRY SlotSymmetry
SPECIFICATION Spec
CHECK_DEADLOCK FALSE
INVARIANT NoticesSuperseded
