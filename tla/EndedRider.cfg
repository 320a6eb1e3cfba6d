\* A terminated rider is marked NTU and re-added.
CONSTANTS
  base = base
  r1 = r1
  r2 = r2
  Base = base
  Plans <- TwoPlans
  InitialFacts <- ExclusionFacts
  InitialStatus = {"Active", "Terminated"}
  Decisions = {"Aps", "Standard", "Substandard", "Declined"}
  MarkTargets = {"NotTakenUp"}
SPECIFICATION SpecEnds
INVARIANT EndedRidersStayEnded
