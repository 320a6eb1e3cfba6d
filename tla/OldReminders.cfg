\* The exclusion rider is dropped while its CLOA is unanswered.
CONSTANTS
  base = base
  r1 = r1
  r2 = r2
  Base = base
  Plans <- TwoPlans
  InitialFacts <- ExclusionFacts
  InitialStatus = {"Active"}
  Decisions = {"Aps", "Standard", "Substandard", "Declined"}
  MarkTargets = {"NotTakenUp"}
SPECIFICATION Spec
INVARIANT NewLetterStopsOldReminders
