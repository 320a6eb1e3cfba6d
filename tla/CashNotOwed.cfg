\* An unpaid rider is marked NTU.
CONSTANTS
  base = base
  r1 = r1
  r2 = r2
  Base = base
  Plans <- TwoPlans
  GrossPremium <- OnePremium
  MaxCash = 1
  InitialFacts <- StandardFacts
  InitialStatus = {"Active"}
  Decisions = {"Aps", "Standard", "Substandard", "Declined"}
  MarkTargets = {"NotTakenUp"}
SPECIFICATION SpecWithTable
PROPERTY CashAwaitedIsOwed
