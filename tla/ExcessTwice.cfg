\* Two recalculations in a row over the same excess.
CONSTANTS
  base = base
  r1 = r1
  r2 = r2
  Base = base
  Plans <- ThreePlans
  GrossPremium <- SmallPremia
  Openings <- SmallOpenings
  Payments = {1, 2}
  MaxCash = 6
SPECIFICATION Spec
INVARIANT ExcessMovedOnce
