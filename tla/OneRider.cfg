\* One rider of any status and profile, base and rider paid for apart and in any
\* order, also when nothing is due.
CONSTANTS
  base = base
  r1 = r1
  r2 = r2
  Base = base
  Plans <- TwoPlans
  GrossPremium <- OnePremium
  MaxCash = 1
  InitialFacts <- OneRiderFacts
  InitialStatus <- LiveStatuses
  Decisions = {"Aps", "Standard", "Substandard", "Declined", "NotTakenUp"}
  MarkTargets = {"NotTakenUp", "Declined"}
SPECIFICATION SpecWithTable
INVARIANTS
  TypeOK
  TermsAcceptedBeforeIssue
  NoRemindersAwaitingAps
  LettersSuperseded
  EvaluatorIdempotent
PROPERTIES
  NoticeNamesRider
  OnlyManualRoutingUnaudited
  PaidBeforeIssue
  ImplementsAdditionOfRider
