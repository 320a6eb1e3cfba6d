\* Two concurrent requests, three commands, two riders.
CONSTANTS
  base = base
  r1 = r1
  r2 = r2
  s1 = s1
  s2 = s2
  Base = base
  Plans <- ThreePlans
  Sessions <- TwoSlots
  InitialFacts <- ContendedFacts
  InitialPlans <- ContendedPlans
  InitialSubstatus = {"PendingManualUnderwriting", "PendingUwCloaAssessment", "PendingIpRequestFile"}
  Commands <- ContendedCommands
  MaxCommands = 3
SYMMETRY SlotSymmetry
SPECIFICATION Spec
CHECK_DEADLOCK FALSE
INVARIANTS
  TypeOK
  UwFieldsMatchPlans
  TermsAcceptedBeforeIssue
  CustomerIsReminded
  NoRemindersAwaitingAps
  CustomerLettersSuperseded
  CurrentLetterCoversActive
PROPERTIES
  AuditNamesOutcome
  NoticeNamesRider
  ExclusionAsksAgain
  Serializable
