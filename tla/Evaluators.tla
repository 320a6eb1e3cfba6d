----------------------------- MODULE Evaluators -----------------------------
(***************************************************************************)
(* The pure domain services of MOHProject.Domain/Services: what the plans  *)
(* of one policy, its underwriting (UW) fields and the facts underwriting  *)
(* does not change imply for the UW fields, the next substatus and the     *)
(* letter to issue.  Enum members keep their C# names.                     *)
(***************************************************************************)
CONSTANTS Plans,   \* the plan rows of the policy
          Base     \* the one row with IsBase = true

ASSUME BaseAssumption == Base \in Plans

Riders == Plans \ {Base}

PolicySubstatus ==
  { "PendingPpRequestFile", "PendingPpResponseFileCpfRejected",
    "PendingManualUnderwriting", "PendingUwAps",
    "ConditionalAcceptanceLetterGenerated", "PendingUwCloaAssessment",
    "PendingCashCollection", "PendingIpRequestFile",
    "PendingIpResponseFileCpfRejected", "PolicyIncepted" }

ProductStatus ==
  { "Draft", "Active", "NotTakenUp", "Postponed", "Declined", "Terminated",
    "Cancelled", "PendingTermination", "PendingCashRefund" }

RiskComposition == {"AllStandard", "ExclusionOnly", "HasRcmp"}
AcceptCloa      == {"Blank", "Yes"}
RcmpOption      == {"Blank", "Option1", "Option2"}

MainLetter  == {"Loa", "CloaExclusion", "CloaRcmp"}
NoticeType  == {"NtuWithoutRefund", "Decline", "Postponement"}
\* The members of LetterType some handler generates; no command asks for the
\* refund variants, and reminder letters are never sent by this code base.
LetterType  == MainLetter \cup NoticeType \cup {"MedicalEvidence"}
None        == "None"

UWState ==
  [ rcmpFlag : BOOLEAN, rcmpFlagEnabled : BOOLEAN,
    acceptCloa : AcceptCloa, acceptCloaEnabled : BOOLEAN,
    rcmpOption : RcmpOption, rcmpOptionEnabled : BOOLEAN,
    completeUw : BOOLEAN, currentComposition : RiskComposition ]

\* What a PolicyContext is built from: risk flags of the plans, whether both
\* insured and payer are foreign residents, whether TotalShortfall is positive,
\* and whether the policy is a renewal.
Facts ==
  [ loading : SUBSET Plans, exclusion : SUBSET Plans,
    frFr : BOOLEAN, shortfall : BOOLEAN, renewal : BOOLEAN ]
-----------------------------------------------------------------------------
\* PlansCompositionEvaluator.Evaluate over the Active plans.
Composition(active, facts) ==
  IF active \cap facts.loading \cap facts.exclusion # {} THEN "HasRcmp"
  ELSE IF active \cap facts.exclusion # {} THEN "ExclusionOnly"
  ELSE "AllStandard"

\* FR-AOR-060: a renewal whose base carries a loading is treated as RCMP.
\* The base plan's flag is read whatever the status of the base plan.
RenewalKeepsRcmp(facts) == facts.renewal /\ Base \in facts.loading

\* Mutant: an all-standard composition leaves the customer's answer standing.
UwFieldStatesKeepingAnswer(current, composition, facts) ==
  LET rcmp == composition = "HasRcmp" \/ RenewalKeepsRcmp(facts)
  IN  [ rcmpFlag |-> rcmp, rcmpFlagEnabled |-> rcmp,
        acceptCloa |-> current.acceptCloa, acceptCloaEnabled |-> rcmp,
        rcmpOption |-> IF rcmp THEN current.rcmpOption ELSE "Blank",
        rcmpOptionEnabled |-> rcmp, completeUw |-> TRUE,
        currentComposition |-> composition ]

\* UwFieldStatesEvaluator.Evaluate builds a fresh UWState: an RCMP composition
\* (or the renewal exception) keeps the customer's answers and opens every
\* field, exclusion-only keeps the CLOA answer alone, all-standard blanks all.
UwFieldStates(current, composition, facts) ==
  LET rcmp == composition = "HasRcmp" \/ RenewalKeepsRcmp(facts)
      cloa == composition = "ExclusionOnly"
  IN  [ rcmpFlag           |-> rcmp,
        rcmpFlagEnabled    |-> rcmp,
        acceptCloa         |-> IF rcmp \/ cloa THEN current.acceptCloa ELSE "Blank",
        acceptCloaEnabled  |-> rcmp \/ (cloa /\ current.acceptCloa = "Yes"),
        rcmpOption         |-> IF rcmp THEN current.rcmpOption ELSE "Blank",
        rcmpOptionEnabled  |-> rcmp,
        completeUw         |-> TRUE,
        currentComposition |-> composition ]

\* Mutant: outstanding cash is asked for before the terms are accepted.
NextSubstatusCashFirst(composition, uw, facts) ==
  IF facts.shortfall THEN "PendingCashCollection"
  ELSE IF composition # "AllStandard" /\ uw.acceptCloa # "Yes"
  THEN "ConditionalAcceptanceLetterGenerated"
  ELSE IF facts.frFr THEN "PolicyIncepted"
  ELSE "PendingIpRequestFile"

\* NextSubstatusEvaluator.Evaluate: acceptance first, then cash, then issue.
NextSubstatus(composition, uw, facts) ==
  IF composition # "AllStandard" /\ uw.acceptCloa # "Yes"
  THEN "ConditionalAcceptanceLetterGenerated"
  ELSE IF facts.shortfall THEN "PendingCashCollection"
  ELSE IF facts.frFr THEN "PolicyIncepted"
  ELSE "PendingIpRequestFile"

LetterGeneratingSubstatuses ==
  { "ConditionalAcceptanceLetterGenerated", "PendingUwCloaAssessment",
    "PendingCashCollection" }

MainLetterFor(composition) ==
  CASE composition = "AllStandard"   -> "Loa"
    [] composition = "ExclusionOnly" -> "CloaExclusion"
    [] composition = "HasRcmp"       -> "CloaRcmp"

\* LetterTypeEvaluator.Evaluate, given the substatus the policy is moving to.
LetterToGenerate(composition, next) ==
  IF next \in LetterGeneratingSubstatuses THEN MainLetterFor(composition) ELSE None

\* The customer has nothing left to accept, and the substatuses a policy
\* reaches after that, as in FR-AOR-032: an all-standard policy asks for no
\* answer, not even a renewal whose RCMP fields stay open (FR-AOR-060).
TermsAccepted(uw) ==
  uw.currentComposition = "AllStandard" \/ uw.acceptCloa = "Yes"

PastAcceptance ==
  { "PendingCashCollection", "PendingIpRequestFile",
    "PendingIpResponseFileCpfRejected", "PolicyIncepted" }

\* Mutant: a letter goes out only when the UW fields have changed.
EvaluateAfterActionOnChange(active, current, facts) ==
  LET composition == Composition(active, facts)
      uw   == UwFieldStates(current, composition, facts)
      next == NextSubstatus(composition, uw, facts)
  IN  [ uw |-> uw, substatus |-> next,
        letter |-> IF uw = current THEN None
                   ELSE LetterToGenerate(composition, next) ]

\* RemainingPlansEvaluator.EvaluateAfterAction: the four services in order.
\* Its caller must pass a non-empty set: the code throws on an empty one.
EvaluateAfterAction(active, current, facts) ==
  LET composition == Composition(active, facts)
      uw   == UwFieldStates(current, composition, facts)
      next == NextSubstatus(composition, uw, facts)
  IN  [ uw |-> uw, substatus |-> next,
        letter |-> LetterToGenerate(composition, next) ]

\* The private ShouldScheduleReminders of the three evaluating commands.
ShouldScheduleReminders(letter, uw, facts) ==
  \/ letter = "Loa" /\ facts.shortfall
  \/ letter \in {"CloaExclusion", "CloaRcmp"}
     /\ (facts.shortfall \/ uw.acceptCloa # "Yes")
=============================================================================
