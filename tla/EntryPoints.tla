---------------------------- MODULE EntryPoints ----------------------------
(***************************************************************************)
(* The entry-point handlers of MOHProject.Domain/Services/EntryPoints and  *)
(* the registry that routes a UW decision to the handler of the policy's   *)
(* substatus.  A directive says which UW fields the evaluator starts from, *)
(* which decision letter goes out first, and whether the next substatus is *)
(* fixed (override) or left to the evaluator.  The IP-record and           *)
(* skip-recalculation flags only reach the audit payload and are left out. *)
(***************************************************************************)
EXTENDS Evaluators

UwDecisions ==
  {"Aps", "Standard", "Substandard", "Declined", "Postponed", "NotTakenUp"}
AdverseDecisions == {"Declined", "Postponed", "NotTakenUp"}

\* Mutant: NTU is reported by the refund variant nothing asks for.
DecisionLetterForWithRefund(decision) ==
  CASE decision = "NotTakenUp" -> "NtuWithRefund"
    [] decision = "Declined"   -> "Decline"
    [] decision = "Postponed"  -> "Postponement"

\* The letter that reports an adverse decision, for a UW decision and for a
\* rider status alike (the two enums share the three names).
DecisionLetterFor(decision) ==
  CASE decision = "NotTakenUp" -> "NtuWithoutRefund"
    [] decision = "Declined"   -> "Decline"
    [] decision = "Postponed"  -> "Postponement"

ClearAcceptCloa(uw)  == [uw EXCEPT !.acceptCloa = "Blank"]
ClearBothAnswers(uw) == [uw EXCEPT !.acceptCloa = "Blank", !.rcmpOption = "Blank"]

Defer(uw, letter)          == [override |-> None, uw |-> uw, letter |-> letter]
Override(next, uw, letter) == [override |-> next, uw |-> uw, letter |-> letter]
AwaitAps(uw)               == Override("PendingUwAps", uw, "MedicalEvidence")
-----------------------------------------------------------------------------
CondAcceptLetterGenHandler(uw, d) ==
  CASE d = "Aps"              -> AwaitAps(uw)
    [] d = "Standard"         -> Defer(uw, None)
    [] d = "Substandard"      -> Defer(ClearAcceptCloa(uw), None)
    [] d \in AdverseDecisions -> Defer(uw, DecisionLetterFor(d))

PendingUwCloaAssessmentHandler(uw, d) ==
  CASE d = "Aps"                         -> AwaitAps(uw)
    [] d \in {"Standard", "Substandard"} -> Defer(uw, None)
    [] d \in AdverseDecisions            -> Defer(uw, DecisionLetterFor(d))

PendingCashCollectionHandler(uw, d) ==
  CASE d = "Aps"              -> AwaitAps(uw)
    [] d = "Standard"         -> Defer(uw, None)
    [] d = "Substandard"      -> Defer(ClearBothAnswers(uw), None)
    [] d \in AdverseDecisions -> Defer(uw, DecisionLetterFor(d))

PendingIpRequestFileHandler(uw, d) ==
  CASE d = "Aps"              -> AwaitAps(uw)
    [] d = "Standard"         -> Defer(uw, None)
    [] d = "Substandard"      -> Defer(ClearBothAnswers(uw), None)
    [] d \in AdverseDecisions ->
         Override("PendingIpRequestFile", uw, DecisionLetterFor(d))

PendingIpResponseCpfRejectedHandler(uw, d) ==
  CASE d = "Aps"              -> AwaitAps(uw)
    [] d = "Standard"         -> Defer(uw, None)
    [] d = "Substandard"      -> Defer(ClearBothAnswers(uw), None)
    [] d \in AdverseDecisions ->
         Override("PendingIpResponseFileCpfRejected", uw, DecisionLetterFor(d))

\* Both payment-plan handlers reject every decision but NTU.
PendingPpHandler(uw) == Defer(uw, DecisionLetterFor("NotTakenUp"))
-----------------------------------------------------------------------------
NtuOnlyEntries == {"PendingPpRequestFile", "PendingPpResponseFileCpfRejected"}

FullEntries ==
  { "ConditionalAcceptanceLetterGenerated", "PendingUwCloaAssessment",
    "PendingCashCollection", "PendingIpRequestFile",
    "PendingIpResponseFileCpfRejected" }

\* EntryPointHandlerRegistry.ResolveFor and Handle both return normally;
\* otherwise they throw and the command rolls back.
Routable(entry, d) ==
  \/ entry \in FullEntries
  \/ entry \in NtuOnlyEntries /\ d = "NotTakenUp"

\* The directive of a routable decision.
Handle(entry, uw, d) ==
  CASE entry = "ConditionalAcceptanceLetterGenerated" -> CondAcceptLetterGenHandler(uw, d)
    [] entry = "PendingUwCloaAssessment" -> PendingUwCloaAssessmentHandler(uw, d)
    [] entry = "PendingCashCollection"   -> PendingCashCollectionHandler(uw, d)
    [] entry = "PendingIpRequestFile"    -> PendingIpRequestFileHandler(uw, d)
    [] entry = "PendingIpResponseFileCpfRejected" ->
         PendingIpResponseCpfRejectedHandler(uw, d)
    [] entry \in NtuOnlyEntries          -> PendingPpHandler(uw)
=============================================================================
