--------------------------- MODULE Services_proofs ---------------------------
(***************************************************************************)
(* Lemmas about the domain services: what the evaluators and the entry-    *)
(* point handlers return, for every set of plans and every input.          *)
(***************************************************************************)
EXTENDS EntryPoints, Letters, TLAPS

(***************************************************************************)
(* The evaluator.                                                          *)
(***************************************************************************)
\* The result of UwFieldStatesEvaluator is a UWState that records the
\* composition it was given.
LEMMA UwFieldStatesType ==
  ASSUME NEW current, current.acceptCloa \in AcceptCloa,
         current.rcmpOption \in RcmpOption,
         NEW composition \in RiskComposition, NEW f \in Facts
  PROVE  /\ UwFieldStates(current, composition, f) \in UWState
         /\ UwFieldStates(current, composition, f).currentComposition = composition
  BY DEF UwFieldStates, UWState, AcceptCloa, RcmpOption, RenewalKeepsRcmp

\* PlansCompositionEvaluator returns a member of the enum on any set of plans.
LEMMA CompositionType ==
  ASSUME NEW active, NEW f
  PROVE  Composition(active, f) \in RiskComposition
  BY DEF Composition, RiskComposition

\* What EvaluateAfterAction guarantees to the command that calls it.
LEMMA EvaluatorResult ==
  ASSUME NEW active, NEW current \in UWState, NEW f \in Facts,
         NEW e, e = EvaluateAfterAction(active, current, f)
  PROVE  /\ e.uw \in UWState
         /\ e.uw.currentComposition = Composition(active, f)
         /\ e.substatus \in PolicySubstatus
         /\ e.substatus # "PendingUwAps"
         /\ e.letter \in MainLetter \cup {None}
         /\ e.substatus \in LetterGeneratingSubstatuses
              => e.letter = MainLetterFor(Composition(active, f))
  <1> DEFINE c == Composition(active, f)
             u == UwFieldStates(current, c, f)
  <1>1. c \in RiskComposition
    BY CompositionType
  <1>2. u \in UWState /\ u.currentComposition = c
    <2>1. current.acceptCloa \in AcceptCloa /\ current.rcmpOption \in RcmpOption
      BY DEF UWState
    <2> QED
      BY <1>1, <2>1, UwFieldStatesType
  <1>3. e.uw = u /\ e.substatus = NextSubstatus(c, u, f)
        /\ e.letter = LetterToGenerate(c, NextSubstatus(c, u, f))
    BY DEF EvaluateAfterAction
  <1> HIDE DEF c, u
  <1>4. NextSubstatus(c, u, f) \in PolicySubstatus \ {"PendingUwAps"}
    BY DEF NextSubstatus, PolicySubstatus
  <1>5. MainLetterFor(c) \in MainLetter
    BY <1>1 DEF MainLetterFor, MainLetter, RiskComposition
  <1> QED
    BY <1>2, <1>3, <1>4, <1>5 DEF LetterToGenerate, c

\* NextSubstatusEvaluator asks for acceptance before anything else.
LEMMA EvaluatorGate ==
  ASSUME NEW active, NEW current \in UWState, NEW f \in Facts,
         NEW e, e = EvaluateAfterAction(active, current, f)
  PROVE  e.substatus \in PastAcceptance => TermsAccepted(e.uw)
  <1> DEFINE c == Composition(active, f)
             u == UwFieldStates(current, c, f)
  <1>1. u.currentComposition = c
    BY DEF UwFieldStates
  <1>2. e.uw = u /\ e.substatus = NextSubstatus(c, u, f)
    BY DEF EvaluateAfterAction
  <1> HIDE DEF c, u
  <1> QED
    BY <1>1, <1>2 DEF NextSubstatus, PastAcceptance, TermsAccepted

\* Whatever answer the evaluator starts from, an all-standard result waits for
\* no acceptance and keeps no answer, and an unanswered policy with something
\* to accept goes to acceptance.
LEMMA EvaluatorAnswer ==
  ASSUME NEW active, NEW current \in UWState, NEW f \in Facts,
         NEW e, e = EvaluateAfterAction(active, current, f)
  PROVE  /\ e.uw.currentComposition = "AllStandard" =>
              /\ e.substatus # "ConditionalAcceptanceLetterGenerated"
              /\ e.uw.acceptCloa = "Blank" \/ RenewalKeepsRcmp(f)
         /\ e.uw.currentComposition # "AllStandard" /\ current.acceptCloa = "Blank"
              => e.substatus = "ConditionalAcceptanceLetterGenerated"
  <1> DEFINE composition == Composition(active, f)
             fields == UwFieldStates(current, composition, f)
  <1>1. composition \in RiskComposition
    BY CompositionType
  <1>2. /\ fields.currentComposition = composition
        /\ composition = "AllStandard" =>
             fields.acceptCloa = "Blank" \/ RenewalKeepsRcmp(f)
        /\ current.acceptCloa = "Blank" => fields.acceptCloa = "Blank"
    BY <1>1 DEF UwFieldStates, RiskComposition, RenewalKeepsRcmp
  <1>3. e.uw = fields /\ e.substatus = NextSubstatus(composition, fields, f)
    BY DEF EvaluateAfterAction
  <1> HIDE DEF composition, fields
  <1> QED
    BY <1>2, <1>3 DEF NextSubstatus

\* The evaluator never asks for an answer or a payment without having the
\* reminders of the letter scheduled that asks for it.
LEMMA EvaluatorReminds ==
  ASSUME NEW active, NEW current \in UWState, NEW f \in Facts,
         NEW e, e = EvaluateAfterAction(active, current, f),
         e.substatus \in LetterGeneratingSubstatuses
  PROVE  ShouldScheduleReminders(e.letter, e.uw, f)
  <1> DEFINE c == Composition(active, f)
             u == UwFieldStates(current, c, f)
  <1>1. c \in RiskComposition
    BY CompositionType
  <1>2. e.uw = u /\ e.substatus = NextSubstatus(c, u, f) /\ e.letter = MainLetterFor(c)
    BY DEF EvaluateAfterAction, LetterToGenerate
  <1> HIDE DEF c, u
  <1>3. f.shortfall \/ (c # "AllStandard" /\ u.acceptCloa # "Yes")
    BY <1>2 DEF NextSubstatus, LetterGeneratingSubstatuses
  <1>4. \/ c = "AllStandard" /\ e.letter = "Loa"
        \/ c # "AllStandard" /\ e.letter \in {"CloaExclusion", "CloaRcmp"}
    BY <1>1, <1>2 DEF RiskComposition, MainLetterFor
  <1> QED
    BY <1>2, <1>3, <1>4 DEF ShouldScheduleReminders

(***************************************************************************)
(* The directives.                                                         *)
(***************************************************************************)
\* A directive either leaves the substatus to the evaluator, or sets APS, or
\* keeps the entry substatus and the UW fields as they are.
LEMMA DirectiveResult ==
  ASSUME NEW entry \in PolicySubstatus, NEW fields \in UWState, NEW d \in UwDecisions,
         Routable(entry, d),
         NEW h, h = Handle(entry, fields, d)
  PROVE  /\ h.uw \in UWState
         /\ h.letter \in NoticeType \cup {"MedicalEvidence", None}
         /\ \/ h.override = None
            \/ h.override = "PendingUwAps" /\ h.uw = fields /\ d = "Aps"
            \/ /\ h.override = entry /\ h.uw = fields
               /\ entry \in {"PendingIpRequestFile", "PendingIpResponseFileCpfRejected"}
         /\ fields.acceptCloa = "Blank" => h.uw.acceptCloa = "Blank"
  <1>1. /\ ClearAcceptCloa(fields) \in UWState /\ ClearBothAnswers(fields) \in UWState
        /\ ClearAcceptCloa(fields).acceptCloa = "Blank"
        /\ ClearBothAnswers(fields).acceptCloa = "Blank"
    BY DEF ClearAcceptCloa, ClearBothAnswers, UWState, AcceptCloa, RcmpOption
  <1>2. d \in AdverseDecisions => DecisionLetterFor(d) \in NoticeType
    BY DEF AdverseDecisions, DecisionLetterFor, NoticeType
  <1>3. DecisionLetterFor("NotTakenUp") \in NoticeType
    BY DEF DecisionLetterFor, NoticeType
  <1>4. entry \in FullEntries \/ entry \in NtuOnlyEntries
    BY DEF Routable
  <1>5. d = "Aps" \/ d = "Standard" \/ d = "Substandard" \/ d \in AdverseDecisions
    BY DEF UwDecisions, AdverseDecisions
  <1>6. CASE entry = "ConditionalAcceptanceLetterGenerated"
    <2>1. h = CondAcceptLetterGenHandler(fields, d)
      BY <1>6 DEF Handle, NtuOnlyEntries
    <2> QED
      BY <2>1, <1>1, <1>2, <1>5
      DEF CondAcceptLetterGenHandler, AwaitAps, Override, Defer, AdverseDecisions, None
  <1>7. CASE entry = "PendingUwCloaAssessment"
    <2>1. h = PendingUwCloaAssessmentHandler(fields, d)
      BY <1>7 DEF Handle, NtuOnlyEntries
    <2> QED
      BY <2>1, <1>2, <1>5
      DEF PendingUwCloaAssessmentHandler, AwaitAps, Override, Defer, AdverseDecisions, None
  <1>8. CASE entry = "PendingCashCollection"
    <2>1. h = PendingCashCollectionHandler(fields, d)
      BY <1>8 DEF Handle, NtuOnlyEntries
    <2> QED
      BY <2>1, <1>1, <1>2, <1>5
      DEF PendingCashCollectionHandler, AwaitAps, Override, Defer, AdverseDecisions, None
  <1>9. CASE entry = "PendingIpRequestFile"
    <2>1. h = PendingIpRequestFileHandler(fields, d)
      BY <1>9 DEF Handle, NtuOnlyEntries
    <2> QED
      BY <2>1, <1>1, <1>2, <1>5, <1>9
      DEF PendingIpRequestFileHandler, AwaitAps, Override, Defer, AdverseDecisions, None
  <1>10. CASE entry = "PendingIpResponseFileCpfRejected"
    <2>1. h = PendingIpResponseCpfRejectedHandler(fields, d)
      BY <1>10 DEF Handle, NtuOnlyEntries
    <2> QED
      BY <2>1, <1>1, <1>2, <1>5, <1>10
      DEF PendingIpResponseCpfRejectedHandler, AwaitAps, Override, Defer, AdverseDecisions, None
  <1>11. CASE entry \in NtuOnlyEntries
    <2>1. h = PendingPpHandler(fields)
      BY <1>11 DEF Handle, NtuOnlyEntries
    <2> QED
      BY <2>1, <1>3 DEF PendingPpHandler, Defer
  <1> QED
    BY <1>4, <1>6, <1>7, <1>8, <1>9, <1>10, <1>11 DEF FullEntries

(***************************************************************************)
(* Letters.                                                                *)
(***************************************************************************)
\* Main letters and decision letters are different members of LetterType.
LEMMA LetterTypes ==
  /\ MainLetter \subseteq LetterType
  /\ NoticeType \cup {"MedicalEvidence"} \subseteq LetterType
  /\ \A t \in MainLetter : t # None /\ t \notin NoticeType
  BY DEF MainLetter, NoticeType, LetterType, None
=============================================================================
