----------------------- MODULE AdditionOfRider_proofs -----------------------
(***************************************************************************)
(* Safety of AdditionOfRider for every set of plans, every collection of   *)
(* initial policies and every choice of enabled decisions.                 *)
(***************************************************************************)
EXTENDS AdditionOfRider, Services_proofs

(***************************************************************************)
(* Letters and reminders, for any set ls of letter rows.                   *)
(***************************************************************************)
SupersededIn(ls) ==
  /\ \A l \in ls : l.scheduled => l.current
  /\ \A l, m \in ls : l.current /\ m.current /\ l.type = m.type => l = m

\* Decision letters of ls that were not among the rows old list no rider of an
\* earlier cycle.
OmitEarlierIn(old, ls, earlier) ==
  \A l \in ls : l.current /\ l.type \in NoticeType =>
    \/ l.plans \cap earlier = {}
    \/ \E m \in old : m.current /\ m.type = l.type /\ m.plans = l.plans

\* GenerateAsync: the new letter is the only current one of its type, letters
\* of other types are as before, and both letter invariants are kept.
LEMMA GenerateResult ==
  ASSUME NEW ls, ls \subseteq Letter, NEW type \in LetterType,
         NEW st, NEW earlier, NEW remind \in BOOLEAN,
         NEW g, g = Generate(ls, type, st, earlier, remind), NEW old
  PROVE  /\ g \subseteq Letter
         /\ \A l \in g : l.current /\ l.type = type
                        => l.plans = IncludedPlans(type, st, earlier)
         /\ SupersededIn(ls) => SupersededIn(g)
         /\ OmitEarlierIn(old, ls, earlier) => OmitEarlierIn(old, g, earlier)
  <1> DEFINE new == [ type |-> type, current |-> TRUE,
                      plans |-> IncludedPlans(type, st, earlier), scheduled |-> remind ]
             kept == Supersede(ls, type)
  <1>1. IncludedPlans(type, st, earlier) \subseteq Plans
    BY DEF IncludedPlans, Active
  <1>2. new \in Letter
    BY <1>1 DEF Letter
  <1>4. \A l \in kept : l \in ls /\ ~(l.type = type /\ l.current)
    <2>1. TAKE l \in kept
    <2>2. /\ l.current \/ l.scheduled
          /\ \E m \in ls : l = IF m.type = type /\ m.current
                             THEN [m EXCEPT !.current = FALSE, !.scheduled = FALSE] ELSE m
      BY DEF Supersede, Live
    <2>3. PICK m \in ls : l = IF m.type = type /\ m.current
                              THEN [m EXCEPT !.current = FALSE, !.scheduled = FALSE] ELSE m
      BY <2>2
    <2>4. m \in Letter
      OBVIOUS
    <2>5. CASE m.type = type /\ m.current
      <3>1. ~l.current /\ ~l.scheduled
        BY <2>3, <2>4, <2>5 DEF Letter
      <3> QED
        BY <2>2, <3>1
    <2> QED
      BY <2>3, <2>5
  <1>5. g = kept \cup {new}
    BY DEF Generate
  <1>6. /\ new.type = type /\ new.current /\ new.scheduled = remind
        /\ new.plans = IncludedPlans(type, st, earlier)
    OBVIOUS
  <1>7. type \in NoticeType => IncludedPlans(type, st, earlier) \cap earlier = {}
    BY DEF IncludedPlans, NoticeType
  <1> HIDE DEF new, kept
  <1>8. g \subseteq Letter
    BY <1>2, <1>4, <1>5
  <1>9. \A l \in g : l.current /\ l.type = type
                        => l.plans = IncludedPlans(type, st, earlier)
    BY <1>4, <1>5, <1>6
  <1>10. SupersededIn(ls) => SupersededIn(g)
    BY <1>4, <1>5, <1>6 DEF SupersededIn
  <1>11. OmitEarlierIn(old, ls, earlier) => OmitEarlierIn(old, g, earlier)
    BY <1>4, <1>5, <1>6, <1>7 DEF OmitEarlierIn
  <1> QED
    BY <1>8, <1>9, <1>10, <1>11

\* GenerateAsync adds its letter and leaves current letters of other types.
LEMMA GenerateKeeps ==
  ASSUME NEW ls, ls \subseteq Letter, NEW type \in LetterType,
         NEW st, NEW earlier, NEW remind \in BOOLEAN
  PROVE  /\ [ type |-> type, current |-> TRUE,
              plans |-> IncludedPlans(type, st, earlier), scheduled |-> remind ]
              \in Generate(ls, type, st, earlier, remind)
         /\ \A l \in ls : l.current /\ l.type # type
                         => l \in Generate(ls, type, st, earlier, remind)
  <1>1. \A l \in ls : l.current /\ l.type # type => l \in Supersede(ls, type)
    BY DEF Supersede, Live
  <1> QED
    BY <1>1 DEF Generate

\* CancelAllForPolicyAsync leaves no reminder scheduled.
LEMMA CancelAllResult ==
  ASSUME NEW ls, ls \subseteq Letter, NEW earlier, NEW old
  PROVE  /\ CancelAllForPolicy(ls) \subseteq Letter
         /\ \A l \in CancelAllForPolicy(ls) : ~l.scheduled
         /\ SupersededIn(ls) => SupersededIn(CancelAllForPolicy(ls))
         /\ OmitEarlierIn(old, ls, earlier) => OmitEarlierIn(old, CancelAllForPolicy(ls), earlier)
  <1> DEFINE g == CancelAllForPolicy(ls)
  <1>1. \A m \in g : /\ m.current /\ ~m.scheduled
                     /\ \E l \in ls : m = [l EXCEPT !.scheduled = FALSE]
    BY DEF CancelAllForPolicy, Live, Letter
  <1>2. \A m \in g : /\ m \in Letter /\ m.current /\ ~m.scheduled
                     /\ \E l \in ls : /\ l.current /\ l.type = m.type
                                     /\ l.plans = m.plans
                                     /\ m = [l EXCEPT !.scheduled = FALSE]
    <2>1. TAKE m \in g
    <2>2. PICK l \in ls : m = [l EXCEPT !.scheduled = FALSE]
      BY <1>1
    <2>3. l \in Letter
      OBVIOUS
    <2>4. m \in Letter /\ m.current = l.current /\ m.type = l.type /\ m.plans = l.plans
      BY <2>2, <2>3 DEF Letter
    <2> QED
      BY <1>1, <2>2, <2>4
  <1> HIDE DEF g
  <1>3. SupersededIn(ls) => SupersededIn(g)
    BY <1>2 DEF SupersededIn
  <1>4. OmitEarlierIn(old, ls, earlier) => OmitEarlierIn(old, g, earlier)
    BY <1>2 DEF OmitEarlierIn
  <1> QED
    BY <1>2, <1>3, <1>4 DEF g

\* The decision letter of a command, if any.
LEMMA DecisionLetterResult ==
  ASSUME NEW ls, ls \subseteq Letter, NEW type \in LetterType \cup {None},
         NEW st, NEW earlier, NEW old
  PROVE  /\ DecisionLetterStep(ls, type, st, earlier) \subseteq Letter
         /\ SupersededIn(ls) => SupersededIn(DecisionLetterStep(ls, type, st, earlier))
         /\ OmitEarlierIn(old, ls, earlier)
              => OmitEarlierIn(old, DecisionLetterStep(ls, type, st, earlier), earlier)
  <1>1. CASE type = None
    BY <1>1 DEF DecisionLetterStep
  <1>2. CASE type # None
    <2>1. DecisionLetterStep(ls, type, st, earlier) = Generate(ls, type, st, earlier, FALSE)
      BY <1>2 DEF DecisionLetterStep
    <2> QED
      BY <2>1, <1>2, GenerateResult
  <1> QED
    BY <1>1, <1>2

(***************************************************************************)
(* The inductive invariant: the type invariant and the five safety         *)
(* invariants of the commands that the model checker checks.               *)
(***************************************************************************)
Safety ==
  /\ UwFieldsMatchPlans
  /\ TermsAcceptedBeforeIssue
  /\ NoRemindersAwaitingAps
  /\ LettersSuperseded
  /\ CurrentLetterCoversActive

IInv == TypeOK /\ Safety

\* The letter invariant as a statement about a set of rows, for the rows in
\* the middle of a command; before the command no row is new.
LEMMA LetterInvariants ==
  /\ LettersSuperseded <=> SupersededIn(letters)
  /\ \A earlier : OmitEarlierIn(letters, letters, earlier)
  BY DEF LettersSuperseded, SupersededIn, OmitEarlierIn

\* The tail of the evaluating commands, for whatever plans st, UW fields and
\* letters the command hands to it.
LEMMA ReassessResult ==
  ASSUME facts \in Facts, NEW st, NEW earlier, NEW current \in UWState,
         NEW ls, ls \subseteq Letter, SupersededIn(ls),
         NEW old, OmitEarlierIn(old, ls, earlier),
         Reassess(st, earlier, current, ls)
  PROVE  /\ substatus' \in PolicySubstatus
         /\ substatus' # "PendingUwAps"
         /\ audited' = substatus'
         /\ uw' \in UWState
         /\ uw'.currentComposition = Composition(Active(st), facts)
         /\ substatus' \in PastAcceptance => TermsAccepted(uw')
         /\ letters' \subseteq Letter
         /\ SupersededIn(letters')
         /\ OmitEarlierIn(old, letters', earlier)
         /\ substatus' \in LetterGeneratingSubstatuses =>
              \A l \in letters' :
                l.current /\ l.type = MainLetterFor(uw'.currentComposition)
                  => l.plans = Active(st)
  <1> DEFINE e == EvaluateAfterAction(Active(st), current, facts)
             remind == ShouldScheduleReminders(e.letter, e.uw, facts)
             sent == MainLetterStep(ls, e, st, earlier)
  <1>1. /\ substatus' = e.substatus
        /\ uw' = e.uw
        /\ letters' = IF e.substatus = "PendingUwAps" THEN CancelAllForPolicy(sent) ELSE sent
        /\ audited' = e.substatus
    BY DEF Reassess
  <1>2. /\ e.uw \in UWState
        /\ e.uw.currentComposition = Composition(Active(st), facts)
        /\ e.substatus \in PolicySubstatus
        /\ e.substatus # "PendingUwAps"
        /\ e.substatus \in PastAcceptance => TermsAccepted(e.uw)
        /\ e.letter \in MainLetter \cup {None}
        /\ e.substatus \in LetterGeneratingSubstatuses
             => e.letter = MainLetterFor(Composition(Active(st), facts))
    BY EvaluatorResult, EvaluatorGate
  <1>3. remind \in BOOLEAN
    BY DEF ShouldScheduleReminders
  <1>4. sent = IF e.letter = None THEN ls ELSE Generate(ls, e.letter, st, earlier, remind)
    BY DEF MainLetterStep
  <1>5. e.letter \in MainLetter =>
          IncludedPlans(e.letter, st, earlier) = Active(st)
    BY DEF IncludedPlans, MainLetter
  <1>6. MainLetterFor(Composition(Active(st), facts)) \in MainLetter
    BY CompositionType DEF MainLetterFor, MainLetter, RiskComposition
  <1> HIDE DEF e, remind, sent
  <1>7. /\ sent \subseteq Letter /\ SupersededIn(sent) /\ OmitEarlierIn(old, sent, earlier)
        /\ e.letter # None => \A l \in sent : l.current /\ l.type = e.letter
                                              => l.plans = Active(st)
    <2>1. CASE e.letter = None
      BY <1>4, <2>1
    <2>2. CASE e.letter # None
      <3>1. e.letter \in LetterType
        BY <1>2, <2>2, LetterTypes
      <3>2. sent = Generate(ls, e.letter, st, earlier, remind)
        BY <1>4, <2>2
      <3> QED
        BY <1>2, <1>3, <1>5, <2>2, <3>1, <3>2, GenerateResult
    <2> QED
      BY <2>1, <2>2
  <1>8. letters' = sent
    BY <1>1, <1>2
  <1> QED
    BY <1>1, <1>2, <1>6, <1>7, <1>8, LetterTypes

\* A command whose letters and plans are sound re-establishes the whole
\* invariant when it ends with the shared tail.
LEMMA ReassessStep ==
  ASSUME IInv, NEW st \in [Plans -> ProductStatus],
         NEW earlier, earlier \subseteq earlierCycle, NEW current \in UWState,
         NEW ls, ls \subseteq Letter, SupersededIn(ls),
         OmitEarlierIn(letters, ls, earlier),
         Reassess(st, earlier, current, ls),
         status' = st, earlierCycle' = earlier, facts' = facts
  PROVE  IInv' /\ OmitEarlierIn(letters, letters', earlierCycle')
  <1>1. facts \in Facts /\ earlierCycle \subseteq Plans
    BY DEF IInv, TypeOK
  <1>2. /\ substatus' \in PolicySubstatus
        /\ substatus' # "PendingUwAps"
        /\ audited' = substatus'
        /\ uw' \in UWState
        /\ uw'.currentComposition = Composition(Active(st), facts)
        /\ substatus' \in PastAcceptance => TermsAccepted(uw')
        /\ letters' \subseteq Letter
        /\ SupersededIn(letters')
        /\ OmitEarlierIn(letters, letters', earlier)
        /\ substatus' \in LetterGeneratingSubstatuses =>
             \A l \in letters' :
               l.current /\ l.type = MainLetterFor(uw'.currentComposition)
                 => l.plans = Active(st)
    BY <1>1, ReassessResult
  <1>3. TypeOK'
    BY <1>1, <1>2 DEF TypeOK
  <1>4. UwFieldsMatchPlans' /\ TermsAcceptedBeforeIssue' /\ NoRemindersAwaitingAps'
    BY <1>2 DEF UwFieldsMatchPlans, TermsAcceptedBeforeIssue, NoRemindersAwaitingAps
  <1>5. LettersSuperseded' /\ OmitEarlierIn(letters, letters', earlierCycle')
    BY <1>2 DEF LettersSuperseded, SupersededIn
  <1>6. CurrentLetterCoversActive'
    BY <1>2 DEF CurrentLetterCoversActive
  <1> QED
    BY <1>3, <1>4, <1>5, <1>6 DEF IInv, Safety

(***************************************************************************)
(* One lemma per command.                                                  *)
(***************************************************************************)
\* A UW decision keeps the invariant, deferred to the evaluator or overridden.
LEMMA UwDecisionStep ==
  ASSUME IInv, NEW d \in Decisions, UwDecision(d)
  PROVE  IInv' /\ OmitEarlierIn(letters, letters', earlierCycle')
  <1> DEFINE h == Handle(substatus, uw, d)
             ls == DecisionLetterStep(letters, h.letter, status, earlierCycle)
  <1>1. d \in UwDecisions /\ Routable(substatus, d)
    BY InputAssumption DEF UwDecision
  <1>2. /\ h.uw \in UWState
        /\ h.letter \in NoticeType \cup {"MedicalEvidence", None}
        /\ \/ h.override = None
           \/ h.override = "PendingUwAps" /\ h.uw = uw
           \/ /\ h.override = substatus /\ h.uw = uw
              /\ substatus \in {"PendingIpRequestFile", "PendingIpResponseFileCpfRejected"}
    BY <1>1, DirectiveResult DEF IInv, TypeOK
  <1>3. /\ SupersededIn(letters) /\ OmitEarlierIn(letters, letters, earlierCycle)
        /\ letters \subseteq Letter
    BY LetterInvariants DEF IInv, Safety, TypeOK
  <1>4. ls \subseteq Letter /\ SupersededIn(ls) /\ OmitEarlierIn(letters, ls, earlierCycle)
    <2>1. h.letter \in LetterType \cup {None}
      BY <1>2, LetterTypes
    <2> QED
      BY <1>3, <2>1, DecisionLetterResult
  <1>5. UNCHANGED <<facts, status, earlierCycle>>
    BY DEF UwDecision
  <1>6. \/ Reassess(status, earlierCycle, h.uw, ls)
        \/ /\ h.override # None /\ substatus' = h.override /\ uw' = h.uw
           /\ audited' = h.override
           /\ letters' = IF h.override = "PendingUwAps" THEN CancelAllForPolicy(ls) ELSE ls
    BY DEF UwDecision
  <1> HIDE DEF h, ls
  <1>7. CASE Reassess(status, earlierCycle, h.uw, ls)
    <2>1. status \in [Plans -> ProductStatus]
      BY DEF IInv, TypeOK
    <2> QED
      BY <1>2, <1>4, <1>5, <1>7, <2>1, ReassessStep
  <1>8. CASE /\ h.override = "PendingUwAps" /\ h.uw = uw /\ substatus' = h.override
             /\ uw' = h.uw /\ audited' = h.override
             /\ letters' = CancelAllForPolicy(ls)
    <2>1. /\ letters' \subseteq Letter /\ SupersededIn(letters')
          /\ OmitEarlierIn(letters, letters', earlierCycle)
          /\ \A l \in letters' : ~l.scheduled
      BY <1>4, <1>8, CancelAllResult
    <2>2. substatus' = "PendingUwAps" /\ audited' = "PendingUwAps" /\ uw' = uw
      BY <1>8
    <2>3. TypeOK'
      BY <1>5, <2>1, <2>2 DEF IInv, TypeOK, PolicySubstatus
    <2>4. /\ UwFieldsMatchPlans' /\ TermsAcceptedBeforeIssue'
          /\ NoRemindersAwaitingAps' /\ CurrentLetterCoversActive'
      BY <1>5, <2>1, <2>2 DEF IInv, Safety, UwFieldsMatchPlans, TermsAcceptedBeforeIssue,
         PastAcceptance, NoRemindersAwaitingAps, CurrentLetterCoversActive,
         LetterGeneratingSubstatuses
    <2>5. LettersSuperseded' /\ OmitEarlierIn(letters, letters', earlierCycle')
      BY <1>5, <2>1 DEF LettersSuperseded, SupersededIn
    <2> QED
      BY <2>3, <2>4, <2>5 DEF IInv, Safety
  <1>9. CASE /\ substatus \in {"PendingIpRequestFile", "PendingIpResponseFileCpfRejected"}
             /\ substatus' = substatus /\ uw' = uw /\ audited' = substatus
             /\ letters' = ls
    <2>1. TypeOK'
      BY <1>4, <1>5, <1>9 DEF IInv, TypeOK
    <2>2. /\ UwFieldsMatchPlans' /\ TermsAcceptedBeforeIssue'
          /\ NoRemindersAwaitingAps' /\ CurrentLetterCoversActive'
      BY <1>5, <1>9 DEF IInv, Safety, UwFieldsMatchPlans, TermsAcceptedBeforeIssue,
         NoRemindersAwaitingAps, CurrentLetterCoversActive, LetterGeneratingSubstatuses
    <2>3. LettersSuperseded' /\ OmitEarlierIn(letters, letters', earlierCycle')
      BY <1>4, <1>5, <1>9
      DEF LettersSuperseded, SupersededIn
    <2> QED
      BY <2>1, <2>2, <2>3 DEF IInv, Safety
  <1> QED
    BY <1>2, <1>6, <1>7, <1>8, <1>9 DEF PolicySubstatus

\* Marking a rider keeps the invariant: its decision letter is issued for the
\* new plans, then the shared tail runs.
LEMMA MarkRiderStatusStep ==
  ASSUME IInv, NEW r \in Riders, NEW target, MarkRiderStatus(r, target)
  PROVE  IInv' /\ OmitEarlierIn(letters, letters', earlierCycle')
  <1> DEFINE st == [status EXCEPT ![r] = target]
             earlier == earlierCycle \ {r}
             ls == DecisionLetterStep(letters, DecisionLetterFor(target), st, earlier)
  <1>1. target \in AllowedTargetStatuses
    BY DEF MarkRiderStatus
  <1>2. st \in [Plans -> ProductStatus]
    BY <1>1 DEF IInv, TypeOK, AllowedTargetStatuses, AdverseDecisions, ProductStatus
  <1>3. DecisionLetterFor(target) \in LetterType \cup {None}
    BY <1>1 DEF AllowedTargetStatuses, AdverseDecisions, DecisionLetterFor, LetterType, NoticeType
  <1>4. letters \subseteq Letter /\ SupersededIn(letters) /\ OmitEarlierIn(letters, letters, earlier)
    BY LetterInvariants DEF IInv, TypeOK, Safety
  <1>5. ls \subseteq Letter /\ SupersededIn(ls) /\ OmitEarlierIn(letters, ls, earlier)
    BY <1>3, <1>4, DecisionLetterResult
  <1>6. /\ Reassess(st, earlier, uw, ls)
        /\ status' = st /\ earlierCycle' = earlier /\ facts' = facts
    BY DEF MarkRiderStatus
  <1>7. uw \in UWState /\ earlier \subseteq earlierCycle
    BY DEF IInv, TypeOK
  <1> HIDE DEF st, earlier, ls
  <1> QED
    BY <1>2, <1>5, <1>6, <1>7, ReassessStep

\* Re-adding a rider keeps the invariant: no decision letter, then the tail.
LEMMA ReAddRiderStep ==
  ASSUME IInv, NEW r \in Riders, ReAddRider(r)
  PROVE  IInv' /\ OmitEarlierIn(letters, letters', earlierCycle')
  <1> DEFINE st == [status EXCEPT ![r] = "Active"]
             earlier == earlierCycle \ {r}
  <1>1. st \in [Plans -> ProductStatus]
    BY DEF IInv, TypeOK, ProductStatus
  <1>2. letters \subseteq Letter /\ SupersededIn(letters) /\ OmitEarlierIn(letters, letters, earlier)
    BY LetterInvariants DEF IInv, TypeOK, Safety
  <1>3. /\ Reassess(st, earlier, uw, letters)
        /\ status' = st /\ earlierCycle' = earlier /\ facts' = facts
    BY DEF ReAddRider
  <1>4. uw \in UWState /\ earlier \subseteq earlierCycle
    BY DEF IInv, TypeOK
  <1> HIDE DEF st, earlier
  <1> QED
    BY <1>1, <1>2, <1>3, <1>4, ReassessStep

\* Resubmitting and saving the UW tab both only route the policy to manual
\* underwriting, which no safety invariant constrains.
LEMMA RouteStep ==
  ASSUME IInv, RouteToManualUnderwriting
  PROVE  IInv' /\ OmitEarlierIn(letters, letters', earlierCycle')
  <1>1. /\ substatus' = "PendingManualUnderwriting"
        /\ audited' \in {audited, "PendingManualUnderwriting"}
        /\ UNCHANGED <<facts, status, earlierCycle, uw, letters>>
    BY DEF RouteToManualUnderwriting
  <1>2. TypeOK'
    BY <1>1 DEF IInv, TypeOK, PolicySubstatus
  <1>3. Safety'
    BY <1>1 DEF IInv, Safety, UwFieldsMatchPlans, TermsAcceptedBeforeIssue, PastAcceptance,
       NoRemindersAwaitingAps, LettersSuperseded, CurrentLetterCoversActive,
       LetterGeneratingSubstatuses
  <1> QED
    BY <1>1, <1>2, <1>3, LetterInvariants DEF IInv

\* The writes of the other systems.
LEMMA ExternalStep ==
  ASSUME IInv, CustomerAccepts \/ CashCollected \/ CpfRejects \/ UwCycleCompletes
  PROVE  IInv' /\ OmitEarlierIn(letters, letters', earlierCycle')
  <1>0. OmitEarlierIn(letters, letters', earlierCycle')
    <2>1. letters' = letters
      BY DEF CustomerAccepts, CashCollected, CpfRejects, UwCycleCompletes
    <2> QED
      BY <2>1, LetterInvariants
  <1>1. CASE CustomerAccepts
    <2>1. PICK o \in RcmpOption :
            uw' = [uw EXCEPT !.acceptCloa = "Yes", !.rcmpOption = o]
      BY <1>1 DEF CustomerAccepts, IInv, TypeOK, UWState, RcmpOption
    <2>2. uw' \in UWState /\ uw'.currentComposition = uw.currentComposition
          /\ uw'.acceptCloa = "Yes"
      BY <2>1 DEF IInv, TypeOK, UWState, AcceptCloa
    <2>3. UNCHANGED <<facts, status, earlierCycle, substatus, letters, audited>>
      BY <1>1 DEF CustomerAccepts
    <2>4. TypeOK'
      BY <2>2, <2>3 DEF IInv, TypeOK
    <2>5. Safety'
      BY <2>2, <2>3 DEF IInv, Safety, UwFieldsMatchPlans, TermsAcceptedBeforeIssue,
         TermsAccepted, NoRemindersAwaitingAps, LettersSuperseded,
         CurrentLetterCoversActive
    <2> QED
      BY <1>0, <2>4, <2>5 DEF IInv
  <1>2. CASE CashCollected
    <2>1. /\ facts' = [facts EXCEPT !.shortfall = FALSE]
          /\ UNCHANGED <<status, earlierCycle, substatus, uw, letters, audited>>
      BY <1>2 DEF CashCollected
    <2>2. facts' \in Facts /\ facts'.loading = facts.loading
          /\ facts'.exclusion = facts.exclusion
      BY <2>1 DEF IInv, TypeOK, Facts
    <2>3. Composition(Active(status), facts') = Composition(Active(status), facts)
      BY <2>2 DEF Composition
    <2>4. TypeOK'
      BY <2>1, <2>2 DEF IInv, TypeOK
    <2>5. UwFieldsMatchPlans'
      BY <2>1, <2>3 DEF IInv, Safety, UwFieldsMatchPlans, Active
    <2>6. Safety'
      BY <2>1, <2>5 DEF IInv, Safety, TermsAcceptedBeforeIssue, NoRemindersAwaitingAps,
         LettersSuperseded, CurrentLetterCoversActive, Active
    <2> QED
      BY <1>0, <2>4, <2>6 DEF IInv
  <1>3. CASE CpfRejects
    <2>1. /\ substatus = "PendingIpRequestFile"
          /\ substatus' = "PendingIpResponseFileCpfRejected" /\ audited' = substatus'
          /\ UNCHANGED <<facts, status, earlierCycle, uw, letters>>
      BY <1>3 DEF CpfRejects
    <2>2. TypeOK'
      BY <2>1 DEF IInv, TypeOK, PolicySubstatus
    <2>3. Safety'
      BY <2>1 DEF IInv, Safety, UwFieldsMatchPlans, TermsAcceptedBeforeIssue,
         PastAcceptance, NoRemindersAwaitingAps, LettersSuperseded,
         CurrentLetterCoversActive, LetterGeneratingSubstatuses
    <2> QED
      BY <1>0, <2>2, <2>3 DEF IInv
  <1>4. CASE UwCycleCompletes
    <2>1. /\ earlierCycle' \subseteq Plans
          /\ UNCHANGED <<facts, status, substatus, uw, letters, audited>>
      BY <1>4 DEF UwCycleCompletes
    <2>2. TypeOK'
      BY <2>1 DEF IInv, TypeOK
    <2>3. Safety'
      BY <2>1 DEF IInv, Safety, UwFieldsMatchPlans, TermsAcceptedBeforeIssue,
         NoRemindersAwaitingAps, LettersSuperseded, CurrentLetterCoversActive, Active
    <2> QED
      BY <1>0, <2>2, <2>3 DEF IInv
  <1> QED
    BY <1>0, <1>1, <1>2, <1>3, <1>4

\* The invariant holds of a policy as another journey left it.
LEMMA InitStep ==
  ASSUME Init
  PROVE  IInv
  <1>1. PICK a \in AcceptCloa, o \in RcmpOption :
          uw = UwFieldStates([acceptCloa |-> a, rcmpOption |-> o],
                             Composition(Active(status), facts), facts)
    BY DEF Init
  <1>2. facts \in Facts /\ status \in [Plans -> ProductStatus]
    BY InputAssumption DEF Init
  <1>3. uw \in UWState /\ uw.currentComposition = Composition(Active(status), facts)
    BY <1>1, <1>2, CompositionType, UwFieldStatesType
  <1>4. TypeOK
    BY <1>2, <1>3 DEF Init, TypeOK
  <1>5. Safety
    BY <1>3 DEF Init, Safety, UwFieldsMatchPlans, TermsAcceptedBeforeIssue,
       NoRemindersAwaitingAps, LettersSuperseded, CurrentLetterCoversActive
  <1> QED
    BY <1>4, <1>5 DEF IInv

\* Every command and every external write keeps the invariant.
LEMMA NextStep ==
  ASSUME IInv, [Next]_vars
  PROVE  IInv' /\ OmitEarlierIn(letters, letters', earlierCycle')
  <1> DEFINE Kept == IInv' /\ OmitEarlierIn(letters, letters', earlierCycle')
  <1>1. ASSUME NEW d \in Decisions, UwDecision(d) PROVE Kept
    BY <1>1, UwDecisionStep
  <1>2. ASSUME NEW r \in Riders, NEW target \in MarkTargets, MarkRiderStatus(r, target)
        PROVE  Kept
    BY <1>2, MarkRiderStatusStep
  <1>3. ASSUME NEW r \in Riders, ReAddRider(r) PROVE Kept
    BY <1>3, ReAddRiderStep
  <1>4. CASE ResubmitForManualUw \/ SaveUnderwritingTab
    BY <1>4, RouteStep DEF ResubmitForManualUw, SaveUnderwritingTab
  <1>5. CASE CustomerAccepts \/ CashCollected \/ CpfRejects \/ UwCycleCompletes
    BY <1>5, ExternalStep
  <1>6. CASE UNCHANGED vars
    <2>1. IInv'
      BY <1>6 DEF vars, IInv, TypeOK, Safety, UwFieldsMatchPlans, TermsAcceptedBeforeIssue,
         NoRemindersAwaitingAps, LettersSuperseded, CurrentLetterCoversActive, Active
    <2> QED
      BY <1>6, <2>1, LetterInvariants DEF vars
  <1> QED
    BY <1>1, <1>2, <1>3, <1>4, <1>5, <1>6 DEF Next

\* The inductive invariant holds of every reachable state.
THEOREM Invariance == Spec => []IInv
  <1>1. Init => IInv
    BY InitStep
  <1>2. IInv /\ [Next]_vars => IInv'
    BY NextStep
  <1> QED
    BY <1>1, <1>2, PTL DEF Spec

\* Every reachable row holds values of its columns' types.
THEOREM TypeCorrect == Spec => []TypeOK
  BY Invariance, PTL DEF IInv

\* After any history of commands the UW fields describe the plans that are
\* Active.
THEOREM FieldsMatch == Spec => []UwFieldsMatchPlans
  BY Invariance, PTL DEF IInv, Safety

\* No policy gets to cash collection, the IP file or inception with terms the
\* customer has yet to accept.
THEOREM AcceptedBeforeIssue == Spec => []TermsAcceptedBeforeIssue
  BY Invariance, PTL DEF IInv, Safety

\* No reminder is scheduled while APS is awaited.
THEOREM RemindersStop == Spec => []NoRemindersAwaitingAps
  BY Invariance, PTL DEF IInv, Safety

\* Letters of one type supersede one another, together with their reminders.
THEOREM LettersSupersede == Spec => []LettersSuperseded
  BY Invariance, PTL DEF IInv, Safety

\* The current letter for the composition lists the Active plans.
THEOREM LetterCoversActive == Spec => []CurrentLetterCoversActive
  BY Invariance, PTL DEF IInv, Safety

(***************************************************************************)
(* Action properties.                                                      *)
(***************************************************************************)
\* The one step that can make a rider NTU, declined or postponed is marking it,
\* and the letter it issues survives the main letter issued after it.
LEMMA NoticeNamesRiderStep ==
  ASSUME IInv, [Next]_vars, NEW r \in Riders,
         status'[r] # status[r], status'[r] \in AdverseDecisions
  PROVE  \E l \in letters' : /\ l.current /\ r \in l.plans
                            /\ l.type = DecisionLetterFor(status'[r])
  <1>1. PICK target \in MarkTargets : MarkRiderStatus(r, target)
    <2>1. status \in [Plans -> ProductStatus]
      BY DEF IInv, TypeOK
    <2>2. \/ \E q \in Riders, t \in MarkTargets : MarkRiderStatus(q, t)
          \/ \E q \in Riders : ReAddRider(q)
          \/ status' = status
      BY DEF Next, vars, UwDecision, ResubmitForManualUw, SaveUnderwritingTab,
         RouteToManualUnderwriting, CustomerAccepts, CashCollected, CpfRejects,
         UwCycleCompletes
    <2>3. ASSUME NEW q \in Riders, ReAddRider(q) PROVE FALSE
      BY <2>1, <2>3 DEF ReAddRider, Riders, AdverseDecisions
    <2>4. ASSUME NEW q \in Riders, NEW t \in MarkTargets, MarkRiderStatus(q, t)
          PROVE  q = r
      BY <2>1, <2>4 DEF MarkRiderStatus, Riders
    <2> QED
      BY <2>2, <2>3, <2>4
  <1> DEFINE st == [status EXCEPT ![r] = target]
             earlier == earlierCycle \ {r}
             type == DecisionLetterFor(target)
             ls == DecisionLetterStep(letters, type, st, earlier)
             e == EvaluateAfterAction(Active(st), uw, facts)
             remind == ShouldScheduleReminders(e.letter, e.uw, facts)
             sent == MainLetterStep(ls, e, st, earlier)
  <1>2. /\ target \in AdverseDecisions /\ status' = st
        /\ letters' = IF e.substatus = "PendingUwAps" THEN CancelAllForPolicy(sent) ELSE sent
    BY <1>1 DEF MarkRiderStatus, Reassess, AllowedTargetStatuses
  <1>3. st[r] = target /\ r \in Plans
    BY DEF IInv, TypeOK, Riders
  <1>4. type \in NoticeType /\ type # None /\ type \in LetterType /\ type \notin MainLetter
    BY <1>2 DEF AdverseDecisions, DecisionLetterFor, NoticeType, None, LetterType, MainLetter
  <1>5. r \in IncludedPlans(type, st, earlier)
    BY <1>2, <1>3 DEF AdverseDecisions, DecisionLetterFor, IncludedPlans
  <1>6. /\ e.substatus # "PendingUwAps" /\ e.letter \in MainLetter \cup {None}
    BY EvaluatorResult DEF IInv, TypeOK
  <1>7. ls = Generate(letters, type, st, earlier, FALSE)
    BY <1>4 DEF DecisionLetterStep
  <1>8. sent = IF e.letter = None THEN ls ELSE Generate(ls, e.letter, st, earlier, remind)
    BY DEF MainLetterStep
  <1>9. letters \subseteq Letter
    BY DEF IInv, TypeOK
  <1>10. remind \in BOOLEAN
    BY DEF ShouldScheduleReminders
  <1>11. ls \subseteq Letter
    BY <1>4, <1>9, DecisionLetterResult
  <1> HIDE DEF st, earlier, type, ls, e, remind, sent
  <1>12. PICK l \in ls : l.current /\ l.type = type /\ r \in l.plans
    <2>1. [ type |-> type, current |-> TRUE,
            plans |-> IncludedPlans(type, st, earlier), scheduled |-> FALSE ] \in ls
      BY <1>4, <1>7, <1>9, GenerateKeeps
    <2> QED
      BY <1>5, <2>1
  <1>13. l \in sent
    <2>1. CASE e.letter = None
      BY <1>8, <1>12, <2>1
    <2>2. CASE e.letter # None
      <3>1. e.letter \in LetterType /\ e.letter # type
        BY <1>4, <1>6, <2>2, LetterTypes
      <3> QED
        BY <1>8, <1>10, <1>11, <1>12, <2>2, <3>1, GenerateKeeps
    <2> QED
      BY <2>1, <2>2
  <1> QED
    BY <1>2, <1>3, <1>6, <1>12, <1>13 DEF type

\* A rider that becomes NTU, declined or postponed is named by the decision
\* letter issued in the same transaction, whatever else the command issues.
THEOREM NoticesNameRiders == Spec => NoticeNamesRider
  <1>1. IInv /\ [Next]_vars =>
          [\A r \in Riders :
             status'[r] # status[r] /\ status'[r] \in AdverseDecisions =>
               \E l \in letters' :
                 /\ l.current /\ r \in l.plans
                 /\ l.type = DecisionLetterFor(status'[r])]_vars
    BY NoticeNamesRiderStep
  <1> QED
    BY <1>1, Invariance, PTL DEF Spec, NoticeNamesRider

\* A tail that leaves the customer to answer or to pay has issued the letter
\* for the new composition, and scheduled its reminders.
LEMMA ReassessReminds ==
  ASSUME facts \in Facts, NEW st, NEW earlier, NEW current \in UWState,
         NEW ls, ls \subseteq Letter, Reassess(st, earlier, current, ls),
         substatus' \in LetterGeneratingSubstatuses
  PROVE  \E l \in letters' : /\ l.current /\ l.scheduled
                            /\ l.type = MainLetterFor(uw'.currentComposition)
                            /\ l.plans = Active(st)
  <1> DEFINE e == EvaluateAfterAction(Active(st), current, facts)
             remind == ShouldScheduleReminders(e.letter, e.uw, facts)
             row == [ type |-> e.letter, current |-> TRUE,
                      plans |-> IncludedPlans(e.letter, st, earlier), scheduled |-> remind ]
  <1>1. /\ substatus' = e.substatus /\ uw' = e.uw
        /\ letters' = IF e.substatus = "PendingUwAps"
                      THEN CancelAllForPolicy(MainLetterStep(ls, e, st, earlier))
                      ELSE MainLetterStep(ls, e, st, earlier)
    BY DEF Reassess
  <1>2. /\ e.substatus # "PendingUwAps"
        /\ e.letter = MainLetterFor(e.uw.currentComposition)
        /\ e.uw.currentComposition \in RiskComposition
    BY <1>1, EvaluatorResult, CompositionType
  <1>3. e.letter \in MainLetter
    BY <1>2 DEF MainLetterFor, MainLetter, RiskComposition
  <1>4. e.letter # None /\ e.letter \in LetterType
    BY <1>3, LetterTypes
  <1>5. remind /\ remind \in BOOLEAN
    BY <1>1, EvaluatorReminds DEF ShouldScheduleReminders
  <1>6. letters' = Generate(ls, e.letter, st, earlier, remind)
    BY <1>1, <1>2, <1>4 DEF MainLetterStep
  <1>7. IncludedPlans(e.letter, st, earlier) = Active(st)
    BY <1>3 DEF IncludedPlans, MainLetter
  <1>8. row.current /\ row.scheduled /\ row.type = e.letter /\ row.plans = Active(st)
    BY <1>5, <1>7
  <1> HIDE DEF e, remind
  <1>9. row \in letters'
    BY <1>4, <1>5, <1>6, GenerateKeeps
  <1> QED
    BY <1>1, <1>2, <1>8, <1>9

\* Only an evaluation changes a rider, or the substatus to one at which the
\* customer is to answer or to pay.
LEMMA RemindStep ==
  ASSUME IInv, [Next]_vars, status' # status \/ substatus' # substatus,
         substatus' \in LetterGeneratingSubstatuses
  PROVE  \E l \in letters' : /\ l.current /\ l.scheduled
                            /\ l.type = MainLetterFor(uw'.currentComposition)
                            /\ l.plans = Active(status')
  <1>1. /\ facts \in Facts /\ letters \subseteq Letter /\ uw \in UWState
        /\ substatus \in PolicySubstatus
    BY DEF IInv, TypeOK
  <1> DEFINE Reminded(st) == \E l \in letters' : /\ l.current /\ l.scheduled
                               /\ l.type = MainLetterFor(uw'.currentComposition)
                               /\ l.plans = Active(st)
  <1>2. ASSUME NEW d \in Decisions, UwDecision(d) PROVE Reminded(status')
    <2> DEFINE h == Handle(substatus, uw, d)
               ls == DecisionLetterStep(letters, h.letter, status, earlierCycle)
    <2>1. d \in UwDecisions /\ Routable(substatus, d) /\ status' = status
      BY <1>2, InputAssumption DEF UwDecision
    <2>2. /\ h.uw \in UWState
          /\ h.letter \in NoticeType \cup {"MedicalEvidence", None}
          /\ h.override \in {None, "PendingUwAps", substatus}
      BY <1>1, <2>1, DirectiveResult
    <2>3. \/ Reassess(status, earlierCycle, h.uw, ls)
          \/ h.override # None /\ substatus' = h.override
      BY <1>2 DEF UwDecision
    <2>4. ls \subseteq Letter
      BY <1>1, <2>2, LetterTypes, DecisionLetterResult
    <2> HIDE DEF h, ls
    <2>5. Reassess(status, earlierCycle, h.uw, ls)
      BY <2>1, <2>2, <2>3 DEF LetterGeneratingSubstatuses
    <2> QED
      BY <1>1, <2>1, <2>2, <2>4, <2>5, ReassessReminds
  <1>3. ASSUME NEW r \in Riders, NEW target \in MarkTargets, MarkRiderStatus(r, target)
        PROVE  Reminded(status')
    <2> DEFINE earlier == earlierCycle \ {r}
               type == DecisionLetterFor(target)
               ls == DecisionLetterStep(letters, type, status', earlier)
    <2>1. Reassess(status', earlier, uw, ls) /\ target \in AdverseDecisions
      BY <1>3 DEF MarkRiderStatus, AllowedTargetStatuses
    <2>2. type \in LetterType \cup {None}
      BY <2>1 DEF AdverseDecisions, DecisionLetterFor, LetterType, NoticeType
    <2>3. ls \subseteq Letter
      BY <1>1, <2>2, DecisionLetterResult
    <2> HIDE DEF earlier, ls
    <2> QED
      BY <1>1, <2>1, <2>3, ReassessReminds
  <1>4. ASSUME NEW r \in Riders, ReAddRider(r) PROVE Reminded(status')
    <2>1. Reassess(status', earlierCycle \ {r}, uw, letters)
      BY <1>4 DEF ReAddRider
    <2> QED
      BY <1>1, <2>1, ReassessReminds
  <1>5. CASE ResubmitForManualUw \/ SaveUnderwritingTab \/ CpfRejects
    BY <1>5 DEF ResubmitForManualUw, SaveUnderwritingTab, RouteToManualUnderwriting,
       CpfRejects, LetterGeneratingSubstatuses
  <1>6. CASE CustomerAccepts \/ CashCollected \/ UwCycleCompletes \/ UNCHANGED vars
    BY <1>6 DEF CustomerAccepts, CashCollected, UwCycleCompletes, vars
  <1> QED
    BY <1>2, <1>3, <1>4, <1>5, <1>6 DEF Next

\* Whichever command changes a rider or takes the policy to a substatus where
\* the customer is to answer or to pay, it has issued the letter that asks for
\* it, over the Active plans, and has scheduled its reminders.
THEOREM CustomersReminded == Spec => CustomerIsReminded
  <1>1. IInv /\ [Next]_vars =>
          [(status' # status \/ substatus' # substatus)
             /\ substatus' \in LetterGeneratingSubstatuses
             => \E l \in letters' :
                  /\ l.current /\ l.scheduled
                  /\ l.type = MainLetterFor(uw'.currentComposition)
                  /\ l.plans = Active(status')]_vars
    BY RemindStep
  <1> QED
    BY <1>1, Invariance, PTL DEF Spec, CustomerIsReminded

\* No decision letter of a later UW cycle lists a rider of an earlier one.
THEOREM NoticesOmitEarlier == Spec => NoticesOmitEarlierCycles
  <1>1. IInv /\ [Next]_vars =>
          [\A l \in letters' :
             l.current /\ l.type \in NoticeType =>
               \/ l.plans \cap earlierCycle' = {}
               \/ \E m \in letters : m.current /\ m.type = l.type /\ m.plans = l.plans]_vars
    BY NextStep DEF OmitEarlierIn
  <1> QED
    BY <1>1, Invariance, PTL DEF Spec, NoticesOmitEarlierCycles

\* The evaluator keeps what it kept the first time: evaluating its own UW
\* fields again, on the same plans, gives the same result.
LEMMA EvaluatedAgain ==
  ASSUME NEW active, NEW current \in UWState, NEW f \in Facts,
         NEW e, e = EvaluateAfterAction(active, current, f)
  PROVE  EvaluateAfterAction(active, e.uw, f) = e
  <1> DEFINE c == Composition(active, f)
             u == UwFieldStates(current, c, f)
             v == UwFieldStates(u, c, f)
  <1>1. e.uw = u
    BY DEF EvaluateAfterAction
  <1>2. v = u
    <2>1. c \in RiskComposition
      BY CompositionType
    <2>2. RenewalKeepsRcmp(f) \in BOOLEAN
      BY DEF RenewalKeepsRcmp
    <2> HIDE DEF c
    <2>3. /\ u.acceptCloa = IF \/ c = "HasRcmp" \/ RenewalKeepsRcmp(f)
                               \/ c = "ExclusionOnly"
                            THEN current.acceptCloa ELSE "Blank"
          /\ u.rcmpOption = IF c = "HasRcmp" \/ RenewalKeepsRcmp(f)
                            THEN current.rcmpOption ELSE "Blank"
      BY DEF UwFieldStates
    <2> QED
      BY <2>3 DEF UwFieldStates
  <1> QED
    BY <1>1, <1>2 DEF EvaluateAfterAction

\* Whatever state a policy is in, its evaluator's result is stable.
THEOREM EvaluatorStable == Spec => []EvaluatorIdempotent
  <1>1. TypeOK => EvaluatorIdempotent
    BY EvaluatedAgain DEF TypeOK, EvaluatorIdempotent
  <1> QED
    BY <1>1, TypeCorrect, PTL

(***************************************************************************)
(* A second invariant, about the customer's answer: an all-standard policy *)
(* never waits for an acceptance and, the renewal exception aside, holds   *)
(* no answer.                                                              *)
(***************************************************************************)
AInv ==
  uw.currentComposition = "AllStandard" =>
    /\ substatus # "ConditionalAcceptanceLetterGenerated"
    /\ uw.acceptCloa = "Blank" \/ RenewalKeepsRcmp(facts)

\* The shared tail leaves AInv true, and takes an unanswered policy with
\* something to accept to acceptance.
LEMMA ReassessAnswer ==
  ASSUME facts \in Facts, facts' = facts, NEW st, NEW earlier, NEW current \in UWState,
         NEW ls, Reassess(st, earlier, current, ls)
  PROVE  /\ AInv'
         /\ uw'.currentComposition # "AllStandard" /\ current.acceptCloa = "Blank"
              => substatus' = "ConditionalAcceptanceLetterGenerated"
  <1> DEFINE e == EvaluateAfterAction(Active(st), current, facts)
  <1>1. uw' = e.uw /\ substatus' = e.substatus
    BY DEF Reassess
  <1>2. /\ e.uw.currentComposition = "AllStandard" =>
             /\ e.substatus # "ConditionalAcceptanceLetterGenerated"
             /\ e.uw.acceptCloa = "Blank" \/ RenewalKeepsRcmp(facts)
        /\ e.uw.currentComposition # "AllStandard" /\ current.acceptCloa = "Blank"
             => e.substatus = "ConditionalAcceptanceLetterGenerated"
    BY EvaluatorAnswer
  <1> HIDE DEF e
  <1> QED
    BY <1>1, <1>2 DEF AInv, RenewalKeepsRcmp

\* AInv is kept by every step, and a step that brings an exclusion back asks
\* the customer again.
LEMMA AnswerStep ==
  ASSUME IInv, AInv, [Next]_vars
  PROVE  /\ AInv'
         /\ uw.currentComposition = "AllStandard" /\ uw'.currentComposition # "AllStandard"
              => \/ substatus' = "ConditionalAcceptanceLetterGenerated"
                 \/ RenewalKeepsRcmp(facts)
  <1>1. facts \in Facts /\ uw \in UWState /\ substatus \in PolicySubstatus
    BY DEF IInv, TypeOK
  <1>2. ASSUME NEW d \in Decisions, UwDecision(d)
        PROVE  /\ AInv'
               /\ \/ uw'.currentComposition = uw.currentComposition
                  \/ uw'.currentComposition # "AllStandard" /\ uw.acceptCloa = "Blank"
                       => substatus' = "ConditionalAcceptanceLetterGenerated"
    <2> DEFINE h == Handle(substatus, uw, d)
               ls == DecisionLetterStep(letters, h.letter, status, earlierCycle)
    <2>1. d \in UwDecisions /\ Routable(substatus, d) /\ facts' = facts
      BY <1>2, InputAssumption DEF UwDecision
    <2>2. /\ h.uw \in UWState
          /\ \/ h.override = None
             \/ h.override = "PendingUwAps" /\ h.uw = uw
             \/ /\ h.override = substatus /\ h.uw = uw
                /\ substatus \in {"PendingIpRequestFile", "PendingIpResponseFileCpfRejected"}
          /\ uw.acceptCloa = "Blank" => h.uw.acceptCloa = "Blank"
      BY <1>1, <2>1, DirectiveResult
    <2>3. \/ Reassess(status, earlierCycle, h.uw, ls)
          \/ h.override # None /\ substatus' = h.override /\ uw' = h.uw
      BY <1>2 DEF UwDecision
    <2> HIDE DEF h, ls
    <2>4. CASE Reassess(status, earlierCycle, h.uw, ls)
      BY <1>1, <2>1, <2>2, <2>4, ReassessAnswer
    <2>5. CASE h.override # None /\ substatus' = h.override /\ uw' = h.uw
      BY <2>1, <2>2, <2>5 DEF AInv
    <2> QED
      BY <2>3, <2>4, <2>5
  <1>3. ASSUME NEW st, NEW earlier, NEW ls, Reassess(st, earlier, uw, ls), facts' = facts
        PROVE  /\ AInv'
               /\ uw'.currentComposition # "AllStandard" /\ uw.acceptCloa = "Blank"
                    => substatus' = "ConditionalAcceptanceLetterGenerated"
    BY <1>1, <1>3, ReassessAnswer
  <1>4. ASSUME NEW r \in Riders, NEW target, MarkRiderStatus(r, target)
        PROVE  /\ AInv'
               /\ uw'.currentComposition # "AllStandard" /\ uw.acceptCloa = "Blank"
                    => substatus' = "ConditionalAcceptanceLetterGenerated"
    BY <1>3, <1>4 DEF MarkRiderStatus
  <1>5. ASSUME NEW r \in Riders, ReAddRider(r)
        PROVE  /\ AInv'
               /\ uw'.currentComposition # "AllStandard" /\ uw.acceptCloa = "Blank"
                    => substatus' = "ConditionalAcceptanceLetterGenerated"
    BY <1>3, <1>5 DEF ReAddRider
  <1>6. CASE ResubmitForManualUw \/ SaveUnderwritingTab
    BY <1>6 DEF ResubmitForManualUw, SaveUnderwritingTab, RouteToManualUnderwriting, AInv
  <1>7. CASE CustomerAccepts
    BY <1>1, <1>7 DEF CustomerAccepts, AInv, UWState
  <1>8. CASE CashCollected
    BY <1>1, <1>8 DEF CashCollected, AInv, RenewalKeepsRcmp, Facts
  <1>9. CASE CpfRejects \/ UwCycleCompletes
    BY <1>9 DEF CpfRejects, UwCycleCompletes, AInv
  <1>10. CASE UNCHANGED vars
    BY <1>10 DEF vars, AInv
  <1> QED
    BY <1>2, <1>4, <1>5, <1>6, <1>7, <1>8, <1>9, <1>10
    DEF Next, AInv, ResubmitForManualUw, SaveUnderwritingTab, RouteToManualUnderwriting,
        CustomerAccepts, CashCollected, CpfRejects, UwCycleCompletes, vars

\* A policy whose Active plans were all standard and whose next command brings
\* an exclusion or RCMP back goes to the customer for acceptance again,
\* unless the renewal exception keeps the earlier answer.
THEOREM ExclusionsAskAgain == Spec => ExclusionAsksAgain
  <1>1. Init => AInv
    <2> SUFFICES ASSUME Init, uw.currentComposition = "AllStandard" PROVE AInv
      BY DEF AInv
    <2>1. PICK a \in AcceptCloa, o \in RcmpOption :
            uw = UwFieldStates([acceptCloa |-> a, rcmpOption |-> o],
                               Composition(Active(status), facts), facts)
      BY DEF Init
    <2> QED
      BY <2>1 DEF Init, AInv, UwFieldStates, RenewalKeepsRcmp
  <1>2. IInv /\ AInv /\ [Next]_vars => AInv'
    BY AnswerStep
  <1>3. IInv /\ AInv /\ [Next]_vars =>
          [uw.currentComposition = "AllStandard" /\ uw'.currentComposition # "AllStandard"
             => \/ substatus' = "ConditionalAcceptanceLetterGenerated"
                \/ RenewalKeepsRcmp(facts)]_vars
    BY AnswerStep
  <1> QED
    BY <1>1, <1>2, <1>3, Invariance, PTL DEF Spec, ExclusionAsksAgain

\* Whatever the command, an audit entry of the substatus it leaves behind is
\* written with it; only the routing to manual underwriting can lose its own.
THEOREM RoutingAloneUnaudited == Spec => OnlyManualRoutingUnaudited
  <1>1. [Next]_vars =>
          [substatus' # substatus =>
             audited' = substatus' \/ substatus' = "PendingManualUnderwriting"]_vars
    <2> SUFFICES ASSUME Next
                 PROVE  \/ audited' = substatus'
                        \/ substatus' \in {substatus, "PendingManualUnderwriting"}
      OBVIOUS
    <2>1. ASSUME NEW d \in Decisions, UwDecision(d) PROVE audited' = substatus'
      BY <2>1 DEF UwDecision, Reassess
    <2>2. ASSUME NEW r \in Riders, NEW target \in MarkTargets, MarkRiderStatus(r, target)
          PROVE  audited' = substatus'
      BY <2>2 DEF MarkRiderStatus, Reassess
    <2>3. ASSUME NEW r \in Riders, ReAddRider(r) PROVE audited' = substatus'
      BY <2>3 DEF ReAddRider, Reassess
    <2>4. CASE ResubmitForManualUw \/ SaveUnderwritingTab
      BY <2>4 DEF ResubmitForManualUw, SaveUnderwritingTab, RouteToManualUnderwriting
    <2>5. CASE CustomerAccepts \/ CashCollected \/ CpfRejects \/ UwCycleCompletes
      BY <2>5 DEF CustomerAccepts, CashCollected, CpfRejects, UwCycleCompletes
    <2> QED
      BY <2>1, <2>2, <2>3, <2>4, <2>5 DEF Next
  <1> QED
    BY <1>1, PTL DEF Spec, OnlyManualRoutingUnaudited
=============================================================================
