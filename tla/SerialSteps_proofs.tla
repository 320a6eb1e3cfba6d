------------------------ MODULE SerialSteps_proofs ------------------------
(***************************************************************************)
(* The commands, each one transaction, implement SerialPolicy for every    *)
(* set of plans and every input: decision letters, UW cycles and audit     *)
(* entries are details it does not see.                                    *)
(***************************************************************************)
EXTENDS AdditionOfRider_proofs

(***************************************************************************)
(* The services of the two specifications are the same.                    *)
(***************************************************************************)
LEMMA SameEvaluator ==
  ASSUME NEW active, NEW current, NEW f
  PROVE  Serial!EvaluateAfterAction(active, current, f) = EvaluateAfterAction(active, current, f)
  <1>1. Serial!Composition(active, f) = Composition(active, f)
    BY DEF Serial!Composition, Composition
  <1>2. \A c : Serial!UwFieldStates(current, c, f) = UwFieldStates(current, c, f)
    BY DEF Serial!UwFieldStates, UwFieldStates, Serial!RenewalKeepsRcmp, RenewalKeepsRcmp
  <1>3. \A c, u : Serial!NextSubstatus(c, u, f) = NextSubstatus(c, u, f)
    BY DEF Serial!NextSubstatus, NextSubstatus
  <1>4. \A c, n : Serial!LetterToGenerate(c, n) = LetterToGenerate(c, n)
    BY DEF Serial!LetterToGenerate, LetterToGenerate, Serial!MainLetterFor, MainLetterFor,
           Serial!LetterGeneratingSubstatuses, LetterGeneratingSubstatuses, Serial!None, None
  <1> QED
    BY <1>1, <1>2, <1>3, <1>4 DEF Serial!EvaluateAfterAction, EvaluateAfterAction

LEMMA SameHandlers ==
  ASSUME NEW entry, NEW fields, NEW d
  PROVE  /\ Serial!Handle(entry, fields, d) = Handle(entry, fields, d)
         /\ Serial!Routable(entry, d) <=> Routable(entry, d)
  <1>1. \A t : Serial!DecisionLetterFor(t) = DecisionLetterFor(t)
    BY DEF Serial!DecisionLetterFor, DecisionLetterFor
  <1>2. /\ \A u, t : Serial!Defer(u, t) = Defer(u, t)
        /\ \A n, u, t : Serial!Override(n, u, t) = Override(n, u, t)
        /\ \A u : Serial!AwaitAps(u) = AwaitAps(u)
    BY DEF Serial!Defer, Defer, Serial!Override, Override, Serial!AwaitAps, AwaitAps,
           Serial!None, None
  <1>3. /\ \A u : Serial!ClearAcceptCloa(u) = ClearAcceptCloa(u)
        /\ \A u : Serial!ClearBothAnswers(u) = ClearBothAnswers(u)
    BY DEF Serial!ClearAcceptCloa, ClearAcceptCloa, Serial!ClearBothAnswers, ClearBothAnswers
  <1>4. /\ Serial!CondAcceptLetterGenHandler(fields, d) = CondAcceptLetterGenHandler(fields, d)
        /\ Serial!PendingUwCloaAssessmentHandler(fields, d) = PendingUwCloaAssessmentHandler(fields, d)
        /\ Serial!PendingCashCollectionHandler(fields, d) = PendingCashCollectionHandler(fields, d)
    BY <1>1, <1>2, <1>3
    DEF Serial!CondAcceptLetterGenHandler, CondAcceptLetterGenHandler,
        Serial!PendingUwCloaAssessmentHandler, PendingUwCloaAssessmentHandler,
        Serial!PendingCashCollectionHandler, PendingCashCollectionHandler,
        Serial!AdverseDecisions, AdverseDecisions, Serial!None, None
  <1>5. /\ Serial!PendingIpRequestFileHandler(fields, d) = PendingIpRequestFileHandler(fields, d)
        /\ Serial!PendingIpResponseCpfRejectedHandler(fields, d)
             = PendingIpResponseCpfRejectedHandler(fields, d)
        /\ Serial!PendingPpHandler(fields) = PendingPpHandler(fields)
    BY <1>1, <1>2, <1>3
    DEF Serial!PendingIpRequestFileHandler, PendingIpRequestFileHandler,
        Serial!PendingIpResponseCpfRejectedHandler, PendingIpResponseCpfRejectedHandler,
        Serial!PendingPpHandler, PendingPpHandler,
        Serial!AdverseDecisions, AdverseDecisions, Serial!None, None
  <1> QED
    BY <1>4, <1>5 DEF Serial!Handle, Handle, Serial!Routable, Routable,
      Serial!NtuOnlyEntries, NtuOnlyEntries, Serial!FullEntries, FullEntries

LEMMA SameMail ==
  ASSUME NEW ls, NEW type, NEW st, NEW remind
  PROVE  /\ Serial!Generate(ls, type, st, {}, remind) = Generate(ls, type, st, {}, remind)
         /\ Serial!CancelAllForPolicy(ls) = CancelAllForPolicy(ls)
         /\ Serial!Active(st) = Active(st)
  <1>1. \A x : Serial!Live(x) = Live(x)
    BY DEF Serial!Live, Live
  <1>2. Serial!Active(st) = Active(st)
    BY DEF Serial!Active, Active
  <1>3. Serial!IncludedPlans(type, st, {}) = IncludedPlans(type, st, {})
    BY <1>2 DEF Serial!IncludedPlans, IncludedPlans
  <1>4. Serial!Supersede(ls, type) = Supersede(ls, type)
    BY <1>1, Zenon DEF Serial!Supersede, Supersede
  <1>5. Serial!CancelAllForPolicy(ls) = CancelAllForPolicy(ls)
    BY <1>1, Zenon DEF Serial!CancelAllForPolicy, CancelAllForPolicy
  <1>6. Serial!Generate(ls, type, st, {}, remind) = Generate(ls, type, st, {}, remind)
    BY <1>3, <1>4, Zenon DEF Serial!Generate, Generate
  <1> QED
    BY <1>2, <1>5, <1>6

(***************************************************************************)
(* The mail is the main letters of the table.                              *)
(***************************************************************************)
LEMMA MailIsFilter ==
  ASSUME NEW ls, ls \subseteq Letter
  PROVE  MailOf(ls) = {l \in ls : l.type \in MainLetter}
  <1> DEFINE mail(l) == [ type |-> l.type, current |-> l.current, plans |-> l.plans,
                          scheduled |-> l.scheduled ]
  <1>1. \A l \in ls : mail(l) = l
    BY DEF Letter
  <1>2. \A x : x \in MailOf(ls) <=> \E l \in ls : l.type \in MainLetter /\ x = mail(l)
    BY DEF MailOf
  <1> HIDE DEF mail
  <1> QED
    BY <1>1, <1>2

\* Superseding keeps the live letters but the current ones of the type.
LEMMA SupersedeIsFilter ==
  ASSUME NEW ls, ls \subseteq Letter, NEW type
  PROVE  Supersede(ls, type) =
           {l \in ls : (l.current \/ l.scheduled) /\ ~(l.type = type /\ l.current)}
  <1>1. ASSUME NEW x
        PROVE  x \in Supersede(ls, type) <=>
                 x \in ls /\ (x.current \/ x.scheduled) /\ ~(x.type = type /\ x.current)
    <2>1. x \in Supersede(ls, type) <=>
            /\ x.current \/ x.scheduled
            /\ \E l \in ls : x = IF l.type = type /\ l.current
                                 THEN [l EXCEPT !.current = FALSE, !.scheduled = FALSE] ELSE l
      BY DEF Supersede, Live
    <2>2. ASSUME NEW l \in ls, x = [l EXCEPT !.current = FALSE, !.scheduled = FALSE]
          PROVE  ~x.current /\ ~x.scheduled
      <3>1. l \in Letter
        OBVIOUS
      <3> QED
        BY <2>2, <3>1 DEF Letter
    <2> QED
      BY <2>1, <2>2
  <1> QED
    BY <1>1

\* A main letter generated into the table is generated into the mail.
LEMMA MailGenerated ==
  ASSUME NEW ls, ls \subseteq Letter, NEW type \in MainLetter, NEW st, NEW earlier,
         NEW remind \in BOOLEAN
  PROVE  MailOf(Generate(ls, type, st, earlier, remind))
           = Generate(MailOf(ls), type, st, {}, remind)
  <1> DEFINE new == [ type |-> type, current |-> TRUE,
                      plans |-> IncludedPlans(type, st, earlier), scheduled |-> remind ]
  <1>1. IncludedPlans(type, st, earlier) = Active(st)
        /\ IncludedPlans(type, st, {}) = Active(st)
    BY DEF IncludedPlans, MainLetter
  <1>2. new \in Letter /\ new.type = type
    BY <1>1, LetterTypes DEF Letter, Active
  <1>3. /\ Generate(ls, type, st, earlier, remind) = Supersede(ls, type) \cup {new}
        /\ Generate(MailOf(ls), type, st, {}, remind) = Supersede(MailOf(ls), type) \cup {new}
    BY <1>1 DEF Generate
  <1> HIDE DEF new
  <1>4. MailOf(ls) = {l \in ls : l.type \in MainLetter}
    BY MailIsFilter
  <1>5. /\ Supersede(ls, type) =
             {l \in ls : (l.current \/ l.scheduled) /\ ~(l.type = type /\ l.current)}
        /\ Supersede(MailOf(ls), type) =
             {l \in MailOf(ls) : (l.current \/ l.scheduled) /\ ~(l.type = type /\ l.current)}
    BY <1>4, SupersedeIsFilter
  <1>6. MailOf(Supersede(ls, type) \cup {new})
          = {l \in Supersede(ls, type) \cup {new} : l.type \in MainLetter}
    BY <1>2, <1>5, MailIsFilter
  <1> QED
    BY <1>2, <1>3, <1>4, <1>5, <1>6

AllCurrent(ls) == \A l \in ls : l.current

\* A decision letter does not touch the mail.
LEMMA NoticeLeavesMail ==
  ASSUME NEW ls, ls \subseteq Letter, AllCurrent(ls),
         NEW type \in NoticeType \cup {"MedicalEvidence", None}, NEW st, NEW earlier
  PROVE  LET new == DecisionLetterStep(ls, type, st, earlier)
         IN  new \subseteq Letter /\ AllCurrent(new) /\ MailOf(new) = MailOf(ls)
  <1>1. CASE type = None
    BY <1>1 DEF DecisionLetterStep
  <1>2. CASE type # None
    <2> DEFINE row == [ type |-> type, current |-> TRUE,
                        plans |-> IncludedPlans(type, st, earlier), scheduled |-> FALSE ]
               new == Supersede(ls, type) \cup {row}
    <2>1. type \in LetterType /\ type \notin MainLetter
      BY <1>2 DEF NoticeType, LetterType, MainLetter
    <2>2. IncludedPlans(type, st, earlier) \subseteq Plans
      BY DEF IncludedPlans, Active
    <2>3. row \in Letter /\ row.type = type /\ row.current
      BY <2>1, <2>2 DEF Letter
    <2>4. DecisionLetterStep(ls, type, st, earlier) = new
      BY <1>2 DEF DecisionLetterStep, Generate
    <2> HIDE DEF row
    <2>5. Supersede(ls, type) = {l \in ls : l.type # type}
      BY SupersedeIsFilter DEF AllCurrent
    <2>6. new \subseteq Letter /\ AllCurrent(new)
      BY <2>3, <2>5 DEF AllCurrent
    <2>7. MailOf(new) = {l \in new : l.type \in MainLetter}
          /\ MailOf(ls) = {l \in ls : l.type \in MainLetter}
      BY <2>6, MailIsFilter
    <2>8. MailOf(new) = MailOf(ls)
      BY <2>1, <2>3, <2>5, <2>7
    <2> QED
      BY <2>4, <2>6, <2>8
  <1> QED
    BY <1>1, <1>2

\* Cancelling all reminders of the table cancels those of the mail.
LEMMA MailCancelled ==
  ASSUME NEW ls, ls \subseteq Letter, AllCurrent(ls)
  PROVE  /\ AllCurrent(CancelAllForPolicy(ls))
         /\ MailOf(CancelAllForPolicy(ls)) = CancelAllForPolicy(MailOf(ls))
  <1>1. \A x : x \in CancelAllForPolicy(ls) <=> \E l \in ls : x = [l EXCEPT !.scheduled = FALSE]
    BY DEF CancelAllForPolicy, Live, AllCurrent, Letter
  <1>2. MailOf(ls) = {l \in ls : l.type \in MainLetter}
    BY MailIsFilter
  <1>3. \A l \in ls : /\ [l EXCEPT !.scheduled = FALSE] \in Letter
                      /\ [l EXCEPT !.scheduled = FALSE].type = l.type
                      /\ [l EXCEPT !.scheduled = FALSE].current
    BY DEF Letter, AllCurrent
  <1>4. CancelAllForPolicy(ls) \subseteq Letter /\ AllCurrent(CancelAllForPolicy(ls))
    <2>1. ASSUME NEW x \in CancelAllForPolicy(ls) PROVE x \in Letter /\ x.current
      <3>1. PICK l \in ls : x = [l EXCEPT !.scheduled = FALSE]
        BY <1>1
      <3> QED
        BY <1>3, <3>1
    <2> QED
      BY <2>1 DEF AllCurrent
  <1>5. MailOf(CancelAllForPolicy(ls)) = {l \in CancelAllForPolicy(ls) : l.type \in MainLetter}
    BY <1>4, MailIsFilter
  <1>6. \A x : x \in CancelAllForPolicy(MailOf(ls)) <=>
                 \E l \in MailOf(ls) : x = [l EXCEPT !.scheduled = FALSE]
    BY <1>2 DEF CancelAllForPolicy, Live, AllCurrent, Letter
  <1>7. \A x : x \in MailOf(CancelAllForPolicy(ls)) <=> x \in CancelAllForPolicy(MailOf(ls))
    BY <1>1, <1>2, <1>3, <1>5, <1>6
  <1> QED
    BY <1>4, <1>7

(***************************************************************************)
(* Steps.                                                                  *)
(***************************************************************************)
\* A row that is not current is no longer acted upon, and so not kept.
CInv == AllCurrent(letters)

\* The shared tail, given the letters ls the command has issued so far, is
\* SerialPolicy's Reassess.
LEMMA ReassessMaps ==
  ASSUME TypeOK, NEW st, NEW earlier, NEW current \in UWState,
         NEW ls, ls \subseteq Letter, AllCurrent(ls), MailOf(ls) = MailOf(letters),
         Reassess(st, earlier, current, ls), status' = st, facts' = facts
  PROVE  Serial!Reassess(st, current) /\ CInv'
  <1> DEFINE e == EvaluateAfterAction(Active(st), current, facts)
             remind == ShouldScheduleReminders(e.letter, e.uw, facts)
             sent == MainLetterStep(ls, e, st, earlier)
  <1>1. /\ Active(st) # {} /\ substatus' = e.substatus /\ uw' = e.uw
        /\ letters' = IF e.substatus = "PendingUwAps" THEN CancelAllForPolicy(sent) ELSE sent
    BY DEF Reassess
  <1>2. e.substatus # "PendingUwAps" /\ e.letter \in MainLetter \cup {None}
    BY EvaluatorResult DEF TypeOK
  <1>3. letters' = IF e.letter = None THEN ls ELSE Generate(ls, e.letter, st, earlier, remind)
    BY <1>1, <1>2 DEF MainLetterStep
  <1>4. remind \in BOOLEAN
    BY DEF ShouldScheduleReminders
  <1>5. /\ Serial!EvaluateAfterAction(Serial!Active(st), current, facts) = e
        /\ Serial!Active(st) # {}
    BY <1>1, SameMail, SameEvaluator
  <1>6. Serial!ShouldScheduleReminders(e.letter, e.uw, facts) = remind
    BY DEF Serial!ShouldScheduleReminders, ShouldScheduleReminders
  <1> HIDE DEF e, remind, sent
  <1>7. /\ MailOf(letters') = IF e.letter = None THEN MailOf(letters)
                              ELSE Generate(MailOf(letters), e.letter, st, {}, remind)
        /\ CInv'
    <2>1. CASE e.letter = None
      BY <1>3, <2>1 DEF CInv
    <2>2. CASE e.letter # None
      <3>1. e.letter \in MainLetter
        BY <1>2, <2>2
      <3>2. MailOf(letters') = Generate(MailOf(letters), e.letter, st, {}, remind)
        BY <1>3, <1>4, <2>2, <3>1, MailGenerated
      <3>3. CInv'
        BY <1>3, <2>2, SupersedeIsFilter DEF Generate, CInv, AllCurrent
      <3> QED
        BY <2>2, <3>2, <3>3
    <2> QED
      BY <2>1, <2>2
  <1>8. \A x : Serial!Generate(x, e.letter, st, {}, remind)
                 = Generate(x, e.letter, st, {}, remind)
    BY SameMail
  <1>9. Serial!None = None
    BY DEF Serial!None, None
  <1>10. Serial!Reassess(st, current)
    BY <1>1, <1>5, <1>6, <1>7, <1>8, <1>9 DEF Serial!Reassess
  <1> QED
    BY <1>7, <1>10

LEMMA UwDecisionMaps ==
  ASSUME TypeOK, CInv, NEW d \in Decisions, UwDecision(d)
  PROVE  [Serial!Next]_Serial!vars /\ CInv'
  <1> DEFINE h == Handle(substatus, uw, d)
             ls == DecisionLetterStep(letters, h.letter, status, earlierCycle)
  <1>1. d \in UwDecisions /\ Routable(substatus, d) /\ status' = status /\ facts' = facts
    BY InputAssumption DEF UwDecision
  <1>2. /\ h.uw \in UWState
        /\ h.letter \in NoticeType \cup {"MedicalEvidence", None}
        /\ \/ h.override = None
           \/ h.override = "PendingUwAps" /\ h.uw = uw /\ d = "Aps"
           \/ h.override = substatus /\ h.uw = uw /\ h.override # "PendingUwAps"
    BY <1>1, DirectiveResult DEF TypeOK
  <1>3. \/ h.override = None /\ Reassess(status, earlierCycle, h.uw, ls)
        \/ /\ h.override # None
           /\ substatus' = h.override
           /\ uw' = h.uw
           /\ letters' = IF h.override = "PendingUwAps" THEN CancelAllForPolicy(ls) ELSE ls
    BY DEF UwDecision
  <1>4. h = Serial!Handle(substatus, uw, d) /\ Serial!Routable(substatus, d)
        /\ Serial!None = None
    BY <1>1, SameHandlers DEF Serial!None, None
  <1> HIDE DEF h
  <1>5. ls \subseteq Letter /\ AllCurrent(ls) /\ MailOf(ls) = MailOf(letters)
    <2>1. letters \subseteq Letter /\ AllCurrent(letters)
      BY DEF TypeOK, CInv
    <2>2. h.letter \in NoticeType \cup {"MedicalEvidence", None}
      BY <1>2
    <2> QED
      BY <2>1, <2>2, NoticeLeavesMail
  <1> HIDE DEF ls
  <1>6. CASE h.override = None /\ Reassess(status, earlierCycle, h.uw, ls)
    <2>1. Serial!Reassess(status, h.uw) /\ CInv'
      BY <1>1, <1>2, <1>5, <1>6, ReassessMaps
    <2>2. d \in Serial!UwDecisions
      BY <1>1 DEF UwDecisions, Serial!UwDecisions
    <2>3. Serial!Redecide(d)
      BY <1>4, <1>6, <2>1 DEF Serial!Redecide
    <2> QED
      BY <2>1, <2>2, <2>3 DEF Serial!Next
  <1>7. CASE h.override = "PendingUwAps" /\ h.override # None
    <2>1. MailOf(letters') = CancelAllForPolicy(MailOf(letters)) /\ CInv'
      BY <1>3, <1>5, <1>7, MailCancelled DEF CInv
    <2>2. MailOf(letters') = Serial!CancelAllForPolicy(MailOf(letters))
      BY <2>1, SameMail
    <2>3. d = "Aps" /\ h.uw = uw
      BY <1>2, <1>7, <1>1 DEF TypeOK
    <2>4. Serial!AwaitMedicalEvidence
      BY <1>1, <1>3, <1>4, <1>7, <2>2, <2>3 DEF Serial!AwaitMedicalEvidence
    <2> QED
      BY <2>1, <2>4 DEF Serial!Next
  <1>8. CASE h.override # "PendingUwAps" /\ h.override # None
    BY <1>1, <1>2, <1>3, <1>5, <1>8 DEF Serial!vars, CInv
  <1> QED
    BY <1>3, <1>6, <1>7, <1>8

LEMMA MarkRiderStatusMaps ==
  ASSUME TypeOK, CInv, NEW r \in Riders, NEW target \in MarkTargets, MarkRiderStatus(r, target)
  PROVE  Serial!Next /\ CInv'
  <1> DEFINE st == [status EXCEPT ![r] = target]
             earlier == earlierCycle \ {r}
             ls == DecisionLetterStep(letters, DecisionLetterFor(target), st, earlier)
  <1>1. target \in AdverseDecisions /\ status' = st /\ facts' = facts
        /\ Reassess(st, earlier, uw, ls)
    BY DEF MarkRiderStatus, AllowedTargetStatuses
  <1>2. DecisionLetterFor(target) \in NoticeType
    BY <1>1 DEF AdverseDecisions, DecisionLetterFor, NoticeType
  <1>3. r \in Serial!Riders /\ target \in Serial!ProductStatus
        /\ target \in Serial!AdverseDecisions
    BY <1>1 DEF Riders, Serial!Riders, AdverseDecisions, Serial!AdverseDecisions,
                Serial!ProductStatus
  <1> HIDE DEF st, earlier
  <1>4. ls \subseteq Letter /\ AllCurrent(ls) /\ MailOf(ls) = MailOf(letters)
    <2>1. letters \subseteq Letter /\ AllCurrent(letters)
      BY DEF TypeOK, CInv
    <2>2. DecisionLetterFor(target) \in NoticeType \cup {"MedicalEvidence", None}
      BY <1>2
    <2> QED
      BY <2>1, <2>2, NoticeLeavesMail
  <1> HIDE DEF ls
  <1>5. Serial!Reassess(st, uw) /\ CInv'
    BY <1>1, <1>4, ReassessMaps DEF TypeOK
  <1>6. Serial!ChangeRider(r, target)
    BY <1>3, <1>5 DEF Serial!ChangeRider, st
  <1> QED
    BY <1>3, <1>5, <1>6 DEF Serial!Next

LEMMA ReAddRiderMaps ==
  ASSUME TypeOK, CInv, NEW r \in Riders, ReAddRider(r)
  PROVE  Serial!Next /\ CInv'
  <1> DEFINE st == [status EXCEPT ![r] = "Active"]
             earlier == earlierCycle \ {r}
  <1>1. status[r] \in AdverseDecisions /\ status' = st /\ facts' = facts
        /\ Reassess(st, earlier, uw, letters)
    BY DEF ReAddRider, ReversibleFrom
  <1>2. r \in Serial!Riders /\ "Active" \in Serial!ProductStatus
        /\ status[r] \in Serial!AdverseDecisions
    BY <1>1 DEF Riders, Serial!Riders, AdverseDecisions, Serial!AdverseDecisions,
                Serial!ProductStatus
  <1> HIDE DEF st, earlier
  <1>3. Serial!Reassess(st, uw) /\ CInv'
    BY <1>1, ReassessMaps DEF TypeOK, CInv
  <1>4. Serial!ChangeRider(r, "Active")
    BY <1>2, <1>3 DEF Serial!ChangeRider, st
  <1> QED
    BY <1>2, <1>3, <1>4 DEF Serial!Next

LEMMA RouteMaps ==
  ASSUME CInv, RouteToManualUnderwriting
  PROVE  Serial!Next /\ CInv'
  <1>1. Serial!RouteToManualUnderwriting
    BY DEF RouteToManualUnderwriting, Serial!RouteToManualUnderwriting
  <1> QED
    BY <1>1 DEF Serial!Next, RouteToManualUnderwriting, CInv

\* Writes of other systems are those SerialPolicy allows for.
LEMMA ElsewhereMaps ==
  ASSUME TypeOK, CInv, CustomerAccepts \/ CashCollected \/ CpfRejects \/ UwCycleCompletes
  PROVE  [Serial!Next]_Serial!vars /\ CInv'
  <1>1. CInv' /\ MailOf(letters') = MailOf(letters)
    BY DEF CInv, CustomerAccepts, CashCollected, CpfRejects, UwCycleCompletes
  <1>2. CASE CustomerAccepts
    <2>1. PICK o \in IF uw.rcmpOptionEnabled THEN {"Option1", "Option2"} ELSE {uw.rcmpOption} :
            uw' = [uw EXCEPT !.acceptCloa = "Yes", !.rcmpOption = o]
      BY <1>2 DEF CustomerAccepts
    <2>2. o \in Serial!RcmpOption
      BY DEF TypeOK, UWState, RcmpOption, Serial!RcmpOption
    <2>3. Serial!Elsewhere
      BY <1>1, <1>2, <2>1, <2>2 DEF CustomerAccepts, Serial!Elsewhere
    <2> QED
      BY <1>1, <2>3 DEF Serial!Next
  <1>3. CASE CashCollected
    BY <1>1, <1>3 DEF CashCollected, Serial!Elsewhere, Serial!Paid, Serial!Next
  <1>4. CASE CpfRejects
    BY <1>1, <1>4 DEF CpfRejects, Serial!Elsewhere, Serial!Next
  <1>5. CASE UwCycleCompletes
    BY <1>1, <1>5 DEF UwCycleCompletes, Serial!vars
  <1> QED
    BY <1>2, <1>3, <1>4, <1>5

LEMMA InitMaps == Init => Serial!Init /\ CInv
  <1> SUFFICES ASSUME Init PROVE Serial!Init /\ CInv
    OBVIOUS
  <1>1. TypeOK
    BY InitStep DEF IInv
  <1>2. MailOf(letters) = {} /\ CInv
    BY DEF Init, MailOf, CInv, AllCurrent
  <1>3. facts \in Serial!Facts
    BY <1>1 DEF TypeOK, Facts, Serial!Facts
  <1>4. /\ status \in [Plans -> Serial!ProductStatus]
        /\ substatus \in Serial!PolicySubstatus
    BY <1>1 DEF TypeOK, ProductStatus, Serial!ProductStatus, PolicySubstatus,
                Serial!PolicySubstatus
  <1>5. uw \in Serial!UWState
    BY <1>1 DEF TypeOK, UWState, Serial!UWState, AcceptCloa, Serial!AcceptCloa, RcmpOption,
                Serial!RcmpOption, RiskComposition, Serial!RiskComposition
  <1> QED
    BY <1>2, <1>3, <1>4, <1>5 DEF Serial!Init

LEMMA NextMaps == TypeOK /\ CInv /\ [Next]_vars => [Serial!Next]_Serial!vars /\ CInv'
  <1> SUFFICES ASSUME TypeOK, CInv, [Next]_vars
               PROVE  [Serial!Next]_Serial!vars /\ CInv'
    OBVIOUS
  <1>1. CASE ResubmitForManualUw \/ SaveUnderwritingTab
    BY <1>1, RouteMaps DEF ResubmitForManualUw, SaveUnderwritingTab
  <1>2. CASE UNCHANGED vars
    <2>1. MailOf(letters') = MailOf(letters)
      BY <1>2 DEF vars
    <2> QED
      BY <1>2, <2>1 DEF vars, Serial!vars, CInv
  <1>3. CASE CustomerAccepts \/ CashCollected \/ CpfRejects \/ UwCycleCompletes
    BY <1>3, ElsewhereMaps
  <1>4. ASSUME NEW d \in Decisions, UwDecision(d)
        PROVE  [Serial!Next]_Serial!vars /\ CInv'
    BY <1>4, UwDecisionMaps
  <1>5. ASSUME NEW r \in Riders, NEW target \in MarkTargets, MarkRiderStatus(r, target)
        PROVE  [Serial!Next]_Serial!vars /\ CInv'
    BY <1>5, MarkRiderStatusMaps
  <1>6. ASSUME NEW r \in Riders, ReAddRider(r)
        PROVE  [Serial!Next]_Serial!vars /\ CInv'
    BY <1>6, ReAddRiderMaps
  <1> QED
    BY <1>1, <1>2, <1>3, <1>4, <1>5, <1>6 DEF Next

\* The command layer implements SerialPolicy.
THEOREM CommandsSerial == Spec => ImplementsSerialPolicy
  BY InitMaps, NextMaps, TypeCorrect, PTL DEF Spec, ImplementsSerialPolicy, Serial!Spec
=============================================================================
