--------------------------- MODULE AdditionOfRider ---------------------------
(***************************************************************************)
(* The commands of MOHProject.Application/Features/AdditionOfRider on one  *)
(* policy, each running alone: its database transaction is one step.  The  *)
(* module PolicyCommands splits the same commands into their steps.        *)
(***************************************************************************)
EXTENDS EntryPoints, Letters

CONSTANTS
  InitialFacts,     \* facts a policy may come with
  InitialStatus,    \* statuses its riders may come with
  Decisions,        \* decisions UW may send
  MarkTargets       \* statuses a user may mark a rider with

AllowedTargetStatuses == AdverseDecisions
ReversibleFrom        == AdverseDecisions
ResubmitAllowedFrom ==
  { "PendingUwAps", "ConditionalAcceptanceLetterGenerated",
    "PendingCashCollection", "PendingIpRequestFile" }

ASSUME InputAssumption ==
  /\ InitialFacts \subseteq Facts
  /\ InitialStatus \subseteq ProductStatus
  /\ Decisions \subseteq UwDecisions
  /\ MarkTargets \subseteq AllowedTargetStatuses

VARIABLES
  facts,        \* what the evaluators read and no command writes
  status,       \* Plan.Status of every plan
  earlierCycle, \* plans whose StatusChangedAt predates Policy.UwCompletedAt
  substatus,    \* Policy.Substatus
  uw,           \* the UWState row the policy points to
  letters,      \* Letters rows (with their reminders) still acted upon
  audited       \* the substatus the last audit entry accounts for

vars == <<facts, status, earlierCycle, substatus, uw, letters, audited>>
-----------------------------------------------------------------------------
\* The decision letter of a command, when it has one.
DecisionLetterStep(ls, type, st, earlier) ==
  IF type = None THEN ls ELSE Generate(ls, type, st, earlier, FALSE)

\* Mutant: no new main letter while one of its type is current.
MainLetterStepOnce(ls, e, st, earlier) ==
  IF e.letter = None \/ \E l \in ls : l.current /\ l.type = e.letter THEN ls
  ELSE Generate(ls, e.letter, st, earlier,
                ShouldScheduleReminders(e.letter, e.uw, facts))

\* The LOA or CLOA the evaluator asks for, with its reminders.
MainLetterStep(ls, e, st, earlier) ==
  IF e.letter = None THEN ls
  ELSE Generate(ls, e.letter, st, earlier,
                ShouldScheduleReminders(e.letter, e.uw, facts))
-----------------------------------------------------------------------------
\* Mutant: the evaluator sees the plans as they were before the command.
ReassessOldPlans(st, earlier, current, ls) ==
  LET e    == EvaluateAfterAction(Active(status), current, facts)
      sent == MainLetterStep(ls, e, st, earlier)
  IN  /\ Active(status) # {}
      /\ substatus' = e.substatus
      /\ uw' = e.uw
      /\ letters' = sent
      /\ audited' = e.substatus

\* Mutant: the audit entry is written from the substatus the command found.
ReassessAuditedEarly(st, earlier, current, ls) ==
  LET e    == EvaluateAfterAction(Active(st), current, facts)
      sent == MainLetterStep(ls, e, st, earlier)
  IN  /\ Active(st) # {}
      /\ substatus' = e.substatus
      /\ uw' = e.uw
      /\ letters' = sent
      /\ audited' = substatus

(***************************************************************************)
(* The tail all evaluating commands share: evaluate the plans st from the  *)
(* UW fields current, apply the result, issue the main letter, cancel the  *)
(* reminders if APS is now awaited, save and audit.  With no Active plan   *)
(* the evaluator throws and the transaction rolls back.                    *)
(***************************************************************************)
Reassess(st, earlier, current, ls) ==
  LET e    == EvaluateAfterAction(Active(st), current, facts)
      sent == MainLetterStep(ls, e, st, earlier)
  IN  /\ Active(st) # {}
      /\ substatus' = e.substatus
      /\ uw' = e.uw
      /\ letters' = IF e.substatus = "PendingUwAps"
                    THEN CancelAllForPolicy(sent) ELSE sent
      /\ audited' = e.substatus

\* UwDecisionCommandHandler: no branch of it changes a plan's status.
UwDecision(d) ==
  /\ Routable(substatus, d)
  /\ LET directive == Handle(substatus, uw, d)
         ls == DecisionLetterStep(letters, directive.letter, status, earlierCycle)
         next == directive.override
     IN  \/ /\ next = None
            /\ Reassess(status, earlierCycle, directive.uw, ls)
         \/ /\ next # None
            /\ substatus' = next
            /\ uw' = directive.uw
            /\ letters' = IF next = "PendingUwAps" THEN CancelAllForPolicy(ls) ELSE ls
            /\ audited' = next
  /\ UNCHANGED <<facts, status, earlierCycle>>

\* Mutant: the change of status is not stamped with the current time.
MarkRiderStatusUnstamped(r, target) ==
  LET st == [status EXCEPT ![r] = target]
      ls == DecisionLetterStep(letters, DecisionLetterFor(target), st, earlierCycle)
  IN  /\ target \in AllowedTargetStatuses
      /\ r # Base
      /\ Reassess(st, earlierCycle, uw, ls)
      /\ status' = st
      /\ UNCHANGED <<facts, earlierCycle>>

\* MarkRiderStatusCommandHandler: any non-base plan, whatever its status and
\* whatever the policy's substatus.
MarkRiderStatus(r, target) ==
  LET st == [status EXCEPT ![r] = target]
      earlier == earlierCycle \ {r}
      ls == DecisionLetterStep(letters, DecisionLetterFor(target), st, earlier)
  IN  /\ target \in AllowedTargetStatuses
      /\ r # Base
      /\ Reassess(st, earlier, uw, ls)
      /\ status' = st
      /\ earlierCycle' = earlier
      /\ UNCHANGED facts

\* Mutant: a rider is re-added whatever its status.
ReAddRiderFromAny(r) ==
  LET st == [status EXCEPT ![r] = "Active"]
      earlier == earlierCycle \ {r}
  IN  /\ r # Base
      /\ Reassess(st, earlier, uw, letters)
      /\ status' = st
      /\ earlierCycle' = earlier
      /\ UNCHANGED facts

\* ReAddRiderCommandHandler.
ReAddRider(r) ==
  LET st == [status EXCEPT ![r] = "Active"]
      earlier == earlierCycle \ {r}
  IN  /\ r # Base
      /\ status[r] \in ReversibleFrom
      /\ Reassess(st, earlier, uw, letters)
      /\ status' = st
      /\ earlierCycle' = earlier
      /\ UNCHANGED facts

\* SaveAsync and WriteAsync commit separately in the next two handlers.  The
\* second is lost when the process stops in between or when WriteAsync throws
\* on a blank actor id.
RouteToManualUnderwriting ==
  /\ substatus' = "PendingManualUnderwriting"
  /\ audited' \in {audited, "PendingManualUnderwriting"}
  /\ UNCHANGED <<facts, status, earlierCycle, uw, letters>>

\* ResubmitForManualUwCommandHandler.
ResubmitForManualUw ==
  /\ substatus \in ResubmitAllowedFrom
  /\ RouteToManualUnderwriting

\* SaveUnderwritingTabCommandHandler: a no-op unless some plan is a draft.
SaveUnderwritingTab ==
  /\ \E p \in Plans : status[p] = "Draft"
  /\ RouteToManualUnderwriting
-----------------------------------------------------------------------------
(***************************************************************************)
(* What other systems write into the same rows.                            *)
(***************************************************************************)
\* The customer's signed CLOA reply is recorded: the evaluators read the
\* answers, nothing in this code base sets them.
CustomerAccepts ==
  /\ substatus = "ConditionalAcceptanceLetterGenerated"
  /\ uw.acceptCloa = "Blank"
  /\ \E o \in IF uw.rcmpOptionEnabled THEN {"Option1", "Option2"} ELSE {uw.rcmpOption} :
       uw' = [uw EXCEPT !.acceptCloa = "Yes", !.rcmpOption = o]
  /\ UNCHANGED <<facts, status, earlierCycle, substatus, letters, audited>>

\* Finance collects the outstanding premium.
CashCollected ==
  /\ facts.shortfall
  /\ facts' = [facts EXCEPT !.shortfall = FALSE]
  /\ UNCHANGED <<status, earlierCycle, substatus, uw, letters, audited>>

\* The CPF board's response file rejects the deduction.
CpfRejects ==
  /\ substatus = "PendingIpRequestFile"
  /\ substatus' = "PendingIpResponseFileCpfRejected"
  /\ audited' = "PendingIpResponseFileCpfRejected"
  /\ UNCHANGED <<facts, status, earlierCycle, uw, letters>>

\* A UW cycle completes: every rider marked so far belongs to an earlier one.
\* Statuses letters report are only set together with StatusChangedAt.
UwCycleCompletes ==
  /\ earlierCycle' = {p \in Plans : status[p] \in AdverseDecisions}
  /\ UNCHANGED <<facts, status, substatus, uw, letters, audited>>
-----------------------------------------------------------------------------
\* A policy as another journey left it: UW fields the evaluators would give,
\* a substatus that fits them, and no letter of this journey yet.
Init ==
  /\ facts \in InitialFacts
  /\ status \in [Plans -> InitialStatus]
  /\ status[Base] \in {"Active", "Draft"}
  /\ earlierCycle \in {{}, {p \in Plans : status[p] \in AdverseDecisions}}
  /\ \E a \in AcceptCloa, o \in RcmpOption :
       uw = UwFieldStates([acceptCloa |-> a, rcmpOption |-> o],
                          Composition(Active(status), facts), facts)
  /\ substatus \in PolicySubstatus
  /\ substatus \in PastAcceptance => TermsAccepted(uw)
  /\ substatus = "ConditionalAcceptanceLetterGenerated"
       => uw.currentComposition # "AllStandard"
  /\ letters = {}
  /\ audited = substatus

Next ==
  \/ \E d \in Decisions : UwDecision(d)
  \/ \E r \in Riders, target \in MarkTargets : MarkRiderStatus(r, target)
  \/ \E r \in Riders : ReAddRider(r)
  \/ ResubmitForManualUw
  \/ SaveUnderwritingTab
  \/ CustomerAccepts
  \/ CashCollected
  \/ CpfRejects
  \/ UwCycleCompletes

Spec == Init /\ [][Next]_vars
-----------------------------------------------------------------------------
\* Every row holds values of its columns' types.
TypeOK ==
  /\ facts \in Facts
  /\ status \in [Plans -> ProductStatus]
  /\ earlierCycle \subseteq Plans
  /\ substatus \in PolicySubstatus
  /\ uw \in UWState
  /\ letters \subseteq Letter
  /\ audited \in PolicySubstatus

\* The UW tab always shows the composition of the plans that are Active now:
\* no command changes a rider without re-running the evaluator on the result.
UwFieldsMatchPlans ==
  uw.currentComposition = Composition(Active(status), facts)

\* A policy is past the acceptance gate of FR-AOR-032 (cash, IP file, issued)
\* only with nothing left to accept, whichever commands took it there.
TermsAcceptedBeforeIssue ==
  substatus \in PastAcceptance => TermsAccepted(uw)

\* While APS is awaited no reminder of any letter is scheduled.
NoRemindersAwaitingAps ==
  substatus = "PendingUwAps" => \A l \in letters : ~l.scheduled

\* At most one letter of a type is current, and only a current letter has
\* reminders ahead of it.
LettersSuperseded ==
  /\ \A l \in letters : l.scheduled => l.current
  /\ \A l, m \in letters : l.current /\ m.current /\ l.type = m.type => l = m

\* In a substatus where the customer is to answer or pay, the current letter
\* for the policy's composition lists exactly the Active plans.
CurrentLetterCoversActive ==
  substatus \in LetterGeneratingSubstatuses =>
    \A l \in letters :
      l.current /\ l.type = MainLetterFor(uw.currentComposition)
        => l.plans = Active(status)

\* Evaluating again what an evaluation produced changes nothing: no second
\* letter type, no other substatus, no answer lost.
EvaluatorIdempotent ==
  Active(status) # {} =>
    LET e == EvaluateAfterAction(Active(status), uw, facts)
    IN  EvaluateAfterAction(Active(status), e.uw, facts) = e

\* A decision letter that lists a rider of an earlier UW cycle is one issued in
\* that cycle: no letter of a later cycle lists it again.
NoticesOmitEarlierCycles ==
  [][\A l \in letters' :
       l.current /\ l.type \in NoticeType =>
         \/ l.plans \cap earlierCycle' = {}
         \/ \E m \in letters : m.current /\ m.type = l.type /\ m.plans = l.plans]_vars

\* A rider that becomes NTU, declined or postponed is named by the decision
\* letter of the same transaction.
NoticeNamesRider ==
  [][\A r \in Riders :
       status'[r] # status[r] /\ status'[r] \in AdverseDecisions =>
         \E l \in letters' :
           /\ l.current /\ r \in l.plans
           /\ l.type = DecisionLetterFor(status'[r])]_vars

\* Whenever a rider or the substatus has changed and the customer is now to
\* answer or to pay, the current letter for the new composition lists the
\* Active plans and its reminders are scheduled, whatever letters of the other
\* types are still about.
CustomerIsReminded ==
  [][(status' # status \/ substatus' # substatus)
       /\ substatus' \in LetterGeneratingSubstatuses
       => \E l \in letters' :
            /\ l.current /\ l.scheduled
            /\ l.type = MainLetterFor(uw'.currentComposition)
            /\ l.plans = Active(status')]_vars

\* Once every Active plan was standard the customer's earlier answer is gone:
\* a change that brings an exclusion back goes to the customer again.  The
\* renewal exception keeps the answer.
ExclusionAsksAgain ==
  [][uw.currentComposition = "AllStandard" /\ uw'.currentComposition # "AllStandard"
       => \/ substatus' = "ConditionalAcceptanceLetterGenerated"
          \/ RenewalKeepsRcmp(facts)]_vars

\* The audit trail accounts for every change of substatus, the routing to
\* manual underwriting excepted.
OnlyManualRoutingUnaudited ==
  [][substatus' # substatus =>
       audited' = substatus' \/ substatus' = "PendingManualUnderwriting"]_vars

\* The commands, each one transaction, do to the riders, the substatus, the UW
\* fields and the customer letters what SerialPolicy allows and nothing else.
Serial == INSTANCE SerialPolicy WITH mail <- MailOf(letters)
ImplementsSerialPolicy == Serial!Spec
=============================================================================
