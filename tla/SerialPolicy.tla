---------------------------- MODULE SerialPolicy ----------------------------
(***************************************************************************)
(* What the command layer promises about one policy: its riders, its       *)
(* substatus, its UW fields and its customer letters (LOA and CLOA, here   *)
(* "mail") change together, one command at a time, and whenever a rider    *)
(* changes all four are what the evaluator makes of the new plans.         *)
(* Decision letters, audit entries, transactions and concurrent requests   *)
(* do not appear here.                                                     *)
(***************************************************************************)
EXTENDS EntryPoints, Letters

VARIABLES facts, status, substatus, uw, mail

vars == <<facts, status, substatus, uw, mail>>

Paid(f) == [f EXCEPT !.shortfall = FALSE]

\* A payment may have come in just before.
Reassess(st, current) ==
  /\ Active(st) # {}
  /\ status' = st
  /\ facts' \in {facts, Paid(facts)}
  /\ LET e == EvaluateAfterAction(Active(st), current, facts')
     IN  /\ substatus' = e.substatus
         /\ uw' = e.uw
         /\ mail' = IF e.letter = None THEN mail
                    ELSE Generate(mail, e.letter, st, {},
                                  ShouldScheduleReminders(e.letter, e.uw, facts'))

\* A rider leaves, or one that left comes back.
ChangeRider(r, new) ==
  /\ new \in AdverseDecisions \/ (new = "Active" /\ status[r] \in AdverseDecisions)
  /\ Reassess([status EXCEPT ![r] = new], uw)

\* UW decides on the policy as it stands.
Redecide(d) ==
  /\ Routable(substatus, d)
  /\ Handle(substatus, uw, d).override = None
  /\ Reassess(status, Handle(substatus, uw, d).uw)

AwaitMedicalEvidence ==
  /\ Routable(substatus, "Aps")
  /\ substatus' = "PendingUwAps"
  /\ mail' = CancelAllForPolicy(mail)
  /\ UNCHANGED <<facts, status, uw>>

RouteToManualUnderwriting ==
  /\ substatus' = "PendingManualUnderwriting"
  /\ UNCHANGED <<facts, status, uw, mail>>

\* Other systems record a reply, a payment or a rejected CPF deduction.
Elsewhere ==
  \/ /\ uw.acceptCloa = "Blank"
     /\ \E o \in RcmpOption : uw' = [uw EXCEPT !.acceptCloa = "Yes", !.rcmpOption = o]
     /\ UNCHANGED <<facts, status, substatus, mail>>
  \/ /\ facts' = Paid(facts)
     /\ UNCHANGED <<status, substatus, uw, mail>>
  \/ /\ substatus = "PendingIpRequestFile"
     /\ substatus' = "PendingIpResponseFileCpfRejected"
     /\ UNCHANGED <<facts, status, uw, mail>>

Init ==
  /\ facts \in Facts
  /\ status \in [Plans -> ProductStatus]
  /\ substatus \in PolicySubstatus
  /\ uw \in UWState
  /\ mail = {}

Next ==
  \/ \E r \in Riders, new \in ProductStatus : ChangeRider(r, new)
  \/ \E d \in UwDecisions : Redecide(d)
  \/ AwaitMedicalEvidence
  \/ RouteToManualUnderwriting
  \/ Elsewhere

Spec == Init /\ [][Next]_vars
=============================================================================
