---------------------------- MODULE PremiumGate ----------------------------
(***************************************************************************)
(* AdditionOfRider together with the premium collection table its shortfall*)
(* comes from.  The commands read the table and never write it; payments   *)
(* change what is collected, base and linked riders apart.                 *)
(***************************************************************************)
EXTENDS AdditionOfRider, Integers

CONSTANTS
  GrossPremium,  \* the premium of each plan
  MaxCash        \* bound on each amount collected

VARIABLE pc

Table == INSTANCE Premiums WITH
  active <- Active(status), Openings <- {}, Payments <- 1..MaxCash,
  opening <- 0, refunded <- 0, detected <- 0, settled <- FALSE

ASSUME TableAssumption ==
  /\ GrossPremium \in [Plans -> Nat]
  /\ \A rs \in SUBSET Riders : Table!LinkedPremium(rs) \in Nat
  /\ MaxCash \in Nat

\* What is to collect covers the Active plans the policy comes with, and perhaps
\* riders that have left since.
InitWithTable ==
  /\ Init
  /\ pc \in [ baseToCollect : {Table!BaseDue(Active(status))},
              baseCollected : 0..MaxCash,
              linkedRidersToCollect :
                {Table!LinkedRidersDue(Active(status) \cup rs) : rs \in SUBSET Riders},
              linkedRidersCollected : 0..MaxCash,
              unallocatedCash : {0} ]
  /\ facts.shortfall = (Table!TotalShortfall(pc) > 0)

\* A payment, whole or in part; the evaluators see TotalShortfall.IsPositive.
Pay ==
  /\ \E bucket \in {"baseCollected", "linkedRidersCollected"}, amount \in 1..MaxCash :
       /\ pc[bucket] + amount <= MaxCash
       /\ pc' = [pc EXCEPT ![bucket] = @ + amount]
  /\ facts' = [facts EXCEPT !.shortfall = Table!TotalShortfall(pc') > 0]
  /\ UNCHANGED <<status, earlierCycle, substatus, uw, letters, audited>>

Command ==
  \/ \E d \in Decisions : UwDecision(d)
  \/ \E r \in Riders, target \in MarkTargets : MarkRiderStatus(r, target)
  \/ \E r \in Riders : ReAddRider(r)
  \/ ResubmitForManualUw
  \/ SaveUnderwritingTab

NextWithTable ==
  \/ (Command \/ CustomerAccepts \/ CpfRejects \/ UwCycleCompletes) /\ UNCHANGED pc
  \/ Pay

SpecWithTable == InitWithTable /\ [][NextWithTable]_<<vars, pc>>
-----------------------------------------------------------------------------
\* Whatever payments of whatever bucket come in between, no command sends a
\* policy to its IP file or incepts it while the table shows premium to collect
\* on either side: an overpaid base does not pay for a rider.
PaidBeforeIssue ==
  [][substatus' # substatus /\ substatus' \in {"PendingIpRequestFile", "PolicyIncepted"} =>
       /\ pc.baseCollected >= pc.baseToCollect
       /\ pc.linkedRidersCollected >= pc.linkedRidersToCollect]_<<vars, pc>>

\* The commands cannot tell the table from the one flag AdditionOfRider has for
\* it: payments clear the flag once, and nothing sets it again.
ImplementsAdditionOfRider == Spec

\* FR-AOR-030 makes "Recalculate Premium Summary + Premium Collection" step 1
\* of what follows a rider change, so that substatus and letters are
\* "consistent with remaining active plans": a policy that awaits cash after a
\* rider changed is one whose Active plans are not paid for.  The commands
\* read the table as it was before the change.
CashAwaitedIsOwed ==
  [][status' # status /\ substatus' = "PendingCashCollection" =>
       \/ pc.baseCollected < Table!BaseDue(Active(status'))
       \/ pc.linkedRidersCollected < Table!LinkedRidersDue(Active(status'))]_<<vars, pc>>
=============================================================================
