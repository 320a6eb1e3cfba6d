------------------------------ MODULE Premiums ------------------------------
(***************************************************************************)
(* The premium collection table of one policy and the recalculator that    *)
(* brings it up to date with the plans.  Amounts are whole numbers of one  *)
(* currency, the only one the code creates.  No command calls the          *)
(* recalculator yet, so it may run at any time and any number of times,    *)
(* between the changes of riders its callers are meant to follow it with.  *)
(***************************************************************************)
EXTENDS Integers, Functions

CONSTANTS
  Plans, Base,
  GrossPremium,  \* the premium of each plan
  Openings,      \* tables the policy may come with
  Payments,      \* amounts a customer may pay at once
  MaxCash        \* bound on each amount collected, refunded or unallocated

Riders == Plans \ {Base}

LinkedPremium(rs) == SumFunctionOnSet(GrossPremium, rs)

PremiumCollection ==
  [ baseToCollect : Nat, baseCollected : Nat,
    linkedRidersToCollect : Nat, linkedRidersCollected : Nat,
    unallocatedCash : Nat ]

ASSUME BaseAssumption    == Base \in Plans
ASSUME PremiumAssumption ==
  /\ GrossPremium \in [Plans -> Nat]
  /\ \A rs \in SUBSET Riders : LinkedPremium(rs) \in Nat
ASSUME MoneyAssumption ==
  /\ Openings \subseteq PremiumCollection
  /\ Payments \subseteq Nat
  /\ MaxCash \in Nat

VARIABLES
  active,   \* the plans whose Status is Active
  pc,       \* the PremiumCollections row
  opening,  \* history: unallocated cash the policy came with
  refunded, \* history: unallocated cash Finance has paid out
  detected, \* history: the largest excess a recalculation has returned
  settled   \* history: a recalculation has seen these plans

vars == <<active, pc, opening, refunded, detected, settled>>
-----------------------------------------------------------------------------
\* Mutant: no floor.
NotFloored(amount) == amount

\* Mutant: a surplus counts as a shortfall.
AbsoluteAmount(amount) == IF amount > 0 THEN amount ELSE 0 - amount

FlooredAtZero(amount) == IF amount > 0 THEN amount ELSE 0

BaseShortfall(p) == FlooredAtZero(p.baseToCollect - p.baseCollected)
LinkedRidersShortfall(p) ==
  FlooredAtZero(p.linkedRidersToCollect - p.linkedRidersCollected)

\* Mutant: an excess on one side makes up for a shortfall on the other.
NetShortfall(p) ==
  FlooredAtZero(p.baseToCollect + p.linkedRidersToCollect
                  - p.baseCollected - p.linkedRidersCollected)

TotalShortfall(p) == BaseShortfall(p) + LinkedRidersShortfall(p)

\* What the Active plans cost, base and linked riders apart.
BaseDue(plans)         == IF Base \in plans THEN GrossPremium[Base] ELSE 0
LinkedRidersDue(plans) == LinkedPremium(plans \cap Riders)

\* RecalcResult.TotalExcess.
TotalExcess(p, plans) ==
  FlooredAtZero(p.baseCollected - BaseDue(plans))
    + FlooredAtZero(p.linkedRidersCollected - LinkedRidersDue(plans))

\* Mutant: the excess replaces the unallocated cash.
RecalculatedAfresh(p, plans) ==
  [p EXCEPT !.baseToCollect         = BaseDue(plans),
            !.linkedRidersToCollect = LinkedRidersDue(plans),
            !.unallocatedCash = IF TotalExcess(p, plans) > 0
                                THEN TotalExcess(p, plans) ELSE @]

\* PremiumCollectionRecalculator.Recalculate on the table p.
Recalculated(p, plans) ==
  [p EXCEPT !.baseToCollect         = BaseDue(plans),
            !.linkedRidersToCollect = LinkedRidersDue(plans),
            !.unallocatedCash       = @ + TotalExcess(p, plans)]
-----------------------------------------------------------------------------
Recalculate ==
  /\ Recalculated(pc, active).unallocatedCash <= MaxCash
  /\ pc' = Recalculated(pc, active)
  /\ detected' = IF TotalExcess(pc, active) > detected
                 THEN TotalExcess(pc, active) ELSE detected
  /\ settled' = TRUE
  /\ UNCHANGED <<active, opening, refunded>>

\* MarkRiderStatus and ReAddRider write the status and leave the table alone.
RiderLeaves(r) ==
  /\ r \in Riders
  /\ active' = active \ {r}
  /\ settled' = (settled /\ r \notin active)
  /\ UNCHANGED <<pc, opening, refunded, detected>>

RiderReturns(r) ==
  /\ r \in Riders
  /\ active' = active \cup {r}
  /\ settled' = (settled /\ r \in active)
  /\ UNCHANGED <<pc, opening, refunded, detected>>

\* Finance books a payment for the base plan or for the linked riders ...
PayBase(amount) ==
  /\ pc.baseCollected + amount <= MaxCash
  /\ pc' = [pc EXCEPT !.baseCollected = @ + amount]
  /\ UNCHANGED <<active, opening, refunded, detected, settled>>

PayLinkedRiders(amount) ==
  /\ pc.linkedRidersCollected + amount <= MaxCash
  /\ pc' = [pc EXCEPT !.linkedRidersCollected = @ + amount]
  /\ UNCHANGED <<active, opening, refunded, detected, settled>>

\* ... and draws the unallocated cash down when it processes a refund.
Refund(amount) ==
  /\ pc.unallocatedCash >= amount
  /\ refunded + amount <= MaxCash
  /\ pc' = [pc EXCEPT !.unallocatedCash = @ - amount]
  /\ refunded' = refunded + amount
  /\ UNCHANGED <<active, opening, detected, settled>>

Init ==
  /\ active \in SUBSET Plans
  /\ pc \in Openings
  /\ opening = pc.unallocatedCash
  /\ refunded = 0
  /\ detected = 0
  /\ settled = FALSE

Next ==
  \/ Recalculate
  \/ \E r \in Riders : RiderLeaves(r)
  \/ \E r \in Riders : RiderReturns(r)
  \/ \E amount \in Payments : PayBase(amount)
  \/ \E amount \in Payments : PayLinkedRiders(amount)
  \/ \E amount \in Payments : Refund(amount)

Spec == Init /\ [][Next]_vars
-----------------------------------------------------------------------------
\* Amounts never go below zero, whatever order the table is written in.
TypeOK ==
  /\ active \subseteq Plans
  /\ pc \in PremiumCollection
  /\ opening \in Nat
  /\ refunded \in Nat
  /\ detected \in Nat
  /\ settled \in BOOLEAN

\* Once a recalculation has seen the plans, and until a rider changes, the
\* shortfall the evaluators read is what the Active plans still owe, bucket by
\* bucket, however many payments and refunds come in between: an overpaid base
\* never hides a rider that is not paid for.
ShortfallIsOwed ==
  settled =>
    /\ TotalShortfall(pc) = 0 <=> /\ pc.baseCollected >= BaseDue(active)
                                  /\ pc.linkedRidersCollected >= LinkedRidersDue(active)
    /\ BaseDue(active) + LinkedRidersDue(active)
         <= pc.baseCollected + pc.linkedRidersCollected + TotalShortfall(pc)

\* Excess that a recalculation ever reported is in the unallocated cash or has
\* been refunded, on top of what the policy came with: a later recalculation,
\* a returning rider or a refund never makes it disappear.
ExcessIsKept == pc.unallocatedCash + refunded >= opening + detected

\* The recalculator "Move[s] any newly-detected excess into UnallocatedCash".
\* The excess of an earlier call is detected, and moved, again.
ExcessMovedOnce == pc.unallocatedCash + refunded <= opening + detected
=============================================================================
