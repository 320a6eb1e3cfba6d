-------------------------- MODULE Premiums_proofs --------------------------
(***************************************************************************)
(* Amounts never go negative, the shortfall shown after a recalculation is *)
(* what the Active plans owe, and no reported excess is lost: for every    *)
(* set of plans, premiums, payments and bound.                             *)
(***************************************************************************)
EXTENDS Premiums, TLAPS

\* What a recalculation leaves behind while no rider changes.
TableIsSettled ==
  settled => /\ pc.baseToCollect = BaseDue(active)
             /\ pc.linkedRidersToCollect = LinkedRidersDue(active)

IInv == TypeOK /\ TableIsSettled /\ ExcessIsKept
-----------------------------------------------------------------------------
\* What any set of Active plans costs is a natural number.
LEMMA DueType ==
  ASSUME NEW plans \in SUBSET Plans
  PROVE  BaseDue(plans) \in Nat /\ LinkedRidersDue(plans) \in Nat
<1>1. BaseDue(plans) \in Nat
  BY BaseAssumption, PremiumAssumption DEF BaseDue
<1>2. LinkedRidersDue(plans) \in Nat
  <2>1. plans \cap Riders \in SUBSET Riders
    OBVIOUS
  <2> QED
    BY <2>1, PremiumAssumption DEF LinkedRidersDue
<1> QED
  BY <1>1, <1>2

\* The excess is what each bucket holds beyond its due, never less than zero.
LEMMA ExcessType ==
  ASSUME NEW p \in PremiumCollection, NEW plans \in SUBSET Plans
  PROVE  TotalExcess(p, plans) \in Nat
<1> p.baseCollected \in Nat /\ p.linkedRidersCollected \in Nat
  BY DEF PremiumCollection
<1> QED
  BY DueType DEF TotalExcess, FlooredAtZero

\* A recalculation sets what is to be collected to what is due, leaves what was
\* collected alone, and adds the excess to the unallocated cash.
LEMMA RecalculatedTable ==
  ASSUME NEW p \in PremiumCollection, NEW plans \in SUBSET Plans
  PROVE  LET q == Recalculated(p, plans)
         IN  /\ q \in PremiumCollection
             /\ q.baseToCollect = BaseDue(plans)
             /\ q.linkedRidersToCollect = LinkedRidersDue(plans)
             /\ q.baseCollected = p.baseCollected
             /\ q.linkedRidersCollected = p.linkedRidersCollected
             /\ q.unallocatedCash = p.unallocatedCash + TotalExcess(p, plans)
<1>1. /\ BaseDue(plans) \in Nat
      /\ LinkedRidersDue(plans) \in Nat
      /\ TotalExcess(p, plans) \in Nat
  BY DueType, ExcessType
<1> DEFINE b == BaseDue(plans)
           l == LinkedRidersDue(plans)
           u == p.unallocatedCash + TotalExcess(p, plans)
           q == [p EXCEPT !.baseToCollect = b, !.linkedRidersToCollect = l,
                          !.unallocatedCash = u]
<1>2. q = Recalculated(p, plans)
  BY DEF Recalculated
<1>3. b \in Nat /\ l \in Nat /\ u \in Nat
  BY <1>1 DEF PremiumCollection
<1> HIDE DEF b, l, u
<1>4. /\ q \in PremiumCollection
      /\ q.baseToCollect = b
      /\ q.linkedRidersToCollect = l
      /\ q.baseCollected = p.baseCollected
      /\ q.linkedRidersCollected = p.linkedRidersCollected
      /\ q.unallocatedCash = u
  BY <1>3 DEF PremiumCollection
<1> QED
  BY <1>2, <1>4 DEF b, l, u

\* A second recalculation finds the table as the first left it, except that it
\* adds the same excess to the unallocated cash again.
THEOREM RecalculatedTwice ==
  ASSUME NEW p \in PremiumCollection, NEW plans \in SUBSET Plans
  PROVE  LET q == Recalculated(p, plans)
         IN  /\ TotalExcess(q, plans) = TotalExcess(p, plans)
             /\ Recalculated(q, plans) =
                  [q EXCEPT !.unallocatedCash = @ + TotalExcess(p, plans)]
<1> DEFINE q == Recalculated(p, plans)
           r == Recalculated(q, plans)
           again == [q EXCEPT !.unallocatedCash = @ + TotalExcess(p, plans)]
<1>1. /\ q \in PremiumCollection
      /\ q.baseToCollect = BaseDue(plans)
      /\ q.linkedRidersToCollect = LinkedRidersDue(plans)
      /\ q.baseCollected = p.baseCollected
      /\ q.linkedRidersCollected = p.linkedRidersCollected
  BY RecalculatedTable
<1>2. TotalExcess(q, plans) = TotalExcess(p, plans)
  BY <1>1 DEF TotalExcess
<1> HIDE DEF q
<1>3. /\ r \in PremiumCollection
      /\ r.baseToCollect = q.baseToCollect
      /\ r.linkedRidersToCollect = q.linkedRidersToCollect
      /\ r.baseCollected = q.baseCollected
      /\ r.linkedRidersCollected = q.linkedRidersCollected
      /\ r.unallocatedCash = q.unallocatedCash + TotalExcess(p, plans)
  BY <1>1, <1>2, RecalculatedTable
<1> HIDE DEF r
<1>4. r = again
  BY <1>1, <1>3 DEF PremiumCollection
<1> QED
  BY <1>2, <1>4 DEF q, r

\* The clamped shortfall is zero exactly when both buckets are paid, and never
\* less than the two together still owe.
LEMMA ShortfallCovers ==
  ASSUME NEW p \in PremiumCollection
  PROVE  /\ TotalShortfall(p) = 0
              <=> /\ p.baseCollected >= p.baseToCollect
                  /\ p.linkedRidersCollected >= p.linkedRidersToCollect
         /\ p.baseToCollect + p.linkedRidersToCollect
              <= p.baseCollected + p.linkedRidersCollected + TotalShortfall(p)
<1> /\ p.baseToCollect \in Nat
    /\ p.baseCollected \in Nat
    /\ p.linkedRidersToCollect \in Nat
    /\ p.linkedRidersCollected \in Nat
  BY DEF PremiumCollection
<1> QED
  BY DEF TotalShortfall, BaseShortfall, LinkedRidersShortfall, FlooredAtZero
-----------------------------------------------------------------------------
LEMMA InitEstablishes == Init => IInv
<1> SUFFICES ASSUME Init PROVE IInv
  OBVIOUS
<1>1. TypeOK
  <2>1. pc \in PremiumCollection
    BY MoneyAssumption DEF Init
  <2>2. pc.unallocatedCash \in Nat
    BY <2>1 DEF PremiumCollection
  <2> QED
    BY <2>1, <2>2 DEF Init, TypeOK
<1>2. TableIsSettled
  BY DEF Init, TableIsSettled
<1>3. ExcessIsKept
  <2>1. pc.unallocatedCash \in Nat
    BY <1>1 DEF TypeOK, PremiumCollection
  <2> QED
    BY <2>1 DEF Init, ExcessIsKept
<1> QED
  BY <1>1, <1>2, <1>3 DEF IInv

LEMMA NextPreserves == IInv /\ [Next]_vars => IInv'
<1> SUFFICES ASSUME IInv, [Next]_vars PROVE IInv'
  OBVIOUS
<1> USE DEF IInv
<1>t. /\ pc \in PremiumCollection
      /\ active \in SUBSET Plans
      /\ pc.baseCollected \in Nat
      /\ pc.linkedRidersCollected \in Nat
      /\ pc.unallocatedCash \in Nat
      /\ opening \in Nat /\ refunded \in Nat /\ detected \in Nat
      /\ settled \in BOOLEAN
  BY DEF TypeOK, PremiumCollection
<1>1. CASE Recalculate
  <2> DEFINE x == TotalExcess(pc, active)
  <2>1. x \in Nat
    BY <1>t, ExcessType
  <2>2. /\ pc' \in PremiumCollection
        /\ pc'.baseToCollect = BaseDue(active)
        /\ pc'.linkedRidersToCollect = LinkedRidersDue(active)
        /\ pc'.unallocatedCash = pc.unallocatedCash + x
    BY <1>1, <1>t, RecalculatedTable DEF Recalculate
  <2>3. detected' = IF x > detected THEN x ELSE detected
    BY <1>1 DEF Recalculate
  <2>4. /\ active' = active /\ opening' = opening /\ refunded' = refunded
        /\ settled' = TRUE
    BY <1>1 DEF Recalculate
  <2> HIDE DEF x
  <2>5. TypeOK'
    BY <1>t, <2>1, <2>2, <2>3, <2>4 DEF TypeOK
  <2>6. TableIsSettled'
    BY <2>2, <2>4 DEF TableIsSettled
  <2>7. ExcessIsKept'
    BY <1>t, <2>1, <2>2, <2>3, <2>4 DEF ExcessIsKept
  <2> QED
    BY <2>5, <2>6, <2>7
<1>2. ASSUME NEW r \in Riders, RiderLeaves(r) PROVE IInv'
  <2>1. TypeOK'
    BY <1>t, <1>2 DEF RiderLeaves, TypeOK
  <2>2. TableIsSettled'
    <3>1. settled' => active' = active
      BY <1>2 DEF RiderLeaves
    <3> QED
      BY <1>2, <3>1 DEF RiderLeaves, TableIsSettled
  <2>3. ExcessIsKept'
    BY <1>2 DEF RiderLeaves, ExcessIsKept
  <2> QED
    BY <2>1, <2>2, <2>3
<1>3. ASSUME NEW r \in Riders, RiderReturns(r) PROVE IInv'
  <2>1. TypeOK'
    BY <1>t, <1>3 DEF RiderReturns, TypeOK, Riders
  <2>2. TableIsSettled'
    <3>1. settled' => active' = active
      BY <1>3 DEF RiderReturns
    <3> QED
      BY <1>3, <3>1 DEF RiderReturns, TableIsSettled
  <2>3. ExcessIsKept'
    BY <1>3 DEF RiderReturns, ExcessIsKept
  <2> QED
    BY <2>1, <2>2, <2>3
<1>4. ASSUME NEW amount \in Payments, PayBase(amount) PROVE IInv'
  <2>1. amount \in Nat
    BY MoneyAssumption
  <2>2. /\ pc' \in PremiumCollection
        /\ pc'.baseToCollect = pc.baseToCollect
        /\ pc'.linkedRidersToCollect = pc.linkedRidersToCollect
        /\ pc'.unallocatedCash = pc.unallocatedCash
    BY <1>t, <1>4, <2>1 DEF PayBase, PremiumCollection
  <2> QED
    BY <1>t, <1>4, <2>2 DEF PayBase, TypeOK, TableIsSettled, ExcessIsKept
<1>5. ASSUME NEW amount \in Payments, PayLinkedRiders(amount) PROVE IInv'
  <2>1. amount \in Nat
    BY MoneyAssumption
  <2>2. /\ pc' \in PremiumCollection
        /\ pc'.baseToCollect = pc.baseToCollect
        /\ pc'.linkedRidersToCollect = pc.linkedRidersToCollect
        /\ pc'.unallocatedCash = pc.unallocatedCash
    BY <1>t, <1>5, <2>1 DEF PayLinkedRiders, PremiumCollection
  <2> QED
    BY <1>t, <1>5, <2>2 DEF PayLinkedRiders, TypeOK, TableIsSettled, ExcessIsKept
<1>6. ASSUME NEW amount \in Payments, Refund(amount) PROVE IInv'
  <2>1. amount \in Nat
    BY MoneyAssumption
  <2>2. /\ pc' \in PremiumCollection
        /\ pc'.baseToCollect = pc.baseToCollect
        /\ pc'.linkedRidersToCollect = pc.linkedRidersToCollect
        /\ pc'.unallocatedCash = pc.unallocatedCash - amount
    BY <1>t, <1>6, <2>1 DEF Refund, PremiumCollection
  <2> QED
    BY <1>t, <1>6, <2>1, <2>2 DEF Refund, TypeOK, TableIsSettled, ExcessIsKept
<1>7. CASE UNCHANGED vars
  BY <1>7 DEF vars, TypeOK, TableIsSettled, ExcessIsKept
<1> QED
  BY <1>1, <1>2, <1>3, <1>4, <1>5, <1>6, <1>7 DEF Next

LEMMA Inductive == Spec => []IInv
BY InitEstablishes, NextPreserves, PTL DEF Spec
-----------------------------------------------------------------------------
\* Recalculations, payments and refunds in any order leave no amount negative.
THEOREM AmountsTyped == Spec => []TypeOK
<1>1. IInv => TypeOK
  BY DEF IInv
<1> QED
  BY <1>1, Inductive, PTL

\* While no rider changes after a recalculation, the shortfall the evaluators
\* read is what the Active plans owe.
THEOREM ShortfallSettled == Spec => []ShortfallIsOwed
<1>1. IInv => ShortfallIsOwed
  <2> SUFFICES ASSUME IInv, settled
               PROVE  /\ TotalShortfall(pc) = 0
                           <=> /\ pc.baseCollected >= BaseDue(active)
                               /\ pc.linkedRidersCollected >= LinkedRidersDue(active)
                      /\ BaseDue(active) + LinkedRidersDue(active)
                           <= pc.baseCollected + pc.linkedRidersCollected
                                + TotalShortfall(pc)
    BY DEF ShortfallIsOwed
  <2>1. pc \in PremiumCollection
    BY DEF IInv, TypeOK
  <2>2. /\ pc.baseToCollect = BaseDue(active)
        /\ pc.linkedRidersToCollect = LinkedRidersDue(active)
    BY DEF IInv, TableIsSettled
  <2> QED
    BY <2>1, <2>2, ShortfallCovers
<1> QED
  BY <1>1, Inductive, PTL

\* No recalculation, return of a rider or refund makes a reported excess vanish.
THEOREM ExcessKept == Spec => []ExcessIsKept
<1>1. IInv => ExcessIsKept
  BY DEF IInv
<1> QED
  BY <1>1, Inductive, PTL
=============================================================================
