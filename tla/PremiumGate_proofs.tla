------------------------ MODULE PremiumGate_proofs ------------------------
(***************************************************************************)
(* The premium collection table and the one flag the evaluators see of it, *)
(* for every set of plans, every premium and every bound on the cash: the  *)
(* flag is what AdditionOfRider says it is, and no policy is issued while  *)
(* a side of the table is short.                                           *)
(***************************************************************************)
EXTENDS PremiumGate, AdditionOfRider_proofs

\* The flag the commands read is the sign of the table's total shortfall.
TableInv ==
  /\ pc \in Table!PremiumCollection
  /\ facts.shortfall = (Table!TotalShortfall(pc) > 0)

(***************************************************************************)
(* The table.                                                              *)
(***************************************************************************)
\* A total shortfall is never negative, and is zero only when both sides are
\* paid for: what is over on one side does not count for the other.
LEMMA ShortfallByBucket ==
  ASSUME NEW p \in Table!PremiumCollection
  PROVE  /\ Table!TotalShortfall(p) \in Nat
         /\ Table!TotalShortfall(p) = 0 <=>
              /\ p.baseCollected >= p.baseToCollect
              /\ p.linkedRidersCollected >= p.linkedRidersToCollect
  <1>1. /\ p.baseToCollect \in Nat /\ p.baseCollected \in Nat
        /\ p.linkedRidersToCollect \in Nat /\ p.linkedRidersCollected \in Nat
    BY DEF Table!PremiumCollection
  <1>2. \A n \in Int : /\ Table!FlooredAtZero(n) \in Nat
                       /\ Table!FlooredAtZero(n) = 0 <=> n <= 0
    BY DEF Table!FlooredAtZero
  <1>3. /\ Table!BaseShortfall(p) \in Nat /\ Table!LinkedRidersShortfall(p) \in Nat
        /\ Table!BaseShortfall(p) = 0 <=> p.baseCollected >= p.baseToCollect
        /\ Table!LinkedRidersShortfall(p) = 0
             <=> p.linkedRidersCollected >= p.linkedRidersToCollect
    BY <1>1, <1>2 DEF Table!BaseShortfall, Table!LinkedRidersShortfall
  <1> QED
    BY <1>3 DEF Table!TotalShortfall

\* Money comes in and never makes a shortfall larger.
LEMMA PaymentReduces ==
  ASSUME NEW p \in Table!PremiumCollection, NEW amount \in Nat,
         NEW bucket \in {"baseCollected", "linkedRidersCollected"},
         NEW n, n = [p EXCEPT ![bucket] = @ + amount]
  PROVE  /\ n \in Table!PremiumCollection
         /\ Table!TotalShortfall(p) = 0 => Table!TotalShortfall(n) = 0
  <1>1. /\ p.baseToCollect \in Nat /\ p.baseCollected \in Nat
        /\ p.linkedRidersToCollect \in Nat /\ p.linkedRidersCollected \in Nat
    BY DEF Table!PremiumCollection
  <1>2. CASE bucket = "baseCollected"
    <2>1. n = [p EXCEPT !.baseCollected = p.baseCollected + amount]
      BY <1>2
    <2>2. /\ n \in Table!PremiumCollection
          /\ n.baseToCollect = p.baseToCollect
          /\ n.baseCollected = p.baseCollected + amount
          /\ n.linkedRidersToCollect = p.linkedRidersToCollect
          /\ n.linkedRidersCollected = p.linkedRidersCollected
      BY <1>1, <2>1 DEF Table!PremiumCollection
    <2>3. (Table!TotalShortfall(p) = 0) =>
            /\ p.baseCollected >= p.baseToCollect
            /\ p.linkedRidersCollected >= p.linkedRidersToCollect
      BY ShortfallByBucket
    <2>4. (/\ n.baseCollected >= n.baseToCollect
           /\ n.linkedRidersCollected >= n.linkedRidersToCollect)
            => Table!TotalShortfall(n) = 0
      BY <2>2, ShortfallByBucket
    <2>5. /\ p.baseCollected >= p.baseToCollect => n.baseCollected >= n.baseToCollect
          /\ p.linkedRidersCollected >= p.linkedRidersToCollect
               => n.linkedRidersCollected >= n.linkedRidersToCollect
      BY <1>1, <2>2
    <2> QED
      BY <2>2, <2>3, <2>4, <2>5
  <1>3. CASE bucket = "linkedRidersCollected"
    <2>1. n = [p EXCEPT !.linkedRidersCollected = p.linkedRidersCollected + amount]
      BY <1>3
    <2>2. /\ n \in Table!PremiumCollection
          /\ n.baseToCollect = p.baseToCollect
          /\ n.baseCollected = p.baseCollected
          /\ n.linkedRidersToCollect = p.linkedRidersToCollect
          /\ n.linkedRidersCollected = p.linkedRidersCollected + amount
      BY <1>1, <2>1 DEF Table!PremiumCollection
    <2>3. (Table!TotalShortfall(p) = 0) =>
            /\ p.baseCollected >= p.baseToCollect
            /\ p.linkedRidersCollected >= p.linkedRidersToCollect
      BY ShortfallByBucket
    <2>4. (/\ n.baseCollected >= n.baseToCollect
           /\ n.linkedRidersCollected >= n.linkedRidersToCollect)
            => Table!TotalShortfall(n) = 0
      BY <2>2, ShortfallByBucket
    <2>5. /\ p.baseCollected >= p.baseToCollect => n.baseCollected >= n.baseToCollect
          /\ p.linkedRidersCollected >= p.linkedRidersToCollect
               => n.linkedRidersCollected >= n.linkedRidersToCollect
      BY <1>1, <2>2
    <2> QED
      BY <2>2, <2>3, <2>4, <2>5
  <1> QED
    BY <1>2, <1>3

(***************************************************************************)
(* Every step of the composition is a step of AdditionOfRider or a stutter *)
(* of it.                                                                  *)
(***************************************************************************)
\* The table a policy comes with holds natural numbers.
LEMMA TableInit == InitWithTable => TableInv
  <1> SUFFICES ASSUME InitWithTable PROVE TableInv
    OBVIOUS
  <1>1. Table!BaseDue(Active(status)) \in Nat
    BY BaseAssumption, TableAssumption DEF Table!BaseDue
  <1>2. \A rs \in SUBSET Riders : Table!LinkedRidersDue(Active(status) \cup rs) \in Nat
    <2>1. \A rs \in SUBSET Riders :
            (Active(status) \cup rs) \cap Table!Riders \in SUBSET Riders
      BY DEF Table!Riders, Riders
    <2> QED
      BY <2>1, TableAssumption DEF Table!LinkedRidersDue
  <1>3. pc \in Table!PremiumCollection
    <2> DEFINE B == {Table!BaseDue(Active(status))}
               C == 0..MaxCash
               L == {Table!LinkedRidersDue(Active(status) \cup rs) : rs \in SUBSET Riders}
    <2>1. (\A n \in B : n \in Nat) /\ (\A n \in L : n \in Nat)
      BY <1>1, <1>2
    <2>2. \A n \in C : n \in Nat
      BY TableAssumption
    <2>3. pc \in [ baseToCollect : B, baseCollected : C, linkedRidersToCollect : L,
                  linkedRidersCollected : C, unallocatedCash : {0} ]
      BY DEF InitWithTable
    <2> HIDE DEF B, C, L
    <2>4. pc = [ baseToCollect |-> pc.baseToCollect, baseCollected |-> pc.baseCollected,
                 linkedRidersToCollect |-> pc.linkedRidersToCollect,
                 linkedRidersCollected |-> pc.linkedRidersCollected,
                 unallocatedCash |-> pc.unallocatedCash ]
      BY <2>3
    <2>5. /\ pc.baseToCollect \in B /\ pc.linkedRidersToCollect \in L
          /\ pc.baseCollected \in C /\ pc.linkedRidersCollected \in C
          /\ pc.unallocatedCash \in {0}
      BY <2>3
    <2>6. /\ pc.baseToCollect \in Nat /\ pc.linkedRidersToCollect \in Nat
          /\ pc.baseCollected \in Nat /\ pc.linkedRidersCollected \in Nat
          /\ pc.unallocatedCash \in Nat
      BY <2>1, <2>2, <2>5
    <2> QED
      BY <2>4, <2>6 DEF Table!PremiumCollection
  <1> QED
    BY <1>3 DEF InitWithTable, TableInv

\* A payment clears the flag, which is what AdditionOfRider calls CashCollected,
\* or it leaves the flag as it is.
LEMMA PayStep ==
  ASSUME IInv, TableInv, Pay
  PROVE  TableInv' /\ (CashCollected \/ UNCHANGED vars)
  <1> DEFINE owed == Table!TotalShortfall(pc') > 0
  <1>1. PICK bucket \in {"baseCollected", "linkedRidersCollected"}, amount \in 1..MaxCash :
          pc' = [pc EXCEPT ![bucket] = @ + amount]
    BY DEF Pay
  <1>2. amount \in Nat
    BY TableAssumption
  <1>3. /\ facts' = [facts EXCEPT !.shortfall = owed]
        /\ UNCHANGED <<status, earlierCycle, substatus, uw, letters, audited>>
    BY DEF Pay
  <1>4. facts \in Facts
    BY DEF IInv, TypeOK
  <1>5. /\ pc' \in Table!PremiumCollection
        /\ Table!TotalShortfall(pc) = 0 => Table!TotalShortfall(pc') = 0
    BY <1>1, <1>2, PaymentReduces DEF TableInv
  <1>6. Table!TotalShortfall(pc) \in Nat /\ Table!TotalShortfall(pc') \in Nat
    BY <1>5, ShortfallByBucket DEF TableInv
  <1>7. owed => Table!TotalShortfall(pc) > 0
    BY <1>5, <1>6
  <1>8. owed => facts.shortfall
    BY <1>7 DEF TableInv
  <1>9. owed \in BOOLEAN /\ facts.shortfall \in BOOLEAN
    BY <1>4 DEF Facts
  <1> HIDE DEF owed
  <1>10. facts'.shortfall = owed
    BY <1>3, <1>4, <1>9 DEF Facts
  <1>11. TableInv'
    BY <1>5, <1>10 DEF TableInv, owed
  <1>12. CASE facts.shortfall /\ ~owed
    <2>1. owed = FALSE
      BY <1>9, <1>12
    <2> QED
      BY <1>3, <1>11, <1>12, <2>1 DEF CashCollected
  <1>13. CASE ~(facts.shortfall /\ ~owed)
    <2>1. owed = facts.shortfall
      BY <1>8, <1>9, <1>13
    <2>2. facts' = facts
      BY <1>3, <1>4, <2>1 DEF Facts
    <2> QED
      BY <1>3, <1>11, <2>2 DEF vars
  <1> QED
    BY <1>12, <1>13

\* The commands leave the table and the flag alone.
LEMMA CommandKeepsFacts ==
  ASSUME Command \/ CustomerAccepts \/ CpfRejects \/ UwCycleCompletes
  PROVE  Next /\ facts' = facts
  BY DEF Command, Next, UwDecision, MarkRiderStatus, ReAddRider, ResubmitForManualUw,
     SaveUnderwritingTab, RouteToManualUnderwriting, CustomerAccepts, CpfRejects,
     UwCycleCompletes

LEMMA TableStep ==
  ASSUME IInv, TableInv, [NextWithTable]_<<vars, pc>>
  PROVE  TableInv' /\ [Next]_vars
  <1>1. CASE (Command \/ CustomerAccepts \/ CpfRejects \/ UwCycleCompletes) /\ UNCHANGED pc
    BY <1>1, CommandKeepsFacts DEF TableInv
  <1>2. CASE Pay
    BY <1>2, PayStep DEF Next
  <1>3. CASE UNCHANGED <<vars, pc>>
    BY <1>3 DEF TableInv, vars
  <1> QED
    BY <1>1, <1>2, <1>3 DEF NextWithTable

\* Both invariants, of the policy and of the table, hold throughout.
THEOREM TableInvariance == SpecWithTable => [](IInv /\ TableInv)
  <1>1. InitWithTable => IInv /\ TableInv
    BY InitStep, TableInit DEF InitWithTable
  <1>2. IInv /\ TableInv /\ [NextWithTable]_<<vars, pc>> => (IInv /\ TableInv)'
    BY TableStep, NextStep
  <1> QED
    BY <1>1, <1>2, PTL DEF SpecWithTable

\* The commands cannot tell the table from the flag: next to the table they
\* behave as AdditionOfRider says, so all that is proved of it holds here.
THEOREM TableImplements == SpecWithTable => ImplementsAdditionOfRider
  <1>1. InitWithTable => Init
    BY DEF InitWithTable
  <1>2. IInv /\ TableInv /\ [NextWithTable]_<<vars, pc>> => [Next]_vars
    BY TableStep
  <1> QED
    BY <1>1, <1>2, TableInvariance, PTL DEF SpecWithTable, ImplementsAdditionOfRider, Spec

(***************************************************************************)
(* No policy is issued while a premium is outstanding.                     *)
(***************************************************************************)
\* The evaluator is the one way to the IP file and to inception, and it asks
\* for cash first.
LEMMA IssueStep ==
  ASSUME IInv, [Next]_vars, substatus' # substatus,
         substatus' \in {"PendingIpRequestFile", "PolicyIncepted"}
  PROVE  ~facts.shortfall
  <1>1. ASSUME NEW st, NEW earlier, NEW current, NEW ls, Reassess(st, earlier, current, ls)
        PROVE  ~facts.shortfall
    BY <1>1 DEF Reassess, EvaluateAfterAction, NextSubstatus
  <1>2. ASSUME NEW d \in Decisions, UwDecision(d) PROVE ~facts.shortfall
    <2> DEFINE h == Handle(substatus, uw, d)
               ls == DecisionLetterStep(letters, h.letter, status, earlierCycle)
    <2>1. d \in UwDecisions /\ Routable(substatus, d)
      BY <1>2, InputAssumption DEF UwDecision
    <2>2. h.override \in {None, "PendingUwAps", substatus}
      BY <2>1, DirectiveResult DEF IInv, TypeOK
    <2>3. \/ Reassess(status, earlierCycle, h.uw, ls)
          \/ h.override # None /\ substatus' = h.override
      BY <1>2 DEF UwDecision
    <2> HIDE DEF h, ls
    <2> QED
      BY <1>1, <2>2, <2>3
  <1>3. ASSUME NEW r \in Riders, NEW target \in MarkTargets, MarkRiderStatus(r, target)
        PROVE  ~facts.shortfall
    BY <1>1, <1>3 DEF MarkRiderStatus
  <1>4. ASSUME NEW r \in Riders, ReAddRider(r) PROVE ~facts.shortfall
    BY <1>1, <1>4 DEF ReAddRider
  <1>5. CASE ResubmitForManualUw \/ SaveUnderwritingTab \/ CpfRejects
    BY <1>5 DEF ResubmitForManualUw, SaveUnderwritingTab, RouteToManualUnderwriting, CpfRejects
  <1>6. CASE CustomerAccepts \/ CashCollected \/ UwCycleCompletes \/ UNCHANGED vars
    BY <1>6 DEF CustomerAccepts, CashCollected, UwCycleCompletes, vars
  <1> QED
    BY <1>2, <1>3, <1>4, <1>5, <1>6 DEF Next

\* Whatever payments come in between and whatever commands run, a policy goes
\* to its IP file or incepts only with the base plan and the linked riders each
\* paid for, as far as the table knows.
THEOREM PaidFor == SpecWithTable => PaidBeforeIssue
  <1>1. ASSUME IInv, TableInv, [NextWithTable]_<<vars, pc>>, substatus' # substatus,
               substatus' \in {"PendingIpRequestFile", "PolicyIncepted"}
        PROVE  /\ pc.baseCollected >= pc.baseToCollect
               /\ pc.linkedRidersCollected >= pc.linkedRidersToCollect
    <2>1. ~facts.shortfall
      BY <1>1, TableStep, IssueStep
    <2>2. Table!TotalShortfall(pc) \in Nat /\ ~(Table!TotalShortfall(pc) > 0)
      BY <1>1, <2>1, ShortfallByBucket DEF TableInv
    <2> QED
      BY <1>1, <2>2, ShortfallByBucket DEF TableInv
  <1>2. IInv /\ TableInv /\ [NextWithTable]_<<vars, pc>> =>
          [substatus' # substatus /\ substatus' \in {"PendingIpRequestFile", "PolicyIncepted"} =>
             /\ pc.baseCollected >= pc.baseToCollect
             /\ pc.linkedRidersCollected >= pc.linkedRidersToCollect]_<<vars, pc>>
    BY <1>1
  <1> QED
    BY <1>2, TableInvariance, PTL DEF SpecWithTable, PaidBeforeIssue
=============================================================================
