--------------------------- MODULE DocumentedRules ---------------------------
(***************************************************************************)
(* Rules that the documents and comments of the repository state of the    *)
(* command layer and that its code does not keep.  Each is checked by a    *)
(* run of its own, whose counterexample is listed among the findings.      *)
(***************************************************************************)
EXTENDS MCAdditionOfRider

\* FR-AOR-040: "New LOA -> stop reminders from old LOA/CLOA", and the same for
\* a new CLOA.  The generator supersedes letters of the new letter's type only.
NewLetterStopsOldReminders ==
  \A l, m \in letters : l.scheduled /\ m.scheduled => l.type = m.type

\* The Policy invariant of the domain model: "Substatus transitions must be
\* recorded in AuditEntries".  Two handlers save and audit in two transactions.
SubstatusAudited == audited = substatus

\* "Terminal substatus decision" of the domain model: "Shortfall > 0? -> Yes ->
\* PendingCashCollection", before the composition and the answer are looked at.
\* The evaluator asks for the acceptance first, as FR-AOR-032 has it.
ShortfallDecidesFirst ==
  [][status' # status /\ facts.shortfall => substatus' = "PendingCashCollection"]_vars

\* Underwriters keep deciding: some decision is sent whenever one is accepted.
FairSpec == Spec /\ WF_vars(\E d \in Decisions : UwDecision(d))

\* The goal of phase 3: "lands in PendingManualUw -> UW makes a decision ->
\* correct next state".  No handler is registered for that substatus.
ManualUnderwritingDecided ==
  substatus = "PendingManualUnderwriting" ~> substatus # "PendingManualUnderwriting"
=============================================================================
