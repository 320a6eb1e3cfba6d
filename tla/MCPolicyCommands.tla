-------------------------- MODULE MCPolicyCommands --------------------------
(***************************************************************************)
(* Two request slots, one or two riders, a handful of policies.            *)
(***************************************************************************)
EXTENDS PolicyCommands, TLC

CONSTANTS base, r1, r2, s1, s2

TwoPlans   == {base, r1}
ThreePlans == {base, r1, r2}
TwoSlots   == {s1, s2}
SlotSymmetry == Permutations(TwoSlots)

\* r1 with an exclusion and r2 standard, or r1 RCMP and r2 with an exclusion;
\* cash outstanding, a local resident on new business.
ContendedFacts ==
  { f \in Facts :
      /\ base \notin f.loading \cup f.exclusion
      /\ r1 \in f.exclusion /\ r2 \notin f.loading
      /\ r1 \in f.loading <=> r2 \in f.exclusion
      /\ f.shortfall /\ ~f.frFr /\ ~f.renewal }

\* Everyone insured, or r1 insured before the other drafts are submitted.
ContendedPlans ==
  { [p \in ThreePlans |-> "Active"],
    [p \in ThreePlans |-> IF p = r1 THEN "Active" ELSE "Draft"] }

\* Everything a client may post about these riders, two NTU spellings apart.
ContendedCommands ==
  [kind : {"UwDecision"}, decision : {"Aps", "Substandard", "Declined"}]
    \cup [kind : {"MarkRiderStatus"}, rider : Riders, target : {"NotTakenUp"}]
    \cup [kind : {"ReAddRider"}, rider : Riders]
    \cup [kind : {"ResubmitForManualUw", "SaveUnderwritingTab"}]

\* EfLetterGenerator: a new letter marks "any previously-current letter OF THE
\* SAME TYPE on this policy as IsCurrent = false", decision letters included.
\* Two decisions that leave the policy where it is compare no RowVersion.
NoticesSuperseded ==
  \A l, m \in letters : l.current /\ m.current /\ l.type = m.type => l = m
=============================================================================
