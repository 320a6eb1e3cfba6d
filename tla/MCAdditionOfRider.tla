------------------------- MODULE MCAdditionOfRider -------------------------
(***************************************************************************)
(* Small policies for TLC: a base plan and one or two riders.              *)
(***************************************************************************)
EXTENDS AdditionOfRider, TLC

CONSTANTS base, r1, r2

TwoPlans   == {base, r1}
ThreePlans == {base, r1, r2}

\* Any risk profile of a base and one rider, any context, that the evaluators
\* can tell apart: a loading without an exclusion on the same plan is read of
\* the base of a renewal only, and a renewal of a base with a loading only.
OneRiderFacts ==
  { f \in Facts : /\ f.renewal => Base \in f.loading
                  /\ f.loading \subseteq
                       f.exclusion \cup (IF f.renewal THEN {Base} ELSE {}) }

\* Two riders: r1 with any profile, r2 standard or with an exclusion.  The base
\* carries no exclusion, so its loading and the renewal only matter together.
TwoRiderFacts ==
  { f \in Facts : /\ base \notin f.exclusion /\ r2 \notin f.loading
                  /\ f.renewal <=> base \in f.loading }

\* A rider with an exclusion, cash outstanding, local residents.
ExclusionFacts ==
  { f \in Facts : f.loading = {} /\ f.exclusion = {r1} /\ f.shortfall /\ ~f.frFr /\ ~f.renewal }

LiveStatuses == {"Active", "Draft", "NotTakenUp"}
=============================================================================
