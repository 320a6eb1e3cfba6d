----------------------------- MODULE MCPremiums -----------------------------
(***************************************************************************)
(* A base plan and two riders with premiums of 2, 1 and 2 units, and tables*)
(* that agree with the plans or that no recalculation has brought up to    *)
(* date: paid in full, in part or not at all on either side.               *)
(***************************************************************************)
EXTENDS Premiums

CONSTANTS base, r1, r2

ThreePlans  == {base, r1, r2}
SmallPremia == [p \in ThreePlans |-> IF p = r1 THEN 1 ELSE 2]

SmallOpenings ==
  [ baseToCollect : {2}, baseCollected : {0, 2},
    linkedRidersToCollect : {0, 1, 3}, linkedRidersCollected : {0, 1, 3},
    unallocatedCash : {0, 1} ]
=============================================================================
