--------------------------- MODULE MCPremiumGate ---------------------------
(***************************************************************************)
(* A base plan and a rider of one premium each, for TLC.                   *)
(***************************************************************************)
EXTENDS PremiumGate, MCAdditionOfRider

OnePremium == [p \in TwoPlans |-> 1]

\* A cash-paying policy of local residents with nothing to accept.
StandardFacts == { f \in Facts : f.loading = {} /\ f.exclusion = {} /\ ~f.frFr /\ ~f.renewal }
=============================================================================
