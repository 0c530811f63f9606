--------------------------- MODULE DepositLifecycle ---------------------------
(***************************************************************************)
(* What the payments integration promises about a deposit: it passes        *)
(* through the documented stages one at a time and never goes back, and it  *)
(* is booked by Ops before the service counts it as delivered.              *)
(***************************************************************************)
EXTENDS Naturals

CONSTANT Refs
VARIABLE stage

Unknown      == 0
Recorded     == 1   \* the service has a matched deposit row
Booked       == 2   \* the Ops cash ledger has the transaction
Acknowledged == 3   \* the service knows: delivered_to_ops
Reconciled   == 4
Settled      == 5
Approved     == 6

Init == stage = [r \in Refs |-> Unknown]

\* One statement may advance several deposits: a reconciliation run does.
Advance(R) ==
  /\ \A r \in R : stage[r] < Approved
  /\ stage' = [r \in Refs |-> IF r \in R THEN stage[r] + 1 ELSE stage[r]]

Next == \E R \in SUBSET Refs : Advance(R)

Spec == Init /\ [][Next]_stage
=============================================================================
