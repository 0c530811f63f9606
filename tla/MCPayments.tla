------------------------------ MODULE MCPayments ------------------------------
(***************************************************************************)
(* Small instances of Payments.                                            *)
(***************************************************************************)
EXTENDS Payments

\* One deposit, announced by two provider events and verified by hand.
MCRefs     == {"t1"}
MCRefOf    == [q \in DepositRequests \cup Transitions |-> "t1"]
MCEventOf  == [w \in Webhooks |-> IF w = "w1" THEN "e1" ELSE "e2"]
MCWindowOf == [q \in Reports |-> {"t1"}]
=============================================================================
