----------------------------- MODULE MCDeliveries -----------------------------
(* A small instance of Deliveries: one stop, of two parcels.                *)
EXTENDS Deliveries, TLC

MCParcels == [s \in Stops |-> 2]
MCSymmetry == Permutations(Requests)
=============================================================================
