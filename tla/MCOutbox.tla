------------------------------- MODULE MCOutbox -------------------------------
(* Outbox for TLC: notices and dispatchers are model values of the .cfg files. *)
EXTENDS Outbox
=============================================================================
