----------------------------- MODULE MCIdentity ------------------------------
(* A small instance of Identity.                                            *)
EXTENDS Identity, TLC

Focus(ops, n) == [ops |-> ops, keys |-> n]
MCHandlers ==
  {Focus({"person"}, 2), Focus({"pin"}, 2), Focus({"user"}, 3), Focus({"grant"}, 2),
   Focus({"amoeba", "classify", "supervise"}, 2), Focus({"site", "share", "unshare"}, 3),
   Focus({"token", "revoke"}, 2)}

Symmetry == Permutations(Keys) \cup Permutations(Requests)

\* Sites are made by requests, as the primary one of an amoeba or not.
MCNoSites == <<>>
==============================================================================
