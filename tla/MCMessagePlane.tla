----------------------------- MODULE MCMessagePlane ----------------------------
(* Instance of the message plane for TLC. *)
EXTENDS MessagePlane, TLC
Symmetry == Permutations(Zids) \cup Permutations(Orgs) \cup Permutations(Kinds)
=============================================================================
