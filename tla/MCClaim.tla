------------------------------- MODULE MCClaim --------------------------------
(* Instances of the claim and the users for TLC. *)
EXTENDS Claim, TLC

\* Requests are interchangeable, and so are organisations.
ClaimSymmetry == Permutations(Requests) \cup Permutations(Orgs)
=============================================================================
