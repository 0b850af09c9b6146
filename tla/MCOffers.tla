------------------------------ MODULE MCOffers ------------------------------
(* Instances of Offers for TLC: h holds the first bill, s and t sell.       *)
EXTENDS Offers, TLC

Symmetry == Permutations(Chains \ {Holder})
=============================================================================
