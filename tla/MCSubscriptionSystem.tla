------------------------ MODULE MCSubscriptionSystem ------------------------
(* SubscriptionSystem on small instances.                                   *)
EXTENDS SubscriptionSystem

Symmetry == Permutations(Strategies)
=============================================================================
