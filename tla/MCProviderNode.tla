----------------------------- MODULE MCProviderNode -----------------------------
(* Instances of ProviderNode for TLC. *)
EXTENDS ProviderNode, TLC
Symmetry == Permutations(Exchanges) \cup Permutations(Feeds)
=============================================================================
