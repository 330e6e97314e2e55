----------------------------- MODULE MCZkTlsRelayer -----------------------------
(* Two identities and two proofs of one url, so that proofs can overtake    *)
(* each other, outlive the window and outlive their signer's registration.  *)
EXTENDS ZkTlsRelayer, TLC

Symmetry == Permutations(Keys)
=============================================================================
