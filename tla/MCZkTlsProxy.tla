------------------------------ MODULE MCZkTlsProxy ------------------------------
(* Two tasks, two servers and a sink of two entries, so that eviction, pool *)
(* reuse and crossing extractions all happen within three handshakes.        *)
EXTENDS ZkTlsProxy, TLC

Symmetry == Permutations(Tasks) \cup Permutations(Servers) \cup Permutations(Chains)
=============================================================================
