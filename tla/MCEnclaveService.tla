---------------------------- MODULE MCEnclaveService ----------------------------
(* A small instance of EnclaveService: a trusted and an untrusted client, a    *)
(* bucket of one token that is earned in two ticks, two calls.                 *)
EXTENDS EnclaveService
=============================================================================
