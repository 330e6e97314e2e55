------------------------------ MODULE ZkTlsRelayer ------------------------------
(***************************************************************************)
(* ZkTlsRelayer.sol together with the enclave identities that sign proofs  *)
(* for it (proof_generator.rs) and the anonymous parties that carry proofs *)
(* to the chain, late, twice, out of order or altered.  A reverted         *)
(* transaction is a stuttering step.  The response hash, the certificate   *)
(* fingerprint and the nonce only make a digest unique, and are one field. *)
(***************************************************************************)
EXTENDS Integers, FiniteSets

CONSTANTS
  Owner, Accounts,
  Keys,             \* enclave identity addresses
  NoSigner,         \* address(0): ecrecover failed
  Unknown,          \* the address recovered from an altered proof
  Urls, Data,       \* url hashes and data hashes
  Nonces,           \* 16 random bytes, never used twice by an enclave
  NoData,           \* no record for the url
  Skew,             \* how far an enclave's clock may be from the chain's
  MaxAge,           \* PROOF_MAX_AGE
  MaxTime           \* bound: the last block timestamp explored

ASSUME ConstantsAssumption ==
  /\ Owner \in Accounts
  /\ NoSigner \notin Keys /\ Unknown \notin Keys /\ NoSigner # Unknown
  /\ NoData \notin Data
  /\ Skew \in Nat /\ MaxAge \in Nat /\ MaxTime \in Nat /\ Skew <= MaxTime

VARIABLES
  zkTlsSigners, verifiedWeb2Data, usedProofs,   \* the contract's storage
  now,                                          \* block.timestamp
  signed,                                       \* proofs the enclaves have signed
  provenTs                                      \* history: proof time behind each record

vars == <<zkTlsSigners, verifiedWeb2Data, usedProofs, now, signed, provenTs>>

Times == 0 .. (MaxTime + Skew)
Payloads == [version : {1, 2}, url : Urls, data : Data, ts : Times, nonce : Nonces]
Proofs   == [payload : Payloads, signer : Keys \cup {NoSigner, Unknown}]

NoRecord == [dataHash |-> NoData]
Records  == [dataHash : {NoData}] \cup [dataHash : Data, verifiedAt : Nat]

Init ==
  /\ zkTlsSigners = {} /\ usedProofs = {}
  /\ verifiedWeb2Data = [u \in Urls |-> NoRecord]
  /\ now = Skew /\ signed = {}
  /\ provenTs = [u \in Urls |-> 0]

(***************************************************************************)
(* generate_proof: the canonical payload, signed by an enclave identity    *)
(* whether or not that identity is registered.                             *)
(***************************************************************************)
generate_proof(key, url, data, skew, nonce) ==
  /\ \A p \in signed : p.payload.nonce # nonce
  /\ signed' = signed \cup {[payload |-> [version |-> 1, url |-> url, data |-> data,
                                          ts |-> now + skew, nonce |-> nonce],
                             signer |-> key]}
  /\ UNCHANGED <<zkTlsSigners, verifiedWeb2Data, usedProofs, now, provenTs>>

(* What reaches the chain: a signed proof as it is or with an altered      *)
(* payload, from which ecrecover yields nobody or somebody unknown.        *)
Altered == UNION {{[payload |-> [p.payload EXCEPT !.data = d], signer |-> k] :
                      d \in Data, k \in {NoSigner, Unknown}} : p \in signed}
Carried == signed \cup Altered

(***************************************************************************)
(* The signer registry                                                     *)
(***************************************************************************)
registerZkTlsSigner(caller, signer) ==
  /\ caller = Owner
  /\ signer # NoSigner
  /\ signer \notin zkTlsSigners
  /\ zkTlsSigners' = zkTlsSigners \cup {signer}
  /\ UNCHANGED <<verifiedWeb2Data, usedProofs, now, signed, provenTs>>

deregisterZkTlsSigner(caller, signer) ==
  /\ caller = Owner
  /\ signer \in zkTlsSigners
  /\ zkTlsSigners' = zkTlsSigners \ {signer}
  /\ UNCHANGED <<verifiedWeb2Data, usedProofs, now, signed, provenTs>>

(***************************************************************************)
(* relayVerifiedWeb2Data: anyone may relay; the checks in the code's order *)
(***************************************************************************)
FreshProof_NotTooOldOnly(ts) == now <= ts + MaxAge

FreshProof_NotTooNewOnly(ts) == ts <= now + MaxAge

FreshProof(ts) ==
  /\ ts <= now + MaxAge
  /\ now <= ts + MaxAge

(* The digest is checked and marked before the signer is recovered; the    *)
(* revert of a later check undoes the mark.                                *)
consumeDigest_Replayable(payload) ==
  usedProofs' = usedProofs \cup {payload}

consumeDigest(payload) ==
  /\ payload \notin usedProofs
  /\ usedProofs' = usedProofs \cup {payload}

AuthorizedSigner(signer) ==
  /\ signer # NoSigner
  /\ signer \in zkTlsSigners

relayVerifiedWeb2Data(proof, url, data) ==
  /\ proof.payload.version = 1
  /\ proof.payload.url = url /\ proof.payload.data = data
  /\ FreshProof(proof.payload.ts)
  /\ consumeDigest(proof.payload)
  /\ AuthorizedSigner(proof.signer)
  /\ verifiedWeb2Data' = [verifiedWeb2Data EXCEPT
                            ![url] = [dataHash |-> data, verifiedAt |-> now]]
  /\ provenTs' = [provenTs EXCEPT ![url] = proof.payload.ts]
  /\ UNCHANGED <<zkTlsSigners, now, signed>>

NewBlock ==
  /\ now < MaxTime
  /\ now' = now + 1
  /\ UNCHANGED <<zkTlsSigners, verifiedWeb2Data, usedProofs, signed, provenTs>>

Next ==
  \/ \E k \in Keys, u \in Urls, d \in Data, s \in -Skew .. Skew, n \in Nonces :
        generate_proof(k, u, d, s, n)
  \/ \E a \in Accounts, k \in Keys \cup {NoSigner} : \/ registerZkTlsSigner(a, k)
                                                     \/ deregisterZkTlsSigner(a, k)
  \/ \E p \in Carried, u \in Urls, d \in Data : relayVerifiedWeb2Data(p, u, d)
  \/ NewBlock

Spec == Init /\ [][Next]_vars

--------------------------------------------------------------------------------
(* Storage types; the zero address is never a registered identity.         *)
TypeOK ==
  /\ zkTlsSigners \subseteq Keys
  /\ verifiedWeb2Data \in [Urls -> Records]
  /\ usedProofs \subseteq Payloads
  /\ now \in Skew .. MaxTime
  /\ signed \subseteq [payload : Payloads, signer : Keys]
  /\ provenTs \in [Urls -> Times]

(* Every record is what an enclave signed for that url, at a time at most  *)
(* PROOF_MAX_AGE before or after verifiedAt; altered proofs never count,   *)
(* and no delay lets an old attestation pass as a fresh one.               *)
RecordAttestedInWindow ==
  \A u \in Urls : verifiedWeb2Data[u] # NoRecord =>
    \E p \in signed :
      /\ p.payload.url = u /\ p.payload.data = verifiedWeb2Data[u].dataHash
      /\ p.payload.ts = provenTs[u]
      /\ verifiedWeb2Data[u].verifiedAt - p.payload.ts \in (-MaxAge) .. MaxAge

(* A digest is consumed only by a proof that an enclave really signed: a   *)
(* relay that fails authorization reverts its usedProofs mark, so altered  *)
(* copies cannot use up a genuine digest.                                  *)
OnlySignedDigestsConsumed ==
  \A d \in usedProofs : \E p \in signed : p.payload = d

(* A record changes only by consuming one fresh digest, signed by an       *)
(* identity that is registered at that moment (also when it was            *)
(* deregistered between signing and relaying); replaying a proof never     *)
(* renews verifiedAt.                                                      *)
RecordsNeedFreshAuthorizedProof ==
  [][\A u \in Urls : verifiedWeb2Data'[u] # verifiedWeb2Data[u] =>
        \E p \in signed :
          /\ p.signer \in zkTlsSigners
          /\ usedProofs' = usedProofs \cup {p.payload} /\ p.payload \notin usedProofs
          /\ verifiedWeb2Data'[u].dataHash = p.payload.data]_vars

(* Proofs may arrive out of order, and then an older attestation replaces  *)
(* a newer one; the attested time of a url goes back by at most twice      *)
(* PROOF_MAX_AGE in one step.                                              *)
RegressionBounded ==
  [][\A u \in Urls : verifiedWeb2Data[u] # NoRecord =>
        provenTs'[u] >= provenTs[u] - 2 * MaxAge]_vars
=============================================================================
