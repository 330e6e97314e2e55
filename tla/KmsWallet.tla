------------------------------- MODULE KmsWallet -------------------------------
(***************************************************************************)
(* The KMS MPC wallet: the REST client that has the enclave's key shard    *)
(* released (kms/client.rs) and the two-share signer (kms/mpc_signer.rs).  *)
(*                                                                         *)
(* A scalar is an integer modulo Order, and the point k*G is <<"G", k>>:   *)
(* the curve's group is cyclic, so point addition is addition of the       *)
(* logarithms.  keccak256 and ECDSA are symbolic: a digest is its          *)
(* preimage, and a signature recovers its key for its own digest only.     *)
(*                                                                         *)
(* External, as the client uses them: the token exchange (STS), which      *)
(* issues a token for an EAT of an approved image, and Cloud KMS, which    *)
(* decrypts the sealed shard for a live token.  Either may answer late,    *)
(* never, with headers and no body, or with a body the client can't read.  *)
(***************************************************************************)
EXTENDS Integers, Sequences, FiniteSets

CONSTANTS
  Order,       \* the order of the curve
  Secret,      \* the operator's private key
  Images,      \* image digests an EAT may name
  MaxReleases  \* bound: releases asked for

ASSUME WalletAssumption ==
  /\ Order \in Nat /\ Order > 1 /\ Secret \in 1 .. Order - 1 /\ MaxReleases \in Nat

VARIABLES
  config,    \* "unread", "Unconfigured" or "ok"
  s1, s2,    \* the sealed enclave share and the operator's
  approved,  \* the images the pool's condition admits (external)
  tokens,    \* access tokens issued and not expired (external)
  call,      \* the release in progress
  released   \* what the last one returned

wallet == <<config, s1, s2, approved, tokens, call, released>>

Scalars == 0 .. Order - 1

\* call.at: "idle", or the POST awaited: "sts" or "kms", its headers or body.
Idle    == [at |-> "idle", eat |-> "none", body |-> FALSE, status |-> 0,
            token |-> 0, granted |-> FALSE, asked |-> 0]
Nothing == [outcome |-> "none", shard |-> {}, granted |-> FALSE]

----------------------------------------------------------------------------
(* The signer                                                              *)

keccak256(x) == <<"keccak", x>>
pointOf(k)   == <<"G", k % Order>>

\* Both public_key_of and the conversion of the sum panic on the identity.
public_key_of(k) == IF k = 0 THEN {} ELSE {pointOf(k)}
sumOf(p, q)      == {r \in {pointOf(p[2] + q[2])} : r[2] # 0}

composed_public_key(a, b) ==
  UNION {sumOf(p, q) : p \in public_key_of(a), q \in public_key_of(b)}

addressOf(point)       == <<"address", point[2]>>
composed_address(a, b) == {addressOf(q) : q \in composed_public_key(a, b)}

\* s1 is random, s2 = secret - s1.
split_key(secret, r) == <<r, (secret - r + Order) % Order>>

\* RLP is injective: the list is its fields, an empty access list last.  The
\* value, r and s go in as 32 bytes with their leading zeros, where a number
\* has none.
bytes32(x) == <<"bytes32", x>>
fields(tx) == <<tx.chain_id, tx.nonce, tx.max_priority_fee_per_gas, tx.max_fee_per_gas,
                tx.gas_limit, tx.to, bytes32(tx.value), tx.data, <<>>>>

eip1559_signing_payload(tx) == <<"02", fields(tx)>>

\* k256 returns the low s and the recovery id that goes with it.
sign_digest_recoverable(k, digest) == [r |-> <<"r", k, digest>>, s |-> "low", y_parity |-> 0]

\* The payload is hashed once, s is brought to its low form if it is not in
\* it, and the recovery id is kept as it came, which is right because k256
\* leaves nothing to bring.
normalize_s(sig) == [sig EXCEPT !.s = "low"]

sign_with_payload_HashedTwice(k, payload) ==
  normalize_s(sign_digest_recoverable(k, keccak256(keccak256(payload))))

sign_with_payload(k, payload) ==
  normalize_s(sign_digest_recoverable(k, keccak256(payload)))

sign_eip1559(a, b, tx) == sign_with_payload((a + b) % Order, eip1559_signing_payload(tx))

\* ecrecover: flipping s or the parity recovers some other key.
recover_from_digest(digest, sig) ==
  IF sig.r[3] = digest /\ (sig.s = "low") = (sig.y_parity = 0) THEN {pointOf(sig.r[2])} ELSE {}

verify_signature(pk, payload, sig) == recover_from_digest(keccak256(payload), sig) = {pk}

raw_signed_tx(tx, sig) == <<"02", fields(tx) \o <<sig.y_parity, bytes32(sig.r), bytes32(sig.s)>>>>

----------------------------------------------------------------------------
(* The client                                                              *)

WalletInit ==
  /\ config = "unread" /\ approved = Images /\ tokens = {}
  /\ \E r \in Scalars : s1 = split_key(Secret, r)[1] /\ s2 = split_key(Secret, r)[2]
  /\ call = Idle /\ released = Nothing

\* The key name and the audience are required, the two URLs have defaults.
from_env(set) ==
  /\ config = "unread"
  /\ config' = IF {"ENCLAVE_KMS_CRYPTO_KEY", "ENCLAVE_WIP_AUDIENCE"} \subseteq set
               THEN "ok" ELSE "Unconfigured"
  /\ UNCHANGED <<s1, s2, approved, tokens, call, released>>

\* The call ends: the shard or one of KmsError.
return(outcome, shard) ==
  /\ call' = [Idle EXCEPT !.asked = call.asked]
  /\ released' = [outcome |-> outcome, shard |-> shard, granted |-> call.granted]

post(url, token, granted) ==
  /\ call' = [call EXCEPT !.at = url, !.body = FALSE, !.token = token, !.granted = granted]
  /\ UNCHANGED released

Awaiting(url, body) == call.at = url /\ call.body = body

release_enclave_shard_CachedToken(eat) ==
  /\ config = "ok" /\ call.at = "idle" /\ call.asked < MaxReleases
  /\ IF tokens # {}
     THEN \E t \in tokens :
            call' = [Idle EXCEPT !.at = "kms", !.eat = eat, !.token = t, !.asked = call.asked + 1]
     ELSE call' = [Idle EXCEPT !.at = "sts", !.eat = eat, !.asked = call.asked + 1]
  /\ released' = Nothing
  /\ UNCHANGED <<config, s1, s2, approved, tokens>>

\* The exchange comes first; an empty EAT is refused before anything is sent.
release_enclave_shard(eat) ==
  /\ config = "ok" /\ call.at = "idle" /\ call.asked < MaxReleases
  /\ \/ /\ eat = "blank"
        /\ call' = [Idle EXCEPT !.asked = call.asked + 1]
        /\ released' = [Nothing EXCEPT !.outcome = "MissingEat"]
     \/ /\ eat # "blank"
        /\ call' = [Idle EXCEPT !.at = "sts", !.eat = eat, !.asked = call.asked + 1]
        /\ released' = Nothing
  /\ UNCHANGED <<config, s1, s2, approved, tokens>>

\* External: STS decides and answers with headers; so does KMS.
stsAnswers ==
  /\ Awaiting("sts", FALSE)
  /\ LET yes == call.eat \in approved
     IN  /\ tokens' = IF yes THEN tokens \cup {call.asked} ELSE tokens
         /\ call' = [call EXCEPT !.body = TRUE, !.status = IF yes THEN 200 ELSE 403,
                                 !.token = call.asked, !.granted = yes]
  /\ UNCHANGED <<config, s1, s2, approved, released>>

kmsAnswers ==
  /\ Awaiting("kms", FALSE)
  /\ call' = [call EXCEPT !.body = TRUE, !.status = IF call.token \in tokens THEN 200 ELSE 401]
  /\ UNCHANGED <<config, s1, s2, approved, tokens, released>>

\* The body is read before the status is looked at; the token is the first
\* string field of that name, and a body laid out otherwise has none.
exchange_eat_for_access_token(readable) ==
  /\ Awaiting("sts", TRUE)
  /\ \/ call.status # 200 /\ return("Http", {})
     \/ call.status = 200 /\ ~readable /\ return("MissingToken", {})
     \/ call.status = 200 /\ readable /\ post("kms", call.token, call.granted)
  /\ UNCHANGED <<config, s1, s2, approved, tokens>>

decrypt_key_shard(readable) ==
  /\ Awaiting("kms", TRUE)
  /\ \/ call.status # 200 /\ return("Http", {})
     \/ call.status = 200 /\ ~readable /\ return("Parse", {})
     \/ call.status = 200 /\ readable /\ return("released", {s1})
  /\ UNCHANGED <<config, s1, s2, approved, tokens>>

timedOut_HeadersOnly ==
  /\ call.at # "idle" /\ ~call.body
  /\ return("Transport", {})
  /\ UNCHANGED <<config, s1, s2, approved, tokens>>

\* post_json bounds the wait for the headers, then the wait for the body; a
\* connection that breaks ends it the same way.  STS may still grant the
\* token nobody waits for.
timedOut ==
  /\ call.at # "idle"
  /\ return("Transport", {})
  /\ \E late \in SUBSET {call.asked} :
       /\ late # {} => Awaiting("sts", FALSE) /\ call.eat \in approved
       /\ tokens' = tokens \cup late
  /\ UNCHANGED <<config, s1, s2, approved>>

\* The signing ends: the shares go out of scope and are zeroized.
zeroize == released' = Nothing /\ UNCHANGED <<config, s1, s2, approved, tokens, call>>

\* The operator splits the key anew and seals the new share, while the
\* enclave holds none of the old.
reshare(r) ==
  /\ call.at = "idle" /\ released.shard = {}
  /\ s1' = split_key(Secret, r)[1] /\ s2' = split_key(Secret, r)[2]
  /\ UNCHANGED <<config, approved, tokens, call, released>>

\* External: the pool's condition is edited, and tokens run out.
setPolicy(images) == approved' = images /\ UNCHANGED <<config, s1, s2, tokens, call, released>>
expire == tokens # {} /\ tokens' = {} /\ UNCHANGED <<config, s1, s2, approved, call, released>>

----------------------------------------------------------------------------
(* Properties                                                              *)

\* release_enclave_shard fails closed: it returns a shard only when STS
\* approved the EAT of that very call, whatever was approved, issued or
\* revoked around it.
ShardNeedsApproval == released.shard # {} => released.granted

\* A release returns even from an endpoint that sends headers and then
\* nothing: each leg of post_json is under the timeout.
ReleasesReturn == []<>(call.at = "idle")
=============================================================================
