-------------------------------- MODULE EatToken --------------------------------
(***************************************************************************)
(* The enclave's Entity Attestation Tokens (attestation/ of enclave_grpc): *)
(* the two hardware report devices, the claim set, the COSE_Sign1 envelope *)
(* and the offline verifier.  A digest, a hexadecimal rendering and a CBOR *)
(* encoding lose nothing, so each is a tagged tuple or a function.  An     *)
(* ES256 signature is the key that made it, the bytes it covers and which  *)
(* of the two values of s that verify alike it carries.  A token is the    *)
(* CBOR array of the COSE_Sign1 and the bytes behind it, which the reader  *)
(* leaves alone.                                                           *)
(***************************************************************************)
EXTENDS Integers, Sequences, FiniteSets, TLC

CONSTANTS
  Nonces,        \* what callers present; Blank among them
  Digests,       \* image digests; Blank among them
  Blank,
  DEFAULT_SWNAME

sha256(x) == <<"sha256", x>>
hex(x)    == <<"hex", x>>
Zeros     == <<"zeros">>

ASSUME EatAssumption ==
  /\ Blank \in Nonces \cap Digests /\ DEFAULT_SWNAME # Blank
  /\ \A nonce \in Nonces : hex(sha256(nonce)) # Blank

ReportLength == ("intel-tdx" :> 1024) @@ ("amd-sev-snp" :> 4000)

----------------------------------------------------------------------------
(* The devices.  found is what opening the device and the ioctl come to.   *)

Found    == {"missing", "denied", "refused", "works"}
ExitInfo == {"zero", "max", "code"}   \* exitinfo2: 0, u32::MAX, one of psp-sev.h

nonce_to_reportdata(nonce) == sha256(nonce)

failed(e)      == [ok |-> FALSE, error |-> e]
report(dev, d) == [ok |-> TRUE, device |-> dev, reportdata |-> d]

get_tdreport(found, reportdata) ==
  CASE found = "missing" -> failed("DeviceNotFound")
    [] found = "denied"  -> failed("Open")
    [] found = "refused" -> failed("Ioctl")
    [] found = "works"   -> report("intel-tdx", reportdata)

get_snp_report(found, fw_err, reportdata) ==
  CASE found = "missing" -> failed("DeviceNotFound")
    [] found = "denied"  -> failed("Open")
    [] found = "refused" -> failed(IF fw_err = "code" THEN "Firmware" ELSE "Ioctl")
    [] found = "works"   -> report("amd-sev-snp", reportdata)

\* What a request can get: SEV-SNP is asked only where there is no TDX device.
hardware(reportdata) ==
  LET tdx     == {get_tdreport(found, reportdata) : found \in Found}
      missing == failed("DeviceNotFound")
  IN  (tdx \ {missing}) \cup
        {get_snp_report(found, fw, reportdata) : found \in Found, fw \in ExitInfo}

----------------------------------------------------------------------------
(* Minting                                                                 *)

EatClaims(nonce, swname, digest, hw, instance, iat, measurement) ==
  [nonce |-> nonce, swname |-> swname, image_digest |-> digest, hardware |-> hw,
   instance_id |-> instance, iat |-> iat, measurements |-> <<measurement>>]

\* The CBOR map: claim 10 is absent when the nonce is empty, and what the
\* container claims is nested under claim 266.
encode_claims(c) ==
  LET always == [iat |-> c.iat, ueid |-> <<2, c.instance_id>>, swname |-> c.swname,
                 submods |-> [image_digest |-> c.image_digest, hardware |-> c.hardware,
                              instance_id |-> c.instance_id, rtmrs |-> c.measurements]]
  IN  [k \in DOMAIN always \cup (IF c.nonce = Blank THEN {} ELSE {"nonce"}) |->
         IF k = "nonce" THEN c.nonce ELSE always[k]]

\* The CBOR values a token is made of.
bstr(x) == [type |-> "bstr", value |-> x]
map(x)  == [type |-> "map", value |-> x]

ProtectedHeader == [alg |-> "ES256", kid |-> "enclave-v1"]

sig_structure(header, claims) == <<"Signature1", header, "", claims>>

sign(key, bytes) == [by |-> key, over |-> bytes, negated |-> FALSE]

\* Signer::verify: s and its negative verify alike, p256 asks for no low s.
verifies(signature, key, bytes) == signature.by = key /\ signature.over = bytes

\* The token, or none: a claim set without swname or digest is not signed.
build_eat(c, key) ==
  IF c.swname = Blank \/ c.image_digest = Blank THEN {}
  ELSE {[cose |-> <<bstr(ProtectedHeader), map({}), bstr(encode_claims(c)),
                    bstr(sign(key, sig_structure(ProtectedHeader, encode_claims(c))))>>,
         trailing |-> FALSE]}

----------------------------------------------------------------------------
(* Verifying                                                               *)

\* Four parts, three of them byte strings; the unprotected header may be anything.
parse_cose_sign1(token) ==
  Len(token.cose) = 4 /\ \A i \in {1, 3, 4} : token.cose[i].type = "bstr"

protected(token) == token.cose[1].value
payload(token)   == token.cose[3].value
signature(token) == token.cose[4].value

verify_cose_sign1(token, key) ==
  CASE ~parse_cose_sign1(token)             -> "Malformed"
    [] "alg" \notin DOMAIN protected(token) -> "Malformed"
    [] protected(token).alg # "ES256"       -> "UnsupportedAlg"
    [] ~verifies(signature(token), key, sig_structure(protected(token), payload(token)))
                                            -> "BadSignature"
    [] OTHER                                -> "ok"

\* The nested lookups of the container's digest.
container_digest(claims) ==
  IF "submods" \in DOMAIN claims THEN {claims.submods.image_digest} ELSE {}

\* An expectation of None is the empty set.
validate_claims_AnyNonce(claims, swname, digest, nonce) ==
  CASE "swname" \notin DOMAIN claims                            -> "MissingClaim"
    [] claims.swname # swname                                   -> "Policy"
    [] container_digest(claims) = {}                            -> "MissingClaim"
    [] digest # {} /\ digest # container_digest(claims)         -> "Policy"
    [] "nonce" \notin DOMAIN claims                             -> "MissingClaim"
    [] "iat" \notin DOMAIN claims \/ claims.iat < 0             -> "MissingClaim"
    [] OTHER                                                    -> "ok"

validate_claims(claims, swname, digest, nonce) ==
  CASE "swname" \notin DOMAIN claims                            -> "MissingClaim"
    [] claims.swname # swname                                   -> "Policy"
    [] container_digest(claims) = {}                            -> "MissingClaim"
    [] digest # {} /\ digest # container_digest(claims)         -> "Policy"
    [] "nonce" \notin DOMAIN claims                             -> "MissingClaim"
    [] nonce # {} /\ nonce # {claims.nonce}                     -> "Policy"
    [] "iat" \notin DOMAIN claims \/ claims.iat < 0             -> "MissingClaim"
    [] OTHER                                                    -> "ok"

verify_eat(token, key, swname, digest, nonce) ==
  LET envelope == verify_cose_sign1(token, key)
  IN  IF envelope # "ok" THEN envelope
      ELSE validate_claims(payload(token), swname, digest, nonce)

----------------------------------------------------------------------------
(* What may become of a token on its way: a part lost, added, of another   *)
(* type or changed, bytes behind it, s negated, its payload or signature   *)
(* that of another token.                                                  *)

altered(token, i, part) == [token EXCEPT !.cose = [@ EXCEPT ![i] = part]]
negated(sig)            == [sig EXCEPT !.negated = ~@]

otherParts(token) ==
  { [token EXCEPT !.cose = <<@[1], @[2], @[3]>>],
    [token EXCEPT !.cose = <<@[1], @[2], @[3], @[4], @[4]>>],
    [token EXCEPT !.trailing = TRUE],
    altered(token, 2, map({"kid"})),
    altered(token, 2, bstr({"kid"})) }
  \cup {altered(token, i, [token.cose[i] EXCEPT !.type = "tstr"]) : i \in {1, 3, 4}}

otherHeader(token) ==
  {altered(token, 1, bstr(h)) : h \in {[alg |-> "ES384", kid |-> "enclave-v1"],
                                       [kid |-> "enclave-v1"]}}

otherClaims(token) ==
  { altered(token, 3, bstr([payload(token) EXCEPT !.submods.hardware = "unknown"])),
    altered(token, 3, bstr([payload(token) EXCEPT !.iat = @ + 1])) }
  \cup {altered(token, 3, bstr([payload(token) EXCEPT !.submods.image_digest = d])) : d \in Digests}

corrupted(token, others) ==
  otherParts(token) \cup otherHeader(token) \cup otherClaims(token)
  \cup {altered(token, 3, o.cose[3]) : o \in others}
  \cup {altered(token, 4, o.cose[4]) : o \in others}
  \cup {altered(token, 4, bstr(negated(signature(o)))) : o \in others}

\* t carries what was signed in u: its header and claims, under that signature
\* or the one with s negated.  The unprotected header and the bytes behind the
\* array are not covered.
carries(t, u) ==
  /\ parse_cose_sign1(t)
  /\ protected(t) = protected(u) /\ payload(t) = payload(u)
  /\ signature(t) \in {signature(u), negated(signature(u))}
=============================================================================
