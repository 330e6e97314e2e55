----------------------------- MODULE VerifiableRAG -----------------------------
(***************************************************************************)
(* The attestation and settlement half of VerifiableRAG.sol: the image     *)
(* digest allowlist, the settlement feed, the proof commitments, the query *)
(* records and the settlement against the live FTSO v2 feed.               *)
(*                                                                         *)
(* One action is one transaction.  The EVM makes it atomic: a gate that    *)
(* fails reverts every write before it, so a reverted call is a stuttering *)
(* step and the guards of an action are all the gates of its function.     *)
(* keccak256 is modelled as injective: a hash is the tuple of its inputs.  *)
(***************************************************************************)
EXTENDS Integers, FiniteSets

CONSTANTS
  Owner, Accounts,          \* the Ownable owner, and everybody who may call
  Digests, NoDigest,        \* image digests; bytes32(0)
  FeedIds, NoFeed,          \* FTSO v2 feed ids; bytes21(0)
  Queries, NoQuery,         \* query hashes; bytes32(0)
  Tokens, Claims,           \* vTPM tokens and what parsing each one yields
  Zkps, NoZkp,              \* serialized halo2 proofs; the empty byte string
  AttestedHashes,           \* AttestationProof.bindingHash / publicInputs pairs
  Rounds, NoRoot,           \* FDC voting rounds, named by their Merkle roots
  FdcProofs,                \* ABI-encoded Web2Json proofs
  Readings,                 \* what FtsoV2.getFeedById can answer
  Quantities,               \* settlement quantities callers pass
  NoHash,                   \* bytes32(0): no commitment, no binding
  MaxAge,                   \* REALTIME_MAX_AGE
  MaxUint,                  \* largest value of the checked uint arithmetic
  MaxTime,                  \* bound: the last block timestamp explored
  MaxCommitments            \* bound: commitments accepted in a behaviour

ASSUME ConstantsAssumption ==
  /\ Owner \in Accounts
  /\ NoDigest \notin Digests /\ NoFeed \notin FeedIds
  /\ NoQuery \notin Queries /\ NoZkp \notin Zkps /\ NoRoot \notin Rounds
  /\ Claims \in [Tokens -> [empty : BOOLEAN, swname : BOOLEAN,
                            digest : Digests \cup {NoDigest}]]
  /\ FdcProofs \subseteq [decodes : BOOLEAN, genuine : BOOLEAN, round : Rounds]
  /\ Readings \subseteq [value : Nat, decimals : Int, timestamp : Nat]
  /\ Quantities \subseteq Nat
  /\ MaxAge \in Nat /\ MaxUint \in Nat /\ MaxTime \in Nat /\ MaxCommitments \in Nat

VARIABLES
  approvedImageDigest, priceFeedId,                        \* configuration
  submittedProofs, latestProofHash, verifiedQueries,       \* commitments
  latestVerifiedWeb2Hash,
  lastSettlementPrice, lastSettlementValuation,            \* settlement
  emitted,                  \* the events of the last transaction
  now,                      \* block.timestamp
  feed, registry, finalized \* FtsoV2, FlareContractRegistry, Relay (external)

config   == <<approvedImageDigest, priceFeedId>>
records  == <<submittedProofs, latestProofHash, verifiedQueries, latestVerifiedWeb2Hash>>
settled  == <<lastSettlementPrice, lastSettlementValuation>>
external == <<feed, registry, finalized>>
vars     == <<config, records, settled, emitted, now, external>>

(***************************************************************************)
(* Commitments and records.  The ABI encodings of the two kinds of         *)
(* commitment differ in their heads, so the hashes never coincide.         *)
(***************************************************************************)
AttestId(hash, zkp)         == <<"attest", hash, zkp>>
RagId(token, zkp, query)    == <<"rag", token, zkp, query>>
BindingHash(query, zkp, d)  == <<query, zkp, d>>

AttestIds == {AttestId(h, p) : h \in AttestedHashes, p \in Zkps \cup {NoZkp}}
RagIds    == {RagId(t, p, q) : t \in Tokens, p \in Zkps, q \in Queries}
BindingHashes == Queries \X Zkps \X Digests

NoRecord == [verified |-> FALSE]
Record(b, t) == [verified |-> TRUE, bindingHash |-> b, verifiedAt |-> t]
QueryRecords == [verified : {FALSE}] \cup
                [verified : {TRUE}, bindingHash : BindingHashes, verifiedAt : Nat]

Contracts == {"FdcVerification", "FtsoV2"}

(***************************************************************************)
(* Events                                                                  *)
(***************************************************************************)
ImageDigestUpdated(old, new) == [event |-> "ImageDigestUpdated", old |-> old, new |-> new]
PriceFeedIdUpdated(old, new) == [event |-> "PriceFeedIdUpdated", old |-> old, new |-> new]
AttestationSubmitted(id)     == [event |-> "AttestationSubmitted", proofId |-> id]
ProofVerified(q, d)          == [event |-> "ProofVerified", query |-> q, digest |-> d]
PriceSettled(f, r)           == [event |-> "PriceSettled", feed |-> f, price |-> r.value]
QuerySettled(q, f, r, n, v)  == [event |-> "QuerySettled", query |-> q, feed |-> f,
                                 price |-> r.value, decimals |-> r.decimals,
                                 quantity |-> n, valuation |-> v]

(***************************************************************************)
(* The constructor (the digest it is given is never zero).                 *)
(***************************************************************************)
Init ==
  /\ approvedImageDigest \in Digests
  /\ priceFeedId = NoFeed
  /\ submittedProofs = {} /\ latestProofHash = NoHash
  /\ verifiedQueries = [q \in Queries |-> NoRecord]
  /\ latestVerifiedWeb2Hash = NoRoot
  /\ lastSettlementPrice = 0 /\ lastSettlementValuation = 0
  /\ emitted = {}
  /\ now = 0
  /\ feed \in [FeedIds -> Readings]
  /\ registry = Contracts
  /\ finalized = {}

(***************************************************************************)
(* Owner configuration                                                     *)
(***************************************************************************)
updateApprovedImageDigest(caller, d) ==
  /\ caller = Owner
  /\ d # NoDigest
  /\ d # approvedImageDigest
  /\ emitted' = {ImageDigestUpdated(approvedImageDigest, d)}
  /\ approvedImageDigest' = d
  /\ UNCHANGED <<priceFeedId, records, settled, now, external>>

updatePriceFeedId(caller, f) ==
  /\ caller = Owner
  /\ f # NoFeed
  /\ f # priceFeedId
  /\ emitted' = {PriceFeedIdUpdated(priceFeedId, f)}
  /\ priceFeedId' = f
  /\ UNCHANGED <<approvedImageDigest, records, settled, now, external>>

(***************************************************************************)
(* The replay gate of both entry points: DuplicateProof, or the commitment *)
(* is stored and becomes the latest one.                                   *)
(***************************************************************************)

acceptCommitment(id) ==
  /\ id \notin submittedProofs
  /\ Cardinality(submittedProofs) < MaxCommitments
  /\ submittedProofs' = submittedProofs \cup {id}
  /\ latestProofHash' = id

(***************************************************************************)
(* submitAttestation: a commitment with no claim checks at all.            *)
(***************************************************************************)
submitAttestation(hash, zkp, hasData) ==
  LET proofId == AttestId(hash, zkp)
  IN  /\ hasData
      /\ acceptCommitment(proofId)
      /\ emitted' = {AttestationSubmitted(proofId)}
      /\ UNCHANGED <<config, verifiedQueries, latestVerifiedWeb2Hash, settled, now, external>>

(***************************************************************************)
(* The live feed and the valuation                                         *)
(***************************************************************************)
(* |block.timestamp - feed.timestamp| <= REALTIME_MAX_AGE, in the code's   *)
(* overflow-free form; the feed is only reachable while FtsoV2 is known.   *)
LiveFeed_NotTooOldOnly(f) ==
  /\ "FtsoV2" \in registry
  /\ now <= feed[f].timestamp + MaxAge

LiveFeed(f) ==
  /\ "FtsoV2" \in registry
  /\ feed[f].timestamp <= now + MaxAge
  /\ now <= feed[f].timestamp + MaxAge

(* 10^n, as a recursive function: tlapm has no facts about the operator ^. *)
powerOfTen[n \in Nat] == IF n = 0 THEN 1 ELSE 10 * powerOfTen[n - 1]

magnitude(decimals) == IF decimals >= 0 THEN decimals ELSE -decimals

(* quantity x price scaled by 10^decimals, truncating. *)
scaleValuation_DivideFirst(n, price, decimals) ==
  IF decimals >= 0 THEN n * (price \div powerOfTen[decimals])
                   ELSE n * price * powerOfTen[-decimals]

scaleValuation(n, price, decimals) ==
  IF decimals >= 0 THEN (n * price) \div powerOfTen[decimals]
                   ELSE n * price * powerOfTen[-decimals]

(* Solidity's checked arithmetic: no intermediate value exceeds MaxUint. *)
ScaleFits(n, price, decimals) ==
  /\ n * price <= MaxUint
  /\ powerOfTen[magnitude(decimals)] <= MaxUint
  /\ scaleValuation(n, price, decimals) \in 0 .. MaxUint

settleAgainstFeed(query, n) ==
  LET reading   == feed[priceFeedId]
      valuation == scaleValuation(n, reading.value, reading.decimals)
  IN  /\ n # 0
      /\ priceFeedId # NoFeed
      /\ LiveFeed(priceFeedId)
      /\ ScaleFits(n, reading.value, reading.decimals)
      /\ lastSettlementPrice' = reading.value
      /\ lastSettlementValuation' = valuation
      /\ emitted' = {PriceSettled(priceFeedId, reading),
                     QuerySettled(query, priceFeedId, reading, n, valuation),
                     ProofVerified(query, approvedImageDigest)}

(***************************************************************************)
(* The FDC gate: verified by the live FdcVerification against the Merkle   *)
(* root the Relay published for the proof's round, and every failure is    *)
(* the one error UnverifiedWeb2Data.                                       *)
(***************************************************************************)
verifiedWeb2Root_RootOfAnyRound(fdcProof) ==
  /\ fdcProof.decodes
  /\ "FdcVerification" \in registry
  /\ fdcProof.genuine
  /\ latestVerifiedWeb2Hash' = fdcProof.round

verifiedWeb2Root(fdcProof) ==
  /\ fdcProof.decodes
  /\ "FdcVerification" \in registry
  /\ fdcProof.genuine /\ fdcProof.round \in finalized
  /\ latestVerifiedWeb2Hash' = fdcProof.round

(* The claims of the token: swname and an allowlisted image digest. *)
AuthorizedToken_NoSwname(token) ==
  /\ ~Claims[token].empty
  /\ Claims[token].digest = approvedImageDigest

AuthorizedToken(token) ==
  /\ ~Claims[token].empty
  /\ Claims[token].swname
  /\ Claims[token].digest = approvedImageDigest

(* The query record: written once; later verifications of the query must   *)
(* carry the same binding, or QueryConflict reverts the transaction.       *)
recordQuery_NoConflictCheck(query, binding) ==
  \/ /\ verifiedQueries[query].verified
     /\ UNCHANGED verifiedQueries
  \/ /\ ~verifiedQueries[query].verified
     /\ verifiedQueries' = [verifiedQueries EXCEPT ![query] = Record(binding, now)]

recordQuery_LastWriterWins(query, binding) ==
  verifiedQueries' = [verifiedQueries EXCEPT ![query] = Record(binding, now)]

recordQuery(query, binding) ==
  \/ /\ verifiedQueries[query].verified
     /\ verifiedQueries[query].bindingHash = binding
     /\ UNCHANGED verifiedQueries
  \/ /\ ~verifiedQueries[query].verified
     /\ verifiedQueries' = [verifiedQueries EXCEPT ![query] = Record(binding, now)]

verifyAndSettleRAG(token, zkp, query, n, fdcProof) ==
  LET proofId == RagId(token, zkp, query)
      binding == BindingHash(query, zkp, Claims[token].digest)
  IN  /\ zkp # NoZkp
      /\ query # NoQuery
      /\ AuthorizedToken(token)
      /\ verifiedWeb2Root(fdcProof)
      /\ acceptCommitment(proofId)
      /\ recordQuery(query, binding)
      /\ settleAgainstFeed(query, n)
      /\ UNCHANGED <<config, now, external>>

(***************************************************************************)
(* The chain and the Flare protocol contracts                              *)
(***************************************************************************)
NewBlock ==
  /\ now < MaxTime
  /\ now' = now + 1
  /\ emitted' = {}
  /\ UNCHANGED <<config, records, settled, external>>

FtsoPublish(f, r) ==
  /\ feed' = [feed EXCEPT ![f] = r]
  /\ emitted' = {}
  /\ UNCHANGED <<config, records, settled, now, registry, finalized>>

RelayFinalize(round) ==
  /\ finalized' = finalized \cup {round}
  /\ emitted' = {}
  /\ UNCHANGED <<config, records, settled, now, feed, registry>>

RegistryUpdate(names) ==
  /\ registry' = names
  /\ emitted' = {}
  /\ UNCHANGED <<config, records, settled, now, feed, finalized>>

Next ==
  \/ \E a \in Accounts, d \in Digests \cup {NoDigest} : updateApprovedImageDigest(a, d)
  \/ \E a \in Accounts, f \in FeedIds \cup {NoFeed} : updatePriceFeedId(a, f)
  \/ \E h \in AttestedHashes, p \in Zkps \cup {NoZkp}, b \in BOOLEAN : submitAttestation(h, p, b)
  \/ \E t \in Tokens, p \in Zkps \cup {NoZkp}, q \in Queries \cup {NoQuery},
        n \in Quantities, w \in FdcProofs : verifyAndSettleRAG(t, p, q, n, w)
  \/ NewBlock
  \/ \E f \in FeedIds, r \in Readings : FtsoPublish(f, r)
  \/ \E r \in Rounds : RelayFinalize(r)
  \/ \E names \in SUBSET Contracts : RegistryUpdate(names)

Spec == Init /\ [][Next]_vars

--------------------------------------------------------------------------------
(***************************************************************************)
(* Properties                                                              *)
(***************************************************************************)
(* The values of every storage slot.  approvedImageDigest is never         *)
(* bytes32(0), which is what makes a token without a digest unacceptable.  *)
TypeOK ==
  /\ approvedImageDigest \in Digests
  /\ priceFeedId \in FeedIds \cup {NoFeed}
  /\ submittedProofs \subseteq AttestIds \cup RagIds
  /\ latestProofHash \in AttestIds \cup RagIds \cup {NoHash}
  /\ verifiedQueries \in [Queries -> QueryRecords]
  /\ latestVerifiedWeb2Hash \in Rounds \cup {NoRoot}
  /\ lastSettlementPrice \in Nat /\ lastSettlementValuation \in Nat
  /\ now \in Nat
  /\ feed \in [FeedIds -> Readings]
  /\ registry \subseteq Contracts
  /\ finalized \subseteq Rounds

(* Every accepted RAG commitment of a query agrees with the query's record *)
(* on the proof and on the image digest, however often the digest was      *)
(* rotated in between: a query never settles under two different proofs or *)
(* two different images (the QueryConflict gate of verifyAndSettleRAG).    *)
OneBindingPerQuery ==
  \A t \in Tokens, p \in Zkps, q \in Queries :
    RagId(t, p, q) \in submittedProofs =>
      /\ verifiedQueries[q].verified
      /\ verifiedQueries[q].bindingHash = BindingHash(q, p, Claims[t].digest)

(* A query is recorded as verified only with a commitment behind it: a     *)
(* token that carried the swname claim and the recorded digest, with the   *)
(* recorded proof.  submitAttestation alone never verifies a query.        *)
RecordsBackedByCommitment ==
  \A q \in Queries : verifiedQueries[q].verified =>
    \E t \in Tokens, p \in Zkps :
      /\ RagId(t, p, q) \in submittedProofs
      /\ Claims[t].swname /\ ~Claims[t].empty
      /\ verifiedQueries[q].bindingHash = BindingHash(q, p, Claims[t].digest)

(* Prompt 131's gate: once anything has been settled, the recorded Web2    *)
(* root is the published root of a finalized FDC round, never zero.        *)
Web2GatePrecedesSettlement ==
  (submittedProofs \cap RagIds) # {} => latestVerifiedWeb2Hash \in finalized

(* After a settlement the storage pointers are what a consumer recomputes  *)
(* from the QuerySettled event: the event's price, and a valuation that is *)
(* quantity x price / 10^decimals rounded down and fits the word.  And it  *)
(* settled under the image approved at that moment, however old the        *)
(* query's record: after a rotation the old image's records settle no more.*)
SettlementMatchesEvent ==
  \A e \in emitted : e.event = "QuerySettled" =>
    /\ lastSettlementPrice = e.price
    /\ lastSettlementValuation = e.valuation
    /\ e.quantity > 0
    /\ e.valuation <= MaxUint
    /\ LET scale == powerOfTen[magnitude(e.decimals)]
           exact == e.quantity * e.price
       IN  IF e.decimals >= 0
           THEN scale * e.valuation <= exact /\ exact < scale * (e.valuation + 1)
           ELSE e.valuation = scale * exact
    /\ verifiedQueries[e.query].bindingHash[3] = approvedImageDigest

(* The record of a verified query is write-once: no re-verification,       *)
(* rotation or reconfiguration changes its binding or its verifiedAt.      *)
RecordsWriteOnce ==
  [][\A q \in Queries : verifiedQueries[q].verified =>
        verifiedQueries'[q] = verifiedQueries[q]]_vars

(* Replay protection: a step accepts one fresh commitment and points       *)
(* latestProofHash at it, or else changes no record and settles nothing.   *)
CommitmentsAcceptedOnce ==
  [][\/ /\ latestProofHash' \notin submittedProofs
        /\ submittedProofs' = submittedProofs \cup {latestProofHash'}
     \/ UNCHANGED <<records, settled>>]_vars

(* A settlement uses a reading of the configured feed that is at most      *)
(* REALTIME_MAX_AGE away from the block time, in either direction, and it  *)
(* happens only while both Flare contracts resolve.                        *)
SettlementsUseFreshFeed ==
  [][\A e \in emitted' : (e.event = "QuerySettled" /\ emitted' # emitted) =>
        /\ priceFeedId \in FeedIds /\ registry = Contracts
        /\ now - feed[priceFeedId].timestamp \in (-MaxAge) .. MaxAge
        /\ lastSettlementPrice' = feed[priceFeedId].value]_vars

(* Abstractly the contract is a ledger of commitments and bindings.        *)
Ledger == INSTANCE QueryLedger WITH
  Attestations <- AttestIds,
  Settlements  <- RagIds,
  QueryOf   <- [c \in RagIds |-> c[4]],
  BindingOf <- [c \in RagIds |-> BindingHash(c[4], c[3], Claims[c[2]].digest)],
  Unbound   <- NoHash,
  accepted  <- submittedProofs,
  binding   <- [q \in Queries |-> IF verifiedQueries[q].verified
                                 THEN verifiedQueries[q].bindingHash ELSE NoHash]

(* The contract implements QueryLedger: an accepted commitment either      *)
(* concerns no query, or binds its query to its own proof and image, and   *)
(* nothing else ever changes a binding.                                    *)
ImplementsLedger == Ledger!Spec
=============================================================================
