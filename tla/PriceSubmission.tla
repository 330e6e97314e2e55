---------------------------- MODULE PriceSubmission ----------------------------
(***************************************************************************)
(* One FTSO voting round after another (ftso_provider/submitter.rs): the   *)
(* aggregate of VolumeTrimmedMedian is formatted, committed and revealed   *)
(* in transactions signed by KmsWallet.  The caller is the library's user: *)
(* it builds the submission for the wallet's address, has the shard        *)
(* released, asking again when that fails, signs the commits of all feeds  *)
(* and then the reveal, nonce after nonce, and gives up the shard.  The    *)
(* chain is external: it takes signed transactions in nonce order and      *)
(* decodes their calldata by the ABI.                                      *)
(*                                                                         *)
(* The unit of price is 1/Units of a reported unit (5 decimals); as in     *)
(* VolumeTrimmedMedian an amount in USD is doubled.  A word of calldata is *)
(* an integer or one tagged value; offsets count bytes, 32 to a word.      *)
(***************************************************************************)
EXTENDS VolumeTrimmedMedian, KmsWallet

CONSTANTS
  Units,      \* quoted units in one reported unit
  MaxU64,     \* u64::MAX
  OtherUsd,   \* what a second feed may come to, doubled; 0 is not a price
  MaxRounds,  \* bound: voting rounds
  Collected   \* bound: rounds that collect observations, the first ones

ASSUME SubmissionAssumption ==
  /\ Units \in Nat \ {0} /\ MaxU64 \in Nat /\ MaxRounds \in Nat
  /\ OtherUsd \subseteq Nat

VARIABLES
  rounds,     \* submissions tried: the epoch, and what fresh_random drew
  round,      \* the PriceSubmission at hand, or none
  todo,       \* its calldata not signed yet
  nonce,      \* the wallet's next nonce
  sent,       \* raw transactions broadcast, any of them possibly lost
  mined,      \* how many the chain took (external)
  commits,    \* submitHash calls it executed: sender, epoch, hash (external)
  reveals     \* revealPrices calls it executed, decoded (external)

chain == <<mined, commits, reveals>>
vars  == <<obs, wallet, rounds, round, todo, nonce, sent, chain>>

NoRound == [epoch_id |-> 0, ftso_indices |-> <<>>, prices |-> <<>>, random |-> 0, hashes |-> <<>>]

Init ==
  /\ obs = <<>> /\ WalletInit
  /\ rounds = 0 /\ round = NoRound /\ todo = <<>> /\ nonce = 0 /\ sent = {}
  /\ mined = 0 /\ commits = {} /\ reveals = {}

----------------------------------------------------------------------------
(* Formatting                                                              *)

format_price_Truncates(usd) ==
  IF usd = 0 \/ usd > 2 * Units * (MaxU64 + 1) THEN {} ELSE {Min({usd \div (2 * Units), MaxU64})}

\* Half up.  The bound is compared as an f64, which rounds u64::MAX up, and
\* the conversion saturates; a price under half a unit becomes 0.
format_price(usd) ==
  IF usd = 0 \/ usd > 2 * Units * (MaxU64 + 1) THEN {}
  ELSE {Min({(usd + Units) \div (2 * Units), MaxU64})}

\* The preimage is the price's 8 bytes, the 32 random ones, 12 zeros and the
\* address.
zeros(n) == <<"zeros", n>>

commit_hash(price, random, voter) == keccak256(<<price, random, zeros(12), voter>>)

submit_hash_calldata(epoch_id, hash) == <<"submitHash", epoch_id, hash>>

\* Four head words, then each array behind its length.
reveal_prices_calldata_NoLengthWord(epoch_id, ftso_indices, prices, random) ==
  LET indices_offset == 4 * 32
      prices_offset  == indices_offset + Len(ftso_indices) * 32
  IN  <<"revealPrices", epoch_id, indices_offset, prices_offset, random>>
        \o <<Len(ftso_indices)>> \o ftso_indices \o <<Len(prices)>> \o prices

reveal_prices_calldata(epoch_id, ftso_indices, prices, random) ==
  LET indices_offset == 4 * 32
      prices_offset  == indices_offset + 32 + Len(ftso_indices) * 32
  IN  <<"revealPrices", epoch_id, indices_offset, prices_offset, random>>
        \o <<Len(ftso_indices)>> \o ftso_indices \o <<Len(prices)>> \o prices

\* Every feed is formatted and hashed, or there is no submission: the first
\* price that does not format, or an empty list, is an error.
new(epoch_id, feeds, random, voter) ==
  LET formatted == [i \in DOMAIN feeds |-> format_price(feeds[i][2])]
      prices    == [i \in DOMAIN feeds |-> CHOOSE p \in formatted[i] : TRUE]
  IN  IF feeds = <<>> \/ \E i \in DOMAIN feeds : formatted[i] = {} THEN {}
      ELSE {[epoch_id |-> epoch_id, ftso_indices |-> [i \in DOMAIN feeds |-> feeds[i][1]],
             prices |-> prices, random |-> random,
             hashes |-> [i \in DOMAIN feeds |-> commit_hash(prices[i], random, voter)]]}

submit_txs(sub) ==
  [i \in DOMAIN sub.hashes |-> submit_hash_calldata(sub.epoch_id, sub.hashes[i])]

reveal_tx(sub) ==
  reveal_prices_calldata(sub.epoch_id, sub.ftso_indices, sub.prices, sub.random)

----------------------------------------------------------------------------
(* A round                                                                 *)

collect ==
  /\ round = NoRound /\ rounds < Collected
  /\ \E o \in Observations, i \in 1 .. Len(obs) + 1 : observe(o, i)
  /\ UNCHANGED <<wallet, rounds, round, todo, nonce, sent, chain>>

fresh_random == <<"random", rounds + 1>>
OtherFeeds   == {<<>>} \cup {<<<<1, usd>>>> : usd \in OtherUsd}

\* The submission for the feeds at hand: the observed one if it has an
\* aggregate, then another.  On an error the caller skips the round, as it
\* does when composed_address panics on a zero share.
build(others) ==
  /\ round = NoRound /\ rounds < MaxRounds
  /\ rounds' = rounds + 1
  /\ LET own   == IF obs = <<>> THEN <<>> ELSE <<<<0, volume_trimmed_median(obs)>>>>
         built == UNION {new(rounds', own \o others, fresh_random, voter) :
                           voter \in composed_address(s1, s2)}
     IN  \/ built = {} /\ obs' = <<>> /\ UNCHANGED <<round, todo>>
         \/ \E sub \in built :
              /\ round' = sub /\ todo' = submit_txs(sub) \o <<reveal_tx(sub)>>
              /\ UNCHANGED obs
  /\ UNCHANGED <<wallet, nonce, sent, chain>>

Tx(data) == [chain_id |-> 114, nonce |-> nonce, max_priority_fee_per_gas |-> 0,
             max_fee_per_gas |-> 0, gas_limit |-> 0, to |-> "PriceSubmitter",
             value |-> 0, data |-> data]

\* The next transaction is signed and broadcast; the shard goes with the
\* last one.
sign_price_tx ==
  /\ todo # <<>>
  /\ \E a \in released.shard :
       sent' = sent \cup {raw_signed_tx(Tx(Head(todo)), sign_eip1559(a, s2, Tx(Head(todo))))}
  /\ nonce' = nonce + 1
  /\ todo' = Tail(todo)
  /\ IF Len(todo) = 1 THEN round' = NoRound /\ zeroize ELSE UNCHANGED <<round, wallet>>
  /\ UNCHANGED <<obs, rounds, chain>>

\* External: a transaction is decoded, its sender recovered, its nonce due.  This
\* chain reads a number with leading zeros; an EVM node refuses one.
FieldsOf(raw) == SubSeq(raw[2], 1, 9)
SigOf(raw)    == [y_parity |-> raw[2][10], r |-> raw[2][11][2], s |-> raw[2][12][2]]
SenderOf(raw) == {addressOf(p) : p \in
                    recover_from_digest(keccak256(<<"02", FieldsOf(raw)>>), SigOf(raw))}

Array(data, offset) ==
  LET at == offset \div 32 + 2     \* offset 0 is the word behind the selector
  IN  IF at \notin DOMAIN data THEN <<>> ELSE SubSeq(data, at + 1, at + data[at])

mine(raw) ==
  /\ raw \in sent /\ raw[2][2] = mined
  /\ mined' = mined + 1
  /\ LET data == raw[2][8] IN \E sender \in SenderOf(raw) :
       \/ /\ data[1] = "submitHash"
          /\ commits' = commits \cup {<<sender, data[2], data[3]>>}
          /\ UNCHANGED reveals
       \/ /\ data[1] = "revealPrices"
          /\ reveals' = reveals \cup {[sender |-> sender, epoch_id |-> data[2],
                 indices |-> Array(data, data[3]), prices |-> Array(data, data[4]),
                 random |-> data[5]]}
          /\ UNCHANGED commits
  /\ UNCHANGED <<obs, wallet, rounds, round, todo, nonce, sent>>

\* While there is something to sign; the observations are not needed then.
walletStep ==
  /\ todo # <<>> /\ obs' = <<>>
  /\ \/ from_env({"ENCLAVE_KMS_CRYPTO_KEY"})
     \/ from_env({"ENCLAVE_KMS_CRYPTO_KEY", "ENCLAVE_WIP_AUDIENCE"})
     \/ /\ released.shard = {}
        /\ \E eat \in Images \cup {"blank"} : release_enclave_shard(eat)
     \/ stsAnswers \/ kmsAnswers
     \/ \E readable \in BOOLEAN : \/ exchange_eat_for_access_token(readable)
                                  \/ decrypt_key_shard(readable)
     \/ \E r \in Scalars : reshare(r)
     \/ \E images \in SUBSET Images : setPolicy(images)
     \/ expire
  /\ UNCHANGED <<rounds, round, todo, nonce, sent, chain>>

expiry == timedOut /\ UNCHANGED <<obs, rounds, round, todo, nonce, sent, chain>>

Next == \/ walletStep \/ expiry \/ collect
        \/ \E others \in OtherFeeds : build(others)
        \/ sign_price_tx
        \/ \E raw \in sent : mine(raw)

\* The timers of post_json go off.
Spec == Init /\ [][Next]_vars /\ WF_vars(expiry)

----------------------------------------------------------------------------
(* Properties                                                              *)

\* The price put in a submission is, to half a reported unit, one that an
\* exchange quoted, or with no volume at all the middle of two; the largest
\* submittable price stands for what lies above it (format_price over
\* volume_trimmed_median).
SubmittedPriceIsQuoted ==
  obs # <<>> /\ round # NoRound =>
    LET near(m) == \/ m - Units <= 2 * Units * round.prices[1] /\ 2 * Units * round.prices[1] <= m + Units
                   \/ m > 2 * Units * MaxU64 /\ round.prices[1] = MaxU64
    IN  \/ \E p \in PricesOf(obs) : near(2 * p)
        \/ volume(obs) = 0 /\ \E p, q \in PricesOf(obs) : near(p + q)

\* Every transaction signed with the two shares is sent by the wallet of the
\* key they were split from, whatever the split, and verify_signature agrees
\* (sign_eip1559 never sees the address, composed_address never the key).
TransactionsAreTheWallets ==
  \A raw \in sent :
    /\ SenderOf(raw) = {addressOf(pointOf(Secret))}
    /\ verify_signature(pointOf(Secret), <<"02", FieldsOf(raw)>>, SigOf(raw))

\* A reveal the chain executes opens commits it executed before: what the
\* ABI reads from the calldata, hashed with the recovered sender, was
\* committed by that sender in that epoch, one hash per revealed feed.
RevealsOpenCommits ==
  \A v \in reveals :
    /\ v.prices # <<>> /\ Len(v.indices) = Len(v.prices)
    /\ \A i \in DOMAIN v.prices :
         <<v.sender, v.epoch_id, commit_hash(v.prices[i], v.random, v.sender)>> \in commits

\* The same against the hash the documented reference formula gives,
\* keccak256(abi.encode(uint256 price, uint256 random, address voter)): the
\* code's comments call commit_hash that formula, byte for byte.
priceHash(price, random, voter) ==
  keccak256(<<zeros(24), price, random, zeros(12), voter>>)

RevealsOpenByReference ==
  \A v \in reveals : \A i \in DOMAIN v.prices :
    <<v.sender, v.epoch_id, priceHash(v.prices[i], v.random, v.sender)>> \in commits
=============================================================================
