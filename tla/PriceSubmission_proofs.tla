------------------------- MODULE PriceSubmission_proofs -------------------------
(***************************************************************************)
(* The wallet and the submitter, for every order of the group, every       *)
(* secret, every set of images and any number of rounds, feeds and prices; *)
(* the aggregation under them, for any number of exchanges and quotes; and *)
(* the provider node that collects those, for every number of exchanges    *)
(* and feeds and every setting of its timers.                              *)
(***************************************************************************)
EXTENDS PriceSubmission, ProviderNode, SequenceTheorems, FiniteSetTheorems,
        FunctionTheorems, NaturalsInduction, WellFoundedInduction, TLAPS

----------------------------------------------------------------------------
(* The shares                                                              *)

\* Remainders of the group order.
LEMMA ModSmall == \A x \in 0 .. Order - 1 : x % Order = x
BY WalletAssumption

\* The sum of two of them is reduced once.
LEMMA ModOnce == \A x \in Order .. 2 * Order - 1 : x % Order = x - Order
<1> SUFFICES ASSUME NEW x \in Order .. 2 * Order - 1 PROVE x % Order = x - Order
  OBVIOUS
<1> DEFINE q == x \div Order
           m == x % Order
<1>1. q \in Int /\ m \in 0 .. Order - 1 /\ x = Order * q + m
  BY WalletAssumption
<1> HIDE DEF q, m
<1>2. q >= 1
  <2> SUFFICES ASSUME q <= 0 PROVE FALSE
    BY <1>1
  <2>1. Order * q <= 0
    BY <1>1, WalletAssumption
  <2> QED BY <1>1, <2>1, WalletAssumption
<1>3. q <= 1
  <2> SUFFICES ASSUME q >= 2 PROVE FALSE
    BY <1>1
  <2>1. Order * q >= Order * 2
    BY <1>1, WalletAssumption
  <2> QED BY <1>1, <2>1, WalletAssumption
<1>4. m = x - Order
  BY <1>1, <1>2, <1>3, WalletAssumption
<1> QED BY <1>4 DEF m

\* split_key: the shares add up to the secret, whatever r was drawn.
LEMMA Split ==
  ASSUME NEW r \in Scalars
  PROVE  LET s == split_key(Secret, r)
         IN  s[1] \in Scalars /\ s[2] \in Scalars /\ (s[1] + s[2]) % Order = Secret
<1> DEFINE y == Secret - r + Order
<1>1. y \in 1 .. 2 * Order - 1 /\ r \in Int /\ Order \in Nat /\ Secret \in 1 .. Order - 1
  BY WalletAssumption DEF Scalars
<1>2. CASE y < Order
  <2>1. y % Order = y
    BY <1>1, <1>2, ModSmall
  <2>2. (r + y) % Order = Secret
    BY <1>1, <1>2, ModOnce
  <2> QED BY <1>1, <1>2, <2>1, <2>2 DEF split_key, Scalars
<1>3. CASE y >= Order
  <2>1. y % Order = y - Order
    BY <1>1, <1>3, ModOnce
  <2>2. (r + (y - Order)) % Order = Secret
    BY <1>1, <1>3, ModSmall
  <2> QED BY <1>1, <1>3, <2>1, <2>2 DEF split_key, Scalars
<1> QED BY <1>1, <1>2, <1>3

\* The shares are those of the secret; a released one is the current one, and
\* a call that holds the token of an approved image says so.
Fields    == {"at", "eat", "body", "status", "token", "granted", "asked"}
IsCall(c) == c = [k \in Fields |-> c[k]]

Approved == call.at = "kms" \/ (call.at = "sts" /\ call.body /\ call.status = 200)

WInv ==
  /\ s1 \in Scalars /\ s2 \in Scalars /\ (s1 + s2) % Order = Secret
  /\ released.shard \subseteq {s1}
  /\ IsCall(call) /\ (Approved => call.granted)
  /\ ShardNeedsApproval

\* What becomes of a call's record.
LEMMA AskedCall ==
  ASSUME NEW n, NEW eat, NEW d
  PROVE  /\ d = [Idle EXCEPT !.asked = n] => IsCall(d) /\ d.at = "idle"
         /\ d = [Idle EXCEPT !.at = "sts", !.eat = eat, !.asked = n]
              => IsCall(d) /\ d.at = "sts" /\ d.body = FALSE
BY DEF Idle, IsCall, Fields

Answered(c, status, n, g) ==
  [c EXCEPT !.body = TRUE, !.status = status, !.token = n, !.granted = g]
Replied(c, status) == [c EXCEPT !.body = TRUE, !.status = status]
Posted(c, url, n, g) == [c EXCEPT !.at = url, !.body = FALSE, !.token = n, !.granted = g]

\* What each step of a KMS call does to its record.
LEMMA AnsweredCall ==
  \A c, status, n, g : IsCall(c) =>
    /\ IsCall(Answered(c, status, n, g))
    /\ Answered(c, status, n, g).at = c.at
    /\ Answered(c, status, n, g).status = status
    /\ Answered(c, status, n, g).granted = g
<1> TAKE c, status, n, g
<1> HAVE IsCall(c)
<1> DEFINE d == [c EXCEPT !.body = TRUE, !.status = status, !.token = n, !.granted = g]
<1>1. IsCall(d) /\ d.at = c.at /\ d.status = status /\ d.granted = g
  BY DEF IsCall, Fields
<1> QED BY <1>1 DEF Answered

\* A reply leaves the grant as it was.
LEMMA RepliedCall ==
  \A c, status : IsCall(c) =>
    IsCall(Replied(c, status)) /\ Replied(c, status).granted = c.granted
BY DEF IsCall, Fields, Replied

\* The next request carries the grant on.
LEMMA PostedCall ==
  \A c, url, n, g : IsCall(c) =>
    IsCall(Posted(c, url, n, g)) /\ Posted(c, url, n, g).granted = g
<1> TAKE c, url, n, g
<1> HAVE IsCall(c)
<1> DEFINE d == [c EXCEPT !.at = url, !.body = FALSE, !.token = n, !.granted = g]
<1>1. IsCall(d) /\ d.granted = g
  BY DEF IsCall, Fields
<1> QED BY <1>1 DEF Posted

\* No share is released at first.
LEMMA InitWInv == Init => WInv
<1> SUFFICES ASSUME Init PROVE WInv
  OBVIOUS
<1>1. s1 \in Scalars /\ s2 \in Scalars /\ (s1 + s2) % Order = Secret
  BY Split DEF Init, WalletInit
<1>2. released = Nothing /\ call = Idle
  BY DEF Init, WalletInit
<1> QED BY <1>1, <1>2 DEF WInv, Approved, IsCall, Fields, Idle, Nothing, ShardNeedsApproval

\* The end of a call, with the share for a granted one only.
LEMMA Returns ==
  ASSUME WInv, NEW outcome, NEW shard, return(outcome, shard), UNCHANGED <<s1, s2>>,
         shard = {} \/ (shard = {s1} /\ call.granted)
  PROVE  WInv'
<1>1. IsCall(call') /\ call'.at = "idle"
  BY AskedCall DEF return
<1>2. /\ released'.shard = shard /\ released'.granted = call.granted
  BY DEF return
<1> QED BY <1>1, <1>2 DEF WInv, Approved, ShardNeedsApproval

\* A release begins with the token exchange.
LEMMA ReleaseStep ==
  ASSUME WInv, NEW eat, release_enclave_shard(eat)
  PROVE  WInv'
<1>1. UNCHANGED <<s1, s2>>
  BY DEF release_enclave_shard
<1>2. /\ IsCall(call') /\ ~Approved'
      /\ released'.shard = {}
  <2>1. CASE /\ call' = [Idle EXCEPT !.asked = call.asked + 1]
             /\ released' = [Nothing EXCEPT !.outcome = "MissingEat"]
    BY <2>1, AskedCall DEF Nothing, Approved
  <2>2. CASE /\ call' = [Idle EXCEPT !.at = "sts", !.eat = eat, !.asked = call.asked + 1]
             /\ released' = Nothing
    BY <2>2, AskedCall DEF Nothing, Approved
  <2> QED BY <2>1, <2>2 DEF release_enclave_shard
<1> QED BY <1>1, <1>2 DEF WInv, ShardNeedsApproval

\* STS answers for the image of this call, and KMS for its token.
LEMMA AnswerStep ==
  ASSUME WInv, stsAnswers \/ kmsAnswers
  PROVE  WInv'
<1>1. UNCHANGED <<s1, s2, released>> /\ IsCall(call)
  BY DEF stsAnswers, kmsAnswers, WInv
<1>2. IsCall(call') /\ (Approved' => call'.granted)
  <2>1. CASE stsAnswers
    <3> DEFINE yes    == call.eat \in approved
               status == IF yes THEN 200 ELSE 403
    <3>1. call' = Answered(call, status, call.asked, yes)
      BY <2>1 DEF stsAnswers, Answered
    <3>2. status = 200 => yes
      OBVIOUS
    <3> HIDE DEF yes, status
    <3>3. IsCall(call') /\ call'.at = call.at /\ call'.status = status /\ call'.granted = yes
      BY <1>1, <3>1, AnsweredCall
    <3>4. call.at = "sts"
      BY <2>1 DEF stsAnswers, Awaiting
    <3> QED BY <3>2, <3>3, <3>4 DEF Approved
  <2>2. CASE kmsAnswers
    <3>1. call.at = "kms" /\ call.granted
      BY <2>2 DEF kmsAnswers, WInv, Awaiting, Approved
    <3>2. PICK status : call' = Replied(call, status)
      BY <2>2 DEF kmsAnswers, Replied
    <3>3. IsCall(call') /\ call'.granted = call.granted
      BY <1>1, <3>2, RepliedCall
    <3> QED BY <3>1, <3>3
  <2> QED BY <2>1, <2>2
<1> QED BY <1>1, <1>2 DEF WInv, ShardNeedsApproval

\* The answers of the two services, each of which may be unreadable.
LEMMA ExchangeStep ==
  ASSUME WInv, NEW readable,
         exchange_eat_for_access_token(readable) \/ decrypt_key_shard(readable)
  PROVE  WInv'
<1>1. UNCHANGED <<s1, s2>>
  BY DEF exchange_eat_for_access_token, decrypt_key_shard
<1>2. CASE exchange_eat_for_access_token(readable)
  <2>1. ASSUME NEW outcome, return(outcome, {}) PROVE WInv'
    BY <1>1, <2>1, Returns
  <2>2. CASE call.status = 200 /\ post("kms", call.token, call.granted)
    <3>1. IsCall(call) /\ call.granted
      BY <1>2, <2>2 DEF WInv, Approved, Awaiting, exchange_eat_for_access_token
    <3>2. call' = Posted(call, "kms", call.token, call.granted)
      BY <2>2 DEF post, Posted
    <3>3. IsCall(call') /\ call'.granted = call.granted
      BY <3>1, <3>2, PostedCall
    <3> QED BY <1>1, <2>2, <3>1, <3>3 DEF WInv, ShardNeedsApproval, post
  <2> QED BY <1>2, <2>1, <2>2 DEF exchange_eat_for_access_token
<1>3. CASE decrypt_key_shard(readable)
  <2>1. call.granted
    BY <1>3 DEF WInv, Approved, Awaiting, decrypt_key_shard
  <2>2. \E outcome : return(outcome, {}) \/ return(outcome, {s1})
    BY <1>3 DEF decrypt_key_shard
  <2> QED BY <1>1, <2>1, <2>2, Returns
<1> QED BY <1>2, <1>3

\* Each step keeps what is known of the wallet.
LEMMA NextWInv == WInv /\ [Next]_vars => WInv'
<1> SUFFICES ASSUME WInv, [Next]_vars PROVE WInv'
  OBVIOUS
<1>1. ASSUME UNCHANGED <<s1, s2, call, released>> PROVE WInv'
  BY <1>1 DEF WInv, Approved, ShardNeedsApproval
<1>2. ASSUME UNCHANGED <<s1, s2, call>>, released' = Nothing PROVE WInv'
  BY <1>2 DEF WInv, Approved, ShardNeedsApproval, Nothing
<1>3. ASSUME walletStep PROVE WInv'
  <2>1. ASSUME NEW set, from_env(set) PROVE WInv'
    BY <1>1, <2>1 DEF from_env
  <2>2. ASSUME NEW r \in Scalars, reshare(r) PROVE WInv'
    <3>1. s1' \in Scalars /\ s2' \in Scalars /\ (s1' + s2') % Order = Secret
      BY <2>2, Split DEF reshare
    <3> QED BY <2>2, <3>1 DEF reshare, WInv, Approved, ShardNeedsApproval
  <2>3. ASSUME (\E images \in SUBSET Images : setPolicy(images)) \/ expire PROVE WInv'
    BY <1>1, <2>3 DEF setPolicy, expire
  <2> QED BY <1>3, <2>1, <2>2, <2>3, ReleaseStep, AnswerStep, ExchangeStep DEF walletStep
<1>4. ASSUME expiry PROVE WInv'
  BY <1>4, Returns DEF expiry, timedOut
<1>5. ASSUME sign_price_tx PROVE WInv'
  BY <1>1, <1>2, <1>5 DEF sign_price_tx, zeroize, wallet
<1>6. ASSUME collect \/ (\E others \in OtherFeeds : build(others)) \/ \E raw \in sent : mine(raw)
      PROVE  WInv'
  BY <1>1, <1>6 DEF collect, build, mine, wallet
<1>7. CASE UNCHANGED vars
  BY <1>1, <1>7 DEF vars, wallet
<1> QED BY <1>3, <1>4, <1>5, <1>6, <1>7 DEF Next

\* A share is released for a call whose own token exchange was granted, whatever
\* timed out, was granted late or revoked around it (release_enclave_shard).
THEOREM ShardReleasedByApproval == Spec => []ShardNeedsApproval
<1>1. WInv => ShardNeedsApproval
  BY DEF WInv
<1> QED BY <1>1, InitWInv, NextWInv, PTL DEF Spec

----------------------------------------------------------------------------
(* The signed transactions                                                 *)

\* The words of a concatenation, by their places in the parts.
LEMMA LeftWord ==
  ASSUME NEW S, NEW f \in Seq(S), NEW g \in Seq(S), NEW i \in 1 .. Len(f)
  PROVE  (f \o g)[i] = f[i]
<1>1. i \in 1 .. Len(f) + Len(g) /\ i <= Len(f)
  OBVIOUS
<1>2. (f \o g)[i] = IF i <= Len(f) THEN f[i] ELSE g[i - Len(f)]
  BY <1>1, ConcatProperties, Zenon
<1> QED BY <1>1, <1>2, Zenon

\* Indexing the right part of a concatenation.
LEMMA RightWord ==
  ASSUME NEW S, NEW f \in Seq(S), NEW g \in Seq(S), NEW i \in 1 .. Len(g)
  PROVE  (f \o g)[Len(f) + i] = g[i]
<1>1. /\ Len(f) + i \in 1 .. Len(f) + Len(g) /\ ~(Len(f) + i <= Len(f))
      /\ (Len(f) + i) - Len(f) = i
  OBVIOUS
<1>2. (f \o g)[Len(f) + i] =
        IF Len(f) + i <= Len(f) THEN f[Len(f) + i] ELSE g[(Len(f) + i) - Len(f)]
  BY <1>1, ConcatProperties, Zenon
<1> QED BY <1>1, <1>2, Zenon

\* A part of a sequence, cut out by the places it has there.
LEMMA Cut ==
  ASSUME NEW S, NEW f \in Seq(S), NEW lo \in Int, NEW hi \in Int, NEW q,
         hi - lo + 1 = Len(f), \A i \in 1 .. Len(f) : q[lo + i - 1] = f[i]
  PROVE  SubSeq(q, lo, hi) = f
<1>1. ASSUME NEW i \in lo .. hi PROVE q[i] \in S
  <2>1. i - lo + 1 \in 1 .. Len(f) /\ lo + (i - lo + 1) - 1 = i
    OBVIOUS
  <2>2. f[i - lo + 1] \in S
    BY <2>1, ElementOfSeq
  <2>3. q[lo + (i - lo + 1) - 1] = f[i - lo + 1]
    BY <2>1, Zenon
  <2> QED BY <2>1, <2>2, <2>3, Zenon
<1> DEFINE part == SubSeq(q, lo, hi)
<1>2. /\ part \in Seq(S)
      /\ Len(part) = IF lo <= hi THEN hi - lo + 1 ELSE 0
      /\ \A i \in 1 .. hi - lo + 1 : part[i] = q[lo + i - 1]
  BY <1>1, SubSeqProperties
<1> HIDE DEF part
<1>3. Len(part) = Len(f)
  BY <1>2
<1>4. \A i \in 1 .. Len(f) : part[i] = f[i]
  BY <1>2, Zenon
<1>5. part = f
  BY <1>2, <1>3, <1>4, SeqEqual, Zenon
<1> QED BY <1>5 DEF part

\* What the chain decodes: nine fields, then the signature.
LEMMA Decoded ==
  ASSUME NEW S, NEW f \in Seq(S), NEW g \in Seq(S)
  PROVE  Len(f) = 9 /\ Len(g) = 3 =>
         /\ SubSeq(f \o g, 1, 9) = f /\ \A i \in 1 .. 9 : (f \o g)[i] = f[i]
         /\ (f \o g)[10] = g[1] /\ (f \o g)[11] = g[2] /\ (f \o g)[12] = g[3]
<1> DEFINE q == f \o g
           n == Len(f)
           m == Len(g)
<1>4. ASSUME NEW i \in 1 .. Len(f) PROVE (f \o g)[i] = f[i]
  BY LeftWord, Zenon
<1>5. ASSUME NEW i \in 1 .. Len(g) PROVE (f \o g)[Len(f) + i] = g[i]
  BY RightWord
<1>6. (\A i \in 1 .. n : q[i] = f[i]) /\ \A i \in 1 .. m : q[n + i] = g[i]
  BY <1>4, <1>5, Zenon
<1> HAVE Len(f) = 9 /\ Len(g) = 3
<1>1. (\A i \in 1 .. 9 : q[i] = f[i]) /\ \A i \in 1 .. 3 : q[9 + i] = g[i]
  <2>1. n = 9 /\ m = 3
    OBVIOUS
  <2> HIDE DEF q, n, m
  <2> QED BY <1>6, <2>1
<1> HIDE DEF q
<1>2. SubSeq(q, 1, 9) = f
  <2>1. 1 \in Int /\ 9 \in Int /\ 9 - 1 + 1 = Len(f)
    OBVIOUS
  <2>2. ASSUME NEW i \in 1 .. Len(f) PROVE q[1 + i - 1] = f[i]
    <3>1. i \in 1 .. 9 /\ 1 + i - 1 = i
      OBVIOUS
    <3> QED BY <1>1, <3>1, Zenon
  <2> QED BY <2>1, <2>2, Cut
<1>3. /\ 9 + 1 = 10 /\ 9 + 2 = 11 /\ 9 + 3 = 12
      /\ 1 \in 1 .. 3 /\ 2 \in 1 .. 3 /\ 3 \in 1 .. 3
  OBVIOUS
<1> QED BY <1>1, <1>2, <1>3, Zenon DEF q

\* The nonce and the calldata of a raw transaction, and who signed it.
NonceOf(raw) == raw[2][2]
DataOf(raw)  == raw[2][8]

\* What two shares of the secret sign, the wallet has signed.
LEMMA SignedByTheShares ==
  ASSUME NEW a, NEW b, (a + b) % Order = Secret, NEW tx,
         NEW raw, raw = raw_signed_tx(tx, sign_eip1559(a, b, tx))
  PROVE  /\ SenderOf(raw) = {addressOf(pointOf(Secret))}
         /\ verify_signature(pointOf(Secret), <<"02", FieldsOf(raw)>>, SigOf(raw))
         /\ NonceOf(raw) = tx.nonce /\ DataOf(raw) = tx.data
<1> DEFINE digest == keccak256(<<"02", fields(tx)>>)
           sig    == [r |-> <<"r", Secret, digest>>, s |-> "low", y_parity |-> 0]
           tail   == <<sig.y_parity, bytes32(sig.r), bytes32(sig.s)>>
<1>1. sign_eip1559(a, b, tx) = sig
  BY DEF sign_eip1559, sign_with_payload, normalize_s, sign_digest_recoverable,
         eip1559_signing_payload
<1>2. raw[2] = fields(tx) \o tail
  BY <1>1 DEF raw_signed_tx
<1>3. \E S : fields(tx) \in Seq(S) /\ tail \in Seq(S)
  <2> DEFINE S == {tx.chain_id, tx.nonce, tx.max_priority_fee_per_gas, tx.max_fee_per_gas,
                   tx.gas_limit, tx.to, bytes32(tx.value), tx.data, <<>>,
                   sig.y_parity, bytes32(sig.r), bytes32(sig.s)}
  <2>1. fields(tx) \in Seq(S) /\ tail \in Seq(S)
    BY DEF fields
  <2> QED BY <2>1
<1>4. Len(fields(tx)) = 9 /\ Len(tail) = 3 /\ tail[1] = 0
      /\ tail[2] = bytes32(<<"r", Secret, digest>>) /\ tail[3] = bytes32("low")
  BY DEF fields
<1> HIDE DEF tail
<1>5. FieldsOf(raw) = fields(tx)
      /\ SigOf(raw) = [y_parity |-> 0, r |-> <<"r", Secret, digest>>, s |-> "low"]
      /\ \A i \in 1 .. 9 : raw[2][i] = fields(tx)[i]
  <2> DEFINE f == fields(tx)
  <2>1. PICK S : f \in Seq(S) /\ tail \in Seq(S)
    BY <1>3
  <2>2. Len(f) = 9 /\ Len(tail) = 3 /\ raw[2] = f \o tail
    BY <1>2, <1>4
  <2> HIDE DEF f
  <2>3. /\ SubSeq(f \o tail, 1, 9) = f /\ \A i \in 1 .. 9 : (f \o tail)[i] = f[i]
        /\ (f \o tail)[10] = tail[1] /\ (f \o tail)[11] = tail[2] /\ (f \o tail)[12] = tail[3]
    BY <2>1, <2>2, Decoded, ZenonT(30)
  <2>4. /\ SubSeq(raw[2], 1, 9) = fields(tx) /\ \A i \in 1 .. 9 : raw[2][i] = fields(tx)[i]
        /\ raw[2][10] = tail[1] /\ raw[2][11] = tail[2] /\ raw[2][12] = tail[3]
    BY <2>2, <2>3, Zenon DEF f
  <2>5. \A x : bytes32(x)[2] = x
    BY DEF bytes32
  <2> DEFINE rr == <<"r", Secret, digest>>
  <2>6. bytes32(rr)[2] = rr /\ bytes32("low")[2] = "low"
    BY <2>5
  <2>7. raw[2][10] = 0 /\ raw[2][11] = bytes32(rr) /\ raw[2][12] = bytes32("low")
    BY <1>4, <2>4, Zenon
  <2> HIDE DEF rr
  <2>8. raw[2][10] = 0 /\ raw[2][11][2] = rr /\ raw[2][12][2] = "low"
    BY <2>6, <2>7, Zenon
  <2>9. raw[2][11][2] = <<"r", Secret, digest>>
    BY <2>8, Zenon DEF rr
  <2> QED BY <2>4, <2>8, <2>9, Zenon DEF FieldsOf, SigOf
<1>6. recover_from_digest(digest, SigOf(raw)) = {pointOf(Secret)}
  BY <1>5 DEF recover_from_digest
<1> HIDE DEF digest
<1>7. keccak256(<<"02", FieldsOf(raw)>>) = digest
  BY <1>5 DEF digest
<1>8. fields(tx)[2] = tx.nonce /\ fields(tx)[8] = tx.data /\ 2 \in 1 .. 9 /\ 8 \in 1 .. 9
  BY DEF fields
<1>9. SenderOf(raw) = {addressOf(pointOf(Secret))}
      /\ verify_signature(pointOf(Secret), <<"02", FieldsOf(raw)>>, SigOf(raw))
  BY <1>6, <1>7 DEF SenderOf, verify_signature
<1>10. NonceOf(raw) = tx.nonce /\ DataOf(raw) = tx.data
  BY <1>5, <1>8 DEF NonceOf, DataOf
<1> QED BY <1>9, <1>10

\* Only signed transactions are sent.
LEMMA NextSigned ==
  WInv /\ TransactionsAreTheWallets /\ [Next]_vars => TransactionsAreTheWallets'
<1> SUFFICES ASSUME WInv, TransactionsAreTheWallets, [Next]_vars
             PROVE  TransactionsAreTheWallets'
  OBVIOUS
<1>1. ASSUME UNCHANGED sent PROVE TransactionsAreTheWallets'
  BY <1>1 DEF TransactionsAreTheWallets
<1>2. ASSUME sign_price_tx PROVE TransactionsAreTheWallets'
  <2>1. PICK a \in released.shard :
          sent' = sent \cup {raw_signed_tx(Tx(Head(todo)), sign_eip1559(a, s2, Tx(Head(todo))))}
    BY <1>2 DEF sign_price_tx
  <2>2. (a + s2) % Order = Secret
    BY <2>1 DEF WInv
  <2> QED BY <2>1, <2>2, SignedByTheShares DEF TransactionsAreTheWallets
<1>3. ASSUME walletStep \/ expiry \/ collect PROVE UNCHANGED sent
  BY <1>3 DEF walletStep, expiry, collect
<1>4. ASSUME (\E others \in OtherFeeds : build(others)) \/ (\E raw \in sent : mine(raw))
      PROVE  UNCHANGED sent
  BY <1>4 DEF build, mine
<1>5. ASSUME UNCHANGED vars PROVE UNCHANGED sent
  BY <1>5 DEF vars
<1> QED BY <1>1, <1>2, <1>3, <1>4, <1>5 DEF Next

\* Every transaction the two shares signed is the wallet's, whatever the split
\* that made them, and verify_signature agrees (sign_eip1559).
THEOREM SignedByTheWallet == Spec => []TransactionsAreTheWallets
<1>1. Init => TransactionsAreTheWallets
  BY DEF Init, TransactionsAreTheWallets
<1> QED BY <1>1, NextSigned, InitWInv, NextWInv, PTL DEF Spec

----------------------------------------------------------------------------
(* The reveal and its commits                                              *)

IsSeq(f, n) == n \in Nat /\ \E S : f \in Seq(S) /\ Len(f) = n
Cat(f, g)   == f \o g

\* Concatenation of two arrays, by length and index.
LEMMA Joined ==
  ASSUME NEW f, NEW g, NEW n \in Nat, NEW m \in Nat, IsSeq(f, n), IsSeq(g, m)
  PROVE  /\ IsSeq(Cat(f, g), n + m)
         /\ \A i \in 1 .. n : Cat(f, g)[i] = f[i]
         /\ \A i \in n + 1 .. n + m : Cat(f, g)[i] = g[i - n]
<1>1. PICK S, T : f \in Seq(S) /\ g \in Seq(T) /\ Len(f) = n /\ Len(g) = m
  BY DEF IsSeq
<1> DEFINE U == S \cup T
<1>2. f \in Seq(U) /\ g \in Seq(U)
  <2>1. S \subseteq U /\ T \subseteq U
    OBVIOUS
  <2> HIDE DEF U
  <2> QED BY <1>1, <2>1, SeqMonotonic
<1> HIDE DEF U
<1>3. f \o g \in Seq(U) /\ Len(f \o g) = Len(f) + Len(g)
  BY <1>2, ConcatProperties, Zenon
<1>4. ASSUME NEW i \in 1 .. Len(f) PROVE (f \o g)[i] = f[i]
  BY <1>2, LeftWord, Zenon
<1>5. ASSUME NEW i \in 1 .. Len(g) PROVE (f \o g)[Len(f) + i] = g[i]
  BY <1>2, RightWord
<1>6. ASSUME NEW i \in 1 .. n PROVE Cat(f, g)[i] = f[i]
  BY <1>1, <1>4 DEF Cat
<1>7. ASSUME NEW i \in n + 1 .. n + m PROVE Cat(f, g)[i] = g[i - n]
  <2>1. i - n \in 1 .. Len(g) /\ Len(f) + (i - n) = i
    BY <1>1
  <2>2. (f \o g)[Len(f) + (i - n)] = g[i - n]
    BY <1>5, <2>1
  <2> QED BY <2>1, <2>2 DEF Cat
<1>8. IsSeq(Cat(f, g), n + m)
  BY <1>1, <1>3 DEF IsSeq, Cat
<1> QED BY <1>6, <1>7, <1>8

\* The words of the calldata, part after part.
LEMMA RevealWords ==
  ASSUME NEW A, NEW v, NEW I, NEW w, NEW P, NEW n \in Nat, NEW m \in Nat,
         IsSeq(A, 5), IsSeq(v, 1), IsSeq(I, n), IsSeq(w, 1), IsSeq(P, m)
  PROVE  LET data == Cat(Cat(Cat(Cat(A, v), I), w), P)
         IN  /\ IsSeq(data, 7 + n + m)
             /\ \A i \in 1 .. 5 : data[i] = A[i]
             /\ data[6] = v[1]
             /\ \A i \in 1 .. n : data[6 + i] = I[i]
             /\ data[7 + n] = w[1]
             /\ \A i \in 1 .. m : data[7 + n + i] = P[i]
<1> DEFINE d1 == Cat(A, v)
           d2 == Cat(d1, I)
           d3 == Cat(d2, w)
           d4 == Cat(d3, P)
<1>1. d4 = Cat(Cat(Cat(Cat(A, v), I), w), P)
  OBVIOUS
<1>2. IsSeq(d1, 6) /\ (\A i \in 1 .. 5 : d1[i] = A[i]) /\ d1[6] = v[1]
  <2>1. IsSeq(d1, 5 + 1)
    BY Joined
  <2>2. \A i \in 1 .. 5 : d1[i] = A[i]
    BY Joined
  <2>3. \A i \in 5 + 1 .. 5 + 1 : d1[i] = v[i - 5]
    BY Joined
  <2> HIDE DEF d1
  <2> QED BY <2>1, <2>2, <2>3
<1> HIDE DEF d1
<1>3. /\ IsSeq(d2, 6 + n)
      /\ \A i \in 1 .. 6 : d2[i] = d1[i]
      /\ \A i \in 1 .. n : d2[6 + i] = I[i]
  <2> DEFINE k == 6
  <2>0. k \in Nat /\ IsSeq(d1, k) /\ k = 6
    BY <1>2
  <2> HIDE DEF k
  <2>1. IsSeq(d2, k + n)
    BY <2>0, Joined
  <2>2. \A i \in 1 .. k : d2[i] = d1[i]
    BY <2>0, Joined
  <2>3. \A i \in k + 1 .. k + n : d2[i] = I[i - k]
    BY <2>0, Joined
  <2> HIDE DEF d2
  <2>4. \A i \in 1 .. n : d2[k + i] = I[i]
    BY <2>0, <2>3
  <2> QED BY <2>0, <2>1, <2>2, <2>4
<1> HIDE DEF d2
<1>4. /\ IsSeq(d3, 7 + n)
      /\ \A i \in 1 .. 6 + n : d3[i] = d2[i]
      /\ d3[7 + n] = w[1]
  <2> DEFINE k == 6 + n
  <2>0. k \in Nat /\ IsSeq(d2, k) /\ k = 6 + n
    BY <1>3
  <2> HIDE DEF k
  <2>1. IsSeq(d3, k + 1)
    BY <2>0, Joined
  <2>2. \A i \in 1 .. k : d3[i] = d2[i]
    BY <2>0, Joined
  <2>3. \A i \in k + 1 .. k + 1 : d3[i] = w[i - k]
    BY <2>0, Joined
  <2> HIDE DEF d3
  <2>4. k + 1 = 7 + n /\ 7 + n \in k + 1 .. k + 1 /\ 7 + n - k = 1
    BY <2>0
  <2> QED BY <2>0, <2>1, <2>2, <2>3, <2>4
<1> HIDE DEF d3
<1>5. /\ IsSeq(d4, 7 + n + m)
      /\ \A i \in 1 .. 7 + n : d4[i] = d3[i]
      /\ \A i \in 1 .. m : d4[7 + n + i] = P[i]
  <2> DEFINE k == 7 + n
  <2>0. k \in Nat /\ IsSeq(d3, k) /\ k = 7 + n
    BY <1>4
  <2> HIDE DEF k
  <2>1. IsSeq(d4, k + m)
    BY <2>0, Joined
  <2>2. \A i \in 1 .. k : d4[i] = d3[i]
    BY <2>0, Joined
  <2>3. \A i \in k + 1 .. k + m : d4[i] = P[i - k]
    BY <2>0, Joined
  <2> HIDE DEF d4
  <2>4. \A i \in 1 .. m : d4[k + i] = P[i]
    BY <2>0, <2>3
  <2> QED BY <2>0, <2>1, <2>2, <2>4
<1> HIDE DEF d4
<1>6. ASSUME NEW i \in 1 .. 5 PROVE d4[i] = A[i]
  BY <1>2, <1>3, <1>4, <1>5
<1>7. d4[6] = v[1]
  BY <1>2, <1>3, <1>4, <1>5
<1>8. ASSUME NEW i \in 1 .. n PROVE d4[6 + i] = I[i]
  <2>1. 6 + i \in 1 .. 6 + n /\ 6 + i \in 1 .. 7 + n
    OBVIOUS
  <2> QED BY <1>3, <1>4, <1>5, <2>1
<1>9. d4[7 + n] = w[1]
  BY <1>4, <1>5
<1> QED BY <1>1, <1>5, <1>6, <1>7, <1>8, <1>9

\* The part of a sequence at given places.
IsAt(q, lo, f, n) == \A i \in 1 .. n : q[lo + i - 1] = f[i]

\* A slice that holds an array is that array.
LEMMA PartAt ==
  ASSUME NEW f, NEW n, IsSeq(f, n), NEW lo \in Int, NEW hi \in Int, hi - lo + 1 = n,
         NEW q, IsAt(q, lo, f, n)
  PROVE  SubSeq(q, lo, hi) = f
<1>1. PICK S : f \in Seq(S) /\ Len(f) = n
  BY DEF IsSeq
<1> QED BY <1>1, Cut DEF IsAt

\* The offsets of revealPrices lead the ABI to the two arrays.
LEMMA RevealDecodes ==
  ASSUME NEW e, NEW x, NEW I, NEW P, NEW n \in Nat, NEW m \in Nat, IsSeq(I, n), IsSeq(P, m)
  PROVE  LET data == reveal_prices_calldata(e, I, P, x)
         IN  /\ data[1] = "revealPrices" /\ data[2] = e /\ data[5] = x
             /\ Array(data, data[3]) = I /\ Array(data, data[4]) = P
<1> DEFINE A == <<"revealPrices", e, 128, 160 + n * 32, x>>
           v == <<n>>
           w == <<m>>
           data == reveal_prices_calldata(e, I, P, x)
<1>1. data = Cat(Cat(Cat(Cat(A, v), I), w), P)
  <2>1. Len(I) = n /\ Len(P) = m
    BY DEF IsSeq
  <2> QED BY <2>1 DEF reveal_prices_calldata, Cat
<1> HIDE DEF data
<1>2. /\ IsSeq(A, 5) /\ IsSeq(v, 1) /\ IsSeq(w, 1)
      /\ A[1] = "revealPrices" /\ A[2] = e /\ A[3] = 128 /\ A[4] = 160 + n * 32 /\ A[5] = x
      /\ v[1] = n /\ w[1] = m
  <2>1. A \in Seq({"revealPrices", e, 128, 160 + n * 32, x}) /\ Len(A) = 5
    OBVIOUS
  <2>2. v \in Seq({n}) /\ w \in Seq({m}) /\ Len(v) = 1 /\ Len(w) = 1
    OBVIOUS
  <2> QED BY <2>1, <2>2 DEF IsSeq
<1> HIDE DEF A, v, w
<1>3. /\ IsSeq(data, 7 + n + m)
      /\ \A i \in 1 .. 5 : data[i] = A[i]
      /\ data[6] = v[1]
      /\ \A i \in 1 .. n : data[6 + i] = I[i]
      /\ data[7 + n] = w[1]
      /\ \A i \in 1 .. m : data[7 + n + i] = P[i]
  BY <1>1, <1>2, RevealWords
<1>4. DOMAIN data = 1 .. 7 + n + m
  <2>1. PICK S : data \in Seq(S) /\ Len(data) = 7 + n + m
    BY <1>3 DEF IsSeq
  <2> QED BY <2>1
<1>5. Array(data, data[3]) = I
  <2>1. data[3] = 128 /\ 128 \div 32 + 2 = 6
    BY <1>2, <1>3
  <2>2. 6 \in DOMAIN data
    BY <1>4
  <2>3. Array(data, data[3]) = SubSeq(data, 7, 6 + n)
    BY <1>2, <1>3, <2>1, <2>2 DEF Array
  <2> DEFINE lo == 7
             hi == 6 + n
  <2>4. lo \in Int /\ hi \in Int /\ hi - lo + 1 = n /\ \A i \in 1 .. n : lo + i - 1 = 6 + i
    OBVIOUS
  <2>5. SubSeq(data, 7, 6 + n) = SubSeq(data, lo, hi)
    OBVIOUS
  <2> HIDE DEF lo, hi
  <2>6. IsAt(data, lo, I, n)
    BY <1>3, <2>4 DEF IsAt
  <2>7. SubSeq(data, lo, hi) = I
    BY <2>4, <2>6, PartAt, ZenonT(30)
  <2> QED BY <2>3, <2>5, <2>7
<1>6. Array(data, data[4]) = P
  <2>1. data[4] = 160 + n * 32 /\ (160 + n * 32) \div 32 + 2 = 7 + n
    BY <1>2, <1>3
  <2>2. 7 + n \in DOMAIN data
    BY <1>4
  <2>3. Array(data, data[4]) = SubSeq(data, 8 + n, 7 + n + m)
    <3>1. (7 + n) + 1 = 8 + n
      OBVIOUS
    <3> QED BY <1>2, <1>3, <2>1, <2>2, <3>1 DEF Array
  <2> DEFINE lo == 8 + n
             hi == 7 + n + m
  <2>4. lo \in Int /\ hi \in Int /\ hi - lo + 1 = m /\ \A i \in 1 .. m : lo + i - 1 = 7 + n + i
    OBVIOUS
  <2>5. SubSeq(data, 8 + n, 7 + n + m) = SubSeq(data, lo, hi)
    OBVIOUS
  <2> HIDE DEF lo, hi
  <2>6. IsAt(data, lo, P, m)
    BY <1>3, <2>4 DEF IsAt
  <2>7. SubSeq(data, lo, hi) = P
    <3>1. lo \in Int /\ hi \in Int /\ hi - lo + 1 = m
      BY <2>4
    <3>2. \A f, k : IsSeq(f, k) /\ IsAt(data, lo, f, k) /\ hi - lo + 1 = k
                      => SubSeq(data, lo, hi) = f
      BY <3>1, PartAt
    <3> QED BY <2>6, <3>1, <3>2
  <2> QED BY <2>3, <2>5, <2>7
<1>7. data[1] = "revealPrices" /\ data[2] = e /\ data[5] = x
  BY <1>2, <1>3
<1> QED BY <1>5, <1>6, <1>7 DEF data

\* What the two shares say of themselves is the wallet's address.
WalletAddress == addressOf(pointOf(Secret))

\* The address of the two shares is the wallet's.
LEMMA Composed == WInv => composed_address(s1, s2) \subseteq {WalletAddress}
<1> SUFFICES ASSUME WInv, NEW voter \in composed_address(s1, s2) PROVE voter = WalletAddress
  OBVIOUS
<1>1. PICK p \in public_key_of(s1), q \in public_key_of(s2) :
        \E r \in sumOf(p, q) : voter = addressOf(r)
  BY DEF composed_address, composed_public_key
<1>2. p = pointOf(s1) /\ q = pointOf(s2)
  BY DEF public_key_of
<1>3. p[2] = s1 /\ q[2] = s2
  BY <1>2, ModSmall DEF WInv, pointOf, Scalars
<1>4. voter = addressOf(pointOf(s1 + s2))
  BY <1>1, <1>3 DEF sumOf
<1>5. pointOf(s1 + s2) = pointOf(Secret)
  <2>1. Secret % Order = Secret
    BY ModSmall, WalletAssumption
  <2> QED BY <2>1 DEF WInv, pointOf
<1> QED BY <1>4, <1>5 DEF WalletAddress

\* A function on 1 .. n is an array of n words.
LEMMA FunctionIsSeq ==
  ASSUME NEW n \in Nat, NEW f, f = [i \in 1 .. n |-> f[i]]
  PROVE  IsSeq(f, n)
<1> DEFINE S == {f[i] : i \in 1 .. n}
<1>1. f \in [1 .. n -> S]
  OBVIOUS
<1> HIDE DEF S
<1>2. f \in Seq(S)
  BY <1>1, SeqDef
<1>3. Len(f) = n
  BY <1>1, <1>2
<1> QED BY <1>2, <1>3 DEF IsSeq

\* A submission of n feeds, its hashes made for the wallet's address.
Holds(sub, n) ==
  /\ n \in Nat \ {0}
  /\ IsSeq(sub.prices, n) /\ IsSeq(sub.ftso_indices, n) /\ IsSeq(sub.hashes, n)
  /\ \A i \in 1 .. n : sub.hashes[i] = commit_hash(sub.prices[i], sub.random, WalletAddress)

\* A submission has a price, an index and a commit for each feed.
LEMMA NewHolds ==
  ASSUME NEW e, NEW x, NEW feeds, NEW n \in Nat, IsSeq(feeds, n),
         NEW sub \in new(e, feeds, x, WalletAddress)
  PROVE  Holds(sub, n)
<1>1. PICK S : feeds \in Seq(S) /\ Len(feeds) = n
  BY DEF IsSeq
<1>2. DOMAIN feeds = 1 .. n
  BY <1>1
<1>3. n # 0
  <2>1. feeds # <<>>
    BY DEF new
  <2> QED BY <1>1, <2>1
<1> DEFINE formatted == [i \in DOMAIN feeds |-> format_price(feeds[i][2])]
           prices    == [i \in DOMAIN feeds |-> CHOOSE p \in formatted[i] : TRUE]
           indices   == [i \in DOMAIN feeds |-> feeds[i][1]]
           hashes    == [i \in DOMAIN feeds |-> commit_hash(prices[i], x, WalletAddress)]
<1>4. sub = [epoch_id |-> e, ftso_indices |-> indices, prices |-> prices, random |-> x,
             hashes |-> hashes]
  BY Zenon DEF new
<1>5. IsSeq(prices, n) /\ IsSeq(indices, n) /\ IsSeq(hashes, n)
  <2>1. prices = [i \in 1 .. n |-> prices[i]]
    BY <1>2
  <2>2. indices = [i \in 1 .. n |-> indices[i]]
    BY <1>2
  <2>3. hashes = [i \in 1 .. n |-> hashes[i]]
    BY <1>2
  <2> HIDE DEF prices, indices, hashes
  <2> QED BY <2>1, <2>2, <2>3, FunctionIsSeq
<1>6. \A i \in 1 .. n : hashes[i] = commit_hash(prices[i], x, WalletAddress)
  <2> HIDE DEF prices
  <2> QED BY <1>2
<1> HIDE DEF prices, indices, hashes
<1> QED BY <1>3, <1>4, <1>5, <1>6 DEF Holds

\* The nonces order the broadcast transactions, and before a reveal come the
\* commits of all its hashes; what the chain executed are the first nonces.
Committed(e, h, k) ==
  \E raw \in sent : NonceOf(raw) < k /\ DataOf(raw) = submit_hash_calldata(e, h)

AllCommitted(sub, n, k) == \A i \in 1 .. n : Committed(sub.epoch_id, sub.hashes[i], k)

Sound(raw) ==
  /\ NonceOf(raw) \in Nat /\ NonceOf(raw) < nonce
  /\ \/ \E e, h : DataOf(raw) = submit_hash_calldata(e, h)
     \/ \E sub, n : /\ Holds(sub, n) /\ DataOf(raw) = reveal_tx(sub)
                    /\ AllCommitted(sub, n, NonceOf(raw))

\* k of the n commits are signed.
Pending(sub, n, k) ==
  /\ k \in 0 .. n /\ IsSeq(todo, n + 1 - k)
  /\ \A j \in 1 .. n - k : todo[j] = submit_hash_calldata(sub.epoch_id, sub.hashes[k + j])
  /\ todo[n + 1 - k] = reveal_tx(sub)

RoundInv ==
  todo # <<>> => \E n, k : Holds(round, n) /\ Pending(round, n, k) /\ AllCommitted(round, k, nonce)

ChainInv ==
  /\ mined \in Nat /\ mined <= nonce
  /\ \A raw \in sent : \A e, h : NonceOf(raw) < mined /\ DataOf(raw) = submit_hash_calldata(e, h)
                                   => <<WalletAddress, e, h>> \in commits
  /\ RevealsOpenCommits

SentInv ==
  /\ nonce \in Nat
  /\ \A raw \in sent : Sound(raw)
  /\ \A raw1, raw2 \in sent : NonceOf(raw1) = NonceOf(raw2) => raw1 = raw2

RInv == SentInv /\ RoundInv /\ ChainInv

\* No round and no transaction at first.
LEMMA InitRInv == Init => RInv
BY DEF Init, RInv, SentInv, RoundInv, ChainInv, RevealsOpenCommits

\* Steps that leave the rounds and the chain alone keep the invariant.
LEMMA SameRInv ==
  RInv /\ UNCHANGED <<round, todo, nonce, sent, chain>> => RInv'
<1> SUFFICES ASSUME RInv, UNCHANGED <<round, todo, nonce, sent, chain>> PROVE RInv'
  OBVIOUS
<1>1. UNCHANGED <<round, todo, nonce, sent, mined, commits, reveals>>
  BY DEF chain
<1>2. SentInv' /\ RoundInv' /\ ChainInv'
  BY <1>1 DEF RInv, SentInv, RoundInv, ChainInv, RevealsOpenCommits, Sound, AllCommitted,
              Committed, Pending
<1> QED BY <1>2 DEF RInv

\* The feeds become a submission, and its transactions are to be signed.
LEMMA BuildStep ==
  ASSUME WInv, RInv, NEW others \in OtherFeeds, build(others)
  PROVE  RInv'
<1>1. UNCHANGED <<nonce, sent, mined, commits, reveals>>
  BY DEF build, chain
<1>2. SentInv' /\ ChainInv'
  BY <1>1 DEF RInv, SentInv, ChainInv, RevealsOpenCommits, Sound, AllCommitted, Committed
<1>3. RoundInv'
  <2>1. CASE UNCHANGED <<round, todo>>
    BY <1>1, <2>1 DEF RInv, RoundInv, AllCommitted, Committed, Pending
  <2>2. ASSUME NEW own, own = IF obs = <<>> THEN <<>> ELSE <<<<0, volume_trimmed_median(obs)>>>>,
               NEW voter \in composed_address(s1, s2),
               NEW sub \in new(rounds', own \o others, fresh_random, voter),
               round' = sub, todo' = submit_txs(sub) \o <<reveal_tx(sub)>>
        PROVE  RoundInv'
    <3>1. voter = WalletAddress
      BY <2>2, Composed
    <3>2. \E n \in Nat : IsSeq(own \o others, n)
      <4>1. \A x : IsSeq(<<x>>, 1)
        <5> TAKE x
        <5>1. <<x>> \in Seq({x}) /\ Len(<<x>>) = 1
          OBVIOUS
        <5> QED BY <5>1 DEF IsSeq
      <4>2. IsSeq(<<>>, 0)
        BY EmptySeq DEF IsSeq
      <4>3. \E n \in Nat : IsSeq(own, n)
        BY <2>2, <4>1, <4>2
      <4>4. \E m \in Nat : IsSeq(others, m)
        BY <4>1, <4>2 DEF OtherFeeds
      <4>5. PICK n \in Nat, m \in Nat : IsSeq(own, n) /\ IsSeq(others, m)
        BY <4>3, <4>4
      <4>6. IsSeq(Cat(own, others), n + m)
        BY <4>5, Joined
      <4> QED BY <4>6 DEF Cat
    <3>3. PICK n \in Nat : IsSeq(own \o others, n)
      BY <3>2
    <3>4. Holds(sub, n)
      BY <2>2, <3>1, <3>3, NewHolds
    <3>5. Pending(sub, n, 0)'
      <4> DEFINE f == submit_txs(sub)
                 g == <<reveal_tx(sub)>>
      <4>1. DOMAIN sub.hashes = 1 .. n /\ n \in Nat \ {0}
        <5>1. PICK S : sub.hashes \in Seq(S) /\ Len(sub.hashes) = n
          BY <3>4 DEF Holds, IsSeq
        <5> QED BY <3>4, <5>1 DEF Holds
      <4>2. \A i \in 1 .. n : f[i] = submit_hash_calldata(sub.epoch_id, sub.hashes[i])
        BY <4>1 DEF submit_txs
      <4>3. f = [i \in 1 .. n |-> f[i]]
        BY <4>1 DEF submit_txs
      <4>4. g = [i \in 1 .. 1 |-> g[i]] /\ g[1] = reveal_tx(sub)
        OBVIOUS
      <4>5. todo' = Cat(f, g)
        BY <2>2 DEF Cat
      <4> HIDE DEF f, g
      <4>6. IsSeq(f, n) /\ IsSeq(g, 1)
        BY <4>1, <4>3, <4>4, FunctionIsSeq
      <4>7. /\ IsSeq(Cat(f, g), n + 1)
            /\ \A i \in 1 .. n : Cat(f, g)[i] = f[i]
            /\ \A i \in n + 1 .. n + 1 : Cat(f, g)[i] = g[i - n]
        BY <4>1, <4>6, Joined
      <4>8. Cat(f, g)[n + 1] = reveal_tx(sub)
        BY <4>1, <4>4, <4>7
      <4>9. /\ 0 \in 0 .. n /\ n + 1 - 0 = n + 1 /\ n - 0 = n
            /\ \A j \in 1 .. n : 0 + j = j
        BY <4>1
      <4> QED BY <4>2, <4>5, <4>7, <4>8, <4>9 DEF Pending
    <3>6. AllCommitted(sub, 0, nonce)'
      BY DEF AllCommitted
    <3> QED BY <2>2, <3>4, <3>5, <3>6 DEF RoundInv
  <2> QED BY <2>1, <2>2 DEF build
<1> QED BY <1>2, <1>3 DEF RInv

\* The next transaction takes the next nonce; a reveal follows its commits.
LEMMA SignStep ==
  ASSUME WInv, RInv, sign_price_tx
  PROVE  RInv'
<1>1. \E raw : /\ NonceOf(raw) = nonce /\ DataOf(raw) = Head(todo)
               /\ sent' = sent \cup {raw}
  <2>1. PICK a \in released.shard :
          sent' = sent \cup {raw_signed_tx(Tx(Head(todo)), sign_eip1559(a, s2, Tx(Head(todo))))}
    BY DEF sign_price_tx
  <2> DEFINE tx == Tx(Head(todo))
             r  == raw_signed_tx(tx, sign_eip1559(a, s2, tx))
  <2>2. (a + s2) % Order = Secret
    BY <2>1 DEF WInv
  <2>3. sent' = sent \cup {r} /\ tx.nonce = nonce /\ tx.data = Head(todo)
    BY <2>1 DEF Tx
  <2>5. r = raw_signed_tx(tx, sign_eip1559(a, s2, tx))
    OBVIOUS
  <2> HIDE DEF tx, r
  <2>4. NonceOf(r) = tx.nonce /\ DataOf(r) = tx.data
    BY <2>2, <2>5, SignedByTheShares
  <2> QED BY <2>3, <2>4
<1>2. PICK raw : /\ NonceOf(raw) = nonce /\ DataOf(raw) = Head(todo)
                 /\ sent' = sent \cup {raw}
  BY <1>1
<1>3. /\ nonce' = nonce + 1 /\ todo' = Tail(todo) /\ todo # <<>>
      /\ UNCHANGED <<mined, commits, reveals>>
      /\ Len(todo) # 1 => round' = round
  BY DEF sign_price_tx, chain
<1>4. PICK n, k : Holds(round, n) /\ Pending(round, n, k) /\ AllCommitted(round, k, nonce)
  BY <1>3 DEF RInv, RoundInv
<1>5. n \in Nat \ {0} /\ k \in 0 .. n /\ nonce \in Nat
  BY <1>4 DEF Holds, Pending, RInv, SentInv
<1> DEFINE l == n + 1 - k
<1>6. PICK S : todo \in Seq(S) /\ Len(todo) = l
  BY <1>4 DEF Pending, IsSeq
<1>7. /\ l \in Nat \ {0} /\ Head(todo) = todo[1]
      /\ Tail(todo) \in Seq(S) /\ Len(Tail(todo)) = l - 1
      /\ \A i \in 1 .. l - 1 : Tail(todo)[i] = todo[i + 1]
  BY <1>3, <1>5, <1>6, HeadTailProperties
<1>10. Sound(raw)'
  <2>1. NonceOf(raw) \in Nat /\ NonceOf(raw) < nonce'
    BY <1>2, <1>3, <1>5
  <2>2. CASE k = n
    <3>1. DataOf(raw) = reveal_tx(round)
      BY <1>2, <1>4, <1>5, <1>7, <2>2 DEF Pending
    <3>2. \A i \in 1 .. n : \E r \in sent' :
            NonceOf(r) < NonceOf(raw)
              /\ DataOf(r) = submit_hash_calldata(round.epoch_id, round.hashes[i])
      BY <1>2, <1>3, <1>4, <2>2 DEF AllCommitted, Committed
    <3> QED BY <1>4, <2>1, <3>1, <3>2 DEF Sound, AllCommitted, Committed
  <2>3. CASE k # n
    <3>1. 1 \in 1 .. n - k
      BY <1>5, <2>3
    <3>2. DataOf(raw) = submit_hash_calldata(round.epoch_id, round.hashes[k + 1])
      BY <1>2, <1>4, <1>7, <3>1 DEF Pending
    <3> QED BY <2>1, <3>2 DEF Sound
  <2> QED BY <2>2, <2>3
<1>11. \A r \in sent : Sound(r)'
  <2> TAKE r \in sent
  <2>1. Sound(r)
    BY DEF RInv, SentInv
  <2>2. NonceOf(r) \in Nat /\ NonceOf(r) < nonce'
    BY <1>3, <1>5, <2>1 DEF Sound
  <2>3. CASE \E e, h : DataOf(r) = submit_hash_calldata(e, h)
    BY <2>2, <2>3 DEF Sound
  <2>4. ASSUME NEW sub, NEW m, Holds(sub, m), DataOf(r) = reveal_tx(sub),
               AllCommitted(sub, m, NonceOf(r))
        PROVE  Sound(r)'
    <3>1. \A i \in 1 .. m : \E q \in sent' :
            NonceOf(q) < NonceOf(r)
              /\ DataOf(q) = submit_hash_calldata(sub.epoch_id, sub.hashes[i])
      BY <1>2, <2>4 DEF AllCommitted, Committed
    <3> QED BY <2>2, <2>4, <3>1 DEF Sound, AllCommitted, Committed
  <2> QED BY <2>1, <2>3, <2>4 DEF Sound
<1>12. SentInv'
  <2>1. \A r \in sent : NonceOf(r) # NonceOf(raw)
    BY <1>2, <1>5 DEF RInv, SentInv, Sound
  <2>2. nonce' \in Nat
    BY <1>3, <1>5
  <2> QED BY <1>2, <1>10, <1>11, <2>1, <2>2 DEF RInv, SentInv
<1>13. ChainInv'
  <2>1. mined \in Nat /\ mined <= nonce /\ mined <= nonce + 1 /\ ~(nonce < mined)
    BY <1>5 DEF RInv, ChainInv
  <2> QED BY <1>2, <1>3, <2>1 DEF RInv, ChainInv, RevealsOpenCommits
<1>14. RoundInv'
  <2> SUFFICES ASSUME todo' # <<>>
               PROVE  (\E m, j : Holds(round, m) /\ Pending(round, m, j)
                                   /\ AllCommitted(round, j, nonce))'
    BY DEF RoundInv
  <2>1. k # n
    <3>1. CASE k = n
      <4>1. Len(Tail(todo)) = 0
        BY <1>5, <1>7, <3>1
      <4>2. Tail(todo) = <<>>
        BY <1>7, <4>1, EmptySeq
      <4> QED BY <1>3, <4>2
    <3> QED BY <3>1
  <2>2. round' = round /\ k + 1 \in 0 .. n /\ n + 1 - (k + 1) = l - 1
    BY <1>3, <1>5, <1>6, <2>1
  <2>3. Pending(round, n, k + 1)'
    <3>1. IsSeq(todo', n + 1 - (k + 1))
      BY <1>3, <1>5, <1>7, <2>2 DEF IsSeq
    <3>2. ASSUME NEW j \in 1 .. n - (k + 1)
          PROVE  todo'[j] = submit_hash_calldata(round.epoch_id, round.hashes[(k + 1) + j])
      <4>1. j \in 1 .. l - 1 /\ j + 1 \in 1 .. n - k /\ k + (j + 1) = (k + 1) + j
        BY <1>5
      <4>2. todo'[j] = todo[j + 1]
        BY <1>3, <1>7, <4>1
      <4> QED BY <1>4, <4>1, <4>2 DEF Pending
    <3>3. todo'[n + 1 - (k + 1)] = reveal_tx(round)
      <4>1. l - 1 \in 1 .. l - 1 /\ (l - 1) + 1 = n + 1 - k
        BY <1>5, <2>1
      <4>2. todo'[l - 1] = todo[(l - 1) + 1]
        BY <1>3, <1>7, <4>1
      <4> QED BY <1>4, <2>2, <4>1, <4>2 DEF Pending
    <3> QED BY <2>2, <3>1, <3>2, <3>3 DEF Pending
  <2>4. AllCommitted(round, k + 1, nonce)'
    <3> SUFFICES ASSUME NEW i \in 1 .. k + 1
                 PROVE  \E r \in sent' : NonceOf(r) < nonce'
                          /\ DataOf(r) = submit_hash_calldata(round.epoch_id, round.hashes[i])
      BY <2>2 DEF AllCommitted, Committed
    <3>1. CASE i = k + 1
      <4>1. 1 \in 1 .. n - k
        BY <1>5, <2>1
      <4>2. DataOf(raw) = submit_hash_calldata(round.epoch_id, round.hashes[k + 1])
        BY <1>2, <1>4, <1>7, <4>1 DEF Pending
      <4> QED BY <1>2, <1>3, <1>5, <3>1, <4>2
    <3>2. CASE i \in 1 .. k
      <4>1. PICK r \in sent : NonceOf(r) < nonce
              /\ DataOf(r) = submit_hash_calldata(round.epoch_id, round.hashes[i])
        BY <1>4, <3>2 DEF AllCommitted, Committed
      <4>2. NonceOf(r) < nonce' /\ r \in sent'
        BY <1>2, <1>3, <1>5, <4>1 DEF RInv, SentInv, Sound
      <4> QED BY <4>1, <4>2
    <3> QED BY <1>5, <3>1, <3>2
  <2>5. Holds(round, n)'
    BY <1>4, <2>2 DEF Holds
  <2> QED BY <2>3, <2>4, <2>5
<1> QED BY <1>12, <1>13, <1>14 DEF RInv

\* The chain takes the transaction that is due: a commit is recorded, a reveal
\* finds the commits of lower nonces there.
LEMMA MineStep ==
  ASSUME RInv, TransactionsAreTheWallets, NEW raw \in sent, mine(raw)
  PROVE  RInv'
<1>1. /\ UNCHANGED <<round, todo, nonce, sent>> /\ mined' = mined + 1
      /\ NonceOf(raw) = mined /\ Sound(raw) /\ nonce \in Nat /\ mined \in Nat
      /\ SenderOf(raw) = {WalletAddress}
  BY DEF mine, RInv, SentInv, ChainInv, NonceOf, TransactionsAreTheWallets, WalletAddress
<1>2. SentInv' /\ RoundInv'
  BY <1>1 DEF RInv, SentInv, RoundInv, Sound, AllCommitted, Committed, Pending
<1>3. mined' \in Nat /\ mined' <= nonce' /\ mined' - 1 = mined
  BY <1>1 DEF Sound
<1>4. \A r \in sent : NonceOf(r) \in Nat /\ (NonceOf(r) < mined' => NonceOf(r) < mined \/ r = raw)
  <2> TAKE r \in sent
  <2>1. NonceOf(r) \in Nat
    BY DEF RInv, SentInv, Sound
  <2>2. NonceOf(r) < mined' => NonceOf(r) < mined \/ NonceOf(r) = NonceOf(raw)
    BY <1>1, <2>1
  <2> QED BY <2>1, <2>2 DEF RInv, SentInv
<1> DEFINE data == DataOf(raw)
<1>5. ASSUME data[1] = "submitHash", UNCHANGED reveals,
             commits' = commits \cup {<<WalletAddress, data[2], data[3]>>}
      PROVE  ChainInv'
  <2>1. ASSUME NEW r \in sent, NEW e, NEW h, NonceOf(r) < mined',
               DataOf(r) = submit_hash_calldata(e, h)
        PROVE  <<WalletAddress, e, h>> \in commits'
    <3>1. CASE NonceOf(r) < mined
      BY <1>5, <2>1, <3>1 DEF RInv, ChainInv
    <3>2. CASE r = raw
      <4>1. data[2] = e /\ data[3] = h
        BY <2>1, <3>2 DEF submit_hash_calldata
      <4> QED BY <1>5, <4>1
    <3> QED BY <1>4, <2>1, <3>1, <3>2
  <2>2. RevealsOpenCommits'
    BY <1>5 DEF RInv, ChainInv, RevealsOpenCommits
  <2> QED BY <1>1, <1>3, <2>1, <2>2 DEF ChainInv
<1>6. ASSUME data[1] = "revealPrices", UNCHANGED commits,
             reveals' = reveals \cup {[sender |-> WalletAddress, epoch_id |-> data[2],
                 indices |-> Array(data, data[3]), prices |-> Array(data, data[4]),
                 random |-> data[5]]}
      PROVE  ChainInv'
  <2>1. ASSUME NEW e, NEW h PROVE data # submit_hash_calldata(e, h)
    BY <1>6 DEF submit_hash_calldata
  <2>2. ASSUME NEW r \in sent, NEW e, NEW h, NonceOf(r) < mined',
               DataOf(r) = submit_hash_calldata(e, h)
        PROVE  <<WalletAddress, e, h>> \in commits'
    BY <1>4, <1>6, <2>1, <2>2 DEF RInv, ChainInv
  <2>3. PICK sub, n : /\ Holds(sub, n) /\ data = reveal_tx(sub)
                      /\ AllCommitted(sub, n, NonceOf(raw))
    BY <1>1, <2>1 DEF Sound
  <2> DEFINE v == [sender |-> WalletAddress, epoch_id |-> data[2],
                   indices |-> Array(data, data[3]), prices |-> Array(data, data[4]),
                   random |-> data[5]]
  <2>4. /\ n \in Nat \ {0} /\ IsSeq(sub.prices, n) /\ IsSeq(sub.ftso_indices, n)
        /\ data = reveal_prices_calldata(sub.epoch_id, sub.ftso_indices, sub.prices, sub.random)
    BY <2>3 DEF Holds, reveal_tx
  <2> HIDE DEF data
  <2>5. /\ data[2] = sub.epoch_id /\ data[5] = sub.random
        /\ Array(data, data[3]) = sub.ftso_indices /\ Array(data, data[4]) = sub.prices
    BY <2>4, RevealDecodes
  <2>6. v = [sender |-> WalletAddress, epoch_id |-> sub.epoch_id, indices |-> sub.ftso_indices,
             prices |-> sub.prices, random |-> sub.random]
    BY <2>5
  <2>7. reveals' = reveals \cup {v}
    BY <1>6
  <2> HIDE DEF v
  <2>8. v.prices # <<>> /\ Len(v.indices) = Len(v.prices) /\ DOMAIN v.prices = 1 .. n
    <3>1. PICK S : sub.prices \in Seq(S) /\ Len(sub.prices) = n
      BY <2>4 DEF IsSeq
    <3>2. Len(sub.ftso_indices) = n
      BY <2>4 DEF IsSeq
    <3>3. sub.prices # <<>>
      BY <2>4, <3>1, EmptySeq
    <3> QED BY <2>6, <3>1, <3>2, <3>3
  <2>9. ASSUME NEW i \in DOMAIN v.prices
        PROVE  <<v.sender, v.epoch_id, commit_hash(v.prices[i], v.random, v.sender)>> \in commits'
    <3>1. i \in 1 .. n
      BY <2>8
    <3>2. sub.hashes[i] = commit_hash(sub.prices[i], sub.random, WalletAddress)
      BY <2>3, <3>1 DEF Holds
    <3>3. Committed(sub.epoch_id, sub.hashes[i], mined)
      BY <1>1, <2>3, <3>1 DEF AllCommitted
    <3>4. <<WalletAddress, sub.epoch_id, sub.hashes[i]>> \in commits
      BY <3>3 DEF Committed, RInv, ChainInv
    <3> QED BY <1>6, <2>6, <3>2, <3>4
  <2>10. RevealsOpenCommits'
    BY <1>6, <2>7, <2>8, <2>9 DEF RInv, ChainInv, RevealsOpenCommits
  <2> QED BY <1>1, <1>3, <2>2, <2>10 DEF ChainInv
<1>7. ChainInv'
  <2>1. PICK sender \in SenderOf(raw) :
       \/ /\ data[1] = "submitHash"
          /\ commits' = commits \cup {<<sender, data[2], data[3]>>}
          /\ UNCHANGED reveals
       \/ /\ data[1] = "revealPrices"
          /\ reveals' = reveals \cup {[sender |-> sender, epoch_id |-> data[2],
                 indices |-> Array(data, data[3]), prices |-> Array(data, data[4]),
                 random |-> data[5]]}
          /\ UNCHANGED commits
    BY DEF mine, DataOf
  <2>2. sender = WalletAddress
    BY <1>1, <2>1
  <2> HIDE DEF data
  <2> QED BY <1>5, <1>6, <2>1, <2>2
<1> QED BY <1>2, <1>7 DEF RInv

\* Each step keeps the order of nonces, commits and reveals.
LEMMA NextRInv == WInv /\ TransactionsAreTheWallets /\ RInv /\ [Next]_vars => RInv'
<1> SUFFICES ASSUME WInv, TransactionsAreTheWallets, RInv, [Next]_vars PROVE RInv'
  OBVIOUS
<1>1. ASSUME walletStep \/ expiry \/ collect \/ UNCHANGED vars
      PROVE  UNCHANGED <<round, todo, nonce, sent, chain>>
  BY <1>1 DEF walletStep, expiry, collect, vars
<1> QED BY <1>1, SameRInv, BuildStep, SignStep, MineStep DEF Next

\* Whatever is lost, delayed or taken late, a reveal the chain executes opens
\* commits it executed before, for every list of feeds (submitter.rs).
THEOREM RevealsOpen == Spec => []RevealsOpenCommits
<1>1. Init => TransactionsAreTheWallets
  BY DEF Init, TransactionsAreTheWallets
<1>2. RInv => RevealsOpenCommits
  BY DEF RInv, ChainInv
<1> QED BY <1>1, <1>2, InitWInv, NextWInv, NextSigned, InitRInv, NextRInv, PTL DEF Spec

----------------------------------------------------------------------------
(* Sums                                                                    *)

\* A set of naturals that holds a member holds a least one.
LEMMA Least ==
  ASSUME NEW S \in SUBSET Nat, S # {}
  PROVE  \E m \in S : \A k \in S : m <= k
<1> DEFINE R == {p \in Nat \X Nat : p[1] < p[2]}
<1>1. IsWellFoundedOn(R, Nat)
  <2>1. R = OpToRel(<, Nat)
    BY Zenon DEF OpToRel
  <2> QED BY <2>1, NatLessThanWellFounded, Zenon
<1>2. \A x, y \in Nat : x < y <=> <<x, y>> \in R
  OBVIOUS
<1> HIDE DEF R
<1>3. S \subseteq Nat /\ S # {}
  OBVIOUS
<1>4. PICK m \in S : \A k \in S : <<k, m>> \notin R
  BY <1>1, <1>3, WFMin, Zenon
<1>5. ASSUME NEW k \in S PROVE m <= k
  <2>1. k \in Nat /\ m \in Nat /\ ~(k < m)
    BY <1>2, <1>3, <1>4
  <2> QED BY <2>1
<1> QED BY <1>5

\* Induction over the naturals, for a set.
LEMMA SetInduction ==
  ASSUME NEW S, 0 \in S, \A n \in Nat : n \in S => n + 1 \in S
  PROVE  \A n \in Nat : n \in S
<1> DEFINE T == {n \in Nat : n \notin S}
<1>1. SUFFICES ASSUME T # {} PROVE FALSE
  OBVIOUS
<1>2. PICK m \in T : \A k \in T : m <= k
  BY <1>1, Least
<1>3. m \in Nat /\ m \notin S /\ m - 1 \in Nat /\ (m - 1) + 1 = m
  BY <1>2
<1>4. m - 1 \in S
  BY <1>2, <1>3
<1> QED BY <1>3, <1>4

\* c runs through what the members of v add up to.
AddsUp(v, c) ==
  /\ c \in [0 .. Len(v) -> Nat] /\ c[0] = 0
  /\ \A i \in 1 .. Len(v) : c[i] = c[i - 1] + v[i]

\* The recursive definition of the running sum, unfolded.
LEMMA Sums ==
  ASSUME NEW v \in Seq(Nat)
  PROVE  AddsUp(v, cumulative(v))
<1> DEFINE D       == 0 .. Len(v)
           G(c)    == [i \in D |-> IF i = 0 THEN 0 ELSE c[i - 1] + v[i]]
           Upto(n) == {c \in [D -> Nat] : /\ c[0] = 0
                                          /\ \A i \in D : 0 < i /\ i <= n => c[i] = c[i - 1] + v[i]}
           Lengths == {n \in Nat : n <= Len(v) => Upto(n) # {}}
<1>0. Len(v) \in Nat /\ \A i \in 1 .. Len(v) : v[i] \in Nat
  OBVIOUS
<1>1. Len(v) \in Lengths
  <2>1. 0 \in Lengths
    <3>1. [i \in D |-> 0] \in Upto(0)
      BY <1>0
    <3> QED BY <3>1
  <2>2. ASSUME NEW n \in Nat, n \in Lengths PROVE n + 1 \in Lengths
    <3> SUFFICES ASSUME n + 1 <= Len(v) PROVE Upto(n + 1) # {}
      OBVIOUS
    <3>1. PICK c \in Upto(n) : TRUE
      BY <2>2, <1>0
    <3> DEFINE d == [c EXCEPT ![n + 1] = c[n] + v[n + 1]]
    <3>2. n \in D /\ n + 1 \in D /\ v[n + 1] \in Nat
      BY <1>0
    <3>3. d \in [D -> Nat]
      BY <3>1, <3>2, SMTT(30)
    <3>4. d[0] = 0 /\ \A i \in D : 0 < i /\ i <= n + 1 => d[i] = d[i - 1] + v[i]
      BY <3>1, <3>2
    <3> QED BY <3>3, <3>4
  <2> HIDE DEF Lengths
  <2> QED BY <1>0, <2>1, <2>2, SetInduction
<1>2. PICK c \in Upto(Len(v)) : TRUE
  BY <1>0, <1>1
<1>3. c = G(c)
  <2>1. \A i \in D : c[i] = G(c)[i]
    BY <1>0, <1>2
  <2> QED BY <1>2, <2>1
<1>4. cumulative(v) = G(cumulative(v))
  <2>1. cumulative(v) = CHOOSE e : e = G(e)
    BY DEF cumulative
  <2> HIDE DEF G
  <2> QED BY <1>3, <2>1
<1>5. ASSUME NEW e, e = G(e) PROVE AddsUp(v, e)
  <2>1. e = [i \in D |-> e[i]] /\ \A i \in D : e[i] = IF i = 0 THEN 0 ELSE e[i - 1] + v[i]
    <3>1. \A i \in D : G(e)[i] = IF i = 0 THEN 0 ELSE e[i - 1] + v[i]
      OBVIOUS
    <3>2. G(e) = [i \in D |-> G(e)[i]]
      OBVIOUS
    <3> HIDE DEF G, D
    <3> QED BY <1>5, <3>1, <3>2, Zenon
  <2>0. \A i \in D : e[i] = IF i = 0 THEN 0 ELSE e[i - 1] + v[i]
    BY <2>1, Zenon
  <2> DEFINE Nats == {i \in Nat : i <= Len(v) => e[i] \in Nat}
  <2>2. 0 \in Nats
    BY <1>0, <2>0
  <2>3. ASSUME NEW i \in Nat, i \in Nats PROVE i + 1 \in Nats
    <3> SUFFICES ASSUME i + 1 <= Len(v) PROVE e[i + 1] \in Nat
      OBVIOUS
    <3>1. i + 1 \in D /\ i + 1 # 0 /\ (i + 1) - 1 = i /\ v[i + 1] \in Nat /\ i <= Len(v)
      BY <1>0
    <3>2. e[i + 1] = e[i] + v[i + 1]
      BY <2>0, <3>1
    <3> QED BY <2>3, <3>1, <3>2
  <2>4. \A i \in Nat : i \in Nats
    <3> HIDE DEF Nats
    <3> QED BY <2>2, <2>3, SetInduction
  <2>5. \A i \in D : e[i] \in Nat
    BY <1>0, <2>4
  <2>6. e[0] = 0 /\ \A i \in 1 .. Len(v) : e[i] = e[i - 1] + v[i]
    BY <1>0, <2>0
  <2> QED BY <2>1, <2>5, <2>6 DEF AddsUp
<1> HIDE DEF G
<1> QED BY <1>4, <1>5

\* The running sum starts at zero and adds one member at each index.
LEMMA SumSteps ==
  ASSUME NEW v \in Seq(Nat)
  PROVE  /\ Len(v) \in Nat /\ cumulative(v)[0] = 0
         /\ \A i \in Nat : i <= Len(v) => cumulative(v)[i] \in Nat
         /\ \A i \in Nat : i + 1 <= Len(v) =>
              v[i + 1] \in Nat /\ cumulative(v)[i + 1] = cumulative(v)[i] + v[i + 1]
<1>1. AddsUp(v, cumulative(v)) /\ Len(v) \in Nat
  BY Sums
<1>2. ASSUME NEW i \in Nat, i + 1 <= Len(v)
      PROVE  v[i + 1] \in Nat /\ cumulative(v)[i + 1] = cumulative(v)[i] + v[i + 1]
  <2>1. i + 1 \in 1 .. Len(v) /\ (i + 1) - 1 = i
    BY <1>1, <1>2
  <2> QED BY <1>1, <2>1 DEF AddsUp
<1>3. \A i \in Nat : i <= Len(v) => i \in 0 .. Len(v)
  BY <1>1
<1> QED BY <1>1, <1>2, <1>3 DEF AddsUp

\* Larger members, and more of them, add up to more.
LEMMA MoreAddsUp ==
  ASSUME NEW v \in Seq(Nat), NEW w \in Seq(Nat), Len(v) = Len(w),
         \A i \in 1 .. Len(v) : v[i] <= w[i]
  PROVE  \A i \in 0 .. Len(v) : cumulative(v)[i] <= cumulative(w)[i]
<1> DEFINE S == {i \in Nat : i <= Len(v) => cumulative(v)[i] <= cumulative(w)[i]}
<1>1. Len(v) \in Nat
  OBVIOUS
<1>2. 0 \in S
  BY SumSteps
<1>3. ASSUME NEW i \in Nat, i \in S PROVE i + 1 \in S
  <2> SUFFICES ASSUME i + 1 <= Len(v) PROVE cumulative(v)[i + 1] <= cumulative(w)[i + 1]
    OBVIOUS
  <2>1. i + 1 \in 1 .. Len(v) /\ i <= Len(v)
    BY <1>1
  <2>2. v[i + 1] <= w[i + 1]
    BY <2>1
  <2>3. /\ cumulative(v)[i + 1] = cumulative(v)[i] + v[i + 1] /\ cumulative(v)[i] \in Nat
        /\ cumulative(w)[i + 1] = cumulative(w)[i] + w[i + 1] /\ cumulative(w)[i] \in Nat
        /\ v[i + 1] \in Nat /\ w[i + 1] \in Nat
    BY <2>1, SumSteps
  <2> QED BY <1>3, <2>1, <2>2, <2>3
<1>4. \A i \in Nat : i \in S
  <2> HIDE DEF S
  <2> QED BY <1>2, <1>3, SetInduction
<1> QED BY <1>1, <1>4

\* Without its k-th member.
LEMMA SumWithout ==
  ASSUME NEW v \in Seq(Nat), NEW k \in 1 .. Len(v)
  PROVE  LET w == [v EXCEPT ![k] = 0]
         IN  w \in Seq(Nat) /\ Len(w) = Len(v)
             /\ cumulative(v)[Len(v)] = cumulative(w)[Len(v)] + v[k]
<1> DEFINE w == [v EXCEPT ![k] = 0]
<1>1. /\ w \in Seq(Nat) /\ Len(w) = Len(v) /\ w[k] = 0
      /\ \A i \in 1 .. Len(v) : i # k => w[i] = v[i]
      /\ \A i \in 1 .. Len(v) : v[i] \in Nat
  OBVIOUS
<1> HIDE DEF w
<1> DEFINE S == {i \in Nat : i <= Len(v) =>
                   cumulative(v)[i] = cumulative(w)[i] + (IF i >= k THEN v[k] ELSE 0)}
<1>3. 0 \in S
  <2>1. cumulative(v)[0] = 0 /\ cumulative(w)[0] = 0 /\ ~(0 >= k)
    BY <1>1, SumSteps
  <2> QED BY <2>1
<1>4. ASSUME NEW i \in Nat, i \in S PROVE i + 1 \in S
  <2> SUFFICES ASSUME i + 1 <= Len(v)
               PROVE cumulative(v)[i + 1] = cumulative(w)[i + 1] + (IF i + 1 >= k THEN v[k] ELSE 0)
    OBVIOUS
  <2>1. i + 1 \in 1 .. Len(v) /\ i <= Len(v) /\ v[i + 1] \in Nat
    BY <1>1
  <2>2. /\ cumulative(v)[i + 1] = cumulative(v)[i] + v[i + 1]
        /\ cumulative(w)[i + 1] = cumulative(w)[i] + w[i + 1]
        /\ cumulative(v)[i] \in Nat /\ cumulative(w)[i] \in Nat
    BY <1>1, <2>1, SumSteps
  <2>3. CASE i + 1 = k
    BY <1>1, <1>4, <2>1, <2>2, <2>3
  <2>4. CASE i + 1 # k
    BY <1>1, <1>4, <2>1, <2>2, <2>4, SMTT(30)
  <2> QED BY <2>3, <2>4
<1>5. Len(v) \in S /\ k <= Len(v)
  <2>1. Len(v) \in Nat /\ k <= Len(v)
    OBVIOUS
  <2> HIDE DEF S
  <2> QED BY <1>3, <1>4, <2>1, SetInduction
<1> QED BY <1>1, <1>5 DEF w

\* The first m of u are members of v, at different places.
Picks(u, v, p, m) ==
  /\ m <= Len(u)
  /\ \A i \in 1 .. m : p[i] \in 1 .. Len(v) /\ u[i] = v[p[i]]
  /\ \A i, j \in 1 .. m : p[i] = p[j] => i = j

\* What an injection picks from a list adds up to no more than the list.
LEMMA PickedAddsUp ==
  \A m \in Nat : \A u, v \in Seq(Nat) : \A p :
    Picks(u, v, p, m) => cumulative(u)[m] <= cumulative(v)[Len(v)]
<1> DEFINE S == {m \in Nat : \A u, v \in Seq(Nat) : \A p :
                   Picks(u, v, p, m) => cumulative(u)[m] <= cumulative(v)[Len(v)]}
<1>1. 0 \in S
  <2> SUFFICES ASSUME NEW u \in Seq(Nat), NEW v \in Seq(Nat)
               PROVE  cumulative(u)[0] <= cumulative(v)[Len(v)]
    OBVIOUS
  <2> QED BY SumSteps
<1>2. ASSUME NEW m \in Nat, m \in S PROVE m + 1 \in S
  <2> SUFFICES ASSUME NEW u \in Seq(Nat), NEW v \in Seq(Nat), NEW p, Picks(u, v, p, m + 1)
               PROVE  cumulative(u)[m + 1] <= cumulative(v)[Len(v)]
    OBVIOUS
  <2> DEFINE k == p[m + 1]
             w == [v EXCEPT ![k] = 0]
  <2>1. m + 1 \in 1 .. Len(u) /\ k \in 1 .. Len(v) /\ u[m + 1] = v[k] /\ v[k] \in Nat
    BY DEF Picks
  <2>2. /\ w \in Seq(Nat) /\ Len(w) = Len(v)
        /\ cumulative(v)[Len(v)] = cumulative(w)[Len(v)] + v[k]
    BY <2>1, SumWithout
  <2>3. Picks(u, w, p, m)
    <3>1. \A i \in 1 .. m : i \in 1 .. m + 1 /\ p[i] # k
      BY <2>1 DEF Picks
    <3> QED BY <2>2, <3>1 DEF Picks
  <2>4. cumulative(u)[m] <= cumulative(w)[Len(v)]
    <3> HIDE DEF w
    <3> QED BY <1>2, <2>2, <2>3
  <2>5. cumulative(u)[m + 1] = cumulative(u)[m] + u[m + 1] /\ cumulative(u)[m] \in Nat
    <3>1. m + 1 <= Len(u) /\ m <= Len(u)
      BY <2>1
    <3> QED BY <3>1, SumSteps
  <2>6. cumulative(w)[Len(v)] \in Nat
    <3> HIDE DEF w
    <3> QED BY <2>2, SumSteps
  <2> HIDE DEF w, k
  <2> QED BY <2>1, <2>2, <2>4, <2>5, <2>6, SMTT(30)
<1> HIDE DEF S
<1>3. \A m \in Nat : m \in S
  BY <1>1, <1>2, SetInduction
<1> QED BY <1>3 DEF S

----------------------------------------------------------------------------
(* Orders                                                                  *)

\* A[i] is what a total order on S puts before i.
Orders(S, A) ==
  /\ A \in [S -> SUBSET S]
  /\ \A i \in S : i \notin A[i]
  /\ \A i, j \in S : i # j => i \in A[j] \/ j \in A[i]
  /\ \A i, j \in S : j \in A[i] => A[j] \subseteq A[i]

\* The ranks of a finite order are 0 .. n - 1.
LEMMA Ranks ==
  ASSUME NEW S, IsFiniteSet(S), NEW A, Orders(S, A)
  PROVE  /\ Cardinality(S) \in Nat
         /\ \A i \in S : Cardinality(A[i]) \in 0 .. Cardinality(S) - 1
         /\ \A i, j \in S : i \in A[j] => Cardinality(A[i]) < Cardinality(A[j])
         /\ \A k \in 1 .. Cardinality(S) : \E i \in S : Cardinality(A[i]) = k - 1
<1> DEFINE n == Cardinality(S)
<1>1. n \in Nat
  BY FS_CardinalityType
<1>2. ASSUME NEW i \in S
      PROVE  IsFiniteSet(A[i]) /\ Cardinality(A[i]) \in Nat /\ Cardinality(A[i]) < n
  <2>1. A[i] \subseteq S \ {i} /\ A[i] \in SUBSET S
    BY DEF Orders
  <2>2. IsFiniteSet(S \ {i}) /\ Cardinality(S \ {i}) = n - 1
    BY FS_RemoveElement
  <2>3. IsFiniteSet(A[i]) /\ Cardinality(A[i]) <= n - 1
    BY <2>1, <2>2, FS_Subset
  <2>4. Cardinality(A[i]) \in Nat
    BY <2>3, FS_CardinalityType
  <2> QED BY <1>1, <2>3, <2>4
<1>3. ASSUME NEW i \in S, NEW j \in S, i \in A[j] PROVE Cardinality(A[i]) < Cardinality(A[j])
  <2>1. A[i] \subseteq A[j] /\ A[i] # A[j] /\ A[i] \in SUBSET A[j]
    BY <1>3 DEF Orders
  <2>2. Cardinality(A[i]) <= Cardinality(A[j]) /\ Cardinality(A[i]) # Cardinality(A[j])
    BY <1>2, <2>1, FS_Subset
  <2> QED BY <1>2, <2>2
<1> DEFINE f == [i \in S |-> Cardinality(A[i]) + 1]
<1>4. f \in Injection(S, 1 .. n)
  <2>1. f \in [S -> 1 .. n]
    BY <1>1, <1>2
  <2>2. ASSUME NEW i \in S, NEW j \in S, f[i] = f[j] PROVE i = j
    <3>1. Cardinality(A[i]) = Cardinality(A[j])
      BY <1>2, <2>2
    <3>2. i \notin A[j] /\ j \notin A[i]
      BY <1>2, <1>3, <3>1
    <3> QED BY <3>2 DEF Orders
  <2> HIDE DEF f
  <2> QED BY <2>1, <2>2, Fun_IsInj
<1>5. f \in Surjection(S, 1 .. n)
  <2>1. IsFiniteSet(1 .. n) /\ Cardinality(1 .. n) = n
    BY <1>1, FS_Interval
  <2> HIDE DEF f
  <2> QED BY <1>4, <2>1, FS_Injection
<1>6. ASSUME NEW k \in 1 .. n PROVE \E i \in S : Cardinality(A[i]) = k - 1
  <2>1. PICK i \in S : f[i] = k
    <3> HIDE DEF f
    <3> QED BY <1>5 DEF Surjection
  <2> QED BY <1>2, <2>1
<1> QED BY <1>1, <1>2, <1>3, <1>6

\* p lists S in the order of A.
Lists(S, A, p) ==
  /\ p \in [1 .. Cardinality(S) -> S]
  /\ \A k, l \in 1 .. Cardinality(S) : p[k] = p[l] => k = l
  /\ \A i \in S : \E k \in 1 .. Cardinality(S) : p[k] = i
  /\ \A k, l \in 1 .. Cardinality(S) : k < l => p[k] \in A[p[l]]

\* Listing by rank lists every member once and in order.
LEMMA Placed ==
  ASSUME NEW S, IsFiniteSet(S), NEW A, Orders(S, A),
         NEW p \in [1 .. Cardinality(S) -> S],
         \A k \in 1 .. Cardinality(S) : Cardinality(A[p[k]]) = k - 1
  PROVE  Lists(S, A, p)
<1> DEFINE n == Cardinality(S)
<1>1. n \in Nat
  BY Ranks
<1>2. \A k, l \in 1 .. n : p[k] = p[l] => k = l
  BY <1>1
<1>3. ASSUME NEW k \in 1 .. n, NEW l \in 1 .. n, k < l PROVE p[k] \in A[p[l]]
  <2>1. p[k] \in S /\ p[l] \in S /\ p[k] # p[l]
    BY <1>2, <1>3
  <2>2. p[l] \notin A[p[k]]
    <3>1. ~(Cardinality(A[p[l]]) < Cardinality(A[p[k]]))
      BY <1>1, <1>3
    <3> QED BY <2>1, <3>1, Ranks
  <2> QED BY <2>1, <2>2 DEF Orders
<1>4. ASSUME NEW i \in S PROVE \E k \in 1 .. n : p[k] = i
  <2> DEFINE k == Cardinality(A[i]) + 1
  <2>1. k \in 1 .. n /\ Cardinality(A[i]) \in Nat
    BY <1>1, Ranks
  <2>2. p[k] \in S /\ Cardinality(A[p[k]]) = Cardinality(A[i])
    BY <1>1, <2>1
  <2>3. i \notin A[p[k]] /\ p[k] \notin A[i]
    BY <2>1, <2>2, Ranks
  <2>4. p[k] = i
    BY <2>2, <2>3 DEF Orders
  <2> QED BY <2>1, <2>4
<1> QED BY <1>2, <1>3, <1>4 DEF Lists

----------------------------------------------------------------------------
(* The aggregate                                                           *)

\* The shape of a list of quotes and of its volumes.
LEMMA Quotes ==
  ASSUME NEW s \in Seq(Observations)
  PROVE  /\ Len(s) \in Nat /\ DOMAIN s = 1 .. Len(s)
         /\ \A i \in 1 .. Len(s) : s[i] \in Observations /\ s[i].price \in Nat /\ s[i].volume \in Nat
         /\ volumes(s) \in Seq(Nat) /\ Len(volumes(s)) = Len(s)
         /\ \A i \in 1 .. Len(s) : volumes(s)[i] = s[i].volume
         /\ volume(s) \in Nat
<1>1. Len(s) \in Nat /\ DOMAIN s = 1 .. Len(s) /\ \A i \in 1 .. Len(s) : s[i] \in Observations
  OBVIOUS
<1>2. \A i \in 1 .. Len(s) : s[i].price \in Nat /\ s[i].volume \in Nat
  BY <1>1, ConstantsAssumption DEF Observations
<1>3. volumes(s) = [i \in 1 .. Len(s) |-> s[i].volume]
  BY <1>1 DEF volumes
<1>4. volumes(s) \in Seq(Nat) /\ Len(volumes(s)) = Len(s)
  BY <1>1, <1>2, <1>3
<1>5. volume(s) \in Nat
  BY <1>1, <1>4, SumSteps DEF volume
<1> QED BY <1>1, <1>2, <1>3, <1>4, <1>5

\* The indices of a list are as many as its length says.
LEMMA Places ==
  ASSUME NEW n \in Nat
  PROVE  IsFiniteSet(1 .. n) /\ Cardinality(1 .. n) = n
BY FS_Interval

\* sort_by permutes the observations and puts none before a cheaper one.
Sorts(s, p) ==
  /\ p \in [1 .. Len(s) -> 1 .. Len(s)]
  /\ \A k, l \in 1 .. Len(s) : p[k] = p[l] => k = l
  /\ \A i \in 1 .. Len(s) : \E k \in 1 .. Len(s) : p[k] = i
  /\ \A k, l \in 1 .. Len(s) : k < l => s[p[k]].price <= s[p[l]].price
  /\ sortByPrice(s) = [k \in 1 .. Len(s) |-> s[p[k]]]

\* Some permutation sorts the quotes by price.
LEMMA Sorted ==
  ASSUME NEW s \in Seq(Observations)
  PROVE  \E p : Sorts(s, p)
<1> DEFINE n == Len(s)
           S == 1 .. n
           A == [i \in S |-> cheaper(s, i)]
           p == inOrder(S, A)
<1>1. /\ n \in Nat /\ DOMAIN s = S /\ IsFiniteSet(S) /\ Cardinality(S) = n
      /\ \A i \in S : s[i].price \in Nat
  BY Quotes, Places
<1>2. \A i, j \in S : 
     j \in A[i] <=> s[j].price < s[i].price \/ (s[j].price = s[i].price /\ j < i)
  BY <1>1 DEF cheaper
<1>3. A \in [S -> SUBSET S]
  BY <1>1 DEF cheaper
<1>4. Orders(S, A)
  <2>1. \A i \in S : i \notin A[i]
    <3> HIDE DEF A
    <3> QED BY <1>1, <1>2
  <2>2. \A i, j \in S : i # j => i \in A[j] \/ j \in A[i]
    <3> HIDE DEF A
    <3> QED BY <1>1, <1>2
  <2>3. ASSUME NEW i \in S, NEW j \in S, j \in A[i] PROVE A[j] \subseteq A[i]
    <3> SUFFICES ASSUME NEW k \in A[j] PROVE k \in A[i]
      OBVIOUS
    <3>1. k \in S
      BY <1>3
    <3> HIDE DEF A
    <3> QED BY <1>1, <1>2, <2>3, <3>1
  <2> HIDE DEF A
  <2> QED BY <1>3, <2>1, <2>2, <2>3 DEF Orders
<1>5. ASSUME NEW k \in S PROVE p[k] \in S /\ Cardinality(A[p[k]]) = k - 1
  <2> HIDE DEF A
  <2>1. p[k] = CHOOSE i \in S : Cardinality(A[i]) = k - 1
    BY <1>1 DEF inOrder
  <2>2. \E i \in S : Cardinality(A[i]) = k - 1
    BY <1>1, <1>4, Ranks
  <2> HIDE DEF p
  <2> QED BY <2>1, <2>2
<1>6. p \in [S -> S]
  <2>1. p = [k \in S |-> p[k]]
    BY <1>1 DEF inOrder
  <2> HIDE DEF p
  <2> QED BY <1>5, <2>1
<1>7. Lists(S, A, p)
  <2> HIDE DEF A, p
  <2> QED BY <1>1, <1>4, <1>5, <1>6, Placed
<1>8. sortByPrice(s) = [k \in S |-> s[p[k]]]
  BY <1>1 DEF sortByPrice
<1> HIDE DEF p
<1>9. ASSUME NEW k \in S, NEW l \in S, k < l PROVE s[p[k]].price <= s[p[l]].price
  <2>1. p[k] \in S /\ p[l] \in S
    BY <1>6
  <2>2. p[k] \in A[p[l]]
    <3> HIDE DEF A
    <3> QED BY <1>1, <1>7, <1>9 DEF Lists
  <2>3. s[p[k]].price < s[p[l]].price \/ s[p[k]].price = s[p[l]].price
    <3> HIDE DEF A
    <3> QED BY <1>2, <2>1, <2>2
  <2> QED BY <1>1, <2>1, <2>3
<1>10. Sorts(s, p)
  <2> HIDE DEF A
  <2> QED BY <1>1, <1>7, <1>8, <1>9 DEF Sorts, Lists
<1> QED BY <1>10

\* Sorting moves quotes and alters none.
LEMMA SortedQuotes ==
  ASSUME NEW s \in Seq(Observations), NEW p, Sorts(s, p)
  PROVE  /\ sortByPrice(s) \in Seq(Observations) /\ Len(sortByPrice(s)) = Len(s)
         /\ \A k \in 1 .. Len(s) : sortByPrice(s)[k] = s[p[k]] /\ p[k] \in 1 .. Len(s)
<1>1. /\ Len(s) \in Nat /\ \A i \in 1 .. Len(s) : s[i] \in Observations
      /\ p \in [1 .. Len(s) -> 1 .. Len(s)] /\ sortByPrice(s) = [k \in 1 .. Len(s) |-> s[p[k]]]
  BY Quotes DEF Sorts
<1>2. \A k \in 1 .. Len(s) : s[p[k]] \in Observations
  BY <1>1
<1> QED BY <1>1, <1>2

\* Sorting keeps the total volume.
LEMMA SortedVolume ==
  ASSUME NEW s \in Seq(Observations)
  PROVE  volume(sortByPrice(s)) = volume(s)
<1> DEFINE t == sortByPrice(s)
           n == Len(s)
<1>1. PICK p : Sorts(s, p)
  BY Sorted
<1>2. /\ t \in Seq(Observations) /\ Len(t) = n
      /\ \A k \in 1 .. n : t[k] = s[p[k]] /\ p[k] \in 1 .. n
  BY <1>1, SortedQuotes
<1> HIDE DEF t
<1>3. /\ n \in Nat /\ volumes(s) \in Seq(Nat) /\ Len(volumes(s)) = n
      /\ volumes(t) \in Seq(Nat) /\ Len(volumes(t)) = n
      /\ \A i \in 1 .. n : volumes(s)[i] = s[i].volume /\ volumes(t)[i] = t[i].volume
  BY <1>2, Quotes
<1> DEFINE q == [i \in 1 .. n |-> CHOOSE k \in 1 .. n : p[k] = i]
<1>4. \A i \in 1 .. n : q[i] \in 1 .. n /\ p[q[i]] = i
  BY <1>1 DEF Sorts
<1>5. Picks(volumes(t), volumes(s), p, n)
  <2>1. \A k, l \in 1 .. n : p[k] = p[l] => k = l
    BY <1>1 DEF Sorts
  <2>2. \A k \in 1 .. n : p[k] \in 1 .. n /\ volumes(t)[k] = volumes(s)[p[k]]
    <3> TAKE k \in 1 .. n
    <3>1. p[k] \in 1 .. n /\ t[k] = s[p[k]]
      BY <1>2
    <3>2. volumes(t)[k] = t[k].volume /\ volumes(s)[p[k]] = s[p[k]].volume
      BY <1>3, <3>1
    <3> QED BY <3>1, <3>2
  <2> QED BY <1>3, <2>1, <2>2 DEF Picks
<1>6. Picks(volumes(s), volumes(t), q, n)
  <2>1. \A i, j \in 1 .. n : q[i] = q[j] => i = j
    <3> HIDE DEF q
    <3> QED BY <1>4
  <2>2. \A i \in 1 .. n : q[i] \in 1 .. n /\ volumes(s)[i] = volumes(t)[q[i]]
    <3> HIDE DEF q
    <3> TAKE i \in 1 .. n
    <3>1. q[i] \in 1 .. n /\ p[q[i]] = i /\ t[q[i]] = s[p[q[i]]]
      BY <1>2, <1>4
    <3>2. volumes(s)[i] = s[i].volume /\ volumes(t)[q[i]] = t[q[i]].volume
      BY <1>3, <3>1
    <3> QED BY <3>1, <3>2
  <2> HIDE DEF q
  <2> QED BY <1>3, <2>1, <2>2 DEF Picks
<1> HIDE DEF q
<1>7. /\ cumulative(volumes(t))[n] <= cumulative(volumes(s))[n]
      /\ cumulative(volumes(s))[n] <= cumulative(volumes(t))[n]
  BY <1>3, <1>5, <1>6, PickedAddsUp
<1>8. cumulative(volumes(t))[n] \in Nat /\ cumulative(volumes(s))[n] \in Nat
  BY <1>3, SumSteps
<1> QED BY <1>2, <1>7, <1>8 DEF volume, t

\* The volume window of s[i] meets the middle half.
Middle(s, i) ==
  /\ 4 * cumulative(volumes(s))[i] > volume(s)
  /\ 4 * cumulative(volumes(s))[i - 1] < 3 * volume(s)

\* What trim keeps it keeps for its window, and of any volume it keeps some.
LEMMA Trimmed ==
  ASSUME NEW s \in Seq(Observations)
  PROVE  /\ trim(s) \in Seq(Observations)
         /\ \A k \in 1 .. Len(trim(s)) : \E i \in 1 .. Len(s) : trim(s)[k] = s[i] /\ Middle(s, i)
         /\ volume(s) > 0 => trim(s) # <<>>
<1> DEFINE cum   == cumulative(volumes(s))
           S     == {i \in DOMAIN s : 4 * cum[i] > volume(s) /\ 4 * cum[i - 1] < 3 * volume(s)}
           A     == [i \in S |-> {j \in S : j < i}]
           order == inOrder(S, A)
           n     == Cardinality(S)
<1>1. /\ Len(s) \in Nat /\ DOMAIN s = 1 .. Len(s) /\ volume(s) \in Nat
      /\ \A i \in 1 .. Len(s) : s[i] \in Observations
  BY Quotes
<1>2. S \subseteq 1 .. Len(s) /\ \A i \in S : Middle(s, i)
  BY <1>1 DEF Middle
<1>3. trim(s) = [k \in DOMAIN order |-> s[order[k]]]
  BY DEF trim
<1> HIDE DEF S
<1>4. IsFiniteSet(S) /\ n \in Nat
  BY <1>1, <1>2, Places, FS_Subset, FS_CardinalityType
<1>5. Orders(S, A)
  <2>1. S \subseteq Nat
    BY <1>1, <1>2
  <2>2. \A i, j \in S : j \in A[i] <=> j < i
    OBVIOUS
  <2>3. A \in [S -> SUBSET S]
    OBVIOUS
  <2>4. ASSUME NEW i \in S, NEW j \in S, j \in A[i] PROVE A[j] \subseteq A[i]
    <3> SUFFICES ASSUME NEW k \in A[j] PROVE k \in A[i]
      OBVIOUS
    <3>1. k \in S
      BY <2>3
    <3> HIDE DEF A
    <3> QED BY <2>1, <2>2, <2>4, <3>1
  <2>5. \A i, j \in S : i \notin A[i] /\ (i # j => i \in A[j] \/ j \in A[i])
    <3> HIDE DEF A
    <3> QED BY <2>1, <2>2
  <2> HIDE DEF A
  <2> QED BY <2>3, <2>4, <2>5 DEF Orders
<1>6. ASSUME NEW k \in 1 .. n PROVE order[k] \in S
  <2> HIDE DEF A
  <2>1. order[k] = CHOOSE i \in S : Cardinality(A[i]) = k - 1
    BY DEF inOrder
  <2>2. \E i \in S : Cardinality(A[i]) = k - 1
    BY <1>4, <1>5, Ranks
  <2> HIDE DEF order
  <2> QED BY <2>1, <2>2
<1>7. DOMAIN order = 1 .. n
  BY DEF inOrder
<1> HIDE DEF order
<1>8. trim(s) = [k \in 1 .. n |-> s[order[k]]] /\ \A k \in 1 .. n : s[order[k]] \in Observations
  BY <1>1, <1>2, <1>3, <1>6, <1>7
<1>9. trim(s) \in Seq(Observations) /\ Len(trim(s)) = n
  BY <1>4, <1>8
<1>10. ASSUME NEW k \in 1 .. n
       PROVE  \E i \in 1 .. Len(s) : trim(s)[k] = s[i] /\ Middle(s, i)
  <2>1. trim(s)[k] = s[order[k]] /\ order[k] \in 1 .. Len(s) /\ Middle(s, order[k])
    BY <1>2, <1>6, <1>8
  <2> QED BY <2>1
<1>11. ASSUME volume(s) > 0 PROVE n # 0
  <2> DEFINE H == {i \in Nat : i <= Len(s) /\ 4 * cum[i] > volume(s)}
  <2>1. \A i \in Nat : i <= Len(s) => cum[i] \in Nat
    BY Quotes, SumSteps
  <2>2. cum[0] = 0 /\ cum[Len(s)] = volume(s)
    BY Quotes, SumSteps DEF volume
  <2> HIDE DEF cum
  <2>3. Len(s) \in H
    BY <1>1, <1>11, <2>2
  <2>4. PICK i \in H : \A j \in H : i <= j
    BY <2>3, Least
  <2>5. i # 0
    BY <1>1, <2>2, <2>4
  <2>6. i - 1 \in Nat /\ i - 1 <= Len(s) /\ i - 1 \notin H /\ cum[i - 1] \in Nat
    BY <1>1, <2>1, <2>4, <2>5
  <2>7. 4 * cum[i - 1] < 3 * volume(s) /\ i \in DOMAIN s
    BY <1>1, <1>11, <2>4, <2>5, <2>6
  <2>8. i \in S
    BY <2>4, <2>7 DEF S, cum
  <2> QED BY <1>4, <2>8, FS_EmptySet
<1> QED BY <1>9, <1>10, <1>11

\* The weighted median is the price of a quote.
LEMMA MedianIsQuoted ==
  ASSUME NEW s \in Seq(Observations), s # <<>>
  PROVE  \E i \in 1 .. Len(s) : weightedMedian(s) = 2 * s[i].price
<1> DEFINE cum  == cumulative(volumes(s))
           hits == {i \in DOMAIN s : 2 * cum[i] >= cum[Len(s)]}
           m    == CHOOSE i \in hits : \A j \in hits : i <= j
<1>1. Len(s) \in Nat /\ DOMAIN s = 1 .. Len(s) /\ Len(s) # 0
  BY Quotes
<1>2. weightedMedian(s) = 2 * s[IF hits = {} THEN Len(s) ELSE m].price
  BY DEF weightedMedian
<1>3. CASE hits = {}
  BY <1>1, <1>2, <1>3
<1>4. CASE hits # {}
  <2>1. hits \in SUBSET Nat
    BY <1>1
  <2>2. \E i \in hits : \A j \in hits : i <= j
    <3> HIDE DEF hits
    <3> QED BY <1>4, <2>1, Least
  <2>3. m \in hits
    <3> HIDE DEF hits
    <3> QED BY <2>2
  <2>4. m \in 1 .. Len(s)
    BY <1>1, <2>3
  <2> HIDE DEF m, hits
  <2> QED BY <1>2, <1>4, <2>4
<1> QED BY <1>3, <1>4

\* The plain median is the middle of two prices.
LEMMA PlainIsQuoted ==
  ASSUME NEW s \in Seq(Observations), Len(s) > 1
  PROVE  \E i, j \in 1 .. Len(s) : plainMedian(s) = s[i].price + s[j].price
<1> DEFINE mid == Len(s) \div 2
<1>1. Len(s) \in Nat /\ \A i \in 1 .. Len(s) : s[i].price \in Nat
  BY Quotes
<1>2. mid \in 1 .. Len(s) /\ mid + 1 \in 1 .. Len(s)
  BY <1>1
<1>3. plainMedian(s) = IF Len(s) % 2 = 0 THEN s[mid].price + s[mid + 1].price ELSE 2 * s[mid + 1].price
  BY DEF plainMedian
<1> HIDE DEF mid
<1>4. s[mid + 1].price \in Nat
  BY <1>1, <1>2
<1>5. 2 * s[mid + 1].price = s[mid + 1].price + s[mid + 1].price
  BY <1>4
<1>6. CASE Len(s) % 2 = 0
  BY <1>2, <1>3, <1>6
<1>7. CASE Len(s) % 2 # 0
  BY <1>2, <1>3, <1>5, <1>7
<1> QED BY <1>6, <1>7

\* The aggregate is the price of an observation in the middle half of the
\* volume, of the only one, or without any volume the middle of two prices.
Aggregate(s, t, r) ==
  \/ Len(s) = 1 /\ r = 2 * s[1].price
  \/ /\ Len(s) > 1 /\ volume(s) = 0
     /\ \E i, j \in 1 .. Len(s) : r = t[i].price + t[j].price
  \/ /\ Len(s) > 1 /\ volume(s) > 0
     /\ \E i \in 1 .. Len(s) : r = 2 * t[i].price /\ Middle(t, i)

\* Which of the medians the aggregate is, and of which quotes.
LEMMA Aggregated ==
  ASSUME NEW s \in Seq(Observations), s # <<>>
  PROVE  Aggregate(s, sortByPrice(s), volume_trimmed_median(s))
<1> DEFINE t == sortByPrice(s)
<1>1. t \in Seq(Observations) /\ Len(t) = Len(s) /\ volume(t) = volume(s)
  BY Sorted, SortedQuotes, SortedVolume
<1>2. Len(s) \in Nat \ {0} /\ volume(s) \in Nat
  BY Quotes
<1>3. volume_trimmed_median(s) =
        IF Len(s) = 1 THEN 2 * s[1].price
        ELSE IF volume(t) = 0 THEN plainMedian(t)
        ELSE weightedMedian(IF trim(t) = <<>> THEN t ELSE trim(t))
  BY DEF volume_trimmed_median
<1> SUFFICES Aggregate(s, t, volume_trimmed_median(s))
  OBVIOUS
<1> HIDE DEF t
<1>4. CASE Len(s) = 1
  BY <1>3, <1>4 DEF Aggregate
<1>5. CASE Len(s) > 1 /\ volume(s) = 0
  <2>1. \E i, j \in 1 .. Len(s) : plainMedian(t) = t[i].price + t[j].price
    BY <1>1, <1>5, PlainIsQuoted
  <2> QED BY <1>1, <1>3, <1>5, <2>1 DEF Aggregate
<1>6. CASE Len(s) > 1 /\ volume(s) > 0
  <2>1. /\ trim(t) \in Seq(Observations) /\ trim(t) # <<>>
        /\ \A k \in 1 .. Len(trim(t)) : \E i \in 1 .. Len(t) : trim(t)[k] = t[i] /\ Middle(t, i)
    BY <1>1, <1>6, Trimmed
  <2>2. PICK k \in 1 .. Len(trim(t)) : weightedMedian(trim(t)) = 2 * trim(t)[k].price
    BY <2>1, MedianIsQuoted
  <2>3. PICK i \in 1 .. Len(t) : trim(t)[k] = t[i] /\ Middle(t, i)
    BY <2>1
  <2>4. volume_trimmed_median(s) = 2 * t[i].price
    <3>1. volume_trimmed_median(s) = weightedMedian(IF trim(t) = <<>> THEN t ELSE trim(t))
      BY <1>1, <1>3, <1>6
    <3>2. (IF trim(t) = <<>> THEN t ELSE trim(t)) = trim(t)
      BY <2>1
    <3>3. volume_trimmed_median(s) = weightedMedian(trim(t))
      BY <3>1, <3>2, Zenon
    <3> QED BY <2>2, <2>3, <3>3
  <2> QED BY <1>1, <1>6, <2>3, <2>4 DEF Aggregate
<1>7. Len(s) = 1 \/ (Len(s) > 1 /\ volume(s) = 0) \/ (Len(s) > 1 /\ volume(s) > 0)
  <2>0. \A n \in Nat \ {0} : n = 1 \/ n > 1
    OBVIOUS
  <2>1. Len(s) = 1 \/ Len(s) > 1
    BY <1>2, <2>0, Zenon
  <2>2. volume(s) = 0 \/ volume(s) > 0
    BY <1>2
  <2> QED BY <2>1, <2>2
<1> QED BY <1>4, <1>5, <1>6, <1>7

\* What v adds up to from its i-th member on.
LEMMA SumBack ==
  ASSUME NEW v \in Seq(Nat), NEW i \in 1 .. Len(v)
  PROVE  LET b == [k \in 1 .. Len(v) |-> IF k < i THEN 0 ELSE v[k]]
         IN  /\ b \in Seq(Nat) /\ Len(b) = Len(v)
             /\ cumulative(v)[Len(v)] = cumulative(v)[i - 1] + cumulative(b)[Len(v)]
<1> DEFINE b == [k \in 1 .. Len(v) |-> IF k < i THEN 0 ELSE v[k]]
<1>1. /\ Len(v) \in Nat /\ i \in Nat /\ i <= Len(v) /\ i >= 1 /\ i - 1 \in Nat /\ i - 1 <= Len(v)
      /\ \A k \in 1 .. Len(v) : v[k] \in Nat
  OBVIOUS
<1>2. b \in Seq(Nat) /\ Len(b) = Len(v) /\ \A k \in 1 .. Len(v) : b[k] = IF k < i THEN 0 ELSE v[k]
  BY <1>1
<1> HIDE DEF b
<1> DEFINE Rest(j) == IF j < i THEN cumulative(b)[j] = 0
                      ELSE cumulative(v)[j] = cumulative(v)[i - 1] + cumulative(b)[j]
           S == {j \in Nat : j <= Len(v) => Rest(j)}
<1>3. 0 \in S
  BY <1>1, <1>2, SumSteps
<1>4. ASSUME NEW j \in Nat, j \in S PROVE j + 1 \in S
  <2> SUFFICES ASSUME j + 1 <= Len(v) PROVE Rest(j + 1)
    OBVIOUS
  <2>1. j + 1 \in 1 .. Len(v) /\ j <= Len(v) /\ Rest(j)
    BY <1>1, <1>4
  <2>2. /\ cumulative(v)[j + 1] = cumulative(v)[j] + v[j + 1] /\ cumulative(v)[j] \in Nat
        /\ cumulative(b)[j + 1] = cumulative(b)[j] + b[j + 1] /\ cumulative(b)[j] \in Nat
        /\ v[j + 1] \in Nat /\ cumulative(v)[i - 1] \in Nat
        /\ b[j + 1] = IF j + 1 < i THEN 0 ELSE v[j + 1]
    BY <1>1, <1>2, <2>1, SumSteps
  <2>3. CASE j + 1 < i
    BY <1>1, <2>1, <2>2, <2>3
  <2>4. CASE j + 1 = i
    <3>1. i - 1 = j /\ cumulative(b)[j] = 0
      BY <1>1, <2>1, <2>4
    <3> QED BY <1>1, <2>2, <2>4, <3>1
  <2>5. CASE j + 1 > i
    BY <1>1, <2>1, <2>2, <2>5, SMTT(30)
  <2> QED BY <1>1, <2>3, <2>4, <2>5
<1>5. Len(v) \in S
  <2> HIDE DEF S
  <2> QED BY <1>1, <1>3, <1>4, SetInduction
<1> QED BY <1>1, <1>2, <1>5 DEF b

\* The property, for the quotes at hand.
LEMMA ThinQuotes ==
  ASSUME obs \in Seq(Observations)
  PROVE  ThinQuotesCannotMovePrice
<1> DEFINE price == volume_trimmed_median(obs)
           n     == Len(obs)
           t     == sortByPrice(obs)
           held(G)   == [i \in DOMAIN obs |-> IF i \in G THEN obs[i].volume ELSE 0]
           others(G) == {obs[i].price : i \in DOMAIN obs \ G}
<1> SUFFICES ASSUME NEW G \in SUBSET DOMAIN obs, G # DOMAIN obs, volume(obs) > 0,
                    4 * cumulative(held(G))[n] <= volume(obs)
             PROVE  \E lo, hi \in others(G) : 2 * lo <= price /\ price <= 2 * hi
  BY DEF ThinQuotesCannotMovePrice
<1> DEFINE h == held(G)
<1>1. /\ n \in Nat /\ DOMAIN obs = 1 .. n
      /\ \A i \in 1 .. n : obs[i].price \in Nat /\ obs[i].volume \in Nat
  BY Quotes
<1>2. PICK j \in 1 .. n : j \notin G
  BY <1>1
<1>3. Aggregate(obs, t, price)
  <2>1. obs # <<>>
    BY <1>1, <1>2
  <2> QED BY <2>1, Aggregated
<1>4. /\ h \in Seq(Nat) /\ Len(h) = n
      /\ \A i \in 1 .. n : h[i] = IF i \in G THEN obs[i].volume ELSE 0
  BY <1>1
<1>5. CASE n = 1
  <2>1. j = 1 /\ obs[1].price \in others(G) /\ price = 2 * obs[1].price
    BY <1>1, <1>2, <1>3, <1>5 DEF Aggregate
  <2> QED BY <1>1, <1>5, <2>1
<1>6. CASE n # 1
  <2>1. PICK p : Sorts(obs, p)
    BY Sorted
  <2>2. /\ t \in Seq(Observations) /\ Len(t) = n
        /\ \A k \in 1 .. n : t[k] = obs[p[k]] /\ p[k] \in 1 .. n
        /\ volume(t) = volume(obs) /\ volume(obs) \in Nat
    BY <2>1, SortedQuotes, SortedVolume, Quotes
  <2> HIDE DEF t, price
  <2>3. PICK i \in 1 .. n : price = 2 * t[i].price /\ Middle(t, i)
    BY <1>3, <1>6 DEF Aggregate
  <2>4. /\ volumes(t) \in Seq(Nat) /\ Len(volumes(t)) = n
        /\ \A k \in 1 .. n : volumes(t)[k] = t[k].volume
        /\ volume(t) = cumulative(volumes(t))[n]
    BY <2>2, Quotes DEF volume
  <2>5. /\ \A k, l \in 1 .. n : p[k] = p[l] => k = l
        /\ \A k, l \in 1 .. n : k < l => t[k].price <= t[l].price
    <3>1. /\ \A k, l \in 1 .. n : p[k] = p[l] => k = l
          /\ \A k, l \in 1 .. n : k < l => obs[p[k]].price <= obs[p[l]].price
      BY <2>1 DEF Sorts
    <3>2. ASSUME NEW k \in 1 .. n, NEW l \in 1 .. n, k < l PROVE t[k].price <= t[l].price
      <4>1. t[k] = obs[p[k]] /\ t[l] = obs[p[l]]
        BY <2>2
      <4> QED BY <3>1, <3>2, <4>1
    <3> QED BY <3>1, <3>2
  <2>6. 4 * cumulative(h)[n] <= volume(obs)
    OBVIOUS
  <2> HIDE DEF h
  <2>9. cumulative(h)[n] \in Nat
    BY <1>1, <1>4, SumSteps
  <2>10. \A k \in 1 .. n : t[k].price \in Nat
    BY <1>1, <2>2
  <2>11. \A k \in 1 .. n : h[p[k]] \in Nat
    BY <1>4, <2>2
  <2>7. \E lo \in others(G) : 2 * lo <= price
    <3> SUFFICES ASSUME \A k \in 1 .. n : k \notin G => ~(2 * obs[k].price <= price) PROVE FALSE
      BY <1>1
    <3>1. ASSUME NEW k \in 1 .. i PROVE p[k] \in G
      <4>1. k \in 1 .. n /\ (k < i \/ k = i)
        BY <1>1
      <4>2. t[k].price <= t[i].price /\ t[k].price = obs[p[k]].price /\ p[k] \in 1 .. n
        BY <1>1, <2>2, <2>5, <4>1
      <4>3. t[i].price \in Nat /\ t[k].price \in Nat /\ price = 2 * t[i].price
        BY <2>3, <2>10, <4>1
      <4> QED BY <4>2, <4>3, SMTT(30)
    <3>2. Picks(volumes(t), h, p, i)
      <4>1. \A k \in 1 .. i : k \in 1 .. n
        BY <1>1
      <4>2. ASSUME NEW k \in 1 .. i PROVE p[k] \in 1 .. n /\ volumes(t)[k] = h[p[k]]
        <5>1. volumes(t)[k] = obs[p[k]].volume /\ p[k] \in 1 .. n
          BY <2>2, <2>4, <4>1
        <5> QED BY <1>4, <3>1, <5>1
      <4> QED BY <1>1, <1>4, <2>4, <2>5, <4>1, <4>2 DEF Picks
    <3>3. i \in Nat /\ cumulative(volumes(t))[i] <= cumulative(h)[n]
      BY <1>1, <1>4, <2>4, <3>2, PickedAddsUp
    <3>4. cumulative(volumes(t))[i] \in Nat
      BY <1>1, <2>4, <3>3, SumSteps
    <3> QED BY <2>2, <2>3, <2>6, <2>9, <3>3, <3>4 DEF Middle
  <2>8. \E hi \in others(G) : price <= 2 * hi
    <3> SUFFICES ASSUME \A k \in 1 .. n : k \notin G => ~(price <= 2 * obs[k].price) PROVE FALSE
      BY <1>1
    <3>1. ASSUME NEW k \in i .. n PROVE p[k] \in G
      <4>1. k \in 1 .. n /\ (i < k \/ k = i)
        BY <1>1
      <4>2. t[i].price <= t[k].price /\ t[k].price = obs[p[k]].price /\ p[k] \in 1 .. n
        BY <1>1, <2>2, <2>5, <4>1
      <4>3. t[i].price \in Nat /\ t[k].price \in Nat /\ price = 2 * t[i].price
        BY <2>3, <2>10, <4>1
      <4> QED BY <4>2, <4>3, SMTT(30)
    <3> DEFINE v == volumes(t)
               b == [k \in 1 .. Len(v) |-> IF k < i THEN 0 ELSE v[k]]
               w == [k \in 1 .. n |-> h[p[k]]]
    <3>2. /\ b \in Seq(Nat) /\ Len(b) = n
          /\ cumulative(v)[n] = cumulative(v)[i - 1] + cumulative(b)[n]
      BY <2>4, SumBack
    <3>3. w \in Seq(Nat) /\ Len(w) = n
      BY <1>1, <2>11
    <3>4. ASSUME NEW k \in 1 .. n PROVE b[k] <= w[k]
      <4>1. h[p[k]] \in Nat /\ b[k] = (IF k < i THEN 0 ELSE v[k]) /\ w[k] = h[p[k]]
        <5>1. h[p[k]] \in Nat
          BY <2>11
        <5>2. k \in 1 .. Len(v)
          BY <2>4
        <5>3. b[k] = (IF k < i THEN 0 ELSE v[k])
          BY <5>2
        <5>4. w[k] = h[p[k]]
          OBVIOUS
        <5> QED BY <5>1, <5>3, <5>4
      <4>2. CASE k < i
        <5> HIDE DEF b, w, v
        <5> QED BY <4>1, <4>2
      <4>3. CASE ~(k < i)
        <5>1. p[k] \in G /\ p[k] \in 1 .. n /\ v[k] = obs[p[k]].volume
          BY <1>1, <2>2, <2>4, <3>1, <4>3
        <5>2. v[k] = h[p[k]]
          BY <1>4, <5>1
        <5> HIDE DEF b, w, v
        <5> QED BY <4>1, <4>3, <5>2
      <4> QED BY <4>2, <4>3
    <3>5. Picks(w, h, p, n)
      BY <1>1, <1>4, <2>2, <2>5, <3>3 DEF Picks
    <3> HIDE DEF b, w
    <3>6. n \in 0 .. n /\ cumulative(b)[n] <= cumulative(w)[n]
      <4>1. \A k \in 1 .. Len(b) : b[k] <= w[k]
        BY <3>2, <3>4
      <4>2. n \in 0 .. Len(b) /\ n \in 0 .. n
        BY <1>1, <3>2
      <4>3. \A k \in 0 .. Len(b) : cumulative(b)[k] <= cumulative(w)[k]
        BY <3>2, <3>3, <4>1, MoreAddsUp
      <4> QED BY <4>2, <4>3
    <3>7. cumulative(w)[n] <= cumulative(h)[n]
      BY <1>1, <1>4, <3>3, <3>5, PickedAddsUp
    <3>8. /\ cumulative(b)[n] \in Nat /\ cumulative(w)[n] \in Nat
          /\ cumulative(v)[i - 1] \in Nat
      <4>1. i - 1 \in Nat /\ i - 1 <= n
        BY <1>1
      <4>2. cumulative(v)[i - 1] \in Nat
        BY <1>1, <2>4, <4>1, SumSteps
      <4> HIDE DEF v
      <4> QED BY <1>1, <3>2, <3>3, <4>2, SumSteps, SMTT(30)
    <3>9. cumulative(v)[n] = volume(t) /\ 4 * cumulative(v)[i - 1] < 3 * volume(t)
      BY <2>3, <2>4 DEF Middle
    <3> HIDE DEF v
    <3>10. /\ volume(obs) = cumulative(v)[i - 1] + cumulative(b)[n]
           /\ 4 * cumulative(v)[i - 1] < 3 * volume(obs)
      BY <2>2, <3>2, <3>9
    <3> QED BY <2>6, <2>9, <3>6, <3>7, <3>8, <3>10, SMTT(30)
  <2> QED BY <2>7, <2>8
<1> QED BY <1>5, <1>6

----------------------------------------------------------------------------
(* What is submitted                                                       *)

\* The aggregate is a quoted price, or the middle of two.
LEMMA AggregateIsQuoted ==
  ASSUME obs \in Seq(Observations), obs # <<>>
  PROVE  LET r == volume_trimmed_median(obs)
         IN  /\ r \in Nat
             /\ \/ \E p \in PricesOf(obs) : r = 2 * p
                \/ volume(obs) = 0 /\ \E p, q \in PricesOf(obs) : r = p + q
<1> DEFINE r == volume_trimmed_median(obs)
           t == sortByPrice(obs)
           n == Len(obs)
<1>1. /\ n \in Nat /\ n # 0 /\ DOMAIN obs = 1 .. n
      /\ \A i \in 1 .. n : obs[i].price \in Nat
  BY Quotes
<1>2. \A i \in 1 .. n : t[i].price \in PricesOf(obs)
  <2>1. PICK p : Sorts(obs, p)
    BY Sorted
  <2>2. \A k \in 1 .. n : t[k] = obs[p[k]] /\ p[k] \in 1 .. n
    BY <2>1, SortedQuotes
  <2> HIDE DEF t
  <2> QED BY <1>1, <2>2 DEF PricesOf
<1>3. PricesOf(obs) \subseteq Nat /\ (n = 1 => obs[1].price \in PricesOf(obs))
  BY <1>1 DEF PricesOf
<1>4. Aggregate(obs, t, r)
  BY Aggregated
<1> HIDE DEF r, t
<1>5. \/ \E p \in PricesOf(obs) : r = 2 * p
      \/ volume(obs) = 0 /\ \E p, q \in PricesOf(obs) : r = p + q
  BY <1>2, <1>3, <1>4 DEF Aggregate
<1>6. r \in Nat
  BY <1>3, <1>5
<1> QED BY <1>5, <1>6 DEF r

\* Half a unit from m, or the largest price for what lies above it.
Near(m, price) ==
  \/ m - Units <= 2 * Units * price /\ 2 * Units * price <= m + Units
  \/ m > 2 * Units * MaxU64 /\ price = MaxU64

\* format_price rounds to the nearest unit or stops at the largest price.
LEMMA Formatted ==
  ASSUME NEW usd \in Nat, format_price(usd) # {}
  PROVE  Near(usd, CHOOSE p \in format_price(usd) : TRUE)
<1> DEFINE x == usd + Units
           d == 2 * Units
           q == x \div d
           m == x % d
           least == Min({q, MaxU64})
<1>1. Units \in Nat \ {0} /\ MaxU64 \in Nat /\ d \in Nat \ {0} /\ x \in Nat
  BY SubmissionAssumption
<1>2. q \in Int /\ m \in Int /\ 0 <= m /\ m < d /\ x = d * q + m
  BY <1>1
<1>3. format_price(usd) = {least}
  BY DEF format_price
<1> HIDE DEF q, m, d
<1>4. q \in Nat
  <2> SUFFICES ASSUME q <= -1 PROVE FALSE
    BY <1>2
  <2>1. d * q <= d * (-1)
    BY <1>1, <1>2
  <2> QED BY <1>1, <1>2, <2>1
<1>5. least = IF q <= MaxU64 THEN q ELSE MaxU64
  BY <1>1, <1>4 DEF Min
<1> HIDE DEF least
<1>6. (CHOOSE p \in format_price(usd) : TRUE) = least
  BY <1>3
<1>7. Near(usd, least)
  <2>1. CASE q <= MaxU64
    <3>1. least = q /\ d * q <= usd + Units /\ usd + Units < d * q + d
      BY <1>1, <1>2, <1>5, <2>1
    <3>2. usd - Units <= d * q
      BY <1>1, <1>2, <3>1 DEF d
    <3>3. 2 * Units * q = d * q
      BY <1>1, <1>2 DEF d
    <3> QED BY <3>1, <3>2, <3>3 DEF Near
  <2>2. CASE q > MaxU64
    <3>1. least = MaxU64
      BY <1>1, <1>4, <1>5, <2>2
    <3>2. d * (MaxU64 + 1) <= d * q
      BY <1>1, <1>4, <2>2
    <3>3. d * (MaxU64 + 1) = 2 * Units * MaxU64 + 2 * Units
      BY <1>1 DEF d
    <3>4. usd > 2 * Units * MaxU64
      <4>1. 2 * Units * MaxU64 \in Nat /\ d * q \in Int /\ d * q <= usd + Units
        BY <1>1, <1>2
      <4> QED BY <1>1, <3>2, <3>3, <4>1
    <3> QED BY <3>1, <3>4 DEF Near
  <2> QED BY <1>1, <1>4, <2>1, <2>2
<1> QED BY <1>6, <1>7

\* The first price of a submission is that of the first feed.
LEMMA NewPrices ==
  ASSUME NEW usd, NEW others \in OtherFeeds, NEW epoch, NEW random, NEW voter,
         NEW sub \in new(epoch, <<<<0, usd>>>> \o others, random, voter)
  PROVE  /\ format_price(usd) # {}
         /\ sub.prices[1] = CHOOSE p \in format_price(usd) : TRUE
<1> DEFINE feeds == <<<<0, usd>>>> \o others
           formatted == [i \in DOMAIN feeds |-> format_price(feeds[i][2])]
           prices    == [i \in DOMAIN feeds |-> CHOOSE p \in formatted[i] : TRUE]
           indices   == [i \in DOMAIN feeds |-> feeds[i][1]]
           hashes    == [i \in DOMAIN feeds |-> commit_hash(prices[i], random, voter)]
<1>1. 1 \in DOMAIN feeds /\ feeds[1] = <<0, usd>>
  <2>1. \E S : <<<<0, usd>>>> \in Seq(S) /\ others \in Seq(S)
    <3>1. CASE others = <<>>
      <4>1. <<<<0, usd>>>> \in Seq({<<0, usd>>}) /\ others \in Seq({<<0, usd>>})
        BY <3>1
      <4> QED BY <4>1
    <3>2. ASSUME NEW u \in OtherUsd, others = <<<<1, u>>>>
          PROVE  \E S : <<<<0, usd>>>> \in Seq(S) /\ others \in Seq(S)
      <4> DEFINE S == {<<0, usd>>, <<1, u>>}
      <4>1. <<<<0, usd>>>> \in Seq(S) /\ others \in Seq(S)
        BY <3>2
      <4> QED BY <4>1
    <3> QED BY <3>1, <3>2 DEF OtherFeeds
  <2>2. PICK S : <<<<0, usd>>>> \in Seq(S) /\ others \in Seq(S)
    BY <2>1
  <2> QED BY <2>2
<1> HIDE DEF feeds
<1>2. ~(feeds = <<>> \/ \E i \in DOMAIN feeds : formatted[i] = {})
  <2>1. sub \in new(epoch, feeds, random, voter)
    BY DEF feeds
  <2> QED BY <2>1, Zenon DEF new
<1>3. sub = [epoch_id |-> epoch, ftso_indices |-> indices, prices |-> prices, random |-> random,
             hashes |-> hashes]
  <2>1. sub \in new(epoch, feeds, random, voter)
    BY DEF feeds
  <2> QED BY <2>1, Zenon DEF new
<1>4. sub.prices = prices
  <2> HIDE DEF prices, indices, hashes
  <2> QED BY <1>3
<1>5. formatted[1] = format_price(usd)
  BY <1>1
<1>6. formatted[1] # {}
  BY <1>1, <1>2
<1>7. sub.prices[1] = CHOOSE p \in formatted[1] : TRUE
  BY <1>1, <1>4
<1> QED BY <1>5, <1>6, <1>7

QInv == obs \in Seq(Observations) /\ SubmittedPriceIsQuoted

\* A round takes its first price from the quotes of the moment.
LEMMA NextQInv == QInv /\ [Next]_vars => QInv'
<1> SUFFICES ASSUME QInv, [Next]_vars PROVE QInv'
  OBVIOUS
<1>1. ASSUME UNCHANGED <<obs, round>> \/ obs' = <<>> \/ (obs' \in Seq(Observations) /\ round' = NoRound)
      PROVE  QInv'
  BY <1>1, EmptySeq DEF QInv, SubmittedPriceIsQuoted, PricesOf
<1>2. ASSUME collect PROVE QInv'
  <2>1. PICK o \in Observations, i \in 1 .. Len(obs) + 1 : observe(o, i)
    BY <1>2 DEF collect
  <2>2. InsertAt(obs, i, o) \in Seq(Observations)
    <3>1. SubSeq(obs, 1, i - 1) \in Seq(Observations) /\ SubSeq(obs, i, Len(obs)) \in Seq(Observations)
      BY DEF QInv
    <3> QED BY <3>1 DEF InsertAt
  <2> QED BY <1>1, <1>2, <2>1, <2>2 DEF collect, observe
<1>3. ASSUME NEW others \in OtherFeeds, build(others) PROVE QInv'
  <2>1. CASE obs = <<>> \/ obs' = <<>>
    BY <1>1, <1>3, <2>1 DEF build
  <2>2. CASE obs # <<>> /\ obs' # <<>>
    <3>1. PICK voter \in composed_address(s1, s2) :
            round' \in new(rounds', <<<<0, volume_trimmed_median(obs)>>>> \o others, fresh_random, voter)
      BY <1>3, <2>2 DEF build
    <3>2. Near(volume_trimmed_median(obs), round'.prices[1])
      BY <2>2, <3>1, NewPrices, Formatted, AggregateIsQuoted DEF QInv
    <3>3. UNCHANGED obs
      BY <1>3, <2>2 DEF build
    <3> QED BY <2>2, <3>2, <3>3, AggregateIsQuoted DEF QInv, SubmittedPriceIsQuoted, Near, PricesOf
  <2> QED BY <2>1, <2>2
<1>4. ASSUME walletStep PROVE obs' = <<>>
  BY <1>4 DEF walletStep
<1>5. ASSUME expiry \/ (\E raw \in sent : mine(raw)) \/ UNCHANGED vars PROVE UNCHANGED <<obs, round>>
  BY <1>5 DEF expiry, mine, vars
<1>6. ASSUME sign_price_tx PROVE UNCHANGED obs /\ (round' = round \/ round' = NoRound)
  BY <1>6 DEF sign_price_tx
<1> QED BY <1>1, <1>2, <1>3, <1>4, <1>5, <1>6 DEF Next, QInv

\* Whatever the exchanges quote and in whatever order the book yields it: the
\* price submitted is one an exchange quoted, to half a reported unit, or
\* without any volume the middle of two (volume_trimmed_median, format_price).
THEOREM SubmittedQuote == Spec => []SubmittedPriceIsQuoted
<1>1. Init => QInv
  BY EmptySeq DEF Init, QInv, SubmittedPriceIsQuoted
<1>2. QInv => SubmittedPriceIsQuoted
  BY DEF QInv
<1> QED BY <1>1, <1>2, NextQInv, PTL DEF Spec

\* Exchanges with at most a quarter of the volume cannot move the aggregate
\* out of the range of the others, for any number of exchanges (trim).
THEOREM ThinQuotesAreTrimmed == Spec => []ThinQuotesCannotMovePrice
<1>1. Init => QInv
  BY EmptySeq DEF Init, QInv, SubmittedPriceIsQuoted
<1>2. QInv => ThinQuotesCannotMovePrice
  BY ThinQuotes DEF QInv
<1> QED BY <1>1, <1>2, NextQInv, PTL DEF Spec

----------------------------------------------------------------------------
(* The provider node: the staleness flag's two promises are inductive      *)
(* together with the types.  Between two looks of the monitor the age of a *)
(* feed's newest ticker grows by the time since the last look, unless a    *)
(* ticker makes it zero.                                                   *)

\* The minimum of a set of naturals, and the greater and smaller of a pair.
LEMMA MinOf ==
  ASSUME NEW S, S \subseteq Nat, S # {}
  PROVE  Min(S) \in S /\ \A y \in S : Min(S) <= y
<1>1. \E x \in S : \A y \in S : x <= y
  BY Least
<1> QED BY <1>1 DEF Min

\* Min and Max of two numbers.
LEMMA Pairs ==
  ASSUME NEW a \in Nat, NEW b \in Nat
  PROVE  /\ Min({a, b}) = IF a <= b THEN a ELSE b
         /\ Max({a, b}) = IF a >= b THEN a ELSE b
<1>1. Min({a, b}) \in {a, b} /\ \A y \in {a, b} : Min({a, b}) <= y
  BY MinOf
<1>2. Max({a, b}) \in {a, b} /\ \A y \in {a, b} : Max({a, b}) >= y
  <2>1. \E x \in {a, b} : \A y \in {a, b} : x >= y
    OBVIOUS
  <2> QED BY <2>1 DEF Max
<1> QED BY <1>1, <1>2

----------------------------------------------------------------------------
(* Types                                                                   *)

\* The caps of the timers and of the ages.
LEMMA Bounds ==
  /\ Max({MaxDelay, ConnectTimeout}) \in Nat
  /\ MaxDelay <= Max({MaxDelay, ConnectTimeout})
  /\ ConnectTimeout <= Max({MaxDelay, ConnectTimeout})
  /\ AgeCap \in Nat /\ Never = AgeCap + 1
BY Pairs, NodeAssumption DEF AgeCap, Never

\* An empty book, and every task about to connect.
LEMMA InitType == NodeInit => NodeTypeOK
<1>1. /\ 0 \in 0 .. Max({MaxDelay, ConnectTimeout}) /\ Never \in 0 .. Never
      /\ Base \in Base .. MaxDelay /\ 0 \in 0 .. Period /\ 0 \in 0 .. MaxCount
  BY Bounds, NodeAssumption
<1> QED BY <1>1 DEF NodeInit, NodeTypeOK

\* A counter stops at its bound.
LEMMA Counted ==
  ASSUME NodeTypeOK PROVE bump(failures) \in 0 .. MaxCount /\ bump(reconnects) \in 0 .. MaxCount
BY NodeAssumption DEF NodeTypeOK, bump

\* The Err arm keeps the delays under the clamp.
LEMMA FailureType ==
  ASSUME NodeTypeOK, NEW e \in Exchanges, streamFailed(e), UNCHANGED <<up, age, stale, monitorIn>>
  PROVE  NodeTypeOK'
<1>1. backoff[e] \in 0 .. Max({MaxDelay, ConnectTimeout})
  <2>1. backoff[e] \in Base .. MaxDelay
    BY DEF NodeTypeOK
  <2> QED BY <2>1, Bounds, NodeAssumption
<1>2. conn' \in [Exchanges -> {"connecting", "streaming", "sleeping"}]
  BY DEF NodeTypeOK, streamFailed
<1>3. timer' \in [Exchanges -> 0 .. Max({MaxDelay, ConnectTimeout})]
  BY <1>1 DEF NodeTypeOK, streamFailed
<1>4. failures' \in 0 .. MaxCount /\ reconnects' \in 0 .. MaxCount
  BY Counted DEF streamFailed
<1> QED BY <1>2, <1>3, <1>4 DEF NodeTypeOK, streamFailed

\* A task that ends its backoff.
LEMMA WakeType ==
  ASSUME NodeTypeOK, NEW e \in Exchanges, wake(e)
  PROVE  NodeTypeOK'
<1>1. backoff[e] \in Base .. MaxDelay
  BY DEF NodeTypeOK
<1>2. Min({2 * backoff[e], MaxDelay}) \in Base .. MaxDelay
  <2>1. 2 * backoff[e] \in Nat /\ MaxDelay \in Nat
    BY <1>1, NodeAssumption
  <2>2. Min({2 * backoff[e], MaxDelay}) = IF 2 * backoff[e] <= MaxDelay THEN 2 * backoff[e] ELSE MaxDelay
    BY <2>1, Pairs
  <2> QED BY <1>1, <2>2, NodeAssumption
<1> QED BY <1>2 DEF NodeTypeOK, wake, telemetry

\* Time passes for all timers and ages.
LEMMA TickType ==
  ASSUME NodeTypeOK, Tick
  PROVE  NodeTypeOK'
<1>1. ASSUME NEW e \in Exchanges PROVE timer'[e] \in 0 .. Max({MaxDelay, ConnectTimeout})
  <2>1. timer[e] \in 0 .. Max({MaxDelay, ConnectTimeout})
    BY DEF NodeTypeOK
  <2>2. CASE conn[e] = "sleeping"
    BY <2>1, <2>2, Bounds DEF Tick
  <2>3. CASE conn[e] = "connecting"
    BY <2>1, <2>3, Bounds, NodeAssumption DEF Tick
  <2>4. CASE conn[e] = "streaming"
    BY <2>1, <2>4 DEF Tick
  <2> QED BY <2>2, <2>3, <2>4 DEF NodeTypeOK
<1>2. timer' \in [Exchanges -> 0 .. Max({MaxDelay, ConnectTimeout})]
  BY <1>1 DEF Tick
<1>3. \A n \in 0 .. Never : older(n) \in 0 .. Never
  BY Bounds DEF older
<1>4. age' \in [Feeds -> [Exchanges -> 0 .. Never]]
  BY <1>3 DEF Tick, NodeTypeOK
<1>5. monitorIn' \in 0 .. Period
  BY NodeAssumption DEF Tick, NodeTypeOK
<1> QED BY <1>2, <1>4, <1>5 DEF Tick, NodeTypeOK, telemetry

\* Each action keeps the types.
LEMMA NextType == NodeTypeOK /\ [NodeNext]_nodeVars => NodeTypeOK'
<1> SUFFICES ASSUME NodeTypeOK, [NodeNext]_nodeVars PROVE NodeTypeOK'
  OBVIOUS
<1>1. ASSUME NEW e \in Exchanges, connectSucceeds(e) PROVE NodeTypeOK'
  <2>1. 0 \in 0 .. Max({MaxDelay, ConnectTimeout})
    BY Bounds
  <2> QED BY <1>1, <2>1 DEF connectSucceeds, NodeTypeOK, telemetry
<1>2. ASSUME NEW e \in Exchanges, connectFails(e) \/ connectTimesOut(e) \/ streamEnds(e)
      PROVE  NodeTypeOK'
  BY <1>2, FailureType DEF connectFails, connectTimesOut, streamEnds
<1>3. ASSUME NEW e \in Exchanges, wake(e) PROVE NodeTypeOK'
  BY <1>3, WakeType
<1>4. ASSUME NEW e \in Exchanges, VenueFlips(e) PROVE NodeTypeOK'
  BY <1>4 DEF VenueFlips, NodeTypeOK, connectors, telemetry
<1>5. ASSUME NEW e \in Exchanges, NEW f \in Feeds, upsert(e, f) PROVE NodeTypeOK'
  <2>1. 0 \in 0 .. Never
    BY Bounds
  <2> QED BY <1>5, <2>1 DEF upsert, NodeTypeOK, connectors, telemetry
<1>6. CASE check_staleness
  <2>1. stale' \in BOOLEAN
    BY <1>6, Zenon DEF check_staleness
  <2>2. monitorIn' \in 0 .. Period
    BY <1>6, NodeAssumption DEF check_staleness
  <2> QED BY <1>6, <2>1, <2>2 DEF check_staleness, NodeTypeOK, connectors, telemetry
<1>7. CASE Tick
  BY <1>7, TickType
<1>8. CASE UNCHANGED nodeVars
  BY <1>8 DEF nodeVars, NodeTypeOK, connectors, telemetry
<1> QED BY <1>1, <1>2, <1>3, <1>4, <1>5, <1>6, <1>7, <1>8 DEF NodeNext

\* Types, and with them the clamp on every connector's delay: an attempt never
\* waits for longer than the connect timeout, a sleep never more than MaxDelay.
THEOREM NodeTypeCorrect == NodeSpec => []NodeTypeOK
BY InitType, NextType, PTL DEF NodeSpec

----------------------------------------------------------------------------
(* The monitor                                                             *)

\* The newest of the tickers in a slot of the book: it is that of some exchange,
\* and none is newer.
LEMMA NewestOf ==
  ASSUME NEW slot \in [Exchanges -> 0 .. Never]
  PROVE  LET newest == Min({slot[e] : e \in Exchanges})
         IN  /\ newest \in 0 .. Never
             /\ \E e \in Exchanges : newest = slot[e]
             /\ \A e \in Exchanges : newest <= slot[e]
<1> DEFINE S == {slot[e] : e \in Exchanges}
<1>1. S \subseteq 0 .. Never /\ S \subseteq Nat /\ S # {}
  BY NodeAssumption
<1>2. Min(S) \in S /\ \A y \in S : Min(S) <= y
  <2> HIDE DEF S
  <2> QED BY <1>1, MinOf
<1> QED BY <1>1, <1>2

\* The newest ticker of a feed in the book.
LEMMA Newest ==
  ASSUME NodeTypeOK, NEW f \in Feeds
  PROVE  /\ last_update(f) \in 0 .. Never
         /\ \E e \in Exchanges : last_update(f) = age[f][e]
         /\ \A e \in Exchanges : last_update(f) <= age[f][e]
<1>1. age[f] \in [Exchanges -> 0 .. Never]
  BY DEF NodeTypeOK
<1> QED BY <1>1, NewestOf DEF last_update

\* The same after a step.
LEMMA NewestNext ==
  ASSUME NodeTypeOK', NEW f \in Feeds
  PROVE  /\ last_update(f)' \in 0 .. Never
         /\ \E e \in Exchanges : last_update(f)' = age'[f][e]
         /\ \A e \in Exchanges : last_update(f)' <= age'[f][e]
<1>1. age'[f] \in [Exchanges -> 0 .. Never]
  BY DEF NodeTypeOK
<1> QED BY <1>1, NewestOf DEF last_update

\* A tick makes the newest ticker older by one unit, up to the cap, like all the
\* others.
LEMMA NewestAges ==
  ASSUME NodeTypeOK, Tick, NEW f \in Feeds
  PROVE  last_update(f)' = older(last_update(f))
<1>1. \A e \in Exchanges : age'[f][e] = older(age[f][e]) /\ age[f][e] \in 0 .. Never
  BY DEF Tick, NodeTypeOK
<1>2. \A m, n \in 0 .. Never : m <= n => older(m) <= older(n)
  BY Bounds DEF older
<1>3. \A m \in 0 .. Never : older(m) \in 0 .. Never
  BY Bounds DEF older
<1>4. /\ last_update(f) \in 0 .. Never
      /\ \A e \in Exchanges : last_update(f) <= age[f][e]
  BY Newest
<1>5. /\ last_update(f)' \in 0 .. Never
      /\ \A e \in Exchanges : last_update(f)' <= age'[f][e]
  BY TickType, NewestNext
<1>6. PICK e \in Exchanges : last_update(f) = age[f][e]
  BY Newest
<1>7. PICK d \in Exchanges : last_update(f)' = age'[f][d]
  BY TickType, NewestNext
<1>8. last_update(f)' <= older(last_update(f))
  BY <1>1, <1>5, <1>6
<1>9. older(last_update(f)) <= last_update(f)'
  BY <1>1, <1>2, <1>4, <1>7
<1> QED BY <1>3, <1>4, <1>5, <1>8, <1>9

MInv == NodeTypeOK /\ SilenceIsReported /\ AlarmsAreTrue

\* A step that changes neither the book nor the monitor.
LEMMA NotWatching ==
  ASSUME MInv, NodeTypeOK', UNCHANGED <<age, stale, monitorIn>>
  PROVE  MInv'
BY DEF MInv, SilenceIsReported, AlarmsAreTrue, last_update, sinceCheck

\* A ticker revives its feed and no other.
LEMMA UpsertStep ==
  ASSUME MInv, NodeTypeOK', NEW e \in Exchanges, NEW f \in Feeds, upsert(e, f)
  PROVE  MInv'
<1>1. last_update(f)' = 0
  <2>1. age'[f][e] = 0
    BY DEF upsert, MInv, NodeTypeOK
  <2> QED BY <2>1, NewestNext
<1>2. \A g \in Feeds : g # f => last_update(g)' = last_update(g)
  <2>1. \A g \in Feeds : g # f => age'[g] = age[g]
    BY DEF upsert, MInv, NodeTypeOK
  <2> QED BY <2>1 DEF last_update
<1>3. sinceCheck' = sinceCheck /\ sinceCheck \in Nat /\ UNCHANGED <<stale, monitorIn>>
  BY NodeAssumption DEF sinceCheck, upsert, MInv, NodeTypeOK
<1>4. SilenceIsReported'
  BY <1>1, <1>2, <1>3, NodeAssumption DEF MInv, SilenceIsReported
<1>5. AlarmsAreTrue'
  BY <1>1, <1>2, <1>3, NodeAssumption DEF MInv, AlarmsAreTrue
<1> QED BY <1>4, <1>5 DEF MInv

\* The monitor looks at every feed and sets the flag.
LEMMA CheckStep ==
  ASSUME MInv, NodeTypeOK', check_staleness
  PROVE  MInv'
<1>1. sinceCheck' = 0
  BY NodeAssumption DEF sinceCheck, check_staleness
<1>2. \A f \in Feeds : last_update(f)' = last_update(f)
  BY DEF check_staleness, last_update
<1>3. stale' <=> \E f \in Feeds : last_update(f) > StaleAfter
  BY DEF check_staleness, IsStale
<1>4. SilenceIsReported'
  BY <1>1, <1>2, <1>3, NodeAssumption DEF SilenceIsReported
<1>5. AlarmsAreTrue'
  BY <1>1, <1>2, <1>3, NodeAssumption DEF AlarmsAreTrue
<1> QED BY <1>4, <1>5 DEF MInv

\* Ages and the time since the last look grow together; the cap is above what
\* the two promises compare.
LEMMA TickStep ==
  ASSUME MInv, NodeTypeOK', Tick
  PROVE  MInv'
<1>1. /\ sinceCheck \in Nat /\ sinceCheck < Period /\ sinceCheck' = sinceCheck + 1
      /\ stale' = stale
  BY NodeAssumption DEF sinceCheck, Tick, MInv, NodeTypeOK
<1>2. \A f \in Feeds : /\ last_update(f) \in 0 .. Never
                       /\ last_update(f)' = older(last_update(f))
  BY Newest, NewestAges DEF MInv
<1>3. \A n \in 0 .. Never :
        /\ n <= sinceCheck => older(n) <= sinceCheck + 1
        /\ n > StaleAfter + sinceCheck <=> older(n) > StaleAfter + sinceCheck + 1
  BY <1>1, Bounds, NodeAssumption DEF older, AgeCap
<1>4. SilenceIsReported'
  BY <1>1, <1>2, <1>3, NodeAssumption DEF MInv, SilenceIsReported, Tick
<1>5. AlarmsAreTrue'
  BY <1>1, <1>2, <1>3, NodeAssumption DEF MInv, AlarmsAreTrue
<1> QED BY <1>4, <1>5 DEF MInv

\* Between two looks time only makes feeds older, tickers only make them newer.
LEMMA NextMInv == MInv /\ [NodeNext]_nodeVars => MInv'
<1> SUFFICES ASSUME MInv, [NodeNext]_nodeVars PROVE MInv'
  OBVIOUS
<1>1. NodeTypeOK'
  BY NextType DEF MInv
<1>2. ASSUME NEW e \in Exchanges,
             \/ connectSucceeds(e) \/ connectFails(e) \/ connectTimesOut(e)
             \/ streamEnds(e) \/ wake(e) \/ VenueFlips(e)
      PROVE  MInv'
  BY <1>1, <1>2, NotWatching
     DEF connectSucceeds, connectFails, connectTimesOut, streamEnds, wake, VenueFlips
<1>3. ASSUME NEW e \in Exchanges, NEW f \in Feeds, upsert(e, f) PROVE MInv'
  BY <1>1, <1>3, UpsertStep
<1>4. CASE UNCHANGED nodeVars
  BY <1>1, <1>4, NotWatching DEF nodeVars
<1> QED BY <1>1, <1>2, <1>3, <1>4, CheckStep, TickStep DEF NodeNext

\* The monitor has not looked yet.
LEMMA InitMInv == NodeInit => MInv
BY InitType DEF NodeInit, MInv, SilenceIsReported, AlarmsAreTrue

\* No outage hides: a feed that was already silent for more than STALE_AFTER when
\* the monitor last looked keeps the flag up (check_staleness), whatever the other
\* feeds and exchanges did since.
THEOREM OutagesReported == NodeSpec => []SilenceIsReported
<1>1. MInv => SilenceIsReported
  BY DEF MInv
<1> QED BY <1>1, InitMInv, NextMInv, PTL DEF NodeSpec

\* No alarm outlives its cause by more than one look of the monitor.
THEOREM AlarmsJustified == NodeSpec => []AlarmsAreTrue
<1>1. MInv => AlarmsAreTrue
  BY DEF MInv
<1> QED BY <1>1, InitMInv, NextMInv, PTL DEF NodeSpec
=============================================================================
