-------------------------- MODULE VerifiableRAG_proofs --------------------------
(***************************************************************************)
(* Proofs about VerifiableRAG, for every set of tokens, proofs, queries,   *)
(* images, feeds and rounds and for every bound.  The inductive invariant  *)
(* is IInv: the type invariant, with the two directions of the             *)
(* correspondence between accepted commitments and query records.          *)
(***************************************************************************)
EXTENDS VerifiableRAG, NaturalsInduction, WellFoundedInduction, TLAPS

(***************************************************************************)
(* Induction and recursion on the naturals, with sets and functions where  *)
(* the library's theorems take operators, and the powers of ten.           *)
(***************************************************************************)
(* A set that contains 0 and the successor of each of its naturals         *)
(* contains every natural: it would be left by a least one.                *)
LEMMA SetInduction ==
  ASSUME NEW S, 0 \in S, \A n \in Nat : n \in S => n + 1 \in S
  PROVE  \A n \in Nat : n \in S
<1> DEFINE T == {n \in Nat : n \notin S}
           R == {p \in Nat \X Nat : p[1] < p[2]}
<1>1. IsWellFoundedOn(R, Nat)
  <2>1. R = OpToRel(<, Nat)
    BY Zenon DEF OpToRel
  <2> QED BY <2>1, NatLessThanWellFounded, Zenon
<1>2. \A x, y \in Nat : x < y <=> <<x, y>> \in R
  OBVIOUS
<1> HIDE DEF R
<1>3. SUFFICES ASSUME T # {} PROVE FALSE
  OBVIOUS
<1>4. T \subseteq Nat
  OBVIOUS
<1>5. PICK x \in T : \A y \in T : <<y, x>> \notin R
  BY <1>1, <1>3, <1>4, WFMin, Zenon
<1>6. x \in Nat /\ x \notin S
  OBVIOUS
<1>7. x - 1 \in Nat /\ x - 1 < x
  BY <1>6
<1>8. x - 1 \in S
  BY <1>2, <1>5, <1>6, <1>7
<1>9. (x - 1) + 1 = x
  BY <1>6
<1> QED BY <1>6, <1>7, <1>8, <1>9

(* h starts at e and its first n steps are steps of g. *)
Runs(g, e, n, h) == /\ h[0] = e
                    /\ \A i \in 0 .. n - 1 : h[i + 1] = g[h[i]]

(* A function defined by recursion on the naturals exists: the runs of     *)
(* length n agree with the longer ones, and their last values make it up.  *)
LEMMA Recursion ==
  \A S : \A e \in S, g \in [S -> S] :
    \E f \in [Nat -> S] : f[0] = e /\ \A n \in Nat : f[n + 1] = g[f[n]]
<1> SUFFICES ASSUME NEW S, NEW e \in S, NEW g \in [S -> S]
  PROVE  \E f \in [Nat -> S] : f[0] = e /\ \A n \in Nat : f[n + 1] = g[f[n]]
  OBVIOUS
<1> DEFINE H(n) == {h \in [Nat -> S] : Runs(g, e, n, h)}
           A == {n \in Nat : H(n) # {}}
<1>1. \A n \in Nat : n \in A
  <2>1. 0 \in A
    <3>1. [k \in Nat |-> e] \in H(0)
      BY DEF Runs
    <3> QED BY <3>1
  <2>2. ASSUME NEW n \in Nat, n \in A PROVE n + 1 \in A
    <3>1. PICK h \in [Nat -> S] : Runs(g, e, n, h)
      BY <2>2
    <3> DEFINE k == [i \in Nat |-> IF i = n + 1 THEN g[h[n]] ELSE h[i]]
    <3>2. k \in [Nat -> S]
      OBVIOUS
    <3>3. Runs(g, e, n + 1, k)
      <4>1. k[0] = e
        BY <3>1 DEF Runs
      <4>2. ASSUME NEW i \in 0 .. n PROVE k[i + 1] = g[k[i]]
        BY <3>1 DEF Runs
      <4> HIDE DEF k
      <4> QED BY <4>1, <4>2 DEF Runs
    <3> HIDE DEF k
    <3> QED BY <3>2, <3>3
  <2> HIDE DEF A
  <2> QED BY <2>1, <2>2, SetInduction
<1>2. ASSUME NEW n \in Nat, NEW m \in Nat, n <= m, NEW h \in H(n), NEW k \in H(m)
      PROVE  h[n] = k[n]
  <2> DEFINE B == {i \in Nat : i <= n => h[i] = k[i]}
  <2>1. 0 \in B
    BY DEF Runs
  <2>2. ASSUME NEW i \in Nat, i \in B PROVE i + 1 \in B
    BY <1>2, <2>2 DEF Runs
  <2>3. \A i \in Nat : i \in B
    <3> HIDE DEF B
    <3> QED BY <2>1, <2>2, SetInduction
  <2> QED BY <2>3
<1> DEFINE f == [n \in Nat |-> (CHOOSE h \in H(n) : TRUE)[n]]
<1>3. ASSUME NEW n \in Nat PROVE (CHOOSE h \in H(n) : TRUE) \in H(n)
  BY <1>1
<1>4. f \in [Nat -> S]
  BY <1>3
<1>5. f[0] = e
  BY <1>3 DEF Runs
<1>6. ASSUME NEW n \in Nat PROVE f[n + 1] = g[f[n]]
  <2> DEFINE h == CHOOSE k \in H(n) : TRUE
             k == CHOOSE l \in H(n + 1) : TRUE
  <2>1. h \in H(n) /\ k \in H(n + 1)
    BY <1>3
  <2>2. k[n + 1] = g[k[n]]
    <3>1. Runs(g, e, n + 1, k) /\ n \in 0 .. (n + 1) - 1
      BY <2>1
    <3> HIDE DEF k
    <3> QED BY <3>1 DEF Runs
  <2>3. h[n] = k[n]
    <3> HIDE DEF h, k, H
    <3> QED BY <1>2, <2>1
  <2> QED BY <2>2, <2>3
<1> HIDE DEF f
<1> QED BY <1>4, <1>5, <1>6

(* powerOfTen is a function, its values are positive and it multiplies by  *)
(* ten at each step (10 ** decimals in _scaleValuation).                   *)
LEMMA PowersOfTen ==
  /\ powerOfTen \in [Nat -> Nat \ {0}]
  /\ powerOfTen[0] = 1
  /\ \A n \in Nat : powerOfTen[n + 1] = 10 * powerOfTen[n]
<1> DEFINE P == Nat \ {0}
           g == [x \in P |-> 10 * x]
           D(f) == f = [n \in Nat |-> IF n = 0 THEN 1 ELSE 10 * f[n - 1]]
<1>1. PICK f \in [Nat -> P] : f[0] = 1 /\ \A n \in Nat : f[n + 1] = g[f[n]]
  <2>1. g \in [P -> P] /\ 1 \in P
    OBVIOUS
  <2> HIDE DEF P, g
  <2>2. \A e \in P, h \in [P -> P] :
          \E f \in [Nat -> P] : f[0] = e /\ \A n \in Nat : f[n + 1] = h[f[n]]
    BY Recursion
  <2>3. \A h \in [P -> P] :
          \E f \in [Nat -> P] : f[0] = 1 /\ \A n \in Nat : f[n + 1] = h[f[n]]
    BY <2>1, <2>2
  <2> QED BY <2>1, <2>3
<1>2. ASSUME NEW n \in Nat PROVE f[n] = IF n = 0 THEN 1 ELSE 10 * f[n - 1]
  <2>1. CASE n = 0
    BY <1>1, <2>1
  <2>2. CASE n # 0
    <3>1. n - 1 \in Nat /\ (n - 1) + 1 = n
      BY <2>2
    <3>2. f[(n - 1) + 1] = g[f[n - 1]]
      BY <1>1, <3>1
    <3> QED BY <3>1, <3>2, <2>2
  <2> QED BY <2>1, <2>2
<1>3. D(f)
  BY <1>2
<1>4. D(powerOfTen)
  BY <1>3, Zenon DEF powerOfTen
<1>5. \A n \in Nat : powerOfTen[n] = IF n = 0 THEN 1 ELSE 10 * powerOfTen[n - 1]
  <2> HIDE DEF powerOfTen
  <2> QED BY <1>4
<1>6. powerOfTen = [n \in Nat |-> powerOfTen[n]]
  BY <1>4
<1> HIDE DEF powerOfTen, D
<1>7. powerOfTen[0] = 1
  BY <1>5
<1>8. ASSUME NEW n \in Nat PROVE powerOfTen[n + 1] = 10 * powerOfTen[n]
  <2>1. powerOfTen[n + 1] = 10 * powerOfTen[(n + 1) - 1]
    BY <1>5
  <2>2. (n + 1) - 1 = n
    OBVIOUS
  <2> QED BY <2>1, <2>2
<1>9. \A n \in Nat : powerOfTen[n] \in P
  <2> DEFINE B == {n \in Nat : powerOfTen[n] \in P}
  <2>1. 0 \in B
    BY <1>7
  <2>2. ASSUME NEW n \in Nat, n \in B PROVE n + 1 \in B
    BY <1>8, <2>2
  <2>3. \A n \in Nat : n \in B
    <3> HIDE DEF B
    <3> QED BY <2>1, <2>2, SetInduction
  <2> QED BY <2>3
<1> QED BY <1>6, <1>7, <1>8, <1>9

(***************************************************************************)
(* The ledger: commitments and records                                     *)
(***************************************************************************)

(* Accepted RAG commitments and query records correspond, both ways. *)
IInv == TypeOK /\ OneBindingPerQuery /\ RecordsBackedByCommitment

(* Every step of the chain or of the owner: what is settled stays as it is. *)
Housekeeping ==
  /\ UNCHANGED <<records, settled>>
  /\ TypeOK'

(* The two kinds of commitment are never equal, and a RAG commitment       *)
(* determines its token, proof and query (keccak256 of distinct ABI        *)
(* encodings in submitAttestation and verifyAndSettleRAG).                 *)
LEMMA CommitmentsInjective ==
  /\ \A h \in AttestedHashes, z \in Zkps \cup {NoZkp}, t \in Tokens, p \in Zkps, q \in Queries :
       AttestId(h, z) # RagId(t, p, q)
  /\ \A t1, t2 \in Tokens, p1, p2 \in Zkps, q1, q2 \in Queries :
       RagId(t1, p1, q1) = RagId(t2, p2, q2) => t1 = t2 /\ p1 = p2 /\ q1 = q2
  BY DEF AttestId, RagId

(* The owner's calls and the external contracts touch no commitment.  *)
LEMMA HousekeepingSteps ==
  ASSUME TypeOK,
         \/ \E a \in Accounts, d \in Digests \cup {NoDigest} : updateApprovedImageDigest(a, d)
         \/ \E a \in Accounts, f \in FeedIds \cup {NoFeed} : updatePriceFeedId(a, f)
         \/ NewBlock
         \/ \E f \in FeedIds, r \in Readings : FtsoPublish(f, r)
         \/ \E r \in Rounds : RelayFinalize(r)
         \/ \E names \in SUBSET Contracts : RegistryUpdate(names)
         \/ UNCHANGED vars
  PROVE  Housekeeping
<1> USE DEF TypeOK, Housekeeping, config, records, settled, external
<1>1. CASE \E a \in Accounts, d \in Digests \cup {NoDigest} : updateApprovedImageDigest(a, d)
  BY <1>1 DEF updateApprovedImageDigest
<1>2. CASE \E a \in Accounts, f \in FeedIds \cup {NoFeed} : updatePriceFeedId(a, f)
  BY <1>2 DEF updatePriceFeedId
<1>3. CASE NewBlock
  BY <1>3 DEF NewBlock
<1>4. CASE \E f \in FeedIds, r \in Readings : FtsoPublish(f, r)
  BY <1>4 DEF FtsoPublish
<1>5. CASE \E r \in Rounds : RelayFinalize(r)
  BY <1>5 DEF RelayFinalize
<1>6. CASE \E names \in SUBSET Contracts : RegistryUpdate(names)
  BY <1>6 DEF RegistryUpdate
<1>7. CASE UNCHANGED vars
  BY <1>7 DEF vars
<1> QED BY <1>1, <1>2, <1>3, <1>4, <1>5, <1>6, <1>7

(* submitAttestation adds one fresh commitment that belongs to no query. *)
LEMMA AttestStep ==
  ASSUME TypeOK, NEW h \in AttestedHashes, NEW p \in Zkps \cup {NoZkp}, NEW b \in BOOLEAN,
         submitAttestation(h, p, b)
  PROVE  /\ TypeOK'
         /\ AttestId(h, p) \in AttestIds
         /\ AttestId(h, p) \notin submittedProofs
         /\ submittedProofs' = submittedProofs \cup {AttestId(h, p)}
         /\ latestProofHash' = AttestId(h, p)
         /\ UNCHANGED verifiedQueries
<1>1. AttestId(h, p) \in AttestIds
  BY DEF AttestIds
<1> QED BY <1>1 DEF submitAttestation, acceptCommitment, TypeOK, config, settled, external

(* verifyAndSettleRAG adds one fresh commitment of the query, and the      *)
(* record it leaves behind is the old one or a new one, with the binding   *)
(* of that commitment either way.                                          *)
LEMMA SettleStep ==
  ASSUME TypeOK, NEW t \in Tokens, NEW p \in Zkps \cup {NoZkp}, NEW q \in Queries \cup {NoQuery},
         NEW n \in Quantities, NEW w \in FdcProofs,
         verifyAndSettleRAG(t, p, q, n, w)
  PROVE  /\ TypeOK'
         /\ p \in Zkps /\ q \in Queries
         /\ RagId(t, p, q) \in RagIds
         /\ RagId(t, p, q) \notin submittedProofs
         /\ submittedProofs' = submittedProofs \cup {RagId(t, p, q)}
         /\ latestProofHash' = RagId(t, p, q)
         /\ Claims[t].digest \in Digests /\ Claims[t].swname /\ ~Claims[t].empty
         /\ BindingHash(q, p, Claims[t].digest) \in BindingHashes
         /\ \/ /\ verifiedQueries[q].verified
               /\ verifiedQueries[q].bindingHash = BindingHash(q, p, Claims[t].digest)
               /\ UNCHANGED verifiedQueries
            \/ /\ ~verifiedQueries[q].verified
               /\ verifiedQueries' = [verifiedQueries EXCEPT
                      ![q] = Record(BindingHash(q, p, Claims[t].digest), now)]
<1>1. p \in Zkps /\ q \in Queries
  BY DEF verifyAndSettleRAG
<1>2. RagId(t, p, q) \in RagIds
  BY <1>1 DEF RagIds
<1>3. Claims[t].digest \in Digests /\ Claims[t].swname /\ ~Claims[t].empty
  BY DEF verifyAndSettleRAG, AuthorizedToken, TypeOK
<1>4. BindingHash(q, p, Claims[t].digest) \in BindingHashes
  BY <1>1, <1>3 DEF BindingHash, BindingHashes
<1>5. \/ /\ verifiedQueries[q].verified
         /\ verifiedQueries[q].bindingHash = BindingHash(q, p, Claims[t].digest)
         /\ UNCHANGED verifiedQueries
      \/ /\ ~verifiedQueries[q].verified
         /\ verifiedQueries' = [verifiedQueries EXCEPT
                ![q] = Record(BindingHash(q, p, Claims[t].digest), now)]
  BY DEF verifyAndSettleRAG, recordQuery
<1>6. /\ RagId(t, p, q) \notin submittedProofs
      /\ submittedProofs' = submittedProofs \cup {RagId(t, p, q)}
      /\ latestProofHash' = RagId(t, p, q)
  BY DEF verifyAndSettleRAG, acceptCommitment
<1>7. verifiedQueries' \in [Queries -> QueryRecords]
  <2>1. Record(BindingHash(q, p, Claims[t].digest), now) \in QueryRecords
    BY <1>4 DEF TypeOK, Record, QueryRecords
  <2> QED BY <1>1, <1>5, <2>1 DEF TypeOK
<1>8. lastSettlementPrice' \in Nat /\ lastSettlementValuation' \in Nat
  <2>1. /\ priceFeedId # NoFeed
        /\ lastSettlementPrice' = feed[priceFeedId].value
        /\ lastSettlementValuation' \in 0 .. MaxUint
    BY DEF verifyAndSettleRAG, settleAgainstFeed, ScaleFits
  <2>2. feed[priceFeedId] \in [value : Nat, decimals : Int, timestamp : Nat]
    BY <2>1, ConstantsAssumption DEF TypeOK
  <2> QED BY <2>1, <2>2, ConstantsAssumption
<1>9. latestVerifiedWeb2Hash' \in Rounds \cup {NoRoot}
  BY ConstantsAssumption DEF verifyAndSettleRAG, verifiedWeb2Root
<1>10. UNCHANGED <<config, now, external>>
  BY DEF verifyAndSettleRAG
<1>11. TypeOK'
  BY <1>2, <1>6, <1>7, <1>8, <1>9, <1>10 DEF TypeOK, config, external
<1> QED BY <1>1, <1>2, <1>3, <1>4, <1>5, <1>6, <1>11

(* Truncating division by the scale, or multiplication by it: what        *)
(* _scaleValuation returns for every quantity, price and number of         *)
(* decimals.                                                               *)
LEMMA Scaling ==
  ASSUME NEW n \in Nat, NEW price \in Nat, NEW d \in Int
  PROVE  LET scale == powerOfTen[magnitude(d)]
             v     == scaleValuation(n, price, d)
         IN  IF d >= 0 THEN scale * v <= n * price /\ n * price < scale * (v + 1)
                       ELSE v = scale * (n * price)
<1>1. powerOfTen[magnitude(d)] \in Nat \ {0}
  BY PowersOfTen DEF magnitude
<1>2. n * price \in Nat
  OBVIOUS
<1>3. \A a \in Nat, s \in Nat \ {0} : s * (a \div s) <= a /\ a < s * ((a \div s) + 1)
  OBVIOUS
<1>4. CASE d >= 0
  <2>1. scaleValuation(n, price, d) = (n * price) \div powerOfTen[magnitude(d)]
    BY <1>4 DEF scaleValuation, magnitude
  <2> QED BY <1>1, <1>2, <1>3, <1>4, <2>1
<1>5. CASE ~(d >= 0)
  <2>1. scaleValuation(n, price, d) = (n * price) * powerOfTen[magnitude(d)]
    BY <1>5 DEF scaleValuation, magnitude
  <2>2. \A a, s \in Nat : a * s = s * a
    OBVIOUS
  <2> QED BY <1>1, <1>2, <1>5, <2>1, <2>2
<1> QED BY <1>4, <1>5

(* Every call but verifyAndSettleRAG, and every step of the environment,   *)
(* emits no QuerySettled.                                                  *)
LEMMA QuietSteps ==
  ASSUME \/ \E a \in Accounts, d \in Digests \cup {NoDigest} : updateApprovedImageDigest(a, d)
         \/ \E a \in Accounts, f \in FeedIds \cup {NoFeed} : updatePriceFeedId(a, f)
         \/ \E h \in AttestedHashes, p \in Zkps \cup {NoZkp}, b \in BOOLEAN :
              submitAttestation(h, p, b)
         \/ NewBlock
         \/ \E f \in FeedIds, r \in Readings : FtsoPublish(f, r)
         \/ \E r \in Rounds : RelayFinalize(r)
         \/ \E names \in SUBSET Contracts : RegistryUpdate(names)
  PROVE  \A e \in emitted' : e.event # "QuerySettled"
<1>1. CASE \E a \in Accounts, d \in Digests \cup {NoDigest} : updateApprovedImageDigest(a, d)
  BY <1>1 DEF updateApprovedImageDigest, ImageDigestUpdated
<1>2. CASE \E a \in Accounts, f \in FeedIds \cup {NoFeed} : updatePriceFeedId(a, f)
  BY <1>2 DEF updatePriceFeedId, PriceFeedIdUpdated
<1>3. CASE \E h \in AttestedHashes, p \in Zkps \cup {NoZkp}, b \in BOOLEAN :
             submitAttestation(h, p, b)
  BY <1>3 DEF submitAttestation, AttestationSubmitted
<1>4. CASE \/ NewBlock
           \/ \E f \in FeedIds, r \in Readings : FtsoPublish(f, r)
           \/ \E r \in Rounds : RelayFinalize(r)
           \/ \E names \in SUBSET Contracts : RegistryUpdate(names)
  BY <1>4 DEF NewBlock, FtsoPublish, RelayFinalize, RegistryUpdate
<1> QED BY <1>1, <1>2, <1>3, <1>4

(* The one QuerySettled of a settlement, with a live reading behind it.    *)
LEMMA SettlementEvent ==
  ASSUME TypeOK, NEW t \in Tokens, NEW p \in Zkps \cup {NoZkp}, NEW q \in Queries \cup {NoQuery},
         NEW n \in Quantities, NEW w \in FdcProofs,
         verifyAndSettleRAG(t, p, q, n, w)
  PROVE  LET r == feed[priceFeedId]
         IN  /\ priceFeedId \in FeedIds
             /\ r.value \in Nat /\ r.decimals \in Int /\ r.timestamp \in Nat
             /\ LiveFeed(priceFeedId)
             /\ lastSettlementPrice' = r.value
             /\ lastSettlementValuation' = scaleValuation(n, r.value, r.decimals)
             /\ lastSettlementValuation' \in 0 .. MaxUint
             /\ \A e \in emitted' : e.event = "QuerySettled" =>
                  e = QuerySettled(q, priceFeedId, r, n, lastSettlementValuation')
<1> DEFINE r == feed[priceFeedId]
<1>1. settleAgainstFeed(q, n)
  BY DEF verifyAndSettleRAG
<1>2. priceFeedId \in FeedIds
  BY <1>1 DEF settleAgainstFeed, TypeOK
<1>3. r \in [value : Nat, decimals : Int, timestamp : Nat]
  BY <1>2, ConstantsAssumption DEF TypeOK
<1>4. /\ lastSettlementPrice' = r.value
      /\ lastSettlementValuation' = scaleValuation(n, r.value, r.decimals)
      /\ lastSettlementValuation' \in 0 .. MaxUint
      /\ LiveFeed(priceFeedId)
  BY <1>1 DEF settleAgainstFeed, ScaleFits
<1>5. emitted' = {PriceSettled(priceFeedId, r),
                  QuerySettled(q, priceFeedId, r, n, lastSettlementValuation'),
                  ProofVerified(q, approvedImageDigest)}
  BY <1>1 DEF settleAgainstFeed
<1>6. /\ PriceSettled(priceFeedId, r).event # "QuerySettled"
      /\ ProofVerified(q, approvedImageDigest).event # "QuerySettled"
  BY DEF PriceSettled, ProofVerified
<1> QED BY <1>2, <1>3, <1>4, <1>5, <1>6

(* The initial state of the constructor satisfies the inductive invariant. *)
LEMMA InitIInv == Init => IInv
<1> SUFFICES ASSUME Init PROVE IInv
  OBVIOUS
<1>1. TypeOK
  BY DEF Init, TypeOK, QueryRecords, NoRecord
<1>2. OneBindingPerQuery
  BY DEF Init, OneBindingPerQuery
<1>3. RecordsBackedByCommitment
  BY DEF Init, RecordsBackedByCommitment, NoRecord
<1> QED BY <1>1, <1>2, <1>3 DEF IInv

(* Every transaction of VerifiableRAG.sol, and every step of the contracts *)
(* it reads, preserves the inductive invariant.                            *)
LEMMA NextIInv == IInv /\ [Next]_vars => IInv'
<1> SUFFICES ASSUME IInv, [Next]_vars PROVE IInv'
  OBVIOUS
<1> USE DEF IInv
<1>1. ASSUME Housekeeping PROVE IInv'
  <2>1. OneBindingPerQuery'
    BY <1>1 DEF Housekeeping, records, OneBindingPerQuery
  <2>2. RecordsBackedByCommitment'
    BY <1>1 DEF Housekeeping, records, RecordsBackedByCommitment
  <2> QED BY <1>1, <2>1, <2>2 DEF Housekeeping, records
<1>2. ASSUME NEW h \in AttestedHashes, NEW p \in Zkps \cup {NoZkp}, NEW b \in BOOLEAN,
             submitAttestation(h, p, b)
      PROVE  IInv'
  <2>1. /\ TypeOK'
        /\ submittedProofs' = submittedProofs \cup {AttestId(h, p)}
        /\ UNCHANGED verifiedQueries
    BY <1>2, AttestStep
  <2>2. OneBindingPerQuery'
    BY <2>1, CommitmentsInjective DEF OneBindingPerQuery
  <2>3. RecordsBackedByCommitment'
    BY <2>1 DEF RecordsBackedByCommitment
  <2> QED BY <2>1, <2>2, <2>3
<1>3. ASSUME NEW t \in Tokens, NEW p \in Zkps \cup {NoZkp}, NEW q \in Queries \cup {NoQuery},
             NEW n \in Quantities, NEW w \in FdcProofs, verifyAndSettleRAG(t, p, q, n, w)
      PROVE  IInv'
  <2> DEFINE b == BindingHash(q, p, Claims[t].digest)
  <2>1. /\ TypeOK'
        /\ p \in Zkps /\ q \in Queries
        /\ submittedProofs' = submittedProofs \cup {RagId(t, p, q)}
        /\ Claims[t].swname /\ ~Claims[t].empty
        /\ \/ /\ verifiedQueries[q].verified /\ verifiedQueries[q].bindingHash = b
              /\ UNCHANGED verifiedQueries
           \/ /\ ~verifiedQueries[q].verified
              /\ verifiedQueries' = [verifiedQueries EXCEPT ![q] = Record(b, now)]
    BY <1>3, SettleStep
  <2>2. verifiedQueries'[q].verified /\ verifiedQueries'[q].bindingHash = b
    BY <2>1 DEF TypeOK, Record
  <2>3. \A r \in Queries : r # q => verifiedQueries'[r] = verifiedQueries[r]
    BY <2>1 DEF TypeOK
  <2>4. verifiedQueries[q].verified => verifiedQueries'[q] = verifiedQueries[q]
    BY <2>1
  <2>5. OneBindingPerQuery'
    <3> SUFFICES ASSUME NEW t1 \in Tokens, NEW p1 \in Zkps, NEW q1 \in Queries,
                        RagId(t1, p1, q1) \in submittedProofs'
                 PROVE  /\ verifiedQueries'[q1].verified
                        /\ verifiedQueries'[q1].bindingHash
                             = BindingHash(q1, p1, Claims[t1].digest)
      BY DEF OneBindingPerQuery
    <3>1. CASE RagId(t1, p1, q1) = RagId(t, p, q)
      <4>1. t1 = t /\ p1 = p /\ q1 = q
        BY <3>1, <2>1, CommitmentsInjective
      <4> QED BY <4>1, <2>2
    <3>2. CASE RagId(t1, p1, q1) \in submittedProofs
      BY <3>2, <2>3, <2>4 DEF OneBindingPerQuery
    <3> QED BY <3>1, <3>2, <2>1
  <2>6. RecordsBackedByCommitment'
    <3> SUFFICES ASSUME NEW r \in Queries, verifiedQueries'[r].verified
                 PROVE  \E t1 \in Tokens, p1 \in Zkps :
                          /\ RagId(t1, p1, r) \in submittedProofs'
                          /\ Claims[t1].swname /\ ~Claims[t1].empty
                          /\ verifiedQueries'[r].bindingHash
                               = BindingHash(r, p1, Claims[t1].digest)
      BY DEF RecordsBackedByCommitment
    <3>1. CASE r = q
      BY <3>1, <2>1, <2>2
    <3>2. CASE r # q
      BY <3>2, <2>1, <2>3 DEF RecordsBackedByCommitment
    <3> QED BY <3>1, <3>2
  <2> QED BY <2>1, <2>5, <2>6
<1> QED BY <1>1, <1>2, <1>3, HousekeepingSteps DEF Next

(* The storage of VerifiableRAG is well typed in every reachable state; in *)
(* particular the approved image digest is never bytes32(0).               *)
THEOREM TypeCorrect == Spec => []TypeOK
<1>1. IInv => TypeOK
  BY DEF IInv
<1> QED BY InitIInv, NextIInv, <1>1, PTL DEF Spec

(* No query ever settles under two proofs or two images, for any number of *)
(* tokens, rotations and replays of verifyAndSettleRAG.                    *)
THEOREM QueriesBoundOnce == Spec => []OneBindingPerQuery
<1>1. IInv => OneBindingPerQuery
  BY DEF IInv
<1> QED BY InitIInv, NextIInv, <1>1, PTL DEF Spec

(* Every verified record has an accepted commitment with valid claims.     *)
THEOREM RecordsBacked == Spec => []RecordsBackedByCommitment
<1>1. IInv => RecordsBackedByCommitment
  BY DEF IInv
<1> QED BY InitIInv, NextIInv, <1>1, PTL DEF Spec

(* The record of a verified query never changes again (verifyAndSettleRAG  *)
(* writes it only in the branch where record.verified is false).           *)
THEOREM WriteOnce == Spec => RecordsWriteOnce
<1>1. ASSUME IInv, [Next]_vars
      PROVE  \A q \in Queries : verifiedQueries[q].verified =>
                                 verifiedQueries'[q] = verifiedQueries[q]
  <2>1. ASSUME Housekeeping PROVE UNCHANGED verifiedQueries
    BY <2>1 DEF Housekeeping, records
  <2>2. ASSUME NEW h \in AttestedHashes, NEW p \in Zkps \cup {NoZkp}, NEW b \in BOOLEAN,
               submitAttestation(h, p, b)
        PROVE  UNCHANGED verifiedQueries
    BY <2>2 DEF submitAttestation
  <2>3. ASSUME NEW t \in Tokens, NEW p \in Zkps \cup {NoZkp}, NEW q \in Queries \cup {NoQuery},
               NEW n \in Quantities, NEW w \in FdcProofs, verifyAndSettleRAG(t, p, q, n, w),
               NEW r \in Queries, verifiedQueries[r].verified
        PROVE  verifiedQueries'[r] = verifiedQueries[r]
    BY <1>1, <2>3, SettleStep DEF IInv, TypeOK
  <2> QED BY <1>1, <2>1, <2>2, <2>3, HousekeepingSteps DEF Next, IInv
<1> QED BY <1>1, InitIInv, NextIInv, PTL DEF Spec, RecordsWriteOnce

(* Replay protection: a step accepts one fresh commitment and points       *)
(* latestProofHash at it, or changes no record and settles nothing.        *)
THEOREM ReplayProtection == Spec => CommitmentsAcceptedOnce
<1>1. ASSUME IInv, [Next]_vars
      PROVE  \/ /\ latestProofHash' \notin submittedProofs
                /\ submittedProofs' = submittedProofs \cup {latestProofHash'}
             \/ UNCHANGED <<records, settled>>
  <2>1. ASSUME Housekeeping PROVE UNCHANGED <<records, settled>>
    BY <2>1 DEF Housekeeping, records
  <2>2. ASSUME NEW h \in AttestedHashes, NEW p \in Zkps \cup {NoZkp}, NEW b \in BOOLEAN,
               submitAttestation(h, p, b)
        PROVE  /\ latestProofHash' \notin submittedProofs
               /\ submittedProofs' = submittedProofs \cup {latestProofHash'}
    BY <1>1, <2>2, AttestStep DEF IInv
  <2>3. ASSUME NEW t \in Tokens, NEW p \in Zkps \cup {NoZkp}, NEW q \in Queries \cup {NoQuery},
               NEW n \in Quantities, NEW w \in FdcProofs, verifyAndSettleRAG(t, p, q, n, w)
        PROVE  /\ latestProofHash' \notin submittedProofs
               /\ submittedProofs' = submittedProofs \cup {latestProofHash'}
    BY <1>1, <2>3, SettleStep DEF IInv
  <2> QED BY <1>1, <2>1, <2>2, <2>3, HousekeepingSteps DEF Next, IInv
<1> QED BY <1>1, InitIInv, NextIInv, PTL DEF Spec, CommitmentsAcceptedOnce

(* The contract implements QueryLedger: every transaction that accepts a   *)
(* commitment either concerns no query or binds the commitment's query to  *)
(* the commitment's own proof and image, and no query is ever rebound.     *)
THEOREM Refinement == Spec => ImplementsLedger
<1> DEFINE bound(q) == IF verifiedQueries[q].verified THEN verifiedQueries[q].bindingHash
                                                      ELSE NoHash
<1>1. Init => Ledger!Init
  BY DEF Init, Ledger!Init, NoRecord
<1>2. ASSUME IInv, [Next]_vars PROVE [Ledger!Next]_(Ledger!vars)
  <2>1. ASSUME Housekeeping PROVE UNCHANGED Ledger!vars
    BY <2>1 DEF Housekeeping, records, Ledger!vars
  <2>2. ASSUME NEW h \in AttestedHashes, NEW p \in Zkps \cup {NoZkp}, NEW b \in BOOLEAN,
               submitAttestation(h, p, b)
        PROVE  Ledger!Next
    <3>1. /\ AttestId(h, p) \in AttestIds
          /\ AttestId(h, p) \notin submittedProofs
          /\ submittedProofs' = submittedProofs \cup {AttestId(h, p)}
          /\ UNCHANGED verifiedQueries
      BY <1>2, <2>2, AttestStep DEF IInv
    <3>2. Ledger!Attest(AttestId(h, p))
      BY <3>1 DEF Ledger!Attest, Ledger!Accept
    <3> QED BY <3>1, <3>2 DEF Ledger!Next
  <2>3. ASSUME NEW t \in Tokens, NEW p \in Zkps \cup {NoZkp}, NEW q \in Queries \cup {NoQuery},
               NEW n \in Quantities, NEW w \in FdcProofs, verifyAndSettleRAG(t, p, q, n, w)
        PROVE  Ledger!Next
    <3> DEFINE c == RagId(t, p, q)
               b == BindingHash(q, p, Claims[t].digest)
    <3>1. /\ c \in RagIds /\ q \in Queries
          /\ c \notin submittedProofs
          /\ submittedProofs' = submittedProofs \cup {c}
          /\ \/ /\ verifiedQueries[q].verified /\ verifiedQueries[q].bindingHash = b
                /\ UNCHANGED verifiedQueries
             \/ /\ ~verifiedQueries[q].verified
                /\ verifiedQueries' = [verifiedQueries EXCEPT ![q] = Record(b, now)]
      BY <1>2, <2>3, SettleStep DEF IInv
    <3>2. bound(q) \in {NoHash, b}
      BY <3>1
    <3>3. [r \in Queries |-> bound(r)]' = [[r \in Queries |-> bound(r)] EXCEPT ![q] = b]
      <4>1. ASSUME NEW r \in Queries PROVE bound(r)' = IF r = q THEN b ELSE bound(r)
        BY <1>2, <3>1 DEF IInv, TypeOK, Record
      <4> QED BY <4>1
    <3>4. Ledger!Accept(c)
      BY <3>1 DEF Ledger!Accept
    <3>5. Ledger!Bind(q, b)
      BY <3>1, <3>2, <3>3 DEF Ledger!Bind
    <3>6. /\ [x \in RagIds |-> x[4]][c] = q
          /\ [x \in RagIds |-> BindingHash(x[4], x[3], Claims[x[2]].digest)][c] = b
      <4>1. c[2] = t /\ c[3] = p /\ c[4] = q
        BY DEF RagId
      <4> HIDE DEF c
      <4> QED BY <3>1, <4>1
    <3>7. Ledger!Settle(c)
      BY <3>4, <3>5, <3>6 DEF Ledger!Settle
    <3> QED BY <3>1, <3>7 DEF Ledger!Next
  <2> QED BY <1>2, <2>1, <2>2, <2>3, HousekeepingSteps DEF Next, IInv
<1> QED BY <1>1, <1>2, InitIInv, NextIInv, PTL DEF Spec, ImplementsLedger, Ledger!Spec

(* The FDC gate of verifyAndSettleRAG: whatever was settled, the recorded  *)
(* Web2 root was published for a finalized round.                          *)
THEOREM Web2Gate == Spec => []Web2GatePrecedesSettlement
<1> DEFINE Inv == TypeOK /\ Web2GatePrecedesSettlement
<1>1. Init => Inv
  BY InitIInv DEF IInv, Init, Web2GatePrecedesSettlement
<1>2. ASSUME Inv, [Next]_vars PROVE Inv'
  <2>1. CASE \/ \E a \in Accounts, d \in Digests \cup {NoDigest} : updateApprovedImageDigest(a, d)
             \/ \E a \in Accounts, f \in FeedIds \cup {NoFeed} : updatePriceFeedId(a, f)
             \/ NewBlock
             \/ \E f \in FeedIds, r \in Readings : FtsoPublish(f, r)
             \/ \E r \in Rounds : RelayFinalize(r)
             \/ \E names \in SUBSET Contracts : RegistryUpdate(names)
             \/ UNCHANGED vars
    <3>1. Housekeeping
      BY <1>2, <2>1, HousekeepingSteps
    <3>2. finalized \subseteq finalized'
      BY <2>1 DEF updateApprovedImageDigest, updatePriceFeedId, NewBlock, FtsoPublish,
                  RelayFinalize, RegistryUpdate, vars, external
    <3> QED BY <1>2, <3>1, <3>2 DEF Housekeeping, records, Web2GatePrecedesSettlement
  <2>2. ASSUME NEW h \in AttestedHashes, NEW p \in Zkps \cup {NoZkp}, NEW b \in BOOLEAN,
               submitAttestation(h, p, b)
        PROVE  Inv'
    <3>1. AttestId(h, p) \notin RagIds
      BY CommitmentsInjective DEF RagIds
    <3>2. /\ TypeOK' /\ submittedProofs' = submittedProofs \cup {AttestId(h, p)}
          /\ UNCHANGED <<latestVerifiedWeb2Hash, finalized>>
      BY <1>2, <2>2, AttestStep DEF submitAttestation, external
    <3> QED BY <1>2, <3>1, <3>2 DEF Web2GatePrecedesSettlement
  <2>3. ASSUME NEW t \in Tokens, NEW p \in Zkps \cup {NoZkp}, NEW q \in Queries \cup {NoQuery},
               NEW n \in Quantities, NEW w \in FdcProofs, verifyAndSettleRAG(t, p, q, n, w)
        PROVE  Inv'
    <3>1. TypeOK'
      BY <1>2, <2>3, SettleStep
    <3>2. latestVerifiedWeb2Hash' \in finalized'
      BY <2>3 DEF verifyAndSettleRAG, verifiedWeb2Root, external
    <3> QED BY <3>1, <3>2 DEF Web2GatePrecedesSettlement
  <2> QED BY <1>2, <2>1, <2>2, <2>3 DEF Next
<1> QED BY <1>1, <1>2, PTL DEF Spec

(* A settlement reads the configured feed, at most REALTIME_MAX_AGE away   *)
(* from the block time in either direction, while both Flare contracts     *)
(* resolve (the gates of _liveFeed and _verifiedWeb2Root).                 *)
THEOREM FreshSettlements == Spec => SettlementsUseFreshFeed
<1>1. ASSUME TypeOK, [Next]_vars
      PROVE  \A e \in emitted' : (e.event = "QuerySettled" /\ emitted' # emitted) =>
               /\ priceFeedId \in FeedIds /\ registry = Contracts
               /\ now - feed[priceFeedId].timestamp \in (-MaxAge) .. MaxAge
               /\ lastSettlementPrice' = feed[priceFeedId].value
  <2> SUFFICES ASSUME NEW e \in emitted', e.event = "QuerySettled", emitted' # emitted
               PROVE  /\ priceFeedId \in FeedIds /\ registry = Contracts
                      /\ now - feed[priceFeedId].timestamp \in (-MaxAge) .. MaxAge
                      /\ lastSettlementPrice' = feed[priceFeedId].value
    OBVIOUS
  <2>1. ASSUME NEW t \in Tokens, NEW p \in Zkps \cup {NoZkp}, NEW q \in Queries \cup {NoQuery},
               NEW n \in Quantities, NEW w \in FdcProofs, verifyAndSettleRAG(t, p, q, n, w)
        PROVE  /\ priceFeedId \in FeedIds /\ registry = Contracts
               /\ now - feed[priceFeedId].timestamp \in (-MaxAge) .. MaxAge
               /\ lastSettlementPrice' = feed[priceFeedId].value
    <3>1. /\ priceFeedId \in FeedIds
          /\ feed[priceFeedId].timestamp \in Nat
          /\ LiveFeed(priceFeedId)
          /\ lastSettlementPrice' = feed[priceFeedId].value
      BY <1>1, <2>1, SettlementEvent
    <3>2. registry = Contracts
      BY <1>1, <2>1, <3>1 DEF verifyAndSettleRAG, verifiedWeb2Root, LiveFeed, TypeOK, Contracts
    <3>3. now - feed[priceFeedId].timestamp \in (-MaxAge) .. MaxAge
      BY <1>1, <3>1, ConstantsAssumption DEF LiveFeed, TypeOK
    <3> QED BY <3>1, <3>2, <3>3
  <2>2. \E t \in Tokens, p \in Zkps \cup {NoZkp}, q \in Queries \cup {NoQuery},
           n \in Quantities, w \in FdcProofs : verifyAndSettleRAG(t, p, q, n, w)
    BY <1>1, QuietSteps DEF Next, vars
  <2> QED BY <2>1, <2>2
<1> QED BY <1>1, TypeCorrect, PTL DEF Spec, SettlementsUseFreshFeed

(* The storage pointers are what a consumer recomputes from the event of   *)
(* the last settlement, with truncation in the right direction for every   *)
(* scale, and the query is bound to the image approved at that moment.     *)
THEOREM SettlementRecomputable == Spec => []SettlementMatchesEvent
<1>1. Init => SettlementMatchesEvent
  BY DEF Init, SettlementMatchesEvent
<1>2. ASSUME TypeOK, SettlementMatchesEvent, [Next]_vars PROVE SettlementMatchesEvent'
  <2>1. CASE \A e \in emitted' : e.event # "QuerySettled"
    BY <2>1 DEF SettlementMatchesEvent
  <2>2. CASE UNCHANGED vars
    BY <1>2, <2>2 DEF SettlementMatchesEvent, vars, config, records, settled
  <2>3. ASSUME NEW t \in Tokens, NEW p \in Zkps \cup {NoZkp}, NEW q \in Queries \cup {NoQuery},
               NEW n \in Quantities, NEW w \in FdcProofs, verifyAndSettleRAG(t, p, q, n, w)
        PROVE  SettlementMatchesEvent'
    <3> DEFINE r == feed[priceFeedId]
               v == scaleValuation(n, r.value, r.decimals)
               b == BindingHash(q, p, Claims[t].digest)
               scale == powerOfTen[magnitude(r.decimals)]
    <3>1. /\ r.value \in Nat /\ r.decimals \in Int
          /\ lastSettlementPrice' = r.value /\ lastSettlementValuation' = v
          /\ v \in 0 .. MaxUint
          /\ \A e \in emitted' : e.event = "QuerySettled" =>
               e = QuerySettled(q, priceFeedId, r, n, v)
      BY <1>2, <2>3, SettlementEvent
    <3>2. n \in Nat /\ n > 0
      BY <2>3, ConstantsAssumption DEF verifyAndSettleRAG, settleAgainstFeed
    <3>3. v <= MaxUint
      BY <3>1, ConstantsAssumption
    <3>4. IF r.decimals >= 0 THEN scale * v <= n * r.value /\ n * r.value < scale * (v + 1)
                             ELSE v = scale * (n * r.value)
      BY <3>1, <3>2, Scaling
    <3>5. verifiedQueries'[q].bindingHash = b
      <4>1. /\ q \in Queries
            /\ \/ /\ verifiedQueries[q].bindingHash = b
                  /\ UNCHANGED verifiedQueries
               \/ verifiedQueries' = [verifiedQueries EXCEPT ![q] = Record(b, now)]
        BY <1>2, <2>3, SettleStep
      <4> QED BY <1>2, <4>1 DEF TypeOK, Record
    <3>6. b[3] = approvedImageDigest'
      BY <2>3 DEF verifyAndSettleRAG, AuthorizedToken, BindingHash, config
    <3> HIDE DEF v, b, scale
    <3> SUFFICES ASSUME NEW e \in emitted', e.event = "QuerySettled"
                 PROVE  /\ lastSettlementPrice' = e.price
                        /\ lastSettlementValuation' = e.valuation
                        /\ e.quantity > 0
                        /\ e.valuation <= MaxUint
                        /\ IF e.decimals >= 0
                           THEN /\ powerOfTen[magnitude(e.decimals)] * e.valuation
                                     <= e.quantity * e.price
                                /\ e.quantity * e.price
                                     < powerOfTen[magnitude(e.decimals)] * (e.valuation + 1)
                           ELSE e.valuation
                                  = powerOfTen[magnitude(e.decimals)] * (e.quantity * e.price)
                        /\ verifiedQueries'[e.query].bindingHash[3] = approvedImageDigest'
      BY DEF SettlementMatchesEvent
    <3>7. /\ e.query = q /\ e.price = r.value /\ e.decimals = r.decimals
          /\ e.quantity = n /\ e.valuation = v
      BY <3>1 DEF QuerySettled
    <3>8. powerOfTen[magnitude(e.decimals)] = scale
      BY <3>7 DEF scale
    <3> QED BY <3>1, <3>2, <3>3, <3>4, <3>5, <3>6, <3>7, <3>8
  <2> QED BY <1>2, <2>1, <2>2, <2>3, QuietSteps DEF Next
<1> QED BY <1>1, <1>2, TypeCorrect, PTL DEF Spec
=============================================================================
