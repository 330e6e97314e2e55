-------------------------- MODULE ZkTlsRelayer_proofs --------------------------
(***************************************************************************)
(* Proofs about the two ways onto the chain: the ZkTlsRelayer contract, for *)
(* any enclaves, urls, clocks and windows, and the FlareClient that sends   *)
(* transactions there, for any callers, endpoints and thresholds.           *)
(***************************************************************************)
EXTENDS ZkTlsRelayer, FlareClient, SequenceTheorems, WellFoundedInduction, TLAPS

(* The records and the consumed digests both rest on signed proofs. *)
IInv == TypeOK /\ RecordAttestedInWindow /\ OnlySignedDigestsConsumed

(* A relay that succeeds carried a proof as an enclave signed it: altered  *)
(* payloads recover no registered identity (the gate at the end of         *)
(* relayVerifiedWeb2Data).                                                 *)
LEMMA RelayedProofIsSigned ==
  ASSUME TypeOK, NEW p \in Carried, AuthorizedSigner(p.signer)
  PROVE  p \in signed
<1>1. p.signer \in Keys
  BY DEF AuthorizedSigner, TypeOK
<1>2. ASSUME p \in Altered PROVE p.signer \in {NoSigner, Unknown}
  BY <1>2 DEF Altered
<1> QED BY <1>1, <1>2, ConstantsAssumption DEF Carried

(* The constructor's state satisfies the invariant. *)
LEMMA InitIInv == Init => IInv
<1> SUFFICES ASSUME Init PROVE IInv
  OBVIOUS
<1>1. TypeOK
  BY ConstantsAssumption DEF Init, TypeOK, NoRecord, Records, Times
<1>2. RecordAttestedInWindow /\ OnlySignedDigestsConsumed
  BY DEF Init, RecordAttestedInWindow, OnlySignedDigestsConsumed
<1> QED BY <1>1, <1>2 DEF IInv

(* Signing, registration, relaying and time preserve the invariant. *)
LEMMA NextIInv == IInv /\ [Next]_vars => IInv'
<1> SUFFICES ASSUME IInv, [Next]_vars PROVE IInv'
  OBVIOUS
<1> USE DEF IInv
<1>1. ASSUME NEW k \in Keys, NEW u \in Urls, NEW d \in Data, NEW s \in -Skew .. Skew,
             NEW n \in Nonces, generate_proof(k, u, d, s, n)
      PROVE  IInv'
  <2> DEFINE payload == [version |-> 1, url |-> u, data |-> d, ts |-> now + s, nonce |-> n]
  <2>1. now + s \in Times
    BY ConstantsAssumption DEF TypeOK, Times
  <2>2. [payload |-> payload, signer |-> k] \in [payload : Payloads, signer : Keys]
    BY <2>1 DEF Payloads
  <2>3. TypeOK'
    BY <1>1, <2>2 DEF generate_proof, TypeOK
  <2>4. signed \subseteq signed'
    BY <1>1 DEF generate_proof
  <2>5. RecordAttestedInWindow'
    BY <1>1, <2>4 DEF generate_proof, RecordAttestedInWindow
  <2>6. OnlySignedDigestsConsumed'
    BY <1>1, <2>4 DEF generate_proof, OnlySignedDigestsConsumed
  <2> QED BY <2>3, <2>5, <2>6
<1>2. ASSUME NEW a \in Accounts, NEW k \in Keys \cup {NoSigner},
             registerZkTlsSigner(a, k) \/ deregisterZkTlsSigner(a, k)
      PROVE  IInv'
  BY <1>2 DEF registerZkTlsSigner, deregisterZkTlsSigner, TypeOK,
              RecordAttestedInWindow, OnlySignedDigestsConsumed
<1>3. ASSUME NEW p \in Carried, NEW u \in Urls, NEW d \in Data, relayVerifiedWeb2Data(p, u, d)
      PROVE  IInv'
  <2>1. p \in signed
    BY <1>3, RelayedProofIsSigned DEF relayVerifiedWeb2Data
  <2>2. p.payload \in Payloads /\ p.payload.ts \in Times
    BY <2>1 DEF TypeOK, Payloads
  <2>3. [dataHash |-> d, verifiedAt |-> now] \in Records
    BY ConstantsAssumption DEF Records, TypeOK
  <2>4. TypeOK'
    BY <1>3, <2>2, <2>3 DEF relayVerifiedWeb2Data, consumeDigest, TypeOK
  <2>5. RecordAttestedInWindow'
    <3> SUFFICES ASSUME NEW v \in Urls, verifiedWeb2Data'[v] # NoRecord
                 PROVE  \E q \in signed' :
                          /\ q.payload.url = v /\ q.payload.data = verifiedWeb2Data'[v].dataHash
                          /\ q.payload.ts = provenTs'[v]
                          /\ verifiedWeb2Data'[v].verifiedAt - q.payload.ts \in (-MaxAge) .. MaxAge
      BY DEF RecordAttestedInWindow
    <3>1. CASE v = u
      <4>1. /\ verifiedWeb2Data'[v] = [dataHash |-> d, verifiedAt |-> now]
            /\ provenTs'[v] = p.payload.ts
            /\ signed' = signed
            /\ p.payload.url = u /\ p.payload.data = d
        BY <1>3, <3>1 DEF relayVerifiedWeb2Data, TypeOK
      <4>2. now - p.payload.ts \in (-MaxAge) .. MaxAge
        BY <1>3, <2>2, ConstantsAssumption DEF relayVerifiedWeb2Data, FreshProof, TypeOK, Times
      <4> QED BY <2>1, <3>1, <4>1, <4>2
    <3>2. CASE v # u
      <4>1. /\ verifiedWeb2Data'[v] = verifiedWeb2Data[v]
            /\ provenTs'[v] = provenTs[v]
            /\ signed' = signed
        BY <1>3, <3>2 DEF relayVerifiedWeb2Data, TypeOK
      <4> QED BY <4>1 DEF RecordAttestedInWindow
    <3> QED BY <3>1, <3>2
  <2>6. OnlySignedDigestsConsumed'
    BY <1>3, <2>1 DEF relayVerifiedWeb2Data, consumeDigest, OnlySignedDigestsConsumed
  <2> QED BY <2>4, <2>5, <2>6
<1>4. CASE NewBlock
  <2>1. TypeOK'
    BY <1>4, ConstantsAssumption DEF NewBlock, TypeOK
  <2> QED BY <1>4, <2>1 DEF NewBlock, RecordAttestedInWindow, OnlySignedDigestsConsumed
<1>5. CASE UNCHANGED vars
  BY <1>5 DEF vars, TypeOK, RecordAttestedInWindow, OnlySignedDigestsConsumed
<1> QED BY <1>1, <1>2, <1>3, <1>4, <1>5 DEF Next

(* The storage of the relayer keeps its types, and the zero address is     *)
(* never a registered signer.                                              *)
THEOREM TypeCorrect == Spec => []TypeOK
<1>1. IInv => TypeOK
  BY DEF IInv
<1> QED BY InitIInv, NextIInv, <1>1, PTL DEF Spec

(* Every record was signed by an enclave within PROOF_MAX_AGE of the time  *)
(* it was recorded, whatever delays, replays and alterations happened.     *)
THEOREM RecordsAttested == Spec => []RecordAttestedInWindow
<1>1. IInv => RecordAttestedInWindow
  BY DEF IInv
<1> QED BY InitIInv, NextIInv, <1>1, PTL DEF Spec

(* No altered proof ever consumes a digest. *)
THEOREM DigestsConsumedBySigned == Spec => []OnlySignedDigestsConsumed
<1>1. IInv => OnlySignedDigestsConsumed
  BY DEF IInv
<1> QED BY InitIInv, NextIInv, <1>1, PTL DEF Spec

(* A record changes only with a fresh digest of a registered signer. *)
THEOREM RecordsAuthorized == Spec => RecordsNeedFreshAuthorizedProof
<1>1. ASSUME IInv, [Next]_vars
      PROVE  \A u \in Urls : verifiedWeb2Data'[u] # verifiedWeb2Data[u] =>
               \E p \in signed :
                 /\ p.signer \in zkTlsSigners
                 /\ usedProofs' = usedProofs \cup {p.payload} /\ p.payload \notin usedProofs
                 /\ verifiedWeb2Data'[u].dataHash = p.payload.data
  <2>1. ASSUME NEW p \in Carried, NEW v \in Urls, NEW d \in Data, relayVerifiedWeb2Data(p, v, d),
               NEW u \in Urls, verifiedWeb2Data'[u] # verifiedWeb2Data[u]
        PROVE  /\ p \in signed
               /\ p.signer \in zkTlsSigners
               /\ usedProofs' = usedProofs \cup {p.payload} /\ p.payload \notin usedProofs
               /\ verifiedWeb2Data'[u].dataHash = p.payload.data
    <3>1. p \in signed
      BY <1>1, <2>1, RelayedProofIsSigned DEF IInv, relayVerifiedWeb2Data
    <3>2. u = v
      BY <1>1, <2>1 DEF IInv, TypeOK, relayVerifiedWeb2Data
    <3> QED BY <1>1, <2>1, <3>1, <3>2 DEF IInv, TypeOK, relayVerifiedWeb2Data,
                                          consumeDigest, AuthorizedSigner
  <2>2. ASSUME ~\E p \in Carried, v \in Urls, d \in Data : relayVerifiedWeb2Data(p, v, d)
        PROVE  UNCHANGED verifiedWeb2Data
    BY <1>1, <2>2 DEF Next, vars, generate_proof, registerZkTlsSigner,
                      deregisterZkTlsSigner, NewBlock
  <2> QED BY <2>1, <2>2
<1> QED BY <1>1, InitIInv, NextIInv, PTL DEF Spec, RecordsNeedFreshAuthorizedProof

(* Out-of-order relaying moves a url's attested time back by at most twice *)
(* PROOF_MAX_AGE: the old proof was at most MaxAge ahead of the block that *)
(* recorded it, and the new one is at most MaxAge behind the current one.  *)
THEOREM OvertakingBounded == Spec => RegressionBounded
<1> DEFINE Ordered == \A u \in Urls : verifiedWeb2Data[u] # NoRecord =>
                                        provenTs[u] <= now + MaxAge
<1>1. Init => Ordered
  BY DEF Init
<1>2. ASSUME IInv, Ordered, [Next]_vars PROVE Ordered'
  <2>1. ASSUME NEW p \in Carried, NEW v \in Urls, NEW d \in Data, relayVerifiedWeb2Data(p, v, d)
        PROVE  Ordered'
    BY <1>2, <2>1 DEF IInv, TypeOK, relayVerifiedWeb2Data, FreshProof
  <2>2. CASE NewBlock
    <3>1. \A u \in Urls : provenTs[u] <= now + MaxAge => provenTs[u] <= now + 1 + MaxAge
      BY <1>2, ConstantsAssumption DEF IInv, TypeOK, Times
    <3> QED BY <1>2, <2>2, <3>1 DEF NewBlock
  <2>3. ASSUME UNCHANGED <<verifiedWeb2Data, provenTs, now>> PROVE Ordered'
    BY <1>2, <2>3
  <2> QED BY <1>2, <2>1, <2>2, <2>3 DEF Next, vars, generate_proof, registerZkTlsSigner,
                                         deregisterZkTlsSigner
<1>3. ASSUME IInv, Ordered, [Next]_vars
      PROVE  \A u \in Urls : verifiedWeb2Data[u] # NoRecord =>
                               provenTs'[u] >= provenTs[u] - 2 * MaxAge
  <2> SUFFICES ASSUME NEW u \in Urls, verifiedWeb2Data[u] # NoRecord
               PROVE  provenTs'[u] >= provenTs[u] - 2 * MaxAge
    OBVIOUS
  <2>0. /\ provenTs[u] \in Int /\ now \in Int /\ MaxAge \in Nat
        /\ provenTs[u] <= now + MaxAge
    BY <1>3, ConstantsAssumption DEF IInv, TypeOK, Times
  <2>1. ASSUME NEW p \in Carried, NEW v \in Urls, NEW d \in Data, relayVerifiedWeb2Data(p, v, d)
        PROVE  provenTs'[u] >= provenTs[u] - 2 * MaxAge
    <3>1. CASE u = v
      <4>1. p \in signed
        BY <1>3, <2>1, RelayedProofIsSigned DEF IInv, relayVerifiedWeb2Data
      <4>2. p.payload.ts \in Int
        BY <1>3, <4>1 DEF IInv, TypeOK, Payloads, Times
      <4>3. provenTs'[u] = p.payload.ts /\ now <= p.payload.ts + MaxAge
        BY <1>3, <2>1, <3>1 DEF IInv, TypeOK, relayVerifiedWeb2Data, FreshProof
      <4> QED BY <2>0, <4>2, <4>3
    <3>2. CASE u # v
      <4>1. provenTs'[u] = provenTs[u]
        BY <1>3, <2>1, <3>2 DEF IInv, TypeOK, relayVerifiedWeb2Data
      <4> QED BY <2>0, <4>1
    <3> QED BY <3>1, <3>2
  <2>2. ASSUME UNCHANGED provenTs PROVE provenTs'[u] >= provenTs[u] - 2 * MaxAge
    BY <2>0, <2>2
  <2> QED BY <1>3, <2>1, <2>2 DEF Next, vars, generate_proof, registerZkTlsSigner,
                                  deregisterZkTlsSigner, NewBlock
<1> HIDE DEF Ordered
<1> QED BY <1>1, <1>2, <1>3, InitIInv, NextIInv, PTL DEF Spec, RegressionBounded

----------------------------------------------------------------------------
(* The operations                                                          *)

\* Steps that need no lock, and what may follow a step.
Taken == {"fees", "prepare", "send", "receipt"}
Calls == Steps \ (Taken \cup {"lock"})
after(step) ==
  CASE step = "lock"    -> {"fees"}
    [] step = "fees"    -> {"prepare"}
    [] step = "prepare" -> {"send"}
    [] step = "send"    -> {"receipt"}
    [] step = "receipt" -> {}
    [] OTHER            -> Calls \cup {"lock"}

Plan(s) ==
  /\ s \in Seq(Steps)
  /\ \A i \in 1 .. Len(s) :
       IF i < Len(s) THEN s[i + 1] \in after(s[i]) ELSE s[i] \in Calls \cup {"receipt"}

\* A plan without its first step is a plan.
LEMMA PlanTail ==
  ASSUME NEW s, Plan(s), s # <<>>
  PROVE  /\ Head(s) = s[1] /\ Head(s) \in Steps /\ Plan(Tail(s))
         /\ Tail(s) # <<>> => Head(Tail(s)) \in after(Head(s))
         /\ Tail(s) = <<>> => Head(s) \in Calls \cup {"receipt"}
<1>1. s \in Seq(Steps) /\ Len(s) \in Nat \ {0} /\ Head(s) = s[1] /\ s[1] \in Steps
  BY EmptySeq, ElementOfSeq DEF Plan
<1>2. /\ Tail(s) \in Seq(Steps) /\ Len(Tail(s)) = Len(s) - 1
      /\ \A i \in 1 .. Len(s) - 1 : Tail(s)[i] = s[i + 1]
  BY <1>1, HeadTailProperties
<1> DEFINE r == Tail(s)
<1>3. ASSUME NEW i \in 1 .. Len(r)
      PROVE  IF i < Len(r) THEN r[i + 1] \in after(r[i]) ELSE r[i] \in Calls \cup {"receipt"}
  <2>1. i + 1 \in 1 .. Len(s) /\ r[i] = s[i + 1] /\ (i < Len(r) <=> i + 1 < Len(s))
    BY <1>1, <1>2
  <2>2. i < Len(r) => r[i + 1] = s[(i + 1) + 1]
    BY <1>1, <1>2
  <2> QED BY <2>1, <2>2 DEF Plan
<1>4. Plan(r)
  BY <1>2, <1>3 DEF Plan
<1>5. r # <<>> => Head(r) \in after(s[1])
  <2> HAVE r # <<>>
  <2>1. Len(r) \in Nat \ {0} /\ Head(r) = r[1]
    BY <1>2, EmptySeq
  <2>2. 1 < Len(s) /\ r[1] = s[1 + 1]
    BY <1>1, <1>2, <2>1
  <2> QED BY <1>1, <2>1, <2>2 DEF Plan
<1>6. r = <<>> => s[1] \in Calls \cup {"receipt"}
  <2> HAVE r = <<>>
  <2>1. Len(s) = 1
    BY <1>1, <1>2
  <2> QED BY <2>1 DEF Plan
<1> QED BY <1>1, <1>4, <1>5, <1>6

\* Reads may come before the plan of a transaction.
LEMMA PlanBefore ==
  ASSUME NEW a \in Seq(Calls), NEW b, Plan(b), b # <<>> => Head(b) \in Calls \cup {"lock"}
  PROVE  Plan(a \o b)
<1>1. a \in Seq(Steps) /\ b \in Seq(Steps)
  BY SeqMonotonic DEF Calls, Plan
<1> DEFINE q == a \o b
           n == Len(a)
           m == Len(b)
<1>2. /\ q \in Seq(Steps) /\ Len(q) = n + m /\ n \in Nat /\ m \in Nat
      /\ \A i \in 1 .. n + m : q[i] = IF i <= n THEN a[i] ELSE b[i - n]
  BY <1>1, ConcatProperties
<1>3. \A i \in 1 .. n : a[i] \in Calls /\ after(a[i]) = Calls \cup {"lock"}
  <2> TAKE i \in 1 .. n
  <2>1. a[i] \in Calls
    BY ElementOfSeq
  <2> QED BY <2>1 DEF Calls, after, Taken
<1>4. m # 0 => b[1] \in Calls \cup {"lock"}
  BY <1>1, EmptySeq
<1>5. ASSUME NEW i \in 1 .. n + m
      PROVE  IF i < n + m THEN q[i + 1] \in after(q[i]) ELSE q[i] \in Calls \cup {"receipt"}
  <2> HIDE DEF q, n, m
  <2>1. CASE i < n
    <3>1. q[i] = a[i] /\ q[i + 1] = a[i + 1] /\ i \in 1 .. n /\ i + 1 \in 1 .. n /\ i < n + m
      BY <1>2, <2>1
    <3> QED BY <1>3, <3>1
  <2>2. CASE i = n /\ m # 0
    <3>1. q[i] = a[i] /\ q[i + 1] = b[1] /\ i \in 1 .. n /\ i < n + m
      BY <1>2, <2>2
    <3>2. after(q[i]) = Calls \cup {"lock"}
      BY <1>3, <3>1, Zenon
    <3>3. b[1] \in Calls \cup {"lock"}
      BY <1>4, <2>2, Zenon
    <3> QED BY <3>1, <3>2, <3>3, Zenon
  <2>3. CASE i = n /\ m = 0
    <3>1. q[i] = a[i] /\ i \in 1 .. n /\ ~(i < n + m)
      BY <1>2, <2>3
    <3> QED BY <1>3, <3>1
  <2>4. CASE i > n
    <3> DEFINE k == i - n
    <3>1. q[i] = b[k] /\ k \in 1 .. m /\ (i < n + m <=> k < m)
      BY <1>2, <2>4
    <3>2. i < n + m => q[i + 1] = b[k + 1]
      BY <1>2, <2>4
    <3>3. IF k < m THEN b[k + 1] \in after(b[k]) ELSE b[k] \in Calls \cup {"receipt"}
      BY <3>1 DEF Plan, m
    <3> HIDE DEF k
    <3> QED BY <3>1, <3>2, <3>3
  <2> QED BY <1>2, <2>1, <2>2, <2>3, <2>4
<1> QED BY <1>2, <1>5 DEF Plan

\* A plan that needs the lock ends with the receipt.
LEMMA PlanEnds ==
  ASSUME NEW s, Plan(s), s # <<>>, Head(s) \in Taken \cup {"lock"}
  PROVE  s[Len(s)] = "receipt"
<1>1. s \in Seq(Steps) /\ Len(s) \in Nat \ {0} /\ Head(s) = s[1]
  BY EmptySeq DEF Plan
<1> DEFINE P(i, x) == s[i] = x
<1>2. \A i \in 1 .. Len(s) : s[i] = "receipt" => i = Len(s)
  BY <1>1 DEF Plan, after
<1>3. \A i \in 1 .. Len(s) : s[i] = "send" => i < Len(s) /\ i + 1 \in 1 .. Len(s) /\ s[i + 1] = "receipt"
  BY <1>1 DEF Plan, after, Calls, Taken
<1>4. \A i \in 1 .. Len(s) : s[i] = "prepare" => i < Len(s) /\ i + 1 \in 1 .. Len(s) /\ s[i + 1] = "send"
  BY <1>1 DEF Plan, after, Calls, Taken
<1>5. \A i \in 1 .. Len(s) : s[i] = "fees" => i < Len(s) /\ i + 1 \in 1 .. Len(s) /\ s[i + 1] = "prepare"
  BY <1>1 DEF Plan, after, Calls, Taken
<1>6. \A i \in 1 .. Len(s) : s[i] = "lock" => i < Len(s) /\ i + 1 \in 1 .. Len(s) /\ s[i + 1] = "fees"
  BY <1>1 DEF Plan, after, Calls, Taken
<1>7. \E i \in 1 .. Len(s) : s[i] = "receipt"
  BY <1>1, <1>3, <1>4, <1>5, <1>6 DEF Taken
<1> QED BY <1>2, <1>7

\* Every operation of the client is a plan.
LEMMA OperationsArePlans ==
  ASSUME NEW steps \in operations
  PROVE  Plan(steps) /\ steps # <<>> /\ Head(steps) \in Calls
<1>1. /\ <<"resolve">> \in Seq(Calls) /\ <<"abi">> \in Seq(Calls) /\ <<"price">> \in Seq(Calls)
      /\ <<"feeds">> \in Seq(Calls) /\ <<>> \in Seq(Calls) /\ liveness \in Seq(Calls)
  BY DEF Calls, Taken, Steps, Rpcs, Reads, liveness
<1>2. \A a, b \in Seq(Calls) : a \o b \in Seq(Calls)
  BY ConcatProperties
<1>3. Plan(<<>>) /\ Plan(transaction) /\ transaction # <<>> /\ Head(transaction) = "lock"
  <2>1. transaction \in Seq(Steps) /\ Len(transaction) = 5
    BY DEF transaction, Steps, Rpcs, Reads
  <2>2. \A i \in 1 .. 5 : i = 1 \/ i = 2 \/ i = 3 \/ i = 4 \/ i = 5
    OBVIOUS
  <2>3. /\ transaction[1] = "lock" /\ transaction[2] = "fees" /\ transaction[3] = "prepare"
        /\ transaction[4] = "send" /\ transaction[5] = "receipt"
    BY DEF transaction
  <2>4. Plan(transaction)
    BY <2>1, <2>2, <2>3 DEF Plan, after
  <2>5. Plan(<<>>)
    BY EmptySeq DEF Plan
  <2> QED BY <2>1, <2>3, <2>4, <2>5
<1>4. \A a \in Seq(Calls) : Plan(a \o transaction)
  BY <1>3, PlanBefore
<1>5. \A a \in Seq(Calls) : Plan(a)
  <2> TAKE a \in Seq(Calls)
  <2>1. a \o <<>> = a
    BY ConcatEmptySeq
  <2>2. Plan(a \o <<>>)
    BY <1>3, PlanBefore
  <2> QED BY <2>1, <2>2
<1>6. \/ steps = liveness
      \/ steps = <<"resolve">> \o <<"feeds">>
      \/ \E a \in Seq(Calls) : steps = (<<"resolve">> \o a) \o transaction
  <2>1. submit_attestation = (<<"resolve">> \o <<"abi">>) \o transaction
    BY DEF submit_attestation, resolve_contract
  <2>2. get_feeds = <<"resolve">> \o <<"feeds">>
    BY DEF get_feeds, resolve_contract
  <2>3. ASSUME steps \in submit_fdc_attestation_request
        PROVE  \E a \in Seq(Calls) : steps = (<<"resolve">> \o a) \o transaction
    <3>1. PICK fee \in {<<>>, get_fdc_attestation_fee} :
            steps = (resolve_contract \o fee) \o transaction
      BY <2>3 DEF submit_fdc_attestation_request
    <3>2. get_fdc_attestation_fee \in Seq(Calls)
      BY <1>1, <1>2 DEF get_fdc_attestation_fee, resolve_contract
    <3> QED BY <1>1, <3>1, <3>2 DEF resolve_contract
  <2> QED BY <1>1, <2>1, <2>2, <2>3 DEF operations
<1>7. ASSUME NEW a \in Seq(Calls), NEW b \in Seq(Steps)
      PROVE  (<<"resolve">> \o a) \o b # <<>> /\ Head((<<"resolve">> \o a) \o b) = "resolve"
  <2> DEFINE c == <<"resolve">> \o a
  <2>1. c \in Seq(Steps) /\ Len(c) = 1 + Len(a) /\ c[1] = "resolve" /\ Len(a) \in Nat
    <3>1. a \in Seq(Steps) /\ <<"resolve">> \in Seq(Steps)
      BY SeqMonotonic DEF Calls, Steps, Rpcs, Reads
    <3> QED BY <3>1, ConcatProperties
  <2> HIDE DEF c
  <2>2. c \o b \in Seq(Steps) /\ Len(c \o b) = Len(c) + Len(b) /\ (c \o b)[1] = "resolve"
        /\ Len(b) \in Nat
    <3>1. Len(b) \in Nat /\ 1 \in 1 .. Len(c) + Len(b) /\ 1 <= Len(c)
      BY <2>1
    <3>2. (c \o b)[1] = IF 1 <= Len(c) THEN c[1] ELSE b[1 - Len(c)]
      BY <2>1, <3>1, ConcatProperties, Zenon
    <3>3. c \o b \in Seq(Steps) /\ Len(c \o b) = Len(c) + Len(b)
      BY <2>1, ConcatProperties, Zenon
    <3> QED BY <2>1, <3>1, <3>2, <3>3, Zenon
  <2>3. c \o b # <<>> /\ Head(c \o b) = (c \o b)[1]
    BY <2>1, <2>2, EmptySeq
  <2> QED BY <2>2, <2>3 DEF c
<1>8. "resolve" \in Calls /\ "chain_id" \in Calls
  BY DEF Calls, Taken, Steps, Rpcs, Reads
<1>9. CASE steps = liveness
  <2>1. Plan(liveness)
    BY <1>1, <1>5
  <2>2. liveness # <<>> /\ Head(liveness) = "chain_id"
    BY DEF liveness
  <2> QED BY <1>8, <1>9, <2>1, <2>2
<1>10. CASE steps = <<"resolve">> \o <<"feeds">>
  <2>1. Plan(steps)
    BY <1>1, <1>2, <1>5, <1>10
  <2>2. steps = (<<"resolve">> \o <<"feeds">>) \o <<>>
    BY <1>1, <1>2, <1>10, ConcatEmptySeq
  <2> QED BY <1>1, <1>7, <1>8, <2>1, <2>2, EmptySeq
<1>11. ASSUME NEW a \in Seq(Calls), steps = (<<"resolve">> \o a) \o transaction
       PROVE  Plan(steps) /\ steps # <<>> /\ Head(steps) \in Calls
  <2>1. transaction \in Seq(Steps) /\ <<"resolve">> \o a \in Seq(Calls)
    BY <1>1, <1>2, <1>3 DEF Plan
  <2> QED BY <1>4, <1>7, <1>8, <1>11, <2>1
<1> QED BY <1>6, <1>9, <1>10, <1>11
----------------------------------------------------------------------------
(* The invariant                                                           *)

\* Past the lock, and in possession of a nonce.
holding(t) == todo[t] # <<>> /\ Head(todo[t]) \in Taken
has(t)     == nonce[t].from # 0

ClientTyped ==
  /\ up \subseteq Endpoints /\ accepted \subseteq Callers
  /\ todo \in [Callers -> Seq(Steps)] /\ at \in [Callers -> 0 .. N]
  /\ nonce \in [Callers -> [n : Nat, from : 0 .. N]]
  /\ reply \in [Callers -> {"none", "accepted"}]
  /\ outcome \in [Callers -> {"idle", "running", "returned", "raised"}]
  /\ queue \in Seq(Callers) /\ chain \in Seq(Callers) /\ view \in [Endpoints -> Nat]
  /\ pending \in Callers \cup {NoTx}

\* Where a call is tells what has become of its transaction.
CallOK(t) ==
  /\ Plan(todo[t])
  /\ outcome[t] = "running" <=> todo[t] # <<>>
  /\ calling(t) => at[t] # 0
  /\ reply[t] = "accepted" => t \in accepted
  /\ t \in accepted => /\ outcome[t] # "idle"
                       /\ outcome[t] = "running" => doing(t, "send") \/ doing(t, "receipt")
  /\ outcome[t] \in {"returned", "raised"} \/ doing(t, "receipt") => t \in accepted
  /\ doing(t, "send") \/ t \in accepted => has(t)
  /\ has(t) => t \in accepted \/ doing(t, "prepare") \/ doing(t, "send")
  /\ ~has(t) => nonce[t] = NoNonce
  /\ outcome[t] = "returned" => at[t] # 0 /\ nonce[t].n < view[at[t]]

\* Whoever is past the lock is at the head of its queue.
LockOK ==
  /\ \A i, j \in 1 .. Len(queue) : queue[i] = queue[j] => i = j
  /\ \A t \in Callers : (\E i \in 1 .. Len(queue) : queue[i] = t)
                          <=> todo[t] # <<>> /\ Head(todo[t]) \in Taken \cup {"lock"}
  /\ \A t \in Callers : holding(t) => queue # <<>> /\ queue[1] = t

\* A nonce is a place in the chain.
ChainOK ==
  /\ \A i \in 1 .. Len(chain) : chain[i] \in accepted /\ nonce[chain[i]].n = i - 1
  /\ pending # NoTx => pending \in accepted /\ nonce[pending].n = Len(chain)
  /\ \A e \in Endpoints : view[e] <= Len(chain)

\* t read its nonce after s had its receipt from the same endpoint, or elsewhere.
Past(t, s) == nonce[t].from # at[s] \/ nonce[t].n > nonce[s].n

Ordered ==
  \A s, t \in Callers : s # t /\ outcome[s] = "returned" =>
    /\ holding(t) /\ has(t) => Past(t, s)
    /\ outcome[t] = "returned" => Past(t, s) \/ Past(s, t)

FInv == ClientTyped /\ (\A t \in Callers : CallOK(t)) /\ LockOK /\ ChainOK /\ Ordered

\* No call is under way and the chain is empty.
LEMMA InitFInv == ClientInit => FInv
<1> SUFFICES ASSUME ClientInit PROVE FInv
  OBVIOUS
<1>1. ClientTyped
  BY EmptySeq, ClientAssumption DEF ClientInit, ClientTyped, Endpoints, NoNonce
<1>2. ASSUME NEW t \in Callers PROVE CallOK(t)
  <2>1. Plan(<<>>)
    BY EmptySeq DEF Plan
  <2> QED BY <2>1 DEF ClientInit, CallOK, calling, doing, has, NoNonce
<1>3. LockOK /\ ChainOK /\ Ordered
  BY EmptySeq DEF ClientInit, LockOK, ChainOK, Ordered, holding, Endpoints
<1> QED BY <1>1, <1>2, <1>3 DEF FInv

\* What the lock says of one call.
LEMMA InLine ==
  ASSUME FInv, NEW t \in Callers, NEW i \in 1 .. Len(queue), queue[i] = t,
         doing(t, "lock") => Head(queue) = t
  PROVE  queue # <<>> /\ Head(queue) = t /\ i = 1
<1>1. queue \in Seq(Callers) /\ Len(queue) \in Nat \ {0} /\ queue # <<>> /\ Head(queue) = queue[1]
  BY EmptySeq DEF FInv, ClientTyped
<1>2. Head(todo[t]) \in Taken \cup {"lock"} /\ todo[t] # <<>>
  BY DEF FInv, LockOK
<1>3. queue[1] = t
  BY <1>1, <1>2 DEF FInv, LockOK, holding, doing
<1> QED BY <1>1, <1>3 DEF FInv, LockOK

----------------------------------------------------------------------------
(* The end of a call                                                       *)

\* A call ends and frees the lock if it holds it.
LEMMA LeaveStep ==
  ASSUME FInv, NEW t \in Callers, NEW how \in {"returned", "raised"}, leave(t, how),
         UNCHANGED network, up' \subseteq Endpoints,
         outcome[t] \in {"idle", "running"}, doing(t, "lock") => Head(queue) = t,
         how = "returned" /\ t \in accepted => at[t] # 0 /\ nonce[t].n < view[at[t]]
  PROVE  FInv'
<1> DEFINE mine == t \in accepted
<1>1. /\ todo' = [todo EXCEPT ![t] = <<>>] /\ reply' = [reply EXCEPT ![t] = "none"]
      /\ outcome' = [outcome EXCEPT ![t] = IF mine THEN how ELSE "idle"]
      /\ nonce' = [nonce EXCEPT ![t] = IF mine THEN nonce[t] ELSE NoNonce]
      /\ at' = [at EXCEPT ![t] = IF mine /\ how = "returned" THEN at[t] ELSE 0]
      /\ UNCHANGED <<pending, chain, view, accepted>>
  BY DEF leave, network, FInv, ClientTyped
<1>2. queue' = IF queue # <<>> /\ Head(queue) = t THEN Tail(queue) ELSE queue
  BY DEF leave
<1>3. queue \in Seq(Callers) /\ Len(queue) \in Nat
  BY DEF FInv, ClientTyped
<1>5. /\ queue' \in Seq(Callers)
      /\ \A i, j \in 1 .. Len(queue') : queue'[i] = queue'[j] => i = j
      /\ \A d \in Callers : (\E i \in 1 .. Len(queue') : queue'[i] = d)
                              <=> d # t /\ \E i \in 1 .. Len(queue) : queue[i] = d
      /\ \A d \in Callers : d # t /\ holding(d) => queue' = queue
  <2>1. CASE queue # <<>> /\ Head(queue) = t
    <3>1. /\ queue' \in Seq(Callers) /\ Len(queue') = Len(queue) - 1 /\ queue[1] = t
          /\ Len(queue) \in Nat \ {0}
          /\ \A i \in 1 .. Len(queue) - 1 : queue'[i] = queue[i + 1]
      BY <1>2, <1>3, <2>1, HeadTailProperties, EmptySeq
    <3>2. \A i, j \in 1 .. Len(queue) : queue[i] = queue[j] => i = j
      BY DEF FInv, LockOK
    <3>3. \A i, j \in 1 .. Len(queue') : queue'[i] = queue'[j] => i = j
      <4> TAKE i, j \in 1 .. Len(queue')
      <4>1. i + 1 \in 1 .. Len(queue) /\ j + 1 \in 1 .. Len(queue) /\ i \in Int /\ j \in Int
        BY <3>1
      <4>2. queue'[i] = queue[i + 1] /\ queue'[j] = queue[j + 1]
        BY <3>1
      <4> HAVE queue'[i] = queue'[j]
      <4>3. i + 1 = j + 1
        BY <3>2, <4>1, <4>2
      <4> QED BY <4>1, <4>3
    <3>4. ASSUME NEW d \in Callers
          PROVE  (\E i \in 1 .. Len(queue') : queue'[i] = d)
                   <=> d # t /\ \E i \in 1 .. Len(queue) : queue[i] = d
      <4>1. ASSUME NEW i \in 1 .. Len(queue'), queue'[i] = d
            PROVE  i + 1 \in 1 .. Len(queue) /\ queue[i + 1] = d /\ d # t
        <5>1. i + 1 \in 1 .. Len(queue) /\ i + 1 # 1 /\ 1 \in 1 .. Len(queue)
          BY <3>1
        <5>2. queue[i + 1] = d
          BY <3>1, <4>1
        <5> QED BY <3>1, <3>2, <5>1, <5>2
      <4>2. ASSUME NEW i \in 1 .. Len(queue), queue[i] = d, d # t
            PROVE  \E k \in 1 .. Len(queue') : queue'[k] = d
        <5>1. i # 1
          BY <3>1, <4>2
        <5>2. i - 1 \in 1 .. Len(queue') /\ (i - 1) + 1 = i
          BY <3>1, <5>1
        <5>3. queue'[i - 1] = queue[(i - 1) + 1]
          BY <3>1, <5>2
        <5> QED BY <4>2, <5>2, <5>3
      <4> QED BY <4>1, <4>2
    <3>5. \A d \in Callers : holding(d) => d = t
      BY <3>1 DEF FInv, LockOK
    <3> QED BY <3>1, <3>3, <3>4, <3>5
  <2>2. CASE ~(queue # <<>> /\ Head(queue) = t)
    <3>1. queue' = queue
      BY <1>2, <2>2
    <3>2. \A i \in 1 .. Len(queue) : queue[i] # t
      BY <2>2, InLine
    <3>3. \A i, j \in 1 .. Len(queue) : queue[i] = queue[j] => i = j
      BY DEF FInv, LockOK
    <3> QED BY <1>3, <3>1, <3>2, <3>3
  <2> QED BY <2>1, <2>2
<1>6. ClientTyped'
  <2>1. <<>> \in Seq(Steps) /\ NoNonce \in [n : Nat, from : 0 .. N] /\ 0 \in 0 .. N
    BY EmptySeq, ClientAssumption DEF NoNonce
  <2> QED BY <1>1, <1>5, <2>1 DEF FInv, ClientTyped
<1>7. ASSUME NEW d \in Callers, d # t
      PROVE  /\ todo'[d] = todo[d] /\ nonce'[d] = nonce[d] /\ outcome'[d] = outcome[d]
             /\ at'[d] = at[d] /\ reply'[d] = reply[d]
  BY <1>1, <1>7 DEF FInv, ClientTyped
<1>8. /\ todo'[t] = <<>> /\ reply'[t] = "none"
      /\ outcome'[t] = (IF mine THEN how ELSE "idle")
      /\ nonce'[t] = (IF mine THEN nonce[t] ELSE NoNonce)
      /\ at'[t] = (IF mine /\ how = "returned" THEN at[t] ELSE 0)
  BY <1>1 DEF FInv, ClientTyped
<1>9. ASSUME NEW d \in Callers PROVE CallOK(d)'
  <2>1. CASE d = t
    <3>1. Plan(<<>>)
      BY EmptySeq DEF Plan
    <3>2. CallOK(t)
      BY DEF FInv
    <3> QED BY <1>1, <1>8, <2>1, <3>1, <3>2 DEF CallOK, calling, doing, has, NoNonce
  <2>2. CASE d # t
    <3>1. CallOK(d)
      BY DEF FInv
    <3> QED BY <1>1, <1>7, <2>2, <3>1 DEF CallOK, calling, doing, has
  <2> QED BY <2>1, <2>2
<1>10. LockOK'
  <2>1. ASSUME NEW d \in Callers
        PROVE  (\E i \in 1 .. Len(queue') : queue'[i] = d)
                 <=> todo'[d] # <<>> /\ Head(todo'[d]) \in Taken \cup {"lock"}
    BY <1>5, <1>7, <1>8 DEF FInv, LockOK
  <2>2. ASSUME NEW d \in Callers, holding(d)' PROVE queue' # <<>> /\ queue'[1] = d
    <3>1. d # t /\ holding(d)
      BY <1>7, <1>8, <2>2 DEF holding
    <3> QED BY <1>5, <3>1 DEF FInv, LockOK
  <2> QED BY <1>5, <2>1, <2>2 DEF LockOK
<1>11. ChainOK'
  <2>1. \A d \in accepted : nonce'[d] = nonce[d] /\ d \in Callers
    BY <1>7, <1>8 DEF FInv, ClientTyped
  <2> QED BY <1>1, <2>1 DEF FInv, ChainOK
<1>12. Ordered'
  <2> SUFFICES ASSUME NEW s \in Callers, NEW d \in Callers, s # d, outcome'[s] = "returned"
               PROVE  /\ (holding(d) /\ has(d) => Past(d, s))'
                      /\ outcome'[d] = "returned" => Past(d, s)' \/ Past(s, d)'
    BY DEF Ordered
  <2>1. ASSUME outcome'[t] = "returned"
        PROVE  /\ mine /\ nonce'[t] = nonce[t] /\ at'[t] = at[t] /\ has(t)
               /\ holding(t) \/ outcome[t] = "returned"
    <3>1. mine /\ how = "returned"
      BY <1>8, <2>1
    <3> QED BY <1>8, <3>1 DEF FInv, CallOK, holding, doing, Taken
  <2>2. CASE s = t
    <3>1. ~holding(d) \/ ~holding(t)
      BY <2>2 DEF FInv, LockOK
    <3>2. holding(d)' <=> holding(d)
      BY <1>7, <2>2 DEF holding
    <3> QED BY <1>7, <2>1, <2>2, <3>1, <3>2 DEF FInv, Ordered, Past
  <2>3. CASE d = t
    <3>1. ~holding(d)'
      BY <1>8, <2>3 DEF holding
    <3> QED BY <1>7, <2>1, <2>3, <3>1 DEF FInv, Ordered, Past
  <2>4. CASE s # t /\ d # t
    BY <1>7, <2>4 DEF FInv, Ordered, Past, holding, has
  <2> QED BY <2>2, <2>3, <2>4
<1> QED BY <1>6, <1>9, <1>10, <1>11, <1>12 DEF FInv
----------------------------------------------------------------------------
(* A call that goes on                                                     *)

\* steps is where a call may get to next, or where it is.
Comes(t, steps) ==
  \/ outcome[t] = "idle" /\ Head(steps) \in Calls
  \/ todo[t] # <<>> /\ Head(steps) = Head(todo[t]) /\ Head(steps) # "lock"
  \/ /\ todo[t] # <<>> /\ Head(steps) \in after(Head(todo[t]))
     /\ Head(steps) = "fees" => Head(queue) = t
     /\ Head(steps) = "send" => has(t)
     /\ Head(steps) = "receipt" => t \in accepted

Goes(t, steps, e, answer) ==
  /\ todo' = [todo EXCEPT ![t] = steps] /\ at' = [at EXCEPT ![t] = e]
  /\ outcome' = [outcome EXCEPT ![t] = "running"] /\ reply' = [reply EXCEPT ![t] = answer]
  /\ nonce' = [nonce EXCEPT ![t] = IF Head(steps) = "prepare" THEN NoNonce ELSE nonce[t]]
  /\ queue' = IF Head(steps) = "lock" THEN Append(queue, t) ELSE queue
  /\ UNCHANGED <<pending, chain, view, accepted>>

\* A call goes on to its next steps, waiting for the lock if that is the next.
LEMMA GoStep ==
  ASSUME FInv, NEW t \in Callers, NEW steps, Plan(steps), steps # <<>>, NEW e \in 0 .. N,
         Head(steps) \in Rpcs => e # 0, NEW answer \in {"none", reply[t]},
         Comes(t, steps), Goes(t, steps, e, answer), up' \subseteq Endpoints
  PROVE  FInv'
<1>1. /\ todo' = [todo EXCEPT ![t] = steps] /\ at' = [at EXCEPT ![t] = e]
      /\ outcome' = [outcome EXCEPT ![t] = "running"] /\ reply' = [reply EXCEPT ![t] = answer]
      /\ nonce' = [nonce EXCEPT ![t] = IF Head(steps) = "prepare" THEN NoNonce ELSE nonce[t]]
      /\ UNCHANGED <<pending, chain, view, accepted>>
  BY DEF Goes
<1>2. queue' = IF Head(steps) = "lock" THEN Append(queue, t) ELSE queue
  BY DEF Goes
<1>3. queue \in Seq(Callers) /\ Len(queue) \in Nat
  BY DEF FInv, ClientTyped
<1> DEFINE h == Head(steps)
           was == Head(todo[t])
<1>4. /\ h \in Steps
      /\ \/ outcome[t] = "idle" /\ todo[t] = <<>> /\ h \in Calls
         \/ todo[t] # <<>> /\ h = was /\ h # "lock"
         \/ todo[t] # <<>> /\ h \in after(was)
  BY PlanTail DEF Comes, FInv, CallOK
<1>5. /\ h = "lock" => todo[t] # <<>> /\ was \in Calls
      /\ h \in Calls => todo[t] = <<>> \/ was \in Calls
      /\ h = "fees" => todo[t] # <<>> /\ was \in {"fees", "lock"}
      /\ h = "prepare" => todo[t] # <<>> /\ was \in {"fees", "prepare"}
      /\ h = "send" => todo[t] # <<>> /\ was \in {"prepare", "send"}
      /\ h = "receipt" => todo[t] # <<>> /\ was \in {"send", "receipt"}
  <2>1. todo[t] # <<>> => was \in Steps
    BY PlanTail DEF FInv, CallOK
  <2> HIDE DEF h, was
  <2> QED BY <1>4, <2>1 DEF after, Calls, Taken
<1>6. /\ h = "fees" /\ was = "lock" => Head(queue) = t
      /\ h = "send" => has(t)
      /\ h = "receipt" => t \in accepted
  BY <1>5 DEF Comes, FInv, CallOK, doing, Calls, Taken
<1>7. (\E i \in 1 .. Len(queue) : queue[i] = t) <=> todo[t] # <<>> /\ was \in Taken \cup {"lock"}
  BY DEF FInv, LockOK
<1>8. /\ queue' \in Seq(Callers)
      /\ \A i, j \in 1 .. Len(queue') : queue'[i] = queue'[j] => i = j
      /\ \A d \in Callers : (\E i \in 1 .. Len(queue') : queue'[i] = d)
                              <=> \/ \E i \in 1 .. Len(queue) : queue[i] = d
                                  \/ h = "lock" /\ d = t
      /\ queue # <<>> => queue' # <<>> /\ queue'[1] = queue[1]
  <2>1. CASE h = "lock"
    <3>1. \A i \in 1 .. Len(queue) : queue[i] # t
      BY <1>5, <1>7, <2>1 DEF Calls
    <3>2. /\ queue' \in Seq(Callers) /\ Len(queue') = Len(queue) + 1
          /\ queue'[Len(queue) + 1] = t
          /\ \A i \in 1 .. Len(queue) : queue'[i] = queue[i]
      BY <1>2, <1>3, <2>1
    <3>3. \A i, j \in 1 .. Len(queue) : queue[i] = queue[j] => i = j
      BY DEF FInv, LockOK
    <3>4. \A i \in 1 .. Len(queue') : i \in 1 .. Len(queue) \/ i = Len(queue) + 1
      BY <1>3, <3>2
    <3>5. 1 .. Len(queue) \subseteq 1 .. Len(queue') /\ Len(queue) + 1 \in 1 .. Len(queue')
      BY <1>3, <3>2
    <3>6. \A i, j \in 1 .. Len(queue') : queue'[i] = queue'[j] => i = j
      BY <3>1, <3>2, <3>3, <3>4
    <3>7. queue # <<>> => queue' # <<>> /\ queue'[1] = queue[1]
      <4> HAVE queue # <<>>
      <4>1. 1 \in 1 .. Len(queue)
        BY <1>3, EmptySeq
      <4> QED BY <1>3, <3>2, <4>1, EmptySeq
    <3> QED BY <2>1, <3>2, <3>4, <3>5, <3>6, <3>7
  <2>2. CASE h # "lock"
    BY <1>2, <1>3, <2>2 DEF FInv, LockOK
  <2> QED BY <2>1, <2>2
<1>9. ClientTyped'
  <2>1. NoNonce \in [n : Nat, from : 0 .. N]
    BY ClientAssumption DEF NoNonce
  <2>2. answer \in {"none", "accepted"}
    BY DEF FInv, ClientTyped
  <2> QED BY <1>1, <1>8, <2>1, <2>2 DEF FInv, ClientTyped, Plan
<1>10. ASSUME NEW d \in Callers, d # t
       PROVE  /\ todo'[d] = todo[d] /\ nonce'[d] = nonce[d] /\ outcome'[d] = outcome[d]
              /\ at'[d] = at[d] /\ reply'[d] = reply[d]
  BY <1>1, <1>10 DEF FInv, ClientTyped
<1>11. /\ todo'[t] = steps /\ reply'[t] = answer /\ outcome'[t] = "running" /\ at'[t] = e
       /\ nonce'[t] = IF h = "prepare" THEN NoNonce ELSE nonce[t]
  BY <1>1 DEF FInv, ClientTyped
<1>12. CallOK(t)
  BY DEF FInv
<1>13. t \in accepted => h = "receipt" \/ h = "send"
  BY <1>4, <1>5, <1>12 DEF CallOK, doing, Calls, Taken, after
<1>14. has(t) /\ h # "prepare" => t \in accepted \/ h = "send"
  BY <1>4, <1>5, <1>6, <1>12 DEF CallOK, doing, Calls, Taken, after
<1>15. ASSUME NEW d \in Callers PROVE CallOK(d)'
  <2>1. CASE d = t
    <3>1. /\ calling(t)' <=> h \in Rpcs
          /\ doing(t, "send")' <=> h = "send"
          /\ doing(t, "receipt")' <=> h = "receipt"
          /\ doing(t, "prepare")' <=> h = "prepare"
      BY <1>11 DEF calling, doing
    <3>2. has(t)' <=> h # "prepare" /\ has(t)
      BY <1>11 DEF has, NoNonce
    <3>3. ~has(t)' => nonce'[t] = NoNonce
      BY <1>11, <1>12, <3>2 DEF CallOK, has
    <3>4. Plan(todo'[t]) /\ todo'[t] # <<>> /\ outcome'[t] = "running"
      BY <1>11
    <3>5. (h \in Rpcs => at'[t] # 0) /\ (reply'[t] = "accepted" => t \in accepted)
      BY <1>11, <1>12 DEF CallOK
    <3>6. h = "send" \/ t \in accepted => h # "prepare" /\ has(t)
      BY <1>6, <1>12, <1>13 DEF CallOK
    <3> HIDE DEF h, was
    <3>7. CallOK(t)'
      BY <1>1, <1>6, <1>13, <1>14, <3>1, <3>2, <3>3, <3>4, <3>5, <3>6 DEF CallOK
    <3> QED BY <2>1, <3>7
  <2>2. CASE d # t
    <3>1. CallOK(d)
      BY DEF FInv
    <3> QED BY <1>1, <1>10, <2>2, <3>1 DEF CallOK, calling, doing, has
  <2> QED BY <2>1, <2>2
<1>16. LockOK'
  <2>1. ASSUME NEW d \in Callers
        PROVE  (\E i \in 1 .. Len(queue') : queue'[i] = d)
                 <=> todo'[d] # <<>> /\ Head(todo'[d]) \in Taken \cup {"lock"}
    <3>1. CASE d = t
      <4>1. h \in Taken \cup {"lock"} <=> h = "lock" \/ (todo[t] # <<>> /\ was \in Taken \cup {"lock"})
        <5> HIDE DEF h, was
        <5> QED BY <1>4, <1>5 DEF Calls, Taken
      <4> QED BY <1>7, <1>8, <1>11, <3>1, <4>1
    <3>2. CASE d # t
      BY <1>8, <1>10, <3>2 DEF FInv, LockOK
    <3> QED BY <3>1, <3>2
  <2>2. ASSUME NEW d \in Callers, holding(d)' PROVE queue' # <<>> /\ queue'[1] = d
    <3>1. CASE d = t
      <4>1. h \in Taken
        BY <1>11, <2>2, <3>1 DEF holding
      <4>2. queue # <<>> /\ queue[1] = t
        <5>1. CASE h = "fees" /\ was = "lock"
          <6>1. \E i \in 1 .. Len(queue) : queue[i] = t
            BY <1>5, <1>7, <5>1
          <6>2. queue # <<>>
            BY <1>3, <6>1, EmptySeq
          <6> QED BY <1>3, <1>6, <5>1, <6>2
        <5>2. CASE ~(h = "fees" /\ was = "lock")
          <6>1. todo[t] # <<>> /\ was \in Taken
            BY <1>5, <4>1, <5>2 DEF Taken
          <6> QED BY <6>1 DEF FInv, LockOK, holding
        <5> QED BY <5>1, <5>2
      <4> QED BY <1>8, <3>1, <4>2
    <3>2. CASE d # t
      <4>1. holding(d)
        BY <1>10, <2>2, <3>2 DEF holding
      <4> QED BY <1>8, <4>1 DEF FInv, LockOK
    <3> QED BY <3>1, <3>2
  <2> QED BY <1>8, <2>1, <2>2 DEF LockOK
<1>17. ChainOK'
  <2>1. \A d \in accepted : nonce'[d] = nonce[d] /\ d \in Callers
    BY <1>10, <1>11, <1>13 DEF FInv, ClientTyped
  <2> QED BY <1>1, <2>1 DEF FInv, ChainOK
<1>18. Ordered'
  <2> SUFFICES ASSUME NEW s \in Callers, NEW d \in Callers, s # d, outcome'[s] = "returned"
               PROVE  /\ (holding(d) /\ has(d) => Past(d, s))'
                      /\ outcome'[d] = "returned" => Past(d, s)' \/ Past(s, d)'
    BY DEF Ordered
  <2>1. s # t /\ outcome[s] = "returned" /\ nonce'[s] = nonce[s] /\ at'[s] = at[s]
    BY <1>10, <1>11
  <2>2. CASE d = t
    <3>1. has(t)' => h # "prepare" /\ has(t) /\ nonce'[t] = nonce[t]
      BY <1>11 DEF has, NoNonce
    <3>2. has(t) /\ h # "prepare" => holding(t)
      <4> HIDE DEF h, was
      <4> QED BY <1>4, <1>5, <1>12, <1>14 DEF CallOK, holding, doing, Taken, Calls, was
    <3> QED BY <1>11, <2>1, <2>2, <3>1, <3>2 DEF FInv, Ordered, Past
  <2>3. CASE d # t
    BY <1>10, <2>1, <2>3 DEF FInv, Ordered, Past, holding, has
  <2> QED BY <2>2, <2>3
<1> QED BY <1>9, <1>15, <1>16, <1>17, <1>18 DEF FInv
\* The loop of _rpc has a first endpoint to go to.
LEMMA Least ==
  ASSUME NEW S, S \subseteq Nat, S # {}
  PROVE  \E x \in S : \A y \in S : x <= y
<1> DEFINE R == {p \in Nat \X Nat : p[1] < p[2]}
<1>1. IsWellFoundedOn(R, Nat)
  <2>1. R = OpToRel(<, Nat)
    BY Zenon DEF OpToRel
  <2> QED BY <2>1, NatLessThanWellFounded, Zenon
<1>2. \A x, y \in Nat : <<y, x>> \notin R => x <= y
  OBVIOUS
<1> HIDE DEF R
<1>3. \E x \in S : \A y \in S : <<y, x>> \notin R
  BY <1>1, WFMin, Zenon
<1> QED BY <1>2, <1>3

\* A call takes an endpoint for its next request, or gives up.
LEMMA TryStep ==
  ASSUME FInv, NEW t \in Callers, NEW steps, Plan(steps), steps # <<>>, Head(steps) \in Rpcs,
         NEW k, try(t, steps, k), Comes(t, steps), UNCHANGED network, up' \subseteq Endpoints,
         outcome[t] \in {"idle", "running"}, doing(t, "lock") => Head(queue) = t
  PROVE  FInv'
<1> DEFINE healthy == {e \in Endpoints : e >= k /\ cooldown'[e] = 0}
           first   == CHOOSE e \in healthy : \A f \in healthy : e <= f
<1>1. CASE healthy = {}
  BY <1>1, LeaveStep DEF try
<1>2. CASE healthy # {}
  <2>1. first \in Endpoints
    <3>1. healthy \subseteq Nat /\ healthy \subseteq Endpoints
      BY ClientAssumption DEF Endpoints
    <3> HIDE DEF healthy
    <3>2. \E e \in healthy : \A f \in healthy : e <= f
      BY <1>2, <3>1, Least
    <3> QED BY <3>1, <3>2
  <2>2. first \in 0 .. N /\ first # 0
    <3> HIDE DEF first
    <3> QED BY <2>1, ClientAssumption DEF Endpoints
  <2>3. Goes(t, steps, first, "none")
    <3>1. Head(steps) # "lock"
      BY DEF Rpcs, Reads
    <3>2. nonce = [nonce EXCEPT ![t] = nonce[t]]
      BY DEF FInv, ClientTyped
    <3>3. /\ todo' = [todo EXCEPT ![t] = steps] /\ at' = [at EXCEPT ![t] = first]
          /\ outcome' = [outcome EXCEPT ![t] = "running"] /\ reply' = [reply EXCEPT ![t] = "none"]
          /\ nonce' = IF Head(steps) = "prepare" THEN [nonce EXCEPT ![t] = NoNonce] ELSE nonce
          /\ queue' = queue
      BY <1>2 DEF try
    <3> HIDE DEF first
    <3> QED BY <3>1, <3>2, <3>3 DEF Goes, network
  <2> HIDE DEF first
  <2> QED BY <2>2, <2>3, GoStep
<1> QED BY <1>1, <1>2

\* A step is done: the next one, or the end of the call.
LEMMA ProceedStep ==
  ASSUME FInv, NEW t \in Callers, NEW steps, Plan(steps), proceed(t, steps),
         steps # <<>> => Comes(t, steps), UNCHANGED network, up' \subseteq Endpoints,
         outcome[t] \in {"idle", "running"}, doing(t, "lock") => Head(queue) = t,
         steps = <<>> /\ t \in accepted => at[t] # 0 /\ nonce[t].n < view[at[t]]
  PROVE  FInv'
<1>1. CASE steps = <<>>
  BY <1>1, LeaveStep DEF proceed
<1>2. CASE steps # <<>> /\ Head(steps) \in Rpcs
  BY <1>2, TryStep DEF proceed
<1>3. CASE steps # <<>> /\ Head(steps) \notin Rpcs
  <2>1. Goes(t, steps, 0, reply[t])
    <3>1. Head(steps) # "prepare"
      BY <1>3 DEF Rpcs
    <3>2. nonce = [nonce EXCEPT ![t] = nonce[t]] /\ reply = [reply EXCEPT ![t] = reply[t]]
      BY DEF FInv, ClientTyped
    <3> QED BY <1>3, <3>1, <3>2 DEF Goes, proceed, network
  <2>2. 0 \in 0 .. N
    BY ClientAssumption
  <2> QED BY <1>3, <2>1, <2>2, GoStep
<1> QED BY <1>1, <1>2, <1>3

\* What holds of a call at one of its steps.
LEMMA Under ==
  ASSUME FInv, NEW t \in Callers, todo[t] # <<>>
  PROVE  /\ CallOK(t) /\ Plan(todo[t]) /\ Plan(Tail(todo[t])) /\ outcome[t] = "running"
         /\ Tail(todo[t]) # <<>> => Head(Tail(todo[t])) \in after(Head(todo[t]))
         /\ Tail(todo[t]) = <<>> => Head(todo[t]) \in Calls \cup {"receipt"}
         /\ Head(todo[t]) \in Steps
BY PlanTail DEF FInv, CallOK

\* The next step of a call, with what the step before it must have brought.
LEMMA NextStep ==
  ASSUME FInv, NEW t \in Callers, todo[t] # <<>>, proceed(t, Tail(todo[t])), UNCHANGED network,
         up' \subseteq Endpoints,
         doing(t, "lock") => Head(queue) = t, doing(t, "prepare") => has(t),
         doing(t, "send") => t \in accepted,
         doing(t, "receipt") => nonce[t].n < view[at[t]]
  PROVE  FInv'
<1> DEFINE steps == Tail(todo[t])
           was   == Head(todo[t])
<1>1. /\ CallOK(t) /\ Plan(steps) /\ outcome[t] = "running" /\ was \in Steps
      /\ steps # <<>> => Head(steps) \in after(was)
      /\ steps = <<>> => was \in Calls \cup {"receipt"}
  BY Under
<1>2. /\ doing(t, "lock") <=> was = "lock"
      /\ doing(t, "prepare") <=> was = "prepare"
      /\ doing(t, "send") <=> was = "send"
      /\ doing(t, "receipt") <=> was = "receipt"
  BY DEF doing
<1>3. steps # <<>> => Comes(t, steps)
  <2> HAVE steps # <<>>
  <2>1. Head(steps) \in after(was) /\ todo[t] # <<>>
    BY <1>1
  <2>2. /\ Head(steps) = "fees" => was = "lock"
        /\ Head(steps) = "send" => was = "prepare"
        /\ Head(steps) = "receipt" => was = "send"
    <3> HIDE DEF was, steps
    <3> QED BY <1>1, <2>1 DEF after, Calls, Taken
  <2> QED BY <1>2, <2>1, <2>2 DEF Comes
<1>4. steps = <<>> /\ t \in accepted => at[t] # 0 /\ nonce[t].n < view[at[t]]
  <2> HAVE steps = <<>> /\ t \in accepted
  <2>1. was = "receipt"
    BY <1>1, <1>2 DEF CallOK, Calls, Taken
  <2> QED BY <1>1, <1>2, <2>1 DEF CallOK, calling, Rpcs
<1> QED BY <1>1, <1>3, <1>4, ProceedStep

\* A call that ends with an error.
LEMMA ErrStep ==
  ASSUME FInv, NEW t \in Callers, todo[t] # <<>>, leave(t, "raised"), UNCHANGED network,
         up' \subseteq Endpoints, ~doing(t, "lock")
  PROVE  FInv'
BY Under, LeaveStep

\* The steps of the client that read no nonce and put nothing on the chain.
LEMMA CallStep ==
  ASSUME FInv, NEW t \in Callers, goesOn(t) \/ begin(t) \/ cancel(t),
         ~readNonce(t), ~nodeAccepts(t)
  PROVE  FInv'
<1> USE DEF network
<1>0. up \subseteq Endpoints /\ \A a, b : doing(t, a) /\ doing(t, b) => a = b
  BY DEF FInv, ClientTyped, doing
<1>1. CASE begin(t)
  <2>1. PICK steps \in operations : proceed(t, steps)
    BY <1>1 DEF begin
  <2>2. Plan(steps) /\ steps # <<>> /\ Head(steps) \in Calls
    BY OperationsArePlans
  <2>3. UNCHANGED network /\ up' \subseteq Endpoints /\ outcome[t] = "idle"
    BY <1>0, <1>1 DEF begin
  <2>4. ~doing(t, "lock")
    BY <2>3 DEF FInv, CallOK, doing
  <2> QED BY <2>1, <2>2, <2>3, <2>4, ProceedStep DEF Comes
<1>2. CASE readReturns(t)
  <2>1. todo[t] # <<>> /\ Head(todo[t]) \in Reads /\ proceed(t, Tail(todo[t]))
    BY <1>2 DEF readReturns, answered, calling
  <2>2. ~doing(t, "lock") /\ ~doing(t, "prepare") /\ ~doing(t, "send") /\ ~doing(t, "receipt")
    BY <2>1 DEF doing, Reads
  <2> QED BY <1>0, <1>2, <2>1, <2>2, NextStep DEF readReturns
<1>3. CASE callErrs(t)
  <2>1. todo[t] # <<>> /\ ~doing(t, "lock")
    BY <1>3 DEF callErrs, calling, doing, Rpcs, Reads
  <2> QED BY <1>0, <1>3, <2>1, ErrStep DEF callErrs
<1>13. CASE answerRefused(t)
  <2>1. todo[t] # <<>> /\ Head(todo[t]) \in Reads /\ ~doing(t, "lock")
    BY <1>13 DEF answerRefused, answered, calling, doing, Reads
  <2> QED BY <1>0, <1>13, <2>1, ErrStep DEF answerRefused
<1>4. CASE callFails(t)
  <2>1. todo[t] # <<>> /\ Head(todo[t]) \in Rpcs /\ try(t, todo[t], at[t] + 1)
    BY <1>4 DEF callFails, calling
  <2>2. ~doing(t, "lock") /\ Head(todo[t]) # "lock"
    BY <2>1 DEF doing, Rpcs, Reads
  <2>3. Comes(t, todo[t])
    BY <2>1, <2>2 DEF Comes
  <2>4. Plan(todo[t]) /\ outcome[t] = "running"
    BY <2>1, Under
  <2> QED BY <1>0, <1>4, <2>1, <2>2, <2>3, <2>4, TryStep DEF callFails
<1>5. CASE fetch_contract_abi(t)
  <2>1. todo[t] # <<>> /\ doing(t, "abi")
    BY <1>5 DEF fetch_contract_abi, doing
  <2>2. ~doing(t, "lock") /\ ~doing(t, "prepare") /\ ~doing(t, "send") /\ ~doing(t, "receipt")
    BY <1>0, <2>1
  <2> QED BY <1>0, <1>5, <2>1, <2>2, NextStep, ErrStep DEF fetch_contract_abi
<1>6. CASE acquire(t)
  <2>1. todo[t] # <<>> /\ doing(t, "lock") /\ Head(queue) = t /\ proceed(t, Tail(todo[t]))
    BY <1>6 DEF acquire, doing
  <2>2. ~doing(t, "prepare") /\ ~doing(t, "send") /\ ~doing(t, "receipt")
    BY <1>0, <2>1
  <2> QED BY <1>0, <1>6, <2>1, <2>2, NextStep DEF acquire
<1>7. CASE prepare_transaction(t)
  <2>1. /\ todo[t] # <<>> /\ doing(t, "prepare") /\ nonce[t] # NoNonce
        /\ proceed(t, Tail(todo[t]))
    BY <1>7 DEF prepare_transaction, doing
  <2>2. ~doing(t, "lock") /\ ~doing(t, "send") /\ ~doing(t, "receipt")
    BY <1>0, <2>1
  <2>3. has(t)
    BY <2>1 DEF FInv, CallOK
  <2> QED BY <1>0, <1>7, <2>1, <2>2, <2>3, NextStep DEF prepare_transaction
<1>8. CASE sendReturns(t)
  <2>1. todo[t] # <<>> /\ doing(t, "send") /\ reply[t] = "accepted" /\ proceed(t, Tail(todo[t]))
    BY <1>8 DEF sendReturns, doing
  <2>2. ~doing(t, "lock") /\ ~doing(t, "prepare") /\ ~doing(t, "receipt")
    BY <1>0, <2>1
  <2>3. t \in accepted
    BY <2>1 DEF FInv, CallOK
  <2> QED BY <1>0, <1>8, <2>1, <2>2, <2>3, NextStep DEF sendReturns
<1>9. CASE sendErrs(t)
  <2>1. todo[t] # <<>> /\ ~doing(t, "lock")
    BY <1>0, <1>9 DEF sendErrs, doing
  <2> QED BY <1>0, <1>9, <2>1, ErrStep DEF sendErrs
<1>10. CASE receiptReturns(t)
  <2>1. todo[t] # <<>> /\ doing(t, "receipt") /\ included(t) /\ proceed(t, Tail(todo[t]))
    BY <1>10 DEF receiptReturns, doing
  <2>2. ~doing(t, "lock") /\ ~doing(t, "prepare") /\ ~doing(t, "send")
    BY <1>0, <2>1
  <2>3. at[t] \in Endpoints
    BY <1>0, <1>10 DEF receiptReturns, answered
  <2>4. PICK i \in 1 .. view[at[t]] : chain[i] = t
    BY <2>1 DEF included
  <2>5. view[at[t]] \in Nat /\ view[at[t]] <= Len(chain) /\ Len(chain) \in Nat
    BY <2>3 DEF FInv, ClientTyped, ChainOK
  <2>6. i \in 1 .. Len(chain) /\ i \in Int
    BY <2>4, <2>5
  <2>7. nonce[t].n = i - 1
    BY <2>4, <2>6 DEF FInv, ChainOK
  <2>8. nonce[t].n < view[at[t]]
    BY <2>5, <2>6, <2>7
  <2> QED BY <1>0, <1>10, <2>1, <2>2, <2>8, NextStep DEF receiptReturns
<1>11. CASE receiptTimesOut(t)
  <2>1. todo[t] # <<>> /\ ~doing(t, "lock")
    BY <1>0, <1>11 DEF receiptTimesOut, doing
  <2> QED BY <1>0, <1>11, <2>1, ErrStep DEF receiptTimesOut
<1>12. CASE cancel(t)
  <2>1. todo[t] # <<>> /\ Plan(todo[t])
    BY <1>12, Under DEF cancel
  <2>2. ~doing(t, "lock")
    BY <1>12, <2>1, PlanEnds DEF cancel, doing
  <2> QED BY <1>0, <1>12, <2>1, <2>2, ErrStep DEF cancel
<1> QED BY <1>1, <1>2, <1>3, <1>4, <1>5, <1>6, <1>7, <1>8, <1>9, <1>10, <1>11, <1>12, <1>13
    DEF goesOn

\* Every endpoint has seen a caller's place in the chain, or hands it out again.
LEMMA ReadNonceStep ==
  ASSUME FInv, NEW t \in Callers, readNonce(t)
  PROVE  FInv'
<1> DEFINE r == [n |-> view[at[t]], from |-> at[t]]
<1>1. /\ nonce' = [nonce EXCEPT ![t] = r] /\ doing(t, "prepare") /\ at[t] \in Endpoints
      /\ UNCHANGED <<up, todo, at, reply, outcome, queue, pending, chain, view, accepted>>
  BY DEF readNonce, network, FInv, ClientTyped
<1>2. r.n = view[at[t]] /\ r.from = at[t]
  OBVIOUS
<1>3. at[t] \in 1 .. N /\ view[at[t]] \in Nat /\ N \in Nat
  BY <1>1, ClientAssumption DEF Endpoints, FInv, ClientTyped
<1>4. r \in [n : Nat, from : 0 .. N] /\ r.from # 0
  BY <1>3
<1> HIDE DEF r
<1>5. nonce'[t] = r /\ \A d \in Callers : d # t => nonce'[d] = nonce[d]
  BY <1>1 DEF FInv, ClientTyped
<1>6. t \notin accepted /\ outcome[t] = "running"
  BY <1>1 DEF FInv, CallOK, doing
<1>7. ClientTyped'
  BY <1>1, <1>4 DEF FInv, ClientTyped
<1>8. ASSUME NEW d \in Callers PROVE CallOK(d)'
  <2>1. CallOK(d)
    BY DEF FInv
  <2>2. CASE d = t
    <3>1. doing(t, "prepare")' /\ has(t)' /\ ~doing(t, "send")' /\ ~doing(t, "receipt")'
      BY <1>1, <1>4, <1>5 DEF doing, has
    <3> QED BY <1>1, <1>6, <2>1, <2>2, <3>1 DEF CallOK, calling, doing
  <2>3. CASE d # t
    BY <1>1, <1>5, <2>1, <2>3 DEF CallOK, calling, doing, has
  <2> QED BY <2>2, <2>3
<1>9. LockOK'
  BY <1>1 DEF FInv, LockOK, holding
<1>10. ChainOK'
  BY <1>1, <1>5, <1>6 DEF FInv, ClientTyped, ChainOK
<1>11. Ordered'
  <2> SUFFICES ASSUME NEW s \in Callers, NEW d \in Callers, s # d, outcome'[s] = "returned"
               PROVE  /\ (holding(d) /\ has(d) => Past(d, s))'
                      /\ outcome'[d] = "returned" => Past(d, s)' \/ Past(s, d)'
    BY DEF Ordered
  <2>1. s # t /\ outcome[s] = "returned" /\ nonce'[s] = nonce[s] /\ at'[s] = at[s]
    BY <1>1, <1>5, <1>6
  <2>2. CASE d = t
    <3>1. at[s] = at[t] => nonce[s].n < view[at[t]]
      BY <2>1 DEF FInv, CallOK
    <3>2. Past(t, s)'
      BY <1>2, <1>3, <1>5, <2>1, <3>1 DEF Past, FInv, ClientTyped
    <3> QED BY <1>1, <1>6, <2>2, <3>2
  <2>3. CASE d # t
    BY <1>1, <1>5, <2>1, <2>3 DEF FInv, Ordered, Past, holding, has
  <2> QED BY <2>2, <2>3
<1> QED BY <1>7, <1>8, <1>9, <1>10, <1>11 DEF FInv

\* A node takes a transaction, whether or not its answer arrives.
LEMMA AcceptStep ==
  ASSUME FInv, NEW t \in Callers, nodeAccepts(t)
  PROVE  FInv'
<1>1. /\ doing(t, "send") /\ reply' = [reply EXCEPT ![t] = "accepted"]
      /\ accepted' = accepted \cup {t}
      /\ (nonce[t].n = Len(chain) /\ pending' = t) \/ pending' = pending
      /\ UNCHANGED <<up, todo, at, nonce, outcome, queue, chain, view>>
  BY DEF nodeAccepts
<1>2. ClientTyped'
  BY <1>1 DEF FInv, ClientTyped
<1>3. ASSUME NEW d \in Callers PROVE CallOK(d)'
  <2>1. CallOK(d)
    BY DEF FInv
  <2>2. /\ d # t => reply'[d] = reply[d] /\ (d \in accepted' <=> d \in accepted)
        /\ d = t => d \in accepted'
    BY <1>1 DEF FInv, ClientTyped
  <2> QED BY <1>1, <2>1, <2>2 DEF CallOK, calling, doing, has
<1>4. LockOK' /\ ChainOK' /\ Ordered'
  BY <1>1 DEF FInv, LockOK, ChainOK, Ordered, holding, has, Past
<1> QED BY <1>2, <1>3, <1>4 DEF FInv

\* A block is made, or a node catches up with one.
LEMMA ChainStep ==
  ASSUME FInv, Mine \/ (\E e \in Endpoints : CatchUp(e))
  PROVE  FInv'
<1>1. /\ UNCHANGED <<up, todo, at, nonce, reply, outcome, queue, accepted>>
      /\ chain \in Seq(Callers) /\ Len(chain) \in Nat /\ view \in [Endpoints -> Nat]
  BY SMTT(30) DEF Mine, CatchUp, task, FInv, ClientTyped
<1>2. /\ chain' \in Seq(Callers) /\ view' \in [Endpoints -> Nat] /\ pending' \in Callers \cup {NoTx}
      /\ \A e \in Endpoints : view[e] <= view'[e] /\ view'[e] <= Len(chain')
      /\ \A i \in 1 .. Len(chain') : chain'[i] \in accepted /\ nonce[chain'[i]].n = i - 1
      /\ pending' # NoTx => pending' \in accepted /\ nonce[pending'].n = Len(chain')
  <2>1. CASE Mine
    <3>1. /\ pending \in accepted /\ nonce[pending].n = Len(chain) /\ pending \in Callers
          /\ chain' = Append(chain, pending) /\ view' = view /\ pending' = NoTx
      BY <2>1 DEF Mine, FInv, ChainOK, ClientTyped
    <3>2. /\ chain' \in Seq(Callers) /\ Len(chain') = Len(chain) + 1
          /\ chain'[Len(chain) + 1] = pending
          /\ \A i \in 1 .. Len(chain) : chain'[i] = chain[i]
      BY <1>1, <3>1
    <3>3. \A i \in 1 .. Len(chain') : i \in 1 .. Len(chain) \/ i = Len(chain) + 1
      BY <1>1, <3>2
    <3>4. \A i \in 1 .. Len(chain') : chain'[i] \in accepted /\ nonce[chain'[i]].n = i - 1
      BY <1>1, <3>1, <3>2, <3>3 DEF FInv, ChainOK
    <3>5. \A e \in Endpoints : view[e] <= view'[e] /\ view'[e] <= Len(chain')
      BY <1>1, <3>1, <3>2 DEF FInv, ChainOK
    <3> QED BY <1>1, <3>1, <3>2, <3>4, <3>5
  <2>2. ASSUME NEW e \in Endpoints, CatchUp(e)
        PROVE  /\ view' \in [Endpoints -> Nat]
               /\ \A f \in Endpoints : view[f] <= view'[f] /\ view'[f] <= Len(chain)
               /\ chain' = chain /\ pending' = pending
    BY <1>1, <2>2 DEF CatchUp, FInv, ChainOK
  <2> QED BY <1>1, <2>1, <2>2 DEF FInv, ChainOK, ClientTyped
<1>3. ClientTyped' /\ LockOK' /\ ChainOK' /\ Ordered'
  BY <1>1, <1>2 DEF FInv, ClientTyped, LockOK, ChainOK, Ordered, holding, has, Past
<1>4. ASSUME NEW t \in Callers PROVE CallOK(t)'
  <2>1. CallOK(t) /\ at[t] \in 0 .. N /\ nonce[t].n \in Nat
    BY DEF FInv, ClientTyped
  <2>2. outcome[t] = "returned" => nonce[t].n < view'[at[t]]
    <3> HAVE outcome[t] = "returned"
    <3>1. at[t] \in Endpoints
      BY <2>1, ClientAssumption DEF CallOK, Endpoints
    <3> QED BY <1>1, <1>2, <2>1, <3>1 DEF CallOK
  <2> QED BY <1>1, <2>1, <2>2 DEF CallOK, calling, doing, has
<1> QED BY <1>3, <1>4 DEF FInv

\* Each action keeps the invariant.
LEMMA NextFInv == FInv /\ [ClientNext]_clientVars => FInv'
<1> SUFFICES ASSUME FInv, [ClientNext]_clientVars PROVE FInv'
  OBVIOUS
<1>1. ASSUME UNCHANGED <<task, network>>, up' \subseteq Endpoints PROVE FInv'
  BY <1>1 DEF task, network, FInv, ClientTyped, CallOK, LockOK, ChainOK, Ordered, calling, doing,
              holding, has, Past
<1>2. CASE Tick \/ (\E e \in Endpoints : EndpointFlips(e)) \/ UNCHANGED clientVars
  BY <1>1, <1>2 DEF Tick, EndpointFlips, clientVars, FInv, ClientTyped
<1> QED BY <1>2, CallStep, ReadNonceStep, AcceptStep, ChainStep DEF ClientNext

\* Among any callers and endpoints, whatever fails over: transactions with one
\* nonce need an error, or a nonce read elsewhere than the receipt before it.
THEOREM NonceReuse == ClientSpec => []NonceReuseNeedsFault
<1>1. FInv => NonceReuseNeedsFault
  <2> SUFFICES ASSUME FInv, NEW s \in Callers, NEW t \in Callers, SameNonce(s, t),
                      "raised" \notin {outcome[s], outcome[t]}
               PROVE  ReadElsewhere(s, t) \/ ReadElsewhere(t, s)
    BY DEF NonceReuseNeedsFault
  <2>1. /\ s # t /\ s \in accepted /\ t \in accepted /\ nonce[s].n = nonce[t].n
        /\ nonce[s].n \in Nat
    BY DEF SameNonce, FInv, ClientTyped
  <2>2. \A d \in {s, t} : outcome[d] = "returned" \/ (holding(d) /\ has(d))
    BY <2>1 DEF FInv, ClientTyped, CallOK, holding, doing, Taken
  <2>3. ~(holding(s) /\ holding(t))
    BY <2>1 DEF FInv, LockOK
  <2>4. ~(nonce[s].n > nonce[t].n) /\ ~(nonce[t].n > nonce[s].n)
    BY <2>1
  <2> QED BY <2>1, <2>2, <2>3, <2>4 DEF FInv, Ordered, Past, ReadElsewhere
<1> QED BY <1>1, InitFInv, NextFInv, PTL DEF ClientSpec
----------------------------------------------------------------------------
(* The types of the breaker                                                *)

BreakerTyped ==
  failures \in [Endpoints -> 0 .. Threshold] /\ cooldown \in [Endpoints -> 0 .. Cooldown]

\* A failure or an answer moves one breaker within its bounds.
LEMMA BreakerStep ==
  ASSUME BreakerTyped, NEW t \in Callers,
         \/ UNCHANGED breaker
         \/ answered(t)
         \/ /\ at[t] \in Endpoints
            /\ failures' = [failures EXCEPT ![at[t]] = IF @ < Threshold THEN @ + 1 ELSE @]
            /\ cooldown' = [cooldown EXCEPT ![at[t]] =
                                IF failures'[at[t]] >= Threshold THEN Cooldown ELSE @]
  PROVE  BreakerTyped'
<1>1. ASSUME answered(t) PROVE BreakerTyped'
  <2>1. failures' = [failures EXCEPT ![at[t]] = 0] /\ cooldown' = cooldown
    BY <1>1 DEF answered
  <2>2. 0 \in 0 .. Threshold
    BY ClientAssumption
  <2> QED BY <2>1, <2>2 DEF BreakerTyped
<1>2. ASSUME at[t] \in Endpoints,
             failures' = [failures EXCEPT ![at[t]] = IF @ < Threshold THEN @ + 1 ELSE @],
             cooldown' = [cooldown EXCEPT ![at[t]] =
                                IF failures'[at[t]] >= Threshold THEN Cooldown ELSE @]
      PROVE  BreakerTyped'
  <2>1. failures[at[t]] \in 0 .. Threshold
    BY <1>2 DEF BreakerTyped
  <2>2. (IF failures[at[t]] < Threshold THEN failures[at[t]] + 1 ELSE failures[at[t]]) \in 0 .. Threshold
    BY <2>1, ClientAssumption
  <2>3. failures' \in [Endpoints -> 0 .. Threshold]
    BY <1>2, <2>2 DEF BreakerTyped
  <2>4. cooldown' \in [Endpoints -> 0 .. Cooldown]
    BY <1>2, ClientAssumption DEF BreakerTyped
  <2> QED BY <2>3, <2>4 DEF BreakerTyped
<1> QED BY <1>1, <1>2 DEF breaker, BreakerTyped

\* Each action keeps the types of the breakers.
LEMMA NextBreaker == FInv /\ BreakerTyped /\ [ClientNext]_clientVars => BreakerTyped'
<1> SUFFICES ASSUME FInv, BreakerTyped, [ClientNext]_clientVars PROVE BreakerTyped'
  OBVIOUS
<1>1. ASSUME UNCHANGED breaker PROVE BreakerTyped'
  BY <1>1 DEF breaker, BreakerTyped
<1>2. ASSUME NEW t \in Callers, begin(t) \/ goesOn(t) \/ cancel(t) PROVE BreakerTyped'
  <2>1. CASE callFails(t)
    <3>1. at[t] \in Endpoints
      BY <2>1, ClientAssumption DEF callFails, FInv, ClientTyped, CallOK, Endpoints
    <3> QED BY <2>1, <3>1, BreakerStep DEF callFails
  <2>2. CASE answered(t)
    BY <2>2, BreakerStep
  <2>3. CASE UNCHANGED breaker
    BY <1>1, <2>3
  <2> QED BY <1>2, <2>1, <2>2, <2>3
      DEF goesOn, begin, cancel, readReturns, answerRefused, callErrs, fetch_contract_abi,
          acquire, readNonce, prepare_transaction, nodeAccepts, sendReturns, sendErrs,
          receiptReturns, receiptTimesOut
<1>3. CASE Tick
  <2>1. \A e \in Endpoints : (IF cooldown[e] > 0 THEN cooldown[e] - 1 ELSE 0) \in 0 .. Cooldown
    BY ClientAssumption DEF BreakerTyped
  <2> QED BY <1>3, <2>1 DEF Tick, BreakerTyped
<1>4. CASE Mine \/ (\E e \in Endpoints : CatchUp(e) \/ EndpointFlips(e)) \/ UNCHANGED clientVars
  BY <1>1, <1>4 DEF Mine, CatchUp, EndpointFlips, clientVars
<1> QED BY <1>2, <1>3, <1>4 DEF ClientNext

\* The client's types, and nobody who has left keeps a place in the queue of the
\* transaction lock.
THEOREM ClientTypeCorrect == ClientSpec => []ClientTypeOK
<1>1. ClientInit => BreakerTyped
  BY ClientAssumption DEF ClientInit, BreakerTyped
<1>2. FInv /\ BreakerTyped => ClientTypeOK
  <2> SUFFICES ASSUME FInv, BreakerTyped PROVE ClientTypeOK
    OBVIOUS
  <2>1. \A i \in 1 .. Len(queue) : queue[i] \in Callers /\ outcome[queue[i]] = "running"
    <3> TAKE i \in 1 .. Len(queue)
    <3>1. queue[i] \in Callers
      BY ElementOfSeq DEF FInv, ClientTyped
    <3> QED BY <3>1 DEF FInv, LockOK, CallOK
  <2> QED BY <2>1 DEF FInv, ClientTyped, BreakerTyped, ClientTypeOK
<1> QED BY <1>1, <1>2, InitFInv, NextFInv, NextBreaker, PTL DEF ClientSpec

================================================================================
