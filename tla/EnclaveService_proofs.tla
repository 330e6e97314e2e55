-------------------------- MODULE EnclaveService_proofs --------------------------
(***************************************************************************)
(* The token bucket, for every rate, burst and cost, and the gRPC server's *)
(* ingress quota, counters and tokens, for every number of clients.  The   *)
(* server uses the bucket through try_acquire alone, so each of its steps  *)
(* is a step of the bucket or leaves it as it is, and what holds of every  *)
(* behaviour of the bucket holds in the server.  The counters differ by    *)
(* the handlers that are between two of them, and each step moves one.     *)
(***************************************************************************)
EXTENDS EnclaveService, FiniteSetTheorems, TLAPS

----------------------------------------------------------------------------
(* The bucket                                                              *)

\* The two products that the steps change.
LEMMA Distributes ==
  ASSUME NEW r \in Int, NEW x \in Int
  PROVE  r * (x + 1) = r * x + r /\ (x + 1) * r = x * r + r
OBVIOUS

\* The products the bucket computes with are natural numbers.
LEMMA Products ==
  ASSUME BucketAssumption, BucketType
  PROVE  /\ Capacity \in Nat
         /\ Rate * (now - last_refill) \in Nat
         /\ Rate * (now - window) \in Nat
         /\ granted * Cost \in Nat
<1>1. \A a, b \in Nat : a * b \in Nat
  OBVIOUS
<1>2. now - last_refill \in Nat /\ now - window \in Nat
  BY DEF BucketType
<1> QED BY <1>1, <1>2 DEF BucketAssumption, BucketType, Capacity

\* A refill stops at the capacity of the bucket.
LEMMA Refilled ==
  ASSUME BucketAssumption, BucketType
  PROVE  refilled \in 0 .. Capacity
BY Products DEF BucketType, refilled

BInv == BucketType /\ WindowBound

\* The bucket starts full, with nothing granted.
LEMMA InitBInv == BucketInit => BInv
<1> SUFFICES ASSUME BucketInit PROVE BInv
  OBVIOUS
<1>1. Capacity \in Nat /\ Rate * 0 = 0 /\ 0 * Cost = 0
  <2>1. \A a, b \in Nat : a * b \in Nat
    OBVIOUS
  <2> QED BY <2>1, BucketAssumption DEF BucketAssumption, Capacity
<1>2. BucketType
  BY <1>1 DEF BucketInit, BucketType
<1>3. now - last_refill = 0 /\ now - window = 0
  BY DEF BucketInit
<1>4. WindowBound
  BY <1>1, <1>3 DEF BucketInit, WindowBound, refilled
<1> QED BY <1>2, <1>4 DEF BInv

\* A grant takes from the bucket what it adds to the grants of the window, and a
\* denial moves nothing.
LEMMA AcquireStep ==
  ASSUME BInv, NEW ok \in BOOLEAN, try_acquire(ok)
  PROVE  BInv'
<1> USE BucketAssumption
<1>1. BucketType /\ WindowBound /\ refilled \in 0 .. Capacity
  BY Refilled DEF BInv
<1>2. Capacity' = Capacity
  BY DEF Capacity
<1>3. tokens' \in 0 .. Capacity /\ granted' \in Nat
  <2>1. Capacity \in Nat
    BY <1>1, Products
  <2>2. CASE ok
    <3>1. refilled >= Cost
      BY <2>2 DEF try_acquire
    <3>2. tokens' = refilled - Cost /\ granted' = granted + 1
      BY <2>2 DEF try_acquire
    <3> QED BY <1>1, <2>1, <3>1, <3>2 DEF BucketType, BucketAssumption
  <2>3. CASE ~ok
    BY <1>1, <2>1, <2>3 DEF try_acquire, BucketType
  <2> QED BY <2>2, <2>3
<1>4. BucketType'
  BY <1>1, <1>2, <1>3 DEF try_acquire, BucketType
<1>5. refilled' = tokens'
  <2>1. now' - last_refill' = 0 /\ Rate * 0 = 0
    BY <1>1 DEF try_acquire, BucketType, BucketAssumption
  <2> QED BY <2>1, <1>2, <1>3 DEF refilled
<1>6. granted' * Cost + tokens' = granted * Cost + refilled
  <2>1. (granted + 1) * Cost = granted * Cost + Cost
    BY <1>1, Distributes DEF BucketType, BucketAssumption
  <2>2. granted * Cost \in Nat
    BY <1>1, Products
  <2>3. CASE ok
    BY <1>1, <2>1, <2>2, <2>3 DEF try_acquire, BucketAssumption
  <2>4. CASE ~ok
    BY <1>1, <2>4 DEF try_acquire
  <2> QED BY <2>3, <2>4
<1>7. WindowBound'
  BY <1>1, <1>2, <1>5, <1>6 DEF WindowBound, try_acquire
<1> QED BY <1>4, <1>7 DEF BInv

\* A tick earns at most Rate, which the allowance of the window gains too.
LEMMA TickStep ==
  ASSUME BInv, tick
  PROVE  BInv'
<1> USE BucketAssumption
<1>1. BucketType /\ WindowBound /\ refilled \in 0 .. Capacity
  BY Refilled DEF BInv
<1>2. /\ Rate * (now' - last_refill') = Rate * (now - last_refill) + Rate
      /\ Rate * (now' - window') = Rate * (now - window) + Rate
  <2>1. /\ now' - last_refill' = (now - last_refill) + 1
        /\ now' - window' = (now - window) + 1
        /\ now - last_refill \in Int /\ now - window \in Int
    BY <1>1 DEF tick, bucket, observer, BucketType
  <2> QED BY <2>1, Distributes DEF BucketAssumption
<1>3. BucketType'
  BY <1>1 DEF tick, bucket, observer, BucketType, Capacity
<1>4. refilled' <= refilled + Rate
  BY <1>1, <1>2, Products DEF tick, bucket, refilled, BucketType, BucketAssumption, Capacity
<1>5. refilled' \in Int
  BY <1>3, <1>2, <1>1, Products DEF refilled, BucketType, BucketAssumption, Capacity, tick, bucket
<1>6. granted' * Cost = granted * Cost /\ Capacity' = Capacity
  BY DEF tick, observer, Capacity
<1>7. WindowBound'
  BY <1>1, <1>2, <1>4, <1>5, <1>6, Products DEF WindowBound, BucketAssumption
<1> QED BY <1>3, <1>7 DEF BInv

\* Moving the window to the present: what is in the bucket is below its capacity.
LEMMA ObserveStep ==
  ASSUME BInv, observe
  PROVE  BInv'
<1> USE BucketAssumption
<1>1. BucketType /\ refilled \in 0 .. Capacity
  BY Refilled DEF BInv
<1>2. BucketType' /\ refilled' = refilled /\ Capacity' = Capacity
  BY <1>1 DEF observe, bucket, BucketType, refilled, Capacity
<1>3. now' - window' = 0 /\ Rate * 0 = 0 /\ granted' = 0 /\ 0 * Cost = 0
  BY <1>1 DEF observe, BucketType, BucketAssumption
<1>4. WindowBound'
  BY <1>1, <1>2, <1>3, Products DEF WindowBound
<1> QED BY <1>2, <1>4 DEF BInv

\* No step of the bucket raises what is granted plus what may still be.
LEMMA NextBInv == BInv /\ [BucketNext]_limiter => BInv'
<1> SUFFICES ASSUME BInv, [BucketNext]_limiter PROVE BInv'
  OBVIOUS
<1>1. CASE \E ok \in BOOLEAN : try_acquire(ok)
  BY <1>1, AcquireStep
<1>2. CASE tick
  BY <1>2, TickStep
<1>3. CASE observe
  BY <1>3, ObserveStep
<1>4. CASE UNCHANGED limiter
  BY <1>4 DEF BInv, BucketType, WindowBound, refilled, Capacity, limiter, bucket, observer
<1> QED BY <1>1, <1>2, <1>3, <1>4 DEF BucketNext

\* The quota holds at every moment of every run of the bucket.
THEOREM BucketWindow == BucketSpec => []WindowBound
<1>1. BInv => WindowBound
  BY DEF BInv
<1> QED BY <1>1, InitBInv, NextBInv, PTL DEF BucketSpec

----------------------------------------------------------------------------
(* The server's ingress                                                    *)

\* The accept loop never touches the bucket.
LEMMA ListenerKeepsBucket ==
  ASSUME AcceptLoop \/ drained \/ boot \/ acceptFails \/ shutdown_signal
  PROVE  UNCHANGED limiter
BY DEF AcceptLoop, drained, boot, acceptFails, shutdown_signal, acceptPlain, accept,
       handshakeOk, handshakeRejected

\* Only the interceptor asks the bucket for a token.
LEMMA HandlerStep ==
  ASSUME NEW c \in Clients, Handler(c)
  PROVE  [BucketNext]_limiter
<1>1. CASE rate_limit_interceptor(c)
  BY <1>1 DEF rate_limit_interceptor, BucketNext
<1>2. CASE health(c) \/ queryLock(c) \/ queryCount(c) \/ queryAnswer(c)
  BY <1>2 DEF health, queryLock, queryCount, queryAnswer
<1>3. CASE attestReport(c) \/ attestMint(c) \/ stream_ftso_feeds(c)
  BY <1>3 DEF attestReport, attestMint, stream_ftso_feeds
<1> QED BY <1>1, <1>2, <1>3 DEF Handler

\* Clients, signals and the tool leave the bucket alone; time and the window are its own.
LEMMA EnvironmentStep ==
  ASSUME Environment
  PROVE  [BucketNext]_limiter
<1>1. CASE boot \/ acceptFails \/ shutdown_signal
  BY <1>1, ListenerKeepsBucket
<1>2. CASE time
  BY <1>2 DEF time, BucketNext
<1>3. CASE watch
  BY <1>3 DEF watch, BucketNext
<1>4. CASE \E nonce \in Nonces, digest \in Digests : tool_mint(nonce, digest)
  BY <1>4 DEF tool_mint
<1>5. CASE \E c \in Clients : connect(c) \/ peerSpeaks(c) \/ \E req \in Requests : call(c, req)
  BY <1>5 DEF connect, peerSpeaks, call
<1> QED BY <1>1, <1>2, <1>3, <1>4, <1>5 DEF Environment

\* Every step of the server is a step of the bucket or none.
LEMMA ServiceStep == [Next]_vars => [BucketNext]_limiter
<1> SUFFICES ASSUME [Next]_vars PROVE [BucketNext]_limiter
  OBVIOUS
<1>1. CASE AcceptLoop \/ drained
  BY <1>1, ListenerKeepsBucket
<1>2. CASE Environment
  BY <1>2, EnvironmentStep
<1>3. CASE \E c \in Clients : Handler(c)
  BY <1>3, HandlerStep
<1>4. CASE UNCHANGED vars
  BY <1>4 DEF vars
<1> QED BY <1>1, <1>2, <1>3, <1>4 DEF Next

\* The server implements the bucket: whatever clients, connections and calls
\* interleave, its ingress is a behaviour of the bucket alone.
THEOREM ServiceUsesBucket == Spec => BucketSpec
<1>1. Init => BucketInit
  BY DEF Init
<1> QED BY <1>1, ServiceStep, PTL DEF Spec, BucketSpec

\* The quota holds in the server, for every mix of concurrent calls.
THEOREM ServiceQuota == Spec => []WindowBound
BY ServiceUsesBucket, BucketWindow, PTL

----------------------------------------------------------------------------
(* Counters                                                                *)

\* What a client's call may be: a query on its way, or no query at any of the
\* stages that count.
Counting == {"lock", "count", "observe"}
Querying(r) ==
  /\ r \in [op : {"query"}, stage : {"ingress"} \cup Counting,
            req : [op : {"query"}, prompt : {"blank", "text"}]]
  /\ r.stage = "lock" => r.req.prompt = "text"
Other(r) ==
  /\ {"op", "stage"} \subseteq DOMAIN r /\ r = [k \in DOMAIN r |-> r[k]]
  /\ r.op # "query" /\ r.stage \notin Counting
  /\ r.stage = "ingress" => "req" \in DOMAIN r /\ r.req.op # "query"

\* Text queries that the state lock has counted, and queries that the metric
\* has, not answered yet.
Locked  == {c \in Clients : Asked(c, "text") /\ rpc[c].stage \in {"count", "observe"}}
Metered == {c \in Clients : rpc[c].stage \in {"observe"}}

CountersTyped ==
  /\ DOMAIN rpc = Clients /\ rpc = [c \in Clients |-> rpc[c]]
  /\ \A c \in Clients : Querying(rpc[c]) \/ Other(rpc[c])
  /\ answered \in [{"OK", "INVALID_ARGUMENT"} -> Nat]

CInv == CountersTyped /\ CountersReconcile

\* Sets that agree except on c.
LEMMA OneMoves ==
  ASSUME NEW S, NEW T, S \subseteq Clients, T \subseteq Clients, NEW c \in Clients,
         \A d \in Clients \ {c} : d \in S <=> d \in T
  PROVE  /\ Cardinality(S) \in Nat /\ Cardinality(T) \in Nat
         /\ (c \in S <=> c \in T) => Cardinality(T) = Cardinality(S)
         /\ c \notin S /\ c \in T => Cardinality(T) = Cardinality(S) + 1
         /\ c \in S /\ c \notin T => Cardinality(T) = Cardinality(S) - 1
<1>1. IsFiniteSet(S) /\ IsFiniteSet(T)
  BY ServiceAssumption, FS_Subset
<1>2. Cardinality(S) \in Nat /\ Cardinality(T) \in Nat
  BY <1>1, FS_CardinalityType
<1>3. CASE c \in S <=> c \in T
  <2>1. S = T
    BY <1>3
  <2> QED BY <1>2, <1>3, <2>1
<1>4. CASE c \notin S /\ c \in T
  <2>1. T = S \cup {c}
    BY <1>4
  <2> QED BY <1>1, <1>2, <1>4, <2>1, FS_AddElement
<1>5. CASE c \in S /\ c \notin T
  <2>1. T = S \ {c}
    BY <1>5
  <2> QED BY <1>1, <1>2, <1>5, <2>1, FS_RemoveElement
<1> QED BY <1>3, <1>4, <1>5

\* A step that moves the call of c.
LEMMA CallMoves ==
  ASSUME CountersTyped, NEW c \in Clients, NEW r, rpc' = [rpc EXCEPT ![c] = r]
  PROVE  /\ DOMAIN rpc' = Clients /\ rpc' = [d \in Clients |-> rpc'[d]]
         /\ rpc'[c] = r /\ \A d \in Clients \ {c} : rpc'[d] = rpc[d]
         /\ Locked \subseteq Clients /\ Locked' \subseteq Clients
         /\ Metered \subseteq Clients /\ Metered' \subseteq Clients
         /\ \A d \in Clients \ {c} : /\ d \in Locked <=> d \in Locked'
                                     /\ d \in Metered <=> d \in Metered'
<1>1. /\ DOMAIN rpc' = Clients /\ rpc' = [d \in Clients |-> rpc'[d]]
      /\ rpc'[c] = r /\ \A d \in Clients \ {c} : rpc'[d] = rpc[d]
  BY DEF CountersTyped
<1> QED BY <1>1 DEF Locked, Metered, Asked

\* One that counts nothing: the call is at no counting stage before and after,
\* or a query comes to its first one.
LEMMA CountsNothing ==
  ASSUME CInv, NEW c \in Clients, NEW r, rpc' = [rpc EXCEPT ![c] = r],
         Querying(r) \/ Other(r), UNCHANGED counters,
         c \in Locked <=> c \in Locked', c \in Metered <=> c \in Metered'
  PROVE  CInv'
<1>1. CountersTyped'
  BY CallMoves DEF CInv, CountersTyped, counters
<1>2. Cardinality(Locked') = Cardinality(Locked) /\ Cardinality(Metered') = Cardinality(Metered)
  <2>1. /\ Locked \subseteq Clients /\ Locked' \subseteq Clients
        /\ Metered \subseteq Clients /\ Metered' \subseteq Clients
        /\ \A d \in Clients \ {c} : d \in Locked <=> d \in Locked'
        /\ \A d \in Clients \ {c} : d \in Metered <=> d \in Metered'
    BY CallMoves DEF CInv
  <2>2. Cardinality(Locked') = Cardinality(Locked)
    BY <2>1, OneMoves
  <2>3. Cardinality(Metered') = Cardinality(Metered)
    BY <2>1, OneMoves
  <2> QED BY <2>2, <2>3
<1>3. CountersReconcile'
  BY <1>2 DEF CInv, CountersReconcile, In, Locked, Metered, counters
<1> QED BY <1>1, <1>3 DEF CInv

\* A call that is answered without being counted.
LEMMA Uncounted ==
  ASSUME CInv, NEW c \in Clients, rpc[c].stage \notin {"count", "observe"},
         reply(c), UNCHANGED counters
  PROVE  CInv'
<1>1. rpc' = [rpc EXCEPT ![c] = Idle] /\ Other(Idle)
  BY DEF reply, Idle, Other, Counting
<1>2. rpc'[c] = Idle
  BY <1>1, CallMoves DEF CInv
<1>3. (c \in Locked <=> c \in Locked') /\ (c \in Metered <=> c \in Metered')
  BY <1>2 DEF Locked, Metered, Idle
<1> QED BY <1>1, <1>3, CountsNothing

\* Steps that leave the handlers and the counters alone keep the invariant.
LEMMA NotCalled == CInv /\ UNCHANGED <<rpc, counters>> => CInv'
BY DEF CInv, CountersTyped, CountersReconcile, In, Asked, counters

\* The interceptor sends a call to its handler or replies at once; it counts nothing.
LEMMA IngressStep ==
  ASSUME CInv, NEW c \in Clients, rate_limit_interceptor(c)
  PROVE  CInv'
<1>1. rpc[c].stage = "ingress" /\ UNCHANGED counters
  BY DEF rate_limit_interceptor, At
<1>2. CASE reply(c)
  BY <1>1, <1>2, Uncounted
<1>3. CASE goto(c, firstStage(rpc[c].req))
  <2> DEFINE r == [rpc[c] EXCEPT !.stage = firstStage(rpc[c].req)]
  <2>1. rpc' = [rpc EXCEPT ![c] = r]
    BY <1>3 DEF goto, CInv, CountersTyped
  <2>2. \/ Querying(r) /\ r.req.prompt = "text" /\ r.stage = "lock"
        \/ Querying(r) /\ r.req.prompt = "blank" /\ r.stage = "count"
        \/ Other(r) /\ r.stage = "handler"
    <3>1. CASE Querying(rpc[c])
      BY <1>1, <3>1 DEF Querying, Counting, firstStage
    <3>2. CASE Other(rpc[c])
      <4>1. firstStage(rpc[c].req) = "handler"
        BY <1>1, <3>2 DEF Other, firstStage
      <4>2. r = [k \in DOMAIN rpc[c] |-> IF k = "stage" THEN "handler" ELSE rpc[c][k]]
        BY <3>2, <4>1 DEF Other
      <4>3. r.stage = "handler" /\ r.op = rpc[c].op /\ DOMAIN r = DOMAIN rpc[c]
        BY <3>2, <4>2 DEF Other
      <4>4. r = [k \in DOMAIN r |-> r[k]]
        BY <4>2
      <4> QED BY <3>2, <4>3, <4>4 DEF Other, Counting
    <3> QED BY <3>1, <3>2 DEF CInv, CountersTyped
  <2> HIDE DEF r
  <2>3. rpc'[c] = r
    BY <2>1, CallMoves DEF CInv
  <2>4. (c \in Locked <=> c \in Locked') /\ (c \in Metered <=> c \in Metered')
    BY <1>1, <2>2, <2>3 DEF Locked, Metered, Asked
  <2> QED BY <1>1, <2>1, <2>2, <2>4, CountsNothing
<1> QED BY <1>2, <1>3 DEF rate_limit_interceptor

\* A new call stands before the interceptor, which counts nothing.
LEMMA CallStep ==
  ASSUME CInv, NEW c \in Clients, NEW req \in Requests, call(c, req)
  PROVE  CInv'
<1> DEFINE r == [op |-> req.op, stage |-> "ingress", req |-> req]
<1>1. rpc[c] = Idle /\ rpc' = [rpc EXCEPT ![c] = r] /\ UNCHANGED counters
  BY DEF call
<1>2. Querying(r) \/ Other(r)
  <2>1. CASE req \in [op : {"query"}, prompt : {"blank", "text"}]
    BY <2>1 DEF Querying, Counting
  <2>2. CASE req.op \in {"attest", "stream", "health"}
    BY <2>2 DEF Other, Counting
  <2> QED BY <2>1, <2>2 DEF Requests
<1>3. r.stage = "ingress"
  OBVIOUS
<1> HIDE DEF r
<1>4. rpc'[c] = r
  BY <1>1, CallMoves DEF CInv
<1>5. (c \in Locked <=> c \in Locked') /\ (c \in Metered <=> c \in Metered')
  BY <1>1, <1>3, <1>4 DEF Locked, Metered, Idle
<1> QED BY <1>1, <1>2, <1>5, CountsNothing

\* A call at a counting stage is a query.
LEMMA AtCounting ==
  ASSUME CInv, NEW c \in Clients, rpc[c].stage \in Counting
  PROVE  Querying(rpc[c])
BY DEF CInv, CountersTyped, Other

\* The next stage of a query.
LEMMA QueryMoves ==
  ASSUME CInv, NEW c \in Clients, rpc[c].stage \in Counting,
         NEW stage \in {"count", "observe"}, goto(c, stage)
  PROVE  /\ rpc' = [rpc EXCEPT ![c] = rpc'[c]] /\ Querying(rpc'[c])
         /\ rpc'[c].op = "query" /\ rpc'[c].stage = stage /\ rpc'[c].req = rpc[c].req
<1> DEFINE r == [rpc[c] EXCEPT !.stage = stage]
<1>1. rpc' = [rpc EXCEPT ![c] = r]
  BY DEF goto, CInv, CountersTyped
<1>2. Querying(r) /\ r.op = "query" /\ r.stage = stage /\ r.req = rpc[c].req
  BY AtCounting DEF Querying, Counting
<1> HIDE DEF r
<1>3. rpc'[c] = r
  BY <1>1, CallMoves DEF CInv
<1> QED BY <1>1, <1>2, <1>3

\* The locked count goes up, and the call is between the lock and its answer.
LEMMA LockStep ==
  ASSUME CInv, NEW c \in Clients, queryLock(c)
  PROVE  CInv'
<1>1. /\ rpc[c].stage = "lock" /\ goto(c, "count") /\ query_count' = query_count + 1
      /\ UNCHANGED <<queries_total, query_latency, answered>>
  BY DEF queryLock, At
<1>2. Querying(rpc[c]) /\ rpc[c].req.prompt = "text"
  BY <1>1, AtCounting DEF Counting, Querying
<1>3. /\ rpc' = [rpc EXCEPT ![c] = rpc'[c]] /\ Querying(rpc'[c])
      /\ rpc'[c].op = "query" /\ rpc'[c].stage = "count" /\ rpc'[c].req = rpc[c].req
  BY <1>1, QueryMoves DEF Counting
<1>4. CountersTyped'
  BY <1>1, <1>3, CallMoves DEF CInv, CountersTyped
<1>5. /\ c \notin Locked /\ c \in Locked'
      /\ c \notin Metered /\ c \notin Metered'
  BY <1>1, <1>2, <1>3 DEF Locked, Metered, Asked
<1>6. /\ Cardinality(Locked') = Cardinality(Locked) + 1 /\ Cardinality(Locked) \in Nat
      /\ Cardinality(Metered') = Cardinality(Metered)
  BY <1>3, <1>5, CallMoves, OneMoves DEF CInv
<1>7. CountersReconcile'
  BY <1>1, <1>6 DEF CInv, CountersTyped, CountersReconcile, In, Locked, Metered
<1> QED BY <1>4, <1>7 DEF CInv

\* The metric of the queries goes up before that of the answers.
LEMMA CountStep ==
  ASSUME CInv, NEW c \in Clients, queryCount(c)
  PROVE  CInv'
<1>1. /\ rpc[c].stage = "count" /\ goto(c, "observe") /\ queries_total' = queries_total + 1
      /\ UNCHANGED <<query_count, query_latency, answered>>
  BY DEF queryCount, At
<1>2. Querying(rpc[c])
  BY <1>1, AtCounting DEF Counting
<1>3. /\ rpc' = [rpc EXCEPT ![c] = rpc'[c]] /\ Querying(rpc'[c])
      /\ rpc'[c].op = "query" /\ rpc'[c].stage = "observe" /\ rpc'[c].req = rpc[c].req
  BY <1>1, QueryMoves DEF Counting
<1>4. CountersTyped'
  BY <1>1, <1>3, CallMoves DEF CInv, CountersTyped
<1>5. /\ c \in Locked <=> c \in Locked'
      /\ c \notin Metered /\ c \in Metered'
  BY <1>1, <1>2, <1>3 DEF Locked, Metered, Asked, Querying
<1>6. /\ Cardinality(Metered') = Cardinality(Metered) + 1 /\ Cardinality(Metered) \in Nat
      /\ Cardinality(Locked') = Cardinality(Locked)
  BY <1>3, <1>5, CallMoves, OneMoves DEF CInv
<1>7. CountersReconcile'
  BY <1>1, <1>6 DEF CInv, CountersTyped, CountersReconcile, In, Locked, Metered
<1> QED BY <1>4, <1>7 DEF CInv

\* The latency and the answer are counted in one step.
LEMMA AnswerStep ==
  ASSUME CInv, NEW c \in Clients, queryAnswer(c)
  PROVE  CInv'
<1> DEFINE status == IF rpc[c].req.prompt = "blank" THEN "INVALID_ARGUMENT" ELSE "OK"
<1>1. /\ rpc[c].stage = "observe" /\ query_latency' = query_latency + 1
      /\ rpc' = [rpc EXCEPT ![c] = Idle]
      /\ answered' = [answered EXCEPT ![status] = @ + 1]
      /\ UNCHANGED <<query_count, queries_total>>
  BY DEF queryAnswer, At, reply
<1>2. Querying(rpc[c])
  BY <1>1, AtCounting DEF Counting
<1>3. rpc'[c] = Idle
  BY <1>1, CallMoves DEF CInv
<1>4. CountersTyped'
  <2>1. Other(Idle)
    BY DEF Idle, Other, Counting
  <2>2. answered' \in [{"OK", "INVALID_ARGUMENT"} -> Nat]
    BY <1>1 DEF CInv, CountersTyped
  <2> QED BY <1>1, <1>3, <2>1, <2>2, CallMoves DEF CInv, CountersTyped
<1>5. /\ c \in Locked <=> rpc[c].req.prompt = "text"
      /\ c \notin Locked' /\ c \in Metered /\ c \notin Metered'
  BY <1>1, <1>2, <1>3 DEF Locked, Metered, Asked, Querying, Idle
<1>6. /\ Cardinality(Metered') = Cardinality(Metered) - 1
      /\ Cardinality(Locked) \in Nat /\ Cardinality(Metered) \in Nat
      /\ IF rpc[c].req.prompt = "text" THEN Cardinality(Locked') = Cardinality(Locked) - 1
                                       ELSE Cardinality(Locked') = Cardinality(Locked)
  BY <1>1, <1>5, CallMoves, OneMoves DEF CInv
<1>7. CountersReconcile'
  <2>1. rpc[c].req.prompt \in {"blank", "text"}
    BY <1>2 DEF Querying
  <2>2. CASE rpc[c].req.prompt = "text"
    BY <1>1, <1>6, <2>2 DEF CInv, CountersTyped, CountersReconcile, In, Locked, Metered
  <2>3. CASE rpc[c].req.prompt = "blank"
    BY <1>1, <1>6, <2>3 DEF CInv, CountersTyped, CountersReconcile, In, Locked, Metered
  <2> QED BY <2>1, <2>2, <2>3
<1> QED BY <1>4, <1>7 DEF CInv

\* A report is fetched, or the call fails.
LEMMA AttestStep ==
  ASSUME CInv, NEW c \in Clients, attestReport(c)
  PROVE  CInv'
<1>1. rpc[c].stage = "handler" /\ UNCHANGED counters
  BY DEF attestReport, At
<1>2. CASE reply(c)
  BY <1>1, <1>2, Uncounted
<1>3. CASE \E hw \in hardware(nonce_to_reportdata(rpc[c].req.nonce)) :
             rpc' = [rpc EXCEPT ![c] = [op |-> "attest", stage |-> "mint",
                                        req |-> @.req, report |-> hw]]
  <2>1. PICK hw : rpc' = [rpc EXCEPT ![c] = [op |-> "attest", stage |-> "mint",
                                             req |-> rpc[c].req, report |-> hw]]
    BY <1>3 DEF CInv, CountersTyped
  <2> DEFINE r == [op |-> "attest", stage |-> "mint", req |-> rpc[c].req, report |-> hw]
  <2>2. Other(r) /\ r.stage = "mint"
    BY DEF Other, Counting
  <2>3. rpc' = [rpc EXCEPT ![c] = r]
    BY <2>1
  <2> HIDE DEF r
  <2>4. rpc'[c] = r
    BY <2>3, CallMoves DEF CInv
  <2>5. (c \in Locked <=> c \in Locked') /\ (c \in Metered <=> c \in Metered')
    BY <1>1, <2>2, <2>4 DEF Locked, Metered
  <2> QED BY <1>1, <2>2, <2>3, <2>5, CountsNothing
<1> QED BY <1>2, <1>3 DEF attestReport

\* Each step moves one handler past one counter.
LEMMA NextCInv == CInv /\ [Next]_vars => CInv'
<1> SUFFICES ASSUME CInv, [Next]_vars PROVE CInv'
  OBVIOUS
<1>1. ASSUME AcceptLoop \/ drained \/ boot \/ acceptFails \/ shutdown_signal PROVE CInv'
  BY <1>1, NotCalled
     DEF AcceptLoop, drained, boot, acceptFails, shutdown_signal, acceptPlain, accept,
         handshakeOk, handshakeRejected
<1>2. ASSUME time \/ watch \/ \E nonce \in Nonces, digest \in Digests : tool_mint(nonce, digest)
      PROVE  CInv'
  BY <1>2, NotCalled DEF time, watch, tool_mint
<1>3. ASSUME NEW c \in Clients, connect(c) \/ peerSpeaks(c) PROVE CInv'
  BY <1>3, NotCalled DEF connect, peerSpeaks
<1>4. ASSUME NEW c \in Clients, NEW req \in Requests, call(c, req) PROVE CInv'
  BY <1>4, CallStep
<1>5. ASSUME NEW c \in Clients, Handler(c) PROVE CInv'
  <2>1. CASE rate_limit_interceptor(c)
    BY <2>1, IngressStep
  <2>2. CASE queryLock(c)
    BY <2>2, LockStep
  <2>3. CASE queryCount(c)
    BY <2>3, CountStep
  <2>4. CASE queryAnswer(c)
    BY <2>4, AnswerStep
  <2>5. CASE attestReport(c)
    BY <2>5, AttestStep
  <2>6. CASE health(c) \/ attestMint(c) \/ stream_ftso_feeds(c)
    BY <2>6, Uncounted DEF health, attestMint, stream_ftso_feeds, At
  <2> QED BY <1>5, <2>1, <2>2, <2>3, <2>4, <2>5, <2>6 DEF Handler
<1>6. CASE UNCHANGED vars
  BY <1>6, NotCalled DEF vars
<1> QED BY <1>1, <1>2, <1>3, <1>4, <1>5, <1>6 DEF Next, Environment

\* All counters start at zero.
LEMMA InitCInv == Init => CInv
<1> SUFFICES ASSUME Init PROVE CInv
  OBVIOUS
<1>1. rpc = [c \in Clients |-> Idle] /\ Other(Idle)
  BY DEF Init, Other, Idle, Counting
<1>2. CountersTyped
  BY <1>1 DEF Init, CountersTyped
<1>3. Locked = {} /\ Metered = {}
  BY <1>1 DEF Locked, Metered, Idle
<1>4. Cardinality(Locked) = 0 /\ Cardinality(Metered) = 0
  BY <1>3, FS_EmptySet
<1> QED BY <1>2, <1>4 DEF Init, CInv, CountersReconcile, In, Locked, Metered

\* Whatever handlers interleave between the lock and the metrics, the counters
\* reconcile with the answers (execute_query in grpc_server.rs).
THEOREM CountersAgree == Spec => []CountersReconcile
<1>1. CInv => CountersReconcile
  BY DEF CInv
<1> QED BY <1>1, InitCInv, NextCInv, PTL DEF Spec

----------------------------------------------------------------------------
(* Tokens                                                                  *)

\* The token that build_eat makes of a claim set.
Signed(claims, key) ==
  [cose |-> <<bstr(ProtectedHeader), map({}), bstr(encode_claims(claims)),
              bstr(sign(key, sig_structure(ProtectedHeader, encode_claims(claims))))>>,
   trailing |-> FALSE]

\* The payload of a session: its nonce, the digest of its build, a time of issue.
ClaimsOf(p, nonce, digest) ==
  /\ {"swname", "submods", "nonce", "iat"} \subseteq DOMAIN p
  /\ p.swname = DEFAULT_SWNAME /\ p.nonce = nonce /\ p.iat \in Nat
  /\ p.submods.image_digest = digest

\* What is in a payload with a nonce.
LEMMA Encoded ==
  ASSUME NEW nonce, nonce # Blank, NEW digest, NEW hw, NEW instance, NEW iat \in Nat, NEW m
  PROVE  ClaimsOf(encode_claims(EatClaims(nonce, DEFAULT_SWNAME, digest, hw, instance, iat, m)),
                  nonce, digest)
<1> DEFINE c == EatClaims(nonce, DEFAULT_SWNAME, digest, hw, instance, iat, m)
           always == [iat |-> iat, ueid |-> <<2, instance>>, swname |-> DEFAULT_SWNAME,
                      submods |-> [image_digest |-> digest, hardware |-> hw,
                                   instance_id |-> instance, rtmrs |-> <<m>>]]
           p == [k \in DOMAIN always \cup {"nonce"} |-> IF k = "nonce" THEN nonce ELSE always[k]]
<1>1. encode_claims(c) = p
  BY DEF encode_claims, EatClaims
<1>2. /\ {"swname", "submods", "nonce", "iat"} \subseteq DOMAIN p
      /\ p.swname = DEFAULT_SWNAME /\ p.nonce = nonce /\ p.iat \in Nat
      /\ p.submods.image_digest = digest
  OBVIOUS
<1> QED BY <1>1, <1>2 DEF ClaimsOf

\* An envelope of four parts.
Envelope(u) ==
  \E a, b, c, trailing : u = [cose |-> <<a, b, c, bstr(signature(u))>>, trailing |-> trailing]

\* What a minted token is read as.
LEMMA ReadSigned ==
  ASSUME NEW claims, NEW key, NEW u, u = Signed(claims, key)
  PROVE  /\ protected(u) = ProtectedHeader /\ payload(u) = encode_claims(claims)
         /\ signature(u) = sign(key, sig_structure(ProtectedHeader, encode_claims(claims)))
         /\ parse_cose_sign1(u) /\ Envelope(u)
<1> DEFINE a == bstr(ProtectedHeader)
           b == map({})
           c == bstr(encode_claims(claims))
           s == sign(key, sig_structure(ProtectedHeader, encode_claims(claims)))
<1>1. u = [cose |-> <<a, b, c, bstr(s)>>, trailing |-> FALSE]
  BY DEF Signed
<1>2. \A x : bstr(x).type = "bstr" /\ bstr(x).value = x
  BY DEF bstr
<1>3. /\ a.type = "bstr" /\ a.value = ProtectedHeader
      /\ c.type = "bstr" /\ c.value = encode_claims(claims)
      /\ bstr(s).type = "bstr" /\ bstr(s).value = s
  BY <1>2
<1>4. s = sign(key, sig_structure(ProtectedHeader, encode_claims(claims)))
  OBVIOUS
<1> HIDE DEF a, b, c, s
<1>5. Len(u.cose) = 4 /\ u.cose[1] = a /\ u.cose[3] = c /\ u.cose[4] = bstr(s)
  BY <1>1
<1>6. signature(u) = s
  BY <1>3, <1>5 DEF signature
<1>7. Envelope(u)
  BY <1>1, <1>6 DEF Envelope
<1> QED BY <1>3, <1>4, <1>5, <1>6, <1>7 DEF protected, payload, parse_cose_sign1

\* A signature covers the bytes it was made for, with s negated too.
LEMMA Covers ==
  ASSUME NEW key, NEW bytes, NEW s \in {sign(key, bytes), negated(sign(key, bytes))}
  PROVE  s.by = key /\ s.over = bytes
BY DEF sign, negated

\* Altering one part of an envelope leaves the fourth, or is the fourth.
LEMMA FourthPart ==
  ASSUME NEW a, NEW b, NEW c, NEW d, NEW trailing, NEW p, NEW i \in 1 .. 4
  PROVE  altered([cose |-> <<a, b, c, d>>, trailing |-> trailing], i, p).cose[4]
           = IF i = 4 THEN p ELSE d
BY DEF altered

\* Whatever happened to a token, if it is read at all then its signature is a minted
\* one, or a minted one with s negated.
LEMMA Corrupted ==
  ASSUME NEW others, NEW u \in others, Envelope(u),
         NEW t \in corrupted(u, others), parse_cose_sign1(t)
  PROVE  \E o \in others : signature(t) \in {signature(o), negated(signature(o))}
<1> DEFINE s == signature(u)
<1>1. PICK a, b, c, trailing : u = [cose |-> <<a, b, c, bstr(s)>>, trailing |-> trailing]
  BY DEF Envelope
<1>3. s = signature(u) /\ bstr(s).value = s
  BY DEF bstr
<1> HIDE DEF s
<1>2. \A p : \A i \in 1 .. 4 : altered(u, i, p).cose[4] = IF i = 4 THEN p ELSE bstr(s)
  BY <1>1, FourthPart
<1>4. t.cose[4] = bstr(s) => signature(t) = signature(u)
  BY <1>3 DEF signature
<1>5. \A o : t.cose[4] = o.cose[4] => signature(t) = signature(o)
  BY DEF signature
<1>6. \A x : t.cose[4] = bstr(x) => signature(t) = x
  BY DEF signature, bstr
<1>7. CASE t \in otherParts(u)
  <2>1. CASE t = [u EXCEPT !.cose = <<@[1], @[2], @[3]>>]
    <3>1. t.cose = <<a, b, c>>
      BY <1>1, <2>1
    <3> QED BY <3>1 DEF parse_cose_sign1
  <2>2. CASE t = [u EXCEPT !.cose = <<@[1], @[2], @[3], @[4], @[4]>>]
    <3>1. t.cose = <<a, b, c, bstr(s), bstr(s)>>
      BY <1>1, <2>2
    <3> QED BY <3>1 DEF parse_cose_sign1
  <2>3. CASE t = [u EXCEPT !.trailing = TRUE]
    <3>1. t.cose[4] = bstr(s)
      BY <1>1, <2>3
    <3> QED BY <3>1, <1>4
  <2>4. CASE \E p : t = altered(u, 2, p)
    BY <1>2, <1>4, <2>4
  <2>5. CASE \E i \in {1, 3, 4} : t = altered(u, i, [u.cose[i] EXCEPT !.type = "tstr"])
    <3>1. PICK i \in {1, 3, 4} : t = altered(u, i, [u.cose[i] EXCEPT !.type = "tstr"])
      BY <2>5
    <3>2. CASE i = 4
      <4>0. u.cose[4] = bstr(s)
        BY <1>1
      <4>1. t.cose[4] = [bstr(s) EXCEPT !.type = "tstr"]
        BY <1>2, <3>1, <3>2, <4>0
      <4>2. t.cose[4].value = s
        BY <4>1 DEF bstr
      <4> QED BY <4>2, <1>3 DEF signature
    <3>3. CASE i # 4
      BY <1>2, <1>4, <3>1, <3>3
    <3> QED BY <3>2, <3>3
  <2> QED BY <1>7, <2>1, <2>2, <2>3, <2>4, <2>5 DEF otherParts
<1>8. CASE \E p : t = altered(u, 1, p) \/ t = altered(u, 3, p)
  BY <1>2, <1>4, <1>8
<1>9. CASE \E o \in others : t = altered(u, 4, o.cose[4])
  BY <1>2, <1>5, <1>9
<1>10. CASE \E o \in others : t = altered(u, 4, bstr(negated(signature(o))))
  BY <1>2, <1>6, <1>10
<1>11. t \in otherHeader(u) => \E p : t = altered(u, 1, p)
  BY DEF otherHeader
<1>12. t \in otherClaims(u) => \E p : t = altered(u, 3, p)
  BY DEF otherClaims
<1> QED BY <1>7, <1>8, <1>9, <1>10, <1>11, <1>12 DEF corrupted

\* The verdict on a token that carries signed claims.
LEMMA VerdictOnSigned ==
  ASSUME NEW nonce, NEW digest, NEW key, NEW d, NEW e, NEW t,
         parse_cose_sign1(t), protected(t) = ProtectedHeader, ClaimsOf(payload(t), nonce, digest),
         signature(t).by = key,
         signature(t).over = sig_structure(ProtectedHeader, payload(t))
  PROVE  Verified(t, key, d, e) <=> d = digest /\ e = nonce
<1> DEFINE p == payload(t)
<1>1. /\ {"swname", "submods", "nonce", "iat"} \subseteq DOMAIN p
      /\ p.swname = DEFAULT_SWNAME /\ p.nonce = nonce /\ p.iat \in Nat
      /\ p.submods.image_digest = digest
  BY DEF ClaimsOf
<1>2. payload(t) = p
  OBVIOUS
<1> HIDE DEF p
<1>3. verify_cose_sign1(t, key) = "ok"
  <2>1. "alg" \in DOMAIN protected(t) /\ protected(t).alg = "ES256"
    BY DEF ProtectedHeader
  <2>2. verifies(signature(t), key, sig_structure(protected(t), payload(t)))
    BY DEF verifies
  <2> QED BY <2>1, <2>2 DEF verify_cose_sign1
<1>4. validate_claims(p, DEFAULT_SWNAME, {d}, {e}) = "ok" <=> d = digest /\ e = nonce
  <2>1. container_digest(p) = {digest}
    BY <1>1 DEF container_digest
  <2>2. ({d} # {} /\ {d} # {digest} <=> d # digest) /\ ({e} # {nonce} <=> e # nonce)
    OBVIOUS
  <2> QED BY <1>1, <2>1, <2>2 DEF validate_claims
<1> QED BY <1>2, <1>3, <1>4 DEF Verified, verify_eat

\* A verdict of "ok" needs four parts and a signature of the key over two of them.
LEMMA VerdictNeedsSignature ==
  ASSUME NEW t, NEW key, NEW d, NEW e, Verified(t, key, d, e)
  PROVE  /\ parse_cose_sign1(t)
         /\ signature(t).by = key
         /\ signature(t).over = sig_structure(protected(t), payload(t))
BY DEF Verified, verify_eat, verify_cose_sign1, verifies

\* What was minted: the signed claims of a session, under a key of its own, for a
\* report over the session's nonce.
Minted(i) ==
  /\ claimed(i.minter, i.nonce) # Blank
  /\ \E hw, instance, m : \E iat \in Nat :
       i.token = Signed(EatClaims(claimed(i.minter, i.nonce), DEFAULT_SWNAME, i.digest, hw,
                                  instance, iat, m), i.key)
  /\ i.report.reportdata = nonce_to_reportdata(i.nonce)
IssuedOK ==
  /\ IsFiniteSet(issued)
  /\ \A i \in issued : Minted(i) /\ i.key \in 0 .. Cardinality(issued) - 1
  /\ \A i, j \in issued : i.key = j.key => i = j

\* A minted token as it is read, and the verdict on one that carries its claims.
LEMMA MintedReads ==
  ASSUME NEW i, Minted(i)
  PROVE  /\ parse_cose_sign1(i.token) /\ Envelope(i.token)
         /\ protected(i.token) = ProtectedHeader
         /\ signature(i.token) = sign(i.key, sig_structure(ProtectedHeader, payload(i.token)))
         /\ ClaimsOf(payload(i.token), claimed(i.minter, i.nonce), i.digest)
<1> DEFINE nonce == claimed(i.minter, i.nonce)
<1>1. PICK hw, instance, m : \E iat \in Nat :
        i.token = Signed(EatClaims(nonce, DEFAULT_SWNAME, i.digest, hw, instance, iat, m), i.key)
  BY DEF Minted
<1>2. PICK iat \in Nat :
        i.token = Signed(EatClaims(nonce, DEFAULT_SWNAME, i.digest, hw, instance, iat, m), i.key)
  BY <1>1
<1> DEFINE claims == EatClaims(nonce, DEFAULT_SWNAME, i.digest, hw, instance, iat, m)
<1>3. ClaimsOf(encode_claims(claims), nonce, i.digest)
  BY Encoded DEF Minted
<1> HIDE DEF claims
<1>4. i.token = Signed(claims, i.key)
  BY <1>2 DEF claims
<1>5. /\ protected(i.token) = ProtectedHeader /\ payload(i.token) = encode_claims(claims)
      /\ signature(i.token) = sign(i.key, sig_structure(ProtectedHeader, encode_claims(claims)))
      /\ parse_cose_sign1(i.token) /\ Envelope(i.token)
  BY <1>4, ReadSigned
<1> QED BY <1>3, <1>5

\* The verdict on what carries the claims of a minted token.
LEMMA VerdictOnCarried ==
  ASSUME NEW i, Minted(i), NEW t, carries(t, i.token), NEW d, NEW e
  PROVE  Verified(t, i.key, d, e) <=> d = i.digest /\ e = claimed(i.minter, i.nonce)
<1>1. /\ protected(i.token) = ProtectedHeader
      /\ signature(i.token) = sign(i.key, sig_structure(ProtectedHeader, payload(i.token)))
      /\ ClaimsOf(payload(i.token), claimed(i.minter, i.nonce), i.digest)
  BY MintedReads
<1>2. /\ parse_cose_sign1(t) /\ protected(t) = ProtectedHeader
      /\ payload(t) = payload(i.token)
      /\ signature(t) \in {signature(i.token), negated(signature(i.token))}
  BY <1>1 DEF carries
<1>3. /\ signature(t).by = i.key
      /\ signature(t).over = sig_structure(ProtectedHeader, payload(t))
  BY <1>1, <1>2, Covers
<1> QED BY <1>1, <1>2, <1>3, VerdictOnSigned

\* What is signed determines the header and the claims.
LEMMA SignedOnce ==
  ASSUME NEW h, NEW x, NEW g, NEW y, sig_structure(h, x) = sig_structure(g, y)
  PROVE  h = g /\ x = y
BY DEF sig_structure

\* A token that verifies under a minting key carries what was signed under it.
LEMMA VerifiedCarries ==
  ASSUME IssuedOK, NEW i \in issued, NEW o \in issued, NEW t, NEW d, NEW e,
         signature(t) \in {signature(o.token), negated(signature(o.token))},
         Verified(t, i.key, d, e)
  PROVE  carries(t, i.token)
<1>1. /\ parse_cose_sign1(t) /\ signature(t).by = i.key
      /\ signature(t).over = sig_structure(protected(t), payload(t))
  BY VerdictNeedsSignature
<1>2. /\ protected(o.token) = ProtectedHeader
      /\ signature(o.token) = sign(o.key, sig_structure(ProtectedHeader, payload(o.token)))
  BY MintedReads DEF IssuedOK
<1>3. /\ signature(t).by = o.key
      /\ signature(t).over = sig_structure(ProtectedHeader, payload(o.token))
  BY <1>2, Covers
<1>4. o = i
  BY <1>1, <1>3 DEF IssuedOK
<1>5. protected(t) = ProtectedHeader /\ payload(t) = payload(i.token)
  <2>1. sig_structure(protected(t), payload(t)) = sig_structure(ProtectedHeader, payload(o.token))
    BY <1>1, <1>3
  <2>2. protected(t) = ProtectedHeader /\ payload(t) = payload(o.token)
    BY <2>1, SignedOnce
  <2> QED BY <1>4, <2>2
<1> QED BY <1>1, <1>2, <1>4, <1>5 DEF carries

\* The property follows from what is known of minted tokens.
LEMMA IssuedBind == IssuedOK => TokensBindSessions
<1> SUFFICES ASSUME IssuedOK PROVE TokensBindSessions
  OBVIOUS
<1>1. \A i \in issued : Minted(i)
  BY DEF IssuedOK
<1>2. \A t \in presented : t \in minted \/ \E u \in minted : t \in corrupted(u, minted)
  BY DEF presented
<1>3. \A u \in minted : Envelope(u) /\ \E i \in issued : u = i.token
  BY <1>1, MintedReads DEF minted
<1>4. ASSUME NEW t \in presented, parse_cose_sign1(t)
      PROVE  \E u \in minted : signature(t) \in {signature(u), negated(signature(u))}
  <2>1. CASE t \in minted
    BY <2>1
  <2>2. CASE \E u \in minted : t \in corrupted(u, minted)
    BY <1>3, <1>4, <2>2, Corrupted
  <2> QED BY <1>2, <2>1, <2>2
<1>5. ASSUME NEW t \in presented, NEW i \in issued, NEW d, NEW e
      PROVE  Verified(t, i.key, d, e)
               <=> carries(t, i.token) /\ d = i.digest /\ e = claimed(i.minter, i.nonce)
  <2>1. ASSUME Verified(t, i.key, d, e) PROVE carries(t, i.token)
    <3>1. parse_cose_sign1(t)
      BY <2>1, VerdictNeedsSignature
    <3>2. PICK o \in issued : signature(t) \in {signature(o.token), negated(signature(o.token))}
      BY <1>3, <1>4, <3>1
    <3> QED BY <2>1, <3>2, VerifiedCarries
  <2>2. carries(t, i.token) =>
          (Verified(t, i.key, d, e) <=> d = i.digest /\ e = claimed(i.minter, i.nonce))
    BY <1>1, VerdictOnCarried
  <2> QED BY <2>1, <2>2
<1>6. \A i \in issued : i.report.reportdata = nonce_to_reportdata(i.nonce)
  BY <1>1 DEF Minted
<1>7. \A t \in presented, i \in issued, d \in Digests, e \in expected :
        Verified(t, i.key, d, e)
          <=> carries(t, i.token) /\ d = i.digest /\ e = claimed(i.minter, i.nonce)
  BY <1>5
<1> QED BY <1>6, <1>7, Zenon DEF TokensBindSessions

\* A call for a token holds a nonce, and from the report on one that is not blank
\* and that the report is over.
Attesting(r) ==
  /\ r.op = "attest" /\ r.stage \in {"ingress", "handler"} => r.req.nonce \in Nonces
  /\ r.stage = "mint" => /\ r.req.nonce \in Nonces \ {Blank}
                         /\ r.report.reportdata = nonce_to_reportdata(r.req.nonce)

TInv == IssuedOK /\ \A c \in Clients : Attesting(rpc[c])

\* One more token, under a key that none of the others has.
LEMMA MintOne ==
  ASSUME IssuedOK, NEW i, Minted(i), i.key = Cardinality(issued), issued' = issued \cup {i}
  PROVE  IssuedOK'
<1>1. Cardinality(issued) \in Nat
  BY FS_CardinalityType DEF IssuedOK
<1>2. i \notin issued
  BY <1>1 DEF IssuedOK
<1>3. IsFiniteSet(issued') /\ Cardinality(issued') = Cardinality(issued) + 1
  BY <1>2, FS_AddElement DEF IssuedOK
<1>4. \A j \in issued' : Minted(j) /\ j.key \in 0 .. Cardinality(issued') - 1
  BY <1>1, <1>3 DEF IssuedOK
<1>5. \A j \in issued : j.key # i.key
  BY <1>1 DEF IssuedOK
<1> QED BY <1>3, <1>4, <1>5 DEF IssuedOK

\* What a mint appends: the token of a claim set under the next key, or none.
Appends(minter, nonce, digest, hw, iat, m, rep) ==
  issued' = issued \cup
    {[token |-> t, key |-> Cardinality(issued), minter |-> minter, nonce |-> nonce,
      digest |-> digest, report |-> rep] :
       t \in build_eat(EatClaims(claimed(minter, nonce), DEFAULT_SWNAME, digest, hw,
                                 Cardinality(issued), iat, m), Cardinality(issued))}

\* Minting keeps the tokens minted as they should be.
LEMMA MintClaims ==
  ASSUME IssuedOK, NEW minter, NEW nonce, claimed(minter, nonce) # Blank, NEW digest, NEW hw,
         NEW iat \in Nat, NEW m, NEW rep, rep.reportdata = nonce_to_reportdata(nonce),
         Appends(minter, nonce, digest, hw, iat, m, rep)
  PROVE  IssuedOK'
<1> DEFINE claims == EatClaims(claimed(minter, nonce), DEFAULT_SWNAME, digest, hw,
                               Cardinality(issued), iat, m)
           made   == build_eat(claims, Cardinality(issued))
           t == Signed(claims, Cardinality(issued))
           entry(u) == [token |-> u, key |-> Cardinality(issued), minter |-> minter,
                        nonce |-> nonce, digest |-> digest, report |-> rep]
<1>1. issued' = issued \cup {entry(u) : u \in made}
  BY DEF Appends
<1>2. made = {} \/ made = {t}
  BY DEF build_eat, Signed
<1>3. CASE made = {}
  <2>1. issued' = issued
    BY <1>1, <1>3
  <2> QED BY <2>1 DEF IssuedOK
<1>4. CASE made = {t}
  <2> DEFINE i == entry(t)
  <2>1. issued' = issued \cup {i}
    <3> HIDE DEF t, made
    <3> QED BY <1>1, <1>4
  <2>2. Minted(i)
    <3>1. i.token = Signed(EatClaims(claimed(minter, nonce), DEFAULT_SWNAME, digest, hw,
                                     Cardinality(issued), iat, m), Cardinality(issued))
      OBVIOUS
    <3>2. /\ i.minter = minter /\ i.nonce = nonce /\ i.digest = digest
          /\ i.key = Cardinality(issued) /\ i.report = rep
      OBVIOUS
    <3> HIDE DEF i
    <3> QED BY <3>1, <3>2 DEF Minted
  <2>3. i.key = Cardinality(issued)
    OBVIOUS
  <2> HIDE DEF i
  <2> QED BY <2>1, <2>2, <2>3, MintOne
<1> HIDE DEF made, t
<1> QED BY <1>2, <1>3, <1>4

\* What a device reports is over the digest of the nonce.
LEMMA Reported ==
  ASSUME NEW d, NEW hw \in hardware(d), hw.ok
  PROVE  hw.reportdata = d
<1>1. \A e : failed(e).ok = FALSE
  BY DEF failed
<1>2. \A dev : report(dev, d).reportdata = d
  BY DEF report
<1>3. \A found \in Found : get_tdreport(found, d).ok => get_tdreport(found, d).reportdata = d
  BY <1>1, <1>2 DEF get_tdreport, Found
<1>4. \A found \in Found, fw \in ExitInfo :
        get_snp_report(found, fw, d).ok => get_snp_report(found, fw, d).reportdata = d
  BY <1>1, <1>2 DEF get_snp_report, Found
<1> QED BY <1>3, <1>4 DEF hardware

\* A step that moves the call of c and mints nothing.
LEMMA AttestingMoves ==
  ASSUME TInv, CInv, NEW c \in Clients, NEW r, rpc' = [rpc EXCEPT ![c] = r], Attesting(r)
  PROVE  \A d \in Clients : Attesting(rpc'[d])
BY CallMoves DEF TInv, CInv

\* A reply ends a call and touches no other.
LEMMA Replies ==
  ASSUME TInv, CInv, NEW c \in Clients, reply(c)
  PROVE  \A d \in Clients : Attesting(rpc'[d])
<1>1. Attesting(Idle)
  BY DEF Attesting, Idle
<1> QED BY <1>1, AttestingMoves DEF reply

\* The interceptor passes the nonce of the call on.
LEMMA TIngressStep ==
  ASSUME TInv, CInv, NEW c \in Clients, rate_limit_interceptor(c)
  PROVE  TInv'
<1>1. rpc[c].stage = "ingress" /\ UNCHANGED issued
  BY DEF rate_limit_interceptor, At
<1>2. CASE reply(c)
  BY <1>1, <1>2, Replies DEF TInv, IssuedOK
<1>3. CASE goto(c, firstStage(rpc[c].req))
  <2> DEFINE r == [rpc[c] EXCEPT !.stage = firstStage(rpc[c].req)]
  <2>1. rpc' = [rpc EXCEPT ![c] = r]
    BY <1>3 DEF goto, CInv, CountersTyped
  <2>2. firstStage(rpc[c].req) \in {"handler", "count", "lock"}
    BY DEF firstStage
  <2>3. {"op", "stage", "req"} \subseteq DOMAIN rpc[c]
    BY <1>1 DEF CInv, CountersTyped, Querying, Other
  <2>4. r.op = rpc[c].op /\ r.req = rpc[c].req /\ r.stage \in {"handler", "count", "lock"}
    BY <2>2, <2>3
  <2> HIDE DEF r
  <2>5. Attesting(r)
    BY <1>1, <2>4 DEF TInv, Attesting
  <2> QED BY <1>1, <2>1, <2>5, AttestingMoves DEF TInv, IssuedOK
<1> QED BY <1>2, <1>3 DEF rate_limit_interceptor

\* A call brings one of the nonces.
LEMMA TCallStep ==
  ASSUME TInv, CInv, NEW c \in Clients, NEW req \in Requests, call(c, req)
  PROVE  TInv'
<1> DEFINE r == [op |-> req.op, stage |-> "ingress", req |-> req]
<1>1. rpc' = [rpc EXCEPT ![c] = r] /\ UNCHANGED issued
  BY DEF call
<1>2. req.op = "attest" => req.nonce \in Nonces
  BY DEF Requests
<1>3. r.op = req.op /\ r.stage = "ingress" /\ r.req = req
  OBVIOUS
<1> HIDE DEF r
<1>4. Attesting(r)
  BY <1>2, <1>3 DEF Attesting
<1> QED BY <1>1, <1>4, AttestingMoves DEF TInv, IssuedOK

\* Queries mint nothing.
LEMMA TQueryStep ==
  ASSUME TInv, CInv, NEW c \in Clients, queryLock(c) \/ queryCount(c)
  PROVE  TInv'
<1>1. PICK stage \in {"count", "observe"} : goto(c, stage) /\ UNCHANGED issued
  BY DEF queryLock, queryCount
<1>2. rpc[c].stage \in Counting
  BY DEF queryLock, queryCount, At, Counting
<1>3. /\ rpc' = [rpc EXCEPT ![c] = rpc'[c]]
      /\ rpc'[c].op = "query" /\ rpc'[c].stage = stage
  BY <1>1, <1>2, QueryMoves
<1>4. Attesting(rpc'[c])
  BY <1>3 DEF Attesting
<1> QED BY <1>1, <1>3, <1>4, AttestingMoves DEF TInv, IssuedOK

\* A blank nonce is refused; the report of any other is over it.
LEMMA ReportStep ==
  ASSUME TInv, CInv, NEW c \in Clients, attestReport(c)
  PROVE  TInv'
<1>1. /\ rpc[c].stage = "handler" /\ rpc[c].op = "attest" /\ UNCHANGED issued
      /\ rpc[c].req.nonce \in Nonces
  BY DEF attestReport, At, TInv, Attesting
<1>2. CASE reply(c)
  BY <1>1, <1>2, Replies DEF TInv, IssuedOK
<1>3. CASE ~reply(c)
  <2>1. PICK hw \in hardware(nonce_to_reportdata(rpc[c].req.nonce)) :
          hw.ok /\ rpc' = [rpc EXCEPT ![c] = [op |-> "attest", stage |-> "mint",
                                             req |-> @.req, report |-> hw]]
    BY <1>3 DEF attestReport
  <2>2. rpc[c].req.nonce # Blank
    BY <1>3 DEF attestReport
  <2> DEFINE r == [op |-> "attest", stage |-> "mint", req |-> rpc[c].req, report |-> hw]
  <2>3. rpc' = [rpc EXCEPT ![c] = r]
    BY <2>1 DEF CInv, CountersTyped
  <2>4. r.op = "attest" /\ r.stage = "mint" /\ r.req = rpc[c].req /\ r.report = hw
    OBVIOUS
  <2> HIDE DEF r
  <2>5. hw.reportdata = nonce_to_reportdata(rpc[c].req.nonce)
    BY <2>1, Reported
  <2>6. Attesting(r)
    BY <1>1, <2>2, <2>4, <2>5 DEF Attesting
  <2> QED BY <1>1, <2>3, <2>6, AttestingMoves DEF TInv, IssuedOK
<1> QED BY <1>2, <1>3

\* The handler mints for the nonce that its report is over.
LEMMA MintStep ==
  ASSUME TInv, CInv, now \in Nat, NEW c \in Clients, attestMint(c)
  PROVE  TInv'
<1> DEFINE nonce == rpc[c].req.nonce
           rep   == rpc[c].report
<1>1. /\ nonce \in Nonces /\ rep.reportdata = nonce_to_reportdata(nonce)
      /\ claimed("server", nonce) # Blank
      /\ claimed("server", nonce) = hex(sha256(nonce))
  BY EatAssumption DEF claimed, attestMint, At, TInv, Attesting
<1>3. Appends("server", nonce, image_digest, rep.device, now, measurement(rep), rep)
  BY <1>1 DEF attestMint, Appends
<1>4. IssuedOK'
  <2> HIDE DEF nonce, rep
  <2> QED BY <1>1, <1>3, MintClaims DEF TInv
<1> QED BY <1>4, Replies DEF attestMint, TInv

\* The command line tool mints as the handler does.
LEMMA ToolStep ==
  ASSUME TInv, now \in Nat, NEW nonce \in Nonces, NEW digest \in Digests, tool_mint(nonce, digest)
  PROVE  TInv'
<1>1. PICK found \in Found :
        LET hw     == get_tdreport(found, nonce_to_reportdata(nonce))
            key    == Cardinality(issued)
            claims == EatClaims(nonce, DEFAULT_SWNAME, digest, "intel-tdx", key, now, prefix(hw))
        IN  issued' = issued \cup
              {[token |-> t, key |-> key, minter |-> "tool", nonce |-> nonce,
                digest |-> digest, report |-> hw] :
                 t \in IF hw.ok THEN build_eat(claims, key) ELSE {}}
  BY DEF tool_mint
<1> DEFINE hw == get_tdreport(found, nonce_to_reportdata(nonce))
<1>2. claimed("tool", nonce) = nonce /\ nonce # Blank /\ UNCHANGED rpc
  BY DEF tool_mint, claimed
<1>3. CASE hw.ok
  <2>1. hw.reportdata = nonce_to_reportdata(nonce)
    BY <1>3 DEF get_tdreport, Found, failed, report
  <2>2. Appends("tool", nonce, digest, "intel-tdx", now, prefix(hw), hw)
    BY <1>1, <1>2, <1>3 DEF Appends
  <2> HIDE DEF hw
  <2>3. IssuedOK'
    BY <1>2, <2>1, <2>2, MintClaims DEF TInv
  <2> QED BY <1>2, <2>3 DEF TInv
<1>4. CASE ~hw.ok
  <2>1. issued' = issued
    BY <1>1, <1>4
  <2> QED BY <1>2, <2>1 DEF TInv, IssuedOK
<1> QED BY <1>3, <1>4

\* Only the two mints add a token, each under a key of its own.
LEMMA NextTInv == TInv /\ CInv /\ now \in Nat /\ [Next]_vars => TInv'
<1> SUFFICES ASSUME TInv, CInv, now \in Nat, [Next]_vars PROVE TInv'
  OBVIOUS
<1>0. UNCHANGED <<rpc, issued>> => TInv'
  BY DEF TInv, IssuedOK
<1>1. ASSUME AcceptLoop \/ drained \/ boot \/ acceptFails \/ shutdown_signal PROVE TInv'
  BY <1>1, <1>0
     DEF AcceptLoop, drained, boot, acceptFails, shutdown_signal, acceptPlain, accept,
         handshakeOk, handshakeRejected
<1>2. ASSUME time \/ watch PROVE TInv'
  BY <1>0, <1>2 DEF time, watch
<1>3. ASSUME NEW c \in Clients, connect(c) \/ peerSpeaks(c) PROVE TInv'
  BY <1>0, <1>3 DEF connect, peerSpeaks
<1>4. ASSUME NEW c \in Clients, NEW req \in Requests, call(c, req) PROVE TInv'
  BY <1>4, TCallStep
<1>5. ASSUME NEW nonce \in Nonces, NEW digest \in Digests, tool_mint(nonce, digest) PROVE TInv'
  BY <1>5, ToolStep
<1>6. ASSUME NEW c \in Clients, Handler(c) PROVE TInv'
  <2>1. CASE rate_limit_interceptor(c)
    BY <2>1, TIngressStep
  <2>2. CASE queryLock(c) \/ queryCount(c)
    BY <2>2, TQueryStep
  <2>3. CASE attestReport(c)
    BY <2>3, ReportStep
  <2>4. CASE attestMint(c)
    BY <2>4, MintStep
  <2>5. CASE health(c) \/ queryAnswer(c) \/ stream_ftso_feeds(c)
    BY <2>5, Replies DEF health, queryAnswer, stream_ftso_feeds, TInv, IssuedOK
  <2> QED BY <1>6, <2>1, <2>2, <2>3, <2>4, <2>5 DEF Handler
<1>7. CASE UNCHANGED vars
  BY <1>0, <1>7 DEF vars
<1> QED BY <1>1, <1>2, <1>3, <1>4, <1>5, <1>6, <1>7 DEF Next, Environment

\* Nothing is minted at first.
LEMMA InitTInv == Init => TInv
<1> SUFFICES ASSUME Init PROVE TInv
  OBVIOUS
<1>1. IssuedOK
  BY FS_EmptySet DEF Init, IssuedOK
<1>2. Attesting(Idle)
  BY DEF Attesting, Idle
<1> QED BY <1>1, <1>2 DEF Init, TInv

\* Session binding: a token verifies under a minting key, a digest and an expected
\* nonce exactly when the header and the claims it carries were signed under that
\* key, for that digest and the session with that nonce, and the report behind them
\* is over it (get_attestation_token, build_eat and verify_eat), for every mix of
\* sessions.  What no signature covers, the unprotected header and the bytes behind
\* the envelope, may be anything.
THEOREM TokensBound == Spec => []TokensBindSessions
<1>1. BInv => now \in Nat
  BY DEF BInv, BucketType
<1>2. Init => BInv
  BY InitBInv DEF Init
<1>3. BInv /\ [Next]_vars => BInv'
  BY ServiceStep, NextBInv
<1>4. TInv => TokensBindSessions
  BY IssuedBind DEF TInv
<1> QED BY <1>1, <1>2, <1>3, <1>4, InitTInv, NextTInv, InitCInv, NextCInv, PTL DEF Spec
=============================================================================
