------------------------ MODULE EnclaveGateway_proofs ------------------------
(***************************************************************************)
(* Proofs about EnclaveGateway for any requests, pool, lifetimes and       *)
(* timeouts.                                                               *)
(***************************************************************************)
EXTENDS EnclaveGateway, TLAPS

ThreadTypes ==
  /\ queue \in Seq(Jobs \cup {Cancelled})
  /\ worker \in [Jobs -> Busy \cup {"none", "queued", "finished"}]
  /\ result \in [Jobs -> {"none", "ok", "error"}]
  /\ orphans \in Nat

(* An entry of the queue that was not cancelled is a job that no thread    *)
(* has, and it is there once.                                              *)
QueueOK ==
  \A i \in 1 .. Len(queue) : queue[i] # Cancelled =>
    /\ worker[queue[i]] = "queued"
    /\ \A k \in 1 .. Len(queue) : queue[k] = queue[i] => k = i

(* The refresh loop has a fetch under way only where it awaits one. *)
RefreshIdle == phase \in {"deciding", "sleeping"} => worker[Refresh] = "none"

IInv == TypeOK /\ QueueOK /\ RefreshIdle /\ QueuedJobsAwaited /\ Scrubbed /\ WakesByMargin

----------------------------------------------------------------------------
(* The pauses of the refresh loop                                          *)

(* max() of two numbers is one of them and at least both. *)
LEMMA MaxPair == \A a, b \in Int : /\ Max({a, b}) \in {a, b}
                                   /\ Max({a, b}) >= a /\ Max({a, b}) >= b
<1> SUFFICES ASSUME NEW a \in Int, NEW b \in Int
             PROVE  Max({a, b}) \in {a, b} /\ Max({a, b}) >= a /\ Max({a, b}) >= b
  OBVIOUS
<1>1. \E x \in {a, b} : \A y \in {a, b} : x >= y
  <2>1. CASE a >= b BY <2>1
  <2>2. CASE b >= a BY <2>2
  <2> QED BY <2>1, <2>2
<1> QED BY <1>1 DEF Max

(* min() of two numbers is one of them and at most both. *)
LEMMA MinPair == \A a, b \in Int : /\ Min({a, b}) \in {a, b}
                                   /\ Min({a, b}) <= a /\ Min({a, b}) <= b
<1> SUFFICES ASSUME NEW a \in Int, NEW b \in Int
             PROVE  Min({a, b}) \in {a, b} /\ Min({a, b}) <= a /\ Min({a, b}) <= b
  OBVIOUS
<1>1. \E x \in {a, b} : \A y \in {a, b} : x <= y
  <2>1. CASE a <= b BY <2>1
  <2>2. CASE b <= a BY <2>2
  <2> QED BY <2>1, <2>2
<1> QED BY <1>1 DEF Min

States == [established : BOOLEAN, primary : 0 .. Lifetime, intel : 0 .. IntelLifetime]

(* The margin, a quarter of the lifetime, is a natural number. *)
LEMMA MarginType == REFRESH_MARGIN \in Nat
  BY ConstantsAssumption DEF REFRESH_MARGIN

(* However the loop looks at its state, it sleeps for the poll interval or *)
(* ends its sleep before the margin (run_refresh_loop and                  *)
(* _seconds_until_refresh).                                                *)
LEMMA PauseBounded ==
  ASSUME NEW h \in States, NEW failed \in BOOLEAN
  PROVE  /\ pause(h, failed) \in Nat
         /\ IF failed \/ ~h.established THEN pause(h, failed) <= Poll
            ELSE pause(h, failed) <= 1 \/ h.primary - pause(h, failed) >= REFRESH_MARGIN
<1>1. h.primary \in Nat /\ h.established \in BOOLEAN
  BY ConstantsAssumption DEF States
<1>2. CASE ~h.established \/ failed
  BY <1>2, ConstantsAssumption DEF pause
<1>3. CASE h.established /\ ~failed
  <2> DEFINE ahead == h.primary - REFRESH_MARGIN
             left == Max({0, ahead})
             capped == Min({left, MaxInterval})
  <2>0. ahead \in Int /\ MaxInterval \in Int /\ 0 \in Int /\ 1 \in Int
    BY <1>1, MarginType, ConstantsAssumption
  <2>1. left \in {0, ahead} /\ left >= 0 /\ left >= ahead
    BY <2>0, MaxPair, Zenon
  <2> HIDE DEF left
  <2>5. left \in Int
    BY <2>0, <2>1
  <2>2. capped \in {left, MaxInterval} /\ capped <= left /\ capped <= MaxInterval
    BY <2>0, <2>5, MinPair, Zenon
  <2>3. pause(h, failed) = Max({1, capped})
    BY <1>3, Zenon DEF pause, seconds_until_refresh, left
  <2> HIDE DEF capped
  <2>6. capped \in Int
    BY <2>0, <2>5, <2>2
  <2>4. Max({1, capped}) \in {1, capped} /\ Max({1, capped}) >= 1
    BY <2>0, <2>6, MaxPair, Zenon
  <2> QED BY <1>1, <1>3, <2>1, <2>2, <2>3, <2>4, MarginType
<1> QED BY <1>1, <1>2, <1>3

----------------------------------------------------------------------------
(* The executor                                                            *)

(* Queries, proofs and the refresh are different jobs. *)
LEMMA JobSets == /\ Refresh \in Jobs /\ Refresh \notin Requests
                 /\ Queries \subseteq Requests /\ Proofs \subseteq Requests
                 /\ Requests \subseteq Jobs /\ Refresh \notin Queries
                 /\ \A r \in Proofs : r \notin Queries
                 /\ \A r \in Queries : r \notin Fetchers
                 /\ Cancelled \notin Jobs
                 /\ \A j \in Jobs : j # Refresh => j \in Requests
  BY ConstantsAssumption DEF Jobs, Requests, Fetchers

(* A job that no thread has can be submitted (to_thread). *)
LEMMA SubmitOK ==
  ASSUME ThreadTypes, QueueOK, NEW j \in Jobs, NEW d, submit(j, d), worker[j] # "queued"
  PROVE  /\ ThreadTypes' /\ QueueOK'
         /\ worker' = [worker EXCEPT ![j] = "queued"]
         /\ timer' = [timer EXCEPT ![j] = d]
<1> USE DEF submit, ThreadTypes
<1>1. /\ Len(queue') = Len(queue) + 1
      /\ queue'[Len(queue) + 1] = j
      /\ \A i \in 1 .. Len(queue) : queue'[i] = queue[i]
  OBVIOUS
<1>2. \A i \in 1 .. Len(queue) : queue[i] # j
  BY JobSets DEF QueueOK
<1>3. ThreadTypes'
  OBVIOUS
<1>4. QueueOK'
  <2> SUFFICES ASSUME NEW i \in 1 .. Len(queue'), queue'[i] # Cancelled
               PROVE  /\ worker'[queue'[i]] = "queued"
                      /\ \A k \in 1 .. Len(queue') : queue'[k] = queue'[i] => k = i
    BY DEF QueueOK
  <2> Len(queue) \in Nat
    OBVIOUS
  <2>1. CASE i = Len(queue) + 1
    BY <2>1, <1>1, <1>2
  <2>2. CASE i \in 1 .. Len(queue)
    <3>1. queue[i] # Cancelled /\ worker[queue[i]] = "queued" /\ queue[i] \in Jobs
      BY <2>2, <1>1 DEF QueueOK
    <3> QED BY <2>2, <3>1, <1>1, <1>2 DEF QueueOK
  <2> QED BY <1>1, <2>1, <2>2
<1> QED BY <1>3, <1>4

(* The worker of a job that is not in the queue may change freely. *)
LEMMA OffQueueOK ==
  ASSUME ThreadTypes, QueueOK, NEW j \in Jobs, worker[j] # "queued",
         NEW w, worker' = [worker EXCEPT ![j] = w], UNCHANGED queue
  PROVE  QueueOK'
<1>1. \A i \in 1 .. Len(queue) : queue[i] # Cancelled => queue[i] # j /\ queue[i] \in Jobs
  BY DEF QueueOK, ThreadTypes
<1> QED BY <1>1 DEF QueueOK, ThreadTypes

(* A finished job can be collected: it is not in the queue. *)
LEMMA CollectOK ==
  ASSUME ThreadTypes, QueueOK, NEW j \in Jobs, worker[j] # "queued", collect(j)
  PROVE  ThreadTypes' /\ QueueOK' /\ worker' = [worker EXCEPT ![j] = "none"]
<1>1. QueueOK'
  BY OffQueueOK DEF collect
<1> QED BY <1>1 DEF collect, ThreadTypes

(* A job that is given up leaves no trace in the queue. *)
LEMMA AbandonOK ==
  ASSUME ThreadTypes, QueueOK, NEW j \in Jobs, abandon(j)
  PROVE  /\ ThreadTypes' /\ QueueOK'
         /\ worker' = [worker EXCEPT ![j] = IF j \in Queries /\ worker[j] \in Busy
                                            THEN worker[j] ELSE "none"]
<1> USE DEF abandon, ThreadTypes
<1>1. /\ queue' \in Seq(Jobs \cup {Cancelled})
      /\ Len(queue') = Len(queue)
      /\ \A i \in 1 .. Len(queue) : queue'[i] = IF queue[i] = j THEN Cancelled ELSE queue[i]
  BY DEF ReplaceAll
<1>2. ThreadTypes'
  BY <1>1
<1>3. QueueOK'
  <2> SUFFICES ASSUME NEW i \in 1 .. Len(queue), queue'[i] # Cancelled
               PROVE  /\ worker'[queue'[i]] = "queued"
                      /\ \A k \in 1 .. Len(queue) : queue'[k] = queue'[i] => k = i
    BY <1>1 DEF QueueOK
  <2>1. queue'[i] = queue[i] /\ queue[i] # j /\ queue[i] \in Jobs
    BY <1>1
  <2>2. \A k \in 1 .. Len(queue) : queue'[k] = queue[i] => queue[k] = queue[i]
    BY <1>1, <2>1, JobSets
  <2> QED BY <2>1, <2>2 DEF QueueOK
<1> QED BY <1>2, <1>3

----------------------------------------------------------------------------
(* The inductive invariant                                                 *)

(* The gateway starts with no state, no request and an empty executor. *)
LEMMA InitIInv == Init => IInv
<1> SUFFICES ASSUME Init PROVE IInv
  OBVIOUS
<1>1. TypeOK
  <2>1. held \in States /\ fetched \in 0 .. Lifetime
    BY ConstantsAssumption DEF Init, States
  <2>2. teeUp \in BOOLEAN /\ tdx \in BOOLEAN /\ failing \in BOOLEAN
    BY ConstantsAssumption DEF Init
  <2>3. queue \in Seq(Jobs \cup {Cancelled})
    BY DEF Init
  <2>4. /\ phase \in {"deciding", "primary", "intel", "sleeping"}
        /\ pc \in [Requests -> {"idle", "waiting", "proving"}] /\ timer \in [Jobs -> Nat]
        /\ worker \in [Jobs -> Busy \cup {"none", "queued", "finished"}]
        /\ result \in [Jobs -> {"none", "ok", "error"}] /\ orphans \in Nat
        /\ secrets \in [Requests -> SUBSET {"key", "plain"}]
    BY DEF Init
  <2> QED BY <2>1, <2>2, <2>3, <2>4 DEF TypeOK, States
<1>2. QueueOK /\ RefreshIdle
  BY JobSets DEF Init, QueueOK, RefreshIdle
<1>3. QueuedJobsAwaited /\ Scrubbed /\ WakesByMargin
  BY JobSets DEF Init, QueuedJobsAwaited, Scrubbed, WakesByMargin
<1> QED BY <1>1, <1>2, <1>3 DEF IInv

(* The loop goes to sleep with nothing under way. *)
LEMMA SleepOK ==
  ASSUME IInv, ThreadTypes', QueueOK', NEW h \in States, NEW failed \in BOOLEAN,
         held' = h, fetched' \in 0 .. Lifetime, failing' = failed, sleep(h, failed),
         worker' = [worker EXCEPT ![Refresh] = "none"],
         UNCHANGED <<machine, pc, secrets>>
  PROVE  IInv'
<1> USE DEF IInv
<1>1. pause(h, failed) \in Nat
  BY PauseBounded
<1>2. timer' \in [Jobs -> Nat] /\ timer'[Refresh] = pause(h, failed) /\ phase' = "sleeping"
  BY <1>1, JobSets DEF sleep, TypeOK
<1>3. TypeOK'
  BY <1>2 DEF TypeOK, ThreadTypes, States, machine
<1>4. RefreshIdle' /\ QueuedJobsAwaited' /\ Scrubbed'
  <2>1. worker'[Refresh] = "none" /\ \A j \in Requests : worker'[j] = worker[j]
    BY JobSets DEF TypeOK
  <2> QED BY <2>1, JobSets DEF RefreshIdle, QueuedJobsAwaited, Scrubbed
<1>5. WakesByMargin'
  BY <1>2, PauseBounded DEF WakesByMargin
<1> QED BY <1>3, <1>4, <1>5

(* The steps of the refresh loop *)
LEMMA RefreshIInv == IInv /\ RefreshSteps => IInv'
<1> SUFFICES ASSUME IInv, RefreshSteps PROVE IInv'
  OBVIOUS
<1> USE DEF IInv
<1>0. ThreadTypes /\ held \in States /\ FetchTimeout \in Nat /\ failing \in BOOLEAN
  BY ConstantsAssumption DEF TypeOK, ThreadTypes, States
<1>a. ASSUME submit(Refresh, FetchTimeout), worker[Refresh] # "queued",
             phase' \in {"primary", "intel"}, fetched' \in 0 .. Lifetime,
             UNCHANGED <<machine, held, failing, pc, secrets>>
      PROVE  IInv'
  <2>1. /\ ThreadTypes' /\ QueueOK' /\ worker' = [worker EXCEPT ![Refresh] = "queued"]
        /\ timer' = [timer EXCEPT ![Refresh] = FetchTimeout]
    BY <1>0, <1>a, SubmitOK, JobSets
  <2>2. TypeOK'
    BY <1>0, <1>a, <2>1 DEF TypeOK, ThreadTypes, machine
  <2>3. \A j \in Requests : worker'[j] = worker[j]
    BY <2>1, JobSets DEF TypeOK
  <2>4. RefreshIdle' /\ QueuedJobsAwaited' /\ Scrubbed' /\ WakesByMargin'
    BY <1>a, <2>3, JobSets DEF RefreshIdle, QueuedJobsAwaited, Scrubbed, WakesByMargin
  <2> QED BY <2>1, <2>2, <2>4
<1>1. CASE decide
  <2>1. worker[Refresh] = "none"
    BY <1>1 DEF decide, RefreshIdle
  <2>2. CASE phase' = "primary" /\ submit(Refresh, FetchTimeout)
    BY <1>1, <2>1, <2>2, <1>a DEF decide, TypeOK
  <2>3. CASE sleep(held, failing) /\ UNCHANGED threads
    <3>1. /\ ThreadTypes' /\ QueueOK' /\ held' = held /\ failing' = failing
          /\ fetched' \in 0 .. Lifetime /\ UNCHANGED <<machine, pc, secrets>>
      BY <1>0, <1>1, <2>3 DEF decide, threads, ThreadTypes, QueueOK, TypeOK
    <3>2. worker' = [worker EXCEPT ![Refresh] = "none"]
      BY <2>1, <2>3 DEF threads, TypeOK
    <3> QED BY <1>0, <2>3, <3>1, <3>2, SleepOK
  <2> QED BY <1>1, <2>2, <2>3 DEF decide
<1>2. CASE wake
  <2>1. worker[Refresh] = "none" /\ phase' = "deciding" /\ worker' = worker
    BY <1>2 DEF wake, RefreshIdle, threads
  <2>2. TypeOK' /\ QueueOK'
    BY <1>2 DEF wake, TypeOK, QueueOK, threads, machine
  <2>3. RefreshIdle' /\ QueuedJobsAwaited' /\ Scrubbed' /\ WakesByMargin'
    BY <1>2, <2>1, JobSets DEF wake, RefreshIdle, QueuedJobsAwaited, Scrubbed, WakesByMargin
  <2> QED BY <2>2, <2>3
<1>3. CASE refreshTimesOut
  <2>1. ThreadTypes' /\ QueueOK' /\ worker' = [worker EXCEPT ![Refresh] = "none"]
    BY <1>0, <1>3, AbandonOK, JobSets DEF refreshTimesOut
  <2>2. /\ held' = held /\ failing' = TRUE /\ fetched' \in 0 .. Lifetime
        /\ sleep(held, TRUE) /\ UNCHANGED <<machine, pc, secrets>>
    BY <1>3 DEF refreshTimesOut, refreshFails, TypeOK
  <2> QED BY <1>0, <2>1, <2>2, SleepOK
<1>4. CASE refreshErrs
  <2>1. ThreadTypes' /\ QueueOK' /\ worker' = [worker EXCEPT ![Refresh] = "none"]
    BY <1>0, <1>4, CollectOK, JobSets DEF refreshErrs
  <2>2. /\ held' = held /\ failing' = TRUE /\ fetched' \in 0 .. Lifetime
        /\ sleep(held, TRUE) /\ UNCHANGED <<machine, pc, secrets>>
    BY <1>4 DEF refreshErrs, refreshFails, TypeOK
  <2> QED BY <1>0, <2>1, <2>2, SleepOK
<1>b. ASSUME NEW h \in States, establish(h), worker[Refresh] = "finished",
             fetched' \in 0 .. Lifetime, UNCHANGED <<machine, pc, secrets>>
      PROVE  IInv'
  <2>1. ThreadTypes' /\ QueueOK' /\ worker' = [worker EXCEPT ![Refresh] = "none"]
    BY <1>0, <1>b, CollectOK, JobSets DEF establish
  <2>2. held' = h /\ failing' = FALSE /\ sleep(h, FALSE)
    BY <1>b DEF establish
  <2> QED BY <1>b, <2>1, <2>2, SleepOK
<1>5. CASE primaryFetched
  <2>1. CASE tdx
    BY <1>5, <2>1, <1>a, ConstantsAssumption DEF primaryFetched, TypeOK
  <2>2. CASE ~tdx
    <3>1. [established |-> TRUE, primary |-> Lifetime, intel |-> 0] \in States
      BY ConstantsAssumption DEF States
    <3> QED BY <1>5, <2>2, <3>1, <1>b DEF primaryFetched, TypeOK
  <2> QED BY <2>1, <2>2
<1>6. CASE intelFetched
  <2>1. [established |-> TRUE, primary |-> fetched, intel |-> IntelLifetime] \in States
    BY ConstantsAssumption DEF States, TypeOK
  <2>2. 0 \in 0 .. Lifetime
    BY ConstantsAssumption
  <2> QED BY <1>6, <2>1, <2>2, <1>b DEF intelFetched
<1> QED BY <1>1, <1>2, <1>3, <1>4, <1>5, <1>6 DEF RefreshSteps

(* A step of request r: the other jobs, their timers and the refresh loop  *)
(* are as they were.                                                       *)
Local(r) ==
  /\ pc' \in [Requests -> {"idle", "waiting", "proving"}]
  /\ secrets' \in [Requests -> SUBSET {"key", "plain"}]
  /\ timer' \in [Jobs -> Nat]
  /\ timer'[Refresh] = timer[Refresh] /\ worker'[Refresh] = worker[Refresh]
  /\ \A q \in Requests : q # r =>
       worker'[q] = worker[q] /\ pc'[q] = pc[q] /\ secrets'[q] = secrets[q]
  /\ UNCHANGED <<machine, cache>>

(* What a step of a request must establish about that request. *)
LEMMA RequestIInv ==
  ASSUME IInv, NEW r \in Requests, ThreadTypes', QueueOK', Local(r),
         worker'[r] = "queued" => pc'[r] = "waiting",
         r \in Queries /\ secrets'[r] # {} => worker'[r] \in {"keyed", "plain"},
         r \in Proofs /\ secrets'[r] # {} => pc'[r] # "idle"
  PROVE  IInv'
<1> USE DEF IInv, Local
<1>1. TypeOK'
  BY DEF TypeOK, ThreadTypes, machine, cache
<1>2. RefreshIdle' /\ WakesByMargin'
  BY DEF RefreshIdle, WakesByMargin, cache
<1>3. QueuedJobsAwaited'
  BY JobSets DEF QueuedJobsAwaited, cache
<1>4. Scrubbed'
  BY JobSets DEF Scrubbed
<1> QED BY <1>1, <1>2, <1>3, <1>4

(* The event-loop steps of v1_query *)
LEMMA QueryIInv == ASSUME IInv, NEW r \in Queries, QuerySteps(r) PROVE IInv'
<1> USE DEF IInv
<1>0. /\ ThreadTypes /\ r \in Jobs /\ r \in Requests /\ r \notin Proofs
      /\ QueryTimeout \in Nat
  BY ConstantsAssumption, JobSets DEF TypeOK, ThreadTypes
<1>1. CASE v1_query(r)
  <2>1. /\ ThreadTypes' /\ QueueOK' /\ worker' = [worker EXCEPT ![r] = "queued"]
        /\ timer' = [timer EXCEPT ![r] = QueryTimeout]
    BY <1>0, <1>1, SubmitOK DEF v1_query
  <2>2. /\ Local(r) /\ worker'[r] = "queued" /\ pc'[r] = "waiting" /\ secrets'[r] = {}
    BY <1>0, <1>1, <2>1, JobSets DEF v1_query, TypeOK, Local, Scrubbed
  <2> QED BY <1>0, <2>1, <2>2, RequestIInv
<1>2. CASE queryAnswered(r)
  <2>1. ThreadTypes' /\ QueueOK' /\ worker' = [worker EXCEPT ![r] = "none"]
    BY <1>0, <1>2, CollectOK DEF queryAnswered
  <2>2. /\ Local(r) /\ worker'[r] = "none" /\ secrets'[r] = {}
    BY <1>0, <1>2, <2>1, JobSets DEF queryAnswered, TypeOK, Local, Scrubbed
  <2> QED BY <1>0, <2>1, <2>2, RequestIInv
<1>3. CASE queryTimesOut(r)
  <2> DEFINE w == IF r \in Queries /\ worker[r] \in Busy THEN worker[r] ELSE "none"
  <2>1. ThreadTypes' /\ QueueOK' /\ worker' = [worker EXCEPT ![r] = w]
    BY <1>0, <1>3, AbandonOK DEF queryTimesOut
  <2>2. w # "queued" /\ (secrets[r] # {} => w \in {"keyed", "plain"})
    BY DEF Busy, Scrubbed
  <2> HIDE DEF w
  <2>3. Local(r) /\ worker'[r] = w /\ secrets'[r] = secrets[r]
    BY <1>0, <1>3, <2>1, JobSets DEF queryTimesOut, TypeOK, Local
  <2> QED BY <1>0, <2>1, <2>2, <2>3, RequestIInv
<1> QED BY <1>1, <1>2, <1>3 DEF QuerySteps

(* The event-loop steps of v1_attestation_proof *)
LEMMA ProofIInv == ASSUME IInv, NEW r \in Proofs, ProofSteps(r) PROVE IInv'
<1> USE DEF IInv
<1>0. /\ ThreadTypes /\ r \in Jobs /\ r \in Requests /\ r \notin Queries
      /\ FetchTimeout \in Nat
  BY ConstantsAssumption, JobSets DEF TypeOK, ThreadTypes
<1>1. CASE v1_attestation_proof(r)
  <2>1. /\ ThreadTypes' /\ QueueOK' /\ worker' = [worker EXCEPT ![r] = "queued"]
        /\ timer' = [timer EXCEPT ![r] = FetchTimeout]
    BY <1>0, <1>1, SubmitOK DEF v1_attestation_proof
  <2>2. Local(r) /\ pc'[r] = "waiting"
    BY <1>0, <1>1, <2>1, JobSets DEF v1_attestation_proof, TypeOK, Local
  <2> QED BY <1>0, <2>1, <2>2, RequestIInv
<1>2. CASE proofAbandoned(r)
  <2>1. ThreadTypes' /\ QueueOK' /\ worker' = [worker EXCEPT ![r] = "none"]
    BY <1>0, <1>2, AbandonOK DEF proofAbandoned
  <2>2. Local(r) /\ worker'[r] = "none" /\ secrets'[r] = {}
    BY <1>0, <1>2, <2>1, JobSets DEF proofAbandoned, TypeOK, Local
  <2> QED BY <1>0, <2>1, <2>2, RequestIInv
<1>3. CASE proofFetched(r)
  <2>1. ThreadTypes' /\ QueueOK' /\ worker' = [worker EXCEPT ![r] = "none"]
    BY <1>0, <1>3, CollectOK DEF proofFetched
  <2>2. Local(r) /\ worker'[r] = "none" /\ (pc'[r] # "idle" \/ secrets'[r] = {})
    BY <1>0, <1>3, <2>1, JobSets DEF proofFetched, TypeOK, Local
  <2> QED BY <1>0, <2>1, <2>2, RequestIInv
<1>4. CASE proofAnswered(r)
  <2>1. ThreadTypes' /\ QueueOK'
    BY <1>0, <1>4 DEF proofAnswered, threads, ThreadTypes, QueueOK
  <2>2. Local(r) /\ worker'[r] # "queued" /\ secrets'[r] = {}
    BY <1>0, <1>4, JobSets DEF proofAnswered, threads, TypeOK, Local, QueuedJobsAwaited
  <2> QED BY <1>0, <2>1, <2>2, RequestIInv
<1> QED BY <1>1, <1>2, <1>3, <1>4 DEF ProofSteps

(* The pipeline of a query: its worker moves on, or ends. *)
LEMMA PipelineIInv == ASSUME IInv, NEW r \in Queries, PipelineSteps(r) PROVE IInv'
<1> USE DEF IInv
<1>0. /\ ThreadTypes /\ r \in Jobs /\ r \in Requests /\ r \notin Proofs
  BY JobSets DEF TypeOK, ThreadTypes
<1>1. ASSUME worker[r] # "queued",
             NEW w \in Busy \cup {"none", "finished"}, worker' = [worker EXCEPT ![r] = w],
             NEW x \in SUBSET {"key", "plain"}, secrets' = [secrets EXCEPT ![r] = x],
             x # {} => w \in {"keyed", "plain"},
             result' \in [Jobs -> {"none", "ok", "error"}],
             UNCHANGED <<machine, cache, pc, timer, queue, orphans>>
      PROVE  IInv'
  <2>1. QueueOK'
    BY <1>0, <1>1, OffQueueOK
  <2>2. ThreadTypes'
    BY <1>0, <1>1 DEF ThreadTypes
  <2>3. Local(r) /\ worker'[r] = w /\ secrets'[r] = x
    BY <1>0, <1>1, JobSets DEF TypeOK, Local
  <2>4. w # "queued"
    BY <1>1 DEF Busy
  <2> QED BY <1>0, <1>1, <2>1, <2>2, <2>3, <2>4, RequestIInv
<1>2. ASSUME NEW how \in {"ok", "error"}, endWork(r, how)
      PROVE  /\ \E w \in {"none", "finished"} : worker' = [worker EXCEPT ![r] = w]
             /\ result' \in [Jobs -> {"none", "ok", "error"}]
  BY <1>0, <1>2 DEF endWork, ThreadTypes
<1>3. CASE enter(r)
  <2>1. worker[r] = "started" /\ secrets[r] = {} /\ secrets' = [secrets EXCEPT ![r] = {}]
    BY <1>0, <1>3 DEF enter, Scrubbed, TypeOK
  <2>2. /\ \E w \in Busy \cup {"none", "finished"} : worker' = [worker EXCEPT ![r] = w]
        /\ result' \in [Jobs -> {"none", "ok", "error"}]
    BY <1>0, <1>2, <1>3 DEF enter, ThreadTypes, Busy
  <2> QED BY <1>1, <1>3, <2>1, <2>2 DEF enter
<1>4. CASE load_payload_key(r)
  BY <1>0, <1>1, <1>4 DEF load_payload_key, Busy, ThreadTypes
<1>5. CASE \E b \in BOOLEAN : decrypt(r, b)
  <2>1. PICK b \in BOOLEAN : decrypt(r, b)
    BY <1>5
  <2>2. CASE b
    BY <1>0, <1>1, <2>1, <2>2 DEF decrypt, Busy, ThreadTypes
  <2>3. CASE ~b
    BY <1>1, <1>2, <2>1, <2>3 DEF decrypt
  <2> QED BY <2>2, <2>3
<1>6. CASE \E how \in {"ok", "error"} : prove(r, how)
  BY <1>1, <1>2, <1>6 DEF prove
<1> QED BY <1>3, <1>4, <1>5, <1>6 DEF PipelineSteps

(* A thread takes the head of the queue. *)
LEMMA TakeIInv == ASSUME IInv, take PROVE IInv'
<1> USE DEF IInv
<1>0. ThreadTypes /\ queue # <<>> /\ queue \in Seq(Jobs \cup {Cancelled}) /\ 1 \in 1 .. Len(queue)
  BY DEF take, TypeOK, ThreadTypes
<1>1. /\ Head(queue) = queue[1] /\ queue[1] \in Jobs \cup {Cancelled}
      /\ queue' = Tail(queue) /\ queue' \in Seq(Jobs \cup {Cancelled})
      /\ Len(queue') = Len(queue) - 1
      /\ \A i \in 1 .. Len(queue') : i + 1 \in 1 .. Len(queue) /\ queue'[i] = queue[i + 1]
  BY <1>0 DEF take
<1>2. \/ queue[1] = Cancelled /\ worker' = worker
      \/ /\ queue[1] \in Jobs /\ queue[1] # Cancelled /\ worker[queue[1]] = "queued"
         /\ worker' = [worker EXCEPT ![queue[1]] = "started"]
         /\ \A i \in 1 .. Len(queue') : queue'[i] # queue[1]
  BY <1>0, <1>1 DEF take, QueueOK
<1>3. /\ \A j \in Jobs : worker'[j] = worker[j] \/ (worker[j] = "queued" /\ worker'[j] = "started")
      /\ worker' \in [Jobs -> Busy \cup {"none", "queued", "finished"}]
  BY <1>0, <1>2 DEF ThreadTypes, Busy
<1>4. TypeOK'
  BY <1>1, <1>3 DEF take, TypeOK, machine, cache
<1>5. QueueOK'
  <2> SUFFICES ASSUME NEW i \in 1 .. Len(queue'), queue'[i] # Cancelled
               PROVE  /\ worker'[queue'[i]] = "queued"
                      /\ \A k \in 1 .. Len(queue') : queue'[k] = queue'[i] => k = i
    BY DEF QueueOK
  <2>1. i + 1 \in 1 .. Len(queue) /\ queue'[i] = queue[i + 1] /\ worker[queue'[i]] = "queued"
        /\ queue'[i] \in Jobs
    BY <1>0, <1>1 DEF QueueOK
  <2>2. worker'[queue'[i]] = "queued"
    BY <1>0, <1>2, <2>1 DEF ThreadTypes
  <2>3. ASSUME NEW k \in 1 .. Len(queue'), queue'[k] = queue'[i] PROVE k = i
    <3>1. k + 1 = i + 1
      BY <1>1, <2>1, <2>3 DEF QueueOK
    <3> QED BY <3>1
  <2> QED BY <2>2, <2>3
<1>6. RefreshIdle' /\ QueuedJobsAwaited' /\ Scrubbed' /\ WakesByMargin'
  <2>1. UNCHANGED <<phase, pc, timer, secrets, held, failing>>
    BY DEF take, cache
  <2>2. RefreshIdle'
    BY <1>3, <2>1, JobSets DEF RefreshIdle, QueuedJobsAwaited
  <2>3. QueuedJobsAwaited' /\ WakesByMargin'
    BY <1>3, <2>1 DEF QueuedJobsAwaited, WakesByMargin
  <2>4. Scrubbed'
    BY <1>3, <2>1, JobSets DEF Scrubbed
  <2> QED BY <2>2, <2>3, <2>4
<1> QED BY <1>4, <1>5, <1>6

(* A fetch ends, for whoever awaits it or for nobody. *)
LEMMA FetchIInv == ASSUME IInv, orphanEnds \/ \E j \in Fetchers : fetchEnds(j) PROVE IInv'
<1> USE DEF IInv
<1>1. CASE orphanEnds
  BY <1>1 DEF orphanEnds, TypeOK, QueueOK, RefreshIdle, QueuedJobsAwaited, Scrubbed,
              WakesByMargin, machine, cache
<1>2. ASSUME NEW j \in Fetchers, fetchEnds(j) PROVE IInv'
  <2>1. j \in Jobs /\ ThreadTypes
    BY DEF Fetchers, Jobs, Requests, TypeOK, ThreadTypes
  <2>2. QueueOK'
    BY <1>2, <2>1, OffQueueOK DEF fetchEnds
  <2>3. TypeOK'
    BY <1>2, <2>1 DEF fetchEnds, TypeOK, machine, cache
  <2>4. \A k \in Jobs : worker'[k] = worker[k] \/ (k = j /\ worker[j] = "started" /\ worker'[j] = "finished")
    BY <1>2, <2>1 DEF fetchEnds, ThreadTypes
  <2>5. UNCHANGED <<phase, pc, timer, secrets, held, failing>>
    BY <1>2 DEF fetchEnds, cache
  <2>6. RefreshIdle' /\ QueuedJobsAwaited' /\ WakesByMargin'
    BY <2>4, <2>5, JobSets DEF RefreshIdle, QueuedJobsAwaited, WakesByMargin
  <2>7. Scrubbed'
    BY <2>4, <2>5, JobSets DEF Scrubbed
  <2> QED BY <2>2, <2>3, <2>6, <2>7
<1> QED BY <1>1, <1>2

(* The clock keeps the distance between a wake-up and an expiry. *)
LEMMA TickIInv == ASSUME IInv, Tick PROVE IInv'
<1> USE DEF IInv
<1>1. /\ held'.established = held.established
      /\ held'.primary = passed(held.primary, 0) /\ held'.intel = passed(held.intel, 0)
      /\ held' \in States
  <2>1. /\ held'.established = held.established
        /\ held'.primary = passed(held.primary, 0) /\ held'.intel = passed(held.intel, 0)
        /\ held' = [established |-> held.established, primary |-> passed(held.primary, 0),
                    intel |-> passed(held.intel, 0)]
    BY DEF Tick, TypeOK
  <2>2. /\ passed(held.primary, 0) \in 0 .. Lifetime
        /\ passed(held.intel, 0) \in 0 .. IntelLifetime /\ held.established \in BOOLEAN
    BY ConstantsAssumption DEF TypeOK, passed
  <2> QED BY <2>1, <2>2 DEF States
<1>2. timer' \in [Jobs -> Nat] /\ timer'[Refresh] = passed(timer[Refresh], 0)
  BY JobSets DEF Tick, TypeOK, passed
<1>3. TypeOK'
  <2>1. fetched' \in 0 .. Lifetime
    BY ConstantsAssumption DEF Tick, TypeOK, passed
  <2> QED BY <1>1, <1>2, <2>1 DEF Tick, TypeOK, States, machine, threads
<1>4. QueueOK' /\ RefreshIdle' /\ QueuedJobsAwaited' /\ Scrubbed'
  BY DEF Tick, threads, QueueOK, RefreshIdle, QueuedJobsAwaited, Scrubbed
<1>5. WakesByMargin'
  <2>1. timer[Refresh] \in Nat /\ held.primary \in Nat
    BY ConstantsAssumption, JobSets DEF TypeOK
  <2> QED BY <1>1, <1>2, <2>1, MarginType, ConstantsAssumption DEF WakesByMargin, Tick, passed
<1> QED BY <1>3, <1>4, <1>5

(* Every step of the gateway preserves the invariant. *)
LEMMA NextIInv == IInv /\ [Next]_vars => IInv'
<1> SUFFICES ASSUME IInv, [Next]_vars PROVE IInv'
  OBVIOUS
<1>1. ASSUME TeeFlips \/ UNCHANGED vars PROVE IInv'
  <2>1. teeUp' \in BOOLEAN
    BY <1>1 DEF IInv, TeeFlips, vars, TypeOK, machine
  <2> QED BY <1>1, <2>1 DEF IInv, TeeFlips, vars, TypeOK, QueueOK, RefreshIdle, QueuedJobsAwaited, Scrubbed,
              WakesByMargin, machine, cache, threads
<1> QED BY <1>1, RefreshIInv, QueryIInv, PipelineIInv, ProofIInv, TakeIInv, FetchIInv, TickIInv
        DEF Next

----------------------------------------------------------------------------
(* Types: the variables of the gateway, its executor and its refresh loop  *)
(* keep their values, whatever is submitted, given up and collected.       *)
THEOREM TypeCorrect == Spec => []TypeOK
<1>1. IInv => TypeOK
  BY DEF IInv
<1> QED BY <1>1, InitIInv, NextIInv, PTL DEF Spec

(* No job waits for a thread once its request has been answered or the     *)
(* refresh loop has given it up (wait_for cancels it in the queue).        *)
THEOREM AwaitedJobs == Spec => []QueuedJobsAwaited
<1>1. IInv => QueuedJobsAwaited
  BY DEF IInv
<1> QED BY <1>1, InitIInv, NextIInv, PTL DEF Spec

(* Key and plaintext live only where they are used: every way out of       *)
(* execute_query and of /v1/attestation-proof zeroes them.                 *)
THEOREM SecretsScrubbed == Spec => []Scrubbed
<1>1. IInv => Scrubbed
  BY DEF IInv
<1> QED BY <1>1, InitIInv, NextIInv, PTL DEF Spec

(* run_refresh_loop never sleeps into the renewal margin of its token, for *)
(* any lifetime and intervals.                                             *)
THEOREM MarginKept == Spec => []WakesByMargin
<1>1. IInv => WakesByMargin
  BY DEF IInv
<1> QED BY <1>1, InitIInv, NextIInv, PTL DEF Spec

(* A pipeline begins only while its request is awaited: of all steps only  *)
(* enter begins one, and it finds the processor of an answered request     *)
(* destroyed.                                                              *)
THEOREM NoLateWork == Spec => NoWorkAfterAnswer
<1> DEFINE Late(r) == worker[r] # "entered" /\ worker'[r] = "entered" => pc[r] = "waiting"
           Shape(j) == \E w : /\ worker' = [worker EXCEPT ![j] = w]
                              /\ w = worker[j] \/ w # "entered"
<1>1. ASSUME TypeOK, NEW r \in Queries, NEW j \in Jobs, Shape(j) PROVE Late(r)
  <2>1. PICK w : worker' = [worker EXCEPT ![j] = w] /\ (w = worker[j] \/ w # "entered")
    BY <1>1
  <2>2. r \in Jobs
    BY JobSets
  <2> QED BY <1>1, <2>1, <2>2 DEF TypeOK
<1>2. ASSUME TypeOK, [Next]_vars
      PROVE  (\E j \in Jobs : Shape(j)) \/ (\E q \in Queries : enter(q)) \/ worker' = worker
  <2>1. ASSUME RefreshSteps PROVE Shape(Refresh) \/ worker' = worker
    BY <2>1, JobSets DEF RefreshSteps, decide, wake, refreshTimesOut, refreshErrs, primaryFetched,
            intelFetched, submit, abandon, collect, establish, threads
  <2>2. ASSUME NEW q \in Queries, QuerySteps(q) PROVE Shape(q)
    <3>1. CASE v1_query(q) \/ queryAnswered(q)
      BY <3>1 DEF v1_query, queryAnswered, submit, collect
    <3>2. CASE queryTimesOut(q)
      <4> DEFINE w == IF q \in Queries /\ worker[q] \in Busy THEN worker[q] ELSE "none"
      <4>1. worker' = [worker EXCEPT ![q] = w] /\ (w = worker[q] \/ w # "entered")
        BY <3>2 DEF queryTimesOut, abandon
      <4> QED BY <4>1, Zenon
    <3> QED BY <2>2, <3>1, <3>2 DEF QuerySteps
  <2>3. ASSUME NEW q \in Queries, PipelineSteps(q) PROVE enter(q) \/ Shape(q)
    BY <2>3 DEF PipelineSteps, load_payload_key, decrypt, prove, endWork
  <2>4. ASSUME NEW q \in Proofs, ProofSteps(q) PROVE Shape(q) \/ worker' = worker
    BY <2>4, JobSets DEF ProofSteps, v1_attestation_proof, proofAbandoned, proofFetched, proofAnswered,
            submit, abandon, collect, threads
  <2>5. ASSUME take PROVE (\E j \in Jobs : Shape(j)) \/ worker' = worker
    <3>1. Head(queue) \in Jobs \cup {Cancelled}
      BY <1>2, <2>5 DEF take, TypeOK
    <3> QED BY <2>5, <3>1 DEF take
  <2>6. ASSUME NEW j \in Fetchers, fetchEnds(j) PROVE Shape(j)
    <3>1. worker' = [worker EXCEPT ![j] = "finished"] /\ "finished" # "entered"
      BY <2>6 DEF fetchEnds
    <3> QED BY <3>1, Zenon
  <2>7. ASSUME orphanEnds \/ TeeFlips \/ Tick \/ UNCHANGED vars PROVE worker' = worker
    BY <2>7 DEF orphanEnds, TeeFlips, Tick, vars, threads
  <2>8. Queries \subseteq Jobs /\ Proofs \subseteq Jobs /\ Refresh \in Jobs /\ Fetchers \subseteq Jobs
    BY DEF Jobs, Requests, Fetchers
  <2> HIDE DEF Shape
  <2> QED BY <1>2, <2>1, <2>2, <2>3, <2>4, <2>5, <2>6, <2>7, <2>8 DEF Next
<1>3. ASSUME TypeOK, NEW r \in Queries, NEW q \in Queries, enter(q) PROVE Late(r)
  <2>1. r \in Jobs /\ q \in Jobs
    BY JobSets
  <2> QED BY <1>3, <2>1 DEF enter, endWork, TypeOK
<1>4. ASSUME TypeOK, [Next]_vars PROVE \A r \in Queries : Late(r)
  <2> HIDE DEF Shape
  <2> QED BY <1>1, <1>2, <1>3, <1>4
<1> QED BY <1>4, TypeCorrect, PTL DEF Spec, NoWorkAfterAnswer
=============================================================================
