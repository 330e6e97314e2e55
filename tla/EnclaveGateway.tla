----------------------------- MODULE EnclaveGateway -----------------------------
(***************************************************************************)
(* The Python gateway of the enclave: the attestation state cache and its  *)
(* refresh loop (crypto/attestation.py), the gate in front of /v1/query    *)
(* and the two handlers that decrypt payloads (main.py), and the query     *)
(* pipeline in a worker thread (rag_engine/processor.py).                  *)
(*                                                                         *)
(* Three kinds of step interleave: steps of the event loop, which are      *)
(* atomic up to the next await; steps of the threads of the default        *)
(* executor, which the refresh loop, the proofs and the queries share; and *)
(* the clock.  Time is relative: tokens carry the time they have left.     *)
(* A handler that computes on the event loop stops everything on it.       *)
(***************************************************************************)
EXTENDS Integers, Sequences, FiniteSets, FiniteSetsExt, SequencesExt

CONSTANTS
  Queries, Proofs,   \* slots for /v1/query and /v1/attestation-proof requests
  Refresh,           \* the token fetch of the refresh loop
  Cancelled,         \* a job in the executor's queue that was cancelled
  PoolSize,          \* threads of asyncio's default executor
  HwModels,          \* what hardware the enclave may run on: is it Intel TDX?
  TeeCanFail,        \* whether the local tee server may go down
  Lifetime, IntelLifetime,     \* of the two tokens, when they are minted
  Poll, MaxInterval,           \* STATE_POLL_INTERVAL_S, STATE_MAX_INTERVAL_S
  FetchTimeout, QueryTimeout   \* DEFAULT_TIMEOUT_S + 1, QUERY_TIMEOUT_S

Requests == Queries \cup Proofs
Fetchers == Proofs \cup {Refresh}
Jobs     == Requests \cup {Refresh}

ASSUME ConstantsAssumption ==
  /\ IsFiniteSet(Requests) /\ Queries \cap Proofs = {} /\ Refresh \notin Requests
  /\ Cancelled \notin Jobs
  /\ PoolSize \in Nat \ {0} /\ HwModels \subseteq BOOLEAN /\ TeeCanFail \in BOOLEAN
  /\ Lifetime \in Nat \ {0} /\ IntelLifetime \in Nat \ {0} /\ Lifetime % 4 = 0
  /\ Poll \in Nat \ {0} /\ MaxInterval \in Nat \ {0}
  /\ FetchTimeout \in Nat \ {0} /\ QueryTimeout \in Nat \ {0}

VARIABLES
  teeUp,      \* the local tee server answers (external)
  tdx,        \* the hwmodel claim of every token: an Intel token is mandatory
  held,       \* _state: whether there is one, and what its tokens have left
  fetched,    \* the new primary token while the Intel token is fetched
  failing,    \* _consecutive_failures > 0
  phase,      \* where the refresh loop is
  pc,         \* per request: "idle", "waiting" or "proving"
  timer,      \* per request, and for the loop: until its deadline or wake-up
  queue,      \* jobs waiting for a thread
  worker,     \* per job: what its thread is doing
  result,     \* per job: how it ended
  orphans,    \* threads still busy with a fetch nobody waits for
  secrets     \* per request: buffers that hold key or plaintext

cache   == <<held, fetched, failing, phase>>
threads == <<queue, worker, result, orphans>>
machine == <<teeUp, tdx>>
vars    == <<machine, cache, pc, timer, threads, secrets>>

Busy    == {"started", "entered", "keyed", "plain"}
Running == {j \in Jobs : worker[j] \in Busy}

Init ==
  /\ teeUp \in IF TeeCanFail THEN BOOLEAN ELSE {TRUE}
  /\ tdx \in HwModels
  /\ held = [established |-> FALSE, primary |-> 0, intel |-> 0]
  /\ fetched = 0 /\ failing = FALSE
  /\ phase = "deciding"
  /\ pc = [r \in Requests |-> "idle"]
  /\ timer = [j \in Jobs |-> 0]
  /\ queue = <<>> /\ orphans = 0
  /\ worker = [j \in Jobs |-> "none"]
  /\ result = [j \in Jobs |-> "none"]
  /\ secrets = [r \in Requests |-> {}]

(* parse_and_prove called from a coroutine: the loop runs nothing else. *)
blocked == \E r \in Proofs : pc[r] = "proving"

(* snapshot(): raises unless a state is held whose primary token has not   *)
(* expired.                                                                *)
snapshot == held.established /\ held.primary > 0

(* AttestationGateMiddleware with ENCLAVE_REQUIRE_ATTESTATION on *)
dispatch == snapshot

----------------------------------------------------------------------------
(* The executor                                                            *)

(* to_thread *)
submit(j, deadline) ==
  /\ queue' = Append(queue, j)
  /\ worker' = [worker EXCEPT ![j] = "queued"]
  /\ timer' = [timer EXCEPT ![j] = deadline]
  /\ UNCHANGED <<result, orphans>>

(* wait_for gives up on j: a job no thread has taken is cancelled, and     *)
(* skipped when its turn comes; a running one goes on for nobody.          *)
abandon(j) ==
  /\ queue' = ReplaceAll(queue, j, Cancelled)
  /\ worker' = [worker EXCEPT ![j] = IF j \in Queries /\ @ \in Busy THEN @ ELSE "none"]
  /\ orphans' = IF j \in Fetchers /\ worker[j] \in Busy THEN orphans + 1 ELSE orphans
  /\ result' = [result EXCEPT ![j] = "none"]

(* The awaiting coroutine collects the result of j. *)
collect(j) ==
  /\ worker' = [worker EXCEPT ![j] = "none"]
  /\ result' = [result EXCEPT ![j] = "none"]
  /\ UNCHANGED <<queue, orphans>>

ThreadIsFree == Cardinality(Running) + orphans < PoolSize

take ==
  /\ queue # <<>> /\ ThreadIsFree
  /\ \/ Head(queue) = Cancelled /\ UNCHANGED worker
     \/ /\ Head(queue) # Cancelled
        /\ worker' = [worker EXCEPT ![Head(queue)] = "started"]
  /\ queue' = Tail(queue)
  /\ UNCHANGED <<machine, cache, pc, timer, result, orphans, secrets>>

(* _fetch_raw_token and the validation of what it returns *)
fetchEnds(j) ==
  /\ worker[j] = "started"
  /\ worker' = [worker EXCEPT ![j] = "finished"]
  /\ result' = [result EXCEPT ![j] = IF teeUp THEN "ok" ELSE "error"]
  /\ UNCHANGED <<machine, cache, pc, timer, queue, orphans, secrets>>

orphanEnds ==
  /\ orphans > 0
  /\ orphans' = orphans - 1
  /\ UNCHANGED <<machine, cache, pc, timer, queue, worker, result, secrets>>

----------------------------------------------------------------------------
(* execute_query, in the thread of query r                                 *)

endWork(r, how) ==
  /\ worker' = [worker EXCEPT ![r] = IF pc[r] = "waiting" THEN "finished" ELSE "none"]
  /\ result' = [result EXCEPT ![r] = IF pc[r] = "waiting" THEN how ELSE "none"]

enter_Unchecked(r) ==
  /\ worker[r] = "started"
  /\ worker' = [worker EXCEPT ![r] = "entered"]
  /\ UNCHANGED <<result, machine, cache, pc, timer, queue, orphans, secrets>>

(* _ensure_alive under the lock: the processor of an answered request has  *)
(* been destroyed.  The lock is released before the key is loaded.         *)
enter(r) ==
  /\ worker[r] = "started"
  /\ \/ /\ pc[r] = "waiting"
        /\ worker' = [worker EXCEPT ![r] = "entered"]
        /\ UNCHANGED result
     \/ /\ pc[r] # "waiting"
        /\ endWork(r, "error")
  /\ UNCHANGED <<machine, cache, pc, timer, queue, orphans, secrets>>

load_payload_key(r) ==
  /\ worker[r] = "entered"
  /\ worker' = [worker EXCEPT ![r] = "keyed"]
  /\ secrets' = [secrets EXCEPT ![r] = {"key"}]
  /\ UNCHANGED <<machine, cache, pc, timer, queue, result, orphans>>

decrypt_KeyKeptOnError(r, authentic) ==
  /\ worker[r] = "keyed"
  /\ \/ /\ authentic
        /\ worker' = [worker EXCEPT ![r] = "plain"]
        /\ secrets' = [secrets EXCEPT ![r] = {"plain"}]
        /\ UNCHANGED result
     \/ /\ ~authentic
        /\ endWork(r, "error")
        /\ UNCHANGED secrets
  /\ UNCHANGED <<machine, cache, pc, timer, queue, orphans>>

(* The key is zeroed as soon as it has been used, or by the finally block. *)
decrypt(r, authentic) ==
  /\ worker[r] = "keyed"
  /\ \/ /\ authentic
        /\ worker' = [worker EXCEPT ![r] = "plain"]
        /\ secrets' = [secrets EXCEPT ![r] = {"plain"}]
        /\ UNCHANGED result
     \/ /\ ~authentic
        /\ endWork(r, "error")
        /\ secrets' = [secrets EXCEPT ![r] = {}]
  /\ UNCHANGED <<machine, cache, pc, timer, queue, orphans>>

(* Schema validation and the Rust engine; finally zeroes the plaintext. *)
prove(r, how) ==
  /\ worker[r] = "plain"
  /\ endWork(r, how)
  /\ secrets' = [secrets EXCEPT ![r] = {}]
  /\ UNCHANGED <<machine, cache, pc, timer, queue, orphans>>

----------------------------------------------------------------------------
(* POST /v1/query, on the event loop                                       *)

(* A request the gate lets through is handed to a thread; a refused or     *)
(* malformed one is answered at once.                                      *)
v1_query(r) ==
  /\ ~blocked /\ pc[r] = "idle" /\ worker[r] = "none"
  /\ dispatch
  /\ pc' = [pc EXCEPT ![r] = "waiting"]
  /\ submit(r, QueryTimeout)
  /\ UNCHANGED <<machine, cache, secrets>>

(* The worker is done: 200 with the encrypted record, or an error status. *)
queryAnswered(r) ==
  /\ ~blocked /\ pc[r] = "waiting" /\ worker[r] = "finished"
  /\ pc' = [pc EXCEPT ![r] = "idle"]
  /\ collect(r)
  /\ timer' = [timer EXCEPT ![r] = 0]
  /\ UNCHANGED <<machine, cache, secrets>>

queryTimesOut_QueuedOnly(r) ==
  /\ ~blocked /\ pc[r] = "waiting" /\ timer[r] <= 0 /\ worker[r] = "queued"
  /\ pc' = [pc EXCEPT ![r] = "idle"]
  /\ abandon(r)
  /\ timer' = [timer EXCEPT ![r] = 0]
  /\ UNCHANGED <<machine, cache, secrets>>

(* 504; the processor is destroyed, and its window holds nothing. *)
queryTimesOut(r) ==
  /\ ~blocked /\ pc[r] = "waiting" /\ timer[r] <= 0
  /\ pc' = [pc EXCEPT ![r] = "idle"]
  /\ abandon(r)
  /\ timer' = [timer EXCEPT ![r] = 0]
  /\ UNCHANGED <<machine, cache, secrets>>

----------------------------------------------------------------------------
(* POST /v1/attestation-proof, on the event loop                           *)

(* Not gated: the payload is decrypted first (a failure is answered and    *)
(* scrubbed at once), and then a fresh token is fetched.                   *)
v1_attestation_proof(r) ==
  /\ ~blocked /\ pc[r] = "idle" /\ worker[r] = "none"
  /\ pc' = [pc EXCEPT ![r] = "waiting"]
  /\ secrets' = [secrets EXCEPT ![r] = {"key", "plain"}]
  /\ submit(r, FetchTimeout)
  /\ UNCHANGED <<machine, cache>>

proofAbandoned(r) ==
  /\ ~blocked /\ pc[r] = "waiting" /\ timer[r] <= 0
  /\ pc' = [pc EXCEPT ![r] = "idle"]
  /\ secrets' = [secrets EXCEPT ![r] = {}]
  /\ abandon(r)
  /\ timer' = [timer EXCEPT ![r] = 0]
  /\ UNCHANGED <<machine, cache>>

(* With a token the proof is computed on the loop, without one 503. *)
proofFetched(r) ==
  /\ ~blocked /\ pc[r] = "waiting" /\ worker[r] = "finished"
  /\ \/ /\ result[r] = "ok"
        /\ pc' = [pc EXCEPT ![r] = "proving"]
        /\ UNCHANGED secrets
     \/ /\ result[r] = "error"
        /\ pc' = [pc EXCEPT ![r] = "idle"]
        /\ secrets' = [secrets EXCEPT ![r] = {}]
  /\ collect(r)
  /\ timer' = [timer EXCEPT ![r] = 0]
  /\ UNCHANGED <<machine, cache>>

proofAnswered(r) ==
  /\ pc[r] = "proving"
  /\ pc' = [pc EXCEPT ![r] = "idle"]
  /\ secrets' = [secrets EXCEPT ![r] = {}]
  /\ UNCHANGED <<machine, cache, timer, threads>>

----------------------------------------------------------------------------
(* run_refresh_loop                                                        *)

REFRESH_MARGIN == Lifetime \div 4

seconds_until_refresh_AtExpiry(h) == IF h.established THEN h.primary ELSE 0

seconds_until_refresh(h) ==
  IF h.established THEN Max({0, h.primary - REFRESH_MARGIN}) ELSE 0

(* How long the loop sleeps after looking at the state. *)
pause(h, failed) ==
  IF ~h.established \/ failed THEN Poll
  ELSE Max({1, Min({seconds_until_refresh(h), MaxInterval})})

sleep(h, failed) ==
  /\ phase' = "sleeping"
  /\ timer' = [timer EXCEPT ![Refresh] = pause(h, failed)]

decide ==
  /\ ~blocked /\ phase = "deciding"
  /\ \/ /\ seconds_until_refresh(held) = 0
        /\ phase' = "primary"
        /\ submit(Refresh, FetchTimeout)
     \/ /\ seconds_until_refresh(held) > 0
        /\ sleep(held, failing)
        /\ UNCHANGED threads
  /\ UNCHANGED <<machine, held, fetched, failing, pc, secrets>>

(* A failed refresh keeps the last state. *)
refreshFails ==
  /\ failing' = TRUE
  /\ sleep(held, TRUE)
  /\ UNCHANGED <<held, fetched>>

refreshTimesOut ==
  /\ ~blocked /\ phase \in {"primary", "intel"} /\ timer[Refresh] <= 0
  /\ refreshFails
  /\ abandon(Refresh)
  /\ UNCHANGED <<machine, pc, secrets>>

refreshErrs ==
  /\ ~blocked /\ worker[Refresh] = "finished" /\ result[Refresh] = "error"
  /\ refreshFails
  /\ collect(Refresh)
  /\ UNCHANGED <<machine, pc, secrets>>

establish(h) ==
  /\ held' = h
  /\ failing' = FALSE
  /\ sleep(h, FALSE)
  /\ collect(Refresh)

(* fetch_token_with_fallback: on TDX the Intel token is fetched as well. *)
primaryFetched ==
  /\ ~blocked /\ phase = "primary" /\ worker[Refresh] = "finished" /\ result[Refresh] = "ok"
  /\ \/ /\ tdx
        /\ fetched' = Lifetime
        /\ phase' = "intel"
        /\ submit(Refresh, FetchTimeout)
        /\ UNCHANGED <<held, failing>>
     \/ /\ ~tdx
        /\ establish([established |-> TRUE, primary |-> Lifetime, intel |-> 0])
        /\ UNCHANGED fetched
  /\ UNCHANGED <<machine, pc, secrets>>

intelFetched ==
  /\ ~blocked /\ phase = "intel" /\ worker[Refresh] = "finished" /\ result[Refresh] = "ok"
  /\ establish([established |-> TRUE, primary |-> fetched, intel |-> IntelLifetime])
  /\ fetched' = 0
  /\ UNCHANGED <<machine, pc, secrets>>

wake ==
  /\ ~blocked /\ phase = "sleeping" /\ timer[Refresh] <= 0
  /\ phase' = "deciding"
  /\ UNCHANGED <<machine, held, fetched, failing, pc, timer, threads, secrets>>

----------------------------------------------------------------------------
(* The outside                                                             *)

TeeFlips ==
  /\ TeeCanFail
  /\ teeUp' = ~teeUp
  /\ UNCHANGED <<tdx, cache, pc, timer, threads, secrets>>

(* What is due happens before time advances: an idle loop runs its due     *)
(* timers and callbacks, free threads take jobs, a tee server that is up   *)
(* answers, and a fetch that nobody waits for is ended by the HTTP         *)
(* client's own timeout.  The pipeline of a query takes as long as it      *)
(* likes.                                                                  *)
LoopIsDue ==
  \/ phase = "deciding" \/ timer[Refresh] <= 0
  \/ \E j \in Jobs : worker[j] = "finished"
  \/ \E r \in Requests : pc[r] = "waiting" /\ timer[r] <= 0

ThreadsAreDue ==
  \/ queue # <<>> /\ ThreadIsFree
  \/ teeUp /\ \E j \in Fetchers : worker[j] = "started"
  \/ orphans > 0

passed(n, least) == IF n > least THEN n - 1 ELSE n

Tick ==
  /\ ~ThreadsAreDue /\ (blocked \/ ~LoopIsDue)
  /\ held' = [held EXCEPT !.primary = passed(@, 0), !.intel = passed(@, 0)]
  /\ fetched' = passed(fetched, 0)
  /\ timer' = [j \in Jobs |-> passed(timer[j], 0)]
  /\ UNCHANGED <<machine, failing, phase, pc, threads, secrets>>

RefreshSteps ==
  decide \/ wake \/ refreshTimesOut \/ refreshErrs \/ primaryFetched \/ intelFetched

QuerySteps(r) == v1_query(r) \/ queryAnswered(r) \/ queryTimesOut(r)
ProofSteps(r) == v1_attestation_proof(r) \/ proofAbandoned(r) \/ proofFetched(r) \/ proofAnswered(r)

PipelineSteps(r) ==
  \/ enter(r) \/ load_payload_key(r)
  \/ \E b \in BOOLEAN : decrypt(r, b)
  \/ \E how \in {"ok", "error"} : prove(r, how)

Next ==
  \/ RefreshSteps
  \/ \E r \in Queries : QuerySteps(r) \/ PipelineSteps(r)
  \/ \E r \in Proofs : ProofSteps(r)
  \/ take
  \/ \E j \in Fetchers : fetchEnds(j)
  \/ orphanEnds
  \/ TeeFlips
  \/ Tick

Spec == Init /\ [][Next]_vars

(* Time passes.  asyncio runs every ready callback and due timer once per  *)
(* iteration of its loop, so a callback that is ready again and again is   *)
(* run, whatever blocks the loop in between.  Every fetch ends, and so     *)
(* does a proof on the loop; nothing is assumed of the query pipelines.    *)
Fairness ==
  /\ SF_vars(Tick) /\ SF_vars(RefreshSteps)
  /\ \A r \in Queries : SF_vars(queryAnswered(r) \/ queryTimesOut(r))
  /\ \A r \in Proofs : /\ SF_vars(proofAbandoned(r) \/ proofFetched(r))
                        /\ WF_vars(proofAnswered(r))
  /\ WF_vars(take) /\ WF_vars(orphanEnds)
  /\ \A j \in Fetchers : WF_vars(fetchEnds(j))

FairSpec == Spec /\ Fairness

--------------------------------------------------------------------------------
(* Properties                                                              *)

(* The values of every variable; the refresh loop is never anywhere else. *)
TypeOK ==
  /\ teeUp \in BOOLEAN /\ tdx \in BOOLEAN /\ failing \in BOOLEAN
  /\ held \in [established : BOOLEAN, primary : 0 .. Lifetime, intel : 0 .. IntelLifetime]
  /\ fetched \in 0 .. Lifetime
  /\ phase \in {"deciding", "primary", "intel", "sleeping"}
  /\ pc \in [Requests -> {"idle", "waiting", "proving"}]
  /\ timer \in [Jobs -> Nat]
  /\ queue \in Seq(Jobs \cup {Cancelled})
  /\ worker \in [Jobs -> Busy \cup {"none", "queued", "finished"}]
  /\ result \in [Jobs -> {"none", "ok", "error"}]
  /\ orphans \in Nat
  /\ secrets \in [Requests -> SUBSET {"key", "plain"}]

(* Whoever waits in the executor's queue is still awaited: a deadline      *)
(* takes its job out of the queue, so the work of answered requests never  *)
(* delays the others or the renewal of the attestation.                    *)
QueuedJobsAwaited ==
  \A j \in Jobs : worker[j] = "queued" =>
    IF j = Refresh THEN phase \in {"primary", "intel"} ELSE pc[j] = "waiting"

(* A pipeline that has not begun when its request is answered never does:  *)
(* it finds its processor destroyed before it loads the key.               *)
NoWorkAfterAnswer ==
  [][\A r \in Queries : worker[r] # "entered" /\ worker'[r] = "entered" =>
        pc[r] = "waiting"]_vars

(* Key and plaintext live only in a pipeline that is using them, and in a  *)
(* proof request that has not been answered: every way out, the failed     *)
(* ones and the ones nobody waits for included, leaves nothing behind.     *)
Scrubbed ==
  /\ \A r \in Queries : secrets[r] # {} => worker[r] \in {"keyed", "plain"}
  /\ \A r \in Proofs : secrets[r] # {} => pc[r] # "idle"

(* The loop never sleeps into the last quarter of a token's life: unless   *)
(* the last renewal failed it wakes by then (or within the minimal pause), *)
(* and after a failure it retries within the poll interval.                *)
WakesByMargin ==
  phase = "sleeping" =>
    IF failing \/ ~held.established THEN timer[Refresh] <= Poll
    ELSE timer[Refresh] <= 1 \/ held.primary - timer[Refresh] >= REFRESH_MARGIN

(* Every request is answered, whatever the tee server and the threads do.  *)
RequestsAnswered == \A r \in Requests : pc[r] # "idle" ~> pc[r] = "idle"

(* While the tee server stays up, no proof computes on the loop and the    *)
(* pool has a thread to spare, the gate opens and stays open: every token  *)
(* is renewed before it expires.                                           *)
GateStaysOpen == <>[](teeUp /\ ~blocked) => <>[]snapshot

(* attestation.py:996-998: a token is refreshed when less than a quarter   *)
(* of its lifetime remains, "so the cache renews BEFORE expiry".           *)
RenewedBeforeExpiry == held.established => held.primary > 0
=============================================================================
