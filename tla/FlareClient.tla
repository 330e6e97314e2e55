---------------------------- MODULE FlareClient ----------------------------
(* One FlareCoston2Client (connector.py) shared by concurrent tasks: every RPC *)
(* goes down the priority list of endpoints past the ones whose circuit        *)
(* breaker is open, and submissions of the one signer are serialized by a lock *)
(* from the nonce to the receipt.  The nodes behind the endpoints follow one   *)
(* chain, each at its own pace.                                                *)
EXTENDS Naturals, Sequences

CONSTANTS N,             \* number of endpoints, in the order of their priority
          Callers,       \* tasks that share the client; each gets at most one
                         \* transaction accepted, which bounds the chain
          Threshold,     \* FAILOVER_TRIP_THRESHOLD
          Cooldown       \* FAILOVER_COOLDOWN_S, in ticks

Endpoints == 1..N

ASSUME ClientAssumption ==
    /\ N \in Nat \ {0}
    /\ Threshold \in Nat \ {0}
    /\ Cooldown \in Nat \ {0}

VARIABLES up,        \* endpoints that answer
          failures,  \* consecutive_failures of an endpoint, up to Threshold
          cooldown,  \* ticks left of its quarantine
          todo,      \* what a task still has to do, its current step first
          at,        \* the endpoint of its outstanding request
          nonce,     \* the nonce a submission read, and where
          reply,     \* what the node made of the transaction, until the answer arrives
          outcome,   \* how a task ended
          queue,     \* _tx_lock: its holder, then those who wait for it
          pending,   \* the transaction the nodes will include next
          chain,     \* the signer's transactions on chain, the one of nonce n at n + 1
          view,      \* how many of them an endpoint has seen
          accepted   \* history: transactions some node accepted

breaker == <<failures, cooldown>>
task == <<todo, at, nonce, reply, outcome, queue>>
network == <<pending, chain, view, accepted>>
clientVars == <<up, breaker, task, network>>

NoNonce == [n |-> 0, from |-> 0]
NoTx == "none"

(* The operations of the client, as the steps at which they await.            *)
transaction == <<"lock", "fees", "prepare", "send", "receipt">>
resolve_contract == <<"resolve">>
get_fdc_attestation_fee == resolve_contract \o <<"price">>
submit_attestation == resolve_contract \o <<"abi">> \o transaction
\* The fee is given, or asked for.
submit_fdc_attestation_request ==
    {resolve_contract \o fee \o transaction : fee \in {<<>>, get_fdc_attestation_fee}}
get_feeds == resolve_contract \o <<"feeds">>
liveness == <<"chain_id", "syncing", "get_block">>

operations ==
    {submit_attestation, get_feeds, liveness} \cup submit_fdc_attestation_request

\* Steps that are one read through _rpc, and all steps that go through it.
Reads == {"resolve", "price", "fees", "feeds", "chain_id", "syncing", "get_block"}
Rpcs == Reads \cup {"prepare", "send", "receipt"}
Steps == Rpcs \cup {"abi", "lock"}

doing(t, step) == todo[t] # <<>> /\ Head(todo[t]) = step
calling(t) == todo[t] # <<>> /\ Head(todo[t]) \in Rpcs

ClientInit ==
    /\ up = Endpoints
    /\ failures = [e \in Endpoints |-> 0]
    /\ cooldown = [e \in Endpoints |-> 0]
    /\ todo = [t \in Callers |-> <<>>]
    /\ at = [t \in Callers |-> 0]
    /\ nonce = [t \in Callers |-> NoNonce]
    /\ reply = [t \in Callers |-> "none"]
    /\ outcome = [t \in Callers |-> "idle"]
    /\ queue = <<>>
    /\ pending = NoTx
    /\ chain = <<>>
    /\ view = [e \in Endpoints |-> 0]
    /\ accepted = {}

-----------------------------------------------------------------------------
(* How a call goes on.                                                        *)

\* The call ends; `async with` gives the lock to the next in line if the task
\* held it.  A caller whose transaction was never accepted may start over.
leave(t, how) ==
    /\ todo' = [todo EXCEPT ![t] = <<>>]
    /\ reply' = [reply EXCEPT ![t] = "none"]
    /\ queue' = IF queue # <<>> /\ Head(queue) = t THEN Tail(queue) ELSE queue
    /\ outcome' = [outcome EXCEPT ![t] = IF t \in accepted THEN how ELSE "idle"]
    /\ nonce' = [nonce EXCEPT ![t] = IF t \in accepted THEN @ ELSE NoNonce]
    /\ at' = [at EXCEPT ![t] = IF t \in accepted /\ how = "returned" THEN @ ELSE 0]

\* The loop of _rpc, from the k-th endpoint on: the first one that is not
\* tripped gets the request; without one the call is given up.
try(t, steps, k) ==
    LET healthy == {e \in Endpoints : e >= k /\ cooldown'[e] = 0} IN
    \/ /\ healthy # {}
       /\ todo' = [todo EXCEPT ![t] = steps]
       /\ at' = [at EXCEPT ![t] = CHOOSE e \in healthy : \A f \in healthy : e <= f]
       /\ outcome' = [outcome EXCEPT ![t] = "running"]
       /\ reply' = [reply EXCEPT ![t] = "none"]
       /\ nonce' = IF Head(steps) = "prepare" THEN [nonce EXCEPT ![t] = NoNonce] ELSE nonce
       /\ UNCHANGED queue
    \/ /\ healthy = {}
       /\ leave(t, "raised")

\* A task goes on with steps, up to its next await.
proceed(t, steps) ==
    \/ /\ steps = <<>>
       /\ leave(t, "returned")
    \/ /\ steps # <<>> /\ Head(steps) \in Rpcs
       /\ try(t, steps, 1)
    \/ /\ steps # <<>> /\ Head(steps) \notin Rpcs
       /\ todo' = [todo EXCEPT ![t] = steps]
       /\ at' = [at EXCEPT ![t] = 0]
       /\ outcome' = [outcome EXCEPT ![t] = "running"]
       /\ UNCHANGED <<nonce, reply>>
       /\ queue' = IF Head(steps) = "lock" THEN Append(queue, t) ELSE queue

\* A request came back with an answer: the breaker of its endpoint is reset.
answered(t) ==
    /\ calling(t) /\ at[t] \in up
    /\ failures' = [failures EXCEPT ![at[t]] = 0]
    /\ UNCHANGED cooldown

\* A caller starts an operation, the first time or after one that brought no
\* transaction about.
begin(t) ==
    /\ outcome[t] = "idle"
    /\ UNCHANGED breaker
    /\ \E steps \in operations : proceed(t, steps)
    /\ UNCHANGED <<up, network>>

\* A contract or chain read returns what was asked for.
readReturns(t) ==
    /\ answered(t) /\ Head(todo[t]) \in Reads
    /\ proceed(t, Tail(todo[t]))
    /\ UNCHANGED <<up, network>>

callErrs_Counted(t) ==
    /\ calling(t) /\ at[t] \in up /\ Head(todo[t]) \in Reads \cup {"prepare"}
    /\ failures' = [failures EXCEPT ![at[t]] = IF @ < Threshold THEN @ + 1 ELSE @]
    /\ cooldown' = [cooldown EXCEPT ![at[t]] =
                        IF failures'[at[t]] >= Threshold THEN Cooldown ELSE @]
    /\ leave(t, "raised")
    /\ UNCHANGED <<up, network>>

\* An answer that the client refuses (a zero address, another chain id, a node
\* that is syncing or behind, a fee of zero), after _rpc has returned it.
answerRefused(t) ==
    /\ answered(t) /\ Head(todo[t]) \in Reads \ {"fees", "feeds"}
    /\ leave(t, "raised")
    /\ UNCHANGED <<up, network>>

\* The endpoint answers with an error that another endpoint would give as well, a
\* revert or a request it cannot serve: the exception passes through _rpc, and
\* the breaker neither counts it nor is reset.
callErrs(t) ==
    /\ calling(t) /\ at[t] \in up /\ Head(todo[t]) \in Reads \cup {"prepare"}
    /\ leave(t, "raised")
    /\ UNCHANGED <<up, breaker, network>>

\* A transport failure, whatever the node made of the request before: the
\* breaker counts it and trips at the threshold, and the whole step starts
\* again at the next endpoint.
callFails(t) ==
    /\ calling(t) /\ at[t] \notin up
    /\ failures' = [failures EXCEPT ![at[t]] = IF @ < Threshold THEN @ + 1 ELSE @]
    /\ cooldown' = [cooldown EXCEPT ![at[t]] =
                        IF failures'[at[t]] >= Threshold THEN Cooldown ELSE @]
    /\ try(t, todo[t], at[t] + 1)
    /\ UNCHANGED <<up, network>>

\* The health check cancels its probe at a deadline; no caller cancels a
\* submission.
cancel(t) ==
    /\ todo[t] # <<>> /\ todo[t][Len(todo[t])] # "receipt"
    /\ leave(t, "raised")
    /\ UNCHANGED <<up, breaker, network>>

-----------------------------------------------------------------------------
(* The submission of a transaction.                                           *)

\* The explorer returns a verified ABI that has the function and its inputs, or
\* the submission ends.
fetch_contract_abi(t) ==
    /\ doing(t, "abi")
    /\ UNCHANGED breaker
    /\ \/ proceed(t, Tail(todo[t]))
       \/ leave(t, "raised")
    /\ UNCHANGED <<up, network>>

\* asyncio.Lock is first come, first served.
acquire(t) ==
    /\ doing(t, "lock") /\ Head(queue) = t
    /\ UNCHANGED breaker
    /\ proceed(t, Tail(todo[t]))
    /\ UNCHANGED <<up, network>>

\* get_transaction_count at the block the endpoint has last seen; the request
\* goes on with the gas estimate at the same endpoint.
readNonce(t) ==
    /\ doing(t, "prepare") /\ at[t] \in up
    /\ nonce[t] = NoNonce
    /\ nonce' = [nonce EXCEPT ![t] = [n |-> view[at[t]], from |-> at[t]]]
    /\ UNCHANGED <<up, breaker, todo, at, reply, outcome, queue, network>>

prepare_transaction(t) ==
    /\ answered(t) /\ doing(t, "prepare")
    /\ nonce[t] # NoNonce
    /\ proceed(t, Tail(todo[t]))
    /\ UNCHANGED <<up, network>>

\* The node takes the transaction.  One with the same nonce that is waiting is
\* replaced or stays; a node that is behind takes one whose nonce is used up.
nodeAccepts(t) ==
    /\ doing(t, "send") /\ at[t] \in up /\ reply[t] = "none"
    /\ nonce[t].n >= view[at[t]]
    /\ reply' = [reply EXCEPT ![t] = "accepted"]
    /\ accepted' = accepted \cup {t}
    /\ \/ /\ nonce[t].n = Len(chain)
          /\ pending' = t
       \/ /\ nonce[t].n < Len(chain) \/ pending # NoTx
          /\ UNCHANGED pending
    /\ UNCHANGED <<up, breaker, todo, at, nonce, outcome, queue, chain, view>>

sendReturns_Unlocks(t) ==
    /\ answered(t) /\ doing(t, "send") /\ reply[t] = "accepted"
    /\ todo' = [todo EXCEPT ![t] = Tail(@)]
    /\ queue' = Tail(queue)
    /\ reply' = [reply EXCEPT ![t] = "none"]
    /\ UNCHANGED <<up, at, outcome, nonce, network>>

sendReturns(t) ==
    /\ answered(t) /\ doing(t, "send") /\ reply[t] = "accepted"
    /\ proceed(t, Tail(todo[t]))
    /\ UNCHANGED <<up, network>>

\* Nonce too low, already known, replacement underpriced, insufficient funds:
\* the node refuses, and the submission ends even if an earlier endpoint has
\* taken the transaction.
sendErrs(t) ==
    /\ doing(t, "send") /\ at[t] \in up /\ reply[t] = "none"
    /\ leave(t, "raised")
    /\ UNCHANGED <<up, breaker, network>>

included(t) == \E i \in 1..view[at[t]] : chain[i] = t

receiptReturns(t) ==
    /\ answered(t) /\ doing(t, "receipt") /\ included(t)
    /\ proceed(t, Tail(todo[t]))
    /\ UNCHANGED <<up, network>>

\* TX_RECEIPT_TIMEOUT_S: TimeExhausted becomes a TransactionError, and the
\* transaction stays where it is.
receiptTimesOut(t) ==
    /\ doing(t, "receipt") /\ at[t] \in up /\ ~included(t)
    /\ leave(t, "raised")
    /\ UNCHANGED <<up, breaker, network>>

-----------------------------------------------------------------------------
(* The nodes and the clock.                                                   *)

Mine ==
    /\ pending # NoTx
    /\ chain' = Append(chain, pending)
    /\ pending' = NoTx
    /\ UNCHANGED <<up, breaker, task, view, accepted>>

CatchUp(e) ==
    /\ view[e] < Len(chain)
    /\ view' = [view EXCEPT ![e] = @ + 1]
    /\ UNCHANGED <<up, breaker, task, pending, chain, accepted>>

EndpointFlips(e) ==
    /\ up' = IF e \in up THEN up \ {e} ELSE up \cup {e}
    /\ UNCHANGED <<breaker, task, network>>

Tick ==
    /\ \E e \in Endpoints : cooldown[e] > 0
    /\ cooldown' = [e \in Endpoints |-> IF cooldown[e] > 0 THEN cooldown[e] - 1 ELSE 0]
    /\ UNCHANGED <<up, failures, task, network>>

-----------------------------------------------------------------------------

\* The next step of a call that is under way.
goesOn(t) ==
    \/ todo[t] # <<>> /\ Head(todo[t]) \in Reads /\ (readReturns(t) \/ answerRefused(t))
    \/ calling(t) /\ (callErrs(t) \/ callFails(t))
    \/ doing(t, "abi") /\ fetch_contract_abi(t)
    \/ doing(t, "lock") /\ acquire(t)
    \/ doing(t, "prepare") /\ (readNonce(t) \/ prepare_transaction(t))
    \/ doing(t, "send") /\ (nodeAccepts(t) \/ sendReturns(t) \/ sendErrs(t))
    \/ doing(t, "receipt") /\ (receiptReturns(t) \/ receiptTimesOut(t))

ClientNext ==
    \/ \E t \in Callers : begin(t) \/ goesOn(t) \/ cancel(t)
    \/ Mine \/ Tick
    \/ \E e \in Endpoints : CatchUp(e) \/ EndpointFlips(e)

ClientSpec ==
    /\ ClientInit /\ [][ClientNext]_clientVars
    /\ \A t \in Callers : WF_clientVars(goesOn(t))
    /\ WF_clientVars(Tick)

-----------------------------------------------------------------------------
(* Properties.                                                                *)

\* Types; and whoever has left, with a receipt or an error, has left the queue
\* of the transaction lock.
ClientTypeOK ==
    /\ up \subseteq Endpoints
    /\ failures \in [Endpoints -> 0..Threshold]
    /\ cooldown \in [Endpoints -> 0..Cooldown]
    /\ todo \in [Callers -> Seq(Steps)]
    /\ at \in [Callers -> 0..N]
    /\ nonce \in [Callers -> [n : Nat, from : 0..N]]
    /\ reply \in [Callers -> {"none", "accepted"}]
    /\ outcome \in [Callers -> {"idle", "running", "returned", "raised"}]
    /\ queue \in Seq(Callers)
    /\ \A i \in 1..Len(queue) : outcome[queue[i]] = "running"
    /\ pending \in Callers \cup {NoTx}
    /\ chain \in Seq(Callers)
    /\ view \in [Endpoints -> Nat]
    /\ accepted \subseteq Callers

SameNonce(s, t) == s # t /\ {s, t} \subseteq accepted /\ nonce[s].n = nonce[t].n

\* t read its nonce at an endpoint other than the one that gave s its receipt.
ReadElsewhere(s, t) == outcome[s] = "returned" /\ nonce[t].from # at[s]

\* Two accepted transactions have the same nonce only after a fault: one of the
\* submissions failed, or the later one read its nonce at another endpoint than
\* the one that had shown the earlier one its receipt.  The lock around nonce,
\* signature, broadcast and receipt is there for this.
NonceReuseNeedsFault ==
    \A s, t \in Callers :
        SameNonce(s, t) =>
            \/ "raised" \in {outcome[s], outcome[t]}
            \/ ReadElsewhere(s, t)
            \/ ReadElsewhere(t, s)

\* Every submission ends with a receipt or an error, whatever the endpoints do
\* and whoever holds the lock: calls are bounded and the lock is always given on.
SubmissionsReturn ==
    \A s \in Callers : outcome[s] = "running" ~> outcome[s] # "running"

\* The primary recovers (connector.py:569-571): once it stays up it is eventually
\* out of quarantine for good, however many calls revert on it, whatever late
\* failures arrive and whichever callers were sent to other endpoints meanwhile.
PrimaryRecovers == <>[](1 \in up) => <>[](cooldown[1] = 0)

\* A client in use outlives its endpoints' outages: no submission hangs and the
\* primary is used again.
ClientSurvivesOutages == SubmissionsReturn /\ PrimaryRecovers

\* connector.py:1174-1175: the nonce race between concurrent submissions is
\* closed by holding the lock across prepare, sign and send, so that no two
\* transactions carry one nonce.
NonceRaceClosed == \A s, t \in Callers : ~SameNonce(s, t)

=============================================================================
