# A TLA+ model of flare-verifiable-rag

The repository answers queries inside a confidential enclave and settles the
answers on the Flare network: a Python gateway decrypts a query, a Rust engine
indexes the document in a knowledge graph and proves the run, Solidity contracts
check the enclave's attestation, the proof commitment and Web2 data and settle
against an FTSO price, and a Rust service fetches Web2 data over attested TLS
and runs an FTSO price provider. This directory models the parts of it that keep
state and meet concurrency, failure or adverse orders of calls.

## 1. Inventory

| Component | State | Operations | Interacts with | What is hard | What makes it correct |
|---|---|---|---|---|---|
| `VerifiableRAG.sol` | approved image digest, feed id, accepted commitments, query records, last settlement | owner updates, `submitAttestation`, `verifyAndSettleRAG` | FtsoV2, FdcVerification and Relay through the contract registry | replays, rotations between two settlements, stale feeds, registry changes, scaling | one binding per query, write-once records, each commitment once, fresh price, gate before effect |
| `ZkTlsRelayer.sol` | signer set, used digests, record per url | register, deregister, `relayVerifiedWeb2Data` | proofs of the enclave, carried by anyone | late, repeated, altered, overtaken proofs | records only from fresh, unused, authorized proofs |
| zkTLS proxy (`zktls/proxy.rs`, `cert_verifier.rs`) | chain sink, connection pool, TLS tickets | `get`, `verify_server_cert`, `take_for` | Web2 servers, proof generator | concurrent requests share the sink; pooled and resumed sessions | a proof names the chain of its own session |
| zkTLS proof generator | identity key | `generate_proof` | proxy, relayer | clock skew, nonces | the signed payload |
| Knowledge graph (`graph.rs`) | entities, relations, ranks | `add_entity`, `add_relation`, `serialize`, `deserialize` | gateway through the FFI | incremental topological order | acyclic, ranked, exact rejections |
| FTSO provider node (`ftso_provider/node.rs`) | price book, staleness flag, counters, one task per exchange | connect, stream, back off, monitor | exchanges, metrics, aggregation | failures, backoff, clocks, read-backs | silence is reported, connectors recover |
| FTSO aggregation (`calculator.rs`) | none | `volume_trimmed_median` | price book | ties, zero volume, thin venues | a quoted price that thin venues cannot move |
| Gateway (`main.py`), attestation cache (`attestation.py`), processor (`processor.py`) | held tokens, refresh loop, requests, threads, secret buffers | gate, `/v1/query`, `/v1/attestation-proof`, renewal | tee server, Rust engine | one event loop, one executor, deadlines, abandoned threads | every request answered, secrets scrubbed, gate open while the tee server is up |
| FTSO submitter (`submitter.rs`) | none of its own: a round is built, signed and revealed | `new`, `format_price`, `commit_hash`, calldata | aggregation, MPC signer, FTSO contracts | rounding, ABI layout, order of commits and reveal | an executed reveal opens executed commits |
| gRPC server (`main_grpc.rs`, `tls_config.rs`, `grpc_server.rs`), rate limiter, metrics | TLS mode, backlog, one accept loop, token bucket, locked query count, counters | boot, handshake, interceptor, four handlers, shutdown | clients, attestation devices | handlers interleave at each lock and counter; one loop awaits each handshake | bounded rate, reconciled counters, every call answered |
| KMS client and MPC signer (`kms/`) | the released share while it is used | `release_enclave_shard`, `split_key`, `sign_eip1559` | STS, Cloud KMS, submitter | late and unreadable answers, policy changes during a call | a share needs a live approval, the signature is the wallet's |
| Rust attestation (`attestation/`) | none | `TdxDevice`, `SevSnpDevice`, `build_eat`, `verify_eat` | gRPC server, `tdx_attest_tool` | devices that are missing, refuse or report a firmware code | what a token carries under the signature verifies for its own session and build only |
| Tokenizer and parser (`lib.rs`, `ast.rs`) | the pending sentence, section and newline run | `tokenize`, `parse`, `from_ast`, `lex` | FFI, circuit | states carried from one character or token to the next | the graph is what the text says |
| Trie (`trie.rs`) | nodes, count of keys | insert, lookup, prefixes, clone, persist, drop | tokenizer's callers | explicit stacks in place of recursion, bytes against characters | it is a map |
| Circuit and proofs (`zkp.rs`, `ffi.rs`) | the process-wide setup | `parse_and_prove`, `prove`, `verify` | gateway through the FFI, `submitAttestation` | a setup of one shape serves all calls; order of public inputs | an answer commits to its document, prompt and evidence |
| Flare client (`connector.py`, `fdc_encoder.py`) | endpoints with circuit breakers, transaction lock | `_rpc`, prepare, sign and send, FDC requests, feeds, liveness | RPC nodes, explorer | failover in the middle of a transaction, lost answers, receipts that come too late | calls end, nonces are not reused, the primary recovers |
| Command line tools, frontend, deployment | none that outlives a call | minting, display, declarations | | | |

## 2. Modules

| Module | Models | Composed with |
|---|---|---|
| `QueryLedger` | abstract: commitments accepted once, each binding its query | |
| `VerifiableRAG` | settlement half of the contract, one action per transaction | implements `QueryLedger` |
| `ZkTlsRelayer` | the relayer, the enclave identities that sign for it, and the carriers | |
| `ZkTlsProxy` | the sink under concurrent requests, hyper's pool, TLS resumption | |
| `KnowledgeGraph` | insertion, search, Kahn's rebuild, serialization | |
| `GraphQueries` | traversal and evidence paths on the graph of the moment | extends `KnowledgeGraph` |
| `SymbolMap` | abstract: a map from keys to values | |
| `SymbolicTrie` | the trie, its three loops one iteration at a time | implements `SymbolMap` |
| `SymbolicIndexer` | tokenizer, parser, AST and token graph, one token at a time | |
| `EvidenceProof` | `parse_and_prove`, the circuit's copy constraints, proof helpers | extends `SymbolicIndexer` |
| `ProviderNode` | connectors, price book, monitor in discrete time | |
| `VolumeTrimmedMedian` | the aggregation as operators, on every list of observations | |
| `EnclaveGateway` | attestation cache and loop, gate, query and proof handlers, executor | |
| `TokenBucket` | the shared rate limiter | |
| `EatToken` | report devices, minting and offline verification of tokens, as operators | |
| `EnclaveService` | boot, TLS mode, accept loop, interceptor, handlers, counters, shutdown | extends `TokenBucket`, `EatToken` |
| `KmsWallet` | release of the sealed share, two-share signing, STS and Cloud KMS as environment | |
| `PriceSubmission` | voting rounds from observations to executed reveals | extends `VolumeTrimmedMedian`, `KmsWallet` |
| `FlareClient` | failover and circuit breakers, reads, the transaction from nonce to receipt, the nodes | |
| `*_proofs` | the theorems of the modules they extend; those of `FlareClient` are in `ZkTlsRelayer_proofs`, those of `TokenBucket` and `EatToken` in `EnclaveService_proofs`, those of `VolumeTrimmedMedian`, `KmsWallet` and `ProviderNode` in `PriceSubmission_proofs`, those of the RAG engine in `RagEngine_proofs` | |
| `MC*` | instances for TLC | |

Conventions. A definition keeps the name of the function it models; actions that
stand for a part of a function are named for what happens. Operators with a
suffix, such as `recordQuery_Refreshes`, are faulty variants used to see that a
property notices the fault; nothing in a specification uses them.

### VerifiableRAG
A transaction is one action because the EVM makes it atomic: a gate that fails
reverts all writes, so guards are the gates and a reverted call is a stuttering
step. `keccak256` is injective: a hash is the tuple of its inputs. The scanner
that extracts `swname` and `image_digest` from a token is the constant `Claims`,
what it yields for each token; the FDC verification is the constant record of a
proof (decodes, genuine, round) together with the rounds the Relay finalized.
Price arithmetic is exact, with `MaxUint` for Solidity's checked overflow; the
power of ten is a recursive function, so that proofs may speak of it.

### ZkTlsRelayer
`generate_proof` signs a payload stamped with a clock that is off by at most
`Skew`. `Carried` is what may reach the chain: signed proofs as they are, and
altered ones, from which `ecrecover` yields nobody or an unknown address.
`provenTs` is a history variable: the proof time behind each record.

### ZkTlsProxy
A request connects (and captures), resumes a session or reuses a pooled
connection (and captures nothing), returns or fails, and takes a chain from the
sink for its proof. The sink has the code's bound and drops its oldest entry.

### KnowledgeGraph
`add_relation` checks, compares ranks and, if they disagree, searches one vertex
at a time; a successful search ends in the rebuild, again one vertex at a time,
so that TLC sees every order in which a stack or a queue may be worked off.
`deserialize` takes any well or ill formed input over the entities.
`GraphQueries` computes the query methods as recursive functions over the order
in which a breadth-first search discovers vertices: the order of an answer is
part of what is checked, since it reaches the prompt of the model. A list in the
order of ids is the list whose entry number n has n - 1 members of the set below it;
stating a sort by such ranks leaves the proofs no sorting algorithm to follow.

### ProviderNode
The book keeps ages instead of instants, capped where the code cannot tell them
apart, so that behaviours are infinite and states are not. A due timer fires
before time advances.

### VolumeTrimmedMedian
Prices are doubled so that the even median stays an integer; volumes are small
naturals. The sort by price is stated by ranks, the running sum of volumes is a
recursive function. The state is the list of observations that `observe` builds up,
and `PriceSubmission` drives it.

### SymbolicTrie and SymbolMap
A node is named by the path that leads to it, so the tree is a function on a
prefix-closed set. Iteration, cloning and teardown pop one entry of their stack
per step; the abstract map changes and answers when the call returns. A clone
that lost a node, a walk in the wrong order or a count that drifts is a step the
map does not have. Characters carry the bytes they take in UTF-8, because the
clamp on keys counts bytes while the JSON reader counts nesting levels.

### SymbolicIndexer and EvidenceProof
A character stands for its byte class. `tokenize` consumes a token per step,
`parse` folds one, the extraction of subject terms takes one; what is pending
between two steps (`sentence`, `newlines`, the open section) is the state that a
test of whole documents does not see. The circuit is its set of copy
constraints; halo2 is external and accepts a proof exactly when the witness
meets the constraints of the circuit the keys were made from. The setup is the
process-wide `OnceLock`, shared with the other callers of `prove` and `verify`.

### TokenBucket and EnclaveService
Token counts are exact fractions (`Cost` units a token, `Rate` units a tick).
`window` and `granted` observe the bucket; `window` may be moved to the present
at any time, so one invariant speaks of all windows. A handler takes one step per lock or
counter it touches. The kernel keeps the backlog; hyper drains after a signal and
returns at once when the listener's stream ends. `accept` takes a connection and from
then on the loop waits for what the peer says (`said`): a valid certificate, something
the acceptor rejects, or nothing, for as long as the peer likes (`peerSpeaks` has no
fairness). A signal drops the loop together with the handshake it awaits.

### EatToken
The devices give a report or the error the code maps; digests and encodings are
injective. A token is the four parts of the COSE_Sign1 with their CBOR types, and
whether bytes follow the array, which the reader ignores. Verification follows the
code's order of checks; the tokens tried against it are every minted one and every
change of one part: lost, doubled, of another type, of another value, taken from
another token, `s` negated. What the code neither signs nor checks (the unprotected
header, trailing bytes, the sign of `s`) may change and the token still verifies:
`carries` says what is left.

### KmsWallet and PriceSubmission
The curve is the cyclic group of order `Order` written additively, so key
composition and splitting are arithmetic; ECDSA and keccak are symbolic. A
release is two calls, each of which may be answered late, never, with headers
only, or with a body that does not parse. `PriceSubmission` formats the
aggregate, commits each feed, reveals, and lets an external chain decode the
calldata by the ABI, offsets included.

### EnclaveGateway
The steps of the event loop are atomic up to the next `await`; `to_thread` jobs go
through the executor's queue, where a cancelled job stays until a thread skips it,
as in `concurrent.futures`; a proof that computes in the coroutine sets `blocked`
and stops every step of the loop. `secrets` records which buffers hold a key or
plaintext. Requests are slots that are used again and again.

### FlareClient
An operation is the sequence of steps at which it awaits; all but the fetch of the
ABI and the lock go through the loop of `_rpc`, which `try` enters at an endpoint
and `callFails` enters again at the next one. An endpoint that is up answers, one
that is down fails the request, and because an endpoint may go down between what
the node does and its answer, an answer may be lost after the transaction was
taken. `prepare_transaction` reads the nonce and then goes on at the same
endpoint; a failure in between starts the step again with a new nonce. Breakers
keep the time left of a quarantine instead of an instant. The nodes follow one
chain, each at its own pace (`view`); `pending` is the transaction of the signer
that will be included next, `accepted` a history variable. Each caller gets at
most one transaction accepted, which bounds the chain.

## 3. Runs

| Run | Expected | Shows |
|---|---|---|
| `rag_settlement` | pass | safety and refinement of the contract under two images, two tokens per query, feed and registry changes |
| `relayer` | pass | only fresh, unused, authorized proofs become records; overtaking is bounded |
| `proxy` | pass | no capture is used twice or for another server |
| `graph` | pass | acyclic, ranked, exact rejections; traversals and evidence paths as documented; every call returns |
| `provider` | pass | the flag is timely and true; connectors recover and outages end |
| `gateway` | pass | requests are answered, secrets scrubbed, no work begins after an answer, the gate stays open |
| `flare` | pass | a nonce is reused only after a fault, every call ends, the primary recovers |
| `rag_engine` | pass | the trie is a map; the token graph is what the text says; answers verify and commit to their inputs |
| `service` | pass | quota over every window, counters that reconcile, tokens bound to sessions, a verdict for every connection that waits behind peers that speak, an answer for every call |
| `service_measurements` | violation | tokens of the server claim zeros as measurements |
| `submission` | pass | the submitted price is quoted and robust, a share is released with approval only, transactions are the wallet's, reveals open commits |
| `submission_reference` | violation | no reveal opens its commits by the reference formula |

Bounds, and why they are enough:

- `rag_settlement`: two images, so that a rotation can come between any two
  settlements; tokens that differ only in the token, in the image, in a missing
  `swname`; positive and negative decimals; `MaxAge` of one block in three; at
  most `MaxCommitments` commitments, enough for a settlement, a replay and a
  re-verification.
- `relayer`: two keys, nonces for three proofs, times on both sides of the window
  and a skew that reaches past its edge.
- `proxy`: two tasks, two servers, two chains, three handshakes and a sink of two
  entries: the requests may overlap in every way while the sink overflows.
- `graph`: all graphs on three entities, with the smallest predicate set, and every
  serialized form over them.
- `provider`: two exchanges and two feeds with unit thresholds, a delay that doubles
  once before the clamp.
- `gateway`: a query, a proof and the renewal on two threads, so that two jobs can
  fill the pool before the third; token life four times the margin, as in the code.
- `flare`: two callers and two endpoints, the least with a race and a failover; a
  threshold of two, so that failures must be consecutive to trip a breaker.

- `rag_engine`: keys on both sides of the clamp and of the reader's limit, with a
  proper prefix and siblings; every text of up to three characters over all byte
  classes, and nine longer ones that reach several sections, three terms in a
  sentence, repeated terms and both halves of a number.
- `service`: one trusted and one untrusted client, a bucket of one token that
  earns one and a half per tick, so that a refill is capped; two calls and two
  connections, so that each handler meets another one at every shared variable, at a
  limit, and during a shutdown, and a client waits behind one that is rejected,
  admitted or silent. The session nonces include the blank one.
- `submission`: every list of up to four observations with volumes that include
  zero and ties in price; prices on both sides of a half unit, at the largest
  reported value, and above it, for the observed feed and the other one; a group of
  five elements, so that every split of the key is tried, one with a zero share
  included; two rounds, so that a reveal meets commits of another one; three
  releases, so that one comes after a timeout with a late grant.

The bounds named in the modules (`MaxTime`, `MaxCalls`, `MaxConnects`,
`MaxRounds`, `MaxReleases`, `Collected`, `MaxHandshakes`, `MaxEntities`,
`MaxCommitments`) limit how much the environment asks, never what the code does.

The type invariants of `VerifiableRAG`, `ZkTlsRelayer`, `ZkTlsProxy`, `KnowledgeGraph`,
`ProviderNode`, `FlareClient` and `EnclaveGateway` are proved for every value of the constants (section 5) and not
repeated in the runs, and so are `RecordsWriteOnce` and `CommitmentsAcceptedOnce`
of the contract, `OnlySignedDigestsConsumed` of the relayer, `KahnRejectsOnlyCycles`,
`ErrorsLeaveGraph` and `RoundTripAccepted` of the graph, and `WakesByMargin` and
`QueuedJobsAwaited` of the gateway.

Each property of a passing run was tried against a fault in one of the modelled
functions, which TLC finds; the faults are the suffixed operators.

## 4. Fairness

- `KnowledgeGraph`: weak fairness of the internal steps; a call runs to its end.
- `ProviderNode`: strong fairness of `Tick` (time passes whatever venues do) and of
  `connectSucceeds` (a venue that stays up does not let every attempt time out);
  weak fairness of timers, which Tokio fires, and of owed tickers.
- `EnclaveGateway`: strong fairness of `Tick` and of the loop's steps, because
  asyncio runs each ready callback once per iteration even if proofs block the
  loop in between; weak fairness of the executor, of fetches, which have a timeout
  of their own, and of a proof on the loop. Nothing is assumed of the pipelines of
  queries: the deadline alone answers their requests.

- `FlareClient`: weak fairness of the next step of every call that is under way: a
  request has a timeout, the wait for a receipt too, and `asyncio.Lock` wakes its
  waiters in order; and of `Tick`, because time passes. Nothing is assumed of
  callers, of nodes or of inclusion in a block.
- `EnclaveService`: weak fairness of the accept loop and of each handler, which Tokio
  polls whenever they are ready. Nothing is assumed of peers, and the code awaits
  `accept` in the loop with no timeout, so one silent peer keeps all others waiting:
  `ConnectionsDecided` has the premise that no handshake stays silent for ever and says
  so in its formula. What it does show is that a rejected client costs the ones behind
  it nothing. Clients, time and signals are not fair.
- `PriceSubmission`: weak fairness of `expiry`, the timers of `post_json`, and nothing
  else: `ReleasesReturn` must hold with services that never answer.

## 5. Proofs

All theorems are for every value of the constants that satisfies the named
assumptions.

- `VerifiableRAG_proofs`: types; one binding per query; records backed by a
  commitment; write-once records; replay protection; a settlement comes after the
  Web2 gate, on a fresh price of the configured feed, and its storage can be
  recomputed from its event; the contract implements `QueryLedger`. The binding
  invariant is inductive together with the types. The refinement maps the abstract
  bindings to the bindings of verified records; each transaction is one abstract step
  or none. That `powerOfTen` is a positive natural for every number of decimals is
  shown by induction, without which the scaled value of a settlement has no type.
- `ZkTlsRelayer_proofs`: types, records attested in the window, digests consumed by signed
  proofs only, records changed by authorized unused proofs only, bounded
  regression. The strengthening says that the record of a url and the history of
  its proof time belong to one signed proof.
- For `FlareClient`, in the same module: types, and two accepted transactions have one
  nonce only after a fault. The strengthening says that every call is on the plan of an
  operation and what has become of its transaction by then, that whoever is past the
  lock is at the head of the queue of its waiters, and that a nonce is a place in the
  chain, ahead of which no view is. `Ordered` is what the property needs: a nonce that
  was read at the endpoint which gave an earlier call its receipt is above the nonce
  of that call. The lock alone would not do, since a nonce is fresh only where the
  receipt was seen.
- `KnowledgeGraph_proofs`: types, acyclicity, ranks, exact rejections, clean errors,
  round trip. The ranks are what makes acyclicity inductive: between calls every
  relation goes up in rank, so a cycle would go up for ever. During a search
  `Searched` says that visited vertices are reachable and the unvisited successors
  of visited vertices are on the stack, so that an empty stack proves that the new
  edge closes no cycle; during a rebuild `Ranked` says which vertices are freed.
- For `GraphQueries`, in the same module: for every graph the calls can build, the
  traversals list what is reachable once each, along the maintained order, and
  `find_path` gives the exact evidence subgraph: every entity that predicate edges lead
  to, at its shortest distance, by depth and id, with the predicate edges among them.
  The steps of the breadth-first search are a recursive function; after each step what
  was discovered is reachable, and what has left the queue has its successors
  discovered, so the search ends, within as many steps as there are entities, in the
  least closed set. Distances are least by the same kind of argument over the number
  of hops, and a list is ordered because its entries are placed by rank.
- `EnclaveGateway_proofs`: types, awaited jobs, scrubbing, the wake-up margin, no
  pipeline begun after its request was answered. The
  strengthening relates the executor's queue to the state of its jobs and bounds
  what a sleeping loop may have ahead of it.
- `EnclaveService_proofs`: over every window, the tokens the bucket grants are at most
  the burst and what the rate earns in it. The strengthening adds what is in the
  bucket, and what it will earn, to what was granted: that sum is what no step raises.
  An acquisition moves `last_refill` and the tokens together, so the refill of a window
  is counted once; the arithmetic is in lemmas of its own. Each step of the server is
  a step of the bucket or leaves it alone, so the server implements the bucket and
  inherits the quota, for every number of clients, every rate and every interleaving of
  calls. The counters of the telemetry reconcile: two counters differ by exactly the
  handlers that are between the two places where they are raised, and a step moves one
  handler. A token, whatever of it is changed, verifies under a key, build and expected
  nonce exactly if it carries the header, claims and signature that were minted for
  them; the unprotected header, trailing bytes and the sign of `s` are not covered. The
  strengthening says what every minted token claims, that no two have one key, and
  that the report behind a call is over its nonce; lemmas about `verify_eat` say what
  it accepts of a minted token and that whatever else it accepts is signed over the
  same bytes.
- `ZkTlsProxy_proofs`: types, captures used once, the chain of a proof's own server.
  The strengthening says that the captures in the sink have different numbers, none of
  them a proof's, and that no number is above that of the last handshake. That
  `rposition` finds a last index rests on the well-foundedness of `<` on the naturals.
- `PriceSubmission_proofs`: a shard is released to an approved call only; every
  broadcast transaction recovers to the wallet; an executed reveal opens executed
  commits. The shares always add up to the secret modulo the order, and a call that
  awaits KMS was granted. For the reveal the nonces order the broadcast transactions:
  of the round at hand the first k commits are signed and the rest is still to be
  signed in order, each reveal has its commits at lower nonces, and the chain has
  executed exactly the first nonces. `RevealDecodes` computes the two offsets of the
  calldata for arrays of every length.
- For `VolumeTrimmedMedian`, in the same module: for every list of observations, the
  exchanges that together hold at most a quarter of the volume cannot move the price
  out of the range of the others; and the price submitted is, to half a reported unit,
  a quoted one, or with no volume at all the middle of two. Ranks give a permutation
  that sorts the list; the cumulative sums go up along it, and what the trim keeps
  meets the middle half of the volume, which no quarter can fill.
- For `ProviderNode`, in the same module: types; every feed that was silent too long
  when the monitor last looked is reported; while the flag is up a feed was stale at
  that time. These are inductive together. The lemmas are about the newest ticker of a
  feed: it is that of some exchange, and time makes it older by one unit up to the cap,
  as if it were the only one.
- `RagEngine_proofs`: what `parse_and_prove` returns verifies under the process's key
  and binds the submitted document, prompt and evidence, in the order the hashes are
  returned; an accepted proof was made from the inputs it is accepted for. The
  strengthening of the pipeline says that what parsing has closed, and what extraction
  has left, are non-empty sentences of terms of this document, and that an edge needs
  two texts: equal texts have one node, and a node is not related to itself. That of
  the proofs says that the setup is made once and that every proof has three inputs,
  so that three copy constraints fix its witness.
- For `SymbolicIndexer`, in the same module: from text to graph nothing is lost, invented
  or misplaced, for every text over any byte classes. The tokens tile the text: each runs
  as far as its class does, and the next starts where it ends. So they lie in order, and a
  blank run is followed by something else, which is why two newlines never add up over two
  blank tokens. Parsing keeps `GroupedAs`: the closed sentences and the pending one hold
  the terms read so far, a separator follows the closed ones and none the pending one; the
  closed sections span what their terms span, with a break behind them. When all tokens are
  read, two terms share a sentence or a section exactly if nothing separates them.
  Extraction keeps `Rest` (what is left are the last sentences), `Listed` and `Recorded`:
  the nodes are, in order, the first occurrences among the terms reached, and the edges, in
  order, those of the pairs whose subjects are done. The first subject of a sentence reaches
  all of it, the later ones add edges only, and the inner loop is a run of `relate`, shown
  by induction to draw one pair after the other. `ListRank` turns the two lists into the
  ranks that the property speaks of. Of the byte classes it is assumed that the newline is a
  blank and neither a letter nor a digit, as in `tokenize`.
- For `SymbolicTrie`, in the same module: the trie implements `SymbolMap`, for every set
  of characters, keys and values, every clamp and every recursion limit. Between calls a
  path comes with its prefixes and, but for the root, leads to a stored key; without the
  latter the JSON reader could refuse a map with no deep key. Each loop has an invariant
  about its work stack. While matches are collected, what is listed comes before all that
  hangs on the stack, a higher entry before a lower one, and nothing is in neither.
  While the post-order list is built, the list and the stack share no node, a visited
  entry has its children listed or above it, and nothing below an unvisited one has been
  seen, so that no node is listed twice. While the copies are built, each is the whole
  subtree of its node until it is moved under its parent's. While the trie is dropped,
  every node left hangs on the stack by nodes that are left. `Ranks` and `RankInList`
  connect the order of iteration with the order of the map, which counts predecessors.

Functions that recurse over data are proved about by induction in the form of a set:
the naturals at which the claim fails, if there are any, have a least member
(`WellFoundedInduction`, or a minimum by `CHOOSE`), and the claim holds before it.

Left to TLC: liveness (`CallsReturn`, `ConnectorsRecover`, `RequestsAnswered`,
`GateStaysOpen`, `ClientSurvivesOutages`, `ConnectionsDecided`, `CallsAnswered`,
`ReleasesReturn`), which rests on fairness and `ENABLED`. Every other property of a
passing run is stated by a theorem.

## 6. Disagreements with comments

Two are runs with the result `violation`:

- `service_measurements`: the server's tokens claim 32 zero bytes as measurements,
  since the conversion at `grpc_server.rs:213` accepts a 32-byte report only and the
  devices return 1024 or 4000 bytes.
- `submission_reference`: the preimage of the commit hash has the price in 8 bytes
  (`submitter.rs:62`), where the comments describe the three-word layout of the
  reference provider. The library's own commits and reveals agree with each other
  (`RevealsOpenCommits`).

Four are stated as properties in the modules, and TLC refutes them:

- `ZkTlsProxy!ProofBindsSessionChain`: `proof_generator.rs:5-8` binds the chain of the
  session; a pooled or resumed connection captures none and the proof takes an older
  capture of the same server.
- `ProviderNode!BackoffRestartsAfterStream`: `node.rs:59` and `289-290` have a healthy
  stream reset the delay; the delay of the last attempt is kept.
- `EnclaveGateway!RenewedBeforeExpiry`: `attestation.py:996-998` has the cache renew
  before expiry; abandoned queries can hold all threads for as long as the margin.
  TLC needs a `Lifetime` of twelve for it.
- `FlareClient!NonceRaceClosed`: `connector.py:1174-1175` has the lock close the nonce
  race; after a receipt that came too late two transactions carry one nonce.

These were met as well and need no run to be seen:

- `VerifiableRAG.sol:135-137` has the history of `latestProofHash` in the
  `AttestationSubmitted` log; `verifyAndSettleRAG` moves it without that event.
- `VerifiableRAG.sol:852-857` has a re-verification under another token return
  without writes or events; it stores a commitment, settles and emits.
- `cert_verifier.rs:83-85` has `take_for` drop older entries of the server; it
  removes only the one it returns.
- `node.rs:452-455` has the read-back agree with the alert always; between two ticks
  of the monitor they may differ. `node.rs:182` calls the failure counter successful
  reconnects.
- `node.rs:479` has `live_exchanges` count the exchanges that currently contribute; it
  counts every exchange that ever sent a ticker.
- `attestation.py:1107` has `snapshot` never hand out a partial state; it looks at the
  expiry of the first token only, so that an Intel token with a shorter life is
  served after it has expired.
- `connector.py:557-558` has `_rpc` start from the endpoint that is active; it starts
  from the primary, as the comment at 569-571 says.
- `enclave_service.proto:52-54` and `eat_builder.rs:18` have the caller's nonce echoed
  in the token; the server claims its SHA-256 in hex (`grpc_server.rs:150`, `204`), so a
  verifier that expects the nonce itself refuses every token of the server
  (`TokensBindSessions` states both). `tdx_attest_tool` does claim the nonce itself.
- `main_grpc.rs:100-101` has rejected handshakes skipped, and they are; a handshake in
  which the peer says nothing is awaited without a timeout (line 120) and holds up
  every later client.
- `mpc_signer.rs:295-296` calls the raw transaction the exact payload to submit; `value`,
  `r` and `s` are appended as 32-byte strings (305, 309-310; `value` also at 134, under
  the signature), which is not the canonical integer of RLP where they begin with zero
  bytes, so that a node refuses a transaction of value zero. The modelled chain reads
  the bytes as numbers.
- `calculator.rs:20-22` calls the aggregate deterministic; with equal prices it
  depends on the iteration order of a hash map.
- `main.py:1331-1333` has all buffers zeroed after the response; after a 504 the
  worker still holds key or plaintext until it ends (`Scrubbed` is what does hold).

## 7. Not modelled

- Byte formats and cryptography (AES-GCM, ECDSA, halo2, JWT, CBOR, RLP, ioctl frames)
  are taken as what they yield; k256 signs with a low `s`, so the normalization after it
  has nothing to do, the ways in which a payload key cannot be loaded are one outcome, and an honest
  prover does not fail. Where a property is about a layout, the calldata and
  the preimage of a commit, the layout is modelled.
- `VerifiableRAG.sol`: the KMS signer registry, `executeKmsSignedAction` and the link
  to the relayer. `TransactionsAreTheWallets` covers the client's half of a signature.
- gRPC server: the task in `main_grpc.rs` that mirrors the provider node into gauges
  and the Prometheus sidecar only read; a feed stream never has a feed to send.
- `zkp.rs`: `content_digest` and `graph_output_to_field` serve no caller outside tests;
  the rest of its length is tests.
- `proof_generator.rs`: JSON selection, hashing and the loading of a key.
- Gateway: `/health`, `/attestation` and `/v1/attestation` only read; JWT parsing and the
  context window of the processor, which the gateway does not use, are data handling.
- Flare client: the lazily created sessions, ABI arguments and the FDC encoding.
- `client_cli` and `cli_attest` print what one call returns; `tdx_attest_tool` mints in
  `EnclaveService` (`tool_mint`).
- The frontend is presentation; infrastructure and build files have no run-time state.

Out of the provers' reach, and therefore with TLC: liveness (section 5).

## 8. State of the plan

Done: the contract and its ledger, the relayer, the proxy, the graph with its
queries, the provider node, the aggregation and the submission with its wallet, the
gateway, the gRPC server with its bucket and tokens, the RAG engine from text to
proof, the Flare client.

Left, in this order:

1. `executeKmsSignedAction` with the recovery id as `KmsWallet` produces it, and the
   registry of its signers, composed with `VerifiableRAG`.
2. The composition of proxy, generator, relayer and `updateZkTlsRelayer`, where the
   selector that is missing from the signed payload becomes visible.
3. The context window of the processor, and the client sessions of `FlareClient`.
