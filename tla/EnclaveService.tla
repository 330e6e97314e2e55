------------------------------ MODULE EnclaveService ------------------------------
(***************************************************************************)
(* The enclave's gRPC server: boot and TLS mode (main_grpc.rs,             *)
(* tls_config.rs), the mTLS accept loop, the rate-limiting interceptor,    *)
(* the handlers of EnclaveService (grpc_server.rs) and the counters they   *)
(* share (metrics.rs).  A client has at most one connection and one call   *)
(* in progress.  Handlers of different clients interleave wherever they    *)
(* touch shared state: the bucket, the state lock, each metric.            *)
(*                                                                         *)
(* External: the backlog is the kernel's; what a peer sends in its         *)
(* handshake, if anything, is the peer's; a listener whose stream ends     *)
(* makes hyper's server future return at once, while a shutdown signal     *)
(* makes it drain the connections first.                                   *)
(***************************************************************************)
EXTENDS TokenBucket, EatToken

CONSTANTS
  Clients,
  Trusted,       \* the clients with a certificate under ENCLAVE_CLIENT_CA
  MaxTime, MaxCalls, MaxConnects   \* bounds

ASSUME ServiceAssumption ==
  /\ IsFiniteSet(Clients) /\ Trusted \subseteq Clients
  /\ MaxTime \in Nat /\ MaxCalls \in Nat /\ MaxConnects \in Nat

VARIABLES
  mode,          \* "boot", "mtls", "plain", "refused", "drain", "down" after a
                 \* drain, or "failed" with the listener
  backlog,       \* clients waiting in the listener's queue
  handshaking,   \* the client the accept loop is awaiting, as a set
  said,          \* what that client has said: "nothing", "valid" or "bad"
  conn,          \* conn[c]: "none", "waiting", "open"
  rpc,           \* rpc[c]: the call in progress and how far it got
  image_digest,  \* ENCLAVE_IMAGE_DIGEST
  query_count,   \* EnclaveState
  queries_total, query_latency,    \* the metrics
  calls, connects,                 \* history: calls and connections made
  answered,      \* history: queries answered, by status
  issued         \* history: the attestation tokens minted

listener == <<backlog, handshaking, said, conn, connects>>
counters == <<query_count, queries_total, query_latency, answered>>
vars     == <<limiter, mode, listener, rpc, image_digest, counters, calls, issued>>

Idle == [op |-> "none", stage |-> "idle"]
InFlight == {c \in Clients : rpc[c] # Idle}

Init ==
  /\ BucketInit
  /\ mode = "boot"
  /\ backlog = <<>> /\ handshaking = {} /\ said = "nothing"
  /\ conn = [c \in Clients |-> "none"]
  /\ rpc = [c \in Clients |-> Idle]
  /\ image_digest \in Digests
  /\ query_count = 0 /\ queries_total = 0 /\ query_latency = 0
  /\ calls = 0 /\ connects = 0
  /\ answered = [s \in {"OK", "INVALID_ARGUMENT"} |-> 0]
  /\ issued = {}

----------------------------------------------------------------------------
(* Boot                                                                    *)

PemItems == {"certificate", "key", "other"}

\* load_server_config: what the three PEM files hold.
load_server_config(cert, key, ca) ==
  CASE "certificate" \notin cert -> "MissingCertChain"
    [] "key" \notin key          -> "MissingPrivateKey"
    [] "certificate" \notin ca   -> "MissingClientCa"
    [] OTHER                     -> "ok"

\* main: all three variables, or none of them.
boot ==
  /\ mode = "boot"
  /\ \/ mode' = "plain"
     \/ mode' = "refused"             \* one or two of the three are set
     \/ \E cert, key, ca \in SUBSET PemItems :
          mode' = IF load_server_config(cert, key, ca) = "ok" THEN "mtls" ELSE "refused"
  /\ UNCHANGED <<limiter, listener, rpc, image_digest, counters, calls, issued>>

----------------------------------------------------------------------------
(* Connections                                                             *)

connect(c) ==
  /\ mode \in {"mtls", "plain"} /\ conn[c] = "none"
  /\ connects < MaxConnects                      \* bound
  /\ connects' = connects + 1
  /\ conn' = [conn EXCEPT ![c] = "waiting"]
  /\ backlog' = Append(backlog, c)
  /\ UNCHANGED <<handshaking, said, limiter, mode, rpc, image_digest, counters, calls, issued>>

\* serve_plaintext: tonic accepts by itself.
acceptPlain ==
  /\ mode = "plain" /\ backlog # <<>>
  /\ conn' = [conn EXCEPT ![Head(backlog)] = "open"]
  /\ backlog' = Tail(backlog)
  /\ UNCHANGED <<handshaking, said, connects, limiter, mode, rpc, image_digest, counters,
                 calls, issued>>

\* serve_mtls: listener.accept(), then acceptor.accept(stream).await inline, so
\* the next client waits until this handshake ends.
accept ==
  /\ mode = "mtls" /\ handshaking = {} /\ backlog # <<>>
  /\ handshaking' = {Head(backlog)} /\ backlog' = Tail(backlog)
  /\ UNCHANGED <<said, conn, connects, limiter, mode, rpc, image_digest, counters, calls, issued>>

\* The peer completes the handshake with its certificate, or does not: no or an
\* untrusted one, nonsense, a closed connection.  Nothing makes it do either.
peerSpeaks(c) ==
  /\ c \in handshaking /\ said = "nothing"
  /\ said' \in (IF c \in Trusted THEN {"valid", "bad"} ELSE {"bad"})
  /\ UNCHANGED <<backlog, handshaking, conn, connects, limiter, mode, rpc, image_digest,
                 counters, calls, issued>>

handshakeOk(c) ==
  /\ mode = "mtls" /\ c \in handshaking /\ said = "valid"
  /\ conn' = [conn EXCEPT ![c] = "open"] /\ handshaking' = {} /\ said' = "nothing"
  /\ UNCHANGED <<backlog, connects, limiter, mode, rpc, image_digest, counters, calls, issued>>

\* The loop returns None here too: the stream of connections ends, and the
\* server with it, though its listener has not failed.
handshakeRejected_Ends(c) ==
  /\ mode = "mtls" /\ c \in handshaking /\ said = "bad"
  /\ mode' = "down"
  /\ conn' = [conn EXCEPT ![c] = "none"] /\ handshaking' = {} /\ said' = "nothing"
  /\ UNCHANGED <<backlog, connects, limiter, rpc, image_digest, counters, calls, issued>>

\* continue: the connection is dropped, the loop accepts the next one.
handshakeRejected(c) ==
  /\ mode = "mtls" /\ c \in handshaking /\ said = "bad"
  /\ conn' = [conn EXCEPT ![c] = "none"] /\ handshaking' = {} /\ said' = "nothing"
  /\ UNCHANGED <<backlog, connects, limiter, mode, rpc, image_digest, counters, calls, issued>>

\* accept() fails: the stream of connections ends and the server with it.
acceptFails ==
  /\ mode = "mtls" /\ handshaking = {}
  /\ mode' = "failed"
  /\ UNCHANGED <<limiter, listener, rpc, image_digest, counters, calls, issued>>

\* SIGINT or SIGTERM: the accept loop is dropped with the handshake it awaits.
shutdown_signal ==
  /\ mode \in {"mtls", "plain"}
  /\ mode' = "drain" /\ handshaking' = {} /\ said' = "nothing"
  /\ UNCHANGED <<backlog, conn, connects, limiter, rpc, image_digest, counters, calls, issued>>

\* The last call in progress has been answered: main returns.
drained ==
  /\ mode = "drain" /\ InFlight = {}
  /\ mode' = "down"
  /\ UNCHANGED <<limiter, listener, rpc, image_digest, counters, calls, issued>>

----------------------------------------------------------------------------
(* Calls                                                                   *)

Requests ==
  [op : {"query"}, prompt : {"blank", "text"}]
  \cup [op : {"attest"}, nonce : Nonces]
  \cup {[op |-> "stream"], [op |-> "health"]}

At(c, stage) == mode \notin {"down", "failed"} /\ rpc[c].stage = stage

goto(c, stage) == rpc' = [rpc EXCEPT ![c].stage = stage]
reply(c)       == rpc' = [rpc EXCEPT ![c] = Idle]

call(c, req) ==
  /\ mode \in {"mtls", "plain"} /\ conn[c] = "open" /\ rpc[c] = Idle
  /\ calls < MaxCalls                            \* bound
  /\ calls' = calls + 1
  /\ rpc' = [rpc EXCEPT ![c] = [op |-> req.op, stage |-> "ingress", req |-> req]]
  /\ UNCHANGED <<limiter, mode, listener, image_digest, counters, issued>>

\* A query with a blank prompt goes straight to the metrics.
firstStage(req) ==
  CASE req.op # "query"                            -> "handler"
    [] req.op = "query" /\ req.prompt = "blank"    -> "count"
    [] OTHER                                       -> "lock"

rate_limit_interceptor_Waits(c) ==
  /\ At(c, "ingress") /\ rpc[c].op # "health"
  /\ try_acquire(TRUE)
  /\ goto(c, firstStage(rpc[c].req))
  /\ UNCHANGED <<mode, listener, image_digest, counters, calls, issued>>

\* rate_limit_interceptor, in front of the enclave service only.
rate_limit_interceptor(c) ==
  /\ At(c, "ingress") /\ rpc[c].op # "health"
  /\ \E ok \in BOOLEAN :
       /\ try_acquire(ok)
       /\ IF ok THEN goto(c, firstStage(rpc[c].req)) ELSE reply(c)  \* RESOURCE_EXHAUSTED
  /\ UNCHANGED <<mode, listener, image_digest, counters, calls, issued>>

\* The health service, unlimited, so that a probe is always answered.
health(c) ==
  /\ At(c, "ingress") /\ rpc[c].op = "health"
  /\ reply(c)
  /\ UNCHANGED <<limiter, mode, listener, image_digest, counters, calls, issued>>

\* execute_query.  The write lock is held for one saturating increment.
queryLock(c) ==
  /\ At(c, "lock")
  /\ query_count' = query_count + 1
  /\ goto(c, "count")
  /\ UNCHANGED <<limiter, mode, listener, image_digest, queries_total, query_latency,
                 answered, calls, issued>>

queryCount_Answered(c) ==
  /\ At(c, "count")
  /\ queries_total' = IF rpc[c].req.prompt = "blank" THEN queries_total ELSE queries_total + 1
  /\ goto(c, "observe")
  /\ UNCHANGED <<limiter, mode, listener, image_digest, query_count, query_latency,
                 answered, calls, issued>>

queryCount(c) ==
  /\ At(c, "count")
  /\ queries_total' = queries_total + 1
  /\ goto(c, "observe")
  /\ UNCHANGED <<limiter, mode, listener, image_digest, query_count, query_latency,
                 answered, calls, issued>>

queryAnswer(c) ==
  /\ At(c, "observe")
  /\ query_latency' = query_latency + 1
  /\ LET status == IF rpc[c].req.prompt = "blank" THEN "INVALID_ARGUMENT" ELSE "OK"
     IN  answered' = [answered EXCEPT ![status] = @ + 1]
  /\ reply(c)
  /\ UNCHANGED <<limiter, mode, listener, image_digest, query_count, queries_total,
                 calls, issued>>

\* get_attestation_token up to the report: a blank nonce is INVALID_ARGUMENT, no
\* report is UNAVAILABLE.
attestReport(c) ==
  /\ At(c, "handler") /\ rpc[c].op = "attest"
  /\ \/ rpc[c].req.nonce = Blank /\ reply(c)
     \/ /\ rpc[c].req.nonce # Blank
        /\ \E hw \in hardware(nonce_to_reportdata(rpc[c].req.nonce)) :
                 IF hw.ok THEN rpc' = [rpc EXCEPT ![c] = [op |-> "attest", stage |-> "mint",
                                                          req |-> @.req, report |-> hw]]
                          ELSE reply(c)
  /\ UNCHANGED <<limiter, mode, listener, image_digest, counters, calls, issued>>

\* A report's bytes, whole, and the first 32 of them.
whole(r)  == <<"whole", r>>
prefix(r) == <<"prefix", r>>

\* try_into::<[u8; 32]>() of the whole report, or else zeros.
measurement(r) == IF ReportLength[r.device] = 32 THEN whole(r) ELSE Zeros

\* The claims, under an ephemeral key; an empty digest is FAILED_PRECONDITION.
attestMint(c) ==
  /\ At(c, "mint")
  /\ LET nonce  == rpc[c].req.nonce
         key    == Cardinality(issued)
         claims == EatClaims(hex(sha256(nonce)), DEFAULT_SWNAME, image_digest,
                             rpc[c].report.device, key, now, measurement(rpc[c].report))
     IN  issued' = issued \cup
           {[token |-> t, key |-> key, minter |-> "server", nonce |-> nonce,
             digest |-> image_digest, report |-> rpc[c].report] : t \in build_eat(claims, key)}
  /\ reply(c)
  /\ UNCHANGED <<limiter, mode, listener, image_digest, counters, calls>>

\* tdx_attest_tool, a command of its own on the same host: it asks the TDX device
\* alone, claims the nonce itself and the first bytes of the report.
tool_mint(nonce, digest) ==
  /\ mode = "boot"                               \* bound: before the server runs
  /\ calls < MaxCalls                            \* bound
  /\ calls' = calls + 1
  /\ nonce # Blank
  /\ \E found \in Found :
       LET hw     == get_tdreport(found, nonce_to_reportdata(nonce))
           key    == Cardinality(issued)
           claims == EatClaims(nonce, DEFAULT_SWNAME, digest, "intel-tdx", key, now,
                               prefix(hw))
       IN  issued' = issued \cup
             {[token |-> t, key |-> key, minter |-> "tool", nonce |-> nonce,
               digest |-> digest, report |-> hw] :
                t \in IF hw.ok THEN build_eat(claims, key) ELSE {}}
  /\ UNCHANGED <<limiter, mode, listener, rpc, image_digest, counters>>

\* stream_ftso_feeds: nothing populates the feeds, so the stream ends at once.
stream_ftso_feeds(c) ==
  /\ At(c, "handler") /\ rpc[c].op = "stream"
  /\ reply(c)
  /\ UNCHANGED <<limiter, mode, listener, image_digest, counters, calls, issued>>

----------------------------------------------------------------------------
time ==
  /\ now < MaxTime                               \* bound
  /\ tick
  /\ UNCHANGED <<mode, listener, rpc, image_digest, counters, calls, issued>>

watch ==
  /\ observe
  /\ UNCHANGED <<mode, listener, rpc, image_digest, counters, calls, issued>>

AcceptLoop ==
  \/ acceptPlain \/ accept
  \/ \E c \in Clients : handshakeOk(c) \/ handshakeRejected(c)

Handler(c) ==
  \/ rate_limit_interceptor(c) \/ health(c)
  \/ queryLock(c) \/ queryCount(c) \/ queryAnswer(c)
  \/ attestReport(c) \/ attestMint(c) \/ stream_ftso_feeds(c)

Environment ==
  \/ boot \/ acceptFails \/ shutdown_signal \/ time \/ watch
  \/ \E nonce \in Nonces, digest \in Digests : tool_mint(nonce, digest)
  \/ \E c \in Clients : connect(c) \/ peerSpeaks(c) \/ \E req \in Requests : call(c, req)

Next ==
  \/ AcceptLoop \/ drained \/ Environment
  \/ \E c \in Clients : Handler(c)

Spec == Init /\ [][Next]_vars

\* Tokio polls every ready task, so a handler keeps moving, and the accept loop
\* does when a connection is there or the awaited peer has spoken.  That a peer
\* speaks is nobody's promise: the code sets no timeout on a handshake.
FairSpec ==
  /\ Spec
  /\ WF_vars(AcceptLoop)
  /\ \A c \in Clients : WF_vars(Handler(c))

----------------------------------------------------------------------------
(* Properties                                                              *)

\* The calls in progress at a stage.
In(stages) == Cardinality({c \in Clients : rpc[c].stage \in stages})
Asked(c, p) == rpc[c].op = "query" /\ rpc[c].req.prompt = p

\* The counters reconcile with the answers although handlers interleave between
\* them: query_count and enclave_query_total differ by the refused prompts and
\* the handlers between the two, and every counted call is observed once.
CountersReconcile ==
  /\ query_count = answered["OK"]
       + Cardinality({c \in Clients : Asked(c, "text") /\ rpc[c].stage \in {"count", "observe"}})
  /\ queries_total = answered["OK"] + answered["INVALID_ARGUMENT"] + In({"observe"})
  /\ query_latency = answered["OK"] + answered["INVALID_ARGUMENT"]

\* What a token claims of a session's nonce: the server its digest in hex, the
\* tool the nonce itself.
claimed(minter, nonce) == IF minter = "server" THEN hex(sha256(nonce)) ELSE nonce

\* The tokens that a party may be shown: the minted ones, altered in any way;
\* and its verdict, if it expects a build digest and one of the nonces.
minted    == {i.token : i \in issued}
presented == minted \cup UNION {corrupted(u, minted) : u \in minted}
expected  == {claimed(m, n) : m \in {"server", "tool"}, n \in Nonces \ {Blank}}
Verified(t, key, d, e) == verify_eat(t, key, DEFAULT_SWNAME, {d}, {e}) = "ok"

\* Session binding of the attestation tokens (verifier.rs: swname, image digest
\* and nonce policies over the signature): whatever happened to a token, it
\* verifies under a key, a build digest and an expected nonce exactly when what
\* it carries was signed under that key for that digest and session, and then a
\* device reported the session's nonce.  A relying party that expects the nonce
\* it sent to the server, and not its digest in hex, is always refused.
TokensBindSessions ==
  /\ \A t \in presented, i \in issued, d \in Digests, e \in expected :
       Verified(t, i.key, d, e)
         <=> carries(t, i.token) /\ d = i.digest /\ e = claimed(i.minter, i.nonce)
  /\ \A i \in issued : i.report.reportdata = nonce_to_reportdata(i.nonce)

\* The measurements of a token are those of the report it stands for, in whole
\* or in part (eat_builder.rs:24, "the CLAIMS come from the caller (hardware
\* report / build config)"; EatClaims: "TEE measurement registers").
EatCarriesReport ==
  \A i \in issued :
    payload(i.token).submods.rtmrs \in {<<whole(i.report)>>, <<prefix(i.report)>>}

\* A rejected client costs the ones behind it nothing ("Rejected handshakes are
\* logged and skipped"): unless a peer stays silent in its handshake for ever,
\* which stalls the loop, whoever connects is let in or dropped, until a signal
\* arrives or the listener itself fails.
ConnectionsDecided ==
  []<>~(handshaking # {} /\ said = "nothing") =>
    \A c \in Clients :
      conn[c] = "waiting" /\ mode \in {"mtls", "plain"}
        ~> conn[c] # "waiting" \/ mode \in {"drain", "failed"}

\* Every call is answered, a shutdown signal in between included ("waiting for
\* pending tasks to flush"); only a listener that failed cuts calls off.
CallsAnswered ==
  \A c \in Clients : rpc[c] # Idle ~> (rpc[c] = Idle \/ mode = "failed")
=============================================================================
