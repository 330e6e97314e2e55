------------------------------- MODULE ZkTlsProxy -------------------------------
(***************************************************************************)
(* The enclave's zkTLS proxy: the bounded ChainSink the TLS verifier       *)
(* pushes validated certificate chains into, the hyper client with its     *)
(* connection pool, and the tasks that each run                            *)
(*      get(url); extract_ca_certificate_chain(server); generate_proof     *)
(* concurrently.  The handshake (which pushes), the end of the response    *)
(* and the extraction (which pops) are separate steps: nothing ties a      *)
(* request to the sink entry of its own connection.                        *)
(***************************************************************************)
EXTENDS Integers, Sequences, FiniteSets, SequencesExt

CONSTANTS
  Tasks,          \* concurrent users of the one proxy instance
  Servers,
  Chains,         \* certificate chains a server may present (it rotates them)
  SinkMax,        \* ChainSink::new(64)
  MaxHandshakes   \* bound: handshakes in a behaviour

ASSUME ConstantsAssumption ==
  /\ SinkMax \in Nat \ {0} /\ MaxHandshakes \in Nat
  /\ IsFiniteSet(Tasks) /\ IsFiniteSet(Servers)

VARIABLES
  presented,      \* the chain each server presents now (external)
  sink,           \* ChainSink.inner, oldest first
  idle,           \* hyper's idle keep-alive connections (external)
  tickets,        \* rustls' stored TLS 1.3 sessions (external)
  task,           \* per task: where it is, and the connection it uses
  handshakes,     \* number of validated handshakes so far
  proofs          \* the proofs generated so far

pool == <<idle, tickets>>
vars == <<presented, sink, pool, task, handshakes, proofs>>

(* A captured chain, and every connection of the session, are known by the *)
(* full handshake that made them.                                          *)
Handshake(s) == [id |-> handshakes + 1, server |-> s, chain |-> presented[s]]
Captures     == [id : 1 .. MaxHandshakes, server : Servers, chain : Chains]

Idle          == [at |-> "idle"]
Requesting(c) == [at |-> "requesting", conn |-> c]   \* request sent, body pending
Received(c)   == [at |-> "received", conn |-> c]     \* get() returned Ok
TaskStates    == [at : {"idle"}] \cup [at : {"requesting", "received"}, conn : Captures]

Init ==
  /\ presented \in [Servers -> Chains]
  /\ sink = <<>> /\ idle = {} /\ tickets = {}
  /\ task = [t \in Tasks |-> Idle]
  /\ handshakes = 0 /\ proofs = {}

(***************************************************************************)
(* ChainSink                                                               *)
(***************************************************************************)

(* push: at the limit the oldest entry makes room. *)
push(q, c) == Append(IF Len(q) >= SinkMax THEN Tail(q) ELSE q, c)

(* rposition: the index of the newest entry of s, 0 when there is none. *)
rposition_AnyServer(q, s) == Len(q)

rposition(q, s) ==
  LET matches == {i \in DOMAIN q : q[i].server = s}
  IN  IF matches = {} THEN 0 ELSE CHOOSE i \in matches : \A j \in matches : j <= i

take_for_Peeks(s) ==
  LET i == rposition(sink, s) IN
    /\ i # 0
    /\ UNCHANGED sink

(* take_for: that one entry is removed; the others of s stay. *)
take_for(s) ==
  LET i == rposition(sink, s) IN
    /\ i # 0
    /\ sink' = RemoveAt(sink, i)

(***************************************************************************)
(* get: a request runs on a new connection, whose full handshake validates *)
(* and captures the chain (CapturingVerifier::verify_server_cert); on a    *)
(* new connection that resumes an earlier session, for which no            *)
(* certificate is sent or verified; or on an idle pooled connection.  The  *)
(* last two capture nothing.                                               *)
(***************************************************************************)
getConnect(t, s) ==
  /\ task[t] = Idle
  /\ ~\E c \in idle : c.server = s
  /\ handshakes < MaxHandshakes
  /\ handshakes' = handshakes + 1
  /\ sink' = push(sink, Handshake(s))
  /\ task' = [task EXCEPT ![t] = Requesting(Handshake(s))]
  /\ UNCHANGED <<presented, pool, proofs>>

getResumes(t, c) ==
  /\ task[t] = Idle
  /\ ~\E i \in idle : i.server = c.server
  /\ tickets' = tickets \ {c}
  /\ task' = [task EXCEPT ![t] = Requesting(c)]
  /\ UNCHANGED <<presented, sink, idle, handshakes, proofs>>

getPooled(t, c) ==
  /\ task[t] = Idle
  /\ idle' = idle \ {c}
  /\ task' = [task EXCEPT ![t] = Requesting(c)]
  /\ UNCHANGED <<presented, sink, tickets, handshakes, proofs>>

(* The response arrives, perhaps after a session ticket; the connection is *)
(* kept alive or closed.                                                   *)
getReturns(t, keepAlive, ticket) ==
  /\ task[t].at = "requesting"
  /\ task' = [task EXCEPT ![t] = Received(task[t].conn)]
  /\ idle' = IF keepAlive THEN idle \cup {task[t].conn} ELSE idle
  /\ tickets' = IF ticket THEN tickets \cup {task[t].conn} ELSE tickets
  /\ UNCHANGED <<presented, sink, handshakes, proofs>>

(* The request or the body fails after the handshake: ProxyError::Http.    *)
(* (A handshake that fails validation captures nothing and changes nothing.) *)
getFails(t) ==
  /\ task[t].at = "requesting"
  /\ task' = [task EXCEPT ![t] = Idle]
  /\ UNCHANGED <<presented, sink, pool, handshakes, proofs>>

(***************************************************************************)
(* extract_ca_certificate_chain, and generate_proof on what it returned.   *)
(***************************************************************************)
proveWithChain(t) ==
  LET conn == task[t].conn
      i    == rposition(sink, conn.server)
  IN  /\ task[t].at = "received"
      /\ take_for(conn.server)
      /\ proofs' = proofs \cup {[server |-> conn.server, session |-> conn, capture |-> sink[i]]}
      /\ task' = [task EXCEPT ![t] = Idle]
      /\ UNCHANGED <<presented, pool, handshakes>>

(* None: there is no chain to bind, so no proof. *)
proveWithoutChain(t) ==
  /\ task[t].at = "received"
  /\ rposition(sink, task[t].conn.server) = 0
  /\ task' = [task EXCEPT ![t] = Idle]
  /\ UNCHANGED <<presented, sink, pool, handshakes, proofs>>

(***************************************************************************)
(* The outside: pool_idle_timeout, and servers that rotate certificates.   *)
(***************************************************************************)
PoolExpires(c) ==
  /\ idle' = idle \ {c}
  /\ UNCHANGED <<presented, sink, tickets, task, handshakes, proofs>>

ServerRotates(s, chain) ==
  /\ presented' = [presented EXCEPT ![s] = chain]
  /\ UNCHANGED <<sink, pool, task, handshakes, proofs>>

Next ==
  \/ \E t \in Tasks : \/ \E s \in Servers : getConnect(t, s)
                      \/ \E c \in idle : getPooled(t, c)
                      \/ \E c \in tickets : getResumes(t, c)
                      \/ \E k, r \in BOOLEAN : getReturns(t, k, r)
                      \/ getFails(t)
                      \/ proveWithChain(t)
                      \/ proveWithoutChain(t)
  \/ \E c \in idle : PoolExpires(c)
  \/ \E s \in Servers, chain \in Chains : ServerRotates(s, chain)

Spec == Init /\ [][Next]_vars

--------------------------------------------------------------------------------
(* The sink never exceeds its limit, whatever the tasks do; the other      *)
(* variables have their types.                                             *)
TypeOK ==
  /\ presented \in [Servers -> Chains]
  /\ sink \in Seq(Captures) /\ Len(sink) <= SinkMax
  /\ idle \subseteq Captures /\ tickets \subseteq Captures
  /\ task \in [Tasks -> TaskStates]
  /\ handshakes \in 0 .. MaxHandshakes
  /\ proofs \subseteq [server : Servers, session : Captures, capture : Captures]

(* A captured chain is bound into at most one proof: take_for removes what *)
(* it returns, so no handshake is attested twice, by the same task or by   *)
(* two, and no attested chain is still waiting in the sink.                *)
CapturesUsedOnce ==
  /\ \A p1, p2 \in proofs : p1.capture.id = p2.capture.id => p1 = p2
  /\ \A p \in proofs, i \in DOMAIN sink : sink[i].id # p.capture.id

(* Concurrent requests to different servers never exchange chains: a proof *)
(* names a chain that was validated for its own server.                    *)
ProofChainOfServer ==
  \A p \in proofs : p.capture.server = p.server

(* proof_generator.rs:5-8: the proof attests that the enclave opened a     *)
(* session to the url, that the server presented the chain, and that the   *)
(* response came over it: the bound chain is the one of the session.       *)
ProofBindsSessionChain ==
  \A p \in proofs : p.capture.chain = p.session.chain
=============================================================================
