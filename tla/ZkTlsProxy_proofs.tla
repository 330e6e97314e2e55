--------------------------- MODULE ZkTlsProxy_proofs ---------------------------
(***************************************************************************)
(* What a proof of the zkTLS proxy binds, for any number of tasks, servers *)
(* and chains and any limit of the sink.                                   *)
(***************************************************************************)
EXTENDS ZkTlsProxy, SequenceTheorems, WellFoundedInduction, TLAPS

\* A set of naturals has a least element, and a bounded one a greatest.
LEMMA Least ==
  ASSUME NEW T, T \subseteq Nat, T # {}
  PROVE  \E x \in T : \A y \in T : x <= y
<1> DEFINE R == {p \in Nat \X Nat : p[1] < p[2]}
<1>1. R = OpToRel(<, Nat)
  BY Zenon DEF OpToRel
<1>2. IsWellFoundedOn(R, Nat)
  BY <1>1, NatLessThanWellFounded, Zenon
<1>3. \A x, y \in T : <<y, x>> \notin R => x <= y
  OBVIOUS
<1> HIDE DEF R
<1>4. \E x \in T : \A y \in T : <<y, x>> \notin R
  BY <1>2, WFMin, Zenon
<1> QED BY <1>3, <1>4, Zenon

\* A set of indices has a greatest member.
LEMMA Greatest ==
  ASSUME NEW n \in Nat, NEW T, T \subseteq 1 .. n, T # {}
  PROVE  \E x \in T : \A y \in T : y <= x
<1> DEFINE U == {n - x : x \in T}
<1>1. U \subseteq Nat /\ U # {}
  <2>1. \A x \in T : n - x \in Nat
    OBVIOUS
  <2>2. PICK x \in T : TRUE
    OBVIOUS
  <2>3. n - x \in U
    BY <2>2
  <2> QED BY <2>1, <2>3
<1>2. PICK u \in U : \A v \in U : u <= v
  <2> HIDE DEF U
  <2> QED BY <1>1, Least, Zenon
<1>3. PICK x \in T : u = n - x
  OBVIOUS
<1>4. \A y \in T : n - y \in U
  OBVIOUS
<1>5. \A y \in T : n - x <= n - y
  BY <1>2, <1>3, <1>4, Zenon
<1>6. \A y \in T : y <= x
  BY <1>5
<1> QED BY <1>6

----------------------------------------------------------------------------
(* The operations of the sink                                              *)

\* rposition finds an entry of the server, if there is one.
LEMMA Found ==
  ASSUME NEW q \in Seq(Captures), NEW s, rposition(q, s) # 0
  PROVE  rposition(q, s) \in 1 .. Len(q) /\ q[rposition(q, s)].server = s
<1> DEFINE matches == {i \in DOMAIN q : q[i].server = s}
<1>1. matches # {}
  BY DEF rposition
<1>2. matches \subseteq 1 .. Len(q) /\ Len(q) \in Nat
  OBVIOUS
<1>3. \E i \in matches : \A j \in matches : j <= i
  <2> HIDE DEF matches
  <2> QED BY <1>1, <1>2, Greatest
<1>4. rposition(q, s) = CHOOSE i \in matches : \A j \in matches : j <= i
  BY <1>1 DEF rposition
<1>5. rposition(q, s) \in matches
  <2> HIDE DEF matches
  <2> QED BY <1>3, <1>4
<1> QED BY <1>2, <1>5

\* RemoveAt closes the gap.
LEMMA Removed ==
  ASSUME NEW S, NEW q \in Seq(S), NEW i \in 1 .. Len(q)
  PROVE  /\ RemoveAt(q, i) \in Seq(S)
         /\ Len(RemoveAt(q, i)) = Len(q) - 1
         /\ \A j \in 1 .. Len(q) - 1 :
              RemoveAt(q, i)[j] = q[IF j < i THEN j ELSE j + 1]
<1> DEFINE a == SubSeq(q, 1, i - 1)
           b == SubSeq(q, i + 1, Len(q))
<1>1. /\ a \in Seq(S) /\ Len(a) = i - 1
      /\ \A j \in 1 .. i - 1 : a[j] = q[j]
  BY SubSeqProperties
<1>2. /\ b \in Seq(S) /\ Len(b) = Len(q) - i
      /\ \A j \in 1 .. Len(q) - i : b[j] = q[i + j]
  <2>1. \A j \in i + 1 .. Len(q) : q[j] \in S
    OBVIOUS
  <2>2. /\ b \in Seq(S)
        /\ Len(b) = IF i + 1 <= Len(q) THEN Len(q) - (i + 1) + 1 ELSE 0
        /\ \A j \in 1 .. Len(q) - (i + 1) + 1 : b[j] = q[(i + 1) + j - 1]
    BY <2>1, SubSeqProperties
  <2> QED BY <2>2
<1>3. RemoveAt(q, i) = a \o b
  BY DEF RemoveAt
<1> HIDE DEF a, b
<1>4. /\ a \o b \in Seq(S) /\ Len(a \o b) = Len(a) + Len(b)
      /\ \A j \in 1 .. Len(a) + Len(b) :
           (a \o b)[j] = IF j <= Len(a) THEN a[j] ELSE b[j - Len(a)]
  BY <1>1, <1>2, ConcatProperties
<1>5. \A j \in 1 .. Len(q) - 1 : (a \o b)[j] = q[IF j < i THEN j ELSE j + 1]
  BY <1>1, <1>2, <1>4
<1> QED BY <1>1, <1>2, <1>3, <1>4, <1>5

\* push keeps the limit; what it keeps keeps its order.
LEMMA Pushed ==
  ASSUME NEW q \in Seq(Captures), Len(q) <= SinkMax, NEW c \in Captures
  PROVE  \E n \in Nat :
           /\ push(q, c) \in Seq(Captures) /\ Len(push(q, c)) = n + 1 /\ n < SinkMax
           /\ push(q, c)[n + 1] = c
           /\ \E d \in {0, 1} : /\ n + d <= Len(q)
                                /\ \A j \in 1 .. n : push(q, c)[j] = q[j + d]
<1> USE ConstantsAssumption
<1>1. CASE Len(q) >= SinkMax
  <2>1. q # <<>> /\ push(q, c) = Append(Tail(q), c)
    BY <1>1 DEF push
  <2>2. /\ Tail(q) \in Seq(Captures) /\ Len(Tail(q)) = Len(q) - 1
        /\ \A j \in 1 .. Len(Tail(q)) : Tail(q)[j] = q[j + 1]
    BY <2>1, HeadTailProperties
  <2>3. /\ Append(Tail(q), c) \in Seq(Captures) /\ Len(Append(Tail(q), c)) = Len(Tail(q)) + 1
        /\ \A j \in 1 .. Len(Tail(q)) : Append(Tail(q), c)[j] = Tail(q)[j]
        /\ Append(Tail(q), c)[Len(Tail(q)) + 1] = c
    BY <2>2, AppendProperties
  <2> DEFINE n == Len(q) - 1
  <2>4. n \in Nat /\ n < SinkMax /\ n + 1 <= Len(q)
    BY <1>1, <2>1
  <2>5. /\ push(q, c) \in Seq(Captures) /\ Len(push(q, c)) = n + 1
        /\ push(q, c)[n + 1] = c /\ \A j \in 1 .. n : push(q, c)[j] = q[j + 1]
    BY <2>1, <2>2, <2>3
  <2> HIDE DEF n
  <2> QED BY <2>4, <2>5
<1>2. CASE ~(Len(q) >= SinkMax)
  <2>1. push(q, c) = Append(q, c)
    BY <1>2 DEF push
  <2>2. /\ Append(q, c) \in Seq(Captures) /\ Len(Append(q, c)) = Len(q) + 1
        /\ \A j \in 1 .. Len(q) : Append(q, c)[j] = q[j]
        /\ Append(q, c)[Len(q) + 1] = c
    BY AppendProperties
  <2> QED BY <1>2, <2>1, <2>2
<1> QED BY <1>1, <1>2

----------------------------------------------------------------------------
(* Captures are numbered by their handshakes, each in one place at most.    *)
Numbered ==
  /\ \A i \in DOMAIN sink : sink[i].id <= handshakes
  /\ \A i, j \in DOMAIN sink : sink[i].id = sink[j].id => i = j
  /\ \A p \in proofs : p.capture.id <= handshakes

IInv == TypeOK /\ Numbered /\ CapturesUsedOnce /\ ProofChainOfServer

\* An empty sink and idle tasks.
LEMMA InitIInv == Init => IInv
<1> SUFFICES ASSUME Init PROVE IInv
  OBVIOUS
<1>1. TypeOK
  BY ConstantsAssumption, EmptySeq DEF Init, TypeOK, Idle, TaskStates
<1> QED BY <1>1 DEF Init, IInv, Numbered, CapturesUsedOnce, ProofChainOfServer

\* The connection of a task that is not idle.
LEMMA Connected ==
  ASSUME TypeOK, NEW t \in Tasks, task[t].at \in {"requesting", "received"}
  PROVE  task[t].conn \in Captures
BY DEF TypeOK, TaskStates

\* A task goes to one of its states.
LEMMA NewTask ==
  ASSUME TypeOK, NEW t \in Tasks, NEW u \in TaskStates, task' = [task EXCEPT ![t] = u]
  PROVE  task' \in [Tasks -> TaskStates]
BY DEF TypeOK

\* The states the actions name are states of a task.
LEMMA States ==
  /\ Idle \in TaskStates
  /\ \A c \in Captures : Requesting(c) \in TaskStates /\ Received(c) \in TaskStates
BY DEF Idle, Requesting, Received, TaskStates

\* Steps that leave the sink, the proofs and the count alone.
LEMMA Quiet ==
  ASSUME IInv, UNCHANGED <<sink, handshakes, proofs>>, TypeOK'
  PROVE  IInv'
BY DEF IInv, Numbered, CapturesUsedOnce, ProofChainOfServer

\* A handshake has a new number, and its capture is the last in the sink.
LEMMA ConnectStep ==
  ASSUME IInv, NEW t \in Tasks, NEW s \in Servers, getConnect(t, s)
  PROVE  IInv'
<1> DEFINE c == Handshake(s)
<1>1. /\ c \in Captures /\ c.id = handshakes + 1
      /\ handshakes' = handshakes + 1 /\ handshakes' \in 0 .. MaxHandshakes
      /\ handshakes \in Nat
  BY ConstantsAssumption DEF IInv, TypeOK, getConnect, Handshake, Captures
<1>2. /\ sink' = push(sink, c) /\ task' = [task EXCEPT ![t] = Requesting(c)]
      /\ UNCHANGED <<presented, pool, proofs>>
  BY DEF getConnect
<1>3. sink \in Seq(Captures) /\ Len(sink) <= SinkMax
  BY DEF IInv, TypeOK
<1> HIDE DEF c
<1>4. PICK n \in Nat :
        /\ sink' \in Seq(Captures) /\ Len(sink') = n + 1 /\ n < SinkMax
        /\ sink'[n + 1] = c
        /\ \E d \in {0, 1} : n + d <= Len(sink) /\ \A j \in 1 .. n : sink'[j] = sink[j + d]
  BY <1>1, <1>2, <1>3, Pushed
<1>5. PICK d \in {0, 1} : n + d <= Len(sink) /\ \A j \in 1 .. n : sink'[j] = sink[j + d]
  BY <1>4
<1>6. \A j \in DOMAIN sink' : j = n + 1 \/ (j \in 1 .. n /\ j + d \in DOMAIN sink)
  BY <1>3, <1>4, <1>5
<1>7. TypeOK'
  <2>1. task' \in [Tasks -> TaskStates]
    BY <1>1, <1>2, NewTask, States DEF IInv
  <2>2. Len(sink') <= SinkMax
    BY <1>4, ConstantsAssumption
  <2> QED BY <1>1, <1>2, <1>4, <2>1, <2>2 DEF IInv, TypeOK, pool
<1>8. Numbered'
  <2>1. \A i \in DOMAIN sink : sink[i].id \in Nat /\ sink[i].id <= handshakes
    <3>1. \A i \in DOMAIN sink : sink[i] \in Captures
      BY <1>3
    <3>2. \A e \in Captures : e.id \in Nat
      BY ConstantsAssumption DEF Captures
    <3> QED BY <3>1, <3>2 DEF IInv, Numbered
  <2>2. \A i \in DOMAIN sink' : sink'[i].id <= handshakes'
    BY <1>1, <1>4, <1>5, <1>6, <2>1, SMTT(30)
  <2>3. \A i, j \in DOMAIN sink' : sink'[i].id = sink'[j].id => i = j
    <3> SUFFICES ASSUME NEW i \in DOMAIN sink', NEW j \in DOMAIN sink',
                        sink'[i].id = sink'[j].id
                 PROVE  i = j
      OBVIOUS
    <3>1. CASE i = n + 1 \/ j = n + 1
      BY <1>1, <1>4, <1>5, <1>6, <2>1, <3>1
    <3>2. CASE i # n + 1 /\ j # n + 1
      <4>1. i + d = j + d
        BY <1>5, <1>6, <3>2 DEF IInv, Numbered
      <4> QED BY <1>6, <3>2, <4>1
    <3> QED BY <3>1, <3>2
  <2>4. \A p \in proofs : p.capture.id \in Nat /\ p.capture.id <= handshakes
    BY ConstantsAssumption DEF IInv, Numbered, TypeOK, Captures
  <2>5. \A p \in proofs' : p.capture.id <= handshakes'
    BY <1>1, <1>2, <2>4
  <2> QED BY <2>2, <2>3, <2>5 DEF Numbered
<1>9. CapturesUsedOnce'
  <2>1. \A p \in proofs : p.capture.id \in Nat /\ p.capture.id <= handshakes
    BY ConstantsAssumption DEF IInv, Numbered, TypeOK, Captures
  <2>2. ASSUME NEW p \in proofs, NEW i \in DOMAIN sink' PROVE sink'[i].id # p.capture.id
    <3>1. CASE i = n + 1
      BY <1>1, <1>4, <2>1, <3>1
    <3>2. CASE i \in 1 .. n /\ i + d \in DOMAIN sink
      <4>1. sink'[i] = sink[i + d]
        BY <1>5, <3>2
      <4>2. sink[i + d].id # p.capture.id
        BY <3>2 DEF IInv, CapturesUsedOnce
      <4> QED BY <4>1, <4>2
    <3> QED BY <1>6, <3>1, <3>2
  <2> QED BY <1>2, <2>2 DEF IInv, CapturesUsedOnce
<1> QED BY <1>2, <1>7, <1>8, <1>9 DEF IInv, ProofChainOfServer

\* A proof takes the entry it binds out of the sink.
LEMMA ProveStep ==
  ASSUME IInv, NEW t \in Tasks, proveWithChain(t)
  PROVE  IInv'
<1> DEFINE conn == task[t].conn
           i == rposition(sink, conn.server)
           new == [server |-> conn.server, session |-> conn, capture |-> sink[i]]
<1>1. conn \in Captures
  BY Connected DEF IInv, proveWithChain
<1>2. sink \in Seq(Captures) /\ Len(sink) \in Nat /\ Len(sink) <= SinkMax
  BY DEF IInv, TypeOK
<1>3. i # 0 /\ sink' = RemoveAt(sink, i)
  BY DEF proveWithChain, take_for
<1>4. /\ proofs' = proofs \cup {new} /\ task' = [task EXCEPT ![t] = Idle]
      /\ UNCHANGED <<presented, pool, handshakes>>
  BY DEF proveWithChain
<1>5. i \in 1 .. Len(sink) /\ sink[i].server = conn.server
  BY <1>2, <1>3, Found
<1>6. /\ new.capture = sink[i] /\ new.server = conn.server
      /\ new \in [server : Servers, session : Captures, capture : Captures]
  <2>1. conn.server \in Servers
    BY <1>1 DEF Captures
  <2>2. sink[i] \in Captures
    BY <1>2, <1>5
  <2> QED BY <1>1, <2>1, <2>2
<1> HIDE DEF conn, i, new
<1>7. /\ sink' \in Seq(Captures) /\ Len(sink') = Len(sink) - 1
      /\ \A j \in 1 .. Len(sink) - 1 : sink'[j] = sink[IF j < i THEN j ELSE j + 1]
  BY <1>2, <1>3, <1>5, Removed
<1>8. \A j \in DOMAIN sink' :
        \E k \in DOMAIN sink : /\ k # i /\ sink'[j] = sink[k]
                               /\ k = IF j < i THEN j ELSE j + 1
  BY <1>2, <1>5, <1>7
<1>9. TypeOK'
  <2>1. task' \in [Tasks -> TaskStates]
    BY <1>4, NewTask, States DEF IInv
  <2>2. Len(sink') <= SinkMax
    BY <1>2, <1>7, ConstantsAssumption
  <2> QED BY <1>4, <1>6, <1>7, <2>1, <2>2 DEF IInv, TypeOK, pool
<1>10. Numbered'
  <2>1. \A j \in DOMAIN sink' : sink'[j].id <= handshakes'
    BY <1>4, <1>8 DEF IInv, Numbered
  <2>2. \A j, k \in DOMAIN sink' : sink'[j].id = sink'[k].id => j = k
    <3> SUFFICES ASSUME NEW j \in DOMAIN sink', NEW k \in DOMAIN sink',
                        sink'[j].id = sink'[k].id
                 PROVE  j = k
      OBVIOUS
    <3>1. (IF j < i THEN j ELSE j + 1) = (IF k < i THEN k ELSE k + 1)
      BY <1>8 DEF IInv, Numbered
    <3>2. j \in Nat /\ k \in Nat /\ i \in Nat
      BY <1>2, <1>5, <1>7
    <3> QED BY <3>1, <3>2
  <2>3. \A p \in proofs' : p.capture.id <= handshakes'
    BY <1>2, <1>4, <1>5, <1>6 DEF IInv, Numbered
  <2> QED BY <2>1, <2>2, <2>3 DEF Numbered
<1>11. CapturesUsedOnce'
  <2>1. \A p \in proofs : p.capture.id # new.capture.id
    BY <1>2, <1>5, <1>6 DEF IInv, CapturesUsedOnce
  <2>2. \A p1, p2 \in proofs' : p1.capture.id = p2.capture.id => p1 = p2
    BY <1>4, <2>1 DEF IInv, CapturesUsedOnce
  <2>3. \A p \in proofs, j \in DOMAIN sink' : sink'[j].id # p.capture.id
    BY <1>8 DEF IInv, CapturesUsedOnce
  <2>4. \A j \in DOMAIN sink' : sink'[j].id # new.capture.id
    BY <1>2, <1>5, <1>6, <1>8 DEF IInv, Numbered
  <2> QED BY <1>4, <2>2, <2>3, <2>4 DEF CapturesUsedOnce
<1>12. ProofChainOfServer'
  BY <1>4, <1>5, <1>6 DEF IInv, ProofChainOfServer
<1> QED BY <1>9, <1>10, <1>11, <1>12 DEF IInv

\* Each action keeps the invariant.
LEMMA NextIInv == IInv /\ [Next]_vars => IInv'
<1> SUFFICES ASSUME IInv, [Next]_vars PROVE IInv'
  OBVIOUS
<1>1. ASSUME NEW t \in Tasks, NEW s \in Servers, getConnect(t, s) PROVE IInv'
  BY <1>1, ConnectStep
<1>2. ASSUME NEW t \in Tasks, NEW c \in idle, getPooled(t, c) PROVE IInv'
  <2>1. c \in Captures
    BY DEF IInv, TypeOK
  <2>2. task' \in [Tasks -> TaskStates]
    BY <1>2, <2>1, NewTask, States DEF IInv, getPooled
  <2>3. TypeOK'
    BY <1>2, <2>2 DEF IInv, TypeOK, getPooled
  <2> QED BY <1>2, <2>3, Quiet DEF getPooled
<1>3. ASSUME NEW t \in Tasks, NEW c \in tickets, getResumes(t, c) PROVE IInv'
  <2>1. c \in Captures
    BY DEF IInv, TypeOK
  <2>2. task' \in [Tasks -> TaskStates]
    BY <1>3, <2>1, NewTask, States DEF IInv, getResumes
  <2>3. TypeOK'
    BY <1>3, <2>2 DEF IInv, TypeOK, getResumes
  <2> QED BY <1>3, <2>3, Quiet DEF getResumes
<1>4. ASSUME NEW t \in Tasks, NEW k \in BOOLEAN, NEW r \in BOOLEAN, getReturns(t, k, r)
      PROVE  IInv'
  <2>1. task[t].conn \in Captures
    BY <1>4, Connected DEF IInv, getReturns
  <2>2. task' \in [Tasks -> TaskStates]
    BY <1>4, <2>1, NewTask, States DEF IInv, getReturns
  <2>3. idle' \subseteq Captures /\ tickets' \subseteq Captures
    BY <1>4, <2>1 DEF IInv, TypeOK, getReturns
  <2>4. TypeOK'
    BY <1>4, <2>2, <2>3 DEF IInv, TypeOK, getReturns
  <2> QED BY <1>4, <2>4, Quiet DEF getReturns
<1>5. ASSUME NEW t \in Tasks, getFails(t) \/ proveWithoutChain(t) PROVE IInv'
  <2>1. task' = [task EXCEPT ![t] = Idle] /\ UNCHANGED <<presented, sink, pool, handshakes, proofs>>
    BY <1>5 DEF getFails, proveWithoutChain
  <2>2. task' \in [Tasks -> TaskStates]
    BY <2>1, NewTask, States DEF IInv
  <2>3. TypeOK'
    BY <2>1, <2>2 DEF IInv, TypeOK, pool
  <2> QED BY <2>1, <2>3, Quiet
<1>6. ASSUME NEW t \in Tasks, proveWithChain(t) PROVE IInv'
  BY <1>6, ProveStep
<1>7. ASSUME NEW c \in idle, PoolExpires(c) PROVE IInv'
  <2>1. TypeOK'
    BY <1>7 DEF IInv, TypeOK, PoolExpires
  <2> QED BY <1>7, <2>1, Quiet DEF PoolExpires
<1>8. ASSUME NEW s \in Servers, NEW chain \in Chains, ServerRotates(s, chain) PROVE IInv'
  <2>1. TypeOK'
    BY <1>8 DEF IInv, TypeOK, ServerRotates, pool
  <2> QED BY <1>8, <2>1, Quiet DEF ServerRotates
<1>9. CASE UNCHANGED vars
  <2>1. TypeOK'
    BY <1>9 DEF IInv, TypeOK, vars, pool
  <2> QED BY <1>9, <2>1, Quiet DEF vars
<1> QED BY <1>1, <1>2, <1>3, <1>4, <1>5, <1>6, <1>7, <1>8, <1>9 DEF Next

----------------------------------------------------------------------------
(* The variables keep their types and the sink its limit, whatever tasks,   *)
(* servers and the pool do (ChainSink::push, cert_verifier.rs).             *)
THEOREM TypeCorrect == Spec => []TypeOK
<1>1. IInv => TypeOK
  BY DEF IInv
<1> QED BY <1>1, InitIInv, NextIInv, PTL DEF Spec

(* No handshake is attested by two proofs (take_for removes what it returns). *)
THEOREM UsedOnce == Spec => []CapturesUsedOnce
<1>1. IInv => CapturesUsedOnce
  BY DEF IInv
<1> QED BY <1>1, InitIInv, NextIInv, PTL DEF Spec

(* A proof binds a chain that was validated for its own server (rposition). *)
THEOREM ChainOfServer == Spec => []ProofChainOfServer
<1>1. IInv => ProofChainOfServer
  BY DEF IInv
<1> QED BY <1>1, InitIInv, NextIInv, PTL DEF Spec
=============================================================================
