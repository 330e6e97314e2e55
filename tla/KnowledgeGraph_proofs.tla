------------------------- MODULE KnowledgeGraph_proofs -------------------------
(***************************************************************************)
(* Proofs about KnowledgeGraph and GraphQueries, for every set of texts,   *)
(* predicates and payloads and for graphs of every size.  The inductive    *)
(* invariant IInv joins the type invariant with what each loop has         *)
(* established so far:                                                     *)
(* Searched for can_reach and Ranked for rebuild_ranks.                    *)
(***************************************************************************)
EXTENDS GraphQueries, FiniteSetTheorems, SequenceTheorems, FunctionTheorems,
        WellFoundedInduction, TLAPS

(* Entity texts are unique, so by_text is the inverse of entities. *)
UniqueTexts(ents) ==
  \A i, j \in 1 .. Len(ents) : ents[i] = ents[j] => i = j

(* What can_reach knows: all it visited is reached from the object, and    *)
(* what it has dequeued is not the subject and has its successors visited. *)
Searched ==
  pc = "search" =>
    /\ call \in Ids \X (Predicates \ IllegalPredicates) \X Ids
    /\ call[1] # call[3]
    /\ call[3] \in visited
    /\ \A v \in visited : v = call[3] \/ \E u \in visited : Adjacent(edges, u, v)
    /\ \A v \in visited \ frontier : v # call[1] /\ Succ(v) \subseteq visited

(* The vertices rebuild_ranks has ranked. *)
Placed == {v \in CandIds : pending[v] = {} /\ v \notin ready}

(* What rebuild_ranks has established: an in-degree counts the predecessors *)
(* not yet placed, and the ranks given out respect every edge between      *)
(* placed vertices.                                                        *)
Ranked ==
  /\ UniqueTexts(cand.entities)
  /\ \A v \in ready : pending[v] = {}
  /\ \A s, v \in CandIds :
       s \in pending[v] <=> Adjacent(cand.edges, s, v) /\ s \notin Placed
  /\ \A v \in Placed : rank[v] < placed
  /\ \A v \in Placed, s \in CandIds : Adjacent(cand.edges, s, v) => rank[s] < rank[v]
  /\ placed = Cardinality(Placed)

(* Outside rebuild_ranks the graph is as the last call left it; inside it, *)
(* the graph being ranked is the graph itself.                             *)
Snapshot ==
  /\ pc # "rank" => before = graph
  /\ pc = "rank" => cand.entities = entities /\ cand.edges = edges

IInv == /\ TypeOK /\ UniqueTexts(entities)
        /\ Searched /\ Ranked /\ Snapshot
        /\ Acyclic /\ RanksRespectEdges /\ CycleRejectionsJustified

----------------------------------------------------------------------------
(* Every non-empty set of naturals has a least element. *)
LEMMA LeastNat ==
  ASSUME NEW Z, Z \subseteq Nat, Z # {}
  PROVE  \E m \in Z : \A k \in Z : m <= k
<1>1. PICK m \in Z : \A k \in Z : <<k, m>> \notin OpToRel(<, Nat)
  BY WFMin, NatLessThanWellFounded, Zenon
<1>2. \A k \in Z : ~(k < m)
  BY <1>1, Zenon DEF OpToRel
<1> QED BY <1>2

(* A rank that grows along every relation rules out cycles: this is why    *)
(* the fast path of add_relation may skip the search.                      *)
LEMMA RankedIsAcyclic ==
  ASSUME NEW V, NEW E, NEW f \in [V -> Nat],
         \A s, o \in V : Adjacent(E, s, o) => f[s] < f[o]
  PROVE  AcyclicOn(V, E)
<1> SUFFICES ASSUME NEW S \in SUBSET V, S # {}
             PROVE  \E v \in S : \A s \in S : ~Adjacent(E, s, v)
  BY DEF AcyclicOn
<1> DEFINE T == {f[v] : v \in S}
<1>1. T \subseteq Nat /\ T # {}
  OBVIOUS
<1>2. PICK m \in T : \A k \in T : m <= k
  <2> HIDE DEF T
  <2> QED BY <1>1, LeastNat
<1>3. PICK v \in S : f[v] = m
  OBVIOUS
<1>4. \A s \in S : f[v] <= f[s] /\ f[s] \in Nat /\ f[v] \in Nat
  BY <1>2, <1>3
<1> QED BY <1>3, <1>4

(* The vertices of a graph of n entities: n of them. *)
LEMMA VertexCount ==
  ASSUME NEW n \in Nat
  PROVE  IsFiniteSet(0 .. n - 1) /\ Cardinality(0 .. n - 1) = n
  BY FS_Interval

----------------------------------------------------------------------------
(* rebuild_ranks                                                           *)

(* The initialisation establishes the loop invariant. *)
LEMMA KahnInit ==
  ASSUME NEW ents \in Seq(Texts \ IllegalTexts), UniqueTexts(ents),
         NEW E \in SUBSET ((0 .. Len(ents) - 1) \X (Predicates \ IllegalPredicates)
                                                \X (0 .. Len(ents) - 1)),
         \A r \in E : r[1] # r[3],
         rankInit(ents, E)
  PROVE  KahnType' /\ Ranked' /\ cand'.entities = ents /\ cand'.edges = E
<1>1. /\ cand'.entities = ents /\ cand'.edges = E
      /\ CandIds' = 0 .. Len(ents) - 1 /\ Len(ents) \in Nat
  BY LenProperties DEF rankInit, CandIds
<1>2. KahnType'
  BY <1>1 DEF KahnType, rankInit
<1>3. Placed' = {}
  BY <1>1 DEF Placed, rankInit
<1>4. placed' = Cardinality(Placed')
  BY <1>3, FS_EmptySet DEF rankInit
<1>5. \A s, v \in CandIds' : s \in pending'[v] <=> Adjacent(cand'.edges, s, v)
  BY <1>1 DEF rankInit
<1>6. \A v \in ready' : pending'[v] = {}
  BY <1>1 DEF rankInit
<1>7. UniqueTexts(cand'.entities)
  BY <1>1
<1> QED BY <1>1, <1>2, <1>3, <1>4, <1>5, <1>6, <1>7 DEF Ranked

(* One iteration keeps it. *)
LEMMA KahnStep ==
  ASSUME KahnType, Ranked, rankStep
  PROVE  KahnType' /\ Ranked'
<1>1. PICK v \in ready : 
        /\ pending' = [o \in CandIds |-> pending[o] \ {v}]
        /\ ready' = (ready \ {v}) \cup {o \in CandIds : v \in pending[o] /\ pending[o] \ {v} = {}}
        /\ rank' = [rank EXCEPT ![v] = placed]
        /\ placed' = placed + 1
  BY DEF rankStep
<1>2. /\ cand' = cand /\ CandIds' = CandIds /\ v \in CandIds
      /\ Len(cand.entities) \in Nat /\ pending[v] = {} /\ v \notin Placed
      /\ placed \in Nat
  BY LenProperties DEF rankStep, CandIds, KahnType, Ranked, Placed
<1>3. \A o \in CandIds : pending'[o] = pending[o] \ {v}
  BY <1>1
<1>4. Placed' = Placed \cup {v}
  <2>1. \A o \in CandIds : o \in Placed' <=> pending[o] \ {v} = {} /\ o \notin ready'
    BY <1>2, <1>3 DEF Placed
  <2>2. \A o \in CandIds : o \in ready' <=>
            \/ o \in ready /\ o # v
            \/ v \in pending[o] /\ pending[o] \ {v} = {}
    BY <1>1
  <2>3. \A o \in CandIds : o \in Placed <=> pending[o] = {} /\ o \notin ready
    BY DEF Placed
  <2>4. \A o \in CandIds : o \in Placed' <=> o \in Placed \/ o = v
    BY <1>2, <2>1, <2>2, <2>3
  <2> QED BY <1>2, <2>4 DEF Placed
<1>5. /\ IsFiniteSet(Placed) /\ Cardinality(Placed') = Cardinality(Placed) + 1
      /\ Cardinality(Placed') <= Len(cand.entities)
  <2>1. IsFiniteSet(CandIds) /\ Cardinality(CandIds) = Len(cand.entities)
    BY <1>2, VertexCount DEF CandIds
  <2>2. IsFiniteSet(Placed)
    BY <2>1, FS_Subset DEF Placed
  <2>3. Cardinality(Placed') = Cardinality(Placed) + 1
    BY <1>2, <1>4, <2>2, FS_AddElement
  <2>4. Placed' \in SUBSET CandIds
    BY <1>2, <1>4 DEF Placed
  <2> QED BY <2>1, <2>2, <2>3, <2>4, FS_Subset
<1>6. KahnType'
  BY <1>1, <1>2, <1>3, <1>5 DEF KahnType, Ranked
<1>7. \A w \in ready' : pending'[w] = {}
  BY <1>1, <1>2, <1>3 DEF Ranked, KahnType
<1>8. \A s, w \in CandIds' :
        s \in pending'[w] <=> Adjacent(cand'.edges, s, w) /\ s \notin Placed'
  BY <1>2, <1>3, <1>4 DEF Ranked
<1>9. \A w \in Placed' : rank'[w] < placed'
  <2> SUFFICES ASSUME NEW w \in Placed' PROVE rank'[w] < placed'
    OBVIOUS
  <2>1. CASE w = v
    BY <1>1, <1>2, <2>1 DEF KahnType
  <2>2. CASE w # v
    <3>1. w \in Placed /\ w \in CandIds /\ rank[w] \in Nat /\ rank[w] < placed
      BY <1>4, <2>2 DEF Placed, Ranked, KahnType
    <3> QED BY <1>1, <1>2, <2>2, <3>1 DEF KahnType
  <2> QED BY <2>1, <2>2
<1>10. ASSUME NEW w \in Placed', NEW s \in CandIds', Adjacent(cand'.edges, s, w)
       PROVE  rank'[s] < rank'[w]
  <2>1. w \in CandIds /\ s \in CandIds /\ Adjacent(cand.edges, s, w)
    BY <1>2, <1>10 DEF Placed
  <2>2. pending[w] = {}
    BY <1>2, <1>4, <1>10 DEF Placed
  <2>3. s \in Placed /\ s # v
    BY <1>2, <2>1, <2>2 DEF Ranked
  <2>4. rank'[s] = rank[s] /\ rank[s] < placed
    BY <1>1, <2>1, <2>3 DEF KahnType, Ranked
  <2>5. CASE w = v
    BY <1>1, <1>2, <2>4, <2>5 DEF KahnType
  <2>6. CASE w # v
    <3>1. rank'[w] = rank[w] /\ w \in Placed
      BY <1>1, <1>4, <1>10, <2>1, <2>6 DEF KahnType
    <3> QED BY <2>1, <2>4, <3>1 DEF Ranked
  <2> QED BY <2>5, <2>6
<1>11. placed' = Cardinality(Placed')
  BY <1>1, <1>5 DEF Ranked
<1>12. UniqueTexts(cand'.entities)
  BY <1>2 DEF Ranked
<1> QED BY <1>6, <1>7, <1>8, <1>9, <1>10, <1>11, <1>12 DEF Ranked

(* When the loop runs dry with something left over, what is left over is a *)
(* set of vertices without a source: the graph has a cycle.                *)
LEMMA KahnStuck ==
  ASSUME KahnType, Ranked, ready = {}, placed # Len(cand.entities)
  PROVE  ~AcyclicOn(CandIds, cand.edges)
<1> DEFINE S == CandIds \ Placed
<1>1. Len(cand.entities) \in Nat
  BY LenProperties DEF KahnType
<1>2. Cardinality(CandIds) = Len(cand.entities)
  BY <1>1, VertexCount DEF CandIds
<1>3. S # {} /\ S \in SUBSET CandIds
  BY <1>2 DEF Placed, Ranked
<1>4. ASSUME NEW v \in S
      PROVE  \E s \in S : Adjacent(cand.edges, s, v)
  <2>1. pending[v] # {} /\ pending[v] \subseteq CandIds
    BY DEF Placed, KahnType
  <2> QED BY <2>1 DEF Ranked
<1> QED BY <1>3, <1>4 DEF AcyclicOn

(* When everything was placed, the ranks are a topological order. *)
LEMMA KahnComplete ==
  ASSUME KahnType, Ranked, ready = {}, placed = Len(cand.entities)
  PROVE  /\ rank \in [CandIds -> CandIds]
         /\ \A r \in cand.edges : rank[r[1]] < rank[r[3]]
<1>1. Len(cand.entities) \in Nat
  BY LenProperties DEF KahnType
<1>2. IsFiniteSet(CandIds) /\ Cardinality(CandIds) = Len(cand.entities)
  BY <1>1, VertexCount DEF CandIds
<1>3. Placed = CandIds
  <2>1. Placed \in SUBSET CandIds
    BY DEF Placed
  <2> QED BY <1>2, <2>1, FS_Subset DEF Ranked
<1>4. \A v \in CandIds : rank[v] \in Nat /\ rank[v] < Len(cand.entities)
  BY <1>3 DEF Ranked, KahnType
<1>5. rank \in [CandIds -> CandIds]
  BY <1>1, <1>4 DEF KahnType, CandIds
<1>6. ASSUME NEW r \in cand.edges PROVE rank[r[1]] < rank[r[3]]
  <2>1. r[1] \in CandIds /\ r[3] \in CandIds /\ r[2] \in Predicates /\ r = <<r[1], r[2], r[3]>>
    BY DEF KahnType
  <2>2. Adjacent(cand.edges, r[1], r[3])
    BY <2>1 DEF Adjacent
  <2> QED BY <1>3, <2>1, <2>2 DEF Ranked
<1> QED BY <1>5, <1>6

----------------------------------------------------------------------------
(* The calls                                                               *)

(* A relation of the graph joins two known entities by a predicate. *)
LEMMA EdgeShape ==
  ASSUME GraphType, NEW r \in edges
  PROVE  /\ r = <<r[1], r[2], r[3]>> /\ r[1] \in Ids /\ r[3] \in Ids
         /\ r[2] \in Predicates /\ r[1] # r[3]
  BY DEF GraphType

(* A call that returns leaves the invariant to the graph it leaves behind. *)
LEMMA ReturnStep ==
  ASSUME NEW r, return(r), GraphType', UniqueTexts(entities'),
         \A e \in edges' : topo'[e[1]] < topo'[e[3]],
         r = "Cycle" => ~AcyclicOn(Ids', edges' \cup {call'})
  PROVE  IInv'
<1>1. /\ pc' = "ready" /\ result' = r /\ before' = graph'
      /\ visited' = {} /\ frontier' = {}
      /\ cand' = NoCand /\ pending' = Nothing /\ ready' = {} /\ rank' = Nothing
      /\ placed' = 0
  BY DEF return
<1>2. cand'.entities = <<>> /\ cand'.edges = {} /\ CandIds' = {} /\ Len(cand'.entities) = 0
  BY <1>1 DEF NoCand, CandIds
<1>3. KahnType'
  BY <1>1, <1>2 DEF KahnType, Nothing
<1>4. Placed' = {}
  BY <1>2 DEF Placed
<1>5. placed' = Cardinality(Placed')
  BY <1>1, <1>4, FS_EmptySet
<1>6. Ranked'
  BY <1>1, <1>2, <1>4, <1>5 DEF Ranked, UniqueTexts
<1>7. Acyclic'
  <2>1. topo' \in [Ids' -> Nat]
    BY DEF GraphType, Ids
  <2>2. \A s, o \in Ids' : Adjacent(edges', s, o) => topo'[s] < topo'[o]
    BY DEF Adjacent
  <2>3. AcyclicOn(Ids', edges')
    BY <2>1, <2>2, RankedIsAcyclic
  <2> QED BY <2>3 DEF Acyclic
<1>8. TypeOK'
  BY <1>1, <1>3 DEF TypeOK
<1>9. Searched' /\ Snapshot' /\ RanksRespectEdges' /\ CycleRejectionsJustified'
  BY <1>1 DEF Searched, Snapshot, RanksRespectEdges, CycleRejectionsJustified
<1> QED BY <1>6, <1>7, <1>8, <1>9 DEF IInv

(* A call that returns without having touched the graph. *)
LEMMA RefusalStep ==
  ASSUME IInv, pc # "rank", NEW r, UNCHANGED graph, return(r),
         r = "Cycle" => ~AcyclicOn(Ids, edges \cup {call'})
  PROVE  IInv'
<1>1. entities' = entities /\ edges' = edges /\ topo' = topo /\ Ids' = Ids
  BY DEF graph, Ids
<1>2. GraphType' /\ UniqueTexts(entities')
  BY <1>1 DEF IInv, TypeOK, GraphType
<1>3. \A e \in edges' : topo'[e[1]] < topo'[e[3]]
  BY <1>1 DEF IInv, RanksRespectEdges
<1> QED BY <1>1, <1>2, <1>3, ReturnStep

(* add_entity: a new entity has rank 0 and no relation yet. *)
LEMMA AddEntityStep ==
  ASSUME IInv, NEW text \in Texts, add_entity(text)
  PROVE  IInv'
<1>1. CASE UNCHANGED graph
  <2>1. PICK r : return(r) /\ r # "Cycle"
    BY <1>1 DEF add_entity
  <2> QED BY <1>1, <2>1, RefusalStep DEF add_entity
<1>2. CASE ~ UNCHANGED graph
  <2>1. /\ text \notin IllegalTexts
        /\ \A i \in Ids : entities[i + 1] # text
        /\ entities' = Append(entities, text)
        /\ topo' = [i \in 0 .. Len(entities) |->
                      IF i = Len(entities) THEN 0 ELSE topo[i]]
        /\ edges' = edges /\ return("ok") /\ pc = "ready"
    BY <1>2 DEF add_entity
  <2>2. entities \in Seq(Texts \ IllegalTexts) /\ Len(entities) \in Nat
    BY LenProperties DEF IInv, TypeOK, GraphType
  <2>3. /\ entities' \in Seq(Texts \ IllegalTexts)
        /\ Len(entities') = Len(entities) + 1
        /\ \A i \in 1 .. Len(entities) : entities'[i] = entities[i]
        /\ entities'[Len(entities) + 1] = text
    BY <2>1, <2>2, AppendProperties
  <2>4. Ids' = 0 .. Len(entities) /\ Ids \subseteq Ids'
    BY <2>2, <2>3 DEF Ids
  <2>5. \A i \in Ids : topo'[i] = topo[i]
    BY <2>1, <2>2 DEF Ids
  <2>6. topo' \in [Ids' -> Ids']
    <3>1. \A i \in Ids' : topo'[i] \in Ids'
      BY <2>1, <2>2, <2>4 DEF IInv, TypeOK, GraphType, Ids
    <3> QED BY <2>1, <2>4, <3>1
  <2>7. GraphType'
    BY <2>1, <2>3, <2>4, <2>6 DEF IInv, TypeOK, GraphType
  <2>8. UniqueTexts(entities')
    <3>1. \A i \in 1 .. Len(entities) : entities[i] # text
      <4> SUFFICES ASSUME NEW i \in 1 .. Len(entities) PROVE entities[i] # text
        OBVIOUS
      <4>1. i - 1 \in Ids /\ (i - 1) + 1 = i
        BY <2>2 DEF Ids
      <4> QED BY <2>1, <4>1
    <3> QED BY <2>2, <2>3, <3>1 DEF IInv, UniqueTexts
  <2>9. \A e \in edges' : topo'[e[1]] < topo'[e[3]]
    BY <2>1, <2>5, EdgeShape DEF IInv, TypeOK, RanksRespectEdges
  <2> QED BY <2>1, <2>7, <2>8, <2>9, ReturnStep
<1> QED BY <1>1, <1>2

(* What passes the checks of add_relation. *)
LEMMA RelationChecked ==
  ASSUME NEW s, NEW p \in Predicates, NEW o, relationError(s, p, o) = "ok"
  PROVE  s \in Ids /\ o \in Ids /\ s # o /\ p \notin IllegalPredicates
  BY DEF relationError

(* add_relation up to the search: the fast path inserts a relation that    *)
(* respects the ranks.                                                     *)
LEMMA AddRelationStep ==
  ASSUME IInv, NEW s, NEW p \in Predicates, NEW o, add_relation(s, p, o)
  PROVE  IInv'
<1>0. pc = "ready" /\ GraphType
  BY DEF add_relation, IInv, TypeOK
<1>1. CASE UNCHANGED graph /\ return(relationError(s, p, o)) /\ relationError(s, p, o) # "ok"
  BY <1>0, <1>1, RefusalStep DEF relationError
<1>2. CASE UNCHANGED graph /\ return("ok")
  BY <1>0, <1>2, RefusalStep
<1>3. CASE /\ relationError(s, p, o) = "ok" /\ respectsOrder(s, o)
           /\ edges' = edges \cup {<<s, p, o>>}
           /\ UNCHANGED <<entities, topo>> /\ return("ok")
  <2>1. s \in Ids /\ o \in Ids /\ s # o /\ p \notin IllegalPredicates
    BY <1>3, RelationChecked
  <2>2. GraphType' /\ UniqueTexts(entities')
    BY <1>0, <1>3, <2>1 DEF GraphType, IInv, Ids
  <2>3. \A e \in edges' : topo'[e[1]] < topo'[e[3]]
    BY <1>0, <1>3 DEF IInv, RanksRespectEdges, respectsOrder
  <2> QED BY <1>3, <2>2, <2>3, ReturnStep
<1>4. CASE /\ relationError(s, p, o) = "ok" /\ call' = <<s, p, o>>
           /\ pc' = "search" /\ visited' = {o} /\ frontier' = {o}
           /\ UNCHANGED <<graph, kahn, result, before>>
  <2>1. s \in Ids /\ o \in Ids /\ s # o /\ p \notin IllegalPredicates
    BY <1>4, RelationChecked
  <2>2. Ids' = Ids /\ CandIds' = CandIds /\ Placed' = Placed
    BY <1>4 DEF Ids, CandIds, Placed, graph, kahn
  <2>3. TypeOK'
    BY <1>4, <2>1, <2>2 DEF IInv, TypeOK, GraphType, KahnType, graph, kahn
  <2>4. Searched'
    BY <1>4, <2>1, <2>2 DEF Searched
  <2>5. Ranked'
    BY <1>4, <2>2 DEF IInv, Ranked, kahn
  <2>6. Snapshot'
    BY <1>0, <1>4 DEF IInv, Snapshot, graph
  <2>7. Acyclic' /\ RanksRespectEdges' /\ CycleRejectionsJustified' /\ UniqueTexts(entities')
    BY <1>0, <1>4, <2>2 DEF IInv, Acyclic, RanksRespectEdges, CycleRejectionsJustified, graph
  <2> QED BY <2>3, <2>4, <2>5, <2>6, <2>7 DEF IInv
<1> QED BY <1>1, <1>2, <1>3, <1>4 DEF add_relation

----------------------------------------------------------------------------
(* can_reach                                                               *)

\* A vertex moves from the stack to the visited ones, its successors to the stack.
LEMMA SearchStepStep ==
  ASSUME IInv, searchStep
  PROVE  IInv'
<1>1. PICK v \in frontier :
        /\ v # call[1]
        /\ visited' = visited \cup Succ(v)
        /\ frontier' = (frontier \ {v}) \cup (Succ(v) \ visited)
  BY DEF searchStep
<1>2. pc = "search" /\ UNCHANGED <<graph, pc, call, kahn, result, before>>
  BY DEF searchStep
<1>3. /\ Ids' = Ids /\ CandIds' = CandIds /\ Placed' = Placed
      /\ edges' = edges /\ call' = call /\ pc' = pc
  BY <1>2 DEF Ids, CandIds, Placed, graph, kahn
<1>4. \A w : Succ(w)' = Succ(w)
  BY <1>3 DEF Succ
<1>5. /\ visited \subseteq Ids /\ frontier \subseteq visited /\ Succ(v) \subseteq Ids
      /\ \A w \in Succ(v) : Adjacent(edges, v, w)
  BY DEF IInv, TypeOK, Succ
<1>6. TypeOK'
  BY <1>1, <1>2, <1>3, <1>5 DEF IInv, TypeOK, GraphType, KahnType, graph, kahn
<1>7. Searched'
  <2>1. \A w \in visited' : w = call[3] \/ \E u \in visited' : Adjacent(edges, u, w)
    BY <1>1, <1>2, <1>5 DEF IInv, Searched
  <2>2. \A w \in visited' \ frontier' : w # call[1] /\ Succ(w) \subseteq visited'
    BY <1>1, <1>2, <1>5 DEF IInv, Searched
  <2>3. /\ call' \in Ids' \X (Predicates \ IllegalPredicates) \X Ids'
        /\ call'[1] # call'[3] /\ call'[3] \in visited'
    BY <1>1, <1>2, <1>3 DEF IInv, Searched
  <2> QED BY <1>3, <1>4, <2>1, <2>2, <2>3 DEF Searched
<1>8. Ranked'
  BY <1>2, <1>3 DEF IInv, Ranked, kahn
<1>9. Snapshot'
  BY <1>2 DEF IInv, Snapshot, graph, kahn
<1>10. Acyclic' /\ RanksRespectEdges' /\ CycleRejectionsJustified' /\ UniqueTexts(entities')
  BY <1>2, <1>3 DEF IInv, Acyclic, RanksRespectEdges, CycleRejectionsJustified, graph
<1> QED BY <1>6, <1>7, <1>8, <1>9, <1>10 DEF IInv

(* The search hit the subject: with the refused relation the visited       *)
(* vertices would have no source.                                          *)
LEMMA SearchHitStep ==
  ASSUME IInv, searchHit
  PROVE  IInv'
<1>1. pc = "search" /\ call[1] \in visited /\ UNCHANGED <<graph, call>> /\ return("Cycle")
  BY DEF searchHit, IInv, TypeOK
<1> DEFINE E == edges \cup {call}
<1>2. \A v \in visited : \E u \in visited : Adjacent(E, u, v)
  <2> SUFFICES ASSUME NEW v \in visited PROVE \E u \in visited : Adjacent(E, u, v)
    OBVIOUS
  <2>1. CASE v = call[3]
    <3>1. call = <<call[1], call[2], call[3]>> /\ call[2] \in Predicates
      BY <1>1 DEF IInv, Searched
    <3>2. Adjacent(E, call[1], v)
      BY <2>1, <3>1 DEF Adjacent
    <3> QED BY <1>1, <3>2
  <2>2. CASE v # call[3]
    <3>1. PICK u \in visited : Adjacent(edges, u, v)
      BY <1>1, <2>2 DEF IInv, Searched
    <3> QED BY <3>1 DEF Adjacent
  <2> QED BY <2>1, <2>2
<1>3. ~AcyclicOn(Ids, E)
  <2>1. visited \in SUBSET Ids /\ visited # {}
    BY <1>1 DEF IInv, TypeOK
  <2> HIDE DEF E
  <2> QED BY <1>2, <2>1 DEF AcyclicOn
<1>4. call' = call
  BY <1>1
<1> QED BY <1>1, <1>3, <1>4, RefusalStep

(* The search missed: the visited vertices are closed under successors and *)
(* do not include the subject, so moving them all behind the others gives  *)
(* an order the new relation respects too.                                 *)
LEMMA SearchMissAcyclic ==
  ASSUME IInv, pc = "search", frontier = {}
  PROVE  AcyclicOn(Ids, edges \cup {call})
<1> DEFINE n == Len(entities)
           f == [v \in Ids |-> topo[v] + IF v \in visited THEN n ELSE 0]
           E == edges \cup {call}
<1>1. n \in Nat
  BY LenProperties DEF IInv, TypeOK, GraphType
<1>2. \A v \in Ids : topo[v] \in Nat /\ topo[v] < n
  BY <1>1 DEF IInv, TypeOK, GraphType, Ids
<1>3. f \in [Ids -> Nat]
  BY <1>1, <1>2
<1>4. ASSUME NEW s \in Ids, NEW o \in Ids, Adjacent(E, s, o)
      PROVE  f[s] < f[o]
  <2>1. PICK p \in Predicates : <<s, p, o>> \in E
    BY <1>4 DEF Adjacent
  <2>2. CASE <<s, p, o>> \in edges
    <3>1. topo[s] < topo[o]
      BY <2>2 DEF IInv, RanksRespectEdges
    <3>2. s \in visited => o \in visited
      BY <2>2 DEF IInv, Searched, Succ, Adjacent
    <3> QED BY <1>1, <1>2, <3>1, <3>2
  <2>3. CASE <<s, p, o>> = call
    <3>1. s \notin visited /\ o \in visited
      BY <2>3 DEF IInv, Searched
    <3> QED BY <1>1, <1>2, <3>1
  <2> QED BY <2>1, <2>2, <2>3
<1>5. AcyclicOn(Ids, E)
  <2> HIDE DEF f, E
  <2> QED BY <1>3, <1>4, RankedIsAcyclic
<1> QED BY <1>5

\* The stack is empty: no path leads back, and the relation is inserted.
LEMMA SearchMissStep ==
  ASSUME IInv, searchMiss
  PROVE  IInv'
<1>1. /\ pc = "search" /\ frontier = {} /\ edges' = edges \cup {call} /\ pc' = "rank"
      /\ rankInit(entities, edges')
      /\ UNCHANGED <<entities, topo, call, search, result, before>>
  BY DEF searchMiss
<1>2. Ids' = Ids /\ entities \in Seq(Texts \ IllegalTexts) /\ UniqueTexts(entities)
  BY <1>1 DEF Ids, IInv, TypeOK, GraphType
<1>3. GraphType'
  BY <1>1, <1>2 DEF IInv, TypeOK, GraphType, Searched
<1>4. KahnType' /\ Ranked' /\ cand'.entities = entities /\ cand'.edges = edges'
  <2>1. edges' \in SUBSET ((0 .. Len(entities) - 1) \X (Predicates \ IllegalPredicates)
                                                   \X (0 .. Len(entities) - 1))
    BY <1>2, <1>3 DEF GraphType, Ids
  <2>2. \A r \in edges' : r[1] # r[3]
    BY <1>3 DEF GraphType
  <2> QED BY <1>1, <1>2, <2>1, <2>2, KahnInit
<1>5. TypeOK'
  BY <1>1, <1>2, <1>3, <1>4 DEF IInv, TypeOK, search
<1>6. Acyclic'
  BY <1>1, <1>2, SearchMissAcyclic DEF Acyclic
<1>7. Searched' /\ Snapshot' /\ RanksRespectEdges' /\ CycleRejectionsJustified'
  BY <1>1, <1>4 DEF Searched, Snapshot, RanksRespectEdges, CycleRejectionsJustified
<1> QED BY <1>1, <1>2, <1>4, <1>5, <1>6, <1>7 DEF IInv

----------------------------------------------------------------------------
(* rebuild_ranks, and deserialize                                          *)

\* The rebuild frees one vertex and ranks it.
LEMMA RankStepStep ==
  ASSUME IInv, rankStep
  PROVE  IInv'
<1>1. KahnType' /\ Ranked'
  BY KahnStep DEF IInv, TypeOK
<1>2. pc \in {"rank", "load"} /\ UNCHANGED <<graph, pc, call, search, cand, result, before>>
  BY DEF rankStep
<1>3. Ids' = Ids
  BY <1>2 DEF Ids, graph
<1>4. TypeOK'
  BY <1>1, <1>2, <1>3 DEF IInv, TypeOK, GraphType, graph, search
<1>5. Searched' /\ Snapshot' /\ RanksRespectEdges' /\ CycleRejectionsJustified'
  BY <1>2, <1>3 DEF IInv, Searched, Snapshot, RanksRespectEdges, CycleRejectionsJustified, graph
<1>6. Acyclic' /\ UniqueTexts(entities')
  BY <1>2, <1>3 DEF IInv, Acyclic, graph
<1> QED BY <1>1, <1>4, <1>5, <1>6 DEF IInv

(* "Kahn cannot fail here": the ranking that follows an insertion places   *)
(* every entity.                                                           *)
LEMMA RankAfterInsertSucceeds ==
  ASSUME IInv, pc = "rank", ready = {}
  PROVE  placed = Len(cand.entities)
<1>1. CandIds = Ids /\ cand.edges = edges
  BY DEF IInv, Snapshot, CandIds, Ids
<1> QED BY <1>1, KahnStuck DEF IInv, TypeOK, Acyclic

\* Every vertex has a rank, or those left keep each other in a cycle.
LEMMA RankDoneStep ==
  ASSUME IInv, rankDone
  PROVE  IInv'
<1>0. pc \in {"rank", "load"} /\ ready = {}
  BY DEF rankDone
<1>1. CASE placed # Len(cand.entities) /\ UNCHANGED graph /\ return("CyclicPayload")
  BY <1>0, <1>1, RankAfterInsertSucceeds, RefusalStep
<1>2. CASE /\ placed = Len(cand.entities)
           /\ entities' = cand.entities /\ edges' = cand.edges
           /\ topo' = rank /\ return("ok")
  <2>1. Ids' = CandIds
    BY <1>2 DEF Ids, CandIds
  <2>2. /\ rank \in [CandIds -> CandIds]
        /\ \A r \in cand.edges : rank[r[1]] < rank[r[3]]
    BY <1>0, <1>2, KahnComplete DEF IInv, TypeOK
  <2>3. GraphType' /\ UniqueTexts(entities')
    BY <1>2, <2>1, <2>2 DEF IInv, TypeOK, GraphType, KahnType, Ranked
  <2>4. \A e \in edges' : topo'[e[1]] < topo'[e[3]]
    BY <1>2, <2>2
  <2> QED BY <1>2, <2>3, <2>4, ReturnStep
<1> QED BY <1>1, <1>2 DEF rankDone

(* A function on 1..n is a sequence of length n. *)
LEMMA FunctionIsSeq ==
  ASSUME NEW n \in Nat, NEW S, NEW f \in [1 .. n -> S]
  PROVE  f \in Seq(S) /\ Len(f) = n
<1>1. f \in Seq(S)
  BY SeqDef
<1> QED BY <1>1, LenProperties

(* What serialize writes has the shape of a payload. *)
LEMMA SerializeShape ==
  ASSUME GraphType, ConstantsAssumption
  PROVE  /\ serialize.nodes \in Seq(Node) /\ Len(serialize.nodes) = Len(entities)
         /\ serialize.edges = edges /\ edges \in SUBSET (Nat \X Predicates \X Nat)
         /\ \A i \in 1 .. Len(entities) :
              serialize.nodes[i].id = i - 1 /\ serialize.nodes[i].text = entities[i]
<1>1. Len(entities) \in Nat /\ entities \in [1 .. Len(entities) -> Texts \ IllegalTexts]
  BY LenProperties DEF GraphType
<1>2. serialize.nodes \in [1 .. Len(entities) -> Node]
  BY <1>1 DEF serialize, Node
<1>3. edges \in SUBSET (Nat \X Predicates \X Nat)
  BY <1>1 DEF GraphType, Ids
<1> QED BY <1>1, <1>2, <1>3, FunctionIsSeq DEF serialize

\* A loaded graph is checked before it becomes the state.
LEMMA DeserializeStep ==
  ASSUME IInv, NEW nodes \in Seq(Node), NEW E \in SUBSET (Nat \X Predicates \X Nat),
         deserialize(nodes, E)
  PROVE  IInv'
<1>0. pc = "ready"
  BY DEF deserialize
<1>1. CASE UNCHANGED graph /\ return("Malformed")
  BY <1>0, <1>1, RefusalStep
<1>2. CASE /\ WellFormed(nodes, E) /\ pc' = "load"
           /\ rankInit([i \in 1 .. Len(nodes) |-> nodes[i].text], E)
           /\ UNCHANGED <<graph, search, result, before>>
  <2> DEFINE ents == [i \in 1 .. Len(nodes) |-> nodes[i].text]
  <2>1. Len(nodes) \in Nat /\ \A i \in 1 .. Len(nodes) : nodes[i] \in Node
    BY LenProperties
  <2>2. ents \in [1 .. Len(nodes) -> Texts \ IllegalTexts]
    BY <1>2, <2>1 DEF WellFormed, Node
  <2>3. ents \in Seq(Texts \ IllegalTexts) /\ Len(ents) = Len(nodes)
    <3> HIDE DEF ents
    <3> QED BY <2>1, <2>2, FunctionIsSeq
  <2>4. UniqueTexts(ents)
    BY <1>2, <2>3 DEF WellFormed, UniqueTexts
  <2>5. E \in SUBSET ((0 .. Len(ents) - 1) \X (Predicates \ IllegalPredicates)
                                           \X (0 .. Len(ents) - 1))
    <3> HIDE DEF ents
    <3>1. ASSUME NEW r \in E
          PROVE  r \in (0 .. Len(ents) - 1) \X (Predicates \ IllegalPredicates)
                                           \X (0 .. Len(ents) - 1)
      <4>1. /\ r = <<r[1], r[2], r[3]>> /\ r[1] \in Nat /\ r[3] \in Nat
            /\ r[2] \in Predicates
        OBVIOUS
      <4>2. r[1] < Len(nodes) /\ r[3] < Len(nodes) /\ r[2] \notin IllegalPredicates
        BY <1>2 DEF WellFormed
      <4>3. r[1] \in 0 .. Len(ents) - 1 /\ r[3] \in 0 .. Len(ents) - 1
        BY <2>1, <2>3, <4>1, <4>2
      <4> QED BY <4>1, <4>2, <4>3
    <3> QED BY <3>1
  <2>6. \A r \in E : r[1] # r[3]
    BY <1>2 DEF WellFormed
  <2>7. KahnType' /\ Ranked'
    <3> HIDE DEF ents
    <3>1. rankInit(ents, E)
      BY <1>2 DEF ents
    <3> QED BY <2>3, <2>4, <2>5, <2>6, <3>1, KahnInit
  <2>8. Ids' = Ids
    BY <1>2 DEF Ids, graph
  <2>9. TypeOK'
    BY <1>2, <2>7, <2>8 DEF IInv, TypeOK, GraphType, graph, search
  <2>10. Searched' /\ Snapshot' /\ RanksRespectEdges' /\ CycleRejectionsJustified'
    BY <1>0, <1>2, <2>8 DEF IInv, Searched, Snapshot, RanksRespectEdges,
                            CycleRejectionsJustified, graph
  <2>11. Acyclic' /\ UniqueTexts(entities')
    BY <1>2, <2>8 DEF IInv, Acyclic, graph
  <2> QED BY <2>7, <2>9, <2>10, <2>11 DEF IInv
<1> QED BY <1>1, <1>2 DEF deserialize

----------------------------------------------------------------------------
(* The theorems                                                            *)

\* The empty graph.
LEMMA InitIInv == Init => IInv
<1> SUFFICES ASSUME Init PROVE IInv
  OBVIOUS
<1>1. Ids = {} /\ CandIds = {} /\ Placed = {} /\ cand.entities = <<>> /\ cand.edges = {}
  BY DEF Init, Ids, CandIds, Placed, NoCand
<1>2. TypeOK
  BY <1>1 DEF Init, TypeOK, GraphType, KahnType, Nothing
<1>3. placed = Cardinality(Placed)
  BY <1>1, FS_EmptySet DEF Init
<1>4. Ranked
  BY <1>1, <1>3 DEF Ranked, Init, UniqueTexts
<1>5. Acyclic
  BY <1>1 DEF Acyclic, AcyclicOn
<1> QED BY <1>1, <1>2, <1>4, <1>5
        DEF Init, IInv, Searched, Snapshot, RanksRespectEdges, CycleRejectionsJustified, UniqueTexts

\* Each action keeps the invariant.
LEMMA NextIInv == IInv /\ [Next]_vars => IInv'
<1> SUFFICES ASSUME IInv, [Next]_vars PROVE IInv'
  OBVIOUS
<1>1. CASE \E text \in Ingested : add_entity(text)
  BY <1>1, AddEntityStep, ConstantsAssumption
<1>2. CASE \E s, o \in 0 .. Len(entities), p \in Predicates : add_relation(s, p, o)
  BY <1>2, AddRelationStep
<1>3. CASE \E f \in Payloads \cup {serialize} : deserialize(f.nodes, f.edges)
  <2>1. PICK f \in Payloads \cup {serialize} : deserialize(f.nodes, f.edges)
    BY <1>3
  <2>2. CASE f \in Payloads
    <3>1. f.nodes \in Seq(Node) /\ f.edges \in SUBSET (Nat \X Predicates \X Nat)
      BY <2>2, ConstantsAssumption
    <3> QED BY <2>1, <3>1, DeserializeStep
  <2>3. CASE f = serialize
    <3>1. f.nodes \in Seq(Node) /\ f.edges \in SUBSET (Nat \X Predicates \X Nat)
      BY <2>3, SerializeShape, ConstantsAssumption DEF IInv, TypeOK
    <3> QED BY <2>1, <3>1, DeserializeStep
  <2> QED BY <2>1, <2>2, <2>3
<1>4. CASE searchStep
  BY <1>4, SearchStepStep
<1>5. CASE searchHit
  BY <1>5, SearchHitStep
<1>6. CASE searchMiss
  BY <1>6, SearchMissStep
<1>7. CASE rankStep
  BY <1>7, RankStepStep
<1>8. CASE rankDone
  BY <1>8, RankDoneStep
<1>9. CASE UNCHANGED vars
  <2>1. /\ Ids' = Ids /\ CandIds' = CandIds /\ Placed' = Placed
        /\ UNCHANGED <<entities, edges, topo, pc, call, visited, frontier, cand, pending, ready,
                       rank, placed, result, before>>
    BY <1>9 DEF vars, Ids, CandIds, Placed, graph, search, kahn
  <2>2. TypeOK'
    BY <2>1 DEF IInv, TypeOK, GraphType, KahnType
  <2>3. Searched' /\ Snapshot' /\ Ranked'
    BY <2>1 DEF IInv, Searched, Snapshot, Ranked, Succ, graph
  <2>4. Acyclic' /\ RanksRespectEdges' /\ CycleRejectionsJustified' /\ UniqueTexts(entities')
    BY <2>1 DEF IInv, Acyclic, RanksRespectEdges, CycleRejectionsJustified
  <2> QED BY <2>2, <2>3, <2>4 DEF IInv
<1> QED BY <1>1, <1>2, <1>3, <1>4, <1>5, <1>6, <1>7, <1>8, <1>9 DEF Next, Calls, Internal

(* Type correctness of the graph and of both loops' variables. *)
THEOREM TypeCorrect == Spec => []TypeOK
<1>1. IInv => TypeOK
  BY DEF IInv
<1> QED BY <1>1, InitIInv, NextIInv, PTL DEF Spec

(* No sequence of add_entity, add_relation and deserialize calls, whatever *)
(* the payloads, ever produces a graph with a directed cycle.              *)
THEOREM AlwaysAcyclic == Spec => []Acyclic
<1>1. IInv => Acyclic
  BY DEF IInv
<1> QED BY <1>1, InitIInv, NextIInv, PTL DEF Spec

(* The maintained ranks are a topological order whenever a call may begin. *)
THEOREM RanksAreTopological == Spec => []RanksRespectEdges
<1>1. IInv => RanksRespectEdges
  BY DEF IInv
<1> QED BY <1>1, InitIInv, NextIInv, PTL DEF Spec

(* add_relation answers Cycle only for a relation that would close one.    *)
THEOREM CycleAnswersExact == Spec => []CycleRejectionsJustified
<1>1. IInv => CycleRejectionsJustified
  BY DEF IInv
<1> QED BY <1>1, InitIInv, NextIInv, PTL DEF Spec

(* rebuild_ranks refuses only graphs that have a cycle.                    *)
THEOREM KahnExact == Spec => []KahnRejectsOnlyCycles
<1>1. IInv => KahnRejectsOnlyCycles
  BY KahnStuck DEF IInv, TypeOK, KahnRejectsOnlyCycles
<1> QED BY <1>1, InitIInv, NextIInv, PTL DEF Spec

(* A call that reports an error leaves the graph as it found it.           *)
THEOREM ErrorsAreClean == Spec => ErrorsLeaveGraph
<1>1. IInv /\ [Next]_vars => [pc' = "ready" /\ result' # "ok" => graph' = before]_vars
  <2> SUFFICES ASSUME IInv, Next, pc' = "ready", result' # "ok"
               PROVE  graph' = before
    OBVIOUS
  <2>1. CASE \E text \in Ingested : add_entity(text)
    BY <2>1 DEF add_entity, return, IInv, Snapshot
  <2>2. CASE \E s, o \in 0 .. Len(entities), p \in Predicates : add_relation(s, p, o)
    BY <2>2 DEF add_relation, return, IInv, Snapshot
  <2>3. CASE \E f \in Payloads \cup {serialize} : deserialize(f.nodes, f.edges)
    BY <2>3 DEF deserialize, return, IInv, Snapshot
  <2>4. CASE searchStep \/ searchMiss \/ rankStep
    BY <2>4 DEF searchStep, searchMiss, rankStep
  <2>5. CASE searchHit
    BY <2>5 DEF searchHit, IInv, Snapshot
  <2>6. CASE rankDone
    <3>1. placed # Len(cand.entities) /\ UNCHANGED graph
      BY <2>6 DEF rankDone, return
    <3>2. pc = "load"
      BY <2>6, <3>1, RankAfterInsertSucceeds DEF rankDone
    <3> QED BY <3>1, <3>2 DEF IInv, Snapshot
  <2> QED BY <2>1, <2>2, <2>3, <2>4, <2>5, <2>6 DEF Next, Calls, Internal
<1> QED BY <1>1, InitIInv, NextIInv, PTL DEF Spec, ErrorsLeaveGraph

(* A serialized graph passes every check of deserialize, and what is then  *)
(* ranked is the graph itself; by AlwaysAcyclic and KahnExact the ranking  *)
(* succeeds.                                                               *)
THEOREM RoundTrip == Spec => RoundTripAccepted
<1>1. IInv /\ [Next]_vars
        => [deserialize(serialize.nodes, serialize.edges)
              => pc' = "load" /\ cand' = [entities |-> entities, edges |-> edges]]_vars
  <2> SUFFICES ASSUME IInv, deserialize(serialize.nodes, serialize.edges)
               PROVE  pc' = "load" /\ cand' = [entities |-> entities, edges |-> edges]
    OBVIOUS
  <2>1. /\ Len(serialize.nodes) = Len(entities) /\ serialize.edges = edges
        /\ \A i \in 1 .. Len(entities) :
             serialize.nodes[i].id = i - 1 /\ serialize.nodes[i].text = entities[i]
    BY SerializeShape, ConstantsAssumption DEF IInv, TypeOK
  <2>2. /\ entities \in [1 .. Len(entities) -> Texts \ IllegalTexts]
        /\ Len(entities) \in Nat
    BY LenProperties DEF IInv, TypeOK, GraphType
  <2>3. \A r \in edges : /\ r[1] < Len(entities) /\ r[3] < Len(entities)
                         /\ r[1] # r[3] /\ r[2] \notin IllegalPredicates
    BY <2>2 DEF IInv, TypeOK, GraphType, Ids
  <2>4. PICK nodes : nodes = serialize.nodes
    OBVIOUS
  <2>5. /\ Len(nodes) = Len(entities)
        /\ \A i \in 1 .. Len(entities) : nodes[i].id = i - 1 /\ nodes[i].text = entities[i]
    BY <2>1, <2>4, Zenon
  <2>6. WellFormed(nodes, edges)
    <3>1. \A i \in 1 .. Len(nodes) : nodes[i].id = i - 1 /\ nodes[i].text \notin IllegalTexts
      BY <2>2, <2>5
    <3>2. \A i, j \in 1 .. Len(nodes) : nodes[i].text = nodes[j].text => i = j
      <4>1. \A i, j \in 1 .. Len(entities) : entities[i] = entities[j] => i = j
        BY DEF IInv, UniqueTexts
      <4> QED BY <2>5, <4>1
    <3> QED BY <2>3, <2>5, <3>1, <3>2 DEF WellFormed
  <2>7. [i \in 1 .. Len(nodes) |-> nodes[i].text] = entities
    <3>1. [i \in 1 .. Len(entities) |-> nodes[i].text] = [i \in 1 .. Len(entities) |-> entities[i]]
      BY <2>5, Zenon
    <3>2. entities = [i \in 1 .. Len(entities) |-> entities[i]]
      BY <2>2, Zenon
    <3> QED BY <2>5, <3>1, <3>2, Zenon
  <2> QED BY <2>1, <2>4, <2>6, <2>7 DEF deserialize, rankInit
<1> QED BY <1>1, InitIInv, NextIInv, PTL DEF Spec, RoundTripAccepted

----------------------------------------------------------------------------
(* The queries on the graph of the moment (GraphQueries): what the ordered *)
(* listings, the breadth-first search and the evidence paths compute, and  *)
(* that it is what they promise.  The recursive functions are related to   *)
(* the least set that is closed under neighbours by induction over sets of *)
(* naturals.                                                               *)

(* Induction over the naturals, for a set of them. *)
LEMMA SetInduction ==
  ASSUME NEW S, 0 \in S, \A n \in Nat : n \in S => n + 1 \in S
  PROVE  \A n \in Nat : n \in S
<1> DEFINE T == {n \in Nat : n \notin S}
<1>1. SUFFICES ASSUME T # {} PROVE FALSE
  OBVIOUS
<1>2. PICK m \in T : \A k \in T : m <= k
  BY <1>1, LeastNat
<1>3. m \in Nat /\ m \notin S /\ m - 1 \in Nat /\ (m - 1) + 1 = m
  BY <1>2
<1>4. m - 1 \in S
  BY <1>2, <1>3
<1> QED BY <1>3, <1>4

----------------------------------------------------------------------------
(* Sets in an order                                                        *)

(* A[x] is what a total order on S puts before x. *)
Orders(S, A) ==
  /\ A \in [S -> SUBSET S]
  /\ \A x \in S : x \notin A[x]
  /\ \A x, y \in S : x # y => x \in A[y] \/ y \in A[x]
  /\ \A x, y \in S : y \in A[x] => A[y] \subseteq A[x]

(* Places in an order run from 0 to the last without a gap. *)
LEMMA Ranks ==
  ASSUME NEW S, IsFiniteSet(S), NEW A, Orders(S, A)
  PROVE  /\ Cardinality(S) \in Nat
         /\ \A i \in S : Cardinality(A[i]) \in 0 .. Cardinality(S) - 1
         /\ \A i, j \in S : i \in A[j] => Cardinality(A[i]) < Cardinality(A[j])
         /\ \A k \in 1 .. Cardinality(S) : \E i \in S : Cardinality(A[i]) = k - 1
<1> DEFINE n == Cardinality(S)
<1>1. n \in Nat
  BY FS_CardinalityType
<1>2. ASSUME NEW i \in S
      PROVE  IsFiniteSet(A[i]) /\ Cardinality(A[i]) \in Nat /\ Cardinality(A[i]) < n
  <2>1. A[i] \subseteq S \ {i} /\ A[i] \in SUBSET S
    BY DEF Orders
  <2>2. IsFiniteSet(S \ {i}) /\ Cardinality(S \ {i}) = n - 1
    BY FS_RemoveElement
  <2>3. IsFiniteSet(A[i]) /\ Cardinality(A[i]) <= n - 1
    BY <2>1, <2>2, FS_Subset
  <2>4. Cardinality(A[i]) \in Nat
    BY <2>3, FS_CardinalityType
  <2> QED BY <1>1, <2>3, <2>4
<1>3. ASSUME NEW i \in S, NEW j \in S, i \in A[j] PROVE Cardinality(A[i]) < Cardinality(A[j])
  <2>1. A[i] \subseteq A[j] /\ A[i] # A[j] /\ A[i] \in SUBSET A[j]
    BY <1>3 DEF Orders
  <2>2. Cardinality(A[i]) <= Cardinality(A[j]) /\ Cardinality(A[i]) # Cardinality(A[j])
    BY <1>2, <2>1, FS_Subset
  <2> QED BY <1>2, <2>2
<1> DEFINE f == [i \in S |-> Cardinality(A[i]) + 1]
<1>4. f \in Injection(S, 1 .. n)
  <2>1. f \in [S -> 1 .. n]
    BY <1>1, <1>2
  <2>2. ASSUME NEW i \in S, NEW j \in S, f[i] = f[j] PROVE i = j
    <3>1. Cardinality(A[i]) = Cardinality(A[j])
      BY <1>2, <2>2
    <3>2. i \notin A[j] /\ j \notin A[i]
      BY <1>2, <1>3, <3>1
    <3> QED BY <3>2 DEF Orders
  <2> HIDE DEF f
  <2> QED BY <2>1, <2>2, Fun_IsInj
<1>5. f \in Surjection(S, 1 .. n)
  <2>1. IsFiniteSet(1 .. n) /\ Cardinality(1 .. n) = n
    BY <1>1, FS_Interval
  <2> HIDE DEF f
  <2> QED BY <1>4, <2>1, FS_Injection
<1>6. ASSUME NEW k \in 1 .. n PROVE \E i \in S : Cardinality(A[i]) = k - 1
  <2>1. PICK i \in S : f[i] = k
    <3> HIDE DEF f
    <3> QED BY <1>5 DEF Surjection
  <2> QED BY <1>2, <2>1
<1> QED BY <1>1, <1>2, <1>3, <1>6

(* p lists S in the order of A. *)
Lists(S, A, p) ==
  /\ Cardinality(S) \in Nat /\ p \in [1 .. Cardinality(S) -> S]
  /\ \A k, l \in 1 .. Cardinality(S) : p[k] = p[l] => k = l
  /\ \A x \in S : \E k \in 1 .. Cardinality(S) : p[k] = x
  /\ \A k, l \in 1 .. Cardinality(S) : k < l => p[k] \in A[p[l]]

(* inOrder lists any finite set in any total order. *)
LEMMA Listed ==
  ASSUME NEW S, IsFiniteSet(S), NEW A, Orders(S, A)
  PROVE  Lists(S, A, inOrder(S, A))
<1> DEFINE n == Cardinality(S)
           p == inOrder(S, A)
<1>1. n \in Nat
  BY Ranks
<1>2. p \in [1 .. n -> S] /\ \A k \in 1 .. n : Cardinality(A[p[k]]) = k - 1
  <2>1. \A k \in 1 .. n : \E x \in S : Cardinality(A[x]) = k - 1
    BY Ranks
  <2>2. p = [k \in 1 .. n |-> CHOOSE x \in S : Cardinality(A[x]) = k - 1]
    BY DEF inOrder
  <2>3. ASSUME NEW k \in 1 .. n PROVE p[k] \in S /\ Cardinality(A[p[k]]) = k - 1
    <3>1. p[k] = CHOOSE x \in S : Cardinality(A[x]) = k - 1
      BY <2>2
    <3>2. PICK x \in S : Cardinality(A[x]) = k - 1
      BY <2>1
    <3> HIDE DEF p
    <3> QED BY <3>1, <3>2, Zenon
  <2> HIDE DEF p
  <2>4. p = [k \in 1 .. n |-> p[k]]
    BY <2>2
  <2> QED BY <2>3, <2>4, Zenon
<1> HIDE DEF p
<1>3. \A k, l \in 1 .. n : p[k] = p[l] => k = l
  BY <1>1, <1>2
<1>4. ASSUME NEW k \in 1 .. n, NEW l \in 1 .. n, k < l PROVE p[k] \in A[p[l]]
  <2>1. p[k] \in S /\ p[l] \in S /\ p[k] # p[l]
    BY <1>2, <1>3, <1>4
  <2>2. p[l] \notin A[p[k]]
    <3>1. ~(Cardinality(A[p[l]]) < Cardinality(A[p[k]]))
      BY <1>1, <1>2, <1>4
    <3> QED BY <2>1, <3>1, Ranks
  <2> QED BY <2>1, <2>2 DEF Orders
<1>5. ASSUME NEW x \in S PROVE \E k \in 1 .. n : p[k] = x
  <2> DEFINE k == Cardinality(A[x]) + 1
  <2>1. k \in 1 .. n /\ Cardinality(A[x]) \in Nat
    BY <1>1, Ranks
  <2>2. p[k] \in S /\ Cardinality(A[p[k]]) = Cardinality(A[x])
    BY <1>1, <1>2, <2>1
  <2>3. x \notin A[p[k]] /\ p[k] \notin A[x]
    BY <2>1, <2>2, Ranks
  <2>4. p[k] = x
    BY <2>2, <2>3 DEF Orders
  <2> QED BY <2>1, <2>4
<1> QED BY <1>1, <1>2, <1>3, <1>4, <1>5 DEF Lists, p

(* Ids are in order by value. *)
LEMMA AscendingLists ==
  ASSUME NEW S, S \subseteq Nat, IsFiniteSet(S)
  PROVE  Lists(S, lower(S), Ascending(S))
<1>1. Orders(S, lower(S))
  <2>1. \A x \in S : lower(S)[x] = {w \in S : w < x}
    BY DEF lower
  <2>2. lower(S) \in [S -> SUBSET S]
    BY DEF lower
  <2>3. \A x, y \in S : x \in lower(S)[y] <=> x < y
    BY <2>1
  <2>4. \A x, y \in S : y \in lower(S)[x] => lower(S)[y] \subseteq lower(S)[x]
    <3>1. ASSUME NEW x \in S, NEW y \in S, y \in lower(S)[x], NEW z \in lower(S)[y]
          PROVE  z \in lower(S)[x]
      <4>1. z \in S /\ x \in Nat /\ y \in Nat /\ z \in Nat
        BY <2>2, <3>1
      <4>2. z < y /\ y < x
        BY <2>3, <3>1, <4>1
      <4> QED BY <2>3, <4>1, <4>2
    <3> QED BY <3>1
  <2> QED BY <2>2, <2>3, <2>4 DEF Orders
<1> QED BY <1>1, Listed DEF Ascending

----------------------------------------------------------------------------
(* Breadth-first search                                                    *)

Reached == Ids \X Nat

(* next gives the neighbours of every entity. *)
Neighbours(next) == next \in [Ids -> SUBSET Ids]

(* What a search has discovered after popping n vertices: entities, each   *)
(* once, from the start on; all but the start next to an earlier one, one  *)
(* step deeper; deeper ones later, none more than one step deeper than the *)
(* next to be popped; and all that is next to a popped one, at most one    *)
(* step deeper.                                                            *)
Discovered(start, next, n, s) ==
  /\ s \in Seq(Reached) /\ Len(s) >= 1 /\ s[1] = <<start, 0>>
  /\ \A i, j \in 1 .. Len(s) : s[i][1] = s[j][1] => i = j
  /\ \A i \in 2 .. Len(s) : \E j \in 1 .. i - 1 :
        s[i][1] \in next[s[j][1]] /\ s[i][2] = s[j][2] + 1
  /\ \A i, j \in 1 .. Len(s) : i <= j => s[i][2] <= s[j][2]
  /\ \A i, j \in 1 .. Len(s) : j > n => s[i][2] <= s[j][2] + 1
  /\ \A i \in 1 .. Len(s) : i <= n =>
        \A x \in next[s[i][1]] :
          \E j \in 1 .. Len(s) : s[j][1] = x /\ s[j][2] <= s[i][2] + 1

(* The numbers up to n: n of them. *)
LEMMA Numbers ==
  ASSUME NEW n \in Nat
  PROVE  IsFiniteSet(1 .. n) /\ Cardinality(1 .. n) = n
BY FS_Interval

(* Nobody is discovered twice, so there is room for all. *)
LEMMA Room ==
  ASSUME NEW s \in Seq(Reached), \A i, j \in 1 .. Len(s) : s[i][1] = s[j][1] => i = j,
         Len(entities) \in Nat
  PROVE  Len(s) <= Len(entities)
<1> DEFINE f == [i \in 1 .. Len(s) |-> s[i][1]]
<1>1. Len(s) \in Nat /\ \A i \in 1 .. Len(s) : s[i] \in Reached
  OBVIOUS
<1>2. f \in Injection(1 .. Len(s), Ids)
  <2>1. f \in [1 .. Len(s) -> Ids] /\ \A i \in 1 .. Len(s) : f[i] = s[i][1]
    BY <1>1 DEF Reached
  <2> HIDE DEF f
  <2> QED BY <2>1, Fun_IsInj
<1>3. IsFiniteSet(Ids) /\ Cardinality(Ids) = Len(entities)
  BY VertexCount DEF Ids
<1>4. Cardinality(1 .. Len(s)) = Len(s)
  BY <1>1, Numbers
<1> HIDE DEF f
<1>5. Cardinality(1 .. Len(s)) <= Cardinality(Ids)
  BY <1>2, <1>3, FS_Injection, Zenon
<1> QED BY <1>3, <1>4, <1>5

(* The search starts with its start. *)
LEMMA SearchBegins ==
  ASSUME NEW start \in Ids, NEW next
  PROVE  Discovered(start, next, 0, << <<start, 0>> >>)
<1> DEFINE s == << <<start, 0>> >>
<1>1. s \in Seq(Reached) /\ Len(s) = 1 /\ s[1] = <<start, 0>>
  BY DEF Reached
<1> HIDE DEF s
<1>2. \A i \in 1 .. Len(s) : i = 1
  BY <1>1
<1>3. 2 .. Len(s) = {}
  BY <1>1
<1>4. \A i \in 1 .. Len(s) : s[i][1] = start /\ s[i][2] = 0 /\ ~(i <= 0)
  BY <1>1, <1>2
<1>5. Discovered(start, next, 0, s)
  BY <1>1, <1>2, <1>3, <1>4 DEF Discovered
<1> QED BY <1>5 DEF s

(* t adds to s the neighbours of its n-th vertex that are not in it, one   *)
(* step deeper.                                                            *)
Extends(next, s, n, t) ==
  /\ t \in Seq(Reached) /\ Len(t) \in Nat /\ Len(t) >= Len(s)
  /\ \A i \in 1 .. Len(s) : t[i] = s[i]
  /\ \A i \in Len(s) + 1 .. Len(t) :
       /\ t[i][1] \in next[s[n][1]] /\ t[i][2] = s[n][2] + 1
       /\ \A j \in 1 .. Len(s) : t[i][1] # s[j][1]
       /\ \A j \in Len(s) + 1 .. Len(t) : t[i][1] = t[j][1] => i = j
  /\ \A x \in next[s[n][1]] : \E j \in 1 .. Len(t) : t[j][1] = x

\* What one turn of the loop does to the queue, as facts about its entries.
LEMMA Popped ==
  ASSUME NEW next, Neighbours(next), Len(entities) \in Nat,
         NEW s \in Seq(Reached), NEW n \in 1 .. Len(s)
  PROVE  Extends(next, s, n, pop(next, s, n))
<1> DEFINE x     == s[n][1]
           d     == s[n][2]
           seen  == ToSet(firsts(s))
           new   == next[x] \ seen
           found == Ascending(new)
           more  == [i \in DOMAIN found |-> <<found[i], d + 1>>]
           m     == Len(s)
           k     == Cardinality(new)
           t     == s \o more
<1>1. m \in Nat /\ DOMAIN s = 1 .. m /\ \A i \in 1 .. m : s[i] \in Reached
  OBVIOUS
<1>2. x \in Ids /\ d \in Nat /\ next[x] \subseteq Ids
  BY <1>1 DEF Reached, Neighbours
<1>3. \A y : y \in seen <=> \E i \in 1 .. m : s[i][1] = y
  BY <1>1 DEF ToSet, firsts
<1>4. Lists(new, lower(new), found)
  <2>1. IsFiniteSet(Ids) /\ Ids \subseteq Nat
    BY VertexCount DEF Ids
  <2>2. new \subseteq Ids
    BY <1>2
  <2>3. IsFiniteSet(new) /\ new \subseteq Nat
    BY <2>1, <2>2, FS_Subset
  <2> HIDE DEF new
  <2> QED BY <2>3, AscendingLists
<1>5. pop(next, s, n) = t
  <2>1. ~(n > Len(s))
    BY <1>1
  <2> QED BY <2>1, Zenon DEF pop
<1>6. /\ k \in Nat /\ DOMAIN found = 1 .. k
      /\ \A i \in 1 .. k : found[i] \in new
      /\ \A i, j \in 1 .. k : found[i] = found[j] => i = j
      /\ \A y \in new : \E i \in 1 .. k : found[i] = y
  <2> HIDE DEF new, found
  <2> QED BY <1>4 DEF Lists
<1>7. more \in Seq(Reached) /\ Len(more) = k /\ \A i \in 1 .. k : more[i] = <<found[i], d + 1>>
  <2>1. \A i \in 1 .. k : found[i] \in Ids
    BY <1>2, <1>6
  <2> HIDE DEF found, new, d, k
  <2>2. more = [i \in 1 .. k |-> <<found[i], d + 1>>]
    BY <1>6
  <2>3. \A i \in 1 .. k : <<found[i], d + 1>> \in Reached
    BY <1>2, <2>1 DEF Reached
  <2> QED BY <1>6, <2>2, <2>3
<1> HIDE DEF more
<1>8. /\ t \in Seq(Reached) /\ Len(t) = m + k
      /\ \A i \in 1 .. m + k : t[i] = IF i <= m THEN s[i] ELSE more[i - m]
  BY <1>7, ConcatProperties, ZenonT(30)
<1> HIDE DEF t, found, new, seen, k
<1>9. \A i \in 1 .. m : t[i] = s[i]
  BY <1>1, <1>6, <1>8
<1>10. ASSUME NEW i \in m + 1 .. m + k
       PROVE  /\ i - m \in 1 .. k /\ t[i] = <<found[i - m], d + 1>>
              /\ found[i - m] \in new
  <2>1. i - m \in 1 .. k /\ i \in 1 .. m + k /\ ~(i <= m)
    BY <1>1, <1>6
  <2> QED BY <1>6, <1>7, <1>8, <2>1
<1>11. ASSUME NEW i \in m + 1 .. m + k
       PROVE  /\ t[i][1] \in next[x] /\ t[i][2] = d + 1
              /\ \A j \in 1 .. m : t[i][1] # s[j][1]
              /\ \A j \in m + 1 .. m + k : t[i][1] = t[j][1] => i = j
  <2>1. t[i][1] = found[i - m] /\ t[i][2] = d + 1 /\ found[i - m] \in new
    BY <1>10
  <2>2. t[i][1] \in next[x] /\ \A j \in 1 .. m : t[i][1] # s[j][1]
    BY <1>3, <2>1 DEF new
  <2>3. ASSUME NEW j \in m + 1 .. m + k, t[i][1] = t[j][1] PROVE i = j
    <3>1. t[j][1] = found[j - m]
      BY <1>10
    <3>2. i - m = j - m
      BY <1>6, <1>10, <2>1, <2>3, <3>1
    <3> QED BY <1>1, <3>2
  <2> QED BY <2>1, <2>2, <2>3
<1>12. ASSUME NEW y \in next[x] PROVE \E j \in 1 .. m + k : t[j][1] = y
  <2>1. CASE y \in seen
    <3>1. PICK j \in 1 .. m : s[j][1] = y
      BY <1>3, <2>1
    <3> QED BY <1>1, <1>6, <1>9, <3>1
  <2>2. CASE y \notin seen
    <3>1. PICK i \in 1 .. k : found[i] = y
      BY <1>6, <2>2 DEF new
    <3>2. i + m \in m + 1 .. m + k /\ i + m \in 1 .. m + k /\ (i + m) - m = i
      BY <1>1, <1>6
    <3>3. t[i + m][1] = y
      BY <1>10, <3>1, <3>2
    <3> QED BY <3>2, <3>3
  <2> QED BY <2>1, <2>2
<1>13. Extends(next, s, n, t)
  BY <1>1, <1>6, <1>8, <1>9, <1>11, <1>12 DEF Extends
<1> QED BY <1>5, <1>13

(* What a step of the search knows stays so. *)
LEMMA PopStep ==
  ASSUME NEW next, Neighbours(next), Len(entities) \in Nat,
         NEW start, NEW n \in Nat, NEW s, Discovered(start, next, n, s)
  PROVE  Discovered(start, next, n + 1, pop(next, s, n + 1))
<1> DEFINE t == pop(next, s, n + 1)
           m == Len(s)
<1>1. s \in Seq(Reached) /\ m \in Nat /\ \A i \in 1 .. m : s[i] \in Reached
  BY DEF Discovered
<1>2. CASE n + 1 > m
  <2>1. t = s
    BY <1>2 DEF pop
  <2>2. \A i \in 1 .. m : i <= n /\ ~(i > n) /\ ~(i > n + 1)
    BY <1>1, <1>2
  <2>3. Discovered(start, next, n + 1, s)
    BY <2>2 DEF Discovered
  <2> QED BY <2>1, <2>3
<1>3. CASE n + 1 <= m
  <2>1. n + 1 \in 1 .. m
    BY <1>1, <1>3
  <2>2. Extends(next, s, n + 1, t)
    BY <1>1, <2>1, Popped
  <2> DEFINE l == Len(t)
             d == s[n + 1][2]
  <2>3. /\ t \in Seq(Reached) /\ l \in Nat /\ l >= m /\ d \in Nat
        /\ \A i \in 1 .. m : t[i] = s[i] /\ i \in 1 .. l /\ s[i][2] \in Nat
        /\ \A i \in 1 .. l : i \in 1 .. m \/ i \in m + 1 .. l
    BY <1>1, <2>1, <2>2, SMTT(30) DEF Extends, Reached
  <2>4. \A i \in m + 1 .. l :
          /\ i \notin 1 .. m /\ i > m
          /\ t[i][1] \in next[s[n + 1][1]] /\ t[i][2] = d + 1
          /\ \A j \in 1 .. m : t[i][1] # s[j][1]
          /\ \A j \in m + 1 .. l : t[i][1] = t[j][1] => i = j
    BY <1>1, <2>2 DEF Extends
  <2> HIDE DEF t, l, d
  <2>5. l >= 1 /\ t[1] = <<start, 0>>
    BY <1>1, <2>1, <2>3 DEF Discovered
  <2>6. \A i, j \in 1 .. l : t[i][1] = t[j][1] => i = j
    <3> TAKE i, j \in 1 .. l
    <3> HAVE t[i][1] = t[j][1]
    <3>1. CASE i \in 1 .. m /\ j \in 1 .. m
      BY <2>3, <3>1 DEF Discovered
    <3>2. CASE i \in m + 1 .. l /\ j \in 1 .. m
      BY <2>3, <2>4, <3>2
    <3>3. CASE i \in 1 .. m /\ j \in m + 1 .. l
      BY <2>3, <2>4, <3>3
    <3>4. CASE i \in m + 1 .. l /\ j \in m + 1 .. l
      BY <2>4, <3>4
    <3> QED BY <2>3, <3>1, <3>2, <3>3, <3>4
  <2>7. ASSUME NEW i \in 2 .. l
        PROVE  \E j \in 1 .. i - 1 : t[i][1] \in next[t[j][1]] /\ t[i][2] = t[j][2] + 1
    <3>1. CASE i \in 1 .. m
      <4>1. i \in 2 .. m
        BY <1>1, <3>1
      <4>2. PICK j \in 1 .. i - 1 : s[i][1] \in next[s[j][1]] /\ s[i][2] = s[j][2] + 1
        BY <4>1 DEF Discovered
      <4>3. j \in 1 .. m
        BY <1>1, <4>1
      <4> QED BY <2>3, <3>1, <4>2, <4>3
    <3>2. CASE i \in m + 1 .. l
      <4>1. n + 1 \in 1 .. i - 1
        BY <1>1, <2>1, <3>2
      <4> QED BY <2>1, <2>3, <2>4, <3>2, <4>1 DEF d
    <3>3. i \in 1 .. l
      BY <2>3
    <3> QED BY <2>3, <3>1, <3>2, <3>3
  <2>8. \A i, j \in 1 .. m : (i <= j => s[i][2] <= s[j][2]) /\ (j > n => s[i][2] <= s[j][2] + 1)
    BY DEF Discovered
  <2>9. ASSUME NEW i \in 1 .. m
        PROVE  s[i][2] <= d + 1 /\ (i >= n + 1 => d <= s[i][2])
    <3>1. n + 1 > n
      OBVIOUS
    <3> QED BY <2>1, <2>8, <3>1 DEF d
  <2>10. \A i, j \in 1 .. l : i <= j => t[i][2] <= t[j][2]
    <3> TAKE i, j \in 1 .. l
    <3> HAVE i <= j
    <3>1. CASE i \in 1 .. m /\ j \in 1 .. m
      BY <2>3, <2>8, <3>1
    <3>2. CASE i \in m + 1 .. l
      <4>1. j \in m + 1 .. l
        BY <1>1, <2>3, <3>2
      <4> QED BY <2>3, <2>4, <3>2, <4>1
    <3>3. CASE i \in 1 .. m /\ j \in m + 1 .. l
      BY <2>3, <2>4, <2>9, <3>3, SMTT(30)
    <3> QED BY <2>3, <3>1, <3>2, <3>3
  <2>11. \A i, j \in 1 .. l : j > n + 1 => t[i][2] <= t[j][2] + 1
    <3> TAKE i, j \in 1 .. l
    <3> HAVE j > n + 1
    <3>1. t[i][2] <= d + 1
      <4>1. CASE i \in 1 .. m
        BY <2>3, <2>9, <4>1
      <4>2. CASE i \in m + 1 .. l
        BY <2>3, <2>4, <4>2
      <4> QED BY <2>3, <4>1, <4>2
    <3>2. d <= t[j][2]
      <4>1. CASE j \in 1 .. m
        BY <2>3, <2>9, <4>1
      <4>2. CASE j \in m + 1 .. l
        BY <2>3, <2>4, <4>2
      <4> QED BY <2>3, <4>1, <4>2
    <3>3. t[i][2] \in Nat /\ t[j][2] \in Nat
      BY <2>3 DEF Reached, l
    <3> QED BY <2>3, <3>1, <3>2, <3>3, SMTT(30)
  <2>12. ASSUME NEW i \in 1 .. l, i <= n + 1, NEW x \in next[t[i][1]]
         PROVE  \E j \in 1 .. l : t[j][1] = x /\ t[j][2] <= t[i][2] + 1
    <3>1. i \in 1 .. m
      BY <1>1, <1>3, <2>12
    <3>2. CASE i <= n
      <4>1. PICK j \in 1 .. m : s[j][1] = x /\ s[j][2] <= s[i][2] + 1
        BY <2>3, <2>12, <3>1, <3>2 DEF Discovered
      <4> QED BY <2>3, <3>1, <4>1
    <3>3. CASE i = n + 1
      <4>1. PICK j \in 1 .. l : t[j][1] = x
        BY <2>1, <2>2, <2>3, <2>12, <3>3 DEF Extends, l
      <4>2. t[j][2] <= d + 1
        <5>1. CASE j \in 1 .. m
          BY <2>3, <2>9, <5>1
        <5>2. CASE j \in m + 1 .. l
          BY <2>3, <2>4, <5>2
        <5> QED BY <2>3, <5>1, <5>2
      <4> QED BY <2>1, <2>3, <3>3, <4>1, <4>2 DEF d
    <3> QED BY <2>12, <3>2, <3>3
  <2> QED BY <2>3, <2>5, <2>6, <2>7, <2>10, <2>11, <2>12 DEF Discovered, l, t
<1> QED BY <1>1, <1>2, <1>3

(* w[n] is what the search has discovered after n vertices. *)
Walk(start, next, w) ==
  /\ DOMAIN w = 0 .. Len(entities) /\ w[0] = << <<start, 0>> >>
  /\ \A n \in Nat : n + 1 <= Len(entities) => w[n + 1] = pop(next, w[n], n + 1)

\* The turns of the loop, from the start alone to the end.
LEMMA WalkIs ==
  ASSUME NEW next, NEW start \in Ids, Neighbours(next), Len(entities) \in Nat
  PROVE  \E w : Walk(start, next, w) /\ bfs(start, next) = w[Len(entities)]
<1> DEFINE D       == 0 .. Len(entities)
           first   == << <<start, 0>> >>
           G(w)    == [n \in D |-> IF n = 0 THEN first ELSE pop(next, w[n - 1], n)]
           Upto(n) == {w \in [D -> Seq(Reached)] :
                         /\ w[0] = first
                         /\ \A i \in D : i <= n => Discovered(start, next, i, w[i])
                         /\ \A i \in D : 0 < i /\ i <= n => w[i] = pop(next, w[i - 1], i)}
           Lengths == {n \in Nat : n <= Len(entities) => Upto(n) # {}}
<1>1. Len(entities) \in Lengths
  <2>1. 0 \in Lengths
    <3>1. Discovered(start, next, 0, first)
      BY SearchBegins
    <3>2. first \in Seq(Reached)
      BY <3>1 DEF Discovered
    <3> HIDE DEF first
    <3> DEFINE w == [i \in D |-> first]
    <3>3. w \in [D -> Seq(Reached)] /\ w[0] = first
      BY <3>2
    <3>4. \A i \in D : i <= 0 => i = 0 /\ ~(0 < i)
      OBVIOUS
    <3> HIDE DEF w
    <3>5. w \in Upto(0)
      BY <3>1, <3>3, <3>4
    <3> QED BY <3>5
  <2>2. ASSUME NEW n \in Nat, n \in Lengths PROVE n + 1 \in Lengths
    <3> SUFFICES ASSUME n + 1 <= Len(entities) PROVE Upto(n + 1) # {}
      OBVIOUS
    <3>1. PICK w \in Upto(n) : TRUE
      BY <2>2
    <3> HIDE DEF first
    <3> DEFINE more == pop(next, w[n], n + 1)
               u    == [w EXCEPT ![n + 1] = more]
    <3>2. n \in D /\ n + 1 \in D /\ ~(n + 1 <= n) /\ (n + 1) - 1 = n
      BY <2>2
    <3>3. Discovered(start, next, n + 1, more)
      BY <3>1, <3>2, PopStep
    <3>4. more \in Seq(Reached)
      BY <3>3 DEF Discovered
    <3> HIDE DEF more
    <3>5. /\ u \in [D -> Seq(Reached)] /\ u[n + 1] = more
          /\ \A i \in D : i # n + 1 => u[i] = w[i]
      BY <3>1, <3>2, <3>4
    <3> HIDE DEF u
    <3>6. u[0] = first
      BY <3>1, <3>2, <3>5
    <3>7. ASSUME NEW i \in D, i <= n + 1
          PROVE  Discovered(start, next, i, u[i]) /\ (0 < i => u[i] = pop(next, u[i - 1], i))
      <4>1. CASE i = n + 1
        <5>1. u[i - 1] = w[n]
          BY <3>2, <3>5, <4>1
        <5> QED BY <3>3, <3>5, <4>1, <5>1 DEF more
      <4>2. CASE i <= n
        <5>1. u[i] = w[i] /\ Discovered(start, next, i, w[i])
          BY <3>1, <3>2, <3>5, <4>2
        <5>2. ASSUME 0 < i PROVE u[i] = pop(next, u[i - 1], i)
          <6>1. i - 1 \in D /\ i - 1 # n + 1
            BY <4>2, <5>2
          <6>2. u[i - 1] = w[i - 1] /\ w[i] = pop(next, w[i - 1], i)
            BY <3>1, <3>5, <4>2, <5>2, <6>1
          <6> QED BY <5>1, <6>2
        <5> QED BY <5>1, <5>2
      <4> QED BY <3>7, <4>1, <4>2
    <3>8. u \in Upto(n + 1)
      BY <3>5, <3>6, <3>7
    <3> QED BY <3>8
  <2> HIDE DEF Lengths
  <2>3. \A n \in Nat : n \in Lengths
    BY <2>1, <2>2, SetInduction
  <2> QED BY <2>3
<1> HIDE DEF first
<1>2. PICK w \in Upto(Len(entities)) : TRUE
  BY <1>1
<1>3. w = G(w)
  <2>1. \A i \in D : w[i] = G(w)[i]
    <3> TAKE i \in D
    <3>1. i <= Len(entities)
      OBVIOUS
    <3>2. CASE i = 0
      BY <1>2, <3>2
    <3>3. CASE i # 0
      BY <1>2, <3>1, <3>3
    <3> QED BY <3>2, <3>3
  <2>2. w \in [D -> Seq(Reached)] /\ G(w) = [i \in D |-> G(w)[i]]
    BY <1>2
  <2> HIDE DEF G, D, Upto
  <2>3. w = [i \in D |-> w[i]]
    BY <2>2
  <2> QED BY <2>1, <2>2, <2>3, Zenon
<1> DEFINE b == CHOOSE e : e = G(e)
<1>4. b = G(b)
  <2> HIDE DEF G
  <2> QED BY <1>3
<1>5. bfs(start, next) = b[Len(entities)]
  BY Zenon DEF bfs, first
<1> HIDE DEF b
<1>6. \A i \in D : b[i] = IF i = 0 THEN first ELSE pop(next, b[i - 1], i)
  <2>1. \A i \in D : G(b)[i] = IF i = 0 THEN first ELSE pop(next, b[i - 1], i)
    OBVIOUS
  <2> HIDE DEF G, D
  <2> QED BY <1>4, <2>1, Zenon
<1>7. DOMAIN b = D
  <2>1. DOMAIN G(b) = D
    OBVIOUS
  <2> HIDE DEF G, D
  <2> QED BY <1>4, <2>1, Zenon
<1> HIDE DEF G
<1>8. ASSUME NEW n \in Nat, n + 1 <= Len(entities) PROVE b[n + 1] = pop(next, b[n], n + 1)
  <2>1. n + 1 \in D /\ n + 1 # 0 /\ (n + 1) - 1 = n
    BY <1>8
  <2>2. b[n + 1] = pop(next, b[(n + 1) - 1], n + 1)
    BY <1>6, <2>1
  <2> QED BY <2>1, <2>2
<1>9. b[0] = first
  BY <1>6
<1> QED BY <1>5, <1>7, <1>8, <1>9 DEF Walk, first

(* A search is over when it has popped as many vertices as there are: then *)
(* all it has discovered has been popped.                                  *)
Found(start, next, s) ==
  /\ Discovered(start, next, Len(entities), s)
  /\ Len(s) \in Nat /\ Len(s) <= Len(entities)

\* A breadth-first search finds its vertices once each, along edges.
LEMMA Search ==
  ASSUME NEW next, NEW start \in Ids, Neighbours(next), Len(entities) \in Nat
  PROVE  Found(start, next, bfs(start, next))
<1>1. PICK w : Walk(start, next, w) /\ bfs(start, next) = w[Len(entities)]
  BY WalkIs
<1> DEFINE S == {n \in Nat : n <= Len(entities) => Discovered(start, next, n, w[n])}
<1>2. 0 \in S
  BY <1>1, SearchBegins DEF Walk
<1>3. ASSUME NEW n \in Nat, n \in S PROVE n + 1 \in S
  <2> SUFFICES ASSUME n + 1 <= Len(entities) PROVE Discovered(start, next, n + 1, w[n + 1])
    OBVIOUS
  <2>1. Discovered(start, next, n, w[n]) /\ w[n + 1] = pop(next, w[n], n + 1)
    BY <1>1, <1>3 DEF Walk
  <2>2. Discovered(start, next, n + 1, pop(next, w[n], n + 1))
    BY <2>1, PopStep
  <2> QED BY <2>1, <2>2
<1>4. Len(entities) \in S
  <2> HIDE DEF S
  <2>1. \A n \in Nat : n \in S
    BY <1>2, <1>3, SetInduction
  <2> QED BY <2>1
<1>5. Discovered(start, next, Len(entities), bfs(start, next))
  BY <1>1, <1>4
<1> DEFINE s == bfs(start, next)
<1> HIDE DEF s
<1>6. s \in Seq(Reached) /\ Len(s) \in Nat /\ \A i, j \in 1 .. Len(s) : s[i][1] = s[j][1] => i = j
  BY <1>5 DEF Discovered, s
<1>7. Len(s) <= Len(entities)
  BY <1>6, Room
<1> QED BY <1>5, <1>6, <1>7 DEF Found, s

(* What a search from start reaches along next. *)
Reach(start, next) == ToSet(firsts(bfs(start, next)))

\* A vertex is in Reach exactly if the search lists it.
LEMMA Reaches ==
  ASSUME NEW next, NEW start \in Ids, Neighbours(next), Len(entities) \in Nat
  PROVE  \A x : x \in Reach(start, next)
                  <=> \E i \in 1 .. Len(bfs(start, next)) : bfs(start, next)[i][1] = x
<1> DEFINE s == bfs(start, next)
<1>1. DOMAIN s = 1 .. Len(s)
  BY Search DEF Found, Discovered
<1> HIDE DEF s
<1>2. \A x : x \in ToSet(firsts(s)) <=> \E i \in 1 .. Len(s) : s[i][1] = x
  BY <1>1 DEF ToSet, firsts
<1> QED BY <1>2 DEF Reach, s

(* The least set that holds the start and, with a member, all next to it. *)
LEMMA ReachClosed ==
  ASSUME NEW next, NEW start \in Ids, Neighbours(next), Len(entities) \in Nat
  PROVE  /\ start \in Reach(start, next) /\ Reach(start, next) \subseteq Ids
         /\ \A x \in Reach(start, next) : next[x] \subseteq Reach(start, next)
<1> DEFINE s == bfs(start, next)
           R == Reach(start, next)
<1>1. Found(start, next, s) /\ \A x : x \in R <=> \E i \in 1 .. Len(s) : s[i][1] = x
  BY Search, Reaches
<1> HIDE DEF s, R
<1>2. Len(s) \in Nat /\ 1 \in 1 .. Len(s) /\ s[1][1] = start
  BY <1>1 DEF Found, Discovered
<1>3. ASSUME NEW x \in R PROVE x \in Ids /\ next[x] \subseteq R
  <2>1. PICK i \in 1 .. Len(s) : s[i][1] = x
    BY <1>1
  <2>2. x \in Ids
    BY <1>1, <2>1 DEF Found, Discovered, Reached
  <2>3. i <= Len(entities)
    BY <1>1, <2>1 DEF Found
  <2>4. ASSUME NEW y \in next[x] PROVE y \in R
    <3>1. PICK j \in 1 .. Len(s) : s[j][1] = y
      BY <1>1, <2>1, <2>3, ZenonT(30) DEF Found, Discovered
    <3> QED BY <1>1, <3>1
  <2> QED BY <2>2, <2>4
<1> QED BY <1>1, <1>2, <1>3 DEF R

\* It lies in every closed set with the start: the search invents nothing.
LEMMA ReachLeast ==
  ASSUME NEW next, NEW start \in Ids, Neighbours(next), Len(entities) \in Nat,
         NEW C, start \in C, \A x \in C : x \in Ids => next[x] \subseteq C
  PROVE  Reach(start, next) \subseteq C
<1> DEFINE s == bfs(start, next)
           Z == {i \in 1 .. Len(s) : s[i][1] \notin C}
<1>1. Found(start, next, s)
  BY Search
<1> HIDE DEF s
<1>2. Z = {}
  <2> SUFFICES ASSUME Z # {} PROVE FALSE
    OBVIOUS
  <2>0. Z \subseteq Nat
    BY <1>1 DEF Found
  <2>1. PICK i \in Z : \A j \in Z : i <= j
    <3> HIDE DEF Z
    <3> QED BY <2>0, LeastNat
  <2>2. i # 1
    BY <1>1, <2>1 DEF Found, Discovered
  <2>3. i \in 2 .. Len(s)
    BY <2>1, <2>2
  <2>4. PICK j \in 1 .. i - 1 : s[i][1] \in next[s[j][1]]
    BY <1>1, <2>3 DEF Found, Discovered
  <2>5. j \in 1 .. Len(s) /\ j < i
    BY <1>1, <2>3, <2>4 DEF Found
  <2>6. s[j][1] \in C /\ s[j][1] \in Ids
    <3>1. j \notin Z
      BY <2>1, <2>5
    <3>2. s[j] \in Reached
      BY <1>1, <2>5 DEF Found, Discovered
    <3> QED BY <2>5, <3>1, <3>2 DEF Reached
  <2> QED BY <2>1, <2>4, <2>6
<1>3. \A x : x \in Reach(start, next) <=> \E i \in 1 .. Len(s) : s[i][1] = x
  BY Reaches DEF s
<1> QED BY <1>2, <1>3

(* Who is reached reaches back along the opposite neighbours. *)
LEMMA ReachBack ==
  ASSUME NEW next, NEW prev, Neighbours(next), Neighbours(prev), Len(entities) \in Nat,
         \A x, y \in Ids : y \in next[x] => x \in prev[y],
         NEW v \in Ids, NEW w \in Reach(v, next)
  PROVE  v \in Reach(w, prev)
<1> DEFINE C == {x \in Ids : v \in Reach(x, prev)}
<1>1. v \in C
  BY ReachClosed
<1>2. ASSUME NEW x \in C, NEW y \in next[x] PROVE y \in C
  <2>1. x \in Ids /\ v \in Reach(x, prev) /\ y \in Ids
    BY <1>2 DEF Neighbours
  <2>2. x \in prev[y] /\ y \in Reach(y, prev)
    BY <1>2, <2>1, ReachClosed
  <2>3. x \in Reach(y, prev) /\ \A z \in Reach(y, prev) : prev[z] \subseteq Reach(y, prev)
    BY <2>1, <2>2, ReachClosed
  <2>4. Reach(x, prev) \subseteq Reach(y, prev)
    BY <2>1, <2>3, ReachLeast
  <2> QED BY <2>1, <2>4
<1> HIDE DEF C
<1>3. Reach(v, next) \subseteq C
  BY <1>1, <1>2, ReachLeast
<1> QED BY <1>3 DEF C

(* A traversal lists, each once, what the search reaches from its start,   *)
(* without the start.                                                      *)
LEMMA Traversal ==
  ASSUME NEW next, NEW start \in Ids, Neighbours(next), Len(entities) \in Nat
  PROVE  /\ IsInjective(Tail(firsts(bfs(start, next))))
         /\ ToSet(Tail(firsts(bfs(start, next)))) = Reach(start, next) \ {start}
<1> DEFINE s == bfs(start, next)
           q == firsts(s)
           r == Tail(q)
<1>1. Found(start, next, s) /\ \A x : x \in Reach(start, next) <=> \E i \in 1 .. Len(s) : s[i][1] = x
  BY Search, Reaches
<1> HIDE DEF s
<1>2. s \in Seq(Reached) /\ Len(s) \in Nat /\ 1 \in 1 .. Len(s) /\ s[1][1] = start
  BY <1>1 DEF Found, Discovered
<1>3. q \in Seq(Ids) /\ Len(q) = Len(s) /\ \A i \in 1 .. Len(s) : q[i] = s[i][1]
  <2>1. q = [i \in 1 .. Len(s) |-> s[i][1]] /\ \A i \in 1 .. Len(s) : s[i][1] \in Ids
    BY <1>2 DEF firsts, Reached
  <2> HIDE DEF q
  <2> QED BY <1>2, <2>1
<1> HIDE DEF q
<1>4. q # <<>>
  BY <1>2, <1>3
<1>5. r \in Seq(Ids) /\ Len(r) = Len(s) - 1 /\ \A i \in 1 .. Len(s) - 1 : r[i] = q[i + 1]
  BY <1>2, <1>3, <1>4, HeadTailProperties
<1> HIDE DEF r
<1>6. DOMAIN r = 1 .. Len(s) - 1
  BY <1>2, <1>5
<1>7. ASSUME NEW i \in 1 .. Len(s) - 1 PROVE i + 1 \in 1 .. Len(s) /\ i + 1 # 1 /\ r[i] = s[i + 1][1]
  <2>1. i + 1 \in 1 .. Len(s) /\ i + 1 # 1
    BY <1>2
  <2> QED BY <1>3, <1>5, <2>1
<1>8. \A i, j \in 1 .. Len(s) : s[i][1] = s[j][1] => i = j
  BY <1>1 DEF Found, Discovered
<1>9. ASSUME NEW i \in DOMAIN r, NEW j \in DOMAIN r, r[i] = r[j] PROVE i = j
  <2>1. i + 1 = j + 1
    BY <1>6, <1>7, <1>8, <1>9
  <2> QED BY <1>2, <1>6, <2>1
<1>10. IsInjective(r)
  BY <1>9 DEF IsInjective
<1>11. ASSUME NEW x PROVE x \in ToSet(r) <=> x \in Reach(start, next) /\ x # start
  <2>1. x \in ToSet(r) <=> \E i \in 1 .. Len(s) - 1 : r[i] = x
    BY <1>6 DEF ToSet
  <2>2. ASSUME NEW i \in 1 .. Len(s) - 1, r[i] = x PROVE x \in Reach(start, next) /\ x # start
    <3>1. x = s[i + 1][1] /\ i + 1 \in 1 .. Len(s) /\ i + 1 # 1
      BY <1>7, <2>2
    <3>2. x # s[1][1]
      BY <1>2, <1>8, <3>1
    <3> QED BY <1>1, <1>2, <3>1, <3>2
  <2>3. ASSUME x \in Reach(start, next), x # start PROVE \E i \in 1 .. Len(s) - 1 : r[i] = x
    <3>1. PICK i \in 1 .. Len(s) : s[i][1] = x
      BY <1>1, <2>3
    <3>2. i # 1
      BY <1>2, <2>3, <3>1
    <3>3. i - 1 \in 1 .. Len(s) - 1 /\ (i - 1) + 1 = i
      BY <1>2, <3>2
    <3>4. r[i - 1] = s[(i - 1) + 1][1]
      BY <1>7, <3>3
    <3> QED BY <3>1, <3>3, <3>4
  <2> QED BY <2>1, <2>2, <2>3
<1>12. ToSet(r) = Reach(start, next) \ {start}
  <2>1. \A x : x \in ToSet(r) <=> x \in Reach(start, next) \ {start}
    BY <1>11
  <2> QED BY <2>1, Zenon
<1> QED BY <1>10, <1>12 DEF r, q, s

(* The graph's own neighbours, forwards and backwards. *)
LEMMA GraphNeighbours ==
  ASSUME NEW Q
  PROVE  /\ Neighbours(objects(Q)) /\ Neighbours(subjects(Q))
         /\ \A x, y \in Ids : /\ y \in objects(Q)[x] <=> x \in subjects(Q)[y]
                              /\ y \in objects(Q)[x] <=> \E p \in Q : <<x, p, y>> \in edges
<1>1. \A x \in Ids : objects(Q)[x] = Objects(x, Q) /\ subjects(Q)[x] = Subjects(x, Q)
  BY DEF objects, subjects
<1>2. \A x, y \in Ids : /\ y \in Objects(x, Q) <=> \E p \in Q : <<x, p, y>> \in edges
                        /\ x \in Subjects(y, Q) <=> \E p \in Q : <<x, p, y>> \in edges
  BY DEF Objects, Subjects
<1>3. Neighbours(objects(Q)) /\ Neighbours(subjects(Q))
  BY DEF Neighbours, objects, subjects, Objects, Subjects
<1> QED BY <1>1, <1>2, <1>3, Zenon

(* topological_order lists the entities by rank. *)
LEMMA OrderLists ==
  ASSUME TypeOK
  PROVE  Lists(Ids, earlier, topological_order)
<1>1. /\ IsFiniteSet(Ids) /\ Ids \subseteq Nat /\ \A v \in Ids : topo[v] \in Nat
  <2>1. Len(entities) \in Nat /\ topo \in [Ids -> Ids]
    BY DEF TypeOK, GraphType
  <2> QED BY <2>1, VertexCount DEF Ids
<1>2. \A v, w \in Ids : w \in earlier[v] <=> topo[w] < topo[v] \/ (topo[w] = topo[v] /\ w < v)
  BY DEF earlier
<1>3. earlier \in [Ids -> SUBSET Ids]
  BY DEF earlier
<1>4. ASSUME NEW x \in Ids, NEW y \in Ids, y \in earlier[x], NEW z \in earlier[y]
      PROVE  z \in earlier[x]
  <2>1. z \in Ids
    BY <1>3, <1>4
  <2> QED BY <1>1, <1>2, <1>4, <2>1
<1>5. Orders(Ids, earlier)
  <2>1. \A x, y \in Ids : x # y => x \in earlier[y] \/ y \in earlier[x]
    BY <1>1, <1>2
  <2>2. \A x \in Ids : x \notin earlier[x]
    BY <1>1, <1>2
  <2>3. \A x, y \in Ids : y \in earlier[x] => earlier[y] \subseteq earlier[x]
    BY <1>4
  <2> QED BY <1>3, <2>1, <2>2, <2>3 DEF Orders
<1> QED BY <1>1, <1>5, Listed DEF topological_order

\* The property, from the ranks that are kept between calls.
LEMMA Traversals ==
  ASSUME TypeOK, RanksRespectEdges PROVE TraversalsAgree
<1> SUFFICES ASSUME pc = "ready" PROVE TraversalsAgree
  BY DEF TraversalsAgree
<1> DEFINE order == topological_order
           place(v) == CHOOSE i \in DOMAIN order : order[i] = v
           next == objects(Predicates)
           prev == subjects(Predicates)
           down == [v \in Ids |-> reachable_from(v)]
           up   == [v \in Ids |-> ancestors_of(v)]
<1>1. Len(entities) \in Nat /\ topo \in [Ids -> Ids] /\ Ids \subseteq Nat
  BY DEF TypeOK, GraphType, Ids
<1>2. /\ Neighbours(next) /\ Neighbours(prev)
      /\ \A x, y \in Ids : y \in next[x] <=> x \in prev[y]
      /\ \A x, y \in Ids : y \in next[x] <=> \E p \in Predicates : <<x, p, y>> \in edges
  BY GraphNeighbours
<1>3. ASSUME NEW v \in Ids
      PROVE  /\ down[v] = Tail(firsts(bfs(v, next))) /\ up[v] = Tail(firsts(bfs(v, prev)))
             /\ IsInjective(down[v])
             /\ ToSet(down[v]) = Reach(v, next) \ {v}
             /\ ToSet(up[v]) = Reach(v, prev) \ {v}
  <2>1. down[v] = reachable_from(v) /\ up[v] = ancestors_of(v)
    OBVIOUS
  <2> HIDE DEF down, up, next, prev
  <2>2. down[v] = Tail(firsts(bfs(v, next))) /\ up[v] = Tail(firsts(bfs(v, prev)))
    BY <2>1, Zenon DEF reachable_from, ancestors_of, next, prev
  <2> QED BY <1>1, <1>2, <2>2, Traversal
<1> HIDE DEF down, up, next, prev, order
<1>4. ASSUME NEW v \in Ids, NEW w \in Reach(v, next), w # v PROVE topo[v] < topo[w]
  <2> DEFINE C == {v} \cup {x \in Ids : topo[v] < topo[x]}
  <2>1. ASSUME NEW x \in C, x \in Ids, NEW y \in next[x] PROVE y \in C
    <3>1. y \in Ids /\ topo[x] < topo[y]
      <4>1. y \in Ids
        BY <1>2, <2>1 DEF Neighbours
      <4>2. PICK p \in Predicates : <<x, p, y>> \in edges
        BY <1>2, <2>1, <4>1
      <4> QED BY <4>1, <4>2 DEF RanksRespectEdges
    <3>2. topo[v] < topo[y]
      BY <1>1, <2>1, <3>1, SMTT(30)
    <3> QED BY <3>1, <3>2
  <2> HIDE DEF C
  <2>2. v \in C
    BY DEF C
  <2>3. Reach(v, next) \subseteq C
    BY <1>1, <1>2, <2>1, <2>2, ReachLeast
  <2> QED BY <1>4, <2>3 DEF C
<1>5. ASSUME NEW v \in Ids, NEW w \in Ids, topo[v] < topo[w] PROVE place(v) < place(w)
  <2>0. topo[v] \in Nat /\ topo[w] \in Nat /\ ~(topo[w] < topo[v]) /\ topo[w] # topo[v]
    <3>1. topo[v] \in Nat /\ topo[w] \in Nat
      BY <1>1
    <3> QED BY <1>5, <3>1
  <2> DEFINE n == Cardinality(Ids)
  <2>1. Lists(Ids, earlier, order)
    BY OrderLists DEF order
  <2> HIDE DEF n
  <2>2. DOMAIN order = 1 .. n /\ n \in Nat
    BY <2>1 DEF Lists, n
  <2>3. \A x \in Ids : place(x) \in 1 .. n /\ order[place(x)] = x
    <3>1. \A x \in Ids : \E i \in DOMAIN order : order[i] = x
      BY <2>1, <2>2 DEF Lists, n
    <3> QED BY <2>2, <3>1
  <2> HIDE DEF place
  <2>4. CASE place(w) < place(v)
    <3>1. w \in earlier[v]
      BY <2>1, <2>3, <2>4 DEF Lists, n
    <3>2. topo[w] < topo[v] \/ topo[w] = topo[v]
      BY <3>1 DEF earlier
    <3> QED BY <2>0, <3>2
  <2>5. CASE place(w) = place(v)
    <3>1. order[place(w)] = w /\ order[place(v)] = v
      BY <2>3
    <3>2. w = v
      BY <2>5, <3>1, Zenon
    <3> QED BY <2>0, <3>2
  <2>6. place(v) \in Int /\ place(w) \in Int
    BY <2>3
  <2> QED BY <2>4, <2>5, <2>6
<1> HIDE DEF place
<1>6. ASSUME NEW v \in Ids, NEW w \in Ids
      PROVE  /\ w \in ToSet(down[v]) <=> v \in ToSet(up[w])
             /\ w \in ToSet(down[v]) => place(v) < place(w)
  <2>1. w \in Reach(v, next) => v \in Reach(w, prev)
    BY <1>1, <1>2, ReachBack
  <2>2. v \in Reach(w, prev) => w \in Reach(v, next)
    BY <1>1, <1>2, ReachBack
  <2> QED BY <1>3, <1>4, <1>5, <2>1, <2>2
<1>7. \A v \in Ids : IsInjective(down[v]) /\ v \notin ToSet(down[v])
  BY <1>3
<1> QED BY <1>6, <1>7, Zenon DEF TraversalsAgree, down, up, order, place

----------------------------------------------------------------------------
(* Evidence                                                                *)

(* near[n] is what n relations lead to. *)
Near(next, start, near) ==
  /\ near[0] = {start}
  /\ \A n \in Nat : n + 1 <= Len(entities) =>
        \A x : x \in near[n + 1] <=> x \in near[n] \/ \E u \in near[n] : x \in next[u]
  /\ \A n \in Nat : n <= Len(entities) => near[n] \subseteq Ids

\* What lies within k hops, for each k.
LEMMA WithinIs ==
  ASSUME NEW Q, NEW v \in Ids, Len(entities) \in Nat
  PROVE  Near(objects(Q), v, within(Q, v))
<1> DEFINE D       == 0 .. Len(entities)
           on(T)   == T \cup UNION {Objects(u, Q) : u \in T}
           G(w)    == [n \in D |-> IF n = 0 THEN {v} ELSE on(w[n - 1])]
           Upto(n) == {w \in [D -> SUBSET Ids] :
                         /\ w[0] = {v}
                         /\ \A i \in D : 0 < i /\ i <= n => w[i] = on(w[i - 1])}
           Lengths == {n \in Nat : n <= Len(entities) => Upto(n) # {}}
<1>0. \A T \in SUBSET Ids : on(T) \in SUBSET Ids
  BY DEF Objects
<1>a. \A T, x : x \in on(T) <=> x \in T \/ \E u \in T : x \in Objects(u, Q)
  OBVIOUS
<1> HIDE DEF on
<1>1. Len(entities) \in Lengths
  <2>1. 0 \in Lengths
    <3> DEFINE w == [i \in D |-> {v}]
    <3>1. w \in [D -> SUBSET Ids] /\ w[0] = {v}
      OBVIOUS
    <3>2. \A i \in D : ~(0 < i /\ i <= 0)
      OBVIOUS
    <3> HIDE DEF w
    <3>3. w \in Upto(0)
      BY <3>1, <3>2
    <3> QED BY <3>3
  <2>2. ASSUME NEW n \in Nat, n \in Lengths PROVE n + 1 \in Lengths
    <3> SUFFICES ASSUME n + 1 <= Len(entities) PROVE Upto(n + 1) # {}
      OBVIOUS
    <3>1. PICK w \in Upto(n) : TRUE
      BY <2>2
    <3> DEFINE more == on(w[n])
               u    == [w EXCEPT ![n + 1] = more]
    <3>2. n \in D /\ n + 1 \in D /\ ~(n + 1 <= n) /\ (n + 1) - 1 = n
      BY <2>2
    <3>3. more \in SUBSET Ids
      BY <1>0, <3>1, <3>2
    <3> HIDE DEF more
    <3>4. /\ u \in [D -> SUBSET Ids] /\ u[n + 1] = more
          /\ \A i \in D : i # n + 1 => u[i] = w[i]
      BY <3>1, <3>2, <3>3
    <3> HIDE DEF u
    <3>5. u[0] = {v}
      BY <3>1, <3>2, <3>4
    <3>6. ASSUME NEW i \in D, 0 < i, i <= n + 1 PROVE u[i] = on(u[i - 1])
      <4>1. i - 1 \in D /\ i - 1 # n + 1
        BY <3>6
      <4>2. u[i - 1] = w[i - 1]
        BY <3>4, <4>1
      <4>3. CASE i = n + 1
        BY <3>2, <3>4, <4>2, <4>3 DEF more
      <4>4. CASE i <= n
        <5>1. u[i] = w[i] /\ w[i] = on(w[i - 1])
          BY <3>1, <3>4, <3>6, <4>4
        <5> QED BY <4>2, <5>1
      <4> QED BY <3>6, <4>3, <4>4
    <3>7. u \in Upto(n + 1)
      BY <3>4, <3>5, <3>6
    <3> QED BY <3>7
  <2> HIDE DEF Lengths
  <2>3. \A n \in Nat : n \in Lengths
    BY <2>1, <2>2, SetInduction
  <2> QED BY <2>3
<1>2. PICK w \in Upto(Len(entities)) : TRUE
  BY <1>1
<1>3. w = G(w)
  <2>1. \A i \in D : w[i] = G(w)[i]
    BY <1>2
  <2>2. w \in [D -> SUBSET Ids] /\ G(w) = [i \in D |-> G(w)[i]]
    BY <1>2
  <2> HIDE DEF G, D, Upto
  <2>3. w = [i \in D |-> w[i]]
    BY <2>2
  <2> QED BY <2>1, <2>2, <2>3, Zenon
<1> DEFINE b == CHOOSE e : e = G(e)
<1>4. b = G(b)
  <2> HIDE DEF G
  <2> QED BY <1>3
<1>5. within(Q, v) = b
  BY Zenon DEF within, on
<1> HIDE DEF b
<1>6. \A i \in D : b[i] = IF i = 0 THEN {v} ELSE on(b[i - 1])
  <2>1. \A i \in D : G(b)[i] = IF i = 0 THEN {v} ELSE on(b[i - 1])
    OBVIOUS
  <2> HIDE DEF G, D
  <2> QED BY <1>4, <2>1, Zenon
<1> HIDE DEF G
<1>7. ASSUME NEW n \in Nat, n + 1 <= Len(entities) PROVE b[n + 1] = on(b[n])
  <2>1. n + 1 \in D /\ n + 1 # 0 /\ (n + 1) - 1 = n
    BY <1>7
  <2>2. b[n + 1] = on(b[(n + 1) - 1])
    BY <1>6, <2>1
  <2> QED BY <2>1, <2>2
<1>8. b[0] = {v}
  BY <1>6
<1>9. \A n \in Nat : n <= Len(entities) => b[n] \subseteq Ids
  <2> DEFINE S == {n \in Nat : n <= Len(entities) => b[n] \in SUBSET Ids}
  <2>1. 0 \in S
    BY <1>8
  <2>2. ASSUME NEW n \in Nat, n \in S PROVE n + 1 \in S
    <3> SUFFICES ASSUME n + 1 <= Len(entities) PROVE b[n + 1] \in SUBSET Ids
      OBVIOUS
    <3>1. b[n] \in SUBSET Ids
      BY <2>2
    <3> QED BY <1>0, <1>7, <3>1
  <2> HIDE DEF S
  <2>3. \A n \in Nat : n \in S
    BY <2>1, <2>2, SetInduction
  <2> QED BY <2>3 DEF S
<1>10. ASSUME NEW n \in Nat, n + 1 <= Len(entities), NEW x
       PROVE  x \in b[n + 1] <=> x \in b[n] \/ \E u \in b[n] : x \in objects(Q)[u]
  <2>1. b[n] \subseteq Ids
    BY <1>9, <1>10
  <2>2. \A u \in b[n] : objects(Q)[u] = Objects(u, Q)
    BY <2>1 DEF objects
  <2> QED BY <1>a, <1>7, <1>10, <2>2
<1> QED BY <1>5, <1>8, <1>9, <1>10 DEF Near

(* The search finds everything within reach, at its distance. *)
LEMMA Distances ==
  ASSUME NEW next, NEW start, NEW s, Found(start, next, s), Len(entities) \in Nat,
         NEW near, Near(next, start, near)
  PROVE  /\ \A i \in 1 .. Len(s) : s[i][2] < Len(entities) /\ s[i][1] \in near[s[i][2]]
         /\ \A k \in 0 .. Len(entities) : \A x \in near[k] :
              \E j \in 1 .. Len(s) : s[j][1] = x /\ s[j][2] <= k
<1>1. /\ Len(s) \in Nat /\ Len(s) <= Len(entities) /\ 1 \in 1 .. Len(s)
      /\ s[1] = <<start, 0>>
      /\ \A i \in 1 .. Len(s) : s[i][2] \in Nat /\ i <= Len(entities)
  BY DEF Found, Discovered, Reached
<1>2. \A i \in 1 .. Len(s) : s[i][2] <= i - 1 /\ s[i][1] \in near[s[i][2]]
  <2> DEFINE Z == {i \in 1 .. Len(s) : ~(s[i][2] <= i - 1 /\ s[i][1] \in near[s[i][2]])}
  <2> SUFFICES ASSUME Z # {} PROVE FALSE
    OBVIOUS
  <2>1. Z \subseteq Nat
    BY <1>1
  <2>2. PICK i \in Z : \A j \in Z : i <= j
    <3> HIDE DEF Z
    <3> QED BY <2>1, LeastNat
  <2>3. i # 1
    BY <1>1, <2>2 DEF Near
  <2>4. i \in 2 .. Len(s)
    BY <2>2, <2>3
  <2>5. PICK j \in 1 .. i - 1 : s[i][1] \in next[s[j][1]] /\ s[i][2] = s[j][2] + 1
    BY <2>4 DEF Found, Discovered
  <2>6. j \in 1 .. Len(s) /\ j < i
    BY <1>1, <2>4, <2>5
  <2>7. s[j][2] <= j - 1 /\ s[j][1] \in near[s[j][2]] /\ s[j][2] \in Nat
    BY <1>1, <2>2, <2>6
  <2>8. s[j][2] + 1 <= i - 1 /\ s[j][2] + 1 <= Len(entities)
    BY <1>1, <2>4, <2>6, <2>7
  <2>9. s[i][1] \in near[s[j][2] + 1]
    BY <2>5, <2>7, <2>8 DEF Near
  <2> QED BY <2>2, <2>5, <2>8, <2>9
<1>3. \A i \in 1 .. Len(s) : s[i][2] < Len(entities)
  BY <1>1, <1>2
<1> DEFINE S == {k \in Nat : k <= Len(entities) =>
                   \A x \in near[k] : \E j \in 1 .. Len(s) : s[j][1] = x /\ s[j][2] <= k}
<1>4. 0 \in S
  BY <1>1 DEF Near
<1>5. ASSUME NEW k \in Nat, k \in S PROVE k + 1 \in S
  <2> SUFFICES ASSUME k + 1 <= Len(entities), NEW x \in near[k + 1]
               PROVE  \E j \in 1 .. Len(s) : s[j][1] = x /\ s[j][2] <= k + 1
    OBVIOUS
  <2>1. CASE x \in near[k]
    <3>1. PICK j \in 1 .. Len(s) : s[j][1] = x /\ s[j][2] <= k
      BY <1>5, <2>1
    <3> QED BY <1>1, <3>1
  <2>2. ASSUME NEW u \in near[k], x \in next[u]
        PROVE  \E j \in 1 .. Len(s) : s[j][1] = x /\ s[j][2] <= k + 1
    <3>1. PICK i \in 1 .. Len(s) : s[i][1] = u /\ s[i][2] <= k
      BY <1>5, <2>2
    <3>2. PICK j \in 1 .. Len(s) : s[j][1] = x /\ s[j][2] <= s[i][2] + 1
      BY <1>1, <2>2, <3>1 DEF Found, Discovered
    <3> QED BY <1>1, <3>1, <3>2
  <2> QED BY <2>1, <2>2 DEF Near
<1> HIDE DEF S
<1>6. \A k \in Nat : k \in S
  BY <1>4, <1>5, SetInduction
<1> QED BY <1>2, <1>3, <1>6 DEF S

(* b lists what the search discovered, the nearest first. *)
Nearest(start, s, b) ==
  /\ Len(b) \in Nat /\ DOMAIN b = 1 .. Len(b) /\ 1 \in 1 .. Len(b)
  /\ b[1] = <<start, 0>>
  /\ \A i \in 1 .. Len(b) : b[i] \in Reached
  /\ \A i, j \in 1 .. Len(b) : b[i][1] = b[j][1] => i = j
  /\ \A i, j \in 1 .. Len(b) : i < j =>
       b[i][2] < b[j][2] \/ (b[i][2] = b[j][2] /\ b[i][1] < b[j][1])
  /\ \A i \in 1 .. Len(b) : \E j \in 1 .. Len(s) : b[i] = s[j]
  /\ \A j \in 1 .. Len(s) : \E i \in 1 .. Len(b) : b[i] = s[j]

\* The sort by depth and id, as facts about its entries.
LEMMA ByDepth ==
  ASSUME NEW next, NEW start \in Ids, NEW s, Found(start, next, s), Len(entities) \in Nat
  PROVE  Nearest(start, s, byDepth(s))
<1> DEFINE F == ToSet(s)
           A == nearer(F)
           b == byDepth(s)
           n == Cardinality(F)
<1>1. /\ Len(s) \in Nat /\ 1 \in 1 .. Len(s) /\ DOMAIN s = 1 .. Len(s)
      /\ s[1] = <<start, 0>> /\ s \in Seq(Reached) /\ Ids \subseteq Nat
      /\ \A i, j \in 1 .. Len(s) : s[i][1] = s[j][1] => i = j
  BY DEF Found, Discovered, Ids
<1>2. \A x : x \in F <=> \E j \in 1 .. Len(s) : s[j] = x
  BY <1>1 DEF ToSet
<1> HIDE DEF F
<1>3. IsFiniteSet(F)
  <2>1. s \in [1 .. Len(s) -> F]
    <3>1. \A i \in 1 .. Len(s) : s[i] \in F
      BY <1>2
    <3> QED BY <1>1, <3>1
  <2>2. s \in Surjection(1 .. Len(s), F)
    BY <1>2, <2>1, Fun_IsSurj
  <2> QED BY <1>1, <2>2, Numbers, FS_Surjection
<1>4. /\ \A x \in F : x \in Reached /\ x[1] \in Nat /\ x[2] \in Nat /\ x = <<x[1], x[2]>>
      /\ \A x, y \in F : x[1] = y[1] => x = y
  BY <1>1, <1>2 DEF Reached
<1>5. A \in [F -> SUBSET F]
      /\ \A x, y \in F : y \in A[x] <=> y[2] < x[2] \/ (y[2] = x[2] /\ y[1] < x[1])
  BY DEF nearer
<1> HIDE DEF A
<1>6. Orders(F, A)
  <2>1. \A x \in F : x \notin A[x]
    BY <1>4, <1>5
  <2>2. \A x, y \in F : x # y => x \in A[y] \/ y \in A[x]
    <3> TAKE x, y \in F
    <3> HAVE x # y
    <3>1. x[1] # y[1] /\ x[1] \in Nat /\ y[1] \in Nat /\ x[2] \in Nat /\ y[2] \in Nat
      BY <1>4
    <3> QED BY <1>5, <3>1
  <2>3. ASSUME NEW x \in F, NEW y \in F, y \in A[x], NEW z \in A[y] PROVE z \in A[x]
    <3>1. z \in F
      BY <1>5, <2>3
    <3>2. y[2] < x[2] \/ (y[2] = x[2] /\ y[1] < x[1])
      BY <1>5, <2>3
    <3>3. z[2] < y[2] \/ (z[2] = y[2] /\ z[1] < y[1])
      BY <1>5, <2>3, <3>1
    <3>4. z[2] < x[2] \/ (z[2] = x[2] /\ z[1] < x[1])
      <4>1. {x[1], y[1], z[1], x[2], y[2], z[2]} \subseteq Nat
        BY <1>4, <3>1
      <4> QED BY <3>2, <3>3, <4>1
    <3> QED BY <1>5, <3>1, <3>4
  <2> QED BY <1>5, <2>1, <2>2, <2>3 DEF Orders
<1>7. Lists(F, A, b)
  BY <1>3, <1>6, Listed DEF byDepth, A, F
<1> HIDE DEF b, n
<1>8. Len(b) = n /\ n \in Nat /\ DOMAIN b = 1 .. n /\ \A i \in 1 .. n : b[i] \in F
  <2>1. n \in Nat /\ b \in [1 .. n -> F]
    BY <1>7 DEF Lists, n
  <2> QED BY <2>1
<1>9. /\ \A i, j \in 1 .. n : b[i] = b[j] => i = j
      /\ \A x \in F : \E i \in 1 .. n : b[i] = x
      /\ \A i, j \in 1 .. n : i < j => b[i] \in A[b[j]]
  BY <1>7 DEF Lists, n
<1>10. \A i, j \in 1 .. n : i < j =>
         b[i][2] < b[j][2] \/ (b[i][2] = b[j][2] /\ b[i][1] < b[j][1])
  BY <1>5, <1>8, <1>9
<1>11. \A i, j \in 1 .. n : b[i][1] = b[j][1] => i = j
  BY <1>4, <1>8, <1>9
<1>12. 1 \in 1 .. n /\ b[1] = s[1]
  <2>1. PICK k \in 1 .. n : b[k] = s[1]
    BY <1>1, <1>2, <1>9
  <2>2. 1 \in 1 .. n
    BY <1>8
  <2>3. PICK j \in 1 .. Len(s) : b[1] = s[j]
    BY <1>2, <1>8, <2>2
  <2>4. CASE j = 1
    BY <2>2, <2>3, <2>4
  <2>5. CASE j # 1
    <3>1. j \in 2 .. Len(s)
      BY <1>1, <2>5
    <3>2. PICK i \in 1 .. j - 1 : s[j][2] = s[i][2] + 1
      BY <3>1 DEF Found, Discovered
    <3>3. i \in 1 .. Len(s)
      BY <1>1, <3>1
    <3>4. s[i][2] \in Nat
      BY <1>2, <1>4, <3>3
    <3>5. b[1][2] > 0 /\ b[k][2] = 0 /\ 1 # k
      <4>1. b[1][2] = s[i][2] + 1 /\ b[k][2] = 0
        BY <1>1, <2>1, <2>3, <3>2
      <4>2. b[1][2] # b[k][2]
        BY <3>4, <4>1
      <4> QED BY <3>4, <4>1, <4>2
    <3>6. b[1][2] < b[k][2] \/ b[1][2] = b[k][2]
      BY <1>8, <1>10, <2>1, <2>2, <3>5
    <3>7. b[1][2] \in Nat
      BY <1>4, <1>8, <2>2
    <3> QED BY <3>5, <3>6, <3>7
  <2> QED BY <2>4, <2>5
<1>13. \A i \in 1 .. n : b[i] \in Reached /\ \E j \in 1 .. Len(s) : b[i] = s[j]
  <2> TAKE i \in 1 .. n
  <2>1. b[i] \in F
    BY <1>8
  <2> QED BY <1>2, <1>4, <2>1
<1>14. \A j \in 1 .. Len(s) : \E i \in 1 .. n : b[i] = s[j]
  BY <1>2, <1>9
<1>15. b[1] = <<start, 0>>
  BY <1>1, <1>12
<1> QED BY <1>8, <1>10, <1>11, <1>12, <1>13, <1>14, <1>15, Zenon DEF Nearest, b

(* b lists entities with their depths, each once. *)
Listing(b) ==
  /\ Len(b) \in Nat /\ DOMAIN b = 1 .. Len(b)
  /\ \A i \in 1 .. Len(b) : b[i] \in Reached
  /\ \A i, j \in 1 .. Len(b) : b[i][1] = b[j][1] => i = j

Departs(r, b, p) ==
  \E i \in 1 .. Len(b) : \E o \in Ids :
    <<b[i][1], p, o>> \in edges /\ r = <<b[i][1], o, b[i][2]>>

(* The relations that depart from b, in their order. *)
LEMMA EvidenceIs ==
  ASSUME NEW b, Listing(b), Len(entities) \in Nat, NEW p
  PROVE  \A r : r \in ToSet(evidence(b, p)) <=> Departs(r, b, p)
<1> DEFINE D == departures(b, p)
           A == bySubject(D)
           q == evidence(b, p)
           P == {x \in (1 .. Len(b)) \X Ids : <<b[x[1]][1], p, x[2]>> \in edges}
           f == [x \in P |-> <<b[x[1]][1], x[2], b[x[1]][2]>>]
<1>0. /\ Len(b) \in Nat /\ DOMAIN b = 1 .. Len(b)
      /\ \A i \in 1 .. Len(b) : b[i] \in Reached
      /\ \A i, j \in 1 .. Len(b) : b[i][1] = b[j][1] => i = j
  BY DEF Listing
<1>1. ASSUME NEW r
      PROVE  r \in D <=> \E i \in 1 .. Len(b) : \E o \in Ids :
                           <<b[i][1], p, o>> \in edges /\ r = <<b[i][1], o, b[i][2]>>
  <2>1. r \in D <=> \E i \in 1 .. Len(b) : r \in {<<b[i][1], o, b[i][2]>> : o \in Objects(b[i][1], {p})}
    <3> DEFINE H(i) == {<<b[i][1], o, b[i][2]>> : o \in Objects(b[i][1], {p})}
    <3>1. D = UNION {H(i) : i \in 1 .. Len(b)}
      BY <1>0, Zenon DEF departures
    <3> HIDE DEF D, H
    <3>2. r \in D <=> \E i \in 1 .. Len(b) : r \in H(i)
      BY <3>1
    <3> QED BY <3>2, Zenon DEF H
  <2>2. \A i \in 1 .. Len(b) : r \in {<<b[i][1], o, b[i][2]>> : o \in Objects(b[i][1], {p})}
           <=> \E o \in Objects(b[i][1], {p}) : r = <<b[i][1], o, b[i][2]>>
    OBVIOUS
  <2>3. \A v, o : o \in Objects(v, {p}) <=> o \in Ids /\ <<v, p, o>> \in edges
    BY DEF Objects
  <2> QED BY <2>1, <2>2, <2>3
<1>2. \A x : x \in P <=> \E i \in 1 .. Len(b) : \E o \in Ids :
                          x = <<i, o>> /\ <<b[i][1], p, o>> \in edges
  <2> TAKE x
  <2>1. ASSUME x \in P
        PROVE  \E i \in 1 .. Len(b) : \E o \in Ids : x = <<i, o>> /\ <<b[i][1], p, o>> \in edges
    <3>1. /\ x[1] \in 1 .. Len(b) /\ x[2] \in Ids /\ x = <<x[1], x[2]>>
          /\ <<b[x[1]][1], p, x[2]>> \in edges
      BY <2>1
    <3> QED BY <3>1, Zenon
  <2>2. ASSUME NEW i \in 1 .. Len(b), NEW o \in Ids, x = <<i, o>>, <<b[i][1], p, o>> \in edges
        PROVE  x \in P
    <3>1. x \in (1 .. Len(b)) \X Ids /\ x[1] = i /\ x[2] = o
      BY <2>2
    <3> QED BY <2>2, <3>1
  <2> HIDE DEF P
  <2> QED BY <2>1, <2>2, Zenon
<1> HIDE DEF D
<1>3. IsFiniteSet(D)
  <2>1. IsFiniteSet(P)
    <3>1. IsFiniteSet((1 .. Len(b)) \X Ids)
      BY <1>0, Numbers, VertexCount, FS_Product DEF Ids
    <3>2. P \subseteq (1 .. Len(b)) \X Ids
      OBVIOUS
    <3> HIDE DEF P
    <3> QED BY <3>1, <3>2, FS_Subset
  <2>2. \A x \in P : f[x] \in D
    <3> TAKE x \in P
    <3>1. PICK i \in 1 .. Len(b), o \in Ids : x = <<i, o>> /\ <<b[i][1], p, o>> \in edges
      BY <1>2
    <3>2. f[x] = <<b[i][1], o, b[i][2]>>
      BY <3>1
    <3> QED BY <1>1, <3>1, <3>2
  <2>3. \A r \in D : \E x \in P : f[x] = r
    <3> TAKE r \in D
    <3>1. PICK i \in 1 .. Len(b), o \in Ids :
            <<b[i][1], p, o>> \in edges /\ r = <<b[i][1], o, b[i][2]>>
      BY <1>1
    <3>2. <<i, o>> \in P
      BY <1>2, <3>1
    <3>3. f[<<i, o>>] = r
      BY <3>1, <3>2
    <3> QED BY <3>2, <3>3
  <2>4. f \in [P -> D]
    <3>1. f = [x \in P |-> f[x]]
      OBVIOUS
    <3> HIDE DEF f, P
    <3> QED BY <2>2, <3>1
  <2> HIDE DEF f, P
  <2>5. f \in Surjection(P, D)
    BY <2>3, <2>4, Fun_IsSurj
  <2> QED BY <2>1, <2>5, FS_Surjection
<1> HIDE DEF P, f
<1>4. /\ \A r \in D : r[1] \in Nat /\ r[2] \in Nat
      /\ \A r, t \in D : r[1] = t[1] /\ r[2] = t[2] => r = t
  <2>1. \A i \in 1 .. Len(b) : b[i][1] \in Nat
    BY <1>0 DEF Reached, Ids
  <2>2. Ids \subseteq Nat
    BY DEF Ids
  <2>3. ASSUME NEW r \in D PROVE r[1] \in Nat /\ r[2] \in Nat
    <3>1. PICK i \in 1 .. Len(b), o \in Ids : r = <<b[i][1], o, b[i][2]>>
      BY <1>1
    <3> QED BY <2>1, <2>2, <3>1
  <2>4. ASSUME NEW r \in D, NEW t \in D, r[1] = t[1], r[2] = t[2] PROVE r = t
    <3>1. PICK i \in 1 .. Len(b), o \in Ids : r = <<b[i][1], o, b[i][2]>>
      BY <1>1
    <3>2. PICK j \in 1 .. Len(b), u \in Ids : t = <<b[j][1], u, b[j][2]>>
      BY <1>1
    <3>3. i = j /\ o = u
      BY <1>0, <2>4, <3>1, <3>2
    <3> QED BY <3>1, <3>2, <3>3
  <2> QED BY <2>3, <2>4
<1>5. A \in [D -> SUBSET D]
      /\ \A x, y \in D : y \in A[x] <=> y[1] < x[1] \/ (y[1] = x[1] /\ y[2] < x[2])
  BY DEF bySubject
<1> HIDE DEF A
<1>6. Orders(D, A)
  <2>1. \A x \in D : x \notin A[x]
    BY <1>4, <1>5
  <2>2. \A x, y \in D : x # y => x \in A[y] \/ y \in A[x]
    <3> TAKE x, y \in D
    <3> HAVE x # y
    <3>1. /\ x[1] # y[1] \/ x[2] # y[2]
          /\ x[1] \in Nat /\ y[1] \in Nat /\ x[2] \in Nat /\ y[2] \in Nat
      BY <1>4
    <3> QED BY <1>5, <3>1
  <2>3. ASSUME NEW x \in D, NEW y \in D, y \in A[x], NEW z \in A[y] PROVE z \in A[x]
    <3>1. z \in D
      BY <1>5, <2>3
    <3>2. y[1] < x[1] \/ (y[1] = x[1] /\ y[2] < x[2])
      BY <1>5, <2>3
    <3>3. z[1] < y[1] \/ (z[1] = y[1] /\ z[2] < y[2])
      BY <1>5, <2>3, <3>1
    <3>4. z[1] < x[1] \/ (z[1] = x[1] /\ z[2] < x[2])
      <4>1. {x[1], y[1], z[1], x[2], y[2], z[2]} \subseteq Nat
        BY <1>4, <3>1
      <4> QED BY <3>2, <3>3, <4>1
    <3> QED BY <1>5, <3>1, <3>4
  <2> QED BY <1>5, <2>1, <2>2, <2>3 DEF Orders
<1>7. Lists(D, A, q)
  BY <1>3, <1>6, Listed DEF evidence, A, D
<1> HIDE DEF q
<1>8. ToSet(q) = D
  <2>1. DOMAIN q = 1 .. Cardinality(D)
    BY <1>7 DEF Lists
  <2>2. \A r : r \in ToSet(q) <=> \E k \in 1 .. Cardinality(D) : q[k] = r
    BY <2>1 DEF ToSet
  <2>3. \A r : r \in ToSet(q) <=> r \in D
    BY <1>7, <2>2 DEF Lists
  <2> QED BY <2>3
<1> QED BY <1>1, <1>8, Zenon DEF q, Departs

(* What EvidenceIsExact says of one answer. *)
Exact(es, ds, rs, near, text, p) ==
  /\ entities[es[1] + 1] = text /\ IsInjective(es)
  /\ ToSet(es) = near[Len(entities)]
  /\ \A i \in DOMAIN es :
       /\ es[i] \in near[ds[i]]
       /\ ds[i] > 0 => es[i] \notin near[ds[i] - 1]
  /\ \A i, j \in DOMAIN es :
       i < j => ds[i] < ds[j] \/ (ds[i] = ds[j] /\ es[i] < es[j])
  /\ {<<r[1], p, r[2]>> : r \in rs} = {r \in edges : r[2] = p /\ r[1] \in ToSet(es)}
  /\ \A r \in rs : \E i \in DOMAIN es : es[i] = r[1] /\ ds[i] = r[3]

IsExact(found, text, p) ==
  Exact(found.entities, found.depths, ToSet(found.relations),
        within({p}, found.entities[1]), text, p)

\* The answer for one anchor.
LEMMA AnswerIsExact ==
  ASSUME TypeOK, NEW text, NEW p, NEW anchor \in anchors(text)
  PROVE  IsExact(path(byDepth(bfs(anchor, objects({p}))), p), text, p)
<1> DEFINE s    == bfs(anchor, objects({p}))
           b    == byDepth(s)
           es   == firsts(b)
           ds   == seconds(b)
           rs   == ToSet(evidence(b, p))
           near == within({p}, anchor)
           n    == Len(entities)
<1>1. n \in Nat /\ anchor \in Ids /\ entities[anchor + 1] = text
      /\ \A r \in edges : r = <<r[1], r[2], r[3]>> /\ r[1] \in Ids /\ r[3] \in Ids
  BY DEF TypeOK, GraphType, anchors
<1>2. Neighbours(objects({p})) /\ \A x, y \in Ids : y \in objects({p})[x] <=> <<x, p, y>> \in edges
  <2>1. \A x, y \in Ids : y \in objects({p})[x] <=> \E q \in {p} : <<x, q, y>> \in edges
    BY GraphNeighbours
  <2> QED BY <2>1, GraphNeighbours
<1>3. Found(anchor, objects({p}), s)
  BY <1>1, <1>2, Search
<1>4. Nearest(anchor, s, b)
  BY <1>1, <1>3, ByDepth
<1>5. Near(objects({p}), anchor, near)
  BY <1>1, WithinIs
<1> HIDE DEF s, near, b
<1>6. /\ \A i \in 1 .. Len(s) : s[i][2] < n /\ s[i][1] \in near[s[i][2]]
      /\ \A k \in 0 .. n : \A x \in near[k] : \E j \in 1 .. Len(s) : s[j][1] = x /\ s[j][2] <= k
  BY <1>1, <1>3, <1>5, Distances
<1> HIDE DEF n
<1>7. /\ Len(b) \in Nat /\ DOMAIN b = 1 .. Len(b) /\ 1 \in 1 .. Len(b) /\ b[1] = <<anchor, 0>>
      /\ \A i \in 1 .. Len(b) : b[i] \in Reached
      /\ \A i, j \in 1 .. Len(b) : b[i][1] = b[j][1] => i = j
  BY <1>4 DEF Nearest
<1>8. \A r : r \in rs <=> \E i \in 1 .. Len(b) : \E o \in Ids :
                           <<b[i][1], p, o>> \in edges /\ r = <<b[i][1], o, b[i][2]>>
  <2>1. Listing(b)
    BY <1>7 DEF Listing
  <2>2. Len(entities) \in Nat
    BY <1>1 DEF n
  <2>3. \A r : r \in rs <=> Departs(r, b, p)
    BY <2>1, <2>2, EvidenceIs
  <2> QED BY <2>3, Zenon DEF Departs
<1> HIDE DEF rs
<1>9. /\ DOMAIN es = 1 .. Len(b) /\ es[1] = anchor
      /\ \A i \in 1 .. Len(b) : /\ es[i] = b[i][1] /\ ds[i] = b[i][2]
                                /\ es[i] \in Ids /\ ds[i] \in Nat
      /\ \A x : x \in ToSet(es) <=> \E i \in 1 .. Len(b) : b[i][1] = x
  BY <1>7 DEF firsts, seconds, ToSet, Reached
<1> HIDE DEF es, ds
<1>10. IsInjective(es)
  BY <1>7, <1>9 DEF IsInjective
<1>11. ASSUME NEW i \in 1 .. Len(b)
       PROVE  /\ ds[i] < n /\ es[i] \in near[ds[i]]
              /\ ds[i] > 0 => es[i] \notin near[ds[i] - 1]
  <2>1. PICK j \in 1 .. Len(s) : b[i] = s[j]
    BY <1>4 DEF Nearest
  <2>2. ds[i] < n /\ es[i] \in near[ds[i]]
    BY <1>6, <1>9, <2>1
  <2>3. ASSUME ds[i] > 0, es[i] \in near[ds[i] - 1] PROVE FALSE
    <3>1. ds[i] - 1 \in 0 .. n
      BY <1>1, <1>9, <2>2, <2>3
    <3>2. PICK k \in 1 .. Len(s) : s[k][1] = es[i] /\ s[k][2] <= ds[i] - 1
      BY <1>6, <2>3, <3>1
    <3>3. k = j
      BY <1>3, <1>9, <2>1, <3>2 DEF Found, Discovered
    <3> QED BY <1>9, <2>1, <3>2, <3>3
  <2> QED BY <2>2, <2>3
<1>12. ToSet(es) = near[n]
  <2> DEFINE S == {m \in Nat : \A k \in Nat : k + m <= n => near[k] \subseteq near[k + m]}
  <2>1. 0 \in S
    OBVIOUS
  <2>2. ASSUME NEW m \in Nat, m \in S PROVE m + 1 \in S
    <3> SUFFICES ASSUME NEW k \in Nat, k + (m + 1) <= n
                 PROVE  near[k] \subseteq near[k + (m + 1)]
      OBVIOUS
    <3>1. k + m <= n /\ k + m \in Nat /\ (k + m) + 1 = k + (m + 1)
      BY <1>1
    <3>2. near[k] \subseteq near[k + m]
      BY <2>2, <3>1
    <3>3. near[k + m] \subseteq near[(k + m) + 1]
      BY <1>5, <3>1 DEF Near, n
    <3> QED BY <3>1, <3>2, <3>3, Zenon
  <2>3. \A m \in Nat : m \in S
    <3> HIDE DEF S
    <3> QED BY <2>1, <2>2, SetInduction
  <2>4. ASSUME NEW i \in 1 .. Len(b) PROVE es[i] \in near[n]
    <3>1. ds[i] \in Nat /\ n - ds[i] \in Nat /\ ds[i] + (n - ds[i]) = n
      BY <1>1, <1>9, <1>11
    <3>2. near[ds[i]] \subseteq near[ds[i] + (n - ds[i])]
      <4>1. n - ds[i] \in S /\ ds[i] + (n - ds[i]) <= n
        BY <1>1, <2>3, <3>1
      <4> QED BY <3>1, <4>1
    <3> QED BY <1>11, <3>1, <3>2, Zenon
  <2>5. ASSUME NEW x \in near[n] PROVE x \in ToSet(es)
    <3>1. PICK j \in 1 .. Len(s) : s[j][1] = x
      BY <1>1, <1>6
    <3>2. PICK i \in 1 .. Len(b) : b[i] = s[j]
      BY <1>4 DEF Nearest
    <3> QED BY <1>9, <3>1, <3>2
  <2>6. ASSUME NEW x \in ToSet(es) PROVE x \in near[n]
    <3>1. PICK i \in 1 .. Len(b) : b[i][1] = x
      BY <1>9
    <3> QED BY <1>9, <2>4, <3>1
  <2> QED BY <2>5, <2>6
<1>13. \A i, j \in 1 .. Len(b) : i < j => ds[i] < ds[j] \/ (ds[i] = ds[j] /\ es[i] < es[j])
  <2> TAKE i, j \in 1 .. Len(b)
  <2>1. i < j => b[i][2] < b[j][2] \/ (b[i][2] = b[j][2] /\ b[i][1] < b[j][1])
    BY <1>4 DEF Nearest
  <2>2. es[i] = b[i][1] /\ ds[i] = b[i][2] /\ es[j] = b[j][1] /\ ds[j] = b[j][2]
    BY <1>9
  <2> QED BY <2>1, <2>2, Zenon
<1>14. ASSUME NEW e
       PROVE  (\E r \in rs : e = <<r[1], p, r[2]>>) <=> e \in edges /\ e[2] = p /\ e[1] \in ToSet(es)
  <2>1. ASSUME NEW r \in rs, e = <<r[1], p, r[2]>>
        PROVE  e \in edges /\ e[2] = p /\ e[1] \in ToSet(es)
    <3>1. PICK i \in 1 .. Len(b), o \in Ids :
            <<b[i][1], p, o>> \in edges /\ r = <<b[i][1], o, b[i][2]>>
      BY <1>8
    <3>2. e = <<b[i][1], p, o>>
      BY <2>1, <3>1
    <3> QED BY <1>9, <3>1, <3>2
  <2>2. ASSUME e \in edges, e[2] = p, e[1] \in ToSet(es)
        PROVE  \E r \in rs : e = <<r[1], p, r[2]>>
    <3>1. PICK i \in 1 .. Len(b) : b[i][1] = e[1]
      BY <1>9, <2>2
    <3>2. e = <<b[i][1], p, e[3]>> /\ e[3] \in Ids
      BY <1>1, <2>2, <3>1
    <3> DEFINE r == <<b[i][1], e[3], b[i][2]>>
    <3>3. r \in rs
      BY <1>8, <2>2, <3>2
    <3>4. e = <<r[1], p, r[2]>>
      BY <3>2
    <3> QED BY <3>3, <3>4
  <2> QED BY <2>1, <2>2
<1>15. {<<r[1], p, r[2]>> : r \in rs} = {r \in edges : r[2] = p /\ r[1] \in ToSet(es)}
  <2> DEFINE L == {<<r[1], p, r[2]>> : r \in rs}
             M == {r \in edges : r[2] = p /\ r[1] \in ToSet(es)}
  <2>1. \A e : e \in L <=> \E r \in rs : e = <<r[1], p, r[2]>>
    OBVIOUS
  <2>2. \A e : e \in M <=> e \in edges /\ e[2] = p /\ e[1] \in ToSet(es)
    OBVIOUS
  <2> HIDE DEF L, M
  <2>3. \A e : e \in L <=> e \in M
    BY <1>14, <2>1, <2>2
  <2>4. L = M
    BY <2>3
  <2> QED BY <2>4 DEF L, M
<1>16. \A r \in rs : \E i \in 1 .. Len(b) : es[i] = r[1] /\ ds[i] = r[3]
  <2> TAKE r \in rs
  <2>1. PICK i \in 1 .. Len(b), o \in Ids : r = <<b[i][1], o, b[i][2]>>
    BY <1>8
  <2> QED BY <1>9, <2>1
<1> DEFINE found == path(b, p)
<1>17. /\ found.entities = es /\ found.depths = ds /\ ToSet(found.relations) = rs
       /\ within({p}, es[1]) = near
  BY <1>9 DEF path, es, ds, rs, near
<1> HIDE DEF found
<1>18. Exact(es, ds, rs, near, text, p)
  <2>1. entities[es[1] + 1] = text
    BY <1>1, <1>9
  <2>2. \A i \in DOMAIN es :
          /\ es[i] \in near[ds[i]]
          /\ ds[i] > 0 => es[i] \notin near[ds[i] - 1]
    BY <1>9, <1>11
  <2>3. \A i, j \in DOMAIN es : i < j => ds[i] < ds[j] \/ (ds[i] = ds[j] /\ es[i] < es[j])
    BY <1>9, <1>13, Zenon
  <2>4. \A r \in rs : \E i \in DOMAIN es : es[i] = r[1] /\ ds[i] = r[3]
    BY <1>9, <1>16, Zenon
  <2>5. ToSet(es) = near[Len(entities)]
    BY <1>12 DEF n
  <2> HIDE DEF n
  <2> QED BY <1>10, <1>15, <2>1, <2>2, <2>3, <2>4, <2>5, Zenon DEF Exact
<1>19. IsExact(found, text, p)
  BY <1>17, <1>18, Zenon DEF IsExact
<1> QED BY <1>19, Zenon DEF found, b, s

\* The property, for whatever graph the types allow.
LEMMA Evidence ==
  ASSUME TypeOK PROVE EvidenceIsExact
<1>1. \A text \in Texts, p \in Predicates : \A found \in find_path(text, p) : IsExact(found, text, p)
  <2> TAKE text \in Texts, p \in Predicates
  <2> TAKE found \in find_path(text, p)
  <2>1. PICK anchor \in anchors(text) : found = path(byDepth(bfs(anchor, objects({p}))), p)
    BY Zenon DEF find_path
  <2> QED BY <2>1, AnswerIsExact, Zenon
<1> QED BY <1>1, Zenon DEF EvidenceIsExact, IsExact, Exact

(* For every graph the calls can build: the entities reachable from one    *)
(* are those it is an ancestor of, each once, all later in the             *)
(* topological order.                                                      *)
THEOREM TraversalsExact == Spec => []TraversalsAgree
<1>1. IInv => TraversalsAgree
  BY Traversals DEF IInv
<1> QED BY <1>1, InitIInv, NextIInv, PTL DEF Spec

(* For every graph the calls can build: find_path lists the predicate's    *)
(* subgraph with shortest distances, nearest first, and all its relations. *)
THEOREM EvidenceExact == Spec => []EvidenceIsExact
<1>1. IInv => EvidenceIsExact
  BY Evidence DEF IInv
<1> QED BY <1>1, InitIInv, NextIInv, PTL DEF Spec

================================================================================
