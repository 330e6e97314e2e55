----------------------------- MODULE KnowledgeGraph -----------------------------
(***************************************************************************)
(* The RAG engine's KnowledgeGraph (graph.rs): an append-only graph that   *)
(* add_relation and deserialization must keep acyclic, with a topological  *)
(* rank per entity that lets most insertions skip the cycle search.        *)
(*                                                                         *)
(* The two loops of the code, can_reach's search and rebuild_ranks' Kahn   *)
(* ordering, are taken one iteration per step, so that what they establish *)
(* is an invariant of the model.  Ids are 0-based positions in `entities`; *)
(* `by_text` is the inverse of `entities`; the adjacency maps `out` and    *)
(* `in_`, always written together, are one set of triples.  An in-degree   *)
(* is the set of the predecessors it still counts, and can_reach's FIFO    *)
(* queue is a set, because the answer does not depend on the visit order.  *)
(***************************************************************************)
EXTENDS Integers, Sequences, FiniteSets

CONSTANTS
  Texts, IllegalTexts,            \* entity texts; the empty and over-long ones
  Ingested,                       \* bound: the texts add_entity is called with
  Predicates, IllegalPredicates,  \* predicates; the empty and over-long ones
  Payloads,                       \* serialized graphs a caller may load
  MaxEntities                     \* bound: entities in a graph that calls extend

Node == [id : Nat, text : Texts]

ASSUME ConstantsAssumption ==
  /\ IllegalTexts \subseteq Texts /\ Ingested \subseteq Texts
  /\ IllegalPredicates \subseteq Predicates
  /\ MaxEntities \in Nat
  /\ \A p \in Payloads : /\ p.nodes \in Seq(Node)
                         /\ p.edges \subseteq (Nat \X Predicates \X Nat)

VARIABLES
  entities,  \* texts in first-occurrence order
  edges,     \* relations <<subject, predicate, object>>
  topo,      \* the maintained rank of every entity
  pc,        \* "ready", "search" (can_reach), "rank" or "load" (rebuild_ranks)
  call,      \* the relation being added or refused for closing a cycle
  visited, frontier,              \* can_reach: visited vertices and BFS queue
  cand,                           \* the graph being ranked: entities and edges
  pending, ready, rank, placed,   \* rebuild_ranks' working variables
  result,                         \* what the last call returned
  before                          \* history: the graph as that call left it

graph  == <<entities, edges, topo>>
search == <<visited, frontier>>
kahn   == <<cand, pending, ready, rank, placed>>
vars   == <<graph, pc, call, search, kahn, result, before>>

Ids     == 0 .. Len(entities) - 1
CandIds == 0 .. Len(cand.entities) - 1

\* Adjacent(E, s, o): the adjacency map of E has an entry s -> o.
Adjacent(E, s, o) == \E p \in Predicates : <<s, p, o>> \in E

Succ(v) == {o \in Ids : Adjacent(edges, v, o)}

NoCall == <<0, "none", 0>>
NoCand == [entities |-> <<>>, edges |-> {}]
Nothing == [i \in {} |-> 0]

Init ==
  /\ entities = <<>> /\ edges = {} /\ topo = Nothing
  /\ pc = "ready" /\ call = NoCall /\ result = "ok"
  /\ visited = {} /\ frontier = {}
  /\ cand = NoCand /\ pending = Nothing /\ ready = {} /\ rank = Nothing
  /\ placed = 0
  /\ before = graph

\* A call returns r: its local variables go out of scope.
return(r) ==
  /\ pc' = "ready" /\ result' = r /\ before' = graph'
  /\ visited' = {} /\ frontier' = {}
  /\ cand' = NoCand /\ pending' = Nothing /\ ready' = {} /\ rank' = Nothing
  /\ placed' = 0

----------------------------------------------------------------------------
(* rebuild_ranks(): the initialisation and one iteration of its while loop *)

rankInit(ents, E) ==
  LET V == 0 .. Len(ents) - 1
      preds(o) == {s \in V : Adjacent(E, s, o)}
  IN  /\ cand' = [entities |-> ents, edges |-> E]
      /\ pending' = [o \in V |-> preds(o)]
      /\ ready' = {v \in V : preds(v) = {}}
      /\ rank' = [v \in V |-> 0]
      /\ placed' = 0

rankStep ==
  /\ pc \in {"rank", "load"}
  /\ \E v \in ready :
       /\ \A w \in ready : v <= w
       /\ LET left == [o \in CandIds |-> pending[o] \ {v}]
              freed == {o \in CandIds : v \in pending[o] /\ left[o] = {}}
          IN  /\ pending' = left
              /\ ready' = (ready \ {v}) \cup freed
       /\ rank' = [rank EXCEPT ![v] = placed]
       /\ placed' = placed + 1
  /\ UNCHANGED <<graph, pc, call, search, cand, result, before>>

rankDone_Unchecked ==
  /\ pc \in {"rank", "load"} /\ ready = {}
  /\ entities' = cand.entities /\ edges' = cand.edges
  /\ topo' = rank
  /\ return("ok")
  /\ call' = NoCall

\* The loop is over: every vertex placed installs the ranks, a remainder is
\* CyclicPayload.  A load's graph reaches its caller only on success.
rankDone ==
  /\ pc \in {"rank", "load"} /\ ready = {}
  /\ \/ /\ placed # Len(cand.entities)
        /\ UNCHANGED graph /\ return("CyclicPayload")
     \/ /\ placed = Len(cand.entities)
        /\ entities' = cand.entities /\ edges' = cand.edges
        /\ topo' = rank
        /\ return("ok")
  /\ call' = NoCall

----------------------------------------------------------------------------
(* The calls                                                               *)

add_entity(text) ==
  /\ pc = "ready" /\ call' = NoCall
  /\ \/ /\ text \in IllegalTexts
        /\ UNCHANGED graph /\ return("IllegalEntity")
     \/ /\ text \notin IllegalTexts
        /\ \E i \in Ids : entities[i + 1] = text
        /\ UNCHANGED graph /\ return("ok")
     \/ /\ text \notin IllegalTexts
        /\ \A i \in Ids : entities[i + 1] # text
        /\ Len(entities) < MaxEntities
        /\ entities' = Append(entities, text)
        /\ topo' = [i \in 0 .. Len(entities) |->
                      IF i = Len(entities) THEN 0 ELSE topo[i]]
        /\ UNCHANGED edges /\ return("ok")

\* The checks of add_relation before it consults the ranks, in their order.
relationError(s, p, o) ==
  CASE s \notin Ids \/ o \notin Ids  -> "UnknownEntity"
    [] s = o                         -> "SelfLoop"
    [] p \in IllegalPredicates       -> "IllegalPredicate"
    [] OTHER                         -> "ok"

respectsOrder_OrEqual(s, o) == topo[s] <= topo[o]

\* The Pearce-Kelly fast path's condition.
respectsOrder(s, o) == topo[s] < topo[o]

add_relation(s, p, o) ==
  /\ pc = "ready" /\ Len(entities) <= MaxEntities  \* bound
  /\ \/ /\ relationError(s, p, o) # "ok"
        /\ UNCHANGED graph /\ return(relationError(s, p, o)) /\ call' = NoCall
     \/ /\ relationError(s, p, o) = "ok"
        /\ <<s, p, o>> \in edges
        /\ UNCHANGED graph /\ return("ok") /\ call' = NoCall
     \/ /\ relationError(s, p, o) = "ok"
        /\ <<s, p, o>> \notin edges /\ respectsOrder(s, o)
        /\ edges' = edges \cup {<<s, p, o>>}
        /\ UNCHANGED <<entities, topo>> /\ return("ok") /\ call' = NoCall
     \/ /\ relationError(s, p, o) = "ok"
        /\ <<s, p, o>> \notin edges /\ ~respectsOrder(s, o)
        /\ call' = <<s, p, o>>
        /\ pc' = "search" /\ visited' = {o} /\ frontier' = {o}
        /\ UNCHANGED <<graph, kahn, result, before>>

searchStep_NeverPops ==
  /\ pc = "search"
  /\ \E v \in frontier :
       /\ v # call[1]
       /\ visited' = visited \cup Succ(v)
       /\ frontier' = frontier \cup (Succ(v) \ visited)
  /\ UNCHANGED <<graph, pc, call, kahn, result, before>>

\* One iteration of can_reach(object, subject) on a vertex that is not subject.
searchStep ==
  /\ pc = "search"
  /\ \E v \in frontier :
       /\ v # call[1]
       /\ visited' = visited \cup Succ(v)
       /\ frontier' = (frontier \ {v}) \cup (Succ(v) \ visited)
  /\ UNCHANGED <<graph, pc, call, kahn, result, before>>

searchHit_AnyVertex ==
  /\ pc = "search" /\ frontier # {}
  /\ UNCHANGED <<graph, call>> /\ return("Cycle")

\* can_reach is true: the relation would close a cycle.
searchHit ==
  /\ pc = "search" /\ call[1] \in frontier
  /\ UNCHANGED <<graph, call>> /\ return("Cycle")

\* can_reach is false: insert_edge, then rebuild_ranks on the new graph.
searchMiss ==
  /\ pc = "search" /\ frontier = {}
  /\ edges' = edges \cup {call}
  /\ pc' = "rank"
  /\ rankInit(entities, edges')
  /\ UNCHANGED <<entities, topo, call, search, result, before>>

----------------------------------------------------------------------------
(* Serialization                                                           *)

\* serialize: the entities with their ids, and the relations.
serialize ==
  [nodes |-> [i \in 1 .. Len(entities) |-> [id |-> i - 1, text |-> entities[i]]],
   edges |-> edges]

\* deserialize's checks, all made before the ranks are rebuilt.
WellFormed(nodes, E) ==
  /\ \A i \in 1 .. Len(nodes) : /\ nodes[i].id = i - 1
                                /\ nodes[i].text \notin IllegalTexts
  /\ \A i, j \in 1 .. Len(nodes) : nodes[i].text = nodes[j].text => i = j
  /\ \A r \in E : /\ r[1] < Len(nodes) /\ r[3] < Len(nodes)
                  /\ r[1] # r[3]
                  /\ r[2] \notin IllegalPredicates

deserialize(nodes, E) ==
  /\ pc = "ready" /\ call' = NoCall
  /\ \/ /\ ~WellFormed(nodes, E)
        /\ UNCHANGED graph /\ return("Malformed")
     \/ /\ WellFormed(nodes, E)
        /\ pc' = "load"
        /\ rankInit([i \in 1 .. Len(nodes) |-> nodes[i].text], E)
        /\ UNCHANGED <<graph, search, result, before>>

----------------------------------------------------------------------------
Calls ==
  \/ \E text \in Ingested : add_entity(text)
  \/ \E s, o \in 0 .. Len(entities), p \in Predicates : add_relation(s, p, o)
  \/ \E f \in Payloads \cup {serialize} : deserialize(f.nodes, f.edges)

Internal == searchStep \/ searchHit \/ searchMiss \/ rankStep \/ rankDone

Next == Calls \/ Internal

Spec == Init /\ [][Next]_vars

\* A call runs on its caller's thread until it returns: the loops are never
\* abandoned half way.
FairSpec == Spec /\ WF_vars(Internal)

----------------------------------------------------------------------------
(* Properties                                                              *)

\* The graph: legal texts, relations between two different known entities, and
\* ranks below the number of entities.
GraphType ==
  /\ entities \in Seq(Texts \ IllegalTexts)
  /\ edges \subseteq (Ids \X (Predicates \ IllegalPredicates) \X Ids)
  /\ \A r \in edges : r[1] # r[3]
  /\ topo \in [Ids -> Ids]

\* The working variables of rebuild_ranks, for the graph being ranked.
KahnType ==
  /\ cand.entities \in Seq(Texts \ IllegalTexts)
  /\ cand.edges \subseteq (CandIds \X (Predicates \ IllegalPredicates) \X CandIds)
  /\ \A r \in cand.edges : r[1] # r[3]
  /\ pending \in [CandIds -> SUBSET CandIds]
  /\ ready \subseteq CandIds
  /\ rank \in [CandIds -> Nat]
  /\ placed \in 0 .. Len(cand.entities)

\* Every variable has its type.
TypeOK ==
  /\ GraphType /\ KahnType
  /\ pc \in {"ready", "search", "rank", "load"}
  /\ visited \subseteq Ids /\ frontier \subseteq visited

\* A set of relations is acyclic on the vertices V when every non-empty set of
\* them has a member that no member points to.
AcyclicOn(V, E) ==
  \A S \in SUBSET V : S # {} => \E v \in S : \A s \in S : ~Adjacent(E, s, v)

\* The DAG invariant: whatever calls were made, and in the middle of a call
\* too, the graph has no directed cycle (graph.rs: "enforcing the DAG
\* invariant", add_relation and deserialize together).
Acyclic == AcyclicOn(Ids, edges)

\* The maintained ranks are a valid topological order whenever the graph can
\* be called, which is what makes the fast path of add_relation sound and
\* topological_order infallible: every relation goes to a higher rank.
RanksRespectEdges ==
  pc # "rank" => \A r \in edges : topo[r[1]] < topo[r[3]]

\* add_relation refuses a relation with Cycle only when it really closes one:
\* the search never rejects an edge the graph could have taken.
CycleRejectionsJustified ==
  pc = "ready" /\ result = "Cycle" => ~AcyclicOn(Ids, edges \cup {call})

\* "On any error the graph is left byte-identical to its prior state",
\* although insert_edge precedes a rebuild_ranks that may return an error.
ErrorsLeaveGraph ==
  [][pc' = "ready" /\ result' # "ok" => graph' = before]_vars

\* What serialize writes deserialize accepts, and it gives the same entities
\* and relations back: no graph the program can build is lost by a round trip.
RoundTripAccepted ==
  [][ deserialize(serialize.nodes, serialize.edges)
        => pc' = "load" /\ cand' = [entities |-> entities, edges |-> edges] ]_vars

\* Kahn's loop runs dry before placing everything only on a graph that has a
\* cycle: "Kahn cannot fail here" in add_relation, and a payload refused as
\* CyclicPayload is cyclic.
KahnRejectsOnlyCycles ==
  pc \in {"rank", "load"} /\ ready = {} /\ placed # Len(cand.entities)
    => ~AcyclicOn(CandIds, cand.edges)

\* Every call returns: both loops end on every graph, cyclic payloads included.
CallsReturn == (pc # "ready") ~> (pc = "ready")
=============================================================================
