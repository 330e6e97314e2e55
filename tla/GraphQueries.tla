------------------------------ MODULE GraphQueries ------------------------------
(***************************************************************************)
(* What KnowledgeGraph's query methods compute on the graph of the moment. *)
(* All of them return sequences in an order the documentation fixes, since *)
(* the order reaches the prompt of the model; the adjacency maps are       *)
(* ordered maps, so a method that walks one walks it by ascending id.      *)
(***************************************************************************)
EXTENDS KnowledgeGraph, SequencesExt

\* The members of S in an order; ahead[x] is what it puts before x.
inOrder(S, ahead) ==
  [k \in 1 .. Cardinality(S) |-> CHOOSE x \in S : Cardinality(ahead[x]) = k - 1]

lower(S) == [v \in S |-> {w \in S : w < v}]
Ascending(S) == inOrder(S, lower(S))

\* Adjacent entities along the predicates Q, forwards and backwards.
Objects(v, Q)  == {o \in Ids : \E p \in Q : <<v, p, o>> \in edges}
Subjects(v, Q) == {s \in Ids : \E p \in Q : <<s, p, v>> \in edges}

objects(Q)  == [v \in Ids |-> Objects(v, Q)]
subjects(Q) == [v \in Ids |-> Subjects(v, Q)]

firsts(pairs)  == [i \in DOMAIN pairs |-> pairs[i][1]]
seconds(pairs) == [i \in DOMAIN pairs |-> pairs[i][2]]

\* One iteration of a breadth-first search that has `seen' so many vertices,
\* with their depths: the n-th vertex popped is the n-th discovered, and its
\* undiscovered neighbours follow by ascending id.
pop(next, seen, n) ==
  IF n > Len(seen) THEN seen
  ELSE LET found == Ascending(next[seen[n][1]] \ ToSet(firsts(seen)))
       IN  seen \o [i \in DOMAIN found |-> <<found[i], seen[n][2] + 1>>]

bfs(start, next) ==
  LET walk[n \in 0 .. Len(entities)] ==
        IF n = 0 THEN << <<start, 0>> >> ELSE pop(next, walk[n - 1], n)
  IN  walk[Len(entities)]

reachable_from(id) ==
  IF id \notin Ids THEN <<>> ELSE Tail(firsts(bfs(id, objects(Predicates))))

ancestors_of_Forward(id) == reachable_from(id)

ancestors_of(id) ==
  IF id \notin Ids THEN <<>> ELSE Tail(firsts(bfs(id, subjects(Predicates))))

\* sort_by_key on (rank, id).
earlier == [v \in Ids |-> {w \in Ids : \/ topo[w] < topo[v]
                                       \/ topo[w] = topo[v] /\ w < v}]
topological_order == inOrder(Ids, earlier)

\* The relations `found' departs from, as <<subject, object, depth of the
\* subject>>, by subject and object.
departures(found, p) ==
  UNION {{<<found[i][1], o, found[i][2]>> : o \in Objects(found[i][1], {p})} :
           i \in DOMAIN found}

bySubject(D) == [x \in D |-> {y \in D : y[1] < x[1] \/ (y[1] = x[1] /\ y[2] < x[2])}]
evidence(found, p) == inOrder(departures(found, p), bySubject(departures(found, p)))

nearer(F) == [x \in F |-> {y \in F : y[2] < x[2] \/ (y[2] = x[2] /\ y[1] < x[1])}]
byDepth(found) == inOrder(ToSet(found), nearer(ToSet(found)))

\* The entities found, in the order given, and what departs from them.
path(found, p) ==
  [entities |-> firsts(found), depths |-> seconds(found), relations |-> evidence(found, p)]

anchors(text) == {i \in Ids : entities[i + 1] = text}

find_path_DiscoveryOrder(text, p) ==
  {path(bfs(anchor, objects({p})), p) : anchor \in anchors(text)}

\* None (no anchor: the empty set) or Some(path), as a singleton.
find_path(text, p) ==
  {path(byDepth(bfs(anchor, objects({p}))), p) : anchor \in anchors(text)}

----------------------------------------------------------------------------
(* What the methods promise                                                *)

\* within(Q, v)[n]: the entities some path of at most n relations leads to.
within(Q, v) ==
  LET near[n \in 0 .. Len(entities)] ==
        IF n = 0 THEN {v}
        ELSE near[n - 1] \cup UNION {Objects(u, Q) : u \in near[n - 1]}
  IN  near

\* Traversals and the maintained ranks agree on one order, in the middle of a
\* sequence of calls too: the entities reachable from one are exactly those it
\* is an ancestor of, each once and never itself, and all of them come after it
\* in topological_order, "infallible" because the ranks are maintained.
TraversalsAgree ==
  pc = "ready" =>
    LET order == topological_order
        at(v) == CHOOSE i \in DOMAIN order : order[i] = v
        down  == [v \in Ids |-> reachable_from(v)]
        up    == [v \in Ids |-> ancestors_of(v)]
    IN  \A v \in Ids :
          /\ IsInjective(down[v]) /\ v \notin ToSet(down[v])
          /\ \A w \in Ids : /\ w \in ToSet(down[v]) <=> v \in ToSet(up[w])
                            /\ w \in ToSet(down[v]) => at(v) < at(w)

\* find_path returns the exact evidence subgraph (graph.rs: "one deduplicated
\* subgraph"): every entity that predicate edges lead to, once, by depth and
\* then by id, at its shortest distance from the anchor, and exactly the
\* predicate edges among those entities.
EvidenceIsExact ==
  pc = "ready" =>
    \A text \in Texts, p \in Predicates : \A found \in find_path(text, p) :
      LET es == found.entities  ds == found.depths  rs == ToSet(found.relations)
          near == within({p}, es[1])
      IN  /\ entities[es[1] + 1] = text /\ IsInjective(es)
          /\ ToSet(es) = near[Len(entities)]
          /\ \A i \in DOMAIN es :
               /\ es[i] \in near[ds[i]]
               /\ ds[i] > 0 => es[i] \notin near[ds[i] - 1]
          /\ \A i, j \in DOMAIN es :
               i < j => ds[i] < ds[j] \/ (ds[i] = ds[j] /\ es[i] < es[j])
          /\ {<<r[1], p, r[2]>> : r \in rs} = {r \in edges : r[2] = p /\ r[1] \in ToSet(es)}
          /\ \A r \in rs : \E i \in DOMAIN es : es[i] = r[1] /\ ds[i] = r[3]
=============================================================================
