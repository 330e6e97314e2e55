---------------------------- MODULE MCKnowledgeGraph ----------------------------
(* A small instance of KnowledgeGraph: graphs of up to MaxEntities entities   *)
(* built by calls, and six payloads: a cycle of three, a cycle reached from a *)
(* chain, a chain with parallel predicates, a tree whose deepest entities are *)
(* discovered out of id order, and two malformed ones.                        *)
EXTENDS GraphQueries, TLC
CONSTANTS a, b, c, d, e, empty, p, q, long

NodesOf(s) == [i \in 1 .. Len(s) |-> [id |-> i - 1, text |-> s[i]]]

MCPayloads ==
  { [nodes |-> NodesOf(<<a, b, c>>), edges |-> {<<0, p, 1>>, <<1, p, 2>>, <<2, p, 0>>}],
    [nodes |-> NodesOf(<<a, b, c>>), edges |-> {<<0, p, 1>>, <<1, p, 2>>, <<2, p, 1>>}],
    [nodes |-> NodesOf(<<c, b, a>>), edges |-> {<<2, p, 1>>, <<2, q, 1>>, <<1, q, 0>>}],
    [nodes |-> NodesOf(<<a, b, c, d, e>>),
     edges |-> {<<0, p, 1>>, <<0, p, 2>>, <<1, p, 4>>, <<2, p, 3>>, <<4, q, 3>>}],
    [nodes |-> NodesOf(<<a, a>>), edges |-> {}],
    [nodes |-> NodesOf(<<a, b>>), edges |-> {<<0, p, 2>>}] }
=============================================================================
