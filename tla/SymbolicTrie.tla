------------------------------ MODULE SymbolicTrie ------------------------------
(***************************************************************************)
(* The RAG engine's SymbolicTrie (trie.rs).  A node is named by the        *)
(* characters on its path, so the tree is a function from a prefix-closed  *)
(* set of paths to the value a path ends on, or NoValue.  insert, lookup   *)
(* and the JSON round trip are one step; the three loops over an explicit  *)
(* stack, collect_values, clone and drop, are taken one iteration per step.*)
(*                                                                         *)
(* Characters are their code points, with the bytes each takes in UTF-8:   *)
(* the clamp of insert counts bytes, the depth of the tree counts          *)
(* characters, and the JSON reader counts nesting levels.                  *)
(***************************************************************************)
EXTENDS Naturals, Sequences, FiniteSets, Functions

CONSTANTS
  Chars, Width,   \* code points and the bytes each is encoded in
  Keys,           \* the keys callers use
  Values, NoValue,
  MaxKeyLen,      \* MAX_KEY_LEN, in bytes
  JsonLevels      \* serde_json's recursion limit

ASSUME TrieAssumption ==
  /\ Chars \subseteq Nat /\ Width \in [Chars -> Nat \ {0}]
  /\ Keys \subseteq Seq(Chars)
  /\ NoValue \notin Values
  /\ MaxKeyLen \in Nat /\ JsonLevels \in Nat \ (0 .. 3)  \* an empty trie reloads

VARIABLES
  tree,    \* path -> value or NoValue
  count,   \* len: the count of complete keys the trie maintains
  pc,      \* "ready", "walk", "post", "build" or "drop"
  stack,   \* the work stack of the running loop, its top last
  out,     \* walk: the values found; clone: the post-order list of nodes
  built,   \* clone: the finished copies, a moved one left empty
  arg,     \* the prefix being matched
  reply    \* what the last call returned

loop == <<stack, out, built, arg>>
trie == <<tree, count, pc, loop, reply>>

Root  == <<>>
Paths == DOMAIN tree
Bytes(key) == SumFunction([i \in DOMAIN key |-> Width[key[i]]])

\* The children of a path in BTreeMap order, and in reverse.
Children(p) == {c \in Chars : Append(p, c) \in Paths}
Rising(p) ==
  LET C == Children(p)
  IN  [i \in 1 .. Cardinality(C) |->
         Append(p, CHOOSE c \in C : Cardinality({d \in C : d < c}) = i - 1)]
Falling(p) == [i \in DOMAIN Rising(p) |-> Rising(p)[Len(Rising(p)) + 1 - i]]

\* A stack entry is a path and the visited flag that clone uses.
Unvisited(paths) == [i \in DOMAIN paths |-> <<paths[i], FALSE>>]
Top == stack[Len(stack)]
Pop == SubSeq(stack, 1, Len(stack) - 1)

new == [p \in {Root} |-> NoValue]

TrieInit ==
  /\ tree = new /\ count = 0
  /\ pc = "ready" /\ stack = <<>> /\ out = <<>> /\ built = <<>> /\ arg = Root
  /\ reply = <<"new">>

\* A call returns r and its locals go out of scope.
return(r) ==
  /\ pc' = "ready" /\ reply' = r
  /\ stack' = <<>> /\ out' = <<>> /\ built' = <<>> /\ arg' = Root

----------------------------------------------------------------------------
lookup(key) == IF key \in Paths THEN tree[key] ELSE NoValue

\* insert(): the clamp comes before any mutation; the walk creates the
\* missing nodes of the path.
insert(key, value) ==
  /\ pc = "ready"
  /\ \/ Bytes(key) > MaxKeyLen /\ UNCHANGED <<tree, count>> /\ return(<<"KeyTooLong", key>>)
     \/ /\ ~(Bytes(key) > MaxKeyLen)
        /\ tree' = [p \in Paths \cup {SubSeq(key, 1, i) : i \in 0 .. Len(key)} |->
                       IF p = key THEN value ELSE lookup(p)]
        /\ count' = IF lookup(key) = NoValue THEN count + 1 ELSE count
        /\ return(<<"inserted", key, lookup(key), count'>>)

find(key) ==
  /\ pc = "ready" /\ UNCHANGED <<tree, count>>
  /\ return(<<"found", key, lookup(key)>>)

----------------------------------------------------------------------------
\* prefix_matches(): descend to the prefix, then collect_values().
prefix_matches(prefix) ==
  /\ pc = "ready" /\ UNCHANGED <<tree, count>>
  /\ \/ /\ prefix \notin Paths
        /\ return(<<"matches", prefix, <<>>>>)
     \/ /\ prefix \in Paths
        /\ pc' = "walk" /\ stack' = Unvisited(<<prefix>>) /\ arg' = prefix
        /\ UNCHANGED <<out, built, reply>>

collect_values_Rising ==
  /\ pc = "walk" /\ UNCHANGED <<tree, count>>
  /\ \/ stack = <<>> /\ return(<<"matches", arg, out>>)
     \/ /\ stack # <<>>
        /\ out' = IF tree[Top[1]] = NoValue THEN out ELSE Append(out, tree[Top[1]])
        /\ stack' = Pop \o Unvisited(Rising(Top[1]))
        /\ UNCHANGED <<pc, built, arg, reply>>

collect_values ==
  /\ pc = "walk" /\ UNCHANGED <<tree, count>>
  /\ \/ stack = <<>> /\ return(<<"matches", arg, out>>)
     \/ /\ stack # <<>>
        /\ out' = IF tree[Top[1]] = NoValue THEN out ELSE Append(out, tree[Top[1]])
        /\ stack' = Pop \o Unvisited(Falling(Top[1]))
        /\ UNCHANGED <<pc, built, arg, reply>>

----------------------------------------------------------------------------
\* clone(), pass 1: the post-order list, each node visited after its children.
clone ==
  /\ pc = "ready" /\ UNCHANGED <<tree, count>>
  /\ pc' = "post" /\ stack' = Unvisited(<<Root>>)
  /\ UNCHANGED <<out, built, arg, reply>>

postOrder ==
  /\ pc = "post" /\ UNCHANGED <<tree, count, built, arg, reply>>
  /\ \/ stack = <<>> /\ pc' = "build" /\ UNCHANGED <<stack, out>>
     \/ /\ stack # <<>> /\ Top[2]
        /\ out' = Append(out, Top[1]) /\ stack' = Pop /\ UNCHANGED pc
     \/ /\ stack # <<>> /\ ~Top[2]
        /\ stack' = Pop \o <<<<Top[1], TRUE>>>> \o Unvisited(Falling(Top[1]))
        /\ UNCHANGED <<pc, out>>

\* Pass 2: copy the next listed node; the finished copies of its children
\* are moved under it, leaving an empty node in their place.  The last copy
\* is the root's.
buildCopy ==
  /\ pc = "build" /\ UNCHANGED <<tree, count>>
  /\ \/ /\ Len(built) = Len(out)
        /\ return(<<"cloned", built[Len(built)], count>>)
     \/ /\ Len(built) < Len(out)
        /\ LET src     == out[Len(built) + 1]
               addr(p) == CHOOSE i \in DOMAIN built : out[i] = p
               kids    == {addr(Append(src, c)) : c \in Children(src)}
               \* paths of the copy, relative to src
               below(c) == {<<c>> \o q : q \in DOMAIN built[addr(Append(src, c))]}
               copy == [q \in {Root} \cup UNION {below(c) : c \in Children(src)} |->
                          IF q = Root THEN tree[src]
                          ELSE built[addr(Append(src, q[1]))][Tail(q)]]
           IN  built' = Append([i \in DOMAIN built |-> IF i \in kids THEN new ELSE built[i]], copy)
        /\ UNCHANGED <<pc, stack, out, arg, reply>>

----------------------------------------------------------------------------
\* drop(): every node is freed with its children already moved to the stack.
drop ==
  /\ pc = "ready"
  /\ pc' = "drop" /\ stack' = Unvisited(Rising(Root))
  /\ UNCHANGED <<tree, count, out, built, arg, reply>>

dismantle ==
  /\ pc = "drop"
  /\ \/ /\ stack = <<>>
        /\ tree' = [tree EXCEPT ![Root] = NoValue] /\ count' = 0
        /\ return(<<"new">>)
     \/ /\ stack # <<>>
        /\ stack' = Pop \o Unvisited(Rising(Top[1]))
        /\ tree' = [p \in Paths \ {Top[1]} |-> tree[p]]
        /\ UNCHANGED <<count, pc, out, built, arg, reply>>

\* The derived Serialize and Deserialize: two nested objects per level of the
\* tree, under the outer object; the reader gives up at its recursion limit.
Nesting(depth) == 2 * depth + 3

reload ==
  /\ pc = "ready" /\ UNCHANGED <<tree, count>>
  /\ return(IF \A p \in Paths : Nesting(Len(p)) < JsonLevels
            THEN <<"reloaded">> ELSE <<"recursion limit">>)

TrieNext ==
  \/ \E key \in Keys : \/ \E value \in Values : insert(key, value)
                       \/ find(key)
                       \/ prefix_matches(key)
  \/ collect_values \/ clone \/ postOrder \/ buildCopy
  \/ drop \/ dismantle \/ reload

TrieSpec == TrieInit /\ [][TrieNext]_trie

----------------------------------------------------------------------------
(* Properties                                                              *)

StoredKeys == {p \in Paths : tree[p] # NoValue}

\* The trie is the map SymbolMap: every reply, the order of prefix_matches
\* and the copy a clone returns included, is the one the map would give.
\* From the start of drop the map is empty.
Spoken(r) ==
  IF r[1] = "cloned"
  THEN <<r[1], [k \in {p \in DOMAIN r[2] : r[2][p] # NoValue} |-> r[2][k]], r[3]>>
  ELSE r

Dict == [k \in IF pc = "drop" THEN {} ELSE StoredKeys |-> tree[k]]
Said == IF pc = "drop" THEN <<"new">> ELSE Spoken(reply)

Map == INSTANCE SymbolMap WITH
  dict <- Dict, reply <- Said,
  Oversize <- {k \in Keys : Bytes(k) > MaxKeyLen},
  TooDeep  <- {k \in Keys : Nesting(Len(k)) >= JsonLevels}

ImplementsMap == Map!Spec
=============================================================================
