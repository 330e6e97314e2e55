------------------------------- MODULE SymbolMap -------------------------------
(***************************************************************************)
(* What the RAG engine's SymbolicTrie promises its callers: a map from     *)
(* keys to values.  An insert overwrites and returns the previous value, an *)
(* over-long key is refused and changes nothing, a lookup is exact,        *)
(* prefix_matches lists the values of the keys with that prefix in         *)
(* lexicographic key order, a clone is the same map, and a persisted map   *)
(* reloads unchanged or is refused because a key is too deep.              *)
(***************************************************************************)
EXTENDS Naturals, Sequences, FiniteSets

CONSTANTS
  Keys,      \* sequences of character codes
  Values,
  NoValue,   \* the answer for an absent key
  Oversize,  \* the keys insert refuses
  TooDeep    \* the keys whose artifact the JSON reader refuses

VARIABLES dict, reply

vars == <<dict, reply>>

Stored   == DOMAIN dict
Empty    == [k \in {} |-> NoValue]
At(k)    == IF k \in Stored THEN dict[k] ELSE NoValue

HasPrefix(p, k) == Len(p) <= Len(k) /\ SubSeq(k, 1, Len(p)) = p

\* k comes before l: at the first difference, or as a proper prefix.
Before(k, l) ==
  \/ HasPrefix(k, l) /\ k # l
  \/ \E i \in 1 .. Len(k) : /\ i <= Len(l) /\ k[i] < l[i]
                            /\ \A j \in 1 .. i - 1 : k[j] = l[j]

\* S in lexicographic order.
InOrder(S) ==
  [i \in 1 .. Cardinality(S) |->
     CHOOSE k \in S : Cardinality({l \in S : Before(l, k)}) = i - 1]

Init == dict = Empty /\ reply = <<"new">>

Insert(k, v) ==
  IF k \in Oversize
  THEN UNCHANGED dict /\ reply' = <<"KeyTooLong", k>>
  ELSE /\ dict' = [l \in Stored \cup {k} |-> IF l = k THEN v ELSE dict[l]]
       /\ reply' = <<"inserted", k, At(k), Cardinality(Stored \cup {k})>>

Lookup(k) == UNCHANGED dict /\ reply' = <<"found", k, At(k)>>

Matches(p) ==
  LET found == InOrder({k \in Stored : HasPrefix(p, k)})
  IN  UNCHANGED dict /\ reply' = <<"matches", p, [i \in DOMAIN found |-> dict[found[i]]]>>

Clone == UNCHANGED dict /\ reply' = <<"cloned", dict, Cardinality(Stored)>>

Reload ==
  UNCHANGED dict /\ reply' = IF Stored \cap TooDeep = {}
                             THEN <<"reloaded">> ELSE <<"recursion limit">>

Drop == dict' = Empty /\ reply' = <<"new">>

Next ==
  \/ \E k \in Keys : \/ \E v \in Values : Insert(k, v)
                     \/ Lookup(k)
                     \/ Matches(k)
  \/ Clone \/ Reload \/ Drop

Spec == Init /\ [][Next]_vars
=============================================================================
