------------------------------ MODULE QueryLedger ------------------------------
(***************************************************************************)
(* What the settlement contract promises its consumers, without tokens,    *)
(* prices, attestations or time: a ledger of commitments that are accepted *)
(* at most once, and of queries that are bound at most once.  VerifiableRAG *)
(* is shown to implement it.                                               *)
(***************************************************************************)
CONSTANTS Queries,      \* query hashes
          Attestations, \* commitments that concern no query
          Settlements,  \* commitments that settle a query
          QueryOf,      \* the query a settlement is for
          BindingOf,    \* what the settlement binds it to
          Unbound       \* a query nobody has verified

VARIABLES accepted,     \* the commitments accepted so far
          binding       \* per query, its binding or Unbound

vars == <<accepted, binding>>

Init == /\ accepted = {}
        /\ binding = [q \in Queries |-> Unbound]

(* A commitment is accepted once. *)
Accept(c) == /\ c \notin accepted
             /\ accepted' = accepted \cup {c}

(* A query is bound for the first time, or again to what it is bound to. *)
Bind(q, b) == /\ binding[q] \in {Unbound, b}
              /\ binding' = [binding EXCEPT ![q] = b]

Attest(c) == Accept(c) /\ UNCHANGED binding

Settle(c) == Accept(c) /\ Bind(QueryOf[c], BindingOf[c])

Next == \/ \E c \in Attestations : Attest(c)
        \/ \E c \in Settlements : Settle(c)

Spec == Init /\ [][Next]_vars
=============================================================================
