------------------------------ MODULE MCRagEngine ------------------------------
(* A small instance of the RAG engine's trie and of its evidence pipeline.  *)
(* The two share no state, so a behaviour uses one or the other.            *)
(*                                                                          *)
(* The trie: two characters of one and of two bytes, keys of up to three    *)
(* characters, a clamp of three bytes and a reader that refuses the fourth  *)
(* level, so that keys lie on both sides of each bound.  The pipeline:      *)
(* every text of up to three characters over all byte classes (`@' is in    *)
(* none), and longer ones that reach three terms in a sentence, several     *)
(* sentences and sections, repeated terms and both halves of a number.      *)
EXTENDS SymbolicTrie, EvidenceProof

MCWidth == [c \in Chars |-> c]
MCKeys  == {<<>>, <<1>>, <<2>>, <<1, 2>>, <<2, 2>>, <<1, 1, 1>>}

MCLower == [c \in {"A", "a", "b"} |-> IF c = "A" THEN "a" ELSE c]
Alphabet == {"a", "b", "1", ".", ",", "=", " ", "nl", "@"}
Short == UNION {[1 .. n -> Alphabet] : n \in 0 .. 3}
Long ==
  { <<"a", " ", "b", " ", "A">>, <<"a", " ", "b", " ", "1">>,
    <<"a", ".", "b", "nl", "nl", "A", " ", "b">>, <<"1", ".", "1", " ", "a">>,
    <<"1", ".", "1", ".", "1">>, <<"a", " ", "1", "a", " ", "b", " ", "a", ".", "b", "=", "1">>,
    <<"a", "nl", " ", "nl", "b", "1">>, <<"a", "nl", ",", "nl", "b", "1">>,
    <<"nl", "nl", ".", "a", ",", "b", " ", "b", ".", "nl", "nl">> }
MCDocuments == Short \cup Long
MCPrompts == {<<>>, <<"a">>}
MCInputs  == {digest_to_field(<<"a">>), digest_to_field(<<"b">>)}

EngineInit == TrieInit /\ Init

EngineNext == \/ stage = "idle" /\ TrieNext /\ UNCHANGED vars
              \/ pc = "ready" /\ reply = <<"new">> /\ Next /\ UNCHANGED trie

EngineSpec == EngineInit /\ [][EngineNext]_<<trie, vars>>
=============================================================================
