---------------------------- MODULE RagEngine_proofs ----------------------------
(***************************************************************************)
(* That the RAG engine's graph is its document's and what an answer is     *)
(* worth, for every text over any byte classes, every prompt and every     *)
(* size of the circuit; and that its trie is a map, for every set of keys  *)
(* and values and every bound.                                             *)
(***************************************************************************)
EXTENDS EvidenceProof, SymbolicTrie, SequenceTheorems, FunctionTheorems,
        FiniteSetTheorems, WellFoundedInduction, TLAPS

----------------------------------------------------------------------------
(* Recursion                                                               *)

\* A set of naturals has a least member.
LEMMA Least ==
  ASSUME NEW S \in SUBSET Nat, S # {}
  PROVE  \E m \in S : \A k \in S : m <= k
<1> DEFINE R == {p \in Nat \X Nat : p[1] < p[2]}
<1>1. IsWellFoundedOn(R, Nat)
  <2>1. R = OpToRel(<, Nat)
    BY Zenon DEF OpToRel
  <2> QED BY <2>1, NatLessThanWellFounded, Zenon
<1>2. \A x, y \in Nat : x < y <=> <<x, y>> \in R
  OBVIOUS
<1> HIDE DEF R
<1>3. S \subseteq Nat /\ S # {}
  OBVIOUS
<1>4. PICK m \in S : \A k \in S : <<k, m>> \notin R
  BY <1>1, <1>3, WFMin, Zenon
<1>5. \A k \in S : ~(k < m)
  BY <1>2, <1>3, <1>4
<1> QED BY <1>3, <1>5

\* Induction over the naturals, for a set.
LEMMA SetInduction ==
  ASSUME NEW S, 0 \in S, \A n \in Nat : n \in S => n + 1 \in S
  PROVE  \A n \in Nat : n \in S
<1> DEFINE T == {n \in Nat : n \notin S}
<1>1. SUFFICES ASSUME T # {} PROVE FALSE
  OBVIOUS
<1>2. PICK m \in T : \A k \in T : m <= k
  BY <1>1, Least
<1>3. m \in Nat /\ m \notin S /\ m - 1 \in Nat /\ (m - 1) + 1 = m
  BY <1>2
<1>4. m - 1 \in S
  BY <1>2, <1>3
<1> QED BY <1>3, <1>4

\* A value per index from a to b, the first g, each later one from the one before.
Runs(g, ts, i, b, c) ==
  c = [j \in i .. b |-> IF j = i THEN g ELSE relate(c[j - 1], ts, i, j)]

\* The values of such a run.
LEMMA RunValues ==
  ASSUME NEW g, NEW ts, NEW i \in Nat, NEW b \in Nat, i <= b, NEW c, Runs(g, ts, i, b, c)
  PROVE  /\ c[i] = g
         /\ \A j \in i + 1 .. b : c[j] = relate(c[j - 1], ts, i, j)
<1>1. \A j \in i .. b : c[j] = IF j = i THEN g ELSE relate(c[j - 1], ts, i, j)
  BY Zenon DEF Runs
<1>2. i \in i .. b /\ \A j \in i + 1 .. b : j \in i .. b /\ j # i
  OBVIOUS
<1> QED BY <1>1, <1>2, Zenon

\* The inner loop has a run.
LEMMA RunExists ==
  ASSUME NEW g, NEW ts, NEW i \in Nat, NEW b \in Nat, i <= b
  PROVE  \E c : Runs(g, ts, i, b, c)
<1> DEFINE S == {k \in Nat : \E c : Runs(g, ts, i, i + k, c)}
<1>1. 0 \in S
  <2> DEFINE c == [j \in i .. i |-> g]
  <2>1. \A j \in i .. i : j = i
    OBVIOUS
  <2>2. Runs(g, ts, i, i, c)
    BY <2>1, Zenon DEF Runs
  <2>3. i + 0 = i /\ 0 \in Nat
    OBVIOUS
  <2> HIDE DEF c
  <2> QED BY <2>2, <2>3, Zenon
<1>2. ASSUME NEW k \in Nat, k \in S PROVE k + 1 \in S
  <2>1. PICK c : Runs(g, ts, i, i + k, c)
    BY <1>2
  <2> DEFINE n == i + k
             d == [j \in i .. n + 1 |-> IF j <= n THEN c[j] ELSE relate(c[n], ts, i, n + 1)]
  <2>2. n \in Nat /\ i <= n /\ i + (k + 1) = n + 1 /\ k + 1 \in Nat
    OBVIOUS
  <2>3. /\ c[i] = g
        /\ \A j \in i + 1 .. n : c[j] = relate(c[j - 1], ts, i, j)
    BY <2>1, <2>2, RunValues
  <2> HIDE DEF n
  <2>4. ASSUME NEW j \in i .. n + 1
        PROVE  (IF j <= n THEN c[j] ELSE relate(c[n], ts, i, n + 1))
                 = IF j = i THEN g ELSE relate(d[j - 1], ts, i, j)
    <3>1. CASE j = i
      BY <2>2, <2>3, <3>1
    <3>2. CASE j # i
      <4>1. j - 1 \in i .. n + 1 /\ j - 1 <= n
        BY <2>2, <3>2
      <4>2. d[j - 1] = c[j - 1]
        BY <4>1, Zenon
      <4> HIDE DEF d
      <4>3. CASE j <= n
        <5>1. j \in i + 1 .. n
          BY <2>2, <3>2, <4>3
        <5> QED BY <2>3, <3>2, <4>2, <4>3, <5>1
      <4>4. CASE ~(j <= n)
        <5>1. j = n + 1 /\ j - 1 = n
          BY <2>2, <4>4
        <5>2. relate(d[j - 1], ts, i, j) = relate(c[n], ts, i, n + 1)
          BY <4>2, <5>1, Zenon
        <5> QED BY <3>2, <4>4, <5>2, Zenon
      <4> QED BY <4>3, <4>4
    <3> QED BY <3>1, <3>2
  <2>5. Runs(g, ts, i, n + 1, d)
    BY <2>4, Zenon DEF Runs
  <2> HIDE DEF d
  <2> QED BY <2>2, <2>5, Zenon
<1>3. b - i \in Nat /\ i + (b - i) = b
  OBVIOUS
<1>4. b - i \in S
  <2> HIDE DEF S
  <2> QED BY <1>1, <1>2, <1>3, SetInduction
<1> QED BY <1>3, <1>4, Zenon

----------------------------------------------------------------------------
(* The graph                                                               *)

\* Two texts of a sentence differ.
Differ(ts) == \E m, n \in 1 .. Len(ts) : lowered(ts[m]) # lowered(ts[n])

\* An edge is added only between different texts: equal ones have one node.
LEMMA RelateDiffers ==
  ASSUME NEW g, NEW ts, NEW i, NEW j, relate(g, ts, i, j).edges # g.edges
  PROVE  lowered(ts[i]) # lowered(ts[j])
<1> SUFFICES ASSUME lowered(ts[i]) = lowered(ts[j]) PROVE FALSE
  OBVIOUS
<1> DEFINE ns == ensure_node(g.nodes, ts[j])
           s  == ns[indexOf(ns, ts[i])]
           o  == ns[indexOf(ns, ts[j])]
<1>1. indexOf(ns, ts[i]) = indexOf(ns, ts[j])
  <2> HIDE DEF ns
  <2> QED BY Zenon DEF indexOf
<1>2. s = o
  BY <1>1, Zenon
<1>3. relate(g, ts, i, j).edges = g.edges
  <2> DEFINE x == Append(g.edges, [predicate |-> predicate(ts, i, j),
                        subject |-> s.id, object |-> o.id, start |-> s.start, end |-> s.end])
  <2>1. relate(g, ts, i, j) = [nodes |-> ns, edges |-> IF s = o THEN g.edges ELSE x]
    BY Zenon DEF relate
  <2> HIDE DEF ns, s, o, x
  <2> QED BY <1>2, <2>1
<1> QED BY <1>3

\* The inner loop adds an edge only in a sentence with two texts.
LEMMA ExtendDiffers ==
  ASSUME NEW ts, NEW i \in Nat, Len(ts) \in Nat, 1 <= i, i <= Len(ts),
         extend(ts, i).edges # edges
  PROVE  Differ(ts)
<1> DEFINE g == [nodes |-> ensure_node(nodes, ts[i]), edges |-> edges]
           b == Len(ts)
           met == CHOOSE c : Runs(g, ts, i, b, c)
<1>1. extend(ts, i) = met[b]
  BY Zenon DEF extend, Runs
<1>2. g.edges = edges
  OBVIOUS
<1> HIDE DEF g
<1>3. Runs(g, ts, i, b, met)
  BY RunExists, Zenon
<1> HIDE DEF met
<1>4. met[i] = g /\ \A j \in i + 1 .. b : met[j] = relate(met[j - 1], ts, i, j)
  BY <1>3, RunValues
<1> SUFFICES ASSUME ~Differ(ts) PROVE FALSE
  OBVIOUS
<1> DEFINE S == {k \in Nat : i + k <= b => met[i + k].edges = edges}
<1>5. 0 \in S
  BY <1>2, <1>4
<1>6. ASSUME NEW k \in Nat, k \in S PROVE k + 1 \in S
  <2> SUFFICES ASSUME i + (k + 1) <= b PROVE met[i + (k + 1)].edges = edges
    OBVIOUS
  <2> DEFINE j == i + (k + 1)
  <2>1. j \in i + 1 .. b /\ j - 1 = i + k /\ i + k <= b /\ j \in 1 .. b /\ i \in 1 .. b
    OBVIOUS
  <2>2. met[j - 1].edges = edges
    BY <1>6, <2>1
  <2> HIDE DEF j
  <2>3. met[j] = relate(met[j - 1], ts, i, j)
    BY <1>4, <2>1
  <2>4. lowered(ts[i]) = lowered(ts[j])
    BY <2>1, Zenon DEF Differ
  <2>5. relate(met[j - 1], ts, i, j).edges = met[j - 1].edges
    <3> SUFFICES ASSUME relate(met[j - 1], ts, i, j).edges # met[j - 1].edges PROVE FALSE
      OBVIOUS
    <3>1. lowered(ts[i]) # lowered(ts[j])
      BY RelateDiffers
    <3> QED BY <2>4, <3>1
  <2>6. met[j].edges = edges
    BY <2>2, <2>3, <2>5, Zenon
  <2> QED BY <2>6 DEF j
<1>7. b - i \in Nat /\ i + (b - i) = b
  OBVIOUS
<1>8. b - i \in S
  <2> HIDE DEF S
  <2> QED BY <1>5, <1>6, <1>7, SetInduction
<1>9. met[b].edges = edges
  BY <1>7, <1>8
<1> QED BY <1>1, <1>9, Zenon

\* Without an edge nothing matches.
LEMMA NoEdgeNoMatch ==
  ASSUME edges = <<>>
  PROVE  matches = <<>>
<1> DEFINE Found(c) == c = [n \in 0 .. Len(edges) |->
             IF n = 0 THEN <<>>
             ELSE IF fits(edges[n], <<>>, <<>>, <<>>) THEN Append(c[n - 1], edges[n]) ELSE c[n - 1]]
           found == CHOOSE c : Found(c)
<1>1. matches = found[Len(edges)]
  BY Zenon DEF matches, match_graph
<1>2. Len(edges) = 0 /\ 0 .. 0 = {0}
  OBVIOUS
<1>3. Found([n \in {0} |-> <<>>])
  BY <1>2, Zenon
<1>4. Found(found)
  <2> HIDE DEF Found
  <2> QED BY <1>3, Zenon
<1>5. found[0] = <<>>
  BY <1>2, <1>4, Zenon
<1> QED BY <1>1, <1>2, <1>5, Zenon

----------------------------------------------------------------------------
(* The AST.  T is the set of the document's terms.                         *)

Sentences(T) == Seq(T) \ {<<>>}

\* Closed sentences, and closed sections: blocks whose parts are in Q.
Blocks(Q, ss)   == \E S : ss \in Seq(S) /\ \A b \in S : b.parts \in Q
Sections(T, ss) == \E S : ss \in Seq(S) /\ \A b \in S : Blocks(Sentences(T), b.parts)

\* At first nothing is closed.
LEMMA NothingClosed ==
  ASSUME NEW Q, NEW T
  PROVE  Blocks(Q, <<>>) /\ Sections(T, <<>>)
<1>1. PICK E : E = {}
  OBVIOUS
<1>2. <<>> \in Seq(E) /\ \A b : b \notin E
  BY <1>1
<1> QED BY <1>2, Zenon DEF Blocks, Sections

\* A function on 1 .. n is a sequence.
LEMMA FunctionIsSeq ==
  ASSUME NEW Q, NEW n \in Nat, NEW f \in [1 .. n -> Q]
  PROVE  f \in Seq(Q)
  OBVIOUS

\* A flush closes a sentence.
LEMMA SentenceFlushed ==
  ASSUME NEW T, NEW p \in Seq(T), NEW ss, Blocks(Sentences(T), ss)
  PROVE  Blocks(Sentences(T), flushed(p, ss))
<1>1. CASE p = <<>>
  BY <1>1, Zenon DEF flushed
<1>2. CASE p # <<>>
  <2>1. PICK S : ss \in Seq(S) /\ \A b \in S : b.parts \in Sentences(T)
    BY DEF Blocks
  <2> DEFINE b == block(p)
  <2>2. b.parts \in Sentences(T)
    BY <1>2 DEF block, Sentences
  <2>3. flushed(p, ss) = Append(ss, b)
    BY <1>2, Zenon DEF flushed
  <2> HIDE DEF b
  <2>4. Append(ss, b) \in Seq(S \cup {b})
    BY <2>1
  <2>5. \A x \in S \cup {b} : x.parts \in Sentences(T)
    BY <2>1, <2>2
  <2> QED BY <2>3, <2>4, <2>5, Zenon DEF Blocks
<1> QED BY <1>1, <1>2

\* A flush closes a section.
LEMMA SectionFlushed ==
  ASSUME NEW T, NEW p, Blocks(Sentences(T), p), NEW ss, Sections(T, ss)
  PROVE  Sections(T, flushed(p, ss))
<1>1. CASE p = <<>>
  BY <1>1, Zenon DEF flushed
<1>2. CASE p # <<>>
  <2>1. PICK S : ss \in Seq(S) /\ \A b \in S : Blocks(Sentences(T), b.parts)
    BY DEF Sections
  <2> DEFINE b == block(p)
  <2>2. b.parts = p
    BY DEF block
  <2>3. flushed(p, ss) = Append(ss, b)
    BY <1>2, Zenon DEF flushed
  <2> HIDE DEF b
  <2>4. Append(ss, b) \in Seq(S \cup {b})
    BY <2>1
  <2>5. \A x \in S \cup {b} : Blocks(Sentences(T), x.parts)
    BY <2>1, <2>2, Zenon
  <2> QED BY <2>3, <2>4, <2>5, Zenon DEF Sections
<1> QED BY <1>1, <1>2

\* The sentences of a section.
LEMMA TermsOfSection ==
  ASSUME NEW Q, NEW section, Blocks(Q, section.parts)
  PROVE  terms(section) \in Seq(Q)
<1> DEFINE p == section.parts
<1>1. PICK S : p \in Seq(S) /\ \A b \in S : b.parts \in Q
  BY DEF Blocks
<1>2. terms(section) = [i \in DOMAIN p |-> p[i].parts]
  BY Zenon DEF terms
<1> HIDE DEF p
<1>3. Len(p) \in Nat /\ DOMAIN p = 1 .. Len(p) /\ \A i \in 1 .. Len(p) : p[i] \in S
  BY <1>1
<1>4. [i \in 1 .. Len(p) |-> p[i].parts] \in [1 .. Len(p) -> Q]
  BY <1>1, <1>3, Zenon
<1> QED BY <1>2, <1>3, <1>4, FunctionIsSeq, Zenon

\* The sentences of the first n sections, for each n up to b.
UpTo(doc, b, c) ==
  c = [n \in 0 .. b |-> IF n = 0 THEN <<>> ELSE c[n - 1] \o terms(doc[n])]

\* The values of such a function.
LEMMA UpToValues ==
  ASSUME NEW doc, NEW b \in Nat, NEW c, UpTo(doc, b, c)
  PROVE  c[0] = <<>> /\ \A n \in 1 .. b : c[n] = c[n - 1] \o terms(doc[n])
<1>1. \A n \in 0 .. b : c[n] = IF n = 0 THEN <<>> ELSE c[n - 1] \o terms(doc[n])
  BY Zenon DEF UpTo
<1>2. 0 \in 0 .. b /\ \A n \in 1 .. b : n \in 0 .. b /\ n # 0
  OBVIOUS
<1> QED BY <1>1, <1>2, Zenon

\* There is such a function.
LEMMA UpToExists ==
  ASSUME NEW doc, NEW b \in Nat
  PROVE  \E c : UpTo(doc, b, c)
<1> DEFINE S == {k \in Nat : \E c : UpTo(doc, k, c)}
<1>1. 0 \in S
  <2> DEFINE c == [n \in 0 .. 0 |-> <<>>]
  <2>1. \A n \in 0 .. 0 : n = 0
    OBVIOUS
  <2>2. UpTo(doc, 0, c)
    BY <2>1, Zenon DEF UpTo
  <2> HIDE DEF c
  <2>3. 0 \in Nat
    OBVIOUS
  <2> QED BY <2>2, <2>3, Zenon
<1>2. ASSUME NEW k \in Nat, k \in S PROVE k + 1 \in S
  <2>1. PICK c : UpTo(doc, k, c)
    BY <1>2
  <2>2. c[0] = <<>> /\ \A n \in 1 .. k : c[n] = c[n - 1] \o terms(doc[n])
    BY <2>1, UpToValues
  <2> DEFINE d == [n \in 0 .. k + 1 |-> IF n <= k THEN c[n] ELSE c[k] \o terms(doc[k + 1])]
  <2>3. ASSUME NEW n \in 0 .. k + 1
        PROVE  (IF n <= k THEN c[n] ELSE c[k] \o terms(doc[k + 1]))
                 = IF n = 0 THEN <<>> ELSE d[n - 1] \o terms(doc[n])
    <3>1. CASE n = 0
      BY <2>2, <3>1
    <3>2. CASE n # 0
      <4>1. n - 1 \in 0 .. k + 1 /\ n - 1 <= k
        BY <3>2
      <4>2. d[n - 1] = c[n - 1]
        BY <4>1, Zenon
      <4> HIDE DEF d
      <4>3. CASE n <= k
        <5>1. n \in 1 .. k
          BY <3>2, <4>3
        <5>2. c[n] = d[n - 1] \o terms(doc[n])
          BY <2>2, <4>2, <5>1, Zenon
        <5> QED BY <3>2, <4>3, <5>2, Zenon
      <4>4. CASE ~(n <= k)
        <5>1. n = k + 1 /\ n - 1 = k
          BY <4>4
        <5>2. c[k] \o terms(doc[k + 1]) = d[n - 1] \o terms(doc[n])
          BY <4>2, <5>1, Zenon
        <5> QED BY <3>2, <4>4, <5>2, Zenon
      <4> QED BY <4>3, <4>4
    <3> QED BY <3>1, <3>2
  <2>4. UpTo(doc, k + 1, d)
    BY <2>3, Zenon DEF UpTo
  <2> HIDE DEF d
  <2>5. k + 1 \in Nat
    OBVIOUS
  <2> QED BY <2>4, <2>5, Zenon
<1> HIDE DEF S
<1>3. b \in S
  BY <1>1, <1>2, SetInduction
<1> QED BY <1>3 DEF S

\* The sentences of an AST are sentences of its terms.
LEMMA AllSentencesType ==
  ASSUME NEW T, NEW doc, Sections(T, doc)
  PROVE  allSentences(doc) \in Seq(Sentences(T))
<1> DEFINE b == Len(doc)
           upTo == CHOOSE c : UpTo(doc, b, c)
           S == {k \in Nat : k <= b => upTo[k] \in Seq(Sentences(T))}
<1>1. allSentences(doc) = upTo[b]
  BY Zenon DEF allSentences, UpTo
<1>2. PICK D : doc \in Seq(D) /\ \A x \in D : Blocks(Sentences(T), x.parts)
  BY DEF Sections
<1>3. b \in Nat /\ \A n \in 1 .. b : doc[n] \in D
  BY <1>2
<1> HIDE DEF b
<1>4. UpTo(doc, b, upTo)
  BY <1>3, UpToExists, Zenon
<1> HIDE DEF upTo
<1>5. upTo[0] = <<>> /\ \A n \in 1 .. b : upTo[n] = upTo[n - 1] \o terms(doc[n])
  BY <1>3, <1>4, UpToValues
<1>6. 0 \in S
  <2>1. \A Q : <<>> \in Seq(Q)
    OBVIOUS
  <2>2. upTo[0] \in Seq(Sentences(T))
    BY <1>5, <2>1, Zenon
  <2>3. 0 \in Nat
    OBVIOUS
  <2> QED BY <2>2, <2>3, Zenon
<1>7. ASSUME NEW k \in Nat, k \in S PROVE k + 1 \in S
  <2> SUFFICES ASSUME k + 1 <= b PROVE upTo[k + 1] \in Seq(Sentences(T))
    OBVIOUS
  <2>1. k + 1 \in 1 .. b /\ (k + 1) - 1 = k /\ upTo[k] \in Seq(Sentences(T))
    BY <1>3, <1>7
  <2>2. terms(doc[k + 1]) \in Seq(Sentences(T))
    <3>1. Blocks(Sentences(T), doc[k + 1].parts)
      BY <1>2, <1>3, <2>1, Zenon
    <3> QED BY <3>1, TermsOfSection
  <2>3. upTo[k + 1] = upTo[k] \o terms(doc[k + 1])
    BY <1>5, <2>1
  <2> HIDE DEF S
  <2> QED BY <2>1, <2>2, <2>3
<1>8. b \in S
  <2> HIDE DEF S
  <2> QED BY <1>3, <1>6, <1>7, SetInduction
<1> QED BY <1>1, <1>3, <1>8

----------------------------------------------------------------------------
(* The pipeline                                                            *)

IsSeq(s)   == \E S : s \in Seq(S)

\* Two terms of the document have different texts.
TextsDiffer == \E t, u \in Terms : lowered(t) # lowered(u)

\* Both depend on the document and its tokens alone.
LEMMA TextsKept ==
  ASSUME document' = document, tokens' = tokens
  PROVE  Terms' = Terms /\ TextsDiffer' = TextsDiffer
<1>1. Terms' = Terms
  BY Zenon DEF Terms, IsTerm
<1> QED BY <1>1 DEF TextsDiffer, lowered, Text

\* parse: the blocks it has closed hold terms of the document.
Parsing ==
  /\ folded \in Nat /\ folded <= Len(tokens)
  /\ sentence \in Seq(Terms)
  /\ Blocks(Sentences(Terms), sentences)
  /\ Sections(Terms, sections)

\* from_ast: the sentences left hold terms of the document, and the subject
\* term is one of the first.
Extracting ==
  /\ todo \in Seq(Sentences(Terms)) /\ term \in Nat
  /\ todo # <<>> => term < Len(Head(todo))

\* Nothing is extracted before it is parsed, and an edge takes two texts.
PipelineInv ==
  /\ IsSeq(tokens)
  /\ stage \in {"idle", "tokenize"} =>
       folded = 0 /\ sentence = <<>> /\ sentences = <<>> /\ sections = <<>>
  /\ stage \in {"idle", "tokenize", "parse"} => term = 0 /\ edges = <<>>
  /\ stage = "parse" => Parsing
  /\ stage = "extract" => Extracting
  /\ edges # <<>> => TextsDiffer

\* The pipeline starts empty.
LEMMA PipelineStarts == Init => PipelineInv
<1> SUFFICES ASSUME Init PROVE PipelineInv
  OBVIOUS
<1> USE DEF Init, IndexerInit
<1>1. IsSeq(tokens)
  <2>1. <<>> \in Seq({})
    OBVIOUS
  <2> QED BY <2>1, Zenon DEF IsSeq
<1> QED BY <1>1 DEF PipelineInv

\* A token is appended, or the text is used up and parsing starts.
LEMMA TokenizeKeeps ==
  ASSUME PipelineInv, tokenize
  PROVE  PipelineInv'
<1>1. stage = "tokenize" /\ UNCHANGED <<ast, graph>>
  BY DEF tokenize
<1>2. /\ folded' = 0 /\ sentence' = <<>> /\ sentences' = <<>> /\ sections' = <<>>
      /\ term' = 0 /\ edges' = <<>>
  BY <1>1 DEF PipelineInv, ast, graph
<1>3. /\ stage' \in {"tokenize", "parse", "no tokens", "unclassifiable"}
      /\ tokens' = tokens \/ \E t : tokens' = Append(tokens, t)
  BY <1>1 DEF tokenize
<1>4. IsSeq(tokens')
  <2>1. PICK S : tokens \in Seq(S)
    BY DEF PipelineInv, IsSeq
  <2>2. ASSUME NEW t, tokens' = Append(tokens, t) PROVE tokens' \in Seq(S \cup {t})
    BY <2>1, <2>2
  <2> QED BY <1>3, <2>1, <2>2, Zenon DEF IsSeq
<1>5. Parsing'
  <2>1. PICK S : tokens' \in Seq(S)
    BY <1>4 DEF IsSeq
  <2>2. Len(tokens') \in Nat
    BY <2>1
  <2>3. <<>> \in Seq(Terms')
    OBVIOUS
  <2>4. Blocks(Sentences(Terms'), <<>>) /\ Sections(Terms', <<>>)
    BY NothingClosed, Zenon
  <2>5. folded' \in Nat /\ folded' <= Len(tokens')
    BY <1>2, <2>2
  <2> QED BY <1>2, <2>3, <2>4, <2>5, Zenon DEF Parsing
<1> QED BY <1>2, <1>3, <1>4, <1>5 DEF PipelineInv

\* What a step of parse does to the parts.
LEMMA ParseTokenKeeps ==
  ASSUME PipelineInv, stage = "parse", folded < Len(tokens),
         parseToken(tokens[folded + 1])
  PROVE  /\ sentence' \in Seq(Terms)
         /\ Blocks(Sentences(Terms), sentences')
         /\ Sections(Terms, sections')
<1> DEFINE T == Terms
           t == tokens[folded + 1]
<1>1. /\ folded \in Nat /\ sentence \in Seq(T)
      /\ Blocks(Sentences(T), sentences) /\ Sections(T, sections)
  BY DEF PipelineInv, Parsing
<1>2. IsTerm(t) => t \in T
  <2>1. PICK S : tokens \in Seq(S)
    BY DEF PipelineInv, IsSeq
  <2>2. folded + 1 \in DOMAIN tokens
    BY <1>1, <2>1
  <2>3. t \in ToSet(tokens)
    BY <2>2, Zenon DEF ToSet
  <2> QED BY <2>3, Zenon DEF Terms
<1>3. /\ Blocks(Sentences(T), flushed(sentence, sentences))
      /\ Sections(T, flushed(flushed(sentence, sentences), sections))
  BY <1>1, SentenceFlushed, SectionFlushed
<1>4. <<>> \in Seq(T) /\ Blocks(Sentences(T), <<>>)
  <2>1. <<>> \in Seq(T)
    OBVIOUS
  <2> QED BY <2>1, NothingClosed, Zenon
<1>5. \/ IsTerm(t) /\ sentence' = Append(sentence, t) /\ UNCHANGED <<sentences, sections>>
      \/ /\ sentences' = flushed(sentence, sentences) /\ sentence' = <<>>
         /\ UNCHANGED sections
      \/ UNCHANGED <<sentence, sentences, sections>>
      \/ /\ sections' = flushed(flushed(sentence, sentences), sections)
         /\ sentence' = <<>> /\ sentences' = <<>>
  BY Zenon DEF parseToken
<1> HIDE DEF T, t
<1>6. CASE IsTerm(t) /\ sentence' = Append(sentence, t) /\ UNCHANGED <<sentences, sections>>
  <2>1. sentence' \in Seq(T)
    BY <1>1, <1>2, <1>6
  <2> QED BY <1>1, <1>6, <2>1 DEF T
<1>7. CASE ~(IsTerm(t) /\ sentence' = Append(sentence, t) /\ UNCHANGED <<sentences, sections>>)
  BY <1>1, <1>3, <1>4, <1>5, <1>7, Zenon DEF T
<1> QED BY <1>6, <1>7

\* A token is folded, or the rest is closed and the sentences are handed on.
LEMMA ParseKeeps ==
  ASSUME PipelineInv, parse
  PROVE  PipelineInv'
<1>1. /\ stage = "parse" /\ UNCHANGED <<document, tokens, term, nodes, edges>>
      /\ Parsing /\ IsSeq(tokens) /\ term = 0 /\ edges = <<>>
  BY DEF parse, PipelineInv
<1>2. Terms' = Terms
  BY <1>1, TextsKept
<1>3. CASE folded < Len(tokens) /\ parseToken(tokens[folded + 1]) /\ folded' = folded + 1
           /\ UNCHANGED stage
  <2>1. /\ sentence' \in Seq(Terms)
        /\ Blocks(Sentences(Terms), sentences')
        /\ Sections(Terms, sections')
    BY <1>1, <1>3, ParseTokenKeeps
  <2>2. folded' \in Nat /\ folded' <= Len(tokens')
    <3>1. PICK S : tokens \in Seq(S)
      BY <1>1 DEF IsSeq
    <3>2. Len(tokens) \in Nat /\ folded \in Nat
      BY <1>1, <3>1 DEF Parsing
    <3> QED BY <1>1, <1>3, <3>2
  <2>3. Parsing'
    BY <1>2, <2>1, <2>2, Zenon DEF Parsing
  <2> QED BY <1>1, <1>3, <2>3 DEF PipelineInv, IsSeq
<1>4. CASE /\ sections' = flushed(flushed(sentence, sentences), sections)
           /\ stage' = IF sections' = <<>> THEN "no sentences" ELSE "extract"
           /\ todo' = allSentences(sections')
  <2>1. Sections(Terms, sections')
    <3>1. /\ sentence \in Seq(Terms)
          /\ Blocks(Sentences(Terms), sentences) /\ Sections(Terms, sections)
      BY <1>1 DEF Parsing
    <3> QED BY <1>4, <3>1, SentenceFlushed, SectionFlushed
  <2>2. todo' \in Seq(Sentences(Terms))
    BY <1>4, <2>1, AllSentencesType
  <2>3. todo' # <<>> => term' < Len(Head(todo'))
    BY <1>1, <2>2 DEF Sentences
  <2>4. Extracting'
    BY <1>1, <1>2, <2>2, <2>3 DEF Extracting
  <2>5. stage' \in {"no sentences", "extract"}
    BY <1>4
  <2> QED BY <1>1, <2>4, <2>5 DEF PipelineInv, IsSeq
<1> QED BY <1>3, <1>4 DEF parse

\* A subject term is extracted, or none is left.
LEMMA FromAstKeeps ==
  ASSUME PipelineInv, from_ast
  PROVE  PipelineInv'
<1>1. /\ stage = "extract" /\ UNCHANGED <<document, tokens, ast>>
      /\ Extracting /\ IsSeq(tokens)
  BY DEF from_ast, PipelineInv
<1>2. Terms' = Terms /\ TextsDiffer' = TextsDiffer
  BY <1>1, TextsKept
<1>3. CASE /\ todo # <<>>
           /\ edges' = extend(Head(todo), term + 1).edges
           /\ IF term + 1 < Len(Head(todo))
              THEN term' = term + 1 /\ UNCHANGED todo
              ELSE term' = 0 /\ todo' = Tail(todo)
           /\ UNCHANGED stage
  <2> DEFINE ts == Head(todo)
             Q  == Sentences(Terms)
  <2>1. todo \in Seq(Q) /\ term \in Nat /\ term < Len(ts)
    BY <1>1, <1>3 DEF Extracting
  <2>2. ts \in Q /\ Tail(todo) \in Seq(Q)
    <3> HIDE DEF Q
    <3> QED BY <1>3, <2>1
  <2>3. ts \in Seq(Terms) /\ Len(ts) \in Nat
    BY <2>2 DEF Sentences
  <2>4. Extracting'
    <3>1. CASE term + 1 < Len(ts)
      BY <1>2, <1>3, <2>1, <3>1 DEF Extracting
    <3>2. CASE ~(term + 1 < Len(ts))
      <4>1. term' = 0 /\ todo' = Tail(todo)
        BY <1>3, <3>2
      <4>2. todo' # <<>> => Head(todo') \in Q
        <5> HIDE DEF Q
        <5> QED BY <2>2, <4>1
      <4>3. todo' # <<>> => 0 < Len(Head(todo'))
        BY <4>2 DEF Sentences
      <4> QED BY <1>2, <2>2, <4>1, <4>3 DEF Extracting
    <3> QED BY <3>1, <3>2
  <2>5. edges' # edges => TextsDiffer
    <3> SUFFICES ASSUME edges' # edges PROVE TextsDiffer
      OBVIOUS
    <3> HIDE DEF ts
    <3>1. extend(ts, term + 1).edges # edges
      BY <1>3 DEF ts
    <3>2. Differ(ts)
      BY <2>1, <2>3, <3>1, ExtendDiffers
    <3>3. \A m \in 1 .. Len(ts) : ts[m] \in Terms
      BY <2>3
    <3> QED BY <3>2, <3>3, Zenon DEF Differ, TextsDiffer
  <2>6. edges' # <<>> => TextsDiffer'
    BY <1>2, <2>5 DEF PipelineInv
  <2>7. stage' = "extract"
    BY <1>1, <1>3
  <2> QED BY <1>1, <2>4, <2>6, <2>7 DEF PipelineInv, IsSeq
<1>4. CASE stage' = "graph" /\ UNCHANGED graph
  BY <1>1, <1>2, <1>4 DEF PipelineInv, IsSeq, graph
<1> QED BY <1>3, <1>4 DEF from_ast

----------------------------------------------------------------------------
(* The proofs                                                              *)

CircuitKeys      == [k |-> DEFAULT_K, copies |-> synthesize]
Triple(x) == \E a, b, c : x = <<a, b, c>>

\* One setup serves every proof, proofs are of three inputs, the answer is
\* the proof of this document's commitments, and what was accepted had its
\* inputs for a witness.
ProofInv ==
  /\ setup \in {NoSetup, CircuitKeys}
  /\ \A p \in proofs : Triple(p.witness) /\ Triple(p.public)
  /\ stage = "proved" =>
       /\ setup = CircuitKeys /\ matches # <<>>
       /\ answer = [proof |-> {create_proof(commitments, commitments)}, hashes |-> commitments]
  /\ AcceptedOnlyKnown

EngineInv == PipelineInv /\ ProofInv

\* The setup made is the one every later call finds.
LEMMA SetupKept ==
  ASSUME setup \in {NoSetup, CircuitKeys}
  PROVE  prover_setup = CircuitKeys
<1>1. CircuitKeys.k = DEFAULT_K /\ NoSetup.k = 0 /\ DEFAULT_K # 0
  BY ProofAssumption DEF CircuitKeys, NoSetup
<1>2. CASE setup = CircuitKeys
  <2>1. CircuitKeys # NoSetup
    BY <1>1
  <2> QED BY <1>2, <2>1, Zenon DEF prover_setup
<1>3. CASE setup = NoSetup
  <2>1. generate_params(DEFAULT_K) = {CircuitKeys}
    BY ProofAssumption, Zenon DEF generate_params, CircuitKeys
  <2>2. (CHOOSE keys \in {CircuitKeys} : TRUE) = CircuitKeys
    BY Zenon
  <2> QED BY <1>3, <2>1, <2>2, Zenon DEF prover_setup
<1> QED BY <1>2, <1>3

\* What is proved has three inputs.
LEMMA ProveMakes ==
  ASSUME NEW w, NEW x, Triple(w), Triple(x), NEW p \in prove(w, x)
  PROVE  p = create_proof(w, x) /\ Triple(p.witness) /\ Triple(p.public)
<1>1. p = create_proof(w, x)
  BY Zenon DEF prove
<1>2. p.witness = w /\ p.public = x
  BY <1>1 DEF create_proof
<1> QED BY <1>1, <1>2

\* A proof is accepted for its inputs only, and only if it knows them.
LEMMA AcceptedIsKnown ==
  ASSUME NEW public, NEW p, Triple(p.witness), Triple(p.public),
         verify(CircuitKeys, public, p) = "ok"
  PROVE  p.witness = public
<1>1. /\ p.public = public
      /\ \A c \in synthesize : p.witness[c[1]] = public[c[2]]
  BY DEF verify, CircuitKeys
<1>2. /\ p.witness[1] = public[1] /\ p.witness[2] = public[2] /\ p.witness[3] = public[3]
  BY <1>1 DEF synthesize
<1>3. PICK a, b, c : p.witness = <<a, b, c>>
  BY DEF Triple
<1>4. PICK d, e, f : public = <<d, e, f>>
  BY <1>1 DEF Triple
<1> QED BY <1>2, <1>3, <1>4

\* A proof of its own inputs is accepted.
LEMMA OwnProofAccepted ==
  ASSUME NEW x, Triple(x)
  PROVE  verify(CircuitKeys, x, create_proof(x, x)) = "ok"
<1>1. Len(x) = 3
  BY DEF Triple
<1>2. /\ create_proof(x, x).public = x
      /\ \A c \in CircuitKeys.copies : create_proof(x, x).witness[c[1]] = x[c[2]]
  BY DEF create_proof, CircuitKeys, synthesize
<1> QED BY <1>1, <1>2, Zenon DEF verify

\* At first nothing is proved.
LEMMA ProofStarts == Init => ProofInv
  BY DEF Init, IndexerInit, ProofInv, AcceptedOnlyKnown, NoCheck

\* The wildcard matches depend on the graph alone.
LEMMA MatchesKept ==
  ASSUME UNCHANGED graph
  PROVE  matches' = matches
<1>1. nodes' = nodes /\ edges' = edges
  BY DEF graph
<1> QED BY <1>1, Zenon DEF matches, match_graph, fits

\* A call and the pipeline's steps leave the proofs alone.
LEMMA PipelineProofs ==
  ASSUME ProofInv, UNCHANGED <<setup, proofs, answer, verdict>>, stage' # "proved"
  PROVE  ProofInv'
  BY DEF ProofInv, AcceptedOnlyKnown, CircuitKeys, NoSetup, Triple

\* An answer is the proof of this document's commitments.
LEMMA EvidenceProved ==
  ASSUME EngineInv, proveEvidence
  PROVE  ProofInv'
<1>1. /\ stage = "graph" /\ UNCHANGED <<document, graph, prompt, verdict>>
      /\ setup \in {NoSetup, CircuitKeys}
      /\ \A p \in proofs : Triple(p.witness) /\ Triple(p.public)
      /\ AcceptedOnlyKnown
  BY DEF proveEvidence, EngineInv, ProofInv
<1>2. matches' = matches /\ commitments' = commitments
  <2>1. matches' = matches
    BY <1>1, MatchesKept
  <2> QED BY <1>1, <2>1 DEF commitments, evidence
<1>3. CASE stage' = "no matches" /\ UNCHANGED <<setup, proofs, answer>>
  BY <1>1, <1>3, PipelineProofs DEF EngineInv
<1>4. CASE /\ matches # <<>>
           /\ \E pf \in generate_proof(commitments[1], commitments[2], commitments[3]) :
                /\ proofs' = proofs \cup {pf}
                /\ answer' = [proof |-> {pf}, hashes |-> commitments]
           /\ setup' = prover_setup
           /\ stage' = "proved"
  <2>1. Triple(commitments) /\ commitments = <<commitments[1], commitments[2], commitments[3]>>
    BY DEF Triple, commitments
  <2>2. PICK pf \in prove(commitments, commitments) :
             /\ proofs' = proofs \cup {pf}
             /\ answer' = [proof |-> {pf}, hashes |-> commitments]
    BY <1>4, <2>1, Zenon DEF generate_proof
  <2>3. pf = create_proof(commitments, commitments) /\ Triple(pf.witness) /\ Triple(pf.public)
    BY <2>1, <2>2, ProveMakes
  <2>4. setup' = CircuitKeys
    BY <1>1, <1>4, SetupKept
  <2>5. \A p \in proofs' : Triple(p.witness) /\ Triple(p.public)
    BY <1>1, <2>2, <2>3
  <2>6. answer' = [proof |-> {create_proof(commitments', commitments')}, hashes |-> commitments']
    BY <1>2, <2>2, <2>3, Zenon DEF create_proof
  <2>7. AcceptedOnlyKnown'
    BY <1>1 DEF AcceptedOnlyKnown
  <2>8. setup' \in {NoSetup', CircuitKeys'} /\ setup' = CircuitKeys' /\ matches' # <<>>
    BY <1>2, <1>4, <2>4, Zenon DEF CircuitKeys, synthesize
  <2> QED BY <2>5, <2>6, <2>7, <2>8, Zenon DEF ProofInv, Triple
<1> QED BY <1>3, <1>4 DEF proveEvidence

\* Later calls keep the answer: they find the setup, and add proofs.
LEMMA AnswerKept ==
  ASSUME ProofInv, stage = "proved", UNCHANGED <<indexer, prompt, answer>>,
         setup' = prover_setup
  PROVE  /\ setup' = CircuitKeys
         /\ stage' = "proved" =>
              /\ setup' = CircuitKeys /\ matches' # <<>>
              /\ answer' = [proof |-> {create_proof(commitments, commitments)}, hashes |-> commitments]'
<1>1. /\ setup = CircuitKeys /\ matches # <<>>
      /\ answer = [proof |-> {create_proof(commitments, commitments)}, hashes |-> commitments]
  BY DEF ProofInv
<1>2. setup' = CircuitKeys
  BY <1>1, SetupKept, Zenon
<1>3. UNCHANGED <<document, graph, prompt, answer>>
  BY DEF indexer
<1>4. matches' = matches
  BY <1>3, MatchesKept
<1>5. commitments' = commitments
  BY <1>3, <1>4 DEF commitments, evidence
<1> QED BY <1>1, <1>2, <1>3, <1>4, <1>5, Zenon DEF create_proof

\* What other callers prove has three inputs too.
LEMMA OtherProved ==
  ASSUME ProofInv, NEW w \in Triples, NEW x \in Triples, proveOther(w, x)
  PROVE  ProofInv'
<1>1. /\ stage = "proved" /\ UNCHANGED <<indexer, prompt, answer>> /\ setup' = prover_setup
      /\ proofs' = proofs \cup prove(w, x)
      /\ verdict'.outcome = "asked"
      /\ \A p \in proofs : Triple(p.witness) /\ Triple(p.public)
  BY DEF proveOther, ProofInv, NoCheck
<1>2. Triple(w) /\ Triple(x)
  BY DEF Triples, Triple
<1>3. \A p \in proofs' : Triple(p.witness) /\ Triple(p.public)
  BY <1>1, <1>2, ProveMakes, Zenon
<1>4. AcceptedOnlyKnown'
  BY <1>1 DEF AcceptedOnlyKnown
<1>5. setup' \in {NoSetup', CircuitKeys'}
  BY <1>1, AnswerKept, Zenon DEF CircuitKeys, synthesize
<1> QED BY <1>1, <1>3, <1>4, <1>5, AnswerKept, Zenon DEF ProofInv, Triple, CircuitKeys, synthesize

\* A verification accepts only what was known.
LEMMA VerifiedKnown ==
  ASSUME ProofInv, NEW p \in proofs, NEW public, verify_proof(p, public)
  PROVE  ProofInv'
<1>1. /\ stage = "proved" /\ UNCHANGED <<indexer, prompt, proofs, answer>> /\ setup' = prover_setup
      /\ verdict' = [proof |-> {p}, inputs |-> public, outcome |-> verify(setup', public, p)]
      /\ \A q \in proofs : Triple(q.witness) /\ Triple(q.public)
  BY DEF verify_proof, ProofInv
<1>2. setup' = CircuitKeys
  BY <1>1, AnswerKept
<1>3. verify(CircuitKeys, public, p) = "ok" => p.witness = public
  BY <1>1, AcceptedIsKnown, Zenon
<1>4. AcceptedOnlyKnown'
  <2> DEFINE v == verify(CircuitKeys, public, p)
  <2>1. verdict' = [proof |-> {p}, inputs |-> public, outcome |-> v]
    BY <1>1, <1>2, Zenon
  <2> HIDE DEF v
  <2>2. verdict'.outcome = v /\ verdict'.proof = {p} /\ verdict'.inputs = public
    BY <2>1
  <2> QED BY <1>3, <2>2, Zenon DEF AcceptedOnlyKnown, v
<1>5. setup' \in {NoSetup', CircuitKeys'}
  BY <1>2, Zenon DEF CircuitKeys, synthesize
<1> QED BY <1>1, <1>4, <1>5, AnswerKept, Zenon DEF ProofInv, Triple, CircuitKeys, synthesize

\* Corrupt bytes are not accepted.
LEMMA CorruptedRefused ==
  ASSUME ProofInv, NEW public, corrupted(public)
  PROVE  ProofInv'
<1>1. /\ stage = "proved" /\ UNCHANGED <<indexer, prompt, proofs, answer>> /\ setup' = prover_setup
      /\ verdict'.outcome \in {"InvalidPublicInputs", "malformed"}
      /\ \A q \in proofs : Triple(q.witness) /\ Triple(q.public)
  BY DEF corrupted, ProofInv
<1>2. AcceptedOnlyKnown'
  BY <1>1 DEF AcceptedOnlyKnown
<1>3. setup' \in {NoSetup', CircuitKeys'}
  BY <1>1, AnswerKept, Zenon DEF CircuitKeys, synthesize
<1> QED BY <1>1, <1>2, <1>3, AnswerKept, Zenon DEF ProofInv, Triple, CircuitKeys, synthesize

----------------------------------------------------------------------------
(* The theorem                                                             *)

\* A step of the proofs leaves the pipeline alone, but for its stage.
LEMMA GraphKept ==
  ASSUME PipelineInv, UNCHANGED <<document, tokens, ast, graph>>,
         stage' \in {"no matches", "proved"}
  PROVE  PipelineInv'
<1>1. UNCHANGED <<document, tokens, edges>>
  BY DEF graph
<1>2. Terms' = Terms /\ TextsDiffer' = TextsDiffer
  BY <1>1, TextsKept
<1> QED BY <1>1, <1>2 DEF PipelineInv, IsSeq

\* Nothing moves.
LEMMA EngineStutters ==
  ASSUME EngineInv, UNCHANGED vars
  PROVE  EngineInv'
<1>1. UNCHANGED <<indexer, graph, document, stage, tokens, folded, sentence, sentences,
                  sections, todo, term, edges, prompt, setup, proofs, answer, verdict>>
  BY DEF vars, zkp, indexer, ast, graph
<1>2. Terms' = Terms /\ TextsDiffer' = TextsDiffer
  BY <1>1, TextsKept
<1>3. PipelineInv'
  <2>1. Parsing' = Parsing /\ Extracting' = Extracting
    BY <1>1, <1>2 DEF Parsing, Extracting
  <2> QED BY <1>1, <1>2, <2>1 DEF EngineInv, PipelineInv, IsSeq
<1>4. matches' = matches
  BY <1>1, MatchesKept
<1>5. ProofInv'
  BY <1>1, <1>4 DEF EngineInv, ProofInv, AcceptedOnlyKnown, CircuitKeys, NoSetup, Triple,
                    commitments, evidence
<1> QED BY <1>3, <1>5 DEF EngineInv

\* Every step keeps the invariant.
LEMMA EngineKeeps == EngineInv /\ [Next]_vars => EngineInv'
<1> SUFFICES ASSUME EngineInv, [Next]_vars PROVE EngineInv'
  OBVIOUS
<1>1. PipelineInv /\ ProofInv
  BY DEF EngineInv
<1>2. ASSUME NEW text \in Documents, NEW question \in Prompts, parse_and_prove(text, question)
      PROVE  EngineInv'
  <2>1. /\ stage = "idle" /\ stage' = "tokenize"
        /\ UNCHANGED <<tokens, ast, graph, setup, proofs, answer, verdict>>
    BY <1>2 DEF parse_and_prove, lex
  <2>2. PipelineInv'
    BY <1>1, <2>1 DEF PipelineInv, IsSeq, ast, graph
  <2> QED BY <1>1, <2>1, <2>2, PipelineProofs DEF EngineInv
<1>3. CASE pipelineStep
  <2>1. PipelineInv'
    BY <1>1, <1>3, TokenizeKeeps, ParseKeeps, FromAstKeeps DEF pipelineStep
  <2>2. UNCHANGED <<setup, proofs, answer, verdict>>
    BY <1>3 DEF pipelineStep, zkp
  <2>3. stage' # "proved"
    BY <1>3 DEF pipelineStep, tokenize, parse, from_ast
  <2> QED BY <1>1, <2>1, <2>2, <2>3, PipelineProofs DEF EngineInv
<1>4. CASE proveEvidence
  <2>1. UNCHANGED <<document, tokens, ast, graph>> /\ stage' \in {"no matches", "proved"}
    BY <1>4 DEF proveEvidence
  <2> QED BY <1>1, <1>4, <2>1, GraphKept, EvidenceProved DEF EngineInv
<1>5. ASSUME NEW w \in Triples, NEW x \in Triples, proveOther(w, x)
      PROVE  EngineInv'
  <2>1. UNCHANGED indexer /\ stage = "proved"
    BY <1>5 DEF proveOther
  <2>2. UNCHANGED <<document, tokens, ast, graph>> /\ stage' \in {"no matches", "proved"}
    BY <2>1 DEF indexer
  <2> QED BY <1>1, <1>5, <2>2, GraphKept, OtherProved DEF EngineInv
<1>6. ASSUME NEW p \in proofs, NEW public, verify_proof(p, public)
      PROVE  EngineInv'
  <2>1. UNCHANGED indexer /\ stage = "proved"
    BY <1>6 DEF verify_proof
  <2>2. UNCHANGED <<document, tokens, ast, graph>> /\ stage' \in {"no matches", "proved"}
    BY <2>1 DEF indexer
  <2> QED BY <1>1, <1>6, <2>2, GraphKept, VerifiedKnown DEF EngineInv
<1>7. ASSUME NEW public, corrupted(public)
      PROVE  EngineInv'
  <2>1. UNCHANGED indexer /\ stage = "proved"
    BY <1>7 DEF corrupted
  <2>2. UNCHANGED <<document, tokens, ast, graph>> /\ stage' \in {"no matches", "proved"}
    BY <2>1 DEF indexer
  <2> QED BY <1>1, <1>7, <2>2, GraphKept, CorruptedRefused DEF EngineInv
<1>8. CASE UNCHANGED vars
  BY <1>8, EngineStutters
<1> QED BY <1>2, <1>3, <1>4, <1>5, <1>6, <1>7, <1>8, Zenon DEF Next

\* The answer's proof is accepted under the kept setup, and its document had
\* two texts to relate.
LEMMA EngineSound == EngineInv => AnswersVerify
<1> SUFFICES ASSUME EngineInv PROVE AnswersVerify
  OBVIOUS
<1>1. ASSUME stage = "proved" PROVE AnswersAreCommitments
  <2>1. /\ setup = CircuitKeys /\ matches # <<>>
        /\ answer = [proof |-> {create_proof(commitments, commitments)}, hashes |-> commitments]
    BY <1>1 DEF EngineInv, ProofInv
  <2>2. /\ answer.proof = {create_proof(commitments, commitments)}
        /\ answer.hashes = commitments
    BY <2>1
  <2>3. Triple(commitments)
    BY DEF Triple, commitments
  <2>4. \A pf \in answer.proof : verify(setup, answer.hashes, pf) = "ok"
    BY <2>1, <2>2, <2>3, OwnProofAccepted, Zenon
  <2>5. /\ answer.hashes[1] = digest_to_field(document)
        /\ answer.hashes[2] = digest_to_field(prompt)
        /\ answer.hashes[3] = digest_to_field(evidence)
    BY <2>2 DEF commitments
  <2>6. answer.hashes[3].sha256 # <<"json", <<>>>>
    BY <2>1, <2>5 DEF digest_to_field, evidence
  <2>7. TextsDiffer
    BY <2>1, NoEdgeNoMatch DEF EngineInv, PipelineInv
  <2> QED BY <2>2, <2>4, <2>5, <2>6, <2>7, Zenon DEF AnswersAreCommitments, TextsDiffer, Terms
<1>2. AnswersAreCommitments
  BY <1>1 DEF AnswersAreCommitments
<1> QED BY <1>2 DEF EngineInv, ProofInv, AnswersVerify

\* For every text over any byte classes, every prompt and every size of the
\* circuit: what parse_and_prove returns verifies under the process's key and
\* binds the submitted document, the submitted prompt and an evidence that
\* relates two different terms of the document; and a proof is accepted only
\* if whoever made it held the three values it is accepted for.
THEOREM AnswersBind == Spec => []AnswersVerify
<1>1. Init => EngineInv
  BY PipelineStarts, ProofStarts DEF EngineInv
<1> QED BY <1>1, EngineKeeps, EngineSound, PTL DEF Spec

----------------------------------------------------------------------------
(* The tokens                                                              *)

\* The run of characters of S from offset i ends where a character outside S
\* or the text's end is.
LEMMA RunEnd ==
  ASSUME NEW S, NEW i \in Nat, Size \in Nat, i <= Size
  PROVE  /\ runEnd(S, i) \in i .. Size
         /\ \A j \in i .. runEnd(S, i) - 1 : Char(j) \in S
         /\ runEnd(S, i) = Size \/ Char(runEnd(S, i)) \notin S
<1> DEFINE Stops == {e \in i .. Size : e = Size \/ Char(e) \notin S}
           RunTo(e) == /\ \A j \in i .. e - 1 : Char(j) \in S
                       /\ e = Size \/ Char(e) \notin S
<1>1. Stops \in SUBSET Nat /\ Size \in Stops
  OBVIOUS
<1>2. PICK e \in Stops : \A k \in Stops : e <= k
  <2> HIDE DEF Stops
  <2>1. Stops # {}
    BY <1>1, Zenon
  <2> QED BY <1>1, <2>1, Least
<1>3. e \in i .. Size /\ RunTo(e)
  <2>1. e \in i .. Size /\ (e = Size \/ Char(e) \notin S)
    BY <1>2
  <2>2. ASSUME NEW j \in i .. e - 1, Char(j) \notin S PROVE FALSE
    <3>1. j \in Stops /\ ~(e <= j)
      BY <2>1, <2>2
    <3> HIDE DEF Stops
    <3> QED BY <1>2, <3>1, Zenon
  <2> QED BY <2>1, <2>2, Zenon
<1>4. runEnd(S, i) = CHOOSE x \in i .. Size : RunTo(x)
  BY Zenon DEF runEnd
<1> HIDE DEF RunTo
<1>5. runEnd(S, i) \in i .. Size /\ RunTo(runEnd(S, i))
  BY <1>3, <1>4, Zenon
<1> QED BY <1>5 DEF RunTo

\* The characters of S from start to end are the digits of a number, but one.
Digital(i, e) ==
  /\ i < e /\ e <= Size /\ Char(i) \in Digits /\ Char(e - 1) \in Digits
  /\ \E x : \A k \in i .. e - 1 : Char(k) \notin Digits => k = x
  /\ e = Size \/ Char(e) \notin Digits

\* The end of a number.
LEMMA NumberEnd ==
  ASSUME NEW i \in Nat, Size \in Nat, i < Size, Char(i) \in Digits
  PROVE  numberEnd(i) \in Nat /\ Digital(i, numberEnd(i))
<1> DEFINE e == runEnd(Digits, i)
           f == runEnd(Digits, e + 1)
<1>1. /\ e \in i .. Size /\ \A j \in i .. e - 1 : Char(j) \in Digits
      /\ e = Size \/ Char(e) \notin Digits
  BY RunEnd
<1>2. numberEnd(i) = IF e + 1 < Size /\ Char(e) = Point /\ Char(e + 1) \in Digits THEN f ELSE e
  BY Zenon DEF numberEnd
<1>3. i < e
  BY <1>1
<1>4. CASE e + 1 < Size /\ Char(e) = Point /\ Char(e + 1) \in Digits
  <2>1. e + 1 \in Nat /\ e + 1 <= Size
    BY <1>1, <1>4
  <2>2. /\ f \in e + 1 .. Size /\ \A j \in e + 1 .. f - 1 : Char(j) \in Digits
        /\ f = Size \/ Char(f) \notin Digits
    BY <2>1, RunEnd
  <2> HIDE DEF e, f
  <2>3. e + 1 < f
    BY <1>1, <1>4, <2>2
  <2>4. \A k \in i .. f - 1 : Char(k) \notin Digits => k = e
    BY <1>1, <2>2
  <2>5. f - 1 \in e + 1 .. f - 1
    BY <1>1, <2>2, <2>3
  <2>6. Char(f - 1) \in Digits
    BY <2>2, <2>5, Zenon
  <2>7. Digital(i, f)
    BY <1>1, <1>3, <2>2, <2>3, <2>4, <2>6 DEF Digital
  <2> QED BY <1>1, <1>2, <1>4, <2>2, <2>7
<1>5. CASE ~(e + 1 < Size /\ Char(e) = Point /\ Char(e + 1) \in Digits)
  <2> HIDE DEF e
  <2>1. e - 1 \in i .. e - 1
    BY <1>1, <1>3
  <2>2. Char(e - 1) \in Digits
    BY <1>1, <2>1, Zenon
  <2>3. Digital(i, e)
    BY <1>1, <1>3, <2>2 DEF Digital
  <2>4. e \in Nat
    BY <1>1
  <2> QED BY <1>2, <1>5, <2>3, <2>4, Zenon
<1> QED BY <1>4, <1>5

\* A token of one class that could not have been longer.
Whole(t) ==
  /\ t.start \in Nat /\ t.end \in Nat /\ t.start < t.end /\ t.end <= Size
  /\ t.kind = "word" => /\ \A i \in t.start .. t.end - 1 : Char(i) \in Letters \cup Digits
                        /\ t.end = Size \/ Char(t.end) \notin Letters \cup Digits
  /\ t.kind = "number" => Digital(t.start, t.end)
  /\ t.kind = "whitespace" => /\ \A i \in t.start .. t.end - 1 : Char(i) \in Blanks
                              /\ t.end = Size \/ Char(t.end) \notin Blanks
  /\ t.kind \in {"punctuation", "symbol"} => t.end = t.start + 1

\* What is classified is such a token, from the offset on.
LEMMA ClassifiedWhole ==
  ASSUME Size \in Nat, Offset \in Nat, Offset < Size,
         NEW t \in classify(Char(Offset), Offset)
  PROVE  t.start = Offset /\ Whole(t)
<1> DEFINE i == Offset
           c == Char(i)
<1>1. \/ c \in Letters /\ t = token("word", runEnd(Letters \cup Digits, i))
      \/ c \in Digits /\ t = token("number", numberEnd(i))
      \/ c \in Blanks /\ t = token("whitespace", runEnd(Blanks, i))
      \/ t = token("punctuation", i + 1)
      \/ t = token("symbol", i + 1)
  BY Zenon DEF classify
<1>2. \A k, e : LET u == token(k, e) IN u.kind = k /\ u.start = i /\ u.end = e
  BY DEF token
<1> HIDE DEF i
<1>3. ASSUME NEW S, c \in S
      PROVE  LET e == runEnd(S, i)
             IN  /\ e \in Nat /\ i < e /\ e <= Size
                 /\ \A j \in i .. e - 1 : Char(j) \in S
                 /\ e = Size \/ Char(e) \notin S
  <2> DEFINE e == runEnd(S, i)
  <2>1. /\ e \in i .. Size /\ \A j \in i .. e - 1 : Char(j) \in S
        /\ e = Size \/ Char(e) \notin S
    BY RunEnd DEF i
  <2> HIDE DEF e
  <2>2. i \in Nat /\ i < Size
    BY DEF i
  <2> QED BY <1>3, <2>1, <2>2 DEF e
<1>4. CASE c \in Letters /\ t = token("word", runEnd(Letters \cup Digits, i))
  <2> DEFINE S == Letters \cup Digits
             e == runEnd(S, i)
  <2>1. c \in S
    BY <1>4
  <2> HIDE DEF S, c
  <2>2. /\ e \in Nat /\ i < e /\ e <= Size
        /\ \A j \in i .. e - 1 : Char(j) \in S
        /\ e = Size \/ Char(e) \notin S
    BY <1>3, <2>1, Zenon
  <2>3. t.kind = "word" /\ t.start = i /\ t.end = e
    BY <1>2, <1>4, Zenon DEF S
  <2> HIDE DEF e
  <2> QED BY <2>2, <2>3 DEF Whole, S, i
<1>5. CASE c \in Digits /\ t = token("number", numberEnd(i))
  <2>1. numberEnd(i) \in Nat /\ Digital(i, numberEnd(i))
    BY <1>5, NumberEnd DEF i
  <2>2. t.kind = "number" /\ t.start = i /\ t.end = numberEnd(i)
    BY <1>2, <1>5, Zenon
  <2>3. i < numberEnd(i) /\ numberEnd(i) <= Size
    BY <2>1 DEF Digital
  <2> QED BY <2>1, <2>2, <2>3 DEF Whole, i
<1>6. CASE c \in Blanks /\ t = token("whitespace", runEnd(Blanks, i))
  <2> DEFINE e == runEnd(Blanks, i)
  <2>1. /\ e \in Nat /\ i < e /\ e <= Size
        /\ \A j \in i .. e - 1 : Char(j) \in Blanks
        /\ e = Size \/ Char(e) \notin Blanks
    BY <1>3, <1>6, Zenon
  <2>2. t.kind = "whitespace" /\ t.start = i /\ t.end = e
    BY <1>2, <1>6, Zenon
  <2> HIDE DEF e
  <2> QED BY <2>1, <2>2 DEF Whole, i
<1>7. ASSUME NEW k \in {"punctuation", "symbol"}, t = token(k, i + 1)
      PROVE  t.start = Offset /\ Whole(t)
  <2>1. t.kind = k /\ t.start = i /\ t.end = i + 1
    BY <1>2, <1>7, Zenon
  <2> QED BY <2>1 DEF Whole, i
<1> QED BY <1>1, <1>4, <1>5, <1>6, <1>7

\* The tokens are whole and lie end to end from offset 0; parsing starts when
\* they reach the end of the text.
TilesInv ==
  /\ IsSeq(document) /\ IsSeq(tokens)
  /\ stage = "idle" => tokens = <<>>
  /\ \A n \in 1 .. Len(tokens) :
       /\ Whole(tokens[n])
       /\ tokens[n].start = IF n = 1 THEN 0 ELSE tokens[n - 1].end
  /\ stage = "parse" => Offset = Size

\* A token more.
LEMMA TokenTiles ==
  ASSUME TilesInv, tokenize
  PROVE  TilesInv'
<1>1. /\ stage = "tokenize" /\ document' = document /\ IsSeq(document)
      /\ stage' \in {"tokenize", "parse", "no tokens", "unclassifiable"}
  BY DEF tokenize, TilesInv
<1>2. PICK S : tokens \in Seq(S)
  BY DEF TilesInv, IsSeq
<1>3. PICK C : document \in Seq(C)
  BY <1>1 DEF IsSeq
<1>4. Size \in Nat
  BY <1>3 DEF Size
<1>5. Offset = IF Len(tokens) = 0 THEN 0 ELSE tokens[Len(tokens)].end
  BY <1>2 DEF Offset, Last
<1>6. Offset \in Nat /\ Offset <= Size
  <2>1. Len(tokens) # 0 => Whole(tokens[Len(tokens)])
    BY <1>2 DEF TilesInv
  <2> QED BY <1>4, <1>5, <2>1 DEF Whole
<1>7. \A t : Whole(t)' = Whole(t)
  BY <1>1, Zenon DEF Whole, Digital, Size, Char
<1>8. CASE tokens' = tokens
  <2>1. stage' = "parse" => Offset' = Size'
    BY <1>1, <1>8 DEF tokenize, Offset, Size
  <2> QED BY <1>1, <1>7, <1>8, <2>1 DEF TilesInv, IsSeq
<1>9. CASE Offset < Size /\ \E t \in classify(Char(Offset), Offset) :
             tokens' = Append(tokens, t) /\ UNCHANGED stage
  <2>1. PICK t \in classify(Char(Offset), Offset) : tokens' = Append(tokens, t) /\ UNCHANGED stage
    BY <1>9
  <2>2. t.start = Offset /\ Whole(t)
    BY <1>4, <1>6, <1>9, ClassifiedWhole
  <2>3. tokens' \in Seq(S \cup {t})
    BY <1>2, <2>1
  <2>4. /\ Len(tokens') = Len(tokens) + 1 /\ Len(tokens) \in Nat
        /\ \A n \in 1 .. Len(tokens) : tokens'[n] = tokens[n]
        /\ tokens'[Len(tokens) + 1] = t
    BY <1>2, <2>1
  <2>5. ASSUME NEW n \in 1 .. Len(tokens')
        PROVE  (/\ Whole(tokens[n])
                /\ tokens[n].start = IF n = 1 THEN 0 ELSE tokens[n - 1].end)'
    <3>1. CASE n \in 1 .. Len(tokens)
      <4>1. Whole(tokens[n]) /\ tokens[n].start = IF n = 1 THEN 0 ELSE tokens[n - 1].end
        BY <3>1 DEF TilesInv
      <4>2. n # 1 => n - 1 \in 1 .. Len(tokens)
        BY <2>4, <3>1
      <4>3. Whole(tokens'[n])
        BY <2>4, <3>1, <4>1, Zenon
      <4> QED BY <1>7, <2>4, <3>1, <4>1, <4>2, <4>3, Zenon
    <3>2. CASE n = Len(tokens) + 1
      <4>1. tokens'[n] = t /\ Whole(tokens'[n])
        BY <2>2, <2>4, <3>2
      <4>2. t.start = IF n = 1 THEN 0 ELSE tokens'[n - 1].end
        BY <1>5, <2>2, <2>4, <3>2
      <4> QED BY <1>7, <4>1, <4>2, Zenon
    <3> QED BY <2>4, <3>1, <3>2
  <2>6. stage' = "tokenize"
    BY <1>1, <2>1
  <2> QED BY <1>1, <2>3, <2>5, <2>6, Zenon DEF TilesInv, IsSeq
<1> QED BY <1>1, <1>8, <1>9 DEF tokenize

\* Nothing else touches the tokens.
LEMMA TilesKept ==
  ASSUME TilesInv, document' = document, tokens' = tokens,
         stage' \in {"idle", "parse"} => stage' = stage
  PROVE  TilesInv'
<1>1. \A t : Whole(t)' = Whole(t)
  BY Zenon DEF Whole, Digital, Size, Char
<1>2. Offset' = Offset /\ Size' = Size
  BY DEF Offset, Size
<1> QED BY <1>1, <1>2 DEF TilesInv, IsSeq

\* Every step keeps the tiling.
LEMMA TilesKeep == TilesInv /\ [Next]_vars => TilesInv'
<1> SUFFICES ASSUME TilesInv, [Next]_vars PROVE TilesInv'
  OBVIOUS
<1>1. ASSUME NEW text \in Documents, NEW question \in Prompts, parse_and_prove(text, question)
      PROVE  TilesInv'
  <2>1. stage = "idle" /\ stage' = "tokenize" /\ document' = text /\ tokens' = <<>> /\ tokens = <<>>
    BY <1>1 DEF parse_and_prove, lex, TilesInv
  <2>2. IsSeq(document')
    BY <2>1, IndexerAssumption, Zenon DEF IsSeq
  <2>3. IsSeq(tokens') /\ Len(tokens') = 0
    BY <2>1 DEF TilesInv, IsSeq
  <2> QED BY <2>1, <2>2, <2>3 DEF TilesInv
<1>2. CASE tokenize
  BY <1>2, TokenTiles
<1>3. CASE parse \/ from_ast \/ proveEvidence
  <2>1. document' = document /\ tokens' = tokens /\ (stage' \in {"idle", "parse"} => stage' = stage)
    BY <1>3 DEF parse, from_ast, proveEvidence
  <2> QED BY <2>1, TilesKept
<1>4. CASE UNCHANGED indexer
  BY <1>4, TilesKept DEF indexer
<1>5. ASSUME NEW w, NEW x, proveOther(w, x) PROVE UNCHANGED indexer
  BY <1>5, Zenon DEF proveOther
<1>6. ASSUME NEW p, NEW public, verify_proof(p, public) \/ corrupted(public)
      PROVE  UNCHANGED indexer
  BY <1>6, Zenon DEF verify_proof, corrupted
<1>7. UNCHANGED vars => UNCHANGED indexer
  BY DEF vars
<1> QED BY <1>1, <1>2, <1>3, <1>4, <1>5, <1>6, <1>7, Zenon DEF Next, pipelineStep

\* A tiling is what tokenize promises.
LEMMA TilesDocument == TilesInv => TokensTileDocument
<1> SUFFICES ASSUME TilesInv PROVE TokensTileDocument
  OBVIOUS
<1>1. PICK S : tokens \in Seq(S)
  BY DEF TilesInv, IsSeq
<1>2. Len(tokens) \in Nat /\ DOMAIN tokens = 1 .. Len(tokens)
  BY <1>1
<1>3. ASSUME NEW i, NEW e, Digital(i, e)
      PROVE  Cardinality({k \in i .. e - 1 : Char(k) \notin Digits}) <= 1
  <2> DEFINE K == {k \in i .. e - 1 : Char(k) \notin Digits}
  <2>1. PICK x : \A k \in i .. e - 1 : Char(k) \notin Digits => k = x
    BY <1>3 DEF Digital
  <2>2. K = {} \/ K = {x}
    BY <2>1
  <2> HIDE DEF K
  <2>3. Cardinality({}) = 0 /\ Cardinality({x}) = 1
    BY FS_EmptySet, FS_Singleton
  <2>4. Cardinality(K) <= 1
    BY <2>2, <2>3
  <2> QED BY <2>4 DEF K
<1>4. ASSUME NEW n \in DOMAIN tokens
      PROVE  LET t == tokens[n]
             IN  /\ t.start = (IF n = 1 THEN 0 ELSE tokens[n - 1].end)
                 /\ t.start < t.end /\ t.end <= Size
                 /\ t.kind = "word" => \A i \in t.start .. t.end - 1 : Char(i) \in Letters \cup Digits
                 /\ t.kind = "number" =>
                      /\ {Char(t.start), Char(t.end - 1)} \subseteq Digits
                      /\ Cardinality({i \in t.start .. t.end - 1 : Char(i) \notin Digits}) <= 1
                 /\ t.kind = "whitespace" => \A i \in t.start .. t.end - 1 : Char(i) \in Blanks
  <2> DEFINE t == tokens[n]
  <2>1. Whole(t) /\ t.start = IF n = 1 THEN 0 ELSE tokens[n - 1].end
    BY <1>2 DEF TilesInv
  <2>2. t.kind = "number" =>
          /\ {Char(t.start), Char(t.end - 1)} \subseteq Digits
          /\ Cardinality({i \in t.start .. t.end - 1 : Char(i) \notin Digits}) <= 1
    <3> SUFFICES ASSUME t.kind = "number"
        PROVE  /\ {Char(t.start), Char(t.end - 1)} \subseteq Digits
               /\ Cardinality({i \in t.start .. t.end - 1 : Char(i) \notin Digits}) <= 1
      OBVIOUS
    <3>1. Digital(t.start, t.end)
      BY <2>1 DEF Whole
    <3>2. {Char(t.start), Char(t.end - 1)} \subseteq Digits
      BY <3>1 DEF Digital
    <3> QED BY <1>3, <3>1, <3>2, Zenon
  <2> QED BY <2>1, <2>2, Zenon DEF Whole
<1>5. ASSUME NEW n \in 1 .. Len(tokens) - 1
      PROVE  LET c == Char(tokens[n].end)
             IN  CASE tokens[n].kind = "word"       -> c \notin Letters \cup Digits
                   [] tokens[n].kind = "number"     -> c \notin Digits
                   [] tokens[n].kind = "whitespace" -> c \notin Blanks
                   [] OTHER                         -> TRUE
  <2>1. n \in 1 .. Len(tokens) /\ n + 1 \in 1 .. Len(tokens) /\ n + 1 # 1 /\ (n + 1) - 1 = n
    BY <1>2
  <2>2. Whole(tokens[n]) /\ Whole(tokens[n + 1]) /\ tokens[n + 1].start = tokens[n].end
    BY <2>1 DEF TilesInv
  <2> DEFINE t == tokens[n]
             u == tokens[n + 1]
  <2> HIDE DEF t, u
  <2>3. t.end < Size
    <3>1. u.start < u.end /\ u.end <= Size /\ u.start \in Nat /\ u.end \in Nat /\ u.start = t.end
      BY <2>2, Zenon DEF Whole, t, u
    <3>2. Size \in Nat
      <4>1. PICK C : document \in Seq(C)
        BY DEF TilesInv, IsSeq
      <4> QED BY <4>1 DEF Size
    <3> QED BY <3>1, <3>2
  <2>4. t.end # Size
    <3>1. t.end \in Nat
      BY <2>2, Zenon DEF Whole, t
    <3> QED BY <2>3, <3>1
  <2>5. /\ t.kind = "word" => Char(t.end) \notin Letters \cup Digits
        /\ t.kind = "number" => Char(t.end) \notin Digits
        /\ t.kind = "whitespace" => Char(t.end) \notin Blanks
    BY <2>2, <2>4, Zenon DEF Whole, Digital, t
  <2> QED BY <2>5 DEF t
<1>6. stage = "parse" => Offset = Size
  BY DEF TilesInv
<1> QED BY <1>4, <1>5, <1>6, Zenon DEF TokensTileDocument

\* For every text over any byte classes: tokenize loses nothing and splits
\* nothing that is one word, number or blank run.
THEOREM TokensTile == Spec => []TokensTileDocument
<1>1. Init => TilesInv
  <2> SUFFICES ASSUME Init PROVE TilesInv
    OBVIOUS
  <2>1. document = <<>> /\ tokens = <<>> /\ stage = "idle"
    BY DEF Init, IndexerInit
  <2>2. IsSeq(<<>>)
    <3>1. <<>> \in Seq({})
      OBVIOUS
    <3> QED BY <3>1, Zenon DEF IsSeq
  <2> QED BY <2>1, <2>2 DEF TilesInv
<1> QED BY <1>1, TilesKeep, TilesDocument, PTL DEF Spec

----------------------------------------------------------------------------
(* Text order.  tk is a list of tokens, K holds the places of its terms and *)
(* C the places of the tokens that separate them.                          *)

\* The tokens lie one after the other.
Laid(tk) ==
  /\ Len(tk) \in Nat
  /\ \A m, n \in 1 .. Len(tk) : /\ precedes(tk[m], tk[n]) <=> m < n
                                /\ tk[m].start <= tk[n].start <=> m <= n
                                /\ tk[m].end <= tk[n].end <=> m <= n

\* Separators are no terms.
Settled(tk, K, C) ==
  /\ Laid(tk) /\ K \subseteq 1 .. Len(tk) /\ C \subseteq 1 .. Len(tk)
  /\ \A n \in K : n \notin C

\* A separator between two tokens, and one that follows a token.
Split(tk, C, t, u) == \E n \in C : precedes(t, tk[n]) /\ precedes(tk[n], u)
Past(tk, C, f, t)  == \E n \in C : n <= f /\ precedes(t, tk[n])

\* Tokens that lie end to end lie one after the other.
LEMMA TokensLaid ==
  ASSUME TilesInv
  PROVE  Laid(tokens)
<1> DEFINE h == Len(tokens)
           S == {d \in Nat : \A m \in 1 .. h : m + 1 + d <= h => tokens[m].end <= tokens[m + 1 + d].start}
<1>1. h \in Nat
  <2>1. PICK Q : tokens \in Seq(Q)
    BY DEF TilesInv, IsSeq
  <2> QED BY <2>1
<1>2. \A n \in 1 .. h : /\ tokens[n].start \in Nat /\ tokens[n].end \in Nat
                        /\ tokens[n].start < tokens[n].end
  BY DEF TilesInv, Whole
<1>3. \A n \in 1 .. h : n # 1 => tokens[n].start = tokens[n - 1].end
  BY DEF TilesInv
<1> HIDE DEF h
<1>4. 0 \in S
  <2> SUFFICES ASSUME NEW m \in 1 .. h, m + 1 + 0 <= h
               PROVE  tokens[m].end <= tokens[m + 1 + 0].start
    OBVIOUS
  <2>1. m + 1 + 0 = m + 1 /\ m + 1 \in 1 .. h /\ m + 1 # 1 /\ (m + 1) - 1 = m
    BY <1>1
  <2>2. tokens[m + 1].start = tokens[m].end
    BY <1>3, <2>1
  <2> QED BY <1>2, <2>1, <2>2
<1>5. ASSUME NEW d \in Nat, d \in S PROVE d + 1 \in S
  <2> SUFFICES ASSUME NEW m \in 1 .. h, m + 1 + (d + 1) <= h
               PROVE  tokens[m].end <= tokens[m + 1 + (d + 1)].start
    OBVIOUS
  <2> DEFINE n == m + 1 + d
  <2>1. /\ n \in 1 .. h /\ n + 1 \in 1 .. h /\ n + 1 # 1 /\ (n + 1) - 1 = n
        /\ m + 1 + (d + 1) = n + 1 /\ n <= h
    BY <1>1
  <2>2. tokens[m].end <= tokens[n].start
    BY <1>5, <2>1
  <2> HIDE DEF n
  <2>3. tokens[n + 1].start = tokens[n].end
    BY <1>3, <2>1
  <2> QED BY <1>2, <2>1, <2>2, <2>3
<1>6. \A d \in Nat : d \in S
  <2> HIDE DEF S
  <2> QED BY <1>4, <1>5, SetInduction
<1>7. ASSUME NEW m \in 1 .. h, NEW n \in 1 .. h, m < n PROVE tokens[m].end <= tokens[n].start
  <2>1. n - (m + 1) \in Nat /\ m + 1 + (n - (m + 1)) = n
    BY <1>1, <1>7
  <2>2. n - (m + 1) \in S
    BY <1>6, <2>1
  <2> QED BY <2>1, <2>2
<1>8. ASSUME NEW m \in 1 .. h, NEW n \in 1 .. h
      PROVE  /\ precedes(tokens[m], tokens[n]) <=> m < n
             /\ tokens[m].start <= tokens[n].start <=> m <= n
             /\ tokens[m].end <= tokens[n].end <=> m <= n
  <2>1. CASE m < n
    BY <1>2, <1>7, <2>1 DEF precedes
  <2>2. CASE m = n
    BY <1>1, <1>2, <2>2 DEF precedes
  <2>3. CASE n < m
    BY <1>2, <1>7, <2>3 DEF precedes
  <2> QED BY <1>1, <2>1, <2>2, <2>3
<1> QED BY <1>1, <1>8 DEF Laid, h

\* Separators by their places.
LEMMA SplitAt ==
  ASSUME NEW tk, NEW C, Laid(tk), C \subseteq 1 .. Len(tk),
         NEW m \in 1 .. Len(tk), NEW f
  PROVE  /\ Past(tk, C, f, tk[m]) <=> \E c \in C : m < c /\ c <= f
         /\ \A n \in 1 .. Len(tk) : Split(tk, C, tk[m], tk[n]) <=> \E c \in C : m < c /\ c < n
<1>1. \A c \in C : precedes(tk[m], tk[c]) <=> m < c
  BY DEF Laid
<1>2. ASSUME NEW n \in 1 .. Len(tk), NEW c \in C PROVE precedes(tk[c], tk[n]) <=> c < n
  BY DEF Laid
<1>3. Past(tk, C, f, tk[m]) <=> \E c \in C : m < c /\ c <= f
  BY <1>1, Zenon DEF Past
<1>4. \A n \in 1 .. Len(tk) : Split(tk, C, tk[m], tk[n]) <=> \E c \in C : m < c /\ c < n
  BY <1>1, <1>2, Zenon DEF Split
<1> QED BY <1>3, <1>4

----------------------------------------------------------------------------
(* Lists of sentences                                                      *)

Member(L, x) == \E k \in 1 .. Len(L) : \E i \in 1 .. Len(L[k]) : L[k][i] = x

\* The terms are in order, and a separator lies between two sentences but
\* never in one.
Parted(tk, C, L) ==
  /\ \A k \in 1 .. Len(L) : \A i, j \in 1 .. Len(L[k]) :
       /\ i < j => precedes(L[k][i], L[k][j])
       /\ ~Split(tk, C, L[k][i], L[k][j])
  /\ \A k, l \in 1 .. Len(L) : k < l =>
       \A i \in 1 .. Len(L[k]), j \in 1 .. Len(L[l]) :
         precedes(L[k][i], L[l][j]) /\ Split(tk, C, L[k][i], L[l][j])

\* The closed sentences L and the pending one s hold the terms among the
\* first f tokens; a separator follows the closed ones only.
Grouping(tk, K, C, f, L, s) ==
  /\ Parted(tk, C, L)
  /\ \A i, j \in 1 .. Len(s) : i < j => precedes(s[i], s[j])
  /\ \A n \in K : n <= f => Member(L, tk[n]) \/ \E i \in 1 .. Len(s) : s[i] = tk[n]
  /\ \A x : Member(L, x) => (\E n \in K : n <= f /\ x = tk[n]) /\ Past(tk, C, f, x)
  /\ \A i \in 1 .. Len(s) : (\E n \in K : n <= f /\ s[i] = tk[n]) /\ ~Past(tk, C, f, s[i])

\* The pending sentence is closed, if there is one.
Shut(L, s) == IF s = <<>> THEN L ELSE Append(L, s)

\* What closing does to a list.
LEMMA ShutLists ==
  ASSUME NEW T, NEW L \in Seq(Sentences(T)), NEW s \in Seq(T), s # <<>>
  PROVE  /\ Shut(L, s) \in Seq(Sentences(T)) /\ Len(L) \in Nat
         /\ Len(Shut(L, s)) = Len(L) + 1
         /\ \A k \in 1 .. Len(L) : Shut(L, s)[k] = L[k]
         /\ Shut(L, s)[Len(L) + 1] = s
<1>1. s \in Sentences(T)
  BY DEF Sentences
<1> DEFINE Q == Sentences(T)
<1>2. L \in Seq(Q) /\ s \in Q
  BY <1>1
<1> HIDE DEF Q
<1>3. /\ Append(L, s) \in Seq(Q) /\ Len(L) \in Nat
      /\ Len(Append(L, s)) = Len(L) + 1
      /\ \A k \in 1 .. Len(L) : Append(L, s)[k] = L[k]
      /\ Append(L, s)[Len(L) + 1] = s
  BY <1>2
<1>4. Shut(L, s) = Append(L, s)
  BY Zenon DEF Shut
<1> QED BY <1>3, <1>4, Zenon DEF Q

\* Closing adds the pending terms to the closed ones.
LEMMA ShutMembers ==
  ASSUME NEW T, NEW L \in Seq(Sentences(T)), NEW s \in Seq(T), NEW x
  PROVE  Member(Shut(L, s), x) <=> Member(L, x) \/ \E i \in 1 .. Len(s) : s[i] = x
<1>1. CASE s = <<>>
  <2>1. Shut(L, s) = L
    BY <1>1, Zenon DEF Shut
  <2>2. ~\E i \in 1 .. Len(s) : s[i] = x
    BY <1>1
  <2> QED BY <2>1, <2>2, Zenon
<1>2. CASE s # <<>>
  <2> DEFINE M == Shut(L, s)
             h == Len(L)
  <2>1. /\ h \in Nat /\ Len(M) = h + 1 /\ \A k \in 1 .. h : M[k] = L[k]
        /\ M[h + 1] = s
    BY <1>2, ShutLists
  <2> HIDE DEF M, h
  <2>2. \A k : k \in 1 .. Len(M) <=> k \in 1 .. h \/ k = h + 1
    BY <2>1
  <2>3. Member(M, x) => (\E k \in 1 .. h : \E i \in 1 .. Len(L[k]) : L[k][i] = x)
                         \/ \E i \in 1 .. Len(s) : s[i] = x
    <3> SUFFICES ASSUME NEW k \in 1 .. Len(M), NEW i \in 1 .. Len(M[k]), M[k][i] = x
                 PROVE  (\E l \in 1 .. h : \E j \in 1 .. Len(L[l]) : L[l][j] = x)
                         \/ \E j \in 1 .. Len(s) : s[j] = x
      BY Zenon DEF Member
    <3> QED BY <2>1, <2>2, Zenon
  <2>4. ASSUME NEW k \in 1 .. h, NEW i \in 1 .. Len(L[k]), L[k][i] = x PROVE Member(M, x)
    BY <2>1, <2>2, <2>4, Zenon DEF Member
  <2>5. ASSUME NEW i \in 1 .. Len(s), s[i] = x PROVE Member(M, x)
    BY <2>1, <2>2, <2>5, Zenon DEF Member
  <2> QED BY <2>3, <2>4, <2>5, Zenon DEF M, h, Member
<1> QED BY <1>1, <1>2

\* A closed sentence is apart from those closed before it.
LEMMA ShutParted ==
  ASSUME NEW tk, NEW K, NEW C, Settled(tk, K, C), NEW f, f \in Nat, f <= Len(tk),
         NEW T, NEW L \in Seq(Sentences(T)), NEW s \in Seq(T), Grouping(tk, K, C, f, L, s)
  PROVE  /\ Parted(tk, C, Shut(L, s))
         /\ \A x : Member(Shut(L, s), x) <=> \E n \in K : n <= f /\ x = tk[n]
<1>1. ASSUME NEW x PROVE Member(Shut(L, s), x) <=> \E n \in K : n <= f /\ x = tk[n]
  <2>1. Member(Shut(L, s), x) <=> Member(L, x) \/ \E i \in 1 .. Len(s) : s[i] = x
    BY ShutMembers
  <2> QED BY <2>1, Zenon DEF Grouping
<1>2. CASE s = <<>>
  <2>1. Shut(L, s) = L
    BY <1>2, Zenon DEF Shut
  <2> QED BY <1>1, <2>1, Zenon DEF Grouping
<1>3. CASE s # <<>>
  <2> DEFINE M == Shut(L, s)
             h == Len(L)
  <2>1. /\ h \in Nat /\ Len(M) = h + 1 /\ \A k \in 1 .. h : M[k] = L[k]
        /\ M[h + 1] = s
    BY <1>3, ShutLists
  <2> HIDE DEF M, h
  <2>2. \A k : k \in 1 .. Len(M) <=> k \in 1 .. h \/ k = h + 1
    BY <2>1
  <2>3. Laid(tk) /\ C \subseteq 1 .. Len(tk) /\ K \subseteq 1 .. Len(tk) /\ \A n \in K : n \notin C
    BY DEF Settled
  <2>4. ASSUME NEW i \in 1 .. Len(s) PROVE \E n \in K : n <= f /\ s[i] = tk[n] /\ ~\E c \in C : n < c /\ c <= f
    <3>1. PICK n \in K : n <= f /\ s[i] = tk[n]
      BY Zenon DEF Grouping
    <3>2. ~Past(tk, C, f, tk[n])
      BY <3>1, Zenon DEF Grouping
    <3>3. n \in 1 .. Len(tk)
      BY <2>3
    <3> QED BY <2>3, <3>1, <3>2, <3>3, SplitAt
  <2>5. ASSUME NEW i \in 1 .. Len(s), NEW j \in 1 .. Len(s)
        PROVE  (i < j => precedes(s[i], s[j])) /\ ~Split(tk, C, s[i], s[j])
    <3>1. PICK m \in K : m <= f /\ s[i] = tk[m] /\ ~\E c \in C : m < c /\ c <= f
      BY <2>4, Zenon
    <3>2. PICK n \in K : n <= f /\ s[j] = tk[n] /\ ~\E c \in C : n < c /\ c <= f
      BY <2>4, Zenon
    <3>3. m \in 1 .. Len(tk) /\ n \in 1 .. Len(tk)
      BY <2>3
    <3>4. Split(tk, C, tk[m], tk[n]) <=> \E c \in C : m < c /\ c < n
      BY <2>3, <3>3, SplitAt
    <3>5. \A c \in C : c \in Nat
      BY <2>3
    <3>6. ~\E c \in C : m < c /\ c < n
      BY <2>3, <3>1, <3>2, <3>3, <3>5
    <3> QED BY <3>1, <3>2, <3>4, <3>6, Zenon DEF Grouping
  <2>6. ASSUME NEW k \in 1 .. h, NEW i \in 1 .. Len(L[k]), NEW j \in 1 .. Len(s)
        PROVE  precedes(L[k][i], s[j]) /\ Split(tk, C, L[k][i], s[j])
    <3>1. Member(L, L[k][i])
      BY Zenon DEF Member, h
    <3>2. PICK m \in K : m <= f /\ L[k][i] = tk[m]
      BY <3>1, Zenon DEF Grouping
    <3>3. Past(tk, C, f, tk[m])
      BY <3>1, <3>2, Zenon DEF Grouping
    <3>4. PICK n \in K : n <= f /\ s[j] = tk[n] /\ ~\E c \in C : n < c /\ c <= f
      BY <2>4, Zenon
    <3>5. m \in 1 .. Len(tk) /\ n \in 1 .. Len(tk)
      BY <2>3
    <3>6. PICK c \in C : m < c /\ c <= f
      BY <2>3, <3>3, <3>5, SplitAt
    <3>7. c \in Nat /\ c # n /\ ~(n < c)
      BY <2>3, <3>4, <3>6
    <3>8. m < c /\ c < n /\ m < n
      BY <3>5, <3>6, <3>7
    <3>9. Split(tk, C, tk[m], tk[n])
      BY <2>3, <3>5, <3>8, SplitAt
    <3>10. precedes(tk[m], tk[n])
      BY <2>3, <3>5, <3>8 DEF Laid
    <3> QED BY <3>2, <3>4, <3>9, <3>10, Zenon
  <2>7. ASSUME NEW k \in 1 .. Len(M), NEW i \in 1 .. Len(M[k]), NEW j \in 1 .. Len(M[k])
        PROVE  /\ i < j => precedes(M[k][i], M[k][j])
               /\ ~Split(tk, C, M[k][i], M[k][j])
    <3>1. CASE k \in 1 .. h
      BY <2>1, <3>1, Zenon DEF Grouping, Parted, h
    <3>2. CASE k = h + 1
      BY <2>1, <2>5, <3>2, Zenon
    <3> QED BY <2>2, <3>1, <3>2, Zenon
  <2>8. ASSUME NEW k \in 1 .. Len(M), NEW l \in 1 .. Len(M), k < l,
               NEW i \in 1 .. Len(M[k]), NEW j \in 1 .. Len(M[l])
        PROVE  precedes(M[k][i], M[l][j]) /\ Split(tk, C, M[k][i], M[l][j])
    <3>1. k \in 1 .. h /\ (l \in 1 .. h \/ l = h + 1)
      BY <2>1, <2>8
    <3>2. CASE l \in 1 .. h
      BY <2>1, <2>8, <3>1, <3>2, Zenon DEF Grouping, Parted, h
    <3>3. CASE l = h + 1
      BY <2>1, <2>6, <3>1, <3>3, Zenon
    <3> QED BY <3>1, <3>2, <3>3, Zenon
  <2>9. Parted(tk, C, M)
    BY <2>7, <2>8, Zenon DEF Parted
  <2> QED BY <1>1, <2>9, Zenon DEF M
<1> QED BY <1>2, <1>3

\* Before the first token there is nothing to group.
LEMMA GroupStarts ==
  ASSUME NEW tk, NEW K, NEW C, Settled(tk, K, C)
  PROVE  Grouping(tk, K, C, 0, <<>>, <<>>)
<1>1. PICK e : e = <<>>
  OBVIOUS
<1>2. \A k : k \notin 1 .. Len(e)
  BY <1>1
<1>3. \A n \in K : ~(n <= 0)
  BY DEF Settled
<1>4. Grouping(tk, K, C, 0, e, e)
  BY <1>2, <1>3, Zenon DEF Grouping, Parted, Member
<1> QED BY <1>1, <1>4

\* A term joins the pending sentence.
LEMMA GroupTerm ==
  ASSUME NEW tk, NEW K, NEW C, Settled(tk, K, C), NEW f, f \in Nat, f + 1 \in K,
         NEW L, NEW T, NEW s \in Seq(T), tk[f + 1] \in T, Grouping(tk, K, C, f, L, s)
  PROVE  Grouping(tk, K, C, f + 1, L, Append(s, tk[f + 1]))
<1> DEFINE g == f + 1
           t == tk[g]
           r == Append(s, t)
           h == Len(s)
<1>1. /\ h \in Nat /\ Len(r) = h + 1 /\ \A i \in 1 .. h : r[i] = s[i]
      /\ r[h + 1] = t
  OBVIOUS
<1>2. /\ Laid(tk) /\ C \subseteq 1 .. Len(tk) /\ K \subseteq 1 .. Len(tk) /\ g \in 1 .. Len(tk)
      /\ g \notin C /\ g \in K
  BY DEF Settled
<1>3. g \in Nat /\ f < g /\ \A n \in Nat : n <= g <=> n <= f \/ n = g
  OBVIOUS
<1> HIDE DEF g, r, h
<1>4. \A i : i \in 1 .. Len(r) <=> i \in 1 .. h \/ i = h + 1
  BY <1>1
<1>5. \A x : Past(tk, C, g, x) <=> Past(tk, C, f, x)
  <2>1. \A n \in C : n <= g <=> n <= f
    BY <1>2, <1>3
  <2> QED BY <2>1, Zenon DEF Past
<1>6. \A n \in K : n <= g <=> n <= f \/ n = g
  BY <1>2, <1>3
<1>7. ~Past(tk, C, f, t)
  <2>1. ~\E c \in C : g < c /\ c <= f
    BY <1>2, <1>3
  <2> QED BY <1>2, <2>1, SplitAt
<1>8. ASSUME NEW i \in 1 .. h PROVE precedes(s[i], t)
  <2>1. PICK n \in K : n <= f /\ s[i] = tk[n]
    BY Zenon DEF Grouping, h
  <2>2. n \in 1 .. Len(tk) /\ n < g
    BY <1>2, <1>3, <2>1
  <2> QED BY <1>2, <2>1, <2>2 DEF Laid
<1>9. ASSUME NEW i \in 1 .. Len(r), NEW j \in 1 .. Len(r), i < j PROVE precedes(r[i], r[j])
  <2>1. i \in 1 .. h /\ (j \in 1 .. h \/ j = h + 1)
    BY <1>1, <1>9
  <2>2. CASE j \in 1 .. h
    BY <1>1, <1>9, <2>1, <2>2, Zenon DEF Grouping, h
  <2>3. CASE j = h + 1
    BY <1>1, <1>8, <2>1, <2>3, Zenon
  <2> QED BY <2>1, <2>2, <2>3
<1>10. ASSUME NEW n \in K, n <= g PROVE Member(L, tk[n]) \/ \E i \in 1 .. Len(r) : r[i] = tk[n]
  <2>1. CASE n <= f
    <3>1. Member(L, tk[n]) \/ \E i \in 1 .. h : s[i] = tk[n]
      BY <2>1, Zenon DEF Grouping, h
    <3> QED BY <1>1, <1>4, <3>1, Zenon
  <2>2. CASE n = g
    BY <1>1, <1>4, <2>2, Zenon
  <2> QED BY <1>6, <1>10, <2>1, <2>2
<1>11. ASSUME NEW x, Member(L, x) PROVE (\E n \in K : n <= g /\ x = tk[n]) /\ Past(tk, C, g, x)
  BY <1>5, <1>6, <1>11, Zenon DEF Grouping
<1>12. ASSUME NEW i \in 1 .. Len(r) PROVE (\E n \in K : n <= g /\ r[i] = tk[n]) /\ ~Past(tk, C, g, r[i])
  <2>1. CASE i \in 1 .. h
    BY <1>1, <1>5, <1>6, <2>1, Zenon DEF Grouping, h
  <2>2. CASE i = h + 1
    BY <1>1, <1>2, <1>5, <1>6, <1>7, <2>2, Zenon
  <2> QED BY <1>4, <2>1, <2>2
<1>13. Grouping(tk, K, C, g, L, r)
  BY <1>9, <1>10, <1>11, <1>12, Zenon DEF Grouping
<1> QED BY <1>13 DEF g, r

\* A token that is neither a term nor a separator changes nothing.
LEMMA GroupSkip ==
  ASSUME NEW tk, NEW K, NEW C, Settled(tk, K, C), NEW f, f \in Nat, f + 1 \notin K, f + 1 \notin C,
         NEW L, NEW s, Grouping(tk, K, C, f, L, s)
  PROVE  Grouping(tk, K, C, f + 1, L, s)
<1>1. \A n \in K \cup C : n <= f + 1 <=> n <= f
  BY DEF Settled
<1>2. \A n \in K : n <= f + 1 <=> n <= f
  BY <1>1
<1>3. \A n \in C : n <= f + 1 <=> n <= f
  BY <1>1
<1>4. \A x : Past(tk, C, f + 1, x) <=> Past(tk, C, f, x)
  BY <1>3, Zenon DEF Past
<1> QED BY <1>2, <1>4, Zenon DEF Grouping

\* A separator closes the pending sentence.
LEMMA GroupCut ==
  ASSUME NEW tk, NEW K, NEW C, Settled(tk, K, C), NEW f, f \in Nat, f + 1 \in C,
         NEW T, NEW L \in Seq(Sentences(T)), NEW s \in Seq(T), Grouping(tk, K, C, f, L, s)
  PROVE  Grouping(tk, K, C, f + 1, Shut(L, s), <<>>)
<1>0. f <= Len(tk)
  BY DEF Settled, Laid
<1>10. /\ Parted(tk, C, Shut(L, s))
       /\ \A x : Member(Shut(L, s), x) <=> \E n \in K : n <= f /\ x = tk[n]
  BY <1>0, ShutParted
<1> DEFINE M == Shut(L, s)
           g == f + 1
<1>1. PICK e : e = <<>>
  OBVIOUS
<1>2. \A k : k \notin 1 .. Len(e)
  BY <1>1
<1>3. /\ Laid(tk) /\ C \subseteq 1 .. Len(tk) /\ K \subseteq 1 .. Len(tk) /\ g \in 1 .. Len(tk)
      /\ g \in C /\ g \notin K /\ f <= Len(tk) /\ g \in Nat /\ \A n \in Nat : n <= f => n < g
  BY DEF Settled, Laid
<1>4. Parted(tk, C, M) /\ \A x : Member(M, x) <=> \E n \in K : n <= f /\ x = tk[n]
  BY <1>10
<1>5. \A n \in K : n <= g <=> n <= f
  BY <1>3
<1> HIDE DEF M, g
<1>6. ASSUME NEW n \in K, n <= f PROVE Past(tk, C, g, tk[n])
  <2>1. n \in 1 .. Len(tk) /\ n < g /\ g <= g
    BY <1>3, <1>6
  <2> QED BY <1>3, <2>1, SplitAt
<1>7. ASSUME NEW x, Member(M, x) PROVE (\E n \in K : n <= g /\ x = tk[n]) /\ Past(tk, C, g, x)
  BY <1>4, <1>5, <1>6, <1>7, Zenon
<1>8. \A n \in K : n <= g => Member(M, tk[n])
  BY <1>4, <1>5, Zenon
<1>9. Grouping(tk, K, C, g, M, e)
  BY <1>2, <1>4, <1>7, <1>8, Zenon DEF Grouping
<1> QED BY <1>1, <1>9 DEF M, g

----------------------------------------------------------------------------
(* Spans of sections                                                       *)

\* No separator from place m to place n.
Clear(B, m, n) == \A b \in B : ~(m <= b /\ b <= n)

\* A part starts and ends with a term and holds no separator.
SpanOf(tk, K, B, f, part) ==
  \E m, n \in K : /\ m <= n /\ n <= f /\ Clear(B, m, n)
                  /\ part.start = tk[m].start /\ part.end = tk[n].end

\* Two terms that nothing separates lie in one closed part, unless nothing
\* separates them from place f either.
Spans(tk, K, B, f, ss) ==
  /\ \A i \in 1 .. Len(ss) : SpanOf(tk, K, B, f, ss[i])
  /\ \A m, n \in K : m <= n /\ n <= f /\ Clear(B, m, n) =>
       Clear(B, n, f) \/ \E i \in 1 .. Len(ss) : Within(ss[i], tk[m]) /\ Within(ss[i], tk[n])

\* The pending part Q spans the terms that nothing separates from place f.
Pending(tk, K, B, f, Q) ==
  IF Q = <<>> THEN \A n \in K : n <= f => ~Clear(B, n, f)
  ELSE \E a, b \in K : /\ b <= f /\ Clear(B, a, f) /\ Clear(B, b, f)
                       /\ Head(Q).start = tk[a].start /\ Last(Q).end = tk[b].end
                       /\ \A n \in K : n <= f /\ Clear(B, n, f) => a <= n /\ n <= b

\* The closed parts are all there is.
Covered(tk, K, B, ss) ==
  /\ \A i \in 1 .. Len(ss) : SpanOf(tk, K, B, Len(tk), ss[i])
  /\ \A m, n \in K : m <= n /\ Clear(B, m, n) =>
       \E i \in 1 .. Len(ss) : Within(ss[i], tk[m]) /\ Within(ss[i], tk[n])

\* What a flush does to the closed parts.
LEMMA FlushLists ==
  ASSUME NEW S, NEW ss \in Seq(S), NEW Q, Q # <<>>
  PROVE  /\ Len(ss) \in Nat /\ Len(flushed(Q, ss)) = Len(ss) + 1
         /\ \A i \in 1 .. Len(ss) : flushed(Q, ss)[i] = ss[i]
         /\ flushed(Q, ss)[Len(ss) + 1] = block(Q)
<1> DEFINE b == block(Q)
<1>1. flushed(Q, ss) = Append(ss, b)
  BY Zenon DEF flushed
<1> HIDE DEF b
<1>2. ss \in Seq(S \cup {b})
  OBVIOUS
<1>3. /\ Len(ss) \in Nat /\ Len(Append(ss, b)) = Len(ss) + 1
      /\ \A i \in 1 .. Len(ss) : Append(ss, b)[i] = ss[i]
      /\ Append(ss, b)[Len(ss) + 1] = b
  BY <1>2
<1> QED BY <1>1, <1>3, Zenon DEF b

\* Closing the pending part covers every term up to place f.
LEMMA SpanCloses ==
  ASSUME NEW tk, NEW K, NEW B, Settled(tk, K, B), NEW f, f \in Nat,
         NEW S, NEW ss \in Seq(S), NEW Q, Spans(tk, K, B, f, ss), Pending(tk, K, B, f, Q)
  PROVE  LET rs == flushed(Q, ss) IN
         /\ \A i \in 1 .. Len(rs) : SpanOf(tk, K, B, f, rs[i])
         /\ \A m, n \in K : m <= n /\ n <= f /\ Clear(B, m, n) =>
              \E i \in 1 .. Len(rs) : Within(rs[i], tk[m]) /\ Within(rs[i], tk[n])
<1>1. CASE Q = <<>>
  <2>1. flushed(Q, ss) = ss
    BY <1>1, Zenon DEF flushed
  <2>2. \A n \in K : n <= f => ~Clear(B, n, f)
    BY <1>1, Zenon DEF Pending
  <2> QED BY <2>1, <2>2, Zenon DEF Spans
<1>2. CASE Q # <<>>
  <2>0. /\ Len(ss) \in Nat /\ Len(flushed(Q, ss)) = Len(ss) + 1
        /\ \A i \in 1 .. Len(ss) : flushed(Q, ss)[i] = ss[i]
        /\ flushed(Q, ss)[Len(ss) + 1] = block(Q)
    <3>1. ss \in Seq(S) /\ Q # <<>>
      BY <1>2
    <3> QED BY <3>1, FlushLists
  <2> DEFINE rs == flushed(Q, ss)
             h == Len(ss)
             w == block(Q)
  <2>1. /\ h \in Nat /\ Len(rs) = h + 1
        /\ \A i \in 1 .. h : rs[i] = ss[i]
        /\ rs[h + 1] = w
    BY <2>0
  <2>2. w.start = Head(Q).start /\ w.end = Last(Q).end
    BY DEF block
  <2> HIDE DEF rs, h, w
  <2>3. \A i : i \in 1 .. Len(rs) <=> i \in 1 .. h \/ i = h + 1
    BY <2>1
  <2>4. PICK a \in K, b \in K :
          /\ b <= f /\ Clear(B, a, f) /\ Clear(B, b, f)
          /\ w.start = tk[a].start /\ w.end = tk[b].end
          /\ \A n \in K : n <= f /\ Clear(B, n, f) => a <= n /\ n <= b
    BY <1>2, <2>2, Zenon DEF Pending
  <2>5. /\ K \subseteq 1 .. Len(tk) /\ B \subseteq 1 .. Len(tk) /\ Len(tk) \in Nat
        /\ \A m, n \in 1 .. Len(tk) : /\ tk[m].start <= tk[n].start <=> m <= n
                                      /\ tk[m].end <= tk[n].end <=> m <= n
    BY DEF Settled, Laid
  <2>6. SpanOf(tk, K, B, f, w)
    <3>1. a <= b
      BY <2>4
    <3>2. Clear(B, a, b)
      BY <2>4, <2>5 DEF Clear
    <3> QED BY <2>4, <3>1, <3>2, Zenon DEF SpanOf
  <2>7. ASSUME NEW m \in K, NEW n \in K, m <= n, n <= f, Clear(B, m, n)
        PROVE  \E i \in 1 .. Len(rs) : Within(rs[i], tk[m]) /\ Within(rs[i], tk[n])
    <3>1. CASE Clear(B, n, f)
      <4>1. Clear(B, m, f) /\ m <= f
        BY <2>5, <2>7, <3>1 DEF Clear
      <4>2. a <= m /\ n <= b
        BY <2>4, <2>7, <3>1, <4>1
      <4>3. /\ a \in 1 .. Len(tk) /\ b \in 1 .. Len(tk) /\ m \in 1 .. Len(tk) /\ n \in 1 .. Len(tk)
            /\ a <= n /\ m <= b
        BY <2>5, <2>7, <4>2
      <4>4. /\ tk[a].start <= tk[m].start /\ tk[a].start <= tk[n].start
            /\ tk[m].end <= tk[b].end /\ tk[n].end <= tk[b].end
        BY <2>5, <4>2, <4>3
      <4>5. Within(w, tk[m]) /\ Within(w, tk[n])
        BY <2>4, <4>4, Zenon DEF Within
      <4>6. h + 1 \in 1 .. Len(rs)
        BY <2>1
      <4> QED BY <2>1, <4>5, <4>6, Zenon
    <3>2. CASE ~Clear(B, n, f)
      <4>1. PICK i \in 1 .. h : Within(ss[i], tk[m]) /\ Within(ss[i], tk[n])
        BY <2>7, <3>2, Zenon DEF Spans, h
      <4> QED BY <2>1, <2>3, <4>1, Zenon
    <3> QED BY <3>1, <3>2
  <2>8. \A i \in 1 .. Len(rs) : SpanOf(tk, K, B, f, rs[i])
    BY <2>1, <2>3, <2>6, Zenon DEF Spans, h
  <2> QED BY <2>7, <2>8, Zenon DEF rs
<1> QED BY <1>1, <1>2

\* Before the first token there is nothing to span.
LEMMA SpanStarts ==
  ASSUME NEW tk, NEW K, NEW B, Settled(tk, K, B)
  PROVE  Spans(tk, K, B, 0, <<>>) /\ Pending(tk, K, B, 0, <<>>)
<1>1. PICK e : e = <<>>
  OBVIOUS
<1>2. \A k : k \notin 1 .. Len(e)
  BY <1>1
<1>3. \A n \in K : ~(n <= 0)
  BY DEF Settled
<1>4. Spans(tk, K, B, 0, e) /\ Pending(tk, K, B, 0, e)
  BY <1>1, <1>2, <1>3, Zenon DEF Spans, Pending
<1> QED BY <1>1, <1>4

\* A place that does not separate.
LEMMA ClearNext ==
  ASSUME NEW tk, NEW K, NEW B, Settled(tk, K, B), NEW f, f \in Nat, f + 1 \notin B
  PROVE  /\ \A n : Clear(B, n, f + 1) <=> Clear(B, n, f)
         /\ Clear(B, f + 1, f + 1)
<1>1. \A b \in B : (b <= f + 1 <=> b <= f) /\ ~(f + 1 <= b /\ b <= f + 1)
  BY DEF Settled
<1> QED BY <1>1, Zenon DEF Clear

\* The part of a place is the part of a later one.
LEMMA SpanLater ==
  ASSUME NEW tk, NEW K, NEW B, Settled(tk, K, B), NEW f, f \in Nat, NEW g, g \in Nat, f <= g,
         NEW part, SpanOf(tk, K, B, f, part)
  PROVE  SpanOf(tk, K, B, g, part)
<1>1. \A n \in K : n <= f => n <= g
  BY DEF Settled
<1> QED BY <1>1, Zenon DEF SpanOf

\* A term extends the pending part.
LEMMA SpanTerm ==
  ASSUME NEW tk, NEW K, NEW B, Settled(tk, K, B), NEW f, f \in Nat, f + 1 \in K,
         NEW ss, NEW Q, Spans(tk, K, B, f, ss), Pending(tk, K, B, f, Q),
         NEW R, R # <<>>, Last(R).end = tk[f + 1].end,
         Q = <<>> => Head(R).start = tk[f + 1].start,
         Q # <<>> => Head(R).start = Head(Q).start
  PROVE  Spans(tk, K, B, f + 1, ss) /\ Pending(tk, K, B, f + 1, R)
<1> DEFINE g == f + 1
<1>1. g \in K /\ g \notin B /\ g \in Nat /\ f <= g
  BY DEF Settled
<1>2. (\A n : Clear(B, n, g) <=> Clear(B, n, f)) /\ Clear(B, g, g)
  BY <1>1, ClearNext
<1>3. \A n \in K : n \in Nat /\ (n <= g <=> n <= f \/ n = g)
  BY DEF Settled
<1> HIDE DEF g
<1>4. Spans(tk, K, B, g, ss)
  <2>1. \A i \in 1 .. Len(ss) : SpanOf(tk, K, B, g, ss[i])
    BY <1>1, SpanLater DEF Spans
  <2> QED BY <1>2, <1>3, <2>1, Zenon DEF Spans
<1>5. CASE Q = <<>>
  <2>1. \A n \in K : n <= f => ~Clear(B, n, f)
    BY <1>5, Zenon DEF Pending
  <2>2. \A n \in K : n <= g /\ Clear(B, n, g) => n = g
    BY <1>2, <1>3, <2>1, Zenon
  <2>3. /\ g <= g /\ Head(R).start = tk[g].start /\ Last(R).end = tk[g].end
        /\ \A n \in K : n <= g /\ Clear(B, n, g) => g <= n /\ n <= g
    BY <1>1, <1>5, <2>2 DEF g
  <2>4. Pending(tk, K, B, g, R)
    BY <1>1, <1>2, <2>3, Zenon DEF Pending
  <2> QED BY <1>4, <2>4 DEF g
<1>6. CASE Q # <<>>
  <2>1. PICK a \in K, b \in K :
          /\ b <= f /\ Clear(B, a, f) /\ Clear(B, b, f)
          /\ Head(Q).start = tk[a].start /\ Last(Q).end = tk[b].end
          /\ \A n \in K : n <= f /\ Clear(B, n, f) => a <= n /\ n <= b
    BY <1>6, Zenon DEF Pending
  <2>2. a <= b /\ b <= g /\ a <= g
    BY <1>1, <1>3, <2>1
  <2>3. ASSUME NEW n \in K, n <= g, Clear(B, n, g) PROVE a <= n /\ n <= g
    BY <1>2, <1>3, <2>1, <2>2, <2>3
  <2>4. g <= g /\ Clear(B, a, g) /\ Head(R).start = tk[a].start /\ Last(R).end = tk[g].end
    BY <1>1, <1>2, <1>6, <2>1 DEF g
  <2>5. Pending(tk, K, B, g, R)
    BY <1>1, <1>2, <2>3, <2>4, Zenon DEF Pending
  <2> QED BY <1>4, <2>5 DEF g
<1> QED BY <1>5, <1>6

\* A token that is neither a term nor a separator changes nothing.
LEMMA SpanSkip ==
  ASSUME NEW tk, NEW K, NEW B, Settled(tk, K, B), NEW f, f \in Nat, f + 1 \notin K, f + 1 \notin B,
         NEW ss, NEW Q, Spans(tk, K, B, f, ss), Pending(tk, K, B, f, Q)
  PROVE  Spans(tk, K, B, f + 1, ss) /\ Pending(tk, K, B, f + 1, Q)
<1>1. \A n : Clear(B, n, f + 1) <=> Clear(B, n, f)
  BY ClearNext
<1>2. \A n \in K : n <= f + 1 <=> n <= f
  BY DEF Settled
<1>3. Spans(tk, K, B, f + 1, ss)
  BY <1>1, <1>2, Zenon DEF Spans, SpanOf
<1>4. Pending(tk, K, B, f + 1, Q)
  BY <1>1, <1>2, Zenon DEF Pending
<1> QED BY <1>3, <1>4

\* A separator closes the pending part.
LEMMA SpanCut ==
  ASSUME NEW tk, NEW K, NEW B, Settled(tk, K, B), NEW f, f \in Nat, f + 1 \in B,
         NEW S, NEW ss \in Seq(S), NEW Q, Spans(tk, K, B, f, ss), Pending(tk, K, B, f, Q)
  PROVE  Spans(tk, K, B, f + 1, flushed(Q, ss)) /\ Pending(tk, K, B, f + 1, <<>>)
<1> DEFINE rs == flushed(Q, ss)
           g == f + 1
<1>1. /\ \A i \in 1 .. Len(rs) : SpanOf(tk, K, B, f, rs[i])
      /\ \A m, n \in K : m <= n /\ n <= f /\ Clear(B, m, n) =>
           \E i \in 1 .. Len(rs) : Within(rs[i], tk[m]) /\ Within(rs[i], tk[n])
  BY SpanCloses
<1> HIDE DEF rs
<1>2. g \in Nat /\ f <= g /\ g \notin K /\ g \in B
  BY DEF Settled
<1>3. \A n \in K : (n <= g <=> n <= f) /\ (n <= g => ~Clear(B, n, g))
  BY <1>2 DEF Settled, Clear
<1> HIDE DEF g
<1>4. \A i \in 1 .. Len(rs) : SpanOf(tk, K, B, g, rs[i])
  BY <1>1, <1>2, SpanLater
<1>5. Spans(tk, K, B, g, rs) /\ Pending(tk, K, B, g, <<>>)
  BY <1>1, <1>3, <1>4, Zenon DEF Spans, Pending
<1> QED BY <1>5 DEF g, rs

----------------------------------------------------------------------------
(* The places of a document's terms, section breaks and separators         *)

TermPlaces  == {n \in 1 .. Len(tokens) : IsTerm(tokens[n])}
BreakPlaces == {n \in 1 .. Len(tokens) : newlinesOf(tokens[n]) >= 2}
CutPlaces   == {n \in 1 .. Len(tokens) : newlinesOf(tokens[n]) >= 2 \/ IsEnder(tokens[n])}

\* They depend on the document and its tokens alone.
LEMMA PlacesKept ==
  ASSUME document' = document, tokens' = tokens
  PROVE  TermPlaces' = TermPlaces /\ BreakPlaces' = BreakPlaces /\ CutPlaces' = CutPlaces
<1>1. \A t : newlinesOf(t)' = newlinesOf(t)
  BY Zenon DEF newlinesOf, Char
<1>2. \A t : IsEnder(t)' <=> IsEnder(t)
  BY Zenon DEF IsEnder, Char
<1>3. Len(tokens') = Len(tokens)
  OBVIOUS
<1>4. TermPlaces' = TermPlaces
  BY Zenon DEF TermPlaces
<1>5. BreakPlaces' = BreakPlaces
  <2>1. \A n : n \in BreakPlaces' <=> n \in BreakPlaces
    BY <1>1, <1>3, Zenon DEF BreakPlaces
  <2> QED BY <2>1, Zenon
<1>6. CutPlaces' = CutPlaces
  <2>1. \A n : n \in CutPlaces' <=> n \in CutPlaces
    BY <1>1, <1>2, <1>3, Zenon DEF CutPlaces
  <2> QED BY <2>1, Zenon
<1> QED BY <1>4, <1>5, <1>6

\* Only a blank run has two newlines.
LEMMA NewlinesOf ==
  ASSUME TilesInv, NEW n \in 1 .. Len(tokens)
  PROVE  /\ newlinesOf(tokens[n]) \in Nat
         /\ tokens[n].kind \in {"word", "number", "punctuation", "symbol"} => newlinesOf(tokens[n]) < 2
<1> DEFINE t == tokens[n]
           N == {i \in t.start .. t.end - 1 : Char(i) = Newline}
<1>1. Whole(t)
  BY DEF TilesInv
<1> HIDE DEF t
<1>2. t.start \in Nat /\ t.end \in Nat /\ t.start < t.end
  BY <1>1, Zenon DEF Whole
<1>3. IsFiniteSet(N) /\ Cardinality(N) \in Nat
  <2>1. IsFiniteSet(t.start .. t.end - 1)
    <3> DEFINE a == t.start
               e == t.end - 1
    <3>1. a \in Int /\ e \in Int
      BY <1>2
    <3> HIDE DEF a, e
    <3>2. IsFiniteSet(a .. e)
      BY <3>1, FS_Interval
    <3> QED BY <3>2 DEF a, e
  <2>2. N \in SUBSET (t.start .. t.end - 1)
    OBVIOUS
  <2> QED BY <2>1, <2>2, FS_Subset, FS_CardinalityType
<1>4. newlinesOf(t) = Cardinality(N)
  BY Zenon DEF newlinesOf
<1>5. ASSUME NEW x, \A i \in N : i = x PROVE Cardinality(N) < 2
  <2> HIDE DEF N
  <2>1. N = {} \/ N = {x}
    BY <1>5
  <2>2. Cardinality({}) = 0 /\ Cardinality({x}) = 1
    BY FS_EmptySet, FS_Singleton
  <2>3. CASE N = {}
    BY <2>2, <2>3
  <2>4. CASE N = {x}
    BY <2>2, <2>4
  <2> QED BY <2>1, <2>3, <2>4
<1>6. Newline \notin Letters /\ Newline \notin Digits
  BY IndexerAssumption
<1>7. CASE t.kind = "word"
  <2>1. \A i \in t.start .. t.end - 1 : Char(i) \in Letters \cup Digits
    BY <1>1, <1>7, Zenon DEF Whole
  <2>2. \A i \in N : i = 0
    BY <1>6, <2>1
  <2> QED BY <1>3, <1>4, <1>5, <2>2 DEF t
<1>8. CASE t.kind = "number"
  <2>1. PICK x : \A k \in t.start .. t.end - 1 : Char(k) \notin Digits => k = x
    BY <1>1, <1>8, Zenon DEF Whole, Digital
  <2>2. \A i \in N : i = x
    BY <1>6, <2>1
  <2> QED BY <1>3, <1>4, <1>5, <2>2 DEF t
<1>9. CASE t.kind \in {"punctuation", "symbol"}
  <2>1. t.end = t.start + 1
    BY <1>1, <1>9, Zenon DEF Whole
  <2>2. \A i \in N : i = t.start
    BY <1>2, <2>1
  <2> QED BY <1>3, <1>4, <1>5, <2>2 DEF t
<1> QED BY <1>3, <1>4, <1>7, <1>8, <1>9 DEF t

\* A blank run is as long as it can be.
LEMMA BlankRunEnds ==
  ASSUME TilesInv, NEW n \in 1 .. Len(tokens), n # 1,
         tokens[n - 1].kind = "whitespace"
  PROVE  tokens[n].kind # "whitespace"
<1>1. n - 1 \in 1 .. Len(tokens)
  <2>1. PICK Q : tokens \in Seq(Q)
    BY DEF TilesInv, IsSeq
  <2> QED BY <2>1
<1> DEFINE t == tokens[n]
           u == tokens[n - 1]
<1>2. Whole(t) /\ Whole(u) /\ t.start = u.end
  BY <1>1 DEF TilesInv
<1> HIDE DEF t, u
<1>3. Size \in Nat
  <2>1. PICK Q : document \in Seq(Q)
    BY DEF TilesInv, IsSeq
  <2> QED BY <2>1 DEF Size
<1>4. t.start \in Nat /\ t.end \in Nat /\ t.start < t.end /\ t.end <= Size
  BY <1>2, Zenon DEF Whole
<1>5. t.start \in t.start .. t.end - 1 /\ u.end # Size
  BY <1>2, <1>3, <1>4
<1>6. u.kind = "whitespace"
  BY DEF u
<1>7. Char(u.end) \notin Blanks
  BY <1>2, <1>5, <1>6, Zenon DEF Whole
<1>8. t.kind # "whitespace"
  BY <1>2, <1>5, <1>7, Zenon DEF Whole
<1> QED BY <1>8 DEF t

\* Terms are no separators.
LEMMA PlacesSettled ==
  ASSUME TilesInv
  PROVE  /\ Settled(tokens, TermPlaces, CutPlaces)
         /\ Settled(tokens, TermPlaces, BreakPlaces)
<1>1. Laid(tokens)
  BY TokensLaid
<1>2. ASSUME NEW n \in TermPlaces PROVE n \notin CutPlaces /\ n \notin BreakPlaces
  <2>1. n \in 1 .. Len(tokens) /\ tokens[n].kind \in {"word", "number"}
    BY DEF TermPlaces, IsTerm
  <2>2. newlinesOf(tokens[n]) \in Nat /\ newlinesOf(tokens[n]) < 2
    BY <2>1, NewlinesOf
  <2>3. ~IsEnder(tokens[n])
    BY <2>1 DEF IsEnder
  <2> QED BY <2>2, <2>3 DEF CutPlaces, BreakPlaces
<1>3. /\ TermPlaces \subseteq 1 .. Len(tokens) /\ CutPlaces \subseteq 1 .. Len(tokens)
      /\ BreakPlaces \subseteq 1 .. Len(tokens)
  BY Zenon DEF TermPlaces, CutPlaces, BreakPlaces
<1> QED BY <1>1, <1>2, <1>3 DEF Settled

----------------------------------------------------------------------------
(* The sentences of blocks                                                 *)

PartsOf(ss) == [i \in DOMAIN ss |-> ss[i].parts]

\* A block spans its parts.
Tight(ss) == \A k \in 1 .. Len(ss) : /\ ss[k].start = Head(ss[k].parts).start
                                     /\ ss[k].end = Last(ss[k].parts).end

\* The parts of blocks.
LEMMA PartsType ==
  ASSUME NEW Q, NEW ss, Blocks(Q, ss)
  PROVE  /\ PartsOf(ss) \in Seq(Q) /\ Len(PartsOf(ss)) = Len(ss) /\ Len(ss) \in Nat
         /\ \A k \in 1 .. Len(ss) : PartsOf(ss)[k] = ss[k].parts
<1>1. PICK S : ss \in Seq(S) /\ \A b \in S : b.parts \in Q
  BY DEF Blocks
<1>2. Len(ss) \in Nat /\ DOMAIN ss = 1 .. Len(ss) /\ \A k \in 1 .. Len(ss) : ss[k] \in S
  BY <1>1
<1>3. PartsOf(ss) = [k \in 1 .. Len(ss) |-> ss[k].parts]
  BY <1>2, Zenon DEF PartsOf
<1>4. [k \in 1 .. Len(ss) |-> ss[k].parts] \in [1 .. Len(ss) -> Q]
  BY <1>1, <1>2, Zenon
<1> DEFINE f == PartsOf(ss)
<1>5. f \in [1 .. Len(ss) -> Q]
  BY <1>3, <1>4, Zenon
<1>6. \A k \in 1 .. Len(ss) : f[k] = ss[k].parts
  BY <1>3, Zenon
<1> HIDE DEF f
<1>7. f \in Seq(Q) /\ Len(f) = Len(ss)
  BY <1>2, <1>5
<1> QED BY <1>2, <1>6, <1>7 DEF f

\* Closing a block closes its parts.
LEMMA PartsFlushed ==
  ASSUME NEW Q, NEW ss, Blocks(Q, ss), NEW s, s \in Q
  PROVE  PartsOf(flushed(s, ss)) = Shut(PartsOf(ss), s)
<1>1. CASE s = <<>>
  BY <1>1, Zenon DEF flushed, Shut
<1>2. CASE s # <<>>
  <2>1. PICK S : ss \in Seq(S) /\ \A b \in S : b.parts \in Q
    BY DEF Blocks
  <2> DEFINE h == Len(ss)
             rs == flushed(s, ss)
             p == PartsOf(ss)
             r == Append(p, s)
             w == block(s)
  <2>2. /\ Len(ss) \in Nat /\ Len(flushed(s, ss)) = Len(ss) + 1
        /\ \A i \in 1 .. Len(ss) : flushed(s, ss)[i] = ss[i]
        /\ flushed(s, ss)[Len(ss) + 1] = block(s)
    BY <1>2, <2>1, FlushLists
  <2>3. p \in Seq(Q) /\ Len(p) = h /\ \A k \in 1 .. h : p[k] = ss[k].parts
    BY PartsType
  <2>4. rs = Append(ss, w)
    BY <1>2, Zenon DEF flushed
  <2>5. w.parts = s
    BY DEF block
  <2> HIDE DEF w
  <2>6. DOMAIN rs = 1 .. h + 1
    BY <2>1, <2>4
  <2>7. h \in Nat /\ (\A i \in 1 .. h : rs[i] = ss[i]) /\ rs[h + 1] = w
    BY <2>2 DEF w
  <2> HIDE DEF h, rs, p
  <2>8. /\ r \in [1 .. h + 1 -> Q]
        /\ r[h + 1] = s /\ \A k \in 1 .. h : r[k] = p[k]
    <3>1. r \in Seq(Q) /\ Len(r) = h + 1
      BY <2>3, <2>7
    <3>2. r[h + 1] = s /\ \A k \in 1 .. h : r[k] = p[k]
      BY <2>3, <2>7
    <3> HIDE DEF r
    <3>3. r \in [1 .. Len(r) -> Q]
      BY <3>1
    <3> QED BY <3>1, <3>2, <3>3
  <2> HIDE DEF r
  <2>9. ASSUME NEW k \in 1 .. h + 1 PROVE rs[k].parts = r[k]
    <3>1. CASE k \in 1 .. h
      BY <2>3, <2>7, <2>8, <3>1, Zenon
    <3>2. CASE k = h + 1
      BY <2>5, <2>7, <2>8, <3>2, Zenon
    <3> QED BY <2>7, <3>1, <3>2
  <2>10. PartsOf(rs) = [k \in 1 .. h + 1 |-> rs[k].parts]
    BY <2>6, Zenon DEF PartsOf
  <2>11. PartsOf(rs) = r
    <3>1. r = [k \in 1 .. h + 1 |-> r[k]]
      BY <2>8, Zenon
    <3> QED BY <2>9, <2>10, <3>1, Zenon
  <2>12. Shut(p, s) = r
    BY <1>2, Zenon DEF Shut, r
  <2> QED BY <2>11, <2>12 DEF rs, p
<1> QED BY <1>1, <1>2

\* A closed block is tight.
LEMMA TightFlushed ==
  ASSUME NEW S, NEW ss \in Seq(S), NEW s, Tight(ss)
  PROVE  Tight(flushed(s, ss))
<1>1. CASE s = <<>>
  BY <1>1, Zenon DEF flushed
<1>2. CASE s # <<>>
  <2>1. /\ Len(ss) \in Nat /\ Len(flushed(s, ss)) = Len(ss) + 1
        /\ \A i \in 1 .. Len(ss) : flushed(s, ss)[i] = ss[i]
        /\ flushed(s, ss)[Len(ss) + 1] = block(s)
    BY <1>2, FlushLists
  <2> DEFINE rs == flushed(s, ss)
             w == block(s)
             h == Len(ss)
  <2>2. w.start = Head(s).start /\ w.end = Last(s).end /\ w.parts = s
    BY DEF block
  <2>3. h \in Nat /\ Len(rs) = h + 1 /\ (\A i \in 1 .. h : rs[i] = ss[i]) /\ rs[h + 1] = w
    BY <2>1
  <2>4. \A k \in 1 .. h : ss[k].start = Head(ss[k].parts).start /\ ss[k].end = Last(ss[k].parts).end
    BY DEF Tight
  <2> HIDE DEF rs, w, h
  <2>5. \A k : k \in 1 .. Len(rs) <=> k \in 1 .. h \/ k = h + 1
    BY <2>3
  <2>6. \A k \in 1 .. Len(rs) : /\ rs[k].start = Head(rs[k].parts).start
                                /\ rs[k].end = Last(rs[k].parts).end
    BY <2>2, <2>3, <2>4, <2>5, Zenon
  <2> QED BY <2>6, Zenon DEF Tight, rs
<1> QED BY <1>1, <1>2

\* The values of allSentences.
LEMMA AllSentencesRun ==
  ASSUME NEW doc, Len(doc) \in Nat
  PROVE  \E c : UpTo(doc, Len(doc), c) /\ allSentences(doc) = c[Len(doc)]
<1> DEFINE b == Len(doc)
           upTo == CHOOSE c : UpTo(doc, b, c)
<1>1. allSentences(doc) = upTo[b]
  BY Zenon DEF allSentences, UpTo
<1>2. b \in Nat
  OBVIOUS
<1> HIDE DEF b
<1>3. UpTo(doc, b, upTo)
  BY <1>2, UpToExists, Zenon
<1> HIDE DEF upTo
<1> QED BY <1>1, <1>3, Zenon DEF b

\* No section has no sentence.
LEMMA NoSentences == allSentences(<<>>) = <<>>
<1>1. PICK e : e = <<>>
  OBVIOUS
<1>2. Len(e) = 0 /\ Len(e) \in Nat
  BY <1>1
<1>3. PICK c : UpTo(e, Len(e), c) /\ allSentences(e) = c[Len(e)]
  BY <1>2, AllSentencesRun
<1>4. c[0] = <<>>
  BY <1>2, <1>3, UpToValues
<1> QED BY <1>1, <1>2, <1>3, <1>4

\* A section more adds its sentences.
LEMMA AllSentencesGrow ==
  ASSUME NEW S, NEW doc \in Seq(S), NEW w
  PROVE  allSentences(Append(doc, w)) = allSentences(doc) \o PartsOf(w.parts)
<1> DEFINE h == Len(doc)
           doc2 == Append(doc, w)
<1>1. /\ h \in Nat /\ Len(doc2) = h + 1 /\ \A k \in 1 .. h : doc2[k] = doc[k]
      /\ doc2[h + 1] = w
  OBVIOUS
<1> HIDE DEF h, doc2
<1>2. PICK c : UpTo(doc, h, c) /\ allSentences(doc) = c[h]
  BY <1>1, AllSentencesRun DEF h
<1>3. PICK d : UpTo(doc2, h + 1, d) /\ allSentences(doc2) = d[h + 1]
  <2>1. h + 1 \in Nat
    BY <1>1
  <2> QED BY <1>1, <2>1, AllSentencesRun
<1>4. c[0] = <<>> /\ \A n \in 1 .. h : c[n] = c[n - 1] \o terms(doc[n])
  BY <1>1, <1>2, UpToValues
<1>5. d[0] = <<>> /\ \A n \in 1 .. h + 1 : d[n] = d[n - 1] \o terms(doc2[n])
  <2>1. h + 1 \in Nat
    BY <1>1
  <2> QED BY <1>3, <2>1, UpToValues
<1> DEFINE E == {k \in Nat : k <= h => d[k] = c[k]}
<1>6. 0 \in E
  BY <1>4, <1>5
<1>7. ASSUME NEW k \in Nat, k \in E PROVE k + 1 \in E
  <2> SUFFICES ASSUME k + 1 <= h PROVE d[k + 1] = c[k + 1]
    OBVIOUS
  <2>1. k + 1 \in 1 .. h /\ k + 1 \in 1 .. h + 1 /\ (k + 1) - 1 = k /\ d[k] = c[k]
    BY <1>1, <1>7
  <2>2. doc2[k + 1] = doc[k + 1]
    BY <1>1, <2>1
  <2>3. d[k + 1] = d[k] \o terms(doc2[k + 1]) /\ c[k + 1] = c[k] \o terms(doc[k + 1])
    <3>1. d[k + 1] = d[(k + 1) - 1] \o terms(doc2[k + 1])
      BY <1>5, <2>1, Zenon
    <3>2. c[k + 1] = c[(k + 1) - 1] \o terms(doc[k + 1])
      BY <1>4, <2>1, Zenon
    <3> QED BY <2>1, <3>1, <3>2, Zenon
  <2> QED BY <2>1, <2>2, <2>3, Zenon
<1>8. h \in E
  <2> HIDE DEF E
  <2> QED BY <1>1, <1>6, <1>7, SetInduction
<1>9. d[h] = c[h] /\ h + 1 \in 1 .. h + 1 /\ (h + 1) - 1 = h
  BY <1>1, <1>8
<1>10. d[h + 1] = d[(h + 1) - 1] \o terms(doc2[h + 1])
  BY <1>5, <1>9, Zenon
<1>11. d[h + 1] = c[h] \o terms(w)
  BY <1>1, <1>9, <1>10, Zenon
<1>12. terms(w) = PartsOf(w.parts)
  BY Zenon DEF terms, PartsOf
<1> QED BY <1>2, <1>3, <1>11, <1>12, Zenon DEF doc2

\* The sentences of the closed sections and of the closed blocks, in order.
Closed(secs, ss) == allSentences(secs) \o PartsOf(ss)

\* Closing a sentence.
LEMMA ClosedSentence ==
  ASSUME NEW T, NEW secs, Sections(T, secs), NEW ss, Blocks(Sentences(T), ss), NEW s \in Seq(T)
  PROVE  /\ Closed(secs, ss) \in Seq(Sentences(T))
         /\ Closed(secs, flushed(s, ss)) = Shut(Closed(secs, ss), s)
<1> DEFINE Q == Sentences(T)
           a == allSentences(secs)
           p == PartsOf(ss)
<1>1. a \in Seq(Q) /\ p \in Seq(Q)
  BY AllSentencesType, PartsType
<1> HIDE DEF a, p
<1>2. a \o p \in Seq(Q)
  <2> HIDE DEF Q
  <2> QED BY <1>1
<1>3. CASE s = <<>>
  BY <1>2, <1>3, Zenon DEF flushed, Shut, Closed, a, p
<1>4. CASE s # <<>>
  <2>1. s \in Q
    BY <1>4 DEF Sentences
  <2>2. PartsOf(flushed(s, ss)) = Append(p, s)
    <3>1. PartsOf(flushed(s, ss)) = Shut(PartsOf(ss), s)
      BY <2>1, PartsFlushed
    <3> QED BY <1>4, <3>1, Zenon DEF Shut, p
  <2>3. a \o Append(p, s) = Append(a \o p, s)
    <3> HIDE DEF Q
    <3> QED BY <1>1, <2>1
  <2> QED BY <1>2, <1>4, <2>2, <2>3, Zenon DEF Closed, Shut, a, p
<1> QED BY <1>3, <1>4

\* Closing a section keeps its sentences.
LEMMA ClosedSection ==
  ASSUME NEW T, NEW secs, Sections(T, secs), NEW ss, Blocks(Sentences(T), ss)
  PROVE  /\ Closed(flushed(ss, secs), <<>>) = Closed(secs, ss)
         /\ allSentences(flushed(ss, secs)) = Closed(secs, ss)
<1> DEFINE Q == Sentences(T)
           a == allSentences(secs)
<1>1. a \in Seq(Q) /\ PartsOf(ss) \in Seq(Q)
  BY AllSentencesType, PartsType
<1>2. \A x \in Seq(Q) : x \o <<>> = x
  <2> HIDE DEF Q
  <2> QED OBVIOUS
<1>3. PartsOf(<<>>) = <<>>
  <2>1. Blocks(Q, <<>>)
    BY NothingClosed
  <2>2. Len(PartsOf(<<>>)) = Len(<<>>) /\ PartsOf(<<>>) \in Seq(Q)
    BY <2>1, PartsType
  <2> HIDE DEF Q
  <2> QED BY <2>2
<1>4. allSentences(flushed(ss, secs)) = Closed(secs, ss)
  <2>1. CASE ss = <<>>
    BY <1>1, <1>2, <1>3, <2>1, Zenon DEF flushed, Closed
  <2>2. CASE ss # <<>>
    <3>1. PICK S : secs \in Seq(S)
      BY DEF Sections
    <3>2. flushed(ss, secs) = Append(secs, block(ss))
      BY <2>2, Zenon DEF flushed
    <3>3. block(ss).parts = ss
      BY DEF block
    <3>4. allSentences(Append(secs, block(ss))) = a \o PartsOf(block(ss).parts)
      BY <3>1, AllSentencesGrow
    <3> QED BY <3>2, <3>3, <3>4, Zenon DEF Closed
  <2> QED BY <2>1, <2>2
<1>5. Closed(secs, ss) \in Seq(Q)
  <2> DEFINE p == PartsOf(ss)
  <2>1. a \in Seq(Q) /\ p \in Seq(Q)
    BY <1>1
  <2> HIDE DEF Q, a, p
  <2>2. a \o p \in Seq(Q)
    BY <2>1
  <2> QED BY <2>2 DEF Closed, a, p
<1>6. Closed(flushed(ss, secs), <<>>) = Closed(secs, ss)
  BY <1>2, <1>3, <1>4, <1>5, Zenon DEF Closed
<1> QED BY <1>4, <1>6

----------------------------------------------------------------------------
(* Grouping the tokens                                                     *)

\* The first f tokens, folded into the parts s, ss and secs.
GroupedAs(tk, K, C, B, f, s, ss, secs) ==
  /\ Grouping(tk, K, C, f, Closed(secs, ss), s)
  /\ Spans(tk, K, B, f, secs) /\ Pending(tk, K, B, f, flushed(s, ss))
  /\ Tight(ss) /\ \A i \in 1 .. Len(secs) : Tight(secs[i].parts)

\* Newlines are pending after a blank run only.
BlankRun(tk, f, run) == run \in Nat /\ (run # 0 => f # 0 /\ tk[f].kind = "whitespace")

\* All tokens, folded into sections.
DocumentAs(tk, K, C, B, secs) ==
  /\ Parted(tk, C, allSentences(secs))
  /\ \A x : Member(allSentences(secs), x) <=> \E n \in K : x = tk[n]
  /\ Covered(tk, K, B, secs)
  /\ \A i \in 1 .. Len(secs) : Tight(secs[i].parts)

\* A term more extends the pending section.
LEMMA PendingTerm ==
  ASSUME NEW T, NEW s \in Seq(T), NEW t \in T, NEW S, NEW ss \in Seq(S)
  PROVE  LET Q == flushed(s, ss)
             R == flushed(Append(s, t), ss)
         IN  /\ R # <<>> /\ Last(R).end = t.end
             /\ Q = <<>> => Head(R).start = t.start
             /\ Q # <<>> => Head(R).start = Head(Q).start
<1> DEFINE p == Append(s, t)
           w == block(p)
           v == block(s)
           R == flushed(p, ss)
           Q == flushed(s, ss)
<1>1. p \in Seq(T) /\ p # <<>> /\ Last(p) = t /\ Head(p) = IF s = <<>> THEN t ELSE Head(s)
  BY DEF Last
<1>2. w.start = Head(p).start /\ w.end = Last(p).end /\ v.start = Head(s).start
  BY DEF block
<1> HIDE DEF w, p, v
<1>3. R = Append(ss, w)
  BY <1>1, Zenon DEF flushed, w
<1>4. Q = IF s = <<>> THEN ss ELSE Append(ss, v)
  BY Zenon DEF flushed, v
<1> DEFINE X == S \cup {w, v}
<1>5. ss \in Seq(X) /\ w \in X /\ v \in X
  OBVIOUS
<1> HIDE DEF X
<1>6. /\ Append(ss, w) # <<>> /\ Last(Append(ss, w)) = w
      /\ Head(Append(ss, w)) = IF ss = <<>> THEN w ELSE Head(ss)
      /\ Append(ss, v) # <<>> /\ Head(Append(ss, v)) = IF ss = <<>> THEN v ELSE Head(ss)
  <2>1. ASSUME NEW x \in X
        PROVE  Append(ss, x) # <<>> /\ Head(Append(ss, x)) = IF ss = <<>> THEN x ELSE Head(ss)
    <3>1. Len(ss) \in Nat /\ Len(Append(ss, x)) = Len(ss) + 1
      BY <1>5
    <3>2. Append(ss, x) \in Seq(X) /\ Append(ss, x) # <<>>
      BY <1>5, <3>1
    <3>3. Head(Append(ss, x)) = Append(ss, x)[1]
      BY <3>2
    <3>4. CASE ss = <<>>
      BY <3>3, <3>4
    <3>5. CASE ss # <<>>
      <4>1. 1 \in 1 .. Len(ss) /\ Head(ss) = ss[1]
        BY <1>5, <3>5
      <4>2. Append(ss, x)[1] = ss[1]
        BY <1>5, <4>1
      <4> QED BY <3>2, <3>3, <3>5, <4>1, <4>2
    <3> QED BY <3>2, <3>4, <3>5
  <2>2. Last(Append(ss, w)) = w
    BY <1>5 DEF Last
  <2> QED BY <1>5, <2>1, <2>2
<1> HIDE DEF R, Q
<1>7. R # <<>> /\ Last(R).end = t.end
  BY <1>1, <1>2, <1>3, <1>6, Zenon
<1>8. Q = <<>> => Head(R).start = t.start
  BY <1>1, <1>2, <1>3, <1>4, <1>6, Zenon
<1>9. Q # <<>> => Head(R).start = Head(Q).start
  BY <1>1, <1>2, <1>3, <1>4, <1>6, Zenon
<1> QED BY <1>7, <1>8, <1>9, Zenon DEF R, Q, p

\* A closed section is made of tight blocks.
LEMMA TightSections ==
  ASSUME NEW S, NEW secs \in Seq(S), NEW ss, Tight(ss),
         \A i \in 1 .. Len(secs) : Tight(secs[i].parts)
  PROVE  \A i \in 1 .. Len(flushed(ss, secs)) : Tight(flushed(ss, secs)[i].parts)
<1>1. CASE ss = <<>>
  BY <1>1, Zenon DEF flushed
<1>2. CASE ss # <<>>
  <2>1. /\ Len(secs) \in Nat /\ Len(flushed(ss, secs)) = Len(secs) + 1
        /\ \A i \in 1 .. Len(secs) : flushed(ss, secs)[i] = secs[i]
        /\ flushed(ss, secs)[Len(secs) + 1] = block(ss)
    BY <1>2, FlushLists
  <2>2. block(ss).parts = ss
    BY DEF block
  <2> DEFINE rs == flushed(ss, secs)
             h == Len(secs)
  <2>3. h \in Nat /\ Len(rs) = h + 1 /\ (\A i \in 1 .. h : rs[i] = secs[i]) /\ rs[h + 1] = block(ss)
    BY <2>1
  <2>4. \A i \in 1 .. h : Tight(secs[i].parts)
    OBVIOUS
  <2> HIDE DEF rs, h
  <2>5. \A i : i \in 1 .. Len(rs) <=> i \in 1 .. h \/ i = h + 1
    BY <2>3
  <2>6. \A i \in 1 .. Len(rs) : Tight(rs[i].parts)
    BY <2>2, <2>3, <2>4, <2>5, Zenon
  <2> QED BY <2>6 DEF rs
<1> QED BY <1>1, <1>2

\* Nothing is folded yet.
LEMMA GroupedStarts ==
  ASSUME TilesInv
  PROVE  GroupedAs(tokens, TermPlaces, CutPlaces, BreakPlaces, 0, <<>>, <<>>, <<>>)
<1>1. /\ Settled(tokens, TermPlaces, CutPlaces) /\ Settled(tokens, TermPlaces, BreakPlaces)
  BY PlacesSettled
<1>2. PICK e : e = <<>>
  OBVIOUS
<1>3. \A k : k \notin 1 .. Len(e)
  BY <1>2
<1>4. Closed(e, e) = e
  <2>1. allSentences(e) = e
    BY <1>2, NoSentences
  <2>2. PartsOf(e) = e
    <3>1. Blocks({}, e)
      BY <1>2, NothingClosed
    <3>2. Len(PartsOf(e)) = Len(e) /\ PartsOf(e) \in Seq({})
      BY <3>1, PartsType
    <3> QED BY <1>2, <3>2
  <2>3. e \o e = e
    BY <1>2
  <2> QED BY <2>1, <2>2, <2>3, Zenon DEF Closed
<1>5. flushed(e, e) = e
  BY <1>2, Zenon DEF flushed
<1>6. Grouping(tokens, TermPlaces, CutPlaces, 0, e, e)
  BY <1>1, <1>2, GroupStarts
<1>7. Spans(tokens, TermPlaces, BreakPlaces, 0, e) /\ Pending(tokens, TermPlaces, BreakPlaces, 0, e)
  BY <1>1, <1>2, SpanStarts
<1>8. GroupedAs(tokens, TermPlaces, CutPlaces, BreakPlaces, 0, e, e, e)
  BY <1>3, <1>4, <1>5, <1>6, <1>7, Zenon DEF GroupedAs, Tight
<1> QED BY <1>2, <1>8

\* A token more is folded.
LEMMA ParseTokenGroups ==
  ASSUME PipelineInv, TilesInv, stage = "parse", folded < Len(tokens),
         GroupedAs(tokens, TermPlaces, CutPlaces, BreakPlaces, folded, sentence, sentences, sections),
         BlankRun(tokens, folded, newlines), parseToken(tokens[folded + 1])
  PROVE  /\ GroupedAs(tokens, TermPlaces, CutPlaces, BreakPlaces, folded + 1, sentence', sentences', sections')
         /\ BlankRun(tokens, folded + 1, newlines')
<1> DEFINE K == TermPlaces
           C == CutPlaces
           B == BreakPlaces
           f == folded
           g == folded + 1
           t == tokens[g]
           run == newlines + newlinesOf(t)
           L == Closed(sections, sentences)
           Q == flushed(sentence, sentences)
<1>1. /\ f \in Nat /\ sentence \in Seq(Terms)
      /\ Blocks(Sentences(Terms), sentences) /\ Sections(Terms, sections)
  BY DEF PipelineInv, Parsing
<1>2. PICK S : sentences \in Seq(S)
  BY <1>1 DEF Blocks
<1>3. PICK U : sections \in Seq(U)
  BY <1>1 DEF Sections
<1>4. g \in 1 .. Len(tokens) /\ g # 0 /\ g - 1 = f /\ g \in Nat
  <2>1. PICK X : tokens \in Seq(X)
    BY DEF TilesInv, IsSeq
  <2> QED BY <1>1, <2>1
<1>5. /\ Settled(tokens, K, C) /\ Settled(tokens, K, B)
  BY PlacesSettled
<1>6. /\ newlinesOf(t) \in Nat
      /\ t.kind \in {"word", "number", "punctuation", "symbol"} => newlinesOf(t) < 2
  BY <1>4, NewlinesOf
<1>7. newlines # 0 => t.kind # "whitespace"
  <2> SUFFICES ASSUME newlines # 0 PROVE t.kind # "whitespace"
    OBVIOUS
  <2>1. f # 0 /\ tokens[f].kind = "whitespace"
    BY Zenon DEF BlankRun
  <2>2. g # 1
    BY <1>4, <2>1
  <2> QED BY <1>4, <2>1, <2>2, BlankRunEnds
<1>8. /\ Grouping(tokens, K, C, f, L, sentence)
      /\ Spans(tokens, K, B, f, sections) /\ Pending(tokens, K, B, f, Q)
      /\ Tight(sentences) /\ \A i \in 1 .. Len(sections) : Tight(sections[i].parts)
  BY DEF GroupedAs
<1>9. L \in Seq(Sentences(Terms)) /\ Closed(sections, Q) = Shut(L, sentence)
  BY <1>1, ClosedSentence
<1>10. newlines \in Nat
  BY DEF BlankRun
<1>11. /\ g \in K <=> IsTerm(t)
       /\ g \in B <=> newlinesOf(t) >= 2
       /\ g \in C <=> newlinesOf(t) >= 2 \/ IsEnder(t)
  BY <1>4 DEF TermPlaces, BreakPlaces, CutPlaces
<1>12. /\ IsTerm(t) <=> t.kind \in {"word", "number"}
       /\ IsEnder(t) => t.kind = "punctuation"
  BY DEF IsTerm, IsEnder
<1>13. \/ /\ IsTerm(t)
          /\ sentence' = Append(sentence, t) /\ newlines' = 0
          /\ sentences' = sentences /\ sections' = sections
       \/ /\ IsEnder(t)
          /\ sentences' = Q /\ sentence' = <<>>
          /\ newlines' = 0 /\ sections' = sections
       \/ /\ t.kind \in {"symbol", "punctuation"} /\ ~IsEnder(t)
          /\ newlines' = 0 /\ sentence' = sentence /\ sentences' = sentences /\ sections' = sections
       \/ /\ t.kind = "whitespace" /\ run < 2
          /\ newlines' = run /\ sentence' = sentence /\ sentences' = sentences /\ sections' = sections
       \/ /\ t.kind = "whitespace" /\ run >= 2
          /\ sections' = flushed(Q, sections)
          /\ sentence' = <<>> /\ sentences' = <<>> /\ newlines' = 0
  BY Zenon DEF parseToken
<1> HIDE DEF K, C, B, L, Q, t
<1>14. newlines' = 0 => BlankRun(tokens, g, newlines')
  <2>1. 0 \in Nat
    OBVIOUS
  <2> QED BY <2>1, Zenon DEF BlankRun
<1>15. CASE IsTerm(t) /\ sentence' = Append(sentence, t) /\ newlines' = 0
            /\ sentences' = sentences /\ sections' = sections
  <2>1. g \in K /\ t \in Terms
    <3>1. t \in ToSet(tokens)
      <4>1. PICK X : tokens \in Seq(X)
        BY DEF TilesInv, IsSeq
      <4>2. g \in DOMAIN tokens
        BY <1>4, <4>1
      <4> QED BY <4>2, Zenon DEF ToSet, t
    <3> QED BY <1>11, <1>15, <3>1, Zenon DEF Terms
  <2> DEFINE R == flushed(Append(sentence, t), sentences)
  <2>2. /\ R # <<>> /\ Last(R).end = t.end
        /\ Q = <<>> => Head(R).start = t.start
        /\ Q # <<>> => Head(R).start = Head(Q).start
    BY <1>1, <1>2, <2>1, PendingTerm DEF Q
  <2> HIDE DEF R
  <2>3. Spans(tokens, K, B, g, sections) /\ Pending(tokens, K, B, g, R)
    BY <1>1, <1>5, <1>8, <2>1, <2>2, SpanTerm DEF t
  <2>4. Grouping(tokens, K, C, g, L, Append(sentence, t))
    BY <1>1, <1>5, <1>8, <2>1, GroupTerm DEF t
  <2>5. GroupedAs(tokens, K, C, B, g, sentence', sentences', sections')
    BY <1>8, <1>15, <2>3, <2>4, Zenon DEF GroupedAs, L, R
  <2> QED BY <1>14, <1>15, <2>5 DEF K, C, B
<1>16. CASE IsEnder(t) /\ sentences' = Q /\ sentence' = <<>> /\ newlines' = 0 /\ sections' = sections
  <2>1. newlinesOf(t) < 2 /\ ~IsTerm(t)
    BY <1>6, <1>12, <1>16
  <2>2. g \in C /\ g \notin K /\ g \notin B
    BY <1>6, <1>11, <1>16, <2>1
  <2>3. Grouping(tokens, K, C, g, Shut(L, sentence), <<>>)
    BY <1>1, <1>5, <1>8, <1>9, <2>2, GroupCut
  <2>4. Spans(tokens, K, B, g, sections) /\ Pending(tokens, K, B, g, Q)
    BY <1>1, <1>5, <1>8, <2>2, SpanSkip
  <2>5. flushed(<<>>, Q) = Q
    BY Zenon DEF flushed
  <2>6. Tight(Q)
    BY <1>2, <1>8, TightFlushed DEF Q
  <2>7. GroupedAs(tokens, K, C, B, g, sentence', sentences', sections')
    BY <1>8, <1>9, <1>16, <2>3, <2>4, <2>5, <2>6, Zenon DEF GroupedAs
  <2> QED BY <1>14, <1>16, <2>7 DEF K, C, B
<1>17. ASSUME g \notin K, g \notin B, g \notin C, BlankRun(tokens, g, newlines'),
              sentence' = sentence, sentences' = sentences, sections' = sections
       PROVE  /\ GroupedAs(tokens, K, C, B, g, sentence', sentences', sections')
              /\ BlankRun(tokens, g, newlines')
  <2>1. Grouping(tokens, K, C, g, L, sentence)
    BY <1>1, <1>5, <1>8, <1>17, GroupSkip
  <2>2. Spans(tokens, K, B, g, sections) /\ Pending(tokens, K, B, g, Q)
    BY <1>1, <1>5, <1>8, <1>17, SpanSkip
  <2> QED BY <1>8, <1>17, <2>1, <2>2, Zenon DEF GroupedAs, L, Q
<1>18. CASE /\ t.kind \in {"symbol", "punctuation"} /\ ~IsEnder(t)
            /\ newlines' = 0 /\ sentence' = sentence /\ sentences' = sentences /\ sections' = sections
  <2>1. newlinesOf(t) < 2 /\ ~IsTerm(t)
    BY <1>6, <1>12, <1>18
  <2>2. g \notin K /\ g \notin B /\ g \notin C
    BY <1>6, <1>11, <1>18, <2>1
  <2> QED BY <1>14, <1>17, <1>18, <2>2 DEF K, C, B
<1>19. CASE /\ t.kind = "whitespace" /\ run < 2
            /\ newlines' = run /\ sentence' = sentence /\ sentences' = sentences /\ sections' = sections
  <2>1. newlinesOf(t) < 2 /\ ~IsTerm(t) /\ ~IsEnder(t) /\ run \in Nat
    BY <1>6, <1>10, <1>12, <1>19
  <2>2. g \notin K /\ g \notin B /\ g \notin C
    BY <1>6, <1>11, <2>1
  <2>3. BlankRun(tokens, g, newlines')
    BY <1>4, <1>19, <2>1, Zenon DEF BlankRun, t
  <2> QED BY <1>17, <1>19, <2>2, <2>3 DEF K, C, B
<1>20. CASE /\ t.kind = "whitespace" /\ run >= 2
            /\ sections' = flushed(Q, sections)
            /\ sentence' = <<>> /\ sentences' = <<>> /\ newlines' = 0
  <2>1. newlinesOf(t) >= 2 /\ ~IsTerm(t)
    BY <1>6, <1>7, <1>10, <1>12, <1>20
  <2>2. g \notin K /\ g \in B /\ g \in C
    BY <1>11, <2>1
  <2>3. Grouping(tokens, K, C, g, Shut(L, sentence), <<>>)
    BY <1>1, <1>5, <1>8, <1>9, <2>2, GroupCut
  <2>4. Spans(tokens, K, B, g, flushed(Q, sections)) /\ Pending(tokens, K, B, g, <<>>)
    BY <1>1, <1>3, <1>5, <1>8, <2>2, SpanCut
  <2>5. Blocks(Sentences(Terms), Q)
    BY <1>1, SentenceFlushed DEF Q
  <2>6. Closed(flushed(Q, sections), <<>>) = Closed(sections, Q)
    BY <1>1, <2>5, ClosedSection
  <2>7. Tight(Q)
    BY <1>2, <1>8, TightFlushed DEF Q
  <2>8. \A i \in 1 .. Len(flushed(Q, sections)) : Tight(flushed(Q, sections)[i].parts)
    BY <1>3, <1>8, <2>7, TightSections
  <2>9. flushed(<<>>, <<>>) = <<>> /\ Tight(<<>>)
    <3>1. PICK e : e = <<>>
      OBVIOUS
    <3>2. \A k : k \notin 1 .. Len(e)
      BY <3>1
    <3>3. flushed(e, e) = e /\ Tight(e)
      BY <3>1, <3>2, Zenon DEF flushed, Tight
    <3> QED BY <3>1, <3>3
  <2>10. GroupedAs(tokens, K, C, B, g, sentence', sentences', sections')
    BY <1>9, <1>20, <2>3, <2>4, <2>6, <2>8, <2>9, Zenon DEF GroupedAs
  <2> QED BY <1>14, <1>20, <2>10 DEF K, C, B
<1> QED BY <1>13, <1>15, <1>16, <1>18, <1>19, <1>20

\* At the end of the tokens everything is closed.
LEMMA ParseDocuments ==
  ASSUME PipelineInv, TilesInv, stage = "parse", folded = Len(tokens),
         GroupedAs(tokens, TermPlaces, CutPlaces, BreakPlaces, folded, sentence, sentences, sections)
  PROVE  /\ Sections(Terms, flushed(flushed(sentence, sentences), sections))
         /\ DocumentAs(tokens, TermPlaces, CutPlaces, BreakPlaces,
                       flushed(flushed(sentence, sentences), sections))
<1> DEFINE K == TermPlaces
           C == CutPlaces
           B == BreakPlaces
           f == folded
           L == Closed(sections, sentences)
           Q == flushed(sentence, sentences)
           R == flushed(Q, sections)
<1>1. /\ f \in Nat /\ sentence \in Seq(Terms)
      /\ Blocks(Sentences(Terms), sentences) /\ Sections(Terms, sections)
  BY DEF PipelineInv, Parsing
<1>2. PICK S : sentences \in Seq(S)
  BY <1>1 DEF Blocks
<1>3. PICK U : sections \in Seq(U)
  BY <1>1 DEF Sections
<1>4. /\ Settled(tokens, K, C) /\ Settled(tokens, K, B)
  BY PlacesSettled
<1>5. /\ Grouping(tokens, K, C, f, L, sentence)
      /\ Spans(tokens, K, B, f, sections) /\ Pending(tokens, K, B, f, Q)
      /\ Tight(sentences) /\ \A i \in 1 .. Len(sections) : Tight(sections[i].parts)
  BY DEF GroupedAs
<1>6. L \in Seq(Sentences(Terms)) /\ Closed(sections, Q) = Shut(L, sentence)
  BY <1>1, ClosedSentence
<1>7. Blocks(Sentences(Terms), Q) /\ Sections(Terms, R)
  BY <1>1, SentenceFlushed, SectionFlushed
<1>8. allSentences(R) = Shut(L, sentence)
  <2>1. allSentences(R) = Closed(sections, Q)
    BY <1>1, <1>7, ClosedSection
  <2> QED BY <1>6, <2>1
<1> HIDE DEF K, C, B, L
<1>9. \A n \in K : n <= f
  BY <1>4 DEF Settled, Laid
<1>10. f <= Len(tokens)
  BY <1>1
<1>11. /\ Parted(tokens, C, Shut(L, sentence))
       /\ \A x : Member(Shut(L, sentence), x) <=> \E n \in K : n <= f /\ x = tokens[n]
  BY <1>1, <1>4, <1>5, <1>6, <1>10, ShutParted
<1>12. /\ \A i \in 1 .. Len(R) : SpanOf(tokens, K, B, f, R[i])
       /\ \A m, n \in K : m <= n /\ n <= f /\ Clear(B, m, n) =>
            \E i \in 1 .. Len(R) : Within(R[i], tokens[m]) /\ Within(R[i], tokens[n])
  BY <1>1, <1>3, <1>4, <1>5, SpanCloses
<1>13. Tight(Q)
  BY <1>2, <1>5, TightFlushed
<1>14. \A i \in 1 .. Len(R) : Tight(R[i].parts)
  BY <1>3, <1>5, <1>13, TightSections
<1> HIDE DEF R, Q
<1>15. Covered(tokens, K, B, R)
  BY <1>9, <1>12, Zenon DEF Covered
<1>16. DocumentAs(tokens, K, C, B, R)
  BY <1>8, <1>9, <1>11, <1>14, <1>15, Zenon DEF DocumentAs
<1> QED BY <1>7, <1>16 DEF K, C, B, R, Q

----------------------------------------------------------------------------
(* The AST is the documented grouping                                      *)

Lists(L, x) == \E l \in 1 .. Len(L) : L[l] = x

\* x is a sentence of one of the first n sections.
Occurs(doc, n, x) == \E s \in 1 .. n : \E k \in 1 .. Len(doc[s].parts) : doc[s].parts[k].parts = x

\* What two lists hold together.
LEMMA ListsJoin ==
  ASSUME NEW Q, NEW L \in Seq(Q), NEW M \in Seq(Q), NEW x
  PROVE  Lists(L \o M, x) <=> Lists(L, x) \/ Lists(M, x)
<1> DEFINE h == Len(L)
           g == Len(M)
           R == L \o M
<1>1. /\ h \in Nat /\ g \in Nat /\ Len(R) = h + g
      /\ \A l \in 1 .. h : R[l] = L[l]
      /\ \A l \in h + 1 .. h + g : R[l] = M[l - h]
  OBVIOUS
<1> HIDE DEF h, g, R
<1>2. ASSUME NEW l \in 1 .. Len(R), R[l] = x PROVE Lists(L, x) \/ Lists(M, x)
  <2>1. CASE l \in 1 .. h
    <3>1. L[l] = x
      BY <1>1, <1>2, <2>1, Zenon
    <3> QED BY <2>1, <3>1, Zenon DEF Lists, h
  <2>2. CASE l \notin 1 .. h
    <3>1. l \in h + 1 .. h + g /\ l - h \in 1 .. g
      BY <1>1, <2>2
    <3>2. M[l - h] = x
      BY <1>1, <1>2, <3>1, Zenon
    <3> QED BY <3>1, <3>2, Zenon DEF Lists, g
  <2> QED BY <2>1, <2>2
<1>3. ASSUME NEW l \in 1 .. h, L[l] = x PROVE Lists(R, x)
  <2>1. l \in 1 .. Len(R) /\ R[l] = x
    BY <1>1, <1>3
  <2> QED BY <2>1, Zenon DEF Lists
<1>4. ASSUME NEW l \in 1 .. g, M[l] = x PROVE Lists(R, x)
  <2>1. h + l \in h + 1 .. h + g /\ h + l \in 1 .. Len(R) /\ (h + l) - h = l
    BY <1>1
  <2>2. R[h + l] = x
    BY <1>1, <1>4, <2>1
  <2> QED BY <2>1, <2>2, Zenon DEF Lists
<1> QED BY <1>2, <1>3, <1>4, Zenon DEF Lists, h, g, R

\* allSentences gives the sentences of all sections.
LEMMA AllSentencesOccur ==
  ASSUME NEW T, NEW doc, Sections(T, doc), NEW x
  PROVE  Lists(allSentences(doc), x) <=> Occurs(doc, Len(doc), x)
<1> DEFINE Q == Sentences(T)
           b == Len(doc)
<1>1. PICK D : doc \in Seq(D) /\ \A y \in D : Blocks(Q, y.parts)
  BY DEF Sections
<1>2. b \in Nat /\ \A n \in 1 .. b : Blocks(Q, doc[n].parts)
  <2> HIDE DEF Q
  <2> QED BY <1>1
<1> HIDE DEF b
<1>3. PICK c : UpTo(doc, b, c) /\ allSentences(doc) = c[b]
  BY <1>2, AllSentencesRun DEF b
<1>4. c[0] = <<>> /\ \A n \in 1 .. b : c[n] = c[n - 1] \o terms(doc[n])
  BY <1>2, <1>3, UpToValues
<1> HIDE DEF Q
<1> DEFINE S == {n \in Nat : n <= b => c[n] \in Seq(Q) /\ (Lists(c[n], x) <=> Occurs(doc, n, x))}
<1>5. 0 \in S
  <2>1. c[0] \in Seq(Q)
    <3>1. \A X : <<>> \in Seq(X)
      OBVIOUS
    <3> QED BY <1>4, <3>1, Zenon
  <2>2. ~\E l \in 1 .. Len(c[0]) : c[0][l] = x
    BY <1>4
  <2>3. \A s : s \notin 1 .. 0
    OBVIOUS
  <2>4. ~Lists(c[0], x) /\ ~Occurs(doc, 0, x)
    BY <2>2, <2>3, Zenon DEF Lists, Occurs
  <2> QED BY <2>1, <2>4
<1>6. ASSUME NEW n \in Nat, n \in S PROVE n + 1 \in S
  <2> SUFFICES ASSUME n + 1 <= b
               PROVE  c[n + 1] \in Seq(Q) /\ (Lists(c[n + 1], x) <=> Occurs(doc, n + 1, x))
    OBVIOUS
  <2> DEFINE g == n + 1
             p == doc[g].parts
             M == PartsOf(p)
  <2>1. /\ g \in 1 .. b /\ g - 1 = n
        /\ c[n] \in Seq(Q) /\ (Lists(c[n], x) <=> Occurs(doc, n, x))
        /\ \A s : s \in 1 .. g <=> s \in 1 .. n \/ s = g
    BY <1>2, <1>6
  <2> HIDE DEF S
  <2>2. /\ M \in Seq(Q) /\ Len(M) = Len(p) /\ \A k \in 1 .. Len(p) : M[k] = p[k].parts
    <3>1. Blocks(Q, doc[g].parts)
      BY <1>2, <2>1, Zenon
    <3> QED BY <3>1, PartsType
  <2>3. terms(doc[g]) = M
    BY Zenon DEF terms, PartsOf
  <2> HIDE DEF M, p, g
  <2>4. c[g] = c[n] \o M
    BY <1>4, <2>1, <2>3, Zenon
  <2>5. Lists(c[g], x) <=> Lists(c[n], x) \/ Lists(M, x)
    BY <2>1, <2>2, <2>4, ListsJoin
  <2>6. Lists(M, x) <=> \E k \in 1 .. Len(p) : p[k].parts = x
    BY <2>2, Zenon DEF Lists
  <2>7. Occurs(doc, g, x) <=> Occurs(doc, n, x) \/ \E k \in 1 .. Len(p) : p[k].parts = x
    BY <2>1, Zenon DEF Occurs, p
  <2>8. c[g] \in Seq(Q)
    BY <2>1, <2>2, <2>4
  <2> QED BY <2>1, <2>5, <2>6, <2>7, <2>8 DEF g
<1>7. b \in S
  <2> HIDE DEF S
  <2> QED BY <1>2, <1>5, <1>6, SetInduction
<1> QED BY <1>2, <1>3, <1>7 DEF b

\* The properties' words for separators.
LEMMA SeparatorsAre ==
  ASSUME TilesInv, NEW t, NEW u
  PROVE  /\ Breaks(t, u) <=> Split(tokens, BreakPlaces, t, u)
         /\ Breaks(t, u) \/ Ends(t, u) <=> Split(tokens, CutPlaces, t, u)
<1>1. DOMAIN tokens = 1 .. Len(tokens)
  <2>1. PICK X : tokens \in Seq(X)
    BY DEF TilesInv, IsSeq
  <2> QED BY <2>1
<1>2. \A n : n \in Between(t, u) <=> n \in 1 .. Len(tokens) /\ precedes(t, tokens[n]) /\ precedes(tokens[n], u)
  BY <1>1, Zenon DEF Between
<1>3. Breaks(t, u) <=> Split(tokens, BreakPlaces, t, u)
  BY <1>2, Zenon DEF Breaks, Split, BreakPlaces
<1>4. Breaks(t, u) \/ Ends(t, u) <=> Split(tokens, CutPlaces, t, u)
  BY <1>2, Zenon DEF Breaks, Ends, Split, CutPlaces
<1> QED BY <1>3, <1>4

\* The terms by their places.
LEMMA TermsAre ==
  ASSUME TilesInv, NEW t
  PROVE  t \in Terms <=> \E n \in TermPlaces : t = tokens[n]
<1>1. DOMAIN tokens = 1 .. Len(tokens)
  <2>1. PICK X : tokens \in Seq(X)
    BY DEF TilesInv, IsSeq
  <2> QED BY <2>1
<1>2. t \in ToSet(tokens) <=> \E n \in 1 .. Len(tokens) : tokens[n] = t
  BY <1>1, Zenon DEF ToSet
<1> QED BY <1>2, Zenon DEF Terms, TermPlaces

\* Two terms share a section iff no break separates them.
LEMMA SectionShared ==
  ASSUME NEW tk, NEW K, NEW B, Settled(tk, K, B), NEW secs, Covered(tk, K, B, secs),
         NEW m \in K, NEW n \in K, m < n
  PROVE  (\E i \in 1 .. Len(secs) : Within(secs[i], tk[m]) /\ Within(secs[i], tk[n]))
           <=> ~Split(tk, B, tk[m], tk[n])
<1>1. /\ Laid(tk) /\ K \subseteq 1 .. Len(tk) /\ B \subseteq 1 .. Len(tk)
      /\ \A k \in K : k \notin B
      /\ \A k, l \in 1 .. Len(tk) : /\ tk[k].start <= tk[l].start <=> k <= l
                                    /\ tk[k].end <= tk[l].end <=> k <= l
  BY DEF Settled, Laid
<1>2. m \in 1 .. Len(tk) /\ n \in 1 .. Len(tk)
  BY <1>1
<1>3. Split(tk, B, tk[m], tk[n]) <=> \E c \in B : m < c /\ c < n
  BY <1>1, <1>2, SplitAt
<1>4. ASSUME NEW i \in 1 .. Len(secs), Within(secs[i], tk[m]), Within(secs[i], tk[n])
      PROVE  ~\E c \in B : m < c /\ c < n
  <2>1. PICK a \in K, b \in K : /\ Clear(B, a, b)
                                /\ secs[i].start = tk[a].start /\ secs[i].end = tk[b].end
    BY Zenon DEF Covered, SpanOf
  <2>2. tk[a].start <= tk[m].start /\ tk[n].end <= tk[b].end
    BY <1>4, <2>1, Zenon DEF Within
  <2>3. a \in 1 .. Len(tk) /\ b \in 1 .. Len(tk)
    BY <1>1
  <2>4. a <= m /\ n <= b
    BY <1>1, <1>2, <2>2, <2>3
  <2>5. \A c \in B : ~(a <= c /\ c <= b) /\ c \in Nat
    BY <1>1, <2>1 DEF Clear
  <2> QED BY <1>2, <2>3, <2>4, <2>5
<1>5. ASSUME ~\E c \in B : m < c /\ c < n
      PROVE  \E i \in 1 .. Len(secs) : Within(secs[i], tk[m]) /\ Within(secs[i], tk[n])
  <2>1. \A c \in B : c \in Nat /\ c # m /\ c # n /\ ~(m < c /\ c < n)
    BY <1>1, <1>5
  <2>2. Clear(B, m, n) /\ m <= n
    BY <1>2, <2>1 DEF Clear
  <2> QED BY <2>2, Zenon DEF Covered
<1> QED BY <1>3, <1>4, <1>5

\* Two terms lie in one sentence iff no separator does.
LEMMA SentenceShared ==
  ASSUME NEW tk, NEW K, NEW C, Settled(tk, K, C), NEW T, NEW L \in Seq(Sentences(T)),
         Parted(tk, C, L), \A x : Member(L, x) <=> \E n \in K : x = tk[n],
         NEW m \in K, NEW n \in K, m < n
  PROVE  (\E k \in 1 .. Len(L) : /\ L[k][1].start <= tk[m].start /\ tk[m].end <= L[k][Len(L[k])].end
                                 /\ L[k][1].start <= tk[n].start /\ tk[n].end <= L[k][Len(L[k])].end)
           <=> ~Split(tk, C, tk[m], tk[n])
<1>1. /\ Laid(tk) /\ K \subseteq 1 .. Len(tk) /\ C \subseteq 1 .. Len(tk) /\ Len(tk) \in Nat
      /\ \A k, l \in 1 .. Len(tk) : /\ tk[k].start <= tk[l].start <=> k <= l
                                    /\ tk[k].end <= tk[l].end <=> k <= l
                                    /\ precedes(tk[k], tk[l]) <=> k < l
  BY DEF Settled, Laid
<1>2. m \in 1 .. Len(tk) /\ n \in 1 .. Len(tk)
  BY <1>1
<1>3. \A k \in 1 .. Len(L) : Len(L[k]) \in Nat /\ 1 \in 1 .. Len(L[k]) /\ Len(L[k]) \in 1 .. Len(L[k])
  <2> SUFFICES ASSUME NEW k \in 1 .. Len(L)
               PROVE  Len(L[k]) \in Nat /\ 1 \in 1 .. Len(L[k]) /\ Len(L[k]) \in 1 .. Len(L[k])
    OBVIOUS
  <2>1. L[k] \in Sentences(T)
    <3> DEFINE Q == Sentences(T)
    <3>1. L \in Seq(Q)
      OBVIOUS
    <3> HIDE DEF Q
    <3> QED BY <3>1 DEF Q
  <2> QED BY <2>1 DEF Sentences
<1>4. \A k \in 1 .. Len(L) : \A i \in 1 .. Len(L[k]) : \E a \in K : L[k][i] = tk[a]
  BY Zenon DEF Member
<1>5. ASSUME NEW k \in 1 .. Len(L),
             L[k][1].start <= tk[m].start, tk[n].end <= L[k][Len(L[k])].end
      PROVE  ~Split(tk, C, tk[m], tk[n])
  <2>1. 1 \in 1 .. Len(L[k]) /\ Len(L[k]) \in 1 .. Len(L[k])
    BY <1>3
  <2>2. PICK a \in K : L[k][1] = tk[a]
    BY <1>4, <2>1, Zenon
  <2>3. PICK b \in K : L[k][Len(L[k])] = tk[b]
    BY <1>4, <2>1, Zenon
  <2>4. ~Split(tk, C, tk[a], tk[b])
    <3>1. ~Split(tk, C, L[k][1], L[k][Len(L[k])])
      BY <2>1, Zenon DEF Parted
    <3> QED BY <2>2, <2>3, <3>1
  <2>5. tk[a].start <= tk[m].start /\ tk[n].end <= tk[b].end
    BY <1>5, <2>2, <2>3, Zenon
  <2>6. a \in 1 .. Len(tk) /\ b \in 1 .. Len(tk)
    BY <1>1
  <2>7. a <= m /\ n <= b
    BY <1>1, <1>2, <2>5, <2>6
  <2>8. ~\E c \in C : a < c /\ c < b
    BY <1>1, <2>4, <2>6, SplitAt
  <2>9. \A c \in C : c \in Nat
    BY <1>1
  <2>10. ~\E c \in C : m < c /\ c < n
    BY <1>2, <2>6, <2>7, <2>8, <2>9
  <2> QED BY <1>1, <1>2, <2>10, SplitAt
<1>6. ASSUME ~Split(tk, C, tk[m], tk[n])
      PROVE  \E k \in 1 .. Len(L) : /\ L[k][1].start <= tk[m].start /\ tk[m].end <= L[k][Len(L[k])].end
                                    /\ L[k][1].start <= tk[n].start /\ tk[n].end <= L[k][Len(L[k])].end
  <2>1. PICK k \in 1 .. Len(L) : \E i \in 1 .. Len(L[k]) : L[k][i] = tk[m]
    BY Zenon DEF Member
  <2>2. PICK i \in 1 .. Len(L[k]) : L[k][i] = tk[m]
    BY <2>1
  <2>3. PICK l \in 1 .. Len(L) : \E j \in 1 .. Len(L[l]) : L[l][j] = tk[n]
    BY Zenon DEF Member
  <2>4. PICK j \in 1 .. Len(L[l]) : L[l][j] = tk[n]
    BY <2>3
  <2>5. ~(k < l)
    <3>1. k < l => Split(tk, C, L[k][i], L[l][j])
      BY Zenon DEF Parted
    <3> QED BY <1>6, <2>2, <2>4, <3>1
  <2>6. ~(l < k)
    <3>1. ~precedes(tk[n], tk[m])
      BY <1>1, <1>2
    <3>2. l < k => precedes(L[l][j], L[k][i])
      BY Zenon DEF Parted
    <3> QED BY <2>2, <2>4, <3>1, <3>2
  <2>7. k = l
    BY <2>5, <2>6
  <2> DEFINE h == Len(L[k])
  <2>8. h \in Nat /\ 1 \in 1 .. h /\ h \in 1 .. h
    BY <1>3
  <2>9. PICK a \in K : L[k][1] = tk[a]
    BY <1>4, <2>8, Zenon
  <2>10. PICK b \in K : L[k][h] = tk[b]
    BY <1>4, <2>8, Zenon
  <2>11. \A p, q \in 1 .. h : p < q => precedes(L[k][p], L[k][q])
    BY Zenon DEF Parted
  <2>12. i \in 1 .. h /\ j \in 1 .. h /\ L[k][j] = tk[n]
    BY <2>4, <2>7, Zenon
  <2> HIDE DEF h
  <2>13. (i = 1 \/ 1 < i) /\ (j = 1 \/ 1 < j) /\ (i = h \/ i < h) /\ (j = h \/ j < h)
    BY <2>8, <2>12
  <2>14. a \in 1 .. Len(tk) /\ b \in 1 .. Len(tk)
    BY <1>1
  <2>15. ASSUME NEW p \in 1 .. h, NEW q \in 1 .. h, NEW c \in 1 .. Len(tk), NEW d \in 1 .. Len(tk),
                L[k][p] = tk[c], L[k][q] = tk[d], p = q \/ p < q
         PROVE  tk[c].start <= tk[d].start /\ tk[c].end <= tk[d].end
    <3>1. CASE p = q
      <4>1. tk[c] = tk[d]
        BY <2>15, <3>1, Zenon
      <4>2. c <= c
        OBVIOUS
      <4>3. tk[c].start <= tk[c].start /\ tk[c].end <= tk[c].end
        BY <1>1, <4>2
      <4> QED BY <4>1, <4>3, Zenon
    <3>2. CASE p < q
      <4>1. precedes(tk[c], tk[d])
        BY <2>11, <2>15, <3>2, Zenon
      <4>2. c <= d
        BY <1>1, <4>1
      <4> QED BY <1>1, <4>2
    <3> QED BY <2>15, <3>1, <3>2
  <2>16. /\ tk[a].start <= tk[m].start /\ tk[a].start <= tk[n].start
         /\ tk[m].end <= tk[b].end /\ tk[n].end <= tk[b].end
    BY <1>2, <2>2, <2>8, <2>9, <2>10, <2>12, <2>13, <2>14, <2>15, Zenon
  <2> QED BY <2>9, <2>10, <2>16, Zenon DEF h
<1> QED BY <1>5, <1>6, Zenon

\* A document's AST is the documented grouping.
LEMMA DocumentGroups ==
  ASSUME TilesInv, Sections(Terms, sections), todo = allSentences(sections),
         DocumentAs(tokens, TermPlaces, CutPlaces, BreakPlaces, sections)
  PROVE  AstGroupsAsDocumented
<1> DEFINE K == TermPlaces
           C == CutPlaces
           B == BreakPlaces
           L == allSentences(sections)
           Q == Sentences(Terms)
<1>1. L \in Seq(Q)
  BY AllSentencesType
<1>2. DOMAIN L = 1 .. Len(L) /\ \A k \in 1 .. Len(L) : L[k] \in Q
  <2> HIDE DEF L, Q
  <2> QED BY <1>1
<1>3. \A k \in 1 .. Len(L) : DOMAIN L[k] = 1 .. Len(L[k])
  BY <1>2 DEF Sentences
<1>4. Settled(tokens, K, C) /\ Settled(tokens, K, B)
  BY PlacesSettled
<1>5. /\ Parted(tokens, C, L)
      /\ \A x : Member(L, x) <=> \E n \in K : x = tokens[n]
      /\ Covered(tokens, K, B, sections)
      /\ \A i \in 1 .. Len(sections) : Tight(sections[i].parts)
  BY DEF DocumentAs
<1>6. PICK U : sections \in Seq(U) /\ \A s \in U : Blocks(Q, s.parts)
  BY DEF Sections
<1>7. DOMAIN sections = 1 .. Len(sections) /\ \A s \in 1 .. Len(sections) : Blocks(Q, sections[s].parts)
  BY <1>6
<1>8. \A s \in 1 .. Len(sections) : DOMAIN sections[s].parts = 1 .. Len(sections[s].parts)
  <2> SUFFICES ASSUME NEW s \in 1 .. Len(sections)
               PROVE  DOMAIN sections[s].parts = 1 .. Len(sections[s].parts)
    OBVIOUS
  <2>1. PICK V : sections[s].parts \in Seq(V)
    BY <1>7 DEF Blocks
  <2> QED BY <2>1
<1>9. \A x : Lists(L, x) <=> Occurs(sections, Len(sections), x)
  BY AllSentencesOccur
<1> HIDE DEF K, C, B, L, Q
<1>10. todo = L
  BY DEF L
<1>11. Terms = UNION {ToSet(todo[k]) : k \in DOMAIN todo}
  <2>1. ASSUME NEW x PROVE x \in Terms <=> Member(L, x)
    <3>1. x \in Terms <=> \E n \in K : x = tokens[n]
      BY TermsAre DEF K
    <3> QED BY <1>5, <3>1, Zenon
  <2>2. ASSUME NEW x PROVE Member(L, x) <=> \E k \in DOMAIN L : x \in ToSet(L[k])
    BY <1>2, <1>3, Zenon DEF Member, ToSet
  <2>3. \A x : x \in Terms <=> x \in UNION {ToSet(L[k]) : k \in DOMAIN L}
    BY <2>1, <2>2, Zenon
  <2> QED BY <1>10, <2>3, Zenon
<1>12. ASSUME NEW k \in DOMAIN todo, NEW l \in DOMAIN todo, NEW i \in DOMAIN todo[k],
              NEW j \in DOMAIN todo[l], k < l \/ (k = l /\ i < j)
       PROVE  precedes(todo[k][i], todo[l][j])
  <2>1. k \in 1 .. Len(L) /\ l \in 1 .. Len(L) /\ i \in 1 .. Len(L[k]) /\ j \in 1 .. Len(L[l])
    BY <1>2, <1>3, <1>10, Zenon
  <2>2. CASE k < l
    BY <1>5, <1>10, <2>1, <2>2, Zenon DEF Parted
  <2>3. CASE k = l /\ i < j
    BY <1>5, <1>10, <2>1, <2>3, Zenon DEF Parted
  <2> QED BY <1>12, <2>2, <2>3
<1>13. ASSUME NEW s \in 1 .. Len(sections), NEW k \in 1 .. Len(sections[s].parts),
              NEW l \in 1 .. Len(L), sections[s].parts[k].parts = L[l], NEW x
       PROVE  Within(sections[s].parts[k], x)
                <=> L[l][1].start <= x.start /\ x.end <= L[l][Len(L[l])].end
  <2> DEFINE p == sections[s].parts[k]
             y == L[l]
  <2>1. p.start = Head(p.parts).start /\ p.end = Last(p.parts).end /\ p.parts = y
    BY <1>5, <1>13, Zenon DEF Tight
  <2>2. y \in Seq(Terms) /\ y # <<>>
    BY <1>2 DEF Q, Sentences
  <2> HIDE DEF p, y
  <2>3. Head(y) = y[1] /\ Last(y) = y[Len(y)]
    BY <2>2 DEF Last
  <2>4. p.start = y[1].start /\ p.end = y[Len(y)].end
    BY <2>1, <2>3, Zenon
  <2> QED BY <2>4, Zenon DEF Within, p, y
<1>14. ASSUME NEW t \in Terms, NEW u \in Terms, precedes(t, u)
       PROVE  /\ (\E s \in DOMAIN sections : Within(sections[s], t) /\ Within(sections[s], u))
                   <=> ~Breaks(t, u)
              /\ (\E s \in DOMAIN sections : \E k \in DOMAIN sections[s].parts :
                    LET p == sections[s].parts[k] IN Within(p, t) /\ Within(p, u))
                   <=> ~Breaks(t, u) /\ ~Ends(t, u)
  <2>1. PICK m \in K : t = tokens[m]
    BY TermsAre, Zenon DEF K
  <2>2. PICK n \in K : u = tokens[n]
    BY TermsAre, Zenon DEF K
  <2>3. m < n
    <3>1. m \in 1 .. Len(tokens) /\ n \in 1 .. Len(tokens)
      BY <1>4 DEF Settled
    <3> QED BY <1>4, <1>14, <2>1, <2>2, <3>1 DEF Settled, Laid
  <2>4. /\ Breaks(t, u) <=> Split(tokens, B, t, u)
        /\ Breaks(t, u) \/ Ends(t, u) <=> Split(tokens, C, t, u)
    BY SeparatorsAre DEF B, C
  <2>5. (\E s \in 1 .. Len(sections) : Within(sections[s], tokens[m]) /\ Within(sections[s], tokens[n]))
          <=> ~Split(tokens, B, tokens[m], tokens[n])
    BY <1>4, <1>5, <2>3, SectionShared
  <2> DEFINE In(k, x) == L[k][1].start <= x.start /\ x.end <= L[k][Len(L[k])].end
  <2>6. (\E k \in 1 .. Len(L) : In(k, tokens[m]) /\ In(k, tokens[n]))
          <=> ~Split(tokens, C, tokens[m], tokens[n])
    <3>1. L \in Seq(Sentences(Terms))
      BY <1>1 DEF Q
    <3>2. (\E k \in 1 .. Len(L) :
              /\ L[k][1].start <= tokens[m].start /\ tokens[m].end <= L[k][Len(L[k])].end
              /\ L[k][1].start <= tokens[n].start /\ tokens[n].end <= L[k][Len(L[k])].end)
           <=> ~Split(tokens, C, tokens[m], tokens[n])
      BY <1>4, <1>5, <2>3, <3>1, SentenceShared
    <3> QED BY <3>2, Zenon
  <2>7. (\E s \in DOMAIN sections : \E k \in DOMAIN sections[s].parts :
           LET p == sections[s].parts[k] IN Within(p, t) /\ Within(p, u))
          <=> \E k \in 1 .. Len(L) : In(k, t) /\ In(k, u)
    <3>1. ASSUME NEW s \in 1 .. Len(sections), NEW k \in 1 .. Len(sections[s].parts),
                 Within(sections[s].parts[k], t), Within(sections[s].parts[k], u)
          PROVE  \E l \in 1 .. Len(L) : In(l, t) /\ In(l, u)
      <4>1. Occurs(sections, Len(sections), sections[s].parts[k].parts)
        BY Zenon DEF Occurs
      <4>2. PICK l \in 1 .. Len(L) : L[l] = sections[s].parts[k].parts
        BY <1>9, <4>1, Zenon DEF Lists
      <4>3. In(l, t) /\ In(l, u)
        BY <1>13, <3>1, <4>2, Zenon
      <4> QED BY <4>3
    <3>2. ASSUME NEW l \in 1 .. Len(L), In(l, t), In(l, u)
          PROVE  \E s \in 1 .. Len(sections) : \E k \in 1 .. Len(sections[s].parts) :
                   Within(sections[s].parts[k], t) /\ Within(sections[s].parts[k], u)
      <4>1. Lists(L, L[l])
        BY Zenon DEF Lists
      <4>2. PICK s \in 1 .. Len(sections) : \E k \in 1 .. Len(sections[s].parts) : sections[s].parts[k].parts = L[l]
        BY <1>9, <4>1, Zenon DEF Occurs
      <4>3. PICK k \in 1 .. Len(sections[s].parts) : sections[s].parts[k].parts = L[l]
        BY <4>2
      <4>4. Within(sections[s].parts[k], t) /\ Within(sections[s].parts[k], u)
        BY <1>13, <3>2, <4>3, Zenon
      <4> QED BY <4>4
    <3> HIDE DEF In
    <3> QED BY <1>7, <1>8, <3>1, <3>2, Zenon
  <2> HIDE DEF In
  <2> QED BY <1>7, <2>1, <2>2, <2>4, <2>5, <2>6, <2>7, Zenon
<1> QED BY <1>11, <1>12, <1>14, Zenon DEF AstGroupsAsDocumented

----------------------------------------------------------------------------
(* Ordered lists                                                           *)

Strict(R) == \A x, y : <<x, y>> \in R => <<y, x>> \notin R

\* pr lists the members of D, each once, in the order R.
InOrder(pr, D, R) ==
  /\ pr \in Seq(D)
  /\ \A x \in D : \E i \in 1 .. Len(pr) : pr[i] = x
  /\ \A i, j \in 1 .. Len(pr) : i < j => <<pr[i], pr[j]>> \in R

\* A later member.
LEMMA ListNext ==
  ASSUME NEW pr, NEW D, NEW R, InOrder(pr, D, R), NEW x, \A y \in D : <<y, x>> \in R
  PROVE  InOrder(Append(pr, x), D \cup {x}, R)
<1> DEFINE h == Len(pr)
           E == D \cup {x}
           qr == Append(pr, x)
<1>1. /\ pr \in Seq(D) /\ \A y \in D : \E i \in 1 .. h : pr[i] = y
      /\ \A i, j \in 1 .. h : i < j => <<pr[i], pr[j]>> \in R
  BY DEF InOrder
<1>2. h \in Nat /\ \A i \in 1 .. h : pr[i] \in D
  BY <1>1
<1>3. pr \in Seq(E) /\ x \in E /\ \A y : y \in E <=> y \in D \/ y = x
  BY <1>1
<1> HIDE DEF E
<1>4. /\ qr \in Seq(E) /\ Len(qr) = h + 1 /\ (\A i \in 1 .. h : qr[i] = pr[i]) /\ qr[h + 1] = x
  BY <1>3
<1> HIDE DEF h, qr
<1>5. \A i : i \in 1 .. Len(qr) <=> i \in 1 .. h \/ i = h + 1
  BY <1>2, <1>4
<1>6. \A y \in E : \E i \in 1 .. Len(qr) : qr[i] = y
  BY <1>1, <1>3, <1>4, <1>5, Zenon
<1>7. ASSUME NEW i \in 1 .. Len(qr), NEW j \in 1 .. Len(qr), i < j PROVE <<qr[i], qr[j]>> \in R
  <2>1. i \in 1 .. h /\ (j \in 1 .. h \/ j = h + 1)
    BY <1>2, <1>4, <1>7
  <2>2. CASE j \in 1 .. h
    <3>1. <<pr[i], pr[j]>> \in R /\ qr[i] = pr[i] /\ qr[j] = pr[j]
      BY <1>1, <1>4, <1>7, <2>1, <2>2
    <3> QED BY <3>1
  <2>3. CASE j = h + 1
    <3>1. pr[i] \in D /\ qr[i] = pr[i] /\ qr[j] = x
      BY <1>2, <1>4, <2>1, <2>3
    <3> QED BY <3>1
  <2> QED BY <2>1, <2>2, <2>3
<1>8. InOrder(qr, E, R)
  BY <1>4, <1>6, <1>7, Zenon DEF InOrder
<1> QED BY <1>8 DEF qr, E

\* Each member is at its rank.
LEMMA ListRank ==
  ASSUME NEW pr, NEW D, NEW R, Strict(R), InOrder(pr, D, R)
  PROVE  /\ Cardinality(D) = Len(pr)
         /\ \A i \in 1 .. Len(pr) : Cardinality({y \in D : <<y, pr[i]>> \in R}) = i - 1
<1> DEFINE n == Len(pr)
<1>1. /\ pr \in Seq(D) /\ \A y \in D : \E i \in 1 .. n : pr[i] = y
      /\ \A i, j \in 1 .. n : i < j => <<pr[i], pr[j]>> \in R
  BY DEF InOrder
<1>2. n \in Nat /\ \A i \in 1 .. n : pr[i] \in D
  BY <1>1
<1> HIDE DEF n
<1>3. ASSUME NEW i \in 1 .. n, NEW j \in 1 .. n PROVE <<pr[i], pr[j]>> \in R <=> i < j
  <2>1. CASE i < j
    BY <1>1, <2>1
  <2>2. CASE i = j
    <3>1. <<pr[i], pr[j]>> \notin R
      BY <2>2, Zenon DEF Strict
    <3>2. ~(i < j)
      BY <1>2, <2>2
    <3> QED BY <3>1, <3>2
  <2>3. CASE j < i
    <3>1. <<pr[j], pr[i]>> \in R
      BY <1>1, <2>3
    <3>2. <<pr[i], pr[j]>> \notin R
      BY <3>1, Zenon DEF Strict
    <3> QED BY <1>2, <2>3, <3>2
  <2> QED BY <1>2, <2>1, <2>2, <2>3
<1>4. \A i, j \in 1 .. n : pr[i] = pr[j] => i = j
  <2> SUFFICES ASSUME NEW i \in 1 .. n, NEW j \in 1 .. n, pr[i] = pr[j] PROVE i = j
    OBVIOUS
  <2>1. <<pr[i], pr[j]>> \in R <=> <<pr[j], pr[i]>> \in R
    BY Zenon
  <2>2. i < j <=> j < i
    BY <1>3, <2>1, Zenon
  <2> QED BY <1>2, <2>2
<1>5. ASSUME NEW m \in 0 .. n, NEW X, \A x : x \in X <=> \E j \in 1 .. m : pr[j] = x
      PROVE  Cardinality(X) = m
  <2> DEFINE f == [j \in 1 .. m |-> pr[j]]
  <2>1. f \in [1 .. m -> X] /\ \A x \in X : \E j \in 1 .. m : f[j] = x
    BY <1>5
  <2>2. \A i, j \in 1 .. m : f[i] = f[j] => i = j
    BY <1>2, <1>4, <1>5
  <2> HIDE DEF f
  <2>3. f \in Bijection(1 .. m, X)
    BY <2>1, <2>2, Fun_IsBij, Fun_IsInj, Fun_IsSurj
  <2>4. IsFiniteSet(1 .. m) /\ Cardinality(1 .. m) = m
    BY <1>2, FS_Interval
  <2> QED BY <2>3, <2>4, FS_Bijection DEF ExistsBijection
<1>6. Cardinality(D) = n
  BY <1>1, <1>2, <1>5
<1>7. ASSUME NEW i \in 1 .. n PROVE Cardinality({y \in D : <<y, pr[i]>> \in R}) = i - 1
  <2> DEFINE X == {y \in D : <<y, pr[i]>> \in R}
  <2>1. \A x : x \in X <=> x \in D /\ <<x, pr[i]>> \in R
    BY Zenon
  <2> HIDE DEF X
  <2>2. \A j \in 1 .. n : pr[j] \in X <=> j < i
    BY <1>2, <1>3, <2>1
  <2>3. i - 1 \in 0 .. n /\ \A j : j \in 1 .. i - 1 <=> j \in 1 .. n /\ j < i
    BY <1>2
  <2>4. \A x : x \in X <=> \E j \in 1 .. i - 1 : pr[j] = x
    BY <1>1, <2>1, <2>2, <2>3, Zenon
  <2>5. Cardinality(X) = i - 1
    BY <1>5, <2>3, <2>4
  <2> QED BY <2>5 DEF X
<1> QED BY <1>6, <1>7 DEF n

----------------------------------------------------------------------------
(* The graph of a list of terms.  Tm is the set of the terms, nm gives      *)
(* their texts, TO their order, and P holds the pairs of different texts    *)
(* of a sentence.                                                          *)

\* TO orders Tm.
Linear(Tm, TO) ==
  /\ \A x, y : <<x, y>> \in TO => x \in Tm /\ y \in Tm /\ <<y, x>> \notin TO
  /\ \A x, y, z : <<x, y>> \in TO /\ <<y, z>> \in TO => <<x, z>> \in TO
  /\ \A x, y \in Tm : x = y \/ <<x, y>> \in TO \/ <<y, x>> \in TO

FirstsOf(Tm, nm, TO) == {t \in Tm : \A u \in Tm : <<u, t>> \in TO => nm[u] # nm[t]}
Prior(Tm, TO, x)     == {u \in Tm : <<u, x>> \in TO}
Until(Tm, TO, x)     == {u \in Tm : u = x \/ <<u, x>> \in TO}
Lex(P, TO)           == {r \in P \X P : \/ <<r[1][1], r[2][1]>> \in TO
                                        \/ r[1][1] = r[2][1] /\ <<r[1][2], r[2][2]>> \in TO}

\* Node i is made from the term fs[i].
NodesOf(ns, nm, fs) ==
  /\ ns \in Seq(ToSet(ns)) /\ Len(ns) = Len(fs)
  /\ \A i \in 1 .. Len(ns) : /\ ns[i].id = i - 1 /\ ns[i].text = nm[fs[i]]
                             /\ ns[i].start = fs[i].start /\ ns[i].end = fs[i].end

\* The nodes are those of the terms in W.
Listed(ns, Tm, nm, TO, W) ==
  /\ \A t \in W : \E i \in 1 .. Len(ns) : ns[i].text = nm[t]
  /\ \E fs : InOrder(fs, FirstsOf(Tm, nm, TO) \cap W, TO) /\ NodesOf(ns, nm, fs)

\* Edge e is that of the pair p.
EdgeOf(e, ns, Tm, nm, TO, p) ==
  /\ e.subject + 1 \in 1 .. Len(ns) /\ ns[e.subject + 1].text = nm[p[1]]
  /\ e.object + 1 \in 1 .. Len(ns) /\ ns[e.object + 1].text = nm[p[2]]
  /\ e.start = ns[e.subject + 1].start /\ e.end = ns[e.subject + 1].end
  /\ \A m \in Tm : {x \in Tm : <<p[1], x>> \in TO /\ <<x, p[2]>> \in TO} = {m} => e.predicate = nm[m]
  /\ (\A m \in Tm : {x \in Tm : <<p[1], x>> \in TO /\ <<x, p[2]>> \in TO} # {m}) => e.predicate = RelatedTo

\* The edges are those of the pairs in D, in order.
Recorded(es, ns, Tm, nm, TO, P, D) ==
  /\ es \in Seq(ToSet(es))
  /\ \E pr : /\ InOrder(pr, D, Lex(P, TO)) /\ Len(es) = Len(pr)
             /\ \A i \in 1 .. Len(es) : EdgeOf(es[i], ns, Tm, nm, TO, pr[i])

\* Each node stays where it is.
Begins(ns, n2) == Len(ns) \in Nat /\ Len(n2) \in Nat /\ Len(ns) <= Len(n2) /\ \A i \in 1 .. Len(ns) : n2[i] = ns[i]

\* ensure_node lists one more term, the next one or a listed one.
LEMMA NodeListed ==
  ASSUME NEW ns, NEW Tm, NEW nm, NEW TO, NEW W, NEW V, NEW t \in Tm,
         Linear(Tm, TO), nm[t] = lowered(t), Listed(ns, Tm, nm, TO, W), W \subseteq Tm,
         t \in W \/ W = Prior(Tm, TO, t), \A u : u \in V <=> u \in W \/ u = t
  PROVE  /\ Listed(ensure_node(ns, t), Tm, nm, TO, V)
         /\ Begins(ns, ensure_node(ns, t))
<1> DEFINE F == FirstsOf(Tm, nm, TO)
           n2 == ensure_node(ns, t)
           h == Len(ns)
           has == \E i \in 1 .. h : ns[i].text = nm[t]
           x == [id |-> h, text |-> nm[t], symbol_type |-> t.kind, start |-> t.start, end |-> t.end]
<1>1. \A u \in W : \E i \in 1 .. h : ns[i].text = nm[u]
  BY Zenon DEF Listed
<1>2. PICK fs : InOrder(fs, F \cap W, TO) /\ NodesOf(ns, nm, fs)
  BY Zenon DEF Listed
<1>3. /\ ns \in Seq(ToSet(ns)) /\ h = Len(fs)
      /\ \A i \in 1 .. h : /\ ns[i].id = i - 1 /\ ns[i].text = nm[fs[i]]
                           /\ ns[i].start = fs[i].start /\ ns[i].end = fs[i].end
  BY <1>2, Zenon DEF NodesOf
<1>4. h \in Nat /\ DOMAIN ns = 1 .. h
  BY <1>3
<1>5. fs \in Seq(F \cap W)
  BY <1>2 DEF InOrder
<1>6. \A i \in 1 .. h : fs[i] \in F /\ fs[i] \in W
  <2>1. \A i \in 1 .. Len(fs) : fs[i] \in F \cap W
    <3> DEFINE G == F \cap W
    <3> HIDE DEF G
    <3>1. \A i \in 1 .. Len(fs) : fs[i] \in G
      BY <1>5 DEF G
    <3> QED BY <3>1 DEF G
  <2> QED BY <1>3, <2>1
<1>7. n2 = IF has THEN ns ELSE Append(ns, x)
  BY <1>4, Zenon DEF ensure_node
<1>8. \A u : u \in F <=> u \in Tm /\ \A v \in Tm : <<v, u>> \in TO => nm[v] # nm[u]
  BY Zenon DEF FirstsOf
<1>9. \A u : u \in Prior(Tm, TO, t) <=> u \in Tm /\ <<u, t>> \in TO
  BY Zenon DEF Prior
<1> HIDE DEF h, F, x
<1>10. CASE has
  <2>1. t \notin W => t \notin F
    <3> SUFFICES ASSUME t \notin W PROVE t \notin F
      OBVIOUS
    <3>1. PICK i \in 1 .. h : ns[i].text = nm[t]
      BY <1>10
    <3>2. fs[i] \in Tm /\ <<fs[i], t>> \in TO /\ nm[fs[i]] = nm[t]
      BY <1>3, <1>6, <1>9, <3>1
    <3> QED BY <1>8, <3>2, Zenon
  <2>2. F \cap V = F \cap W
    <3>1. \A u : u \in F \cap V <=> u \in F \cap W
      BY <2>1, Zenon
    <3> QED BY <3>1, Zenon
  <2>3. \A u \in V : \E i \in 1 .. h : ns[i].text = nm[u]
    BY <1>1, <1>10, Zenon
  <2>4. n2 = ns
    BY <1>7, <1>10, Zenon
  <2> HIDE DEF n2
  <2>5. Listed(ns, Tm, nm, TO, V)
    BY <1>2, <2>2, <2>3, Zenon DEF Listed, F, h
  <2>6. Begins(ns, ns)
    BY <1>4 DEF Begins, h
  <2>7. Listed(n2, Tm, nm, TO, V) /\ Begins(ns, n2)
    BY <2>4, <2>5, <2>6
  <2> QED BY <2>7 DEF n2
<1>11. CASE ~has
  <2>1. t \notin W
    BY <1>1, <1>11, Zenon
  <2>2. \A u : u \in W <=> u \in Tm /\ <<u, t>> \in TO
    BY <1>9, <2>1, Zenon
  <2>3. t \in F
    <3>1. ASSUME NEW u \in Tm, <<u, t>> \in TO, nm[u] = nm[t] PROVE FALSE
      <4>1. PICK i \in 1 .. h : ns[i].text = nm[u]
        BY <1>1, <2>2, <3>1, Zenon
      <4> QED BY <1>11, <3>1, <4>1
    <3> QED BY <1>8, <3>1, Zenon
  <2>4. n2 = Append(ns, x)
    BY <1>7, <1>11, Zenon
  <2> HIDE DEF n2
  <2> DEFINE f2 == Append(fs, t)
  <2>5. InOrder(f2, F \cap V, TO)
    <3> DEFINE G == F \cap W
    <3>1. \A y \in G : <<y, t>> \in TO
      BY <2>2
    <3>2. InOrder(fs, G, TO)
      BY <1>2
    <3> HIDE DEF G
    <3>3. InOrder(Append(fs, t), G \cup {t}, TO)
      BY <3>1, <3>2, ListNext
    <3>4. G \cup {t} = F \cap V
      <4>1. \A u : u \in G \cup {t} <=> u \in F \cap V
        BY <2>3, Zenon DEF G
      <4> QED BY <4>1, Zenon
    <3> QED BY <3>3, <3>4, Zenon
  <2>6. /\ Len(n2) = h + 1 /\ (\A i \in 1 .. h : n2[i] = ns[i]) /\ n2[h + 1] = x
    BY <1>3, <1>4, <2>4 DEF h
  <2>7. /\ Len(f2) = h + 1 /\ (\A i \in 1 .. h : f2[i] = fs[i]) /\ f2[h + 1] = t
    BY <1>3, <1>4, <1>5
  <2>8. \A i : i \in 1 .. Len(n2) <=> i \in 1 .. h \/ i = h + 1
    BY <1>4, <2>6
  <2>9. n2 \in Seq(ToSet(n2))
    <3> DEFINE X == ToSet(ns)
    <3> HIDE DEF X
    <3>1. ns \in Seq(X)
      BY <1>3 DEF X
    <3>2. PICK Y : n2 \in Seq(Y)
      <4>1. n2 \in Seq(X \cup {x})
        BY <2>4, <3>1
      <4> QED BY <4>1
    <3>3. DOMAIN n2 = 1 .. Len(n2) /\ Len(n2) \in Nat /\ n2 = [i \in 1 .. Len(n2) |-> n2[i]]
      BY <3>2
    <3>4. \A i \in 1 .. Len(n2) : n2[i] \in ToSet(n2)
      BY <3>3, Zenon DEF ToSet
    <3> QED BY <3>3, <3>4, FunctionIsSeq
  <2> HIDE DEF f2
  <2>10. ASSUME NEW i \in 1 .. Len(n2)
         PROVE  /\ n2[i].id = i - 1 /\ n2[i].text = nm[f2[i]]
                /\ n2[i].start = f2[i].start /\ n2[i].end = f2[i].end
    <3>1. CASE i \in 1 .. h
      <4>1. n2[i] = ns[i] /\ f2[i] = fs[i]
        BY <2>6, <2>7, <3>1
      <4> QED BY <1>3, <3>1, <4>1
    <3>2. CASE i = h + 1
      <4>1. n2[i] = x /\ f2[i] = t /\ i - 1 = h
        BY <1>4, <2>6, <2>7, <3>2
      <4>2. x.id = h /\ x.text = nm[t] /\ x.start = t.start /\ x.end = t.end
        BY DEF x
      <4> QED BY <4>1, <4>2
    <3> QED BY <2>8, <3>1, <3>2
  <2>11. NodesOf(n2, nm, f2)
    BY <2>6, <2>7, <2>9, <2>10, Zenon DEF NodesOf
  <2>12. \A u \in V : \E i \in 1 .. Len(n2) : n2[i].text = nm[u]
    <3> SUFFICES ASSUME NEW u \in V PROVE \E i \in 1 .. Len(n2) : n2[i].text = nm[u]
      OBVIOUS
    <3>1. CASE u \in W
      <4>1. PICK i \in 1 .. h : ns[i].text = nm[u]
        BY <1>1, <3>1
      <4>2. i \in 1 .. Len(n2) /\ n2[i].text = nm[u]
        BY <2>6, <2>8, <4>1
      <4> QED BY <4>2
    <3>2. CASE u = t
      <4>1. n2[h + 1].text = nm[t]
        BY <2>6 DEF x
      <4> QED BY <2>8, <3>2, <4>1
    <3> QED BY <3>1, <3>2
  <2>13. Listed(n2, Tm, nm, TO, V)
    BY <2>5, <2>11, <2>12, Zenon DEF Listed, F
  <2>14. Begins(ns, n2)
    BY <1>4, <2>6 DEF Begins, h
  <2> QED BY <2>13, <2>14 DEF n2
<1> QED BY <1>10, <1>11

\* An edge's nodes stay where they are.
LEMMA EdgesKept ==
  ASSUME NEW es, NEW ns, NEW n2, NEW Tm, NEW nm, NEW TO, NEW P, NEW D,
         Recorded(es, ns, Tm, nm, TO, P, D), Begins(ns, n2)
  PROVE  Recorded(es, n2, Tm, nm, TO, P, D)
<1>1. PICK pr : /\ InOrder(pr, D, Lex(P, TO)) /\ Len(es) = Len(pr)
                /\ \A i \in 1 .. Len(es) : EdgeOf(es[i], ns, Tm, nm, TO, pr[i])
  BY Zenon DEF Recorded
<1>2. \A k \in 1 .. Len(ns) : k \in 1 .. Len(n2) /\ n2[k] = ns[k]
  BY DEF Begins
<1>3. ASSUME NEW i \in 1 .. Len(es) PROVE EdgeOf(es[i], n2, Tm, nm, TO, pr[i])
  <2>1. EdgeOf(es[i], ns, Tm, nm, TO, pr[i])
    BY <1>1
  <2>2. /\ es[i].subject + 1 \in 1 .. Len(n2) /\ n2[es[i].subject + 1] = ns[es[i].subject + 1]
        /\ es[i].object + 1 \in 1 .. Len(n2) /\ n2[es[i].object + 1] = ns[es[i].object + 1]
    BY <1>2, <2>1, Zenon DEF EdgeOf
  <2> QED BY <2>1, <2>2, Zenon DEF EdgeOf
<1> QED BY <1>1, <1>3, Zenon DEF Recorded

----------------------------------------------------------------------------
(* A sentence against its document                                         *)

\* ts lists consecutive terms, and P holds the pairs of different texts of it
\* and those of other sentences.
Phrase(ts, Tm, nm, TO, P) ==
  /\ ts \in Seq(Tm) /\ Linear(Tm, TO) /\ \A t \in Tm : nm[t] = lowered(t)
  /\ \A p \in P : p = <<p[1], p[2]>> /\ <<p[1], p[2]>> \in TO
  /\ \A i, j \in 1 .. Len(ts) : i < j => /\ <<ts[i], ts[j]>> \in TO
                                         /\ nm[ts[i]] # nm[ts[j]] => <<ts[i], ts[j]>> \in P
  /\ \A i \in 1 .. Len(ts) : \A x : <<ts[i], x>> \in TO =>
       (\E k \in i + 1 .. Len(ts) : x = ts[k]) \/ (\A k \in 1 .. Len(ts) : <<ts[k], x>> \in TO)
  /\ \A p \in P : \A i \in 1 .. Len(ts) : p[1] = ts[i] =>
       (\E k \in i + 1 .. Len(ts) : p[2] = ts[k]) /\ nm[p[1]] # nm[p[2]]

\* What lies between two terms of a sentence.
LEMMA BetweenTerms ==
  ASSUME NEW ts, NEW Tm, NEW nm, NEW TO, NEW P, Phrase(ts, Tm, nm, TO, P),
         NEW i \in 1 .. Len(ts), NEW j \in 1 .. Len(ts), i < j
  PROVE  /\ \A m \in Tm : {x \in Tm : <<ts[i], x>> \in TO /\ <<x, ts[j]>> \in TO} = {m}
                             => predicate(ts, i, j) = nm[m]
         /\ (\A m \in Tm : {x \in Tm : <<ts[i], x>> \in TO /\ <<x, ts[j]>> \in TO} # {m})
               => predicate(ts, i, j) = RelatedTo
<1> DEFINE M == {x \in Tm : <<ts[i], x>> \in TO /\ <<x, ts[j]>> \in TO}
           b == Len(ts)
<1>1. /\ \A k, l \in 1 .. b : k < l => <<ts[k], ts[l]>> \in TO
      /\ \A k \in 1 .. b : \A x : <<ts[k], x>> \in TO =>
           (\E l \in k + 1 .. b : x = ts[l]) \/ (\A l \in 1 .. b : <<ts[l], x>> \in TO)
      /\ \A t \in Tm : nm[t] = lowered(t)
  BY Zenon DEF Phrase
<1>2. b \in Nat /\ \A k \in 1 .. b : ts[k] \in Tm
  BY DEF Phrase
<1>3. \A x, y : <<x, y>> \in TO => <<y, x>> \notin TO
  BY Zenon DEF Phrase, Linear
<1> HIDE DEF b
<1>4. \A x : x \in M <=> x \in Tm /\ <<ts[i], x>> \in TO /\ <<x, ts[j]>> \in TO
  BY Zenon
<1> HIDE DEF M
<1>5. \A k \in i + 1 .. j - 1 : ts[k] \in M
  <2> SUFFICES ASSUME NEW k \in i + 1 .. j - 1 PROVE ts[k] \in M
    OBVIOUS
  <2>1. k \in 1 .. b /\ i < k /\ k < j /\ i \in 1 .. b /\ j \in 1 .. b
    BY <1>2 DEF b
  <2> QED BY <1>1, <1>2, <1>4, <2>1
<1>6. ASSUME NEW x \in M PROVE \E k \in i + 1 .. j - 1 : x = ts[k]
  <2>1. <<ts[i], x>> \in TO /\ <<x, ts[j]>> \in TO /\ i \in 1 .. b /\ j \in 1 .. b
    BY <1>4 DEF b
  <2>2. <<ts[j], x>> \notin TO
    BY <1>3, <2>1, Zenon
  <2>3. PICK k \in i + 1 .. b : x = ts[k]
    BY <1>1, <2>1, <2>2, Zenon
  <2>4. k \in 1 .. b
    BY <1>2, <2>1
  <2>5. ~(j < k)
    <3>1. ASSUME j < k PROVE FALSE
      <4>1. <<ts[j], ts[k]>> \in TO
        BY <1>1, <2>1, <2>4, <3>1
      <4> QED BY <2>2, <2>3, <4>1
    <3> QED BY <3>1
  <2>6. k # j
    <3>1. ASSUME k = j PROVE FALSE
      <4>1. <<x, x>> \in TO
        BY <2>1, <2>3, <3>1
      <4> QED BY <1>3, <4>1, Zenon
    <3> QED BY <3>1
  <2>7. k \in i + 1 .. j - 1
    BY <1>2, <2>1, <2>4, <2>5, <2>6
  <2> QED BY <2>3, <2>7
<1>7. ASSUME NEW m \in Tm, M = {m} PROVE j = i + 2 /\ m = ts[i + 1]
  <2>1. PICK k \in i + 1 .. j - 1 : m = ts[k]
    <3>1. m \in M
      BY <1>7
    <3> QED BY <1>6, <3>1
  <2>2. i + 1 \in i + 1 .. j - 1
    BY <2>1
  <2>3. ts[i + 1] = m
    BY <1>5, <1>7, <2>2
  <2>4. j = i + 2
    <3> SUFFICES ASSUME j # i + 2 PROVE FALSE
      OBVIOUS
    <3>1. i + 2 \in i + 1 .. j - 1
      BY <2>1
    <3>2. ts[i + 2] = m
      BY <1>5, <1>7, <3>1
    <3>3. i + 1 \in 1 .. b /\ i + 2 \in 1 .. b /\ i + 1 < i + 2
      BY <1>2, <3>1 DEF b
    <3>4. <<ts[i + 1], ts[i + 2]>> \in TO
      BY <1>1, <3>3
    <3>5. <<m, m>> \in TO
      BY <2>3, <3>2, <3>4
    <3> QED BY <1>3, <3>5, Zenon
  <2> QED BY <2>3, <2>4
<1>8. ASSUME j = i + 2 PROVE ts[i + 1] \in Tm /\ M = {ts[i + 1]}
  <2>1. i + 1 \in 1 .. b /\ \A k : k \in i + 1 .. j - 1 <=> k = i + 1
    BY <1>2, <1>8 DEF b
  <2>2. ts[i + 1] \in M
    BY <1>5, <2>1
  <2>3. ASSUME NEW x \in M PROVE x = ts[i + 1]
    <3>1. PICK k \in i + 1 .. j - 1 : x = ts[k]
      BY <1>6
    <3> QED BY <2>1, <3>1
  <2> QED BY <1>2, <2>1, <2>2, <2>3
<1>9. ASSUME NEW m \in Tm, M = {m} PROVE predicate(ts, i, j) = nm[m]
  <2>1. j = i + 2 /\ m = ts[i + 1]
    BY <1>7, <1>9
  <2>2. predicate(ts, i, j) = lowered(ts[i + 1])
    BY <2>1, Zenon DEF predicate
  <2> QED BY <1>1, <2>1, <2>2
<1>10. ASSUME \A m \in Tm : M # {m} PROVE predicate(ts, i, j) = RelatedTo
  <2>1. j # i + 2
    BY <1>8, <1>10, Zenon
  <2> QED BY <2>1, Zenon DEF predicate
<1> QED BY <1>9, <1>10 DEF M

\* The graph so far: the nodes of the terms in W and the edges of the pairs in D.
Drawn(g, Tm, nm, TO, P, W, D) ==
  Listed(g.nodes, Tm, nm, TO, W) /\ Recorded(g.edges, g.nodes, Tm, nm, TO, P, D)

\* The edge of a pair of listed terms.
LEMMA EdgeMade ==
  ASSUME NEW ts, NEW Tm, NEW nm, NEW TO, NEW P, Phrase(ts, Tm, nm, TO, P),
         NEW i \in 1 .. Len(ts), NEW j \in 1 .. Len(ts), i < j,
         NEW ns, NEW W, Listed(ns, Tm, nm, TO, W), ts[i] \in W, ts[j] \in W
  PROVE  LET s == ns[indexOf(ns, ts[i])]
             o == ns[indexOf(ns, ts[j])]
         IN  /\ s = o <=> nm[ts[i]] = nm[ts[j]]
             /\ EdgeOf([predicate |-> predicate(ts, i, j), subject |-> s.id, object |-> o.id,
                        start |-> s.start, end |-> s.end], ns, Tm, nm, TO, <<ts[i], ts[j]>>)
<1> DEFINE k == indexOf(ns, ts[i])
           l == indexOf(ns, ts[j])
           s == ns[k]
           o == ns[l]
           e == [predicate |-> predicate(ts, i, j), subject |-> s.id, object |-> o.id,
                 start |-> s.start, end |-> s.end]
           p == <<ts[i], ts[j]>>
           M == {x \in Tm : <<ts[i], x>> \in TO /\ <<x, ts[j]>> \in TO}
<1>1. /\ ts[i] \in Tm /\ ts[j] \in Tm /\ \A t \in Tm : nm[t] = lowered(t)
  BY DEF Phrase
<1>2. /\ \A t \in W : \E n \in 1 .. Len(ns) : ns[n].text = nm[t]
      /\ \E fs : NodesOf(ns, nm, fs)
  BY Zenon DEF Listed
<1>3. /\ ns \in Seq(ToSet(ns))
      /\ \A n \in 1 .. Len(ns) : ns[n].id = n - 1
  BY <1>2, Zenon DEF NodesOf
<1>4. DOMAIN ns = 1 .. Len(ns) /\ Len(ns) \in Nat
  BY <1>3
<1>5. ASSUME NEW t \in Tm, t \in W
      PROVE  /\ indexOf(ns, t) \in 1 .. Len(ns) /\ ns[indexOf(ns, t)].text = nm[t]
             /\ ns[indexOf(ns, t)].id + 1 = indexOf(ns, t)
  <2>1. \E n \in DOMAIN ns : ns[n].text = lowered(t)
    BY <1>1, <1>2, <1>4, <1>5, Zenon
  <2> DEFINE n == indexOf(ns, t)
  <2>2. n \in DOMAIN ns /\ ns[n].text = lowered(t)
    BY <2>1, Zenon DEF indexOf
  <2>3. ns[n].text = nm[t]
    BY <1>1, <1>5, <2>2, Zenon
  <2> HIDE DEF n
  <2>4. ns[n].id + 1 = n
    BY <1>3, <1>4, <2>2
  <2> QED BY <1>4, <2>2, <2>3, <2>4 DEF n
<1>6. /\ k \in 1 .. Len(ns) /\ s.text = nm[ts[i]] /\ s.id + 1 = k
      /\ l \in 1 .. Len(ns) /\ o.text = nm[ts[j]] /\ o.id + 1 = l
  BY <1>1, <1>5
<1>7. s = o <=> nm[ts[i]] = nm[ts[j]]
  <2>1. ASSUME nm[ts[i]] = nm[ts[j]] PROVE k = l
    <3>1. lowered(ts[i]) = lowered(ts[j])
      BY <1>1, <2>1, Zenon
    <3> QED BY <3>1, Zenon DEF indexOf
  <2> HIDE DEF k, l
  <2> QED BY <1>6, <2>1
<1>8. /\ \A m \in Tm : M = {m} => predicate(ts, i, j) = nm[m]
      /\ (\A m \in Tm : M # {m}) => predicate(ts, i, j) = RelatedTo
  BY BetweenTerms DEF M
<1>9. /\ e.subject = s.id /\ e.object = o.id /\ e.predicate = predicate(ts, i, j)
      /\ e.start = s.start /\ e.end = s.end
  <2> HIDE DEF s, o
  <2> QED OBVIOUS
<1>10. p[1] = ts[i] /\ p[2] = ts[j]
  OBVIOUS
<1> HIDE DEF e, p
<1>11. e.subject + 1 \in 1 .. Len(ns) /\ ns[e.subject + 1] = s
  <2>1. e.subject + 1 = k
    BY <1>6, <1>9
  <2> QED BY <1>6, <2>1
<1>12. e.object + 1 \in 1 .. Len(ns) /\ ns[e.object + 1] = o
  <2>1. e.object + 1 = l
    BY <1>6, <1>9
  <2> QED BY <1>6, <2>1
<1> HIDE DEF s, o
<1>13. /\ e.subject + 1 \in 1 .. Len(ns) /\ ns[e.subject + 1].text = nm[p[1]]
       /\ e.object + 1 \in 1 .. Len(ns) /\ ns[e.object + 1].text = nm[p[2]]
       /\ e.start = ns[e.subject + 1].start /\ e.end = ns[e.subject + 1].end
  BY <1>6, <1>9, <1>10, <1>11, <1>12
<1>14. {x \in Tm : <<p[1], x>> \in TO /\ <<x, p[2]>> \in TO} = M
  BY <1>10, Zenon
<1>15. EdgeOf(e, ns, Tm, nm, TO, p)
  BY <1>8, <1>9, <1>13, <1>14, Zenon DEF EdgeOf
<1> QED BY <1>7, <1>15 DEF e, p, s, o

\* Subject i meets term j: one more node if the text is new, and one more edge
\* if it differs from the subject's.
LEMMA RelateDraws ==
  ASSUME NEW ts, NEW Tm, NEW nm, NEW TO, NEW P, Phrase(ts, Tm, nm, TO, P),
         NEW i \in 1 .. Len(ts), NEW j \in 1 .. Len(ts), i < j,
         NEW g, NEW W, NEW D, Drawn(g, Tm, nm, TO, P, W, D), W \subseteq Tm, ts[i] \in W,
         ts[j] \in W \/ W = Prior(Tm, TO, ts[j]),
         \A q \in D : q \in P /\ (<<q[1], ts[i]>> \in TO \/ (q[1] = ts[i] /\ <<q[2], ts[j]>> \in TO)),
         NEW V, \A u : u \in V <=> u \in W \/ u = ts[j],
         NEW E, \A q : q \in E <=> q \in D \/ (q \in P /\ q = <<ts[i], ts[j]>>)
  PROVE  Drawn(relate(g, ts, i, j), Tm, nm, TO, P, V, E)
<1> DEFINE ns == ensure_node(g.nodes, ts[j])
           s  == ns[indexOf(ns, ts[i])]
           o  == ns[indexOf(ns, ts[j])]
           e  == [predicate |-> predicate(ts, i, j),
                  subject |-> s.id, object |-> o.id, start |-> s.start, end |-> s.end]
           p  == <<ts[i], ts[j]>>
           es == g.edges
<1>1. /\ ts[i] \in Tm /\ ts[j] \in Tm /\ Linear(Tm, TO) /\ nm[ts[j]] = lowered(ts[j])
      /\ nm[ts[i]] # nm[ts[j]] => p \in P
      /\ \A q \in P : \A k \in 1 .. Len(ts) : q[1] = ts[k] => nm[q[1]] # nm[q[2]]
  BY DEF Phrase
<1>2. Listed(ns, Tm, nm, TO, V) /\ Begins(g.nodes, ns)
  BY <1>1, NodeListed, Zenon DEF Drawn
<1>3. Recorded(es, ns, Tm, nm, TO, P, D)
  BY <1>2, EdgesKept, Zenon DEF Drawn
<1> HIDE DEF ns
<1>4. /\ s = o <=> nm[ts[i]] = nm[ts[j]]
      /\ EdgeOf(e, ns, Tm, nm, TO, p)
  BY <1>2, EdgeMade, Zenon
<1>5. p[1] = ts[i] /\ p[2] = ts[j]
  OBVIOUS
<1>6. p \in P <=> s # o
  <2>1. p \in P => nm[p[1]] # nm[p[2]]
    BY <1>1, <1>5, Zenon
  <2> HIDE DEF p, s, o
  <2> QED BY <1>1, <1>4, <1>5, <2>1
<1>7. relate(g, ts, i, j) = [nodes |-> ns, edges |-> IF s = o THEN es ELSE Append(es, e)]
  BY Zenon DEF relate, ns
<1> HIDE DEF e, s, o
<1> DEFINE e2 == IF s = o THEN es ELSE Append(es, e)
<1>8. relate(g, ts, i, j).nodes = ns /\ relate(g, ts, i, j).edges = e2
  <2>1. relate(g, ts, i, j) = [nodes |-> ns, edges |-> e2]
    BY <1>7, Zenon
  <2> HIDE DEF e2
  <2> QED BY <2>1
<1>9. Recorded(e2, ns, Tm, nm, TO, P, E)
  <2>1. CASE s = o
    <3>1. \A q : q \in E <=> q \in D
      BY <1>6, <2>1, Zenon
    <3>2. E = D /\ e2 = es
      BY <2>1, <3>1, Zenon
    <3> HIDE DEF e2, es
    <3> QED BY <1>3, <3>2
  <2>2. CASE s # o
    <3>1. PICK pr : /\ InOrder(pr, D, Lex(P, TO)) /\ Len(es) = Len(pr)
                    /\ \A n \in 1 .. Len(es) : EdgeOf(es[n], ns, Tm, nm, TO, pr[n])
      BY <1>3, Zenon DEF Recorded
    <3>2. es \in Seq(ToSet(es)) /\ pr \in Seq(D)
      BY <1>3, <3>1, Zenon DEF Recorded, InOrder
    <3>3. \A q \in D : <<q, p>> \in Lex(P, TO)
      <4>1. p \in P
        BY <1>6, <2>2
      <4>2. ASSUME NEW q \in D PROVE <<q, p>> \in Lex(P, TO)
        <5>1. q \in P /\ (<<q[1], p[1]>> \in TO \/ (q[1] = p[1] /\ <<q[2], p[2]>> \in TO))
          BY <1>5
        <5> HIDE DEF p
        <5> QED BY <4>1, <5>1 DEF Lex
      <4> QED BY <4>2
    <3> DEFINE p2 == Append(pr, p)
               h == Len(es)
    <3> HIDE DEF p
    <3>4. InOrder(p2, D \cup {p}, Lex(P, TO))
      BY <3>1, <3>3, ListNext
    <3>5. D \cup {p} = E
      <4>1. \A q : q \in D \cup {p} <=> q \in E
        BY <1>6, <2>2, Zenon DEF p
      <4> QED BY <4>1, Zenon
    <3>6. InOrder(p2, E, Lex(P, TO))
      BY <3>4, <3>5, Zenon
    <3>7. e2 = Append(es, e)
      BY <2>2
    <3> HIDE DEF e2
    <3> DEFINE X == ToSet(es)
    <3>8. es \in Seq(X) /\ h \in Nat
      BY <3>2
    <3> HIDE DEF X, es
    <3>9. PICK Y : e2 \in Seq(Y)
      <4>1. e2 \in Seq(X \cup {e})
        BY <3>7, <3>8
      <4> QED BY <4>1
    <3>10. /\ Len(e2) = h + 1 /\ (\A n \in 1 .. h : e2[n] = es[n]) /\ e2[h + 1] = e
           /\ Len(p2) = h + 1 /\ (\A n \in 1 .. h : p2[n] = pr[n]) /\ p2[h + 1] = p
      BY <3>1, <3>2, <3>7, <3>8
    <3>11. e2 \in Seq(ToSet(e2))
      <4>1. DOMAIN e2 = 1 .. Len(e2) /\ Len(e2) \in Nat /\ e2 = [n \in 1 .. Len(e2) |-> e2[n]]
        BY <3>9
      <4>2. \A n \in 1 .. Len(e2) : e2[n] \in ToSet(e2)
        BY <4>1, Zenon DEF ToSet
      <4> QED BY <4>1, <4>2, FunctionIsSeq
    <3> HIDE DEF p2, h
    <3>12. ASSUME NEW n \in 1 .. Len(e2) PROVE EdgeOf(e2[n], ns, Tm, nm, TO, p2[n])
      <4>1. n \in 1 .. h \/ n = h + 1
        BY <3>8, <3>10
      <4>2. CASE n \in 1 .. h
        <5>1. e2[n] = es[n] /\ p2[n] = pr[n]
          BY <3>10, <4>2
        <5>2. EdgeOf(es[n], ns, Tm, nm, TO, pr[n])
          BY <3>1, <4>2 DEF h
        <5> QED BY <5>1, <5>2
      <4>3. CASE n = h + 1
        <5>1. e2[n] = e /\ p2[n] = p
          BY <3>10, <4>3
        <5> QED BY <1>4, <5>1
      <4> QED BY <4>1, <4>2, <4>3
    <3> QED BY <3>6, <3>10, <3>11, <3>12, Zenon DEF Recorded
  <2> QED BY <2>1, <2>2
<1> HIDE DEF e2
<1>10. Listed(relate(g, ts, i, j).nodes, Tm, nm, TO, V)
  BY <1>2, <1>8
<1>11. Recorded(relate(g, ts, i, j).edges, relate(g, ts, i, j).nodes, Tm, nm, TO, P, E)
  BY <1>8, <1>9
<1> QED BY <1>10, <1>11 DEF Drawn

\* The terms listed when subject i has met the terms up to j, and the pairs.
Met(Tm, W, ts, i, j)    == {u \in Tm : u \in W \/ \E k \in i .. j : u = ts[k]}
Paired(P, TO, ts, i, j) == {q \in P : \/ <<q[1], ts[i]>> \in TO
                                      \/ q[1] = ts[i] /\ \E k \in i .. j : q[2] = ts[k]}

\* What is listed reaches to subject i, or beyond its sentence.
Ready(W, Tm, TO, ts, i) == W = Prior(Tm, TO, ts[i]) \/ \A k \in 1 .. Len(ts) : ts[k] \in W

\* One term more.
LEMMA MetNext ==
  ASSUME NEW ts, NEW Tm, NEW nm, NEW TO, NEW P, Phrase(ts, Tm, nm, TO, P), NEW W,
         NEW i \in 1 .. Len(ts), NEW j \in 1 .. Len(ts), i < j,
         Ready(W, Tm, TO, ts, i)
  PROVE  /\ ts[i] \in Met(Tm, W, ts, i, j - 1)
         /\ ts[j] \in Met(Tm, W, ts, i, j - 1) \/ Met(Tm, W, ts, i, j - 1) = Prior(Tm, TO, ts[j])
         /\ \A u : u \in Met(Tm, W, ts, i, j) <=> u \in Met(Tm, W, ts, i, j - 1) \/ u = ts[j]
         /\ \A q \in Paired(P, TO, ts, i, j - 1) :
              q \in P /\ (<<q[1], ts[i]>> \in TO \/ (q[1] = ts[i] /\ <<q[2], ts[j]>> \in TO))
         /\ \A q : q \in Paired(P, TO, ts, i, j)
                     <=> q \in Paired(P, TO, ts, i, j - 1) \/ (q \in P /\ q = <<ts[i], ts[j]>>)
<1> DEFINE b == Len(ts)
           A == Met(Tm, W, ts, i, j - 1)
           B == Met(Tm, W, ts, i, j)
           D == Paired(P, TO, ts, i, j - 1)
           E == Paired(P, TO, ts, i, j)
<1>1. /\ \A k, l \in 1 .. b : k < l => <<ts[k], ts[l]>> \in TO
      /\ \A x : <<ts[i], x>> \in TO =>
           (\E l \in i + 1 .. b : x = ts[l]) \/ (\A l \in 1 .. b : <<ts[l], x>> \in TO)
      /\ \A p \in P : p = <<p[1], p[2]>> /\ <<p[1], p[2]>> \in TO
  BY Zenon DEF Phrase
<1>2. b \in Nat /\ \A k \in 1 .. b : ts[k] \in Tm
  BY DEF Phrase
<1>3. /\ \A x, y : <<x, y>> \in TO => x \in Tm /\ y \in Tm /\ <<y, x>> \notin TO
      /\ \A x, y, z : <<x, y>> \in TO /\ <<y, z>> \in TO => <<x, z>> \in TO
      /\ \A x, y \in Tm : x = y \/ <<x, y>> \in TO \/ <<y, x>> \in TO
  BY Zenon DEF Phrase, Linear
<1>4. i \in 1 .. b /\ j \in 1 .. b
  OBVIOUS
<1> HIDE DEF b
<1>5. /\ i \in i .. j - 1
      /\ \A k : k \in i .. j <=> k \in i .. j - 1 \/ k = j
      /\ \A k \in i .. j - 1 : k \in 1 .. b /\ k < j
  BY <1>2, <1>4
<1>6. /\ \A u : u \in A <=> u \in Tm /\ (u \in W \/ \E k \in i .. j - 1 : u = ts[k])
      /\ \A u : u \in B <=> u \in Tm /\ (u \in W \/ \E k \in i .. j : u = ts[k])
  BY Zenon DEF Met
<1>7. /\ \A q : q \in D <=> q \in P /\ (<<q[1], ts[i]>> \in TO \/ (q[1] = ts[i] /\ \E k \in i .. j - 1 : q[2] = ts[k]))
      /\ \A q : q \in E <=> q \in P /\ (<<q[1], ts[i]>> \in TO \/ (q[1] = ts[i] /\ \E k \in i .. j : q[2] = ts[k]))
  BY Zenon DEF Paired
<1> HIDE DEF A, B, D, E
<1>8. ts[i] \in A
  BY <1>2, <1>4, <1>5, <1>6
<1>9. ts[j] \in A \/ A = Prior(Tm, TO, ts[j])
  <2>1. CASE \A k \in 1 .. Len(ts) : ts[k] \in W
    BY <1>2, <1>4, <1>6, <2>1
  <2>2. CASE W = Prior(Tm, TO, ts[i])
    <3>1. \A u : u \in W <=> u \in Tm /\ <<u, ts[i]>> \in TO
      BY <2>2, Zenon DEF Prior
    <3>2. <<ts[i], ts[j]>> \in TO
      BY <1>1, <1>4
    <3>3. ASSUME NEW u \in A PROVE <<u, ts[j]>> \in TO
      <4>1. CASE u \in W
        BY <1>3, <3>1, <3>2, <4>1, Zenon
      <4>2. CASE \E k \in i .. j - 1 : u = ts[k]
        <5>1. PICK k \in i .. j - 1 : u = ts[k]
          BY <4>2
        <5> QED BY <1>1, <1>4, <1>5, <5>1
      <4> QED BY <1>6, <4>1, <4>2
    <3>4. ASSUME NEW u \in Tm, <<u, ts[j]>> \in TO PROVE u \in A
      <4>1. CASE <<u, ts[i]>> \in TO
        BY <1>6, <3>1, <4>1
      <4>2. CASE u = ts[i]
        BY <1>8, <4>2
      <4>3. CASE <<ts[i], u>> \in TO
        <5>1. <<ts[j], u>> \notin TO
          BY <1>3, <3>4, Zenon
        <5>2. PICK l \in i + 1 .. b : u = ts[l]
          BY <1>1, <1>4, <4>3, <5>1, Zenon
        <5>3. l \in 1 .. b
          BY <1>2, <1>4, <5>2
        <5>4. l # j
          BY <1>3, <3>4, <5>2, Zenon
        <5>5. ~(j < l)
          BY <1>1, <1>4, <5>1, <5>2, <5>3
        <5>6. l \in i .. j - 1
          BY <1>2, <1>4, <5>2, <5>3, <5>4, <5>5
        <5> QED BY <1>6, <5>2, <5>6
      <4> QED BY <1>2, <1>3, <1>4, <3>4, <4>1, <4>2, <4>3
    <3>5. \A u : u \in A <=> u \in Prior(Tm, TO, ts[j])
      BY <1>6, <3>3, <3>4, Zenon DEF Prior
    <3> QED BY <3>5, Zenon
  <2> QED BY <2>1, <2>2 DEF Ready
<1>10. \A u : u \in B <=> u \in A \/ u = ts[j]
  BY <1>2, <1>4, <1>5, <1>6, Zenon
<1>11. \A q \in D : q \in P /\ (<<q[1], ts[i]>> \in TO \/ (q[1] = ts[i] /\ <<q[2], ts[j]>> \in TO))
  <2>1. \A k \in i .. j - 1 : <<ts[k], ts[j]>> \in TO
    BY <1>1, <1>4, <1>5
  <2> QED BY <1>7, <2>1
<1>12. \A q : q \in E <=> q \in D \/ (q \in P /\ q = <<ts[i], ts[j]>>)
  <2>1. ASSUME NEW q \in P PROVE q = <<ts[i], ts[j]>> <=> q[1] = ts[i] /\ q[2] = ts[j]
    <3>1. q = <<q[1], q[2]>>
      BY <1>1, Zenon
    <3>2. q = <<ts[i], ts[j]>> => q[1] = ts[i] /\ q[2] = ts[j]
      OBVIOUS
    <3> QED BY <3>1, <3>2, Zenon
  <2> QED BY <1>5, <1>7, <2>1
<1> QED BY <1>8, <1>9, <1>10, <1>11, <1>12 DEF A, B, D, E

\* The inner loop draws what its subject starts.
LEMMA ExtendDraws ==
  ASSUME NEW ts, NEW Tm, NEW nm, NEW TO, NEW P, Phrase(ts, Tm, nm, TO, P),
         NEW i \in 1 .. Len(ts), NEW W, W \subseteq Tm,
         Ready(W, Tm, TO, ts, i),
         NEW D, \A q : q \in D <=> q \in P /\ <<q[1], ts[i]>> \in TO,
         Listed(nodes, Tm, nm, TO, W), Recorded(edges, nodes, Tm, nm, TO, P, D),
         NEW V, \A u : u \in V <=> u \in W \/ \E k \in i .. Len(ts) : u = ts[k],
         NEW E, \A q : q \in E <=> q \in P /\ (<<q[1], ts[i]>> \in TO \/ q[1] = ts[i])
  PROVE  Drawn(extend(ts, i), Tm, nm, TO, P, V, E)
<1> DEFINE n0  == ensure_node(nodes, ts[i])
           g   == [nodes |-> n0, edges |-> edges]
           b   == Len(ts)
           met == CHOOSE c : Runs(g, ts, i, b, c)
           A(j) == Met(Tm, W, ts, i, j)
           B(j) == Paired(P, TO, ts, i, j)
<1>1. extend(ts, i) = met[b]
  BY Zenon DEF extend, Runs
<1>2. g.nodes = n0 /\ g.edges = edges
  <2> HIDE DEF n0
  <2> QED OBVIOUS
<1>3. /\ b \in Nat /\ i \in 1 .. b /\ i \in Nat /\ i <= b /\ \A k \in 1 .. b : ts[k] \in Tm
      /\ Linear(Tm, TO) /\ \A t \in Tm : nm[t] = lowered(t)
      /\ \A p \in P : p = <<p[1], p[2]>> /\ <<p[1], p[2]>> \in TO
      /\ \A p \in P : p[1] = ts[i] => \E k \in i + 1 .. b : p[2] = ts[k]
  BY DEF Phrase
<1>4. \A x, y : <<x, y>> \in TO => <<y, x>> \notin TO
  BY <1>3, Zenon DEF Linear
<1> HIDE DEF g
<1>5. Runs(g, ts, i, b, met)
  BY <1>3, RunExists, Zenon
<1> HIDE DEF met, b
<1>6. met[i] = g /\ \A j \in i + 1 .. b : met[j] = relate(met[j - 1], ts, i, j)
  BY <1>3, <1>5, RunValues
<1>7. Drawn(met[i], Tm, nm, TO, P, A(i), B(i))
  <2>1. \A k : k \in i .. i <=> k = i
    BY <1>3
  <2>2. \A u : u \in A(i) <=> u \in W \/ u = ts[i]
    BY <1>3, <2>1, Zenon DEF Met
  <2>3. ts[i] \in Tm /\ nm[ts[i]] = lowered(ts[i])
    BY <1>3
  <2>4. ts[i] \in W \/ W = Prior(Tm, TO, ts[i])
    BY Zenon DEF Ready
  <2>5. \A q : q \in B(i) <=> q \in D
    <3>1. \A q \in P : ~(q[1] = ts[i] /\ q[2] = ts[i])
      BY <1>3, <1>4
    <3> QED BY <2>1, <3>1, Zenon DEF Paired
  <2>6. B(i) = D
    BY <2>5, Zenon
  <2> HIDE DEF A, B
  <2>7. Listed(n0, Tm, nm, TO, A(i)) /\ Begins(nodes, n0)
    BY <1>3, <2>2, <2>3, <2>4, NodeListed, Zenon
  <2>8. Recorded(edges, n0, Tm, nm, TO, P, D)
    BY <2>7, EdgesKept, Zenon
  <2> HIDE DEF n0
  <2>9. Drawn(g, Tm, nm, TO, P, A(i), B(i))
    BY <1>2, <2>6, <2>7, <2>8 DEF Drawn
  <2> QED BY <1>6, <2>9
<1> DEFINE S == {k \in Nat : i + k <= b => Drawn(met[i + k], Tm, nm, TO, P, A(i + k), B(i + k))}
<1>8. 0 \in S
  <2>1. i + 0 = i
    BY <1>3
  <2> HIDE DEF A, B
  <2> QED BY <1>7, <2>1
<1>9. ASSUME NEW k \in Nat, k \in S PROVE k + 1 \in S
  <2> SUFFICES ASSUME i + (k + 1) <= b
               PROVE  Drawn(met[i + (k + 1)], Tm, nm, TO, P, A(i + (k + 1)), B(i + (k + 1)))
    OBVIOUS
  <2> DEFINE j == i + (k + 1)
  <2>1. j \in i + 1 .. b /\ j \in 1 .. b /\ i < j /\ j - 1 = i + k /\ i + k <= b
    BY <1>3
  <2> HIDE DEF A, B
  <2>2. Drawn(met[j - 1], Tm, nm, TO, P, A(j - 1), B(j - 1))
    BY <1>9, <2>1
  <2> HIDE DEF j, S
  <2>3. /\ ts[i] \in A(j - 1)
        /\ ts[j] \in A(j - 1) \/ A(j - 1) = Prior(Tm, TO, ts[j])
        /\ \A u : u \in A(j) <=> u \in A(j - 1) \/ u = ts[j]
        /\ \A q \in B(j - 1) :
              q \in P /\ (<<q[1], ts[i]>> \in TO \/ (q[1] = ts[i] /\ <<q[2], ts[j]>> \in TO))
        /\ \A q : q \in B(j) <=> q \in B(j - 1) \/ (q \in P /\ q = <<ts[i], ts[j]>>)
    <3>1. j \in 1 .. Len(ts) /\ i \in 1 .. Len(ts) /\ i < j
      BY <2>1 DEF b
    <3>2. /\ ts[i] \in Met(Tm, W, ts, i, j - 1)
          /\ ts[j] \in Met(Tm, W, ts, i, j - 1) \/ Met(Tm, W, ts, i, j - 1) = Prior(Tm, TO, ts[j])
          /\ \A u : u \in Met(Tm, W, ts, i, j) <=> u \in Met(Tm, W, ts, i, j - 1) \/ u = ts[j]
          /\ \A q \in Paired(P, TO, ts, i, j - 1) :
               q \in P /\ (<<q[1], ts[i]>> \in TO \/ (q[1] = ts[i] /\ <<q[2], ts[j]>> \in TO))
          /\ \A q : q \in Paired(P, TO, ts, i, j)
                      <=> q \in Paired(P, TO, ts, i, j - 1) \/ (q \in P /\ q = <<ts[i], ts[j]>>)
      BY <3>1, MetNext
    <3> QED BY <3>2, Zenon DEF A, B
  <2>4. A(j - 1) \subseteq Tm
    BY DEF A, Met
  <2>5. Drawn(relate(met[j - 1], ts, i, j), Tm, nm, TO, P, A(j), B(j))
    <3>1. j \in 1 .. Len(ts) /\ i \in 1 .. Len(ts)
      BY <1>3, <2>1 DEF b
    <3> QED BY <2>1, <2>2, <2>3, <2>4, <3>1, RelateDraws
  <2>6. met[j] = relate(met[j - 1], ts, i, j)
    BY <1>6, <2>1
  <2>7. Drawn(met[j], Tm, nm, TO, P, A(j), B(j))
    BY <2>5, <2>6
  <2> QED BY <2>7 DEF j
<1>10. b - i \in Nat /\ i + (b - i) = b
  BY <1>3
<1>11. b - i \in S
  <2> HIDE DEF S
  <2> QED BY <1>8, <1>9, <1>10, SetInduction
<1>12. Drawn(met[b], Tm, nm, TO, P, A(b), B(b))
  <2> HIDE DEF A, B
  <2> QED BY <1>10, <1>11
<1>13. A(b) = V
  <2>1. \A k \in i .. b : ts[k] \in Tm
    BY <1>3
  <2>2. \A u : u \in A(b) <=> u \in V
    BY <2>1, Zenon DEF Met, b
  <2> QED BY <2>2, Zenon
<1>14. B(b) = E
  <2>1. \A k \in i + 1 .. b : k \in i .. b
    BY <1>3
  <2>2. \A q \in P : q[1] = ts[i] => \E k \in i .. b : q[2] = ts[k]
    BY <1>3, <2>1, Zenon
  <2>3. \A q : q \in B(b) <=> q \in E
    BY <2>2, Zenon DEF Paired
  <2> QED BY <2>3, Zenon
<1> QED BY <1>1, <1>12, <1>13, <1>14, Zenon

----------------------------------------------------------------------------
(* The sentences left                                                      *)

\* The terms, their texts and order, and the pairs of different texts.
World(Tm, nm, TO, P) ==
  /\ Linear(Tm, TO) /\ \A t \in Tm : nm[t] = lowered(t)
  /\ \A p \in P : p = <<p[1], p[2]>> /\ <<p[1], p[2]>> \in TO /\ nm[p[1]] # nm[p[2]]

\* td lists the last sentences of the document.
Rest(td, nm, TO, P) ==
  /\ \A k, l \in 1 .. Len(td) : \A i \in 1 .. Len(td[k]), j \in 1 .. Len(td[l]) :
       k < l \/ (k = l /\ i < j) => <<td[k][i], td[l][j]>> \in TO
  /\ \A k \in 1 .. Len(td) : \A i \in 1 .. Len(td[k]) :
       /\ \A x : <<td[k][i], x>> \in TO => \E l \in 1 .. Len(td) : \E j \in 1 .. Len(td[l]) : x = td[l][j]
       /\ \A p \in P : p[1] = td[k][i] => \E j \in i + 1 .. Len(td[k]) : p[2] = td[k][j]
       /\ \A j \in 1 .. Len(td[k]) : i < j /\ nm[td[k][i]] # nm[td[k][j]] => <<td[k][i], td[k][j]>> \in P

\* k terms of the first of the sentences td have been subjects: the terms done,
\* and those that have a node.
Done(Tm, td, k) ==
  {t \in Tm : ~ \E l \in 1 .. Len(td) : \E j \in 1 .. Len(td[l]) : (l > 1 \/ j > k) /\ td[l][j] = t}
Reached(Tm, td, k) ==
  {t \in Tm : ~ \E l \in 1 .. Len(td) : \E j \in 1 .. Len(td[l]) : (l > 1 \/ k = 0) /\ td[l][j] = t}

SoFar(g, Tm, nm, TO, P, td, k) ==
  Drawn(g, Tm, nm, TO, P, Reached(Tm, td, k), {p \in P : p[1] \in Done(Tm, td, k)})

\* The sentences of a list are lists of terms.
LEMMA ListOfSentences ==
  ASSUME NEW Tm, NEW td \in Seq(Sentences(Tm))
  PROVE  /\ Len(td) \in Nat
         /\ \A l \in 1 .. Len(td) : /\ td[l] \in Seq(Tm) /\ Len(td[l]) \in Nat /\ 1 <= Len(td[l])
                                    /\ \A j \in 1 .. Len(td[l]) : td[l][j] \in Tm
<1> DEFINE Q == Sentences(Tm)
<1>1. Len(td) \in Nat /\ \A l \in 1 .. Len(td) : td[l] \in Q
  <2> HIDE DEF Q
  <2>1. td \in Seq(Q)
    BY DEF Q
  <2> QED BY <2>1
<1>2. ASSUME NEW s \in Q
      PROVE  s \in Seq(Tm) /\ Len(s) \in Nat /\ 1 <= Len(s) /\ \A j \in 1 .. Len(s) : s[j] \in Tm
  <2>1. s \in Seq(Tm) /\ s # <<>>
    BY DEF Sentences
  <2> QED BY <2>1
<1> QED BY <1>1, <1>2

\* The first of them is a phrase.
LEMMA RestPhrase ==
  ASSUME NEW Tm, NEW nm, NEW TO, NEW P, World(Tm, nm, TO, P),
         NEW td \in Seq(Sentences(Tm)), Rest(td, nm, TO, P), NEW ts, 1 <= Len(td), ts = td[1]
  PROVE  Phrase(ts, Tm, nm, TO, P)
<1> DEFINE b == Len(ts)
           h == Len(td)
<1>1. /\ h \in Nat /\ 1 \in 1 .. h /\ b \in Nat /\ ts \in Seq(Tm)
  BY ListOfSentences
<1>2. /\ \A k, l \in 1 .. h : \A i \in 1 .. Len(td[k]), j \in 1 .. Len(td[l]) :
           k < l \/ (k = l /\ i < j) => <<td[k][i], td[l][j]>> \in TO
      /\ \A k \in 1 .. h : \A i \in 1 .. Len(td[k]) :
           /\ \A x : <<td[k][i], x>> \in TO => \E l \in 1 .. h : \E j \in 1 .. Len(td[l]) : x = td[l][j]
           /\ \A p \in P : p[1] = td[k][i] => \E j \in i + 1 .. Len(td[k]) : p[2] = td[k][j]
           /\ \A j \in 1 .. Len(td[k]) : i < j /\ nm[td[k][i]] # nm[td[k][j]] => <<td[k][i], td[k][j]>> \in P
  BY Zenon DEF Rest
<1>3. /\ Linear(Tm, TO) /\ \A t \in Tm : nm[t] = lowered(t)
      /\ \A p \in P : p = <<p[1], p[2]>> /\ <<p[1], p[2]>> \in TO /\ nm[p[1]] # nm[p[2]]
  BY Zenon DEF World
<1>4. \A x, y : <<x, y>> \in TO => <<y, x>> \notin TO
  BY <1>3, Zenon DEF Linear
<1> HIDE DEF h, b
<1>5. \A i \in 1 .. b :
        /\ \A x : <<ts[i], x>> \in TO => \E l \in 1 .. h : \E j \in 1 .. Len(td[l]) : x = td[l][j]
        /\ \A p \in P : p[1] = ts[i] => \E j \in i + 1 .. b : p[2] = ts[j]
        /\ \A j \in 1 .. b : i < j /\ nm[ts[i]] # nm[ts[j]] => <<ts[i], ts[j]>> \in P
        /\ \A l \in 1 .. h : \A j \in 1 .. Len(td[l]) : 1 < l \/ (1 = l /\ i < j) => <<ts[i], td[l][j]>> \in TO
  <2>1. \A i \in 1 .. Len(td[1]) :
          /\ \A x : <<td[1][i], x>> \in TO => \E l \in 1 .. h : \E j \in 1 .. Len(td[l]) : x = td[l][j]
          /\ \A p \in P : p[1] = td[1][i] => \E j \in i + 1 .. Len(td[1]) : p[2] = td[1][j]
          /\ \A j \in 1 .. Len(td[1]) : i < j /\ nm[td[1][i]] # nm[td[1][j]] => <<td[1][i], td[1][j]>> \in P
    BY <1>1, <1>2, Zenon
  <2>2. \A i \in 1 .. Len(td[1]) : \A l \in 1 .. h : \A j \in 1 .. Len(td[l]) :
          1 < l \/ (1 = l /\ i < j) => <<td[1][i], td[l][j]>> \in TO
    BY <1>1, <1>2, Zenon
  <2> QED BY <2>1, <2>2 DEF b
<1>6. \A i, j \in 1 .. b : i < j => <<ts[i], ts[j]>> \in TO
  BY <1>1, <1>5, Zenon DEF b
<1>7. ASSUME NEW i \in 1 .. b, NEW x, <<ts[i], x>> \in TO
      PROVE  (\E k \in i + 1 .. b : x = ts[k]) \/ (\A k \in 1 .. b : <<ts[k], x>> \in TO)
  <2>1. PICK l \in 1 .. h : \E j \in 1 .. Len(td[l]) : x = td[l][j]
    BY <1>5, <1>7
  <2>2. PICK j \in 1 .. Len(td[l]) : x = td[l][j]
    BY <2>1
  <2>3. CASE l = 1
    <3>1. j \in 1 .. b /\ x = ts[j]
      BY <2>2, <2>3 DEF b
    <3>2. j # i
      BY <1>4, <1>7, <3>1, Zenon
    <3>3. ~(j < i)
      BY <1>4, <1>6, <1>7, <3>1
    <3>4. j \in i + 1 .. b
      BY <1>1, <3>1, <3>2, <3>3
    <3> QED BY <3>1, <3>4
  <2>4. CASE 1 < l
    BY <1>5, <2>2, <2>4, Zenon
  <2>5. l = 1 \/ 1 < l
    BY <1>1
  <2> QED BY <2>3, <2>4, <2>5
<1> QED BY <1>1, <1>3, <1>5, <1>6, <1>7, Zenon DEF Phrase, b

\* So are those after the first.
LEMMA RestTail ==
  ASSUME NEW Tm, NEW nm, NEW TO, NEW P, World(Tm, nm, TO, P),
         NEW td \in Seq(Sentences(Tm)), td # <<>>, Rest(td, nm, TO, P)
  PROVE  Rest(Tail(td), nm, TO, P)
<1> DEFINE h == Len(td)
           ud == Tail(td)
<1>1. /\ h \in Nat /\ Len(ud) = h - 1 /\ \A l \in 1 .. Len(ud) : l + 1 \in 1 .. h /\ ud[l] = td[l + 1]
  <2> DEFINE Q == Sentences(Tm)
  <2> HIDE DEF Q
  <2>1. td \in Seq(Q)
    BY DEF Q
  <2> QED BY <2>1
<1>2. /\ \A k, l \in 1 .. h : \A i \in 1 .. Len(td[k]), j \in 1 .. Len(td[l]) :
           k < l \/ (k = l /\ i < j) => <<td[k][i], td[l][j]>> \in TO
      /\ \A k \in 1 .. h : \A i \in 1 .. Len(td[k]) :
           /\ \A x : <<td[k][i], x>> \in TO => \E l \in 1 .. h : \E j \in 1 .. Len(td[l]) : x = td[l][j]
           /\ \A p \in P : p[1] = td[k][i] => \E j \in i + 1 .. Len(td[k]) : p[2] = td[k][j]
           /\ \A j \in 1 .. Len(td[k]) : i < j /\ nm[td[k][i]] # nm[td[k][j]] => <<td[k][i], td[k][j]>> \in P
  BY Zenon DEF Rest
<1>3. \A x, y : <<x, y>> \in TO => <<y, x>> \notin TO
  BY Zenon DEF Linear, World
<1> HIDE DEF h, ud
<1>4. ASSUME NEW k \in 1 .. Len(ud), NEW l \in 1 .. Len(ud), NEW i \in 1 .. Len(ud[k]), NEW j \in 1 .. Len(ud[l]),
             k < l \/ (k = l /\ i < j)
      PROVE  <<ud[k][i], ud[l][j]>> \in TO
  <2>1. /\ k + 1 \in 1 .. h /\ l + 1 \in 1 .. h /\ (k + 1 < l + 1 \/ (k + 1 = l + 1 /\ i < j))
        /\ ud[k] = td[k + 1] /\ ud[l] = td[l + 1]
    BY <1>1, <1>4
  <2> QED BY <1>2, <2>1
<1>5. ASSUME NEW k \in 1 .. Len(ud), NEW i \in 1 .. Len(ud[k])
      PROVE  /\ \A x : <<ud[k][i], x>> \in TO => \E l \in 1 .. Len(ud) : \E j \in 1 .. Len(ud[l]) : x = ud[l][j]
             /\ \A p \in P : p[1] = ud[k][i] => \E j \in i + 1 .. Len(ud[k]) : p[2] = ud[k][j]
             /\ \A j \in 1 .. Len(ud[k]) : i < j /\ nm[ud[k][i]] # nm[ud[k][j]] => <<ud[k][i], ud[k][j]>> \in P
  <2> DEFINE k1 == k + 1
             s == td[k1]
  <2>1. k1 \in 1 .. h /\ ud[k] = s /\ 1 < k1 /\ 1 \in 1 .. h
    BY <1>1
  <2> HIDE DEF k1
  <2>2. /\ \A x : <<s[i], x>> \in TO => \E l \in 1 .. h : \E j \in 1 .. Len(td[l]) : x = td[l][j]
        /\ \A p \in P : p[1] = s[i] => \E j \in i + 1 .. Len(s) : p[2] = s[j]
        /\ \A j \in 1 .. Len(s) : i < j /\ nm[s[i]] # nm[s[j]] => <<s[i], s[j]>> \in P
    BY <1>2, <2>1
  <2>3. ASSUME NEW x, <<s[i], x>> \in TO
        PROVE  \E l \in 1 .. Len(ud) : \E j \in 1 .. Len(ud[l]) : x = ud[l][j]
    <3>1. PICK l \in 1 .. h : \E j \in 1 .. Len(td[l]) : x = td[l][j]
      BY <2>2, <2>3, Zenon
    <3>2. PICK j \in 1 .. Len(td[l]) : x = td[l][j]
      BY <3>1
    <3>3. l # 1
      <4> SUFFICES ASSUME l = 1 PROVE FALSE
        OBVIOUS
      <4>1. l < k1 /\ i \in 1 .. Len(td[k1])
        BY <2>1
      <4>2. <<x, s[i]>> \in TO
        BY <1>2, <2>1, <3>2, <4>1
      <4> QED BY <1>3, <2>3, <4>2, Zenon
    <3>4. l - 1 \in 1 .. Len(ud) /\ (l - 1) + 1 = l
      BY <1>1, <3>3
    <3>5. ud[l - 1] = td[l]
      BY <1>1, <3>4
    <3> QED BY <3>2, <3>4, <3>5
  <2> QED BY <2>1, <2>2, <2>3
<1>6. Rest(ud, nm, TO, P)
  BY <1>4, <1>5, Zenon DEF Rest
<1> QED BY <1>6 DEF ud

\* What is done when the first is used up.
LEMMA TailReached ==
  ASSUME NEW Tm, NEW td \in Seq(Sentences(Tm)), td # <<>>, NEW k \in Nat, k = Len(td[1])
  PROVE  /\ Reached(Tm, Tail(td), 0) = Reached(Tm, td, k)
         /\ Done(Tm, Tail(td), 0) = Done(Tm, td, k)
<1> DEFINE h == Len(td)
           ud == Tail(td)
           left(t) == \E l \in 1 .. h : \E j \in 1 .. Len(td[l]) : l > 1 /\ td[l][j] = t
<1>1. /\ h \in Nat /\ Len(ud) = h - 1 /\ \A l \in 1 .. Len(ud) : l + 1 \in 1 .. h /\ ud[l] = td[l + 1]
      /\ 1 \in 1 .. h
  <2> DEFINE Q == Sentences(Tm)
  <2> HIDE DEF Q
  <2>1. td \in Seq(Q)
    BY DEF Q
  <2> QED BY <2>1
<1>2. k # 0 /\ \A l \in 1 .. h : Len(td[l]) \in Nat
  BY <1>1, ListOfSentences
<1> HIDE DEF h, ud
<1>3. \A t : (\E l \in 1 .. Len(ud) : \E j \in 1 .. Len(ud[l]) : ud[l][j] = t) <=> left(t)
  <2>1. ASSUME NEW t, NEW l \in 1 .. Len(ud), NEW j \in 1 .. Len(ud[l]), ud[l][j] = t PROVE left(t)
    <3>1. l + 1 \in 1 .. h /\ l + 1 > 1 /\ ud[l] = td[l + 1]
      BY <1>1
    <3> QED BY <2>1, <3>1
  <2>2. ASSUME NEW t, NEW l \in 1 .. h, NEW j \in 1 .. Len(td[l]), l > 1, td[l][j] = t
        PROVE  \E m \in 1 .. Len(ud) : \E n \in 1 .. Len(ud[m]) : ud[m][n] = t
    <3>1. l - 1 \in 1 .. Len(ud) /\ (l - 1) + 1 = l
      BY <1>1, <2>2
    <3>2. ud[l - 1] = td[l]
      BY <1>1, <3>1
    <3> QED BY <2>2, <3>1, <3>2
  <2> QED BY <2>1, <2>2, Zenon
<1>4. \A t : t \in Reached(Tm, ud, 0) <=> t \in Tm /\ ~left(t)
  BY <1>3, Zenon DEF Reached
<1>5. \A t : t \in Reached(Tm, td, k) <=> t \in Tm /\ ~left(t)
  BY <1>2, Zenon DEF Reached, h
<1>6. \A t : t \in Done(Tm, ud, 0) <=> t \in Tm /\ ~left(t)
  <2>1. \A l \in 1 .. Len(ud) : \A j \in 1 .. Len(ud[l]) : l > 1 \/ j > 0
    OBVIOUS
  <2>2. ASSUME NEW t
        PROVE  (\E l \in 1 .. Len(ud) : \E j \in 1 .. Len(ud[l]) : (l > 1 \/ j > 0) /\ ud[l][j] = t)
                 <=> \E l \in 1 .. Len(ud) : \E j \in 1 .. Len(ud[l]) : ud[l][j] = t
    BY <2>1
  <2>3. \A t : t \in Done(Tm, ud, 0) <=> t \in Tm /\ ~ \E l \in 1 .. Len(ud) : \E j \in 1 .. Len(ud[l]) :
                                                         (l > 1 \/ j > 0) /\ ud[l][j] = t
    BY Zenon DEF Done
  <2> HIDE DEF left
  <2> QED BY <1>3, <2>2, <2>3, Zenon
<1>7. \A t : t \in Done(Tm, td, k) <=> t \in Tm /\ ~left(t)
  <2>1. \A l \in 1 .. h : \A j \in 1 .. Len(td[l]) : l > 1 \/ j > k <=> l > 1
    <3> SUFFICES ASSUME NEW l \in 1 .. h, NEW j \in 1 .. Len(td[l]), ~(l > 1) PROVE ~(j > k)
      OBVIOUS
    <3>1. l = 1
      BY <1>1
    <3> QED BY <1>2, <3>1
  <2> QED BY <2>1, Zenon DEF Done, h
<1>8. Reached(Tm, ud, 0) = Reached(Tm, td, k) /\ Done(Tm, ud, 0) = Done(Tm, td, k)
  BY <1>4, <1>5, <1>6, <1>7, Zenon
<1> QED BY <1>8 DEF ud

\* A subject's step: its sentence's later terms get their nodes, and its pairs
\* their edges.
LEMMA SubjectDrawn ==
  ASSUME NEW Tm, NEW nm, NEW TO, NEW P, World(Tm, nm, TO, P),
         NEW td \in Seq(Sentences(Tm)), 1 <= Len(td), Rest(td, nm, TO, P),
         NEW k \in Nat, k < Len(td[1]),
         Listed(nodes, Tm, nm, TO, Reached(Tm, td, k)),
         Recorded(edges, nodes, Tm, nm, TO, P, {p \in P : p[1] \in Done(Tm, td, k)})
  PROVE  /\ SoFar(extend(td[1], k + 1), Tm, nm, TO, P, td, k + 1)
         /\ extend(td[1], k + 1).nodes # <<>>
<1> DEFINE h == Len(td)
           ts == td[1]
           b == Len(ts)
           i == k + 1
           x == ts[i]
           W == Reached(Tm, td, k)
           V == Reached(Tm, td, i)
           D == {p \in P : p[1] \in Done(Tm, td, k)}
           E == {p \in P : p[1] \in Done(Tm, td, i)}
<1>1. /\ h \in Nat /\ 1 \in 1 .. h /\ b \in Nat /\ i \in 1 .. b /\ i # 0 /\ i \in Nat
      /\ \A l \in 1 .. h : \A j \in 1 .. Len(td[l]) : td[l][j] \in Tm
      /\ \A l \in 1 .. h : Len(td[l]) \in Nat
  BY ListOfSentences
<1>2. /\ \A m, l \in 1 .. h : \A n \in 1 .. Len(td[m]), j \in 1 .. Len(td[l]) :
           m < l \/ (m = l /\ n < j) => <<td[m][n], td[l][j]>> \in TO
      /\ \A n \in 1 .. b : \A y : <<ts[n], y>> \in TO => \E l \in 1 .. h : \E j \in 1 .. Len(td[l]) : y = td[l][j]
  BY <1>1, Zenon DEF Rest
<1>3. /\ \A y, z : <<y, z>> \in TO => y \in Tm /\ z \in Tm /\ <<z, y>> \notin TO
      /\ \A y, z \in Tm : y = z \/ <<y, z>> \in TO \/ <<z, y>> \in TO
  BY Zenon DEF World, Linear
<1>4. Phrase(ts, Tm, nm, TO, P)
  BY RestPhrase
<1>5. /\ \A u : u \in Done(Tm, td, k) <=> u \in Tm /\ ~ \E l \in 1 .. h : \E j \in 1 .. Len(td[l]) :
                                                          (l > 1 \/ j > k) /\ td[l][j] = u
      /\ \A u : u \in Done(Tm, td, i) <=> u \in Tm /\ ~ \E l \in 1 .. h : \E j \in 1 .. Len(td[l]) :
                                                          (l > 1 \/ j > i) /\ td[l][j] = u
      /\ \A u : u \in W <=> u \in Tm /\ ~ \E l \in 1 .. h : \E j \in 1 .. Len(td[l]) :
                                                          (l > 1 \/ k = 0) /\ td[l][j] = u
      /\ \A u : u \in V <=> u \in Tm /\ ~ \E l \in 1 .. h : \E j \in 1 .. Len(td[l]) :
                                                          (l > 1 \/ i = 0) /\ td[l][j] = u
  BY Zenon DEF Done, Reached
<1>6. i = k + 1 /\ x \in Tm
  BY <1>1
<1>7. ASSUME NEW l \in 1 .. h, NEW j \in 1 .. Len(td[l]), l > 1 \/ j > k
      PROVE  td[l][j] = x \/ <<x, td[l][j]>> \in TO
  <2>1. 1 < l \/ (1 = l /\ i < j) \/ (l = 1 /\ j = i)
    BY <1>1, <1>6, <1>7
  <2> HIDE DEF i
  <2> QED BY <1>1, <1>2, <2>1 DEF x, ts, b
<1> HIDE DEF h, b, W, V, D, E, i, x
<1>8. \A u : u \in Done(Tm, td, k) <=> u \in Tm /\ <<u, x>> \in TO
  <2>1. ASSUME NEW u \in Done(Tm, td, k) PROVE u \in Tm /\ <<u, x>> \in TO
    <3>1. u \in Tm
      BY <1>5
    <3>2. u # x
      <4>1. 1 \in 1 .. h /\ i \in 1 .. Len(td[1]) /\ i > k /\ td[1][i] = x
        BY <1>1, <1>6 DEF b, x
      <4> QED BY <1>5, <4>1, Zenon
    <3>3. <<x, u>> \notin TO
      <4> SUFFICES ASSUME <<x, u>> \in TO PROVE FALSE
        OBVIOUS
      <4>1. PICK l \in 1 .. h : \E j \in 1 .. Len(td[l]) : u = td[l][j]
        BY <1>1, <1>2, Zenon DEF x
      <4>2. PICK j \in 1 .. Len(td[l]) : u = td[l][j]
        BY <4>1
      <4>3. ~(l > 1 \/ j > k)
        BY <1>5, <4>2, Zenon
      <4>4. l = 1 /\ j < i
        BY <1>1, <1>6, <4>3
      <4>5. <<u, x>> \in TO
        BY <1>1, <1>2, <4>2, <4>4 DEF x, b
      <4> QED BY <1>3, <4>5, Zenon
    <3> QED BY <1>3, <1>6, <3>1, <3>2, <3>3, Zenon
  <2>2. ASSUME NEW u \in Tm, <<u, x>> \in TO PROVE u \in Done(Tm, td, k)
    <3>1. \A l \in 1 .. h : \A j \in 1 .. Len(td[l]) : l > 1 \/ j > k => td[l][j] # u
      BY <1>3, <1>7, <2>2, Zenon
    <3> QED BY <1>5, <3>1, Zenon
  <2> QED BY <2>1, <2>2
<1>9. \A u : u \in Done(Tm, td, i) <=> u \in Done(Tm, td, k) \/ u = x
  <2>1. ASSUME NEW u \in Done(Tm, td, i), u # x PROVE u \in Done(Tm, td, k)
    <3>1. ASSUME NEW l \in 1 .. h, NEW j \in 1 .. Len(td[l]), l > 1 \/ j > k, td[l][j] = u PROVE FALSE
      <4>1. ~(l > 1 \/ j > i)
        BY <1>5, <2>1, <3>1, Zenon
      <4>2. l = 1 /\ j = i
        BY <1>1, <1>6, <3>1, <4>1
      <4> QED BY <2>1, <3>1, <4>2 DEF x
    <3> QED BY <1>5, <2>1, <3>1, Zenon
  <2>2. Done(Tm, td, k) \subseteq Done(Tm, td, i)
    <3>1. \A l \in 1 .. h : \A j \in 1 .. Len(td[l]) : l > 1 \/ j > i => l > 1 \/ j > k
      BY <1>1, <1>6
    <3> QED BY <1>5, <3>1, Zenon
  <2>3. x \in Done(Tm, td, i)
    <3>1. ASSUME NEW l \in 1 .. h, NEW j \in 1 .. Len(td[l]), l > 1 \/ j > i, td[l][j] = x PROVE FALSE
      <4>1. 1 < l \/ (1 = l /\ i < j)
        BY <1>1, <3>1
      <4>2. <<x, td[l][j]>> \in TO
        BY <1>1, <1>2, <4>1 DEF x, b
      <4> QED BY <1>3, <3>1, <4>2, Zenon
    <3> QED BY <1>5, <1>6, <3>1, Zenon
  <2> QED BY <2>1, <2>2, <2>3, Zenon
<1>10. \A n \in 1 .. b : \A l \in 1 .. h : \A j \in 1 .. Len(td[l]) : l > 1 => td[l][j] # ts[n]
  <2> SUFFICES ASSUME NEW n \in 1 .. b, NEW l \in 1 .. h, NEW j \in 1 .. Len(td[l]), l > 1, td[l][j] = ts[n]
               PROVE  FALSE
    OBVIOUS
  <2>1. 1 < l
    BY <1>1
  <2>2. <<ts[n], td[l][j]>> \in TO
    BY <1>1, <1>2, <2>1 DEF b
  <2> QED BY <1>3, <2>2, Zenon
<1>11. \A n \in 1 .. b : ts[n] \in Tm
  BY <1>1 DEF b
<1>12. Ready(W, Tm, TO, ts, i)
  <2>1. CASE k = 0
    <3>1. \A l \in 1 .. h : \A j \in 1 .. Len(td[l]) : (l > 1 \/ k = 0 <=> l > 1 \/ j > k)
      BY <1>1, <2>1
    <3>2. \A u : u \in W <=> u \in Done(Tm, td, k)
      BY <1>5, <3>1, Zenon
    <3>3. \A u : u \in W <=> u \in Prior(Tm, TO, x)
      BY <1>8, <3>2, Zenon DEF Prior
    <3>4. W = Prior(Tm, TO, ts[i])
      BY <3>3, Zenon DEF x
    <3> QED BY <3>4, Zenon DEF Ready
  <2>2. CASE k # 0
    <3>1. \A n \in 1 .. b : ts[n] \in W
      BY <1>5, <1>10, <1>11, <2>2, Zenon
    <3> QED BY <3>1, Zenon DEF Ready, b
  <2> QED BY <2>1, <2>2
<1>13. \A u : u \in V <=> u \in W \/ \E n \in i .. b : u = ts[n]
  <2>1. ASSUME NEW u \in V, u \notin W PROVE \E n \in i .. b : u = ts[n]
    <3>1. PICK l \in 1 .. h : \E j \in 1 .. Len(td[l]) : (l > 1 \/ k = 0) /\ td[l][j] = u
      BY <1>5, <2>1, Zenon
    <3>2. PICK j \in 1 .. Len(td[l]) : (l > 1 \/ k = 0) /\ td[l][j] = u
      BY <3>1
    <3>3. ~(l > 1)
      BY <1>5, <2>1, <3>2, Zenon
    <3>4. l = 1 /\ k = 0
      BY <1>1, <3>2, <3>3
    <3>5. j \in i .. b
      BY <1>1, <1>6, <3>4 DEF b
    <3> QED BY <3>2, <3>4, <3>5
  <2>2. W \subseteq V
    <3>1. \A l : l > 1 \/ i = 0 => l > 1 \/ k = 0
      BY <1>1, Zenon
    <3> QED BY <1>5, <3>1, Zenon
  <2>3. ASSUME NEW n \in i .. b PROVE ts[n] \in V
    <3>1. n \in 1 .. b
      BY <1>1
    <3> QED BY <1>1, <1>5, <1>10, <1>11, <3>1, Zenon
  <2> QED BY <2>1, <2>2, <2>3, Zenon
<1>14. \A q : q \in D <=> q \in P /\ <<q[1], ts[i]>> \in TO
  <2>1. \A q \in P : q[1] \in Tm
    <3>1. \A q \in P : <<q[1], q[2]>> \in TO
      BY Zenon DEF World
    <3>2. \A y, z : <<y, z>> \in TO => y \in Tm
      BY <1>3, Zenon
    <3> QED BY <3>1, <3>2
  <2> QED BY <1>8, <2>1, Zenon DEF D, x
<1>15. \A q : q \in E <=> q \in P /\ (<<q[1], ts[i]>> \in TO \/ q[1] = ts[i])
  <2>1. \A q \in P : q[1] \in Tm
    <3>1. \A q \in P : <<q[1], q[2]>> \in TO
      BY Zenon DEF World
    <3>2. \A y, z : <<y, z>> \in TO => y \in Tm
      BY <1>3, Zenon
    <3> QED BY <3>1, <3>2
  <2> QED BY <1>8, <1>9, <2>1, Zenon DEF E, x
<1>16. W \subseteq Tm
  BY <1>5
<1>17. Drawn(extend(ts, i), Tm, nm, TO, P, V, E)
  <2>1. Listed(nodes, Tm, nm, TO, W) /\ Recorded(edges, nodes, Tm, nm, TO, P, D)
    BY Zenon DEF W, D
  <2>2. i \in 1 .. Len(ts) /\ \A u : u \in V <=> u \in W \/ \E n \in i .. Len(ts) : u = ts[n]
    BY <1>1, <1>13 DEF b
  <2> HIDE DEF ts
  <2> QED BY <1>4, <1>12, <1>14, <1>15, <1>16, <2>1, <2>2, ExtendDraws
<1>18. extend(ts, i).nodes # <<>>
  <2>1. x \in V
    <3>1. i \in i .. b
      BY <1>1
    <3> QED BY <1>13, <3>1, Zenon DEF x
  <2>2. PICK n \in 1 .. Len(extend(ts, i).nodes) : extend(ts, i).nodes[n].text = nm[x]
    BY <1>17, <2>1, Zenon DEF Drawn, Listed
  <2>3. Len(<<>>) = 0
    OBVIOUS
  <2> DEFINE z == extend(ts, i).nodes
  <2>4. n \in 1 .. Len(z)
    BY <2>2
  <2> HIDE DEF z
  <2>5. z # <<>>
    BY <2>3, <2>4
  <2> QED BY <2>5 DEF z
<1> QED BY <1>17, <1>18, Zenon DEF SoFar, V, E, ts, i

----------------------------------------------------------------------------
(* The document's terms, texts, order and pairs                            *)

Names     == [t \in Terms |-> lowered(t)]
TermOrder == {r \in Terms \X Terms : precedes(r[1], r[2])}

\* They depend on the document and its tokens alone.
LEMMA WorldKept ==
  ASSUME document' = document, tokens' = tokens
  PROVE  Terms' = Terms /\ Names' = Names /\ TermOrder' = TermOrder /\ Pairs' = Pairs
<1>1. Terms' = Terms
  BY TextsKept
<1>2. \A t : lowered(t)' = lowered(t)
  BY Zenon DEF lowered, Text
<1>3. Names' = Names
  BY <1>1, <1>2, Zenon DEF Names
<1>4. TermOrder' = TermOrder
  BY <1>1, Zenon DEF TermOrder, precedes
<1>5. /\ \A t : newlinesOf(t)' = newlinesOf(t)
      /\ \A t : IsEnder(t)' <=> IsEnder(t)
  BY Zenon DEF newlinesOf, IsEnder, Char
<1>6. \A t, u : Between(t, u)' = Between(t, u)
  BY Zenon DEF Between, precedes
<1>7. \A t, u : (Breaks(t, u)' <=> Breaks(t, u)) /\ (Ends(t, u)' <=> Ends(t, u))
  BY <1>5, <1>6, Zenon DEF Breaks, Ends
<1>8. Pairs' = Pairs
  <2>1. \A p : p \in Pairs' <=> p \in Pairs
    BY <1>1, <1>2, <1>7, Zenon DEF Pairs, precedes
  <2> QED BY <2>1, Zenon
<1> QED BY <1>1, <1>3, <1>4, <1>8

\* The order of two terms, and the pairs.
LEMMA WorldIs ==
  /\ \A t, u : <<t, u>> \in TermOrder <=> t \in Terms /\ u \in Terms /\ precedes(t, u)
  /\ \A t, u : <<t, u>> \in Pairs <=> /\ t \in Terms /\ u \in Terms /\ precedes(t, u)
                                      /\ lowered(t) # lowered(u) /\ ~Breaks(t, u) /\ ~Ends(t, u)
  /\ \A p \in Pairs : p = <<p[1], p[2]>>
  /\ \A t \in Terms : Names[t] = lowered(t)
<1>1. ASSUME NEW t, NEW u
      PROVE  /\ <<t, u>> \in TermOrder <=> t \in Terms /\ u \in Terms /\ precedes(t, u)
             /\ <<t, u>> \in Pairs <=> /\ t \in Terms /\ u \in Terms /\ precedes(t, u)
                                       /\ lowered(t) # lowered(u) /\ ~Breaks(t, u) /\ ~Ends(t, u)
  <2> DEFINE r == <<t, u>>
  <2>1. r[1] = t /\ r[2] = u /\ (r \in Terms \X Terms <=> t \in Terms /\ u \in Terms)
    OBVIOUS
  <2> HIDE DEF r
  <2>2. /\ r \in TermOrder <=> t \in Terms /\ u \in Terms /\ precedes(t, u)
        /\ r \in Pairs <=> /\ t \in Terms /\ u \in Terms /\ precedes(t, u)
                           /\ lowered(t) # lowered(u) /\ ~Breaks(t, u) /\ ~Ends(t, u)
    BY <2>1, Zenon DEF TermOrder, Pairs
  <2> QED BY <2>2 DEF r
<1>2. ASSUME NEW p \in Pairs PROVE p = <<p[1], p[2]>>
  <2>1. p \in Terms \X Terms
    BY Zenon DEF Pairs
  <2> QED BY <2>1
<1>3. \A t \in Terms : Names[t] = lowered(t)
  BY DEF Names
<1> QED BY <1>1, <1>2, <1>3

\* Terms that lie one after the other are in order.
LEMMA DocumentWorld ==
  ASSUME TilesInv
  PROVE  World(Terms, Names, TermOrder, Pairs)
<1>1. \A t : t \in Terms => \E n \in 1 .. Len(tokens) : t = tokens[n]
  <2>1. \A n \in TermPlaces : n \in 1 .. Len(tokens)
    BY DEF TermPlaces
  <2> QED BY <2>1, TermsAre
<1>2. \A m, n \in 1 .. Len(tokens) : precedes(tokens[m], tokens[n]) <=> m < n
  BY TokensLaid DEF Laid
<1>3. ASSUME NEW x \in Terms, NEW y \in Terms
      PROVE  (precedes(x, y) => ~precedes(y, x)) /\ (x = y \/ precedes(x, y) \/ precedes(y, x))
  <2>1. PICK m \in 1 .. Len(tokens) : x = tokens[m]
    BY <1>1
  <2>2. PICK n \in 1 .. Len(tokens) : y = tokens[n]
    BY <1>1
  <2>3. m = n \/ (m < n /\ ~(n < m)) \/ (n < m /\ ~(m < n))
    OBVIOUS
  <2>4. ~(m < m)
    OBVIOUS
  <2> QED BY <1>2, <2>1, <2>2, <2>3, <2>4
<1>4. ASSUME NEW x \in Terms, NEW y \in Terms, NEW z \in Terms, precedes(x, y), precedes(y, z)
      PROVE  precedes(x, z)
  <2>1. PICK m \in 1 .. Len(tokens) : x = tokens[m]
    BY <1>1
  <2>2. PICK n \in 1 .. Len(tokens) : y = tokens[n]
    BY <1>1
  <2>3. PICK l \in 1 .. Len(tokens) : z = tokens[l]
    BY <1>1
  <2>4. m < n /\ n < l
    BY <1>2, <1>4, <2>1, <2>2, <2>3
  <2>5. m < l
    BY <2>4
  <2> QED BY <1>2, <2>1, <2>3, <2>5
<1>5. Linear(Terms, TermOrder)
  <2>1. \A x, y : <<x, y>> \in TermOrder <=> x \in Terms /\ y \in Terms /\ precedes(x, y)
    BY WorldIs
  <2> QED BY <1>3, <1>4, <2>1, Zenon DEF Linear
<1>6. \A p \in Pairs : p = <<p[1], p[2]>> /\ <<p[1], p[2]>> \in TermOrder /\ Names[p[1]] # Names[p[2]]
  <2> SUFFICES ASSUME NEW p \in Pairs
               PROVE  p = <<p[1], p[2]>> /\ <<p[1], p[2]>> \in TermOrder /\ Names[p[1]] # Names[p[2]]
    OBVIOUS
  <2>1. p = <<p[1], p[2]>>
    BY WorldIs
  <2>2. <<p[1], p[2]>> \in Pairs
    BY <2>1, Zenon
  <2>3. /\ p[1] \in Terms /\ p[2] \in Terms /\ precedes(p[1], p[2]) /\ lowered(p[1]) # lowered(p[2])
    BY <2>2, WorldIs, Zenon
  <2> QED BY <2>1, <2>3, WorldIs, Zenon
<1> QED BY <1>5, <1>6, WorldIs, Zenon DEF World

\* All sentences of the document.
LEMMA DocumentRest ==
  ASSUME TilesInv, NEW L \in Seq(Sentences(Terms)),
         Parted(tokens, CutPlaces, L), \A x : Member(L, x) <=> \E n \in TermPlaces : x = tokens[n]
  PROVE  /\ Rest(L, Names, TermOrder, Pairs)
         /\ \A t \in Terms : \E l \in 1 .. Len(L) : \E j \in 1 .. Len(L[l]) : L[l][j] = t
<1> DEFINE C == CutPlaces
<1>1. /\ Len(L) \in Nat
      /\ \A l \in 1 .. Len(L) : Len(L[l]) \in Nat /\ \A j \in 1 .. Len(L[l]) : L[l][j] \in Terms
  BY ListOfSentences
<1>2. /\ \A k \in 1 .. Len(L) : \A i, j \in 1 .. Len(L[k]) :
           /\ i < j => precedes(L[k][i], L[k][j])
           /\ ~Split(tokens, C, L[k][i], L[k][j])
      /\ \A k, l \in 1 .. Len(L) : k < l =>
           \A i \in 1 .. Len(L[k]), j \in 1 .. Len(L[l]) :
             precedes(L[k][i], L[l][j]) /\ Split(tokens, C, L[k][i], L[l][j])
  BY Zenon DEF Parted
<1>3. \A t \in Terms : \E l \in 1 .. Len(L) : \E j \in 1 .. Len(L[l]) : L[l][j] = t
  BY TermsAre, Zenon DEF Member
<1>4. \A t, u : Split(tokens, C, t, u) <=> Breaks(t, u) \/ Ends(t, u)
  BY SeparatorsAre
<1> HIDE DEF C
<1>5. ASSUME NEW k \in 1 .. Len(L), NEW l \in 1 .. Len(L), NEW i \in 1 .. Len(L[k]), NEW j \in 1 .. Len(L[l]),
             k < l \/ (k = l /\ i < j)
      PROVE  <<L[k][i], L[l][j]>> \in TermOrder
  <2>1. precedes(L[k][i], L[l][j])
    BY <1>2, <1>5
  <2>2. L[k][i] \in Terms /\ L[l][j] \in Terms
    BY <1>1
  <2> QED BY <2>1, <2>2, WorldIs, Zenon
<1>6. ASSUME NEW k \in 1 .. Len(L), NEW i \in 1 .. Len(L[k]), NEW x, <<L[k][i], x>> \in TermOrder
      PROVE  \E l \in 1 .. Len(L) : \E j \in 1 .. Len(L[l]) : x = L[l][j]
  <2>1. x \in Terms
    BY <1>6, WorldIs, Zenon
  <2> QED BY <1>3, <2>1, Zenon
<1>7. ASSUME NEW k \in 1 .. Len(L), NEW i \in 1 .. Len(L[k]), NEW p \in Pairs, p[1] = L[k][i]
      PROVE  \E j \in i + 1 .. Len(L[k]) : p[2] = L[k][j]
  <2> DEFINE x == p[1]
             y == p[2]
  <2>1. p = <<x, y>>
    BY WorldIs, Zenon
  <2>2. <<x, y>> \in Pairs
    BY <2>1, Zenon
  <2> HIDE DEF x, y
  <2>3. x \in Terms /\ y \in Terms /\ precedes(x, y) /\ ~Breaks(x, y) /\ ~Ends(x, y)
    BY <2>2, WorldIs, Zenon
  <2>4. <<x, y>> \in TermOrder /\ ~Split(tokens, C, x, y)
    BY <1>4, <2>3, WorldIs, Zenon
  <2>5. <<y, x>> \notin TermOrder
    BY <2>4, DocumentWorld, Zenon DEF World, Linear
  <2>6. PICK l \in 1 .. Len(L) : \E j \in 1 .. Len(L[l]) : L[l][j] = y
    BY <1>3, <2>3
  <2>7. PICK j \in 1 .. Len(L[l]) : L[l][j] = y
    BY <2>6
  <2>8. x = L[k][i]
    BY <1>7 DEF x
  <2>9. ~(k < l)
    BY <1>2, <2>4, <2>7, <2>8
  <2>10. ~(l < k) /\ ~(l = k /\ j < i)
    BY <1>5, <2>5, <2>7, <2>8
  <2>11. l = k
    BY <1>1, <2>9, <2>10
  <2>12. j # i
    BY <2>4, <2>5, <2>7, <2>8, <2>11
  <2>13. j \in i + 1 .. Len(L[k])
    BY <1>1, <2>10, <2>11, <2>12
  <2> QED BY <2>7, <2>11, <2>13 DEF y
<1>8. ASSUME NEW k \in 1 .. Len(L), NEW i \in 1 .. Len(L[k]), NEW j \in 1 .. Len(L[k]), i < j,
             Names[L[k][i]] # Names[L[k][j]]
      PROVE  <<L[k][i], L[k][j]>> \in Pairs
  <2> DEFINE x == L[k][i]
             y == L[k][j]
  <2>1. x \in Terms /\ y \in Terms /\ precedes(x, y) /\ ~Split(tokens, C, x, y) /\ Names[x] # Names[y]
    BY <1>1, <1>2, <1>8
  <2> HIDE DEF x, y
  <2>2. lowered(x) # lowered(y)
    BY <2>1, WorldIs, Zenon
  <2>3. <<x, y>> \in Pairs
    BY <1>4, <2>1, <2>2, WorldIs, Zenon
  <2> QED BY <2>3 DEF x, y
<1>9. Rest(L, Names, TermOrder, Pairs)
  BY <1>5, <1>6, <1>7, <1>8, Zenon DEF Rest
<1> QED BY <1>3, <1>9

\* The order of terms and that of pairs are strict.
LEMMA OrdersStrict ==
  ASSUME NEW Tm, NEW TO, Linear(Tm, TO), NEW P
  PROVE  Strict(TO) /\ Strict(Lex(P, TO))
<1>1. \A x, y : <<x, y>> \in TO => <<y, x>> \notin TO
  BY Zenon DEF Linear
<1>2. Strict(TO)
  BY <1>1, Zenon DEF Strict
<1>3. ASSUME NEW q, NEW p, <<q, p>> \in Lex(P, TO)
      PROVE  <<q[1], p[1]>> \in TO \/ (q[1] = p[1] /\ <<q[2], p[2]>> \in TO)
  <2> DEFINE r == <<q, p>>
  <2>1. r[1] = q /\ r[2] = p
    OBVIOUS
  <2>2. <<r[1][1], r[2][1]>> \in TO \/ (r[1][1] = r[2][1] /\ <<r[1][2], r[2][2]>> \in TO)
    BY <1>3, Zenon DEF Lex
  <2> HIDE DEF r
  <2> QED BY <2>1, <2>2
<1>4. ASSUME NEW q, NEW p, <<q, p>> \in Lex(P, TO), <<p, q>> \in Lex(P, TO) PROVE FALSE
  <2>1. /\ <<q[1], p[1]>> \in TO \/ (q[1] = p[1] /\ <<q[2], p[2]>> \in TO)
        /\ <<p[1], q[1]>> \in TO \/ (p[1] = q[1] /\ <<p[2], q[2]>> \in TO)
    BY <1>3, <1>4
  <2> QED BY <1>1, <2>1, Zenon
<1>5. Strict(Lex(P, TO))
  BY <1>4, Zenon DEF Strict
<1> QED BY <1>2, <1>5

\* A node per first occurrence, an edge per pair: the graph is its document's.
LEMMA GraphMeans ==
  ASSUME TilesInv, Listed(nodes, Terms, Names, TermOrder, Terms),
         Recorded(edges, nodes, Terms, Names, TermOrder, Pairs, Pairs)
  PROVE  GraphSpansDocument
<1> DEFINE h == Len(nodes)
           g == Len(edges)
<1>1. /\ \A t, u : <<t, u>> \in TermOrder <=> t \in Terms /\ u \in Terms /\ precedes(t, u)
      /\ \A p \in Pairs : p = <<p[1], p[2]>>
      /\ \A t \in Terms : Names[t] = lowered(t)
      /\ Linear(Terms, TermOrder)
  BY WorldIs, DocumentWorld, Zenon DEF World
<1>2. /\ \A x, y \in Terms : x = y \/ <<x, y>> \in TermOrder \/ <<y, x>> \in TermOrder
      /\ Strict(TermOrder) /\ Strict(Lex(Pairs, TermOrder))
  BY <1>1, OrdersStrict, Zenon DEF Linear
<1>3. FirstsOf(Terms, Names, TermOrder) \cap Terms = Firsts
  <2>1. \A t : t \in Firsts <=> t \in Terms /\ \A u \in Terms : precedes(u, t) => lowered(u) # lowered(t)
    BY Zenon DEF Firsts
  <2>2. \A t : t \in FirstsOf(Terms, Names, TermOrder)
                 <=> t \in Terms /\ \A u \in Terms : <<u, t>> \in TermOrder => Names[u] # Names[t]
    BY Zenon DEF FirstsOf
  <2>3. \A t : t \in FirstsOf(Terms, Names, TermOrder) \cap Terms <=> t \in Firsts
    BY <1>1, <2>1, <2>2, Zenon
  <2> QED BY <2>3, Zenon
<1>4. PICK fs : InOrder(fs, Firsts, TermOrder) /\ NodesOf(nodes, Names, fs)
  BY <1>3, Zenon DEF Listed
<1>5. /\ nodes \in Seq(ToSet(nodes)) /\ h = Len(fs)
      /\ \A i \in 1 .. h : /\ nodes[i].id = i - 1 /\ nodes[i].text = Names[fs[i]]
                           /\ nodes[i].start = fs[i].start /\ nodes[i].end = fs[i].end
  BY <1>4, Zenon DEF NodesOf
<1>6. /\ Cardinality(Firsts) = h
      /\ \A i \in 1 .. h : Cardinality({y \in Firsts : <<y, fs[i]>> \in TermOrder}) = i - 1
      /\ \A t \in Firsts : \E i \in 1 .. h : fs[i] = t
      /\ fs \in Seq(Firsts)
  <2>1. /\ fs \in Seq(Firsts)
        /\ \A t \in Firsts : \E i \in 1 .. Len(fs) : fs[i] = t
    BY <1>4, Zenon DEF InOrder
  <2>2. /\ Cardinality(Firsts) = Len(fs)
        /\ \A i \in 1 .. Len(fs) : Cardinality({y \in Firsts : <<y, fs[i]>> \in TermOrder}) = i - 1
    BY <1>2, <1>4, ListRank
  <2>3. Len(fs) = h
    BY <1>5, Zenon
  <2> HIDE DEF h
  <2> QED BY <2>1, <2>2, <2>3
<1>7. /\ \A t \in Firsts : t \in Terms /\ \A u \in Terms : precedes(u, t) => lowered(u) # lowered(t)
      /\ \A i \in 1 .. h : fs[i] \in Firsts
      /\ h \in Nat /\ DOMAIN nodes = 1 .. h
  <2>1. \A t \in Firsts : t \in Terms /\ \A u \in Terms : precedes(u, t) => lowered(u) # lowered(t)
    BY Zenon DEF Firsts
  <2>2. \A i \in 1 .. h : fs[i] \in Firsts
    BY <1>5, <1>6
  <2> QED BY <1>5, <2>1, <2>2
<1> HIDE DEF h
<1>8. ASSUME NEW t \in Firsts
      PROVE  LET n == nodes[Cardinality({u \in Firsts : precedes(u, t)}) + 1]
             IN  n.text = lowered(t) /\ n.start = t.start /\ n.end = t.end
  <2>1. PICK i \in 1 .. h : fs[i] = t
    BY <1>6
  <2>2. \A u : u \in {y \in Firsts : <<y, fs[i]>> \in TermOrder} <=> u \in {y \in Firsts : precedes(y, t)}
    BY <1>1, <1>7, <2>1, Zenon
  <2>3. {y \in Firsts : <<y, fs[i]>> \in TermOrder} = {y \in Firsts : precedes(y, t)}
    BY <2>2, Zenon
  <2> DEFINE c == Cardinality({u \in Firsts : precedes(u, t)})
  <2>4. c = i - 1
    BY <1>6, <2>3, Zenon
  <2> HIDE DEF c
  <2>5. c + 1 = i
    BY <1>7, <2>4
  <2>6. nodes[i].text = lowered(t) /\ nodes[i].start = t.start /\ nodes[i].end = t.end
    BY <1>1, <1>5, <1>7, <2>1
  <2> QED BY <2>5, <2>6 DEF c
<1>9. \A i \in DOMAIN nodes : nodes[i].id = i - 1
  BY <1>5, <1>7 DEF h
<1>10. PICK pr : /\ InOrder(pr, Pairs, Lex(Pairs, TermOrder)) /\ g = Len(pr)
                 /\ \A i \in 1 .. g : EdgeOf(edges[i], nodes, Terms, Names, TermOrder, pr[i])
  BY Zenon DEF Recorded
<1>11. /\ Cardinality(Pairs) = g
       /\ \A i \in 1 .. g : Cardinality({q \in Pairs : <<q, pr[i]>> \in Lex(Pairs, TermOrder)}) = i - 1
       /\ \A p \in Pairs : \E i \in 1 .. g : pr[i] = p
       /\ g \in Nat
  BY <1>2, <1>10, ListRank DEF InOrder
<1> HIDE DEF g
<1>12. ASSUME NEW p \in Pairs
       PROVE  p[1] \in Terms /\ p[2] \in Terms
  BY DEF Pairs
<1>13. ASSUME NEW q \in Pairs, NEW p \in Pairs
       PROVE  <<q, p>> \in Lex(Pairs, TermOrder) <=> comesBefore(q, p)
  <2> DEFINE r == <<q, p>>
  <2>1. r[1] = q /\ r[2] = p /\ r \in Pairs \X Pairs
    OBVIOUS
  <2> HIDE DEF r
  <2>2. r \in Lex(Pairs, TermOrder) <=> \/ <<q[1], p[1]>> \in TermOrder
                                        \/ q[1] = p[1] /\ <<q[2], p[2]>> \in TermOrder
    BY <2>1, Zenon DEF Lex
  <2>3. p[1] \in Terms /\ p[2] \in Terms /\ q[1] \in Terms /\ q[2] \in Terms
    BY <1>12
  <2>4. r \in Lex(Pairs, TermOrder) <=> comesBefore(q, p)
    BY <1>1, <2>2, <2>3, Zenon DEF comesBefore
  <2> QED BY <2>4 DEF r
<1>14. ASSUME NEW p \in Pairs
       PROVE  LET e == edges[Cardinality({q \in Pairs : comesBefore(q, p)}) + 1]
                  M == {m \in Terms : precedes(p[1], m) /\ precedes(m, p[2])}
              IN  /\ nodes[e.subject + 1].text = lowered(p[1])
                  /\ nodes[e.object + 1].text = lowered(p[2])
                  /\ \A m \in Terms : M = {m} => e.predicate = lowered(m)
                  /\ (\A m \in Terms : M # {m}) => e.predicate = RelatedTo
                  /\ \A t \in Firsts : lowered(t) = lowered(p[1]) => e.start = t.start /\ e.end = t.end
  <2>1. PICK i \in 1 .. g : pr[i] = p
    BY <1>11
  <2>2. \A q : q \in {y \in Pairs : <<y, pr[i]>> \in Lex(Pairs, TermOrder)} <=> q \in {y \in Pairs : comesBefore(y, p)}
    BY <1>13, <2>1, Zenon
  <2>3. {y \in Pairs : <<y, pr[i]>> \in Lex(Pairs, TermOrder)} = {y \in Pairs : comesBefore(y, p)}
    BY <2>2, Zenon
  <2> DEFINE c == Cardinality({q \in Pairs : comesBefore(q, p)})
             e == edges[i]
             M == {m \in Terms : precedes(p[1], m) /\ precedes(m, p[2])}
  <2>4. c = i - 1
    BY <1>11, <2>3, Zenon
  <2> HIDE DEF c
  <2>5. c + 1 = i
    BY <1>11, <2>4
  <2>6. EdgeOf(e, nodes, Terms, Names, TermOrder, p)
    BY <1>10, <2>1
  <2>7. {x \in Terms : <<p[1], x>> \in TermOrder /\ <<x, p[2]>> \in TermOrder} = M
    <3>1. \A x : x \in {y \in Terms : <<p[1], y>> \in TermOrder /\ <<y, p[2]>> \in TermOrder} <=> x \in M
      BY <1>1, <1>12, Zenon
    <3> QED BY <3>1, Zenon
  <2>8. /\ e.subject + 1 \in 1 .. h /\ nodes[e.subject + 1].text = Names[p[1]]
        /\ nodes[e.object + 1].text = Names[p[2]]
        /\ e.start = nodes[e.subject + 1].start /\ e.end = nodes[e.subject + 1].end
        /\ \A m \in Terms : M = {m} => e.predicate = Names[m]
        /\ (\A m \in Terms : M # {m}) => e.predicate = RelatedTo
    BY <2>6, <2>7, Zenon DEF EdgeOf, h
  <2> HIDE DEF e, M
  <2>9. /\ nodes[e.subject + 1].text = lowered(p[1])
        /\ nodes[e.object + 1].text = lowered(p[2])
        /\ \A m \in Terms : M = {m} => e.predicate = lowered(m)
    BY <1>1, <1>12, <2>8
  <2>10. ASSUME NEW t \in Firsts, lowered(t) = lowered(p[1]) PROVE e.start = t.start /\ e.end = t.end
    <3> DEFINE k == e.subject + 1
               f == fs[k]
    <3>1. k \in 1 .. h /\ nodes[k].text = Names[p[1]] /\ e.start = nodes[k].start /\ e.end = nodes[k].end
      BY <2>8
    <3> HIDE DEF k
    <3>2. f \in Firsts /\ nodes[k].text = Names[f] /\ nodes[k].start = f.start /\ nodes[k].end = f.end
      BY <1>5, <1>7, <3>1 DEF h
    <3> HIDE DEF f
    <3>3. f \in Terms /\ t \in Terms /\ lowered(f) = lowered(t)
      BY <1>1, <1>7, <1>12, <2>10, <3>1, <3>2
    <3>4. ~precedes(f, t) /\ ~precedes(t, f)
      BY <1>7, <3>2, <3>3, Zenon
    <3>5. f = t
      BY <1>1, <1>2, <3>3, <3>4, Zenon
    <3> QED BY <3>1, <3>2, <3>5
  <2> QED BY <2>5, <2>8, <2>9, <2>10 DEF c, e, M
<1> QED BY <1>6, <1>8, <1>9, <1>11, <1>14, Zenon DEF GraphSpansDocument, h, g

----------------------------------------------------------------------------
(* The document's graph                                                    *)

\* What is folded groups the tokens read so far, and the graph is that of the
\* sentences extracted so far.
GraphInv ==
  /\ stage \in {"idle", "tokenize"} => newlines = 0
  /\ stage \in {"idle", "tokenize", "parse"} => nodes = <<>>
  /\ stage = "parse" =>
       /\ GroupedAs(tokens, TermPlaces, CutPlaces, BreakPlaces, folded, sentence, sentences, sections)
       /\ BlankRun(tokens, folded, newlines)
  /\ stage = "extract" =>
       /\ Sections(Terms, sections)
       /\ DocumentAs(tokens, TermPlaces, CutPlaces, BreakPlaces, sections)
       /\ nodes = <<>> => todo = allSentences(sections)
       /\ Rest(todo, Names, TermOrder, Pairs)
       /\ Listed(nodes, Terms, Names, TermOrder, Reached(Terms, todo, term))
       /\ Recorded(edges, nodes, Terms, Names, TermOrder, Pairs, {p \in Pairs : p[1] \in Done(Terms, todo, term)})
  /\ stage = "graph" =>
       /\ Listed(nodes, Terms, Names, TermOrder, Terms)
       /\ Recorded(edges, nodes, Terms, Names, TermOrder, Pairs, Pairs)

\* Nothing is drawn before the first subject.
LEMMA NothingDrawn ==
  ASSUME NEW e, e = <<>>, NEW Tm, NEW nm, NEW TO, NEW P, NEW W, W = {}, NEW D, D = {}
  PROVE  Listed(e, Tm, nm, TO, W) /\ Recorded(e, e, Tm, nm, TO, P, D)
<1>1. Len(e) = 0 /\ e \in Seq(ToSet(e)) /\ e \in Seq({}) /\ \A i : i \notin 1 .. Len(e)
  <2>1. \A X : <<>> \in Seq(X)
    OBVIOUS
  <2> QED BY <2>1
<1>2. \A R : InOrder(e, {}, R)
  BY <1>1, Zenon DEF InOrder
<1>3. FirstsOf(Tm, nm, TO) \cap W = {}
  OBVIOUS
<1>4. NodesOf(e, nm, e)
  BY <1>1, Zenon DEF NodesOf
<1>5. Listed(e, Tm, nm, TO, W)
  BY <1>2, <1>3, <1>4, Zenon DEF Listed
<1>6. Recorded(e, e, Tm, nm, TO, P, D)
  BY <1>1, <1>2, Zenon DEF Recorded
<1> QED BY <1>5, <1>6

\* tokenize: parsing starts with nothing folded.
LEMMA TokenizeGraphs ==
  ASSUME PipelineInv, GraphInv, TilesInv', tokenize
  PROVE  GraphInv'
<1>1. /\ stage = "tokenize" /\ UNCHANGED <<ast, graph>>
      /\ stage' \in {"tokenize", "parse", "no tokens", "unclassifiable"}
  BY DEF tokenize
<1>2. /\ folded' = 0 /\ sentence' = <<>> /\ sentences' = <<>> /\ sections' = <<>>
      /\ newlines' = 0 /\ nodes' = <<>>
  BY <1>1 DEF PipelineInv, GraphInv, ast, graph
<1>3. GroupedAs(tokens', TermPlaces', CutPlaces', BreakPlaces', folded', sentence', sentences', sections')
  <2>1. GroupedAs(tokens, TermPlaces, CutPlaces, BreakPlaces, 0, <<>>, <<>>, <<>>)'
    BY GroupedStarts, PTL
  <2> QED BY <1>2, <2>1
<1>4. BlankRun(tokens', folded', newlines')
  BY <1>2 DEF BlankRun
<1> QED BY <1>1, <1>2, <1>3, <1>4 DEF GraphInv

\* parse: a token more, or the document is complete and nothing is drawn yet.
LEMMA ParseGraphs ==
  ASSUME PipelineInv, TilesInv, GraphInv, parse
  PROVE  GraphInv'
<1>1. /\ stage = "parse" /\ UNCHANGED <<document, tokens, term, nodes, edges>>
      /\ nodes = <<>> /\ edges = <<>> /\ term = 0 /\ Parsing
      /\ GroupedAs(tokens, TermPlaces, CutPlaces, BreakPlaces, folded, sentence, sentences, sections)
      /\ BlankRun(tokens, folded, newlines)
  BY DEF parse, PipelineInv, GraphInv
<1>2. /\ Terms' = Terms /\ Names' = Names /\ TermOrder' = TermOrder /\ Pairs' = Pairs
      /\ TermPlaces' = TermPlaces /\ BreakPlaces' = BreakPlaces /\ CutPlaces' = CutPlaces
  BY <1>1, WorldKept, PlacesKept
<1>3. CASE /\ folded < Len(tokens) /\ parseToken(tokens[folded + 1]) /\ folded' = folded + 1
           /\ UNCHANGED stage
  <2>1. /\ GroupedAs(tokens, TermPlaces, CutPlaces, BreakPlaces, folded + 1, sentence', sentences', sections')
        /\ BlankRun(tokens, folded + 1, newlines')
    BY <1>1, <1>3, ParseTokenGroups
  <2>2. /\ GroupedAs(tokens', TermPlaces', CutPlaces', BreakPlaces', folded', sentence', sentences', sections')
        /\ BlankRun(tokens', folded', newlines')
    BY <1>1, <1>2, <1>3, <2>1
  <2> QED BY <1>1, <1>3, <2>2 DEF GraphInv
<1>4. CASE /\ folded = Len(tokens)
           /\ sections' = flushed(flushed(sentence, sentences), sections)
           /\ stage' = IF sections' = <<>> THEN "no sentences" ELSE "extract"
           /\ todo' = allSentences(sections')
  <2> DEFINE L == allSentences(sections')
  <2>1. /\ Sections(Terms, sections')
        /\ DocumentAs(tokens, TermPlaces, CutPlaces, BreakPlaces, sections')
    BY <1>1, <1>4, ParseDocuments
  <2>2. L \in Seq(Sentences(Terms))
    BY <2>1, AllSentencesType
  <2>3. /\ Parted(tokens, CutPlaces, L)
        /\ \A x : Member(L, x) <=> \E n \in TermPlaces : x = tokens[n]
    BY <2>1, Zenon DEF DocumentAs
  <2> HIDE DEF L
  <2>4. /\ Rest(L, Names, TermOrder, Pairs)
        /\ \A t \in Terms : \E l \in 1 .. Len(L) : \E j \in 1 .. Len(L[l]) : L[l][j] = t
    BY <2>2, <2>3, DocumentRest
  <2>5. Reached(Terms, L, 0) = {}
    <3>1. \A t : t \notin Reached(Terms, L, 0)
      BY <2>4, Zenon DEF Reached
    <3> QED BY <3>1, Zenon
  <2>6. Done(Terms, L, 0) = {}
    <3>1. \A l \in 1 .. Len(L) : \A j \in 1 .. Len(L[l]) : l > 1 \/ j > 0
      OBVIOUS
    <3>2. \A t : t \notin Done(Terms, L, 0)
      BY <2>4, <3>1, Zenon DEF Done
    <3> QED BY <3>2, Zenon
  <2>7. {p \in Pairs : p[1] \in Done(Terms, L, 0)} = {}
    BY <2>6, Zenon
  <2>8. /\ Listed(nodes, Terms, Names, TermOrder, Reached(Terms, L, 0))
        /\ Recorded(edges, nodes, Terms, Names, TermOrder, Pairs, {p \in Pairs : p[1] \in Done(Terms, L, 0)})
    <3>1. nodes = <<>> /\ edges = nodes
      BY <1>1
    <3> QED BY <2>5, <2>7, <3>1, NothingDrawn
  <2>9. /\ todo' = L /\ term' = 0 /\ nodes' = nodes /\ edges' = edges
        /\ stage' \in {"no sentences", "extract"}
    BY <1>1, <1>4 DEF L
  <2>10. /\ Sections(Terms', sections')
         /\ DocumentAs(tokens', TermPlaces', CutPlaces', BreakPlaces', sections')
         /\ todo' = allSentences(sections')
         /\ Rest(todo', Names', TermOrder', Pairs')
         /\ Listed(nodes', Terms', Names', TermOrder', Reached(Terms', todo', term'))
         /\ Recorded(edges', nodes', Terms', Names', TermOrder', Pairs',
                     {p \in Pairs' : p[1] \in Done(Terms', todo', term')})
    BY <1>1, <1>2, <1>4, <2>1, <2>4, <2>8, <2>9
  <2>11. allSentences(sections)' = allSentences(sections')
    BY Zenon DEF allSentences, terms
  <2> QED BY <2>9, <2>10, <2>11 DEF GraphInv
<1> QED BY <1>3, <1>4 DEF parse

\* from_ast: a subject more, or all pairs have their edges.
LEMMA FromAstGraphs ==
  ASSUME PipelineInv, TilesInv, GraphInv, from_ast
  PROVE  GraphInv'
<1> DEFINE D(td, k) == {p \in Pairs : p[1] \in Done(Terms, td, k)}
<1>1. /\ stage = "extract" /\ UNCHANGED <<document, tokens, ast>> /\ sections' = sections
      /\ todo \in Seq(Sentences(Terms)) /\ term \in Nat /\ (todo # <<>> => term < Len(Head(todo)))
      /\ Sections(Terms, sections)
      /\ DocumentAs(tokens, TermPlaces, CutPlaces, BreakPlaces, sections)
      /\ Rest(todo, Names, TermOrder, Pairs)
      /\ Listed(nodes, Terms, Names, TermOrder, Reached(Terms, todo, term))
      /\ Recorded(edges, nodes, Terms, Names, TermOrder, Pairs, D(todo, term))
  BY DEF from_ast, PipelineInv, Extracting, GraphInv, ast
<1>2. /\ Terms' = Terms /\ Names' = Names /\ TermOrder' = TermOrder /\ Pairs' = Pairs
      /\ TermPlaces' = TermPlaces /\ BreakPlaces' = BreakPlaces /\ CutPlaces' = CutPlaces
  BY <1>1, WorldKept, PlacesKept
<1>3. World(Terms, Names, TermOrder, Pairs)
  BY DocumentWorld
<1>4. CASE /\ todo # <<>>
           /\ nodes' = extend(Head(todo), term + 1).nodes
           /\ edges' = extend(Head(todo), term + 1).edges
           /\ IF term + 1 < Len(Head(todo))
              THEN term' = term + 1 /\ UNCHANGED todo
              ELSE term' = 0 /\ todo' = Tail(todo)
           /\ UNCHANGED stage
  <2> DEFINE Q == Sentences(Terms)
             ts == todo[1]
  <2>1. Head(todo) = ts /\ 1 <= Len(todo) /\ 1 \in 1 .. Len(todo) /\ Tail(todo) \in Seq(Q)
    <3> HIDE DEF Q
    <3>1. todo \in Seq(Q) /\ todo # <<>>
      BY <1>1, <1>4 DEF Q
    <3> QED BY <3>1
  <2>2. term \in Nat /\ term < Len(ts) /\ Len(ts) \in Nat
    <3>1. Len(ts) \in Nat
      BY <1>1, <2>1, ListOfSentences
    <3> QED BY <1>1, <1>4, <2>1, <3>1
  <2>3. /\ SoFar(extend(ts, term + 1), Terms, Names, TermOrder, Pairs, todo, term + 1)
        /\ extend(ts, term + 1).nodes # <<>>
    BY <1>1, <1>3, <2>1, <2>2, SubjectDrawn
  <2> HIDE DEF ts
  <2>4. /\ nodes' # <<>>
        /\ Listed(nodes', Terms, Names, TermOrder, Reached(Terms, todo, term + 1))
        /\ Recorded(edges', nodes', Terms, Names, TermOrder, Pairs, D(todo, term + 1))
    <3>1. nodes' = extend(ts, term + 1).nodes /\ edges' = extend(ts, term + 1).edges
      BY <1>4, <2>1
    <3> QED BY <2>3, <3>1, Zenon DEF SoFar, Drawn
  <2>5. /\ Rest(todo', Names, TermOrder, Pairs)
        /\ Listed(nodes', Terms, Names, TermOrder, Reached(Terms, todo', term'))
        /\ Recorded(edges', nodes', Terms, Names, TermOrder, Pairs, D(todo', term'))
    <3>1. CASE term + 1 < Len(ts)
      <4>1. term' = term + 1 /\ todo' = todo
        BY <1>4, <2>1, <3>1
      <4> HIDE DEF D
      <4> QED BY <1>1, <2>4, <4>1
    <3>2. CASE ~(term + 1 < Len(ts))
      <4>1. term' = 0 /\ todo' = Tail(todo)
        BY <1>4, <2>1, <3>2
      <4>2. term + 1 \in Nat /\ term + 1 = Len(ts)
        BY <2>2, <3>2
      <4>3. /\ Reached(Terms, Tail(todo), 0) = Reached(Terms, todo, term + 1)
            /\ Done(Terms, Tail(todo), 0) = Done(Terms, todo, term + 1)
        BY <1>1, <1>4, <4>2, TailReached DEF ts
      <4>4. D(Tail(todo), 0) = D(todo, term + 1)
        BY <4>3, Zenon
      <4>5. Rest(Tail(todo), Names, TermOrder, Pairs)
        BY <1>1, <1>3, <1>4, RestTail
      <4> HIDE DEF D
      <4> QED BY <2>4, <4>1, <4>3, <4>4, <4>5
    <3> QED BY <3>1, <3>2
  <2>6. /\ Sections(Terms', sections')
        /\ DocumentAs(tokens', TermPlaces', CutPlaces', BreakPlaces', sections')
        /\ Rest(todo', Names', TermOrder', Pairs')
        /\ Listed(nodes', Terms', Names', TermOrder', Reached(Terms', todo', term'))
        /\ Recorded(edges', nodes', Terms', Names', TermOrder', Pairs',
                    {p \in Pairs' : p[1] \in Done(Terms', todo', term')})
    BY <1>1, <1>2, <2>5
  <2>7. stage' = "extract"
    BY <1>1, <1>4
  <2> QED BY <2>4, <2>6, <2>7 DEF GraphInv
<1>5. CASE todo = <<>> /\ stage' = "graph" /\ UNCHANGED graph
  <2>1. nodes' = nodes /\ edges' = edges
    BY <1>5 DEF graph
  <2>2. \A l : l \notin 1 .. Len(todo)
    BY <1>5
  <2>3. Reached(Terms, todo, term) = Terms
    <3>1. \A t : t \in Reached(Terms, todo, term) <=> t \in Terms
      BY <2>2, Zenon DEF Reached
    <3> QED BY <3>1, Zenon
  <2>4. D(todo, term) = Pairs
    <3>1. \A t : t \in Done(Terms, todo, term) <=> t \in Terms
      BY <2>2, Zenon DEF Done
    <3>2. \A p \in Pairs : p[1] \in Terms
      BY DEF Pairs
    <3>3. \A p : p \in D(todo, term) <=> p \in Pairs
      BY <3>1, <3>2, Zenon
    <3> QED BY <3>3, Zenon
  <2> HIDE DEF D
  <2>5. /\ Listed(nodes', Terms', Names', TermOrder', Terms')
        /\ Recorded(edges', nodes', Terms', Names', TermOrder', Pairs', Pairs')
    BY <1>1, <1>2, <2>1, <2>3, <2>4
  <2> QED BY <1>5, <2>5 DEF GraphInv
<1> QED BY <1>4, <1>5 DEF from_ast

\* Nothing else touches the AST or the graph.
LEMMA GraphsKept ==
  ASSUME GraphInv, document' = document, tokens' = tokens, UNCHANGED <<ast, graph>>,
         stage' \in {"idle", "tokenize", "parse", "extract", "graph"} => stage' = stage
  PROVE  GraphInv'
<1>1. /\ folded' = folded /\ sentence' = sentence /\ sentences' = sentences /\ sections' = sections
      /\ newlines' = newlines /\ todo' = todo /\ term' = term /\ nodes' = nodes /\ edges' = edges
  BY DEF ast, graph
<1>2. /\ Terms' = Terms /\ Names' = Names /\ TermOrder' = TermOrder /\ Pairs' = Pairs
      /\ TermPlaces' = TermPlaces /\ BreakPlaces' = BreakPlaces /\ CutPlaces' = CutPlaces
  BY WorldKept, PlacesKept
<1>3. allSentences(sections)' = allSentences(sections)
  <2>1. allSentences(sections)' = allSentences(sections')
    BY Zenon DEF allSentences, terms
  <2> QED BY <1>1, <2>1
<1>4. CASE stage' = stage
  BY <1>1, <1>2, <1>3, <1>4 DEF GraphInv
<1>5. CASE stage' # stage
  BY <1>5 DEF GraphInv
<1> QED BY <1>4, <1>5

\* Every step keeps the grouping and the graph.
LEMMA GraphsKeep == PipelineInv /\ TilesInv /\ TilesInv' /\ GraphInv /\ [Next]_vars => GraphInv'
<1> SUFFICES ASSUME PipelineInv, TilesInv, TilesInv', GraphInv, [Next]_vars PROVE GraphInv'
  OBVIOUS
<1>1. ASSUME NEW text \in Documents, NEW question \in Prompts, parse_and_prove(text, question)
      PROVE  GraphInv'
  <2>1. stage = "idle" /\ stage' = "tokenize" /\ newlines' = newlines /\ nodes' = nodes
    BY <1>1 DEF parse_and_prove, lex, ast, graph
  <2> QED BY <2>1 DEF GraphInv
<1>2. CASE tokenize \/ parse \/ from_ast
  BY <1>2, TokenizeGraphs, ParseGraphs, FromAstGraphs
<1>3. CASE proveEvidence
  <2>1. UNCHANGED <<document, tokens, ast, graph>> /\ stage' \in {"no matches", "proved"}
    BY <1>3 DEF proveEvidence
  <2> QED BY <2>1, GraphsKept
<1>4. CASE UNCHANGED indexer
  BY <1>4, GraphsKept DEF indexer
<1>5. ASSUME NEW w, NEW x, proveOther(w, x) PROVE UNCHANGED indexer
  BY <1>5, Zenon DEF proveOther
<1>6. ASSUME NEW p, NEW public, verify_proof(p, public) \/ corrupted(public)
      PROVE  UNCHANGED indexer
  BY <1>6, Zenon DEF verify_proof, corrupted
<1>7. UNCHANGED vars => UNCHANGED indexer
  BY DEF vars
<1> QED BY <1>1, <1>2, <1>3, <1>4, <1>5, <1>6, <1>7, Zenon DEF Next, pipelineStep

\* A tiling, its grouping and its graph are what the stages promise.
LEMMA GraphsDocument == TilesInv /\ GraphInv => GraphIsDocuments
<1> SUFFICES ASSUME TilesInv, GraphInv PROVE GraphIsDocuments
  OBVIOUS
<1>1. TokensTileDocument
  BY TilesDocument
<1>2. AstGroupsAsDocumented
  <2>1. CASE stage = "extract" /\ nodes = <<>>
    <3>1. /\ Sections(Terms, sections) /\ todo = allSentences(sections)
          /\ DocumentAs(tokens, TermPlaces, CutPlaces, BreakPlaces, sections)
      BY <2>1 DEF GraphInv
    <3> QED BY <3>1, DocumentGroups
  <2>2. CASE ~(stage = "extract" /\ nodes = <<>>)
    BY <2>2, Zenon DEF AstGroupsAsDocumented
  <2> QED BY <2>1, <2>2
<1>3. GraphSpansDocument
  <2>1. CASE stage = "graph"
    BY <2>1, GraphMeans DEF GraphInv
  <2>2. CASE stage # "graph"
    BY <2>2, Zenon DEF GraphSpansDocument
  <2> QED BY <2>1, <2>2
<1> QED BY <1>1, <1>2, <1>3 DEF GraphIsDocuments

\* For every text over any byte classes, from tokenize over parse to from_ast
\* nothing is lost, invented or misplaced: the tokens tile the text, the AST
\* groups its terms by its separators, and the graph has one node per text and
\* one edge per ordered pair of different texts of a sentence, in source order.
THEOREM DocumentBecomesGraph == Spec => []GraphIsDocuments
<1>1. Init => PipelineInv /\ TilesInv /\ GraphInv
  <2> SUFFICES ASSUME Init PROVE TilesInv /\ GraphInv
    BY PipelineStarts
  <2>1. document = <<>> /\ tokens = <<>> /\ stage = "idle" /\ newlines = 0 /\ nodes = <<>>
    BY DEF Init, IndexerInit
  <2>2. IsSeq(<<>>)
    <3>1. <<>> \in Seq({})
      OBVIOUS
    <3> QED BY <3>1, Zenon DEF IsSeq
  <2> QED BY <2>1, <2>2 DEF TilesInv, GraphInv
<1>2. EngineInv /\ [Next]_vars => EngineInv'
  BY EngineKeeps
<1> QED BY <1>1, <1>2, PipelineStarts, ProofStarts, TilesKeep, GraphsKeep, GraphsDocument, PTL
        DEF Spec, EngineInv

----------------------------------------------------------------------------
(* Keys                                                                    *)

Strings == Seq(Chars)

\* p is a prefix of k, character by character.
Pre(p, k) == Len(p) <= Len(k) /\ \A i \in 1 .. Len(p) : k[i] = p[i]

\* Keys are sequences of naturals.
LEMMA StringType ==
  ASSUME NEW p \in Strings
  PROVE  Len(p) \in Nat /\ DOMAIN p = 1 .. Len(p) /\ \A i \in 1 .. Len(p) : p[i] \in Chars /\ p[i] \in Nat
<1>1. Len(p) \in Nat /\ DOMAIN p = 1 .. Len(p) /\ \A i \in 1 .. Len(p) : p[i] \in Chars
  BY DEF Strings
<1> QED BY <1>1, TrieAssumption

\* Keys with the same characters are the same.
LEMMA SameString ==
  ASSUME NEW p \in Strings, NEW q \in Strings, Len(p) = Len(q), \A i \in 1 .. Len(p) : p[i] = q[i]
  PROVE  p = q
  BY SeqEqual DEF Strings

\* The prefixes of the map.
LEMMA PrefixIsPre ==
  ASSUME NEW p \in Strings, NEW k \in Strings
  PROVE  Map!HasPrefix(p, k) <=> Pre(p, k)
<1>1. Len(p) \in Nat /\ Len(k) \in Nat
  BY StringType
<1>2. CASE Len(p) <= Len(k)
  <2> DEFINE s == SubSeq(k, 1, Len(p))
  <2>1. s \in Strings /\ Len(s) = Len(p) /\ \A i \in 1 .. Len(p) : s[i] = k[i]
    BY <1>1, <1>2 DEF Strings
  <2> HIDE DEF s
  <2>2. s = p <=> \A i \in 1 .. Len(p) : k[i] = p[i]
    <3>1. ASSUME \A i \in 1 .. Len(p) : k[i] = p[i] PROVE s = p
      BY <2>1, <3>1, SameString
    <3> QED BY <2>1, <3>1
  <2> QED BY <1>2, <2>2, Zenon DEF Map!HasPrefix, Pre, s
<1>3. CASE ~(Len(p) <= Len(k))
  BY <1>3, Zenon DEF Map!HasPrefix, Pre
<1> QED BY <1>2, <1>3

\* Lexicographic order.
Bef(k, l) ==
  \/ Pre(k, l) /\ k # l
  \/ \E i \in 1 .. Len(k) : /\ i <= Len(l) /\ k[i] < l[i]
                            /\ \A j \in 1 .. i - 1 : k[j] = l[j]

\* It is the order of the keys of the map.
LEMMA BeforeIsBef ==
  ASSUME NEW k \in Strings, NEW l \in Strings
  PROVE  Map!Before(k, l) <=> Bef(k, l)
  BY PrefixIsPre, Zenon DEF Map!Before, Bef

\* Of two keys one comes first.
LEMMA BefAsymmetric ==
  ASSUME NEW k \in Strings, NEW l \in Strings, Bef(k, l)
  PROVE  ~Bef(l, k) /\ k # l
<1>1. /\ Len(k) \in Nat /\ \A i \in 1 .. Len(k) : k[i] \in Nat
      /\ Len(l) \in Nat /\ \A i \in 1 .. Len(l) : l[i] \in Nat
  BY StringType
<1>2. CASE Pre(k, l) /\ k # l
  <2>1. ~Pre(l, k)
    <3> SUFFICES ASSUME Pre(l, k) PROVE FALSE
      OBVIOUS
    <3>1. Len(k) = Len(l) /\ \A i \in 1 .. Len(k) : k[i] = l[i]
      BY <1>1, <1>2 DEF Pre
    <3> QED BY <1>2, <3>1, SameString
  <2>2. ~\E i \in 1 .. Len(l) : i <= Len(k) /\ l[i] < k[i]
    BY <1>1, <1>2 DEF Pre
  <2> QED BY <1>2, <2>1, <2>2 DEF Bef
<1>3. CASE \E i \in 1 .. Len(k) : /\ i <= Len(l) /\ k[i] < l[i]
                                  /\ \A j \in 1 .. i - 1 : k[j] = l[j]
  <2>1. PICK i \in 1 .. Len(k) : /\ i <= Len(l) /\ k[i] < l[i]
                                 /\ \A j \in 1 .. i - 1 : k[j] = l[j]
    BY <1>3
  <2>2. i \in 1 .. Len(l) /\ k[i] # l[i]
    BY <1>1, <2>1
  <2>3. ~Pre(l, k) /\ k # l
    BY <2>1, <2>2 DEF Pre
  <2>4. ASSUME NEW j \in 1 .. Len(l), j <= Len(k), l[j] < k[j],
               \A h \in 1 .. j - 1 : l[h] = k[h]
        PROVE  FALSE
    <3>1. k[j] \in Nat /\ l[j] \in Nat /\ k[i] \in Nat /\ l[i] \in Nat
      BY <1>1, <2>1, <2>2, <2>4
    <3>2. ~(i < j)
      BY <1>1, <2>2, <2>4
    <3>3. ~(j < i)
      BY <1>1, <2>1, <2>4, <3>1
    <3>4. i = j
      BY <1>1, <3>2, <3>3
    <3> QED BY <2>1, <2>4, <3>1, <3>4
  <2> QED BY <2>3, <2>4 DEF Bef
<1> QED BY <1>2, <1>3 DEF Bef

\* A character more.
LEMMA AppendString ==
  ASSUME NEW p \in Strings, NEW c \in Chars
  PROVE  /\ Append(p, c) \in Strings /\ Len(Append(p, c)) = Len(p) + 1
         /\ Append(p, c)[Len(p) + 1] = c
         /\ \A i \in 1 .. Len(p) : Append(p, c)[i] = p[i]
  BY DEF Strings

\* A prefix of a prefix is one.
LEMMA PreTransitive ==
  ASSUME NEW p \in Strings, NEW q \in Strings, NEW k \in Strings, Pre(p, q), Pre(q, k)
  PROVE  Pre(p, k)
<1>1. Len(p) \in Nat /\ Len(q) \in Nat /\ Len(k) \in Nat
  BY StringType
<1> QED BY <1>1 DEF Pre

\* Every key is a prefix of itself.
LEMMA PreReflexive ==
  ASSUME NEW p \in Strings
  PROVE  Pre(p, p)
<1>1. Len(p) \in Nat
  BY StringType
<1> QED BY <1>1 DEF Pre

\* A child's prefix is the parent or a prefix of it, or the child.
LEMMA PreOfChild ==
  ASSUME NEW p \in Strings, NEW c \in Chars, NEW q \in Strings
  PROVE  /\ Pre(p, Append(p, c)) /\ ~Pre(Append(p, c), p) /\ p # Append(p, c)
         /\ Pre(q, Append(p, c)) => Pre(q, p) \/ q = Append(p, c)
         /\ \A d \in Chars : Pre(Append(p, c), Append(p, d)) => c = d
<1>1. Len(p) \in Nat /\ Len(q) \in Nat
  BY StringType
<1>2. \A x \in Chars : /\ Append(p, x) \in Strings /\ Len(Append(p, x)) = Len(p) + 1
                       /\ Append(p, x)[Len(p) + 1] = x
                       /\ \A i \in 1 .. Len(p) : Append(p, x)[i] = p[i]
  BY AppendString
<1> DEFINE a == Append(p, c)
<1>3. /\ a \in Strings /\ Len(a) = Len(p) + 1 /\ a[Len(p) + 1] = c
      /\ \A i \in 1 .. Len(p) : a[i] = p[i]
  BY <1>2
<1> HIDE DEF a
<1>4. Pre(p, a) /\ ~Pre(a, p) /\ p # a
  BY <1>1, <1>3 DEF Pre
<1>5. ASSUME Pre(q, a) PROVE Pre(q, p) \/ q = a
  <2>1. CASE Len(q) = Len(a)
    <3>1. \A i \in 1 .. Len(q) : q[i] = a[i]
      BY <1>5 DEF Pre
    <3> QED BY <1>3, <2>1, <3>1, SameString
  <2>2. CASE Len(q) # Len(a)
    BY <1>1, <1>3, <1>5, <2>2 DEF Pre
  <2> QED BY <2>1, <2>2
<1>6. ASSUME NEW d \in Chars, Pre(a, Append(p, d)) PROVE c = d
  <2>1. Append(p, d)[Len(p) + 1] = d
    BY <1>2
  <2>2. Len(p) + 1 \in 1 .. Len(a)
    BY <1>1, <1>3
  <2> QED BY <1>3, <1>6, <2>1, <2>2 DEF Pre
<1> QED BY <1>4, <1>5, <1>6 DEF a

\* What extends p properly extends a child of p.
LEMMA NextCharacter ==
  ASSUME NEW p \in Strings, NEW k \in Strings, Pre(p, k), p # k
  PROVE  \E c \in Chars : Pre(Append(p, c), k)
<1>1. Len(p) \in Nat /\ Len(k) \in Nat /\ Len(p) <= Len(k) /\ \A i \in 1 .. Len(p) : k[i] = p[i]
  BY StringType DEF Pre
<1>2. Len(p) # Len(k)
  BY <1>1, SameString
<1> DEFINE c == k[Len(p) + 1]
<1>3. Len(p) + 1 \in 1 .. Len(k) /\ c \in Chars
  BY <1>1, <1>2, StringType
<1> HIDE DEF c
<1>4. /\ Len(Append(p, c)) = Len(p) + 1
      /\ Append(p, c)[Len(p) + 1] = c
      /\ \A i \in 1 .. Len(p) : Append(p, c)[i] = p[i]
  BY <1>3, AppendString
<1>5. Pre(Append(p, c), k)
  BY <1>1, <1>3, <1>4 DEF Pre, c
<1> QED BY <1>3, <1>5

----------------------------------------------------------------------------
(* Ranks                                                                   *)

\* A[x] is what a total order on S puts before x.
Orders(S, A) ==
  /\ A \in [S -> SUBSET S]
  /\ \A x \in S : x \notin A[x]
  /\ \A x, y \in S : x # y => x \in A[y] \/ y \in A[x]
  /\ \A x, y \in S : y \in A[x] => A[y] \subseteq A[x]

\* Places in an order run from 0 to the last without a gap.
LEMMA Ranks ==
  ASSUME NEW S, IsFiniteSet(S), NEW A, Orders(S, A)
  PROVE  /\ Cardinality(S) \in Nat
         /\ \A i \in S : Cardinality(A[i]) \in 0 .. Cardinality(S) - 1
         /\ \A i, j \in S : i \in A[j] => Cardinality(A[i]) < Cardinality(A[j])
         /\ \A k \in 1 .. Cardinality(S) : \E i \in S : Cardinality(A[i]) = k - 1
<1> DEFINE n == Cardinality(S)
<1>1. n \in Nat
  BY FS_CardinalityType
<1>2. ASSUME NEW i \in S
      PROVE  IsFiniteSet(A[i]) /\ Cardinality(A[i]) \in Nat /\ Cardinality(A[i]) < n
  <2>1. A[i] \subseteq S \ {i} /\ A[i] \in SUBSET S
    BY DEF Orders
  <2>2. IsFiniteSet(S \ {i}) /\ Cardinality(S \ {i}) = n - 1
    BY FS_RemoveElement
  <2>3. IsFiniteSet(A[i]) /\ Cardinality(A[i]) <= n - 1
    BY <2>1, <2>2, FS_Subset
  <2>4. Cardinality(A[i]) \in Nat
    BY <2>3, FS_CardinalityType
  <2> QED BY <1>1, <2>3, <2>4
<1>3. ASSUME NEW i \in S, NEW j \in S, i \in A[j] PROVE Cardinality(A[i]) < Cardinality(A[j])
  <2>1. A[i] \subseteq A[j] /\ A[i] # A[j] /\ A[i] \in SUBSET A[j]
    BY <1>3 DEF Orders
  <2>2. Cardinality(A[i]) <= Cardinality(A[j]) /\ Cardinality(A[i]) # Cardinality(A[j])
    BY <1>2, <2>1, FS_Subset
  <2> QED BY <1>2, <2>2
<1> DEFINE f == [i \in S |-> Cardinality(A[i]) + 1]
<1>4. f \in Injection(S, 1 .. n)
  <2>1. f \in [S -> 1 .. n]
    BY <1>1, <1>2
  <2>2. ASSUME NEW i \in S, NEW j \in S, f[i] = f[j] PROVE i = j
    <3>1. Cardinality(A[i]) = Cardinality(A[j])
      BY <1>2, <2>2
    <3>2. i \notin A[j] /\ j \notin A[i]
      BY <1>2, <1>3, <3>1
    <3> QED BY <3>2 DEF Orders
  <2> HIDE DEF f
  <2> QED BY <2>1, <2>2, Fun_IsInj
<1>5. f \in Surjection(S, 1 .. n)
  <2>1. IsFiniteSet(1 .. n) /\ Cardinality(1 .. n) = n
    BY <1>1, FS_Interval
  <2> HIDE DEF f
  <2> QED BY <1>4, <2>1, FS_Injection
<1>6. ASSUME NEW k \in 1 .. n PROVE \E i \in S : Cardinality(A[i]) = k - 1
  <2>1. PICK i \in S : f[i] = k
    <3> HIDE DEF f
    <3> QED BY <1>5 DEF Surjection
  <2> QED BY <1>2, <2>1
<1> QED BY <1>1, <1>2, <1>3, <1>6

----------------------------------------------------------------------------
(* Children                                                                *)

\* What is in every state: a finite tree of keys.
Shape ==
  /\ Paths \subseteq Strings /\ IsFiniteSet(Paths) /\ Root \in Paths
  /\ tree \in [Paths -> Values \cup {NoValue}]

\* ch lists the children of p, rising.
Brood(p, ch) ==
  /\ ch \in Seq(Children(p))
  /\ \A c \in Children(p) : \E i \in 1 .. Len(ch) : ch[i] = c
  /\ \A i, j \in 1 .. Len(ch) : i < j => ch[i] < ch[j]

\* A tree is finite in breadth.
LEMMA FewChildren ==
  ASSUME Shape, NEW p \in Strings
  PROVE  IsFiniteSet(Children(p)) /\ Children(p) \subseteq Chars
<1> DEFINE C == Children(p)
           f == [c \in C |-> Append(p, c)]
<1>1. C \subseteq Chars /\ \A c \in C : Append(p, c) \in Paths
  BY DEF Children
<1> HIDE DEF C
<1>2. f \in [C -> Paths]
  BY <1>1
<1>3. ASSUME NEW c \in C, NEW d \in C, f[c] = f[d] PROVE c = d
  <2>1. Append(p, c) = Append(p, d)
    BY <1>3
  <2> QED BY <1>1, <2>1, AppendString
<1>4. f \in Injection(C, Paths)
  <2> HIDE DEF f
  <2> QED BY <1>2, <1>3, Fun_IsInj
<1>5. IsFiniteSet(C)
  BY <1>4, FS_Injection DEF Shape
<1> QED BY <1>1, <1>5 DEF C

\* Rising lists the children in order.
LEMMA RisingLists ==
  ASSUME Shape, NEW p \in Strings
  PROVE  \E ch : /\ Brood(p, ch)
                 /\ Len(ch) \in Nat
                 /\ Rising(p) = [i \in 1 .. Len(ch) |-> Append(p, ch[i])]
<1> DEFINE C == Children(p)
           A == [c \in C |-> {d \in C : d < c}]
           n == Cardinality(C)
           ch == [i \in 1 .. n |-> CHOOSE c \in C : Cardinality({d \in C : d < c}) = i - 1]
<1>1. IsFiniteSet(C) /\ C \subseteq Nat
  BY FewChildren, TrieAssumption
<1>2. Rising(p) = [i \in 1 .. n |-> Append(p, CHOOSE c \in C : Cardinality({d \in C : d < c}) = i - 1)]
  BY Zenon DEF Rising
<1> HIDE DEF C
<1>3. Orders(C, A)
  <2>1. A \in [C -> SUBSET C]
    OBVIOUS
  <2>2. \A x, y \in C : y \in A[x] <=> y < x
    OBVIOUS
  <2> HIDE DEF A
  <2>3. \A x \in C : x \notin A[x]
    BY <1>1, <2>2
  <2>4. \A x, y \in C : x # y => x \in A[y] \/ y \in A[x]
    BY <1>1, <2>2
  <2>5. ASSUME NEW x \in C, NEW y \in C, y \in A[x], NEW z \in A[y] PROVE z \in A[x]
    <3>1. z \in C
      BY <2>1
    <3>2. z < y /\ y < x /\ z \in Nat /\ y \in Nat /\ x \in Nat
      BY <1>1, <2>2, <2>5, <3>1
    <3>3. z < x
      BY <3>2
    <3> QED BY <2>2, <3>1, <3>3
  <2> QED BY <2>1, <2>3, <2>4, <2>5 DEF Orders
<1>4. /\ n \in Nat
      /\ \A c, d \in C : c \in A[d] => Cardinality(A[c]) < Cardinality(A[d])
      /\ \A c \in C : Cardinality(A[c]) \in 0 .. n - 1
      /\ \A k \in 1 .. n : \E c \in C : Cardinality(A[c]) = k - 1
  <2> HIDE DEF A
  <2> QED BY <1>1, <1>3, Ranks
<1>5. \A c \in C : A[c] = {d \in C : d < c}
  OBVIOUS
<1>6. ASSUME NEW i \in 1 .. n PROVE ch[i] \in C /\ Cardinality(A[ch[i]]) = i - 1
  <2>1. \E c \in C : Cardinality({d \in C : d < c}) = i - 1
    BY <1>4, <1>5, Zenon
  <2>2. ch[i] = CHOOSE c \in C : Cardinality({d \in C : d < c}) = i - 1
    BY Zenon
  <2> HIDE DEF ch
  <2>3. ch[i] \in C /\ Cardinality({d \in C : d < ch[i]}) = i - 1
    BY <2>1, <2>2, Zenon
  <2> QED BY <1>5, <2>3, Zenon
<1>7. Rising(p) = [i \in 1 .. n |-> Append(p, ch[i])]
  <2>1. \A i \in 1 .. n : ch[i] = CHOOSE c \in C : Cardinality({d \in C : d < c}) = i - 1
    BY Zenon
  <2> HIDE DEF ch
  <2> QED BY <1>2, <2>1, Zenon
<1>8. ch \in [1 .. n -> C]
  <2>1. \A i \in 1 .. n : ch[i] \in C /\ ch[i] = CHOOSE c \in C : Cardinality({d \in C : d < c}) = i - 1
    BY <1>6, Zenon
  <2>2. \A i \in 1 .. n : (CHOOSE c \in C : Cardinality({d \in C : d < c}) = i - 1) \in C
    <3> HIDE DEF ch
    <3> QED BY <2>1, Zenon
  <2> QED BY <2>2, Zenon
<1>9. \A c, d \in C : c \in A[d] <=> c < d
  OBVIOUS
<1> HIDE DEF n, ch, A
<1>10. ch \in Seq(C) /\ Len(ch) = n
  BY <1>4, <1>8
<1>11. ASSUME NEW c \in C PROVE \E i \in 1 .. n : ch[i] = c
  <2> DEFINE i == Cardinality(A[c]) + 1
  <2>1. i \in 1 .. n /\ Cardinality(A[c]) \in Nat
    BY <1>4
  <2>2. ch[i] \in C /\ Cardinality(A[ch[i]]) = Cardinality(A[c])
    BY <1>6, <2>1
  <2>3. ch[i] \notin A[c] /\ c \notin A[ch[i]]
    BY <1>4, <2>1, <2>2
  <2>4. ~(ch[i] < c) /\ ~(c < ch[i]) /\ ch[i] \in Nat /\ c \in Nat
    BY <1>1, <1>9, <2>2, <2>3
  <2> HIDE DEF i
  <2>5. ch[i] = c
    BY <2>4
  <2> QED BY <2>1, <2>5
<1>12. ASSUME NEW i \in 1 .. n, NEW j \in 1 .. n, i < j PROVE ch[i] < ch[j]
  <2>1. ch[i] \in C /\ ch[j] \in C /\ Cardinality(A[ch[i]]) < Cardinality(A[ch[j]])
    BY <1>4, <1>6, <1>12
  <2>2. ch[j] \notin A[ch[i]] /\ ch[i] # ch[j]
    BY <1>4, <2>1
  <2>3. ~(ch[j] < ch[i]) /\ ch[i] \in Nat /\ ch[j] \in Nat
    BY <1>1, <1>9, <2>1, <2>2
  <2> QED BY <2>2, <2>3
<1>13. Brood(p, ch)
  BY <1>10, <1>11, <1>12, Zenon DEF Brood, C
<1> QED BY <1>4, <1>7, <1>10, <1>13

----------------------------------------------------------------------------
(* Writing                                                                 *)

\* What is in every state but a drop's: with a path its prefixes, no branch
\* without a key, and the count of the keys.
Grown ==
  /\ \A k \in Paths : \A q \in Strings : Pre(q, k) => q \in Paths
  /\ StoredKeys \subseteq Keys
  /\ \A p \in Paths : p = Root \/ \E k \in StoredKeys : Pre(p, k)
  /\ count = Cardinality(StoredKeys)

\* The path of a key.
LEMMA PathOfKey ==
  ASSUME NEW key \in Strings
  PROVE  LET N == {SubSeq(key, 1, i) : i \in 0 .. Len(key)}
         IN  /\ N \subseteq Strings /\ IsFiniteSet(N) /\ key \in N
             /\ \A q \in Strings : q \in N <=> Pre(q, key)
<1> DEFINE N == {SubSeq(key, 1, i) : i \in 0 .. Len(key)}
           f == [i \in 0 .. Len(key) |-> SubSeq(key, 1, i)]
<1>1. Len(key) \in Nat
  BY StringType
<1>2. ASSUME NEW i \in 0 .. Len(key)
      PROVE  LET s == SubSeq(key, 1, i)
             IN  s \in Strings /\ Len(s) = i /\ \A j \in 1 .. i : s[j] = key[j]
  BY <1>1 DEF Strings
<1>3. N \subseteq Strings
  BY <1>2
<1>4. \A x : x \in N <=> \E i \in 0 .. Len(key) : x = SubSeq(key, 1, i)
  OBVIOUS
<1>5. IsFiniteSet(N)
  <2>1. f \in [0 .. Len(key) -> N]
    OBVIOUS
  <2>2. \A x \in N : \E i \in 0 .. Len(key) : f[i] = x
    OBVIOUS
  <2>3. f \in Surjection(0 .. Len(key), N)
    <3> HIDE DEF f, N
    <3> QED BY <2>1, <2>2, Fun_IsSurj
  <2>4. IsFiniteSet(0 .. Len(key))
    BY <1>1, FS_Interval
  <2> HIDE DEF f, N
  <2> QED BY <2>3, <2>4, FS_Surjection
<1>6. ASSUME NEW q \in Strings PROVE q \in N <=> Pre(q, key)
  <2>1. Len(q) \in Nat
    BY StringType
  <2>2. ASSUME q \in N PROVE Pre(q, key)
    <3>1. PICK i \in 0 .. Len(key) : q = SubSeq(key, 1, i)
      BY <2>2
    <3>2. Len(q) = i /\ \A j \in 1 .. i : q[j] = key[j]
      BY <1>2, <3>1, Zenon
    <3> QED BY <1>1, <3>2 DEF Pre
  <2>3. ASSUME Pre(q, key) PROVE q \in N
    <3> DEFINE s == SubSeq(key, 1, Len(q))
    <3>1. Len(q) \in 0 .. Len(key) /\ \A i \in 1 .. Len(q) : key[i] = q[i]
      BY <1>1, <2>1, <2>3 DEF Pre
    <3>2. s \in Strings /\ Len(s) = Len(q) /\ \A j \in 1 .. Len(q) : s[j] = key[j]
      BY <1>2, <3>1, Zenon
    <3> HIDE DEF s
    <3>3. q = s
      BY <3>1, <3>2, SameString
    <3> QED BY <1>4, <3>1, <3>3, Zenon DEF s
  <2> QED BY <2>2, <2>3
<1>7. key \in N
  BY <1>6, PreReflexive
<1> QED BY <1>3, <1>5, <1>6, <1>7, Zenon

\* An insert keeps the tree in shape, stores its key and counts it once.
LEMMA InsertStores ==
  ASSUME Shape, Grown, NEW key \in Keys, NEW value \in Values,
         tree' = [p \in Paths \cup {SubSeq(key, 1, i) : i \in 0 .. Len(key)} |->
                    IF p = key THEN value ELSE lookup(p)],
         count' = IF lookup(key) = NoValue THEN count + 1 ELSE count
  PROVE  /\ Shape' /\ Grown'
         /\ StoredKeys' = StoredKeys \cup {key} /\ IsFiniteSet(StoredKeys)
         /\ tree'[key] = value /\ \A l \in StoredKeys : l # key => tree'[l] = tree[l]
<1> DEFINE N == {SubSeq(key, 1, i) : i \in 0 .. Len(key)}
<1>1. key \in Strings /\ value # NoValue
  BY TrieAssumption DEF Strings
<1>2. /\ N \subseteq Strings /\ IsFiniteSet(N) /\ key \in N
      /\ \A q \in Strings : q \in N <=> Pre(q, key)
  BY <1>1, PathOfKey, Zenon
<1>3. tree' = [p \in Paths \cup N |-> IF p = key THEN value ELSE lookup(p)]
  BY Zenon
<1> HIDE DEF N
<1>4. /\ Paths \subseteq Strings /\ IsFiniteSet(Paths) /\ Root \in Paths
      /\ tree \in [Paths -> Values \cup {NoValue}]
  BY DEF Shape
<1>5. Paths' = Paths \cup N /\ tree'[key] = value
      /\ \A p \in Paths \cup N : p # key => tree'[p] = lookup(p)
  BY <1>2, <1>3 DEF Paths
<1>6. \A p : lookup(p) \in Values \cup {NoValue}
  BY <1>4 DEF lookup
<1>7. IsFiniteSet(Paths')
  BY <1>2, <1>4, <1>5, FS_Union
<1>8. Shape'
  <2>1. tree' \in [Paths \cup N -> Values \cup {NoValue}]
    BY <1>3, <1>6
  <2>2. Paths' \subseteq Strings /\ Root \in Paths'
    BY <1>2, <1>4, <1>5
  <2> QED BY <1>5, <1>7, <2>1, <2>2 DEF Shape, Strings, Root
<1>9. \A p \in Paths : lookup(p) = tree[p]
  BY DEF lookup
<1>10. StoredKeys' = StoredKeys \cup {key}
  <2>1. \A p : p \in StoredKeys' <=> p \in Paths' /\ tree'[p] # NoValue
    BY DEF StoredKeys
  <2>2. \A p : p \in StoredKeys <=> p \in Paths /\ tree[p] # NoValue
    BY DEF StoredKeys
  <2>3. \A p \in Paths \cup N : p # key => (tree'[p] # NoValue <=> p \in StoredKeys)
    <3>1. \A p : p \notin Paths => lookup(p) = NoValue
      BY DEF lookup
    <3> QED BY <1>5, <1>9, <2>2, <3>1
  <2>4. \A p : p \in StoredKeys' <=> p \in StoredKeys \cup {key}
    BY <1>1, <1>2, <1>5, <2>1, <2>2, <2>3
  <2> QED BY <2>4
<1>11. IsFiniteSet(StoredKeys)
  <2>1. StoredKeys \in SUBSET Paths
    BY DEF StoredKeys
  <2> QED BY <1>4, <2>1, FS_Subset
<1>12. count' = Cardinality(StoredKeys')
  <2>1. key \in StoredKeys <=> lookup(key) # NoValue
    BY <1>9 DEF StoredKeys, lookup
  <2>2. Cardinality(StoredKeys \cup {key})
          = IF key \in StoredKeys THEN Cardinality(StoredKeys) ELSE Cardinality(StoredKeys) + 1
    BY <1>11, FS_AddElement
  <2> QED BY <1>10, <2>1, <2>2 DEF Grown
<1>13. ASSUME NEW k \in Paths', NEW q \in Strings, Pre(q, k) PROVE q \in Paths'
  <2>1. CASE k \in Paths
    BY <1>5, <1>13, <2>1 DEF Grown
  <2>2. CASE k \in N
    <3>1. k \in Strings /\ Pre(k, key)
      BY <1>2, <2>2
    <3>2. Pre(q, key)
      BY <1>1, <1>13, <3>1, PreTransitive
    <3> QED BY <1>2, <1>5, <3>2
  <2> QED BY <1>5, <2>1, <2>2
<1>14. ASSUME NEW p \in Paths' PROVE p = Root \/ \E k \in StoredKeys' : Pre(p, k)
  <2>1. CASE p \in Paths
    BY <1>10, <2>1 DEF Grown
  <2>2. CASE p \in N
    BY <1>2, <1>10, <2>2
  <2> QED BY <1>5, <2>1, <2>2
<1>15. StoredKeys' \subseteq Keys
  BY <1>10 DEF Grown
<1>16. Grown'
  <2>1. \A p \in Paths' : p = Root' \/ \E k \in StoredKeys' : Pre(p, k)
    BY <1>14 DEF Root
  <2> QED BY <1>12, <1>13, <1>15, <2>1 DEF Grown, Strings, Pre, Root
<1>17. \A l \in StoredKeys : l # key => tree'[l] = tree[l]
  BY <1>5, <1>9 DEF StoredKeys
<1> QED BY <1>5, <1>8, <1>10, <1>11, <1>16, <1>17

----------------------------------------------------------------------------
(* The map                                                                 *)

\* The module of the map counts as this one does.
LEMMA SameCardinality == \A S : Map!Cardinality(S) = Cardinality(S)
  BY Zenon DEF Map!Cardinality, Map!IsFiniteSet, Cardinality, IsFiniteSet

\* Between drops the map has the stored keys.
LEMMA DictOfTree ==
  ASSUME pc # "drop"
  PROVE  /\ Dict = [k \in StoredKeys |-> tree[k]] /\ DOMAIN Dict = StoredKeys
         /\ Said = Spoken(reply)
  BY DEF Dict, Said

\* A reply other than a clone is the map's.
LEMMA PlainReply ==
  ASSUME NEW r, r[1] # "cloned"
  PROVE  Spoken(r) = r
  BY DEF Spoken

\* A lookup is the map's.
LEMMA LookupIsAt ==
  ASSUME pc # "drop", Shape, NEW key
  PROVE  Map!At(key) = lookup(key)
<1>1. Dict = [k \in StoredKeys |-> tree[k]] /\ DOMAIN Dict = StoredKeys
  BY DictOfTree
<1>2. key \in StoredKeys => Dict[key] = tree[key]
  BY <1>1
<1>3. \A p : p \in StoredKeys <=> p \in Paths /\ tree[p] # NoValue
  BY DEF StoredKeys
<1> QED BY <1>1, <1>2, <1>3 DEF Map!At, Map!Stored, lookup

\* An insert is the map's.
LEMMA InsertMaps ==
  ASSUME Shape, Grown, NEW key \in Keys, NEW value \in Values, insert(key, value)
  PROVE  Shape' /\ Grown' /\ Map!Insert(key, value)
<1>1. pc = "ready" /\ pc' = "ready"
  BY DEF insert, return
<1>2. Dict = [k \in StoredKeys |-> tree[k]] /\ DOMAIN Dict = StoredKeys
  BY <1>1, DictOfTree
<1>3. /\ Dict' = [k \in StoredKeys' |-> tree'[k]] /\ Said' = Spoken(reply')
  BY <1>1 DEF Dict, Said, Spoken
<1>4. CASE Bytes(key) > MaxKeyLen /\ UNCHANGED <<tree, count>> /\ return(<<"KeyTooLong", key>>)
  <2>1. Shape' /\ Grown' /\ StoredKeys' = StoredKeys
    BY <1>4 DEF Shape, Grown, Paths, StoredKeys, Strings, Pre, Root
  <2>2. Dict' = Dict
    BY <1>2, <1>3, <1>4, <2>1
  <2>3. reply' = <<"KeyTooLong", key>>
    BY <1>4 DEF return
  <2>4. Said' = <<"KeyTooLong", key>>
    BY <1>3, <2>3, PlainReply
  <2>5. key \in {k \in Keys : Bytes(k) > MaxKeyLen}
    BY <1>4
  <2> QED BY <2>1, <2>2, <2>4, <2>5, Zenon DEF Map!Insert
<1>5. CASE /\ ~(Bytes(key) > MaxKeyLen)
           /\ tree' = [p \in Paths \cup {SubSeq(key, 1, i) : i \in 0 .. Len(key)} |->
                       IF p = key THEN value ELSE lookup(p)]
           /\ count' = IF lookup(key) = NoValue THEN count + 1 ELSE count
           /\ return(<<"inserted", key, lookup(key), count'>>)
  <2>1. /\ Shape' /\ Grown' /\ StoredKeys' = StoredKeys \cup {key}
        /\ tree'[key] = value /\ \A l \in StoredKeys : l # key => tree'[l] = tree[l]
    BY <1>5, InsertStores
  <2>2. Dict' = [l \in StoredKeys \cup {key} |-> IF l = key THEN value ELSE Dict[l]]
    <3>1. \A l \in StoredKeys \cup {key} : tree'[l] = IF l = key THEN value ELSE Dict[l]
      BY <1>2, <2>1
    <3> QED BY <1>3, <2>1, <3>1, Zenon
  <2>3. reply' = <<"inserted", key, lookup(key), count'>>
    BY <1>5 DEF return
  <2>4. Said' = <<"inserted", key, lookup(key), count'>>
    <3>1. reply'[1] = "inserted"
      BY <2>3
    <3> QED BY <1>3, <2>3, <3>1, PlainReply
  <2>5. lookup(key) = Map!At(key) /\ count' = Cardinality(StoredKeys \cup {key})
    BY <1>1, <2>1, LookupIsAt DEF Grown
  <2>6. key \notin {k \in Keys : Bytes(k) > MaxKeyLen}
    BY <1>5
  <2>7. count' = Map!Cardinality(Map!Stored \cup {key})
    BY <1>2, <2>5, SameCardinality, Zenon DEF Map!Stored
  <2> QED BY <1>2, <2>1, <2>2, <2>4, <2>5, <2>6, <2>7, Zenon DEF Map!Insert, Map!Stored
<1> QED BY <1>4, <1>5 DEF insert

\* Only what it is made of moves the map.
LEMMA DictKept ==
  ASSUME tree' = tree, pc # "drop", pc' # "drop"
  PROVE  Dict' = Dict
  BY DEF Dict, StoredKeys, Paths

\* A lookup is the map's.
LEMMA FindMaps ==
  ASSUME Shape, NEW key \in Keys, find(key)
  PROVE  Map!Lookup(key)
<1>1. pc = "ready" /\ pc' = "ready" /\ tree' = tree /\ reply' = <<"found", key, lookup(key)>>
  BY DEF find, return
<1>2. Dict' = Dict /\ lookup(key) = Map!At(key)
  BY <1>1, DictKept, LookupIsAt
<1>3. Said' = Spoken(reply') /\ reply'[1] = "found"
  BY <1>1 DEF Said, Spoken
<1>4. Said' = <<"found", key, lookup(key)>>
  BY <1>1, <1>3, PlainReply
<1> QED BY <1>2, <1>4, Zenon DEF Map!Lookup

\* The deepest path is a stored key's, so the reader refuses what is too deep.
LEMMA ReloadMaps ==
  ASSUME Shape, Grown, reload
  PROVE  Map!Reload
<1> DEFINE Flat == \A p \in Paths : Nesting(Len(p)) < JsonLevels
           Deep == {k \in Keys : Nesting(Len(k)) >= JsonLevels}
<1>1. /\ pc = "ready" /\ pc' = "ready" /\ tree' = tree
      /\ reply' = IF Flat THEN <<"reloaded">> ELSE <<"recursion limit">>
  BY DEF reload, return
<1>2. Flat <=> StoredKeys \cap Deep = {}
  <2>1. \A p \in Paths : p \in Strings /\ Len(p) \in Nat
    BY StringType DEF Shape
  <2>2. StoredKeys \subseteq Paths /\ StoredKeys \subseteq Keys
    BY DEF StoredKeys, Grown
  <2>3. \A n \in Nat : Nesting(n) \in Nat /\ \A m \in 0 .. n : Nesting(m) <= Nesting(n)
    BY DEF Nesting
  <2>4. JsonLevels \in Nat /\ Nesting(0) < JsonLevels /\ Len(Root) = 0
    BY TrieAssumption DEF Nesting, Root
  <2>5. ASSUME Flat, NEW k \in StoredKeys, k \in Deep PROVE FALSE
    BY <2>1, <2>2, <2>3, <2>4, <2>5
  <2>6. ASSUME StoredKeys \cap Deep = {}, NEW p \in Paths PROVE Nesting(Len(p)) < JsonLevels
    <3>1. CASE p = Root
      BY <2>4, <3>1
    <3>2. CASE p # Root
      <4>1. PICK k \in StoredKeys : Pre(p, k)
        BY <3>2 DEF Grown
      <4>2. k \notin Deep /\ k \in Keys /\ Len(k) \in Nat /\ Len(p) \in 0 .. Len(k)
        BY <2>1, <2>2, <2>6, <4>1 DEF Pre
      <4>3. Nesting(Len(k)) < JsonLevels
        BY <2>3, <2>4, <4>2
      <4>4. Nesting(Len(p)) <= Nesting(Len(k)) /\ Nesting(Len(p)) \in Nat /\ Nesting(Len(k)) \in Nat
        BY <2>3, <4>2
      <4> QED BY <2>4, <4>3, <4>4
    <3> QED BY <3>1, <3>2
  <2> QED BY <2>5, <2>6
<1> HIDE DEF Flat
<1>3. Dict' = Dict /\ DOMAIN Dict = StoredKeys
  BY <1>1, DictKept, DictOfTree
<1>4. Said' = reply'
  <2>1. reply'[1] # "cloned"
    BY <1>1
  <2> QED BY <1>1, <2>1 DEF Said, Spoken
<1> QED BY <1>1, <1>2, <1>3, <1>4, Zenon DEF Map!Reload, Map!Stored

----------------------------------------------------------------------------
(* The work stack                                                          *)

Entries == Strings \X BOOLEAN

\* A function on 1 .. n is a sequence of that length.
LEMMA SeqOfFunction ==
  ASSUME NEW E, NEW n \in Nat, NEW f \in [1 .. n -> E]
  PROVE  f \in Seq(E) /\ Len(f) = n
  OBVIOUS

\* s2 is st with its top popped and u pushed.
Popped(E, st, u, s2) ==
  /\ s2 \in Seq(E) /\ Len(s2) = Len(st) - 1 + Len(u)
  /\ Len(st) \in Nat /\ Len(st) > 0 /\ Len(u) \in Nat
  /\ \A i \in 1 .. Len(st) - 1 : s2[i] = st[i]
  /\ \A j \in 1 .. Len(u) : s2[Len(st) - 1 + j] = u[j]
  /\ \A i \in 1 .. Len(s2) : \/ i \in 1 .. Len(st) - 1
                             \/ \E j \in 1 .. Len(u) : i = Len(st) - 1 + j /\ s2[i] = u[j]

\* A pop and a push.
LEMMA PopPush ==
  ASSUME NEW E, NEW st \in Seq(E), st # <<>>, NEW u \in Seq(E)
  PROVE  Popped(E, st, u, SubSeq(st, 1, Len(st) - 1) \o u)
<1> DEFINE n == Len(st) - 1
           p == SubSeq(st, 1, n)
           s2 == p \o u
<1>1. n \in Nat /\ Len(st) = n + 1 /\ Len(u) \in Nat
  BY EmptySeq
<1>2. p \in Seq(E) /\ Len(p) = n /\ \A i \in 1 .. n : p[i] = st[i]
  BY <1>1
<1>3. s2 = p \o u
  OBVIOUS
<1> HIDE DEF n, p, s2
<1>4. /\ s2 \in Seq(E) /\ Len(s2) = n + Len(u)
      /\ \A i \in 1 .. n : s2[i] = p[i]
  <2>1. p \o u \in Seq(E) /\ Len(p \o u) = Len(p) + Len(u)
    BY <1>2
  <2>2. \A i \in 1 .. Len(p) : (p \o u)[i] = p[i]
    BY <1>1, <1>2
  <2> QED BY <1>2, <1>3, <2>1, <2>2
<1>5. \A j \in 1 .. Len(u) : s2[n + j] = u[j]
  BY <1>1, <1>2, <1>3
<1>6. ASSUME NEW i \in 1 .. Len(s2), i \notin 1 .. n
      PROVE  \E j \in 1 .. Len(u) : i = n + j /\ s2[i] = u[j]
  <2> DEFINE j == i - n
  <2>1. j \in 1 .. Len(u) /\ i = n + j
    BY <1>1, <1>4, <1>6
  <2> HIDE DEF j
  <2> QED BY <1>5, <2>1
<1>7. Len(st) \in Nat /\ Len(st) > 0 /\ \A i \in 1 .. n : s2[i] = st[i]
  BY <1>1, <1>2, <1>4
<1>8. /\ s2 \in Seq(E) /\ Len(s2) = n + Len(u)
      /\ Len(st) \in Nat /\ Len(st) > 0 /\ Len(u) \in Nat
      /\ \A i \in 1 .. n : s2[i] = st[i]
      /\ \A j \in 1 .. Len(u) : s2[n + j] = u[j]
      /\ \A i \in 1 .. Len(s2) : \/ i \in 1 .. n
                                 \/ \E j \in 1 .. Len(u) : i = n + j /\ s2[i] = u[j]
  BY <1>1, <1>4, <1>5, <1>6, <1>7, Zenon
<1>9. Popped(E, st, u, s2)
  BY <1>8 DEF Popped, n
<1> QED BY <1>9 DEF n, p, s2

\* u holds the children of p, unvisited.
Kids(p, u) ==
  /\ u \in Seq(Entries)
  /\ \A i \in 1 .. Len(u) : \E c \in Children(p) : u[i] = <<Append(p, c), FALSE>>
  /\ \A c \in Children(p) : \E i \in 1 .. Len(u) : u[i] = <<Append(p, c), FALSE>>

\* The later an entry, the earlier its child: the first child is on top.
Falls(p, u) ==
  \A i, j \in 1 .. Len(u) : i < j =>
    \E c, d \in Children(p) : /\ u[i] = <<Append(p, c), FALSE>>
                              /\ u[j] = <<Append(p, d), FALSE>> /\ d < c

\* Both ways of pushing the children push them all, once.
LEMMA KidsPushed ==
  ASSUME Shape, NEW p \in Strings
  PROVE  /\ Kids(p, Unvisited(Rising(p)))
         /\ Kids(p, Unvisited(Falling(p))) /\ Falls(p, Unvisited(Falling(p)))
<1>1. PICK ch : /\ Brood(p, ch)
                /\ Len(ch) \in Nat
                /\ Rising(p) = [i \in 1 .. Len(ch) |-> Append(p, ch[i])]
  BY RisingLists
<1> DEFINE n == Len(ch)
           r == Rising(p)
           f == Falling(p)
           a(c) == <<Append(p, c), FALSE>>
<1>2. /\ \A i \in 1 .. n : ch[i] \in Children(p)
      /\ \A c \in Children(p) : \E i \in 1 .. n : ch[i] = c
      /\ \A i, j \in 1 .. n : i < j => ch[i] < ch[j]
  BY <1>1 DEF Brood
<1>3. \A c \in Children(p) : a(c) \in Entries
  <2>1. Children(p) \subseteq Chars
    BY FewChildren
  <2> QED BY <2>1, AppendString DEF Entries
<1>4. \A i \in 1 .. n : r[i] = Append(p, ch[i])
  BY <1>1, Zenon
<1>5. DOMAIN r = 1 .. n /\ Len(r) = n
  BY <1>1
<1>6. f = [i \in 1 .. n |-> r[n + 1 - i]]
  BY <1>5, Zenon DEF Falling
<1> HIDE DEF r, f
<1>7. DOMAIN f = 1 .. n /\ \A i \in 1 .. n : f[i] = Append(p, ch[n + 1 - i])
  <2>1. \A i \in 1 .. n : n + 1 - i \in 1 .. n
    BY <1>1
  <2> QED BY <1>4, <1>6, <2>1, Zenon
<1> DEFINE u == Unvisited(r)
           w == Unvisited(f)
<1>8. u = [i \in 1 .. n |-> <<r[i], FALSE>>] /\ w = [i \in 1 .. n |-> <<f[i], FALSE>>]
  BY <1>5, <1>7, Zenon DEF Unvisited
<1>9. \A i \in 1 .. n : u[i] = a(ch[i]) /\ w[i] = a(ch[n + 1 - i])
  BY <1>4, <1>7, <1>8, Zenon
<1>10. \A i \in 1 .. n : n + 1 - i \in 1 .. n /\ n + 1 - (n + 1 - i) = i
  BY <1>1
<1>11. u \in Seq(Entries) /\ Len(u) = n /\ w \in Seq(Entries) /\ Len(w) = n
  <2>1. \A i \in 1 .. n : <<r[i], FALSE>> \in Entries /\ <<f[i], FALSE>> \in Entries
    BY <1>2, <1>3, <1>4, <1>7, <1>10, Zenon
  <2>2. u \in [1 .. n -> Entries] /\ w \in [1 .. n -> Entries]
    BY <1>8, <2>1, Zenon
  <2> HIDE DEF u, w
  <2> QED BY <1>1, <2>2, SeqOfFunction, Zenon
<1> HIDE DEF u, w, n
<1>12. Kids(p, u)
  BY <1>2, <1>9, <1>11, Zenon DEF Kids
<1>13. Kids(p, w)
  <2>1. \A c \in Children(p) : \E i \in 1 .. n : ch[n + 1 - i] = c
    BY <1>2, <1>10, Zenon
  <2>2. \A i \in 1 .. n : w[i] = a(ch[n + 1 - i]) /\ ch[n + 1 - i] \in Children(p)
    BY <1>2, <1>9, <1>10, Zenon
  <2> QED BY <1>11, <2>1, <2>2, Zenon DEF Kids
<1>14. Falls(p, w)
  <2> SUFFICES ASSUME NEW i \in 1 .. n, NEW j \in 1 .. n, i < j
               PROVE  \E c, d \in Children(p) : w[i] = a(c) /\ w[j] = a(d) /\ d < c
    BY <1>11 DEF Falls
  <2>1. ch[n + 1 - j] < ch[n + 1 - i]
    BY <1>1, <1>2, <1>10 DEF n
  <2> HIDE DEF a
  <2> QED BY <1>2, <1>9, <1>10, <2>1
<1> QED BY <1>12, <1>13, <1>14 DEF u, w, r, f

----------------------------------------------------------------------------
(* Dropping                                                                *)

\* P has all of the path from s to p, but for s.
Hangs(P, s, p) == Pre(s, p) /\ \A q \in Strings : Pre(s, q) /\ q # s /\ Pre(q, p) => q \in P

\* What is left of the tree hangs on the stack.
Dropping ==
  /\ stack \in Seq(Entries)
  /\ \A i \in 1 .. Len(stack) : stack[i][1] # Root
  /\ \A p \in Paths : p = Root \/ \E i \in 1 .. Len(stack) : Hangs(Paths, stack[i][1], p)

\* What hangs on p is p or hangs on a child of it.
LEMMA HangsOnChild ==
  ASSUME Shape, NEW s \in Strings, NEW p \in Strings, Hangs(Paths, s, p), p # s
  PROVE  \E c \in Children(s) : Hangs(Paths, Append(s, c), p)
<1>1. PICK c \in Chars : Pre(Append(s, c), p)
  BY NextCharacter DEF Hangs
<1>2. /\ Append(s, c) \in Strings /\ Pre(s, Append(s, c)) /\ s # Append(s, c)
  BY AppendString, PreOfChild
<1>3. c \in Children(s)
  BY <1>1, <1>2 DEF Hangs, Children
<1>4. ASSUME NEW q \in Strings, Pre(Append(s, c), q), q # Append(s, c), Pre(q, p)
      PROVE  q \in Paths
  <2>1. Pre(s, q)
    BY <1>2, <1>4, PreTransitive
  <2>2. q # s
    BY <1>2, <1>4, PreOfChild
  <2> QED BY <1>4, <2>1, <2>2 DEF Hangs
<1> QED BY <1>1, <1>3, <1>4 DEF Hangs

\* Nothing is in an empty map.
LEMMA EmptyDict ==
  ASSUME NEW S, S = {}, NEW f
  PROVE  [k \in S |-> f[k]] = Map!Empty
  BY DEF Map!Empty

\* A drop begins, and the map is empty.
LEMMA DropMaps ==
  ASSUME Shape, Grown, drop
  PROVE  Shape' /\ Dropping' /\ Map!Drop
<1>1. /\ pc' = "drop" /\ tree' = tree
      /\ stack' = Unvisited(Rising(Root))
  BY DEF drop
<1>2. Root \in Strings
  BY DEF Root, Strings
<1>3. Kids(Root, stack')
  BY <1>1, <1>2, KidsPushed
<1>4. Paths' = Paths
  BY <1>1 DEF Paths
<1>5. Shape'
  BY <1>1, <1>4 DEF Shape, Strings, Root
<1>6. ASSUME NEW i \in 1 .. Len(stack') PROVE stack'[i][1] # Root
  <2>1. PICK c \in Children(Root) : stack'[i] = <<Append(Root, c), FALSE>>
    BY <1>3 DEF Kids
  <2>2. c \in Chars
    BY DEF Children
  <2>3. Root # Append(Root, c)
    BY <1>2, <2>2, PreOfChild
  <2> QED BY <2>1, <2>3
<1>7. ASSUME NEW p \in Paths, p # Root
      PROVE  \E i \in 1 .. Len(stack') : Hangs(Paths, stack'[i][1], p)
  <2>1. p \in Strings
    BY DEF Shape
  <2>2. Hangs(Paths, Root, p)
    <3>1. Pre(Root, p)
      BY <2>1, StringType DEF Pre, Root
    <3> QED BY <3>1 DEF Hangs, Grown
  <2>3. PICK c \in Children(Root) : Hangs(Paths, Append(Root, c), p)
    BY <1>2, <1>7, <2>1, <2>2, HangsOnChild
  <2>4. PICK i \in 1 .. Len(stack') : stack'[i] = <<Append(Root, c), FALSE>>
    BY <1>3 DEF Kids
  <2>5. stack'[i][1] = Append(Root, c)
    BY <2>4
  <2> QED BY <2>3, <2>5
<1>8. Dropping'
  <2>2. \A p \in Paths' : p = Root \/ \E i \in 1 .. Len(stack') : Hangs(Paths', stack'[i][1], p)
    BY <1>4, <1>7
  <2>3. stack' \in Seq(Entries)
    BY <1>3 DEF Kids
  <2> QED BY <1>4, <1>6, <2>2, <2>3, Zenon DEF Dropping, Root, Entries, Strings, Hangs, Pre
<1>9. Dict' = Map!Empty
  <2>1. Dict' = [k \in {} |-> tree'[k]]
    BY <1>1 DEF Dict
  <2> QED BY <2>1, EmptyDict
<1>10. Said' = <<"new">>
  BY <1>1 DEF Said
<1> QED BY <1>5, <1>8, <1>9, <1>10 DEF Map!Drop

\* A node is freed, its children left on the stack; the map stays empty.
LEMMA DismantleMaps ==
  ASSUME Shape, Dropping, dismantle
  PROVE  /\ Shape' /\ UNCHANGED <<Dict, Said>>
         /\ (pc' = "drop" /\ Dropping') \/ (pc' = "ready" /\ Grown')
<1>1. pc = "drop"
  BY DEF dismantle
<1>2. CASE /\ stack = <<>>
           /\ tree' = [tree EXCEPT ![Root] = NoValue] /\ count' = 0
           /\ return(<<"new">>)
  <2>1. Paths = {Root}
    <3>1. Len(stack) = 0
      BY <1>2
    <3> QED BY <3>1 DEF Dropping, Shape
  <2>2. Paths' = {Root} /\ tree'[Root] = NoValue /\ tree' \in [Paths -> Values \cup {NoValue}]
    BY <1>2, <2>1 DEF Paths, Shape
  <2>3. Shape'
    BY <2>1, <2>2 DEF Shape, Root, Strings
  <2>4. StoredKeys' = {}
    BY <2>2 DEF StoredKeys
  <2>5. Grown'
    <3>1. count' = Cardinality(StoredKeys')
      BY <1>2, <2>4, FS_EmptySet
    <3>2. ASSUME NEW q \in Strings, Pre(q, Root) PROVE q = Root
      <4>1. Len(q) = 0
        BY <3>2, StringType DEF Pre, Root
      <4> QED BY <4>1, SameString DEF Root, Strings
    <3>3. \A k \in Paths' : \A q \in Strings : Pre(q, k) => q \in Paths'
      BY <2>2, <3>2
    <3>4. \A p \in Paths' : p = Root
      BY <2>2
    <3> QED BY <2>4, <3>1, <3>3, <3>4 DEF Grown, Strings, Pre, Root
  <2>6. pc' = "ready" /\ reply' = <<"new">>
    BY <1>2 DEF return
  <2>7. Dict' = Dict
    <3>1. Dict = [k \in {} |-> tree[k]] /\ Dict' = [k \in {} |-> tree'[k]]
      BY <1>1, <2>4, <2>6, Zenon DEF Dict
    <3> QED BY <3>1, EmptyDict
  <2>8. Said' = Said
    BY <1>1, <2>6 DEF Said, Spoken
  <2> QED BY <2>3, <2>5, <2>6, <2>7, <2>8
<1>3. CASE /\ stack # <<>>
           /\ stack' = Pop \o Unvisited(Rising(Top[1]))
           /\ tree' = [p \in Paths \ {Top[1]} |-> tree[p]]
           /\ UNCHANGED <<count, pc, out, built, arg, reply>>
  <2> DEFINE t == Top[1]
             u == Unvisited(Rising(t))
             n == Len(stack) - 1
  <2>1. /\ stack \in Seq(Entries) /\ Len(stack) \in Nat /\ Len(stack) > 0
        /\ stack[Len(stack)] \in Entries
    BY <1>3, EmptySeq DEF Dropping
  <2>2. t \in Strings /\ t # Root
    BY <2>1 DEF Top, Entries, Dropping
  <2>3. Kids(t, u)
    BY <2>2, KidsPushed
  <2> HIDE DEF u
  <2>4. /\ stack' \in Seq(Entries) /\ Len(stack') = n + Len(u)
        /\ Len(u) \in Nat
        /\ \A i \in 1 .. n : stack'[i] = stack[i]
        /\ \A j \in 1 .. Len(u) : stack'[n + j] = u[j]
        /\ \A i \in 1 .. Len(stack') : \/ i \in 1 .. n
                                       \/ \E j \in 1 .. Len(u) : i = n + j /\ stack'[i] = u[j]
    <3>1. u \in Seq(Entries)
      BY <2>3 DEF Kids
    <3>2. stack' = SubSeq(stack, 1, Len(stack) - 1) \o u
      BY <1>3, Zenon DEF Pop, u
    <3>3. stack # <<>> /\ stack \in Seq(Entries)
      BY <1>3, <2>1
    <3> HIDE DEF t
    <3>4. Popped(Entries, stack, u, stack')
      BY <3>1, <3>2, <3>3, PopPush, Zenon
    <3> QED BY <3>4 DEF Popped, n
  <2>5. /\ Paths' = Paths \ {t}
        /\ tree' \in [Paths \ {t} -> Values \cup {NoValue}]
    BY <1>3 DEF Paths, Shape
  <2>6. Shape'
    <3>1. IsFiniteSet(Paths')
      BY <2>5, FS_RemoveElement DEF Shape
    <3> QED BY <2>2, <2>5, <3>1 DEF Shape, Strings, Root
  <2>7. ASSUME NEW i \in 1 .. Len(stack') PROVE stack'[i][1] # Root
    <3>1. CASE i \in 1 .. n
      BY <2>1, <2>4, <3>1 DEF Dropping
    <3>2. CASE \E j \in 1 .. Len(u) : i = n + j /\ stack'[i] = u[j]
      <4>1. PICK c \in Children(t) : stack'[i] = <<Append(t, c), FALSE>>
        BY <2>3, <3>2 DEF Kids
      <4>2. Len(Append(t, c)) = Len(t) + 1 /\ Len(t) \in Nat /\ Len(Root) = 0
        <5>1. c \in Chars
          BY DEF Children
        <5> QED BY <2>2, <5>1, AppendString, StringType DEF Root
      <4> HIDE DEF t
      <4>3. Append(t, c) # Root
        BY <4>2
      <4>4. stack'[i][1] = Append(t, c)
        BY <4>1
      <4> QED BY <4>3, <4>4
    <3> QED BY <2>4, <3>1, <3>2
  <2>8. ASSUME NEW p \in Paths', p # Root
        PROVE  \E i \in 1 .. Len(stack') : Hangs(Paths', stack'[i][1], p)
    <3>1. p \in Paths /\ p # t /\ p \in Strings
      BY <2>5 DEF Shape
    <3>2. PICK i \in 1 .. Len(stack) : Hangs(Paths, stack[i][1], p)
      BY <2>8, <3>1 DEF Dropping
    <3>3. CASE Hangs(Paths, t, p)
      <4>1. PICK c \in Children(t) : Hangs(Paths, Append(t, c), p)
        BY <2>2, <3>1, <3>3, HangsOnChild
      <4>2. PICK j \in 1 .. Len(u) : u[j] = <<Append(t, c), FALSE>>
        BY <2>3 DEF Kids
      <4>3. n + j \in 1 .. Len(stack') /\ stack'[n + j] = u[j]
        BY <2>1, <2>4
      <4>4. stack'[n + j][1] = Append(t, c)
        BY <4>2, <4>3
      <4>5. \A q \in Strings : Pre(Append(t, c), q) => q # t
        <5>1. c \in Chars
          BY DEF Children
        <5> QED BY <2>2, <5>1, PreOfChild
      <4>6. Hangs(Paths', Append(t, c), p)
        BY <2>5, <4>1, <4>5 DEF Hangs, Pre, Strings
      <4> QED BY <4>3, <4>4, <4>6
    <3>4. CASE ~Hangs(Paths, t, p)
      <4>1. stack[i][1] # t /\ i \in 1 .. n
        BY <2>1, <3>2, <3>4 DEF Top
      <4>2. i \in 1 .. Len(stack') /\ stack'[i] = stack[i]
        BY <2>1, <2>4, <4>1
      <4>3. stack[i][1] \in Strings
        BY <2>1 DEF Entries
      <4> DEFINE s == stack[i][1]
      <4>4. ~(Pre(s, t) /\ Pre(t, p))
        <5> SUFFICES ASSUME Pre(s, t), Pre(t, p) PROVE Hangs(Paths, t, p)
          BY <3>4
        <5> SUFFICES ASSUME NEW q \in Strings, Pre(t, q), q # t, Pre(q, p) PROVE q \in Paths
          BY DEF Hangs
        <5>1. Pre(s, q)
          BY <2>2, <4>3, PreTransitive
        <5>2. q # s
          <6>1. ASSUME q = s PROVE FALSE
            <7>1. /\ Len(t) \in Nat /\ Len(q) \in Nat
                  /\ Len(t) = Len(q) /\ \A h \in 1 .. Len(t) : t[h] = q[h]
              BY <2>2, <6>1, StringType DEF Pre
            <7> QED BY <2>2, <7>1, SameString
          <6> QED BY <6>1
        <5> QED BY <3>2, <5>1, <5>2 DEF Hangs
      <4>5. Hangs(Paths', s, p)
        <5>1. Pre(s, p) /\ \A q \in Strings : Pre(s, q) /\ q # s /\ Pre(q, p) => q \in Paths'
          BY <2>5, <3>2, <4>4 DEF Hangs
        <5> QED BY <5>1 DEF Hangs, Pre, Strings
      <4> QED BY <4>2, <4>5
    <3> QED BY <3>3, <3>4
  <2>9. Dropping'
    BY <2>4, <2>7, <2>8 DEF Dropping, Root, Entries, Strings
  <2>10. UNCHANGED <<Dict, Said>>
    <3>1. Dict = [k \in {} |-> tree[k]] /\ Dict' = [k \in {} |-> tree'[k]]
      BY <1>1, <1>3, Zenon DEF Dict
    <3>2. Dict' = Dict
      BY <3>1, EmptyDict
    <3> QED BY <1>1, <1>3, <3>2 DEF Said
  <2> QED BY <1>1, <1>3, <2>6, <2>9, <2>10
<1> QED BY <1>2, <1>3 DEF dismantle

----------------------------------------------------------------------------
(* Matching a prefix                                                       *)

\* The stored keys under a path.
Found(T, a) == {k \in DOMAIN T : T[k] # NoValue /\ Pre(a, k)}

\* ks is a part of the matches in order, and st holds the paths of the rest:
\* each key found extends the path of an entry, every key of ks comes before
\* what an entry stands for, and the higher entry before the lower.
Listing(T, a, st, ks) ==
  /\ ks \in Seq(Found(T, a))
  /\ \A i, j \in 1 .. Len(ks) : i < j => Bef(ks[i], ks[j])
  /\ \A k \in Found(T, a) : \/ \E i \in 1 .. Len(ks) : ks[i] = k
                            \/ \E i \in 1 .. Len(st) : Pre(st[i][1], k)
  /\ \A i \in 1 .. Len(ks), j \in 1 .. Len(st) :
       \A p \in Strings : Pre(st[j][1], p) => Bef(ks[i], p)

Layered(st) ==
  \A i, j \in 1 .. Len(st) : i < j =>
    \A p, q \in Strings : Pre(st[i][1], p) /\ Pre(st[j][1], q) => Bef(q, p)

Walk(T, a, st, o) ==
  /\ a \in Keys
  /\ st \in Seq(Entries) /\ Layered(st)
  /\ \A i \in 1 .. Len(st) : st[i][1] \in DOMAIN T /\ Pre(a, st[i][1])
  /\ \E ks : Listing(T, a, st, ks) /\ o = [i \in 1 .. Len(ks) |-> T[ks[i]]]

\* What extends an earlier child comes first.
LEMMA Siblings ==
  ASSUME NEW t \in Strings, NEW c \in Chars, NEW d \in Chars, d < c,
         NEW p \in Strings, NEW q \in Strings, Pre(Append(t, c), p), Pre(Append(t, d), q)
  PROVE  Bef(q, p)
<1> DEFINE n == Len(t) + 1
           a == Append(t, c)
           b == Append(t, d)
<1>1. /\ Len(a) = n /\ a[n] = c /\ \A i \in 1 .. Len(t) : a[i] = t[i]
      /\ Len(b) = n /\ b[n] = d /\ \A i \in 1 .. Len(t) : b[i] = t[i]
  BY AppendString
<1>2. Len(t) \in Nat /\ Len(p) \in Nat /\ Len(q) \in Nat
  BY StringType
<1> HIDE DEF a, b
<1>3. n \in 1 .. Len(q) /\ n \in 1 .. Len(p) /\ q[n] = d /\ p[n] = c
  BY <1>1, <1>2 DEF Pre, a, b
<1>4. \A j \in 1 .. n - 1 : q[j] = p[j]
  BY <1>1, <1>2 DEF Pre, a, b
<1> QED BY <1>2, <1>3, <1>4 DEF Bef

\* A list of all of S, ascending, puts each member at its rank.
LEMMA RankInList ==
  ASSUME NEW S, S \subseteq Strings, NEW ks \in Seq(S),
         \A i, j \in 1 .. Len(ks) : i < j => Bef(ks[i], ks[j]),
         \A k \in S : \E i \in 1 .. Len(ks) : ks[i] = k
  PROVE  /\ Cardinality(S) = Len(ks)
         /\ \A i \in 1 .. Len(ks) : Cardinality({l \in S : Map!Before(l, ks[i])}) = i - 1
<1> DEFINE n == Len(ks)
<1>1. n \in Nat /\ ks \in [1 .. n -> S] /\ \A i \in 1 .. n : ks[i] \in S /\ ks[i] \in Strings
  BY LenProperties
<1> HIDE DEF n
<1>2. \A i, j \in 1 .. n : i < j => Bef(ks[i], ks[j])
  BY DEF n
<1>3. \A k \in S : \E i \in 1 .. n : ks[i] = k
  BY DEF n
<1>4. ASSUME NEW i \in 1 .. n, NEW j \in 1 .. n
      PROVE  Bef(ks[i], ks[j]) <=> i < j
  <2>1. CASE i < j
    BY <1>2, <2>1
  <2>2. CASE i = j
    <3>1. ~Bef(ks[i], ks[i])
      BY <1>1, BefAsymmetric
    <3> QED BY <1>1, <2>2, <3>1
  <2>3. CASE j < i
    <3>1. Bef(ks[j], ks[i])
      BY <1>2, <2>3
    <3>2. ~Bef(ks[i], ks[j])
      BY <1>1, <3>1, BefAsymmetric
    <3> QED BY <1>1, <2>3, <3>2
  <2> QED BY <1>1, <2>1, <2>2, <2>3
<1>5. \A i, j \in 1 .. n : ks[i] = ks[j] => i = j
  <2> SUFFICES ASSUME NEW i \in 1 .. n, NEW j \in 1 .. n, ks[i] = ks[j] PROVE i = j
    OBVIOUS
  <2>1. ~Bef(ks[i], ks[j]) /\ ~Bef(ks[j], ks[i])
    BY <1>1, BefAsymmetric
  <2>2. ~(i < j) /\ ~(j < i)
    BY <1>4, <2>1
  <2> QED BY <1>1, <2>2
<1>6. ASSUME NEW m \in 0 .. n, NEW R, \A x : x \in R <=> \E j \in 1 .. m : ks[j] = x
      PROVE  Cardinality(R) = m
  <2> DEFINE f == [j \in 1 .. m |-> ks[j]]
  <2>1. f \in [1 .. m -> R] /\ \A x \in R : \E j \in 1 .. m : f[j] = x
    BY <1>6
  <2>2. \A i, j \in 1 .. m : f[i] = f[j] => i = j
    BY <1>1, <1>5, <1>6
  <2> HIDE DEF f
  <2>3. f \in Bijection(1 .. m, R)
    BY <2>1, <2>2, Fun_IsBij, Fun_IsInj, Fun_IsSurj
  <2>4. IsFiniteSet(1 .. m) /\ Cardinality(1 .. m) = m
    BY <1>1, FS_Interval
  <2> QED BY <2>3, <2>4, FS_Bijection DEF ExistsBijection
<1>7. Cardinality(S) = n
  BY <1>1, <1>3, <1>6
<1>8. ASSUME NEW i \in 1 .. n PROVE Cardinality({l \in S : Map!Before(l, ks[i])}) = i - 1
  <2> DEFINE R == {l \in S : Map!Before(l, ks[i])}
  <2>1. \A x : x \in R <=> x \in S /\ Map!Before(x, ks[i])
    BY Zenon
  <2> HIDE DEF R
  <2>2. \A j \in 1 .. n : ks[j] \in R <=> j < i
    BY <1>1, <1>4, <2>1, BeforeIsBef
  <2>3. i - 1 \in 0 .. n /\ \A j : j \in 1 .. i - 1 <=> j \in 1 .. n /\ j < i
    BY <1>1
  <2>4. \A x : x \in R <=> \E j \in 1 .. i - 1 : ks[j] = x
    BY <1>3, <2>1, <2>2, <2>3, Zenon
  <2>5. Cardinality(R) = i - 1
    BY <1>6, <2>3, <2>4
  <2> QED BY <2>5 DEF R
<1> QED BY <1>7, <1>8 DEF n

\* So the list is the map's.
LEMMA InOrderIsList ==
  ASSUME NEW S, S \subseteq Strings, NEW ks \in Seq(S),
         \A i, j \in 1 .. Len(ks) : i < j => Bef(ks[i], ks[j]),
         \A k \in S : \E i \in 1 .. Len(ks) : ks[i] = k
  PROVE  Map!InOrder(S) = ks
<1> DEFINE C(k) == Map!Cardinality({l \in S : Map!Before(l, k)})
           n == Len(ks)
           r == [i \in 1 .. n |-> CHOOSE k \in S : C(k) = i - 1]
<1>1. Cardinality(S) = n /\ \A i \in 1 .. n : Cardinality({l \in S : Map!Before(l, ks[i])}) = i - 1
  BY RankInList
<1>2. Map!Cardinality(S) = n /\ \A i \in 1 .. n : C(ks[i]) = i - 1
  BY <1>1, SameCardinality, Zenon
<1>3. Map!InOrder(S) = r
  BY <1>2, Zenon DEF Map!InOrder
<1> HIDE DEF C
<1>4. n \in Nat /\ ks \in [1 .. n -> S]
  BY LenProperties
<1> HIDE DEF n
<1>5. ASSUME NEW i \in 1 .. n PROVE r[i] = ks[i]
  <2>1. ks[i] \in S /\ C(ks[i]) = i - 1
    BY <1>2, <1>4
  <2>2. \E k \in S : C(k) = i - 1
    BY <2>1
  <2>3. ASSUME NEW k \in S, C(k) = i - 1 PROVE k = ks[i]
    <3>1. PICK j \in 1 .. n : ks[j] = k
      BY DEF n
    <3>2. C(ks[j]) = j - 1
      BY <1>2
    <3>3. j = i
      BY <1>4, <2>3, <3>1, <3>2
    <3> QED BY <3>1, <3>3
  <2> DEFINE x == CHOOSE k \in S : C(k) = i - 1
  <2>4. x \in S /\ C(x) = i - 1
    BY <2>2, Zenon
  <2>5. r[i] = x
    BY Zenon
  <2> HIDE DEF x
  <2> QED BY <2>3, <2>4, <2>5
<1>6. DOMAIN r = 1 .. n
  OBVIOUS
<1> HIDE DEF r
<1>7. r = [i \in 1 .. n |-> r[i]]
  BY <1>3, <1>6, Zenon DEF r
<1>8. ks = [i \in 1 .. n |-> ks[i]]
  BY <1>4, Zenon
<1>9. [i \in 1 .. n |-> r[i]] = [i \in 1 .. n |-> ks[i]]
  BY <1>5, Zenon
<1> QED BY <1>3, <1>7, <1>8, <1>9, Zenon

\* A stack of one.
LEMMA OneEntry ==
  ASSUME NEW p \in Strings
  PROVE  /\ Unvisited(<<p>>) \in Seq(Entries) /\ Len(Unvisited(<<p>>)) = 1
         /\ Unvisited(<<p>>)[1] = <<p, FALSE>>
<1> DEFINE s == <<p>>
           u == Unvisited(s)
<1>1. DOMAIN s = 1 .. 1 /\ s[1] = p
  OBVIOUS
<1> HIDE DEF s
<1>2. u = [i \in 1 .. 1 |-> <<s[i], FALSE>>]
  BY <1>1, Zenon DEF Unvisited
<1>3. \A i \in 1 .. 1 : i = 1
  OBVIOUS
<1>4. <<p, FALSE>> \in Entries
  BY DEF Entries
<1>5. u \in [1 .. 1 -> Entries] /\ u[1] = <<p, FALSE>>
  <2>1. \A i \in 1 .. 1 : <<s[i], FALSE>> \in Entries /\ <<s[i], FALSE>> = <<p, FALSE>>
    BY <1>1, <1>3, <1>4, Zenon
  <2>2. u \in [1 .. 1 -> Entries]
    BY <1>2, <1>4, <2>1, Zenon
  <2>3. 1 \in 1 .. 1
    OBVIOUS
  <2> QED BY <1>2, <2>1, <2>2, <2>3, Zenon
<1> HIDE DEF u
<1>6. u \in Seq(Entries) /\ Len(u) = 1
  BY <1>5, SeqOfFunction
<1> QED BY <1>5, <1>6 DEF u, s

\* What a step leaves alone.
LEMMA Kept ==
  ASSUME tree' = tree, count' = count
  PROVE  (Shape => Shape') /\ (Grown => Grown')
  BY DEF Shape, Grown, Paths, StoredKeys, Strings, Pre, Root

\* A finished list is the map's answer.
LEMMA ListMatches ==
  ASSUME pc # "drop", pc' # "drop", Shape, NEW key \in Keys, tree' = tree,
         NEW ks, Listing(tree, key, <<>>, ks),
         reply' = <<"matches", key, [i \in 1 .. Len(ks) |-> tree[ks[i]]]>>
  PROVE  Map!Matches(key)
<1>1. /\ Dict = [k \in StoredKeys |-> tree[k]] /\ DOMAIN Dict = StoredKeys
      /\ Dict' = Dict /\ Said' = Spoken(reply')
  <2>1. Said' = Spoken(reply')
    BY DEF Said, Spoken
  <2> QED BY <2>1, DictOfTree, DictKept
<1> DEFINE S == {k \in Map!Stored : Map!HasPrefix(key, k)}
           o == [i \in 1 .. Len(ks) |-> tree[ks[i]]]
<1>2. key \in Strings /\ StoredKeys \subseteq Strings
  BY TrieAssumption DEF Strings, Shape, StoredKeys
<1>3. S = Found(tree, key)
  <2>1. \A k : k \in S <=> k \in StoredKeys /\ Map!HasPrefix(key, k)
    BY <1>1, Zenon DEF Map!Stored
  <2>2. \A k : k \in Found(tree, key) <=> k \in StoredKeys /\ Pre(key, k)
    BY DEF Found, StoredKeys, Paths
  <2> HIDE DEF S
  <2>3. \A k : k \in S <=> k \in Found(tree, key)
    BY <1>2, <2>1, <2>2, PrefixIsPre
  <2> QED BY <2>3
<1> HIDE DEF S
<1>4. /\ S \subseteq Strings /\ ks \in Seq(S) /\ Len(ks) \in Nat
      /\ \A i, j \in 1 .. Len(ks) : i < j => Bef(ks[i], ks[j])
      /\ \A k \in S : \E i \in 1 .. Len(ks) : ks[i] = k
  <2>1. S \subseteq StoredKeys
    BY <1>1 DEF S, Map!Stored
  <2>2. Len(<<>>) = 0
    OBVIOUS
  <2>3. ks \in Seq(S) /\ \A i, j \in 1 .. Len(ks) : i < j => Bef(ks[i], ks[j])
    BY <1>3 DEF Listing
  <2>4. \A k \in S : \E i \in 1 .. Len(ks) : ks[i] = k
    BY <1>3, <2>2 DEF Listing
  <2> QED BY <1>2, <2>1, <2>3, <2>4, LenProperties
<1>5. Map!InOrder(S) = ks
  BY <1>4, InOrderIsList
<1>6. DOMAIN ks = 1 .. Len(ks) /\ \A i \in 1 .. Len(ks) : ks[i] \in StoredKeys
  <2>1. \A i \in 1 .. Len(ks) : ks[i] \in S
    BY <1>4
  <2> QED BY <1>1, <1>4, <2>1 DEF S, Map!Stored
<1>7. o = [i \in DOMAIN ks |-> Dict[ks[i]]]
  <2>1. \A i \in 1 .. Len(ks) : Dict[ks[i]] = tree[ks[i]]
    BY <1>1, <1>6
  <2> QED BY <1>6, <2>1, Zenon
<1>8. Said' = <<"matches", key, o>>
  <2>1. reply'[1] = "matches"
    OBVIOUS
  <2> HIDE DEF o
  <2> QED BY <1>1, <2>1, PlainReply DEF o
<1> HIDE DEF o
<1>9. Said' = <<"matches", key, [i \in DOMAIN Map!InOrder(S) |-> Dict[Map!InOrder(S)[i]]]>>
  BY <1>5, <1>7, <1>8, Zenon
<1> QED BY <1>1, <1>9, Zenon DEF Map!Matches, S

\* A walk begins, or there is nothing to match.
LEMMA WalkBegins ==
  ASSUME Shape, Grown, out = <<>>, NEW key \in Keys, prefix_matches(key)
  PROVE  /\ Shape' /\ Grown'
         /\ \/ pc' = "ready" /\ Map!Matches(key)
            \/ pc' = "walk" /\ Walk(tree', arg', stack', out') /\ UNCHANGED <<Dict, Said>>
<1>1. pc = "ready" /\ tree' = tree /\ count' = count /\ Shape' /\ Grown'
  BY Kept DEF prefix_matches
<1>2. key \in Strings
  BY TrieAssumption DEF Strings
<1>3. CASE key \notin Paths /\ return(<<"matches", key, <<>>>>)
  <2>1. pc' = "ready" /\ reply' = <<"matches", key, <<>>>>
    BY <1>3 DEF return
  <2>2. Found(tree, key) = {}
    <3>1. \A k \in Paths : ~Pre(key, k)
      BY <1>2, <1>3 DEF Grown
    <3> QED BY <3>1 DEF Found, Paths
  <2>3. PICK ks : ks = <<>>
    OBVIOUS
  <2>4. Listing(tree, key, <<>>, ks)
    BY <2>2, <2>3 DEF Listing
  <2>5. [i \in 1 .. Len(ks) |-> tree[ks[i]]] = <<>>
    BY <2>3
  <2>6. reply' = <<"matches", key, [i \in 1 .. Len(ks) |-> tree[ks[i]]]>>
    BY <2>1, <2>5, Zenon
  <2>7. Map!Matches(key)
    BY <1>1, <2>1, <2>4, <2>6, ListMatches
  <2> QED BY <1>1, <2>1, <2>7
<1>4. CASE /\ key \in Paths
           /\ pc' = "walk" /\ stack' = Unvisited(<<key>>) /\ arg' = key
           /\ UNCHANGED <<out, built, reply>>
  <2> DEFINE st == Unvisited(<<key>>)
  <2>1. st \in Seq(Entries) /\ Len(st) = 1 /\ st[1] = <<key, FALSE>>
    BY <1>2, OneEntry
  <2> HIDE DEF st
  <2>2. st \in Seq(Entries) /\ Len(st) = 1 /\ st[1][1] = key
    BY <2>1
  <2>3. Layered(st)
    BY <2>2 DEF Layered
  <2>4. \A i \in 1 .. Len(st) : st[i][1] \in Paths /\ Pre(key, st[i][1])
    <3>1. \A i \in 1 .. Len(st) : st[i][1] = key
      BY <2>2
    <3> QED BY <1>2, <1>4, <3>1, PreReflexive
  <2>5. PICK ks : ks = <<>>
    OBVIOUS
  <2>6. Listing(tree, key, st, ks)
    <3>1. \A k \in Found(tree, key) : Pre(st[1][1], k)
      BY <2>2 DEF Found
    <3>2. ks \in Seq(Found(tree, key)) /\ Len(ks) = 0
      BY <2>5
    <3> QED BY <2>2, <3>1, <3>2 DEF Listing
  <2>7. out' = [i \in 1 .. Len(ks) |-> tree[ks[i]]]
    BY <1>4, <2>5
  <2>8. Walk(tree, key, st, out')
    BY <2>2, <2>3, <2>4, <2>6, <2>7 DEF Walk, Paths
  <2>9. Walk(tree', arg', stack', out')
    BY <1>1, <1>4, <2>8, Zenon DEF st
  <2>10. Dict' = Dict /\ Said' = Said
    BY <1>1, <1>4, DictKept DEF Said, Spoken
  <2> QED BY <1>1, <1>4, <2>9, <2>10
<1> QED BY <1>3, <1>4 DEF prefix_matches

\* A pop, and the children of the top pushed with the first on top, keeps
\* the stack layered.
LEMMA LayersKept ==
  ASSUME NEW st \in Seq(Entries), Layered(st), st # <<>>,
         NEW t \in Strings, st[Len(st)][1] = t,
         NEW u, Kids(t, u), Falls(t, u), NEW s2, Popped(Entries, st, u, s2)
  PROVE  Layered(s2)
<1> DEFINE n == Len(st) - 1
<1>1. /\ s2 \in Seq(Entries) /\ Len(s2) = n + Len(u)
      /\ n \in Nat /\ Len(st) = n + 1 /\ Len(u) \in Nat
      /\ \A i \in 1 .. n : s2[i] = st[i]
      /\ \A j \in 1 .. Len(u) : s2[n + j] = u[j]
      /\ \A i \in 1 .. Len(s2) : \/ i \in 1 .. n
                                 \/ \E j \in 1 .. Len(u) : i = n + j /\ s2[i] = u[j]
  <2>1. n \in Nat /\ Len(st) = n + 1
    BY DEF Popped
  <2> QED BY <2>1, Zenon DEF Popped
<1> HIDE DEF n
<1>2. \A i \in 1 .. n : s2[i][1] \in Strings
  <2>1. \A i \in 1 .. n : st[i] \in Entries
    BY <1>1
  <2> QED BY <1>1, <2>1 DEF Entries
<1>3. SUFFICES ASSUME NEW i \in 1 .. Len(s2), NEW j \in 1 .. Len(s2), i < j,
                      NEW p \in Strings, NEW q \in Strings, Pre(s2[i][1], p), Pre(s2[j][1], q)
               PROVE  Bef(q, p)
  BY DEF Layered
<1>4. ASSUME NEW h \in 1 .. Len(u), NEW x \in Strings, Pre(u[h][1], x)
      PROVE  Pre(t, x)
  <2>1. PICK c \in Children(t) : u[h] = <<Append(t, c), FALSE>>
    BY DEF Kids
  <2>2. u[h][1] = Append(t, c) /\ c \in Chars
    BY <2>1 DEF Children
  <2>3. Append(t, c) \in Strings /\ Pre(t, Append(t, c))
    BY <2>2, AppendString, PreOfChild
  <2> QED BY <1>4, <2>2, <2>3, PreTransitive
<1>5. CASE i \in 1 .. n /\ j \in 1 .. n
  <2>1. i \in 1 .. Len(st) /\ j \in 1 .. Len(st) /\ s2[i] = st[i] /\ s2[j] = st[j]
    BY <1>1, <1>5
  <2> QED BY <1>3, <2>1 DEF Layered
<1>6. CASE i \in 1 .. n /\ \E h \in 1 .. Len(u) : j = n + h /\ s2[j] = u[h]
  <2>1. i \in 1 .. Len(st) /\ Len(st) \in 1 .. Len(st) /\ i < Len(st)
    BY <1>1, <1>6
  <2>3. s2[i] = st[i]
    BY <1>1, <1>6
  <2>2. Pre(t, q)
    BY <1>3, <1>4, <1>6
  <2> QED BY <1>3, <2>1, <2>2, <2>3 DEF Layered
<1>7. CASE /\ \E h \in 1 .. Len(u) : i = n + h /\ s2[i] = u[h]
           /\ \E h \in 1 .. Len(u) : j = n + h /\ s2[j] = u[h]
  <2>1. PICK g \in 1 .. Len(u) : i = n + g /\ s2[i] = u[g]
    BY <1>7
  <2>2. PICK h \in 1 .. Len(u) : j = n + h /\ s2[j] = u[h]
    BY <1>7
  <2>3. g < h
    BY <1>1, <1>3, <2>1, <2>2
  <2>4. PICK c, d \in Children(t) : /\ u[g] = <<Append(t, c), FALSE>>
                                    /\ u[h] = <<Append(t, d), FALSE>> /\ d < c
    BY <2>3 DEF Falls
  <2>5. c \in Chars /\ d \in Chars
    BY DEF Children
  <2>6. s2[i][1] = Append(t, c) /\ s2[j][1] = Append(t, d)
    BY <2>1, <2>2, <2>4
  <2> QED BY <1>3, <2>4, <2>5, <2>6, Siblings
<1>8. CASE ~(i \in 1 .. n) /\ j \in 1 .. n
  BY <1>1, <1>3, <1>8
<1> QED BY <1>1, <1>3, <1>5, <1>6, <1>7, <1>8

\* The walk takes the next path: its value is listed if it has one.
LEMMA ListGrows ==
  ASSUME Shape, Grown, NEW a \in Strings, NEW st \in Seq(Entries), Layered(st), st # <<>>,
         NEW t \in Paths, t \in Strings, st[Len(st)][1] = t, Pre(a, t),
         NEW u, Kids(t, u), NEW s2, Popped(Entries, st, u, s2),
         NEW ks, Listing(tree, a, st, ks)
  PROVE  Listing(tree, a, s2, IF tree[t] = NoValue THEN ks ELSE Append(ks, t))
<1> DEFINE n == Len(st) - 1
           F == Found(tree, a)
           k2 == IF tree[t] = NoValue THEN ks ELSE Append(ks, t)
<1>1. /\ s2 \in Seq(Entries) /\ Len(s2) = n + Len(u)
      /\ n \in Nat /\ Len(st) = n + 1 /\ Len(u) \in Nat
      /\ \A i \in 1 .. n : s2[i] = st[i]
      /\ \A j \in 1 .. Len(u) : s2[n + j] = u[j]
      /\ \A i \in 1 .. Len(s2) : \/ i \in 1 .. n
                                 \/ \E j \in 1 .. Len(u) : i = n + j /\ s2[i] = u[j]
  <2>1. n \in Nat /\ Len(st) = n + 1
    BY DEF Popped
  <2> QED BY <2>1, Zenon DEF Popped
<1>2. /\ ks \in Seq(F) /\ Len(ks) \in Nat
      /\ \A i, j \in 1 .. Len(ks) : i < j => Bef(ks[i], ks[j])
      /\ \A k \in F : \/ \E i \in 1 .. Len(ks) : ks[i] = k
                      \/ \E i \in 1 .. Len(st) : Pre(st[i][1], k)
      /\ \A i \in 1 .. Len(ks), j \in 1 .. Len(st) :
            \A p \in Strings : Pre(st[j][1], p) => Bef(ks[i], p)
  BY LenProperties DEF Listing
<1>3. \A k : k \in F <=> k \in Paths /\ tree[k] # NoValue /\ Pre(a, k)
  BY DEF Found, Paths
<1> HIDE DEF n, F
<1>4. \A i \in 1 .. Len(ks) : ks[i] \in F /\ ks[i] \in Strings
  BY <1>2, <1>3 DEF Shape
\* an entry of the new stack is below the top
<1>5. ASSUME NEW j \in 1 .. Len(s2), NEW p \in Strings, Pre(s2[j][1], p)
      PROVE  \/ j \in 1 .. n /\ Pre(st[j][1], p)
             \/ Pre(t, p) /\ p # t
  <2>1. CASE j \in 1 .. n
    BY <1>1, <1>5, <2>1
  <2>2. CASE \E h \in 1 .. Len(u) : j = n + h /\ s2[j] = u[h]
    <3>1. PICK c \in Children(t) : s2[j] = <<Append(t, c), FALSE>>
      BY <2>2 DEF Kids
    <3>2. c \in Chars /\ s2[j][1] = Append(t, c)
      BY <3>1 DEF Children
    <3>3. Append(t, c) \in Strings /\ Pre(t, Append(t, c)) /\ ~Pre(Append(t, c), t)
      BY <3>2, AppendString, PreOfChild
    <3> QED BY <1>5, <3>2, <3>3, PreTransitive
  <2> QED BY <1>1, <2>1, <2>2
<1>6. \A i \in 1 .. Len(ks) : \A j \in 1 .. Len(s2) : \A p \in Strings : Pre(s2[j][1], p) => Bef(ks[i], p)
  <2> SUFFICES ASSUME NEW i \in 1 .. Len(ks), NEW j \in 1 .. Len(s2), NEW p \in Strings, Pre(s2[j][1], p)
               PROVE  Bef(ks[i], p)
    OBVIOUS
  <2>1. CASE j \in 1 .. n /\ Pre(st[j][1], p)
    BY <1>1, <1>2, <2>1
  <2>2. CASE Pre(t, p)
    BY <1>1, <1>2, <2>2
  <2> QED BY <1>5, <2>1, <2>2
<1>7. \A i \in 1 .. Len(ks) : Bef(ks[i], t)
  <2>1. Pre(t, t) /\ Len(st) \in 1 .. Len(st)
    BY <1>1, PreReflexive
  <2> QED BY <1>2, <2>1
<1>8. \A j \in 1 .. Len(s2) : \A p \in Strings : Pre(s2[j][1], p) => Bef(t, p)
  <2> SUFFICES ASSUME NEW j \in 1 .. Len(s2), NEW p \in Strings, Pre(s2[j][1], p)
               PROVE  Bef(t, p)
    OBVIOUS
  <2>1. CASE j \in 1 .. n /\ Pre(st[j][1], p)
    <3>1. Pre(t, t) /\ j \in 1 .. Len(st) /\ Len(st) \in 1 .. Len(st) /\ j < Len(st)
      BY <1>1, <2>1, PreReflexive
    <3> QED BY <2>1, <3>1 DEF Layered
  <2>2. CASE Pre(t, p) /\ p # t
    BY <2>2 DEF Bef
  <2> QED BY <1>5, <2>1, <2>2
<1>9. ASSUME NEW k \in F
      PROVE  \/ k = t
             \/ \E i \in 1 .. Len(ks) : ks[i] = k
             \/ \E i \in 1 .. Len(s2) : Pre(s2[i][1], k)
  <2>1. k \in Strings /\ k \in Paths
    BY <1>3 DEF Shape
  <2>2. ASSUME NEW i \in 1 .. n, Pre(st[i][1], k) PROVE \E h \in 1 .. Len(s2) : Pre(s2[h][1], k)
    <3>1. i \in 1 .. Len(s2) /\ s2[i] = st[i]
      BY <1>1
    <3> QED BY <2>2, <3>1
  <2>3. ASSUME Pre(t, k), k # t PROVE \E h \in 1 .. Len(s2) : Pre(s2[h][1], k)
    <3>1. PICK c \in Chars : Pre(Append(t, c), k)
      BY <2>1, <2>3, NextCharacter
    <3>2. Append(t, c) \in Strings
      BY AppendString
    <3>3. c \in Children(t)
      BY <2>1, <3>1, <3>2 DEF Grown, Children
    <3>4. PICK h \in 1 .. Len(u) : u[h] = <<Append(t, c), FALSE>>
      BY <3>3 DEF Kids
    <3>5. n + h \in 1 .. Len(s2) /\ s2[n + h] = u[h]
      BY <1>1
    <3>6. s2[n + h][1] = Append(t, c)
      BY <3>4, <3>5
    <3> QED BY <3>1, <3>5, <3>6
  <2>4. \A i \in 1 .. Len(st) : i \in 1 .. n \/ i = Len(st)
    BY <1>1
  <2> QED BY <1>2, <2>2, <2>3, <2>4
<1> SUFFICES Listing(tree, a, s2, k2)
  OBVIOUS
<1>10. CASE tree[t] = NoValue
  <2>1. k2 = ks /\ t \notin F
    BY <1>3, <1>10
  <2> HIDE DEF k2
  <2>2. \A k \in F : \/ \E i \in 1 .. Len(ks) : ks[i] = k
                     \/ \E i \in 1 .. Len(s2) : Pre(s2[i][1], k)
    BY <1>9, <2>1
  <2> QED BY <1>2, <1>6, <2>1, <2>2, Zenon DEF Listing, F
<1>11. CASE tree[t] # NoValue
  <2> DEFINE m == Len(ks)
  <2>1. k2 = Append(ks, t) /\ t \in F
    BY <1>3, <1>11
  <2> HIDE DEF k2
  <2>2. /\ k2 \in Seq(F) /\ Len(k2) = m + 1 /\ m \in Nat
        /\ k2[m + 1] = t /\ \A i \in 1 .. m : k2[i] = ks[i]
    BY <1>2, <2>1
  <2>3. \A i \in 1 .. Len(k2) : (i \in 1 .. m /\ k2[i] = ks[i]) \/ (i = m + 1 /\ k2[i] = t)
    BY <2>2
  <2>4. \A i, j \in 1 .. Len(k2) : i < j => Bef(k2[i], k2[j])
    <3> SUFFICES ASSUME NEW i \in 1 .. Len(k2), NEW j \in 1 .. Len(k2), i < j PROVE Bef(k2[i], k2[j])
      OBVIOUS
    <3>1. i \in 1 .. m /\ k2[i] = ks[i]
      BY <2>2, <2>3
    <3> QED BY <1>2, <1>7, <2>3, <3>1
  <2>5. ASSUME NEW k \in F
        PROVE  \/ \E i \in 1 .. Len(k2) : k2[i] = k
               \/ \E i \in 1 .. Len(s2) : Pre(s2[i][1], k)
    <3>1. CASE k = t
      <4>1. m + 1 \in 1 .. Len(k2)
        BY <2>2
      <4> QED BY <2>2, <3>1, <4>1
    <3>2. CASE \E i \in 1 .. Len(ks) : ks[i] = k
      <4>1. PICK i \in 1 .. Len(ks) : ks[i] = k
        BY <3>2
      <4>2. i \in 1 .. Len(k2) /\ k2[i] = k
        BY <2>2, <4>1
      <4> QED BY <4>2
    <3> QED BY <1>9, <3>1, <3>2
  <2>6. \A i \in 1 .. Len(k2), j \in 1 .. Len(s2) : \A p \in Strings : Pre(s2[j][1], p) => Bef(k2[i], p)
    BY <1>6, <1>8, <2>3
  <2> HIDE DEF m
  <2> QED BY <2>2, <2>4, <2>5, <2>6, Zenon DEF Listing, F
<1> QED BY <1>10, <1>11

\* A step of the walk, or its end.
LEMMA WalkMaps ==
  ASSUME Shape, Grown, Walk(tree, arg, stack, out), collect_values
  PROVE  /\ Shape' /\ Grown'
         /\ \/ pc' = "ready" /\ \E k \in Keys : Map!Matches(k)
            \/ pc' = "walk" /\ Walk(tree', arg', stack', out') /\ UNCHANGED <<Dict, Said>>
<1>1. pc = "walk" /\ tree' = tree /\ count' = count /\ Shape' /\ Grown'
  BY Kept DEF collect_values
<1>2. PICK ks : Listing(tree, arg, stack, ks) /\ out = [i \in 1 .. Len(ks) |-> tree[ks[i]]]
  BY DEF Walk
<1>3. /\ arg \in Keys /\ stack \in Seq(Entries) /\ Layered(stack)
      /\ \A i \in 1 .. Len(stack) : stack[i][1] \in Paths /\ Pre(arg, stack[i][1])
  BY DEF Walk, Paths
<1>4. CASE stack = <<>> /\ return(<<"matches", arg, out>>)
  <2>1. pc' = "ready" /\ reply' = <<"matches", arg, out>>
    BY <1>4 DEF return
  <2>2. Listing(tree, arg, <<>>, ks)
    BY <1>2, <1>4, Zenon
  <2>3. reply' = <<"matches", arg, [i \in 1 .. Len(ks) |-> tree[ks[i]]]>>
    BY <1>2, <2>1, Zenon
  <2>4. Map!Matches(arg)
    BY <1>1, <1>3, <2>1, <2>2, <2>3, ListMatches
  <2> QED BY <1>1, <1>3, <2>1, <2>4
<1>5. CASE /\ stack # <<>>
           /\ out' = IF tree[Top[1]] = NoValue THEN out ELSE Append(out, tree[Top[1]])
           /\ stack' = Pop \o Unvisited(Falling(Top[1]))
           /\ UNCHANGED <<pc, built, arg, reply>>
  <2> DEFINE t  == Top[1]
             u  == Unvisited(Falling(t))
             k2 == IF tree[t] = NoValue THEN ks ELSE Append(ks, t)
  <2>1. Len(stack) \in 1 .. Len(stack) /\ stack[Len(stack)][1] = t
    BY <1>3, <1>5, EmptySeq DEF Top
  <2>2. t \in Paths /\ t \in Strings /\ Pre(arg, t) /\ arg \in Strings
    BY <1>3, <2>1, TrieAssumption DEF Shape, Strings
  <2>3. Kids(t, u) /\ Falls(t, u) /\ u \in Seq(Entries)
    BY <2>2, KidsPushed DEF Kids
  <2>4. Popped(Entries, stack, u, stack')
    <3>1. stack' = SubSeq(stack, 1, Len(stack) - 1) \o u
      BY <1>5, Zenon DEF Pop
    <3> HIDE DEF u
    <3> QED BY <1>3, <1>5, <2>3, <3>1, PopPush, Zenon
  <2> HIDE DEF u
  <2>5. Layered(stack')
    <3> HIDE DEF t
    <3> QED BY <1>3, <1>5, <2>1, <2>2, <2>3, <2>4, LayersKept
  <2>6. Listing(tree, arg, stack', k2)
    <3> HIDE DEF t
    <3> QED BY <1>2, <1>3, <1>5, <2>1, <2>2, <2>3, <2>4, ListGrows DEF k2
  <2>7. out' = [i \in 1 .. Len(k2) |-> tree[k2[i]]]
    <3>1. CASE tree[t] = NoValue
      BY <1>2, <1>5, <3>1
    <3>2. CASE tree[t] # NoValue
      <4>1. out' = Append(out, tree[t]) /\ k2 = Append(ks, t)
        BY <1>5, <3>2
      <4>2. ks \in Seq(Found(tree, arg)) /\ t \in Found(tree, arg)
        BY <1>2, <2>2, <3>2 DEF Listing, Found, Paths
      <4> HIDE DEF k2, t
      <4>3. /\ Len(ks) \in Nat /\ Len(k2) = Len(ks) + 1 /\ k2[Len(ks) + 1] = t
            /\ \A i \in 1 .. Len(ks) : k2[i] = ks[i]
        BY <4>1, <4>2
      <4> DEFINE o == [i \in 1 .. Len(k2) |-> tree[k2[i]]]
                 m == Len(ks)
      <4>4. DOMAIN out = 1 .. m /\ Len(out) = m /\ \A i \in 1 .. m : out[i] = tree[ks[i]]
        BY <1>2, <4>3
      <4>5. /\ Append(out, tree[t]) = [i \in 1 .. m + 1 |-> IF i = m + 1 THEN tree[t] ELSE out[i]]
        BY <4>3, <4>4
      <4>6. \A i \in 1 .. m + 1 : tree[k2[i]] = IF i = m + 1 THEN tree[t] ELSE out[i]
        BY <4>3, <4>4
      <4> QED BY <4>1, <4>3, <4>5, <4>6, Zenon
    <3> QED BY <3>1, <3>2
  <2>8. \A i \in 1 .. Len(stack') : stack'[i][1] \in Paths /\ Pre(arg, stack'[i][1])
    <3> SUFFICES ASSUME NEW i \in 1 .. Len(stack')
                 PROVE  stack'[i][1] \in Paths /\ Pre(arg, stack'[i][1])
      OBVIOUS
    <3>1. CASE i \in 1 .. Len(stack) - 1
      <4>1. stack'[i] = stack[i] /\ i \in 1 .. Len(stack)
        BY <2>4, <3>1 DEF Popped
      <4> QED BY <1>3, <4>1
    <3>2. CASE \E j \in 1 .. Len(u) : stack'[i] = u[j]
      <4>1. PICK c \in Children(t) : stack'[i] = <<Append(t, c), FALSE>>
        BY <2>3, <3>2 DEF Kids
      <4> HIDE DEF t
      <4>2. c \in Chars /\ Append(t, c) \in Paths /\ stack'[i][1] = Append(t, c)
        BY <4>1 DEF Children
      <4>3. Append(t, c) \in Strings /\ Pre(t, Append(t, c))
        BY <2>2, <4>2, AppendString, PreOfChild
      <4> QED BY <2>2, <4>2, <4>3, PreTransitive
    <3> QED BY <2>4, <3>1, <3>2 DEF Popped
  <2>9. stack' \in Seq(Entries)
    BY <2>4 DEF Popped
  <2>10. arg' = arg /\ pc' = pc /\ reply' = reply
    BY <1>5
  <2>11. Walk(tree, arg, stack', out')
    <3> HIDE DEF k2
    <3> QED BY <1>3, <2>5, <2>6, <2>7, <2>8, <2>9, Zenon DEF Walk, Paths
  <2>12. Walk(tree', arg', stack', out')
    BY <1>1, <2>10, <2>11, Zenon
  <2>13. Dict' = Dict /\ Said' = Said
    BY <1>1, <2>10, DictKept DEF Said, Spoken
  <2> QED BY <1>1, <2>10, <2>12, <2>13
<1> QED BY <1>4, <1>5 DEF collect_values

----------------------------------------------------------------------------
(* Cloning: the post-order list                                            *)

\* The list o and the stack st hold different paths of the tree; the list
\* has every node after its children.
Once(T, st, o) ==
  /\ o \in Seq(DOMAIN T) /\ st \in Seq(Entries)
  /\ \A i \in 1 .. Len(st) : st[i][1] \in DOMAIN T
  /\ \A i, j \in 1 .. Len(o) : o[i] = o[j] => i = j
  /\ \A i, j \in 1 .. Len(st) : st[i][1] = st[j][1] => i = j
  /\ \A i \in 1 .. Len(st), j \in 1 .. Len(o) : st[i][1] # o[j]

Below(T, o) ==
  \A i \in 1 .. Len(o) : \A c \in Chars :
    Append(o[i], c) \in DOMAIN T => \E j \in 1 .. i - 1 : o[j] = Append(o[i], c)

\* A visited entry has its children in the list or above it; nothing else
\* that extends an unvisited entry is in the list or on the stack.
Opened(T, st, o) ==
  \A i \in 1 .. Len(st) : st[i][2] => \A c \in Chars : Append(st[i][1], c) \in DOMAIN T =>
    \/ \E j \in 1 .. Len(o) : o[j] = Append(st[i][1], c)
    \/ \E j \in i + 1 .. Len(st) : st[j][1] = Append(st[i][1], c)

Fresh(st, o) ==
  \A i \in 1 .. Len(st) : ~st[i][2] =>
    /\ \A j \in 1 .. Len(o) : ~Pre(st[i][1], o[j])
    /\ \A j \in 1 .. Len(st) : Pre(st[i][1], st[j][1]) => i = j

\* The root is at the bottom of the stack, and last in the list.
RootEnds(st, o) ==
  /\ Len(st) > 0 => st[1][1] = Root
  /\ Len(st) = 0 => Len(o) > 0 /\ o[Len(o)] = Root

Post(T, st, o) == Once(T, st, o) /\ Below(T, o) /\ Opened(T, st, o) /\ Fresh(st, o) /\ RootEnds(st, o)

\* s2 is st with its top t visited and u pushed.
Turned(st, t, u, s2) ==
  /\ s2 \in Seq(Entries) /\ Len(s2) = Len(st) + Len(u)
  /\ Len(st) \in Nat /\ Len(st) > 0 /\ Len(u) \in Nat
  /\ \A i \in 1 .. Len(st) - 1 : s2[i] = st[i]
  /\ s2[Len(st)] = <<t, TRUE>>
  /\ \A j \in 1 .. Len(u) : s2[Len(st) + j] = u[j]
  /\ \A i \in 1 .. Len(s2) : \/ i \in 1 .. Len(st)
                             \/ \E j \in 1 .. Len(u) : i = Len(st) + j /\ s2[i] = u[j]

\* The step of postOrder on an unvisited top.
LEMMA TurnTop ==
  ASSUME NEW st \in Seq(Entries), st # <<>>, NEW t \in Strings, NEW u \in Seq(Entries)
  PROVE  Turned(st, t, u, SubSeq(st, 1, Len(st) - 1) \o <<<<t, TRUE>>>> \o u)
<1> DEFINE e == <<t, TRUE>>
           w == <<e>>
           m == SubSeq(st, 1, Len(st) - 1) \o w
           s2 == m \o u
           n == Len(st)
<1>1. e \in Entries
  BY DEF Entries
<1> HIDE DEF e
<1>2. w \in Seq(Entries) /\ Len(w) = 1 /\ w[1] = e
  BY <1>1
<1> HIDE DEF w
<1>3. Popped(Entries, st, w, m)
  BY <1>2, PopPush, Zenon
<1> HIDE DEF m
<1>4. /\ m \in Seq(Entries) /\ Len(m) = n /\ n \in Nat /\ n > 0
      /\ \A i \in 1 .. n - 1 : m[i] = st[i]
      /\ m[n] = e
  BY <1>2, <1>3 DEF Popped
<1> HIDE DEF n
<1>5. s2 \in Seq(Entries) /\ Len(s2) = n + Len(u) /\ Len(u) \in Nat
  BY <1>4
<1>6. /\ \A i \in 1 .. n : s2[i] = m[i]
      /\ \A j \in 1 .. Len(u) : s2[n + j] = u[j]
  BY <1>4, <1>5
<1> HIDE DEF s2
<1>7. ASSUME NEW i \in 1 .. Len(s2), i \notin 1 .. n
      PROVE  \E j \in 1 .. Len(u) : i = n + j /\ s2[i] = u[j]
  <2> DEFINE j == i - n
  <2>1. j \in 1 .. Len(u) /\ i = n + j
    BY <1>4, <1>5, <1>7
  <2> HIDE DEF j
  <2> QED BY <1>6, <2>1
<1>8. s2[n] = e /\ \A i \in 1 .. n - 1 : s2[i] = st[i]
  BY <1>4, <1>6
<1>9. Turned(st, t, u, s2)
  BY <1>4, <1>5, <1>6, <1>7, <1>8 DEF Turned, e, n
<1> QED BY <1>9 DEF s2, m, w, e

\* The children of an unvisited top are pushed: they are new.
LEMMA PostTurns ==
  ASSUME Shape, NEW st, NEW o, Post(tree, st, o), Len(st) > 0, ~st[Len(st)][2],
         NEW t, t = st[Len(st)][1], NEW u, Kids(t, u), Falls(t, u), NEW s2, Turned(st, t, u, s2)
  PROVE  Post(tree, s2, o)
<1> DEFINE n == Len(st)
           m == Len(u)
<1>1. /\ s2 \in Seq(Entries) /\ Len(s2) = n + m
      /\ n \in Nat /\ n > 0 /\ m \in Nat
      /\ \A i \in 1 .. n - 1 : s2[i] = st[i]
      /\ s2[n] = <<t, TRUE>>
      /\ \A j \in 1 .. m : s2[n + j] = u[j]
      /\ \A i \in 1 .. Len(s2) : \/ i \in 1 .. n
                                 \/ \E j \in 1 .. m : i = n + j /\ s2[i] = u[j]
  BY DEF Turned
<1>2. /\ o \in Seq(Paths) /\ st \in Seq(Entries)
      /\ \A i \in 1 .. n : st[i][1] \in Paths
      /\ \A i, j \in 1 .. Len(o) : o[i] = o[j] => i = j
      /\ \A i, j \in 1 .. n : st[i][1] = st[j][1] => i = j
      /\ \A i \in 1 .. n, j \in 1 .. Len(o) : st[i][1] # o[j]
  BY DEF Post, Once, Paths
<1>3. /\ \A j \in 1 .. Len(o) : ~Pre(t, o[j])
      /\ \A j \in 1 .. n : Pre(t, st[j][1]) => j = n
  BY <1>1, <1>2 DEF Post, Fresh
<1>4. Len(o) \in Nat /\ \A j \in 1 .. Len(o) : o[j] \in Paths /\ o[j] \in Strings
  BY <1>2, LenProperties DEF Shape
<1>5. t \in Paths /\ t \in Strings /\ \A i \in 1 .. n : st[i][1] \in Strings
  BY <1>1, <1>2 DEF Shape
<1> HIDE DEF n, m
<1>6. \A i \in 1 .. n : s2[i][1] = st[i][1]
  <2> SUFFICES ASSUME NEW i \in 1 .. n PROVE s2[i][1] = st[i][1]
    OBVIOUS
  <2>1. CASE i = n
    BY <1>1, <2>1 DEF n
  <2>2. CASE i \in 1 .. n - 1
    BY <1>1, <2>2
  <2> QED BY <1>1, <2>1, <2>2
\* what is above is a child
<1>7. ASSUME NEW i \in 1 .. Len(s2), i \notin 1 .. n
      PROVE  \E c \in Children(t) : /\ c \in Chars /\ s2[i] = <<Append(t, c), FALSE>>
                                    /\ Append(t, c) \in Paths
  <2>1. PICK j \in 1 .. m : s2[i] = u[j]
    BY <1>1, <1>7
  <2>2. PICK c \in Children(t) : u[j] = <<Append(t, c), FALSE>>
    BY DEF Kids, m
  <2> QED BY <2>1, <2>2 DEF Children
<1>8. \A c \in Children(t) : c \in Chars => /\ Append(t, c) \in Strings /\ Pre(t, Append(t, c))
                                            /\ ~Pre(Append(t, c), t) /\ t # Append(t, c)
  BY <1>5, AppendString, PreOfChild
<1>9. ASSUME NEW i \in 1 .. Len(s2), NEW j \in 1 .. Len(s2), s2[i][1] = s2[j][1]
      PROVE  i = j
  <2>1. CASE i \in 1 .. n /\ j \in 1 .. n
    BY <1>2, <1>6, <1>9, <2>1
  <2>2. ASSUME NEW g \in 1 .. Len(s2), NEW h \in 1 .. n, g \notin 1 .. n PROVE s2[g][1] # s2[h][1]
    <3>1. PICK c \in Children(t) : c \in Chars /\ s2[g] = <<Append(t, c), FALSE>>
      BY <1>7, <2>2
    <3>2. s2[g][1] = Append(t, c) /\ Pre(t, s2[g][1]) /\ s2[g][1] # t
      BY <1>8, <3>1
    <3>3. ASSUME s2[h][1] = s2[g][1] PROVE FALSE
      <4>1. h = n
        BY <1>3, <1>6, <3>2, <3>3
      <4>2. s2[n][1] = t
        BY <1>1
      <4> QED BY <3>2, <3>3, <4>1, <4>2
    <3> QED BY <3>3
  <2>3. CASE i \notin 1 .. n /\ j \notin 1 .. n
    <3>1. PICK g \in 1 .. m : i = n + g /\ s2[i] = u[g]
      BY <1>1, <2>3
    <3>2. PICK h \in 1 .. m : j = n + h /\ s2[j] = u[h]
      BY <1>1, <2>3
    <3>3. \A x, y \in 1 .. m : x < y => u[x][1] # u[y][1]
      <4> SUFFICES ASSUME NEW x \in 1 .. m, NEW y \in 1 .. m, x < y PROVE u[x][1] # u[y][1]
        OBVIOUS
      <4>1. PICK c, d \in Children(t) : u[x] = <<Append(t, c), FALSE>> /\ u[y] = <<Append(t, d), FALSE>> /\ d < c
        BY DEF Falls, m
      <4>2. c \in Chars /\ d \in Chars /\ c \in Nat /\ d \in Nat
        BY TrieAssumption DEF Children
      <4>3. c # d
        BY <4>1, <4>2
      <4>4. Append(t, c) # Append(t, d)
        BY <1>5, <4>2, <4>3, AppendString
      <4>5. u[x][1] = Append(t, c) /\ u[y][1] = Append(t, d)
        BY <4>1
      <4> QED BY <4>4, <4>5
    <3>4. g = h
      BY <1>1, <1>9, <3>1, <3>2, <3>3
    <3> QED BY <3>1, <3>2, <3>4
  <2> QED BY <1>9, <2>1, <2>2, <2>3
<1>10. ASSUME NEW i \in 1 .. Len(s2), NEW j \in 1 .. Len(o) PROVE s2[i][1] # o[j]
  <2>1. CASE i \in 1 .. n
    BY <1>2, <1>6, <2>1
  <2>2. CASE i \notin 1 .. n
    <3>1. PICK c \in Children(t) : c \in Chars /\ s2[i] = <<Append(t, c), FALSE>>
      BY <1>7, <2>2
    <3>2. s2[i][1] = Append(t, c) /\ Pre(t, s2[i][1])
      BY <1>8, <3>1
    <3> QED BY <1>3, <3>2
  <2> QED BY <2>1, <2>2
<1>11. ASSUME NEW i \in 1 .. Len(s2) PROVE s2[i][1] \in Paths
  <2>1. CASE i \in 1 .. n
    BY <1>2, <1>6, <2>1
  <2>2. CASE i \notin 1 .. n
    <3>1. PICK c \in Children(t) : s2[i] = <<Append(t, c), FALSE>> /\ Append(t, c) \in Paths
      BY <1>7, <2>2
    <3>2. s2[i][1] = Append(t, c)
      BY <3>1
    <3> QED BY <3>1, <3>2
  <2> QED BY <2>1, <2>2
<1>12. Once(tree, s2, o)
  BY <1>1, <1>2, <1>9, <1>10, <1>11 DEF Once, Paths
<1>13. Opened(tree, s2, o)
  <2> SUFFICES ASSUME NEW i \in 1 .. Len(s2), s2[i][2],
                      NEW c \in Chars, Append(s2[i][1], c) \in Paths
               PROVE  \/ \E j \in 1 .. Len(o) : o[j] = Append(s2[i][1], c)
                      \/ \E j \in i + 1 .. Len(s2) : s2[j][1] = Append(s2[i][1], c)
    BY DEF Opened, Paths
  <2>1. i \in 1 .. n
    <3>1. SUFFICES ASSUME i \notin 1 .. n PROVE FALSE
      OBVIOUS
    <3>2. PICK d \in Children(t) : s2[i] = <<Append(t, d), FALSE>>
      BY <1>7, <3>1
    <3>3. s2[i][2] = FALSE
      BY <3>2
    <3> QED BY <3>3
  <2>2. CASE i = n
    <3>1. s2[i][1] = t
      BY <1>1, <2>2
    <3>2. c \in Children(t)
      BY <3>1 DEF Children
    <3>3. PICK j \in 1 .. m : u[j] = <<Append(t, c), FALSE>>
      BY <3>2 DEF Kids, m
    <3>4. n + j \in i + 1 .. Len(s2) /\ s2[n + j] = u[j]
      BY <1>1, <2>2
    <3>5. s2[n + j][1] = Append(t, c)
      BY <3>3, <3>4
    <3> QED BY <3>1, <3>4, <3>5
  <2>3. CASE i \in 1 .. n - 1
    <3>1. s2[i] = st[i] /\ i \in 1 .. n
      BY <1>1, <2>3
    <3>2. \/ \E j \in 1 .. Len(o) : o[j] = Append(st[i][1], c)
          \/ \E j \in i + 1 .. n : st[j][1] = Append(st[i][1], c)
      BY <3>1 DEF Post, Opened, Paths, n
    <3>3. \A j \in i + 1 .. n : j \in i + 1 .. Len(s2) /\ j \in 1 .. n
      BY <1>1, <2>3
    <3> QED BY <1>6, <3>1, <3>2, <3>3
  <2> QED BY <1>1, <2>1, <2>2, <2>3
<1>14. Fresh(s2, o)
  <2> SUFFICES ASSUME NEW i \in 1 .. Len(s2), ~s2[i][2]
               PROVE  /\ \A j \in 1 .. Len(o) : ~Pre(s2[i][1], o[j])
                      /\ \A j \in 1 .. Len(s2) : Pre(s2[i][1], s2[j][1]) => i = j
    BY DEF Fresh
  <2>1. CASE i \in 1 .. n
    <3>1. i # n
      <4>1. s2[n][2] = TRUE
        BY <1>1
      <4> QED BY <4>1
    <3>2. i \in 1 .. n - 1 /\ s2[i] = st[i]
      BY <1>1, <2>1, <3>1
    <3>3. /\ \A j \in 1 .. Len(o) : ~Pre(st[i][1], o[j])
          /\ \A j \in 1 .. n : Pre(st[i][1], st[j][1]) => i = j
      BY <2>1, <3>2 DEF Post, Fresh, n
    <3>4. ASSUME NEW j \in 1 .. Len(s2), Pre(s2[i][1], s2[j][1]) PROVE i = j
      <4>1. CASE j \in 1 .. n
        BY <1>6, <3>2, <3>3, <3>4, <4>1
      <4>2. CASE j \notin 1 .. n
        <5>1. PICK c \in Children(t) : c \in Chars /\ s2[j] = <<Append(t, c), FALSE>>
          BY <1>7, <4>2
        <5>2. s2[j][1] = Append(t, c) /\ Pre(st[i][1], Append(t, c)) /\ st[i][1] \in Strings
          BY <1>5, <2>1, <3>2, <3>4, <5>1
        <5>3. Pre(st[i][1], t) \/ st[i][1] = Append(t, c)
          BY <1>5, <5>1, <5>2, PreOfChild
        <5>4. ~Pre(st[i][1], t)
          BY <1>1, <3>1, <3>3 DEF n
        <5>5. st[i][1] # Append(t, c)
          BY <1>3, <1>8, <2>1, <3>1, <5>1
        <5> QED BY <5>3, <5>4, <5>5
      <4> QED BY <4>1, <4>2
    <3> QED BY <3>2, <3>3, <3>4
  <2>2. CASE i \notin 1 .. n
    <3>1. PICK c \in Children(t) : c \in Chars /\ s2[i] = <<Append(t, c), FALSE>>
      BY <1>7, <2>2
    <3>2. s2[i][1] = Append(t, c)
      BY <3>1
    <3>3. /\ Append(t, c) \in Strings /\ Pre(t, Append(t, c))
          /\ ~Pre(Append(t, c), t) /\ t # Append(t, c)
      BY <1>8, <3>1
    <3>4. \A j \in 1 .. Len(o) : ~Pre(Append(t, c), o[j])
      BY <1>3, <1>4, <1>5, <3>3, PreTransitive
    <3>5. ASSUME NEW j \in 1 .. Len(s2), Pre(Append(t, c), s2[j][1]) PROVE i = j
      <4>1. CASE j \in 1 .. n
        <5>1. Pre(t, st[j][1]) /\ s2[j][1] = st[j][1]
          BY <1>5, <1>6, <3>3, <3>5, <4>1, PreTransitive
        <5>2. j = n /\ st[j][1] = t
          BY <1>3, <4>1, <5>1 DEF n
        <5> QED BY <3>3, <3>5, <5>1, <5>2
      <4>2. CASE j \notin 1 .. n
        <5>1. PICK d \in Children(t) : d \in Chars /\ s2[j] = <<Append(t, d), FALSE>>
          BY <1>7, <4>2
        <5>2. s2[j][1] = Append(t, d)
          BY <5>1
        <5>3. c = d
          BY <1>5, <3>1, <3>5, <5>1, <5>2, PreOfChild
        <5> QED BY <1>9, <3>2, <5>2, <5>3
      <4> QED BY <4>1, <4>2
    <3> QED BY <3>2, <3>4, <3>5
  <2> QED BY <2>1, <2>2
<1>15. RootEnds(s2, o)
  <2>1. 1 \in 1 .. n /\ Len(s2) > 0 /\ st[1][1] = Root
    BY <1>1 DEF Post, RootEnds, n
  <2> QED BY <1>1, <1>6, <2>1 DEF RootEnds
<1>16. Below(tree, o)
  BY DEF Post
<1> QED BY <1>12, <1>13, <1>14, <1>15, <1>16 DEF Post

\* A visited top is listed, after its children.
LEMMA PostLists ==
  ASSUME Shape, NEW st, NEW o, Post(tree, st, o), Len(st) > 0, st[Len(st)][2]
  PROVE  Post(tree, SubSeq(st, 1, Len(st) - 1), Append(o, st[Len(st)][1]))
<1> DEFINE n == Len(st)
           t == st[n][1]
           k == Len(o)
           s2 == SubSeq(st, 1, n - 1)
           o2 == Append(o, t)
<1>1. /\ o \in Seq(Paths) /\ st \in Seq(Entries)
      /\ \A i \in 1 .. n : st[i][1] \in Paths
      /\ \A i, j \in 1 .. k : o[i] = o[j] => i = j
      /\ \A i, j \in 1 .. n : st[i][1] = st[j][1] => i = j
      /\ \A i \in 1 .. n, j \in 1 .. k : st[i][1] # o[j]
  BY DEF Post, Once, Paths
<1>2. n \in Nat /\ n > 0 /\ k \in Nat
  BY <1>1, LenProperties
<1>3. t \in Paths /\ n \in 1 .. n
  BY <1>1, <1>2
<1>4. s2 \in Seq(Entries) /\ Len(s2) = n - 1 /\ \A i \in 1 .. n - 1 : s2[i] = st[i]
  <2> DEFINE h == n - 1
             p == SubSeq(st, 1, h)
  <2>1. st \in Seq(Entries) /\ h \in Nat /\ Len(st) = h + 1
    BY <1>1, <1>2
  <2> HIDE DEF h, t, o2
  <2>2. p \in Seq(Entries) /\ Len(p) = h /\ \A i \in 1 .. h : p[i] = st[i]
    BY <2>1
  <2> QED BY <2>2, Zenon DEF h
<1> HIDE DEF s2, n, t
<1>5. /\ o2 \in Seq(Paths) /\ Len(o2) = k + 1 /\ o2[k + 1] = t
      /\ \A i \in 1 .. k : o2[i] = o[i]
  BY <1>1, <1>3
<1> HIDE DEF o2, k
<1>6. \A i \in 1 .. k + 1 : i \in 1 .. k \/ i = k + 1
  BY <1>2
<1>7. \A i \in 1 .. n - 1 : i \in 1 .. n /\ i # n
  BY <1>2
<1>8. st[n][1] = t
  BY DEF t
<1>9. Once(tree, s2, o2)
  <2>1. \A i \in 1 .. k : o2[i] # t
    BY <1>1, <1>3, <1>5, <1>8
  <2>2. \A i, j \in 1 .. k + 1 : o2[i] = o2[j] => i = j
    BY <1>1, <1>5, <1>6, <2>1
  <2>3. \A i, j \in 1 .. n - 1 : s2[i][1] = s2[j][1] => i = j
    BY <1>1, <1>4, <1>7
  <2>4. \A i \in 1 .. n - 1, j \in 1 .. k + 1 : s2[i][1] # o2[j]
    <3> SUFFICES ASSUME NEW i \in 1 .. n - 1, NEW j \in 1 .. k + 1 PROVE s2[i][1] # o2[j]
      OBVIOUS
    <3>1. s2[i] = st[i] /\ i \in 1 .. n /\ i # n
      BY <1>4, <1>7
    <3>2. CASE j \in 1 .. k
      BY <1>1, <1>5, <3>1, <3>2
    <3>3. CASE j = k + 1
      BY <1>1, <1>3, <1>5, <1>8, <3>1, <3>3
    <3> QED BY <1>6, <3>2, <3>3
  <2>5. \A i \in 1 .. n - 1 : s2[i][1] \in Paths
    BY <1>1, <1>4, <1>7
  <2> QED BY <1>4, <1>5, <2>2, <2>3, <2>4, <2>5 DEF Once, Paths
<1>10. Below(tree, o2)
  <2> SUFFICES ASSUME NEW i \in 1 .. k + 1, NEW c \in Chars, Append(o2[i], c) \in Paths
               PROVE  \E j \in 1 .. i - 1 : o2[j] = Append(o2[i], c)
    BY <1>5 DEF Below, Paths
  <2>1. CASE i \in 1 .. k
    <3>1. o2[i] = o[i]
      BY <1>5, <2>1
    <3>2. PICK j \in 1 .. i - 1 : o[j] = Append(o[i], c)
      BY <2>1, <3>1 DEF Post, Below, Paths, k
    <3>3. j \in 1 .. k
      BY <1>2, <2>1
    <3> QED BY <1>5, <3>1, <3>2, <3>3
  <2>2. CASE i = k + 1
    <3>1. Append(t, c) \in Paths
      BY <1>5, <2>2
    <3>2. \/ \E j \in 1 .. k : o[j] = Append(t, c)
          \/ \E j \in n + 1 .. n : st[j][1] = Append(t, c)
      BY <1>3, <3>1 DEF Post, Opened, Paths, k, n, t
    <3>3. PICK j \in 1 .. k : o[j] = Append(t, c)
      BY <1>2, <3>2
    <3>4. j \in 1 .. i - 1 /\ o2[j] = o[j]
      BY <1>2, <1>5, <2>2
    <3> QED BY <1>5, <2>2, <3>3, <3>4
  <2> QED BY <1>6, <2>1, <2>2
<1>11. Opened(tree, s2, o2)
  <2> SUFFICES ASSUME NEW i \in 1 .. Len(s2), s2[i][2],
                      NEW c \in Chars, Append(s2[i][1], c) \in Paths
               PROVE  \/ \E j \in 1 .. Len(o2) : o2[j] = Append(s2[i][1], c)
                      \/ \E j \in i + 1 .. Len(s2) : s2[j][1] = Append(s2[i][1], c)
    BY DEF Opened, Paths
  <2>0. i \in 1 .. n - 1 /\ Len(s2) = n - 1 /\ Len(o2) = k + 1
    BY <1>4, <1>5
  <2>1. s2[i] = st[i] /\ i \in 1 .. n
    BY <1>4, <1>7, <2>0
  <2>2. \/ \E j \in 1 .. k : o[j] = Append(st[i][1], c)
        \/ \E j \in i + 1 .. n : st[j][1] = Append(st[i][1], c)
    BY <2>1 DEF Post, Opened, Paths, k, n
  <2>3. CASE \E j \in 1 .. k : o[j] = Append(st[i][1], c)
    <3>1. PICK j \in 1 .. k : o[j] = Append(st[i][1], c)
      BY <2>3
    <3>2. j \in 1 .. Len(o2) /\ o2[j] = o[j]
      BY <1>2, <1>5
    <3> QED BY <2>1, <3>1, <3>2
  <2>4. CASE \E j \in i + 1 .. n : st[j][1] = Append(st[i][1], c)
    <3>1. PICK j \in i + 1 .. n : st[j][1] = Append(st[i][1], c)
      BY <2>4
    <3>2. CASE j = n
      <4>1. k + 1 \in 1 .. Len(o2) /\ o2[k + 1] = t
        BY <1>2, <1>5
      <4> QED BY <1>8, <2>1, <3>1, <3>2, <4>1
    <3>3. CASE j # n
      <4>1. j \in i + 1 .. Len(s2) /\ j \in 1 .. n - 1
        BY <1>2, <2>0, <3>3
      <4>2. s2[j] = st[j]
        BY <1>4, <4>1
      <4> QED BY <2>1, <3>1, <4>1, <4>2
    <3> QED BY <3>2, <3>3
  <2> QED BY <2>2, <2>3, <2>4
<1>12. Fresh(s2, o2)
  <2> SUFFICES ASSUME NEW i \in 1 .. n - 1, ~s2[i][2]
               PROVE  /\ \A j \in 1 .. k + 1 : ~Pre(s2[i][1], o2[j])
                      /\ \A j \in 1 .. n - 1 : Pre(s2[i][1], s2[j][1]) => i = j
    BY <1>4, <1>5 DEF Fresh
  <2>1. s2[i] = st[i] /\ i \in 1 .. n /\ i # n
    BY <1>4, <1>7
  <2>2. /\ \A j \in 1 .. k : ~Pre(st[i][1], o[j])
        /\ \A j \in 1 .. n : Pre(st[i][1], st[j][1]) => i = j
    BY <2>1 DEF Post, Fresh, k, n
  <2>3. \A j \in 1 .. k + 1 : ~Pre(st[i][1], o2[j])
    BY <1>3, <1>5, <1>6, <1>8, <2>1, <2>2
  <2>4. \A j \in 1 .. n - 1 : Pre(st[i][1], s2[j][1]) => i = j
    BY <1>4, <1>7, <2>2
  <2> QED BY <2>1, <2>3, <2>4
<1>13. RootEnds(s2, o2)
  <2>1. st[1][1] = Root
    BY <1>2 DEF Post, RootEnds, n
  <2>2. CASE n = 1
    <3>1. t = Root
      BY <1>8, <2>1, <2>2
    <3> QED BY <1>2, <1>4, <1>5, <2>2, <3>1 DEF RootEnds
  <2>3. CASE n # 1
    <3>1. 1 \in 1 .. n - 1
      BY <1>2, <2>3
    <3> QED BY <1>2, <1>4, <2>1, <2>3, <3>1 DEF RootEnds
  <2> QED BY <2>2, <2>3
<1>14. Post(tree, s2, o2)
  BY <1>9, <1>10, <1>11, <1>12, <1>13 DEF Post
<1> QED BY <1>14 DEF s2, o2, n, t

\* A clone begins with the root.
LEMMA CloneBegins ==
  ASSUME Shape, Grown, out = <<>>, built = <<>>, clone
  PROVE  /\ Shape' /\ Grown' /\ UNCHANGED <<Dict, Said>>
         /\ pc' = "post" /\ Post(tree', stack', out') /\ built' = <<>>
<1>1. /\ pc = "ready" /\ pc' = "post" /\ tree' = tree /\ count' = count
      /\ stack' = Unvisited(<<Root>>) /\ out' = <<>> /\ built' = <<>> /\ reply' = reply
  BY DEF clone
<1> DEFINE st == Unvisited(<<Root>>)
<1>2. Root \in Strings /\ Root \in Paths
  BY DEF Strings, Root, Shape
<1>3. st \in Seq(Entries) /\ Len(st) = 1 /\ st[1] = <<Root, FALSE>>
  BY <1>2, OneEntry
<1> HIDE DEF st
<1>4. PICK o : o = <<>>
  OBVIOUS
<1>5. o \in Seq(Paths) /\ Len(o) = 0
  BY <1>4
<1>6. st[1][1] = Root /\ st[1][2] = FALSE /\ \A i \in 1 .. 1 : i = 1
  BY <1>3
<1>7. Once(tree, st, o)
  BY <1>2, <1>3, <1>5, <1>6 DEF Once, Paths
<1>8. Below(tree, o) /\ Opened(tree, st, o) /\ Fresh(st, o) /\ RootEnds(st, o)
  <2>1. \A i \in 1 .. Len(st) : i = 1
    BY <1>3
  <2>2. \A i \in 1 .. Len(o) : FALSE
    BY <1>5
  <2>3. Below(tree, o) /\ Opened(tree, st, o)
    BY <1>6, <2>1, <2>2 DEF Below, Opened
  <2>4. Fresh(st, o)
    BY <2>1, <2>2 DEF Fresh
  <2>5. RootEnds(st, o)
    BY <1>3, <1>6 DEF RootEnds
  <2> QED BY <2>3, <2>4, <2>5
<1>9. Post(tree', stack', out')
  BY <1>1, <1>4, <1>7, <1>8, Zenon DEF Post, st
<1>10. Dict' = Dict /\ Said' = Said
  BY <1>1, DictKept DEF Said, Spoken
<1>11. Shape' /\ Grown'
  BY <1>1, Kept
<1> QED BY <1>1, <1>9, <1>10, <1>11

\* A step of the post-order pass, or its end.
LEMMA PostMaps ==
  ASSUME Shape, Grown, Post(tree, stack, out), built = <<>>, postOrder
  PROVE  /\ Shape' /\ Grown' /\ UNCHANGED <<Dict, Said>>
         /\ pc' \in {"post", "build"} /\ Post(tree', stack', out') /\ built' = <<>>
         /\ pc' = "build" => stack' = <<>>
<1>1. /\ pc = "post" /\ tree' = tree /\ count' = count /\ built' = <<>> /\ reply' = reply
      /\ Shape' /\ Grown'
  BY Kept DEF postOrder
<1>2. stack \in Seq(Entries) /\ Len(stack) \in Nat /\ (stack # <<>> => Len(stack) > 0)
  BY EmptySeq, LenProperties DEF Post, Once
<1>3. CASE stack = <<>> /\ pc' = "build" /\ UNCHANGED <<stack, out>>
  <2>1. Post(tree', stack', out')
    BY <1>1, <1>3
  <2>2. Dict' = Dict /\ Said' = Said
    BY <1>1, <1>3, DictKept DEF Said, Spoken
  <2> QED BY <1>1, <1>3, <2>1, <2>2
<1>4. CASE /\ stack # <<>> /\ Top[2]
           /\ out' = Append(out, Top[1]) /\ stack' = Pop /\ UNCHANGED pc
  <2>1. Post(tree, SubSeq(stack, 1, Len(stack) - 1), Append(out, stack[Len(stack)][1]))
    BY <1>2, <1>4, PostLists DEF Top
  <2>2. Post(tree', stack', out')
    BY <1>1, <1>4, <2>1, Zenon DEF Top, Pop
  <2>3. Dict' = Dict /\ Said' = Said
    BY <1>1, <1>4, DictKept DEF Said, Spoken
  <2> QED BY <1>1, <1>4, <2>2, <2>3
<1>5. CASE /\ stack # <<>> /\ ~Top[2]
           /\ stack' = Pop \o <<<<Top[1], TRUE>>>> \o Unvisited(Falling(Top[1]))
           /\ UNCHANGED <<pc, out>>
  <2> DEFINE t == Top[1]
             u == Unvisited(Falling(t))
  <2>1. t = stack[Len(stack)][1] /\ t \in Strings
    <3>1. Len(stack) \in 1 .. Len(stack)
      BY <1>2, <1>5
    <3> QED BY <1>2, <3>1 DEF Top, Post, Once, Paths, Shape
  <2>2. Kids(t, u) /\ Falls(t, u) /\ u \in Seq(Entries)
    BY <2>1, KidsPushed DEF Kids
  <2>3. stack' = SubSeq(stack, 1, Len(stack) - 1) \o <<<<t, TRUE>>>> \o u
    BY <1>5, Zenon DEF Pop
  <2> HIDE DEF u
  <2>4. ~stack[Len(stack)][2]
    BY <1>5 DEF Top
  <2> HIDE DEF t
  <2>5. Turned(stack, t, u, stack')
    BY <1>2, <1>5, <2>1, <2>2, <2>3, TurnTop, Zenon
  <2>6. Post(tree, stack', out)
    BY <1>2, <1>5, <2>1, <2>2, <2>4, <2>5, PostTurns
  <2>7. Post(tree', stack', out')
    BY <1>1, <1>5, <2>6, Zenon
  <2>8. Dict' = Dict /\ Said' = Said
    BY <1>1, <1>5, DictKept DEF Said, Spoken
  <2> QED BY <1>1, <1>5, <2>7, <2>8
<1> QED BY <1>3, <1>4, <1>5 DEF postOrder

----------------------------------------------------------------------------
(* Cloning: the copies                                                     *)

\* The part of the tree under p, its paths relative to p.
Sub(T, p) == [q \in {r \in Strings : p \o r \in DOMAIN T} |-> T[p \o q]]

\* A copy is complete until it is moved under its parent's.
Build(T, o, b) ==
  /\ o \in Seq(DOMAIN T) /\ \A i, j \in 1 .. Len(o) : o[i] = o[j] => i = j
  /\ Below(T, o)
  /\ Len(o) > 0 /\ o[Len(o)] = Root
  /\ \E S : b \in Seq(S)
  /\ Len(b) <= Len(o)
  /\ \A i \in 1 .. Len(b) : \/ b[i] = Sub(T, o[i])
                            \/ \E j \in 1 .. Len(b) : \E c \in Chars : o[i] = Append(o[j], c)

\* A string is empty or begins with a character.
LEMMA FirstCharacter ==
  ASSUME NEW p \in Strings, NEW q \in Strings, q # Root
  PROVE  /\ q[1] \in Chars /\ Tail(q) \in Strings
         /\ q = <<q[1]>> \o Tail(q)
         /\ Append(p, q[1]) \o Tail(q) = p \o q
         /\ Pre(Append(p, q[1]), p \o q) /\ p \o q \in Strings
<1>1. /\ Len(q) \in Nat /\ Len(p) \in Nat /\ \A i \in 1 .. Len(q) : q[i] \in Chars
      /\ p \in Seq(Chars) /\ q \in Seq(Chars)
  BY StringType DEF Strings
<1>2. Len(q) > 0
  BY <1>1, EmptySeq DEF Root
<1> DEFINE c == q[1]
           r == Tail(q)
<1>3. c \in Chars
  BY <1>1, <1>2
<1>4. r \in Seq(Chars) /\ Len(r) = Len(q) - 1 /\ \A i \in 1 .. Len(q) - 1 : r[i] = q[i + 1]
  BY <1>1, <1>2
<1> HIDE DEF c, r
<1> DEFINE a == <<c>> \o r
           b == Append(p, c) \o r
           d == p \o q
<1>5. /\ a \in Seq(Chars) /\ Len(a) = Len(q) /\ a[1] = c
      /\ \A i \in 2 .. Len(q) : a[i] = r[i - 1]
  BY <1>1, <1>2, <1>3, <1>4
<1>6. /\ Append(p, c) \in Seq(Chars) /\ Len(Append(p, c)) = Len(p) + 1
      /\ Append(p, c)[Len(p) + 1] = c /\ \A i \in 1 .. Len(p) : Append(p, c)[i] = p[i]
  BY <1>1, <1>3
<1>7. /\ b \in Seq(Chars) /\ Len(b) = Len(p) + Len(q)
      /\ \A i \in 1 .. Len(p) + 1 : b[i] = Append(p, c)[i]
      /\ \A i \in Len(p) + 2 .. Len(p) + Len(q) : b[i] = r[i - Len(p) - 1]
  <2> DEFINE x == Append(p, c)
  <2>1. x \in Seq(Chars) /\ Len(x) = Len(p) + 1
    BY <1>6
  <2> HIDE DEF x
  <2>6. x \in Seq(Chars) /\ r \in Seq(Chars)
    BY <1>4, <2>1
  <2>2. x \o r \in Seq(Chars) /\ Len(x \o r) = Len(x) + Len(r)
    BY <2>6
  <2>3. \A i \in 1 .. Len(x) + Len(r) : (x \o r)[i] = IF i <= Len(x) THEN x[i] ELSE r[i - Len(x)]
    BY <1>4, <2>1
  <2>4. \A i \in 1 .. Len(p) + 1 : (x \o r)[i] = x[i]
    BY <1>1, <1>2, <1>4, <2>1, <2>3
  <2>5. \A i \in Len(p) + 2 .. Len(p) + Len(q) : (x \o r)[i] = r[i - Len(p) - 1]
    <3> SUFFICES ASSUME NEW i \in Len(p) + 2 .. Len(p) + Len(q) PROVE (x \o r)[i] = r[i - Len(p) - 1]
      OBVIOUS
    <3>1. i \in 1 .. Len(x) + Len(r) /\ ~(i <= Len(x)) /\ i - Len(x) = i - Len(p) - 1
      BY <1>1, <1>2, <1>4, <2>1
    <3> QED BY <2>3, <3>1
  <2> QED BY <1>1, <1>2, <1>4, <2>1, <2>2, <2>4, <2>5 DEF x
<1>8. /\ d \in Seq(Chars) /\ Len(d) = Len(p) + Len(q)
      /\ \A i \in 1 .. Len(p) : d[i] = p[i]
      /\ \A i \in Len(p) + 1 .. Len(p) + Len(q) : d[i] = q[i - Len(p)]
  BY <1>1
<1> HIDE DEF a, b, d
<1>9. q = a
  <2>1. \A i \in 1 .. Len(q) : q[i] = a[i]
    <3> SUFFICES ASSUME NEW i \in 1 .. Len(q) PROVE q[i] = a[i]
      OBVIOUS
    <3>1. CASE i = 1
      BY <1>5, <3>1 DEF c
    <3>2. CASE i # 1
      <4>1. i \in 2 .. Len(q) /\ i - 1 \in 1 .. Len(q) - 1 /\ (i - 1) + 1 = i
        BY <1>1, <3>2
      <4> QED BY <1>4, <1>5, <4>1
    <3> QED BY <3>1, <3>2
  <2> QED BY <1>1, <1>5, <2>1, SameString DEF Strings
<1>10. b = d
  <2>1. \A i \in 1 .. Len(d) : b[i] = d[i]
    <3> SUFFICES ASSUME NEW i \in 1 .. Len(d) PROVE b[i] = d[i]
      OBVIOUS
    <3>0. i \in Nat /\ i > 0 /\ i <= Len(p) + Len(q)
      BY <1>1, <1>8
    <3>1. CASE i \in 1 .. Len(p)
      BY <1>1, <1>6, <1>7, <1>8, <3>1
    <3>2. CASE i = Len(p) + 1
      <4>1. i \in Len(p) + 1 .. Len(p) + Len(q) /\ i - Len(p) = 1 /\ i \in 1 .. Len(p) + 1
        BY <1>1, <1>2, <3>2
      <4> QED BY <1>6, <1>7, <1>8, <3>2, <4>1 DEF c
    <3>3. CASE i \in Len(p) + 2 .. Len(p) + Len(q)
      <4>1. /\ i \in Len(p) + 1 .. Len(p) + Len(q) /\ i - Len(p) - 1 \in 1 .. Len(q) - 1
            /\ (i - Len(p) - 1) + 1 = i - Len(p)
        BY <1>1, <1>2, <3>3
      <4>2. r[i - Len(p) - 1] = q[i - Len(p)]
        BY <1>4, <4>1
      <4> QED BY <1>7, <1>8, <3>3, <4>1, <4>2
    <3> QED BY <1>1, <3>0, <3>1, <3>2, <3>3
  <2> QED BY <1>7, <1>8, <2>1, SameString DEF Strings
<1>11. Pre(Append(p, c), d) /\ d \in Strings
  <2>1. Len(p) + 1 <= Len(p) + Len(q)
    BY <1>1, <1>2
  <2> QED BY <1>1, <1>6, <1>7, <1>8, <1>10, <2>1 DEF Pre, Strings
<1> QED BY <1>3, <1>4, <1>9, <1>10, <1>11 DEF a, b, d, c, r, Strings

\* The other way round.
LEMMA CharacterFirst ==
  ASSUME NEW c \in Chars, NEW r \in Strings
  PROVE  LET q == <<c>> \o r
         IN  q \in Strings /\ q # Root /\ q[1] = c /\ Tail(q) = r
<1> DEFINE q == <<c>> \o r
<1>1. r \in Seq(Chars) /\ Len(r) \in Nat
  BY DEF Strings
<1>2. /\ q \in Seq(Chars) /\ Len(q) = Len(r) + 1 /\ q[1] = c
      /\ \A i \in 1 .. Len(r) : q[i + 1] = r[i]
  BY <1>1
<1> HIDE DEF q
<1>3. q # Root
  <2>1. Len(Root) = 0
    BY DEF Root
  <2> QED BY <1>1, <1>2, <2>1
<1>4. /\ Tail(q) \in Seq(Chars) /\ Len(Tail(q)) = Len(r)
      /\ \A i \in 1 .. Len(r) : Tail(q)[i] = q[i + 1]
  BY <1>1, <1>2
<1>5. \A i \in 1 .. Len(r) : Tail(q)[i] = r[i]
  BY <1>2, <1>4
<1> DEFINE t == Tail(q)
<1>6. t = r
  <2>1. t \in Strings /\ Len(t) = Len(r) /\ \A i \in 1 .. Len(t) : t[i] = r[i]
    BY <1>4, <1>5 DEF Strings
  <2> HIDE DEF t
  <2> QED BY <2>1, SameString
<1> QED BY <1>2, <1>3, <1>6 DEF q, Strings

\* The root and the copies of the children make the copy of a node.
LEMMA CopyOfNode ==
  ASSUME Shape, Grown, NEW p \in Paths, NEW B, \A c \in Children(p) : B[c] = Sub(tree, Append(p, c))
  PROVE  [q \in {Root} \cup UNION {{<<c>> \o r : r \in DOMAIN B[c]} : c \in Children(p)} |->
            IF q = Root THEN tree[p] ELSE B[q[1]][Tail(q)]] = Sub(tree, p)
<1> DEFINE U == UNION {{<<c>> \o r : r \in DOMAIN B[c]} : c \in Children(p)}
           D == {r \in Strings : p \o r \in Paths}
           copy(q) == IF q = Root THEN tree[p] ELSE B[q[1]][Tail(q)]
<1>1. p \in Strings /\ Root \in Strings
  BY DEF Shape, Strings, Root
<1>2. p \o Root = p
  BY <1>1 DEF Strings, Root
<1>3. \A q : q \in U <=> \E c \in Children(p) : \E r \in DOMAIN B[c] : q = <<c>> \o r
  <2> DEFINE W(c) == {<<c>> \o r : r \in DOMAIN B[c]}
  <2>1. \A c, q : q \in W(c) <=> \E r \in DOMAIN B[c] : q = <<c>> \o r
    BY Zenon
  <2>2. U = UNION {W(c) : c \in Children(p)}
    BY Zenon
  <2> HIDE DEF W, U
  <2>3. \A q : q \in U <=> \E c \in Children(p) : q \in W(c)
    BY <2>2
  <2> SUFFICES ASSUME NEW q PROVE q \in U <=> \E c \in Children(p) : \E r \in DOMAIN B[c] : q = <<c>> \o r
    OBVIOUS
  <2>4. q \in U <=> \E c \in Children(p) : q \in W(c)
    BY <2>3, Zenon
  <2>5. \A c : q \in W(c) <=> \E r \in DOMAIN B[c] : q = <<c>> \o r
    BY <2>1, Zenon
  <2> QED BY <2>4, <2>5, Zenon
<1> HIDE DEF U
<1>4. \A q : q \in D <=> q \in Strings /\ p \o q \in Paths
  BY Zenon
<1> HIDE DEF D
<1>5. ASSUME NEW x \in Strings
      PROVE  /\ \A r : r \in DOMAIN Sub(tree, x) <=> r \in Strings /\ x \o r \in Paths
             /\ \A r \in DOMAIN Sub(tree, x) : Sub(tree, x)[r] = tree[x \o r]
  BY Zenon DEF Sub, Paths
<1>6. ASSUME NEW c \in Children(p)
      PROVE  c \in Chars /\ Append(p, c) \in Strings
  BY <1>1, AppendString DEF Children
<1>7. ASSUME NEW q \in Strings, q # Root, p \o q \in Paths
      PROVE  /\ q[1] \in Children(p) /\ Tail(q) \in DOMAIN B[q[1]] /\ q = <<q[1]>> \o Tail(q)
             /\ B[q[1]][Tail(q)] = tree[p \o q]
  <2>1. /\ q[1] \in Chars /\ Tail(q) \in Strings
        /\ q = <<q[1]>> \o Tail(q)
        /\ Append(p, q[1]) \o Tail(q) = p \o q
        /\ Pre(Append(p, q[1]), p \o q)
    BY <1>1, <1>7, FirstCharacter
  <2> DEFINE c == q[1]
             r == Tail(q)
             a == Append(p, c)
  <2> HIDE DEF c, r
  <2>2. a \in Strings
    BY <1>1, <2>1, AppendString DEF c
  <2>3. a \in Paths
    BY <1>7, <2>1, <2>2 DEF Grown, c
  <2>4. c \in Children(p)
    BY <2>1, <2>3 DEF Children, c
  <2>5. B[c] = Sub(tree, a)
    BY <2>4
  <2>6. r \in Strings /\ a \o r = p \o q
    BY <2>1 DEF c, r
  <2> HIDE DEF a
  <2>7. r \in DOMAIN B[c] /\ B[c][r] = tree[p \o q]
    BY <1>5, <1>7, <2>2, <2>5, <2>6
  <2> QED BY <2>1, <2>4, <2>7 DEF c, r
<1>8. ASSUME NEW c \in Children(p), NEW r \in DOMAIN B[c]
      PROVE  <<c>> \o r \in Strings /\ p \o (<<c>> \o r) \in Paths /\ <<c>> \o r # Root
  <2> DEFINE q == <<c>> \o r
             a == Append(p, c)
  <2>1. B[c] = Sub(tree, a) /\ a \in Strings /\ c \in Chars
    BY <1>6
  <2> HIDE DEF a
  <2>2. r \in Strings /\ a \o r \in Paths
    BY <1>5, <1>8, <2>1
  <2>3. q \in Strings /\ q # Root /\ q[1] = c /\ Tail(q) = r
    BY <2>1, <2>2, CharacterFirst
  <2> HIDE DEF q
  <2>4. Append(p, q[1]) \o Tail(q) = p \o q
    BY <1>1, <2>3, FirstCharacter
  <2>5. p \o q \in Paths
    BY <2>2, <2>3, <2>4 DEF a
  <2> QED BY <2>3, <2>5 DEF q
<1>9. {Root} \cup U = D
  <2>1. ASSUME NEW q \in D PROVE q \in {Root} \cup U
    <3>1. q \in Strings /\ p \o q \in Paths
      BY <1>4
    <3>2. CASE q # Root
      BY <1>3, <1>7, <3>1, <3>2
    <3> QED BY <3>2
  <2>2. ASSUME NEW q \in U PROVE q \in D
    <3>1. PICK c \in Children(p) : \E r \in DOMAIN B[c] : q = <<c>> \o r
      BY <1>3
    <3>2. PICK r \in DOMAIN B[c] : q = <<c>> \o r
      BY <3>1
    <3>3. q \in Strings /\ p \o q \in Paths
      BY <1>8, <3>2, Zenon
    <3> QED BY <1>4, <3>3
  <2>3. Root \in D
    BY <1>1, <1>2, <1>4
  <2> QED BY <2>1, <2>2, <2>3
<1>10. ASSUME NEW q \in D PROVE copy(q) = tree[p \o q]
  <2>1. q \in Strings /\ p \o q \in Paths
    BY <1>4
  <2>2. CASE q = Root
    BY <1>2, <2>2
  <2>3. CASE q # Root
    BY <1>7, <2>1, <2>3
  <2> QED BY <2>2, <2>3
<1>11. Sub(tree, p) = [q \in D |-> tree[p \o q]]
  BY Zenon DEF Sub, D, Paths
<1>12. [q \in D |-> copy(q)] = [q \in D |-> tree[p \o q]]
  BY <1>10, Zenon
<1>13. [q \in {Root} \cup U |-> copy(q)] = Sub(tree, p)
  BY <1>9, <1>11, <1>12, Zenon
<1> QED BY <1>13, Zenon DEF U

\* The first pass done, the second begins.
LEMMA BuildBegins ==
  ASSUME NEW st, NEW o, NEW b, Post(tree, st, o), st = <<>>, b = <<>>
  PROVE  Build(tree, o, b)
<1>1. Len(st) = 0 /\ Len(b) = 0
  OBVIOUS
<1>2. Len(o) > 0 /\ o[Len(o)] = Root
  BY <1>1 DEF Post, RootEnds
<1>3. b \in Seq({})
  OBVIOUS
<1>4. Len(o) \in Nat
  BY LenProperties DEF Post, Once
<1> QED BY <1>1, <1>2, <1>3, <1>4 DEF Build, Post, Once

\* The copies with the next node's, the copies of its children moved under it.
Copied(o, b) ==
  LET src     == o[Len(b) + 1]
      addr(p) == CHOOSE i \in DOMAIN b : o[i] = p
      kids    == {addr(Append(src, c)) : c \in Children(src)}
      below(c) == {<<c>> \o q : q \in DOMAIN b[addr(Append(src, c))]}
      copy == [q \in {Root} \cup UNION {below(c) : c \in Children(src)} |->
                 IF q = Root THEN tree[src]
                 ELSE b[addr(Append(src, q[1]))][Tail(q)]]
  IN  Append([i \in DOMAIN b |-> IF i \in kids THEN new ELSE b[i]], copy)

\* The next node is copied.
LEMMA CopyStep ==
  ASSUME Shape, Grown, NEW o, NEW b, Build(tree, o, b), Len(b) < Len(o)
  PROVE  Build(tree, o, Copied(o, b))
<1> DEFINE m == Len(b)
           n == Len(o)
           src == o[m + 1]
           addr(p) == CHOOSE i \in DOMAIN b : o[i] = p
           kids    == {addr(Append(src, c)) : c \in Children(src)}
           below(c) == {<<c>> \o q : q \in DOMAIN b[addr(Append(src, c))]}
           copy == [q \in {Root} \cup UNION {below(c) : c \in Children(src)} |->
                      IF q = Root THEN tree[src]
                      ELSE b[addr(Append(src, q[1]))][Tail(q)]]
           moved == [i \in DOMAIN b |-> IF i \in kids THEN new ELSE b[i]]
           b2 == Append(moved, copy)
<1>1. /\ o \in Seq(Paths) /\ n \in Nat /\ \A i, j \in 1 .. n : o[i] = o[j] => i = j
      /\ n > 0 /\ o[n] = Root /\ m <= n
  BY LenProperties DEF Build, Paths
<1>2. PICK S : b \in Seq(S)
  BY DEF Build
<1>3. m \in Nat /\ DOMAIN b = 1 .. m /\ \A i \in 1 .. m : b[i] \in S
  BY <1>2
<1>4. /\ \A i \in 1 .. n : o[i] \in Paths /\ o[i] \in Strings
      /\ m + 1 \in 1 .. n /\ \A i \in 1 .. m : i \in 1 .. n /\ i # m + 1
  BY <1>1, <1>3 DEF Shape
<1>5. src \in Paths /\ src \in Strings /\ \A i \in 1 .. m : o[i] # src
  BY <1>1, <1>4
<1>6. ASSUME NEW i \in 1 .. n, NEW c \in Chars, Append(o[i], c) \in Paths
      PROVE  \E j \in 1 .. i - 1 : o[j] = Append(o[i], c)
  BY <1>6 DEF Build, Below, Paths
<1>7. ASSUME NEW i \in 1 .. m
      PROVE  b[i] = Sub(tree, o[i]) \/ \E j \in 1 .. m : \E c \in Chars : o[i] = Append(o[j], c)
  BY DEF Build
\* the place of a child's copy
<1>8. ASSUME NEW c \in Children(src)
      PROVE  LET i == addr(Append(src, c))
             IN  i \in 1 .. m /\ o[i] = Append(src, c) /\ b[i] = Sub(tree, Append(src, c))
  <2> DEFINE a == Append(src, c)
             i == addr(a)
  <2>1. c \in Chars /\ a \in Paths
    BY DEF Children
  <2>2. \E j \in 1 .. m : o[j] = a
    <3>1. PICK j \in 1 .. (m + 1) - 1 : o[j] = a
      BY <1>4, <1>6, <2>1
    <3>2. j \in 1 .. m
      BY <1>3
    <3> QED BY <3>1, <3>2
  <2>3. i = CHOOSE j \in 1 .. m : o[j] = a
    BY <1>3, Zenon
  <2> HIDE DEF i
  <2>4. i \in 1 .. m /\ o[i] = a
    BY <2>2, <2>3, Zenon
  <2>5. ASSUME NEW j \in 1 .. m, NEW d \in Chars, o[i] = Append(o[j], d) PROVE FALSE
    <3>1. Append(o[j], d) = Append(src, c) /\ o[j] \in Strings
      BY <1>4, <2>4, <2>5
    <3> HIDE DEF src
    <3>2. o[j] = src
      <4>1. o[j] \in Seq(Chars) /\ src \in Seq(Chars)
        BY <1>5, <3>1 DEF Strings
      <4> QED BY <2>1, <3>1, <4>1, AppendInjective
    <3> QED BY <1>5, <3>2
  <2>6. b[i] = Sub(tree, a)
    BY <1>7, <2>4, <2>5
  <2> QED BY <2>4, <2>6 DEF i
<1> HIDE DEF addr, src, m, n
<1> DEFINE B == [c \in Children(src) |-> b[addr(Append(src, c))]]
<1>9. \A c \in Children(src) : B[c] = b[addr(Append(src, c))] /\ B[c] = Sub(tree, Append(src, c))
  BY <1>8
<1> HIDE DEF B
<1>10. copy = Sub(tree, src)
  <2> DEFINE cop2 == [q \in {Root} \cup UNION {{<<c>> \o r : r \in DOMAIN B[c]} : c \in Children(src)} |->
                        IF q = Root THEN tree[src] ELSE B[q[1]][Tail(q)]]
             U == UNION {below(c) : c \in Children(src)}
             V == UNION {{<<c>> \o r : r \in DOMAIN B[c]} : c \in Children(src)}
             C == {Root} \cup U
  <2>1. cop2 = Sub(tree, src)
    BY <1>5, <1>9, CopyOfNode, Zenon
  <2>2. \A c \in Children(src) : below(c) = {<<c>> \o r : r \in DOMAIN B[c]}
    BY <1>9, Zenon
  <2>3. {below(c) : c \in Children(src)} = {{<<c>> \o r : r \in DOMAIN B[c]} : c \in Children(src)}
    <3> DEFINE Z(c) == {<<c>> \o r : r \in DOMAIN B[c]}
               X == {below(c) : c \in Children(src)}
               Y == {Z(c) : c \in Children(src)}
    <3>1. \A x : x \in X <=> \E c \in Children(src) : x = below(c)
      BY Zenon
    <3>2. \A x : x \in Y <=> \E c \in Children(src) : x = Z(c)
      BY Zenon
    <3>5. \A c \in Children(src) : below(c) = Z(c)
      BY <2>2, Zenon
    <3> HIDE DEF X, Y, below, Z
    <3>3. \A x : x \in X <=> x \in Y
      BY <3>1, <3>2, <3>5
    <3>4. X = Y
      BY <3>3
    <3> QED BY <3>4, Zenon DEF X, Y, Z
  <2>4. U = V
    BY <2>3, Zenon
  <2>5. \A q \in U : q # Root => q[1] \in Children(src)
    <3> SUFFICES ASSUME NEW q \in V PROVE q[1] \in Children(src)
      BY <2>4
    <3>1. PICK c \in Children(src) : q \in {<<c>> \o r : r \in DOMAIN B[c]}
      OBVIOUS
    <3>2. PICK r \in DOMAIN B[c] : q = <<c>> \o r
      BY <3>1
    <3>3. c \in Chars /\ r \in Strings
      <4>1. B[c] = Sub(tree, Append(src, c))
        BY <1>9
      <4>2. r \in DOMAIN Sub(tree, Append(src, c))
        BY <4>1
      <4>3. DOMAIN Sub(tree, Append(src, c)) \subseteq Strings
        BY DEF Sub
      <4> QED BY <4>2, <4>3 DEF Children
    <3>4. q[1] = c
      BY <3>2, <3>3, CharacterFirst
    <3> QED BY <3>4
  <2> HIDE DEF U, V
  <2>6. \A q \in C : (IF q = Root THEN tree[src] ELSE b[addr(Append(src, q[1]))][Tail(q)])
                     = IF q = Root THEN tree[src] ELSE B[q[1]][Tail(q)]
    <3> TAKE q \in C
    <3>1. CASE q = Root
      BY <3>1, Zenon
    <3>2. CASE q # Root
      <4>1. q[1] \in Children(src)
        BY <2>5, <3>2
      <4>2. B[q[1]] = b[addr(Append(src, q[1]))]
        BY <1>9, <4>1
      <4> QED BY <3>2, <4>2
    <3> QED BY <3>1, <3>2
  <2>7. copy = [q \in C |-> IF q = Root THEN tree[src] ELSE b[addr(Append(src, q[1]))][Tail(q)]]
    BY Zenon DEF U
  <2>8. cop2 = [q \in C |-> IF q = Root THEN tree[src] ELSE B[q[1]][Tail(q)]]
    BY <2>4, Zenon DEF V
  <2>9. copy = cop2
    BY <2>6, <2>7, <2>8, Zenon
  <2> QED BY <2>1, <2>9, Zenon
<1> HIDE DEF copy
<1>11. \A i \in 1 .. m : i \in kids => \E c \in Chars : o[i] = Append(src, c)
  <2> SUFFICES ASSUME NEW i \in 1 .. m, i \in kids PROVE \E c \in Chars : o[i] = Append(src, c)
    OBVIOUS
  <2>1. PICK c \in Children(src) : i = addr(Append(src, c))
    BY Zenon
  <2>2. o[i] = Append(src, c)
    BY <1>8, <2>1
  <2> QED BY <2>2 DEF Children
<1> HIDE DEF kids
<1> DEFINE S2 == S \cup {new, copy}
<1>12. moved \in Seq(S2) /\ Len(moved) = m /\ \A i \in 1 .. m : i \notin kids => moved[i] = b[i]
  <2>1. moved \in [1 .. m -> S2]
    BY <1>3
  <2>2. \A i \in 1 .. m : i \notin kids => moved[i] = b[i]
    BY <1>3
  <2> HIDE DEF moved, S2
  <2> QED BY <1>3, <2>1, <2>2, SeqOfFunction
<1>13. copy \in S2
  OBVIOUS
<1> HIDE DEF moved, S2
<1>14. /\ b2 \in Seq(S2) /\ Len(b2) = m + 1 /\ b2[m + 1] = copy
       /\ \A i \in 1 .. m : i \notin kids => b2[i] = b[i]
  BY <1>3, <1>12, <1>13
<1> HIDE DEF b2
<1>15. ASSUME NEW i \in 1 .. m + 1
       PROVE  b2[i] = Sub(tree, o[i]) \/ \E j \in 1 .. m + 1 : \E c \in Chars : o[i] = Append(o[j], c)
  <2>1. CASE i = m + 1
    BY <1>10, <1>14, <2>1 DEF src
  <2>2. CASE i \in 1 .. m /\ i \in kids
    <3>1. m + 1 \in 1 .. m + 1
      BY <1>3
    <3> QED BY <1>11, <2>2, <3>1 DEF src
  <2>3. CASE i \in 1 .. m /\ i \notin kids
    <3>1. b2[i] = b[i]
      BY <1>14, <2>3
    <3>2. \A j \in 1 .. m : j \in 1 .. m + 1
      BY <1>3
    <3> QED BY <1>7, <2>3, <3>1, <3>2
  <2> QED BY <1>3, <2>1, <2>2, <2>3
<1>16. Len(b2) <= Len(o)
  BY <1>1, <1>3, <1>4, <1>14 DEF n
<1>17. Build(tree, o, b2)
  <2>1. \E X : b2 \in Seq(X)
    BY <1>14
  <2>2. \A i \in 1 .. Len(b2) : \/ b2[i] = Sub(tree, o[i])
                                \/ \E j \in 1 .. Len(b2) : \E c \in Chars : o[i] = Append(o[j], c)
    BY <1>14, <1>15
  <2> QED BY <1>16, <2>1, <2>2 DEF Build
<1>18. Copied(o, b) = b2
  BY Zenon DEF Copied, b2, moved, kids, copy, addr, src, m
<1> QED BY <1>17, <1>18

\* The last copy is the whole tree.
LEMMA LastCopy ==
  ASSUME Shape, NEW o, NEW b, Build(tree, o, b), Len(b) = Len(o)
  PROVE  b[Len(b)] = tree
<1> DEFINE n == Len(b)
<1>1. /\ n > 0 /\ o[n] = Root /\ n \in Nat
      /\ \A i \in 1 .. n : o[i] \in Paths
      /\ \A i \in 1 .. n : b[i] = Sub(tree, o[i]) \/ \E j \in 1 .. n : \E c \in Chars : o[i] = Append(o[j], c)
  BY LenProperties DEF Build, Paths
<1> HIDE DEF n
<1>2. \A j \in 1 .. n : \A c \in Chars : Append(o[j], c) # Root
  <2> SUFFICES ASSUME NEW j \in 1 .. n, NEW c \in Chars PROVE Append(o[j], c) # Root
    OBVIOUS
  <2>1. o[j] \in Strings
    BY <1>1 DEF Shape
  <2>2. Len(Append(o[j], c)) = Len(o[j]) + 1 /\ Len(o[j]) \in Nat /\ Len(Root) = 0
    BY <2>1, AppendString, StringType DEF Root
  <2> DEFINE a == Append(o[j], c)
  <2>3. Len(a) = Len(o[j]) + 1
    BY <2>2
  <2> HIDE DEF a
  <2>4. a # Root
    BY <2>2, <2>3
  <2> QED BY <2>4 DEF a
<1>3. b[n] = Sub(tree, Root)
  <2>1. n \in 1 .. n
    BY <1>1
  <2>2. \A j \in 1 .. n : \A c \in Chars : o[n] # Append(o[j], c)
    BY <1>1, <1>2
  <2> QED BY <1>1, <2>1, <2>2
<1>4. \A q \in Strings : Root \o q = q
  BY DEF Strings, Root
<1>5. {r \in Strings : Root \o r \in DOMAIN tree} = Paths
  BY <1>4 DEF Paths, Shape
<1>6. Sub(tree, Root) = [q \in Paths |-> tree[Root \o q]]
  BY <1>5, Zenon DEF Sub
<1>7. \A q \in Paths : tree[Root \o q] = tree[q]
  BY <1>4 DEF Shape
<1>8. Sub(tree, Root) = [q \in Paths |-> tree[q]]
  BY <1>6, <1>7, Zenon
<1>9. tree = [q \in Paths |-> tree[q]]
  BY Zenon DEF Shape
<1> QED BY <1>3, <1>8, <1>9 DEF n

\* A step of the second pass, or the end of the clone.
LEMMA BuildMaps ==
  ASSUME Shape, Grown, Build(tree, out, built), buildCopy
  PROVE  /\ Shape' /\ Grown'
         /\ \/ pc' = "ready" /\ Map!Clone
            \/ pc' = "build" /\ Build(tree', out', built') /\ UNCHANGED <<Dict, Said>>
<1>1. pc = "build" /\ tree' = tree /\ count' = count /\ Shape' /\ Grown'
  BY Kept DEF buildCopy
<1>2. CASE /\ Len(built) = Len(out)
           /\ return(<<"cloned", built[Len(built)], count>>)
  <2>1. pc' = "ready" /\ reply' = <<"cloned", tree, count>>
    BY <1>2, LastCopy DEF return
  <2>2. Dict' = Dict /\ Dict = [k \in StoredKeys |-> tree[k]] /\ DOMAIN Dict = StoredKeys
    BY <1>1, <2>1, DictKept, DictOfTree
  <2>3. Said' = Spoken(reply')
    BY <2>1 DEF Said, Spoken
  <2>4. /\ reply'[1] = "cloned" /\ reply'[2] = tree /\ reply'[3] = count
    BY <2>1
  <2>5. Spoken(reply') = <<"cloned", [k \in {p \in DOMAIN tree : tree[p] # NoValue} |-> tree[k]], count>>
    BY <2>4, Zenon DEF Spoken
  <2>6. [k \in {p \in DOMAIN tree : tree[p] # NoValue} |-> tree[k]] = Dict
    BY <2>2, Zenon DEF StoredKeys, Paths
  <2>7. count = Map!Cardinality(Map!Stored)
    BY <2>2, SameCardinality, Zenon DEF Grown, Map!Stored
  <2>8. Map!Clone
    BY <2>2, <2>3, <2>5, <2>6, <2>7, Zenon DEF Map!Clone
  <2> QED BY <1>1, <2>1, <2>8
<1>3. CASE /\ Len(built) < Len(out)
           /\ built' = Copied(out, built)
           /\ UNCHANGED <<pc, stack, out, arg, reply>>
  <2>1. Build(tree, out, built')
    BY <1>3, CopyStep
  <2>2. Build(tree', out', built')
    BY <1>1, <1>3, <2>1, Zenon
  <2>3. Dict' = Dict /\ Said' = Said
    BY <1>1, <1>3, DictKept DEF Said, Spoken
  <2> QED BY <1>1, <1>3, <2>2, <2>3
<1> QED BY <1>2, <1>3, Zenon DEF buildCopy, Copied

----------------------------------------------------------------------------
(* The refinement                                                          *)

TrieInv ==
  /\ Shape
  /\ pc \in {"ready", "walk", "post", "build", "drop"}
  /\ pc # "drop" => Grown
  /\ pc = "ready" => out = <<>> /\ built = <<>>
  /\ pc = "walk" => Walk(tree, arg, stack, out)
  /\ pc = "post" => Post(tree, stack, out) /\ built = <<>>
  /\ pc = "build" => Build(tree, out, built)
  /\ pc = "drop" => Dropping

\* A new trie is the empty map.
LEMMA TrieBegins ==
  TrieInit => TrieInv /\ Map!Init
<1> SUFFICES ASSUME TrieInit PROVE TrieInv /\ Map!Init
  OBVIOUS
<1>1. /\ tree = [p \in {Root} |-> NoValue] /\ count = 0 /\ pc = "ready"
      /\ out = <<>> /\ built = <<>> /\ reply = <<"new">>
  BY DEF TrieInit, new
<1>2. Paths = {Root} /\ tree[Root] = NoValue /\ tree \in [Paths -> Values \cup {NoValue}]
  BY <1>1 DEF Paths
<1>3. Root \in Strings
  BY DEF Root, Strings
<1>4. Shape
  BY <1>2, <1>3, FS_Singleton DEF Shape
<1>5. StoredKeys = {}
  BY <1>2 DEF StoredKeys
<1>6. Grown
  <2>1. ASSUME NEW q \in Strings, Pre(q, Root) PROVE q = Root
    <3>1. Len(q) = 0
      BY <2>1, StringType DEF Pre, Root
    <3> QED BY <1>3, <3>1, SameString DEF Root
  <2>2. count = Cardinality(StoredKeys)
    BY <1>1, <1>5, FS_EmptySet
  <2> QED BY <1>2, <1>5, <2>1, <2>2 DEF Grown
<1>7. Dict = Map!Empty
  <2>1. Dict = [k \in {} |-> tree[k]]
    BY <1>1, <1>5, Zenon DEF Dict
  <2> QED BY <2>1, EmptyDict
<1>8. Said = <<"new">>
  BY <1>1 DEF Said, Spoken
<1> QED BY <1>1, <1>4, <1>6, <1>7, <1>8 DEF TrieInv, Map!Init

\* Every step of the trie is one of the map, or none.
LEMMA TrieSteps ==
  TrieInv /\ [TrieNext]_trie => TrieInv' /\ [Map!Next]_(Map!vars)
<1> SUFFICES ASSUME TrieInv, [TrieNext]_trie
             PROVE  TrieInv' /\ (Map!Next \/ UNCHANGED <<Dict, Said>>)
  BY DEF Map!vars
<1>1. Shape /\ (pc # "drop" => Grown)
  BY DEF TrieInv
<1>2. ASSUME NEW key \in Keys, NEW value \in Values, insert(key, value)
      PROVE  TrieInv' /\ Map!Next
  <2>1. pc = "ready" /\ pc' = "ready" /\ out' = <<>> /\ built' = <<>>
    BY <1>2 DEF insert, return
  <2>2. Shape' /\ Grown' /\ Map!Insert(key, value)
    BY <1>1, <1>2, <2>1, InsertMaps
  <2> QED BY <2>1, <2>2 DEF TrieInv, Map!Next
<1>3. ASSUME NEW key \in Keys, find(key) PROVE TrieInv' /\ Map!Next
  <2>1. /\ pc = "ready" /\ pc' = "ready" /\ out' = <<>> /\ built' = <<>>
        /\ tree' = tree /\ count' = count
    BY <1>3 DEF find, return
  <2>2. Map!Lookup(key)
    BY <1>1, <1>3, FindMaps
  <2> QED BY <1>1, <2>1, <2>2, Kept DEF TrieInv, Map!Next
<1>4. ASSUME NEW key \in Keys, prefix_matches(key)
      PROVE  TrieInv' /\ (Map!Next \/ UNCHANGED <<Dict, Said>>)
  <2>1. pc = "ready" /\ out = <<>> /\ Grown
    BY <1>1, <1>4 DEF prefix_matches, TrieInv
  <2>2. pc' = "ready" => out' = <<>> /\ built' = <<>>
    BY <1>4 DEF prefix_matches, return
  <2>3. /\ Shape' /\ Grown'
        /\ \/ pc' = "ready" /\ Map!Matches(key)
           \/ pc' = "walk" /\ Walk(tree', arg', stack', out') /\ UNCHANGED <<Dict, Said>>
    BY <1>1, <1>4, <2>1, WalkBegins
  <2>4. TrieInv'
    BY <2>2, <2>3 DEF TrieInv
  <2>5. Map!Matches(key) => Map!Next
    BY DEF Map!Next
  <2> QED BY <2>3, <2>4, <2>5
<1>5. ASSUME collect_values PROVE TrieInv' /\ (Map!Next \/ UNCHANGED <<Dict, Said>>)
  <2>1. pc = "walk" /\ Walk(tree, arg, stack, out) /\ Grown
    BY <1>1, <1>5 DEF collect_values, TrieInv
  <2>2. pc' = "ready" => out' = <<>> /\ built' = <<>>
    BY <1>5, <2>1 DEF collect_values, return
  <2>3. /\ Shape' /\ Grown'
        /\ \/ pc' = "ready" /\ \E k \in Keys : Map!Matches(k)
           \/ pc' = "walk" /\ Walk(tree', arg', stack', out') /\ UNCHANGED <<Dict, Said>>
    BY <1>1, <1>5, <2>1, WalkMaps
  <2>4. TrieInv'
    BY <2>2, <2>3 DEF TrieInv
  <2>5. (\E k \in Keys : Map!Matches(k)) => Map!Next
    BY DEF Map!Next
  <2> QED BY <2>3, <2>4, <2>5
<1>6. ASSUME clone PROVE TrieInv' /\ UNCHANGED <<Dict, Said>>
  <2>1. pc = "ready" /\ out = <<>> /\ built = <<>> /\ Grown
    BY <1>1, <1>6 DEF clone, TrieInv
  <2>2. /\ Shape' /\ Grown' /\ UNCHANGED <<Dict, Said>>
        /\ pc' = "post" /\ Post(tree', stack', out') /\ built' = <<>>
    BY <1>1, <1>6, <2>1, CloneBegins
  <2> QED BY <2>2 DEF TrieInv
<1>7. ASSUME postOrder PROVE TrieInv' /\ UNCHANGED <<Dict, Said>>
  <2>1. pc = "post" /\ Post(tree, stack, out) /\ built = <<>> /\ Grown /\ tree' = tree
    BY <1>1, <1>7 DEF postOrder, TrieInv
  <2>2. /\ Shape' /\ Grown' /\ UNCHANGED <<Dict, Said>>
        /\ pc' \in {"post", "build"} /\ Post(tree', stack', out') /\ built' = <<>>
        /\ pc' = "build" => stack' = <<>>
    BY <1>1, <1>7, <2>1, PostMaps
  <2>3. ASSUME pc' = "build" PROVE Build(tree', out', built')
    <3>1. Post(tree, stack', out')
      BY <2>1, <2>2, Zenon
    <3>2. Build(tree, out', built')
      BY <2>2, <2>3, <3>1, BuildBegins
    <3> QED BY <2>1, <3>2, Zenon
  <2> QED BY <2>2, <2>3 DEF TrieInv
<1>8. ASSUME buildCopy PROVE TrieInv' /\ (Map!Next \/ UNCHANGED <<Dict, Said>>)
  <2>1. pc = "build" /\ Build(tree, out, built) /\ Grown
    BY <1>1, <1>8 DEF buildCopy, TrieInv
  <2>2. pc' = "ready" => out' = <<>> /\ built' = <<>>
    BY <1>8, <2>1 DEF buildCopy, return
  <2>3. /\ Shape' /\ Grown'
        /\ \/ pc' = "ready" /\ Map!Clone
           \/ pc' = "build" /\ Build(tree', out', built') /\ UNCHANGED <<Dict, Said>>
    BY <1>1, <1>8, <2>1, BuildMaps
  <2>4. TrieInv'
    BY <2>2, <2>3 DEF TrieInv
  <2>5. Map!Clone => Map!Next
    BY DEF Map!Next
  <2> QED BY <2>3, <2>4, <2>5
<1>9. ASSUME drop PROVE TrieInv' /\ Map!Next
  <2>1. pc = "ready" /\ pc' = "drop" /\ Grown
    BY <1>1, <1>9 DEF drop
  <2>2. Shape' /\ Dropping' /\ Map!Drop
    BY <1>1, <1>9, <2>1, DropMaps
  <2> QED BY <2>1, <2>2 DEF TrieInv, Map!Next
<1>10. ASSUME dismantle PROVE TrieInv' /\ UNCHANGED <<Dict, Said>>
  <2>1. pc = "drop" /\ Dropping
    BY <1>10 DEF dismantle, TrieInv
  <2>2. pc' = "ready" => out' = <<>> /\ built' = <<>>
    BY <1>10, <2>1 DEF dismantle, return
  <2>3. /\ Shape' /\ UNCHANGED <<Dict, Said>>
        /\ (pc' = "drop" /\ Dropping') \/ (pc' = "ready" /\ Grown')
    BY <1>1, <1>10, <2>1, DismantleMaps
  <2> QED BY <2>2, <2>3 DEF TrieInv
<1>11. ASSUME reload PROVE TrieInv' /\ Map!Next
  <2>1. /\ pc = "ready" /\ pc' = "ready" /\ out' = <<>> /\ built' = <<>>
        /\ tree' = tree /\ count' = count /\ Grown
    BY <1>1, <1>11 DEF reload, return
  <2>2. Map!Reload
    BY <1>1, <1>11, <2>1, ReloadMaps
  <2> QED BY <1>1, <2>1, <2>2, Kept DEF TrieInv, Map!Next
<1>12. CASE UNCHANGED trie
  <2>1. /\ tree' = tree /\ count' = count /\ pc' = pc /\ reply' = reply
        /\ stack' = stack /\ out' = out /\ built' = built /\ arg' = arg
    BY <1>12 DEF trie, loop
  <2>2. UNCHANGED <<Dict, Said>>
    BY <2>1 DEF Dict, Said, Spoken, StoredKeys, Paths
  <2>3. Dropping' <=> Dropping
    BY <2>1 DEF Dropping, Paths, Hangs, Pre, Strings, Entries, Root
  <2>4. TrieInv'
    BY <2>1, <2>3, Kept DEF TrieInv
  <2> QED BY <2>2, <2>4
<1> QED BY <1>2, <1>3, <1>4, <1>5, <1>6, <1>7, <1>8, <1>9, <1>10, <1>11, <1>12 DEF TrieNext

\* trie.rs: the loops of collect_values, clone and drop over a work stack
\* answer as a map would, for any keys and values: every reply, the order of
\* the matches and the copy that a clone returns included.
THEOREM TrieIsAMap ==
  TrieSpec => ImplementsMap
<1>1. TrieSpec => Map!Init /\ [][Map!Next]_(Map!vars)
  BY TrieBegins, TrieSteps, PTL DEF TrieSpec
<1> QED BY <1>1, Zenon DEF ImplementsMap, Map!Spec
=============================================================================
