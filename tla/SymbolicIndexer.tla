---------------------------- MODULE SymbolicIndexer ----------------------------
(***************************************************************************)
(* The RAG engine's pipeline from text to token graph (lib.rs and ast.rs): *)
(* tokenize, parse, DocumentAST::from_ast, composed by lex().  Each loop   *)
(* is taken one iteration per step, so that what it keeps is an invariant: *)
(* one token, one token folded into the AST, one subject term extracted.   *)
(*                                                                         *)
(* A character stands for its byte class: the code tells apart letters     *)
(* (and `_'), digits, blanks (the newline among them), punctuation (the    *)
(* full stop and the other sentence enders among it) and symbols; anything *)
(* else is not classifiable.  Offsets are 0-based, as in the code.         *)
(***************************************************************************)
EXTENDS Naturals, Sequences, FiniteSets, SequencesExt

CONSTANTS
  Letters, Digits, Blanks, Marks, Symbols,  \* the byte classes of tokenize
  Enders,            \* the marks that end a sentence
  Point, Newline,    \* the decimal point, a mark, and the newline, a blank
  Lower,             \* to_lowercase, on letters
  Documents          \* the texts callers submit

ASSUME IndexerAssumption ==
  /\ Enders \subseteq Marks /\ Point \in Marks /\ Newline \in Blanks
  /\ Newline \notin Letters \cup Digits
  /\ Lower \in [Letters -> Letters]
  /\ \A text \in Documents : text \in Seq(ToSet(text))

VARIABLES
  document,
  stage,      \* "idle", "tokenize", "parse", "extract", "graph", or an error
  tokens,     \* what tokenize has pushed
  folded,     \* parse: tokens already folded
  sentence, sentences, sections,   \* parse: the pending and the closed parts
  newlines,   \* parse: newline_run
  todo, term, \* from_ast: the sentences left, and the terms done of the first
  nodes, edges

ast     == <<folded, sentence, sentences, sections, newlines>>
graph   == <<todo, term, nodes, edges>>
indexer == <<document, stage, tokens, ast, graph>>

IndexerInit ==
  /\ document = <<>> /\ stage = "idle" /\ tokens = <<>>
  /\ folded = 0 /\ sentence = <<>> /\ sentences = <<>> /\ sections = <<>>
  /\ newlines = 0
  /\ todo = <<>> /\ term = 0 /\ nodes = <<>> /\ edges = <<>>

\* lex(): a call with the next document.
lex(text) ==
  /\ stage = "idle"
  /\ document' = text /\ stage' = "tokenize"
  /\ UNCHANGED <<tokens, ast, graph>>

----------------------------------------------------------------------------
(* tokenize()                                                              *)

Char(i) == document[i + 1]
Size    == Len(document)
Text(t) == SubSeq(document, t.start + 1, t.end)

\* The end of the run of characters of S that starts at offset i.
runEnd(S, i) ==
  CHOOSE e \in i .. Size : /\ \A j \in i .. e - 1 : Char(j) \in S
                           /\ e = Size \/ Char(e) \notin S

\* A number takes one decimal point if a digit follows it.
numberEnd(i) ==
  LET e == runEnd(Digits, i)
  IN  IF e + 1 < Size /\ Char(e) = Point /\ Char(e + 1) \in Digits
      THEN runEnd(Digits, e + 1) ELSE e

Offset == IF tokens = <<>> THEN 0 ELSE Last(tokens).end

token(kind, end) == [kind |-> kind, start |-> Offset, end |-> end]

classify(c, i) ==
  CASE c \in Letters -> {token("word", runEnd(Letters \cup Digits, i))}
    [] c \in Digits  -> {token("number", numberEnd(i))}
    [] c \in Blanks  -> {token("whitespace", runEnd(Blanks, i))}
    [] c \in Marks   -> {token("punctuation", i + 1)}
    [] c \in Symbols -> {token("symbol", i + 1)}
    [] OTHER         -> {}

tokenize ==
  /\ stage = "tokenize"
  /\ \/ /\ Offset = Size
        /\ stage' = IF tokens = <<>> THEN "no tokens" ELSE "parse"  \* parse's first check
        /\ UNCHANGED tokens
     \/ /\ Offset < Size
        /\ LET found == classify(Char(Offset), Offset)
           IN  \/ found = {} /\ stage' = "unclassifiable" /\ UNCHANGED tokens
               \/ \E t \in found : tokens' = Append(tokens, t) /\ UNCHANGED stage
  /\ UNCHANGED <<document, ast, graph>>

----------------------------------------------------------------------------
(* parse()                                                                 *)

IsTerm(t)  == t.kind \in {"word", "number"}
IsEnder(t) == t.kind = "punctuation" /\ Char(t.start) \in Enders

block(parts) == [start |-> Head(parts).start, end |-> Last(parts).end, parts |-> parts]

\* A flush closes the pending part, if there is one, and appends it.
flushed(pending, closed) ==
  IF pending = <<>> THEN closed ELSE Append(closed, block(pending))

newlinesOf(t) == Cardinality({i \in t.start .. t.end - 1 : Char(i) = Newline})

parseToken_DropsSentence(t) ==
  LET run == newlines + newlinesOf(t)
  IN  \/ /\ IsTerm(t)
         /\ sentence' = Append(sentence, t) /\ newlines' = 0
         /\ UNCHANGED <<sentences, sections>>
      \/ /\ IsEnder(t)
         /\ sentences' = flushed(sentence, sentences) /\ sentence' = <<>>
         /\ newlines' = 0 /\ UNCHANGED sections
      \/ /\ t.kind \in {"symbol", "punctuation"} /\ ~IsEnder(t)
         /\ newlines' = 0 /\ UNCHANGED <<sentence, sentences, sections>>
      \/ /\ t.kind = "whitespace" /\ run < 2
         /\ newlines' = run /\ UNCHANGED <<sentence, sentences, sections>>
      \/ /\ t.kind = "whitespace" /\ run >= 2
         /\ sections' = flushed(sentences, sections)
         /\ sentences' = <<>> /\ newlines' = 0 /\ UNCHANGED sentence

parseToken(t) ==
  LET run == newlines + newlinesOf(t)
  IN  \/ /\ IsTerm(t)
         /\ sentence' = Append(sentence, t) /\ newlines' = 0
         /\ UNCHANGED <<sentences, sections>>
      \/ /\ IsEnder(t)
         /\ sentences' = flushed(sentence, sentences) /\ sentence' = <<>>
         /\ newlines' = 0 /\ UNCHANGED sections
      \/ /\ t.kind \in {"symbol", "punctuation"} /\ ~IsEnder(t)
         /\ newlines' = 0 /\ UNCHANGED <<sentence, sentences, sections>>
      \/ /\ t.kind = "whitespace" /\ run < 2
         /\ newlines' = run /\ UNCHANGED <<sentence, sentences, sections>>
      \/ /\ t.kind = "whitespace" /\ run >= 2
         /\ sections' = flushed(flushed(sentence, sentences), sections)
         /\ sentence' = <<>> /\ sentences' = <<>> /\ newlines' = 0

\* AstNode::sentences(), each as the sequence terms() gives.
terms(section) == [i \in DOMAIN section.parts |-> section.parts[i].parts]

allSentences(doc) ==
  LET upTo[n \in 0 .. Len(doc)] == IF n = 0 THEN <<>> ELSE upTo[n - 1] \o terms(doc[n])
  IN  upTo[Len(doc)]

\* The last sentence and section need no terminator; no section is an error.
parse ==
  /\ stage = "parse"
  /\ \/ /\ folded < Len(tokens)
        /\ parseToken(tokens[folded + 1]) /\ folded' = folded + 1
        /\ UNCHANGED stage
        /\ UNCHANGED todo
     \/ /\ folded = Len(tokens)
        /\ sections' = flushed(flushed(sentence, sentences), sections)
        /\ sentence' = <<>> /\ sentences' = <<>>
        /\ stage' = IF sections' = <<>> THEN "no sentences" ELSE "extract"
        /\ todo' = allSentences(sections')
        /\ UNCHANGED <<folded, newlines>>
  /\ UNCHANGED <<document, tokens, term, nodes, edges>>

----------------------------------------------------------------------------
(* DocumentAST::from_ast()                                                 *)

lowered(t) == LET s == Text(t)
              IN  [i \in DOMAIN s |-> IF s[i] \in Letters THEN Lower[s[i]] ELSE s[i]]

indexOf(ns, t) == CHOOSE i \in DOMAIN ns : ns[i].text = lowered(t)

\* ensure_node: the first occurrence of a text makes its node.
ensure_node(ns, t) ==
  IF \E i \in DOMAIN ns : ns[i].text = lowered(t) THEN ns
  ELSE Append(ns, [id |-> Len(ns), text |-> lowered(t), symbol_type |-> t.kind,
                   start |-> t.start, end |-> t.end])

RelatedTo == <<"related_to">>

predicate(ts, i, j) == IF j = i + 2 THEN lowered(ts[i + 1]) ELSE RelatedTo

\* Subject term i of a sentence meets a later term j.
relate(g, ts, i, j) ==
  LET ns == ensure_node(g.nodes, ts[j])
      s  == ns[indexOf(ns, ts[i])]
      o  == ns[indexOf(ns, ts[j])]
  IN  [nodes |-> ns,
       edges |-> IF s = o THEN g.edges
                 ELSE Append(g.edges, [predicate |-> predicate(ts, i, j),
                        subject |-> s.id, object |-> o.id, start |-> s.start, end |-> s.end])]

\* The inner loop: subject term i against the later terms of its sentence.
extend(ts, i) ==
  LET met[j \in i .. Len(ts)] ==
        IF j = i THEN [nodes |-> ensure_node(nodes, ts[i]), edges |-> edges]
        ELSE relate(met[j - 1], ts, i, j)
  IN  met[Len(ts)]

from_ast ==
  /\ stage = "extract"
  /\ \/ /\ todo # <<>>
        /\ LET g == extend(Head(todo), term + 1)
           IN  nodes' = g.nodes /\ edges' = g.edges
        /\ IF term + 1 < Len(Head(todo))
           THEN term' = term + 1 /\ UNCHANGED todo
           ELSE term' = 0 /\ todo' = Tail(todo)
        /\ UNCHANGED stage
     \/ /\ todo = <<>>
        /\ stage' = "graph" /\ UNCHANGED graph
  /\ UNCHANGED <<document, tokens, ast>>

\* match_graph() for one triple of a pattern: an empty position is the
\* wildcard; the edges keep their order and carry the subject's span.
fits(e, s, p, o) == /\ s = <<>> \/ nodes[e.subject + 1].text = s
                    /\ p = <<>> \/ e.predicate = p
                    /\ o = <<>> \/ nodes[e.object + 1].text = o

match_graph(s, p, o) ==
  LET found[n \in 0 .. Len(edges)] ==
        IF n = 0 THEN <<>>
        ELSE IF fits(edges[n], s, p, o) THEN Append(found[n - 1], edges[n]) ELSE found[n - 1]
  IN  found[Len(edges)]

IndexerNext == \/ \E text \in Documents : lex(text)
               \/ tokenize \/ parse \/ from_ast

----------------------------------------------------------------------------
(* Properties                                                              *)

\* tokenize loses nothing and splits nothing: the tokens lie end to end from
\* offset 0, each of one class, and no two neighbours could have been one
\* token (a number may be followed by a word, a word by no letter or digit).
TokensTileDocument ==
  stage \in {"tokenize", "parse"} /\ folded = 0 =>
  /\ \A n \in DOMAIN tokens :
       LET t == tokens[n]
       IN  /\ t.start = (IF n = 1 THEN 0 ELSE tokens[n - 1].end)
           /\ t.start < t.end /\ t.end <= Size
           /\ t.kind = "word" => \A i \in t.start .. t.end - 1 : Char(i) \in Letters \cup Digits
           /\ t.kind = "number" =>
                /\ {Char(t.start), Char(t.end - 1)} \subseteq Digits
                /\ Cardinality({i \in t.start .. t.end - 1 : Char(i) \notin Digits}) <= 1
           /\ t.kind = "whitespace" => \A i \in t.start .. t.end - 1 : Char(i) \in Blanks
  /\ \A n \in 1 .. Len(tokens) - 1 :
       LET c == Char(tokens[n].end)
       IN  CASE tokens[n].kind = "word"       -> c \notin Letters \cup Digits
             [] tokens[n].kind = "number"     -> c \notin Digits
             [] tokens[n].kind = "whitespace" -> c \notin Blanks
             [] OTHER                         -> TRUE
  /\ stage = "parse" => Offset = Size

\* The document's terms are its words and numbers.
Terms == {t \in ToSet(tokens) : IsTerm(t)}

precedes(t, u) == t.end <= u.start

Between(t, u) == {n \in DOMAIN tokens : precedes(t, tokens[n]) /\ precedes(tokens[n], u)}
Breaks(t, u)  == \E n \in Between(t, u) : newlinesOf(tokens[n]) >= 2
Ends(t, u)    == \E n \in Between(t, u) : IsEnder(tokens[n])

Within(part, t) == part.start <= t.start /\ t.end <= part.end

\* The AST is the documented grouping: its sentences hold the terms, each
\* once and in source order; two terms share a section iff no blank run with
\* two newlines lies between, and share a sentence iff moreover no ender does.
AstGroupsAsDocumented ==
  stage = "extract" /\ nodes = <<>> =>
    /\ Terms = UNION {ToSet(todo[k]) : k \in DOMAIN todo}
    /\ \A k, l \in DOMAIN todo : \A i \in DOMAIN todo[k], j \in DOMAIN todo[l] :
         k < l \/ (k = l /\ i < j) => precedes(todo[k][i], todo[l][j])
    /\ \A t, u \in Terms : precedes(t, u) =>
         /\ (\E s \in DOMAIN sections : Within(sections[s], t) /\ Within(sections[s], u))
              <=> ~Breaks(t, u)
         /\ (\E s \in DOMAIN sections : \E k \in DOMAIN sections[s].parts :
               LET p == sections[s].parts[k] IN Within(p, t) /\ Within(p, u))
              <=> ~Breaks(t, u) /\ ~Ends(t, u)

\* The first occurrences of the document's texts, and the ordered pairs of
\* different texts of a sentence.
Firsts == {t \in Terms : \A u \in Terms : precedes(u, t) => lowered(u) # lowered(t)}
Pairs  == {p \in Terms \X Terms : /\ precedes(p[1], p[2]) /\ lowered(p[1]) # lowered(p[2])
                                  /\ ~Breaks(p[1], p[2]) /\ ~Ends(p[1], p[2])}

\* Pair q comes before pair p in source order.
comesBefore(q, p) == precedes(q[1], p[1]) \/ (q[1] = p[1] /\ precedes(q[2], p[2]))

\* The token graph is what its document says: one node per distinct text, in
\* order of first occurrence and with that occurrence's span, and one edge
\* per ordered pair of different texts of a sentence, in source order, whose
\* predicate is the single term between the two.
GraphSpansDocument ==
  stage = "graph" =>
    /\ Len(nodes) = Cardinality(Firsts)
    /\ \A t \in Firsts :
         LET n == nodes[Cardinality({u \in Firsts : precedes(u, t)}) + 1]
         IN  n.text = lowered(t) /\ n.start = t.start /\ n.end = t.end
    /\ \A i \in DOMAIN nodes : nodes[i].id = i - 1
    /\ Len(edges) = Cardinality(Pairs)
    /\ \A p \in Pairs :
         LET e == edges[Cardinality({q \in Pairs : comesBefore(q, p)}) + 1]
             M == {m \in Terms : precedes(p[1], m) /\ precedes(m, p[2])}
         IN  /\ nodes[e.subject + 1].text = lowered(p[1])
             /\ nodes[e.object + 1].text = lowered(p[2])
             /\ \A m \in Terms : M = {m} => e.predicate = lowered(m)
             /\ (\A m \in Terms : M # {m}) => e.predicate = RelatedTo
             /\ \A t \in Firsts : lowered(t) = lowered(p[1]) => e.start = t.start /\ e.end = t.end

\* From text to graph nothing is lost, invented or misplaced, at any stage.
GraphIsDocuments == TokensTileDocument /\ AstGroupsAsDocumented /\ GraphSpansDocument
=============================================================================
