----------------------------- MODULE EvidenceProof -----------------------------
(***************************************************************************)
(* parse_and_prove (ffi.rs) over the pipeline of SymbolicIndexer, with the *)
(* circuit and the proof helpers of zkp.rs: the document, the prompt and   *)
(* the matched evidence are hashed to field elements, and a halo2 proof    *)
(* binds the three as public inputs.                                       *)
(*                                                                         *)
(* halo2 is external.  What the code relies on: create_proof does not      *)
(* check the witness, and a proof is accepted for the inputs it was made   *)
(* for iff its witness satisfies the copy constraints of the circuit the   *)
(* keys were made from.  SHA-256 is injective on the values at hand.       *)
(***************************************************************************)
EXTENDS SymbolicIndexer

CONSTANTS
  Prompts,
  Inputs,       \* field elements other callers of prove and verify use
  DEFAULT_K     \* the circuit size of the cached setup

ASSUME ProofAssumption == DEFAULT_K \in 4 .. 24

VARIABLES
  prompt,
  setup,      \* the process-wide OnceLock: NoSetup, or the keys
  proofs,     \* every proof made: circuit witness and public inputs
  answer,     \* what parse_and_prove returned
  verdict     \* the last verification: its proof, inputs and outcome

zkp  == <<prompt, setup, proofs, answer, verdict>>
vars == <<indexer, zkp>>

NoSetup  == [k |-> 0, copies |-> {}]
NoAnswer == [proof |-> {}, hashes |-> <<>>]
NoCheck  == [proof |-> {}, inputs |-> <<>>, outcome |-> "none"]

Init ==
  /\ IndexerInit
  /\ prompt = <<>> /\ setup = NoSetup /\ proofs = {}
  /\ answer = NoAnswer /\ verdict = NoCheck

----------------------------------------------------------------------------
(* The circuit and the helpers                                             *)

digest_to_field(bytes) == [sha256 |-> bytes]

\* configure() and synthesize(): one advice and one instance column, three
\* cells, and the copy constraints <<advice row, instance row>> between them.
synthesize_Swapped == {<<1, 1>>, <<2, 3>>, <<3, 2>>}

synthesize == {<<1, 1>>, <<2, 2>>, <<3, 3>>}

\* A size outside 4..24 is refused before Params::new, which panics at 32.
generate_params(k) == IF k \in 4 .. 24 THEN {[k |-> k, copies |-> synthesize]} ELSE {}

\* The setup is made once, on first use, and kept.
prover_setup == IF setup # NoSetup THEN setup
                ELSE CHOOSE keys \in generate_params(DEFAULT_K) : TRUE

create_proof(witness, public) == [witness |-> witness, public |-> public]

\* prove(): three inputs or none.
prove(witness, public) ==
  IF Len(public) # 3 THEN {} ELSE {create_proof(witness, public)}

\* verify(): three inputs, then the transcript's inputs and every constraint.
verify(keys, public, proof) ==
  IF Len(public) # 3 THEN "InvalidPublicInputs"
  ELSE IF /\ proof.public = public
          /\ \A c \in keys.copies : proof.witness[c[1]] = public[c[2]]
       THEN "ok" ELSE "rejected"

generate_proof(doc, prm, output) == prove(<<doc, prm, output>>, <<doc, prm, output>>)

----------------------------------------------------------------------------
(* The calls                                                               *)

\* The call enters the pipeline; the two texts are its own.
parse_and_prove(text, question) ==
  /\ lex(text) /\ prompt' = question
  /\ UNCHANGED <<setup, proofs, answer, verdict>>

pipelineStep == (tokenize \/ parse \/ from_ast) /\ UNCHANGED zkp

\* The wildcard match of the whole graph; without an edge there is no
\* evidence.  Otherwise the three commitments are hashed and proved.
matches  == match_graph(<<>>, <<>>, <<>>)
evidence == <<"json", matches>>

commitments == <<digest_to_field(document), digest_to_field(prompt), digest_to_field(evidence)>>

proveEvidence ==
  /\ stage = "graph"
  /\ \/ /\ matches = <<>> /\ stage' = "no matches"
        /\ UNCHANGED <<setup, proofs, answer>>
     \/ /\ matches # <<>>
        /\ \E pf \in generate_proof(commitments[1], commitments[2], commitments[3]) :
             /\ proofs' = proofs \cup {pf}
             /\ answer' = [proof |-> {pf}, hashes |-> commitments]
        /\ setup' = prover_setup
        /\ stage' = "proved"
  /\ UNCHANGED <<document, tokens, ast, graph, prompt, verdict>>

Triples == Inputs \X Inputs \X Inputs

\* Another caller of the crate proves a statement of its own choosing, its
\* witness possibly not its public inputs.
proveOther(witness, public) ==
  /\ stage = "proved" /\ verdict = NoCheck
  /\ proofs' = proofs \cup prove(witness, public)
  /\ setup' = prover_setup
  /\ verdict' = [NoCheck EXCEPT !.outcome = "asked"]
  /\ UNCHANGED <<indexer, prompt, answer>>

\* verify_proof() by the process's own key: a proof it has seen, or corrupt
\* bytes, which the transcript refuses, against any inputs.
verify_proof(proof, public) ==
  /\ stage = "proved" /\ verdict.outcome \in {"none", "asked"}
  /\ setup' = prover_setup
  /\ verdict' = [proof |-> {proof}, inputs |-> public,
                 outcome |-> verify(setup', public, proof)]
  /\ UNCHANGED <<indexer, prompt, proofs, answer>>

corrupted(public) ==
  /\ stage = "proved" /\ verdict.outcome \in {"none", "asked"}
  /\ setup' = prover_setup
  /\ verdict' = [proof |-> {}, inputs |-> public,
                 outcome |-> IF Len(public) # 3 THEN "InvalidPublicInputs" ELSE "malformed"]
  /\ UNCHANGED <<indexer, prompt, proofs, answer>>

\* The inputs a verifier may bring: the answer's hashes, those of a proof, in
\* another order, or too few.
Brought == {answer.hashes, Reverse(answer.hashes)} \cup {<<h>> : h \in ToSet(answer.hashes)}
           \cup {p.public : p \in proofs}

Next ==
  \/ \E text \in Documents, question \in Prompts : parse_and_prove(text, question)
  \/ pipelineStep \/ proveEvidence
  \/ \E w, x \in Triples : proveOther(w, x)
  \/ \E public \in Brought : \/ \E p \in proofs : verify_proof(p, public)
                             \/ corrupted(public)

Spec == Init /\ [][Next]_vars

----------------------------------------------------------------------------
(* Properties                                                              *)

\* What parse_and_prove returns verifies, under this process's key and with
\* the three returned hashes in the order they are returned, and those are
\* the hashes of the submitted document, the submitted prompt and a
\* non-empty evidence.
AnswersAreCommitments ==
  stage = "proved" =>
    /\ \A pf \in answer.proof : verify(setup, answer.hashes, pf) = "ok"
    /\ answer.proof # {}
    /\ answer.hashes[1] = digest_to_field(document)
    /\ answer.hashes[2] = digest_to_field(prompt)
    /\ answer.hashes[3].sha256 # <<"json", <<>>>>
    /\ \E t, u \in ToSet(tokens) : IsTerm(t) /\ IsTerm(u) /\ lowered(t) # lowered(u)

\* An accepted proof was made by someone who held the three public values:
\* its witness is the inputs it was accepted for, row by row.
AcceptedOnlyKnown ==
  verdict.outcome = "ok" => \A p \in verdict.proof : p.witness = verdict.inputs

\* The two directions of what a proof is worth to the caller of the pipeline:
\* the answer's own proof is accepted, and only proofs of the inputs are.
AnswersVerify == AnswersAreCommitments /\ AcceptedOnlyKnown
=============================================================================
