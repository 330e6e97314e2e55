---------------------------- MODULE MCVerifiableRAG ----------------------------
(* A small instance of VerifiableRAG: two images, two queries, two proofs,  *)
(* four tokens (two of the same image, one of the other, one unusable).     *)
EXTENDS VerifiableRAG

MCTokens == {"t1", "t2", "t3", "noswname"}
MCClaims == [t \in MCTokens |->
  [empty  |-> FALSE,
   swname |-> t # "noswname",
   digest |-> IF t = "t3" THEN "d2" ELSE "d1"]]

MCFdcProofs == [decodes : BOOLEAN, genuine : BOOLEAN, round : {"r1"}]

(* A reading whose valuation truncates, and one in a feed with a negative  *)
(* scale whose product overflows for the larger quantity.                  *)
MCReadings == {[value |-> 17, decimals |-> 1, timestamp |-> 0],
               [value |-> 7, decimals |-> -1, timestamp |-> 3]}
=============================================================================
