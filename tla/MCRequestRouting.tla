--------------------------- MODULE MCRequestRouting ---------------------------
(* Instances of RequestRouting for TLC: two overlapping pools with one         *)
(* candidate of each class of tool evidence, or two candidates.                *)
EXTENDS RequestRouting, TLC

CONSTANTS a, b, c

TwoPools == <<{a, b}, {b, c}>>
NestedPools == <<{a}, {a, c}>>
Evidence == a :> "qualified" @@ b :> "structured" @@ c :> "curated"
PairEvidence == a :> "structured" @@ c :> "curated"
=============================================================================
