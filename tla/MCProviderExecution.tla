------------------------ MODULE MCProviderExecution ------------------------
(* Instances of ProviderExecution: two attempts of one feature, the second *)
(* of which can replace the first, or of two features.                     *)
EXTENDS ProviderExecution, TLC

CONSTANTS f1, f2

Interchangeable == Permutations(Workers)

OneFeature == [i \in Attempts |-> f1]
TwoFeatures == [i \in Attempts |-> IF i = 1 THEN f1 ELSE f2]
=============================================================================
