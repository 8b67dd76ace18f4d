------------------------ MODULE MCExactRepostClusters ------------------------
(* The messages, texts and dates are interchangeable.                      *)
EXTENDS ExactRepostClusters, TLC

Symmetry == Permutations(Messages) \cup Permutations(Texts) \cup Permutations(Dates)
=============================================================================
