---------------------------- MODULE MCArcHashMap ----------------------------
(* TLC instance of ArcHashMap: holders and values are interchangeable.     *)
EXTENDS ArcHashMap, TLC

Symmetry == Permutations(Holders) \cup Permutations(Vals)
=============================================================================
