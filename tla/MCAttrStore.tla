---------------------------- MODULE MCAttrStore ----------------------------
(* AttrStore for TLC.  Nothing is said of what follows a race, so that the *)
(* search ends there.                                                      *)
EXTENDS AttrStore, TLC

NoRaceYet == ~raced

Symmetry ==
    Permutations(Tasks) \cup Permutations(Values) \cup Permutations(Fields)
      \cup Permutations(Settings)
=============================================================================
