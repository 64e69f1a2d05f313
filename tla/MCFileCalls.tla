---------------------------- MODULE MCFileCalls ----------------------------
(* FileCalls for TLC: tasks, handles and inodes are interchangeable. *)
EXTENDS FileCalls, TLC

Symmetry == Permutations(Tasks) \cup Permutations(Handles) \cup Permutations(Inodes)

(* Bound: a state in which a call has died is checked, not continued. *)
NoneDied == panic = {}
=============================================================================
