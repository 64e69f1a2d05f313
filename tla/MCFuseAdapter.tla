--------------------------- MODULE MCFuseAdapter ---------------------------
(* FuseAdapter with three callers, the owner of the root among them, and   *)
(* modes that make sticky, set-id and closed files and directories.        *)
EXTENDS FuseAdapter, TLC

root == [uid |-> 0, gid |-> 0, groups |-> {0}]
ann == [uid |-> 1, gid |-> 1, groups |-> {1}]
bob == [uid |-> 2, gid |-> 1, groups |-> {1}]

MCUsers == {root, ann, bob}
MCOwner == ann

\* 3777 and 4750
MCModes ==
    { [usr |-> Rights, grp |-> Rights, oth |-> Rights,
       suid |-> FALSE, sgid |-> TRUE, sticky |-> TRUE],
      [usr |-> Rights, grp |-> {"R", "X"}, oth |-> {},
       suid |-> TRUE, sgid |-> FALSE, sticky |-> FALSE] }

(* No handler reads the last reply: states that differ in it are explored  *)
(* once, and the properties still see it in every step.                    *)
View == <<attr, entries, contents, handles, known>>

(* Open files and the shape of the tree hardly meet: there are handles and *)
(* data only while there is at most one inode besides the root.            *)
Bound ==
    \/ Cardinality({i \in Inodes : attr[i] # None}) <= 2
    \/ (\A h \in Handles : handles[h] = None) /\ (\A i \in Inodes : contents[i] = "empty")

(* Inode numbers, names and handles are interchangeable. *)
Symmetry == Permutations(Inodes \ {Root}) \cup Permutations(Names) \cup Permutations(Handles)
=============================================================================
