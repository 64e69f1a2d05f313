---------------------------- MODULE KeyedRwLock ----------------------------
(***************************************************************************)
(* What EncryptedFs expects of every ArcHashMap<u64, RwLock<bool>> field   *)
(* (read_write_locks, serialize_inode_locks, ...): one reader-writer lock  *)
(* per key, whoever asks for it and whenever.                              *)
(***************************************************************************)
EXTENDS Naturals

CONSTANTS Keys,     \* inode numbers
          Holders   \* the Holder values (lock users) alive at one time

VARIABLES readers,  \* readers[k]: holders of the read lock of k
          writers   \* writers[k]: holders of the write lock of k

vars == <<readers, writers>>

Init == /\ readers = [k \in Keys |-> {}]
        /\ writers = [k \in Keys |-> {}]

AcquireRead(h, k) == /\ writers[k] = {}
                     /\ readers' = [readers EXCEPT ![k] = @ \cup {h}]
                     /\ UNCHANGED writers

AcquireWrite(h, k) == /\ writers[k] = {}
                      /\ readers[k] = {}
                      /\ writers' = [writers EXCEPT ![k] = {h}]
                      /\ UNCHANGED readers

Release(h, k) == /\ h \in readers[k] \cup writers[k]
                 /\ readers' = [readers EXCEPT ![k] = @ \ {h}]
                 /\ writers' = [writers EXCEPT ![k] = @ \ {h}]

Next == \E h \in Holders, k \in Keys : \/ AcquireRead(h, k)
                                       \/ AcquireWrite(h, k)
                                       \/ Release(h, k)

Spec == Init /\ [][Next]_vars
=============================================================================
