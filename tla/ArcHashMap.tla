----------------------------- MODULE ArcHashMap -----------------------------
(***************************************************************************)
(* src/arc_hashmap.rs: a map from keys to reference-counted values whose   *)
(* entries are purged when their count drops to zero.  EncryptedFs stores  *)
(* one tokio RwLock (or Mutex) per inode in it:                            *)
(*                                                                         *)
(*   let lock = map.get_or_insert_with(ino, || RwLock::new(false));        *)
(*   let guard = lock.write().await;                                       *)
(*                                                                         *)
(* guard is dropped before lock, and dropping lock (a Holder) decrements   *)
(* the count *outside* the map's lock and then purges the map under it, so *)
(* decrements of other holders interleave with the entries a purge visits. *)
(* A value stands for one allocation Arc<V>; it can be allocated again once *)
(* neither the map nor a Holder refers to it.                              *)
(***************************************************************************)
EXTENDS Naturals, FiniteSets

CONSTANTS Keys, Holders, Vals,
          NoVal, NoKey, NoHolder    \* absent value, key, holder

ASSUME ArcHashMapAssumption ==
    /\ IsFiniteSet(Holders)
    /\ NoVal \notin Vals
    /\ NoKey \notin Keys
    /\ NoHolder \notin Holders

VARIABLES
    map,      \* map[k]: the value stored for k, or NoVal
    rc,       \* rc[v]: the AtomicUsize beside the value v
    key,      \* key[h]: the key h was obtained for (ghost: Holder has no key)
    val,      \* val[h]: Holder.val
    pc,       \* what the owner of the Holder h is doing
    purger,   \* the holder inside purge, that is owning map.write()
    todo      \* keys retain has still to visit

vars == <<map, rc, key, val, pc, purger, todo>>

LockFree == purger = NoHolder       \* nobody is inside a purge

Live(h) == pc[h] \in {"held", "reading", "writing"}

(* Counts stay natural numbers (fetch_sub never wraps), and the map and    *)
(* the Holders refer to values, keys and holders.                          *)
TypeOK ==
    /\ map \in [Keys -> Vals \cup {NoVal}]
    /\ rc \in [Vals -> Nat]
    /\ key \in [Holders -> Keys \cup {NoKey}]
    /\ val \in [Holders -> Vals \cup {NoVal}]
    /\ pc \in [Holders -> {"idle", "held", "reading", "writing", "dropping", "purging"}]
    /\ purger \in Holders \cup {NoHolder}
    /\ todo \subseteq Keys

Init ==
    /\ map = [k \in Keys |-> NoVal]
    /\ rc = [v \in Vals |-> 0]
    /\ key = [h \in Holders |-> NoKey]
    /\ val = [h \in Holders |-> NoVal]
    /\ pc = [h \in Holders |-> "idle"]
    /\ purger = NoHolder
    /\ todo = {}

Fresh(v) == /\ \A k \in Keys : map[k] # v
            /\ \A h \in Holders : val[h] # v

(* get_internal without its fetch_add. *)
GetInternalUncounted(h, k, v, count) ==
    /\ rc' = [rc EXCEPT ![v] = count]
    /\ key' = [key EXCEPT ![h] = k]
    /\ val' = [val EXCEPT ![h] = v]
    /\ pc' = [pc EXCEPT ![h] = "held"]

(* get_internal: count the new Holder and hand out the value. *)
GetInternal(h, k, v, count) ==
    /\ rc' = [rc EXCEPT ![v] = count + 1]
    /\ key' = [key EXCEPT ![h] = k]
    /\ val' = [val EXCEPT ![h] = v]
    /\ pc' = [pc EXCEPT ![h] = "held"]

(* get on a key that is present, under map.read(). *)
Get(h, k) ==
    /\ pc[h] = "idle"
    /\ LockFree
    /\ map[k] # NoVal
    /\ GetInternal(h, k, map[k], rc[map[k]])
    /\ UNCHANGED <<map, purger, todo>>

(* get_or_insert_with (and insert), under map.write(), when the entry is   *)
(* vacant; when it is occupied the effect is that of Get.                  *)
InsertWith(h, k, v) ==
    /\ pc[h] = "idle"
    /\ LockFree
    /\ map[k] = NoVal
    /\ Fresh(v)
    /\ map' = [map EXCEPT ![k] = v]
    /\ GetInternal(h, k, v, 0)
    /\ UNCHANGED <<purger, todo>>

(* The tokio lock inside the value: it excludes holders of the same *value*. *)
ReadLock(h) ==
    /\ pc[h] = "held"
    /\ \A g \in Holders : pc[g] = "writing" => val[g] # val[h]
    /\ pc' = [pc EXCEPT ![h] = "reading"]
    /\ UNCHANGED <<map, rc, key, val, purger, todo>>

WriteLock(h) ==
    /\ pc[h] = "held"
    /\ \A g \in Holders : pc[g] \in {"reading", "writing"} => val[g] # val[h]
    /\ pc' = [pc EXCEPT ![h] = "writing"]
    /\ UNCHANGED <<map, rc, key, val, purger, todo>>

Unlock(h) ==
    /\ pc[h] \in {"reading", "writing"}
    /\ pc' = [pc EXCEPT ![h] = "held"]
    /\ UNCHANGED <<map, rc, key, val, purger, todo>>

(* Holder::drop that forgets fetch_sub. *)
DropUndecremented(h) ==
    /\ pc[h] = "held"
    /\ pc' = [pc EXCEPT ![h] = "dropping"]
    /\ UNCHANGED <<map, rc, key, val, purger, todo>>

(* Holder::drop, first statement: fetch_sub, without any lock of the map.  *)
(* AtomicUsize::fetch_sub wraps; that rc[val[h]] > 0 here is RcExact.      *)
DropDecrement(h) ==
    /\ pc[h] = "held"
    /\ rc' = [rc EXCEPT ![val[h]] = @ - 1]
    /\ pc' = [pc EXCEPT ![h] = "dropping"]
    /\ UNCHANGED <<map, key, val, purger, todo>>

(* purge: take map.write() ... *)
PurgeBegin(h) ==
    /\ pc[h] = "dropping"
    /\ LockFree
    /\ purger' = h
    /\ todo' = {k \in Keys : map[k] # NoVal}
    /\ pc' = [pc EXCEPT ![h] = "purging"]
    /\ UNCHANGED <<map, rc, key, val>>

(* retain with the condition >= 0. *)
PurgeVisitKeepsZero(h, k) ==
    /\ purger = h
    /\ k \in todo
    /\ todo' = todo \ {k}
    /\ map' = [map EXCEPT ![k] = IF rc[@] >= 0 THEN @ ELSE NoVal]
    /\ UNCHANGED <<rc, key, val, pc, purger>>

(* retain with the condition > 1: the last user is not counted. *)
PurgeVisitEvictsLast(h, k) ==
    /\ purger = h
    /\ k \in todo
    /\ todo' = todo \ {k}
    /\ map' = [map EXCEPT ![k] = IF rc[@] > 1 THEN @ ELSE NoVal]
    /\ UNCHANGED <<rc, key, val, pc, purger>>

(* ... retain visits the entries in any order, loading each count ... *)
PurgeVisit(h, k) ==
    /\ purger = h
    /\ k \in todo
    /\ todo' = todo \ {k}
    /\ map' = [map EXCEPT ![k] = IF rc[@] > 0 THEN @ ELSE NoVal]
    /\ UNCHANGED <<rc, key, val, pc, purger>>

(* ... and the fields of the Holder (val, rc) are dropped after drop(). *)
PurgeEnd(h) ==
    /\ purger = h
    /\ todo = {}
    /\ purger' = NoHolder
    /\ key' = [key EXCEPT ![h] = NoKey]
    /\ val' = [val EXCEPT ![h] = NoVal]
    /\ pc' = [pc EXCEPT ![h] = "idle"]
    /\ UNCHANGED <<map, rc, todo>>

Next ==
    \E h \in Holders :
        \/ \E k \in Keys : Get(h, k)
        \/ \E k \in Keys, v \in Vals : InsertWith(h, k, v)
        \/ ReadLock(h)
        \/ WriteLock(h)
        \/ Unlock(h)
        \/ DropDecrement(h)
        \/ PurgeBegin(h)
        \/ \E k \in Keys : PurgeVisit(h, k)
        \/ PurgeEnd(h)

Spec == Init /\ [][Next]_vars

-----------------------------------------------------------------------------
(* The entry a live Holder was obtained from stays in the map: no purge    *)
(* evicts the lock of an inode while an operation on the inode uses it.    *)
LiveEntryKept == \A h \in Holders : Live(h) => map[key[h]] = val[h]

(* Every live Holder of a key dereferences to the same lock, so two        *)
(* operations on one inode always contend on one RwLock.                   *)
SameLock == \A g, h \in Holders :
                Live(g) /\ Live(h) /\ key[g] = key[h] => val[g] = val[h]

HoldersOf(v) == {h \in Holders : Live(h) /\ val[h] = v}

(* The count beside a value is the number of its live Holders: in          *)
(* particular fetch_sub never wraps.                                       *)
RcExact == \A v \in Vals : rc[v] = Cardinality(HoldersOf(v))

(* No entry outlives its users: each one is held, or the purge of a Holder *)
(* that was dropped is still to come (the map does not grow with the inodes*)
(* that were ever locked).                                                 *)
NoResidue == \A k \in Keys :
                map[k] # NoVal => \E h \in Holders : key[h] = k /\ val[h] = map[k]

-----------------------------------------------------------------------------
(* Refinement: the per-value locks of the map behave as one lock per key.  *)
Reading(k) == {h \in Holders : pc[h] = "reading" /\ key[h] = k}
Writing(k) == {h \in Holders : pc[h] = "writing" /\ key[h] = k}

Abs == INSTANCE KeyedRwLock WITH readers <- [k \in Keys |-> Reading(k)],
                                 writers <- [k \in Keys |-> Writing(k)]

(* The map of locks implements one reader-writer lock per inode.           *)
KeyedLocking == Abs!Spec
=============================================================================
