----------------------------- MODULE AttrStore -----------------------------
(***************************************************************************)
(* The attributes of one inode (src/encryptedfs.rs): its inode file, the   *)
(* cache of attributes, which is an ExpireValue that holds an LRU map, and *)
(* the tasks that get, set and remove them.  set_attr2 is serialised by    *)
(* serialize_update_inode_locks; get_attr is not, and the guards of        *)
(* serialize_inode_locks around reading and removing the file are futures  *)
(* that nobody awaits, so they guard nothing.                              *)
(*                                                                         *)
(* Left out: what open handles add to the attributes (see OpenFiles).      *)
(***************************************************************************)
EXTENDS ExpireValue

CONSTANTS
    Fields,      \* attributes that set_attr overwrites: perm, uid, gid, flags
    Settings,    \* their values
    Gone         \* there is no inode file

ASSUME AttrStoreAssumption ==
    /\ Settings # {}
    /\ None \notin [Fields -> Settings] /\ Gone \notin [Fields -> Settings]
    /\ None \notin Fields \X Settings
    /\ None # Gone

VARIABLES
    file,      \* the inode file: attributes, or Gone
    entry,     \* entry[v]: the inode's entry in cache v
    pc,        \* pc[t]: what task t does next
    change,    \* change[t]: the field and setting of its set_attr, None in get_attr
    attr,      \* attr[t]: the attributes it works with
    updating,  \* the task that has the update lock
    last,      \* history: the last setting stored for each field
    raced      \* history: a fill overlapped a store, or two gets provided a cache

vars == <<slot, weak, refs, getting, file, entry, pc, change, attr, updating, last, raced>>

Attrs == [Fields -> Settings]

Init ==
    /\ ExpireInit
    /\ file \in Attrs
    /\ entry = [v \in Values |-> None]
    /\ pc = [t \in Tasks |-> "idle"]
    /\ change = [t \in Tasks |-> None]
    /\ attr = [t \in Tasks |-> None]
    /\ updating = None
    /\ last = file
    /\ raced = FALSE

-----------------------------------------------------------------------------
(* An end that leaves the update lock taken. *)
EndKeepsLock(t) ==
    /\ pc' = [pc EXCEPT ![t] = "idle"]
    /\ change' = [change EXCEPT ![t] = None]
    /\ attr' = [attr EXCEPT ![t] = None]
    /\ DropRef(t)
    /\ UNCHANGED updating

(* A call ends, and with it its guards and references. *)
End(t) ==
    /\ pc' = [pc EXCEPT ![t] = "idle"]
    /\ change' = [change EXCEPT ![t] = None]
    /\ attr' = [attr EXCEPT ![t] = None]
    /\ updating' = IF updating = t THEN None ELSE updating
    /\ DropRef(t)

(* get_inode_from_cache_or_storage has the attributes a: get_attr returns, *)
(* set_attr2 goes on.                                                      *)
Have(t, a) ==
    IF change[t] = None THEN End(t)
    ELSE /\ pc' = [pc EXCEPT ![t] = "store"]
         /\ attr' = [attr EXCEPT ![t] = a]
         /\ DropRef(t)
         /\ UNCHANGED <<change, updating>>

GetAttr(t) ==
    /\ pc[t] = "idle"
    /\ pc' = [pc EXCEPT ![t] = "cache"]
    /\ BeginGet(t)
    /\ UNCHANGED <<slot, weak, refs, file, entry, change, attr, updating, last, raced>>

SetAttr(t, f, x) ==
    /\ pc[t] = "idle"
    /\ pc' = [pc EXCEPT ![t] = "lock"]
    /\ change' = [change EXCEPT ![t] = <<f, x>>]
    /\ UNCHANGED <<expireVars, file, entry, attr, updating, last, raced>>

(* set_attr2 without its lock. *)
LockNothing(t) ==
    /\ pc[t] = "lock"
    /\ pc' = [pc EXCEPT ![t] = "cache"]
    /\ BeginGet(t)
    /\ UNCHANGED <<slot, weak, refs, file, entry, change, attr, updating, last, raced>>

Lock(t) ==
    /\ pc[t] = "lock" /\ updating = None
    /\ updating' = t
    /\ pc' = [pc EXCEPT ![t] = "cache"]
    /\ BeginGet(t)
    /\ UNCHANGED <<slot, weak, refs, file, entry, change, attr, last, raced>>

(* The cache is there: look into it. *)
Lookup(t) ==
    /\ pc[t] = "cache" /\ getting[t] = "no"
    /\ LET a == entry[refs[t]]
       IN  IF a # None THEN Have(t, a)
           ELSE /\ pc' = [pc EXCEPT ![t] = "read"]
                /\ UNCHANGED <<refs, change, attr, updating>>
    /\ UNCHANGED <<slot, weak, getting, file, entry, last, raced>>

(* get_inode_from_storage, with the guard of the cache dropped. *)
ReadFile(t) ==
    /\ pc[t] = "read"
    /\ IF file = Gone THEN End(t)
       ELSE /\ attr' = [attr EXCEPT ![t] = file]
            /\ pc' = [pc EXCEPT ![t] = "fill"]
            /\ UNCHANGED <<refs, change, updating>>
    /\ UNCHANGED <<slot, weak, getting, file, entry, last, raced>>

Fill(t) ==
    /\ pc[t] = "fill"
    /\ entry' = [entry EXCEPT ![refs[t]] = attr[t]]
    /\ raced' = (raced \/ file # attr[t])
    /\ Have(t, attr[t])
    /\ UNCHANGED <<slot, weak, getting, file, last>>

(* merge_attr and write_inode_to_storage up to the cache. *)
Store(t) ==
    /\ pc[t] = "store"
    /\ LET a == [attr[t] EXCEPT ![change[t][1]] = change[t][2]]
       IN  /\ file' = a
           /\ attr' = [attr EXCEPT ![t] = a]
    /\ last' = [last EXCEPT ![change[t][1]] = change[t][2]]
    /\ pc' = [pc EXCEPT ![t] = "put"]
    /\ BeginGet(t)
    /\ UNCHANGED <<slot, weak, refs, entry, change, updating, raced>>

(* write_inode_to_storage that leaves the cache alone. *)
PutNothing(t) ==
    /\ pc[t] = "put" /\ getting[t] = "no"
    /\ End(t)
    /\ UNCHANGED <<slot, weak, getting, file, entry, last, raced>>

Put(t) ==
    /\ pc[t] = "put" /\ getting[t] = "no"
    /\ entry' = [entry EXCEPT ![refs[t]] = attr[t]]
    /\ End(t)
    /\ UNCHANGED <<slot, weak, getting, file, last, raced>>

(* remove_file and remove_dir: the file goes, the cache's entry is only    *)
(* demoted.                                                                *)
Remove(t) ==
    /\ pc[t] = "idle" /\ file # Gone
    /\ file' = Gone
    /\ pc' = [pc EXCEPT ![t] = "demote"]
    /\ BeginGet(t)
    /\ UNCHANGED <<slot, weak, refs, entry, change, attr, updating, last, raced>>

Demote(t) ==
    /\ pc[t] = "demote" /\ getting[t] = "no"
    /\ End(t)
    /\ UNCHANGED <<slot, weak, getting, file, entry, last, raced>>

(* The steps of ExpireValue; a new cache has no entry. *)
Get(t) ==
    \/ Find(t) /\ UNCHANGED <<entry, raced>>
    \/ \E v \in Values :
        /\ Provide(t, v)
        /\ entry' = [entry EXCEPT ![v] = None]
        /\ raced' = (raced \/ Live # {})
    \/ SetWeak(t) /\ UNCHANGED <<entry, raced>>

(* The LRU map makes room for another inode. *)
Evict(v) ==
    /\ entry[v] # None
    /\ entry' = [entry EXCEPT ![v] = None]
    /\ UNCHANGED <<expireVars, file, pc, change, attr, updating, last, raced>>

(* The steps of a call that wait for nobody. *)
Goes(t) ==
    \/ Lookup(t) \/ ReadFile(t) \/ Fill(t) \/ Store(t) \/ Put(t) \/ Demote(t)
    \/ Get(t) /\ UNCHANGED <<file, pc, change, attr, updating, last>>

Next ==
    \/ \E t \in Tasks :
        \/ GetAttr(t) \/ Remove(t)
        \/ \E f \in Fields, x \in Settings : SetAttr(t, f, x)
        \/ Lock(t) \/ Goes(t)
    \/ Expire /\ UNCHANGED <<file, entry, pc, change, attr, updating, last, raced>>
    \/ \E v \in Values : Evict(v)

Spec == Init /\ [][Next]_vars

-----------------------------------------------------------------------------
(* The update lock is held by a set_attr that runs, and whoever works with *)
(* the cache has a reference to it.                                        *)
TypeOK ==
    /\ ExpireTypeOK
    /\ file \in Attrs \cup {Gone} /\ last \in Attrs
    /\ entry \in [Values -> Attrs \cup {None}]
    /\ pc \in [Tasks -> {"idle", "lock", "cache", "read", "fill", "store", "put", "demote"}]
    /\ change \in [Tasks -> (Fields \X Settings) \cup {None}]
    /\ attr \in [Tasks -> Attrs \cup {None}]
    /\ updating \in Tasks \cup {None} /\ raced \in BOOLEAN
    /\ \A t \in Tasks :
         /\ pc[t] \in {"fill", "store", "put"} => attr[t] # None
         /\ pc[t] \in {"read", "fill"} => refs[t] # None
         /\ pc[t] \in {"cache", "put", "demote"} /\ getting[t] = "no" => refs[t] # None
         /\ updating = t => change[t] # None /\ pc[t] # "lock"

(* Whatever expires, is evicted or provided again in between, no cache in  *)
(* use has attributes other than those in the inode file, unless a fill    *)
(* put what it had read before a store, or two gets provided one cache     *)
(* each: these two races are the only sources of stale attributes.         *)
ServesStored ==
    ~raced /\ file # Gone /\ (\A t \in Tasks : pc[t] # "put") =>
        \A v \in Live : entry[v] \in {None, file}

(* The stored attributes have every field as it was last set: no set_attr  *)
(* undoes another one, unless it started from attributes such a race had   *)
(* left in the cache.                                                      *)
UpdatesKept == ~raced /\ file # Gone => file = last

(* A get asks for a new value only when nobody uses the old one, however   *)
(* long ago its time was over ("ensure it's taken from Weak ref"), or when *)
(* another get has not finished.                                           *)
SharedWhileLive ==
    [][\A t \in Tasks : getting[t] = "find" /\ getting'[t] = "provide" =>
         \/ raced \/ Live = {}
         \/ \E s \in Tasks \ {t} : getting[s] # "no"]_vars
=============================================================================
