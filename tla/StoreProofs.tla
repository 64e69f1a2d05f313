----------------------------- MODULE StoreProofs -----------------------------
(***************************************************************************)
(* Proofs about what the data directory keeps: the attributes of an inode  *)
(* (AttrStore), for any tasks, fields, settings and caches, and the master *)
(* key (KeyStore), for any data directories, passwords and keys.  The two  *)
(* share no state; each has its own inductive invariant.                   *)
(***************************************************************************)
EXTENDS AttrStore, KeyStore, TLAPS

-----------------------------------------------------------------------------
(* Attributes. *)

(* What a task is doing tells what it has. *)
Phases ==
    \A t \in Tasks :
        /\ pc[t] \in {"idle", "demote"} => change[t] = None
        /\ pc[t] \in {"lock", "store", "put"} => change[t] # None
        /\ getting[t] # "no" => pc[t] \in {"cache", "put", "demote"}
        /\ getting[t] = "weak" => refs[t] # None

(* A set_attr past its lock has the lock. *)
Exclusive ==
    \A t \in Tasks : change[t] # None /\ pc[t] # "lock" => updating = t

(* There is one cache at a time, and the weak reference leads to it or     *)
(* will.                                                                   *)
OneLive == ~raced => \A v, w \in Live : v = w
WeakLive ==
    ~raced => \A v \in Live : weak = v \/ \E s \in Tasks : getting[s] = "weak" /\ refs[s] = v

(* A set_attr works with the fields as they were last set. *)
Working ==
    ~raced => \A t \in Tasks : pc[t] \in {"store", "put"} => attr[t] = last

(* Unless a set_attr has still to put them, the cache has them as well. *)
EntriesLast ==
    ~raced /\ (\A t \in Tasks : pc[t] # "put") => \A v \in Live : entry[v] \in {None, last}

Control == TypeOK /\ Phases /\ Exclusive
Caches == OneLive /\ WeakLive
Fresh == Working /\ EntriesLast /\ UpdatesKept

IInv == Control /\ Caches /\ Fresh

-----------------------------------------------------------------------------
(* A step that gives nothing a new owner keeps the caches in order. *)
LEMMA LiveShrinks ==
    ASSUME TypeOK, NEW t \in Tasks, slot' = slot, DropRef(t)
    PROVE  Live' \subseteq Live
BY ExpireValueAssumption DEF Live, DropRef, TypeOK, ExpireTypeOK

LEMMA LiveSame ==
    ASSUME slot' = slot, refs' = refs
    PROVE  Live' = Live
BY DEF Live

LEMMA RefLive ==
    ASSUME TypeOK, NEW t \in Tasks, refs[t] # None
    PROVE  refs[t] \in Live
BY DEF Live, TypeOK, ExpireTypeOK

LEMMA FoundLive ==
    ASSUME TypeOK, Found # None
    PROVE  Found \in Live
BY DEF Live, Found, TypeOK, ExpireTypeOK

LEMMA InitIInv == Init => IInv
<1> SUFFICES ASSUME Init PROVE IInv
  OBVIOUS
<1>1. Control
  BY AttrStoreAssumption, ExpireValueAssumption
  DEF Init, ExpireInit, Control, TypeOK, ExpireTypeOK, Phases, Exclusive, Attrs
<1>2. Live = {}
  BY ExpireValueAssumption DEF Init, ExpireInit, Live
<1> QED
  BY <1>1, <1>2 DEF Init, IInv, Caches, Fresh, OneLive, WeakLive, Working, EntriesLast, UpdatesKept

-----------------------------------------------------------------------------
(* The control of the calls. *)

LEMMA EndControl ==
    ASSUME Control, NEW t \in Tasks, End(t), getting[t] = "no",
           UNCHANGED <<slot, weak, getting, last>>,
           file' \in Attrs \cup {Gone}, entry' \in [Values -> Attrs \cup {None}],
           raced' \in BOOLEAN
    PROVE  Control'
<1>4. ExpireTypeOK'
  BY DEF Control, TypeOK, ExpireTypeOK, End, DropRef
<1>1. TypeOK'
  BY <1>4, ExpireValueAssumption DEF Control, TypeOK, ExpireTypeOK, Phases, End, DropRef
<1>2. Phases'
  BY DEF Control, TypeOK, ExpireTypeOK, Phases, End, DropRef
<1>3. Exclusive'
  BY DEF Control, TypeOK, Exclusive, End
<1> QED
  BY <1>1, <1>2, <1>3 DEF Control

LEMMA HaveControl ==
    ASSUME Control, NEW t \in Tasks, NEW a \in Attrs, Have(t, a), getting[t] = "no",
           pc[t] \in {"cache", "fill"}, UNCHANGED <<slot, weak, getting, last>>,
           file' \in Attrs \cup {Gone}, entry' \in [Values -> Attrs \cup {None}],
           raced' \in BOOLEAN
    PROVE  Control'
<1>1. CASE change[t] = None
  BY <1>1, EndControl DEF Have
<1>2. CASE change[t] # None
  <2>1. TypeOK'
    BY <1>2, AttrStoreAssumption DEF Control, TypeOK, ExpireTypeOK, Have, DropRef, Attrs
  <2>2. Phases'
    BY <1>2 DEF Control, TypeOK, ExpireTypeOK, Phases, Have, DropRef
  <2>3. Exclusive'
    BY <1>2 DEF Control, TypeOK, Exclusive, Have
  <2> QED
    BY <2>1, <2>2, <2>3 DEF Control
<1> QED
  BY <1>1, <1>2

LEMMA CallControl ==
    ASSUME Control, NEW t \in Tasks,
           \/ GetAttr(t) \/ Remove(t) \/ Lock(t)
           \/ \E f \in Fields, x \in Settings : SetAttr(t, f, x)
    PROVE  Control'
<1>1. CASE GetAttr(t)
  BY <1>1 DEF Control, TypeOK, ExpireTypeOK, Phases, Exclusive, GetAttr, BeginGet
<1>2. CASE Remove(t)
  BY <1>2 DEF Control, TypeOK, ExpireTypeOK, Phases, Exclusive, Remove, BeginGet
<1>3. CASE Lock(t)
  BY <1>3, ExpireValueAssumption
  DEF Control, TypeOK, ExpireTypeOK, Phases, Exclusive, Lock, BeginGet
<1>4. ASSUME NEW f \in Fields, NEW x \in Settings, SetAttr(t, f, x) PROVE Control'
  BY <1>4, AttrStoreAssumption, ExpireValueAssumption
  DEF Control, TypeOK, ExpireTypeOK, Phases, Exclusive, SetAttr, expireVars
<1> QED
  BY <1>1, <1>2, <1>3, <1>4

LEMMA LookupControl ==
    ASSUME Control, NEW t \in Tasks, Lookup(t)
    PROVE  Control'
<1> DEFINE a == entry[refs[t]]
<1>1. refs[t] \in Values /\ a \in Attrs \cup {None}
  BY DEF Control, TypeOK, ExpireTypeOK, Lookup
<1>2. CASE a # None
  BY <1>1, <1>2, HaveControl DEF Lookup, Control, TypeOK
<1>3. CASE a = None
  BY <1>1, <1>3 DEF Control, TypeOK, ExpireTypeOK, Phases, Exclusive, Lookup
<1> QED
  BY <1>2, <1>3

LEMMA ReadControl ==
    ASSUME Control, NEW t \in Tasks, ReadFile(t)
    PROVE  Control'
<1>1. getting[t] = "no"
  BY DEF Control, Phases, ReadFile, TypeOK, ExpireTypeOK
<1>2. CASE file = Gone
  BY <1>1, <1>2, EndControl DEF ReadFile, Control, TypeOK
<1>3. CASE file # Gone
  BY <1>1, <1>3, AttrStoreAssumption
  DEF Control, TypeOK, ExpireTypeOK, Phases, Exclusive, ReadFile, Attrs
<1> QED
  BY <1>2, <1>3

LEMMA FillControl ==
    ASSUME Control, NEW t \in Tasks, Fill(t)
    PROVE  Control'
<1>1. getting[t] = "no" /\ attr[t] \in Attrs /\ refs[t] \in Values
  BY DEF Control, Phases, Fill, TypeOK, ExpireTypeOK
<1>2. entry' \in [Values -> Attrs \cup {None}]
  BY <1>1 DEF Fill, Control, TypeOK
<1> QED
  BY <1>1, <1>2, HaveControl DEF Fill, Control, TypeOK

LEMMA StoreControl ==
    ASSUME Control, NEW t \in Tasks, Store(t)
    PROVE  Control'
<1>1. /\ attr[t] \in Attrs /\ change[t] \in Fields \X Settings
      /\ getting[t] = "no"
  BY DEF Control, TypeOK, ExpireTypeOK, Phases, Store
<1>2. /\ [attr[t] EXCEPT ![change[t][1]] = change[t][2]] \in Attrs
      /\ [last EXCEPT ![change[t][1]] = change[t][2]] \in Attrs
  BY <1>1 DEF Attrs, Control, TypeOK
<1>3. TypeOK'
  <2>1. None \notin Attrs
    BY AttrStoreAssumption DEF Attrs
  <2> QED
    BY <1>1, <1>2, <2>1 DEF Control, TypeOK, ExpireTypeOK, Store, BeginGet
<1>4. Phases' /\ Exclusive'
  BY <1>1 DEF Control, TypeOK, ExpireTypeOK, Phases, Exclusive, Store, BeginGet
<1> QED
  BY <1>3, <1>4 DEF Control

LEMMA PutControl ==
    ASSUME Control, NEW t \in Tasks, Put(t) \/ Demote(t)
    PROVE  Control'
<1>1. CASE Put(t)
  <2>1. attr[t] \in Attrs /\ refs[t] \in Values
    BY <1>1 DEF Control, Put, TypeOK, ExpireTypeOK
  <2>2. entry' \in [Values -> Attrs \cup {None}]
    BY <1>1, <2>1 DEF Put, Control, TypeOK
  <2> QED
    BY <1>1, <2>2, EndControl DEF Put, Control, TypeOK
<1>2. CASE Demote(t)
  BY <1>2, EndControl DEF Demote, Control, TypeOK
<1> QED
  BY <1>1, <1>2

LEMMA GetControl ==
    ASSUME Control, NEW t \in Tasks, Get(t), UNCHANGED <<file, pc, change, attr, updating, last>>
    PROVE  Control'
<1>1. CASE Find(t)
  <2>1. Found \in Values \cup {None}
    BY DEF Found, Control, TypeOK, ExpireTypeOK
  <2>2. entry' = entry /\ raced' = raced
    BY <1>1 DEF Get, Find, Provide, SetWeak
  <2> QED
    BY <1>1, <2>1, <2>2 DEF Control, TypeOK, ExpireTypeOK, Phases, Exclusive, Find
<1>2. ASSUME NEW v \in Values, Provide(t, v), entry' = [entry EXCEPT ![v] = None],
             raced' = (raced \/ Live # {})
      PROVE  Control'
  BY <1>2, ExpireValueAssumption
  DEF Control, TypeOK, ExpireTypeOK, Phases, Exclusive, Provide
<1>3. CASE SetWeak(t) /\ UNCHANGED <<entry, raced>>
  BY <1>3 DEF Control, TypeOK, ExpireTypeOK, Phases, Exclusive, SetWeak
<1> QED
  BY <1>1, <1>2, <1>3 DEF Get

LEMMA NextControl == Control /\ [Next]_vars => Control'
<1> SUFFICES ASSUME Control, [Next]_vars PROVE Control'
  OBVIOUS
<1>1. ASSUME NEW t \in Tasks, Goes(t) PROVE Control'
  BY <1>1, LookupControl, ReadControl, FillControl, StoreControl, PutControl, GetControl DEF Goes
<1>2. CASE Expire /\ UNCHANGED <<file, entry, pc, change, attr, updating, last, raced>>
  BY <1>2 DEF Expire, Control, TypeOK, ExpireTypeOK, Phases, Exclusive
<1>3. ASSUME NEW v \in Values, Evict(v) PROVE Control'
  BY <1>3 DEF Evict, expireVars, Control, TypeOK, ExpireTypeOK, Phases, Exclusive
<1>4. CASE UNCHANGED vars
  BY <1>4 DEF vars, Control, TypeOK, ExpireTypeOK, Phases, Exclusive
<1> QED
  BY <1>1, <1>2, <1>3, <1>4, CallControl DEF Next

-----------------------------------------------------------------------------
(* The caches. *)

LEMMA QuietCaches ==
    ASSUME Caches, weak' = weak, Live' \subseteq Live, raced => raced',
           raced \in BOOLEAN, raced' \in BOOLEAN,
           \A s \in Tasks : getting[s] = "weak" => getting'[s] = "weak" /\ refs'[s] = refs[s]
    PROVE  Caches'
BY DEF Caches, OneLive, WeakLive

(* The steps of a call outside get give no cache a new owner. *)
LEMMA CallLive ==
    ASSUME Control, NEW t \in Tasks,
           \/ GetAttr(t) \/ Remove(t) \/ Lock(t)
           \/ \E f \in Fields, x \in Settings : SetAttr(t, f, x)
           \/ Lookup(t) \/ ReadFile(t) \/ Fill(t) \/ Store(t) \/ Put(t) \/ Demote(t)
    PROVE  /\ Live' \subseteq Live /\ weak' = weak /\ (raced => raced')
           /\ \A s \in Tasks : getting[s] = "weak" => getting'[s] = "weak" /\ refs'[s] = refs[s]
<1>0. raced => raced'
  BY DEF GetAttr, Remove, Lock, SetAttr, Lookup, ReadFile, Fill, Store, Put, Demote, Control, TypeOK
<1>1. slot' = slot /\ weak' = weak /\ (refs' = refs \/ DropRef(t))
  BY DEF GetAttr, Remove, Lock, SetAttr, Lookup, ReadFile, Fill, Store, Put, Demote, End, Have,
         expireVars
<1>2. Live' \subseteq Live
  BY <1>1, LiveShrinks, LiveSame DEF Control
<1>3. getting[t] # "weak"
  BY DEF Control, Phases, GetAttr, Remove, Lock, SetAttr, Lookup, ReadFile, Fill, Store, Put, Demote,
         TypeOK, ExpireTypeOK
<1>4. getting' = getting \/ BeginGet(t)
  BY DEF GetAttr, Remove, Lock, SetAttr, Lookup, ReadFile, Fill, Store, Put, Demote, expireVars
<1>5. \A s \in Tasks : getting[s] = "weak" => getting'[s] = "weak" /\ refs'[s] = refs[s]
  BY <1>1, <1>3, <1>4 DEF BeginGet, DropRef, Control, TypeOK, ExpireTypeOK
<1> QED
  BY <1>0, <1>1, <1>2, <1>5

LEMMA FindLive ==
    ASSUME Control, NEW t \in Tasks, Find(t)
    PROVE  Live' \subseteq Live
<1>1. \A s \in Tasks : refs'[s] = IF s = t THEN Found ELSE refs[s]
  BY DEF Find, Control, TypeOK, ExpireTypeOK
<1> QED
  BY <1>1, FoundLive, ExpireValueAssumption DEF Live, Find, Control

LEMMA ProvideLive ==
    ASSUME Control, NEW t \in Tasks, NEW v \in Values, Provide(t, v), Live = {}
    PROVE  Live' = {v}
<1>1. \A s \in Tasks : refs'[s] = IF s = t THEN v ELSE refs[s]
  BY DEF Provide, Control, TypeOK, ExpireTypeOK
<1> QED
  BY <1>1 DEF Live, Provide

LEMMA GetCaches ==
    ASSUME Control, Caches, Control', NEW t \in Tasks, Get(t)
    PROVE  Caches'
<1> USE DEF Control, TypeOK, ExpireTypeOK
<1>1. CASE Find(t) /\ UNCHANGED <<entry, raced>>
  <2>1. \A s \in Tasks : getting[s] = "weak" => getting'[s] = "weak" /\ refs'[s] = refs[s]
    BY <1>1 DEF Find
  <2> QED
    BY <1>1, <2>1, FindLive, QuietCaches DEF Find
<1>2. ASSUME NEW v \in Values, Provide(t, v), raced' = (raced \/ Live # {}) PROVE Caches'
  <2>1. CASE Live = {}
    <3>1. Live' = {v} /\ refs'[t] = v /\ getting'[t] = "weak"
      BY <1>2, <2>1, ProvideLive DEF Provide
    <3> QED
      BY <3>1 DEF Caches, OneLive, WeakLive
  <2>2. CASE Live # {}
    BY <1>2, <2>2 DEF Caches, OneLive, WeakLive
  <2> QED
    BY <2>1, <2>2
<1>3. CASE SetWeak(t) /\ UNCHANGED <<entry, raced>>
  <2>1. Live' = Live
    BY <1>3, LiveSame DEF SetWeak
  <2>2. refs[t] \in Live
    BY <1>3, RefLive DEF SetWeak, Phases
  <2> QED
    BY <1>3, <2>1, <2>2 DEF SetWeak, Caches, OneLive, WeakLive
<1> QED
  BY <1>1, <1>2, <1>3 DEF Get

LEMMA ExpireLive == ASSUME Expire PROVE Live' \subseteq Live
BY ExpireValueAssumption DEF Expire, Live

LEMMA NextCaches == Control /\ Control' /\ Caches /\ [Next]_vars => Caches'
<1> SUFFICES ASSUME Control, Control', Caches, [Next]_vars PROVE Caches'
  OBVIOUS
<1>0. raced \in BOOLEAN /\ raced' \in BOOLEAN
  BY DEF Control, TypeOK
<1>1. ASSUME NEW t \in Tasks, Goes(t) \/ GetAttr(t) \/ Remove(t) \/ Lock(t)
                              \/ \E f \in Fields, x \in Settings : SetAttr(t, f, x)
      PROVE  Caches'
  BY <1>0, <1>1, CallLive, GetCaches, QuietCaches DEF Goes
<1>2. CASE Expire /\ UNCHANGED <<file, entry, pc, change, attr, updating, last, raced>>
  BY <1>0, <1>2, ExpireLive, QuietCaches DEF Expire
<1>3. ASSUME NEW v \in Values, Evict(v) PROVE Caches'
  BY <1>0, <1>3, LiveSame, QuietCaches DEF Evict, expireVars
<1>4. CASE UNCHANGED vars
  BY <1>0, <1>4, LiveSame, QuietCaches DEF vars
<1> QED
  BY <1>1, <1>2, <1>3, <1>4 DEF Next

-----------------------------------------------------------------------------
(* The attributes. *)

(* A step that leaves the inode file and the caches' entries alone. *)
LEMMA QuietFresh ==
    ASSUME Fresh, raced => raced', raced \in BOOLEAN, raced' \in BOOLEAN,
           Live' \subseteq Live, last' = last, file' \in {file, Gone},
           \A v \in Values : entry'[v] \in {entry[v], None},
           \A t \in Tasks : pc'[t] = "put" <=> pc[t] = "put",
           \A t \in Tasks : pc'[t] \in {"store", "put"} =>
               pc[t] = pc'[t] /\ attr'[t] = attr[t]
    PROVE  Fresh'
<1>1. Live \subseteq Values
  BY DEF Live
<1> QED
  BY <1>1 DEF Fresh, Working, EntriesLast, UpdatesKept

(* Only one set_attr is past its lock. *)
LEMMA OneUpdate ==
    ASSUME Control, NEW s \in Tasks, NEW t \in Tasks,
           change[s] # None, pc[s] # "lock", change[t] # None, pc[t] # "lock"
    PROVE  s = t
BY DEF Control, Exclusive

LEMMA OneStore ==
    ASSUME Control, NEW s \in Tasks, NEW t \in Tasks,
           pc[s] \in {"store", "put"}, pc[t] \in {"store", "put"}
    PROVE  s = t
<1>1. change[s] # None /\ change[t] # None /\ pc[s] # "lock" /\ pc[t] # "lock"
  BY DEF Control, Phases
<1> QED
  BY <1>1, OneUpdate

(* A call that begins or ends, or that reads the file. *)
LEMMA CallFresh ==
    ASSUME Control, Control', Fresh, NEW t \in Tasks,
           \/ GetAttr(t) \/ Remove(t) \/ Lock(t) \/ ReadFile(t) \/ Demote(t)
           \/ \E f \in Fields, x \in Settings : SetAttr(t, f, x)
    PROVE  Fresh'
<1>1. /\ pc[t] \in {"idle", "lock", "read", "demote"}
      /\ last' = last /\ entry' = entry /\ raced' = raced /\ file' \in {file, Gone}
  BY DEF GetAttr, Remove, Lock, ReadFile, Demote, SetAttr
<1>2. /\ \A s \in Tasks \ {t} : pc'[s] = pc[s] /\ attr'[s] = attr[s]
      /\ pc'[t] \notin {"store", "put"}
  BY DEF GetAttr, Remove, Lock, ReadFile, Demote, SetAttr, End, Control, TypeOK
<1>3. Live' \subseteq Live
  BY CallLive
<1>4. raced \in BOOLEAN /\ raced' \in BOOLEAN
  BY DEF Control, TypeOK
<1> QED
  BY <1>1, <1>2, <1>3, <1>4, QuietFresh

LEMMA LookupFresh ==
    ASSUME Control, Control', Fresh, NEW t \in Tasks, Lookup(t)
    PROVE  Fresh'
<1> DEFINE a == entry[refs[t]]
<1>1. Live' \subseteq Live
  BY CallLive
<1>2. raced \in BOOLEAN /\ raced' = raced /\ last' = last /\ entry' = entry /\ file' = file
  BY DEF Control, TypeOK, Lookup
<1>3. \A s \in Tasks \ {t} : pc'[s] = pc[s] /\ attr'[s] = attr[s]
  BY DEF Lookup, Have, End, Control, TypeOK
<1>4. CASE a = None \/ change[t] = None
  <2>1. pc'[t] \notin {"store", "put"} /\ pc[t] \notin {"store", "put"}
    BY <1>4 DEF Lookup, Have, End, Control, TypeOK
  <2> QED
    BY <1>1, <1>2, <1>3, <2>1, QuietFresh
<1>5. CASE a # None /\ change[t] # None
  <2>1. pc[t] = "cache" /\ pc'[t] = "store" /\ attr'[t] = a
    BY <1>5 DEF Lookup, Have, Control, TypeOK
  <2>2. \A s \in Tasks : pc[s] # "put"
    BY <1>5, <2>1, OneUpdate DEF Control, Phases
  <2>3. refs[t] \in Live
    BY RefLive DEF Lookup, Control, TypeOK
  <2>4. ~raced => a = last
    BY <1>5, <2>2, <2>3 DEF Fresh, EntriesLast
  <2>5. Working'
    BY <1>2, <1>3, <2>1, <2>4 DEF Fresh, Working
  <2>6. EntriesLast'
    BY <1>1, <1>2, <2>2 DEF Fresh, EntriesLast
  <2>7. UpdatesKept'
    BY <1>2 DEF Fresh, UpdatesKept
  <2> QED
    BY <2>5, <2>6, <2>7 DEF Fresh
<1> QED
  BY <1>4, <1>5

(* A fill that overlaps no store caches what was last set. *)
LEMMA FillFresh ==
    ASSUME Control, Control', Fresh, NEW t \in Tasks, Fill(t)
    PROVE  Fresh'
<1> SUFFICES ASSUME ~raced' PROVE Fresh'
  BY DEF Fresh, Working, EntriesLast, UpdatesKept
<1>1. ~raced /\ file = attr[t] /\ last' = last /\ file' = file
  BY DEF Fill, Control, TypeOK
<1>2. attr[t] = last
  <2>1. attr[t] \in Attrs
    BY DEF Fill, Control, TypeOK
  <2> QED
    BY <1>1, <2>1, AttrStoreAssumption DEF Fresh, UpdatesKept, Attrs
<1>3. Live' \subseteq Live
  BY CallLive
<1>4. \A v \in Values : entry'[v] \in {entry[v], last}
  BY <1>2 DEF Fill, Control, TypeOK
<1>5. /\ \A s \in Tasks \ {t} : pc'[s] = pc[s] /\ attr'[s] = attr[s]
      /\ pc[t] = "fill" /\ pc'[t] \in {"idle", "store"}
      /\ pc'[t] = "store" => attr'[t] = attr[t]
  BY DEF Fill, Have, End, Control, TypeOK
<1>6. Working'
  BY <1>1, <1>2, <1>5 DEF Fresh, Working
<1>7. EntriesLast'
  BY <1>1, <1>3, <1>4, <1>5 DEF Fresh, EntriesLast, Live
<1>8. UpdatesKept'
  BY <1>1 DEF Fresh, UpdatesKept
<1> QED
  BY <1>6, <1>7, <1>8 DEF Fresh

LEMMA StoreFresh ==
    ASSUME Control, Control', Fresh, NEW t \in Tasks, Store(t)
    PROVE  Fresh'
<1> SUFFICES ASSUME ~raced' PROVE Fresh'
  BY DEF Fresh, Working, EntriesLast, UpdatesKept
<1>1. ~raced /\ attr[t] = last
  BY DEF Store, Fresh, Working
<1>2. file' = last' /\ attr'[t] = last' /\ pc'[t] = "put"
  BY <1>1 DEF Store, Control, TypeOK
<1>3. \A s \in Tasks \ {t} : pc'[s] \notin {"store", "put"}
  BY OneStore DEF Store, Control, TypeOK
<1> QED
  BY <1>2, <1>3 DEF Fresh, Working, EntriesLast, UpdatesKept

(* A put reaches the one cache in use. *)
LEMMA PutFresh ==
    ASSUME Control, Control', Caches, Fresh, NEW t \in Tasks, Put(t)
    PROVE  Fresh'
<1> SUFFICES ASSUME ~raced' PROVE Fresh'
  BY DEF Fresh, Working, EntriesLast, UpdatesKept
<1>1. ~raced /\ attr[t] = last /\ last' = last /\ file' = file
  BY DEF Put, Fresh, Working
<1>2. refs[t] \in Live
  BY RefLive DEF Put, Control, TypeOK
<1>3. \A v \in Live : v = refs[t]
  BY <1>1, <1>2 DEF Caches, OneLive
<1>4. Live' \subseteq Live
  BY CallLive
<1>5. entry'[refs[t]] = last
  BY <1>1, <1>2 DEF Put, Control, TypeOK, Live
<1>6. \A s \in Tasks : pc'[s] \notin {"store", "put"}
  BY OneStore DEF Put, End, Control, TypeOK
<1> QED
  BY <1>1, <1>3, <1>4, <1>5, <1>6 DEF Fresh, Working, EntriesLast, UpdatesKept

LEMMA GetFresh ==
    ASSUME Control, Control', Fresh, NEW t \in Tasks, Get(t),
           UNCHANGED <<file, pc, change, attr, updating, last>>
    PROVE  Fresh'
<1>0. raced \in BOOLEAN /\ raced' \in BOOLEAN
  BY DEF Control, TypeOK
<1>1. CASE Find(t) /\ UNCHANGED <<entry, raced>>
  BY <1>0, <1>1, FindLive, QuietFresh
<1>2. ASSUME NEW v \in Values, Provide(t, v), entry' = [entry EXCEPT ![v] = None],
             raced' = (raced \/ Live # {})
      PROVE  Fresh'
  <2> SUFFICES ASSUME ~raced' PROVE Fresh'
    BY DEF Fresh, Working, EntriesLast, UpdatesKept
  <2>1. ~raced /\ Live = {}
    BY <1>0, <1>2
  <2>2. Live' = {v}
    BY <1>2, <2>1, ProvideLive
  <2>3. entry'[v] = None
    BY <1>2 DEF Control, TypeOK
  <2> QED
    BY <2>1, <2>2, <2>3 DEF Fresh, Working, EntriesLast, UpdatesKept
<1>3. CASE SetWeak(t) /\ UNCHANGED <<entry, raced>>
  <2>1. Live' = Live
    BY <1>3, LiveSame DEF SetWeak
  <2> QED
    BY <1>0, <1>3, <2>1, QuietFresh
<1> QED
  BY <1>1, <1>2, <1>3 DEF Get

LEMMA NextFresh == Control /\ Control' /\ Caches /\ Fresh /\ [Next]_vars => Fresh'
<1> SUFFICES ASSUME Control, Control', Caches, Fresh, [Next]_vars PROVE Fresh'
  OBVIOUS
<1>0. raced \in BOOLEAN /\ raced' \in BOOLEAN /\ Live \subseteq Values
  BY DEF Control, TypeOK, Live
<1>1. ASSUME NEW t \in Tasks, Goes(t) PROVE Fresh'
  BY <1>1, CallFresh, LookupFresh, FillFresh, StoreFresh, PutFresh, GetFresh DEF Goes
<1>2. CASE Expire /\ UNCHANGED <<file, entry, pc, change, attr, updating, last, raced>>
  BY <1>0, <1>2, ExpireLive, QuietFresh
<1>3. ASSUME NEW v \in Values, Evict(v) PROVE Fresh'
  <2>1. \A w \in Values : entry'[w] \in {entry[w], None}
    BY <1>3 DEF Evict, Control, TypeOK
  <2> QED
    BY <1>0, <1>3, <2>1, LiveSame, QuietFresh DEF Evict, expireVars
<1>4. CASE UNCHANGED vars
  BY <1>0, <1>4, LiveSame, QuietFresh DEF vars
<1> QED
  BY <1>1, <1>2, <1>3, <1>4, CallFresh DEF Next

LEMMA NextIInv == IInv /\ [Next]_vars => IInv'
BY NextControl, NextCaches, NextFresh DEF IInv

LEMMA Invariance == Spec => []IInv
<1> QED
  BY InitIInv, NextIInv, PTL DEF Spec

-----------------------------------------------------------------------------
(* The update lock is held only by a set_attr that runs, and every task    *)
(* that works with the cache of attributes has a reference to it.          *)
THEOREM AttrTypeCorrect == Spec => []TypeOK
<1>1. IInv => TypeOK
  BY DEF IInv, Control
<1> QED
  BY <1>1, Invariance, PTL

(* No set_attr undoes another one, however many tasks, fields and caches   *)
(* there are, unless a fill raced with a store or two gets provided one    *)
(* cache each.                                                             *)
THEOREM UpdatesKeptTheorem == Spec => []UpdatesKept
<1>1. IInv => UpdatesKept
  BY DEF IInv, Fresh
<1> QED
  BY <1>1, Invariance, PTL

(* Short of these two races, a cache in use serves the attributes that are *)
(* in the inode file.                                                      *)
THEOREM ServesStoredTheorem == Spec => []ServesStored
<1>1. IInv => ServesStored
  BY DEF IInv, Fresh, EntriesLast, UpdatesKept, ServesStored
<1> QED
  BY <1>1, Invariance, PTL

(* A get of ExpireValue that finds nothing and asks its provider does so   *)
(* because nobody uses the old value or because another get has not set    *)
(* its weak reference.                                                     *)
THEOREM SharedTheorem == Spec => SharedWhileLive
<1>1. ASSUME IInv, [Next]_vars, NEW t \in Tasks, getting[t] = "find", getting'[t] = "provide",
             ~raced, Live # {}
      PROVE  \E s \in Tasks \ {t} : getting[s] # "no"
  <2>1. Found = None
    BY <1>1
    DEF IInv, Control, TypeOK, ExpireTypeOK, Next, Goes, Get, Find, Provide, SetWeak, Expire, Evict,
        GetAttr, Remove, Lock, SetAttr, Lookup, ReadFile, Fill, Store, Put, Demote, BeginGet,
        expireVars, vars
  <2>2. PICK v \in Live : TRUE
    BY <1>1
  <2>3. weak # v
    BY <2>1, <2>2, ExpireValueAssumption DEF Found, Live
  <2>4. \E s \in Tasks : getting[s] = "weak" /\ refs[s] = v
    BY <1>1, <2>2, <2>3 DEF IInv, Caches, WeakLive
  <2> QED
    BY <1>1, <2>4
<1>2. IInv /\ [Next]_vars =>
        [\A t \in Tasks : getting[t] = "find" /\ getting'[t] = "provide" =>
           \/ raced \/ Live = {}
           \/ \E s \in Tasks \ {t} : getting[s] # "no"]_vars
  BY <1>1
<1> QED
  BY <1>2, Invariance, PTL DEF Spec, SharedWhileLive

-----------------------------------------------------------------------------
(* The master key. *)

(* A mount that draws a key left the key file empty, and from then on      *)
(* works with the key.                                                     *)
Drawing ==
    \A d \in DataDirs :
        /\ mount[d] = "newkey" => key[d] = Torn
        /\ mount[d] \in {"salt", "key", "newkey"} => pw[d] # Absent
        /\ mount[d] = "root" => cached[d] # Absent

(* Whoever has a master key in memory has the one in the key file: a mount *)
(* in its ExpireValue, a passwd in what it is about to write.              *)
SameMaster ==
    \A d \in DataDirs :
        /\ cached[d] # Absent => key[d] \in KeyFiles /\ cached[d] = key[d].master
        /\ passwd[d] # Absent => key[d] \in KeyFiles /\ passwd[d].master = key[d].master

KeyIInv == KeyTypeOK /\ Drawing /\ SameMaster /\ MasterKept

LEMMA KeyInitIInv == KeyInit => KeyIInv
BY KeyStoreAssumption DEF KeyInit, KeyIInv, KeyTypeOK, Dirs, Drawing, SameMaster, MasterKept

(* The steps that write none of the files. *)
LEMMA ProcessSteps ==
    ASSUME KeyIInv, NEW d \in DataDirs,
           \/ \E p \in Passwords : RunMount(d, p)
           \/ CheckStructure(d) \/ GetPassword(d) \/ ExpireKey(d) \/ Exit(d) \/ Crash(d)
    PROVE  KeyIInv'
<1> USE KeyStoreAssumption DEF KeyIInv, KeyTypeOK, Drawing, SameMaster, MasterKept, MountGoes, host
<1>1. ASSUME NEW p \in Passwords, RunMount(d, p) PROVE KeyIInv'
  BY <1>1 DEF RunMount
<1>2. CASE CheckStructure(d)
  BY <1>2 DEF CheckStructure
<1>3. CASE GetPassword(d)
  BY <1>3 DEF GetPassword
<1>4. CASE ExpireKey(d)
  BY <1>4 DEF ExpireKey
<1>5. CASE Exit(d)
  BY <1>5 DEF Exit, Ended
<1>6. CASE Crash(d)
  BY <1>6 DEF Crash, Ended
<1> QED
  BY <1>1, <1>2, <1>3, <1>4, <1>5, <1>6

LEMMA StructureSteps ==
    ASSUME KeyIInv, NEW d \in DataDirs, CreateDir(d) \/ Salt(d)
    PROVE  KeyIInv'
<1> USE DEF KeyIInv, KeyTypeOK, Drawing, SameMaster, MasterKept, MountGoes
<1>1. CASE CreateDir(d)
  BY <1>1 DEF CreateDir, Dirs
<1>2. CASE Salt(d)
  BY <1>2 DEF Salt
<1> QED
  BY <1>1, <1>2

(* The steps that take the master key from the key file. *)
LEMMA ReadKeySteps ==
    ASSUME KeyIInv, NEW d \in DataDirs,
           \/ ReadKey(d) \/ ProvideKey(d)
           \/ \E old, new \in Passwords : PasswdRead(d, old, new)
    PROVE  KeyIInv'
<1> USE KeyStoreAssumption DEF KeyIInv, KeyTypeOK, Drawing, SameMaster, MasterKept, MountGoes, host
<1>1. key[d] \in KeyFiles => key[d].master \in Masters
  BY DEF KeyFiles
<1>2. CASE ReadKey(d)
  BY <1>1, <1>2 DEF ReadKey, Opens
<1>3. CASE ProvideKey(d)
  BY <1>1, <1>3 DEF ProvideKey, Opens
<1>4. ASSUME NEW old \in Passwords, NEW new \in Passwords, PasswdRead(d, old, new) PROVE KeyIInv'
  <2> DEFINE k == [pw |-> new, master |-> key[d].master]
  <2>1. key[d] \in KeyFiles /\ k \in KeyFiles /\ k.master = key[d].master
    BY <1>1, <1>4 DEF PasswdRead, Opens, KeyFiles
  <2>2. passwd' = [passwd EXCEPT ![d] = k] /\ UNCHANGED <<host, keyring, mount, pw, cached>>
    BY <1>4 DEF PasswdRead
  <2> HIDE DEF k
  <2> QED
    BY <2>1, <2>2
<1> QED
  BY <1>2, <1>3, <1>4

(* The steps that write the key file or the first data. *)
LEMMA WriteKeySteps ==
    ASSUME KeyIInv, NEW d \in DataDirs,
           CreateKey(d) \/ WriteKey(d) \/ EnsureRoot(d) \/ PasswdWrite(d)
    PROVE  KeyIInv'
<1> USE KeyStoreAssumption DEF KeyIInv, KeyTypeOK, Drawing, SameMaster, MasterKept, MountGoes
<1>1. CASE CreateKey(d)
  BY <1>1 DEF CreateKey
<1>2. CASE WriteKey(d)
  <2>1. PICK m \in Masters : used' = used \cup {m} /\
                             key' = [key EXCEPT ![d] = [pw |-> pw[d], master |-> m]] /\
                             cached' = [cached EXCEPT ![d] = m]
    BY <1>2 DEF WriteKey
  <2> DEFINE k == [pw |-> pw[d], master |-> m]
  <2>2. k \in KeyFiles /\ k.master = m
    BY <1>2 DEF WriteKey, KeyFiles
  <2>3. key[d] \notin KeyFiles /\ data[d] = Absent /\ passwd[d] = Absent
    BY <1>2 DEF WriteKey
  <2>4. key' = [key EXCEPT ![d] = k]
    BY <2>1
  <2> HIDE DEF k
  <2> QED
    BY <1>2, <2>1, <2>2, <2>3, <2>4 DEF WriteKey
<1>3. CASE EnsureRoot(d)
  BY <1>3 DEF EnsureRoot
<1>4. CASE PasswdWrite(d)
  BY <1>4 DEF PasswdWrite
<1> QED
  BY <1>1, <1>2, <1>3, <1>4

LEMMA KeyNextIInv == KeyIInv /\ [KeyNext]_keyVars => KeyIInv'
<1> SUFFICES ASSUME KeyIInv, [KeyNext]_keyVars PROVE KeyIInv'
  OBVIOUS
<1>1. CASE KeyNext
  BY <1>1, ProcessSteps, StructureSteps, ReadKeySteps, WriteKeySteps DEF KeyNext, MountStep
<1>2. CASE UNCHANGED keyVars
  BY <1>2 DEF keyVars, KeyIInv, KeyTypeOK, Drawing, SameMaster, MasterKept
<1> QED
  BY <1>1, <1>2

LEMMA KeyInvariance == KeySpec => []KeyIInv
BY KeyInitIInv, KeyNextIInv, PTL DEF KeySpec

(* The salt and key files are absent, torn or complete, and no mount makes *)
(* more directories than there are.                                        *)
THEOREM KeyTypeCorrect == KeySpec => []KeyTypeOK
<1>1. KeyIInv => KeyTypeOK
  BY DEF KeyIInv
<1> QED
  BY <1>1, KeyInvariance, PTL

(* Once there is data, the key file has the master key it is encrypted     *)
(* with, wherever a mount or a passwd dies.  A passwd may write long after *)
(* it read, so the argument needs that the master key of the file cannot   *)
(* have changed in between (SameMaster).                                   *)
THEOREM MasterKeptTheorem == KeySpec => []MasterKept
<1>1. KeyIInv => MasterKept
  BY DEF KeyIInv
<1> QED
  BY <1>1, KeyInvariance, PTL

(* The key in memory of a mount is that of its data, also when it expired  *)
(* and was read again while passwd ran.                                    *)
THEOREM MasterServedTheorem == KeySpec => []MasterServed
<1>1. KeyIInv => MasterServed
  BY DEF KeyIInv, SameMaster, MasterKept, MasterServed
<1> QED
  BY <1>1, KeyInvariance, PTL
=============================================================================
