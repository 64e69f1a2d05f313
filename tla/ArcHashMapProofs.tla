-------------------------- MODULE ArcHashMapProofs --------------------------
(***************************************************************************)
(* For any number of keys, holders and values, the map of locks keeps one  *)
(* lock per key: proofs of the invariants of ArcHashMap and of its         *)
(* refinement of KeyedRwLock.                                              *)
(***************************************************************************)
EXTENDS ArcHashMap, FiniteSetTheorems, TLAPS

-----------------------------------------------------------------------------
(* A Holder has a key and a value exactly while it exists.                 *)
HolderState == \A h \in Holders :
    /\ pc[h] = "idle" => key[h] = NoKey /\ val[h] = NoVal
    /\ pc[h] # "idle" => key[h] \in Keys /\ val[h] \in Vals

(* At most one holder is inside purge, and it owns the map's lock.         *)
PurgerState == /\ \A h \in Holders : pc[h] = "purging" <=> purger = h
               /\ purger = NoHolder => todo = {}
               /\ \A k \in todo : map[k] # NoVal

(* A value belongs to one key, in the map and in the holders.              *)
OneKeyPerValue ==
    /\ \A k, l \in Keys : map[k] # NoVal /\ map[k] = map[l] => k = l
    /\ \A k \in Keys, h \in Holders : map[k] # NoVal /\ val[h] = map[k] => key[h] = k
    /\ \A g, h \in Holders : val[g] # NoVal /\ val[g] = val[h] => key[g] = key[h]

(* The entries a purge has visited are used by somebody else.              *)
VisitedInUse == \A k \in Keys :
    purger # NoHolder /\ k \notin todo /\ map[k] # NoVal =>
        \E g \in Holders : g # purger /\ key[g] = k /\ val[g] = map[k]

IInv == /\ TypeOK
        /\ HolderState
        /\ PurgerState
        /\ OneKeyPerValue
        /\ LiveEntryKept
        /\ RcExact
        /\ NoResidue
        /\ VisitedInUse

-----------------------------------------------------------------------------
(* Sets of live holders are finite, so that their cardinality counts them. *)
LEMMA HoldersFinite ==
    ASSUME NEW v \in Vals
    PROVE  IsFiniteSet(HoldersOf(v))
<1>1. HoldersOf(v) \subseteq Holders
  BY DEF HoldersOf
<1> QED
  BY <1>1, FS_Subset, ArcHashMapAssumption

(* The empty map satisfies the invariant.                                  *)
LEMMA InitIInv == Init => IInv
<1> SUFFICES ASSUME Init PROVE IInv
  OBVIOUS
<1>1. \A v \in Vals : HoldersOf(v) = {}
  BY DEF Init, HoldersOf, Live
<1>2. RcExact
  BY <1>1, FS_EmptySet DEF RcExact, Init
<1>3. TypeOK
  BY DEF Init, TypeOK
<1> QED
  BY <1>2, <1>3, ArcHashMapAssumption
  DEF Init, IInv, HolderState, PurgerState, OneKeyPerValue, LiveEntryKept,
      NoResidue, VisitedInUse, Live

(* Obtaining a Holder adds it to the live holders of its value only.       *)
LEMMA CountUp ==
    ASSUME IInv, NEW h \in Holders, NEW v \in Vals, pc[h] = "idle",
           val' = [val EXCEPT ![h] = v], pc' = [pc EXCEPT ![h] = "held"],
           rc' = [rc EXCEPT ![v] = rc[v] + 1]
    PROVE  RcExact'
<1> SUFFICES ASSUME NEW w \in Vals PROVE rc'[w] = Cardinality(HoldersOf(w)')
  BY DEF RcExact
<1>1. rc[w] = Cardinality(HoldersOf(w)) /\ IsFiniteSet(HoldersOf(w)) /\ rc[w] \in Nat
  BY HoldersFinite DEF IInv, RcExact, TypeOK
<1>2. h \notin HoldersOf(w)
  BY DEF HoldersOf, Live
<1>3. CASE w = v
  <2>1. HoldersOf(w)' = HoldersOf(w) \cup {h}
    BY <1>3 DEF HoldersOf, Live, IInv, TypeOK
  <2>2. Cardinality(HoldersOf(w)') = Cardinality(HoldersOf(w)) + 1
    BY <1>1, <1>2, <2>1, FS_AddElement
  <2>3. rc'[w] = rc[w] + 1
    BY <1>3 DEF IInv, TypeOK
  <2> QED
    BY <1>1, <2>2, <2>3
<1>4. CASE w # v
  <2>1. HoldersOf(w)' = HoldersOf(w)
    BY <1>4, <1>2 DEF HoldersOf, Live, IInv, TypeOK
  <2> QED
    BY <1>1, <1>4, <2>1 DEF IInv, TypeOK
<1> QED
  BY <1>3, <1>4

(* Steps that neither create nor drop a Holder leave every count exact.    *)
LEMMA CountSame ==
    ASSUME IInv, rc' = rc, \A w \in Vals : HoldersOf(w)' = HoldersOf(w)
    PROVE  RcExact'
BY DEF IInv, RcExact

(* A new value for a vacant key has a zero count before it is handed out.  *)
LEMMA FreshCount ==
    ASSUME IInv, NEW v \in Vals, Fresh(v)
    PROVE  rc[v] = 0
<1>1. HoldersOf(v) = {}
  BY DEF Fresh, HoldersOf
<1> QED
  BY <1>1, FS_EmptySet DEF IInv, RcExact

(* get of a present key hands out the value all holders of the key share,  *)
(* counted once more.                                                      *)
LEMMA GetIInv ==
    ASSUME IInv, NEW h \in Holders, NEW k \in Keys, Get(h, k)
    PROVE  IInv'
<1> DEFINE v == map[k]
<1>1. v \in Vals /\ pc[h] = "idle" /\ LockFree
  BY DEF Get, IInv, TypeOK
<1>2. /\ rc' = [rc EXCEPT ![v] = rc[v] + 1]
      /\ key' = [key EXCEPT ![h] = k]
      /\ val' = [val EXCEPT ![h] = v]
      /\ pc' = [pc EXCEPT ![h] = "held"]
      /\ UNCHANGED <<map, purger, todo>>
  BY DEF Get, GetInternal
<1> HIDE DEF v
<1>3. RcExact'
  BY <1>1, <1>2, CountUp
<1>4. TypeOK'
  BY <1>1, <1>2 DEF IInv, TypeOK
<1>5. map[k] = v
  BY DEF v
<1>6. HolderState' /\ PurgerState'
  BY <1>1, <1>2 DEF IInv, TypeOK, HolderState, PurgerState, LockFree
<1>7. OneKeyPerValue'
  BY <1>1, <1>2, <1>5, ArcHashMapAssumption DEF IInv, TypeOK, OneKeyPerValue
<1>8. LiveEntryKept'
  BY <1>1, <1>2, <1>5 DEF IInv, TypeOK, LiveEntryKept, Live
<1>9. NoResidue'
  <2> SUFFICES ASSUME NEW l \in Keys, map[l] # NoVal
               PROVE  \E g \in Holders : key'[g] = l /\ val'[g] = map[l]
    BY <1>2 DEF NoResidue
  <2>1. PICK g \in Holders : key[g] = l /\ val[g] = map[l]
    BY DEF IInv, NoResidue
  <2>2. g # h
    BY <2>1, <1>1, ArcHashMapAssumption DEF IInv, HolderState
  <2> QED
    BY <2>1, <2>2, <1>2 DEF IInv, TypeOK
<1>10. VisitedInUse'
  BY <1>1, <1>2 DEF VisitedInUse, LockFree
<1> QED
  BY <1>3, <1>4, <1>6, <1>7, <1>8, <1>9, <1>10 DEF IInv

(* get_or_insert_with on a vacant key uses a value nobody holds.           *)
LEMMA InsertIInv ==
    ASSUME IInv, NEW h \in Holders, NEW k \in Keys, NEW v \in Vals, InsertWith(h, k, v)
    PROVE  IInv'
<1>1. pc[h] = "idle" /\ LockFree /\ map[k] = NoVal /\ Fresh(v) /\ rc[v] = 0
  BY FreshCount DEF InsertWith
<1>2. /\ rc' = [rc EXCEPT ![v] = rc[v] + 1]
      /\ map' = [map EXCEPT ![k] = v]
      /\ key' = [key EXCEPT ![h] = k]
      /\ val' = [val EXCEPT ![h] = v]
      /\ pc' = [pc EXCEPT ![h] = "held"]
      /\ UNCHANGED <<purger, todo>>
  BY <1>1 DEF InsertWith, GetInternal
<1>3. RcExact'
  BY <1>1, <1>2, CountUp
<1>4. TypeOK'
  BY <1>1, <1>2 DEF IInv, TypeOK
<1>5. v # NoVal
  BY ArcHashMapAssumption
<1>6. HolderState' /\ PurgerState'
  BY <1>1, <1>2 DEF IInv, TypeOK, HolderState, PurgerState, LockFree
<1>7. OneKeyPerValue'
  BY <1>1, <1>2, <1>5 DEF IInv, TypeOK, OneKeyPerValue, Fresh
<1>8. LiveEntryKept'
  <2> SUFFICES ASSUME NEW g \in Holders, Live(g)' PROVE map'[key'[g]] = val'[g]
    BY DEF LiveEntryKept
  <2>1. CASE g = h
    BY <2>1, <1>2 DEF IInv, TypeOK
  <2>2. CASE g # h
    <3>1. Live(g) /\ map[key[g]] = val[g] /\ val[g] \in Vals /\ key[g] \in Keys
      BY <2>2, <1>2 DEF IInv, TypeOK, Live, LiveEntryKept, HolderState
    <3>2. key[g] # k
      BY <3>1, <1>1, ArcHashMapAssumption
    <3> QED
      BY <2>2, <3>1, <3>2, <1>2 DEF IInv, TypeOK
  <2> QED
    BY <2>1, <2>2
<1>9. NoResidue'
  <2> SUFFICES ASSUME NEW l \in Keys, map'[l] # NoVal
               PROVE  \E g \in Holders : key'[g] = l /\ val'[g] = map'[l]
    BY DEF NoResidue
  <2>1. CASE l = k
    BY <2>1, <1>2 DEF IInv, TypeOK
  <2>2. CASE l # k
    <3>1. map'[l] = map[l]
      BY <2>2, <1>2 DEF IInv, TypeOK
    <3>2. PICK g \in Holders : key[g] = l /\ val[g] = map[l]
      BY <3>1 DEF IInv, NoResidue
    <3>3. g # h
      BY <3>2, <1>1, ArcHashMapAssumption DEF IInv, HolderState
    <3> QED
      BY <3>1, <3>2, <3>3, <1>2 DEF IInv, TypeOK
  <2> QED
    BY <2>1, <2>2
<1>10. VisitedInUse'
  BY <1>1, <1>2 DEF VisitedInUse, LockFree
<1> QED
  BY <1>3, <1>4, <1>6, <1>7, <1>8, <1>9, <1>10 DEF IInv

(* Taking and giving back the lock inside the value only moves a live      *)
(* Holder between its live states.                                         *)
LEMMA LockingIInv ==
    ASSUME IInv, NEW h \in Holders, ReadLock(h) \/ WriteLock(h) \/ Unlock(h)
    PROVE  IInv'
<1>1. PICK p \in {"held", "reading", "writing"} : pc' = [pc EXCEPT ![h] = p]
  BY DEF ReadLock, WriteLock, Unlock
<1>2. Live(h) /\ UNCHANGED <<map, rc, key, val, purger, todo>>
  BY DEF ReadLock, WriteLock, Unlock, Live
<1>3. \A g \in Holders : Live(g)' <=> Live(g)
  BY <1>1, <1>2 DEF Live, IInv, TypeOK
<1>4. RcExact'
  <2>1. \A w \in Vals : HoldersOf(w)' = HoldersOf(w)
    BY <1>2, <1>3 DEF HoldersOf
  <2> QED
    BY <1>2, <2>1, CountSame
<1>5. TypeOK' /\ LiveEntryKept'
  BY <1>1, <1>2, <1>3 DEF IInv, TypeOK, LiveEntryKept
<1>6. HolderState' /\ PurgerState'
  BY <1>1, <1>2 DEF IInv, TypeOK, HolderState, PurgerState, Live
<1>7. OneKeyPerValue' /\ NoResidue' /\ VisitedInUse'
  BY <1>2 DEF IInv, OneKeyPerValue, NoResidue, VisitedInUse
<1> QED
  BY <1>4, <1>5, <1>6, <1>7 DEF IInv

(* Dropping a Holder lowers the count of its own value only.               *)
LEMMA DropIInv ==
    ASSUME IInv, NEW h \in Holders, DropDecrement(h)
    PROVE  IInv'
<1>1. /\ Live(h) /\ val[h] \in Vals /\ pc[h] = "held"
      /\ rc' = [rc EXCEPT ![val[h]] = @ - 1]
      /\ pc' = [pc EXCEPT ![h] = "dropping"]
      /\ UNCHANGED <<map, key, val, purger, todo>>
  BY DEF DropDecrement, IInv, HolderState, Live
<1>2. \A g \in Holders : Live(g)' <=> Live(g) /\ g # h
  BY <1>1 DEF Live, IInv, TypeOK
<1>3. \A w \in Vals : rc'[w] \in Nat /\ rc'[w] = Cardinality(HoldersOf(w)')
  <2> SUFFICES ASSUME NEW w \in Vals
               PROVE  rc'[w] \in Nat /\ rc'[w] = Cardinality(HoldersOf(w)')
    OBVIOUS
  <2>1. rc[w] = Cardinality(HoldersOf(w)) /\ IsFiniteSet(HoldersOf(w)) /\ rc[w] \in Nat
    BY HoldersFinite DEF IInv, RcExact, TypeOK
  <2>2. CASE w = val[h]
    <3>1. HoldersOf(w)' = HoldersOf(w) \ {h} /\ h \in HoldersOf(w)
      BY <2>2, <1>1, <1>2 DEF HoldersOf
    <3>2. Cardinality(HoldersOf(w)') = Cardinality(HoldersOf(w)) - 1
          /\ Cardinality(HoldersOf(w)') \in Nat
      BY <3>1, <2>1, FS_RemoveElement, FS_CardinalityType
    <3> QED
      BY <2>1, <2>2, <3>2, <1>1 DEF IInv, TypeOK
  <2>3. CASE w # val[h]
    <3>1. HoldersOf(w)' = HoldersOf(w)
      BY <2>3, <1>1, <1>2 DEF HoldersOf
    <3> QED
      BY <2>1, <2>3, <3>1, <1>1 DEF IInv, TypeOK
  <2> QED
    BY <2>2, <2>3
<1>4. RcExact'
  BY <1>3 DEF RcExact
<1>5. TypeOK'
  <2>1. rc' \in [Vals -> Nat]
    BY <1>1, <1>3 DEF IInv, TypeOK
  <2> QED
    BY <2>1, <1>1 DEF IInv, TypeOK
<1>6. LiveEntryKept' /\ HolderState' /\ PurgerState'
  BY <1>1, <1>2 DEF IInv, TypeOK, LiveEntryKept, HolderState, PurgerState
<1>7. OneKeyPerValue' /\ NoResidue' /\ VisitedInUse'
  BY <1>1 DEF IInv, OneKeyPerValue, NoResidue, VisitedInUse
<1> QED
  BY <1>4, <1>5, <1>6, <1>7 DEF IInv

(* purge starts by taking the map lock; the entries are as before.         *)
LEMMA PurgeBeginIInv ==
    ASSUME IInv, NEW h \in Holders, PurgeBegin(h)
    PROVE  IInv'
<1>1. /\ pc[h] = "dropping" /\ LockFree /\ purger' = h
      /\ todo' = {k \in Keys : map[k] # NoVal}
      /\ pc' = [pc EXCEPT ![h] = "purging"]
      /\ UNCHANGED <<map, rc, key, val>>
  BY DEF PurgeBegin
<1>2. \A g \in Holders : Live(g)' <=> Live(g)
  BY <1>1 DEF Live, IInv, TypeOK
<1>3. RcExact'
  <2>1. \A w \in Vals : HoldersOf(w)' = HoldersOf(w)
    BY <1>1, <1>2 DEF HoldersOf
  <2> QED
    BY <1>1, <2>1, CountSame
<1>4. TypeOK' /\ LiveEntryKept'
  BY <1>1, <1>2 DEF IInv, TypeOK, LiveEntryKept
<1>5. HolderState' /\ PurgerState'
  BY <1>1, ArcHashMapAssumption DEF IInv, TypeOK, HolderState, PurgerState, LockFree
<1>6. OneKeyPerValue' /\ NoResidue' /\ VisitedInUse'
  BY <1>1 DEF IInv, OneKeyPerValue, NoResidue, VisitedInUse
<1> QED
  BY <1>3, <1>4, <1>5, <1>6 DEF IInv

(* The heart of the argument: retain only removes an entry whose count is  *)
(* zero, hence one without live holders.                                   *)
LEMMA PurgeVisitIInv ==
    ASSUME IInv, NEW h \in Holders, NEW k \in Keys, PurgeVisit(h, k)
    PROVE  IInv'
<1>1. /\ purger = h /\ k \in todo /\ todo' = todo \ {k}
      /\ map' = [map EXCEPT ![k] = IF rc[map[k]] > 0 THEN map[k] ELSE NoVal]
      /\ UNCHANGED <<rc, key, val, pc, purger>>
  BY DEF PurgeVisit
<1>2. map[k] \in Vals /\ pc[h] = "purging"
  BY <1>1 DEF IInv, TypeOK, PurgerState
<1>3. rc[map[k]] \in Nat /\ rc[map[k]] = Cardinality(HoldersOf(map[k]))
      /\ IsFiniteSet(HoldersOf(map[k]))
  BY <1>2, HoldersFinite DEF IInv, TypeOK, RcExact
<1>4. RcExact'
  <2>1. \A w \in Vals : HoldersOf(w)' = HoldersOf(w)
    BY <1>1 DEF HoldersOf, Live
  <2> QED
    BY <1>1, <2>1, CountSame
<1>5. TypeOK'
  BY <1>1, <1>2 DEF IInv, TypeOK
<1>6. HolderState' /\ PurgerState' /\ OneKeyPerValue'
  BY <1>1, ArcHashMapAssumption
  DEF IInv, TypeOK, HolderState, PurgerState, OneKeyPerValue
<1>7. CASE rc[map[k]] > 0
  <2>1. map' = map
    BY <1>1, <1>7 DEF IInv, TypeOK
  <2>2. LiveEntryKept' /\ NoResidue'
    BY <2>1, <1>1 DEF IInv, LiveEntryKept, NoResidue, Live
  <2>3. VisitedInUse'
    <3> SUFFICES ASSUME NEW l \in Keys, l \notin todo', map[l] # NoVal
                 PROVE  \E g \in Holders : g # h /\ key[g] = l /\ val[g] = map[l]
      BY <2>1, <1>1 DEF VisitedInUse
    <3>1. CASE l = k
      <4>1. HoldersOf(map[k]) # {}
        BY <1>3, <1>7, FS_EmptySet
      <4>2. PICK g \in Holders : Live(g) /\ val[g] = map[k]
        BY <4>1 DEF HoldersOf
      <4>3. g # h /\ key[g] = k
        BY <4>2, <1>2, ArcHashMapAssumption DEF Live, IInv, OneKeyPerValue
      <4> QED
        BY <3>1, <4>2, <4>3
    <3>2. CASE l # k
      BY <3>2, <1>1, ArcHashMapAssumption DEF IInv, VisitedInUse
    <3> QED
      BY <3>1, <3>2
  <2> QED
    BY <1>4, <1>5, <1>6, <2>2, <2>3 DEF IInv
<1>8. CASE ~(rc[map[k]] > 0)
  <2>1. map' = [map EXCEPT ![k] = NoVal]
    BY <1>1, <1>8
  <2>2. HoldersOf(map[k]) = {}
    BY <1>3, <1>8, FS_EmptySet
  <2>3. LiveEntryKept'
    <3> SUFFICES ASSUME NEW g \in Holders, Live(g) PROVE map'[key[g]] = val[g]
      BY <1>1 DEF LiveEntryKept, Live
    <3>1. map[key[g]] = val[g] /\ key[g] \in Keys
      BY DEF IInv, LiveEntryKept, HolderState, Live
    <3>2. key[g] # k
      BY <3>1, <2>2 DEF HoldersOf
    <3> QED
      BY <3>1, <3>2, <2>1 DEF IInv, TypeOK
  <2>4. NoResidue' /\ VisitedInUse'
    BY <2>1, <1>1 DEF IInv, TypeOK, NoResidue, VisitedInUse
  <2> QED
    BY <1>4, <1>5, <1>6, <2>3, <2>4 DEF IInv
<1> QED
  BY <1>7, <1>8

(* purge gives the map lock back once every entry was visited: none        *)
(* without a holder is left from before.                                   *)
LEMMA PurgeEndIInv ==
    ASSUME IInv, NEW h \in Holders, PurgeEnd(h)
    PROVE  IInv'
<1>1. /\ purger = h /\ todo = {} /\ purger' = NoHolder
      /\ key' = [key EXCEPT ![h] = NoKey]
      /\ val' = [val EXCEPT ![h] = NoVal]
      /\ pc' = [pc EXCEPT ![h] = "idle"]
      /\ UNCHANGED <<map, rc, todo>>
  BY DEF PurgeEnd
<1>2. pc[h] = "purging"
  BY <1>1 DEF IInv, PurgerState
<1>3. \A g \in Holders : /\ Live(g)' <=> Live(g)
                         /\ Live(g) => g # h
  BY <1>1, <1>2 DEF Live, IInv, TypeOK
<1>4. RcExact'
  <2>1. \A w \in Vals : HoldersOf(w)' = HoldersOf(w)
    BY <1>1, <1>3 DEF HoldersOf, IInv, TypeOK
  <2> QED
    BY <1>1, <2>1, CountSame
<1>5. TypeOK' /\ LiveEntryKept'
  BY <1>1, <1>3 DEF IInv, TypeOK, LiveEntryKept
<1>6. HolderState' /\ PurgerState' /\ OneKeyPerValue'
  BY <1>1, ArcHashMapAssumption
  DEF IInv, TypeOK, HolderState, PurgerState, OneKeyPerValue
<1>7. NoResidue'
  <2> SUFFICES ASSUME NEW l \in Keys, map[l] # NoVal
               PROVE  \E g \in Holders : key'[g] = l /\ val'[g] = map[l]
    BY <1>1 DEF NoResidue
  <2>1. PICK g \in Holders : g # h /\ key[g] = l /\ val[g] = map[l]
    BY <1>1, ArcHashMapAssumption DEF IInv, VisitedInUse
  <2> QED
    BY <2>1, <1>1 DEF IInv, TypeOK
<1>8. VisitedInUse'
  BY <1>1 DEF VisitedInUse
<1> QED
  BY <1>4, <1>5, <1>6, <1>7, <1>8 DEF IInv

(* Every step of the map preserves the invariant.                          *)
LEMMA NextIInv == IInv /\ [Next]_vars => IInv'
<1> SUFFICES ASSUME IInv, [Next]_vars PROVE IInv'
  OBVIOUS
<1>1. ASSUME NEW h \in Holders, NEW k \in Keys, Get(h, k) PROVE IInv'
  BY <1>1, GetIInv
<1>2. ASSUME NEW h \in Holders, NEW k \in Keys, NEW v \in Vals, InsertWith(h, k, v)
      PROVE  IInv'
  BY <1>2, InsertIInv
<1>3. ASSUME NEW h \in Holders, ReadLock(h) \/ WriteLock(h) \/ Unlock(h) PROVE IInv'
  BY <1>3, LockingIInv
<1>4. ASSUME NEW h \in Holders, DropDecrement(h) PROVE IInv'
  BY <1>4, DropIInv
<1>5. ASSUME NEW h \in Holders, PurgeBegin(h) PROVE IInv'
  BY <1>5, PurgeBeginIInv
<1>6. ASSUME NEW h \in Holders, NEW k \in Keys, PurgeVisit(h, k) PROVE IInv'
  BY <1>6, PurgeVisitIInv
<1>7. ASSUME NEW h \in Holders, PurgeEnd(h) PROVE IInv'
  BY <1>7, PurgeEndIInv
<1>8. CASE UNCHANGED vars
  BY <1>8 DEF vars, IInv, TypeOK, HolderState, PurgerState, OneKeyPerValue, LiveEntryKept,
      RcExact, HoldersOf, NoResidue, VisitedInUse, Live
<1> QED
  BY <1>1, <1>2, <1>3, <1>4, <1>5, <1>6, <1>7, <1>8 DEF Next

(* The inductive invariant holds in every reachable state.                 *)
THEOREM Invariance == Spec => []IInv
BY InitIInv, NextIInv, PTL DEF Spec

(* Two operations on one inode never work with two different locks:        *)
(* get_or_insert_with returns the lock that is in use, because no purge    *)
(* evicts it before its last Holder is dropped.                            *)
THEOREM SameLockTheorem == Spec => []SameLock
<1>1. IInv => SameLock
  BY DEF IInv, LiveEntryKept, SameLock
<1> QED
  BY <1>1, Invariance, PTL

(* The counts stay natural numbers: no fetch_sub wraps below zero.         *)
THEOREM MapTypeCorrect == Spec => []TypeOK
<1>1. IInv => TypeOK
  BY DEF IInv
<1> QED
  BY <1>1, Invariance, PTL

(* The reference count of an entry is the number of its Holders, whenever  *)
(* clones, decrements and purges interleave.                               *)
THEOREM CountsTheorem == Spec => []RcExact
<1>1. IInv => RcExact
  BY DEF IInv
<1> QED
  BY <1>1, Invariance, PTL

(* No entry is left in the map once nobody uses it and every purge is over.*)
THEOREM NoResidueTheorem == Spec => []NoResidue
<1>1. IInv => NoResidue
  BY DEF IInv
<1> QED
  BY <1>1, Invariance, PTL

-----------------------------------------------------------------------------
(* A step of the map is a step of the per-key locks, or none.              *)
LEMMA StepRefinement == IInv /\ [Next]_vars => [Abs!Next]_(Abs!vars)
<1> SUFFICES ASSUME IInv, [Next]_vars, ~UNCHANGED Abs!vars PROVE Abs!Next
  OBVIOUS
<1> DEFINE R == [k \in Keys |-> Reading(k)]
           W == [k \in Keys |-> Writing(k)]
<1>1. ASSUME NEW h \in Holders, pc[h] = "idle" \/ pc[h] = "dropping" \/ pc[h] = "purging",
             \A g \in Holders \ {h} : pc'[g] = pc[g] /\ key'[g] = key[g],
             pc'[h] \notin {"reading", "writing"}
      PROVE  UNCHANGED Abs!vars
  <2>1. \A k \in Keys : Reading(k)' = Reading(k) /\ Writing(k)' = Writing(k)
    BY <1>1 DEF Reading, Writing
  <2> QED
    BY <2>1 DEF Abs!vars
<1>2. ASSUME UNCHANGED <<pc, key>> PROVE UNCHANGED Abs!vars
  BY <1>2 DEF Abs!vars, Reading, Writing
<1>3. ASSUME NEW h \in Holders, ReadLock(h) PROVE Abs!Next
  <2>1. /\ pc[h] = "held" /\ pc' = [pc EXCEPT ![h] = "reading"]
        /\ key' = key /\ key[h] \in Keys /\ map[key[h]] = val[h]
    BY <1>3 DEF ReadLock, IInv, HolderState, LiveEntryKept, Live
  <2>2. Writing(key[h]) = {}
    BY <1>3, <2>1 DEF ReadLock, Writing, IInv, LiveEntryKept, Live
  <2>3. \A k \in Keys : Writing(k)' = Writing(k)
    BY <2>1 DEF Writing, IInv, TypeOK
  <2>4. \A k \in Keys : Reading(k)' = IF k = key[h] THEN Reading(k) \cup {h} ELSE Reading(k)
    BY <2>1 DEF Reading, IInv, TypeOK
  <2>5. R' = [R EXCEPT ![key[h]] = @ \cup {h}] /\ W' = W
    BY <2>1, <2>3, <2>4
  <2>6. Abs!AcquireRead(h, key[h])
    BY <2>1, <2>2, <2>5 DEF Abs!AcquireRead
  <2> QED
    BY <2>1, <2>6 DEF Abs!Next
<1>4. ASSUME NEW h \in Holders, WriteLock(h) PROVE Abs!Next
  <2>1. /\ pc[h] = "held" /\ pc' = [pc EXCEPT ![h] = "writing"]
        /\ key' = key /\ key[h] \in Keys /\ map[key[h]] = val[h]
    BY <1>4 DEF WriteLock, IInv, HolderState, LiveEntryKept, Live
  <2>2. Writing(key[h]) = {} /\ Reading(key[h]) = {}
    BY <1>4, <2>1 DEF WriteLock, Writing, Reading, IInv, LiveEntryKept, Live
  <2>3. \A k \in Keys : Reading(k)' = Reading(k)
    BY <2>1 DEF Reading, IInv, TypeOK
  <2>4. \A k \in Keys : Writing(k)' = IF k = key[h] THEN {h} ELSE Writing(k)
    BY <2>1, <2>2 DEF Writing, IInv, TypeOK
  <2>5. W' = [W EXCEPT ![key[h]] = {h}] /\ R' = R
    BY <2>1, <2>3, <2>4
  <2>6. Abs!AcquireWrite(h, key[h])
    BY <2>1, <2>2, <2>5 DEF Abs!AcquireWrite
  <2> QED
    BY <2>1, <2>6 DEF Abs!Next
<1>5. ASSUME NEW h \in Holders, Unlock(h) PROVE Abs!Next
  <2>1. /\ pc[h] \in {"reading", "writing"} /\ pc' = [pc EXCEPT ![h] = "held"]
        /\ key' = key /\ key[h] \in Keys
    BY <1>5 DEF Unlock, IInv, HolderState
  <2>2. \A k \in Keys : /\ Reading(k)' = IF k = key[h] THEN Reading(k) \ {h} ELSE Reading(k)
                        /\ Writing(k)' = IF k = key[h] THEN Writing(k) \ {h} ELSE Writing(k)
    BY <2>1 DEF Reading, Writing, IInv, TypeOK
  <2>3. h \in Reading(key[h]) \cup Writing(key[h])
    BY <2>1 DEF Reading, Writing
  <2>4. R' = [R EXCEPT ![key[h]] = @ \ {h}] /\ W' = [W EXCEPT ![key[h]] = @ \ {h}]
    BY <2>1, <2>2
  <2>5. Abs!Release(h, key[h])
    BY <2>1, <2>3, <2>4 DEF Abs!Release
  <2> QED
    BY <2>1, <2>5 DEF Abs!Next
<1>6. ASSUME NEW h \in Holders, NEW k \in Keys, Get(h, k) PROVE UNCHANGED Abs!vars
  BY <1>6, <1>1 DEF Get, GetInternal, IInv, TypeOK
<1>7. ASSUME NEW h \in Holders, NEW k \in Keys, NEW v \in Vals, InsertWith(h, k, v)
      PROVE  UNCHANGED Abs!vars
  BY <1>7, <1>1 DEF InsertWith, GetInternal, IInv, TypeOK
<1>8. ASSUME NEW h \in Holders, DropDecrement(h) PROVE UNCHANGED Abs!vars
  <2>1. \A k \in Keys : Reading(k)' = Reading(k) /\ Writing(k)' = Writing(k)
    BY <1>8 DEF DropDecrement, Reading, Writing, IInv, TypeOK
  <2> QED
    BY <2>1 DEF Abs!vars
<1>9. ASSUME NEW h \in Holders, PurgeBegin(h) PROVE UNCHANGED Abs!vars
  BY <1>9, <1>1 DEF PurgeBegin, IInv, TypeOK
<1>10. ASSUME NEW h \in Holders, NEW k \in Keys, PurgeVisit(h, k) PROVE UNCHANGED Abs!vars
  BY <1>10, <1>2 DEF PurgeVisit
<1>11. ASSUME NEW h \in Holders, PurgeEnd(h) PROVE UNCHANGED Abs!vars
  BY <1>11, <1>1 DEF PurgeEnd, IInv, TypeOK, PurgerState
<1>12. CASE UNCHANGED vars
  BY <1>12, <1>2 DEF vars
<1> QED
  BY <1>3, <1>4, <1>5, <1>6, <1>7, <1>8, <1>9, <1>10, <1>11, <1>12 DEF Next

(* The map of locks implements one reader-writer lock per key: exclusion   *)
(* on the value a Holder dereferences to is exclusion on the inode.        *)
THEOREM Refinement == Spec => KeyedLocking
<1>1. Init => Abs!Init
  BY DEF Init, Abs!Init, Reading, Writing
<1>2. Spec => Abs!Init /\ [][Abs!Next]_(Abs!vars)
  BY <1>1, StepRefinement, Invariance, PTL DEF Spec
<1> QED
  BY <1>2 DEF KeyedLocking, Abs!Spec
=============================================================================
