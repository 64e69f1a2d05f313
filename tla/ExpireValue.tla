---------------------------- MODULE ExpireValue ----------------------------
(***************************************************************************)
(* ExpireValue (src/expire_value.rs): a value that is provided when it is  *)
(* asked for, kept for a while by a cache with one slot, and found again   *)
(* through a weak reference as long as anybody uses it.  EncryptedFs keeps *)
(* its key and its three caches in one each.                               *)
(*                                                                         *)
(* A get awaits three times, so that the gets of two tasks interleave.     *)
(* That provide may fail is in KeyStore, whose key is the one value with a *)
(* provider that can fail.                                                 *)
(***************************************************************************)
EXTENDS Naturals, FiniteSets

CONSTANTS Tasks, Values, None

ASSUME ExpireValueAssumption ==
    /\ IsFiniteSet(Tasks) /\ IsFiniteSet(Values)
    /\ None \notin Tasks \cup Values

VARIABLES
    slot,      \* what the cache keeps, or None
    weak,      \* the weak reference
    refs,      \* refs[t]: the value that task t has a strong reference to
    getting    \* getting[t]: where task t is in get, "no" when it runs none

expireVars == <<slot, weak, refs, getting>>

(* The values that somebody owns: the weak reference does not. *)
Live == {v \in Values : slot = v \/ \E t \in Tasks : refs[t] = v}

ExpireInit ==
    /\ slot = None /\ weak = None
    /\ refs = [t \in Tasks |-> None]
    /\ getting = [t \in Tasks |-> "no"]

BeginGet(t) == getting' = [getting EXCEPT ![t] = "find"]

DropRef(t) == refs' = [refs EXCEPT ![t] = None]

(* get_from_ref_or_cache that asks only the cache. *)
FoundInCacheOnly == IF weak = None THEN None ELSE slot

(* get_from_ref_or_cache: the cache is not asked before there is a weak    *)
(* reference.                                                              *)
Found ==
    IF weak = None THEN None
    ELSE IF weak \in Live THEN weak ELSE slot

Find(t) ==
    /\ getting[t] = "find"
    /\ refs' = [refs EXCEPT ![t] = Found]
    /\ getting' = [getting EXCEPT ![t] = IF Found = None THEN "provide" ELSE "no"]
    /\ UNCHANGED <<slot, weak>>

(* The provider makes value v and the cache keeps it. *)
Provide(t, v) ==
    /\ getting[t] = "provide"
    /\ v \notin Live /\ v # weak
    /\ refs' = [refs EXCEPT ![t] = v]
    /\ slot' = v
    /\ getting' = [getting EXCEPT ![t] = "weak"]
    /\ UNCHANGED weak

SetWeak(t) ==
    /\ getting[t] = "weak"
    /\ weak' = refs[t]
    /\ getting' = [getting EXCEPT ![t] = "no"]
    /\ UNCHANGED <<slot, refs>>

(* The time of the cache's entry is over, or clear. *)
Expire ==
    /\ slot # None
    /\ slot' = None
    /\ UNCHANGED <<weak, refs, getting>>

ExpireTypeOK ==
    /\ slot \in Values \cup {None} /\ weak \in Values \cup {None}
    /\ refs \in [Tasks -> Values \cup {None}]
    /\ getting \in [Tasks -> {"no", "find", "provide", "weak"}]
=============================================================================
