------------------------- MODULE FuseAdapterProofs --------------------------
(* Proofs about FuseAdapter, for any inodes, names, users, modes and       *)
(* handles.                                                                *)
EXTENDS FuseAdapter, FiniteSetTheorems, TLAPS

(* The root is there: no request can name it. *)
RootKept == attr[Root] # None

(* A name leads to one inode, with attributes and a type that fit. *)
Typed ==
    /\ attr \in [Inodes -> Attrs \cup {None}]
    /\ entries \in [Inodes -> [Names -> Inodes \cup {None}]]
    /\ contents \in [Inodes -> {"empty", "data"}]
    /\ handles \in [Handles -> OpenHandles \cup {None}]
    /\ reply \in [by : Users \cup {None}, res : Errors \cup {"OK"}]

HandlesOK ==
    /\ \A h \in Handles : handles[h] # None => attr[handles[h].ino] # None
    /\ known \subseteq {h \in Handles : handles[h] # None}

IInv == Typed /\ HandlesOK /\ TreeOK /\ RootKept

LEMMA IInvTypeOK == IInv => TypeOK
BY DEF IInv, Typed, HandlesOK, TypeOK

-----------------------------------------------------------------------------
(* Modes and attributes. *)

LEMMA PermFields ==
    ASSUME NEW p \in Perms
    PROVE  /\ p.usr \subseteq Rights /\ p.grp \subseteq Rights /\ p.oth \subseteq Rights
           /\ p.suid \in BOOLEAN /\ p.sgid \in BOOLEAN /\ p.sticky \in BOOLEAN
BY DEF Perms

LEMMA WithoutSetIdPerm ==
    ASSUME NEW p \in Perms
    PROVE  /\ WithoutSetId(p) \in Perms
           /\ ~WithoutSetId(p).suid /\ ~WithoutSetId(p).sgid
BY DEF Perms, WithoutSetId

LEMMA ClearedPerm ==
    ASSUME NEW p \in Perms
    PROVE  /\ clear_suid_sgid(p) \in Perms
           /\ ~clear_suid_sgid(p).suid /\ (clear_suid_sgid(p).sgid => p.sgid)
BY DEF Perms, clear_suid_sgid

LEMMA SgidPerm ==
    ASSUME NEW p \in Perms, NEW b \in BOOLEAN
    PROVE  /\ [p EXCEPT !.sgid = b] \in Perms
           /\ [p EXCEPT !.sgid = b].sgid = b /\ [p EXCEPT !.sgid = b].suid = p.suid
BY DEF Perms

LEMMA AttrFields ==
    ASSUME NEW a \in Attrs
    PROVE  a.kind \in Kinds /\ a.uid \in Uids /\ a.gid \in Gids /\ a.perm \in Perms
BY DEF Attrs

LEMMA AttrPerm ==
    ASSUME NEW a \in Attrs, NEW p \in Perms
    PROVE  LET b == [a EXCEPT !.perm = p]
           IN  b \in Attrs /\ b.perm = p /\ b.kind = a.kind /\ b.uid = a.uid /\ b.gid = a.gid
BY DEF Attrs

LEMMA NoneNotAttr == None \notin Attrs /\ None \notin Inodes /\ None \notin OpenHandles
BY AdapterAssumption

(* What is new after the mode of one inode was set. *)
LEMMA PermSet ==
    ASSUME Typed, NEW i \in Inodes, attr[i] # None, NEW p \in Perms, SetPerm(i, p)
    PROVE  /\ attr' \in [Inodes -> Attrs \cup {None}]
           /\ \A j \in Inodes \ {i} : attr'[j] = attr[j]
           /\ attr'[i] \in Attrs /\ attr'[i].perm = p
           /\ attr'[i].kind = attr[i].kind /\ attr'[i].uid = attr[i].uid /\ attr'[i].gid = attr[i].gid
<1>1. attr[i] \in Attrs
  BY DEF Typed
<1> DEFINE a == [attr[i] EXCEPT !.perm = p]
<1>2. a \in Attrs /\ a.perm = p /\ a.kind = attr[i].kind /\ a.uid = attr[i].uid /\ a.gid = attr[i].gid
  BY <1>1, AttrPerm
<1>3. attr' = [attr EXCEPT ![i] = a]
  BY DEF SetPerm
<1> HIDE DEF a
<1> QED
  BY <1>2, <1>3 DEF Typed

-----------------------------------------------------------------------------
LEMMA InitIInv == Init => IInv
<1> SUFFICES ASSUME Init PROVE IInv
  OBVIOUS
<1>1. RootPerm \in Perms
  BY DEF RootPerm, Perms, Rights
<1>2. [kind |-> "dir", uid |-> Owner.uid, gid |-> Owner.gid, perm |-> RootPerm] \in Attrs
  BY <1>1, AdapterAssumption DEF Attrs, Uids, Gids, Kinds
<1>3. Typed /\ RootKept
  BY <1>2, AdapterAssumption DEF Init, Typed, RootKept
<1> QED
  BY <1>3 DEF Init, IInv, HandlesOK, TreeOK

-----------------------------------------------------------------------------
(* The invariant, action by action.                                        *)

(* A step that changes at most modes, contents and the reply. *)
LEMMA KeepsShape ==
    ASSUME IInv, UNCHANGED <<entries, handles, known>>, Typed',
           \A j \in Inodes : /\ attr[j] # None => attr'[j] # None
                             /\ attr[j] # None => attr'[j].kind = attr[j].kind
    PROVE  IInv'
<1>1. \A h \in Handles : handles[h] # None => handles[h].ino \in Inodes
  BY DEF IInv, Typed, OpenHandles
<1>2. HandlesOK'
  BY <1>1 DEF IInv, HandlesOK
<1>3. TreeOK'
  BY NoneNotAttr DEF IInv, Typed, TreeOK
<1>4. RootKept'
  BY AdapterAssumption DEF IInv, RootKept
<1> QED
  BY <1>2, <1>3, <1>4 DEF IInv

LEMMA AnswerTyped ==
    ASSUME NEW u \in Users \cup {None}, NEW res \in Errors \cup {"OK"}, Answer(u, res)
    PROVE  /\ reply' \in [by : Users \cup {None}, res : Errors \cup {"OK"}]
           /\ reply'.by = u /\ reply'.res = res
BY DEF Answer

LEMMA TellIInv ==
    ASSUME IInv, NEW u \in Users \cup {None}, NEW res \in Errors \cup {"OK"}, Tell(u, res)
    PROVE  IInv'
<1>1. UNCHANGED <<attr, entries, contents, handles, known>>
  BY DEF Tell, files
<1>2. Typed'
  BY <1>1, AnswerTyped DEF Tell, IInv, Typed
<1> QED
  BY <1>1, <1>2, KeepsShape

LEMMA SetPermIInv ==
    ASSUME IInv, NEW i \in Inodes, attr[i] # None, NEW p \in Perms, SetPerm(i, p),
           NEW u \in Users \cup {None}, NEW res \in Errors \cup {"OK"}, Answer(u, res),
           contents' \in [Inodes -> {"empty", "data"}], UNCHANGED <<entries, handles, known>>
    PROVE  IInv'
<1>1. Typed
  BY DEF IInv
<1>2. Typed'
  BY <1>1, PermSet, AnswerTyped DEF Typed
<1> QED
  BY <1>1, <1>2, PermSet, KeepsShape, NoneNotAttr

(* The mode that chmod, chown and a new size give. *)
LEMMA ChmodPerm ==
    ASSUME NEW mode \in Modes, NEW u \in Users, NEW i \in Inodes
    PROVE  [mode EXCEPT !.sgid = @ /\ (u.uid = 0 \/ InGroup(u, i))] \in Perms
<1>1. mode \in Perms
  BY AdapterAssumption
<1> QED
  BY <1>1 DEF Perms

LEMMA SetAttrsIInv ==
    ASSUME IInv, NEW u \in Users, SetAttrs(u)
    PROVE  IInv'
<1> USE DEF Errors
<1>0. Typed
  BY DEF IInv
<1>1. ASSUME NEW i \in Inodes, NEW mode \in Modes, Chmod(u, i, mode) PROVE IInv'
  <2>1. CASE u.uid \notin {0, attr[i].uid}
    BY <1>1, <2>1, TellIInv DEF Chmod
  <2>2. CASE u.uid \in {0, attr[i].uid}
    BY <1>0, <1>1, <2>2, ChmodPerm, SetPermIInv DEF Chmod, Typed
  <2> QED
    BY <2>1, <2>2
<1>2. ASSUME NEW i \in Inodes, Chown(u, i) PROVE IInv'
  <2> DEFINE p == attr[i].perm
             q == IF "X" \in p.usr \cup p.grp \cup p.oth THEN clear_suid_sgid(p) ELSE p
  <2>1. p \in Perms
    BY <1>0, <1>2, AttrFields DEF Chown, Typed
  <2>2. q \in Perms
    BY <2>1, ClearedPerm
  <2>3. /\ SetPerm(i, q) /\ Answer(u, "OK") /\ attr[i] # None
        /\ contents' = contents /\ UNCHANGED <<entries, handles, known>>
    BY <1>2 DEF Chown
  <2> HIDE DEF q
  <2> QED
    BY <1>0, <2>2, <2>3, SetPermIInv DEF Typed
<1>3. ASSUME NEW i \in Inodes, NEW size \in {"empty", "data", None}, NEW times \in BOOLEAN,
             SetSizeAndTimes(u, i, size, times)
      PROVE  IInv'
  <2>1. contents' \in [Inodes -> {"empty", "data"}]
    BY <1>0, <1>3 DEF SetSizeAndTimes, Typed
  <2>2. attr[i] # None /\ UNCHANGED <<entries, handles, known>>
    BY <1>3 DEF SetSizeAndTimes
  <2>3. CASE attr' = attr
    <3>1. Typed'
      BY <1>0, <1>3, <2>1, <2>2, <2>3, AnswerTyped DEF SetSizeAndTimes, Typed
    <3> QED
      BY <2>2, <2>3, <3>1, KeepsShape
  <2>4. CASE attr' # attr
    <3>1. attr[i].perm \in Perms
      BY <1>0, <2>2, AttrFields DEF Typed
    <3>2. Answer(u, "OK") /\ SetPerm(i, clear_suid_sgid(attr[i].perm))
      BY <1>3, <2>4 DEF SetSizeAndTimes, SetPerm
    <3> QED
      BY <2>1, <2>2, <3>1, <3>2, ClearedPerm, SetPermIInv
  <2> QED
    BY <2>3, <2>4
<1> QED
  BY <1>1, <1>2, <1>3 DEF SetAttrs

(* A new inode has no name yet and nothing in it. *)
LEMMA MakeIInv ==
    ASSUME IInv, NEW u \in Users, NEW d \in Inodes, NEW n \in Names, NEW kind \in Kinds,
           NEW perm \in Perms, NEW read \in BOOLEAN, NEW write \in BOOLEAN,
           IsDir(d), entries[d][n] = None, Make(u, d, n, kind, perm, read, write)
    PROVE  IInv'
<1>0. Typed /\ TreeOK /\ HandlesOK /\ RootKept
  BY DEF IInv
<1>1. PICK i \in Inodes :
        /\ attr[i] = None
        /\ attr' = [attr EXCEPT ![i] = [kind |-> kind, uid |-> u.uid,
                                         gid |-> creation_gid(d, u), perm |-> perm]]
        /\ entries' = [entries EXCEPT ![d][n] = i]
        /\ contents' = [contents EXCEPT ![i] = "empty"]
        /\ IF read \/ write
           THEN \E h \in {k \in Handles : handles[k] = None} :
                /\ handles' = [handles EXCEPT ![h] = [ino |-> i, read |-> read,
                                                       write |-> write]]
                /\ known' = known \cup {h}
           ELSE UNCHANGED <<handles, known>>
  BY DEF Make
<1> DEFINE a == [kind |-> kind, uid |-> u.uid, gid |-> creation_gid(d, u), perm |-> perm]
<1>2. a \in Attrs
  <2>1. creation_gid(d, u) \in Gids
    BY <1>0, AttrFields DEF creation_gid, Gids, IsDir, Typed
  <2> QED
    BY <2>1 DEF Attrs, Uids
<1>3. attr' = [attr EXCEPT ![i] = a]
  BY <1>1
<1> HIDE DEF a
<1>4. /\ attr' \in [Inodes -> Attrs \cup {None}]
      /\ attr'[i] # None
      /\ \A j \in Inodes \ {i} : attr'[j] = attr[j]
  BY <1>0, <1>2, <1>3, NoneNotAttr DEF Typed
<1>5. /\ handles' \in [Handles -> OpenHandles \cup {None}]
      /\ \A h \in Handles : handles'[h] = handles[h] \/ (h \in known' /\ handles'[h] # None /\ handles'[h].ino = i)
      /\ known \subseteq known' /\ known' \subseteq Handles
      /\ \A h \in known' : handles'[h] # None
  <2>1. CASE read \/ write
    <3>1. PICK h \in Handles :
            /\ handles[h] = None
            /\ handles' = [handles EXCEPT ![h] = [ino |-> i, read |-> read, write |-> write]]
            /\ known' = known \cup {h}
      BY <1>1, <2>1
    <3>2. /\ [ino |-> i, read |-> read, write |-> write] \in OpenHandles
          /\ [ino |-> i, read |-> read, write |-> write].ino = i
      BY DEF OpenHandles
    <3> QED
      BY <1>0, <3>1, <3>2, NoneNotAttr DEF Typed, HandlesOK
  <2>2. CASE ~(read \/ write)
    BY <1>0, <1>1, <2>2 DEF Typed, HandlesOK
  <2> QED
    BY <2>1, <2>2
<1>6. \A e \in Inodes, m \in Names : entries'[e][m] = IF e = d /\ m = n THEN i ELSE entries[e][m]
  BY <1>0, <1>1 DEF Typed
<1>7. Typed'
  <2>1. entries' \in [Inodes -> [Names -> Inodes \cup {None}]]
    BY <1>0, <1>1 DEF Typed
  <2>2. contents' \in [Inodes -> {"empty", "data"}]
    BY <1>0, <1>1 DEF Typed
  <2>3. reply' \in [by : Users \cup {None}, res : Errors \cup {"OK"}]
    BY AnswerTyped DEF Make
  <2> QED
    BY <1>4, <1>5, <2>1, <2>2, <2>3 DEF Typed
<1>8. HandlesOK'
  <2>1. \A h \in Handles : handles[h] # None => handles[h].ino \in Inodes
    BY <1>0 DEF Typed, OpenHandles
  <2> QED
    BY <1>0, <1>4, <1>5, <2>1 DEF HandlesOK
<1>9. TreeOK'
  <2>1. i # Root /\ i # d
    BY <1>0, <1>1 DEF RootKept, IsDir
  <2>2. \A e \in Inodes, m \in Names :
          entries[e][m] # None => e # i /\ entries[e][m] # i /\ entries[e][m] \in Inodes
    BY <1>0, <1>1 DEF TreeOK, Typed
  <2>3. attr'[d] = attr[d] /\ attr[d].kind = "dir" /\ attr[d] # None
    BY <1>4, <2>1 DEF IsDir
  <2> SUFFICES ASSUME NEW e \in Inodes, NEW m \in Names, entries'[e][m] # None
               PROVE  /\ attr'[e] # None /\ attr'[e].kind = "dir"
                      /\ attr'[entries'[e][m]] # None
                      /\ entries'[e][m] # Root
                      /\ \A f \in Inodes, k \in Names :
                           entries'[f][k] = entries'[e][m] => e = f /\ m = k
    BY DEF TreeOK
  <2>4. CASE e = d /\ m = n
    BY <1>4, <1>6, <2>1, <2>2, <2>3, <2>4, NoneNotAttr
  <2>5. CASE ~(e = d /\ m = n)
    <3>1. entries'[e][m] = entries[e][m] /\ entries[e][m] # None
      BY <1>6, <2>5
    <3>2. /\ attr[e] # None /\ attr[e].kind = "dir" /\ attr[entries[e][m]] # None
          /\ entries[e][m] # Root /\ entries[e][m] \in Inodes /\ e # i /\ entries[e][m] # i
          /\ \A f \in Inodes, k \in Names : entries[f][k] = entries[e][m] => e = f /\ m = k
      BY <1>0, <2>2, <3>1 DEF TreeOK
    <3> QED
      BY <1>4, <1>6, <3>1, <3>2
  <2> QED
    BY <2>4, <2>5
<1>10. RootKept'
  BY <1>0, <1>1, <1>4, AdapterAssumption DEF RootKept
<1> QED
  BY <1>7, <1>8, <1>9, <1>10 DEF IInv

(* The modes that new files and directories get. *)
LEMMA CreationPerm ==
    ASSUME NEW p \in Perms
    PROVE  /\ creation_mode(p) \in Perms
           /\ creation_mode(p).suid => p.suid
           /\ creation_mode(p).sgid => p.sgid
           /\ ~SuidSupport => ~creation_mode(p).suid /\ ~creation_mode(p).sgid
BY WithoutSetIdPerm, PermFields, AdapterAssumption DEF creation_mode

LEMMA AskedPerm ==
    ASSUME NEW u \in Users, NEW mode \in Modes
    PROVE  /\ AskedMode(u, mode) \in Perms
           /\ u.uid # 0 => ~AskedMode(u, mode).suid /\ ~AskedMode(u, mode).sgid
BY WithoutSetIdPerm, AdapterAssumption DEF AskedMode

(* Mkdir's mode before creation_mode. *)
LEMMA MkdirPerm ==
    ASSUME Typed, NEW u \in Users, NEW mode \in Modes, NEW d \in Inodes, attr[d] # None
    PROVE  LET p == [AskedMode(u, mode) EXCEPT !.sgid = @ \/ attr[d].perm.sgid]
           IN  /\ p \in Perms
               /\ u.uid # 0 => ~p.suid /\ (p.sgid => attr[d].perm.sgid)
<1>1. attr[d].perm.sgid \in BOOLEAN
  BY AttrFields, PermFields DEF Typed
<1>2. AskedMode(u, mode).sgid \in BOOLEAN
  BY AskedPerm, PermFields
<1>3. (AskedMode(u, mode).sgid \/ attr[d].perm.sgid) \in BOOLEAN
  OBVIOUS
<1> QED
  BY <1>1, <1>2, <1>3, AskedPerm, SgidPerm

LEMMA CreateNodIInv ==
    ASSUME IInv, NEW u \in Users, NEW d \in Inodes, NEW n \in Names, NEW kind \in Kinds,
           NEW mode \in Modes, NEW read \in BOOLEAN, NEW write \in BOOLEAN,
           CreateNod(u, d, n, kind, mode, read, write)
    PROVE  IInv'
<1>1. CASE ~check_access(attr[d], u, {"W"}) \/ entries[d][n] # None
  <2>1. \E res \in Errors : Tell(u, res)
    BY <1>1 DEF CreateNod, Errors
  <2> QED
    BY <2>1, TellIInv
<1>2. CASE check_access(attr[d], u, {"W"}) /\ entries[d][n] = None
  BY <1>2, AskedPerm, CreationPerm, MakeIInv DEF CreateNod
<1> QED
  BY <1>1, <1>2

LEMMA MkdirIInv ==
    ASSUME IInv, NEW u \in Users, NEW d \in Inodes, NEW n \in Names, NEW mode \in Modes,
           Mkdir(u, d, n, mode)
    PROVE  IInv'
<1>1. CASE ~check_access(attr[d], u, {"W"}) \/ entries[d][n] # None
  <2>1. \E res \in Errors : Tell(u, res)
    BY <1>1 DEF Mkdir, Errors
  <2> QED
    BY <2>1, TellIInv
<1>2. CASE check_access(attr[d], u, {"W"}) /\ entries[d][n] = None
  <2> DEFINE p == [AskedMode(u, mode) EXCEPT !.sgid = @ \/ attr[d].perm.sgid]
  <2>1. p \in Perms
    BY MkdirPerm DEF Mkdir, IsDir, IInv
  <2>2. IsDir(d) /\ Make(u, d, n, "dir", creation_mode(p), FALSE, FALSE)
    BY <1>2 DEF Mkdir
  <2> HIDE DEF p
  <2> QED
    BY <1>2, <2>1, <2>2, CreationPerm, MakeIInv DEF Kinds
<1> QED
  BY <1>1, <1>2

(* What goes was under one name, and there was nothing below it. *)
LEMMA RemoveIInv ==
    ASSUME IInv, NEW u \in Users, NEW d \in Inodes, NEW n \in Names,
           IsDir(d), entries[d][n] # None, IsFile(entries[d][n]) \/ IsEmpty(entries[d][n]),
           Remove(u, d, n)
    PROVE  IInv'
<1> DEFINE i == entries[d][n]
<1>0. Typed /\ TreeOK /\ HandlesOK /\ RootKept
  BY DEF IInv
<1>1. i \in Inodes /\ i # Root
  BY <1>0 DEF Typed, TreeOK
<1>2. \A m \in Names : entries[i][m] = None
  BY <1>0, <1>1 DEF TreeOK, IsFile, IsEmpty, Typed
<1>3. \A e \in Inodes, m \in Names : entries[e][m] = i => e = d /\ m = n
  BY <1>0 DEF TreeOK
<1>4. /\ attr' = [attr EXCEPT ![i] = None]
      /\ contents' = [contents EXCEPT ![i] = "empty"]
      /\ entries' = [entries EXCEPT ![d][n] = None]
      /\ UNCHANGED <<handles, known>> /\ ~IsOpen(i)
  BY DEF Remove
<1>5. \A e \in Inodes, m \in Names : entries'[e][m] = IF e = d /\ m = n THEN None ELSE entries[e][m]
  BY <1>0, <1>4 DEF Typed
<1>6. \A j \in Inodes \ {i} : attr'[j] = attr[j]
  BY <1>0, <1>1, <1>4 DEF Typed
<1> HIDE DEF i
<1>7. Typed'
  <2>1. entries' \in [Inodes -> [Names -> Inodes \cup {None}]]
    BY <1>0, <1>4 DEF Typed
  <2>2. reply' \in [by : Users \cup {None}, res : Errors \cup {"OK"}]
    BY AnswerTyped DEF Remove
  <2> QED
    BY <1>0, <1>1, <1>4, <2>1, <2>2 DEF Typed
<1>8. HandlesOK'
  <2>1. \A h \in Handles : handles[h] # None => handles[h].ino \in Inodes /\ handles[h].ino # i
    BY <1>0, <1>4 DEF Typed, OpenHandles, IsOpen
  <2> QED
    BY <1>0, <1>4, <1>6, <2>1 DEF HandlesOK
<1>9. TreeOK'
  <2> SUFFICES ASSUME NEW e \in Inodes, NEW m \in Names, entries'[e][m] # None
               PROVE  /\ attr'[e] # None /\ attr'[e].kind = "dir"
                      /\ attr'[entries'[e][m]] # None
                      /\ entries'[e][m] # Root
                      /\ \A f \in Inodes, k \in Names :
                           entries'[f][k] = entries'[e][m] => e = f /\ m = k
    BY DEF TreeOK
  <2>1. ~(e = d /\ m = n) /\ entries'[e][m] = entries[e][m]
    BY <1>5
  <2>2. e # i /\ entries[e][m] # i /\ entries[e][m] \in Inodes
    BY <1>0, <1>2, <1>3, <2>1 DEF Typed
  <2>3. /\ attr[e] # None /\ attr[e].kind = "dir" /\ attr[entries[e][m]] # None
        /\ entries[e][m] # Root
        /\ \A f \in Inodes, k \in Names : entries[f][k] = entries[e][m] => e = f /\ m = k
    BY <1>0, <2>1 DEF TreeOK
  <2> QED
    BY <1>5, <1>6, <2>1, <2>2, <2>3
<1>10. RootKept'
  BY <1>0, <1>1, <1>4, <1>6, AdapterAssumption DEF RootKept
<1> QED
  BY <1>7, <1>8, <1>9, <1>10 DEF IInv

LEMMA UnlinkIInv ==
    ASSUME IInv, NEW u \in Users, NEW d \in Inodes, NEW n \in Names,
           Unlink(u, d, n) \/ Rmdir(u, d, n)
    PROVE  IInv'
<1>1. CASE Unlink(u, d, n)
  <2>1. UnlinkVerdict(u, d, n) \in Errors \cup {"OK"}
    BY DEF UnlinkVerdict, Verdict, Errors
  <2>2. CASE UnlinkVerdict(u, d, n) # "OK"
    BY <1>1, <2>1, <2>2, TellIInv DEF Unlink
  <2>3. CASE UnlinkVerdict(u, d, n) = "OK"
    <3>1. entries[d][n] # None /\ IsFile(entries[d][n])
      BY <2>3 DEF UnlinkVerdict, Verdict
    <3> QED
      BY <1>1, <2>3, <3>1, RemoveIInv DEF Unlink
  <2> QED
    BY <2>2, <2>3
<1>2. CASE Rmdir(u, d, n)
  <2>1. RmdirVerdict(u, d, n) \in Errors \cup {"OK"}
    BY DEF RmdirVerdict, Verdict, Errors
  <2>2. CASE RmdirVerdict(u, d, n) # "OK"
    BY <1>2, <2>1, <2>2, TellIInv DEF Rmdir
  <2>3. CASE RmdirVerdict(u, d, n) = "OK"
    <3>1. entries[d][n] # None /\ IsEmpty(entries[d][n])
      BY <2>3 DEF RmdirVerdict, Verdict
    <3> QED
      BY <1>2, <2>3, <3>1, RemoveIInv DEF Rmdir
  <2> QED
    BY <2>2, <2>3
<1> QED
  BY <1>1, <1>2

(* The names after a rename that was not refused. *)
LEMMA RenameEntries ==
    ASSUME Typed, NEW u \in Users, NEW d \in Inodes, NEW n \in Names, NEW q \in Inodes,
           NEW m \in Names, Rename(u, d, n, q, m), RenameVerdict(u, d, n, q, m) = "OK"
    PROVE  /\ UNCHANGED <<attr, contents, handles, known>>
           /\ IsDir(d) /\ IsDir(q) /\ entries[d][n] # None /\ Answer(u, "OK")
           /\ entries' \in [Inodes -> [Names -> Inodes \cup {None}]]
           /\ \A e \in Inodes, k \in Names :
                entries'[e][k] = IF e = q /\ k = m THEN entries[d][n]
                                 ELSE IF e = d /\ k = n THEN None ELSE entries[e][k]
<1>1. /\ UNCHANGED <<attr, contents, handles, known>> /\ Answer(u, "OK")
      /\ IsDir(d) /\ IsDir(q) /\ entries[d][n] # None
  BY DEF Rename, RenameVerdict
<1>2. CASE d = q /\ n = m
  <2>1. entries' = entries
    BY <1>2 DEF Rename
  <2> QED
    BY <1>1, <1>2, <2>1 DEF Typed
<1>3. CASE ~(d = q /\ n = m)
  <2>1. entries' = [entries EXCEPT ![d][n] = None, ![q][m] = entries[d][n]]
    BY <1>3 DEF Rename
  <2>0. entries[d][n] \in Inodes \cup {None}
    BY DEF Typed
  <2>2. entries' \in [Inodes -> [Names -> Inodes \cup {None}]]
    BY <2>0, <2>1 DEF Typed
  <2>3. \A e \in Inodes, k \in Names :
                entries'[e][k] = IF e = q /\ k = m THEN entries[d][n]
                                 ELSE IF e = d /\ k = n THEN None ELSE entries[e][k]
    BY <1>3, <2>1 DEF Typed
  <2> QED
    BY <1>1, <2>2, <2>3
<1> QED
  BY <1>2, <1>3

LEMMA RenameVerdictTyped ==
    ASSUME NEW u, NEW d, NEW n, NEW q, NEW m
    PROVE  RenameVerdict(u, d, n, q, m) \in Errors \cup {"OK"}
BY DEF RenameVerdict, Verdict, Errors

LEMMA RenameIInv ==
    ASSUME IInv, NEW u \in Users, NEW d \in Inodes, NEW n \in Names, NEW q \in Inodes,
           NEW m \in Names, Rename(u, d, n, q, m)
    PROVE  IInv'
<1>0. Typed /\ TreeOK /\ HandlesOK /\ RootKept
  BY DEF IInv
<1>1. CASE RenameVerdict(u, d, n, q, m) # "OK"
  BY <1>1, RenameVerdictTyped, TellIInv DEF Rename
<1>2. CASE RenameVerdict(u, d, n, q, m) = "OK"
  <2> DEFINE i == entries[d][n]
  <2>1. /\ UNCHANGED <<attr, contents, handles, known>>
        /\ IsDir(d) /\ IsDir(q) /\ i # None /\ Answer(u, "OK")
        /\ entries' \in [Inodes -> [Names -> Inodes \cup {None}]]
        /\ \A e \in Inodes, k \in Names :
             entries'[e][k] = IF e = q /\ k = m THEN i
                              ELSE IF e = d /\ k = n THEN None ELSE entries[e][k]
    BY <1>0, <1>2, RenameEntries
  <2>2. i # Root /\ attr[i] # None /\ \A e \in Inodes, k \in Names : entries[e][k] = i => e = d /\ k = n
    BY <1>0, <2>1 DEF TreeOK
  <2> HIDE DEF i
  <2>3. Typed'
    BY <1>0, <2>1, AnswerTyped DEF Typed
  <2>4. HandlesOK' /\ RootKept'
    BY <1>0, <2>1 DEF HandlesOK, RootKept
  <2>5. TreeOK'
    <3> SUFFICES ASSUME NEW e \in Inodes, NEW k \in Names, entries'[e][k] # None
                 PROVE  /\ attr'[e] # None /\ attr'[e].kind = "dir"
                        /\ attr'[entries'[e][k]] # None
                        /\ entries'[e][k] # Root
                        /\ \A f \in Inodes, l \in Names :
                             entries'[f][l] = entries'[e][k] => e = f /\ k = l
      BY DEF TreeOK
    <3>1. CASE e = q /\ k = m
      BY <2>1, <2>2, <3>1 DEF IsDir
    <3>2. CASE ~(e = q /\ k = m)
      <4>1. entries'[e][k] = entries[e][k] /\ entries[e][k] # i
        BY <2>1, <2>2, <3>2
      <4>2. /\ attr[e] # None /\ attr[e].kind = "dir" /\ attr[entries[e][k]] # None
            /\ entries[e][k] # Root
            /\ \A f \in Inodes, l \in Names : entries[f][l] = entries[e][k] => e = f /\ k = l
        BY <1>0, <4>1 DEF TreeOK
      <4> QED
        BY <2>1, <4>1, <4>2
    <3> QED
      BY <3>1, <3>2
  <2> QED
    BY <2>3, <2>4, <2>5 DEF IInv
<1> QED
  BY <1>1, <1>2

(* A handle that comes in is on an inode that exists, and one for writing  *)
(* is given to the kernel.                                                 *)
LEMMA AddHandleIInv ==
    ASSUME IInv, NEW h \in Handles, handles[h] = None, NEW i \in Inodes, attr[i] # None,
           NEW read \in BOOLEAN, NEW write \in BOOLEAN,
           handles' = [handles EXCEPT ![h] = [ino |-> i, read |-> read, write |-> write]],
           known' \in {known, known \cup {h}}, write => h \in known',
           contents' \in [Inodes -> {"empty", "data"}],
           reply' \in [by : Users \cup {None}, res : Errors \cup {"OK"}],
           UNCHANGED <<attr, entries>>
    PROVE  IInv'
<1> DEFINE c == [ino |-> i, read |-> read, write |-> write]
<1>0. Typed /\ TreeOK /\ HandlesOK /\ RootKept
  BY DEF IInv
<1>1. c \in OpenHandles /\ c.ino = i /\ c.write = write
  BY DEF OpenHandles
<1>2. handles' = [handles EXCEPT ![h] = c]
  OBVIOUS
<1> HIDE DEF c
<1>3. Typed'
  BY <1>0, <1>1, <1>2 DEF Typed
<1>4. HandlesOK'
  BY <1>0, <1>1, <1>2, NoneNotAttr DEF Typed, HandlesOK
<1>5. TreeOK' /\ RootKept'
  BY <1>0 DEF TreeOK, RootKept
<1> QED
  BY <1>3, <1>4, <1>5 DEF IInv

LEMMA OpenIInv ==
    ASSUME IInv, NEW u \in Users, NEW i \in Inodes, NEW read \in BOOLEAN, NEW write \in BOOLEAN,
           NEW exec \in BOOLEAN, NEW truncate \in BOOLEAN, Open(u, i, read, write, exec, truncate)
    PROVE  IInv'
<1> DEFINE refused == (truncate /\ ~write) \/ ~check_access(attr[i], u, AccessMask(read, write, exec))
<1>0. Typed /\ attr[i] # None
  BY DEF IInv, Open, IsFile
<1>1. CASE refused
  BY <1>1, TellIInv DEF Open, Errors
<1>2. CASE ~refused
  <2>1. /\ contents' = IF truncate THEN [contents EXCEPT ![i] = "empty"] ELSE contents
        /\ OpenBelow(u, i, read, write) /\ UNCHANGED <<attr, entries>>
    BY <1>2 DEF Open
  <2>2. contents' \in [Inodes -> {"empty", "data"}]
    BY <1>0, <2>1 DEF Typed
  <2>3. reply' \in [by : Users \cup {None}, res : Errors \cup {"OK"}]
    BY <2>1, AnswerTyped DEF OpenBelow, Errors
  <2>4. CASE write /\ HasWriter(i)
    <3>1. CASE read
      <4>1. PICK h \in Handles : /\ handles[h] = None /\ known' = known
                                 /\ handles' = [handles EXCEPT ![h] =
                                        [ino |-> i, read |-> TRUE, write |-> FALSE]]
        BY <2>1, <2>4, <3>1 DEF OpenBelow
      <4> QED
        BY <1>0, <2>1, <2>2, <2>3, <4>1, AddHandleIInv
    <3>2. CASE ~read
      <4>1. UNCHANGED <<attr, entries, handles, known>>
        BY <2>1, <2>4, <3>2 DEF OpenBelow
      <4>2. Typed'
        BY <1>0, <2>2, <2>3, <4>1 DEF Typed
      <4> QED
        BY <4>1, <4>2, KeepsShape
    <3> QED
      BY <3>1, <3>2
  <2>5. CASE ~(write /\ HasWriter(i))
    <3>1. PICK h \in Handles : /\ handles[h] = None /\ known' = known \cup {h}
                               /\ handles' = [handles EXCEPT ![h] =
                                      [ino |-> i, read |-> read, write |-> write]]
      BY <2>1, <2>5 DEF OpenBelow
    <3> QED
      BY <1>0, <2>1, <2>2, <2>3, <3>1, AddHandleIInv
  <2> QED
    BY <2>4, <2>5
<1> QED
  BY <1>1, <1>2

(* The handle is gone when release asks for it. *)
LEMMA ReleaseKeepsAttr ==
    ASSUME IInv, NEW h \in Handles, Release(h)
    PROVE  attr' = attr /\ handles'[h] = None
BY DEF Release, IsWriteHandle, IInv, Typed

LEMMA HandleIInv ==
    ASSUME IInv, HandleRequests
    PROVE  IInv'
<1>0. Typed /\ TreeOK /\ HandlesOK /\ RootKept
  BY DEF IInv
<1>1. ASSUME NEW h \in Handles, Write(h) PROVE IInv'
  <2>1. contents' \in [Inodes -> {"empty", "data"}]
    BY <1>0, <1>1 DEF Write, Typed
  <2>2. Typed' /\ UNCHANGED <<attr, entries, handles, known>>
    BY <1>0, <1>1, <2>1, AnswerTyped DEF Write, Typed
  <2> QED
    BY <2>2, KeepsShape
<1>2. ASSUME NEW h \in Handles, NEW g \in Handles, NEW short \in BOOLEAN, CopyFileRange(g, h, short)
      PROVE  IInv'
  <2>1. contents' \in [Inodes -> {"empty", "data"}]
    BY <1>0, <1>2 DEF CopyFileRange, Typed
  <2>2. \E res \in Errors \cup {"OK"} : Answer(None, res)
    BY <1>2 DEF CopyFileRange, Verdict, Errors
  <2>3. Typed' /\ UNCHANGED <<attr, entries, handles, known>>
    BY <1>0, <1>2, <2>1, <2>2, AnswerTyped DEF CopyFileRange, Typed
  <2> QED
    BY <2>3, KeepsShape
<1>3. ASSUME NEW h \in Handles, Release(h) PROVE IInv'
  <2>1. /\ UNCHANGED <<attr, entries, contents>>
        /\ handles' = [handles EXCEPT ![h] = None] /\ known' = known \ {h}
    BY <1>3, ReleaseKeepsAttr DEF Release
  <2>2. Typed'
    BY <1>0, <1>3, <2>1, AnswerTyped DEF Release, Typed
  <2>3. HandlesOK'
    BY <1>0, <2>1 DEF Typed, HandlesOK
  <2>4. TreeOK' /\ RootKept'
    BY <1>0, <2>1 DEF TreeOK, RootKept
  <2> QED
    BY <2>2, <2>3, <2>4 DEF IInv
<1>4. ASSUME NEW h \in Handles, ReleaseFails(h) PROVE IInv'
  <2>1. PICK left \in LeftOf(handles[h]) : handles' = [handles EXCEPT ![h] = left]
    BY <1>4 DEF ReleaseFails
  <2>2. UNCHANGED <<attr, entries, contents>> /\ known' = known \ {h} /\ handles[h] \in OpenHandles
    BY <1>0, <1>4 DEF ReleaseFails, files, Typed, HandlesOK
  <2>3. left = None \/ (left \in OpenHandles /\ left.ino = handles[h].ino)
    BY <2>2 DEF LeftOf, OpenHandles
  <2>4. Typed'
    BY <1>0, <1>4, <2>1, <2>2, <2>3, AnswerTyped DEF ReleaseFails, Typed, Errors
  <2>5. HandlesOK'
    BY <1>0, <2>1, <2>2, <2>3, NoneNotAttr DEF Typed, HandlesOK
  <2>6. TreeOK' /\ RootKept'
    BY <1>0, <2>2 DEF TreeOK, RootKept
  <2> QED
    BY <2>4, <2>5, <2>6 DEF IInv
<1> QED
  BY <1>1, <1>2, <1>3, <1>4 DEF HandleRequests

LEMMA AsksIInv ==
    ASSUME IInv, NEW u \in Users, Asks(u)
    PROVE  IInv'
<1>1. \E res \in Errors \cup {"OK"} : Tell(u, res)
  BY DEF Asks, Lookup, Access, Verdict, Errors
<1> QED
  BY <1>1, TellIInv

(* mknod and create are one request to the file system. *)
LEMMA NameCases ==
    ASSUME NEW u, NameRequests(u)
    PROVE  \E d \in Inodes, n \in Names :
             \/ \E kind \in Kinds, mode \in Modes, read \in BOOLEAN, write \in BOOLEAN :
                   CreateNod(u, d, n, kind, mode, read, write)
             \/ \E mode \in Modes : Mkdir(u, d, n, mode)
             \/ Unlink(u, d, n) \/ Rmdir(u, d, n)
             \/ \E q \in Inodes, m \in Names : Rename(u, d, n, q, m)
<1>1. PICK d \in Inodes, n \in Names :
        \/ \E mode \in Modes :
            \/ \E kind \in Kinds : Mknod(u, d, n, kind, mode)
            \/ Mkdir(u, d, n, mode)
            \/ \E read, write \in BOOLEAN : Create(u, d, n, mode, read, write)
        \/ Unlink(u, d, n)
        \/ Rmdir(u, d, n)
        \/ \E q \in Inodes, m \in Names : Rename(u, d, n, q, m)
  BY Zenon DEF NameRequests
<1>2. "file" \in Kinds /\ FALSE \in BOOLEAN
  BY DEF Kinds
<1>3. ASSUME NEW mode \in Modes, NEW kind \in Kinds, Mknod(u, d, n, kind, mode)
      PROVE  CreateNod(u, d, n, kind, mode, FALSE, FALSE)
  BY <1>3 DEF Mknod
<1>4. ASSUME NEW mode \in Modes, NEW read \in BOOLEAN, NEW write \in BOOLEAN,
             Create(u, d, n, mode, read, write)
      PROVE  CreateNod(u, d, n, "file", mode, read, write)
  BY <1>4 DEF Create
<1>5. CASE \E mode \in Modes, kind \in Kinds : Mknod(u, d, n, kind, mode)
  <2>1. \E mode \in Modes, kind \in Kinds : CreateNod(u, d, n, kind, mode, FALSE, FALSE)
    BY <1>3, <1>5
  <2> QED
    BY <1>2, <2>1, Zenon
<1>6. CASE \E mode \in Modes, read \in BOOLEAN, write \in BOOLEAN :
              Create(u, d, n, mode, read, write)
  <2>1. \E mode \in Modes, read \in BOOLEAN, write \in BOOLEAN :
            CreateNod(u, d, n, "file", mode, read, write)
    BY <1>4, <1>6
  <2> QED
    BY <1>2, <2>1, Zenon
<1>7. CASE \/ \E mode \in Modes : Mkdir(u, d, n, mode)
           \/ Unlink(u, d, n) \/ Rmdir(u, d, n)
           \/ \E q \in Inodes, m \in Names : Rename(u, d, n, q, m)
  BY <1>7, Zenon
<1> QED
  BY <1>1, <1>5, <1>6, <1>7, Zenon

LEMMA NamesIInv ==
    ASSUME IInv, NEW u \in Users, NameRequests(u)
    PROVE  IInv'
<1>1. PICK d \in Inodes, n \in Names :
        \/ \E kind \in Kinds, mode \in Modes, read \in BOOLEAN, write \in BOOLEAN :
              CreateNod(u, d, n, kind, mode, read, write)
        \/ \E mode \in Modes : Mkdir(u, d, n, mode)
        \/ Unlink(u, d, n) \/ Rmdir(u, d, n)
        \/ \E q \in Inodes, m \in Names : Rename(u, d, n, q, m)
  BY NameCases, Zenon
<1>2. CASE \E kind \in Kinds, mode \in Modes, read \in BOOLEAN, write \in BOOLEAN :
              CreateNod(u, d, n, kind, mode, read, write)
  BY <1>2, CreateNodIInv, Zenon
<1>3. CASE \E mode \in Modes : Mkdir(u, d, n, mode)
  BY <1>3, MkdirIInv, Zenon
<1>4. CASE Unlink(u, d, n) \/ Rmdir(u, d, n)
  BY <1>4, UnlinkIInv, Zenon
<1>5. CASE \E q \in Inodes, m \in Names : Rename(u, d, n, q, m)
  BY <1>5, RenameIInv, Zenon
<1> QED
  BY <1>1, <1>2, <1>3, <1>4, <1>5, Zenon

LEMMA NextIInv == IInv /\ [Next]_vars => IInv'
<1> SUFFICES ASSUME IInv, [Next]_vars PROVE IInv'
  OBVIOUS
<1>1. CASE Next
  BY <1>1, AsksIInv, SetAttrsIInv, NamesIInv, OpenIInv, HandleIInv DEF Next
<1>2. CASE UNCHANGED vars
  BY <1>2 DEF vars, IInv, Typed, HandlesOK, TreeOK, RootKept
<1> QED
  BY <1>1, <1>2

LEMMA Invariance == Spec => []IInv
BY InitIInv, NextIInv, PTL DEF Spec

(* Whatever requests come in, names lead to inodes that exist, no inode    *)
(* has two, only directories have entries, and handles are on inodes that  *)
(* exist.                                                                  *)
THEOREM AdapterTypeCorrect == Spec => []TypeOK
BY IInvTypeOK, Invariance, PTL

(* A step that adds no writer the kernel does not get. *)
Keeps(h) == LostWriter(h)' => LostWriter(h)

LEMMA SameHandles ==
    ASSUME UNCHANGED <<handles, known>>, NEW h \in Handles
    PROVE  Keeps(h)
BY DEF Keeps, LostWriter

LEMMA MakeKeeps ==
    ASSUME IInv, NEW u, NEW d, NEW n, NEW kind, NEW perm, NEW read \in BOOLEAN,
           NEW write \in BOOLEAN, Make(u, d, n, kind, perm, read, write), NEW h \in Handles
    PROVE  Keeps(h)
<1>1. CASE UNCHANGED <<handles, known>>
  BY <1>1, SameHandles
<1>2. CASE ~UNCHANGED <<handles, known>>
  <2>1. PICK i \in Inodes, g \in Handles :
          /\ handles' = [handles EXCEPT ![g] = [ino |-> i, read |-> read, write |-> write]]
          /\ known' = known \cup {g}
    BY <1>2 DEF Make
  <2>2. handles \in [Handles -> OpenHandles \cup {None}]
    BY DEF IInv, Typed
  <2>3. CASE h = g
    BY <2>1, <2>3 DEF Keeps, LostWriter
  <2>4. CASE h # g
    <3>1. handles'[h] = handles[h] /\ (h \in known' <=> h \in known)
      BY <2>1, <2>2, <2>4
    <3> QED
      BY <3>1 DEF Keeps, LostWriter
  <2> QED
    BY <2>3, <2>4
<1> QED
  BY <1>1, <1>2

LEMMA NamesKeep ==
    ASSUME IInv, NEW u \in Users, NameRequests(u), NEW h \in Handles
    PROVE  Keeps(h)
<1>1. ASSUME NEW d, NEW n, NEW kind, NEW mode, NEW read \in BOOLEAN, NEW write \in BOOLEAN,
             CreateNod(u, d, n, kind, mode, read, write)
      PROVE  Keeps(h)
  BY <1>1, MakeKeeps, SameHandles DEF CreateNod, Tell
<1>2. ASSUME NEW d, NEW n, NEW mode, Mkdir(u, d, n, mode) PROVE Keeps(h)
  BY <1>2, MakeKeeps, SameHandles DEF Mkdir, Tell
<1>3. ASSUME NEW d, NEW n, Unlink(u, d, n) \/ Rmdir(u, d, n) PROVE Keeps(h)
  BY <1>3, SameHandles DEF Unlink, Rmdir, Remove, Tell
<1>4. ASSUME NEW d, NEW n, NEW q, NEW m, Rename(u, d, n, q, m) PROVE Keeps(h)
  BY <1>4, SameHandles DEF Rename, Tell
<1>5. PICK d \in Inodes, n \in Names :
        \/ \E kind \in Kinds, mode \in Modes, read \in BOOLEAN, write \in BOOLEAN :
              CreateNod(u, d, n, kind, mode, read, write)
        \/ \E mode \in Modes : Mkdir(u, d, n, mode)
        \/ Unlink(u, d, n) \/ Rmdir(u, d, n)
        \/ \E q \in Inodes, m \in Names : Rename(u, d, n, q, m)
  BY NameCases, Zenon
<1> QED
  BY <1>1, <1>2, <1>3, <1>4, <1>5, Zenon

LEMMA OpenKeeps ==
    ASSUME IInv, NEW u, NEW i, NEW read \in BOOLEAN, NEW write \in BOOLEAN, NEW exec,
           NEW truncate, Open(u, i, read, write, exec, truncate), NEW h \in Handles
    PROVE  Keeps(h)
<1>1. CASE UNCHANGED <<handles, known>>
  BY <1>1, SameHandles
<1>2. CASE ~UNCHANGED <<handles, known>>
  <2>1. OpenBelow(u, i, read, write)
    BY <1>2 DEF Open, Tell
  <2>2. PICK g \in Handles :
          \/ /\ handles' = [handles EXCEPT ![g] = [ino |-> i, read |-> TRUE, write |-> FALSE]]
             /\ known' = known
          \/ /\ handles' = [handles EXCEPT ![g] = [ino |-> i, read |-> read, write |-> write]]
             /\ known' = known \cup {g}
    BY <1>2, <2>1 DEF OpenBelow
  <2>3. handles \in [Handles -> OpenHandles \cup {None}]
    BY DEF IInv, Typed
  <2>4. CASE h = g
    <3>1. h \in known' \/ handles'[h] = [ino |-> i, read |-> TRUE, write |-> FALSE]
      BY <2>2, <2>3, <2>4
    <3> QED
      BY <3>1 DEF Keeps, LostWriter
  <2>5. CASE h # g
    <3>1. handles'[h] = handles[h] /\ (h \in known' <=> h \in known)
      BY <2>2, <2>3, <2>5
    <3> QED
      BY <3>1 DEF Keeps, LostWriter
  <2> QED
    BY <2>4, <2>5
<1> QED
  BY <1>1, <1>2

LEMMA HandlesKeep ==
    ASSUME IInv, HandleRequests, NEW h \in Handles
    PROVE  Keeps(h) \/ (h \in known /\ reply'.res = "EIO")
<1>1. ASSUME NEW g \in Handles, Write(g) PROVE Keeps(h)
  BY <1>1, SameHandles DEF Write
<1>2. ASSUME NEW g \in Handles, NEW f \in Handles, NEW short \in BOOLEAN, CopyFileRange(f, g, short)
      PROVE  Keeps(h)
  BY <1>2, SameHandles DEF CopyFileRange
<1>3. ASSUME NEW g \in Handles, Release(g) PROVE Keeps(h)
  BY <1>3 DEF Release, Keeps, LostWriter, IInv, Typed
<1>4. ASSUME NEW g \in Handles, ReleaseFails(g) PROVE Keeps(h) \/ (h \in known /\ reply'.res = "EIO")
  <2>1. g \in known /\ known' = known \ {g} /\ reply'.res = "EIO"
    BY <1>4 DEF ReleaseFails, Answer
  <2>2. h # g => handles'[h] = handles[h]
    BY <1>4 DEF ReleaseFails, IInv, Typed
  <2> QED
    BY <2>1, <2>2 DEF Keeps, LostWriter
<1> QED
  BY <1>1, <1>2, <1>3, <1>4 DEF HandleRequests

(* A file is left open for writing behind a handle the kernel does not     *)
(* have only by a release that answered EIO: whatever else is refused or   *)
(* granted, every writer can be closed by the kernel.                      *)
THEOREM WritersLostTheorem == Spec => WritersLost
<1>1. ASSUME IInv, Next, NEW h \in Handles
      PROVE  LostWriter(h)' /\ ~LostWriter(h) => h \in known /\ reply'.res = "EIO"
  <2>1. ASSUME NEW u \in Users, Asks(u) \/ SetAttrs(u) PROVE Keeps(h)
    <3>1. UNCHANGED <<handles, known>>
      BY <2>1 DEF Asks, Lookup, Access, Tell, SetAttrs, Chmod, Chown, SetSizeAndTimes
    <3> QED
      BY <3>1, SameHandles
  <2>2. Keeps(h) \/ (h \in known /\ reply'.res = "EIO")
    BY <1>1, <2>1, NamesKeep, OpenKeeps, HandlesKeep DEF Next
  <2> QED
    BY <2>2 DEF Keeps
<1>2. IInv /\ [Next]_vars =>
        [\A h \in Handles : LostWriter(h)' /\ ~LostWriter(h) =>
             h \in known /\ reply'.res = "EIO"]_vars
  BY <1>1
<1> QED
  BY <1>2, Invariance, PTL DEF Spec, WritersLost

-----------------------------------------------------------------------------
(* Who changes names.                                                      *)

(* Only new names, removals and renames touch the directories. *)
LEMMA OthersKeepEntries ==
    ASSUME IInv, NEW u \in Users,
           \/ Asks(u) \/ SetAttrs(u)
           \/ \E i \in Inodes, read, write, exec, truncate \in BOOLEAN :
                  Open(u, i, read, write, exec, truncate)
    PROVE  entries' = entries
BY DEF Asks, Lookup, Access, Tell, files, SetAttrs, Chmod, Chown, SetSizeAndTimes, Open

LEMMA HandlesKeepEntries ==
    ASSUME HandleRequests
    PROVE  entries' = entries
BY DEF HandleRequests, Write, Release, ReleaseFails, files, CopyFileRange

LEMMA AccessMayWrite ==
    ASSUME NEW a, NEW u, check_access(a, u, {"W"}), u.uid # 0
    PROVE  "W" \in ClassRights(a, u)
BY DEF check_access

LEMMA CreateRule ==
    ASSUME IInv, NEW u \in Users, NEW d \in Inodes, NEW n \in Names,
           \/ \E kind \in Kinds, mode \in Modes, read, write \in BOOLEAN :
                  CreateNod(u, d, n, kind, mode, read, write)
           \/ \E mode \in Modes : Mkdir(u, d, n, mode),
           NEW e \in Inodes, NEW m \in Names, entries'[e][m] # entries[e][m]
    PROVE  MayChange(reply'.by, e, m)
<1>1. /\ check_access(attr[d], u, {"W"}) /\ entries[d][n] = None /\ Answer(u, "OK")
      /\ \E i \in Inodes : entries' = [entries EXCEPT ![d][n] = i]
  BY DEF CreateNod, Mkdir, Make, Tell, files
<1>2. e = d /\ m = n
  BY <1>1 DEF IInv, Typed
<1>3. reply'.by = u
  BY <1>1 DEF Answer
<1> QED
  BY <1>1, <1>2, <1>3, AccessMayWrite DEF MayChange

(* The sticky bit was looked at. *)
LEMMA NotDenied ==
    ASSUME NEW u, NEW d, NEW n, check_access(attr[d], u, {"W"}),
           ~StickyDenies(u, d, entries[d][n])
    PROVE  MayChange(u, d, n)
BY AccessMayWrite DEF MayChange, StickyDenies

LEMMA RemoveRule ==
    ASSUME IInv, NEW u \in Users, NEW d \in Inodes, NEW n \in Names,
           Unlink(u, d, n) \/ Rmdir(u, d, n),
           NEW e \in Inodes, NEW m \in Names, entries'[e][m] # entries[e][m]
    PROVE  MayChange(reply'.by, e, m)
<1>1. /\ check_access(attr[d], u, {"W"}) /\ ~StickyDenies(u, d, entries[d][n])
      /\ Remove(u, d, n)
  BY DEF Unlink, Rmdir, UnlinkVerdict, RmdirVerdict, Tell, files
<1>2. e = d /\ m = n
  BY <1>1 DEF Remove, IInv, Typed
<1>3. reply'.by = u
  BY <1>1 DEF Remove, Answer
<1> QED
  BY <1>1, <1>2, <1>3, NotDenied

LEMMA RenameRule ==
    ASSUME IInv, NEW u \in Users, NEW d \in Inodes, NEW n \in Names, NEW q \in Inodes,
           NEW m \in Names, Rename(u, d, n, q, m),
           NEW e \in Inodes, NEW k \in Names, entries'[e][k] # entries[e][k]
    PROVE  MayChange(reply'.by, e, k)
<1>1. RenameVerdict(u, d, n, q, m) = "OK"
  BY DEF Rename, Tell, files
<1>2. /\ check_access(attr[d], u, {"W"}) /\ ~StickyDenies(u, d, entries[d][n])
      /\ check_access(attr[q], u, {"W"})
      /\ entries[q][m] = None \/ ~StickyDenies(u, q, entries[q][m])
  BY <1>1 DEF RenameVerdict
<1>3. (e = d /\ k = n) \/ (e = q /\ k = m)
  BY <1>1, RenameEntries DEF IInv
<1>4. reply'.by = u
  BY <1>1, RenameEntries DEF IInv, Answer
<1>5. entries[q][m] = None => MayChange(u, q, m)
  BY <1>2, AccessMayWrite DEF MayChange
<1> QED
  BY <1>2, <1>3, <1>4, <1>5, NotDenied

(* Whoever changes a name may write its directory and, in a sticky one,    *)
(* owns the directory or the entry, through any sequence of create, mkdir, *)
(* mknod, unlink, rmdir and rename by any users.                           *)
THEOREM DirectoryRulesTheorem == Spec => DirectoryRules
<1>1. ASSUME IInv, Next, NEW d \in Inodes, NEW n \in Names, entries'[d][n] # entries[d][n]
      PROVE  MayChange(reply'.by, d, n)
  <2>1. PICK u \in Users : NameRequests(u)
    BY <1>1, OthersKeepEntries, HandlesKeepEntries DEF Next
  <2>2. PICK e \in Inodes, m \in Names :
          \/ \E mode \in Modes :
              \/ \E kind \in Kinds : Mknod(u, e, m, kind, mode)
              \/ Mkdir(u, e, m, mode)
              \/ \E read, write \in BOOLEAN : Create(u, e, m, mode, read, write)
          \/ Unlink(u, e, m)
          \/ Rmdir(u, e, m)
          \/ \E q \in Inodes, k \in Names : Rename(u, e, m, q, k)
    BY <2>1 DEF NameRequests
  <2>3. \/ \E kind \in Kinds, mode \in Modes, read, write \in BOOLEAN :
             CreateNod(u, e, m, kind, mode, read, write)
        \/ \E mode \in Modes : Mkdir(u, e, m, mode)
        \/ Unlink(u, e, m) \/ Rmdir(u, e, m)
        \/ \E q \in Inodes, k \in Names : Rename(u, e, m, q, k)
    BY <2>2 DEF Mknod, Create, Kinds
  <2> QED
    BY <1>1, <2>3, CreateRule, RemoveRule, RenameRule
<1>2. IInv /\ [Next]_vars =>
        [\A d \in Inodes, n \in Names :
           entries'[d][n] # entries[d][n] => MayChange(reply'.by, d, n)]_vars
  BY <1>1
<1> QED
  BY <1>2, Invariance, PTL DEF Spec, DirectoryRules

-----------------------------------------------------------------------------
(* Where set-id bits come from.                                            *)

SetIdStep(i) ==
    LET old == IF attr[i] = None THEN WithoutSetId(RootPerm) ELSE attr[i].perm
        u == reply'.by
    IN  attr'[i] # None =>
        /\ attr'[i].perm.suid /\ ~old.suid =>
             u.uid = 0 \/ (u.uid = attr'[i].uid /\ attr[i] # None)
        /\ attr'[i].perm.sgid /\ ~old.sgid =>
             \/ u.uid = 0
             \/ attr[i] # None /\ u.uid = attr[i].uid /\ InGroup(u, i)
             \/ /\ attr[i] = None /\ attr'[i].kind = "dir"
                /\ \E d \in Inodes, n \in Names :
                     entries'[d][n] = i /\ attr[d].perm.sgid
        /\ attr[i] = None /\ ~SuidSupport => ~attr'[i].perm.suid /\ ~attr'[i].perm.sgid

(* An inode whose attributes stay, or lose set-id bits. *)
LEMMA SetIdKept ==
    ASSUME NEW i \in Inodes, attr'[i] = attr[i]
    PROVE  SetIdStep(i)
BY DEF SetIdStep

LEMMA SetIdCleared ==
    ASSUME Typed, NEW i \in Inodes, attr[i] # None, NEW p \in Perms, SetPerm(i, p),
           p.suid => attr[i].perm.suid, p.sgid => attr[i].perm.sgid, NEW j \in Inodes
    PROVE  SetIdStep(j)
BY PermSet, SetIdKept DEF SetIdStep

LEMMA SetAttrsSetId ==
    ASSUME IInv, NEW u \in Users, SetAttrs(u), NEW j \in Inodes
    PROVE  SetIdStep(j)
<1>0. Typed
  BY DEF IInv
<1>1. ASSUME NEW i \in Inodes, NEW mode \in Modes, Chmod(u, i, mode) PROVE SetIdStep(j)
  <2>1. CASE u.uid \notin {0, attr[i].uid}
    BY <1>1, <2>1, SetIdKept DEF Chmod, Tell, files
  <2>2. CASE u.uid \in {0, attr[i].uid}
    <3> DEFINE p == [mode EXCEPT !.sgid = @ /\ (u.uid = 0 \/ InGroup(u, i))]
    <3>1. p \in Perms /\ (p.sgid => u.uid = 0 \/ InGroup(u, i))
      BY ChmodPerm, AdapterAssumption DEF Perms
    <3>2. attr[i] # None /\ SetPerm(i, p) /\ reply'.by = u
      BY <1>1, <2>2 DEF Chmod, Answer
    <3> HIDE DEF p
    <3>3. CASE j = i
      BY <1>0, <2>2, <3>1, <3>2, <3>3, PermSet DEF SetIdStep
    <3>4. CASE j # i
      BY <1>0, <3>1, <3>2, <3>4, PermSet, SetIdKept
    <3> QED
      BY <3>3, <3>4
  <2> QED
    BY <2>1, <2>2
<1>2. ASSUME NEW i \in Inodes, Chown(u, i) PROVE SetIdStep(j)
  <2> DEFINE p == attr[i].perm
             q == IF "X" \in p.usr \cup p.grp \cup p.oth THEN clear_suid_sgid(p) ELSE p
  <2>1. p \in Perms
    BY <1>0, <1>2, AttrFields DEF Chown, Typed
  <2>2. q \in Perms /\ (q.suid => p.suid) /\ (q.sgid => p.sgid)
    BY <2>1, ClearedPerm
  <2>3. SetPerm(i, q) /\ attr[i] # None
    BY <1>2 DEF Chown
  <2> HIDE DEF q
  <2> QED
    BY <1>0, <2>2, <2>3, SetIdCleared
<1>3. ASSUME NEW i \in Inodes, NEW size \in {"empty", "data", None}, NEW times \in BOOLEAN,
             SetSizeAndTimes(u, i, size, times)
      PROVE  SetIdStep(j)
  <2>1. CASE attr' = attr
    BY <2>1, SetIdKept
  <2>2. CASE attr' # attr
    <3>1. attr[i] # None /\ SetPerm(i, clear_suid_sgid(attr[i].perm))
      BY <1>3, <2>2 DEF SetSizeAndTimes, SetPerm
    <3>2. attr[i].perm \in Perms
      BY <1>0, <3>1, AttrFields DEF Typed
    <3> QED
      BY <1>0, <3>1, <3>2, ClearedPerm, SetIdCleared
  <2> QED
    BY <2>1, <2>2
<1> QED
  BY <1>1, <1>2, <1>3 DEF SetAttrs

LEMMA MakeSetId ==
    ASSUME IInv, NEW u \in Users, NEW d \in Inodes, NEW n \in Names, NEW kind \in Kinds,
           NEW perm \in Perms, NEW read \in BOOLEAN, NEW write \in BOOLEAN,
           Make(u, d, n, kind, perm, read, write),
           u.uid # 0 => ~perm.suid /\ (perm.sgid => kind = "dir" /\ attr[d].perm.sgid),
           ~SuidSupport => ~perm.suid /\ ~perm.sgid,
           NEW j \in Inodes
    PROVE  SetIdStep(j)
<1>1. PICK i \in Inodes :
        /\ attr[i] = None
        /\ attr' = [attr EXCEPT ![i] = [kind |-> kind, uid |-> u.uid,
                                         gid |-> creation_gid(d, u), perm |-> perm]]
        /\ entries' = [entries EXCEPT ![d][n] = i]
  BY DEF Make
<1>2. entries'[d][n] = i /\ reply'.by = u
  BY <1>1 DEF IInv, Typed, Make, Answer
<1>3. CASE j = i
  <2>1. attr'[i].perm = perm /\ attr'[i].kind = kind
    BY <1>1 DEF IInv, Typed
  <2> QED
    BY <1>1, <1>2, <1>3, <2>1 DEF SetIdStep
<1>4. CASE j # i
  BY <1>1, <1>4, SetIdKept DEF IInv, Typed
<1> QED
  BY <1>3, <1>4

LEMMA NamesSetId ==
    ASSUME IInv, NEW u \in Users, NameRequests(u), NEW j \in Inodes
    PROVE  SetIdStep(j)
<1>1. ASSUME NEW d \in Inodes, NEW n \in Names, NEW kind \in Kinds, NEW mode \in Modes,
             NEW read \in BOOLEAN, NEW write \in BOOLEAN,
             CreateNod(u, d, n, kind, mode, read, write)
      PROVE  SetIdStep(j)
  <2>1. CASE \E res : Tell(u, res)
    BY <2>1, SetIdKept DEF Tell, files
  <2>2. CASE Make(u, d, n, kind, creation_mode(AskedMode(u, mode)), read, write)
    BY <2>2, AskedPerm, CreationPerm, MakeSetId
  <2> QED
    BY <1>1, <2>1, <2>2 DEF CreateNod
<1>2. ASSUME NEW d \in Inodes, NEW n \in Names, NEW mode \in Modes, Mkdir(u, d, n, mode)
      PROVE  SetIdStep(j)
  <2> DEFINE p == [AskedMode(u, mode) EXCEPT !.sgid = @ \/ attr[d].perm.sgid]
  <2>1. CASE \E res : Tell(u, res)
    BY <2>1, SetIdKept DEF Tell, files
  <2>2. CASE Make(u, d, n, "dir", creation_mode(p), FALSE, FALSE)
    <3>1. p \in Perms /\ (u.uid # 0 => ~p.suid /\ (p.sgid => attr[d].perm.sgid))
      BY <1>2, MkdirPerm DEF Mkdir, IsDir, IInv
    <3> HIDE DEF p
    <3> QED
      BY <2>2, <3>1, CreationPerm, MakeSetId DEF Kinds
  <2> QED
    BY <1>2, <2>1, <2>2 DEF Mkdir
<1>3. ASSUME NEW d \in Inodes, NEW n \in Names, Unlink(u, d, n) \/ Rmdir(u, d, n)
      PROVE  SetIdStep(j)
  <2>1. attr'[j] \in {attr[j], None}
    BY <1>3 DEF Unlink, Rmdir, Tell, files, Remove, IInv, Typed
  <2> QED
    BY <2>1 DEF SetIdStep
<1>4. ASSUME NEW d \in Inodes, NEW n \in Names, NEW q \in Inodes, NEW m \in Names,
             Rename(u, d, n, q, m)
      PROVE  SetIdStep(j)
  BY <1>4, SetIdKept DEF Rename, Tell, files
<1>5. PICK d \in Inodes, n \in Names :
        \/ \E kind \in Kinds, mode \in Modes, read \in BOOLEAN, write \in BOOLEAN :
              CreateNod(u, d, n, kind, mode, read, write)
        \/ \E mode \in Modes : Mkdir(u, d, n, mode)
        \/ Unlink(u, d, n) \/ Rmdir(u, d, n)
        \/ \E q \in Inodes, m \in Names : Rename(u, d, n, q, m)
  BY NameCases, Zenon
<1>6. CASE \E kind \in Kinds, mode \in Modes, read \in BOOLEAN, write \in BOOLEAN :
              CreateNod(u, d, n, kind, mode, read, write)
  BY <1>1, <1>6, Zenon
<1>7. CASE \E mode \in Modes : Mkdir(u, d, n, mode)
  BY <1>2, <1>7, Zenon
<1>8. CASE Unlink(u, d, n) \/ Rmdir(u, d, n)
  BY <1>3, <1>8, Zenon
<1>9. CASE \E q \in Inodes, m \in Names : Rename(u, d, n, q, m)
  BY <1>4, <1>9, Zenon
<1> QED
  BY <1>5, <1>6, <1>7, <1>8, <1>9, Zenon

(* Set-id bits come in only by root, by the owner of the inode (the        *)
(* group's one if in the group), or by inheritance from the directory.     *)
THEOREM SetIdTheorem == Spec => SetIdRule
<1>1. ASSUME IInv, Next, NEW i \in Inodes PROVE SetIdStep(i)
  <2>1. ASSUME NEW u \in Users, Asks(u) PROVE attr' = attr
    BY <2>1 DEF Asks, Lookup, Access, Tell, files
  <2>2. ASSUME NEW u \in Users, NEW k \in Inodes, NEW read \in BOOLEAN, NEW write \in BOOLEAN,
               NEW exec \in BOOLEAN, NEW truncate \in BOOLEAN,
               Open(u, k, read, write, exec, truncate)
        PROVE  attr' = attr
    BY <2>2 DEF Open, Tell, files
  <2>3. CASE HandleRequests
    BY <1>1, <2>3, ReleaseKeepsAttr, SetIdKept DEF HandleRequests, Write, ReleaseFails, files, CopyFileRange
  <2> QED
    BY <1>1, <2>1, <2>2, <2>3, SetAttrsSetId, NamesSetId, SetIdKept DEF Next
<1>2. IInv /\ [Next]_vars => [\A i \in Inodes : SetIdStep(i)]_vars
  BY <1>1
<1> QED
  BY <1>2, Invariance, PTL DEF Spec, SetIdRule, SetIdStep

-----------------------------------------------------------------------------
(* What a refused request leaves behind.                                   *)

RefusalStep ==
    reply'.res # "OK" =>
         /\ UNCHANGED <<attr, entries>>
         /\ Cardinality({i \in Inodes : contents'[i] # contents[i]}) <= 1
         /\ known' \subseteq known
         /\ \A h \in Handles : handles'[h] # handles[h] =>
              \/ handles[h] = None /\ ~handles'[h].write
              \/ h \in known \ known'

(* All that fits into one inode counts one at most. *)
LEMMA OneFile ==
    ASSUME NEW k \in Inodes, \A j \in Inodes : j # k => contents'[j] = contents[j]
    PROVE  Cardinality({i \in Inodes : contents'[i] # contents[i]}) <= 1
<1> DEFINE S == {i \in Inodes : contents'[i] # contents[i]}
<1>1. IsFiniteSet({k}) /\ Cardinality({k}) = 1
  BY FS_Singleton
<1>2. S \subseteq {k}
  OBVIOUS
<1> HIDE DEF S
<1>3. Cardinality(S) <= 1
  BY <1>1, <1>2, FS_Subset
<1> QED
  BY <1>3 DEF S

LEMMA RefusedFile ==
    ASSUME UNCHANGED <<attr, entries, handles, known>>,
           NEW k \in Inodes, \A j \in Inodes : j # k => contents'[j] = contents[j]
    PROVE  RefusalStep
BY OneFile DEF RefusalStep

LEMMA RefusedTell ==
    ASSUME NEW u, NEW res, Tell(u, res)
    PROVE  RefusalStep
BY RefusedFile, AdapterAssumption DEF Tell, files

LEMMA Granted ==
    ASSUME NEW u, Answer(u, "OK")
    PROVE  RefusalStep
BY DEF RefusalStep, Answer

LEMMA SetAttrsRefusal ==
    ASSUME IInv, NEW u \in Users, SetAttrs(u)
    PROVE  RefusalStep
<1>1. ASSUME NEW i \in Inodes, NEW mode \in Modes, Chmod(u, i, mode) PROVE RefusalStep
  BY <1>1, RefusedTell, Granted DEF Chmod
<1>2. ASSUME NEW i \in Inodes, Chown(u, i) PROVE RefusalStep
  BY <1>2, Granted DEF Chown
<1>3. ASSUME NEW i \in Inodes, NEW size \in {"empty", "data", None}, NEW times \in BOOLEAN,
             SetSizeAndTimes(u, i, size, times)
      PROVE  RefusalStep
  <2>1. UNCHANGED <<entries, handles, known>> /\ (Answer(u, "OK") \/ UNCHANGED attr)
    BY <1>3 DEF SetSizeAndTimes
  <2>2. \A j \in Inodes : j # i => contents'[j] = contents[j]
    BY <1>3 DEF SetSizeAndTimes, IInv, Typed
  <2> QED
    BY <2>1, <2>2, RefusedFile, Granted
<1> QED
  BY <1>1, <1>2, <1>3 DEF SetAttrs

LEMMA NamesRefusal ==
    ASSUME NEW u \in Users, NameRequests(u)
    PROVE  RefusalStep
<1>1. ASSUME NEW d, NEW n, NEW kind, NEW mode, NEW read, NEW write,
             CreateNod(u, d, n, kind, mode, read, write)
      PROVE  RefusalStep
  BY <1>1, RefusedTell, Granted DEF CreateNod, Make
<1>2. ASSUME NEW d, NEW n, NEW mode, Mkdir(u, d, n, mode) PROVE RefusalStep
  BY <1>2, RefusedTell, Granted DEF Mkdir, Make
<1>3. ASSUME NEW d, NEW n, Unlink(u, d, n) \/ Rmdir(u, d, n) PROVE RefusalStep
  BY <1>3, RefusedTell, Granted DEF Unlink, Rmdir, Remove
<1>4. ASSUME NEW d, NEW n, NEW q, NEW m, Rename(u, d, n, q, m) PROVE RefusalStep
  BY <1>4, RefusedTell, Granted DEF Rename
<1> QED
  BY <1>1, <1>2, <1>3, <1>4 DEF NameRequests, Mknod, Create

LEMMA OpenRefusal ==
    ASSUME IInv, NEW u \in Users, NEW i \in Inodes, NEW read \in BOOLEAN, NEW write \in BOOLEAN,
           NEW exec \in BOOLEAN, NEW truncate \in BOOLEAN, Open(u, i, read, write, exec, truncate)
    PROVE  RefusalStep
<1>1. CASE \E res : Tell(u, res)
  BY <1>1, RefusedTell
<1>2. CASE Answer(u, "OK")
  BY <1>2, Granted
<1>3. CASE ~(\E res : Tell(u, res)) /\ ~Answer(u, "OK")
  <2>1. /\ contents' = IF truncate THEN [contents EXCEPT ![i] = "empty"] ELSE contents
        /\ OpenBelow(u, i, read, write) /\ UNCHANGED <<attr, entries>>
    BY <1>3 DEF Open
  <2>2. \A j \in Inodes : j # i => contents'[j] = contents[j]
    BY <2>1 DEF IInv, Typed
  <2>3. UNCHANGED <<attr, entries, known>>
    BY <1>3, <2>1 DEF OpenBelow
  <2>4. CASE UNCHANGED handles
    BY <2>2, <2>3, <2>4, RefusedFile
  <2>5. CASE ~UNCHANGED handles
    <3>1. PICK h \in Handles : /\ handles[h] = None
                               /\ handles' = [handles EXCEPT ![h] =
                                      [ino |-> i, read |-> TRUE, write |-> FALSE]]
      BY <1>3, <2>1, <2>5 DEF OpenBelow
    <3>2. \A g \in Handles : handles'[g] # handles[g] => handles[g] = None /\ ~handles'[g].write
      BY <3>1 DEF IInv, Typed
    <3> QED
      BY <2>2, <2>3, <3>2, OneFile DEF RefusalStep
  <2> QED
    BY <2>4, <2>5
<1> QED
  BY <1>1, <1>2, <1>3

LEMMA HandlesRefusal ==
    ASSUME IInv, HandleRequests
    PROVE  RefusalStep
<1>1. ASSUME NEW h \in Handles, NEW g \in Handles, NEW short \in BOOLEAN, CopyFileRange(g, h, short)
      PROVE  RefusalStep
  <2>1. UNCHANGED <<attr, entries, handles, known>> /\ handles[h].ino \in Inodes
    BY <1>1 DEF CopyFileRange, IInv, Typed, OpenHandles
  <2>2. \A j \in Inodes : j # handles[h].ino => contents'[j] = contents[j]
    BY <1>1 DEF CopyFileRange, IInv, Typed
  <2> QED
    BY <2>1, <2>2, RefusedFile
<1>2. ASSUME NEW h \in Handles, ReleaseFails(h) PROVE RefusalStep
  <2>1. UNCHANGED <<attr, entries, contents>> /\ h \in known /\ known' = known \ {h}
    BY <1>2 DEF ReleaseFails, files
  <2>2. \A g \in Handles : g # h => handles'[g] = handles[g]
    BY <1>2 DEF ReleaseFails, IInv, Typed
  <2> QED
    BY <2>1, <2>2, OneFile, AdapterAssumption DEF RefusalStep
<1> QED
  BY <1>1, <1>2, Granted DEF HandleRequests, Write, Release

(* A refused request leaves names, owners, modes and the kernel's handles  *)
(* as they were; all that can remain of it is one file resized or written  *)
(* and one read handle nobody knows.                                       *)
THEOREM RefusalTheorem == Spec => RefusalEffects
<1>1. ASSUME IInv, Next PROVE RefusalStep
  <2>1. ASSUME NEW u \in Users, Asks(u) PROVE RefusalStep
    BY <2>1, RefusedTell DEF Asks, Lookup, Access
  <2> QED
    BY <1>1, <2>1, SetAttrsRefusal, NamesRefusal, OpenRefusal, HandlesRefusal DEF Next
<1>2. IInv /\ [Next]_vars => [RefusalStep]_vars
  BY <1>1
<1> QED
  BY <1>2, Invariance, PTL DEF Spec, RefusalEffects, RefusalStep
=============================================================================
