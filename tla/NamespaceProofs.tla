-------------------------- MODULE NamespaceProofs ---------------------------
(***************************************************************************)
(* Proofs about Namespace, for any inodes and names, any calls, and with   *)
(* crashes and failing host operations at any point.                       *)
(***************************************************************************)
EXTENDS Namespace, FiniteSetTheorems, SequenceTheorems, TLAPS

-----------------------------------------------------------------------------
(* What there is of an inode.                                              *)

NoHash(i) == \A d \in Inodes, n \in Names : hash[d][n] # i
OnlyHash(i, d, n) == \A e \in Inodes, m \in Names : hash[e][m] = i => e = d /\ m = n
NoLs(i) == \A e \in ls : e.ino # i
OnlyLs(i, d, n) == \A e \in ls : e.ino = i => e = Entry(d, n, i)

(* Intact, without sets. *)
Absent(i) == inodes[i] = None /\ contents[i] = None /\ NoHash(i) /\ NoLs(i)

NamedAt(i, d, n) ==
    /\ hash[d][n] = i /\ OnlyHash(i, d, n)
    /\ Entry(d, n, i) \in ls /\ OnlyLs(i, d, n)
    /\ inodes[i] = "dir" => up[i] = d

Complete(i) ==
    /\ inodes[i] # None /\ contents[i] = inodes[i]
    /\ inodes[i] = "dir" => dot[i]
    /\ i = Root => NoHash(i) /\ NoLs(i)
    /\ i # Root => \E d \in Inodes, n \in Names : NamedAt(i, d, n)

Whole(i) == Absent(i) \/ Complete(i)

-----------------------------------------------------------------------------
(* The parts of the invariant that do not look at the call.                *)

(* A number that was not given out has left no trace. *)
Fresh == Root \in used /\ \A i \in Inodes \ used : Absent(i) /\ i \notin cut

(* Only directories have entries. *)
Parents ==
    /\ \A d \in Inodes, n \in Names : hash[d][n] # None => contents[d] = "dir"
    /\ \A e \in ls : contents[e.dir] = "dir"

Base == TypeOK /\ IsFiniteSet(ls) /\ Fresh /\ Parents /\ OneName

-----------------------------------------------------------------------------
(* How far a call is, and what of the inode i it works on is there.        *)

Single(b, T) == todo # <<>> /\ Head(todo) = {b} /\ Tail(todo) = T

Calling(op, i, k) == call = [op |-> op, ino |-> i, kind |-> k]

MountStage ==
    /\ Calling("mount", Root, "dir")
    /\ Root \notin cut => NoHash(Root) /\ NoLs(Root)
    /\ \/ Single(<<Step("inode", None, None, Root), Step("contents", None, None, Root),
                   Step("dot", None, None, Root)>>, <<>>)
       \/ /\ Single(<<Step("contents", None, None, Root), Step("dot", None, None, Root)>>, <<>>)
          /\ inodes[Root] = "dir"
       \/ /\ Single(<<Step("dot", None, None, Root)>>, <<>>)
          /\ inodes[Root] = "dir" /\ contents[Root] = "dir"

(* The branch that makes the contents: which step is next. *)
ContentsLeft(c, d, i, k) ==
    IF c = "contents" THEN {NewContents(d, i, k)}
    ELSE IF c = "dot" THEN {<<Step("dot", None, None, i), Step("up", d, None, i)>>}
    ELSE IF c = "up" THEN {<<Step("up", d, None, i)>>}
    ELSE {}

ContentsDone(c, d, i, k) ==
    /\ contents[i] = IF c = "contents" THEN None ELSE k
    /\ c \in {"dot", "up"} => k = "dir"
    /\ c = "up" => dot[i]
    /\ c = "done" /\ k = "dir" => dot[i] /\ up[i] = d

(* A name the call may write: no inode is found there that was not given up. *)
Given(d, n) == hash[d][n] \in cut \cup {None}

(* The two tasks of insert_directory_entry: l and h tell which is left. *)
LsLeft(l, d, n, i) == IF l THEN {<<Step("ls", d, n, i)>>} ELSE {}
HashLeft(h, d, n, i) == IF h THEN {<<Step("hash", d, n, i)>>} ELSE {}

LsDone(l, d, n, i) == IF l THEN NoLs(i) ELSE Entry(d, n, i) \in ls /\ OnlyLs(i, d, n)
HashDone(h, d, n, i) ==
    IF h THEN NoHash(i) /\ Given(d, n)
    ELSE OnlyHash(i, d, n) /\ (i \notin cut => hash[d][n] = i)

CreateFirst(d, n, i, k) ==
    /\ Single(<<Step("inode", None, None, i)>>, <<{NewContents(d, i, k)} \cup InsertEntry(d, n, i)>>)
    /\ i \notin cut /\ Absent(i) /\ Given(d, n)

Branches(d, n, i, k, c, l, h) ==
    ContentsLeft(c, d, i, k) \cup LsLeft(l, d, n, i) \cup HashLeft(h, d, n, i)

Made(d, n, i, k, c, l, h) ==
    /\ inodes[i] = k
    /\ ContentsDone(c, d, i, k) /\ HashDone(h, d, n, i)
    /\ i \notin cut => LsDone(l, d, n, i)

CreateSecond(d, n, i, k, c, l, h) ==
    /\ todo # <<>> /\ Tail(todo) = <<>> /\ Head(todo) = Branches(d, n, i, k, c, l, h)
    /\ Made(d, n, i, k, c, l, h)

CreateStates == {"contents", "dot", "up", "done"}

CreateStage(d, n, i, k) ==
    /\ Calling("create", i, k)
    /\ i # Root /\ i # d /\ i \in used /\ contents[d] = "dir"
    /\ \/ CreateFirst(d, n, i, k)
       \/ \E c \in CreateStates, l, h \in BOOLEAN :
              CreateSecond(d, n, i, k, c, l, h)

(* Removing the directory i takes nobody else's name away. *)
NoOthersIn(i) ==
    /\ \A n \in Names : hash[i][n] \in cut \cup {None, i}
    /\ \A e \in ls : e.dir = i => e.ino \in cut \cup {i}

(* The name goes when a late task writes it or its directory is removed. *)
StillNamed(i, d, n) ==
    i \notin cut => hash[d][n] = i \/ (hash[d][n] = None /\ contents[d] = None)

RemoveStage(d, n, i, k) ==
    /\ Calling("remove", i, k)
    /\ i \in used
    /\ i \notin cut => OnlyLs(i, d, n)
    /\ OnlyHash(i, d, n) /\ hash[d][n] \in cut \cup {i, None}
    /\ \/ /\ Single(<<Step("rminode", None, None, i), Step("rmcontents", None, None, i)>>
                    \o RemoveEntry(d, n), <<>>)
          /\ NoOthersIn(i) /\ StillNamed(i, d, n)
       \/ /\ Single(<<Step("rmcontents", None, None, i), Step("unhash", d, n, None)>>, <<>>)
          /\ NoOthersIn(i) /\ StillNamed(i, d, n) /\ inodes[i] = None
       \/ /\ Single(<<Step("unhash", d, n, None)>>, <<>>)
          /\ StillNamed(i, d, n) /\ inodes[i] = None /\ contents[i] = None
       \/ \E x \in cut \cup {i, None} :
          /\ Single(<<Step("unls", d, n, x)>>, <<>>)
          /\ inodes[i] = None /\ contents[i] = None /\ NoHash(i)
          /\ i \notin cut => x \in {i, None}

(* The phases that follow in rename; t is what the new name stands for. *)
UpPlan(q, i, k) == IF k = "dir" THEN << {<<Step("up", q, None, i)>>} >> ELSE <<>>
InsertPlan(q, m, i, k) == << InsertEntry(q, m, i) >> \o UpPlan(q, i, k)
OverPlan(t, q, m, i, k) ==
    (IF t # None THEN << {RemoveEntry(q, m)} >> ELSE <<>>) \o InsertPlan(q, m, i, k)

Renaming(d, n, q, m, i, k) ==
    /\ Calling("rename", i, k)
    /\ i \in used /\ contents[q] = "dir" /\ ~(d = q /\ n = m)
    /\ i \notin cut => /\ i # Root /\ inodes[i] = k /\ contents[i] = k
                       /\ k = "dir" => dot[i]

(* t is what the new name stood for when rename began. *)
OldEntry(d, n, q, m, i, k, t) ==
    /\ Single(RemoveEntry(d, n), OverPlan(t, q, m, i, k))
    /\ hash[d][n] \in cut \cup {i} /\ (i \notin cut => hash[d][n] = i) /\ OnlyHash(i, d, n)
    /\ Given(q, m) /\ (t # None => hash[q][m] # None)
    /\ i \notin cut => OnlyLs(i, d, n)

OldLs(d, n, q, m, i, k, t, x) ==
    /\ Single(<<Step("unls", d, n, x)>>, OverPlan(t, q, m, i, k))
    /\ NoHash(i) /\ Given(q, m) /\ (t # None => hash[q][m] # None)
    /\ i \notin cut => x = i /\ OnlyLs(i, d, n)

OverEntry(q, m, i, k) ==
    /\ Single(RemoveEntry(q, m), InsertPlan(q, m, i, k))
    /\ NoHash(i) /\ hash[q][m] \in cut
    /\ i \notin cut => NoLs(i)

OverLs(q, m, i, k, x) ==
    /\ Single(<<Step("unls", q, m, x)>>, InsertPlan(q, m, i, k))
    /\ NoHash(i) /\ Given(q, m)
    /\ i \notin cut => NoLs(i)

Inserting(q, m, i, k, l, h) ==
    /\ todo # <<>> /\ Tail(todo) = UpPlan(q, i, k)
    /\ Head(todo) = LsLeft(l, q, m, i) \cup HashLeft(h, q, m, i)
    /\ HashDone(h, q, m, i)
    /\ i \notin cut => LsDone(l, q, m, i)

Upping(q, m, i, k) ==
    /\ Single(<<Step("up", q, None, i)>>, <<>>)
    /\ HashDone(FALSE, q, m, i)
    /\ i \notin cut => LsDone(FALSE, q, m, i)

RenameStage(d, n, q, m, i, k) ==
    /\ Renaming(d, n, q, m, i, k)
    /\ \/ \E t \in Inodes \cup {None} : OldEntry(d, n, q, m, i, k, t)
       \/ \E t \in Inodes \cup {None}, x \in cut \cup {i} : OldLs(d, n, q, m, i, k, t, x)
       \/ OverEntry(q, m, i, k)
       \/ \E x \in cut : OverLs(q, m, i, k, x)
       \/ \E l, h \in BOOLEAN : Inserting(q, m, i, k, l, h)
       \/ Upping(q, m, i, k)

CallInv ==
    \/ call = None /\ todo = <<>>
    \/ MountStage
    \/ \E d \in Inodes, n \in Names, i \in Inodes, k \in Kinds :
        \/ CreateStage(d, n, i, k)
        \/ RemoveStage(d, n, i, k)
        \/ \E q \in Inodes, m \in Names : RenameStage(d, n, q, m, i, k)

(* All inodes other than the one of the call, and those of calls cut short.*)
Others == \A j \in Inodes \ cut : (call # None => j # call.ino) => Whole(j)

(* Tasks left behind write entries of inodes whose call was cut short; an  *)
(* inode that still awaits its HASH entry has no other and is not in a call.*)
LateInv ==
    \A s \in late :
        /\ s.ino \in cut
        /\ s.act = "hash" => /\ NoHash(s.ino)
                             /\ call # None /\ call.op # "mount" => call.ino # s.ino

OneLate == \A r, s \in late : r.act = "hash" /\ s.act = "hash" /\ r.ino = s.ino => r = s

IInv == Base /\ CallInv /\ Others /\ LateInv /\ OneLate

-----------------------------------------------------------------------------
(* Sequences and sets.                                                     *)

(* What is left when a phase is put before the others. *)
LEMMA ConsParts ==
    ASSUME NEW x, NEW S, NEW T \in Seq(S)
    PROVE  /\ <<x>> \o T # <<>> /\ Head(<<x>> \o T) = x /\ Tail(<<x>> \o T) = T
  OBVIOUS

LEMMA TwoAndOne ==
    ASSUME NEW x, NEW y, NEW z
    PROVE  <<x, y>> \o <<z>> = <<x, y, z>>
<1> DEFINE S == {x, y, z}
<1>1. /\ <<x, y>> \in Seq(S) /\ <<z>> \in Seq(S) /\ <<x, y, z>> \in Seq(S)
      /\ <<x, y>> \o <<z>> \in Seq(S)
  OBVIOUS
<1>2. Len(<<x, y>> \o <<z>>) = 3 /\ Len(<<x, y, z>>) = 3
  OBVIOUS
<1>3. \A j \in 1..3 : (<<x, y>> \o <<z>>)[j] = <<x, y, z>>[j]
  OBVIOUS
<1> HIDE DEF S
<1> QED
  BY <1>1, <1>2, <1>3, SeqEqual

LEMMA TakeOut ==
    ASSUME NEW P, NEW Q, NEW b, P = {b} \cup Q, b \notin Q
    PROVE  P \ {b} = Q
  OBVIOUS

-----------------------------------------------------------------------------
(* Intact and Whole are the same.                                          *)

LEMMA IntactWhole ==
    ASSUME TypeOK, NEW i \in Inodes, Whole(i)
    PROVE  Intact(i)
<1> DEFINE found == {x \in Inodes \X Names : hash[x[1]][x[2]] = i}
           listed == {e \in ls : e.ino = i}
<1>1. NoHash(i) => found = {}
  BY DEF NoHash
<1>2. NoLs(i) => listed = {}
  BY DEF NoLs
<1>3. CASE Absent(i)
  BY <1>1, <1>2, <1>3 DEF Absent, Intact, exists
<1>4. CASE Complete(i)
  <2>1. CASE i = Root
    BY <1>1, <1>2, <1>4, <2>1 DEF Complete, Intact, exists
  <2>2. CASE i # Root
    <3>1. PICK d \in Inodes, n \in Names : NamedAt(i, d, n)
      BY <1>4, <2>2 DEF Complete
    <3>2. found = {<<d, n>>}
      BY <3>1 DEF NamedAt, OnlyHash
    <3>3. listed = {Entry(d, n, i)}
      BY <3>1 DEF NamedAt, OnlyLs, Entry
    <3> QED
      BY <1>4, <2>2, <3>1, <3>2, <3>3 DEF Complete, Intact, exists, NamedAt
  <2> QED
    BY <2>1, <2>2
<1> QED
  BY <1>3, <1>4 DEF Whole

-----------------------------------------------------------------------------
(* What a step leaves alone.                                               *)

Same(j) ==
    /\ inodes'[j] = inodes[j] /\ contents'[j] = contents[j]
    /\ dot'[j] = dot[j] /\ up'[j] = up[j]
    /\ \A d \in Inodes, n \in Names : hash'[d][n] = j <=> hash[d][n] = j
    /\ \A e \in ls \cup ls' : e.ino = j => (e \in ls <=> e \in ls')

Apart(i) == \A j \in Inodes \ cut : j # i => Same(j)

(* The step may give up on i, and on nothing else. *)
ControlKept(i) ==
    /\ used' = used /\ mounted' \in BOOLEAN
    /\ cut \subseteq cut' /\ cut' \subseteq cut \cup {i}
    /\ late' \subseteq LateSteps

LEMMA SameAbsent ==
    ASSUME NEW j \in Inodes, Same(j), Absent(j)
    PROVE  Absent(j)'
<1>1. NoHash(j)'
  BY DEF Same, Absent, NoHash
<1>2. NoLs(j)'
  BY DEF Same, Absent, NoLs
<1> QED
  BY <1>1, <1>2 DEF Same, Absent

LEMMA SameWhole ==
    ASSUME NEW j \in Inodes, Same(j), Whole(j)
    PROVE  Whole(j)'
<1>1. CASE Absent(j)
  BY <1>1, SameAbsent DEF Whole
<1>2. CASE Complete(j)
  <2>1. CASE j = Root
    <3>1. NoHash(j)' /\ NoLs(j)'
      BY <1>2, <2>1 DEF Same, Complete, NoHash, NoLs
    <3> QED
      BY <1>2, <2>1, <3>1 DEF Same, Complete, Whole
  <2>2. CASE j # Root
    <3>1. PICK d \in Inodes, n \in Names : NamedAt(j, d, n)
      BY <1>2, <2>2 DEF Complete
    <3>2. hash'[d][n] = j /\ OnlyHash(j, d, n)'
      BY <3>1 DEF Same, NamedAt, OnlyHash
    <3>3. Entry(d, n, j) \in ls' /\ OnlyLs(j, d, n)'
      BY <3>1 DEF Same, NamedAt, OnlyLs, Entry
    <3>4. NamedAt(j, d, n)'
      BY <3>1, <3>2, <3>3 DEF Same, NamedAt
    <3> QED
      BY <1>2, <2>2, <3>4 DEF Same, Complete, Whole
  <2> QED
    BY <2>1, <2>2
<1> QED
  BY <1>1, <1>2 DEF Whole

LEMMA FreshKept ==
    ASSUME NEW i \in used, Fresh, Apart(i), ControlKept(i), used \subseteq Inodes
    PROVE  Fresh'
<1>1. Root \in used'
  BY DEF Fresh, ControlKept
<1>2. ASSUME NEW j \in Inodes \ used'
      PROVE  Absent(j)' /\ j \notin cut'
  BY <1>2, SameAbsent DEF Fresh, Apart, ControlKept
<1> QED
  BY <1>1, <1>2 DEF Fresh

(* What the other inodes of a call look like after a step of it. *)
LEMMA OthersKept ==
    ASSUME NEW i \in Inodes, call.ino = i, Others, Apart(i), ControlKept(i)
    PROVE  \A j \in Inodes \ cut' : j # i => Whole(j)'
<1> SUFFICES ASSUME NEW j \in Inodes \ cut', j # i PROVE Whole(j)'
  OBVIOUS
<1>1. j \notin cut /\ Whole(j)
  BY DEF Others, ControlKept
<1> QED
  BY <1>1, SameWhole DEF Apart

-----------------------------------------------------------------------------
(* What the next steps of the branches of a call may be about.             *)

Fits(s, i, k) ==
    /\ s.act \in {"inode", "contents", "dot", "up", "ls", "hash", "rminode", "rmcontents"} => s.ino = i
    /\ s.act \in {"up", "ls", "hash", "unhash", "unls"} => s.dir \in Inodes
    /\ s.act \in {"ls", "hash", "unhash", "unls"} => s.name \in Names
    /\ s.act = "contents" => k = "dir" \/ contents[i] = None
    /\ s.act \in {"ls", "hash"} => /\ contents[s.dir] = "dir" /\ s = Step(s.act, s.dir, s.name, s.ino)
                                     /\ call.op # "mount"
    /\ s.act = "hash" => NoHash(i) /\ Given(s.dir, s.name)
    /\ s.act = "rmcontents" => NoOthersIn(i)
    /\ s.act = "unhash" => hash[s.dir][s.name] \in cut \cup {None, i}
    /\ s.act = "unls" => s.ino \in cut \cup {None, i}

InCall(i, k) ==
    /\ call \in CallRecords /\ call.ino = i /\ call.kind = k
    /\ i \in used /\ k \in Kinds

HeadsFit(i, k) ==
    /\ \A b \in Head(todo) : Fits(Head(b), i, k)
    /\ \A b, c \in Head(todo) :
          Head(b).act = Head(c).act => Head(b) = Head(c)

(* What holds of the tree after a step. *)
TreeStep(i) == TypeOK' /\ IsFiniteSet(ls') /\ Parents' /\ OneName' /\ Apart(i)

LEMMA GoesControl ==
    ASSUME TypeOK, NEW i, NEW b, NEW c, Goes(b, c)
    PROVE  ControlKept(i) /\ cut' = cut
  BY DEF Goes, ControlKept, TypeOK

LEMMA StopControl ==
    ASSUME TypeOK, NEW i \in Inodes, NEW k, call.ino = i, HeadsFit(i, k), NEW b, Stop(b)
    PROVE  ControlKept(i) /\ cut' = cut \cup {i}
<1>1. ASSUME NEW s \in Spawned(b) PROVE s \in LateSteps
  <2>1. s.act \in {"ls", "hash"} /\ Fits(s, i, k)
    BY <1>1 DEF Spawned, HeadsFit
  <2> QED
    BY <2>1 DEF Fits, LateSteps, Step
<1> QED
  BY <1>1 DEF Stop, ControlKept, TypeOK

LEMMA TypeKept ==
    ASSUME TypeOK, NEW i \in Inodes, ControlKept(i),
           inodes' \in [Inodes -> Kinds \cup {None}],
           contents' \in [Inodes -> Kinds \cup {None}],
           hash' \in [Inodes -> [Names -> Inodes \cup {None}]],
           ls' \subseteq Entries,
           dot' \in [Inodes -> BOOLEAN],
           up' \in [Inodes -> Inodes \cup {None}]
    PROVE  TypeOK'
  BY DEF TypeOK, ControlKept

(* Steps that write one file of the inode i. *)
LEMMA WriteInodeStep ==
    ASSUME Base, NEW i \in Inodes, NEW k \in Kinds \cup {None}, ControlKept(i),
           inodes' = [inodes EXCEPT ![i] = k],
           UNCHANGED <<contents, hash, ls, dot, up>>
    PROVE  TreeStep(i)
<1>1. TypeOK'
  <2>1. inodes' \in [Inodes -> Kinds \cup {None}]
    BY DEF Base, TypeOK
  <2> QED
    BY <2>1, TypeKept DEF Base, TypeOK
<1>2. Parents' /\ OneName' /\ IsFiniteSet(ls')
  BY DEF Base, Parents, OneName
<1>3. Apart(i)
  BY DEF Base, TypeOK, Apart, Same
<1> QED
  BY <1>1, <1>2, <1>3 DEF TreeStep

LEMMA MakeContentsStep ==
    ASSUME Base, NEW i \in Inodes, NEW k \in Kinds, ControlKept(i),
           k = "dir" \/ contents[i] = None,
           contents' = [contents EXCEPT ![i] = k],
           UNCHANGED <<inodes, hash, ls, dot, up>>
    PROVE  TreeStep(i)
<1>1. TypeOK'
  <2>1. contents' \in [Inodes -> Kinds \cup {None}]
    BY DEF Base, TypeOK
  <2> QED
    BY <2>1, TypeKept DEF Base, TypeOK
<1>2. OneName' /\ IsFiniteSet(ls')
  BY DEF Base, OneName
<1>3. Parents'
  BY NamespaceAssumption DEF Base, TypeOK, Parents, Entries, Kinds
<1>4. Apart(i)
  BY DEF Base, TypeOK, Apart, Same
<1> QED
  BY <1>1, <1>2, <1>3, <1>4 DEF TreeStep

LEMMA AddDotStep ==
    ASSUME Base, NEW i \in Inodes, ControlKept(i),
           dot' = [dot EXCEPT ![i] = TRUE],
           UNCHANGED <<inodes, contents, hash, ls, up>>
    PROVE  TreeStep(i)
<1>1. TypeOK'
  <2>1. dot' \in [Inodes -> BOOLEAN]
    BY DEF Base, TypeOK
  <2> QED
    BY <2>1, TypeKept DEF Base, TypeOK
<1>2. Parents' /\ OneName' /\ IsFiniteSet(ls')
  BY DEF Base, Parents, OneName
<1>3. Apart(i)
  BY DEF Base, TypeOK, Apart, Same
<1> QED
  BY <1>1, <1>2, <1>3 DEF TreeStep

LEMMA AddUpStep ==
    ASSUME Base, NEW i \in Inodes, NEW d \in Inodes, ControlKept(i),
           up' = [up EXCEPT ![i] = d],
           UNCHANGED <<inodes, contents, hash, ls, dot>>
    PROVE  TreeStep(i)
<1>1. TypeOK'
  <2>1. up' \in [Inodes -> Inodes \cup {None}]
    BY DEF Base, TypeOK
  <2> QED
    BY <2>1, TypeKept DEF Base, TypeOK
<1>2. Parents' /\ OneName' /\ IsFiniteSet(ls')
  BY DEF Base, Parents, OneName
<1>3. Apart(i)
  BY DEF Base, TypeOK, Apart, Same
<1> QED
  BY <1>1, <1>2, <1>3 DEF TreeStep

(* Steps on an entry of the inode i. *)
LEMMA AddLsStep ==
    ASSUME Base, NEW i \in Inodes, NEW d \in Inodes, NEW n \in Names, ControlKept(i),
           contents[d] = "dir",
           ls' = ls \cup {Entry(d, n, i)},
           UNCHANGED <<inodes, contents, hash, dot, up>>
    PROVE  TreeStep(i)
<1>1. TypeOK'
  <2>1. ls' \subseteq Entries
    BY DEF Base, TypeOK, Entry, Entries
  <2> QED
    BY <2>1, TypeKept DEF Base, TypeOK
<1>2. Parents' /\ OneName'
  BY DEF Base, Parents, OneName, Entry
<1>3. IsFiniteSet(ls')
  BY FS_AddElement DEF Base
<1>4. Apart(i)
  BY DEF Base, TypeOK, Apart, Same, Entry
<1> QED
  BY <1>1, <1>2, <1>3, <1>4 DEF TreeStep

LEMMA AddHashStep ==
    ASSUME Base, NEW i \in Inodes, NEW d \in Inodes, NEW n \in Names, ControlKept(i),
           contents[d] = "dir", NoHash(i), Given(d, n),
           hash' = [hash EXCEPT ![d][n] = i],
           UNCHANGED <<inodes, contents, ls, dot, up>>
    PROVE  TreeStep(i)
<1>0. hash' \in [Inodes -> [Names -> Inodes \cup {None}]]
  BY DEF Base, TypeOK
<1>1. TypeOK'
  BY <1>0, TypeKept DEF Base, TypeOK
<1>2. \A e \in Inodes, m \in Names :
        hash'[e][m] = IF e = d /\ m = n THEN i ELSE hash[e][m]
  BY DEF Base, TypeOK
<1>3. Parents'
  BY <1>2 DEF Base, Parents
<1>4. OneName'
  BY <1>2 DEF Base, OneName, NoHash
<1>5. Apart(i)
  BY <1>2, NamespaceAssumption DEF Base, TypeOK, Apart, Same, Given
<1> QED
  BY <1>1, <1>3, <1>4, <1>5 DEF TreeStep, Base

LEMMA RemoveHashStep ==
    ASSUME Base, NEW i \in Inodes, NEW d \in Inodes, NEW n \in Names, ControlKept(i),
           hash[d][n] \in cut \cup {None, i},
           hash' = [hash EXCEPT ![d][n] = None],
           UNCHANGED <<inodes, contents, ls, dot, up>>
    PROVE  TreeStep(i)
<1>0. hash' \in [Inodes -> [Names -> Inodes \cup {None}]]
  BY DEF Base, TypeOK
<1>1. TypeOK'
  BY <1>0, TypeKept DEF Base, TypeOK
<1>2. \A e \in Inodes, m \in Names :
        hash'[e][m] = IF e = d /\ m = n THEN None ELSE hash[e][m]
  BY DEF Base, TypeOK
<1>3. Parents'
  BY <1>2 DEF Base, Parents
<1>4. OneName'
  BY <1>2 DEF Base, OneName
<1>5. Apart(i)
  BY <1>2, NamespaceAssumption DEF Base, TypeOK, Apart, Same
<1> QED
  BY <1>1, <1>3, <1>4, <1>5 DEF TreeStep, Base

LEMMA RemoveLsStep ==
    ASSUME Base, NEW i \in Inodes, NEW d \in Inodes, NEW n \in Names, ControlKept(i),
           NEW x \in cut \cup {None, i},
           ls' = ls \ {Entry(d, n, x)},
           UNCHANGED <<inodes, contents, hash, dot, up>>
    PROVE  TreeStep(i)
<1>1. TypeOK'
  <2>1. ls' \subseteq Entries
    BY DEF Base, TypeOK
  <2> QED
    BY <2>1, TypeKept DEF Base, TypeOK
<1>2. Parents' /\ OneName'
  BY DEF Base, Parents, OneName
<1>3. IsFiniteSet(ls')
  BY FS_Subset DEF Base
<1>4. Apart(i)
  BY NamespaceAssumption DEF Base, TypeOK, Apart, Same, Entry
<1> QED
  BY <1>1, <1>2, <1>3, <1>4 DEF TreeStep

LEMMA RemoveContentsStep ==
    ASSUME Base, NEW i \in Inodes, ControlKept(i), NoOthersIn(i),
           contents' = [contents EXCEPT ![i] = None],
           hash' = [hash EXCEPT ![i] = [n \in Names |-> None]],
           ls' = {e \in ls : e.dir # i},
           dot' = [dot EXCEPT ![i] = FALSE],
           up' = [up EXCEPT ![i] = None],
           UNCHANGED inodes
    PROVE  TreeStep(i)
<1>0. /\ hash' \in [Inodes -> [Names -> Inodes \cup {None}]]
      /\ contents' \in [Inodes -> Kinds \cup {None}]
      /\ ls' \subseteq Entries
      /\ dot' \in [Inodes -> BOOLEAN]
      /\ up' \in [Inodes -> Inodes \cup {None}]
  BY DEF Base, TypeOK
<1>1. TypeOK'
  BY <1>0, TypeKept DEF Base, TypeOK
<1>2. \A e \in Inodes, m \in Names :
        hash'[e][m] = IF e = i THEN None ELSE hash[e][m]
  BY DEF Base, TypeOK
<1>3. \A e \in Inodes : contents'[e] = IF e = i THEN None ELSE contents[e]
  BY DEF Base, TypeOK
<1>4. Parents'
  BY <1>2, <1>3 DEF Base, TypeOK, Parents, Entries
<1>5. OneName'
  BY <1>2 DEF Base, OneName
<1>6. IsFiniteSet(ls')
  BY FS_Subset DEF Base
<1>7. ASSUME NEW j \in Inodes \ cut, j # i
      PROVE  Same(j)
  <2>1. \A d \in Inodes, n \in Names : hash'[d][n] = j <=> hash[d][n] = j
    BY <1>2, <1>7, NamespaceAssumption DEF NoOthersIn
  <2>2. \A e \in ls \cup ls' : e.ino = j => (e \in ls <=> e \in ls')
    BY <1>7 DEF NoOthersIn
  <2>3. inodes'[j] = inodes[j] /\ contents'[j] = contents[j]
        /\ dot'[j] = dot[j] /\ up'[j] = up[j]
    BY <1>7 DEF Base, TypeOK
  <2> QED
    BY <2>1, <2>2, <2>3 DEF Same
<1> QED
  BY <1>1, <1>4, <1>5, <1>6, <1>7 DEF TreeStep, Apart

(* Every host operation of a call keeps what does not look at the call.    *)
LEMMA HostOpsStep ==
    ASSUME Base, NEW i, NEW k, InCall(i, k), HeadsFit(i, k), HostOps
    PROVE  TreeStep(i) /\ ControlKept(i)
<1>0. TypeOK /\ i \in Inodes /\ k \in Kinds /\ call.ino = i /\ call.kind = k
  BY DEF InCall, Base, TypeOK
<1>r. \A act, b : b \in Ready(act) => Head(b).act = act /\ Fits(Head(b), i, k)
  BY DEF Ready, HeadsFit
<1>1. CASE WriteInode
  <2>1. PICK b \in Ready("inode") : WriteInode!(b)
    BY <1>1 DEF WriteInode
  <2>2. ControlKept(i)
    BY <1>0, <2>1, GoesControl DEF Advance
  <2>3. Head(b).ino = i
    BY <1>r, <2>1 DEF Fits
  <2> QED
    BY <1>0, <2>1, <2>2, <2>3, WriteInodeStep
<1>2. CASE MakeContents
  <2>1. PICK b \in Ready("contents") : MakeContents!(b)
    BY <1>2 DEF MakeContents
  <2>2. ControlKept(i)
    BY <1>0, <2>1, GoesControl DEF Advance
  <2>3. Head(b).ino = i /\ (k = "dir" \/ contents[i] = None)
    BY <1>r, <2>1 DEF Fits
  <2> QED
    BY <1>0, <2>1, <2>2, <2>3, MakeContentsStep
<1>3. CASE AddDot
  <2>1. PICK b \in Ready("dot") : AddDot!(b)
    BY <1>3 DEF AddDot
  <2>2. ControlKept(i)
    BY <1>0, <2>1, GoesControl DEF Advance
  <2>3. Head(b).ino = i
    BY <1>r, <2>1 DEF Fits
  <2> QED
    BY <1>0, <2>1, <2>2, <2>3, AddDotStep
<1>4. CASE AddUp
  <2>1. PICK b \in Ready("up") : AddUp!(b)
    BY <1>4 DEF AddUp
  <2>2. ControlKept(i)
    BY <1>0, <2>1, GoesControl DEF Advance
  <2>3. Head(b).ino = i /\ Head(b).dir \in Inodes
    BY <1>r, <2>1 DEF Fits
  <2> QED
    BY <1>0, <2>1, <2>2, <2>3, AddUpStep
<1>5. CASE AddLs
  <2>1. PICK b \in Ready("ls") : AddLs!(b)
    BY <1>5 DEF AddLs
  <2>2. ControlKept(i)
    BY <1>0, <2>1, GoesControl DEF Advance
  <2>3. /\ Head(b).ino = i /\ Head(b).dir \in Inodes /\ Head(b).name \in Names
        /\ contents[Head(b).dir] = "dir"
    BY <1>r, <2>1 DEF Fits
  <2> QED
    BY <1>0, <2>1, <2>2, <2>3, AddLsStep
<1>6. CASE AddHash
  <2>1. PICK b \in Ready("hash") : AddHash!(b)
    BY <1>6 DEF AddHash
  <2>2. ControlKept(i)
    BY <1>0, <2>1, GoesControl DEF Advance
  <2>3. /\ Head(b).ino = i /\ Head(b).dir \in Inodes /\ Head(b).name \in Names
        /\ contents[Head(b).dir] = "dir"
        /\ NoHash(i) /\ Given(Head(b).dir, Head(b).name)
    BY <1>r, <2>1 DEF Fits
  <2> QED
    BY <1>0, <2>1, <2>2, <2>3, AddHashStep
<1>7. CASE RemoveInode
  <2>1. PICK b \in Ready("rminode") : RemoveInode!(b)
    BY <1>7 DEF RemoveInode
  <2>2. ControlKept(i)
    BY <1>0, <2>1, GoesControl DEF Advance
  <2>3. Head(b).ino = i
    BY <1>r, <2>1 DEF Fits
  <2> QED
    BY <1>0, <2>1, <2>2, <2>3, WriteInodeStep
<1>8. CASE RemoveContents
  <2>1. PICK b \in Ready("rmcontents") : RemoveContents!(b)
    BY <1>8 DEF RemoveContents
  <2>2. ControlKept(i)
    BY <1>0, <2>1, GoesControl, StopControl DEF Advance
  <2>3. Head(b).ino = i /\ NoOthersIn(i)
    BY <1>r, <2>1 DEF Fits
  <2> QED
    BY <1>0, <2>1, <2>2, <2>3, RemoveContentsStep
<1>9. CASE RemoveHash
  <2>1. PICK b \in Ready("unhash") : RemoveHash!(b)
    BY <1>9 DEF RemoveHash
  <2>2. ControlKept(i)
    BY <1>0, <2>1, GoesControl
  <2>3. /\ Head(b).dir \in Inodes /\ Head(b).name \in Names
        /\ hash[Head(b).dir][Head(b).name] \in cut \cup {None, i}
    BY <1>r, <2>1 DEF Fits
  <2> QED
    BY <1>0, <2>1, <2>2, <2>3, RemoveHashStep
<1>10. CASE RemoveLs
  <2>1. PICK b \in Ready("unls") : RemoveLs!(b)
    BY <1>10 DEF RemoveLs
  <2>2. ControlKept(i)
    BY <1>0, <2>1, GoesControl, StopControl DEF Advance
  <2>3. /\ Head(b).dir \in Inodes /\ Head(b).name \in Names
        /\ Head(b).ino \in cut \cup {None, i}
    BY <1>r, <2>1 DEF Fits
  <2> QED
    BY <1>0, <2>1, <2>2, <2>3, RemoveLsStep
<1> QED
  BY <1>1, <1>2, <1>3, <1>4, <1>5, <1>6, <1>7, <1>8, <1>9, <1>10 DEF HostOps

(* A host operation that fails. *)
LEMMA FaultStep ==
    ASSUME Base, NEW i, NEW k, InCall(i, k), HeadsFit(i, k), Fault
    PROVE  TreeStep(i) /\ ControlKept(i) /\ cut' = cut \cup {i}
<1>0. TypeOK /\ i \in Inodes /\ call.ino = i
  BY DEF InCall, Base, TypeOK
<1>1. PICK b : Stop(b)
  BY DEF Fault
<1>2. ControlKept(i) /\ cut' = cut \cup {i} /\ UNCHANGED tree
  BY <1>0, <1>1, StopControl DEF Fault
<1>3. TypeOK'
  BY <1>0, <1>2, TypeKept DEF TypeOK, tree
<1>4. IsFiniteSet(ls') /\ Parents' /\ OneName' /\ Apart(i)
  BY <1>2 DEF Base, Parents, OneName, Apart, Same, tree
<1> QED
  BY <1>2, <1>3, <1>4 DEF TreeStep

-----------------------------------------------------------------------------
(* How a host operation moves the plan on.                                 *)

(* Branch b of the first phase takes its next step. *)
DoWriteInode(b) == WriteInode!(b)
DoMakeContents(b) == MakeContents!(b)
DoAddDot(b) == AddDot!(b)
DoAddUp(b) == AddUp!(b)
DoAddLs(b) == AddLs!(b)
DoAddHash(b) == AddHash!(b)
DoRemoveInode(b) == RemoveInode!(b)
DoRemoveContents(b) == RemoveContents!(b)
DoRemoveHash(b) == RemoveHash!(b)
DoRemoveLs(b) == RemoveLs!(b)

Acts == {"inode", "contents", "dot", "up", "ls", "hash", "rminode", "rmcontents", "unhash", "unls"}

Does(b) ==
    /\ todo # <<>> /\ b \in Head(todo) /\ Head(b).act \in Acts
    /\ Head(b).act = "inode" => DoWriteInode(b)
    /\ Head(b).act = "contents" => DoMakeContents(b)
    /\ Head(b).act = "dot" => DoAddDot(b)
    /\ Head(b).act = "up" => DoAddUp(b)
    /\ Head(b).act = "ls" => DoAddLs(b)
    /\ Head(b).act = "hash" => DoAddHash(b)
    /\ Head(b).act = "rminode" => DoRemoveInode(b)
    /\ Head(b).act = "rmcontents" => DoRemoveContents(b)
    /\ Head(b).act = "unhash" => DoRemoveHash(b)
    /\ Head(b).act = "unls" => DoRemoveLs(b)

LEMMA HostOpsDoes ==
    ASSUME HostOps
    PROVE  \E b : Does(b)
<1>1. \A act, b : b \in Ready(act) => todo # <<>> /\ b \in Head(todo) /\ Head(b).act = act
  BY DEF Ready
<1>2. CASE WriteInode
  <2>1. PICK b \in Ready("inode") : DoWriteInode(b)
    BY <1>2 DEF WriteInode, DoWriteInode
  <2>2. Does(b)
    BY <1>1, <2>1 DEF Does, Acts
  <2> QED
    BY <2>2
<1>3. CASE MakeContents
  <2>1. PICK b \in Ready("contents") : DoMakeContents(b)
    BY <1>3 DEF MakeContents, DoMakeContents
  <2>2. Does(b)
    BY <1>1, <2>1 DEF Does, Acts
  <2> QED
    BY <2>2
<1>4. CASE AddDot
  <2>1. PICK b \in Ready("dot") : DoAddDot(b)
    BY <1>4 DEF AddDot, DoAddDot
  <2>2. Does(b)
    BY <1>1, <2>1 DEF Does, Acts
  <2> QED
    BY <2>2
<1>5. CASE AddUp
  <2>1. PICK b \in Ready("up") : DoAddUp(b)
    BY <1>5 DEF AddUp, DoAddUp
  <2>2. Does(b)
    BY <1>1, <2>1 DEF Does, Acts
  <2> QED
    BY <2>2
<1>6. CASE AddLs
  <2>1. PICK b \in Ready("ls") : DoAddLs(b)
    BY <1>6 DEF AddLs, DoAddLs
  <2>2. Does(b)
    BY <1>1, <2>1 DEF Does, Acts
  <2> QED
    BY <2>2
<1>7. CASE AddHash
  <2>1. PICK b \in Ready("hash") : DoAddHash(b)
    BY <1>7 DEF AddHash, DoAddHash
  <2>2. Does(b)
    BY <1>1, <2>1 DEF Does, Acts
  <2> QED
    BY <2>2
<1>8. CASE RemoveInode
  <2>1. PICK b \in Ready("rminode") : DoRemoveInode(b)
    BY <1>8 DEF RemoveInode, DoRemoveInode
  <2>2. Does(b)
    BY <1>1, <2>1 DEF Does, Acts
  <2> QED
    BY <2>2
<1>9. CASE RemoveContents
  <2>1. PICK b \in Ready("rmcontents") : DoRemoveContents(b)
    BY <1>9 DEF RemoveContents, DoRemoveContents
  <2>2. Does(b)
    BY <1>1, <2>1 DEF Does, Acts
  <2> QED
    BY <2>2
<1>10. CASE RemoveHash
  <2>1. PICK b \in Ready("unhash") : DoRemoveHash(b)
    BY <1>10 DEF RemoveHash, DoRemoveHash
  <2>2. Does(b)
    BY <1>1, <2>1 DEF Does, Acts
  <2> QED
    BY <2>2
<1>11. CASE RemoveLs
  <2>1. PICK b \in Ready("unls") : DoRemoveLs(b)
    BY <1>11 DEF RemoveLs, DoRemoveLs
  <2>2. Does(b)
    BY <1>1, <2>1 DEF Does, Acts
  <2> QED
    BY <2>2
<1> QED
  BY <1>2, <1>3, <1>4, <1>5, <1>6, <1>7, <1>8, <1>9, <1>10, <1>11 DEF HostOps

LEMMA SingleDoes ==
    ASSUME NEW b, NEW T, Single(b, T), HostOps
    PROVE  Does(b)
<1>1. PICK c : Does(c)
  BY HostOpsDoes
<1>2. c = b
  BY <1>1 DEF Does, Single
<1> QED
  BY <1>1, <1>2

LEMMA SingleGoes ==
    ASSUME NEW b, NEW S, NEW T \in Seq(S), Single(b, T), NEW c, c # <<>>, Goes(b, c)
    PROVE  Single(c, T)' /\ call' = call /\ cut' = cut
<1>1. (Head(todo) \ {b}) \cup (IF c = <<>> THEN {} ELSE {c}) = {c}
  BY DEF Single
<1>2. Left(b, c) = <<{c}>> \o T
  BY <1>1 DEF Single, Left
<1>3. Left(b, c) # <<>> /\ Head(Left(b, c)) = {c} /\ Tail(Left(b, c)) = T
  BY <1>2, ConsParts
<1> QED
  BY <1>3 DEF Goes, Single

LEMMA SingleEnds ==
    ASSUME NEW b, NEW T, Single(b, T), Goes(b, <<>>)
    PROVE  todo' = T /\ call' = (IF T = <<>> THEN None ELSE call) /\ cut' = cut
<1>1. Left(b, <<>>) = T
  BY DEF Single, Left
<1> QED
  BY <1>1 DEF Goes

(* The call is over, with i whole unless it was cut short. *)
Ended(i) ==
    /\ call' = None /\ todo' = <<>>
    /\ i \in cut' \/ Whole(i)'

-----------------------------------------------------------------------------
(* Mounting.                                                               *)

LEMMA MountHeads ==
    ASSUME Base, MountStage
    PROVE  InCall(Root, "dir") /\ HeadsFit(Root, "dir")
<1>1. InCall(Root, "dir")
  BY NamespaceAssumption DEF MountStage, Calling, InCall, Base, Fresh, CallRecords, Kinds
<1>2. \A b \in Head(todo) : Fits(Head(b), Root, "dir")
  BY DEF MountStage, Single, Fits, Step
<1>3. \A b, c \in Head(todo) : Head(b) = Head(c)
  BY DEF MountStage, Single
<1> QED
  BY <1>1, <1>2, <1>3 DEF HeadsFit

LEMMA MountHostOps ==
    ASSUME Base, MountStage, HostOps
    PROVE  MountStage' \/ Ended(Root)
<1> DEFINE s1 == Step("inode", None, None, Root)
           s2 == Step("contents", None, None, Root)
           s3 == Step("dot", None, None, Root)
<1>0. TypeOK /\ Root \in Inodes /\ call.kind = "dir"
  BY NamespaceAssumption DEF Base, MountStage, Calling
<1>a. /\ s1.act = "inode" /\ s2.act = "contents" /\ s3.act = "dot"
      /\ s1.ino = Root /\ s2.ino = Root /\ s3.ino = Root
  BY DEF Step
<1> HIDE DEF s1, s2, s3
<1>b. /\ Head(<<s1, s2, s3>>) = s1 /\ Head(<<s2, s3>>) = s2 /\ Head(<<s3>>) = s3
      /\ Tail(<<s1, s2, s3>>) = <<s2, s3>> /\ Tail(<<s2, s3>>) = <<s3>> /\ Tail(<<s3>>) = <<>>
      /\ <<s2, s3>> # <<>> /\ <<s3>> # <<>>
  OBVIOUS
<1>1. CASE Single(<<s1, s2, s3>>, <<>>)
  <2>1. DoWriteInode(<<s1, s2, s3>>)
    BY <1>1, <1>a, <1>b, SingleDoes DEF Does
  <2>2. Single(<<s2, s3>>, <<>>)' /\ call' = call /\ cut' = cut
    BY <1>1, <1>b, <2>1, SingleGoes, <<>> \in Seq({}) DEF Advance, DoWriteInode
  <2>3. inodes'[Root] = "dir" /\ hash' = hash /\ ls' = ls
    BY <1>0, <1>a, <1>b, <2>1 DEF DoWriteInode, TypeOK
  <2> QED
    BY <2>2, <2>3 DEF MountStage, Calling, NoHash, NoLs, s1, s2, s3
<1>2. CASE Single(<<s2, s3>>, <<>>) /\ inodes[Root] = "dir"
  <2>1. DoMakeContents(<<s2, s3>>)
    BY <1>2, <1>a, <1>b, SingleDoes DEF Does
  <2>2. Single(<<s3>>, <<>>)' /\ call' = call /\ cut' = cut
    BY <1>2, <1>b, <2>1, SingleGoes, <<>> \in Seq({}) DEF Advance, DoMakeContents
  <2>3. contents'[Root] = "dir" /\ inodes' = inodes /\ hash' = hash /\ ls' = ls
    BY <1>0, <1>a, <1>b, <2>1 DEF DoMakeContents, TypeOK
  <2> QED
    BY <1>2, <2>2, <2>3 DEF MountStage, Calling, NoHash, NoLs, s1, s2, s3
<1>3. CASE Single(<<s3>>, <<>>) /\ inodes[Root] = "dir" /\ contents[Root] = "dir"
  <2>1. DoAddDot(<<s3>>)
    BY <1>3, <1>a, <1>b, SingleDoes DEF Does
  <2>2. todo' = <<>> /\ call' = None /\ cut' = cut
    BY <1>3, <1>b, <2>1, SingleEnds DEF Advance, DoAddDot
  <2>3. dot'[Root] /\ inodes' = inodes /\ contents' = contents /\ hash' = hash /\ ls' = ls
    BY <1>0, <1>a, <1>b, <2>1 DEF DoAddDot, TypeOK
  <2>4. Root \notin cut' => Whole(Root)'
    BY <1>3, <2>2, <2>3, NamespaceAssumption
       DEF MountStage, Whole, Complete, NoHash, NoLs, Kinds
  <2> QED
    BY <2>2, <2>4 DEF Ended
<1> QED
  BY <1>1, <1>2, <1>3 DEF MountStage, s1, s2, s3

-----------------------------------------------------------------------------
(* remove_file and remove_dir.                                             *)

LEMMA RemoveHeads ==
    ASSUME Base, NEW d \in Inodes, NEW n \in Names, NEW i \in Inodes, NEW k \in Kinds,
           RemoveStage(d, n, i, k)
    PROVE  InCall(i, k) /\ HeadsFit(i, k)
<1> DEFINE s1 == Step("rminode", None, None, i)
           s2 == Step("rmcontents", None, None, i)
           s3 == Step("unhash", d, n, None)
<1>1. InCall(i, k)
  BY DEF RemoveStage, Calling, InCall, CallRecords, AllOps
<1>2. <<s1, s2>> \o RemoveEntry(d, n) = <<s1, s2, s3>>
  BY TwoAndOne DEF RemoveEntry
<1>3. Fits(s1, i, k) /\ (NoOthersIn(i) => Fits(s2, i, k)) /\ Fits(s3, i, k)
  BY DEF Fits, Step, RemoveStage
<1>4. \A x \in cut \cup {i, None} : Fits(Step("unls", d, n, x), i, k)
  BY DEF Fits, Step
<1> HIDE DEF s1, s2, s3
<1>5. \A b \in Head(todo) : Fits(Head(b), i, k)
  <2>1. CASE Single(<<s1, s2, s3>>, <<>>)
    BY <1>3, <2>1 DEF Single
  <2>2. CASE Single(<<s2, s3>>, <<>>) /\ NoOthersIn(i)
    BY <1>3, <2>2 DEF Single
  <2>3. CASE Single(<<s3>>, <<>>)
    BY <1>3, <2>3 DEF Single
  <2>4. CASE \E x \in cut \cup {i, None} : Single(<<Step("unls", d, n, x)>>, <<>>)
    BY <1>4, <2>4 DEF Single
  <2> QED
    BY <1>2, <2>1, <2>2, <2>3, <2>4 DEF RemoveStage, s1, s2, s3
<1>6. \A b, c \in Head(todo) : Head(b) = Head(c)
  BY DEF RemoveStage, Single
<1> QED
  BY <1>1, <1>5, <1>6 DEF HeadsFit

LEMMA RemoveHostOps ==
    ASSUME Base, NEW d \in Inodes, NEW n \in Names, NEW i \in Inodes, NEW k \in Kinds,
           RemoveStage(d, n, i, k), HostOps, used' = used
    PROVE  RemoveStage(d, n, i, k)' \/ Ended(i)
<1> DEFINE s1 == Step("rminode", None, None, i)
           s2 == Step("rmcontents", None, None, i)
           s3 == Step("unhash", d, n, None)
<1>0. TypeOK /\ Calling("remove", i, k) /\ call.ino = i /\ i \in used /\ i \in used'
  BY DEF Base, RemoveStage, Calling
<1>1. <<s1, s2>> \o RemoveEntry(d, n) = <<s1, s2, s3>>
  BY TwoAndOne DEF RemoveEntry
<1>a. /\ s1.act = "rminode" /\ s2.act = "rmcontents" /\ s3.act = "unhash"
      /\ s1.ino = i /\ s2.ino = i /\ s3.dir = d /\ s3.name = n
  BY DEF Step
<1> HIDE DEF s1, s2, s3
<1>b. /\ Head(<<s1, s2, s3>>) = s1 /\ Head(<<s2, s3>>) = s2 /\ Head(<<s3>>) = s3
      /\ Tail(<<s1, s2, s3>>) = <<s2, s3>> /\ Tail(<<s2, s3>>) = <<s3>> /\ Tail(<<s3>>) = <<>>
      /\ <<s2, s3>> # <<>> /\ <<s3>> # <<>> /\ <<>> \in Seq({})
  OBVIOUS
<1>2. CASE Single(<<s1, s2, s3>>, <<>>) /\ NoOthersIn(i) /\ StillNamed(i, d, n)
  <2>1. DoRemoveInode(<<s1, s2, s3>>)
    BY <1>2, <1>a, <1>b, SingleDoes DEF Does
  <2>2. Single(<<s2, s3>>, <<>>)' /\ call' = call /\ cut' = cut
    BY <1>2, <1>b, <2>1, SingleGoes DEF Advance, DoRemoveInode
  <2>3. inodes'[i] = None /\ contents' = contents /\ hash' = hash /\ ls' = ls
    BY <1>0, <1>a, <1>b, <2>1 DEF DoRemoveInode, TypeOK
  <2> QED
    BY <1>0, <1>2, <2>2, <2>3
       DEF RemoveStage, Calling, OnlyHash, OnlyLs, NoOthersIn, StillNamed, s2, s3
<1>3. CASE Single(<<s2, s3>>, <<>>) /\ NoOthersIn(i) /\ StillNamed(i, d, n) /\ inodes[i] = None
  <2>1. DoRemoveContents(<<s2, s3>>)
    BY <1>3, <1>a, <1>b, SingleDoes DEF Does
  <2>2. CASE contents[i] = None
    <3>1. Stop(<<s2, s3>>)
      BY <1>a, <1>b, <2>1, <2>2 DEF DoRemoveContents
    <3> QED
      BY <1>0, <3>1 DEF Stop, Ended
  <2>3. CASE contents[i] # None
    <3>1. Goes(<<s2, s3>>, <<s3>>)
      BY <1>a, <1>b, <2>1, <2>3 DEF DoRemoveContents, Advance
    <3>2. Single(<<s3>>, <<>>)' /\ call' = call /\ cut' = cut
      BY <1>3, <1>b, <3>1, SingleGoes
    <3>3. /\ contents' = [contents EXCEPT ![i] = None]
          /\ hash' = [hash EXCEPT ![i] = [m \in Names |-> None]]
          /\ ls' = {e \in ls : e.dir # i} /\ inodes' = inodes
      BY <1>a, <1>b, <2>1 DEF DoRemoveContents
    <3>4. \A e \in Inodes, m \in Names : hash'[e][m] = IF e = i THEN None ELSE hash[e][m]
      BY <1>0, <3>3 DEF TypeOK
    <3>5. OnlyHash(i, d, n)' /\ hash'[d][n] \in cut' \cup {i, None}
      BY <3>2, <3>4, NamespaceAssumption DEF RemoveStage, OnlyHash
    <3>6. i \notin cut' => OnlyLs(i, d, n)'
      BY <3>2, <3>3 DEF RemoveStage, OnlyLs
    <3>7. inodes'[i] = None /\ contents'[i] = None
      BY <1>0, <1>3, <3>3 DEF TypeOK
    <3>8. StillNamed(i, d, n)'
      BY <1>0, <1>3, <3>2, <3>3, <3>4 DEF StillNamed, TypeOK
    <3> QED
      BY <1>0, <3>2, <3>5, <3>6, <3>7, <3>8 DEF RemoveStage, Calling, s3
  <2> QED
    BY <2>2, <2>3
<1>4. CASE Single(<<s3>>, <<>>) /\ StillNamed(i, d, n) /\ inodes[i] = None /\ contents[i] = None
  <2>1. DoRemoveHash(<<s3>>)
    BY <1>4, <1>a, <1>b, SingleDoes DEF Does
  <2>2. PICK x \in cut \cup {i, None} : x = hash[d][n]
    BY DEF RemoveStage
  <2>x. i \notin cut => x \in {i, None}
    BY <1>4, <2>2 DEF StillNamed
  <2>3. /\ <<Step("unls", d, n, x)>> \o <<>> = <<Step("unls", d, n, x)>>
        /\ <<Step("unls", d, n, x)>> # <<>>
    OBVIOUS
  <2>4. Goes(<<s3>>, <<Step("unls", d, n, x)>>)
    BY <1>a, <1>b, <2>1, <2>2, <2>3 DEF DoRemoveHash
  <2>5. Single(<<Step("unls", d, n, x)>>, <<>>)' /\ call' = call /\ cut' = cut
    BY <1>4, <1>b, <2>3, <2>4, SingleGoes
  <2>6. hash' = [hash EXCEPT ![d][n] = None] /\ UNCHANGED <<inodes, contents, ls>>
    BY <1>a, <1>b, <2>1 DEF DoRemoveHash
  <2>7. \A e \in Inodes, m \in Names :
          hash'[e][m] = IF e = d /\ m = n THEN None ELSE hash[e][m]
    BY <1>0, <2>6 DEF TypeOK
  <2>8. OnlyHash(i, d, n)' /\ NoHash(i)' /\ hash'[d][n] = None
    BY <2>7, NamespaceAssumption DEF RemoveStage, OnlyHash, NoHash
  <2>9. i \notin cut' => OnlyLs(i, d, n)'
    BY <2>5, <2>6 DEF RemoveStage, OnlyLs
  <2> QED
    BY <1>0, <1>4, <2>5, <2>6, <2>8, <2>9, <2>x DEF RemoveStage, Calling
<1>5. ASSUME NEW x \in cut \cup {i, None}, Single(<<Step("unls", d, n, x)>>, <<>>),
             inodes[i] = None, contents[i] = None, NoHash(i), i \notin cut => x \in {i, None}
      PROVE  Ended(i)
  <2> DEFINE s4 == Step("unls", d, n, x)
  <2>1. s4.act = "unls" /\ s4.dir = d /\ s4.name = n /\ s4.ino = x
    BY DEF Step
  <2>2. Single(<<s4>>, <<>>)
    BY <1>5
  <2> HIDE DEF s4
  <2>3. Head(<<s4>>) = s4 /\ Tail(<<s4>>) = <<>>
    OBVIOUS
  <2>4. DoRemoveLs(<<s4>>)
    BY <2>1, <2>2, <2>3, SingleDoes DEF Does
  <2>5. /\ IF Entry(d, n, x) \in ls THEN Goes(<<s4>>, <<>>) ELSE Stop(<<s4>>)
        /\ ls' = ls \ {Entry(d, n, x)} /\ UNCHANGED <<inodes, contents, hash>>
    BY <2>1, <2>3, <2>4 DEF DoRemoveLs, Advance
  <2>6. CASE Entry(d, n, x) \notin ls
    BY <1>0, <2>5, <2>6 DEF Stop, Ended
  <2>7. CASE Entry(d, n, x) \in ls
    <3>1. todo' = <<>> /\ call' = None /\ cut' = cut
      BY <2>2, <2>5, <2>7, SingleEnds
    <3>2. i \notin cut => x = i
      BY <1>0, <1>5, <2>7, NamespaceAssumption DEF TypeOK, Entries, Entry
    <3>3. NoHash(i)'
      BY <1>5, <2>5 DEF NoHash
    <3>4. i \notin cut => NoLs(i)'
      BY <2>5, <3>2 DEF RemoveStage, OnlyLs, NoLs
    <3> QED
      BY <1>5, <2>5, <3>1, <3>3, <3>4 DEF Ended, Whole, Absent
  <2> QED
    BY <2>6, <2>7
<1> QED
  BY <1>1, <1>2, <1>3, <1>4, <1>5 DEF RemoveStage, s1, s2, s3

-----------------------------------------------------------------------------
(* Phases of several branches.                                             *)

LEMMA PhaseGoes ==
    ASSUME NEW S, NEW T \in Seq(S), NEW Q, NEW b, NEW c, NEW P,
           todo # <<>>, Tail(todo) = T, Head(todo) = {b} \cup Q, b \notin Q,
           P = Q \cup (IF c = <<>> THEN {} ELSE {c}), Goes(b, c)
    PROVE  /\ cut' = cut
           /\ P = {} => todo' = T /\ call' = IF T = <<>> THEN None ELSE call
           /\ P # {} => todo' # <<>> /\ Head(todo') = P /\ Tail(todo') = T /\ call' = call
<1>1. Head(todo) \ {b} = Q
  BY TakeOut
<1>2. Left(b, c) = IF P = {} THEN T ELSE <<P>> \o T
  BY <1>1 DEF Left
<1>3. <<P>> \o T # <<>> /\ Head(<<P>> \o T) = P /\ Tail(<<P>> \o T) = T
  BY ConsParts
<1> QED
  BY <1>2, <1>3 DEF Goes

LEMMA LsSame ==
    ASSUME NEW d, NEW n, NEW i, NEW l, LsDone(l, d, n, i), ls' = ls
    PROVE  LsDone(l, d, n, i)'
  BY DEF LsDone, NoLs, OnlyLs

LEMMA HashSame ==
    ASSUME NEW d, NEW n, NEW i, NEW h, HashDone(h, d, n, i), hash' = hash, cut' = cut
    PROVE  HashDone(h, d, n, i)'
  BY DEF HashDone, NoHash, OnlyHash, Given

LEMMA LsAdded ==
    ASSUME NEW d, NEW n, NEW i, NoLs(i), ls' = ls \cup {Entry(d, n, i)}
    PROVE  LsDone(FALSE, d, n, i)'
  BY DEF LsDone, NoLs, OnlyLs

LEMMA HashAdded ==
    ASSUME TypeOK, NEW d \in Inodes, NEW n \in Names, NEW i, NoHash(i),
           hash' = [hash EXCEPT ![d][n] = i]
    PROVE  HashDone(FALSE, d, n, i)'
<1>1. \A e \in Inodes, m \in Names :
        hash'[e][m] = IF e = d /\ m = n THEN i ELSE hash[e][m]
  BY DEF TypeOK
<1> QED
  BY <1>1 DEF HashDone, NoHash, OnlyHash

-----------------------------------------------------------------------------
(* create.                                                                 *)

LEMMA NewContentsParts ==
    ASSUME NEW d, NEW i, NEW k \in Kinds
    PROVE  /\ Head(NewContents(d, i, k)) = Step("contents", None, None, i)
           /\ Tail(NewContents(d, i, k)) = IF k = "file" THEN <<>>
                ELSE <<Step("dot", None, None, i), Step("up", d, None, i)>>
  BY DEF NewContents

LEMMA CreateHeads ==
    ASSUME Base, NEW d \in Inodes, NEW n \in Names, NEW i \in Inodes, NEW k \in Kinds,
           CreateStage(d, n, i, k)
    PROVE  InCall(i, k) /\ HeadsFit(i, k)
<1>1. InCall(i, k)
  BY DEF CreateStage, Calling, InCall, CallRecords, AllOps
<1>2. CASE CreateFirst(d, n, i, k)
  <2>1. Fits(Step("inode", None, None, i), i, k)
    BY DEF Fits, Step
  <2>2. \A b \in Head(todo) : Head(b) = Step("inode", None, None, i)
    BY <1>2 DEF CreateFirst, Single
  <2> QED
    BY <1>1, <2>1, <2>2 DEF HeadsFit
<1>3. ASSUME NEW c \in CreateStates, NEW l \in BOOLEAN, NEW h \in BOOLEAN,
             CreateSecond(d, n, i, k, c, l, h)
      PROVE  HeadsFit(i, k)
  <2> DEFINE sc == Step("contents", None, None, i)
             sd == Step("dot", None, None, i)
             su == Step("up", d, None, i)
             sl == Step("ls", d, n, i)
             sh == Step("hash", d, n, i)
  <2>1. ASSUME NEW b \in Head(todo)
        PROVE  \/ c = "contents" /\ Head(b) = sc
               \/ c = "dot" /\ Head(b) = sd
               \/ c = "up" /\ Head(b) = su
               \/ l = TRUE /\ Head(b) = sl
               \/ h = TRUE /\ Head(b) = sh
    <3>1. b \in Branches(d, n, i, k, c, l, h)
      BY <1>3 DEF CreateSecond
    <3>2. \/ c = "contents" /\ b = NewContents(d, i, k)
          \/ c = "dot" /\ b = <<sd, su>>
          \/ c = "up" /\ b = <<su>>
          \/ l = TRUE /\ b = <<sl>>
          \/ h = TRUE /\ b = <<sh>>
      BY <3>1 DEF Branches, ContentsLeft, LsLeft, HashLeft, CreateStates
    <3>3. Head(NewContents(d, i, k)) = sc
      BY NewContentsParts
    <3> HIDE DEF sc, sd, su, sl, sh
    <3> QED
      BY <3>2, <3>3
  <2>2. contents[d] = "dir" /\ call.op # "mount"
    BY DEF CreateStage, Calling
  <2>3. c = "contents" => Fits(sc, i, k)
    BY <1>3 DEF CreateSecond, Made, ContentsDone, Fits, Step
  <2>4. Fits(sd, i, k) /\ Fits(su, i, k) /\ Fits(sl, i, k)
    BY <2>2 DEF Fits, Step
  <2>5. h = TRUE => Fits(sh, i, k)
    BY <1>3, <2>2 DEF CreateSecond, Made, HashDone, Fits, Step
  <2>6. /\ sc.act = "contents" /\ sd.act = "dot" /\ su.act = "up"
        /\ sl.act = "ls" /\ sh.act = "hash"
    BY DEF Step
  <2> HIDE DEF sc, sd, su, sl, sh
  <2>7. \A b \in Head(todo) : Fits(Head(b), i, k)
    BY <2>1, <2>3, <2>4, <2>5
  <2>8. \A b, e \in Head(todo) : Head(b).act = Head(e).act => Head(b) = Head(e)
    BY <2>1, <2>6
  <2> QED
    BY <2>7, <2>8 DEF HeadsFit
<1> QED
  BY <1>1, <1>2, <1>3 DEF CreateStage

(* The call goes on, or it ends because all branches have ended. *)
LEMMA CreateAfter ==
    ASSUME NEW d \in Inodes, NEW n \in Names, NEW i \in Inodes, NEW k \in Kinds,
           CreateStage(d, n, i, k), used' = used, contents'[d] = "dir",
           NEW c \in CreateStates, NEW l \in BOOLEAN, NEW h \in BOOLEAN,
           Made(d, n, i, k, c, l, h)',
           NEW P, P = Branches(d, n, i, k, c, l, h),
           P = {} => todo' = <<>> /\ call' = None,
           P # {} => todo' # <<>> /\ Head(todo') = P /\ Tail(todo') = <<>> /\ call' = call
    PROVE  CreateStage(d, n, i, k)' \/ Ended(i)
<1>1. CASE P # {}
  <2>1. CreateSecond(d, n, i, k, c, l, h)'
    BY <1>1 DEF CreateSecond
  <2> QED
    BY <1>1, <2>1 DEF CreateStage, Calling
<1>2. CASE P = {}
  <2>1. c = "done" /\ l = FALSE /\ h = FALSE
    BY <1>2 DEF Branches, ContentsLeft, LsLeft, HashLeft, CreateStates
  <2>2. /\ inodes'[i] = k /\ contents'[i] = k
        /\ k = "dir" => dot'[i] /\ up'[i] = d
        /\ i \notin cut' => Entry(d, n, i) \in ls' /\ OnlyLs(i, d, n)'
        /\ i \notin cut' => hash'[d][n] = i /\ OnlyHash(i, d, n)'
    BY <2>1 DEF Made, ContentsDone, LsDone, HashDone
  <2>3. i \notin cut' => NamedAt(i, d, n)'
    BY <2>2 DEF NamedAt
  <2>4. i # Root
    BY DEF CreateStage
  <2>5. k # None
    BY NamespaceAssumption
  <2>6. i \notin cut' => Whole(i)'
    BY <2>2, <2>3, <2>4, <2>5 DEF Whole, Complete
  <2> QED
    BY <1>2, <2>6 DEF Ended
<1> QED
  BY <1>1, <1>2

LEMMA CreateHostOps ==
    ASSUME Base, NEW d \in Inodes, NEW n \in Names, NEW i \in Inodes, NEW k \in Kinds,
           CreateStage(d, n, i, k), HostOps, used' = used
    PROVE  CreateStage(d, n, i, k)' \/ Ended(i)
<1> DEFINE sc == Step("contents", None, None, i)
           sd == Step("dot", None, None, i)
           su == Step("up", d, None, i)
           sl == Step("ls", d, n, i)
           sh == Step("hash", d, n, i)
           bc == NewContents(d, i, k)
<1>0. /\ TypeOK /\ call.kind = k /\ call # None
      /\ i # Root /\ i # d /\ contents[d] = "dir" /\ <<>> \in Seq({})
  BY CreateHeads, NamespaceAssumption DEF Base, CreateStage, Calling, InCall
<1>a. /\ sc.act = "contents" /\ sd.act = "dot" /\ su.act = "up"
      /\ sl.act = "ls" /\ sh.act = "hash"
      /\ sc.ino = i /\ sd.ino = i /\ su.ino = i /\ su.dir = d
      /\ sl.ino = i /\ sl.dir = d /\ sl.name = n
      /\ sh.ino = i /\ sh.dir = d /\ sh.name = n
  BY DEF Step
<1>b. Head(bc) = sc /\ Tail(bc) = IF k = "file" THEN <<>> ELSE <<sd, su>>
  BY NewContentsParts
<1>c. /\ ContentsLeft("contents", d, i, k) = {bc} /\ ContentsLeft("dot", d, i, k) = {<<sd, su>>}
      /\ ContentsLeft("up", d, i, k) = {<<su>>} /\ ContentsLeft("done", d, i, k) = {}
      /\ LsLeft(TRUE, d, n, i) = {<<sl>>} /\ LsLeft(FALSE, d, n, i) = {}
      /\ HashLeft(TRUE, d, n, i) = {<<sh>>} /\ HashLeft(FALSE, d, n, i) = {}
  BY DEF ContentsLeft, LsLeft, HashLeft
<1>1. CASE CreateFirst(d, n, i, k)
  <2> DEFINE s1 == Step("inode", None, None, i)
             P == {bc} \cup InsertEntry(d, n, i)
  <2>1. s1.act = "inode" /\ s1.ino = i
    BY DEF Step
  <2>2. Single(<<s1>>, <<P>>)
    BY <1>1 DEF CreateFirst
  <2>3. P = Branches(d, n, i, k, "contents", TRUE, TRUE)
    BY <1>c DEF Branches, InsertEntry
  <2> HIDE DEF s1, P
  <2>4. /\ Head(<<s1>>) = s1 /\ Tail(<<s1>>) = <<>>
        /\ <<P>> # <<>> /\ Head(<<P>>) = P /\ Tail(<<P>>) = <<>>
    OBVIOUS
  <2>5. DoWriteInode(<<s1>>)
    BY <2>1, <2>2, <2>4, SingleDoes DEF Does
  <2>6. todo' = <<P>> /\ call' = call /\ cut' = cut
    BY <2>2, <2>4, <2>5, SingleEnds DEF DoWriteInode, Advance
  <2>7. inodes'[i] = k /\ UNCHANGED <<contents, hash, ls, dot, up>>
    BY <1>0, <2>1, <2>4, <2>5 DEF DoWriteInode, TypeOK
  <2>8. Made(d, n, i, k, "contents", TRUE, TRUE)'
    BY <1>1, <2>6, <2>7
       DEF CreateFirst, Absent, Made, ContentsDone, LsDone, HashDone, NoHash, NoLs, Given
  <2>9. CreateSecond(d, n, i, k, "contents", TRUE, TRUE)'
    BY <2>3, <2>4, <2>6, <2>8 DEF CreateSecond
  <2> QED
    BY <2>6, <2>7, <2>9 DEF CreateStage, Calling, CreateStates
<1>2. ASSUME NEW c \in CreateStates, NEW l \in BOOLEAN, NEW h \in BOOLEAN,
             CreateSecond(d, n, i, k, c, l, h)
      PROVE  CreateStage(d, n, i, k)' \/ Ended(i)
  <2>0. /\ todo # <<>> /\ Tail(todo) = <<>>
        /\ Head(todo) = ContentsLeft(c, d, i, k) \cup LsLeft(l, d, n, i) \cup HashLeft(h, d, n, i)
        /\ inodes[i] = k
        /\ ContentsDone(c, d, i, k) /\ HashDone(h, d, n, i)
        /\ i \notin cut => LsDone(l, d, n, i)
    BY <1>2 DEF CreateSecond, Branches, Made
  <2>1. PICK b : Does(b)
    BY HostOpsDoes
  <2>2. \/ c = "contents" /\ b = bc
        \/ c = "dot" /\ b = <<sd, su>>
        \/ c = "up" /\ b = <<su>>
        \/ l = TRUE /\ b = <<sl>>
        \/ h = TRUE /\ b = <<sh>>
    <3>1. b \in Branches(d, n, i, k, c, l, h)
      BY <1>2, <2>1 DEF CreateSecond, Does
    <3> QED
      BY <3>1 DEF Branches, ContentsLeft, LsLeft, HashLeft, CreateStates
  <2> HIDE DEF sc, sd, su, sl, sh, bc
  <2>h. /\ Head(<<sd, su>>) = sd /\ Tail(<<sd, su>>) = <<su>> /\ <<su>> # <<>> /\ <<sd, su>> # <<>>
        /\ Head(<<su>>) = su /\ Tail(<<su>>) = <<>>
        /\ Head(<<sl>>) = sl /\ Tail(<<sl>>) = <<>>
        /\ Head(<<sh>>) = sh /\ Tail(<<sh>>) = <<>>
    OBVIOUS
  <2>3. CASE c = "contents" /\ b = bc
    <3> DEFINE Q == LsLeft(l, d, n, i) \cup HashLeft(h, d, n, i)
               e == IF k = "file" THEN "done" ELSE "dot"
               P == Q \cup (IF Tail(b) = <<>> THEN {} ELSE {Tail(b)})
    <3>1. DoMakeContents(b)
      BY <1>a, <1>b, <2>1, <2>3 DEF Does
    <3>2. b \notin Q /\ Head(todo) = {b} \cup Q
      BY <1>a, <1>b, <1>c, <2>0, <2>3, <2>h
    <3>3. P = Branches(d, n, i, k, e, l, h)
      BY <1>b, <1>c, <2>3, <2>h DEF Branches
    <3>4. /\ cut' = cut
          /\ P = {} => todo' = <<>> /\ call' = None
          /\ P # {} => todo' # <<>> /\ Head(todo') = P /\ Tail(todo') = <<>> /\ call' = call
      <4> HIDE DEF Q
      <4> QED
        BY <1>0, <2>0, <3>1, <3>2, PhaseGoes DEF DoMakeContents, Advance
    <3>5. /\ contents'[i] = k /\ contents'[d] = "dir"
          /\ UNCHANGED <<inodes, hash, ls, dot, up>>
      BY <1>0, <1>a, <1>b, <2>3, <3>1 DEF DoMakeContents, TypeOK
    <3>6. Made(d, n, i, k, e, l, h)'
      <4>1. ContentsDone(e, d, i, k)'
        BY <3>5 DEF ContentsDone, Kinds
      <4> QED
        BY <2>0, <3>4, <3>5, <4>1, LsSame, HashSame DEF Made
    <3>7. e \in CreateStates
      BY DEF CreateStates
    <3> HIDE DEF Q, P, e
    <3> QED
      BY <3>3, <3>4, <3>5, <3>6, <3>7, CreateAfter
  <2>4. CASE c = "dot" /\ b = <<sd, su>>
    <3> DEFINE Q == LsLeft(l, d, n, i) \cup HashLeft(h, d, n, i)
               P == Q \cup {<<su>>}
    <3>1. DoAddDot(b)
      BY <1>a, <2>1, <2>4, <2>h DEF Does
    <3>2. b \notin Q /\ Head(todo) = {b} \cup Q
      BY <1>a, <1>c, <2>0, <2>4, <2>h
    <3>3. P = Branches(d, n, i, k, "up", l, h)
      BY <1>c DEF Branches
    <3>4. /\ cut' = cut
          /\ P = {} => todo' = <<>> /\ call' = None
          /\ P # {} => todo' # <<>> /\ Head(todo') = P /\ Tail(todo') = <<>> /\ call' = call
      <4>1. P = Q \cup (IF <<su>> = <<>> THEN {} ELSE {<<su>>})
        BY <2>h
      <4>2. Goes(b, <<su>>)
        BY <2>4, <2>h, <3>1 DEF DoAddDot, Advance
      <4> HIDE DEF P, Q
      <4> QED
        BY <1>0, <2>0, <3>2, <4>1, <4>2, PhaseGoes
    <3>5. dot'[i] /\ UNCHANGED <<inodes, contents, hash, ls, up>>
      BY <1>0, <1>a, <2>4, <2>h, <3>1 DEF DoAddDot, TypeOK
    <3>6. Made(d, n, i, k, "up", l, h)'
      <4>1. ContentsDone("up", d, i, k)'
        BY <2>0, <2>4, <3>5 DEF ContentsDone
      <4> QED
        BY <2>0, <3>4, <3>5, <4>1, LsSame, HashSame DEF Made
    <3> HIDE DEF Q, P
    <3> QED
      BY <1>0, <3>3, <3>4, <3>5, <3>6, CreateAfter DEF CreateStates
  <2>5. CASE c = "up" /\ b = <<su>>
    <3> DEFINE Q == LsLeft(l, d, n, i) \cup HashLeft(h, d, n, i)
    <3>1. DoAddUp(b)
      BY <1>a, <2>1, <2>5, <2>h DEF Does
    <3>2. b \notin Q /\ Head(todo) = {b} \cup Q
      BY <1>a, <1>c, <2>0, <2>5, <2>h
    <3>3. Q = Branches(d, n, i, k, "done", l, h)
      BY <1>c DEF Branches
    <3>4. /\ cut' = cut
          /\ Q = {} => todo' = <<>> /\ call' = None
          /\ Q # {} => todo' # <<>> /\ Head(todo') = Q /\ Tail(todo') = <<>> /\ call' = call
      <4> HIDE DEF Q
      <4>1. Q = Q \cup {}
        OBVIOUS
      <4> QED
        BY <1>0, <2>0, <2>5, <2>h, <3>1, <3>2, <4>1, PhaseGoes DEF DoAddUp, Advance
    <3>5. up'[i] = d /\ UNCHANGED <<inodes, contents, hash, ls, dot>>
      BY <1>0, <1>a, <2>5, <2>h, <3>1 DEF DoAddUp, TypeOK
    <3>6. Made(d, n, i, k, "done", l, h)'
      <4>1. ContentsDone("done", d, i, k)'
        BY <2>0, <2>5, <3>5 DEF ContentsDone
      <4> QED
        BY <2>0, <3>4, <3>5, <4>1, LsSame, HashSame DEF Made
    <3> HIDE DEF Q
    <3> QED
      BY <1>0, <3>3, <3>4, <3>5, <3>6, CreateAfter DEF CreateStates
  <2>6. CASE l = TRUE /\ b = <<sl>>
    <3> DEFINE Q == ContentsLeft(c, d, i, k) \cup HashLeft(h, d, n, i)
    <3>1. DoAddLs(b)
      BY <1>a, <2>1, <2>6, <2>h DEF Does
    <3>2. b \notin Q /\ Head(todo) = {b} \cup Q
      BY <1>a, <1>b, <1>c, <2>0, <2>6, <2>h DEF CreateStates
    <3>3. Q = Branches(d, n, i, k, c, FALSE, h)
      BY <1>c DEF Branches
    <3>4. /\ cut' = cut
          /\ Q = {} => todo' = <<>> /\ call' = None
          /\ Q # {} => todo' # <<>> /\ Head(todo') = Q /\ Tail(todo') = <<>> /\ call' = call
      <4> HIDE DEF Q
      <4>1. Q = Q \cup {}
        OBVIOUS
      <4> QED
        BY <1>0, <2>0, <2>6, <2>h, <3>1, <3>2, <4>1, PhaseGoes DEF DoAddLs, Advance
    <3>5. ls' = ls \cup {Entry(d, n, i)} /\ UNCHANGED <<inodes, contents, hash, dot, up>>
      BY <1>0, <1>a, <2>6, <2>h, <3>1 DEF DoAddLs
    <3>6. Made(d, n, i, k, c, FALSE, h)'
      <4>1. ContentsDone(c, d, i, k)'
        BY <2>0, <3>5 DEF ContentsDone
      <4>2. i \notin cut => NoLs(i)
        BY <2>0, <2>6 DEF LsDone
      <4>3. i \notin cut => LsDone(FALSE, d, n, i)'
        BY <3>5, <4>2, LsAdded
      <4> QED
        BY <2>0, <3>4, <3>5, <4>1, <4>3, HashSame DEF Made
    <3> HIDE DEF Q
    <3> QED
      BY <1>0, <3>3, <3>4, <3>5, <3>6, CreateAfter
  <2>7. CASE h = TRUE /\ b = <<sh>>
    <3> DEFINE Q == ContentsLeft(c, d, i, k) \cup LsLeft(l, d, n, i)
    <3>1. DoAddHash(b)
      BY <1>a, <2>1, <2>7, <2>h DEF Does
    <3>2. b \notin Q /\ Head(todo) = {b} \cup Q
      BY <1>a, <1>b, <1>c, <2>0, <2>7, <2>h DEF CreateStates
    <3>3. Q = Branches(d, n, i, k, c, l, FALSE)
      BY <1>c DEF Branches
    <3>4. /\ cut' = cut
          /\ Q = {} => todo' = <<>> /\ call' = None
          /\ Q # {} => todo' # <<>> /\ Head(todo') = Q /\ Tail(todo') = <<>> /\ call' = call
      <4> HIDE DEF Q
      <4>1. Q = Q \cup {}
        OBVIOUS
      <4> QED
        BY <1>0, <2>0, <2>7, <2>h, <3>1, <3>2, <4>1, PhaseGoes DEF DoAddHash, Advance
    <3>5. hash' = [hash EXCEPT ![d][n] = i] /\ UNCHANGED <<inodes, contents, ls, dot, up>>
      BY <1>0, <1>a, <2>7, <2>h, <3>1 DEF DoAddHash
    <3>6. Made(d, n, i, k, c, l, FALSE)'
      <4>1. ContentsDone(c, d, i, k)'
        BY <2>0, <3>5 DEF ContentsDone
      <4>2. NoHash(i)
        BY <2>0, <2>7 DEF HashDone
      <4>3. HashDone(FALSE, d, n, i)'
        BY <1>0, <3>5, <4>2, HashAdded
      <4> QED
        BY <2>0, <3>4, <3>5, <4>1, <4>3, LsSame DEF Made
    <3> HIDE DEF Q
    <3> QED
      BY <1>0, <3>3, <3>4, <3>5, <3>6, CreateAfter
  <2> QED
    BY <2>2, <2>3, <2>4, <2>5, <2>6, <2>7
<1> QED
  BY <1>1, <1>2 DEF CreateStage

-----------------------------------------------------------------------------
(* rename.                                                                 *)

Phases(q, m, i) == {{<<Step("up", q, None, i)>>}, InsertEntry(q, m, i), {RemoveEntry(q, m)}}

LEMMA InsertParts ==
    ASSUME NEW q, NEW m, NEW i, NEW k
    PROVE  /\ UpPlan(q, i, k) \in Seq(Phases(q, m, i))
           /\ InsertPlan(q, m, i, k) \in Seq(Phases(q, m, i))
           /\ k # "dir" => UpPlan(q, i, k) = <<>>
           /\ k = "dir" => /\ UpPlan(q, i, k) # <<>> /\ Tail(UpPlan(q, i, k)) = <<>>
                           /\ Head(UpPlan(q, i, k)) = {<<Step("up", q, None, i)>>}
           /\ InsertPlan(q, m, i, k) # <<>>
           /\ Head(InsertPlan(q, m, i, k)) = InsertEntry(q, m, i)
           /\ Tail(InsertPlan(q, m, i, k)) = UpPlan(q, i, k)
<1> DEFINE U == {<<Step("up", q, None, i)>>}
           I == InsertEntry(q, m, i)
           X == Phases(q, m, i)
<1>1. U \in X /\ I \in X
  BY DEF Phases
<1>2. /\ UpPlan(q, i, k) = IF k = "dir" THEN <<U>> ELSE <<>>
      /\ InsertPlan(q, m, i, k) = <<I>> \o UpPlan(q, i, k)
  BY DEF UpPlan, InsertPlan
<1> HIDE DEF U, I, X
<1>3. /\ UpPlan(q, i, k) \in Seq(X)
      /\ k # "dir" => UpPlan(q, i, k) = <<>>
      /\ k = "dir" => UpPlan(q, i, k) # <<>> /\ Tail(UpPlan(q, i, k)) = <<>> /\ Head(UpPlan(q, i, k)) = U
  BY <1>1, <1>2
<1>4. /\ InsertPlan(q, m, i, k) \in Seq(X) /\ InsertPlan(q, m, i, k) # <<>>
      /\ Head(InsertPlan(q, m, i, k)) = I /\ Tail(InsertPlan(q, m, i, k)) = UpPlan(q, i, k)
  <2>1. <<I>> \in Seq(X)
    BY <1>1
  <2> QED
    BY <1>2, <1>3, <2>1, ConsParts, ConcatProperties
<1> QED
  BY <1>3, <1>4 DEF U, I, X

LEMMA OverParts ==
    ASSUME NEW t, NEW q, NEW m, NEW i, NEW k
    PROVE  /\ OverPlan(t, q, m, i, k) \in Seq(Phases(q, m, i))
           /\ OverPlan(t, q, m, i, k) # <<>>
           /\ t = None => OverPlan(t, q, m, i, k) = InsertPlan(q, m, i, k)
           /\ t # None => /\ Head(OverPlan(t, q, m, i, k)) = {RemoveEntry(q, m)}
                          /\ Tail(OverPlan(t, q, m, i, k)) = InsertPlan(q, m, i, k)
<1> DEFINE R == {RemoveEntry(q, m)}
           X == Phases(q, m, i)
           P == InsertPlan(q, m, i, k)
<1>1. R \in X /\ P \in Seq(X) /\ P # <<>>
  BY InsertParts DEF Phases
<1>2. OverPlan(t, q, m, i, k) = (IF t # None THEN <<R>> ELSE <<>>) \o P
  BY DEF OverPlan
<1> HIDE DEF R, X, P
<1>3. CASE t = None
  <2>1. OverPlan(t, q, m, i, k) = P
    BY <1>1, <1>2, <1>3, ConcatEmptySeq
  <2> QED
    BY <1>1, <1>3, <2>1 DEF P, X
<1>4. CASE t # None
  <2>1. <<R>> \in Seq(X)
    BY <1>1
  <2>2. /\ OverPlan(t, q, m, i, k) \in Seq(X) /\ OverPlan(t, q, m, i, k) # <<>>
        /\ Head(OverPlan(t, q, m, i, k)) = R /\ Tail(OverPlan(t, q, m, i, k)) = P
    BY <1>1, <1>2, <1>4, <2>1, ConsParts, ConcatProperties
  <2> QED
    BY <1>4, <2>2 DEF R, X, P
<1> QED
  BY <1>3, <1>4

LEMMA RenamePlanShape ==
    ASSUME NEW d, NEW n, NEW q, NEW m, NEW i
    PROVE  RenamePlan(d, n, q, m, i)
             = <<{RemoveEntry(d, n)}>> \o OverPlan(hash[q][m], q, m, i, inodes[i])
<1> DEFINE X == Phases(q, m, i) \cup {{RemoveEntry(d, n)}}
           A == <<{RemoveEntry(d, n)}>>
           B == IF hash[q][m] # None THEN << {RemoveEntry(q, m)} >> ELSE <<>>
           C == << InsertEntry(q, m, i) >>
           D == UpPlan(q, i, inodes[i])
<1>1. A \in Seq(X) /\ B \in Seq(X) /\ C \in Seq(X) /\ D \in Seq(X)
  <2> DEFINE R == {RemoveEntry(d, n)}
             V == {RemoveEntry(q, m)}
             I == InsertEntry(q, m, i)
             U == {<<Step("up", q, None, i)>>}
  <2>1. R \in X /\ V \in X /\ I \in X /\ U \in X
    BY DEF Phases
  <2>2. A = <<R>> /\ B = (IF hash[q][m] # None THEN <<V>> ELSE <<>>) /\ C = <<I>>
        /\ D = IF inodes[i] = "dir" THEN <<U>> ELSE <<>>
    BY DEF UpPlan
  <2> HIDE DEF R, V, I, U, X, A, B, C, D
  <2> QED
    BY <2>1, <2>2
<1>2. RenamePlan(d, n, q, m, i) = ((A \o B) \o C) \o D
  BY DEF RenamePlan, UpPlan
<1>3. OverPlan(hash[q][m], q, m, i, inodes[i]) = B \o (C \o D)
  BY DEF OverPlan, InsertPlan
<1> HIDE DEF A, B, C, D, X
<1>4. ((A \o B) \o C) \o D = A \o (B \o (C \o D))
  BY ONLY <1>1, SMTT(20)
<1> QED
  BY <1>2, <1>3, <1>4 DEF A

LEMMA RenameHeads ==
    ASSUME Base, NEW d \in Inodes, NEW n \in Names, NEW q \in Inodes, NEW m \in Names,
           NEW i \in Inodes, NEW k \in Kinds, RenameStage(d, n, q, m, i, k)
    PROVE  InCall(i, k) /\ HeadsFit(i, k)
<1>1. InCall(i, k)
  BY DEF RenameStage, Renaming, Calling, InCall, CallRecords, AllOps
<1>2. ASSUME NEW s, NEW T, Single(<<s>>, T), Fits(s, i, k)
      PROVE  HeadsFit(i, k)
  <2>1. \A b \in Head(todo) : Head(b) = s
    BY <1>2 DEF Single
  <2> QED
    BY <1>2, <2>1 DEF HeadsFit
<1>3. ASSUME NEW t, OldEntry(d, n, q, m, i, k, t)
      PROVE  HeadsFit(i, k)
  <2>1. Fits(Step("unhash", d, n, None), i, k)
    BY <1>3 DEF OldEntry, Fits, Step
  <2> QED
    BY <1>2, <1>3, <2>1, <1>1 DEF OldEntry, RemoveEntry
<1>4. ASSUME NEW t, NEW x \in cut \cup {i}, OldLs(d, n, q, m, i, k, t, x)
      PROVE  HeadsFit(i, k)
  <2>1. Fits(Step("unls", d, n, x), i, k)
    BY DEF Fits, Step
  <2> QED
    BY <1>2, <1>4, <2>1, <1>1 DEF OldLs
<1>5. CASE OverEntry(q, m, i, k)
  <2>1. Fits(Step("unhash", q, m, None), i, k)
    BY <1>5 DEF OverEntry, Fits, Step
  <2> QED
    BY <1>2, <1>5, <2>1, <1>1 DEF OverEntry, RemoveEntry
<1>6. ASSUME NEW x \in cut, OverLs(q, m, i, k, x)
      PROVE  HeadsFit(i, k)
  <2>1. Fits(Step("unls", q, m, x), i, k)
    BY DEF Fits, Step
  <2> QED
    BY <1>2, <1>6, <2>1 DEF OverLs
<1>7. ASSUME NEW l \in BOOLEAN, NEW h \in BOOLEAN, Inserting(q, m, i, k, l, h)
      PROVE  HeadsFit(i, k)
  <2> DEFINE sl == Step("ls", q, m, i)
             sh == Step("hash", q, m, i)
  <2>1. \A b \in Head(todo) : b = <<sl>> \/ (h = TRUE /\ b = <<sh>>)
    BY <1>7 DEF Inserting, LsLeft, HashLeft
  <2>2. contents[q] = "dir" /\ call.op # "mount"
    BY DEF RenameStage, Renaming, Calling
  <2>3. Fits(sl, i, k)
    BY <2>2 DEF Fits, Step
  <2>4. h = TRUE => Fits(sh, i, k)
    BY <1>7, <2>2 DEF Inserting, HashDone, Fits, Step
  <2>5. sl.act = "ls" /\ sh.act = "hash"
    BY DEF Step
  <2> HIDE DEF sl, sh
  <2>6. \A b \in Head(todo) : Head(b) = sl \/ (h = TRUE /\ Head(b) = sh)
    BY <2>1
  <2> QED
    BY <2>3, <2>4, <2>5, <2>6 DEF HeadsFit
<1>8. CASE Upping(q, m, i, k)
  <2>1. Fits(Step("up", q, None, i), i, k)
    BY DEF Fits, Step
  <2> QED
    BY <1>2, <1>8, <2>1, <1>1 DEF Upping
<1> QED
  BY <1>1, <1>3, <1>4, <1>5, <1>6, <1>7, <1>8 DEF RenameStage

(* No step of rename touches what Renaming looks at. *)
LEMMA RenamingKept ==
    ASSUME NEW d, NEW n, NEW q, NEW m, NEW i, NEW k, Renaming(d, n, q, m, i, k),
           used' = used, cut' = cut, call' = call, UNCHANGED <<inodes, contents, dot>>
    PROVE  Renaming(d, n, q, m, i, k)'
  BY DEF Renaming, Calling

(* The end of rename. *)
LEMMA RenameWhole ==
    ASSUME NEW d, NEW n, NEW q \in Inodes, NEW m \in Names, NEW i \in Inodes, NEW k \in Kinds,
           Renaming(d, n, q, m, i, k), cut' = cut, UNCHANGED <<inodes, contents, dot>>,
           HashDone(FALSE, q, m, i)', i \notin cut => LsDone(FALSE, q, m, i)',
           k = "dir" => up'[i] = q, call' = None, todo' = <<>>
    PROVE  Ended(i)
<1>1. ASSUME i \notin cut PROVE Whole(i)'
  <2>1. /\ hash'[q][m] = i /\ OnlyHash(i, q, m)'
        /\ Entry(q, m, i) \in ls' /\ OnlyLs(i, q, m)'
    BY <1>1 DEF HashDone, LsDone
  <2>2. /\ i # Root /\ inodes'[i] = k /\ contents'[i] = k /\ k # None
        /\ k = "dir" => dot'[i]
    BY <1>1, NamespaceAssumption DEF Renaming
  <2>3. NamedAt(i, q, m)'
    BY <2>1, <2>2 DEF NamedAt
  <2> QED
    BY <2>2, <2>3 DEF Whole, Complete
<1> QED
  BY <1>1 DEF Ended

(* The phase that inserts the new entry goes on, or it is over. *)
LEMMA RenameInserted ==
    ASSUME NEW d \in Inodes, NEW n \in Names, NEW q \in Inodes, NEW m \in Names,
           NEW i \in Inodes, NEW k \in Kinds, Renaming(d, n, q, m, i, k),
           used' = used, cut' = cut, UNCHANGED <<inodes, contents, dot>>, call # None,
           NEW l \in BOOLEAN, NEW h \in BOOLEAN,
           HashDone(h, q, m, i)', i \notin cut => LsDone(l, q, m, i)',
           NEW P, P = LsLeft(l, q, m, i) \cup HashLeft(h, q, m, i),
           P = {} => todo' = UpPlan(q, i, k)
                     /\ call' = IF UpPlan(q, i, k) = <<>> THEN None ELSE call,
           P # {} => /\ todo' # <<>> /\ Head(todo') = P /\ Tail(todo') = UpPlan(q, i, k)
                     /\ call' = call
    PROVE  RenameStage(d, n, q, m, i, k)' \/ Ended(i)
<1>1. CASE P # {}
  <2>1. Inserting(q, m, i, k, l, h)'
    BY <1>1 DEF Inserting
  <2>2. Renaming(d, n, q, m, i, k)'
    BY <1>1, RenamingKept
  <2> QED
    BY <2>1, <2>2 DEF RenameStage
<1>2. CASE P = {}
  <2>1. l = FALSE /\ h = FALSE
    BY <1>2 DEF LsLeft, HashLeft
  <2>2. HashDone(FALSE, q, m, i)' /\ (i \notin cut => LsDone(FALSE, q, m, i)')
    BY <2>1
  <2>3. CASE k = "dir"
    <3>1. /\ todo' # <<>> /\ Tail(todo') = <<>> /\ call' = call
          /\ Head(todo') = {<<Step("up", q, None, i)>>}
      BY <1>2, <2>3, InsertParts
    <3>2. Upping(q, m, i, k)'
      BY <2>2, <3>1 DEF Upping, Single
    <3>3. Renaming(d, n, q, m, i, k)'
      BY <3>1, RenamingKept
    <3> QED
      BY <3>2, <3>3 DEF RenameStage
  <2>4. CASE k # "dir"
    <3>1. todo' = <<>> /\ call' = None
      BY <1>2, <2>4, InsertParts
    <3> QED
      BY <2>2, <2>4, <3>1, RenameWhole
  <2> QED
    BY <2>3, <2>4
<1> QED
  BY <1>1, <1>2

(* The phases before the last entry is inserted are over. *)
LEMMA RenameInserts ==
    ASSUME NEW d \in Inodes, NEW n \in Names, NEW q \in Inodes, NEW m \in Names,
           NEW i \in Inodes, NEW k \in Kinds, Renaming(d, n, q, m, i, k),
           used' = used, cut' = cut, UNCHANGED <<inodes, contents, dot>>,
           todo' = InsertPlan(q, m, i, k), call' = call,
           NoHash(i)', Given(q, m)', i \notin cut => NoLs(i)'
    PROVE  RenameStage(d, n, q, m, i, k)'
<1>1. LsLeft(TRUE, q, m, i) \cup HashLeft(TRUE, q, m, i) = InsertEntry(q, m, i)
  BY DEF LsLeft, HashLeft, InsertEntry
<1>2. HashDone(TRUE, q, m, i)' /\ (i \notin cut => LsDone(TRUE, q, m, i)')
  BY DEF HashDone, LsDone
<1>3. /\ todo' # <<>> /\ Tail(todo') = UpPlan(q, i, k) /\ Head(todo') = InsertEntry(q, m, i)
  BY InsertParts
<1>4. Inserting(q, m, i, k, TRUE, TRUE)'
  BY <1>1, <1>2, <1>3 DEF Inserting
<1>5. Renaming(d, n, q, m, i, k)'
  BY RenamingKept
<1> QED
  BY <1>4, <1>5 DEF RenameStage

LEMMA RenameHostOps ==
    ASSUME Base, NEW d \in Inodes, NEW n \in Names, NEW q \in Inodes, NEW m \in Names,
           NEW i \in Inodes, NEW k \in Kinds, RenameStage(d, n, q, m, i, k), HostOps,
           used' = used
    PROVE  RenameStage(d, n, q, m, i, k)' \/ Ended(i)
<1>0. /\ TypeOK /\ Renaming(d, n, q, m, i, k) /\ call.ino = i /\ call # None
      /\ ~(d = q /\ n = m)
  BY RenameHeads, NamespaceAssumption DEF Base, RenameStage, Renaming, InCall
<1>h. \A s : Head(<<s>>) = s /\ Tail(<<s>>) = <<>> /\ <<s>> # <<>> /\ <<s>> \o <<>> = <<s>>
  OBVIOUS
(* remove_directory_entry, for the HASH entry (e, o) and for the LS entry of x in it. *)
<1>u. ASSUME NEW e \in Inodes, NEW o \in Names, NEW T, NEW S, T \in Seq(S),
             Single(RemoveEntry(e, o), T), NEW x, hash[e][o] = x
      PROVE  /\ Single(<<Step("unls", e, o, x)>>, T)' /\ call' = call /\ cut' = cut
             /\ UNCHANGED <<inodes, contents, ls, dot, up>>
             /\ \A f \in Inodes, p \in Names :
                   hash'[f][p] = IF f = e /\ p = o THEN None ELSE hash[f][p]
  <2> DEFINE s == Step("unhash", e, o, None)
             r == Step("unls", e, o, x)
  <2>1. s.act = "unhash" /\ s.dir = e /\ s.name = o
    BY DEF Step
  <2>2. Single(<<s>>, T)
    BY <1>u DEF RemoveEntry
  <2> HIDE DEF s
  <2>3. DoRemoveHash(<<s>>)
    BY <1>h, <2>1, <2>2, SingleDoes DEF Does
  <2>4. Goes(<<s>>, <<r>>)
    BY <1>h, <1>u, <2>1, <2>3 DEF DoRemoveHash
  <2>5. hash' = [hash EXCEPT ![e][o] = None] /\ UNCHANGED <<inodes, contents, ls, dot, up>>
    BY <1>h, <2>1, <2>3 DEF DoRemoveHash
  <2>6. Single(<<r>>, T)' /\ call' = call /\ cut' = cut
    <3> HIDE DEF r
    <3> QED
      BY <1>h, <1>u, <2>2, <2>4, SingleGoes
  <2> QED
    BY <1>0, <2>5, <2>6 DEF TypeOK
<1>l. ASSUME NEW e, NEW o, NEW T, NEW x, Single(<<Step("unls", e, o, x)>>, T), T # <<>>
      PROVE  \/ Ended(i)
             \/ /\ todo' = T /\ call' = call /\ cut' = cut
                /\ ls' = ls \ {Entry(e, o, x)}
                /\ UNCHANGED <<inodes, contents, hash, dot, up>>
  <2> DEFINE r == Step("unls", e, o, x)
  <2>1. r.act = "unls" /\ r.dir = e /\ r.name = o /\ r.ino = x
    BY DEF Step
  <2>2. Single(<<r>>, T)
    BY <1>l
  <2> HIDE DEF r
  <2>3. DoRemoveLs(<<r>>)
    BY <1>h, <2>1, <2>2, SingleDoes DEF Does
  <2>4. /\ IF Entry(e, o, x) \in ls THEN Goes(<<r>>, <<>>) ELSE Stop(<<r>>)
        /\ ls' = ls \ {Entry(e, o, x)} /\ UNCHANGED <<inodes, contents, hash, dot, up>>
    BY <1>h, <2>1, <2>3 DEF DoRemoveLs, Advance
  <2>5. CASE Stop(<<r>>)
    BY <1>0, <2>5 DEF Stop, Ended
  <2>6. CASE Goes(<<r>>, <<>>)
    BY <1>l, <2>2, <2>4, <2>6, SingleEnds
  <2> QED
    BY <2>4, <2>5, <2>6
<1>1. ASSUME NEW t \in Inodes \cup {None}, OldEntry(d, n, q, m, i, k, t)
      PROVE  RenameStage(d, n, q, m, i, k)'
  <2> DEFINE T == OverPlan(t, q, m, i, k)
  <2>1. T \in Seq(Phases(q, m, i)) /\ Single(RemoveEntry(d, n), T)
    BY <1>1, OverParts DEF OldEntry
  <2>2. PICK x \in cut \cup {i} : x = hash[d][n] /\ (i \notin cut => x = i)
    BY <1>1 DEF OldEntry
  <2>3. /\ Single(<<Step("unls", d, n, x)>>, T)' /\ call' = call /\ cut' = cut
        /\ UNCHANGED <<inodes, contents, ls, dot, up>>
        /\ \A f \in Inodes, p \in Names :
              hash'[f][p] = IF f = d /\ p = n THEN None ELSE hash[f][p]
    <3> HIDE DEF T
    <3> QED
      BY <1>u, <2>1, <2>2
  <2>4. hash'[q][m] = hash[q][m]
    BY <1>0, <2>3
  <2>5. Given(q, m)' /\ (t # None => hash'[q][m] # None)
    BY <1>1, <2>3, <2>4 DEF OldEntry, Given
  <2>6. NoHash(i)'
    BY <1>1, <2>3, NamespaceAssumption DEF OldEntry, OnlyHash, NoHash
  <2>7. i \notin cut' => x = i /\ OnlyLs(i, d, n)'
    BY <1>1, <2>2, <2>3 DEF OldEntry, OnlyLs
  <2>8. OldLs(d, n, q, m, i, k, t, x)'
    BY <2>3, <2>5, <2>6, <2>7 DEF OldLs
  <2>9. Renaming(d, n, q, m, i, k)' /\ x \in cut' \cup {i}
    BY <1>0, <2>3, RenamingKept
  <2> QED
    BY <2>8, <2>9 DEF RenameStage
<1>2. ASSUME NEW t \in Inodes \cup {None}, NEW x \in cut \cup {i}, OldLs(d, n, q, m, i, k, t, x)
      PROVE  RenameStage(d, n, q, m, i, k)' \/ Ended(i)
  <2> DEFINE T == OverPlan(t, q, m, i, k)
  <2>1. T # <<>> /\ Single(<<Step("unls", d, n, x)>>, T)
    BY <1>2, OverParts DEF OldLs
  <2>2. SUFFICES ASSUME ~Ended(i) PROVE RenameStage(d, n, q, m, i, k)'
    OBVIOUS
  <2>3. /\ todo' = T /\ call' = call /\ cut' = cut
        /\ ls' = ls \ {Entry(d, n, x)} /\ UNCHANGED <<inodes, contents, hash, dot, up>>
    <3> HIDE DEF T
    <3> QED
      BY <1>l, <2>1, <2>2
  <2>4. NoHash(i)' /\ Given(q, m)'
    BY <1>2, <2>3 DEF OldLs, NoHash, Given
  <2>5. i \notin cut => NoLs(i)'
    BY <1>2, <2>3 DEF OldLs, OnlyLs, NoLs
  <2>6. CASE t = None
    <3>1. todo' = InsertPlan(q, m, i, k)
      BY <2>3, <2>6, OverParts
    <3> QED
      BY <1>0, <2>3, <2>4, <2>5, <3>1, RenameInserts
  <2>7. CASE t # None
    <3>1. Single(RemoveEntry(q, m), InsertPlan(q, m, i, k))'
      BY <2>1, <2>3, <2>7, OverParts DEF Single
    <3>2. hash'[q][m] \in cut'
      BY <1>2, <2>3, <2>7 DEF OldLs, Given
    <3>3. OverEntry(q, m, i, k)'
      BY <2>3, <2>4, <2>5, <3>1, <3>2 DEF OverEntry
    <3>4. Renaming(d, n, q, m, i, k)'
      BY <1>0, <2>3, RenamingKept
    <3> QED
      BY <3>3, <3>4 DEF RenameStage
  <2> QED
    BY <2>6, <2>7
<1>3. CASE OverEntry(q, m, i, k)
  <2> DEFINE T == InsertPlan(q, m, i, k)
  <2>1. T \in Seq(Phases(q, m, i)) /\ Single(RemoveEntry(q, m), T)
    BY <1>3, InsertParts DEF OverEntry
  <2>2. PICK x \in cut : x = hash[q][m]
    BY <1>3 DEF OverEntry
  <2>3. /\ Single(<<Step("unls", q, m, x)>>, T)' /\ call' = call /\ cut' = cut
        /\ UNCHANGED <<inodes, contents, ls, dot, up>>
        /\ \A f \in Inodes, p \in Names :
              hash'[f][p] = IF f = q /\ p = m THEN None ELSE hash[f][p]
    <3> HIDE DEF T
    <3> QED
      BY <1>u, <2>1, <2>2
  <2>4. NoHash(i)' /\ Given(q, m)'
    BY <1>3, <2>3, NamespaceAssumption DEF OverEntry, NoHash, Given
  <2>5. i \notin cut' => NoLs(i)'
    BY <1>3, <2>3 DEF OverEntry, NoLs
  <2>6. OverLs(q, m, i, k, x)'
    BY <2>3, <2>4, <2>5 DEF OverLs
  <2>7. Renaming(d, n, q, m, i, k)' /\ x \in cut'
    BY <1>0, <2>3, RenamingKept
  <2> QED
    BY <2>6, <2>7 DEF RenameStage
<1>4. ASSUME NEW x \in cut, OverLs(q, m, i, k, x)
      PROVE  RenameStage(d, n, q, m, i, k)' \/ Ended(i)
  <2> DEFINE T == InsertPlan(q, m, i, k)
  <2>1. T # <<>> /\ Single(<<Step("unls", q, m, x)>>, T)
    BY <1>4, InsertParts DEF OverLs
  <2>2. SUFFICES ASSUME ~Ended(i) PROVE RenameStage(d, n, q, m, i, k)'
    OBVIOUS
  <2>3. /\ todo' = T /\ call' = call /\ cut' = cut
        /\ ls' = ls \ {Entry(q, m, x)} /\ UNCHANGED <<inodes, contents, hash, dot, up>>
    <3> HIDE DEF T
    <3> QED
      BY <1>l, <2>1, <2>2
  <2>4. NoHash(i)' /\ Given(q, m)'
    BY <1>4, <2>3 DEF OverLs, NoHash, Given
  <2>5. i \notin cut => NoLs(i)'
    BY <1>4, <2>3 DEF OverLs, NoLs
  <2> QED
    BY <1>0, <2>3, <2>4, <2>5, RenameInserts
<1>5. ASSUME NEW l \in BOOLEAN, NEW h \in BOOLEAN, Inserting(q, m, i, k, l, h)
      PROVE  RenameStage(d, n, q, m, i, k)' \/ Ended(i)
  <2> DEFINE sl == Step("ls", q, m, i)
             sh == Step("hash", q, m, i)
             T == UpPlan(q, i, k)
  <2>0. /\ todo # <<>> /\ Tail(todo) = T /\ T \in Seq(Phases(q, m, i))
        /\ Head(todo) = LsLeft(l, q, m, i) \cup HashLeft(h, q, m, i)
        /\ HashDone(h, q, m, i) /\ (i \notin cut => LsDone(l, q, m, i))
    BY <1>5, InsertParts DEF Inserting
  <2>a. /\ sl.act = "ls" /\ sl.ino = i /\ sl.dir = q /\ sl.name = m
        /\ sh.act = "hash" /\ sh.ino = i /\ sh.dir = q /\ sh.name = m
    BY DEF Step
  <2>c. /\ LsLeft(TRUE, q, m, i) = {<<sl>>} /\ LsLeft(FALSE, q, m, i) = {}
        /\ HashLeft(TRUE, q, m, i) = {<<sh>>} /\ HashLeft(FALSE, q, m, i) = {}
    BY DEF LsLeft, HashLeft
  <2>1. PICK b : Does(b)
    BY HostOpsDoes
  <2> HIDE DEF sl, sh, T
  <2>2. \/ l = TRUE /\ b = <<sl>>
        \/ h = TRUE /\ b = <<sh>>
    <3>1. b \in LsLeft(l, q, m, i) \/ b \in HashLeft(h, q, m, i)
      BY <2>0, <2>1, Zenon DEF Does
    <3>2. CASE b \in LsLeft(l, q, m, i)
      <4>1. CASE l = TRUE
        BY <2>c, <3>2, <4>1
      <4>2. CASE l = FALSE
        BY <2>c, <3>2, <4>2
      <4> QED
        BY <4>1, <4>2
    <3>3. CASE b \in HashLeft(h, q, m, i)
      <4>1. CASE h = TRUE
        BY <2>c, <3>3, <4>1
      <4>2. CASE h = FALSE
        BY <2>c, <3>3, <4>2
      <4> QED
        BY <4>1, <4>2
    <3> QED
      BY <3>1, <3>2, <3>3
  <2>3. CASE l = TRUE /\ b = <<sl>>
    <3> DEFINE Q == HashLeft(h, q, m, i)
    <3>1. DoAddLs(b)
      BY <1>h, <2>1, <2>3, <2>a DEF Does
    <3>2. b \notin Q /\ Head(todo) = {b} \cup Q
      BY <1>h, <2>0, <2>3, <2>a, <2>c
    <3>3. Q = LsLeft(FALSE, q, m, i) \cup HashLeft(h, q, m, i)
      BY <2>c
    <3>4. /\ cut' = cut
          /\ Q = {} => todo' = T /\ call' = IF T = <<>> THEN None ELSE call
          /\ Q # {} => todo' # <<>> /\ Head(todo') = Q /\ Tail(todo') = T /\ call' = call
      <4> HIDE DEF Q
      <4>1. Q = Q \cup (IF <<>> = <<>> THEN {} ELSE {<<>>})
        OBVIOUS
      <4>2. Goes(b, <<>>)
        BY <1>h, <2>3, <3>1 DEF DoAddLs, Advance
      <4> QED
        BY <2>0, <3>2, <4>1, <4>2, PhaseGoes
    <3>5. ls' = ls \cup {Entry(q, m, i)} /\ UNCHANGED <<inodes, contents, hash, dot, up>>
      BY <1>h, <2>3, <2>a, <3>1 DEF DoAddLs
    <3>6. HashDone(h, q, m, i)'
      BY <2>0, <3>4, <3>5, HashSame
    <3>7. i \notin cut => LsDone(FALSE, q, m, i)'
      <4>1. i \notin cut => NoLs(i)
        BY <2>0, <2>3 DEF LsDone
      <4> QED
        BY <3>5, <4>1, LsAdded
    <3> HIDE DEF Q
    <3> QED
      BY <1>0, <3>3, <3>4, <3>5, <3>6, <3>7, RenameInserted DEF T
  <2>4. CASE h = TRUE /\ b = <<sh>>
    <3> DEFINE Q == LsLeft(l, q, m, i)
    <3>1. DoAddHash(b)
      BY <1>h, <2>1, <2>4, <2>a DEF Does
    <3>2. b \notin Q /\ Head(todo) = {b} \cup Q
      BY <1>h, <2>0, <2>4, <2>a, <2>c
    <3>3. Q = LsLeft(l, q, m, i) \cup HashLeft(FALSE, q, m, i)
      BY <2>c
    <3>4. /\ cut' = cut
          /\ Q = {} => todo' = T /\ call' = IF T = <<>> THEN None ELSE call
          /\ Q # {} => todo' # <<>> /\ Head(todo') = Q /\ Tail(todo') = T /\ call' = call
      <4> HIDE DEF Q
      <4>1. Q = Q \cup (IF <<>> = <<>> THEN {} ELSE {<<>>})
        OBVIOUS
      <4>2. Goes(b, <<>>)
        BY <1>h, <2>4, <3>1 DEF DoAddHash, Advance
      <4> QED
        BY <2>0, <3>2, <4>1, <4>2, PhaseGoes
    <3>5. hash' = [hash EXCEPT ![q][m] = i] /\ UNCHANGED <<inodes, contents, ls, dot, up>>
      BY <1>h, <2>4, <2>a, <3>1 DEF DoAddHash
    <3>6. HashDone(FALSE, q, m, i)'
      <4>1. NoHash(i)
        BY <2>0, <2>4 DEF HashDone
      <4> QED
        BY <1>0, <3>5, <4>1, HashAdded
    <3>7. i \notin cut => LsDone(l, q, m, i)'
      BY <2>0, <3>5, LsSame
    <3> HIDE DEF Q
    <3> QED
      BY <1>0, <3>3, <3>4, <3>5, <3>6, <3>7, RenameInserted DEF T
  <2> QED
    BY <2>2, <2>3, <2>4
<1>6. CASE Upping(q, m, i, k)
  <2> DEFINE s == Step("up", q, None, i)
  <2>1. s.act = "up" /\ s.dir = q /\ s.ino = i
    BY DEF Step
  <2>2. Single(<<s>>, <<>>)
    BY <1>6 DEF Upping
  <2> HIDE DEF s
  <2>3. DoAddUp(<<s>>)
    BY <1>h, <2>1, <2>2, SingleDoes DEF Does
  <2>4. todo' = <<>> /\ call' = None /\ cut' = cut
    BY <1>h, <2>2, <2>3, SingleEnds DEF DoAddUp, Advance
  <2>5. up'[i] = q /\ UNCHANGED <<inodes, contents, hash, ls, dot>>
    BY <1>0, <1>h, <2>1, <2>3 DEF DoAddUp, TypeOK
  <2>6. HashDone(FALSE, q, m, i)' /\ (i \notin cut => LsDone(FALSE, q, m, i)')
    BY <1>6, <2>4, <2>5, HashSame, LsSame DEF Upping
  <2> QED
    BY <1>0, <2>4, <2>5, <2>6, RenameWhole
<1> QED
  BY <1>1, <1>2, <1>3, <1>4, <1>5, <1>6 DEF RenameStage

-----------------------------------------------------------------------------
(* The invariant, step by step.                                            *)

LEMMA InitIInv == Init => IInv
<1> SUFFICES ASSUME Init PROVE IInv
  OBVIOUS
<1>1. TypeOK
  BY NamespaceAssumption DEF Init, TypeOK
<1>2. \A i \in Inodes : Absent(i)
  BY NamespaceAssumption DEF Init, Absent, NoHash, NoLs
<1>3. IsFiniteSet(ls)
  BY FS_EmptySet DEF Init
<1>4. Fresh /\ Parents /\ OneName
  BY <1>2, NamespaceAssumption DEF Init, Fresh, Parents, OneName
<1>5. CallInv /\ Others /\ LateInv /\ OneLate
  BY <1>2 DEF Init, CallInv, Others, Whole, LateInv, OneLate
<1> QED
  BY <1>1, <1>3, <1>4, <1>5 DEF IInv, Base

(* What a step of a call on i leaves is the invariant again. *)
LEMMA StepIInv ==
    ASSUME IInv, NEW i, NEW k, InCall(i, k), TreeStep(i), ControlKept(i), CallInv', LateInv', OneLate',
           \/ call' = None /\ (i \in cut' \/ Whole(i)')
           \/ call' # None /\ call'.ino = i
    PROVE  IInv'
<1>1. i \in used /\ i \in Inodes /\ used \subseteq Inodes /\ call.ino = i /\ Fresh /\ Others
  BY DEF IInv, Base, TypeOK, InCall
<1>2. Base'
  <2>1. Fresh'
    BY <1>1, FreshKept DEF TreeStep
  <2> QED
    BY <2>1 DEF TreeStep, Base
<1>3. \A j \in Inodes \ cut' : j # i => Whole(j)'
  BY <1>1, OthersKept DEF TreeStep
<1>4. Others'
  BY <1>3 DEF Others
<1> QED
  BY <1>2, <1>4 DEF IInv

(* Entries are removed, or one of the inode of a call other than a mount   *)
(* is added; then the tasks left behind stay the same.                     *)
HashSteps(i) ==
    \A d \in Inodes, n \in Names :
        hash'[d][n] \in {hash[d][n], None} \/ (hash'[d][n] = i /\ call.op # "mount" /\ late' = late)

LEMMA HostOpsHash ==
    ASSUME Base, NEW i, NEW k, InCall(i, k), HeadsFit(i, k), HostOps
    PROVE  HashSteps(i) /\ ((late' = late /\ call' \in {call, None}) \/ \E b : Stop(b))
<1>0. TypeOK /\ i \in Inodes
  BY DEF InCall, Base, TypeOK
<1>1. PICK b : Does(b)
  BY HostOpsDoes
<1>2. Fits(Head(b), i, k) /\ Head(b).act \in Acts
  BY <1>1 DEF Does, HeadsFit
<1>3. \A c : Goes(b, c) => late' = late /\ call' \in {call, None}
  BY DEF Goes
<1>4. CASE Head(b).act \in {"inode", "contents", "dot", "up", "ls", "rminode"}
  <2>1. hash' = hash /\ Goes(b, Tail(b))
    BY <1>1, <1>4 DEF Does, Advance, DoWriteInode, DoMakeContents, DoAddDot, DoAddUp, DoAddLs, DoRemoveInode
  <2> QED
    BY <1>3, <2>1 DEF HashSteps
<1>5. CASE Head(b).act = "hash"
  <2>1. hash' = [hash EXCEPT ![Head(b).dir][Head(b).name] = Head(b).ino] /\ Goes(b, Tail(b))
    BY <1>1, <1>5 DEF Does, Advance, DoAddHash
  <2>2. Head(b).ino = i /\ call.op # "mount" /\ Head(b).dir \in Inodes /\ Head(b).name \in Names
    BY <1>2, <1>5 DEF Fits
  <2> QED
    BY <1>0, <1>3, <2>1, <2>2 DEF HashSteps, TypeOK
<1>6. CASE Head(b).act = "rmcontents"
  <2>1. /\ hash' = [hash EXCEPT ![Head(b).ino] = [n \in Names |-> None]]
        /\ Stop(b) \/ Goes(b, Tail(b))
    BY <1>1, <1>6 DEF Does, Advance, DoRemoveContents
  <2>2. Head(b).ino = i
    BY <1>2, <1>6 DEF Fits
  <2> QED
    BY <1>0, <1>3, <2>1, <2>2 DEF HashSteps, TypeOK
<1>7. CASE Head(b).act = "unhash"
  <2>1. /\ hash' = [hash EXCEPT ![Head(b).dir][Head(b).name] = None]
        /\ \E c : Goes(b, c)
    BY <1>1, <1>7 DEF Does, DoRemoveHash
  <2>2. Head(b).dir \in Inodes /\ Head(b).name \in Names
    BY <1>2, <1>7 DEF Fits
  <2> QED
    BY <1>0, <1>3, <2>1, <2>2 DEF HashSteps, TypeOK
<1>8. CASE Head(b).act = "unls"
  <2>1. hash' = hash /\ (Stop(b) \/ Goes(b, Tail(b)))
    BY <1>1, <1>8 DEF Does, Advance, DoRemoveLs
  <2> QED
    BY <1>3, <2>1 DEF HashSteps
<1> QED
  BY <1>2, <1>4, <1>5, <1>6, <1>7, <1>8 DEF Acts

(* A call that ends with an error leaves its tasks behind before their     *)
(* HASH entry is there.                                                    *)
LEMMA LateKept ==
    ASSUME Base, LateInv, OneLate, NEW i, NEW k, InCall(i, k), HeadsFit(i, k), call # None,
           ControlKept(i), HashSteps(i),
           (late' = late /\ call' \in {call, None}) \/ \E b : Stop(b)
    PROVE  LateInv' /\ OneLate'
<1>0. i \in Inodes /\ None \notin Inodes /\ call.ino = i /\ late \subseteq LateSteps
  BY NamespaceAssumption DEF InCall, Base, TypeOK
<1>1. ASSUME NEW s \in late, s.act = "hash" PROVE NoHash(s.ino)'
  <2>1. NoHash(s.ino) /\ (call.op # "mount" => i # s.ino) /\ s.ino \in Inodes
    BY <1>0, <1>1 DEF LateInv, LateSteps
  <2> QED
    BY <1>0, <2>1 DEF NoHash, HashSteps
<1>2. CASE late' = late /\ call' \in {call, None}
  <2> SUFFICES ASSUME NEW s \in late PROVE LateInv!(s)'
    BY <1>2 DEF LateInv, OneLate
  <2>1. s.ino \in cut'
    BY DEF LateInv, ControlKept
  <2>2. s.act = "hash" /\ call' # None /\ call'.op # "mount" => call'.ino # s.ino
    BY <1>2 DEF LateInv
  <2> QED
    BY <1>1, <2>1, <2>2
<1>3. ASSUME NEW b, Stop(b) PROVE LateInv' /\ OneLate'
  <2>1. late' = late \cup Spawned(b) /\ call' = None /\ cut' = cut \cup {i}
    BY <1>0, <1>3 DEF Stop
  <2>2. ASSUME NEW s \in Spawned(b) PROVE s.ino = i /\ (s.act = "hash" => NoHash(i)')
    <3>1. s.act \in {"ls", "hash"} /\ Fits(s, i, k)
      BY <2>2 DEF Spawned, HeadsFit
    <3>2. s.ino = i /\ (s.act = "hash" => NoHash(i))
      BY <3>1 DEF Fits
    <3>3. CASE late' = late
      BY <1>0, <1>1, <2>1, <2>2, <3>2, <3>3
    <3>4. CASE late' # late
      BY <1>0, <3>2, <3>4 DEF NoHash, HashSteps
    <3> QED
      BY <3>2, <3>3, <3>4
  <2>3. ASSUME NEW s \in late' PROVE s.ino \in cut' /\ (s.act = "hash" => NoHash(s.ino)')
    BY <1>1, <2>1, <2>2, <2>3 DEF LateInv
  <2>4. OneLate'
    <3>1. \A r, s \in Spawned(b) : r.act = s.act => r = s
      BY DEF Spawned, HeadsFit
    <3>2. ASSUME NEW r \in late, NEW s \in Spawned(b), r.act = "hash", s.act = "hash"
          PROVE  r.ino # s.ino
      <4>1. s.ino = i /\ call.op # "mount"
        BY <3>2 DEF Spawned, HeadsFit, Fits
      <4> QED
        BY <1>0, <3>2, <4>1 DEF LateInv
    <3> QED
      BY <2>1, <3>1, <3>2 DEF OneLate
  <2> QED
    BY <2>1, <2>3, <2>4 DEF LateInv
<1> QED
  BY <1>2, <1>3

LEMMA HostOpsIInv ==
    ASSUME IInv, HostOps
    PROVE  IInv'
<1>0. Base /\ todo # <<>>
  BY HostOpsDoes DEF IInv, Does
<1>i. ASSUME NEW i, NEW k, InCall(i, k), HeadsFit(i, k)
      PROVE  TreeStep(i) /\ ControlKept(i) /\ used' = used /\ LateInv' /\ OneLate'
  <2>1. TreeStep(i) /\ ControlKept(i) /\ HashSteps(i)
    BY <1>0, <1>i, HostOpsStep, HostOpsHash
  <2>2. call # None
    BY <1>i, NamespaceAssumption DEF InCall
  <2>3. LateInv' /\ OneLate'
    BY <1>0, <1>i, <2>1, <2>2, HostOpsHash, LateKept DEF IInv
  <2> QED
    BY <2>1, <2>3 DEF ControlKept
<1>e. ASSUME NEW i, NEW k, InCall(i, k), HeadsFit(i, k), Ended(i)
      PROVE  IInv'
  <2>1. CallInv' /\ call' = None /\ (i \in cut' \/ Whole(i)')
    BY <1>e DEF Ended, CallInv
  <2> QED
    BY <1>e, <1>i, <2>1, StepIInv
<1>n. None \notin CallRecords
  BY NamespaceAssumption
<1>1. CASE MountStage
  <2>1. InCall(Root, "dir") /\ HeadsFit(Root, "dir")
    BY <1>0, <1>1, MountHeads
  <2>2. CASE MountStage'
    <3>1. call' \in CallRecords /\ call'.ino = Root
      BY <2>2, NamespaceAssumption DEF MountStage, Calling, CallRecords, Kinds
    <3>2. CallInv'
      BY <2>2 DEF CallInv
    <3> QED
      BY <1>i, <1>n, <2>1, <3>1, <3>2, StepIInv
  <2> QED
    BY <1>0, <1>1, <1>e, <2>1, <2>2, MountHostOps
<1>2. ASSUME NEW d \in Inodes, NEW n \in Names, NEW i \in Inodes, NEW k \in Kinds,
             CreateStage(d, n, i, k)
      PROVE  IInv'
  <2>1. InCall(i, k) /\ HeadsFit(i, k)
    BY <1>0, <1>2, CreateHeads
  <2>2. CASE CreateStage(d, n, i, k)'
    <3>1. call' \in CallRecords /\ call'.ino = i
      BY <2>2 DEF CreateStage, Calling, CallRecords, AllOps
    <3>2. CallInv'
      BY <2>2 DEF CallInv
    <3> QED
      BY <1>i, <1>n, <2>1, <3>1, <3>2, StepIInv
  <2> QED
    BY <1>0, <1>2, <1>e, <1>i, <2>1, <2>2, CreateHostOps
<1>3. ASSUME NEW d \in Inodes, NEW n \in Names, NEW i \in Inodes, NEW k \in Kinds,
             RemoveStage(d, n, i, k)
      PROVE  IInv'
  <2>1. InCall(i, k) /\ HeadsFit(i, k)
    BY <1>0, <1>3, RemoveHeads
  <2>2. CASE RemoveStage(d, n, i, k)'
    <3>1. call' \in CallRecords /\ call'.ino = i
      BY <2>2 DEF RemoveStage, Calling, CallRecords, AllOps
    <3>2. CallInv'
      BY <2>2 DEF CallInv
    <3> QED
      BY <1>i, <1>n, <2>1, <3>1, <3>2, StepIInv
  <2> QED
    BY <1>0, <1>3, <1>e, <1>i, <2>1, <2>2, RemoveHostOps
<1>4. ASSUME NEW d \in Inodes, NEW n \in Names, NEW i \in Inodes, NEW k \in Kinds,
             NEW q \in Inodes, NEW m \in Names, RenameStage(d, n, q, m, i, k)
      PROVE  IInv'
  <2>1. InCall(i, k) /\ HeadsFit(i, k)
    BY <1>0, <1>4, RenameHeads
  <2>2. CASE RenameStage(d, n, q, m, i, k)'
    <3>1. call' \in CallRecords /\ call'.ino = i
      BY <2>2 DEF RenameStage, Renaming, Calling, CallRecords, AllOps
    <3>2. CallInv'
      BY <2>2 DEF CallInv
    <3> QED
      BY <1>i, <1>n, <2>1, <3>1, <3>2, StepIInv
  <2> QED
    BY <1>0, <1>4, <1>e, <1>i, <2>1, <2>2, RenameHostOps
<1> QED
  BY <1>0, <1>1, <1>2, <1>3, <1>4 DEF IInv, CallInv

(* There is a call while something is left to do. *)
LEMMA CallHeads ==
    ASSUME IInv, call # None \/ todo # <<>>
    PROVE  \E i, k : InCall(i, k) /\ HeadsFit(i, k)
<1>1. Base
  BY DEF IInv
<1> QED
  BY <1>1, MountHeads, CreateHeads, RemoveHeads, RenameHeads DEF IInv, CallInv

LEMMA FaultIInv ==
    ASSUME IInv, Fault
    PROVE  IInv'
<1>1. PICK i, k : InCall(i, k) /\ HeadsFit(i, k)
  BY CallHeads DEF Fault
<1>2. TreeStep(i) /\ ControlKept(i) /\ cut' = cut \cup {i}
  BY <1>1, FaultStep DEF IInv
<1>3. call' = None /\ todo' = <<>>
  BY DEF Fault, Stop
<1>4. CallInv' /\ i \in cut'
  BY <1>2, <1>3 DEF CallInv
<1>5. LateInv' /\ OneLate'
  <2>1. HashSteps(i) /\ \E b : Stop(b)
    BY DEF Fault, HashSteps, tree
  <2>2. call # None
    BY <1>1, NamespaceAssumption DEF InCall
  <2> QED
    BY <1>1, <1>2, <2>1, <2>2, LateKept DEF IInv
<1> QED
  BY <1>1, <1>2, <1>3, <1>4, <1>5, StepIInv

LEMMA SameTree ==
    ASSUME UNCHANGED tree, NEW j
    PROVE  Same(j)
  BY DEF tree, Same

LEMMA SameBase ==
    ASSUME Base, UNCHANGED <<tree, used>>, mounted' \in BOOLEAN,
           cut' \subseteq used, late' \subseteq LateSteps
    PROVE  Base'
<1>1. TypeOK'
  BY DEF Base, TypeOK, tree
<1>2. IsFiniteSet(ls') /\ Parents' /\ OneName'
  BY DEF Base, Parents, OneName, tree
<1>3. Fresh'
  BY SameTree, SameAbsent DEF Base, Fresh
<1> QED
  BY <1>1, <1>2, <1>3 DEF Base

LEMMA CutUsed ==
    ASSUME Base
    PROVE  cut \subseteq used
  BY DEF Base, Fresh, TypeOK

LEMMA CrashIInv ==
    ASSUME IInv, Crash
    PROVE  IInv'
<1>1. Base /\ Others /\ UNCHANGED <<tree, used>> /\ call' = None /\ todo' = <<>>
  BY DEF IInv, Crash
<1>2. cut \subseteq cut' /\ cut' \subseteq used /\ (call # None => call.ino \in cut')
  <2>1. CASE call = None
    BY <1>1, <2>1, CutUsed DEF Crash
  <2>2. CASE call # None
    <3>1. call.ino \in used
      BY <2>2, CallHeads DEF InCall
    <3> QED
      BY <1>1, <2>2, <3>1, CutUsed DEF Crash
  <2> QED
    BY <2>1, <2>2
<1>3. Base' /\ LateInv' /\ OneLate'
  BY <1>1, <1>2, SameBase DEF Crash, LateInv, OneLate
<1>4. Others'
  <2> SUFFICES ASSUME NEW j \in Inodes \ cut' PROVE Whole(j)'
    BY <1>1 DEF Others
  <2>1. Whole(j)
    BY <1>1, <1>2 DEF Others
  <2> QED
    BY <1>1, <2>1, SameTree, SameWhole
<1> QED
  BY <1>1, <1>3, <1>4 DEF IInv, CallInv

(* The calls begin.                                                        *)
LEMMA StartIInv ==
    ASSUME IInv, call = None, UNCHANGED <<tree, late>>, Base', CallInv', cut \subseteq cut',
           \/ call' = None \/ call'.op = "mount"
           \/ call'.ino \notin cut \/ ~NoHash(call'.ino)
    PROVE  IInv'
<1>1. ASSUME NEW j \in Inodes \ cut' PROVE Whole(j)'
  <2>1. Whole(j)
    BY <1>1 DEF IInv, Others
  <2> QED
    BY <2>1, SameTree, SameWhole
<1>2. LateInv' /\ OneLate'
  <2> SUFFICES ASSUME NEW s \in late PROVE LateInv!(s)'
    BY DEF LateInv, OneLate, IInv
  <2>1. s.ino \in cut' /\ (s.act = "hash" => NoHash(s.ino)')
    BY DEF IInv, LateInv, NoHash, tree
  <2>2. s.act = "hash" /\ call' # None /\ call'.op # "mount" => call'.ino # s.ino
    BY DEF IInv, LateInv
  <2> QED
    BY <2>1, <2>2
<1> QED
  BY <1>1, <1>2 DEF IInv, Others

LEMMA MountIInv ==
    ASSUME IInv, Mount
    PROVE  IInv'
<1>0. call = None /\ todo = <<>> /\ Base /\ UNCHANGED <<tree, used, cut, late>>
  BY MountHeads, CreateHeads, RemoveHeads, RenameHeads, NamespaceAssumption
     DEF Mount, IInv, CallInv, Start, InCall
<1>1. mounted' \in BOOLEAN
  BY <1>0 DEF Mount, Base, TypeOK
<1>2. Base'
  BY <1>0, <1>1, CutUsed, SameBase DEF Base, TypeOK
<1>3. CallInv'
  <2>1. CASE exists(Root)
    BY <1>0, <2>1 DEF Mount, CallInv
  <2>2. CASE ~exists(Root)
    <3> DEFINE b == <<Step("inode", None, None, Root), Step("contents", None, None, Root),
                      Step("dot", None, None, Root)>>
    <3>1. call' = [op |-> "mount", ino |-> Root, kind |-> "dir"] /\ todo' = <<{b}>>
      BY <2>2 DEF Mount, Start
    <3>2. Single(b, <<>>)'
      <4> HIDE DEF b
      <4> QED
        BY <3>1 DEF Single
    <3>3. Root \notin cut => NoHash(Root) /\ NoLs(Root)
      BY <1>0, <2>2, NamespaceAssumption DEF IInv, Others, Whole, Complete, Absent, exists
    <3>4. Root \notin cut' => NoHash(Root)' /\ NoLs(Root)'
      BY <1>0, <3>3 DEF NoHash, NoLs, tree
    <3> QED
      BY <3>1, <3>2, <3>4 DEF CallInv, MountStage, Calling
  <2> QED
    BY <2>1, <2>2
<1>4. call' = None \/ call'.op = "mount"
  <2>1. CASE exists(Root)
    BY <1>0, <2>1 DEF Mount
  <2>2. CASE ~exists(Root)
    BY <2>2 DEF Mount, Start
  <2> QED
    BY <2>1, <2>2
<1> QED
  BY <1>0, <1>2, <1>3, <1>4, StartIInv

LEMMA CreateIInv ==
    ASSUME IInv, NEW d \in Inodes, NEW n \in Names, NEW k \in Kinds, Create(d, n, k)
    PROVE  IInv'
<1>0. /\ Base /\ call = None /\ UNCHANGED <<tree, cut, mounted, late>>
      /\ exists(d) /\ is_dir(d) /\ hash[d][n] = None
  BY DEF IInv, Create, Idle, Start
<1>1. PICK i \in Inodes \ used :
        /\ used' = used \cup {i} /\ todo' = CreatePlan(d, n, i, k)
        /\ call' = [op |-> "create", ino |-> i, kind |-> k]
  BY DEF Create, Start
<1>2. Absent(i) /\ i # Root /\ i # d /\ contents[d] = "dir"
  BY <1>0, <1>1 DEF Base, Fresh, Absent, exists, is_dir
<1>3. Base'
  <2>1. TypeOK'
    BY <1>0, <1>1 DEF Base, TypeOK, tree
  <2>2. IsFiniteSet(ls') /\ Parents' /\ OneName'
    BY <1>0 DEF Base, Parents, OneName, tree
  <2>3. Fresh'
    BY <1>0, <1>1, SameTree, SameAbsent DEF Base, Fresh
  <2> QED
    BY <2>1, <2>2, <2>3 DEF Base
<1>4. CreateStage(d, n, i, k)'
  <2> DEFINE b == <<Step("inode", None, None, i)>>
             P == {NewContents(d, i, k)} \cup InsertEntry(d, n, i)
  <2>1. todo' = <<{b}, P>>
    BY <1>1 DEF CreatePlan
  <2>2. Single(b, <<P>>)'
    <3> HIDE DEF b, P
    <3> QED
      BY <2>1 DEF Single
  <2>3. i \notin cut' /\ Absent(i)' /\ Given(d, n)' /\ contents'[d] = "dir"
    BY <1>0, <1>1, <1>2, CutUsed, SameTree, SameAbsent DEF tree, Given
  <2>4. CreateFirst(d, n, i, k)'
    BY <2>2, <2>3 DEF CreateFirst
  <2> QED
    BY <1>1, <1>2, <2>3, <2>4 DEF CreateStage, Calling
<1>5. CallInv'
  BY <1>4 DEF CallInv
<1>6. call'.ino \notin cut
  BY <1>0, <1>1, CutUsed
<1> QED
  BY <1>0, <1>3, <1>5, <1>6, StartIInv

(* An inode with a name was given out; unless it was cut short, it is      *)
(* complete and has no other name.                                         *)
LEMMA FoundComplete ==
    ASSUME IInv, call = None, NEW d \in Inodes, NEW n \in Names, NEW i \in Inodes,
           hash[d][n] = i
    PROVE  /\ i \in used /\ OnlyHash(i, d, n)
           /\ i \notin cut => Complete(i) /\ i # Root /\ NamedAt(i, d, n)
<1>1. i \in used
  BY DEF IInv, Base, Fresh, Absent, NoHash
<1>2. OnlyHash(i, d, n)
  BY NamespaceAssumption DEF IInv, Base, OneName, OnlyHash
<1>3. ASSUME i \notin cut PROVE Complete(i) /\ i # Root /\ NamedAt(i, d, n)
  <2>1. Whole(i)
    BY <1>3 DEF IInv, Others
  <2>2. Complete(i)
    BY <2>1 DEF Whole, Absent, NoHash
  <2>3. i # Root
    BY <2>2 DEF Complete, NoHash
  <2>4. PICK e \in Inodes, m \in Names : NamedAt(i, e, m)
    BY <2>2, <2>3 DEF Complete
  <2>5. e = d /\ m = n
    BY <2>4 DEF NamedAt, OnlyHash
  <2> QED
    BY <2>2, <2>3, <2>4, <2>5
<1> QED
  BY <1>1, <1>2, <1>3

(* An entry listed for an inode that was not cut short is its name. *)
LEMMA ListedComplete ==
    ASSUME IInv, call = None, NEW e \in ls, e.ino \notin cut
    PROVE  hash[e.dir][e.name] = e.ino
<1>1. PICK j \in Inodes : j = e.ino
  BY DEF IInv, Base, TypeOK, Entries
<1>2. Whole(j)
  BY <1>1 DEF IInv, Others
<1>3. Complete(j) /\ j # Root
  BY <1>1, <1>2 DEF Whole, Absent, Complete, NoLs
<1>4. PICK f \in Inodes, m \in Names : NamedAt(j, f, m)
  BY <1>3 DEF Complete
<1>5. e = Entry(f, m, j)
  BY <1>1, <1>4 DEF NamedAt, OnlyLs
<1> QED
  BY <1>4, <1>5 DEF NamedAt, Entry

(* A complete directory that EmptyDir calls empty lists nothing. *)
LEMMA EmptyDirLists ==
    ASSUME Base, NEW i \in Inodes, i # Root, dot[i], up[i] \in Inodes, EmptyDir(i)
    PROVE  \A e \in ls : e.dir # i
<1> DEFINE L == {e \in ls : e.dir = i}
<1>1. IsFiniteSet(L) /\ Cardinality(L) \in Nat
  BY FS_Subset, FS_CardinalityType DEF Base
<1>2. Cardinality(L) + 1 + 1 = 2
  BY <1>1, NamespaceAssumption DEF EmptyDir
<1>3. Cardinality(L) = 0
  BY <1>1, <1>2
<1>4. L = {}
  BY <1>1, <1>3, FS_EmptySet
<1> QED
  BY <1>4

LEMMA RemoveIInv ==
    ASSUME IInv, NEW d \in Inodes, NEW n \in Names, Remove(d, n)
    PROVE  IInv'
<1> DEFINE Inside(i) == {j \in Inodes : i \in cut /\ \E m \in Names : hash[i][m] = j}
<1>0. Base /\ call = None /\ UNCHANGED <<tree, used, mounted, late>> /\ Found(d, n)
  BY DEF IInv, Remove, Idle, Start
<1>1. PICK i \in Inodes : i = hash[d][n]
  BY <1>0 DEF Found, Base, TypeOK
<1>2. PICK k \in Kinds : k = inodes[i]
  BY <1>0, <1>1 DEF Found, exists, Base, TypeOK
<1>3. /\ call' = [op |-> "remove", ino |-> i, kind |-> k] /\ todo' = RemovePlan(d, n, i)
      /\ cut' = cut \cup Inside(i) /\ (k = "dir" => EmptyDir(i))
  BY <1>1, <1>2 DEF Remove, Start
<1>4. /\ i \in used /\ OnlyHash(i, d, n)
      /\ i \notin cut => Complete(i) /\ i # Root /\ NamedAt(i, d, n)
  BY <1>0, <1>1, FoundComplete
<1>5. Base'
  <2>1. Inside(i) \subseteq used
    BY <1>0 DEF Base, Fresh, Absent, NoHash
  <2>2. mounted' \in BOOLEAN
    BY <1>0 DEF Base, TypeOK
  <2> QED
    BY <1>0, <1>3, <2>1, <2>2, CutUsed, SameBase DEF Base, TypeOK
<1>6. /\ \A m \in Names : hash[i][m] \in cut' \cup {None, i}
      /\ \A e \in ls : e.dir = i => e.ino \in cut' \cup {i}
  <2>1. CASE i \in cut
    <3>1. \A m \in Names : hash[i][m] \in cut' \cup {None, i}
      BY <1>0, <1>3, <2>1 DEF Base, TypeOK
    <3>2. ASSUME NEW e \in ls, e.dir = i PROVE e.ino \in cut' \cup {i}
      <4>1. e.ino \notin cut => hash[i][e.name] = e.ino
        BY <1>0, <3>2, ListedComplete
      <4>2. e.name \in Names /\ e.ino \in Inodes
        BY <1>0 DEF Base, TypeOK, Entries
      <4> QED
        BY <1>3, <2>1, <4>1, <4>2
    <3> QED
      BY <3>1, <3>2
  <2>2. CASE i \notin cut
    <3>1. \A e \in ls : e.dir # i
      <4>1. CASE k = "dir"
        <5>1. dot[i] /\ up[i] = d /\ i # Root
          BY <1>2, <1>4, <2>2, <4>1 DEF Complete, NamedAt
        <5> QED
          BY <1>0, <1>3, <4>1, <5>1, EmptyDirLists
      <4>2. CASE k # "dir"
        BY <1>0, <1>2, <1>4, <2>2, <4>2 DEF Complete, Base, Parents
      <4> QED
        BY <4>1, <4>2
    <3>2. ASSUME NEW m \in Names, hash[i][m] \notin cut PROVE hash[i][m] = None
      <4> SUFFICES ASSUME hash[i][m] # None PROVE FALSE
        OBVIOUS
      <4>1. PICK j \in Inodes : j = hash[i][m]
        BY <1>0 DEF Base, TypeOK
      <4>2. NamedAt(j, i, m)
        BY <1>0, <3>2, <4>1, FoundComplete
      <4> QED
        BY <3>1, <4>2 DEF NamedAt, Entry
    <3> QED
      BY <1>3, <3>1, <3>2
  <2> QED
    BY <2>1, <2>2
<1>7. RemoveStage(d, n, i, k)'
  <2> DEFINE b == <<Step("rminode", None, None, i), Step("rmcontents", None, None, i)>>
                    \o RemoveEntry(d, n)
  <2>1. todo' = <<{b}>>
    BY <1>3 DEF RemovePlan
  <2>2. Single(b, <<>>)'
    <3> HIDE DEF b
    <3> QED
      BY <2>1 DEF Single
  <2>3. NoOthersIn(i)'
    BY <1>0, <1>6 DEF NoOthersIn, tree
  <2>4. OnlyHash(i, d, n)' /\ hash'[d][n] = i /\ StillNamed(i, d, n)'
    BY <1>0, <1>1, <1>4 DEF OnlyHash, StillNamed, tree
  <2>5. i \notin cut' => OnlyLs(i, d, n)'
    BY <1>0, <1>3, <1>4 DEF NamedAt, OnlyLs, tree
  <2>6. i \in used' /\ Calling("remove", i, k)'
    BY <1>0, <1>3, <1>4 DEF Calling
  <2> QED
    BY <2>2, <2>3, <2>4, <2>5, <2>6 DEF RemoveStage
<1>8. CallInv'
  BY <1>7 DEF CallInv
<1>9. ~NoHash(call'.ino)
  BY <1>1, <1>3 DEF NoHash
<1> QED
  BY <1>0, <1>3, <1>5, <1>8, <1>9, StartIInv

LEMMA RenameIInv ==
    ASSUME IInv, NEW d \in Inodes, NEW n \in Names, NEW q \in Inodes, NEW m \in Names,
           Rename(d, n, q, m)
    PROVE  IInv'
<1>0. /\ Base /\ call = None /\ UNCHANGED <<tree, used, mounted, late>> /\ Found(d, n)
      /\ ~(d = q /\ n = m) /\ contents[q] = "dir"
  BY DEF IInv, Rename, Idle, Start, is_dir
<1>1. PICK i \in Inodes : i = hash[d][n]
  BY <1>0 DEF Found, Base, TypeOK
<1>2. PICK k \in Kinds : k = inodes[i]
  BY <1>0, <1>1 DEF Found, exists, Base, TypeOK
<1>3. /\ call' = [op |-> "rename", ino |-> i, kind |-> k]
      /\ todo' = RenamePlan(d, n, q, m, i) /\ cut' = cut \cup ({hash[q][m]} \ {None})
  BY <1>1, <1>2 DEF Rename, Start
<1>4. /\ i \in used /\ OnlyHash(i, d, n)
      /\ i \notin cut => Complete(i) /\ i # Root /\ NamedAt(i, d, n)
  BY <1>0, <1>1, FoundComplete
<1>5. Base'
  <2>1. hash[q][m] # None => hash[q][m] \in used
    <3>1. hash[q][m] \in Inodes \cup {None}
      BY <1>0 DEF Base, TypeOK
    <3> QED
      BY <1>0, <3>1, FoundComplete
  <2>2. mounted' \in BOOLEAN
    BY <1>0 DEF Base, TypeOK
  <2> QED
    BY <1>0, <1>3, <2>1, <2>2, CutUsed, SameBase DEF Base, TypeOK
<1>6. PICK t \in Inodes \cup {None} : t = hash[q][m]
  BY <1>0 DEF Base, TypeOK
<1>t. OldEntry(d, n, q, m, i, k, t)'
  <2> DEFINE b == RemoveEntry(d, n)
             T == OverPlan(t, q, m, i, k)
  <2>1. todo' = <<{b}>> \o T
    BY <1>2, <1>3, <1>6, RenamePlanShape
  <2>2. T \in Seq(Phases(q, m, i))
    BY OverParts
  <2>3. Single(b, T)'
    <3> HIDE DEF b, T
    <3> QED
      BY <2>1, <2>2, ConsParts DEF Single
  <2>4. OnlyHash(i, d, n)' /\ hash'[d][n] = i
    BY <1>0, <1>1, <1>4 DEF OnlyHash, tree
  <2>5. Given(q, m)' /\ hash'[q][m] = t
    BY <1>0, <1>3, <1>6 DEF Given, tree
  <2>6. i \notin cut' => OnlyLs(i, d, n)'
    BY <1>0, <1>3, <1>4 DEF NamedAt, OnlyLs, tree
  <2> QED
    BY <2>3, <2>4, <2>5, <2>6 DEF OldEntry
<1>7. Renaming(d, n, q, m, i, k)'
  BY <1>0, <1>2, <1>3, <1>4 DEF Renaming, Calling, Complete, tree
<1>8. CallInv'
  BY <1>7, <1>t DEF CallInv, RenameStage
<1>9. ~NoHash(call'.ino)
  BY <1>1, <1>3 DEF NoHash
<1> QED
  BY <1>0, <1>3, <1>5, <1>8, <1>9, StartIInv

LEMMA StutterIInv ==
    ASSUME IInv, UNCHANGED vars
    PROVE  IInv'
<1>1. Base /\ UNCHANGED <<tree, used, mounted, cut, call, todo, late>>
  BY DEF IInv, vars, tree
<1>2. Base' /\ LateInv' /\ OneLate'
  BY <1>1, CutUsed, SameBase DEF Base, TypeOK, IInv, LateInv, OneLate, NoHash, tree
<1>3. Others'
  <2> SUFFICES ASSUME NEW j \in Inodes \ cut, call # None => j # call.ino
               PROVE  Whole(j)'
    BY <1>1 DEF Others
  <2>1. Whole(j)
    BY DEF IInv, Others
  <2> QED
    BY <1>1, <2>1, SameTree, SameWhole
<1>4. CASE MountStage
  <2>1. MountStage'
    BY <1>1, <1>4 DEF MountStage, Calling, Single, NoHash, NoLs, tree
  <2> QED
    BY <1>2, <1>3, <2>1 DEF IInv, CallInv
<1>5. ASSUME NEW d \in Inodes, NEW n \in Names, NEW i \in Inodes, NEW k \in Kinds,
             CreateStage(d, n, i, k)
      PROVE  IInv'
  <2>1. CreateFirst(d, n, i, k) => CreateFirst(d, n, i, k)'
    BY <1>1 DEF CreateFirst, Single, Absent, NoHash, NoLs, Given, tree
  <2>2. \A c \in CreateStates, l, h \in BOOLEAN :
           CreateSecond(d, n, i, k, c, l, h) => CreateSecond(d, n, i, k, c, l, h)'
    BY <1>1, LsSame, HashSame DEF CreateSecond, Made, ContentsDone, tree
  <2>3. CreateStage(d, n, i, k)'
    BY <1>1, <1>5, <2>1, <2>2 DEF CreateStage, Calling, tree
  <2> QED
    BY <1>2, <1>3, <2>3 DEF IInv, CallInv
<1>6. ASSUME NEW d \in Inodes, NEW n \in Names, NEW i \in Inodes, NEW k \in Kinds,
             RemoveStage(d, n, i, k)
      PROVE  IInv'
  <2>1. RemoveStage(d, n, i, k)'
    BY <1>1, <1>6
       DEF RemoveStage, Calling, Single, OnlyHash, NoHash, OnlyLs, NoOthersIn, StillNamed, tree
  <2> QED
    BY <1>2, <1>3, <2>1 DEF IInv, CallInv
<1>7. ASSUME NEW d \in Inodes, NEW n \in Names, NEW i \in Inodes, NEW k \in Kinds,
             NEW q \in Inodes, NEW m \in Names, RenameStage(d, n, q, m, i, k)
      PROVE  IInv'
  <2>1. Renaming(d, n, q, m, i, k)'
    BY <1>1, <1>7, RenamingKept DEF RenameStage, tree
  <2>2. \A t : OldEntry(d, n, q, m, i, k, t) => OldEntry(d, n, q, m, i, k, t)'
    BY <1>1 DEF OldEntry, Single, OnlyHash, OnlyLs, Given, tree
  <2>3. \A t, x : OldLs(d, n, q, m, i, k, t, x) => OldLs(d, n, q, m, i, k, t, x)'
    BY <1>1 DEF OldLs, Single, NoHash, OnlyLs, Given, tree
  <2>4. OverEntry(q, m, i, k) => OverEntry(q, m, i, k)'
    BY <1>1 DEF OverEntry, Single, NoHash, NoLs, tree
  <2>5. \A x \in cut : OverLs(q, m, i, k, x) => OverLs(q, m, i, k, x)'
    BY <1>1 DEF OverLs, Single, NoHash, NoLs, Given, tree
  <2>6. \A l, h \in BOOLEAN : Inserting(q, m, i, k, l, h) => Inserting(q, m, i, k, l, h)'
    BY <1>1, LsSame, HashSame DEF Inserting, tree
  <2>7. Upping(q, m, i, k) => Upping(q, m, i, k)'
    BY <1>1, LsSame, HashSame DEF Upping, Single, tree
  <2>8. RenameStage(d, n, q, m, i, k)'
    BY <1>1, <1>7, <2>1, <2>2, <2>3, <2>4, <2>5, <2>6, <2>7 DEF RenameStage
  <2> QED
    BY <1>2, <1>3, <2>8 DEF IInv, CallInv
<1>8. CASE call = None /\ todo = <<>>
  BY <1>1, <1>2, <1>3, <1>8 DEF IInv, CallInv
<1> QED
  BY <1>4, <1>5, <1>6, <1>7, <1>8 DEF IInv, CallInv

(* What a task left behind may do to a call that runs meanwhile: it writes *)
(* entries of an inode x that was given up, and who had the name is given  *)
(* up as well.                                                             *)
LateWrites(x) ==
    /\ UNCHANGED <<inodes, contents, dot, up, used, call, todo>>
    /\ x \in cut /\ cut \subseteq cut'
    /\ call # None /\ call.op # "mount" => hash' = hash \/ x # call.ino
    /\ \A d \in Inodes, n \in Names :
          \/ hash'[d][n] = hash[d][n]
          \/ hash'[d][n] = x /\ hash[d][n] \in cut' \cup {None} /\ contents[d] = "dir"
    /\ \A j \in cut' \ cut : ~NoHash(j)
    /\ ls \subseteq ls' /\ \A e \in ls' : e \in ls \/ e.ino = x

LEMMA LateStage ==
    ASSUME NEW x \in Inodes, LateWrites(x), NEW i \in Inodes, hash' = hash \/ x # i
    PROVE  /\ NoHash(i) => NoHash(i)'
           /\ NoOthersIn(i) => NoOthersIn(i)'
           /\ i \notin cut' => i \notin cut /\ (NoLs(i) => NoLs(i)')
           /\ \A d \in Inodes, n \in Names :
                 /\ OnlyHash(i, d, n) => OnlyHash(i, d, n)'
                 /\ Given(d, n) => Given(d, n)'
                 /\ hash[d][n] \in cut \cup {i, None} => hash'[d][n] \in cut' \cup {i, None}
                 /\ hash[d][n] # None => hash'[d][n] # None
                 /\ hash[d][n] = None => hash'[d][n] = None \/ contents[d] = "dir"
                 /\ i \notin cut' => /\ hash[d][n] = i => hash'[d][n] = i
                                     /\ OnlyLs(i, d, n) => OnlyLs(i, d, n)'
                 /\ \A l : LsDone(l, d, n, i) /\ i \notin cut' => LsDone(l, d, n, i)'
                 /\ \A h : HashDone(h, d, n, i) => HashDone(h, d, n, i)'
<1>0. None \notin Inodes /\ x \in cut /\ cut \subseteq cut'
  BY NamespaceAssumption DEF LateWrites
<1>1. NoHash(i) => NoHash(i)'
  BY DEF LateWrites, NoHash
<1>2. NoOthersIn(i) => NoOthersIn(i)'
  BY <1>0 DEF LateWrites, NoOthersIn
<1>3. ASSUME i \notin cut' PROVE i \notin cut /\ i # x /\ (NoLs(i) => NoLs(i)')
  BY <1>0, <1>3 DEF LateWrites, NoLs
<1>4. ASSUME NEW d \in Inodes, NEW n \in Names
      PROVE  /\ OnlyHash(i, d, n) => OnlyHash(i, d, n)'
             /\ Given(d, n) => Given(d, n)'
             /\ hash[d][n] \in cut \cup {i, None} => hash'[d][n] \in cut' \cup {i, None}
             /\ hash[d][n] # None => hash'[d][n] # None
             /\ hash[d][n] = None => hash'[d][n] = None \/ contents[d] = "dir"
  <2>1. OnlyHash(i, d, n) => OnlyHash(i, d, n)'
    BY DEF LateWrites, OnlyHash
  <2> QED
    BY <1>0, <2>1 DEF LateWrites, Given
<1>5. ASSUME NEW d \in Inodes, NEW n \in Names, i \notin cut'
      PROVE  /\ hash[d][n] = i => hash'[d][n] = i
             /\ OnlyLs(i, d, n) => OnlyLs(i, d, n)'
             /\ \A l : LsDone(l, d, n, i) => LsDone(l, d, n, i)'
  <2>1. hash[d][n] = i => hash'[d][n] = i
    BY <1>0, <1>5 DEF LateWrites
  <2>2. OnlyLs(i, d, n) => OnlyLs(i, d, n)'
    BY <1>3, <1>5 DEF LateWrites, OnlyLs
  <2>3. Entry(d, n, i) \in ls => Entry(d, n, i) \in ls'
    BY DEF LateWrites
  <2> QED
    BY <1>3, <1>5, <2>1, <2>2, <2>3 DEF LsDone
<1>6. ASSUME NEW d \in Inodes, NEW n \in Names, NEW h, HashDone(h, d, n, i)
      PROVE  HashDone(h, d, n, i)'
  BY <1>1, <1>3, <1>4, <1>5, <1>6 DEF HashDone
<1> QED
  BY <1>1, <1>2, <1>3, <1>4, <1>5, <1>6

(* A call is where it was when a task left behind writes in its middle. *)
LEMMA LateCallInv ==
    ASSUME Base, CallInv, NEW x \in Inodes, LateWrites(x)
    PROVE  CallInv'
<1>0. /\ UNCHANGED <<inodes, contents, dot, up, used, call, todo>> /\ cut \subseteq cut'
      /\ \A i : i \notin cut' => i \notin cut
  BY DEF LateWrites
<1>s. \A b, T : Single(b, T) => Single(b, T)'
  BY <1>0 DEF Single
<1>c. ASSUME NEW op \in AllOps, NEW i \in Inodes, NEW k \in Kinds, Calling(op, i, k)
      PROVE  Calling(op, i, k)' /\ (hash' = hash \/ x # i)
  <2>1. call \in CallRecords /\ call.op # "mount" /\ call.ino = i
    BY <1>c DEF Calling, CallRecords, AllOps
  <2>2. call # None
    BY <2>1, NamespaceAssumption
  <2> QED
    BY <1>0, <1>c, <2>1, <2>2 DEF Calling, LateWrites
<1>1. CASE call = None /\ todo = <<>>
  BY <1>0, <1>1 DEF CallInv
<1>2. CASE MountStage
  <2>1. Root \notin cut' => NoHash(Root)' /\ NoLs(Root)'
    <3> SUFFICES ASSUME Root \notin cut' PROVE NoHash(Root)' /\ NoLs(Root)'
      OBVIOUS
    <3>1. Root \in Inodes /\ Root # x /\ NoHash(Root) /\ NoLs(Root)
      BY <1>0, <1>2, NamespaceAssumption DEF MountStage, LateWrites
    <3> QED
      BY <3>1, LateStage
  <2>2. MountStage'
    BY <1>0, <1>2, <1>s, <2>1 DEF MountStage, Calling
  <2> QED
    BY <2>2 DEF CallInv
<1>3. ASSUME NEW d \in Inodes, NEW n \in Names, NEW i \in Inodes, NEW k \in Kinds,
             CreateStage(d, n, i, k)
      PROVE  CallInv'
  <2>1. Calling("create", i, k)' /\ (hash' = hash \/ x # i)
    BY <1>3, <1>c DEF CreateStage, AllOps
  <2>2. CreateFirst(d, n, i, k) => CreateFirst(d, n, i, k)'
    <3> SUFFICES ASSUME CreateFirst(d, n, i, k) PROVE CreateFirst(d, n, i, k)'
      OBVIOUS
    <3>1. i \notin cut'
      BY DEF CreateFirst, Absent, LateWrites
    <3> QED
      BY <1>0, <1>s, <2>1, <3>1, LateStage DEF CreateFirst, Absent
  <2>3. ASSUME NEW c \in CreateStates, NEW l \in BOOLEAN, NEW h \in BOOLEAN,
               CreateSecond(d, n, i, k, c, l, h)
        PROVE  CreateSecond(d, n, i, k, c, l, h)'
    <3>1. Made(d, n, i, k, c, l, h)'
      <4>1. ContentsDone(c, d, i, k)'
        BY <1>0, <2>3 DEF CreateSecond, Made, ContentsDone
      <4> QED
        BY <1>0, <2>1, <2>3, <4>1, LateStage DEF CreateSecond, Made
    <3> QED
      BY <1>0, <2>3, <3>1 DEF CreateSecond
  <2>4. CreateStage(d, n, i, k)'
    BY <1>0, <1>3, <2>1, <2>2, <2>3 DEF CreateStage
  <2> QED
    BY <2>4 DEF CallInv
<1>4. ASSUME NEW d \in Inodes, NEW n \in Names, NEW i \in Inodes, NEW k \in Kinds,
             RemoveStage(d, n, i, k)
      PROVE  CallInv'
  <2>1. Calling("remove", i, k)' /\ (hash' = hash \/ x # i)
    BY <1>4, <1>c DEF RemoveStage, AllOps
  <2>2. StillNamed(i, d, n) => StillNamed(i, d, n)'
    BY <1>0, <2>1, LateStage, NamespaceAssumption DEF StillNamed, Kinds
  <2>3. /\ i \notin cut' => OnlyLs(i, d, n)'
        /\ OnlyHash(i, d, n)' /\ hash'[d][n] \in cut' \cup {i, None}
        /\ NoHash(i) => NoHash(i)'
        /\ NoOthersIn(i) => NoOthersIn(i)'
    BY <1>4, <2>1, LateStage DEF RemoveStage
  <2>4. RemoveStage(d, n, i, k)'
    BY <1>0, <1>4, <1>s, <2>1, <2>2, <2>3 DEF RemoveStage
  <2> QED
    BY <2>4 DEF CallInv
<1>5. ASSUME NEW d \in Inodes, NEW n \in Names, NEW i \in Inodes, NEW k \in Kinds,
             NEW q \in Inodes, NEW m \in Names, RenameStage(d, n, q, m, i, k)
      PROVE  CallInv'
  <2>1. Calling("rename", i, k)' /\ (hash' = hash \/ x # i)
    BY <1>5, <1>c DEF RenameStage, Renaming, AllOps
  <2>2. Renaming(d, n, q, m, i, k)'
    BY <1>0, <1>5, <2>1 DEF RenameStage, Renaming
  <2>3. \A t : OldEntry(d, n, q, m, i, k, t) => OldEntry(d, n, q, m, i, k, t)'
    <3> SUFFICES ASSUME NEW t, OldEntry(d, n, q, m, i, k, t) PROVE OldEntry(d, n, q, m, i, k, t)'
      OBVIOUS
    <3>1. hash'[d][n] \in cut' \cup {i}
      BY <1>0, <2>1, LateStage, NamespaceAssumption DEF OldEntry, LateWrites
    <3> QED
      BY <1>0, <1>s, <2>1, <3>1, LateStage DEF OldEntry
  <2>4. \A t, y : OldLs(d, n, q, m, i, k, t, y) => OldLs(d, n, q, m, i, k, t, y)'
    BY <1>0, <1>s, <2>1, LateStage DEF OldLs
  <2>5. OverEntry(q, m, i, k) => OverEntry(q, m, i, k)'
    <3> SUFFICES ASSUME OverEntry(q, m, i, k) PROVE OverEntry(q, m, i, k)'
      OBVIOUS
    <3>1. hash'[q][m] \in cut'
      BY <1>0 DEF OverEntry, LateWrites
    <3> QED
      BY <1>0, <1>s, <2>1, <3>1, LateStage DEF OverEntry
  <2>6. \A y : OverLs(q, m, i, k, y) => OverLs(q, m, i, k, y)'
    BY <1>0, <1>s, <2>1, LateStage DEF OverLs
  <2>7. \A l, h : Inserting(q, m, i, k, l, h) => Inserting(q, m, i, k, l, h)'
    BY <1>0, <2>1, LateStage DEF Inserting
  <2>8. Upping(q, m, i, k) => Upping(q, m, i, k)'
    BY <1>0, <1>s, <2>1, LateStage DEF Upping
  <2>9. RenameStage(d, n, q, m, i, k)'
    BY <1>0, <1>5, <2>2, <2>3, <2>4, <2>5, <2>6, <2>7, <2>8 DEF RenameStage
  <2> QED
    BY <2>9 DEF CallInv
<1> QED
  BY <1>1, <1>2, <1>3, <1>4, <1>5 DEF CallInv

(* A task left behind writes its entry: the inode of the entry, and the    *)
(* one that had the name since, are both given up.                         *)
LEMMA LateEntryIInv ==
    ASSUME IInv, LateEntry
    PROVE  IInv'
<1>1. PICK s \in late : LateEntry!(s)
  BY DEF LateEntry
<1>2. /\ Base /\ Others /\ s \in LateSteps /\ late' = late \ {s}
      /\ UNCHANGED <<inodes, contents, dot, up, used, mounted, call, todo>>
  BY <1>1 DEF IInv, Base, TypeOK
<1>3. s.ino \in cut /\ s.dir \in Inodes /\ s.name \in Names /\ s.ino \in Inodes
  BY <1>2 DEF IInv, LateInv, LateSteps
<1>4. LateWrites(s.ino) => CallInv'
  BY <1>2, <1>3, LateCallInv DEF IInv
<1>c. cut \subseteq used /\ used \subseteq Inodes
  BY <1>2, CutUsed DEF Base, TypeOK
<1>5. CASE hash' = hash /\ cut' = cut
  <2>1. ls' = ls \/ (ls' = ls \cup {Entry(s.dir, s.name, s.ino)} /\ contents[s.dir] = "dir")
    BY <1>1 DEF is_dir
  <2>2. ls' \subseteq Entries /\ IsFiniteSet(ls') /\ Parents'
    <3>1. CASE ls' = ls
      BY <1>2, <1>5, <3>1 DEF Base, TypeOK, Parents
    <3>2. CASE ls' = ls \cup {Entry(s.dir, s.name, s.ino)} /\ contents[s.dir] = "dir"
      <4>1. Entry(s.dir, s.name, s.ino) \in Entries /\ Entry(s.dir, s.name, s.ino).dir = s.dir
        BY <1>3 DEF Entry, Entries
      <4>2. IsFiniteSet(ls')
        BY <1>2, <3>2, FS_AddElement DEF Base
      <4> QED
        BY <1>2, <1>5, <3>2, <4>1, <4>2 DEF Base, TypeOK, Parents
    <3> QED
      BY <2>1, <3>1, <3>2
  <2>3. TypeOK' /\ OneName'
    BY <1>2, <1>5, <2>2 DEF Base, TypeOK, OneName
  <2>4. ASSUME NEW j \in Inodes \ cut PROVE Same(j)
    BY <1>2, <1>3, <1>5, <2>1, <2>4 DEF Same, Entry
  <2>5. Fresh'
    BY <1>2, <1>5, <2>4, SameAbsent DEF Base, Fresh
  <2>6. Others'
    BY <1>2, <1>5, <2>4, SameWhole DEF Others
  <2>7. LateInv' /\ OneLate'
    BY <1>2, <1>5 DEF IInv, LateInv, OneLate, NoHash
  <2>8. LateWrites(s.ino)
    BY <1>2, <1>3, <1>5, <2>1 DEF LateWrites, Entry
  <2> QED
    BY <1>4, <2>2, <2>3, <2>5, <2>6, <2>7, <2>8 DEF IInv, Base
<1>6. CASE LateHash(s) /\ is_dir(s.dir) /\ s.act = "hash"
  <2> DEFINE o == hash[s.dir][s.name]
  <2>1. /\ ls' = ls /\ hash' = [hash EXCEPT ![s.dir][s.name] = s.ino]
        /\ cut' = cut \cup ({o} \ {None}) /\ NoHash(s.ino) /\ contents[s.dir] = "dir"
    BY <1>1, <1>6 DEF LateHash, IInv, LateInv, is_dir
  <2>2. \A d \in Inodes, n \in Names :
           hash'[d][n] = IF d = s.dir /\ n = s.name THEN s.ino ELSE hash[d][n]
    BY <1>2, <2>1 DEF Base, TypeOK
  <2>3. o \in used \cup {None} /\ cut' \subseteq used
    <3>1. o \in Inodes \cup {None}
      BY <1>2, <1>3 DEF Base, TypeOK
    <3> QED
      BY <1>2, <1>3, <1>c, <2>1, <3>1 DEF Base, Fresh, Absent, NoHash
  <2>4. TypeOK'
    BY <1>2, <1>3, <1>c, <2>1, <2>3 DEF Base, TypeOK
  <2>5. OneName'
    <3> SUFFICES ASSUME NEW d \in Inodes, NEW e \in Inodes, NEW n \in Names, NEW m \in Names,
                        hash'[d][n] # None, hash'[d][n] = hash'[e][m]
                 PROVE  d = e /\ n = m
      BY DEF OneName
    <3>1. CASE d = s.dir /\ n = s.name
      BY <2>1, <2>2, <3>1 DEF NoHash
    <3>2. CASE e = s.dir /\ m = s.name
      BY <2>1, <2>2, <3>2 DEF NoHash
    <3>3. CASE ~(d = s.dir /\ n = s.name) /\ ~(e = s.dir /\ m = s.name)
      <4>1. hash[d][n] # None /\ hash[d][n] = hash[e][m]
        BY <2>2, <3>3
      <4>2. <<d, n>> = <<e, m>>
        BY <1>2, <4>1 DEF Base, OneName
      <4> QED
        BY <4>2
    <3> QED
      BY <3>1, <3>2, <3>3
  <2>6. Parents'
    BY <1>2, <2>1, <2>2 DEF Base, Parents
  <2>7. ASSUME NEW j \in Inodes \ cut' PROVE Same(j)
    <3>1. j # s.ino /\ j # o
      BY <1>3, <2>1, <2>7, NamespaceAssumption
    <3>2. \A d \in Inodes, n \in Names : hash'[d][n] = j <=> hash[d][n] = j
      BY <2>2, <3>1
    <3> QED
      BY <1>2, <2>1, <3>2 DEF Same
  <2>8. Fresh'
    BY <1>2, <2>3, <2>7, SameAbsent DEF Base, Fresh
  <2>9. Others'
    BY <1>2, <2>1, <2>7, SameWhole DEF Others
  <2>10. LateInv' /\ OneLate'
    <3> SUFFICES ASSUME NEW r \in late, r # s PROVE r.ino \in cut' /\ (r.act = "hash" => NoHash(r.ino)')
      BY <1>2 DEF LateInv, OneLate, IInv
    <3>1. r.ino \in cut /\ (r.act = "hash" => NoHash(r.ino))
      BY DEF IInv, LateInv
    <3>2. r.act = "hash" => r.ino # s.ino
      BY <1>6 DEF IInv, OneLate
    <3> QED
      BY <2>1, <2>2, <3>1, <3>2 DEF NoHash
  <2>11. LateWrites(s.ino)
    <3>1. call # None /\ call.op # "mount" => s.ino # call.ino
      BY <1>6 DEF IInv, LateInv
    <3>2. \A j \in cut' \ cut : ~NoHash(j)
      BY <1>3, <2>1 DEF NoHash
    <3> QED
      BY <1>2, <1>3, <2>1, <2>2, <3>1, <3>2 DEF LateWrites
  <2> QED
    BY <1>2, <1>4, <2>1, <2>4, <2>5, <2>6, <2>8, <2>9, <2>10, <2>11 DEF IInv, Base
<1> QED
  BY <1>1, <1>5, <1>6

LEMMA NextIInv ==
    ASSUME IInv, Next
    PROVE  IInv'
<1>1. CASE Calls
  <2>1. CASE Mount
    BY <2>1, MountIInv
  <2>2. ASSUME NEW d \in Inodes, NEW n \in Names, NEW k \in Kinds, Create(d, n, k)
        PROVE  IInv'
    BY <2>2, CreateIInv
  <2>3. ASSUME NEW d \in Inodes, NEW n \in Names, Remove(d, n)
        PROVE  IInv'
    BY <2>3, RemoveIInv
  <2>4. ASSUME NEW d \in Inodes, NEW n \in Names, NEW q \in Inodes, NEW m \in Names,
               Rename(d, n, q, m)
        PROVE  IInv'
    BY <2>4, RenameIInv
  <2> QED
    BY <1>1, <2>1, <2>2, <2>3, <2>4 DEF Calls
<1> QED
  BY <1>1, HostOpsIInv, FaultIInv, CrashIInv, LateEntryIInv DEF Next

LEMMA SpecIInv == Spec => []IInv
<1>1. IInv /\ [Next]_vars => IInv'
  BY NextIInv, StutterIInv
<1> QED
  BY InitIInv, <1>1, PTL DEF Spec

(* The tree of files and directories is well-typed in every state.         *)
THEOREM NamespaceTypeCorrect == Spec => []TypeOK
<1>1. IInv => TypeOK
  BY DEF IInv, Base
<1> QED
  BY SpecIInv, <1>1, PTL

(* No inode ever has two names, whatever calls are cut short, and wherever.*)
THEOREM OneNameTheorem == Spec => []OneName
<1>1. IInv => OneName
  BY DEF IInv, Base
<1> QED
  BY SpecIInv, <1>1, PTL

(* Between calls every inode is absent or complete, except those whose     *)
(* call a crash or a failing host operation cut short.                     *)
THEOREM TreeConsistentTheorem == Spec => []TreeConsistent
<1>1. IInv => TreeConsistent
  <2> SUFFICES ASSUME IInv, call = None, NEW i \in Inodes \ cut PROVE Intact(i)
    BY DEF TreeConsistent
  <2>1. TypeOK /\ Whole(i)
    BY DEF IInv, Base, Others
  <2> QED
    BY <2>1, IntactWhole
<1> QED
  BY SpecIInv, <1>1, PTL
=============================================================================
