-------------------------- MODULE FileCallsProofs --------------------------
(***************************************************************************)
(* Proofs about FileCalls, for any number of tasks, files and handles and  *)
(* through every interleaving of the calls: a file has one writer unless   *)
(* two opens found it not open for writing before either was registered,   *)
(* and the tables of handles agree whenever no call runs.  Locks play no   *)
(* part in the argument.                                                   *)
(***************************************************************************)
EXTENDS FileCalls, FiniteSetTheorems, WellFoundedInduction, TLAPS

-----------------------------------------------------------------------------
(* What a list of instructions has of those in a set A of interest.        *)

Quiet(q, A) == \A n \in 1..Len(q) : q[n].act \notin A

Is(s, a, i, h) == s.act = a /\ s.ino = i /\ s.h = h

(* One, for a, and in Both a second one later, for b. *)
Only(q, A, a, i, h) ==
    \E p \in 1..Len(q) : /\ Is(q[p], a, i, h)
                         /\ \A n \in 1..Len(q) : n # p => q[n].act \notin A

Both(q, A, a, b, i, h) ==
    \E p, r \in 1..Len(q) : /\ p < r /\ Is(q[p], a, i, h) /\ Is(q[r], b, i, h)
                            /\ \A n \in 1..Len(q) : n # p /\ n # r => q[n].act \notin A

(* What is left of a list after the guards at its head went. *)
Left(q) == SubSeq(q, Frees(q) + 1, Len(q))

WriterActs == {"checkW", "addW", "regW", "delW", "unregW"}
ReaderActs == {"addR", "regR", "delR", "unregR"}

(* The instructions of an open: none of them unwraps anything. *)
OpenActs == {"addR", "regR", "checkW", "readers", "visit", "writer", "peek", "addW", "regW"}

Acts == WriterActs \cup ReaderActs \cup OpenActs
        \cup {"update", "cut", "resetReaders", "reset", "resetWriter", "resetW", "resetSaveW",
              "read", "write", "flush", "finish", "truncate", "flushW", "takeW", "restore",
              "hold", "renew", "finishW", "fetch", "store", "sync", "take", "giveBack"}

AnyLocks == TableLocks \cup {RW(i) : i \in Inodes} \cup {UP(i) : i \in Inodes}
              \cup {RC(h) : h \in Handles \cup {None}} \cup {WC(h) : h \in Handles \cup {None}}

Awaits == [act : Acts, on : SUBSET AnyLocks, mode : {"r", "w"}, ino : Inodes,
           h : Handles \cup {None}]
Releases == [act : {"free"}, on : SUBSET AnyLocks, mode : {""}, ino : {None}, h : {None}]
Instructions == Awaits \cup Releases

(* The instructions of interest that are not in A. *)
But(A) == {s \in Instructions : s.act \notin A}

-----------------------------------------------------------------------------
(* The invariant. *)

Opening(t) == call[t] # None /\ call[t].op = "open"
OpeningW(t) == Opening(t) /\ call[t].write
Releasing(t) == call[t] # None /\ call[t].op = "release"

HasW(t, a) == Only(todo[t], WriterActs, a, call[t].ino, call[t].h)
HasR(t, a) == Only(todo[t], ReaderActs, a, call[t].ino, call[t].h)

TablesTyped ==
    /\ rh \subseteq Handles /\ wh \subseteq Handles /\ ofr \subseteq Handles
    /\ ofw \in [Inodes -> Handles \cup {None}]

(* A task has something to do exactly while it runs a call, and what it    *)
(* does next awaits a lock.                                                *)
CallsTyped ==
    /\ open \subseteq Handles
    /\ of \in [Handles -> Inodes \cup {None}]
    /\ call \in [Tasks -> CallRecords \cup {None}]
    /\ todo \in [Tasks -> Seq(Instructions)]
    /\ \A t \in Tasks : /\ call[t] = None <=> todo[t] = <<>>
                        /\ todo[t] # <<>> => todo[t][1].act # "free"

(* A handle that is made or released is in one call's hands. *)
Owned ==
    /\ \A t \in Tasks : Opening(t) \/ Releasing(t) =>
           call[t].h \in Handles \ open /\ of[call[t].h] = call[t].ino
    /\ \A t, u \in Tasks : (Opening(t) \/ Releasing(t)) /\ (Opening(u) \/ Releasing(u))
                             /\ call[t].h = call[u].h => t = u
    /\ \A h \in open : of[h] # None

(* One open has yet to register its writer, unless the file is one of      *)
(* raced.                                                                  *)
OneRegisters ==
    \A t, u \in Tasks : \A i \in Inodes :
        Registers(t, i) /\ Registers(u, i) => t = u \/ i \in raced

(* An open has nothing to do that could panic. *)
OpensCalm ==
    \A t \in Tasks : Opening(t) =>
        \A n \in 1..Len(todo[t]) : todo[t][n].act \in OpenActs \cup {"free"}

(* Where a call stands that makes or drops a writer. *)
WriterStage(t) ==
    \/ Quiet(todo[t], WriterActs)
    \/ OpeningW(t) /\ call[t].h \notin wh /\ HasW(t, "checkW")
    \/ OpeningW(t) /\ call[t].h \notin wh /\ (ofw[call[t].ino] = None \/ call[t].ino \in raced)
         /\ Both(todo[t], WriterActs, "addW", "regW", call[t].ino, call[t].h)
    \/ OpeningW(t) /\ call[t].h \in wh /\ (ofw[call[t].ino] = None \/ call[t].ino \in raced)
         /\ HasW(t, "regW")
    \/ Releasing(t) /\ HasW(t, "delW")
    \/ Releasing(t) /\ call[t].h \notin wh
         /\ (ofw[call[t].ino] = call[t].h \/ call[t].ino \in raced) /\ HasW(t, "unregW")

(* Every writer is registered, or will be by the open that made it, and    *)
(* what is registered is a writer or about to be removed; files of raced   *)
(* apart.                                                                  *)
WritersRegistered ==
    /\ \A h \in wh : of[h] # None /\ (\/ ofw[of[h]] = h \/ of[h] \in raced
                                      \/ \E t \in Tasks : OpeningW(t) /\ call[t].h = h
                                                          /\ HasW(t, "regW"))
    /\ \A i \in Inodes : ofw[i] # None =>
           /\ of[ofw[i]] = i
           /\ \/ ofw[i] \in wh \/ panic # {} \/ i \in raced
              \/ \E t \in Tasks : Releasing(t) /\ call[t].h = ofw[i] /\ HasW(t, "unregW")

(* The same for readers. *)
ReaderStage(t) ==
    \/ Quiet(todo[t], ReaderActs)
    \/ Opening(t) /\ call[t].h \notin rh \cup ofr
         /\ Both(todo[t], ReaderActs, "addR", "regR", call[t].ino, call[t].h)
    \/ Opening(t) /\ call[t].h \in rh /\ call[t].h \notin ofr /\ HasR(t, "regR")
    \/ Releasing(t) /\ HasR(t, "delR")
    \/ Releasing(t) /\ call[t].h \notin rh /\ call[t].h \in ofr /\ HasR(t, "unregR")

ReadersRegistered ==
    /\ \A h \in rh : of[h] # None /\ (\/ h \in ofr
                                      \/ \E t \in Tasks : Opening(t) /\ call[t].h = h
                                                          /\ HasR(t, "regR"))
    /\ \A h \in ofr : of[h] # None /\ (\/ h \in rh \/ panic # {}
                                       \/ \E t \in Tasks : Releasing(t) /\ call[t].h = h
                                                           /\ HasR(t, "unregR"))

(* Whoever takes a writer out, or finishes it, will put one back. *)
TakesFit(q) ==
    \A n \in 1..Len(q) : q[n].act \in {"take", "finishW"} =>
        \E m \in 1..Len(q) : m > n /\ q[m].act \in {"restore", "giveBack"} /\ q[m].h = q[n].h

Restores(t, h) ==
    \E n \in 1..Len(todo[t]) : todo[t][n].act \in {"restore", "giveBack"} /\ todo[t][n].h = h

TakenRestored ==
    /\ \A t \in Tasks : TakesFit(todo[t])
    /\ panic = {} => \A h \in taken : \E t \in Tasks : Restores(t, h)

Control == TablesTyped /\ CallsTyped /\ Owned /\ OneRegisters /\ OpensCalm
WritersKept == (\A t \in Tasks : WriterStage(t)) /\ WritersRegistered
ReadersKept == (\A t \in Tasks : ReaderStage(t)) /\ ReadersRegistered

IInv == Control /\ WritersKept /\ ReadersKept /\ TakenRestored

-----------------------------------------------------------------------------
(* Lists of instructions. *)

LEMMA LeastOf ==
    ASSUME NEW T, T \subseteq Nat, T # {}
    PROVE  \E m \in T : \A n \in T : m <= n
<1> DEFINE R == OpToRel(<, Nat)
<1>1. IsWellFoundedOn(R, Nat)
  BY NatLessThanWellFounded
<1>2. \A n, m \in Nat : n < m => <<n, m>> \in R
  BY DEF OpToRel
<1> HIDE DEF R
<1>3. PICK m \in T : \A n \in T : <<n, m>> \notin R
  BY <1>1, WFMin
<1>4. ASSUME NEW n \in T PROVE m <= n
  <2>1. n \in Nat /\ m \in Nat /\ <<n, m>> \notin R
    BY <1>3
  <2>2. ~(n < m)
    BY <2>1, <1>2
  <2> QED
    BY <2>1, <2>2
<1> QED
  BY <1>4

(* Frees counts the guards at the head, and no more. *)
LEMMA FreesIs ==
    ASSUME NEW q, Len(q) \in Nat
    PROVE  /\ Frees(q) \in 0..Len(q)
           /\ \A n \in 1..Frees(q) : q[n].act = "free"
           /\ Frees(q) < Len(q) => q[Frees(q) + 1].act # "free"
<1> DEFINE T == {n \in 1..Len(q) : q[n].act # "free"}
           F == {n \in 1..Len(q) : \A m \in 1..n : q[m].act = "free"}
<1>1. Frees(q) = Cardinality(F)
  BY DEF Frees
<1>2. ASSUME NEW k \in 0..Len(q), F = 1..k PROVE Frees(q) = k
  <2>1. Cardinality(1..k) = k
    BY FS_Interval
  <2> QED
    BY <1>1, <1>2, <2>1
<1>3. CASE T = {}
  <2>1. F = 1..Len(q)
    BY <1>3
  <2> QED
    BY <1>2, <1>3, <2>1
<1>4. CASE T # {}
  <2>1. T \subseteq Nat
    OBVIOUS
  <2>2. PICK m \in T : \A n \in T : m <= n
    <3> HIDE DEF T
    <3> QED
      BY <1>4, <2>1, LeastOf
  <2>3. m \in 1..Len(q) /\ q[m].act # "free" /\ \A n \in 1..(m - 1) : q[n].act = "free"
    BY <2>2
  <2>4. F = 1..(m - 1)
    BY <2>3
  <2>5. m - 1 \in 0..Len(q) /\ (m - 1) + 1 = m
    BY <2>3
  <2>6. Frees(q) = m - 1
    BY <1>2, <2>4, <2>5
  <2> HIDE DEF T, F
  <2> QED
    BY <2>3, <2>5, <2>6
<1> QED
  BY <1>3, <1>4

(* What is left begins with an instruction that awaits a lock. *)
LEMMA LeftIs ==
    ASSUME NEW X, NEW q \in Seq(X)
    PROVE  /\ Left(q) \in Seq(X)
           /\ Frees(q) \in 0..Len(q) /\ Len(Left(q)) = Len(q) - Frees(q)
           /\ \A n \in 1..Len(Left(q)) : Left(q)[n] = q[n + Frees(q)]
           /\ \A n \in 1..Frees(q) : q[n].act = "free"
           /\ Left(q) # <<>> => Left(q)[1].act # "free"
<1> DEFINE k == Frees(q)
<1>1. /\ k \in 0..Len(q) /\ Len(q) \in Nat
      /\ \A n \in 1..k : q[n].act = "free"
      /\ k < Len(q) => q[k + 1].act # "free"
  BY FreesIs
<1>2. Left(q) = SubSeq(q, k + 1, Len(q))
  BY DEF Left
<1> HIDE DEF k
<1>3. /\ Left(q) \in Seq(X) /\ Len(Left(q)) = Len(q) - k
      /\ \A n \in 1..Len(Left(q)) : Left(q)[n] = q[n + k]
  BY <1>1, <1>2
<1>4. Left(q) # <<>> => Left(q)[1].act # "free"
  <2> SUFFICES ASSUME Left(q) # <<>> PROVE Left(q)[1].act # "free"
    OBVIOUS
  <2>1. Len(Left(q)) > 0
    BY <1>3
  <2>2. Left(q)[1] = q[1 + k] /\ k < Len(q)
    BY <1>1, <1>3, <2>1
  <2> QED
    BY <1>1, <2>2
<1> QED
  BY <1>1, <1>3, <1>4 DEF k

(* The instructions of interest stay when guards at the head go. *)
LEMMA LeftKeeps ==
    ASSUME NEW X, NEW q \in Seq(X), NEW A, "free" \notin A
    PROVE  /\ Quiet(q, A) => Quiet(Left(q), A)
           /\ \A a \in A : \A i, h : Only(q, A, a, i, h) => Only(Left(q), A, a, i, h)
           /\ \A a, b \in A : \A i, h : Both(q, A, a, b, i, h) => Both(Left(q), A, a, b, i, h)
<1> DEFINE k == Frees(q)
           l == Left(q)
<1>1. /\ l \in Seq(X) /\ Len(q) \in Nat /\ Len(l) \in Nat
      /\ k \in 0..Len(q) /\ Len(l) = Len(q) - k
      /\ \A n \in 1..Len(l) : l[n] = q[n + k]
      /\ \A n \in 1..k : q[n].act = "free"
  <2>1. /\ l \in Seq(X) /\ k \in 0..Len(q) /\ Len(l) = Len(q) - k
        /\ \A n \in 1..Len(l) : l[n] = q[n + k]
        /\ \A n \in 1..k : q[n].act = "free"
    BY LeftIs, Zenon
  <2> HIDE DEF k, l
  <2> QED
    BY <2>1
<1> HIDE DEF k, l
<1>2. Quiet(q, A) => Quiet(l, A)
  <2> SUFFICES ASSUME Quiet(q, A), NEW n \in 1..Len(l) PROVE l[n].act \notin A
    BY DEF Quiet
  <2>1. n + k \in 1..Len(q)
    BY <1>1
  <2>2. l[n] = q[n + k]
    BY <1>1
  <2> QED
    BY <2>1, <2>2, Zenon DEF Quiet
<1>3. ASSUME NEW a \in A, NEW i, NEW h, Only(q, A, a, i, h) PROVE Only(l, A, a, i, h)
  <2>1. PICK p \in 1..Len(q) : /\ Is(q[p], a, i, h)
                               /\ \A n \in 1..Len(q) : n # p => q[n].act \notin A
    BY <1>3 DEF Only
  <2>2. p > k
    BY <1>1, <2>1 DEF Is
  <2> DEFINE r == p - k
  <2>3. r \in 1..Len(l) /\ r + k = p
    BY <1>1, <2>2
  <2>4. \A n \in 1..Len(l) : n + k \in 1..Len(q) /\ (n # r => n + k # p)
    BY <1>1, <2>3
  <2> HIDE DEF r
  <2>5. Is(l[r], a, i, h)
    BY <1>1, <2>1, <2>3
  <2>6. \A n \in 1..Len(l) : n # r => l[n].act \notin A
    BY <1>1, <2>1, <2>4
  <2> QED
    BY <2>3, <2>5, <2>6, Zenon DEF Only
<1>4. ASSUME NEW a \in A, NEW b \in A, NEW i, NEW h, Both(q, A, a, b, i, h)
      PROVE  Both(l, A, a, b, i, h)
  <2>1. PICK p, r \in 1..Len(q) :
                /\ p < r /\ Is(q[p], a, i, h) /\ Is(q[r], b, i, h)
                /\ \A n \in 1..Len(q) : n # p /\ n # r => q[n].act \notin A
    BY <1>4 DEF Both
  <2>2. p > k
    BY <1>1, <2>1 DEF Is
  <2> DEFINE u == p - k
             v == r - k
  <2>3. u \in 1..Len(l) /\ u + k = p /\ v \in 1..Len(l) /\ v + k = r /\ u < v
    BY <1>1, <2>1, <2>2
  <2>4. \A n \in 1..Len(l) : n + k \in 1..Len(q) /\ (n # u => n + k # p) /\ (n # v => n + k # r)
    BY <1>1, <2>3
  <2> HIDE DEF u, v
  <2>5. Is(l[u], a, i, h) /\ Is(l[v], b, i, h)
    BY <1>1, <2>1, <2>3
  <2>6. \A n \in 1..Len(l) : n # u /\ n # v => l[n].act \notin A
    BY <1>1, <2>1, <2>4
  <2> QED
    BY <2>3, <2>5, <2>6, Zenon DEF Both
<1> QED
  BY <1>2, <1>3, <1>4 DEF l

(* The list f in place of the head of q. *)
LEMMA InsteadIs ==
    ASSUME NEW X, NEW q \in Seq(X), q # <<>>, NEW f \in Seq(X)
    PROVE  LET ins == f \o Tail(q)
           IN  /\ ins \in Seq(X) /\ Len(ins) = Len(f) + Len(q) - 1
               /\ Len(q) \in Nat /\ Len(f) \in Nat /\ Len(q) >= 1 /\ Head(q) = q[1]
               /\ \A n \in 1..Len(f) : ins[n] = f[n]
               /\ \A n \in 2..Len(q) : ins[n + Len(f) - 1] = q[n]
               /\ \A n \in (Len(f) + 1)..Len(ins) : ins[n] = q[n - Len(f) + 1]
  OBVIOUS

(* An instruction of no interest, followed by none of interest. *)
LEMMA QuietStep ==
    ASSUME NEW X, NEW q \in Seq(X), q # <<>>, NEW f \in Seq(X), NEW A, "free" \notin A,
           q[1].act \notin A, Quiet(f, A)
    PROVE  LET l == Left(f \o Tail(q))
           IN  /\ Quiet(q, A) => Quiet(l, A)
               /\ \A a \in A : \A i, h : Only(q, A, a, i, h) => Only(l, A, a, i, h)
               /\ \A a, b \in A : \A i, h : Both(q, A, a, b, i, h) => Both(l, A, a, b, i, h)
<1> DEFINE ins == f \o Tail(q)
           d == Len(f) - 1
<1>1. /\ ins \in Seq(X) /\ Len(ins) = Len(q) + d /\ Len(q) \in Nat /\ Len(f) \in Nat /\ Len(q) >= 1
      /\ \A n \in 1..Len(f) : ins[n] = f[n]
      /\ \A n \in 2..Len(q) : ins[n + d] = q[n]
      /\ \A n \in (Len(f) + 1)..Len(ins) : ins[n] = q[n - d]
      /\ d \in Int /\ d + 1 = Len(f) /\ Len(ins) \in Nat
  BY InsteadIs
<1> HIDE DEF ins, d
<1>0. d \in Int /\ Len(q) \in Nat /\ Len(ins) \in Nat
  BY <1>1
<1>2. ASSUME NEW n \in 1..Len(ins)
      PROVE  ins[n].act \notin A \/ (n - d \in 2..Len(q) /\ ins[n] = q[n - d])
  <2>1. CASE n <= Len(f)
    BY <1>1, <2>1 DEF Quiet
  <2>2. CASE n > Len(f)
    <3>1. n \in (Len(f) + 1)..Len(ins) /\ n - d \in 2..Len(q)
      BY <1>1, <2>2
    <3> QED
      BY <1>1, <3>1
  <2> QED
    BY <1>1, <2>1, <2>2
<1>3. Quiet(q, A) => Quiet(ins, A)
  BY <1>1, <1>2 DEF Quiet
<1>4. ASSUME NEW a \in A, NEW i, NEW h, Only(q, A, a, i, h) PROVE Only(ins, A, a, i, h)
  <2>1. PICK p \in 1..Len(q) : /\ Is(q[p], a, i, h)
                               /\ \A n \in 1..Len(q) : n # p => q[n].act \notin A
    BY <1>4 DEF Only
  <2>2. p # 1
    BY <2>1 DEF Is
  <2> DEFINE r == p + d
  <2>3. r \in 1..Len(ins) /\ ins[r] = q[p] /\ r - d = p
    BY <1>1, <2>1, <2>2
  <2> HIDE DEF r
  <2>4. ASSUME NEW n \in 1..Len(ins), n # r PROVE ins[n].act \notin A
    <3> DEFINE m == n - d
    <3>1. m # p
      BY ONLY n \in 1..Len(ins), <1>0, <2>3, <2>4
    <3>2. ins[n].act \notin A \/ (m \in 2..Len(q) /\ ins[n] = q[m])
      BY <1>2
    <3> HIDE DEF m
    <3> QED
      BY ONLY <3>1, <3>2, <2>1, <1>0
  <2> QED
    BY <2>1, <2>3, <2>4, Zenon DEF Only
<1>5. ASSUME NEW a \in A, NEW b \in A, NEW i, NEW h, Both(q, A, a, b, i, h)
      PROVE  Both(ins, A, a, b, i, h)
  <2>1. PICK p, r \in 1..Len(q) :
                /\ p < r /\ Is(q[p], a, i, h) /\ Is(q[r], b, i, h)
                /\ \A n \in 1..Len(q) : n # p /\ n # r => q[n].act \notin A
    BY <1>5 DEF Both
  <2>2. p # 1
    BY <2>1 DEF Is
  <2> DEFINE u == p + d
             v == r + d
  <2>3. /\ u \in 1..Len(ins) /\ ins[u] = q[p] /\ u - d = p
        /\ v \in 1..Len(ins) /\ ins[v] = q[r] /\ v - d = r /\ u < v
    BY <1>1, <2>1, <2>2
  <2> HIDE DEF u, v
  <2>4. ASSUME NEW n \in 1..Len(ins), n # u, n # v PROVE ins[n].act \notin A
    <3> DEFINE m == n - d
    <3>1. m # p /\ m # r
      BY ONLY n \in 1..Len(ins), <1>0, <2>3, <2>4
    <3>2. ins[n].act \notin A \/ (m \in 2..Len(q) /\ ins[n] = q[m])
      BY <1>2
    <3> HIDE DEF m
    <3> QED
      BY ONLY <3>1, <3>2, <2>1, <1>0
  <2> QED
    BY <2>1, <2>3, <2>4, Zenon DEF Both
<1>6. /\ Quiet(ins, A) => Quiet(Left(ins), A)
      /\ \A a \in A : \A i, h : Only(ins, A, a, i, h) => Only(Left(ins), A, a, i, h)
      /\ \A a, b \in A : \A i, h : Both(ins, A, a, b, i, h) => Both(Left(ins), A, a, b, i, h)
  BY <1>1, LeftKeeps, Zenon
<1> QED
  BY <1>3, <1>4, <1>5, <1>6, Zenon DEF ins

(* The head is the one instruction of interest: what follows takes its     *)
(* place.                                                                  *)
LEMMA OnlyStep ==
    ASSUME NEW X, NEW q \in Seq(X), q # <<>>, NEW f \in Seq(X), NEW A, "free" \notin A,
           q[1].act \in A, NEW a, NEW i, NEW h, Only(q, A, a, i, h)
    PROVE  LET l == Left(f \o Tail(q))
           IN  /\ Is(q[1], a, i, h)
               /\ Quiet(f, A) => Quiet(l, A)
               /\ \A b \in A : Only(f, A, b, i, h) => Only(l, A, b, i, h)
               /\ \A b, c \in A : Both(f, A, b, c, i, h) => Both(l, A, b, c, i, h)
<1> DEFINE ins == f \o Tail(q)
           d == Len(f) - 1
<1>1. /\ ins \in Seq(X) /\ Len(ins) = Len(q) + d /\ Len(q) \in Nat /\ Len(f) \in Nat /\ Len(q) >= 1
      /\ \A n \in 1..Len(f) : ins[n] = f[n]
      /\ \A n \in (Len(f) + 1)..Len(ins) : ins[n] = q[n - d]
      /\ d \in Int /\ d + 1 = Len(f) /\ Len(ins) \in Nat
  BY InsteadIs
<1> HIDE DEF ins, d
<1>2. PICK p \in 1..Len(q) : /\ Is(q[p], a, i, h)
                             /\ \A n \in 1..Len(q) : n # p => q[n].act \notin A
  BY DEF Only
<1>3. p = 1
  <2>1. 1 \in 1..Len(q)
    BY <1>1
  <2> QED
    BY <1>2, <2>1
<1>4. \A n \in 1..Len(ins) : n \in 1..Len(f) \/ ins[n].act \notin A
  BY <1>1, <1>2, <1>3
<1>5. 1..Len(f) \subseteq 1..Len(ins)
  BY <1>1
<1>6. Quiet(f, A) => Quiet(ins, A)
  BY <1>1, <1>4, <1>5 DEF Quiet
<1>7. ASSUME NEW b \in A, Only(f, A, b, i, h) PROVE Only(ins, A, b, i, h)
  <2>1. PICK r \in 1..Len(f) : /\ Is(f[r], b, i, h)
                               /\ \A n \in 1..Len(f) : n # r => f[n].act \notin A
    BY <1>7 DEF Only
  <2>2. r \in 1..Len(ins) /\ Is(ins[r], b, i, h)
    BY <1>1, <1>5, <2>1
  <2>3. \A n \in 1..Len(ins) : n # r => ins[n].act \notin A
    BY <1>1, <1>4, <2>1
  <2> QED
    BY <2>2, <2>3, Zenon DEF Only
<1>8. ASSUME NEW b \in A, NEW c \in A, Both(f, A, b, c, i, h) PROVE Both(ins, A, b, c, i, h)
  <2>1. PICK r, s \in 1..Len(f) :
                /\ r < s /\ Is(f[r], b, i, h) /\ Is(f[s], c, i, h)
                /\ \A n \in 1..Len(f) : n # r /\ n # s => f[n].act \notin A
    BY <1>8 DEF Both
  <2>2. r \in 1..Len(ins) /\ s \in 1..Len(ins) /\ Is(ins[r], b, i, h) /\ Is(ins[s], c, i, h)
    BY <1>1, <1>5, <2>1
  <2>3. \A n \in 1..Len(ins) : n # r /\ n # s => ins[n].act \notin A
    BY <1>1, <1>4, <2>1
  <2> QED
    BY <2>1, <2>2, <2>3, Zenon DEF Both
<1>9. /\ Quiet(ins, A) => Quiet(Left(ins), A)
      /\ \A b \in A : \A j, g : Only(ins, A, b, j, g) => Only(Left(ins), A, b, j, g)
      /\ \A b, c \in A : \A j, g : Both(ins, A, b, c, j, g) => Both(Left(ins), A, b, c, j, g)
  BY <1>1, LeftKeeps, Zenon
<1>10. Is(q[1], a, i, h)
  BY <1>2, <1>3
<1> QED
  BY <1>6, <1>7, <1>8, <1>9, <1>10, Zenon DEF ins

(* The head is the first of two instructions of interest. *)
LEMMA BothStep ==
    ASSUME NEW X, NEW q \in Seq(X), q # <<>>, NEW f \in Seq(X), NEW A, "free" \notin A,
           q[1].act \in A, NEW a, NEW b \in A, NEW i, NEW h, Both(q, A, a, b, i, h), Quiet(f, A)
    PROVE  Is(q[1], a, i, h) /\ Only(Left(f \o Tail(q)), A, b, i, h)
<1> DEFINE ins == f \o Tail(q)
           d == Len(f) - 1
<1>1. /\ ins \in Seq(X) /\ Len(ins) = Len(q) + d /\ Len(q) \in Nat /\ Len(f) \in Nat /\ Len(q) >= 1
      /\ \A n \in 1..Len(f) : ins[n] = f[n]
      /\ \A n \in 2..Len(q) : ins[n + d] = q[n]
      /\ \A n \in (Len(f) + 1)..Len(ins) : ins[n] = q[n - d]
      /\ d \in Int /\ d + 1 = Len(f) /\ Len(ins) \in Nat
  BY InsteadIs
<1> HIDE DEF ins, d
<1>0. d \in Int /\ Len(q) \in Nat /\ Len(ins) \in Nat
  BY <1>1
<1>2. PICK p, r \in 1..Len(q) :
              /\ p < r /\ Is(q[p], a, i, h) /\ Is(q[r], b, i, h)
              /\ \A n \in 1..Len(q) : n # p /\ n # r => q[n].act \notin A
  BY DEF Both
<1>3. p = 1
  BY <1>1, <1>2
<1>4. ASSUME NEW n \in 1..Len(ins)
      PROVE  ins[n].act \notin A \/ (n - d \in 2..Len(q) /\ ins[n] = q[n - d])
  <2>1. CASE n <= Len(f)
    BY <1>1, <2>1 DEF Quiet
  <2>2. CASE n > Len(f)
    <3>1. n \in (Len(f) + 1)..Len(ins) /\ n - d \in 2..Len(q)
      BY <1>1, <2>2
    <3> QED
      BY <1>1, <3>1
  <2> QED
    BY <1>1, <2>1, <2>2
<1> DEFINE v == r + d
<1>5. v \in 1..Len(ins) /\ ins[v] = q[r] /\ v - d = r
  BY <1>1, <1>2, <1>3
<1> HIDE DEF v
<1>6. ASSUME NEW n \in 1..Len(ins), n # v PROVE ins[n].act \notin A
  <2> DEFINE m == n - d
  <2>1. m # r
    BY ONLY n \in 1..Len(ins), <1>0, <1>5, <1>6
  <2>2. ins[n].act \notin A \/ (m \in 2..Len(q) /\ ins[n] = q[m])
    BY <1>4
  <2> HIDE DEF m
  <2> QED
    BY ONLY <2>1, <2>2, <1>2, <1>3, <1>0
<1>7. Only(ins, A, b, i, h)
  BY <1>2, <1>5, <1>6, Zenon DEF Only
<1>8. Only(Left(ins), A, b, i, h)
  BY <1>1, <1>7, LeftKeeps, Zenon
<1>9. Is(q[1], a, i, h)
  BY <1>2, <1>3
<1> QED
  BY <1>8, <1>9 DEF ins

-----------------------------------------------------------------------------
(* What follows an instruction. *)

(* Instructions that neither make, take nor drop a reader or writer. *)
Plain == But(WriterActs \cup ReaderActs \cup {"take", "finishW"})

LEMMA LocksAre ==
    /\ OFR \in AnyLocks /\ OFW \in AnyLocks /\ RH \in AnyLocks /\ WH \in AnyLocks
    /\ \A i \in Inodes : RW(i) \in AnyLocks /\ UP(i) \in AnyLocks
    /\ \A h \in Handles \cup {None} : RC(h) \in AnyLocks /\ WC(h) \in AnyLocks
BY DEF AnyLocks, TableLocks

LEMMA AwaitIs ==
    ASSUME NEW a \in Acts, NEW l \in AnyLocks, NEW m \in {"r", "w"}, NEW i \in Inodes,
           NEW h \in Handles \cup {None}
    PROVE  /\ Await(a, l, m, i, h) \in Awaits /\ Is(Await(a, l, m, i, h), a, i, h)
           /\ Await(a, l, m, i, h) \in Instructions
           /\ a \notin WriterActs \cup ReaderActs \cup {"take", "finishW"} => Await(a, l, m, i, h) \in Plain
BY DEF Await, Awaits, Is, Instructions, Plain, But

(* The acts of plain instructions. *)
PlainActs ==
    {"readers", "visit", "writer", "peek", "update", "cut", "resetReaders", "reset",
     "resetWriter", "resetW", "resetSaveW", "read", "write", "flush", "finish", "truncate",
     "flushW", "takeW", "restore", "hold", "renew", "fetch", "store", "sync", "giveBack"}

LEMMA PlainAwait ==
    ASSUME NEW a \in PlainActs, NEW l \in AnyLocks, NEW m \in {"r", "w"}, NEW i \in Inodes,
           NEW h \in Handles \cup {None}
    PROVE  Await(a, l, m, i, h) \in Plain
<1>1. a \in Acts /\ a \notin WriterActs \cup ReaderActs \cup {"take", "finishW"}
  BY DEF PlainActs, Acts, WriterActs, ReaderActs, OpenActs
<1> QED
  BY <1>1, AwaitIs

LEMMA FreeIs ==
    ASSUME NEW ls \in SUBSET AnyLocks
    PROVE  Free(ls) \in Plain /\ Free(ls) \in Instructions /\ Free(ls).act = "free"
BY DEF Free, Releases, Instructions, Plain, But, WriterActs, ReaderActs

LEMMA PlainIs == Plain \subseteq Instructions /\ \A q \in Seq(Plain) : q \in Seq(Instructions)
<1>1. Plain \subseteq Instructions
  BY DEF Plain, But
<1> HIDE DEF Plain, Instructions
<1> QED
  BY <1>1

(* A list of plain instructions is quiet. *)
LEMMA PlainQuiet ==
    ASSUME NEW q \in Seq(Plain)
    PROVE  Quiet(q, WriterActs) /\ Quiet(q, ReaderActs) /\ Quiet(q, {"take", "finishW"})
<1>1. \A x \in Plain : x.act \notin WriterActs /\ x.act \notin ReaderActs /\ x.act \notin {"take", "finishW"}
  BY DEF Plain, But
<1> HIDE DEF Plain
<1> QED
  BY <1>1 DEF Quiet

LEMMA SetToSeqIs ==
    ASSUME NEW S, IsFiniteSet(S)
    PROVE  SetToSeq(S) \in Seq(S)
<1>1. Cardinality(S) \in Nat /\ ExistsBijection(1..Cardinality(S), S)
  BY FS_CardinalityType
<1>2. \E f \in [1..Cardinality(S) -> S] : IsInjective(f)
  BY <1>1 DEF ExistsBijection, Bijection, Injection, IsInjective
<1>3. SetToSeq(S) \in [1..Cardinality(S) -> S]
  BY <1>2 DEF SetToSeq
<1> QED
  BY <1>1, <1>3

(* The lists that appear in many calls. *)
LEMMA ListsPlain ==
    ASSUME NEW i \in Inodes, NEW h \in Handles \cup {None}
    PROVE  GetAttr(i) \in Seq(Plain) /\ SetAttr(i) \in Seq(Plain) /\ Reset(i, h) \in Seq(Plain)
<1>1. /\ Await("readers", OFR, "r", i, None) \in Plain
      /\ Await("writer", OFW, "r", i, None) \in Plain
      /\ Await("update", UP(i), "w", i, None) \in Plain
      /\ Await("resetReaders", OFR, "r", i, h) \in Plain
      /\ Await("resetWriter", OFW, "r", i, h) \in Plain
  BY LocksAre, PlainAwait DEF PlainActs
<1> HIDE DEF Plain
<1> QED
  BY <1>1 DEF GetAttr, SetAttr, Reset

LEMMA AwaitFields ==
    ASSUME NEW s \in Awaits
    PROVE  /\ s.act \in Acts /\ s.on \in SUBSET AnyLocks /\ s.mode \in {"r", "w"}
           /\ s.ino \in Inodes /\ s.h \in Handles \cup {None}
           /\ Free(s.on) \in Plain
           /\ GetAttr(s.ino) \in Seq(Plain) /\ SetAttr(s.ino) \in Seq(Plain)
           /\ Reset(s.ino, s.h) \in Seq(Plain) /\ Reset(s.ino, None) \in Seq(Plain)
<1>1. /\ s.act \in Acts /\ s.on \in SUBSET AnyLocks /\ s.mode \in {"r", "w"}
      /\ s.ino \in Inodes /\ s.h \in Handles \cup {None}
  BY DEF Awaits
<1> QED
  BY <1>1, FreeIs, ListsPlain

LEMMA AttrPlain ==
    ASSUME TablesTyped, NEW s \in Awaits, s.act \in {"readers", "writer", "peek", "update", "cut"}
    PROVE  AttrSteps(s) \in Seq(Plain)
<1>1. /\ Free(s.on) \in Plain /\ GetAttr(s.ino) \in Seq(Plain)
      /\ s.ino \in Inodes /\ s.h \in Handles \cup {None}
  BY AwaitFields
<1>2. ofw[s.ino] \in Handles \cup {None}
  BY <1>1 DEF TablesTyped
<1>3. /\ Await("visit", RH, "r", s.ino, None) \in Plain
      /\ Await("peek", WH, "r", s.ino, ofw[s.ino]) \in Plain
      /\ Await("visit", WC(s.h), "w", s.ino, s.h) \in Plain
  BY <1>1, <1>2, LocksAre, PlainAwait DEF PlainActs
<1> HIDE DEF Plain
<1>4. CASE s.act = "readers"
  BY <1>1, <1>3, <1>4 DEF AttrSteps
<1>5. CASE s.act = "writer"
  BY <1>1, <1>3, <1>5 DEF AttrSteps
<1>6. CASE s.act = "peek"
  BY <1>1, <1>3, <1>6 DEF AttrSteps
<1>7. CASE s.act \in {"update", "cut"}
  BY <1>1, <1>7 DEF AttrSteps
<1> QED
  BY <1>4, <1>5, <1>6, <1>7

LEMMA ResetPlain ==
    ASSUME TablesTyped, NEW s \in Awaits,
           s.act \in {"resetReaders", "reset", "resetWriter"}
    PROVE  ResetSteps(s) \in Seq(Plain)
<1>1. /\ Free(s.on) \in Plain /\ SetAttr(s.ino) \in Seq(Plain)
      /\ s.ino \in Inodes /\ s.h \in Handles \cup {None}
  BY AwaitFields
<1>2. ofw[s.ino] \in Handles \cup {None}
  BY <1>1 DEF TablesTyped
<1>3. CASE s.act = "resetReaders"
  <2> DEFINE S == Readers(s.ino) \ {s.h}
             rs == SetToSeq(S)
             f == [n \in 1..Len(rs) |-> Await("reset", RH, "r", s.ino, rs[n])]
  <2>1. S \subseteq Handles /\ IsFiniteSet(S)
    BY FileCallsAssumption, FS_Subset DEF Readers, TablesTyped
  <2>2. rs \in Seq(S)
    <3> HIDE DEF S
    <3> QED
      BY <2>1, SetToSeqIs
  <2> HIDE DEF S, rs
  <2>3. Len(rs) \in Nat /\ \A n \in 1..Len(rs) : rs[n] \in Handles \cup {None}
    BY <2>1, <2>2
  <2>4. \A n \in 1..Len(rs) : Await("reset", RH, "r", s.ino, rs[n]) \in Plain
    BY <1>1, <2>3, LocksAre, PlainAwait DEF PlainActs
  <2>5. f \in Seq(Plain)
    <3> HIDE DEF Plain
    <3> QED
      BY <2>3, <2>4
  <2>6. ResetSteps(s) = f \o <<Free(s.on)>>
    BY <1>3 DEF ResetSteps, rs, S
  <2> HIDE DEF f, Plain
  <2> QED
    BY <1>1, <2>5, <2>6
<1>4. CASE s.act = "reset"
  <2>1. Await("renew", RC(s.h), "w", s.ino, s.h) \in Plain /\ Free({RC(s.h), RH}) \in Plain
    BY <1>1, LocksAre, PlainAwait, FreeIs DEF PlainActs
  <2> HIDE DEF Plain
  <2> QED
    BY <1>1, <1>4, <2>1 DEF ResetSteps
<1>5. CASE s.act = "resetWriter"
  <2>1. \A a \in {"resetW", "resetSaveW"} : Await(a, WH, "r", s.ino, ofw[s.ino]) \in Plain
    BY <1>1, <1>2, LocksAre, PlainAwait DEF PlainActs
  <2> HIDE DEF Plain
  <2> QED
    BY <1>1, <1>5, <2>1 DEF ResetSteps
<1> QED
  BY <1>3, <1>4, <1>5

LEMMA UsePlain ==
    ASSUME NEW s \in Awaits
    PROVE  ReadSteps(s) \in Seq(Plain) /\ WriteSteps(s) \in Seq(Plain) /\ FlushSteps(s) \in Seq(Plain)
<1>1. /\ Free(s.on) \in Plain /\ Reset(s.ino, s.h) \in Seq(Plain)
      /\ s.ino \in Inodes /\ s.h \in Handles \cup {None}
  BY AwaitFields
<1>2. /\ Await("fetch", RC(s.h), "w", s.ino, s.h) \in Plain
      /\ Await("store", WC(s.h), "w", s.ino, s.h) \in Plain
      /\ Await("hold", WC(s.h), "w", s.ino, s.h) \in Plain
      /\ Await("sync", RW(s.ino), "w", s.ino, s.h) \in Plain
  BY <1>1, LocksAre, PlainAwait DEF PlainActs
<1>3. /\ Free({RC(s.h), RH, RW(s.ino)}) \in Plain
      /\ Free({WC(s.h), RW(s.ino)}) \in Plain
      /\ Free({RW(s.ino), WC(s.h)}) \in Plain
  BY <1>1, LocksAre, FreeIs
<1> HIDE DEF Plain
<1>4. ReadSteps(s) \in Seq(Plain)
  BY <1>2, <1>3 DEF ReadSteps
<1>5. WriteSteps(s) \in Seq(Plain)
  BY <1>1, <1>2, <1>3 DEF WriteSteps
<1>6. FlushSteps(s) \in Seq(Plain)
  BY <1>1, <1>2, <1>3 DEF FlushSteps
<1> QED
  BY <1>4, <1>5, <1>6

LEMMA SetLenPlain ==
    ASSUME TablesTyped, NEW s \in Awaits, s.act \in {"truncate", "flushW", "restore"}
    PROVE  SetLenSteps(s) \in Seq(Plain)
<1>1. /\ Free(s.on) \in Plain /\ Reset(s.ino, s.h) \in Seq(Plain) /\ Reset(s.ino, None) \in Seq(Plain)
      /\ GetAttr(s.ino) \in Seq(Plain) /\ SetAttr(s.ino) \in Seq(Plain)
      /\ s.ino \in Inodes /\ s.h \in Handles \cup {None}
  BY AwaitFields
<1>2. ofw[s.ino] \in Handles \cup {None}
  BY <1>1 DEF TablesTyped
<1>3. CASE s.act = "truncate"
  <2>1. /\ Await("flushW", OFW, "r", s.ino, None) \in Plain
        /\ Await("cut", UP(s.ino), "w", s.ino, None) \in Plain
    BY <1>1, LocksAre, PlainAwait DEF PlainActs
  <2> HIDE DEF Plain
  <2> QED
    BY <1>1, <1>3, <2>1 DEF SetLenSteps
<1>4. CASE s.act = "flushW"
  <2>1. Await("takeW", WH, "w", s.ino, ofw[s.ino]) \in Plain
    BY <1>1, <1>2, LocksAre, PlainAwait DEF PlainActs
  <2> HIDE DEF Plain
  <2> QED
    BY <1>1, <1>4, <2>1 DEF SetLenSteps
<1>5. CASE s.act = "restore"
  <2>1. Await("giveBack", WC(s.h), "w", s.ino, s.h) \in Plain /\ Free({WC(s.h), WH}) \in Plain
    BY <1>1, LocksAre, PlainAwait, FreeIs DEF PlainActs
  <2> HIDE DEF Plain
  <2> QED
    BY <1>5, <2>1 DEF SetLenSteps
<1> QED
  BY <1>3, <1>4, <1>5

(* The instructions after which a writer is taken out or finished. *)
Takers == {"takeW", "resetW", "resetSaveW"}

(* Every instruction but these and three more is followed by plain ones. *)
LEMMA FollowPlain ==
    ASSUME TablesTyped, NEW s \in Awaits, s.act \notin {"checkW", "delR", "delW"} \cup Takers
    PROVE  Follow(s) \in Seq(Plain)
<1>1. s.act \in Acts /\ Free(s.on) \in Plain /\ SetAttr(s.ino) \in Seq(Plain)
  BY AwaitFields
<1>2. CASE s.act \in {"readers", "writer", "peek", "update", "cut"}
  BY <1>2, AttrPlain DEF Follow
<1>3. CASE s.act \in {"resetReaders", "reset", "resetWriter"}
  BY <1>3, ResetPlain DEF Follow
<1>4. CASE s.act \in {"read", "write", "flush"}
  BY <1>4, UsePlain DEF Follow
<1>5. CASE s.act = "finish"
  <2>1. Follow(s) = SetAttr(s.ino) \o <<Free(s.on)>>
    BY <1>5 DEF Follow, ReleaseSteps
  <2> HIDE DEF Plain
  <2> QED
    BY <1>1, <2>1
<1>6. CASE s.act \in {"truncate", "flushW", "restore"}
  BY <1>6, SetLenPlain DEF Follow
<1>7. CASE s.act \in {"visit", "addR", "regR", "addW", "regW", "unregR", "unregW"}
  <2>1. Follow(s) = <<Free(s.on)>>
    BY <1>7 DEF Follow
  <2> HIDE DEF Plain
  <2> QED
    BY <1>1, <2>1
<1>8. CASE s.act \in {"hold", "renew", "finishW", "fetch", "store", "sync", "take", "giveBack"}
  <2>1. Follow(s) = <<>>
    BY <1>8 DEF Follow
  <2> QED
    BY <2>1
<1>9. \/ s.act \in {"readers", "writer", "peek", "update", "cut"}
      \/ s.act \in {"resetReaders", "reset", "resetWriter"}
      \/ s.act \in {"read", "write", "flush"} \/ s.act = "finish"
      \/ s.act \in {"truncate", "flushW", "restore"}
      \/ s.act \in {"visit", "addR", "regR", "addW", "regW", "unregR", "unregW"}
      \/ s.act \in {"hold", "renew", "finishW", "fetch", "store", "sync", "take", "giveBack"}
  BY <1>1 DEF Acts, WriterActs, ReaderActs, OpenActs, Takers
<1> QED
  BY <1>2, <1>3, <1>4, <1>5, <1>6, <1>7, <1>8, <1>9

(* The others. *)
LEMMA FollowCheckW ==
    ASSUME TablesTyped, NEW s \in Awaits, s.act = "checkW"
    PROVE  /\ Follow(s) \in Seq(Instructions) /\ Quiet(Follow(s), ReaderActs \cup {"take", "finishW"})
           /\ \A n \in 1..Len(Follow(s)) : Follow(s)[n].act \in OpenActs \cup {"free"}
           /\ ofw[s.ino] # None => Quiet(Follow(s), WriterActs)
           /\ ofw[s.ino] = None =>
                Both(Follow(s), WriterActs, "addW", "regW", s.ino, s.h)
<1>1. /\ Free(s.on) \in Plain /\ s.ino \in Inodes /\ s.h \in Handles \cup {None}
      /\ Free(s.on) \in Instructions /\ Free(s.on).act = "free"
  BY AwaitFields, FreeIs
<1>2. CASE ofw[s.ino] # None
  <2>1. Follow(s) = <<Free(s.on)>>
    BY <1>2 DEF Follow, OpenSteps
  <2> DEFINE x == Free(s.on)
  <2> HIDE DEF x
  <2>2. Follow(s) = <<x>> /\ x \in Instructions /\ x.act = "free"
    BY <1>1, <2>1 DEF x
  <2>3. /\ Follow(s) \in Seq(Instructions) /\ Len(Follow(s)) = 1 /\ Follow(s)[1] = x
    BY <2>2
  <2> QED
    BY <1>2, <2>2, <2>3 DEF Quiet, OpenActs, WriterActs, ReaderActs
<1>3. CASE ofw[s.ino] = None
  <2> DEFINE x == Free(s.on)
             b == Await("readers", OFR, "r", s.ino, None)
             c == Await("writer", OFW, "r", s.ino, None)
             d == Await("addW", WH, "w", s.ino, s.h)
             e == Await("regW", OFW, "w", s.ino, s.h)
             f == Follow(s)
  <2>1. f = <<x>> \o (<<b, c>> \o <<d, e>>)
    BY <1>3 DEF Follow, OpenSteps, AddWriter, GetAttr
  <2>2. /\ x \in Instructions /\ b \in Instructions /\ c \in Instructions
        /\ d \in Instructions /\ e \in Instructions
        /\ x.act = "free" /\ b.act = "readers" /\ c.act = "writer"
        /\ Is(d, "addW", s.ino, s.h) /\ Is(e, "regW", s.ino, s.h)
    <3>1. {"readers", "writer", "addW", "regW"} \subseteq Acts
      BY DEF Acts, OpenActs
    <3> QED
      BY <1>1, <3>1, LocksAre, AwaitIs DEF Is
  <2> HIDE DEF x, b, c, d, e, f
  <2>3. /\ f \in Seq(Instructions) /\ Len(f) = 5
        /\ f[1] = x /\ f[2] = b /\ f[3] = c /\ f[4] = d /\ f[5] = e
    BY <2>1, <2>2
  <2>4. 1..Len(f) = {1, 2, 3, 4, 5}
    BY <2>3
  <2>5. d.act = "addW" /\ e.act = "regW"
    BY <2>2 DEF Is
  <2>6. Quiet(f, ReaderActs \cup {"take", "finishW"}) /\ \A n \in 1..Len(f) : f[n].act \in OpenActs \cup {"free"}
    BY <2>2, <2>3, <2>4, <2>5 DEF Quiet, ReaderActs, OpenActs
  <2>7. \A n \in 1..Len(f) : n # 4 /\ n # 5 => f[n].act \notin WriterActs
    BY <2>2, <2>3, <2>4 DEF WriterActs
  <2>8. 4 \in 1..Len(f) /\ 5 \in 1..Len(f) /\ 4 < 5
    BY <2>4
  <2>9. Both(f, WriterActs, "addW", "regW", s.ino, s.h)
    BY <2>2, <2>3, <2>7, <2>8 DEF Both
  <2> QED
    BY <1>3, <2>3, <2>6, <2>9 DEF f
<1> QED
  BY <1>2, <1>3

LEMMA FollowDelR ==
    ASSUME NEW s \in Awaits, s.act = "delR"
    PROVE  /\ Follow(s) \in Seq(Instructions) /\ Quiet(Follow(s), WriterActs \cup {"take", "finishW"})
           /\ s.h \notin rh => Quiet(Follow(s), ReaderActs)
           /\ s.h \in rh => Only(Follow(s), ReaderActs, "unregR", s.ino, s.h)
<1>1. /\ Free(s.on) \in Instructions /\ Free(s.on).act = "free"
      /\ s.ino \in Inodes /\ s.h \in Handles \cup {None}
  BY AwaitFields, FreeIs
<1> DEFINE x == Free(s.on)
           b == Await("unregR", OFR, "w", s.ino, s.h)
           c == Await("update", UP(s.ino), "w", s.ino, None)
           f == Follow(s)
<1>2. f = <<x>> \o (IF s.h \in rh THEN <<b>> \o <<c>> ELSE <<>>)
  BY DEF Follow, ReleaseSteps, SetAttr
<1>3. /\ x \in Instructions /\ b \in Instructions /\ c \in Instructions
      /\ x.act = "free" /\ Is(b, "unregR", s.ino, s.h) /\ b.act = "unregR" /\ c.act = "update"
  <2>1. {"unregR", "update"} \subseteq Acts
    BY DEF Acts, ReaderActs
  <2> QED
    BY <1>1, <2>1, LocksAre, AwaitIs DEF Is
<1> HIDE DEF x, b, c, f
<1>4. CASE s.h \notin rh
  <2>1. f \in Seq(Instructions) /\ Len(f) = 1 /\ f[1] = x
    BY <1>2, <1>3, <1>4
  <2> QED
    BY <1>3, <1>4, <2>1 DEF f, Quiet, WriterActs, ReaderActs
<1>5. CASE s.h \in rh
  <2>1. f \in Seq(Instructions) /\ Len(f) = 3 /\ f[1] = x /\ f[2] = b /\ f[3] = c
    BY <1>2, <1>3, <1>5
  <2>2. 1..Len(f) = {1, 2, 3}
    BY <2>1
  <2>3. Quiet(f, WriterActs \cup {"take", "finishW"})
    BY <1>3, <2>1, <2>2 DEF Quiet, WriterActs
  <2>4. \A n \in 1..Len(f) : n # 2 => f[n].act \notin ReaderActs
    BY <1>3, <2>1, <2>2 DEF ReaderActs
  <2>5. Only(f, ReaderActs, "unregR", s.ino, s.h)
    BY <1>3, <2>1, <2>2, <2>4 DEF Only
  <2> QED
    BY <1>5, <2>1, <2>3, <2>5 DEF f
<1> QED
  BY <1>4, <1>5

LEMMA FollowDelW ==
    ASSUME NEW s \in Awaits, s.act = "delW"
    PROVE  /\ Follow(s) \in Seq(Instructions) /\ Quiet(Follow(s), ReaderActs \cup {"take", "finishW"})
           /\ s.h \notin wh => Quiet(Follow(s), WriterActs)
           /\ s.h \in wh => Only(Follow(s), WriterActs, "unregW", s.ino, s.h)
<1>1. /\ Free(s.on) \in Instructions /\ Free(s.on).act = "free"
      /\ s.ino \in Inodes /\ s.h \in Handles \cup {None}
  BY AwaitFields, FreeIs
<1> DEFINE x == Free(s.on)
           b == Await("finish", RW(s.ino), "w", s.ino, s.h)
           c == Await("unregW", OFW, "w", s.ino, s.h)
           d == Await("resetReaders", OFR, "r", s.ino, s.h)
           e == Await("resetWriter", OFW, "r", s.ino, s.h)
           f == Follow(s)
<1>2. f = <<x>> \o (IF s.h \in wh THEN <<b, c>> \o <<d, e>> ELSE <<>>)
  BY DEF Follow, ReleaseSteps, Reset
<1>3. /\ x \in Instructions /\ b \in Instructions /\ c \in Instructions
      /\ d \in Instructions /\ e \in Instructions
      /\ x.act = "free" /\ b.act = "finish" /\ c.act = "unregW"
      /\ d.act = "resetReaders" /\ e.act = "resetWriter"
      /\ Is(c, "unregW", s.ino, s.h)
  <2>1. {"finish", "unregW", "resetReaders", "resetWriter"} \subseteq Acts
    BY DEF Acts, WriterActs
  <2> QED
    BY <1>1, <2>1, LocksAre, AwaitIs DEF Is
<1> HIDE DEF x, b, c, d, e, f
<1>4. CASE s.h \notin wh
  <2>1. f \in Seq(Instructions) /\ Len(f) = 1 /\ f[1] = x
    BY <1>2, <1>3, <1>4
  <2> QED
    BY <1>3, <1>4, <2>1 DEF f, Quiet, WriterActs, ReaderActs
<1>5. CASE s.h \in wh
  <2>1. /\ f \in Seq(Instructions) /\ Len(f) = 5
        /\ f[1] = x /\ f[2] = b /\ f[3] = c /\ f[4] = d /\ f[5] = e
    BY <1>2, <1>3, <1>5
  <2>2. 1..Len(f) = {1, 2, 3, 4, 5}
    BY <2>1
  <2>3. Quiet(f, ReaderActs \cup {"take", "finishW"})
    BY <1>3, <2>1, <2>2 DEF Quiet, ReaderActs
  <2>4. \A n \in 1..Len(f) : n # 3 => f[n].act \notin WriterActs
    BY <1>3, <2>1, <2>2 DEF WriterActs
  <2>5. Only(f, WriterActs, "unregW", s.ino, s.h)
    BY <1>3, <2>1, <2>2, <2>4 DEF Only
  <2> QED
    BY <1>5, <2>1, <2>3, <2>5 DEF f
<1> QED
  BY <1>4, <1>5

LEMMA FollowTakeW ==
    ASSUME NEW s \in Awaits, s.act = "takeW"
    PROVE  /\ Follow(s) \in Seq(Instructions)
           /\ Quiet(Follow(s), WriterActs) /\ Quiet(Follow(s), ReaderActs)
           /\ TakesFit(Follow(s))
<1>1. s.ino \in Inodes /\ s.h \in Handles \cup {None}
  BY AwaitFields
<1> DEFINE v == Free({OFW, WH})
           x == Await("take", WC(s.h), "w", s.ino, s.h)
           y == Free({WC(s.h), OFW, WH})
           c == Await("update", UP(s.ino), "w", s.ino, None)
           d == Await("resetReaders", OFR, "r", s.ino, s.h)
           e == Await("resetWriter", OFW, "r", s.ino, s.h)
           z == Await("restore", WH, "w", s.ino, s.h)
           f == Follow(s)
<1>2. f = IF s.h \in wh THEN <<x, y>> \o <<c>> \o <<d, e>> \o <<z>> ELSE <<v>>
  BY DEF Follow, SetLenSteps, SetAttr, Reset
<1>3. /\ v \in Instructions /\ x \in Instructions /\ y \in Instructions /\ c \in Instructions
      /\ d \in Instructions /\ e \in Instructions /\ z \in Instructions
      /\ v.act = "free" /\ x.act = "take" /\ x.h = s.h /\ y.act = "free" /\ c.act = "update"
      /\ d.act = "resetReaders" /\ e.act = "resetWriter" /\ z.act = "restore" /\ z.h = s.h
  <2>1. {"take", "update", "resetReaders", "resetWriter", "restore"} \subseteq Acts
    BY DEF Acts
  <2> QED
    BY <1>1, <2>1, LocksAre, AwaitIs, FreeIs DEF Is
<1> HIDE DEF v, x, y, c, d, e, z, f
<1>4. CASE s.h \notin wh
  <2>1. f \in Seq(Instructions) /\ Len(f) = 1 /\ f[1] = v
    BY <1>2, <1>3, <1>4
  <2> QED
    BY <1>3, <2>1 DEF f, Quiet, WriterActs, ReaderActs, TakesFit
<1>5. CASE s.h \in wh
  <2>1. /\ f \in Seq(Instructions) /\ Len(f) = 6
        /\ f[1] = x /\ f[2] = y /\ f[3] = c /\ f[4] = d /\ f[5] = e /\ f[6] = z
    BY <1>2, <1>3, <1>5
  <2>2. 1..Len(f) = {1, 2, 3, 4, 5, 6}
    BY <2>1
  <2>3. Quiet(f, WriterActs) /\ Quiet(f, ReaderActs)
    BY <1>3, <2>1, <2>2 DEF Quiet, WriterActs, ReaderActs
  <2>4. \A n \in 1..Len(f) : f[n].act \in {"take", "finishW"} => n = 1
    BY <1>3, <2>1, <2>2
  <2>5. 6 \in 1..Len(f) /\ 6 > 1 /\ f[6].act = "restore" /\ f[6].h = f[1].h
    BY <1>3, <2>1, <2>2
  <2>6. TakesFit(f)
    BY <2>4, <2>5 DEF TakesFit
  <2> QED
    BY <2>1, <2>3, <2>6 DEF f
<1> QED
  BY <1>4, <1>5

LEMMA FollowResetW ==
    ASSUME NEW s \in Awaits, s.act \in {"resetW", "resetSaveW"}
    PROVE  /\ Follow(s) \in Seq(Instructions)
           /\ Quiet(Follow(s), WriterActs) /\ Quiet(Follow(s), ReaderActs)
           /\ TakesFit(Follow(s))
<1>1. s.ino \in Inodes /\ s.h \in Handles \cup {None}
  BY AwaitFields
<1> DEFINE v == Free(s.on)
           x == Await("finishW", WC(s.h), "w", s.ino, s.h)
           y == Free({WC(s.h)})
           c == Await("update", UP(s.ino), "w", s.ino, None)
           z == Await("giveBack", WC(s.h), "w", s.ino, s.h)
           f == Follow(s)
<1>2. f = (IF s.h \in wh
           THEN <<x, y>> \o (IF s.act = "resetSaveW" THEN <<c>> ELSE <<>>) \o <<z, y>>
           ELSE <<>>) \o <<v>>
  BY DEF Follow, ResetSteps, SetAttr
<1>3. /\ v \in Instructions /\ x \in Instructions /\ y \in Instructions /\ c \in Instructions
      /\ z \in Instructions
      /\ v.act = "free" /\ x.act = "finishW" /\ x.h = s.h /\ y.act = "free" /\ c.act = "update"
      /\ z.act = "giveBack" /\ z.h = s.h
  <2>1. {"finishW", "update", "giveBack"} \subseteq Acts
    BY DEF Acts
  <2>2. v \in Instructions /\ v.act = "free"
    BY AwaitFields, PlainIs DEF Free
  <2>3. y \in Instructions /\ y.act = "free"
    BY <1>1, LocksAre, FreeIs
  <2> HIDE DEF v, y, Instructions
  <2> QED
    BY <1>1, <2>1, <2>2, <2>3, LocksAre, AwaitIs DEF Is
<1> HIDE DEF v, x, y, c, z, f
<1>4. CASE s.h \notin wh
  <2>1. f \in Seq(Instructions) /\ Len(f) = 1 /\ f[1] = v
    BY <1>2, <1>3, <1>4
  <2> QED
    BY <1>3, <2>1 DEF f, Quiet, WriterActs, ReaderActs, TakesFit
<1>5. CASE s.h \in wh /\ s.act # "resetSaveW"
  <2>1. /\ f \in Seq(Instructions) /\ Len(f) = 5
        /\ f[1] = x /\ f[2] = y /\ f[3] = z /\ f[4] = y /\ f[5] = v
    BY <1>2, <1>3, <1>5
  <2>2. 1..Len(f) = {1, 2, 3, 4, 5}
    BY <2>1
  <2>3. Quiet(f, WriterActs) /\ Quiet(f, ReaderActs)
    BY <1>3, <2>1, <2>2 DEF Quiet, WriterActs, ReaderActs
  <2>4. \A n \in 1..Len(f) : f[n].act \in {"take", "finishW"} => n = 1
    BY <1>3, <2>1, <2>2
  <2>5. 3 \in 1..Len(f) /\ 3 > 1 /\ f[3].act = "giveBack" /\ f[3].h = f[1].h
    BY <1>3, <2>1, <2>2
  <2>6. TakesFit(f)
    BY <2>4, <2>5 DEF TakesFit
  <2> QED
    BY <2>1, <2>3, <2>6 DEF f
<1>6. CASE s.h \in wh /\ s.act = "resetSaveW"
  <2>1. /\ f \in Seq(Instructions) /\ Len(f) = 6
        /\ f[1] = x /\ f[2] = y /\ f[3] = c /\ f[4] = z /\ f[5] = y /\ f[6] = v
    BY <1>2, <1>3, <1>6
  <2>2. 1..Len(f) = {1, 2, 3, 4, 5, 6}
    BY <2>1
  <2>3. Quiet(f, WriterActs) /\ Quiet(f, ReaderActs)
    BY <1>3, <2>1, <2>2 DEF Quiet, WriterActs, ReaderActs
  <2>4. \A n \in 1..Len(f) : f[n].act \in {"take", "finishW"} => n = 1
    BY <1>3, <2>1, <2>2
  <2>5. 4 \in 1..Len(f) /\ 4 > 1 /\ f[4].act = "giveBack" /\ f[4].h = f[1].h
    BY <1>3, <2>1, <2>2
  <2>6. TakesFit(f)
    BY <2>4, <2>5 DEF TakesFit
  <2> QED
    BY <2>1, <2>3, <2>6 DEF f
<1> QED
  BY <1>4, <1>5, <1>6

LEMMA FollowTakers ==
    ASSUME NEW s \in Awaits, s.act \in Takers
    PROVE  /\ Follow(s) \in Seq(Instructions)
           /\ Quiet(Follow(s), WriterActs) /\ Quiet(Follow(s), ReaderActs)
           /\ TakesFit(Follow(s))
BY FollowTakeW, FollowResetW DEF Takers

(* A writer that is restored is given back. *)
LEMMA FollowRestore ==
    ASSUME NEW s \in Awaits, s.act = "restore"
    PROVE  \E n \in 1..Len(Follow(s)) : Follow(s)[n].act = "giveBack" /\ Follow(s)[n].h = s.h
<1> DEFINE x == Await("giveBack", WC(s.h), "w", s.ino, s.h)
           y == Free({WC(s.h), WH})
           f == Follow(s)
<1>1. f = <<x, y>>
  BY DEF Follow, SetLenSteps
<1>2. x.act = "giveBack" /\ x.h = s.h
  BY DEF Await
<1> HIDE DEF x, y, f
<1>3. 1 \in 1..Len(f) /\ f[1] = x
  BY <1>1
<1> QED
  BY <1>2, <1>3 DEF f

(* What follows is always a list of instructions; what follows in an open  *)
(* cannot panic.                                                           *)
LEMMA FollowIs ==
    ASSUME TablesTyped, NEW s \in Awaits
    PROVE  Follow(s) \in Seq(Instructions)
<1>1. CASE s.act \notin {"checkW", "delR", "delW"} \cup Takers
  BY <1>1, FollowPlain, PlainIs
<1> QED
  BY <1>1, FollowCheckW, FollowDelR, FollowDelW, FollowTakers

LEMMA FollowCalm ==
    ASSUME TablesTyped, NEW s \in Awaits, s.act \in OpenActs
    PROVE  \A n \in 1..Len(Follow(s)) : Follow(s)[n].act \in OpenActs \cup {"free"}
<1> DEFINE Calm == {x \in Instructions : x.act \in OpenActs \cup {"free"}}
<1>1. /\ Free(s.on) \in Calm /\ s.ino \in Inodes /\ s.h \in Handles \cup {None}
      /\ ofw[s.ino] \in Handles \cup {None}
  BY AwaitFields, FreeIs DEF TablesTyped
<1>2. /\ Await("visit", RH, "r", s.ino, None) \in Calm
      /\ Await("peek", WH, "r", s.ino, ofw[s.ino]) \in Calm
      /\ Await("visit", WC(s.h), "w", s.ino, s.h) \in Calm
  <2>1. {"visit", "peek"} \subseteq Acts /\ {"visit", "peek"} \subseteq OpenActs
    BY DEF Acts, OpenActs
  <2> QED
    BY <1>1, <2>1, LocksAre, AwaitIs DEF Is
<1> HIDE DEF Calm
<1>3. ASSUME s.act # "checkW" PROVE Follow(s) \in Seq(Calm)
  <2>1. CASE s.act = "readers"
    BY <1>1, <1>2, <2>1 DEF Follow, AttrSteps
  <2>2. CASE s.act = "writer"
    BY <1>1, <1>2, <2>2 DEF Follow, AttrSteps
  <2>3. CASE s.act = "peek"
    BY <1>1, <1>2, <2>3 DEF Follow, AttrSteps
  <2>4. CASE s.act \in {"visit", "addR", "regR", "addW", "regW"}
    <3>1. Follow(s) = <<Free(s.on)>>
      BY <2>4 DEF Follow
    <3> QED
      BY <1>1, <3>1
  <2> QED
    BY <1>3, <2>1, <2>2, <2>3, <2>4 DEF OpenActs
<1>4. \A q \in Seq(Calm) : \A n \in 1..Len(q) : q[n] \in Calm
  OBVIOUS
<1>5. \A x \in Calm : x.act \in OpenActs \cup {"free"}
  BY DEF Calm
<1> QED
  BY <1>3, <1>4, <1>5, FollowCheckW

-----------------------------------------------------------------------------
(* A task that runs on. *)

(* Task t has done s and goes on with l. *)
Stepped(t, s, l) ==
    /\ call[t] # None /\ todo[t] # <<>> /\ s = todo[t][1] /\ s \in Awaits
    /\ l = Left(Follow(s) \o Tail(todo[t]))
    /\ TablesAfter(s)
    /\ todo' = [todo EXCEPT ![t] = l]
    /\ IF l = <<>> THEN Returns(t) ELSE UNCHANGED <<call, open>>
    /\ UNCHANGED <<of, panic>>

LEMMA HeadAwaits ==
    ASSUME CallsTyped, NEW t \in Tasks, call[t] # None
    PROVE  /\ todo[t] # <<>> /\ Head(todo[t]) = todo[t][1] /\ todo[t][1] \in Awaits
           /\ todo[t] \in Seq(Instructions) /\ 1 \in 1..Len(todo[t])
<1>1. todo[t] # <<>> /\ todo[t] \in Seq(Instructions) /\ todo[t][1].act # "free"
  BY DEF CallsTyped
<1> DEFINE q == todo[t]
<1> HIDE DEF q
<1>2. q # <<>> /\ q \in Seq(Instructions) /\ q[1].act # "free"
  BY <1>1 DEF q
<1>3. Head(q) = q[1] /\ q[1] \in Instructions /\ 1 \in 1..Len(q)
  <2> HIDE DEF Instructions
  <2> QED
    BY <1>2
<1>4. q[1] \in Awaits
  BY <1>2, <1>3 DEF Instructions, Releases
<1> QED
  BY <1>2, <1>3, <1>4 DEF q

LEMMA RunCases ==
    ASSUME CallsTyped, NEW t \in Tasks, Run(t)
    PROVE  \/ call[t] # None /\ Fails(todo[t][1]) /\ Panics(t, todo[t][1])
           \/ \E l : Stepped(t, todo[t][1], l)
<1>1. call[t] # None
  BY DEF Run
<1>2. /\ todo[t] # <<>> /\ Head(todo[t]) = todo[t][1] /\ todo[t][1] \in Awaits
  BY <1>1, HeadAwaits
<1> DEFINE s == todo[t][1]
           ins == Follow(s) \o Tail(todo[t])
<1>3. IF Fails(s) THEN Panics(t, s)
      ELSE /\ TablesAfter(s)
           /\ todo' = [todo EXCEPT ![t] = Left(ins)]
           /\ IF Left(ins) = <<>> THEN Returns(t) ELSE UNCHANGED <<call, open>>
           /\ UNCHANGED <<of, panic>>
  BY <1>2 DEF Run, Left
<1> HIDE DEF ins
<1>4. CASE Fails(s)
  BY <1>1, <1>3, <1>4
<1>5. CASE ~Fails(s)
  <2>1. Stepped(t, s, Left(ins))
    BY <1>1, <1>2, <1>3, <1>5 DEF Stepped, ins
  <2> QED
    BY <2>1
<1> QED
  BY <1>4, <1>5

(* The other tasks stay where they are. *)
LEMMA SteppedTasks ==
    ASSUME CallsTyped, NEW t \in Tasks, NEW s, NEW l, Stepped(t, s, l)
    PROVE  /\ \A u \in Tasks : u # t => call'[u] = call[u] /\ todo'[u] = todo[u]
           /\ todo'[t] = l
           /\ l # <<>> => call' = call /\ open' = open
           /\ l = <<>> => call'[t] = None
BY DEF CallsTyped, Stepped, Returns

LEMMA SteppedLists ==
    ASSUME TablesTyped, CallsTyped, NEW t \in Tasks, NEW s, NEW l, Stepped(t, s, l)
    PROVE  /\ l \in Seq(Instructions) /\ (l # <<>> => l[1].act # "free")
           /\ Follow(s) \in Seq(Instructions) /\ todo[t] \in Seq(Instructions)
           /\ todo[t] # <<>> /\ s = todo[t][1] /\ s \in Awaits
<1>1. /\ todo[t] \in Seq(Instructions) /\ todo[t] # <<>> /\ s \in Awaits /\ s = todo[t][1]
      /\ l = Left(Follow(s) \o Tail(todo[t]))
  BY DEF CallsTyped, Stepped
<1>2. Follow(s) \in Seq(Instructions)
  BY <1>1, FollowIs
<1> HIDE DEF Instructions
<1>3. Follow(s) \o Tail(todo[t]) \in Seq(Instructions)
  BY <1>1, <1>2, InsteadIs
<1> QED
  BY <1>1, <1>2, <1>3, LeftIs

(* An instruction that is not one of A. *)
LEMMA SteppedQuiet ==
    ASSUME TablesTyped, CallsTyped, NEW t \in Tasks, NEW s, NEW l, Stepped(t, s, l),
           NEW A, "free" \notin A, s.act \notin A, Quiet(Follow(s), A)
    PROVE  /\ Quiet(todo[t], A) => Quiet(l, A)
           /\ \A a \in A : \A i, h : Only(todo[t], A, a, i, h) => Only(l, A, a, i, h)
           /\ \A a, b \in A : \A i, h : Both(todo[t], A, a, b, i, h) => Both(l, A, a, b, i, h)
<1>1. l = Left(Follow(s) \o Tail(todo[t]))
  BY DEF Stepped
<1>2. /\ Follow(s) \in Seq(Instructions) /\ todo[t] \in Seq(Instructions)
      /\ todo[t] # <<>> /\ todo[t][1].act \notin A
  BY SteppedLists
<1> DEFINE f == Follow(s)
           q == todo[t]
<1> HIDE DEF f, q, Instructions
<1>3. f \in Seq(Instructions) /\ q \in Seq(Instructions) /\ q # <<>> /\ q[1].act \notin A
      /\ Quiet(f, A) /\ l = Left(f \o Tail(q))
  BY <1>1, <1>2 DEF f, q
<1>4. /\ Quiet(q, A) => Quiet(l, A)
      /\ \A a \in A : \A i, h : Only(q, A, a, i, h) => Only(l, A, a, i, h)
      /\ \A a, b \in A : \A i, h : Both(q, A, a, b, i, h) => Both(l, A, a, b, i, h)
  BY <1>3, QuietStep, Zenon
<1> QED
  BY <1>4 DEF q

(* The one instruction of A. *)
LEMMA SteppedOnly ==
    ASSUME TablesTyped, CallsTyped, NEW t \in Tasks, NEW s, NEW l, Stepped(t, s, l),
           NEW A, "free" \notin A, s.act \in A,
           NEW a, NEW i, NEW h, Only(todo[t], A, a, i, h)
    PROVE  /\ Is(s, a, i, h)
           /\ Quiet(Follow(s), A) => Quiet(l, A)
           /\ \A b \in A : Only(Follow(s), A, b, i, h) => Only(l, A, b, i, h)
           /\ \A b, c \in A : Both(Follow(s), A, b, c, i, h) => Both(l, A, b, c, i, h)
<1>1. l = Left(Follow(s) \o Tail(todo[t]))
  BY DEF Stepped
<1>2. /\ Follow(s) \in Seq(Instructions) /\ todo[t] \in Seq(Instructions)
      /\ todo[t] # <<>> /\ s = todo[t][1]
  BY SteppedLists
<1> DEFINE f == Follow(s)
           q == todo[t]
<1> HIDE DEF f, q, Instructions
<1>3. f \in Seq(Instructions) /\ q \in Seq(Instructions) /\ q # <<>> /\ q[1].act \in A
      /\ Only(q, A, a, i, h) /\ l = Left(f \o Tail(q)) /\ s = q[1]
  BY <1>1, <1>2 DEF f, q
<1>4. /\ Is(q[1], a, i, h)
      /\ Quiet(f, A) => Quiet(l, A)
      /\ \A b \in A : Only(f, A, b, i, h) => Only(l, A, b, i, h)
      /\ \A b, c \in A : Both(f, A, b, c, i, h) => Both(l, A, b, c, i, h)
  BY <1>3, OnlyStep, Zenon
<1> QED
  BY <1>3, <1>4 DEF f

(* The first of two instructions of A. *)
LEMMA SteppedBoth ==
    ASSUME TablesTyped, CallsTyped, NEW t \in Tasks, NEW s, NEW l, Stepped(t, s, l),
           NEW A, "free" \notin A, s.act \in A, Quiet(Follow(s), A),
           NEW a, NEW b \in A, NEW i, NEW h, Both(todo[t], A, a, b, i, h)
    PROVE  Is(s, a, i, h) /\ Only(l, A, b, i, h)
<1>1. l = Left(Follow(s) \o Tail(todo[t]))
  BY DEF Stepped
<1>2. /\ Follow(s) \in Seq(Instructions) /\ todo[t] \in Seq(Instructions)
      /\ todo[t] # <<>> /\ s = todo[t][1]
  BY SteppedLists
<1> DEFINE f == Follow(s)
           q == todo[t]
<1> HIDE DEF f, q, Instructions
<1>3. f \in Seq(Instructions) /\ q \in Seq(Instructions) /\ q # <<>> /\ q[1].act \in A
      /\ Both(q, A, a, b, i, h) /\ l = Left(f \o Tail(q)) /\ s = q[1] /\ Quiet(f, A)
  BY <1>1, <1>2 DEF f, q
<1> QED
  BY <1>3, BothStep, Zenon

(* Lists with an instruction of interest are not empty. *)
LEMMA ListsEmpty ==
    /\ \A A : Quiet(<<>>, A)
    /\ \A q, A, a, i, h : Only(q, A, a, i, h) => q # <<>>
    /\ \A q, A, a, b, i, h : Both(q, A, a, b, i, h) => q # <<>>
<1>1. Len(<<>>) = 0 /\ 1..0 = {}
  OBVIOUS
<1>2. \A A : Quiet(<<>>, A)
  BY <1>1 DEF Quiet
<1>3. \A q, A, a, i, h : Only(q, A, a, i, h) => q # <<>>
  BY <1>1 DEF Only
<1>4. \A q, A, a, b, i, h : Both(q, A, a, b, i, h) => q # <<>>
  BY <1>1 DEF Both
<1> QED
  BY <1>2, <1>3, <1>4

(* A list with one of A is not without, and not with another one. *)
LEMMA OnlyOne ==
    ASSUME NEW q, NEW A, NEW a \in A, NEW i, NEW h, Only(q, A, a, i, h)
    PROVE  /\ ~Quiet(q, A)
           /\ \A b, j, g : b \in A /\ Only(q, A, b, j, g) => a = b
BY Zenon DEF Quiet, Only, Is

(* The first instruction of A in a list with two is the first of the two. *)
LEMMA BothHead ==
    ASSUME NEW q, q # <<>>, NEW A, q[1].act \in A, NEW a, NEW b, NEW i, NEW h,
           Both(q, A, a, b, i, h)
    PROVE  q[1].act = a
<1>1. PICK p, r \in 1..Len(q) :
          /\ p < r /\ Is(q[p], a, i, h) /\ Is(q[r], b, i, h)
          /\ \A n \in 1..Len(q) : n # p /\ n # r => q[n].act \notin A
  BY DEF Both
<1>2. 1 \in 1..Len(q) /\ p \in Nat /\ r \in Nat /\ 1 <= p
  BY <1>1
<1>3. 1 = p \/ 1 = r
  BY <1>1, <1>2
<1>4. p = 1
  BY <1>1, <1>2, <1>3
<1> QED
  BY <1>1, <1>4 DEF Is

-----------------------------------------------------------------------------
(* What the next step of an open or a release does to the writers. *)

(* The ways the writers can go on, i and h the file and the handle of t. *)
WriterMove(t, l, i, h) ==
    \/ /\ wh' = wh /\ ofw' = ofw
       /\ Quiet(todo[t], WriterActs) => Quiet(l, WriterActs)
       /\ \A a \in WriterActs : Only(todo[t], WriterActs, a, i, h) => Only(l, WriterActs, a, i, h)
       /\ \A a, b \in WriterActs :
             Both(todo[t], WriterActs, a, b, i, h) => Both(l, WriterActs, a, b, i, h)
    \/ /\ OpeningW(t) /\ h \notin wh /\ wh' = wh /\ ofw' = ofw
       /\ Quiet(l, WriterActs)
    \/ /\ OpeningW(t) /\ h \notin wh /\ wh' = wh /\ ofw' = ofw /\ ofw[i] = None
       /\ Both(l, WriterActs, "addW", "regW", i, h)
    \/ /\ OpeningW(t) /\ h \notin wh /\ wh' = wh \cup {h} /\ ofw' = ofw
       /\ ofw[i] = None \/ i \in raced
       /\ Only(l, WriterActs, "regW", i, h)
    \/ /\ OpeningW(t) /\ h \in wh /\ wh' = wh /\ ofw' = [ofw EXCEPT ![i] = h]
       /\ ofw[i] = None \/ i \in raced
       /\ HasW(t, "regW") /\ Quiet(l, WriterActs)
    \/ /\ Releasing(t) /\ h \notin wh /\ wh' = wh /\ ofw' = ofw /\ ~HasW(t, "unregW")
       /\ Quiet(l, WriterActs)
    \/ /\ Releasing(t) /\ h \in wh /\ wh' = wh \ {h} /\ ofw' = ofw
       /\ Only(l, WriterActs, "unregW", i, h)
    \/ /\ Releasing(t) /\ h \notin wh /\ (ofw[i] = h \/ i \in raced) /\ wh' = wh
       /\ ofw' = [ofw EXCEPT ![i] = None] /\ Quiet(l, WriterActs)

LEMMA WriterMoves ==
    ASSUME TablesTyped, CallsTyped, NEW t \in Tasks, NEW s, NEW l, Stepped(t, s, l),
           WriterStage(t)
    PROVE  WriterMove(t, l, call[t].ino, call[t].h)
<1> DEFINE i == call[t].ino
           h == call[t].h
           A == WriterActs
<1>1. s \in Awaits /\ TablesAfter(s) /\ "free" \notin A
      /\ {"checkW", "addW", "regW", "delW", "unregW"} \subseteq A
  BY DEF Stepped, WriterActs
<1>2. CASE s.act \notin A
  <2>1. wh' = wh /\ ofw' = ofw
    BY <1>1, <1>2 DEF TablesAfter, WriterActs
  <2>2. Quiet(Follow(s), A)
    <3>1. CASE s.act \notin {"delR"} \cup Takers
      BY <1>1, <1>2, <3>1, FollowPlain, PlainQuiet DEF WriterActs
    <3>2. CASE s.act = "delR"
      BY <1>1, <3>2, FollowDelR DEF Quiet
    <3>3. CASE s.act \in Takers
      BY <1>1, <3>3, FollowTakers
    <3> QED
      BY <3>1, <3>2, <3>3
  <2>3. /\ Quiet(todo[t], A) => Quiet(l, A)
        /\ \A a \in A : \A j, g : Only(todo[t], A, a, j, g) => Only(l, A, a, j, g)
        /\ \A a, b \in A : \A j, g : Both(todo[t], A, a, b, j, g) => Both(l, A, a, b, j, g)
    <3> HIDE DEF A
    <3> QED
      BY <1>1, <1>2, <2>2, SteppedQuiet, Zenon
  <2> QED
    BY <2>1, <2>3, Zenon DEF WriterMove
<1>3. CASE s.act \in A
  <2>0. /\ todo[t] # <<>> /\ s = todo[t][1] /\ ~Quiet(todo[t], A)
    <3>1. todo[t] # <<>> /\ s = todo[t][1] /\ todo[t] \in Seq(Instructions)
      BY SteppedLists
    <3>2. 1 \in 1..Len(todo[t])
      <4> HIDE DEF Instructions
      <4> QED
        BY <3>1
    <3> QED
      BY <1>3, <3>1, <3>2 DEF Quiet
  <2>1. ASSUME NEW a \in A, Only(todo[t], A, a, i, h)
        PROVE  /\ s.act = a /\ s.ino = i /\ s.h = h
               /\ Quiet(Follow(s), A) => Quiet(l, A)
               /\ \A b \in A : Only(Follow(s), A, b, i, h) => Only(l, A, b, i, h)
               /\ \A b, c \in A : Both(Follow(s), A, b, c, i, h) => Both(l, A, b, c, i, h)
    <3>1. /\ Is(s, a, i, h)
          /\ Quiet(Follow(s), A) => Quiet(l, A)
          /\ \A b \in A : Only(Follow(s), A, b, i, h) => Only(l, A, b, i, h)
          /\ \A b, c \in A : Both(Follow(s), A, b, c, i, h) => Both(l, A, b, c, i, h)
      <4> HIDE DEF A, i, h
      <4> QED
        BY <1>1, <1>3, <2>1, SteppedOnly
    <3> QED
      BY <3>1 DEF Is
  <2>2. ASSUME s.act \notin {"checkW", "delW"} PROVE Quiet(Follow(s), A)
    BY <1>1, <1>3, <2>2, FollowPlain, PlainQuiet DEF WriterActs, Takers
  <2>3. CASE OpeningW(t) /\ h \notin wh /\ HasW(t, "checkW")
    <3>1. Only(todo[t], A, "checkW", i, h)
      BY <2>3 DEF HasW
    <3>2. /\ s.act = "checkW" /\ s.ino = i /\ s.h = h
          /\ Quiet(Follow(s), A) => Quiet(l, A)
          /\ \A b, c \in A : Both(Follow(s), A, b, c, i, h) => Both(l, A, b, c, i, h)
      BY <1>1, <2>1, <3>1
    <3>3. wh' = wh /\ ofw' = ofw
      BY <1>1, <3>2 DEF TablesAfter
    <3>4. /\ ofw[i] # None => Quiet(Follow(s), A)
          /\ ofw[i] = None => Both(Follow(s), A, "addW", "regW", i, h)
      BY <1>1, <3>2, FollowCheckW
    <3> HIDE DEF A, i, h
    <3> QED
      BY <1>1, <2>3, <3>2, <3>3, <3>4 DEF WriterMove, A, i, h
  <2>4. CASE OpeningW(t) /\ h \notin wh /\ (ofw[i] = None \/ i \in raced)
               /\ Both(todo[t], A, "addW", "regW", i, h)
    <3>1. s.act \notin {"checkW", "delW"} => Is(s, "addW", i, h) /\ Only(l, A, "regW", i, h)
      <4> HIDE DEF A
      <4> QED
        BY <1>1, <1>3, <2>2, <2>4, SteppedBoth, Zenon
    <3>2. s.act = "addW"
      BY <1>3, <2>0, <2>4, BothHead
    <3>3. s.h = h /\ Only(l, A, "regW", i, h)
      BY <3>1, <3>2 DEF Is
    <3>4. wh' = wh \cup {h} /\ ofw' = ofw
      BY <1>1, <3>2, <3>3 DEF TablesAfter
    <3> QED
      BY <2>4, <3>3, <3>4 DEF WriterMove
  <2>5. CASE OpeningW(t) /\ h \in wh /\ (ofw[i] = None \/ i \in raced) /\ HasW(t, "regW")
    <3>1. Only(todo[t], A, "regW", i, h)
      BY <2>5 DEF HasW
    <3>2. s.act = "regW" /\ s.ino = i /\ s.h = h /\ (Quiet(Follow(s), A) => Quiet(l, A))
      BY <1>1, <2>1, <3>1
    <3>3. wh' = wh /\ ofw' = [ofw EXCEPT ![i] = h]
      BY <1>1, <3>2 DEF TablesAfter
    <3> QED
      BY <2>2, <2>5, <3>2, <3>3 DEF WriterMove
  <2>6. CASE Releasing(t) /\ HasW(t, "delW")
    <3>1. Only(todo[t], A, "delW", i, h)
      BY <2>6 DEF HasW
    <3>2. /\ s.act = "delW" /\ s.ino = i /\ s.h = h
          /\ Quiet(Follow(s), A) => Quiet(l, A)
          /\ \A b \in A : Only(Follow(s), A, b, i, h) => Only(l, A, b, i, h)
      BY <1>1, <2>1, <3>1
    <3>3. wh' = wh \ {h} /\ ofw' = ofw
      BY <1>1, <3>2 DEF TablesAfter
    <3>4. /\ h \notin wh => Quiet(Follow(s), A)
          /\ h \in wh => Only(Follow(s), A, "unregW", i, h)
      BY <1>1, <3>2, FollowDelW
    <3>5. ~HasW(t, "unregW")
      BY <1>1, <2>1, <3>2 DEF HasW
    <3>6. h \notin wh => wh' = wh
      BY <3>3
    <3> HIDE DEF A, i, h
    <3> QED
      BY <1>1, <2>6, <3>2, <3>3, <3>4, <3>5, <3>6 DEF WriterMove, A, i, h
  <2>7. CASE Releasing(t) /\ h \notin wh /\ (ofw[i] = h \/ i \in raced) /\ HasW(t, "unregW")
    <3>1. Only(todo[t], A, "unregW", i, h)
      BY <2>7 DEF HasW
    <3>2. s.act = "unregW" /\ s.ino = i /\ s.h = h /\ (Quiet(Follow(s), A) => Quiet(l, A))
      BY <1>1, <2>1, <3>1
    <3>3. wh' = wh /\ ofw' = [ofw EXCEPT ![i] = None]
      BY <1>1, <3>2 DEF TablesAfter
    <3> QED
      BY <2>2, <2>7, <3>2, <3>3 DEF WriterMove
  <2> QED
    BY <2>0, <2>3, <2>4, <2>5, <2>6, <2>7 DEF WriterStage
<1> QED
  BY <1>2, <1>3

(* The other calls that make or drop a handle: it is not the one of t. *)
LEMMA OthersApart ==
    ASSUME Owned, NEW t \in Tasks, NEW u \in Tasks, u # t,
           Opening(t) \/ Releasing(t), Opening(u) \/ Releasing(u)
    PROVE  call[u].h # call[t].h
BY DEF Owned

LEMMA RacedStays ==
    ASSUME NEW t, NEW s, NEW l, Stepped(t, s, l)
    PROVE  raced \subseteq raced'
BY DEF Stepped, TablesAfter

LEMMA RegistersIs ==
    ASSUME NEW t, \/ HasW(t, "regW")
                  \/ Both(todo[t], WriterActs, "addW", "regW", call[t].ino, call[t].h)
    PROVE  Registers(t, call[t].ino)
BY DEF HasW, Only, Both, Is, Registers

LEMMA StepWriterStage ==
    ASSUME Control, WritersKept, NEW t \in Tasks, NEW s, NEW l, Stepped(t, s, l),
           NEW u \in Tasks
    PROVE  WriterStage(u)'
<1> DEFINE i == call[t].ino
           h == call[t].h
<1>1. /\ TablesTyped /\ CallsTyped /\ Owned /\ OneRegisters
      /\ WriterStage(t) /\ WriterStage(u) /\ WritersRegistered
  BY DEF Control, WritersKept
<1>2. WriterMove(t, l, i, h)
  BY <1>1, WriterMoves
<1>3. /\ \A v \in Tasks : v # t => call'[v] = call[v] /\ todo'[v] = todo[v]
      /\ todo'[t] = l
      /\ l # <<>> => call' = call
  BY <1>1, SteppedTasks
<1>4. ofw \in [Inodes -> Handles \cup {None}] /\ None \notin Handles /\ raced \subseteq raced'
  BY <1>1, FileCallsAssumption, RacedStays DEF TablesTyped
<1>5. Opening(t) \/ Releasing(t) => h \in Handles /\ of[h] = i /\ i \in Inodes
  <2>1. Opening(t) \/ Releasing(t) => call[t] \in CallRecords
    BY <1>1 DEF CallsTyped, Opening, Releasing
  <2> QED
    BY <1>1, <2>1 DEF Owned, CallRecords
<1>6. CASE u # t
  <2>1. call'[u] = call[u] /\ todo'[u] = todo[u]
    BY <1>3, <1>6
  <2>2. CASE wh' = wh /\ ofw' = ofw
    BY <1>1, <1>4, <2>1, <2>2 DEF WriterStage, HasW, Opening, OpeningW, Releasing
  <2>3. (Opening(t) \/ Releasing(t)) /\ (Opening(u) \/ Releasing(u)) => call[u].h # h
    BY <1>1, <1>6, OthersApart
  <2>4. CASE OpeningW(t) /\ wh' = wh \cup {h} /\ ofw' = ofw
    BY <1>1, <1>4, <2>1, <2>3, <2>4 DEF WriterStage, HasW, Opening, OpeningW, Releasing
  <2>5. CASE OpeningW(t) /\ wh' = wh /\ ofw' = [ofw EXCEPT ![i] = h]
             /\ (ofw[i] = None \/ i \in raced) /\ HasW(t, "regW")
    <3>1. ASSUME \/ HasW(u, "regW")
                 \/ Both(todo[u], WriterActs, "addW", "regW", call[u].ino, call[u].h),
                 ofw[call[u].ino] = None
          PROVE  ofw'[call[u].ino] = None \/ call[u].ino \in raced
      <4>1. Registers(u, call[u].ino) /\ Registers(t, i)
        BY <2>5, <3>1, RegistersIs
      <4>2. call[u].ino = i => i \in raced
        BY <1>1, <1>5, <1>6, <2>5, <4>1 DEF OneRegisters, OpeningW
      <4> QED
        BY <1>4, <2>5, <3>1, <4>2
    <3>2. Releasing(u) => call[u].h \in Handles
      BY <1>1 DEF Owned
    <3>3. Releasing(u) /\ ofw[call[u].ino] = call[u].h =>
              ofw'[call[u].ino] = call[u].h \/ call[u].ino \in raced
      BY <1>4, <2>5, <3>2
    <3> QED
      BY <1>1, <1>4, <2>1, <2>5, <3>1, <3>3 DEF WriterStage, HasW, Opening, OpeningW, Releasing
  <2>6. CASE Releasing(t) /\ wh' = wh \ {h} /\ ofw' = ofw
    BY <1>1, <1>4, <2>1, <2>3, <2>6 DEF WriterStage, HasW, Opening, OpeningW, Releasing
  <2>7. CASE Releasing(t) /\ wh' = wh /\ (ofw[i] = h \/ i \in raced) /\ ofw' = [ofw EXCEPT ![i] = None]
    <3>1. OpeningW(u) /\ ofw[call[u].ino] = None => ofw'[call[u].ino] = None
      BY <1>4, <2>7
    <3>2. Releasing(u) /\ ofw[call[u].ino] = call[u].h =>
              ofw'[call[u].ino] = call[u].h \/ call[u].ino \in raced
      BY <1>4, <2>3, <2>7
    <3> QED
      BY <1>1, <1>4, <2>1, <2>7, <3>1, <3>2 DEF WriterStage, HasW, Opening, OpeningW, Releasing
  <2> QED
    BY <1>2, <2>2, <2>4, <2>5, <2>6, <2>7 DEF WriterMove
<1>7. CASE u = t
  <2>1. todo'[t] = l /\ (l # <<>> => call'[t] = call[t])
    BY <1>3
  <2>2. CASE Quiet(l, WriterActs)
    BY <1>7, <2>1, <2>2 DEF WriterStage
  <2>3. ASSUME NEW a, Only(l, WriterActs, a, i, h) PROVE call'[t] = call[t]
    BY <2>1, <2>3, ListsEmpty
  <2>4. ASSUME Both(l, WriterActs, "addW", "regW", i, h) PROVE call'[t] = call[t]
    BY <2>1, <2>4, ListsEmpty
  <2>5. CASE /\ wh' = wh /\ ofw' = ofw
             /\ Quiet(todo[t], WriterActs) => Quiet(l, WriterActs)
             /\ \A a \in WriterActs :
                   Only(todo[t], WriterActs, a, i, h) => Only(l, WriterActs, a, i, h)
             /\ \A a, b \in WriterActs :
                   Both(todo[t], WriterActs, a, b, i, h) => Both(l, WriterActs, a, b, i, h)
    <3>1. ASSUME NEW a \in WriterActs, HasW(t, a)
          PROVE  Only(l, WriterActs, a, i, h) /\ call'[t] = call[t]
      BY <2>3, <2>5, <3>1 DEF HasW
    <3>2. ASSUME Both(todo[t], WriterActs, "addW", "regW", i, h)
          PROVE  Both(l, WriterActs, "addW", "regW", i, h) /\ call'[t] = call[t]
      <4>1. {"addW", "regW"} \subseteq WriterActs
        BY DEF WriterActs
      <4> QED
        BY <2>4, <2>5, <3>2, <4>1
    <3>3. {"checkW", "regW", "delW", "unregW"} \subseteq WriterActs
      BY DEF WriterActs
    <3>4. Quiet(todo[t], WriterActs) => Quiet(l, WriterActs)
      BY <2>5
    <3>5. CASE OpeningW(t) /\ h \notin wh /\ HasW(t, "checkW")
      BY <1>7, <2>1, <2>5, <3>1, <3>3, <3>5 DEF WriterStage, HasW, Opening, OpeningW
    <3>6. CASE OpeningW(t) /\ h \notin wh /\ (ofw[i] = None \/ i \in raced)
                 /\ Both(todo[t], WriterActs, "addW", "regW", i, h)
      BY <1>4, <1>7, <2>1, <2>5, <3>2, <3>6 DEF WriterStage, Opening, OpeningW
    <3>7. CASE OpeningW(t) /\ h \in wh /\ (ofw[i] = None \/ i \in raced) /\ HasW(t, "regW")
      BY <1>4, <1>7, <2>1, <2>5, <3>1, <3>3, <3>7 DEF WriterStage, HasW, Opening, OpeningW
    <3>8. CASE Releasing(t) /\ HasW(t, "delW")
      BY <1>7, <2>1, <2>5, <3>1, <3>3, <3>8 DEF WriterStage, HasW, Releasing
    <3>9. CASE Releasing(t) /\ h \notin wh /\ (ofw[i] = h \/ i \in raced) /\ HasW(t, "unregW")
      BY <1>4, <1>7, <2>1, <2>5, <3>1, <3>3, <3>9 DEF WriterStage, HasW, Releasing
    <3> QED
      BY <1>1, <2>2, <3>4, <3>5, <3>6, <3>7, <3>8, <3>9 DEF WriterStage
  <2>6. CASE /\ OpeningW(t) /\ h \notin wh /\ wh' = wh /\ ofw' = ofw /\ ofw[i] = None
             /\ Both(l, WriterActs, "addW", "regW", i, h)
    BY <1>7, <2>1, <2>4, <2>6 DEF WriterStage, Opening, OpeningW
  <2>7. CASE /\ OpeningW(t) /\ h \notin wh /\ wh' = wh \cup {h} /\ ofw' = ofw
             /\ ofw[i] = None \/ i \in raced
             /\ Only(l, WriterActs, "regW", i, h)
    BY <1>4, <1>7, <2>1, <2>3, <2>7 DEF WriterStage, HasW, Opening, OpeningW
  <2>8. CASE /\ Releasing(t) /\ h \in wh /\ wh' = wh \ {h} /\ ofw' = ofw
             /\ Only(l, WriterActs, "unregW", i, h)
    <3>1. ofw[i] = h \/ i \in raced
      <4>1. \A v \in Tasks : OpeningW(v) /\ call[v].h = h => FALSE
        BY <1>1, <2>8 DEF Owned, OpeningW, Opening, Releasing
      <4> QED
        BY <1>1, <1>5, <2>8, <4>1 DEF WritersRegistered
    <3> QED
      BY <1>4, <1>7, <2>1, <2>3, <2>8, <3>1 DEF WriterStage, HasW, Releasing
  <2> QED
    BY <1>2, <2>2, <2>5, <2>6, <2>7, <2>8 DEF WriterMove
<1> QED
  BY <1>6, <1>7

LEMMA StepWritersRegistered ==
    ASSUME Control, WritersKept, NEW t \in Tasks, NEW s, NEW l, Stepped(t, s, l)
    PROVE  WritersRegistered'
<1> DEFINE i == call[t].ino
           h == call[t].h
<1>1. TablesTyped /\ CallsTyped /\ Owned /\ WriterStage(t) /\ WritersRegistered
  BY DEF Control, WritersKept
<1>2. WriterMove(t, l, i, h)
  BY <1>1, WriterMoves
<1>3. /\ \A v \in Tasks : v # t => call'[v] = call[v] /\ todo'[v] = todo[v]
      /\ todo'[t] = l /\ (l # <<>> => call' = call)
      /\ of' = of /\ panic' = panic
  BY <1>1, SteppedTasks DEF Stepped
<1>4. ofw \in [Inodes -> Handles \cup {None}] /\ None \notin Handles /\ raced \subseteq raced'
  BY <1>1, FileCallsAssumption, RacedStays DEF TablesTyped
<1>5. Opening(t) \/ Releasing(t) => h \in Handles /\ of[h] = i /\ i \in Inodes
  <2>1. Opening(t) \/ Releasing(t) => call[t] \in CallRecords
    BY <1>1 DEF CallsTyped, Opening, Releasing
  <2> QED
    BY <1>1, <2>1 DEF Owned, CallRecords
<1>6. ~(Opening(t) /\ Releasing(t))
  BY DEF Opening, Releasing
<1> DEFINE OpensW(g) == \E u \in Tasks : OpeningW(u) /\ call[u].h = g /\ HasW(u, "regW")
           DropsW(g) == \E u \in Tasks : Releasing(u) /\ call[u].h = g /\ HasW(u, "unregW")
(* The witnesses among the other tasks stay. *)
<1>7. ASSUME NEW g, NEW u \in Tasks, u # t
      PROVE  /\ OpeningW(u) /\ call[u].h = g /\ HasW(u, "regW") =>
                  (OpeningW(u) /\ call[u].h = g /\ HasW(u, "regW"))'
             /\ Releasing(u) /\ call[u].h = g /\ HasW(u, "unregW") =>
                  (Releasing(u) /\ call[u].h = g /\ HasW(u, "unregW"))'
  BY <1>3, <1>7 DEF OpeningW, Opening, Releasing, HasW
(* So does t itself, with an instruction left to do. *)
<1>8. ASSUME NEW g, h = g
      PROVE  /\ OpeningW(t) /\ Only(l, WriterActs, "regW", i, h) =>
                  (OpeningW(t) /\ call[t].h = g /\ HasW(t, "regW"))'
             /\ Releasing(t) /\ Only(l, WriterActs, "unregW", i, h) =>
                  (Releasing(t) /\ call[t].h = g /\ HasW(t, "unregW"))'
  <2>1. ASSUME NEW a, Only(l, WriterActs, a, i, h) PROVE call'[t] = call[t]
    BY <1>3, <2>1, ListsEmpty
  <2> QED
    BY <1>3, <1>8, <2>1 DEF OpeningW, Opening, Releasing, HasW
<1>9. {"regW", "unregW"} \subseteq WriterActs
  BY DEF WriterActs
<1>10. ASSUME NEW g \in wh'
       PROVE  of'[g] # None /\ (ofw'[of'[g]] = g \/ of'[g] \in raced' \/ OpensW(g)')
  <2>1. CASE g \notin wh
    <3>1. OpeningW(t) /\ g = h /\ Only(l, WriterActs, "regW", i, h)
      BY <1>2, <2>1 DEF WriterMove
    <3> QED
      BY <1>3, <1>4, <1>5, <1>8, <3>1, FileCallsAssumption DEF OpeningW
  <2>2. CASE g \in wh
    <3>1. /\ of[g] # None /\ (ofw[of[g]] = g \/ of[g] \in raced \/ OpensW(g))
          /\ g \in Handles /\ of[g] \in Inodes
      BY <1>1, <2>2 DEF WritersRegistered, TablesTyped, CallsTyped
    <3>2. CASE ofw[of[g]] = g
      <4>1. ofw'[of[g]] = g \/ of[g] \in raced
        BY <1>2, <1>4, <2>2, <3>1, <3>2 DEF WriterMove
      <4> QED
        BY <1>3, <1>4, <3>1, <4>1
    <3>3. CASE OpensW(g)
      <4>1. PICK u \in Tasks : OpeningW(u) /\ call[u].h = g /\ HasW(u, "regW")
        BY <3>3
      <4>2. CASE u # t
        BY <1>3, <1>7, <3>1, <4>1, <4>2
      <4>3. CASE u = t
        <5>1. OpeningW(t) /\ g = h /\ h \in wh /\ Only(todo[t], WriterActs, "regW", i, h)
          BY <2>2, <4>1, <4>3 DEF HasW
        <5>2. CASE Only(l, WriterActs, "regW", i, h)
          BY <1>3, <1>8, <3>1, <5>1, <5>2
        <5>3. CASE ofw' = [ofw EXCEPT ![i] = h]
          BY <1>3, <1>4, <1>5, <3>1, <5>1, <5>3 DEF OpeningW
        <5> QED
          BY <1>2, <1>6, <1>9, <5>1, <5>2, <5>3 DEF WriterMove, OpeningW
      <4> QED
        BY <4>2, <4>3
    <3>4. CASE of[g] \in raced
      BY <1>3, <1>4, <3>1, <3>4
    <3> QED
      BY <3>1, <3>2, <3>3, <3>4
  <2> QED
    BY <2>1, <2>2
<1>11. ASSUME NEW j \in Inodes, ofw'[j] # None
       PROVE  of'[ofw'[j]] = j
              /\ (ofw'[j] \in wh' \/ panic' # {} \/ j \in raced' \/ DropsW(ofw[j])')
  <2>1. CASE ofw'[j] # ofw[j]
    <3>1. OpeningW(t) /\ j = i /\ ofw'[j] = h /\ h \in wh'
      BY <1>2, <1>4, <1>5, <1>11, <2>1 DEF WriterMove, OpeningW
    <3> QED
      BY <1>3, <1>5, <3>1 DEF OpeningW
  <2>2. CASE ofw'[j] = ofw[j]
    <3> DEFINE g == ofw[j]
    <3>1. g # None /\ of[g] = j /\ (g \in wh \/ panic # {} \/ j \in raced \/ DropsW(g))
      BY <1>1, <1>11, <2>2 DEF WritersRegistered
    <3>2. CASE g \in wh
      <4>1. g \in wh' \/ (Releasing(t) /\ g = h /\ Only(l, WriterActs, "unregW", i, h))
        BY <1>2, <3>2 DEF WriterMove
      <4> QED
        BY <1>3, <1>8, <2>2, <3>1, <4>1
    <3>3. CASE panic # {} \/ j \in raced
      BY <1>3, <1>4, <2>2, <3>1, <3>3
    <3>4. CASE DropsW(g)
      <4>1. PICK u \in Tasks : Releasing(u) /\ call[u].h = g /\ HasW(u, "unregW")
        BY <3>4
      <4>2. CASE u # t
        BY <1>3, <1>7, <2>2, <3>1, <4>1, <4>2
      <4>3. CASE u = t
        <5>1. Releasing(t) /\ g = h /\ HasW(t, "unregW")
              /\ Only(todo[t], WriterActs, "unregW", i, h) /\ j = i
          BY <1>5, <3>1, <4>1, <4>3 DEF HasW
        <5>2. CASE Only(l, WriterActs, "unregW", i, h)
          BY <1>3, <1>8, <2>2, <3>1, <5>1, <5>2
        <5>3. CASE ofw' = [ofw EXCEPT ![i] = None]
          BY <1>4, <1>11, <5>1, <5>3
        <5> QED
          BY <1>2, <1>6, <1>9, <5>1, <5>2, <5>3 DEF WriterMove, OpeningW
      <4> QED
        BY <4>2, <4>3
    <3> QED
      BY <3>1, <3>2, <3>3, <3>4
  <2> QED
    BY <2>1, <2>2
<1> QED
  BY <1>10, <1>11 DEF WritersRegistered

-----------------------------------------------------------------------------
(* The same for the readers. *)

ReaderMove(t, l, i, h) ==
    \/ /\ rh' = rh /\ ofr' = ofr
       /\ Quiet(todo[t], ReaderActs) => Quiet(l, ReaderActs)
       /\ \A a \in ReaderActs : Only(todo[t], ReaderActs, a, i, h) => Only(l, ReaderActs, a, i, h)
       /\ \A a, b \in ReaderActs :
             Both(todo[t], ReaderActs, a, b, i, h) => Both(l, ReaderActs, a, b, i, h)
    \/ /\ Opening(t) /\ h \notin rh \cup ofr /\ rh' = rh \cup {h} /\ ofr' = ofr
       /\ Only(l, ReaderActs, "regR", i, h)
    \/ /\ Opening(t) /\ h \in rh /\ rh' = rh /\ ofr' = ofr \cup {h}
       /\ Quiet(l, ReaderActs)
    \/ /\ Releasing(t) /\ h \notin rh /\ rh' = rh /\ ofr' = ofr /\ ~HasR(t, "unregR")
       /\ Quiet(l, ReaderActs)
    \/ /\ Releasing(t) /\ h \in rh /\ rh' = rh \ {h} /\ ofr' = ofr
       /\ Only(l, ReaderActs, "unregR", i, h)
    \/ /\ Releasing(t) /\ h \notin rh /\ rh' = rh /\ ofr' = ofr \ {h}
       /\ Quiet(l, ReaderActs)

LEMMA ReaderMoves ==
    ASSUME TablesTyped, CallsTyped, NEW t \in Tasks, NEW s, NEW l, Stepped(t, s, l),
           ReaderStage(t)
    PROVE  ReaderMove(t, l, call[t].ino, call[t].h)
<1> DEFINE i == call[t].ino
           h == call[t].h
           A == ReaderActs
<1>1. s \in Awaits /\ TablesAfter(s) /\ "free" \notin A
      /\ {"addR", "regR", "delR", "unregR"} \subseteq A
  BY DEF Stepped, ReaderActs
<1>2. CASE s.act \notin A
  <2>1. rh' = rh /\ ofr' = ofr
    BY <1>1, <1>2 DEF TablesAfter, ReaderActs
  <2>2. Quiet(Follow(s), A)
    <3>1. CASE s.act \notin {"checkW", "delW"} \cup Takers
      BY <1>1, <1>2, <3>1, FollowPlain, PlainQuiet DEF ReaderActs
    <3>2. CASE s.act = "checkW"
      BY <1>1, <3>2, FollowCheckW DEF Quiet
    <3>3. CASE s.act = "delW"
      BY <1>1, <3>3, FollowDelW DEF Quiet
    <3>4. CASE s.act \in Takers
      BY <1>1, <3>4, FollowTakers
    <3> QED
      BY <3>1, <3>2, <3>3, <3>4
  <2>3. /\ Quiet(todo[t], A) => Quiet(l, A)
        /\ \A a \in A : \A j, g : Only(todo[t], A, a, j, g) => Only(l, A, a, j, g)
        /\ \A a, b \in A : \A j, g : Both(todo[t], A, a, b, j, g) => Both(l, A, a, b, j, g)
    <3> HIDE DEF A
    <3> QED
      BY <1>1, <1>2, <2>2, SteppedQuiet, Zenon
  <2> QED
    BY <2>1, <2>3, Zenon DEF ReaderMove
<1>3. CASE s.act \in A
  <2>0. /\ todo[t] # <<>> /\ s = todo[t][1] /\ ~Quiet(todo[t], A)
    <3>1. todo[t] # <<>> /\ s = todo[t][1] /\ todo[t] \in Seq(Instructions)
      BY SteppedLists
    <3>2. 1 \in 1..Len(todo[t])
      <4> HIDE DEF Instructions
      <4> QED
        BY <3>1
    <3> QED
      BY <1>3, <3>1, <3>2 DEF Quiet
  <2>1. ASSUME NEW a \in A, Only(todo[t], A, a, i, h)
        PROVE  /\ s.act = a /\ s.ino = i /\ s.h = h
               /\ Quiet(Follow(s), A) => Quiet(l, A)
               /\ \A b \in A : Only(Follow(s), A, b, i, h) => Only(l, A, b, i, h)
    <3>1. /\ Is(s, a, i, h)
          /\ Quiet(Follow(s), A) => Quiet(l, A)
          /\ \A b \in A : Only(Follow(s), A, b, i, h) => Only(l, A, b, i, h)
      <4> HIDE DEF A, i, h
      <4> QED
        BY <1>1, <1>3, <2>1, SteppedOnly
    <3> QED
      BY <3>1 DEF Is
  <2>2. ASSUME s.act # "delR" PROVE Quiet(Follow(s), A)
    BY <1>1, <1>3, <2>2, FollowPlain, PlainQuiet DEF ReaderActs, Takers
  <2>3. CASE Opening(t) /\ h \notin rh \cup ofr /\ Both(todo[t], A, "addR", "regR", i, h)
    <3>1. s.act # "delR" => Is(s, "addR", i, h) /\ Only(l, A, "regR", i, h)
      <4> HIDE DEF A
      <4> QED
        BY <1>1, <1>3, <2>2, <2>3, SteppedBoth, Zenon
    <3>2. s.act = "addR"
      BY <1>3, <2>0, <2>3, BothHead
    <3>3. s.h = h /\ Only(l, A, "regR", i, h)
      BY <3>1, <3>2 DEF Is
    <3>4. rh' = rh \cup {h} /\ ofr' = ofr
      BY <1>1, <3>2, <3>3 DEF TablesAfter
    <3> QED
      BY <2>3, <3>3, <3>4 DEF ReaderMove
  <2>4. CASE Opening(t) /\ h \in rh /\ h \notin ofr /\ HasR(t, "regR")
    <3>1. Only(todo[t], A, "regR", i, h)
      BY <2>4 DEF HasR
    <3>2. s.act = "regR" /\ s.h = h /\ (Quiet(Follow(s), A) => Quiet(l, A))
      BY <1>1, <2>1, <3>1
    <3>3. rh' = rh /\ ofr' = ofr \cup {h}
      BY <1>1, <3>2 DEF TablesAfter
    <3> QED
      BY <2>2, <2>4, <3>2, <3>3 DEF ReaderMove
  <2>5. CASE Releasing(t) /\ HasR(t, "delR")
    <3>1. Only(todo[t], A, "delR", i, h)
      BY <2>5 DEF HasR
    <3>2. /\ s.act = "delR" /\ s.ino = i /\ s.h = h
          /\ Quiet(Follow(s), A) => Quiet(l, A)
          /\ \A b \in A : Only(Follow(s), A, b, i, h) => Only(l, A, b, i, h)
      BY <1>1, <2>1, <3>1
    <3>3. rh' = rh \ {h} /\ ofr' = ofr
      BY <1>1, <3>2 DEF TablesAfter
    <3>4. /\ h \notin rh => Quiet(Follow(s), A)
          /\ h \in rh => Only(Follow(s), A, "unregR", i, h)
      BY <1>1, <3>2, FollowDelR
    <3>5. ~HasR(t, "unregR")
      BY <1>1, <2>1, <3>2 DEF HasR
    <3>6. h \notin rh => rh' = rh
      BY <3>3
    <3> HIDE DEF A, i, h
    <3> QED
      BY <1>1, <2>5, <3>2, <3>3, <3>4, <3>5, <3>6 DEF ReaderMove, A, i, h
  <2>6. CASE Releasing(t) /\ h \notin rh /\ h \in ofr /\ HasR(t, "unregR")
    <3>1. Only(todo[t], A, "unregR", i, h)
      BY <2>6 DEF HasR
    <3>2. s.act = "unregR" /\ s.h = h /\ (Quiet(Follow(s), A) => Quiet(l, A))
      BY <1>1, <2>1, <3>1
    <3>3. rh' = rh /\ ofr' = ofr \ {h}
      BY <1>1, <3>2 DEF TablesAfter
    <3> QED
      BY <2>2, <2>6, <3>2, <3>3 DEF ReaderMove
  <2> QED
    BY <2>0, <2>3, <2>4, <2>5, <2>6 DEF ReaderStage
<1> QED
  BY <1>2, <1>3

LEMMA StepReaderStage ==
    ASSUME Control, ReadersKept, NEW t \in Tasks, NEW s, NEW l, Stepped(t, s, l),
           NEW u \in Tasks
    PROVE  ReaderStage(u)'
<1> DEFINE i == call[t].ino
           h == call[t].h
<1>1. /\ TablesTyped /\ CallsTyped /\ Owned
      /\ ReaderStage(t) /\ ReaderStage(u) /\ ReadersRegistered
  BY DEF Control, ReadersKept
<1>2. ReaderMove(t, l, i, h)
  BY <1>1, ReaderMoves
<1>3. /\ \A v \in Tasks : v # t => call'[v] = call[v] /\ todo'[v] = todo[v]
      /\ todo'[t] = l
      /\ l # <<>> => call' = call
  BY <1>1, SteppedTasks
<1>4. CASE u # t
  <2>1. call'[u] = call[u] /\ todo'[u] = todo[u]
    BY <1>3, <1>4
  <2>2. CASE rh' = rh /\ ofr' = ofr
    BY <1>1, <2>1, <2>2 DEF ReaderStage, HasR, Opening, Releasing
  <2>3. CASE Opening(t) \/ Releasing(t)
    <3>1. Opening(u) \/ Releasing(u) => call[u].h # h
      BY <1>1, <1>4, <2>3, OthersApart
    <3>2. \A g : g # h => (g \in rh' <=> g \in rh) /\ (g \in ofr' <=> g \in ofr)
      BY <1>2 DEF ReaderMove
    <3> QED
      BY <1>1, <2>1, <3>1, <3>2 DEF ReaderStage, HasR, Opening, Releasing
  <2> QED
    BY <1>2, <2>2, <2>3 DEF ReaderMove
<1>5. CASE u = t
  <2>1. todo'[t] = l /\ (l # <<>> => call'[t] = call[t])
    BY <1>3
  <2>2. CASE Quiet(l, ReaderActs)
    BY <1>5, <2>1, <2>2 DEF ReaderStage
  <2>3. ASSUME NEW a, Only(l, ReaderActs, a, i, h) PROVE call'[t] = call[t]
    BY <2>1, <2>3, ListsEmpty
  <2>4. ASSUME Both(l, ReaderActs, "addR", "regR", i, h) PROVE call'[t] = call[t]
    BY <2>1, <2>4, ListsEmpty
  <2>5. CASE /\ rh' = rh /\ ofr' = ofr
             /\ Quiet(todo[t], ReaderActs) => Quiet(l, ReaderActs)
             /\ \A a \in ReaderActs :
                   Only(todo[t], ReaderActs, a, i, h) => Only(l, ReaderActs, a, i, h)
             /\ \A a, b \in ReaderActs :
                   Both(todo[t], ReaderActs, a, b, i, h) => Both(l, ReaderActs, a, b, i, h)
    <3>1. ASSUME NEW a \in ReaderActs, HasR(t, a)
          PROVE  Only(l, ReaderActs, a, i, h) /\ call'[t] = call[t]
      BY <2>3, <2>5, <3>1 DEF HasR
    <3>2. ASSUME Both(todo[t], ReaderActs, "addR", "regR", i, h)
          PROVE  Both(l, ReaderActs, "addR", "regR", i, h) /\ call'[t] = call[t]
      <4>1. {"addR", "regR"} \subseteq ReaderActs
        BY DEF ReaderActs
      <4> QED
        BY <2>4, <2>5, <3>2, <4>1
    <3>3. {"regR", "delR", "unregR"} \subseteq ReaderActs
      BY DEF ReaderActs
    <3>4. Quiet(todo[t], ReaderActs) => Quiet(l, ReaderActs)
      BY <2>5
    <3>5. CASE Opening(t) /\ h \notin rh \cup ofr
                 /\ Both(todo[t], ReaderActs, "addR", "regR", i, h)
      BY <1>5, <2>1, <2>5, <3>2, <3>5 DEF ReaderStage, Opening
    <3>6. CASE Opening(t) /\ h \in rh /\ h \notin ofr /\ HasR(t, "regR")
      BY <1>5, <2>1, <2>5, <3>1, <3>3, <3>6 DEF ReaderStage, HasR, Opening
    <3>7. CASE Releasing(t) /\ HasR(t, "delR")
      BY <1>5, <2>1, <2>5, <3>1, <3>3, <3>7 DEF ReaderStage, HasR, Releasing
    <3>8. CASE Releasing(t) /\ h \notin rh /\ h \in ofr /\ HasR(t, "unregR")
      BY <1>5, <2>1, <2>5, <3>1, <3>3, <3>8 DEF ReaderStage, HasR, Releasing
    <3> QED
      BY <1>1, <2>2, <3>4, <3>5, <3>6, <3>7, <3>8 DEF ReaderStage
  <2>6. CASE /\ Opening(t) /\ h \notin rh \cup ofr /\ rh' = rh \cup {h} /\ ofr' = ofr
             /\ Only(l, ReaderActs, "regR", i, h)
    BY <1>5, <2>1, <2>3, <2>6 DEF ReaderStage, HasR, Opening
  <2>7. CASE /\ Releasing(t) /\ h \in rh /\ rh' = rh \ {h} /\ ofr' = ofr
             /\ Only(l, ReaderActs, "unregR", i, h)
    <3>1. h \in ofr
      <4>1. \A v \in Tasks : Opening(v) /\ call[v].h = h => FALSE
        BY <1>1, <2>7 DEF Owned, Opening, Releasing
      <4> QED
        BY <1>1, <2>7, <4>1 DEF ReadersRegistered
    <3> QED
      BY <1>5, <2>1, <2>3, <2>7, <3>1 DEF ReaderStage, HasR, Releasing
  <2> QED
    BY <1>2, <2>2, <2>5, <2>6, <2>7 DEF ReaderMove
<1> QED
  BY <1>4, <1>5

LEMMA StepReadersRegistered ==
    ASSUME Control, ReadersKept, NEW t \in Tasks, NEW s, NEW l, Stepped(t, s, l)
    PROVE  ReadersRegistered'
<1> DEFINE i == call[t].ino
           h == call[t].h
<1>1. TablesTyped /\ CallsTyped /\ Owned /\ ReaderStage(t) /\ ReadersRegistered
  BY DEF Control, ReadersKept
<1>2. ReaderMove(t, l, i, h)
  BY <1>1, ReaderMoves
<1>3. /\ \A v \in Tasks : v # t => call'[v] = call[v] /\ todo'[v] = todo[v]
      /\ todo'[t] = l /\ (l # <<>> => call' = call)
      /\ of' = of /\ panic' = panic
  BY <1>1, SteppedTasks DEF Stepped
<1>5. Opening(t) \/ Releasing(t) => of[h] # None
  <2>1. Opening(t) \/ Releasing(t) => call[t] \in CallRecords
    BY <1>1 DEF CallsTyped, Opening, Releasing
  <2> QED
    BY <1>1, <2>1, FileCallsAssumption DEF Owned, CallRecords
<1>6. ~(Opening(t) /\ Releasing(t))
  BY DEF Opening, Releasing
<1> DEFINE OpensR(g) == \E u \in Tasks : Opening(u) /\ call[u].h = g /\ HasR(u, "regR")
           DropsR(g) == \E u \in Tasks : Releasing(u) /\ call[u].h = g /\ HasR(u, "unregR")
<1>7. ASSUME NEW g, NEW u \in Tasks, u # t
      PROVE  /\ Opening(u) /\ call[u].h = g /\ HasR(u, "regR") =>
                  (Opening(u) /\ call[u].h = g /\ HasR(u, "regR"))'
             /\ Releasing(u) /\ call[u].h = g /\ HasR(u, "unregR") =>
                  (Releasing(u) /\ call[u].h = g /\ HasR(u, "unregR"))'
  BY <1>3, <1>7 DEF Opening, Releasing, HasR
<1>8. ASSUME NEW g, h = g
      PROVE  /\ Opening(t) /\ Only(l, ReaderActs, "regR", i, h) =>
                  (Opening(t) /\ call[t].h = g /\ HasR(t, "regR"))'
             /\ Releasing(t) /\ Only(l, ReaderActs, "unregR", i, h) =>
                  (Releasing(t) /\ call[t].h = g /\ HasR(t, "unregR"))'
  <2>1. ASSUME NEW a, Only(l, ReaderActs, a, i, h) PROVE call'[t] = call[t]
    BY <1>3, <2>1, ListsEmpty
  <2> QED
    BY <1>3, <1>8, <2>1 DEF Opening, Releasing, HasR
<1>9. {"regR", "unregR"} \subseteq ReaderActs
  BY DEF ReaderActs
<1>10. ASSUME NEW g \in rh'
       PROVE  of'[g] # None /\ (g \in ofr' \/ OpensR(g)')
  <2>1. CASE g \notin rh
    <3>1. Opening(t) /\ g = h /\ Only(l, ReaderActs, "regR", i, h)
      BY <1>2, <2>1 DEF ReaderMove
    <3> QED
      BY <1>3, <1>5, <1>8, <3>1
  <2>2. CASE g \in rh
    <3>1. of[g] # None /\ (g \in ofr \/ OpensR(g))
      BY <1>1, <2>2 DEF ReadersRegistered
    <3>2. CASE g \in ofr
      BY <1>2, <1>3, <2>2, <3>1, <3>2 DEF ReaderMove
    <3>3. CASE OpensR(g)
      <4>1. PICK u \in Tasks : Opening(u) /\ call[u].h = g /\ HasR(u, "regR")
        BY <3>3
      <4>2. CASE u # t
        BY <1>3, <1>7, <3>1, <4>1, <4>2
      <4>3. CASE u = t
        <5>1. Opening(t) /\ g = h /\ h \in rh /\ Only(todo[t], ReaderActs, "regR", i, h)
          BY <2>2, <4>1, <4>3 DEF HasR
        <5>2. CASE Only(l, ReaderActs, "regR", i, h)
          BY <1>3, <1>8, <3>1, <5>1, <5>2
        <5>3. CASE ofr' = ofr \cup {h}
          BY <1>3, <3>1, <5>1, <5>3
        <5> QED
          BY <1>2, <1>6, <1>9, <5>1, <5>2, <5>3 DEF ReaderMove
      <4> QED
        BY <4>2, <4>3
    <3> QED
      BY <3>1, <3>2, <3>3
  <2> QED
    BY <2>1, <2>2
<1>11. ASSUME NEW g \in ofr'
       PROVE  of'[g] # None /\ (g \in rh' \/ panic' # {} \/ DropsR(g)')
  <2>1. CASE g \notin ofr
    <3>1. Opening(t) /\ g = h /\ h \in rh'
      BY <1>2, <2>1 DEF ReaderMove
    <3> QED
      BY <1>3, <1>5, <3>1
  <2>2. CASE g \in ofr
    <3>1. of[g] # None /\ (g \in rh \/ panic # {} \/ DropsR(g))
      BY <1>1, <2>2 DEF ReadersRegistered
    <3>2. CASE g \in rh
      <4>1. g \in rh' \/ (Releasing(t) /\ g = h /\ Only(l, ReaderActs, "unregR", i, h))
        BY <1>2, <3>2 DEF ReaderMove
      <4> QED
        BY <1>3, <1>8, <3>1, <4>1
    <3>3. CASE panic # {}
      BY <1>3, <3>1, <3>3
    <3>4. CASE DropsR(g)
      <4>1. PICK u \in Tasks : Releasing(u) /\ call[u].h = g /\ HasR(u, "unregR")
        BY <3>4
      <4>2. CASE u # t
        BY <1>3, <1>7, <3>1, <4>1, <4>2
      <4>3. CASE u = t
        <5>1. Releasing(t) /\ g = h /\ HasR(t, "unregR")
              /\ Only(todo[t], ReaderActs, "unregR", i, h)
          BY <4>1, <4>3 DEF HasR
        <5>2. CASE Only(l, ReaderActs, "unregR", i, h)
          BY <1>3, <1>8, <3>1, <5>1, <5>2
        <5>3. CASE ofr' = ofr \ {h}
          BY <5>1, <5>3
        <5> QED
          BY <1>2, <1>6, <1>9, <5>1, <5>2, <5>3 DEF ReaderMove
      <4> QED
        BY <4>2, <4>3
    <3> QED
      BY <3>1, <3>2, <3>3, <3>4
  <2> QED
    BY <2>1, <2>2
<1> QED
  BY <1>10, <1>11 DEF ReadersRegistered

-----------------------------------------------------------------------------
(* The rest of the invariant, when a task runs on. *)

LEMMA CallIs ==
    ASSUME CallsTyped, Owned, NEW t \in Tasks, Opening(t) \/ Releasing(t)
    PROVE  /\ call[t] \in CallRecords /\ call[t].h \in Handles /\ call[t].h \notin open
           /\ call[t].ino \in Inodes /\ of[call[t].h] = call[t].ino /\ of[call[t].h] # None
<1>1. call[t] \in CallRecords
  BY DEF CallsTyped, Opening, Releasing
<1>2. call[t].ino \in Inodes /\ None \notin Inodes
  BY <1>1, FileCallsAssumption DEF CallRecords
<1> QED
  BY <1>1, <1>2 DEF Owned

LEMMA StepTablesTyped ==
    ASSUME Control, WritersKept, ReadersKept, NEW t \in Tasks, NEW s, NEW l, Stepped(t, s, l)
    PROVE  TablesTyped'
<1> DEFINE i == call[t].ino
           h == call[t].h
<1>1. TablesTyped /\ CallsTyped /\ Owned /\ WriterStage(t) /\ ReaderStage(t)
  BY DEF Control, WritersKept, ReadersKept
<1>2. WriterMove(t, l, i, h) /\ ReaderMove(t, l, i, h)
  BY <1>1, WriterMoves, ReaderMoves
<1>3. OpeningW(t) => Opening(t)
  BY DEF OpeningW
<1>4. Opening(t) \/ Releasing(t) => h \in Handles /\ i \in Inodes
  BY <1>1, CallIs
<1>5. rh' \subseteq Handles /\ ofr' \subseteq Handles
  BY <1>1, <1>2, <1>4 DEF ReaderMove, TablesTyped
<1>6. wh' \subseteq Handles
  BY <1>1, <1>2, <1>3, <1>4 DEF WriterMove, TablesTyped
<1>7. ofw' \in [Inodes -> Handles \cup {None}]
  BY <1>1, <1>2, <1>3, <1>4 DEF WriterMove, TablesTyped
<1> QED
  BY <1>5, <1>6, <1>7 DEF TablesTyped

LEMMA StepCallsTyped ==
    ASSUME Control, NEW t \in Tasks, NEW s, NEW l, Stepped(t, s, l)
    PROVE  CallsTyped' /\ Owned'
<1>1. TablesTyped /\ CallsTyped /\ Owned
  BY DEF Control
<1>2. l \in Seq(Instructions) /\ (l # <<>> => l[1].act # "free")
  BY <1>1, SteppedLists
<1>3. /\ \A v \in Tasks : v # t => call'[v] = call[v] /\ todo'[v] = todo[v]
      /\ todo'[t] = l
      /\ l # <<>> => call' = call /\ open' = open
      /\ l = <<>> => call'[t] = None
  BY <1>1, SteppedTasks
<1>4. /\ of' = of /\ todo' = [todo EXCEPT ![t] = l] /\ call[t] # None
      /\ call' = call \/ call' = [call EXCEPT ![t] = None]
      /\ open' = open \/ (Opening(t) /\ l = <<>> /\ open' = open \cup {call[t].h})
  BY DEF Stepped, Returns, Opening
<1>5. Opening(t) => call[t].h \in Handles /\ of[call[t].h] # None
  BY <1>1, CallIs
<1>6. open' \subseteq Handles /\ \A h \in open' : of'[h] # None
  BY <1>1, <1>4, <1>5 DEF CallsTyped, Owned
<1>7. call' \in [Tasks -> CallRecords \cup {None}] /\ todo' \in [Tasks -> Seq(Instructions)]
  <2> HIDE DEF Instructions
  <2> QED
    BY <1>1, <1>2, <1>4 DEF CallsTyped
<1>8. \A u \in Tasks : call'[u] # None => call'[u] = call[u] /\ (u = t => l # <<>>)
  BY <1>3
<1>9. CallsTyped'
  <2>1. ASSUME NEW u \in Tasks
        PROVE  (call'[u] = None <=> todo'[u] = <<>>) /\ (todo'[u] # <<>> => todo'[u][1].act # "free")
    <3>1. CASE u = t
      BY <1>2, <1>3, <1>4, <3>1
    <3>2. CASE u # t
      BY <1>1, <1>3, <3>2 DEF CallsTyped
    <3> QED
      BY <3>1, <3>2
  <2>2. of' \in [Handles -> Inodes \cup {None}]
    BY <1>1, <1>4 DEF CallsTyped
  <2> QED
    BY <1>6, <1>7, <2>1, <2>2 DEF CallsTyped
<1>10. Owned'
  <2>1. \A u \in Tasks : (Opening(u) \/ Releasing(u))' =>
            call'[u] = call[u] /\ (Opening(u) \/ Releasing(u))
    BY <1>8 DEF Opening, Releasing
  <2>2. ASSUME NEW u \in Tasks, (Opening(u) \/ Releasing(u))'
        PROVE  call'[u].h \in Handles \ open' /\ of'[call'[u].h] = call'[u].ino
    <3>1. call'[u] = call[u] /\ (Opening(u) \/ Releasing(u)) /\ call'[u] # None
      BY <2>1, <2>2 DEF Opening, Releasing
    <3>2. call[u].h \in Handles \ open /\ of[call[u].h] = call[u].ino
      BY <1>1, <3>1 DEF Owned
    <3>3. Opening(t) /\ u # t => call[u].h # call[t].h
      BY <1>1, <3>1, OthersApart
    <3>4. call[u].h \notin open'
      BY <1>4, <1>8, <3>1, <3>2, <3>3
    <3> QED
      BY <1>4, <3>1, <3>2, <3>4
  <2>3. ASSUME NEW u \in Tasks, NEW v \in Tasks, (Opening(u) \/ Releasing(u))',
               (Opening(v) \/ Releasing(v))', call'[u].h = call'[v].h
        PROVE  u = v
    BY <1>1, <2>1, <2>3 DEF Owned
  <2> QED
    BY <1>6, <2>2, <2>3 DEF Owned, Opening, Releasing
<1> QED
  BY <1>9, <1>10

(* Where the instructions of a list go, and where they come from. *)
LEMMA StepIndexes ==
    ASSUME NEW X, NEW q \in Seq(X), q # <<>>, NEW f \in Seq(X)
    PROVE  LET l == Left(f \o Tail(q))
               k == Frees(f \o Tail(q))
               d == Len(f) - 1
           IN  /\ k \in Nat /\ d \in Int /\ Len(q) \in Nat /\ Len(f) \in Nat /\ Len(l) \in Nat
               /\ \A n \in 2..Len(q) : q[n].act # "free" =>
                      (n + d) - k \in 1..Len(l) /\ l[(n + d) - k] = q[n]
               /\ \A n \in 1..Len(f) : f[n].act # "free" =>
                      n - k \in 1..Len(l) /\ l[n - k] = f[n]
               /\ \A n \in 1..Len(l) :
                      \/ n + k \in 1..Len(f) /\ l[n] = f[n + k]
                      \/ (n + k) - d \in 2..Len(q) /\ l[n] = q[(n + k) - d]
<1> DEFINE ins == f \o Tail(q)
           d == Len(f) - 1
           k == Frees(ins)
           l == Left(ins)
<1>1. /\ ins \in Seq(X) /\ Len(ins) = Len(q) + d /\ Len(q) \in Nat /\ Len(f) \in Nat /\ Len(q) >= 1
      /\ \A n \in 1..Len(f) : ins[n] = f[n]
      /\ \A n \in 2..Len(q) : ins[n + d] = q[n]
      /\ \A n \in (Len(f) + 1)..Len(ins) : ins[n] = q[n - d]
      /\ d \in Int /\ d + 1 = Len(f) /\ Len(ins) \in Nat
  BY InsteadIs
<1> HIDE DEF ins, d
<1>2. /\ l \in Seq(X) /\ k \in 0..Len(ins) /\ Len(l) = Len(ins) - k
      /\ \A n \in 1..Len(l) : l[n] = ins[n + k]
      /\ \A n \in 1..k : ins[n].act = "free"
  BY <1>1, LeftIs
<1>3. Len(l) \in Nat
  <2> HIDE DEF l
  <2> QED
    BY <1>2
<1> HIDE DEF k, l
<1>4. ASSUME NEW n \in 1..Len(ins), ins[n].act # "free"
      PROVE  n - k \in 1..Len(l) /\ l[n - k] = ins[n]
  <2>1. n > k /\ n - k \in 1..Len(l) /\ (n - k) + k = n
    BY <1>1, <1>2, <1>4
  <2> QED
    BY <1>2, <2>1
<1>5. ASSUME NEW n \in 2..Len(q), q[n].act # "free"
      PROVE  (n + d) - k \in 1..Len(l) /\ l[(n + d) - k] = q[n]
  <2> DEFINE m == n + d
  <2>1. m \in 1..Len(ins) /\ ins[m] = q[n]
    BY <1>1
  <2> HIDE DEF m
  <2>2. m - k \in 1..Len(l) /\ l[m - k] = q[n]
    BY <1>4, <1>5, <2>1
  <2>3. m - k = (n + d) - k
    BY DEF m
  <2> QED
    BY ONLY <2>2, <2>3, Zenon
<1>6. ASSUME NEW n \in 1..Len(f), f[n].act # "free"
      PROVE  n - k \in 1..Len(l) /\ l[n - k] = f[n]
  <2>1. n \in 1..Len(ins) /\ ins[n] = f[n]
    BY <1>1
  <2> QED
    BY <1>4, <1>6, <2>1
<1>7. ASSUME NEW n \in 1..Len(l)
      PROVE  \/ n + k \in 1..Len(f) /\ l[n] = f[n + k]
             \/ (n + k) - d \in 2..Len(q) /\ l[n] = q[(n + k) - d]
  <2> DEFINE m == n + k
  <2>1. m \in 1..Len(ins) /\ l[n] = ins[m]
    BY <1>1, <1>2, <1>3
  <2> HIDE DEF m
  <2>2. CASE m <= Len(f)
    <3>1. m \in 1..Len(f)
      BY <1>1, <2>1, <2>2
    <3> QED
      BY <1>1, <2>1, <3>1 DEF m
  <2>3. CASE m > Len(f)
    <3>1. m \in (Len(f) + 1)..Len(ins) /\ m - d \in 2..Len(q)
      BY <1>1, <2>1, <2>3
    <3>2. l[n] = q[m - d]
      BY <1>1, <2>1, <3>1
    <3>3. m - d = (n + k) - d
      BY DEF m
    <3> QED
      BY ONLY <3>1, <3>2, <3>3, Zenon
  <2> QED
    BY <1>1, <2>1, <2>2, <2>3
<1>8. k \in Nat
  BY <1>1, <1>2
<1> QED
  BY <1>1, <1>3, <1>5, <1>6, <1>7, <1>8 DEF ins, d, k, l

(* Every instruction of l is one of f or q; all of q that await a lock are *)
(* in l, but for the first; all of f are.                                  *)
MadeOf(l, f, q) ==
    \A n \in 1..Len(l) : (\E m \in 1..Len(f) : l[n] = f[m]) \/ (\E m \in 1..Len(q) : l[n] = q[m])
KeptIn(q, l) ==
    \A n \in 1..Len(q) : n # 1 /\ q[n].act # "free" => \E m \in 1..Len(l) : l[m] = q[n]
AllIn(f, l) ==
    \A n \in 1..Len(f) : f[n].act # "free" => \E m \in 1..Len(l) : l[m] = f[n]

LEMMA StepContents ==
    ASSUME NEW X, NEW q \in Seq(X), q # <<>>, NEW f \in Seq(X), NEW l, l = Left(f \o Tail(q))
    PROVE  /\ MadeOf(l, f, q) /\ KeptIn(q, l) /\ AllIn(f, l)
           /\ TakesFit(q) /\ TakesFit(f) => TakesFit(l)
<1> DEFINE k == Frees(f \o Tail(q))
           d == Len(f) - 1
<1>1. /\ k \in Nat /\ d \in Int /\ Len(q) \in Nat /\ Len(f) \in Nat /\ Len(l) \in Nat
      /\ \A n \in 2..Len(q) : q[n].act # "free" =>
             (n + d) - k \in 1..Len(l) /\ l[(n + d) - k] = q[n]
      /\ \A n \in 1..Len(f) : f[n].act # "free" =>
             n - k \in 1..Len(l) /\ l[n - k] = f[n]
      /\ \A n \in 1..Len(l) :
             \/ n + k \in 1..Len(f) /\ l[n] = f[n + k]
             \/ (n + k) - d \in 2..Len(q) /\ l[n] = q[(n + k) - d]
  <2> DEFINE x == Left(f \o Tail(q))
  <2>1. /\ k \in Nat /\ d \in Int /\ Len(q) \in Nat /\ Len(f) \in Nat /\ Len(x) \in Nat
        /\ \A n \in 2..Len(q) : q[n].act # "free" =>
               (n + d) - k \in 1..Len(x) /\ x[(n + d) - k] = q[n]
        /\ \A n \in 1..Len(f) : f[n].act # "free" =>
               n - k \in 1..Len(x) /\ x[n - k] = f[n]
        /\ \A n \in 1..Len(x) :
               \/ n + k \in 1..Len(f) /\ x[n] = f[n + k]
               \/ (n + k) - d \in 2..Len(q) /\ x[n] = q[(n + k) - d]
    BY StepIndexes
  <2>2. x = l
    OBVIOUS
  <2> HIDE DEF x, k, d
  <2> QED
    BY ONLY <2>1, <2>2, Zenon
<1> HIDE DEF k, d
<1>2. ASSUME NEW n \in 1..Len(l)
      PROVE  \/ \E m \in 1..Len(f) : l[n] = f[m]
             \/ \E m \in 1..Len(q) : l[n] = q[m]
  <2>1. \A m \in 2..Len(q) : m \in 1..Len(q)
    BY <1>1
  <2> QED
    BY <1>1, <2>1
<1>3. ASSUME NEW n \in 1..Len(q), n # 1, q[n].act # "free" PROVE \E m \in 1..Len(l) : l[m] = q[n]
  <2>1. n \in 2..Len(q)
    BY <1>1, <1>3
  <2> QED
    BY <1>1, <1>3, <2>1
<1>4. ASSUME NEW n \in 1..Len(f), f[n].act # "free" PROVE \E m \in 1..Len(l) : l[m] = f[n]
  BY <1>1, <1>4
<1>5. ASSUME TakesFit(q), TakesFit(f), NEW n \in 1..Len(l), l[n].act \in {"take", "finishW"}
      PROVE  \E m \in 1..Len(l) : m > n /\ l[m].act \in {"restore", "giveBack"} /\ l[m].h = l[n].h
  <2>1. CASE n + k \in 1..Len(f) /\ l[n] = f[n + k]
    <3> DEFINE a == n + k
    <3>1. a \in 1..Len(f) /\ f[a].act \in {"take", "finishW"} /\ l[n] = f[a]
      BY <1>5, <2>1
    <3>2. a - k = n
      BY <1>1
    <3> HIDE DEF a
    <3>3. PICK b \in 1..Len(f) : b > a /\ f[b].act \in {"restore", "giveBack"} /\ f[b].h = f[a].h
      BY <1>5, <3>1 DEF TakesFit
    <3>4. b - k \in 1..Len(l) /\ l[b - k] = f[b]
      BY <1>1, <3>3
    <3>5. b - k > n
      BY ONLY <1>1, <3>1, <3>2, <3>3, b \in 1..Len(f)
    <3> QED
      BY <3>1, <3>3, <3>4, <3>5
  <2>2. CASE (n + k) - d \in 2..Len(q) /\ l[n] = q[(n + k) - d]
    <3> DEFINE a == (n + k) - d
    <3>1. a \in 2..Len(q) /\ q[a].act \in {"take", "finishW"} /\ l[n] = q[a]
      BY <1>5, <2>2
    <3>2. (a + d) - k = n
      BY <1>1
    <3> HIDE DEF a
    <3>3. PICK b \in 1..Len(q) : b > a /\ q[b].act \in {"restore", "giveBack"} /\ q[b].h = q[a].h
      BY <1>1, <1>5, <3>1 DEF TakesFit
    <3>4. b \in 2..Len(q)
      BY <1>1, <3>1, <3>3
    <3>5. (b + d) - k \in 1..Len(l) /\ l[(b + d) - k] = q[b]
      BY <1>1, <3>3, <3>4
    <3>6. (b + d) - k > n
      BY ONLY <1>1, <3>1, <3>2, <3>3, <3>4
    <3> DEFINE c == (b + d) - k
    <3>7. c \in 1..Len(l) /\ l[c] = q[b] /\ c > n
      BY <3>5, <3>6
    <3> HIDE DEF c
    <3> QED
      BY <3>1, <3>3, <3>7
  <2> QED
    BY <1>1, <2>1, <2>2
<1>6. TakesFit(q) /\ TakesFit(f) => TakesFit(l)
  BY <1>5 DEF TakesFit
<1> QED
  BY <1>2, <1>3, <1>4, <1>6 DEF MadeOf, KeptIn, AllIn

LEMMA StepOpensCalm ==
    ASSUME Control, NEW t \in Tasks, NEW s, NEW l, Stepped(t, s, l)
    PROVE  OpensCalm'
<1>1. TablesTyped /\ CallsTyped /\ OpensCalm
  BY DEF Control
<1>2. /\ \A v \in Tasks : v # t => call'[v] = call[v] /\ todo'[v] = todo[v]
      /\ todo'[t] = l
      /\ l # <<>> => call' = call
      /\ l = <<>> => call'[t] = None
  BY <1>1, SteppedTasks
<1> SUFFICES ASSUME NEW u \in Tasks, Opening(u)'
             PROVE  \A n \in 1..Len(todo'[u]) : todo'[u][n].act \in OpenActs \cup {"free"}
  BY DEF OpensCalm
<1>3. CASE u # t
  BY <1>1, <1>2, <1>3 DEF OpensCalm, Opening
<1>4. CASE u = t
  <2> DEFINE q == todo[t]
             f == Follow(s)
  <2>1. Opening(t)
    BY <1>2, <1>4 DEF Opening
  <2>2. \A n \in 1..Len(q) : q[n].act \in OpenActs \cup {"free"}
    BY <1>1, <2>1 DEF OpensCalm
  <2>3. /\ q \in Seq(Instructions) /\ q # <<>> /\ f \in Seq(Instructions)
        /\ s = q[1] /\ s \in Awaits /\ l = Left(f \o Tail(q))
    BY <1>1, SteppedLists DEF Stepped
  <2>4. s.act \in OpenActs
    <3>1. s.act # "free"
      BY <2>3 DEF Awaits, Acts, WriterActs, ReaderActs, OpenActs
    <3>2. 1 \in 1..Len(q)
      <4> HIDE DEF q, f, Instructions
      <4> QED
        BY <2>3
    <3> QED
      BY <2>2, <2>3, <3>1, <3>2
  <2>5. \A n \in 1..Len(f) : f[n].act \in OpenActs \cup {"free"}
    BY <1>1, <2>3, <2>4, FollowCalm
  <2> HIDE DEF q, f, Instructions
  <2>6. q \in Seq(Instructions) /\ q # <<>> /\ f \in Seq(Instructions) /\ l = Left(f \o Tail(q))
    BY <2>3
  <2>7. MadeOf(l, f, q)
    BY ONLY <2>6, StepContents, Zenon
  <2>8. ASSUME NEW n \in 1..Len(l) PROVE l[n].act \in OpenActs \cup {"free"}
    BY ONLY <2>2, <2>5, <2>7, n \in 1..Len(l), Zenon DEF MadeOf
  <2> QED
    BY <1>2, <1>4, <2>8
<1> QED
  BY <1>3, <1>4

(* Only open's lookup leads to a registration. *)
LEMMA FollowRegisters ==
    ASSUME TablesTyped, NEW s \in Awaits, NEW m \in 1..Len(Follow(s)), Follow(s)[m].act = "regW"
    PROVE  s.act = "checkW" /\ ofw[s.ino] = None /\ Follow(s)[m].ino = s.ino
<1> DEFINE f == Follow(s)
<1>1. ~Quiet(f, WriterActs)
  BY DEF Quiet, WriterActs
<1>2. CASE s.act \notin {"checkW", "delR", "delW"} \cup Takers
  BY <1>1, <1>2, FollowPlain, PlainQuiet
<1>3. CASE s.act \in Takers
  BY <1>1, <1>3, FollowTakers
<1>4. CASE s.act = "delR"
  BY <1>1, <1>4, FollowDelR DEF Quiet
<1>5. CASE s.act = "delW"
  <2>1. Only(f, WriterActs, "unregW", s.ino, s.h)
    BY <1>1, <1>5, FollowDelW
  <2> HIDE DEF f
  <2>2. \A n \in 1..Len(f) : f[n].act \in WriterActs => f[n].act = "unregW"
    BY <2>1 DEF Only, Is
  <2> QED
    BY <2>2 DEF WriterActs, f
<1>6. CASE s.act = "checkW"
  <2>1. ofw[s.ino] = None /\ Both(f, WriterActs, "addW", "regW", s.ino, s.h)
    BY <1>1, <1>6, FollowCheckW
  <2> HIDE DEF f
  <2>2. \A n \in 1..Len(f) : f[n].act \in WriterActs => f[n].ino = s.ino
    BY <2>1 DEF Both, Is
  <2> QED
    BY <1>6, <2>1, <2>2 DEF WriterActs, f
<1> QED
  BY <1>2, <1>3, <1>4, <1>5, <1>6

LEMMA StepOneRegisters ==
    ASSUME Control, NEW t \in Tasks, NEW s, NEW l, Stepped(t, s, l)
    PROVE  OneRegisters'
<1> DEFINE q == todo[t]
           f == Follow(s)
<1>1. TablesTyped /\ CallsTyped /\ OneRegisters
  BY DEF Control
<1>2. (\A v \in Tasks : v # t => todo'[v] = todo[v]) /\ todo'[t] = l /\ raced \subseteq raced'
  BY <1>1, SteppedTasks, RacedStays
<1>3. /\ q \in Seq(Instructions) /\ q # <<>> /\ f \in Seq(Instructions)
      /\ s \in Awaits /\ l = Left(f \o Tail(q)) /\ TablesAfter(s)
  BY <1>1, SteppedLists DEF Stepped
<1>4. MadeOf(l, f, q)
  <2> HIDE DEF q, f, Instructions
  <2>1. q \in Seq(Instructions) /\ q # <<>> /\ f \in Seq(Instructions) /\ l = Left(f \o Tail(q))
    BY <1>3
  <2> QED
    BY ONLY <2>1, StepContents, Zenon
<1>5. ASSUME NEW i \in Inodes, Registers(t, i)'
      PROVE  Registers(t, i) \/ (s.act = "checkW" /\ s.ino = i /\ ofw[i] = None)
  <2>1. PICK n \in 1..Len(l) : l[n].act = "regW" /\ l[n].ino = i
    BY <1>2, <1>5 DEF Registers
  <2>2. CASE \E m \in 1..Len(q) : l[n] = q[m]
    BY <2>1, <2>2 DEF Registers
  <2>3. CASE \E m \in 1..Len(f) : l[n] = f[m]
    BY <1>1, <1>3, <2>1, <2>3, FollowRegisters
  <2> QED
    BY <1>4, <2>2, <2>3 DEF MadeOf
<1>6. \A v \in Tasks : \A i \in Inodes : v # t /\ Registers(v, i)' => Registers(v, i)
  BY <1>2 DEF Registers
<1>7. ASSUME NEW v \in Tasks, v # t, NEW i \in Inodes, Registers(v, i)', Registers(t, i)'
      PROVE  i \in raced'
  <2>1. Registers(v, i)
    BY <1>6, <1>7
  <2>2. CASE Registers(t, i)
    BY <1>1, <1>2, <1>7, <2>1, <2>2 DEF OneRegisters
  <2>3. CASE s.act = "checkW" /\ s.ino = i /\ ofw[i] = None
    BY <1>3, <2>1, <2>3 DEF TablesAfter
  <2> QED
    BY <1>5, <1>7, <2>2, <2>3
<1>8. ASSUME NEW u \in Tasks, NEW v \in Tasks, NEW i \in Inodes,
             Registers(u, i)', Registers(v, i)', u # v
      PROVE  i \in raced'
  <2>1. CASE u = t \/ v = t
    BY <1>7, <1>8, <2>1
  <2>2. CASE u # t /\ v # t
    <3>1. Registers(u, i) /\ Registers(v, i)
      BY <1>6, <1>8, <2>2
    <3> QED
      BY <1>1, <1>2, <1>8, <3>1 DEF OneRegisters
  <2> QED
    BY <2>1, <2>2
<1> QED
  BY <1>8 DEF OneRegisters

(* What a writer is taken out by. *)
LEMMA FollowTakes ==
    ASSUME TablesTyped, NEW s \in Awaits
    PROVE  TakesFit(Follow(s))
<1>1. CASE s.act \in Takers
  BY <1>1, FollowTakers
<1>2. CASE s.act \notin Takers
  <2>1. Quiet(Follow(s), {"take", "finishW"})
    <3>1. CASE s.act \notin {"checkW", "delR", "delW"}
      BY <1>2, <3>1, FollowPlain, PlainQuiet
    <3>2. CASE s.act = "checkW"
      BY <3>2, FollowCheckW DEF Quiet
    <3>3. CASE s.act = "delR"
      BY <3>3, FollowDelR DEF Quiet
    <3>4. CASE s.act = "delW"
      BY <3>4, FollowDelW DEF Quiet
    <3> QED
      BY <3>1, <3>2, <3>3, <3>4
  <2> QED
    BY <2>1 DEF Quiet, TakesFit
<1> QED
  BY <1>1, <1>2

LEMMA StepTaken ==
    ASSUME Control, TakenRestored, NEW t \in Tasks, NEW s, NEW l, Stepped(t, s, l)
    PROVE  TakenRestored'
<1> DEFINE q == todo[t]
           f == Follow(s)
<1>1. TablesTyped /\ CallsTyped
  BY DEF Control
<1>2. /\ \A v \in Tasks : v # t => todo'[v] = todo[v]
      /\ todo'[t] = l /\ panic' = panic
  BY <1>1, SteppedTasks DEF Stepped
<1>3. /\ q \in Seq(Instructions) /\ q # <<>> /\ f \in Seq(Instructions)
      /\ s = q[1] /\ s \in Awaits /\ l = Left(f \o Tail(q)) /\ TablesAfter(s)
  BY <1>1, SteppedLists DEF Stepped
<1>4. TakesFit(q) /\ TakesFit(f)
  BY <1>1, <1>3, FollowTakes DEF TakenRestored
<1>5. s.act = "restore" => \E n \in 1..Len(f) : f[n].act = "giveBack" /\ f[n].h = s.h
  BY <1>3, FollowRestore
<1> HIDE DEF q, f, Instructions
<1>6. KeptIn(q, l) /\ AllIn(f, l) /\ TakesFit(l)
  <2>1. q \in Seq(Instructions) /\ q # <<>> /\ f \in Seq(Instructions) /\ l = Left(f \o Tail(q))
    BY <1>3
  <2> QED
    BY ONLY <1>4, <2>1, StepContents, Zenon
<1>7. 1 \in 1..Len(q)
  BY <1>3
<1>8. ASSUME panic' = {}, NEW h \in taken' PROVE \E u \in Tasks : Restores(u, h)'
  <2>1. CASE h \notin taken
    <3>1. s.act \in {"take", "finishW"} /\ s.h = h
      BY <1>3, <1>8, <2>1 DEF TablesAfter
    <3>2. PICK n \in 1..Len(q) : n > 1 /\ q[n].act \in {"restore", "giveBack"} /\ q[n].h = h
      BY <1>3, <1>4, <1>7, <3>1 DEF TakesFit
    <3>3. n # 1
      BY <3>2
    <3>4. \E m \in 1..Len(l) : l[m] = q[n]
      BY <1>6, <3>2, <3>3 DEF KeptIn
    <3>5. Restores(t, h)'
      BY <1>2, <3>2, <3>4 DEF Restores
    <3> QED
      BY <3>5
  <2>2. CASE h \in taken
    <3>1. PICK u \in Tasks : Restores(u, h)
      BY <1>2, <1>8, <2>2 DEF TakenRestored
    <3>2. CASE u # t
      BY <1>2, <3>1, <3>2 DEF Restores
    <3>3. CASE u = t
      <4>1. PICK n \in 1..Len(q) : q[n].act \in {"restore", "giveBack"} /\ q[n].h = h
        BY <3>1, <3>3 DEF Restores, q
      <4>2. CASE n # 1
        <5>1. \E m \in 1..Len(l) : l[m] = q[n]
          BY <1>6, <4>1, <4>2 DEF KeptIn
        <5>2. Restores(t, h)'
          BY <1>2, <4>1, <5>1 DEF Restores
        <5> QED
          BY <5>2
      <4>3. CASE n = 1
        <5>1. s.act # "giveBack"
          <6>1. s.act = "giveBack" => taken' = taken \ {h}
            BY <1>3, <4>1, <4>3 DEF TablesAfter
          <6> QED
            BY <1>8, <6>1
        <5>2. PICK k \in 1..Len(f) : f[k].act = "giveBack" /\ f[k].h = h
          BY <1>3, <1>5, <4>1, <4>3, <5>1
        <5>3. \E m \in 1..Len(l) : l[m] = f[k]
          BY <1>6, <5>2 DEF AllIn
        <5>4. Restores(t, h)'
          BY <1>2, <5>2, <5>3 DEF Restores
        <5> QED
          BY <5>4
      <4> QED
        BY <4>2, <4>3
    <3> QED
      BY <3>2, <3>3
  <2> QED
    BY <2>1, <2>2
<1>9. \A u \in Tasks : TakesFit(todo'[u])
  BY <1>2, <1>6 DEF TakenRestored
<1> QED
  BY <1>8, <1>9 DEF TakenRestored

LEMMA StepKeeps ==
    ASSUME IInv, NEW t \in Tasks, NEW s, NEW l, Stepped(t, s, l)
    PROVE  IInv'
<1>1. Control /\ WritersKept /\ ReadersKept /\ TakenRestored
  BY DEF IInv
<1>2. Control'
  BY <1>1, StepTablesTyped, StepCallsTyped, StepOneRegisters, StepOpensCalm DEF Control
<1>3. WritersKept'
  BY <1>1, StepWriterStage, StepWritersRegistered DEF WritersKept
<1>4. ReadersKept'
  BY <1>1, StepReaderStage, StepReadersRegistered DEF ReadersKept
<1>5. TakenRestored'
  BY <1>1, StepTaken
<1> QED
  BY <1>2, <1>3, <1>4, <1>5 DEF IInv

-----------------------------------------------------------------------------
(* A task that panics: it is not one that makes a handle. *)

LEMMA DelIs ==
    ASSUME CallsTyped, NEW t \in Tasks, call[t] # None, WriterStage(t), todo[t][1].act = "delW"
    PROVE  Releasing(t) /\ todo[t][1].h = call[t].h
<1> DEFINE q == todo[t]
           A == WriterActs
<1>1. q # <<>> /\ 1 \in 1..Len(q) /\ q[1].act \in A /\ ~Quiet(q, A)
  BY HeadAwaits DEF WriterActs, Quiet
<1>2. ASSUME NEW a, NEW i, NEW h, Only(q, A, a, i, h) PROVE q[1].act = a /\ q[1].h = h
  BY <1>1, <1>2 DEF Only, Is
<1>3. ASSUME NEW i, NEW h, Both(q, A, "addW", "regW", i, h) PROVE FALSE
  BY <1>1, <1>3, BothHead
<1> QED
  BY <1>1, <1>2, <1>3 DEF WriterStage, HasW

LEMMA PanicKeeps ==
    ASSUME IInv, NEW t \in Tasks, call[t] # None, Fails(todo[t][1]), Panics(t, todo[t][1])
    PROVE  IInv'
<1> DEFINE s == todo[t][1]
<1>1. /\ Control /\ TablesTyped /\ CallsTyped /\ Owned /\ OneRegisters /\ OpensCalm
      /\ WritersKept /\ ReadersKept /\ TakenRestored
  BY DEF IInv, Control
<1>2. /\ panic' # {} /\ todo' = [todo EXCEPT ![t] = <<>>] /\ call' = [call EXCEPT ![t] = None]
      /\ UNCHANGED <<rh, ofr, ofw, of, taken, open, raced>>
      /\ wh' = IF s.act = "delW" THEN wh \ {s.h} ELSE wh
  BY DEF Panics, tables
<1>3. /\ \A u \in Tasks : u # t => call'[u] = call[u] /\ todo'[u] = todo[u]
      /\ call'[t] = None /\ todo'[t] = <<>>
  BY <1>1, <1>2 DEF CallsTyped
<1>4. ~Opening(t)
  <2>1. 1 \in 1..Len(todo[t])
    BY <1>1, HeadAwaits
  <2>2. s.act \notin OpenActs \cup {"free"}
    BY DEF Fails, OpenActs
  <2> QED
    BY <1>1, <2>1, <2>2 DEF OpensCalm
<1>5. Control'
  <2>1. TablesTyped'
    BY <1>1, <1>2 DEF TablesTyped
  <2>2. CallsTyped'
    <3>1. call' \in [Tasks -> CallRecords \cup {None}]
      BY <1>1, <1>2 DEF CallsTyped
    <3>2. todo' \in [Tasks -> Seq(Instructions)]
      <4> HIDE DEF Instructions
      <4> QED
        BY <1>1, <1>2 DEF CallsTyped
    <3>3. ASSUME NEW u \in Tasks
          PROVE  (call'[u] = None <=> todo'[u] = <<>>) /\ (todo'[u] # <<>> => todo'[u][1].act # "free")
      <4>1. CASE u = t
        BY <1>3, <4>1
      <4>2. CASE u # t
        BY <1>1, <1>3, <4>2 DEF CallsTyped
      <4> QED
        BY <4>1, <4>2
    <3>4. open' \subseteq Handles /\ of' \in [Handles -> Inodes \cup {None}]
      BY <1>1, <1>2 DEF CallsTyped
    <3> QED
      BY <3>1, <3>2, <3>3, <3>4 DEF CallsTyped
  <2>3. \A u \in Tasks : /\ call'[u] # None => u # t /\ call'[u] = call[u] /\ todo'[u] = todo[u]
                         /\ Opening(u)' => Opening(u) /\ u # t
                         /\ OpeningW(u)' => OpeningW(u)
                         /\ Releasing(u)' => Releasing(u)
    BY <1>3 DEF Opening, OpeningW, Releasing
  <2>4. Owned'
    BY <1>1, <1>2, <1>3, <2>3 DEF Owned, Opening, Releasing
  <2>5. OneRegisters'
    <3>1. \A u \in Tasks : \A i \in Inodes : Registers(u, i)' => Registers(u, i)
      BY <1>3 DEF Registers
    <3> QED
      BY <1>1, <1>2, <3>1 DEF OneRegisters
  <2>6. OpensCalm'
    BY <1>1, <1>3, <2>3 DEF OpensCalm
  <2> QED
    BY <2>1, <2>2, <2>4, <2>5, <2>6 DEF Control
<1>6. WritersKept'
  <2>1. ASSUME NEW u \in Tasks PROVE WriterStage(u)'
    <3>1. CASE u = t
      BY <1>3, <3>1, ListsEmpty DEF WriterStage
    <3>2. CASE u # t
      <4>1. WriterStage(u) /\ WriterStage(t)
        BY <1>1 DEF WritersKept
      <4>2. OpeningW(u) => (call[u].h \in wh' <=> call[u].h \in wh)
        <5>1. s.act = "delW" => Releasing(t) /\ s.h = call[t].h
          BY <1>1, <4>1, DelIs
        <5>2. s.act = "delW" /\ OpeningW(u) => call[u].h # s.h
          BY <1>1, <3>2, <5>1, OthersApart DEF OpeningW
        <5> QED
          BY <1>2, <5>2
      <4>3. wh' \subseteq wh /\ ofw' = ofw /\ raced' = raced
        BY <1>2
      <4> QED
        BY <1>3, <3>2, <4>1, <4>2, <4>3 DEF WriterStage, HasW, OpeningW, Opening, Releasing
    <3> QED
      BY <3>1, <3>2
  <2>2. WritersRegistered'
    <3>1. WritersRegistered
      BY <1>1 DEF WritersKept
    <3>2. \A u \in Tasks : OpeningW(u) /\ HasW(u, "regW") => u # t /\ OpeningW(u)' /\ HasW(u, "regW")'
      BY <1>3, <1>4 DEF OpeningW, Opening, HasW
    <3>3. \A u \in Tasks : OpeningW(u) => call'[u].h = call[u].h
      BY <1>3, <1>4 DEF OpeningW
    <3> QED
      BY <1>2, <3>1, <3>2, <3>3 DEF WritersRegistered
  <2> QED
    BY <2>1, <2>2 DEF WritersKept
<1>7. ReadersKept'
  <2>1. ASSUME NEW u \in Tasks PROVE ReaderStage(u)'
    <3>1. CASE u = t
      BY <1>3, <3>1, ListsEmpty DEF ReaderStage
    <3>2. CASE u # t
      <4>1. ReaderStage(u)
        BY <1>1 DEF ReadersKept
      <4> QED
        BY <1>2, <1>3, <3>2, <4>1 DEF ReaderStage, HasR, Opening, Releasing
    <3> QED
      BY <3>1, <3>2
  <2>2. ReadersRegistered'
    <3>1. ReadersRegistered
      BY <1>1 DEF ReadersKept
    <3>2. \A u \in Tasks : Opening(u) /\ HasR(u, "regR") => u # t /\ Opening(u)' /\ HasR(u, "regR")'
      BY <1>3, <1>4 DEF Opening, HasR
    <3>3. \A u \in Tasks : Opening(u) => call'[u].h = call[u].h
      BY <1>3, <1>4
    <3> QED
      BY <1>2, <3>1, <3>2, <3>3 DEF ReadersRegistered
  <2> QED
    BY <2>1, <2>2 DEF ReadersKept
<1>8. TakenRestored'
  <2>1. ASSUME NEW u \in Tasks PROVE TakesFit(todo'[u])
    <3>1. CASE u = t
      BY <1>3, <3>1 DEF TakesFit
    <3>2. CASE u # t
      BY <1>1, <1>3, <3>2 DEF TakenRestored
    <3> QED
      BY <3>1, <3>2
  <2> QED
    BY <1>2, <2>1 DEF TakenRestored
<1> QED
  BY <1>5, <1>6, <1>7, <1>8 DEF IInv

-----------------------------------------------------------------------------
(* A call that begins: c is the call, q its first instructions. *)

(* What the handle and the file of a new call have to be. *)
Fresh(c) ==
    /\ c.op \in {"open", "release"} =>
         /\ c.h \in Handles /\ c.h \notin open' /\ of'[c.h] = c.ino
         /\ \A u \in Tasks : Opening(u) \/ Releasing(u) => call[u].h # c.h

Begins(t, c, q) ==
    /\ call[t] = None /\ c \in CallRecords
    /\ call' = [call EXCEPT ![t] = c] /\ todo' = [todo EXCEPT ![t] = q]
    /\ q \in Seq(Instructions) /\ q # <<>> /\ q[1].act # "free" /\ Quiet(q, {"take", "finishW"})
    /\ UNCHANGED <<rh, wh, ofr, ofw, taken, raced, panic>>
    /\ of' \in [Handles -> Inodes \cup {None}] /\ \A g \in Handles : of[g] # None => of'[g] = of[g]
    /\ open' \subseteq open
    /\ Fresh(c)
    /\ c.op = "open" => \A n \in 1..Len(q) : q[n].act \in OpenActs \cup {"free"}
    /\ \/ Quiet(q, WriterActs)
       \/ c.op = "open" /\ c.write /\ c.h \notin wh /\ Only(q, WriterActs, "checkW", c.ino, c.h)
       \/ c.op = "release" /\ Only(q, WriterActs, "delW", c.ino, c.h)
    /\ \/ Quiet(q, ReaderActs)
       \/ c.op = "open" /\ c.h \notin rh \cup ofr
            /\ Both(q, ReaderActs, "addR", "regR", c.ino, c.h)
       \/ c.op = "release" /\ Only(q, ReaderActs, "delR", c.ino, c.h)

LEMMA BeginKeeps ==
    ASSUME IInv, NEW t \in Tasks, NEW c, NEW q, Begins(t, c, q)
    PROVE  IInv'
<1>1. /\ Control /\ TablesTyped /\ CallsTyped /\ Owned /\ OneRegisters /\ OpensCalm
      /\ WritersKept /\ ReadersKept /\ TakenRestored
  BY DEF IInv, Control
<1>2. /\ \A u \in Tasks : u # t => call'[u] = call[u] /\ todo'[u] = todo[u]
      /\ call'[t] = c /\ todo'[t] = q
  BY <1>1 DEF CallsTyped, Begins
<1>3. /\ call[t] = None /\ c \in CallRecords /\ c # None
      /\ q \in Seq(Instructions) /\ q # <<>> /\ q[1].act # "free"
      /\ UNCHANGED <<rh, wh, ofr, ofw, taken, raced, panic>>
      /\ \A g \in Handles : of[g] # None => of'[g] = of[g]
      /\ open' \subseteq open /\ Fresh(c)
  BY FileCallsAssumption DEF Begins
<1>4. \A u \in Tasks : /\ Opening(u) => u # t /\ Opening(u)'
                       /\ OpeningW(u) => u # t /\ OpeningW(u)'
                       /\ Releasing(u) => u # t /\ Releasing(u)'
                       /\ u # t /\ Opening(u)' => Opening(u)
                       /\ u # t /\ OpeningW(u)' => OpeningW(u)
                       /\ u # t /\ Releasing(u)' => Releasing(u)
  BY <1>2, <1>3 DEF Opening, OpeningW, Releasing
<1>5. TablesTyped'
  BY <1>1, <1>3 DEF TablesTyped
<1>6. CallsTyped'
  <2>1. call' \in [Tasks -> CallRecords \cup {None}]
    BY <1>1, <1>3 DEF CallsTyped, Begins
  <2>2. todo' \in [Tasks -> Seq(Instructions)]
    <3> HIDE DEF Instructions
    <3> QED
      BY <1>1, <1>3 DEF CallsTyped, Begins
  <2>3. ASSUME NEW u \in Tasks
        PROVE  (call'[u] = None <=> todo'[u] = <<>>) /\ (todo'[u] # <<>> => todo'[u][1].act # "free")
    <3>1. CASE u = t
      BY <1>2, <1>3, <3>1
    <3>2. CASE u # t
      BY <1>1, <1>2, <3>2 DEF CallsTyped
    <3> QED
      BY <3>1, <3>2
  <2>4. open' \subseteq Handles /\ of' \in [Handles -> Inodes \cup {None}]
    BY <1>1, <1>3 DEF CallsTyped, Begins
  <2> QED
    BY <2>1, <2>2, <2>3, <2>4 DEF CallsTyped
<1>7. Owned'
  <2>1. ASSUME NEW u \in Tasks, (Opening(u) \/ Releasing(u))'
        PROVE  call'[u].h \in Handles \ open' /\ of'[call'[u].h] = call'[u].ino
    <3>1. CASE u = t
      <4>1. c.op \in {"open", "release"}
        BY <1>2, <2>1, <3>1 DEF Opening, Releasing
      <4> QED
        BY <1>2, <1>3, <3>1, <4>1 DEF Fresh
    <3>2. CASE u # t
      <4>1. Opening(u) \/ Releasing(u)
        BY <1>4, <2>1, <3>2
      <4>2. call[u].h \in Handles /\ call[u].h \notin open
            /\ of[call[u].h] = call[u].ino /\ of[call[u].h] # None
        BY <1>1, <4>1, CallIs
      <4> QED
        BY <1>2, <1>3, <3>2, <4>2
    <3> QED
      BY <3>1, <3>2
  <2>2. \A u, v \in Tasks : (Opening(u) \/ Releasing(u))' /\ (Opening(v) \/ Releasing(v))'
                              /\ call'[u].h = call'[v].h => u = v
    <3>1. (Opening(t) \/ Releasing(t))' => c.op \in {"open", "release"}
      BY <1>2 DEF Opening, Releasing
    <3>2. (Opening(t) \/ Releasing(t))' =>
              \A u \in Tasks : Opening(u) \/ Releasing(u) => call[u].h # c.h
      BY <1>3, <3>1 DEF Fresh
    <3> QED
      BY <1>1, <1>2, <1>4, <3>2 DEF Owned
  <2>3. \A g \in open' : of'[g] # None
    BY <1>1, <1>3 DEF Owned, CallsTyped
  <2> QED
    BY <2>1, <2>2, <2>3 DEF Owned, Opening, Releasing
<1>8. OneRegisters'
  <2>1. ASSUME NEW n \in 1..Len(q), q[n].act = "regW" PROVE FALSE
    <3>1. {"regW", "checkW", "delW"} \subseteq WriterActs
      BY DEF WriterActs
    <3> QED
      BY <2>1, <3>1 DEF Begins, Quiet, Only, Is
  <2>2. \A u \in Tasks : \A i \in Inodes : Registers(u, i)' => Registers(u, i)
    BY <1>2, <2>1 DEF Registers
  <2> QED
    BY <1>1, <1>3, <2>2 DEF OneRegisters
<1>9. OpensCalm'
  <2>1. Opening(t)' => \A n \in 1..Len(q) : q[n].act \in OpenActs \cup {"free"}
    BY <1>2 DEF Begins, Opening
  <2> QED
    BY <1>1, <1>2, <1>4, <2>1 DEF OpensCalm
<1>10. WritersKept'
  <2>1. ASSUME NEW u \in Tasks PROVE WriterStage(u)'
    <3>1. CASE u = t
      BY <1>2, <1>3, <3>1 DEF Begins, WriterStage, HasW, OpeningW, Opening, Releasing
    <3>2. CASE u # t
      <4>1. WriterStage(u)
        BY <1>1 DEF WritersKept
      <4> QED
        BY <1>2, <1>3, <3>2, <4>1 DEF WriterStage, HasW, OpeningW, Opening, Releasing
    <3> QED
      BY <3>1, <3>2
  <2>2. WritersRegistered
    BY <1>1 DEF WritersKept
  <2>3. \A u \in Tasks : /\ OpeningW(u) /\ HasW(u, "regW") => HasW(u, "regW")' /\ call'[u].h = call[u].h
                         /\ Releasing(u) /\ HasW(u, "unregW") =>
                                HasW(u, "unregW")' /\ call'[u].h = call[u].h
    BY <1>2, <1>4 DEF HasW
  <2>4. ASSUME NEW g \in wh
        PROVE  of'[g] = of[g] /\ of[g] # None
               /\ (\/ ofw[of[g]] = g \/ of[g] \in raced
                   \/ \E u \in Tasks : OpeningW(u)' /\ call'[u].h = g /\ HasW(u, "regW")')
    BY <1>1, <1>3, <1>4, <2>2, <2>3 DEF WritersRegistered, TablesTyped
  <2>5. ASSUME NEW j \in Inodes, ofw[j] # None
        PROVE  of'[ofw[j]] = j
               /\ (\/ ofw[j] \in wh \/ panic # {} \/ j \in raced
                   \/ \E u \in Tasks : Releasing(u)' /\ call'[u].h = ofw[j] /\ HasW(u, "unregW")')
    <3>1. of[ofw[j]] = j /\ j # None /\ ofw[j] \in Handles
      BY <1>1, <2>2, <2>5, FileCallsAssumption DEF WritersRegistered, TablesTyped
    <3> QED
      BY <1>3, <1>4, <2>2, <2>3, <2>5, <3>1 DEF WritersRegistered
  <2>6. WritersRegistered'
    BY <1>3, <2>4, <2>5 DEF WritersRegistered
  <2> QED
    BY <2>1, <2>6 DEF WritersKept
<1>11. ReadersKept'
  <2>1. ASSUME NEW u \in Tasks PROVE ReaderStage(u)'
    <3>1. CASE u = t
      BY <1>2, <1>3, <3>1 DEF Begins, ReaderStage, HasR, Opening, Releasing
    <3>2. CASE u # t
      <4>1. ReaderStage(u)
        BY <1>1 DEF ReadersKept
      <4> QED
        BY <1>2, <1>3, <3>2, <4>1 DEF ReaderStage, HasR, Opening, Releasing
    <3> QED
      BY <3>1, <3>2
  <2>2. ReadersRegistered
    BY <1>1 DEF ReadersKept
  <2>3. \A u \in Tasks : /\ Opening(u) /\ HasR(u, "regR") => HasR(u, "regR")' /\ call'[u].h = call[u].h
                         /\ Releasing(u) /\ HasR(u, "unregR") =>
                                HasR(u, "unregR")' /\ call'[u].h = call[u].h
    BY <1>2, <1>4 DEF HasR
  <2>4. \A g \in rh \cup ofr : of[g] # None /\ of'[g] = of[g]
    BY <1>1, <1>3, <2>2 DEF ReadersRegistered, TablesTyped
  <2>5. ReadersRegistered'
    BY <1>3, <1>4, <2>2, <2>3, <2>4 DEF ReadersRegistered
  <2> QED
    BY <2>1, <2>5 DEF ReadersKept
<1>12. TakenRestored'
  <2>1. ASSUME NEW u \in Tasks PROVE TakesFit(todo'[u])
    <3>1. CASE u = t
      BY <1>2, <3>1 DEF TakesFit, Quiet, Begins
    <3>2. CASE u # t
      BY <1>1, <1>2, <3>2 DEF TakenRestored
    <3> QED
      BY <3>1, <3>2
  <2>2. \A u \in Tasks : \A g : Restores(u, g) => Restores(u, g)'
    <3>1. todo[t] = <<>>
      BY <1>1, <1>3 DEF CallsTyped
    <3>2. \A g : ~Restores(t, g)
      BY <3>1 DEF Restores
    <3> QED
      BY <1>2, <3>2 DEF Restores
  <2> QED
    BY <1>1, <1>3, <2>1, <2>2 DEF TakenRestored
<1> QED
  BY <1>5, <1>6, <1>7, <1>8, <1>9, <1>10, <1>11, <1>12 DEF IInv, Control

(* A call that neither makes nor drops a handle. *)
LEMMA UseBegins ==
    ASSUME IInv, NEW t \in Tasks, NEW op \in AllOps \ {"open", "release"},
           NEW i \in Inodes, NEW h \in Handles \cup {None}, NEW write \in BOOLEAN,
           NEW q \in Seq(Plain), q # <<>>, q[1].act # "free",
           Start(t, op, i, h, write, q), UNCHANGED <<of, open>>
    PROVE  IInv'
<1> DEFINE c == [op |-> op, ino |-> i, h |-> h, write |-> write]
<1>1. c \in CallRecords /\ c.op \notin {"open", "release"}
  BY DEF CallRecords
<1>2. /\ q \in Seq(Instructions) /\ Quiet(q, WriterActs) /\ Quiet(q, ReaderActs) /\ Quiet(q, {"take", "finishW"})
  BY PlainIs, PlainQuiet
<1>3. of' \in [Handles -> Inodes \cup {None}] /\ of' = of /\ open' = open
  BY DEF IInv, Control, CallsTyped
<1>4. /\ call[t] = None /\ call' = [call EXCEPT ![t] = c] /\ todo' = [todo EXCEPT ![t] = q]
      /\ UNCHANGED <<rh, wh, ofr, ofw, taken, raced, panic>>
  BY DEF Start
<1>5. Fresh(c)
  BY <1>1 DEF Fresh
<1> HIDE DEF c
<1>6. Begins(t, c, q)
  BY <1>1, <1>2, <1>3, <1>4, <1>5 DEF Begins
<1> QED
  BY <1>6, BeginKeeps

(* A handle a client has belongs to a file. *)
LEMMA OpenIs ==
    ASSUME IInv, NEW h \in open
    PROVE  h \in Handles /\ of[h] \in Inodes /\ of[h] # None
BY DEF IInv, Control, CallsTyped, Owned

LEMMA ReadBegins ==
    ASSUME IInv, NEW t \in Tasks, NEW h \in Handles, Read(t, h)
    PROVE  IInv'
<1>1. of[h] \in Inodes
  BY OpenIs DEF Read
<1> DEFINE x == Await("visit", RH, "r", of[h], h)
           y == Await("hold", RW(of[h]), "r", of[h], h)
           z == Await("read", RH, "r", of[h], h)
<1>2. x \in Plain /\ y \in Plain /\ z \in Plain /\ x.act = "visit"
  BY <1>1, LocksAre, PlainAwait DEF PlainActs, Acts, OpenActs, ReaderActs, WriterActs, Await
<1>3. Start(t, "read", of[h], h, FALSE, <<x, y, z>>) /\ UNCHANGED <<of, open>>
  BY DEF Read
<1> HIDE DEF x, y, z, Plain
<1>4. <<x, y, z>> \in Seq(Plain) /\ <<x, y, z>> # <<>> /\ <<x, y, z>>[1].act # "free"
  BY <1>2
<1> QED
  BY <1>1, <1>3, <1>4, UseBegins DEF AllOps

LEMMA WriteBegins ==
    ASSUME IInv, NEW t \in Tasks, NEW h \in Handles, Write(t, h)
    PROVE  IInv'
<1>1. of[h] \in Inodes
  BY OpenIs DEF Write
<1> DEFINE x == Await("peek", WH, "r", of[h], h)
           y == Await("hold", RW(of[h]), "w", of[h], h)
           z == Await("write", WH, "r", of[h], h)
<1>2. x \in Plain /\ y \in Plain /\ z \in Plain /\ x.act = "peek"
  BY <1>1, LocksAre, PlainAwait DEF PlainActs, Acts, OpenActs, ReaderActs, WriterActs, Await
<1>3. Start(t, "write", of[h], h, TRUE, <<x, y, z>>) /\ UNCHANGED <<of, open>>
  BY DEF Write
<1> HIDE DEF x, y, z, Plain
<1>4. <<x, y, z>> \in Seq(Plain) /\ <<x, y, z>> # <<>> /\ <<x, y, z>>[1].act # "free"
  BY <1>2
<1> QED
  BY <1>1, <1>3, <1>4, UseBegins DEF AllOps

LEMMA FlushBegins ==
    ASSUME IInv, NEW t \in Tasks, NEW h \in Handles, Flush(t, h)
    PROVE  IInv'
<1>1. of[h] \in Inodes
  BY OpenIs DEF Flush
<1> DEFINE x == Await("visit", RH, "r", of[h], h)
           y == Await("flush", WH, "r", of[h], h)
<1>2. x \in Plain /\ y \in Plain /\ x.act = "visit"
  BY <1>1, LocksAre, PlainAwait DEF PlainActs, Acts, OpenActs, ReaderActs, WriterActs, Await
<1>3. Start(t, "flush", of[h], h, FALSE, <<x, y>>) /\ UNCHANGED <<of, open>>
  BY DEF Flush
<1> HIDE DEF x, y, Plain
<1>4. <<x, y>> \in Seq(Plain) /\ <<x, y>> # <<>> /\ <<x, y>>[1].act # "free"
  BY <1>2
<1> QED
  BY <1>1, <1>3, <1>4, UseBegins DEF AllOps

LEMMA SetLenBegins ==
    ASSUME IInv, NEW t \in Tasks, NEW i \in Inodes, SetLen(t, i)
    PROVE  IInv'
<1> DEFINE x == Await("readers", OFR, "r", i, None)
           y == Await("writer", OFW, "r", i, None)
           z == Await("truncate", RW(i), "w", i, None)
<1>1. x \in Plain /\ y \in Plain /\ z \in Plain /\ x.act = "readers"
  BY LocksAre, PlainAwait DEF PlainActs, Acts, OpenActs, ReaderActs, WriterActs, Await
<1>2. Start(t, "set_len", i, None, FALSE, <<x, y>> \o <<z>>) /\ UNCHANGED <<of, open>>
  BY DEF SetLen, GetAttr
<1> HIDE DEF x, y, z, Plain
<1>3. /\ <<x, y>> \o <<z>> \in Seq(Plain) /\ <<x, y>> \o <<z>> # <<>>
      /\ (<<x, y>> \o <<z>>)[1].act # "free"
  BY <1>1
<1> QED
  BY <1>2, <1>3, UseBegins DEF AllOps

LEMMA GetAttrBegins ==
    ASSUME IInv, NEW t \in Tasks, NEW i \in Inodes, GetAttrCall(t, i)
    PROVE  IInv'
<1> DEFINE x == Await("readers", OFR, "r", i, None)
           y == Await("writer", OFW, "r", i, None)
<1>1. x \in Plain /\ y \in Plain /\ x.act = "readers"
  BY LocksAre, PlainAwait DEF PlainActs, Acts, OpenActs, ReaderActs, WriterActs, Await
<1>2. Start(t, "getattr", i, None, FALSE, <<x, y>>) /\ UNCHANGED <<of, open>>
  BY DEF GetAttrCall, GetAttr
<1> HIDE DEF x, y, Plain
<1>3. <<x, y>> \in Seq(Plain) /\ <<x, y>> # <<>> /\ <<x, y>>[1].act # "free"
  BY <1>1
<1> QED
  BY <1>2, <1>3, UseBegins DEF AllOps

LEMMA ReleaseBegins ==
    ASSUME IInv, NEW t \in Tasks, NEW h \in Handles, Release(t, h)
    PROVE  IInv'
<1>1. of[h] \in Inodes
  BY OpenIs DEF Release
<1> DEFINE x == Await("delR", RH, "w", of[h], h)
           y == Await("delW", WH, "w", of[h], h)
           q == <<x, y>>
           c == [op |-> "release", ino |-> of[h], h |-> h, write |-> FALSE]
<1>2. /\ x \in Instructions /\ y \in Instructions
      /\ Is(x, "delR", of[h], h) /\ Is(y, "delW", of[h], h)
  <2>1. {"delR", "delW"} \subseteq Acts
    BY DEF Acts, ReaderActs, WriterActs
  <2> QED
    BY <1>1, <2>1, LocksAre, AwaitIs
<1>3. /\ call[t] = None /\ call' = [call EXCEPT ![t] = c] /\ todo' = [todo EXCEPT ![t] = q]
      /\ UNCHANGED <<rh, wh, ofr, ofw, taken, raced, panic>> /\ UNCHANGED of /\ open' = open \ {h}
  BY DEF Release, Start
<1>4. c \in CallRecords /\ c.op = "release" /\ c.h = h /\ c.ino = of[h]
  BY <1>1 DEF CallRecords, AllOps
<1>5. Fresh(c)
  <2>1. \A u \in Tasks : Opening(u) \/ Releasing(u) => call[u].h # h
    BY DEF Release, Opening, Releasing
  <2> QED
    BY <1>3, <1>4, <2>1 DEF Fresh
<1> HIDE DEF x, y, c, Instructions
<1>6. /\ q \in Seq(Instructions) /\ q # <<>> /\ Len(q) = 2 /\ q[1] = x /\ q[2] = y
      /\ 1..Len(q) = {1, 2}
  BY <1>2
<1> HIDE DEF q
<1>7. x.act = "delR" /\ y.act = "delW"
  BY <1>2 DEF Is
<1>8. Quiet(q, {"take", "finishW"})
  BY <1>6, <1>7 DEF Quiet
<1>9. Only(q, WriterActs, "delW", of[h], h)
  <2>1. \A n \in 1..Len(q) : n # 2 => q[n].act \notin WriterActs
    BY <1>6, <1>7 DEF WriterActs
  <2> QED
    BY <1>2, <1>6, <2>1 DEF Only
<1>10. Only(q, ReaderActs, "delR", of[h], h)
  <2>1. \A n \in 1..Len(q) : n # 1 => q[n].act \notin ReaderActs
    BY <1>6, <1>7 DEF ReaderActs
  <2> QED
    BY <1>2, <1>6, <2>1 DEF Only
<1>11. of' \in [Handles -> Inodes \cup {None}]
  BY <1>3 DEF IInv, Control, CallsTyped
<1>12. Begins(t, c, q)
  BY <1>3, <1>4, <1>5, <1>6, <1>7, <1>8, <1>9, <1>10, <1>11 DEF Begins
<1> QED
  BY <1>12, BeginKeeps

(* The first instructions of an open. *)
LEMMA OpenBeginsWith ==
    ASSUME NEW i \in Inodes, NEW h \in Handles, NEW read \in BOOLEAN, NEW write \in BOOLEAN,
           read \/ write
    PROVE  LET q == (IF read THEN AddReader(i, h) ELSE <<>>)
                      \o IF write THEN <<Await("checkW", OFW, "r", i, h)>> ELSE <<>>
           IN  /\ q \in Seq(Instructions) /\ q # <<>> /\ q[1].act # "free" /\ Quiet(q, {"take", "finishW"})
               /\ \A n \in 1..Len(q) : q[n].act \in OpenActs
               /\ ~write => Quiet(q, WriterActs)
               /\ write => Only(q, WriterActs, "checkW", i, h)
               /\ ~read => Quiet(q, ReaderActs)
               /\ read => Both(q, ReaderActs, "addR", "regR", i, h)
<1> DEFINE x == Await("addR", RH, "w", i, h)
           y == Await("regR", OFR, "w", i, h)
           z == Await("checkW", OFW, "r", i, h)
           q == (IF read THEN <<x, y>> ELSE <<>>) \o IF write THEN <<z>> ELSE <<>>
<1>1. /\ x \in Instructions /\ y \in Instructions /\ z \in Instructions
      /\ Is(x, "addR", i, h) /\ Is(y, "regR", i, h) /\ Is(z, "checkW", i, h)
  <2>1. {"addR", "regR", "checkW"} \subseteq Acts
    BY DEF Acts, ReaderActs, WriterActs
  <2> QED
    BY <2>1, LocksAre, AwaitIs
<1>2. x.act = "addR" /\ y.act = "regR" /\ z.act = "checkW"
  BY <1>1 DEF Is
<1>3. AddReader(i, h) = <<x, y>>
  BY DEF AddReader
<1> HIDE DEF x, y, z, Instructions
<1> SUFFICES /\ q \in Seq(Instructions) /\ q # <<>> /\ q[1].act # "free" /\ Quiet(q, {"take", "finishW"})
             /\ \A n \in 1..Len(q) : q[n].act \in OpenActs
             /\ ~write => Quiet(q, WriterActs)
             /\ write => Only(q, WriterActs, "checkW", i, h)
             /\ ~read => Quiet(q, ReaderActs)
             /\ read => Both(q, ReaderActs, "addR", "regR", i, h)
  BY <1>3 DEF z
<1>4. CASE read /\ ~write
  <2>1. q = <<x, y>>
    BY <1>4
  <2> HIDE DEF q
  <2>2. /\ q \in Seq(Instructions) /\ q # <<>> /\ q[1] = x /\ q[2] = y /\ 1..Len(q) = {1, 2}
    BY <1>1, <2>1
  <2>3. Both(q, ReaderActs, "addR", "regR", i, h)
    <3>1. \A n \in 1..Len(q) : n # 1 /\ n # 2 => q[n].act \notin ReaderActs
      BY <2>2
    <3>2. 1 \in 1..Len(q) /\ 2 \in 1..Len(q) /\ 1 < 2
      BY <2>2
    <3> QED
      BY <1>1, <2>2, <3>1, <3>2 DEF Both
  <2> QED
    BY <1>2, <1>4, <2>2, <2>3 DEF Quiet, OpenActs, WriterActs
<1>5. CASE ~read /\ write
  <2>1. q = <<z>>
    BY <1>5
  <2> HIDE DEF q
  <2>2. /\ q \in Seq(Instructions) /\ q # <<>> /\ q[1] = z /\ 1..Len(q) = {1}
    BY <1>1, <2>1
  <2>3. Only(q, WriterActs, "checkW", i, h)
    BY <1>1, <2>2 DEF Only
  <2> QED
    BY <1>2, <1>5, <2>2, <2>3 DEF Quiet, OpenActs, ReaderActs
<1>6. CASE read /\ write
  <2>1. q = <<x, y>> \o <<z>>
    BY <1>6
  <2> HIDE DEF q
  <2>2. /\ q \in Seq(Instructions) /\ q # <<>> /\ q[1] = x /\ q[2] = y /\ q[3] = z
        /\ Len(q) = 3
    BY <1>1, <2>1
  <2>3. 1..Len(q) = {1, 2, 3}
    BY <2>2
  <2>4. Both(q, ReaderActs, "addR", "regR", i, h)
    <3>1. \A n \in 1..Len(q) : n # 1 /\ n # 2 => q[n].act \notin ReaderActs
      BY <1>2, <2>2, <2>3 DEF ReaderActs
    <3>2. 1 \in 1..Len(q) /\ 2 \in 1..Len(q) /\ 1 < 2
      BY <2>3
    <3> QED
      BY <1>1, <2>2, <3>1, <3>2 DEF Both
  <2>5. Only(q, WriterActs, "checkW", i, h)
    <3>1. \A n \in 1..Len(q) : n # 3 => q[n].act \notin WriterActs
      BY <1>2, <2>2, <2>3 DEF WriterActs
    <3> QED
      BY <1>1, <2>2, <2>3, <3>1 DEF Only
  <2> QED
    BY <1>2, <1>6, <2>2, <2>3, <2>4, <2>5 DEF Quiet, OpenActs
<1> QED
  BY <1>4, <1>5, <1>6

LEMMA OpenBegins ==
    ASSUME IInv, NEW t \in Tasks, NEW i \in Inodes,
           NEW read \in BOOLEAN, NEW write \in BOOLEAN, Open(t, i, read, write)
    PROVE  IInv'
<1>1. PICK h \in {g \in Handles : of[g] = None} :
        /\ read \/ write
        /\ Start(t, "open", i, h, write,
                 (IF read THEN AddReader(i, h) ELSE <<>>)
                 \o IF write THEN <<Await("checkW", OFW, "r", i, h)>> ELSE <<>>)
        /\ of' = [of EXCEPT ![h] = i]
        /\ UNCHANGED open
  BY DEF Open
<1> DEFINE q == (IF read THEN AddReader(i, h) ELSE <<>>)
                  \o IF write THEN <<Await("checkW", OFW, "r", i, h)>> ELSE <<>>
           c == [op |-> "open", ino |-> i, h |-> h, write |-> write]
<1>2. /\ q \in Seq(Instructions) /\ q # <<>> /\ q[1].act # "free" /\ Quiet(q, {"take", "finishW"})
      /\ \A n \in 1..Len(q) : q[n].act \in OpenActs
      /\ ~write => Quiet(q, WriterActs)
      /\ write => Only(q, WriterActs, "checkW", i, h)
      /\ ~read => Quiet(q, ReaderActs)
      /\ read => Both(q, ReaderActs, "addR", "regR", i, h)
  BY <1>1, OpenBeginsWith
<1>3. /\ call[t] = None /\ call' = [call EXCEPT ![t] = c] /\ todo' = [todo EXCEPT ![t] = q]
      /\ UNCHANGED <<rh, wh, ofr, ofw, taken, raced, panic>>
  BY <1>1 DEF Start
<1> HIDE DEF q
<1>4. /\ c \in CallRecords /\ c.op = "open" /\ c.h = h /\ c.ino = i /\ c.write = write
  BY <1>1 DEF CallRecords, AllOps
<1>5. /\ CallsTyped /\ Owned /\ WritersRegistered /\ ReadersRegistered
  BY DEF IInv, Control, WritersKept, ReadersKept
<1>6. /\ h \notin wh /\ h \notin rh /\ h \notin ofr /\ h \notin open
  BY <1>1, <1>5 DEF WritersRegistered, ReadersRegistered, Owned
<1>7. \A u \in Tasks : Opening(u) \/ Releasing(u) => call[u].h # h
  BY <1>1, <1>5, CallIs
<1>8. /\ of' \in [Handles -> Inodes \cup {None}] /\ of'[h] = i
      /\ \A g \in Handles : of[g] # None => of'[g] = of[g]
  <2>1. of' \in [Handles -> Inodes \cup {None}] /\ of'[h] = i
    BY <1>1, <1>5 DEF CallsTyped
  <2>2. ASSUME NEW g \in Handles, of[g] # None PROVE of'[g] = of[g]
    BY <1>1, <1>5, <2>2 DEF CallsTyped
  <2> QED
    BY <2>1, <2>2
<1>9. Fresh(c)
  BY <1>1, <1>4, <1>6, <1>7, <1>8 DEF Fresh
<1> HIDE DEF c
<1>10. Begins(t, c, q)
  <2>1. /\ c.op = "open" => \A n \in 1..Len(q) : q[n].act \in OpenActs \cup {"free"}
        /\ open' \subseteq open
    BY <1>1, <1>2
  <2>2. \/ Quiet(q, WriterActs)
        \/ c.op = "open" /\ c.write /\ c.h \notin wh /\ Only(q, WriterActs, "checkW", c.ino, c.h)
    BY <1>2, <1>4, <1>6
  <2>3. \/ Quiet(q, ReaderActs)
        \/ c.op = "open" /\ c.h \notin rh \cup ofr
             /\ Both(q, ReaderActs, "addR", "regR", c.ino, c.h)
    BY <1>2, <1>4, <1>6
  <2> HIDE DEF Instructions
  <2> QED
    BY <1>2, <1>3, <1>4, <1>8, <1>9, <2>1, <2>2, <2>3 DEF Begins
<1> QED
  BY <1>10, BeginKeeps

-----------------------------------------------------------------------------
(* The invariant holds throughout. *)

LEMMA InitIInv == Init => IInv
<1> SUFFICES ASSUME Init PROVE IInv
  OBVIOUS
<1>1. /\ \A t \in Tasks : call[t] = None /\ todo[t] = <<>>
      /\ \A t \in Tasks : ~Opening(t) /\ ~Releasing(t) /\ ~OpeningW(t)
      /\ rh = {} /\ wh = {} /\ ofr = {} /\ taken = {} /\ open = {} /\ panic = {}
      /\ \A i \in Inodes : ofw[i] = None
  BY DEF Init, Opening, OpeningW, Releasing
<1>2. TablesTyped
  BY DEF Init, TablesTyped
<1>3. CallsTyped
  <2>1. call \in [Tasks -> CallRecords \cup {None}] /\ of \in [Handles -> Inodes \cup {None}]
    BY DEF Init
  <2>2. todo \in [Tasks -> Seq(Instructions)]
    <3> HIDE DEF Instructions
    <3> QED
      BY DEF Init
  <2> QED
    BY <1>1, <2>1, <2>2 DEF CallsTyped
<1>4. Owned /\ OneRegisters /\ OpensCalm
  <2>1. \A t \in Tasks : \A i \in Inodes : ~Registers(t, i)
    BY <1>1 DEF Registers
  <2> QED
    BY <1>1, <2>1 DEF Owned, OneRegisters, OpensCalm
<1>5. WritersKept
  BY <1>1, ListsEmpty DEF WritersKept, WriterStage, WritersRegistered
<1>6. ReadersKept
  BY <1>1, ListsEmpty DEF ReadersKept, ReaderStage, ReadersRegistered
<1>7. TakenRestored
  <2>1. \A t \in Tasks : TakesFit(todo[t])
    BY <1>1 DEF TakesFit
  <2> QED
    BY <1>1, <2>1 DEF TakenRestored
<1> QED
  BY <1>2, <1>3, <1>4, <1>5, <1>6, <1>7 DEF IInv, Control

(* The variables the invariant is about. *)
watched == <<rh, wh, ofr, ofw, of, taken, open, raced, call, todo, panic>>

LEMMA IdleKeeps == IInv /\ UNCHANGED watched => IInv'
<1> SUFFICES ASSUME IInv, UNCHANGED watched PROVE IInv'
  OBVIOUS
<1>1. /\ \A t \in Tasks : /\ Opening(t)' <=> Opening(t)
                          /\ OpeningW(t)' <=> OpeningW(t)
                          /\ Releasing(t)' <=> Releasing(t)
      /\ call' = call /\ todo' = todo /\ of' = of /\ open' = open
  BY DEF watched, Opening, OpeningW, Releasing
<1>2. Control'
  <2>1. TablesTyped'
    BY DEF IInv, Control, TablesTyped, watched
  <2>2. CallsTyped'
    <3>1. CallsTyped
      BY DEF IInv, Control
    <3> HIDE DEF Instructions
    <3> QED
      BY <1>1, <3>1 DEF CallsTyped
  <2>3. Owned' /\ OneRegisters' /\ OpensCalm'
    <3>1. \A t \in Tasks : \A i \in Inodes : Registers(t, i)' <=> Registers(t, i)
      BY <1>1 DEF Registers
    <3>2. raced' = raced
      BY DEF watched
    <3> QED
      BY <1>1, <3>1, <3>2 DEF IInv, Control, Owned, OneRegisters, OpensCalm
  <2> QED
    BY <2>1, <2>2, <2>3 DEF Control
<1>3. WritersKept'
  <2>1. WritersKept
    BY DEF IInv
  <2> QED
    BY <1>1, <2>1 DEF WritersKept, WriterStage, WritersRegistered, HasW, watched
<1>4. ReadersKept'
  <2>1. ReadersKept
    BY DEF IInv
  <2> QED
    BY <1>1, <2>1 DEF ReadersKept, ReaderStage, ReadersRegistered, HasR, watched
<1>5. TakenRestored'
  <2>1. TakenRestored
    BY DEF IInv
  <2> QED
    BY <1>1, <2>1 DEF TakenRestored, Restores, watched
<1> QED
  BY <1>2, <1>3, <1>4, <1>5 DEF IInv

LEMMA NextIInv == IInv /\ [Next]_vars => IInv'
<1> SUFFICES ASSUME IInv, [Next]_vars PROVE IInv'
  OBVIOUS
<1>1. ASSUME NEW t \in Tasks, NEW i \in Inodes, NEW read \in BOOLEAN, NEW write \in BOOLEAN,
             Open(t, i, read, write)
      PROVE  IInv'
  BY <1>1, OpenBegins
<1>2. ASSUME NEW t \in Tasks, NEW i \in Inodes, SetLen(t, i) PROVE IInv'
  BY <1>2, SetLenBegins
<1>3. ASSUME NEW t \in Tasks, NEW i \in Inodes, GetAttrCall(t, i) PROVE IInv'
  BY <1>3, GetAttrBegins
<1>4. ASSUME NEW t \in Tasks, NEW h \in Handles, Read(t, h) PROVE IInv'
  BY <1>4, ReadBegins
<1>5. ASSUME NEW t \in Tasks, NEW h \in Handles, Write(t, h) PROVE IInv'
  BY <1>5, WriteBegins
<1>6. ASSUME NEW t \in Tasks, NEW h \in Handles, Flush(t, h) PROVE IInv'
  BY <1>6, FlushBegins
<1>7. ASSUME NEW t \in Tasks, NEW h \in Handles, Release(t, h) PROVE IInv'
  BY <1>7, ReleaseBegins
<1>8. ASSUME NEW t \in Tasks, Run(t) PROVE IInv'
  <2>1. CallsTyped
    BY DEF IInv, Control
  <2>2. CASE call[t] # None /\ Fails(todo[t][1]) /\ Panics(t, todo[t][1])
    BY <2>2, PanicKeeps
  <2>3. ASSUME NEW l, Stepped(t, todo[t][1], l) PROVE IInv'
    BY <2>3, StepKeeps
  <2> QED
    BY <1>8, <2>1, <2>2, <2>3, RunCases
<1>9. ASSUME NEW t \in Tasks, Queue(t) PROVE IInv'
  <2>1. UNCHANGED watched
    BY <1>9 DEF Queue, watched, tables
  <2> QED
    BY <2>1, IdleKeeps
<1>10. CASE UNCHANGED vars
  <2>1. UNCHANGED watched
    BY <1>10 DEF vars, watched
  <2> QED
    BY <2>1, IdleKeeps
<1> QED
  BY <1>1, <1>2, <1>3, <1>4, <1>5, <1>6, <1>7, <1>8, <1>9, <1>10 DEF Next, Calls

(* Through every interleaving of the calls each handle is either settled   *)
(* in its two tables or in the hands of the one open or release that is    *)
(* about to settle it, at the instruction its stage says.                  *)
THEOREM Invariance == Spec => []IInv
<1>1. Init => IInv
  BY InitIInv
<1>2. IInv /\ [Next]_vars => IInv'
  BY NextIInv
<1> QED
  BY <1>1, <1>2, PTL DEF Spec

-----------------------------------------------------------------------------
(* A writer that no open is about to register is the one its file has. *)
LEMMA WriterIsRegistered ==
    ASSUME IInv, NEW h \in wh, \A t \in Tasks : Opening(t) => call[t].h # h
    PROVE  of[h] # None /\ (ofw[of[h]] = h \/ of[h] \in raced)
BY DEF IInv, WritersKept, WritersRegistered, OpeningW

(* A file has at most one handle open for writing, whatever calls run next *)
(* to each other, unless two opens looked it up in opened_files_for_write  *)
(* before either registered its handle: a writer somebody has, or          *)
(* releases, is registered until the release removed its context, so that  *)
(* this race is the only way to a second one.                              *)
THEOREM OneWriterHolds == Spec => []OneWriter
<1>1. IInv => OneWriter
  <2> SUFFICES ASSUME IInv, NEW g \in open \cap wh, NEW h \in open \cap wh, of[g] = of[h],
                      of[g] \notin raced
               PROVE  g = h
    BY DEF OneWriter
  <2>1. \A k \in open : \A t \in Tasks : Opening(t) => call[t].h # k
    BY DEF IInv, Control, Owned
  <2>2. ofw[of[g]] = g /\ ofw[of[h]] = h
    BY <2>1, WriterIsRegistered
  <2> QED
    BY <2>2
<1>2. Spec => []IInv
  BY Invariance
<1> QED
  BY <1>1, <1>2, PTL

(* Whenever no call runs and none has died, the tables of handles agree:   *)
(* what has a context is registered and the other way round, but for the   *)
(* writers of a file whose opens raced, and every writer that              *)
(* flush_and_reset_writers or reset_handles took out is back.  It is the   *)
(* first part of SettledWhenIdle.                                          *)
THEOREM TablesAgreeWhenIdle == Spec => [](Idle /\ panic = {} => TablesAgree)
<1>1. IInv => (Idle /\ panic = {} => TablesAgree)
  <2> SUFFICES ASSUME IInv, Idle, panic = {} PROVE TablesAgree
    OBVIOUS
  <2>1. /\ TablesTyped /\ CallsTyped /\ WritersRegistered /\ ReadersRegistered /\ TakenRestored
    BY DEF IInv, Control, WritersKept, ReadersKept
  <2>2. \A t \in Tasks : ~Opening(t) /\ ~Releasing(t) /\ ~OpeningW(t) /\ todo[t] = <<>>
    BY <2>1 DEF Idle, Opening, OpeningW, Releasing, CallsTyped
  <2>3. rh = ofr
    BY <2>1, <2>2 DEF ReadersRegistered
  <2>4. ASSUME NEW h \in Handles, of[h] \notin raced
        PROVE  h \in wh <=> of[h] # None /\ ofw[of[h]] = h
    <3>1. ASSUME h \in wh PROVE of[h] # None /\ ofw[of[h]] = h
      BY <2>1, <2>2, <2>4, <3>1 DEF WritersRegistered
    <3>2. ASSUME of[h] # None, ofw[of[h]] = h PROVE h \in wh
      <4>1. of[h] \in Inodes /\ h # None
        BY <2>1, <3>2, FileCallsAssumption DEF CallsTyped
      <4> QED
        BY <2>1, <2>2, <2>4, <3>2, <4>1 DEF WritersRegistered
    <3> QED
      BY <3>1, <3>2
  <2>5. taken = {}
    <3>1. \A t \in Tasks : \A h : ~Restores(t, h)
      BY <2>2 DEF Restores
    <3> QED
      BY <2>1, <3>1 DEF TakenRestored
  <2> QED
    BY <2>3, <2>4, <2>5 DEF TablesAgree
<1>2. Spec => []IInv
  BY Invariance
<1> QED
  BY <1>1, <1>2, PTL

=============================================================================
