----------------------------- MODULE FileCalls -----------------------------
(***************************************************************************)
(* The calls of EncryptedFs on open files (src/encryptedfs.rs) as they run *)
(* next to each other.  fuse3 runs every request as a task of its own, and *)
(* a task can be suspended wherever the code awaits a lock; OpenFiles has  *)
(* the same calls as single steps.                                         *)
(*                                                                         *)
(* A running call is a list of instructions.  Each one awaits a lock, does *)
(* what the code does up to its next await, and puts the instructions that *)
(* follow from what it found in front of the list; "free" stands for the   *)
(* guards that go out of scope.  The locks are tokio's: first come, first  *)
(* served, so that a reader waits behind a writer that waits.              *)
(*                                                                         *)
(* Left out: the locks of inode files and of the attribute cache, which    *)
(* are never held while another of these locks is awaited, the same for    *)
(* the context of a read handle in get_attr, and failures of the host.     *)
(***************************************************************************)
EXTENDS Naturals, Sequences, FiniteSets, SequencesExt

CONSTANTS
    Tasks, Inodes, Handles,
    Ops,           \* the calls made, see AllOps
    None

AllOps == {"open", "read", "write", "flush", "release", "set_len", "getattr"}

(* A running call: its inode, its handle if it has one, and whether an     *)
(* open is for writing.                                                    *)
CallRecords == [op : AllOps, ino : Inodes, h : Handles \cup {None}, write : BOOLEAN]

ASSUME FileCallsAssumption ==
    /\ IsFiniteSet(Tasks) /\ IsFiniteSet(Handles)
    /\ Ops \subseteq AllOps
    /\ None \notin Tasks \cup Inodes \cup Handles \cup CallRecords

VARIABLES
    rh, wh,      \* read_handles, write_handles: the handles in them
    ofr, ofw,    \* opened_files_for_read: its handles; opened_files_for_write[i]: a handle or None
    of,          \* of[h]: the inode handle h was made for, None while it is not used
    taken,       \* write contexts without a writer to use: taken out, or finished
    buf,         \* buf[h]: what the reader of h has buffered: nothing, or a block, stale or not
    open,        \* handles the clients were given and did not release
    raced,       \* files that two opens found not open for writing, see TablesAfter
    call,        \* call[t]: the call that task t runs, or None
    todo,        \* todo[t]: its instructions
    rd, wr,      \* rd[l][t]: read guards of t on lock l; wr[l]: the task with its write guard
    queue,       \* queue[l]: the tasks that wait for lock l
    panic        \* handles on which an unwrap failed, or the use of a finished writer

tables == <<rh, ofr, ofw, of, taken, buf, open, raced>>
vars == <<rh, wh, ofr, ofw, of, taken, buf, open, raced, call, todo, rd, wr, queue, panic>>

-----------------------------------------------------------------------------
(* Locks. *)

OFR == <<"opened_files_for_read">>
OFW == <<"opened_files_for_write">>
RH == <<"read_handles">>
WH == <<"write_handles">>
TableLocks == {OFR, OFW, RH, WH}
RW(i) == <<"read_write_locks", i>>
UP(i) == <<"serialize_update_inode_locks", i>>
RC(h) == <<"ReadHandleContext", h>>
WC(h) == <<"WriteHandleContext", h>>
Locks == TableLocks \cup {RW(i) : i \in Inodes} \cup {UP(i) : i \in Inodes}
           \cup {RC(h) : h \in Handles} \cup {WC(h) : h \in Handles}

(* Instructions: await lock on and do act; free the locks on. *)
Await(act, on, mode, i, h) == [act |-> act, on |-> {on}, mode |-> mode, ino |-> i, h |-> h]
Free(ls) == [act |-> "free", on |-> ls, mode |-> "", ino |-> None, h |-> None]
LockOf(s) == CHOOSE l \in s.on : TRUE

(* Task t waits in the queue of a lock. *)
Waits(t) == \E l \in Locks : Contains(queue[l], t)

(* Nobody is in the way of task t but those before it in the queue. *)
Available(l, mode) ==
    /\ wr[l] = None
    /\ mode = "w" => \A t \in Tasks : rd[l][t] = 0

-----------------------------------------------------------------------------
(* The calls, as far as they are the same wherever they appear. *)

(* get_attr that returns with the guard of opened_files_for_write. *)
GetAttrKeepsGuard(i) ==
    << Await("readers", OFR, "r", i, None), Await("hold", OFW, "r", i, None) >>

GetAttr(i) == << Await("readers", OFR, "r", i, None), Await("writer", OFW, "r", i, None) >>

(* set_attr2 that takes the inode's lock by itself. *)
SetAttrLocksInode(i) ==
    << Await("hold", RW(i), "w", i, None), Await("update", UP(i), "w", i, None), Free({RW(i)}) >>

SetAttr(i) == << Await("update", UP(i), "w", i, None) >>

(* reset_handles without the part for the readers. *)
ResetWritersOnly(i, h) == << Await("resetWriter", OFW, "r", i, h) >>

(* reset_handles; h is the handle it skips. *)
Reset(i, h) == << Await("resetReaders", OFR, "r", i, h), Await("resetWriter", OFW, "r", i, h) >>

(* do_with_read_handle that registers the handle before it has a context. *)
AddReaderRegistersFirst(i, h) == << Await("regR", OFR, "w", i, h), Await("addR", RH, "w", i, h) >>

(* do_with_read_handle and do_with_write_handle. *)
AddReader(i, h) == << Await("addR", RH, "w", i, h), Await("regR", OFR, "w", i, h) >>
AddWriter(i, h) == GetAttr(i) \o << Await("addW", WH, "w", i, h), Await("regW", OFW, "w", i, h) >>

Readers(i) == {h \in ofr : of[h] = i}

(* What instruction s takes for granted does not hold: an unwrap finds     *)
(* nothing, or a finished writer refuses.                                  *)
Fails(s) ==
    \/ s.act \in {"read", "reset"} /\ s.h \notin rh
    \/ s.act \in {"write", "restore"} /\ s.h \notin wh
    \/ s.act \in {"store", "sync", "finishW", "take"} /\ s.h \in taken
    \/ s.act = "delW" /\ s.h \in wh \cap taken

(* What a task has to do after instruction s, given what s finds.  First   *)
(* get_attr and, from "update" and "cut" on, set_attr2.                    *)
AttrSteps(s) ==
    CASE s.act = "readers" ->
           <<Free(s.on)>>
           \o IF Readers(s.ino) # {} THEN <<Await("visit", RH, "r", s.ino, None)>> ELSE <<>>
      [] s.act = "writer" ->
           <<Free(s.on)>>
           \o IF ofw[s.ino] # None THEN <<Await("peek", WH, "r", s.ino, ofw[s.ino])>> ELSE <<>>
      [] s.act = "peek" ->
           (IF s.h \in wh THEN <<Await("visit", WC(s.h), "w", s.ino, s.h)>> ELSE <<>>)
           \o <<Free(s.on)>>
      [] s.act \in {"update", "cut"} -> GetAttr(s.ino) \o <<Free(s.on)>>

(* reset_handles: the guards of both tables of readers are held while the  *)
(* attributes of each are saved.                                           *)
ResetSteps(s) ==
    CASE s.act = "resetReaders" ->
           LET rs == SetToSeq(Readers(s.ino) \ {s.h})
           IN  [n \in 1..Len(rs) |-> Await("reset", RH, "r", s.ino, rs[n])] \o <<Free(s.on)>>
      [] s.act = "reset" ->
           SetAttr(s.ino) \o <<Await("renew", RC(s.h), "w", s.ino, s.h), Free({RC(s.h), RH})>>
      [] s.act = "resetWriter" ->
           (IF ofw[s.ino] \in {None, s.h} THEN <<>>
            ELSE <<Await(IF s.h = None THEN "resetW" ELSE "resetSaveW", WH, "r",
                         s.ino, ofw[s.ino])>>)
           \o <<Free(s.on)>>
      [] s.act \in {"resetW", "resetSaveW"} ->
           (IF s.h \in wh
            THEN <<Await("finishW", WC(s.h), "w", s.ino, s.h), Free({WC(s.h)})>>
                 \o (IF s.act = "resetSaveW" THEN SetAttr(s.ino) ELSE <<>>)
                 \o <<Await("giveBack", WC(s.h), "w", s.ino, s.h), Free({WC(s.h)})>>
            ELSE <<>>) \o <<Free(s.on)>>

(* open that does not look who has the file open for writing. *)
OpenStepsUnchecked(s) == <<Free(s.on)>> \o AddWriter(s.ino, s.h)

(* open for writing, once opened_files_for_write was looked up. *)
OpenSteps(s) ==
    <<Free(s.on)>> \o IF ofw[s.ino] # None THEN <<>> ELSE AddWriter(s.ino, s.h)

ReadSteps(s) == <<Await("fetch", RC(s.h), "w", s.ino, s.h), Free({RC(s.h), RH, RW(s.ino)})>>

(* write drops the inode's lock, not the guard of write_handles, before it *)
(* resets the other handles.                                               *)
WriteSteps(s) ==
    <<Await("store", WC(s.h), "w", s.ino, s.h), Free({WC(s.h), RW(s.ino)})>>
    \o Reset(s.ino, s.h) \o <<Free(s.on)>>

(* flush: the context before the inode's lock. *)
FlushSteps(s) ==
    (IF s.h \in wh
     THEN << Await("hold", WC(s.h), "w", s.ino, s.h), Await("sync", RW(s.ino), "w", s.ino, s.h),
             Free({RW(s.ino), WC(s.h)}) >> \o Reset(s.ino, s.h)
     ELSE <<>>) \o <<Free(s.on)>>

ReleaseSteps(s) ==
    CASE s.act = "delR" ->
           <<Free(s.on)>>
           \o IF s.h \in rh THEN <<Await("unregR", OFR, "w", s.ino, s.h)>> \o SetAttr(s.ino)
              ELSE <<>>
      [] s.act = "delW" ->
           <<Free(s.on)>>
           \o IF s.h \in wh
              THEN <<Await("finish", RW(s.ino), "w", s.ino, s.h),
                     Await("unregW", OFW, "w", s.ino, s.h)>> \o Reset(s.ino, s.h)
              ELSE <<>>
      [] s.act = "finish" -> SetAttr(s.ino) \o <<Free(s.on)>>

(* set_len with the lock of the inode, and flush_and_reset_writers, which  *)
(* takes the writer out and later puts a new one into the same context.    *)
SetLenSteps(s) ==
    CASE s.act = "truncate" ->
           << Await("flushW", OFW, "r", s.ino, None), Await("cut", UP(s.ino), "w", s.ino, None) >>
           \o GetAttr(s.ino) \o Reset(s.ino, None) \o GetAttr(s.ino) \o <<Free(s.on)>>
      [] s.act = "flushW" ->
           IF ofw[s.ino] = None THEN <<Free(s.on)>>
           ELSE <<Await("takeW", WH, "w", s.ino, ofw[s.ino])>>
      [] s.act = "takeW" ->
           IF s.h \in wh
           THEN <<Await("take", WC(s.h), "w", s.ino, s.h), Free({WC(s.h), OFW, WH})>>
                \o SetAttr(s.ino) \o Reset(s.ino, s.h) \o <<Await("restore", WH, "w", s.ino, s.h)>>
           ELSE <<Free({OFW, WH})>>
      [] s.act = "restore" -> <<Await("giveBack", WC(s.h), "w", s.ino, s.h), Free({WC(s.h), WH})>>

Follow(s) ==
    CASE s.act \in {"readers", "writer", "peek", "update", "cut"} -> AttrSteps(s)
      [] s.act \in {"resetReaders", "reset", "resetWriter", "resetW", "resetSaveW"} -> ResetSteps(s)
      [] s.act = "checkW" -> OpenSteps(s)
      [] s.act = "read" -> ReadSteps(s)
      [] s.act = "write" -> WriteSteps(s)
      [] s.act = "flush" -> FlushSteps(s)
      [] s.act \in {"delR", "delW", "finish"} -> ReleaseSteps(s)
      [] s.act \in {"truncate", "flushW", "takeW", "restore"} -> SetLenSteps(s)
      \* a guard of one statement
      [] s.act \in {"visit", "addR", "regR", "addW", "regW", "unregR", "unregW"} -> <<Free(s.on)>>
      \* a guard that stays
      [] s.act \in {"hold", "renew", "finishW", "fetch", "store", "sync", "take", "giveBack"} -> <<>>

-----------------------------------------------------------------------------
(* One step of a task. *)

(* The contents file changes: what other readers have buffered is stale. *)
Stores(s) == s.act \in {"store", "sync", "finishW", "finish", "take", "cut"}

(* An open of i that found the file not open for writing and has yet to    *)
(* register its handle.                                                    *)
Registers(t, i) ==
    \E n \in 1..Len(todo[t]) : todo[t][n].act = "regW" /\ todo[t][n].ino = i

(* raced is what the code does not know: that a lookup of open found       *)
(* nothing because the handle of another open was not registered yet.      *)
TablesAfter(s) ==
    /\ rh' = CASE s.act = "addR" -> rh \cup {s.h} [] s.act = "delR" -> rh \ {s.h} [] OTHER -> rh
    /\ wh' = CASE s.act = "addW" -> wh \cup {s.h} [] s.act = "delW" -> wh \ {s.h} [] OTHER -> wh
    /\ ofr' = CASE s.act = "regR" -> ofr \cup {s.h} [] s.act = "unregR" -> ofr \ {s.h}
                [] OTHER -> ofr
    /\ ofw' = CASE s.act = "regW" -> [ofw EXCEPT ![s.ino] = s.h]
                [] s.act = "unregW" -> [ofw EXCEPT ![s.ino] = None] [] OTHER -> ofw
    /\ taken' = CASE s.act \in {"take", "finishW"} -> taken \cup {s.h}
                  [] s.act = "giveBack" -> taken \ {s.h} [] OTHER -> taken
    /\ raced' = IF s.act = "checkW" /\ ofw[s.ino] = None /\ \E t \in Tasks : Registers(t, s.ino)
                THEN raced \cup {s.ino} ELSE raced
    /\ buf' = [g \in Handles |->
                 CASE s.act \in {"addR", "renew"} /\ g = s.h -> "empty"
                   [] s.act = "fetch" /\ g = s.h /\ buf[g] = "empty" -> "fresh"
                   [] Stores(s) /\ of[g] = s.ino /\ g # s.h /\ buf[g] = "fresh" -> "stale"
                   [] OTHER -> buf[g]]

(* The number of guards that go out of scope at the head of a list. *)
Frees(ins) ==
    Cardinality({n \in 1..Len(ins) : \A m \in 1..n : ins[m].act = "free"})

(* Task t gets the lock of instruction s and frees those that the list ins *)
(* begins with.                                                            *)
Guards(t, s, ins) ==
    LET l0 == LockOf(s)
        k == Frees(ins)
        freed(l) == Cardinality({n \in 1..k : l \in ins[n].on})
        got(l, mode) == IF l = l0 /\ s.mode = mode THEN 1 ELSE 0
        wrote(l) == wr[l] = t \/ got(l, "w") = 1
    IN  /\ wr' = [l \in Locks |-> IF wrote(l) THEN (IF freed(l) > 0 THEN None ELSE t) ELSE wr[l]]
        /\ rd' = [l \in Locks |-> IF wrote(l) THEN rd[l]
                                  ELSE [rd[l] EXCEPT ![t] = @ + got(l, "r") - freed(l)]]
        /\ queue' = [queue EXCEPT ![l0] = SelectSeq(@, LAMBDA x : x # t)]

(* The call of t has returned: open hands out the handle it made. *)
Returns(t) ==
    /\ call' = [call EXCEPT ![t] = None]
    /\ open' = IF call[t].op = "open" /\ (call[t].write => call[t].h \in wh')
               THEN open \cup {call[t].h} ELSE open

(* A panic unwinds the task, an error returns from it: all its guards go.  *)
(* release has taken the context out of its table before it looks for the  *)
(* writer.                                                                 *)
Panics(t, s) ==
    /\ panic' = panic \cup {s.h}
    /\ todo' = [todo EXCEPT ![t] = <<>>]
    /\ call' = [call EXCEPT ![t] = None]
    /\ wr' = [l \in Locks |-> IF wr[l] = t THEN None ELSE wr[l]]
    /\ rd' = [l \in Locks |-> [rd[l] EXCEPT ![t] = 0]]
    /\ queue' = [queue EXCEPT ![LockOf(s)] = SelectSeq(@, LAMBDA x : x # t)]
    /\ wh' = IF s.act = "delW" THEN wh \ {s.h} ELSE wh
    /\ UNCHANGED tables

(* t is served and goes on to its next await. *)
Run(t) ==
    /\ call[t] # None
    /\ LET s == Head(todo[t])
           l == LockOf(s)
           ins == Follow(s) \o Tail(todo[t])
           left == SubSeq(ins, Frees(ins) + 1, Len(ins))
       IN  /\ queue[l] # <<>> => Head(queue[l]) = t
           /\ Available(l, s.mode)
           /\ IF Fails(s) THEN Panics(t, s)
              ELSE /\ TablesAfter(s)
                   /\ Guards(t, s, ins)
                   /\ todo' = [todo EXCEPT ![t] = left]
                   /\ IF left = <<>> THEN Returns(t) ELSE UNCHANGED <<call, open>>
                   /\ UNCHANGED <<of, panic>>

(* t has to wait. *)
Queue(t) ==
    /\ call[t] # None /\ ~Waits(t)
    /\ LET s == Head(todo[t])
           l == LockOf(s)
       IN  /\ ~(queue[l] = <<>> /\ Available(l, s.mode))
           /\ queue' = [queue EXCEPT ![l] = Append(@, t)]
    /\ UNCHANGED <<tables, wh, call, todo, rd, wr, panic>>

-----------------------------------------------------------------------------
(* The calls of the clients. *)

Start(t, op, i, h, write, ins) ==
    /\ call[t] = None /\ op \in Ops
    /\ call' = [call EXCEPT ![t] = [op |-> op, ino |-> i, h |-> h, write |-> write]]
    /\ todo' = [todo EXCEPT ![t] = ins]
    /\ UNCHANGED <<rh, wh, ofr, ofw, taken, buf, raced, rd, wr, queue, panic>>

(* A new handle; numbers are not used again. *)
Open(t, i, read, write) ==
    \E h \in {g \in Handles : of[g] = None} :
        /\ read \/ write
        /\ Start(t, "open", i, h, write,
                 (IF read THEN AddReader(i, h) ELSE <<>>)
                 \o IF write THEN <<Await("checkW", OFW, "r", i, h)>> ELSE <<>>)
        /\ of' = [of EXCEPT ![h] = i]
        /\ UNCHANGED open

Read(t, h) ==
    /\ h \in open /\ h \in rh
    /\ Start(t, "read", of[h], h, FALSE,
             << Await("visit", RH, "r", of[h], h), Await("hold", RW(of[h]), "r", of[h], h),
                Await("read", RH, "r", of[h], h) >>)
    /\ UNCHANGED <<of, open>>

Write(t, h) ==
    /\ h \in open /\ h \in wh
    /\ Start(t, "write", of[h], h, TRUE,
             << Await("peek", WH, "r", of[h], h), Await("hold", RW(of[h]), "w", of[h], h),
                Await("write", WH, "r", of[h], h) >>)
    /\ UNCHANGED <<of, open>>

Flush(t, h) ==
    /\ h \in open
    /\ Start(t, "flush", of[h], h, FALSE,
             << Await("visit", RH, "r", of[h], h), Await("flush", WH, "r", of[h], h) >>)
    /\ UNCHANGED <<of, open>>

(* The kernel releases a handle when no other call uses it. *)
Release(t, h) ==
    /\ h \in open
    /\ \A s \in Tasks : call[s] # None => call[s].h # h
    /\ Start(t, "release", of[h], h, FALSE,
             << Await("delR", RH, "w", of[h], h), Await("delW", WH, "w", of[h], h) >>)
    /\ open' = open \ {h}
    /\ UNCHANGED of

SetLen(t, i) ==
    /\ Start(t, "set_len", i, None, FALSE,
             GetAttr(i) \o <<Await("truncate", RW(i), "w", i, None)>>)
    /\ UNCHANGED <<of, open>>

GetAttrCall(t, i) ==
    /\ Start(t, "getattr", i, None, FALSE, GetAttr(i))
    /\ UNCHANGED <<of, open>>

Init ==
    /\ rh = {} /\ wh = {} /\ ofr = {} /\ taken = {} /\ open = {} /\ raced = {} /\ panic = {}
    /\ ofw = [i \in Inodes |-> None]
    /\ of = [h \in Handles |-> None]
    /\ buf = [h \in Handles |-> "empty"]
    /\ call = [t \in Tasks |-> None]
    /\ todo = [t \in Tasks |-> <<>>]
    /\ rd = [l \in Locks |-> [t \in Tasks |-> 0]]
    /\ wr = [l \in Locks |-> None]
    /\ queue = [l \in Locks |-> <<>>]

Calls(t) ==
    \/ \E i \in Inodes :
        \/ \E read, write \in BOOLEAN : Open(t, i, read, write)
        \/ SetLen(t, i)
        \/ GetAttrCall(t, i)
    \/ \E h \in Handles : Read(t, h) \/ Write(t, h) \/ Flush(t, h) \/ Release(t, h)

Next == \E t \in Tasks : Calls(t) \/ Run(t) \/ Queue(t)

Spec == Init /\ [][Next]_vars

-----------------------------------------------------------------------------
(* Handles are registered for one inode, and only running calls hold or    *)
(* await locks, through every interleaving of the calls.                   *)
TypeOK ==
    /\ {rh, wh, ofr, taken, open, panic} \subseteq SUBSET Handles
    /\ raced \subseteq Inodes
    /\ ofw \in [Inodes -> Handles \cup {None}]
    /\ of \in [Handles -> Inodes \cup {None}]
    /\ buf \in [Handles -> {"empty", "fresh", "stale"}]
    /\ wr \in [Locks -> Tasks \cup {None}]
    /\ \A l \in Locks : rd[l] \in [Tasks -> 0..3] /\ ToSet(queue[l]) \subseteq Tasks
    /\ \A t \in Tasks : call[t] = None =>
         ~Waits(t) /\ todo[t] = <<>> /\ \A l \in Locks : rd[l][t] = 0 /\ wr[l] # t

(* "We can open multiple times for read but only one to write at a time."  *)
(* (open)  It does not hold: the lookup in opened_files_for_write and the  *)
(* registration are separate steps with awaits in between.                 *)
OnlyOneToWrite ==
    \A g, h \in open \cap wh : of[g] = of[h] => g = h

(* What is left of it: a file gets a second writer only after the lookups  *)
(* of two opens both came before either registered its handle.  Neither    *)
(* release, set_len and reset_handles, which drop, take out and replace    *)
(* writers next to the opens, nor an open that comes later makes one.      *)
OneWriter ==
    \A g, h \in open \cap wh : of[g] = of[h] /\ of[g] \notin raced => g = h

Idle == \A t \in Tasks : call[t] = None

(* The two tables of readers agree, so do the two of writers, and every    *)
(* writer is in its context.  Of two writers of a file only one is         *)
(* registered, and the release of the other removes it.                    *)
TablesAgree ==
    /\ rh = ofr
    /\ \A h \in Handles : of[h] \in raced \/ (h \in wh <=> of[h] # None /\ ofw[of[h]] = h)
    /\ taken = {}

(* Whenever no call runs and none has died, the tables of handles agree,   *)
(* and a reader that keeps a block from before the last change of its file *)
(* is about to be reset: another handle has the file open for writing, and *)
(* its flush and its release reset the readers.  (write, flush and release *)
(* drop the inode's lock before they reset the readers; the release of one *)
(* writer may store what the next one wrote after it reset the readers.)   *)
SettledWhenIdle ==
    Idle /\ panic = {} =>
        /\ TablesAgree
        /\ \A h \in rh : buf[h] = "stale" => of[h] \in raced \/ ofw[of[h]] \notin {None, h}

(* The first unwrap or use of a writer that fails does so while a release  *)
(* of the same file runs, or the file has two writers: read, write, flush, *)
(* set_len and reset_handles do not disturb each other.  (A writer that    *)
(* was taken by a call that died is missing for every later call.)         *)
UnwrapsRaceRelease ==
    [][panic = {} => \A h \in panic' :
         \/ of[h] \in raced
         \/ \E t \in Tasks : call[t] # None /\ call[t].op = "release" /\ call[t].ino = of[h]]_vars

(* The tasks that are in the way of t. *)
Blockers(t) ==
    UNION { LET n == CHOOSE k \in 1..Len(queue[l]) : queue[l][k] = t
            IN  {queue[l][k] : k \in 1..(n - 1)} \cup {s \in Tasks : wr[l] = s}
                  \cup {s \in Tasks : rd[l][s] > 0 /\ Head(todo[t]).mode = "w"}
            : l \in {k \in Locks : Contains(queue[k], t)} }

(* Waiting in a circle. *)
Deadlocked(t) ==
    \E S \in SUBSET Tasks :
        /\ t \in S
        /\ \A s \in S : Waits(s) /\ Blockers(s) \cap S # {}

(* Task t awaits one lock with the guard of a table in its hands. *)
HoldsTable(t) == \E l \in TableLocks : rd[l][t] > 0 \/ wr[l] = t

(* Whoever waits in a circle, one of them holds a table's guard over an    *)
(* await, as reset_handles, write and flush do: the locks of inodes,       *)
(* updates and contexts alone never block each other.                      *)
DeadlocksHoldTables ==
    \A t \in Tasks : Deadlocked(t) => \E s \in Tasks : Deadlocked(s) /\ HoldsTable(s)
=============================================================================
