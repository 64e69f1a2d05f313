----------------------------- MODULE Namespace -----------------------------
(***************************************************************************)
(* The directory tree of EncryptedFs (src/encryptedfs.rs): the inode file, *)
(* the contents file or directory of every inode, and in each directory    *)
(* the HASH entries (looked up by name) and the LS entries (listed), under *)
(* create, remove_file, remove_dir, rename and mounting.                   *)
(*                                                                         *)
(* A call is a plan: phases that run one after another, each a set of      *)
(* branches that run concurrently (the tasks of the JoinSet in create, the *)
(* two spawned tasks of insert_directory_entry), each a sequence of host   *)
(* operations.  One host operation is one step, so that the process may    *)
(* stop, or a host operation fail, between any two of them; only the three *)
(* create_dir calls of a new directory, and the LS and HASH entries of     *)
(* "$." and of "$..", are one step each.  Calls do not overlap: the kernel *)
(* holds the directories of a call locked.  But a task that a failed call  *)
(* leaves behind ends at any later point, also in the middle of a later    *)
(* call.  Left out: the updates of times at the end of every call, which   *)
(* rewrite inode files that exist, the caches of attributes and entries,   *)
(* and the open with which create may end (OpenFiles).                     *)
(***************************************************************************)
EXTENDS Naturals, Sequences, FiniteSets

CONSTANTS
    Inodes, Root, Names,
    Ops,     \* the calls made, see AllOps
    Env,     \* what may go wrong: "crash", "fault"
    None

AllOps == {"create", "remove", "rename", "rename_over"}
Kinds == {"file", "dir"}
CallRecords == [op : AllOps \cup {"mount"}, ino : Inodes, kind : Kinds]

ASSUME NamespaceAssumption ==
    /\ Root \in Inodes
    /\ None \notin Inodes /\ None \notin Kinds /\ None \notin CallRecords
    /\ Ops \subseteq AllOps
    /\ Env \subseteq {"crash", "fault"}

VARIABLES
    inodes,    \* inodes[i]: the kind in the inode file, or None
    contents,  \* contents[i]: kind of the contents path, or None
    hash,      \* hash[d][n]: inode in the HASH entry n of directory d, or None
    ls,        \* LS entries; their file names differ for every insertion
    dot, up,   \* dot[d]: d has its "$." entry; up[d]: its "$.." entry, or None
    used,      \* inode numbers given out: generate_next_inode draws 64 random bits
    cut,       \* inodes whose calls a crash or an error cut short, or that rename replaced
    mounted,
    call,      \* the call being run, None if there is none
    todo,      \* what is left of its plan
    late       \* steps of spawned tasks whose call has returned an error

tree == <<inodes, contents, hash, ls, dot, up>>
vars == <<inodes, contents, hash, ls, dot, up, used, cut, mounted, call, todo, late>>

Entry(d, n, i) == [dir |-> d, name |-> n, ino |-> i]
Entries == [dir : Inodes, name : Names, ino : Inodes]
LateSteps == [act : {"ls", "hash"}, dir : Inodes, name : Names, ino : Inodes]

(* Directory entries, contents and caches name inodes that can exist,      *)
(* whatever create, remove and rename write in whatever order.             *)
TypeOK ==
    /\ inodes \in [Inodes -> Kinds \cup {None}]
    /\ contents \in [Inodes -> Kinds \cup {None}]
    /\ hash \in [Inodes -> [Names -> Inodes \cup {None}]]
    /\ ls \subseteq Entries
    /\ dot \in [Inodes -> BOOLEAN]
    /\ up \in [Inodes -> Inodes \cup {None}]
    /\ used \subseteq Inodes
    /\ cut \subseteq Inodes
    /\ mounted \in BOOLEAN
    /\ late \subseteq LateSteps

(* An empty data directory. *)
Init ==
    /\ inodes = [i \in Inodes |-> None]
    /\ contents = [i \in Inodes |-> None]
    /\ hash = [i \in Inodes |-> [n \in Names |-> None]]
    /\ ls = {}
    /\ dot = [i \in Inodes |-> FALSE]
    /\ up = [i \in Inodes |-> None]
    /\ used = {Root}
    /\ cut = {}
    /\ mounted = FALSE
    /\ call = None
    /\ todo = <<>>
    /\ late = {}

-----------------------------------------------------------------------------
(* Lookups. *)

exists(i) == inodes[i] # None
is_dir(i) == contents[i] = "dir"

(* find_by_name finds the name and its inode. *)
Found(d, n) == hash[d][n] # None /\ exists(hash[d][n])

(* len(d) = 0: the listing has the "." and ".." entries and no others; a   *)
(* shorter listing makes the count wrap around.                            *)
EmptyDir(d) ==
    /\ is_dir(d)
    /\ Cardinality({e \in ls : e.dir = d}) + (IF dot[d] THEN 1 ELSE 0)
         + (IF up[d] # None THEN 1 ELSE 0) = IF d = Root THEN 1 ELSE 2

(* q lies in the subtree of i: the kernel refuses to move i there. *)
Below(i, q) ==
    \A S \in SUBSET Inodes :
        i \in S /\ (\A d \in S, n \in Names : hash[d][n] \in S \cup {None}) => q \in S

-----------------------------------------------------------------------------
(* Plans. *)

Step(act, d, n, i) == [act |-> act, dir |-> d, name |-> n, ino |-> i]

(* insert_directory_entry *)
InsertEntry(d, n, i) == {<<Step("ls", d, n, i)>>, <<Step("hash", d, n, i)>>}

(* remove_directory_entry; what it removes from LS is read from HASH. *)
RemoveEntry(d, n) == <<Step("unhash", d, n, None)>>

NewContents(d, i, k) ==
    IF k = "file" THEN <<Step("contents", None, None, i)>>
    ELSE <<Step("contents", None, None, i), Step("dot", None, None, i), Step("up", d, None, i)>>

CreatePlan(d, n, i, k) ==
    << {<<Step("inode", None, None, i)>>},
       {NewContents(d, i, k)} \cup InsertEntry(d, n, i) >>

(* remove that forgets the inode file. *)
RemovePlanKeepsInode(d, n, i) ==
    << {<<Step("rmcontents", None, None, i)>> \o RemoveEntry(d, n)} >>

RemovePlan(d, n, i) ==
    << {<<Step("rminode", None, None, i), Step("rmcontents", None, None, i)>>
            \o RemoveEntry(d, n)} >>

(* rename that inserts the new entry first. *)
RenamePlanInsertFirst(d, n, q, m, i) ==
    << InsertEntry(q, m, i), {RemoveEntry(d, n)} >>
    \o (IF inodes[i] = "dir" THEN << {<<Step("up", q, None, i)>>} >> ELSE <<>>)

RenamePlan(d, n, q, m, i) ==
    << {RemoveEntry(d, n)} >>
    \o (IF hash[q][m] # None THEN << {RemoveEntry(q, m)} >> ELSE <<>>)
    \o << InsertEntry(q, m, i) >>
    \o (IF inodes[i] = "dir" THEN << {<<Step("up", q, None, i)>>} >> ELSE <<>>)

Start(op, i, k, plan) ==
    /\ call' = [op |-> op, ino |-> i, kind |-> k]
    /\ todo' = plan
    /\ UNCHANGED <<tree, late>>

-----------------------------------------------------------------------------
(* Calls. *)

Idle == mounted /\ call = None

(* ensure_root_exists; only the inode file tells whether the root exists. *)
Mount ==
    /\ ~mounted /\ call = None
    /\ IF exists(Root)
       THEN mounted' = TRUE /\ UNCHANGED <<tree, call, todo, late>>
       ELSE /\ Start("mount", Root, "dir",
                     << {<<Step("inode", None, None, Root), Step("contents", None, None, Root),
                           Step("dot", None, None, Root)>>} >>)
            /\ UNCHANGED mounted
    /\ UNCHANGED <<used, cut>>

Create(d, n, k) ==
    /\ Idle /\ "create" \in Ops
    /\ exists(d) /\ is_dir(d)
    /\ hash[d][n] = None
    /\ \E i \in Inodes \ used :
        /\ used' = used \cup {i}
        /\ Start("create", i, k, CreatePlan(d, n, i, k))
    /\ UNCHANGED <<cut, mounted>>

(* remove_file and remove_dir.  EmptyDir can miscount in a directory whose *)
(* creation was cut short: what is in it then goes with it.                *)
Remove(d, n) ==
    LET i == hash[d][n]
    IN  /\ Idle /\ "remove" \in Ops
        /\ exists(d) /\ is_dir(d)
        /\ Found(d, n)
        /\ inodes[i] = "dir" => EmptyDir(i)
        /\ Start("remove", i, inodes[i], RemovePlan(d, n, i))
        /\ cut' = cut \cup {j \in Inodes : i \in cut /\ \E m \in Names : hash[i][m] = j}
        /\ UNCHANGED <<used, mounted>>

(* rename that does not look the name up. *)
RenameUnchecked(d, n, q, m) ==
    /\ Idle /\ "rename" \in Ops
    /\ exists(d) /\ is_dir(d) /\ exists(q) /\ is_dir(q)
    /\ Start("rename", hash[d][n], "file",
             << {<<Step("ls", q, m, hash[d][n])>>, <<Step("hash", q, m, hash[d][n])>>} >>)
    /\ UNCHANGED <<used, cut, mounted>>

(* rename; the kernel lets no directory move below itself and replaces     *)
(* files by files and directories by directories only.  The inode that is  *)
(* replaced stays behind without a name.                                   *)
Rename(d, n, q, m) ==
    LET i == hash[d][n]
        t == hash[q][m]
    IN  /\ Idle /\ "rename" \in Ops
        /\ exists(d) /\ is_dir(d) /\ exists(q) /\ is_dir(q)
        /\ Found(d, n)
        /\ <<d, n>> # <<q, m>>
        /\ ~Below(i, q)
        /\ t # None => "rename_over" \in Ops
        /\ Found(q, m) => inodes[t] = inodes[i] /\ (inodes[t] = "dir" => EmptyDir(t))
        /\ Start("rename", i, inodes[i], RenamePlan(d, n, q, m, i))
        /\ cut' = cut \cup ({t} \ {None})
        /\ UNCHANGED <<used, mounted>>

-----------------------------------------------------------------------------
(* Host operations: one branch of the first phase goes on. *)

Ready(act) == IF todo = <<>> THEN {} ELSE {b \in Head(todo) : Head(b).act = act}

(* What is left when branch b of the first phase becomes c. *)
Left(b, c) ==
    LET phase == (Head(todo) \ {b}) \cup (IF c = <<>> THEN {} ELSE {c})
    IN  IF phase = {} THEN Tail(todo) ELSE <<phase>> \o Tail(todo)

Goes(b, c) ==
    /\ todo' = Left(b, c)
    /\ call' = IF Left(b, c) = <<>> THEN None ELSE call
    /\ mounted' = (mounted \/ (call.op = "mount" /\ Left(b, c) = <<>>))
    /\ UNCHANGED <<used, cut, late>>

Advance(b) == Goes(b, Tail(b))

(* The tasks insert_directory_entry has spawned next to branch b. *)
Spawned(b) == {Head(c) : c \in {c \in Head(todo) \ {b} : Head(c).act \in {"ls", "hash"}}}

(* The call returns the error of its branch b.  The branches of the JoinSet*)
(* are aborted; the tasks that insert_directory_entry spawned are detached *)
(* and go on.                                                              *)
Stop(b) ==
    /\ todo' = <<>>
    /\ call' = None
    /\ cut' = cut \cup {call.ino}
    /\ late' = late \cup Spawned(b)
    /\ UNCHANGED <<used, mounted>>

(* write_inode_to_storage *)
WriteInode ==
    \E b \in Ready("inode") :
        /\ inodes' = [inodes EXCEPT ![Head(b).ino] = call.kind]
        /\ Advance(b)
        /\ UNCHANGED <<contents, hash, ls, dot, up>>

(* File::create, or create_dir of the directory with LS and HASH. *)
MakeContents ==
    \E b \in Ready("contents") :
        /\ contents' = [contents EXCEPT ![Head(b).ino] = call.kind]
        /\ Advance(b)
        /\ UNCHANGED <<inodes, hash, ls, dot, up>>

AddDot ==
    \E b \in Ready("dot") :
        /\ dot' = [dot EXCEPT ![Head(b).ino] = TRUE]
        /\ Advance(b)
        /\ UNCHANGED <<inodes, contents, hash, ls, up>>

AddUp ==
    \E b \in Ready("up") :
        /\ up' = [up EXCEPT ![Head(b).ino] = Head(b).dir]
        /\ Advance(b)
        /\ UNCHANGED <<inodes, contents, hash, ls, dot>>

AddLs ==
    \E b \in Ready("ls") :
        /\ ls' = ls \cup {Entry(Head(b).dir, Head(b).name, Head(b).ino)}
        /\ Advance(b)
        /\ UNCHANGED <<inodes, contents, hash, dot, up>>

AddHash ==
    \E b \in Ready("hash") :
        /\ hash' = [hash EXCEPT ![Head(b).dir][Head(b).name] = Head(b).ino]
        /\ Advance(b)
        /\ UNCHANGED <<inodes, contents, ls, dot, up>>

RemoveInode ==
    \E b \in Ready("rminode") :
        /\ inodes' = [inodes EXCEPT ![Head(b).ino] = None]
        /\ Advance(b)
        /\ UNCHANGED <<contents, hash, ls, dot, up>>

(* remove_file, or remove_dir_all with whatever the directory holds; an    *)
(* error if the contents were never created.                               *)
RemoveContents ==
    \E b \in Ready("rmcontents") :
        LET i == Head(b).ino
        IN  /\ IF contents[i] = None THEN Stop(b) ELSE Advance(b)
            /\ contents' = [contents EXCEPT ![i] = None]
            /\ hash' = [hash EXCEPT ![i] = [n \in Names |-> None]]
            /\ ls' = {e \in ls : e.dir # i}
            /\ dot' = [dot EXCEPT ![i] = FALSE]
            /\ up' = [up EXCEPT ![i] = None]
            /\ UNCHANGED inodes

RemoveHash ==
    \E b \in Ready("unhash") :
        LET s == Head(b)
        IN  /\ hash' = [hash EXCEPT ![s.dir][s.name] = None]
            /\ Goes(b, <<Step("unls", s.dir, s.name, hash[s.dir][s.name])>> \o Tail(b))
            /\ UNCHANGED <<inodes, contents, ls, dot, up>>

(* remove_directory_entry; it fails if there is no such LS entry. *)
RemoveLs ==
    \E b \in Ready("unls") :
        LET e == Entry(Head(b).dir, Head(b).name, Head(b).ino)
        IN  /\ IF e \in ls THEN Advance(b) ELSE Stop(b)
            /\ ls' = ls \ {e}
            /\ UNCHANGED <<inodes, contents, hash, dot, up>>

(* The host refuses an operation (no space, no descriptors).  The failure  *)
(* of the LS task is seen after the HASH task has ended.                   *)
Fault ==
    /\ "fault" \in Env
    /\ todo # <<>>
    /\ \E b \in Head(todo) :
        /\ Head(b).act = "ls" => Ready("hash") = {}
        /\ Stop(b)
    /\ UNCHANGED tree

(* The HASH task of a call that has returned: whatever was created under   *)
(* the name since then loses it.                                           *)
LateHash(s) ==
    /\ hash' = [hash EXCEPT ![s.dir][s.name] = s.ino]
    /\ cut' = cut \cup ({hash[s.dir][s.name]} \ {None})

(* A spawned task ends after its call; the directory may have been removed.*)
LateEntry ==
    \E s \in late :
        /\ late' = late \ {s}
        /\ IF is_dir(s.dir) /\ s.act = "hash" THEN LateHash(s) ELSE UNCHANGED <<hash, cut>>
        /\ ls' = IF is_dir(s.dir) /\ s.act = "ls" THEN ls \cup {Entry(s.dir, s.name, s.ino)} ELSE ls
        /\ UNCHANGED <<inodes, contents, dot, up, used, mounted, call, todo>>

(* The process dies and is started again. *)
Crash ==
    /\ "crash" \in Env
    /\ mounted' = FALSE
    /\ cut' = IF call = None THEN cut ELSE cut \cup {call.ino}
    /\ call' = None
    /\ todo' = <<>>
    /\ late' = {}
    /\ UNCHANGED <<tree, used>>

Calls ==
    \/ Mount
    \/ \E d \in Inodes, n \in Names :
        \/ \E k \in Kinds : Create(d, n, k)
        \/ Remove(d, n)
        \/ \E q \in Inodes, m \in Names : Rename(d, n, q, m)

HostOps ==
    \/ WriteInode \/ MakeContents \/ AddDot \/ AddUp \/ AddLs \/ AddHash
    \/ RemoveInode \/ RemoveContents \/ RemoveHash \/ RemoveLs

Next == Calls \/ HostOps \/ Fault \/ LateEntry \/ Crash

Spec == Init /\ [][Next]_vars

-----------------------------------------------------------------------------
(* Nothing is left of i, or it is complete: an inode file with contents of *)
(* its kind under one name, listed in the directory it is found in, and a  *)
(* directory knows itself and that directory.                              *)
Intact(i) ==
    LET found == {x \in Inodes \X Names : hash[x[1]][x[2]] = i}
        listed == {e \in ls : e.ino = i}
    IN  \/ ~exists(i) /\ contents[i] = None /\ found = {} /\ listed = {}
        \/ /\ exists(i) /\ contents[i] = inodes[i]
           /\ inodes[i] = "dir" => dot[i]
           /\ i = Root => found = {} /\ listed = {}
           /\ i # Root => \E d \in Inodes, n \in Names :
                  /\ found = {<<d, n>>} /\ listed = {Entry(d, n, i)}
                  /\ inodes[i] = "dir" => up[i] = d

(* Between calls every inode is intact, whatever order the tasks of create,*)
(* remove and rename took; crashes and failures spare all but the inode of *)
(* the call they cut short, what is in it if that was the creation of a    *)
(* directory that is removed later, and what was created under the name    *)
(* that a task of the failed call still writes.  (README: "data is written *)
(* with WAL to ensure integrity even on crash or power loss".)             *)
TreeConsistent == call = None => \A i \in Inodes \ cut : Intact(i)

(* An inode never has two names, whatever call is cut short: there are no  *)
(* hard links, and removing one of two names would destroy the other.      *)
OneName ==
    \A d, e \in Inodes, n, m \in Names :
        hash[d][n] # None /\ hash[d][n] = hash[e][m] => <<d, n>> = <<e, m>>
=============================================================================
