---------------------------- MODULE FuseAdapter ----------------------------
(***************************************************************************)
(* EncryptedFsFuse3 (src/mount/linux.rs): how the requests of the kernel   *)
(* become calls of EncryptedFs.  The adapter decides who may do what: the  *)
(* kernel is not asked to check permissions.  Its state is that of the     *)
(* file system below it, reduced to what the handlers look at and change:  *)
(* owner, group and mode of every inode, the names in the directories,     *)
(* whether a file is empty, and the open handles.                          *)
(*                                                                         *)
(* One action per handler, with all the calls it makes.  The kernel holds  *)
(* the inode, or the directories, locked while setattr, create, mkdir,     *)
(* mknod, unlink, rmdir or rename runs, so the attributes a handler read   *)
(* first still hold when it acts.  The calls of EncryptedFs are modelled   *)
(* by their results (OpenFiles and Namespace have them in detail).  Of     *)
(* failures of the host only those of release are here: after any other    *)
(* the kernel still has what it had.  Files that are open are not removed  *)
(* (OpenFiles!RemoveFile).  Left out: times, except the checks that        *)
(* setting them makes, the numbers in statfs, and the entries that readdir *)
(* and readdirplus answer.                                                 *)
(***************************************************************************)
EXTENDS Naturals, FiniteSets

CONSTANTS
    Inodes, Root, Names,
    Users,      \* callers: records [uid, gid, groups]
    Owner,      \* the user that mounted the file system
    Modes,      \* the modes asked for by create, mkdir, mknod and chmod
    Handles,
    SuidSupport,  \* mount option
    None

Rights == {"R", "W", "X"}
Perms == [usr : SUBSET Rights, grp : SUBSET Rights, oth : SUBSET Rights,
          suid : BOOLEAN, sgid : BOOLEAN, sticky : BOOLEAN]
Kinds == {"file", "dir"}
Uids == {u.uid : u \in Users}
Gids == {u.gid : u \in Users}
Attrs == [kind : Kinds, uid : Uids, gid : Gids, perm : Perms]
OpenHandles == [ino : Inodes, read : BOOLEAN, write : BOOLEAN]

ASSUME AdapterAssumption ==
    /\ Root \in Inodes
    /\ Owner \in Users
    /\ \A u \in Users : u.uid \in Nat /\ u.gid \in Nat /\ u.groups \subseteq Nat
    /\ Modes \subseteq Perms
    /\ SuidSupport \in BOOLEAN
    /\ None \notin Inodes /\ None \notin Attrs /\ None \notin OpenHandles
    /\ None \notin Users

VARIABLES
    attr,         \* attr[i]: owner, group and mode of inode i, None if there is none
    entries,      \* entries[d][n]: the inode that directory d has under name n, or None
    contents,     \* contents[i]: is there anything in the file
    handles,      \* handles[h]: what EncryptedFs has under handle h, or None
    known,        \* the handles the kernel was given and has not released
    reply         \* the last request: who made it, None for those on a handle, and the answer

files == <<attr, entries, contents>>
vars == <<attr, entries, contents, handles, known, reply>>

Errors == {"EACCES", "EPERM", "ENOENT", "EEXIST", "EISDIR", "ENOTDIR", "ENOTEMPTY", "EIO"}

(* Only directories have names in them, every name leads to an inode, and  *)
(* no inode has two: rename, the create calls and the removals each change *)
(* names and inodes in several places.                                     *)
TreeOK ==
    \A d \in Inodes, n \in Names : entries[d][n] # None =>
        /\ attr[d] # None /\ attr[d].kind = "dir"
        /\ attr[entries[d][n]] # None
        /\ entries[d][n] # Root
        /\ \A e \in Inodes, m \in Names :
               entries[e][m] = entries[d][n] => d = e /\ n = m

(* Inodes have an owner, a group and a mode, handles are on inodes that    *)
(* exist, every name leads to an inode and none has two, whatever requests *)
(* come in.                                                                *)
TypeOK ==
    /\ attr \in [Inodes -> Attrs \cup {None}]
    /\ entries \in [Inodes -> [Names -> Inodes \cup {None}]]
    /\ contents \in [Inodes -> {"empty", "data"}]
    /\ handles \in [Handles -> OpenHandles \cup {None}]
    /\ \A h \in Handles : handles[h] # None => attr[handles[h].ino] # None
    /\ known \subseteq {h \in Handles : handles[h] # None}
    /\ reply \in [by : Users \cup {None}, res : Errors \cup {"OK"}]
    /\ TreeOK

(* ensure_root_exists makes a root that only its owner may write. *)
RootPerm == [usr |-> Rights, grp |-> {"R", "X"}, oth |-> {"R", "X"},
             suid |-> FALSE, sgid |-> FALSE, sticky |-> FALSE]

Init ==
    /\ attr = [i \in Inodes |->
                 IF i = Root
                 THEN [kind |-> "dir", uid |-> Owner.uid, gid |-> Owner.gid, perm |-> RootPerm]
                 ELSE None]
    /\ entries = [d \in Inodes |-> [n \in Names |-> None]]
    /\ contents = [i \in Inodes |-> "empty"]
    /\ handles = [h \in Handles |-> None]
    /\ known = {}
    /\ reply = [by |-> None, res |-> "OK"]

-----------------------------------------------------------------------------
(* Permissions. *)

(* The rights of the class of users that u falls into. *)
ClassRights(a, u) ==
    IF u.uid = a.uid THEN a.perm.usr ELSE IF u.gid = a.gid THEN a.perm.grp ELSE a.perm.oth

(* With an empty mask (F_OK) everybody passes. *)
check_access(a, u, mask) ==
    IF u.uid = 0
    THEN mask \cap {"X"} \subseteq a.perm.usr \cup a.perm.grp \cup a.perm.oth
    ELSE mask \subseteq ClassRights(a, u)

(* The sticky bit of directory d keeps u off the entry of inode i. *)
StickyDenies(u, d, i) ==
    attr[d].perm.sticky /\ u.uid \notin {0, attr[d].uid, attr[i].uid}

clear_suid_sgid(p) ==
    [p EXCEPT !.suid = FALSE, !.sgid = @ /\ "X" \notin p.grp]

WithoutSetId(p) == [p EXCEPT !.suid = FALSE, !.sgid = FALSE]

creation_mode(p) == IF SuidSupport THEN p ELSE WithoutSetId(p)

creation_gid(d, u) == IF attr[d].perm.sgid THEN attr[d].gid ELSE u.gid

(* The mode create_nod and mkdir start from. *)
AskedMode(u, mode) == IF u.uid # 0 THEN WithoutSetId(mode) ELSE mode

IsDir(i) == attr[i] # None /\ attr[i].kind = "dir"
IsFile(i) == attr[i] # None /\ attr[i].kind = "file"
IsOpen(i) == \E h \in Handles : handles[h] # None /\ handles[h].ino = i
HasWriter(i) == \E h \in Handles : handles[h] # None /\ handles[h].ino = i /\ handles[h].write
IsEmpty(d) == \A n \in Names : entries[d][n] = None

-----------------------------------------------------------------------------
(* Answers. *)

Answer(u, res) == reply' = [by |-> u, res |-> res]

(* A handler that calls nothing that changes state: it was refused, or it  *)
(* only asks.                                                              *)
Tell(u, res) ==
    /\ Answer(u, res)
    /\ UNCHANGED <<files, handles, known>>

Verdict(ok, res) == IF ok THEN "OK" ELSE res

-----------------------------------------------------------------------------
(* Requests that only ask. *)

Lookup(u, d, n) ==
    /\ IsDir(d)
    /\ Tell(u, IF ~check_access(attr[d], u, {"X"}) THEN "EACCES"
               ELSE Verdict(entries[d][n] # None, "ENOENT"))

(* access, and opendir for the three access modes; readdir and readdirplus *)
(* check nothing.                                                          *)
Access(u, i, mask) ==
    /\ attr[i] # None
    /\ Tell(u, Verdict(check_access(attr[i], u, mask), "EACCES"))

-----------------------------------------------------------------------------
(* setattr.  With a mode nothing else is looked at, with an owner or group *)
(* neither size nor times.                                                 *)

SetPerm(i, p) == attr' = [attr EXCEPT ![i].perm = p]

(* Is u in the group of inode i? *)
InGroup(u, i) == u.gid = attr[i].gid \/ attr[i].gid \in u.groups

(* chmod that lets the owner set the group bit of any group. *)
ChmodAnyGroup(u, i, mode) ==
    /\ attr[i] # None
    /\ IF u.uid \notin {0, attr[i].uid}
       THEN Tell(u, "EPERM")
       ELSE /\ SetPerm(i, mode)
            /\ Answer(u, "OK")
            /\ UNCHANGED <<entries, contents, handles, known>>

Chmod(u, i, mode) ==
    /\ attr[i] # None
    /\ IF u.uid \notin {0, attr[i].uid}
       THEN Tell(u, "EPERM")
       ELSE /\ SetPerm(i, [mode EXCEPT !.sgid = @ /\ (u.uid = 0 \/ InGroup(u, i))])
            /\ Answer(u, "OK")
            /\ UNCHANGED <<entries, contents, handles, known>>

(* The owner and group asked for are read from the answer under            *)
(* construction, which has none yet: all checks pass and neither changes.  *)
Chown(u, i) ==
    /\ attr[i] # None
    /\ LET p == attr[i].perm
       IN  SetPerm(i, IF "X" \in p.usr \cup p.grp \cup p.oth THEN clear_suid_sgid(p) ELSE p)
    /\ Answer(u, "OK")
    /\ UNCHANGED <<entries, contents, handles, known>>

(* setattr with times checked before the size is set. *)
SetSizeAndTimesLate(u, i, size, times) ==
    /\ attr[i] # None
    /\ IsDir(i) => size = None
    /\ attr' = IF size # None THEN [attr EXCEPT ![i].perm = clear_suid_sgid(@)] ELSE attr
    /\ contents' = IF size # None THEN [contents EXCEPT ![i] = size] ELSE contents
    /\ Answer(u, Verdict(~times \/ u.uid = attr[i].uid \/ check_access(attr[i], u, {"W"}),
                         "EACCES"))
    /\ UNCHANGED <<entries, handles, known>>

(* size is None when it is not set.  The file is resized before the checks *)
(* for the times, its mode set after them.                                 *)
SetSizeAndTimes(u, i, size, times) ==
    /\ attr[i] # None
    /\ IsDir(i) => size = None
    /\ contents' = IF size # None THEN [contents EXCEPT ![i] = size] ELSE contents
    /\ IF times /\ u.uid # attr[i].uid /\ ~check_access(attr[i], u, {"W"})
       THEN Answer(u, "EACCES") /\ UNCHANGED attr
       ELSE /\ attr' = IF size # None THEN [attr EXCEPT ![i].perm = clear_suid_sgid(@)]
                       ELSE attr
            /\ Answer(u, "OK")
    /\ UNCHANGED <<entries, handles, known>>

-----------------------------------------------------------------------------
(* New names. *)

(* The calls of EncryptedFs::create and, for a file, open. *)
Make(u, d, n, kind, perm, read, write) ==
    /\ \E i \in {j \in Inodes : attr[j] = None} :
        /\ attr' = [attr EXCEPT ![i] = [kind |-> kind, uid |-> u.uid,
                                         gid |-> creation_gid(d, u), perm |-> perm]]
        /\ entries' = [entries EXCEPT ![d][n] = i]
        /\ contents' = [contents EXCEPT ![i] = "empty"]
        /\ IF read \/ write
           THEN \E h \in {k \in Handles : handles[k] = None} :
                /\ handles' = [handles EXCEPT ![h] = [ino |-> i, read |-> read,
                                                       write |-> write]]
                /\ known' = known \cup {h}
           ELSE UNCHANGED <<handles, known>>
    /\ Answer(u, "OK")

(* create_nod for mknod and create; all that goes wrong below create is    *)
(* answered with ENOENT, mknod tells what it was.                          *)
CreateNod(u, d, n, kind, mode, read, write) ==
    LET mknod == ~read /\ ~write
    IN  /\ IsDir(d)
        /\ IF ~check_access(attr[d], u, {"W"})
           THEN Tell(u, IF mknod THEN "EACCES" ELSE "ENOENT")
           ELSE IF entries[d][n] # None
                THEN Tell(u, IF mknod THEN "EEXIST" ELSE "ENOENT")
                ELSE Make(u, d, n, kind, creation_mode(AskedMode(u, mode)), read, write)

Mknod(u, d, n, kind, mode) == CreateNod(u, d, n, kind, mode, FALSE, FALSE)

Create(u, d, n, mode, read, write) ==
    (read \/ write) /\ CreateNod(u, d, n, "file", mode, read, write)

(* A new directory in a set-group-id directory is one itself. *)
Mkdir(u, d, n, mode) ==
    /\ IsDir(d)
    /\ IF ~check_access(attr[d], u, {"W"})
       THEN Tell(u, "EACCES")
       ELSE IF entries[d][n] # None
            THEN Tell(u, "ENOENT")
            ELSE Make(u, d, n, "dir",
                      creation_mode([AskedMode(u, mode) EXCEPT !.sgid = @ \/ attr[d].perm.sgid]),
                      FALSE, FALSE)

-----------------------------------------------------------------------------
(* Names that go. *)

UnlinkVerdict(u, d, n) ==
    IF ~check_access(attr[d], u, {"W"}) THEN "EACCES"
    ELSE IF entries[d][n] = None THEN "ENOENT"
    ELSE IF StickyDenies(u, d, entries[d][n]) THEN "EACCES"
    ELSE Verdict(IsFile(entries[d][n]), "ENOENT")

RmdirVerdict(u, d, n) ==
    IF ~check_access(attr[d], u, {"W"}) THEN "EACCES"
    ELSE IF entries[d][n] = None THEN "ENOENT"
    ELSE IF ~IsDir(entries[d][n]) THEN "ENOTDIR"
    ELSE IF StickyDenies(u, d, entries[d][n]) THEN "EACCES"
    ELSE Verdict(IsEmpty(entries[d][n]), "EISDIR")

(* A removal that leaves the name. *)
RemoveKeepsName(u, d, n) ==
    /\ ~IsOpen(entries[d][n])
    /\ attr' = [attr EXCEPT ![entries[d][n]] = None]
    /\ Answer(u, "OK")
    /\ UNCHANGED <<entries, contents, handles, known>>

(* remove_file and remove_dir *)
Remove(u, d, n) ==
    /\ ~IsOpen(entries[d][n])
    /\ attr' = [attr EXCEPT ![entries[d][n]] = None]
    /\ contents' = [contents EXCEPT ![entries[d][n]] = "empty"]
    /\ entries' = [entries EXCEPT ![d][n] = None]
    /\ Answer(u, "OK")
    /\ UNCHANGED <<handles, known>>

Unlink(u, d, n) ==
    /\ IsDir(d)
    /\ LET v == UnlinkVerdict(u, d, n) IN IF v = "OK" THEN Remove(u, d, n) ELSE Tell(u, v)

Rmdir(u, d, n) ==
    /\ IsDir(d)
    /\ LET v == RmdirVerdict(u, d, n) IN IF v = "OK" THEN Remove(u, d, n) ELSE Tell(u, v)

(* rename that looks at the sticky bit of the old directory only. *)
RenameVerdictOld(u, d, n, q, m) ==
    IF entries[d][n] = None THEN "ENOENT"
    ELSE IF ~check_access(attr[d], u, {"W"}) \/ StickyDenies(u, d, entries[d][n]) THEN "EACCES"
    ELSE IF ~check_access(attr[q], u, {"W"}) THEN "EACCES"
    ELSE Verdict(entries[q][m] = None \/ IsFile(entries[q][m]), "ENOTEMPTY")

RenameVerdict(u, d, n, q, m) ==
    LET i == entries[d][n]
        j == entries[q][m]
    IN  IF i = None THEN "ENOENT"
        ELSE IF ~check_access(attr[d], u, {"W"}) \/ StickyDenies(u, d, i) THEN "EACCES"
        ELSE IF ~check_access(attr[q], u, {"W"}) THEN "EACCES"
        ELSE IF j # None /\ StickyDenies(u, q, j) THEN "EACCES"
        ELSE IF IsDir(i) /\ d # q /\ ~check_access(attr[i], u, {"W"}) THEN "EACCES"
        ELSE Verdict(i = j \/ j = None \/ IsFile(j) \/ IsEmpty(j), "ENOTEMPTY")

(* q lies in the subtree of i. *)
Below(i, q) ==
    \A S \in SUBSET Inodes :
        i \in S /\ (\A d \in S, n \in Names : entries[d][n] \in S \cup {None}) => q \in S

(* The kernel moves no directory below itself and replaces only a file by  *)
(* a file, a directory by a directory.                                     *)
KernelMoves(d, n, q, m) ==
    LET i == entries[d][n]
        j == entries[q][m]
    IN  /\ i # None /\ IsDir(i) /\ d # q => ~Below(i, q)
        /\ i # None /\ j # None => IsDir(i) = IsDir(j)

(* What was under the new name loses it; its inode stays (Namespace). *)
Rename(u, d, n, q, m) ==
    /\ IsDir(d) /\ IsDir(q)
    /\ KernelMoves(d, n, q, m)
    /\ LET v == RenameVerdict(u, d, n, q, m)
       IN  IF v # "OK" THEN Tell(u, v)
           ELSE /\ entries' = IF <<d, n>> = <<q, m>> THEN entries
                              ELSE [entries EXCEPT ![d][n] = None, ![q][m] = entries[d][n]]
                /\ Answer(u, "OK")
                /\ UNCHANGED <<attr, contents, handles, known>>

-----------------------------------------------------------------------------
(* Open files. *)

(* EncryptedFs::open: there is one writer.  When it refuses, the read half *)
(* it had begun with stays (OpenFiles!OpenAlreadyOpen).                    *)
OpenBelow(u, i, read, write) ==
    IF write /\ HasWriter(i)
    THEN /\ Answer(u, "EIO")
         /\ IF read
            THEN \E h \in {k \in Handles : handles[k] = None} :
                 handles' = [handles EXCEPT ![h] = [ino |-> i, read |-> TRUE, write |-> FALSE]]
            ELSE UNCHANGED handles
         /\ UNCHANGED known
    ELSE \E h \in {k \in Handles : handles[k] = None} :
         /\ handles' = [handles EXCEPT ![h] = [ino |-> i, read |-> read, write |-> write]]
         /\ known' = known \cup {h}
         /\ Answer(u, "OK")

(* The rights that opening for reading and writing takes; exec stands for  *)
(* FMODE_EXEC.                                                             *)
AccessMask(read, write, exec) ==
    IF write THEN (IF read THEN {"R", "W"} ELSE {"W"}) ELSE IF exec THEN {"X"} ELSE {"R"}

(* open; O_TRUNC takes effect before the open that may be refused. *)
Open(u, i, read, write, exec, truncate) ==
    /\ IsFile(i)
    /\ read \/ write
    /\ IF \/ truncate /\ ~write
          \/ ~check_access(attr[i], u, AccessMask(read, write, exec))
       THEN Tell(u, "EACCES")
       ELSE /\ contents' = IF truncate THEN [contents EXCEPT ![i] = "empty"] ELSE contents
            /\ OpenBelow(u, i, read, write)
            /\ UNCHANGED <<attr, entries>>

Write(h) ==
    /\ h \in known /\ handles[h] # None /\ handles[h].write
    /\ contents' = [contents EXCEPT ![handles[h].ino] = "data"]
    /\ Answer(None, "OK")
    /\ UNCHANGED <<attr, entries, handles, known>>

(* copy_file_range writes what it read, and fails afterwards when that was *)
(* less than it was asked for.                                             *)
CopyFileRange(g, h, short) ==
    /\ {g, h} \subseteq known
    /\ handles[g] # None /\ handles[g].read /\ handles[h] # None /\ handles[h].write
    /\ IF contents[handles[g].ino] = "empty"
       THEN Answer(None, "OK") /\ UNCHANGED contents
       ELSE /\ contents' = [contents EXCEPT ![handles[h].ino] = "data"]
            /\ Answer(None, Verdict(~short, "EIO"))
    /\ UNCHANGED <<attr, entries, handles, known>>

IsWriteHandle(hs, h) == hs[h] # None /\ hs[h].write

(* release that forgets the write half. *)
ReleaseReadHalf(h) ==
    /\ h \in known
    /\ handles' = [handles EXCEPT ![h].read = FALSE]
    /\ known' = known \ {h}
    /\ Answer(None, "OK")
    /\ UNCHANGED files

(* is_write_handle is evaluated when it is awaited, after the release: the *)
(* set-user-id bits are cleared only if the handle is still there.         *)
Release(h) ==
    /\ h \in known
    /\ handles' = [handles EXCEPT ![h] = None]
    /\ known' = known \ {h}
    /\ attr' = IF IsWriteHandle(handles', h)
               THEN [attr EXCEPT ![handles[h].ino].perm = clear_suid_sgid(@)]
               ELSE attr
    /\ Answer(None, "OK")
    /\ UNCHANGED <<entries, contents>>

(* What EncryptedFs keeps of a handle when its release fails: nothing of a *)
(* reader; of a writer everything when the flush failed, the write half    *)
(* when release stopped before it unregistered the writer, and nothing     *)
(* when the readers could not be reset after that.                         *)
LeftOf(c) == {None} \cup (IF c.write THEN {c, [c EXCEPT !.read = FALSE]} ELSE {})

(* release answers EIO; the kernel forgets the handle all the same. *)
ReleaseFails(h) ==
    /\ h \in known
    /\ \E left \in LeftOf(handles[h]) : handles' = [handles EXCEPT ![h] = left]
    /\ known' = known \ {h}
    /\ Answer(None, "EIO")
    /\ UNCHANGED files

-----------------------------------------------------------------------------
Asks(u) ==
    \/ \E d \in Inodes, n \in Names : Lookup(u, d, n)
    \/ \E i \in Inodes, mask \in {{}, {"X"}, {"R", "W"}} : Access(u, i, mask)

SetAttrs(u) ==
    \E i \in Inodes :
        \/ \E mode \in Modes : Chmod(u, i, mode)
        \/ Chown(u, i)
        \/ \E size \in {"empty", "data", None}, times \in BOOLEAN :
               SetSizeAndTimes(u, i, size, times)

NameRequests(u) ==
    \E d \in Inodes, n \in Names :
        \/ \E mode \in Modes :
            \/ \E kind \in Kinds : Mknod(u, d, n, kind, mode)
            \/ Mkdir(u, d, n, mode)
            \/ \E read, write \in BOOLEAN : Create(u, d, n, mode, read, write)
        \/ Unlink(u, d, n)
        \/ Rmdir(u, d, n)
        \/ \E q \in Inodes, m \in Names : Rename(u, d, n, q, m)

HandleRequests ==
    \E h \in Handles :
        \/ Write(h)
        \/ Release(h)
        \/ ReleaseFails(h)
        \/ \E g \in Handles, short \in BOOLEAN : CopyFileRange(g, h, short)

Next ==
    \/ \E u \in Users :
        \/ Asks(u)
        \/ SetAttrs(u)
        \/ NameRequests(u)
        \/ \E i \in Inodes, read, write, exec, truncate \in BOOLEAN :
               Open(u, i, read, write, exec, truncate)
    \/ HandleRequests

Spec == Init /\ [][Next]_vars

-----------------------------------------------------------------------------
(* May u take away, replace or add name n in directory d?  The rule of     *)
(* POSIX that check_access and the sticky-bit tests are there for.         *)
MayChange(u, d, n) ==
    \/ u.uid = 0
    \/ /\ "W" \in ClassRights(attr[d], u)
       /\ \/ ~attr[d].perm.sticky
          \/ u.uid = attr[d].uid
          \/ entries[d][n] = None
          \/ u.uid = attr[entries[d][n]].uid

(* Whichever of create, mkdir, mknod, unlink, rmdir and both ends of rename*)
(* changes a name, the caller may write the directory and, if it is sticky,*)
(* owns it or the entry.                                                   *)
DirectoryRules ==
    [][\A d \in Inodes, n \in Names :
         entries'[d][n] # entries[d][n] => MayChange(reply'.by, d, n)]_vars

(* The set-id bits of i come only from root, from the owner of i (the one  *)
(* for the group only if in the group), or for a directory from the one it *)
(* is made in; creation gives none without suid_support.                   *)
SetIdRule ==
    [][\A i \in Inodes :
         LET old == IF attr[i] = None THEN WithoutSetId(RootPerm) ELSE attr[i].perm
             u == reply'.by
         IN  attr'[i] # None =>
             /\ attr'[i].perm.suid /\ ~old.suid =>
                  u.uid = 0 \/ (u.uid = attr'[i].uid /\ attr[i] # None)
             /\ attr'[i].perm.sgid /\ ~old.sgid =>
                  \/ u.uid = 0
                  \/ attr[i] # None /\ u.uid = attr[i].uid /\ InGroup(u, i)
                  \/ /\ attr[i] = None /\ attr'[i].kind = "dir"
                     /\ \E d \in Inodes, n \in Names :
                          entries'[d][n] = i /\ attr[d].perm.sgid
             /\ attr[i] = None /\ ~SuidSupport => ~attr'[i].perm.suid /\ ~attr'[i].perm.sgid
      ]_vars

(* What a refused request may leave behind: names, owners and modes stay;  *)
(* at most one file was resized or written (setattr, O_TRUNC,              *)
(* copy_file_range act before they fail), at most a read handle nobody     *)
(* knows was added (open), and the kernel loses no handle but the one it   *)
(* released.                                                               *)
RefusalEffects ==
    [][reply'.res # "OK" =>
         /\ UNCHANGED <<attr, entries>>
         /\ Cardinality({i \in Inodes : contents'[i] # contents[i]}) <= 1
         /\ known' \subseteq known
         /\ \A h \in Handles : handles'[h] # handles[h] =>
              \/ handles[h] = None /\ ~handles'[h].write
              \/ h \in known \ known']_vars

(* The file of h is open for writing, and the kernel does not have h: no   *)
(* request will ever close it, and every open for writing is refused.      *)
LostWriter(h) == handles[h] # None /\ handles[h].write /\ h \notin known

(* A writer is lost only in the release that answers EIO: neither an open  *)
(* or create that is refused, nor one that succeeds, nor a release that    *)
(* answers well leaves a file that cannot be opened for writing again.     *)
WritersLost ==
    [][\A h \in Handles : LostWriter(h)' /\ ~LostWriter(h) =>
         h \in known /\ reply'.res = "EIO"]_vars
=============================================================================
