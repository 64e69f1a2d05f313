-------------------------- MODULE OpenFilesProofs --------------------------
(***************************************************************************)
(* Proofs about OpenFiles for any number of inodes and handles, any block  *)
(* size and any environment: type correctness, the agreement of the handle *)
(* tables, and the absence of failing unwraps; then what is durable after  *)
(* release and after a crash, that readers serve no old block, and that    *)
(* the layer implements PlainFile.                                         *)
(***************************************************************************)
EXTENDS OpenFiles, TLAPS

Sizes == 0..BlockSize

(* The places at which the host may fail.                                  *)
Steps == {"none", "attr", "finish", "copy", "sync", "reset"}

(* A contents file has an inode file: remove_file deletes both, and what   *)
(* recreates the contents recreates the inode, unless it is stopped.       *)
DiskHasInode == "fault" \notin Env => \A i \in Inodes : disk[i] # Gone => inode[i] # Gone

TInv == TypeOK /\ DiskHasInode

-----------------------------------------------------------------------------
(* Contents.                                                               *)

(* A plaintext is a sequence of at most BlockSize bytes.                   *)
LEMMA ContentsLen ==
    ASSUME NEW s \in Plaintexts
    PROVE  Len(s) \in Sizes /\ s \in [1..Len(s) -> Bytes]
<1>1. PICK n \in 0..BlockSize : s \in [1..n -> Bytes]
  BY DEF Plaintexts
<1>2. n \in Nat /\ Len(s) = n
  BY <1>1, OpenFilesAssumption
<1> QED
  BY <1>1, <1>2 DEF Sizes

(* A function from 1..n to bytes, n within the block size, is a plaintext. *)
LEMMA ContentsIntro ==
    ASSUME NEW n \in Sizes, NEW s \in [1..n -> Bytes]
    PROVE  s \in Plaintexts
BY DEF Plaintexts, Sizes

(* A content is a plaintext or damaged, never both, and never a missing    *)
(* file.                                                                   *)
LEMMA ContentsCases ==
    /\ \A s \in Contents : s = Damaged \/ s \in Plaintexts
    /\ \A s \in Plaintexts : s \in Contents /\ s # Damaged
    /\ Damaged \in Contents /\ Damaged # Gone
BY OpenFilesAssumption DEF Contents

(* The buffer of a new reader or writer is a plaintext.                    *)
LEMMA EmptyContents == <<>> \in Contents /\ <<>> \in Plaintexts
<1>1. <<>> \in [1..0 -> Bytes] /\ 0 \in Sizes
  BY OpenFilesAssumption DEF Sizes
<1> QED
  BY <1>1, ContentsIntro, ContentsCases

(* Writing a byte inside the block gives a plaintext again.                *)
LEMMA PutByteContents ==
    ASSUME NEW s \in Plaintexts, NEW off \in 0..(BlockSize - 1), NEW b \in Bytes
    PROVE  PutByte(s, off, b) \in Plaintexts
<1> DEFINE n == MaxOf(Len(s), off + 1)
<1>1. n \in Sizes
  BY ContentsLen, OpenFilesAssumption DEF Sizes, MaxOf
<1>2. \A j \in 1..n : (IF j = off + 1 THEN b ELSE IF j <= Len(s) THEN s[j] ELSE 0) \in Bytes
  BY ContentsLen, OpenFilesAssumption, <1>1 DEF Sizes
<1>3. PutByte(s, off, b) \in [1..n -> Bytes]
  BY <1>2 DEF PutByte
<1> QED
  BY <1>1, <1>3, ContentsIntro

(* A byte written into a damaged block leaves it damaged.                  *)
LEMMA PutContents ==
    ASSUME NEW s \in Contents, NEW off \in 0..(BlockSize - 1), NEW b \in Bytes
    PROVE  Put(s, off, b) \in Contents
BY PutByteContents, ContentsCases DEF Put

(* Cutting a plaintext or extending it with zeros gives a plaintext.       *)
LEMMA CopyPrefixContents ==
    ASSUME NEW s \in Plaintexts, NEW k \in Nat, k <= Len(s), NEW n \in Sizes
    PROVE  CopyPrefix(s, k, n) \in Plaintexts
<1>1. \A j \in 1..n : (IF j <= k THEN s[j] ELSE 0) \in Bytes
  BY ContentsLen, OpenFilesAssumption DEF Sizes
<1>2. CopyPrefix(s, k, n) \in [1..n -> Bytes]
  BY <1>1 DEF CopyPrefix
<1> QED
  BY <1>2, ContentsIntro

(* set_len of an empty file, or to 0, copies nothing.                      *)
LEMMA CopyNothing == \A s, n : n \in Sizes => CopyPrefix(s, 0, n) \in Plaintexts
<1> TAKE s, n
<1> SUFFICES ASSUME n \in Sizes PROVE CopyPrefix(s, 0, n) \in Plaintexts
  OBVIOUS
<1>1. \A j \in 1..n : (IF j <= 0 THEN s[j] ELSE 0) = 0
  BY DEF Sizes
<1>2. CopyPrefix(s, 0, n) \in [1..n -> Bytes]
  BY <1>1, OpenFilesAssumption DEF CopyPrefix
<1> QED
  BY <1>2, ContentsIntro

(* What a client expects of set_len is a content whatever the file was.    *)
LEMMA ResizedContents ==
    ASSUME NEW s \in Contents, NEW k \in Sizes, NEW n \in Sizes
    PROVE  Resized(s, k, n) \in Contents
<1>1. \A t \in Plaintexts, m \in Sizes : Resize(t, m) \in Plaintexts
  <2> TAKE t \in Plaintexts, m \in Sizes
  <2>1. Len(t) \in Nat
    BY ContentsLen, OpenFilesAssumption DEF Sizes
  <2> QED
    BY <2>1, CopyPrefixContents DEF Resize
<1> QED
  BY <1>1, EmptyContents, ContentsCases DEF Resized

(* It is what set_len copies, as long as the file has all that is kept.    *)
LEMMA ResizedIsCopied ==
    ASSUME NEW s \in Contents, NEW k \in Sizes, NEW n \in Sizes,
           s \in Plaintexts => k <= Len(s) \/ k = 0, k <= n
    PROVE  Resized(s, k, n) = Copied(s, k, n)
<1>1. k \in Nat /\ n \in Nat
  BY OpenFilesAssumption DEF Sizes
<1>2. CASE s = Damaged
  <2>1. k = 0 => CopyPrefix(<<>>, 0, n) = CopyPrefix(s, 0, n)
    BY <1>1 DEF CopyPrefix
  <2> QED
    BY <1>1, <1>2, <2>1 DEF Resized, Copied, Resize
<1>3. CASE s \in Plaintexts
  <2>1. Len(s) \in Nat /\ k <= Len(s)
    BY <1>1, <1>3, ContentsLen, OpenFilesAssumption DEF Sizes
  <2> DEFINE t == CopyPrefix(s, Len(s), k)
  <2>2. t = [j \in 1..k |-> IF j <= Len(s) THEN s[j] ELSE 0]
    BY DEF CopyPrefix
  <2>3. Len(t) = k /\ \A j \in 1..k : t[j] = s[j]
    BY <1>1, <2>1, <2>2
  <2> HIDE DEF t
  <2>4. \A j \in 1..n : (IF j <= k THEN t[j] ELSE 0) = (IF j <= k THEN s[j] ELSE 0)
    BY <1>1, <2>3
  <2>5. CopyPrefix(t, k, n) = CopyPrefix(s, k, n)
    BY <2>4 DEF CopyPrefix
  <2> QED
    BY <1>3, <2>3, <2>5, ContentsCases DEF Resized, Copied, Resize, t
<1> QED
  BY <1>2, <1>3, ContentsCases

-----------------------------------------------------------------------------
(* Contexts and attributes.                                                *)

(* New contexts, and contexts with a recreated, lost or dirty writer, are  *)
(* contexts.                                                               *)
LEMMA CtxTypes ==
    /\ \A i \in Inodes : NewReader(i) \in ReadCtx
    /\ \A c \in WriteCtx, n \in Sizes : NewWriter(c, n) \in WriteCtx
    /\ \A c \in WriteCtx : Taken(c) \in WriteCtx
    /\ \A c \in WriteCtx, n \in Sizes, s \in Contents, p \in Sizes :
         [c EXCEPT !.size = n, !.st = "dirty", !.data = s, !.pos = p] \in WriteCtx
    /\ \A i \in Inodes, n \in Sizes :
         [ino |-> i, size |-> n, st |-> "clean", data |-> <<>>, pos |-> 0] \in WriteCtx
    /\ \A c \in WriteCtx, n \in Sizes, t \in {"clean", "detached"} :
         [NewWriter(c, n) EXCEPT !.st = t] \in WriteCtx
    /\ \A c \in WriteCtx, n \in Sizes : [c EXCEPT !.size = n] \in WriteCtx
    /\ \A c \in WriteCtx : [c EXCEPT !.data = Damaged] \in WriteCtx
<1>0. 0 \in Sizes /\ <<>> \in Contents
  BY EmptyContents, OpenFilesAssumption DEF Sizes
<1>1. \A i \in Inodes : NewReader(i) \in ReadCtx
  BY <1>0 DEF NewReader, ReadCtx
<1>2. \A c \in WriteCtx, n \in Sizes : NewWriter(c, n) \in WriteCtx
  BY <1>0 DEF NewWriter, WriteCtx, Sizes
<1>3. \A c \in WriteCtx : Taken(c) \in WriteCtx
  <2> TAKE c \in WriteCtx
  <2>1. c.size \in Sizes
    BY DEF WriteCtx, Sizes
  <2>2. NewWriter(c, c.size) \in WriteCtx
    BY <2>1, <1>2
  <2> QED
    BY <2>2 DEF Taken, WriteCtx
<1>4. \A c \in WriteCtx, n \in Sizes, s \in Contents, p \in Sizes :
         [c EXCEPT !.size = n, !.st = "dirty", !.data = s, !.pos = p] \in WriteCtx
  BY DEF WriteCtx, Sizes
<1>5. \A i \in Inodes, n \in Sizes :
         [ino |-> i, size |-> n, st |-> "clean", data |-> <<>>, pos |-> 0] \in WriteCtx
  BY <1>0 DEF WriteCtx, Sizes
<1>6. \A c \in WriteCtx, n \in Sizes, t \in {"clean", "detached"} :
         [NewWriter(c, n) EXCEPT !.st = t] \in WriteCtx
  BY <1>2 DEF WriteCtx
<1>7. \A c \in WriteCtx, n \in Sizes : [c EXCEPT !.size = n] \in WriteCtx
  BY DEF WriteCtx, Sizes
<1>8. \A c \in WriteCtx : [c EXCEPT !.data = Damaged] \in WriteCtx
  BY ContentsCases DEF WriteCtx
<1> QED
  BY <1>1, <1>2, <1>3, <1>4, <1>5, <1>6, <1>7, <1>8

(* The fields of a write context, which is not the absent context.         *)
LEMMA WriteCtxFields ==
    ASSUME NEW c \in WriteCtx
    PROVE  /\ c.ino \in Inodes /\ c.size \in Sizes /\ c.data \in Contents /\ c.pos \in Sizes
           /\ c # NoCtx
BY OpenFilesAssumption DEF WriteCtx, Sizes

(* The fields of a read context, which is not the absent context.          *)
LEMMA ReadCtxFields ==
    ASSUME NEW c \in ReadCtx
    PROVE  c.ino \in Inodes /\ c.snap \in Contents /\ c # NoCtx
BY OpenFilesAssumption DEF ReadCtx

(* The larger of two sizes is a size (merge_attr).                         *)
LEMMA MaxSizes == \A a, b \in Sizes : MaxOf(a, b) \in Sizes
BY DEF MaxOf

(* get_attr returns a size within bounds whenever the inode is cached or   *)
(* stored, and a registered writer has a context.                          *)
LEMMA AttrTypes ==
    ASSUME TypeOK, NEW i \in Inodes
    PROVE  /\ CachedAttr(i) \in Sizes \cup {Gone}
           /\ inode[i] # Gone => CachedAttr(i) \in Sizes
           /\ CachedAttr(i) # Gone => AttrSize(i) \in Sizes
           /\ AttrSize(i) # Gone => CachedAttr(i) \in Sizes
           /\ HasWriter(i) => ofw[i] \in Handles /\ wh[ofw[i]] \in WriteCtx
<1>1. CachedAttr(i) \in Sizes \cup {Gone} /\ (inode[i] # Gone => CachedAttr(i) \in Sizes)
  BY OpenFilesAssumption DEF TypeOK, CachedAttr, Sizes
<1>2. HasWriter(i) => ofw[i] \in Handles /\ wh[ofw[i]] \in WriteCtx
  BY DEF HasWriter, TypeOK
<1>3. \A n \in Sizes : MergeWriter(i, n) \in Sizes
  BY <1>2, WriteCtxFields, MaxSizes DEF MergeWriter
<1>4. Gone \notin Sizes
  BY OpenFilesAssumption DEF Sizes
<1> QED
  BY <1>1, <1>2, <1>3, <1>4 DEF AttrSize

(* reset_handles keeps every reader open on its inode.                     *)
LEMMA ReopenedType ==
    ASSUME TypeOK, NEW R
    PROVE  /\ Reopened(R) \in [Handles -> ReadCtx \cup {NoCtx}]
           /\ \A h \in Handles : /\ Reopened(R)[h] = NoCtx <=> rh[h] = NoCtx
                                 /\ rh[h] # NoCtx => Reopened(R)[h].ino = rh[h].ino
<1> SUFFICES ASSUME NEW h \in Handles
             PROVE  /\ Reopened(R)[h] \in ReadCtx \cup {NoCtx}
                    /\ Reopened(R)[h] = NoCtx <=> rh[h] = NoCtx
                    /\ rh[h] # NoCtx => Reopened(R)[h].ino = rh[h].ino
  BY DEF Reopened
<1>1. rh[h] \in ReadCtx \cup {NoCtx}
  BY DEF TypeOK
<1>2. CASE rh[h] = NoCtx
  BY <1>2 DEF Reopened
<1>3. CASE rh[h] # NoCtx
  <2>1. rh[h] \in ReadCtx
    BY <1>1, <1>3
  <2>2. [rh[h] EXCEPT !.snap = <<>>, !.eof = FALSE] \in ReadCtx
        /\ [rh[h] EXCEPT !.snap = <<>>, !.eof = FALSE].ino = rh[h].ino
    BY <2>1, EmptyContents DEF ReadCtx
  <2> QED
    BY <1>3, <2>1, <2>2, ReadCtxFields DEF Reopened
<1> QED
  BY <1>2, <1>3

(* finish of the writer leaves a content, and recreates no removed file.   *)
LEMMA FinishedType ==
    ASSUME TypeOK, NEW i \in Inodes, NEW c \in WriteCtx
    PROVE  /\ Finished(i, c) \in Contents \cup {Gone}
           /\ disk[i] # Gone => Finished(i, c) \in Contents
           /\ disk[i] = Gone => Finished(i, c) = Gone
BY WriteCtxFields DEF TypeOK, Finished

(* The same for flush_and_reset_writers.                                   *)
LEMMA FlushedDiskType ==
    ASSUME TypeOK, NEW i \in Inodes
    PROVE  /\ FlushedDisk(i) \in Contents \cup {Gone}
           /\ disk[i] # Gone => FlushedDisk(i) \in Contents
           /\ disk[i] = Gone => FlushedDisk(i) = Gone
BY FinishedType, AttrTypes DEF TypeOK, FlushedDisk

(* A freshly mounted file system is well typed.                            *)
LEMMA InitTInv == Init => TInv
<1> SUFFICES ASSUME Init PROVE TInv
  OBVIOUS
<1>1. \A i \in Inodes : Len(disk[i]) \in Sizes
  BY ContentsLen DEF Init
<1>2. TypeOK
  <2>1. inode \in [Inodes -> 0..BlockSize \cup {Gone}] /\ disk \in [Inodes -> Contents \cup {Gone}]
        /\ written \in [Inodes -> Contents]
    BY <1>1, ContentsCases DEF Init, Sizes
  <2>2. next \in 1..(MaxHandle + 1)
    BY OpenFilesAssumption DEF Init
  <2>3. /\ linked \in [Inodes -> BOOLEAN] /\ panicked \in BOOLEAN
        /\ cache \in [Inodes -> 0..BlockSize \cup {NoAttr}]
        /\ rh \in [Handles -> ReadCtx \cup {NoCtx}]
        /\ wh \in [Handles -> WriteCtx \cup {NoCtx}]
        /\ ofr \in [Inodes -> SUBSET Handles]
        /\ ofw \in [Inodes -> Handles \cup {NoHandle}]
        /\ owned \subseteq Handles
    BY DEF Init
  <2> QED
    BY <2>1, <2>2, <2>3 DEF TypeOK
<1>3. DiskHasInode
  BY <1>1, OpenFilesAssumption DEF Init, DiskHasInode, Sizes
<1> QED
  BY <1>2, <1>3 DEF TInv

-----------------------------------------------------------------------------
(* Type correctness, action by action.                                     *)

(* write_inode_to_storage keeps the stored and cached sizes in bounds and  *)
(* deletes no inode file.                                                  *)
LEMMA WriteInodeType ==
    ASSUME TypeOK, NEW i \in Inodes, NEW n \in Sizes, WriteInode(i, n)
    PROVE  /\ inode' \in [Inodes -> 0..BlockSize \cup {Gone}]
           /\ cache' \in [Inodes -> 0..BlockSize \cup {NoAttr}]
           /\ \A j \in Inodes : inode[j] # Gone => inode'[j] # Gone
           /\ inode'[i] # Gone
<1>1. n # Gone
  BY OpenFilesAssumption DEF Sizes
<1> QED
  BY <1>1 DEF WriteInode, TypeOK, Sizes

(* Reading an attribute into the cache keeps the cache well typed.         *)
LEMMA FillCacheType ==
    ASSUME TypeOK, NEW i \in Inodes, CachedAttr(i) # Gone
    PROVE  FillCache(i) \in [Inodes -> 0..BlockSize \cup {NoAttr}]
<1>1. CachedAttr(i) \in Sizes
  BY AttrTypes
<1> QED
  BY <1>1 DEF FillCache, TypeOK, Sizes

(* The read part of reset_handles keeps types and the set of open readers. *)
LEMMA ResetReadersType ==
    ASSUME TypeOK, NEW i \in Inodes, NEW R, NEW n \in Sizes, ResetReaders(i, R, n)
    PROVE  /\ inode' \in [Inodes -> 0..BlockSize \cup {Gone}]
           /\ cache' \in [Inodes -> 0..BlockSize \cup {NoAttr}]
           /\ rh' \in [Handles -> ReadCtx \cup {NoCtx}]
           /\ panicked' \in BOOLEAN
           /\ \A j \in Inodes : inode[j] # Gone => inode'[j] # Gone
           /\ \A h \in Handles : /\ rh'[h] = NoCtx <=> rh[h] = NoCtx
                                 /\ rh[h] # NoCtx => rh'[h].ino = rh[h].ino
<1>1. PICK S : /\ UNCHANGED <<inode, cache>> \/ WriteInode(i, n)
               /\ rh' = Reopened(S) /\ panicked' = Dangling(S)
  BY DEF ResetReaders
<1>2. /\ inode' \in [Inodes -> 0..BlockSize \cup {Gone}]
      /\ cache' \in [Inodes -> 0..BlockSize \cup {NoAttr}]
      /\ \A j \in Inodes : inode[j] # Gone => inode'[j] # Gone
  BY <1>1, WriteInodeType DEF TypeOK
<1>3. panicked' \in BOOLEAN
  BY <1>1, Zenon DEF Dangling
<1> QED
  BY <1>1, <1>2, <1>3, ReopenedType

(* get_attr, set_attr and cache expiry keep the types.                     *)
LEMMA AttrStepType ==
    ASSUME TInv, NEW i \in Inodes, GetAttr(i) \/ SetAttr(i) \/ Expire(i)
    PROVE  TInv'
<1> USE DEF TInv, store, tables
<1>1. CASE GetAttr(i)
  BY <1>1, FillCacheType DEF GetAttr, TypeOK, DiskHasInode
<1>2. CASE SetAttr(i)
  <2>1. AttrSize(i) \in Sizes
    BY <1>2, AttrTypes DEF SetAttr
  <2> QED
    BY <1>2, <2>1, WriteInodeType DEF SetAttr, TypeOK, DiskHasInode
<1>3. CASE Expire(i)
  BY <1>3 DEF Expire, TypeOK, DiskHasInode
<1> QED
  BY <1>1, <1>2, <1>3

(* A handle that open gives out is within the bound.                       *)
LEMMA NextHandle ==
    ASSUME TypeOK, next <= MaxHandle
    PROVE  next \in Handles /\ next + 1 \in 1..(MaxHandle + 1)
BY OpenFilesAssumption DEF TypeOK, Handles

(* Every outcome of open keeps the types.                                  *)
LEMMA OpenType ==
    ASSUME TInv, NEW i \in Inodes,
           OpenRead(i) \/ (\E rd \in BOOLEAN : OpenWrite(i, rd))
             \/ OpenAlreadyOpen(i) \/ OpenFails(i)
    PROVE  TInv'
<1> USE DEF TInv
<1>1. next \in Handles /\ next + 1 \in 1..(MaxHandle + 1) /\ inode[i] # Gone
  BY NextHandle DEF OpenRead, OpenWrite, OpenAlreadyOpen, OpenFails
<1>2. /\ NewReader(i) \in ReadCtx
      /\ FillCache(i) \in [Inodes -> 0..BlockSize \cup {NoAttr}]
      /\ [ino |-> i, size |-> AttrSize(i), st |-> "clean", data |-> <<>>, pos |-> 0] \in WriteCtx
  <2>1. CachedAttr(i) \in Sizes /\ CachedAttr(i) # Gone /\ AttrSize(i) \in Sizes
    BY <1>1, AttrTypes, OpenFilesAssumption DEF Sizes
  <2> QED
    BY <2>1, CtxTypes, FillCacheType
<1>3. CASE OpenRead(i)
  BY <1>1, <1>2, <1>3 DEF OpenRead, TypeOK, DiskHasInode, store
<1>4. ASSUME NEW rd \in BOOLEAN, OpenWrite(i, rd) PROVE TInv'
  <2>1. rh' \in [Handles -> ReadCtx \cup {NoCtx}] /\ ofr' \in [Inodes -> SUBSET Handles]
    BY <1>1, <1>2, <1>4 DEF OpenWrite, TypeOK
  <2>2. wh' \in [Handles -> WriteCtx \cup {NoCtx}] /\ ofw' \in [Inodes -> Handles \cup {NoHandle}]
    BY <1>1, <1>2, <1>4 DEF OpenWrite, TypeOK
  <2>3. owned' \subseteq Handles /\ next' \in 1..(MaxHandle + 1)
        /\ cache' \in [Inodes -> 0..BlockSize \cup {NoAttr}]
        /\ UNCHANGED <<linked, inode, disk, panicked, written>>
    BY <1>1, <1>2, <1>4 DEF OpenWrite, TypeOK, store
  <2> QED
    BY <2>1, <2>2, <2>3 DEF TypeOK, DiskHasInode
<1>5. CASE OpenAlreadyOpen(i)
  BY <1>1, <1>2, <1>5 DEF OpenAlreadyOpen, TypeOK, DiskHasInode, store
<1>6. CASE OpenFails(i)
  BY <1>1, <1>2, <1>6 DEF OpenFails, TypeOK, DiskHasInode, store
<1> QED
  BY <1>3, <1>4, <1>5, <1>6

(* Reading keeps a reader a reader of its inode.                           *)
LEMMA AfterReadType ==
    ASSUME NEW c \in ReadCtx, NEW block \in Contents, NEW pastEnd \in BOOLEAN
    PROVE  /\ AfterRead(c, block, pastEnd) \in ReadCtx
           /\ AfterRead(c, block, pastEnd).ino = c.ino
<1>1. /\ [c EXCEPT !.snap = <<>>, !.eof = TRUE] \in ReadCtx
      /\ [c EXCEPT !.snap = <<>>, !.eof = TRUE].ino = c.ino
      /\ [c EXCEPT !.snap = block] \in ReadCtx
      /\ [c EXCEPT !.snap = block].ino = c.ino
  BY EmptyContents DEF ReadCtx
<1> QED
  BY <1>1 DEF AfterRead

(* The one context that read changes.                                      *)
LEMMA ReadStep ==
    ASSUME TInv, NEW h \in Handles, NEW pastEnd \in BOOLEAN, Read(h, pastEnd)
    PROVE  \E d \in ReadCtx : d.ino = rh[h].ino /\ rh' = [rh EXCEPT ![h] = d]
<1>1. rh[h] \in ReadCtx /\ rh[h].ino \in Inodes
  BY ReadCtxFields DEF Read, TInv, TypeOK
<1>2. disk[rh[h].ino] \in Contents
  BY <1>1 DEF Read, TInv, TypeOK
<1> DEFINE d == AfterRead(rh[h], disk[rh[h].ino], pastEnd)
<1>3. d \in ReadCtx /\ d.ino = rh[h].ino
  BY <1>1, <1>2, AfterReadType
<1>4. rh' = [rh EXCEPT ![h] = d]
  BY DEF Read
<1> QED
  BY <1>3, <1>4

(* read changes one reader.                                                *)
LEMMA ReadType ==
    ASSUME TInv, NEW h \in Handles, NEW pastEnd \in BOOLEAN, Read(h, pastEnd)
    PROVE  TInv'
<1>1. rh' \in [Handles -> ReadCtx \cup {NoCtx}]
  BY ReadStep DEF TInv, TypeOK
<1>2. UNCHANGED <<linked, inode, disk, cache, wh, ofr, ofw, next, owned, panicked, written>>
  BY DEF Read, store
<1> QED
  BY <1>1, <1>2 DEF TInv, TypeOK, DiskHasInode

(* The facts about a step of a write handle h that its proofs share.       *)
LEMMA WriteHandleFacts ==
    ASSUME TInv, NEW h \in Handles, wh[h] # NoCtx
    PROVE  /\ wh[h] \in WriteCtx /\ wh[h].ino \in Inodes /\ wh[h].size \in Sizes
           /\ wh[h].data \in Contents
BY WriteCtxFields DEF TInv, TypeOK

(* write keeps the types: the written size stays within the block.         *)
LEMMA WriteType ==
    ASSUME TInv, NEW h \in Handles, NEW off \in 0..(BlockSize - 1), NEW b \in Bytes,
           Write(h, off, b)
    PROVE  TInv'
<1> USE DEF TInv
<1> DEFINE c == wh[h]
           i == c.ino
           base == IF c.st = "dirty" THEN c.data ELSE disk[i]
           size == WrittenSize(c, off)
<1>1. c \in WriteCtx /\ i \in Inodes /\ c.size \in Sizes /\ c.data \in Contents
  BY WriteHandleFacts DEF Write
<1>2. inode[i] # Gone /\ disk[i] # Gone /\ disk[i] \in Contents
  BY <1>1 DEF Write, TypeOK
<1>3. size \in Sizes /\ off + 1 \in Sizes
  BY <1>1, OpenFilesAssumption DEF WrittenSize, MaxOf, Sizes
<1>4. Put(base, off, b) \in Contents /\ Put(written[i], off, b) \in Contents
  BY <1>1, <1>2, PutContents DEF TypeOK
<1> DEFINE new == IF c.st = "detached" THEN [c EXCEPT !.size = size]
                  ELSE [c EXCEPT !.size = size, !.st = "dirty",
                                 !.data = Put(base, off, b), !.pos = off + 1]
<1>5. new \in WriteCtx
  <2>1. [c EXCEPT !.size = size] \in WriteCtx
    BY <1>1, <1>3, CtxTypes
  <2>2. [c EXCEPT !.size = size, !.st = "dirty", !.data = Put(base, off, b), !.pos = off + 1]
          \in WriteCtx
    BY <1>1, <1>3, <1>4, CtxTypes
  <2> QED
    BY <2>1, <2>2
<1>6. MaxOf(CachedAttr(i), size) \in Sizes
  BY <1>1, <1>2, <1>3, AttrTypes, MaxSizes
<1>7. /\ disk' = IF c.pos = BlockSize THEN [disk EXCEPT ![i] = Finished(i, c)] ELSE disk
      /\ wh' = [wh EXCEPT ![h] = new]
      /\ written' = [written EXCEPT ![i] = Put(written[i], off, b)]
      /\ ResetReaders(i, ofr[i] \ {h}, MaxOf(CachedAttr(i), size))
      /\ UNCHANGED <<linked, ofr, ofw, next, owned>>
  BY DEF Write
<1>8. Finished(i, c) \in Contents
  BY <1>1, <1>2, FinishedType
<1> HIDE DEF c, i, base, size, new
<1>9. /\ inode' \in [Inodes -> 0..BlockSize \cup {Gone}]
      /\ cache' \in [Inodes -> 0..BlockSize \cup {NoAttr}]
      /\ rh' \in [Handles -> ReadCtx \cup {NoCtx}]
      /\ panicked' \in BOOLEAN
      /\ \A j \in Inodes : inode[j] # Gone => inode'[j] # Gone
  BY <1>1, <1>6, <1>7, ResetReadersType
<1>10. wh' \in [Handles -> WriteCtx \cup {NoCtx}]
  BY <1>5, <1>7 DEF TypeOK
<1>11. disk' \in [Inodes -> Contents \cup {Gone}]
       /\ \A j \in Inodes : disk'[j] # Gone => disk[j] # Gone
  BY <1>1, <1>2, <1>7, <1>8 DEF TypeOK
<1>12. written' \in [Inodes -> Contents]
  BY <1>4, <1>7 DEF TypeOK
<1> QED
  BY <1>7, <1>9, <1>10, <1>11, <1>12 DEF TypeOK, DiskHasInode

(* A store that fails keeps the types: what is lost is damaged.            *)
LEMMA StoreFailsType ==
    ASSUME TInv, NEW h \in Handles, WriteFails(h) \/ StoreFails(h)
    PROVE  TInv'
<1> USE DEF TInv
<1> DEFINE c == wh[h]
           i == c.ino
<1>1. c \in WriteCtx /\ i \in Inodes /\ c.size \in Sizes
  BY WriteHandleFacts DEF WriteFails, StoreFails
<1>2. /\ disk' \in {disk, [disk EXCEPT ![i] = Torn(i)], [disk EXCEPT ![i] = Finished(i, c)]}
      /\ wh' \in {[wh EXCEPT ![h] = [c EXCEPT !.data = Damaged]],
                  [wh EXCEPT ![h] = NewWriter(c, c.size)]}
      /\ written' \in {written, [written EXCEPT ![i] = Damaged]}
      /\ UNCHANGED <<linked, inode, cache, rh, ofr, ofw, next, owned, panicked>>
  BY DEF WriteFails, StoreFails, SealFails, MaybeTorn
<1>3. NewWriter(c, c.size) \in WriteCtx /\ [c EXCEPT !.data = Damaged] \in WriteCtx
  BY <1>1, CtxTypes
<1>4. /\ Finished(i, c) \in Contents \cup {Gone} /\ (disk[i] = Gone => Finished(i, c) = Gone)
      /\ Torn(i) \in Contents \cup {Gone} /\ (disk[i] = Gone => Torn(i) = Gone)
  BY <1>1, FinishedType, ContentsCases DEF Torn
<1> HIDE DEF c, i
<1>5. wh' \in [Handles -> WriteCtx \cup {NoCtx}]
  BY <1>2, <1>3 DEF TypeOK
<1>6. disk' \in [Inodes -> Contents \cup {Gone}]
      /\ \A j \in Inodes : disk'[j] # Gone => disk[j] # Gone
  BY <1>1, <1>2, <1>4 DEF TypeOK
<1>7. written' \in [Inodes -> Contents]
  BY <1>2, ContentsCases DEF TypeOK
<1> QED
  BY <1>2, <1>5, <1>6, <1>7 DEF TypeOK, DiskHasInode

(* flush keeps the types.                                                  *)
LEMMA FlushType ==
    ASSUME TInv, NEW h \in Handles, NEW f, Flush(h, f)
    PROVE  TInv'
<1> USE DEF TInv
<1> DEFINE c == wh[h]
           i == c.ino
           full == c.st = "dirty" /\ c.pos = BlockSize
<1>1. c \in WriteCtx /\ i \in Inodes /\ c.size \in Sizes
  BY WriteHandleFacts DEF Flush
<1>2. /\ disk' = IF full THEN [disk EXCEPT ![i] = Finished(i, c)] ELSE disk
      /\ wh' = IF full THEN [wh EXCEPT ![h] = NewWriter(c, c.size)] ELSE wh
      /\ IF disk[i] = Gone \/ CachedAttr(i) = Gone \/ FaultAt(f, "sync")
         THEN UNCHANGED <<inode, cache, rh, panicked>>
         ELSE ResetReaders(i, ofr[i] \ {h}, MaxOf(CachedAttr(i), c.size))
      /\ UNCHANGED <<linked, written, ofr, ofw, next, owned>>
  BY DEF Flush
<1>3. NewWriter(c, c.size) \in WriteCtx
  BY <1>1, CtxTypes
<1>4. Finished(i, c) \in Contents \cup {Gone} /\ (disk[i] = Gone => Finished(i, c) = Gone)
  BY <1>1, FinishedType
<1>5. CachedAttr(i) # Gone => MaxOf(CachedAttr(i), c.size) \in Sizes
  BY <1>1, AttrTypes, MaxSizes
<1> HIDE DEF c, i, full
<1>6. /\ inode' \in [Inodes -> 0..BlockSize \cup {Gone}]
      /\ cache' \in [Inodes -> 0..BlockSize \cup {NoAttr}]
      /\ rh' \in [Handles -> ReadCtx \cup {NoCtx}]
      /\ panicked' \in BOOLEAN
      /\ \A j \in Inodes : inode[j] # Gone => inode'[j] # Gone
  BY <1>1, <1>2, <1>5, ResetReadersType DEF TypeOK
<1>7. wh' \in [Handles -> WriteCtx \cup {NoCtx}]
  BY <1>2, <1>3 DEF TypeOK
<1>8. disk' \in [Inodes -> Contents \cup {Gone}]
      /\ \A j \in Inodes : disk'[j] # Gone => disk[j] # Gone
  BY <1>1, <1>2, <1>4 DEF TypeOK
<1> QED
  BY <1>2, <1>6, <1>7, <1>8 DEF TypeOK, DiskHasInode

(* Every outcome of release keeps the types.                               *)
LEMMA ReleaseType ==
    ASSUME TInv, NEW h \in Handles,
           \/ ReleaseWrite(h)
           \/ \E f \in Steps : ReleaseRead(h, f) \/ ReleaseStopsEarly(h, f) \/ ReleaseFails(h, f)
    PROVE  TInv'
<1> USE DEF TInv
<1>1. ASSUME rh[h] # NoCtx, WithoutReader(h)
      PROVE  rh' \in [Handles -> ReadCtx \cup {NoCtx}] /\ ofr' \in [Inodes -> SUBSET Handles]
  <2>1. rh[h].ino \in Inodes
    BY <1>1, ReadCtxFields DEF TypeOK
  <2> QED
    BY <1>1, <2>1 DEF WithoutReader, TypeOK
<1>2. ASSUME NEW f \in Steps, ReleaseRead(h, f) PROVE TInv'
  <2>1. rh[h] \in ReadCtx /\ rh[h].ino \in Inodes
    BY <1>2, ReadCtxFields DEF ReleaseRead, TypeOK
  <2>2. UNCHANGED <<inode, cache>> \/
          (WriteInode(rh[h].ino, AttrSize(rh[h].ino)) /\ CachedAttr(rh[h].ino) # Gone)
    BY <1>2 DEF ReleaseRead
  <2>3. /\ inode' \in [Inodes -> 0..BlockSize \cup {Gone}]
        /\ cache' \in [Inodes -> 0..BlockSize \cup {NoAttr}]
        /\ \A j \in Inodes : inode[j] # Gone => inode'[j] # Gone
    BY <2>1, <2>2, AttrTypes, WriteInodeType DEF TypeOK
  <2>4. owned' \subseteq Handles /\ UNCHANGED <<linked, disk, wh, ofw, next, panicked, written>>
    BY <1>2 DEF ReleaseRead, TypeOK
  <2>5. rh' \in [Handles -> ReadCtx \cup {NoCtx}] /\ ofr' \in [Inodes -> SUBSET Handles]
    BY <1>1, <1>2 DEF ReleaseRead
  <2> QED
    BY <2>3, <2>4, <2>5 DEF TypeOK, DiskHasInode
<1>3. ASSUME NEW f \in Steps, ReleaseStopsEarly(h, f) PROVE TInv'
  <2>1. rh' \in [Handles -> ReadCtx \cup {NoCtx}] /\ ofr' \in [Inodes -> SUBSET Handles]
    BY <1>1, <1>3 DEF ReleaseStopsEarly
  <2> QED
    BY <1>3, <2>1 DEF ReleaseStopsEarly, TypeOK, DiskHasInode, store
<1>4. ASSUME NEW f \in Steps, ReleaseFails(h, f) PROVE TInv'
  <2> DEFINE i == wh[h].ino
  <2>1. wh[h] \in WriteCtx /\ i \in Inodes
    BY <1>4, WriteHandleFacts DEF ReleaseFails
  <2>2. /\ \/ rh[h] # NoCtx /\ CachedAttr(i) # Gone /\ WithoutReader(h) /\ WriteInode(i, AttrSize(i))
           \/ UNCHANGED <<rh, ofr, inode, cache>>
        /\ disk' \in {disk, [disk EXCEPT ![i] = Torn(i)], [disk EXCEPT ![i] = Finished(i, wh[h])]}
        /\ written' \in {written, [written EXCEPT ![i] = Damaged]}
        /\ wh' = [wh EXCEPT ![h] = NoCtx] /\ owned' = owned \ {h}
        /\ UNCHANGED <<linked, ofw, next, panicked>>
    BY <1>4 DEF ReleaseFails, MaybeTorn
  <2> HIDE DEF i
  <2>3. /\ inode' \in [Inodes -> 0..BlockSize \cup {Gone}]
        /\ cache' \in [Inodes -> 0..BlockSize \cup {NoAttr}]
        /\ \A j \in Inodes : inode[j] # Gone => inode'[j] # Gone
    BY <2>1, <2>2, AttrTypes, WriteInodeType DEF TypeOK
  <2>4. rh' \in [Handles -> ReadCtx \cup {NoCtx}] /\ ofr' \in [Inodes -> SUBSET Handles]
    BY <1>1, <2>2 DEF TypeOK
  <2>5. disk' \in [Inodes -> Contents \cup {Gone}]
        /\ \A j \in Inodes : disk'[j] # Gone => disk[j] # Gone
    BY <2>1, <2>2, FinishedType, ContentsCases DEF TypeOK, Torn
  <2>6. wh' \in [Handles -> WriteCtx \cup {NoCtx}] /\ owned' \subseteq Handles
        /\ written' \in [Inodes -> Contents]
    BY <2>2, ContentsCases DEF TypeOK
  <2> QED
    BY <2>2, <2>3, <2>4, <2>5, <2>6 DEF TypeOK, DiskHasInode
<1>5. CASE ReleaseWrite(h)
  <2> DEFINE i == wh[h].ino
             R == ofr[i] \ {h}
  <2>1. wh[h] \in WriteCtx /\ i \in Inodes
    BY <1>5, WriteHandleFacts DEF ReleaseWrite
  <2>2. /\ CachedAttr(i) # Gone /\ WriteInode(i, AttrSize(i))
        /\ disk' = [disk EXCEPT ![i] = Finished(i, wh[h])]
        /\ wh' = [wh EXCEPT ![h] = NoCtx] /\ ofr' = [ofr EXCEPT ![i] = R]
        /\ ofw' = [ofw EXCEPT ![i] = NoHandle]
        /\ \E S : /\ rh' = [rh EXCEPT ![h] = NoCtx] \/ rh' = [Reopened(S) EXCEPT ![h] = NoCtx]
                  /\ panicked' = Dangling(S)
        /\ owned' = owned \ {h}
        /\ UNCHANGED <<linked, written, next>>
    BY <1>5 DEF ReleaseWrite
  <2>3. R \subseteq Handles
    BY <2>1 DEF TypeOK
  <2>4. \A S : Dangling(S) \in BOOLEAN
    BY DEF Dangling
  <2> HIDE DEF i, R
  <2>5. /\ inode' \in [Inodes -> 0..BlockSize \cup {Gone}]
        /\ cache' \in [Inodes -> 0..BlockSize \cup {NoAttr}]
        /\ \A j \in Inodes : inode[j] # Gone => inode'[j] # Gone
    BY <2>1, <2>2, AttrTypes, WriteInodeType
  <2>6. rh' \in [Handles -> ReadCtx \cup {NoCtx}]
    BY <2>2, ReopenedType DEF TypeOK
  <2>7. disk' \in [Inodes -> Contents \cup {Gone}]
        /\ \A j \in Inodes : disk'[j] # Gone => disk[j] # Gone
    BY <2>1, <2>2, FinishedType DEF TypeOK
  <2>8. wh' \in [Handles -> WriteCtx \cup {NoCtx}] /\ owned' \subseteq Handles
        /\ ofr' \in [Inodes -> SUBSET Handles] /\ ofw' \in [Inodes -> Handles \cup {NoHandle}]
    BY <2>1, <2>2, <2>3 DEF TypeOK
  <2>9. panicked' \in BOOLEAN
    BY <2>2, <2>4, Zenon
  <2> QED
    BY <2>2, <2>5, <2>6, <2>7, <2>8, <2>9 DEF TypeOK, DiskHasInode
<1> QED
  BY <1>2, <1>3, <1>4, <1>5

(* What set_len copies into the new contents file is a content again, and  *)
(* so is what a client expects of it.                                      *)
LEMMA CopiedContents ==
    ASSUME TypeOK, NEW i \in Inodes, NEW n \in 0..BlockSize, SetLenAsked(i, n), CanCopy(i, n)
    PROVE  /\ Copied(FlushedDisk(i), Kept(i, n), n) \in Contents
           /\ Resized(written[i], Kept(i, n), n) \in Contents
           /\ AttrSize(i) \in Sizes /\ Kept(i, n) \in Sizes /\ Kept(i, n) <= n
           /\ FlushedDisk(i) \in Plaintexts => Kept(i, n) <= Len(FlushedDisk(i)) \/ Kept(i, n) = 0
<1>1. n \in Nat /\ n \in Sizes
  BY OpenFilesAssumption DEF Sizes
<1>2. AttrSize(i) \in Sizes
  <2>1. AttrSize(i) # Gone
    BY DEF SetLenAsked
  <2> QED
    BY <2>1, AttrTypes DEF AttrSize
<1>3. Kept(i, n) \in Sizes /\ Kept(i, n) <= n /\ Kept(i, n) \in Nat
  BY <1>1, <1>2, OpenFilesAssumption DEF Kept, MinOf, Sizes
<1>4. FlushedDisk(i) \in Plaintexts => Kept(i, n) <= Len(FlushedDisk(i)) \/ Kept(i, n) = 0
  <2>1. CASE n = 0
    BY <1>3, <2>1
  <2>2. CASE n # 0
    <3>1. FlushedDisk(i) \in Plaintexts => Len(FlushedDisk(i)) >= Kept(i, n)
      BY <2>2, ContentsCases DEF CanCopy
    <3>2. FlushedDisk(i) \in Plaintexts => Len(FlushedDisk(i)) \in Nat
      BY ContentsLen, OpenFilesAssumption DEF Sizes
    <3> QED
      BY <1>3, <3>1, <3>2
  <2> QED
    BY <2>1, <2>2
<1>5. Copied(FlushedDisk(i), Kept(i, n), n) \in Contents
  <2>1. CASE Kept(i, n) = 0
    BY <1>1, <2>1, CopyNothing, ContentsCases DEF Copied
  <2>2. CASE Kept(i, n) # 0
    <3>1. disk[i] # Gone
      BY <1>3, <2>2 DEF CanCopy
    <3>2. FlushedDisk(i) \in Contents
      BY <3>1, FlushedDiskType
    <3>3. CASE FlushedDisk(i) = Damaged
      BY <1>3, <2>2, <3>3, ContentsCases DEF Copied
    <3>4. CASE FlushedDisk(i) \in Plaintexts
      BY <1>1, <1>3, <1>4, <2>2, <3>4, CopyPrefixContents, ContentsCases DEF Copied
    <3> QED
      BY <3>2, <3>3, <3>4, ContentsCases
  <2> QED
    BY <2>1, <2>2
<1>6. Resized(written[i], Kept(i, n), n) \in Contents
  BY <1>1, <1>3, ResizedContents DEF TypeOK
<1> QED
  BY <1>2, <1>3, <1>4, <1>5, <1>6

(* The readers that set_len leaves behind when it stops stay readers of    *)
(* their inodes.                                                           *)
LEMMA StoppedType ==
    ASSUME TypeOK, NEW i \in Inodes, NEW n \in 0..BlockSize, NEW S, CanCopy(i, n)
    PROVE  /\ ReadersStopped(i, n, S) \in [Handles -> ReadCtx \cup {NoCtx}]
           /\ \A h \in Handles : /\ ReadersStopped(i, n, S)[h] = NoCtx <=> rh[h] = NoCtx
                                 /\ rh[h] # NoCtx => ReadersStopped(i, n, S)[h].ino = rh[h].ino
<1> DEFINE before == IF HasWriter(i) THEN Reopened(ofr[i] \ {ofw[i]}) ELSE rh
           after(r) == IF rh[r] = NoCtx \/ r \notin ofr[i] THEN rh[r]
                       ELSE IF r \in S THEN Reopened(S)[r]
                       ELSE IF n = 0 THEN before[r] ELSE LeftBehind(before[r], FlushedDisk(i))
<1>0. ReadersStopped(i, n, S) = [r \in Handles |-> after(r)]
  BY DEF ReadersStopped
<1> HIDE DEF after
<1> SUFFICES ASSUME NEW h \in Handles
             PROVE  /\ after(h) \in ReadCtx \cup {NoCtx}
                    /\ after(h) = NoCtx <=> rh[h] = NoCtx
                    /\ rh[h] # NoCtx => after(h).ino = rh[h].ino
  BY <1>0
<1> USE DEF after
<1>1. CASE rh[h] = NoCtx
  BY <1>1
<1>2. CASE rh[h] # NoCtx
  <2>1. rh[h] \in ReadCtx
    BY <1>2 DEF TypeOK
  <2>2. \A Q : Reopened(Q)[h] \in ReadCtx /\ Reopened(Q)[h].ino = rh[h].ino
    BY <1>2, ReopenedType, ReadCtxFields
  <2>3. before[h] \in ReadCtx /\ before[h].ino = rh[h].ino
    BY <2>1, <2>2
  <2>4. n # 0 => /\ LeftBehind(before[h], FlushedDisk(i)) \in ReadCtx
                 /\ LeftBehind(before[h], FlushedDisk(i)).ino = rh[h].ino
    <3> SUFFICES ASSUME n # 0
                 PROVE  /\ LeftBehind(before[h], FlushedDisk(i)) \in ReadCtx
                        /\ LeftBehind(before[h], FlushedDisk(i)).ino = rh[h].ino
      OBVIOUS
    <3>1. FlushedDisk(i) \in Contents
      BY FlushedDiskType DEF CanCopy
    <3> HIDE DEF before
    <3>2. /\ AfterRead(before[h], FlushedDisk(i), FALSE) \in ReadCtx
          /\ AfterRead(before[h], FlushedDisk(i), FALSE).ino = rh[h].ino
      BY <2>3, <3>1, AfterReadType
    <3>3. \A c \in ReadCtx : /\ [c EXCEPT !.eof = @ \/ FlushedDisk(i) = <<>>] \in ReadCtx
                             /\ [c EXCEPT !.eof = @ \/ FlushedDisk(i) = <<>>].ino = c.ino
      BY DEF ReadCtx
    <3> QED
      BY <3>2, <3>3 DEF LeftBehind
  <2> HIDE DEF before
  <2>5. after(h) \in ReadCtx /\ after(h).ino = rh[h].ino
    BY <1>2, <2>1, <2>2, <2>3, <2>4
  <2> QED
    BY <1>2, <2>5, ReadCtxFields
<1> QED
  BY <1>1, <1>2

(* Every outcome of set_len keeps the types.                               *)
LEMMA SetLenType ==
    ASSUME TInv, NEW i \in Inodes, NEW n \in 0..BlockSize,
           \/ SetLenNoop(i, n)
           \/ SetLen(i, n)
           \/ \E f \in Steps : SetLenCopyFails(i, n, f) \/ SetLenLosesWriter(i, n, f)
           \/ \E f \in Steps : SetLenStops(i, n, f)
    PROVE  TInv'
<1> USE DEF TInv
<1>1. n \in Sizes /\ n # Gone /\ n \in Nat
  BY OpenFilesAssumption DEF Sizes
<1>2. AttrSize(i) # Gone /\ CachedAttr(i) # Gone /\ AttrSize(i) \in Sizes
  <2>1. AttrSize(i) # Gone
    BY <1>1 DEF SetLenNoop, SetLen, SetLenCopyFails, SetLenLosesWriter, SetLenStops, SetLenAsked
  <2> QED
    BY <2>1, AttrTypes DEF AttrSize
<1>3. FillCache(i) \in [Inodes -> 0..BlockSize \cup {NoAttr}]
  BY <1>2, FillCacheType
<1>4. \A m \in Sizes : HasWriter(i) =>
        [wh EXCEPT ![ofw[i]] = NewWriter(@, m)] \in [Handles -> WriteCtx \cup {NoCtx}]
  <2> SUFFICES ASSUME NEW m \in Sizes, HasWriter(i)
               PROVE  [wh EXCEPT ![ofw[i]] = NewWriter(@, m)] \in [Handles -> WriteCtx \cup {NoCtx}]
    OBVIOUS
  <2>1. ofw[i] \in Handles /\ wh[ofw[i]] \in WriteCtx
    BY AttrTypes
  <2>2. NewWriter(wh[ofw[i]], m) \in WriteCtx
    BY <2>1, CtxTypes
  <2> QED
    BY <2>1, <2>2 DEF TypeOK
<1>5. CASE SetLenNoop(i, n)
  BY <1>3, <1>5 DEF SetLenNoop, TypeOK, DiskHasInode, store, tables
<1>6. CASE SetLen(i, n)
  <2> DEFINE merged == IF HasWriter(i) /\ ofr[i] # {} THEN MaxOf(n, AttrSize(i)) ELSE n
             new == Copied(FlushedDisk(i), Kept(i, n), n)
             goal == Resized(written[i], Kept(i, n), n)
  <2>1. merged \in Sizes
    BY <1>1, <1>2, MaxSizes
  <2>2. new \in Contents /\ goal \in Contents
    BY <1>6, CopiedContents DEF SetLen
  <2>3. /\ disk' = [disk EXCEPT ![i] = new] /\ WriteInode(i, merged)
        /\ wh' = IF HasWriter(i) THEN [wh EXCEPT ![ofw[i]] = NewWriter(@, merged)] ELSE wh
        /\ rh' = Reopened(ofr[i]) /\ panicked' = Dangling(ofr[i])
        /\ written' = [written EXCEPT ![i] = goal]
        /\ UNCHANGED <<linked, ofr, ofw, next, owned>>
    BY <1>6 DEF SetLen
  <2> HIDE DEF merged, new, goal
  <2>4. /\ inode' \in [Inodes -> 0..BlockSize \cup {Gone}]
        /\ cache' \in [Inodes -> 0..BlockSize \cup {NoAttr}]
        /\ \A j \in Inodes : inode[j] # Gone => inode'[j] # Gone
        /\ inode'[i] # Gone
    BY <2>1, <2>3, WriteInodeType
  <2>5. rh' \in [Handles -> ReadCtx \cup {NoCtx}]
    BY <2>3, ReopenedType
  <2>6. wh' \in [Handles -> WriteCtx \cup {NoCtx}]
    BY <1>4, <2>1, <2>3 DEF TypeOK
  <2>7. disk' \in [Inodes -> Contents \cup {Gone}]
        /\ written' \in [Inodes -> Contents]
        /\ \A j \in Inodes : disk'[j] # Gone => disk[j] # Gone \/ j = i
    BY <2>2, <2>3 DEF TypeOK
  <2>8. panicked' \in BOOLEAN
    BY <2>3, Zenon DEF Dangling
  <2> QED
    BY <2>3, <2>4, <2>5, <2>6, <2>7, <2>8 DEF TypeOK, DiskHasInode
<1>7. ASSUME NEW f \in Steps, SetLenCopyFails(i, n, f) PROVE TInv'
  <2> DEFINE R == IF HasWriter(i) THEN ofr[i] \ {ofw[i]} ELSE {}
  <2>1. /\ disk' = [disk EXCEPT ![i] = FlushedDisk(i)]
        /\ \/ /\ HasWriter(i) /\ WriteInode(i, AttrSize(i))
              /\ wh' = [wh EXCEPT ![ofw[i]] = NewWriter(@, AttrSize(i))]
           \/ cache' = FillCache(i) /\ UNCHANGED <<inode, wh>>
        /\ rh' = Reopened(R) /\ panicked' = Dangling(R)
        /\ UNCHANGED <<linked, written, ofr, ofw, next, owned>>
    BY <1>7 DEF SetLenCopyFails
  <2> HIDE DEF R
  <2>2. /\ inode' \in [Inodes -> 0..BlockSize \cup {Gone}]
        /\ cache' \in [Inodes -> 0..BlockSize \cup {NoAttr}]
        /\ \A j \in Inodes : inode[j] # Gone => inode'[j] # Gone
    BY <1>2, <1>3, <2>1, WriteInodeType DEF TypeOK
  <2>3. wh' \in [Handles -> WriteCtx \cup {NoCtx}]
    BY <1>2, <1>4, <2>1 DEF TypeOK
  <2>4. rh' \in [Handles -> ReadCtx \cup {NoCtx}]
    BY <2>1, ReopenedType
  <2>5. disk' \in [Inodes -> Contents \cup {Gone}]
        /\ \A j \in Inodes : disk'[j] # Gone => disk[j] # Gone
    BY <2>1, FlushedDiskType DEF TypeOK
  <2>6. panicked' \in BOOLEAN
    BY <2>1, Zenon DEF Dangling
  <2> QED
    BY <2>1, <2>2, <2>3, <2>4, <2>5, <2>6 DEF TypeOK, DiskHasInode
<1>8. ASSUME NEW f \in Steps, SetLenLosesWriter(i, n, f) PROVE TInv'
  <2>1. /\ HasWriter(i)
        /\ (cache' = FillCache(i) /\ UNCHANGED inode) \/ WriteInode(i, AttrSize(i))
        /\ disk' \in {disk, [disk EXCEPT ![i] = Torn(i)], [disk EXCEPT ![i] = FlushedDisk(i)]}
        /\ written' \in {written, [written EXCEPT ![i] = Damaged]}
        /\ wh' = [wh EXCEPT ![ofw[i]] = Taken(@)]
        /\ UNCHANGED <<linked, ofr, ofw, next, owned>>
    BY <1>8 DEF SetLenLosesWriter, MaybeTorn
  <2>2. ofw[i] \in Handles /\ wh[ofw[i]] \in WriteCtx /\ Taken(wh[ofw[i]]) \in WriteCtx
    BY <2>1, AttrTypes, CtxTypes
  <2>3. wh' \in [Handles -> WriteCtx \cup {NoCtx}]
    BY <2>1, <2>2 DEF TypeOK
  <2>4. /\ inode' \in [Inodes -> 0..BlockSize \cup {Gone}]
        /\ cache' \in [Inodes -> 0..BlockSize \cup {NoAttr}]
        /\ \A j \in Inodes : inode[j] # Gone => inode'[j] # Gone
    BY <1>2, <1>3, <2>1, WriteInodeType DEF TypeOK
  <2>5. disk' \in [Inodes -> Contents \cup {Gone}]
        /\ \A j \in Inodes : disk'[j] # Gone => disk[j] # Gone
    BY <2>1, FlushedDiskType, ContentsCases DEF TypeOK, Torn
  <2>6. written' \in [Inodes -> Contents]
    BY <2>1, ContentsCases DEF TypeOK
  <2>7. UNCHANGED <<rh, panicked>> \/ (\E S : rh' = Reopened(S) /\ panicked' = Dangling(S))
    BY <1>8 DEF SetLenLosesWriter
  <2>8. rh' \in [Handles -> ReadCtx \cup {NoCtx}]
    BY <2>7, ReopenedType DEF TypeOK
  <2>9. panicked' \in BOOLEAN
    <3>1. CASE panicked' = panicked
      BY <3>1 DEF TypeOK
    <3>2. CASE \E S : panicked' = Dangling(S)
      BY <3>2, Zenon DEF Dangling
    <3> QED
      BY <2>7, <3>1, <3>2
  <2> QED
    BY <2>1, <2>3, <2>4, <2>5, <2>6, <2>8, <2>9 DEF TypeOK, DiskHasInode
<1>9. ASSUME NEW f \in Steps, SetLenStops(i, n, f) PROVE TInv'
  <2> DEFINE new == Copied(FlushedDisk(i), Kept(i, n), n)
             goal == Resized(written[i], Kept(i, n), n)
             t == IF n = 0 THEN "clean" ELSE "detached"
  <2>1. new \in Contents /\ goal \in Contents
    BY <1>9, CopiedContents DEF SetLenStops
  <2>2. /\ disk' = [disk EXCEPT ![i] = new]
        /\ written' \in {[written EXCEPT ![i] = Damaged], [written EXCEPT ![i] = goal]}
        /\ \/ wh' = wh
           \/ /\ HasWriter(i)
              /\ wh' = [wh EXCEPT ![ofw[i]] = [NewWriter(@, AttrSize(i)) EXCEPT !.st = t]]
        /\ \/ cache' = FillCache(i) /\ UNCHANGED inode
           \/ \E m \in {AttrSize(i), MaxOf(n, AttrSize(i)), n} : WriteInode(i, m)
        /\ \E S : rh' = ReadersStopped(i, n, S)
        /\ UNCHANGED <<linked, ofr, ofw, next, owned, panicked>>
        /\ "fault" \in Env
    BY <1>9 DEF SetLenStops, FaultAt
  <2>3. disk' \in [Inodes -> Contents \cup {Gone}] /\ written' \in [Inodes -> Contents]
    BY <2>1, <2>2, ContentsCases DEF TypeOK
  <2>4. wh' \in [Handles -> WriteCtx \cup {NoCtx}]
    <3>1. HasWriter(i) => /\ ofw[i] \in Handles /\ wh[ofw[i]] \in WriteCtx
                          /\ [NewWriter(wh[ofw[i]], AttrSize(i)) EXCEPT !.st = t] \in WriteCtx
      BY <1>2, AttrTypes, CtxTypes
    <3> QED
      BY <2>2, <3>1 DEF TypeOK
  <2>5. MaxOf(n, AttrSize(i)) \in Sizes
    BY <1>1, <1>2, MaxSizes
  <2>6. /\ inode' \in [Inodes -> 0..BlockSize \cup {Gone}]
        /\ cache' \in [Inodes -> 0..BlockSize \cup {NoAttr}]
    BY <1>1, <1>2, <1>3, <2>2, <2>5, WriteInodeType DEF TypeOK
  <2>7. rh' \in [Handles -> ReadCtx \cup {NoCtx}]
    <3>1. CanCopy(i, n) /\ (HasWriter(i) => disk[i] # Gone)
      BY <1>9 DEF SetLenStops
    <3> QED
      BY <2>2, <3>1, StoppedType
  <2> QED
    BY <2>2, <2>3, <2>4, <2>6, <2>7 DEF TypeOK, DiskHasInode
<1> QED
  BY <1>5, <1>6, <1>7, <1>8, <1>9

(* remove_file, a restart and a failing unwrap keep the types.             *)
LEMMA RemoveCrashType ==
    ASSUME TInv, Crash \/ (\E i \in Inodes : RemoveFile(i))
                   \/ (\E h \in Handles : WriterMissing(h))
    PROVE  TInv'
<1> USE DEF TInv
<1>1. CASE Crash
  <2>1. next' \in 1..(MaxHandle + 1)
    BY <1>1, OpenFilesAssumption DEF Crash
  <2> QED
    BY <1>1, <2>1, EmptyContents DEF Crash, TypeOK, DiskHasInode
<1>2. ASSUME NEW i \in Inodes, RemoveFile(i) PROVE TInv'
  <2>1. CachedAttr(i) # Gone
    BY <1>2, AttrTypes, OpenFilesAssumption DEF RemoveFile, Sizes
  <2> QED
    BY <1>2, <2>1, FillCacheType DEF RemoveFile, TypeOK, DiskHasInode, tables
<1>3. ASSUME NEW h \in Handles, WriterMissing(h) PROVE TInv'
  BY <1>3 DEF WriterMissing, TypeOK, DiskHasInode, store, tables
<1> QED
  BY <1>1, <1>2, <1>3

(* Every step keeps the types.                                             *)
LEMMA NextTInv == TInv /\ [Next]_vars => TInv'
<1> SUFFICES ASSUME TInv, [Next]_vars PROVE TInv'
  OBVIOUS
<1>1. ASSUME NEW i \in Inodes, InodeStep(i) PROVE TInv'
  BY <1>1, AttrStepType, OpenType, SetLenType, RemoveCrashType DEF InodeStep, Steps
<1>2. ASSUME NEW h \in Handles, HandleStep(h) PROVE TInv'
  BY <1>2, ReadType, WriteType, StoreFailsType, FlushType, ReleaseType, RemoveCrashType
     DEF HandleStep, Steps
<1>3. CASE Crash
  BY <1>3, RemoveCrashType
<1>4. CASE UNCHANGED vars
  BY <1>4 DEF vars, TInv, TypeOK, DiskHasInode
<1> QED
  BY <1>1, <1>2, <1>3, <1>4 DEF Next

(* The open-file layer keeps its types in every environment: no size       *)
(* leaves 0..BlockSize, and no table refers to a handle that was not given *)
(* out.                                                                    *)
THEOREM TypeCorrect == Spec => []TypeOK
<1>1. TInv => TypeOK
  BY DEF TInv
<1> QED
  BY <1>1, InitTInv, NextTInv, PTL DEF Spec

-----------------------------------------------------------------------------
(* The handle tables.                                                      *)

(* next_handle never repeats a number while a handle with it is open.      *)
Unused == \A h \in Handles : h >= next => rh[h] = NoCtx /\ wh[h] = NoCtx

(* A handle open for read and write is open on one inode.                  *)
SameIno == \A h \in Handles : rh[h] # NoCtx /\ wh[h] # NoCtx => rh[h].ino = wh[h].ino

(* A writer that is registered for a file is a writer of that file: handle *)
(* numbers are not given out again while they are registered.              *)
OwnWriter ==
    \A i \in Inodes : ofw[i] # NoHandle =>
        ofw[i] < next /\ (wh[ofw[i]] # NoCtx => wh[ofw[i]].ino = i)

Tables == Registered /\ Unused /\ SameIno /\ OwnWriter

(* The same handles are open on the same inodes after a step.              *)
SameReaders == \A h \in Handles : /\ rh'[h] = NoCtx <=> rh[h] = NoCtx
                                  /\ rh[h] # NoCtx => rh'[h].ino = rh[h].ino
SameWriters == \A h \in Handles : /\ wh'[h] = NoCtx <=> wh[h] = NoCtx
                                  /\ wh[h] # NoCtx => wh'[h].ino = wh[h].ino

(* Most calls change neither the set of open handles nor the registrations.*)
HandlesKept == SameReaders /\ SameWriters /\ UNCHANGED <<ofr, ofw, next>>

(* Steps that open and close nothing keep the tables in agreement.         *)
LEMMA TablesKept ==
    ASSUME TInv, Tables, HandlesKept
    PROVE  Tables'
<1>1. Registered' /\ Unused' /\ SameIno'
  BY DEF Tables, HandlesKept, SameReaders, SameWriters, Registered, Unused, SameIno
<1>2. OwnWriter'
  BY DEF Tables, HandlesKept, SameWriters, OwnWriter, TInv, TypeOK
<1> QED
  BY <1>1, <1>2 DEF Tables

(* Recreating or dropping a writer, or buffering a byte, keeps its inode.  *)
LEMMA WriterKept ==
    ASSUME TInv, NEW h \in Handles, wh[h] # NoCtx, NEW d \in WriteCtx, d.ino = wh[h].ino,
           wh' = [wh EXCEPT ![h] = d]
    PROVE  SameWriters
BY WriteCtxFields DEF SameWriters, TInv, TypeOK

(* No change of a writer changes the inode of its context.                 *)
LEMMA CtxIno ==
    ASSUME NEW c \in WriteCtx
    PROVE  /\ \A n : NewWriter(c, n).ino = c.ino
           /\ Taken(c).ino = c.ino
           /\ \A n, s, p : [c EXCEPT !.size = n, !.st = "dirty", !.data = s, !.pos = p].ino = c.ino
           /\ \A n, t : [NewWriter(c, n) EXCEPT !.st = t].ino = c.ino
           /\ \A n : [c EXCEPT !.size = n].ino = c.ino
           /\ \A s : [c EXCEPT !.data = s].ino = c.ino
BY DEF WriteCtx, NewWriter, Taken

(* read opens and closes nothing.                                          *)
LEMMA ReadKeepsHandles ==
    ASSUME TInv, NEW h \in Handles, NEW pastEnd \in BOOLEAN, Read(h, pastEnd)
    PROVE  HandlesKept
<1>1. PICK d \in ReadCtx : d.ino = rh[h].ino /\ rh' = [rh EXCEPT ![h] = d]
  BY ReadStep
<1>2. d # NoCtx /\ rh[h] # NoCtx
  BY ReadCtxFields DEF Read
<1>3. SameReaders
  BY <1>1, <1>2 DEF SameReaders, TInv, TypeOK
<1> QED
  BY <1>3 DEF Read, HandlesKept, SameWriters

(* write opens and closes nothing.                                         *)
LEMMA WriteKeepsHandles ==
    ASSUME TInv, NEW h \in Handles, NEW off \in 0..(BlockSize - 1), NEW b \in Bytes,
           Write(h, off, b)
    PROVE  HandlesKept
<1> DEFINE c == wh[h]
           m == WrittenSize(c, off)
           t == Put(IF c.st = "dirty" THEN c.data ELSE disk[c.ino], off, b)
           d == IF c.st = "detached" THEN [c EXCEPT !.size = m]
                ELSE [c EXCEPT !.size = m, !.st = "dirty", !.data = t, !.pos = off + 1]
<1>1. c \in WriteCtx /\ c.ino \in Inodes /\ c.size \in Sizes /\ c # NoCtx
  BY WriteHandleFacts DEF Write
<1>2. wh' = [wh EXCEPT ![h] = d]
  BY DEF Write
<1>3. d.ino = c.ino
  BY <1>1, CtxIno
<1>4. d \in WriteCtx
  <2>1. d \in WriteCtx \cup {NoCtx}
    BY <1>2, WriteType DEF TInv, TypeOK
  <2>2. inode[c.ino] # Gone /\ disk[c.ino] \in Contents /\ c.data \in Contents
    BY <1>1, WriteHandleFacts DEF Write, TInv, TypeOK
  <2>3. m \in Sizes /\ off + 1 \in Sizes
    BY <1>1, OpenFilesAssumption DEF WrittenSize, MaxOf, Sizes
  <2>4. t \in Contents
    BY <2>2, PutContents
  <2> HIDE DEF t, m, c
  <2> QED
    BY <1>1, <2>3, <2>4, CtxTypes
<1>5. SameWriters
  BY <1>1, <1>2, <1>3, <1>4, WriterKept
<1>6. MaxOf(CachedAttr(c.ino), WrittenSize(c, off)) \in Sizes
  BY <1>1, AttrTypes, OpenFilesAssumption DEF Write, TInv, WrittenSize, MaxOf, Sizes
<1>7. SameReaders
  BY <1>1, <1>6, ResetReadersType DEF Write, TInv, SameReaders
<1> QED
  BY <1>5, <1>7 DEF Write, HandlesKept

(* A store that fails leaves the context of its writer in place.           *)
LEMMA StoreFailsKeepsHandles ==
    ASSUME TInv, NEW h \in Handles, WriteFails(h) \/ StoreFails(h)
    PROVE  HandlesKept
<1> DEFINE c == wh[h]
<1>1. c \in WriteCtx /\ c.size \in Sizes /\ c # NoCtx
  BY WriteHandleFacts DEF WriteFails, StoreFails
<1>2. PICK d \in {[c EXCEPT !.data = Damaged], NewWriter(c, c.size)} : wh' = [wh EXCEPT ![h] = d]
  BY DEF WriteFails, StoreFails, SealFails
<1>3. d \in WriteCtx /\ d.ino = c.ino
  <2>1. NewWriter(c, c.size) \in WriteCtx /\ NewWriter(c, c.size).ino = c.ino
    BY <1>1, CtxTypes, CtxIno
  <2>2. [c EXCEPT !.data = Damaged] \in WriteCtx /\ [c EXCEPT !.data = Damaged].ino = c.ino
    BY <1>1, CtxTypes, CtxIno
  <2> QED
    BY <2>1, <2>2
<1> HIDE DEF c
<1>4. SameWriters
  BY <1>1, <1>2, <1>3, WriterKept DEF c
<1> QED
  BY <1>4 DEF WriteFails, StoreFails, HandlesKept, SameReaders

(* flush opens and closes nothing.                                         *)
LEMMA FlushKeepsHandles ==
    ASSUME TInv, NEW h \in Handles, NEW f, Flush(h, f)
    PROVE  HandlesKept
<1> DEFINE c == wh[h]
<1>1. c \in WriteCtx /\ c.ino \in Inodes /\ c.size \in Sizes /\ c # NoCtx
  BY WriteHandleFacts DEF Flush
<1>2. SameWriters
  <2>1. wh' = wh \/ wh' = [wh EXCEPT ![h] = NewWriter(c, c.size)]
    BY DEF Flush
  <2>2. NewWriter(c, c.size) \in WriteCtx /\ NewWriter(c, c.size).ino = c.ino
    BY <1>1, CtxTypes, CtxIno
  <2> QED
    BY <1>1, <2>1, <2>2, WriterKept DEF SameWriters
<1>3. SameReaders
  <2>1. CASE UNCHANGED rh
    BY <2>1 DEF SameReaders
  <2>2. CASE ~UNCHANGED rh
    <3>1. /\ CachedAttr(c.ino) # Gone
          /\ ResetReaders(c.ino, ofr[c.ino] \ {h}, MaxOf(CachedAttr(c.ino), c.size))
      BY <2>2 DEF Flush
    <3>2. MaxOf(CachedAttr(c.ino), c.size) \in Sizes
      BY <1>1, <3>1, AttrTypes, MaxSizes DEF TInv
    <3> QED
      BY <1>1, <3>1, <3>2, ResetReadersType DEF TInv, SameReaders
  <2> QED
    BY <2>1, <2>2
<1> QED
  BY <1>2, <1>3 DEF Flush, HandlesKept

(* set_len, however it ends, opens and closes nothing: a writer it loses   *)
(* keeps its context.                                                      *)
LEMMA SetLenKeepsHandles ==
    ASSUME TInv, NEW i \in Inodes, NEW n \in 0..BlockSize,
           \/ SetLenNoop(i, n)
           \/ SetLen(i, n)
           \/ \E f \in Steps : SetLenCopyFails(i, n, f) \/ SetLenLosesWriter(i, n, f)
           \/ \E f \in Steps : SetLenStops(i, n, f)
    PROVE  HandlesKept
<1>1. UNCHANGED <<ofr, ofw, next>>
  BY DEF SetLenNoop, SetLen, SetLenCopyFails, SetLenLosesWriter, SetLenStops, tables
<1>2. SameReaders
  <2>1. rh' = rh \/ (\E R : rh' = Reopened(R))
          \/ (CanCopy(i, n) /\ \E S : rh' = ReadersStopped(i, n, S))
    BY DEF SetLenNoop, SetLen, SetLenCopyFails, SetLenLosesWriter, SetLenStops, tables
  <2>2. CASE rh' = rh
    BY <2>2 DEF SameReaders
  <2>3. CASE \E R : rh' = Reopened(R)
    BY <2>3, ReopenedType DEF SameReaders, TInv
  <2>4. CASE CanCopy(i, n) /\ \E S : rh' = ReadersStopped(i, n, S)
    BY <2>4, StoppedType DEF SameReaders, TInv
  <2> QED
    BY <2>1, <2>2, <2>3, <2>4
<1>3. SameWriters
  <2> DEFINE c == wh[ofw[i]]
             t == IF n = 0 THEN "clean" ELSE "detached"
  <2>1. \/ wh' = wh
        \/ /\ HasWriter(i) /\ AttrSize(i) # Gone
           /\ \/ \E m \in {n, AttrSize(i), MaxOf(n, AttrSize(i))} :
                   wh' = [wh EXCEPT ![ofw[i]] = NewWriter(c, m)]
              \/ wh' = [wh EXCEPT ![ofw[i]] = Taken(c)]
              \/ wh' = [wh EXCEPT ![ofw[i]] = [NewWriter(c, AttrSize(i)) EXCEPT !.st = t]]
    BY DEF SetLenNoop, SetLen, SetLenCopyFails, SetLenLosesWriter, SetLenStops, SetLenAsked, tables
  <2>2. CASE wh' = wh
    BY <2>2 DEF SameWriters
  <2>3. CASE wh' # wh
    <3>1. HasWriter(i) /\ ofw[i] \in Handles /\ c \in WriteCtx /\ c # NoCtx
      BY <2>1, <2>3, AttrTypes DEF TInv, HasWriter
    <3>2. AttrSize(i) \in Sizes /\ n \in Sizes
      <4>1. AttrSize(i) # Gone /\ CachedAttr(i) # Gone
        BY <2>1, <2>3 DEF AttrSize
      <4> QED
        BY <4>1, AttrTypes DEF TInv, Sizes
    <3>3. MaxOf(n, AttrSize(i)) \in Sizes
      BY <3>2, MaxSizes
    <3>4. \E d \in WriteCtx : d.ino = c.ino /\ wh' = [wh EXCEPT ![ofw[i]] = d]
      <4>1. \A m \in Sizes : NewWriter(c, m) \in WriteCtx /\ NewWriter(c, m).ino = c.ino
        BY <3>1, CtxTypes, CtxIno
      <4>2. Taken(c) \in WriteCtx /\ Taken(c).ino = c.ino
        BY <3>1, CtxTypes, CtxIno
      <4>3. /\ [NewWriter(c, AttrSize(i)) EXCEPT !.st = t] \in WriteCtx
            /\ [NewWriter(c, AttrSize(i)) EXCEPT !.st = t].ino = c.ino
        <5>1. t \in {"clean", "detached"}
          OBVIOUS
        <5> HIDE DEF c, t
        <5>2. [NewWriter(c, AttrSize(i)) EXCEPT !.st = t] \in WriteCtx
          BY <3>1, <3>2, <5>1, CtxTypes
        <5>3. [NewWriter(c, AttrSize(i)) EXCEPT !.st = t].ino = c.ino
          BY <3>1, CtxIno
        <5> QED
          BY <5>2, <5>3
      <4>4. \E d \in WriteCtx : wh' = [wh EXCEPT ![ofw[i]] = d] /\ d \in
               {NewWriter(c, n), NewWriter(c, AttrSize(i)), NewWriter(c, MaxOf(n, AttrSize(i))),
                Taken(c), [NewWriter(c, AttrSize(i)) EXCEPT !.st = t]}
        BY <2>1, <2>3, <3>2, <3>3, <4>1, <4>2, <4>3
      <4> QED
        BY <3>2, <3>3, <4>1, <4>2, <4>3, <4>4
    <3> QED
      BY <3>1, <3>4, WriterKept
  <2> QED
    BY <2>2, <2>3
<1> QED
  BY <1>1, <1>2, <1>3 DEF HandlesKept

(* The attribute calls and remove_file do not touch the tables.            *)
LEMMA RestKeepsHandles ==
    ASSUME \/ \E i \in Inodes : GetAttr(i) \/ SetAttr(i) \/ Expire(i) \/ RemoveFile(i)
           \/ \E h \in Handles : WriterMissing(h)
           \/ UNCHANGED vars
    PROVE  HandlesKept
BY DEF GetAttr, SetAttr, Expire, RemoveFile, WriterMissing, vars, tables,
       HandlesKept, SameReaders, SameWriters

(* open inserts the new handle and registers it; a failed open leaves at   *)
(* most a registered reader (or a registration without a reader).          *)
LEMMA OpenKeepsTables ==
    ASSUME TInv, Tables, NEW i \in Inodes,
           \/ OpenRead(i)
           \/ \E rd \in BOOLEAN : OpenWrite(i, rd)
           \/ OpenAlreadyOpen(i)
           \/ OpenFails(i)
    PROVE  Tables'
<1>1. next \in Handles /\ next' = next + 1
  BY NextHandle DEF OpenRead, OpenWrite, OpenAlreadyOpen, OpenFails, TInv, TypeOK
<1>2. rh[next] = NoCtx /\ wh[next] = NoCtx
  BY <1>1 DEF Tables, Unused, Handles
<1>3. /\ rh' = rh \/ rh' = [rh EXCEPT ![next] = NewReader(i)]
      /\ ofr' = ofr \/ ofr' = [ofr EXCEPT ![i] = @ \cup {next}]
      /\ rh' # rh => ofr' = [ofr EXCEPT ![i] = @ \cup {next}]
  BY DEF OpenRead, OpenWrite, OpenAlreadyOpen, OpenFails
<1>4. \/ wh' = wh /\ ofw' = ofw
      \/ /\ ofw[i] = NoHandle
         /\ wh' = [wh EXCEPT ![next] = [ino |-> i, size |-> AttrSize(i), st |-> "clean",
                                        data |-> <<>>, pos |-> 0]]
         /\ ofw' = [ofw EXCEPT ![i] = next]
  BY DEF OpenRead, OpenWrite, OpenAlreadyOpen, OpenFails
<1>5. NewReader(i).ino = i /\ NewReader(i) # NoCtx
  BY CtxTypes, ReadCtxFields DEF NewReader
<1>6. \A h \in Handles : /\ h # next => rh'[h] = rh[h] /\ wh'[h] = wh[h]
                         /\ rh'[next] # NoCtx => rh'[next].ino = i /\ next \in ofr'[i]
                         /\ wh'[next] # NoCtx => wh'[next].ino = i /\ ofw'[i] = next
                         /\ wh'[next] # NoCtx => ofw[i] = NoHandle
  BY <1>1, <1>2, <1>3, <1>4, <1>5 DEF TInv, TypeOK
<1>7. \A j \in Inodes : /\ ofr[j] \subseteq ofr'[j]
                        /\ ofw[j] # NoHandle => ofw'[j] = ofw[j]
  BY <1>3, <1>4 DEF TInv, TypeOK
<1>8. Registered'
  <2> SUFFICES ASSUME NEW h \in Handles
               PROVE  /\ rh'[h] # NoCtx => h \in ofr'[rh'[h].ino]
                      /\ wh'[h] # NoCtx => ofw'[wh'[h].ino] = h
    BY DEF Registered
  <2>1. CASE h = next
    BY <1>6, <2>1
  <2>2. CASE h # next
    <3>1. rh'[h] = rh[h] /\ wh'[h] = wh[h]
      BY <1>6, <2>2
    <3>2. rh[h] # NoCtx => rh[h].ino \in Inodes /\ h \in ofr[rh[h].ino]
      BY ReadCtxFields DEF Tables, Registered, TInv, TypeOK
    <3>3. wh[h] # NoCtx => wh[h].ino \in Inodes /\ ofw[wh[h].ino] = h
      BY WriteCtxFields DEF Tables, Registered, TInv, TypeOK
    <3>4. h # NoHandle
      BY DEF Handles, NoHandle
    <3> QED
      BY <3>1, <3>2, <3>3, <3>4, <1>7
  <2> QED
    BY <2>1, <2>2
<1>9. Unused'
  BY <1>1, <1>6 DEF Tables, Unused, Handles, TInv, TypeOK
<1>10. SameIno'
  BY <1>6 DEF Tables, SameIno
<1>11. OwnWriter'
  <2> SUFFICES ASSUME NEW j \in Inodes, ofw'[j] # NoHandle
               PROVE  ofw'[j] < next' /\ (wh'[ofw'[j]] # NoCtx => wh'[ofw'[j]].ino = j)
    BY DEF OwnWriter
  <2>1. next \in Nat
    BY <1>1, OpenFilesAssumption DEF Handles
  <2>2. CASE ofw'[j] = ofw[j]
    <3>1. ofw[j] \in Handles /\ ofw[j] < next
      BY <2>2 DEF TInv, TypeOK, Tables, OwnWriter
    <3>2. ofw[j] # next /\ ofw[j] < next'
      <4>1. ofw[j] \in Nat
        BY <3>1, OpenFilesAssumption DEF Handles
      <4> QED
        BY <1>1, <2>1, <3>1, <4>1
    <3>3. wh'[ofw[j]] = wh[ofw[j]]
      BY <1>6, <3>1, <3>2
    <3>4. wh[ofw[j]] # NoCtx => wh[ofw[j]].ino = j
      BY <2>2 DEF Tables, OwnWriter
    <3> QED
      BY <2>2, <3>2, <3>3, <3>4
  <2>3. CASE ofw'[j] # ofw[j]
    <3>1. j = i /\ ofw'[j] = next
      BY <1>4, <2>3 DEF TInv, TypeOK
    <3> QED
      BY <1>1, <1>6, <2>1, <3>1
  <2> QED
    BY <2>2, <2>3
<1> QED
  BY <1>8, <1>9, <1>10, <1>11 DEF Tables

(* The read part of release unregisters the reader it removes.             *)
LEMMA WithoutReaderTables ==
    ASSUME TInv, NEW h \in Handles, rh[h] # NoCtx, WithoutReader(h)
    PROVE  /\ rh'[h] = NoCtx
           /\ \A k \in Handles \ {h} : rh'[k] = rh[k]
           /\ \A j \in Inodes : ofr[j] \ {h} \subseteq ofr'[j]
BY DEF WithoutReader, TInv, TypeOK

(* release removes the handle from the two handle tables, whatever it does *)
(* after that, and unregisters no other handle.                            *)
LEMMA ReleaseKeepsTables ==
    ASSUME TInv, Tables, NEW h \in Handles,
           \/ ReleaseWrite(h)
           \/ \E f \in Steps : \/ ReleaseRead(h, f)
                               \/ ReleaseStopsEarly(h, f)
                               \/ ReleaseFails(h, f)
    PROVE  Tables'
<1>1. next' = next
  BY DEF ReleaseWrite, ReleaseRead, ReleaseStopsEarly, ReleaseFails
<1>2. rh'[h] = NoCtx
  BY WithoutReaderTables, ReopenedType
     DEF ReleaseWrite, ReleaseRead, ReleaseStopsEarly, ReleaseFails, TInv, TypeOK
<1>3. \A k \in Handles \ {h} : /\ rh'[k] = NoCtx <=> rh[k] = NoCtx
                               /\ rh[k] # NoCtx => rh'[k].ino = rh[k].ino
  <2>1. CASE ReleaseWrite(h)
    <3>1. \E R : rh' = [rh EXCEPT ![h] = NoCtx] \/ rh' = [Reopened(R) EXCEPT ![h] = NoCtx]
      BY <2>1 DEF ReleaseWrite
    <3>2. \E R : \A k \in Handles \ {h} : rh'[k] = rh[k] \/ rh'[k] = Reopened(R)[k]
      BY <3>1, ReopenedType DEF TInv, TypeOK
    <3> QED
      BY <3>2, ReopenedType DEF TInv
  <2>2. CASE ~ReleaseWrite(h)
    BY <2>2, WithoutReaderTables DEF ReleaseRead, ReleaseStopsEarly, ReleaseFails
  <2> QED
    BY <2>1, <2>2
<1>4. \A k \in Handles \ {h} : wh'[k] = wh[k]
  BY DEF ReleaseWrite, ReleaseRead, ReleaseStopsEarly, ReleaseFails, TInv, TypeOK
<1>5. wh'[h] = NoCtx \/ (wh'[h] = wh[h] /\ ofw' = ofw)
  BY DEF ReleaseWrite, ReleaseRead, ReleaseStopsEarly, ReleaseFails, TInv, TypeOK
<1>6. \A j \in Inodes : ofr[j] \ {h} \subseteq ofr'[j]
  <2>1. CASE ReleaseWrite(h)
    BY <2>1 DEF ReleaseWrite, TInv, TypeOK
  <2>2. CASE ~ReleaseWrite(h)
    BY <2>2, WithoutReaderTables DEF ReleaseRead, ReleaseStopsEarly, ReleaseFails
  <2> QED
    BY <2>1, <2>2
<1>7. \A j \in Inodes : ofw[j] # h => ofw'[j] = ofw[j]
  <2>1. CASE ReleaseWrite(h)
    <3>1. ofw' = [ofw EXCEPT ![wh[h].ino] = NoHandle] /\ wh[h] # NoCtx
      BY <2>1 DEF ReleaseWrite
    <3>2. ofw[wh[h].ino] = h
      BY <3>1 DEF Tables, Registered
    <3> QED
      BY <3>1, <3>2 DEF TInv, TypeOK
  <2>2. CASE ~ReleaseWrite(h)
    BY <2>2 DEF ReleaseRead, ReleaseStopsEarly, ReleaseFails
  <2> QED
    BY <2>1, <2>2
<1>8. Registered'
  <2> SUFFICES ASSUME NEW k \in Handles
               PROVE  /\ rh'[k] # NoCtx => k \in ofr'[rh'[k].ino]
                      /\ wh'[k] # NoCtx => ofw'[wh'[k].ino] = k
    BY DEF Registered
  <2>1. rh[k] # NoCtx => rh[k].ino \in Inodes /\ k \in ofr[rh[k].ino]
    BY ReadCtxFields DEF Tables, Registered, TInv, TypeOK
  <2>2. wh[k] # NoCtx => wh[k].ino \in Inodes /\ ofw[wh[k].ino] = k
    BY WriteCtxFields DEF Tables, Registered, TInv, TypeOK
  <2>3. CASE k = h
    BY <1>2, <1>5, <2>2, <2>3
  <2>4. CASE k # h
    BY <1>3, <1>4, <1>6, <1>7, <2>1, <2>2, <2>4
  <2> QED
    BY <2>3, <2>4
<1>9. Unused'
  BY <1>1, <1>2, <1>3, <1>4, <1>5 DEF Tables, Unused
<1>10. SameIno'
  BY <1>2, <1>3, <1>4, <1>5 DEF Tables, SameIno
<1>11. OwnWriter'
  <2>1. \A j \in Inodes : ofw'[j] # NoHandle => ofw'[j] = ofw[j]
    BY DEF ReleaseWrite, ReleaseRead, ReleaseStopsEarly, ReleaseFails, TInv, TypeOK
  <2>2. \A k \in Handles : wh'[k] # NoCtx => wh'[k] = wh[k]
    BY <1>4, <1>5
  <2> QED
    BY <1>1, <2>1, <2>2 DEF Tables, OwnWriter, TInv, TypeOK
<1> QED
  BY <1>8, <1>9, <1>10, <1>11 DEF Tables

(* Nothing is open after mounting.                                         *)
LEMMA InitTables == Init => Tables
BY DEF Init, Tables, Registered, Unused, SameIno, OwnWriter

(* A restart empties the tables.                                           *)
LEMMA CrashTables == Crash => Tables'
BY DEF Crash, Tables, Registered, Unused, SameIno, OwnWriter

(* Every step keeps the tables in agreement.                               *)
LEMMA NextTables == TInv /\ Tables /\ [Next]_vars => Tables'
<1> SUFFICES ASSUME TInv, Tables, [Next]_vars PROVE Tables'
  OBVIOUS
<1>1. ASSUME NEW i \in Inodes, InodeStep(i) PROVE Tables'
  BY <1>1, RestKeepsHandles, SetLenKeepsHandles, OpenKeepsTables, TablesKept
     DEF InodeStep, Steps
<1>2. ASSUME NEW h \in Handles, HandleStep(h) PROVE Tables'
  BY <1>2, RestKeepsHandles, ReadKeepsHandles, WriteKeepsHandles, StoreFailsKeepsHandles,
     FlushKeepsHandles, ReleaseKeepsTables, TablesKept DEF HandleStep, Steps
<1>3. CASE Crash
  BY <1>3, CrashTables
<1>4. CASE UNCHANGED vars
  BY <1>4, RestKeepsHandles, TablesKept
<1> QED
  BY <1>1, <1>2, <1>3, <1>4 DEF Next

(* In every environment, with failing file operations, crashes and removal *)
(* of open files, no open handle is ever unreachable from its inode: the   *)
(* second writer of a file is refused and reset_handles reaches every      *)
(* reader.  Unused and SameIno make the invariant inductive: open must not *)
(* reuse a live handle number, and release looks up the write side of a    *)
(* handle under the inode of its read side.                                *)
THEOREM HandlesRegistered == Spec => []Registered
<1>1. Tables => Registered
  BY DEF Tables
<1> QED
  BY <1>1, InitTInv, NextTInv, InitTables, NextTables, PTL DEF Spec

-----------------------------------------------------------------------------
(* No failing unwrap.                                                      *)

(* set_len left no context without a writer.                               *)
NoTaken == \A h \in Handles : wh[h] # NoCtx => wh[h].st # "taken"

(* An open file has its contents file (and so its inode file).             *)
OpenExists == \A i \in Inodes : ofr[i] # {} \/ ofw[i] # NoHandle => disk[i] # Gone

SInv == NoStaleRegistration /\ NoPanic /\ NoTaken /\ OpenExists

(* reset_handles finds every reader that is registered.                    *)
LEMMA NotDangling ==
    ASSUME SInv, NEW i \in Inodes, NEW R, R \subseteq ofr[i]
    PROVE  ~Dangling(R)
BY DEF SInv, NoStaleRegistration, Dangling

(* A step that opens and closes nothing leaves the registrations valid.    *)
LEMMA StaleKept ==
    ASSUME TInv, SInv, HandlesKept
    PROVE  NoStaleRegistration'
BY DEF TInv, TypeOK, SInv, NoStaleRegistration, HandlesKept, SameReaders, SameWriters

(* A step that deletes no contents file keeps those of the open files.     *)
LEMMA ExistsKept ==
    ASSUME SInv, UNCHANGED <<ofr, ofw>>, \A j \in Inodes : disk[j] # Gone => disk'[j] # Gone
    PROVE  OpenExists'
BY DEF SInv, OpenExists

(* An open handle belongs to a file that exists.                           *)
LEMMA OpenFacts ==
    ASSUME "fault" \notin Env, TInv, Tables, SInv
    PROVE  /\ \A h \in Handles : rh[h] # NoCtx =>
                /\ rh[h].ino \in Inodes /\ disk[rh[h].ino] # Gone
                /\ CachedAttr(rh[h].ino) # Gone
           /\ \A h \in Handles : wh[h] # NoCtx =>
                /\ wh[h].ino \in Inodes /\ disk[wh[h].ino] # Gone
                /\ CachedAttr(wh[h].ino) # Gone /\ ofw[wh[h].ino] = h
           /\ \A i \in Inodes : HasWriter(i) => disk[i] # Gone
<1>1. \A i \in Inodes : disk[i] # Gone => CachedAttr(i) # Gone
  BY AttrTypes, OpenFilesAssumption DEF TInv, DiskHasInode, Sizes
<1>2. \A h \in Handles : rh[h] # NoCtx => rh[h].ino \in Inodes /\ h \in ofr[rh[h].ino]
  BY ReadCtxFields DEF Tables, Registered, TInv, TypeOK
<1>3. \A h \in Handles : wh[h] # NoCtx => wh[h].ino \in Inodes /\ ofw[wh[h].ino] = h
  BY WriteCtxFields DEF Tables, Registered, TInv, TypeOK
<1>4. \A h \in Handles : h # NoHandle
  BY DEF Handles, NoHandle
<1> QED
  BY <1>1, <1>2, <1>3, <1>4 DEF SInv, OpenExists, HasWriter

(* reset_handles goes through all readers unless the host fails.           *)
LEMMA ResetAll ==
    ASSUME "fault" \notin Env, NEW i, NEW R, NEW n, ResetReaders(i, R, n)
    PROVE  rh' = Reopened(R) /\ panicked' = Dangling(R)
BY DEF ResetReaders, Reached

(* No store fails unless the host does.                                    *)
LEMMA NoStoreFails ==
    ASSUME "fault" \notin Env
    PROVE  /\ \A h : ~WriteFails(h) /\ ~StoreFails(h)
           /\ \A i, n, f : ~SetLenStops(i, n, f)
           /\ \A f, step : ~FaultAt(f, step)
BY DEF WriteFails, StoreFails, SetLenStops, FaultAt

(* The attribute calls and read touch neither contents nor writers.        *)
LEMMA QuietSafe ==
    ASSUME TInv, SInv,
           \/ \E i \in Inodes : GetAttr(i) \/ SetAttr(i) \/ Expire(i)
           \/ \E h \in Handles, pastEnd \in BOOLEAN : Read(h, pastEnd)
           \/ UNCHANGED vars
    PROVE  SInv'
<1>1. HandlesKept
  BY RestKeepsHandles, ReadKeepsHandles
<1>2. UNCHANGED <<disk, wh, ofr, ofw, panicked>>
  BY DEF GetAttr, SetAttr, Expire, Read, store, tables, vars
<1>3. NoStaleRegistration'
  BY <1>1, StaleKept
<1> QED
  BY <1>2, <1>3, ExistsKept DEF SInv, NoPanic, NoTaken

(* write leaves a dirty writer and finds all other readers.                *)
LEMMA WriteSafe ==
    ASSUME "fault" \notin Env, TInv, SInv, NEW h \in Handles, NEW off \in 0..(BlockSize - 1), NEW b \in Bytes,
           Write(h, off, b)
    PROVE  SInv'
<1>1. wh[h] \in WriteCtx /\ wh[h].ino \in Inodes
  BY WriteHandleFacts DEF Write
<1>2. NoStaleRegistration'
  BY WriteKeepsHandles, StaleKept
<1>3. ~panicked'
  <2>1. ResetReaders(wh[h].ino, ofr[wh[h].ino] \ {h},
                     MaxOf(CachedAttr(wh[h].ino), WrittenSize(wh[h], off)))
    BY DEF Write
  <2>2. ~Dangling(ofr[wh[h].ino] \ {h})
    BY <1>1, NotDangling
  <2> QED
    BY <2>1, <2>2, ResetAll
<1>4. NoTaken'
  <2>1. PICK n, s, p : wh' = [wh EXCEPT ![h] =
                               IF wh[h].st = "detached" THEN [wh[h] EXCEPT !.size = n]
                               ELSE [wh[h] EXCEPT !.size = n, !.st = "dirty",
                                                  !.data = s, !.pos = p]]
    BY DEF Write
  <2>2. wh'[h].st # "taken"
    BY <1>1, <2>1 DEF TInv, TypeOK, WriteCtx
  <2>3. \A k \in Handles \ {h} : wh'[k] = wh[k]
    BY <2>1 DEF TInv, TypeOK
  <2> QED
    BY <2>2, <2>3 DEF SInv, NoTaken
<1>5. \A j \in Inodes : disk[j] # Gone => disk'[j] # Gone
  <2>1. disk[wh[h].ino] # Gone => Finished(wh[h].ino, wh[h]) # Gone
    BY <1>1, FinishedType, OpenFilesAssumption DEF TInv
  <2>2. disk' = disk \/ disk' = [disk EXCEPT ![wh[h].ino] = Finished(wh[h].ino, wh[h])]
    BY DEF Write
  <2> QED
    BY <1>1, <2>1, <2>2 DEF TInv, TypeOK
<1>6. UNCHANGED <<ofr, ofw>>
  BY DEF Write
<1> QED
  BY <1>2, <1>3, <1>4, <1>5, <1>6, ExistsKept DEF SInv, NoPanic

(* flush finds all other readers and keeps the writer it has.              *)
LEMMA FlushSafe ==
    ASSUME "fault" \notin Env, TInv, SInv, NEW h \in Handles, NEW f, Flush(h, f)
    PROVE  SInv'
<1>1. wh[h] \in WriteCtx /\ wh[h].ino \in Inodes
  BY WriteHandleFacts DEF Flush
<1>2. NoStaleRegistration'
  BY FlushKeepsHandles, StaleKept
<1>3. ~panicked'
  <2>1. \/ panicked' = panicked
        \/ ResetReaders(wh[h].ino, ofr[wh[h].ino] \ {h},
                        MaxOf(CachedAttr(wh[h].ino), wh[h].size))
    BY DEF Flush
  <2>2. ~Dangling(ofr[wh[h].ino] \ {h})
    BY <1>1, NotDangling
  <2> QED
    BY <2>1, <2>2, ResetAll DEF SInv, NoPanic
<1>4. NoTaken'
  <2>1. wh' = wh \/ wh' = [wh EXCEPT ![h] = NewWriter(wh[h], wh[h].size)]
    BY DEF Flush
  <2>2. NewWriter(wh[h], wh[h].size).st = "clean"
    BY <1>1 DEF NewWriter, WriteCtx
  <2> QED
    BY <2>1, <2>2 DEF SInv, NoTaken, TInv, TypeOK
<1>5. \A j \in Inodes : disk[j] # Gone => disk'[j] # Gone
  <2>1. disk[wh[h].ino] # Gone => Finished(wh[h].ino, wh[h]) # Gone
    BY <1>1, FinishedType, OpenFilesAssumption DEF TInv
  <2>2. disk' = disk \/ disk' = [disk EXCEPT ![wh[h].ino] = Finished(wh[h].ino, wh[h])]
    BY DEF Flush
  <2> QED
    BY <1>1, <2>1, <2>2 DEF TInv, TypeOK
<1>6. UNCHANGED <<ofr, ofw>>
  BY DEF Flush
<1> QED
  BY <1>2, <1>3, <1>4, <1>5, <1>6, ExistsKept DEF SInv, NoPanic

(* set_len cannot lose the writer as long as its file exists and the host  *)
(* does not fail, and it finds every reader that it resets.                *)
LEMMA SetLenSafe ==
    ASSUME "fault" \notin Env, TInv, Tables, SInv, NEW i \in Inodes, NEW n \in 0..BlockSize,
           \/ SetLenNoop(i, n)
           \/ SetLen(i, n)
           \/ \E f \in Steps : SetLenCopyFails(i, n, f) \/ SetLenLosesWriter(i, n, f)
    PROVE  SInv'
<1>1. \A f \in Steps : ~SetLenLosesWriter(i, n, f)
  BY OpenFacts, NoStoreFails DEF SetLenLosesWriter
<1>2. NoStaleRegistration' /\ UNCHANGED <<ofr, ofw>>
  BY SetLenKeepsHandles, StaleKept DEF HandlesKept
<1>3. ~panicked'
  <2>1. panicked' = panicked \/ \E R \in SUBSET ofr[i] : panicked' = Dangling(R)
    BY <1>1 DEF SetLenNoop, SetLen, SetLenCopyFails
  <2> QED
    BY <2>1, NotDangling DEF SInv, NoPanic
<1>4. NoTaken'
  <2>1. \/ wh' = wh
        \/ HasWriter(i) /\ \E m : wh' = [wh EXCEPT ![ofw[i]] = NewWriter(@, m)]
    BY <1>1 DEF SetLenNoop, SetLen, SetLenCopyFails, tables
  <2>2. HasWriter(i) => wh[ofw[i]] \in WriteCtx
    BY AttrTypes DEF TInv
  <2>3. \A c \in WriteCtx : \A m : NewWriter(c, m).st = "clean"
    BY DEF NewWriter, WriteCtx
  <2> QED
    BY <2>1, <2>2, <2>3 DEF SInv, NoTaken, TInv, TypeOK
<1>5. \A j \in Inodes : disk[j] # Gone => disk'[j] # Gone
  <2>1. CASE SetLenNoop(i, n)
    BY <2>1 DEF SetLenNoop, store
  <2>2. CASE SetLen(i, n)
    <3>1. disk' = [disk EXCEPT ![i] = Copied(FlushedDisk(i), Kept(i, n), n)]
      BY <2>2 DEF SetLen
    <3>2. Copied(FlushedDisk(i), Kept(i, n), n) # Gone
      BY <2>2, CopiedContents, OpenFilesAssumption DEF TInv, SetLen
    <3> QED
      BY <3>1, <3>2 DEF TInv, TypeOK
  <2>3. CASE \E f \in Steps : SetLenCopyFails(i, n, f)
    <3>1. disk' = [disk EXCEPT ![i] = FlushedDisk(i)]
      BY <2>3 DEF SetLenCopyFails
    <3>2. disk[i] # Gone => FlushedDisk(i) # Gone
      BY FlushedDiskType, OpenFilesAssumption DEF TInv
    <3> QED
      BY <3>1, <3>2 DEF TInv, TypeOK
  <2> QED
    BY <1>1, <2>1, <2>2, <2>3
<1> QED
  BY <1>2, <1>3, <1>4, <1>5, ExistsKept DEF SInv, NoPanic

(* open registers what it opens.                                           *)
LEMMA OpenSafe ==
    ASSUME "fault" \notin Env, TInv, Tables, SInv, NEW i \in Inodes,
           \/ OpenRead(i)
           \/ \E rd \in BOOLEAN : OpenWrite(i, rd)
           \/ OpenAlreadyOpen(i)
           \/ OpenFails(i)
    PROVE  SInv'
<1>1. ~OpenFails(i) /\ disk[i] # Gone /\ disk' = disk /\ panicked' = panicked
  BY DEF OpenRead, OpenWrite, OpenAlreadyOpen, OpenFails, store
<1>2. next \in Handles /\ rh[next] = NoCtx /\ wh[next] = NoCtx
  <2>1. next \in Handles
    BY NextHandle DEF OpenRead, OpenWrite, OpenAlreadyOpen, OpenFails, TInv, TypeOK
  <2> QED
    BY <2>1 DEF Tables, Unused, Handles
<1>3. \/ rh' = rh /\ ofr' = ofr
      \/ rh' = [rh EXCEPT ![next] = NewReader(i)] /\ ofr' = [ofr EXCEPT ![i] = @ \cup {next}]
  BY <1>1 DEF OpenRead, OpenWrite, OpenAlreadyOpen
<1>4. PICK n : \/ wh' = wh /\ ofw' = ofw
               \/ /\ ofw' = [ofw EXCEPT ![i] = next]
                  /\ wh' = [wh EXCEPT ![next] = [ino |-> i, size |-> n, st |-> "clean",
                                                 data |-> <<>>, pos |-> 0]]
                  /\ n \in Sizes
  <2>1. AttrSize(i) \in Sizes
    BY <1>1, AttrTypes, OpenFilesAssumption DEF TInv, DiskHasInode, Sizes
  <2> QED
    BY <1>1, <2>1 DEF OpenRead, OpenWrite, OpenAlreadyOpen
<1>5. NewReader(i).ino = i /\ NewReader(i) # NoCtx
  BY CtxTypes, ReadCtxFields DEF NewReader
<1> DEFINE w == [ino |-> i, size |-> n, st |-> "clean", data |-> <<>>, pos |-> 0]
<1>6. w.ino = i /\ w.st = "clean" /\ (n \in Sizes => w # NoCtx)
  BY CtxTypes, WriteCtxFields
<1> HIDE DEF w
<1>7. NoStaleRegistration'
  <2> SUFFICES ASSUME NEW j \in Inodes
               PROVE  /\ \A h \in ofr'[j] : rh'[h] # NoCtx /\ rh'[h].ino = j
                      /\ ofw'[j] # NoHandle => wh'[ofw'[j]] # NoCtx /\ wh'[ofw'[j]].ino = j
    BY DEF NoStaleRegistration
  <2>1. \A h \in ofr'[j] : rh'[h] # NoCtx /\ rh'[h].ino = j
    <3>1. \A h \in ofr[j] : h \in Handles /\ h # next /\ rh[h] # NoCtx /\ rh[h].ino = j
      BY <1>2 DEF SInv, NoStaleRegistration, TInv, TypeOK
    <3>2. \A h \in Handles \ {next} : rh'[h] = rh[h]
      BY <1>3 DEF TInv, TypeOK
    <3>3. \A h \in ofr'[j] : h \in ofr[j] \/ (h = next /\ j = i /\ rh'[next] = NewReader(i))
      BY <1>2, <1>3 DEF TInv, TypeOK
    <3> QED
      BY <1>5, <3>1, <3>2, <3>3
  <2>2. ofw'[j] # NoHandle => wh'[ofw'[j]] # NoCtx /\ wh'[ofw'[j]].ino = j
    BY <1>2, <1>4, <1>6 DEF SInv, NoStaleRegistration, TInv, TypeOK, w
  <2> QED
    BY <2>1, <2>2
<1>8. NoTaken'
  BY <1>2, <1>4, <1>6 DEF SInv, NoTaken, TInv, TypeOK, w
<1>9. OpenExists'
  BY <1>1, <1>3, <1>4 DEF SInv, OpenExists, TInv, TypeOK
<1> QED
  BY <1>1, <1>7, <1>8, <1>9 DEF SInv, NoPanic

(* release of a file that exists runs to its end and unregisters the       *)
(* handle from both sides.                                                 *)
LEMMA ReleaseSafe ==
    ASSUME "fault" \notin Env, TInv, Tables, SInv, NEW h \in Handles,
           \/ ReleaseWrite(h)
           \/ \E f \in Steps : \/ ReleaseRead(h, f)
                               \/ ReleaseStopsEarly(h, f)
                               \/ ReleaseFails(h, f)
    PROVE  SInv'
<1>1. \A f \in Steps : ~ReleaseStopsEarly(h, f) /\ ~ReleaseFails(h, f)
  BY OpenFacts, NoStoreFails DEF ReleaseStopsEarly, ReleaseFails
<1>2. ASSUME NEW f \in Steps, ReleaseRead(h, f) PROVE SInv'
  <2>1. /\ rh[h] # NoCtx /\ rh[h].ino \in Inodes
        /\ rh' = [rh EXCEPT ![h] = NoCtx]
        /\ ofr' = [ofr EXCEPT ![rh[h].ino] = @ \ {h}]
        /\ UNCHANGED <<disk, wh, ofw, panicked>>
    BY <1>2, OpenFacts DEF ReleaseRead, WithoutReader
  <2>2. \A j \in Inodes : ofr'[j] \subseteq ofr[j] \ {h}
    BY <2>1 DEF SInv, NoStaleRegistration, TInv, TypeOK
  <2>3. NoStaleRegistration'
    BY <2>1, <2>2 DEF SInv, NoStaleRegistration, TInv, TypeOK
  <2>4. OpenExists'
    BY <2>1, <2>2 DEF SInv, OpenExists
  <2> QED
    BY <2>1, <2>3, <2>4 DEF SInv, NoPanic, NoTaken
<1>3. CASE ReleaseWrite(h)
  <2> DEFINE i == wh[h].ino
             R == ofr[i] \ {h}
  <2>1. i \in Inodes /\ disk[i] # Gone /\ ofw[i] = h /\ wh[h] \in WriteCtx
    BY <1>3, OpenFacts, WriteHandleFacts DEF ReleaseWrite
  <2>2. /\ disk' = [disk EXCEPT ![i] = Finished(i, wh[h])]
        /\ wh' = [wh EXCEPT ![h] = NoCtx]
        /\ ofr' = [ofr EXCEPT ![i] = R]
        /\ ofw' = [ofw EXCEPT ![i] = NoHandle]
        /\ rh' = [Reopened(R) EXCEPT ![h] = NoCtx]
        /\ panicked' = Dangling(R)
    BY <1>3, <2>1 DEF ReleaseWrite, Reached
  <2>3. ~panicked'
    BY <2>1, <2>2, NotDangling
  <2>4. \A j \in Inodes : ofr'[j] \subseteq ofr[j] \ {h}
    <3>1. \A j \in Inodes : h \in ofr[j] => j = i
      BY <1>3 DEF ReleaseWrite, SInv, NoStaleRegistration, Tables, SameIno
    <3> QED
      BY <2>1, <2>2, <3>1 DEF TInv, TypeOK
  <2>5. \A k \in Handles \ {h} : /\ rh[k] # NoCtx => rh'[k] # NoCtx /\ rh'[k].ino = rh[k].ino
                                 /\ wh'[k] = wh[k]
    <3>1. \A k \in Handles \ {h} : rh'[k] = Reopened(R)[k]
      BY <2>2, ReopenedType DEF TInv
    <3> HIDE DEF R, i
    <3>2. \A k \in Handles \ {h} : wh'[k] = wh[k]
      BY <2>2 DEF TInv, TypeOK
    <3> QED
      BY <3>1, <3>2, ReopenedType DEF TInv
  <2>6. \A j \in Inodes : ofw'[j] # NoHandle => ofw'[j] = ofw[j] /\ ofw[j] \in Handles \ {h}
    <3>1. \A j \in Inodes : ofw[j] = h => j = i
      BY <2>1 DEF SInv, NoStaleRegistration, Handles, NoHandle
    <3> QED
      BY <2>1, <2>2, <3>1 DEF TInv, TypeOK
  <2>7. NoStaleRegistration'
    BY <2>4, <2>5, <2>6 DEF SInv, NoStaleRegistration, TInv, TypeOK
  <2>8. NoTaken'
    BY <2>2 DEF SInv, NoTaken, TInv, TypeOK
  <2>9. Finished(i, wh[h]) # Gone
    BY <2>1, FinishedType, OpenFilesAssumption DEF TInv
  <2>10. OpenExists'
    BY <2>1, <2>2, <2>4, <2>6, <2>9 DEF SInv, OpenExists, TInv, TypeOK
  <2> QED
    BY <2>3, <2>7, <2>8, <2>10 DEF SInv, NoPanic
<1> QED
  BY <1>1, <1>2, <1>3

(* Only files that nobody has open are removed.                            *)
LEMMA RemoveSafe ==
    ASSUME "unlink_open" \notin Env, TInv, SInv, NEW i \in Inodes, RemoveFile(i)
    PROVE  SInv'
<1>1. NoStaleRegistration'
  BY RestKeepsHandles, StaleKept
<1>2. OpenExists'
  BY DEF RemoveFile, SInv, OpenExists, TInv, TypeOK, tables
<1> QED
  BY <1>1, <1>2 DEF RemoveFile, SInv, NoPanic, NoTaken, tables

(* A restart leaves nothing open.                                          *)
LEMMA CrashSafe == Crash => SInv'
BY DEF Crash, SInv, NoStaleRegistration, NoPanic, NoTaken, OpenExists

(* A mounted file system starts with nothing open.                         *)
LEMMA InitSafe == Init => SInv
BY DEF Init, SInv, NoStaleRegistration, NoPanic, NoTaken, OpenExists

(* SInv is inductive relative to the type and table invariants.            *)
LEMMA NextSafe ==
    ASSUME "fault" \notin Env, "unlink_open" \notin Env
    PROVE  TInv /\ Tables /\ SInv /\ [Next]_vars => SInv'
<1> SUFFICES ASSUME TInv, Tables, SInv, [Next]_vars PROVE SInv'
  OBVIOUS
<1>1. ASSUME NEW i \in Inodes, InodeStep(i) PROVE SInv'
  BY <1>1, QuietSafe, OpenSafe, SetLenSafe, RemoveSafe, NoStoreFails DEF InodeStep, Steps
<1>2. ASSUME NEW h \in Handles, HandleStep(h) PROVE SInv'
  <2>1. ~WriterMissing(h)
    BY DEF WriterMissing, SInv, NoTaken
  <2> QED
    BY <1>2, <2>1, QuietSafe, WriteSafe, FlushSafe, ReleaseSafe, NoStoreFails
       DEF HandleStep, Steps
<1>3. CASE Crash
  BY <1>3, CrashSafe
<1>4. CASE UNCHANGED vars
  BY <1>4, QuietSafe
<1> QED
  BY <1>1, <1>2, <1>3, <1>4 DEF Next

(* As long as the host does not fail a file operation and no open file is  *)
(* removed, with any clients, any truncations and any restarts, none of    *)
(* the unwrap and expect calls of the open-file layer fails.  The argument *)
(* needs that no writer was lost (NoTaken) and that an open file still     *)
(* exists (OpenExists): with either gone, set_len and release stop halfway.*)
THEOREM NoFailingUnwrap ==
    ASSUME "fault" \notin Env, "unlink_open" \notin Env
    PROVE  Spec => []NoPanic
<1>1. SInv => NoPanic
  BY DEF SInv
<1>2. TInv /\ Tables /\ SInv /\ [Next]_vars => SInv'
  BY NextSafe
<1> QED
  BY <1>1, <1>2, InitTInv, NextTInv, InitTables, NextTables, InitSafe, PTL DEF Spec

(* In the same environments every registration names a handle that is open *)
(* on that inode, so that release makes room for the next writer and       *)
(* reset_handles finds every reader it looks up.                           *)
THEOREM RegistrationsLive ==
    ASSUME "fault" \notin Env, "unlink_open" \notin Env
    PROVE  Spec => []NoStaleRegistration
<1>1. SInv => NoStaleRegistration
  BY DEF SInv
<1>2. TInv /\ Tables /\ SInv /\ [Next]_vars => SInv'
  BY NextSafe
<1> QED
  BY <1>1, <1>2, InitTInv, NextTInv, InitTables, NextTables, InitSafe, PTL DEF Spec

-----------------------------------------------------------------------------
(* Stored files.                                                           *)

(* A file with a name has both its files, and attr_cache has nothing else  *)
(* than the inode file.                                                    *)
Stored(i) == inode[i] # Gone /\ disk[i] # Gone /\ cache[i] \in {NoAttr, inode[i]}

LInv == \A i \in Inodes : linked[i] => Stored(i)

(* What a step may do to the stored and the cached attributes. *)
AttrStep ==
    \/ UNCHANGED <<inode, cache>>
    \/ \E i \in Inodes, n \in Sizes : WriteInode(i, n)
    \/ UNCHANGED inode /\ \E i \in Inodes : cache' = FillCache(i)
    \/ UNCHANGED inode /\ \A i \in Inodes : cache'[i] \in {NoAttr, cache[i]}

DiskKept == \A i \in Inodes : disk[i] # Gone => disk'[i] # Gone

(* write_inode_to_storage writes both, reading fills the cache from the    *)
(* inode file.                                                             *)
LEMMA StoredKept ==
    ASSUME TInv, LInv, AttrStep, DiskKept, UNCHANGED linked
    PROVE  LInv'
<1> SUFFICES ASSUME NEW j \in Inodes, linked[j], Stored(j) PROVE Stored(j)'
  BY DEF LInv
<1>1. disk'[j] # Gone /\ inode[j] # Gone /\ cache[j] \in {NoAttr, inode[j]}
  BY DEF DiskKept, Stored
<1>2. ASSUME NEW i \in Inodes, NEW n \in Sizes, WriteInode(i, n)
      PROVE  inode'[j] # Gone /\ cache'[j] \in {NoAttr, inode'[j]}
  <2>1. n # Gone
    BY OpenFilesAssumption DEF Sizes
  <2> QED
    BY <1>1, <1>2, <2>1 DEF WriteInode, TInv, TypeOK
<1>3. ASSUME UNCHANGED inode, NEW i \in Inodes, cache' = FillCache(i)
      PROVE  inode'[j] # Gone /\ cache'[j] \in {NoAttr, inode'[j]}
  BY <1>1, <1>3 DEF FillCache, CachedAttr, TInv, TypeOK
<1>4. inode'[j] # Gone /\ cache'[j] \in {NoAttr, inode'[j]}
  BY <1>1, <1>2, <1>3 DEF AttrStep
<1> QED
  BY <1>1, <1>4 DEF Stored

-----------------------------------------------------------------------------
(* Every step but remove_file, in every environment.                       *)

LEMMA FinishKeepsDisk ==
    ASSUME TInv, NEW i \in Inodes, NEW c \in WriteCtx,
           disk' \in {disk, [disk EXCEPT ![i] = Torn(i)], [disk EXCEPT ![i] = Finished(i, c)]}
    PROVE  DiskKept
<1>1. disk[i] # Gone => Finished(i, c) # Gone /\ Torn(i) # Gone
  BY FinishedType, ContentsCases, OpenFilesAssumption DEF TInv, Torn
<1> QED
  BY <1>1 DEF DiskKept, TInv, TypeOK

LEMMA ResetAttr ==
    ASSUME NEW i \in Inodes, NEW R, NEW n \in Sizes, ResetReaders(i, R, n)
    PROVE  AttrStep
<1>1. UNCHANGED <<inode, cache>> \/ WriteInode(i, n)
  BY DEF ResetReaders
<1> QED
  BY <1>1 DEF AttrStep

LEMMA WriteEffect ==
    ASSUME TInv, NEW h \in Handles, NEW off \in 0..(BlockSize - 1), NEW b \in Bytes,
           Write(h, off, b)
    PROVE  AttrStep /\ DiskKept /\ UNCHANGED linked
<1> DEFINE c == wh[h]
           i == c.ino
           size == WrittenSize(c, off)
<1>1. c \in WriteCtx /\ i \in Inodes /\ c.size \in Sizes
  BY WriteHandleFacts DEF Write
<1>2. size \in Sizes
  BY <1>1, OpenFilesAssumption DEF WrittenSize, MaxOf, Sizes
<1>3. MaxOf(CachedAttr(i), size) \in Sizes
  BY <1>1, <1>2, AttrTypes, MaxSizes DEF Write, TInv
<1>4. ResetReaders(i, ofr[i] \ {h}, MaxOf(CachedAttr(i), size)) /\ UNCHANGED linked
      /\ (disk' = disk \/ disk' = [disk EXCEPT ![i] = Finished(i, c)])
  BY DEF Write
<1> QED
  BY <1>1, <1>3, <1>4, ResetAttr, FinishKeepsDisk

LEMMA StoreFailsEffect ==
    ASSUME TInv, NEW h \in Handles, WriteFails(h) \/ StoreFails(h)
    PROVE  AttrStep /\ DiskKept /\ UNCHANGED linked
<1>1. wh[h] \in WriteCtx /\ wh[h].ino \in Inodes
  BY WriteHandleFacts DEF WriteFails, StoreFails
<1>2. /\ disk' \in {disk, [disk EXCEPT ![wh[h].ino] = Torn(wh[h].ino)],
                   [disk EXCEPT ![wh[h].ino] = Finished(wh[h].ino, wh[h])]}
      /\ UNCHANGED <<inode, cache, linked>>
  BY DEF WriteFails, StoreFails, SealFails, MaybeTorn
<1> QED
  BY <1>1, <1>2, FinishKeepsDisk DEF AttrStep

LEMMA FlushEffect ==
    ASSUME TInv, NEW h \in Handles, NEW f, Flush(h, f)
    PROVE  AttrStep /\ DiskKept /\ UNCHANGED linked
<1> DEFINE c == wh[h]
           i == c.ino
<1>1. c \in WriteCtx /\ i \in Inodes /\ c.size \in Sizes
  BY WriteHandleFacts DEF Flush
<1>2. CachedAttr(i) # Gone => MaxOf(CachedAttr(i), c.size) \in Sizes
  BY <1>1, AttrTypes, MaxSizes DEF TInv
<1>3. /\ \/ UNCHANGED <<inode, cache>>
         \/ /\ CachedAttr(i) # Gone
            /\ ResetReaders(i, ofr[i] \ {h}, MaxOf(CachedAttr(i), c.size))
      /\ UNCHANGED linked
      /\ disk' = disk \/ disk' = [disk EXCEPT ![i] = Finished(i, c)]
  BY DEF Flush
<1>4. AttrStep
  BY <1>1, <1>2, <1>3, ResetAttr DEF AttrStep
<1> QED
  BY <1>1, <1>3, <1>4, FinishKeepsDisk

LEMMA SetLenEffect ==
    ASSUME TInv, NEW i \in Inodes, NEW n \in 0..BlockSize,
           \/ SetLenNoop(i, n)
           \/ SetLen(i, n)
           \/ \E f \in Steps : SetLenCopyFails(i, n, f) \/ SetLenLosesWriter(i, n, f)
           \/ \E f \in Steps : SetLenStops(i, n, f)
    PROVE  AttrStep /\ DiskKept /\ UNCHANGED linked
<1>1. n \in Sizes /\ n # Gone
  BY OpenFilesAssumption DEF Sizes
<1>2. AttrSize(i) \in Sizes
  <2>1. AttrSize(i) # Gone
    BY <1>1 DEF SetLenNoop, SetLen, SetLenCopyFails, SetLenLosesWriter, SetLenStops, SetLenAsked
  <2> QED
    BY <2>1, AttrTypes DEF AttrSize, TInv
<1>3. CASE SetLenNoop(i, n)
  BY <1>3 DEF SetLenNoop, AttrStep, DiskKept, store
<1>4. CASE SetLen(i, n)
  <2>1. \E m \in Sizes : WriteInode(i, m)
    BY <1>1, <1>2, <1>4, MaxSizes DEF SetLen
  <2>2. /\ disk' = [disk EXCEPT ![i] = Copied(FlushedDisk(i), Kept(i, n), n)]
        /\ UNCHANGED linked
    BY <1>4 DEF SetLen
  <2>3. Copied(FlushedDisk(i), Kept(i, n), n) # Gone
    BY <1>4, CopiedContents, OpenFilesAssumption DEF TInv, SetLen
  <2>4. DiskKept
    BY <2>2, <2>3 DEF DiskKept, TInv, TypeOK
  <2> QED
    BY <2>1, <2>2, <2>4 DEF AttrStep
<1>5. ASSUME NEW f \in Steps, SetLenCopyFails(i, n, f)
      PROVE  AttrStep /\ DiskKept /\ UNCHANGED linked
  <2>1. AttrStep
    BY <1>2, <1>5 DEF SetLenCopyFails, AttrStep
  <2>2. disk' = [disk EXCEPT ![i] = FlushedDisk(i)] /\ UNCHANGED linked
    BY <1>5 DEF SetLenCopyFails
  <2>3. disk[i] # Gone => FlushedDisk(i) # Gone
    BY FlushedDiskType, OpenFilesAssumption DEF TInv
  <2> QED
    BY <2>1, <2>2, <2>3 DEF DiskKept, TInv, TypeOK
<1>6. ASSUME NEW f \in Steps, SetLenLosesWriter(i, n, f)
      PROVE  AttrStep /\ DiskKept /\ UNCHANGED linked
  <2>1. /\ (UNCHANGED inode /\ cache' = FillCache(i)) \/ WriteInode(i, AttrSize(i))
        /\ disk' \in {disk, [disk EXCEPT ![i] = Torn(i)], [disk EXCEPT ![i] = FlushedDisk(i)]}
        /\ UNCHANGED linked
    BY <1>6 DEF SetLenLosesWriter, MaybeTorn
  <2>2. disk[i] # Gone => FlushedDisk(i) # Gone /\ Torn(i) # Gone
    BY FlushedDiskType, ContentsCases, OpenFilesAssumption DEF TInv, Torn
  <2>3. DiskKept
    BY <2>1, <2>2 DEF DiskKept, TInv, TypeOK
  <2> QED
    BY <1>2, <2>1, <2>3 DEF AttrStep
<1>7. ASSUME NEW f \in Steps, SetLenStops(i, n, f)
      PROVE  AttrStep /\ DiskKept /\ UNCHANGED linked
  <2>1. /\ \/ UNCHANGED inode /\ cache' = FillCache(i)
           \/ \E m \in {AttrSize(i), MaxOf(n, AttrSize(i)), n} : WriteInode(i, m)
        /\ disk' = [disk EXCEPT ![i] = Copied(FlushedDisk(i), Kept(i, n), n)]
        /\ UNCHANGED linked
    BY <1>7 DEF SetLenStops
  <2>2. Copied(FlushedDisk(i), Kept(i, n), n) # Gone
    BY <1>7, CopiedContents, OpenFilesAssumption DEF TInv, SetLenStops
  <2>3. DiskKept
    BY <2>1, <2>2 DEF DiskKept, TInv, TypeOK
  <2> QED
    BY <1>1, <1>2, <2>1, <2>3, MaxSizes DEF AttrStep
<1> QED
  BY <1>3, <1>4, <1>5, <1>6, <1>7

LEMMA ReleaseEffect ==
    ASSUME TInv, NEW h \in Handles,
           \/ ReleaseWrite(h)
           \/ \E f \in Steps : ReleaseRead(h, f) \/ ReleaseStopsEarly(h, f) \/ ReleaseFails(h, f)
    PROVE  AttrStep /\ DiskKept /\ UNCHANGED linked
<1>1. \A i \in Inodes : CachedAttr(i) # Gone => AttrSize(i) \in Sizes
  BY AttrTypes DEF TInv
<1>2. ASSUME NEW f \in Steps, ReleaseRead(h, f)
      PROVE  AttrStep /\ DiskKept /\ UNCHANGED linked
  <2>1. rh[h].ino \in Inodes
    BY <1>2, ReadCtxFields DEF ReleaseRead, TInv, TypeOK
  <2> QED
    BY <1>1, <1>2, <2>1 DEF ReleaseRead, AttrStep, DiskKept
<1>3. ASSUME NEW f \in Steps, ReleaseStopsEarly(h, f)
      PROVE  AttrStep /\ DiskKept /\ UNCHANGED linked
  BY <1>3 DEF ReleaseStopsEarly, AttrStep, DiskKept, store
<1>4. ASSUME NEW f \in Steps, ReleaseFails(h, f)
      PROVE  AttrStep /\ DiskKept /\ UNCHANGED linked
  <2>1. wh[h] \in WriteCtx /\ wh[h].ino \in Inodes
    BY <1>4, WriteHandleFacts DEF ReleaseFails
  <2>2. AttrStep
    BY <1>1, <1>4, <2>1 DEF ReleaseFails, AttrStep
  <2> QED
    BY <1>4, <2>1, <2>2, FinishKeepsDisk DEF ReleaseFails, MaybeTorn
<1>5. CASE ReleaseWrite(h)
  <2>1. wh[h] \in WriteCtx /\ wh[h].ino \in Inodes
    BY <1>5, WriteHandleFacts DEF ReleaseWrite
  <2>2. AttrStep
    BY <1>1, <1>5, <2>1 DEF ReleaseWrite, AttrStep
  <2> QED
    BY <1>5, <2>1, <2>2, FinishKeepsDisk DEF ReleaseWrite
<1> QED
  BY <1>2, <1>3, <1>4, <1>5

LEMMA OtherEffect ==
    ASSUME TInv,
           \/ \E i \in Inodes : \/ GetAttr(i) \/ SetAttr(i) \/ Expire(i) \/ OpenRead(i)
                                \/ \E rd \in BOOLEAN : OpenWrite(i, rd)
                                \/ OpenAlreadyOpen(i) \/ OpenFails(i)
           \/ \E h \in Handles : WriterMissing(h) \/ \E pastEnd \in BOOLEAN : Read(h, pastEnd)
           \/ Crash
           \/ UNCHANGED vars
    PROVE  AttrStep /\ DiskKept /\ UNCHANGED linked
<1> USE DEF store, DiskKept
<1>1. ASSUME NEW i \in Inodes, SetAttr(i) PROVE AttrStep /\ DiskKept /\ UNCHANGED linked
  <2>1. AttrSize(i) \in Sizes
    BY <1>1, AttrTypes DEF SetAttr, TInv
  <2> QED
    BY <1>1, <2>1 DEF SetAttr, AttrStep
<1>2. ASSUME NEW i \in Inodes, GetAttr(i) \/ Expire(i)
      PROVE  AttrStep /\ DiskKept /\ UNCHANGED linked
  BY <1>2 DEF GetAttr, Expire, AttrStep, TInv, TypeOK
<1>3. ASSUME NEW i \in Inodes, OpenRead(i) \/ (\E rd \in BOOLEAN : OpenWrite(i, rd))
                                \/ OpenAlreadyOpen(i) \/ OpenFails(i)
      PROVE  AttrStep /\ DiskKept /\ UNCHANGED linked
  BY <1>3 DEF OpenRead, OpenWrite, OpenAlreadyOpen, OpenFails, AttrStep
<1>4. ASSUME NEW h \in Handles, WriterMissing(h) \/ \E pastEnd \in BOOLEAN : Read(h, pastEnd)
      PROVE  AttrStep /\ DiskKept /\ UNCHANGED linked
  BY <1>4 DEF WriterMissing, Read, AttrStep
<1>5. CASE Crash
  BY <1>5 DEF Crash, AttrStep
<1>6. CASE UNCHANGED vars
  BY <1>6 DEF vars, AttrStep
<1> QED
  BY <1>1, <1>2, <1>3, <1>4, <1>5, <1>6

LEMMA InitLInv == Init => LInv
<1>1. Init => \A i \in Inodes : disk[i] # Gone /\ inode[i] # Gone
  <2> SUFFICES ASSUME Init, NEW i \in Inodes PROVE disk[i] # Gone /\ inode[i] # Gone
    OBVIOUS
  <2>1. disk[i] \in Plaintexts /\ inode[i] = Len(disk[i])
    BY DEF Init
  <2> QED
    BY <2>1, ContentsLen, ContentsCases, OpenFilesAssumption DEF Sizes
<1> QED
  BY <1>1 DEF Init, LInv, Stored

LEMMA NextLInv == TInv /\ LInv /\ [Next]_vars => LInv'
<1> SUFFICES ASSUME TInv, LInv, [Next]_vars PROVE LInv'
  OBVIOUS
<1>1. ASSUME NEW i \in Inodes, RemoveFile(i) PROVE LInv'
  <2>1. \A j \in Inodes \ {i} : /\ linked'[j] = linked[j] /\ inode'[j] = inode[j]
                                /\ disk'[j] = disk[j] /\ cache'[j] = cache[j]
    BY <1>1 DEF RemoveFile, FillCache, TInv, TypeOK
  <2>2. ~linked'[i]
    BY <1>1 DEF RemoveFile, TInv, TypeOK
  <2> QED
    BY <2>1, <2>2 DEF LInv, Stored
<1>2. ASSUME NEW i \in Inodes, InodeStep(i), ~RemoveFile(i) PROVE LInv'
  BY <1>2, OtherEffect, SetLenEffect, StoredKept DEF InodeStep, Steps
<1>3. ASSUME NEW h \in Handles, HandleStep(h) PROVE LInv'
  BY <1>3, OtherEffect, WriteEffect, StoreFailsEffect, FlushEffect, ReleaseEffect, StoredKept
     DEF HandleStep, Steps
<1>4. CASE Crash \/ UNCHANGED vars
  BY <1>4, OtherEffect, StoredKept
<1> QED
  BY <1>1, <1>2, <1>3, <1>4 DEF Next

-----------------------------------------------------------------------------
(* What was written, in every environment.                                 *)

(* As long as no store of it failed, a user sees the bytes that were given *)
(* to the file, and its writer has the file open that a user sees.         *)
Faithful(i) ==
    disk[i] # Gone /\ written[i] # Damaged =>
        View(i) = written[i] /\ (HasWriter(i) => wh[ofw[i]].st # "detached")

WInv == \A i \in Inodes : Faithful(i)

(* A step on i does not change what is seen of the other files.            *)
LEMMA OthersFaithful ==
    ASSUME TInv, Tables, WInv, NEW i \in Inodes, Faithful(i)',
           \A j \in Inodes \ {i} : /\ disk'[j] = disk[j] /\ written'[j] = written[j]
                                   /\ ofw'[j] = ofw[j],
           \A h \in Handles : \/ wh'[h] = wh[h]
                              \/ wh[h] # NoCtx /\ wh[h].ino = i
                              \/ h = next
    PROVE  WInv'
<1> SUFFICES ASSUME NEW j \in Inodes \ {i} PROVE Faithful(j)'
  BY DEF WInv
<1>1. disk'[j] = disk[j] /\ written'[j] = written[j] /\ ofw'[j] = ofw[j] /\ Faithful(j)
  BY DEF WInv
<1>2. ofw[j] # NoHandle => wh'[ofw[j]] = wh[ofw[j]]
  <2> SUFFICES ASSUME ofw[j] # NoHandle PROVE wh'[ofw[j]] = wh[ofw[j]]
    OBVIOUS
  <2>1. ofw[j] \in Handles /\ ofw[j] < next /\ (wh[ofw[j]] # NoCtx => wh[ofw[j]].ino = j)
    BY DEF TInv, TypeOK, Tables, OwnWriter
  <2>2. ofw[j] # next
    BY <2>1, OpenFilesAssumption DEF Handles, TInv, TypeOK
  <2> QED
    BY <2>1, <2>2
<1> QED
  BY <1>1, <1>2 DEF Faithful, View, HasWriter

(* A file whose writer has nothing buffered is seen as it is stored.       *)
LEMMA StoredFaithful ==
    ASSUME NEW i,
           \/ ofw'[i] = NoHandle
           \/ wh'[ofw'[i]] = NoCtx
           \/ wh'[ofw'[i]].st \in {"clean", "taken"},
           written'[i] # Damaged => disk'[i] = written'[i]
    PROVE  Faithful(i)'
BY DEF Faithful, View, HasWriter

(* What the writers of a file are flushed to is what a user saw.           *)
LEMMA FlushedFaithful ==
    ASSUME NEW i \in Inodes, Faithful(i), disk[i] # Gone, written[i] # Damaged
    PROVE  FlushedDisk(i) = written[i]
BY DEF Faithful, View, FlushedDisk, Finished

(* What set_len stores is what a client expects of it.                     *)
LEMMA CopyFaithful ==
    ASSUME TInv, NEW i \in Inodes, NEW n \in 0..BlockSize, Faithful(i),
           SetLenAsked(i, n), CanCopy(i, n)
    PROVE  LET goal == Resized(written[i], Kept(i, n), n)
           IN  goal # Damaged => Copied(FlushedDisk(i), Kept(i, n), n) = goal
<1> DEFINE k == Kept(i, n)
<1>1. /\ k \in Sizes /\ n \in Sizes /\ 0 \in Sizes /\ k \in Nat /\ n \in Nat
      /\ k <= n /\ written[i] \in Contents
      /\ FlushedDisk(i) \in Plaintexts => k <= Len(FlushedDisk(i)) \/ k = 0
  BY CopiedContents, OpenFilesAssumption DEF TInv, TypeOK, Sizes
<1> HIDE DEF k
<1>2. CASE k = 0
  <2>1. Resized(written[i], 0, n) = Copied(written[i], 0, n)
    BY <1>1, ResizedIsCopied
  <2>2. \A s : CopyPrefix(s, 0, n) = [j \in 1..n |-> 0]
    BY <1>1 DEF CopyPrefix
  <2>3. Copied(written[i], 0, n) = Copied(FlushedDisk(i), 0, n)
    BY <2>2 DEF Copied
  <2> QED
    BY <1>2, <2>1, <2>3 DEF k
<1>3. CASE k # 0 /\ written[i] = Damaged
  BY <1>3 DEF Resized, k
<1>4. CASE k # 0 /\ written[i] # Damaged
  <2>1. disk[i] # Gone
    BY <1>1, <1>4 DEF CanCopy, k
  <2>2. FlushedDisk(i) = written[i]
    BY <1>4, <2>1, FlushedFaithful
  <2>3. Resized(written[i], k, n) = Copied(written[i], k, n)
    BY <1>1, <2>2, ResizedIsCopied
  <2> QED
    BY <2>2, <2>3 DEF k
<1> QED
  BY <1>2, <1>3, <1>4

(* The calls that store and buffer nothing.                                *)
LEMMA QuietFaithful ==
    ASSUME TInv, Tables, WInv,
           \/ \E i \in Inodes : \/ GetAttr(i) \/ SetAttr(i) \/ Expire(i) \/ OpenRead(i)
                                \/ OpenAlreadyOpen(i) \/ OpenFails(i)
                                \/ \E n \in 0..BlockSize : SetLenNoop(i, n)
           \/ \E h \in Handles : \/ WriterMissing(h)
                                 \/ \E pastEnd \in BOOLEAN : Read(h, pastEnd)
                                 \/ \E f \in Steps : ReleaseRead(h, f) \/ ReleaseStopsEarly(h, f)
           \/ UNCHANGED vars
    PROVE  WInv'
<1>1. UNCHANGED <<disk, wh, ofw, written>>
  BY DEF GetAttr, SetAttr, Expire, OpenRead, OpenAlreadyOpen, OpenFails, SetLenNoop, WriterMissing,
         Read, ReleaseRead, ReleaseStopsEarly, vars, store, tables
<1> QED
  BY <1>1 DEF WInv, Faithful, View, HasWriter

(* open gives a new writer, remove_file and a restart drop what is seen.   *)
LEMMA OpenFaithful ==
    ASSUME TInv, Tables, WInv, NEW i \in Inodes,
           (\E rd \in BOOLEAN : OpenWrite(i, rd)) \/ RemoveFile(i)
    PROVE  WInv'
<1>1. CASE RemoveFile(i)
  <2>1. disk' = [disk EXCEPT ![i] = Gone] /\ UNCHANGED <<wh, ofw, written>>
    BY <1>1 DEF RemoveFile, tables
  <2> QED
    BY <2>1 DEF WInv, Faithful, View, HasWriter, TInv, TypeOK
<1>2. CASE \E rd \in BOOLEAN : OpenWrite(i, rd)
  <2>1. /\ ofw[i] = NoHandle /\ ofw' = [ofw EXCEPT ![i] = next]
        /\ wh' = [wh EXCEPT ![next] = [ino |-> i, size |-> AttrSize(i), st |-> "clean",
                                       data |-> <<>>, pos |-> 0]]
        /\ UNCHANGED <<disk, written>> /\ next <= MaxHandle /\ disk[i] # Gone
    BY <1>2 DEF OpenWrite, store
  <2>2. next \in Handles
    BY <2>1, NextHandle DEF TInv
  <2>3. ofw'[i] = next /\ wh'[next].st = "clean"
    BY <2>1, <2>2 DEF TInv, TypeOK
  <2>4. written[i] # Damaged => disk[i] = written[i]
    BY <2>1 DEF WInv, Faithful, View, HasWriter
  <2>5. Faithful(i)'
    BY <2>1, <2>3, <2>4, StoredFaithful
  <2> QED
    BY <2>1, <2>5, OthersFaithful DEF TInv, TypeOK
<1> QED
  BY <1>1, <1>2

(* A restart shows what is stored.                                         *)
LEMMA CrashFaithful ==
    ASSUME TInv, Crash
    PROVE  WInv'
BY DEF Crash, WInv, Faithful, View, HasWriter, TInv, TypeOK

(* write puts the byte into the buffer it is seen through.                 *)
LEMMA WriteFaithful ==
    ASSUME TInv, Tables, WInv, NEW h \in Handles, NEW off \in 0..(BlockSize - 1), NEW b \in Bytes,
           Write(h, off, b)
    PROVE  WInv'
<1>0. PICK i : i = wh[h].ino
  OBVIOUS
<1> DEFINE c == wh[h]
           m == WrittenSize(c, off)
           base == IF c.st = "dirty" THEN c.data ELSE disk[i]
           d == IF c.st = "detached" THEN [c EXCEPT !.size = m]
                ELSE [c EXCEPT !.size = m, !.st = "dirty", !.data = Put(base, off, b), !.pos = off + 1]
<1>1. c \in WriteCtx /\ i \in Inodes /\ c # NoCtx /\ ofw[i] = h /\ h # NoHandle /\ disk[i] # Gone
  BY <1>0, WriteHandleFacts DEF Write, Tables, Registered, Handles, NoHandle
<1>2. /\ disk' \in {disk, [disk EXCEPT ![i] = Finished(i, c)]}
      /\ wh' = [wh EXCEPT ![h] = d]
      /\ written' = [written EXCEPT ![i] = Put(@, off, b)]
      /\ UNCHANGED ofw
  BY <1>0 DEF Write
<1>3. wh'[h] = d /\ written'[i] = Put(written[i], off, b)
  BY <1>1, <1>2 DEF TInv, TypeOK
<1>4. Faithful(i)'
  <2>1. CASE written[i] = Damaged
    BY <1>3, <2>1 DEF Faithful, Put
  <2>2. CASE written[i] # Damaged
    <3>1. View(i) = written[i] /\ c.st # "detached"
      BY <1>1, <2>2 DEF WInv, Faithful, HasWriter
    <3>2. base = written[i]
      BY <1>1, <3>1 DEF View, HasWriter
    <3>3. d = [c EXCEPT !.size = m, !.st = "dirty", !.data = Put(base, off, b), !.pos = off + 1]
      BY <3>1
    <3>4. d.st = "dirty" /\ d.data = Put(base, off, b)
      BY <1>1, <3>3 DEF WriteCtx
    <3>5. d # NoCtx
      <4>1. wh'[h] \in WriteCtx \cup {NoCtx} /\ SameWriters
        BY WriteType, WriteKeepsHandles DEF TInv, TypeOK, HandlesKept
      <4> QED
        BY <1>1, <1>3, <4>1 DEF SameWriters
    <3> HIDE DEF d, base, c
    <3>6. HasWriter(i)' /\ View(i)' = d.data
      BY <1>1, <1>2, <1>3, <3>4, <3>5 DEF HasWriter, View
    <3> QED
      BY <1>1, <1>2, <1>3, <3>2, <3>4, <3>6 DEF Faithful
  <2> QED
    BY <2>1, <2>2
<1>5. \A j \in Inodes \ {i} : /\ disk'[j] = disk[j] /\ written'[j] = written[j]
                              /\ ofw'[j] = ofw[j]
  BY <1>1, <1>2 DEF TInv, TypeOK
<1>6. \A k \in Handles : wh'[k] = wh[k] \/ (wh[k] # NoCtx /\ wh[k].ino = i)
  BY <1>0, <1>1, <1>2 DEF TInv, TypeOK
<1> QED
  BY <1>1, <1>4, <1>5, <1>6, OthersFaithful

(* A block that a handle stores, or fails to store.                        *)
LEMMA BlockFaithful ==
    ASSUME TInv, Tables, WInv, NEW h \in Handles, wh[h] # NoCtx, NEW i, i = wh[h].ino,
           \A j \in Inodes \ {i} : /\ disk'[j] = disk[j] /\ written'[j] = written[j]
                                   /\ ofw'[j] = ofw[j],
           \A k \in Handles \ {h} : wh'[k] = wh[k],
           \/ written'[i] = Damaged
           \/ /\ disk'[i] = Finished(i, wh[h]) /\ written'[i] = written[i]
              /\ ofw'[i] \in {h, NoHandle}
              /\ ofw'[i] = h /\ wh'[h] # NoCtx => wh'[h].st = "clean"
    PROVE  WInv'
<1>1. i \in Inodes /\ ofw[i] = h /\ h # NoHandle
  BY WriteHandleFacts DEF Tables, Registered, Handles, NoHandle
<1>2. CASE written'[i] = Damaged
  <2>1. Faithful(i)'
    BY <1>2 DEF Faithful
  <2> QED
    BY <1>1, <2>1, OthersFaithful
<1>3. CASE written'[i] # Damaged
  <2>1. disk[i] # Gone => disk'[i] = written'[i]
    BY <1>1, <1>3 DEF WInv, Faithful, View, HasWriter, Finished
  <2>2. disk[i] = Gone => disk'[i] = Gone
    BY <1>3 DEF Finished
  <2>3. ofw'[i] = NoHandle \/ wh'[ofw'[i]] = NoCtx \/ wh'[ofw'[i]].st \in {"clean", "taken"}
    BY <1>3
  <2>4. Faithful(i)'
    BY <2>1, <2>2, <2>3, StoredFaithful DEF Faithful
  <2> QED
    BY <1>1, <2>4, OthersFaithful
<1> QED
  BY <1>2, <1>3

(* write, flush and release when they store a block.                       *)
LEMMA StoreFaithful ==
    ASSUME TInv, Tables, WInv, NEW h \in Handles,
           \/ WriteFails(h) \/ StoreFails(h) \/ ReleaseWrite(h)
           \/ \E f \in Steps : Flush(h, f) \/ ReleaseFails(h, f)
    PROVE  WInv'
<1> DEFINE c == wh[h]
           i == c.ino
<1>1. c \in WriteCtx /\ i \in Inodes /\ c # NoCtx /\ ofw[i] = h /\ h # NoHandle
  BY WriteHandleFacts
     DEF WriteFails, StoreFails, ReleaseWrite, Flush, ReleaseFails, Tables, Registered, Handles, NoHandle
<1>2. NewWriter(c, c.size).st = "clean"
  BY <1>1 DEF NewWriter, WriteCtx
<1>3. CASE WriteFails(h)
  <2>1. /\ disk' = [disk EXCEPT ![i] = Finished(i, c)] /\ UNCHANGED <<written, ofw>>
        /\ wh' = [wh EXCEPT ![h] = NewWriter(c, c.size)]
    BY <1>3 DEF WriteFails
  <2> QED
    BY <1>1, <1>2, <2>1, BlockFaithful DEF TInv, TypeOK
<1>4. CASE StoreFails(h)
  <2>1. /\ disk' \in {disk, [disk EXCEPT ![i] = Torn(i)]} /\ UNCHANGED ofw
        /\ \E d : wh' = [wh EXCEPT ![h] = d]
        /\ written' = [written EXCEPT ![i] = Damaged]
    BY <1>4 DEF StoreFails, SealFails, MaybeTorn
  <2> QED
    BY <1>1, <2>1, BlockFaithful DEF TInv, TypeOK
<1>5. CASE ReleaseWrite(h)
  <2>1. /\ disk' = [disk EXCEPT ![i] = Finished(i, c)] /\ UNCHANGED written
        /\ wh' = [wh EXCEPT ![h] = NoCtx] /\ ofw' = [ofw EXCEPT ![i] = NoHandle]
    BY <1>5 DEF ReleaseWrite
  <2> QED
    BY <1>1, <2>1, BlockFaithful DEF TInv, TypeOK
<1>6. ASSUME NEW f \in Steps, ReleaseFails(h, f) PROVE WInv'
  <2>1. /\ \/ /\ disk' \in {disk, [disk EXCEPT ![i] = Torn(i)]}
              /\ written' = [written EXCEPT ![i] = Damaged]
           \/ disk' = [disk EXCEPT ![i] = Finished(i, c)] /\ UNCHANGED written
        /\ wh' = [wh EXCEPT ![h] = NoCtx] /\ UNCHANGED ofw
    BY <1>6 DEF ReleaseFails, MaybeTorn
  <2> QED
    BY <1>1, <2>1, BlockFaithful DEF TInv, TypeOK
<1>7. ASSUME NEW f \in Steps, Flush(h, f) PROVE WInv'
  <2>1. UNCHANGED <<written, ofw>>
    BY <1>7 DEF Flush
  <2>2. \/ UNCHANGED <<disk, wh>>
        \/ /\ disk' = [disk EXCEPT ![i] = Finished(i, c)]
           /\ wh' = [wh EXCEPT ![h] = NewWriter(c, c.size)]
    BY <1>7 DEF Flush
  <2>3. CASE UNCHANGED <<disk, wh>>
    BY <2>1, <2>3 DEF WInv, Faithful, View, HasWriter
  <2>4. CASE /\ disk' = [disk EXCEPT ![i] = Finished(i, c)]
             /\ wh' = [wh EXCEPT ![h] = NewWriter(c, c.size)]
    BY <1>1, <1>2, <2>1, <2>4, BlockFaithful DEF TInv, TypeOK
  <2> QED
    BY <2>2, <2>3, <2>4
<1> QED
  BY <1>3, <1>4, <1>5, <1>6, <1>7

(* set_len, however it ends.                                               *)
LEMMA SetLenFaithful ==
    ASSUME TInv, Tables, WInv, NEW i \in Inodes, NEW n \in 0..BlockSize,
           \/ SetLen(i, n)
           \/ \E f \in Steps : \/ SetLenCopyFails(i, n, f)
                               \/ SetLenLosesWriter(i, n, f)
                               \/ SetLenStops(i, n, f)
    PROVE  WInv'
<1> DEFINE new == Copied(FlushedDisk(i), Kept(i, n), n)
           goal == Resized(written[i], Kept(i, n), n)
<1>1. Faithful(i)
  BY DEF WInv
<1>2. UNCHANGED ofw
  BY DEF SetLen, SetLenCopyFails, SetLenLosesWriter, SetLenStops
<1>3. /\ HasWriter(i) => /\ ofw[i] \in Handles /\ wh[ofw[i]] \in WriteCtx /\ wh[ofw[i]].ino = i
                         /\ wh[ofw[i]] # NoCtx
                         /\ \A m : NewWriter(wh[ofw[i]], m).st = "clean"
                         /\ Taken(wh[ofw[i]]).st = "taken"
                         /\ \A m, t : [NewWriter(wh[ofw[i]], m) EXCEPT !.st = t].st = t
  <2> SUFFICES ASSUME HasWriter(i)
               PROVE  /\ ofw[i] \in Handles /\ wh[ofw[i]] \in WriteCtx /\ wh[ofw[i]].ino = i
                      /\ wh[ofw[i]] # NoCtx
                      /\ \A m : NewWriter(wh[ofw[i]], m).st = "clean"
                      /\ Taken(wh[ofw[i]]).st = "taken"
                      /\ \A m, t : [NewWriter(wh[ofw[i]], m) EXCEPT !.st = t].st = t
    OBVIOUS
  <2>1. ofw[i] \in Handles /\ wh[ofw[i]] \in WriteCtx
    BY AttrTypes DEF TInv
  <2>2. wh[ofw[i]].ino = i /\ wh[ofw[i]] # NoCtx
    BY DEF HasWriter, Tables, OwnWriter
  <2> QED
    BY <2>1, <2>2 DEF NewWriter, Taken, WriteCtx
<1>4. \/ wh' = wh
      \/ HasWriter(i) /\ \E d : wh' = [wh EXCEPT ![ofw[i]] = d]
  BY DEF SetLen, SetLenCopyFails, SetLenLosesWriter, SetLenStops
<1>5. \A h \in Handles : wh'[h] = wh[h] \/ (wh[h] # NoCtx /\ wh[h].ino = i)
  BY <1>3, <1>4 DEF TInv, TypeOK
<1>6. /\ \E s : disk' = [disk EXCEPT ![i] = s]
      /\ \E s : written' = [written EXCEPT ![i] = s]
  <2>1. disk = [disk EXCEPT ![i] = disk[i]] /\ written = [written EXCEPT ![i] = written[i]]
    BY DEF TInv, TypeOK
  <2> QED
    BY <2>1 DEF SetLen, SetLenCopyFails, SetLenLosesWriter, SetLenStops, MaybeTorn
<1>7. \A j \in Inodes \ {i} : disk'[j] = disk[j] /\ written'[j] = written[j] /\ ofw'[j] = ofw[j]
  BY <1>2, <1>6 DEF TInv, TypeOK
<1>8. ~HasWriter(i) => ofw[i] = NoHandle \/ wh'[ofw[i]] = NoCtx
  BY <1>4 DEF HasWriter
<1>9. Faithful(i)'
  <2>1. CASE written'[i] = Damaged
    BY <2>1 DEF Faithful
  <2>2. CASE SetLen(i, n)
    <3>1. goal # Damaged => new = goal
      BY <1>1, <2>2, CopyFaithful DEF SetLen
    <3>2. disk'[i] = new /\ written'[i] = goal
      BY <2>2 DEF SetLen, TInv, TypeOK
    <3>3. HasWriter(i) => wh'[ofw[i]].st = "clean"
      BY <1>3, <2>2 DEF SetLen, TInv, TypeOK
    <3> QED
      BY <1>2, <1>8, <3>1, <3>2, <3>3, StoredFaithful
  <2>3. ASSUME NEW f \in Steps, SetLenStops(i, n, f), written'[i] # Damaged PROVE Faithful(i)'
    <3>1. goal # Damaged => new = goal
      BY <1>1, <2>3, CopyFaithful DEF SetLenStops
    <3>2. disk'[i] = new /\ written'[i] = goal /\ (HasWriter(i) => n = 0)
      BY <2>3 DEF SetLenStops, TInv, TypeOK
    <3>3. HasWriter(i) => wh'[ofw[i]].st = "clean"
      BY <1>3, <2>3, <3>2 DEF SetLenStops, TInv, TypeOK
    <3> QED
      BY <1>2, <1>8, <3>1, <3>2, <3>3, StoredFaithful
  <2>4. ASSUME NEW f \in Steps, SetLenCopyFails(i, n, f) \/ SetLenLosesWriter(i, n, f),
               written'[i] # Damaged
        PROVE  Faithful(i)'
    <3>1. disk'[i] = FlushedDisk(i) /\ written'[i] = written[i]
      BY <2>4 DEF SetLenCopyFails, SetLenLosesWriter, TInv, TypeOK
    <3>2. HasWriter(i) => wh'[ofw[i]].st \in {"clean", "taken"}
      BY <1>3, <2>4 DEF SetLenCopyFails, SetLenLosesWriter, TInv, TypeOK
    <3>3. disk[i] = Gone => disk'[i] = Gone
      BY <3>1, FlushedDiskType DEF TInv
    <3>4. disk[i] # Gone => disk'[i] = written'[i]
      BY <1>1, <2>4, <3>1, FlushedFaithful
    <3> QED
      BY <1>2, <1>8, <3>2, <3>3, <3>4, StoredFaithful DEF Faithful
  <2> QED
    BY <2>1, <2>2, <2>3, <2>4
<1> QED
  BY <1>5, <1>7, <1>9, OthersFaithful

(* A file is mounted with what is stored in it.                            *)
LEMMA InitWInv == Init => WInv
BY DEF Init, WInv, Faithful, View, HasWriter

(* Every step shows what was written, in every environment.                *)
LEMMA NextWInv == TInv /\ Tables /\ WInv /\ [Next]_vars => WInv'
<1> SUFFICES ASSUME TInv, Tables, WInv, [Next]_vars PROVE WInv'
  OBVIOUS
<1>1. ASSUME NEW i \in Inodes, InodeStep(i) PROVE WInv'
  BY <1>1, QuietFaithful, OpenFaithful, SetLenFaithful DEF InodeStep, Steps
<1>2. ASSUME NEW h \in Handles, HandleStep(h) PROVE WInv'
  BY <1>2, QuietFaithful, WriteFaithful, StoreFaithful DEF HandleStep, Steps
<1>3. CASE Crash
  BY <1>3, CrashFaithful
<1>4. CASE UNCHANGED vars
  BY <1>4, QuietFaithful
<1> QED
  BY <1>1, <1>2, <1>3, <1>4 DEF Next

LEMMA StoreInvariant == Spec => [](TInv /\ Tables /\ LInv /\ WInv)
BY InitTInv, NextTInv, InitTables, NextTables, InitLInv, NextLInv, InitWInv, NextWInv, PTL DEF Spec

-----------------------------------------------------------------------------
(* Durability, in every environment.                                       *)

(* What the writer of i has in its buffer is what finish stores. *)
LEMMA FinishedView ==
    ASSUME TInv, Tables, NEW h \in Handles, wh[h] # NoCtx, disk[wh[h].ino] # Gone
    PROVE  /\ HasWriter(wh[h].ino) /\ ofw[wh[h].ino] = h
           /\ Finished(wh[h].ino, wh[h]) = View(wh[h].ino)
<1>1. ofw[wh[h].ino] = h /\ h # NoHandle
  BY DEF Tables, Registered, Handles, NoHandle
<1> QED
  BY <1>1 DEF HasWriter, View, Finished

(* After a release that succeeds the contents file has every byte that was *)
(* written to the file by calls which succeeded and the inode file a size  *)
(* that covers them, whatever failed, was truncated or was removed before, *)
(* unless a store of the file has failed since it was last read from disk: *)
(* such a store may leave ciphertext in the buffer, which the release then *)
(* stores.                                                                 *)
THEOREM ReleaseDurableTheorem == Spec => ReleaseDurable
<1>1. ASSUME TInv, Tables, LInv, WInv, NEW h \in Handles, ReleaseWrite(h), linked[wh[h].ino],
             written[wh[h].ino] # Damaged
      PROVE  LET i == wh[h].ino IN disk'[i] = written[i] /\ inode'[i] >= wh[h].size
  <2> DEFINE c == wh[h]
             i == c.ino
  <2>1. c \in WriteCtx /\ i \in Inodes /\ c.size \in Sizes /\ c # NoCtx
    BY <1>1, WriteHandleFacts DEF ReleaseWrite
  <2>2. disk[i] # Gone /\ inode[i] # Gone
    BY <1>1, <2>1 DEF LInv, Stored
  <2>3. HasWriter(i) /\ ofw[i] = h /\ Finished(i, c) = View(i)
    BY <1>1, <2>1, <2>2, FinishedView
  <2>4. disk'[i] = Finished(i, c) /\ inode'[i] = AttrSize(i)
    BY <1>1, <2>1 DEF ReleaseWrite, WriteInode, TInv, TypeOK
  <2>5. CachedAttr(i) \in Sizes /\ CachedAttr(i) # Gone
    BY <1>1, <2>1, <2>2, AttrTypes, OpenFilesAssumption DEF TInv, Sizes
  <2>6. AttrSize(i) = MaxOf(CachedAttr(i), c.size)
    BY <2>3, <2>5 DEF AttrSize, MergeWriter
  <2>7. AttrSize(i) >= c.size
    BY <2>1, <2>5, <2>6 DEF MaxOf, Sizes
  <2>8. View(i) = written[i]
    BY <1>1, <2>1, <2>2 DEF WInv, Faithful
  <2> QED
    BY <2>3, <2>4, <2>7, <2>8
<1>2. TInv /\ Tables /\ LInv /\ WInv /\ [Next]_vars =>
        [\A h \in Handles :
           ReleaseWrite(h) /\ linked[wh[h].ino] /\ written[wh[h].ino] # Damaged =>
             LET i == wh[h].ino IN disk'[i] = written[i] /\ inode'[i] >= wh[h].size]_vars
  BY <1>1
<1> QED
  BY <1>2, StoreInvariant, PTL DEF Spec, ReleaseDurable

(* A restart at any point leaves size and bytes of every file that nobody  *)
(* has open for write as they were: for such a file the caches hold        *)
(* nothing that the inode file and the contents file do not.               *)
THEOREM CrashSafeTheorem == Spec => CrashSafeWhenClosed
<1>1. ASSUME TInv, LInv, Crash, NEW i \in Inodes, linked[i], ~HasWriter(i)
      PROVE  AttrSize(i)' = AttrSize(i) /\ View(i)' = View(i)
  <2>1. ~HasWriter(i)' /\ UNCHANGED <<inode, disk>> /\ cache'[i] = NoAttr
    BY <1>1 DEF Crash, HasWriter, store
  <2>2. CachedAttr(i) = inode[i] /\ CachedAttr(i)' = inode[i]
    BY <1>1, <2>1 DEF LInv, Stored, CachedAttr
  <2>3. AttrSize(i) = inode[i] /\ AttrSize(i)' = inode[i]
    BY <1>1, <2>1, <2>2 DEF AttrSize, MergeWriter
  <2>4. View(i) = disk[i] /\ View(i)' = disk[i]
    BY <1>1, <2>1 DEF View
  <2> QED
    BY <2>3, <2>4
<1>2. TInv /\ Tables /\ LInv /\ [Next]_vars =>
        [Crash => \A i \in Inodes :
           linked[i] /\ ~HasWriter(i) => AttrSize(i)' = AttrSize(i) /\ View(i)' = View(i)]_vars
  BY <1>1
<1> QED
  BY <1>2, StoreInvariant, PTL DEF Spec, CrashSafeWhenClosed

-----------------------------------------------------------------------------
(* Readers serve the block that is stored, as long as the host does not    *)
(* fail and no open file is removed.                                       *)

(* A reset reader has no block. *)
LEMMA ReopenedSnap ==
    ASSUME TInv, NEW R, NEW r \in Handles, rh[r] # NoCtx
    PROVE  (Reopened(R)[r] = rh[r] /\ r \notin R) \/ Reopened(R)[r].snap = <<>>
<1>1. rh[r] \in ReadCtx
  BY DEF TInv, TypeOK
<1> QED
  BY <1>1 DEF Reopened, ReadCtx

(* A step may store another block of i if it resets all the readers of i,  *)
(* save the reading side of the handle that writes.                        *)
LEMMA ResetFresh ==
    ASSUME TInv, Tables, ReadersFresh, NEW i \in Inodes, NEW R,
           \A r \in Handles : rh'[r] \in {Reopened(R)[r], NoCtx},
           \A r \in Handles : rh[r] # NoCtx /\ rh[r].ino = i /\ disk'[i] # disk[i] =>
                               r \in R \/ wh'[r] # NoCtx \/ rh'[r] = NoCtx,
           \A r \in Handles : wh'[r] = NoCtx => wh[r] = NoCtx \/ rh'[r] = NoCtx,
           \A j \in Inodes \ {i} : disk'[j] = disk[j]
    PROVE  ReadersFresh'
<1> SUFFICES ASSUME NEW r \in Handles, rh'[r] # NoCtx, rh'[r].snap # <<>>, wh'[r] = NoCtx
             PROVE  rh'[r].snap = disk'[rh'[r].ino]
  BY DEF ReadersFresh
<1>1. rh'[r] = Reopened(R)[r] /\ wh[r] = NoCtx
  OBVIOUS
<1>2. rh[r] # NoCtx
  BY <1>1, ReopenedType DEF TInv
<1>3. rh'[r] = rh[r] /\ r \notin R
  BY <1>1, <1>2, ReopenedSnap
<1>4. rh[r].snap = disk[rh[r].ino] /\ rh[r].ino \in Inodes
  BY <1>1, <1>2, <1>3, ReadCtxFields DEF ReadersFresh, TInv, TypeOK
<1> QED
  BY <1>2, <1>3, <1>4

LEMMA WriteFresh ==
    ASSUME "fault" \notin Env, TInv, Tables, SInv, ReadersFresh, NEW h \in Handles,
           (\E f \in Steps : Flush(h, f)) \/ \E off \in 0..(BlockSize - 1), b \in Bytes : Write(h, off, b)
    PROVE  ReadersFresh'
<1> DEFINE i == wh[h].ino
           R == ofr[i] \ {h}
<1>1. wh[h] # NoCtx /\ i \in Inodes /\ disk[i] # Gone /\ CachedAttr(i) # Gone
  BY OpenFacts DEF Flush, Write
<1>2. SameWriters
  BY WriteKeepsHandles, FlushKeepsHandles DEF HandlesKept
<1>3. /\ \E n : ResetReaders(i, R, n)
      /\ \E x : disk' = disk \/ disk' = [disk EXCEPT ![i] = x]
  BY <1>1, NoStoreFails DEF Flush, Write
<1> HIDE DEF i, R
<1>5. rh' = Reopened(R)
  BY <1>3, ResetAll
<1>6. \A r \in Handles : rh[r] # NoCtx /\ rh[r].ino = i => r \in R \/ wh'[r] # NoCtx
  BY <1>1, <1>2 DEF Tables, Registered, SameWriters, R, i
<1>7. \A j \in Inodes \ {i} : disk'[j] = disk[j]
  BY <1>3 DEF TInv, TypeOK
<1>8. \A r \in Handles : wh'[r] = NoCtx => wh[r] = NoCtx
  BY <1>2 DEF SameWriters
<1>9. i \in Inodes
  BY <1>1
<1> QED
  BY <1>5, <1>6, <1>7, <1>8, <1>9, ResetFresh

LEMMA SetLenFresh ==
    ASSUME "fault" \notin Env, TInv, Tables, SInv, ReadersFresh,
           NEW i \in Inodes, NEW n \in 0..BlockSize,
           \/ SetLenNoop(i, n)
           \/ SetLen(i, n)
           \/ \E f \in Steps : SetLenCopyFails(i, n, f) \/ SetLenLosesWriter(i, n, f)
    PROVE  ReadersFresh'
<1>1. \A f \in Steps : ~SetLenLosesWriter(i, n, f)
  BY OpenFacts, NoStoreFails DEF SetLenLosesWriter
<1>2. \A r \in Handles : wh'[r] = NoCtx <=> wh[r] = NoCtx
  BY SetLenKeepsHandles DEF HandlesKept, SameWriters
<1>3. CASE SetLenNoop(i, n)
  BY <1>3 DEF SetLenNoop, ReadersFresh, store, tables
<1>4. CASE SetLen(i, n)
  <2>1. rh' = Reopened(ofr[i]) /\ \E x : disk' = [disk EXCEPT ![i] = x]
    BY <1>4 DEF SetLen
  <2>2. \A r \in Handles : rh[r] # NoCtx /\ rh[r].ino = i => r \in ofr[i]
    BY DEF Tables, Registered
  <2>3. \A j \in Inodes \ {i} : disk'[j] = disk[j]
    BY <2>1 DEF TInv, TypeOK
  <2> QED
    BY <1>2, <2>1, <2>2, <2>3, ResetFresh
<1>5. ASSUME NEW f \in Steps, SetLenCopyFails(i, n, f) PROVE ReadersFresh'
  <2> DEFINE R == IF HasWriter(i) THEN ofr[i] \ {ofw[i]} ELSE {}
  <2>1. rh' = Reopened(R) /\ disk' = [disk EXCEPT ![i] = FlushedDisk(i)]
    BY <1>5 DEF SetLenCopyFails
  <2>2. ~HasWriter(i) => disk'[i] = disk[i]
    BY <2>1 DEF FlushedDisk, TInv, TypeOK
  <2>3. \A r \in Handles : rh[r] # NoCtx /\ rh[r].ino = i /\ disk'[i] # disk[i] =>
                            r \in R \/ wh'[r] # NoCtx
    BY <1>2, <2>2, AttrTypes DEF Tables, Registered, HasWriter
  <2>4. \A j \in Inodes \ {i} : disk'[j] = disk[j]
    BY <2>1 DEF TInv, TypeOK
  <2> HIDE DEF R
  <2> QED
    BY <1>2, <2>1, <2>3, <2>4, ResetFresh
<1> QED
  BY <1>1, <1>3, <1>4, <1>5

LEMMA ReleaseFresh ==
    ASSUME "fault" \notin Env, TInv, Tables, SInv, ReadersFresh, NEW h \in Handles,
           \/ ReleaseWrite(h)
           \/ \E f \in Steps : ReleaseRead(h, f) \/ ReleaseStopsEarly(h, f) \/ ReleaseFails(h, f)
    PROVE  ReadersFresh'
<1>1. \A f \in Steps : ~ReleaseStopsEarly(h, f) /\ ~ReleaseFails(h, f)
  BY OpenFacts, NoStoreFails DEF ReleaseStopsEarly, ReleaseFails
<1>2. ASSUME NEW f \in Steps, ReleaseRead(h, f) PROVE ReadersFresh'
  BY <1>2 DEF ReleaseRead, WithoutReader, ReadersFresh, TInv, TypeOK
<1>3. CASE ReleaseWrite(h)
  <2> DEFINE i == wh[h].ino
             R == ofr[i] \ {h}
  <2>1. i \in Inodes /\ disk[i] # Gone
    BY <1>3, OpenFacts DEF ReleaseWrite
  <2>2. /\ rh' = [Reopened(R) EXCEPT ![h] = NoCtx]
        /\ wh' = [wh EXCEPT ![h] = NoCtx]
        /\ disk' = [disk EXCEPT ![i] = Finished(i, wh[h])]
    BY <1>3, <2>1 DEF ReleaseWrite, Reached
  <2>3. rh'[h] = NoCtx /\ \A r \in Handles : rh'[r] \in {Reopened(R)[r], NoCtx}
    BY <2>2, ReopenedType DEF TInv
  <2>4. \A r \in Handles : rh[r] # NoCtx /\ rh[r].ino = i => r \in R \/ rh'[r] = NoCtx
    BY <2>3 DEF Tables, Registered
  <2>5. \A r \in Handles : wh'[r] = NoCtx => wh[r] = NoCtx \/ rh'[r] = NoCtx
    BY <2>2, <2>3 DEF TInv, TypeOK
  <2>6. \A j \in Inodes \ {i} : disk'[j] = disk[j]
    BY <2>2 DEF TInv, TypeOK
  <2> HIDE DEF i, R
  <2> QED
    BY <2>1, <2>3, <2>4, <2>5, <2>6, ResetFresh
<1> QED
  BY <1>1, <1>2, <1>3

LEMMA OpenFresh ==
    ASSUME TInv, Tables, ReadersFresh, NEW i \in Inodes,
           \/ OpenRead(i)
           \/ \E rd \in BOOLEAN : OpenWrite(i, rd)
           \/ OpenAlreadyOpen(i)
           \/ OpenFails(i)
    PROVE  ReadersFresh'
<1>1. next \in Handles /\ rh[next] = NoCtx /\ wh[next] = NoCtx
  <2>1. next \in Handles
    BY NextHandle DEF OpenRead, OpenWrite, OpenAlreadyOpen, OpenFails, TInv, TypeOK
  <2> QED
    BY <2>1 DEF Tables, Unused, Handles
<1>2. /\ rh' = rh \/ rh' = [rh EXCEPT ![next] = NewReader(i)]
      /\ \E c : wh' = wh \/ wh' = [wh EXCEPT ![next] = c]
      /\ disk' = disk
  BY DEF OpenRead, OpenWrite, OpenAlreadyOpen, OpenFails, store
<1>3. NewReader(i).snap = <<>>
  BY DEF NewReader
<1> QED
  BY <1>1, <1>2, <1>3 DEF ReadersFresh, TInv, TypeOK

LEMMA ReadFresh ==
    ASSUME TInv, ReadersFresh, NEW h \in Handles, NEW pastEnd \in BOOLEAN, Read(h, pastEnd)
    PROVE  ReadersFresh'
<1> DEFINE c == rh[h]
           d == AfterRead(c, disk[c.ino], pastEnd)
<1>1. c \in ReadCtx /\ c # NoCtx
  BY DEF Read, TInv, TypeOK
<1>2. rh'[h] = d /\ (\A r \in Handles \ {h} : rh'[r] = rh[r]) /\ UNCHANGED <<disk, wh>>
  BY DEF Read, TInv, TypeOK, store
<1>3. d.ino = c.ino /\ (d.snap \in {<<>>, c.snap, disk[c.ino]})
  BY <1>1 DEF AfterRead, ReadCtx
<1> HIDE DEF d
<1> QED
  BY <1>1, <1>2, <1>3 DEF ReadersFresh

LEMMA NextFresh ==
    ASSUME "fault" \notin Env, "unlink_open" \notin Env
    PROVE  TInv /\ Tables /\ SInv /\ ReadersFresh /\ [Next]_vars => ReadersFresh'
<1> SUFFICES ASSUME TInv, Tables, SInv, ReadersFresh, [Next]_vars PROVE ReadersFresh'
  OBVIOUS
<1>1. ASSUME NEW i \in Inodes, InodeStep(i) PROVE ReadersFresh'
  <2>1. CASE GetAttr(i) \/ SetAttr(i) \/ Expire(i)
    BY <2>1 DEF GetAttr, SetAttr, Expire, ReadersFresh, store, tables
  <2>2. CASE RemoveFile(i)
    <3>1. \A r \in Handles : rh[r] # NoCtx => rh[r].ino # i
      BY <2>2 DEF RemoveFile, Tables, Registered
    <3> QED
      BY <2>2, <3>1 DEF RemoveFile, ReadersFresh, tables, TInv, TypeOK
  <2> QED
    BY <1>1, <2>1, <2>2, OpenFresh, SetLenFresh, NoStoreFails DEF InodeStep, Steps
<1>2. ASSUME NEW h \in Handles, HandleStep(h) PROVE ReadersFresh'
  <2>1. ~WriterMissing(h)
    BY DEF WriterMissing, SInv, NoTaken
  <2> QED
    BY <1>2, <2>1, ReadFresh, WriteFresh, ReleaseFresh, NoStoreFails DEF HandleStep, Steps
<1>3. CASE Crash
  BY <1>3 DEF Crash, ReadersFresh
<1>4. CASE UNCHANGED vars
  BY <1>4 DEF vars, ReadersFresh
<1> QED
  BY <1>1, <1>2, <1>3, <1>4 DEF Next

(* No reader serves a block that another handle, a truncation or a release *)
(* has replaced: every call that stores a block resets all the registered  *)
(* readers of the file, and the tables show that these are all there are.  *)
THEOREM ReadersFreshTheorem ==
    ASSUME "fault" \notin Env, "unlink_open" \notin Env
    PROVE  Spec => []ReadersFresh
<1>1. Init => ReadersFresh
  BY DEF Init, ReadersFresh
<1>2. TInv /\ Tables /\ SInv /\ [Next]_vars => SInv'
  BY NextSafe
<1>3. TInv /\ Tables /\ SInv /\ ReadersFresh /\ [Next]_vars => ReadersFresh'
  BY NextFresh
<1> QED
  BY <1>1, <1>2, <1>3, InitTInv, NextTInv, InitTables, NextTables, InitSafe, PTL DEF Spec

-----------------------------------------------------------------------------
(* The files behave as plain files, when the host does not fail, nothing   *)
(* crashes and open files are neither removed nor, with a reader and a     *)
(* writer open, cut short.                                                 *)

(* The size of the writer's context, which get_attr merges, is that of the *)
(* bytes a user sees; the inode file is never ahead of it, and right as    *)
(* soon as there is no writer.                                             *)
SizeOK(i) ==
    IF HasWriter(i) THEN wh[ofw[i]].size = Len(View(i)) /\ inode[i] <= wh[ofw[i]].size
    ELSE inode[i] = Len(disk[i])

SizeInv == \A i \in Inodes : linked[i] => SizeOK(i)

(* Unless the host fails, nothing is damaged and no writer is left behind  *)
(* on a replaced file.                                                     *)
Clean ==
    /\ \A i \in Inodes : disk[i] # Damaged
    /\ \A h \in Handles : wh[h] # NoCtx => wh[h].st # "detached" /\ wh[h].data # Damaged

PInv == TInv /\ Tables /\ SInv /\ LInv /\ SizeInv /\ Clean

(* What a clean writer stores is not damaged.                              *)
LEMMA CleanStored ==
    ASSUME TInv, Clean
    PROVE  /\ \A h \in Handles, i \in Inodes : wh[h] # NoCtx => Finished(i, wh[h]) # Damaged
           /\ \A i \in Inodes : FlushedDisk(i) # Damaged
           /\ \A c \in WriteCtx : \A n :
                /\ NewWriter(c, n).st = "clean" /\ Taken(c).st = "taken"
                /\ NewWriter(c, n).data = <<>> /\ Taken(c).data = <<>>
           /\ <<>> # Damaged
<1>1. \A h \in Handles, i \in Inodes : wh[h] # NoCtx => Finished(i, wh[h]) # Damaged
  BY DEF Clean, Finished
<1>2. \A i \in Inodes : FlushedDisk(i) # Damaged
  BY <1>1, AttrTypes DEF FlushedDisk, Clean, HasWriter, TInv
<1>3. \A c \in WriteCtx : \A n :
        /\ NewWriter(c, n).st = "clean" /\ Taken(c).st = "taken"
        /\ NewWriter(c, n).data = <<>> /\ Taken(c).data = <<>>
  BY DEF NewWriter, Taken, WriteCtx
<1>4. <<>> # Damaged
  BY EmptyContents, ContentsCases
<1> QED
  BY <1>1, <1>2, <1>3, <1>4

(* A step that stores undamaged bytes and changes one writer keeps it so.  *)
LEMMA CleanKept ==
    ASSUME TInv, Clean, NEW i \in Inodes, NEW s, s # Damaged,
           disk' = disk \/ disk' = [disk EXCEPT ![i] = s],
           NEW h \in Handles, NEW d,
           d = NoCtx \/ (d.st # "detached" /\ d.data # Damaged),
           wh' = wh \/ wh' = [wh EXCEPT ![h] = d]
    PROVE  Clean'
<1>1. \A j \in Inodes : disk'[j] # Damaged
  BY DEF Clean, TInv, TypeOK
<1>2. \A k \in Handles : wh'[k] = wh[k] \/ wh'[k] = d
  BY DEF TInv, TypeOK
<1> QED
  BY <1>1, <1>2 DEF Clean

LEMMA InodeClean ==
    ASSUME "fault" \notin Env, TInv, Clean, NEW i \in Inodes, InodeStep(i)
    PROVE  Clean'
<1>1. ASSUME UNCHANGED <<disk, wh>> PROVE Clean'
  BY <1>1 DEF Clean
<1>2. CASE \/ GetAttr(i) \/ SetAttr(i) \/ Expire(i) \/ OpenRead(i) \/ OpenAlreadyOpen(i)
           \/ OpenFails(i) \/ \E n \in 0..BlockSize : SetLenNoop(i, n)
  <2>1. UNCHANGED <<disk, wh>>
    BY <1>2 DEF GetAttr, SetAttr, Expire, OpenRead, OpenAlreadyOpen, OpenFails, SetLenNoop,
                store, tables
  <2> QED
    BY <1>1, <2>1
<1>3. ASSUME NEW rd \in BOOLEAN, OpenWrite(i, rd) PROVE Clean'
  <2> DEFINE w == [ino |-> i, size |-> AttrSize(i), st |-> "clean", data |-> <<>>, pos |-> 0]
  <2>1. wh' = [wh EXCEPT ![next] = w] /\ disk' = disk /\ next <= MaxHandle
    BY <1>3 DEF OpenWrite, store
  <2>2. next \in Handles /\ w.st # "detached" /\ w.data = <<>>
    BY <2>1, NextHandle DEF TInv
  <2> HIDE DEF w
  <2> QED
    BY <2>1, <2>2, CleanKept, CleanStored
<1>4. CASE RemoveFile(i)
  <2>1. disk' = [disk EXCEPT ![i] = Gone] /\ wh' = wh
    BY <1>4 DEF RemoveFile, tables
  <2> QED
    BY <2>1, ContentsCases DEF Clean, TInv, TypeOK
<1>5. ASSUME NEW n \in 0..BlockSize,
             SetLen(i, n) \/ \E f \in Steps : SetLenCopyFails(i, n, f) \/ SetLenLosesWriter(i, n, f)
      PROVE  Clean'
  <2>1. \E s : disk' = [disk EXCEPT ![i] = s] /\ s # Damaged
    <3>1. CASE SetLen(i, n)
      <4>1. /\ disk' = [disk EXCEPT ![i] = Copied(FlushedDisk(i), Kept(i, n), n)]
            /\ SetLenAsked(i, n) /\ CanCopy(i, n)
        BY <3>1 DEF SetLen
      <4>2. Copied(FlushedDisk(i), Kept(i, n), n) # Damaged
        <5>1. Copied(FlushedDisk(i), Kept(i, n), n) = CopyPrefix(FlushedDisk(i), Kept(i, n), n)
          BY CleanStored DEF Copied
        <5>2. /\ Kept(i, n) \in Nat /\ n \in Sizes
              /\ FlushedDisk(i) \in Plaintexts => Kept(i, n) <= Len(FlushedDisk(i)) \/ Kept(i, n) = 0
              /\ n = 0 => Kept(i, n) = 0
          BY <4>1, CopiedContents, OpenFilesAssumption DEF TInv, Sizes
        <5>3. CASE Kept(i, n) = 0
          BY <5>1, <5>2, <5>3, CopyNothing, ContentsCases
        <5>4. CASE Kept(i, n) # 0
          <6>1. FlushedDisk(i) \in Plaintexts
            BY <4>1, <5>2, <5>4, FlushedDiskType, CleanStored, ContentsCases DEF CanCopy, TInv
          <6> QED
            BY <5>1, <5>2, <5>4, <6>1, CopyPrefixContents, ContentsCases
        <5> QED
          BY <5>3, <5>4
      <4> QED
        BY <4>1, <4>2
    <3>2. CASE \E f \in Steps : SetLenCopyFails(i, n, f) \/ SetLenLosesWriter(i, n, f)
      <4>1. disk' = [disk EXCEPT ![i] = FlushedDisk(i)]
        BY <3>2, NoStoreFails DEF SetLenCopyFails, SetLenLosesWriter
      <4> QED
        BY <4>1, CleanStored
    <3> QED
      BY <1>5, <3>1, <3>2
  <2>2. \/ wh' = wh
        \/ /\ HasWriter(i)
           /\ \E d : /\ wh' = [wh EXCEPT ![ofw[i]] = d]
                     /\ (\E m : d = NewWriter(wh[ofw[i]], m)) \/ d = Taken(wh[ofw[i]])
    BY <1>5 DEF SetLen, SetLenCopyFails, SetLenLosesWriter
  <2>3. CASE wh' = wh
    BY <2>1, <2>3 DEF Clean, TInv, TypeOK
  <2>4. CASE wh' # wh
    <3>1. ofw[i] \in Handles /\ wh[ofw[i]] \in WriteCtx
      BY <2>2, <2>4, AttrTypes DEF TInv
    <3>2. PICK d : /\ wh' = [wh EXCEPT ![ofw[i]] = d]
                   /\ (\E m : d = NewWriter(wh[ofw[i]], m)) \/ d = Taken(wh[ofw[i]])
      BY <2>2, <2>4
    <3>3. d.st \in {"clean", "taken"} /\ d.data = <<>>
      <4>1. CASE d = Taken(wh[ofw[i]])
        BY <3>1, <4>1, CleanStored
      <4>2. CASE \E m : d = NewWriter(wh[ofw[i]], m)
        <5>1. PICK m : d = NewWriter(wh[ofw[i]], m)
          BY <4>2
        <5> QED
          BY <3>1, <5>1, CleanStored
      <4> QED
        BY <3>2, <4>1, <4>2
    <3>4. d.st # "detached" /\ d.data # Damaged
      BY <3>3, CleanStored
    <3> QED
      BY <2>1, <3>1, <3>2, <3>4, CleanKept
  <2> QED
    BY <2>3, <2>4
<1> QED
  BY <1>2, <1>3, <1>4, <1>5, NoStoreFails DEF InodeStep, Steps

LEMMA HandleClean ==
    ASSUME "fault" \notin Env, TInv, Clean, NEW h \in Handles, HandleStep(h)
    PROVE  Clean'
<1> DEFINE c == wh[h]
<1>1. ASSUME UNCHANGED <<disk, wh>> PROVE Clean'
  BY <1>1 DEF Clean
<1>2. c # NoCtx => c \in WriteCtx /\ c.ino \in Inodes /\ Finished(c.ino, c) # Damaged
  BY WriteHandleFacts, CleanStored
<1>3. CASE \/ WriterMissing(h) \/ (\E pastEnd \in BOOLEAN : Read(h, pastEnd))
           \/ \E f \in Steps : ReleaseRead(h, f) \/ ReleaseStopsEarly(h, f)
  <2>1. UNCHANGED <<disk, wh>>
    BY <1>3 DEF WriterMissing, Read, ReleaseRead, ReleaseStopsEarly, store, tables
  <2> QED
    BY <1>1, <2>1
<1>4. ASSUME NEW off \in 0..(BlockSize - 1), NEW b \in Bytes, Write(h, off, b) PROVE Clean'
  <2> DEFINE base == IF c.st = "dirty" THEN c.data ELSE disk[c.ino]
             d == [c EXCEPT !.size = WrittenSize(c, off), !.st = "dirty",
                            !.data = Put(base, off, b), !.pos = off + 1]
  <2>1. c # NoCtx /\ disk[c.ino] # Gone /\ c.st # "detached" /\ c.data # Damaged
    BY <1>4 DEF Write, Clean
  <2>2. /\ disk' = disk \/ disk' = [disk EXCEPT ![c.ino] = Finished(c.ino, c)]
        /\ wh' = [wh EXCEPT ![h] = d]
    BY <1>4, <2>1 DEF Write
  <2>3. base \in Plaintexts /\ base # Damaged
    BY <1>2, <2>1, ContentsCases, WriteHandleFacts DEF Clean, TInv, TypeOK
  <2>4. Put(base, off, b) # Damaged
    BY <2>3, PutByteContents, ContentsCases DEF Put
  <2>5. d.st = "dirty" /\ d.data = Put(base, off, b)
    BY <1>2, <2>1 DEF WriteCtx
  <2> HIDE DEF d, base, c
  <2> QED
    BY <1>2, <2>1, <2>2, <2>4, <2>5, CleanKept
<1>5. ASSUME NEW f \in Steps, Flush(h, f) PROVE Clean'
  <2>1. /\ c # NoCtx
        /\ disk' = disk \/ disk' = [disk EXCEPT ![c.ino] = Finished(c.ino, c)]
        /\ wh' = wh \/ wh' = [wh EXCEPT ![h] = NewWriter(c, c.size)]
    BY <1>5 DEF Flush
  <2>2. NewWriter(c, c.size).st # "detached" /\ NewWriter(c, c.size).data # Damaged
    BY <1>2, <2>1, CleanStored
  <2> HIDE DEF c
  <2> QED
    BY <1>2, <2>1, <2>2, CleanKept
<1>6. CASE ReleaseWrite(h) \/ \E f \in Steps : ReleaseFails(h, f)
  <2>1. /\ c # NoCtx
        /\ disk' = [disk EXCEPT ![c.ino] = Finished(c.ino, c)]
        /\ wh' = [wh EXCEPT ![h] = NoCtx]
    BY <1>6, NoStoreFails DEF ReleaseWrite, ReleaseFails
  <2> HIDE DEF c
  <2> QED
    BY <1>2, <2>1, CleanKept
<1> QED
  BY <1>3, <1>4, <1>5, <1>6, NoStoreFails DEF HandleStep, Steps

LEMMA NextClean ==
    ASSUME "fault" \notin Env
    PROVE  TInv /\ Clean /\ [Next]_vars => Clean'
<1> SUFFICES ASSUME TInv, Clean, [Next]_vars PROVE Clean'
  OBVIOUS
<1>1. CASE Crash
  BY <1>1 DEF Crash, Clean
<1>2. CASE UNCHANGED vars
  BY <1>2 DEF vars, Clean
<1> QED
  BY <1>1, <1>2, InodeClean, HandleClean DEF Next

LEMMA InitClean == Init => Clean
BY ContentsCases DEF Init, Clean

LEMMA FileFacts ==
    ASSUME TInv, LInv, SizeInv, Clean, NEW i \in Inodes, linked[i]
    PROVE  /\ inode[i] \in Sizes /\ inode[i] # Gone /\ disk[i] # Gone /\ disk[i] \in Plaintexts
           /\ View(i) \in Plaintexts /\ View(i) # Gone
           /\ CachedAttr(i) = inode[i] /\ AttrSize(i) = Len(View(i))
           /\ FlushedDisk(i) = View(i)
<1>1. inode[i] \in Sizes /\ inode[i] # Gone /\ disk[i] # Gone /\ disk[i] \in Plaintexts
      /\ cache[i] \in {NoAttr, inode[i]}
  BY ContentsCases DEF LInv, Stored, TInv, TypeOK, Sizes, Clean
<1>2. HasWriter(i) => wh[ofw[i]].data \in Plaintexts /\ wh[ofw[i]].size \in Sizes
  BY AttrTypes, WriteCtxFields, ContentsCases DEF TInv, Clean
<1>3. View(i) \in Plaintexts /\ View(i) # Gone
  BY <1>1, <1>2, ContentsCases, OpenFilesAssumption DEF View
<1>4. CachedAttr(i) = inode[i]
  BY <1>1 DEF CachedAttr
<1>5. AttrSize(i) = Len(View(i))
  <2>1. CASE HasWriter(i)
    <3>1. wh[ofw[i]].size = Len(View(i)) /\ inode[i] <= wh[ofw[i]].size
      BY <2>1 DEF SizeInv, SizeOK
    <3>2. AttrSize(i) = MaxOf(inode[i], wh[ofw[i]].size)
      BY <1>1, <1>4, <2>1 DEF AttrSize, MergeWriter
    <3>3. MaxOf(inode[i], wh[ofw[i]].size) = wh[ofw[i]].size
      BY <1>1, <1>2, <2>1, <3>1 DEF MaxOf, Sizes
    <3> QED
      BY <3>1, <3>2, <3>3
  <2>2. CASE ~HasWriter(i)
    BY <1>1, <1>4, <2>2 DEF SizeInv, SizeOK, AttrSize, MergeWriter, View
  <2> QED
    BY <2>1, <2>2
<1>6. FlushedDisk(i) = View(i)
  BY <1>1 DEF FlushedDisk, Finished, View
<1> QED
  BY <1>1, <1>3, <1>4, <1>5, <1>6

(* All that SizeOK and View look at is the same after a step. *)
SameFile(j) ==
    /\ inode'[j] = inode[j] /\ disk'[j] = disk[j] /\ ofw'[j] = ofw[j]
    /\ ofw[j] # NoHandle => wh'[ofw[j]] = wh[ofw[j]]

LEMMA FileKept ==
    ASSUME NEW j \in Inodes, SameFile(j)
    PROVE  View(j)' = View(j) /\ (SizeOK(j) => SizeOK(j)')
<1>1. HasWriter(j)' = HasWriter(j)
  BY DEF SameFile, HasWriter
<1>2. View(j)' = View(j)
  BY <1>1 DEF SameFile, HasWriter, View
<1> QED
  BY <1>1, <1>2 DEF SameFile, HasWriter, SizeOK

(* What one call does to the files: those other than i stay, i becomes s.  *)
BecomesView(i, s) ==
    /\ UNCHANGED linked
    /\ \A j \in Inodes \ {i} : SameFile(j)
    /\ linked[i] => View(i)' = s /\ SizeOK(i)'

LEMMA SizesKept ==
    ASSUME SizeInv, NEW i, NEW s, BecomesView(i, s)
    PROVE  /\ SizeInv'
           /\ \A j \in Inodes : j # i => View(j)' = View(j)
           /\ i \in Inodes /\ linked[i] => View(i)' = s
BY FileKept DEF SizeInv, BecomesView

(* The writer of another file is another handle. *)
LEMMA OtherWriter ==
    ASSUME TInv, SInv, NEW i \in Inodes, NEW h \in Handles,
           wh[h] = NoCtx \/ wh[h].ino = i, NEW j \in Inodes \ {i}, ofw[j] # NoHandle
    PROVE  ofw[j] # h /\ ofw[j] \in Handles
BY DEF SInv, NoStaleRegistration, TInv, TypeOK

(* Calls that store an attribute at most. *)
LEMMA AttrSizes ==
    ASSUME PInv, NEW i \in Inodes, UNCHANGED <<linked, disk, wh, ofw>>,
           UNCHANGED inode \/ WriteInode(i, AttrSize(i))
    PROVE  BecomesView(i, View(i))
<1>1. \A j \in Inodes \ {i} : SameFile(j)
  BY DEF SameFile, WriteInode, PInv, TInv, TypeOK
<1>2. View(i)' = View(i) /\ HasWriter(i)' = HasWriter(i)
  BY DEF View, HasWriter
<1>3. linked[i] => SizeOK(i)'
  <2> SUFFICES ASSUME linked[i] PROVE SizeOK(i)'
    OBVIOUS
  <2>1. inode'[i] = inode[i] \/ inode'[i] = Len(View(i))
    BY FileFacts DEF WriteInode, PInv, TInv, TypeOK
  <2>2. SizeOK(i)
    BY DEF PInv, SizeInv
  <2>3. Len(View(i)) \in Sizes
    BY FileFacts, ContentsLen DEF PInv
  <2>4. Len(View(i)) <= Len(View(i))
    BY <2>3 DEF Sizes
  <2>5. CASE HasWriter(i)
    <3>1. wh'[ofw'[i]].size = Len(View(i))
      BY <2>2, <2>5 DEF SizeOK
    <3>2. inode'[i] <= Len(View(i))
      BY <2>1, <2>2, <2>4, <2>5 DEF SizeOK
    <3> QED
      BY <1>2, <2>5, <3>1, <3>2 DEF SizeOK
  <2>6. CASE ~HasWriter(i)
    BY <1>2, <2>1, <2>2, <2>6 DEF SizeOK, View
  <2> QED
    BY <2>5, <2>6
<1> QED
  BY <1>1, <1>2, <1>3 DEF BecomesView

LEMMA OpenSizes ==
    ASSUME PInv, NEW i \in Inodes,
           \/ OpenRead(i)
           \/ \E rd \in BOOLEAN : OpenWrite(i, rd)
           \/ OpenAlreadyOpen(i)
           \/ OpenFails(i)
    PROVE  BecomesView(i, View(i))
<1>1. CASE UNCHANGED <<wh, ofw>>
  <2>1. UNCHANGED <<linked, disk, wh, ofw, inode>>
    BY <1>1 DEF OpenRead, OpenWrite, OpenAlreadyOpen, OpenFails, store
  <2> QED
    BY <2>1, AttrSizes
<1>2. CASE ~UNCHANGED <<wh, ofw>>
  <2> DEFINE w == [ino |-> i, size |-> AttrSize(i), st |-> "clean", data |-> <<>>, pos |-> 0]
  <2>1. /\ ofw[i] = NoHandle /\ inode[i] # Gone /\ UNCHANGED <<linked, inode, disk>>
        /\ wh' = [wh EXCEPT ![next] = w] /\ ofw' = [ofw EXCEPT ![i] = next]
    BY <1>2 DEF OpenRead, OpenWrite, OpenAlreadyOpen, OpenFails, store
  <2>2. next \in Handles /\ wh[next] = NoCtx /\ next # NoHandle
    <3>1. next \in Handles
      BY NextHandle DEF OpenRead, OpenWrite, OpenAlreadyOpen, OpenFails, PInv, TInv, TypeOK
    <3> QED
      BY <3>1 DEF PInv, Tables, Unused, Handles, NoHandle
  <2>3. AttrSize(i) \in Sizes
    BY <2>1, AttrTypes, OpenFilesAssumption DEF PInv, TInv, Sizes
  <2>4. w.size = AttrSize(i) /\ w.st = "clean" /\ w # NoCtx
    BY <2>3, CtxTypes, WriteCtxFields
  <2> HIDE DEF w
  <2>5. \A j \in Inodes \ {i} : SameFile(j)
    <3> TAKE j \in Inodes \ {i}
    <3>1. ofw[j] # NoHandle => ofw[j] # next /\ ofw[j] \in Handles
      BY <2>2, OtherWriter DEF PInv
    <3> QED
      BY <2>1, <2>2, <3>1 DEF SameFile, PInv, TInv, TypeOK
  <2>6. ofw'[i] = next /\ wh'[next] = w /\ HasWriter(i)'
    BY <2>1, <2>2, <2>4 DEF HasWriter, PInv, TInv, TypeOK
  <2>7. View(i)' = disk[i] /\ View(i) = disk[i] /\ ~HasWriter(i)
    BY <2>1, <2>4, <2>6 DEF View, HasWriter
  <2>8. linked[i] => SizeOK(i)'
    <3> SUFFICES ASSUME linked[i] PROVE SizeOK(i)'
      OBVIOUS
    <3>1. AttrSize(i) = Len(disk[i]) /\ inode[i] = Len(disk[i]) /\ Len(disk[i]) \in Sizes
      BY <2>7, FileFacts, ContentsLen DEF PInv, SizeInv, SizeOK
    <3> QED
      BY <2>1, <2>4, <2>6, <2>7, <3>1 DEF SizeOK, Sizes
  <2> QED
    BY <2>1, <2>5, <2>7, <2>8 DEF BecomesView
<1> QED
  BY <1>1, <1>2

LEMMA PutByteLen ==
    ASSUME NEW s \in Plaintexts, NEW off \in 0..(BlockSize - 1), NEW b \in Bytes
    PROVE  Len(PutByte(s, off, b)) = MaxOf(Len(s), off + 1)
<1> DEFINE n == MaxOf(Len(s), off + 1)
<1>1. n \in Sizes
  BY ContentsLen, OpenFilesAssumption DEF Sizes, MaxOf
<1>2. \A j \in 1..n : (IF j = off + 1 THEN b ELSE IF j <= Len(s) THEN s[j] ELSE 0) \in Bytes
  BY ContentsLen, OpenFilesAssumption, <1>1 DEF Sizes
<1>3. PutByte(s, off, b) \in [1..n -> Bytes]
  BY <1>2 DEF PutByte
<1> HIDE DEF n
<1>4. Len(PutByte(s, off, b)) = n
  BY <1>1, <1>3, OpenFilesAssumption DEF Sizes
<1> QED
  BY <1>4 DEF n

(* A write puts its byte into what the user sees, whether the writer holds *)
(* the block or reads it from the file, and whether or not it stores a     *)
(* full block on the way.                                                  *)
LEMMA WriteSizes ==
    ASSUME PInv, NEW h \in Handles, NEW off \in 0..(BlockSize - 1), NEW b \in Bytes,
           Write(h, off, b), NEW i \in Inodes, i = wh[h].ino
    PROVE  BecomesView(i, PutByte(View(i), off, b))
<1> DEFINE c == wh[h]
           base == IF c.st = "dirty" THEN c.data ELSE disk[i]
           size == WrittenSize(c, off)
           d == [c EXCEPT !.size = size, !.st = "dirty", !.data = PutByte(base, off, b),
                          !.pos = off + 1]
<1>1. c \in WriteCtx /\ i = c.ino /\ c # NoCtx /\ c.size \in Sizes
  BY WriteHandleFacts DEF Write, PInv
<1>2. disk[i] # Gone /\ HasWriter(i) /\ ofw[i] = h /\ base = View(i)
  <2>1. disk[i] # Gone
    BY DEF Write
  <2> QED
    BY <1>1, <2>1, FinishedView DEF PInv, View
<1>3. /\ \E x : disk' = disk \/ disk' = [disk EXCEPT ![i] = x]
      /\ wh' = [wh EXCEPT ![h] = d]
      /\ ResetReaders(i, ofr[i] \ {h}, MaxOf(CachedAttr(i), size))
      /\ UNCHANGED <<linked, ofw>>
  <2>1. c.st # "detached" /\ base # Damaged
    BY <1>1 DEF PInv, Clean
  <2>2. Put(base, off, b) = PutByte(base, off, b)
    BY <2>1 DEF Put
  <2> QED
    BY <2>1, <2>2 DEF Write
<1>4. d.size = size /\ d.st = "dirty" /\ d.data = PutByte(base, off, b) /\ d # NoCtx
  <2>1. d.size = size /\ d.st = "dirty" /\ d.data = PutByte(base, off, b)
    BY <1>1 DEF WriteCtx
  <2>2. wh'[h] # NoCtx
    BY <1>1, WriteKeepsHandles DEF HandlesKept, SameWriters, PInv
  <2>3. wh'[h] = d
    BY <1>3 DEF PInv, TInv, TypeOK
  <2> QED
    BY <2>1, <2>2, <2>3
<1> HIDE DEF c, base, size, d
<1>5. inode' = inode \/ inode' = [inode EXCEPT ![i] = MaxOf(CachedAttr(i), size)]
  BY <1>3 DEF ResetReaders, WriteInode, Reached
<1>6. \A j \in Inodes \ {i} : SameFile(j)
  <2> TAKE j \in Inodes \ {i}
  <2>1. ofw[j] # NoHandle => ofw[j] # h /\ ofw[j] \in Handles
    BY <1>1, OtherWriter DEF PInv, c
  <2> QED
    BY <1>3, <1>5, <2>1 DEF SameFile, PInv, TInv, TypeOK
<1>7. wh'[h] = d /\ ofw'[i] = h /\ HasWriter(i)' /\ View(i)' = PutByte(View(i), off, b)
  BY <1>1, <1>2, <1>3, <1>4 DEF HasWriter, View, PInv, TInv, TypeOK
<1>8. linked[i] => SizeOK(i)'
  <2> SUFFICES ASSUME linked[i] PROVE SizeOK(i)'
    OBVIOUS
  <2>1. /\ View(i) \in Plaintexts /\ CachedAttr(i) = inode[i] /\ inode[i] \in Sizes
        /\ c.size = Len(View(i)) /\ inode[i] <= c.size
    BY <1>1, <1>2, FileFacts DEF PInv, SizeInv, SizeOK, c
  <2>2. size = Len(PutByte(View(i), off, b))
    BY <2>1, PutByteLen DEF size, WrittenSize
  <2>3. size \in Nat /\ inode[i] <= size
    BY <1>1, <2>1 DEF size, WrittenSize, MaxOf, Sizes
  <2>4. inode'[i] <= size
    <3>1. inode[i] \in Nat
      BY <2>1 DEF Sizes
    <3>2. MaxOf(inode[i], size) = size
      BY <2>3, <3>1 DEF MaxOf
    <3>3. inode'[i] = inode[i] \/ inode'[i] = size
      BY <1>1, <1>5, <2>1, <3>2 DEF PInv, TInv, TypeOK
    <3> QED
      BY <2>3, <3>3
  <2> QED
    BY <1>4, <1>7, <2>2, <2>4 DEF SizeOK
<1> QED
  BY <1>3, <1>6, <1>7, <1>8 DEF BecomesView

(* A flush moves the block from the writer to the file. *)
LEMMA FlushSizes ==
    ASSUME "fault" \notin Env, PInv, NEW h \in Handles, NEW f, Flush(h, f), NEW i \in Inodes, i = wh[h].ino
    PROVE  BecomesView(i, View(i))
<1> DEFINE c == wh[h]
           d == NewWriter(c, c.size)
<1>1. c \in WriteCtx /\ i = c.ino /\ c # NoCtx /\ c.size \in Sizes /\ disk[i] # Gone
      /\ CachedAttr(i) # Gone
  BY WriteHandleFacts, OpenFacts DEF Flush, PInv
<1>2. HasWriter(i) /\ ofw[i] = h /\ Finished(i, c) = View(i)
  BY <1>1, FinishedView DEF PInv
<1>3. /\ \/ disk' = disk /\ wh' = wh
         \/ disk' = [disk EXCEPT ![i] = Finished(i, c)] /\ wh' = [wh EXCEPT ![h] = d]
      /\ ResetReaders(i, ofr[i] \ {h}, MaxOf(CachedAttr(i), c.size))
      /\ UNCHANGED <<linked, ofw>>
  BY <1>1, NoStoreFails DEF Flush
<1>4. d.size = c.size /\ d.st = "clean" /\ d # NoCtx
  <2>1. d \in WriteCtx
    BY <1>1, CtxTypes
  <2> QED
    BY <1>1, <2>1, WriteCtxFields DEF NewWriter, WriteCtx
<1> HIDE DEF c, d
<1>5. inode' = inode \/ inode' = [inode EXCEPT ![i] = MaxOf(CachedAttr(i), c.size)]
  BY <1>3 DEF ResetReaders, WriteInode, Reached
<1>6. \A j \in Inodes \ {i} : SameFile(j)
  <2> TAKE j \in Inodes \ {i}
  <2>1. ofw[j] # NoHandle => ofw[j] # h /\ ofw[j] \in Handles
    BY <1>1, OtherWriter DEF PInv, c
  <2> QED
    BY <1>3, <1>5, <2>1 DEF SameFile, PInv, TInv, TypeOK
<1>7. ofw'[i] = h /\ HasWriter(i)' /\ View(i)' = View(i) /\ wh'[h].size = c.size
  <2>1. CASE disk' = disk /\ wh' = wh
    BY <1>1, <1>2, <1>3, <2>1 DEF HasWriter, View, c
  <2>2. CASE disk' = [disk EXCEPT ![i] = Finished(i, c)] /\ wh' = [wh EXCEPT ![h] = d]
    <3>1. wh'[h] = d /\ disk'[i] = View(i) /\ ofw'[i] = h /\ h # NoHandle
      BY <1>1, <1>2, <1>3, <2>2 DEF PInv, TInv, TypeOK, Handles, NoHandle
    <3> QED
      BY <1>4, <3>1 DEF HasWriter, View
  <2> QED
    BY <1>3, <2>1, <2>2
<1>8. linked[i] => SizeOK(i)'
  <2> SUFFICES ASSUME linked[i] PROVE SizeOK(i)'
    OBVIOUS
  <2>1. /\ CachedAttr(i) = inode[i] /\ inode[i] \in Sizes
        /\ c.size = Len(View(i)) /\ inode[i] <= c.size
    BY <1>1, <1>2, FileFacts DEF PInv, SizeInv, SizeOK, c
  <2>2. inode'[i] <= c.size
    <3>1. inode[i] \in Nat /\ c.size \in Nat
      BY <1>1, <2>1 DEF Sizes
    <3>2. MaxOf(inode[i], c.size) = c.size
      BY <2>1, <3>1 DEF MaxOf
    <3>3. inode'[i] = inode[i] \/ inode'[i] = c.size
      BY <1>1, <1>5, <2>1, <3>2 DEF PInv, TInv, TypeOK
    <3> QED
      BY <2>1, <3>1, <3>3
  <2> QED
    BY <1>7, <2>1, <2>2 DEF SizeOK
<1> QED
  BY <1>3, <1>6, <1>7, <1>8 DEF BecomesView

(* release moves it there for good, with the size. *)
LEMMA ReleaseSizes ==
    ASSUME "fault" \notin Env, PInv, NEW h \in Handles,
           \/ ReleaseWrite(h)
           \/ \E f \in Steps : ReleaseRead(h, f) \/ ReleaseStopsEarly(h, f) \/ ReleaseFails(h, f)
    PROVE  \E i \in Inodes : BecomesView(i, View(i))
<1>1. \A f \in Steps : ~ReleaseStopsEarly(h, f) /\ ~ReleaseFails(h, f)
  BY OpenFacts, NoStoreFails DEF ReleaseStopsEarly, ReleaseFails, PInv
<1>2. ASSUME NEW f \in Steps, ReleaseRead(h, f) PROVE \E i \in Inodes : BecomesView(i, View(i))
  <2>1. PICK i \in Inodes : i = rh[h].ino
    BY <1>2, ReadCtxFields DEF ReleaseRead, PInv, TInv, TypeOK
  <2>2. UNCHANGED <<linked, disk, wh, ofw>>
        /\ (UNCHANGED inode \/ WriteInode(i, AttrSize(i)))
    BY <1>2, <2>1 DEF ReleaseRead
  <2> QED
    BY <2>1, <2>2, AttrSizes
<1>3. CASE ReleaseWrite(h)
  <2> DEFINE c == wh[h]
  <2>0. PICK i \in Inodes : i = c.ino
    BY <1>3, WriteHandleFacts DEF ReleaseWrite, PInv
  <2>1. c \in WriteCtx /\ i = c.ino /\ c # NoCtx /\ disk[i] # Gone
    BY <1>3, <2>0, WriteHandleFacts, OpenFacts DEF ReleaseWrite, PInv
  <2>2. HasWriter(i) /\ ofw[i] = h /\ Finished(i, c) = View(i)
    BY <2>1, FinishedView DEF PInv
  <2>3. /\ disk' = [disk EXCEPT ![i] = Finished(i, c)]
        /\ inode' = [inode EXCEPT ![i] = AttrSize(i)]
        /\ wh' = [wh EXCEPT ![h] = NoCtx]
        /\ ofw' = [ofw EXCEPT ![i] = NoHandle]
        /\ UNCHANGED linked
    BY <1>3, <2>0 DEF ReleaseWrite, WriteInode
  <2> HIDE DEF c
  <2>4. \A j \in Inodes \ {i} : SameFile(j)
    <3> TAKE j \in Inodes \ {i}
    <3>1. ofw[j] # NoHandle => ofw[j] # h /\ ofw[j] \in Handles
      BY <2>1, OtherWriter DEF PInv, c
    <3> QED
      BY <2>3, <3>1 DEF SameFile, PInv, TInv, TypeOK
  <2>5. ~HasWriter(i)' /\ disk'[i] = View(i) /\ inode'[i] = AttrSize(i)
    BY <2>1, <2>2, <2>3 DEF HasWriter, PInv, TInv, TypeOK
  <2>6. View(i)' = View(i)
    BY <2>5 DEF View
  <2>7. linked[i] => SizeOK(i)'
    BY <2>1, <2>5, FileFacts DEF SizeOK, PInv
  <2>8. BecomesView(i, View(i))
    BY <2>3, <2>4, <2>6, <2>7 DEF BecomesView
  <2> QED
    BY <2>1, <2>8
<1> QED
  BY <1>1, <1>2, <1>3

(* What set_len copies is the file cut or extended. *)
LEMMA CopyIsResize ==
    ASSUME NEW s \in Plaintexts, NEW n \in Nat
    PROVE  /\ CopyPrefix(s, MinOf(Len(s), n), n) = Resize(s, n)
           /\ Len(Resize(s, n)) = n
<1>1. Len(s) \in Nat
  BY ContentsLen DEF Sizes
<1>2. \A j \in 1..n : j <= MinOf(Len(s), n) <=> j <= Len(s)
  BY <1>1 DEF MinOf
<1>3. CopyPrefix(s, MinOf(Len(s), n), n) = Resize(s, n)
  BY <1>2 DEF CopyPrefix, Resize
<1>4. \A j \in 1..n : (IF j <= Len(s) THEN s[j] ELSE 0) \in Bytes
  BY <1>1, ContentsLen, OpenFilesAssumption
<1>5. Resize(s, n) \in [1..n -> Bytes]
  BY <1>4 DEF Resize, CopyPrefix
<1>6. Len(Resize(s, n)) = n
  BY <1>5
<1> QED
  BY <1>3, <1>6

(* set_len touches the file it is given, and its writer. *)
LEMMA SetLenOthers ==
    ASSUME PInv, NEW i \in Inodes, NEW x, NEW y, NEW w,
           disk' = disk \/ disk' = [disk EXCEPT ![i] = x],
           inode' = inode \/ inode' = [inode EXCEPT ![i] = y],
           wh' = wh \/ (HasWriter(i) /\ wh' = [wh EXCEPT ![ofw[i]] = w]),
           UNCHANGED ofw
    PROVE  \A j \in Inodes \ {i} : SameFile(j)
<1> TAKE j \in Inodes \ {i}
<1>1. HasWriter(i) /\ ofw[j] # NoHandle => ofw[j] # ofw[i] /\ ofw[j] \in Handles
  BY DEF PInv, SInv, NoStaleRegistration, HasWriter, TInv, TypeOK
<1> QED
  BY <1>1 DEF SameFile, PInv, TInv, TypeOK

LEMMA SetLenSizes ==
    ASSUME "shrink_open" \notin Env, PInv, NEW i \in Inodes, NEW n \in 0..BlockSize, SetLen(i, n)
    PROVE  BecomesView(i, Resize(View(i), n))
<1> DEFINE merged == IF HasWriter(i) /\ ofr[i] # {} THEN MaxOf(n, AttrSize(i)) ELSE n
           new == Copied(FlushedDisk(i), Kept(i, n), n)
           w == NewWriter(wh[ofw[i]], merged)
<1>1. n \in Nat /\ n \in Sizes
  BY OpenFilesAssumption DEF Sizes
<1>2. AttrSize(i) \in Sizes /\ AttrSize(i) # n
  <2>1. AttrSize(i) # Gone /\ AttrSize(i) # n
    BY DEF SetLen, SetLenAsked
  <2> QED
    BY <2>1, AttrTypes DEF AttrSize, PInv, TInv
<1>3. merged = n
  <2>1. ~(n < AttrSize(i) /\ HasWriter(i) /\ ofr[i] # {})
    BY DEF SetLen, SetLenAsked
  <2> QED
    BY <1>1, <1>2, <2>1 DEF MaxOf, Sizes
<1>4. /\ disk' = [disk EXCEPT ![i] = new]
      /\ inode' = [inode EXCEPT ![i] = merged]
      /\ wh' = IF HasWriter(i) THEN [wh EXCEPT ![ofw[i]] = w] ELSE wh
      /\ UNCHANGED <<linked, ofw>>
  BY DEF SetLen, WriteInode
<1>5. HasWriter(i) => w.size = n /\ w.st = "clean" /\ w # NoCtx
  <2>1. HasWriter(i) => wh[ofw[i]] \in WriteCtx
    BY AttrTypes DEF PInv, TInv
  <2>2. HasWriter(i) => w \in WriteCtx
    BY <1>1, <1>3, <2>1, CtxTypes
  <2>3. HasWriter(i) => w.size = n /\ w.st = "clean"
    BY <1>3, <2>1 DEF NewWriter, WriteCtx
  <2> QED
    BY <2>2, <2>3, WriteCtxFields
<1> HIDE DEF merged, new, w
<1>6. \A j \in Inodes \ {i} : SameFile(j)
  BY <1>4, SetLenOthers
<1>7. disk'[i] = new /\ inode'[i] = n
  BY <1>3, <1>4 DEF PInv, TInv, TypeOK
<1>8. HasWriter(i) => ofw[i] \in Handles
  BY AttrTypes DEF PInv, TInv
<1>9. HasWriter(i)' = HasWriter(i)
  BY <1>4, <1>5, <1>8 DEF HasWriter, PInv, TInv, TypeOK
<1>10. HasWriter(i) => wh'[ofw'[i]] = w
  BY <1>4, <1>8 DEF PInv, TInv, TypeOK
<1>11. View(i)' = new
  BY <1>5, <1>7, <1>9, <1>10 DEF View
<1>12. linked[i] => new = Resize(View(i), n) /\ Len(new) = n
  <2> SUFFICES ASSUME linked[i] PROVE new = Resize(View(i), n) /\ Len(new) = n
    OBVIOUS
  <2>1. View(i) \in Plaintexts /\ FlushedDisk(i) = View(i) /\ Kept(i, n) = MinOf(Len(View(i)), n)
    BY FileFacts DEF Kept, PInv
  <2> QED
    BY <1>1, <2>1, CopyIsResize, ContentsCases DEF new, Copied
<1>13. linked[i] => SizeOK(i)'
  BY <1>1, <1>5, <1>7, <1>9, <1>10, <1>11, <1>12 DEF SizeOK
<1> QED
  BY <1>4, <1>6, <1>11, <1>12, <1>13 DEF BecomesView

(* The copy cannot run short: the flushed contents are as long as the size *)
(* says.                                                                   *)
LEMMA SetLenFailsSizes ==
    ASSUME "fault" \notin Env, PInv, NEW i \in Inodes, NEW n \in 0..BlockSize,
           \E f \in Steps : SetLenCopyFails(i, n, f) \/ SetLenLosesWriter(i, n, f)
    PROVE  BecomesView(i, View(i))
<1>1. \A f \in Steps : ~SetLenLosesWriter(i, n, f)
  BY OpenFacts, NoStoreFails DEF SetLenLosesWriter, PInv
<1>2. PICK f \in Steps : SetLenCopyFails(i, n, f)
  BY <1>1
<1>3. ~linked[i]
  <2> SUFFICES ASSUME linked[i] PROVE FALSE
    OBVIOUS
  <2>1. disk[i] # Gone /\ View(i) \in Plaintexts /\ FlushedDisk(i) = View(i)
        /\ Kept(i, n) = MinOf(Len(View(i)), n)
    BY FileFacts DEF Kept, PInv
  <2>2. Len(View(i)) \in Nat /\ n \in Nat
    BY <2>1, ContentsLen, OpenFilesAssumption DEF Sizes
  <2>3. CanCopy(i, n)
    BY <2>1, <2>2 DEF CanCopy, MinOf
  <2> QED
    BY <1>2, <2>1, <2>3, ContentsCases, NoStoreFails DEF SetLenCopyFails, CopyMayFail
<1>4. /\ disk' = [disk EXCEPT ![i] = FlushedDisk(i)]
      /\ inode' = inode \/ inode' = [inode EXCEPT ![i] = AttrSize(i)]
      /\ wh' = wh \/ (HasWriter(i) /\ wh' = [wh EXCEPT ![ofw[i]] = NewWriter(wh[ofw[i]], AttrSize(i))])
      /\ UNCHANGED <<linked, ofw>>
  BY <1>2 DEF SetLenCopyFails, WriteInode
<1>5. \A j \in Inodes \ {i} : SameFile(j)
  BY <1>4, SetLenOthers
<1> QED
  BY <1>3, <1>4, <1>5 DEF BecomesView

(* remove_file takes away one file, and no other. *)
LEMMA RemoveSizes ==
    ASSUME PInv, NEW i \in Inodes, RemoveFile(i)
    PROVE  /\ linked' = [linked EXCEPT ![i] = FALSE] /\ linked[i]
           /\ \A j \in Inodes \ {i} : View(j)' = View(j)
           /\ SizeInv'
<1>1. \A j \in Inodes \ {i} : SameFile(j)
  BY DEF RemoveFile, SameFile, tables, PInv, TInv, TypeOK
<1>2. linked' = [linked EXCEPT ![i] = FALSE] /\ linked[i]
  BY DEF RemoveFile
<1> QED
  BY <1>1, <1>2, FileKept DEF SizeInv, PInv, TInv, TypeOK

(* Every call, as its user sees it. *)
LEMMA StepViews ==
    ASSUME Env = {}, PInv, [Next]_vars
    PROVE  \/ UNCHANGED <<linked, inode, disk, wh, ofw>>
           \/ \E i \in Inodes : BecomesView(i, View(i))
           \/ \E i \in Inodes, off \in 0..(BlockSize - 1), b \in Bytes :
                  BecomesView(i, PutByte(View(i), off, b))
           \/ \E i \in Inodes, n \in 0..BlockSize : BecomesView(i, Resize(View(i), n))
           \/ \E i \in Inodes : RemoveFile(i)
<1> DEFINE Quiet == \/ UNCHANGED <<linked, inode, disk, wh, ofw>>
                    \/ \E i \in Inodes : BecomesView(i, View(i))
<1>1. ASSUME NEW i \in Inodes, InodeStep(i)
      PROVE  Quiet \/ RemoveFile(i) \/ \E n \in 0..BlockSize : BecomesView(i, Resize(View(i), n))
  <2>1. CASE GetAttr(i) \/ Expire(i) \/ \E n \in 0..BlockSize : SetLenNoop(i, n)
    BY <2>1 DEF GetAttr, Expire, SetLenNoop, store, tables
  <2>2. CASE SetAttr(i)
    BY <2>2, AttrSizes DEF SetAttr, tables
  <2>3. CASE OpenRead(i) \/ (\E rd \in BOOLEAN : OpenWrite(i, rd)) \/ OpenAlreadyOpen(i) \/ OpenFails(i)
    BY <2>3, OpenSizes
  <2>4. ASSUME NEW n \in 0..BlockSize, SetLen(i, n) PROVE BecomesView(i, Resize(View(i), n))
    BY <2>4, SetLenSizes
  <2>5. ASSUME NEW n \in 0..BlockSize,
               \E f \in Steps : SetLenCopyFails(i, n, f) \/ SetLenLosesWriter(i, n, f)
        PROVE  Quiet
    BY <2>5, SetLenFailsSizes
  <2> HIDE DEF Quiet
  <2> QED
    BY <1>1, <2>1, <2>2, <2>3, <2>4, <2>5, NoStoreFails DEF InodeStep, Steps
<1>2. ASSUME NEW h \in Handles, HandleStep(h)
      PROVE  \/ Quiet
             \/ \E i \in Inodes, off \in 0..(BlockSize - 1), b \in Bytes :
                  BecomesView(i, PutByte(View(i), off, b))
  <2>1. ASSUME NEW pastEnd \in BOOLEAN, Read(h, pastEnd) PROVE Quiet
    BY <2>1 DEF Read, store
  <2>2. ASSUME NEW off \in 0..(BlockSize - 1), NEW b \in Bytes, Write(h, off, b)
        PROVE  \E i \in Inodes : BecomesView(i, PutByte(View(i), off, b))
    <3>1. PICK i \in Inodes : i = wh[h].ino
      BY <2>2, WriteHandleFacts DEF Write, PInv
    <3> QED
      BY <2>2, <3>1, WriteSizes
  <2>3. ASSUME NEW f \in Steps, Flush(h, f) PROVE Quiet
    <3>1. PICK i \in Inodes : i = wh[h].ino
      BY <2>3, WriteHandleFacts DEF Flush, PInv
    <3> QED
      BY <2>3, <3>1, FlushSizes
  <2>4. ~WriterMissing(h)
    BY DEF WriterMissing, PInv, SInv, NoTaken
  <2>5. CASE \/ ReleaseWrite(h)
             \/ \E f \in Steps : ReleaseRead(h, f) \/ ReleaseStopsEarly(h, f) \/ ReleaseFails(h, f)
    BY <2>5, ReleaseSizes
  <2> HIDE DEF Quiet
  <2> QED
    BY <1>2, <2>1, <2>2, <2>3, <2>4, <2>5, NoStoreFails DEF HandleStep, Steps
<1>3. ~Crash
  BY DEF Crash
<1>4. CASE UNCHANGED vars
  BY <1>4 DEF vars
<1> QED
  BY <1>1, <1>2, <1>3, <1>4 DEF Next

LEMMA NextSizeInv ==
    ASSUME Env = {}
    PROVE  PInv /\ [Next]_vars => SizeInv'
<1> SUFFICES ASSUME PInv, [Next]_vars PROVE SizeInv'
  OBVIOUS
<1>1. CASE UNCHANGED <<linked, inode, disk, wh, ofw>>
  <2>1. \A j \in Inodes : SameFile(j)
    BY <1>1 DEF SameFile
  <2> QED
    BY <1>1, <2>1, FileKept DEF SizeInv, PInv
<1>2. ASSUME NEW i \in Inodes, NEW t, BecomesView(i, t) PROVE SizeInv'
  BY <1>2, SizesKept DEF PInv
<1>3. ASSUME NEW i \in Inodes, RemoveFile(i) PROVE SizeInv'
  BY <1>3, RemoveSizes
<1> QED
  BY <1>1, <1>2, <1>3, StepViews

LEMMA InitSizeInv == Init => SizeInv
BY DEF Init, SizeInv, SizeOK, HasWriter

LEMMA PlainInvariant ==
    ASSUME Env = {}
    PROVE  Spec => []PInv
<1>1. TInv /\ Tables /\ SInv /\ [Next]_vars => SInv'
  BY NextSafe
<1>2. Init => PInv
  BY InitTInv, InitTables, InitSafe, InitLInv, InitSizeInv, InitClean DEF PInv
<1>3. PInv /\ [Next]_vars => PInv'
  BY <1>1, NextTInv, NextTables, NextLInv, NextSizeInv, NextClean DEF PInv
<1> QED
  BY <1>2, <1>3, PTL DEF Spec

-----------------------------------------------------------------------------
(* The refinement: the two variables of PlainFile.                         *)

Content == [i \in Inodes |-> IF linked[i] THEN View(i) ELSE Gone]
Size == [i \in Inodes |-> IF linked[i] THEN AttrSize(i) ELSE Gone]

(* What stat reports is the length of what read returns. *)
SizeIsLen == \A i \in Inodes : linked[i] => AttrSize(i) = Len(View(i)) /\ View(i) # Gone

LEMMA PInvSizeIsLen == PInv => SizeIsLen
BY FileFacts DEF PInv, SizeIsLen

LEMMA PlainInit == Init => Plain!Init
<1> SUFFICES ASSUME Init PROVE Plain!Init
  OBVIOUS
<1>1. SizeIsLen
  <2>1. \A i \in Inodes : View(i) = disk[i] /\ disk[i] \in Plaintexts
    BY DEF Init, View, HasWriter
  <2>2. \A i \in Inodes : disk[i] # Gone /\ Len(disk[i]) # Gone
    BY <2>1, ContentsLen, ContentsCases, OpenFilesAssumption DEF Sizes
  <2>3. \A i \in Inodes : AttrSize(i) = Len(disk[i])
    BY <2>2 DEF Init, AttrSize, CachedAttr, MergeWriter, HasWriter
  <2> QED
    BY <2>1, <2>2, <2>3 DEF SizeIsLen
<1>2. \A i \in Inodes : linked[i] /\ View(i) \in Plaintexts
  BY DEF Init, View, HasWriter
<1>3. Content \in [Inodes -> Plaintexts]
  BY <1>2 DEF Content
<1>4. Size = [i \in Inodes |-> Len(Content[i])]
  BY <1>1, <1>2 DEF Size, Content, SizeIsLen
<1> QED
  BY <1>3, <1>4 DEF Plain!Init, Content, Size, Plaintexts

LEMMA PlainBecomes ==
    ASSUME SizeIsLen, SizeIsLen', NEW i \in Inodes, linked[i], UNCHANGED linked, NEW s,
           \A j \in Inodes : j # i => View(j)' = View(j), View(i)' = s
    PROVE  Plain!Becomes(i, s)
<1>1. Content' = [Content EXCEPT ![i] = s]
  BY DEF Content
<1>2. \A j \in Inodes : linked[j] /\ j # i => AttrSize(j)' = AttrSize(j)
  BY DEF SizeIsLen
<1>3. AttrSize(i)' = Len(s)
  BY DEF SizeIsLen
<1>4. Size' = [Size EXCEPT ![i] = Len(s)]
  BY <1>2, <1>3 DEF Size
<1> QED
  BY <1>1, <1>4 DEF Plain!Becomes, Content, Size

LEMMA PlainStutters ==
    ASSUME SizeIsLen, SizeIsLen', UNCHANGED linked,
           \A j \in Inodes : linked[j] => View(j)' = View(j)
    PROVE  UNCHANGED Plain!vars
<1>1. Content' = Content
  BY DEF Content
<1>2. \A j \in Inodes : linked[j] => AttrSize(j)' = AttrSize(j)
  BY DEF SizeIsLen
<1>3. Size' = Size
  BY <1>2 DEF Size
<1> QED
  BY <1>1, <1>3 DEF Plain!vars, Content, Size

LEMMA PlainUnlink ==
    ASSUME SizeIsLen, SizeIsLen', NEW i \in Inodes, linked \in [Inodes -> BOOLEAN], linked[i],
           linked' = [linked EXCEPT ![i] = FALSE],
           \A j \in Inodes \ {i} : View(j)' = View(j)
    PROVE  Plain!Unlink(i)
<1>1. Content' = [Content EXCEPT ![i] = Gone] /\ Content[i] # Gone
  BY DEF Content, SizeIsLen
<1>2. \A j \in Inodes \ {i} : linked[j] => AttrSize(j)' = AttrSize(j)
  BY DEF SizeIsLen
<1>3. Size' = [Size EXCEPT ![i] = Gone]
  BY <1>2 DEF Size
<1> QED
  BY <1>1, <1>3 DEF Plain!Unlink, Content, Size

LEMMA PlainNext ==
    ASSUME Env = {}, PInv, SizeIsLen, SizeIsLen', [Next]_vars
    PROVE  [Plain!Next]_Plain!vars
<1>1. CASE UNCHANGED <<linked, inode, disk, wh, ofw>>
  <2>1. \A j \in Inodes : View(j)' = View(j)
    BY <1>1, FileKept DEF SameFile
  <2> QED
    BY <1>1, <2>1, PlainStutters
<1>2. ASSUME NEW i \in Inodes, NEW s, BecomesView(i, s), s = View(i) \/ ~linked[i]
      PROVE  UNCHANGED Plain!vars
  BY <1>2, SizesKept, PlainStutters DEF PInv, BecomesView
<1>3. ASSUME NEW i \in Inodes, NEW s, BecomesView(i, s), linked[i]
      PROVE  Plain!Becomes(i, s) /\ Content[i] = View(i) /\ Content[i] # Gone
  <2>1. UNCHANGED linked /\ (\A j \in Inodes : j # i => View(j)' = View(j)) /\ View(i)' = s
    BY <1>3, SizesKept DEF PInv, BecomesView
  <2>2. Content[i] = View(i) /\ Content[i] # Gone
    BY <1>3 DEF Content, SizeIsLen
  <2> QED
    BY <1>3, <2>1, <2>2, PlainBecomes
<1>4. ASSUME NEW i \in Inodes, NEW off \in 0..(BlockSize - 1), NEW b \in Bytes,
             BecomesView(i, PutByte(View(i), off, b)), linked[i]
      PROVE  Plain!Write(i, off, b)
  <2>1. PICK s : s = PutByte(View(i), off, b) /\ BecomesView(i, s)
    BY <1>4
  <2>2. Plain!Becomes(i, s) /\ s = PutByte(Content[i], off, b) /\ Content[i] # Gone
    BY <1>3, <1>4, <2>1
  <2>3. Content' = [Content EXCEPT ![i] = s] /\ Size' = [Size EXCEPT ![i] = Len(s)]
    BY <2>2 DEF Plain!Becomes, Content, Size
  <2>4. /\ Content' = [Content EXCEPT ![i] = PutByte(Content[i], off, b)]
        /\ Size' = [Size EXCEPT ![i] = Len(PutByte(Content[i], off, b))]
    BY <2>2, <2>3
  <2> QED
    BY <2>2, <2>4 DEF Plain!Write, Plain!Becomes, Content, Size, Plain!PutByte, PutByte, Plain!MaxOf, MaxOf
<1>5. ASSUME NEW i \in Inodes, NEW n \in 0..BlockSize, BecomesView(i, Resize(View(i), n)), linked[i]
      PROVE  Plain!Truncate(i, n)
  <2>1. PICK s : s = Resize(View(i), n) /\ BecomesView(i, s)
    BY <1>5
  <2>2. Plain!Becomes(i, s) /\ s = Resize(Content[i], n) /\ Content[i] # Gone
    BY <1>3, <1>5, <2>1
  <2>3. Content' = [Content EXCEPT ![i] = s] /\ Size' = [Size EXCEPT ![i] = Len(s)]
    BY <2>2 DEF Plain!Becomes, Content, Size
  <2>4. /\ Content' = [Content EXCEPT ![i] = Resize(Content[i], n)]
        /\ Size' = [Size EXCEPT ![i] = Len(Resize(Content[i], n))]
    BY <2>2, <2>3
  <2> QED
    BY <2>2, <2>4 DEF Plain!Truncate, Plain!Becomes, Content, Size, Plain!Resize, Resize, Plain!CopyPrefix, CopyPrefix
<1>6. ASSUME NEW i \in Inodes, RemoveFile(i) PROVE Plain!Unlink(i)
  BY <1>6, RemoveSizes, PlainUnlink DEF PInv, TInv, TypeOK
<1> QED
  BY <1>1, <1>2, <1>4, <1>5, <1>6, StepViews DEF Plain!Next

(* The open-file layer implements PlainFile: whatever clients do, with any *)
(* number of readers and writers, buffers, resets and cached attributes,   *)
(* the bytes of a file and the size that stat reports change as those of a *)
(* plain file, at write, truncate and unlink, and at no other call.        *)
THEOREM ImplementsPlainFiles ==
    ASSUME Env = {}
    PROVE  Spec => PlainFiles
<1>1. PInv /\ PInv' /\ [Next]_vars => [Plain!Next]_Plain!vars
  <2>1. (PInv => SizeIsLen)'
    BY PInvSizeIsLen, PTL
  <2> QED
    BY <2>1, PInvSizeIsLen, PlainNext
<1>2. Spec => []PInv
  BY PlainInvariant
<1> QED
  BY <1>1, <1>2, PlainInit, PTL DEF Spec, PlainFiles, Plain!Spec
=============================================================================
