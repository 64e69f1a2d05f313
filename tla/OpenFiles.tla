----------------------------- MODULE OpenFiles -----------------------------
(***************************************************************************)
(* The open-file layer of EncryptedFs (src/encryptedfs.rs): the four       *)
(* handle tables, the handle contexts with their buffering reader and      *)
(* writer, the attribute cache, the inode files and the contents files,    *)
(* under open, read, write, flush, release, set_len, get_attr, set_attr    *)
(* and remove_file.                                                        *)
(*                                                                         *)
(* One call is one step; calls are not interleaved here.  A file fits into *)
(* one encrypted block: the reader buffers the block it decrypted, the     *)
(* writer buffers the block it changes and stores it when the position     *)
(* reaches the end of the block or at finish().  Timestamps, permissions   *)
(* and owners are left out of attributes: the size is what matters here.   *)
(*                                                                         *)
(* A block whose bytes are lost is Damaged: encrypt_and_write seals the    *)
(* buffer in place before it writes, so a store that fails leaves a torn   *)
(* block in the file, ciphertext in a buffer that is still dirty, or both. *)
(***************************************************************************)
EXTENDS ByteSeq

CONSTANTS
    Inodes,
    MaxHandle,   \* bound: number of handles given out
    BlockSize,   \* BLOCK_SIZE; also the bound on file sizes
    Bytes,       \* byte values, 0 among them
    Env,         \* what clients and the host may do, see EnvEvents
    Gone, NoAttr, NoCtx, Damaged

EnvEvents == {"fault",        \* file operations of the host fail (ENOSPC, EMFILE)
              "crash",        \* the process dies and is started again
              "shrink_open",  \* set_len below the size with a reader and a writer open
              "unlink_open"}  \* remove_file of an open file

Handles == 1..MaxHandle
NoHandle == 0

Plaintexts == UNION {[1..n -> Bytes] : n \in 0..BlockSize}

(* A block of a file or of a buffer; Damaged does not decrypt, or decrypts  *)
(* to ciphertext.                                                           *)
Contents == Plaintexts \cup {Damaged}

(* ReadHandleContext; snap is the block its reader has decrypted, <<>> if   *)
(* none; a reader that read past the last block has dropped it and serves   *)
(* nothing more (eof) until it is recreated.                                *)
ReadCtx == [ino : Inodes, snap : Contents, eof : BOOLEAN]

(* WriteHandleContext; data and pos are the writer's buffer and position    *)
(* once it is dirty; a taken writer is None; a detached one has a file open *)
(* that was replaced, and what it stores reaches nothing.                   *)
WriteCtx == [ino : Inodes, size : 0..BlockSize,
             st : {"clean", "dirty", "taken", "detached"},
             data : Contents, pos : 0..BlockSize]

ASSUME OpenFilesAssumption ==
    /\ MaxHandle \in Nat
    /\ BlockSize \in Nat \ {0}
    /\ Bytes \subseteq Nat /\ 0 \in Bytes
    /\ Env \subseteq EnvEvents
    /\ Gone \notin Nat /\ NoAttr \notin Nat /\ NoAttr # Gone
    /\ Damaged \notin Plaintexts /\ Gone \notin Contents
    /\ NoCtx \notin ReadCtx /\ NoCtx \notin WriteCtx

VARIABLES
    linked,   \* linked[i]: a directory entry names i
    inode,    \* inode[i]: the size in the inode file, Gone if there is no file
    disk,     \* disk[i]: the decrypted contents file, Gone if there is no file
    cache,    \* cache[i]: the size in attr_cache, or NoAttr
    rh,       \* read_handles
    wh,       \* write_handles
    ofr,      \* opened_files_for_read ({} for an absent key)
    ofw,      \* opened_files_for_write (NoHandle for an absent key)
    next,     \* current_handle
    owned,    \* handles a client got from open and has not released
    panicked, \* an unwrap or expect failed; the model stops there
    written   \* written[i]: history, the bytes that calls which succeeded
              \* have given i; Damaged once a store of them has failed

store == <<linked, inode, disk, written>>
tables == <<rh, wh, ofr, ofw>>
vars == <<linked, inode, disk, cache, rh, wh, ofr, ofw, next, owned, panicked, written>>

(* The tables hold handles and contexts, sizes stay within the file bound  *)
(* and no context is half built, whatever open, write, set_len and release *)
(* do to them and however they fail.                                       *)
TypeOK ==
    /\ linked \in [Inodes -> BOOLEAN]
    /\ inode \in [Inodes -> 0..BlockSize \cup {Gone}]
    /\ disk \in [Inodes -> Contents \cup {Gone}]
    /\ cache \in [Inodes -> 0..BlockSize \cup {NoAttr}]
    /\ rh \in [Handles -> ReadCtx \cup {NoCtx}]
    /\ wh \in [Handles -> WriteCtx \cup {NoCtx}]
    /\ ofr \in [Inodes -> SUBSET Handles]
    /\ ofw \in [Inodes -> Handles \cup {NoHandle}]
    /\ next \in 1..(MaxHandle + 1)
    /\ owned \subseteq Handles
    /\ panicked \in BOOLEAN
    /\ written \in [Inodes -> Contents]

(* A mounted file system with existing regular files, none of them open. *)
Init ==
    /\ linked = [i \in Inodes |-> TRUE]
    /\ disk \in [Inodes -> Plaintexts]
    /\ inode = [i \in Inodes |-> Len(disk[i])]
    /\ cache = [i \in Inodes |-> NoAttr]
    /\ rh = [h \in Handles |-> NoCtx]
    /\ wh = [h \in Handles |-> NoCtx]
    /\ ofr = [i \in Inodes |-> {}]
    /\ ofw = [i \in Inodes |-> NoHandle]
    /\ next = 1
    /\ owned = {}
    /\ panicked = FALSE
    /\ written = disk

-----------------------------------------------------------------------------
(* Attributes. *)

(* get_inode_from_cache_or_storage: Gone when it fails with InodeNotFound. *)
CachedAttr(i) == IF cache[i] # NoAttr THEN cache[i] ELSE inode[i]

HasWriter(i) == ofw[i] # NoHandle /\ wh[ofw[i]] # NoCtx

(* get_attr that forgets the open writer. *)
MergeNoWriter(i, size) == size

(* merge_attr without overwrite_size, for the write handle open on i. *)
MergeWriter(i, size) == IF HasWriter(i) THEN MaxOf(size, wh[ofw[i]].size) ELSE size

(* get_attr *)
AttrSize(i) == IF CachedAttr(i) = Gone THEN Gone ELSE MergeWriter(i, CachedAttr(i))

(* Reading an attribute puts it into the cache. *)
FillCache(i) == [cache EXCEPT ![i] = CachedAttr(i)]

(* write_inode_to_storage that only updates the cache. *)
WriteInodeCacheOnly(i, size) == /\ cache' = [cache EXCEPT ![i] = size]
                                /\ UNCHANGED inode

(* write_inode_to_storage *)
WriteInode(i, size) == /\ inode' = [inode EXCEPT ![i] = size]
                       /\ cache' = [cache EXCEPT ![i] = size]

GetAttr(i) ==
    /\ ~panicked
    /\ CachedAttr(i) # Gone
    /\ cache' = FillCache(i)
    /\ UNCHANGED <<store, tables, next, owned, panicked>>

(* set_attr without a size: chmod, utimens. *)
SetAttr(i) ==
    /\ ~panicked
    /\ CachedAttr(i) # Gone
    /\ WriteInode(i, AttrSize(i))
    /\ UNCHANGED <<linked, disk, written, tables, next, owned, panicked>>

(* The attribute cache expires, or evicts an entry. *)
Expire(i) ==
    /\ ~panicked
    /\ cache' = [cache EXCEPT ![i] = NoAttr]
    /\ UNCHANGED <<store, tables, next, owned, panicked>>

-----------------------------------------------------------------------------
(* Readers and writers. *)

FaultAt(f, step) == "fault" \in Env /\ f = step

(* flush_and_reset_writers that does not put a new writer into the context. *)
NewWriterMissing(c, size) == [c EXCEPT !.size = size, !.st = "taken", !.data = <<>>, !.pos = 0]

(* create_write_seek on the contents file: nothing buffered. *)
NewWriter(c, size) == [c EXCEPT !.size = size, !.st = "clean", !.data = <<>>, !.pos = 0]

(* ctx.writer.take() and then an error: the context stays without a writer. *)
Taken(c) == [NewWriter(c, c.size) EXCEPT !.st = "taken"]

(* finish that stores complete blocks only. *)
FinishedFullOnly(i, c) ==
    IF c.st = "dirty" /\ c.pos = BlockSize /\ disk[i] # Gone THEN c.data ELSE disk[i]

(* finish: the buffered block goes to the file the writer has open; that   *)
(* file is no longer reachable once it was removed.                        *)
Finished(i, c) == IF c.st = "dirty" /\ disk[i] # Gone THEN c.data ELSE disk[i]

(* A block that was overwritten in part, if it can be reached at all. *)
Torn(i) == IF disk[i] = Gone THEN Gone ELSE Damaged

MaybeTorn(i) == disk' \in {disk, [disk EXCEPT ![i] = Torn(i)]}

(* write_all fails in encrypt_and_write: at the nonce or the data with the *)
(* sealed bytes still in the dirty buffer, or at the tag with the buffer   *)
(* cleared.                                                                *)
SealFails(h) ==
    LET c == wh[h]
        i == c.ino
    IN  /\ \/ /\ MaybeTorn(i)
              /\ wh' = [wh EXCEPT ![h] = [c EXCEPT !.data = Damaged]]
           \/ /\ disk' = [disk EXCEPT ![i] = Torn(i)]
              /\ wh' = [wh EXCEPT ![h] = NewWriter(c, c.size)]
        /\ written' = [written EXCEPT ![i] = Damaged]

(* reset_handles that keeps the readers. *)
ReopenedNone(R) == rh

(* reset_handles recreates the readers in R. *)
Reopened(R) == [r \in Handles |-> IF r \in R /\ rh[r] # NoCtx
                                   THEN [rh[r] EXCEPT !.snap = <<>>, !.eof = FALSE]
                                   ELSE rh[r]]

Dangling(R) == \E r \in R : rh[r] = NoCtx

(* How far reset_handles gets with the readers R: through all of them, or   *)
(* until it fails to store the attribute or to open the contents file.     *)
Reached(R) == IF "fault" \in Env THEN SUBSET R ELSE {R}

(* The read part of reset_handles for the registered readers R of i: the   *)
(* attribute is stored again for each of them (merged with the open        *)
(* writer, so always the same size) and the reader is recreated.           *)
ResetReaders(i, R, size) ==
    \E S \in Reached(R) :
        /\ \/ (\E r \in R : rh[r] # NoCtx) /\ WriteInode(i, size)
           \/ (S = {} \/ Dangling(S)) /\ UNCHANGED <<inode, cache>>
        /\ rh' = Reopened(S)
        /\ panicked' = Dangling(S)     \* guard.get(handle).unwrap()

-----------------------------------------------------------------------------
(* open *)

NewReader(i) == [ino |-> i, snap |-> <<>>, eof |-> FALSE]

OpenRead(i) ==
    /\ ~panicked /\ next <= MaxHandle
    /\ inode[i] # Gone /\ disk[i] # Gone
    /\ rh' = [rh EXCEPT ![next] = NewReader(i)]
    /\ ofr' = [ofr EXCEPT ![i] = @ \cup {next}]
    /\ next' = next + 1
    /\ owned' = owned \cup {next}
    /\ UNCHANGED <<store, cache, wh, ofw, panicked>>

(* open for write without the AlreadyOpenForWrite check. *)
OpenWriteUnchecked(i, rd) ==
    /\ ~panicked /\ next <= MaxHandle
    /\ inode[i] # Gone /\ disk[i] # Gone
    /\ UNCHANGED <<rh, ofr, store, panicked>>
    /\ cache' = FillCache(i)
    /\ wh' = [wh EXCEPT ![next] = [ino |-> i, size |-> AttrSize(i), st |-> "clean",
                                   data |-> <<>>, pos |-> 0]]
    /\ ofw' = [ofw EXCEPT ![i] = next]
    /\ next' = next + 1
    /\ owned' = owned \cup {next}

(* open for write, or for both when rd holds: one handle in both tables. *)
OpenWrite(i, rd) ==
    /\ ~panicked /\ next <= MaxHandle
    /\ inode[i] # Gone /\ disk[i] # Gone
    /\ ofw[i] = NoHandle
    /\ IF rd THEN /\ rh' = [rh EXCEPT ![next] = NewReader(i)]
                  /\ ofr' = [ofr EXCEPT ![i] = @ \cup {next}]
             ELSE UNCHANGED <<rh, ofr>>
    /\ cache' = FillCache(i)
    /\ wh' = [wh EXCEPT ![next] = [ino |-> i, size |-> AttrSize(i), st |-> "clean",
                                   data |-> <<>>, pos |-> 0]]
    /\ ofw' = [ofw EXCEPT ![i] = next]
    /\ next' = next + 1
    /\ owned' = owned \cup {next}
    /\ UNCHANGED <<store, panicked>>

(* open for both fails with AlreadyOpenForWrite after the read handle was  *)
(* inserted.  (With write alone nothing happened yet.)                     *)
OpenAlreadyOpen(i) ==
    /\ ~panicked /\ next <= MaxHandle
    /\ inode[i] # Gone /\ disk[i] # Gone
    /\ ofw[i] # NoHandle
    /\ rh' = [rh EXCEPT ![next] = NewReader(i)]
    /\ ofr' = [ofr EXCEPT ![i] = @ \cup {next}]
    /\ next' = next + 1
    /\ UNCHANGED <<store, cache, wh, ofw, owned, panicked>>

(* open for both fails in do_with_write_handle: the handle is removed from *)
(* read_handles and stays in opened_files_for_read.                        *)
OpenFails(i) ==
    /\ ~panicked /\ next <= MaxHandle
    /\ "fault" \in Env
    /\ inode[i] # Gone /\ disk[i] # Gone
    /\ ofw[i] = NoHandle
    /\ ofr' = [ofr EXCEPT ![i] = @ \cup {next}]
    /\ cache' = FillCache(i)
    /\ next' = next + 1
    /\ UNCHANGED <<store, rh, wh, ofw, owned, panicked>>

-----------------------------------------------------------------------------
(* read, write, flush *)

(* The reader decrypts the block unless it has it; a request that goes     *)
(* past the end of the block makes it drop the block again, with its       *)
(* position still inside that block, so that it is not decrypted anew.     *)
AfterRead(c, block, pastEnd) ==
    IF c.eof \/ (c.snap = <<>> /\ block = <<>>) THEN c
    ELSE IF pastEnd THEN [c EXCEPT !.snap = <<>>, !.eof = TRUE]
    ELSE IF c.snap = <<>> THEN [c EXCEPT !.snap = block] ELSE c

Read(h, pastEnd) ==
    /\ ~panicked
    /\ h \in owned /\ rh[h] # NoCtx
    /\ inode[rh[h].ino] # Gone /\ disk[rh[h].ino] # Gone
    /\ rh' = [rh EXCEPT ![h] = AfterRead(@, disk[rh[h].ino], pastEnd)]
    /\ UNCHANGED <<store, cache, wh, ofr, ofw, next, owned, panicked>>

(* The size of the context is taken to grow with every write. *)
WrittenSizeAppends(c, off) == c.size + 1

(* ctx.attr.size after a write that ended at off + 1. *)
WrittenSize(c, off) == MaxOf(c.size, off + 1)

Put(s, off, b) == IF s = Damaged THEN Damaged ELSE PutByte(s, off, b)

(* Seeking back from the end of the block stores the block and loads it    *)
(* again; then the byte goes into the buffer.                              *)
Write(h, off, b) ==
    LET c == wh[h]
        i == c.ino
        base == IF c.st = "dirty" THEN c.data ELSE disk[i]
        size == WrittenSize(c, off)
    IN  /\ ~panicked
        /\ h \in owned /\ c # NoCtx
        /\ c.st # "taken"
        /\ inode[i] # Gone /\ disk[i] # Gone
        /\ disk' = IF c.pos = BlockSize THEN [disk EXCEPT ![i] = Finished(i, c)] ELSE disk
        /\ wh' = [wh EXCEPT ![h] =
                    IF c.st = "detached" THEN [c EXCEPT !.size = size]
                    ELSE [c EXCEPT !.size = size, !.st = "dirty",
                                   !.data = Put(base, off, b), !.pos = off + 1]]
        /\ written' = [written EXCEPT ![i] = Put(@, off, b)]
        /\ ResetReaders(i, ofr[i] \ {h}, MaxOf(CachedAttr(i), size))
        /\ UNCHANGED <<linked, ofr, ofw, next, owned>>

(* A write that seeks back from the end of the block fails when it loads   *)
(* the block it has just stored.  (Where the block was not dirty a write   *)
(* that fails has changed nothing.)                                        *)
WriteFails(h) ==
    LET c == wh[h]
        i == c.ino
    IN  /\ ~panicked
        /\ "fault" \in Env
        /\ h \in owned /\ c # NoCtx
        /\ c.st = "dirty" /\ c.pos = BlockSize
        /\ inode[i] # Gone /\ disk[i] # Gone
        /\ disk' = [disk EXCEPT ![i] = Finished(i, c)]
        /\ wh' = [wh EXCEPT ![h] = NewWriter(c, c.size)]
        /\ UNCHANGED <<linked, inode, written, cache, rh, ofr, ofw, next, owned, panicked>>

(* A write that seeks back, or a flush, fails when it stores the block.    *)
StoreFails(h) ==
    /\ ~panicked
    /\ "fault" \in Env
    /\ h \in owned /\ wh[h] # NoCtx
    /\ wh[h].st = "dirty" /\ wh[h].pos = BlockSize
    /\ SealFails(h)
    /\ UNCHANGED <<linked, inode, cache, rh, ofr, ofw, next, owned, panicked>>

(* RingCryptoWrite::flush stores the block only when its position is at    *)
(* the end of the block; opening the contents file to sync it fails when   *)
(* the file was removed, and so does the attribute when it is not there.   *)
Flush(h, f) ==
    LET c == wh[h]
        i == c.ino
        full == c.st = "dirty" /\ c.pos = BlockSize
    IN  /\ ~panicked
        /\ h \in owned /\ c # NoCtx
        /\ c.st # "taken"
        /\ disk' = IF full THEN [disk EXCEPT ![i] = Finished(i, c)] ELSE disk
        /\ wh' = IF full THEN [wh EXCEPT ![h] = NewWriter(c, c.size)] ELSE wh
        /\ IF disk[i] = Gone \/ CachedAttr(i) = Gone \/ FaultAt(f, "sync")
           THEN UNCHANGED <<inode, cache, rh, panicked>>
           ELSE ResetReaders(i, ofr[i] \ {h}, MaxOf(CachedAttr(i), c.size))
        /\ UNCHANGED <<linked, written, ofr, ofw, next, owned>>

(* write, flush, release and set_len unwrap the writer of the context. *)
WriterMissing(h) ==
    /\ ~panicked
    /\ wh[h] # NoCtx
    /\ wh[h].st = "taken"
    /\ h \in owned \/ AttrSize(wh[h].ino) # Gone
    /\ panicked' = TRUE
    /\ UNCHANGED <<store, cache, tables, next, owned>>

-----------------------------------------------------------------------------
(* release *)

(* release that leaves the handle in opened_files_for_read. *)
WithoutReaderRegistered(h) == /\ rh' = [rh EXCEPT ![h] = NoCtx]
                              /\ UNCHANGED ofr

(* The read part of release removes the handle from both tables. *)
WithoutReader(h) == /\ rh' = [rh EXCEPT ![h] = NoCtx]
                    /\ ofr' = [ofr EXCEPT ![rh[h].ino] = @ \ {h}]

(* A handle open for read alone: f is the step that fails, if any. *)
ReleaseRead(h, f) ==
    LET i == rh[h].ino
    IN  /\ ~panicked
        /\ h \in owned /\ rh[h] # NoCtx /\ wh[h] = NoCtx
        /\ WithoutReader(h)
        /\ IF CachedAttr(i) = Gone \/ FaultAt(f, "attr")
           THEN UNCHANGED <<inode, cache>>
           ELSE WriteInode(i, AttrSize(i))
        /\ owned' = owned \ {h}
        /\ UNCHANGED <<linked, disk, written, wh, ofw, next, panicked>>

(* A handle open for both: saving the attribute of the read part fails and *)
(* the write part is never reached.                                        *)
ReleaseStopsEarly(h, f) ==
    /\ ~panicked
    /\ h \in owned /\ rh[h] # NoCtx /\ wh[h] # NoCtx
    /\ CachedAttr(rh[h].ino) = Gone \/ FaultAt(f, "attr")
    /\ WithoutReader(h)
    /\ owned' = owned \ {h}
    /\ UNCHANGED <<store, cache, wh, ofw, next, panicked>>

(* The write part fails in finish, or after it when the attribute is saved:*)
(* the handle is gone from write_handles but not from opened_files_for_write. *)
ReleaseFails(h, f) ==
    LET c == wh[h]
        i == c.ino
    IN  /\ ~panicked
        /\ h \in owned /\ c # NoCtx /\ c.st # "taken"
        /\ IF rh[h] # NoCtx
           THEN CachedAttr(i) # Gone /\ WithoutReader(h) /\ WriteInode(i, AttrSize(i))
           ELSE UNCHANGED <<rh, ofr, inode, cache>>
        /\ \/ /\ FaultAt(f, "finish") /\ c.st = "dirty"
              /\ MaybeTorn(i)
              /\ written' = [written EXCEPT ![i] = Damaged]
           \/ /\ CachedAttr(i) = Gone \/ FaultAt(f, "attr")
              /\ disk' = [disk EXCEPT ![i] = Finished(i, c)]
              /\ UNCHANGED written
        /\ wh' = [wh EXCEPT ![h] = NoCtx]
        /\ owned' = owned \ {h}
        /\ UNCHANGED <<linked, ofw, next, panicked>>

(* release of a handle open for write (and read): finish, save the merged  *)
(* attribute, unregister the writer, reset the other readers (a failure    *)
(* there is reported, with all of the rest done).                          *)
ReleaseWrite(h) ==
    LET c == wh[h]
        i == c.ino
        R == ofr[i] \ {h}
    IN  /\ ~panicked
        /\ h \in owned /\ c # NoCtx /\ c.st # "taken"
        /\ CachedAttr(i) # Gone
        /\ disk' = [disk EXCEPT ![i] = Finished(i, c)]
        /\ WriteInode(i, AttrSize(i))
        /\ wh' = [wh EXCEPT ![h] = NoCtx]
        /\ ofr' = [ofr EXCEPT ![i] = R]
        /\ ofw' = [ofw EXCEPT ![i] = NoHandle]
        /\ \E S \in Reached(R) :
             /\ rh' = IF disk[i] = Gone THEN [rh EXCEPT ![h] = NoCtx]
                      ELSE [Reopened(S) EXCEPT ![h] = NoCtx]
             /\ panicked' = Dangling(S)
        /\ owned' = owned \ {h}
        /\ UNCHANGED <<linked, written, next>>

-----------------------------------------------------------------------------
(* set_len *)

SetLenNoop(i, n) ==
    /\ ~panicked
    /\ AttrSize(i) = n
    /\ cache' = FillCache(i)
    /\ UNCHANGED <<store, tables, next, owned, panicked>>

(* What a client may ask: n differs from the size of an existing file. *)
SetLenAsked(i, n) ==
    /\ ~panicked
    /\ AttrSize(i) \notin {Gone, n}
    /\ HasWriter(i) => wh[ofw[i]].st # "taken"
    /\ "shrink_open" \in Env \/ ~(n < AttrSize(i) /\ HasWriter(i) /\ ofr[i] # {})

FlushedDisk(i) == IF HasWriter(i) THEN Finished(i, wh[ofw[i]]) ELSE disk[i]

(* The bytes copied from the flushed file into its replacement. *)
Kept(i, n) == MinOf(AttrSize(i), n)

(* What copy_exact and fill_zeros make of the contents. *)
Copied(s, k, n) == IF s = Damaged /\ k > 0 THEN Damaged ELSE CopyPrefix(s, k, n)

(* What a client expects of it. *)
Resized(s, k, n) ==
    IF s = Damaged THEN (IF k = 0 THEN Resize(<<>>, n) ELSE Damaged) ELSE Resize(Resize(s, k), n)

CanCopy(i, n) ==
    \/ n = 0
    \/ /\ disk[i] # Gone
       /\ FlushedDisk(i) # Damaged => Len(FlushedDisk(i)) >= Kept(i, n)

CopyMayFail(i, n) ==
    \/ ~CanCopy(i, n)
    \/ disk[i] # Gone /\ FlushedDisk(i) = Damaged /\ Kept(i, n) > 0

(* flush_and_reset_writers, replace the contents file, store the size with *)
(* overwrite_size; then reset_handles saves the attribute once more for    *)
(* each reader, merged with the size the writer context still has, before  *)
(* it gives the writer the stored attribute.                               *)
SetLen(i, n) ==
    LET merged == IF HasWriter(i) /\ ofr[i] # {} THEN MaxOf(n, AttrSize(i)) ELSE n
    IN  /\ SetLenAsked(i, n)
        /\ HasWriter(i) => disk[i] # Gone
        /\ CanCopy(i, n)
        /\ disk' = [disk EXCEPT ![i] = Copied(FlushedDisk(i), Kept(i, n), n)]
        /\ written' = [written EXCEPT ![i] = Resized(@, Kept(i, n), n)]
        /\ WriteInode(i, merged)
        /\ wh' = IF HasWriter(i) THEN [wh EXCEPT ![ofw[i]] = NewWriter(@, merged)] ELSE wh
        /\ rh' = Reopened(ofr[i])
        /\ panicked' = Dangling(ofr[i])
        /\ UNCHANGED <<linked, ofr, ofw, next, owned>>

(* The copy fails (the contents are shorter than the size says, damaged or *)
(* removed, or the host has no space), or so does the creation of the file *)
(* for size 0: the writers were flushed and reset.                         *)
SetLenCopyFails(i, n, f) ==
    LET R == IF HasWriter(i) THEN ofr[i] \ {ofw[i]} ELSE {}
    IN  /\ SetLenAsked(i, n)
        /\ HasWriter(i) => disk[i] # Gone
        /\ FaultAt(f, "copy") \/ CopyMayFail(i, n)
        /\ disk' = [disk EXCEPT ![i] = FlushedDisk(i)]
        /\ IF HasWriter(i)
           THEN /\ WriteInode(i, AttrSize(i))
                /\ wh' = [wh EXCEPT ![ofw[i]] = NewWriter(@, AttrSize(i))]
           ELSE /\ cache' = FillCache(i)
                /\ UNCHANGED <<inode, wh>>
        /\ rh' = Reopened(R)
        /\ panicked' = Dangling(R)
        /\ UNCHANGED <<linked, written, ofr, ofw, next, owned>>

(* A reader that still has the replaced file open. *)
LeftBehind(c, old) == [AfterRead(c, old, FALSE) EXCEPT !.eof = @ \/ old = <<>>]

(* The readers of i once set_len stopped with S of them recreated: the     *)
(* others were recreated before the replacement, when the writers were     *)
(* flushed, or not at all.  (Size 0 truncates the file in place.)          *)
ReadersStopped(i, n, S) ==
    LET before == IF HasWriter(i) THEN Reopened(ofr[i] \ {ofw[i]}) ELSE rh
    IN  [r \in Handles |->
            IF rh[r] = NoCtx \/ r \notin ofr[i] THEN rh[r]
            ELSE IF r \in S THEN Reopened(S)[r]
            ELSE IF n = 0 THEN before[r] ELSE LeftBehind(before[r], FlushedDisk(i))]

(* set_len fails after it has replaced the contents file: when it stores   *)
(* the size, or in reset_handles before it comes to the writer, which goes *)
(* on writing to the replaced file.                                        *)
SetLenStops(i, n, f) ==
    /\ SetLenAsked(i, n)
    /\ HasWriter(i) => disk[i] # Gone
    /\ CanCopy(i, n)
    /\ disk' = [disk EXCEPT ![i] = Copied(FlushedDisk(i), Kept(i, n), n)]
    /\ written' = [written EXCEPT ![i] = IF HasWriter(i) /\ n # 0 THEN Damaged
                                         ELSE Resized(@, Kept(i, n), n)]
    /\ wh' = IF ~HasWriter(i) THEN wh
             ELSE [wh EXCEPT ![ofw[i]] = [NewWriter(@, AttrSize(i)) EXCEPT
                                            !.st = IF n = 0 THEN "clean" ELSE "detached"]]
    /\ \/ /\ FaultAt(f, "attr")
          /\ IF HasWriter(i) THEN WriteInode(i, AttrSize(i))
             ELSE cache' = FillCache(i) /\ UNCHANGED inode
          /\ rh' = ReadersStopped(i, n, {})
       \/ /\ FaultAt(f, "reset")
          /\ \E S \in SUBSET ofr[i] :
               /\ S # ofr[i] /\ ~Dangling(S)
               /\ \/ WriteInode(i, IF HasWriter(i) THEN MaxOf(n, AttrSize(i)) ELSE n)
                  \/ S = {} /\ WriteInode(i, n)
               /\ rh' = ReadersStopped(i, n, S)
    /\ UNCHANGED <<linked, ofr, ofw, next, owned, panicked>>

(* flush_and_reset_writers fails after it has taken the writer: in finish, *)
(* when it syncs or saves the attribute, or when it opens the contents     *)
(* file again, for a reader or for the writer.                             *)
SetLenLosesWriter(i, n, f) ==
    /\ SetLenAsked(i, n)
    /\ HasWriter(i)
    /\ \/ /\ FaultAt(f, "finish") /\ wh[ofw[i]].st = "dirty"
          /\ MaybeTorn(i)
          /\ written' = [written EXCEPT ![i] = Damaged]
          /\ cache' = FillCache(i)
          /\ UNCHANGED <<inode, rh, panicked>>
       \/ /\ FaultAt(f, "attr")
          /\ disk' = [disk EXCEPT ![i] = FlushedDisk(i)]
          /\ cache' = FillCache(i)
          /\ UNCHANGED <<inode, rh, panicked, written>>
       \/ /\ disk[i] = Gone \/ FaultAt(f, "reset")
          /\ disk' = [disk EXCEPT ![i] = FlushedDisk(i)]
          /\ WriteInode(i, AttrSize(i))
          /\ \E S \in SUBSET (ofr[i] \ {ofw[i]}) :
               /\ disk[i] = Gone => \A r \in S : rh[r] = NoCtx
               /\ rh' = Reopened(S)
               /\ panicked' = Dangling(S)
          /\ UNCHANGED written
    /\ wh' = [wh EXCEPT ![ofw[i]] = Taken(@)]
    /\ UNCHANGED <<linked, ofr, ofw, next, owned>>

-----------------------------------------------------------------------------
(* remove_file of the name of i: "remove from cache" only demotes the      *)
(* entry, which find_by_name has put there.                                *)
RemoveFile(i) ==
    /\ ~panicked
    /\ linked[i] /\ inode[i] # Gone /\ disk[i] # Gone
    /\ "unlink_open" \in Env \/ (ofr[i] = {} /\ ofw[i] = NoHandle)
    /\ linked' = [linked EXCEPT ![i] = FALSE]
    /\ inode' = [inode EXCEPT ![i] = Gone]
    /\ disk' = [disk EXCEPT ![i] = Gone]
    /\ cache' = FillCache(i)
    /\ UNCHANGED <<tables, next, owned, panicked, written>>

(* The process stops at any point between two calls and is mounted again.  *)
Crash ==
    /\ "crash" \in Env
    /\ cache' = [i \in Inodes |-> NoAttr]
    /\ rh' = [h \in Handles |-> NoCtx]
    /\ wh' = [h \in Handles |-> NoCtx]
    /\ ofr' = [i \in Inodes |-> {}]
    /\ ofw' = [i \in Inodes |-> NoHandle]
    /\ next' = 1
    /\ owned' = {}
    /\ panicked' = FALSE
    /\ written' = [i \in Inodes |-> IF disk[i] = Gone THEN <<>> ELSE disk[i]]
    /\ UNCHANGED <<linked, inode, disk>>

InodeStep(i) ==
    \/ GetAttr(i)
    \/ SetAttr(i)
    \/ Expire(i)
    \/ OpenRead(i)
    \/ \E rd \in BOOLEAN : OpenWrite(i, rd)
    \/ OpenAlreadyOpen(i)
    \/ OpenFails(i)
    \/ RemoveFile(i)
    \/ \E n \in 0..BlockSize :
        \/ SetLenNoop(i, n)
        \/ SetLen(i, n)
        \/ \E f \in {"none", "copy"} : SetLenCopyFails(i, n, f)
        \/ \E f \in {"none", "finish", "attr", "reset"} : SetLenLosesWriter(i, n, f)
        \/ \E f \in {"attr", "reset"} : SetLenStops(i, n, f)

HandleStep(h) ==
    \/ \E pastEnd \in BOOLEAN : Read(h, pastEnd)
    \/ \E off \in 0..(BlockSize - 1), b \in Bytes : Write(h, off, b)
    \/ WriteFails(h)
    \/ StoreFails(h)
    \/ \E f \in {"none", "sync"} : Flush(h, f)
    \/ WriterMissing(h)
    \/ ReleaseWrite(h)
    \/ \E f \in {"none", "attr"} : ReleaseRead(h, f) \/ ReleaseStopsEarly(h, f)
    \/ \E f \in {"none", "finish", "attr"} : ReleaseFails(h, f)

Next == \/ \E i \in Inodes : InodeStep(i)
        \/ \E h \in Handles : HandleStep(h)
        \/ Crash

Spec == Init /\ [][Next]_vars

-----------------------------------------------------------------------------
(* The logical contents of file i: the writer's buffer over the contents   *)
(* file.  A read through another handle serves the contents file alone.    *)
View(i) == IF HasWriter(i) /\ wh[ofw[i]].st = "dirty" THEN wh[ofw[i]].data ELSE disk[i]

(* Every open handle is registered under its inode: reset_handles, get_attr*)
(* and set_len reach all readers and the one writer of a file.             *)
Registered ==
    \A h \in Handles :
        /\ rh[h] # NoCtx => h \in ofr[rh[h].ino]
        /\ wh[h] # NoCtx => ofw[wh[h].ino] = h

(* No registration outlives its handle: a released file can be opened for  *)
(* write again, and reset_handles finds every reader it looks up.          *)
NoStaleRegistration ==
    \A i \in Inodes :
        /\ \A h \in ofr[i] : rh[h] # NoCtx /\ rh[h].ino = i
        /\ ofw[i] # NoHandle => wh[ofw[i]] # NoCtx /\ wh[ofw[i]].ino = i

(* None of the unwrap and expect calls on handles and writers fails. *)
NoPanic == ~panicked

(* A reader other than the read side of the writing handle never serves a  *)
(* block that differs from the contents file.                              *)
ReadersFresh ==
    \A h \in Handles :
        rh[h] # NoCtx /\ rh[h].snap # <<>> /\ wh[h] = NoCtx => rh[h].snap = disk[rh[h].ino]

(* The bytes and the size of the files as the abstract specification has them. *)
Plain == INSTANCE PlainFile WITH
            content <- [i \in Inodes |-> IF linked[i] THEN View(i) ELSE Gone],
            size <- [i \in Inodes |-> IF linked[i] THEN AttrSize(i) ELSE Gone],
            MaxLen <- BlockSize

(* The files behave as plain files: flush, release, resets, cache expiry   *)
(* and failed opens change neither the bytes nor the size a user sees.     *)
PlainFiles == Plain!Spec

(* A release that succeeds makes everything durable that the calls which   *)
(* succeeded have written to the file, through this handle and the ones    *)
(* before it, unless storing a block of it has failed meanwhile: the       *)
(* contents file holds those bytes and the stored size covers them.        *)
ReleaseDurable ==
    [][\A h \in Handles :
         ReleaseWrite(h) /\ linked[wh[h].ino] /\ written[wh[h].ino] # Damaged =>
            LET i == wh[h].ino IN disk'[i] = written[i] /\ inode'[i] >= wh[h].size]_vars

(* A crash costs nothing to the files that are not open for write. *)
CrashSafeWhenClosed ==
    [][Crash => \A i \in Inodes :
         linked[i] /\ ~HasWriter(i) => AttrSize(i)' = AttrSize(i) /\ View(i)' = View(i)]_vars

-----------------------------------------------------------------------------
(* A statement of the documentation that the code does not keep. *)

(* encryptedfs.rs, set_len: "Truncates or extends the underlying file,     *)
(* updating the size of this file to become size."                         *)
SetLenExact ==
    [][\A i \in Inodes, n \in 0..BlockSize : SetLen(i, n) => AttrSize(i)' = n]_vars
=============================================================================
