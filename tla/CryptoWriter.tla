---------------------------- MODULE CryptoWriter ---------------------------
(***************************************************************************)
(* RingCryptoWriteSeek (src/crypto/write.rs) over its BufMut and its file, *)
(* driven as EncryptedFs drives it: write is a seek and one write, flush   *)
(* passes through, release and set_len finish the writer and a new one is  *)
(* created on the same file.                                               *)
(*                                                                         *)
(* The methods are functions from writer states to writer states, since    *)
(* one call of write runs several of them.  A write of n bytes behaves as  *)
(* n writes of one byte (it stops at the end of the block), so that one    *)
(* byte is written at a time.                                              *)
(***************************************************************************)
EXTENDS BlockStore

CONSTANTS
    Bytes,
    Use   \* calls beyond the usual ones, see Uses

Uses == {"flush_inside"}  \* flush at the end of a block that is not the last

ASSUME CryptoWriterAssumption ==
    Bytes \subseteq Nat /\ 0 \in Bytes /\ Use \subseteq Uses

VARIABLES
    w   \* the writer and its file

(* file, and its cursor (in blocks); block_index; the BufMut: its bytes up *)
(* to available, pos_write and dirty; failed after an Err.                 *)
Writers == [file : Seq(Seq(Bytes) \cup {Torn}), cur : Nat, block_index : Nat,
            buf : Seq(Bytes), pos_write : 0..B, dirty : BOOLEAN, failed : BOOLEAN]

(* RingCryptoWriteSeek::new *)
New(file) == [file |-> file, cur |-> 0, block_index |-> 0, buf |-> <<>>, pos_write |-> 0,
              dirty |-> FALSE, failed |-> FALSE]

Fail(x) == [x EXCEPT !.failed = TRUE]

Pos(x) == x.block_index * B + x.pos_write

(* Storing a block over what the file has at the cursor. *)
Overlay(x) ==
    LET old == IF x.cur < Len(x.file) THEN x.file[x.cur + 1] ELSE <<>>
    IN  IF x.cur # x.block_index \/ (Len(x.buf) < B /\ (old = Torn \/ Len(old) > Len(x.buf)))
        THEN Torn ELSE x.buf

(* encrypt_and_write that keeps the buffer. *)
EncryptAndWriteUncleared(x) ==
    [x EXCEPT !.file = [k \in 1..MaxOf(Len(@), x.cur + 1) |->
                            IF k = x.cur + 1 THEN Overlay(x) ELSE @[k]],
              !.cur = @ + 1, !.block_index = @ + 1, !.dirty = FALSE]

(* encrypt_and_write stores the buffer at the cursor and clears it. *)
EncryptAndWrite(x) ==
    [x EXCEPT !.file = [k \in 1..MaxOf(Len(@), x.cur + 1) |->
                            IF k = x.cur + 1 THEN Overlay(x) ELSE @[k]],
              !.cur = @ + 1, !.block_index = @ + 1,
              !.buf = <<>>, !.pos_write = 0, !.dirty = FALSE]

(* decrypt_block: at the end of the file nothing changes, the buffer       *)
(* included; otherwise the block becomes the buffer and the file is        *)
(* positioned at that block again.                                         *)
DecryptBlock(x) ==
    IF x.cur >= Len(x.file) THEN x
    ELSE IF x.file[x.cur + 1] = Torn \/ x.cur # x.block_index THEN Fail(x)
    ELSE [x EXCEPT !.buf = x.file[x.cur + 1], !.pos_write = 0, !.dirty = FALSE,
                   !.cur = x.block_index]

Flushed(x) == IF x.dirty THEN EncryptAndWrite(x) ELSE x

(* RingCryptoWrite::flush stores complete blocks only. *)
FlushInner(x) == IF x.dirty /\ x.pos_write = B THEN EncryptAndWrite(x) ELSE x

(* RingCryptoWrite::write and BufMut::write of one byte; write_all fails   *)
(* when the buffer has no room left.                                       *)
WriteInner(x, b) ==
    LET y == FlushInner(x)
    IN  IF y.failed \/ y.pos_write = B THEN Fail(y)
        ELSE [y EXCEPT !.buf = PutByte(@, y.pos_write, b), !.pos_write = @ + 1, !.dirty = TRUE]

(* stream_util::fill_zeros *)
FillZeros(x, n) ==
    LET y[k \in 0..n] == IF k = 0 THEN x ELSE WriteInner(y[k - 1], 0) IN y[n]

(* BufMut::seek_write within the bytes available. *)
SeekBuf(x, off) == [x EXCEPT !.pos_write = MinOf(off, Len(x.buf))]

(* The first block is loaded by the first call that needs it. *)
Untouched(x) == Pos(x) = 0 /\ x.buf = <<>>
LoadFirst(x) == IF Untouched(x) THEN DecryptBlock([x EXCEPT !.cur = 0, !.block_index = 0]) ELSE x

(* seek within the block of the position, which at a full block's end is   *)
(* the next one.                                                           *)
SeekSameBlock(x, n) ==
    LET y == LoadFirst(x)
        atFullBlockEnd == Pos(y) % B = 0 /\ y.pos_write = Len(y.buf)
        z == IF y.buf = <<>> \/ atFullBlockEnd THEN DecryptBlock(Flushed(y)) ELSE y
    IN  SeekBuf(z, n % B)

(* seek to another block, or to the last one of the file. *)
SeekOtherBlock(x, n) ==
    LET y == Flushed(x)
        target == MinOf(n \div B, FullBlocks(y.file))
        z == DecryptBlock([y EXCEPT !.cur = target, !.block_index = target])
    IN  IF z.block_index = n \div B THEN SeekBuf(z, n % B) ELSE SeekBuf(z, Len(z.buf))

(* seek to offset n from the start; a gap is filled with zeros. *)
SeekTo(x, n) ==
    LET y == IF Pos(x) \div B = n \div B THEN SeekSameBlock(x, n) ELSE SeekOtherBlock(x, n)
    IN  IF n = Pos(x) THEN x
        ELSE IF ~y.failed /\ Pos(y) < n THEN FillZeros(y, n - Pos(y)) ELSE y

(* write that does not load the block after a full one. *)
WriteByteUnloaded(x, b) ==
    IF Untouched(x) THEN WriteInner(LoadFirst(x), b) ELSE WriteInner(FlushInner(x), b)

(* RingCryptoWriteSeek::write: at the end of a dirty block the block is    *)
(* stored and the next one loaded, if there is one.                        *)
WriteByte(x, b) ==
    LET f == FlushInner(x)
        y == IF Untouched(x) THEN LoadFirst(x)
             ELSE IF x.dirty /\ x.pos_write = B
                  THEN IF Len(f.file) > Pos(f) \div B THEN DecryptBlock(f) ELSE f
             ELSE x
    IN  IF y.failed THEN y ELSE WriteInner(y, b)

-----------------------------------------------------------------------------
Contents == UNION {[1..n -> Bytes] : n \in 0..MaxLen}

Init == w \in {New(Split(s)) : s \in Contents}

(* EncryptedFs::write *)
WriteAt(off, b) ==
    /\ ~w.failed
    /\ w' = LET x == SeekTo(w, off) IN IF x.failed THEN x ELSE WriteByte(x, b)

(* EncryptedFs::flush *)
Flush ==
    /\ ~w.failed
    /\ w.dirty
    /\ w.pos_write = B /\ w.cur + 1 < Len(w.file) => "flush_inside" \in Use
    /\ w' = FlushInner(w)

(* finish that stores complete blocks only. *)
FinishFullOnly ==
    /\ ~w.failed
    /\ w' = New(FlushInner(w).file)

(* finish, and a new writer on the file it returns. *)
Finish ==
    /\ ~w.failed
    /\ w' = New(Flushed(w).file)

(* The file with the dirty block in the place it will be stored at. *)
View(x) == Plain(IF x.dirty THEN EncryptAndWrite(x).file ELSE x.file)

(* A seek beyond the end extends the file; EncryptedFs::write stops after  *)
(* it when the cipher allows no byte there.  Seeks back into the file only *)
(* happen as part of a write.                                              *)
Seek(n) ==
    /\ ~w.failed
    /\ n > Len(View(w))
    /\ w' = SeekTo(w, n)

Next == \/ \E off \in 0..(MaxLen - 1), b \in Bytes : WriteAt(off, b)
        \/ Flush
        \/ Finish
        \/ \E n \in 0..MaxLen : Seek(n)

Spec == Init /\ [][Next]_w

-----------------------------------------------------------------------------
(* No call fails, and every stored block decrypts: blocks are only stored  *)
(* whole over what they replace, at the place of their index, and all but  *)
(* the last one are complete.  The buffer never outgrows a block, and the  *)
(* write position stays in it.                                             *)
BlocksReadable ==
    /\ w \in Writers /\ Len(w.buf) <= B /\ w.pos_write <= Len(w.buf)
    /\ ~w.failed
    /\ \A k \in 1..Len(w.file) : w.file[k] # Torn /\ (k < Len(w.file) => Full(w.file[k]))

(* A dirty buffer holds the whole block it came from: storing it drops no  *)
(* byte that was in the file behind it.                                    *)
NothingBehindDirty ==
    w.dirty => /\ w.cur = w.block_index
               /\ w.cur < Len(w.file) => Len(w.buf) >= Len(w.file[w.cur + 1])

Sequence == INSTANCE SeekableFile WITH content <- View(w)

(* Whatever is buffered, stored, reloaded or finished, the calls of write, *)
(* flush and finish add up to writes on one plain sequence of bytes.       *)
ActsAsFile == Sequence!Spec

-----------------------------------------------------------------------------
(* write.rs, write: "try to decrypt the next block if we have any" (and    *)
(* encryptedfs.rs, write: "Writes the contents of `buf` to the file at     *)
(* `ino` starting at `offset`"): a write changes no byte at other offsets. *)
NextBlockKept ==
    [][\A off \in 0..(MaxLen - 1), b \in Bytes :
         WriteAt(off, b) /\ off < Len(View(w)) => View(w') = PutByte(View(w), off, b)]_w
=============================================================================
