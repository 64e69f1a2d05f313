---------------------------- MODULE CryptoReader ---------------------------
(***************************************************************************)
(* RingCryptoRead with seek (src/crypto/read.rs) over its BufMut and its   *)
(* file, driven as EncryptedFs::read drives it: seek to the offset, ask    *)
(* for the position, and read until the request is filled or the file      *)
(* ends.  A reader lives as long as its file does not change: reset_handles*)
(* replaces it after every write.                                          *)
(*                                                                         *)
(* What is read does not depend on byte values, so that a byte of the file *)
(* is its own position.                                                    *)
(***************************************************************************)
EXTENDS BlockStore

VARIABLES
    r,     \* the reader and its file
    got    \* the last read: offset, requested length and bytes

vars == <<r, got>>

(* file and its cursor (in blocks); block_index, which is one more than    *)
(* the block in the buffer; the plaintext in the buffer and the read       *)
(* position in it (pos_read without the nonce, 0 when the buffer is clear).*)
Readers == [file : Seq(Seq(Nat)), cur : Nat, block_index : Nat, buf : Seq(Nat), pos_read : Nat]

Text(n) == [k \in 1..n |-> k]

(* RingCryptoRead::new_seek *)
NewReader(file) == [file |-> file, cur |-> 0, block_index |-> 0, buf |-> <<>>, pos_read |-> 0]

(* pos that takes block_index for the block in the buffer. *)
ReadPosOffByOne(x) == x.block_index * B + x.pos_read

ReadPos(x) == (IF x.block_index = 0 THEN 0 ELSE x.block_index - 1) * B + x.pos_read

(* get_plaintext_len: counts an overhead for every complete block and for  *)
(* one more.                                                               *)
PlaintextLen(file) ==
    LET ciphertext == Len(Plain(file)) + Overhead * Len(file)
    IN  IF ciphertext = 0 THEN 0
        ELSE ciphertext - (ciphertext \div (B + Overhead) + 1) * Overhead

(* decrypt_block!: the buffer is cleared first, and stays so at the end of *)
(* the file, while block_index keeps its value.                            *)
ReadBlock(x) ==
    IF x.cur >= Len(x.file) THEN [x EXCEPT !.buf = <<>>, !.pos_read = 0]
    ELSE [x EXCEPT !.buf = x.file[x.cur + 1], !.pos_read = 0,
                   !.cur = @ + 1, !.block_index = @ + 1]

(* BufMut::available_read is not 0. *)
HasUnread(x) == x.pos_read < Len(x.buf)

(* One byte of read: from the buffer, else from the next block. *)
ReadByte(s) ==
    LET x == IF HasUnread(s.x) THEN s.x ELSE ReadBlock(s.x)
    IN  IF ~HasUnread(x) THEN [s EXCEPT !.x = x]
        ELSE [x |-> [x EXCEPT !.pos_read = @ + 1],
              out |-> Append(s.out, x.buf[x.pos_read + 1])]

(* stream_util::read and seek_forward: read until n bytes or the end. *)
ReadBytes(x, n) ==
    LET s[k \in 0..n] == IF k = 0 THEN [x |-> x, out |-> <<>>] ELSE ReadByte(s[k - 1])
    IN  s[n]

SeekForward(x, n) == ReadBytes(x, n).x

(* seek inside the block of the position. *)
ReadSeekSameBlock(x, n) ==
    LET atFullBlockEnd == ReadPos(x) % B = 0 /\ ~HasUnread(x)
    IN  IF x.buf # <<>> /\ ~atFullBlockEnd
        THEN [x EXCEPT !.pos_read = n % B]
        ELSE SeekForward(x, n % B)

(* seek to another block that does not move the file. *)
ReadSeekOtherBlockUnmoved(x, n) ==
    LET y == [x EXCEPT !.block_index = n \div B, !.buf = <<>>, !.pos_read = 0]
    IN  SeekForward(IF n % B = 0 THEN ReadBlock(y) ELSE y, n % B)

(* seek to another block; at its start it is decrypted at once. *)
ReadSeekOtherBlock(x, n) ==
    LET y == [x EXCEPT !.cur = n \div B, !.block_index = n \div B,
                       !.buf = <<>>, !.pos_read = 0]
    IN  SeekForward(IF n % B = 0 THEN ReadBlock(y) ELSE y, n % B)

(* seek to offset n from the start, kept within what the reader takes for  *)
(* the length.                                                             *)
ReadSeek(x, offset) ==
    LET n == MinOf(offset, PlaintextLen(x.file))
    IN  IF n = ReadPos(x) THEN x
        ELSE IF n \div B = ReadPos(x) \div B
             THEN ReadSeekSameBlock(x, n)
             ELSE ReadSeekOtherBlock(x, n)

(* EncryptedFs::read that does not check where seek ended. *)
ReadAtUnchecked(offset, n) ==
    LET x == ReadSeek(r, offset)
    IN  /\ r' = ReadBytes(x, n).x
        /\ got' = [offset |-> offset, len |-> n, out |-> ReadBytes(x, n).out]

(* EncryptedFs::read; stream_position is a seek by 0. *)
ReadAt(offset, n) ==
    LET x == ReadSeek(r, offset)
        y == ReadSeek(x, ReadPos(x))
    IN  IF ReadPos(y) # offset
        THEN /\ r' = y
             /\ got' = [offset |-> offset, len |-> n, out |-> <<>>]
        ELSE /\ r' = ReadBytes(y, n).x
             /\ got' = [offset |-> offset, len |-> n, out |-> ReadBytes(y, n).out]

(* A reader on a file of any length. *)
ReaderInit ==
    /\ r \in {NewReader(Split(Text(n))) : n \in 0..MaxLen}
    /\ got = [offset |-> 0, len |-> 0, out |-> <<>>]

ReaderNext == \E offset \in 0..MaxLen, n \in 1..MaxLen : ReadAt(offset, n)

ReaderSpec == ReaderInit /\ [][ReaderNext]_vars

-----------------------------------------------------------------------------
Size(x) == Len(Plain(x.file))

(* What a read must return. *)
Wanted(g) == SubSeq(Text(Size(r)), g.offset + 1, MinOf(g.offset + g.len, Size(r)))

(* Whatever was read before, a read returns bytes of the file from its     *)
(* offset on, never others and never out of order.                         *)
ReadSound == IsPrefix(got.out, Wanted(got))

(* The buffer is the block that the position points into, and the read     *)
(* position stays in it.                                                   *)
BufferMatches ==
    /\ r \in Readers /\ r.pos_read <= Len(r.buf)
    /\ r.buf # <<>> => r.block_index = r.cur /\ r.buf = r.file[r.block_index]

(* The reader has run into the end of the file. *)
Drained(x) == x.block_index > 0 /\ x.buf = <<>>

(* EncryptedFs::read returns all that was asked for, with two exceptions   *)
(* that the code has: a reader that ran into the end of the file, whose    *)
(* position is lost, and a file that ends with a complete block, whose     *)
(* length get_plaintext_len counts too short.                              *)
ReadComplete ==
    [][~Drained(r) /\ Size(r) % B # 0 => got'.out = Wanted(got')]_vars
=============================================================================
