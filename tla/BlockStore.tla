---------------------------- MODULE BlockStore -----------------------------
(***************************************************************************)
(* The encrypted contents file as the readers and writers of src/crypto    *)
(* see it: a sequence of blocks, each encrypted with its index as          *)
(* associated data.  A block is its plaintext; Torn stands for a block     *)
(* that no longer decrypts, because a shorter block was stored over a      *)
(* longer one or a block was stored at the place of another.  Ciphertext   *)
(* positions are counted in blocks: block k starts at k times the          *)
(* ciphertext block size.                                                  *)
(***************************************************************************)
EXTENDS ByteSeq, SequencesExt

CONSTANTS
    B,         \* BLOCK_SIZE, the plaintext block size
    Overhead,  \* ciphertext_block_size - plaintext_block_size (nonce and tag)
    Torn,
    MaxLen     \* bound: plaintext length, and length of a read

ASSUME BlockStoreAssumption == B \in Nat \ {0} /\ Torn \notin Nat \cup Seq(Nat)

(* ring: 12 bytes of nonce and 16 of tag against blocks of 16 KB. *)
ASSUME SizesAssumption == Overhead \in 1..B /\ MaxLen \in Nat

(* BLOCK_SIZE plaintext bytes per block, the rest in the last one. *)
Split(s) == [k \in 1..((Len(s) + B - 1) \div B) |->
                SubSeq(s, (k - 1) * B + 1, MinOf(k * B, Len(s)))]

Full(block) == block = Torn \/ Len(block) = B

(* stream_len / ciphertext_block_size: the number of complete blocks. *)
FullBlocks(file) == IF file # <<>> /\ ~Full(Last(file)) THEN Len(file) - 1 ELSE Len(file)

(* Bytes up to the last one of the last block; a torn one counts as a byte. *)
PlainLen(file) ==
    IF file = <<>> THEN 0
    ELSE (Len(file) - 1) * B + (IF Last(file) = Torn THEN 1 ELSE Len(Last(file)))

(* The plaintext of the file: byte j is in block j \div B, counted from 0. *)
(* Torn marks the bytes that a block does not have.                        *)
Plain(file) ==
    [j \in 1..PlainLen(file) |->
        LET block == file[((j - 1) \div B) + 1]
            k == ((j - 1) % B) + 1
        IN  IF block = Torn \/ k > Len(block) THEN Torn ELSE block[k]]
=============================================================================
