--------------------------- MODULE SeekableFile ----------------------------
(***************************************************************************)
(* What RingCryptoWriteSeek promises: behind the encryption there is one   *)
(* sequence of bytes; a write replaces the byte at its offset, a gap       *)
(* before it reads as zeros, and nothing else ever changes.                *)
(***************************************************************************)
EXTENDS ByteSeq

CONSTANTS Bytes, MaxLen

VARIABLE content

Init == content \in UNION {[1..n -> Bytes] : n \in 0..MaxLen}

Write(off, b) == content' = PutByte(content, off, b)

Extend(n) == n > Len(content) /\ content' = Resize(content, n)

Next == \/ \E off \in 0..(MaxLen - 1), b \in Bytes : Write(off, b)
        \/ \E n \in 0..MaxLen : Extend(n)

Spec == Init /\ [][Next]_content
=============================================================================
