------------------------------ MODULE ByteSeq ------------------------------
(* File contents as sequences of bytes.  Position 0 of a file is index 1.  *)
EXTENDS Naturals, Sequences

MaxOf(a, b) == IF a >= b THEN a ELSE b
MinOf(a, b) == IF a <= b THEN a ELSE b

(* The first k bytes of s and then zeros, n bytes in all (k <= Len(s)). *)
CopyPrefix(s, k, n) == [j \in 1..n |-> IF j <= k THEN s[j] ELSE 0]

(* s cut or zero-extended to n bytes. *)
Resize(s, n) == CopyPrefix(s, Len(s), n)

(* s with byte b stored at offset off; a gap before off reads as zeros. *)
PutByte(s, off, b) ==
    [j \in 1..MaxOf(Len(s), off + 1) |->
        IF j = off + 1 THEN b ELSE IF j <= Len(s) THEN s[j] ELSE 0]
=============================================================================
