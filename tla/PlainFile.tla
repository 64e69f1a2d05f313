----------------------------- MODULE PlainFile -----------------------------
(***************************************************************************)
(* What a user of the file system expects of regular files: a file is a    *)
(* sequence of bytes that only write, truncate and unlink change, and its  *)
(* size as reported by stat is the length of that sequence.                *)
(***************************************************************************)
EXTENDS ByteSeq

CONSTANTS Inodes, Bytes, MaxLen, Gone

VARIABLES content,  \* content[i]: the bytes of file i, or Gone
          size      \* size[i]: what stat reports for i, or Gone

vars == <<content, size>>

Init == /\ content \in [Inodes -> UNION {[1..n -> Bytes] : n \in 0..MaxLen}]
        /\ size = [i \in Inodes |-> Len(content[i])]

Becomes(i, s) == /\ content' = [content EXCEPT ![i] = s]
                 /\ size' = [size EXCEPT ![i] = Len(s)]

Write(i, off, b) == content[i] # Gone /\ Becomes(i, PutByte(content[i], off, b))

Truncate(i, n) == content[i] # Gone /\ Becomes(i, Resize(content[i], n))

Unlink(i) == /\ content[i] # Gone
             /\ content' = [content EXCEPT ![i] = Gone]
             /\ size' = [size EXCEPT ![i] = Gone]

Next == \E i \in Inodes :
            \/ \E off \in 0..(MaxLen - 1), b \in Bytes : Write(i, off, b)
            \/ \E n \in 0..MaxLen : Truncate(i, n)
            \/ Unlink(i)

Spec == Init /\ [][Next]_vars
=============================================================================
