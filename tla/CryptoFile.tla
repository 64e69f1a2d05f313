---------------------------- MODULE CryptoFile -----------------------------
(***************************************************************************)
(* A contents file between its writer and its readers.  The writer of      *)
(* CryptoWriter changes the file; a reader of CryptoReader is opened on    *)
(* what the writer left, and the next write replaces it, as reset_handles  *)
(* does.  A reader depends on the stored blocks alone, so that reads are   *)
(* taken only while the writer has nothing in its buffer.                  *)
(***************************************************************************)
EXTENDS CryptoWriter, CryptoReader

CONSTANT
    BytesRead   \* bound: readers are opened on files of these bytes

(* What is read does not depend on the values of bytes. *)
ASSUME CryptoFileAssumption == BytesRead \subseteq Bytes

(* The blocks of a file with every byte replaced by its position. *)
Positions(file) ==
    [k \in 1..Len(file) |-> [j \in 1..Len(file[k]) |-> (k - 1) * B + j]]

NoReader == NewReader(<<>>)
NothingRead == [offset |-> 0, len |-> 0, out |-> <<>>]

FileInit == Init /\ r = NoReader /\ got = NothingRead

WriteSide == Next /\ r' = NoReader /\ got' = NothingRead

(* A reader on the file that the last finish, or the mount, has left. *)
OpenReader ==
    /\ w = New(w.file)
    /\ \A k \in 1..Len(w.file) : w.file[k] # Torn /\ Range(w.file[k]) \subseteq BytesRead
    /\ r' = NewReader(Positions(w.file))
    /\ UNCHANGED <<w, got>>

ReadSide == w = New(w.file) /\ ReaderNext /\ UNCHANGED w

FileNext == WriteSide \/ OpenReader \/ ReadSide

FileSpec == FileInit /\ [][FileNext]_<<w, r, got>>

=============================================================================
