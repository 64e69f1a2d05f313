------------------------ MODULE CryptoWriterProofs -------------------------
(***************************************************************************)
(* Proofs about CryptoWriter, for any block size, bytes and lengths, as    *)
(* long as flush is not called at the end of a block inside the file: the  *)
(* writer never fails, every stored block decrypts, and writing through    *)
(* the buffer amounts to writing to one plain sequence of bytes.           *)
(***************************************************************************)
EXTENDS CryptoWriter, WellFoundedInduction, TLAPS

-----------------------------------------------------------------------------
(* Numbers.                                                                *)

(* A set of natural numbers that is not empty has a least element. *)
LEMMA NatLeast ==
    ASSUME NEW T, T \subseteq Nat, T # {}
    PROVE  \E m \in T : \A k \in T : m <= k
<1> DEFINE R == OpToRel(<, Nat)
<1>1. IsWellFoundedOn(R, Nat)
  BY NatLessThanWellFounded
<1>2. \A k, m \in Nat : k < m => <<k, m>> \in R
  BY DEF OpToRel
<1> HIDE DEF R
<1>3. PICK m \in T : \A k \in T : <<k, m>> \notin R
  BY <1>1, WFMin
<1>4. ASSUME NEW k \in T PROVE m <= k
  <2>1. k \in Nat /\ m \in Nat /\ <<k, m>> \notin R
    BY <1>3
  <2>2. ~(k < m)
    BY <2>1, <1>2
  <2> QED
    BY <2>1, <2>2
<1> QED
  BY <1>4

(* Every number is so many blocks and a rest. *)
LEMMA DivRange ==
    ASSUME NEW n \in Nat
    PROVE  /\ n \div B \in Nat /\ n % B \in 0..(B - 1) /\ n = (n \div B) * B + (n % B)
           /\ (n \div B) * B \in Nat /\ n % B \in Nat /\ n % B < B
<1>1. n \div B \in Nat /\ n % B \in 0..(B - 1) /\ n = (n \div B) * B + (n % B)
  BY BlockStoreAssumption
<1> DEFINE d == n \div B
           m == n % B
<1> HIDE DEF d, m
<1>2. d \in Nat /\ m \in 0..(B - 1)
  BY <1>1 DEF d, m
<1>3. d * B \in Nat /\ m \in Nat /\ m < B
  BY <1>2, BlockStoreAssumption
<1> QED
  BY <1>1, <1>3 DEF d, m

LEMMA DivIs ==
    ASSUME NEW q \in Nat, NEW m \in Nat, m < B
    PROVE  (q * B + m) \div B = q /\ (q * B + m) % B = m
BY BlockStoreAssumption

LEMMA MulMono ==
    ASSUME NEW a \in Nat, NEW b \in Nat, a <= b
    PROVE  a * B \in Nat /\ b * B \in Nat /\ a * B <= b * B
BY BlockStoreAssumption

LEMMA MulStrict ==
    ASSUME NEW a \in Nat, NEW b \in Nat, a < b
    PROVE  a * B \in Nat /\ b * B \in Nat /\ a * B + B <= b * B
BY BlockStoreAssumption

-----------------------------------------------------------------------------
(* Sequences.                                                              *)

LEMMA FcnIsSeq ==
    ASSUME NEW S, NEW n \in Nat, NEW f \in [1..n -> S]
    PROVE  f \in Seq(S) /\ Len(f) = n
OBVIOUS

LEMMA SeqElem ==
    ASSUME NEW S, NEW s \in Seq(S)
    PROVE  Len(s) \in Nat /\ (\A k \in 1..Len(s) : s[k] \in S) /\ s \in [1..Len(s) -> S]
OBVIOUS

LEMMA SeqSame ==
    ASSUME NEW S, NEW s \in Seq(S), NEW t \in Seq(S), Len(s) = Len(t),
           \A k \in 1..Len(s) : s[k] = t[k]
    PROVE  s = t
OBVIOUS

LEMMA EmptyLen == <<>> \in Seq(Bytes) /\ Len(<<>>) = 0
OBVIOUS

LEMMA PutByteIs ==
    ASSUME NEW s \in Seq(Bytes), NEW off \in Nat, NEW b \in Bytes
    PROVE  /\ PutByte(s, off, b) \in Seq(Bytes)
           /\ Len(PutByte(s, off, b)) = MaxOf(Len(s), off + 1)
           /\ \A j \in 1..MaxOf(Len(s), off + 1) :
                 PutByte(s, off, b)[j] = IF j = off + 1 THEN b
                                         ELSE IF j <= Len(s) THEN s[j] ELSE 0
<1> DEFINE n == MaxOf(Len(s), off + 1)
<1>1. n \in Nat
  BY DEF MaxOf
<1>2. PutByte(s, off, b) \in [1..n -> Bytes]
  BY SeqElem, CryptoWriterAssumption DEF PutByte
<1>3. \A j \in 1..n : PutByte(s, off, b)[j] = IF j = off + 1 THEN b
                                              ELSE IF j <= Len(s) THEN s[j] ELSE 0
  BY DEF PutByte
<1> HIDE DEF n
<1>4. PutByte(s, off, b) \in Seq(Bytes) /\ Len(PutByte(s, off, b)) = n
  BY <1>1, <1>2, FcnIsSeq
<1> QED
  BY <1>3, <1>4 DEF n

LEMMA ResizeIs ==
    ASSUME NEW s \in Seq(Bytes), NEW n \in Nat
    PROVE  /\ Resize(s, n) \in Seq(Bytes) /\ Len(Resize(s, n)) = n
           /\ \A j \in 1..n : Resize(s, n)[j] = IF j <= Len(s) THEN s[j] ELSE 0
<1>1. Resize(s, n) \in [1..n -> Bytes]
  BY SeqElem, CryptoWriterAssumption DEF Resize, CopyPrefix
<1>2. \A j \in 1..n : Resize(s, n)[j] = IF j <= Len(s) THEN s[j] ELSE 0
  BY DEF Resize, CopyPrefix
<1>3. Resize(s, n) \in Seq(Bytes) /\ Len(Resize(s, n)) = n
  BY <1>1, FcnIsSeq
<1> QED
  BY <1>2, <1>3

(* A zero behind the end is an extension by one. *)
LEMMA PutIsResize ==
    ASSUME NEW s \in Seq(Bytes), NEW n \in Nat, n >= Len(s)
    PROVE  PutByte(Resize(s, n), n, 0) = Resize(s, n + 1)
<1>1. Resize(s, n) \in Seq(Bytes) /\ Len(Resize(s, n)) = n /\ 0 \in Bytes
  BY ResizeIs, CryptoWriterAssumption
<1>2. /\ PutByte(Resize(s, n), n, 0) \in Seq(Bytes)
      /\ Len(PutByte(Resize(s, n), n, 0)) = n + 1
  BY <1>1, PutByteIs DEF MaxOf
<1>3. Resize(s, n + 1) \in Seq(Bytes) /\ Len(Resize(s, n + 1)) = n + 1
  BY ResizeIs
<1>4. ASSUME NEW j \in 1..(n + 1)
      PROVE  PutByte(Resize(s, n), n, 0)[j] = Resize(s, n + 1)[j]
  <2>1. Resize(s, n + 1)[j] = IF j <= Len(s) THEN s[j] ELSE 0
    BY ResizeIs
  <2>2. PutByte(Resize(s, n), n, 0)[j]
           = IF j = n + 1 THEN 0 ELSE IF j <= n THEN Resize(s, n)[j] ELSE 0
    BY <1>1 DEF PutByte, MaxOf
  <2>3. j <= n => Resize(s, n)[j] = IF j <= Len(s) THEN s[j] ELSE 0
    BY ResizeIs
  <2>4. Len(s) \in Nat
    OBVIOUS
  <2> QED
    BY <2>1, <2>2, <2>3, <2>4
<1> QED
  BY <1>2, <1>3, <1>4, SeqSame

(* A byte far behind the end is the same after filling up to it. *)
LEMMA PutAfterResize ==
    ASSUME NEW s \in Seq(Bytes), NEW n \in Nat, n >= Len(s), NEW b \in Bytes
    PROVE  PutByte(Resize(s, n), n, b) = PutByte(s, n, b)
<1>1. Resize(s, n) \in Seq(Bytes) /\ Len(Resize(s, n)) = n /\ Len(s) \in Nat
  BY ResizeIs
<1>2. /\ PutByte(Resize(s, n), n, b) \in Seq(Bytes)
      /\ Len(PutByte(Resize(s, n), n, b)) = n + 1
      /\ PutByte(s, n, b) \in Seq(Bytes) /\ Len(PutByte(s, n, b)) = n + 1
  BY <1>1, PutByteIs DEF MaxOf
<1>3. ASSUME NEW j \in 1..(n + 1)
      PROVE  PutByte(Resize(s, n), n, b)[j] = PutByte(s, n, b)[j]
  <2>1. PutByte(s, n, b)[j] = IF j = n + 1 THEN b ELSE IF j <= Len(s) THEN s[j] ELSE 0
    BY <1>1, PutByteIs DEF MaxOf
  <2>2. PutByte(Resize(s, n), n, b)[j]
           = IF j = n + 1 THEN b ELSE IF j <= n THEN Resize(s, n)[j] ELSE 0
    BY <1>1 DEF PutByte, MaxOf
  <2>3. j <= n => Resize(s, n)[j] = IF j <= Len(s) THEN s[j] ELSE 0
    BY ResizeIs
  <2> QED
    BY <2>1, <2>2, <2>3, <1>1
<1> QED
  BY <1>2, <1>3, SeqSame

LEMMA ResizeSame ==
    ASSUME NEW s \in Seq(Bytes)
    PROVE  Resize(s, Len(s)) = s
<1>1. Len(s) \in Nat
  OBVIOUS
<1>2. /\ Resize(s, Len(s)) \in Seq(Bytes) /\ Len(Resize(s, Len(s))) = Len(s)
      /\ \A j \in 1..Len(s) : Resize(s, Len(s))[j] = s[j]
  BY <1>1, ResizeIs
<1> QED
  BY <1>2, SeqSame

-----------------------------------------------------------------------------
(* Files of blocks.                                                        *)

(* Blocks are not empty and all but the last one are complete. *)
WholeFile(file) ==
    /\ file \in Seq(Seq(Bytes))
    /\ \A k \in 1..Len(file) : Len(file[k]) \in 1..B /\ (k < Len(file) => Len(file[k]) = B)

AllFull(file) == \A k \in 1..Len(file) : Len(file[k]) = B

(* A block fits at place k (from 1) of the file. *)
Fits(file, k, block) ==
    /\ k \in 1..(Len(file) + 1) /\ (k = Len(file) + 1 => AllFull(file))
    /\ block \in Seq(Bytes) /\ Len(block) \in 1..B /\ (k < Len(file) => Len(block) = B)

Stored(file, k, block) ==
    [j \in 1..MaxOf(Len(file), k) |-> IF j = k THEN block ELSE file[j]]

(* What the file has at place k. *)
Old(file, k) == IF k <= Len(file) THEN file[k] ELSE <<>>

LEMMA NotTorn == \A s \in Seq(Bytes) : s # Torn
<1> TAKE s \in Seq(Bytes)
<1>1. s \in [1..Len(s) -> Nat] /\ Len(s) \in Nat
  BY SeqElem, CryptoWriterAssumption
<1>2. s \in Seq(Nat)
  BY <1>1, FcnIsSeq
<1> QED
  BY <1>2, BlockStoreAssumption

LEMMA WholeLen ==
    ASSUME NEW f, WholeFile(f)
    PROVE  /\ PlainLen(f) \in Nat
           /\ f = <<>> => PlainLen(f) = 0
           /\ Len(f) \in Nat /\ (f = <<>> <=> Len(f) = 0)
           /\ f # <<>> => /\ PlainLen(f) = (Len(f) - 1) * B + Len(f[Len(f)])
                          /\ Len(f) - 1 \in Nat /\ f[Len(f)] \in Seq(Bytes)
                          /\ Len(f[Len(f)]) \in 1..B
<1>1. Len(f) \in Nat /\ (f = <<>> <=> Len(f) = 0)
  BY DEF WholeFile
<1>2. CASE f = <<>>
  BY <1>1, <1>2 DEF PlainLen
<1>3. CASE f # <<>>
  <2>1. Len(f) \in 1..Len(f) /\ Len(f) - 1 \in Nat
    BY <1>1, <1>3
  <2>2. f[Len(f)] \in Seq(Bytes) /\ Len(f[Len(f)]) \in 1..B
    BY <2>1 DEF WholeFile
  <2>3. Last(f) = f[Len(f)] /\ Last(f) # Torn
    BY <2>2, NotTorn DEF Last
  <2>4. PlainLen(f) = (Len(f) - 1) * B + Len(f[Len(f)])
    BY <2>3, <1>3 DEF PlainLen
  <2>5. (Len(f) - 1) * B \in Nat
    BY <2>1, BlockStoreAssumption
  <2>6. Len(f[Len(f)]) \in Nat
    BY <2>2
  <2> QED
    BY <1>1, <1>3, <2>1, <2>2, <2>4, <2>5, <2>6
<1> QED
  BY <1>2, <1>3

(* Where byte j of the plaintext is. *)
LEMMA Located ==
    ASSUME NEW f, WholeFile(f), NEW j \in 1..PlainLen(f)
    PROVE  LET q == (j - 1) \div B
               m == (j - 1) % B
           IN  /\ q \in Nat /\ m \in 0..(B - 1) /\ j - 1 = q * B + m
               /\ q + 1 \in 1..Len(f) /\ m + 1 \in 1..Len(f[q + 1])
               /\ f[q + 1] \in Seq(Bytes)
               /\ Plain(f)[j] = f[q + 1][m + 1]
<1> DEFINE q == (j - 1) \div B
           m == (j - 1) % B
<1>1. PlainLen(f) \in Nat /\ j - 1 \in Nat /\ j \in Nat
  BY WholeLen
<1>2. q \in Nat /\ m \in 0..(B - 1) /\ j - 1 = q * B + m
  BY <1>1, DivRange
<1>3. Plain(f)[j] = IF f[q + 1] = Torn \/ m + 1 > Len(f[q + 1]) THEN Torn ELSE f[q + 1][m + 1]
  BY DEF Plain
<1> HIDE DEF q, m
<1>4. f # <<>> /\ Len(f) - 1 \in Nat /\ Len(f[Len(f)]) \in 1..B
      /\ PlainLen(f) = (Len(f) - 1) * B + Len(f[Len(f)])
  BY <1>1, WholeLen
<1>5. q <= Len(f) - 1
  <2> SUFFICES ASSUME Len(f) - 1 < q PROVE FALSE
    BY <1>2, <1>4
  <2> DEFINE P == (Len(f) - 1) * B
             Q == q * B
             l == Len(f[Len(f)])
  <2>1. P + B <= Q /\ Q \in Nat /\ P \in Nat
    BY <1>2, <1>4, MulStrict
  <2>2. j - 1 = Q + m /\ j <= P + l /\ l \in 1..B
    BY <1>2, <1>4
  <2> HIDE DEF P, Q, l
  <2> QED
    BY <2>1, <2>2, <1>1, <1>2, BlockStoreAssumption
<1>6. q + 1 \in 1..Len(f)
  BY <1>2, <1>4, <1>5
<1>7. f[q + 1] \in Seq(Bytes) /\ Len(f[q + 1]) \in 1..B /\ (q + 1 < Len(f) => Len(f[q + 1]) = B)
  BY <1>6 DEF WholeFile
<1>8. m + 1 \in 1..Len(f[q + 1])
  <2>1. CASE q + 1 < Len(f)
    BY <2>1, <1>7, <1>2, BlockStoreAssumption
  <2>2. CASE q + 1 = Len(f)
    <3> DEFINE P == q * B
               l == Len(f[q + 1])
    <3>1. q = Len(f) - 1
      BY <2>2, <1>2, <1>4
    <3>2. P \in Nat /\ j - 1 = P + m /\ j <= P + l /\ l \in 1..B
      BY <2>2, <3>1, <1>2, <1>4, BlockStoreAssumption
    <3> HIDE DEF P, l
    <3>3. m + 1 \in 1..l
      BY <3>2, <1>1, <1>2, BlockStoreAssumption
    <3> QED
      BY <3>3 DEF l
  <2> QED
    BY <2>1, <2>2, <1>6, <1>4, <1>2
<1>9. Plain(f)[j] = f[q + 1][m + 1]
  BY <1>3, <1>7, <1>8, NotTorn
<1> QED
  BY <1>2, <1>6, <1>7, <1>8, <1>9 DEF q, m

LEMMA PlainIs ==
    ASSUME NEW f, WholeFile(f)
    PROVE  Plain(f) \in Seq(Bytes) /\ Len(Plain(f)) = PlainLen(f)
<1>1. \A j \in 1..PlainLen(f) : Plain(f)[j] \in Bytes
  <2> TAKE j \in 1..PlainLen(f)
  <2> DEFINE q == (j - 1) \div B
             m == (j - 1) % B
  <2>1. /\ m + 1 \in 1..Len(f[q + 1]) /\ f[q + 1] \in Seq(Bytes)
        /\ Plain(f)[j] = f[q + 1][m + 1]
    BY Located
  <2> HIDE DEF q, m
  <2> QED
    BY <2>1, SeqElem
<1>2. Plain(f) \in [1..PlainLen(f) -> Bytes]
  BY <1>1 DEF Plain
<1> QED
  BY <1>2, WholeLen, FcnIsSeq

(* Byte m of block q, both from 0. *)
LEMMA PlainAt ==
    ASSUME NEW f, WholeFile(f), NEW q \in Nat, q + 1 <= Len(f),
           NEW m \in Nat, m + 1 <= Len(f[q + 1])
    PROVE  /\ q * B \in Nat /\ q * B + m + 1 \in 1..PlainLen(f)
           /\ Plain(f)[q * B + m + 1] = f[q + 1][m + 1]
<1> DEFINE P == q * B
           j == P + m + 1
<1>1. q + 1 \in 1..Len(f) /\ Len(f) \in Nat
  BY WholeLen
<1>2. Len(f[q + 1]) \in 1..B /\ (q + 1 < Len(f) => Len(f[q + 1]) = B)
  BY <1>1 DEF WholeFile
<1>3. m < B
  BY <1>2, BlockStoreAssumption
<1>4. P \in Nat /\ j - 1 = q * B + m
  BY BlockStoreAssumption
<1>5. (j - 1) \div B = q /\ (j - 1) % B = m
  BY <1>3, <1>4, DivIs
<1>6. f # <<>> /\ PlainLen(f) = (Len(f) - 1) * B + Len(f[Len(f)]) /\ PlainLen(f) \in Nat
  BY <1>1, WholeLen
<1>7. j <= PlainLen(f)
  <2>1. CASE q + 1 = Len(f)
    <3>1. PlainLen(f) = P + Len(f[q + 1])
      BY <2>1, <1>1, <1>6
    <3> HIDE DEF P
    <3> QED
      BY <3>1, <1>2, <1>4
  <2>2. CASE q + 1 # Len(f)
    <3> DEFINE Q == (Len(f) - 1) * B
               l == Len(f[Len(f)])
    <3>1. q < Len(f) - 1 /\ Len(f) - 1 \in Nat
      BY <2>2, <1>1
    <3>2. P + B <= Q /\ Q \in Nat
      BY <3>1, MulStrict
    <3>3. l \in 1..B /\ PlainLen(f) = Q + l
      BY <1>6, WholeLen
    <3> HIDE DEF P, Q, l
    <3> QED
      BY <3>2, <3>3, <1>3, <1>4, BlockStoreAssumption
  <2> QED
    BY <2>1, <2>2
<1>8. j \in 1..PlainLen(f)
  <2> HIDE DEF P
  <2> QED
    BY <1>4, <1>6, <1>7
<1>9. Plain(f)[j] = f[q + 1][m + 1]
  <2> HIDE DEF j
  <2> QED
    BY <1>5, <1>8, Located
<1> QED
  BY <1>4, <1>8, <1>9

LEMMA FullLen ==
    ASSUME NEW f, WholeFile(f), AllFull(f)
    PROVE  PlainLen(f) = Len(f) * B
<1>1. CASE f = <<>>
  <2>1. PlainLen(f) = 0 /\ Len(f) = 0
    BY <1>1, WholeLen
  <2>2. 0 * B = 0
    BY BlockStoreAssumption
  <2> QED
    BY <2>1, <2>2
<1>2. CASE f # <<>>
  <2>1. Len(f) - 1 \in Nat /\ PlainLen(f) = (Len(f) - 1) * B + Len(f[Len(f)])
    BY <1>2, WholeLen
  <2>2. Len(f[Len(f)]) = B
    BY <2>1 DEF AllFull
  <2>3. ASSUME NEW a \in Nat PROVE a * B + B = (a + 1) * B
    BY BlockStoreAssumption
  <2> DEFINE a == Len(f) - 1
  <2>4. a \in Nat /\ Len(f) = a + 1 /\ PlainLen(f) = a * B + B
    BY <2>1, <2>2
  <2> HIDE DEF a
  <2> QED
    BY <2>3, <2>4
<1> QED
  BY <1>1, <1>2

LEMMA StoredIs ==
    ASSUME NEW f, WholeFile(f), NEW k, NEW block, Fits(f, k, block)
    PROVE  /\ WholeFile(Stored(f, k, block))
           /\ Len(Stored(f, k, block)) = MaxOf(Len(f), k)
           /\ Stored(f, k, block)[k] = block
           /\ \A j \in 1..MaxOf(Len(f), k) :
                 j # k => j \in 1..Len(f) /\ Stored(f, k, block)[j] = f[j]
<1> DEFINE g == Stored(f, k, block)
           n == MaxOf(Len(f), k)
<1>1. Len(f) \in Nat /\ k \in 1..(Len(f) + 1) /\ k \in Nat /\ k \in 1..n /\ n \in Nat
      /\ n <= Len(f) + 1
  BY WholeLen DEF Fits, MaxOf
<1>2. ASSUME NEW j \in 1..n, j # k PROVE j \in 1..Len(f) /\ g[j] = f[j]
  BY <1>1, <1>2 DEF Stored, MaxOf
<1>3. g[k] = block
  BY <1>1 DEF Stored
<1>4. \A j \in 1..n : g[j] \in Seq(Bytes)
  BY <1>2, <1>3 DEF Fits, WholeFile
<1>5. g \in [1..n -> Seq(Bytes)]
  BY <1>4 DEF Stored
<1>6. g \in Seq(Seq(Bytes)) /\ Len(g) = n
  BY <1>1, <1>5, FcnIsSeq
<1>7. ASSUME NEW j \in 1..n PROVE Len(g[j]) \in 1..B /\ (j < n => Len(g[j]) = B)
  <2>1. CASE j = k
    BY <2>1, <1>1, <1>3 DEF Fits, MaxOf
  <2>2. CASE j # k
    <3>1. j \in 1..Len(f) /\ g[j] = f[j]
      BY <2>2, <1>2
    <3>2. Len(f[j]) \in 1..B /\ (j < Len(f) => Len(f[j]) = B)
      BY <3>1 DEF WholeFile
    <3>3. k = Len(f) + 1 => Len(f[j]) = B
      BY <3>1 DEF Fits, AllFull
    <3> QED
      BY <3>1, <3>2, <3>3, <1>1 DEF MaxOf
  <2> QED
    BY <2>1, <2>2
<1>8. WholeFile(g)
  BY <1>6, <1>7 DEF WholeFile
<1> QED
  BY <1>2, <1>3, <1>6, <1>8

LEMMA StoredLen ==
    ASSUME NEW f, WholeFile(f), NEW k, NEW block, Fits(f, k, block)
    PROVE  PlainLen(Stored(f, k, block))
              = IF k >= Len(f) THEN (k - 1) * B + Len(block) ELSE PlainLen(f)
<1> DEFINE g == Stored(f, k, block)
<1>1. WholeFile(g) /\ Len(g) = MaxOf(Len(f), k) /\ g[k] = block
  BY StoredIs
<1>2. \A j \in 1..MaxOf(Len(f), k) : j # k => j \in 1..Len(f) /\ g[j] = f[j]
  BY StoredIs
<1> HIDE DEF g
<1>3. k \in 1..(Len(f) + 1) /\ Len(f) \in Nat
  BY WholeLen DEF Fits
<1>4. g # <<>>
  BY <1>1, <1>3, WholeLen DEF MaxOf
<1>5. PlainLen(g) = (Len(g) - 1) * B + Len(g[Len(g)])
  BY <1>1, <1>4, WholeLen
<1>6. CASE k >= Len(f)
  BY <1>1, <1>3, <1>5, <1>6 DEF MaxOf, g
<1>7. CASE ~(k >= Len(f))
  <2>1. Len(g) = Len(f) /\ Len(f) # k /\ Len(f) \in 1..MaxOf(Len(f), k)
    BY <1>1, <1>3, <1>7 DEF MaxOf
  <2>2. g[Len(f)] = f[Len(f)] /\ f # <<>>
    BY <2>1, <1>2, <1>3, <1>7, WholeLen
  <2>3. PlainLen(f) = (Len(f) - 1) * B + Len(f[Len(f)])
    BY <2>2, WholeLen
  <2> QED
    BY <1>5, <1>7, <2>1, <2>2, <2>3 DEF g
<1> QED
  BY <1>6, <1>7

(* Storing a block with one byte changed changes that byte of the file. *)
LEMMA PutStored ==
    ASSUME NEW f, WholeFile(f), NEW k \in 1..(Len(f) + 1), k = Len(f) + 1 => AllFull(f),
           NEW p \in Nat, p < B, p <= Len(Old(f, k)), NEW b \in Bytes
    PROVE  LET block == PutByte(Old(f, k), p, b)
           IN  /\ Fits(f, k, block)
               /\ (k - 1) * B + p \in Nat
               /\ Plain(Stored(f, k, block)) = PutByte(Plain(f), (k - 1) * B + p, b)
<1> DEFINE old == Old(f, k)
           block == PutByte(old, p, b)
           g == Stored(f, k, block)
           P == (k - 1) * B
           off == P + p
<1>1. Len(f) \in Nat /\ k \in Nat /\ k - 1 \in Nat /\ P \in Nat /\ off \in Nat
  <2>1. Len(f) \in Nat /\ k \in Nat /\ k - 1 \in Nat
    BY WholeLen
  <2> QED
    BY <2>1, BlockStoreAssumption
<1>2. old \in Seq(Bytes) /\ Len(old) \in 0..B /\ (k < Len(f) => Len(old) = B)
      /\ (k = Len(f) + 1 => Len(old) = 0) /\ (k <= Len(f) => old = f[k])
  <2>1. CASE k <= Len(f)
    <3>1. k \in 1..Len(f) /\ old = f[k]
      BY <2>1, <1>1 DEF Old
    <3> QED
      BY <3>1, <1>1 DEF WholeFile
  <2>2. CASE ~(k <= Len(f))
    BY <2>2, <1>1, EmptyLen, BlockStoreAssumption DEF Old
  <2> QED
    BY <2>1, <2>2
<1>3. block \in Seq(Bytes) /\ Len(block) = MaxOf(Len(old), p + 1)
  BY <1>2, PutByteIs
<1>4. \A j \in 1..Len(block) : block[j] = IF j = p + 1 THEN b
                                          ELSE IF j <= Len(old) THEN old[j] ELSE 0
  <2> HIDE DEF old
  <2> QED
    BY <1>3 DEF PutByte
<1>5. Len(block) \in 1..B /\ (k < Len(f) => Len(block) = B)
  <2> HIDE DEF old, block
  <2> QED
    BY <1>2, <1>3, BlockStoreAssumption DEF MaxOf
<1>6. Fits(f, k, block)
  BY <1>3, <1>5 DEF Fits
<1>7. WholeFile(g) /\ Len(g) = MaxOf(Len(f), k) /\ g[k] = block
      /\ \A j \in 1..MaxOf(Len(f), k) : j # k => j \in 1..Len(f) /\ g[j] = f[j]
  BY <1>6, StoredIs
<1>8. Plain(g) \in Seq(Bytes) /\ Len(Plain(g)) = PlainLen(g) /\ PlainLen(g) \in Nat
  BY <1>7, PlainIs, WholeLen
<1>9. Plain(f) \in Seq(Bytes) /\ Len(Plain(f)) = PlainLen(f) /\ PlainLen(f) \in Nat
  BY PlainIs, WholeLen
<1>10. PlainLen(g) = IF k >= Len(f) THEN P + Len(block) ELSE PlainLen(f)
  BY <1>6, StoredLen
<1>11. PlainLen(g) = MaxOf(PlainLen(f), off + 1)
  <2>1. CASE k < Len(f)
    <3> DEFINE Q == (Len(f) - 1) * B
               l == Len(f[Len(f)])
    <3>1. k - 1 < Len(f) - 1 /\ Len(f) - 1 \in Nat /\ f # <<>>
      BY <2>1, <1>1, WholeLen
    <3>2. P + B <= Q /\ Q \in Nat
      BY <3>1, <1>1, MulStrict
    <3>3. PlainLen(f) = Q + l /\ l \in 1..B
      BY <3>1, WholeLen
    <3>4. PlainLen(g) = PlainLen(f)
      BY <1>1, <1>10, <2>1
    <3> HIDE DEF P, Q, l, g
    <3> QED
      BY <3>2, <3>3, <3>4, <1>1, BlockStoreAssumption DEF MaxOf
  <2>2. CASE k = Len(f)
    <3>1. PlainLen(f) = P + Len(old)
      BY <2>2, <1>1, <1>2, WholeLen
    <3>2. PlainLen(g) = P + Len(block)
      BY <1>1, <1>10, <2>2
    <3> HIDE DEF P, g, old, block
    <3> QED
      BY <3>1, <3>2, <1>1, <1>2, <1>3 DEF MaxOf
  <2>3. CASE k = Len(f) + 1
    <3>1. PlainLen(f) = P
      BY <2>3, <1>1, FullLen
    <3>2. PlainLen(g) = P + Len(block) /\ Len(old) = 0
      BY <1>1, <1>2, <1>10, <2>3
    <3> HIDE DEF P, g, old, block
    <3>3. p = 0
      BY <3>2 DEF old
    <3> QED
      BY <3>1, <3>2, <3>3, <1>1, <1>3 DEF MaxOf
  <2> QED
    BY <2>1, <2>2, <2>3, <1>1
<1>12. /\ PutByte(Plain(f), off, b) \in Seq(Bytes)
       /\ Len(PutByte(Plain(f), off, b)) = PlainLen(g)
  BY <1>1, <1>9, <1>11, PutByteIs
<1>13. ASSUME NEW j \in 1..PlainLen(g)
       PROVE  Plain(g)[j] = PutByte(Plain(f), off, b)[j]
  <2> DEFINE q == (j - 1) \div B
             m == (j - 1) % B
  <2>1. /\ q \in Nat /\ m \in 0..(B - 1) /\ j - 1 = q * B + m
        /\ q + 1 \in 1..Len(g) /\ m + 1 \in 1..Len(g[q + 1])
        /\ Plain(g)[j] = g[q + 1][m + 1]
    BY <1>7, Located
  <2>2. PutByte(Plain(f), off, b)[j]
            = IF j = off + 1 THEN b ELSE IF j <= PlainLen(f) THEN Plain(f)[j] ELSE 0
    <3> HIDE DEF off, g
    <3> QED
      BY <1>9, <1>11 DEF PutByte
  <2>3. j = off + 1 => q = k - 1 /\ m = p
    <3> SUFFICES ASSUME j = off + 1 PROVE q = k - 1 /\ m = p
      OBVIOUS
    <3>1. j - 1 = (k - 1) * B + p
      BY <1>1
    <3>2. ((k - 1) * B + p) \div B = k - 1 /\ ((k - 1) * B + p) % B = p
      BY <1>1, DivIs
    <3> QED
      BY <3>1, <3>2
  <2> HIDE DEF q, m, g, block
  <2>4. q * B \in Nat /\ j = q * B + m + 1 /\ m \in Nat /\ j \in Nat
    <3> DEFINE Q == q * B
    <3>1. Q \in Nat /\ j - 1 = Q + m
      BY <2>1, BlockStoreAssumption
    <3> HIDE DEF Q
    <3>2. j \in Nat /\ m \in Nat
      BY <2>1, <1>8, BlockStoreAssumption
    <3>3. j = Q + m + 1
      BY <3>1, <3>2
    <3> QED
      BY <3>1, <3>2, <3>3 DEF Q
  <2>5. CASE q + 1 = k
    <3>0. q = k - 1
      BY <2>5, <2>1, <1>1
    <3>1. j = P + m + 1
      BY <2>4, <3>0
    <3>2. Plain(g)[j] = block[m + 1] /\ m + 1 \in 1..Len(block)
      BY <2>1, <2>5, <1>7
    <3>3. CASE m = p
      <4>1. j = off + 1
        BY <3>1, <3>3, <1>1
      <4>2. block[m + 1] = b
        BY <3>2, <3>3, <1>4
      <4> QED
        BY <4>1, <4>2, <3>2, <2>2
    <3>4. CASE m # p
      <4>1. m + 1 <= Len(old) /\ j # off + 1
        <5>1. p <= Len(old)
          OBVIOUS
        <5> HIDE DEF P, old
        <5> QED
          BY <5>1, <3>1, <3>2, <3>4, <2>4, <1>1, <1>2, <1>3 DEF MaxOf
      <4>2. block[m + 1] = old[m + 1]
        BY <3>2, <3>4, <4>1, <1>4, <2>4
      <4>3. k <= Len(f) /\ old = f[k]
        <5>1. Len(old) > 0
          <6> DEFINE N == Len(old)
          <6>1. m + 1 <= N /\ N \in Nat /\ m \in Nat
            BY <4>1, <1>3, <2>4
          <6> HIDE DEF N
          <6>2. N > 0
            BY ONLY <6>1
          <6> QED
            BY <6>2 DEF N
        <5> QED
          <6>1. CASE k <= Len(f)
            BY ONLY <6>1 DEF old, Old
          <6>2. CASE ~(k <= Len(f))
            <7>1. old = <<>>
              BY ONLY <6>2 DEF old, Old
            <7> QED
              BY ONLY <7>1, <5>1
          <6> QED
            BY ONLY <6>1, <6>2
      <4>4. j \in 1..PlainLen(f) /\ Plain(f)[j] = f[q + 1][m + 1]
        <5>1. q + 1 <= Len(f) /\ m + 1 <= Len(f[q + 1])
          BY <4>1, <4>3, <2>5
        <5>2. /\ q * B + m + 1 \in 1..PlainLen(f)
              /\ Plain(f)[q * B + m + 1] = f[q + 1][m + 1]
          <6>1. q \in Nat /\ m \in Nat /\ WholeFile(f)
            BY <2>1, <2>4
          <6> QED
            BY ONLY <6>1, <5>1, PlainAt
        <5> QED
          BY <5>2, <2>4
      <4> QED
        BY <4>1, <4>2, <4>3, <4>4, <3>2, <2>2, <2>5
    <3> QED
      BY <3>3, <3>4
  <2>6. CASE q + 1 # k
    <3>1. q + 1 \in 1..Len(f) /\ g[q + 1] = f[q + 1]
      BY <2>1, <2>6, <1>7
    <3>2. j \in 1..PlainLen(f) /\ Plain(f)[j] = f[q + 1][m + 1]
      <4>1. q \in Nat /\ m \in Nat /\ WholeFile(f) /\ q + 1 <= Len(f)
        BY <3>1, <2>1, <2>4
      <4>2. m + 1 <= Len(f[q + 1])
        BY <3>1, <2>1
      <4>3. /\ q * B + m + 1 \in 1..PlainLen(f)
            /\ Plain(f)[q * B + m + 1] = f[q + 1][m + 1]
        BY ONLY <4>1, <4>2, PlainAt
      <4>4. j = q * B + m + 1
        BY <2>4
      <4> QED
        BY ONLY <4>3, <4>4
    <3>3. j # off + 1
      <4>1. q # k - 1
        BY <2>6, <2>1, <1>1
      <4> QED
        BY ONLY <2>3, <4>1
    <3> QED
      BY <3>1, <3>2, <3>3, <2>1, <2>2
  <2> QED
    BY <2>5, <2>6
<1> HIDE DEF off, g
<1>14. Plain(g) = PutByte(Plain(f), off, b)
  BY <1>8, <1>12, <1>13, SeqSame
<1> QED
  BY <1>1, <1>6, <1>14 DEF off, g

(* Of two blocks stored at one place the second one counts. *)
LEMMA StoredTwice ==
    ASSUME NEW f, WholeFile(f), NEW k, NEW block, Fits(f, k, block), NEW other
    PROVE  Stored(Stored(f, k, block), k, other) = Stored(f, k, other)
<1> DEFINE g == Stored(f, k, block)
<1>1. Len(g) = MaxOf(Len(f), k)
  BY StoredIs
<1>2. Len(f) \in Nat /\ k \in Nat
  BY WholeLen DEF Fits
<1>3. MaxOf(Len(g), k) = MaxOf(Len(f), k)
  BY <1>1, <1>2 DEF MaxOf
<1>4. \A j \in 1..MaxOf(Len(f), k) : j # k => g[j] = f[j]
  BY StoredIs
<1> HIDE DEF g
<1> QED
  BY <1>3, <1>4 DEF Stored, g

-----------------------------------------------------------------------------
(* Writers.                                                                *)

Records == [file : Seq(Seq(Bytes)), cur : Nat, block_index : Nat, buf : Seq(Bytes),
            pos_write : 0..B, dirty : BOOLEAN, failed : BOOLEAN]

(* The file is whole and the writer at a block of it or at its end, where  *)
(* it is only if all blocks are complete; a dirty buffer covers the block  *)
(* it replaces.                                                            *)
Sound(x) ==
    /\ x \in Records /\ ~x.failed
    /\ WholeFile(x.file)
    /\ x.cur = x.block_index /\ x.cur <= Len(x.file)
    /\ x.cur = Len(x.file) => AllFull(x.file)
    /\ Len(x.buf) <= B /\ x.pos_write <= Len(x.buf)
    /\ x.dirty => /\ x.buf # <<>>
                  /\ x.cur < Len(x.file) => Len(x.buf) >= Len(x.file[x.cur + 1])

(* Between calls a buffer that is not dirty is empty, and the writer new   *)
(* or at the end of the file.                                              *)
Resting(x) == Sound(x) /\ (~x.dirty => x.buf = <<>> /\ (x.cur = 0 \/ x.cur = Len(x.file)))

Loaded(x) == x.cur < Len(x.file) /\ x.buf = x.file[x.cur + 1] /\ x.pos_write < B

(* The buffer has what the file has at the cursor, or replaces it. *)
Ready(x) == Sound(x) /\ (x.dirty \/ Loaded(x) \/ (x.buf = <<>> /\ x.cur = Len(x.file)))

IInv == Resting(w)

LEMMA RecordFields ==
    ASSUME NEW x, Sound(x)
    PROVE  /\ x.file \in Seq(Seq(Bytes)) /\ x.cur \in Nat /\ x.block_index \in Nat
           /\ x.buf \in Seq(Bytes) /\ x.pos_write \in 0..B /\ x.pos_write \in Nat
           /\ x.dirty \in BOOLEAN /\ x.failed \in BOOLEAN
           /\ Len(x.file) \in Nat /\ Len(x.buf) \in Nat /\ (x.buf = <<>> <=> Len(x.buf) = 0)
<1>1. /\ x.file \in Seq(Seq(Bytes)) /\ x.cur \in Nat /\ x.block_index \in Nat
      /\ x.buf \in Seq(Bytes) /\ x.pos_write \in 0..B
      /\ x.dirty \in BOOLEAN /\ x.failed \in BOOLEAN
  BY DEF Sound, Records
<1> QED
  BY <1>1, BlockStoreAssumption

(* A dirty block fits where it is stored. *)
LEMMA BufFits ==
    ASSUME NEW x, Sound(x), x.dirty
    PROVE  Fits(x.file, x.cur + 1, x.buf)
<1>1. /\ x.cur \in Nat /\ x.buf \in Seq(Bytes) /\ Len(x.file) \in Nat /\ Len(x.buf) \in Nat
      /\ (x.buf = <<>> <=> Len(x.buf) = 0)
  BY RecordFields
<1>2. x.cur + 1 \in 1..(Len(x.file) + 1) /\ (x.cur + 1 = Len(x.file) + 1 => AllFull(x.file))
  BY <1>1 DEF Sound
<1>3. Len(x.buf) \in 1..B
  BY <1>1, BlockStoreAssumption DEF Sound
<1>4. x.cur + 1 < Len(x.file) => Len(x.buf) = B
  <2> SUFFICES ASSUME x.cur + 1 < Len(x.file) PROVE Len(x.buf) = B
    OBVIOUS
  <2>1. Len(x.file[x.cur + 1]) = B
    BY <1>1 DEF Sound, WholeFile
  <2> QED
    BY <2>1, <1>1, <1>3, BlockStoreAssumption DEF Sound
<1> QED
  BY <1>1, <1>2, <1>3, <1>4 DEF Fits

(* encrypt_and_write stores the buffer as it is. *)
LEMMA EncryptIs ==
    ASSUME NEW x, Sound(x), x.dirty
    PROVE  LET y == EncryptAndWrite(x)
           IN  /\ y \in Records /\ ~y.failed /\ ~y.dirty
               /\ y.file = Stored(x.file, x.cur + 1, x.buf) /\ WholeFile(y.file)
               /\ Len(y.file) = MaxOf(Len(x.file), x.cur + 1)
               /\ y.cur = x.cur + 1 /\ y.block_index = x.cur + 1
               /\ y.buf = <<>> /\ y.pos_write = 0
               /\ View(x) = Plain(y.file)
<1> DEFINE y == EncryptAndWrite(x)
           g == [k \in 1..MaxOf(Len(x.file), x.cur + 1) |->
                    IF k = x.cur + 1 THEN Overlay(x) ELSE x.file[k]]
<1>1. /\ x.cur \in Nat /\ x.buf \in Seq(Bytes) /\ Len(x.file) \in Nat /\ Len(x.buf) \in Nat
  BY RecordFields
<1>2. Overlay(x) = x.buf
  <2>1. CASE x.cur < Len(x.file)
    <3>1. x.file[x.cur + 1] \in Seq(Bytes) /\ Len(x.file[x.cur + 1]) \in Nat
      BY <2>1, <1>1 DEF Sound, WholeFile
    <3>2. x.file[x.cur + 1] # Torn
      BY <3>1, NotTorn
    <3> QED
      BY <3>1, <3>2, <2>1, <1>1 DEF Overlay, Sound
  <2>2. CASE ~(x.cur < Len(x.file))
    <3>1. <<>> # Torn
      BY EmptyLen, NotTorn, Zenon
    <3>2. ~(Len(<<>>) > Len(x.buf))
      BY <1>1, EmptyLen
    <3>3. x.cur = x.block_index
      BY DEF Sound
    <3> QED
      BY <3>1, <3>2, <3>3, <2>2 DEF Overlay
  <2> QED
    BY <2>1, <2>2
<1>3. g = Stored(x.file, x.cur + 1, x.buf)
  BY <1>2 DEF Stored
<1>4. WholeFile(g) /\ Len(g) = MaxOf(Len(x.file), x.cur + 1)
  BY <1>3, BufFits, StoredIs DEF Sound
<1>5. g \in Seq(Seq(Bytes))
  BY <1>4 DEF WholeFile
<1>6. y = [x EXCEPT !.file = g, !.cur = @ + 1, !.block_index = @ + 1,
                    !.buf = <<>>, !.pos_write = 0, !.dirty = FALSE]
  BY DEF EncryptAndWrite
<1> HIDE DEF g
<1>7. y \in Records
  <2>1. x \in Records /\ x.cur + 1 \in Nat /\ x.block_index + 1 \in Nat /\ 0 \in 0..B
    BY RecordFields, BlockStoreAssumption DEF Sound
  <2> HIDE DEF y
  <2> QED
    BY <2>1, <1>5, <1>6, EmptyLen DEF Records
<1>8. /\ y.file = g /\ y.cur = x.cur + 1 /\ y.block_index = x.cur + 1
      /\ y.buf = <<>> /\ y.pos_write = 0 /\ ~y.dirty /\ ~y.failed
  BY <1>6 DEF Sound, Records
<1> HIDE DEF y
<1>9. View(x) = Plain(y.file)
  BY DEF View, y
<1> QED
  BY <1>3, <1>4, <1>7, <1>8, <1>9 DEF y

LEMMA ViewClean == \A x : x.dirty = FALSE => View(x) = Plain(x.file)
BY DEF View

LEMMA ViewDirty == \A x : x.dirty = TRUE => View(x) = Plain(EncryptAndWrite(x).file)
BY DEF View

LEMMA ViewIs ==
    ASSUME NEW x, Sound(x)
    PROVE  View(x) \in Seq(Bytes) /\ Len(View(x)) \in Nat
<1>1. CASE x.dirty
  BY <1>1, EncryptIs, PlainIs, WholeLen
<1>2. CASE ~x.dirty
  BY <1>2, ViewClean, RecordFields, PlainIs, WholeLen DEF Sound
<1> QED
  BY <1>1, <1>2

(* After a complete block the writer is sound again, at the same position. *)
LEMMA EncryptFull ==
    ASSUME NEW x, Sound(x), x.dirty, Len(x.buf) = B
    PROVE  LET y == EncryptAndWrite(x) IN Sound(y) /\ View(y) = View(x)
<1> DEFINE y == EncryptAndWrite(x)
<1>1. /\ y \in Records /\ ~y.failed /\ ~y.dirty
      /\ y.file = Stored(x.file, x.cur + 1, x.buf) /\ WholeFile(y.file)
      /\ Len(y.file) = MaxOf(Len(x.file), x.cur + 1)
      /\ y.cur = x.cur + 1 /\ y.block_index = x.cur + 1
      /\ y.buf = <<>> /\ y.pos_write = 0
      /\ View(x) = Plain(y.file)
  BY EncryptIs
<1>2. Fits(x.file, x.cur + 1, x.buf) /\ WholeFile(x.file) /\ Len(x.file) \in Nat /\ x.cur \in Nat
  BY BufFits, RecordFields DEF Sound
<1>3. y.file[x.cur + 1] = x.buf
  BY <1>1, <1>2, StoredIs
<1> HIDE DEF y
<1>4. y.cur <= Len(y.file)
  BY <1>1, <1>2 DEF MaxOf
<1>5. y.cur = Len(y.file) => AllFull(y.file)
  BY <1>1, <1>3 DEF AllFull, WholeFile
<1>6. Sound(y)
  BY <1>1, <1>4, <1>5, EmptyLen, BlockStoreAssumption DEF Sound
<1>7. View(y) = View(x)
  <2>1. y.dirty = FALSE
    BY <1>1 DEF Records
  <2> QED
    BY <2>1, <1>1, ViewClean
<1> QED
  BY <1>6, <1>7 DEF y

(* One byte written into a buffer with room. *)
LEMMA WriteReady ==
    ASSUME NEW x, Ready(x), x.pos_write < B, NEW b \in Bytes
    PROVE  LET y == WriteInner(x, b)
           IN  /\ Sound(y) /\ y.dirty /\ y.file = x.file /\ y.cur = x.cur
               /\ y.pos_write = x.pos_write + 1
               /\ Len(y.buf) = MaxOf(Len(x.buf), x.pos_write + 1)
               /\ View(y) = PutByte(View(x), Pos(x), b)
<1> DEFINE y == WriteInner(x, b)
           new == PutByte(x.buf, x.pos_write, b)
           k == x.cur + 1
<1>1. /\ x.file \in Seq(Seq(Bytes)) /\ x.cur \in Nat /\ x.block_index \in Nat
      /\ x.buf \in Seq(Bytes) /\ x.pos_write \in 0..B /\ x.pos_write \in Nat
      /\ Len(x.file) \in Nat /\ Len(x.buf) \in Nat /\ (x.buf = <<>> <=> Len(x.buf) = 0)
  BY RecordFields DEF Ready
<1>2. Sound(x) /\ x \in Records /\ ~x.failed /\ x.pos_write # B
  BY <1>1, BlockStoreAssumption DEF Ready, Sound
<1>3. y = [x EXCEPT !.buf = PutByte(@, x.pos_write, b), !.pos_write = @ + 1, !.dirty = TRUE]
  <2>1. FlushInner(x) = x
    BY <1>2 DEF FlushInner
  <2> QED
    BY ONLY <1>2, <2>1 DEF WriteInner
<1>4. new \in Seq(Bytes) /\ Len(new) = MaxOf(Len(x.buf), x.pos_write + 1)
  <2>1. x.buf \in Seq(Bytes) /\ x.pos_write \in Nat /\ b \in Bytes
    BY <1>1
  <2> QED
    BY ONLY <2>1, PutByteIs DEF new
<1>5. Len(new) \in 1..B /\ x.pos_write + 1 <= Len(new) /\ x.pos_write + 1 \in 0..B
      /\ Len(new) >= Len(x.buf)
  <2> HIDE DEF new
  <2> QED
    BY <1>1, <1>2, <1>4, BlockStoreAssumption DEF MaxOf, Sound
<1> HIDE DEF new, y
<1>6. y \in Records
  BY <1>2, <1>3, <1>4, <1>5 DEF Records, new
<1>7. /\ y.file = x.file /\ y.cur = x.cur /\ y.block_index = x.block_index /\ y.buf = new
      /\ y.pos_write = x.pos_write + 1 /\ y.dirty = TRUE /\ y.failed = x.failed
  BY <1>2, <1>3 DEF Records, new
<1>8. x.cur < Len(x.file) => Len(new) >= Len(x.file[x.cur + 1])
  <2>1. x.cur < Len(x.file) =>
           Len(x.file[x.cur + 1]) \in Nat /\ Len(x.buf) >= Len(x.file[x.cur + 1])
    <3> SUFFICES ASSUME x.cur < Len(x.file)
                 PROVE  Len(x.file[x.cur + 1]) \in Nat /\ Len(x.buf) >= Len(x.file[x.cur + 1])
      OBVIOUS
    <3>1. x.file[x.cur + 1] \in Seq(Bytes)
      BY <1>1
    <3>2. Len(x.file[x.cur + 1]) \in Nat
      BY <3>1
    <3>3. x.dirty \/ Loaded(x)
      BY <1>1 DEF Ready
    <3> QED
      BY <3>2, <3>3, <1>1, <1>2 DEF Sound, Loaded
  <2> QED
    BY <2>1, <1>5, <1>1, SMTT(30)
<1>9. Sound(y)
  <2>1. y.buf # <<>>
    BY <1>5, <1>7, EmptyLen
  <2> QED
    BY <2>1, <1>2, <1>5, <1>6, <1>7, <1>8 DEF Sound
<1>10. View(y) = Plain(Stored(x.file, k, new))
  BY <1>7, <1>9, EncryptIs
<1>11. Pos(x) = (k - 1) * B + x.pos_write
  <2>1. k - 1 = x.block_index
    BY <1>1, <1>2 DEF Sound
  <2> QED
    BY <2>1 DEF Pos
<1>12. View(y) = PutByte(View(x), Pos(x), b)
  <2>1. CASE x.dirty
    <3> DEFINE g == EncryptAndWrite(x).file
    <3>1. /\ g = Stored(x.file, k, x.buf) /\ WholeFile(g) /\ Len(g) = MaxOf(Len(x.file), k)
          /\ View(x) = Plain(g)
      BY <1>2, <2>1, EncryptIs
    <3>2. Fits(x.file, k, x.buf) /\ WholeFile(x.file)
      BY <1>2, <2>1, BufFits DEF Sound
    <3>3. g[k] = x.buf
      BY <3>1, <3>2, StoredIs
    <3>4. Stored(g, k, new) = Stored(x.file, k, new)
      BY <3>1, <3>2, StoredTwice
    <3> HIDE DEF g
    <3>5. k \in 1..(Len(g) + 1) /\ k # Len(g) + 1 /\ Old(g, k) = x.buf
      BY <3>1, <3>3, <1>1 DEF MaxOf, Old
    <3>6. x.pos_write <= Len(x.buf)
      BY <1>2 DEF Sound
    <3>7. Plain(Stored(g, k, new)) = PutByte(Plain(g), (k - 1) * B + x.pos_write, b)
      <4>1. WholeFile(g) /\ k \in 1..(Len(g) + 1) /\ x.pos_write \in Nat
            /\ x.pos_write < B /\ x.pos_write <= Len(Old(g, k)) /\ (k = Len(g) + 1 => AllFull(g))
        BY <3>1, <3>5, <3>6, <1>1
      <4> QED
        BY <4>1, <3>5, PutStored DEF new
    <3> QED
      BY <3>1, <3>4, <3>7, <1>10, <1>11
  <2>2. CASE ~x.dirty
    <3>1. View(x) = Plain(x.file)
      <4>1. x.dirty = FALSE
        BY <2>2, <1>2, RecordFields
      <4> QED
        BY <4>1, ViewClean
    <3>2. WholeFile(x.file) /\ k \in 1..(Len(x.file) + 1)
          /\ (k = Len(x.file) + 1 => AllFull(x.file)) /\ x.pos_write <= Len(x.buf)
      BY <1>1, <1>2 DEF Sound
    <3>3. Old(x.file, k) = x.buf
      BY <2>2, <1>1 DEF Ready, Loaded, Old
    <3>4. Plain(Stored(x.file, k, new)) = PutByte(Plain(x.file), (k - 1) * B + x.pos_write, b)
      BY <3>2, <3>3, <1>1, PutStored DEF new
    <3> QED
      BY <3>1, <3>4, <1>10, <1>11
  <2> QED
    BY <2>1, <2>2
<1> QED
  BY <1>4, <1>7, <1>9, <1>12 DEF y

(* decrypt_block on an empty buffer loads what there is. *)
LEMMA DecryptIs ==
    ASSUME NEW x, Sound(x), ~x.dirty, x.buf = <<>>
    PROVE  LET y == DecryptBlock(x)
           IN  /\ Ready(y) /\ ~y.dirty /\ y.file = x.file /\ y.cur = x.cur
               /\ y.pos_write = 0 /\ View(y) = View(x)
<1> DEFINE y == DecryptBlock(x)
<1>1. /\ x.file \in Seq(Seq(Bytes)) /\ x.cur \in Nat /\ x.pos_write \in Nat
      /\ Len(x.file) \in Nat /\ x.dirty = FALSE /\ Len(x.buf) = 0 /\ x \in Records
  BY RecordFields DEF Sound
<1>2. x.pos_write = 0
  BY <1>1 DEF Sound
<1>3. CASE x.cur >= Len(x.file)
  <2>1. y = x /\ x.cur = Len(x.file)
    BY <1>1, <1>3 DEF DecryptBlock, Sound
  <2>2. Ready(x)
    BY <2>1 DEF Ready
  <2> QED
    BY <2>1, <2>2, <1>2
<1>4. CASE ~(x.cur >= Len(x.file))
  <2>1. x.cur + 1 \in 1..Len(x.file)
    BY <1>1, <1>4
  <2>2. x.file[x.cur + 1] \in Seq(Bytes) /\ Len(x.file[x.cur + 1]) \in 1..B
    BY <2>1 DEF Sound, WholeFile
  <2>3. x.file[x.cur + 1] # Torn /\ x.cur = x.block_index
    BY <2>2, NotTorn DEF Sound
  <2>4. y = [x EXCEPT !.buf = x.file[x.cur + 1], !.pos_write = 0, !.dirty = FALSE,
                      !.cur = x.block_index]
    BY <2>3, <1>4 DEF DecryptBlock
  <2> HIDE DEF y
  <2>5. y \in Records
    <3>1. 0 \in 0..B /\ x.block_index \in Nat
      BY <1>1, <2>3, BlockStoreAssumption
    <3> QED
      BY <3>1, <2>2, <2>4, <1>1 DEF Records
  <2>6. /\ y.file = x.file /\ y.cur = x.cur /\ y.block_index = x.block_index
        /\ y.buf = x.file[x.cur + 1] /\ y.pos_write = 0 /\ y.dirty = FALSE /\ y.failed = x.failed
    BY <2>3, <2>4, <1>1 DEF Records
  <2>7. Sound(y)
    <3>1. Len(y.buf) <= B /\ y.pos_write <= Len(y.buf)
      BY <2>2, <2>6, BlockStoreAssumption
    <3> QED
      BY <3>1, <2>5, <2>6 DEF Sound
  <2>8. Loaded(y)
    BY <2>6, <1>1, <1>4, BlockStoreAssumption DEF Loaded
  <2>9. View(y) = View(x)
    BY <2>6, <1>1, ViewClean
  <2> QED
    BY <2>6, <2>7, <2>8, <2>9 DEF Ready, y
<1> QED
  BY <1>3, <1>4

LEMMA SeekBufIs ==
    ASSUME NEW x, Ready(x), NEW n \in Nat, n < B \/ Len(x.buf) < B
    PROVE  LET y == SeekBuf(x, n)
           IN  /\ Ready(y) /\ y.file = x.file /\ y.cur = x.cur /\ y.block_index = x.block_index
               /\ y.buf = x.buf /\ y.dirty = x.dirty
               /\ y.pos_write = MinOf(n, Len(x.buf)) /\ View(y) = View(x)
<1> DEFINE y == SeekBuf(x, n)
<1>1. Sound(x) /\ x \in Records /\ Len(x.buf) \in Nat /\ Len(x.buf) <= B /\ x.dirty \in BOOLEAN
  BY RecordFields DEF Ready, Sound
<1>2. /\ MinOf(n, Len(x.buf)) \in 0..B /\ MinOf(n, Len(x.buf)) <= Len(x.buf)
      /\ MinOf(n, Len(x.buf)) < B
  BY <1>1, BlockStoreAssumption DEF MinOf
<1>3. y = [x EXCEPT !.pos_write = MinOf(n, Len(x.buf))]
  BY DEF SeekBuf
<1> HIDE DEF y
<1>4. y \in Records
  BY <1>1, <1>2, <1>3 DEF Records
<1>5. /\ y.file = x.file /\ y.cur = x.cur /\ y.block_index = x.block_index /\ y.buf = x.buf
      /\ y.pos_write = MinOf(n, Len(x.buf)) /\ y.dirty = x.dirty /\ y.failed = x.failed
  BY <1>1, <1>3 DEF Records
<1>6. Sound(y)
  BY <1>1, <1>2, <1>4, <1>5 DEF Sound
<1>7. Ready(y)
  BY <1>2, <1>5, <1>6 DEF Ready, Loaded
<1>8. View(y) = View(x)
  <2>1. CASE x.dirty
    <3>1. View(y) = Plain(Stored(y.file, y.cur + 1, y.buf))
      BY <2>1, <1>5, <1>6, EncryptIs
    <3>2. View(x) = Plain(Stored(x.file, x.cur + 1, x.buf))
      BY <2>1, <1>1, EncryptIs
    <3> QED
      BY <3>1, <3>2, <1>5
  <2>2. CASE ~x.dirty
    BY <2>2, <1>1, <1>5, ViewClean
  <2> QED
    BY <2>1, <2>2
<1> QED
  BY <1>5, <1>7, <1>8 DEF y

-----------------------------------------------------------------------------
(* Positions.                                                              *)

LEMMA PosParts ==
    ASSUME NEW x, Sound(x)
    PROVE  /\ Pos(x) \in Nat /\ x.block_index * B \in Nat /\ x.cur = x.block_index
           /\ x.pos_write < B => Pos(x) \div B = x.block_index /\ Pos(x) % B = x.pos_write
           /\ x.pos_write = B => /\ Pos(x) = (x.block_index + 1) * B
                                 /\ Pos(x) \div B = x.block_index + 1 /\ Pos(x) % B = 0
<1>1. /\ x.block_index \in Nat /\ x.pos_write \in Nat /\ x.block_index * B \in Nat
      /\ x.cur = x.block_index
  BY RecordFields, BlockStoreAssumption DEF Sound
<1>2. Pos(x) = x.block_index * B + x.pos_write
  BY DEF Pos
<1>3. x.pos_write < B => Pos(x) \div B = x.block_index /\ Pos(x) % B = x.pos_write
  BY <1>1, <1>2, DivIs
<1>4. ASSUME x.pos_write = B
      PROVE  /\ Pos(x) = (x.block_index + 1) * B
             /\ Pos(x) \div B = x.block_index + 1 /\ Pos(x) % B = 0
  <2> DEFINE q == x.block_index + 1
  <2>1. Pos(x) = q * B + 0
    BY <1>1, <1>2, <1>4, BlockStoreAssumption
  <2>2. q \in Nat /\ 0 < B /\ 0 \in Nat
    BY <1>1, BlockStoreAssumption
  <2> HIDE DEF q
  <2>3. Pos(x) \div B = q /\ Pos(x) % B = 0
    BY <2>1, <2>2, DivIs
  <2>4. Pos(x) = q * B
    BY <2>1, <2>2, BlockStoreAssumption
  <2> QED
    BY <2>3, <2>4 DEF q
<1> QED
  BY <1>1, <1>2, <1>3, <1>4

(* At the last block, the bytes up to the end of the buffer are all. *)
LEMMA ViewLen ==
    ASSUME NEW x, Ready(x), x.cur + 1 >= Len(x.file)
    PROVE  Len(View(x)) = x.cur * B + Len(x.buf)
<1>1. Sound(x) /\ WholeFile(x.file) /\ x.cur \in Nat /\ Len(x.file) \in Nat
      /\ x.cur <= Len(x.file) /\ x.dirty \in BOOLEAN
  BY RecordFields DEF Ready, Sound
<1>2. CASE x.dirty
  <2> DEFINE g == Stored(x.file, x.cur + 1, x.buf)
  <2>1. View(x) = Plain(g) /\ WholeFile(g)
    BY <1>1, <1>2, EncryptIs
  <2>2. Fits(x.file, x.cur + 1, x.buf)
    BY <1>1, <1>2, BufFits
  <2>3. PlainLen(g) = ((x.cur + 1) - 1) * B + Len(x.buf)
    BY <2>2, <1>1, StoredLen
  <2>4. (x.cur + 1) - 1 = x.cur
    BY <1>1
  <2> HIDE DEF g
  <2> QED
    BY <2>1, <2>3, <2>4, PlainIs
<1>3. CASE ~x.dirty
  <2>1. View(x) = Plain(x.file) /\ Len(View(x)) = PlainLen(x.file)
    BY <1>1, <1>3, ViewClean, PlainIs
  <2>2. CASE Loaded(x)
    <3>1. Len(x.file) - 1 = x.cur /\ x.file[Len(x.file)] = x.buf /\ x.file # <<>>
      BY <2>2, <1>1, WholeLen DEF Loaded
    <3>2. PlainLen(x.file) = (Len(x.file) - 1) * B + Len(x.file[Len(x.file)])
      BY <3>1, <1>1, WholeLen
    <3> QED
      BY <3>1, <3>2, <2>1
  <2>3. CASE x.buf = <<>> /\ x.cur = Len(x.file)
    <3>1. PlainLen(x.file) = Len(x.file) * B
      BY <2>3, <1>1, FullLen DEF Sound
    <3>2. Len(x.file) * B \in Nat /\ Len(x.buf) = 0
      BY <2>3, <1>1, EmptyLen, BlockStoreAssumption
    <3> QED
      BY <3>1, <3>2, <2>1, <2>3
  <2> QED
    BY <2>2, <2>3, <1>3 DEF Ready
<1> QED
  BY <1>2, <1>3

(* Inside the file there is more after the block. *)
LEMMA ViewLonger ==
    ASSUME NEW x, Sound(x), x.cur + 1 < Len(x.file)
    PROVE  Len(View(x)) > x.cur * B + B
<1>1. WholeFile(x.file) /\ x.cur \in Nat /\ Len(x.file) \in Nat /\ x.dirty \in BOOLEAN
  BY RecordFields DEF Sound
<1>2. Len(View(x)) = PlainLen(x.file)
  <2>1. CASE x.dirty
    <3> DEFINE g == Stored(x.file, x.cur + 1, x.buf)
    <3>1. View(x) = Plain(g) /\ WholeFile(g)
      BY <2>1, EncryptIs
    <3>2. PlainLen(g) = PlainLen(x.file)
      BY <2>1, <1>1, BufFits, StoredLen
    <3> HIDE DEF g
    <3> QED
      BY <3>1, <3>2, PlainIs
  <2>2. CASE ~x.dirty
    BY <2>2, <1>1, ViewClean, PlainIs
  <2> QED
    BY <2>1, <2>2
<1> DEFINE P == x.cur * B
           Q == (Len(x.file) - 1) * B
           l == Len(x.file[Len(x.file)])
<1>3. x.cur < Len(x.file) - 1 /\ Len(x.file) - 1 \in Nat /\ x.file # <<>>
  BY <1>1, WholeLen
<1>4. P + B <= Q /\ P \in Nat /\ Q \in Nat
  BY <1>1, <1>3, MulStrict
<1>5. PlainLen(x.file) = Q + l /\ l \in 1..B
  BY <1>1, <1>3, WholeLen
<1> HIDE DEF P, Q, l
<1>6. PlainLen(x.file) > P + B
  BY <1>4, <1>5, BlockStoreAssumption
<1> QED
  BY <1>2, <1>6 DEF P

LEMMA PosInside ==
    ASSUME NEW x, Ready(x) \/ Resting(x)
    PROVE  Pos(x) <= Len(View(x))
<1>1. /\ Sound(x) /\ x.cur \in Nat /\ Len(x.file) \in Nat /\ x.pos_write \in 0..B
      /\ x.pos_write <= Len(x.buf) /\ Len(x.buf) \in Nat /\ x.pos_write \in Nat
  <2>1. Sound(x)
    BY DEF Ready, Resting
  <2> QED
    BY <2>1, RecordFields DEF Sound
<1>2. Pos(x) = x.cur * B + x.pos_write /\ x.cur * B \in Nat
  BY <1>1, PosParts DEF Pos
<1>3. View(x) \in Seq(Bytes) /\ Len(View(x)) \in Nat
  BY <1>1, ViewIs
<1>4. CASE Ready(x) /\ x.cur + 1 >= Len(x.file)
  <2>1. Len(View(x)) = x.cur * B + Len(x.buf)
    BY <1>4, ViewLen
  <2> DEFINE P == x.cur * B
  <2> HIDE DEF P
  <2> QED
    BY <2>1, <1>1, <1>2 DEF P
<1>5. CASE ~(x.cur + 1 >= Len(x.file))
  <2> DEFINE P == x.cur * B
  <2>1. Len(View(x)) > P + B
    BY <1>1, <1>5, ViewLonger
  <2>2. Pos(x) = P + x.pos_write /\ P \in Nat
    BY <1>2
  <2> HIDE DEF P
  <2> QED
    BY <2>1, <2>2, <1>1, <1>3, BlockStoreAssumption
<1>6. CASE ~Ready(x) /\ x.cur + 1 >= Len(x.file)
  <2>1. x.buf = <<>> /\ x.cur = 0
    BY <1>6 DEF Ready, Resting
  <2>2. x.pos_write = 0
    BY <2>1, <1>1, EmptyLen
  <2>3. 0 * B = 0
    BY BlockStoreAssumption
  <2>4. Pos(x) = 0
    BY <2>1, <2>2, <2>3, <1>2
  <2> QED
    BY <2>4, <1>3
<1> QED
  BY <1>4, <1>5, <1>6

-----------------------------------------------------------------------------
(* Filling with zeros.                                                     *)

AtEnd(x) == Ready(x) /\ x.pos_write = Len(x.buf) /\ x.cur + 1 >= Len(x.file)

LEMMA EndPos ==
    ASSUME NEW x, AtEnd(x)
    PROVE  Pos(x) = Len(View(x))
<1>1. Len(View(x)) = x.cur * B + Len(x.buf)
  BY ViewLen DEF AtEnd
<1>2. x.cur = x.block_index /\ x.pos_write = Len(x.buf)
  BY DEF AtEnd, Ready, Sound
<1> QED
  BY <1>1, <1>2 DEF Pos

LEMMA FillStep ==
    ASSUME NEW x, AtEnd(x)
    PROVE  LET y == WriteInner(x, 0)
           IN  /\ AtEnd(y) /\ y.dirty
               /\ View(y) = PutByte(View(x), Len(View(x)), 0)
<1> DEFINE y == WriteInner(x, 0)
<1>1. /\ Sound(x) /\ x.cur \in Nat /\ Len(x.file) \in Nat /\ x.pos_write \in 0..B
      /\ x.pos_write \in Nat /\ Len(x.buf) \in Nat /\ 0 \in Bytes /\ x.dirty \in BOOLEAN
  BY RecordFields, CryptoWriterAssumption DEF AtEnd, Ready
<1>2. CASE x.pos_write < B
  <2>1. /\ Sound(y) /\ y.dirty /\ y.file = x.file /\ y.cur = x.cur
        /\ y.pos_write = x.pos_write + 1
        /\ Len(y.buf) = MaxOf(Len(x.buf), x.pos_write + 1)
        /\ View(y) = PutByte(View(x), Pos(x), 0)
    BY <1>1, <1>2, WriteReady DEF AtEnd
  <2> HIDE DEF y
  <2>2. y.pos_write = Len(y.buf)
    BY <2>1, <1>1 DEF AtEnd, MaxOf
  <2>3. AtEnd(y)
    BY <2>1, <2>2 DEF AtEnd, Ready
  <2> QED
    BY <2>1, <2>3, EndPos DEF y
<1>3. CASE x.pos_write = B
  <2> DEFINE e == EncryptAndWrite(x)
  <2>1. x.dirty /\ Len(x.buf) = B
    <3>1. Len(x.buf) = B /\ B # 0 /\ ~(x.pos_write < B)
      BY <1>1, <1>3, BlockStoreAssumption DEF AtEnd
    <3>2. x.buf # <<>>
      BY <3>1, EmptyLen
    <3> QED
      BY <3>1, <3>2 DEF AtEnd, Ready, Loaded
  <2>2. Sound(e) /\ View(e) = View(x)
    BY <2>1, <1>1, EncryptFull
  <2>3. /\ ~e.dirty /\ ~e.failed /\ Len(e.file) = MaxOf(Len(x.file), x.cur + 1)
        /\ e.cur = x.cur + 1 /\ e.buf = <<>> /\ e.pos_write = 0
    BY <2>1, <1>1, EncryptIs
  <2>4. FlushInner(x) = e
    BY <2>1, <1>3 DEF FlushInner
  <2> HIDE DEF e
  <2>5. FlushInner(e) = e
    BY <2>3 DEF FlushInner
  <2>6. y = WriteInner(e, 0)
    BY <2>4, <2>5 DEF WriteInner
  <2>7. e.cur = Len(e.file)
    BY <2>3, <1>1 DEF AtEnd, MaxOf
  <2>8. Ready(e) /\ e.pos_write < B /\ Len(e.buf) = 0 /\ e.cur \in Nat
    BY <2>2, <2>3, <2>7, <1>1, EmptyLen, BlockStoreAssumption DEF Ready
  <2>9. AtEnd(e)
    BY <2>3, <2>7, <2>8, <1>1 DEF AtEnd
  <2>10. /\ Sound(y) /\ y.dirty /\ y.file = e.file /\ y.cur = e.cur
         /\ y.pos_write = e.pos_write + 1
         /\ Len(y.buf) = MaxOf(Len(e.buf), e.pos_write + 1)
         /\ View(y) = PutByte(View(e), Pos(e), 0)
    BY <2>6, <2>8, <1>1, WriteReady
  <2> HIDE DEF y
  <2>11. y.pos_write = Len(y.buf) /\ y.cur + 1 >= Len(y.file)
    BY <2>3, <2>7, <2>8, <2>10 DEF MaxOf
  <2>12. AtEnd(y)
    BY <2>10, <2>11 DEF AtEnd, Ready
  <2> QED
    BY <2>2, <2>9, <2>10, <2>12, EndPos DEF y
<1> QED
  BY <1>1, <1>2, <1>3, BlockStoreAssumption

(* The states fill_zeros runs through. *)
Filling(f, x, n) == f = [k \in 0..n |-> IF k = 0 THEN x ELSE WriteInner(f[k - 1], 0)]

LEMMA FillExists ==
    ASSUME NEW x, NEW n \in Nat
    PROVE  \E f : Filling(f, x, n)
<1> DEFINE T == {m \in Nat : ~\E f : Filling(f, x, m)}
<1>1. SUFFICES ASSUME T # {} PROVE FALSE
  OBVIOUS
<1>2. PICK m \in T : \A k \in T : m <= k
  BY <1>1, NatLeast
<1>3. CASE m = 0
  <2>1. Filling([k \in 0..0 |-> x], x, 0)
    BY DEF Filling
  <2> QED
    BY <2>1, <1>2, <1>3
<1>4. CASE m # 0
  <2>1. m - 1 \in Nat /\ m - 1 \notin T
    BY <1>2, <1>4
  <2>2. PICK g : Filling(g, x, m - 1)
    BY <2>1
  <2> DEFINE f == [k \in 0..m |-> IF k = m THEN WriteInner(g[m - 1], 0) ELSE g[k]]
  <2>3. ASSUME NEW k \in 0..m PROVE f[k] = IF k = 0 THEN x ELSE WriteInner(f[k - 1], 0)
    BY <2>1, <2>2, <1>4 DEF Filling
  <2>4. Filling(f, x, m)
    BY <2>3 DEF Filling
  <2> QED
    BY <2>4, <1>2
<1> QED
  BY <1>3, <1>4

LEMMA FillZerosIs ==
    ASSUME NEW x, AtEnd(x), NEW n \in Nat
    PROVE  LET y == FillZeros(x, n)
           IN  /\ AtEnd(y) /\ (n > 0 => y.dirty)
               /\ View(y) = Resize(View(x), Len(View(x)) + n)
<1> DEFINE f == CHOOSE f : Filling(f, x, n)
<1>1. Filling(f, x, n)
  BY FillExists
<1>2. FillZeros(x, n) = f[n]
  BY DEF FillZeros, Filling
<1> HIDE DEF f
<1>3. f[0] = x /\ \A k \in 0..n : k # 0 => f[k] = WriteInner(f[k - 1], 0)
  BY <1>1 DEF Filling
<1> DEFINE v == View(x)
           Done(k) == /\ AtEnd(f[k]) /\ (k > 0 => f[k].dirty)
                      /\ View(f[k]) = Resize(v, Len(v) + k)
           T == {k \in 0..n : ~Done(k)}
<1>4. v \in Seq(Bytes) /\ Len(v) \in Nat
  BY ViewIs DEF AtEnd, Ready
<1> HIDE DEF v
<1>5. Done(0)
  <2>1. View(x) = Resize(v, Len(v) + 0)
    BY <1>4, ResizeSame DEF v
  <2> QED
    BY <2>1, <1>3
<1>6. ASSUME NEW k \in 0..n, k # 0, Done(k - 1) PROVE Done(k)
  <2>1. f[k] = WriteInner(f[k - 1], 0) /\ AtEnd(f[k - 1]) /\ k \in Nat /\ k - 1 \in Nat
    BY <1>3, <1>6
  <2>2. AtEnd(f[k]) /\ f[k].dirty
        /\ View(f[k]) = PutByte(View(f[k - 1]), Len(View(f[k - 1])), 0)
    BY <2>1, FillStep
  <2> DEFINE l == Len(v) + (k - 1)
  <2>3. l \in Nat /\ l >= Len(v) /\ l + 1 = Len(v) + k
    BY <1>4, <2>1
  <2>4. View(f[k - 1]) = Resize(v, l)
    BY <1>6
  <2> HIDE DEF l
  <2>5. Len(Resize(v, l)) = l
    BY <1>4, <2>3, ResizeIs
  <2>6. View(f[k]) = Resize(v, Len(v) + k)
    BY <2>2, <2>3, <2>4, <2>5, <1>4, PutIsResize
  <2> QED
    BY <2>2, <2>6
<1> HIDE DEF Done
<1>7. T = {}
  <2> SUFFICES ASSUME T # {} PROVE FALSE
    OBVIOUS
  <2>1. PICK m \in T : \A k \in T : m <= k
    <3>1. T \subseteq Nat
      OBVIOUS
    <3> HIDE DEF T
    <3> QED
      BY <3>1, NatLeast
  <2>2. m \in 0..n /\ ~Done(m) /\ m # 0 /\ m \in Nat
    BY <2>1, <1>5
  <2>3. m - 1 \in 0..n /\ m - 1 \notin T
    BY <2>1, <2>2
  <2> QED
    BY <2>2, <2>3, <1>6
<1>8. Done(n)
  BY <1>7
<1> QED
  BY <1>2, <1>8 DEF Done, v

-----------------------------------------------------------------------------
(* Seeking.                                                                *)

LEMMA FullBlocksIs ==
    ASSUME NEW f, WholeFile(f)
    PROVE  /\ FullBlocks(f) \in Nat /\ FullBlocks(f) <= Len(f) /\ FullBlocks(f) + 1 >= Len(f)
           /\ FullBlocks(f) = Len(f) => AllFull(f)
           /\ FullBlocks(f) < Len(f) => Len(f[FullBlocks(f) + 1]) < B
<1>1. Len(f) \in Nat /\ (f = <<>> <=> Len(f) = 0)
  BY WholeLen
<1>2. CASE f = <<>>
  BY <1>1, <1>2 DEF FullBlocks, AllFull
<1>3. CASE f # <<>>
  <2>1. f[Len(f)] \in Seq(Bytes) /\ Len(f[Len(f)]) \in 1..B /\ Len(f) - 1 \in Nat
    BY <1>3, WholeLen
  <2>2. Full(Last(f)) <=> Len(f[Len(f)]) = B
    BY <2>1, NotTorn DEF Full, Last
  <2>3. CASE Len(f[Len(f)]) = B
    <3>1. FullBlocks(f) = Len(f)
      BY <2>2, <2>3 DEF FullBlocks
    <3>2. AllFull(f)
      BY <2>3, <1>1 DEF AllFull, WholeFile
    <3> QED
      BY <3>1, <3>2, <1>1
  <2>4. CASE Len(f[Len(f)]) # B
    <3>1. FullBlocks(f) = Len(f) - 1
      BY <2>2, <2>4, <1>3 DEF FullBlocks
    <3> DEFINE m == Len(f) - 1
    <3>2. m \in Nat /\ m + 1 = Len(f) /\ Len(f[m + 1]) < B
      BY <2>1, <2>4, <1>1, BlockStoreAssumption
    <3> HIDE DEF m
    <3>3. FullBlocks(f) = m
      BY <3>1 DEF m
    <3> QED
      BY <3>2, <3>3
  <2> QED
    BY <2>3, <2>4
<1> QED
  BY <1>2, <1>3

LEMMA FlushedIs ==
    ASSUME NEW x, Resting(x)
    PROVE  LET y == Flushed(x)
           IN  /\ y \in Records /\ ~y.failed /\ y.dirty = FALSE /\ y.buf = <<>> /\ y.pos_write = 0
               /\ WholeFile(y.file) /\ Plain(y.file) = View(x)
<1>1. Sound(x) /\ x \in Records /\ x.dirty \in BOOLEAN /\ x.pos_write \in Nat
  BY RecordFields DEF Resting, Sound
<1>2. CASE x.dirty
  <2> DEFINE e == EncryptAndWrite(x)
  <2>1. /\ e \in Records /\ ~e.failed /\ ~e.dirty /\ WholeFile(e.file)
        /\ e.buf = <<>> /\ e.pos_write = 0 /\ View(x) = Plain(e.file)
    BY <1>1, <1>2, EncryptIs
  <2>2. Flushed(x) = e
    BY <1>2 DEF Flushed
  <2> HIDE DEF e
  <2>3. e.dirty = FALSE
    BY <2>1 DEF Records
  <2> QED
    BY <2>1, <2>2, <2>3
<1>3. CASE ~x.dirty
  <2>1. Flushed(x) = x /\ x.buf = <<>> /\ x.dirty = FALSE
    BY <1>1, <1>3 DEF Flushed, Resting
  <2>2. x.pos_write = 0
    BY <2>1, <1>1, EmptyLen DEF Sound
  <2> QED
    BY <2>1, <2>2, <1>1, ViewClean DEF Sound
<1> QED
  BY <1>2, <1>3

(* The first call loads the first block, if there is one. *)
LEMMA LoadFirstIs ==
    ASSUME NEW x, Ready(x) \/ Resting(x)
    PROVE  LET y == LoadFirst(x)
           IN  /\ Ready(y) /\ View(y) = View(x) /\ y.cur = x.cur /\ y.pos_write = x.pos_write
               /\ ~Untouched(x) => y = x
<1>1. /\ Sound(x) /\ x \in Records /\ x.pos_write \in Nat /\ x.cur = x.block_index /\ x.cur \in Nat
      /\ x.dirty \in BOOLEAN
  <2>1. Sound(x)
    BY DEF Ready, Resting
  <2> QED
    BY <2>1, RecordFields DEF Sound
<1>2. CASE Untouched(x)
  <2>1. x.buf = <<>> /\ Pos(x) = 0 /\ ~x.dirty
    BY <1>1, <1>2 DEF Untouched, Sound
  <2>2. x.pos_write = 0 /\ x.pos_write < B
    BY <2>1, <1>1, EmptyLen, BlockStoreAssumption DEF Sound
  <2>3. x.block_index = 0 /\ x.cur = 0
    <3>1. 0 \div B = 0
      BY BlockStoreAssumption
    <3> QED
      BY <3>1, <2>1, <2>2, <1>1, PosParts
  <2>4. [x EXCEPT !.cur = 0, !.block_index = 0] = x
    BY <2>3, <1>1 DEF Records
  <2>5. LoadFirst(x) = DecryptBlock(x)
    BY <2>4, <1>2 DEF LoadFirst
  <2> QED
    BY <2>1, <2>2, <2>5, <1>1, <1>2, DecryptIs
<1>3. CASE ~Untouched(x)
  <2>1. LoadFirst(x) = x
    BY <1>3 DEF LoadFirst
  <2>2. Ready(x)
    <3> SUFFICES ASSUME ~Ready(x) PROVE FALSE
      OBVIOUS
    <3>1. x.buf = <<>> /\ x.cur = 0
      BY <1>1 DEF Ready, Resting
    <3>2. x.pos_write = 0
      BY <3>1, <1>1, EmptyLen DEF Sound
    <3>3. 0 * B + 0 = 0
      BY BlockStoreAssumption
    <3>4. Pos(x) = 0
      BY <3>1, <3>2, <3>3, <1>1 DEF Pos
    <3> QED
      BY <3>1, <3>4, <1>3 DEF Untouched
  <2> QED
    BY <2>1, <2>2
<1> QED
  BY <1>2, <1>3

(* The position at the end of a block that is dirty is the start of the    *)
(* next one.                                                               *)
LEMMA NextBlockIs ==
    ASSUME NEW x, Ready(x), x.pos_write = B
    PROVE  LET e == EncryptAndWrite(x)
           IN  /\ x.dirty /\ Sound(e) /\ ~e.dirty /\ e.buf = <<>> /\ e.pos_write = 0
               /\ e.cur = x.cur + 1 /\ e.cur <= Len(e.file) /\ View(e) = View(x)
               /\ Pos(e) = Pos(x) /\ Pos(e) \div B = e.cur
<1> DEFINE e == EncryptAndWrite(x)
<1>1. /\ Sound(x) /\ Len(x.buf) \in Nat /\ x.cur \in Nat /\ Len(x.buf) <= B
      /\ x.pos_write <= Len(x.buf) /\ B \in Nat /\ B # 0
  BY RecordFields, BlockStoreAssumption DEF Ready, Sound
<1>2. x.dirty /\ Len(x.buf) = B
  <2>1. Len(x.buf) = B /\ ~(x.pos_write < B)
    BY <1>1
  <2>2. x.buf # <<>>
    BY <2>1, <1>1, EmptyLen
  <2> QED
    BY <2>1, <2>2 DEF Ready, Loaded
<1>3. Sound(e) /\ View(e) = View(x)
  BY <1>1, <1>2, EncryptFull
<1>4. ~e.dirty /\ e.buf = <<>> /\ e.pos_write = 0 /\ e.cur = x.cur + 1 /\ e.block_index = x.cur + 1
  BY <1>1, <1>2, EncryptIs
<1> HIDE DEF e
<1>5. Pos(x) = (x.block_index + 1) * B /\ x.block_index = x.cur
  BY <1>1, PosParts
<1>6. Pos(e) = Pos(x)
  <2>1. (x.cur + 1) * B + 0 = (x.cur + 1) * B
    BY <1>1
  <2> QED
    BY <2>1, <1>4, <1>5 DEF Pos
<1>7. Pos(e) \div B = e.cur
  BY <1>1, <1>3, <1>4, PosParts
<1> QED
  BY <1>2, <1>3, <1>4, <1>6, <1>7 DEF e, Sound

LEMMA SameBlockIs ==
    ASSUME NEW x, Resting(x), NEW n \in Nat, Pos(x) \div B = n \div B
    PROVE  LET s == SeekSameBlock(x, n)
           IN  /\ Ready(s) /\ View(s) = View(x) /\ s.block_index = n \div B
               /\ s.pos_write = MinOf(n % B, Len(s.buf))
<1> DEFINE y == LoadFirst(x)
           atFullBlockEnd == Pos(y) % B = 0 /\ y.pos_write = Len(y.buf)
           z == IF y.buf = <<>> \/ atFullBlockEnd THEN DecryptBlock(Flushed(y)) ELSE y
<1>1. Ready(y) /\ View(y) = View(x) /\ y.cur = x.cur /\ y.pos_write = x.pos_write
  BY LoadFirstIs
<1>2. /\ Sound(y) /\ y.cur = y.block_index /\ y.cur \in Nat /\ y.pos_write \in 0..B
      /\ y.pos_write \in Nat /\ Len(y.buf) \in Nat /\ y.pos_write <= Len(y.buf) /\ Len(y.buf) <= B
      /\ (y.buf = <<>> <=> Len(y.buf) = 0)
  <2> HIDE DEF y
  <2> QED
    BY <1>1, RecordFields DEF Ready, Sound
<1>3. Pos(y) = Pos(x)
  <2>1. x.cur = x.block_index
    BY DEF Resting, Sound
  <2> HIDE DEF y
  <2> QED
    BY <2>1, <1>1, <1>2 DEF Pos
<1>4. SeekSameBlock(x, n) = SeekBuf(z, n % B)
  BY DEF SeekSameBlock
<1> HIDE DEF y
<1>5. Ready(z) /\ View(z) = View(x) /\ z.block_index = n \div B
  <2>1. CASE y.buf = <<>>
    <3>1. ~y.dirty /\ Flushed(y) = y
      BY <2>1, <1>2 DEF Flushed, Sound
    <3>2. z = DecryptBlock(y)
      BY <2>1, <3>1
    <3>3. Ready(z) /\ z.cur = y.cur /\ View(z) = View(y)
      BY <3>1, <3>2, <2>1, <1>2, DecryptIs
    <3>4. y.pos_write < B
      BY <2>1, <1>2, BlockStoreAssumption
    <3>5. y.block_index = n \div B
      BY <3>4, <1>2, <1>3, PosParts
    <3> HIDE DEF z
    <3> QED
      BY <3>3, <3>5, <1>1, <1>2 DEF Ready, Sound
  <2>2. CASE y.buf # <<>> /\ atFullBlockEnd
    <3>1. y.pos_write = B
      <4>1. y.pos_write < B => y.pos_write = 0
        BY <2>2, <1>2, PosParts
      <4> QED
        BY <4>1, <2>2, <1>2, BlockStoreAssumption
    <3> DEFINE e == EncryptAndWrite(y)
    <3>2. /\ y.dirty /\ Sound(e) /\ ~e.dirty /\ e.buf = <<>>
          /\ View(e) = View(y) /\ Pos(e) = Pos(y) /\ Pos(e) \div B = e.cur
      BY <3>1, <1>1, NextBlockIs
    <3>3. z = DecryptBlock(e)
      BY <3>2, <2>2 DEF Flushed
    <3> HIDE DEF e
    <3>4. Ready(z) /\ z.cur = e.cur /\ View(z) = View(e)
      BY <3>2, <3>3, DecryptIs
    <3> HIDE DEF z
    <3> QED
      BY <3>2, <3>4, <1>1, <1>3 DEF Ready, Sound
  <2>3. CASE ~(y.buf = <<>> \/ atFullBlockEnd)
    <3>1. y.pos_write < B
      <4>1. y.pos_write = B => atFullBlockEnd
        BY <1>2, PosParts, BlockStoreAssumption
      <4> QED
        BY <4>1, <2>3, <1>2, BlockStoreAssumption
    <3>2. z = y /\ y.block_index = n \div B
      BY <3>1, <2>3, <1>2, <1>3, PosParts
    <3> QED
      BY <3>2, <1>1
  <2> QED
    BY <2>1, <2>2, <2>3
<1> HIDE DEF z
<1>6. n % B \in Nat /\ n % B < B
  BY DivRange
<1> QED
  BY <1>4, <1>5, <1>6, SeekBufIs

LEMMA OtherBlockIs ==
    ASSUME NEW x, Resting(x), NEW n \in Nat
    PROVE  LET s == SeekOtherBlock(x, n)
           IN  /\ Ready(s) /\ View(s) = View(x)
               /\ \/ s.block_index = n \div B /\ s.pos_write = MinOf(n % B, Len(s.buf))
                  \/ s.block_index < n \div B /\ AtEnd(s)
<1> DEFINE y == Flushed(x)
           full == FullBlocks(y.file)
           target == MinOf(n \div B, full)
           v == [y EXCEPT !.cur = target, !.block_index = target]
           z == DecryptBlock(v)
<1>1. /\ y \in Records /\ ~y.failed /\ y.dirty = FALSE /\ y.buf = <<>> /\ y.pos_write = 0
      /\ WholeFile(y.file) /\ Plain(y.file) = View(x)
  BY FlushedIs
<1>2. /\ full \in Nat /\ full <= Len(y.file) /\ full + 1 >= Len(y.file)
      /\ full = Len(y.file) => AllFull(y.file)
      /\ full < Len(y.file) => Len(y.file[full + 1]) < B
  BY <1>1, FullBlocksIs
<1>3. SeekOtherBlock(x, n) = IF z.block_index = n \div B THEN SeekBuf(z, n % B)
                             ELSE SeekBuf(z, Len(z.buf))
  BY DEF SeekOtherBlock
<1> HIDE DEF y, full
<1>4. n \div B \in Nat /\ n % B \in Nat /\ n % B < B /\ Len(y.file) \in Nat
  <2>1. n \div B \in Nat /\ n % B \in Nat /\ n % B < B
    BY DivRange
  <2>2. Len(y.file) \in Nat
    BY <1>1, WholeLen
  <2> QED
    BY <2>1, <2>2
<1>5. target \in Nat /\ target <= full /\ target <= n \div B
      /\ (target # n \div B => target = full /\ target < n \div B)
  <2> DEFINE d == n \div B
  <2>1. d \in Nat
    BY <1>4
  <2> HIDE DEF d
  <2> QED
    BY <2>1, <1>2 DEF MinOf, d
<1> HIDE DEF target
<1>6. v \in Records
  BY <1>1, <1>5 DEF Records
<1>7. /\ v.file = y.file /\ v.cur = target /\ v.block_index = target /\ v.buf = <<>>
      /\ v.pos_write = 0 /\ v.dirty = FALSE /\ ~v.failed
  BY <1>1 DEF Records
<1> HIDE DEF v
<1>8. Sound(v)
  <2>1. Len(v.buf) <= B /\ v.pos_write <= Len(v.buf)
    BY <1>7, EmptyLen, BlockStoreAssumption
  <2>2. target <= Len(y.file) /\ (target = Len(y.file) => AllFull(y.file))
    BY <1>2, <1>4, <1>5
  <2> QED
    BY <2>1, <2>2, <1>1, <1>6, <1>7 DEF Sound
<1>9. /\ Ready(z) /\ ~z.dirty /\ z.file = y.file /\ z.cur = target /\ z.pos_write = 0
      /\ View(z) = View(v)
  BY <1>7, <1>8, DecryptIs
<1>10. View(z) = View(x)
  <2>1. View(v) = Plain(v.file)
    BY <1>7, ViewClean
  <2> HIDE DEF z
  <2> QED
    BY <2>1, <1>1, <1>7, <1>9
<1> HIDE DEF z
<1>11. z.block_index = target /\ z.cur = z.block_index /\ Len(z.buf) \in Nat
  BY <1>9, RecordFields DEF Ready, Sound
<1> DEFINE s == SeekOtherBlock(x, n)
<1>12. CASE target = n \div B
  <2>1. s = SeekBuf(z, n % B)
    BY <1>3, <1>11, <1>12
  <2>2. /\ Ready(s) /\ s.block_index = z.block_index /\ s.buf = z.buf
        /\ s.pos_write = MinOf(n % B, Len(z.buf)) /\ View(s) = View(z)
    BY <2>1, <1>4, <1>9, SeekBufIs
  <2> QED
    BY <2>2, <1>10, <1>11, <1>12
<1>13. CASE target # n \div B
  <2>1. target = full /\ target < n \div B
    BY <1>5, <1>13
  <2>2. Len(z.buf) < B
    <3>1. CASE Loaded(z)
      BY <3>1, <2>1, <1>2, <1>9 DEF Loaded
    <3>2. CASE z.buf = <<>>
      BY <3>2, EmptyLen, BlockStoreAssumption
    <3> QED
      BY <3>1, <3>2, <1>9 DEF Ready
  <2>3. s = SeekBuf(z, Len(z.buf))
    BY <1>3, <1>11, <1>13
  <2>4. /\ Ready(s) /\ s.file = z.file /\ s.cur = z.cur /\ s.block_index = z.block_index
        /\ s.buf = z.buf /\ s.pos_write = MinOf(Len(z.buf), Len(z.buf)) /\ View(s) = View(z)
    BY <2>2, <2>3, <1>9, <1>11, SeekBufIs
  <2>5. s.pos_write = Len(s.buf)
    BY <2>4, <1>11 DEF MinOf
  <2>6. AtEnd(s)
    BY <2>1, <2>4, <2>5, <1>2, <1>9 DEF AtEnd
  <2> QED
    BY <2>1, <2>4, <2>6, <1>10, <1>11
<1> QED
  BY <1>12, <1>13

(* A seek ends at its offset, and extends the file with zeros if it must. *)
LEMMA SeekToIs ==
    ASSUME NEW x, Resting(x), NEW n \in Nat
    PROVE  LET y == SeekTo(x, n)
           IN  /\ Ready(y) \/ Resting(y)
               /\ Pos(y) = n /\ ~y.failed
               /\ n <= Len(View(x)) => View(y) = View(x)
               /\ n > Len(View(x)) => y.dirty /\ View(y) = Resize(View(x), n)
<1> DEFINE y == IF Pos(x) \div B = n \div B THEN SeekSameBlock(x, n) ELSE SeekOtherBlock(x, n)
           d == n \div B
           m == n % B
<1>1. Sound(x) /\ ~x.failed /\ Len(View(x)) \in Nat /\ View(x) \in Seq(Bytes)
  BY ViewIs DEF Resting, Sound
<1>2. CASE n = Pos(x)
  <2>1. SeekTo(x, n) = x
    BY <1>2 DEF SeekTo
  <2>2. Pos(x) <= Len(View(x))
    BY PosInside
  <2> QED
    BY <2>1, <2>2, <1>1, <1>2
<1>3. CASE n # Pos(x)
  <2>1. SeekTo(x, n) = IF ~y.failed /\ Pos(y) < n THEN FillZeros(y, n - Pos(y)) ELSE y
    BY <1>3 DEF SeekTo
  <2>2. /\ Ready(y) /\ View(y) = View(x)
        /\ \/ y.block_index = d /\ y.pos_write = MinOf(m, Len(y.buf))
           \/ y.block_index < d /\ AtEnd(y)
    <3>1. CASE Pos(x) \div B = n \div B
      BY <3>1, SameBlockIs
    <3>2. CASE Pos(x) \div B # n \div B
      BY <3>2, OtherBlockIs
    <3> QED
      BY <3>1, <3>2
  <2>3. d \in Nat /\ m \in 0..(B - 1) /\ n = d * B + m /\ d * B \in Nat
    BY DivRange
  <2> HIDE DEF y, d, m
  <2>4. /\ Sound(y) /\ ~y.failed /\ y.cur = y.block_index /\ y.block_index \in Nat
        /\ Len(y.buf) \in Nat /\ y.pos_write \in Nat /\ y.pos_write <= Len(y.buf)
        /\ Len(y.buf) <= B /\ Len(y.file) \in Nat
    BY <2>2, RecordFields DEF Ready, Sound
  <2>5. Pos(y) = y.block_index * B + y.pos_write /\ y.block_index * B \in Nat /\ Pos(y) \in Nat
    BY <2>4, PosParts DEF Pos
  <2>6. Pos(y) = n \/ (Pos(y) < n /\ AtEnd(y))
    <3>1. CASE y.block_index = d /\ y.pos_write = MinOf(m, Len(y.buf))
      <4> DEFINE P == d * B
      <4>1. Pos(y) = P + y.pos_write /\ n = P + m /\ P \in Nat
        BY <3>1, <2>3, <2>5
      <4> HIDE DEF P
      <4>2. CASE m <= Len(y.buf)
        BY <4>1, <4>2, <3>1 DEF MinOf
      <4>3. CASE ~(m <= Len(y.buf))
        <5>1. y.pos_write = Len(y.buf) /\ Pos(y) < n /\ Len(y.buf) < B
          BY <4>1, <4>3, <3>1, <2>3, <2>4, BlockStoreAssumption DEF MinOf
        <5>2. y.cur + 1 >= Len(y.file)
          <6> SUFFICES ASSUME y.cur + 1 < Len(y.file) PROVE FALSE
            BY <2>4
          <6>1. Len(y.file[y.cur + 1]) = B /\ y.cur < Len(y.file)
            BY <2>4 DEF Sound, WholeFile
          <6>2. y.dirty \/ Loaded(y)
            BY <2>2, <2>4 DEF Ready
          <6> QED
            BY <6>1, <6>2, <5>1, <2>4, BlockStoreAssumption DEF Sound, Loaded
        <5> QED
          BY <5>1, <5>2, <2>2 DEF AtEnd
      <4> QED
        BY <4>2, <4>3
    <3>2. CASE y.block_index < d /\ AtEnd(y)
      <4> DEFINE P == y.block_index * B
                 Q == d * B
      <4>1. P + B <= Q /\ Q \in Nat /\ P \in Nat
        BY <3>2, <2>3, <2>4, MulStrict
      <4>2. Pos(y) = P + y.pos_write /\ n = Q + m
        BY <2>3, <2>5
      <4> HIDE DEF P, Q
      <4>3. Pos(y) <= n
        BY <4>1, <4>2, <2>3, <2>4, BlockStoreAssumption
      <4> QED
        BY <4>3, <3>2, <2>5
    <3> QED
      BY <3>1, <3>2, <2>2
  <2>7. CASE Pos(y) = n
    <3>1. SeekTo(x, n) = y
      BY <2>1, <2>7
    <3>2. Pos(y) <= Len(View(y))
      BY <2>2, PosInside
    <3> QED
      BY <3>1, <3>2, <2>2, <2>4, <2>7, <1>1
  <2>8. CASE Pos(y) < n /\ AtEnd(y)
    <3> DEFINE k == n - Pos(y)
               z == FillZeros(y, k)
    <3>1. SeekTo(x, n) = z
      BY <2>1, <2>4, <2>8
    <3>2. k \in Nat /\ k > 0 /\ Pos(y) + k = n
      BY <2>5, <2>8
    <3> HIDE DEF k
    <3>3. AtEnd(z) /\ z.dirty /\ View(z) = Resize(View(y), Len(View(y)) + k)
      BY <3>2, <2>8, FillZerosIs
    <3> HIDE DEF z
    <3>4. Len(View(y)) = Pos(y)
      BY <2>8, EndPos
    <3>5. View(z) = Resize(View(x), n) /\ Len(View(x)) < n
      BY <3>2, <3>3, <3>4, <2>2, <2>8
    <3>6. Pos(z) = n
      BY <3>3, <3>5, <1>1, EndPos, ResizeIs
    <3>7. Ready(z) /\ ~z.failed
      BY <3>3 DEF AtEnd, Ready, Sound
    <3> QED
      BY <3>1, <3>3, <3>5, <3>6, <3>7, <1>1
  <2> QED
    BY <2>6, <2>7, <2>8
<1> QED
  BY <1>2, <1>3

LEMMA WriteByteIs ==
    ASSUME NEW x, Ready(x) \/ Resting(x), NEW b \in Bytes
    PROVE  LET y == WriteByte(x, b)
           IN  Sound(y) /\ y.dirty /\ View(y) = PutByte(View(x), Pos(x), b)
<1> DEFINE f == FlushInner(x)
           y == IF Untouched(x) THEN LoadFirst(x)
                ELSE IF x.dirty /\ x.pos_write = B
                     THEN IF Len(f.file) > Pos(f) \div B THEN DecryptBlock(f) ELSE f
                ELSE x
<1>1. /\ Sound(x) /\ x.pos_write \in Nat /\ x.cur = x.block_index /\ x.cur \in Nat
      /\ x.pos_write \in 0..B /\ x.pos_write <= Len(x.buf)
  <2>1. Sound(x)
    BY DEF Ready, Resting
  <2> QED
    BY <2>1, RecordFields DEF Sound
<1>2. WriteByte(x, b) = IF y.failed THEN y ELSE WriteInner(y, b)
  BY DEF WriteByte
<1>3. Ready(y) /\ y.pos_write < B /\ View(y) = View(x) /\ Pos(y) = Pos(x)
  <2>1. CASE Untouched(x)
    <3>1. y = LoadFirst(x)
      BY <2>1
    <3>2. Ready(y) /\ View(y) = View(x) /\ y.cur = x.cur /\ y.pos_write = x.pos_write
      BY <3>1, LoadFirstIs
    <3> HIDE DEF y
    <3>3. x.pos_write = 0
      BY <2>1, <1>1, EmptyLen DEF Untouched
    <3>4. y.cur = y.block_index
      BY <3>2 DEF Ready, Sound
    <3> QED
      <4>1. Pos(y) = Pos(x)
        BY <3>2, <3>4, <1>1 DEF Pos
      <4>2. y.pos_write < B
        BY <3>2, <3>3, BlockStoreAssumption
      <4> QED
        BY <3>2, <4>1, <4>2
  <2>2. CASE ~Untouched(x) /\ x.dirty /\ x.pos_write = B
    <3> DEFINE e == EncryptAndWrite(x)
    <3>1. Ready(x)
      BY <2>2, <1>1 DEF Ready
    <3>2. /\ Sound(e) /\ ~e.dirty /\ e.buf = <<>> /\ e.pos_write = 0
          /\ e.cur <= Len(e.file) /\ View(e) = View(x)
          /\ Pos(e) = Pos(x) /\ Pos(e) \div B = e.cur
      BY <3>1, <2>2, NextBlockIs
    <3>3. f = e
      BY <2>2 DEF FlushInner
    <3>4. y = IF Len(e.file) > Pos(e) \div B THEN DecryptBlock(e) ELSE e
      BY <2>2, <3>3
    <3> HIDE DEF e, y
    <3>5. e.cur \in Nat /\ Len(e.file) \in Nat /\ 0 < B
      BY <3>2, RecordFields, BlockStoreAssumption
    <3>6. CASE Len(e.file) > e.cur
      <4>1. y = DecryptBlock(e)
        BY <3>2, <3>4, <3>6
      <4>2. Ready(y) /\ y.cur = e.cur /\ y.pos_write = 0 /\ View(y) = View(e)
        BY <4>1, <3>2, DecryptIs
      <4>3. y.cur = y.block_index /\ e.cur = e.block_index
        BY <4>2, <3>2 DEF Ready, Sound
      <4>4. Pos(y) = Pos(e)
        BY <4>2, <4>3, <3>2 DEF Pos
      <4> QED
        BY <4>2, <4>4, <3>2, <3>5
    <3>7. CASE ~(Len(e.file) > e.cur)
      <4>1. y = e /\ e.cur = Len(e.file)
        BY <3>2, <3>4, <3>5, <3>7
      <4> QED
        BY <4>1, <3>2, <3>5 DEF Ready
    <3> QED
      BY <3>6, <3>7
  <2>3. CASE ~Untouched(x) /\ ~(x.dirty /\ x.pos_write = B)
    <3>1. y = x
      BY <2>3
    <3>2. Ready(x)
      BY <2>3, LoadFirstIs
    <3>3. x.pos_write < B
      <4>1. CASE x.dirty
        BY <4>1, <2>3, <1>1, BlockStoreAssumption
      <4>2. CASE Loaded(x)
        BY <4>2 DEF Loaded
      <4>3. CASE x.buf = <<>>
        BY <4>3, <1>1, EmptyLen, BlockStoreAssumption
      <4> QED
        BY <4>1, <4>2, <4>3, <3>2 DEF Ready
    <3> QED
      BY <3>1, <3>2, <3>3
  <2> QED
    BY <2>1, <2>2, <2>3
<1> HIDE DEF y
<1>4. ~y.failed
  BY <1>3 DEF Ready, Sound
<1>5. LET z == WriteInner(y, b)
      IN  Sound(z) /\ z.dirty /\ View(z) = PutByte(View(y), Pos(y), b)
  BY <1>3, WriteReady
<1> QED
  BY <1>2, <1>3, <1>4, <1>5

-----------------------------------------------------------------------------
(* The files a writer starts with.                                         *)

LEMMA SubSeqIs ==
    ASSUME NEW s \in Seq(Bytes), NEW a \in Nat, NEW b \in Nat, a < b, b <= Len(s)
    PROVE  /\ SubSeq(s, a + 1, b) \in Seq(Bytes) /\ Len(SubSeq(s, a + 1, b)) = b - a
           /\ \A i \in 1..(b - a) : SubSeq(s, a + 1, b)[i] = s[a + i]
<1>1. \A i \in (a + 1)..b : s[i] \in Bytes
  BY SeqElem
<1>2. SubSeq(s, a + 1, b) \in Seq(Bytes) /\ Len(SubSeq(s, a + 1, b)) = b - a
  BY <1>1
<1>3. \A i \in 1..(b - a) : SubSeq(s, a + 1, b)[i] = s[a + i]
  BY <1>1
<1> QED
  BY <1>2, <1>3

(* Cutting a text into blocks loses nothing of it. *)
LEMMA SplitIs ==
    ASSUME NEW s \in Seq(Bytes)
    PROVE  WholeFile(Split(s)) /\ Plain(Split(s)) = s
<1> DEFINE L == Len(s)
           c == (L + B - 1) \div B
           f == Split(s)
           C == c * B
<1>1. L \in Nat /\ c \in Nat /\ C \in Nat /\ C <= L + B - 1 /\ L + B - 1 < C + B
  <2>1. L \in Nat /\ L + B - 1 \in Nat
    BY BlockStoreAssumption
  <2> DEFINE t == L + B - 1
  <2>2. t \div B \in Nat /\ t % B \in Nat /\ t % B < B /\ t = (t \div B) * B + (t % B)
        /\ (t \div B) * B \in Nat
    BY <2>1, DivRange
  <2>3. C = (t \div B) * B /\ c = t \div B
    OBVIOUS
  <2> HIDE DEF C, t, c
  <2> DEFINE r == t % B
  <2>4. r \in Nat /\ r < B /\ t = C + r /\ C \in Nat /\ c \in Nat
    BY <2>2, <2>3
  <2> HIDE DEF r
  <2>5. t = L + B - 1
    BY DEF t
  <2> QED
    BY <2>1, <2>4, <2>5, BlockStoreAssumption
<1>2. f = [k \in 1..c |-> SubSeq(s, (k - 1) * B + 1, MinOf(k * B, L))]
  BY DEF Split
<1> HIDE DEF f, c
<1>3. ASSUME NEW k \in 1..c
      PROVE  /\ k - 1 \in Nat /\ (k - 1) * B \in Nat /\ MinOf(k * B, L) \in Nat
             /\ (k - 1) * B < MinOf(k * B, L) /\ MinOf(k * B, L) <= L
             /\ MinOf(k * B, L) - (k - 1) * B \in 1..B
             /\ k < c => MinOf(k * B, L) - (k - 1) * B = B
             /\ k = c => MinOf(k * B, L) = L
  <2> DEFINE P == (k - 1) * B
             Q == k * B
  <2>1. k \in Nat /\ k - 1 \in Nat /\ k <= c
    BY <1>1
  <2>2. P \in Nat /\ Q \in Nat /\ Q = P + B
    <3>1. ASSUME NEW a \in Nat PROVE a * B \in Nat /\ (a + 1) * B \in Nat /\ (a + 1) * B = a * B + B
      BY BlockStoreAssumption
    <3> DEFINE a == k - 1
    <3>2. a \in Nat /\ k = a + 1
      BY <2>1
    <3> HIDE DEF a
    <3>3. k * B = a * B + B /\ k * B \in Nat /\ a * B \in Nat
      BY <3>1, <3>2
    <3> QED
      BY <3>3 DEF a
  <2>3. Q <= C
    BY <2>1, <1>1, MulMono
  <2>4. k < c => Q + B <= C
    BY <2>1, <1>1, MulStrict
  <2>5. k = c => Q = C
    OBVIOUS
  <2> HIDE DEF P, Q, C
  <2>6. P < L
    BY <2>2, <2>3, <1>1, BlockStoreAssumption
  <2>7. k < c => Q <= L
    BY <2>2, <2>4, <1>1, BlockStoreAssumption
  <2>8. k = c => Q >= L
    BY <2>2, <2>5, <1>1, BlockStoreAssumption
  <2>9. /\ MinOf(Q, L) \in Nat /\ P < MinOf(Q, L) /\ MinOf(Q, L) <= L
        /\ MinOf(Q, L) - P \in 1..B
        /\ k < c => MinOf(Q, L) - P = B
        /\ k = c => MinOf(Q, L) = L
    BY <2>2, <2>6, <2>7, <2>8, <1>1, BlockStoreAssumption DEF MinOf
  <2> QED
    BY <2>1, <2>2, <2>9 DEF P, Q
<1>4. ASSUME NEW k \in 1..c
      PROVE  /\ f[k] \in Seq(Bytes) /\ Len(f[k]) = MinOf(k * B, L) - (k - 1) * B
             /\ \A i \in 1..Len(f[k]) : f[k][i] = s[(k - 1) * B + i]
  <2> DEFINE P == (k - 1) * B
             Q == MinOf(k * B, L)
  <2>1. P \in Nat /\ Q \in Nat /\ P < Q /\ Q <= L
    BY <1>3
  <2>2. f[k] = SubSeq(s, P + 1, Q)
    BY <1>2
  <2> HIDE DEF P, Q
  <2>3. /\ f[k] \in Seq(Bytes) /\ Len(f[k]) = Q - P
        /\ \A i \in 1..(Q - P) : f[k][i] = s[P + i]
    BY <2>1, <2>2, SubSeqIs
  <2> QED
    BY <2>3 DEF P, Q
<1>5. f \in Seq(Seq(Bytes)) /\ Len(f) = c
  <2>1. f \in [1..c -> Seq(Bytes)]
    BY <1>2, <1>4
  <2> QED
    BY <2>1, <1>1, FcnIsSeq
<1>6. WholeFile(f)
  <2>1. ASSUME NEW k \in 1..c PROVE Len(f[k]) \in 1..B /\ (k < c => Len(f[k]) = B)
    BY <1>3, <1>4
  <2> QED
    BY <2>1, <1>5 DEF WholeFile
<1>7. PlainLen(f) = L
  <2>1. CASE c = 0
    <3>1. f = <<>>
      BY <2>1, <1>5, <1>6, WholeLen
    <3>2. C = 0
      BY <2>1, BlockStoreAssumption
    <3> HIDE DEF C
    <3>3. L = 0
      BY <3>2, <1>1, BlockStoreAssumption
    <3> QED
      BY <3>1, <3>3, <1>6, WholeLen
  <2>2. CASE c # 0
    <3>1. c \in 1..c /\ f # <<>>
      BY <2>2, <1>1, <1>5, <1>6, WholeLen
    <3> DEFINE P == (c - 1) * B
    <3>2. PlainLen(f) = P + Len(f[c])
      BY <3>1, <1>5, <1>6, WholeLen
    <3>3. Len(f[c]) = L - P /\ P \in Nat
      BY <3>1, <1>3, <1>4
    <3> HIDE DEF P
    <3> QED
      BY <3>2, <3>3, <1>1
  <2> QED
    BY <2>1, <2>2
<1>8. ASSUME NEW j \in 1..L PROVE Plain(f)[j] = s[j]
  <2> DEFINE q == (j - 1) \div B
             m == (j - 1) % B
  <2>1. /\ q \in Nat /\ m \in 0..(B - 1) /\ j - 1 = q * B + m
        /\ q + 1 \in 1..Len(f) /\ m + 1 \in 1..Len(f[q + 1])
        /\ Plain(f)[j] = f[q + 1][m + 1]
    BY <1>6, <1>7, Located
  <2> HIDE DEF q, m
  <2> DEFINE P == q * B
  <2>2. (q + 1) - 1 = q
    BY <2>1
  <2>3. f[q + 1][m + 1] = s[P + (m + 1)]
    <3> DEFINE k == q + 1
               i == m + 1
    <3>1. k \in 1..c /\ i \in 1..Len(f[k]) /\ k - 1 = q
      BY <2>1, <2>2, <1>5
    <3> HIDE DEF k, i
    <3>2. f[k][i] = s[(k - 1) * B + i]
      BY ONLY <3>1, <1>4
    <3> QED
      BY <3>1, <3>2 DEF k, i
  <2>4. P \in Nat
    BY <2>1, BlockStoreAssumption
  <2>5. j = P + (m + 1)
    <3>1. j - 1 = P + m
      BY <2>1
    <3> HIDE DEF P
    <3> QED
      BY <3>1, <2>1, <2>4, BlockStoreAssumption
  <2> QED
    BY <2>1, <2>3, <2>5
<1>9. Plain(f) = s
  BY <1>6, <1>7, <1>8, PlainIs, SeqSame
<1> QED
  BY <1>6, <1>9 DEF f

LEMMA ContentsAreSeqs == \A s \in Contents : s \in Seq(Bytes)
<1> TAKE s \in Contents
<1>1. PICK n \in 0..MaxLen : s \in [1..n -> Bytes]
  BY DEF Contents
<1>2. n \in Nat
  BY CryptoWriterAssumption
<1> QED
  BY <1>1, <1>2, FcnIsSeq

LEMMA NewIs ==
    ASSUME NEW f, WholeFile(f)
    PROVE  Resting(New(f)) /\ View(New(f)) = Plain(f)
<1> DEFINE x == New(f)
<1>1. /\ x.file = f /\ x.cur = 0 /\ x.block_index = 0 /\ x.buf = <<>> /\ x.pos_write = 0
      /\ x.dirty = FALSE /\ x.failed = FALSE
  BY DEF New
<1>2. x \in Records
  <2>1. f \in Seq(Seq(Bytes)) /\ 0 \in 0..B
    BY BlockStoreAssumption DEF WholeFile
  <2> QED
    BY <2>1, EmptyLen DEF New, Records
<1> HIDE DEF x
<1>3. Len(f) \in Nat /\ (0 = Len(f) => AllFull(f))
  BY WholeLen DEF AllFull
<1>4. Sound(x)
  BY <1>1, <1>2, <1>3, EmptyLen, BlockStoreAssumption DEF Sound
<1>5. View(x) = Plain(f)
  BY <1>1, ViewClean
<1> QED
  BY <1>1, <1>4, <1>5 DEF Resting, x

LEMMA InitIInv == Init => IInv /\ View(w) \in Contents
<1> SUFFICES ASSUME Init PROVE IInv /\ View(w) \in Contents
  OBVIOUS
<1>1. PICK s \in Contents : w = New(Split(s))
  BY DEF Init
<1>2. WholeFile(Split(s)) /\ Plain(Split(s)) = s
  BY ContentsAreSeqs, SplitIs
<1> QED
  BY <1>1, <1>2, NewIs DEF IInv

-----------------------------------------------------------------------------
(* The calls.                                                              *)

LEMMA DirtyRests == \A x : Sound(x) /\ x.dirty => Resting(x)
BY DEF Resting

LEMMA WriteAtStep ==
    ASSUME IInv, NEW off \in 0..(MaxLen - 1), NEW b \in Bytes, WriteAt(off, b)
    PROVE  IInv' /\ View(w)' = PutByte(View(w), off, b)
<1> DEFINE x == SeekTo(w, off)
<1>1. off \in Nat /\ Resting(w)
  BY CryptoWriterAssumption DEF IInv
<1>2. View(w) \in Seq(Bytes) /\ Len(View(w)) \in Nat
  BY <1>1, ViewIs DEF Resting
<1>3. /\ Ready(x) \/ Resting(x)
      /\ Pos(x) = off /\ ~x.failed
      /\ off <= Len(View(w)) => View(x) = View(w)
      /\ off > Len(View(w)) => View(x) = Resize(View(w), off)
  BY <1>1, SeekToIs
<1>4. w' = WriteByte(x, b)
  BY <1>3 DEF WriteAt
<1> HIDE DEF x
<1> DEFINE y == WriteByte(x, b)
<1>5. Sound(y) /\ y.dirty /\ View(y) = PutByte(View(x), off, b)
  BY <1>3, WriteByteIs
<1>6. PutByte(View(x), off, b) = PutByte(View(w), off, b)
  <2>1. CASE off <= Len(View(w))
    BY <2>1, <1>3
  <2>2. CASE off > Len(View(w))
    BY <2>2, <1>1, <1>2, <1>3, PutAfterResize
  <2> QED
    BY <2>1, <2>2, <1>1, <1>2
<1> HIDE DEF y
<1>7. w' = y
  BY <1>4 DEF y
<1>8. Resting(y)
  BY <1>5, DirtyRests
<1> QED
  BY <1>5, <1>6, <1>7, <1>8 DEF IInv

LEMMA FlushStep ==
    ASSUME IInv, "flush_inside" \notin Use, Flush
    PROVE  IInv' /\ View(w)' = View(w)
<1>1. Resting(w) /\ Sound(w) /\ w.dirty /\ w' = FlushInner(w)
  BY DEF IInv, Resting, Flush
<1>2. CASE w.pos_write = B
  <2> DEFINE e == EncryptAndWrite(w)
  <2>1. w' = e
    BY <1>1, <1>2 DEF FlushInner
  <2>2. Ready(w)
    BY <1>1 DEF Ready
  <2>3. Sound(e) /\ ~e.dirty /\ e.buf = <<>> /\ e.cur = w.cur + 1 /\ View(e) = View(w)
    BY <2>2, <1>2, NextBlockIs
  <2>4. Len(e.file) = MaxOf(Len(w.file), w.cur + 1)
    BY <1>1, EncryptIs
  <2>5. ~(w.cur + 1 < Len(w.file)) /\ w.cur \in Nat /\ Len(w.file) \in Nat
    BY <1>1, <1>2, RecordFields DEF Flush
  <2> HIDE DEF e
  <2>6. e.cur = Len(e.file)
    BY <2>3, <2>4, <2>5 DEF MaxOf
  <2>7. Resting(e)
    BY <2>3, <2>6 DEF Resting
  <2> QED
    BY <2>1, <2>3, <2>7 DEF IInv
<1>3. CASE w.pos_write # B
  <2>1. w' = w
    BY <1>1, <1>3 DEF FlushInner
  <2> QED
    BY <2>1 DEF IInv
<1> QED
  BY <1>2, <1>3

LEMMA FinishStep ==
    ASSUME IInv, Finish
    PROVE  IInv' /\ View(w)' = View(w)
<1> DEFINE f == Flushed(w).file
<1>1. WholeFile(f) /\ Plain(f) = View(w)
  BY FlushedIs DEF IInv
<1>2. w' = New(f)
  BY DEF Finish
<1> HIDE DEF f
<1> QED
  BY <1>1, <1>2, NewIs DEF IInv

LEMMA SeekStep ==
    ASSUME IInv, NEW n \in 0..MaxLen, Seek(n)
    PROVE  IInv' /\ n > Len(View(w)) /\ View(w)' = Resize(View(w), n)
<1> DEFINE y == SeekTo(w, n)
<1>1. n \in Nat /\ Resting(w) /\ n > Len(View(w)) /\ w' = y
  BY CryptoWriterAssumption DEF IInv, Seek
<1>2. (Ready(y) \/ Resting(y)) /\ y.dirty /\ View(y) = Resize(View(w), n)
  BY <1>1, SeekToIs
<1> HIDE DEF y
<1>3. Resting(y)
  BY <1>2, DirtyRests DEF Ready
<1> QED
  BY <1>1, <1>2, <1>3 DEF IInv

LEMMA NextStep ==
    ASSUME IInv, "flush_inside" \notin Use, [Next]_w
    PROVE  IInv' /\ [Sequence!Next]_(View(w))
<1>1. ASSUME NEW off \in 0..(MaxLen - 1), NEW b \in Bytes, WriteAt(off, b)
      PROVE  IInv' /\ Sequence!Next
  <2>1. IInv' /\ View(w)' = PutByte(View(w), off, b)
    BY <1>1, WriteAtStep
  <2>2. Sequence!PutByte(View(w), off, b) = PutByte(View(w), off, b)
    BY DEF PutByte, MaxOf, Sequence!PutByte, Sequence!MaxOf
  <2>3. Sequence!Write(off, b)
    BY <2>1, <2>2 DEF Sequence!Write
  <2> QED
    BY <2>1, <2>3 DEF Sequence!Next
<1>2. CASE Flush
  BY <1>2, FlushStep
<1>3. CASE Finish
  BY <1>3, FinishStep
<1>4. ASSUME NEW n \in 0..MaxLen, Seek(n)
      PROVE  IInv' /\ Sequence!Next
  <2>1. IInv' /\ n > Len(View(w)) /\ View(w)' = Resize(View(w), n)
    BY <1>4, SeekStep
  <2>2. Sequence!Resize(View(w), n) = Resize(View(w), n)
    BY DEF Resize, CopyPrefix, Sequence!Resize, Sequence!CopyPrefix
  <2>3. Sequence!Extend(n)
    BY <2>1, <2>2 DEF Sequence!Extend
  <2> QED
    BY <2>1, <2>3 DEF Sequence!Next
<1>5. CASE UNCHANGED w
  BY <1>5 DEF IInv
<1> QED
  BY <1>1, <1>2, <1>3, <1>4, <1>5 DEF Next

-----------------------------------------------------------------------------
LEMMA IInvReadable == IInv => BlocksReadable /\ NothingBehindDirty
<1> SUFFICES ASSUME IInv PROVE BlocksReadable /\ NothingBehindDirty
  OBVIOUS
<1>1. Sound(w) /\ w \in Records /\ ~w.failed /\ WholeFile(w.file)
      /\ Len(w.buf) <= B /\ w.pos_write <= Len(w.buf)
  BY DEF IInv, Resting, Sound
<1>2. w \in Writers
  <2>1. w.file \in Seq(Seq(Bytes)) /\ Len(w.file) \in Nat
    BY <1>1, RecordFields
  <2>2. w.file \in [1..Len(w.file) -> Seq(Bytes) \cup {Torn}]
    BY <2>1, SeqElem
  <2>3. w.file \in Seq(Seq(Bytes) \cup {Torn})
    BY <2>1, <2>2, FcnIsSeq
  <2> QED
    BY <2>3, <1>1 DEF Writers, Records
<1>3. \A k \in 1..Len(w.file) : w.file[k] # Torn /\ (k < Len(w.file) => Full(w.file[k]))
  <2> TAKE k \in 1..Len(w.file)
  <2>1. w.file[k] \in Seq(Bytes) /\ (k < Len(w.file) => Len(w.file[k]) = B)
    BY <1>1 DEF WholeFile
  <2> QED
    BY <2>1, NotTorn DEF Full
<1>4. NothingBehindDirty
  BY <1>1 DEF NothingBehindDirty, Sound
<1> QED
  BY <1>1, <1>2, <1>3, <1>4 DEF BlocksReadable

(* Without a flush inside the file no call of write, seek, flush or finish *)
(* fails, and every stored block decrypts, for any block size.             *)
THEOREM BlocksReadableTheorem ==
    ASSUME "flush_inside" \notin Use
    PROVE  Spec => []BlocksReadable
<1>1. Init => IInv
  BY InitIInv
<1>2. IInv /\ [Next]_w => IInv'
  BY NextStep
<1>3. IInv => BlocksReadable
  BY IInvReadable
<1> QED
  BY <1>1, <1>2, <1>3, PTL DEF Spec

(* Storing a dirty buffer drops no byte that was in the file behind it. *)
THEOREM NothingBehindTheorem ==
    ASSUME "flush_inside" \notin Use
    PROVE  Spec => []NothingBehindDirty
<1>1. Init => IInv
  BY InitIInv
<1>2. IInv /\ [Next]_w => IInv'
  BY NextStep
<1>3. IInv => NothingBehindDirty
  BY IInvReadable
<1> QED
  BY <1>1, <1>2, <1>3, PTL DEF Spec

(* The encrypting writer implements one plain sequence of bytes: a write   *)
(* changes the byte at its offset and fills a gap with zeros, and storing, *)
(* loading, flushing and finishing change nothing.                         *)
THEOREM WriterRefines ==
    ASSUME "flush_inside" \notin Use
    PROVE  Spec => ActsAsFile
<1>1. Init => IInv /\ Sequence!Init
  BY InitIInv DEF Sequence!Init, Contents
<1>2. IInv /\ [Next]_w => IInv' /\ [Sequence!Next]_(View(w))
  BY NextStep
<1> QED
  BY <1>1, <1>2, PTL DEF Spec, ActsAsFile, Sequence!Spec
=============================================================================
