------------------------ MODULE CryptoReaderProofs -------------------------
(***************************************************************************)
(* Proofs about CryptoReader, for any block size, overhead and length: the *)
(* buffer is the block at the position, a read returns the bytes from its  *)
(* offset on, and all of them unless the reader had run into the end or    *)
(* the file ends with a complete block.                                    *)
(***************************************************************************)
EXTENDS CryptoReader, WellFoundedInduction, TLAPS

-----------------------------------------------------------------------------
(* Numbers and sequences.                                                  *)

(* A set of natural numbers that is not empty has a least element. *)
LEMMA NatLeast ==
    ASSUME NEW T, T \subseteq Nat, T # {}
    PROVE  \E m \in T : \A k \in T : m <= k
<1> DEFINE R == OpToRel(<, Nat)
<1>1. IsWellFoundedOn(R, Nat)
  BY NatLessThanWellFounded
<1>2. \A k, m \in Nat : k < m => <<k, m>> \in R
  BY DEF OpToRel
<1> HIDE DEF R
<1>3. PICK m \in T : \A k \in T : <<k, m>> \notin R
  BY <1>1, WFMin
<1>4. ASSUME NEW k \in T PROVE m <= k
  <2>1. k \in Nat /\ m \in Nat /\ <<k, m>> \notin R
    BY <1>3
  <2>2. ~(k < m)
    BY <2>1, <1>2
  <2> QED
    BY <2>1, <2>2
<1> QED
  BY <1>4

(* Every number is so many blocks and a rest. *)
LEMMA DivRange ==
    ASSUME NEW n \in Nat
    PROVE  /\ n \div B \in Nat /\ n % B \in 0..(B - 1) /\ n = (n \div B) * B + (n % B)
           /\ (n \div B) * B \in Nat /\ n % B \in Nat /\ n % B < B
<1>1. n \div B \in Nat /\ n % B \in 0..(B - 1) /\ n = (n \div B) * B + (n % B)
  BY BlockStoreAssumption
<1> DEFINE d == n \div B
           m == n % B
<1> HIDE DEF d, m
<1>2. d \in Nat /\ m \in 0..(B - 1)
  BY <1>1 DEF d, m
<1>3. d * B \in Nat /\ m \in Nat /\ m < B
  BY <1>2, BlockStoreAssumption
<1> QED
  BY <1>1, <1>3 DEF d, m

LEMMA DivIs ==
    ASSUME NEW d \in Nat \ {0}, NEW q \in Nat, NEW m \in Nat, m < d
    PROVE  (q * d + m) \div d = q /\ (q * d + m) % d = m
OBVIOUS

LEMMA MulMono ==
    ASSUME NEW a \in Nat, NEW b \in Nat, a <= b
    PROVE  a * B \in Nat /\ b * B \in Nat /\ a * B <= b * B
BY BlockStoreAssumption

LEMMA MulStrict ==
    ASSUME NEW a \in Nat, NEW b \in Nat, a < b
    PROVE  a * B \in Nat /\ b * B \in Nat /\ a * B + B <= b * B
BY BlockStoreAssumption

LEMMA FcnIsSeq ==
    ASSUME NEW S, NEW n \in Nat, NEW f \in [1..n -> S]
    PROVE  f \in Seq(S) /\ Len(f) = n
OBVIOUS

LEMMA EmptyLen == <<>> \in Seq(Nat) /\ Len(<<>>) = 0
OBVIOUS

LEMMA NotTorn == \A s \in Seq(Nat) : s # Torn
BY BlockStoreAssumption

LEMMA SubSeqIs ==
    ASSUME NEW s \in Seq(Nat), NEW a \in Nat, NEW b \in Nat, a < b, b <= Len(s)
    PROVE  /\ SubSeq(s, a + 1, b) \in Seq(Nat) /\ Len(SubSeq(s, a + 1, b)) = b - a
           /\ \A i \in 1..(b - a) : SubSeq(s, a + 1, b)[i] = s[a + i]
<1>1. \A i \in (a + 1)..b : s[i] \in Nat
  OBVIOUS
<1>2. SubSeq(s, a + 1, b) \in Seq(Nat) /\ Len(SubSeq(s, a + 1, b)) = b - a
  BY <1>1
<1>3. \A i \in 1..(b - a) : SubSeq(s, a + 1, b)[i] = s[a + i]
  BY <1>1
<1> QED
  BY <1>2, <1>3

-----------------------------------------------------------------------------
(* Files.                                                                  *)

(* The blocks of a text whose bytes are their positions. *)
TextFile(f) ==
    /\ f \in Seq(Seq(Nat))
    /\ \A k \in 1..Len(f) :
          /\ Len(f[k]) \in 1..B /\ (k < Len(f) => Len(f[k]) = B)
          /\ \A i \in 1..Len(f[k]) : f[k][i] = (k - 1) * B + i

LEMMA WholeLen ==
    ASSUME NEW f, TextFile(f)
    PROVE  /\ PlainLen(f) \in Nat
           /\ f = <<>> => PlainLen(f) = 0
           /\ Len(f) \in Nat /\ (f = <<>> <=> Len(f) = 0)
           /\ f # <<>> => /\ PlainLen(f) = (Len(f) - 1) * B + Len(f[Len(f)])
                          /\ Len(f) - 1 \in Nat /\ f[Len(f)] \in Seq(Nat)
                          /\ Len(f[Len(f)]) \in 1..B
<1>1. Len(f) \in Nat /\ (f = <<>> <=> Len(f) = 0)
  BY DEF TextFile
<1>2. CASE f = <<>>
  BY <1>1, <1>2 DEF PlainLen
<1>3. CASE f # <<>>
  <2>1. Len(f) \in 1..Len(f) /\ Len(f) - 1 \in Nat
    BY <1>1, <1>3
  <2>2. f[Len(f)] \in Seq(Nat) /\ Len(f[Len(f)]) \in 1..B
    BY <2>1 DEF TextFile
  <2>3. Last(f) = f[Len(f)] /\ Last(f) # Torn
    BY <2>2, NotTorn DEF Last
  <2>4. PlainLen(f) = (Len(f) - 1) * B + Len(f[Len(f)])
    BY <2>3, <1>3 DEF PlainLen
  <2>5. (Len(f) - 1) * B \in Nat
    BY <2>1, BlockStoreAssumption
  <2>6. Len(f[Len(f)]) \in Nat
    BY <2>2
  <2> QED
    BY <1>1, <1>3, <2>1, <2>2, <2>4, <2>5, <2>6
<1> QED
  BY <1>2, <1>3

LEMMA SizeIs ==
    ASSUME NEW f, TextFile(f)
    PROVE  Len(Plain(f)) = PlainLen(f)
<1>1. PlainLen(f) \in Nat
  BY WholeLen
<1>2. DOMAIN Plain(f) = 1..PlainLen(f)
  BY DEF Plain
<1> DEFINE S == {Plain(f)[j] : j \in 1..PlainLen(f)}
<1>3. Plain(f) \in [1..PlainLen(f) -> S]
  BY DEF Plain
<1> HIDE DEF S
<1> QED
  BY <1>1, <1>3, FcnIsSeq

(* Up to the last block all are complete. *)
LEMMA BlockEnds ==
    ASSUME NEW f, TextFile(f), NEW k \in 1..Len(f)
    PROVE  /\ k \in Nat /\ k - 1 \in Nat /\ (k - 1) * B \in Nat /\ f[k] \in Seq(Nat)
           /\ Len(f[k]) \in 1..B
           /\ (k - 1) * B + Len(f[k]) <= PlainLen(f)
           /\ k < Len(f) => Len(f[k]) = B /\ (k - 1) * B + Len(f[k]) = k * B /\ k * B < PlainLen(f)
           /\ k = Len(f) => (k - 1) * B + Len(f[k]) = PlainLen(f)
<1>1. Len(f) \in Nat /\ k \in Nat /\ k - 1 \in Nat /\ f # <<>> /\ PlainLen(f) \in Nat
      /\ PlainLen(f) = (Len(f) - 1) * B + Len(f[Len(f)]) /\ Len(f) - 1 \in Nat
  BY WholeLen
<1>2. f[k] \in Seq(Nat) /\ Len(f[k]) \in 1..B /\ (k < Len(f) => Len(f[k]) = B)
      /\ Len(f[Len(f)]) \in 1..B
  BY <1>1 DEF TextFile
<1> DEFINE P == (k - 1) * B
           K == k * B
           Q == (Len(f) - 1) * B
           l == Len(f[Len(f)])
<1>3. P \in Nat /\ K \in Nat /\ K = P + B
  <2>1. ASSUME NEW a \in Nat PROVE a * B \in Nat /\ (a + 1) * B \in Nat /\ (a + 1) * B = a * B + B
    BY BlockStoreAssumption
  <2> DEFINE a == k - 1
  <2>2. a \in Nat /\ k = a + 1
    BY <1>1
  <2> HIDE DEF a
  <2>3. k * B = a * B + B /\ k * B \in Nat /\ a * B \in Nat
    BY <2>1, <2>2
  <2> QED
    BY <2>3 DEF a
<1>4. CASE k < Len(f)
  <2>1. K <= Q /\ Q \in Nat
    BY <1>1, <1>4, MulMono
  <2>2. PlainLen(f) = Q + l /\ l \in 1..B /\ Len(f[k]) = B
    BY <1>1, <1>2, <1>4
  <2> HIDE DEF P, K, Q, l
  <2>3. P + Len(f[k]) = K /\ K < PlainLen(f) /\ P + Len(f[k]) <= PlainLen(f)
    BY <2>1, <2>2, <1>3, BlockStoreAssumption
  <2> QED
    BY <2>3, <1>1, <1>2, <1>3, <1>4 DEF P, K
<1>5. CASE k = Len(f)
  BY <1>1, <1>2, <1>3, <1>5
<1> QED
  BY <1>1, <1>4, <1>5

LEMMA SplitIs ==
    ASSUME NEW n \in Nat
    PROVE  TextFile(Split(Text(n))) /\ PlainLen(Split(Text(n))) = n
<1> DEFINE s == Text(n)
           L == Len(s)
           c == (L + B - 1) \div B
           f == Split(s)
           C == c * B
<1>0. s \in Seq(Nat) /\ L = n /\ \A j \in 1..L : s[j] = j
  <2>1. s \in [1..n -> Nat] /\ \A j \in 1..n : s[j] = j
    BY DEF Text
  <2> HIDE DEF s
  <2> QED
    BY <2>1, FcnIsSeq
<1> HIDE DEF s
<1>1. L \in Nat /\ c \in Nat /\ C \in Nat /\ C <= L + B - 1 /\ L + B - 1 < C + B
  <2>1. L \in Nat /\ L + B - 1 \in Nat
    BY BlockStoreAssumption
  <2> DEFINE t == L + B - 1
  <2>2. t \div B \in Nat /\ t % B \in Nat /\ t % B < B /\ t = (t \div B) * B + (t % B)
        /\ (t \div B) * B \in Nat
    BY <2>1, DivRange
  <2>3. C = (t \div B) * B /\ c = t \div B
    OBVIOUS
  <2> HIDE DEF C, t, c
  <2> DEFINE rest == t % B
  <2>4. rest \in Nat /\ rest < B /\ t = C + rest /\ C \in Nat /\ c \in Nat
    BY <2>2, <2>3
  <2> HIDE DEF rest
  <2>5. t = L + B - 1
    BY DEF t
  <2> QED
    BY <2>1, <2>4, <2>5, BlockStoreAssumption
<1>2. f = [k \in 1..c |-> SubSeq(s, (k - 1) * B + 1, MinOf(k * B, L))]
  BY DEF Split
<1> HIDE DEF f, c
<1>3. ASSUME NEW k \in 1..c
      PROVE  /\ k - 1 \in Nat /\ (k - 1) * B \in Nat /\ MinOf(k * B, L) \in Nat
             /\ (k - 1) * B < MinOf(k * B, L) /\ MinOf(k * B, L) <= L
             /\ MinOf(k * B, L) - (k - 1) * B \in 1..B
             /\ k < c => MinOf(k * B, L) - (k - 1) * B = B
             /\ k = c => MinOf(k * B, L) = L
  <2> DEFINE P == (k - 1) * B
             Q == k * B
  <2>1. k \in Nat /\ k - 1 \in Nat /\ k <= c
    BY <1>1
  <2>2. P \in Nat /\ Q \in Nat /\ Q = P + B
    <3>1. ASSUME NEW a \in Nat PROVE a * B \in Nat /\ (a + 1) * B \in Nat /\ (a + 1) * B = a * B + B
      BY BlockStoreAssumption
    <3> DEFINE a == k - 1
    <3>2. a \in Nat /\ k = a + 1
      BY <2>1
    <3> HIDE DEF a
    <3>3. k * B = a * B + B /\ k * B \in Nat /\ a * B \in Nat
      BY <3>1, <3>2
    <3> QED
      BY <3>3 DEF a
  <2>3. Q <= C
    BY <2>1, <1>1, MulMono
  <2>4. k < c => Q + B <= C
    BY <2>1, <1>1, MulStrict
  <2>5. k = c => Q = C
    OBVIOUS
  <2> HIDE DEF P, Q, C
  <2>6. P < L
    BY <2>2, <2>3, <1>1, BlockStoreAssumption
  <2>7. k < c => Q <= L
    BY <2>2, <2>4, <1>1, BlockStoreAssumption
  <2>8. k = c => Q >= L
    BY <2>2, <2>5, <1>1, BlockStoreAssumption
  <2>9. /\ MinOf(Q, L) \in Nat /\ P < MinOf(Q, L) /\ MinOf(Q, L) <= L
        /\ MinOf(Q, L) - P \in 1..B
        /\ k < c => MinOf(Q, L) - P = B
        /\ k = c => MinOf(Q, L) = L
    BY <2>2, <2>6, <2>7, <2>8, <1>1, BlockStoreAssumption DEF MinOf
  <2> QED
    BY <2>1, <2>2, <2>9 DEF P, Q
<1>4. ASSUME NEW k \in 1..c
      PROVE  /\ f[k] \in Seq(Nat) /\ Len(f[k]) = MinOf(k * B, L) - (k - 1) * B
             /\ \A i \in 1..Len(f[k]) : f[k][i] = (k - 1) * B + i
  <2> DEFINE P == (k - 1) * B
             Q == MinOf(k * B, L)
  <2>1. P \in Nat /\ Q \in Nat /\ P < Q /\ Q <= L
    BY <1>3
  <2>2. f[k] = SubSeq(s, P + 1, Q)
    BY <1>2
  <2> HIDE DEF P, Q
  <2>3. /\ f[k] \in Seq(Nat) /\ Len(f[k]) = Q - P
        /\ \A i \in 1..(Q - P) : f[k][i] = s[P + i]
    BY <2>1, <2>2, <1>0, SubSeqIs
  <2>4. \A i \in 1..(Q - P) : f[k][i] = P + i
    BY <2>1, <2>3, <1>0, <1>1
  <2> QED
    BY <2>3, <2>4 DEF P, Q
<1>5. f \in Seq(Seq(Nat)) /\ Len(f) = c
  <2>1. f \in [1..c -> Seq(Nat)]
    BY <1>2, <1>4
  <2> QED
    BY <2>1, <1>1, FcnIsSeq
<1>6. TextFile(f)
  <2>1. ASSUME NEW k \in 1..c PROVE Len(f[k]) \in 1..B /\ (k < c => Len(f[k]) = B)
    BY <1>3, <1>4
  <2> QED
    BY <2>1, <1>4, <1>5 DEF TextFile
<1>7. PlainLen(f) = L
  <2>1. CASE c = 0
    <3>1. f = <<>>
      BY <2>1, <1>5, <1>6, WholeLen
    <3>2. C = 0
      BY <2>1, BlockStoreAssumption
    <3> HIDE DEF C
    <3>3. L = 0
      BY <3>2, <1>1, BlockStoreAssumption
    <3> QED
      BY <3>1, <3>3, <1>6, WholeLen
  <2>2. CASE c # 0
    <3>1. c \in 1..c /\ f # <<>>
      BY <2>2, <1>1, <1>5, <1>6, WholeLen
    <3> DEFINE P == (c - 1) * B
    <3>2. PlainLen(f) = P + Len(f[c])
      BY <3>1, <1>5, <1>6, WholeLen
    <3>3. Len(f[c]) = L - P /\ P \in Nat
      BY <3>1, <1>3, <1>4
    <3> HIDE DEF P
    <3> QED
      BY <3>2, <3>3, <1>1
  <2> QED
    BY <2>1, <2>2
<1> QED
  BY <1>0, <1>6, <1>7 DEF f, s

(* get_plaintext_len is right, unless the last block is complete; then it  *)
(* is one overhead too short.                                              *)
LEMMA PlaintextLenIs ==
    ASSUME NEW f, TextFile(f)
    PROVE  /\ PlaintextLen(f) \in Nat /\ PlaintextLen(f) <= PlainLen(f)
           /\ f = <<>> => PlaintextLen(f) = 0
           /\ f # <<>> => PlaintextLen(f) < Len(f) * B
           /\ PlainLen(f) % B # 0 => PlaintextLen(f) = PlainLen(f)
<1> DEFINE S == PlainLen(f)
           D == B + Overhead
           c == S + Overhead * Len(f)
<1>1. S \in Nat /\ Len(f) \in Nat /\ D \in Nat \ {0} /\ Overhead \in 1..B /\ Overhead \in Nat
      /\ B \in Nat
  <2>1. S \in Nat /\ Len(f) \in Nat
    BY WholeLen
  <2>2. D \in Nat \ {0} /\ Overhead \in 1..B /\ Overhead \in Nat /\ B \in Nat
    BY BlockStoreAssumption, SizesAssumption
  <2> QED
    BY <2>1, <2>2
<1>2. PlaintextLen(f) = IF c = 0 THEN 0 ELSE c - ((c \div D) + 1) * Overhead
  <2>1. Len(Plain(f)) = PlainLen(f)
    BY SizeIs
  <2> QED
    BY ONLY <2>1, Zenon DEF PlaintextLen
<1>3. CASE f = <<>>
  <2>1. S = 0 /\ Len(f) = 0
    BY <1>3, WholeLen
  <2>2. Overhead * 0 = 0
    BY <1>1
  <2>3. c = 0
    BY <2>1, <2>2
  <2>4. 0 % B = 0
    BY BlockStoreAssumption
  <2> QED
    BY <2>1, <2>3, <2>4, <1>2, <1>3
<1>4. CASE f # <<>>
  <2> DEFINE q == Len(f) - 1
             l == Len(f[Len(f)])
  <2>0. Len(f) - 1 \in Nat /\ PlainLen(f) = (Len(f) - 1) * B + Len(f[Len(f)])
        /\ Len(f[Len(f)]) \in 1..B
    BY <1>4, WholeLen
  <2>1. q \in Nat /\ Len(f) = q + 1 /\ S = q * B + l /\ l \in 1..B /\ l \in Nat
    BY <2>0, <1>1
  <2> HIDE DEF q, l, S
  <2>2. c = q * D + (l + Overhead)
    <3>1. Overhead * (q + 1) = Overhead * q + Overhead /\ q * D = q * B + Overhead * q
          /\ q * B \in Nat /\ Overhead * q \in Nat
      BY <2>1, <1>1
    <3> DEFINE x == Overhead * q
               y == q * B
               z == Overhead * (q + 1)
    <3>2. c = S + z /\ S = y + l /\ z = x + Overhead /\ q * D = y + x /\ x \in Nat /\ y \in Nat
      BY <3>1, <2>1
    <3> HIDE DEF x, y, z, c, D
    <3> QED
      BY <3>2, <2>1, <1>1
  <2>3. Len(f) * B = q * B + B /\ q * B \in Nat
    BY <2>1, <1>1
  <2>4. c # 0
    <3> DEFINE y == q * D
    <3>1. y \in Nat /\ c = y + (l + Overhead)
      BY <2>1, <2>2, <1>1
    <3> HIDE DEF y, c
    <3> QED
      BY <3>1, <2>1, <1>1
  <2>5. CASE l < B
    <3>1. c \div D = q
      <4>1. l + Overhead < D /\ l + Overhead \in Nat
        BY <2>1, <2>5, <1>1
      <4> HIDE DEF D, c
      <4> QED
        BY <4>1, <2>1, <2>2, <1>1, DivIs
    <3>2. PlaintextLen(f) = c - (q + 1) * Overhead
      BY <3>1, <2>4, <1>2
    <3>3. c = S + (q + 1) * Overhead /\ (q + 1) * Overhead \in Nat
      BY <2>1, <1>1
    <3>4. PlaintextLen(f) = S
      <4> DEFINE z == (q + 1) * Overhead
      <4>1. PlaintextLen(f) = c - z /\ c = S + z /\ z \in Nat
        BY <3>2, <3>3
      <4> HIDE DEF z, c
      <4> QED
        BY <4>1, <1>1
    <3>5. S < Len(f) * B
      <4> DEFINE y == q * B
      <4>1. Len(f) * B = y + B /\ S = y + l /\ y \in Nat
        BY <2>1, <2>3
      <4> HIDE DEF y
      <4> QED
        BY <4>1, <2>1, <2>5, <1>1
    <3> QED
      BY <3>4, <3>5, <1>1, <1>4 DEF S
  <2>6. CASE l = B
    <3>1. c \div D = q + 1
      <4>1. c = (q + 1) * D + 0
        BY <2>1, <2>2, <2>6, <1>1
      <4>2. 0 < D /\ 0 \in Nat /\ q + 1 \in Nat
        BY <2>1, <1>1
      <4> HIDE DEF D, c
      <4> QED
        BY <4>1, <4>2, <1>1, DivIs
    <3>2. PlaintextLen(f) = c - (q + 2) * Overhead
      <4>1. (q + 1) + 1 = q + 2
        BY <2>1
      <4> QED
        BY <3>1, <4>1, <2>4, <1>2
    <3>3. c = S + (q + 1) * Overhead /\ (q + 1) * Overhead \in Nat
          /\ (q + 2) * Overhead = (q + 1) * Overhead + Overhead
      BY <2>1, <1>1
    <3>4. PlaintextLen(f) = S - Overhead
      <4> DEFINE z == (q + 1) * Overhead
                 x == (q + 2) * Overhead
      <4>1. PlaintextLen(f) = c - x /\ c = S + z /\ z \in Nat /\ x = z + Overhead
        BY <3>2, <3>3
      <4> HIDE DEF z, x, c
      <4> QED
        BY <4>1, <1>1
    <3>5. S = Len(f) * B /\ S >= B
      <4> DEFINE y == q * B
      <4>1. Len(f) * B = y + B /\ S = y + l /\ y \in Nat
        BY <2>1, <2>3
      <4> HIDE DEF y
      <4> QED
        BY <4>1, <2>1, <2>6, <1>1
    <3>6. S % B = 0
      <4>1. S = (q + 1) * B + 0
        BY <3>5, <2>1, <1>1
      <4>2. 0 < B /\ 0 \in Nat /\ q + 1 \in Nat /\ B \in Nat \ {0}
        BY <2>1, BlockStoreAssumption
      <4> QED
        BY <4>1, <4>2, DivIs
    <3>7. PlaintextLen(f) \in Nat /\ PlaintextLen(f) <= S /\ PlaintextLen(f) < S
      BY <3>4, <3>5, <1>1
    <3> QED
      BY <3>5, <3>6, <3>7, <1>4 DEF S
  <2> QED
    BY <2>1, <2>5, <2>6, <1>1
<1> QED
  BY <1>3, <1>4

-----------------------------------------------------------------------------
(* Readers.                                                                *)

(* A reader inside its file: what it holds is the block before the cursor. *)
Reading(x) ==
    /\ x \in Readers /\ TextFile(x.file)
    /\ x.block_index = x.cur /\ x.cur <= Len(x.file) /\ x.pos_read <= Len(x.buf)
    /\ x.buf # <<>> => x.cur >= 1 /\ x.buf = x.file[x.cur]

(* A reader without a block is new or has run into the end. *)
Settled(x) == x.buf = <<>> => x.cur = 0 \/ x.cur = Len(x.file)

(* After a read only the end leaves a reader without a block. *)
Ended(x) == x.buf = <<>> => x.cur = Len(x.file)

(* The position of the byte that is read next, PlainLen at the end. *)
NextAt(x) ==
    IF x.buf # <<>> THEN (x.cur - 1) * B + x.pos_read
    ELSE IF x.cur < Len(x.file) THEN x.cur * B ELSE PlainLen(x.file)

(* What an update of the position changes. *)
LEMMA ReaderAt ==
    ASSUME NEW x \in Readers, NEW p \in Nat
    PROVE  LET y == [x EXCEPT !.pos_read = p]
           IN  /\ y \in Readers /\ y.file = x.file /\ y.cur = x.cur /\ y.block_index = x.block_index
               /\ y.buf = x.buf /\ y.pos_read = p
BY DEF Readers

LEMMA ReadingFields ==
    ASSUME NEW x, Reading(x)
    PROVE  /\ x.file \in Seq(Seq(Nat)) /\ Len(x.file) \in Nat /\ x.cur \in Nat /\ x.pos_read \in Nat
           /\ x.buf \in Seq(Nat) /\ Len(x.buf) \in Nat /\ (x.buf = <<>> <=> Len(x.buf) = 0)
           /\ PlainLen(x.file) \in Nat /\ TextFile(x.file)
           /\ x.block_index = x.cur /\ x.cur <= Len(x.file) /\ x.pos_read <= Len(x.buf)
           /\ x.buf # <<>> => /\ x.cur \in 1..Len(x.file) /\ x.cur - 1 \in Nat
                              /\ x.buf = x.file[x.cur] /\ Len(x.buf) \in 1..B
<1>1. x.file \in Seq(Seq(Nat)) /\ x.cur \in Nat /\ x.pos_read \in Nat /\ x.buf \in Seq(Nat)
  BY DEF Reading, Readers
<1>2. TextFile(x.file) /\ PlainLen(x.file) \in Nat /\ Len(x.file) \in Nat
  BY WholeLen DEF Reading
<1>3. Len(x.buf) \in Nat /\ (x.buf = <<>> <=> Len(x.buf) = 0)
  BY <1>1
<1>4. x.buf # <<>> => x.cur \in 1..Len(x.file) /\ x.cur - 1 \in Nat /\ x.buf = x.file[x.cur]
  BY <1>1, <1>2 DEF Reading
<1>5. x.buf # <<>> => Len(x.buf) \in 1..B
  BY <1>2, <1>4 DEF TextFile
<1> QED
  BY <1>1, <1>2, <1>3, <1>4, <1>5 DEF Reading

(* Where a reader is when nothing of its block is left. *)
LEMMA NextAtRead ==
    ASSUME NEW x, Reading(x), ~HasUnread(x)
    PROVE  NextAt(x) = IF x.cur < Len(x.file) THEN x.cur * B ELSE PlainLen(x.file)
<1>1. CASE x.buf = <<>>
  BY <1>1 DEF NextAt
<1>2. CASE x.buf # <<>>
  <2>1. x.cur \in 1..Len(x.file) /\ x.buf = x.file[x.cur] /\ x.pos_read = Len(x.buf)
    BY <1>2, ReadingFields DEF HasUnread
  <2>2. NextAt(x) = (x.cur - 1) * B + Len(x.file[x.cur])
    BY <1>2, <2>1 DEF NextAt
  <2>3. x.cur < Len(x.file) \/ x.cur = Len(x.file)
    BY <2>1, ReadingFields
  <2>4. TextFile(x.file)
    BY ReadingFields
  <2>5. /\ x.cur < Len(x.file) => (x.cur - 1) * B + Len(x.file[x.cur]) = x.cur * B
        /\ x.cur = Len(x.file) => (x.cur - 1) * B + Len(x.file[x.cur]) = PlainLen(x.file)
    BY <2>1, <2>4, BlockEnds
  <2>6. x.cur = Len(x.file) => ~(x.cur < Len(x.file))
    BY ReadingFields
  <2> QED
    BY <2>2, <2>3, <2>5, <2>6
<1> QED
  BY <1>1, <1>2

LEMMA NextAtUnread ==
    ASSUME NEW x, Reading(x), HasUnread(x)
    PROVE  /\ x.buf # <<>> /\ NextAt(x) \in Nat /\ NextAt(x) < PlainLen(x.file)
           /\ x.buf[x.pos_read + 1] = NextAt(x) + 1
<1>1. x.buf # <<>>
  BY ReadingFields DEF HasUnread
<1>2. /\ x.cur \in 1..Len(x.file) /\ x.buf = x.file[x.cur] /\ x.pos_read \in Nat
      /\ x.pos_read < Len(x.buf) /\ TextFile(x.file) /\ Len(x.buf) \in Nat
      /\ PlainLen(x.file) \in Nat
  BY <1>1, ReadingFields DEF HasUnread
<1> DEFINE P == (x.cur - 1) * B
<1>3. P \in Nat /\ P + Len(x.buf) <= PlainLen(x.file)
  BY <1>2, BlockEnds
<1>4. x.pos_read + 1 \in 1..Len(x.buf)
  BY <1>2
<1>5. x.buf[x.pos_read + 1] = P + (x.pos_read + 1)
  BY <1>2, <1>4 DEF TextFile
<1>6. NextAt(x) = P + x.pos_read
  BY <1>1 DEF NextAt
<1> HIDE DEF P
<1>7. P + (x.pos_read + 1) = (P + x.pos_read) + 1 /\ P + x.pos_read \in Nat
      /\ P + x.pos_read < PlainLen(x.file)
  BY <1>2, <1>3
<1> QED
  BY <1>1, <1>5, <1>6, <1>7

LEMMA NextAtRange ==
    ASSUME NEW x, Reading(x)
    PROVE  NextAt(x) \in Nat /\ NextAt(x) <= PlainLen(x.file)
<1>1. CASE HasUnread(x)
  BY <1>1, NextAtUnread, ReadingFields
<1>2. CASE ~HasUnread(x)
  <2>1. NextAt(x) = IF x.cur < Len(x.file) THEN x.cur * B ELSE PlainLen(x.file)
    BY <1>2, NextAtRead
  <2>2. CASE x.cur < Len(x.file)
    <3> DEFINE k == x.cur + 1
    <3>1. k \in 1..Len(x.file) /\ TextFile(x.file) /\ k - 1 = x.cur
      BY <2>2, ReadingFields
    <3>2. (k - 1) * B \in Nat /\ Len(x.file[k]) \in 1..B /\ PlainLen(x.file) \in Nat
          /\ (k - 1) * B + Len(x.file[k]) <= PlainLen(x.file)
      BY <3>1, BlockEnds, ReadingFields
    <3> DEFINE P == x.cur * B
    <3>3. P \in Nat /\ P + Len(x.file[k]) <= PlainLen(x.file)
      BY <3>1, <3>2
    <3>4. NextAt(x) = P
      BY <2>1, <2>2
    <3> HIDE DEF P, k
    <3> QED
      BY <3>2, <3>3, <3>4
  <2>3. CASE ~(x.cur < Len(x.file))
    BY <2>1, <2>3, ReadingFields
  <2> QED
    BY <2>2, <2>3
<1> QED
  BY <1>1, <1>2

(* decrypt_block! takes the next block or leaves the reader without one. *)
LEMMA DecryptBlockIs ==
    ASSUME NEW x, Reading(x)
    PROVE  LET y == ReadBlock(x)
           IN  /\ Reading(y) /\ y.file = x.file /\ y.pos_read = 0
               /\ x.cur < Len(x.file) => /\ y.cur = x.cur + 1 /\ y.buf = x.file[x.cur + 1]
                                         /\ y.buf # <<>> /\ HasUnread(y)
                                         /\ NextAt(y) = x.cur * B
               /\ ~(x.cur < Len(x.file)) => /\ y.cur = x.cur /\ y.cur = Len(y.file) /\ y.buf = <<>>
                                            /\ ~HasUnread(y) /\ NextAt(y) = PlainLen(x.file)
<1> DEFINE y == ReadBlock(x)
<1>0. x \in Readers /\ TextFile(x.file) /\ x.block_index = x.cur
  BY DEF Reading
<1>1. x.cur \in Nat /\ Len(x.file) \in Nat /\ x.cur <= Len(x.file) /\ x.file \in Seq(Seq(Nat))
  BY ReadingFields
<1> HIDE DEF y
<1>2. CASE x.cur < Len(x.file)
  <2>1. y = [x EXCEPT !.buf = x.file[x.cur + 1], !.pos_read = 0,
                      !.cur = @ + 1, !.block_index = @ + 1]
    BY <1>1, <1>2 DEF ReadBlock, y
  <2>2. x.cur + 1 \in 1..Len(x.file) /\ x.cur + 1 \in Nat /\ x.cur + 1 <= Len(x.file)
    BY <1>1, <1>2
  <2>3. x.file[x.cur + 1] \in Seq(Nat) /\ Len(x.file[x.cur + 1]) \in 1..B
    BY <1>0, <2>2 DEF TextFile
  <2>4. /\ y \in Readers /\ y.file = x.file /\ y.pos_read = 0 /\ y.cur = x.cur + 1
        /\ y.block_index = x.cur + 1 /\ y.buf = x.file[x.cur + 1]
    <3> DEFINE block == x.file[x.cur + 1]
               n == x.cur + 1
    <3>1. y = [x EXCEPT !.buf = block, !.pos_read = 0, !.cur = n, !.block_index = n]
      BY <1>0, <2>1
    <3>2. block \in Seq(Nat) /\ n \in Nat /\ 0 \in Nat
      BY <2>2, <2>3
    <3> HIDE DEF block, n
    <3>3. /\ y \in Readers /\ y.file = x.file /\ y.pos_read = 0 /\ y.cur = n
          /\ y.block_index = n /\ y.buf = block
      <4>1. x \in Readers
        BY <1>0
      <4> QED
        BY ONLY <4>1, <3>1, <3>2 DEF Readers
    <3> QED
      BY <3>3 DEF block, n
  <2>5. y.buf # <<>> /\ 0 < Len(y.buf)
    BY <2>3, <2>4, EmptyLen
  <2>6. y.cur - 1 = x.cur /\ x.cur * B + 0 = x.cur * B
    BY <1>1, <2>4, BlockStoreAssumption
  <2>7. NextAt(y) = x.cur * B
    BY <2>4, <2>5, <2>6 DEF NextAt
  <2>8. y.cur >= 1 /\ y.pos_read <= Len(y.buf)
    BY <1>1, <2>4, <2>5, <2>3
  <2>9. Reading(y)
    BY <1>0, <2>2, <2>4, <2>8 DEF Reading
  <2>10. HasUnread(y)
    BY <2>4, <2>5 DEF HasUnread
  <2> QED
    BY <1>2, <2>4, <2>5, <2>7, <2>9, <2>10, Zenon DEF y
<1>3. CASE ~(x.cur < Len(x.file))
  <2>1. y = [x EXCEPT !.buf = <<>>, !.pos_read = 0]
    BY <1>1, <1>3 DEF ReadBlock, y
  <2>2. /\ y \in Readers /\ y.file = x.file /\ y.pos_read = 0 /\ y.cur = x.cur
        /\ y.block_index = x.cur /\ y.buf = <<>>
    <3> DEFINE none == <<>>
    <3>1. y = [x EXCEPT !.buf = none, !.pos_read = 0]
      BY <2>1
    <3>2. none \in Seq(Nat)
      BY EmptyLen
    <3> HIDE DEF none
    <3>3. /\ y \in Readers /\ y.file = x.file /\ y.pos_read = 0 /\ y.cur = x.cur
          /\ y.block_index = x.cur /\ y.buf = none
      BY <1>0, <3>1, <3>2 DEF Readers
    <3> QED
      BY <3>3 DEF none
  <2>3. x.cur = Len(x.file) /\ Len(y.buf) = 0 /\ ~(y.cur < Len(y.file))
    BY <1>1, <1>3, <2>2, EmptyLen
  <2>4. NextAt(y) = PlainLen(x.file)
    BY <2>2, <2>3 DEF NextAt
  <2>5. Reading(y)
    BY <1>0, <1>1, <2>2, <2>3 DEF Reading
  <2>6. ~HasUnread(y)
    BY <2>2, <2>3 DEF HasUnread
  <2>7. y.cur = Len(y.file)
    BY <2>2, <2>3
  <2> QED
    BY <1>3, <2>2, <2>4, <2>5, <2>6, <2>7, Zenon DEF y
<1> QED
  BY <1>2, <1>3 DEF y

(* The byte that a reader gives next: its own or the first of the next     *)
(* block.                                                                  *)
Refilled(x) == IF HasUnread(x) THEN x ELSE ReadBlock(x)

LEMMA RefilledIs ==
    ASSUME NEW x, Reading(x)
    PROVE  LET y == Refilled(x)
           IN  /\ Reading(y) /\ y.file = x.file /\ NextAt(y) = NextAt(x)
               /\ HasUnread(y) <=> NextAt(x) < PlainLen(x.file)
               /\ ~HasUnread(y) => y.buf = <<>> /\ y.cur = Len(y.file)
<1> DEFINE y == Refilled(x)
<1>1. CASE HasUnread(x)
  <2>1. y = x
    BY <1>1 DEF Refilled
  <2> HIDE DEF y
  <2> QED
    BY <1>1, <2>1, NextAtUnread DEF y
<1>2. CASE ~HasUnread(x)
  <2>1. y = ReadBlock(x)
    BY <1>2 DEF Refilled
  <2>2. NextAt(x) = IF x.cur < Len(x.file) THEN x.cur * B ELSE PlainLen(x.file)
    BY <1>2, NextAtRead
  <2> HIDE DEF y
  <2>3. Reading(y) /\ y.file = x.file
    BY <2>1, DecryptBlockIs
  <2>4. CASE x.cur < Len(x.file)
    <3>1. HasUnread(y) /\ NextAt(y) = x.cur * B
      BY <2>1, <2>4, DecryptBlockIs
    <3>2. NextAt(y) < PlainLen(y.file)
      BY <2>3, <3>1, NextAtUnread
    <3> QED
      BY <2>2, <2>3, <2>4, <3>1, <3>2 DEF y
  <2>5. CASE ~(x.cur < Len(x.file))
    <3>1. ~HasUnread(y) /\ NextAt(y) = PlainLen(x.file) /\ y.buf = <<>> /\ y.cur = Len(y.file)
      BY <2>1, <2>5, DecryptBlockIs
    <3>2. ~(PlainLen(x.file) < PlainLen(x.file))
      BY ReadingFields
    <3> QED
      BY <2>2, <2>3, <2>5, <3>1, <3>2 DEF y
  <2> QED
    BY <2>4, <2>5
<1> QED
  BY <1>1, <1>2

(* A byte of read. *)
LEMMA ReadByteIs ==
    ASSUME NEW s, Reading(s.x), s.out \in Seq(Nat), s = [x |-> s.x, out |-> s.out]
    PROVE  LET t == ReadByte(s)
           IN  /\ Reading(t.x) /\ Ended(t.x) /\ t.x.file = s.x.file /\ t = [x |-> t.x, out |-> t.out]
               /\ NextAt(s.x) < PlainLen(s.x.file) =>
                     /\ t.out = Append(s.out, NextAt(s.x) + 1)
                     /\ NextAt(t.x) = NextAt(s.x) + 1 /\ t.x.buf # <<>>
               /\ ~(NextAt(s.x) < PlainLen(s.x.file)) =>
                     t.out = s.out /\ NextAt(t.x) = NextAt(s.x) /\ t.x.buf = <<>>
<1> DEFINE t == ReadByte(s)
           y == Refilled(s.x)
<1>1. t = IF ~HasUnread(y) THEN [s EXCEPT !.x = y]
          ELSE [x |-> [y EXCEPT !.pos_read = @ + 1], out |-> Append(s.out, y.buf[y.pos_read + 1])]
  BY Zenon DEF ReadByte, Refilled
<1>2. Reading(y) /\ y.file = s.x.file /\ NextAt(y) = NextAt(s.x)
      /\ (HasUnread(y) <=> NextAt(s.x) < PlainLen(s.x.file))
      /\ (~HasUnread(y) => y.buf = <<>> /\ y.cur = Len(y.file))
  BY RefilledIs
<1> HIDE DEF t, y
<1>3. CASE HasUnread(y)
  <2> DEFINE z == [y EXCEPT !.pos_read = @ + 1]
  <2>1. t = [x |-> z, out |-> Append(s.out, y.buf[y.pos_read + 1])]
    BY <1>1, <1>3
  <2>2. y.buf # <<>> /\ NextAt(y) \in Nat /\ y.buf[y.pos_read + 1] = NextAt(y) + 1
    BY <1>2, <1>3, NextAtUnread
  <2>3. /\ z \in Readers /\ z.file = y.file /\ z.cur = y.cur /\ z.block_index = y.block_index
        /\ z.buf = y.buf /\ z.pos_read = y.pos_read + 1
    <3>0. y.pos_read \in Nat
      BY <1>2, ReadingFields
    <3>1. y \in Readers /\ y.pos_read + 1 \in Nat
      BY <1>2, <3>0 DEF Reading
    <3>2. z = [y EXCEPT !.pos_read = y.pos_read + 1]
      OBVIOUS
    <3> HIDE DEF z
    <3> QED
      BY <3>1, <3>2, ReaderAt
  <2> HIDE DEF z
  <2>4. y.pos_read \in Nat /\ y.pos_read < Len(y.buf) /\ Len(y.buf) \in Nat /\ y.cur - 1 \in Nat
    BY <1>2, <1>3, <2>2, ReadingFields DEF HasUnread
  <2>5. z.pos_read <= Len(z.buf)
    BY <2>3, <2>4
  <2>6. Reading(z) /\ Ended(z)
    BY <1>2, <2>2, <2>3, <2>5 DEF Reading, Ended
  <2>7. NextAt(z) = NextAt(y) + 1
    <3> DEFINE P == (y.cur - 1) * B
    <3>1. P \in Nat
      BY <2>4, BlockStoreAssumption
    <3>2. NextAt(z) = P + (y.pos_read + 1) /\ NextAt(y) = P + y.pos_read
      BY <2>2, <2>3 DEF NextAt
    <3> HIDE DEF P
    <3> QED
      BY <3>1, <3>2, <2>4
  <2>8. t.x = z /\ t.out = Append(s.out, NextAt(s.x) + 1) /\ t = [x |-> t.x, out |-> t.out]
    BY <2>1, <2>2, <1>2
  <2>9. NextAt(s.x) < PlainLen(s.x.file)
    BY <1>2, <1>3
  <2> QED
    BY <1>2, <2>2, <2>3, <2>6, <2>7, <2>8, <2>9, Zenon DEF t
<1>4. CASE ~HasUnread(y)
  <2>1. t = [s EXCEPT !.x = y]
    BY <1>1, <1>4
  <2>2. t.x = y /\ t.out = s.out /\ t = [x |-> t.x, out |-> t.out]
    BY <2>1
  <2>3. Ended(y)
    BY <1>2, <1>4 DEF Ended
  <2>4. ~(NextAt(s.x) < PlainLen(s.x.file))
    BY <1>2, <1>4
  <2> QED
    BY <1>2, <1>4, <2>2, <2>3, <2>4, Zenon DEF t
<1> QED
  BY <1>3, <1>4

(* m bytes of the text from position a on. *)
Stretch(a, m) == [i \in 1..m |-> a + i]

LEMMA StretchIs ==
    ASSUME NEW a \in Nat, NEW m \in Nat
    PROVE  /\ Stretch(a, m) \in Seq(Nat) /\ Len(Stretch(a, m)) = m
           /\ \A i \in 1..m : Stretch(a, m)[i] = a + i
           /\ Append(Stretch(a, m), a + m + 1) = Stretch(a, m + 1)
           /\ m = 0 => Stretch(a, m) = <<>>
<1> DEFINE s == Stretch(a, m)
           t == Stretch(a, m + 1)
<1>1. s \in [1..m -> Nat] /\ t \in [1..(m + 1) -> Nat]
  BY DEF Stretch
<1>2. \A i \in 1..m : s[i] = a + i
  BY DEF Stretch
<1>3. \A i \in 1..(m + 1) : t[i] = a + i
  BY DEF Stretch
<1> HIDE DEF s, t
<1>4. s \in Seq(Nat) /\ Len(s) = m
  BY <1>1, FcnIsSeq
<1>5. t \in Seq(Nat) /\ Len(t) = m + 1
  <2>1. m + 1 \in Nat
    OBVIOUS
  <2> QED
    BY <1>1, <2>1, FcnIsSeq
<1>6. Append(s, a + m + 1) \in Seq(Nat) /\ Len(Append(s, a + m + 1)) = m + 1
      /\ \A i \in 1..(m + 1) : Append(s, a + m + 1)[i] = IF i = m + 1 THEN a + m + 1 ELSE s[i]
  BY <1>4
<1>7. \A i \in 1..(m + 1) : Append(s, a + m + 1)[i] = t[i]
  BY <1>2, <1>3, <1>6
<1> DEFINE u == Append(s, a + m + 1)
<1>8. u = t
  <2>1. u \in Seq(Nat) /\ t \in Seq(Nat) /\ Len(u) = Len(t) /\ \A i \in 1..Len(t) : u[i] = t[i]
    BY <1>5, <1>6, <1>7
  <2> HIDE DEF u
  <2> QED
    BY <2>1
<1>9. m = 0 => s = <<>>
  BY <1>4
<1> QED
  BY <1>2, <1>4, <1>8, <1>9 DEF s, t

(* The loop of read as a function of the bytes asked for so far. *)
Bytewise(f, x, n) ==
    f = [k \in 0..n |-> IF k = 0 THEN [x |-> x, out |-> <<>>] ELSE ReadByte(f[k - 1])]

LEMMA BytewiseExists ==
    ASSUME NEW x, NEW n \in Nat
    PROVE  \E f : Bytewise(f, x, n)
<1> DEFINE T == {m \in Nat : ~\E f : Bytewise(f, x, m)}
<1>1. SUFFICES ASSUME T # {} PROVE FALSE
  OBVIOUS
<1>2. PICK m \in T : \A k \in T : m <= k
  BY <1>1, NatLeast
<1>3. CASE m = 0
  <2>1. Bytewise([k \in 0..0 |-> [x |-> x, out |-> <<>>]], x, 0)
    BY DEF Bytewise
  <2> QED
    BY <2>1, <1>2, <1>3
<1>4. CASE m # 0
  <2>1. m - 1 \in Nat /\ m - 1 \notin T
    BY <1>2, <1>4
  <2>2. PICK g : Bytewise(g, x, m - 1)
    BY <2>1
  <2> DEFINE f == [k \in 0..m |-> IF k = m THEN ReadByte(g[m - 1]) ELSE g[k]]
             start == [x |-> x, out |-> <<>>]
  <2> HIDE DEF start
  <2>3. g = [k \in 0..(m - 1) |-> IF k = 0 THEN start ELSE ReadByte(g[k - 1])]
    BY <2>2 DEF Bytewise, start
  <2>4. ASSUME NEW k \in 0..m PROVE f[k] = IF k = 0 THEN start ELSE ReadByte(f[k - 1])
    BY <2>1, <2>3, <1>4
  <2>5. f = [k \in 0..m |-> IF k = 0 THEN start ELSE ReadByte(f[k - 1])]
    BY <2>4
  <2>6. Bytewise(f, x, m)
    BY <2>5 DEF Bytewise, start
  <2> QED
    BY <2>6, <1>2
<1> QED
  BY <1>3, <1>4

(* A read gives the bytes from where the reader is, up to the end. *)
LEMMA ReadBytesIs ==
    ASSUME NEW x, Reading(x), NEW n \in Nat
    PROVE  LET s == ReadBytes(x, n)
               e == MinOf(NextAt(x) + n, PlainLen(x.file))
           IN  /\ Reading(s.x) /\ s.x.file = x.file /\ NextAt(s.x) = e
               /\ s.out = Stretch(NextAt(x), e - NextAt(x))
               /\ n > 0 => Ended(s.x)
               /\ n > 0 => (s.x.buf # <<>> <=> NextAt(x) + n <= PlainLen(x.file))
               /\ n = 0 => s.x = x
<1> DEFINE f == CHOOSE f : Bytewise(f, x, n)
           a == NextAt(x)
           S == PlainLen(x.file)
           start == [x |-> x, out |-> <<>>]
<1>1. Bytewise(f, x, n)
  BY BytewiseExists
<1>2. ReadBytes(x, n) = f[n]
  BY DEF ReadBytes, Bytewise
<1> HIDE DEF f
<1>3. f[0] = start /\ \A k \in 0..n : k # 0 => f[k] = ReadByte(f[k - 1])
  BY <1>1 DEF Bytewise
<1> DEFINE Done(k) ==
             /\ Reading(f[k].x) /\ f[k].x.file = x.file /\ f[k] = [x |-> f[k].x, out |-> f[k].out]
             /\ NextAt(f[k].x) = MinOf(a + k, S)
             /\ f[k].out = Stretch(a, MinOf(a + k, S) - a)
             /\ k > 0 => Ended(f[k].x)
             /\ k > 0 => (f[k].x.buf # <<>> <=> a + k <= S)
           T == {k \in 0..n : ~Done(k)}
<1>4. a \in Nat /\ S \in Nat /\ a <= S
  BY NextAtRange, ReadingFields
<1>5. Done(0)
  <2>1. f[0].x = x /\ f[0].out = <<>> /\ f[0] = [x |-> f[0].x, out |-> f[0].out]
    BY <1>3
  <2>2. MinOf(a + 0, S) = a /\ a - a = 0
    BY <1>4 DEF MinOf
  <2>3. Stretch(a, 0) = <<>>
    BY <1>4, StretchIs
  <2>4. NextAt(f[0].x) = a
    BY <2>1
  <2> HIDE DEF a, S
  <2> QED
    BY <2>1, <2>2, <2>3, <2>4
<1> HIDE DEF a, S
<1>6. ASSUME NEW k \in 0..n, k # 0, Done(k - 1) PROVE Done(k)
  <2> DEFINE s == f[k - 1]
             t == f[k]
             m == MinOf(a + (k - 1), S)
  <2>1. k \in Nat /\ k - 1 \in Nat /\ t = ReadByte(s)
    BY <1>3, <1>6
  <2>2. /\ Reading(s.x) /\ s.x.file = x.file /\ s = [x |-> s.x, out |-> s.out]
        /\ NextAt(s.x) = m /\ s.out = Stretch(a, m - a)
    BY <1>6
  <2> HIDE DEF s, t
  <2>3. m \in Nat /\ m - a \in Nat /\ m <= S /\ m >= a
    BY <1>4, <2>1 DEF MinOf
  <2>4. s.out \in Seq(Nat)
    BY <2>2, <2>3, <1>4, StretchIs
  <2>5. PlainLen(s.x.file) = S
    BY <2>2 DEF S
  <2>6. /\ Reading(t.x) /\ Ended(t.x) /\ t.x.file = s.x.file /\ t = [x |-> t.x, out |-> t.out]
        /\ m < S => t.out = Append(s.out, m + 1) /\ NextAt(t.x) = m + 1 /\ t.x.buf # <<>>
        /\ ~(m < S) => t.out = s.out /\ NextAt(t.x) = m /\ t.x.buf = <<>>
    BY <2>1, <2>2, <2>4, <2>5, ReadByteIs
  <2>7. CASE m < S
    <3>1. m = a + (k - 1) /\ a + k <= S /\ MinOf(a + k, S) = m + 1 /\ (m + 1) - a = (m - a) + 1
      BY <2>1, <2>3, <2>7, <1>4 DEF MinOf
    <3>2. Append(Stretch(a, m - a), a + (m - a) + 1) = Stretch(a, (m - a) + 1)
      BY <2>3, <1>4, StretchIs
    <3>3. a + (m - a) + 1 = m + 1
      BY <2>3, <1>4
    <3> HIDE DEF m
    <3>4. t.out = Stretch(a, (m + 1) - a) /\ NextAt(t.x) = m + 1
      BY <2>2, <2>6, <2>7, <3>1, <3>2, <3>3
    <3> QED
      BY <2>2, <2>6, <2>7, <3>1, <3>4 DEF t
  <2>8. CASE ~(m < S)
    <3>1. m = S /\ MinOf(a + k, S) = m /\ ~(a + k <= S)
      BY <2>1, <2>3, <2>8, <1>4 DEF MinOf
    <3> HIDE DEF m
    <3> QED
      BY <2>2, <2>6, <2>8, <3>1 DEF t
  <2> QED
    BY <2>7, <2>8
<1> HIDE DEF Done
<1>7. T = {}
  <2> SUFFICES ASSUME T # {} PROVE FALSE
    OBVIOUS
  <2>1. PICK m \in T : \A k \in T : m <= k
    <3>1. T \subseteq Nat
      OBVIOUS
    <3> HIDE DEF T
    <3> QED
      BY <3>1, NatLeast
  <2>2. m \in 0..n /\ ~Done(m) /\ m # 0 /\ m \in Nat
    BY <2>1, <1>5
  <2>3. m - 1 \in 0..n /\ m - 1 \notin T
    BY <2>1, <2>2
  <2> QED
    BY <2>2, <2>3, <1>6
<1>8. Done(n)
  BY <1>7
<1>9. n = 0 => f[n].x = x
  BY <1>3
<1> QED
  BY <1>2, <1>8, <1>9 DEF Done, a, S

-----------------------------------------------------------------------------
(* Seeking.                                                                *)

(* seek_from_start says where the reader is, unless that is lost. *)
LEMMA PosIs ==
    ASSUME NEW x, Reading(x)
    PROVE  /\ ReadPos(x) \in Nat
           /\ ~Drained(x) => ReadPos(x) = NextAt(x)
           /\ x.buf # <<>> => ~Drained(x) /\ ReadPos(x) = (x.cur - 1) * B + x.pos_read
           /\ x.buf = <<>> /\ ~Drained(x) => x.cur = 0 /\ ReadPos(x) = 0
<1>1. x.cur \in Nat /\ x.pos_read \in Nat /\ x.block_index = x.cur /\ Len(x.file) \in Nat
  BY ReadingFields
<1>2. CASE x.buf # <<>>
  <2>1. x.cur - 1 \in Nat /\ x.cur # 0
    BY <1>2, ReadingFields
  <2>2. ReadPos(x) = (x.cur - 1) * B + x.pos_read
    BY <2>1, <1>1 DEF ReadPos
  <2>3. (x.cur - 1) * B \in Nat
    BY <2>1, BlockStoreAssumption
  <2> DEFINE P == (x.cur - 1) * B
  <2> HIDE DEF P
  <2>4. P + x.pos_read \in Nat
    BY <2>3, <1>1 DEF P
  <2> QED
    BY <1>2, <2>2, <2>4 DEF NextAt, Drained, P
<1>3. CASE x.buf = <<>> /\ x.cur = 0
  <2>1. x.pos_read = 0
    BY <1>1, <1>3, ReadingFields
  <2>2. 0 * B + 0 = 0 /\ 0 * B = 0
    BY BlockStoreAssumption
  <2>3. ReadPos(x) = 0
    BY <1>1, <1>3, <2>1, <2>2 DEF ReadPos
  <2>4. CASE 0 < Len(x.file)
    BY <1>3, <2>2, <2>3, <2>4 DEF NextAt
  <2>5. CASE ~(0 < Len(x.file))
    <3>1. x.file = <<>> /\ PlainLen(x.file) = 0
      <4>1. TextFile(x.file) /\ Len(x.file) = 0
        BY <2>5, ReadingFields
      <4> QED
        BY <4>1, WholeLen
    <3> QED
      BY <1>3, <2>3, <2>5, <3>1 DEF NextAt
  <2> QED
    BY <2>4, <2>5
<1>4. CASE x.buf = <<>> /\ x.cur # 0
  <2>1. Drained(x)
    BY <1>1, <1>4 DEF Drained
  <2> DEFINE c == x.cur - 1
  <2>2. c \in Nat /\ ReadPos(x) = c * B + x.pos_read
    BY <1>1, <1>4 DEF ReadPos
  <2> HIDE DEF c
  <2>3. c * B \in Nat
    BY <2>2, BlockStoreAssumption
  <2> DEFINE P == c * B
  <2> HIDE DEF P
  <2>4. P + x.pos_read \in Nat
    BY <1>1, <2>3 DEF P
  <2> QED
    BY <1>4, <2>1, <2>2, <2>4 DEF P
<1> QED
  BY <1>2, <1>3, <1>4

(* A reader after a seek to n. *)
Landed(x, y, n) == /\ Reading(y) /\ Settled(y) /\ y.file = x.file
                   /\ Drained(y) \/ ReadPos(y) = n
                   /\ ~Drained(x) => ~Drained(y)

LEMMA SeekForwardIs ==
    ASSUME NEW x, Reading(x), NEW k \in Nat, k > 0, NextAt(x) + k <= PlainLen(x.file)
    PROVE  LET y == SeekForward(x, k)
           IN  /\ Reading(y) /\ Settled(y) /\ y.file = x.file
               /\ ~Drained(y) /\ ReadPos(y) = NextAt(x) + k
<1> DEFINE y == SeekForward(x, k)
<1>1. NextAt(x) \in Nat /\ PlainLen(x.file) \in Nat
  BY NextAtRange, ReadingFields
<1>2. MinOf(NextAt(x) + k, PlainLen(x.file)) = NextAt(x) + k
  BY <1>1 DEF MinOf
<1>3. y = ReadBytes(x, k).x
  BY DEF SeekForward
<1> HIDE DEF y
<1>4. Reading(y) /\ y.file = x.file /\ y.buf # <<>> /\ NextAt(y) = NextAt(x) + k
  BY <1>2, <1>3, ReadBytesIs
<1>5. ~Drained(y) /\ ReadPos(y) = NextAt(y)
  BY <1>4, PosIs
<1> QED
  BY <1>4, <1>5 DEF y, Settled

(* A reader at the end stays there when it reads on. *)
LEMMA DrainedStays ==
    ASSUME NEW x, Reading(x), Settled(x), Drained(x), NEW k \in Nat, k > 0
    PROVE  LET y == SeekForward(x, k)
           IN  Reading(y) /\ Settled(y) /\ y.file = x.file /\ Drained(y)
<1> DEFINE y == SeekForward(x, k)
<1>1. y = ReadBytes(x, k).x
  BY DEF SeekForward
<1> HIDE DEF y
<1>2. /\ Reading(y) /\ y.file = x.file /\ Ended(y)
      /\ y.buf # <<>> <=> NextAt(x) + k <= PlainLen(x.file)
  BY <1>1, ReadBytesIs
<1>3. x.buf = <<>> /\ x.cur = Len(x.file) /\ x.cur > 0
  <2>1. x.buf = <<>> /\ x.cur # 0 /\ x.cur > 0
    BY ReadingFields DEF Drained
  <2> QED
    BY <2>1 DEF Settled
<1>4. NextAt(x) = PlainLen(x.file)
  <2>1. ~(x.cur < Len(x.file))
    BY <1>3, ReadingFields
  <2> QED
    BY <1>3, <2>1 DEF NextAt
<1>5. y.buf = <<>>
  <2>1. ~(PlainLen(x.file) + k <= PlainLen(x.file))
    BY ReadingFields
  <2> QED
    BY <1>2, <1>4, <2>1
<1>6. y.cur = Len(y.file) /\ y.block_index > 0
  BY <1>2, <1>3, <1>5 DEF Ended, Reading
<1> QED
  BY <1>2, <1>5, <1>6 DEF y, Drained, Settled

(* What a drained reader has left. *)
LEMMA DrainedAtEnd ==
    ASSUME NEW x, Reading(x), Settled(x), Drained(x)
    PROVE  NextAt(x) = PlainLen(x.file)
<1>1. x.buf = <<>> /\ x.cur # 0
  BY ReadingFields DEF Drained
<1>2. x.cur = Len(x.file) /\ ~(x.cur < Len(x.file))
  BY <1>1, ReadingFields DEF Settled
<1> QED
  BY <1>1, <1>2 DEF NextAt

LEMMA SeekSameBlockIs ==
    ASSUME NEW x, Reading(x), Settled(x), NEW n \in Nat, n # ReadPos(x), n <= PlainLen(x.file),
           n \div B = ReadPos(x) \div B
    PROVE  Landed(x, ReadSeekSameBlock(x, n), n)
<1> DEFINE y == ReadSeekSameBlock(x, n)
           atFullBlockEnd == ReadPos(x) % B = 0 /\ ~HasUnread(x)
           q == n \div B
           m == n % B
           Q == q * B
<1>1. q \in Nat /\ m \in Nat /\ m < B /\ n = Q + m /\ Q \in Nat
  BY DivRange
<1>2. ReadPos(x) \in Nat /\ ReadPos(x) % B \in Nat /\ ReadPos(x) % B < B /\ ReadPos(x) = Q + (ReadPos(x) % B)
  <2>1. ReadPos(x) \in Nat
    BY PosIs
  <2>2. /\ ReadPos(x) % B \in Nat /\ ReadPos(x) % B < B
        /\ ReadPos(x) = (ReadPos(x) \div B) * B + (ReadPos(x) % B)
    BY <2>1, DivRange
  <2> QED
    BY <2>1, <2>2
<1>3. y = IF x.buf # <<>> /\ ~atFullBlockEnd THEN [x EXCEPT !.pos_read = m] ELSE SeekForward(x, m)
  BY Zenon DEF ReadSeekSameBlock
<1>4. PlainLen(x.file) \in Nat /\ x.pos_read \in Nat /\ TextFile(x.file) /\ B \in Nat
  BY ReadingFields, BlockStoreAssumption
<1> DEFINE e == ReadPos(x) % B
<1>5. e \in Nat /\ e < B /\ ReadPos(x) = Q + e
  BY <1>2
<1> HIDE DEF y, q, m, Q
<1>6. CASE x.buf = <<>> /\ Drained(x)
  <2>1. y = SeekForward(x, m)
    BY <1>3, <1>6
  <2>2. CASE m > 0
    <3>1. Reading(y) /\ Settled(y) /\ y.file = x.file /\ Drained(y)
      BY <2>1, <2>2, <1>1, <1>6, DrainedStays
    <3> QED
      BY <3>1, <1>6 DEF Landed, y
  <2>3. CASE m = 0
    <3>1. y = x
      <4>1. ReadBytes(x, 0).x = x
        BY ReadBytesIs
      <4> QED
        BY <2>1, <2>3, <4>1 DEF SeekForward
    <3> QED
      BY <3>1, <1>6 DEF Landed, y
  <2> QED
    BY <2>2, <2>3, <1>1
<1>7. CASE x.buf = <<>> /\ ~Drained(x)
  <2>1. y = SeekForward(x, m)
    BY <1>3, <1>7
  <2>2. ReadPos(x) = 0 /\ NextAt(x) = 0
    BY <1>7, PosIs
  <2>3. Q = 0 /\ m = n /\ m > 0
    BY <2>2, <1>1, <1>5
  <2>4. NextAt(x) + m = n /\ NextAt(x) + m <= PlainLen(x.file)
    BY <2>2, <2>3, <1>1
  <2>5. Reading(y) /\ Settled(y) /\ y.file = x.file /\ ~Drained(y) /\ ReadPos(y) = n
    BY <2>1, <2>3, <2>4, <1>1, SeekForwardIs
  <2> QED
    BY <2>5, <1>7 DEF Landed, y
<1>8. CASE x.buf # <<>> /\ atFullBlockEnd
  <2>1. y = SeekForward(x, m)
    BY <1>3, <1>8
  <2>2. ~Drained(x) /\ NextAt(x) = Q
    <3>1. ~Drained(x) /\ ReadPos(x) = NextAt(x)
      BY <1>8, PosIs
    <3>2. e = 0
      BY <1>8
    <3> HIDE DEF e
    <3> QED
      BY <3>1, <3>2, <1>1, <1>5
  <2>3. m > 0 /\ NextAt(x) + m = n
    <3>1. ReadPos(x) = Q
      BY <1>8, <2>2, PosIs
    <3> QED
      BY <3>1, <2>2, <1>1
  <2>4. Reading(y) /\ Settled(y) /\ y.file = x.file /\ ~Drained(y) /\ ReadPos(y) = n
    BY <2>1, <2>3, <1>1, SeekForwardIs
  <2> QED
    BY <2>2, <2>4 DEF Landed, y
<1>9. CASE x.buf # <<>> /\ ~atFullBlockEnd
  <2>1. y = [x EXCEPT !.pos_read = m]
    BY <1>3, <1>9
  <2>2. x \in Readers
    BY DEF Reading
  <2>3. /\ y \in Readers /\ y.file = x.file /\ y.cur = x.cur /\ y.block_index = x.block_index
        /\ y.buf = x.buf /\ y.pos_read = m
    BY <2>1, <2>2, <1>1, ReaderAt
  <2> DEFINE P == (x.cur - 1) * B
             l == Len(x.buf)
  <2>4. /\ x.cur \in 1..Len(x.file) /\ x.buf = x.file[x.cur] /\ l \in 1..B /\ l \in Nat
        /\ x.pos_read <= l
    BY <1>9, ReadingFields
  <2>5. P \in Nat /\ ReadPos(x) = P + x.pos_read /\ ~Drained(x)
    <3>1. P \in Nat
      BY <2>4, <1>4, BlockEnds
    <3> QED
      BY <3>1, <1>9, PosIs
  <2>6. x.pos_read < B
    <3> SUFFICES ASSUME ~(x.pos_read < B) PROVE FALSE
      OBVIOUS
    <3>1. x.pos_read = B /\ l = B
      BY <2>4, <1>4
    <3>2. ~HasUnread(x)
      BY <3>1, <1>4 DEF HasUnread
    <3> DEFINE c == x.cur - 1
    <3>3. c \in Nat /\ c * B = P /\ x.cur = c + 1
      BY <2>4, ReadingFields
    <3> HIDE DEF c
    <3>4. ReadPos(x) = x.cur * B + 0
      <4>1. (c + 1) * B = c * B + B /\ (c + 1) * B + 0 = (c + 1) * B
        BY <3>3, <1>4
      <4> QED
        BY <4>1, <3>1, <3>3, <2>5
    <3>5. ReadPos(x) % B = 0
      <4>1. B \in Nat \ {0} /\ x.cur \in Nat /\ 0 < B /\ 0 \in Nat
        BY BlockStoreAssumption, ReadingFields
      <4> QED
        BY <3>4, <4>1, DivIs
    <3> QED
      BY <3>2, <3>5, <1>9
  <2>7. P = Q
    <3> DEFINE c == x.cur - 1
    <3>1. c \in Nat /\ c * B = P
      BY <2>4, ReadingFields
    <3>2. ReadPos(x) = c * B + x.pos_read
      BY <2>5
    <3> HIDE DEF c
    <3>3. ReadPos(x) \div B = c
      <4>1. B \in Nat \ {0}
        BY BlockStoreAssumption
      <4> QED
        BY <3>1, <3>2, <4>1, <2>6, <1>4, DivIs
    <3> QED
      BY <3>1, <3>3 DEF Q, q
  <2>8. m <= l
    <3>1. x.cur < Len(x.file) => l = B
      BY <2>4, <1>4, BlockEnds
    <3>2. x.cur = Len(x.file) => P + l = PlainLen(x.file)
      BY <2>4, <1>4, BlockEnds
    <3>3. x.cur < Len(x.file) \/ x.cur = Len(x.file)
      BY <2>4, ReadingFields
    <3> HIDE DEF P, l
    <3> QED
      BY <3>1, <3>2, <3>3, <2>4, <2>5, <2>7, <1>1, <1>4
  <2>9. Reading(y) /\ Settled(y)
    <3>1. y.buf # <<>> /\ Settled(y)
      BY <2>3, <1>9 DEF Settled
    <3>2. y.pos_read <= Len(y.buf)
      BY <2>3, <2>8
    <3>3. y.cur >= 1 /\ y.cur <= Len(y.file) /\ y.buf = y.file[y.cur]
      BY <2>3, <2>4, ReadingFields
    <3>4. y.block_index = y.cur
      BY <2>3, ReadingFields
    <3>5. TextFile(y.file)
      BY <2>3, <1>4
    <3> QED
      BY <2>3, <3>1, <3>2, <3>3, <3>4, <3>5 DEF Reading
  <2>10. ~Drained(y) /\ ReadPos(y) = P + m
    <3>1. y.buf # <<>>
      BY <2>3, <1>9
    <3>2. ~Drained(y) /\ ReadPos(y) = (y.cur - 1) * B + y.pos_read
      BY <3>1, <2>9, PosIs
    <3> QED
      BY <3>2, <2>3
  <2>11. ReadPos(y) = n
    BY <2>7, <2>10, <1>1
  <2> QED
    BY <2>3, <2>9, <2>10, <2>11 DEF Landed, y
<1> QED
  BY <1>6, <1>7, <1>8, <1>9 DEF y

LEMMA SeekOtherBlockIs ==
    ASSUME NEW x, Reading(x), NEW n \in Nat, n <= PlainLen(x.file), n < Len(x.file) * B
    PROVE  Landed(x, ReadSeekOtherBlock(x, n), n) /\ ~Drained(ReadSeekOtherBlock(x, n))
<1> DEFINE q == n \div B
           m == n % B
           Q == q * B
           y == [x EXCEPT !.cur = q, !.block_index = q, !.buf = <<>>, !.pos_read = 0]
           z == ReadSeekOtherBlock(x, n)
<1>1. q \in Nat /\ m \in Nat /\ m < B /\ n = Q + m /\ Q \in Nat
  BY DivRange
<1>2. z = SeekForward(IF m = 0 THEN ReadBlock(y) ELSE y, m)
  BY Zenon DEF ReadSeekOtherBlock
<1>3. Len(x.file) \in Nat /\ TextFile(x.file) /\ x \in Readers
  BY ReadingFields DEF Reading
<1> HIDE DEF q, m
<1>4. /\ y \in Readers /\ y.file = x.file /\ y.cur = q /\ y.block_index = q
      /\ y.buf = <<>> /\ y.pos_read = 0
  <2> DEFINE none == <<>>
             u == [x EXCEPT !.cur = q, !.block_index = q, !.buf = none, !.pos_read = 0]
  <2>1. none \in Seq(Nat) /\ x \in Readers /\ q \in Nat
    BY <1>1, <1>3, EmptyLen
  <2>2. y = u
    OBVIOUS
  <2> HIDE DEF none, y
  <2>3. /\ u \in Readers /\ u.file = x.file /\ u.cur = q /\ u.block_index = q
        /\ u.buf = none /\ u.pos_read = 0
    BY ONLY <2>1 DEF Readers
  <2> HIDE DEF u
  <2> QED
    BY <2>2, <2>3 DEF none
<1> HIDE DEF y, z
<1>5. q < Len(x.file)
  <2> SUFFICES ASSUME ~(q < Len(x.file)) PROVE FALSE
    OBVIOUS
  <2>1. Len(x.file) * B <= Q /\ Len(x.file) * B \in Nat
    <3> DEFINE c == Len(x.file)
    <3>1. c \in Nat /\ q \in Nat /\ c <= q
      BY <1>1, <1>3
    <3> HIDE DEF c
    <3>2. c * B <= q * B /\ c * B \in Nat
      BY ONLY <3>1, MulMono
    <3> QED
      BY <3>2 DEF c
  <2> DEFINE L == Len(x.file) * B
  <2>2. L <= Q /\ L \in Nat /\ n < L
    BY <2>1
  <2> HIDE DEF L, Q
  <2> QED
    BY <2>2, <1>1
<1>6. Reading(y)
  <2>1. y.pos_read <= Len(y.buf) /\ y.cur <= Len(y.file)
    BY <1>1, <1>3, <1>4, <1>5, EmptyLen
  <2> QED
    BY <1>3, <1>4, <2>1 DEF Reading
<1>7. NextAt(y) = Q
  BY <1>4, <1>5 DEF NextAt
<1>8. CASE m = 0
  <2> DEFINE d == ReadBlock(y)
  <2>1. Reading(d) /\ d.file = x.file /\ d.buf # <<>> /\ NextAt(d) = Q
    BY <1>4, <1>5, <1>6, DecryptBlockIs
  <2>2. z = SeekForward(d, 0)
    BY <1>2, <1>8
  <2> HIDE DEF d
  <2>3. z = d
    <3>1. ReadBytes(d, 0).x = d
      BY <2>1, ReadBytesIs
    <3> QED
      BY <2>2, <3>1 DEF SeekForward
  <2>4. ~Drained(d) /\ ReadPos(d) = Q
    BY <2>1, PosIs
  <2>5. n = Q
    BY <1>1, <1>8
  <2> QED
    BY <2>1, <2>3, <2>4, <2>5 DEF Landed, Settled, z
<1>9. CASE m # 0
  <2>1. z = SeekForward(y, m)
    BY <1>2, <1>9
  <2>2. m > 0 /\ NextAt(y) + m = n /\ n <= PlainLen(y.file)
    BY <1>1, <1>4, <1>7, <1>9
  <2>3. Reading(z) /\ Settled(z) /\ z.file = y.file /\ ~Drained(z) /\ ReadPos(z) = n
    BY <2>1, <2>2, <1>1, <1>6, SeekForwardIs
  <2> QED
    BY <2>3, <1>4 DEF Landed, z
<1> QED
  BY <1>8, <1>9

(* seek keeps the reader in its file and takes it to the offset, or to     *)
(* what it takes for the length.                                           *)
LEMMA SeekToIs ==
    ASSUME NEW x, Reading(x), Settled(x), NEW offset \in Nat
    PROVE  Landed(x, ReadSeek(x, offset), MinOf(offset, PlaintextLen(x.file)))
<1> DEFINE n == MinOf(offset, PlaintextLen(x.file))
<1>1. TextFile(x.file)
  BY ReadingFields
<1>2. PlaintextLen(x.file) \in Nat /\ PlaintextLen(x.file) <= PlainLen(x.file)
      /\ (x.file = <<>> => PlaintextLen(x.file) = 0)
      /\ (x.file # <<>> => PlaintextLen(x.file) < Len(x.file) * B)
  BY <1>1, PlaintextLenIs
<1>3. PlainLen(x.file) \in Nat /\ Len(x.file) \in Nat
  BY ReadingFields
<1>4. n \in Nat /\ n <= PlaintextLen(x.file) /\ n <= PlainLen(x.file)
  BY <1>2, <1>3 DEF MinOf
<1>5. ReadSeek(x, offset) = IF n = ReadPos(x) THEN x
                          ELSE IF n \div B = ReadPos(x) \div B THEN ReadSeekSameBlock(x, n)
                               ELSE ReadSeekOtherBlock(x, n)
  BY Zenon DEF ReadSeek
<1> HIDE DEF n
<1>6. CASE n = ReadPos(x)
  BY <1>5, <1>6 DEF Landed, n
<1>7. CASE n # ReadPos(x) /\ n \div B = ReadPos(x) \div B
  <2>1. Landed(x, ReadSeekSameBlock(x, n), n)
    BY <1>4, <1>7, SeekSameBlockIs
  <2> QED
    BY <2>1, <1>5, <1>7 DEF n
<1>8. CASE n # ReadPos(x) /\ n \div B # ReadPos(x) \div B
  <2>1. x.file # <<>>
    <3> SUFFICES ASSUME x.file = <<>> PROVE FALSE
      OBVIOUS
    <3>1. n = 0
      BY <1>2, <1>4
    <3>2. Len(x.file) = 0
      BY <1>1, WholeLen
    <3>3. x.buf = <<>> /\ x.cur = 0
      BY <3>2, ReadingFields
    <3>4. ~Drained(x)
      BY <3>3, ReadingFields DEF Drained
    <3>5. ReadPos(x) = 0
      BY <3>3, <3>4, PosIs
    <3> QED
      BY <3>1, <3>5, <1>8
  <2>2. n < Len(x.file) * B
    <3> DEFINE L == Len(x.file) * B
    <3>1. L \in Nat /\ PlaintextLen(x.file) < L
      BY <2>1, <1>2, <1>3, BlockStoreAssumption
    <3> HIDE DEF L
    <3>2. n < L
      BY <3>1, <1>2, <1>4
    <3> QED
      BY <3>2 DEF L
  <2>3. Landed(x, ReadSeekOtherBlock(x, n), n)
    BY <2>2, <1>4, SeekOtherBlockIs
  <2> QED
    BY <2>3, <1>5, <1>8 DEF n
<1> QED
  BY <1>6, <1>7, <1>8

-----------------------------------------------------------------------------
(* The specification.                                                      *)

(* Between calls: the reader is in its file, and has a block, is new or    *)
(* has run into the end.                                                   *)
Rests(x) == Reading(x) /\ Settled(x)

(* The last read, as a record of what was asked and given. *)
Given(g) == g.offset \in Nat /\ g.len \in Nat

(* The inductive invariant. *)
IInv == Rests(r) /\ Given(got) /\ ReadSound

LEMMA TextIs ==
    ASSUME NEW n \in Nat
    PROVE  Text(n) \in Seq(Nat) /\ Len(Text(n)) = n /\ \A j \in 1..n : Text(n)[j] = j
<1> DEFINE s == Text(n)
<1>1. s \in [1..n -> Nat] /\ \A j \in 1..n : s[j] = j
  BY DEF Text
<1> HIDE DEF s
<1>2. s \in Seq(Nat) /\ Len(s) = n /\ \A j \in 1..n : s[j] = j
  BY <1>1, FcnIsSeq
<1> QED
  BY <1>2 DEF s

(* What must be read is a stretch of the text. *)
LEMMA WantedIs ==
    ASSUME NEW S \in Nat, NEW a \in Nat, NEW n \in Nat
    PROVE  LET w == SubSeq(Text(S), a + 1, MinOf(a + n, S))
           IN  /\ w \in Seq(Nat)
               /\ a <= S => w = Stretch(a, MinOf(a + n, S) - a)
               /\ ~(a <= S) => w = <<>>
<1> DEFINE t == Text(S)
           e == MinOf(a + n, S)
           w == SubSeq(t, a + 1, e)
<1>1. t \in Seq(Nat) /\ Len(t) = S /\ \A j \in 1..S : t[j] = j
  BY TextIs
<1>2. e \in Nat /\ e <= S /\ (a <= S => a <= e) /\ (~(a <= S) => e < a)
  BY DEF MinOf
<1> HIDE DEF t, e
<1>3. CASE a < e
  <2>1. w \in Seq(Nat) /\ Len(w) = e - a /\ \A i \in 1..(e - a) : w[i] = t[a + i]
    BY <1>1, <1>2, <1>3, SubSeqIs
  <2>2. \A i \in 1..(e - a) : w[i] = a + i
    BY <2>1, <1>1, <1>2, <1>3
  <2> DEFINE m == e - a
             v == Stretch(a, m)
  <2>m. m \in Nat
    BY <1>2, <1>3
  <2> HIDE DEF m
  <2>3. v \in Seq(Nat) /\ Len(v) = m /\ \A i \in 1..m : v[i] = a + i
    BY <2>m, StretchIs
  <2>t. w \in Seq(Nat) /\ Len(w) = m /\ \A i \in 1..m : w[i] = a + i
    BY <2>1, <2>2 DEF m
  <2> HIDE DEF v, w
  <2>4. w = v
    <3>1. Len(w) = Len(v) /\ \A i \in 1..Len(v) : w[i] = v[i]
      BY <2>3, <2>t
    <3> QED
      BY <2>3, <2>t, <3>1
  <2>5. a <= S
    BY <1>2, <1>3
  <2> QED
    BY <2>1, <2>4, <2>5 DEF v, w, t, e, m
<1>4. CASE ~(a < e)
  <2>1. w = <<>>
    BY <1>1, <1>2, <1>4
  <2>2. a <= S => e - a = 0
    BY <1>2, <1>4
  <2>3. Stretch(a, 0) = <<>>
    BY StretchIs
  <2> HIDE DEF w
  <2>4. w \in Seq(Nat) /\ (a <= S => w = Stretch(a, e - a)) /\ (~(a <= S) => w = <<>>)
    BY <2>1, <2>2, <2>3, EmptyLen
  <2> QED
    BY <2>4 DEF w, t, e
<1> QED
  BY <1>3, <1>4

LEMMA PrefixSelf ==
    ASSUME NEW w \in Seq(Nat)
    PROVE  IsPrefix(w, w) /\ IsPrefix(<<>>, w)
<1>1. IsPrefix(w, w)
  BY DEF IsPrefix
<1>2. IsPrefix(<<>>, w)
  <2>1. Len(<<>>) = 0 /\ 0 <= Len(w) /\ SubSeq(<<>>, 1, 0) = <<>> /\ SubSeq(w, 1, 0) = <<>>
    OBVIOUS
  <2> QED
    BY <2>1, EmptyLen DEF IsPrefix
<1> QED
  BY <1>1, <1>2

LEMMA InitInv == ReaderInit => IInv
<1> SUFFICES ASSUME ReaderInit PROVE IInv
  OBVIOUS
<1>1. PICK n \in 0..MaxLen : r = NewReader(Split(Text(n)))
  BY DEF ReaderInit
<1>2. n \in Nat
  BY <1>1, SizesAssumption
<1> DEFINE f == Split(Text(n))
<1>3. TextFile(f) /\ PlainLen(f) = n
  BY <1>2, SplitIs
<1>4. r = [file |-> f, cur |-> 0, block_index |-> 0, buf |-> <<>>, pos_read |-> 0]
  BY <1>1 DEF NewReader
<1> HIDE DEF f
<1>5. f \in Seq(Seq(Nat)) /\ Len(f) \in Nat
  BY <1>3 DEF TextFile
<1>6. r \in Readers
  BY <1>4, <1>5, EmptyLen DEF Readers
<1>7. r.file = f /\ r.cur = 0 /\ r.block_index = 0 /\ r.buf = <<>> /\ r.pos_read = 0
  BY <1>4
<1>8. Rests(r)
  <2>1. r.pos_read <= Len(r.buf) /\ r.cur <= Len(r.file)
    BY <1>5, <1>7, EmptyLen
  <2> QED
    BY <1>3, <1>6, <1>7, <2>1 DEF Rests, Reading, Settled
<1>9. got = [offset |-> 0, len |-> 0, out |-> <<>>]
  BY DEF ReaderInit
<1>10. got.offset = 0 /\ got.len = 0 /\ got.out = <<>>
  BY <1>9
<1>11. ReadSound
  <2>1. Size(r) = n
    BY <1>3, <1>7, SizeIs DEF Size
  <2>2. 0 \in Nat
    OBVIOUS
  <2>3. SubSeq(Text(n), 0 + 1, MinOf(0 + 0, n)) \in Seq(Nat)
    BY ONLY <1>2, <2>2, WantedIs
  <2>4. Wanted(got) = SubSeq(Text(n), 0 + 1, MinOf(0 + 0, n))
    BY <1>10, <2>1 DEF Wanted
  <2> QED
    BY <1>10, <2>3, <2>4, PrefixSelf DEF ReadSound
<1> QED
  BY <1>8, <1>10, <1>11 DEF IInv, Given

(* A read from a reader at y: bytes of the file from the offset on. *)
LEMMA ReadFrom ==
    ASSUME NEW y, Rests(y), NEW offset \in Nat, NEW n \in Nat, n > 0, ReadPos(y) = offset
    PROVE  LET s == ReadBytes(y, n)
               S == PlainLen(y.file)
               wanted == SubSeq(Text(S), offset + 1, MinOf(offset + n, S))
           IN  /\ Rests(s.x) /\ s.x.file = y.file
               /\ IsPrefix(s.out, wanted)
               /\ ~Drained(y) => s.out = wanted
<1> DEFINE s == ReadBytes(y, n)
           S == PlainLen(y.file)
           wanted == SubSeq(Text(S), offset + 1, MinOf(offset + n, S))
           a == NextAt(y)
<1>1. Reading(y) /\ Settled(y) /\ S \in Nat /\ a \in Nat /\ a <= S
  BY ReadingFields, NextAtRange DEF Rests
<1>2. Reading(s.x) /\ s.x.file = y.file /\ Ended(s.x)
      /\ s.out = Stretch(a, MinOf(a + n, S) - a)
  BY <1>1, ReadBytesIs
<1>3. wanted \in Seq(Nat) /\ (offset <= S => wanted = Stretch(offset, MinOf(offset + n, S) - offset))
  BY <1>1, WantedIs
<1> HIDE DEF s, wanted, a, S
<1>4. Rests(s.x)
  BY <1>2 DEF Rests, Settled, Ended
<1>5. CASE Drained(y)
  <2>1. a = S
    BY <1>1, <1>5, DrainedAtEnd DEF a, S
  <2>2. MinOf(a + n, S) - a = 0
    BY <2>1, <1>1 DEF MinOf
  <2>3. s.out = <<>>
    <3>1. Stretch(a, 0) = <<>>
      BY <1>1, StretchIs
    <3> QED
      BY <3>1, <2>2, <1>2
  <2>4. IsPrefix(s.out, wanted)
    BY <2>3, <1>3, PrefixSelf
  <2> QED
    BY <2>4, <1>2, <1>4, <1>5 DEF s, wanted, S
<1>6. CASE ~Drained(y)
  <2>1. a = offset
    BY <1>1, <1>6, PosIs DEF a
  <2>2. s.out = wanted
    BY <2>1, <1>1, <1>2, <1>3
  <2>3. IsPrefix(s.out, wanted)
    BY <2>2, <1>3, PrefixSelf
  <2> QED
    BY <2>2, <2>3, <1>2, <1>4 DEF s, wanted, S
<1> QED
  BY <1>5, <1>6

(* What a read of the file system gives. *)
LEMMA ReadAtIs ==
    ASSUME Rests(r), NEW offset \in Nat, NEW n \in Nat, n > 0, ReadAt(offset, n)
    PROVE  LET S == PlainLen(r.file)
               wanted == SubSeq(Text(S), offset + 1, MinOf(offset + n, S))
           IN  /\ Rests(r') /\ r'.file = r.file /\ got'.offset = offset /\ got'.len = n
               /\ IsPrefix(got'.out, wanted)
               /\ ~Drained(r) /\ S % B # 0 => got'.out = wanted
<1> DEFINE S == PlainLen(r.file)
           wanted == SubSeq(Text(S), offset + 1, MinOf(offset + n, S))
           L == PlaintextLen(r.file)
           x == ReadSeek(r, offset)
           y == ReadSeek(x, ReadPos(x))
           s == ReadBytes(y, n)
<1>1. /\ ReadPos(y) # offset => r' = y /\ got' = [offset |-> offset, len |-> n, out |-> <<>>]
      /\ ReadPos(y) = offset => r' = s.x /\ got' = [offset |-> offset, len |-> n, out |-> s.out]
  BY Zenon DEF ReadAt
<1>2. TextFile(r.file) /\ S \in Nat
  BY ReadingFields DEF Rests
<1>3. L \in Nat /\ L <= S /\ (S % B # 0 => L = S)
  BY <1>2, PlaintextLenIs
<1>4. Landed(r, x, MinOf(offset, L))
  BY SeekToIs DEF Rests
<1> HIDE DEF x
<1>5. Rests(x) /\ x.file = r.file /\ ReadPos(x) \in Nat /\ PlaintextLen(x.file) = L
  <2>1. Rests(x) /\ x.file = r.file
    BY <1>4 DEF Landed, Rests
  <2> QED
    BY <2>1, PosIs DEF Rests
<1>6. Landed(x, y, MinOf(ReadPos(x), L))
  <2>1. Landed(x, y, MinOf(ReadPos(x), PlaintextLen(x.file)))
    BY <1>5, SeekToIs DEF Rests
  <2> QED
    BY <2>1, <1>5
<1> HIDE DEF y
<1>7. Rests(y) /\ y.file = r.file
  BY <1>5, <1>6 DEF Landed, Rests
<1>8. wanted \in Seq(Nat) /\ (~(offset <= S) => wanted = <<>>)
  BY <1>2, WantedIs
<1>9. ~Drained(r) /\ S % B # 0 => ~Drained(y) /\ ReadPos(y) = MinOf(offset, S)
  <2> SUFFICES ASSUME ~Drained(r), S % B # 0 PROVE ~Drained(y) /\ ReadPos(y) = MinOf(offset, S)
    OBVIOUS
  <2>1. ~Drained(x) /\ ReadPos(x) = MinOf(offset, L) /\ L = S
    BY <1>3, <1>4 DEF Landed
  <2>2. ~Drained(y) /\ ReadPos(y) = MinOf(ReadPos(x), L)
    BY <1>6, <2>1 DEF Landed
  <2> HIDE DEF S, L
  <2>3. MinOf(MinOf(offset, L), L) = MinOf(offset, L)
    BY <1>3 DEF MinOf
  <2> QED
    BY <2>1, <2>2, <2>3
<1> HIDE DEF s
<1>10. CASE ReadPos(y) # offset
  <2>1. r' = y /\ got' = [offset |-> offset, len |-> n, out |-> <<>>]
    BY <1>1, <1>10
  <2>2. got'.offset = offset /\ got'.len = n /\ got'.out = <<>>
    BY <2>1
  <2>3. IsPrefix(<<>>, wanted)
    BY <1>8, PrefixSelf
  <2>4. ~Drained(r) /\ S % B # 0 => wanted = <<>>
    <3> HIDE DEF S, wanted
    <3> SUFFICES ASSUME ~Drained(r), S % B # 0 PROVE wanted = <<>>
      OBVIOUS
    <3>1. MinOf(offset, S) # offset
      BY <1>9, <1>10
    <3>2. ~(offset <= S)
      BY <3>1 DEF MinOf
    <3> QED
      BY <3>2, <1>8
  <2> HIDE DEF wanted
  <2>5. Rests(r') /\ r'.file = r.file
    BY <2>1, <1>7
  <2> QED
    BY <2>2, <2>3, <2>4, <2>5 DEF wanted
<1>11. CASE ReadPos(y) = offset
  <2>1. r' = s.x /\ got' = [offset |-> offset, len |-> n, out |-> s.out]
    BY <1>1, <1>11
  <2>2. got'.offset = offset /\ got'.len = n /\ got'.out = s.out
    BY <2>1
  <2>3. Rests(s.x) /\ s.x.file = y.file /\ IsPrefix(s.out, wanted) /\ (~Drained(y) => s.out = wanted)
    BY <1>7, <1>11, ReadFrom DEF s
  <2> HIDE DEF wanted
  <2>4. Rests(r') /\ r'.file = r.file
    BY <2>1, <2>3, <1>7
  <2> QED
    BY <2>2, <2>3, <2>4, <1>9 DEF wanted
<1> QED
  BY <1>10, <1>11

(* A read keeps the invariant, and is complete but for two exceptions. *)
LEMMA ReadAtStep ==
    ASSUME IInv, NEW offset \in 0..MaxLen, NEW n \in 1..MaxLen, ReadAt(offset, n)
    PROVE  IInv' /\ (~Drained(r) /\ Size(r) % B # 0 => got'.out = Wanted(got'))
<1> DEFINE S == PlainLen(r.file)
           wanted == SubSeq(Text(S), offset + 1, MinOf(offset + n, S))
<1>1. offset \in Nat /\ n \in Nat /\ n > 0 /\ Rests(r)
  BY SizesAssumption DEF IInv
<1>2. /\ Rests(r') /\ r'.file = r.file /\ got'.offset = offset /\ got'.len = n
      /\ IsPrefix(got'.out, wanted)
      /\ ~Drained(r) /\ S % B # 0 => got'.out = wanted
  BY <1>1, ReadAtIs
<1>3. Len(Plain(r.file)) = S
  <2>1. TextFile(r.file)
    BY <1>1 DEF Rests, Reading
  <2> QED
    BY <2>1, SizeIs
<1>4. Size(r) = S /\ Wanted(got') = wanted
  BY <1>2, <1>3 DEF Size, Wanted
<1>5. ReadSound'
  <2>1. Len(Plain(r'.file)) = S
    BY <1>2, <1>3
  <2> HIDE DEF S
  <2> QED
    BY <1>2, <2>1 DEF ReadSound, Wanted, Size
<1>6. IInv'
  BY <1>1, <1>2, <1>5 DEF IInv, Given
<1> HIDE DEF S, wanted
<1> QED
  BY <1>2, <1>4, <1>6

LEMMA NextInv ==
    ASSUME IInv, [ReaderNext]_vars
    PROVE  IInv'
<1>1. CASE ReaderNext
  BY <1>1, ReadAtStep DEF ReaderNext
<1>2. CASE UNCHANGED vars
  BY <1>2 DEF vars, IInv, Given, ReadSound, Wanted, Size
<1> QED
  BY <1>1, <1>2

-----------------------------------------------------------------------------
(* The results.                                                            *)

(* Whatever is read in whatever order, the buffer of RingCryptoRead is the *)
(* block that its position points into, for any block size.                *)
THEOREM BufferTheorem == ReaderSpec => []BufferMatches
<1>1. ReaderInit => IInv
  BY InitInv
<1>2. IInv /\ [ReaderNext]_vars => IInv'
  BY NextInv
<1>3. IInv => BufferMatches
  <2> SUFFICES ASSUME IInv PROVE BufferMatches
    OBVIOUS
  <2>1. Reading(r)
    BY DEF IInv, Rests
  <2>2. r \in Readers /\ r.pos_read <= Len(r.buf) /\ r.block_index = r.cur
        /\ (r.buf # <<>> => r.buf = r.file[r.cur])
    BY <2>1 DEF Reading
  <2> QED
    BY <2>2 DEF BufferMatches
<1> QED
  BY <1>1, <1>2, <1>3, PTL DEF ReaderSpec

(* EncryptedFs::read never gives bytes of another place: what it returns   *)
(* is the file from the offset on, cut short at most.                      *)
THEOREM ReadSoundTheorem == ReaderSpec => []ReadSound
<1>1. ReaderInit => IInv
  BY InitInv
<1>2. IInv /\ [ReaderNext]_vars => IInv'
  BY NextInv
<1>3. IInv => ReadSound
  BY DEF IInv
<1> QED
  BY <1>1, <1>2, <1>3, PTL DEF ReaderSpec

(* EncryptedFs::read returns all that was asked for up to the end of the   *)
(* file, unless the reader had run into the end before or the file ends    *)
(* with a complete block.                                                  *)
THEOREM ReadCompleteTheorem == ReaderSpec => ReadComplete
<1> DEFINE Complete == ~Drained(r) /\ Size(r) % B # 0 => got'.out = Wanted(got')
<1>1. ReaderInit => IInv
  BY InitInv
<1>2. IInv /\ [ReaderNext]_vars => IInv'
  BY NextInv
<1>3. IInv /\ [ReaderNext]_vars => [Complete]_vars
  <2>1. ASSUME IInv, ReaderNext PROVE Complete
    BY <2>1, ReadAtStep DEF ReaderNext
  <2> QED
    BY <2>1
<1> QED
  BY <1>1, <1>2, <1>3, PTL DEF ReaderSpec, ReadComplete
=============================================================================
