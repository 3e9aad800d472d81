------------------------- MODULE VerificationProofs -------------------------
(***************************************************************************)
(* Proofs about the message digests (Digest), for every size of a block,   *)
(* of a word and of the length field.  First arithmetic and sequences: how *)
(* the blocks of s \o t follow from those of s, of its rest and of t.      *)
(* Then what a context has been given (Fed), through starts, update and    *)
(* finish; then the inductive invariant of md.c.  Last the keys of a ring  *)
(* (KeyRing): the laws of a circular list, and who holds which reference.  *)
(***************************************************************************)
EXTENDS Digest, KeyRing, SequenceTheorems, TLAPS

LEMMA DivMod ==
    ASSUME NEW b \in Nat \ {0}, NEW n \in Nat
    PROVE  /\ n \div b \in Nat /\ n % b \in 0 .. b - 1
           /\ n = (n \div b) * b + (n % b)
  OBVIOUS

LEMMA DivModUnique ==
    ASSUME NEW b \in Nat \ {0}, NEW q \in Nat, NEW r \in 0 .. b - 1
    PROVE  (q * b + r) \div b = q /\ (q * b + r) % b = r
  OBVIOUS

LEMMA SubSeqAt ==
    ASSUME NEW S, NEW s \in Seq(S), NEW m \in Nat, NEW n \in Nat, m + n <= Len(s)
    PROVE  /\ SubSeq(s, m + 1, m + n) \in Seq(S)
           /\ Len(SubSeq(s, m + 1, m + n)) = n
           /\ \A j \in 1 .. n : SubSeq(s, m + 1, m + n)[j] = s[m + j]
  BY SubSeqProperties

LEMMA ConcatAt ==
    ASSUME NEW S, NEW s \in Seq(S), NEW t \in Seq(S)
    PROVE  /\ s \o t \in Seq(S) /\ Len(s \o t) = Len(s) + Len(t)
           /\ \A j \in 1 .. Len(s) : (s \o t)[j] = s[j]
           /\ \A j \in 1 .. Len(t) : (s \o t)[Len(s) + j] = t[j]
  BY ConcatProperties

LEMMA SeqMono ==
    ASSUME NEW S, NEW T, S \subseteq T, NEW s \in Seq(S)
    PROVE  s \in Seq(T)
  OBVIOUS

LEMMA BlockSizeType == BlockSize \in Nat \ {0}
  BY DigestAssumption

LEMMA Split ==
    ASSUME NEW n \in Nat
    PROVE  /\ n \div BlockSize \in Nat /\ (n \div BlockSize) * BlockSize \in Nat
           /\ n % BlockSize \in 0 .. BlockSize - 1
           /\ (n \div BlockSize) * BlockSize + (n % BlockSize) = n
<1>1. /\ n \div BlockSize \in Nat /\ n % BlockSize \in 0 .. BlockSize - 1
      /\ n = (n \div BlockSize) * BlockSize + (n % BlockSize)
  BY DivMod, BlockSizeType
<1> QED  BY <1>1, BlockSizeType

LEMMA SplitUnique ==
    ASSUME NEW n, NEW q \in Nat, NEW r \in 0 .. BlockSize - 1, n = q * BlockSize + r
    PROVE  n \div BlockSize = q /\ n % BlockSize = r
  BY DivModUnique, BlockSizeType

LEMMA RemainderAt ==
    ASSUME NEW S, NEW s \in Seq(S)
    PROVE  /\ Remainder(s) \in Seq(S) /\ Len(Remainder(s)) = Len(s) % BlockSize
           /\ \A j \in 1 .. Len(s) % BlockSize : Remainder(s)[j] = s[(Len(s) \div BlockSize) * BlockSize + j]
<1> DEFINE m == (Len(s) \div BlockSize) * BlockSize
           r == Len(s) % BlockSize
<1>1. m \in Nat /\ r \in Nat /\ m + r = Len(s)
  <2>1. Len(s) \in Nat  OBVIOUS
  <2> QED  BY <2>1, Split
<1>2. Remainder(s) = SubSeq(s, m + 1, m + r)  BY <1>1 DEF Remainder
<1> HIDE DEF m, r
<1>3. m + r <= Len(s)  BY <1>1
<1>4. /\ Remainder(s) \in Seq(S) /\ Len(Remainder(s)) = r
      /\ \A j \in 1 .. r : Remainder(s)[j] = s[m + j]
  BY <1>1, <1>2, <1>3, SubSeqAt
<1> QED  BY <1>4 DEF m, r

LEMMA ChopAt ==
    ASSUME NEW S, NEW s \in Seq(S)
    PROVE  /\ Chop(s) \in Seq(Seq(S)) /\ Len(Chop(s)) = Len(s) \div BlockSize
           /\ \A i \in 1 .. Len(s) \div BlockSize :
                 /\ Chop(s)[i] \in Seq(S) /\ Len(Chop(s)[i]) = BlockSize
                 /\ \A j \in 1 .. BlockSize : Chop(s)[i][j] = s[(i - 1) * BlockSize + j]
<1> DEFINE q == Len(s) \div BlockSize
<1>1. q \in Nat /\ q * BlockSize <= Len(s)
  <2>1. Len(s) \in Nat  OBVIOUS
  <2>2. /\ q \in Nat /\ q * BlockSize \in Nat /\ Len(s) % BlockSize \in 0 .. BlockSize - 1
        /\ q * BlockSize + (Len(s) % BlockSize) = Len(s)
    BY <2>1, Split
  <2> HIDE DEF q
  <2> QED  BY <2>1, <2>2, BlockSizeType
<1>2. ASSUME NEW i \in 1 .. q
      PROVE  /\ Chop(s)[i] \in Seq(S) /\ Len(Chop(s)[i]) = BlockSize
             /\ \A j \in 1 .. BlockSize : Chop(s)[i][j] = s[(i - 1) * BlockSize + j]
  <2> DEFINE m == (i - 1) * BlockSize
  <2>1. m \in Nat /\ m + BlockSize = i * BlockSize /\ i * BlockSize <= q * BlockSize
    BY <1>1, BlockSizeType
  <2>2. Chop(s)[i] = SubSeq(s, m + 1, m + BlockSize)  BY <2>1 DEF Chop
  <2>3. m + BlockSize <= Len(s)  BY <2>1, <1>1, BlockSizeType
  <2> HIDE DEF m
  <2>4. /\ Chop(s)[i] \in Seq(S) /\ Len(Chop(s)[i]) = BlockSize
        /\ \A j \in 1 .. BlockSize : Chop(s)[i][j] = s[m + j]
    BY <2>1, <2>2, <2>3, SubSeqAt, BlockSizeType
  <2> QED  BY <2>4 DEF m
<1>3. Chop(s) \in [1 .. q -> Seq(S)]  BY <1>2 DEF Chop
<1>4. Chop(s) \in Seq(Seq(S)) /\ Len(Chop(s)) = q  BY <1>1, <1>3
<1> QED  BY <1>2, <1>4

\* s has q blocks and a rest of r.
Parts(S, s, q, r) ==
    /\ Remainder(s) \in Seq(S) /\ Len(Remainder(s)) = r
    /\ \A j \in 1 .. r : Remainder(s)[j] = s[q * BlockSize + j]
    /\ Chop(s) \in Seq(Seq(S)) /\ Len(Chop(s)) = q
    /\ \A i \in 1 .. q :
          /\ Chop(s)[i] \in Seq(S) /\ Len(Chop(s)[i]) = BlockSize
          /\ \A j \in 1 .. BlockSize : Chop(s)[i][j] = s[(i - 1) * BlockSize + j]

LEMMA PartsAt ==
    ASSUME NEW S, NEW s \in Seq(S), NEW q \in Nat, NEW r \in 0 .. BlockSize - 1,
           Len(s) = q * BlockSize + r
    PROVE  Parts(S, s, q, r)
<1>1. Len(s) \div BlockSize = q /\ Len(s) % BlockSize = r  BY SplitUnique
<1>2. /\ Remainder(s) \in Seq(S) /\ Len(Remainder(s)) = Len(s) % BlockSize
      /\ \A j \in 1 .. Len(s) % BlockSize : Remainder(s)[j] = s[(Len(s) \div BlockSize) * BlockSize + j]
  BY RemainderAt
<1>3. /\ Chop(s) \in Seq(Seq(S)) /\ Len(Chop(s)) = Len(s) \div BlockSize
      /\ \A i \in 1 .. Len(s) \div BlockSize :
            /\ Chop(s)[i] \in Seq(S) /\ Len(Chop(s)[i]) = BlockSize
            /\ \A j \in 1 .. BlockSize : Chop(s)[i][j] = s[(i - 1) * BlockSize + j]
  BY ChopAt
<1> QED  BY <1>1, <1>2, <1>3 DEF Parts

(* A block of s \o t is one of s or one of what s leaves over and t.         *)
LEMMA ChopConcat ==
    ASSUME NEW S, NEW s \in Seq(S), NEW t \in Seq(S)
    PROVE  /\ Chop(s \o t) = Chop(s) \o Chop(Remainder(s) \o t)
           /\ Remainder(s \o t) = Remainder(Remainder(s) \o t)
<1> DEFINE u == Remainder(s) \o t
           w == s \o t
<1>1. PICK q \in Nat, r \in 0 .. BlockSize - 1 :
         /\ q = Len(s) \div BlockSize /\ r = Len(s) % BlockSize
         /\ q * BlockSize \in Nat /\ Len(s) = q * BlockSize + r
  <2>1. Len(s) \in Nat  OBVIOUS
  <2> QED  BY <2>1, Split
<1>2. /\ Remainder(s) \in Seq(S) /\ Len(Remainder(s)) = r
      /\ \A j \in 1 .. r : Remainder(s)[j] = s[q * BlockSize + j]
  <2>1. Parts(S, s, q, r)  BY <1>1, PartsAt
  <2> QED  BY <2>1 DEF Parts
<1>3. /\ w \in Seq(S) /\ Len(w) = Len(s) + Len(t)
      /\ \A j \in 1 .. Len(s) : w[j] = s[j]
      /\ \A j \in 1 .. Len(t) : w[Len(s) + j] = t[j]
  BY ConcatAt
<1>4. /\ u \in Seq(S) /\ Len(u) = r + Len(t)
      /\ \A j \in 1 .. r : u[j] = Remainder(s)[j]
      /\ \A j \in 1 .. Len(t) : u[r + j] = t[j]
  <2>1. Remainder(s) \in Seq(S)  BY <1>2
  <2>2. /\ u \in Seq(S) /\ Len(u) = Len(Remainder(s)) + Len(t)
        /\ \A j \in 1 .. Len(Remainder(s)) : u[j] = Remainder(s)[j]
        /\ \A j \in 1 .. Len(t) : u[Len(Remainder(s)) + j] = t[j]
    BY <2>1, ConcatAt
  <2> HIDE DEF u
  <2> QED  BY <1>2, <2>2
<1>5. PICK k \in Nat, z \in 0 .. BlockSize - 1 :
         /\ k = Len(u) \div BlockSize /\ z = Len(u) % BlockSize
         /\ k * BlockSize \in Nat /\ Len(u) = k * BlockSize + z
  <2>1. Len(u) \in Nat  BY <1>4
  <2> QED  BY <2>1, Split
<1> HIDE DEF u, w
<1>6. q + k \in Nat /\ Len(w) = (q + k) * BlockSize + z
  <2> DEFINE a == q * BlockSize
             b == k * BlockSize
  <2>1. Len(t) \in Nat /\ a \in Nat /\ b \in Nat /\ r \in Nat /\ z \in Nat
    BY <1>1, <1>5
  <2>2. Len(w) = a + r + Len(t) /\ r + Len(t) = b + z  BY <1>1, <1>3, <1>4, <1>5
  <2>3. (q + k) * BlockSize = a + b  BY BlockSizeType
  <2> HIDE DEF a, b
  <2> QED  BY SMTT(60), <2>1, <2>2, <2>3
<1>7. ASSUME NEW j \in 1 .. Len(u) PROVE w[q * BlockSize + j] = u[j]
  <2> DEFINE m == q * BlockSize
  <2>1. m \in Nat /\ Len(s) = m + r /\ Len(t) \in Nat  BY <1>1
  <2> HIDE DEF m
  <2>2. CASE j <= r
    <3>1. m + j \in 1 .. Len(s) /\ j \in 1 .. r  BY <2>1, <2>2
    <3>2. w[m + j] = s[m + j]  BY <3>1, <1>3
    <3> QED  BY <3>1, <3>2, <1>2, <1>4 DEF m
  <2>3. CASE ~(j <= r)
    <3>1. j - r \in 1 .. Len(t) /\ m + j = Len(s) + (j - r) /\ j = r + (j - r)
      BY <2>1, <2>3, <1>4
    <3>2. w[m + j] = t[j - r] /\ u[j] = t[j - r]  BY <3>1, <1>3, <1>4
    <3> QED  BY <3>2 DEF m
  <2> QED  BY <2>2, <2>3
<1> DEFINE x == q + k
<1>11. Parts(S, s, q, r) /\ Parts(S, u, k, z) /\ Parts(S, w, x, z)
  <2>1. Parts(S, s, q, r)  BY <1>1, PartsAt
  <2>2. Parts(S, u, k, z)  BY <1>4, <1>5, PartsAt
  <2>3. x \in Nat /\ Len(w) = x * BlockSize + z  BY <1>6
  <2> HIDE DEF x
  <2>4. Parts(S, w, x, z)  BY <1>3, <1>5, <2>3, PartsAt
  <2> QED  BY <2>1, <2>2, <2>4
<1>8. Chop(w) = Chop(s) \o Chop(u)
  <2>1. /\ Chop(s) \in Seq(Seq(S)) /\ Len(Chop(s)) = q
        /\ \A i \in 1 .. q : /\ Chop(s)[i] \in Seq(S) /\ Len(Chop(s)[i]) = BlockSize
                             /\ \A j \in 1 .. BlockSize : Chop(s)[i][j] = s[(i - 1) * BlockSize + j]
    BY <1>11 DEF Parts
  <2>2. /\ Chop(u) \in Seq(Seq(S)) /\ Len(Chop(u)) = k
        /\ \A i \in 1 .. k : /\ Chop(u)[i] \in Seq(S) /\ Len(Chop(u)[i]) = BlockSize
                             /\ \A j \in 1 .. BlockSize : Chop(u)[i][j] = u[(i - 1) * BlockSize + j]
    BY <1>11 DEF Parts
  <2>3. /\ Chop(w) \in Seq(Seq(S)) /\ Len(Chop(w)) = q + k
        /\ \A i \in 1 .. q + k : /\ Chop(w)[i] \in Seq(S) /\ Len(Chop(w)[i]) = BlockSize
                                 /\ \A j \in 1 .. BlockSize : Chop(w)[i][j] = w[(i - 1) * BlockSize + j]
    BY <1>11 DEF Parts
  <2>4. /\ Chop(s) \o Chop(u) \in Seq(Seq(S)) /\ Len(Chop(s) \o Chop(u)) = q + k
        /\ \A j \in 1 .. q : (Chop(s) \o Chop(u))[j] = Chop(s)[j]
        /\ \A j \in 1 .. k : (Chop(s) \o Chop(u))[q + j] = Chop(u)[j]
    <3>1. Chop(s) \in Seq(Seq(S)) /\ Chop(u) \in Seq(Seq(S))  BY <2>1, <2>2
    <3>2. /\ Chop(s) \o Chop(u) \in Seq(Seq(S)) /\ Len(Chop(s) \o Chop(u)) = Len(Chop(s)) + Len(Chop(u))
          /\ \A j \in 1 .. Len(Chop(s)) : (Chop(s) \o Chop(u))[j] = Chop(s)[j]
          /\ \A j \in 1 .. Len(Chop(u)) : (Chop(s) \o Chop(u))[Len(Chop(s)) + j] = Chop(u)[j]
      BY <3>1, ConcatAt
    <3>3. Len(Chop(s)) = q /\ Len(Chop(u)) = k  BY <2>1, <2>2
    <3> QED  BY <3>2, <3>3
  <2>5. ASSUME NEW i \in 1 .. q + k PROVE Chop(w)[i] = (Chop(s) \o Chop(u))[i]
    <3>1. CASE i <= q
      <4>1. i \in 1 .. q  BY <3>1
      <4>2. ASSUME NEW j \in 1 .. BlockSize PROVE Chop(w)[i][j] = Chop(s)[i][j]
        <5> DEFINE m == (i - 1) * BlockSize
        <5>1. m \in Nat /\ m + BlockSize <= q * BlockSize  BY <4>1, BlockSizeType
        <5>2. Chop(w)[i][j] = w[m + j] /\ Chop(s)[i][j] = s[m + j]  BY <2>1, <2>3, <4>1
        <5> HIDE DEF m
        <5>3. m + j \in 1 .. Len(s)  BY <5>1, <1>1, BlockSizeType
        <5> QED  BY <5>2, <5>3, <1>3
      <4>3. Chop(w)[i] = Chop(s)[i]
        <5>1. /\ Chop(w)[i] \in Seq(S) /\ Len(Chop(w)[i]) = BlockSize
              /\ Chop(s)[i] \in Seq(S) /\ Len(Chop(s)[i]) = BlockSize
          BY <4>1, <2>1, <2>3
        <5> QED  BY <4>2, <5>1, SeqEqual
      <4> QED  BY <4>1, <4>3, <2>4
    <3>2. CASE ~(i <= q)
      <4>1. i - q \in 1 .. k /\ i = q + (i - q)  BY <3>2
      <4> DEFINE h == i - q
      <4>2. h \in 1 .. k /\ i = q + h  BY <4>1
      <4> HIDE DEF h
      <4>3. ASSUME NEW j \in 1 .. BlockSize PROVE Chop(w)[i][j] = Chop(u)[h][j]
        <5> DEFINE m == (h - 1) * BlockSize
        <5>1. m \in Nat /\ m + BlockSize <= k * BlockSize /\ (i - 1) * BlockSize = q * BlockSize + m /\ q * BlockSize \in Nat
          BY <4>2, BlockSizeType
        <5>2. Chop(w)[i][j] = w[(i - 1) * BlockSize + j] /\ Chop(u)[h][j] = u[m + j]  BY <2>2, <2>3, <4>2
        <5> HIDE DEF m
        <5>3. m + j \in 1 .. Len(u)  BY <5>1, <1>5, BlockSizeType
        <5>4. (i - 1) * BlockSize + j = q * BlockSize + (m + j)  BY <5>1
        <5> QED  BY <5>2, <5>3, <5>4, <1>7
      <4>4. Chop(w)[i] = Chop(u)[h]
        <5>1. /\ Chop(w)[i] \in Seq(S) /\ Len(Chop(w)[i]) = BlockSize
              /\ Chop(u)[h] \in Seq(S) /\ Len(Chop(u)[h]) = BlockSize
          BY <4>2, <2>2, <2>3
        <5> QED  BY <4>3, <5>1, SeqEqual
      <4> QED  BY <4>2, <4>4, <2>4
    <3> QED  BY <3>1, <3>2
  <2> QED  BY <2>3, <2>4, <2>5, SeqEqual
<1>9. Remainder(w) = Remainder(u)
  <2>1. /\ Remainder(w) \in Seq(S) /\ Len(Remainder(w)) = z
        /\ \A j \in 1 .. z : Remainder(w)[j] = w[(q + k) * BlockSize + j]
    BY <1>11 DEF Parts
  <2>2. /\ Remainder(u) \in Seq(S) /\ Len(Remainder(u)) = z
        /\ \A j \in 1 .. z : Remainder(u)[j] = u[k * BlockSize + j]
    BY <1>11 DEF Parts
  <2>3. ASSUME NEW j \in 1 .. z PROVE Remainder(w)[j] = Remainder(u)[j]
    <3>1. k * BlockSize + j \in 1 .. Len(u)  BY <1>5
    <3>2. (q + k) * BlockSize + j = q * BlockSize + (k * BlockSize + j)  BY BlockSizeType
    <3> QED  BY <2>1, <2>2, <3>1, <3>2, <1>7
  <2> QED  BY <2>1, <2>2, <2>3, SeqEqual
<1> QED  BY <1>8, <1>9 DEF u, w

\* One block, and less than one.
LEMMA ChopBlock ==
    ASSUME NEW S, NEW s \in Seq(S), Len(s) = BlockSize
    PROVE  Chop(s) = <<s>> /\ Remainder(s) = <<>>
<1> DEFINE q == 1
           r == 0
<1>1. q \in Nat /\ r \in 0 .. BlockSize - 1 /\ Len(s) = q * BlockSize + r  BY BlockSizeType
<1>2. q = 1 /\ r = 0  OBVIOUS
<1> HIDE DEF q, r
<1>3. Parts(S, s, q, r)  BY <1>1, PartsAt
<1>4. Chop(s)[1] = s
  <2>1. /\ Chop(s)[1] \in Seq(S) /\ Len(Chop(s)[1]) = BlockSize
        /\ \A j \in 1 .. BlockSize : Chop(s)[1][j] = s[(1 - 1) * BlockSize + j]
    BY <1>2, <1>3 DEF Parts
  <2>2. (1 - 1) * BlockSize = 0  BY BlockSizeType
  <2>3. \A j \in 1 .. BlockSize : Chop(s)[1][j] = s[j]  BY <2>1, <2>2, BlockSizeType
  <2> QED  BY <2>1, <2>3, SeqEqual
<1>5. Chop(s) = <<s>>
  <2>1. Chop(s) \in Seq(Seq(S)) /\ Len(Chop(s)) = 1  BY <1>2, <1>3 DEF Parts
  <2>2. <<s>> \in Seq(Seq(S)) /\ Len(<<s>>) = 1 /\ <<s>>[1] = s  OBVIOUS
  <2>3. \A i \in 1 .. Len(Chop(s)) : Chop(s)[i] = <<s>>[i]  BY <1>4, <2>1, <2>2
  <2> QED  BY <2>1, <2>2, <2>3, SeqEqual
<1>6. Remainder(s) \in Seq(S) /\ Len(Remainder(s)) = 0  BY <1>2, <1>3 DEF Parts
<1> QED  BY <1>5, <1>6, EmptySeq

LEMMA ChopShort ==
    ASSUME NEW S, NEW s \in Seq(S), Len(s) < BlockSize
    PROVE  Chop(s) = <<>> /\ Remainder(s) = s
<1> DEFINE q == 0
           r == Len(s)
<1>1. q \in Nat /\ r \in 0 .. BlockSize - 1 /\ Len(s) = q * BlockSize + r  BY BlockSizeType
<1>2. q = 0 /\ r = Len(s) /\ q * BlockSize = 0  BY BlockSizeType
<1> HIDE DEF q, r
<1>3. Parts(S, s, q, r)  BY <1>1, PartsAt
<1>4. Chop(s) \in Seq(Seq(S)) /\ Len(Chop(s)) = 0  BY <1>2, <1>3 DEF Parts
<1>5. /\ Remainder(s) \in Seq(S) /\ Len(Remainder(s)) = Len(s)
      /\ \A j \in 1 .. Len(s) : Remainder(s)[j] = s[q * BlockSize + j]
  BY <1>2, <1>3 DEF Parts
<1>6. Remainder(s) = s
  <2>1. \A j \in 1 .. Len(s) : Remainder(s)[j] = s[j]  BY <1>2, <1>5
  <2> QED  BY <1>5, <2>1, SeqEqual
<1> QED  BY <1>4, <1>6, EmptySeq

LEMMA WordModType == WordMod \in Nat \ {0}
  BY DigestAssumption

LEMMA WordModBlocks == \E k \in Nat : WordMod = k * BlockSize
<1>1. WordMod \in Nat /\ WordMod % BlockSize = 0  BY DigestAssumption
<1>2. /\ WordMod \div BlockSize \in Nat
      /\ (WordMod \div BlockSize) * BlockSize + (WordMod % BlockSize) = WordMod
      /\ (WordMod \div BlockSize) * BlockSize \in Nat
  BY <1>1, Split
<1> QED  BY <1>1, <1>2

LEMMA SplitWord ==
    ASSUME NEW n \in Nat
    PROVE  \E a \in Nat, b \in 0 .. WordMod - 1 : n = a * WordMod + b /\ b = n % WordMod /\ a = n \div WordMod
<1>1. /\ n \div WordMod \in Nat /\ n % WordMod \in 0 .. WordMod - 1
      /\ n = (n \div WordMod) * WordMod + (n % WordMod)
  BY DivMod, WordModType
<1> QED  BY <1>1

LEMMA SplitWordUnique ==
    ASSUME NEW n, NEW q \in Nat, NEW r \in 0 .. WordMod - 1, n = q * WordMod + r
    PROVE  n \div WordMod = q /\ n % WordMod = r
  BY DivModUnique, WordModType

\* The low word of the counter tells how much of a block is in the buffer.
LEMMA ModOfWord ==
    ASSUME NEW n \in Nat
    PROVE  (n % WordMod) % BlockSize = n % BlockSize
<1>1. PICK k \in Nat : WordMod = k * BlockSize  BY WordModBlocks
<1>2. PICK a \in Nat, b \in 0 .. WordMod - 1 : n = a * WordMod + b /\ b = n % WordMod
  BY SplitWord
<1>3. PICK q \in Nat, r \in 0 .. BlockSize - 1 :
         b = q * BlockSize + r /\ r = b % BlockSize
  <2>1. b \in Nat  BY <1>2
  <2> QED  BY <2>1, Split
<1>4. n = (a * k + q) * BlockSize + r
  <2> DEFINE v == (a * k) * BlockSize
             h == q * BlockSize
  <2>1. a * WordMod = v /\ v \in Nat /\ h \in Nat  BY <1>1, BlockSizeType
  <2>2. (a * k + q) * BlockSize = v + h  BY BlockSizeType
  <2>3. n = v + b /\ b = h + r  BY <1>2, <1>3, <2>1
  <2> HIDE DEF v, h
  <2> QED  BY <2>1, <2>2, <2>3
<1>5. a * k + q \in Nat  OBVIOUS
<1>6. n % BlockSize = r  BY <1>4, <1>5, SplitUnique
<1> QED  BY <1>2, <1>3, <1>6

LEMMA ModOfSum ==
    ASSUME NEW m \in Nat, NEW n \in Nat
    PROVE  ((m % WordMod) + n) % WordMod = (m + n) % WordMod
<1>1. PICK a \in Nat, b \in 0 .. WordMod - 1 : m = a * WordMod + b /\ b = m % WordMod
  BY SplitWord
<1>2. PICK q \in Nat, r \in 0 .. WordMod - 1 : b + n = q * WordMod + r /\ r = (b + n) % WordMod
  <2>1. b + n \in Nat  BY <1>1
  <2> QED  BY <2>1, SplitWord
<1>3. m + n = (a + q) * WordMod + r
  <2> DEFINE v == a * WordMod
             h == q * WordMod
  <2>1. v \in Nat /\ h \in Nat /\ (a + q) * WordMod = v + h  BY WordModType
  <2>2. m = v + b /\ b + n = h + r  BY <1>1, <1>2
  <2> HIDE DEF v, h
  <2> QED  BY <2>1, <2>2
<1>4. a + q \in Nat  OBVIOUS
<1>5. (m + n) % WordMod = r  BY <1>3, <1>4, SplitWordUnique
<1> QED  BY <1>1, <1>2, <1>5

-----------------------------------------------------------------------------
IsContext(c) == DOMAIN c = {"total0", "total1", "buffer", "state"}

(* The context has been given s since starts: its whole blocks have been     *)
(* compressed, the rest is in the buffer.                                    *)
Fed(c, is224, s) ==
    /\ IsContext(c)
    /\ c.state = <<is224>> \o Chop(s)
    /\ SubSeq(c.buffer, 1, Len(s) % BlockSize) = Remainder(s)
    /\ c.total0 = Len(s) % WordMod

LEMMA WholeIs ==
    ASSUME NEW c, IsContext(c), NEW left, NEW in
    PROVE  LET e == Whole(c, left, in)
           IN /\ IsContext(e) /\ e.total0 = c.total0 /\ e.total1 = c.total1
              /\ e.state = c.state \o Chop(in)
              /\ Remainder(in) = <<>> => e.buffer = c.buffer
              /\ Remainder(in) # <<>> => e.buffer = SubSeq(c.buffer, 1, left) \o Remainder(in)
  BY DEF Whole, Store, IsContext

LEMMA CountIs ==
    ASSUME NEW c, IsContext(c), NEW n, NEW e, e = Count(c, n)
    PROVE  /\ IsContext(e) /\ e.buffer = c.buffer /\ e.state = c.state
           /\ e.total0 = (c.total0 + n) % WordMod
           /\ e.total1 = IF (c.total0 + n) % WordMod < n % WordMod THEN (c.total1 + 1) % WordMod
                         ELSE c.total1
  BY DEF Count, IsContext

LEMMA StartsIs ==
    ASSUME NEW c, IsContext(c), NEW x, NEW e, e = mbedtls_sha256_starts(c, x)
    PROVE  IsContext(e) /\ e.total0 = 0 /\ e.total1 = 0 /\ e.state = <<x>>
  BY DEF mbedtls_sha256_starts, IsContext

LEMMA ProcessIs ==
    ASSUME NEW c, IsContext(c), NEW b, NEW e,
           e = mbedtls_sha256_process([c EXCEPT !.buffer = b], b)
    PROVE  /\ IsContext(e) /\ e.buffer = b /\ e.total0 = c.total0 /\ e.total1 = c.total1
           /\ e.state = Append(c.state, b)
  BY DEF mbedtls_sha256_process, IsContext

\* What a step must leave for its input to count as fed.
LEMMA FedFrom ==
    ASSUME NEW S, NEW w \in Seq(S), NEW c, NEW x, IsContext(c),
           c.state = <<x>> \o Chop(w), c.total0 = Len(w) % WordMod,
           Remainder(w) = <<>> \/ c.buffer = Remainder(w)
    PROVE  Fed(c, x, w)
<1>1. Remainder(w) \in Seq(S) /\ Len(Remainder(w)) = Len(w) % BlockSize  BY RemainderAt
<1>2. CASE Remainder(w) = <<>>
  <2>1. Len(w) % BlockSize = 0  BY <1>1, <1>2, EmptySeq
  <2>2. SubSeq(c.buffer, 1, 0) = <<>>  BY SubSeqEmpty
  <2> QED  BY <1>2, <2>1, <2>2 DEF Fed
<1>3. CASE c.buffer = Remainder(w)
  <2>1. SubSeq(Remainder(w), 1, Len(Remainder(w))) = Remainder(w)  BY <1>1, SubSeqFull
  <2> QED  BY <1>1, <1>3, <2>1 DEF Fed
<1> QED  BY <1>2, <1>3

LEMMA Starts ==
    ASSUME NEW c, IsContext(c), NEW x
    PROVE  Fed(mbedtls_sha256_starts(c, x), x, <<>>) /\ mbedtls_sha256_starts(c, x).total1 = 0
<1> DEFINE d == mbedtls_sha256_starts(c, x)
<1>1. IsContext(d) /\ d.total0 = 0 /\ d.total1 = 0 /\ d.state = <<x>>  BY StartsIs
<1> HIDE DEF d
<1>2. <<>> \in Seq({}) /\ Len(<<>>) = 0 /\ Len(<<>>) < BlockSize  BY BlockSizeType
<1>3. Chop(<<>>) = <<>> /\ Remainder(<<>>) = <<>>  BY <1>2, ChopShort
<1>4. d.state = <<x>> \o Chop(<<>>)
  <2>1. <<x>> \in Seq({x})  OBVIOUS
  <2> QED  BY <1>1, <1>3, <2>1, ConcatEmptySeq
<1>5. d.total0 = Len(<<>>) % WordMod
  <2>1. 0 = 0 * WordMod + 0 /\ 0 \in 0 .. WordMod - 1  BY WordModType
  <2>2. 0 % WordMod = 0  BY <2>1, DivModUnique, WordModType
  <2> QED  BY <1>1, <1>2, <2>2
<1>6. Fed(d, x, <<>>)  BY <1>1, <1>2, <1>3, <1>4, <1>5, FedFrom
<1> QED  BY <1>1, <1>6 DEF d

-----------------------------------------------------------------------------
\* d is c after the length of its new input w is counted.
Counted(c, d, w) ==
    /\ IsContext(d) /\ d.buffer = c.buffer /\ d.state = c.state
    /\ d.total0 = Len(w) % WordMod
Fills(s, in, left) ==
    left = Len(s) % BlockSize /\ Len(in) >= BlockSize - left

\* The buffer is filled up, compressed, and the rest of the input follows.
LEMMA FillUpFeeds ==
    ASSUME NEW S, NEW s \in Seq(S), NEW in \in Seq(S), NEW c, NEW x, Fed(c, x, s),
           NEW left, Fills(s, in, left), NEW d, Counted(c, d, s \o in)
    PROVE  /\ Fed(FillUp(d, left, BlockSize - left, in), x, s \o in)
           /\ FillUp(d, left, BlockSize - left, in).total1 = d.total1
<1> DEFINE fill == BlockSize - left
           n == Len(in)
           r == Remainder(s)
           first == SubSeq(in, 1, fill)
           rest == SubSeq(in, fill + 1, n)
           full == r \o first
           w == s \o in
<1>1. /\ n \in Nat /\ left \in 0 .. BlockSize - 1 /\ fill \in 1 .. n
  <2>1. Len(s) \in Nat /\ n \in Nat  OBVIOUS
  <2>2. left \in 0 .. BlockSize - 1  BY <2>1, Split DEF Fills
  <2> QED  BY <2>1, <2>2, BlockSizeType DEF Fills
<1>2. r \in Seq(S) /\ Len(r) = left /\ SubSeq(c.buffer, 1, left) = r
  BY RemainderAt DEF Fed, Fills
<1>3. /\ first \in Seq(S) /\ Len(first) = fill /\ rest \in Seq(S) /\ first \o rest = in
  <2>1. first \in Seq(S) /\ Len(first) = fill
    <3>1. fill \in Int /\ 1 \in Int /\ \A i \in 1 .. fill : in[i] \in S  BY <1>1
    <3> QED  BY <1>1, <3>1, SubSeqProperties
  <2>2. rest \in Seq(S)
    <3>1. fill + 1 \in Int /\ n \in Int /\ \A i \in fill + 1 .. n : in[i] \in S  BY <1>1
    <3> QED  BY <3>1, SubSeqProperties
  <2>3. first \o rest = SubSeq(in, 1, n)
    <3>1. 1 \in 1 .. n + 1 /\ fill \in 1 - 1 .. n /\ n \in fill .. n  BY <1>1
    <3> QED  BY <3>1, ConcatAdjacentSubSeq
  <2>4. SubSeq(in, 1, n) = in  BY SubSeqFull
  <2> QED  BY <2>1, <2>2, <2>3, <2>4
<1>4. full \in Seq(S) /\ Len(full) = BlockSize /\ full \o rest = r \o in
  <2>1. full \in Seq(S) /\ Len(full) = Len(r) + Len(first)  BY <1>2, <1>3, ConcatAt
  <2>2. Len(full) = BlockSize  BY <1>1, <1>2, <1>3, <2>1, BlockSizeType
  <2>3. full \o rest = r \o (first \o rest)
    <3>1. PICK h \in Seq(S), k \in Seq(S), l \in Seq(S) : h = r /\ k = first /\ l = rest
      BY <1>2, <1>3
    <3>2. (h \o k) \o l = h \o (k \o l)  BY ConcatAssociative, SMTT(30)
    <3> QED  BY <3>1, <3>2
  <2> QED  BY <1>3, <2>1, <2>2, <2>3
<1>5. /\ w \in Seq(S) /\ Chop(w) = Chop(s) \o Chop(full \o rest)
      /\ Remainder(w) = Remainder(full \o rest)
  <2>1. Chop(w) = Chop(s) \o Chop(r \o in) /\ Remainder(w) = Remainder(r \o in)  BY ChopConcat
  <2>2. w \in Seq(S)  BY ConcatAt
  <2> QED  BY <1>4, <2>1, <2>2
<1>6. Chop(full \o rest) = <<full>> \o Chop(rest) /\ Remainder(full \o rest) = Remainder(rest)
  <2>1. /\ Chop(full \o rest) = Chop(full) \o Chop(Remainder(full) \o rest)
        /\ Remainder(full \o rest) = Remainder(Remainder(full) \o rest)
    BY <1>3, <1>4, ChopConcat
  <2>2. Chop(full) = <<full>> /\ Remainder(full) = <<>>  BY <1>4, ChopBlock
  <2>3. <<>> \o rest = rest  BY <1>3, ConcatEmptySeq
  <2> QED  BY <2>1, <2>2, <2>3
<1> HIDE DEF fill, n, r, first, rest, full, w
<1>a. PICK f : f = mbedtls_sha256_process([d EXCEPT !.buffer = full], full)  OBVIOUS
<1>b. PICK e : e = Whole(f, 0, rest)  OBVIOUS
<1>7. /\ IsContext(f) /\ f.buffer = full /\ f.total0 = d.total0 /\ f.total1 = d.total1
      /\ f.state = Append(d.state, full)
  BY SMTT(60), <1>a, ProcessIs DEF Counted
<1>8. FillUp(d, left, BlockSize - left, in) = e
  <2>1. SubSeq(d.buffer, 1, left) \o SubSeq(in, 1, fill) = full  BY <1>2 DEF full, first, Counted
  <2> QED  BY <1>a, <1>b, <2>1 DEF FillUp, fill, rest, n
<1>9. /\ IsContext(e) /\ e.total0 = f.total0 /\ e.total1 = f.total1 /\ e.state = f.state \o Chop(rest)
      /\ Remainder(rest) # <<>> => e.buffer = SubSeq(f.buffer, 1, 0) \o Remainder(rest)
  <2>1. \A h : IsContext(h) =>
           /\ IsContext(Whole(h, 0, rest)) /\ Whole(h, 0, rest).total0 = h.total0
           /\ Whole(h, 0, rest).total1 = h.total1
           /\ Whole(h, 0, rest).state = h.state \o Chop(rest)
           /\ Remainder(rest) # <<>> =>
                 Whole(h, 0, rest).buffer = SubSeq(h.buffer, 1, 0) \o Remainder(rest)
    BY WholeIs
  <2> QED  BY <1>7, <1>b, <2>1
<1>10. e.state = <<x>> \o Chop(w)
  <2> DEFINE V == Seq(S) \cup {x}
             h == Chop(s)
             t == Chop(rest)
  <2>1. h \in Seq(V) /\ t \in Seq(V) /\ <<x>> \in Seq(V) /\ <<full>> \in Seq(V)
    <3>1. h \in Seq(Seq(S)) /\ t \in Seq(Seq(S))  BY <1>3, ChopAt
    <3> HIDE DEF h, t
    <3> QED  BY <1>4, <3>1
  <2>2. f.state = Append(<<x>> \o h, full)  BY <1>7 DEF Fed, Counted
  <2> HIDE DEF h, t
  <2>3. <<x>> \o h \in Seq(V) /\ <<full>> \o t \in Seq(V)  BY <2>1, ConcatProperties
  <2>4. f.state = (<<x>> \o h) \o <<full>>
    <3>1. full \in V  BY <1>4
    <3> QED  BY <2>2, <2>3, <3>1, AppendIsConcat
  <2>5. f.state \o t = (<<x>> \o h) \o (<<full>> \o t)  BY <2>1, <2>3, <2>4, ConcatAssociative
  <2>6. (<<x>> \o h) \o (<<full>> \o t) = <<x>> \o (h \o (<<full>> \o t))
    BY <2>1, <2>3, ConcatAssociative
  <2> QED  BY <1>5, <1>6, <1>9, <2>5, <2>6 DEF h, t
<1>11. Remainder(w) = <<>> \/ e.buffer = Remainder(w)
  <2>1. CASE Remainder(rest) = <<>>  BY <1>5, <1>6, <2>1
  <2>2. CASE Remainder(rest) # <<>>
    <3>1. Remainder(rest) \in Seq(S)  BY <1>3, RemainderAt
    <3>2. SubSeq(f.buffer, 1, 0) = <<>>  BY SubSeqEmpty
    <3>3. <<>> \o Remainder(rest) = Remainder(rest)  BY <3>1, ConcatEmptySeq
    <3> QED  BY <1>5, <1>6, <1>9, <2>2, <3>2, <3>3
  <2> QED  BY <2>1, <2>2
<1>12. e.total0 = Len(w) % WordMod  BY <1>7, <1>9 DEF w, Counted
<1>13. Fed(e, x, w)  BY <1>5, <1>9, <1>10, <1>11, <1>12, FedFrom
<1> QED  BY <1>7, <1>8, <1>9, <1>13 DEF w

\* The input is cut into blocks as it stands: the buffer is empty or stays short.
LEMMA WholeFeeds ==
    ASSUME NEW S, NEW s \in Seq(S), NEW in \in Seq(S), NEW c, NEW x, Fed(c, x, s),
           NEW left, left = Len(s) % BlockSize, NEW d, Counted(c, d, s \o in),
           left = 0 \/ ~Fills(s, in, left)
    PROVE  /\ Fed(Whole(d, left, in), x, s \o in)
           /\ Whole(d, left, in).total1 = d.total1
<1>1. PICK r : r = Remainder(s)  OBVIOUS
<1>2. PICK w : w = s \o in  OBVIOUS
<1>3. PICK e : e = Whole(d, left, in)  OBVIOUS
<1>4. r \in Seq(S) /\ Len(r) = left /\ SubSeq(c.buffer, 1, left) = r
  BY <1>1, RemainderAt DEF Fed
<1>5. w \in Seq(S) /\ Chop(w) = Chop(s) \o Chop(r \o in) /\ Remainder(w) = Remainder(r \o in)
  BY <1>1, <1>2, ChopConcat, ConcatAt
<1>6. Chop(r \o in) = Chop(in) /\ Remainder(r \o in) = r \o Remainder(in)
  <2>1. CASE left = 0
    <3>1. r = <<>>  BY <1>4, <2>1, EmptySeq
    <3>2. <<>> \o in = in  BY ConcatEmptySeq
    <3>3. Remainder(in) \in Seq(S)  BY RemainderAt
    <3>4. <<>> \o Remainder(in) = Remainder(in)  BY <3>3, ConcatEmptySeq
    <3> QED  BY <3>1, <3>2, <3>4
  <2>2. CASE ~Fills(s, in, left)
    <3>1. left \in Nat /\ Len(in) < BlockSize - left /\ Len(in) \in Nat
      <4>1. Len(s) \in Nat /\ Len(in) \in Nat  OBVIOUS
      <4>2. left \in Nat  BY <4>1, Split
      <4> QED  BY <4>1, <4>2, <2>2, BlockSizeType DEF Fills
    <3>2. r \o in \in Seq(S) /\ Len(r \o in) = Len(r) + Len(in)  BY <1>4, ConcatAt
    <3>3. Len(r \o in) < BlockSize /\ Len(in) < BlockSize  BY <1>4, <3>1, <3>2, BlockSizeType
    <3>4. Chop(r \o in) = <<>> /\ Remainder(r \o in) = r \o in  BY <3>2, <3>3, ChopShort
    <3>5. Chop(in) = <<>> /\ Remainder(in) = in  BY <3>3, ChopShort
    <3> QED  BY <3>4, <3>5
  <2> QED  BY <2>1, <2>2
<1>7. /\ IsContext(e) /\ e.total0 = d.total0 /\ e.total1 = d.total1 /\ e.state = d.state \o Chop(in)
      /\ Remainder(in) = <<>> => e.buffer = d.buffer
      /\ Remainder(in) # <<>> => e.buffer = SubSeq(d.buffer, 1, left) \o Remainder(in)
  <2>1. IsContext(d)  BY DEF Counted
  <2>2. \A h : IsContext(h) =>
           /\ IsContext(Whole(h, left, in)) /\ Whole(h, left, in).total0 = h.total0
           /\ Whole(h, left, in).total1 = h.total1
           /\ Whole(h, left, in).state = h.state \o Chop(in)
           /\ Remainder(in) = <<>> => Whole(h, left, in).buffer = h.buffer
           /\ Remainder(in) # <<>> =>
                 Whole(h, left, in).buffer = SubSeq(h.buffer, 1, left) \o Remainder(in)
    BY WholeIs, SMTT(30)
  <2> QED  BY <1>3, <2>1, <2>2
<1>8. e.state = <<x>> \o Chop(w)
  <2>1. d.state = <<x>> \o Chop(s)  BY DEF Counted, Fed
  <2>2. PICK V : V = Seq(S) \cup {x}  OBVIOUS
  <2>3. Chop(s) \in Seq(Seq(S)) /\ Chop(in) \in Seq(Seq(S))  BY ChopAt
  <2>4. PICK h \in Seq(V), t \in Seq(V), y \in Seq(V) : h = Chop(s) /\ t = Chop(in) /\ y = <<x>>
    <3>1. Chop(s) \in Seq(V) /\ Chop(in) \in Seq(V) /\ <<x>> \in Seq(V)  BY <2>2, <2>3
    <3> QED  BY <3>1
  <2>5. (y \o h) \o t = y \o (h \o t)  BY ConcatAssociative, SMTT(30)
  <2> QED  BY <1>5, <1>6, <1>7, <2>1, <2>4, <2>5
<1>9. e.total0 = Len(w) % WordMod  BY <1>2, <1>7 DEF Counted
<1>10. Fed(e, x, w)
  <2>1. CASE Remainder(in) = <<>>
    <3>1. Remainder(w) = r  BY <1>4, <1>5, <1>6, <2>1, ConcatEmptySeq
    <3>2. Len(Remainder(w)) = Len(w) % BlockSize  BY <1>5, RemainderAt
    <3>3. e.buffer = c.buffer  BY <1>7, <2>1 DEF Counted
    <3>4. SubSeq(e.buffer, 1, Len(w) % BlockSize) = Remainder(w)  BY <1>4, <3>1, <3>2, <3>3
    <3> QED  BY <1>7, <1>8, <1>9, <3>4 DEF Fed
  <2>2. CASE Remainder(in) # <<>>
    <3>1. e.buffer = r \o Remainder(in)  BY <1>4, <1>7, <2>2 DEF Counted
    <3>2. e.buffer = Remainder(w)  BY <1>5, <1>6, <3>1
    <3> QED  BY <1>5, <1>7, <1>8, <1>9, <3>2, FedFrom
  <2> QED  BY <2>1, <2>2
<1> QED  BY <1>2, <1>3, <1>7, <1>10

\* total1 counts how often total0 wrapped, while no update is longer than a word.
LEMMA Carry ==
    ASSUME NEW m \in Nat, NEW n \in Nat, n < WordMod, m + n < WordMod * HighMod
    PROVE  /\ ((m % WordMod) + n) % WordMod < n % WordMod =>
                 ((m \div WordMod) + 1) % WordMod = (m + n) \div WordMod
           /\ ~(((m % WordMod) + n) % WordMod < n % WordMod) => m \div WordMod = (m + n) \div WordMod
<1>1. PICK a \in Nat, b \in 0 .. WordMod - 1 :
         m = a * WordMod + b /\ b = m % WordMod /\ a = m \div WordMod
  BY SplitWord
<1>2. PICK v \in Nat : v = a * WordMod  BY WordModType
<1>3. HighMod \in Nat \ {0} /\ HighMod < WordMod  BY DigestAssumption
<1>4. n % WordMod = n
  <2>1. 0 \in Nat /\ n \in 0 .. WordMod - 1 /\ n = 0 * WordMod + n  BY WordModType
  <2> QED  BY <2>1, SplitWordUnique
<1>5. CASE b + n < WordMod
  <2>1. b + n \in 0 .. WordMod - 1 /\ b + n = 0 * WordMod + (b + n)  BY <1>5, WordModType
  <2>2. (b + n) % WordMod = b + n  BY <2>1, SplitWordUnique
  <2>3. m + n = a * WordMod + (b + n)  BY <1>1, <1>2
  <2>4. (m + n) \div WordMod = a  BY <2>1, <2>3, SplitWordUnique
  <2>5. ~(b + n < n)  OBVIOUS
  <2> QED  BY <1>1, <1>4, <2>2, <2>4, <2>5
<1>6. CASE ~(b + n < WordMod)
  <2> DEFINE r == b + n - WordMod
  <2>1. r \in 0 .. WordMod - 1 /\ r < n /\ b + n = 1 * WordMod + r  BY <1>6, WordModType
  <2>2. (b + n) % WordMod = r  BY <2>1, SplitWordUnique
  <2>3. (a + 1) * WordMod = v + WordMod /\ a + 1 \in Nat  BY <1>2, WordModType
  <2>4. m + n = (a + 1) * WordMod + r  BY <1>1, <1>2, <2>1, <2>3, WordModType
  <2>5. (m + n) \div WordMod = a + 1  BY <2>1, <2>3, <2>4, SplitWordUnique
  <2>6. a + 1 < WordMod
    <3>1. (a + 1) * WordMod < HighMod * WordMod
      <4>1. WordMod * HighMod = HighMod * WordMod  BY <1>3, WordModType
      <4>2. PICK y \in Nat : y = HighMod * WordMod  BY <1>3, WordModType
      <4>3. PICK z \in Nat : z = (a + 1) * WordMod  BY <2>3, WordModType
      <4> QED  BY <2>1, <2>4, <4>1, <4>2, <4>3, WordModType
    <3>2. a + 1 < HighMod  BY <1>3, <2>3, <3>1, WordModType
    <3> QED  BY <1>3, <2>3, <3>2, WordModType, DigestAssumption
  <2>7. (a + 1) % WordMod = a + 1
    <3>1. 0 \in Nat /\ a + 1 \in 0 .. WordMod - 1 /\ a + 1 = 0 * WordMod + (a + 1)
      BY <2>3, <2>6, WordModType
    <3> QED  BY <3>1, SplitWordUnique
  <2> QED  BY <1>1, <1>4, <2>1, <2>2, <2>5, <2>7
<1> QED  BY <1>5, <1>6

\* An update feeds its input, and keeps the counter right while it does not overflow.
LEMMA Update ==
    ASSUME NEW S, NEW s \in Seq(S), NEW in \in Seq(S), NEW c, NEW x, Fed(c, x, s)
    PROVE  /\ Fed(mbedtls_sha256_update(c, in), x, s \o in)
           /\ c.total1 = Len(s) \div WordMod /\ Len(in) < WordMod /\ Len(s \o in) < WordMod * HighMod
                => mbedtls_sha256_update(c, in).total1 = Len(s \o in) \div WordMod
<1>1. CASE in = <<>>
  <2>1. s \o <<>> = s  BY ConcatEmptySeq
  <2>2. mbedtls_sha256_update(c, in) = c  BY <1>1 DEF mbedtls_sha256_update
  <2> QED  BY <1>1, <2>1, <2>2
<1>2. CASE in # <<>>
  <2>1. PICK m, n : m = Len(s) /\ n = Len(in)  OBVIOUS
  <2>2. m \in Nat /\ n \in Nat /\ s \o in \in Seq(S) /\ Len(s \o in) = m + n  BY <2>1, ConcatAt
  <2>3. PICK left : left = c.total0 % BlockSize  OBVIOUS
  <2>4. left = Len(s) % BlockSize  BY <2>1, <2>2, <2>3, ModOfWord DEF Fed
  <2>5. PICK d : d = Count(c, n)  OBVIOUS
  <2>6. /\ IsContext(d) /\ d.buffer = c.buffer /\ d.state = c.state
        /\ d.total0 = (c.total0 + n) % WordMod
        /\ d.total1 = IF (c.total0 + n) % WordMod < n % WordMod THEN (c.total1 + 1) % WordMod
                      ELSE c.total1
    BY <2>5, CountIs DEF Fed
  <2>7. Counted(c, d, s \o in)  BY <2>1, <2>2, <2>6, ModOfSum DEF Counted, Fed
  <2>8. c.total1 = m \div WordMod /\ n < WordMod /\ m + n < WordMod * HighMod
           => d.total1 = (m + n) \div WordMod
    BY <2>1, <2>2, <2>6, Carry DEF Fed
  <2>9. CASE left # 0 /\ n >= BlockSize - left
    <3>1. mbedtls_sha256_update(c, in) = FillUp(d, left, BlockSize - left, in)
      BY <1>2, <2>1, <2>3, <2>5, <2>9 DEF mbedtls_sha256_update
    <3>2. Fills(s, in, left)  BY <2>1, <2>4, <2>9 DEF Fills
    <3>3. /\ Fed(FillUp(d, left, BlockSize - left, in), x, s \o in)
          /\ FillUp(d, left, BlockSize - left, in).total1 = d.total1
      BY <2>7, <3>2, FillUpFeeds
    <3> QED  BY <2>1, <2>2, <2>8, <3>1, <3>3
  <2>10. CASE ~(left # 0 /\ n >= BlockSize - left)
    <3>1. mbedtls_sha256_update(c, in) = Whole(d, left, in)
      BY <1>2, <2>1, <2>3, <2>5, <2>10 DEF mbedtls_sha256_update
    <3>2. left = 0 \/ ~Fills(s, in, left)  BY <2>1, <2>10 DEF Fills
    <3>3. Fed(Whole(d, left, in), x, s \o in) /\ Whole(d, left, in).total1 = d.total1
      BY <2>4, <2>7, <3>2, WholeFeeds
    <3> QED  BY <2>1, <2>2, <2>8, <3>1, <3>3
  <2> QED  BY <2>9, <2>10
<1> QED  BY <1>1, <1>2

-----------------------------------------------------------------------------
\* The padding fills the last block up to the length field, in one way only.
LEMMA PadUnique ==
    ASSUME NEW n \in Nat, NEW z \in 1 .. BlockSize, (n + z + LenSize) % BlockSize = 0,
           NEW y \in 1 .. BlockSize, (n + y + LenSize) % BlockSize = 0
    PROVE  y = z
<1>1. BlockSize \in Nat \ {0} /\ LenSize \in Nat  BY DigestAssumption
<1>2. PICK p \in Nat : p = n + y + LenSize  BY <1>1
<1>3. PICK q \in Nat : q = n + z + LenSize  BY <1>1
<1>4. p % BlockSize = 0 /\ q % BlockSize = 0  BY <1>2, <1>3
<1>5. PICK a \in Nat, b \in Nat : p = a * BlockSize /\ q = b * BlockSize
  <2>1. /\ p \div BlockSize \in Nat /\ q \div BlockSize \in Nat
        /\ (p \div BlockSize) * BlockSize \in Nat /\ (q \div BlockSize) * BlockSize \in Nat
        /\ (p \div BlockSize) * BlockSize + (p % BlockSize) = p
        /\ (q \div BlockSize) * BlockSize + (q % BlockSize) = q
    BY Split
  <2> QED  BY <1>4, <2>1
<1>6. p - q = y - z /\ y - z < BlockSize /\ z - y < BlockSize  BY <1>1, <1>2, <1>3
<1>7. CASE a < b
  <2>1. (a + 1) * BlockSize <= b * BlockSize /\ (a + 1) * BlockSize = a * BlockSize + BlockSize
    BY <1>1, <1>7
  <2> QED  BY <1>1, <1>5, <1>6, <2>1
<1>8. CASE b < a
  <2>1. (b + 1) * BlockSize <= a * BlockSize /\ (b + 1) * BlockSize = b * BlockSize + BlockSize
    BY <1>1, <1>8
  <2> QED  BY <1>1, <1>5, <1>6, <2>1
<1>9. CASE a = b  BY <1>5, <1>6, <1>9
<1> QED  BY <1>7, <1>8, <1>9

\* The number of padding bytes that the code takes.
PadLen(last) ==
    LET room == BlockSize - LenSize
    IN IF last < room THEN room - last ELSE BlockSize + room - last

LEMMA PadLenIs ==
    ASSUME NEW n \in Nat
    PROVE  /\ PadLen(n % BlockSize) \in 1 .. BlockSize
           /\ PadLen(n % BlockSize) = CHOOSE z \in 1 .. BlockSize : (n + z + LenSize) % BlockSize = 0
<1>1. BlockSize \in Nat \ {0} /\ LenSize \in 1 .. BlockSize - 1  BY DigestAssumption
<1>2. PICK q \in Nat, r \in 0 .. BlockSize - 1 : n = q * BlockSize + r /\ r = n % BlockSize
  BY Split
<1>3. PICK v \in Nat : v = q * BlockSize  BY <1>1
<1>4. PadLen(r) \in 1 .. BlockSize  BY <1>1 DEF PadLen
<1>5. (n + PadLen(r) + LenSize) % BlockSize = 0
  <2>1. CASE r < BlockSize - LenSize
    <3>1. n + PadLen(r) + LenSize = v + BlockSize  BY <1>1, <1>2, <1>3, <2>1 DEF PadLen
    <3>2. v + BlockSize = (q + 1) * BlockSize + 0 /\ q + 1 \in Nat  BY <1>1, <1>3
    <3>3. (n + PadLen(r) + LenSize) = (q + 1) * BlockSize + 0  BY <3>1, <3>2
    <3>4. 0 \in 0 .. BlockSize - 1  BY <1>1
    <3> QED  BY <3>2, <3>3, <3>4, SplitUnique
  <2>2. CASE ~(r < BlockSize - LenSize)
    <3>1. n + PadLen(r) + LenSize = v + BlockSize + BlockSize
      BY <1>1, <1>2, <1>3, <2>2 DEF PadLen
    <3>2. v + BlockSize + BlockSize = (q + 2) * BlockSize + 0 /\ q + 2 \in Nat  BY <1>1, <1>3
    <3>3. (n + PadLen(r) + LenSize) = (q + 2) * BlockSize + 0  BY <3>1, <3>2
    <3>4. 0 \in 0 .. BlockSize - 1  BY <1>1
    <3> QED  BY <3>2, <3>3, <3>4, SplitUnique
  <2> QED  BY <2>1, <2>2
<1>6. \A y \in 1 .. BlockSize : (n + y + LenSize) % BlockSize = 0 => y = PadLen(r)
  BY <1>4, <1>5, PadUnique
<1> QED  BY <1>2, <1>4, <1>5, <1>6

\* The length field: eight times the length, from the two words of the counter.
LEMMA BitsOf ==
    ASSUME NEW n \in Nat, n < WordMod * HighMod
    PROVE  /\ (((n % WordMod) \div HighMod) + (n \div WordMod) * 8) % WordMod = (8 * n) \div WordMod
           /\ ((n % WordMod) * 8) % WordMod = (8 * n) % WordMod
<1>1. HighMod \in Nat \ {0} /\ WordMod = 8 * HighMod /\ WordMod \in Nat \ {0}
  BY DigestAssumption, WordModType
<1>2. PICK a \in Nat, b \in 0 .. WordMod - 1 :
         n = a * WordMod + b /\ b = n % WordMod /\ a = n \div WordMod
  BY SplitWord
<1>3. PICK u \in Nat, v \in 0 .. HighMod - 1 : b = u * HighMod + v /\ u = b \div HighMod
  <2>1. /\ b \div HighMod \in Nat /\ b % HighMod \in 0 .. HighMod - 1
        /\ b = (b \div HighMod) * HighMod + (b % HighMod)
    <3>1. HighMod \in Nat \ {0} /\ b \in Nat  BY <1>1
    <3> QED  BY <3>1, DivMod
  <2> QED  BY <2>1
<1>4. u < 8
  <2>1. PICK g \in Nat : g = u * HighMod  BY <1>1
  <2>2. ASSUME u >= 8 PROVE FALSE
    <3>1. u * HighMod >= 8 * HighMod  BY <1>1, <2>2
    <3> QED  BY <1>1, <1>2, <1>3, <2>1, <3>1
  <2> QED  BY <2>2
<1>5. a < HighMod
  <2>1. ASSUME a >= HighMod PROVE FALSE
    <3>1. a * WordMod >= HighMod * WordMod /\ HighMod * WordMod = WordMod * HighMod
      BY <1>1, <2>1
    <3>2. PICK g \in Nat : g = a * WordMod  BY <1>1
    <3>3. PICK h \in Nat : h = WordMod * HighMod  BY <1>1
    <3> QED  BY <1>2, <3>1, <3>2, <3>3
  <2> QED  BY <2>1, <1>1
<1>6. u * WordMod = 8 * (u * HighMod) /\ u * HighMod \in Nat  BY <1>1
<1>7. 8 * b = u * WordMod + 8 * v  BY <1>3, <1>6
<1>8. 8 * v \in 0 .. WordMod - 1  BY <1>1
<1>9. (8 * b) % WordMod = 8 * v  BY <1>7, <1>8, SplitWordUnique
<1>10. 8 * n = (8 * a + u) * WordMod + 8 * v
  <2>1. PICK g \in Nat : g = a * WordMod  BY <1>1
  <2>2. PICK h \in Nat : h = u * WordMod  BY <1>1
  <2>3. (8 * a + u) * WordMod = 8 * g + h  BY <1>1, <2>1, <2>2
  <2> QED  BY <1>2, <1>7, <2>1, <2>2, <2>3
<1>11. 8 * a + u \in Nat  OBVIOUS
<1>12. (8 * n) \div WordMod = 8 * a + u /\ (8 * n) % WordMod = 8 * v
  BY <1>8, <1>10, <1>11, SplitWordUnique
<1>13. (u + a * 8) % WordMod = 8 * a + u
  <2>1. u + a * 8 = 8 * a + u /\ 8 * a + u \in 0 .. WordMod - 1  BY <1>1, <1>4, <1>5
  <2>2. u + a * 8 = 0 * WordMod + (8 * a + u)  BY <2>1, <1>1
  <2> QED  BY <2>1, <2>2, SplitWordUnique
<1>14. b * 8 = 8 * b  OBVIOUS
<1>15. /\ ((b \div HighMod) + a * 8) % WordMod = (8 * n) \div WordMod
       /\ (b * 8) % WordMod = (8 * n) % WordMod
  <2>1. (u + a * 8) % WordMod = (8 * n) \div WordMod  BY <1>12, <1>13
  <2>2. (b * 8) % WordMod = (8 * n) % WordMod  BY <1>9, <1>12, <1>14
  <2> QED  BY <1>3, <2>1, <2>2
<1> QED  BY <1>2, <1>15

LEMMA SizeType ==
    ASSUME NEW x
    PROVE  SizeOf(x) \in Nat /\ SizeOf(x) # 0 /\ SizeOf(x) < WordMod
  BY DigestAssumption DEF SizeOf

\* SubSeq over the whole length changes nothing.
LEMMA ForcedIs ==
    ASSUME NEW S, NEW s \in Seq(S)
    PROVE  Forced(s) = s
  BY SubSeqFull DEF Forced

LEMMA FunctionIsSeq ==
    ASSUME NEW k \in Nat, NEW V, NEW f \in [1 .. k -> V]
    PROVE  f \in Seq(V) /\ Len(f) = k
  OBVIOUS

LEMMA FirstIs ==
    ASSUME NEW V, NEW h \in Seq(V), NEW x
    PROVE  (<<x>> \o h)[1] = x /\ <<x>> \o h # <<>>
<1>1. PICK W : W = V \cup {x}  OBVIOUS
<1>2. h \in Seq(W) /\ <<x>> \in Seq(W) /\ Len(<<x>>) = 1 /\ <<x>>[1] = x  BY <1>1
<1>3. Len(<<x>> \o h) = 1 + Len(h) /\ Len(h) \in Nat  BY <1>2, ConcatAt
<1>4. (<<x>> \o h)[1] = <<x>>[1]
  <2>1. 1 \in 1 .. Len(<<x>>)  BY <1>2
  <2> QED  BY <1>2, <2>1, ConcatAt
<1> QED  BY <1>2, <1>3, <1>4

\* What finish answers for a context that was fed s: the digest of s.
LEMMA Finish ==
    ASSUME NEW S, NEW s \in Seq(S), NEW c, NEW x, Fed(c, x, s),
           c.total1 = Len(s) \div WordMod, Len(s) < WordMod * HighMod
    PROVE  LET e == mbedtls_sha256_finish(c)
           IN /\ IsContext(e) /\ e.state # <<>>
              /\ Forced(Output(e)) = Reference(s, x)
<1>1. PICK n \in Nat : n = Len(s)  OBVIOUS
<1>2. n < WordMod * HighMod  BY <1>1
<1>3. PICK z \in 1 .. BlockSize : z = PadLen(n % BlockSize)  BY PadLenIs
<1>4. z = CHOOSE y \in 1 .. BlockSize : (n + y + LenSize) % BlockSize = 0  BY <1>3, PadLenIs
<1>5. PICK high, low : high = (8 * n) \div WordMod /\ low = (8 * n) % WordMod  OBVIOUS
<1>6. MsgLen(c) = LenBytes(high, low)
  <2>1. c.total0 = n % WordMod /\ c.total1 = n \div WordMod  BY <1>1 DEF Fed
  <2>2. /\ ((c.total0 \div HighMod) + c.total1 * 8) % WordMod = high
        /\ (c.total0 * 8) % WordMod = low
    BY <1>2, <1>5, <2>1, BitsOf
  <2> QED  BY <2>2 DEF MsgLen
<1>7. PICK bits : bits = LenBytes(high, low)  OBVIOUS
<1>8. PICK pad : pad = ZeroPad(z)  OBVIOUS
<1>9. PICK T : T = S \cup {pad[i] : i \in 1 .. z} \cup {bits[i] : i \in 1 .. LenSize}  OBVIOUS
<1>10. s \in Seq(T) /\ pad \in Seq(T) /\ bits \in Seq(T)
  <2>1. s \in Seq(T)  BY <1>9
  <2>2. pad \in Seq(T)
    <3>1. pad \in [1 .. z -> T]  BY <1>8, <1>9 DEF ZeroPad
    <3> QED  BY <3>1, BlockSizeType
  <2>3. bits \in Seq(T)
    <3>1. bits \in [1 .. LenSize -> T]  BY <1>7, <1>9 DEF LenBytes
    <3> QED  BY <3>1, DigestAssumption
  <2> QED  BY <2>1, <2>2, <2>3
<1>11. PICK d : d = mbedtls_sha256_update(c, pad)  OBVIOUS
<1>12. PICK e : e = mbedtls_sha256_update(d, bits)  OBVIOUS
<1>13. mbedtls_sha256_finish(c) = e
  <2>1. c.total0 % BlockSize = n % BlockSize  BY <1>1, ModOfWord DEF Fed
  <2>2. mbedtls_sha256_finish(c)
          = mbedtls_sha256_update(mbedtls_sha256_update(c, ZeroPad(PadLen(c.total0 % BlockSize))), MsgLen(c))
    BY DEF mbedtls_sha256_finish, PadLen
  <2> QED  BY <1>3, <1>6, <1>7, <1>8, <1>11, <1>12, <2>1, <2>2
<1>14. Fed(d, x, s \o pad) /\ s \o pad \in Seq(T)  BY <1>10, <1>11, Update, ConcatAt
<1>15. PICK t \in Seq(T) : t = (s \o pad) \o bits  BY <1>10, <1>14, ConcatAt
<1>16. Fed(e, x, t)  BY <1>10, <1>12, <1>14, <1>15, Update
<1>17. PICK h \in Seq(Seq(T)) : h = Chop(t)  BY ChopAt
<1>18. IsContext(e) /\ e.state = <<x>> \o h  BY <1>16, <1>17 DEF Fed
<1>19. Output(e) = [i \in 1 .. SizeOf(x) |-> <<"d", i, <<x>> \o h>>]
  <2>1. (<<x>> \o h)[1] = x  BY FirstIs
  <2>2. e.state[1] = x  BY <1>18, <2>1
  <2> QED  BY <1>18, <2>2 DEF Output
<1>20. \E V : Output(e) \in Seq(V)
  <2>1. PICK k \in Nat : k = SizeOf(x)  BY SizeType
  <2>2. PICK f : f = Output(e)  OBVIOUS
  <2>3. PICK V : V = {f[i] : i \in 1 .. k}  OBVIOUS
  <2>4. f \in [1 .. k -> V]  BY <1>19, <2>1, <2>2, <2>3
  <2>5. f \in Seq(V)  BY <2>4, FunctionIsSeq
  <2> QED  BY <2>2, <2>5
<1>21. Forced(Output(e)) = Output(e)  BY <1>20, ForcedIs
<1>22. Reference(s, x) = Forced([i \in 1 .. SizeOf(x) |-> <<"d", i, <<x>> \o h>>])
  <2>1. Forced(h) = h  BY ForcedIs
  <2>2. Reference(s, x) = Forced([i \in 1 .. SizeOf(x) |->
                                    <<"d", i, <<x>> \o Forced(Chop((s \o ZeroPad(z)) \o LenBytes(high, low)))>>])
    BY <1>1, <1>4, <1>5 DEF Reference
  <2>3. Forced(Chop((s \o ZeroPad(z)) \o LenBytes(high, low))) = h
    BY <1>7, <1>8, <1>15, <1>17, <2>1
  <2> QED  BY <2>2, <2>3
<1>23. e.state # <<>>  BY <1>18, FirstIs
<1> QED  BY <1>13, <1>18, <1>19, <1>21, <1>22, <1>23

-----------------------------------------------------------------------------
LEMMA Room ==
    /\ WordMod * HighMod \in Nat /\ WordMod + WordMod <= WordMod * HighMod
<1>1. WordMod \in Nat /\ HighMod \in Nat /\ HighMod >= 2  BY DigestAssumption
<1>2. WordMod * 2 <= WordMod * HighMod /\ WordMod * HighMod \in Nat  BY <1>1
<1> QED  BY <1>1, <1>2

\* A context that was just started and given s.
LEMMA StartedWith ==
    ASSUME NEW S, NEW s \in Seq(S), NEW c, IsContext(c), NEW x, Len(s) < WordMod
    PROVE  /\ Fed(mbedtls_sha256_update(mbedtls_sha256_starts(c, x), s), x, s)
           /\ mbedtls_sha256_update(mbedtls_sha256_starts(c, x), s).total1 = Len(s) \div WordMod
<1>1. PICK d : d = mbedtls_sha256_starts(c, x)  OBVIOUS
<1>2. Fed(d, x, <<>>) /\ d.total1 = 0  BY <1>1, Starts
<1>3. <<>> \in Seq(S) /\ Len(<<>>) = 0  OBVIOUS
<1>4. <<>> \o s = s  BY ConcatEmptySeq
<1>5. 0 \div WordMod = 0
  <2>1. 0 \in Nat /\ 0 \in 0 .. WordMod - 1 /\ 0 = 0 * WordMod + 0  BY WordModType
  <2> QED  BY <2>1, SplitWordUnique
<1>6. Len(s) < WordMod * HighMod  BY Room, WordModType
<1>7. /\ Fed(mbedtls_sha256_update(d, s), x, <<>> \o s)
      /\ d.total1 = Len(<<>>) \div WordMod /\ Len(s) < WordMod /\ Len(<<>> \o s) < WordMod * HighMod
           => mbedtls_sha256_update(d, s).total1 = Len(<<>> \o s) \div WordMod
  BY <1>2, <1>3, Update
<1> QED  BY <1>1, <1>2, <1>3, <1>4, <1>5, <1>6, <1>7

\* The digest of s, whatever was hashed with the context before.
LEMMA HashOf ==
    ASSUME NEW S, NEW s \in Seq(S), NEW c, IsContext(c), NEW x, Len(s) < WordMod
    PROVE  Forced(Output(mbedtls_sha256_finish(
                     mbedtls_sha256_update(mbedtls_sha256_starts(c, x), s)))) = Reference(s, x)
<1>1. PICK d : d = mbedtls_sha256_update(mbedtls_sha256_starts(c, x), s)  OBVIOUS
<1>2. Fed(d, x, s) /\ d.total1 = Len(s) \div WordMod  BY <1>1, StartedWith
<1>3. Len(s) < WordMod * HighMod  BY Room, WordModType
<1>4. Forced(Output(mbedtls_sha256_finish(d))) = Reference(s, x)  BY <1>2, <1>3, Finish
<1> QED  BY <1>1, <1>4

LEMMA ReferenceIs ==
    ASSUME NEW s, NEW x
    PROVE  /\ \E V : Reference(s, x) \in Seq(V)
           /\ Len(Reference(s, x)) = SizeOf(x)
<1>1. PICK k \in Nat : k = SizeOf(x)  BY SizeType
<1>2. PICK h : Reference(s, x) = Forced([i \in 1 .. k |-> <<"d", i, h>>])
  <2> DEFINE zeros == CHOOSE z \in 1 .. BlockSize : (Len(s) + z + LenSize) % BlockSize = 0
             bits == LenBytes((8 * Len(s)) \div WordMod, (8 * Len(s)) % WordMod)
             h == <<x>> \o Forced(Chop(s \o ZeroPad(zeros) \o bits))
  <2>1. Reference(s, x) = Forced([i \in 1 .. SizeOf(x) |-> <<"d", i, h>>])
    BY Zenon DEF Reference
  <2> HIDE DEF h
  <2>2. Reference(s, x) = Forced([i \in 1 .. k |-> <<"d", i, h>>])  BY <1>1, <2>1
  <2> QED  BY <2>2
<1>3. PICK f : f = [i \in 1 .. k |-> <<"d", i, h>>]  OBVIOUS
<1>4. PICK V : V = {f[i] : i \in 1 .. k}  OBVIOUS
<1>5. f \in [1 .. k -> V]  BY <1>3, <1>4
<1>6. f \in Seq(V) /\ Len(f) = k  BY <1>5, FunctionIsSeq
<1>7. Reference(s, x) = f  BY <1>2, <1>3, <1>6, ForcedIs
<1> QED  BY <1>1, <1>6, <1>7

LEMMA PadIs ==
    ASSUME NEW kind, NEW key
    PROVE  /\ \E V : Pad(kind, key) \in Seq(V)
           /\ Len(Pad(kind, key)) = BlockSize /\ Forced(Pad(kind, key)) = Pad(kind, key)
<1>1. PICK f : f = Pad(kind, key)  OBVIOUS
<1>2. PICK V : V = {f[i] : i \in 1 .. BlockSize}  OBVIOUS
<1>3. f \in [1 .. BlockSize -> V]  BY <1>1, <1>2 DEF Pad
<1>4. f \in Seq(V) /\ Len(f) = BlockSize  BY <1>3, FunctionIsSeq, BlockSizeType
<1>5. Forced(f) = f  BY <1>4, ForcedIs
<1> QED  BY <1>1, <1>4, <1>5

MsgBytesSet == {MsgByte(i) : i \in Int}

LEMMA MsgBytesAre ==
    ASSUME NEW i \in Int, NEW n \in Nat
    PROVE  MsgBytes(i, n) \in Seq(MsgBytesSet) /\ Len(MsgBytes(i, n)) = n
<1>1. PICK f : f = MsgBytes(i, n)  OBVIOUS
<1>2. f \in [1 .. n -> MsgBytesSet]  BY <1>1 DEF MsgBytes, MsgBytesSet
<1>3. f \in Seq(MsgBytesSet) /\ Len(f) = n  BY <1>2, FunctionIsSeq
<1> QED  BY <1>1, <1>3

LEMMA MsgGrows ==
    ASSUME NEW m \in Nat, NEW n \in Nat
    PROVE  MsgBytes(1, m) \o MsgBytes(m + 1, n) = MsgBytes(1, m + n)
<1>1. PICK f \in Seq(MsgBytesSet), g \in Seq(MsgBytesSet), h \in Seq(MsgBytesSet) :
         /\ f = MsgBytes(1, m) /\ g = MsgBytes(m + 1, n) /\ h = MsgBytes(1, m + n)
         /\ Len(f) = m /\ Len(g) = n /\ Len(h) = m + n
  BY MsgBytesAre
<1>2. /\ f \o g \in Seq(MsgBytesSet) /\ Len(f \o g) = m + n
      /\ \A j \in 1 .. m : (f \o g)[j] = f[j]
      /\ \A j \in 1 .. n : (f \o g)[m + j] = g[j]
  <2>1. /\ f \o g \in Seq(MsgBytesSet) /\ Len(f \o g) = Len(f) + Len(g)
        /\ \A j \in 1 .. Len(f) : (f \o g)[j] = f[j]
        /\ \A j \in 1 .. Len(g) : (f \o g)[Len(f) + j] = g[j]
    BY ConcatAt
  <2> QED  BY <1>1, <2>1
<1>3. ASSUME NEW j \in 1 .. m + n PROVE (f \o g)[j] = h[j]
  <2>1. h[j] = MsgByte(j)  BY <1>1 DEF MsgBytes
  <2>2. CASE j <= m
    <3>1. j \in 1 .. m  BY <2>2
    <3>2. f[j] = MsgByte(j)  BY <1>1, <3>1 DEF MsgBytes
    <3> QED  BY <1>2, <2>1, <3>1, <3>2
  <2>3. CASE ~(j <= m)
    <3>1. PICK k \in 1 .. n : k = j - m  BY <2>3
    <3>2. j = m + k /\ m + 1 + k - 1 = j  BY <3>1
    <3>3. g[k] = MsgByte(m + 1 + k - 1)  BY <1>1, <3>1 DEF MsgBytes
    <3> QED  BY <1>2, <2>1, <3>1, <3>2, <3>3
  <2> QED  BY <2>2, <2>3
<1> QED  BY <1>1, <1>2, <1>3, SeqEqual

\* HMAC: the digest of the outer pad and the digest of what came behind the inner one.
LEMMA HmacOf ==
    ASSUME NEW S, NEW s \in Seq(S), NEW c, NEW x, Fed(c, x, s),
           c.total1 = Len(s) \div WordMod, Len(s) < WordMod * HighMod,
           NEW opad, NEW kind, NEW key, opad = Pad(kind, key), NEW d, IsContext(d)
    PROVE  LET tmp == Forced(Output(mbedtls_sha256_finish(c)))
               e == mbedtls_sha256_finish(mbedtls_sha256_update(
                      mbedtls_sha256_update(mbedtls_sha256_starts(d, x), opad), tmp))
           IN /\ IsContext(e) /\ e.state # <<>>
              /\ Forced(Output(e)) = Reference(opad \o Reference(s, x), x)
<1>1. PICK tmp : tmp = Forced(Output(mbedtls_sha256_finish(c)))  OBVIOUS
<1>2. tmp = Reference(s, x)  BY <1>1, Finish
<1>3. PICK V, W : tmp \in Seq(V) /\ opad \in Seq(W)
  <2>1. \E V : tmp \in Seq(V)  BY <1>2, ReferenceIs
  <2>2. \E W : opad \in Seq(W)  BY PadIs
  <2> QED  BY <2>1, <2>2
<1>4. PICK T : T = V \cup W  OBVIOUS
<1>5. /\ tmp \in Seq(T) /\ Len(tmp) = SizeOf(x)
      /\ opad \in Seq(T) /\ Len(opad) = BlockSize
  <2>1. V \subseteq T /\ W \subseteq T  BY <1>4
  <2>2. tmp \in Seq(T) /\ opad \in Seq(T)  BY <1>3, <2>1, SeqMono
  <2>3. Len(tmp) = SizeOf(x)  BY <1>2, ReferenceIs
  <2>4. Len(opad) = BlockSize  BY PadIs
  <2> QED  BY <2>2, <2>3, <2>4
<1>6. BlockSize \in Nat /\ BlockSize < WordMod /\ SizeOf(x) \in Nat /\ SizeOf(x) < WordMod
  BY DigestAssumption, SizeType
<1>7. PICK f : f = mbedtls_sha256_update(mbedtls_sha256_starts(d, x), opad)  OBVIOUS
<1>8. Fed(f, x, opad) /\ f.total1 = Len(opad) \div WordMod
  BY <1>5, <1>6, <1>7, StartedWith
<1>9. PICK g : g = mbedtls_sha256_update(f, tmp)  OBVIOUS
<1>10. PICK t \in Seq(T) : t = opad \o tmp /\ Len(t) = BlockSize + SizeOf(x)
  <2>1. opad \o tmp \in Seq(T) /\ Len(opad \o tmp) = Len(opad) + Len(tmp)  BY <1>5, ConcatAt
  <2> QED  BY <1>5, <2>1
<1>11. Len(t) < WordMod * HighMod
  <2>1. PICK v \in Nat : v = WordMod * HighMod  BY Room
  <2> QED  BY <1>6, <1>10, <2>1, Room, WordModType
<1>12. Fed(g, x, t) /\ g.total1 = Len(t) \div WordMod
  <2>1. /\ Fed(mbedtls_sha256_update(f, tmp), x, opad \o tmp)
        /\ f.total1 = Len(opad) \div WordMod /\ Len(tmp) < WordMod /\ Len(opad \o tmp) < WordMod * HighMod
             => mbedtls_sha256_update(f, tmp).total1 = Len(opad \o tmp) \div WordMod
    BY <1>5, <1>8, Update
  <2> QED  BY <1>5, <1>6, <1>8, <1>9, <1>10, <1>11, <2>1
<1>13. PICK e : e = mbedtls_sha256_finish(g)  OBVIOUS
<1>14. IsContext(e) /\ e.state # <<>> /\ Forced(Output(e)) = Reference(t, x)
  BY <1>11, <1>12, <1>13, Finish
<1> QED  BY <1>1, <1>2, <1>7, <1>9, <1>10, <1>13, <1>14

-----------------------------------------------------------------------------
(* The inductive invariant.  A context that was started and not finished has *)
(* been fed the inner pad, when there is a key, and the message; its counter *)
(* is exact.                                                                 *)
IsMd(m) == DOMAIN m = {"info", "ctx", "ipad", "opad", "hmac"} /\ IsContext(m.ctx)
Given(m, key, n) ==
    (IF key = <<>> THEN <<>> ELSE KeyPad("i", key[1], Is224(m.info))) \o MsgBytes(1, n)

PadsOfTheKey ==
    Keyed => /\ ~Bad
             /\ md.ipad = KeyPad("i", hkey[1], Is224(md.info))
             /\ md.opad = KeyPad("o", hkey[1], Is224(md.info))
Streams ==
    answer = <<>> /\ md.ctx.state # <<>> =>
      /\ Fed(md.ctx, Is224(md.info), Given(md, hkey, msg))
      /\ md.ctx.total1 = Len(Given(md, hkey, msg)) \div WordMod
Finished == answer # <<>> => md.ctx.state # <<>>
MdInv ==
    /\ IsMd(md) /\ msg \in 0 .. MaxTotal
    /\ PadsOfTheKey /\ Streams /\ Finished /\ DigestOfTheWhole

LEMMA KeyPadIs ==
    ASSUME NEW kind, NEW key, NEW x
    PROVE  /\ \E V : KeyPad(kind, key, x) \in Seq(V)
           /\ Len(KeyPad(kind, key, x)) = BlockSize
           /\ KeyPad(kind, key, x) = Pad(kind, IF Len(key) > BlockSize THEN Reference(key, x) ELSE key)
  BY PadIs DEF KeyPad

\* What a context is given is a sequence, and short enough for the counter.
LEMMA GivenIs ==
    ASSUME NEW m, NEW key, NEW n \in 0 .. MaxTotal
    PROVE  \E S : /\ Given(m, key, n) \in Seq(S) /\ MsgBytesSet \subseteq S
                  /\ Len(Given(m, key, n)) < WordMod * HighMod
<1>1. n \in Nat  BY DigestAssumption
<1>2. MsgBytes(1, n) \in Seq(MsgBytesSet) /\ Len(MsgBytes(1, n)) = n  BY <1>1, MsgBytesAre
<1>3. PICK v \in Nat : v = WordMod * HighMod  BY Room
<1>4. MaxTotal \in Nat /\ BlockSize \in Nat /\ MaxTotal + BlockSize < v  BY <1>3, DigestAssumption
<1>5. CASE key = <<>>
  <2>1. Given(m, key, n) = MsgBytes(1, n)  BY <1>2, <1>5, ConcatEmptySeq DEF Given
  <2> QED  BY <1>2, <1>3, <1>4, <2>1
<1>6. CASE key # <<>>
  <2>1. PICK p : p = KeyPad("i", key[1], Is224(m.info))  OBVIOUS
  <2>2. PICK V : p \in Seq(V)  BY <2>1, KeyPadIs
  <2>3. PICK S : S = V \cup MsgBytesSet  OBVIOUS
  <2>4. V \subseteq S /\ MsgBytesSet \subseteq S  BY <2>3
  <2>5. Given(m, key, n) = p \o MsgBytes(1, n)  BY <1>6, <2>1 DEF Given
  <2>6. p \in Seq(S) /\ MsgBytes(1, n) \in Seq(S)  BY <1>2, <2>2, <2>4, SeqMono
  <2>7. Len(p) = BlockSize  BY <2>1, KeyPadIs
  <2>8. Given(m, key, n) \in Seq(S) /\ Len(Given(m, key, n)) = BlockSize + n
    <3>1. p \o MsgBytes(1, n) \in Seq(S) /\ Len(p \o MsgBytes(1, n)) = Len(p) + Len(MsgBytes(1, n))
      BY <2>6, ConcatAt
    <3> QED  BY <1>2, <2>5, <2>7, <3>1
  <2> QED  BY <1>1, <1>3, <1>4, <2>4, <2>8
<1> QED  BY <1>5, <1>6

LEMMA GivenNone ==
    ASSUME NEW m, NEW key
    PROVE  /\ key = <<>> => Given(m, key, 0) = <<>>
           /\ key # <<>> => Given(m, key, 0) = KeyPad("i", key[1], Is224(m.info))
<1>1. MsgBytes(1, 0) = <<>>  BY MsgBytesAre, EmptySeq
<1>2. <<>> \o <<>> = <<>>  OBVIOUS
<1>3. KeyPad("i", key[1], Is224(m.info)) \o <<>> = KeyPad("i", key[1], Is224(m.info))
  BY KeyPadIs, ConcatEmptySeq
<1> QED  BY <1>1, <1>2, <1>3 DEF Given

LEMMA GivenGrows ==
    ASSUME NEW m, NEW key, NEW n \in 0 .. MaxTotal, NEW k \in Nat
    PROVE  Given(m, key, n) \o MsgBytes(n + 1, k) = Given(m, key, n + k)
<1>1. n \in Nat  BY DigestAssumption
<1>2. PICK f \in Seq(MsgBytesSet), g \in Seq(MsgBytesSet), h \in Seq(MsgBytesSet) :
         f = MsgBytes(1, n) /\ g = MsgBytes(n + 1, k) /\ h = MsgBytes(1, n + k)
  BY <1>1, MsgBytesAre
<1>3. f \o g = h  BY <1>1, <1>2, MsgGrows
<1>4. PICK p, V : /\ p = IF key = <<>> THEN <<>> ELSE KeyPad("i", key[1], Is224(m.info))
                  /\ p \in Seq(V)
  <2>1. <<>> \in Seq({})  OBVIOUS
  <2> QED  BY <2>1, KeyPadIs
<1>5. Given(m, key, n) = p \o f /\ Given(m, key, n + k) = p \o h  BY <1>2, <1>4 DEF Given
<1>6. PICK S : S = V \cup MsgBytesSet  OBVIOUS
<1>7. V \subseteq S /\ MsgBytesSet \subseteq S  BY <1>6
<1>8. p \in Seq(S) /\ f \in Seq(S) /\ g \in Seq(S)  BY <1>4, <1>7, SeqMono
<1>9. (p \o f) \o g = p \o (f \o g)  BY <1>8, ConcatAssociative, SMTT(30)
<1> QED  BY <1>2, <1>3, <1>5, <1>9

\* The fields of a context that only its hash was changed of.
LEMMA MdIs ==
    ASSUME NEW m, IsMd(m), NEW c, NEW e, e = [m EXCEPT !.ctx = c]
    PROVE  /\ IsContext(c) => IsMd(e)
           /\ e.ctx = c /\ e.info = m.info /\ e.ipad = m.ipad /\ e.opad = m.opad
  BY DEF IsMd

LEMMA BlankIs == IsMd(Unset) /\ Unset.ctx.state = <<>> /\ Unset.info = "none"
  BY DEF Unset, Blank, IsMd, IsContext

LEMMA InitHolds == MdInit => MdInv
<1> SUFFICES ASSUME MdInit PROVE MdInv  OBVIOUS
<1> USE DEF MdInit
<1>1. IsMd(md) /\ md.ctx.state = <<>>  BY BlankIs
<1>2. msg \in 0 .. MaxTotal  BY DigestAssumption
<1>3. ~Keyed  BY DEF Keyed
<1> QED  BY <1>1, <1>2, <1>3 DEF MdInv, PadsOfTheKey, Streams, Finished, DigestOfTheWhole

\* Nothing was started yet, so there is no key and no answer.
LEMMA SetupHolds ==
    ASSUME MdInv, NEW info, NEW hmac, NEW alloc, mbedtls_md_setup(info, hmac, alloc)
    PROVE  MdInv'
<1> USE DEF mbedtls_md_setup
<1>1. md = Unset /\ answer' = answer /\ hkey' = hkey /\ msg' = msg  OBVIOUS
<1>2. hkey = <<>>  BY <1>1, BlankIs DEF MdInv, PadsOfTheKey, Keyed, Bad
<1>3. answer = <<>>  BY <1>1, BlankIs DEF MdInv, Finished
<1>4. IsMd(md') /\ md'.ctx.state = <<>>
  <2>1. CASE alloc
    <3>1. md' = [Unset EXCEPT !.info = info, !.hmac = hmac]  BY <2>1
    <3> QED  BY <3>1 DEF Unset, Blank, IsMd, IsContext
  <2>2. CASE ~alloc
    <3>1. md' = Unset  BY <2>2
    <3> QED  BY <3>1, BlankIs
  <2> QED  BY <2>1, <2>2
<1> QED
  BY <1>1, <1>2, <1>3, <1>4 DEF MdInv, PadsOfTheKey, Streams, Finished, DigestOfTheWhole, Keyed

LEMMA FreeHolds ==
    ASSUME MdInv, mbedtls_md_free
    PROVE  MdInv'
<1>1. md' = Unset /\ msg' = 0 /\ hkey' = <<>> /\ answer' = <<>>  BY DEF mbedtls_md_free
<1>2. IsMd(md') /\ md'.ctx.state = <<>>  BY <1>1, BlankIs
<1>3. msg' \in 0 .. MaxTotal  BY <1>1, DigestAssumption
<1> QED
  BY <1>1, <1>2, <1>3 DEF MdInv, PadsOfTheKey, Streams, Finished, DigestOfTheWhole, Keyed

LEMMA StartsHolds ==
    ASSUME MdInv, mbedtls_md_starts
    PROVE  MdInv'
<1> USE DEF mbedtls_md_starts
<1>1. msg' = 0 /\ hkey' = <<>> /\ answer' = <<>>  OBVIOUS
<1>2. PICK x, c : x = Is224(md.info) /\ c = mbedtls_sha256_starts(md.ctx, x)  OBVIOUS
<1>3. IsMd(md) /\ IsContext(md.ctx)  BY DEF MdInv, IsMd
<1>4. Fed(c, x, <<>>) /\ c.total1 = 0  BY <1>2, <1>3, Starts
<1>5. md' = [md EXCEPT !.ctx = c]  BY <1>2 DEF starts
<1>6. IsMd(md') /\ md'.ctx = c /\ md'.info = md.info
  <2>1. IsContext(c)  BY <1>4 DEF Fed
  <2> QED  BY <1>3, <1>5, <2>1, MdIs
<1>7. Given(md', hkey', msg') = <<>>  BY <1>1, GivenNone
<1>8. Len(<<>>) \div WordMod = 0
  <2>1. 0 \in Nat /\ 0 \in 0 .. WordMod - 1 /\ 0 = 0 * WordMod + 0  BY WordModType
  <2> QED  BY <2>1, SplitWordUnique
<1>9. Streams'  BY <1>2, <1>4, <1>6, <1>7, <1>8 DEF Streams
<1>10. msg' \in 0 .. MaxTotal  BY <1>1, DigestAssumption
<1> QED
  BY <1>1, <1>6, <1>9, <1>10 DEF MdInv, PadsOfTheKey, Finished, DigestOfTheWhole, Keyed

\* The inner pad behind starts: what hmac_starts and hmac_reset leave.
LEMMA InnerPad ==
    ASSUME NEW c, IsContext(c), NEW x, NEW key
    PROVE  LET p == KeyPad("i", key, x)
               e == mbedtls_sha256_update(mbedtls_sha256_starts(c, x), p)
           IN Fed(e, x, p) /\ e.total1 = Len(p) \div WordMod
<1>1. PICK p : p = KeyPad("i", key, x)  OBVIOUS
<1>2. PICK V : p \in Seq(V)  BY <1>1, KeyPadIs
<1>3. Len(p) = BlockSize  BY <1>1, KeyPadIs
<1>4. Len(p) < WordMod  BY <1>3, DigestAssumption
<1> QED  BY <1>1, <1>2, <1>4, StartedWith

LEMMA ShortKeyIs ==
    ASSUME IsContext(md.ctx), NEW n \in KeyLens
    PROVE  ShortKey(KeyBytes(n)) = IF Len(KeyBytes(n)) > BlockSize
                                   THEN Reference(KeyBytes(n), Is224(md.info)) ELSE KeyBytes(n)
<1>1. n \in Nat /\ n < WordMod  BY DigestAssumption
<1>2. PICK key : key = KeyBytes(n)  OBVIOUS
<1>3. PICK V : V = {KeyByte(i) : i \in 1 .. n}  OBVIOUS
<1>4. key \in [1 .. n -> V]  BY <1>2, <1>3 DEF KeyBytes
<1>5. key \in Seq(V) /\ Len(key) = n  BY <1>1, <1>4, FunctionIsSeq
<1>6. PICK x : x = Is224(md.info)  OBVIOUS
<1>7. Forced(Output(mbedtls_sha256_finish(
          mbedtls_sha256_update(mbedtls_sha256_starts(md.ctx, x), key)))) = Reference(key, x)
  <2>1. Len(key) < WordMod  BY <1>1, <1>5
  <2> QED  BY <1>5, <2>1, HashOf
<1> QED  BY <1>2, <1>6, <1>7 DEF ShortKey, starts

LEMMA HmacStartsHolds ==
    ASSUME MdInv, NEW n \in KeyLens, mbedtls_md_hmac_starts(n)
    PROVE  MdInv'
<1>1. PICK x : x = Is224(md.info)  OBVIOUS
<1>2. IsMd(md) /\ IsContext(md.ctx)  BY DEF MdInv, IsMd
<1>3. PICK p, o : p = KeyPad("i", KeyBytes(n), x) /\ o = KeyPad("o", KeyBytes(n), x)  OBVIOUS
<1>4. p = Pad("i", ShortKey(KeyBytes(n))) /\ o = Pad("o", ShortKey(KeyBytes(n)))
  <2>1. ShortKey(KeyBytes(n)) = IF Len(KeyBytes(n)) > BlockSize
                                THEN Reference(KeyBytes(n), x) ELSE KeyBytes(n)
    BY <1>1, <1>2, ShortKeyIs
  <2> QED  BY <1>3, <2>1, KeyPadIs
<1>5. PICK c : c = mbedtls_sha256_update(starts, p)  OBVIOUS
<1>6. /\ ~Bad /\ hkey' = <<KeyBytes(n)>> /\ msg' = 0 /\ answer' = <<>>
      /\ md' = [md EXCEPT !.ipad = p, !.opad = o, !.ctx = c]
  BY <1>4, <1>5 DEF mbedtls_md_hmac_starts
<1>7. md'.info = md.info /\ md'.ipad = p /\ md'.opad = o /\ md'.ctx = c
  BY <1>2, <1>6 DEF IsMd
<1>8. Fed(c, x, p) /\ c.total1 = Len(p) \div WordMod
  BY <1>1, <1>2, <1>3, <1>5, InnerPad DEF starts
<1>9. IsMd(md')
  <2>1. IsContext(c)  BY <1>8 DEF Fed
  <2>2. DOMAIN md' = {"info", "ctx", "ipad", "opad", "hmac"}  BY <1>2, <1>6 DEF IsMd
  <2> QED  BY <1>7, <2>1, <2>2 DEF IsMd
<1>10. Given(md', hkey', msg') = p
  <2>1. hkey' # <<>> /\ hkey'[1] = KeyBytes(n) /\ msg' = 0  BY <1>6
  <2>2. Given(md', hkey', 0) = KeyPad("i", hkey'[1], Is224(md'.info))  BY <2>1, GivenNone
  <2> QED  BY <1>1, <1>3, <1>7, <2>1, <2>2
<1>11. Streams'  BY <1>1, <1>7, <1>8, <1>10 DEF Streams
<1>12. PadsOfTheKey'
  <2>1. hkey'[1] = KeyBytes(n)  BY <1>6
  <2> QED  BY <1>1, <1>3, <1>6, <1>7, <2>1 DEF PadsOfTheKey, Bad
<1>13. msg' \in 0 .. MaxTotal  BY <1>6, DigestAssumption
<1> QED  BY <1>6, <1>9, <1>11, <1>12, <1>13 DEF MdInv, Finished, DigestOfTheWhole

LEMMA HmacResetHolds ==
    ASSUME MdInv, mbedtls_md_hmac_reset
    PROVE  MdInv'
<1>1. PICK x : x = Is224(md.info)  OBVIOUS
<1>2. IsMd(md) /\ IsContext(md.ctx)  BY DEF MdInv, IsMd
<1>3. ~Bad /\ hkey # <<>> /\ hkey' = hkey /\ msg' = 0 /\ answer' = <<>>
  BY DEF mbedtls_md_hmac_reset, Keyed
<1>4. PICK p : p = KeyPad("i", hkey[1], x)  OBVIOUS
<1>5. md.ipad = p /\ md.opad = KeyPad("o", hkey[1], x)
  BY <1>1, <1>3, <1>4 DEF MdInv, PadsOfTheKey, Keyed
<1>6. PICK c : c = mbedtls_sha256_update(starts, p)  OBVIOUS
<1>7. Fed(c, x, p) /\ c.total1 = Len(p) \div WordMod
  BY <1>1, <1>2, <1>4, <1>6, InnerPad DEF starts
<1>8. md' = [md EXCEPT !.ctx = c]  BY <1>5, <1>6 DEF mbedtls_md_hmac_reset
<1>9. /\ IsMd(md') /\ md'.ctx = c /\ md'.info = md.info
      /\ md'.ipad = md.ipad /\ md'.opad = md.opad
  <2>1. IsContext(c)  BY <1>7 DEF Fed
  <2> QED  BY <1>2, <1>8, <2>1, MdIs
<1>10. Given(md', hkey', msg') = p
  <2>1. Given(md', hkey, 0) = KeyPad("i", hkey[1], Is224(md'.info))  BY <1>3, GivenNone
  <2> QED  BY <1>1, <1>3, <1>4, <1>9, <2>1
<1>11. Streams'  BY <1>1, <1>7, <1>9, <1>10 DEF Streams
<1>12. PadsOfTheKey'  BY <1>1, <1>3, <1>4, <1>5, <1>9 DEF PadsOfTheKey, Bad
<1>13. msg' \in 0 .. MaxTotal  BY <1>3, DigestAssumption
<1> QED  BY <1>3, <1>9, <1>11, <1>12, <1>13 DEF MdInv, Finished, DigestOfTheWhole

LEMMA UpdateHolds ==
    ASSUME MdInv, NEW n \in Pieces, mbedtls_md_update(n)
    PROVE  MdInv'
<1>1. PICK x : x = Is224(md.info)  OBVIOUS
<1>2. IsMd(md) /\ msg \in 0 .. MaxTotal /\ n \in Nat /\ n < WordMod
  BY DigestAssumption DEF MdInv
<1>3. /\ ~Bad /\ answer = <<>> /\ md.ctx.state # <<>>
      /\ hkey' = hkey /\ answer' = answer /\ msg' = msg + n /\ msg + n <= MaxTotal
  BY DEF mbedtls_md_update, Open
<1>4. PICK s : s = Given(md, hkey, msg)  OBVIOUS
<1>5. Fed(md.ctx, x, s) /\ md.ctx.total1 = Len(s) \div WordMod
  BY <1>1, <1>3, <1>4 DEF MdInv, Streams
<1>6. PICK S : s \in Seq(S) /\ MsgBytesSet \subseteq S
  BY <1>2, <1>4, GivenIs
<1>7. PICK in : in = MsgBytes(msg + 1, n)  OBVIOUS
<1>8. in \in Seq(S) /\ Len(in) = n
  <2>1. msg + 1 \in Int  BY <1>2
  <2>2. in \in Seq(MsgBytesSet) /\ Len(in) = n  BY <1>2, <1>7, <2>1, MsgBytesAre
  <2> QED  BY <1>6, <2>2, SeqMono
<1>9. msg + n \in 0 .. MaxTotal  BY <1>2, <1>3
<1>10. s \o in = Given(md, hkey, msg + n)  BY <1>2, <1>4, <1>7, GivenGrows
<1>11. Len(s \o in) < WordMod * HighMod  BY <1>9, <1>10, GivenIs
<1>12. PICK c : c = mbedtls_sha256_update(md.ctx, in)  OBVIOUS
<1>13. Fed(c, x, s \o in) /\ c.total1 = Len(s \o in) \div WordMod
  <2>1. /\ Fed(mbedtls_sha256_update(md.ctx, in), x, s \o in)
        /\ md.ctx.total1 = Len(s) \div WordMod /\ Len(in) < WordMod /\ Len(s \o in) < WordMod * HighMod
             => mbedtls_sha256_update(md.ctx, in).total1 = Len(s \o in) \div WordMod
    BY <1>5, <1>6, <1>8, Update
  <2> QED  BY <1>2, <1>5, <1>8, <1>11, <1>12, <2>1
<1>14. md' = [md EXCEPT !.ctx = c]
  BY <1>7, <1>12 DEF mbedtls_md_update
<1>15. /\ IsMd(md') /\ md'.ctx = c /\ md'.info = md.info
       /\ md'.ipad = md.ipad /\ md'.opad = md.opad
  <2>1. IsContext(c)  BY <1>13 DEF Fed
  <2> QED  BY <1>2, <1>14, <2>1, MdIs
<1>16. Given(md', hkey', msg') = s \o in  BY <1>3, <1>10, <1>15 DEF Given
<1>17. Streams'  BY <1>1, <1>13, <1>15, <1>16 DEF Streams
<1>18. PadsOfTheKey'  BY <1>3, <1>15 DEF MdInv, PadsOfTheKey, Keyed, Bad
<1> QED  BY <1>3, <1>9, <1>15, <1>17, <1>18 DEF MdInv, Finished, DigestOfTheWhole

LEMMA AnswerIsNotEmpty ==
    ASSUME NEW s, NEW x
    PROVE  Reference(s, x) # <<>>
<1>1. Len(Reference(s, x)) # 0  BY ReferenceIs, SizeType
<1>2. Len(<<>>) = 0  OBVIOUS
<1> QED  BY <1>1, <1>2

LEMMA FinishHolds ==
    ASSUME MdInv, mbedtls_md_finish
    PROVE  MdInv'
<1>1. PICK x : x = Is224(md.info)  OBVIOUS
<1>2. IsMd(md) /\ msg \in 0 .. MaxTotal  BY DEF MdInv
<1>3. /\ ~Bad /\ answer = <<>> /\ md.ctx.state # <<>> /\ hkey = <<>> /\ hkey' = hkey /\ msg' = msg
  BY DEF mbedtls_md_finish, Open, Keyed
<1>4. PICK s : s = MsgBytes(1, msg)  OBVIOUS
<1>5. s \in Seq(MsgBytesSet) /\ Len(s) = msg
  <2>1. msg \in Nat  BY <1>2, DigestAssumption
  <2> QED  BY <1>4, <2>1, MsgBytesAre
<1>6. Given(md, hkey, msg) = s  BY <1>3, <1>4, <1>5, ConcatEmptySeq DEF Given
<1>7. Fed(md.ctx, x, s) /\ md.ctx.total1 = Len(s) \div WordMod
  BY <1>1, <1>3, <1>6 DEF MdInv, Streams
<1>8. Len(s) < WordMod * HighMod  BY <1>2, <1>6, GivenIs
<1>9. PICK c : c = mbedtls_sha256_finish(md.ctx)  OBVIOUS
<1>10. IsContext(c) /\ c.state # <<>> /\ Forced(Output(c)) = Reference(s, x)
  BY <1>5, <1>7, <1>8, <1>9, Finish
<1>11. md' = [md EXCEPT !.ctx = c] /\ answer' = Forced(Output(md'.ctx))
  BY <1>9 DEF mbedtls_md_finish
<1>12. IsMd(md') /\ md'.ctx = c /\ md'.info = md.info  BY <1>2, <1>10, <1>11, MdIs
<1>13. answer' = Reference(s, x) /\ answer' # <<>>  BY <1>10, <1>11, <1>12, AnswerIsNotEmpty
<1>14. Forced(MsgBytes(1, msg')) = s  BY <1>3, <1>4, <1>5, ForcedIs
<1>15. msg' < WordMod => answer' = Forced(mbedtls_sha256(s, x))
  <2>1. IsContext(mbedtls_sha256_init)  BY DEF IsContext, mbedtls_sha256_init, Blank
  <2>2. ASSUME msg < WordMod PROVE Forced(mbedtls_sha256(s, x)) = Reference(s, x)
    <3>1. Len(s) < WordMod  BY <1>5, <2>2
    <3>2. Forced(Output(mbedtls_sha256_finish(mbedtls_sha256_update(
             mbedtls_sha256_starts(mbedtls_sha256_init, x), s)))) = Reference(s, x)
      BY <1>5, <2>1, <3>1, HashOf
    <3> QED  BY <3>2 DEF mbedtls_sha256
  <2> QED  BY <1>3, <1>13, <2>2
<1>16. DigestOfTheWhole'
  BY <1>1, <1>3, <1>12, <1>13, <1>14, <1>15 DEF DigestOfTheWhole, Keyed
<1> QED
  BY <1>2, <1>3, <1>10, <1>12, <1>13, <1>16 DEF MdInv, PadsOfTheKey, Streams, Finished, Keyed

LEMMA HmacFinishHolds ==
    ASSUME MdInv, mbedtls_md_hmac_finish
    PROVE  MdInv'
<1>1. PICK x : x = Is224(md.info)  OBVIOUS
<1>2. IsMd(md) /\ IsContext(md.ctx) /\ msg \in 0 .. MaxTotal  BY DEF MdInv, IsMd
<1>3. /\ ~Bad /\ answer = <<>> /\ md.ctx.state # <<>> /\ hkey # <<>> /\ hkey' = hkey /\ msg' = msg
  BY DEF mbedtls_md_hmac_finish, Open, Keyed
<1>4. PICK s : s = Given(md, hkey, msg)  OBVIOUS
<1>5. PICK S : s \in Seq(S) /\ Len(s) < WordMod * HighMod  BY <1>2, <1>4, GivenIs
<1>6. Fed(md.ctx, x, s) /\ md.ctx.total1 = Len(s) \div WordMod
  BY <1>1, <1>3, <1>4 DEF MdInv, Streams
<1>7. PICK o : o = KeyPad("o", hkey[1], x)  OBVIOUS
<1>8. md.opad = o  BY <1>1, <1>3, <1>7 DEF MdInv, PadsOfTheKey, Keyed
<1>9. PICK key : o = Pad("o", key)  BY <1>7, KeyPadIs
<1>10. PICK tmp : tmp = Forced(Output(mbedtls_sha256_finish(md.ctx)))  OBVIOUS
<1>11. PICK c : c = mbedtls_sha256_finish(
                      mbedtls_sha256_update(mbedtls_sha256_update(starts, o), tmp))
  OBVIOUS
<1>12. IsContext(c) /\ c.state # <<>> /\ Forced(Output(c)) = Reference(o \o Reference(s, x), x)
  <2>1. LET h == Forced(Output(mbedtls_sha256_finish(md.ctx)))
            e == mbedtls_sha256_finish(mbedtls_sha256_update(
                   mbedtls_sha256_update(mbedtls_sha256_starts(md.ctx, x), o), h))
        IN /\ IsContext(e) /\ e.state # <<>>
           /\ Forced(Output(e)) = Reference(o \o Reference(s, x), x)
    BY <1>2, <1>5, <1>6, <1>9, HmacOf
  <2> QED  BY <1>1, <1>10, <1>11, <2>1 DEF starts
<1>13. md' = [md EXCEPT !.ctx = c] /\ answer' = Forced(Output(md'.ctx))
  BY <1>8, <1>10, <1>11 DEF mbedtls_md_hmac_finish
<1>14. /\ IsMd(md') /\ md'.ctx = c /\ md'.info = md.info
       /\ md'.ipad = md.ipad /\ md'.opad = md.opad
  BY <1>2, <1>12, <1>13, MdIs
<1>15. answer' = Reference(o \o Reference(s, x), x) /\ answer' # <<>>
  BY <1>12, <1>13, <1>14, AnswerIsNotEmpty
<1>16. s = KeyPad("i", hkey[1], x) \o MsgBytes(1, msg)  BY <1>1, <1>3, <1>4 DEF Given
<1>17. Forced(MsgBytes(1, msg)) = MsgBytes(1, msg)
  <2>1. msg \in Nat  BY <1>2, DigestAssumption
  <2> QED  BY <2>1, MsgBytesAre, ForcedIs
<1>18. DigestOfTheWhole'
  BY <1>1, <1>3, <1>7, <1>14, <1>15, <1>16, <1>17 DEF DigestOfTheWhole, Keyed
<1>19. PadsOfTheKey'  BY <1>3, <1>14 DEF MdInv, PadsOfTheKey, Keyed, Bad
<1> QED  BY <1>2, <1>3, <1>12, <1>14, <1>15, <1>18, <1>19 DEF MdInv, Streams, Finished

LEMMA StepHolds ==
    ASSUME MdInv, [MdNext]_mdVars
    PROVE  MdInv'
<1>1. ASSUME NEW info \in Infos, NEW hmac \in BOOLEAN, NEW alloc \in BOOLEAN,
             mbedtls_md_setup(info, hmac, alloc)
      PROVE  MdInv'
  BY <1>1, SetupHolds
<1>2. CASE mbedtls_md_free  BY <1>2, FreeHolds
<1>3. CASE mbedtls_md_starts  BY <1>3, StartsHolds
<1>4. ASSUME NEW n \in KeyLens, mbedtls_md_hmac_starts(n) PROVE MdInv'
  BY <1>4, HmacStartsHolds
<1>5. CASE mbedtls_md_hmac_reset  BY <1>5, HmacResetHolds
<1>6. ASSUME NEW n \in Pieces, mbedtls_md_update(n) PROVE MdInv'
  BY <1>6, UpdateHolds
<1>7. CASE mbedtls_md_finish  BY <1>7, FinishHolds
<1>8. CASE mbedtls_md_hmac_finish  BY <1>8, HmacFinishHolds
<1>9. CASE UNCHANGED mdVars
  <2>1. md' = md /\ msg' = msg /\ hkey' = hkey /\ answer' = answer  BY <1>9 DEF mdVars
  <2> QED  BY <2>1 DEF MdInv, PadsOfTheKey, Streams, Finished, DigestOfTheWhole, Keyed, Bad
<1> QED  BY <1>1, <1>2, <1>3, <1>4, <1>5, <1>6, <1>7, <1>8, <1>9 DEF MdNext

(* For every block, word and counter size, every key and every way to cut a  *)
(* message that the counter can hold: sha256 and its HMAC answer the digest  *)
(* of the whole (sha256.c, md.c).                                            *)
THEOREM DigestHolds == MdSpec => []DigestOfTheWhole
<1>1. MdInit => MdInv  BY InitHolds
<1>2. MdInv /\ [MdNext]_mdVars => MdInv'  BY StepHolds
<1>3. MdInv => DigestOfTheWhole  BY DEF MdInv
<1> QED  BY <1>1, <1>2, <1>3, PTL DEF MdSpec

-----------------------------------------------------------------------------
(* Keys on a ring.                                                           *)
RingType ==
    /\ DOMAIN heap = {"alive", "ref", "next", "prev", "ids", "stray", "leaked"}
    /\ heap.alive \subseteq Nodes /\ ~heap.stray
    /\ DOMAIN heap.ref = Nodes /\ DOMAIN heap.next = Nodes /\ DOMAIN heap.prev = Nodes /\ DOMAIN heap.ids = Nodes
    /\ held \in [Nodes -> Nat] /\ puts \in Nat
    /\ DOMAIN walk = {"op", "at", "ids"} /\ walk.op \in {"none", "find", "clear"}
    /\ puts = 0 => heap.alive = {}
\* The list leads back the way it came, and is one circle: no part of it leads
\* only to itself.
Paired(alive, next, prev) ==
    \A n \in alive : next[n] \in alive /\ prev[n] \in alive /\ prev[next[n]] = n /\ next[prev[n]] = n
OneCircle(alive, next) ==
    \A S \in SUBSET alive : S # {} /\ (\A n \in S : next[n] \in S) => S = alive
ListInv == Paired(heap.alive, heap.next, heap.prev) /\ OneCircle(heap.alive, heap.next)

\* Keys whose reference of the ring has not been given back.
Linked == {k \in heap.alive \cap KeyIds : heap.ref[k] = held[k] + 1}
CountInv ==
    /\ \A k \in KeyIds \ heap.alive : held[k] = 0
    /\ \A k \in KeyIds \cap heap.alive : heap.ref[k] \in {held[k], held[k] + 1} /\ heap.ref[k] > 0
    /\ Ring \in heap.alive => heap.ref[Ring] = held[Ring] /\ held[Ring] = IF walk.op = "clear" THEN 0 ELSE 1
    /\ Ring \notin heap.alive => held[Ring] = 0 /\ walk.op = "none" /\ Linked = {}
    /\ Ring \in heap.alive /\ walk.op # "clear" => Linked = heap.alive \cap KeyIds
\* The keys still linked are those between the cursor and the ring.
WalkInv ==
    /\ walk.op = "find" => walk.at \in heap.alive
    /\ walk.op = "clear" =>
         /\ walk.at \in Linked \cup {Ring} /\ heap.prev[walk.at] \notin Linked
         /\ \A n \in Linked : heap.next[n] \in Linked \cup {Ring}
         /\ \A S \in SUBSET heap.alive : walk.at \in S /\ (\A n \in S \ {Ring} : heap.next[n] \in S) => Linked \subseteq S
RingInv == RingType /\ ListInv /\ CountInv /\ WalkInv

\* A node behind the last one.
LEMMA ListAdd ==
    ASSUME NEW A, NEW next, NEW prev, Paired(A, next, prev), OneCircle(A, next),
           NEW head \in A, NEW new, new \notin A, NEW next2, NEW prev2,
           next2[new] = head, next2[prev[head]] = new, \A n \in A \ {prev[head]} : next2[n] = next[n],
           prev2[new] = prev[head], prev2[head] = new, \A n \in A \ {head} : prev2[n] = prev[n]
    PROVE  Paired(A \cup {new}, next2, prev2) /\ OneCircle(A \cup {new}, next2)
<1>1. Paired(A \cup {new}, next2, prev2)
  BY DEF Paired
<1>2. ASSUME NEW S \in SUBSET (A \cup {new}), S # {}, \A n \in S : next2[n] \in S
      PROVE  S = A \cup {new}
  <2> DEFINE T == S \ {new}
  <2>1. T # {}
    BY <1>2
  <2>2. ASSUME NEW n \in T PROVE next[n] \in T
    <3>1. n \in A /\ next2[n] \in S /\ next[n] \in A
      BY <1>2 DEF Paired
    <3>2. CASE n = prev[head]
      <4>1. new \in S
        BY <3>1, <3>2
      <4>2. head \in S
        BY <4>1, <1>2
      <4> QED BY <3>2, <4>2 DEF Paired
    <3>3. CASE n # prev[head]
      BY <3>1, <3>3
    <3> QED BY <3>2, <3>3
  <2>3. T = A
    BY <2>1, <2>2 DEF OneCircle
  <2>4. prev[head] \in S
    BY <2>3 DEF Paired
  <2> QED BY <2>3, <2>4, <1>2
<1> QED BY <1>1, <1>2 DEF OneCircle

\* Without n its neighbours are each other's, and nothing else is changed.
Removed(A, next, prev, n, next2, prev2) ==
    /\ prev[n] # n => next2[prev[n]] = next[n]
    /\ \A m \in A \ {n, prev[n]} : next2[m] = next[m]
    /\ next[n] # n => prev2[next[n]] = prev[n]
    /\ \A m \in A \ {n, next[n]} : prev2[m] = prev[m]

LEMMA ListDel ==
    ASSUME NEW A, NEW next, NEW prev, Paired(A, next, prev), OneCircle(A, next),
           NEW n \in A, NEW next2, NEW prev2, Removed(A, next, prev, n, next2, prev2)
    PROVE  Paired(A \ {n}, next2, prev2) /\ OneCircle(A \ {n}, next2)
<1> USE DEF Removed
<1>1. Paired(A \ {n}, next2, prev2)
  BY DEF Paired
<1>2. ASSUME NEW S \in SUBSET (A \ {n}), S # {}, \A m \in S : next2[m] \in S
      PROVE  S = A \ {n}
  <2>1. CASE prev[n] \in S
    <3> DEFINE T == S \cup {n}
    <3>1. next[n] \in T
      BY <2>1, <1>2 DEF Paired
    <3>2. ASSUME NEW m \in S PROVE next[m] \in T
      <4>1. CASE m = prev[n]
        BY <4>1 DEF Paired
      <4>2. CASE m # prev[n]
        BY <4>2, <1>2
      <4> QED BY <4>1, <4>2
    <3>3. T \in SUBSET A /\ T # {} /\ \A m \in T : next[m] \in T
      BY <3>1, <3>2
    <3>4. T = A
      BY <3>3 DEF OneCircle
    <3> QED BY <3>4
  <2>2. CASE prev[n] \notin S
    <3>1. \A m \in S : next[m] \in S
      BY <2>2, <1>2
    <3>2. S = A
      BY <3>1, <1>2 DEF OneCircle
    <3> QED BY <3>2
  <2> QED BY <2>1, <2>2
<1> QED BY <1>1, <1>2 DEF OneCircle

HeapType(h) ==
    /\ DOMAIN h = {"alive", "ref", "next", "prev", "ids", "stray", "leaked"}
    /\ h.alive \subseteq Nodes /\ ~h.stray
    /\ DOMAIN h.ref = Nodes /\ DOMAIN h.next = Nodes /\ DOMAIN h.prev = Nodes /\ DOMAIN h.ids = Nodes

\* A node that is freed leaves the others as they were, but for its neighbours.
LEMMA FreesOne ==
    ASSUME NEW h, HeapType(h), Paired(h.alive, h.next, h.prev), NEW n \in h.alive,
           NEW g, g = Freed(list_del(h, n), n)
    PROVE  /\ HeapType(g) /\ g.alive = h.alive \ {n} /\ g.ref = h.ref
           /\ Removed(h.alive, h.next, h.prev, n, g.next, g.prev)
<1> DEFINE p == h.prev[n]
           q == h.next[n]
           N == [[h.next EXCEPT ![p] = q] EXCEPT ![n] = POISON]
           P == [[h.prev EXCEPT ![q] = p] EXCEPT ![n] = POISON]
<1>1. p \in h.alive /\ q \in h.alive /\ n \in Nodes /\ p \in Nodes /\ q \in Nodes
  BY DEF Paired, HeapType
<1>2. ~Wild(h, p) /\ ~Wild(h, q)
  BY <1>1, KeyRingAssumption DEF Wild
<1>3. g = [[h EXCEPT !.next = N, !.prev = P] EXCEPT !.alive = h.alive \ {n}]
  BY <1>2 DEF Freed, list_del
<1>4. /\ DOMAIN g = DOMAIN h /\ g.alive = h.alive \ {n} /\ g.ref = h.ref /\ g.next = N /\ g.prev = P
      /\ g.stray = h.stray /\ g.ids = h.ids
  BY <1>3 DEF HeapType
<1>5. /\ DOMAIN N = Nodes /\ DOMAIN P = Nodes
      /\ \A m \in Nodes : N[m] = IF m = n THEN POISON ELSE IF m = p THEN q ELSE h.next[m]
      /\ \A m \in Nodes : P[m] = IF m = n THEN POISON ELSE IF m = q THEN p ELSE h.prev[m]
  BY <1>1 DEF HeapType
<1> HIDE DEF N, P
<1>6. HeapType(g)
  BY <1>4, <1>5 DEF HeapType
<1>7. h.alive \subseteq Nodes
  BY DEF HeapType
<1>8. Removed(h.alive, h.next, h.prev, n, g.next, g.prev)
  BY <1>1, <1>4, <1>5, <1>7 DEF Removed
<1> QED BY <1>4, <1>6, <1>8

LEMMA PutKeepsList ==
    ASSUME NEW h, HeapType(h), Paired(h.alive, h.next, h.prev), OneCircle(h.alive, h.next),
           NEW n \in h.alive, NEW g, g = Freed(list_del(h, n), n)
    PROVE  Paired(g.alive, g.next, g.prev) /\ OneCircle(g.alive, g.next)
<1>1. g.alive = h.alive \ {n} /\ Removed(h.alive, h.next, h.prev, n, g.next, g.prev)
  BY FreesOne
<1> QED BY <1>1, ListDel

\* What becomes of the heap when a key's reference is put.
KeyPut(h, g, k) ==
    /\ HeapType(g) /\ Paired(g.alive, g.next, g.prev) /\ OneCircle(g.alive, g.next)
    /\ g.ref = [h.ref EXCEPT ![k] = @ - 1]
    /\ h.ref[k] # 1 => g.alive = h.alive /\ g.next = h.next /\ g.prev = h.prev
    /\ h.ref[k] = 1 =>
         /\ g.alive = h.alive \ {k}
         /\ Removed(h.alive, h.next, h.prev, k, g.next, g.prev)

LEMMA PutsKey ==
    ASSUME NEW h, HeapType(h), Paired(h.alive, h.next, h.prev), OneCircle(h.alive, h.next),
           NEW k \in h.alive, h.ref[k] \in Nat, NEW g, g = key_put(h, k)
    PROVE  KeyPut(h, g, k)
<1> DEFINE d == Dropped(h, k)
<1>1. /\ DOMAIN d = DOMAIN h /\ d.alive = h.alive /\ d.ref = [h.ref EXCEPT ![k] = @ - 1] /\ d.next = h.next
      /\ d.prev = h.prev /\ d.stray = h.stray /\ d.ids = h.ids
  BY DEF Dropped, HeapType
<1>2. k \in DOMAIN h.ref
  BY DEF HeapType
<1>3. d.ref[k] = h.ref[k] - 1
  BY <1>1, <1>2
<1>4. HeapType(d) /\ Paired(d.alive, d.next, d.prev) /\ OneCircle(d.alive, d.next)
  BY <1>1 DEF HeapType
<1>5. CASE h.ref[k] # 1
  <2>1. g = d
    BY <1>3, <1>5 DEF key_put
  <2> HIDE DEF d
  <2> QED BY <2>1, <1>1, <1>4, <1>5 DEF KeyPut
<1>6. CASE h.ref[k] = 1
  <2>1. g = Freed(list_del(d, k), k)
    BY <1>3, <1>6 DEF key_put
  <2> HIDE DEF d
  <2>2. Paired(g.alive, g.next, g.prev) /\ OneCircle(g.alive, g.next)
    BY <2>1, <1>1, <1>4, PutKeepsList
  <2>3. /\ HeapType(g) /\ g.alive = d.alive \ {k} /\ g.ref = d.ref
        /\ Removed(d.alive, d.next, d.prev, k, g.next, g.prev)
    BY <2>1, <1>1, <1>4, FreesOne
  <2> QED BY <2>2, <2>3, <1>1, <1>6 DEF KeyPut
<1> QED BY <1>5, <1>6

-----------------------------------------------------------------------------
LEMMA RingStarts == RingInit => RingInv
<1> SUFFICES ASSUME RingInit PROVE RingInv
  OBVIOUS
<1>1. /\ heap.alive = {} /\ walk.op = "none" /\ \A n \in Nodes : held[n] = 0
  BY DEF RingInit, NoWalk
<1>2. RingType
  BY DEF RingInit, RingType, NoWalk
<1>3. ListInv
  BY <1>1 DEF ListInv, Paired, OneCircle
<1>4. CountInv /\ WalkInv
  BY <1>1 DEF CountInv, WalkInv, Linked, Nodes
<1> QED BY <1>2, <1>3, <1>4 DEF RingInv

LEMMA HeapTyped == RingType => HeapType(heap)
BY DEF RingType, HeapType

\* Callers that change no references.
LEMMA SameRing ==
    ASSUME RingInv, heap' = heap, held' = held, walk' = walk, puts' \in {puts, puts + 1}
    PROVE  RingInv'
<1>1. RingType'
  BY DEF RingInv, RingType
<1>2. ListInv'
  BY DEF RingInv, ListInv
<1>3. CountInv' /\ WalkInv'
  BY DEF RingInv, CountInv, WalkInv, Linked
<1> QED BY <1>1, <1>2, <1>3 DEF RingInv

LEMMA RingCreated == ASSUME RingInv, NEW ok \in BOOLEAN, bp_keyring_alloc(ok) PROVE RingInv'
<1>1. CASE ~ok
  BY <1>1, SameRing DEF bp_keyring_alloc, Say, RingInv, RingType
<1>2. CASE ok
  <2>1. /\ heap' = key_alloc(heap, Ring) /\ held' = [held EXCEPT ![Ring] = 1] /\ walk' = walk /\ puts' = puts + 1
        /\ heap.alive = {} /\ walk.op = "none"
    BY <1>2 DEF bp_keyring_alloc, Say, Callable, RingInv, RingType
  <2>2. /\ DOMAIN heap' = DOMAIN heap /\ heap'.alive = {Ring} /\ heap'.ref = [heap.ref EXCEPT ![Ring] = 1]
        /\ heap'.next = [heap.next EXCEPT ![Ring] = Ring] /\ heap'.prev = [heap.prev EXCEPT ![Ring] = Ring]
        /\ heap'.stray = heap.stray /\ heap'.ids = heap.ids
    BY <2>1 DEF key_alloc, RingInv, RingType
  <2>3. /\ heap'.next[Ring] = Ring /\ heap'.prev[Ring] = Ring /\ heap'.ref[Ring] = 1 /\ held'[Ring] = 1
        /\ \A k \in KeyIds : held'[k] = 0
    BY <2>1, <2>2, KeyRingAssumption DEF RingInv, RingType, CountInv, Nodes
  <2>4. RingType'
    BY <2>1, <2>2 DEF RingInv, RingType, Nodes
  <2>5. ListInv'
    BY <2>2, <2>3 DEF ListInv, Paired, OneCircle
  <2>6. CountInv' /\ WalkInv'
    BY <2>1, <2>2, <2>3, KeyRingAssumption DEF CountInv, WalkInv, Linked
  <2> QED BY <2>4, <2>5, <2>6 DEF RingInv
<1> QED BY <1>1, <1>2

\* The new key is the last of the ring, which has a reference like the caller.
LEMMA KeyAdded ==
    ASSUME RingInv, walk.op = "none", Ring \in heap.alive, NEW k \in KeyIds \ heap.alive, NEW ids,
           heap' = list_add_tail([[key_alloc(heap, k) EXCEPT !.ref[k] = 2] EXCEPT !.ids[k] = ids], k, Ring),
           held' = [held EXCEPT ![k] = 1], walk' = walk, puts' = puts + 1
    PROVE  RingInv'
<1> DEFINE last == heap.prev[Ring]
<1>1. /\ k \in Nodes /\ Ring \in Nodes /\ k # Ring /\ last \in heap.alive /\ last \in Nodes /\ last # k
  BY KeyRingAssumption DEF RingInv, RingType, ListInv, Paired, Nodes
<1> DEFINE d == [[key_alloc(heap, k) EXCEPT !.ref[k] = 2] EXCEPT !.ids[k] = ids]
<1>2. /\ DOMAIN d = DOMAIN heap /\ d.alive = heap.alive \cup {k} /\ d.stray = heap.stray
      /\ d.ref = [heap.ref EXCEPT ![k] = 2] /\ DOMAIN d.ids = Nodes
      /\ d.next = [heap.next EXCEPT ![k] = k] /\ d.prev = [heap.prev EXCEPT ![k] = k]
  BY <1>1 DEF key_alloc, RingInv, RingType
<1>3. heap' = list_add_tail(d, k, Ring)
  OBVIOUS
<1> HIDE DEF d
<1>4. d.prev[Ring] = last
  BY <1>1, <1>2 DEF RingInv, RingType
<1>5. /\ DOMAIN heap' = DOMAIN d /\ heap'.alive = d.alive /\ heap'.stray = d.stray /\ heap'.ref = d.ref /\ heap'.ids = d.ids
      /\ heap'.next = [d.next EXCEPT ![k] = Ring, ![last] = k]
      /\ heap'.prev = [d.prev EXCEPT ![k] = last, ![Ring] = k]
  <2> DEFINE N == [d.next EXCEPT ![k] = Ring, ![last] = k]
             P == [d.prev EXCEPT ![k] = last, ![Ring] = k]
  <2>1. heap' = [d EXCEPT !.next = N, !.prev = P]
    BY <1>3, <1>4 DEF list_add_tail
  <2> HIDE DEF N, P
  <2>2. DOMAIN d = {"alive", "ref", "next", "prev", "ids", "stray", "leaked"}
    BY <1>2 DEF RingInv, RingType
  <2>3. /\ DOMAIN heap' = DOMAIN d /\ heap'.alive = d.alive /\ heap'.stray = d.stray /\ heap'.ref = d.ref
        /\ heap'.ids = d.ids /\ heap'.next = N /\ heap'.prev = P
    BY <2>1, <2>2
  <2> QED BY <2>3 DEF N, P
<1>6. RingType'
  BY <1>1, <1>2, <1>5 DEF RingInv, RingType
<1>7. ListInv'
  <2> DEFINE A == heap.alive
             next == heap.next
             prev == heap.prev
             next2 == heap'.next
             prev2 == heap'.prev
  <2>1. /\ Paired(A, next, prev) /\ OneCircle(A, next) /\ Ring \in A /\ k \notin A
        /\ next2[k] = Ring /\ next2[prev[Ring]] = k /\ (\A n \in A \ {prev[Ring]} : next2[n] = next[n])
        /\ prev2[k] = prev[Ring] /\ prev2[Ring] = k /\ (\A n \in A \ {Ring} : prev2[n] = prev[n])
    BY <1>1, <1>2, <1>5 DEF RingInv, RingType, ListInv
  <2>2. Paired(A \cup {k}, next2, prev2) /\ OneCircle(A \cup {k}, next2)
    <3> HIDE DEF A, next, prev, next2, prev2
    <3> QED BY <2>1, ListAdd
  <2> QED BY <2>2, <1>2, <1>5 DEF ListInv
<1>8. /\ \A n \in Nodes \ {k} : heap'.ref[n] = heap.ref[n] /\ held'[n] = held[n]
      /\ heap'.ref[k] = 2 /\ held'[k] = 1 /\ heap'.alive = heap.alive \cup {k}
  BY <1>1, <1>2, <1>5 DEF RingInv, RingType
<1>9. CountInv'
  <2>1. Linked' = Linked \cup {k}
    BY <1>1, <1>8 DEF Linked, Nodes
  <2> QED BY <1>1, <1>8, <2>1 DEF RingInv, CountInv, Nodes
<1>10. WalkInv'
  BY DEF RingInv, WalkInv
<1> QED BY <1>6, <1>7, <1>9, <1>10 DEF RingInv

SameLinks ==
    /\ DOMAIN heap' = DOMAIN heap /\ heap'.alive = heap.alive /\ heap'.stray = heap.stray /\ heap'.ref = heap.ref
    /\ heap'.next = heap.next /\ heap'.prev = heap.prev /\ heap'.ids = heap.ids
LEMMA OtherFields ==
    ASSUME RingInv, SameLinks, held' = held, walk' = walk, puts' = puts + 1
    PROVE  RingInv'
<1>1. RingType'
  BY DEF SameLinks, RingInv, RingType
<1>2. ListInv'
  BY DEF SameLinks, RingInv, ListInv
<1>3. CountInv' /\ WalkInv'
  BY DEF SameLinks, RingInv, CountInv, WalkInv, Linked
<1> QED BY <1>1, <1>2, <1>3 DEF RingInv

LEMMA KeyCreated ==
    ASSUME RingInv, NEW k \in KeyIds, NEW ids, NEW how \in {"no key", "bad certificate", "no description", "ok"},
           bp_key_create_or_update(k, ids, how)
    PROVE  RingInv'
<1>1. /\ walk.op = "none" /\ Ring \in heap.alive /\ k \notin heap.alive /\ walk' = walk /\ puts' = puts + 1
  BY DEF bp_key_create_or_update, Callable, Say
<1>2. CASE how = "ok"
  <2>1. /\ heap' = list_add_tail([[key_alloc(heap, k) EXCEPT !.ref[k] = 2] EXCEPT !.ids[k] = ids], k, Ring)
        /\ held' = [held EXCEPT ![k] = 1]
    BY <1>2 DEF bp_key_create_or_update
  <2> QED BY <1>1, <2>1, KeyAdded
<1>3. CASE how = "no description"
  <2>1. heap' = [heap EXCEPT !.leaked = 1] /\ held' = held
    BY <1>3 DEF bp_key_create_or_update
  <2>2. SameLinks
    BY <2>1 DEF RingInv, RingType, SameLinks
  <2> QED BY <1>1, <2>1, <2>2, OtherFields
<1>4. CASE how \in {"no key", "bad certificate"}
  <2>1. heap' = heap /\ held' = held
    BY <1>4 DEF bp_key_create_or_update
  <2> QED BY <1>1, <2>1, SameRing DEF RingInv, RingType
<1> QED BY <1>2, <1>3, <1>4

\* A search holds nothing, and ends with a reference to a key of the ring.
LEMMA SearchSteps ==
    ASSUME RingInv, (\E i, j \in CertIds \cup {NoId} : find_asymmetric_key(i, j)) \/ FindNext \/ Found \/ NotFound
    PROVE  RingInv'
<1>1. CASE \E i, j \in CertIds \cup {NoId} : find_asymmetric_key(i, j)
  <2>1. /\ heap' = heap /\ held' = held /\ puts' = puts + 1 /\ walk.op = "none" /\ Ring \in heap.alive
        /\ DOMAIN walk' = {"op", "at", "ids"} /\ walk'.op = "find" /\ walk'.at = heap.next[Ring]
    BY <1>1 DEF find_asymmetric_key, Say, Callable
  <2>2. RingType' /\ ListInv'
    BY <2>1 DEF RingInv, RingType, ListInv
  <2>3. CountInv' /\ WalkInv'
    BY <2>1 DEF RingInv, ListInv, Paired, CountInv, WalkInv, Linked
  <2> QED BY <2>2, <2>3 DEF RingInv
<1>2. CASE FindNext
  <2>1. /\ heap' = heap /\ held' = held /\ puts' = puts /\ walk.op = "find" /\ walk.at \in heap.alive
        /\ DOMAIN walk' = {"op", "at", "ids"} /\ walk'.op = "find" /\ walk'.at = heap.next[walk.at]
    BY <1>2 DEF FindNext, RingInv, RingType, WalkInv
  <2>2. RingType' /\ ListInv'
    BY <2>1 DEF RingInv, RingType, ListInv
  <2>3. CountInv' /\ WalkInv'
    BY <2>1 DEF RingInv, ListInv, Paired, CountInv, WalkInv, Linked
  <2> QED BY <2>2, <2>3 DEF RingInv
<1>3. CASE Found
  <2>1. PICK k : k = walk.at
    OBVIOUS
  <2>2. /\ k \in heap.alive /\ k \in KeyIds /\ k # Ring /\ walk.op = "find" /\ k \in Nodes
    BY <1>3, <2>1, KeyRingAssumption DEF Found, RingInv, RingType, WalkInv, Nodes
  <2>3. /\ DOMAIN heap' = DOMAIN heap /\ heap'.alive = heap.alive /\ heap'.stray = heap.stray
        /\ heap'.ref = [heap.ref EXCEPT ![k] = @ + 1]
        /\ heap'.next = heap.next /\ heap'.prev = heap.prev /\ heap'.ids = heap.ids
        /\ held' = [held EXCEPT ![k] = @ + 1] /\ puts' = puts
        /\ DOMAIN walk' = {"op", "at", "ids"} /\ walk'.op = "none"
    BY <1>3, <2>1 DEF Found, NoWalk, RingInv, RingType
  <2>4. RingType'
    BY <2>2, <2>3 DEF RingInv, RingType
  <2>5. ListInv'
    BY <2>3 DEF RingInv, ListInv
  <2>6. /\ \A n \in Nodes \ {k} : heap'.ref[n] = heap.ref[n] /\ held'[n] = held[n]
        /\ heap'.ref[k] = heap.ref[k] + 1 /\ held'[k] = held[k] + 1
    BY <2>2, <2>3 DEF RingInv, RingType
  <2>7. Ring \in heap.alive /\ \A n \in Nodes : held[n] \in Nat
    BY <2>2 DEF RingInv, CountInv, RingType
  <2>8. Linked' = Linked
    BY <2>2, <2>3, <2>6, <2>7 DEF Linked, Nodes, RingInv, CountInv
  <2>9. CountInv' /\ WalkInv'
    BY <2>2, <2>3, <2>6, <2>7, <2>8 DEF RingInv, CountInv, WalkInv, Nodes
  <2> QED BY <2>4, <2>5, <2>9 DEF RingInv
<1>4. CASE NotFound
  <2>1. /\ heap' = heap /\ held' = held /\ puts' = puts /\ walk.op = "find"
        /\ DOMAIN walk' = {"op", "at", "ids"} /\ walk'.op = "none"
    BY <1>4 DEF NotFound, NoWalk
  <2>2. RingType' /\ ListInv'
    BY <2>1 DEF RingInv, RingType, ListInv
  <2>3. CountInv' /\ WalkInv'
    BY <2>1 DEF RingInv, CountInv, WalkInv, Linked
  <2> QED BY <2>2, <2>3 DEF RingInv
<1> QED BY <1>1, <1>2, <1>3, <1>4

LEMMA KeyPutTyped ==
    ASSUME NEW h, HeapType(h), NEW k \in h.alive, NEW g, KeyPut(h, g, k)
    PROVE  /\ \A n \in Nodes \ {k} : g.ref[n] = h.ref[n]
           /\ g.ref[k] = h.ref[k] - 1 /\ k \in Nodes
BY DEF KeyPut, HeapType

\* A key that was only the caller's is freed: its ring is gone.
LEMMA KeyGivenBack ==
    ASSUME RingInv, walk.op = "none", NEW k \in KeyIds, held[k] > 0, heap' = key_put(heap, k),
           held' = [held EXCEPT ![k] = @ - 1], walk' = walk, puts' = puts + 1
    PROVE  RingInv'
<1>1. /\ k \in heap.alive /\ k \in Nodes /\ k # Ring /\ held[k] \in Nat /\ heap.ref[k] \in {held[k], held[k] + 1}
      /\ heap.ref[k] \in Nat
  BY KeyRingAssumption DEF RingInv, CountInv, RingType, Nodes
<1>2. KeyPut(heap, heap', k)
  BY <1>1, HeapTyped, PutsKey DEF RingInv, ListInv
<1>3. RingType'
  BY <1>1, <1>2 DEF KeyPut, HeapType, RingInv, RingType
<1>4. ListInv'
  BY <1>2 DEF KeyPut, ListInv
<1>5. /\ \A n \in Nodes \ {k} : heap'.ref[n] = heap.ref[n] /\ held'[n] = held[n]
      /\ heap'.ref[k] = heap.ref[k] - 1 /\ held'[k] = held[k] - 1
  BY <1>1, <1>2, HeapTyped, KeyPutTyped DEF RingInv, RingType
<1>6. CASE heap.ref[k] # 1
  <2>1. heap'.alive = heap.alive
    BY <1>2, <1>6 DEF KeyPut
  <2>2. Linked' = Linked
    BY <1>1, <1>5, <2>1 DEF Linked, Nodes
  <2>3. CountInv'
    BY <1>1, <1>5, <1>6, <2>1, <2>2 DEF RingInv, CountInv, Nodes
  <2>4. WalkInv'
    BY DEF WalkInv
  <2> QED BY <1>3, <1>4, <2>3, <2>4 DEF RingInv
<1>7. CASE heap.ref[k] = 1
  <2>1. heap'.alive = heap.alive \ {k}
    BY <1>2, <1>7 DEF KeyPut
  <2>2. held[k] = 1 /\ k \notin Linked
    BY <1>1, <1>7 DEF Linked
  <2>3. Ring \notin heap.alive
    BY <1>1, <2>2 DEF RingInv, CountInv
  <2>4. Linked' = {}
    BY <1>5, <2>1, <2>3 DEF Linked, RingInv, CountInv, Nodes
  <2>5. CountInv'
    BY <1>1, <1>5, <2>1, <2>2, <2>3, <2>4 DEF RingInv, CountInv, Nodes
  <2>6. WalkInv'
    BY DEF WalkInv
  <2> QED BY <1>3, <1>4, <2>5, <2>6 DEF RingInv
<1> QED BY <1>6, <1>7

\* The ring's last reference is gone: the loop has all its keys before it.
LEMMA ClearBegins ==
    ASSUME RingInv, walk.op = "none", held[Ring] > 0, heap' = Dropped(heap, Ring),
           held' = [held EXCEPT ![Ring] = @ - 1], walk' = keyring_clear(heap), puts' = puts + 1
    PROVE  RingInv'
<1>1. /\ Ring \in heap.alive /\ Ring \in Nodes /\ heap.ref[Ring] = 1 /\ held[Ring] = 1 /\ Linked = heap.alive \cap KeyIds
      /\ Linked = heap.alive \ {Ring} /\ Ring \notin KeyIds
  BY KeyRingAssumption DEF RingInv, CountInv, RingType, Nodes
<1>2. /\ DOMAIN heap' = DOMAIN heap /\ heap'.alive = heap.alive /\ heap'.stray = heap.stray
      /\ heap'.ref = [heap.ref EXCEPT ![Ring] = @ - 1]
      /\ heap'.next = heap.next /\ heap'.prev = heap.prev /\ heap'.ids = heap.ids
  BY DEF Dropped, RingInv, RingType
<1>3. /\ DOMAIN walk' = {"op", "at", "ids"} /\ walk'.op = "clear" /\ walk'.at = heap.next[Ring]
  BY DEF keyring_clear, NoWalk
<1>4. RingType'
  BY <1>1, <1>2, <1>3 DEF RingInv, RingType
<1>5. ListInv'
  BY <1>2 DEF RingInv, ListInv
<1>6. /\ \A n \in Nodes \ {Ring} : heap'.ref[n] = heap.ref[n] /\ held'[n] = held[n]
      /\ heap'.ref[Ring] = 0 /\ held'[Ring] = 0
  BY <1>1, <1>2 DEF RingInv, RingType
<1>7. Linked' = Linked
  BY <1>1, <1>2, <1>6 DEF Linked, Nodes
<1>8. CountInv'
  BY <1>1, <1>2, <1>3, <1>6 DEF RingInv, CountInv, Nodes
<1>9. Paired(heap.alive, heap.next, heap.prev)
  BY DEF RingInv, ListInv
<1>10. ASSUME NEW S \in SUBSET heap.alive, heap.next[Ring] \in S, \A n \in S \ {Ring} : heap.next[n] \in S
       PROVE  Linked \subseteq S
  <2>1. S # {} /\ \A n \in S : heap.next[n] \in S
    BY <1>10
  <2>2. S = heap.alive
    BY <2>1 DEF RingInv, ListInv, OneCircle
  <2> QED BY <2>2, <1>1
<1>11. /\ heap.next[Ring] \in Linked \cup {Ring} /\ heap.prev[heap.next[Ring]] \notin Linked
       /\ \A n \in Linked : heap.next[n] \in Linked \cup {Ring}
  BY <1>1, <1>9 DEF Paired
<1>12. WalkInv'
  BY <1>2, <1>3, <1>7, <1>10, <1>11 DEF WalkInv
<1> QED BY <1>4, <1>5, <1>8, <1>12 DEF RingInv

\* A key is put: it is freed unless a caller holds it, and the loop goes on with the next.
LEMMA KeyCleared == ASSUME RingInv, PutNext PROVE RingInv'
<1>1. PICK k : k = walk.at
  OBVIOUS
<1>2. /\ walk.op = "clear" /\ k # Ring /\ k \in Linked /\ k \in heap.alive /\ k \in KeyIds /\ k \in Nodes
      /\ heap.prev[k] \notin Linked /\ heap.ref[k] = held[k] + 1 /\ held[k] \in Nat /\ heap.ref[k] \in Nat
      /\ Ring \in heap.alive
  BY <1>1 DEF PutNext, RingInv, WalkInv, Linked, RingType, CountInv
<1>3. ~Wild(heap, k)
  BY <1>2, KeyRingAssumption DEF Wild
<1>4. /\ heap' = key_put(heap, k) /\ held' = held /\ puts' = puts
      /\ DOMAIN walk' = {"op", "at", "ids"} /\ walk'.op = "clear" /\ walk'.at = heap.next[k]
  BY <1>1, <1>2, <1>3 DEF PutNext, RingInv, RingType
<1>5. KeyPut(heap, heap', k)
  BY <1>2, <1>4, HeapTyped, PutsKey DEF RingInv, ListInv
<1>6. RingType'
  BY <1>2, <1>4, <1>5 DEF KeyPut, HeapType, RingInv, RingType
<1>7. ListInv'
  BY <1>5 DEF KeyPut, ListInv
<1>8. (\A n \in Nodes \ {k} : heap'.ref[n] = heap.ref[n]) /\ heap'.ref[k] = heap.ref[k] - 1
  BY <1>2, <1>5, HeapTyped, KeyPutTyped DEF RingInv
<1>9. /\ held[k] = 0 => heap'.alive = heap.alive \ {k} /\ Removed(heap.alive, heap.next, heap.prev, k, heap'.next, heap'.prev)
      /\ held[k] # 0 => heap'.alive = heap.alive /\ heap'.next = heap.next /\ heap'.prev = heap.prev
  <2>1. (held[k] = 0 => heap.ref[k] = 1) /\ (held[k] # 0 => heap.ref[k] # 1)
    BY <1>2
  <2> QED BY <2>1, <1>5 DEF KeyPut
<1>10. Linked' = Linked \ {k}
  <2>1. heap'.ref[k] = held[k] /\ held'[k] = held[k] /\ held[k] # held[k] + 1
    BY <1>2, <1>4, <1>8
  <2>2. \A n \in KeyIds \ {k} : (n \in heap'.alive <=> n \in heap.alive) /\ heap'.ref[n] = heap.ref[n] /\ held'[n] = held[n]
    BY <1>4, <1>8, <1>9 DEF Nodes
  <2> QED BY <1>4, <2>1, <2>2 DEF Linked
<1>11. CountInv'
  <2>1. \A n \in KeyIds \ {k} : (n \in heap'.alive <=> n \in heap.alive) /\ heap'.ref[n] = heap.ref[n] /\ held'[n] = held[n]
    BY <1>4, <1>8, <1>9 DEF Nodes
  <2>2. /\ k \in heap'.alive <=> held[k] # 0
        /\ heap'.ref[k] = held[k] /\ held'[k] = held[k]
    <3>1. heap'.ref[k] = held[k] /\ held'[k] = held[k]
      BY <1>2, <1>4, <1>8
    <3>2. k \in heap'.alive <=> held[k] # 0
      BY <1>2, <1>9
    <3> QED BY <3>1, <3>2
  <2>3. /\ \A n \in KeyIds \ heap'.alive : held'[n] = 0
        /\ \A n \in KeyIds \cap heap'.alive : heap'.ref[n] \in {held'[n], held'[n] + 1} /\ heap'.ref[n] > 0
    BY <1>2, <2>1, <2>2 DEF RingInv, CountInv
  <2>4. /\ Ring \in heap'.alive /\ heap'.ref[Ring] = heap.ref[Ring] /\ held'[Ring] = held[Ring]
        /\ heap.ref[Ring] = held[Ring] /\ held[Ring] = 0
    BY <1>2, <1>4, <1>8, <1>9 DEF RingInv, CountInv, Nodes
  <2> QED BY <1>4, <2>3, <2>4 DEF CountInv
<1>12. /\ Paired(heap.alive, heap.next, heap.prev) /\ OneCircle(heap.alive, heap.next)
       /\ \A n \in Linked : heap.next[n] \in Linked \cup {Ring}
       /\ \A S \in SUBSET heap.alive : k \in S /\ (\A n \in S \ {Ring} : heap.next[n] \in S) => Linked \subseteq S
  BY <1>1, <1>2 DEF RingInv, ListInv, WalkInv
<1>13. heap.next[k] # k /\ heap.prev[k] # k /\ heap.next[k] \in heap.alive /\ heap.prev[heap.next[k]] = k
  BY <1>2, <1>12 DEF Paired
\* The links that the loop still follows are the old ones.
<1>14. /\ \A n \in heap.alive \ {k, heap.prev[k]} : heap'.next[n] = heap.next[n]
       /\ heap'.prev[heap.next[k]] \in {k, heap.prev[k]}
  <2>1. CASE held[k] = 0
    BY <2>1, <1>9, <1>13 DEF Removed
  <2>2. CASE held[k] # 0
    BY <2>2, <1>9, <1>13
  <2> QED BY <2>1, <2>2
<1>15. /\ heap.next[k] \in Linked' \cup {Ring} /\ heap'.prev[heap.next[k]] \notin Linked'
       /\ \A n \in Linked' : heap'.next[n] \in Linked' \cup {Ring}
  <2>1. \A n \in Linked : n \in heap.alive
    BY DEF Linked
  <2>2. ASSUME NEW n \in Linked \ {k} PROVE heap'.next[n] = heap.next[n] /\ heap.next[n] # k
    <3>1. n \in heap.alive /\ n # heap.prev[k]
      BY <1>2, <2>1
    <3>2. heap.next[n] # k
      BY <1>12, <3>1 DEF Paired
    <3> QED BY <1>14, <3>1, <3>2
  <2>3. heap'.prev[heap.next[k]] \notin Linked \ {k}
    BY <1>2, <1>14
  <2>4. heap.next[k] \in Linked \cup {Ring} /\ heap.next[k] # k
    BY <1>2, <1>12, <1>13
  <2>5. \A n \in Linked \ {k} : heap'.next[n] \in (Linked \ {k}) \cup {Ring}
    BY <1>12, <2>2
  <2> QED BY <1>10, <2>3, <2>4, <2>5
<1>16. ASSUME NEW S \in SUBSET heap'.alive, heap.next[k] \in S, \A n \in S \ {Ring} : heap'.next[n] \in S
       PROVE  Linked' \subseteq S
  <2> DEFINE T == S \cup {k}
  <2>1. T \in SUBSET heap.alive /\ k \in T
    BY <1>2, <1>9
  <2>2. ASSUME NEW n \in T \ {Ring} PROVE heap.next[n] \in T
    <3>1. CASE n = k
      BY <3>1, <1>16
    <3>2. CASE n = heap.prev[k]
      BY <3>2, <1>2, <1>12 DEF Paired
    <3>3. CASE n \notin {k, heap.prev[k]}
      BY <3>3, <2>1, <1>14, <1>16
    <3> QED BY <3>1, <3>2, <3>3
  <2>3. Linked \subseteq T
    BY <2>1, <2>2, <1>12
  <2> QED BY <2>3, <1>10
<1>17. WalkInv'
  BY <1>4, <1>15, <1>16 DEF WalkInv
<1> QED BY <1>6, <1>7, <1>11, <1>17 DEF RingInv

\* At the end of the loop no key is linked any more, and the head leaves the list.
LEMMA HeadFreed == ASSUME RingInv, RingFreed PROVE RingInv'
<1>1. /\ walk.op = "clear" /\ walk.at = Ring /\ Ring \in heap.alive /\ held' = held /\ puts' = puts
      /\ heap' = Freed(list_del(heap, Ring), Ring) /\ DOMAIN walk' = {"op", "at", "ids"} /\ walk'.op = "none"
      /\ held[Ring] = 0
  BY DEF RingFreed, NoWalk, RingInv, CountInv
<1>2. Linked = {}
  <2>1. {Ring} \in SUBSET heap.alive /\ Ring \in {Ring} /\ \A n \in {Ring} \ {Ring} : heap.next[n] \in {Ring}
    BY <1>1
  <2>2. Linked \subseteq {Ring}
    BY <1>1, <2>1 DEF RingInv, WalkInv
  <2> QED BY <2>2, KeyRingAssumption DEF Linked
<1>3. /\ HeapType(heap') /\ heap'.alive = heap.alive \ {Ring} /\ heap'.ref = heap.ref
  BY <1>1, HeapTyped, FreesOne DEF RingInv, ListInv
<1>4. Paired(heap'.alive, heap'.next, heap'.prev) /\ OneCircle(heap'.alive, heap'.next)
  BY <1>1, HeapTyped, PutKeepsList DEF RingInv, ListInv
<1>5. RingType'
  BY <1>1, <1>3 DEF HeapType, RingInv, RingType
<1>6. ListInv'
  BY <1>4 DEF ListInv
<1>7. Linked' = {}
  BY <1>1, <1>2, <1>3 DEF Linked
<1>8. CountInv' /\ WalkInv'
  BY <1>1, <1>2, <1>3, <1>7, KeyRingAssumption DEF RingInv, CountInv, WalkInv
<1> QED BY <1>5, <1>6, <1>8 DEF RingInv

LEMMA RingSteps == RingInv /\ [RingNext]_ringVars => RingInv'
<1> SUFFICES ASSUME RingInv, [RingNext]_ringVars PROVE RingInv'
  OBVIOUS
<1>1. CASE UNCHANGED ringVars
  BY <1>1, SameRing DEF ringVars, RingInv, RingType
<1>2. ASSUME NEW ok \in BOOLEAN, bp_keyring_alloc(ok) PROVE RingInv'
  BY <1>2, RingCreated
<1>3. ASSUME NEW k \in KeyIds, NEW i \in CertIds \cup {NoId}, NEW j \in CertIds \cup {NoId},
             NEW how \in {"no key", "bad certificate", "no description", "ok"},
             bp_key_create_or_update(k, <<i, j>>, how)
      PROVE  RingInv'
  BY <1>3, KeyCreated
<1>4. CASE (\E i, j \in CertIds \cup {NoId} : find_asymmetric_key(i, j)) \/ FindNext \/ Found \/ NotFound
  BY <1>4, SearchSteps
<1>5. ASSUME NEW n \in Nodes, put(n) PROVE RingInv'
  <2>1. walk.op = "none" /\ held[n] > 0 /\ held' = [held EXCEPT ![n] = @ - 1] /\ puts' = puts + 1
    BY <1>5 DEF put, Callable, Say
  <2>2. CASE n = Ring
    <3>1. heap.ref[Ring] = 1
      BY <2>1, <2>2 DEF RingInv, CountInv
    <3>2. heap' = Dropped(heap, Ring) /\ walk' = keyring_clear(heap)
      BY <1>5, <2>2, <3>1 DEF put
    <3> QED BY <2>1, <2>2, <3>2, ClearBegins
  <2>3. CASE n # Ring
    <3>1. heap' = key_put(heap, n) /\ walk' = walk /\ n \in KeyIds
      BY <1>5, <2>3 DEF put, Nodes
    <3> QED BY <2>1, <3>1, KeyGivenBack
  <2> QED BY <2>2, <2>3
<1>6. CASE PutNext
  BY <1>6, KeyCleared
<1>7. CASE RingFreed
  BY <1>7, HeadFreed
<1>8. ASSUME NEW k \in KeyIds, NEW sig, NEW nlen, NEW alloc, public_key_verify_signature(k, sig, nlen, alloc)
      PROVE  RingInv'
  BY <1>8, SameRing DEF public_key_verify_signature, Say
<1>9. ASSUME NEW data, NEW stop, NEW view, verify_pkcs7_signature(data, stop, view) PROVE RingInv'
  BY <1>9, SameRing DEF verify_pkcs7_signature, Say
<1> QED BY <1>1, <1>2, <1>3, <1>4, <1>5, <1>6, <1>7, <1>8, <1>9 DEF RingNext

LEMMA RingSafe == RingInv => KeysOutliveTheRing
<1> SUFFICES ASSUME RingInv PROVE KeysOutliveTheRing
  OBVIOUS
<1>1. ~heap.stray /\ \A n \in heap.alive : heap.next[n] \in heap.alive /\ heap.prev[heap.next[n]] = n
  BY DEF RingInv, RingType, ListInv, Paired
<1>2. \A k \in KeyIds : held[k] \in Nat /\ (held[k] > 0 => k \in heap.alive /\ heap.ref[k] >= held[k])
  BY DEF RingInv, RingType, CountInv, Nodes
<1>3. ASSUME Ring \in heap.alive, NEW k \in KeyIds PROVE Reached(k) <=> k \in heap.alive
  <2>1. heap.alive \in SUBSET Nodes /\ \A n \in heap.alive : heap.next[n] \in heap.alive
    BY <1>1 DEF RingInv, RingType
  <2>2. ASSUME NEW S \in SUBSET Nodes, Ring \in S, \A n \in S : heap.next[n] \in S PROVE heap.alive \subseteq S
    <3>1. S \cap heap.alive \in SUBSET heap.alive /\ S \cap heap.alive # {}
      BY <1>3, <2>2
    <3>2. \A n \in S \cap heap.alive : heap.next[n] \in S \cap heap.alive
      BY <2>1, <2>2
    <3>3. S \cap heap.alive = heap.alive
      BY <3>1, <3>2 DEF RingInv, ListInv, OneCircle
    <3> QED BY <3>3
  <2> QED BY <1>3, <2>1, <2>2 DEF Reached
<1>4. ASSUME walk.op = "none", NEW k \in KeyIds
      PROVE  LET linked == Ring \in heap.alive /\ Reached(k)
             IN  /\ k \in heap.alive <=> held[k] > 0 \/ linked
                 /\ k \in heap.alive => heap.ref[k] = held[k] + IF linked THEN 1 ELSE 0
  <2>1. /\ k \notin heap.alive => held[k] = 0
        /\ k \in heap.alive => heap.ref[k] \in {held[k], held[k] + 1} /\ heap.ref[k] > 0
        /\ Ring \in heap.alive /\ k \in heap.alive => heap.ref[k] = held[k] + 1
        /\ Ring \notin heap.alive /\ k \in heap.alive => heap.ref[k] # held[k] + 1
    BY <1>4 DEF RingInv, CountInv, Linked
  <2>2. CASE Ring \in heap.alive
    BY <1>2, <1>3, <2>1, <2>2
  <2>3. CASE Ring \notin heap.alive
    BY <1>2, <2>1, <2>3
  <2> QED BY <2>2, <2>3
<1> QED BY <1>1, <1>2, <1>4 DEF KeysOutliveTheRing

(* For any keys, identifiers and number of references, and any order of      *)
(* calls: a ring that goes puts each of its keys once, a key that a caller   *)
(* still holds stays, in a list that is whole, and goes with its last        *)
(* reference, and nothing is written through a freed node (key.c).           *)
THEOREM KeysHeld == RingSpec => []KeysOutliveTheRing
<1>1. RingInv /\ [RingNext]_ringVars => RingInv'
  BY RingSteps
<1> QED BY <1>1, RingStarts, RingSafe, PTL DEF RingSpec
=============================================================================
