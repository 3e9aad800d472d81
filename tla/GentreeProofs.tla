--------------------------- MODULE GentreeProofs ---------------------------
(***************************************************************************)
(* For any source trees: the Kconfig files of the output of gentree.py are *)
(* closed (NothingDangles), and they agree with its Makefiles              *)
(* (BuildsWhatItOffers).                                                   *)
(***************************************************************************)
EXTENDS Gentree, FiniteSetTheorems, SequenceTheorems, WellFoundedInduction, TLAPS

\* Induction over a set of numbers.
LEMMA Inductive ==
    ASSUME NEW T, 0 \in T, \A k \in Nat : k \in T => k + 1 \in T
    PROVE  Nat \subseteq T
<1> SUFFICES ASSUME ~(Nat \subseteq T) PROVE FALSE
  OBVIOUS
<1> DEFINE S == Nat \ T
<1>1. S \subseteq Nat /\ S # {}
  OBVIOUS
<1>2. PICK m \in S : \A j \in S : <<j, m>> \notin OpToRel(<, Nat)
  <2> HIDE DEF S
  <2> QED BY <1>1, NatLessThanWellFounded, WFMin
<1>3. \A j \in S : ~(j < m)
  BY <1>1, <1>2 DEF OpToRel
<1>4. m \in Nat /\ m # 0 /\ m - 1 \in Nat /\ m - 1 < m
  BY <1>1
<1>5. m - 1 \in T
  BY <1>3, <1>4
<1>6. m - 1 + 1 \in T
  BY <1>4, <1>5
<1> QED BY <1>4, <1>6

\* A recursive function over 0 .. n is given by a first value and a step.
Follows(f, n, first, step) == f[0] = first /\ \A k \in 0 .. n - 1 : f[k + 1] = step[k][f[k]]
LEMMA Recursion ==
    ASSUME NEW V, NEW first \in V, NEW n \in Nat, NEW step \in [0 .. n - 1 -> [V -> V]]
    PROVE  \E f \in [0 .. n -> V] : Follows(f, n, first, step)
<1> DEFINE Good(m, g) == g[0] = first /\ \A k \in 0 .. m - 1 : g[k + 1] = step[k][g[k]]
           T == {m \in Nat : m <= n => \E g \in [0 .. m -> V] : Good(m, g)}
<1>1. 0 \in T
  <2> DEFINE g == [k \in 0 .. 0 |-> first]
  <2>1. g \in [0 .. 0 -> V] /\ Good(0, g)
    OBVIOUS
  <2> QED BY <2>1
<1>2. ASSUME NEW m \in Nat, m \in T PROVE m + 1 \in T
  <2> SUFFICES ASSUME m + 1 <= n PROVE \E g \in [0 .. m + 1 -> V] : Good(m + 1, g)
    OBVIOUS
  <2>1. PICK g \in [0 .. m -> V] : Good(m, g)
    BY <1>2
  <2> DEFINE h == [k \in 0 .. m + 1 |-> IF k = m + 1 THEN step[m][g[m]] ELSE g[k]]
  <2>2. step[m][g[m]] \in V
    BY <2>1
  <2>3. h \in [0 .. m + 1 -> V]
    BY <2>1, <2>2
  <2>4. h[0] = first
    BY <2>1
  <2>5. ASSUME NEW k \in 0 .. m PROVE h[k + 1] = step[k][h[k]]
    <3>1. h[k] = g[k]
      OBVIOUS
    <3>2. CASE k = m
      <4>1. h[m + 1] = step[m][g[m]]
        OBVIOUS
      <4> HIDE DEF h
      <4> QED BY <3>1, <3>2, <4>1
    <3>3. CASE k \in 0 .. m - 1
      <4>1. h[k + 1] = g[k + 1]
        BY <3>3
      <4> QED BY <2>1, <3>1, <3>3, <4>1
    <3> QED BY <3>2, <3>3
  <2> HIDE DEF h
  <2>6. Good(m + 1, h)
    BY <2>4, <2>5
  <2> QED BY <2>3, <2>6
<1>3. Nat \subseteq T
  <2> HIDE DEF T
  <2> QED BY <1>1, <1>2, Inductive
<1>4. n \in T
  BY <1>3
<1> QED BY <1>4 DEF Follows

\* The recursive function that joins sequences.
Joins(ss, f) == f = [i \in 1 .. Len(ss) |-> IF i = 1 THEN ss[i] ELSE f[i - 1] \o ss[i]]
\* The joined sequences, one by one.
Joining(ss, n, f) == f[0] = <<>> /\ \A i, k \in 0 .. n : i = k + 1 => f[i] = f[k] \o ss[i]
LEMMA Joined ==
    ASSUME NEW V, NEW ss \in Seq(Seq(V)), NEW n, n = Len(ss)
    PROVE  \E f \in [0 .. n -> Seq(V)] : Joining(ss, n, f) /\ FlattenSeq(ss) = f[n]
<1> DEFINE step == [k \in 0 .. n - 1 |-> [v \in Seq(V) |-> v \o ss[k + 1]]]
<1>1. /\ n \in Nat /\ <<>> \in Seq(V)
      /\ \A i \in 1 .. n : ss[i] \in Seq(V)
      /\ \A k \in 0 .. n - 1, v \in Seq(V) : step[k][v] = v \o ss[k + 1]
      /\ step \in [0 .. n - 1 -> [Seq(V) -> Seq(V)]]
  OBVIOUS
<1> HIDE DEF step
<1>2. PICK f \in [0 .. n -> Seq(V)] : Follows(f, n, <<>>, step)
  BY <1>1, Recursion, Zenon
<1>3. ASSUME NEW i \in 0 .. n, NEW k \in 0 .. n, i = k + 1 PROVE f[i] = f[k] \o ss[i]
  <2>0. k \in 0 .. n - 1
    BY <1>1, <1>3
  <2>1. k \in 0 .. n - 1 /\ f[k] \in Seq(V)
    BY <1>2, <2>0
  <2>2. f[k + 1] = step[k][f[k]]
    BY <1>2, <2>1 DEF Follows
  <2>3. step[k][f[k]] = f[k] \o ss[k + 1]
    BY <1>1, <2>1
  <2> QED BY <1>3, <2>1, <2>2, <2>3
<1>4. f[0] = <<>>
  BY <1>2 DEF Follows
<1>7. Joining(ss, n, f)
  BY <1>3, <1>4 DEF Joining
<1>5. CASE n = 0
  <2>0. Len(ss) = 0 /\ ss = <<>>
    <3>1. ss # <<>> => Len(ss) \in Nat \ {0}
      BY EmptySeq, Zenon
    <3> QED BY <1>5, <3>1
  <2>1. FlattenSeq(ss) = <<>>
    BY ONLY <2>0 DEF FlattenSeq
  <2> QED BY <1>7, <1>4, <1>5, <2>1
<1>6. CASE n # 0
  <2> DEFINE join == CHOOSE g : Joins(ss, g)
  <2>0. n = Len(ss)
    OBVIOUS
  <2>1. FlattenSeq(ss) = join[n]
    BY <1>6, <2>0 DEF FlattenSeq, Joins
  <2>2. \E g : Joins(ss, g)
    <3> DEFINE g == [i \in 1 .. n |-> f[i]]
    <3>1. ASSUME NEW i \in 1 .. n PROVE f[i] = IF i = 1 THEN ss[i] ELSE g[i - 1] \o ss[i]
      <4>1. i \in 0 .. n /\ i - 1 \in 0 .. n /\ i = i - 1 + 1 /\ ss[i] \in Seq(V)
        BY <1>1
      <4>2. f[i] = f[i - 1] \o ss[i]
        BY <1>3, <4>1
      <4>3. CASE i = 1
        <5>0. i - 1 = 0
          BY <4>3
        <5>1. f[i] = <<>> \o ss[i]
          BY <1>4, <4>2, <5>0
        <5>2. <<>> \o ss[i] = ss[i]
          BY <4>1
        <5> QED BY <4>3, <5>1, <5>2
      <4>4. CASE i # 1
        <5>1. i - 1 \in 1 .. n
          BY <1>1, <4>4
        <5>2. g[i - 1] = f[i - 1]
          BY <5>1
        <5> QED BY <4>2, <4>4, <5>2
      <4> QED BY <4>3, <4>4
    <3>2. Joins(ss, g)
      BY <2>0, <3>1 DEF Joins
    <3> QED BY <3>2
  <2>3. Joins(ss, join)
    BY <2>2
  <2> HIDE DEF join
  <2>4. \A i \in 1 .. n : join[i] = IF i = 1 THEN ss[i] ELSE join[i - 1] \o ss[i]
    BY <2>0, <2>3, Zenon DEF Joins
  <2> DEFINE T == {k \in Nat : k + 1 <= n => join[k + 1] = f[k + 1]}
  <2>5. Nat \subseteq T
    <3>1. 0 \in T
      <4>1. n \in Nat /\ 1 \in 1 .. n /\ 1 \in 0 .. n /\ 0 \in 0 .. n /\ 1 = 0 + 1 /\ ss[1] \in Seq(V)
        BY <1>1, <1>6
      <4>2. join[1] = ss[1]
        BY <2>4, <4>1
      <4>3. f[1] = <<>> \o ss[1]
        BY <1>3, <1>4, <4>1
      <4>4. f[1] = ss[1]
        BY <4>1, <4>3
      <4> QED BY <4>2, <4>4
    <3>2. ASSUME NEW k \in Nat, k \in T PROVE k + 1 \in T
      <4> SUFFICES ASSUME k + 1 + 1 <= n PROVE join[k + 1 + 1] = f[k + 1 + 1]
        OBVIOUS
      <4>1. k + 1 + 1 \in 1 .. n /\ k + 1 + 1 \in 0 .. n /\ k + 1 \in 0 .. n /\ k + 1 + 1 # 1 /\ k + 1 + 1 - 1 = k + 1 /\ join[k + 1] = f[k + 1]
        BY <1>1, <3>2
      <4> DEFINE i == k + 1 + 1
                 j == k + 1
      <4>0. i \in 1 .. n /\ i \in 0 .. n /\ j \in 0 .. n /\ i = j + 1 /\ i # 1 /\ i - 1 = j /\ join[j] = f[j]
        BY <4>1
      <4> HIDE DEF i, j
      <4>2. join[i] = join[j] \o ss[i]
        BY <2>4, <4>0
      <4>3. f[i] = f[j] \o ss[i]
        BY <1>3, <4>0
      <4>4. join[i] = f[i]
        BY <4>0, <4>2, <4>3
      <4> QED BY <4>4 DEF i, j
    <3> HIDE DEF T
    <3> QED BY <3>1, <3>2, Inductive
  <2>6. n - 1 \in Nat /\ n - 1 + 1 = n
    BY <1>1, <1>6
  <2>7. join[n] = f[n]
    <3>1. n - 1 \in T
      BY <2>5, <2>6
    <3> QED BY <2>6, <3>1
  <2> QED BY <1>7, <2>1, <2>7
<1> QED BY <1>5, <1>6


-----------------------------------------------------------------------------
(* Sequences whose elements are replaced by sequences.                      *)

\* The places where the parts of a joined sequence end.
Places(e, n, at) == at[0] = 0 /\ \A i, h \in 0 .. n : i = h + 1 => at[i] = at[h] + Len(e[i])
\* f is made of the parts of e.
Parts(e, n, at, f) ==
    /\ Len(f) = at[n]
    /\ \A i, h \in 0 .. n, k \in Nat : i = h + 1 /\ k \in 1 .. Len(e[i]) => at[h] + k \in DOMAIN f /\ f[at[h] + k] = e[i][k]
    /\ \A j \in DOMAIN f : \E i, h \in 0 .. n, k \in Nat : i = h + 1 /\ k \in 1 .. Len(e[i]) /\ j = at[h] + k

\* The parts of a joined file begin one behind the other.
LEMMA PlacesGrow ==
    ASSUME NEW V, NEW n \in Nat, NEW e \in [1 .. n -> Seq(V)], NEW at \in [0 .. n -> Nat], Places(e, n, at)
    PROVE  \A i, h \in 0 .. n : i <= h => at[i] <= at[h]
<1> DEFINE T == {d \in Nat : \A i \in 0 .. n : i + d <= n => at[i] <= at[i + d]}
<1>1. 0 \in T
  OBVIOUS
<1>2. ASSUME NEW d \in Nat, d \in T PROVE d + 1 \in T
  <2> SUFFICES ASSUME NEW i \in 0 .. n, i + (d + 1) <= n PROVE at[i] <= at[i + (d + 1)]
    OBVIOUS
  <2>1. i + d \in 0 .. n /\ i + (d + 1) \in 0 .. n /\ i + (d + 1) = i + d + 1 /\ at[i] <= at[i + d]
    BY <1>2
  <2>2. at[i + (d + 1)] = at[i + d] + Len(e[i + (d + 1)])
    BY <2>1 DEF Places
  <2> DEFINE p == i + (d + 1)
  <2>3. p \in 1 .. n
    BY <2>1
  <2>4. Len(e[i + (d + 1)]) \in Nat
    <3> HIDE DEF p
    <3>1. e[p] \in Seq(V)
      BY <2>3
    <3>2. Len(e[p]) \in Nat
      BY <3>1
    <3> QED BY <3>2 DEF p
  <2> QED BY <2>1, <2>2, <2>4
<1>3. Nat \subseteq T
  <2> HIDE DEF T
  <2> QED BY <1>1, <1>2, Inductive
<1>4. ASSUME NEW i \in 0 .. n, NEW h \in 0 .. n, i <= h PROVE at[i] <= at[h]
  <2> DEFINE g == h - i
  <2>1. g \in Nat /\ i + g = h
    BY <1>4
  <2>2. g \in T
    <3> HIDE DEF T, g
    <3> QED BY <1>3, <2>1
  <2>3. i \in 0 .. n /\ i + g \in 0 .. n
    BY <2>1
  <2> HIDE DEF g
  <2>4. at[i] <= at[i + g]
    BY <2>2, <2>3
  <2> QED BY <2>1, <2>4, Zenon
<1> QED BY <1>4

\* Each line of a joined file is a line of one of its parts.
LEMMA PartsOf ==
    ASSUME NEW V, NEW n \in Nat, NEW e \in [1 .. n -> Seq(V)]
    PROVE  /\ FlattenSeq(e) \in Seq(V)
           /\ \E at \in [0 .. n -> Nat] : Places(e, n, at) /\ Parts(e, n, at, FlattenSeq(e))
<1>1. e \in Seq(Seq(V)) /\ Len(e) = n
  OBVIOUS
<1>2. PICK f \in [0 .. n -> Seq(V)] : Joining(e, n, f) /\ FlattenSeq(e) = f[n]
  <2>1. \E f \in [0 .. Len(e) -> Seq(V)] : Joining(e, Len(e), f) /\ FlattenSeq(e) = f[Len(e)]
    BY <1>1, Joined, Zenon
  <2> QED BY <1>1, <2>1, Zenon
<1> DEFINE at == [i \in 0 .. n |-> Len(f[i])]
           T == {m \in Nat : m <= n => Parts(e, m, at, f[m])}
<1>3. at \in [0 .. n -> Nat]
  BY <1>2
<1>4. ASSUME NEW i \in 0 .. n, NEW h \in 0 .. n, i = h + 1 PROVE f[i] = f[h] \o e[i] /\ at[i] = at[h] + Len(e[i]) /\ e[i] \in Seq(V)
  <2>1. i \in 1 .. n
    BY <1>4
  <2>2. f[i] = f[h] \o e[i] /\ f[h] \in Seq(V) /\ e[i] \in Seq(V)
    BY <1>2, <1>4, <2>1 DEF Joining
  <2> QED BY <2>2
<1>5. Places(e, n, at)
  <2>1. at[0] = 0
    BY <1>2 DEF Joining
  <2> HIDE DEF at
  <2> QED BY <1>4, <2>1 DEF Places
<1>6. 0 \in T
  <2>1. f[0] = <<>> /\ at[0] = 0
    BY <1>2 DEF Joining
  <2> HIDE DEF at
  <2> QED BY <2>1 DEF Parts
<1>7. ASSUME NEW m \in Nat, m \in T PROVE m + 1 \in T
  <2> SUFFICES ASSUME m + 1 <= n PROVE Parts(e, m + 1, at, f[m + 1])
    OBVIOUS
  <2> DEFINE p == m + 1
  <2>1. p \in 0 .. n /\ m \in 0 .. n /\ p = m + 1 /\ Parts(e, m, at, f[m]) /\ f[m] \in Seq(V)
    BY <1>2, <1>7
  <2>2. f[p] = f[m] \o e[p] /\ at[p] = at[m] + Len(e[p]) /\ e[p] \in Seq(V) /\ at[m] = Len(f[m]) /\ at[p] = Len(f[p])
    BY <1>4, <2>1
  <2> HIDE DEF p, at
  <2>3. ASSUME NEW i \in 0 .. p, NEW h \in 0 .. p, NEW k \in Nat, i = h + 1, k \in 1 .. Len(e[i])
        PROVE  at[h] + k \in DOMAIN f[p] /\ f[p][at[h] + k] = e[i][k]
    <3>1. CASE i = p
      <4>1. h = m
        BY <2>1, <2>3, <3>1
      <4>2. k \in 1 .. Len(e[p]) /\ at[h] = Len(f[m])
        BY <2>2, <2>3, <3>1, <4>1
      <4>3. Len(f[m]) + k \in DOMAIN (f[m] \o e[p]) /\ (f[m] \o e[p])[Len(f[m]) + k] = e[p][k]
        BY <2>1, <2>2, <4>2, SMTT(60)
      <4> QED BY <2>2, <3>1, <4>2, <4>3
    <3>2. CASE i # p
      <4>1. i \in 0 .. m /\ h \in 0 .. m
        BY <2>1, <2>3, <3>2
      <4>2. at[h] + k \in DOMAIN f[m] /\ f[m][at[h] + k] = e[i][k]
        BY <2>1, <2>3, <4>1 DEF Parts
      <4> QED BY <2>1, <2>2, <4>2, SMTT(60)
    <3> QED BY <3>1, <3>2
  <2>4. ASSUME NEW j \in DOMAIN f[p] PROVE \E i, h \in 0 .. p, k \in Nat : i = h + 1 /\ k \in 1 .. Len(e[i]) /\ j = at[h] + k
    <3>1. j \in 1 .. Len(f[m]) + Len(e[p])
      BY <2>1, <2>2
    <3>2. CASE j <= Len(f[m])
      <4>1. j \in DOMAIN f[m]
        BY <2>1, <3>1, <3>2
      <4>2. PICK i \in 0 .. m, h \in 0 .. m, k \in Nat : i = h + 1 /\ k \in 1 .. Len(e[i]) /\ j = at[h] + k
        BY <2>1, <4>1 DEF Parts
      <4>3. i \in 0 .. p /\ h \in 0 .. p
        BY <2>1
      <4> QED BY <4>2, <4>3
    <3>3. CASE j > Len(f[m])
      <4> DEFINE k == j - Len(f[m])
      <4>1. k \in Nat /\ k \in 1 .. Len(e[p]) /\ j = at[m] + k
        BY <2>1, <2>2, <3>1, <3>3, SMTT(60)
      <4>2. p \in 0 .. p /\ m \in 0 .. p
        BY <2>1
      <4> HIDE DEF k
      <4> QED BY <2>1, <4>1, <4>2
    <3> QED BY <2>1, <3>1, <3>2, <3>3
  <2>5. Parts(e, p, at, f[p])
    BY <2>2, <2>3, <2>4 DEF Parts
  <2> QED BY <2>5 DEF p
<1>8. Nat \subseteq T
  <2> HIDE DEF T
  <2> QED BY <1>6, <1>7, Inductive
<1>9. Parts(e, n, at, FlattenSeq(e))
  <2>1. n \in T
    BY <1>8
  <2> HIDE DEF at
  <2> QED BY <1>2, <2>1
<1>10. FlattenSeq(e) \in Seq(V)
  <2>1. n \in 0 .. n
    OBVIOUS
  <2> QED BY <1>2, <2>1
<1> HIDE DEF at
<1> QED BY <1>3, <1>5, <1>9, <1>10, Zenon

\* What the lines of a rewritten file are.
LEMMA LinesOf ==
    ASSUME NEW V, NEW n \in Nat, NEW e \in [1 .. n -> Seq(V)]
    PROVE  Range(FlattenSeq(e)) = UNION {Range(e[i]) : i \in 1 .. n}
<1> DEFINE f == FlattenSeq(e)
<1>1. PICK at \in [0 .. n -> Nat] : Places(e, n, at) /\ Parts(e, n, at, f)
  BY PartsOf
<1> HIDE DEF f
<1>2. ASSUME NEW j \in DOMAIN f PROVE \E i \in 1 .. n : f[j] \in Range(e[i])
  <2>1. PICK i \in 0 .. n, h \in 0 .. n, k \in Nat : i = h + 1 /\ k \in 1 .. Len(e[i]) /\ j = at[h] + k
    BY <1>1 DEF Parts
  <2>2. f[j] = e[i][k]
    BY <1>1, <2>1 DEF Parts
  <2>3. i \in 1 .. n /\ e[i] \in Seq(V)
    BY <2>1
  <2>4. k \in DOMAIN e[i]
    BY <2>1, <2>3
  <2> QED BY <2>2, <2>3, <2>4 DEF Range
<1>3. ASSUME NEW i \in 1 .. n, NEW k \in DOMAIN e[i] PROVE e[i][k] \in Range(f)
  <2>1. i \in 0 .. n /\ i - 1 \in 0 .. n /\ i = i - 1 + 1 /\ k \in Nat /\ k \in 1 .. Len(e[i])
    OBVIOUS
  <2>2. at[i - 1] + k \in DOMAIN f /\ f[at[i - 1] + k] = e[i][k]
    BY <1>1, <2>1 DEF Parts
  <2> QED BY <2>2 DEF Range
<1>4. Range(f) \subseteq UNION {Range(e[i]) : i \in 1 .. n}
  <2> SUFFICES ASSUME NEW y \in Range(f) PROVE y \in UNION {Range(e[i]) : i \in 1 .. n}
    OBVIOUS
  <2>1. PICK j \in DOMAIN f : y = f[j]
    BY DEF Range
  <2> QED BY <1>2, <2>1
<1>5. UNION {Range(e[i]) : i \in 1 .. n} \subseteq Range(f)
  <2> SUFFICES ASSUME NEW i \in 1 .. n, NEW y \in Range(e[i]) PROVE y \in Range(f)
    OBVIOUS
  <2>1. PICK k \in DOMAIN e[i] : y = e[i][k]
    BY DEF Range
  <2> QED BY <1>3, <2>1
<1> QED BY <1>4, <1>5 DEF f

-----------------------------------------------------------------------------
(* Options and what is behind them.                                         *)

No == L("depends", <<"", "n">>)
Between(s, i, j, ks) == \A m \in DOMAIN s : i < m /\ m <= j => s[m].k \notin ks
\* A line "depends on n" belongs to one of the options in B.
Owned(s, B) ==
    \A j \in DOMAIN s : s[j] = No =>
        \E i \in DOMAIN s : i < j /\ s[i].k = "config" /\ s[i].v \in B /\ Between(s, i, j, {"config"})
\* Every option v has a line "depends on n".
OffBehind(s, v) ==
    \A i \in DOMAIN s : s[i] = L("config", v) =>
        \E j \in DOMAIN s : i < j /\ s[j] = No /\ Between(s, i, j, {"config", "blank"})

\* A config line is dropped in front of another one, or stays and may have more
\* lines behind it; "depends on n" is added to the options in B only.
Dropped(s, e, i) == e[i] = <<>> /\ s[i].k = "config" /\ (i + 1 \in DOMAIN s => s[i + 1].k = "config")
Changed(s, e, i, B) ==
    /\ Len(e[i]) >= 1
    /\ s[i].k = "config" => e[i][1] = s[i]
    /\ s[i].k # "config" => e[i][1].k # "config" /\ (e[i][1] = No => s[i] = No)
    /\ \A k \in 2 .. Len(e[i]) : e[i][k].k # "config" /\ (e[i][k] = No => s[i].k = "config" /\ s[i].v \in B)
Edited(s, e, B) ==
    /\ e \in [1 .. Len(s) -> Seq(Line)]
    /\ \A i \in 1 .. Len(s) : Dropped(s, e, i) \/ Changed(s, e, i, B)

\* An edit leaves "depends on n" with the options it was meant for.
LEMMA OwnedEdited ==
    ASSUME NEW s \in Seq(Line), NEW B, NEW C, B \subseteq C, Owned(s, B), NEW e, Edited(s, e, C)
    PROVE  Owned(FlattenSeq(e), C)
<1> DEFINE f == FlattenSeq(e)
           n == Len(s)
<1>0. n \in Nat /\ e \in [1 .. n -> Seq(Line)] /\ DOMAIN s = 1 .. n
  BY DEF Edited
<1> HIDE DEF n
<1>1. PICK at \in [0 .. n -> Nat] : Places(e, n, at) /\ Parts(e, n, at, f)
  BY <1>0, PartsOf
<1>a. \A i, h \in 0 .. n : i <= h => at[i] <= at[h]
  BY <1>0, <1>1, PlacesGrow
<1>b. f \in Seq(Line)
  BY <1>0, PartsOf
<1> HIDE DEF f
<1> SUFFICES ASSUME NEW j \in DOMAIN f, f[j] = No
             PROVE  \E q \in DOMAIN f : q < j /\ f[q].k = "config" /\ f[q].v \in C /\ Between(f, q, j, {"config"})
  BY DEF Owned, f
<1>2. PICK i \in 0 .. n, h \in 0 .. n, k \in Nat : i = h + 1 /\ k \in 1 .. Len(e[i]) /\ j = at[h] + k
  BY <1>1 DEF Parts
<1>3. f[j] = e[i][k] /\ i \in 1 .. n /\ e[i] \in Seq(Line)
  <2>1. f[j] = e[i][k]
    BY <1>1, <1>2 DEF Parts
  <2>2. i \in 1 .. n
    BY ONLY <1>0, <1>2
  <2>3. e[i] \in Seq(Line)
    BY ONLY <1>0, <2>2
  <2> QED BY <2>1, <2>2, <2>3
<1>4. Changed(s, e, i, C)
  BY <1>0, <1>2, <1>3 DEF Edited, Dropped, n
\* The option's own line, wherever it went, and those up to j.
<1>5. ASSUME NEW p \in 1 .. n, p <= i, s[p].k = "config", s[p].v \in C, Changed(s, e, p, C), p < i \/ k > 1,
             \A m \in 1 .. n : p < m /\ m <= i => s[m].k # "config"
      PROVE  \E q \in DOMAIN f : q < j /\ f[q].k = "config" /\ f[q].v \in C /\ Between(f, q, j, {"config"})
  <2> DEFINE g == p - 1
             q == at[g] + 1
  <2>1. g \in 0 .. n /\ p \in 0 .. n /\ p = g + 1 /\ e[p] \in Seq(Line) /\ at[g] \in Nat /\ 1 \in 1 .. Len(e[p]) /\ e[p][1] = s[p]
    BY <1>0, <1>5 DEF Changed
  <2> HIDE DEF g
  <2>2. q \in DOMAIN f /\ f[q] = s[p]
    BY <1>1, <2>1 DEF Parts
  <2>3. q < j
    <3>1. CASE p = i
      <4>1. g = h
        BY <1>2, <2>1, <3>1
      <4> QED BY <1>2, <1>5, <2>1, <3>1, <4>1
    <3>2. CASE p < i
      <4>1. p <= h /\ at[p] <= at[h]
        BY <1>2, <1>a, <2>1, <3>2
      <4>2. at[p] = at[g] + Len(e[p]) /\ Len(e[p]) \in Nat /\ Len(e[p]) >= 1
        BY <1>1, <2>1 DEF Places
      <4>3. at[h] \in Nat /\ at[p] \in Nat /\ k >= 1
        BY <1>2, <1>3, <2>1
      <4> QED BY <1>2, <2>1, <4>1, <4>2, <4>3
    <3> QED BY <1>5, <3>1, <3>2
  <2>4. ASSUME NEW m \in DOMAIN f, q < m, m <= j PROVE f[m].k # "config"
    <3>1. PICK a \in 0 .. n, b \in 0 .. n, c \in Nat : a = b + 1 /\ c \in 1 .. Len(e[a]) /\ m = at[b] + c
      BY <1>1 DEF Parts
    <3>2. f[m] = e[a][c] /\ a \in 1 .. n /\ e[a] \in Seq(Line) /\ at[a] = at[b] + Len(e[a]) /\ at[i] = at[h] + Len(e[i]) /\ at[p] = at[g] + Len(e[p])
      BY <1>0, <1>1, <1>2, <2>1, <3>1 DEF Parts, Places
    <3>3. p <= a
      <4> SUFFICES ASSUME a < p PROVE FALSE
        BY <2>1, <3>1
      <4>1. a <= g /\ at[a] <= at[g] /\ at[g] \in Nat /\ at[a] \in Nat /\ at[b] \in Nat
        BY <1>a, <2>1, <3>1, SMTT(60)
      <4>2. m <= at[a]
        BY <3>1, <3>2, <4>1
      <4> QED BY <1>b, <2>4, <4>1, <4>2
    <3>4. a <= i
      <4> SUFFICES ASSUME i < a PROVE FALSE
        BY <1>2, <3>1
      <4>1. i <= b /\ at[i] <= at[b]
        BY <1>2, <1>a, <3>1
      <4>2. at[b] \in Nat /\ at[b] < m
        BY <3>1, <3>2
      <4>3. at[h] \in Nat /\ at[i] \in Nat /\ j <= at[i]
        BY <1>2, <1>3, <3>2, SMTT(60)
      <4> QED BY <1>b, <2>4, <4>1, <4>2, <4>3
    <3>5. Dropped(s, e, a) \/ Changed(s, e, a, C)
      BY <1>0, <3>2 DEF Edited, n
    <3>6. Changed(s, e, a, C)
      BY <3>1, <3>2, <3>5 DEF Dropped
    <3>7. CASE c > 1
      <4>1. c \in 2 .. Len(e[a])
        BY <3>1, <3>2, <3>7
      <4> QED BY <3>2, <3>6, <4>1 DEF Changed
    <3>8. CASE c = 1
      <4>1. a # p
        <5> SUFFICES ASSUME a = p PROVE FALSE
          OBVIOUS
        <5>1. b = g
          BY <2>1, <3>1
        <5> QED BY <2>1, <2>4, <3>1, <3>8, <5>1
      <4>2. s[a].k # "config"
        BY <1>5, <3>2, <3>3, <3>4, <4>1
      <4> QED BY <3>2, <3>6, <3>8, <4>2 DEF Changed
    <3> QED BY <3>1, <3>2, <3>7, <3>8
  <2> HIDE DEF q
  <2> QED BY <1>5, <2>2, <2>3, <2>4 DEF Between
<1>6. CASE k > 1
  <2>1. k \in 2 .. Len(e[i])
    BY <1>2, <1>3, <1>6
  <2>2. s[i].k = "config" /\ s[i].v \in C
    BY <1>3, <1>4, <2>1 DEF Changed
  <2> QED BY <1>3, <1>4, <1>5, <1>6, <2>2
<1>7. CASE k = 1
  <2>1. s[i] = No
    <3>1. No.k = "depends"
      BY DEF No, L
    <3> QED BY <1>3, <1>4, <1>7, <3>1 DEF Changed
  <2>2. PICK p \in DOMAIN s : p < i /\ s[p].k = "config" /\ s[p].v \in B /\ Between(s, p, i, {"config"})
    BY <1>0, <1>3, <2>1 DEF Owned
  <2>3. \A m \in 1 .. n : p < m /\ m <= i => s[m].k # "config"
    BY <1>0, <2>2 DEF Between
  <2>4. ~Dropped(s, e, p)
    <3>1. p + 1 \in DOMAIN s /\ p < p + 1 /\ p + 1 <= i
      BY <1>0, <1>3, <2>2
    <3> QED BY <1>0, <2>3, <3>1 DEF Dropped
  <2>5. p \in 1 .. n /\ p <= i /\ Changed(s, e, p, C)
    BY <1>0, <1>3, <2>2, <2>4 DEF Edited, n
  <2> QED BY <1>5, <2>2, <2>3, <2>5
<1> QED BY <1>2, <1>3, <1>6, <1>7

\* Lines that depend on something are added behind the options only.
Added(s, e) ==
    /\ e \in [1 .. Len(s) -> Seq(Line)]
    /\ \A i \in 1 .. Len(s) :
          /\ Len(e[i]) >= 1 /\ e[i][1] = s[i]
          /\ \A k \in 2 .. Len(e[i]) : e[i][k].k = "depends"

\* An option that is off stays off when lines are added.
LEMMA OffEdited ==
    ASSUME NEW s \in Seq(Line), NEW v, OffBehind(s, v), NEW e, Added(s, e)
    PROVE  OffBehind(FlattenSeq(e), v)
<1> DEFINE f == FlattenSeq(e)
           n == Len(s)
<1>0. n \in Nat /\ e \in [1 .. n -> Seq(Line)] /\ DOMAIN s = 1 .. n
  BY DEF Added
<1> HIDE DEF n
<1>1. PICK at \in [0 .. n -> Nat] : Places(e, n, at) /\ Parts(e, n, at, f)
  BY <1>0, PartsOf
<1>a. \A i, h \in 0 .. n : i <= h => at[i] <= at[h]
  BY <1>0, <1>1, PlacesGrow
<1>b. f \in Seq(Line)
  BY <1>0, PartsOf
<1> HIDE DEF f
<1> SUFFICES ASSUME NEW q \in DOMAIN f, f[q] = L("config", v)
             PROVE  \E j \in DOMAIN f : q < j /\ f[j] = No /\ Between(f, q, j, {"config", "blank"})
  BY DEF OffBehind, f
<1>2. PICK p \in 0 .. n, g \in 0 .. n, k \in Nat : p = g + 1 /\ k \in 1 .. Len(e[p]) /\ q = at[g] + k
  BY <1>1 DEF Parts
<1>3. f[q] = e[p][k] /\ p \in 1 .. n /\ e[p] \in Seq(Line)
  <2>1. f[q] = e[p][k]
    BY <1>1, <1>2 DEF Parts
  <2>2. p \in 1 .. n
    BY ONLY <1>0, <1>2
  <2>3. e[p] \in Seq(Line)
    BY ONLY <1>0, <2>2
  <2> QED BY <2>1, <2>2, <2>3
<1>4. k = 1 /\ s[p] = L("config", v)
  <2>1. L("config", v).k = "config"
    BY DEF L
  <2>2. k \in 2 .. Len(e[p]) \/ k = 1
    BY <1>2, <1>3
  <2>3. k = 1
    BY <1>0, <1>3, <2>1, <2>2 DEF Added, n
  <2> QED BY <1>0, <1>3, <2>3 DEF Added, n
<1>5. PICK i \in DOMAIN s : p < i /\ s[i] = No /\ Between(s, p, i, {"config", "blank"})
  BY <1>0, <1>3, <1>4 DEF OffBehind
<1> DEFINE h == i - 1
           j == at[h] + 1
<1>6. i \in 1 .. n /\ h \in 0 .. n /\ i \in 0 .. n /\ i = h + 1 /\ e[i] \in Seq(Line) /\ at[h] \in Nat /\ 1 \in 1 .. Len(e[i]) /\ e[i][1] = No
  <2>1. i \in 1 .. n /\ h \in 0 .. n /\ i \in 0 .. n /\ i = h + 1 /\ e[i] \in Seq(Line) /\ at[h] \in Nat
    BY <1>0
  <2> QED BY <1>5, <2>1 DEF Added, n
<1> HIDE DEF h
<1>7. j \in DOMAIN f /\ f[j] = No
  BY <1>1, <1>6 DEF Parts
<1>8. q < j
  <2>1. p <= h /\ at[p] <= at[h]
    BY <1>2, <1>5, <1>6, <1>a
  <2>2. at[p] = at[g] + Len(e[p]) /\ Len(e[p]) \in Nat
    BY <1>1, <1>2, <1>3 DEF Places
  <2>3. at[g] \in Nat /\ at[p] \in Nat
    BY <1>2
  <2>4. q = at[g] + k /\ k \in Nat /\ k <= Len(e[p])
    BY ONLY <1>2, <2>2
  <2>5. at[h] \in Nat
    BY <1>6
  <2>6. q <= at[p] /\ q \in Nat
    BY ONLY <2>2, <2>3, <2>4
  <2> QED BY ONLY <2>1, <2>3, <2>5, <2>6
<1>9. ASSUME NEW m \in DOMAIN f, q < m, m <= j PROVE f[m].k \notin {"config", "blank"}
  <2>1. PICK a \in 0 .. n, b \in 0 .. n, c \in Nat : a = b + 1 /\ c \in 1 .. Len(e[a]) /\ m = at[b] + c
    BY <1>1 DEF Parts
  <2>2. f[m] = e[a][c] /\ a \in 1 .. n /\ e[a] \in Seq(Line) /\ at[a] = at[b] + Len(e[a])
    BY <1>0, <1>1, <2>1 DEF Parts, Places
  <2>3. p <= a
    <3> SUFFICES ASSUME a < p PROVE FALSE
      BY <1>2, <2>1
    <3>1. a <= g /\ at[a] <= at[g] /\ at[g] \in Nat /\ at[a] \in Nat /\ at[b] \in Nat
      BY <1>2, <1>a, <2>1, SMTT(60)
    <3>2. m <= at[a]
      BY <2>1, <2>2, <3>1
    <3> QED BY <1>2, <1>b, <1>9, <3>1, <3>2
  <2>4. a <= i
    <3> SUFFICES ASSUME i < a PROVE FALSE
      BY <1>6, <2>1
    <3>1. i <= b /\ at[i] <= at[b] /\ at[i] \in Nat /\ at[b] \in Nat
      BY <1>6, <1>a, <2>1
    <3>2. at[i] = at[h] + Len(e[i]) /\ Len(e[i]) \in Nat /\ Len(e[i]) >= 1
      BY <1>1, <1>6 DEF Places
    <3>3. at[b] < m
      BY <2>1, <3>1
    <3> QED BY <1>b, <1>6, <1>9, <3>1, <3>2, <3>3, SMTT(60)
  <2>5. CASE c = 1
    <3>1. a # p
      <4> SUFFICES ASSUME a = p PROVE FALSE
        OBVIOUS
      <4>1. b = g
        BY <1>2, <2>1
      <4> QED BY <1>2, <1>4, <1>9, <2>1, <2>5, <4>1
    <3>2. p < a
      BY <1>2, <2>1, <2>3, <3>1
    <3>3. s[a].k \notin {"config", "blank"}
      BY <1>0, <1>5, <2>2, <2>4, <3>2 DEF Between
    <3> QED BY <2>2, <2>5, <3>3 DEF Added, n
  <2>6. CASE c # 1
    <3>1. c \in 2 .. Len(e[a])
      BY <2>1, <2>2, <2>6
    <3> QED BY <2>2, <3>1 DEF Added, n
  <2> QED BY <2>5, <2>6
<1> HIDE DEF j
<1> QED BY <1>7, <1>8, <1>9 DEF Between

\* Adding "depends on n" behind each line of an option turns it off.
LEMMA OffMade ==
    ASSUME NEW s \in Seq(Line), NEW syms, NEW v \in syms, NEW e, e \in [1 .. Len(s) -> Seq(Line)],
           \A i \in 1 .. Len(s) : e[i] = IF s[i].k = "config" /\ s[i].v \in syms THEN <<s[i], No>> ELSE <<s[i]>>
    PROVE  OffBehind(FlattenSeq(e), v)
<1> DEFINE f == FlattenSeq(e)
           n == Len(s)
<1>0. n \in Nat /\ e \in [1 .. n -> Seq(Line)] /\ DOMAIN s = 1 .. n
  OBVIOUS
<1>c. \A i \in 1 .. n : e[i] = IF s[i].k = "config" /\ s[i].v \in syms THEN <<s[i], No>> ELSE <<s[i]>>
  OBVIOUS
<1> HIDE DEF n
<1>1. PICK at \in [0 .. n -> Nat] : Places(e, n, at) /\ Parts(e, n, at, f)
  BY <1>0, PartsOf
<1>b. f \in Seq(Line)
  BY <1>0, PartsOf
<1> HIDE DEF f
<1> SUFFICES ASSUME NEW q \in DOMAIN f, f[q] = L("config", v)
             PROVE  \E j \in DOMAIN f : q < j /\ f[j] = No /\ Between(f, q, j, {"config", "blank"})
  BY DEF OffBehind, f
<1>2. PICK p \in 0 .. n, g \in 0 .. n, k \in Nat : p = g + 1 /\ k \in 1 .. Len(e[p]) /\ q = at[g] + k
  BY <1>1 DEF Parts
<1>3. f[q] = e[p][k] /\ p \in 1 .. n /\ e[p] \in Seq(Line)
  <2>1. f[q] = e[p][k]
    BY <1>1, <1>2 DEF Parts
  <2>2. p \in 1 .. n
    BY ONLY <1>0, <1>2
  <2>3. e[p] \in Seq(Line)
    BY ONLY <1>0, <2>2
  <2> QED BY <2>1, <2>2, <2>3
<1>4. L("config", v).k = "config" /\ L("config", v).v = v /\ No.k = "depends"
  BY DEF L, No
<1>5. k = 1 /\ s[p].k = "config" /\ s[p].v = v
  <2>1. CASE s[p].k = "config" /\ s[p].v \in syms
    <3>1. e[p] = <<s[p], No>>
      BY <1>3, <1>c, <2>1
    <3>2. k = 1 \/ k = 2
      BY <1>2, <3>1
    <3> QED BY <1>3, <1>4, <3>1, <3>2
  <2>2. CASE ~(s[p].k = "config" /\ s[p].v \in syms)
    <3>1. e[p] = <<s[p]>>
      BY <1>3, <1>c, <2>2
    <3>2. k = 1
      BY <1>2, <3>1
    <3> QED BY <1>3, <1>4, <2>2, <3>1, <3>2
  <2> QED BY <2>1, <2>2
<1>6. e[p] = <<s[p], No>>
  BY <1>3, <1>5, <1>c
<1>7. 2 \in 1 .. Len(e[p]) /\ e[p][2] = No
  BY <1>6
<1>8. at[g] + 2 \in DOMAIN f /\ f[at[g] + 2] = No
  BY <1>1, <1>2, <1>7 DEF Parts
<1>9. q + 1 = at[g] + 2 /\ q \in Nat
  BY <1>2, <1>5, <1>b
<1>10. q + 1 \in DOMAIN f /\ f[q + 1] = No
  BY <1>8, <1>9
<1>11. ASSUME NEW m \in DOMAIN f, q < m, m <= q + 1 PROVE f[m].k \notin {"config", "blank"}
  <2>1. m = q + 1
    BY <1>9, <1>11, <1>b
  <2> QED BY <1>4, <1>10, <2>1
<1> QED BY <1>9, <1>10, <1>11 DEF Between

-----------------------------------------------------------------------------
(* The files that are walked.                                               *)

Trees(d) == [d -> Seq(Line)]
KconfigFiles(d) == IsFiniteSet(d) /\ Root \in d /\ "compat/Kconfig" \in d
\* One step of the walk from the files in w.
Onward(t, w) == w \union UNION {Sourced(t[f]) \intersect DOMAIN t : f \in w}
Reaches(t, r) == r = [i \in 0 .. Cardinality(DOMAIN t) |-> IF i = 0 THEN {Root} ELSE Onward(t, r[i - 1])]

WalkedBy(t, n, r) ==
    n = Cardinality(DOMAIN t) /\ r[0] = {Root} /\ Walk(t) = r[n] /\ \A i \in 0 .. n - 1 : r[i + 1] = Onward(t, r[i])

\* The walk exists, and adds the sourced files step by step.
LEMMA Walks ==
    ASSUME NEW d, KconfigFiles(d), NEW t \in Trees(d)
    PROVE  \E n \in Nat : \E r \in [0 .. n -> SUBSET d] : WalkedBy(t, n, r)
<1> DEFINE n == Cardinality(d)
           step == [k \in 0 .. n - 1 |-> [w \in SUBSET d |-> Onward(t, w)]]
<1>1. n \in Nat /\ DOMAIN t = d /\ {Root} \in SUBSET d
  BY FS_CardinalityType DEF KconfigFiles, Trees
<1>2. \A w \in SUBSET d : Onward(t, w) \in SUBSET d
  BY <1>1 DEF Onward
<1>3. /\ step \in [0 .. n - 1 -> [SUBSET d -> SUBSET d]]
      /\ \A k \in 0 .. n - 1, w \in SUBSET d : step[k][w] = Onward(t, w)
  BY <1>2
<1> HIDE DEF step, n
<1>4. PICK f \in [0 .. n -> SUBSET d] : Follows(f, n, {Root}, step)
  BY <1>1, <1>3, Recursion, Zenon
<1>5. f[0] = {Root} /\ \A i \in 0 .. n - 1 : f[i + 1] = Onward(t, f[i])
  <2>1. ASSUME NEW i \in 0 .. n - 1 PROVE f[i + 1] = Onward(t, f[i])
    <3>1. f[i] \in SUBSET d
      BY <1>1, <1>4
    <3> QED BY <1>3, <1>4, <3>1 DEF Follows
  <2> QED BY <1>4, <2>1 DEF Follows
<1>6. Reaches(t, f)
  <2>1. ASSUME NEW i \in 0 .. n PROVE f[i] = IF i = 0 THEN {Root} ELSE Onward(t, f[i - 1])
    <3>1. i # 0 => i - 1 \in 0 .. n - 1 /\ i - 1 + 1 = i
      BY <1>1
    <3> QED BY <1>5, <3>1
  <2> QED BY <1>1, <1>4, <2>1 DEF Reaches, n
<1> DEFINE r == CHOOSE g : Reaches(t, g)
<1>7. Reaches(t, r)
  BY <1>6
<1>8. Walk(t) = r[n]
  BY <1>1 DEF Walk, Reaches, Onward, n
<1> HIDE DEF r
<1>9. r[0] = {Root} /\ \A i \in 0 .. n - 1 : r[i + 1] = Onward(t, r[i])
  <2>1. \A i \in 0 .. n : r[i] = IF i = 0 THEN {Root} ELSE Onward(t, r[i - 1])
    BY <1>1, <1>7, Zenon DEF Reaches, n
  <2>2. ASSUME NEW i \in 0 .. n - 1 PROVE r[i + 1] = Onward(t, r[i])
    <3>1. i + 1 \in 0 .. n /\ i + 1 # 0 /\ i + 1 - 1 = i
      BY <1>1
    <3> QED BY <2>1, <3>1
  <2>3. 0 \in 0 .. n
    BY <1>1
  <2> QED BY <2>1, <2>2, <2>3
<1>10. DOMAIN r = 0 .. n /\ r = [i \in DOMAIN r |-> r[i]]
  BY <1>1, <1>7 DEF Reaches, n
<1> DEFINE T == {i \in Nat : i <= n => r[i] \in SUBSET d}
<1>11. Nat \subseteq T
  <2>1. 0 \in T
    BY <1>1, <1>9
  <2>2. ASSUME NEW i \in Nat, i \in T PROVE i + 1 \in T
    BY <1>1, <1>2, <1>9, <2>2
  <2> HIDE DEF T
  <2> QED BY <2>1, <2>2, Inductive
<1>12. r \in [0 .. n -> SUBSET d]
  BY <1>10, <1>11
<1>13. WalkedBy(t, n, r)
  BY <1>1, <1>8, <1>9 DEF n, WalkedBy
<1> QED BY <1>1, <1>12, <1>13

\* Only files of the tree are walked.
LEMMA WalkType == ASSUME NEW d, KconfigFiles(d), NEW t \in Trees(d) PROVE Walk(t) \subseteq d
<1>0. PICK n \in Nat : \E r \in [0 .. n -> SUBSET d] : WalkedBy(t, n, r)
  BY Walks
<1>1. PICK r \in [0 .. n -> SUBSET d] : Walk(t) = r[n]
  BY <1>0 DEF WalkedBy
<1>2. n \in 0 .. n
  OBVIOUS
<1> QED BY <1>1, <1>2

\* Fewer references lead to fewer files.
LEMMA WalkShrinks ==
    ASSUME NEW d, KconfigFiles(d), NEW t \in Trees(d), NEW u \in Trees(d),
           \A f \in d : Sourced(u[f]) \intersect d \subseteq Sourced(t[f])
    PROVE  Walk(u) \subseteq Walk(t)
<1>0. PICK n \in Nat : \E r \in [0 .. n -> SUBSET d] : WalkedBy(t, n, r)
  BY Walks
<1>r. PICK r \in [0 .. n -> SUBSET d] : WalkedBy(t, n, r)
  BY <1>0
<1>1. n = Cardinality(d) /\ r[0] = {Root} /\ Walk(t) = r[n] /\ \A i \in 0 .. n - 1 : r[i + 1] = Onward(t, r[i])
  BY <1>r DEF WalkedBy, Trees
<1>b. PICK m \in Nat : \E q \in [0 .. m -> SUBSET d] : WalkedBy(u, m, q)
  BY Walks
<1>q. PICK q \in [0 .. m -> SUBSET d] : WalkedBy(u, m, q)
  BY <1>b
<1>2. m = Cardinality(d) /\ q[0] = {Root} /\ Walk(u) = q[m] /\ \A i \in 0 .. m - 1 : q[i + 1] = Onward(u, q[i])
  BY <1>q DEF WalkedBy, Trees
<1>3. m = n
  BY <1>1, <1>2
<1>4. DOMAIN t = d /\ DOMAIN u = d
  BY DEF Trees
<1> DEFINE T == {i \in Nat : i <= n => q[i] \subseteq r[i]}
<1>5. 0 \in T
  BY <1>1, <1>2
<1>6. ASSUME NEW i \in Nat, i \in T PROVE i + 1 \in T
  <2> SUFFICES ASSUME i + 1 <= n PROVE q[i + 1] \subseteq r[i + 1]
    OBVIOUS
  <2>1. i \in 0 .. n - 1 /\ i \in 0 .. n /\ q[i] \subseteq r[i]
    BY <1>6
  <2>2. q[i + 1] = Onward(u, q[i]) /\ r[i + 1] = Onward(t, r[i]) /\ q[i] \subseteq d
    BY <1>1, <1>2, <1>3, <2>1
  <2>3. Onward(u, q[i]) \subseteq Onward(t, r[i])
    BY <1>4, <2>1, <2>2 DEF Onward
  <2> QED BY <2>2, <2>3
<1>7. Nat \subseteq T
  <2> HIDE DEF T
  <2> QED BY <1>5, <1>6, Inductive
<1> QED BY <1>1, <1>2, <1>3, <1>7

\* Trees that source the same files are walked alike.
LEMMA WalkSame ==
    ASSUME NEW d, KconfigFiles(d), NEW t \in Trees(d), NEW u \in Trees(d),
           \A f \in d : Sourced(u[f]) \intersect d = Sourced(t[f]) \intersect d
    PROVE  Walk(u) = Walk(t)
<1>1. Walk(u) \subseteq Walk(t)
  BY WalkShrinks
<1>2. Walk(t) \subseteq Walk(u)
  BY WalkShrinks
<1> QED BY <1>1, <1>2

-----------------------------------------------------------------------------
(* Rewriting the lines of Kconfig files.                                    *)

OfKind(s, kind) == {l \in Lines(s) : l.k = kind}
LEMMA KindsAre ==
    ASSUME NEW s
    PROVE  /\ Sourced(s) = {l.v[2] : l \in OfKind(s, "source")}
           /\ Declared(s) = {l.v : l \in OfKind(s, "config")}
           /\ Selected(s) = {l.v : l \in OfKind(s, "select")}
BY DEF Sourced, Declared, Selected, OfKind

LEMMA RangeOne == ASSUME NEW a PROVE Range(<<a>>) = {a}
BY DEF Range
LEMMA RangeTwo == ASSUME NEW a, NEW b PROVE Range(<<a, b>>) = {a, b}
BY DEF Range
LEMMA LineSeqs ==
    ASSUME NEW a \in Line
    PROVE  <<>> \in Seq(Line) /\ <<a>> \in Seq(Line) /\ \A b \in Line : <<a, b>> \in Seq(Line)
OBVIOUS
LEMMA LineIs == ASSUME NEW kind \in Word, NEW v \in Symbol PROVE L(kind, v) \in Line /\ L(kind, v).k = kind /\ L(kind, v).v = v
BY DEF L, Line
LEMMA NoIs == No \in Line /\ No.k = "depends" /\ No.v = <<"", "n">>
<1>1. "depends" \in Word /\ "" \in Word /\ "n" \in Word
  BY DEF Word
<1>2. <<"", "n">> \in Symbol
  BY <1>1 DEF Symbol
<1> QED BY <1>1, <1>2, LineIs DEF No, L

\* Each line of a kind stays where it is, and none is added.
LEMMA KindKept ==
    ASSUME NEW s \in Seq(Line), NEW e \in [1 .. Len(s) -> Seq(Line)], NEW kind,
           \A i \in 1 .. Len(s) : \A l : l.k = kind => (l \in Range(e[i]) <=> l = s[i])
    PROVE  OfKind(FlattenSeq(e), kind) = OfKind(s, kind)
<1>1. Range(FlattenSeq(e)) = UNION {Range(e[i]) : i \in 1 .. Len(s)}
  <2>1. Len(s) \in Nat
    OBVIOUS
  <2> QED BY <2>1, LinesOf, Zenon
<1>2. Range(s) = {s[i] : i \in 1 .. Len(s)}
  BY DEF Range
<1>3. ASSUME NEW l, l.k = kind PROVE l \in Range(FlattenSeq(e)) <=> l \in Range(s)
  <2>1. ASSUME l \in Range(FlattenSeq(e)) PROVE l \in Range(s)
    <3>1. PICK i \in 1 .. Len(s) : l \in Range(e[i])
      BY <1>1, <2>1
    <3> QED BY <1>2, <1>3, <3>1
  <2>2. ASSUME NEW i \in 1 .. Len(s), l = s[i] PROVE l \in Range(FlattenSeq(e))
    <3>1. l \in Range(e[i])
      BY <1>3, <2>2
    <3> QED BY <1>1, <3>1
  <2> QED BY <1>2, <2>1, <2>2
<1> QED BY <1>3 DEF OfKind, Lines

\* A line of a rewritten file comes from one of the old file.
LEMMA LineFrom ==
    ASSUME NEW s \in Seq(Line), NEW e \in [1 .. Len(s) -> Seq(Line)], NEW l
    PROVE  /\ l \in Range(FlattenSeq(e)) <=> \E i \in 1 .. Len(s) : l \in Range(e[i])
           /\ l \in Range(s) <=> \E i \in 1 .. Len(s) : l = s[i]
<1>1. Range(FlattenSeq(e)) = UNION {Range(e[i]) : i \in 1 .. Len(s)}
  <2>1. Len(s) \in Nat
    OBVIOUS
  <2> QED BY <2>1, LinesOf, Zenon
<1>2. Range(s) = {s[i] : i \in 1 .. Len(s)}
  BY DEF Range
<1>3. l \in Range(FlattenSeq(e)) <=> \E i \in 1 .. Len(s) : l \in Range(e[i])
  BY <1>1
<1>4. l \in Range(s) <=> \E i \in 1 .. Len(s) : l = s[i]
  BY <1>2
<1> QED BY <1>3, <1>4

LEMMA SetToSeqIs ==
    ASSUME NEW S, IsFiniteSet(S)
    PROVE  SetToSeq(S) \in Seq(S) /\ Range(SetToSeq(S)) = S
<1> DEFINE n == Cardinality(S)
           f == SetToSeq(S)
<1>1. n \in Nat /\ ExistsBijection(1 .. n, S)
  BY FS_CardinalityType
<1>2. PICK g \in Bijection(1 .. n, S) : TRUE
  BY <1>1 DEF ExistsBijection
<1>3. g \in [1 .. n -> S] /\ IsInjective(g)
  BY <1>2 DEF Bijection, Injection, IsInjective
<1>4. f \in [1 .. n -> S] /\ IsInjective(f)
  BY <1>3 DEF SetToSeq
<1>5. f \in Injection(1 .. n, S)
  BY <1>4 DEF Injection, IsInjective
<1>6. IsFiniteSet(1 .. n) /\ Cardinality(1 .. n) = n
  BY <1>1, FS_Interval
<1>7. f \in Surjection(1 .. n, S)
  <2> HIDE DEF f
  <2> QED BY <1>1, <1>5, <1>6, FS_Injection
<1>8. \A x \in S : \E i \in 1 .. n : f[i] = x
  BY <1>7 DEF Surjection
<1> HIDE DEF f, n
<1>9. f \in Seq(S)
  BY <1>1, <1>4
<1>10. Range(f) = S
  BY <1>4, <1>8 DEF Range
<1> QED BY <1>9, <1>10 DEF f

Kinds == {"source", "config", "select"}
Keeps(t, u, kinds) == \A f \in DOMAIN t, kind \in kinds : OfKind(u[f], kind) = OfKind(t[f], kind)
KeepsOwned(t, u) == \A f \in DOMAIN t : \A B : Owned(t[f], B) => Owned(u[f], B)

LEMMA LinesTyped ==
    ASSUME NEW s \in Seq(Line), NEW i \in 1 .. Len(s)
    PROVE  s[i] \in Line /\ s[i].k \in Word /\ s[i].v \in Symbol /\ s[i] = L(s[i].k, s[i].v)
<1>1. s[i] \in Line
  OBVIOUS
<1>2. \A l \in Line : l.k \in Word /\ l.v \in Symbol /\ l = L(l.k, l.v)
  BY DEF Line, L
<1> QED BY <1>1, <1>2

\* A line that takes the place of another one.
LEMMA ReplacedOnly ==
    ASSUME NEW s \in Seq(Line), NEW e, e \in [1 .. Len(s) -> Seq(Line)], NEW B, Owned(s, B),
           \A i \in 1 .. Len(s) : \E x \in Line : e[i] = <<x>> /\ (x = s[i] \/ (s[i].k # "config" /\ x.k # "config" /\ x # No))
    PROVE  Owned(FlattenSeq(e), B)
<1>1. ASSUME NEW i \in 1 .. Len(s) PROVE Changed(s, e, i, B)
  <2>1. PICK x \in Line : e[i] = <<x>> /\ (x = s[i] \/ (s[i].k # "config" /\ x.k # "config" /\ x # No))
    OBVIOUS
  <2>2. Len(e[i]) = 1 /\ e[i][1] = x
    BY <2>1
  <2> QED BY <2>1, <2>2 DEF Changed
<1>2. Edited(s, e, B)
  BY <1>1 DEF Edited
<1> QED BY <1>2, OwnedEdited

\* prune_sources() takes no option and no select, and leaves sources of files only.
LEMMA PruneKeeps ==
    ASSUME NEW d, KconfigFiles(d), NEW t \in Trees(d)
    PROVE  LET u == prune_sources(t)
           IN  /\ u \in Trees(d) /\ Keeps(t, u, {"config", "select"}) /\ KeepsOwned(t, u)
               /\ \A f \in d : Sourced(u[f]) \intersect d = Sourced(t[f]) \intersect d
               /\ \A f \in Walk(t) : Sourced(u[f]) \subseteq d \union Ignored
<1> DEFINE u == prune_sources(t)
           Gone(l) == l.k = "source" /\ l.v[2] \notin Ignored \union d
           Edit(l) == IF Gone(l) THEN <<L("#", l.v)>> ELSE <<l>>
           e(f) == [i \in DOMAIN t[f] |-> Edit(t[f][i])]
<1>0. DOMAIN t = d /\ Walk(t) \subseteq d
  BY WalkType DEF Trees
<1>1. DOMAIN u = d /\ u = [f \in d |-> u[f]] /\ \A f \in d : u[f] = IF f \in Walk(t) THEN FlattenSeq(e(f)) ELSE t[f]
  BY <1>0 DEF prune_sources, Rewrite
<1> HIDE DEF u
<1>2. ASSUME NEW f \in d, f \in Walk(t)
      PROVE  /\ u[f] \in Seq(Line) /\ \A kind \in {"config", "select"} : OfKind(u[f], kind) = OfKind(t[f], kind)
             /\ \A B : Owned(t[f], B) => Owned(u[f], B)
             /\ Sourced(u[f]) = Sourced(t[f]) \intersect (d \union Ignored)
  <2> DEFINE s == t[f]
             c == e(f)
  <2>1. s \in Seq(Line) /\ DOMAIN s = 1 .. Len(s)
    BY DEF Trees
  <2>2. u[f] = FlattenSeq(c) /\ c = [i \in 1 .. Len(s) |-> c[i]] /\ \A i \in 1 .. Len(s) : c[i] = Edit(s[i])
    BY <1>1, <1>2, <2>1
  <2> HIDE DEF s, c
  <2>3. ASSUME NEW i \in 1 .. Len(s)
        PROVE  \E x \in Line : c[i] = <<x>> /\ (Gone(s[i]) => x = L("#", s[i].v) /\ x.k = "#") /\ (~Gone(s[i]) => x = s[i])
    <3>1. s[i] \in Line /\ L("#", s[i].v) \in Line /\ L("#", s[i].v).k = "#"
      <4>1. s[i] \in Line /\ s[i].v \in Symbol
        BY <2>1, LinesTyped, Zenon
      <4>2. "#" \in Word
        BY DEF Word
      <4> QED BY <4>1, <4>2, LineIs, Zenon
    <3>2. CASE Gone(s[i])
      <4>1. c[i] = <<L("#", s[i].v)>>
        BY <2>2, <3>2
      <4> QED BY <3>1, <3>2, <4>1
    <3>3. CASE ~Gone(s[i])
      <4>1. c[i] = <<s[i]>>
        BY <2>2, <3>3
      <4> QED BY <3>1, <3>3, <4>1
    <3> QED BY <3>2, <3>3
  <2>4. c \in [1 .. Len(s) -> Seq(Line)]
    <3>1. \A i \in 1 .. Len(s) : c[i] \in Seq(Line)
      BY <2>3, LineSeqs
    <3> QED BY <2>2, <3>1
  <2>5. u[f] \in Seq(Line)
    BY <2>1, <2>2, <2>4, PartsOf
  <2>6. ASSUME NEW kind \in {"config", "select"} PROVE OfKind(u[f], kind) = OfKind(s, kind)
    <3>1. ASSUME NEW i \in 1 .. Len(s), NEW l, l.k = kind PROVE l \in Range(c[i]) <=> l = s[i]
      <4>1. PICK x \in Line : c[i] = <<x>> /\ (Gone(s[i]) => x.k = "#") /\ (~Gone(s[i]) => x = s[i])
        BY <2>3
      <4> QED BY <2>6, <3>1, <4>1, RangeOne
    <3> QED BY <2>1, <2>2, <2>4, <3>1, KindKept, SMTT(60)
  <2>7. ASSUME NEW B, Owned(s, B) PROVE Owned(u[f], B)
    <3>1. \A i \in 1 .. Len(s) : \E x \in Line : c[i] = <<x>> /\ (x = s[i] \/ (s[i].k # "config" /\ x.k # "config" /\ x # No))
      BY <2>3, NoIs
    <3> QED BY <2>1, <2>2, <2>4, <2>7, <3>1, ReplacedOnly
  <2>8. ASSUME NEW l, l.k = "source" PROVE l \in Range(u[f]) <=> l \in Range(s) /\ l.v[2] \in d \union Ignored
    <3>1. l \in Range(u[f]) <=> \E i \in 1 .. Len(s) : l \in Range(c[i])
      BY <2>1, <2>2, <2>4, LineFrom
    <3>2. l \in Range(s) <=> \E i \in 1 .. Len(s) : l = s[i]
      BY <2>1, <2>2, <2>4, LineFrom
    <3>3. ASSUME NEW i \in 1 .. Len(s) PROVE l \in Range(c[i]) <=> l = s[i] /\ l.v[2] \in d \union Ignored
      <4>1. PICK x \in Line : c[i] = <<x>> /\ (Gone(s[i]) => x.k = "#") /\ (~Gone(s[i]) => x = s[i])
        BY <2>3
      <4> QED BY <2>8, <4>1, RangeOne
    <3> QED BY <3>1, <3>2, <3>3
  <2>9. Sourced(u[f]) = Sourced(s) \intersect (d \union Ignored)
    BY <2>8 DEF Sourced, Lines
  <2> QED BY <2>5, <2>6, <2>7, <2>9 DEF s
<1>3. ASSUME NEW f \in d, f \notin Walk(t) PROVE u[f] = t[f] /\ t[f] \in Seq(Line)
  BY <1>1, <1>3 DEF Trees
<1>4. u \in Trees(d)
  <2>1. \A f \in d : u[f] \in Seq(Line)
    BY <1>2, <1>3
  <2> QED BY <1>1, <2>1 DEF Trees
<1>5. Keeps(t, u, {"config", "select"}) /\ KeepsOwned(t, u)
  BY <1>0, <1>2, <1>3 DEF Keeps, KeepsOwned
<1>6. ASSUME NEW f \in d PROVE Sourced(u[f]) \intersect d = Sourced(t[f]) \intersect d
  BY <1>2, <1>3
<1>7. ASSUME NEW f \in Walk(t) PROVE Sourced(u[f]) \subseteq d \union Ignored
  BY <1>0, <1>2
<1> QED BY <1>4, <1>5, <1>6, <1>7 DEF u

LEMMA AddedKinds ==
    ASSUME NEW s \in Seq(Line), NEW e, Added(s, e)
    PROVE  FlattenSeq(e) \in Seq(Line) /\ \A kind \in Kinds : OfKind(FlattenSeq(e), kind) = OfKind(s, kind)
<1>1. e \in [1 .. Len(s) -> Seq(Line)] /\ Len(s) \in Nat
  BY DEF Added
<1>2. FlattenSeq(e) \in Seq(Line)
  BY <1>1, PartsOf
<1>3. ASSUME NEW kind \in Kinds PROVE OfKind(FlattenSeq(e), kind) = OfKind(s, kind)
  <2>1. ASSUME NEW i \in 1 .. Len(s), NEW l, l.k = kind PROVE l \in Range(e[i]) <=> l = s[i]
    <3>1. e[i] \in Seq(Line) /\ Len(e[i]) >= 1 /\ e[i][1] = s[i] /\ \A k \in 2 .. Len(e[i]) : e[i][k].k = "depends"
      BY <1>1 DEF Added
    <3>2. ASSUME NEW k \in DOMAIN e[i], e[i][k] = l PROVE l = s[i]
      <4>1. k = 1 \/ k \in 2 .. Len(e[i])
        BY <3>1
      <4>2. k \notin 2 .. Len(e[i])
        BY <1>3, <2>1, <3>1, <3>2 DEF Kinds
      <4> QED BY <3>1, <3>2, <4>1, <4>2
    <3>3. 1 \in DOMAIN e[i]
      BY <3>1
    <3> QED BY <3>1, <3>2, <3>3 DEF Range
  <2> QED BY <1>1, <2>1, KindKept
<1> QED BY <1>2, <1>3

\* Every walked file has lines added behind its options only.
AddedTo(t, u) ==
    \A f \in DOMAIN t : u[f] = t[f] \/ (f \in Walk(t) /\ \E e : Added(t[f], e) /\ u[f] = FlattenSeq(e))

LEMMA AddedKeeps ==
    ASSUME NEW d, NEW t \in Trees(d), NEW u, u = [f \in d |-> u[f]], AddedTo(t, u)
    PROVE  u \in Trees(d) /\ Keeps(t, u, Kinds)
<1>1. DOMAIN t = d /\ \A f \in d : t[f] \in Seq(Line)
  BY DEF Trees
<1>2. ASSUME NEW f \in d PROVE u[f] \in Seq(Line) /\ \A kind \in Kinds : OfKind(u[f], kind) = OfKind(t[f], kind)
  <2>1. CASE u[f] = t[f]
    BY <1>1, <2>1
  <2>2. CASE \E e : Added(t[f], e) /\ u[f] = FlattenSeq(e)
    BY <1>1, <2>2, AddedKinds
  <2> QED BY <1>1, <2>1, <2>2 DEF AddedTo
<1> QED BY <1>1, <1>2 DEF Trees, Keeps

LEMMA SameFiles ==
    ASSUME NEW d, KconfigFiles(d), NEW t \in Trees(d), NEW u \in Trees(d), Keeps(t, u, Kinds)
    PROVE  /\ Walk(u) = Walk(t) /\ symbols(u) = symbols(t) /\ all_selects(u) = all_selects(t)
           /\ \A f \in d : Sourced(u[f]) = Sourced(t[f]) /\ Declared(u[f]) = Declared(t[f]) /\ Selected(u[f]) = Selected(t[f])
<1>1. DOMAIN t = d
  BY DEF Trees
<1>2. \A f \in d : Sourced(u[f]) = Sourced(t[f]) /\ Declared(u[f]) = Declared(t[f]) /\ Selected(u[f]) = Selected(t[f])
  BY <1>1, KindsAre DEF Keeps, Kinds
<1>3. Walk(u) = Walk(t) /\ Walk(t) \subseteq d
  BY <1>2, WalkSame, WalkType
<1>4. symbols(u) = symbols(t) /\ all_selects(u) = all_selects(t)
  BY <1>2, <1>3 DEF symbols, all_selects
<1> QED BY <1>2, <1>3, <1>4

LEMMA Modular_ ==
    ASSUME NEW d, KconfigFiles(d), NEW t \in Trees(d)
    PROVE  LET u == force_tristate_modular(t)
           IN  u \in Trees(d) /\ Keeps(t, u, Kinds) /\ KeepsOwned(t, u)
<1> DEFINE u == force_tristate_modular(t)
           dep == L("depends", <<"", "m">>)
           Edit(l) == IF l.k = "tristate" THEN <<l, dep>> ELSE <<l>>
           e(f) == [i \in DOMAIN t[f] |-> Edit(t[f][i])]
<1>0. dep \in Line /\ dep.k = "depends" /\ dep # No /\ DOMAIN t = d
  <2>1. "depends" \in Word /\ "" \in Word /\ "m" \in Word
    BY DEF Word
  <2>2. <<"", "m">> \in Symbol
    BY <2>1 DEF Symbol
  <2>3. <<"", "m">> # <<"", "n">>
    OBVIOUS
  <2>4. dep \in Line /\ dep.k = "depends" /\ dep.v = <<"", "m">>
    BY <2>1, <2>2, LineIs, Zenon
  <2>5. DOMAIN t = d
    BY DEF Trees
  <2> HIDE DEF dep
  <2> QED BY <2>3, <2>4, <2>5, NoIs
<1>1. /\ u = [f \in d |-> u[f]] /\ \A f \in d : f \notin Walk(t) => u[f] = t[f]
      /\ \A f \in Walk(t) : f \in d /\ u[f] = FlattenSeq(e(f))
  BY <1>0, WalkType DEF force_tristate_modular, Rewrite
<1> HIDE DEF u, dep
<1>2. ASSUME NEW f \in Walk(t)
      PROVE  \E c : Added(t[f], c) /\ u[f] = FlattenSeq(c) /\ \A B : Owned(t[f], B) => Owned(u[f], B)
  <2> DEFINE s == t[f]
             c == e(f)
  <2>0. f \in d
    BY <1>1
  <2>1. s \in Seq(Line) /\ f \in d /\ DOMAIN s = 1 .. Len(s)
    BY <2>0 DEF Trees
  <2>2. u[f] = FlattenSeq(c) /\ c = [i \in 1 .. Len(s) |-> c[i]] /\ \A i \in 1 .. Len(s) : c[i] = Edit(s[i])
    BY <1>1, <2>1
  <2> HIDE DEF s, c
  <2>3. ASSUME NEW i \in 1 .. Len(s)
        PROVE  c[i] \in Seq(Line) /\ Len(c[i]) >= 1 /\ c[i][1] = s[i] /\ \A k \in 2 .. Len(c[i]) : c[i][k] = dep /\ s[i].k = "tristate"
    <3>1. s[i] \in Line
      BY <2>1
    <3>2. CASE s[i].k = "tristate"
      <4>1. c[i] = <<s[i], dep>>
        BY <2>2, <3>2
      <4> QED BY <1>0, <3>1, <3>2, <4>1
    <3>3. CASE s[i].k # "tristate"
      <4>1. c[i] = <<s[i]>>
        BY <2>2, <3>3
      <4> QED BY <3>1, <4>1
    <3> QED BY <3>2, <3>3
  <2>4. Added(s, c)
    BY <1>0, <2>2, <2>3 DEF Added
  <2>5. ASSUME NEW B, Owned(s, B) PROVE Owned(u[f], B)
    <3>1. Edited(s, c, B)
      BY <1>0, <2>2, <2>3 DEF Edited, Changed
    <3> QED BY <2>1, <2>2, <2>5, <3>1, OwnedEdited
  <2> QED BY <2>2, <2>4, <2>5 DEF s
<1>3. AddedTo(t, u)
  BY <1>0, <1>1, <1>2 DEF AddedTo
<1>4. KeepsOwned(t, u)
  BY <1>0, <1>1, <1>2 DEF KeepsOwned
<1>5. u \in Trees(d) /\ Keeps(t, u, Kinds)
  BY <1>1, <1>3, AddedKeeps
<1> QED BY <1>4, <1>5 DEF u

OffLine(syms, l) == IF l.k = "config" /\ l.v \in syms THEN <<l, No>> ELSE <<l>>
LEMMA OffLineIs ==
    ASSUME NEW syms, NEW l \in Line
    PROVE  LET c == OffLine(syms, l)
           IN  /\ c \in Seq(Line) /\ Len(c) >= 1 /\ c[1] = l
               /\ \A k \in 2 .. Len(c) : c[k] = No /\ l.k = "config" /\ l.v \in syms
<1>1. CASE l.k = "config" /\ l.v \in syms
  <2>1. OffLine(syms, l) = <<l, No>>
    BY <1>1 DEF OffLine
  <2> DEFINE c == <<l, No>>
  <2>a. No \in Line
    BY NoIs
  <2>2. c \in Seq(Line) /\ Len(c) = 2 /\ c[1] = l /\ c[2] = No
    BY <2>a
  <2> HIDE DEF c
  <2>3. \A k \in 2 .. Len(c) : c[k] = No
    BY <2>2
  <2>4. OffLine(syms, l) = c /\ Len(c) >= 1
    BY <2>1, <2>2 DEF c
  <2> QED BY <1>1, <2>2, <2>3, <2>4
<1>2. CASE ~(l.k = "config" /\ l.v \in syms)
  <2>1. OffLine(syms, l) = <<l>>
    BY <1>2 DEF OffLine
  <2> QED BY <2>1
<1> QED BY <1>1, <1>2

LEMMA OffLines ==
    ASSUME NEW s \in Seq(Line), NEW syms, NEW c, c = [i \in DOMAIN s |-> OffLine(syms, s[i])]
    PROVE  /\ Added(s, c)
           /\ \A B, C : B \subseteq C /\ syms \subseteq C /\ Owned(s, B) => Owned(FlattenSeq(c), C)
           /\ \A v \in syms : OffBehind(FlattenSeq(c), v)
<1> DEFINE Off(l) == l.k = "config" /\ l.v \in syms
<1>1. DOMAIN s = 1 .. Len(s)
  OBVIOUS
<1>2. c = [i \in 1 .. Len(s) |-> c[i]] /\ \A i \in 1 .. Len(s) : c[i] = IF Off(s[i]) THEN <<s[i], No>> ELSE <<s[i]>>
  BY <1>1 DEF OffLine
<1>3. ASSUME NEW i \in 1 .. Len(s)
      PROVE  c[i] \in Seq(Line) /\ Len(c[i]) >= 1 /\ c[i][1] = s[i] /\ \A k \in 2 .. Len(c[i]) : c[i][k] = No /\ Off(s[i])
  <2>1. s[i] \in Line /\ c[i] = OffLine(syms, s[i])
    BY <1>1
  <2> QED BY <2>1, OffLineIs
<1>4. Added(s, c)
  BY <1>2, <1>3, NoIs DEF Added
<1>5. ASSUME NEW B, NEW C, B \subseteq C, syms \subseteq C, Owned(s, B) PROVE Owned(FlattenSeq(c), C)
  <2>1. Edited(s, c, C)
    BY <1>2, <1>3, <1>5, NoIs DEF Edited, Changed
  <2> QED BY <1>5, <2>1, OwnedEdited
<1>6. ASSUME NEW v \in syms PROVE OffBehind(FlattenSeq(c), v)
  <2>1. c \in [1 .. Len(s) -> Seq(Line)]
    BY <1>4 DEF Added
  <2>2. \A i \in 1 .. Len(s) : c[i] = IF s[i].k = "config" /\ s[i].v \in syms THEN <<s[i], No>> ELSE <<s[i]>>
    BY <1>2
  <2> QED BY <2>1, <2>2, OffMade
<1> QED BY <1>4, <1>5, <1>6

LEMMA Disable_ ==
    ASSUME NEW d, KconfigFiles(d), NEW t \in Trees(d), NEW syms
    PROVE  LET u == disable_symbols(t, syms)
           IN  /\ u \in Trees(d) /\ Keeps(t, u, Kinds)
               /\ \A f \in d : \A B, C : B \subseteq C /\ syms \subseteq C /\ Owned(t[f], B) => Owned(u[f], C)
               /\ \A f \in Walk(t), v \in syms : OffBehind(u[f], v)
<1> DEFINE u == disable_symbols(t, syms)
           e(f) == [i \in DOMAIN t[f] |-> OffLine(syms, t[f][i])]
<1>0. DOMAIN t = d
  BY DEF Trees
<1>1. /\ u = [f \in d |-> u[f]] /\ \A f \in d : f \notin Walk(t) => u[f] = t[f]
      /\ \A f \in Walk(t) : f \in d /\ u[f] = FlattenSeq(e(f))
  BY <1>0, WalkType DEF disable_symbols, OffLine, No, Rewrite
<1> HIDE DEF u
<1>2. ASSUME NEW f \in Walk(t)
      PROVE  /\ \E c : Added(t[f], c) /\ u[f] = FlattenSeq(c)
             /\ \A B, C : B \subseteq C /\ syms \subseteq C /\ Owned(t[f], B) => Owned(u[f], C)
             /\ \A v \in syms : OffBehind(u[f], v)
  <2>1. t[f] \in Seq(Line) /\ u[f] = FlattenSeq(e(f))
    BY <1>1 DEF Trees
  <2>2. /\ Added(t[f], e(f))
        /\ \A B, C : B \subseteq C /\ syms \subseteq C /\ Owned(t[f], B) => Owned(FlattenSeq(e(f)), C)
        /\ \A v \in syms : OffBehind(FlattenSeq(e(f)), v)
    BY <2>1, OffLines
  <2> QED BY <2>1, <2>2
<1>3. AddedTo(t, u)
  BY <1>0, <1>1, <1>2 DEF AddedTo
<1>4. ASSUME NEW f \in d, NEW B, NEW C, B \subseteq C, syms \subseteq C, Owned(t[f], B) PROVE Owned(u[f], C)
  <2>1. CASE f \in Walk(t)
    BY <1>2, <1>4, <2>1
  <2>2. CASE f \notin Walk(t)
    BY <1>1, <1>4, <2>2 DEF Owned
  <2> QED BY <2>1, <2>2
<1>5. u \in Trees(d) /\ Keeps(t, u, Kinds)
  BY <1>1, <1>3, AddedKeeps
<1>6. \A f \in Walk(t), v \in syms : OffBehind(u[f], v)
  BY <1>2
<1> QED BY <1>4, <1>5, <1>6 DEF u

\* The options that depend on "n" stay those that depend on it.
Sound(deps) == deps \subseteq Symbol \X Symbol /\ IsFiniteSet(deps) /\ \A x \in deps : x[2] # <<"", "n">>
More(deps, l) == {L("depends", x[2]) : x \in {y \in deps : y[1] = l.v}}
DependLine(deps, l) == IF l.k = "config" THEN <<l>> \o SetToSeq(More(deps, l)) ELSE <<l>>

LEMMA DependLineIs ==
    ASSUME NEW deps, Sound(deps), NEW l \in Line
    PROVE  LET c == DependLine(deps, l)
           IN  /\ c \in Seq(Line) /\ Len(c) >= 1 /\ c[1] = l
               /\ \A k \in 2 .. Len(c) : c[k].k = "depends" /\ c[k] # No /\ l.k = "config"
<1> DEFINE D == {y \in deps : y[1] = l.v}
           S == More(deps, l)
           r == SetToSeq(S)
           F == [x \in D |-> L("depends", x[2])]
<1>1. IsFiniteSet(D)
  BY FS_Subset DEF Sound
<1>2. S = {L("depends", x[2]) : x \in D}
  BY DEF More
<1>3. \A x \in D : x[2] \in Symbol /\ x[2] # <<"", "n">>
  BY DEF Sound
<1> HIDE DEF D
<1>4. F \in Surjection(D, S)
  BY <1>2 DEF Surjection
<1>5. IsFiniteSet(S)
  <2> HIDE DEF S, F
  <2> QED BY <1>1, <1>4, FS_Surjection
<1>6. ASSUME NEW m \in S PROVE m \in Line /\ m.k = "depends" /\ m # No
  <2>1. PICK x \in D : m = L("depends", x[2])
    BY <1>2
  <2>2. "depends" \in Word
    BY DEF Word
  <2>3. m \in Line /\ m.k = "depends" /\ m.v = x[2]
    BY <1>3, <2>1, <2>2, LineIs
  <2> QED BY <1>3, <2>3, NoIs
<1> HIDE DEF S, F
<1>7. r \in Seq(S) /\ Range(r) = S
  BY <1>5, SetToSeqIs
<1>9. CASE l.k = "config"
  <2>1. DependLine(deps, l) = <<l>> \o r
    BY <1>9 DEF DependLine, S
  <2> HIDE DEF r
  <2>2. S \subseteq Line
    BY <1>6
  <2>3. r \in Seq(Line) /\ Len(r) \in Nat /\ \A k \in 1 .. Len(r) : r[k] \in S
    BY <1>7, <2>2
  <2> DEFINE c == <<l>> \o r
  <2>4. c \in Seq(Line) /\ Len(c) = 1 + Len(r) /\ c[1] = l /\ \A k \in 2 .. 1 + Len(r) : c[k] = r[k - 1]
    BY <2>3
  <2> HIDE DEF c
  <2>5. ASSUME NEW k \in 2 .. Len(c) PROVE c[k] \in S
    <3>1. k - 1 \in 1 .. Len(r) /\ k \in 2 .. 1 + Len(r)
      BY <2>3, <2>4
    <3> QED BY <2>3, <2>4, <3>1
  <2>6. Len(c) >= 1
    BY <2>3, <2>4
  <2>7. \A k \in 2 .. Len(c) : c[k].k = "depends" /\ c[k] # No
    BY <1>6, <2>5
  <2>8. DependLine(deps, l) = c
    BY <2>1 DEF c
  <2> QED BY <1>9, <2>4, <2>6, <2>7, <2>8
<1>10. CASE l.k # "config"
  <2>1. DependLine(deps, l) = <<l>>
    BY <1>10 DEF DependLine
  <2> QED BY <2>1
<1> QED BY <1>9, <1>10

\* The options that depend on "n" stay those that depend on it.
LEMMA Depend_ ==
    ASSUME NEW d, KconfigFiles(d), NEW t \in Trees(d), NEW deps, Sound(deps)
    PROVE  LET u == add_dependencies(t, deps)
           IN  /\ u \in Trees(d) /\ Keeps(t, u, Kinds) /\ KeepsOwned(t, u)
               /\ \A f \in d : \A v : OffBehind(t[f], v) => OffBehind(u[f], v)
<1> DEFINE u == add_dependencies(t, deps)
           e(f) == [i \in DOMAIN t[f] |-> DependLine(deps, t[f][i])]
<1>0. DOMAIN t = d
  BY DEF Trees
<1>1. /\ u = [f \in d |-> u[f]] /\ \A f \in d : f \notin Walk(t) => u[f] = t[f]
      /\ \A f \in Walk(t) : f \in d /\ u[f] = FlattenSeq(e(f))
  BY <1>0, WalkType DEF add_dependencies, Rewrite, DependLine, More
<1> HIDE DEF u
<1>2. ASSUME NEW f \in Walk(t)
      PROVE  /\ \E c : Added(t[f], c) /\ u[f] = FlattenSeq(c)
             /\ \A B : Owned(t[f], B) => Owned(u[f], B)
             /\ \A v : OffBehind(t[f], v) => OffBehind(u[f], v)
  <2> DEFINE s == t[f]
             c == e(f)
  <2>0. f \in d
    BY <1>1
  <2>1. s \in Seq(Line) /\ f \in d /\ DOMAIN s = 1 .. Len(s)
    BY <2>0 DEF Trees
  <2>2. u[f] = FlattenSeq(c) /\ c = [i \in 1 .. Len(s) |-> c[i]] /\ \A i \in 1 .. Len(s) : c[i] = DependLine(deps, s[i])
    BY <1>1, <2>1
  <2> HIDE DEF s, c
  <2>3. ASSUME NEW i \in 1 .. Len(s)
        PROVE  c[i] \in Seq(Line) /\ Len(c[i]) >= 1 /\ c[i][1] = s[i] /\ \A k \in 2 .. Len(c[i]) : c[i][k].k = "depends" /\ c[i][k] # No /\ s[i].k = "config"
    <3>1. s[i] \in Line /\ c[i] = DependLine(deps, s[i])
      BY <2>1, <2>2
    <3> QED BY <3>1, DependLineIs
  <2>4. Added(s, c)
    BY <2>2, <2>3 DEF Added
  <2>5. ASSUME NEW B, Owned(s, B) PROVE Owned(u[f], B)
    <3>1. Edited(s, c, B)
      BY <2>2, <2>3 DEF Edited, Changed
    <3> QED BY <2>1, <2>2, <2>5, <3>1, OwnedEdited
  <2>6. ASSUME NEW v, OffBehind(s, v) PROVE OffBehind(u[f], v)
    BY <2>1, <2>2, <2>4, <2>6, OffEdited
  <2> QED BY <2>2, <2>4, <2>5, <2>6 DEF s
<1>3. AddedTo(t, u)
  BY <1>0, <1>1, <1>2 DEF AddedTo
<1>4. KeepsOwned(t, u)
  BY <1>0, <1>1, <1>2 DEF KeepsOwned
<1>5. u \in Trees(d) /\ Keeps(t, u, Kinds)
  BY <1>1, <1>3, AddedKeeps
<1>6. \A f \in d : \A v : OffBehind(t[f], v) => OffBehind(u[f], v)
  BY <1>1, <1>2
<1> QED BY <1>4, <1>5, <1>6 DEF u

\* A config line in front of another one gets lost.
LEMMA Adjust_ ==
    ASSUME NEW d, KconfigFiles(d), NEW t \in Trees(d)
    PROVE  LET u == adjust_backported_configs(t)
           IN  /\ u \in Trees(d) /\ Keeps(t, u, {"source", "select"}) /\ KeepsOwned(t, u)
               /\ \A f \in d : Declared(u[f]) \subseteq Declared(t[f])
<1> DEFINE u == adjust_backported_configs(t)
           Lost(f, i) == t[f][i].k = "config" /\ t[f][i + 1].k = "config"
           e(f) == [i \in DOMAIN t[f] |-> IF Lost(f, i) THEN <<>> ELSE <<t[f][i]>>]
<1>0. DOMAIN t = d
  BY DEF Trees
<1>1. /\ u = [f \in d |-> u[f]]
      /\ \A f \in d : u[f] = t[f] \/ u[f] = FlattenSeq(e(f))
  BY <1>0 DEF adjust_backported_configs
<1> HIDE DEF u
<1>2. ASSUME NEW f \in d, u[f] # t[f]
      PROVE  /\ u[f] \in Seq(Line) /\ \A kind \in {"source", "select"} : OfKind(u[f], kind) = OfKind(t[f], kind)
             /\ \A B : Owned(t[f], B) => Owned(u[f], B)
             /\ Declared(u[f]) \subseteq Declared(t[f])
  <2> DEFINE s == t[f]
             c == e(f)
             Gone(i) == Lost(f, i)
  <2>1. s \in Seq(Line) /\ DOMAIN s = 1 .. Len(s)
    BY DEF Trees
  <2>2. u[f] = FlattenSeq(c) /\ c = [i \in 1 .. Len(s) |-> c[i]] /\ \A i \in 1 .. Len(s) : c[i] = IF Gone(i) THEN <<>> ELSE <<s[i]>>
    BY <1>1, <1>2, <2>1
  <2>a. \A i \in 1 .. Len(s) : Gone(i) => s[i].k = "config" /\ s[i + 1].k = "config"
    OBVIOUS
  <2> HIDE DEF s, c, Gone
  <2>3. ASSUME NEW i \in 1 .. Len(s) PROVE c[i] \in Seq(Line) /\ (Gone(i) \/ c[i] = <<s[i]>>) /\ (Gone(i) => c[i] = <<>>)
    <3>1. s[i] \in Line
      BY <2>1
    <3>2. CASE Gone(i)
      <4>1. c[i] = <<>>
        BY <2>2, <3>2
      <4> QED BY <3>2, <4>1
    <3>3. CASE ~Gone(i)
      <4>1. c[i] = <<s[i]>>
        BY <2>2, <3>3
      <4> QED BY <3>1, <3>3, <4>1
    <3> QED BY <3>2, <3>3
  <2>4. c \in [1 .. Len(s) -> Seq(Line)]
    BY <2>2, <2>3
  <2>5. u[f] \in Seq(Line)
    <3>1. Len(s) \in Nat
      BY <2>1
    <3> QED BY <2>2, <2>4, <3>1, PartsOf
  <2>6. ASSUME NEW kind \in {"source", "select"} PROVE OfKind(u[f], kind) = OfKind(s, kind)
    <3>1. ASSUME NEW i \in 1 .. Len(s), NEW l, l.k = kind PROVE l \in Range(c[i]) <=> l = s[i]
      <4>1. CASE Gone(i)
        <5>1. Range(c[i]) = {}
          BY <2>3, <4>1 DEF Range
        <5> QED BY <2>6, <2>a, <3>1, <4>1, <5>1
      <4>2. CASE c[i] = <<s[i]>>
        BY <4>2, RangeOne
      <4> QED BY <2>3, <4>1, <4>2
    <3> QED BY <2>1, <2>2, <2>4, <3>1, KindKept
  <2>7. ASSUME NEW B, Owned(s, B) PROVE Owned(u[f], B)
    <3>1. ASSUME NEW i \in 1 .. Len(s) PROVE Dropped(s, c, i) \/ Changed(s, c, i, B)
      <4>1. CASE Gone(i)
        BY <2>3, <2>a, <4>1 DEF Dropped
      <4>2. CASE c[i] = <<s[i]>>
        BY <4>2 DEF Changed
      <4> QED BY <2>3, <4>1, <4>2
    <3>2. Edited(s, c, B)
      BY <2>4, <3>1 DEF Edited
    <3> QED BY <2>1, <2>2, <2>7, <3>2, OwnedEdited
  <2>8. Range(u[f]) \subseteq Range(s)
    <3>1. ASSUME NEW l \in Range(FlattenSeq(c)) PROVE l \in Range(s)
      <4>1. PICK i \in 1 .. Len(s) : l \in Range(c[i])
        BY <2>1, <2>4, LineFrom
      <4>2. l = s[i]
        <5>1. CASE Gone(i)
          BY <2>3, <4>1, <5>1 DEF Range
        <5>2. CASE c[i] = <<s[i]>>
          BY <4>1, <5>2, RangeOne
        <5> QED BY <2>3, <5>1, <5>2
      <4> QED BY <2>1, <4>2 DEF Range
    <3> QED BY <2>2, <3>1
  <2>9. Declared(u[f]) \subseteq Declared(s)
    BY <2>8 DEF Declared, Lines
  <2> QED BY <2>5, <2>6, <2>7, <2>9 DEF s
<1>3. u \in Trees(d)
  <2>1. \A f \in d : t[f] \in Seq(Line)
    BY DEF Trees
  <2>2. \A f \in d : u[f] \in Seq(Line)
    BY <1>2, <2>1
  <2> QED BY <1>1, <2>2 DEF Trees
<1>4. Keeps(t, u, {"source", "select"}) /\ KeepsOwned(t, u)
  BY <1>0, <1>2 DEF Keeps, KeepsOwned
<1>5. \A f \in d : Declared(u[f]) \subseteq Declared(t[f])
  BY <1>2
<1> QED BY <1>3, <1>4, <1>5 DEF u

SelectLine(S, l) ==
    IF l.k # "select" \/ l.v \in S THEN <<l>>
    ELSE IF l.v[1] = "" /\ <<"BPAUTO", l.v[2]>> \in S THEN <<L("select", <<"BPAUTO", l.v[2]>>)>>
    ELSE <<L("depends", l.v)>>
\* What becomes of a select line l.
Served(S, l, x) ==
    \/ x.k = "depends" /\ x.v = l.v
    \/ /\ x.k = "select" /\ x.v \in S
       /\ x.v = l.v \/ (x.v[1] = "BPAUTO" /\ l.v = <<"", x.v[2]>>)

LEMMA SelectLineIs ==
    ASSUME NEW S, NEW l \in Line
    PROVE  \E x \in Line : SelectLine(S, l) = <<x>> /\ (l.k # "select" => x = l) /\ (l.k = "select" => Served(S, l, x))
<1>0. l.v \in Symbol /\ l.v[1] \in Word /\ l.v[2] \in Word /\ l.v = <<l.v[1], l.v[2]>>
  BY DEF Line, Symbol
<1>1. CASE l.k # "select" \/ l.v \in S
  <2>1. SelectLine(S, l) = <<l>>
    BY <1>1 DEF SelectLine
  <2> QED BY <1>1, <2>1 DEF Served
<1>2. CASE l.k = "select" /\ l.v \notin S /\ l.v[1] = "" /\ <<"BPAUTO", l.v[2]>> \in S
  <2> DEFINE v == <<"BPAUTO", l.v[2]>>
             x == L("select", v)
  <2>1. SelectLine(S, l) = <<x>>
    BY <1>2 DEF SelectLine
  <2>2. v \in Symbol /\ v[1] = "BPAUTO" /\ v[2] = l.v[2] /\ v \in S
    BY <1>0, <1>2 DEF Symbol, Word
  <2> HIDE DEF v
  <2>3. "select" \in Word
    BY DEF Word
  <2>4. x \in Line /\ x.k = "select" /\ x.v = v
    BY <2>2, <2>3, LineIs
  <2> HIDE DEF x
  <2>5. Served(S, l, x)
    BY <1>0, <1>2, <2>2, <2>4 DEF Served
  <2> QED BY <1>2, <2>1, <2>4, <2>5
<1>3. CASE l.k = "select" /\ l.v \notin S /\ ~(l.v[1] = "" /\ <<"BPAUTO", l.v[2]>> \in S)
  <2> DEFINE x == L("depends", l.v)
  <2>1. SelectLine(S, l) = <<x>>
    BY <1>3 DEF SelectLine
  <2>3. "depends" \in Word
    BY DEF Word
  <2>4. x \in Line /\ x.k = "depends" /\ x.v = l.v
    BY <1>0, <2>3, LineIs
  <2> HIDE DEF x
  <2>5. Served(S, l, x)
    BY <2>4 DEF Served
  <2> QED BY <1>3, <2>1, <2>4, <2>5
<1> QED BY <1>1, <1>2, <1>3

\* What a select line of the rewritten file was before.
Before(S, s, v) == v \in S /\ (v \in Selected(s) \/ (v[1] = "BPAUTO" /\ <<"", v[2]>> \in Selected(s)))
LEMMA Selects_ ==
    ASSUME NEW d, KconfigFiles(d), NEW t \in Trees(d)
    PROVE  LET u == modify_selects(t)
           IN  /\ u \in Trees(d) /\ Keeps(t, u, {"source", "config"})
               /\ \A f \in d : \A B : Owned(t[f], B) /\ <<"", "n">> \notin Selected(t[f]) => Owned(u[f], B)
               /\ \A f \in Walk(t) : \A v \in Selected(u[f]) : Before(symbols(t), t[f], v)
<1> DEFINE u == modify_selects(t)
           e(f) == [i \in DOMAIN t[f] |-> SelectLine(symbols(t), t[f][i])]
<1>0. DOMAIN t = d
  BY DEF Trees
<1>1. /\ u = [f \in d |-> u[f]] /\ \A f \in d : f \notin Walk(t) => u[f] = t[f]
      /\ \A f \in Walk(t) : f \in d /\ u[f] = FlattenSeq(e(f))
  BY <1>0, WalkType DEF modify_selects, Rewrite, SelectLine
<1> HIDE DEF u
<1>2. ASSUME NEW f \in Walk(t)
      PROVE  /\ u[f] \in Seq(Line) /\ \A kind \in {"source", "config"} : OfKind(u[f], kind) = OfKind(t[f], kind)
             /\ \A B : Owned(t[f], B) /\ <<"", "n">> \notin Selected(t[f]) => Owned(u[f], B)
             /\ \A v \in Selected(u[f]) : Before(symbols(t), t[f], v)
  <2> DEFINE s == t[f]
             c == e(f)
             S == symbols(t)
  <2>0. f \in d
    BY <1>1
  <2>1. s \in Seq(Line) /\ DOMAIN s = 1 .. Len(s) /\ Len(s) \in Nat
    BY <2>0 DEF Trees
  <2>2. u[f] = FlattenSeq(c) /\ c = [i \in 1 .. Len(s) |-> c[i]] /\ \A i \in 1 .. Len(s) : c[i] = SelectLine(S, s[i])
    BY <1>1, <2>1
  <2> HIDE DEF s, c, S
  <2>3. ASSUME NEW i \in 1 .. Len(s)
        PROVE  \E x \in Line : c[i] = <<x>> /\ (s[i].k # "select" => x = s[i]) /\ (s[i].k = "select" => Served(S, s[i], x))
    <3>1. s[i] \in Line /\ c[i] = SelectLine(S, s[i])
      BY <2>1, <2>2
    <3> QED BY <3>1, SelectLineIs
  <2>4. c \in [1 .. Len(s) -> Seq(Line)]
    <3>1. \A i \in 1 .. Len(s) : c[i] \in Seq(Line)
      BY <2>3, LineSeqs
    <3> QED BY <2>2, <3>1
  <2>5. u[f] \in Seq(Line)
    BY <2>1, <2>2, <2>4, PartsOf
  <2>6. ASSUME NEW kind \in {"source", "config"} PROVE OfKind(u[f], kind) = OfKind(s, kind)
    <3>1. ASSUME NEW i \in 1 .. Len(s), NEW l, l.k = kind PROVE l \in Range(c[i]) <=> l = s[i]
      <4>1. PICK x \in Line : c[i] = <<x>> /\ (s[i].k # "select" => x = s[i]) /\ (s[i].k = "select" => Served(S, s[i], x))
        BY <2>3
      <4>2. CASE s[i].k = "select"
        BY <2>6, <3>1, <4>1, <4>2, RangeOne DEF Served
      <4>3. CASE s[i].k # "select"
        BY <4>1, <4>3, RangeOne
      <4> QED BY <4>2, <4>3
    <3> QED BY <2>1, <2>2, <2>4, <3>1, KindKept
  <2>7. ASSUME NEW B, Owned(s, B), <<"", "n">> \notin Selected(s) PROVE Owned(u[f], B)
    <3>1. ASSUME NEW i \in 1 .. Len(s)
          PROVE  \E x \in Line : c[i] = <<x>> /\ (x = s[i] \/ (s[i].k # "config" /\ x.k # "config" /\ x # No))
      <4>1. PICK x \in Line : c[i] = <<x>> /\ (s[i].k # "select" => x = s[i]) /\ (s[i].k = "select" => Served(S, s[i], x))
        BY <2>3
      <4>2. CASE s[i].k = "select"
        <5>1. s[i].v \in Selected(s)
          BY <2>1, <4>2 DEF Selected, Lines, Range
        <5>2. x.k # "config" /\ (x.k = "depends" => x.v = s[i].v)
          BY <4>1, <4>2 DEF Served
        <5>3. x # No
          BY <2>7, <5>1, <5>2, NoIs
        <5> QED BY <4>1, <4>2, <5>2, <5>3
      <4>3. CASE s[i].k # "select"
        BY <4>1, <4>3
      <4> QED BY <4>2, <4>3
    <3> QED BY <2>1, <2>2, <2>4, <2>7, <3>1, ReplacedOnly
  <2>8. ASSUME NEW v \in Selected(u[f]) PROVE Before(S, s, v)
    <3>1. PICK l \in Range(FlattenSeq(c)) : l.k = "select" /\ v = l.v
      BY <2>2 DEF Selected, Lines
    <3>2. PICK i \in 1 .. Len(s) : l \in Range(c[i])
      BY <2>1, <2>4, <3>1, LineFrom
    <3>3. PICK x \in Line : c[i] = <<x>> /\ (s[i].k # "select" => x = s[i]) /\ (s[i].k = "select" => Served(S, s[i], x))
      BY <2>3
    <3>4. l = x
      BY <3>2, <3>3, RangeOne
    <3>5. s[i].k = "select" /\ s[i].v \in Selected(s)
      <4>1. s[i].k = "select"
        BY <3>1, <3>3, <3>4
      <4> QED BY <2>1, <4>1 DEF Selected, Lines, Range
    <3>6. v \in S /\ (v = s[i].v \/ (v[1] = "BPAUTO" /\ s[i].v = <<"", v[2]>>))
      BY <3>1, <3>3, <3>4, <3>5 DEF Served
    <3> QED BY <3>5, <3>6 DEF Before
  <2> QED BY <2>5, <2>6, <2>7, <2>8 DEF s, S
<1>3. u \in Trees(d)
  <2>1. \A f \in d : t[f] \in Seq(Line)
    BY DEF Trees
  <2>2. \A f \in d : u[f] \in Seq(Line)
    BY <1>1, <1>2, <2>1
  <2> QED BY <1>1, <2>2 DEF Trees
<1>4. Keeps(t, u, {"source", "config"})
  BY <1>0, <1>1, <1>2 DEF Keeps
<1>5. ASSUME NEW f \in d, NEW B, Owned(t[f], B), <<"", "n">> \notin Selected(t[f]) PROVE Owned(u[f], B)
  <2>1. CASE f \in Walk(t)
    BY <1>2, <1>5, <2>1
  <2>2. CASE f \notin Walk(t)
    BY <1>1, <1>5, <2>2
  <2> QED BY <2>1, <2>2
<1>6. \A f \in Walk(t) : \A v \in Selected(u[f]) : Before(symbols(t), t[f], v)
  BY <1>2
<1> QED BY <1>3, <1>4, <1>5, <1>6 DEF u

-----------------------------------------------------------------------------
(* The inductive invariant, by stage.                                       *)

Compat == "compat/Kconfig"
Makes(d) == [d -> Seq(MakeLine)]

\* The stages after the copy: before the selects are rewritten, and after.
Before1 == {"auto", "patch", "failed", "prune"}
Before2 == {"modular", "adjust", "selects"}
Renaming == {"rename"}
Finding == {"impossible"}
Disabling == {"versions", "makefiles"}
After1 == {"locals"} \union Renaming \union Finding \union Disabling \union {"done"}

\* The tree has the files of the source tree, and no option of its own.
Kept(in, t) ==
    t \in Trees(DOMAIN in.kconfig) /\ \A f \in DOMAIN in.kconfig : Declared(t[f]) \subseteq Declared(in.kconfig[f])
\* The options that add_automatic_backports() may leave out.
Unserved(in, t) == {v \in Declared(in.kconfig[Compat]) : v[1] = "BUILD" /\ <<"", v[2]>> \notin all_selects(t)}
\* Before the selects are rewritten: nothing is selected that the source tree does
\* not select, and what is off was not asked for.
Early(in, t) ==
    /\ \A f \in DOMAIN in.kconfig : Selected(t[f]) \subseteq Selected(in.kconfig[f])
    /\ Owned(t[Compat], Unserved(in, t))
\* The options that may be disabled after the selects are rewritten.
Idle(t) == {v \in Symbol : v[1] # "BUILD" \/ <<"BPAUTO", v[2]>> \notin all_selects(t)}
\* After it: what is selected exists, and none of it is off.
Closed(t) == all_selects(t) \subseteq symbols(t) /\ Owned(t[Compat], Idle(t))
\* What is sourced exists, and no option is new.
Grounded(in, t, or) ==
    (\A f \in Walk(t) : Sourced(t[f]) \subseteq DOMAIN in.kconfig \union Ignored) /\ symbols(t) \subseteq or
\* A line of a Makefile before any is commented out.
Tidy(s, l) ==
    /\ l.k # "off" /\ (l.k = "blank" => l = M("blank", "", NoSym, ""))
    /\ l.k = "obj" /\ l.sym[1] = "BUILD" => \E o \in Lines(s) : o.k = "objs" /\ o.tgt = l.tgt
Orderly(m) == \A d \in DOMAIN m : \A l \in Lines(m[d]) : Tidy(m[d], l)
\* The symbols of the package are no longer called CONFIG_.
OwnNames(m, or) == \A d \in DOMAIN m : \A l \in Lines(m[d]) : l.pre = "CONFIG" => l.sym \notin or
\* What cannot be built is off.
OffWhere(t, m, c, dis) == dis = get_impossible_symbols(m, c) /\ \A v \in dis, f \in Walk(t) : OffBehind(t[f], v)

IInv ==
    /\ input \in Inputs /\ stage \in {"copy"} \union Before1 \union Before2 \union After1
    /\ stage # "copy" => Kept(input, kc) /\ mk \in Makes(DOMAIN input.make)
    /\ stage \in Before1 \union Before2 => Early(input, kc)
    /\ stage \in After1 => Closed(kc)
    /\ stage \in Before2 \union After1 => Grounded(input, kc, orig)
    /\ stage \in After1 \ {"locals"} => locals = symbols(kc)
    /\ stage \notin {"copy", "done"} => Orderly(mk)
    /\ stage \in Finding \union Disabling \union {"done"} => OwnNames(mk, orig)
    /\ stage \in Disabling => OffWhere(kc, mk, code, disable)
    /\ SelectableIsBuildable /\ RecursionDisabled

InFiles(in) == DOMAIN in.kconfig
LEMMA FilesAre ==
    ASSUME NEW in \in Inputs
    PROVE  /\ KconfigFiles(InFiles(in)) /\ Compat \in InFiles(in) /\ Root \in InFiles(in)
           /\ in.kconfig \in Trees(InFiles(in)) /\ in.make \in Makes(DOMAIN in.make)
           /\ IsFiniteSet(DOMAIN in.make) /\ "compat" \in DOMAIN in.make /\ "." \in DOMAIN in.make
           /\ Sound(in.deps)
<1>1. /\ KconfigFiles(InFiles(in)) /\ Compat \in InFiles(in) /\ Root \in InFiles(in)
      /\ in.kconfig \in Trees(InFiles(in)) /\ in.make \in Makes(DOMAIN in.make)
      /\ IsFiniteSet(DOMAIN in.make) /\ "compat" \in DOMAIN in.make /\ "." \in DOMAIN in.make
  BY GentreeAssumption DEF KconfigFiles, InFiles, Compat, Root, Trees, Makes
<1>2. in.deps \subseteq Symbol \X Symbol /\ IsFiniteSet(in.deps)
  BY GentreeAssumption
<1>3. \A e \in in.deps : e[2] # <<"", "n">>
  BY NamesAssumption
<1> QED BY <1>1, <1>2, <1>3 DEF Sound

\* What the assumption says of names.
LEMMA NamesAre ==
    ASSUME NEW in \in Inputs, NEW f \in InFiles(in)
    PROVE  /\ f # Compat => \A v \in Declared(in.kconfig[f]) : v[1] # "BUILD"
           /\ \A v \in Selected(in.kconfig[f]), w \in Declared(in.kconfig[Compat]) : v[1] = "BPAUTO" => w # <<"BUILD", v[2]>>
           /\ <<"", "n">> \notin Selected(in.kconfig[Compat])
           /\ \A l \in Lines(in.kconfig[Compat]) : l.v # <<"", "n">>
<1> DEFINE All == UNION {Range(in.kconfig[g]) : g \in DOMAIN in.kconfig}
           Others == UNION {Range(in.kconfig[g]) : g \in DOMAIN in.kconfig \ {"compat/Kconfig"}}
<1>1. /\ \A l \in Others : l.k = "config" => l.v[1] # "BUILD"
      /\ \A l, m \in All : l.k = "select" /\ l.v[1] = "BPAUTO" /\ m.k = "config" => m.v # <<"BUILD", l.v[2]>>
      /\ \A l \in Range(in.kconfig["compat/Kconfig"]) : l.v # <<"", "n">>
  BY NamesAssumption, Zenon
<1>2. Range(in.kconfig[f]) \subseteq All /\ Range(in.kconfig[Compat]) \subseteq All /\ (f # Compat => Range(in.kconfig[f]) \subseteq Others)
  BY FilesAre DEF InFiles, Compat
<1> HIDE DEF All, Others
<1>3. f # Compat => \A v \in Declared(in.kconfig[f]) : v[1] # "BUILD"
  BY <1>1, <1>2 DEF Declared, Lines
<1>4. \A v \in Selected(in.kconfig[f]), w \in Declared(in.kconfig[Compat]) : v[1] = "BPAUTO" => w # <<"BUILD", v[2]>>
  <2> SUFFICES ASSUME NEW v \in Selected(in.kconfig[f]), NEW w \in Declared(in.kconfig[Compat]), v[1] = "BPAUTO"
               PROVE  w # <<"BUILD", v[2]>>
    OBVIOUS
  <2>1. PICK l \in All : l.k = "select" /\ v = l.v
    BY <1>2 DEF Selected, Lines
  <2>2. PICK m \in All : m.k = "config" /\ w = m.v
    BY <1>2 DEF Declared, Lines
  <2> QED BY <1>1, <2>1, <2>2
<1>5. \A l \in Lines(in.kconfig[Compat]) : l.v # <<"", "n">>
  BY <1>1 DEF Lines, Compat
<1>6. <<"", "n">> \notin Selected(in.kconfig[Compat])
  BY <1>5 DEF Selected
<1> QED BY <1>3, <1>4, <1>5, <1>6

\* What the input trees promise holds after the copy.
LEMMA CopyHolds == ASSUME IInv, Copy PROVE IInv'
<1> DEFINE d == InFiles(input)
           t == input.kconfig
           m == input.make
<1>1. input' = input /\ stage' = "auto" /\ kc' = t /\ mk' = m /\ input \in Inputs
  BY DEF IInv, Copy, Goto
<1>2. KconfigFiles(d) /\ Compat \in d /\ t \in Trees(d) /\ m \in Makes(DOMAIN m)
  BY <1>1, FilesAre
<1>3. Kept(input, t)
  BY <1>2 DEF Kept, InFiles
<1>4. Early(input, t)
  <2>1. ASSUME NEW j \in DOMAIN t[Compat] PROVE t[Compat][j] # No
    <3>1. t[Compat][j] \in Lines(t[Compat])
      BY DEF Lines, Range
    <3>2. t[Compat][j].v # <<"", "n">>
      BY <1>1, <1>2, <3>1, NamesAre
    <3> QED BY <3>2, NoIs
  <2>2. Owned(t[Compat], Unserved(input, t))
    BY <2>1 DEF Owned
  <2> QED BY <2>2 DEF Early
<1>5. Orderly(m)
  <2>1. ASSUME NEW x \in DOMAIN m, NEW l \in Range(m[x])
        PROVE  l.k # "off" /\ (l.k = "obj" => l.sym[1] # "BUILD") /\ (l.k = "blank" => l = M("blank", "", NoSym, ""))
    BY <1>1, NamesAssumption DEF M, NoSym
  <2> QED BY <2>1 DEF Orderly, Tidy, Lines
<1>6. SelectableIsBuildable' /\ RecursionDisabled'
  BY <1>1 DEF SelectableIsBuildable, RecursionDisabled, Done
<1>7. Kept(input, kc)' /\ (mk \in Makes(DOMAIN input.make))' /\ Early(input, kc)' /\ Orderly(mk)'
  BY <1>1, <1>2, <1>3, <1>4, <1>5
<1> QED BY <1>1, <1>6, <1>7 DEF IInv, Before1, Before2, After1, Renaming, Finding, Disabling

\* A state whose files stay as they are.
LEMMA PatchFailsHolds == ASSUME IInv, PatchFails PROVE IInv'
<1>1. /\ input' = input /\ stage = "patch" /\ stage' = "failed"
      /\ kc' = kc /\ mk' = mk /\ code' = code /\ disable' = disable /\ orig' = orig /\ locals' = locals
  BY DEF PatchFails, Goto
<1>2. Kept(input, kc) /\ mk \in Makes(DOMAIN input.make) /\ Early(input, kc) /\ Orderly(mk) /\ input \in Inputs
  BY <1>1 DEF IInv, Before1
<1>3. Kept(input, kc)' /\ (mk \in Makes(DOMAIN input.make))' /\ Early(input, kc)' /\ Orderly(mk)'
  BY <1>1, <1>2
<1>4. SelectableIsBuildable' /\ RecursionDisabled'
  BY <1>1 DEF SelectableIsBuildable, RecursionDisabled, Done
<1> QED BY <1>1, <1>2, <1>3, <1>4 DEF IInv, Before1, Before2, After1, Renaming, Finding, Disabling

LEMMA EarlyKept ==
    ASSUME NEW in \in Inputs, NEW t, NEW u, Early(in, t), Kept(in, t), Kept(in, u),
           \A f \in InFiles(in) : Selected(u[f]) \subseteq Selected(t[f]), Walk(u) \subseteq Walk(t),
           \A B : Owned(t[Compat], B) => Owned(u[Compat], B)
    PROVE  Early(in, u)
<1>1. Walk(u) \subseteq InFiles(in)
  BY FilesAre, WalkType DEF Kept, InFiles
<1>2. all_selects(u) \subseteq all_selects(t)
  BY <1>1 DEF all_selects
<1>3. Unserved(in, t) \subseteq Unserved(in, u)
  BY <1>2 DEF Unserved
<1>4. Owned(u[Compat], Unserved(in, t))
  BY DEF Early
<1>5. Owned(u[Compat], Unserved(in, u))
  BY <1>3, <1>4, Zenon DEF Owned
<1>6. \A f \in InFiles(in) : Selected(u[f]) \subseteq Selected(in.kconfig[f])
  BY DEF Early, InFiles
<1> QED BY <1>5, <1>6 DEF Early, InFiles

LEMMA AutoLine ==
    ASSUME NEW v \in Symbol, NEW kind \in {"obj", "compat"}
    PROVE  /\ M(kind, "CPTCFG", v, v[2]) \in MakeLine /\ M(kind, "CPTCFG", v, v[2]).k = kind /\ M(kind, "CPTCFG", v, v[2]).tgt = v[2]
           /\ M("objs", "", NoSym, v[2]) \in MakeLine /\ M("objs", "", NoSym, v[2]).k = "objs" /\ M("objs", "", NoSym, v[2]).tgt = v[2]
<1>1. kind \in Word /\ "CPTCFG" \in Word /\ "" \in Word /\ "objs" \in Word
  BY DEF Word
<1>2. v[2] \in Word /\ NoSym \in Symbol
  BY <1>1 DEF Symbol, NoSym
<1>4. M(kind, "CPTCFG", v, v[2]) \in MakeLine /\ M(kind, "CPTCFG", v, v[2]).k = kind /\ M(kind, "CPTCFG", v, v[2]).tgt = v[2]
  BY <1>1, <1>2 DEF M, MakeLine
<1>5. M("objs", "", NoSym, v[2]) \in MakeLine /\ M("objs", "", NoSym, v[2]).k = "objs" /\ M("objs", "", NoSym, v[2]).tgt = v[2]
  BY <1>1, <1>2 DEF M, MakeLine
<1> QED BY <1>4, <1>5

\* add_automatic_backports(): the lines of compat/Makefile.
LEMMA AutoMakes ==
    ASSUME NEW m, NEW d, m \in Makes(d), Orderly(m), "compat" \in d, NEW s \in Seq(Line), NEW On, On \subseteq 1 .. Len(s)
    PROVE  LET n == [m EXCEPT !["compat"] = @ \o SetToSeq(
                        {M("objs", "", NoSym, s[i].v[2]) : i \in {j \in On : IsTristate(s, j)}}
                        \union {M(IF IsTristate(s, i) THEN "obj" ELSE "compat", "CPTCFG", s[i].v, s[i].v[2]) : i \in On})]
           IN  n \in Makes(d) /\ Orderly(n)
<1> DEFINE Tri == {j \in On : IsTristate(s, j)}
           Obj(i) == M(IF IsTristate(s, i) THEN "obj" ELSE "compat", "CPTCFG", s[i].v, s[i].v[2])
           Objs(i) == M("objs", "", NoSym, s[i].v[2])
           F == [i \in Tri |-> Objs(i)]
           G == [i \in On |-> Obj(i)]
           X == {Objs(i) : i \in Tri}
           Y == {Obj(i) : i \in On}
           N == X \union Y
           n == [m EXCEPT !["compat"] = @ \o SetToSeq(N)]
<1>1. IsFiniteSet(N)
  <2>1. IsFiniteSet(1 .. Len(s)) /\ Tri \subseteq On
    BY FS_Interval
  <2>2. IsFiniteSet(On) /\ IsFiniteSet(Tri)
    BY <2>1, FS_Subset, Zenon
  <2>3. F \in Surjection(Tri, X) /\ G \in Surjection(On, Y)
    BY DEF Surjection
  <2> HIDE DEF F, G, X, Y, Tri
  <2>4. IsFiniteSet(X) /\ IsFiniteSet(Y)
    BY <2>2, <2>3, FS_Surjection
  <2> QED BY <2>4, FS_Union
<1>2. ASSUME NEW l \in N
      PROVE  /\ l \in MakeLine /\ l.k \notin {"off", "blank"}
             /\ l.k = "obj" => \E o \in N : o.k = "objs" /\ o.tgt = l.tgt
  <2>1. ASSUME NEW i \in On
        PROVE  /\ Obj(i) \in MakeLine /\ Obj(i).k \in {"obj", "compat"} /\ Obj(i).tgt = s[i].v[2] /\ (Obj(i).k = "obj" => i \in Tri)
               /\ Objs(i) \in MakeLine /\ Objs(i).k = "objs" /\ Objs(i).tgt = s[i].v[2]
    <3>1. s[i].v \in Symbol
      BY LinesTyped
    <3>2. CASE IsTristate(s, i)
      <4>1. Obj(i) = M("obj", "CPTCFG", s[i].v, s[i].v[2]) /\ i \in Tri
        BY <3>2
      <4> QED BY <3>1, <4>1, AutoLine
    <3>3. CASE ~IsTristate(s, i)
      <4>1. Obj(i) = M("compat", "CPTCFG", s[i].v, s[i].v[2])
        BY <3>3
      <4> QED BY <3>1, <4>1, AutoLine
    <3> QED BY <3>2, <3>3
  <2>2. CASE l \in X
    <3>1. PICK i \in Tri : l = Objs(i)
      BY <2>2
    <3> HIDE DEF Obj, Objs
    <3> QED BY <2>1, <3>1
  <2>3. CASE l \in Y
    <3>1. PICK i \in On : l = Obj(i)
      BY <2>3
    <3>2. i \in Tri => Objs(i) \in N
      OBVIOUS
    <3> HIDE DEF N, Objs, Obj, Tri
    <3> QED BY <2>1, <3>1, <3>2
  <2> QED BY <2>2, <2>3
<1> HIDE DEF N
<1>3. SetToSeq(N) \in Seq(N) /\ Range(SetToSeq(N)) = N
  BY <1>1, SetToSeqIs
<1>4. SetToSeq(N) \in Seq(MakeLine)
  BY <1>2, <1>3
<1>5. DOMAIN m = d /\ \A x \in d : m[x] \in Seq(MakeLine)
  BY DEF Makes
<1>6. n \in Makes(d) /\ DOMAIN n = d /\ n["compat"] = m["compat"] \o SetToSeq(N) /\ \A x \in d \ {"compat"} : n[x] = m[x]
  BY <1>4, <1>5 DEF Makes
<1>7. Range(n["compat"]) = Range(m["compat"]) \union N
  <2> DEFINE a == m["compat"]
             b == SetToSeq(N)
  <2>1. a \in Seq(MakeLine) /\ b \in Seq(MakeLine) /\ Range(b) = N /\ n["compat"] = a \o b
    BY <1>3, <1>4, <1>5, <1>6
  <2> HIDE DEF a, b, n
  <2>2. Range(a \o b) = Range(a) \union Range(b)
    <3>1. ASSUME NEW i \in DOMAIN (a \o b) PROVE (a \o b)[i] \in Range(a) \union Range(b)
      <4>1. CASE i <= Len(a)
        <5>1. i \in DOMAIN a /\ (a \o b)[i] = a[i]
          BY <2>1, <4>1
        <5> QED BY <5>1 DEF Range
      <4>2. CASE i > Len(a)
        <5>1. i - Len(a) \in DOMAIN b /\ (a \o b)[i] = b[i - Len(a)]
          BY <2>1, <4>2
        <5> QED BY <5>1 DEF Range
      <4> QED BY <2>1, <4>1, <4>2
    <3>2. ASSUME NEW i \in DOMAIN a PROVE a[i] \in Range(a \o b)
      <4>1. i \in DOMAIN (a \o b) /\ (a \o b)[i] = a[i]
        BY <2>1
      <4> QED BY <4>1 DEF Range
    <3>3. ASSUME NEW i \in DOMAIN b PROVE b[i] \in Range(a \o b)
      <4>1. Len(a) + i \in DOMAIN (a \o b) /\ (a \o b)[Len(a) + i] = b[i]
        BY <2>1
      <4> QED BY <4>1 DEF Range
    <3> QED BY <3>1, <3>2, <3>3 DEF Range
  <2> QED BY <2>1, <2>2 DEF a
<1> HIDE DEF n
<1>8. ASSUME NEW x \in d, NEW l \in Lines(n[x]) PROVE Tidy(n[x], l)
  <2>1. CASE l \in Lines(m[x])
    <3>1. Tidy(m[x], l)
      BY <1>5, <2>1 DEF Orderly
    <3>2. Lines(m[x]) \subseteq Lines(n[x])
      BY <1>6, <1>7 DEF Lines
    <3> QED BY <3>1, <3>2 DEF Tidy
  <2>2. CASE x = "compat" /\ l \in N
    <3>1. N \subseteq Lines(n[x])
      BY <1>7, <2>2 DEF Lines
    <3> QED BY <1>2, <2>2, <3>1 DEF Tidy
  <2> QED BY <1>6, <1>7, <1>8, <2>1, <2>2 DEF Lines
<1>9. Orderly(n)
  BY <1>6, <1>8 DEF Orderly
<1> QED BY <1>6, <1>9 DEF n, N

\* What is left out is not selected by anyone.
LEMMA AutoHolds == ASSUME IInv, AddAutomaticBackports PROVE IInv'
<1> DEFINE d == InFiles(input)
           t == kc
           s == t["compat/Kconfig"]
           bpi == get_backport_info(s)
           Off == {i \in DOMAIN bpi : s[i].v[1] = "BUILD" /\ <<"", s[i].v[2]>> \notin all_selects(kc)}
           On == DOMAIN bpi \ Off
           D == {s[i].v : i \in Off}
           c == [i \in DOMAIN s |-> OffLine(D, s[i])]
           u == [t EXCEPT !["compat/Kconfig"] = FlattenSeq(c)]
<1>1. /\ input' = input /\ stage = "auto" /\ stage' = "patch" /\ disable' = D /\ orig' = orig /\ locals' = locals
      /\ kc' = [kc EXCEPT !["compat/Kconfig"] =
                    FlattenSeq([i \in DOMAIN s |-> IF s[i].k = "config" /\ s[i].v \in D
                                                   THEN <<s[i], L("depends", <<"", "n">>)>> ELSE <<s[i]>>])]
      /\ mk' = [mk EXCEPT !["compat"] = @ \o SetToSeq(
                    {M("objs", "", NoSym, s[i].v[2]) : i \in {j \in On : IsTristate(s, j)}}
                    \union {M(IF IsTristate(s, i) THEN "obj" ELSE "compat", "CPTCFG", s[i].v, s[i].v[2]) : i \in On})]
  BY DEF AddAutomaticBackports, Goto
<1>2. input \in Inputs /\ Kept(input, t) /\ mk \in Makes(DOMAIN input.make) /\ Early(input, t) /\ Orderly(mk)
  BY <1>1 DEF IInv, Before1
<1>3. KconfigFiles(d) /\ Compat \in d /\ t \in Trees(d) /\ "compat" \in DOMAIN input.make
  BY <1>2, FilesAre DEF Kept, InFiles
<1>4. s \in Seq(Line) /\ DOMAIN t = d /\ DOMAIN s = 1 .. Len(s)
  BY <1>3 DEF Trees, Compat
<1>5. DOMAIN bpi \subseteq {i \in 1 .. Len(s) : s[i].k = "config"}
  BY <1>4 DEF get_backport_info
<1>6. D \subseteq Unserved(input, t)
  <2> SUFFICES ASSUME NEW i \in Off PROVE s[i].v \in Unserved(input, t)
    OBVIOUS
  <2>1. s[i].k = "config" /\ i \in DOMAIN s
    BY <1>4, <1>5
  <2>2. s[i].v \in Declared(s)
    BY <2>1 DEF Declared, Lines, Range
  <2>3. s[i].v \in Declared(input.kconfig[Compat])
    BY <1>2, <1>3, <2>2 DEF Kept, InFiles, Compat
  <2> QED BY <2>3 DEF Unserved
<1>7. On \subseteq 1 .. Len(s)
  BY <1>5
<1>8. mk' \in Makes(DOMAIN input.make) /\ Orderly(mk')
  <2> HIDE DEF On, s
  <2> QED BY <1>1, <1>2, <1>3, <1>4, <1>7, AutoMakes
<1>9. kc' = u
  BY <1>1 DEF OffLine, No
<1> HIDE DEF D, s
<1>10. /\ Added(s, c)
       /\ \A B, C : B \subseteq C /\ D \subseteq C /\ Owned(s, B) => Owned(FlattenSeq(c), C)
  BY <1>4, OffLines
<1>11. u = [f \in d |-> u[f]] /\ u[Compat] = FlattenSeq(c) /\ (\A f \in d \ {Compat} : u[f] = t[f]) /\ t[Compat] = s
  BY <1>3, <1>4 DEF Compat, s
<1> HIDE DEF u, c
<1>13. u \in Trees(d) /\ Keeps(t, u, Kinds)
  <2>1. ASSUME NEW f \in d PROVE u[f] \in Seq(Line) /\ \A kind \in Kinds : OfKind(u[f], kind) = OfKind(t[f], kind)
    <3>1. CASE f = Compat
      BY <1>4, <1>10, <1>11, <3>1, AddedKinds
    <3>2. CASE f # Compat
      BY <1>3, <1>11, <3>2 DEF Trees
    <3> QED BY <3>1, <3>2
  <2> QED BY <1>4, <1>11, <2>1 DEF Trees, Keeps
<1>14. /\ Walk(u) = Walk(t) /\ all_selects(u) = all_selects(t)
       /\ \A f \in d : Declared(u[f]) = Declared(t[f]) /\ Selected(u[f]) = Selected(t[f])
  BY <1>3, <1>13, SameFiles
<1>15. Kept(input, u)
  BY <1>2, <1>13, <1>14 DEF Kept, InFiles
<1>16. Early(input, u)
  <2>1. Owned(u[Compat], Unserved(input, t))
    <3>1. Owned(s, Unserved(input, t))
      BY <1>2, <1>11 DEF Early
    <3> QED BY <1>6, <1>10, <1>11, <3>1
  <2>2. Unserved(input, u) = Unserved(input, t)
    BY <1>14 DEF Unserved
  <2> QED BY <1>2, <1>14, <2>1, <2>2 DEF Early, InFiles
<1>17. SelectableIsBuildable' /\ RecursionDisabled'
  BY <1>1 DEF SelectableIsBuildable, RecursionDisabled, Done
<1>18. Kept(input, kc)' /\ (mk \in Makes(DOMAIN input.make))' /\ Early(input, kc)' /\ Orderly(mk)'
  BY <1>1, <1>8, <1>9, <1>15, <1>16
<1> QED BY <1>1, <1>2, <1>17, <1>18 DEF IInv, Before1, Before2, After1, Renaming, Finding, Disabling

LEMMA RemoveAtIs ==
    ASSUME NEW V, NEW s \in Seq(V), NEW i \in DOMAIN s
    PROVE  RemoveAt(s, i) \in Seq(V) /\ Range(RemoveAt(s, i)) \subseteq Range(s)
<1> DEFINE a == SubSeq(s, 1, i - 1)
           b == SubSeq(s, i + 1, Len(s))
           r == a \o b
<1>1. i \in 1 .. Len(s) /\ Len(s) \in Nat
  OBVIOUS
<1>2. a \in Seq(V) /\ Len(a) = i - 1 /\ \A k \in 1 .. i - 1 : a[k] = s[k]
  BY <1>1
<1>3. b \in Seq(V) /\ Len(b) = Len(s) - i /\ \A k \in 1 .. Len(s) - i : b[k] = s[i + k]
  BY <1>1
<1>4. RemoveAt(s, i) = r
  BY DEF RemoveAt
<1> HIDE DEF a, b
<1>5. r \in Seq(V)
  BY <1>2, <1>3
<1>6. ASSUME NEW k \in DOMAIN r PROVE r[k] \in Range(s)
  <2>1. k \in 1 .. Len(s) - 1
    BY <1>1, <1>2, <1>3
  <2>2. CASE k <= i - 1
    <3>1. r[k] = s[k] /\ k \in DOMAIN s
      BY <1>1, <1>2, <1>3, <2>1, <2>2
    <3> QED BY <3>1 DEF Range
  <2>3. CASE k > i - 1
    <3>1. r[k] = b[k - (i - 1)] /\ k - (i - 1) \in 1 .. Len(s) - i
      BY <1>1, <1>2, <1>3, <2>1, <2>3
    <3>2. b[k - (i - 1)] = s[i + (k - (i - 1))] /\ i + (k - (i - 1)) = k + 1 /\ k + 1 \in DOMAIN s
      BY <1>1, <1>3, <2>1, <3>1, SMTT(60)
    <3> QED BY <3>1, <3>2 DEF Range
  <2> QED BY <1>1, <2>1, <2>2, <2>3
<1>7. Range(r) \subseteq Range(s)
  BY <1>6 DEF Range
<1> QED BY <1>4, <1>5, <1>7

\* A select or a source line less makes nothing dangle.
LEMMA ApplyPatchesHolds == ASSUME IInv, ApplyPatches PROVE IInv'
<1> DEFINE d == InFiles(input)
<1>1. /\ input' = input /\ stage = "patch" /\ stage' = "prune"
      /\ mk' = mk /\ code' = code /\ disable' = disable /\ orig' = orig /\ locals' = locals
      /\ kc' = kc \/ \E f \in DOMAIN kc \ {Root, "compat/Kconfig"} : \E i \in DOMAIN kc[f] : kc' = [kc EXCEPT ![f] = RemoveAt(@, i)]
  BY DEF ApplyPatches, Goto
<1>2. Kept(input, kc) /\ mk \in Makes(DOMAIN input.make) /\ Early(input, kc) /\ Orderly(mk) /\ input \in Inputs
  BY <1>1 DEF IInv, Before1
<1>3. KconfigFiles(d) /\ Compat \in d /\ kc \in Trees(d) /\ DOMAIN kc = d
  BY <1>2, FilesAre DEF Kept, InFiles, Trees
<1>4. Kept(input, kc') /\ Early(input, kc')
  <2>1. CASE kc' = kc
    BY <1>2, <2>1
  <2>2. ASSUME NEW f \in DOMAIN kc \ {Root, "compat/Kconfig"}, NEW i \in DOMAIN kc[f], kc' = [kc EXCEPT ![f] = RemoveAt(@, i)]
        PROVE  Kept(input, kc') /\ Early(input, kc')
    <3> DEFINE t == kc
               u == kc'
    <3>1. t[f] \in Seq(Line) /\ f # Compat /\ f \in d
      BY <1>3 DEF Trees, Compat
    <3>2. RemoveAt(t[f], i) \in Seq(Line) /\ Range(RemoveAt(t[f], i)) \subseteq Range(t[f])
      BY <3>1, RemoveAtIs
    <3>3. u = [g \in d |-> u[g]] /\ u[f] = RemoveAt(t[f], i) /\ \A g \in d \ {f} : u[g] = t[g]
      BY <1>3, <2>2, <3>1
    <3> HIDE DEF t, u
    <3>4. \A g \in d : u[g] \in Seq(Line) /\ Range(u[g]) \subseteq Range(t[g])
      BY <1>3, <3>2, <3>3 DEF Trees, t
    <3>5. ASSUME NEW g \in d
          PROVE  Sourced(u[g]) \subseteq Sourced(t[g]) /\ Declared(u[g]) \subseteq Declared(t[g]) /\ Selected(u[g]) \subseteq Selected(t[g])
      <4>1. Range(u[g]) \subseteq Range(t[g])
        BY <3>4
      <4> QED BY <4>1 DEF Sourced, Declared, Selected, Lines
    <3>6. u \in Trees(d)
      BY <3>3, <3>4 DEF Trees
    <3>7. Kept(input, u)
      BY <1>2, <3>5, <3>6 DEF Kept, InFiles, t
    <3>8. Walk(u) \subseteq Walk(t)
      BY <1>3, <3>5, <3>6, WalkShrinks DEF t
    <3>9. u[Compat] = t[Compat]
      BY <1>3, <3>1, <3>3
    <3>10. Early(input, u)
      BY <1>2, <3>5, <3>7, <3>8, <3>9, EarlyKept DEF t
    <3> QED BY <3>7, <3>10 DEF u
  <2> QED BY <1>1, <2>1, <2>2
<1>5. SelectableIsBuildable' /\ RecursionDisabled'
  BY <1>1 DEF SelectableIsBuildable, RecursionDisabled, Done
<1>6. Kept(input, kc)' /\ (mk \in Makes(DOMAIN input.make))' /\ Early(input, kc)' /\ Orderly(mk)'
  BY <1>1, <1>2, <1>4
<1> QED BY <1>1, <1>2, <1>5, <1>6 DEF IInv, Before1, Before2, After1, Renaming, Finding, Disabling

LEMMA PruneHolds == ASSUME IInv, Prune PROVE IInv'
<1> DEFINE d == InFiles(input)
           t == kc
           u == prune_sources(t)
<1>1. /\ input' = input /\ stage = "prune" /\ stage' = "modular" /\ kc' = u /\ orig' = symbols(t)
      /\ mk' = mk /\ code' = code /\ disable' = disable /\ locals' = locals
  BY DEF Prune, Goto
<1>2. Kept(input, kc) /\ mk \in Makes(DOMAIN input.make) /\ Early(input, kc) /\ Orderly(mk) /\ input \in Inputs
  BY <1>1 DEF IInv, Before1
<1>3. KconfigFiles(d) /\ Compat \in d /\ t \in Trees(d) /\ DOMAIN t = d
  BY <1>2, FilesAre DEF Kept, InFiles, Trees
<1>4. /\ u \in Trees(d) /\ Keeps(t, u, {"config", "select"}) /\ KeepsOwned(t, u)
      /\ \A f \in d : Sourced(u[f]) \intersect d = Sourced(t[f]) \intersect d
      /\ \A f \in Walk(t) : Sourced(u[f]) \subseteq d \union Ignored
  BY <1>3, PruneKeeps
<1> HIDE DEF u
<1>5. Walk(u) = Walk(t) /\ Walk(t) \subseteq d
  BY <1>3, <1>4, WalkSame, WalkType
<1>6. \A f \in d : Declared(u[f]) = Declared(t[f]) /\ Selected(u[f]) = Selected(t[f])
  BY <1>3, <1>4, KindsAre DEF Keeps
<1>7. Kept(input, u)
  BY <1>2, <1>4, <1>6 DEF Kept, InFiles
<1>8. Early(input, u)
  BY <1>2, <1>3, <1>4, <1>5, <1>6, <1>7, EarlyKept DEF KeepsOwned
<1>9. Grounded(input, u, symbols(t))
  BY <1>4, <1>5, <1>6 DEF Grounded, symbols, InFiles
<1>10. SelectableIsBuildable' /\ RecursionDisabled'
  BY <1>1 DEF SelectableIsBuildable, RecursionDisabled, Done
<1>11. Kept(input, kc)' /\ (mk \in Makes(DOMAIN input.make))' /\ Early(input, kc)' /\ Orderly(mk)' /\ Grounded(input, kc, orig)'
  BY <1>1, <1>2, <1>7, <1>8, <1>9
<1> QED BY <1>1, <1>2, <1>10, <1>11 DEF IInv, Before1, Before2, After1, Renaming, Finding, Disabling

LEMMA SameKept ==
    ASSUME NEW in \in Inputs, NEW t, NEW u, NEW or, Kept(in, t), u \in Trees(InFiles(in)), Keeps(t, u, Kinds)
    PROVE  /\ Kept(in, u) /\ (Grounded(in, t, or) => Grounded(in, u, or))
           /\ Walk(u) = Walk(t) /\ symbols(u) = symbols(t) /\ all_selects(u) = all_selects(t)
           /\ \A f \in InFiles(in) : Selected(u[f]) = Selected(t[f])
<1> DEFINE d == InFiles(in)
<1>1. KconfigFiles(d) /\ t \in Trees(d)
  BY FilesAre DEF Kept, InFiles
<1>2. /\ Walk(u) = Walk(t) /\ symbols(u) = symbols(t) /\ all_selects(u) = all_selects(t)
      /\ \A f \in d : Sourced(u[f]) = Sourced(t[f]) /\ Declared(u[f]) = Declared(t[f]) /\ Selected(u[f]) = Selected(t[f])
  BY <1>1, SameFiles
<1>3. Walk(t) \subseteq d
  BY <1>1, WalkType
<1>4. Kept(in, u)
  BY <1>2 DEF Kept, InFiles
<1>5. Grounded(in, t, or) => Grounded(in, u, or)
  BY <1>2, <1>3 DEF Grounded
<1> QED BY <1>2, <1>4, <1>5

LEMMA ModularHolds == ASSUME IInv, Modular PROVE IInv'
<1> DEFINE d == InFiles(input)
           t == kc
           u == force_tristate_modular(t)
<1>1. /\ input' = input /\ stage = "modular" /\ stage' = "adjust" /\ kc' = u /\ orig' = orig
      /\ mk' = mk /\ code' = code /\ disable' = disable /\ locals' = locals
  BY DEF Modular, Goto
<1>2. Kept(input, t) /\ mk \in Makes(DOMAIN input.make) /\ Early(input, t) /\ Orderly(mk) /\ Grounded(input, t, orig) /\ input \in Inputs
  BY <1>1 DEF IInv, Before2
<1>3. KconfigFiles(d) /\ Compat \in d /\ t \in Trees(d) /\ DOMAIN t = d
  BY <1>2, FilesAre DEF Kept, InFiles, Trees
<1>4. u \in Trees(d) /\ Keeps(t, u, Kinds) /\ KeepsOwned(t, u)
  BY <1>3, Modular_
<1> HIDE DEF u
<1>5. Kept(input, u) /\ Grounded(input, u, orig) /\ Walk(u) = Walk(t) /\ \A f \in d : Selected(u[f]) = Selected(t[f])
  BY <1>2, <1>4, SameKept
<1>6. Early(input, u)
  BY <1>2, <1>3, <1>4, <1>5, EarlyKept DEF KeepsOwned
<1>7. SelectableIsBuildable' /\ RecursionDisabled'
  BY <1>1 DEF SelectableIsBuildable, RecursionDisabled, Done
<1>8. Kept(input, kc)' /\ (mk \in Makes(DOMAIN input.make))' /\ Early(input, kc)' /\ Orderly(mk)' /\ Grounded(input, kc, orig)'
  BY <1>1, <1>2, <1>5, <1>6
<1> QED BY <1>1, <1>2, <1>7, <1>8 DEF IInv, Before1, Before2, After1, Renaming, Finding, Disabling

LEMMA AdjustHolds == ASSUME IInv, Adjust PROVE IInv'
<1> DEFINE d == InFiles(input)
           t == kc
           u == adjust_backported_configs(t)
<1>1. /\ input' = input /\ stage = "adjust" /\ stage' = "selects" /\ kc' = u /\ orig' = orig
      /\ mk' = mk /\ code' = code /\ disable' = disable /\ locals' = locals
  BY DEF Adjust, Goto
<1>2. Kept(input, t) /\ mk \in Makes(DOMAIN input.make) /\ Early(input, t) /\ Orderly(mk) /\ Grounded(input, t, orig) /\ input \in Inputs
  BY <1>1 DEF IInv, Before2
<1>3. KconfigFiles(d) /\ Compat \in d /\ t \in Trees(d) /\ DOMAIN t = d
  BY <1>2, FilesAre DEF Kept, InFiles, Trees
<1>4. /\ u \in Trees(d) /\ Keeps(t, u, {"source", "select"}) /\ KeepsOwned(t, u)
      /\ \A f \in d : Declared(u[f]) \subseteq Declared(t[f])
  BY <1>3, Adjust_
<1> HIDE DEF u
<1>5. \A f \in d : Sourced(u[f]) = Sourced(t[f]) /\ Selected(u[f]) = Selected(t[f])
  BY <1>3, <1>4, KindsAre DEF Keeps
<1>6. Walk(u) = Walk(t) /\ Walk(t) \subseteq d
  BY <1>3, <1>4, <1>5, WalkSame, WalkType
<1>7. Kept(input, u)
  BY <1>2, <1>4 DEF Kept, InFiles
<1>8. Grounded(input, u, orig)
  BY <1>2, <1>4, <1>5, <1>6 DEF Grounded, symbols
<1>9. Early(input, u)
  BY <1>2, <1>3, <1>4, <1>5, <1>6, <1>7, EarlyKept DEF KeepsOwned
<1>10. SelectableIsBuildable' /\ RecursionDisabled'
  BY <1>1 DEF SelectableIsBuildable, RecursionDisabled, Done
<1>11. Kept(input, kc)' /\ (mk \in Makes(DOMAIN input.make))' /\ Early(input, kc)' /\ Orderly(mk)' /\ Grounded(input, kc, orig)'
  BY <1>1, <1>2, <1>7, <1>8, <1>9
<1> QED BY <1>1, <1>2, <1>10, <1>11 DEF IInv, Before1, Before2, After1, Renaming, Finding, Disabling

\* What is still selected exists.
LEMMA SelectsHolds == ASSUME IInv, Selects PROVE IInv'
<1> DEFINE d == InFiles(input)
           t == kc
           u == modify_selects(t)
<1>1. /\ input' = input /\ stage = "selects" /\ stage' = "locals" /\ kc' = u /\ orig' = orig
      /\ mk' = mk /\ code' = code /\ disable' = disable /\ locals' = locals
  BY DEF Selects, Goto
<1>2. Kept(input, t) /\ mk \in Makes(DOMAIN input.make) /\ Early(input, t) /\ Orderly(mk) /\ Grounded(input, t, orig) /\ input \in Inputs
  BY <1>1 DEF IInv, Before2
<1>3. KconfigFiles(d) /\ Compat \in d /\ t \in Trees(d) /\ DOMAIN t = d
  BY <1>2, FilesAre DEF Kept, InFiles, Trees
<1>4. /\ u \in Trees(d) /\ Keeps(t, u, {"source", "config"})
      /\ \A f \in d : \A B : Owned(t[f], B) /\ <<"", "n">> \notin Selected(t[f]) => Owned(u[f], B)
      /\ \A f \in Walk(t) : \A v \in Selected(u[f]) : Before(symbols(t), t[f], v)
  BY <1>3, Selects_
<1> HIDE DEF u
<1>5. \A f \in d : Sourced(u[f]) = Sourced(t[f]) /\ Declared(u[f]) = Declared(t[f])
  BY <1>3, <1>4, KindsAre DEF Keeps
<1>6. Walk(u) = Walk(t) /\ Walk(t) \subseteq d
  <2>1. \A f \in d : Sourced(u[f]) \intersect d = Sourced(t[f]) \intersect d
    BY <1>5
  <2>2. u \in Trees(d)
    BY <1>4
  <2>3. Walk(t) \subseteq d
    BY <1>3, WalkType
  <2>4. Walk(u) = Walk(t)
    BY <1>3, <2>1, <2>2, WalkSame
  <2> QED BY <2>3, <2>4
<1>7. symbols(u) = symbols(t)
  BY <1>5, <1>6 DEF symbols
<1>8. Kept(input, u) /\ Grounded(input, u, orig)
  BY <1>2, <1>4, <1>5, <1>6, <1>7 DEF Kept, Grounded, InFiles
<1>9. all_selects(u) \subseteq symbols(u)
  BY <1>4, <1>6, <1>7 DEF all_selects, Before
<1>10. ASSUME NEW v \in Unserved(input, t) PROVE v \in Idle(u)
  <2>1. v \in Declared(input.kconfig[Compat]) /\ v[1] = "BUILD" /\ <<"", v[2]>> \notin all_selects(t)
    BY <1>10 DEF Unserved
  <2>2. v \in Symbol
    <3>1. input.kconfig[Compat] \in Seq(Line)
      BY <1>2, <1>3, FilesAre DEF Trees, InFiles
    <3> DEFINE s == input.kconfig[Compat]
    <3> HIDE DEF s
    <3>2. \A i \in DOMAIN s : s \in Seq(Line) => s[i].v \in Symbol
      <4> SUFFICES ASSUME NEW i \in DOMAIN s, s \in Seq(Line) PROVE s[i].v \in Symbol
        OBVIOUS
      <4>1. i \in 1 .. Len(s)
        OBVIOUS
      <4> QED BY <4>1, LinesTyped
    <3>3. v \in Declared(s) /\ s \in Seq(Line)
      BY <2>1, <3>1 DEF s
    <3> QED BY <3>2, <3>3 DEF Declared, Lines, Range
  <2>3. v = <<"BUILD", v[2]>>
    <3>1. v = <<v[1], v[2]>>
      BY <2>2 DEF Symbol
    <3> QED BY <2>1, <3>1
  <2>4. ASSUME <<"BPAUTO", v[2]>> \in all_selects(u) PROVE FALSE
    <3> DEFINE w == <<"BPAUTO", v[2]>>
    <3>0. w[1] = "BPAUTO" /\ w[2] = v[2]
      OBVIOUS
    <3> HIDE DEF w
    <3>1. PICK f \in Walk(t) : w \in Selected(u[f])
      BY <1>6, <2>4 DEF all_selects, w
    <3>2. w \in Selected(t[f]) \/ <<"", w[2]>> \in Selected(t[f])
      BY <1>4, <3>1 DEF Before
    <3>3. CASE <<"", w[2]>> \in Selected(t[f])
      <4>1. <<"", w[2]>> \in all_selects(t)
        BY <3>1, <3>3 DEF all_selects
      <4> QED BY <2>1, <3>0, <4>1
    <3>4. CASE w \in Selected(t[f])
      <4>1. f \in d /\ w \in Selected(input.kconfig[f])
        BY <1>2, <1>6, <3>1, <3>4 DEF Early, InFiles
      <4>2. v # <<"BUILD", w[2]>>
        BY <1>2, <2>1, <3>0, <4>1, NamesAre
      <4> QED BY <2>3, <3>0, <4>2
    <3> QED BY <3>2, <3>3, <3>4
  <2> QED BY <2>2, <2>4 DEF Idle
<1>11. Closed(u)
  <2>1. Selected(t[Compat]) \subseteq Selected(input.kconfig[Compat]) /\ Owned(t[Compat], Unserved(input, t))
    BY <1>2, <1>3 DEF Early, InFiles
  <2>2. <<"", "n">> \notin Selected(t[Compat])
    BY <1>2, <1>3, <2>1, NamesAre
  <2>3. Owned(u[Compat], Unserved(input, t))
    BY <1>3, <1>4, <2>1, <2>2
  <2>4. Owned(u[Compat], Idle(u))
    BY <1>10, <2>3, Zenon DEF Owned
  <2> QED BY <1>9, <2>4 DEF Closed
<1>12. SelectableIsBuildable' /\ RecursionDisabled'
  BY <1>1 DEF SelectableIsBuildable, RecursionDisabled, Done
<1>13. Kept(input, kc)' /\ (mk \in Makes(DOMAIN input.make))' /\ Closed(kc)' /\ Orderly(mk)' /\ Grounded(input, kc, orig)'
  BY <1>1, <1>2, <1>8, <1>11
<1> QED BY <1>1, <1>2, <1>12, <1>13 DEF IInv, Before1, Before2, After1, Renaming, Finding, Disabling

\* From here on the local symbols are those of the tree.
LEMMA LocalsHolds == ASSUME IInv, Locals PROVE IInv'
<1>1. /\ input' = input /\ stage = "locals" /\ stage' = "rename" /\ kc' = kc /\ orig' = orig
      /\ mk' = mk /\ code' = code /\ disable' = disable /\ locals' = symbols(kc)
  BY DEF Locals, Goto
<1>2. Kept(input, kc) /\ mk \in Makes(DOMAIN input.make) /\ Closed(kc) /\ Orderly(mk) /\ Grounded(input, kc, orig) /\ input \in Inputs
  BY <1>1 DEF IInv, After1
<1>3. SelectableIsBuildable' /\ RecursionDisabled'
  BY <1>1 DEF SelectableIsBuildable, RecursionDisabled, Done
<1>4. Kept(input, kc)' /\ (mk \in Makes(DOMAIN input.make))' /\ Closed(kc)' /\ Orderly(mk)' /\ Grounded(input, kc, orig)' /\ (locals = symbols(kc))'
  BY <1>1, <1>2
<1> QED BY <1>1, <1>2, <1>3, <1>4 DEF IInv, Before1, Before2, After1, Renaming, Finding, Disabling

-----------------------------------------------------------------------------
(* The Makefiles that are found.                                            *)

Targets(s) == {l.tgt : l \in Active(s)}
Deeper(m, w) == w \union ((UNION {Targets(m[x]) : x \in w}) \intersect DOMAIN m)
Finds(m, r) == r = [i \in 0 .. Cardinality(DOMAIN m) |-> IF i = 0 THEN {"."} ELSE Deeper(m, r[i - 1])]
FoundBy(m, n, r) ==
    n = Cardinality(DOMAIN m) /\ r[0] = {"."} /\ Makefiles(m) = r[n] /\ \A i \in 0 .. n - 1 : r[i + 1] = Deeper(m, r[i])

\* The walk over the Makefiles exists, and follows the targets.
LEMMA FindsFiles ==
    ASSUME NEW d, IsFiniteSet(d), "." \in d, NEW m \in Makes(d)
    PROVE  \E n \in Nat : \E r \in [0 .. n -> SUBSET d] : FoundBy(m, n, r)
<1> DEFINE n == Cardinality(d)
           step == [k \in 0 .. n - 1 |-> [w \in SUBSET d |-> Deeper(m, w)]]
<1>1. n \in Nat /\ DOMAIN m = d /\ {"."} \in SUBSET d
  BY FS_CardinalityType DEF Makes
<1>2. \A w \in SUBSET d : Deeper(m, w) \in SUBSET d
  BY <1>1 DEF Deeper
<1>3. /\ step \in [0 .. n - 1 -> [SUBSET d -> SUBSET d]]
      /\ \A k \in 0 .. n - 1, w \in SUBSET d : step[k][w] = Deeper(m, w)
  BY <1>2
<1> HIDE DEF step, n
<1>4. PICK f \in [0 .. n -> SUBSET d] : Follows(f, n, {"."}, step)
  BY <1>1, <1>3, Recursion, Zenon
<1>5. f[0] = {"."} /\ \A i \in 0 .. n - 1 : f[i + 1] = Deeper(m, f[i])
  <2>1. ASSUME NEW i \in 0 .. n - 1 PROVE f[i + 1] = Deeper(m, f[i])
    <3>1. f[i] \in SUBSET d
      BY <1>1, <1>4
    <3> QED BY <1>3, <1>4, <3>1 DEF Follows
  <2> QED BY <1>4, <2>1 DEF Follows
<1>6. Finds(m, f)
  <2>1. ASSUME NEW i \in 0 .. n PROVE f[i] = IF i = 0 THEN {"."} ELSE Deeper(m, f[i - 1])
    <3>1. i # 0 => i - 1 \in 0 .. n - 1 /\ i - 1 + 1 = i
      BY <1>1
    <3> QED BY <1>5, <3>1
  <2> QED BY <1>1, <1>4, <2>1 DEF Finds, n
<1> DEFINE r == CHOOSE g : Finds(m, g)
<1>7. Finds(m, r)
  BY <1>6
<1>8. Makefiles(m) = r[n]
  BY <1>1 DEF Makefiles, Finds, Deeper, Targets, n
<1> HIDE DEF r
<1>9. r[0] = {"."} /\ \A i \in 0 .. n - 1 : r[i + 1] = Deeper(m, r[i])
  <2>1. \A i \in 0 .. n : r[i] = IF i = 0 THEN {"."} ELSE Deeper(m, r[i - 1])
    BY <1>1, <1>7, Zenon DEF Finds, n
  <2>2. ASSUME NEW i \in 0 .. n - 1 PROVE r[i + 1] = Deeper(m, r[i])
    <3>1. i + 1 \in 0 .. n /\ i + 1 # 0 /\ i + 1 - 1 = i
      BY <1>1
    <3> QED BY <2>1, <3>1
  <2>3. 0 \in 0 .. n
    BY <1>1
  <2> QED BY <2>1, <2>2, <2>3
<1>10. DOMAIN r = 0 .. n /\ r = [i \in DOMAIN r |-> r[i]]
  BY <1>1, <1>7 DEF Finds, n
<1> DEFINE T == {i \in Nat : i <= n => r[i] \in SUBSET d}
<1>11. Nat \subseteq T
  <2>1. 0 \in T
    BY <1>1, <1>9
  <2>2. ASSUME NEW i \in Nat, i \in T PROVE i + 1 \in T
    BY <1>1, <1>2, <1>9, <2>2
  <2> HIDE DEF T
  <2> QED BY <2>1, <2>2, Inductive
<1>12. r \in [0 .. n -> SUBSET d]
  BY <1>10, <1>11
<1>13. FoundBy(m, n, r)
  BY <1>1, <1>8, <1>9 DEF n, FoundBy
<1> QED BY <1>1, <1>12, <1>13

LEMMA FoundType == ASSUME NEW d, IsFiniteSet(d), "." \in d, NEW m \in Makes(d) PROVE Makefiles(m) \subseteq d
<1>0. PICK n \in Nat : \E r \in [0 .. n -> SUBSET d] : FoundBy(m, n, r)
  BY FindsFiles
<1>1. PICK r \in [0 .. n -> SUBSET d] : Makefiles(m) = r[n]
  BY <1>0 DEF FoundBy
<1>2. n \in 0 .. n
  OBVIOUS
<1> QED BY <1>1, <1>2

\* Fewer lines that are not commented out lead to fewer Makefiles.
LEMMA FoundShrinks ==
    ASSUME NEW d, IsFiniteSet(d), "." \in d, NEW m \in Makes(d), NEW u \in Makes(d),
           \A x \in d : Targets(u[x]) \subseteq Targets(m[x])
    PROVE  Makefiles(u) \subseteq Makefiles(m)
<1>0. PICK n \in Nat : \E r \in [0 .. n -> SUBSET d] : FoundBy(m, n, r)
  BY FindsFiles
<1>r. PICK r \in [0 .. n -> SUBSET d] : FoundBy(m, n, r)
  BY <1>0
<1>4. DOMAIN m = d /\ DOMAIN u = d
  BY DEF Makes
<1>1. n = Cardinality(d) /\ r[0] = {"."} /\ Makefiles(m) = r[n] /\ \A i \in 0 .. n - 1 : r[i + 1] = Deeper(m, r[i])
  BY <1>r, <1>4 DEF FoundBy
<1>b. PICK k \in Nat : \E q \in [0 .. k -> SUBSET d] : FoundBy(u, k, q)
  BY FindsFiles
<1>q. PICK q \in [0 .. k -> SUBSET d] : FoundBy(u, k, q)
  BY <1>b
<1>2. k = Cardinality(d) /\ q[0] = {"."} /\ Makefiles(u) = q[k] /\ \A i \in 0 .. k - 1 : q[i + 1] = Deeper(u, q[i])
  BY <1>q, <1>4 DEF FoundBy
<1>3. k = n
  BY <1>1, <1>2
<1> DEFINE T == {i \in Nat : i <= n => q[i] \subseteq r[i]}
<1>5. 0 \in T
  BY <1>1, <1>2
<1>6. ASSUME NEW i \in Nat, i \in T PROVE i + 1 \in T
  <2> SUFFICES ASSUME i + 1 <= n PROVE q[i + 1] \subseteq r[i + 1]
    OBVIOUS
  <2>1. i \in 0 .. n - 1 /\ i \in 0 .. n /\ q[i] \subseteq r[i]
    BY <1>6
  <2>2. q[i + 1] = Deeper(u, q[i]) /\ r[i + 1] = Deeper(m, r[i]) /\ q[i] \subseteq d
    BY <1>1, <1>2, <1>3, <2>1
  <2>3. Deeper(u, q[i]) \subseteq Deeper(m, r[i])
    BY <1>4, <2>1, <2>2 DEF Deeper
  <2> QED BY <2>2, <2>3
<1>7. Nat \subseteq T
  <2> HIDE DEF T
  <2> QED BY <1>5, <1>6, Inductive
<1> QED BY <1>1, <1>2, <1>3, <1>7

LEMMA MakeLinesTyped ==
    ASSUME NEW d, NEW m \in Makes(d), NEW x \in d, NEW l \in Lines(m[x])
    PROVE  l \in MakeLine /\ l.k \in Word /\ l.pre \in Word /\ l.sym \in Symbol /\ l.tgt \in Word
<1>1. m[x] \in Seq(MakeLine)
  BY DEF Makes
<1>2. l \in MakeLine
  BY <1>1 DEF Lines, Range
<1> QED BY <1>2 DEF MakeLine

-----------------------------------------------------------------------------
(* The stages that need the Makefiles.                                      *)

\* No line of a Makefile keeps CONFIG_ for a symbol of the package.
LEMMA RenameHolds == ASSUME IInv, Rename PROVE IInv'
<1> DEFINE d == DOMAIN input.make
           m == mk
           New(l) == IF l.pre = "CONFIG" /\ l.sym \in orig THEN [l EXCEPT !.pre = "CPTCFG"] ELSE l
           u == [x \in DOMAIN m |-> [i \in DOMAIN m[x] |-> New(m[x][i])]]
<1>1. /\ input' = input /\ stage = "rename" /\ stage' = "impossible" /\ kc' = kc /\ orig' = orig
      /\ mk' = u /\ code' = code /\ disable' = disable /\ locals' = locals
  BY DEF Rename, Goto
<1>2. /\ Kept(input, kc) /\ m \in Makes(d) /\ Closed(kc) /\ Orderly(m) /\ Grounded(input, kc, orig) /\ input \in Inputs
      /\ locals = symbols(kc)
  BY <1>1 DEF IInv, After1, Renaming
<1>3. DOMAIN m = d /\ DOMAIN u = d /\ \A x \in d : m[x] \in Seq(MakeLine) /\ u[x] = [i \in DOMAIN m[x] |-> New(m[x][i])]
  BY <1>2 DEF Makes
<1>4. ASSUME NEW l \in MakeLine
      PROVE  /\ New(l) \in MakeLine /\ New(l).k = l.k /\ New(l).sym = l.sym /\ New(l).tgt = l.tgt
             /\ (l.pre # "CONFIG" => New(l) = l) /\ (New(l).pre = "CONFIG" => l.sym \notin orig)
  <2>1. "CPTCFG" \in Word
    BY DEF Word
  <2>2. CASE l.pre = "CONFIG" /\ l.sym \in orig
    <3>1. New(l) = [l EXCEPT !.pre = "CPTCFG"]
      BY <2>2
    <3> HIDE DEF New
    <3> QED BY <2>1, <2>2, <3>1 DEF MakeLine
  <2>3. CASE ~(l.pre = "CONFIG" /\ l.sym \in orig)
    BY <2>3
  <2> QED BY <2>2, <2>3
<1> HIDE DEF New
<1>5. ASSUME NEW x \in d
      PROVE  /\ u[x] \in Seq(MakeLine)
             /\ \A l \in Lines(u[x]) : \E o \in Lines(m[x]) : l = New(o) /\ o \in MakeLine
             /\ \A o \in Lines(m[x]) : New(o) \in Lines(u[x]) /\ o \in MakeLine
  <2> DEFINE s == m[x]
             r == u[x]
  <2>1. s \in Seq(MakeLine) /\ r = [i \in DOMAIN s |-> New(s[i])]
    BY <1>3
  <2> HIDE DEF s, r
  <2>2. DOMAIN s = 1 .. Len(s) /\ \A i \in 1 .. Len(s) : s[i] \in MakeLine
    BY <2>1
  <2>3. r = [i \in 1 .. Len(s) |-> r[i]] /\ \A i \in 1 .. Len(s) : r[i] = New(s[i]) /\ r[i] \in MakeLine
    BY <1>4, <2>1, <2>2
  <2>4. r \in Seq(MakeLine)
    BY <2>1, <2>3
  <2>5. \A l \in Lines(r) : \E o \in Lines(s) : l = New(o) /\ o \in MakeLine
    BY <2>2, <2>3 DEF Lines, Range
  <2>6. \A o \in Lines(s) : New(o) \in Lines(r) /\ o \in MakeLine
    BY <2>2, <2>3 DEF Lines, Range
  <2> QED BY <2>4, <2>5, <2>6 DEF s, r
<1> HIDE DEF u
<1>6. u \in Makes(d)
  <2>1. u = [x \in d |-> u[x]]
    BY <1>3 DEF u
  <2> QED BY <1>5, <2>1 DEF Makes
<1>7. Orderly(u)
  <2>1. ASSUME NEW x \in d, NEW l \in Lines(u[x]) PROVE Tidy(u[x], l)
    <3>1. PICK o \in Lines(m[x]) : l = New(o) /\ o \in MakeLine
      BY <1>5
    <3>2. Tidy(m[x], o)
      BY <1>2, <1>3 DEF Orderly
    <3>3. l.k = o.k /\ l.sym = o.sym /\ l.tgt = o.tgt /\ (o.pre # "CONFIG" => l = o)
      BY <1>4, <3>1
    <3>4. l.k # "off"
      BY <3>2, <3>3 DEF Tidy
    <3>5. l.k = "blank" => l = M("blank", "", NoSym, "")
      <4> SUFFICES ASSUME l.k = "blank" PROVE l = M("blank", "", NoSym, "")
        OBVIOUS
      <4>1. o = M("blank", "", NoSym, "")
        BY <3>2, <3>3 DEF Tidy
      <4>2. o.pre # "CONFIG"
        BY <4>1 DEF M
      <4> QED BY <3>3, <4>1, <4>2
    <3>6. ASSUME l.k = "obj", l.sym[1] = "BUILD" PROVE \E p \in Lines(u[x]) : p.k = "objs" /\ p.tgt = l.tgt
      <4>1. PICK p \in Lines(m[x]) : p.k = "objs" /\ p.tgt = o.tgt
        BY <3>2, <3>3, <3>6 DEF Tidy
      <4>2. New(p) \in Lines(u[x]) /\ New(p).k = "objs" /\ New(p).tgt = l.tgt
        BY <1>4, <1>5, <3>3, <4>1
      <4> QED BY <4>2
    <3> QED BY <3>4, <3>5, <3>6 DEF Tidy
  <2> QED BY <1>3, <2>1 DEF Orderly
<1>8. OwnNames(u, orig)
  <2>1. ASSUME NEW x \in d, NEW l \in Lines(u[x]), l.pre = "CONFIG" PROVE l.sym \notin orig
    <3>1. PICK o \in Lines(m[x]) : l = New(o) /\ o \in MakeLine
      BY <1>5
    <3> QED BY <1>4, <2>1, <3>1
  <2> QED BY <1>3, <2>1 DEF OwnNames
<1>9. SelectableIsBuildable' /\ RecursionDisabled'
  BY <1>1 DEF SelectableIsBuildable, RecursionDisabled, Done
<1>10. /\ Kept(input, kc)' /\ (mk \in Makes(DOMAIN input.make))' /\ Closed(kc)' /\ Orderly(mk)' /\ Grounded(input, kc, orig)'
       /\ OwnNames(mk, orig)' /\ (locals = symbols(kc))'
  BY <1>1, <1>2, <1>6, <1>7, <1>8
<1> QED BY <1>1, <1>2, <1>9, <1>10 DEF IInv, Before1, Before2, After1, Renaming, Finding, Disabling

\* What cannot be built is off.
LEMMA ImpossibleHolds == ASSUME IInv, Impossible PROVE IInv'
<1> DEFINE d == InFiles(input)
           t == kc
           D == get_impossible_symbols(mk, code)
           u == disable_symbols(t, D)
<1>1. /\ input' = input /\ stage = "impossible" /\ stage' = "versions" /\ kc' = u /\ orig' = orig
      /\ mk' = mk /\ code' = code /\ disable' = D /\ locals' = locals
  BY DEF Impossible, Goto
<1>2. /\ Kept(input, t) /\ mk \in Makes(DOMAIN input.make) /\ Closed(t) /\ Orderly(mk) /\ Grounded(input, t, orig) /\ input \in Inputs
      /\ locals = symbols(t) /\ OwnNames(mk, orig)
  BY <1>1 DEF IInv, After1, Finding, Renaming
<1>3. KconfigFiles(d) /\ Compat \in d /\ t \in Trees(d) /\ IsFiniteSet(DOMAIN input.make) /\ "." \in DOMAIN input.make
  BY <1>2, FilesAre DEF Kept, InFiles
<1>4. ASSUME NEW v \in D PROVE v \in Idle(t)
  <2>0. PICK x \in Makefiles(mk) : \E l \in Active(mk[x]) : v = l.sym /\ ~Satisfied(mk, code, x, l)
    BY <1>4 DEF get_impossible_symbols, Missing
  <2>1. PICK l \in Active(mk[x]) : v = l.sym /\ ~Satisfied(mk, code, x, l)
    BY <2>0
  <2>2. x \in DOMAIN input.make /\ DOMAIN mk = DOMAIN input.make /\ l \in Lines(mk[x]) /\ l.k = "obj"
    BY <1>2, <1>3, <2>1, FoundType DEF Active, Makes
  <2>3. v \in Symbol
    BY <1>2, <2>1, <2>2, MakeLinesTyped
  <2>4. Tidy(mk[x], l)
    BY <1>2, <2>2 DEF Orderly
  <2>5. l.sym[1] # "BUILD"
    BY <2>1, <2>2, <2>4 DEF Tidy, Satisfied
  <2> QED BY <2>1, <2>3, <2>5 DEF Idle
<1> HIDE DEF D
<1>5. /\ u \in Trees(d) /\ Keeps(t, u, Kinds)
      /\ \A f \in d : \A B, C : B \subseteq C /\ D \subseteq C /\ Owned(t[f], B) => Owned(u[f], C)
      /\ \A f \in Walk(t), v \in D : OffBehind(u[f], v)
  BY <1>3, Disable_
<1> HIDE DEF u
<1>6. Kept(input, u) /\ Grounded(input, u, orig) /\ Walk(u) = Walk(t) /\ symbols(u) = symbols(t) /\ all_selects(u) = all_selects(t)
  BY <1>2, <1>5, SameKept
<1>7. Closed(u)
  <2>1. Idle(u) = Idle(t)
    BY <1>6 DEF Idle
  <2>2. Owned(t[Compat], Idle(t)) /\ D \subseteq Idle(t)
    BY <1>2, <1>4 DEF Closed
  <2>3. Owned(u[Compat], Idle(t))
    BY <1>3, <1>5, <2>2
  <2> QED BY <1>2, <1>6, <2>1, <2>3 DEF Closed
<1>8. OffWhere(u, mk, code, D)
  BY <1>5, <1>6 DEF OffWhere, D
<1>9. SelectableIsBuildable' /\ RecursionDisabled'
  BY <1>1 DEF SelectableIsBuildable, RecursionDisabled, Done
<1>10. /\ Kept(input, kc)' /\ (mk \in Makes(DOMAIN input.make))' /\ Closed(kc)' /\ Orderly(mk)' /\ Grounded(input, kc, orig)'
       /\ OwnNames(mk, orig)' /\ (locals = symbols(kc))' /\ OffWhere(kc, mk, code, disable)'
  BY <1>1, <1>2, <1>6, <1>7, <1>8
<1> QED BY <1>1, <1>2, <1>9, <1>10 DEF IInv, Before1, Before2, After1, Renaming, Finding, Disabling

\* Dependencies on versions turn nothing on, and off only what they name.
LEMMA VersionsHolds == ASSUME IInv, Versions PROVE IInv'
<1> DEFINE d == InFiles(input)
           t == kc
           u == add_dependencies(t, input.deps)
<1>1. /\ input' = input /\ stage = "versions" /\ stage' = "makefiles" /\ kc' = u /\ orig' = orig
      /\ mk' = mk /\ code' = code /\ disable' = disable /\ locals' = locals
  BY DEF Versions, Goto
<1>2. /\ Kept(input, t) /\ mk \in Makes(DOMAIN input.make) /\ Closed(t) /\ Orderly(mk) /\ Grounded(input, t, orig) /\ input \in Inputs
      /\ locals = symbols(t) /\ OwnNames(mk, orig) /\ OffWhere(t, mk, code, disable)
  BY <1>1 DEF IInv, After1, Finding, Renaming, Disabling
<1>3. KconfigFiles(d) /\ Compat \in d /\ t \in Trees(d) /\ DOMAIN t = d /\ Sound(input.deps)
  BY <1>2, FilesAre DEF Kept, InFiles, Trees
<1>5. /\ u \in Trees(d) /\ Keeps(t, u, Kinds) /\ KeepsOwned(t, u)
      /\ \A f \in d : \A v : OffBehind(t[f], v) => OffBehind(u[f], v)
  BY <1>3, Depend_
<1> HIDE DEF u
<1>6. Kept(input, u) /\ Grounded(input, u, orig) /\ Walk(u) = Walk(t) /\ symbols(u) = symbols(t) /\ all_selects(u) = all_selects(t)
  BY <1>2, <1>5, SameKept
<1>7. Closed(u)
  <2>1. Idle(u) = Idle(t)
    BY <1>6 DEF Idle
  <2>2. Owned(u[Compat], Idle(t))
    BY <1>2, <1>3, <1>5 DEF Closed, KeepsOwned
  <2> QED BY <1>2, <1>6, <2>1, <2>2 DEF Closed
<1>8. OffWhere(u, mk, code, disable)
  <2>1. Walk(t) \subseteq d
    BY <1>3, WalkType
  <2> QED BY <1>2, <1>5, <1>6, <2>1 DEF OffWhere
<1>9. SelectableIsBuildable' /\ RecursionDisabled'
  BY <1>1 DEF SelectableIsBuildable, RecursionDisabled, Done
<1>10. /\ Kept(input, kc)' /\ (mk \in Makes(DOMAIN input.make))' /\ Closed(kc)' /\ Orderly(mk)' /\ Grounded(input, kc, orig)'
       /\ OwnNames(mk, orig)' /\ (locals = symbols(kc))' /\ OffWhere(kc, mk, code, disable)'
  BY <1>1, <1>2, <1>6, <1>7, <1>8
<1> QED BY <1>1, <1>2, <1>9, <1>10 DEF IInv, Before1, Before2, After1, Renaming, Finding, Disabling

\* A line whose option is disabled.
Hit(l) == l.k \in {"obj", "compat"} /\ l.pre # "y" /\ l.sym \in disable

\* Where the "#" lands.
LEMMA CommentedIs ==
    ASSUME NEW s \in Seq(MakeLine), NEW r, r = Commented(s)
    PROVE  /\ r \in Seq(MakeLine) /\ Len(r) = Len(s)
           /\ \A i \in 1 .. Len(s) : \/ r[i] = s[i]
                                     \/ r[i] = [s[i] EXCEPT !.k = "off"] /\ (Hit(s[i]) \/ s[i].k = "blank")
           /\ \A i \in 1 .. Len(s) : Hit(s[i]) /\ r[i] = s[i] => i > 1 /\ s[i - 1].k = "blank" /\ r[i - 1] = [s[i - 1] EXCEPT !.k = "off"]
<1> DEFINE n == Len(s)
           A(i) == Hit(s[i]) /\ (i = 1 \/ s[i - 1].k # "blank")
           B(i) == s[i].k = "blank" /\ i < n /\ Hit(s[i + 1])
           X(i) == [s[i] EXCEPT !.k = "off"]
<1>1. DOMAIN s = 1 .. n /\ n \in Nat /\ "off" \in Word
  BY DEF Word
<1>2. r = [i \in 1 .. n |-> IF A(i) THEN X(i) ELSE IF B(i) THEN X(i) ELSE s[i]]
  BY <1>1 DEF Commented, Hit
<1>3. ASSUME NEW i \in 1 .. n PROVE X(i) \in MakeLine /\ s[i] \in MakeLine /\ X(i).k = "off"
  <2>1. s[i] \in MakeLine
    BY <1>1
  <2> QED BY <1>1, <2>1 DEF MakeLine
<1> HIDE DEF X, A, B
<1>4. \A i \in 1 .. n : r[i] = IF A(i) THEN X(i) ELSE IF B(i) THEN X(i) ELSE s[i]
  BY <1>2
<1>5. r \in Seq(MakeLine) /\ Len(r) = n
  <2>1. r = [i \in 1 .. n |-> r[i]] /\ \A i \in 1 .. n : r[i] \in MakeLine
    BY <1>2, <1>3, <1>4
  <2> HIDE DEF n
  <2> QED BY <1>1, <2>1
<1>6. ASSUME NEW i \in 1 .. n PROVE r[i] = s[i] \/ (r[i] = X(i) /\ (Hit(s[i]) \/ s[i].k = "blank"))
  BY <1>4 DEF A, B
<1>7. ASSUME NEW i \in 1 .. n, Hit(s[i]), r[i] = s[i] PROVE i > 1 /\ s[i - 1].k = "blank" /\ r[i - 1] = X(i - 1)
  <2>1. ~A(i)
    <3> SUFFICES ASSUME A(i) PROVE FALSE
      OBVIOUS
    <3>1. r[i] = X(i)
      BY <1>4
    <3>2. s[i].k = "off"
      BY <1>3, <1>7, <3>1
    <3> QED BY <1>7, <3>2 DEF Hit
  <2>2. i # 1 /\ s[i - 1].k = "blank"
    BY <1>7, <2>1 DEF A
  <2> DEFINE j == i - 1
  <2>3. j \in 1 .. n /\ j < n /\ j + 1 = i
    BY <1>1, <2>2
  <2>4. B(j)
    BY <1>7, <2>2, <2>3 DEF B
  <2> HIDE DEF j
  <2>5. r[j] = X(j)
    BY <1>4, <2>3, <2>4
  <2>6. i > 1
    BY <1>1, <2>2
  <2> QED BY <2>2, <2>5, <2>6 DEF j
<1> QED BY <1>5, <1>6, <1>7 DEF X

\* An option that is off in every file cannot be selected.
LEMMA OffIsOff ==
    ASSUME NEW in \in Inputs, Kept(in, kc), NEW v, \A f \in Walk(kc) : OffBehind(kc[f], v)
    PROVE  ~Selectable(v)
<1> DEFINE d == InFiles(in)
<1>1. KconfigFiles(d) /\ kc \in Trees(d)
  BY FilesAre DEF Kept, InFiles
<1> SUFFICES ASSUME Options(v) # {} PROVE \E o \in Options(v) : HasLine(o, No)
  BY DEF Selectable, No
<1>2. PICK f \in Walk(kc) : \E i \in DOMAIN kc[f] : kc[f][i] = L("config", v) /\ <<f, i>> \in Options(v)
  BY DEF Options
<1>3. PICK i \in DOMAIN kc[f] : kc[f][i] = L("config", v) /\ <<f, i>> \in Options(v)
  BY <1>2
<1>4. f \in d /\ kc[f] \in Seq(Line)
  <2>1. f \in d
    BY <1>1, WalkType
  <2> QED BY <1>1, <2>1 DEF Trees
<1>5. PICK j \in DOMAIN kc[f] : i < j /\ kc[f][j] = No /\ Between(kc[f], i, j, {"config", "blank"})
  BY <1>3 DEF OffBehind
<1>6. j \in Block(kc[f], i)
  BY <1>4, <1>5 DEF Block, Between
<1>7. HasLine(<<f, i>>, No)
  BY <1>5, <1>6 DEF HasLine
<1> QED BY <1>3, <1>7

\* Commenting out an empty line changes its kind only.
LEMMA EmptyCommentedOut ==
    ASSUME NEW o, o = M("blank", "", NoSym, "")
    PROVE  [o EXCEPT !.k = "off"] = M("off", "", NoSym, "")
<1>1. PICK b, e, s : b = "blank" /\ e = "" /\ s = NoSym
  OBVIOUS
<1>2. o = M(b, e, s, e)
  BY <1>1
<1>3. [o EXCEPT !.k = "off"] = M("off", e, s, e)
  BY ONLY <1>2 DEF M
<1>4. M("off", e, s, e) = M("off", "", NoSym, "")
  BY ONLY <1>1
<1> QED BY ONLY <1>3, <1>4

\* A line whose code is missing and that still recurses has an empty line before it.
LEMMA DisableMakefilesHolds == ASSUME IInv, DisableMakefiles PROVE IInv'
<1> DEFINE d == DOMAIN input.make
           m == mk
           u == [x \in DOMAIN m |-> IF x \in Makefiles(m) THEN Commented(m[x]) ELSE m[x]]
<1>1. /\ input' = input /\ stage = "makefiles" /\ stage' = "done" /\ kc' = kc /\ orig' = orig
      /\ mk' = u /\ code' = code /\ disable' = disable /\ locals' = locals
  BY DEF DisableMakefiles, Goto
<1>2. /\ Kept(input, kc) /\ m \in Makes(d) /\ Closed(kc) /\ Orderly(m) /\ Grounded(input, kc, orig) /\ input \in Inputs
      /\ locals = symbols(kc) /\ OwnNames(m, orig) /\ OffWhere(kc, m, code, disable)
  BY <1>1 DEF IInv, After1, Finding, Renaming, Disabling
<1>3. DOMAIN m = d /\ DOMAIN u = d /\ IsFiniteSet(d) /\ "." \in d /\ \A x \in d : m[x] \in Seq(MakeLine)
  BY <1>2, FilesAre DEF Makes
<1>4. u = [x \in d |-> u[x]] /\ \A x \in d : u[x] = m[x] \/ u[x] = Commented(m[x])
  BY <1>3
<1>5. \A x \in Makefiles(m) : x \in d /\ u[x] = Commented(m[x])
  BY <1>2, <1>3, FoundType
<1> HIDE DEF u
<1>6. ASSUME NEW x \in d
      PROVE  /\ u[x] \in Seq(MakeLine) /\ Len(u[x]) = Len(m[x])
             /\ \A i \in 1 .. Len(m[x]) : \/ u[x][i] = m[x][i]
                                          \/ u[x][i] = [m[x][i] EXCEPT !.k = "off"] /\ (Hit(m[x][i]) \/ m[x][i].k = "blank")
  <2>1. CASE u[x] = m[x]
    BY <1>3, <2>1
  <2>2. CASE u[x] = Commented(m[x])
    BY <1>3, <2>2, CommentedIs
  <2> QED BY <1>4, <2>1, <2>2
\* Where each line comes from.
<1>7. ASSUME NEW x \in d, NEW l \in Lines(u[x])
      PROVE  \E o \in Lines(m[x]) : /\ o \in MakeLine
                                    /\ l = o \/ (l = [o EXCEPT !.k = "off"] /\ (Hit(o) \/ o.k = "blank"))
  <2>1. PICK i \in DOMAIN u[x] : l = u[x][i]
    BY DEF Lines, Range
  <2>2. i \in 1 .. Len(m[x]) /\ i \in DOMAIN m[x]
    BY <1>3, <1>6, <2>1
  <2>3. m[x][i] \in Lines(m[x])
    BY <2>2 DEF Lines, Range
  <2>4. m[x][i] \in MakeLine
    BY <1>2, <2>3, MakeLinesTyped
  <2> QED BY <1>6, <2>1, <2>2, <2>3, <2>4
<1>8. \A o \in MakeLine : LET l == [o EXCEPT !.k = "off"] IN l.k = "off" /\ l.pre = o.pre /\ l.sym = o.sym /\ l.tgt = o.tgt
  BY DEF MakeLine
<1>9. u \in Makes(d)
  BY <1>4, <1>6 DEF Makes
<1>10. OwnNames(u, orig)
  <2>1. ASSUME NEW x \in d, NEW l \in Lines(u[x]), l.pre = "CONFIG" PROVE l.sym \notin orig
    <3>1. PICK o \in Lines(m[x]) : o \in MakeLine /\ (l = o \/ l = [o EXCEPT !.k = "off"])
      BY <1>7
    <3>2. o.pre = "CONFIG" /\ l.sym = o.sym
      BY <1>8, <2>1, <3>1
    <3> QED BY <1>2, <1>3, <3>1, <3>2 DEF OwnNames
  <2> QED BY <1>3, <2>1 DEF OwnNames
<1>11. Makefiles(u) \subseteq Makefiles(m)
  <2>1. ASSUME NEW x \in d, NEW l \in Lines(u[x]), l.k = "obj" PROVE l \in Lines(m[x])
    <3>1. PICK o \in Lines(m[x]) : o \in MakeLine /\ (l = o \/ l = [o EXCEPT !.k = "off"])
      BY <1>7
    <3>2. l = o
      BY <1>8, <2>1, <3>1
    <3> QED BY <3>2
  <2>2. \A x \in d : Targets(u[x]) \subseteq Targets(m[x])
    BY <2>1 DEF Targets, Active
  <2> QED BY <1>2, <1>3, <1>9, <2>2, FoundShrinks
\* Commenting out changes nothing that a line needs.
<1>12. ASSUME NEW x \in d, NEW l, NEW o, l.tgt = o.tgt, Satisfied(m, code, x, o) PROVE Satisfied(u, code, x, l)
  <2>1. CASE o.tgt \in DOMAIN m \union code
    BY <1>3, <1>12, <2>1 DEF Satisfied
  <2>2. ASSUME NEW p \in Lines(m[x]), p.k = "objs", p.tgt = o.tgt PROVE Satisfied(u, code, x, l)
    <3>1. PICK i \in DOMAIN m[x] : p = m[x][i]
      BY DEF Lines, Range
    <3>2. i \in 1 .. Len(m[x]) /\ i \in DOMAIN u[x]
      BY <1>3, <1>6, <3>1
    <3>3. u[x][i] = p
      BY <1>6, <2>2, <3>1, <3>2 DEF Hit
    <3>4. p \in Lines(u[x])
      BY <3>2, <3>3 DEF Lines, Range
    <3> QED BY <1>12, <2>2, <3>4 DEF Satisfied
  <2> QED BY <1>12, <2>1, <2>2 DEF Satisfied
<1>13. ASSUME NEW x \in Makefiles(m), NEW o \in Lines(m[x]), o.k = "obj", ~Satisfied(m, code, x, o) PROVE o.sym \in disable
  BY <1>2, <1>13 DEF OffWhere, get_impossible_symbols, Missing, Active
<1>14. \A v \in disable : ~Selectable(v)
  BY <1>2, OffIsOff DEF OffWhere
<1>15. ASSUME NEW x \in Makefiles(u), NEW l \in Lines(u[x]), l.k \in {"obj", "off"}, l.pre = "CPTCFG", Selectable(l.sym)
       PROVE  Satisfied(u, code, x, l)
  <2>1. x \in Makefiles(m) /\ x \in d
    BY <1>5, <1>11
  <2>2. PICK o \in Lines(m[x]) : o \in MakeLine /\ (l = o \/ (l = [o EXCEPT !.k = "off"] /\ (Hit(o) \/ o.k = "blank")))
    BY <1>7, <2>1
  <2>3. Tidy(m[x], o)
    BY <1>2, <1>3, <2>1 DEF Orderly
  <2>4. CASE l = o
    <3>1. o.k = "obj"
      BY <1>15, <2>3, <2>4 DEF Tidy
    <3>2. Satisfied(m, code, x, o)
      BY <1>13, <1>14, <1>15, <2>1, <2>4, <3>1
    <3> QED BY <1>12, <2>1, <2>4, <3>2
  <2>5. CASE l = [o EXCEPT !.k = "off"] /\ Hit(o)
    <3>1. l.sym = o.sym
      BY <1>8, <2>2, <2>5
    <3> QED BY <1>14, <1>15, <2>5, <3>1 DEF Hit
  <2>6. CASE l = [o EXCEPT !.k = "off"] /\ o.k = "blank"
    <3>1. l.pre = o.pre
      BY <1>8, <2>2, <2>6
    <3>2. o = M("blank", "", NoSym, "")
      BY <2>3, <2>6 DEF Tidy
    <3>3. l.pre = ""
      BY <3>1, <3>2 DEF M
    <3> QED BY <1>15, <3>3
  <2> QED BY <2>2, <2>4, <2>5, <2>6
<1>16. ASSUME NEW x \in Makefiles(u), NEW i \in DOMAIN u[x], u[x][i] \in Active(u[x]), u[x][i].pre # "y", ~Satisfied(u, code, x, u[x][i])
       PROVE  i > 1 /\ u[x][i - 1] = M("off", "", NoSym, "")
  <2>1. x \in Makefiles(m) /\ x \in d /\ u[x] = Commented(m[x])
    BY <1>5, <1>11
  <2>2. i \in 1 .. Len(m[x]) /\ i \in DOMAIN m[x]
    BY <1>3, <1>6, <2>1
  <2>3. u[x][i].k = "obj"
    BY <1>16 DEF Active
  <2>a. m[x][i] \in Lines(m[x])
    BY <2>2 DEF Lines, Range
  <2>b. m[x][i] \in MakeLine
    BY <1>2, <2>1, <2>a, MakeLinesTyped
  <2>4. u[x][i] = m[x][i]
    BY <1>6, <1>8, <2>1, <2>2, <2>3, <2>b
  <2>5. ~Satisfied(m, code, x, m[x][i])
    BY <1>12, <1>16, <2>1, <2>4
  <2>6. m[x][i].sym \in disable
    BY <1>13, <2>1, <2>3, <2>4, <2>5, <2>a
  <2>7. Hit(m[x][i])
    BY <1>16, <2>3, <2>4, <2>6 DEF Hit
  <2>8. i > 1 /\ m[x][i - 1].k = "blank" /\ u[x][i - 1] = [m[x][i - 1] EXCEPT !.k = "off"]
    BY <1>3, <2>1, <2>2, <2>4, <2>7, CommentedIs
  <2> DEFINE o == m[x][i - 1]
  <2>9. i - 1 \in DOMAIN m[x]
    BY <1>3, <2>1, <2>2, <2>8
  <2>10. o \in Lines(m[x])
    BY <2>9 DEF Lines, Range
  <2>11. o = M("blank", "", NoSym, "")
    BY <1>2, <1>3, <2>1, <2>8, <2>10 DEF Orderly, Tidy
  <2> HIDE DEF o
  <2> DEFINE p == [o EXCEPT !.k = "off"]
  <2>12. p = M("off", "", NoSym, "")
    BY ONLY <2>11, EmptyCommentedOut
  <2> QED BY <2>8, <2>12 DEF o
<1>17. SelectableIsBuildable'
  <2>1. \A v : Selectable(v)' = Selectable(v)
    BY <1>1 DEF Selectable, Options, HasLine
  <2> QED BY <1>1, <1>15, <2>1 DEF SelectableIsBuildable
<1>18. RecursionDisabled'
  BY <1>1, <1>16 DEF RecursionDisabled
<1>19. /\ Kept(input, kc)' /\ (mk \in Makes(DOMAIN input.make))' /\ Closed(kc)' /\ Grounded(input, kc, orig)'
       /\ OwnNames(mk, orig)' /\ (locals = symbols(kc))'
  BY <1>1, <1>2, <1>9, <1>10
<1> QED BY <1>1, <1>2, <1>17, <1>18, <1>19 DEF IInv, Before1, Before2, After1, Renaming, Finding, Disabling

-----------------------------------------------------------------------------

\* The invariant holds in every stage.
LEMMA GentreeInductive == Spec => []IInv
<1>1. Init => IInv
  BY DEF Init, IInv, Before1, Before2, After1, Renaming, Finding, Disabling, SelectableIsBuildable, RecursionDisabled, Done
<1>2. IInv /\ [Next]_gvars => IInv'
  <2> SUFFICES ASSUME IInv, [Next]_gvars PROVE IInv'
    OBVIOUS
  <2>1. CASE Copy
    BY <2>1, CopyHolds
  <2>2. CASE AddAutomaticBackports
    BY <2>2, AutoHolds
  <2>3. CASE ApplyPatches
    BY <2>3, ApplyPatchesHolds
  <2>4. CASE PatchFails
    BY <2>4, PatchFailsHolds
  <2>5. CASE Prune
    BY <2>5, PruneHolds
  <2>6. CASE Modular
    BY <2>6, ModularHolds
  <2>7. CASE Adjust
    BY <2>7, AdjustHolds
  <2>8. CASE Selects
    BY <2>8, SelectsHolds
  <2>9. CASE Locals
    BY <2>9, LocalsHolds
  <2>10. CASE Rename
    BY <2>10, RenameHolds
  <2>11. CASE Impossible
    BY <2>11, ImpossibleHolds
  <2>12. CASE Versions
    BY <2>12, VersionsHolds
  <2>13. CASE DisableMakefiles
    BY <2>13, DisableMakefilesHolds
  <2>14. CASE UNCHANGED gvars
    <3>1. \A v : Selectable(v)' = Selectable(v)
      BY <2>14 DEF gvars, Selectable, Options, HasLine
    <3>2. SelectableIsBuildable' /\ RecursionDisabled'
      BY <2>14, <3>1 DEF gvars, IInv, SelectableIsBuildable, RecursionDisabled, Done
    <3> QED BY <2>14, <3>2 DEF gvars, IInv
  <2> QED BY <2>1, <2>2, <2>3, <2>4, <2>5, <2>6, <2>7, <2>8, <2>9, <2>10, <2>11, <2>12, <2>13, <2>14 DEF Next
<1> QED BY <1>1, <1>2, PTL DEF Spec

\* A backported option that something selects can be selected.
LEMMA ServedIsOn ==
    ASSUME NEW in \in Inputs, Kept(in, kc), Closed(kc), NEW x, <<"BPAUTO", x>> \in all_selects(kc), <<"BUILD", x>> \in symbols(kc)
    PROVE  Selectable(<<"BUILD", x>>)
<1> DEFINE d == InFiles(in)
           v == <<"BUILD", x>>
<1>0. v[1] = "BUILD" /\ v[2] = x
  OBVIOUS
<1>1. KconfigFiles(d) /\ kc \in Trees(d) /\ Walk(kc) \subseteq d /\ Compat \in d
  BY FilesAre, WalkType DEF Kept, InFiles
<1>a. v \in symbols(kc) /\ <<"BPAUTO", v[2]>> \in all_selects(kc)
  OBVIOUS
<1> HIDE DEF v
<1>2. Options(v) # {}
  <2>1. PICK f \in Walk(kc) : v \in Declared(kc[f])
    BY <1>a DEF symbols
  <2>2. kc[f] \in Seq(Line)
    BY <1>1, <2>1 DEF Trees
  <2>3. PICK l \in Lines(kc[f]) : l.k = "config" /\ l.v = v
    BY <2>1 DEF Declared
  <2>4. PICK i \in DOMAIN kc[f] : kc[f][i] = l
    BY DEF Lines, Range
  <2>5. kc[f][i] = L("config", v)
    <3>1. i \in 1 .. Len(kc[f])
      BY <2>2
    <3>2. kc[f][i] = L(kc[f][i].k, kc[f][i].v)
      BY <2>2, <3>1, LinesTyped
    <3> QED BY <2>3, <2>4, <3>2
  <2>6. i \in {j \in DOMAIN kc[f] : kc[f][j] = L("config", v)}
    BY <2>4, <2>5
  <2>7. <<f, i>> \in {<<f, j>> : j \in {j \in DOMAIN kc[f] : kc[f][j] = L("config", v)}}
    BY <2>6
  <2>8. <<f, i>> \in Options(v)
    BY <2>1, <2>7 DEF Options
  <2> QED BY <2>8
<1>3. ASSUME NEW o \in Options(v), HasLine(o, No) PROVE FALSE
  <2>1. PICK f \in Walk(kc) : \E i \in DOMAIN kc[f] : kc[f][i] = L("config", v) /\ o = <<f, i>>
    BY DEF Options
  <2>2. PICK i \in DOMAIN kc[f] : kc[f][i] = L("config", v) /\ o = <<f, i>>
    BY <2>1
  <2>3. L("config", v).k = "config" /\ L("config", v).v = v
    BY DEF L
  <2>4. f \in d /\ kc[f] \in Seq(Line)
    BY <1>1 DEF Trees
  <2>5. v \in Declared(in.kconfig[f])
    <3>1. kc[f][i] \in Lines(kc[f])
      BY DEF Lines, Range
    <3>2. v \in Declared(kc[f])
      BY <2>2, <2>3, <3>1 DEF Declared
    <3> QED BY <2>4, <3>2 DEF Kept, InFiles
  <2>6. f = Compat
    BY <1>0, <2>4, <2>5, NamesAre
  <2>7. PICK j \in Block(kc[f], i) : kc[f][j] = No
    BY <1>3, <2>2 DEF HasLine
  <2>8. j \in DOMAIN kc[f] /\ j > i /\ \A n \in i + 1 .. j : kc[f][n].k \notin {"config", "blank"}
    BY <2>7 DEF Block
  <2>9. PICK p \in DOMAIN kc[f] : p < j /\ kc[f][p].k = "config" /\ kc[f][p].v \in Idle(kc) /\ Between(kc[f], p, j, {"config"})
    BY <2>6, <2>7, <2>8 DEF Closed, Owned
  <2>10. i \in Nat /\ j \in Nat /\ p \in Nat
    BY <2>4, <2>8
  <2>11. ~(p < i)
    BY <2>2, <2>3, <2>8, <2>9, <2>10 DEF Between
  <2>12. ~(p > i)
    BY <2>8, <2>9, <2>10
  <2>13. p = i
    BY <2>10, <2>11, <2>12
  <2>14. v \in Idle(kc)
    BY <2>2, <2>3, <2>9, <2>13
  <2> QED BY <1>0, <1>a, <2>14 DEF Idle
<1> QED BY <1>2, <1>3 DEF Selectable, No, v

\* NothingDangles: for any source trees, the Kconfig files of the output source
\* and select only what exists, and the backported code of an option that is
\* selected can be selected (kconfig.py:87-100, gentree.py:880-910).
THEOREM NothingDanglesHolds == Spec => []NothingDangles
<1>1. IInv => NothingDangles
  <2> SUFFICES ASSUME IInv, Done PROVE NothingDangles
    BY DEF NothingDangles, NoDanglingSource, SelectsAreServed
  <2>1. stage = "done" /\ input \in Inputs /\ Kept(input, kc) /\ Closed(kc) /\ Grounded(input, kc, orig)
    BY DEF IInv, Done, After1
  <2>2. kc \in Trees(InFiles(input)) /\ KconfigFiles(InFiles(input)) /\ DOMAIN kc = DOMAIN input.kconfig
    BY <2>1, FilesAre DEF Kept, InFiles, Trees
  <2>3. NoDanglingSource
    BY <2>1, <2>2 DEF NoDanglingSource, Grounded
  <2>4. ASSUME NEW s \in all_selects(kc)
        PROVE  /\ s \in symbols(kc)
               /\ s[1] = "BPAUTO" /\ <<"BUILD", s[2]>> \in symbols(kc) => Selectable(<<"BUILD", s[2]>>)
    <3>1. s \in symbols(kc)
      BY <2>1 DEF Closed
    <3>2. s \in Symbol
      <4>1. PICK f \in Walk(kc) : s \in Selected(kc[f])
        BY DEF all_selects
      <4>2. kc[f] \in Seq(Line)
        BY <2>2, WalkType DEF Trees
      <4>3. PICK l \in Range(kc[f]) : s = l.v
        BY <4>1 DEF Selected, Lines
      <4>4. PICK i \in 1 .. Len(kc[f]) : l = kc[f][i]
        BY <4>2 DEF Range
      <4> QED BY <4>2, <4>3, <4>4, LinesTyped
    <3>3. s = <<s[1], s[2]>>
      BY <3>2 DEF Symbol
    <3>4. ASSUME s[1] = "BPAUTO", <<"BUILD", s[2]>> \in symbols(kc) PROVE Selectable(<<"BUILD", s[2]>>)
      <4>1. <<"BPAUTO", s[2]>> \in all_selects(kc)
        BY <3>3, <3>4
      <4> QED BY <2>1, <3>4, <4>1, ServedIsOn
    <3> QED BY <3>1, <3>4
  <2>5. SelectsAreServed
    BY <2>4 DEF SelectsAreServed, all_selects
  <2> QED BY <2>3, <2>5 DEF NothingDangles
<1> QED BY <1>1, GentreeInductive, PTL

\* BuildsWhatItOffers: for any source trees, what can be selected can be built,
\* no Makefile refers to an option of the package by its kernel name, and none
\* recurses into what is missing (gentree.py:980-1109).
THEOREM BuildsWhatItOffersHolds == Spec => []BuildsWhatItOffers
<1>1. IInv => BuildsWhatItOffers
  <2> SUFFICES ASSUME IInv PROVE BuildsWhatItOffers
    OBVIOUS
  <2>1. NoKernelLeak
    <3> SUFFICES ASSUME Done PROVE NoKernelLeak
      BY DEF NoKernelLeak
    <3>1. /\ input \in Inputs /\ locals = symbols(kc) /\ symbols(kc) \subseteq orig /\ OwnNames(mk, orig)
          /\ mk \in Makes(DOMAIN input.make)
      BY DEF IInv, Done, After1, Grounded, Before1, Before2, Renaming, Finding
    <3>2. DOMAIN mk = DOMAIN input.make /\ Makefiles(mk) \subseteq DOMAIN mk
      BY <3>1, FilesAre, FoundType DEF Makes
    <3> QED BY <3>1, <3>2 DEF NoKernelLeak, OwnNames
  <2> QED BY <2>1 DEF BuildsWhatItOffers, IInv
<1> QED BY <1>1, GentreeInductive, PTL
=============================================================================
