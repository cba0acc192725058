-------------------------- MODULE MuExtractProofs --------------------------
(***************************************************************************)
(* Proofs about MuExtract for all messages and requests: what the walk of  *)
(* a message hands out, and what saving its parts promises.                *)
(***************************************************************************)
EXTENDS MuExtract, SequenceTheorems, WellFoundedInduction, TLAPS

-----------------------------------------------------------------------------
(* Sequences.                                                              *)

\* Induction: a set of numbers has a least one, so a property that fails for
\* some number fails for one before which it holds.
LEMMA LeastNat ==
  ASSUME NEW S \in SUBSET Nat, S # {}
  PROVE  \E n \in S : \A k \in S : n <= k
<1> DEFINE R == OpToRel(<, Nat)
<1>1. IsWellFoundedOn(R, Nat)
  BY NatLessThanWellFounded
<1>2. \A x, y \in Nat : x < y => <<x, y>> \in R
  BY DEF OpToRel
<1> HIDE DEF R
<1>3. PICK n \in S : \A k \in S : ~(<<k, n>> \in R)
  BY <1>1, WFMin
<1>4. ASSUME NEW k \in S PROVE n <= k
  <2>1. n \in Nat /\ k \in Nat
    OBVIOUS
  <2>2. ~(k < n)
    BY <1>2, <1>3, <2>1
  <2> QED
    BY <2>1, <2>2
<1> QED
  BY <1>4

LEMMA ToSetIs ==
  ASSUME NEW S, NEW s \in Seq(S)
  PROVE  \A x : x \in ToSet(s) <=> \E i \in 1..Len(s) : x = s[i]
BY DEF ToSet

LEMMA SingleIs ==
  ASSUME NEW S, NEW t \in S
  PROVE  /\ <<t>> \in Seq(S)
         /\ \A x : x \in ToSet(<<t>>) <=> x = t
<1>1. <<t>> \in Seq(S) /\ Len(<<t>>) = 1 /\ <<t>>[1] = t
  OBVIOUS
<1>2. \A x : x \in ToSet(<<t>>) <=> \E i \in 1..Len(<<t>>) : x = <<t>>[i]
  BY <1>1, ToSetIs, Zenon
<1>3. \A i \in 1..1 : i = 1
  OBVIOUS
<1> QED
  BY <1>1, <1>2, <1>3

LEMMA ConcatIs ==
  ASSUME NEW S, NEW a \in Seq(S), NEW b \in Seq(S)
  PROVE  /\ a \o b \in Seq(S)
         /\ \A x : x \in ToSet(a \o b) <=> x \in ToSet(a) \/ x \in ToSet(b)
<1>1. a \o b \in Seq(S) /\ Len(a) \in Nat /\ Len(b) \in Nat
  OBVIOUS
<1>2. \A k \in 1..Len(a) : k \in 1..Len(a \o b) /\ (a \o b)[k] = a[k]
  OBVIOUS
<1>3. \A k \in 1..Len(b) : /\ k + Len(a) \in 1..Len(a \o b)
                           /\ (a \o b)[k + Len(a)] = b[k]
  OBVIOUS
<1>4. \A k \in 1..Len(a \o b) : k \in 1..Len(a)
                                \/ (k - Len(a) \in 1..Len(b) /\ (k - Len(a)) + Len(a) = k)
  OBVIOUS
<1>5. /\ \A x : x \in ToSet(a) <=> \E i \in 1..Len(a) : x = a[i]
      /\ \A x : x \in ToSet(b) <=> \E i \in 1..Len(b) : x = b[i]
      /\ \A x : x \in ToSet(a \o b) <=> \E i \in 1..Len(a \o b) : x = (a \o b)[i]
  BY <1>1, ToSetIs, Zenon
<1>6. ASSUME NEW x, x \in ToSet(a \o b) PROVE x \in ToSet(a) \/ x \in ToSet(b)
  <2>1. PICK k \in 1..Len(a \o b) : x = (a \o b)[k]
    BY <1>5, <1>6, Zenon
  <2>2. CASE k \in 1..Len(a)
    BY <1>2, <1>5, <2>1, <2>2, Zenon
  <2>3. CASE k - Len(a) \in 1..Len(b) /\ (k - Len(a)) + Len(a) = k
    <3>1. x = b[k - Len(a)]
      BY <1>3, <2>1, <2>3, Zenon
    <3> QED
      BY <1>5, <2>3, <3>1, Zenon
  <2> QED
    BY <1>4, <2>1, <2>2, <2>3, Zenon
<1>7. ASSUME NEW x, x \in ToSet(a) \/ x \in ToSet(b) PROVE x \in ToSet(a \o b)
  <2>1. CASE x \in ToSet(a)
    <3>1. PICK k \in 1..Len(a) : x = a[k]
      BY <1>5, <2>1, Zenon
    <3> QED
      BY <1>2, <1>5, <3>1, Zenon
  <2>2. CASE x \in ToSet(b)
    BY <1>3, <1>5, <2>2, Zenon
  <2> QED
    BY <1>7, <2>1, <2>2
<1> QED
  BY <1>1, <1>6, <1>7, Zenon

\* f is a value of the recursive definition in FlattenSeq, for the first n of
\* the sequences ss.
Flattens(ss, n, f) ==
  f = [i \in 1..n |-> IF i = 1 THEN ss[i] ELSE f[i - 1] \o ss[i]]

\* The least n without a value would get one from that of n - 1.
LEMMA FlattenExists ==
  ASSUME NEW ss, NEW n \in Nat
  PROVE  \E f : Flattens(ss, n, f)
<1> DEFINE Bad == {k \in Nat : ~\E f : Flattens(ss, k, f)}
<1>1. SUFFICES ASSUME Bad # {} PROVE FALSE
  OBVIOUS
<1>2. PICK k \in Bad : \A j \in Bad : k <= j
  BY <1>1, LeastNat
<1>3. k \in Nat /\ ~\E f : Flattens(ss, k, f)
  OBVIOUS
<1>4. \A j \in Nat : j < k => \E f : Flattens(ss, j, f)
  <2> SUFFICES ASSUME NEW j \in Nat, j < k PROVE j \notin Bad
    OBVIOUS
  <2> HIDE DEF Bad
  <2> QED
    BY <1>2, <1>3
<1> HIDE DEF Bad
<1>5. CASE k = 0
  <2> DEFINE f == [i \in 1..0 |-> ss[i]]
  <2>1. f = [i \in 1..0 |-> IF i = 1 THEN ss[i] ELSE f[i - 1] \o ss[i]]
    OBVIOUS
  <2> QED
    BY <1>3, <1>5, <2>1 DEF Flattens
<1>6. CASE k # 0
  <2>1. k - 1 \in Nat /\ k - 1 < k
    BY <1>3, <1>6
  <2>2. PICK g : Flattens(ss, k - 1, g)
    BY <1>4, <2>1
  <2> DEFINE f == [i \in 1..k |-> IF i = k
                                  THEN IF k = 1 THEN ss[k] ELSE g[k - 1] \o ss[k]
                                  ELSE g[i]]
             r == [i \in 1..k |-> IF i = 1 THEN ss[i] ELSE f[i - 1] \o ss[i]]
  <2>3. \A i \in 1..k : f[i] = r[i]
    <3> SUFFICES ASSUME NEW i \in 1..k PROVE f[i] = r[i]
      OBVIOUS
    <3>1. CASE i = k
      <4>1. CASE k = 1
        BY <3>1, <4>1
      <4>2. CASE k # 1
        <5>1. k - 1 \in 1..k /\ k - 1 # k
          BY <1>3, <1>6, <4>2
        <5> QED
          BY <3>1, <4>2, <5>1
      <4> QED
        BY <4>1, <4>2
    <3>2. CASE i # k
      <4>1. i \in 1..(k - 1)
        BY <1>3, <3>2
      <4>2. g[i] = IF i = 1 THEN ss[i] ELSE g[i - 1] \o ss[i]
        BY <2>2, <4>1 DEF Flattens
      <4>3. CASE i = 1
        BY <3>2, <4>2, <4>3
      <4>4. CASE i # 1
        <5>1. i - 1 \in 1..k /\ i - 1 # k
          BY <1>3, <4>1, <4>4
        <5> QED
          BY <3>2, <4>2, <4>4, <5>1
      <4> QED
        BY <4>3, <4>4
    <3> QED
      BY <3>1, <3>2
  <2>4. f = r
    BY <2>3
  <2>5. Flattens(ss, k, f)
    BY <2>4 DEF Flattens
  <2> QED
    BY <1>3, <2>5
<1> QED
  BY <1>5, <1>6

\* What holds of the first sequence, and of each further one if of the one
\* before it, holds of all.
LEMMA ToTheEnd ==
  ASSUME NEW n \in Nat \ {0}, NEW G \in SUBSET (1..n), 1 \in G,
         \A i \in 1..n : i # 1 /\ i - 1 \in G => i \in G
  PROVE  G = 1..n
<1> SUFFICES ASSUME (1..n) \ G # {} PROVE FALSE
  OBVIOUS
<1>1. PICK i \in (1..n) \ G : \A j \in (1..n) \ G : i <= j
  <2>1. (1..n) \ G \in SUBSET Nat
    OBVIOUS
  <2> QED
    BY <2>1, LeastNat
<1>2. i # 1 /\ i - 1 \in 1..n /\ ~(i <= i - 1)
  OBVIOUS
<1>3. i - 1 \in G
  BY <1>1, <1>2
<1> QED
  BY <1>2, <1>3

\* FlattenSeq(ss) has what the sequences of ss have.
LEMMA FlattenIs ==
  ASSUME NEW S, NEW ss \in Seq(Seq(S))
  PROVE  /\ FlattenSeq(ss) \in Seq(S)
         /\ \A x : x \in ToSet(FlattenSeq(ss)) <=> \E i \in 1..Len(ss) : x \in ToSet(ss[i])
<1> DEFINE n == Len(ss)
           f == CHOOSE g : Flattens(ss, n, g)
<1>1. n \in Nat /\ \A i \in 1..n : ss[i] \in Seq(S)
  OBVIOUS
<1>2. Flattens(ss, n, f)
  BY <1>1, FlattenExists
<1>3. CASE n = 0
  <2>1. FlattenSeq(ss) = <<>> /\ ss = <<>>
    BY <1>3, EmptySeq DEF FlattenSeq
  <2> QED
    BY <1>3, <2>1 DEF ToSet
<1>4. CASE n # 0
  <2>1. FlattenSeq(ss) = f[n]
    BY <1>4 DEF FlattenSeq, Flattens
  <2> HIDE DEF f
  <2> DEFINE Good(i) ==
               /\ f[i] \in Seq(S)
               /\ \A x : x \in ToSet(f[i]) <=> \E j \in 1..i : x \in ToSet(ss[j])
             G == {i \in 1..n : Good(i)}
  <2>2. Good(1)
    <3>1. f[1] = ss[1]
      BY <1>1, <1>2, <1>4 DEF Flattens
    <3>2. \A j \in 1..1 : j = 1
      OBVIOUS
    <3> QED
      BY <1>1, <1>4, <3>1, <3>2
  <2>3. ASSUME NEW i \in 1..n, i # 1, Good(i - 1) PROVE Good(i)
    <3>1. i - 1 \in 1..n /\ i \in Nat
      BY <1>1, <2>3
    <3>2. f[i] = f[i - 1] \o ss[i]
      BY <1>2, <2>3 DEF Flattens
    <3>3. /\ f[i] \in Seq(S)
          /\ \A x : x \in ToSet(f[i]) <=> x \in ToSet(f[i - 1]) \/ x \in ToSet(ss[i])
      BY <1>1, <2>3, <3>2, ConcatIs, Zenon
    <3>4. \A j : j \in 1..i <=> j = i \/ j \in 1..(i - 1)
      BY <3>1
    <3> QED
      BY <2>3, <3>3, <3>4, Zenon
  <2>4. G = 1..n
    <3> HIDE DEF Good
    <3>1. /\ n \in Nat \ {0} /\ G \in SUBSET (1..n) /\ 1 \in G
          /\ \A i \in 1..n : i # 1 /\ i - 1 \in G => i \in G
      BY <1>1, <1>4, <2>2, <2>3
    <3> HIDE DEF G, n
    <3> QED
      BY <3>1, ToTheEnd, Zenon
  <2>5. Good(n)
    <3>1. n \in 1..n
      BY <1>1, <1>4
    <3> HIDE DEF Good
    <3> QED
      BY <2>4, <3>1
  <2> QED
    BY <2>1, <2>5, Zenon
<1> QED
  BY <1>3, <1>4

\* A sequence is what its items, one by one, make.
LEMMA SinglesAre ==
  ASSUME NEW S, NEW s \in Seq(S), NEW ss \in Seq(Seq(S)), Len(ss) = Len(s),
         \A i \in 1..Len(s) : ss[i] = <<s[i]>>
  PROVE  FlattenSeq(ss) = s
<1> DEFINE n == Len(ss)
           f == CHOOSE g : Flattens(ss, n, g)
<1>1. n \in Nat /\ Len(s) = n /\ \A i \in 1..n : ss[i] \in Seq(S) /\ s[i] \in S
  OBVIOUS
<1>2. Flattens(ss, n, f)
  BY <1>1, FlattenExists
<1>3. CASE n = 0
  <2>1. FlattenSeq(ss) = <<>> /\ s = <<>>
    BY <1>1, <1>3, EmptySeq DEF FlattenSeq
  <2> QED
    BY <2>1
<1>4. CASE n # 0
  <2>1. FlattenSeq(ss) = f[n]
    BY <1>4 DEF FlattenSeq, Flattens
  <2> HIDE DEF f
  <2> DEFINE Good(i) == /\ f[i] \in Seq(S) /\ Len(f[i]) = i
                        /\ \A k \in 1..i : f[i][k] = s[k]
             G == {i \in 1..n : Good(i)}
  <2>2. Good(1)
    <3>1. f[1] = ss[1]
      BY <1>1, <1>2, <1>4 DEF Flattens
    <3>2. ss[1] = <<s[1]>> /\ s[1] \in S /\ \A k \in 1..1 : k = 1
      BY <1>1, <1>4
    <3>3. f[1] = <<s[1]>>
      BY <3>1, <3>2, Zenon
    <3> QED
      BY <3>2, <3>3
  <2>3. ASSUME NEW i \in 1..n, i # 1, Good(i - 1) PROVE Good(i)
    <3>1. i - 1 \in 1..n /\ i \in Nat
      BY <1>1, <2>3
    <3>2. f[i] = f[i - 1] \o <<s[i]>>
      BY <1>1, <1>2, <2>3 DEF Flattens
    <3>3. s[i] \in S
      BY <1>1
    <3> DEFINE before == f[i - 1]
               x == s[i]
    <3>4. f[i] = before \o <<x>> /\ before \in Seq(S) /\ Len(before) = i - 1 /\ x \in S
      BY <2>3, <3>2, <3>3
    <3>5. \A k \in 1..(i - 1) : before[k] = s[k]
      BY <2>3
    <3> HIDE DEF before, x
    <3>6. /\ f[i] \in Seq(S) /\ Len(f[i]) = i /\ f[i][i] = x
          /\ \A k \in 1..(i - 1) : f[i][k] = before[k]
      BY <3>1, <3>4
    <3>7. \A k \in 1..i : k = i \/ k \in 1..(i - 1)
      BY <3>1
    <3> QED
      BY <3>5, <3>6, <3>7 DEF x
  <2>4. G = 1..n
    <3> HIDE DEF Good
    <3>1. /\ n \in Nat \ {0} /\ G \in SUBSET (1..n) /\ 1 \in G
          /\ \A i \in 1..n : i # 1 /\ i - 1 \in G => i \in G
      BY <1>1, <1>4, <2>2, <2>3
    <3> HIDE DEF G, n
    <3> QED
      BY <3>1, ToTheEnd, Zenon
  <2>5. Good(n)
    <3>1. n \in 1..n
      BY <1>1, <1>4
    <3> HIDE DEF Good
    <3> QED
      BY <2>4, <3>1
  <2> DEFINE t == f[n]
  <2>6. t \in Seq(S) /\ Len(t) = n /\ \A k \in 1..n : t[k] = s[k]
    BY <2>5
  <2> HIDE DEF t
  <2>7. t = [k \in 1..n |-> t[k]]
    BY <2>6
  <2>8. s = [k \in 1..n |-> s[k]]
    BY <1>1
  <2> HIDE DEF n
  <2>9. [k \in 1..n |-> t[k]] = [k \in 1..n |-> s[k]]
    BY <2>6
  <2>10. t = s
    BY <2>7, <2>8, <2>9
  <2> QED
    BY <2>1, <2>10 DEF t, n
<1> QED
  BY <1>3, <1>4

\* The ranks that r gives to what is in s go up.
Rising(s, r) == \A k, l \in 1..Len(s) : k < l => r[s[k]] < r[s[l]]

\* They do if they go up in and between the sequences that s is made of.
LEMMA FlattenRises ==
  ASSUME NEW S, NEW r \in [S -> Int], NEW ss \in Seq(Seq(S)),
         \A i \in 1..Len(ss) : Rising(ss[i], r),
         \A i, j \in 1..Len(ss) : i < j =>
           \A x \in ToSet(ss[i]), y \in ToSet(ss[j]) : r[x] < r[y]
  PROVE  Rising(FlattenSeq(ss), r)
<1> DEFINE n == Len(ss)
           f == CHOOSE g : Flattens(ss, n, g)
<1>1. n \in Nat /\ \A i \in 1..n : ss[i] \in Seq(S)
  OBVIOUS
<1>2. Flattens(ss, n, f)
  BY <1>1, FlattenExists
<1>3. CASE n = 0
  <2>1. FlattenSeq(ss) = <<>>
    BY <1>3, EmptySeq DEF FlattenSeq
  <2> QED
    BY <2>1 DEF Rising
<1>4. CASE n # 0
  <2>1. FlattenSeq(ss) = f[n]
    BY <1>4 DEF FlattenSeq, Flattens
  <2> HIDE DEF f
  <2> DEFINE Good(i) ==
               /\ f[i] \in Seq(S) /\ Rising(f[i], r)
               /\ \A x \in ToSet(f[i]) : \E j \in 1..i : x \in ToSet(ss[j])
             G == {i \in 1..n : Good(i)}
  <2>2. Good(1)
    <3>1. f[1] = ss[1]
      BY <1>1, <1>2, <1>4 DEF Flattens
    <3> QED
      BY <1>1, <1>4, <3>1
  <2>3. ASSUME NEW i \in 1..n, i # 1, Good(i - 1) PROVE Good(i)
    <3>1. i - 1 \in 1..n /\ i \in Nat
      BY <1>1, <2>3
    <3>2. f[i] = f[i - 1] \o ss[i]
      BY <1>2, <2>3 DEF Flattens
    <3>3. /\ f[i] \in Seq(S)
          /\ \A x : x \in ToSet(f[i]) <=> x \in ToSet(f[i - 1]) \/ x \in ToSet(ss[i])
      BY <1>1, <2>3, <3>2, ConcatIs, Zenon
    <3>4. \A j : j \in 1..i <=> j = i \/ j \in 1..(i - 1)
      BY <3>1
    <3>5. \A x \in ToSet(f[i]) : \E j \in 1..i : x \in ToSet(ss[j])
      BY <2>3, <3>3, <3>4, Zenon
    <3>6. \A x \in ToSet(f[i - 1]), y \in ToSet(ss[i]) : r[x] < r[y]
      <4> SUFFICES ASSUME NEW x \in ToSet(f[i - 1]), NEW y \in ToSet(ss[i])
                   PROVE  r[x] < r[y]
        OBVIOUS
      <4>1. PICK j \in 1..(i - 1) : x \in ToSet(ss[j])
        BY <2>3, Zenon
      <4>2. j \in 1..n /\ j < i
        BY <1>1, <3>1
      <4> QED
        BY <4>1, <4>2
    <3>7. Rising(f[i], r)
      <4> DEFINE a == f[i - 1]
                 b == ss[i]
      <4>1. a \in Seq(S) /\ b \in Seq(S) /\ Rising(a, r) /\ Rising(b, r)
        BY <1>1, <2>3
      <4>2. \A x \in ToSet(a), y \in ToSet(b) : r[x] < r[y]
        BY <3>6
      <4> HIDE DEF a, b
      <4>3. /\ \A k \in 1..Len(a) : a[k] \in ToSet(a)
            /\ \A k \in 1..Len(b) : b[k] \in ToSet(b)
        BY <4>1 DEF ToSet
      <4>4. /\ Len(a) \in Nat /\ Len(b) \in Nat
            /\ \A k \in 1..Len(a \o b) :
                 \/ k \in 1..Len(a) /\ (a \o b)[k] = a[k]
                 \/ k > Len(a) /\ k - Len(a) \in 1..Len(b) /\ (a \o b)[k] = b[k - Len(a)]
        <5>1. Len(a) \in Nat /\ Len(b) \in Nat /\ Len(a \o b) = Len(a) + Len(b)
          BY <4>1
        <5>2. ASSUME NEW k \in 1..Len(a \o b), k <= Len(a)
              PROVE  k \in 1..Len(a) /\ (a \o b)[k] = a[k]
          BY <4>1, <5>1, <5>2
        <5>3. ASSUME NEW k \in 1..Len(a \o b), k > Len(a)
              PROVE  k - Len(a) \in 1..Len(b) /\ (a \o b)[k] = b[k - Len(a)]
          BY <4>1, <5>1, <5>3
        <5>4. \A k \in 1..Len(a \o b) : k <= Len(a) \/ k > Len(a)
          BY <5>1
        <5> QED
          BY <5>1, <5>2, <5>3, <5>4
      <4>5. ASSUME NEW k \in 1..Len(a \o b), NEW l \in 1..Len(a \o b), k < l
            PROVE  r[(a \o b)[k]] < r[(a \o b)[l]]
        <5>1. CASE k \in 1..Len(a) /\ l \in 1..Len(a)
          BY <4>1, <4>4, <4>5, <5>1 DEF Rising
        <5>2. CASE k \in 1..Len(a) /\ ~(l \in 1..Len(a))
          <6>1. (a \o b)[k] \in ToSet(a)
            BY <4>3, <4>4, <5>2
          <6>2. (a \o b)[l] \in ToSet(b)
            BY <4>3, <4>4, <5>2
          <6> QED
            BY <4>2, <6>1, <6>2
        <5>3. CASE ~(k \in 1..Len(a)) /\ l \in 1..Len(a)
          BY <4>4, <4>5, <5>3
        <5>4. CASE ~(k \in 1..Len(a)) /\ ~(l \in 1..Len(a))
          <6>1. k - Len(a) < l - Len(a)
            BY <4>4, <4>5
          <6> QED
            BY <4>1, <4>4, <5>4, <6>1 DEF Rising
        <5> QED
          BY <5>1, <5>2, <5>3, <5>4
      <4>6. Rising(a \o b, r)
        BY <4>5 DEF Rising
      <4> QED
        BY <3>2, <4>6 DEF a, b
    <3> QED
      BY <3>3, <3>5, <3>7
  <2>4. G = 1..n
    <3> HIDE DEF Good
    <3>1. /\ n \in Nat \ {0} /\ G \in SUBSET (1..n) /\ 1 \in G
          /\ \A i \in 1..n : i # 1 /\ i - 1 \in G => i \in G
      BY <1>1, <1>4, <2>2, <2>3
    <3> HIDE DEF G, n
    <3> QED
      BY <3>1, ToTheEnd, Zenon
  <2>5. Good(n)
    <3>1. n \in 1..n
      BY <1>1, <1>4
    <3> HIDE DEF Good
    <3> QED
      BY <2>4, <3>1
  <2> QED
    BY <2>1, <2>5, Zenon
<1> QED
  BY <1>3, <1>4

-----------------------------------------------------------------------------
(* Values that are made one from another.                                  *)

\* What holds at first, and after each step if before it, holds always.
LEMMA Upwards ==
  ASSUME NEW n \in Nat, NEW G \in SUBSET (0..n), 0 \in G,
         \A i \in 1..n : i - 1 \in G => i \in G
  PROVE  G = 0..n
<1> SUFFICES ASSUME (0..n) \ G # {} PROVE FALSE
  OBVIOUS
<1>1. PICK i \in (0..n) \ G : \A j \in (0..n) \ G : i <= j
  <2>1. (0..n) \ G \in SUBSET Nat
    OBVIOUS
  <2> QED
    BY <2>1, LeastNat
<1>2. i \in 1..n /\ i - 1 \in 0..n /\ ~(i <= i - 1)
  OBVIOUS
<1>3. i - 1 \in G
  BY <1>1, <1>2
<1> QED
  BY <1>2, <1>3

\* f has the values of g, applied to a again and again.
Iterated(f, T, g, a, n) ==
  f \in [0..n -> T] /\ f[0] = a /\ \A k \in 1..n : f[k] = g[f[k - 1]]

LEMMA Iterates ==
  ASSUME NEW T, NEW g \in [T -> T], NEW a \in T, NEW n \in Nat
  PROVE  \E f : Iterated(f, T, g, a, n)
<1> DEFINE Is(f, k) == /\ f \in [0..k -> T] /\ f[0] = a
                       /\ \A i \in 1..k : f[i] = g[f[i - 1]]
           G == {k \in 0..n : \E f : Is(f, k)}
<1>1. 0 \in G
  <2>1. Is([k \in 0..0 |-> a], 0)
    OBVIOUS
  <2>2. \E f : Is(f, 0)
    <3> HIDE DEF Is
    <3> QED
      BY <2>1
  <2> HIDE DEF Is
  <2> QED
    BY <2>2
<1>2. ASSUME NEW k \in 1..n, k - 1 \in G PROVE k \in G
  <2>1. PICK h : Is(h, k - 1)
    BY <1>2
  <2> DEFINE f == [i \in 0..k |-> IF i = k THEN g[h[k - 1]] ELSE h[i]]
  <2>2. k - 1 \in 0..(k - 1) /\ \A i \in 0..k : i = k \/ i \in 0..(k - 1)
    OBVIOUS
  <2>3. f \in [0..k -> T] /\ f[0] = a
    BY <2>1, <2>2
  <2>4. ASSUME NEW i \in 1..k PROVE f[i] = g[f[i - 1]]
    <3>1. i - 1 \in 0..k /\ i - 1 # k /\ (i = k \/ i \in 1..(k - 1))
      OBVIOUS
    <3> QED
      BY <2>1, <3>1
  <2> QED
    BY <2>3, <2>4
<1>3. G = 0..n
  <2> HIDE DEF G
  <2>1. G \in SUBSET (0..n)
    BY DEF G
  <2> QED
    BY <1>1, <1>2, <2>1, Upwards
<1> QED
  BY <1>3 DEF Iterated

-----------------------------------------------------------------------------
(* The walk.                                                               *)

Items == [object : Objects, parent : Objects \cup {Null}, opened : BOOLEAN]

LEMMA FoundIs ==
  ASSUME NEW o \in Objects, NEW parent \in Objects \cup {Null}
  PROVE  /\ Found(o, parent) \in Items
         /\ Found(o, parent).object = o /\ Found(o, parent).parent = parent
         /\ Found(o, parent).opened = FALSE
BY DEF Found, Items

LEMMA OpenedIs ==
  ASSUME NEW w \in Seq(Items)
  PROVE  /\ Opened(w) \in Seq(Items)
         /\ \A x : x \in ToSet(Opened(w)) <=>
              \/ x \in ToSet(w) /\ x.opened
              \/ \E t \in ToSet(w) :
                   /\ ~t.opened
                   /\ \/ x = [t EXCEPT !.opened = TRUE]
                      \/ \E k \in 1..Len(t.object.children) :
                           x = Found(t.object.children[k], t.object)
<1> DEFINE Below(o) == [k \in DOMAIN o.children |-> Found(o.children[k], o)]
           Piece(t) == IF t.opened THEN <<t>>
                       ELSE <<[t EXCEPT !.opened = TRUE]>> \o Below(t.object)
           ss == [i \in DOMAIN w |-> Piece(w[i])]
<1>1. ASSUME NEW o \in Objects
      PROVE  /\ Below(o) \in Seq(Items)
             /\ \A x : x \in ToSet(Below(o)) <=>
                  \E k \in 1..Len(o.children) : x = Found(o.children[k], o)
  <2>1. o.children \in Seq(Objects)
    BY ObjectsAssumption
  <2>2. DOMAIN o.children = 1..Len(o.children) /\ Len(o.children) \in Nat
        /\ \A k \in 1..Len(o.children) : o.children[k] \in Objects
    BY <2>1
  <2>3. \A k \in 1..Len(o.children) : Found(o.children[k], o) \in Items
    BY <2>2, FoundIs
  <2>4. /\ Below(o) \in Seq(Items) /\ Len(Below(o)) = Len(o.children)
        /\ \A k \in 1..Len(o.children) : Below(o)[k] = Found(o.children[k], o)
    BY <2>2, <2>3
  <2> HIDE DEF Below
  <2>5. \A x : x \in ToSet(Below(o)) <=> \E k \in 1..Len(Below(o)) : x = Below(o)[k]
    BY <2>4, ToSetIs, Zenon
  <2> QED
    BY <2>4, <2>5
<1>2. ASSUME NEW t \in Items
      PROVE  /\ Piece(t) \in Seq(Items)
             /\ \A x : x \in ToSet(Piece(t)) <=>
                  \/ x = t /\ t.opened
                  \/ /\ ~t.opened
                     /\ \/ x = [t EXCEPT !.opened = TRUE]
                        \/ \E k \in 1..Len(t.object.children) :
                             x = Found(t.object.children[k], t.object)
  <2>1. /\ t.object \in Objects /\ t.opened \in BOOLEAN
        /\ [t EXCEPT !.opened = TRUE] \in Items
    BY DEF Items
  <2> DEFINE u == [t EXCEPT !.opened = TRUE]
  <2>2. /\ <<t>> \in Seq(Items) /\ <<u>> \in Seq(Items)
        /\ \A x : x \in ToSet(<<t>>) <=> x = t
        /\ \A x : x \in ToSet(<<u>>) <=> x = u
    <3> HIDE DEF u
    <3>1. u \in Items
      BY <2>1 DEF u
    <3> QED
      BY <3>1, SingleIs, Zenon
  <2> HIDE DEF u, Below
  <2>3. CASE t.opened
    BY <2>2, <2>3
  <2>4. CASE ~t.opened
    <3>1. Piece(t) = <<u>> \o Below(t.object)
      BY <2>4 DEF u
    <3>2. /\ Below(t.object) \in Seq(Items)
          /\ \A x : x \in ToSet(Below(t.object)) <=>
               \E k \in 1..Len(t.object.children) :
                 x = Found(t.object.children[k], t.object)
      BY <1>1, <2>1
    <3>3. /\ <<u>> \o Below(t.object) \in Seq(Items)
          /\ \A x : x \in ToSet(<<u>> \o Below(t.object)) <=>
               x \in ToSet(<<u>>) \/ x \in ToSet(Below(t.object))
      BY <2>2, <3>2, ConcatIs
    <3> QED
      BY <2>2, <2>4, <3>1, <3>2, <3>3 DEF u
  <2> QED
    BY <2>1, <2>3, <2>4
<1> HIDE DEF Piece
<1>3. /\ DOMAIN w = 1..Len(w) /\ Len(w) \in Nat
      /\ \A i \in 1..Len(w) : w[i] \in Items
      /\ \A x : x \in ToSet(w) <=> \E i \in 1..Len(w) : x = w[i]
  BY DEF ToSet
<1>4. /\ ss \in Seq(Seq(Items)) /\ Len(ss) = Len(w)
      /\ \A i \in 1..Len(ss) : ss[i] = Piece(w[i])
  BY <1>2, <1>3
<1>5. Opened(w) = FlattenSeq(ss)
  BY DEF Opened, Piece
<1> HIDE DEF ss
<1>6. /\ FlattenSeq(ss) \in Seq(Items)
      /\ \A x : x \in ToSet(FlattenSeq(ss)) <=> \E i \in 1..Len(ss) : x \in ToSet(ss[i])
  BY <1>4, FlattenIs
<1>7. \A x : x \in ToSet(Opened(w)) <=> \E i \in 1..Len(w) : x \in ToSet(Piece(w[i]))
  BY <1>4, <1>5, <1>6
<1>8. ASSUME NEW x
      PROVE  x \in ToSet(Opened(w)) <=>
              \/ x \in ToSet(w) /\ x.opened
              \/ \E t \in ToSet(w) :
                   /\ ~t.opened
                   /\ \/ x = [t EXCEPT !.opened = TRUE]
                      \/ \E k \in 1..Len(t.object.children) :
                           x = Found(t.object.children[k], t.object)
  <2>1. x \in ToSet(Opened(w)) <=> \E t \in ToSet(w) : x \in ToSet(Piece(t))
    BY <1>3, <1>7, Zenon
  <2>2. \A t \in ToSet(w) : t \in Items
    BY <1>3
  <2>3. \A t \in ToSet(w) : x \in ToSet(Piece(t)) <=>
          \/ x = t /\ t.opened
          \/ /\ ~t.opened
             /\ \/ x = [t EXCEPT !.opened = TRUE]
                \/ \E k \in 1..Len(t.object.children) :
                     x = Found(t.object.children[k], t.object)
    BY <1>2, <2>2
  <2> QED
    BY <2>1, <2>3
<1> QED
  BY <1>5, <1>6, <1>8

\* Each object but the top has been found in an object of the walk, and what is
\* in an object that was opened is in the walk.
GoodWalk(w) ==
  /\ w \in Seq(Items)
  /\ \A x \in ToSet(w) : x.parent # Null =>
       /\ \E y \in ToSet(w) : y.object = x.parent
       /\ \E k \in 1..Len(x.parent.children) : x.object = x.parent.children[k]
  /\ \A x \in ToSet(w) : x.opened =>
       \A k \in 1..Len(x.object.children) :
         Found(x.object.children[k], x.object) \in ToSet(w)
         \/ [Found(x.object.children[k], x.object) EXCEPT !.opened = TRUE] \in ToSet(w)

LEMMA OpenedIsGood ==
  ASSUME NEW w, GoodWalk(w)
  PROVE  GoodWalk(Opened(w))
<1>1. w \in Seq(Items) /\ \A x \in ToSet(w) : x \in Items
  BY DEF GoodWalk, ToSet
<1>2. /\ Opened(w) \in Seq(Items)
      /\ \A x : x \in ToSet(Opened(w)) <=>
           \/ x \in ToSet(w) /\ x.opened
           \/ \E t \in ToSet(w) :
                /\ ~t.opened
                /\ \/ x = [t EXCEPT !.opened = TRUE]
                   \/ \E k \in 1..Len(t.object.children) :
                        x = Found(t.object.children[k], t.object)
  BY <1>1, OpenedIs
<1>3. ASSUME NEW x \in ToSet(w)
      PROVE  \E y \in ToSet(Opened(w)) :
               y = [x EXCEPT !.opened = TRUE] /\ y.object = x.object /\ y.parent = x.parent
  <2>1. x \in Items
    BY <1>1
  <2> DEFINE y == [x EXCEPT !.opened = TRUE]
  <2>2. y.object = x.object /\ y.parent = x.parent /\ (x.opened => x = y)
    BY <2>1 DEF Items
  <2> HIDE DEF y
  <2>3. y \in ToSet(Opened(w))
    BY <1>2, <2>2 DEF y
  <2> QED
    BY <2>2, <2>3 DEF y
<1>4. ASSUME NEW t \in ToSet(w), NEW k \in 1..Len(t.object.children)
      PROVE  LET f == Found(t.object.children[k], t.object)
             IN f \in Items /\ f.object = t.object.children[k] /\ f.parent = t.object
  <2>1. t.object \in Objects /\ t.object.children \in Seq(Objects)
    BY <1>1, ObjectsAssumption DEF Items
  <2>2. t.object.children[k] \in Objects
    BY <2>1
  <2> DEFINE o == t.object
             c == o.children[k]
  <2>3. o \in Objects \cup {Null} /\ c \in Objects
    BY <2>1, <2>2
  <2> HIDE DEF o, c
  <2>4. Found(c, o) \in Items /\ Found(c, o).object = c /\ Found(c, o).parent = o
    BY <2>3, FoundIs
  <2> QED
    BY <2>4 DEF o, c
<1>5. ASSUME NEW x \in ToSet(Opened(w)), x.parent # Null
      PROVE  /\ \E y \in ToSet(Opened(w)) : y.object = x.parent
             /\ \E k \in 1..Len(x.parent.children) : x.object = x.parent.children[k]
  <2>1. ASSUME NEW t \in ToSet(w), x = [t EXCEPT !.opened = TRUE] \/ x = t
        PROVE  /\ \E y \in ToSet(Opened(w)) : y.object = x.parent
               /\ \E k \in 1..Len(x.parent.children) : x.object = x.parent.children[k]
    <3>1. t.parent = x.parent /\ t.object = x.object
      BY <1>1, <2>1 DEF Items
    <3> QED
      BY <1>3, <1>5, <3>1 DEF GoodWalk
  <2>2. ASSUME NEW t \in ToSet(w), NEW k \in 1..Len(t.object.children),
               x = Found(t.object.children[k], t.object)
        PROVE  /\ \E y \in ToSet(Opened(w)) : y.object = x.parent
               /\ \E i \in 1..Len(x.parent.children) : x.object = x.parent.children[i]
    BY <1>3, <1>4, <2>2
  <2> QED
    BY <1>2, <2>1, <2>2
<1>6. ASSUME NEW t \in ToSet(w), NEW k \in 1..Len(t.object.children), t.opened
      PROVE  \/ Found(t.object.children[k], t.object) \in ToSet(Opened(w))
             \/ [Found(t.object.children[k], t.object) EXCEPT !.opened = TRUE]
                  \in ToSet(Opened(w))
  <2> DEFINE f == Found(t.object.children[k], t.object)
             g == [f EXCEPT !.opened = TRUE]
  <2>1. f \in ToSet(w) \/ g \in ToSet(w)
    BY <1>6 DEF GoodWalk
  <2>2. f \in Items
    BY <1>4
  <2> HIDE DEF f
  <2>3. g.opened /\ [g EXCEPT !.opened = TRUE] = g
    BY <2>2 DEF Items
  <2> HIDE DEF g
  <2>4. CASE g \in ToSet(w)
    BY <1>2, <2>3, <2>4 DEF f, g
  <2>5. CASE f \in ToSet(w)
    BY <1>3, <2>5 DEF f, g
  <2> QED
    BY <2>1, <2>4, <2>5
<1>7. ASSUME NEW x \in ToSet(Opened(w)), x.opened, NEW k \in 1..Len(x.object.children)
      PROVE  \/ Found(x.object.children[k], x.object) \in ToSet(Opened(w))
             \/ [Found(x.object.children[k], x.object) EXCEPT !.opened = TRUE]
                  \in ToSet(Opened(w))
  <2>1. CASE x \in ToSet(w)
    BY <1>6, <1>7, <2>1
  <2>2. ASSUME NEW t \in ToSet(w), ~t.opened, x = [t EXCEPT !.opened = TRUE]
        PROVE  Found(x.object.children[k], x.object) \in ToSet(Opened(w))
    <3>1. x.object = t.object
      BY <1>1, <2>2 DEF Items
    <3> QED
      BY <1>2, <2>2, <3>1
  <2>3. ASSUME NEW t \in ToSet(w), NEW i \in 1..Len(t.object.children),
               x = Found(t.object.children[i], t.object)
        PROVE  FALSE
    BY <1>7, <2>3 DEF Found
  <2> QED
    BY <1>2, <2>1, <2>2, <2>3
<1> QED
  BY <1>2, <1>5, <1>7 DEF GoodWalk

LEMMA WalkIsGood ==
  ASSUME NEW m, m.top \in Objects
  PROVE  GoodWalk(Walk(m))
<1> DEFINE first == <<Found(m.top, Null)>>
           level == CHOOSE l : l = [n \in 0..Depth |->
                                      IF n = 0 THEN first ELSE Opened(l[n - 1])]
<1>1. Walk(m) = level[Depth]
  BY DEF Walk
<1>2. /\ first \in Seq(Items)
      /\ \A x \in ToSet(first) : x.parent = Null /\ x.opened = FALSE
  <2> DEFINE t == Found(m.top, Null)
  <2>1. t \in Items /\ t.parent = Null /\ t.opened = FALSE
    BY FoundIs
  <2> HIDE DEF t
  <2>2. <<t>> \in Seq(Items) /\ \A x : x \in ToSet(<<t>>) <=> x = t
    BY <2>1, SingleIs
  <2> QED
    BY <2>1, <2>2 DEF t
<1> HIDE DEF first
<1>3. GoodWalk(first)
  BY <1>2 DEF GoodWalk
<1>4. level = [n \in 0..Depth |-> IF n = 0 THEN first ELSE Opened(level[n - 1])]
  <2> DEFINE g == [w \in Seq(Items) |-> Opened(w)]
  <2>1. g \in [Seq(Items) -> Seq(Items)]
    BY OpenedIs
  <2> HIDE DEF g
  <2> DEFINE T == Seq(Items)
  <2>0. \E f : Iterated(f, T, g, first, Depth)
    <3> HIDE DEF T
    <3> QED
      BY <1>2, <2>1, Iterates, DepthAssumption DEF T
  <2>2. PICK f \in [0..Depth -> T] : f[0] = first /\ \A n \in 1..Depth : f[n] = g[f[n - 1]]
    BY <2>0 DEF Iterated
  <2>3. \A n \in 1..Depth : f[n] = Opened(f[n - 1])
    <3> SUFFICES ASSUME NEW n \in 1..Depth PROVE g[f[n - 1]] = Opened(f[n - 1])
      BY <2>2
    <3>1. n - 1 \in 0..Depth
      BY DepthAssumption
    <3>2. f[n - 1] \in Seq(Items)
      BY <2>2, <3>1
    <3> QED
      BY <3>2 DEF g
  <2>4. \A n \in 0..Depth : f[n] = IF n = 0 THEN first ELSE Opened(f[n - 1])
    BY <2>2, <2>3, DepthAssumption
  <2>5. f = [n \in 0..Depth |-> IF n = 0 THEN first ELSE Opened(f[n - 1])]
    BY <2>2, <2>4
  <2> QED
    BY <2>5
<1> HIDE DEF level
<1> DEFINE G == {n \in 0..Depth : GoodWalk(level[n])}
<1>5. level[0] = first /\ \A n \in 1..Depth : level[n] = Opened(level[n - 1])
  BY <1>4, DepthAssumption
<1>6. 0 \in G /\ \A n \in 1..Depth : n - 1 \in G => n \in G
  BY <1>3, <1>5, OpenedIsGood, DepthAssumption
<1>7. G = 0..Depth
  <2> HIDE DEF G
  <2>1. G \in SUBSET (0..Depth) /\ Depth \in Nat
    BY DepthAssumption DEF G
  <2> QED
    BY <1>6, <2>1, Upwards
<1> QED
  BY <1>1, <1>7, DepthAssumption

-----------------------------------------------------------------------------
(* What is handed out.                                                     *)

Tasks == [object : Objects, parent : Objects \cup {Null}, index : Nat,
          freed : BOOLEAN, handled : BOOLEAN]

Done(t) == [t EXCEPT !.handled = TRUE]
Shown == {"part", "message"}

LEMMA DoneIs ==
  ASSUME NEW t \in Tasks
  PROVE  /\ Done(t) \in Tasks /\ Done(t).handled
         /\ Done(t).object = t.object /\ Done(t).parent = t.parent
         /\ Done(t).index = t.index /\ Done(t).freed = t.freed
         /\ t.handled => Done(t) = t
         /\ Done(Done(t)) = Done(t)
BY DEF Done, Tasks

LEMMA WalkItems ==
  ASSUME NEW m, m.top \in Objects
  PROVE  /\ Walk(m) \in Seq(Items) /\ Len(Walk(m)) \in Nat
         /\ DOMAIN Walk(m) = 1..Len(Walk(m))
         /\ \A i \in 1..Len(Walk(m)) :
              /\ Walk(m)[i].object \in Objects
              /\ Walk(m)[i].parent \in Objects \cup {Null}
<1>1. Walk(m) \in Seq(Items)
  BY WalkIsGood DEF GoodWalk
<1>2. \A i \in 1..Len(Walk(m)) : Walk(m)[i] \in Items
  BY <1>1
<1> QED
  BY <1>1, <1>2 DEF Items

Child(m, freed, i) ==
  [object |-> Walk(m)[i].object, parent |-> Walk(m)[i].parent, index |-> i - 1,
   freed |-> freed, handled |-> FALSE]

LEMMA ChildrenIs ==
  ASSUME NEW m, m.top \in Objects, NEW freed \in BOOLEAN
  PROVE  /\ Children(m, freed) \in Seq(Tasks)
         /\ Len(Children(m, freed)) = Len(Walk(m))
         /\ \A i \in 1..Len(Walk(m)) : Children(m, freed)[i] = Child(m, freed, i)
         /\ \A x : x \in ToSet(Children(m, freed)) <=>
                     \E i \in 1..Len(Walk(m)) : x = Child(m, freed, i)
<1>1. /\ DOMAIN Walk(m) = 1..Len(Walk(m)) /\ Len(Walk(m)) \in Nat
      /\ \A i \in 1..Len(Walk(m)) : /\ Walk(m)[i].object \in Objects
                                    /\ Walk(m)[i].parent \in Objects \cup {Null}
  BY WalkItems
<1>2. \A i \in 1..Len(Walk(m)) : Child(m, freed, i) \in Tasks
  BY <1>1 DEF Child, Tasks
<1>3. Children(m, freed) = [i \in 1..Len(Walk(m)) |-> Child(m, freed, i)]
  BY <1>1 DEF Children, Child
<1>4. /\ Children(m, freed) \in Seq(Tasks) /\ Len(Children(m, freed)) = Len(Walk(m))
      /\ \A i \in 1..Len(Walk(m)) : Children(m, freed)[i] = Child(m, freed, i)
  BY <1>1, <1>2, <1>3
<1>5. \A x : x \in ToSet(Children(m, freed)) <=>
               \E i \in 1..Len(Children(m, freed)) : x = Children(m, freed)[i]
  BY <1>4, ToSetIs, Zenon
<1> QED
  BY <1>4, <1>5

LEMMA HandleMimeObjectIs ==
  ASSUME NEW t \in Tasks, ~t.handled, NEW opts
  PROVE  LET s == HandleMimeObject(t, opts)
         IN /\ s \in Seq(Tasks)
            /\ \A x \in ToSet(s) : x.handled => x.object.kind \in Shown
            /\ t.object.kind \in Shown => Done(t) \in ToSet(s)
            /\ Plainly(opts) =>
                 /\ t.object.kind \in Shown => s = <<Done(t)>>
                 /\ t.object.kind \notin Shown => s = <<>>
<1> DEFINE s == HandleMimeObject(t, opts)
           o == t.object
           one == <<Done(t)>>
<1>1. /\ t.object \in Objects /\ t.freed \in BOOLEAN
      /\ Done(t) \in Tasks /\ Done(t).object = t.object
  BY DoneIs DEF Tasks
<1>2. one \in Seq(Tasks) /\ \A x : x \in ToSet(one) <=> x = Done(t)
  BY <1>1, SingleIs
<1>3. <<>> \in Seq(Tasks) /\ \A x : x \notin ToSet(<<>>)
  BY DEF ToSet
<1>4. CASE o.kind = "part"
  <2>1. s = one
    BY <1>4 DEF HandleMimeObject, Done
  <2> QED
    BY <1>1, <1>2, <1>4, <2>1 DEF Shown
<1>5. CASE o.kind = "message"
  <2> DEFINE more == IF "recurse" \in opts /\ o.inside # Null
                     THEN Children(o.inside, t.freed) ELSE <<>>
  <2>1. s = one \o more
    BY <1>5 DEF HandleMimeObject, Done
  <2>2. more \in Seq(Tasks) /\ \A x \in ToSet(more) : ~x.handled
    <3>1. CASE "recurse" \in opts /\ o.inside # Null
      <4>1. o.inside.top \in Objects
        BY <1>1, <1>5, <3>1, ObjectsAssumption
      <4>2. /\ Children(o.inside, t.freed) \in Seq(Tasks)
            /\ \A x : x \in ToSet(Children(o.inside, t.freed)) <=>
                 \E i \in 1..Len(Walk(o.inside)) : x = Child(o.inside, t.freed, i)
        BY <1>1, <4>1, ChildrenIs
      <4>3. \A i : ~Child(o.inside, t.freed, i).handled
        BY DEF Child
      <4> QED
        BY <3>1, <4>2, <4>3
    <3>2. CASE ~("recurse" \in opts /\ o.inside # Null)
      BY <1>3, <3>2
    <3> QED
      BY <3>1, <3>2
  <2>3. Plainly(opts) => s = one
    <3>1. Plainly(opts) => more = <<>>
      BY DEF Plainly
    <3>2. one \o <<>> = one
      BY <1>2
    <3> HIDE DEF more, one, s
    <3> QED
      BY <2>1, <3>1, <3>2
  <2> HIDE DEF more, one
  <2>4. s \in Seq(Tasks) /\ \A x : x \in ToSet(s) <=> x \in ToSet(one) \/ x \in ToSet(more)
    BY <1>2, <2>1, <2>2, ConcatIs
  <2> QED
    BY <1>1, <1>2, <1>5, <2>2, <2>3, <2>4 DEF Shown, one
<1>6. CASE o.kind \notin Shown
  <2> DEFINE u == [t EXCEPT !.object = o.plain, !.index = @ + 1, !.freed = TRUE]
  <2>1. CASE o.kind = "encrypted" /\ BuildCrypto /\ "decrypt" \in opts /\ o.plain # Null
    <3>1. s = <<u>>
      BY <1>6, <2>1 DEF HandleMimeObject, Shown
    <3>2. o.plain \in Objects
      BY <1>1, <2>1, ObjectsAssumption
    <3>3. u \in Tasks /\ ~u.handled
      <4>1. t.index + 1 \in Nat
        BY DEF Tasks
      <4> DEFINE v == [t EXCEPT !.object = o.plain]
                 w == [v EXCEPT !.index = t.index + 1]
      <4>2. v \in Tasks /\ v.index = t.index /\ v.handled = t.handled
        BY <3>2 DEF Tasks
      <4>3. u = [w EXCEPT !.freed = TRUE]
        OBVIOUS
      <4> HIDE DEF v
      <4>4. w \in Tasks /\ w.handled = t.handled
        BY <4>1, <4>2 DEF Tasks
      <4> HIDE DEF w, u
      <4> QED
        BY <4>3, <4>4 DEF Tasks
    <3> HIDE DEF u
    <3>4. <<u>> \in Seq(Tasks) /\ \A x : x \in ToSet(<<u>>) <=> x = u
      BY <3>3, SingleIs
    <3> QED
      BY <1>6, <2>1, <3>1, <3>3, <3>4 DEF Plainly
  <2>2. CASE ~(o.kind = "encrypted" /\ BuildCrypto /\ "decrypt" \in opts /\ o.plain # Null)
    <3>1. s = <<>>
      BY <1>6, <2>2 DEF HandleMimeObject, Shown
    <3> QED
      BY <1>3, <1>6, <3>1
  <2> QED
    BY <2>1, <2>2
<1> QED
  BY <1>4, <1>5, <1>6 DEF Shown

LEMMA HandledIs ==
  ASSUME NEW ts \in Seq(Tasks), NEW opts
  PROVE  /\ Handled(ts, opts) \in Seq(Tasks)
         /\ \A x : x \in ToSet(Handled(ts, opts)) <=>
              \/ x \in ToSet(ts) /\ x.handled
              \/ \E t \in ToSet(ts) : ~t.handled /\ x \in ToSet(HandleMimeObject(t, opts))
         /\ \A r \in [Tasks -> Int] :
              Plainly(opts) /\ Rising(ts, r) /\ (\A t \in Tasks : r[Done(t)] = r[t])
                => Rising(Handled(ts, opts), r)
<1> DEFINE Piece(t) == IF t.handled THEN <<t>> ELSE HandleMimeObject(t, opts)
           ss == [i \in DOMAIN ts |-> Piece(ts[i])]
<1>1. ASSUME NEW t \in Tasks
      PROVE  /\ Piece(t) \in Seq(Tasks)
             /\ \A x : x \in ToSet(Piece(t)) <=>
                  \/ x = t /\ t.handled
                  \/ ~t.handled /\ x \in ToSet(HandleMimeObject(t, opts))
             /\ Plainly(opts) => Piece(t) \in {<<>>, <<t>>, <<Done(t)>>}
  <2>1. <<t>> \in Seq(Tasks) /\ \A x : x \in ToSet(<<t>>) <=> x = t
    BY SingleIs
  <2>2. CASE t.handled
    BY <2>1, <2>2
  <2>3. CASE ~t.handled
    <3>1. /\ HandleMimeObject(t, opts) \in Seq(Tasks)
          /\ Plainly(opts) => HandleMimeObject(t, opts) \in {<<>>, <<Done(t)>>}
      BY <2>3, HandleMimeObjectIs
    <3> QED
      BY <2>3, <3>1
  <2> QED
    BY <2>2, <2>3
<1> HIDE DEF Piece
<1>2. /\ DOMAIN ts = 1..Len(ts) /\ Len(ts) \in Nat
      /\ \A i \in 1..Len(ts) : ts[i] \in Tasks
      /\ \A x : x \in ToSet(ts) <=> \E i \in 1..Len(ts) : x = ts[i]
  BY DEF ToSet
<1>3. /\ ss \in Seq(Seq(Tasks)) /\ Len(ss) = Len(ts)
      /\ \A i \in 1..Len(ss) : ss[i] = Piece(ts[i])
  BY <1>1, <1>2
<1>4. Handled(ts, opts) = FlattenSeq(ss)
  BY DEF Handled, Piece
<1> HIDE DEF ss
<1>5. /\ FlattenSeq(ss) \in Seq(Tasks)
      /\ \A x : x \in ToSet(FlattenSeq(ss)) <=> \E i \in 1..Len(ss) : x \in ToSet(ss[i])
  BY <1>3, FlattenIs
<1>6. \A x : x \in ToSet(Handled(ts, opts)) <=> \E i \in 1..Len(ts) : x \in ToSet(Piece(ts[i]))
  BY <1>3, <1>4, <1>5
<1>7. ASSUME NEW x
      PROVE  x \in ToSet(Handled(ts, opts)) <=>
              \/ x \in ToSet(ts) /\ x.handled
              \/ \E t \in ToSet(ts) : ~t.handled /\ x \in ToSet(HandleMimeObject(t, opts))
  <2>1. x \in ToSet(Handled(ts, opts)) <=> \E t \in ToSet(ts) : x \in ToSet(Piece(t))
    BY <1>2, <1>6, Zenon
  <2>2. \A t \in ToSet(ts) : x \in ToSet(Piece(t)) <=>
          \/ x = t /\ t.handled
          \/ ~t.handled /\ x \in ToSet(HandleMimeObject(t, opts))
    BY <1>1, <1>2
  <2> QED
    BY <2>1, <2>2
<1>8. ASSUME NEW r \in [Tasks -> Int], Plainly(opts), Rising(ts, r),
             \A t \in Tasks : r[Done(t)] = r[t]
      PROVE  Rising(Handled(ts, opts), r)
  <2>1. ASSUME NEW i \in 1..Len(ss)
        PROVE  Len(ss[i]) \in {0, 1} /\ \A x \in ToSet(ss[i]) : r[x] = r[ts[i]]
    <3>1. ss[i] \in {<<>>, <<ts[i]>>, <<Done(ts[i])>>} /\ ts[i] \in Tasks
      BY <1>1, <1>2, <1>3, <1>8
    <3>2. Done(ts[i]) \in Tasks /\ r[Done(ts[i])] = r[ts[i]]
      BY <1>8, <3>1, DoneIs
    <3>3. /\ \A x : x \in ToSet(<<ts[i]>>) <=> x = ts[i]
          /\ \A x : x \in ToSet(<<Done(ts[i])>>) <=> x = Done(ts[i])
          /\ \A x : x \notin ToSet(<<>>)
      <4>1. \A x : x \notin ToSet(<<>>)
        BY DEF ToSet
      <4> QED
        BY <3>1, <3>2, <4>1, SingleIs
    <3>4. Len(<<>>) = 0 /\ Len(<<ts[i]>>) = 1 /\ Len(<<Done(ts[i])>>) = 1
      OBVIOUS
    <3>5. CASE ss[i] = <<>>
      BY <3>3, <3>4, <3>5
    <3>6. CASE ss[i] = <<ts[i]>>
      BY <3>3, <3>4, <3>6
    <3>7. CASE ss[i] = <<Done(ts[i])>>
      BY <3>2, <3>3, <3>4, <3>7
    <3> QED
      BY <3>1, <3>5, <3>6, <3>7
  <2>2. \A i \in 1..Len(ss) : Rising(ss[i], r)
    BY <2>1 DEF Rising
  <2>3. ASSUME NEW i \in 1..Len(ss), NEW j \in 1..Len(ss), i < j,
               NEW x \in ToSet(ss[i]), NEW y \in ToSet(ss[j])
        PROVE  r[x] < r[y]
    <3>1. r[x] = r[ts[i]] /\ r[y] = r[ts[j]]
      BY <2>1
    <3>2. r[ts[i]] < r[ts[j]]
      BY <1>3, <1>8, <2>3 DEF Rising
    <3> QED
      BY <3>1, <3>2
  <2>4. \A i, j \in 1..Len(ss) : i < j =>
          \A x \in ToSet(ss[i]), y \in ToSet(ss[j]) : r[x] < r[y]
    BY <2>3
  <2>5. Rising(FlattenSeq(ss), r)
    BY <1>3, <1>8, <2>2, <2>4, FlattenRises
  <2> QED
    BY <1>4, <2>5
<1> QED
  BY <1>4, <1>5, <1>7, <1>8


-----------------------------------------------------------------------------
(* The parts of a message.                                                 *)

\* What is chosen from a sequence by a set.
Chosen(s, X) == FlattenSeq([i \in DOMAIN s |-> IF s[i] \in X THEN <<s[i]>> ELSE <<>>])

LEMMA ChosenIs ==
  ASSUME NEW S, NEW s \in Seq(S), NEW X
  PROVE  /\ Chosen(s, X) \in Seq(S)
         /\ \A x : x \in ToSet(Chosen(s, X)) <=> x \in ToSet(s) /\ x \in X
         /\ \A r \in [S -> Int] : Rising(s, r) => Rising(Chosen(s, X), r)
<1> DEFINE Piece(x) == IF x \in X THEN <<x>> ELSE <<>>
           ss == [i \in DOMAIN s |-> Piece(s[i])]
<1>1. ASSUME NEW x \in S
      PROVE  /\ Piece(x) \in Seq(S) /\ Len(Piece(x)) \in {0, 1}
             /\ \A y : y \in ToSet(Piece(x)) <=> y = x /\ x \in X
  <2>1. <<x>> \in Seq(S) /\ \A y : y \in ToSet(<<x>>) <=> y = x
    BY SingleIs
  <2>2. <<>> \in Seq(S) /\ \A y : y \notin ToSet(<<>>)
    BY DEF ToSet
  <2>3. Len(<<>>) = 0 /\ Len(<<x>>) = 1
    OBVIOUS
  <2> QED
    BY <2>1, <2>2, <2>3
<1> HIDE DEF Piece
<1>2. /\ DOMAIN s = 1..Len(s) /\ Len(s) \in Nat
      /\ \A i \in 1..Len(s) : s[i] \in S
      /\ \A x : x \in ToSet(s) <=> \E i \in 1..Len(s) : x = s[i]
  BY DEF ToSet
<1>3. /\ ss \in Seq(Seq(S)) /\ Len(ss) = Len(s)
      /\ \A i \in 1..Len(ss) : ss[i] = Piece(s[i])
  BY <1>1, <1>2
<1>4. Chosen(s, X) = FlattenSeq(ss)
  BY DEF Chosen, Piece
<1> HIDE DEF ss
<1>5. /\ FlattenSeq(ss) \in Seq(S)
      /\ \A x : x \in ToSet(FlattenSeq(ss)) <=> \E i \in 1..Len(ss) : x \in ToSet(ss[i])
  BY <1>3, FlattenIs
<1>6. \A x : x \in ToSet(Chosen(s, X)) <=> \E i \in 1..Len(s) : x \in ToSet(Piece(s[i]))
  BY <1>3, <1>4, <1>5
<1>7. \A x : x \in ToSet(Chosen(s, X)) <=> x \in ToSet(s) /\ x \in X
  BY <1>1, <1>2, <1>6
<1>8. ASSUME NEW r \in [S -> Int], Rising(s, r)
      PROVE  Rising(Chosen(s, X), r)
  <2>1. ASSUME NEW i \in 1..Len(ss)
        PROVE  Len(ss[i]) \in {0, 1} /\ \A x \in ToSet(ss[i]) : r[x] = r[s[i]]
    BY <1>1, <1>2, <1>3
  <2>2. \A i \in 1..Len(ss) : Rising(ss[i], r)
    BY <2>1 DEF Rising
  <2>3. ASSUME NEW i \in 1..Len(ss), NEW j \in 1..Len(ss), i < j,
               NEW x \in ToSet(ss[i]), NEW y \in ToSet(ss[j])
        PROVE  r[x] < r[y]
    <3>1. r[x] = r[s[i]] /\ r[y] = r[s[j]]
      BY <2>1
    <3>2. r[s[i]] < r[s[j]]
      BY <1>3, <1>8, <2>3 DEF Rising
    <3> QED
      BY <3>1, <3>2
  <2>4. \A i, j \in 1..Len(ss) : i < j =>
          \A x \in ToSet(ss[i]), y \in ToSet(ss[j]) : r[x] < r[y]
    BY <2>3
  <2>5. Rising(FlattenSeq(ss), r)
    BY <1>3, <1>8, <2>2, <2>4, FlattenRises
  <2> QED
    BY <1>4, <2>5
<1> QED
  BY <1>4, <1>5, <1>7, <1>8

LEMMA EmptyIs ==
  ASSUME NEW S, NEW s \in Seq(S)
  PROVE  s = <<>> <=> ToSet(s) = {}
<1>1. \A x : x \in ToSet(s) <=> \E i \in 1..Len(s) : x = s[i]
  BY ToSetIs
<1>2. CASE s = <<>>
  <2>1. Len(<<>>) = 0 /\ 1..0 = {}
    OBVIOUS
  <2> QED
    BY <1>1, <1>2, <2>1
<1>3. CASE s # <<>>
  <2>1. 1 \in 1..Len(s)
    BY <1>3
  <2> QED
    BY <1>1, <1>3, <2>1
<1> QED
  BY <1>2, <1>3

LEMMA EndsAreIn ==
  ASSUME NEW S, NEW s \in Seq(S), s # <<>>
  PROVE  Head(s) \in ToSet(s) /\ Last(s) \in ToSet(s)
<1>1. \A x : x \in ToSet(s) <=> \E i \in 1..Len(s) : x = s[i]
  BY ToSetIs
<1>2. Head(s) = s[1] /\ Last(s) = s[Len(s)] /\ 1 \in 1..Len(s) /\ Len(s) \in 1..Len(s)
  BY DEF Last
<1> QED
  BY <1>1, <1>2

\* What the levels of HandleChildren are.
Levels(level, m, opts) ==
  /\ level \in [0..Depth -> Seq(Tasks)] /\ level[0] = Children(m, FALSE)
  /\ \A n \in 1..Depth : level[n] = Handled(level[n - 1], opts)
  /\ HandleChildren(m, opts) = level[Depth]

LEMMA HandleChildrenLevels ==
  ASSUME NEW m, m.top \in Objects, NEW opts
  PROVE  \E level : Levels(level, m, opts)
<1> DEFINE first == Children(m, FALSE)
           level == CHOOSE l : l = [n \in 0..Depth |->
                                      IF n = 0 THEN first ELSE Handled(l[n - 1], opts)]
<1>1. HandleChildren(m, opts) = level[Depth]
  BY DEF HandleChildren
<1>2. first \in Seq(Tasks)
  BY ChildrenIs
<1> HIDE DEF first
<1>3. level \in [0..Depth -> Seq(Tasks)]
      /\ level = [n \in 0..Depth |-> IF n = 0 THEN first ELSE Handled(level[n - 1], opts)]
  <2> DEFINE g == [ts \in Seq(Tasks) |-> Handled(ts, opts)]
  <2>1. g \in [Seq(Tasks) -> Seq(Tasks)]
    BY HandledIs
  <2> HIDE DEF g
  <2> DEFINE T == Seq(Tasks)
  <2>0. \E f : Iterated(f, T, g, first, Depth)
    <3> HIDE DEF T
    <3> QED
      BY <1>2, <2>1, Iterates, DepthAssumption DEF T
  <2>2. PICK f \in [0..Depth -> T] : f[0] = first /\ \A n \in 1..Depth : f[n] = g[f[n - 1]]
    BY <2>0 DEF Iterated
  <2>3. \A n \in 1..Depth : f[n] = Handled(f[n - 1], opts)
    <3> SUFFICES ASSUME NEW n \in 1..Depth PROVE g[f[n - 1]] = Handled(f[n - 1], opts)
      BY <2>2
    <3>1. n - 1 \in 0..Depth
      BY DepthAssumption
    <3>2. f[n - 1] \in Seq(Tasks)
      BY <2>2, <3>1
    <3> QED
      BY <3>2 DEF g
  <2>4. \A n \in 0..Depth : f[n] = IF n = 0 THEN first ELSE Handled(f[n - 1], opts)
    BY <2>2, <2>3, DepthAssumption
  <2>5. f = [n \in 0..Depth |-> IF n = 0 THEN first ELSE Handled(f[n - 1], opts)]
    BY <2>2, <2>4
  <2>6. level = [n \in 0..Depth |-> IF n = 0 THEN first ELSE Handled(level[n - 1], opts)]
    BY <2>5
  <2> DEFINE P(x) == x \in T
             G == {n \in 0..Depth : P(level[n])}
  <2> HIDE DEF level
  <2>7. level[0] = first /\ \A n \in 1..Depth : level[n] = Handled(level[n - 1], opts)
    BY <2>6, DepthAssumption
  <2>8. 0 \in G /\ \A n \in 1..Depth : n - 1 \in G => n \in G
    BY <1>2, <2>7, HandledIs, DepthAssumption
  <2>9. G = 0..Depth
    <3> HIDE DEF G
    <3>1. G \in SUBSET (0..Depth) /\ Depth \in Nat
      BY DepthAssumption DEF G
    <3> QED
      BY <2>8, <3>1, Upwards
  <2>10. \A n \in 0..Depth : level[n] \in T
    BY <2>9
  <2>11. level \in [0..Depth -> T]
    BY <2>6, <2>10
  <2> QED
    BY <2>6, <2>11
<1> HIDE DEF level
<1>4. level[0] = first /\ \A n \in 1..Depth : level[n] = Handled(level[n - 1], opts)
  BY <1>3, DepthAssumption
<1> QED
  BY <1>1, <1>3, <1>4 DEF Levels, first

TaskRank == [t \in Tasks |-> t.index]

\* What is to be handled, or was, for the walk of a message: what can be shown
\* is there, with its number, and plainly there is nothing else.
GoodTasks(ts, m, opts) ==
  /\ ts \in Seq(Tasks)
  /\ \A x \in ToSet(ts) : x.handled => x.object.kind \in Shown
  /\ \A i \in 1..Len(Walk(m)) : Walk(m)[i].object.kind \in Shown =>
       Child(m, FALSE, i) \in ToSet(ts) \/ Done(Child(m, FALSE, i)) \in ToSet(ts)
  /\ Plainly(opts) =>
       /\ \A x \in ToSet(ts) : \E i \in 1..Len(Walk(m)) :
            \/ x = Child(m, FALSE, i)
            \/ x = Done(Child(m, FALSE, i)) /\ Walk(m)[i].object.kind \in Shown
       /\ Rising(ts, TaskRank)

LEMMA ChildIs ==
  ASSUME NEW m, m.top \in Objects, NEW i \in 1..Len(Walk(m))
  PROVE  /\ Child(m, FALSE, i) \in Tasks /\ Done(Child(m, FALSE, i)) \in Tasks
         /\ Child(m, FALSE, i).object = Walk(m)[i].object
         /\ Child(m, FALSE, i).parent = Walk(m)[i].parent
         /\ Child(m, FALSE, i).index = i - 1
         /\ Child(m, FALSE, i).freed = FALSE
         /\ ~Child(m, FALSE, i).handled
<1>1. Walk(m)[i].object \in Objects /\ Walk(m)[i].parent \in Objects \cup {Null}
      /\ i - 1 \in Nat
  BY WalkItems
<1>2. Child(m, FALSE, i) \in Tasks
  BY <1>1 DEF Child, Tasks
<1> QED
  BY <1>2, DoneIs DEF Child

LEMMA ChildrenAreGood ==
  ASSUME NEW m, m.top \in Objects, NEW opts
  PROVE  GoodTasks(Children(m, FALSE), m, opts)
<1>1. /\ Children(m, FALSE) \in Seq(Tasks)
      /\ Len(Children(m, FALSE)) = Len(Walk(m)) /\ Len(Walk(m)) \in Nat
      /\ \A i \in 1..Len(Walk(m)) : Children(m, FALSE)[i] = Child(m, FALSE, i)
      /\ \A x : x \in ToSet(Children(m, FALSE)) <=>
                  \E i \in 1..Len(Walk(m)) : x = Child(m, FALSE, i)
  BY ChildrenIs, WalkItems
<1>2. Rising(Children(m, FALSE), TaskRank)
  <2> DEFINE cs == Children(m, FALSE)
  <2>1. Len(cs) \in Nat /\ \A i \in 1..Len(cs) : TaskRank[cs[i]] = i - 1
    <3>1. \A i \in 1..Len(cs) : i \in 1..Len(Walk(m)) /\ cs[i] = Child(m, FALSE, i)
      BY <1>1
    <3>2. \A i \in 1..Len(cs) : cs[i] \in Tasks /\ cs[i].index = i - 1
      BY <3>1, ChildIs
    <3> QED
      BY <1>1, <3>2 DEF TaskRank
  <2> HIDE DEF cs
  <2>2. Rising(cs, TaskRank)
    BY <2>1 DEF Rising
  <2> QED
    BY <2>2 DEF cs
<1>3. ASSUME NEW x \in ToSet(Children(m, FALSE)) PROVE ~x.handled
  <2>1. PICK i \in 1..Len(Walk(m)) : x = Child(m, FALSE, i)
    BY <1>1
  <2> QED
    BY <2>1, ChildIs
<1> QED
  BY <1>1, <1>2, <1>3 DEF GoodTasks

LEMMA HandledIsGood ==
  ASSUME NEW m, m.top \in Objects, NEW opts, NEW ts, GoodTasks(ts, m, opts)
  PROVE  /\ GoodTasks(Handled(ts, opts), m, opts)
         /\ \A i \in 1..Len(Walk(m)) : Walk(m)[i].object.kind \in Shown =>
              Done(Child(m, FALSE, i)) \in ToSet(Handled(ts, opts))
<1> DEFINE us == Handled(ts, opts)
<1>1. ts \in Seq(Tasks) /\ \A x \in ToSet(ts) : x \in Tasks
  BY DEF GoodTasks, ToSet
<1>2. /\ us \in Seq(Tasks)
      /\ \A x : x \in ToSet(us) <=>
           \/ x \in ToSet(ts) /\ x.handled
           \/ \E t \in ToSet(ts) : ~t.handled /\ x \in ToSet(HandleMimeObject(t, opts))
      /\ \A r \in [Tasks -> Int] :
           Plainly(opts) /\ Rising(ts, r) /\ (\A t \in Tasks : r[Done(t)] = r[t])
             => Rising(us, r)
  BY <1>1, HandledIs
<1> HIDE DEF us
<1>3. ASSUME NEW t \in ToSet(ts), ~t.handled
      PROVE  /\ \A x \in ToSet(HandleMimeObject(t, opts)) :
                  x.handled => x.object.kind \in Shown
             /\ t.object.kind \in Shown => Done(t) \in ToSet(HandleMimeObject(t, opts))
             /\ Plainly(opts) =>
                  \A x \in ToSet(HandleMimeObject(t, opts)) :
                    x = Done(t) /\ t.object.kind \in Shown
  <2>1. t \in Tasks
    BY <1>1
  <2>2. LET s == HandleMimeObject(t, opts)
        IN /\ s \in Seq(Tasks)
           /\ \A x \in ToSet(s) : x.handled => x.object.kind \in Shown
           /\ t.object.kind \in Shown => Done(t) \in ToSet(s)
           /\ Plainly(opts) =>
                /\ t.object.kind \in Shown => s = <<Done(t)>>
                /\ t.object.kind \notin Shown => s = <<>>
    BY <1>3, <2>1, HandleMimeObjectIs
  <2>3. Done(t) \in Tasks
    BY <2>1, DoneIs
  <2>4. \A x : x \in ToSet(<<Done(t)>>) <=> x = Done(t)
    BY <2>3, SingleIs
  <2>5. \A x : x \notin ToSet(<<>>)
    BY DEF ToSet
  <2> QED
    BY <2>2, <2>4, <2>5
<1>4. ASSUME NEW x \in ToSet(us), x.handled PROVE x.object.kind \in Shown
  BY <1>2, <1>3, <1>4 DEF GoodTasks
<1>5. ASSUME NEW i \in 1..Len(Walk(m)), Walk(m)[i].object.kind \in Shown
      PROVE  Done(Child(m, FALSE, i)) \in ToSet(us)
  <2> DEFINE c == Child(m, FALSE, i)
  <2>1. c \in Tasks /\ c.object = Walk(m)[i].object /\ ~c.handled
    BY ChildIs
  <2>2. c \in ToSet(ts) \/ Done(c) \in ToSet(ts)
    BY <1>5 DEF GoodTasks
  <2> HIDE DEF c
  <2>3. Done(c).handled
    BY <2>1, DoneIs
  <2>4. \A t \in ToSet(ts) : IF t.handled THEN t \in ToSet(us)
          ELSE \A x \in ToSet(HandleMimeObject(t, opts)) : x \in ToSet(us)
    BY <1>2
  <2> SUFFICES Done(c) \in ToSet(us)
    BY DEF c
  <2>6. CASE c \in ToSet(ts)
    <3>1. Done(c) \in ToSet(HandleMimeObject(c, opts))
      BY <1>3, <1>5, <2>1, <2>6
    <3> QED
      BY <2>1, <2>4, <2>6, <3>1
  <2>5. CASE Done(c) \in ToSet(ts)
    BY <2>3, <2>4, <2>5
  <2> QED
    BY <2>2, <2>5, <2>6
<1>6. ASSUME Plainly(opts), NEW x \in ToSet(us)
      PROVE  \E i \in 1..Len(Walk(m)) :
               \/ x = Child(m, FALSE, i)
               \/ x = Done(Child(m, FALSE, i)) /\ Walk(m)[i].object.kind \in Shown
  <2>1. CASE x \in ToSet(ts)
    BY <1>6, <2>1 DEF GoodTasks
  <2>2. CASE x \notin ToSet(ts)
    <3>1. PICK t \in ToSet(ts) :
            ~t.handled /\ x = Done(t) /\ t.object.kind \in Shown
      BY <1>2, <1>3, <1>6, <2>2
    <3>2. PICK i \in 1..Len(Walk(m)) :
            \/ t = Child(m, FALSE, i)
            \/ t = Done(Child(m, FALSE, i)) /\ Walk(m)[i].object.kind \in Shown
      BY <1>6 DEF GoodTasks
    <3>3. Child(m, FALSE, i) \in Tasks /\ Child(m, FALSE, i).object = Walk(m)[i].object
      BY ChildIs
    <3>4. Done(Child(m, FALSE, i)).handled
      BY <3>3, DoneIs
    <3>5. t = Child(m, FALSE, i)
      BY <3>1, <3>2, <3>4
    <3> QED
      BY <3>1, <3>3, <3>5
  <2> QED
    BY <2>1, <2>2
<1>7. Plainly(opts) => Rising(us, TaskRank)
  <2>1. TaskRank \in [Tasks -> Int]
    BY DEF TaskRank, Tasks
  <2>2. \A t \in Tasks : TaskRank[Done(t)] = TaskRank[t]
    BY DoneIs DEF TaskRank
  <2> QED
    BY <1>2, <2>1, <2>2 DEF GoodTasks
<1> QED
  BY <1>2, <1>4, <1>5, <1>6, <1>7 DEF GoodTasks, us

LEMMA HandleChildrenIs ==
  ASSUME NEW m, m.top \in Objects, NEW opts
  PROVE  /\ GoodTasks(HandleChildren(m, opts), m, opts)
         /\ \A i \in 1..Len(Walk(m)) : Walk(m)[i].object.kind \in Shown =>
              Done(Child(m, FALSE, i)) \in ToSet(HandleChildren(m, opts))
<1>1. PICK level : Levels(level, m, opts)
  BY HandleChildrenLevels
<1> DEFINE G == {n \in 0..Depth : GoodTasks(level[n], m, opts)}
<1>2. 0 \in G /\ \A n \in 1..Depth : n - 1 \in G => n \in G
  <2>1. 0 \in 0..Depth /\ \A n \in 1..Depth : n \in 0..Depth
    BY DepthAssumption
  <2>2. 0 \in G
    BY <1>1, <2>1, ChildrenAreGood DEF Levels
  <2>3. ASSUME NEW n \in 1..Depth, n - 1 \in G PROVE n \in G
    <3>1. GoodTasks(level[n - 1], m, opts) /\ level[n] = Handled(level[n - 1], opts)
      BY <1>1, <2>3 DEF Levels
    <3>2. GoodTasks(level[n], m, opts)
      BY <3>1, HandledIsGood
    <3> QED
      BY <2>1, <3>2
  <2> QED
    BY <2>2, <2>3
<1>3. G = 0..Depth
  <2> HIDE DEF G
  <2>1. G \in SUBSET (0..Depth) /\ Depth \in Nat
    BY DepthAssumption DEF G
  <2> QED
    BY <1>2, <2>1, Upwards
<1>4. Depth - 1 \in 0..Depth /\ Depth \in 1..Depth
  BY DepthAssumption
<1>5. GoodTasks(level[Depth - 1], m, opts)
  BY <1>3, <1>4
<1>6. HandleChildren(m, opts) = Handled(level[Depth - 1], opts)
  BY <1>1, <1>4 DEF Levels
<1> QED
  BY <1>5, <1>6, HandledIsGood

\* What is handed to a callback.
MsgParts == [index : Nat, object : Objects, sig : Verdicts \cup {Null}, freed : BOOLEAN]
PartRank == [p \in MsgParts |-> p.index]

LEMMA VerdictIs ==
  ASSUME NEW sigs \in Seq(Verdicts)
  PROVE  /\ Verdict(sigs) \in Verdicts
         /\ Verdict(sigs) = "good" => ToSet(sigs) \subseteq {"good"}
<1> DEFINE X == {v \in Verdicts : v # "good"}
           ill == Chosen(sigs, X)
<1>1. \A i \in DOMAIN sigs : sigs[i] \in X <=> sigs[i] # "good"
  OBVIOUS
<1>2. Verdict(sigs) = IF ill = <<>> THEN "good" ELSE Last(ill)
  BY <1>1 DEF Verdict, Those, Chosen
<1>3. ill \in Seq(Verdicts) /\ \A x : x \in ToSet(ill) <=> x \in ToSet(sigs) /\ x \in X
  BY ChosenIs
<1>4. \A x \in ToSet(sigs) : x \in Verdicts
  BY DEF ToSet
<1> HIDE DEF ill
<1>5. CASE ill = <<>>
  <2>1. ToSet(ill) = {}
    BY <1>3, <1>5, EmptyIs
  <2> QED
    BY <1>2, <1>3, <1>4, <1>5, <2>1 DEF Verdicts
<1>6. CASE ill # <<>>
  <2>1. Last(ill) \in ToSet(ill)
    BY <1>3, <1>6, EndsAreIn
  <2> QED
    BY <1>2, <1>3, <1>6, <2>1
<1> QED
  BY <1>5, <1>6

LEMMA SignatureIs ==
  ASSUME NEW o \in Objects, NEW parent \in Objects \cup {Null}, NEW opts
  PROVE  /\ Signature(o, parent, opts) \in Verdicts \cup {Null}
         /\ Signature(o, parent, opts) # Null <=>
              /\ BuildCrypto /\ "verify" \in opts /\ o.type = "pgp-signature"
              /\ parent # Null /\ parent.kind = "signed" /\ parent.sigs # Null
         /\ Signature(o, parent, opts) = "good" =>
              ToSet(parent.sigs) \subseteq {"good"}
<1> DEFINE given == /\ BuildCrypto /\ o.type = "pgp-signature" /\ parent # Null
                    /\ parent.kind = "signed" /\ "verify" \in opts /\ parent.sigs # Null
<1>1. CASE given
  <2>1. Signature(o, parent, opts) = Verdict(parent.sigs)
    BY <1>1 DEF Signature
  <2>2. parent.sigs \in Seq(Verdicts)
    BY <1>1, ObjectsAssumption
  <2> QED
    BY <1>1, <2>1, <2>2, VerdictIs, NullAssumption
<1>2. CASE ~given
  <2>1. Signature(o, parent, opts) = Null
    BY <1>2 DEF Signature
  <2>2. Null # "good"
    BY NullAssumption DEF Verdicts
  <2> QED
    BY <1>2, <2>1, <2>2
<1> QED
  BY <1>1, <1>2

\* What is handed out for an object of the walk.
ShownPart(m, opts, i) ==
  [index |-> i - 1, object |-> Walk(m)[i].object,
   sig |-> Signature(Walk(m)[i].object, Walk(m)[i].parent, opts), freed |-> FALSE]

LEMMA ShownPartIs ==
  ASSUME NEW m, m.top \in Objects, NEW opts, NEW i \in 1..Len(Walk(m))
  PROVE  /\ ShownPart(m, opts, i) \in MsgParts
         /\ MsgPart(Done(Child(m, FALSE, i)), opts) = ShownPart(m, opts, i)
<1>1. Walk(m)[i].object \in Objects /\ Walk(m)[i].parent \in Objects \cup {Null}
      /\ i - 1 \in Nat
  BY WalkItems
<1>2. Signature(Walk(m)[i].object, Walk(m)[i].parent, opts) \in Verdicts \cup {Null}
  BY <1>1, SignatureIs
<1>3. /\ Done(Child(m, FALSE, i)).object = Walk(m)[i].object
      /\ Done(Child(m, FALSE, i)).parent = Walk(m)[i].parent
      /\ Done(Child(m, FALSE, i)).index = i - 1
      /\ Done(Child(m, FALSE, i)).freed = FALSE
  <2>1. /\ Child(m, FALSE, i) \in Tasks
        /\ Child(m, FALSE, i).object = Walk(m)[i].object
        /\ Child(m, FALSE, i).parent = Walk(m)[i].parent
        /\ Child(m, FALSE, i).index = i - 1
        /\ Child(m, FALSE, i).freed = FALSE
    BY ChildIs
  <2> HIDE DEF Child
  <2> QED
    BY <2>1, DoneIs
<1>4. ShownPart(m, opts, i) \in MsgParts
  BY <1>1, <1>2 DEF ShownPart, MsgParts
<1>5. MsgPart(Done(Child(m, FALSE, i)), opts) = ShownPart(m, opts, i)
  BY <1>3, Zenon DEF MsgPart, ShownPart
<1> QED
  BY <1>4, <1>5

LEMMA MsgPartIs ==
  ASSUME NEW t \in Tasks, NEW opts
  PROVE  /\ MsgPart(t, opts) \in MsgParts
         /\ MsgPart(t, opts).object = t.object /\ MsgPart(t, opts).index = t.index
         /\ MsgPart(t, opts).freed = t.freed
         /\ MsgPart(t, opts).sig = Signature(t.object, t.parent, opts)
<1>1. /\ t.object \in Objects /\ t.parent \in Objects \cup {Null} /\ t.index \in Nat
      /\ t.freed \in BOOLEAN
  BY DEF Tasks
<1>2. Signature(t.object, t.parent, opts) \in Verdicts \cup {Null}
  BY <1>1, SignatureIs
<1> QED
  BY <1>1, <1>2 DEF MsgPart, MsgParts

LEMMA PartForeachIs ==
  ASSUME NEW m, m.top \in Objects, NEW opts
  PROVE  /\ PartForeach(m, opts) \in Seq(MsgParts)
         /\ \A p \in ToSet(PartForeach(m, opts)) : p.object.kind \in Shown
         /\ \A i \in 1..Len(Walk(m)) : Walk(m)[i].object.kind \in Shown =>
              ShownPart(m, opts, i) \in ToSet(PartForeach(m, opts))
         /\ Plainly(opts) =>
              /\ \A p \in ToSet(PartForeach(m, opts)) :
                   \E i \in 1..Len(Walk(m)) : /\ p = ShownPart(m, opts, i)
                                              /\ Walk(m)[i].object.kind \in Shown
              /\ Rising(PartForeach(m, opts), PartRank)
<1> DEFINE ts == HandleChildren(m, opts)
           X == {t \in Tasks : t.handled}
           hs == Chosen(ts, X)
           ps == [i \in DOMAIN hs |-> MsgPart(hs[i], opts)]
<1>1. /\ GoodTasks(ts, m, opts)
      /\ \A i \in 1..Len(Walk(m)) : Walk(m)[i].object.kind \in Shown =>
           Done(Child(m, FALSE, i)) \in ToSet(ts)
  BY HandleChildrenIs
<1>2. ts \in Seq(Tasks) /\ \A x \in ToSet(ts) : x \in Tasks
  BY <1>1 DEF GoodTasks, ToSet
<1> HIDE DEF ts
<1>3. PartForeach(m, opts) = ps
  <2>1. \A i \in DOMAIN ts : ts[i] \in X <=> ts[i].handled
    BY <1>2
  <2>2. Those(ts, LAMBDA t : t.handled) = hs
    BY <2>1 DEF Those, Chosen
  <2> QED
    BY <2>2 DEF PartForeach, ts
<1>4. /\ hs \in Seq(Tasks)
      /\ \A x : x \in ToSet(hs) <=> x \in ToSet(ts) /\ x \in X
      /\ \A r \in [Tasks -> Int] : Rising(ts, r) => Rising(hs, r)
  BY <1>2, ChosenIs
<1> HIDE DEF hs
<1>5. /\ DOMAIN hs = 1..Len(hs) /\ Len(hs) \in Nat
      /\ \A i \in 1..Len(hs) : hs[i] \in Tasks
      /\ \A x : x \in ToSet(hs) <=> \E i \in 1..Len(hs) : x = hs[i]
  BY <1>4 DEF ToSet
<1>6. /\ ps \in Seq(MsgParts) /\ Len(ps) = Len(hs)
      /\ \A i \in 1..Len(hs) : ps[i] = MsgPart(hs[i], opts)
  BY <1>5, MsgPartIs
<1> HIDE DEF ps
<1>7. \A p : p \in ToSet(ps) <=> \E t \in ToSet(hs) : p = MsgPart(t, opts)
  <2>1. \A p : p \in ToSet(ps) <=> \E i \in 1..Len(ps) : p = ps[i]
    BY <1>6, ToSetIs
  <2> QED
    BY <1>5, <1>6, <2>1
<1>8. ASSUME NEW p \in ToSet(ps) PROVE p.object.kind \in Shown
  <2>1. PICK t \in ToSet(hs) : p = MsgPart(t, opts)
    BY <1>7
  <2>2. t \in ToSet(ts) /\ t \in Tasks /\ t.handled
    BY <1>4
  <2>3. t.object.kind \in Shown
    BY <1>1, <2>2 DEF GoodTasks
  <2> QED
    BY <2>1, <2>2, <2>3, MsgPartIs
<1>9. ASSUME NEW i \in 1..Len(Walk(m)), Walk(m)[i].object.kind \in Shown
      PROVE  ShownPart(m, opts, i) \in ToSet(ps)
  <2> DEFINE d == Done(Child(m, FALSE, i))
  <2>1. d \in Tasks /\ d.handled
    BY ChildIs, DoneIs
  <2>2. d \in ToSet(ts) /\ MsgPart(d, opts) = ShownPart(m, opts, i)
    BY <1>1, <1>9, ShownPartIs
  <2> HIDE DEF d
  <2>3. d \in ToSet(hs)
    BY <1>4, <2>1, <2>2
  <2> QED
    BY <1>7, <2>2, <2>3
<1>10. ASSUME Plainly(opts), NEW p \in ToSet(ps)
       PROVE  \E i \in 1..Len(Walk(m)) : /\ p = ShownPart(m, opts, i)
                                         /\ Walk(m)[i].object.kind \in Shown
  <2>1. PICK t \in ToSet(hs) : p = MsgPart(t, opts)
    BY <1>7
  <2>2. t \in ToSet(ts) /\ t.handled
    BY <1>4
  <2>3. PICK i \in 1..Len(Walk(m)) :
          \/ t = Child(m, FALSE, i)
          \/ t = Done(Child(m, FALSE, i)) /\ Walk(m)[i].object.kind \in Shown
    BY <1>1, <1>10, <2>2 DEF GoodTasks
  <2>4. ~Child(m, FALSE, i).handled
    BY ChildIs
  <2>5. t = Done(Child(m, FALSE, i)) /\ Walk(m)[i].object.kind \in Shown
    BY <2>2, <2>3, <2>4
  <2> QED
    BY <2>1, <2>5, ShownPartIs
<1>11. Plainly(opts) => Rising(ps, PartRank)
  <2> SUFFICES ASSUME Plainly(opts) PROVE Rising(ps, PartRank)
    OBVIOUS
  <2>1. TaskRank \in [Tasks -> Int]
    BY DEF TaskRank, Tasks
  <2>2. Rising(hs, TaskRank)
    BY <1>1, <1>4, <2>1 DEF GoodTasks
  <2>3. \A i \in 1..Len(hs) : PartRank[ps[i]] = TaskRank[hs[i]]
    BY <1>5, <1>6, MsgPartIs DEF PartRank, TaskRank
  <2> QED
    BY <1>6, <2>2, <2>3 DEF Rising
<1> QED
  BY <1>3, <1>6, <1>8, <1>9, <1>10, <1>11

\* What is found by its number.
LEMMA GetMimeObjectAtIndexIs ==
  ASSUME NEW m, m.top \in Objects, NEW opts, NEW index
  PROVE  LET p == GetMimeObjectAtIndex(m, opts, index)
         IN p # Null =>
              /\ p \in MsgParts /\ p.index = index /\ p.object.kind \in Shown
              /\ Plainly(opts) => /\ index + 1 \in 1..Len(Walk(m))
                                  /\ p.object = Walk(m)[index + 1].object
<1> DEFINE ps == PartForeach(m, opts)
           X == {p \in MsgParts : p.index = index}
           those == Chosen(ps, X)
           p == GetMimeObjectAtIndex(m, opts, index)
<1> SUFFICES ASSUME p # Null
             PROVE  /\ p \in MsgParts /\ p.index = index /\ p.object.kind \in Shown
                    /\ Plainly(opts) => /\ index + 1 \in 1..Len(Walk(m))
                                        /\ p.object = Walk(m)[index + 1].object
  OBVIOUS
<1>1. /\ ps \in Seq(MsgParts)
      /\ \A q \in ToSet(ps) : q.object.kind \in Shown
      /\ Plainly(opts) => \A q \in ToSet(ps) :
           \E i \in 1..Len(Walk(m)) : q = ShownPart(m, opts, i)
  BY PartForeachIs
<1> HIDE DEF ps
<1>2. p = IF those = <<>> THEN Null ELSE Head(those)
  <2>1. \A i \in DOMAIN ps : ps[i] \in X <=> ps[i].index = index
    BY <1>1
  <2>2. Those(ps, LAMBDA q : q.index = index) = those
    BY <2>1 DEF Those, Chosen
  <2> QED
    BY <2>2 DEF GetMimeObjectAtIndex, ps
<1>3. those \in Seq(MsgParts) /\ \A x : x \in ToSet(those) <=> x \in ToSet(ps) /\ x \in X
  BY <1>1, ChosenIs
<1> HIDE DEF those
<1>4. p = Head(those) /\ those # <<>>
  BY <1>2
<1> HIDE DEF p
<1>5. p \in ToSet(ps) /\ p \in X
  BY <1>3, <1>4, EndsAreIn
<1>6. ASSUME Plainly(opts)
      PROVE  index + 1 \in 1..Len(Walk(m)) /\ p.object = Walk(m)[index + 1].object
  <2>1. PICK i \in 1..Len(Walk(m)) : p = ShownPart(m, opts, i)
    BY <1>1, <1>5, <1>6
  <2>2. p.index = i - 1 /\ p.object = Walk(m)[i].object /\ p.index = index
    BY <1>5, <2>1 DEF ShownPart
  <2>3. index + 1 = i
    BY <2>1, <2>2, WalkItems
  <2> QED
    BY <2>2, <2>3
<1> QED
  BY <1>1, <1>5, <1>6

LEMMA IndicesIs ==
  ASSUME NEW s \in Seq(MsgParts)
  PROVE  /\ Indices(s) \in Seq(Nat) /\ Len(Indices(s)) = Len(s)
         /\ \A i \in 1..Len(s) : Indices(s)[i] = s[i].index
         /\ \A p \in ToSet(s) : p.index \in ToSet(Indices(s))
<1>1. DOMAIN s = 1..Len(s) /\ Len(s) \in Nat /\ \A i \in 1..Len(s) : s[i] \in MsgParts
  OBVIOUS
<1>2. \A i \in 1..Len(s) : s[i].index \in Nat
  BY <1>1 DEF MsgParts
<1>3. /\ Indices(s) \in Seq(Nat) /\ Len(Indices(s)) = Len(s)
      /\ \A i \in 1..Len(s) : Indices(s)[i] = s[i].index
  BY <1>1, <1>2 DEF Indices
<1>4. \A x : x \in ToSet(s) <=> \E i \in 1..Len(s) : x = s[i]
  BY ToSetIs
<1>5. \A x : x \in ToSet(Indices(s)) <=> \E i \in 1..Len(Indices(s)) : x = Indices(s)[i]
  BY <1>3, ToSetIs
<1> QED
  BY <1>3, <1>4, <1>5

LEMMA ReverseIs ==
  ASSUME NEW S, NEW s \in Seq(S)
  PROVE  Reverse(s) \in Seq(S)
<1>1. \A i \in 1..Len(s) : (Len(s) - i) + 1 \in 1..Len(s)
  OBVIOUS
<1> QED
  BY <1>1 DEF Reverse

LEMMA SaveCertainIs ==
  ASSUME NEW m, m.top \in Objects, NEW req
  PROVE  /\ SaveCertain(m, req) \in Seq(MsgParts)
         /\ \A p \in ToSet(PartForeach(m, OptionsOf(req))) :
              p.object.kind = "part" /\ (req.all \/ MaybeAttachment(p))
                => p \in ToSet(SaveCertain(m, req))
<1> DEFINE ps == PartForeach(m, OptionsOf(req))
           Test(p) == p.object.kind = "part" /\ (req.all \/ MaybeAttachment(p))
           X == {p \in MsgParts : Test(p)}
<1>1. ps \in Seq(MsgParts) /\ \A p \in ToSet(ps) : p \in MsgParts
  <2>1. ps \in Seq(MsgParts)
    BY PartForeachIs
  <2> HIDE DEF ps
  <2> QED
    BY <2>1 DEF ToSet
<1> HIDE DEF ps
<1>2. SaveCertain(m, req) = Chosen(ps, X)
  <2> HIDE DEF Test
  <2>1. \A i \in DOMAIN ps : ps[i] \in X <=> Test(ps[i])
    BY <1>1
  <2>2. Those(ps, Test) = Chosen(ps, X)
    BY <2>1 DEF Those, Chosen
  <2> QED
    BY <2>2 DEF SaveCertain, ps, Test
<1>3. /\ Chosen(ps, X) \in Seq(MsgParts)
      /\ \A x : x \in ToSet(Chosen(ps, X)) <=> x \in ToSet(ps) /\ x \in X
  BY <1>1, ChosenIs
<1> QED
  BY <1>1, <1>2, <1>3 DEF ps

LEMMA ForwardedIs ==
  ASSUME NEW m, m.top \in Objects
  PROVE  LET s == Those(PartForeach(m, {}), MaybeAttachment)
         IN s \in Seq(MsgParts) /\ Rising(s, PartRank)
<1> DEFINE ps == PartForeach(m, {})
           X == {p \in MsgParts : MaybeAttachment(p)}
<1>1. ps \in Seq(MsgParts) /\ Rising(ps, PartRank)
  BY PartForeachIs DEF Plainly
<1> HIDE DEF ps
<1>2. Those(ps, MaybeAttachment) = Chosen(ps, X)
  <2>1. \A i \in DOMAIN ps : ps[i] \in X <=> MaybeAttachment(ps[i])
    BY <1>1
  <2> QED
    BY <2>1 DEF Those, Chosen
<1>3. PartRank \in [MsgParts -> Int]
  BY DEF PartRank, MsgParts
<1> HIDE DEF X
<1>4. Chosen(ps, X) \in Seq(MsgParts) /\ Rising(Chosen(ps, X), PartRank)
  BY <1>1, <1>3, ChosenIs
<1> QED
  BY <1>2, <1>4 DEF ps

LEMMA MailIs ==
  ASSUME NEW m \in Mails
  PROVE  /\ m.top \in Objects
         /\ \A w \in ToSet(Walk(m)) : w.opened
<1>1. NotTooDeep(m)
  BY MailsAssumption
<1> QED
  BY <1>1 DEF NotTooDeep

LEMMA WantedIs ==
  ASSUME NEW m \in Mails, NEW req \in Requests, req.cmd # "verify"
  PROVE  Wanted(m, req) \in Seq(Nat)
<1> DEFINE opts == OptionsOf(req)
<1>1. m.top \in Objects
  BY MailIs
<1>2. \A o : PartForeach(m, o) \in Seq(MsgParts)
  BY <1>1, PartForeachIs
<1>3. CASE req.cmd = "extract" /\ req.parts # Null
  <2>1. Wanted(m, req) = req.parts
    BY <1>3 DEF Wanted
  <2> QED
    BY <1>3, <2>1, RequestsAssumption
<1>4. CASE req.cmd = "extract" /\ req.parts = Null /\ req.pattern # Null
  <2> DEFINE ps == PartForeach(m, opts)
             Test(p) == GetFilename(p, FALSE) \in req.pattern
             X == {p \in MsgParts : Test(p)}
  <2>1. Wanted(m, req) = Indices(FindFiles(m, opts, req.pattern))
    BY <1>4 DEF Wanted
  <2>2. ps \in Seq(MsgParts)
    BY <1>2
  <2> HIDE DEF ps
  <2>3. FindFiles(m, opts, req.pattern) = Reverse(Chosen(ps, X))
    <3> HIDE DEF Test
    <3>1. \A i \in DOMAIN ps : ps[i] \in X <=> Test(ps[i])
      BY <2>2
    <3>2. Those(ps, Test) = Chosen(ps, X)
      BY <3>1 DEF Those, Chosen
    <3> QED
      BY <3>2 DEF FindFiles, ps, Test
  <2>4. Chosen(ps, X) \in Seq(MsgParts)
    BY <2>2, ChosenIs
  <2>5. Reverse(Chosen(ps, X)) \in Seq(MsgParts)
    BY <2>4, ReverseIs
  <2> QED
    BY <2>1, <2>3, <2>5, IndicesIs
<1>5. CASE req.cmd = "extract" /\ req.parts = Null /\ req.pattern = Null
  <2>1. Wanted(m, req) = Indices(SaveCertain(m, req))
    BY <1>5 DEF Wanted
  <2> QED
    BY <1>1, <2>1, SaveCertainIs, IndicesIs
<1>6. CASE req.cmd = "forward"
  <2>1. Wanted(m, req) = Indices(Those(PartForeach(m, {}), MaybeAttachment))
    BY <1>6 DEF Wanted
  <2>2. Those(PartForeach(m, {}), MaybeAttachment) \in Seq(MsgParts)
    BY <1>1, ForwardedIs
  <2> QED
    BY <2>1, <2>2, IndicesIs
<1>7. CASE req.cmd = "view"
  <2> DEFINE ps == PartForeach(m, req.opts)
             Test(p) == p.object.type = "image"
             X == {p \in MsgParts : Test(p)}
  <2>1. ps \in Seq(MsgParts)
    BY <1>2
  <2> HIDE DEF ps
  <2>2. Those(ps, Test) = Chosen(ps, X)
    <3> HIDE DEF Test
    <3>1. \A i \in DOMAIN ps : ps[i] \in X <=> Test(ps[i])
      BY <2>1
    <3> QED
      BY <3>1 DEF Those, Chosen
  <2>3. Wanted(m, req) = Indices(Those(ps, Test))
    BY <1>7 DEF Wanted, ps
  <2>4. Chosen(ps, X) \in Seq(MsgParts)
    BY <2>1, ChosenIs
  <2> QED
    BY <2>2, <2>3, <2>4, IndicesIs
<1>8. CASE req.cmd \in {"save", "open", "temp"}
  <2>1. Wanted(m, req) = <<req.index>>
    BY <1>8 DEF Wanted
  <2> QED
    BY <2>1, RequestsAssumption
<1> QED
  BY <1>3, <1>4, <1>5, <1>6, <1>7, <1>8, RequestsAssumption DEF Commands

\* What is on disk: the content of each file, and whether all of it is there.
IsFile(d) == d \in [of : {d.of}, state : States]
IsDisk(d) == d = [f \in DOMAIN d |-> d[f]] /\ \A f \in DOMAIN d : IsFile(d[f])

IsJob(j) ==
  j \in [cmd : {j.cmd}, req : {j.req}, msg : {j.msg}, phase : {j.phase}, files : {j.files},
         todo : {j.todo}]

PartOf(j) == GetMimeObjectAtIndex(j.msg, OptionsOf(j.req), Head(j.todo).index)

\* A request that is being done: it was found to make sense, and what is
\* written is a part.
GoodJob(j) ==
  /\ IsJob(j)
  /\ j.req \in Requests /\ j.cmd = j.req.cmd /\ j.cmd # "verify" /\ j.msg \in Mails
  /\ j.phase \in {"open", "write"} /\ j.todo \in Seq([index : Nat])
  /\ j.cmd = "extract" => ~BadParams(j.req)
  /\ j.phase = "write" => j.todo # <<>> /\ PartOf(j) # Null

\* What was said, and of which message.
GoodAnswer(a) ==
  /\ a.req \in Requests /\ a.cmd = a.req.cmd /\ a.result \in Results
  /\ a.msg \in Mails \cup {Null}
  /\ a.cmd = "verify" /\ a.result = "ok" =>
       a.msg \in Mails /\ CombinedStatus(a.msg, a.req.opts) = "good"

TypeInv ==
  /\ mail \in Mails \cup {Null} /\ edits \in 0..MaxEdits /\ jobs \in 0..MaxJobs
  /\ IsDisk(disk)
  /\ job # Null => GoodJob(job)
  /\ job # Null /\ job.phase = "write" =>
       /\ FileOf(job, PartOf(job)) \in DOMAIN disk
       /\ disk[FileOf(job, PartOf(job))].of = ContentOf(PartOf(job).object)
       /\ disk[FileOf(job, PartOf(job))].state = "half"
  /\ told # Null => job = Null /\ GoodAnswer(told)

\* The job after a part: one part less, and perhaps one file more.
After(k, j, files) ==
  /\ GoodJob(k)
  /\ k.cmd = j.cmd /\ k.req = j.req /\ k.msg = j.msg
  /\ k.files = files /\ k.phase = "open" /\ k.todo = Tail(j.todo)

LEMMA AfterIs ==
  ASSUME NEW j, GoodJob(j), j.todo # <<>>, NEW k, NEW files,
         k \in [cmd : {j.cmd}, req : {j.req}, msg : {j.msg}, phase : {"open"},
                files : {files}, todo : {Tail(j.todo)}]
  PROVE  After(k, j, files)
<1>1. /\ k.cmd = j.cmd /\ k.req = j.req /\ k.msg = j.msg
      /\ k.files = files /\ k.phase = "open" /\ k.todo = Tail(j.todo)
  OBVIOUS
<1>2. IsJob(k)
  BY <1>1 DEF IsJob
<1>3. Tail(j.todo) \in Seq([index : Nat])
  BY DEF GoodJob
<1>4. k.phase # "write"
  BY <1>1
<1>5. GoodJob(k)
  BY <1>1, <1>2, <1>3, <1>4 DEF GoodJob
<1> QED
  BY <1>1, <1>5 DEF After

LEMMA Next1Is ==
  ASSUME NEW j, GoodJob(j), j.todo # <<>>
  PROVE  After(Next1(j), j, j.files)
<1>1. j \in [cmd : {j.cmd}, req : {j.req}, msg : {j.msg}, phase : {j.phase},
             files : {j.files}, todo : {j.todo}]
  BY DEF GoodJob, IsJob
<1>2. Next1(j) \in [cmd : {j.cmd}, req : {j.req}, msg : {j.msg}, phase : {"open"},
                    files : {j.files}, todo : {Tail(j.todo)}]
  BY <1>1 DEF Next1
<1> QED
  BY <1>2, AfterIs

LEMMA SavedJobIs ==
  ASSUME NEW j, GoodJob(j), j.todo # <<>>, NEW s
  PROVE  After([Next1(j) EXCEPT !.files = @ \cup {s}], j, j.files \cup {s})
<1>1. j \in [cmd : {j.cmd}, req : {j.req}, msg : {j.msg}, phase : {j.phase},
             files : {j.files}, todo : {j.todo}]
  BY DEF GoodJob, IsJob
<1>2. Next1(j) \in [cmd : {j.cmd}, req : {j.req}, msg : {j.msg}, phase : {"open"},
                    files : {j.files}, todo : {Tail(j.todo)}]
  BY <1>1 DEF Next1
<1>3. [Next1(j) EXCEPT !.files = @ \cup {s}]
        \in [cmd : {j.cmd}, req : {j.req}, msg : {j.msg}, phase : {"open"},
             files : {j.files \cup {s}}, todo : {Tail(j.todo)}]
  BY <1>2
<1> QED
  BY <1>3, AfterIs

LEMMA WithIs ==
  ASSUME NEW d, NEW f, NEW file, IsDisk(d), IsFile(file)
  PROVE  IsDisk(With(d, f, file))
<1>1. /\ DOMAIN With(d, f, file) = DOMAIN d \cup {f}
      /\ \A g \in DOMAIN d \cup {f} : With(d, f, file)[g] = IF g = f THEN file ELSE d[g]
  BY DEF With
<1>2. With(d, f, file) = [g \in DOMAIN With(d, f, file) |-> With(d, f, file)[g]]
  BY <1>1 DEF With
<1> QED
  BY <1>1, <1>2 DEF IsDisk

LEMMA WrittenIs ==
  ASSUME NEW f \in DOMAIN disk, IsDisk(disk), NEW state \in States
  PROVE  LET d == [disk EXCEPT ![f].state = state]
         IN /\ IsDisk(d) /\ DOMAIN d = DOMAIN disk
            /\ d[f].of = disk[f].of /\ d[f].state = state
            /\ \A g \in DOMAIN disk : g # f => d[g] = disk[g]
<1> DEFINE d == [disk EXCEPT ![f].state = state]
           file == [disk[f] EXCEPT !.state = state]
<1>1. disk[f] \in [of : {disk[f].of}, state : States]
  BY DEF IsDisk, IsFile
<1>2. /\ file \in [of : {disk[f].of}, state : States]
      /\ file.of = disk[f].of /\ file.state = state
  BY <1>1
<1>3. IsFile(file) /\ file.of = disk[f].of /\ file.state = state
  BY <1>2 DEF IsFile
<1> HIDE DEF file
<1>5. d = [g \in DOMAIN disk |-> IF g = f THEN file ELSE disk[g]]
  BY DEF IsDisk, file
<1> HIDE DEF d
<1>6. /\ DOMAIN d = DOMAIN disk
      /\ \A g \in DOMAIN disk : d[g] = IF g = f THEN file ELSE disk[g]
  BY <1>5
<1>7. IsDisk(d)
  BY <1>3, <1>5, <1>6 DEF IsDisk
<1>8. /\ IsDisk(d) /\ DOMAIN d = DOMAIN disk
      /\ d[f].of = disk[f].of /\ d[f].state = state
      /\ \A g \in DOMAIN disk : g # f => d[g] = disk[g]
  BY <1>3, <1>6, <1>7
<1> QED
  BY <1>8 DEF d

-----------------------------------------------------------------------------
(* The text of a message.                                                  *)

Recurse == {"recurse"}
RecurseDecrypt == {"decrypt", "recurse"}

LEMMA RecursedIs ==
  ASSUME NEW t \in Tasks, ~t.handled
  PROVE  /\ \A x : x \in ToSet(HandleMimeObject(t, Recurse)) <=>
              \/ t.object.kind \in Shown /\ x = Done(t)
              \/ /\ t.object.kind = "message" /\ t.object.inside # Null
                 /\ x \in ToSet(Children(t.object.inside, t.freed))
         /\ \A x \in ToSet(HandleMimeObject(t, Recurse)) :
              x \in ToSet(HandleMimeObject(t, RecurseDecrypt))
<1> DEFINE o == t.object
           one == <<Done(t)>>
<1>1. o \in Objects /\ t.freed \in BOOLEAN /\ Done(t) \in Tasks
  BY DoneIs DEF Tasks
<1>2. one \in Seq(Tasks) /\ \A x : x \in ToSet(one) <=> x = Done(t)
  BY <1>1, SingleIs
<1>3. CASE o.kind = "part"
  <2>1. HandleMimeObject(t, Recurse) = one /\ HandleMimeObject(t, RecurseDecrypt) = one
    BY <1>3 DEF HandleMimeObject, Done
  <2> HIDE DEF one
  <2> QED
    BY <1>2, <1>3, <2>1 DEF Shown
<1>4. CASE o.kind = "message"
  <2> DEFINE more == IF o.inside # Null THEN Children(o.inside, t.freed) ELSE <<>>
  <2>1. HandleMimeObject(t, Recurse) = one \o more
        /\ HandleMimeObject(t, RecurseDecrypt) = one \o more
    BY <1>4 DEF HandleMimeObject, Done, Recurse, RecurseDecrypt
  <2>2. /\ more \in Seq(Tasks)
        /\ \A x : x \in ToSet(more) <=>
             o.inside # Null /\ x \in ToSet(Children(o.inside, t.freed))
    <3>1. CASE o.inside # Null
      <4>1. o.inside.top \in Objects
        BY <1>1, <1>4, <3>1, ObjectsAssumption
      <4> QED
        BY <1>1, <3>1, <4>1, ChildrenIs
    <3>2. CASE o.inside = Null
      BY <3>2 DEF ToSet
    <3> QED
      BY <3>1, <3>2
  <2> HIDE DEF more, one
  <2>3. \A x : x \in ToSet(one \o more) <=> x \in ToSet(one) \/ x \in ToSet(more)
    BY <1>2, <2>2, ConcatIs
  <2> QED
    BY <1>2, <1>4, <2>1, <2>2, <2>3 DEF Shown
<1>5. CASE o.kind \notin Shown
  <2>1. HandleMimeObject(t, Recurse) = <<>>
    BY <1>5 DEF HandleMimeObject, Recurse, Shown
  <2>2. \A x : x \notin ToSet(<<>>)
    BY DEF ToSet
  <2> QED
    BY <1>5, <2>1, <2>2 DEF Shown
<1> QED
  BY <1>3, <1>4, <1>5 DEF Shown

\* To decrypt as well gives no fewer.
LEMMA DecryptGivesMore ==
  ASSUME NEW m, m.top \in Objects
  PROVE  \A x \in ToSet(HandleChildren(m, Recurse)) :
           x \in ToSet(HandleChildren(m, RecurseDecrypt))
<1>1. PICK l : Levels(l, m, Recurse)
  BY HandleChildrenLevels
<1>2. PICK k : Levels(k, m, RecurseDecrypt)
  BY HandleChildrenLevels
<1> DEFINE Fewer(n) == \A x \in ToSet(l[n]) : x \in ToSet(k[n])
           G == {n \in 0..Depth : Fewer(n)}
<1>3. Depth \in Nat /\ 0 \in 0..Depth /\ Depth \in 0..Depth
      /\ \A n \in 1..Depth : n \in 0..Depth /\ n - 1 \in 0..Depth
  BY DepthAssumption
<1>4. ASSUME NEW n \in 1..Depth, Fewer(n - 1) PROVE Fewer(n)
  <2> DEFINE a == l[n - 1]
             b == k[n - 1]
  <2>1. a \in Seq(Tasks) /\ b \in Seq(Tasks)
        /\ l[n] = Handled(a, Recurse) /\ k[n] = Handled(b, RecurseDecrypt)
    BY <1>1, <1>2, <1>3 DEF Levels
  <2>2. \A x \in ToSet(a) : x \in ToSet(b)
    BY <1>4
  <2> HIDE DEF a, b
  <2>3. \A x : x \in ToSet(Handled(a, Recurse)) <=>
          \/ x \in ToSet(a) /\ x.handled
          \/ \E t \in ToSet(a) : ~t.handled /\ x \in ToSet(HandleMimeObject(t, Recurse))
    BY <2>1, HandledIs
  <2>4. \A x : x \in ToSet(Handled(b, RecurseDecrypt)) <=>
          \/ x \in ToSet(b) /\ x.handled
          \/ \E t \in ToSet(b) : ~t.handled /\ x \in ToSet(HandleMimeObject(t, RecurseDecrypt))
    BY <2>1, HandledIs
  <2>5. ASSUME NEW t \in ToSet(a), ~t.handled
        PROVE  \A x \in ToSet(HandleMimeObject(t, Recurse)) :
                 x \in ToSet(HandleMimeObject(t, RecurseDecrypt))
    <3>1. t \in Tasks
      BY <2>1 DEF ToSet
    <3> QED
      BY <2>5, <3>1, RecursedIs
  <2> QED
    BY <2>1, <2>2, <2>3, <2>4, <2>5
<1>5. Fewer(0)
  BY <1>1, <1>2 DEF Levels
<1>6. G = 0..Depth
  <2> HIDE DEF Fewer
  <2>1. G \in SUBSET (0..Depth) /\ 0 \in G /\ \A n \in 1..Depth : n - 1 \in G => n \in G
    BY <1>3, <1>4, <1>5
  <2> HIDE DEF G
  <2> QED
    BY <1>3, <2>1, Upwards
<1>7. Fewer(Depth)
  <2> HIDE DEF Fewer
  <2> QED
    BY <1>3, <1>6
<1> QED
  BY <1>1, <1>2, <1>7 DEF Levels

\* What can be shown of the message i has been found.
AllFound(ts, i) ==
  \A k \in 1..Len(Walk(i)) : Walk(i)[k].object.kind \in Shown =>
    \E u \in ToSet(ts) : u.object = Walk(i)[k].object

\* So it is for each message that was handled.
Closed(ts) ==
  \A t \in ToSet(ts) :
    t.handled /\ t.object.kind = "message" /\ t.object.inside # Null =>
      AllFound(ts, t.object.inside)

LEMMA ClosedStays ==
  ASSUME NEW ts \in Seq(Tasks)
  PROVE  /\ \A i : AllFound(ts, i) => AllFound(Handled(ts, Recurse), i)
         /\ Closed(ts) => Closed(Handled(ts, Recurse))
<1> DEFINE us == Handled(ts, Recurse)
<1>1. \A t \in ToSet(ts) : t \in Tasks
  BY DEF ToSet
<1>2. \A x : x \in ToSet(us) <=>
        \/ x \in ToSet(ts) /\ x.handled
        \/ \E t \in ToSet(ts) : ~t.handled /\ x \in ToSet(HandleMimeObject(t, Recurse))
  BY HandledIs
<1> HIDE DEF us
<1>3. ASSUME NEW t \in ToSet(ts), ~t.handled
      PROVE  \A x : x \in ToSet(HandleMimeObject(t, Recurse)) <=>
               \/ t.object.kind \in Shown /\ x = Done(t)
               \/ /\ t.object.kind = "message" /\ t.object.inside # Null
                  /\ x \in ToSet(Children(t.object.inside, t.freed))
  BY <1>1, <1>3, RecursedIs
<1>4. ASSUME NEW t \in ToSet(ts), t.object.kind \in Shown
      PROVE  \E u \in ToSet(us) : u.object = t.object
  <2>1. CASE t.handled
    BY <1>2, <2>1
  <2>2. CASE ~t.handled
    <3>1. Done(t) \in ToSet(us)
      BY <1>2, <1>3, <1>4, <2>2
    <3> QED
      BY <1>1, <3>1, DoneIs
  <2> QED
    BY <2>1, <2>2
<1>5. ASSUME NEW i, AllFound(ts, i) PROVE AllFound(us, i)
  <2> SUFFICES ASSUME NEW k \in 1..Len(Walk(i)), Walk(i)[k].object.kind \in Shown
               PROVE  \E u \in ToSet(us) : u.object = Walk(i)[k].object
    BY DEF AllFound
  <2>1. PICK t \in ToSet(ts) : t.object = Walk(i)[k].object
    BY <1>5 DEF AllFound
  <2> QED
    BY <1>4, <2>1
<1>6. ASSUME NEW t \in ToSet(ts), ~t.handled, t.object.kind = "message",
             t.object.inside # Null
      PROVE  AllFound(us, t.object.inside)
  <2> DEFINE i == t.object.inside
  <2>1. t.object \in Objects /\ t.freed \in BOOLEAN
    BY <1>1 DEF Tasks
  <2>2. i.top \in Objects
    BY <1>6, <2>1, ObjectsAssumption
  <2>3. \A x : x \in ToSet(Children(i, t.freed)) <=>
                 \E k \in 1..Len(Walk(i)) : x = Child(i, t.freed, k)
    BY <2>1, <2>2, ChildrenIs
  <2>4. \A x \in ToSet(Children(i, t.freed)) : x \in ToSet(us)
    BY <1>2, <1>3, <1>6
  <2>5. \A k : Child(i, t.freed, k).object = Walk(i)[k].object
    BY DEF Child
  <2> QED
    BY <2>3, <2>4, <2>5 DEF AllFound
<1>7. ASSUME Closed(ts), NEW x \in ToSet(us), x.handled, x.object.kind = "message",
             x.object.inside # Null
      PROVE  AllFound(us, x.object.inside)
  <2>1. CASE x \in ToSet(ts)
    BY <1>5, <1>7, <2>1 DEF Closed
  <2>2. CASE x \notin ToSet(ts)
    <3>1. PICK t \in ToSet(ts) : ~t.handled /\ x \in ToSet(HandleMimeObject(t, Recurse))
      BY <1>2, <2>2
    <3>2. t.object \in Objects /\ t.freed \in BOOLEAN /\ t \in Tasks
      BY <1>1 DEF Tasks
    <3>3. CASE x = Done(t)
      BY <1>6, <1>7, <3>1, <3>2, <3>3, DoneIs
    <3>4. CASE t.object.kind = "message" /\ t.object.inside # Null
               /\ x \in ToSet(Children(t.object.inside, t.freed))
      <4>1. t.object.inside.top \in Objects
        BY <3>2, <3>4, ObjectsAssumption
      <4>2. \E k \in 1..Len(Walk(t.object.inside)) : x = Child(t.object.inside, t.freed, k)
        BY <3>2, <3>4, <4>1, ChildrenIs
      <4>3. \A k : ~Child(t.object.inside, t.freed, k).handled
        BY DEF Child
      <4> QED
        BY <1>7, <4>2, <4>3
    <3> QED
      BY <1>3, <3>1, <3>3, <3>4
  <2> QED
    BY <2>1, <2>2
<1> QED
  BY <1>5, <1>7 DEF Closed, us

LEMMA AllIsHandled ==
  ASSUME NEW m, NotTooDeep(m)
  PROVE  LET ts == HandleChildren(m, Recurse)
         IN /\ ts \in Seq(Tasks) /\ Closed(ts) /\ AllFound(ts, m)
            /\ \A t \in ToSet(ts) : t.handled
<1> DEFINE ts == HandleChildren(m, Recurse)
<1>1. /\ m.top \in Objects
      /\ \A t \in ToSet(HandleChildren(m, RecurseDecrypt)) : t.handled
  BY DEF NotTooDeep, RecurseDecrypt
<1>2. \A t \in ToSet(ts) : t.handled
  BY <1>1, DecryptGivesMore
<1>3. PICK l : Levels(l, m, Recurse)
  BY <1>1, HandleChildrenLevels
<1> DEFINE Good(n) == Closed(l[n]) /\ AllFound(l[n], m)
           G == {n \in 0..Depth : Good(n)}
<1>4. Depth \in Nat /\ 0 \in 0..Depth /\ Depth \in 0..Depth
      /\ \A n \in 1..Depth : n \in 0..Depth /\ n - 1 \in 0..Depth
  BY DepthAssumption
<1>5. Good(0)
  <2>1. l[0] = Children(m, FALSE)
    BY <1>3 DEF Levels
  <2>2. \A x : x \in ToSet(Children(m, FALSE)) <=>
                 \E k \in 1..Len(Walk(m)) : x = Child(m, FALSE, k)
    BY <1>1, ChildrenIs
  <2>3. \A k : ~Child(m, FALSE, k).handled /\ Child(m, FALSE, k).object = Walk(m)[k].object
    BY DEF Child
  <2>4. Closed(l[0])
    BY <2>1, <2>2, <2>3 DEF Closed
  <2>5. \A k \in 1..Len(Walk(m)) : Child(m, FALSE, k) \in ToSet(l[0])
    BY <2>1, <2>2
  <2>6. AllFound(l[0], m)
    BY <2>3, <2>5 DEF AllFound
  <2> QED
    BY <2>4, <2>6
<1>6. ASSUME NEW n \in 1..Depth, Good(n - 1) PROVE Good(n)
  <2>1. l[n - 1] \in Seq(Tasks) /\ l[n] = Handled(l[n - 1], Recurse)
    BY <1>3, <1>4 DEF Levels
  <2> QED
    BY <1>6, <2>1, ClosedStays
<1>7. G = 0..Depth
  <2> HIDE DEF Good
  <2>1. G \in SUBSET (0..Depth) /\ 0 \in G /\ \A n \in 1..Depth : n - 1 \in G => n \in G
    BY <1>4, <1>5, <1>6
  <2> HIDE DEF G
  <2> QED
    BY <1>4, <2>1, Upwards
<1>8. Good(Depth)
  <2> HIDE DEF Good
  <2> QED
    BY <1>4, <1>7
<1>9. ts = l[Depth] /\ ts \in Seq(Tasks)
  BY <1>3, <1>4 DEF Levels
<1> QED
  BY <1>2, <1>8, <1>9

\* The messages in those of X.
Inside(X) ==
  {w.object.inside : w \in {v \in UNION {ToSet(Walk(i)) : i \in X} :
                             v.object.kind = "message"}} \ {Null}

AllMessages(m) ==
  {m} \cup ({o.inside : o \in {p \in Objects : p.kind = "message"}} \ {Null})

LEMMA InsideIs ==
  ASSUME NEW m, m.top \in Objects, NEW X \in SUBSET AllMessages(m)
  PROVE  /\ Inside(X) \in SUBSET AllMessages(m)
         /\ \A i \in X : i.top \in Objects
         /\ \A j \in Inside(X) : j # Null /\ \E i \in X : \E k \in 1..Len(Walk(i)) :
              Walk(i)[k].object.kind = "message" /\ Walk(i)[k].object.inside = j
<1>1. ASSUME NEW i \in X PROVE i.top \in Objects
  <2>1. CASE i = m
    BY <2>1
  <2>2. CASE i # m
    <3>1. PICK o \in Objects : o.kind = "message" /\ o.inside = i /\ i # Null
      BY <2>2 DEF AllMessages
    <3> QED
      BY <3>1, ObjectsAssumption
  <2> QED
    BY <2>1, <2>2
<1>2. ASSUME NEW j \in Inside(X)
      PROVE  /\ j # Null /\ j \in AllMessages(m)
             /\ \E i \in X : \E k \in 1..Len(Walk(i)) :
                  Walk(i)[k].object.kind = "message" /\ Walk(i)[k].object.inside = j
  <2>1. PICK i \in X : \E w \in ToSet(Walk(i)) :
          w.object.kind = "message" /\ w.object.inside = j /\ j # Null
    BY DEF Inside
  <2>6. PICK w \in ToSet(Walk(i)) :
          w.object.kind = "message" /\ w.object.inside = j /\ j # Null
    BY <2>1
  <2>2. /\ Walk(i) \in Seq(Items)
        /\ \A k \in 1..Len(Walk(i)) : Walk(i)[k].object \in Objects
    BY <1>1, WalkItems
  <2>3. PICK k \in 1..Len(Walk(i)) : w = Walk(i)[k]
    BY <2>2, ToSetIs
  <2>4. w.object \in Objects
    BY <2>2, <2>3
  <2> QED
    BY <2>3, <2>4, <2>6 DEF AllMessages
<1> QED
  BY <1>1, <1>2

\* What the levels of Within are.
LEMMA WithinLevels ==
  ASSUME NEW m, m.top \in Objects
  PROVE  \E l : /\ l \in [0..Depth -> SUBSET AllMessages(m)] /\ l[0] = {m}
                /\ \A n \in 1..Depth : l[n] = l[n - 1] \cup Inside(l[n - 1])
                /\ Within(m) = l[Depth]
<1> DEFINE T == SUBSET AllMessages(m)
           first == {m}
           g == [X \in T |-> X \cup Inside(X)]
           level == CHOOSE l : l = [n \in 0..Depth |->
                      IF n = 0 THEN first ELSE l[n - 1] \cup Inside(l[n - 1])]
<1>1. Within(m) = level[Depth]
  BY DEF Within, Inside
<1>2. first \in T
  BY DEF AllMessages
<1>3. g \in [T -> T]
  BY InsideIs
<1>4. \A X \in T : g[X] = X \cup Inside(X)
  OBVIOUS
<1> HIDE DEF g, T, first
<1>5. PICK f : Iterated(f, T, g, first, Depth)
  BY <1>2, <1>3, Iterates, DepthAssumption
<1>6. \A n \in 1..Depth : n - 1 \in 0..Depth /\ f[n - 1] \in T /\ f[n] = g[f[n - 1]]
  BY <1>5, DepthAssumption DEF Iterated
<1>7. \A n \in 1..Depth : f[n] = f[n - 1] \cup Inside(f[n - 1])
  BY <1>4, <1>6
<1>8. f \in [0..Depth -> T] /\ f[0] = first
  BY <1>5 DEF Iterated
<1>9. \A n \in 0..Depth : f[n] = IF n = 0 THEN first ELSE f[n - 1] \cup Inside(f[n - 1])
  BY <1>7, <1>8, DepthAssumption
<1>10. f = [n \in 0..Depth |-> IF n = 0 THEN first ELSE f[n - 1] \cup Inside(f[n - 1])]
  BY <1>8, <1>9
<1>11. level = [n \in 0..Depth |->
                  IF n = 0 THEN first ELSE level[n - 1] \cup Inside(level[n - 1])]
  BY <1>10
<1> HIDE DEF level
<1>15. 0 \in 0..Depth /\ \A n \in 1..Depth : n \in 0..Depth /\ n - 1 \in 0..Depth /\ n # 0
  BY DepthAssumption
<1>16. \A n \in 0..Depth : level[n] = IF n = 0 THEN first
                                     ELSE level[n - 1] \cup Inside(level[n - 1])
  BY <1>11
<1>12. level[0] = first
       /\ \A n \in 1..Depth : n \in 0..Depth /\ n - 1 \in 0..Depth
            /\ level[n] = level[n - 1] \cup Inside(level[n - 1])
  BY <1>15, <1>16
<1> DEFINE G == {n \in 0..Depth : level[n] \in T}
<1>13. G = 0..Depth
  <2>1. 0 \in G /\ \A n \in 1..Depth : n - 1 \in G => n \in G
    <3>1. 0 \in G
      BY <1>2, <1>12, DepthAssumption
    <3>2. ASSUME NEW n \in 1..Depth, n - 1 \in G PROVE n \in G
      <4>1. level[n - 1] \in T
        BY <3>2
      <4>2. g[level[n - 1]] = level[n - 1] \cup Inside(level[n - 1])
            /\ g[level[n - 1]] \in T
        BY <1>3, <1>4, <4>1
      <4> QED
        BY <1>12, <4>2
    <3> QED
      BY <3>1, <3>2
  <2> HIDE DEF G
  <2>2. G \in SUBSET (0..Depth) /\ Depth \in Nat
    BY DepthAssumption DEF G
  <2> QED
    BY <2>1, <2>2, Upwards
<1>14. level \in [0..Depth -> T]
  BY <1>11, <1>13
<1> QED
  BY <1>1, <1>12, <1>14 DEF T, first

\* Each message in a message has been found in an object, and what can be
\* shown of it has.
LEMMA WithinIs ==
  ASSUME NEW m, NotTooDeep(m)
  PROVE  \A i \in Within(m) :
           /\ i.top \in Objects /\ AllFound(HandleChildren(m, Recurse), i)
           /\ i = m \/ \E u \in ToSet(HandleChildren(m, Recurse)) :
                         u.object.kind = "message" /\ u.object.inside = i
<1> DEFINE ts == HandleChildren(m, Recurse)
<1>1. m.top \in Objects
  BY DEF NotTooDeep
<1>2. PICK l : /\ l \in [0..Depth -> SUBSET AllMessages(m)] /\ l[0] = {m}
               /\ \A n \in 1..Depth : l[n] = l[n - 1] \cup Inside(l[n - 1])
               /\ Within(m) = l[Depth]
  BY <1>1, WithinLevels
<1>3. /\ ts \in Seq(Tasks) /\ Closed(ts) /\ AllFound(ts, m)
      /\ \A t \in ToSet(ts) : t.handled
  BY AllIsHandled
<1> HIDE DEF ts
<1> DEFINE Good(X) == \A i \in X :
             /\ AllFound(ts, i)
             /\ i = m \/ \E u \in ToSet(ts) : u.object.kind = "message" /\ u.object.inside = i
           G == {n \in 0..Depth : Good(l[n])}
<1>4. Depth \in Nat /\ 0 \in 0..Depth /\ Depth \in 0..Depth
      /\ \A n \in 1..Depth : n \in 0..Depth /\ n - 1 \in 0..Depth
  BY DepthAssumption
<1>5. Good(l[0])
  BY <1>2, <1>3
<1>6. ASSUME NEW n \in 1..Depth, Good(l[n - 1]) PROVE Good(l[n])
  <2> DEFINE X == l[n - 1]
  <2>1. X \in SUBSET AllMessages(m) /\ l[n] = X \cup Inside(X) /\ Good(X)
    BY <1>2, <1>4, <1>6
  <2> HIDE DEF X
  <2>2. ASSUME NEW j \in Inside(X)
        PROVE  /\ AllFound(ts, j)
               /\ \E u \in ToSet(ts) : u.object.kind = "message" /\ u.object.inside = j
    <3>0. PICK i \in X : j # Null /\ \E k \in 1..Len(Walk(i)) :
            Walk(i)[k].object.kind = "message" /\ Walk(i)[k].object.inside = j
      BY <1>1, <2>1, InsideIs
    <3>1. PICK k \in 1..Len(Walk(i)) :
            j # Null /\ Walk(i)[k].object.kind = "message" /\ Walk(i)[k].object.inside = j
      BY <3>0
    <3>2. AllFound(ts, i)
      BY <2>1
    <3>3. PICK u \in ToSet(ts) : u.object = Walk(i)[k].object
      BY <3>1, <3>2 DEF AllFound, Shown
    <3> QED
      BY <1>3, <3>1, <3>3 DEF Closed
  <2> QED
    BY <2>1, <2>2
<1>7. G = 0..Depth
  <2> HIDE DEF Good
  <2>1. G \in SUBSET (0..Depth) /\ 0 \in G /\ \A n \in 1..Depth : n - 1 \in G => n \in G
    BY <1>4, <1>5, <1>6
  <2> HIDE DEF G
  <2> QED
    BY <1>4, <2>1, Upwards
<1>8. Good(l[Depth])
  <2> HIDE DEF Good
  <2> QED
    BY <1>4, <1>7
<1>9. \A i \in l[Depth] : i.top \in Objects
  BY <1>1, <1>2, <1>4, InsideIs
<1> QED
  BY <1>2, <1>8, <1>9 DEF ts

\* The content of a part among others is in their contents.
LEMMA ContentsIs ==
  ASSUME NEW ps \in Seq(MsgParts)
  PROVE  \A c : c \in ToSet(ContentsOf(ps)) <=>
                  \E p \in ToSet(ps) : p.object.content # Null /\ c = p.object.content
<1> DEFINE C == {p.object.content : p \in MsgParts}
           ss == [i \in DOMAIN ps |-> PartToString(ps[i].object)]
<1>1. /\ DOMAIN ps = 1..Len(ps) /\ Len(ps) \in Nat
      /\ \A i \in 1..Len(ps) : ps[i] \in MsgParts
      /\ \A x : x \in ToSet(ps) <=> \E i \in 1..Len(ps) : x = ps[i]
  BY DEF ToSet
<1>2. ASSUME NEW p \in MsgParts
      PROVE  /\ PartToString(p.object) \in Seq(C)
             /\ \A c : c \in ToSet(PartToString(p.object)) <=>
                         p.object.content # Null /\ c = p.object.content
  <2>1. CASE p.object.content = Null
    <3>1. PartToString(p.object) = <<>> /\ \A c : c \notin ToSet(<<>>)
      BY <2>1 DEF PartToString, ToSet
    <3> QED
      BY <2>1, <3>1
  <2>2. CASE p.object.content # Null
    <3> DEFINE d == p.object.content
    <3>1. PartToString(p.object) = <<d>> /\ d \in C
      BY <2>2 DEF PartToString
    <3> HIDE DEF d, C
    <3>2. <<d>> \in Seq(C) /\ \A c : c \in ToSet(<<d>>) <=> c = d
      BY <3>1, SingleIs
    <3> QED
      BY <2>2, <3>1, <3>2 DEF d
  <2> QED
    BY <2>1, <2>2
<1> HIDE DEF C
<1>3. /\ ss \in Seq(Seq(C)) /\ Len(ss) = Len(ps)
      /\ \A i \in 1..Len(ss) : ss[i] = PartToString(ps[i].object)
  BY <1>1, <1>2
<1>4. ContentsOf(ps) = FlattenSeq(ss)
  BY DEF ContentsOf
<1> HIDE DEF ss
<1>5. \A x : x \in ToSet(FlattenSeq(ss)) <=> \E i \in 1..Len(ss) : x \in ToSet(ss[i])
  BY <1>3, FlattenIs
<1>6. ASSUME NEW c
      PROVE  c \in ToSet(ContentsOf(ps)) <=>
               \E i \in 1..Len(ps) : c \in ToSet(PartToString(ps[i].object))
  BY <1>3, <1>4, <1>5
<1>7. ASSUME NEW c, NEW i \in 1..Len(ps)
      PROVE  c \in ToSet(PartToString(ps[i].object)) <=>
               ps[i].object.content # Null /\ c = ps[i].object.content
  BY <1>1, <1>2
<1>8. \A x : x \in ToSet(ps) <=> \E i \in 1..Len(ps) : x = ps[i]
  BY <1>1
<1>9. \A c : c \in ToSet(ContentsOf(ps)) <=>
         \E i \in 1..Len(ps) : ps[i].object.content # Null /\ c = ps[i].object.content
  BY <1>6, <1>7
<1>10. ASSUME NEW c, NEW p \in ToSet(ps), p.object.content # Null, c = p.object.content
       PROVE  c \in ToSet(ContentsOf(ps))
  <2>1. PICK i \in 1..Len(ps) : p = ps[i]
    BY <1>8
  <2> QED
    BY <1>9, <1>10, <2>1
<1>11. ASSUME NEW c \in ToSet(ContentsOf(ps))
       PROVE  \E p \in ToSet(ps) : p.object.content # Null /\ c = p.object.content
  <2>1. PICK i \in 1..Len(ps) : ps[i].object.content # Null /\ c = ps[i].object.content
    BY <1>9
  <2>2. ps[i] \in ToSet(ps)
    BY <1>8
  <2> QED
    BY <2>1, <2>2
<1> QED
  BY <1>10, <1>11

\* The text that is shown of a message without looking into others, and of one
\* that is handed out.
LEMMA TextsOfParts ==
  ASSUME NEW m, m.top \in Objects, NEW k \in 1..Len(Walk(m)),
         Walk(m)[k].object.kind = "part", Walk(m)[k].object.type = "text/plain",
         Walk(m)[k].object.content # Null
  PROVE  /\ Walk(m)[k].object.disp # "attachment" =>
              Walk(m)[k].object.content \in ToSet(GetBody(m, {}, "text/plain"))
         /\ \A p : p.object.kind = "message" /\ p.object.inside = m /\ m # Null =>
              Walk(m)[k].object.content \in ToSet(GetText(p, {}))
<1> DEFINE ps == PartForeach(m, {})
           q == ShownPart(m, {}, k)
           B == {p \in MsgParts : p.object.kind = "part" /\ p.object.disp # "attachment"
                                  /\ p.object.type = "text/plain"}
           T == {p \in MsgParts : p.object.kind = "part" /\ p.object.type = "text/plain"}
<1>1. ps \in Seq(MsgParts) /\ q \in ToSet(ps)
  BY PartForeachIs DEF Shown
<1>2. q \in MsgParts /\ q.object = Walk(m)[k].object
  BY ShownPartIs DEF ShownPart
<1> HIDE DEF q
<1>3. GetBody(m, {}, "text/plain") = ContentsOf(Chosen(ps, B))
  <2> HIDE DEF ps
  <2>1. \A i \in DOMAIN ps : ps[i] \in B <=>
          ps[i].object.kind = "part" /\ ps[i].object.disp # "attachment"
          /\ ps[i].object.type = "text/plain"
    BY <1>1
  <2>2. Those(ps, LAMBDA p : p.object.kind = "part" /\ p.object.disp # "attachment"
                             /\ p.object.type = "text/plain") = Chosen(ps, B)
    BY <2>1 DEF Those, Chosen
  <2> QED
    BY <2>2 DEF GetBody, ps
<1>4. ASSUME NEW p, p.object.kind = "message", p.object.inside = m, m # Null
      PROVE  GetText(p, {}) = ContentsOf(Chosen(ps, T))
  <2> HIDE DEF ps
  <2>1. \A i \in DOMAIN ps : ps[i] \in T <=>
          ps[i].object.kind = "part" /\ ps[i].object.type = "text/plain"
    BY <1>1
  <2>2. Those(ps, LAMBDA r : r.object.kind = "part" /\ r.object.type = "text/plain")
          = Chosen(ps, T)
    BY <2>1 DEF Those, Chosen
  <2> QED
    BY <1>4, <2>2 DEF GetText, ps
<1> HIDE DEF ps
<1>5. ASSUME NEW X, q \in X
      PROVE  Walk(m)[k].object.content \in ToSet(ContentsOf(Chosen(ps, X)))
  <2>1. Chosen(ps, X) \in Seq(MsgParts) /\ q \in ToSet(Chosen(ps, X))
    BY <1>1, <1>5, ChosenIs
  <2> QED
    BY <1>2, <2>1, ContentsIs
<1>6. Walk(m)[k].object.disp # "attachment" => q \in B
  BY <1>2
<1>7. q \in T
  BY <1>2
<1> QED
  BY <1>3, <1>4, <1>5, <1>6, <1>7

\* All plain text of a message is in the body that is shown without looking
\* into others, or in an attachment or a message that is handed out
\* (mu-msg.c:331-418, mu-store-write.cc:270-340).
LEMMA TextIsFound ==
  ASSUME NEW m, NotTooDeep(m), NEW c \in Texts(m)
  PROVE  \/ c \in ToSet(GetBody(m, {}, "text/plain"))
         \/ \E p \in ToSet(PartForeach(m, {"recurse"})) :
              /\ p.object.kind = "message" \/ p.object.disp = "attachment"
              /\ c \in ToSet(GetText(p, {}))
<1> DEFINE ts == HandleChildren(m, Recurse)
           ps == PartForeach(m, Recurse)
<1>1. PICK i \in Within(m) : \E w \in ToSet(Walk(i)) :
        /\ w.object.kind = "part" /\ w.object.type = "text/plain"
        /\ w.object.content = c /\ c # Null
  BY DEF Texts
<1>2. PICK w \in ToSet(Walk(i)) :
        /\ w.object.kind = "part" /\ w.object.type = "text/plain"
        /\ w.object.content = c /\ c # Null
  BY <1>1
<1>3. /\ i.top \in Objects /\ AllFound(ts, i)
      /\ i = m \/ \E u \in ToSet(ts) : u.object.kind = "message" /\ u.object.inside = i
  BY WithinIs
<1>4. /\ m.top \in Objects /\ ts \in Seq(Tasks) /\ \A t \in ToSet(ts) : t.handled
  BY AllIsHandled DEF NotTooDeep
<1>5. PICK k \in 1..Len(Walk(i)) : w = Walk(i)[k]
  <2>1. Walk(i) \in Seq(Items)
    BY <1>3, WalkItems
  <2> QED
    BY <2>1, ToSetIs
<1>6. ASSUME NEW t \in ToSet(ts)
      PROVE  \E p \in ToSet(ps) : p.object = t.object
  <2> DEFINE X == {u \in Tasks : u.handled}
             hs == Chosen(ts, X)
  <2> HIDE DEF ts
  <2>1. hs \in Seq(Tasks) /\ t \in ToSet(hs)
    <3>1. t \in X
      BY <1>4 DEF ToSet
    <3> QED
      BY <1>4, <3>1, ChosenIs
  <2>2. ps = [j \in DOMAIN hs |-> MsgPart(hs[j], Recurse)]
    <3>1. \A j \in DOMAIN ts : ts[j] \in X <=> ts[j].handled
      BY <1>4
    <3>2. Those(ts, LAMBDA u : u.handled) = hs
      BY <3>1 DEF Those, Chosen
    <3> QED
      BY <3>2 DEF PartForeach, ts
  <2> HIDE DEF hs
  <2>3. PICK j \in 1..Len(hs) : t = hs[j]
    BY <2>1, ToSetIs
  <2>4. DOMAIN hs = 1..Len(hs) /\ t \in Tasks
    BY <2>1, <2>3
  <2>5. MsgPart(t, Recurse) \in ToSet(ps)
    BY <2>2, <2>3, <2>4 DEF ToSet
  <2> QED
    BY <2>4, <2>5, MsgPartIs
<1>7. CASE i = m /\ w.object.disp # "attachment"
  BY <1>2, <1>3, <1>5, <1>7, TextsOfParts
<1>8. CASE i = m /\ w.object.disp = "attachment"
  <2>1. PICK t \in ToSet(ts) : t.object = w.object
    BY <1>2, <1>3, <1>5 DEF AllFound, Shown
  <2>2. PICK p \in ToSet(ps) : p.object = w.object
    BY <1>6, <2>1
  <2>3. GetText(p, {}) = <<c>>
    BY <1>2, <2>2 DEF GetText, PartToString
  <2>4. c \in {c}
    OBVIOUS
  <2>5. c \in ToSet(<<c>>)
    BY <2>4, SingleIs
  <2> QED
    BY <1>8, <2>2, <2>3, <2>5 DEF Recurse
<1>9. CASE i # m
  <2>1. PICK u \in ToSet(ts) : u.object.kind = "message" /\ u.object.inside = i
    BY <1>3, <1>9
  <2>2. PICK p \in ToSet(ps) : p.object = u.object
    BY <1>6, <2>1
  <2>3. i # Null
    <3>1. Within(m) \subseteq AllMessages(m)
      <4>1. Depth \in 0..Depth
        BY DepthAssumption
      <4> QED
        BY <1>4, <4>1, WithinLevels
    <3> QED
      BY <1>9, <3>1 DEF AllMessages
  <2>4. c \in ToSet(GetText(p, {}))
    BY <1>2, <1>3, <1>5, <2>1, <2>2, <2>3, TextsOfParts
  <2> QED
    BY <2>1, <2>2, <2>4 DEF Recurse
<1> QED
  BY <1>7, <1>8, <1>9

-----------------------------------------------------------------------------
(* The steps.                                                              *)

LEMMA TellIs ==
  ASSUME NEW j, NEW result \in Results, Tell(j, result),
         j.req \in Requests, j.cmd = j.req.cmd, j.msg \in Mails \cup {Null},
         j.cmd = "verify" /\ result = "ok" =>
           j.msg \in Mails /\ CombinedStatus(j.msg, j.req.opts) = "good"
  PROVE  /\ job' = Null /\ GoodAnswer(told')
         /\ told'.cmd = j.cmd /\ told'.req = j.req /\ told'.msg = j.msg
         /\ told'.result = result /\ told'.files = j.files
<1>1. /\ job' = Null
      /\ told'.cmd = j.cmd /\ told'.req = j.req /\ told'.msg = j.msg
      /\ told'.result = result /\ told'.files = j.files
  BY DEF Tell
<1>2. GoodAnswer(told')
  BY <1>1 DEF GoodAnswer
<1> QED
  BY <1>1, <1>2

\* How a job ends.
Ends(result) ==
  /\ job' = Null /\ GoodAnswer(told')
  /\ told'.cmd = job.cmd /\ told'.req = job.req /\ told'.msg = job.msg
  /\ told'.result = result /\ told'.files = job.files

LEMMA EndsIs ==
  ASSUME GoodJob(job), NEW result \in Results, Tell(job, result)
  PROVE  Ends(result)
<1>1. /\ job.req \in Requests /\ job.cmd = job.req.cmd /\ job.msg \in Mails \cup {Null}
      /\ job.cmd # "verify"
  BY DEF GoodJob
<1> QED
  BY <1>1, TellIs DEF Ends

LEMMA PartFailedIs ==
  ASSUME GoodJob(job), job.todo # <<>>, PartFailed
  PROVE  /\ UNCHANGED <<mail, edits, jobs>>
         /\ \/ GoesOn(job) /\ After(job', job, job.files) /\ UNCHANGED told
            \/ Ends("error")
<1>1. CASE GoesOn(job)
  <2>1. job' = Next1(job) /\ UNCHANGED told /\ UNCHANGED <<mail, edits, jobs>>
    BY <1>1 DEF PartFailed
  <2>2. After(Next1(job), job, job.files)
    BY Next1Is
  <2> QED
    BY <1>1, <2>1, <2>2
<1>2. CASE ~GoesOn(job)
  <2>1. Tell(job, "error") /\ UNCHANGED <<mail, edits, jobs>>
    BY <1>2 DEF PartFailed
  <2> QED
    BY <2>1, EndsIs DEF Results
<1> QED
  BY <1>1, <1>2

Saved(p) == [file |-> FileOf(job, p), index |-> p.index]

LEMMA PlayedIs ==
  ASSUME GoodJob(job), job.todo # <<>>, NEW p, Played(p)
  PROVE  /\ UNCHANGED <<mail, edits, jobs>>
         /\ \/ After(job', job, job.files \cup {Saved(p)}) /\ UNCHANGED told
            \/ GoesOn(job) /\ After(job', job, job.files) /\ UNCHANGED told
            \/ Ends("error")
<1>1. CASE PartSaved(p)
  <2>1. /\ job' = [Next1(job) EXCEPT !.files = @ \cup {Saved(p)}]
        /\ UNCHANGED <<mail, edits, jobs, told>>
    BY <1>1 DEF PartSaved, Saved
  <2>2. After([Next1(job) EXCEPT !.files = @ \cup {Saved(p)}], job, job.files \cup {Saved(p)})
    BY SavedJobIs
  <2> QED
    BY <2>1, <2>2
<1>2. CASE PartFailed
  BY <1>2, PartFailedIs
<1> QED
  BY <1>1, <1>2 DEF Played

LEMMA PartIs ==
  ASSUME GoodJob(job), job.todo # <<>>, Part # Null
  PROVE  /\ Part = PartOf(job) /\ Part \in MsgParts
         /\ Head(job.todo) \in [index : Nat] /\ Part.index = Head(job.todo).index
         /\ Part.object.kind \in Shown
         /\ Plainly(OptionsOf(job.req)) =>
              /\ Part.index + 1 \in 1..Len(Walk(job.msg))
              /\ Part.object = Walk(job.msg)[Part.index + 1].object
<1>1. Part = GetMimeObjectAtIndex(job.msg, OptionsOf(job.req), Head(job.todo).index)
      /\ Part = PartOf(job)
  BY DEF Part, PartOf
<1>2. job.msg.top \in Objects /\ Head(job.todo) \in [index : Nat]
  <2>1. job.msg \in Mails /\ job.todo \in Seq([index : Nat])
    BY DEF GoodJob
  <2>2. job.msg.top \in Objects
    BY <2>1, MailIs
  <2>3. \A S : \A s \in Seq(S) : s # <<>> => Head(s) \in S
    OBVIOUS
  <2> QED
    BY <2>1, <2>2, <2>3
<1> HIDE DEF Part
<1> QED
  BY <1>1, <1>2, GetMimeObjectAtIndexIs

LEMMA OpenPartIs ==
  ASSUME TypeInv, OpenPart
  PROVE  /\ GoodJob(job) /\ job.phase = "open" /\ job.todo # <<>> /\ job # Null
         /\ UNCHANGED <<mail, edits, jobs>>
         /\ \/ /\ UNCHANGED disk
               /\ \/ GoesOn(job) /\ After(job', job, job.files) /\ UNCHANGED told
                  \/ Ends("error") \/ Ends("crash")
            \/ /\ Writing(job.req) = "use existing" /\ UNCHANGED <<disk, told>>
               /\ Part # Null /\ After(job', job, job.files \cup {Saved(Part)})
            \/ /\ Part # Null /\ Opens(FileOf(job, Part)) /\ UNCHANGED told
               /\ disk' = With(disk, FileOf(job, Part), [of |-> ContentOf(Part.object), state |-> "half"])
               /\ job' = [job EXCEPT !.phase = "write"]
<1>1. GoodJob(job) /\ job.phase = "open" /\ job.todo # <<>> /\ job # Null
  BY DEF TypeInv, OpenPart
<1> HIDE DEF Part
<1>2. CASE PartFailed /\ UNCHANGED disk
  BY <1>1, <1>2, PartFailedIs
<1>3. CASE Dies
  <2>1. Tell(job, "crash") /\ UNCHANGED <<mail, edits, disk, jobs>>
    BY <1>3 DEF Dies
  <2>2. Ends("crash")
    BY <1>1, <2>1, EndsIs DEF Results
  <2> QED
    BY <1>1, <2>1, <2>2
<1>4. CASE Part # Null /\ Writing(job.req) = "use existing" /\ Played(Part) /\ UNCHANGED disk
  BY <1>1, <1>4, PlayedIs
<1>6. CASE /\ Part # Null /\ Opens(FileOf(job, Part))
           /\ disk' = With(disk, FileOf(job, Part), [of |-> ContentOf(Part.object), state |-> "half"])
           /\ job' = [job EXCEPT !.phase = "write"]
           /\ UNCHANGED <<mail, edits, jobs, told>>
  BY <1>1, <1>6
<1> QED
  BY <1>2, <1>3, <1>4, <1>6 DEF OpenPart

LEMMA WritePartIs ==
  ASSUME TypeInv, WritePart
  PROVE  /\ GoodJob(job) /\ job.phase = "write" /\ job.todo # <<>> /\ job # Null
         /\ Part # Null /\ FileOf(job, Part) \in DOMAIN disk
         /\ disk[FileOf(job, Part)].of = ContentOf(Part.object)
         /\ disk[FileOf(job, Part)].state = "half"
         /\ UNCHANGED <<mail, edits, jobs>>
         /\ \/ /\ UNCHANGED disk
               /\ \/ GoesOn(job) /\ After(job', job, job.files) /\ UNCHANGED told
                  \/ Ends("error")
            \/ \E state \in States :
                 /\ disk' = [disk EXCEPT ![FileOf(job, Part)].state = state]
                 /\ \/ GoesOn(job) /\ After(job', job, job.files) /\ UNCHANGED told
                    \/ Ends("error")
                    \/ /\ Enough(state, Part.object)
                       /\ After(job', job, job.files \cup {Saved(Part)}) /\ UNCHANGED told
<1>1. GoodJob(job) /\ job.phase = "write" /\ job.todo # <<>> /\ job # Null
  BY DEF TypeInv, WritePart, GoodJob
<1>2. /\ Part # Null /\ FileOf(job, Part) \in DOMAIN disk
      /\ disk[FileOf(job, Part)].of = ContentOf(Part.object)
      /\ disk[FileOf(job, Part)].state = "half"
  BY <1>1 DEF TypeInv, GoodJob, Part, PartOf
<1> HIDE DEF Part
<1>3. ASSUME NEW state \in Writes(Part.object)
      PROVE  state \in States /\ Enough(state, Part.object)
  BY DEF Writes, States, Enough
<1>4. ASSUME NEW state \in Writes(Part.object), Played(Part),
             disk' = [disk EXCEPT ![FileOf(job, Part)].state = state]
      PROVE  /\ UNCHANGED <<mail, edits, jobs>>
             /\ \/ GoesOn(job) /\ After(job', job, job.files) /\ UNCHANGED told
                \/ Ends("error")
                \/ /\ Enough(state, Part.object)
                   /\ After(job', job, job.files \cup {Saved(Part)}) /\ UNCHANGED told
  BY <1>1, <1>3, <1>4, PlayedIs
<1>5. CASE PartFailed /\ UNCHANGED disk
  BY <1>1, <1>2, <1>5, PartFailedIs
<1>6. CASE \E state \in Writes(Part.object) :
             /\ disk' = [disk EXCEPT ![FileOf(job, Part)].state = state]
             /\ Played(Part)
  <2>1. PICK state \in Writes(Part.object) :
          /\ disk' = [disk EXCEPT ![FileOf(job, Part)].state = state]
          /\ Played(Part)
    BY <1>6
  <2> QED
    BY <1>1, <1>2, <1>3, <1>4, <2>1
<1> QED
  BY <1>5, <1>6 DEF WritePart

LEMMA BeginIs ==
  ASSUME TypeInv, NEW req \in Requests, Begin(req)
  PROVE  /\ UNCHANGED <<mail, edits, disk>> /\ jobs' \in 0..MaxJobs /\ job = Null
         /\ \/ /\ job' = Null /\ GoodAnswer(told') /\ told'.files = {}
               /\ told'.req = req /\ told'.msg = mail
               /\ told'.result = AnswersAtOnce(req)
            \/ /\ told' = Null /\ job' = NewJob(req) /\ GoodJob(job')
               /\ job'.phase = "open" /\ job'.files = {}
               /\ job'.req = req /\ job'.cmd = req.cmd /\ job'.msg = mail
               /\ job'.todo = LET w == Wanted(mail, req) IN [i \in DOMAIN w |-> [index |-> w[i]]]
<1>1. UNCHANGED <<mail, edits, disk>> /\ jobs' \in 0..MaxJobs /\ job = Null
  BY BoundsAssumption DEF TypeInv, Begin
<1>2. req.cmd \in Commands
  BY RequestsAssumption
<1>3. CASE AnswersAtOnce(req) # Null
  <2> DEFINE r == AnswersAtOnce(req)
             j == Began(req)
  <2>1. r \in {"ok", "error"}
    BY <1>2, <1>3 DEF AnswersAtOnce, Commands
  <2>2. /\ j.req = req /\ j.cmd = req.cmd /\ j.msg = mail /\ j.files = {}
    BY DEF Began
  <2>3. req.cmd = "verify" /\ r = "ok" =>
          mail \in Mails /\ CombinedStatus(mail, req.opts) = "good"
    <3> SUFFICES ASSUME req.cmd = "verify", r = "ok"
                 PROVE  mail \in Mails /\ CombinedStatus(mail, req.opts) = "good"
      OBVIOUS
    <3>1. mail # Null
      BY DEF AnswersAtOnce
    <3>2. r = IF CombinedStatus(mail, req.opts) = "good" THEN "ok" ELSE "error"
      BY <3>1 DEF AnswersAtOnce
    <3> QED
      BY <3>1, <3>2 DEF TypeInv
  <2>4. Tell(j, r)
    BY <1>3 DEF Begin
  <2>5. mail \in Mails \cup {Null}
    BY DEF TypeInv
  <2> HIDE DEF r, j
  <2>6. r \in Results
    BY <2>1 DEF Results
  <2>7. /\ job' = Null /\ GoodAnswer(told')
        /\ told'.req = req /\ told'.msg = mail /\ told'.result = r /\ told'.files = {}
    BY <2>2, <2>3, <2>4, <2>5, <2>6, TellIs
  <2> QED
    BY <1>1, <2>7 DEF r
<1>4. CASE AnswersAtOnce(req) = Null
  <2> DEFINE w == Wanted(mail, req)
             todo == [i \in DOMAIN w |-> [index |-> w[i]]]
  <2>1. job' = NewJob(req) /\ told' = Null
    BY <1>4 DEF Begin
  <2>2. mail \in Mails /\ req.cmd # "verify" /\ (req.cmd = "extract" => ~BadParams(req))
    <3>1. Null # "ok" /\ Null # "error"
      BY ResultsAssumption DEF Results
    <3>2. mail # Null
      BY <1>4, <3>1 DEF AnswersAtOnce
    <3>3. req.cmd # "verify"
      BY <1>4, <3>1, <3>2 DEF AnswersAtOnce
    <3>4. req.cmd = "extract" => ~BadParams(req)
      BY <1>4, <3>1, <3>2 DEF AnswersAtOnce
    <3> QED
      BY <3>2, <3>3, <3>4 DEF TypeInv
  <2>3. w \in Seq(Nat)
    BY <2>2, WantedIs
  <2> HIDE DEF w
  <2>4. todo \in Seq([index : Nat])
    <3>1. DOMAIN w = 1..Len(w) /\ Len(w) \in Nat /\ \A i \in 1..Len(w) : w[i] \in Nat
      BY <2>3
    <3>2. \A i \in 1..Len(w) : [index |-> w[i]] \in [index : Nat]
      BY <3>1
    <3> DEFINE Item(i) == [index |-> w[i]]
    <3>3. todo = [i \in 1..Len(w) |-> Item(i)]
      BY <3>1
    <3> HIDE DEF Item
    <3> QED
      BY <3>1, <3>2, <3>3 DEF Item
  <2> DEFINE j == NewJob(req)
  <2>5. j = [cmd |-> req.cmd, req |-> req, msg |-> mail, phase |-> "open", files |-> {},
             todo |-> todo]
    BY DEF NewJob, w
  <2> HIDE DEF todo, j
  <2>6. /\ j.cmd = req.cmd /\ j.req = req /\ j.msg = mail /\ j.phase = "open"
        /\ j.files = {} /\ j.todo = todo
    BY <2>5
  <2>7. IsJob(j)
    BY <2>5 DEF IsJob
  <2>8. GoodJob(j)
    BY <2>2, <2>4, <2>6, <2>7 DEF GoodJob
  <2> QED
    BY <1>1, <2>1, <2>6, <2>8 DEF j, todo, w
<1> QED
  BY <1>3, <1>4

LEMMA TypeInvInit == Init => TypeInv
<1> SUFFICES ASSUME Init PROVE TypeInv
  OBVIOUS
<1>1. IsDisk(disk)
  <2>1. DOMAIN <<>> = {} /\ <<>> = [f \in DOMAIN <<>> |-> <<>>[f]]
    OBVIOUS
  <2> QED
    BY <2>1 DEF Init, IsDisk
<1>2. mail \in Mails \cup {Null} /\ edits \in 0..MaxEdits /\ jobs \in 0..MaxJobs
  BY BoundsAssumption DEF Init
<1> QED
  BY <1>1, <1>2 DEF Init, TypeInv

\* A step of a job that does not write leaves the job in order.
LEMMA TypeInvEnds ==
  ASSUME TypeInv, job # Null, NEW result, IsDisk(disk'), UNCHANGED <<mail, edits, jobs>>,
         \/ After(job', job, job.files) /\ UNCHANGED told
         \/ After(job', job, job.files \cup {Saved(Part)}) /\ UNCHANGED told
         \/ Ends(result)
  PROVE  TypeInv'
<1>1. told = Null
  BY DEF TypeInv
<1>2. CASE Ends(result)
  BY <1>2 DEF Ends, TypeInv
<1>3. CASE ~Ends(result)
  <2>1. GoodJob(job') /\ job'.phase = "open" /\ UNCHANGED told
    BY <1>3 DEF After
  <2> QED
    BY <1>1, <2>1 DEF TypeInv
<1> QED
  BY <1>2, <1>3

LEMMA TypeInvStep == TypeInv /\ [Next]_vars => TypeInv'
<1> SUFFICES ASSUME TypeInv, [Next]_vars PROVE TypeInv'
  OBVIOUS
<1>1. ASSUME NEW req \in Requests, Begin(req) PROVE TypeInv'
  <2>1. IsDisk(disk) /\ mail \in Mails \cup {Null} /\ edits \in 0..MaxEdits
    BY DEF TypeInv
  <2>2. /\ UNCHANGED <<mail, edits, disk>> /\ jobs' \in 0..MaxJobs
        /\ \/ job' = Null /\ GoodAnswer(told')
           \/ told' = Null /\ GoodJob(job') /\ job'.phase = "open"
    BY <1>1, BeginIs
  <2> QED
    BY <2>1, <2>2 DEF TypeInv
<1>2. CASE OpenPart
  <2> DEFINE f == FileOf(job, Part)
             file == [of |-> ContentOf(Part.object), state |-> "half"]
  <2>1. GoodJob(job) /\ job.todo # <<>> /\ job # Null /\ UNCHANGED <<mail, edits, jobs>>
        /\ IsDisk(disk)
    BY <1>2, OpenPartIs DEF TypeInv
  <2>2. CASE Part # Null /\ disk' = With(disk, f, file) /\ job' = [job EXCEPT !.phase = "write"]
             /\ UNCHANGED told
    <3>1. file.of = ContentOf(Part.object) /\ file.state = "half" /\ IsFile(file)
      BY DEF IsFile, States
    <3> HIDE DEF file, f
    <3>2. IsDisk(disk') /\ f \in DOMAIN disk' /\ disk'[f] = file
      <4>1. IsDisk(disk')
        BY <2>1, <2>2, <3>1, WithIs
      <4>2. f \in DOMAIN disk' /\ disk'[f] = file
        BY <2>2 DEF With
      <4> QED
        BY <4>1, <4>2
    <3>3. job \in [cmd : {job.cmd}, req : {job.req}, msg : {job.msg}, phase : {job.phase},
                   files : {job.files}, todo : {job.todo}]
      BY <2>1 DEF GoodJob, IsJob
    <3>4. job' \in [cmd : {job.cmd}, req : {job.req}, msg : {job.msg}, phase : {"write"},
                    files : {job.files}, todo : {job.todo}]
      BY <2>2, <3>3
    <3>5. /\ job'.cmd = job.cmd /\ job'.req = job.req /\ job'.msg = job.msg
          /\ job'.phase = "write" /\ job'.files = job.files /\ job'.todo = job.todo
      BY <3>4
    <3>6. Part = PartOf(job) /\ PartOf(job') = PartOf(job) /\ FileOf(job', Part) = f
      BY <3>5 DEF Part, PartOf, FileOf, f
    <3>7. IsJob(job')
      BY <3>4, <3>5 DEF IsJob
    <3>8. GoodJob(job')
      BY <2>1, <2>2, <3>5, <3>6, <3>7 DEF GoodJob
    <3>9. told = Null
      BY <2>1 DEF TypeInv
    <3> QED
      BY <2>1, <2>2, <3>1, <3>2, <3>6, <3>8, <3>9 DEF TypeInv
  <2>3. CASE ~(Part # Null /\ disk' = With(disk, f, file) /\ job' = [job EXCEPT !.phase = "write"]
               /\ UNCHANGED told)
    <3>1. /\ UNCHANGED disk
          /\ \/ After(job', job, job.files) /\ UNCHANGED told
             \/ After(job', job, job.files \cup {Saved(Part)}) /\ UNCHANGED told
             \/ Ends("error") \/ Ends("crash")
      BY <1>2, <2>3, OpenPartIs
    <3>2. IsDisk(disk')
      BY <2>1, <3>1
    <3> QED
      BY <2>1, <3>1, <3>2, TypeInvEnds
  <2> QED
    BY <2>2, <2>3
<1>3. CASE WritePart
  <2>1. /\ GoodJob(job) /\ job.todo # <<>> /\ job # Null /\ UNCHANGED <<mail, edits, jobs>>
        /\ IsDisk(disk) /\ FileOf(job, Part) \in DOMAIN disk
        /\ \/ disk' = disk
           \/ \E state \in States : disk' = [disk EXCEPT ![FileOf(job, Part)].state = state]
        /\ \/ After(job', job, job.files) /\ UNCHANGED told
           \/ After(job', job, job.files \cup {Saved(Part)}) /\ UNCHANGED told
           \/ Ends("error")
    BY <1>3, WritePartIs DEF TypeInv
  <2>2. IsDisk(disk')
    BY <2>1, WrittenIs
  <2> QED
    BY <2>1, <2>2, TypeInvEnds
<1>4. CASE Finish \/ Kill
  <2>1. PICK result \in Results : Tell(job, result)
    BY <1>4 DEF Finish, Kill, Dies, Results
  <2>2. job # Null /\ GoodJob(job) /\ UNCHANGED <<mail, edits, disk, jobs>> /\ IsDisk(disk)
    BY <1>4 DEF Finish, Kill, Dies, TypeInv
  <2>3. Ends(result)
    BY <2>1, <2>2, EndsIs
  <2>4. IsDisk(disk')
    BY <2>2
  <2> QED
    BY <2>2, <2>3, <2>4, TypeInvEnds
<1>5. CASE Edit
  BY <1>5, BoundsAssumption DEF Edit, TypeInv
<1>6. ASSUME NEW f \in Strangers, Create(f) PROVE TypeInv'
  <2> DEFINE file == [of |-> Null, state |-> "whole"]
  <2>1. f \notin DOMAIN disk /\ disk' = With(disk, f, file) /\ UNCHANGED <<mail, edits, job, jobs, told>>
    BY <1>6 DEF Create
  <2>2. IsFile(file) /\ IsDisk(disk)
    BY DEF IsFile, States, TypeInv
  <2> HIDE DEF file
  <2>3. /\ IsDisk(disk') /\ DOMAIN disk' = DOMAIN disk \cup {f}
        /\ \A g \in DOMAIN disk : disk'[g] = disk[g]
    <3>1. IsDisk(disk')
      BY <2>1, <2>2, WithIs
    <3>2. /\ DOMAIN disk' = DOMAIN disk \cup {f}
          /\ \A g \in DOMAIN disk : disk'[g] = disk[g]
      BY <2>1 DEF With
    <3> QED
      BY <3>1, <3>2
  <2> QED
    BY <2>1, <2>3 DEF TypeInv
<1>7. CASE UNCHANGED vars
  BY <1>7 DEF vars, TypeInv
<1> QED
  BY <1>1, <1>2, <1>3, <1>4, <1>5, <1>6, <1>7 DEF Next

LEMMA TypeInvHolds == Spec => []TypeInv
BY TypeInvInit, TypeInvStep, PTL DEF Spec

\* TypeOK: every step of every request leaves the state one that the program
\* can be in.
THEOREM TypeCorrect == Spec => []TypeOK
<1>1. TypeInv => TypeOK
  <2> SUFFICES ASSUME TypeInv PROVE TypeOK
    OBVIOUS
  <2>1. \A f \in DOMAIN disk : disk[f].state \in States
    BY DEF TypeInv, IsDisk, IsFile
  <2>2. ASSUME job # Null
        PROVE  /\ job.cmd \in Commands /\ job.phase \in {"open", "write"}
               /\ \A i \in DOMAIN job.todo : job.todo[i].index \in Nat
    <3>1. GoodJob(job)
      BY <2>2 DEF TypeInv
    <3>2. \A i \in DOMAIN job.todo : job.todo[i] \in [index : Nat]
      <4>1. job.todo \in Seq([index : Nat])
        BY <3>1 DEF GoodJob
      <4>2. \A S : \A s \in Seq(S) : \A i \in DOMAIN s : s[i] \in S
        OBVIOUS
      <4> QED
        BY <4>1, <4>2
    <3> QED
      BY <3>1, <3>2, RequestsAssumption DEF GoodJob
  <2> QED
    BY <2>1, <2>2 DEF TypeInv, TypeOK, GoodAnswer
<1> QED
  BY <1>1, TypeInvHolds, PTL

\* NothingIsClobbered: mu extract leaves the files of others alone, when the
\* file of a part is there already, or comes to be there in the meantime.
THEOREM NothingIsEverClobbered == Spec => NothingIsClobbered
<1> DEFINE Spares == \A f \in DOMAIN disk :
                       disk'[f] # disk[f] =>
                         \/ job.cmd # "extract" \/ job.req.overwrite
                         \/ job.phase = "write" /\ disk[f].state = "half"
<1>1. TypeInv /\ [Next]_vars => [Spares]_vars
  <2> SUFFICES ASSUME TypeInv, Next, NEW f \in DOMAIN disk, disk'[f] # disk[f]
               PROVE  \/ job.cmd # "extract" \/ job.req.overwrite
                      \/ job.phase = "write" /\ disk[f].state = "half"
    OBVIOUS
  <2>1. IsDisk(disk)
    BY DEF TypeInv
  <2>2. CASE OpenPart
    <3> DEFINE g == FileOf(job, Part)
               file == [of |-> ContentOf(Part.object), state |-> "half"]
    <3>1. disk' = With(disk, g, file) /\ Opens(g) /\ job.cmd = job.req.cmd
      BY <2>2, OpenPartIs DEF GoodJob
    <3> HIDE DEF g, file
    <3>2. f = g
      BY <3>1 DEF With
    <3> QED
      BY <3>1, <3>2 DEF Opens, Writing
  <2>3. CASE WritePart
    <3> DEFINE g == FileOf(job, Part)
    <3>1. /\ \/ disk' = disk
             \/ \E state \in States : disk' = [disk EXCEPT ![g].state = state]
          /\ g \in DOMAIN disk /\ disk[g].state = "half" /\ job.phase = "write"
      BY <2>3, WritePartIs
    <3> HIDE DEF g
    <3>2. f = g
      BY <2>1, <3>1, WrittenIs
    <3> QED
      BY <3>1, <3>2
  <2>4. ASSUME NEW g \in Strangers, Create(g) PROVE FALSE
    <3> DEFINE file == [of |-> Null, state |-> "whole"]
    <3>1. g \notin DOMAIN disk /\ disk' = With(disk, g, file)
      BY <2>4 DEF Create
    <3> HIDE DEF file
    <3> QED
      BY <3>1 DEF With
  <2> QED
    BY <2>2, <2>3, <2>4 DEF Next, Begin, Finish, Kill, Dies, Edit
<1> QED
  BY <1>1, TypeInvHolds, PTL DEF Spec, NothingIsClobbered

-----------------------------------------------------------------------------
(* What is made of the parts.                                              *)

\* Where an object of the walk is in it.
LEMMA WalkPlace ==
  ASSUME NEW m, m.top \in Objects, NEW w \in ToSet(Walk(m))
  PROVE  \E i \in 1..Len(Walk(m)) : w = Walk(m)[i]
<1>1. Walk(m) \in Seq(Items)
  BY WalkItems
<1>2. \A x : x \in ToSet(Walk(m)) <=> \E i \in 1..Len(Walk(m)) : x = Walk(m)[i]
  BY <1>1, ToSetIs
<1> QED
  BY <1>2

\* What is of the kind that is asked for is wanted.
LEMMA WantedParts ==
  ASSUME NEW m, m.top \in Objects, NEW req, req.cmd = "extract",
         req.parts = Null, req.pattern = Null,
         NEW i \in 1..Len(Walk(m)), Walk(m)[i].object.kind = "part",
         req.all \/ (req.attachments /\ LooksLikeAttachment(Walk(m)[i].object))
  PROVE  i - 1 \in ToSet(Wanted(m, req))
<1> DEFINE opts == OptionsOf(req)
           p == ShownPart(m, opts, i)
<1>1. Wanted(m, req) = Indices(SaveCertain(m, req))
  BY DEF Wanted
<1>2. p.index = i - 1 /\ p.object = Walk(m)[i].object
  BY DEF ShownPart
<1>3. p \in ToSet(PartForeach(m, opts))
  BY PartForeachIs DEF Shown
<1> HIDE DEF p
<1>4. req.all \/ MaybeAttachment(p)
  BY <1>2 DEF MaybeAttachment, LooksLikeAttachment
<1>5. p \in ToSet(SaveCertain(m, req)) /\ SaveCertain(m, req) \in Seq(MsgParts)
  BY <1>2, <1>3, <1>4, SaveCertainIs
<1> HIDE DEF opts
<1> QED
  BY <1>1, <1>2, <1>5, IndicesIs

\* FlaggedHasAttachments: what the index takes for an attachment is one for mu
\* extract, which goes through the parts in another way and has another test.
THEOREM FlaggedMailsHaveAttachments == Spec => []FlaggedHasAttachments
<1>1. TypeInv => FlaggedHasAttachments
  <2> SUFFICES ASSUME TypeInv, told # Null, told.cmd = "extract", told.req.attachments,
                      ~BadParams(told.req), told.msg # Null,
                      "attach" \in GetContentFlags(told.msg)
               PROVE  Wanted(told.msg, told.req) # <<>>
    BY DEF FlaggedHasAttachments
  <2> DEFINE m == told.msg
             req == told.req
  <2>1. /\ m \in Mails /\ req \in Requests /\ req.cmd = "extract"
        /\ req.attachments /\ req.parts = Null /\ req.pattern = Null
    BY DEF TypeInv, GoodAnswer, BadParams
  <2>2. m.top \in Objects
    BY <2>1, MailIs
  <2>3. PICK w \in ToSet(Walk(m)) : w.object.kind = "attach" \/ LooksLikeAttachment(w.object)
    BY DEF GetContentFlags
  <2> HIDE DEF m, req
  <2>4. PICK i \in 1..Len(Walk(m)) : w = Walk(m)[i]
    BY <2>2, WalkPlace
  <2>5. i - 1 \in ToSet(Wanted(m, req))
    <3>1. Walk(m)[i].object.kind # "attach"
      BY <2>2, WalkItems, ObjectsAssumption DEF Kinds
    <3>2. Walk(m)[i].object.kind = "part" /\ LooksLikeAttachment(Walk(m)[i].object)
      BY <2>3, <2>4, <3>1 DEF LooksLikeAttachment
    <3> QED
      BY <2>1, <2>2, <3>2, WantedParts
  <2>6. ToSet(<<>>) = {}
    BY DEF ToSet
  <2> QED
    BY <2>5, <2>6 DEF m, req
<1> QED
  BY <1>1, TypeInvHolds, PTL

\* Good as a whole: some part is a signature that could be judged, and all
\* that could be are good.
LEMMA CombinedStatusIs ==
  ASSUME NEW m, m.top \in Objects, NEW opts, CombinedStatus(m, opts) = "good"
  PROVE  LET ps == PartForeach(m, opts \cup {"verify"})
         IN /\ \E p \in ToSet(ps) : p.sig # Null
            /\ \A p \in ToSet(ps) : p.sig # Null => p.sig = "good"
<1> DEFINE ps == PartForeach(m, opts \cup {"verify"})
           X == {p \in MsgParts : p.sig # Null}
           Y == {p \in MsgParts : p.sig # "good"}
           sigs == Chosen(ps, X)
           ill == Chosen(sigs, Y)
<1>1. ps \in Seq(MsgParts) /\ \A p \in ToSet(ps) : p \in MsgParts
  <2>1. ps \in Seq(MsgParts)
    BY PartForeachIs
  <2> HIDE DEF ps
  <2> QED
    BY <2>1 DEF ToSet
<1> HIDE DEF ps
<1>2. sigs \in Seq(MsgParts) /\ \A x : x \in ToSet(sigs) <=> x \in ToSet(ps) /\ x \in X
  BY <1>1, ChosenIs
<1>3. Those(ps, LAMBDA p : p.sig # Null) = sigs
  <2>1. \A i \in DOMAIN ps : ps[i] \in X <=> ps[i].sig # Null
    BY <1>1
  <2> QED
    BY <2>1 DEF Those, Chosen
<1> HIDE DEF sigs
<1>4. ill \in Seq(MsgParts) /\ \A x : x \in ToSet(ill) <=> x \in ToSet(sigs) /\ x \in Y
  BY <1>2, ChosenIs
<1>5. Those(sigs, LAMBDA p : p.sig # "good") = ill
  <2>1. \A i \in DOMAIN sigs : sigs[i] \in Y <=> sigs[i].sig # "good"
    BY <1>2
  <2> QED
    BY <2>1 DEF Those, Chosen
<1> HIDE DEF ill
<1>6. CombinedStatus(m, opts)
        = IF sigs = <<>> THEN "unsigned" ELSE IF ill = <<>> THEN "good" ELSE Head(ill).sig
  BY <1>3, <1>5 DEF CombinedStatus, ps
<1>7. sigs # <<>>
  BY <1>6
<1>8. ill = <<>>
  <2> SUFFICES ASSUME ill # <<>> PROVE FALSE
    OBVIOUS
  <2>1. Head(ill) \in ToSet(ill)
    BY <1>4, EndsAreIn
  <2>2. Head(ill).sig # "good"
    BY <1>4, <2>1
  <2> QED
    BY <1>6, <1>7, <2>2
<1>9. \E p \in ToSet(ps) : p.sig # Null
  <2>1. Head(sigs) \in ToSet(sigs)
    BY <1>2, <1>7, EndsAreIn
  <2> QED
    BY <1>2, <2>1
<1>10. \A p \in ToSet(ps) : p.sig # Null => p.sig = "good"
  <2>1. ToSet(ill) = {}
    BY <1>4, <1>8, EmptyIs
  <2> QED
    BY <1>1, <1>2, <1>4, <2>1
<1> QED
  BY <1>9, <1>10 DEF ps

\* VerifiedIsSigned: mu verify that says yes has had a signature judged, and no
\* signature in the message that gpg could judge is anything but good, be it
\* before or after the one that decides.  (Without the options of the command
\* line that look into what is decrypted.)
PlainlyAsked == told # Null => Plainly(OptionsOf(told.req))

THEOREM VerifiedMailsAreSigned == Spec => [](PlainlyAsked => VerifiedIsSigned)
<1>1. TypeInv => (PlainlyAsked => VerifiedIsSigned)
  <2> SUFFICES ASSUME TypeInv, PlainlyAsked, told # Null, told.cmd = "verify",
                      told.result = "ok"
               PROVE  LET signed == {o \in {w.object : w \in ToSet(Walk(told.msg))} :
                             /\ o.kind = "signed"
                             /\ \E i \in DOMAIN o.children :
                                  o.children[i].type = "pgp-signature"}
                      IN /\ \E o \in signed : o.sigs # Null
                         /\ \A o \in signed : o.sigs # Null => ToSet(o.sigs) \subseteq {"good"}
    BY DEF VerifiedIsSigned
  <2> DEFINE m == told.msg
             opts == told.req.opts \cup {"verify"}
             ps == PartForeach(m, opts)
             signed == {o \in {w.object : w \in ToSet(Walk(m))} :
                             /\ o.kind = "signed"
                             /\ \E i \in DOMAIN o.children :
                                  o.children[i].type = "pgp-signature"}
  <2>1. m \in Mails /\ CombinedStatus(m, told.req.opts) = "good" /\ Plainly(opts)
    BY DEF TypeInv, GoodAnswer, PlainlyAsked, Plainly, OptionsOf
  <2>2. m.top \in Objects /\ \A w \in ToSet(Walk(m)) : w.opened
    BY <2>1, MailIs
  <2>3. /\ \E p \in ToSet(ps) : p.sig # Null
        /\ \A p \in ToSet(ps) : p.sig # Null => p.sig = "good"
    BY <2>1, <2>2, CombinedStatusIs
  <2>4. GoodWalk(Walk(m))
    BY <2>2, WalkIsGood
  <2> HIDE DEF m, ps
  <2>5. /\ DOMAIN Walk(m) = 1..Len(Walk(m))
        /\ \A i \in 1..Len(Walk(m)) : /\ Walk(m)[i].object \in Objects
                                      /\ Walk(m)[i].parent \in Objects \cup {Null}
        /\ \A i \in 1..Len(Walk(m)) : Walk(m)[i] \in ToSet(Walk(m))
    BY <2>2, WalkItems DEF ToSet
  <2>6. BuildCrypto /\ \E o \in signed : o.sigs # Null
    <3>1. PICK p \in ToSet(ps) : p.sig # Null
      BY <2>3
    <3>2. PICK i \in 1..Len(Walk(m)) : p = ShownPart(m, opts, i)
      BY <2>1, <2>2, PartForeachIs DEF ps
    <3> DEFINE o == Walk(m)[i].object
               parent == Walk(m)[i].parent
    <3>3. p.sig = Signature(o, parent, opts)
      BY <3>2 DEF ShownPart
    <3>4. /\ BuildCrypto /\ o.type = "pgp-signature"
          /\ parent # Null /\ parent.kind = "signed" /\ parent.sigs # Null
      BY <2>5, <3>1, <3>3, SignatureIs
    <3>5. /\ \E y \in ToSet(Walk(m)) : y.object = parent
          /\ \E k \in 1..Len(parent.children) : o = parent.children[k]
      BY <2>4, <2>5, <3>4 DEF GoodWalk
    <3>6. parent.children \in Seq(Objects)
      BY <2>5, <3>4, ObjectsAssumption
    <3>7. parent \in signed
      BY <3>4, <3>5, <3>6
    <3> QED
      BY <3>4, <3>7
  <2>7. ASSUME NEW o \in signed, o.sigs # Null
        PROVE  ToSet(o.sigs) \subseteq {"good"}
    <3>1. PICK w \in ToSet(Walk(m)) : w.object = o
      OBVIOUS
    <3>2. o.kind = "signed"
      OBVIOUS
    <3>3. PICK k \in DOMAIN o.children : o.children[k].type = "pgp-signature"
      OBVIOUS
    <3> DEFINE c == o.children[k]
    <3> HIDE DEF signed
    <3>4. o \in Objects /\ o.children \in Seq(Objects)
      BY <2>2, <2>5, <3>1, WalkPlace, ObjectsAssumption
    <3>5. k \in 1..Len(o.children) /\ c \in Objects /\ c.kind = "part"
      BY <3>3, <3>4, ObjectsAssumption
    <3>6. \/ Found(c, o) \in ToSet(Walk(m))
          \/ [Found(c, o) EXCEPT !.opened = TRUE] \in ToSet(Walk(m))
      BY <2>2, <2>4, <3>1, <3>5 DEF GoodWalk
    <3> DEFINE f == Found(c, o)
               g == [f EXCEPT !.opened = TRUE]
    <3>7. f \in Items /\ f.object = c /\ f.parent = o
      <4> HIDE DEF c
      <4> QED
        BY <3>4, <3>5, FoundIs
    <3> HIDE DEF f, c
    <3>8. g.object = c /\ g.parent = o
      BY <3>7 DEF Items
    <3>9. \E x \in ToSet(Walk(m)) : x.object = c /\ x.parent = o
      BY <3>6, <3>7, <3>8 DEF f
    <3>10. PICK i \in 1..Len(Walk(m)) : Walk(m)[i].object = c /\ Walk(m)[i].parent = o
      BY <2>2, <3>9, WalkPlace
    <3> DEFINE p == ShownPart(m, opts, i)
    <3>11. p \in ToSet(ps)
      BY <2>2, <3>5, <3>10, PartForeachIs DEF ps, Shown
    <3>12. p.sig = Signature(c, o, opts)
      BY <3>10 DEF ShownPart
    <3> HIDE DEF p
    <3>13. c.type = "pgp-signature" /\ o # Null
      BY <3>3, <3>4, NullAssumption DEF c
    <3>14. p.sig # Null
      BY <2>6, <2>7, <3>2, <3>4, <3>5, <3>12, <3>13, SignatureIs
    <3>15. p.sig = "good"
      BY <2>3, <3>11, <3>14
    <3> QED
      BY <3>4, <3>5, <3>12, <3>15, SignatureIs
  <2> QED
    BY <2>6, <2>7 DEF m
<1> QED
  BY <1>1, TypeInvHolds, PTL

-----------------------------------------------------------------------------
(* What was saved.                                                         *)

\* A file that was saved: on disk, as far as mu can tell all of it, with the
\* part of its number in it.
Kept(d, m, s) ==
  LET o == Walk(m)[s.index + 1].object
  IN /\ s.index + 1 \in 1..Len(Walk(m)) /\ s.index \in Nat
     /\ s.file \in DOMAIN d /\ d[s.file].of = ContentOf(o) /\ Enough(d[s.file].state, o)

\* A disk on which nothing of another one is missing or taken back.
MoreThan(e, d) ==
  \A f \in DOMAIN d : /\ f \in DOMAIN e /\ e[f].of = d[f].of
                      /\ d[f].state # "half" => e[f].state = d[f].state

LEMMA KeptStays ==
  ASSUME NEW d, NEW e, MoreThan(e, d), NEW m, NEW s, Kept(d, m, s)
  PROVE  Kept(e, m, s)
BY DEF Kept, MoreThan, Enough

\* mu extract that does not overwrite.
Careful(req) == req.cmd = "extract" /\ ~req.overwrite

TodoRank == [t \in [index : Nat] |-> t.index]

\* While a request is being done: all that was asked for is still to be done or
\* was saved; the server saves one part, or makes files of the parts in their
\* order, each under the number of its own.
JobKeeps(d, j) ==
  /\ Careful(j.req) =>
       /\ \A s \in j.files : Kept(d, j.msg, s)
       /\ \A k \in ToSet(Wanted(j.msg, j.req)) :
            (\E t \in ToSet(j.todo) : t.index = k) \/ (\E s \in j.files : s.index = k)
  /\ j.cmd = "save" =>
       /\ \A s \in j.files : Kept(d, j.msg, s)
       /\ Len(j.todo) <= 1 /\ (j.files = {} \/ j.todo = <<>>)
  /\ j.cmd = "forward" =>
       /\ \A s \in j.files : /\ Kept(d, j.msg, s) /\ s.file[2] = s.index
                             /\ \A t \in ToSet(j.todo) : s.index < t.index
       /\ Rising(j.todo, TodoRank)

\* What a request that was done has left.
AnswerKeeps(d, a) ==
  /\ Careful(a.req) =>
       \/ ShowOnly(a.req)
       \/ /\ ~BadParams(a.req) /\ a.msg \in Mails
          /\ \A s \in a.files : Kept(d, a.msg, s)
          /\ \A k \in ToSet(Wanted(a.msg, a.req)) : \E s \in a.files : s.index = k
  /\ a.cmd \in {"save", "forward"} => \A s \in a.files : Kept(d, a.msg, s)

SavedInv ==
  /\ job # Null /\ Plainly(OptionsOf(job.req)) => JobKeeps(disk, job)
  /\ told # Null /\ told.result = "ok" /\ Plainly(OptionsOf(told.req)) =>
       AnswerKeeps(disk, told)

LEMMA TailIs ==
  ASSUME NEW S, NEW s \in Seq(S), s # <<>>
  PROVE  /\ Tail(s) \in Seq(S) /\ Len(Tail(s)) = Len(s) - 1 /\ Len(s) \in Nat \ {0}
         /\ \A i \in 1..Len(Tail(s)) : i + 1 \in 1..Len(s) /\ Tail(s)[i] = s[i + 1]
         /\ Head(s) = s[1] /\ Head(s) \in ToSet(s)
         /\ \A x : x \in ToSet(s) => x = Head(s) \/ x \in ToSet(Tail(s))
         /\ \A x : x \in ToSet(Tail(s)) => x \in ToSet(s)
<1>1. /\ Tail(s) \in Seq(S) /\ Len(Tail(s)) = Len(s) - 1 /\ Len(s) \in Nat \ {0}
      /\ \A i \in 1..Len(Tail(s)) : i + 1 \in 1..Len(s) /\ Tail(s)[i] = s[i + 1]
      /\ Head(s) = s[1]
  OBVIOUS
<1>2. \A x : x \in ToSet(s) <=> \E i \in 1..Len(s) : x = s[i]
  BY ToSetIs
<1>3. \A x : x \in ToSet(Tail(s)) <=> \E i \in 1..Len(Tail(s)) : x = Tail(s)[i]
  BY <1>1, ToSetIs
<1>4. ASSUME NEW x \in ToSet(s) PROVE x = Head(s) \/ x \in ToSet(Tail(s))
  <2>1. PICK i \in 1..Len(s) : x = s[i]
    BY <1>2
  <2>2. CASE i = 1
    BY <1>1, <2>1, <2>2
  <2>3. CASE i # 1
    <3>1. i - 1 \in 1..Len(Tail(s)) /\ (i - 1) + 1 = i
      BY <1>1, <2>3
    <3>2. Tail(s)[i - 1] = x
      BY <1>1, <2>1, <3>1
    <3> QED
      BY <1>3, <3>1, <3>2
  <2> QED
    BY <2>2, <2>3
<1> QED
  BY <1>1, <1>2, <1>3, <1>4

\* After the first of numbers that rise, larger ones are left, in their order.
LEMMA TodoRises ==
  ASSUME NEW todo \in Seq([index : Nat]), todo # <<>>, Rising(todo, TodoRank)
  PROVE  /\ Rising(Tail(todo), TodoRank)
         /\ \A t \in ToSet(Tail(todo)) : Head(todo).index < t.index
<1>1. /\ Tail(todo) \in Seq([index : Nat]) /\ Len(Tail(todo)) = Len(todo) - 1
      /\ Len(todo) \in Nat \ {0} /\ Head(todo) = todo[1]
      /\ \A i \in 1..Len(Tail(todo)) : i + 1 \in 1..Len(todo) /\ Tail(todo)[i] = todo[i + 1]
  BY TailIs
<1>2. Rising(Tail(todo), TodoRank)
  BY <1>1 DEF Rising
<1>3. ASSUME NEW t \in ToSet(Tail(todo)) PROVE Head(todo).index < t.index
  <2>1. \A x : x \in ToSet(Tail(todo)) <=> \E i \in 1..Len(Tail(todo)) : x = Tail(todo)[i]
    BY <1>1, ToSetIs
  <2>2. PICK i \in 1..Len(Tail(todo)) : t = Tail(todo)[i]
    BY <2>1
  <2>3. t = todo[i + 1] /\ i + 1 \in 1..Len(todo) /\ 1 \in 1..Len(todo) /\ 1 < i + 1
    BY <1>1, <2>2
  <2>4. TodoRank[todo[1]] < TodoRank[todo[i + 1]]
    BY <2>3 DEF Rising
  <2>5. todo[1] \in [index : Nat] /\ todo[i + 1] \in [index : Nat]
    <3>1. \A S : \A s \in Seq(S) : \A n \in 1..Len(s) : s[n] \in S
      OBVIOUS
    <3> QED
      BY <2>3, <3>1
  <2>6. \A x \in [index : Nat] : TodoRank[x] = x.index
    BY DEF TodoRank
  <2> QED
    BY <1>1, <2>3, <2>4, <2>5, <2>6
<1> QED
  BY <1>2, <1>3

LEMMA KeepsAfterFailure ==
  ASSUME NEW j, GoodJob(j), j.todo # <<>>, NEW d, NEW e, JobKeeps(d, j), MoreThan(e, d),
         NEW k, After(k, j, j.files), GoesOn(j)
  PROVE  JobKeeps(e, k)
<1>1. /\ k.cmd = j.cmd /\ k.req = j.req /\ k.msg = j.msg /\ k.files = j.files
      /\ k.todo = Tail(j.todo)
  BY DEF After
<1>2. k.cmd \in {"forward", "view"} /\ ~Careful(k.req)
  BY <1>1 DEF GoesOn, Careful, GoodJob
<1>3. j.todo \in Seq([index : Nat])
  BY DEF GoodJob
<1>4. ASSUME k.cmd = "forward"
      PROVE  /\ \A s \in k.files : /\ Kept(e, k.msg, s) /\ s.file[2] = s.index
                                   /\ \A t \in ToSet(k.todo) : s.index < t.index
             /\ Rising(k.todo, TodoRank)
  <2>1. /\ \A s \in j.files : /\ Kept(d, j.msg, s) /\ s.file[2] = s.index
                              /\ \A t \in ToSet(j.todo) : s.index < t.index
        /\ Rising(j.todo, TodoRank)
    BY <1>1, <1>4 DEF JobKeeps
  <2>2. Rising(Tail(j.todo), TodoRank) /\ \A t \in ToSet(Tail(j.todo)) : t \in ToSet(j.todo)
    BY <1>3, <2>1, TailIs, TodoRises
  <2>3. \A s \in j.files : Kept(e, j.msg, s)
    BY <2>1, KeptStays
  <2> QED
    BY <1>1, <2>1, <2>2, <2>3
<1> QED
  BY <1>2, <1>4 DEF JobKeeps

LEMMA KeepsAfterSaving ==
  ASSUME NEW j, GoodJob(j), j.todo # <<>>, NEW d, NEW e, JobKeeps(d, j), MoreThan(e, d),
         NEW s, Kept(e, j.msg, s), s.index = Head(j.todo).index,
         j.cmd = "forward" => s.file[2] = s.index,
         NEW k, After(k, j, j.files \cup {s})
  PROVE  JobKeeps(e, k)
<1>1. /\ k.cmd = j.cmd /\ k.req = j.req /\ k.msg = j.msg /\ k.files = j.files \cup {s}
      /\ k.todo = Tail(j.todo)
  BY DEF After
<1>2. j.todo \in Seq([index : Nat])
  BY DEF GoodJob
<1>3. /\ Len(Tail(j.todo)) = Len(j.todo) - 1 /\ Tail(j.todo) \in Seq([index : Nat])
      /\ Len(j.todo) \in Nat
      /\ \A x : x \in ToSet(j.todo) => x = Head(j.todo) \/ x \in ToSet(Tail(j.todo))
      /\ \A x : x \in ToSet(Tail(j.todo)) => x \in ToSet(j.todo)
  BY <1>2, TailIs
<1>4. ASSUME \A r \in j.files : Kept(d, j.msg, r)
      PROVE  \A r \in k.files : Kept(e, k.msg, r)
  <2>1. \A r \in j.files : Kept(e, j.msg, r)
    BY <1>4, KeptStays
  <2> QED
    BY <1>1, <2>1
<1>5. ASSUME Careful(k.req)
      PROVE  /\ \A r \in k.files : Kept(e, k.msg, r)
             /\ \A i \in ToSet(Wanted(k.msg, k.req)) :
                  (\E t \in ToSet(k.todo) : t.index = i) \/ (\E r \in k.files : r.index = i)
  <2>1. /\ \A r \in j.files : Kept(d, j.msg, r)
        /\ \A i \in ToSet(Wanted(j.msg, j.req)) :
             (\E t \in ToSet(j.todo) : t.index = i) \/ (\E r \in j.files : r.index = i)
    BY <1>1, <1>5 DEF JobKeeps
  <2>2. ASSUME NEW i \in ToSet(Wanted(j.msg, j.req))
        PROVE  (\E t \in ToSet(k.todo) : t.index = i) \/ (\E r \in k.files : r.index = i)
    BY <1>1, <1>3, <2>1
  <2> QED
    BY <1>1, <1>4, <2>1, <2>2
<1>6. ASSUME k.cmd = "save"
      PROVE  /\ \A r \in k.files : Kept(e, k.msg, r)
             /\ Len(k.todo) <= 1 /\ (k.files = {} \/ k.todo = <<>>)
  <2>1. (\A r \in j.files : Kept(d, j.msg, r)) /\ Len(j.todo) <= 1
    BY <1>1, <1>6 DEF JobKeeps
  <2>2. Len(k.todo) <= 0 /\ k.todo \in Seq([index : Nat])
    BY <1>1, <1>3, <2>1
  <2>3. k.todo = <<>>
    BY <2>2
  <2> QED
    BY <1>4, <2>1, <2>2, <2>3
<1>7. ASSUME k.cmd = "forward"
      PROVE  /\ \A r \in k.files : /\ Kept(e, k.msg, r) /\ r.file[2] = r.index
                                   /\ \A t \in ToSet(k.todo) : r.index < t.index
             /\ Rising(k.todo, TodoRank)
  <2>1. /\ \A r \in j.files : /\ Kept(d, j.msg, r) /\ r.file[2] = r.index
                              /\ \A t \in ToSet(j.todo) : r.index < t.index
        /\ Rising(j.todo, TodoRank)
    BY <1>1, <1>7 DEF JobKeeps
  <2>2. Rising(Tail(j.todo), TodoRank)
        /\ \A t \in ToSet(Tail(j.todo)) : Head(j.todo).index < t.index
    BY <1>2, <2>1, TodoRises
  <2>3. \A r \in k.files : Kept(e, k.msg, r)
    BY <1>4, <2>1
  <2>4. ASSUME NEW r \in k.files
        PROVE  r.file[2] = r.index /\ \A t \in ToSet(k.todo) : r.index < t.index
    BY <1>1, <1>3, <1>7, <2>1, <2>2
  <2> QED
    BY <1>1, <2>2, <2>3, <2>4
<1> QED
  BY <1>5, <1>6, <1>7 DEF JobKeeps

LEMMA SavedInvInit == Init => SavedInv
BY DEF Init, SavedInv

LEMMA BeginKeeps ==
  ASSUME TypeInv, NEW req \in Requests, Begin(req)
  PROVE  SavedInv'
<1>1. req.cmd \in Commands /\ Null # "ok" /\ Null # "error"
  BY RequestsAssumption, ResultsAssumption DEF Results
<1>2. CASE job' = Null /\ told'.files = {} /\ told'.req = req /\ told'.msg = mail
           /\ told'.result = AnswersAtOnce(req)
  <2>1. ASSUME told'.result = "ok", Careful(req) PROVE ShowOnly(req)
    <3>1. mail # Null /\ req.cmd = "extract"
      BY <1>1, <1>2, <2>1 DEF AnswersAtOnce, Careful
    <3>2. AnswersAtOnce(req) = "ok"
      BY <1>2, <2>1
    <3> QED
      BY <1>1, <3>1, <3>2 DEF AnswersAtOnce
  <2>2. told'.result = "ok" => AnswerKeeps(disk', told')
    BY <1>2, <2>1 DEF AnswerKeeps
  <2> QED
    BY <1>2, <2>2 DEF SavedInv
<1>3. CASE /\ told' = Null /\ GoodJob(job') /\ job'.files = {}
           /\ job'.req = req /\ job'.cmd = req.cmd /\ job'.msg = mail
           /\ job'.todo = LET w == Wanted(mail, req) IN [i \in DOMAIN w |-> [index |-> w[i]]]
  <2> DEFINE w == Wanted(mail, req)
             todo == [i \in DOMAIN w |-> [index |-> w[i]]]
             m == mail
  <2>1. m \in Mails /\ req.cmd # "verify" /\ job'.todo = todo
    BY <1>3 DEF GoodJob
  <2>2. w \in Seq(Nat) /\ m.top \in Objects
    BY <2>1, WantedIs, MailIs
  <2> HIDE DEF w
  <2>3. /\ DOMAIN w = 1..Len(w) /\ Len(w) \in Nat /\ \A i \in 1..Len(w) : w[i] \in Nat
    BY <2>2
  <2>4. /\ todo \in Seq([index : Nat]) /\ Len(todo) = Len(w)
        /\ \A i \in 1..Len(w) : todo[i].index = w[i]
    <3> DEFINE Item(i) == [index |-> w[i]]
    <3>1. \A i \in 1..Len(w) : Item(i) \in [index : Nat] /\ Item(i).index = w[i]
      BY <2>3
    <3>2. todo = [i \in 1..Len(w) |-> Item(i)]
      BY <2>3
    <3> HIDE DEF Item
    <3> QED
      BY <2>3, <3>1, <3>2
  <2> HIDE DEF todo
  <2>5. ASSUME NEW k \in ToSet(w) PROVE \E t \in ToSet(todo) : t.index = k
    <3>1. \A x : x \in ToSet(w) <=> \E i \in 1..Len(w) : x = w[i]
      BY <2>2, ToSetIs
    <3>2. \A x : x \in ToSet(todo) <=> \E i \in 1..Len(todo) : x = todo[i]
      BY <2>4, ToSetIs
    <3> QED
      BY <2>4, <3>1, <3>2
  <2>6. ASSUME req.cmd = "save" PROVE Len(todo) <= 1
    <3>1. w = <<req.index>>
      BY <2>6 DEF w, Wanted
    <3>2. Len(<<req.index>>) = 1
      OBVIOUS
    <3> QED
      BY <2>4, <3>1, <3>2
  <2>7. ASSUME req.cmd = "forward" PROVE Rising(todo, TodoRank)
    <3> DEFINE ps == Those(PartForeach(m, {}), MaybeAttachment)
    <3>1. w = Indices(ps)
      BY <2>7 DEF w, Wanted
    <3>2. ps \in Seq(MsgParts) /\ Rising(ps, PartRank)
      BY <2>2, ForwardedIs
    <3> HIDE DEF ps
    <3>3. Len(w) = Len(ps) /\ \A i \in 1..Len(ps) : w[i] = ps[i].index
      BY <3>1, <3>2, IndicesIs
    <3>4. \A S : \A s \in Seq(S) : \A i \in 1..Len(s) : s[i] \in S
      OBVIOUS
    <3>5. \A i \in 1..Len(ps) : PartRank[ps[i]] = w[i]
      BY <3>2, <3>3, <3>4 DEF PartRank
    <3>6. \A i \in 1..Len(todo) : TodoRank[todo[i]] = w[i]
      BY <2>4, <3>4 DEF TodoRank
    <3> QED
      BY <2>4, <3>2, <3>3, <3>5, <3>6 DEF Rising
  <2>8. JobKeeps(disk', job')
    BY <1>3, <2>1, <2>5, <2>6, <2>7 DEF JobKeeps, w
  <2> QED
    BY <1>3, <2>8 DEF SavedInv
<1> QED
  BY <1>2, <1>3, BeginIs

\* A job that ends in an error promises nothing.
LEMMA EndsKeeps ==
  ASSUME Ends("error") \/ Ends("crash")
  PROVE  SavedInv'
BY DEF Ends, SavedInv

LEMMA OpenPartKeeps ==
  ASSUME TypeInv, SavedInv, OpenPart
  PROVE  SavedInv'
<1> DEFINE f == FileOf(job, Part)
           file == [of |-> ContentOf(Part.object), state |-> "half"]
<1>1. /\ GoodJob(job) /\ job.phase = "open" /\ job.todo # <<>> /\ job # Null /\ told = Null
      /\ Plainly(OptionsOf(job.req)) => JobKeeps(disk, job)
  BY OpenPartIs DEF TypeInv, SavedInv
<1>2. MoreThan(disk, disk)
  BY DEF MoreThan
<1>3. CASE UNCHANGED <<disk, told>> /\ GoesOn(job) /\ After(job', job, job.files)
  <2>1. Plainly(OptionsOf(job'.req)) => JobKeeps(disk', job')
    <3>1. job'.req = job.req
      BY <1>3 DEF After
    <3>2. Plainly(OptionsOf(job.req)) => JobKeeps(disk, job')
      BY <1>1, <1>2, <1>3, KeepsAfterFailure
    <3> QED
      BY <1>3, <3>1, <3>2
  <2> QED
    BY <1>1, <1>3, <2>1 DEF SavedInv
<1>4. CASE Writing(job.req) = "use existing" /\ UNCHANGED <<disk, told>>
           /\ After(job', job, job.files \cup {Saved(Part)})
  <2>1. ~Careful(job'.req) /\ job'.cmd \notin {"save", "forward"}
    BY <1>1, <1>4 DEF After, Careful, Writing, GoodJob
  <2>2. JobKeeps(disk', job')
    BY <2>1 DEF JobKeeps
  <2> QED
    BY <1>1, <1>4, <2>2 DEF SavedInv
<1>5. CASE /\ Part # Null /\ Opens(f) /\ UNCHANGED told /\ disk' = With(disk, f, file)
           /\ job' = [job EXCEPT !.phase = "write"]
  <2>1. job \in [cmd : {job.cmd}, req : {job.req}, msg : {job.msg}, phase : {job.phase},
                 files : {job.files}, todo : {job.todo}]
    BY <1>1 DEF GoodJob, IsJob
  <2>2. job' \in [cmd : {job.cmd}, req : {job.req}, msg : {job.msg}, phase : {"write"},
                  files : {job.files}, todo : {job.todo}]
    BY <1>5, <2>1
  <2>3. /\ job'.cmd = job.cmd /\ job'.req = job.req /\ job'.msg = job.msg
        /\ job'.files = job.files /\ job'.todo = job.todo
    BY <2>2
  <2> SUFFICES ASSUME Plainly(OptionsOf(job.req)) PROVE JobKeeps(disk', job')
    BY <1>1, <1>5, <2>3 DEF SavedInv
  <2>4. JobKeeps(disk, job)
    BY <1>1
  <2> HIDE DEF f, file
  <2>5. /\ \A g \in DOMAIN disk : g \in DOMAIN disk'
        /\ \A g \in DOMAIN disk : g # f => disk'[g] = disk[g]
    BY <1>5 DEF With
  <2>6. ASSUME Careful(job.req), NEW s \in job.files PROVE Kept(disk', job.msg, s)
    <3>1. f \notin DOMAIN disk /\ Kept(disk, job.msg, s)
      BY <1>5, <2>4, <2>6 DEF JobKeeps, Opens, Writing, Careful
    <3>2. MoreThan(disk', disk)
      BY <2>5, <3>1 DEF MoreThan
    <3> QED
      BY <3>1, <3>2, KeptStays
  <2>7. job.cmd = "save" => job.files = {}
    BY <1>1, <2>4 DEF JobKeeps
  <2>8. ASSUME job.cmd = "forward", NEW s \in job.files PROVE Kept(disk', job.msg, s)
    <3>1. Kept(disk, job.msg, s) /\ s.file[2] = s.index
          /\ \A t \in ToSet(job.todo) : s.index < t.index
      BY <2>4, <2>8 DEF JobKeeps
    <3>2. f[2] = Head(job.todo).index
      <4>1. f = <<"cache", Part.index, GetFilename(Part, TRUE)>>
        BY <2>8 DEF f, FileOf
      <4>2. Part.index = Head(job.todo).index
        BY <1>1, <1>5, PartIs
      <4> QED
        BY <4>1, <4>2
    <3>3. s.index < Head(job.todo).index /\ Head(job.todo).index \in Nat /\ s.index \in Nat
      <4>1. job.todo \in Seq([index : Nat])
        BY <1>1 DEF GoodJob
      <4>2. Head(job.todo) \in ToSet(job.todo) /\ Head(job.todo) \in [index : Nat]
        <5>1. Head(job.todo) \in ToSet(job.todo)
          BY <1>1, <4>1, TailIs
        <5> QED
          BY <1>1, <1>5, <5>1, PartIs
      <4> QED
        BY <3>1, <4>2 DEF Kept
    <3>4. s.file # f
      BY <3>1, <3>2, <3>3
    <3>5. s.file \in DOMAIN disk' /\ disk'[s.file] = disk[s.file]
      BY <2>5, <3>1, <3>4 DEF Kept
    <3> QED
      BY <3>1, <3>5 DEF Kept
  <2> QED
    BY <2>3, <2>4, <2>6, <2>7, <2>8 DEF JobKeeps
<1> QED
  BY <1>3, <1>4, <1>5, OpenPartIs, EndsKeeps

LEMMA WritePartKeeps ==
  ASSUME TypeInv, SavedInv, WritePart
  PROVE  SavedInv'
<1> DEFINE f == FileOf(job, Part)
<1>1. /\ GoodJob(job) /\ job.phase = "write" /\ job.todo # <<>> /\ job # Null /\ told = Null
      /\ Part # Null /\ f \in DOMAIN disk /\ IsDisk(disk)
      /\ disk[f].of = ContentOf(Part.object) /\ disk[f].state = "half"
      /\ Plainly(OptionsOf(job.req)) => JobKeeps(disk, job)
  BY WritePartIs DEF TypeInv, SavedInv
<1>2. ASSUME NEW state \in States, disk' = [disk EXCEPT ![f].state = state]
      PROVE  /\ DOMAIN disk' = DOMAIN disk
             /\ disk'[f].of = disk[f].of /\ disk'[f].state = state
             /\ \A g \in DOMAIN disk : g # f => disk'[g] = disk[g]
  <2> HIDE DEF f
  <2> QED
    BY <1>1, <1>2, WrittenIs
<1>3. MoreThan(disk', disk)
  <2>1. CASE disk' = disk
    BY <2>1 DEF MoreThan
  <2>2. CASE \E state \in States : disk' = [disk EXCEPT ![f].state = state]
    <3> HIDE DEF f
    <3> QED
      BY <1>1, <1>2, <2>2 DEF MoreThan
  <2> QED
    BY <2>1, <2>2, WritePartIs
<1>4. CASE UNCHANGED told /\ GoesOn(job) /\ After(job', job, job.files)
  <2>1. job'.req = job.req
    BY <1>4 DEF After
  <2>2. Plainly(OptionsOf(job.req)) => JobKeeps(disk', job')
    BY <1>1, <1>3, <1>4, KeepsAfterFailure
  <2> QED
    BY <1>1, <1>4, <2>1, <2>2 DEF SavedInv
<1>5. ASSUME NEW state \in States, disk' = [disk EXCEPT ![f].state = state],
             Enough(state, Part.object), UNCHANGED told,
             After(job', job, job.files \cup {Saved(Part)})
      PROVE  SavedInv'
  <2>1. job'.req = job.req
    BY <1>5 DEF After
  <2> SUFFICES ASSUME Plainly(OptionsOf(job.req)) PROVE JobKeeps(disk', job')
    BY <1>1, <1>5, <2>1 DEF SavedInv
  <2> DEFINE s == Saved(Part)
  <2>2. s.file = f /\ s.index = Part.index
    BY DEF Saved
  <2>3. /\ Part = PartOf(job) /\ Part.index = Head(job.todo).index
        /\ Head(job.todo) \in [index : Nat]
        /\ Part.index + 1 \in 1..Len(Walk(job.msg))
        /\ Part.object = Walk(job.msg)[Part.index + 1].object
    BY <1>1, PartIs
  <2>4. /\ f \in DOMAIN disk' /\ disk'[f].of = ContentOf(Part.object)
        /\ Enough(disk'[f].state, Part.object)
    BY <1>1, <1>2, <1>5
  <2>5. job.cmd = "forward" => s.file[2] = s.index
    <3> SUFFICES ASSUME job.cmd = "forward" PROVE s.file[2] = s.index
      OBVIOUS
    <3>1. f = <<"cache", Part.index, GetFilename(Part, TRUE)>>
      BY DEF FileOf
    <3> QED
      BY <2>2, <3>1
  <2>6. JobKeeps(disk, job) /\ s.index = Head(job.todo).index
        /\ After(job', job, job.files \cup {s})
    BY <1>1, <1>5, <2>2, <2>3
  <2> HIDE DEF s, f
  <2>7. Kept(disk', job.msg, s)
    BY <2>2, <2>3, <2>4 DEF Kept
  <2> QED
    BY <1>1, <1>3, <2>5, <2>6, <2>7, KeepsAfterSaving
<1>6. CASE Ends("error")
  BY <1>6, EndsKeeps
<1> QED
  BY <1>4, <1>5, <1>6, WritePartIs

LEMMA FinishKeeps ==
  ASSUME TypeInv, SavedInv, Finish
  PROVE  SavedInv'
<1>1. /\ GoodJob(job) /\ job # Null /\ job.todo = <<>> /\ UNCHANGED disk
      /\ Plainly(OptionsOf(job.req)) => JobKeeps(disk, job)
  BY DEF TypeInv, SavedInv, Finish
<1>2. Ends("ok")
  BY <1>1, EndsIs DEF Finish, Results
<1>3. /\ job' = Null /\ told'.cmd = job.cmd /\ told'.req = job.req /\ told'.msg = job.msg
      /\ told'.files = job.files /\ job.cmd = job.req.cmd /\ job.msg \in Mails
  BY <1>1, <1>2 DEF Ends, GoodJob
<1> SUFFICES ASSUME Plainly(OptionsOf(job.req)) PROVE AnswerKeeps(disk', told')
  BY <1>3 DEF SavedInv
<1>4. JobKeeps(disk, job) /\ disk' = disk
  BY <1>1
<1>5. ToSet(<<>>) = {}
  BY DEF ToSet
<1>6. ASSUME Careful(told'.req)
      PROVE  /\ ~BadParams(told'.req) /\ told'.msg \in Mails
             /\ \A s \in told'.files : Kept(disk', told'.msg, s)
             /\ \A k \in ToSet(Wanted(told'.msg, told'.req)) : \E s \in told'.files : s.index = k
  <2>1. ~BadParams(job.req)
    BY <1>1, <1>3, <1>6 DEF GoodJob, Careful
  <2>2. /\ \A s \in job.files : Kept(disk, job.msg, s)
        /\ \A k \in ToSet(Wanted(job.msg, job.req)) : \E s \in job.files : s.index = k
    BY <1>1, <1>3, <1>4, <1>5, <1>6 DEF JobKeeps
  <2> QED
    BY <1>3, <1>4, <2>1, <2>2
<1>7. ASSUME told'.cmd \in {"save", "forward"}
      PROVE  \A s \in told'.files : Kept(disk', told'.msg, s)
  BY <1>3, <1>4, <1>7 DEF JobKeeps
<1> QED
  BY <1>6, <1>7 DEF AnswerKeeps

LEMMA MoreKeeps ==
  ASSUME SavedInv, MoreThan(disk', disk), UNCHANGED <<job, told>>
  PROVE  SavedInv'
<1>1. ASSUME NEW j, JobKeeps(disk, j) PROVE JobKeeps(disk', j)
  <2>1. \A m, s : Kept(disk, m, s) => Kept(disk', m, s)
    BY KeptStays
  <2> QED
    BY <1>1, <2>1 DEF JobKeeps
<1>2. ASSUME NEW a, AnswerKeeps(disk, a) PROVE AnswerKeeps(disk', a)
  <2>1. \A m, s : Kept(disk, m, s) => Kept(disk', m, s)
    BY KeptStays
  <2> QED
    BY <1>2, <2>1 DEF AnswerKeeps
<1> QED
  BY <1>1, <1>2 DEF SavedInv

LEMMA SavedInvStep ==
  ASSUME TypeInv, SavedInv, [Next]_vars
  PROVE  SavedInv'
<1>1. ASSUME NEW req \in Requests, Begin(req) PROVE SavedInv'
  BY <1>1, BeginKeeps
<1>2. CASE OpenPart
  BY <1>2, OpenPartKeeps
<1>3. CASE WritePart
  BY <1>3, WritePartKeeps
<1>4. CASE Finish
  BY <1>4, FinishKeeps
<1>5. CASE Kill
  <2>1. Tell(job, "crash") /\ GoodJob(job)
    BY <1>5 DEF Kill, Dies, TypeInv
  <2>2. Ends("crash")
    BY <2>1, EndsIs DEF Results
  <2> QED
    BY <2>2, EndsKeeps
<1>6. CASE Edit \/ UNCHANGED vars
  <2>1. UNCHANGED <<disk, job, told>>
    BY <1>6 DEF Edit, vars
  <2>2. MoreThan(disk', disk)
    BY <2>1 DEF MoreThan
  <2> QED
    BY <2>1, <2>2, MoreKeeps
<1>7. ASSUME NEW f \in Strangers, Create(f) PROVE SavedInv'
  <2> DEFINE file == [of |-> Null, state |-> "whole"]
  <2>1. f \notin DOMAIN disk /\ disk' = With(disk, f, file) /\ UNCHANGED <<job, told>>
    BY <1>7 DEF Create
  <2> HIDE DEF file
  <2>2. MoreThan(disk', disk)
    BY <2>1 DEF With, MoreThan
  <2> QED
    BY <2>1, <2>2, MoreKeeps
<1> QED
  BY <1>1, <1>2, <1>3, <1>4, <1>5, <1>6, <1>7 DEF Next

\* SavedIsWhatWasAsked: mu extract that says it is done has saved all leaf
\* parts, all attachments or the parts of all numbers that were asked for,
\* whatever their names, and what the server has saved or made a file of to
\* forward is the part with that number.  All of a leaf part is in its file,
\* but for what a close that fails may lose; a message in a message may also
\* have been cut short by a write that nobody looked at.
THEOREM WhatWasAskedIsSaved == Spec => []SavedIsWhatWasAsked
<1>1. TypeInv /\ SavedInv => SavedIsWhatWasAsked
  <2> SUFFICES ASSUME TypeInv, SavedInv, told # Null, told.result = "ok",
                      \/ told.cmd \in {"save", "forward"}
                      \/ told.cmd = "extract" /\ Plainly(OptionsOf(told.req))
               PROVE  SavedIsWhatWasAsked
    BY DEF SavedIsWhatWasAsked, OkMeansAllSaved, SavedIsThePart
  <2> DEFINE m == told.msg
             req == told.req
  <2>1. AnswerKeeps(disk, told) /\ told.cmd = req.cmd
    BY DEF SavedInv, TypeInv, GoodAnswer, Plainly, OptionsOf
  <2>2. ASSUME NEW s, Kept(disk, m, s)
        PROVE  Holds(s.file, Walk(m)[s.index + 1].object)
    BY <2>2 DEF Kept, Holds
  <2>3. SavedIsThePart
    BY <2>1, <2>2 DEF SavedIsThePart, AnswerKeeps
  <2>4. ASSUME told.cmd = "extract", ~req.overwrite, ~ShowOnly(req)
        PROVE  /\ ~BadParams(req) /\ m.top \in Objects
               /\ \A k \in ToSet(Wanted(m, req)) :
                    \E f \in DOMAIN disk : Holds(f, Walk(m)[k + 1].object)
    <3>1. /\ ~BadParams(req) /\ m \in Mails
          /\ \A s \in told.files : Kept(disk, m, s)
          /\ \A k \in ToSet(Wanted(m, req)) : \E s \in told.files : s.index = k
      BY <2>1, <2>4 DEF AnswerKeeps, Careful
    <3>2. ASSUME NEW k \in ToSet(Wanted(m, req))
          PROVE  \E f \in DOMAIN disk : Holds(f, Walk(m)[k + 1].object)
      <4>1. PICK s \in told.files : s.index = k
        BY <3>1
      <4>2. s.file \in DOMAIN disk /\ Holds(s.file, Walk(m)[s.index + 1].object)
        BY <2>2, <3>1 DEF Kept
      <4> QED
        BY <4>1, <4>2
    <3> QED
      BY <3>1, <3>2, MailIs
  <2>5. ASSUME told.cmd = "extract", ~req.overwrite, req.all \/ req.attachments,
               NEW o \in Leaves(m), req.all \/ LooksLikeAttachment(o)
        PROVE  \E f \in DOMAIN disk : Holds(f, o)
    <3>1. /\ ~ShowOnly(req) /\ ~BadParams(req) /\ m.top \in Objects
          /\ req.cmd = "extract"
      BY <2>1, <2>4, <2>5 DEF ShowOnly
    <3>2. req.parts = Null /\ req.pattern = Null
      BY <2>5, <3>1 DEF BadParams
    <3>3. PICK w \in ToSet(Walk(m)) : o = w.object /\ o.kind = "part"
      BY DEF Leaves
    <3>4. PICK i \in 1..Len(Walk(m)) : w = Walk(m)[i]
      BY <3>1, <3>3, WalkPlace
    <3>5. Walk(m)[i].object = o
      BY <3>3, <3>4
    <3> HIDE DEF m, req
    <3>6. i - 1 \in ToSet(Wanted(m, req))
      BY <2>5, <3>1, <3>2, <3>3, <3>5, WantedParts
    <3>7. (i - 1) + 1 = i
      BY <3>1, WalkItems
    <3>8. \E f \in DOMAIN disk : Holds(f, Walk(m)[(i - 1) + 1].object)
      BY <2>4, <2>5, <3>1, <3>6
    <3> QED
      BY <3>5, <3>7, <3>8
  <2>6. ASSUME told.cmd = "extract", ~req.overwrite, req.parts # Null,
               NEW k \in ToSet(req.parts)
        PROVE  \E w \in {Walk(m)[k + 1]} :
                 \E f \in DOMAIN disk : Holds(f, w.object)
    <3>1. ~ShowOnly(req) /\ Wanted(m, req) = req.parts
      BY <2>1, <2>6 DEF ShowOnly, Wanted
    <3> QED
      BY <2>4, <2>6, <3>1
  <2>7. OkMeansAllSaved
    BY <2>5, <2>6 DEF OkMeansAllSaved
  <2> QED
    BY <2>3, <2>7 DEF SavedIsWhatWasAsked
<1>2. Init => TypeInv /\ SavedInv
  BY TypeInvInit, SavedInvInit
<1>3. TypeInv /\ SavedInv /\ [Next]_vars => (TypeInv /\ SavedInv)'
  BY TypeInvStep, SavedInvStep
<1> QED
  BY <1>1, <1>2, <1>3, PTL DEF Spec
=============================================================================
