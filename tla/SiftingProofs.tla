--------------------------- MODULE SiftingProofs ---------------------------
(***************************************************************************)
(* What sifting a sequence leaves: the elements that stay, in their order, *)
(* each of them once.                                                      *)
(***************************************************************************)
EXTENDS Sifting, FiniteSetTheorems, WellFoundedInduction, TLAPS

\* A set of numbers that is not empty has a least element: a statement that
\* holds of n whenever it holds of all smaller numbers has no counterexample.
LEMMA LeastNumber ==
    ASSUME NEW T, T \subseteq Nat, T # {}
    PROVE  \E n \in T : \A m \in T : n <= m
<1> DEFINE R == OpToRel(<, Nat)
<1>1. IsWellFoundedOn(R, Nat)
      BY NatLessThanWellFounded
<1>2. \E n \in T : \A m \in T : ~(<<m, n>> \in R)
      BY <1>1, WFMin
<1>3. \A m, n \in Nat : <<m, n>> \in R <=> m < n
      BY DEF OpToRel
<1> HIDE DEF R
<1>4. PICK n \in T : \A m \in T : ~(<<m, n>> \in R)
      BY <1>2
<1>5. ASSUME NEW m \in T PROVE n <= m
      <2>1. m \in Nat /\ n \in Nat
            OBVIOUS
      <2>2. ~(m < n)
            BY <1>3, <1>4, <2>1
      <2> QED BY <2>1, <2>2
<1> QED BY <1>5

\* One step of KeptUpTo.
Step(q, T, f, i) ==
    IF i = 0 THEN <<>> ELSE IF q[i] \in T THEN Append(f[i - 1], q[i]) ELSE f[i - 1]

\* KeptUpTo's function exists.
LEMMA KeptExists ==
    ASSUME NEW S, NEW q \in Seq(S), NEW T
    PROVE  \E f : f = [i \in 0 .. Len(q) |-> Step(q, T, f, i)]
<1> DEFINE Good(n) == \E f : f = [i \in 0 .. n |-> Step(q, T, f, i)]
           Bad == {n \in Nat : ~Good(n)}
<1>1. CASE Bad = {}
      <2>1. Len(q) \in Nat
            OBVIOUS
      <2>2. Good(Len(q))
            BY <1>1, <2>1
      <2> QED BY <2>2
<1>2. CASE Bad # {}
      <2>1. PICK n \in Bad : \A m \in Bad : n <= m
            BY <1>2, LeastNumber
      <2>2. n \in Nat /\ ~Good(n)
            OBVIOUS
      <2>3. CASE n = 0
            <3>1. [i \in 0 .. 0 |-> <<>>] = [i \in 0 .. 0 |-> Step(q, T, [j \in 0 .. 0 |-> <<>>], i)]
                  BY DEF Step
            <3> QED BY <2>2, <2>3, <3>1
      <2>4. CASE n # 0
            <3>1. n - 1 \in Nat /\ ~(n - 1 \in Bad)
                  BY <2>1, <2>2, <2>4
            <3>2. PICK f : f = [i \in 0 .. (n - 1) |-> Step(q, T, f, i)]
                  BY <3>1
            <3> DEFINE g == [i \in 0 .. n |-> IF i = n THEN Step(q, T, f, n) ELSE f[i]]
            <3>3. ASSUME NEW i \in 0 .. n PROVE g[i] = Step(q, T, g, i)
                  <4>1. CASE i = n
                        <5>1. g[n] = Step(q, T, f, n) /\ g[n - 1] = f[n - 1]
                              BY <2>2, <2>4
                        <5> QED BY <4>1, <5>1 DEF Step
                  <4>2. CASE i # n
                        <5>1. i \in 0 .. (n - 1) /\ g[i] = f[i]
                              BY <2>2, <4>2
                        <5>2. f[i] = Step(q, T, f, i)
                              BY <3>2, <5>1
                        <5>3. i # 0 => i - 1 \in 0 .. n /\ i - 1 # n /\ g[i - 1] = f[i - 1]
                              BY <2>2, <5>1
                        <5> QED BY <5>1, <5>2, <5>3 DEF Step
                  <4> QED BY <4>1, <4>2
            <3>4. g = [i \in 0 .. n |-> Step(q, T, g, i)]
                  BY <3>3
            <3> QED BY <2>2, <3>4
      <2> QED BY <2>3, <2>4
<1> QED BY <1>1, <1>2

\* So KeptUpTo is computed as it is written.
LEMMA KeptStep ==
    ASSUME NEW S, NEW q \in Seq(S), NEW T, NEW i \in 0 .. Len(q)
    PROVE  KeptUpTo(q, T)[i] = Step(q, T, KeptUpTo(q, T), i)
<1>1. PICK f : f = [j \in 0 .. Len(q) |-> Step(q, T, f, j)]
      BY KeptExists
<1>2. f = [j \in 0 .. Len(q) |->
             IF j = 0 THEN <<>>
             ELSE IF q[j] \in T THEN Append(f[j - 1], q[j]) ELSE f[j - 1]]
      BY <1>1 DEF Step
<1>3. KeptUpTo(q, T) =
          [j \in 0 .. Len(q) |->
             IF j = 0 THEN <<>>
             ELSE IF q[j] \in T THEN Append(KeptUpTo(q, T)[j - 1], q[j])
                  ELSE KeptUpTo(q, T)[j - 1]]
      BY <1>2 DEF KeptUpTo
<1> QED BY <1>3 DEF Step

\* h tells from which of the first n places of q the elements of r come: each place
\* with an element in T is there once, in their order.
ComesFrom(q, T, n, r, h) ==
    /\ h \in [1 .. Len(r) -> 1 .. n]
    /\ \A k, l \in 1 .. Len(r) : k < l => h[k] < h[l]
    /\ \A k \in 1 .. Len(r) : r[k] = q[h[k]] /\ q[h[k]] \in T
    /\ \A i \in 1 .. n : q[i] \in T => \E k \in 1 .. Len(r) : h[k] = i

\* After n places what is left is a sequence of elements from those places, and all
\* of them if all are in T.
Sifts(S, q, T, n) ==
    LET r == KeptUpTo(q, T)[n]
    IN /\ r \in Seq(S)
       /\ \E h : ComesFrom(q, T, n, r, h)
       /\ (\A i \in 1 .. n : q[i] \in T) => Len(r) = n /\ \A i \in 1 .. n : r[i] = q[i]

\* One place more.
LEMMA SiftsOneMore ==
    ASSUME NEW S, NEW q \in Seq(S), NEW T, NEW n \in 1 .. Len(q), Sifts(S, q, T, n - 1)
    PROVE  Sifts(S, q, T, n)
<1> DEFINE r == KeptUpTo(q, T)[n - 1]
           s == KeptUpTo(q, T)[n]
<1>1. s = IF q[n] \in T THEN Append(r, q[n]) ELSE r
      BY KeptStep DEF Step
<1>2. /\ r \in Seq(S) /\ Len(r) \in Nat /\ q[n] \in S
      /\ (\A i \in 1 .. (n - 1) : q[i] \in T)
            => Len(r) = n - 1 /\ \A i \in 1 .. (n - 1) : r[i] = q[i]
      BY DEF Sifts
<1>3. PICK h : ComesFrom(q, T, n - 1, r, h)
      BY DEF Sifts
<1> HIDE DEF r, s
<1>4. CASE q[n] \in T
      <2>1. /\ s \in Seq(S) /\ Len(s) = Len(r) + 1 /\ s[Len(r) + 1] = q[n]
            /\ \A k \in 1 .. Len(r) : s[k] = r[k]
            BY <1>1, <1>2, <1>4
      <2> DEFINE g == [k \in 1 .. Len(s) |-> IF k = Len(s) THEN n ELSE h[k]]
      <2>2. /\ g[Len(s)] = n
            /\ \A k \in 1 .. Len(r) : g[k] = h[k] /\ h[k] \in 1 .. (n - 1)
            BY <1>2, <1>3, <2>1 DEF ComesFrom
      <2>3. g \in [1 .. Len(s) -> 1 .. n]
            BY <1>2, <1>3, <2>1 DEF ComesFrom
      <2> HIDE DEF g
      <2>4. ASSUME NEW k \in 1 .. Len(s), NEW l \in 1 .. Len(s), k < l PROVE g[k] < g[l]
            <3>1. k \in 1 .. Len(r)
                  BY <1>2, <2>1, <2>4
            <3>2. CASE l = Len(s)
                  BY <2>2, <3>1, <3>2
            <3>3. CASE l # Len(s)
                  <4>1. l \in 1 .. Len(r)
                        BY <1>2, <2>1, <3>3
                  <4> QED BY <1>3, <2>2, <2>4, <3>1, <4>1 DEF ComesFrom
            <3> QED BY <3>2, <3>3
      <2>5. ASSUME NEW k \in 1 .. Len(s) PROVE s[k] = q[g[k]] /\ q[g[k]] \in T
            <3>1. CASE k = Len(s)
                  BY <1>4, <2>1, <2>2, <3>1
            <3>2. CASE k # Len(s)
                  <4>1. k \in 1 .. Len(r)
                        BY <1>2, <2>1, <3>2
                  <4> QED BY <1>3, <2>1, <2>2, <4>1 DEF ComesFrom
            <3> QED BY <3>1, <3>2
      <2>6. ASSUME NEW i \in 1 .. n, q[i] \in T PROVE \E k \in 1 .. Len(s) : g[k] = i
            <3>1. CASE i = n
                  BY <1>2, <2>1, <2>2, <3>1
            <3>2. CASE i # n
                  <4>1. PICK k \in 1 .. Len(r) : h[k] = i
                        BY <1>3, <2>6, <3>2 DEF ComesFrom
                  <4>2. k \in 1 .. Len(s)
                        BY <1>2, <2>1
                  <4> QED BY <2>2, <4>1, <4>2
            <3> QED BY <3>1, <3>2
      <2>7. ASSUME \A i \in 1 .. n : q[i] \in T
            PROVE  Len(s) = n /\ \A i \in 1 .. n : s[i] = q[i]
            BY <1>2, <2>1, <2>7
      <2>8. ComesFrom(q, T, n, s, g)
            BY <2>3, <2>4, <2>5, <2>6 DEF ComesFrom
      <2> QED BY <2>1, <2>7, <2>8 DEF Sifts, s
<1>5. CASE q[n] \notin T
      <2>1. s = r
            BY <1>1, <1>5
      <2>2. ComesFrom(q, T, n, s, h)
            BY <1>3, <1>5, <2>1 DEF ComesFrom
      <2>3. ~\A i \in 1 .. n : q[i] \in T
            BY <1>5
      <2>4. s \in Seq(S)
            BY <1>2, <2>1
      <2> QED BY <2>2, <2>3, <2>4 DEF Sifts, s
<1> QED BY <1>4, <1>5

\* What is left of a sequence comes from it, in its order and without a gap.
THEOREM KeptSifts ==
    ASSUME NEW S, NEW q \in Seq(S), NEW T
    PROVE  /\ Kept(q, T) \in Seq(S)
           /\ \E h : ComesFrom(q, T, Len(q), Kept(q, T), h)
           /\ (\A i \in 1 .. Len(q) : q[i] \in T) => Kept(q, T) = q
<1> DEFINE Bad == {n \in 0 .. Len(q) : ~Sifts(S, q, T, n)}
<1>1. ASSUME Bad # {} PROVE FALSE
      <2>0. Bad \subseteq Nat
            OBVIOUS
      <2>1. PICK n \in Bad : \A m \in Bad : n <= m
            <3> HIDE DEF Bad
            <3> QED BY <1>1, <2>0, LeastNumber
      <2>2. n \in 0 .. Len(q) /\ ~Sifts(S, q, T, n) /\ Len(q) \in Nat
            OBVIOUS
      <2>3. CASE n = 0
            <3>1. KeptUpTo(q, T)[0] = <<>>
                  BY <2>2, <2>3, KeptStep DEF Step
            <3>2. ComesFrom(q, T, 0, <<>>, <<>>)
                  BY DEF ComesFrom
            <3> QED BY <2>2, <2>3, <3>1, <3>2 DEF Sifts
      <2>4. CASE n # 0
            <3>1. n \in 1 .. Len(q) /\ n - 1 \in 0 .. Len(q)
                  BY <2>2, <2>4
            <3>2. ~(n - 1 \in Bad)
                  BY <2>1, <3>1
            <3>3. Sifts(S, q, T, n - 1)
                  BY <3>1, <3>2
            <3> QED BY <2>2, <3>1, <3>3, SiftsOneMore
      <2> QED BY <2>3, <2>4
<1>2. Sifts(S, q, T, Len(q))
      <2>1. Len(q) \in 0 .. Len(q)
            OBVIOUS
      <2> QED BY <1>1, <2>1
<1>3. /\ Kept(q, T) \in Seq(S)
      /\ \E h : ComesFrom(q, T, Len(q), Kept(q, T), h)
      /\ (\A i \in 1 .. Len(q) : q[i] \in T)
            => /\ Len(Kept(q, T)) = Len(q)
               /\ \A i \in 1 .. Len(q) : Kept(q, T)[i] = q[i]
      BY <1>2 DEF Sifts, Kept
<1> QED BY <1>3

-----------------------------------------------------------------------------
(* Counting.                                                               *)

\* A count is a number.
LEMMA CountIsNumber ==
    ASSUME NEW S, NEW q \in Seq(S), NEW T
    PROVE  Count(q, T) \in Nat /\ IsFiniteSet({i \in 1 .. Len(q) : q[i] \in T})
<1>1. IsFiniteSet(1 .. Len(q))
      BY FS_Interval
<1>2. {i \in 1 .. Len(q) : q[i] \in T} \in SUBSET (1 .. Len(q))
      OBVIOUS
<1>3. IsFiniteSet({i \in 1 .. Len(q) : q[i] \in T})
      BY <1>1, <1>2, FS_Subset
<1> QED BY <1>3, FS_CardinalityType DEF Count

\* What is appended is counted when it is in T.
LEMMA CountAppend ==
    ASSUME NEW S, NEW q \in Seq(S), NEW T, NEW e \in S
    PROVE  Count(Append(q, e), T) = IF e \in T THEN Count(q, T) + 1 ELSE Count(q, T)
<1> DEFINE r == Append(q, e)
           A == {i \in 1 .. Len(q) : q[i] \in T}
           B == {i \in 1 .. Len(r) : r[i] \in T}
<1>1. /\ Len(q) \in Nat /\ Len(r) = Len(q) + 1 /\ r[Len(q) + 1] = e
      /\ \A i \in 1 .. Len(q) : r[i] = q[i]
      OBVIOUS
<1>2. IsFiniteSet(A)
      BY CountIsNumber
<1>3. Len(q) + 1 \notin A
      BY <1>1
<1> HIDE DEF r
<1>4. CASE e \in T
      <2>1. B = A \cup {Len(q) + 1}
            BY <1>1, <1>4
      <2> QED BY <1>2, <1>3, <1>4, <2>1, FS_AddElement DEF Count, r
<1>5. CASE e \notin T
      <2>1. B = A
            BY <1>1, <1>5
      <2> QED BY <1>5, <2>1 DEF Count, r
<1> QED BY <1>4, <1>5

\* The first element, when it is taken away, is counted no longer.
LEMMA CountTail ==
    ASSUME NEW S, NEW q \in Seq(S), NEW T, q # <<>>
    PROVE  Count(q, T) = IF Head(q) \in T THEN Count(Tail(q), T) + 1
                                          ELSE Count(Tail(q), T)
<1> DEFINE r == Tail(q)
           A == {i \in 1 .. Len(q) : q[i] \in T}
           B == {i \in 1 .. Len(r) : r[i] \in T}
           C == {i \in 2 .. Len(q) : q[i] \in T}
           f == [i \in B |-> i + 1]
<1>1. /\ Len(q) \in Nat /\ Len(q) >= 1 /\ Len(r) = Len(q) - 1 /\ Head(q) = q[1]
      /\ \A i \in 1 .. Len(r) : r[i] = q[i + 1]
      /\ r \in Seq(S)
      OBVIOUS
<1> HIDE DEF r
<1>2. IsFiniteSet(B)
      BY <1>1, CountIsNumber
<1>3. f \in Bijection(B, C)
      <2>1. \A i \in B : i + 1 \in C
            BY <1>1
      <2>2. \A j \in C : j - 1 \in B /\ (j - 1) + 1 = j
            BY <1>1
      <2>3. \A i, j \in B : i + 1 = j + 1 => i = j
            BY <1>1
      <2> QED BY <2>1, <2>2, <2>3 DEF Bijection, Injection, Surjection, IsInjective
<1>4. IsFiniteSet(C) /\ Cardinality(C) = Cardinality(B)
      BY <1>2, <1>3, FS_Bijection DEF ExistsBijection
<1>5. 1 \notin C
      OBVIOUS
<1>6. CASE Head(q) \in T
      <2>1. A = C \cup {1}
            BY <1>1, <1>6
      <2> QED BY <1>4, <1>5, <1>6, <2>1, FS_AddElement DEF Count, r
<1>7. CASE Head(q) \notin T
      <2>1. A = C
            BY <1>1, <1>7
      <2> QED BY <1>4, <1>7, <2>1 DEF Count, r
<1> QED BY <1>6, <1>7

\* What is kept is no longer, and its elements are those of q in T.
LEMMA KeptElements ==
    ASSUME NEW S, NEW q \in Seq(S), NEW T
    PROVE  /\ Kept(q, T) \in Seq(S)
           /\ Len(Kept(q, T)) <= Len(q)
           /\ \A e : (\E k \in 1 .. Len(Kept(q, T)) : Kept(q, T)[k] = e)
                     <=> e \in T /\ \E i \in 1 .. Len(q) : q[i] = e
<1> DEFINE r == Kept(q, T)
<1>1. r \in Seq(S) /\ \E h : ComesFrom(q, T, Len(q), r, h)
      BY KeptSifts
<1> HIDE DEF r
<1>2. PICK h : ComesFrom(q, T, Len(q), r, h)
      BY <1>1
<1>3. /\ Len(r) \in Nat /\ Len(q) \in Nat
      /\ h \in [1 .. Len(r) -> 1 .. Len(q)]
      BY <1>1, <1>2 DEF ComesFrom
<1>4. \A k, l \in 1 .. Len(r) : h[k] = h[l] => k = l
      <2> SUFFICES ASSUME NEW k \in 1 .. Len(r), NEW l \in 1 .. Len(r), h[k] = h[l], k # l
                   PROVE  FALSE
          OBVIOUS
      <2>1. k < l \/ l < k
            BY <1>3
      <2>2. h[k] \in Int /\ h[l] \in Int
            BY <1>3
      <2> QED BY <1>2, <2>1, <2>2 DEF ComesFrom
<1>5. Len(r) <= Len(q)
      <2>1. h \in Injection(1 .. Len(r), 1 .. Len(q))
            BY <1>3, <1>4 DEF Injection, IsInjective
      <2>2. /\ IsFiniteSet(1 .. Len(q))
            /\ Cardinality(1 .. Len(q)) = Len(q) /\ Cardinality(1 .. Len(r)) = Len(r)
            <3>1. \A n \in Nat : n >= 1 => Cardinality(1 .. n) = n
                  BY FS_Interval
            <3>2. Cardinality(1 .. 0) = 0 /\ IsFiniteSet(1 .. Len(q))
                  BY <1>3, FS_Interval
            <3> QED BY <1>3, <3>1, <3>2
      <2> QED BY <2>1, <2>2, FS_Injection
<1>6. ASSUME NEW e
      PROVE  (\E k \in 1 .. Len(r) : r[k] = e) <=> e \in T /\ \E i \in 1 .. Len(q) : q[i] = e
      BY <1>2, <1>3, SMTT(30) DEF ComesFrom
<1> QED BY <1>1, <1>5, <1>6 DEF r
=============================================================================
