------------------------------ MODULE SumLemmas ------------------------------
(***************************************************************************)
(* What the sum of a sequence is.  The induction is over its prefixes, by  *)
(* the least prefix that would be a counterexample.                        *)
(***************************************************************************)
EXTENDS Sums, WellFoundedInduction, TLAPS

LEMMA LeastNumber ==
  ASSUME NEW T \in SUBSET Nat, T # {}
  PROVE  \E n \in T : \A m \in T : n <= m
<1>1. PICK n \in T : \A m \in T : ~(<<m, n>> \in OpToRel(<, Nat))
  BY NatLessThanWellFounded, WFMin, Zenon
<1>2. ASSUME NEW m \in T
      PROVE  n <= m
  <2>1. m \in Nat /\ n \in Nat
    OBVIOUS
  <2>2. ~(m < n)
    BY <1>1, <2>1, Zenon DEF OpToRel
  <2> QED
    BY <2>1, <2>2, SMT
<1> QED
  BY <1>2

\* Induction over the prefixes of a sequence, for a set of lengths.
LEMMA PrefixInduction ==
  ASSUME NEW l \in Nat, NEW T, 0 \in T,
         \A n \in 1..l : n - 1 \in T => n \in T
  PROVE  l \in T /\ \A n \in 0..l : n \in T
<1>0. l \in 0..l
  OBVIOUS
<1> SUFFICES \A n \in 0..l : n \in T
  BY <1>0
<1> DEFINE U == (0..l) \ T
<1> SUFFICES ASSUME U # {}
             PROVE  FALSE
  OBVIOUS
<1>1. U \in SUBSET Nat
  OBVIOUS
<1>2. PICK n \in U : \A m \in U : n <= m
  BY <1>1, LeastNumber
<1>3. n \in 1..l /\ n - 1 \in 0..l
  BY <1>2
<1>4. n - 1 \notin U
  BY <1>2, <1>3
<1> QED
  BY <1>3, <1>4

\* What a prefix sum is, as an equation a function satisfies.
IsSums(g, s, n) ==
  g = [i \in 0..n |-> IF i = 0 THEN 0 ELSE g[i - 1] + s[i]]

LEMMA SumsExist ==
  ASSUME NEW s, NEW l \in Nat
  PROVE  \E g : IsSums(g, s, l)
<1> DEFINE T == {n \in 0..l : \E g : IsSums(g, s, n)}
<1>1. 0 \in T
  <2> DEFINE g == [i \in 0..0 |-> 0]
  <2>1. g = [i \in 0..0 |-> IF i = 0 THEN 0 ELSE g[i - 1] + s[i]]
    OBVIOUS
  <2>2. IsSums(g, s, 0)
    BY <2>1 DEF IsSums
  <2> HIDE DEF g
  <2> QED
    BY <2>2
<1>2. ASSUME NEW n \in 1..l, n - 1 \in T
      PROVE  n \in T
  <2>1. PICK g : IsSums(g, s, n - 1)
    BY <1>2
  <2> DEFINE h == [i \in 0..n |-> IF i = n THEN g[n - 1] + s[n] ELSE g[i]]
  <2>2. ASSUME NEW i \in 0..n
        PROVE  h[i] = IF i = 0 THEN 0 ELSE h[i - 1] + s[i]
    <3>1. CASE i = n
      BY <3>1
    <3>2. CASE i # n
      BY <2>1, <3>2 DEF IsSums
    <3> QED
      BY <3>1, <3>2
  <2>3. h = [i \in 0..n |-> IF i = 0 THEN 0 ELSE h[i - 1] + s[i]]
    BY <2>2
  <2>4. IsSums(h, s, n)
    BY <2>3 DEF IsSums
  <2> HIDE DEF h
  <2> QED
    BY <2>4
<1> HIDE DEF T
<1>3. l \in T
  BY <1>1, <1>2, PrefixInduction
<1> QED
  BY <1>3 DEF T

LEMMA SumsUnfold ==
  ASSUME NEW s \in Seq(Int)
  PROVE  /\ Sums(s)[0] = 0
         /\ \A n \in 1..Len(s) : Sums(s)[n] = Sums(s)[n - 1] + s[n]
<1> DEFINE l == Len(s)
           f == Sums(s)
<1>1. l \in Nat
  OBVIOUS
<1>2. \E g : IsSums(g, s, l)
  BY <1>1, SumsExist, Zenon
<1>3. IsSums(f, s, l)
  BY <1>2, Zenon DEF Sums, IsSums
<1> HIDE DEF l, f
<1>4. \A i \in 0..l : f[i] = IF i = 0 THEN 0 ELSE f[i - 1] + s[i]
  BY <1>3, Zenon DEF IsSums
<1>5. f[0] = 0 /\ \A n \in 1..l : f[n] = f[n - 1] + s[n]
  BY <1>1, <1>4
<1> QED
  BY <1>5 DEF l, f

\* Sums of integers are integers.
LEMMA SumsType ==
  ASSUME NEW s \in Seq(Int)
  PROVE  \A n \in 0..Len(s) : Sums(s)[n] \in Int
<1> DEFINE l == Len(s)
           f == Sums(s)
           T == {n \in 0..l : f[n] \in Int}
<1>0. l \in Nat
  OBVIOUS
<1>1. \A n \in 1..l : s[n] \in Int
  OBVIOUS
<1>2. f[0] = 0 /\ \A n \in 1..l : f[n] = f[n - 1] + s[n]
  BY SumsUnfold
<1> HIDE DEF l, f
<1>3. 0 \in T
  BY <1>0, <1>2
<1>4. ASSUME NEW n \in 1..l, n - 1 \in T
      PROVE  n \in T
  BY <1>0, <1>1, <1>2, <1>4
<1>5. \A n \in 0..l : n \in T
  <2> HIDE DEF T
  <2> QED
    BY <1>0, <1>3, <1>4, PrefixInduction
<1> QED
  BY <1>5 DEF l, f

LEMMA TotalType ==
  ASSUME NEW s \in Seq(Int)
  PROVE  Total(s) \in Int
<1>1. Len(s) \in 0..Len(s)
  OBVIOUS
<1> QED
  BY <1>1, SumsType DEF Total

\* A sequence that is nowhere greater has no greater sum.
LEMMA TotalMonotone ==
  ASSUME NEW s \in Seq(Int), NEW t \in Seq(Int), Len(s) = Len(t),
         \A i \in 1..Len(s) : s[i] <= t[i]
  PROVE  Total(s) <= Total(t)
<1> DEFINE l == Len(s)
           f == Sums(s)
           g == Sums(t)
           T == {n \in 0..l : f[n] <= g[n]}
<1>0. l \in Nat
  OBVIOUS
<1>1. \A n \in 1..l : s[n] \in Int /\ t[n] \in Int /\ s[n] <= t[n]
  OBVIOUS
<1>2. /\ f[0] = 0 /\ \A n \in 1..l : f[n] = f[n - 1] + s[n]
      /\ g[0] = 0 /\ \A n \in 1..l : g[n] = g[n - 1] + t[n]
      /\ \A n \in 0..l : f[n] \in Int /\ g[n] \in Int
  BY SumsUnfold, SumsType
<1>3. Total(s) = f[l] /\ Total(t) = g[l]
  BY DEF Total
<1> HIDE DEF l, f, g
<1>4. 0 \in T
  BY <1>0, <1>1, <1>2
<1>5. ASSUME NEW n \in 1..l, n - 1 \in T
      PROVE  n \in T
  <2>1. n - 1 \in 0..l /\ n \in 0..l
    BY <1>0
  <2>2. f[n - 1] <= g[n - 1]
    BY <1>5
  <2>3. f[n] = f[n - 1] + s[n] /\ g[n] = g[n - 1] + t[n]
    BY <1>2
  <2>4. f[n - 1] \in Int /\ g[n - 1] \in Int /\ s[n] \in Int /\ t[n] \in Int /\ s[n] <= t[n]
    BY <1>1, <1>2, <2>1
  <2>5. f[n] <= g[n]
    BY <2>2, <2>3, <2>4
  <2> QED
    BY <2>1, <2>5
<1>6. l \in T
  <2> HIDE DEF T
  <2> QED
    BY <1>0, <1>4, <1>5, PrefixInduction
<1> QED
  BY <1>3, <1>6

\* Nothing adds up to nothing.
LEMMA TotalZero ==
  ASSUME NEW s \in Seq(Int), \A i \in 1..Len(s) : s[i] = 0
  PROVE  Total(s) = 0
<1> DEFINE l == Len(s)
           f == Sums(s)
           T == {n \in 0..l : f[n] = 0}
<1>0. l \in Nat
  OBVIOUS
<1>1. \A n \in 1..l : s[n] = 0
  OBVIOUS
<1>2. f[0] = 0 /\ \A n \in 1..l : f[n] = f[n - 1] + s[n]
  BY SumsUnfold
<1>3. Total(s) = f[l]
  BY DEF Total
<1> HIDE DEF l, f
<1>4. 0 \in T
  BY <1>0, <1>1, <1>2
<1>5. ASSUME NEW n \in 1..l, n - 1 \in T
      PROVE  n \in T
  <2>1. n \in 0..l
    BY <1>0
  <2>2. f[n - 1] = 0
    BY <1>5
  <2>3. f[n] = 0
    BY <1>1, <1>2, <2>2
  <2> QED
    BY <2>1, <2>3
<1>6. l \in T
  <2> HIDE DEF T
  <2> QED
    BY <1>0, <1>4, <1>5, PrefixInduction
<1> QED
  BY <1>3, <1>6

LEMMA TotalOfTwo ==
  ASSUME NEW a \in Int, NEW b \in Int
  PROVE  Total(<<a, b>>) = a + b
<1> DEFINE s == <<a, b>>
           f == Sums(s)
<1>1. s \in Seq(Int) /\ Len(s) = 2 /\ s[1] = a /\ s[2] = b
  OBVIOUS
<1> HIDE DEF s
<1>2. f[0] = 0 /\ f[1] = f[0] + a /\ f[2] = f[1] + b
  <2>1. f[0] = 0 /\ \A n \in 1..2 : f[n] = f[n - 1] + s[n]
    BY <1>1, SumsUnfold
  <2> HIDE DEF f
  <2> QED
    BY <1>1, <2>1
<1>3. Total(s) = f[2]
  BY <1>1 DEF Total
<1> HIDE DEF f
<1>4. Total(s) = a + b
  BY <1>2, <1>3
<1> QED
  BY <1>4 DEF s

\* The sums of two sequences one after the other add up.
LEMMA TotalConcat ==
  ASSUME NEW s \in Seq(Int), NEW t \in Seq(Int)
  PROVE  Total(s \o t) = Total(s) + Total(t)
<1> DEFINE l == Len(s)
           k == Len(t)
           u == s \o t
           f == Sums(s)
           g == Sums(t)
           h == Sums(u)
           S == {n \in 0..l : h[n] = f[n]}
           T == {n \in 0..k : h[l + n] = f[l] + g[n]}
<1>0. l \in Nat /\ k \in Nat
  OBVIOUS
<1>1. /\ u \in Seq(Int) /\ Len(u) = l + k
      /\ \A n \in 1..l : u[n] = s[n]
      /\ \A n \in 1..k : u[l + n] = t[n]
      /\ \A n \in 1..l : s[n] \in Int
      /\ \A n \in 1..k : t[n] \in Int
  OBVIOUS
<1>2. /\ f[0] = 0 /\ \A n \in 1..l : f[n] = f[n - 1] + s[n]
      /\ g[0] = 0 /\ \A n \in 1..k : g[n] = g[n - 1] + t[n]
      /\ \A n \in 0..l : f[n] \in Int
      /\ \A n \in 0..k : g[n] \in Int
  BY SumsUnfold, SumsType
<1>3. h[0] = 0 /\ \A n \in 1..(l + k) : h[n] = h[n - 1] + u[n]
  <2> HIDE DEF u
  <2>1. h[0] = 0 /\ \A n \in 1..Len(u) : h[n] = h[n - 1] + u[n]
    BY <1>1, SumsUnfold
  <2> QED
    BY <1>1, <2>1
<1>4. Total(s) = f[l] /\ Total(t) = g[k] /\ Total(u) = h[l + k]
  BY <1>1 DEF Total
<1> HIDE DEF l, k, u, f, g, h
<1>5. h[l] = f[l]
  <2>1. 0 \in S
    BY <1>0, <1>1, <1>2, <1>3
  <2>2. ASSUME NEW n \in 1..l, n - 1 \in S
        PROVE  n \in S
    <3>1. n \in 1..(l + k) /\ n \in 0..l
      BY <1>0
    <3>2. h[n - 1] = f[n - 1] /\ u[n] = s[n]
      BY <1>0, <1>1, <2>2
    <3> QED
      BY <1>2, <1>3, <3>1, <3>2
  <2> HIDE DEF S
  <2>3. l \in S
    BY <1>0, <2>1, <2>2, PrefixInduction
  <2> QED
    BY <2>3 DEF S
<1>6. h[l + k] = f[l] + g[k]
  <2>0. f[l] \in Int
    BY <1>0, <1>1, <1>2
  <2>1. 0 \in T
    BY <1>0, <1>1, <1>2, <1>5, <2>0
  <2>2. ASSUME NEW n \in 1..k, n - 1 \in T
        PROVE  n \in T
    <3>1. l + n \in 1..(l + k) /\ n \in 0..k /\ n - 1 \in 0..k /\ (l + n) - 1 = l + (n - 1)
      BY <1>0
    <3>2. h[l + n] = h[l + (n - 1)] + t[n]
      BY <1>1, <1>3, <3>1
    <3>3. h[l + (n - 1)] = f[l] + g[n - 1] /\ g[n] = g[n - 1] + t[n]
      BY <1>2, <2>2
    <3>4. g[n - 1] \in Int /\ t[n] \in Int
      BY <1>1, <1>2, <3>1
    <3> QED
      BY <2>0, <3>1, <3>2, <3>3, <3>4
  <2> HIDE DEF T
  <2>3. k \in T
    BY <1>0, <2>1, <2>2, PrefixInduction
  <2> QED
    BY <2>3 DEF T
<1>7. Total(u) = Total(s) + Total(t)
  BY <1>4, <1>6
<1> QED
  BY <1>7 DEF u
=============================================================================
