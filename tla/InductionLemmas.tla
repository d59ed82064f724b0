-------------------------- MODULE InductionLemmas ---------------------------
(***************************************************************************)
(* Induction and recursion over an interval, for the proofs about loops    *)
(* and sequences.  The library's induction takes an operator; the one      *)
(* here is over a set of numbers and rests on cardinalities.               *)
(***************************************************************************)
EXTENDS Integers, Sequences, SequencesExt, FiniteSets, FiniteSetTheorems, TLAPS

\* A finite initial part of the natural numbers has a last element.
LEMMA LastOne ==
  ASSUME NEW A \in SUBSET Nat, IsFiniteSet(A), 0 \in A, \A m \in A : 0 .. m \subseteq A
  PROVE  \E c \in A : c + 1 \notin A
<1>1. PICK n \in Nat : n = Cardinality(A)
  BY FS_CardinalityType
<1>2. n \notin A
  <2>1. Cardinality(0 .. n) = n + 1
    BY <1>1, FS_Interval
  <2>2. ASSUME 0 .. n \in SUBSET A PROVE n + 1 <= n
    BY <1>1, <2>1, <2>2, FS_Subset
  <2> QED
    BY <2>2
<1>3. n # 0
  BY <1>2
<1>4. A \in SUBSET (0 .. n - 1)
  <2>1. \A m \in A : n \notin 0 .. m
    BY <1>2
  <2> QED
    BY <2>1
<1>5. IsFiniteSet(0 .. n - 1) /\ Cardinality(0 .. n - 1) = n
  <2>1. n - 1 \in Int /\ 0 \in Int /\ ~(0 > n - 1) /\ n - 1 - 0 + 1 = n
    BY <1>3
  <2> QED
    BY <2>1, FS_Interval
<1>6. A = 0 .. n - 1
  BY <1>1, <1>4, <1>5, FS_Subset
<1> QED
  <2>1. n - 1 \in A /\ n - 1 + 1 = n
    BY <1>3, <1>6
  <2> QED
    BY <1>2, <2>1

\* Induction up to n, over the set of the numbers that have the property.
LEMMA Induction ==
  ASSUME NEW n \in Nat, NEW A, 0 \in A,
         \A m \in 0 .. n - 1 : m \in A => m + 1 \in A
  PROVE  0 .. n \subseteq A
<1> DEFINE B == {m \in 0 .. n : 0 .. m \subseteq A}
<1>1. IsFiniteSet(B)
  <2>1. IsFiniteSet(0 .. n)
    BY FS_Interval
  <2> QED
    BY <2>1, FS_Subset
<1>2. B \in SUBSET Nat /\ 0 \in B
  OBVIOUS
<1>3. \A m \in B : 0 .. m \subseteq B
  OBVIOUS
<1>4. PICK c \in B : c + 1 \notin B
  <2> HIDE DEF B
  <2> QED
    BY <1>1, <1>2, <1>3, LastOne
<1>5. ASSUME c # n PROVE FALSE
  <2>1. c \in 0 .. n - 1 /\ c \in A /\ 0 .. c \subseteq A
    BY <1>4, <1>5
  <2>2. c + 1 \in A
    BY <2>1
  <2>3. 0 .. c + 1 = 0 .. c \cup {c + 1}
    BY <2>1
  <2>4. c + 1 \in B
    BY <2>1, <2>2, <2>3
  <2> QED
    BY <1>4, <2>4
<1> QED
  BY <1>4, <1>5

\* f is what the recursion from c with these steps gives, up to n.
Recurs(f, n, T, c, step) ==
  /\ f \in [0 .. n -> T]
  /\ f[0] = c
  /\ \A m \in 1 .. n : f[m] = step[m][f[m - 1]]

\* A recursion over an interval defines a function.
LEMMA Recursion ==
  ASSUME NEW n \in Nat, NEW T, NEW c \in T, NEW step \in [1 .. n -> [T -> T]]
  PROVE  \E f : Recurs(f, n, T, c, step)
<1> DEFINE A == {m \in 0 .. n : \E f : Recurs(f, m, T, c, step)}
<1>1. 0 \in A
  <2>1. Recurs([m \in 0 .. 0 |-> c], 0, T, c, step)
    BY DEF Recurs
  <2> QED
    BY <2>1
<1>2. ASSUME NEW m \in 0 .. n - 1, m \in A PROVE m + 1 \in A
  <2>1. PICK f : Recurs(f, m, T, c, step)
    BY <1>2
  <2> DEFINE g == [k \in 0 .. m + 1 |-> IF k = m + 1 THEN step[m + 1][f[m]] ELSE f[k]]
  <2>2. f \in [0 .. m -> T] /\ f[0] = c
    BY <2>1, Zenon DEF Recurs
  <2>3. m + 1 \in 1 .. n /\ f[m] \in T
    BY <2>2
  <2>4. step[m + 1][f[m]] \in T
    BY <2>3
  <2>5. \A k \in 0 .. m : g[k] = f[k]
    OBVIOUS
  <2>6. g[m + 1] = step[m + 1][f[m]]
    OBVIOUS
  <2>7. g \in [0 .. m + 1 -> T]
    <3>1. \A k \in 0 .. m + 1 : k = m + 1 \/ k \in 0 .. m
      OBVIOUS
    <3>2. \A k \in 0 .. m + 1 : g[k] \in T
      <4> HIDE DEF g
      <4> QED
        BY <2>2, <2>4, <2>5, <2>6, <3>1
    <3>3. g = [k \in 0 .. m + 1 |-> g[k]]
      OBVIOUS
    <3> HIDE DEF g
    <3> QED
      BY <3>2, <3>3
  <2> HIDE DEF g
  <2>8. ASSUME NEW k \in 1 .. m + 1 PROVE g[k] = step[k][g[k - 1]]
    <3>1. CASE k = m + 1
      <4>1. k - 1 = m /\ m \in 0 .. m
        BY <3>1
      <4> QED
        BY <2>5, <2>6, <3>1, <4>1
    <3>2. CASE k \in 1 .. m
      <4>1. k \in 0 .. m /\ k - 1 \in 0 .. m
        BY <3>2
      <4>2. f[k] = step[k][f[k - 1]]
        BY <2>1, <3>2, Zenon DEF Recurs
      <4> QED
        BY <2>5, <4>1, <4>2
    <3> QED
      BY <3>1, <3>2
  <2>9. g[0] = c
    <3>1. 0 \in 0 .. m
      OBVIOUS
    <3> QED
      BY <2>2, <2>5, <3>1
  <2>10. Recurs(g, m + 1, T, c, step)
    BY <2>7, <2>8, <2>9, Zenon DEF Recurs
  <2> QED
    BY <2>10
<1>3. 0 .. n \subseteq A
  <2> HIDE DEF A
  <2> QED
    BY <1>1, <1>2, Induction
<1> QED
  BY <1>3

\* h[k] is the first k sequences in a row.
Joins(h, ss, X) ==
  \A k \in 1 .. Len(ss) : h[k] \in X /\ h[k] = IF k = 1 THEN ss[k] ELSE h[k - 1] \o ss[k]

\* Sequences in a row are joined one after the other.
LEMMA FlattenSteps ==
  ASSUME NEW S, NEW X \in SUBSET Seq(S), <<>> \in X, \A v, w \in X : v \o w \in X,
         NEW ss \in Seq(X), Len(ss) # 0
  PROVE  \E h : FlattenSeq(ss) = h[Len(ss)] /\ Joins(h, ss, X)
<1> DEFINE n == Len(ss)
           Def(g) == g = [k \in 1 .. n |-> IF k = 1 THEN ss[k] ELSE g[k - 1] \o ss[k]]
           step == [k \in 1 .. n |-> [v \in X |-> v \o ss[k]]]
<1>1. n \in Nat /\ \A k \in 1 .. n : ss[k] \in X
  OBVIOUS
<1>2. n # 0
  OBVIOUS
<1>3. n \in 1 .. n /\ \A k \in 1 .. n : k - 1 \in 0 .. n /\ (k # 1 => k - 1 \in 1 .. n) /\ k \in 0 .. n
  BY <1>1, <1>2
<1>4. \A v, w \in X : v \o w \in X
  OBVIOUS
<1>5. \A w \in X : <<>> \o w = w
  <2>1. \A w \in Seq(S) : <<>> \o w = w
    OBVIOUS
  <2> QED
    BY <2>1, Zenon
<1>6. <<>> \in X
  OBVIOUS
<1> HIDE DEF n
<1>7. step \in [1 .. n -> [X -> X]]
  BY <1>1, <1>4, Zenon
<1>8. PICK f : Recurs(f, n, X, <<>>, step)
  <2> HIDE DEF step
  <2> QED
    BY <1>1, <1>6, <1>7, Recursion, Zenon
<1>9. f \in [0 .. n -> X] /\ f[0] = <<>>
  BY <1>8, Zenon DEF Recurs
<1>10. ASSUME NEW k \in 1 .. n PROVE f[k] = f[k - 1] \o ss[k] /\ f[k] \in X
  <2>1. f[k - 1] \in X /\ f[k] \in X
    BY <1>3, <1>9, Zenon
  <2>2. f[k] = step[k][f[k - 1]]
    BY <1>8, Zenon DEF Recurs
  <2> QED
    BY <2>1, <2>2, Zenon
<1> DEFINE g == [k \in 1 .. n |-> f[k]]
<1>11. \A k \in 1 .. n : g[k] = f[k]
  BY Zenon
<1>12. ASSUME NEW k \in 1 .. n PROVE f[k] = IF k = 1 THEN ss[k] ELSE g[k - 1] \o ss[k]
  <2>1. CASE k = 1
    <3>1. k - 1 = 0
      BY <2>1
    <3>2. ss[k] \in X /\ f[k] = f[k - 1] \o ss[k]
      BY <1>1, <1>10, Zenon
    <3>3. f[k] = <<>> \o ss[k]
      BY <1>9, <3>1, <3>2, Zenon
    <3>4. f[k] = ss[k]
      BY <1>5, <3>2, <3>3, Zenon
    <3> QED
      BY <2>1, <3>4, Zenon
  <2>2. CASE k # 1
    BY <1>3, <1>10, <1>11, <2>2, Zenon
  <2> QED
    BY <2>1, <2>2
<1>13. Def(g)
  BY <1>12, Zenon
<1> HIDE DEF g
<1>14. Def(CHOOSE h : Def(h))
  BY <1>13, Zenon
<1> DEFINE h == CHOOSE h : Def(h)
<1>15. FlattenSeq(ss) = h[n]
  BY <1>2, Zenon DEF FlattenSeq, n
<1>16. \A k \in 1 .. n : h[k] = IF k = 1 THEN ss[k] ELSE h[k - 1] \o ss[k]
  BY <1>14, Zenon
<1> HIDE DEF h
<1> DEFINE A == {k \in 0 .. n : k = 0 \/ h[k] \in X}
<1>17. ASSUME NEW k \in 0 .. n - 1, k \in A PROVE k + 1 \in A
  <2>1. k + 1 \in 1 .. n /\ k + 1 \in 0 .. n /\ k + 1 - 1 = k /\ (k + 1 = 1 <=> k = 0)
    BY <1>1
  <2>2. h[k + 1] = IF k = 0 THEN ss[k + 1] ELSE h[k] \o ss[k + 1]
    <3>1. h[k + 1] = IF k + 1 = 1 THEN ss[k + 1] ELSE h[k + 1 - 1] \o ss[k + 1]
      BY <1>16, <2>1
    <3> QED
      BY <2>1, <3>1
  <2>3. ss[k + 1] \in X
    BY <1>1, <2>1, Zenon
  <2>4. h[k + 1] \in X
    BY <1>4, <1>17, <2>2, <2>3, Zenon
  <2> QED
    BY <2>1, <2>4, Zenon
<1>18. 0 .. n \subseteq A
  <2>1. 0 \in A
    BY <1>1
  <2> HIDE DEF A
  <2> QED
    BY <1>1, <1>17, <2>1, Induction
<1>19. \A k \in 1 .. n : h[k] \in X
  <2>1. \A k \in 1 .. n : k \in 0 .. n /\ k # 0
    OBVIOUS
  <2> QED
    BY <1>18, <2>1, Zenon
<1> QED
  BY <1>15, <1>16, <1>19, Zenon DEF n, Joins

\* Sequences in a row have what they have each and keep when joined.
LEMMA FlattenClosed ==
  ASSUME NEW S, NEW X \in SUBSET Seq(S), <<>> \in X, \A v, w \in X : v \o w \in X,
         NEW ss \in Seq(X)
  PROVE  FlattenSeq(ss) \in X
<1>1. CASE Len(ss) = 0
  <2>1. ss = <<>> /\ <<>> \in X
    BY <1>1
  <2> QED
    BY <1>1, <2>1 DEF FlattenSeq
<1>2. CASE Len(ss) # 0
  <2>1. Len(ss) \in 1 .. Len(ss)
    BY <1>2
  <2> QED
    BY <1>2, <2>1, FlattenSteps, Zenon DEF Joins
<1> QED
  BY <1>1, <1>2

\* Sequences in a row make one sequence.
LEMMA FlattenType ==
  ASSUME NEW S, NEW ss \in Seq(Seq(S))
  PROVE  FlattenSeq(ss) \in Seq(S)
<1>1. \A v, w \in Seq(S) : v \o w \in Seq(S)
  OBVIOUS
<1>2. <<>> \in Seq(S)
  OBVIOUS
<1> QED
  BY <1>1, <1>2, FlattenClosed

\* Sequences in a row have what one of them has.
LEMMA FlattenHas ==
  ASSUME NEW S, NEW ss \in Seq(Seq(S)), NEW k \in 1 .. Len(ss), NEW j \in 1 .. Len(ss[k])
  PROVE  \E i \in 1 .. Len(FlattenSeq(ss)) : FlattenSeq(ss)[i] = ss[k][j]
<1> DEFINE n == Len(ss)
           x == ss[k][j]
           Hit(s) == \E i \in 1 .. Len(s) : s[i] = x
<1>1. n \in Nat /\ k \in Nat /\ n # 0 /\ \A m \in 1 .. n : ss[m] \in Seq(S)
  OBVIOUS
<1>2. PICK h : FlattenSeq(ss) = h[n] /\ Joins(h, ss, Seq(S))
  <2>1. \A v, w \in Seq(S) : v \o w \in Seq(S)
    OBVIOUS
  <2>2. <<>> \in Seq(S) /\ Seq(S) \in SUBSET Seq(S)
    OBVIOUS
  <2> QED
    BY <1>1, <2>1, <2>2, FlattenSteps, Zenon
<1>3. \A v, w \in Seq(S) : Hit(v) \/ Hit(w) => Hit(v \o w)
  <2>1. ASSUME NEW v \in Seq(S), NEW w \in Seq(S), NEW i \in 1 .. Len(v), v[i] = x
        PROVE  Hit(v \o w)
    <3>1. i \in 1 .. Len(v \o w) /\ (v \o w)[i] = v[i]
      OBVIOUS
    <3> QED
      BY <2>1, <3>1, Zenon
  <2>2. ASSUME NEW v \in Seq(S), NEW w \in Seq(S), NEW i \in 1 .. Len(w), w[i] = x
        PROVE  Hit(v \o w)
    <3>1. Len(v) + i \in 1 .. Len(v \o w) /\ (v \o w)[Len(v) + i] = w[i]
      OBVIOUS
    <3> QED
      BY <2>2, <3>1, Zenon
  <2> QED
    BY <2>1, <2>2, Zenon
<1>4. Hit(ss[k])
  BY Zenon
<1> HIDE DEF Hit, x
<1> DEFINE A == {m \in 0 .. n : m >= k => Hit(h[m])}
<1>5. ASSUME NEW m \in 0 .. n - 1, m \in A PROVE m + 1 \in A
  <2>1. m + 1 \in 1 .. n /\ m + 1 \in 0 .. n /\ m + 1 - 1 = m
    BY <1>1
  <2>2. h[m + 1] = IF m + 1 = 1 THEN ss[m + 1] ELSE h[m] \o ss[m + 1]
    <3>1. h[m + 1] = IF m + 1 = 1 THEN ss[m + 1] ELSE h[m + 1 - 1] \o ss[m + 1]
      BY <1>2, <2>1 DEF Joins
    <3> QED
      BY <2>1, <3>1
  <2>3. CASE m + 1 < k
    BY <2>1, <2>3
  <2>4. CASE m + 1 = k
    <3>1. Hit(ss[m + 1]) /\ ss[m + 1] \in Seq(S) /\ (m + 1 # 1 => m \in 1 .. n)
      BY <1>1, <1>4, <2>1, <2>4
    <3>2. m + 1 # 1 => h[m] \in Seq(S)
      BY <1>2, <3>1, Zenon DEF Joins
    <3>3. Hit(h[m + 1])
      BY <1>3, <2>2, <3>1, <3>2, Zenon
    <3> QED
      BY <2>1, <3>3, Zenon
  <2>5. CASE m + 1 > k
    <3>1. m >= k /\ m + 1 # 1 /\ m \in 1 .. n
      BY <1>1, <2>5
    <3>2. Hit(h[m]) /\ h[m] \in Seq(S) /\ ss[m + 1] \in Seq(S)
      BY <1>1, <1>2, <1>5, <2>1, <3>1, Zenon DEF Joins
    <3>3. Hit(h[m + 1])
      BY <1>3, <2>2, <3>1, <3>2, Zenon
    <3> QED
      BY <2>1, <3>3, Zenon
  <2> QED
    BY <1>1, <2>3, <2>4, <2>5
<1>6. 0 .. n \subseteq A
  <2>1. 0 \in A
    BY <1>1
  <2> HIDE DEF A
  <2> QED
    BY <1>1, <1>5, <2>1, Induction
<1>7. n \in 0 .. n /\ n >= k
  BY <1>1
<1>8. Hit(h[n])
  BY <1>6, <1>7, Zenon
<1> QED
  BY <1>2, <1>8, Zenon DEF Hit, x
=============================================================================
