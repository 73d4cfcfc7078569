------------------------------ MODULE Induction ------------------------------
(***************************************************************************)
(* Induction over the integers, stated with sets instead of predicates so  *)
(* that it can be cited by name, and what follows from it for functions    *)
(* that are defined by recursion on an interval.                           *)
(***************************************************************************)
EXTENDS Integers, FiniteSetTheorems, SequenceTheorems, WellFoundedInduction, TLAPS

(* Every set of natural numbers has a least element, and a finite one a     *)
(* greatest one (the element with the fewest elements from it upwards).     *)
LEMMA LeastExists ==
    ASSUME NEW S \in SUBSET Nat, S # {}
    PROVE  \E n \in S : \A m \in S : n <= m
<1> DEFINE R == {ss \in Nat \X Nat : ss[1] < ss[2]}
<1>1. IsWellFoundedOn(R, Nat)
  BY NatLessThanWellFounded, Zenon DEF OpToRel
<1>2. PICK n \in S : \A m \in S : <<m, n>> \notin R
  <2> HIDE DEF R
  <2>1. QED  BY <1>1, WFMin
<1>3. ASSUME NEW m \in S PROVE n <= m
  <2>1. <<m, n>> \in Nat \X Nat /\ <<m, n>>[1] = m /\ <<m, n>>[2] = n  OBVIOUS
  <2>2. ~(m < n)  BY <1>2, <2>1
  <2>3. m \in Nat /\ n \in Nat  OBVIOUS
  <2>4. QED  BY <2>2, <2>3
<1>4. QED  BY <1>3

\* Every finite set of numbers has a greatest.
LEMMA GreatestExists ==
    ASSUME NEW S \in SUBSET Nat, IsFiniteSet(S), S # {}
    PROVE  \E n \in S : \A m \in S : m <= n
<1> DEFINE Above(n) == {m \in S : m >= n}
<1>1. \A n \in S : IsFiniteSet(Above(n)) /\ Cardinality(Above(n)) \in Nat
  BY FS_Subset, FS_CardinalityType
<1>2. PICK n \in S : \A m \in S : Cardinality(Above(n)) <= Cardinality(Above(m))
  <2> DEFINE C == {Cardinality(Above(n)) : n \in S}
  <2>1. C \in SUBSET Nat /\ C # {}  BY <1>1
  <2> HIDE DEF C
  <2>2. PICK c \in C : \A d \in C : c <= d  BY <2>1, LeastExists
  <2> USE DEF C
  <2>3. PICK n \in S : c = Cardinality(Above(n))  OBVIOUS
  <2>4. \A m \in S : Cardinality(Above(m)) \in C  OBVIOUS
  <2> HIDE DEF C, Above
  <2>5. QED  BY <2>2, <2>3, <2>4
<1>3. ASSUME NEW m \in S, n < m PROVE FALSE
  <2>1. Above(m) \subseteq Above(n) /\ n \in Above(n) /\ n \notin Above(m)
    <3>1. m \in Nat /\ n \in Nat /\ \A k \in S : k \in Nat  OBVIOUS
    <3>2. \A k \in S : k >= m => k >= n  BY <1>3, <3>1
    <3>3. n >= n /\ ~(n >= m)  BY <1>3, <3>1
    <3>4. QED  BY <3>2, <3>3
  <2> HIDE DEF Above
  <2>2. Cardinality(Above(m)) <= Cardinality(Above(n))
    BY <1>1, <2>1, FS_Subset
  <2>3. Cardinality(Above(n)) <= Cardinality(Above(m))
    BY <1>2
  <2>4. Cardinality(Above(n)) = Cardinality(Above(m))
    BY <1>1, <2>2, <2>3
  <2>5. Above(n) = Above(m)
    BY <1>1, <2>1, <2>4, FS_Subset
  <2>6. QED  BY <2>1, <2>5
<1>4. \A m \in S : m <= n  BY <1>3
<1>5. QED  BY <1>4

\* A set that holds 0 and with each number its successor holds all of them.
LEMMA NatSetInduction ==
    ASSUME NEW S, 0 \in S, \A n \in Nat : n \in S => n + 1 \in S
    PROVE  \A n \in Nat : n \in S
<1> DEFINE T == {n \in Nat : n \notin S}
<1> SUFFICES ASSUME T # {} PROVE FALSE
    OBVIOUS
<1>1. PICK n \in T : \A m \in T : n <= m
    <2>1. T \in SUBSET Nat
        OBVIOUS
    <2> HIDE DEF T
    <2> QED BY <2>1, LeastExists
<1>2. n \in Nat /\ n # 0 /\ n - 1 \in Nat /\ (n - 1) + 1 = n
    OBVIOUS
<1>3. n - 1 \in S
    BY <1>1, <1>2
<1> QED BY <1>2, <1>3

\* The same on an interval of the integers, from its lower end up.
LEMMA IntervalInduction ==
    ASSUME NEW m \in Int, NEW n \in Int, NEW S, m \in S,
           \A i \in m + 1 .. n : i - 1 \in S => i \in S
    PROVE  \A i \in m .. n : i \in S
<1> DEFINE T == {k \in Nat : m + k <= n => m + k \in S}
<1>1. 0 \in T
    OBVIOUS
<1>2. ASSUME NEW k \in Nat, k \in T PROVE k + 1 \in T
    <2> SUFFICES ASSUME m + (k + 1) <= n PROVE m + (k + 1) \in S
        OBVIOUS
    <2>1. m + k \in S
        BY <1>2
    <2>2. m + (k + 1) \in m + 1 .. n /\ (m + (k + 1)) - 1 = m + k
        OBVIOUS
    <2> QED BY <2>1, <2>2
<1> HIDE DEF T
<1>3. \A k \in Nat : k \in T
    BY <1>1, <1>2, NatSetInduction
<1> SUFFICES ASSUME NEW i \in m .. n PROVE i \in S
    OBVIOUS
<1>4. i - m \in Nat /\ m + (i - m) = i
    OBVIOUS
<1> QED BY <1>3, <1>4 DEF T

\* g starts with v at m, applies F[i] on its way to i, and stays within W.
Recurses(g, m, n, v, F, W) ==
    /\ g = [i \in m .. n |-> IF i = m THEN v ELSE F[i][g[i - 1]]]
    /\ \A i \in m .. n : g[i] \in W[i]

\* A function that is defined by recursion on an interval exists, when each step
\* F[i] leads from the values possible at i - 1 to those possible at i.
LEMMA RecursionExists ==
    ASSUME NEW m \in Int, NEW n \in Int, m <= n, NEW W, NEW v, v \in W[m],
           NEW F, \A i \in m + 1 .. n : \A x \in W[i - 1] : F[i][x] \in W[i]
    PROVE  \E g : Recurses(g, m, n, v, F, W)
<1> DEFINE Good(k, g) == /\ g = [i \in m .. k |-> IF i = m THEN v ELSE F[i][g[i - 1]]]
                         /\ \A i \in m .. k : g[i] \in W[i]
           S == {k \in Int : \E g : Good(k, g)}
<1>1. m \in S
    <2> DEFINE g == [i \in m .. m |-> v]
    <2>1. g = [i \in m .. m |-> IF i = m THEN v ELSE F[i][g[i - 1]]]
        OBVIOUS
    <2>2. \A i \in m .. m : g[i] \in W[i]
        OBVIOUS
    <2>3. Good(m, g)
        BY <2>1, <2>2
    <2> HIDE DEF Good, g
    <2> QED BY <2>3
<1>2. ASSUME NEW k \in m + 1 .. n, k - 1 \in S PROVE k \in S
    <2>0. k - 1 \in Int /\ k \in Int /\ k > m
        OBVIOUS
    <2>1. PICK h : Good(k - 1, h)
        <3> HIDE DEF Good
        <3> QED BY <1>2
    <2> DEFINE g == [i \in m .. k |-> IF i = k THEN F[k][h[k - 1]] ELSE h[i]]
    <2>2. h[k - 1] \in W[k - 1]
        <3>1. k - 1 \in m .. k - 1 OBVIOUS
        <3> QED BY <2>1, <3>1
    <2>3. F[k][h[k - 1]] \in W[k]
        BY <2>2
    <2>4. ASSUME NEW i \in m .. k PROVE g[i] \in W[i] /\ g[i] = IF i = m THEN v ELSE F[i][g[i - 1]]
        <3>1. CASE i = k
            <4>1. g[k] = F[k][h[k - 1]] /\ g[k - 1] = h[k - 1] /\ k # m
                OBVIOUS
            <4> QED BY <3>1, <4>1, <2>3
        <3>2. CASE i # k
            <4>1. i \in m .. k - 1 /\ g[i] = h[i]
                BY <3>2
            <4>2. h[i] \in W[i] /\ h[i] = IF i = m THEN v ELSE F[i][h[i - 1]]
                BY <4>1, <2>1
            <4>3. i # m => g[i - 1] = h[i - 1]
                BY <3>2
            <4> QED BY <4>1, <4>2, <4>3
        <3> QED BY <3>1, <3>2
    <2>5. g = [i \in m .. k |-> g[i]]
        OBVIOUS
    <2>6. Good(k, g)
        <3>1. [i \in m .. k |-> g[i]] = [i \in m .. k |-> IF i = m THEN v ELSE F[i][g[i - 1]]]
            <4> HIDE DEF g
            <4> QED BY <2>4
        <3> HIDE DEF g
        <3> QED BY <2>4, <2>5, <3>1
    <2> HIDE DEF Good, g
    <2> QED BY <2>0, <2>6
<1> HIDE DEF S, Good
<1>3. n \in S
    <2>1. n \in m .. n
        OBVIOUS
    <2> QED BY <1>1, <1>2, <2>1, IntervalInduction
<1> QED BY <1>3 DEF S, Good, Recurses

\* A set of numbers from 1 up, without gaps, is an interval.
LEMMA InitialSegment ==
    ASSUME NEW n \in Nat, NEW D \in SUBSET (1 .. n), \A i \in D : \A j \in 1 .. i : j \in D
    PROVE  Cardinality(D) \in 0 .. n /\ D = 1 .. Cardinality(D)
<1> DEFINE T == {i \in 1 .. n + 1 : i \notin D}
<1>1. PICK w \in T : \A m \in T : w <= m
    <2>1. T \in SUBSET Nat /\ n + 1 \in T
        OBVIOUS
    <2> HIDE DEF T
    <2> QED BY <2>1, LeastExists
<1>2. w \in 1 .. n + 1 /\ w \notin D
    BY <1>1
<1>3. ASSUME NEW i \in 1 .. w - 1 PROVE i \in D
    <2>1. i \in 1 .. n + 1 /\ ~(w <= i)
        BY <1>2
    <2> HIDE DEF T
    <2>2. i \notin T
        BY <1>1, <2>1
    <2> USE DEF T
    <2> QED BY <2>1, <2>2
<1>4. ASSUME NEW i \in D PROVE i \in 1 .. w - 1
    <2>1. w \in 1 .. i => w \in D
        OBVIOUS
    <2>2. i \in 1 .. n
        OBVIOUS
    <2> QED BY <1>2, <2>1, <2>2
<1>5. D = 1 .. w - 1
    BY <1>3, <1>4
<1>6. Cardinality(1 .. w - 1) = w - 1
    <2>1. CASE w = 1
        <3>1. 1 .. w - 1 = {}
            BY <2>1
        <3> QED BY <2>1, <3>1, FS_EmptySet
    <2>2. CASE w > 1
        <3>1. 1 \in Int /\ w - 1 \in Int /\ 1 <= w - 1
            BY <1>2, <2>2
        <3>2. Cardinality(1 .. w - 1) = (w - 1) - 1 + 1
            BY <3>1, FS_Interval
        <3> QED BY <1>2, <3>2
    <2> QED BY <1>2, <2>1, <2>2
<1> QED BY <1>2, <1>5, <1>6

-----------------------------------------------------------------------------
(* Sequences. *)

\* Concatenation under a name of its own: the provers do not look into it.
Chained(s, t) == s \o t

\* It does not matter in which order sequences are joined.
LEMMA ChainedIs ==
    ASSUME NEW A
    PROVE  \A s \in Seq(A), t \in Seq(A) :
             /\ Chained(s, t) \in Seq(A)
             /\ \A u \in Seq(A) : Chained(Chained(s, t), u) = Chained(s, Chained(t, u))
<1> SUFFICES ASSUME NEW s \in Seq(A), NEW t \in Seq(A)
             PROVE  /\ Chained(s, t) \in Seq(A)
                    /\ \A u \in Seq(A) : Chained(Chained(s, t), u) = Chained(s, Chained(t, u))
    OBVIOUS
<1>1. Chained(s, t) \in Seq(A)
    BY ConcatProperties DEF Chained
<1>2. ASSUME NEW u \in Seq(A) PROVE (s \o t) \o u = s \o (t \o u)
    BY ConcatAssociative
<1> QED BY <1>1, <1>2 DEF Chained

\* A set that holds the empty sequence and with each sequence all that are longer by one.
LEMMA SequenceInduction ==
    ASSUME NEW A, NEW S, <<>> \in S, \A s \in Seq(A) : s \in S => \A a \in A : Append(s, a) \in S
    PROVE  \A s \in Seq(A) : s \in S
<1> DEFINE T == {n \in Nat : \A s \in Seq(A) : Len(s) = n => s \in S}
<1>1. 0 \in T
    <2>1. \A s \in Seq(A) : Len(s) = 0 => s = <<>>
        BY EmptySeq
    <2> QED BY <2>1
<1>2. ASSUME NEW n \in Nat, n \in T PROVE n + 1 \in T
    <2> SUFFICES ASSUME NEW s \in Seq(A), Len(s) = n + 1 PROVE s \in S
        OBVIOUS
    <2> DEFINE t == SubSeq(s, 1, n)
               a == s[n + 1]
    <2>1. \A i \in 1 .. n : s[i] \in A
        OBVIOUS
    <2>2. t \in Seq(A) /\ Len(t) = n /\ \A i \in 1 .. n : t[i] = s[i]
        BY <2>1, SubSeqProperties
    <2>3. a \in A
        OBVIOUS
    <2> HIDE DEF t
    <2>4. /\ Append(t, a) \in Seq(A) /\ Len(Append(t, a)) = n + 1
          /\ \A i \in 1 .. n : Append(t, a)[i] = t[i]
          /\ Append(t, a)[n + 1] = a
        BY <2>2, <2>3, AppendProperties
    <2>5. Append(t, a) = s
        <3>1. \A i \in 1 .. n + 1 : Append(t, a)[i] = s[i]
            BY <2>2, <2>4
        <3> QED BY <2>4, <3>1, SeqEqual
    <2>6. t \in S
        BY <1>2, <2>2
    <2> QED BY <2>2, <2>3, <2>5, <2>6
<1> HIDE DEF T
<1>3. \A n \in Nat : n \in T
    BY <1>1, <1>2, NatSetInduction
<1> SUFFICES ASSUME NEW s \in Seq(A) PROVE s \in S
    OBVIOUS
<1>4. Len(s) \in Nat
    OBVIOUS
<1> QED BY <1>3, <1>4 DEF T

\* How elements are read: what each makes of a value.
Readers(A, R) == [R -> [A -> R]]

\* g[i] is what reading the first i elements of s makes of v, when F[r][a] is what reading a
\* makes of r; Folded is what reading all of them makes of it.
Folding(g, s, F, v) == g = [i \in 0 .. Len(s) |-> IF i = 0 THEN v ELSE F[g[i - 1]][s[i]]]
Folded(s, F, v)     == (CHOOSE g : Folding(g, s, F, v))[Len(s)]

\* There is one such g, and the values it takes are of the kind that F makes.
LEMMA FoldingExists ==
    ASSUME NEW A, NEW R, NEW F \in Readers(A, R), NEW s \in Seq(A), NEW v \in R
    PROVE  \E g : Folding(g, s, F, v) /\ \A i \in 0 .. Len(s) : g[i] \in R
<1> DEFINE last == Len(s)
           W == [i \in 0 .. last |-> R]
           G == [i \in 0 .. last |-> [r \in R |-> F[r][s[i]]]]
<1>1. last \in Nat
    OBVIOUS
<1>2. \A i \in 1 .. last : s[i] \in A
    OBVIOUS
<1> HIDE DEF last
<1>3. \A i \in 0 + 1 .. last : \A r \in W[i - 1] : G[i][r] \in W[i]
    <2> SUFFICES ASSUME NEW i \in 0 + 1 .. last, NEW r \in W[i - 1] PROVE G[i][r] \in W[i]
        OBVIOUS
    <2>1. i \in 0 .. last /\ i - 1 \in 0 .. last /\ i \in 1 .. last
        BY <1>1
    <2>2. r \in R /\ s[i] \in A
        BY <1>2, <2>1
    <2>3. G[i][r] = F[r][s[i]] /\ W[i] = R
        BY <2>1, <2>2
    <2> HIDE DEF G, W
    <2> QED BY <2>2, <2>3 DEF Readers
<1>4. 0 \in Int /\ last \in Int /\ 0 <= last /\ v \in W[0]
    BY <1>1
<1> HIDE DEF W, G
<1>5. PICK g : Recurses(g, 0, last, v, G, W)
    BY <1>3, <1>4, RecursionExists, Zenon
<1>6. /\ g = [i \in 0 .. last |-> IF i = 0 THEN v ELSE G[i][g[i - 1]]]
      /\ \A i \in 0 .. last : g[i] \in W[i]
    BY <1>5 DEF Recurses
<1>7. \A i \in 0 .. last : g[i] \in R
    BY <1>6 DEF W
<1>8. ASSUME NEW i \in 0 .. last, i # 0 PROVE G[i][g[i - 1]] = F[g[i - 1]][s[i]]
    <2>1. g[i - 1] \in R
        BY <1>1, <1>7, <1>8
    <2> QED BY <2>1 DEF G
<1>9. Folding(g, s, F, v)
    BY <1>6, <1>8 DEF Folding, last
<1> QED BY <1>7, <1>9 DEF last

LEMMA FoldingUnique ==
    ASSUME NEW s, Len(s) \in Nat, NEW F, NEW v, NEW g, NEW h, Folding(g, s, F, v), Folding(h, s, F, v)
    PROVE  g = h
<1> DEFINE last == Len(s)
           S == {i \in 0 .. last : g[i] = h[i]}
<1>1. last \in Nat
    OBVIOUS
<1>2. /\ g = [i \in 0 .. last |-> IF i = 0 THEN v ELSE F[g[i - 1]][s[i]]]
      /\ h = [i \in 0 .. last |-> IF i = 0 THEN v ELSE F[h[i - 1]][s[i]]]
    BY DEF Folding
<1> HIDE DEF last
<1>3. 0 \in S
    BY <1>1, <1>2
<1>4. ASSUME NEW i \in 0 + 1 .. last, i - 1 \in S PROVE i \in S
    <2>1. i \in 0 .. last /\ i # 0
        BY <1>1
    <2>2. g[i] = F[g[i - 1]][s[i]] /\ h[i] = F[h[i - 1]][s[i]]
        BY <1>2, <2>1
    <2> QED BY <1>4, <2>1, <2>2
<1>5. 0 \in Int /\ last \in Int
    BY <1>1
<1> HIDE DEF S
<1>6. \A i \in 0 .. last : i \in S
    BY <1>3, <1>4, <1>5, IntervalInduction, Zenon
<1> QED BY <1>2, <1>6 DEF S

\* Whatever g is found by, its last value is what Folded says.
LEMMA FoldedIs ==
    ASSUME NEW A, NEW R, NEW F \in Readers(A, R), NEW s \in Seq(A), NEW v \in R,
           NEW g, Folding(g, s, F, v)
    PROVE  Folded(s, F, v) = g[Len(s)] /\ \A i \in 0 .. Len(s) : g[i] \in R
<1> DEFINE h == CHOOSE f : Folding(f, s, F, v)
<1>1. Folding(h, s, F, v)
    OBVIOUS
<1> HIDE DEF h
<1>2. Len(s) \in Nat
    OBVIOUS
<1>3. h = g
    BY <1>1, <1>2, FoldingUnique
<1>4. PICK f : Folding(f, s, F, v) /\ \A i \in 0 .. Len(s) : f[i] \in R
    BY FoldingExists
<1>5. f = g
    BY <1>2, <1>4, FoldingUnique
<1> QED BY <1>3, <1>4, <1>5 DEF Folded, h

\* A function that starts with v and reads as F says, as long as it has values to read from, is
\* the one.
StartsAndReads(h, s, F, v, R) ==
    /\ h = [i \in 0 .. Len(s) |-> h[i]] /\ h[0] = v
    /\ \A i \in 1 .. Len(s) : h[i - 1] \in R => h[i] = F[h[i - 1]][s[i]]

LEMMA FoldingFound ==
    ASSUME NEW A, NEW R, NEW F \in Readers(A, R), NEW s \in Seq(A), NEW v \in R,
           NEW h, StartsAndReads(h, s, F, v, R)
    PROVE  Folding(h, s, F, v) /\ Folded(s, F, v) = h[Len(s)]
<1> DEFINE last == Len(s)
           S == {i \in 0 .. last : h[i] \in R}
<1>1. last \in Nat
    OBVIOUS
<1>2. \A i \in 1 .. last : s[i] \in A
    OBVIOUS
<1>3. /\ h = [i \in 0 .. last |-> h[i]] /\ h[0] = v
      /\ \A i \in 1 .. last : h[i - 1] \in R => h[i] = F[h[i - 1]][s[i]]
    BY DEF StartsAndReads
<1> HIDE DEF last
<1>4. 0 \in S
    BY <1>1, <1>3
<1>5. ASSUME NEW i \in 0 + 1 .. last, i - 1 \in S PROVE i \in S
    <2>1. i \in 1 .. last /\ i \in 0 .. last
        BY <1>1
    <2>2. h[i - 1] \in R
        BY <1>5
    <2>3. h[i] = F[h[i - 1]][s[i]] /\ s[i] \in A
        BY <1>2, <1>3, <2>1, <2>2
    <2>4. \A r \in R : \A a \in A : F[r][a] \in R
        BY DEF Readers
    <2>5. F[h[i - 1]][s[i]] \in R
        BY <2>2, <2>3, <2>4
    <2>6. h[i] \in R
        BY <2>3, <2>5
    <2> QED BY <2>1, <2>6
<1>6. 0 \in Int /\ last \in Int
    BY <1>1
<1> HIDE DEF S
<1>7. \A i \in 0 .. last : i \in S
    BY <1>4, <1>5, <1>6, IntervalInduction, Zenon
<1>8. ASSUME NEW i \in 0 .. last PROVE h[i] = IF i = 0 THEN v ELSE F[h[i - 1]][s[i]]
    <2>1. CASE i = 0
        BY <1>3, <2>1
    <2>2. CASE i # 0
        <3>1. i \in 1 .. last /\ i - 1 \in 0 .. last
            BY <1>1, <2>2
        <3> QED BY <1>3, <1>7, <2>2, <3>1 DEF S
    <2> QED BY <2>1, <2>2
<1>9. Folding(h, s, F, v)
    BY <1>3, <1>8 DEF Folding, last
<1> QED BY <1>9, FoldedIs

\* Reading nothing changes nothing, and one element more is read after the others.
LEMMA FoldedSteps ==
    ASSUME NEW A, NEW R, NEW F \in Readers(A, R), NEW v \in R
    PROVE  /\ Folded(<<>>, F, v) = v
           /\ \A s \in Seq(A) : Folded(s, F, v) \in R
           /\ \A s \in Seq(A), a \in A : Folded(Append(s, a), F, v) = F[Folded(s, F, v)][a]
<1>1. ASSUME NEW s \in Seq(A) PROVE Folded(s, F, v) \in R /\ (Len(s) = 0 => Folded(s, F, v) = v)
    <2>1. PICK g : Folding(g, s, F, v)
        BY FoldingExists
    <2>2. Folded(s, F, v) = g[Len(s)] /\ \A i \in 0 .. Len(s) : g[i] \in R
        BY <2>1, FoldedIs
    <2>3. Len(s) \in 0 .. Len(s)
        OBVIOUS
    <2>4. g[0] = v
        BY <2>1 DEF Folding
    <2> QED BY <2>2, <2>3, <2>4
<1>2. Folded(<<>>, F, v) = v
    <2>1. <<>> \in Seq(A) /\ Len(<<>>) = 0
        OBVIOUS
    <2> QED BY <1>1, <2>1
<1>3. ASSUME NEW s \in Seq(A), NEW a \in A PROVE Folded(Append(s, a), F, v) = F[Folded(s, F, v)][a]
    <2> DEFINE t == Append(s, a)
               last == Len(s)
    <2>1. /\ last \in Nat /\ t \in Seq(A) /\ Len(t) = last + 1 /\ t[last + 1] = a
          /\ \A i \in 1 .. last : t[i] = s[i]
        BY AppendProperties
    <2>2. PICK g : Folding(g, s, F, v)
        BY FoldingExists
    <2> DEFINE h == [i \in 0 .. last + 1 |-> IF i = last + 1 THEN F[g[last]][a] ELSE g[i]]
    <2>3. g = [i \in 0 .. last |-> IF i = 0 THEN v ELSE F[g[i - 1]][s[i]]]
        BY <2>2 DEF Folding
    <2> HIDE DEF t, last
    <2>4. h[last + 1] = F[g[last]][a] /\ \A i \in 0 .. last : h[i] = g[i]
        BY <2>1
    <2>5. ASSUME NEW i \in 0 .. last + 1 PROVE h[i] = IF i = 0 THEN v ELSE F[h[i - 1]][t[i]]
        <3>1. CASE i = last + 1
            <4> HIDE DEF h
            <4>1. i # 0 /\ i - 1 = last /\ last \in 0 .. last
                BY <2>1, <3>1
            <4>2. h[i] = F[h[last]][t[i]]
                BY <2>1, <2>4, <3>1, <4>1
            <4> QED BY <4>1, <4>2
        <3>2. CASE i = 0
            <4>1. 0 \in 0 .. last
                BY <2>1
            <4> QED BY <2>3, <2>4, <3>2, <4>1
        <3>3. CASE i # 0 /\ i # last + 1
            <4>1. i \in 1 .. last /\ i \in 0 .. last /\ i - 1 \in 0 .. last
                BY <2>1, <3>3
            <4>2. g[i] = F[g[i - 1]][s[i]]
                BY <2>3, <3>3, <4>1
            <4> QED BY <2>1, <2>4, <3>3, <4>1, <4>2
        <3> QED BY <3>1, <3>2, <3>3
    <2>6. Folding(h, t, F, v)
        <3>1. h = [i \in 0 .. last + 1 |-> h[i]]
            OBVIOUS
        <3> HIDE DEF h
        <3>2. h = [i \in 0 .. last + 1 |-> IF i = 0 THEN v ELSE F[h[i - 1]][t[i]]]
            BY <2>5, <3>1
        <3> QED BY <2>1, <3>2 DEF Folding
    <2>7. Folded(t, F, v) = h[last + 1]
        <3> HIDE DEF h
        <3> QED BY <2>1, <2>6, FoldedIs
    <2>8. Folded(s, F, v) = g[last]
        BY <2>2, FoldedIs DEF last
    <2> QED BY <2>4, <2>7, <2>8 DEF t
<1> QED BY <1>1, <1>2, <1>3

\* Two sequences are read one after the other.
LEMMA FoldedConcat ==
    ASSUME NEW A, NEW R, NEW F \in Readers(A, R), NEW v \in R, NEW s \in Seq(A)
    PROVE  \A t \in Seq(A) : Folded(s \o t, F, v) = Folded(t, F, Folded(s, F, v))
<1> DEFINE w == Folded(s, F, v)
           S == {t \in Seq(A) : Folded(s \o t, F, v) = Folded(t, F, w)}
<1>1. w \in R
    BY FoldedSteps
<1>2. <<>> \in S
    <2>1. s \o <<>> = s /\ <<>> \in Seq(A)
        BY ConcatEmptySeq
    <2>2. Folded(<<>>, F, w) = w
        <3> HIDE DEF w
        <3> QED BY <1>1, FoldedSteps
    <2> QED BY <2>1, <2>2
<1>3. ASSUME NEW t \in Seq(A), t \in S, NEW a \in A PROVE Append(t, a) \in S
    <2>1. /\ s \o t \in Seq(A) /\ Append(t, a) \in Seq(A)
          /\ s \o Append(t, a) = Append(s \o t, a)
        <3>1. s \o t \in Seq(A) /\ Append(t, a) \in Seq(A)
            BY ConcatProperties, AppendProperties
        <3>2. s \o Append(t, a) = Append(s \o t, a)
            <4>1. Append(t, a) = t \o <<a>> /\ Append(s \o t, a) = (s \o t) \o <<a>>
                BY <3>1, AppendIsConcat
            <4>2. <<a>> \in Seq(A)
                OBVIOUS
            <4> QED BY <4>1, <4>2, ConcatAssociative
        <3> QED BY <3>1, <3>2
    <2>2. Folded(Append(s \o t, a), F, v) = F[Folded(s \o t, F, v)][a]
        <3>1. \A u \in Seq(A) : Folded(Append(u, a), F, v) = F[Folded(u, F, v)][a]
            BY FoldedSteps
        <3> QED BY <2>1, <3>1
    <2> HIDE DEF w
    <2>3. Folded(Append(t, a), F, w) = F[Folded(t, F, w)][a]
        BY <1>1, FoldedSteps
    <2>4. Folded(s \o t, F, v) = Folded(t, F, w)
        BY <1>3
    <2>5. Folded(s \o Append(t, a), F, v) = Folded(Append(t, a), F, w)
        BY <2>1, <2>2, <2>3, <2>4
    <2> QED BY <2>1, <2>5
<1> HIDE DEF S
<1>4. \A t \in Seq(A) : t \in S
    BY <1>2, <1>3, SequenceInduction
<1> QED BY <1>4 DEF S
=============================================================================
