--------------------------- MODULE InputLogProofs ---------------------------
(***************************************************************************)
(* The recorder and the converter keep within their buffers, and lose and  *)
(* invent no input; the replay gives what its text meant in the old        *)
(* format: whatever the sizes, the play and the old log.  The meaning of a *)
(* text is what reading it letter by letter folds to (Folded of the module *)
(* Induction); what is appended to a text or dropped from its head is      *)
(* reasoned about with that.                                               *)
(***************************************************************************)
EXTENDS InputLog, Induction

-----------------------------------------------------------------------------
(* Texts. *)

\* "%d" writes between one digit and as many as a count can have.
LEMMA WidthBounds ==
    ASSUME NEW n
    PROVE  Width(n) \in 1 .. MaxDigits
<1> DEFINE D == {k \in 1 .. MaxDigits - 1 : Shifted(n, k) > 0}
<1>1. IsFiniteSet(1 .. MaxDigits - 1) /\ Cardinality(1 .. MaxDigits - 1) = MaxDigits - 1
    <2>1. MaxDigits \in Nat \ {0}
        BY DigitsAssumption
    <2>2. CASE MaxDigits = 1
        <3>1. 1 .. MaxDigits - 1 = {}
            BY <2>2
        <3> QED
            BY <2>2, <3>1, FS_EmptySet
    <2>3. CASE MaxDigits > 1
        BY <2>1, <2>3, FS_Interval
    <2> QED
        BY <2>1, <2>2, <2>3
<1>2. D \subseteq 1 .. MaxDigits - 1
    OBVIOUS
<1>3. IsFiniteSet(D) /\ Cardinality(D) <= MaxDigits - 1
    BY <1>1, <1>2, FS_Subset
<1>4. Cardinality(D) \in Nat
    BY <1>3, FS_CardinalityType
<1>5. Width(n) = Cardinality(D) + 1
    BY DEF Width
<1> QED
    BY <1>3, <1>4, <1>5, DigitsAssumption

\* A number is a text of its width.
LEMMA DigitsIsText ==
    ASSUME NEW n
    PROVE  \E T : Digits(n) \in Seq(T) /\ Len(Digits(n)) \in 1 .. MaxDigits
<1> DEFINE digit(i) == Shifted(n, Width(n) - i) % Base
           T == {digit(i) : i \in 1 .. Width(n)}
<1>1. Width(n) \in Nat /\ Width(n) \in 1 .. MaxDigits
    BY WidthBounds
<1> HIDE DEF digit
<1>2. [i \in 1 .. Width(n) |-> digit(i)] \in Seq(T)
    BY <1>1
<1>3. Len([i \in 1 .. Width(n) |-> digit(i)]) = Width(n)
    BY <1>1
<1>4. Digits(n) = [i \in 1 .. Width(n) |-> digit(i)]
    BY DEF Digits, digit
<1> QED
    BY <1>1, <1>2, <1>3, <1>4

\* A number and a letter are a text of at most one byte more.
LEMMA NumberedIsText ==
    ASSUME NEW n, NEW c
    PROVE  \E T : /\ Digits(n) \o <<c>> \in Seq(T)
                  /\ Len(Digits(n) \o <<c>>) \in 2 .. MaxDigits + 1
<1>1. PICK T : Digits(n) \in Seq(T) /\ Len(Digits(n)) \in 1 .. MaxDigits
    BY DigitsIsText
<1> DEFINE U == T \cup {c}
<1>2. Digits(n) \in Seq(U) /\ <<c>> \in Seq(U) /\ Len(<<c>>) = 1
    BY <1>1
<1>3. /\ Digits(n) \o <<c>> \in Seq(U)
      /\ Len(Digits(n) \o <<c>>) = Len(Digits(n)) + 1
    BY <1>2, ConcatProperties
<1>4. Len(Digits(n) \o <<c>>) \in 2 .. MaxDigits + 1
    BY <1>1, <1>3, DigitsAssumption
<1> QED
    BY <1>3, <1>4

\* A run is a text; a run of one tick is a single byte.
LEMMA RunIsText ==
    ASSUME NEW n, NEW c
    PROVE  /\ \E T : Run(c, n) \in Seq(T)
           /\ Len(Run(c, n)) \in 1 .. MaxDigits + 1
           /\ ~(n > 1) => Run(c, n) = <<c>> /\ Len(Run(c, n)) = 1
<1>1. CASE n > 1
    BY <1>1, NumberedIsText, DigitsAssumption DEF Run
<1>2. CASE ~(n > 1)
    <2>1. Run(c, n) = <<c>>
        BY <1>2 DEF Run
    <2>2. <<c>> \in Seq({c}) /\ Len(<<c>>) = 1
        OBVIOUS
    <2>3. 1 \in 1 .. MaxDigits + 1
        BY DigitsAssumption
    <2>4. Len(Run(c, n)) = 1
        BY <2>1, <2>2
    <2> QED
        BY <2>1, <2>2, <2>3, <2>4, Zenon
<1> QED
    BY <1>1, <1>2

\* Texts over two alphabets can be joined.
LEMMA JoinIsText ==
    ASSUME NEW S, NEW T, NEW s \in Seq(S), NEW t \in Seq(T)
    PROVE  s \o t \in Seq(S \cup T) /\ Len(s \o t) = Len(s) + Len(t)
<1>1. s \in Seq(S \cup T) /\ t \in Seq(S \cup T)
    OBVIOUS
<1> QED
    BY <1>1, ConcatProperties

-----------------------------------------------------------------------------
(* Counts. *)

\* Dividing by the base leaves a digit and a smaller number.
LEMMA DivFacts ==
    ASSUME NEW b \in Nat, b > 1, NEW n \in Nat
    PROVE  /\ n \div b \in Nat /\ n % b \in 0 .. b - 1
           /\ n = b * (n \div b) + (n % b)
           /\ n > 0 => n \div b < n
<1> DEFINE q == n \div b
           r == n % b
<1>1. q \in Int /\ r \in 0 .. b - 1 /\ n = b * q + r
    OBVIOUS
<1> HIDE DEF q, r
<1>2. q >= 0
    BY <1>1
<1>3. n > 0 => q < n
    BY <1>1, <1>2
<1> QED
    BY <1>1, <1>2, <1>3 DEF q, r

\* Division keeps the order.
LEMMA DivMonotone ==
    ASSUME NEW b \in Nat, b > 1, NEW n \in Nat, NEW m \in Nat, n <= m
    PROVE  n \div b <= m \div b
<1> DEFINE q == n \div b
           p == m \div b
<1>1. q \in Nat /\ n % b \in 0 .. b - 1 /\ n = b * q + (n % b)
    BY DivFacts
<1>2. p \in Nat /\ m % b \in 0 .. b - 1 /\ m = b * p + (m % b)
    BY DivFacts
<1> DEFINE r == n % b
           s == m % b
<1> HIDE DEF q, p, r, s
<1>3. q <= p
    BY <1>1, <1>2 DEF r, s
<1> QED
    BY <1>3 DEF q, p

\* What the definition of Shifted recurses on.
Lefts(left, n, k) == left = [i \in 0 .. k |-> IF i = 0 THEN n ELSE left[i - 1] \div Base]

\* There are such functions, and their values are numbers.
LEMMA LeftsExist ==
    ASSUME NEW n \in Nat, NEW k \in Nat
    PROVE  \E left : Lefts(left, n, k) /\ \A i \in 0 .. k : left[i] \in Nat
<1> DEFINE W == [i \in 0 .. k |-> Nat]
           F == [i \in 0 .. k |-> [m \in Nat |-> m \div Base]]
<1>1. 0 \in Int /\ k \in Int /\ 0 <= k /\ n \in W[0]
    OBVIOUS
<1>2. \A i \in 0 + 1 .. k : \A m \in W[i - 1] : F[i][m] \in W[i]
    <2> SUFFICES ASSUME NEW i \in 0 + 1 .. k, NEW m \in W[i - 1] PROVE F[i][m] \in W[i]
        OBVIOUS
    <2>1. i \in 0 .. k /\ i - 1 \in 0 .. k
        OBVIOUS
    <2>2. m \in Nat /\ W[i] = Nat /\ F[i][m] = m \div Base
        BY <2>1
    <2>3. m \div Base \in Nat
        BY <2>2, DivFacts, DigitsAssumption
    <2> QED
        BY <2>2, <2>3
<1> HIDE DEF W, F
<1>3. PICK left : Recurses(left, 0, k, n, F, W)
    BY <1>1, <1>2, RecursionExists, Zenon
<1>4. /\ left = [i \in 0 .. k |-> IF i = 0 THEN n ELSE F[i][left[i - 1]]]
      /\ \A i \in 0 .. k : left[i] \in Nat
    BY <1>3 DEF Recurses, W
<1>5. ASSUME NEW i \in 0 .. k, i # 0 PROVE F[i][left[i - 1]] = left[i - 1] \div Base
    <2>1. left[i - 1] \in Nat
        BY <1>4, <1>5
    <2> QED
        BY <2>1 DEF F
<1> QED
    BY <1>4, <1>5 DEF Lefts

\* Two of them for the same number are the same as far as both go.
LEMMA LeftsAgree ==
    ASSUME NEW n, NEW k \in Nat, NEW j \in 0 .. k, NEW g, Lefts(g, n, k), NEW h, Lefts(h, n, j)
    PROVE  \A i \in 0 .. j : g[i] = h[i]
<1> DEFINE S == {i \in 0 .. j : g[i] = h[i]}
<1>1. /\ \A i \in 0 .. k : g[i] = IF i = 0 THEN n ELSE g[i - 1] \div Base
      /\ \A i \in 0 .. j : h[i] = IF i = 0 THEN n ELSE h[i - 1] \div Base
    BY DEF Lefts
<1>2. 0 \in S
    BY <1>1
<1>3. ASSUME NEW i \in 0 + 1 .. j, i - 1 \in S PROVE i \in S
    <2>1. i \in 0 .. j /\ i \in 0 .. k /\ i # 0
        OBVIOUS
    <2> QED
        BY <1>1, <1>3, <2>1
<1>4. 0 \in Int /\ j \in Int
    OBVIOUS
<1> HIDE DEF S
<1>5. \A i \in 0 .. j : i \in S
    BY <1>2, <1>3, <1>4, IntervalInduction, Zenon
<1> QED
    BY <1>5 DEF S

\* A digit after the other is taken off.
LEMMA ShiftedSteps ==
    ASSUME NEW n \in Nat
    PROVE  /\ Shifted(n, 0) = n
           /\ \A k \in Nat : Shifted(n, k) \in Nat /\ Shifted(n, k + 1) = Shifted(n, k) \div Base
<1> DEFINE left(k) == CHOOSE g : Lefts(g, n, k)
<1>1. \A k \in Nat : Shifted(n, k) = left(k)[k]
    BY Zenon DEF Shifted, Lefts
<1>2. ASSUME NEW k \in Nat PROVE Lefts(left(k), n, k) /\ \A i \in 0 .. k : left(k)[i] \in Nat
    <2>1. PICK g : Lefts(g, n, k) /\ \A i \in 0 .. k : g[i] \in Nat
        BY LeftsExist
    <2>2. Lefts(left(k), n, k)
        BY <2>1
    <2>3. k \in 0 .. k
        OBVIOUS
    <2> HIDE DEF left
    <2>4. \A i \in 0 .. k : left(k)[i] = g[i]
        BY <2>1, <2>2, <2>3, LeftsAgree
    <2> QED
        BY <2>1, <2>2, <2>4
<1> HIDE DEF left
<1>3. Shifted(n, 0) = n
    <2>1. Lefts(left(0), n, 0)
        BY <1>2
    <2>2. left(0)[0] = n
        BY <2>1 DEF Lefts
    <2> QED
        BY <1>1, <2>2
<1>4. ASSUME NEW k \in Nat PROVE Shifted(n, k) \in Nat /\ Shifted(n, k + 1) = Shifted(n, k) \div Base
    <2>1. k + 1 \in Nat /\ k \in 0 .. k + 1 /\ k \in 0 .. k /\ k + 1 \in 0 .. k + 1
        OBVIOUS
    <2>2. Lefts(left(k), n, k) /\ left(k)[k] \in Nat
        BY <1>2, <2>1
    <2>3. Lefts(left(k + 1), n, k + 1)
        BY <1>2, <2>1
    <2>4. left(k + 1)[k] = left(k)[k]
        <3> DEFINE g == left(k + 1)
                   h == left(k)
        <3> HIDE DEF g, h
        <3>1. \A i \in 0 .. k : g[i] = h[i]
            BY <2>1, <2>2, <2>3, LeftsAgree DEF g, h
        <3> QED
            BY <2>1, <3>1 DEF g, h
    <2>5. left(k + 1)[k + 1] = left(k + 1)[k] \div Base
        <3> DEFINE g == left(k + 1)
        <3> HIDE DEF g
        <3>1. g = [i \in 0 .. k + 1 |-> IF i = 0 THEN n ELSE g[i - 1] \div Base]
            BY <2>3 DEF Lefts, g
        <3>2. g[k + 1] = g[k] \div Base
            BY <3>1
        <3> QED
            BY <3>2 DEF g
    <2>6. Shifted(n, k) = left(k)[k] /\ Shifted(n, k + 1) = left(k + 1)[k + 1]
        BY <1>1, <2>1
    <2> QED
        BY <2>2, <2>4, <2>5, <2>6
<1> QED
    BY <1>3, <1>4

\* Smaller numbers stay smaller without their last digits.
LEMMA ShiftedMonotone ==
    ASSUME NEW n \in Nat, NEW m \in Nat, n <= m
    PROVE  \A k \in Nat : Shifted(n, k) <= Shifted(m, k)
<1> DEFINE S == {k \in Nat : Shifted(n, k) <= Shifted(m, k)}
<1>1. 0 \in S
    <2>1. Shifted(n, 0) = n /\ Shifted(m, 0) = m
        BY ShiftedSteps
    <2> QED
        BY <2>1
<1>2. ASSUME NEW k \in Nat, k \in S PROVE k + 1 \in S
    <2>1. /\ Shifted(n, k) \in Nat /\ Shifted(n, k + 1) = Shifted(n, k) \div Base
          /\ Shifted(m, k) \in Nat /\ Shifted(m, k + 1) = Shifted(m, k) \div Base
        BY ShiftedSteps
    <2>2. Shifted(n, k) <= Shifted(m, k)
        BY <1>2
    <2>3. Shifted(n, k) \div Base <= Shifted(m, k) \div Base
        BY <2>1, <2>2, DivMonotone, DigitsAssumption
    <2> QED
        BY <2>1, <2>3
<1> HIDE DEF S
<1>3. \A k \in Nat : k \in S
    BY <1>1, <1>2, NatSetInduction
<1> QED
    BY <1>3 DEF S

\* An int that is less than one with so many digits has no more digits than it.
LEMMA SmallerIsCount ==
    ASSUME NEW n \in Nat, NEW m \in Nat, n <= m, IsCount(m)
    PROVE  IsCount(n)
<1>1. MaxDigits \in Nat
    BY DigitsAssumption
<1>2. Shifted(n, MaxDigits) <= Shifted(m, MaxDigits) /\ Shifted(n, MaxDigits) \in Nat
    BY <1>1, ShiftedMonotone, ShiftedSteps
<1> QED
    BY <1>2 DEF IsCount

\* The digits of a number end where nothing is left of it, and begin with one that is not
\* nought.
LEMMA WidthIs ==
    ASSUME NEW n \in Nat, IsCount(n)
    PROVE  /\ Width(n) \in 1 .. MaxDigits
           /\ Shifted(n, Width(n)) = 0
           /\ n > 0 => Shifted(n, Width(n) - 1) > 0
<1> DEFINE D == {k \in 1 .. MaxDigits - 1 : Shifted(n, k) > 0}
           final == MaxDigits - 1
<1>1. final \in Nat /\ MaxDigits = final + 1
    BY DigitsAssumption
<1>2. \A k \in Nat : Shifted(n, k) \in Nat /\ Shifted(n, k + 1) = Shifted(n, k) \div Base
    BY ShiftedSteps
<1> HIDE DEF final
<1>3. ASSUME NEW k \in Nat, Shifted(n, k) = 0 PROVE Shifted(n, k + 1) = 0
    <2>1. 0 \div Base = 0
        BY DigitsAssumption
    <2> QED
        BY <1>2, <1>3, <2>1
<1>4. ASSUME NEW i \in D PROVE \A j \in 1 .. i : j \in D
    <2> DEFINE S == {k \in Nat : k <= i => Shifted(n, i - k) > 0}
    <2>1. i \in 1 .. final /\ Shifted(n, i) > 0
        BY DEF final
    <2>2. 0 \in S
        BY <2>1
    <2>3. ASSUME NEW k \in Nat, k \in S PROVE k + 1 \in S
        <3> SUFFICES ASSUME k + 1 <= i PROVE Shifted(n, i - (k + 1)) > 0
            OBVIOUS
        <3>1. i - (k + 1) \in Nat /\ (i - (k + 1)) + 1 = i - k /\ k <= i
            BY <2>1
        <3>2. Shifted(n, i - k) > 0
            BY <2>3, <3>1
        <3>3. Shifted(n, i - (k + 1)) # 0
            BY <1>3, <3>1, <3>2
        <3> QED
            BY <1>2, <3>1, <3>3
    <2> HIDE DEF S
    <2>4. \A k \in Nat : k \in S
        BY <2>2, <2>3, NatSetInduction
    <2> SUFFICES ASSUME NEW j \in 1 .. i PROVE j \in D
        OBVIOUS
    <2>5. i - j \in Nat /\ i - j <= i /\ i - (i - j) = j /\ j \in 1 .. final
        BY <1>1, <2>1
    <2>6. Shifted(n, j) > 0
        BY <2>4, <2>5 DEF S
    <2> QED
        BY <2>5, <2>6 DEF final
<1>5. Cardinality(D) \in 0 .. final /\ D = 1 .. Cardinality(D)
    <2>1. D \in SUBSET (1 .. final)
        BY DEF final
    <2> HIDE DEF D
    <2> QED
        BY <1>1, <1>4, <2>1, InitialSegment
<1> DEFINE w == Cardinality(D)
<1>6. Width(n) = w + 1
    BY DEF Width
<1>7. w \in 0 .. final /\ D = 1 .. w
    BY <1>5
<1>8. \A k \in 1 .. final : Shifted(n, k) > 0 <=> k \in D
    BY DEF final
<1> HIDE DEF w, D
<1>9. Width(n) \in 1 .. MaxDigits
    BY <1>1, <1>6, <1>7
<1>10. Shifted(n, w + 1) = 0
    <2>1. CASE w = final
        BY <1>1, <2>1 DEF IsCount
    <2>2. CASE w # final
        <3>1. w + 1 \in 1 .. final /\ w + 1 \notin D
            BY <1>1, <1>7, <2>2
        <3>2. w + 1 \in Nat
            BY <1>7
        <3>3. ~(Shifted(n, w + 1) > 0)
            BY <1>8, <3>1
        <3>4. Shifted(n, w + 1) \in Nat
            BY <1>2, <3>2
        <3> QED
            BY <3>3, <3>4
    <2> QED
        BY <2>1, <2>2
<1>11. ASSUME n > 0 PROVE Shifted(n, w) > 0
    <2>1. CASE w = 0
        BY <1>11, <2>1, ShiftedSteps
    <2>2. CASE w # 0
        <3>1. w \in 1 .. final /\ w \in D
            BY <1>1, <1>7, <2>2
        <3> QED
            BY <1>8, <3>1
    <2> QED
        BY <2>1, <2>2
<1> QED
    BY <1>6, <1>7, <1>9, <1>10, <1>11

\* "%d" writes digits, none before the first that is not nought.
LEMMA DigitsAre ==
    ASSUME NEW n \in Nat, IsCount(n)
    PROVE  /\ Digits(n) \in Seq(Digit) /\ Len(Digits(n)) = Width(n)
           /\ Digits(n)[Width(n)] \in Digit
           /\ n > 0 => Digits(n)[1] # 0
           /\ \A i \in 1 .. Width(n) : Digits(n)[i] = Shifted(n, Width(n) - i) % Base
<1> DEFINE w == Width(n)
           digit(i) == Shifted(n, w - i) % Base
<1>1. w \in 1 .. MaxDigits /\ Shifted(n, w) = 0 /\ (n > 0 => Shifted(n, w - 1) > 0)
    BY WidthIs
<1>2. w \in Nat /\ w >= 1
    BY <1>1, DigitsAssumption
<1>3. Digits(n) = [i \in 1 .. w |-> digit(i)]
    BY DEF Digits
<1> HIDE DEF w
<1>4. ASSUME NEW i \in 1 .. w PROVE digit(i) \in Digit
    <2>1. w - i \in Nat
        BY <1>2
    <2>2. Shifted(n, w - i) \in Nat
        BY <2>1, ShiftedSteps
    <2> QED
        BY <2>2, DivFacts, DigitsAssumption DEF Digit
<1>5. Digits(n) \in Seq(Digit) /\ Len(Digits(n)) = w /\ \A i \in 1 .. w : Digits(n)[i] = digit(i)
    <2> HIDE DEF digit
    <2> QED
        BY <1>2, <1>3, <1>4
<1>6. ASSUME n > 0 PROVE Digits(n)[1] # 0
    <2>1. w - 1 \in Nat /\ 1 \in 1 .. w /\ (w - 1) + 1 = w
        BY <1>2
    <2> DEFINE m == Shifted(n, w - 1)
    <2>2. m \in Nat /\ Shifted(n, w) = m \div Base
        BY <2>1, ShiftedSteps
    <2>3. m > 0 /\ m \div Base = 0
        BY <1>1, <1>6, <2>2
    <2> HIDE DEF m
    <2>4. m = Base * (m \div Base) + (m % Base)
        BY <2>2, DivFacts, DigitsAssumption
    <2>5. m % Base # 0
        BY <2>2, <2>3, <2>4, DigitsAssumption
    <2> QED
        BY <1>5, <2>1, <2>5 DEF m
<1>7. w \in 1 .. w
    BY <1>2
<1> QED
    BY <1>4, <1>5, <1>6, <1>7 DEF w
-----------------------------------------------------------------------------
(* Repetitions. *)

\* A repetition is a sequence of its length.
LEMMA TimesIs ==
    ASSUME NEW S, NEW c \in S, NEW n \in Nat
    PROVE  /\ Times(c, n) \in Seq(S) /\ Len(Times(c, n)) = n
           /\ \A i \in 1 .. n : Times(c, n)[i] = c
BY DEF Times

\* The shortest repetitions.
LEMMA TimesSmall ==
    ASSUME NEW c
    PROVE  Times(c, 0) = <<>> /\ Times(c, 1) = <<c>>
<1>1. c \in {c}
    OBVIOUS
<1>2. Times(c, 0) \in Seq({c}) /\ Len(Times(c, 0)) = 0
    BY <1>1, TimesIs
<1>3. Times(c, 1) \in Seq({c}) /\ Len(Times(c, 1)) = 1 /\ Times(c, 1)[1] = c
    <2>1. 1 \in Nat /\ 1 \in 1 .. 1
        OBVIOUS
    <2> QED
        BY <1>1, <2>1, TimesIs
<1> QED
    BY <1>2, <1>3, EmptySeq

\* Repetitions of one element add up.
LEMMA TimesPlus ==
    ASSUME NEW c, NEW n \in Nat, NEW m \in Nat
    PROVE  Times(c, n) \o Times(c, m) = Times(c, n + m)
<1>1. c \in {c} /\ n + m \in Nat
    OBVIOUS
<1> DEFINE s == Times(c, n)
           t == Times(c, m)
           u == Times(c, n + m)
<1>2. s \in Seq({c}) /\ Len(s) = n /\ t \in Seq({c}) /\ Len(t) = m
    BY <1>1, TimesIs
<1>3. u \in Seq({c}) /\ Len(u) = n + m
    BY <1>1, TimesIs
<1> HIDE DEF s, t, u
<1>4. s \o t \in Seq({c}) /\ Len(s \o t) = n + m
    BY <1>2, ConcatProperties
<1>5. \A i \in 1 .. n + m : (s \o t)[i] = c /\ u[i] = c
    BY <1>3, <1>4
<1>6. s \o t = u
    BY <1>3, <1>4, <1>5, SeqEqual
<1> QED
    BY <1>6 DEF s, t, u

-----------------------------------------------------------------------------
(* Cutting texts. *)

Kept(s, n) == SubSeq(s, 1, n)

\* A sequence is its first elements and the others.
LEMMA DropIs ==
    ASSUME NEW A, NEW s \in Seq(A), NEW k \in 0 .. Len(s)
    PROVE  /\ Kept(s, k) \in Seq(A) /\ Len(Kept(s, k)) = k
           /\ \A i \in 1 .. k : Kept(s, k)[i] = s[i]
           /\ Drop(s, k) \in Seq(A) /\ Len(Drop(s, k)) = Len(s) - k
           /\ \A i \in 1 .. Len(s) - k : Drop(s, k)[i] = s[k + i]
           /\ s = Kept(s, k) \o Drop(s, k)
<1> DEFINE t == Kept(s, k)
           u == Drop(s, k)
<1>1. k \in Nat /\ Len(s) \in Nat /\ k <= Len(s) /\ \A i \in 1 .. Len(s) : s[i] \in A
    OBVIOUS
<1>2. t \in Seq(A) /\ Len(t) = k /\ \A i \in 1 .. k : t[i] = s[i]
    <2>1. \A i \in 1 .. k : s[i] \in A
        BY <1>1
    <2> QED
        BY <1>1, <2>1, SubSeqProperties DEF Kept
<1>3. u \in Seq(A) /\ Len(u) = Len(s) - k /\ \A i \in 1 .. Len(s) - k : u[i] = s[k + i]
    <2>1. \A i \in k + 1 .. Len(s) : s[i] \in A
        BY <1>1
    <2>2. /\ SubSeq(s, k + 1, Len(s)) \in Seq(A)
          /\ Len(SubSeq(s, k + 1, Len(s))) = IF k + 1 <= Len(s) THEN Len(s) - (k + 1) + 1 ELSE 0
          /\ \A i \in 1 .. Len(s) - (k + 1) + 1 : SubSeq(s, k + 1, Len(s))[i] = s[(k + 1) + i - 1]
        BY <1>1, <2>1, SubSeqProperties
    <2> QED
        BY <1>1, <2>2 DEF Drop
<1> HIDE DEF t, u
<1>4. s = t \o u
    <2>1. t \o u \in Seq(A) /\ Len(t \o u) = Len(s)
        BY <1>1, <1>2, <1>3, ConcatProperties
    <2>2. ASSUME NEW i \in 1 .. Len(s) PROVE s[i] = (t \o u)[i]
        <3>1. (t \o u)[i] = IF i <= k THEN t[i] ELSE u[i - k]
            BY <1>1, <1>2, <1>3, ConcatProperties
        <3>2. CASE i <= k
            <4>1. i \in 1 .. k
                BY <1>1, <3>2
            <4> QED
                BY <1>2, <3>1, <3>2, <4>1
        <3>3. CASE i > k
            <4>1. i - k \in 1 .. Len(s) - k /\ k + (i - k) = i
                BY <1>1, <3>3
            <4> QED
                BY <1>1, <1>3, <3>1, <3>3, <4>1
        <3>4. i <= k \/ i > k
            BY <1>1
        <3> QED
            BY <3>2, <3>3, <3>4, Zenon
    <2> QED
        BY <2>1, <2>2, SeqEqual
<1> QED
    BY <1>2, <1>3, <1>4 DEF t, u

\* A sequence is its first element and the others.
LEMMA HeadIs ==
    ASSUME NEW A, NEW s \in Seq(A), s # <<>>
    PROVE  /\ s[1] \in A /\ Drop(s, 1) \in Seq(A) /\ Drop(s, 1) = Tail(s)
           /\ s = <<s[1]>> \o Drop(s, 1)
<1>1. Len(s) \in Nat /\ Len(s) >= 1 /\ 1 \in 0 .. Len(s) /\ 1 \in 1 .. Len(s)
    BY EmptySeq
<1>0. \A k \in 0 .. Len(s) :
        /\ Kept(s, k) \in Seq(A) /\ Len(Kept(s, k)) = k
        /\ \A i \in 1 .. k : Kept(s, k)[i] = s[i]
        /\ Drop(s, k) \in Seq(A) /\ s = Kept(s, k) \o Drop(s, k)
    BY DropIs
<1> DEFINE x == Kept(s, 1)
<1>2. x \in Seq(A) /\ Len(x) = 1 /\ x[1] = s[1] /\ Drop(s, 1) \in Seq(A) /\ s = x \o Drop(s, 1)
    <2>1. 1 \in 1 .. 1
        OBVIOUS
    <2> QED
        BY <1>0, <1>1, <2>1
<1> HIDE DEF x
<1>3. x = <<s[1]>>
    BY <1>2
<1>4. Drop(s, 1) = Tail(s)
    BY <1>1, TailIsSubSeq DEF Drop
<1> QED
    BY <1>1, <1>2, <1>3, <1>4

-----------------------------------------------------------------------------
(* Reading a text: Number, Meaning and OldMeaning are recursive functions; each is what    *)
(* Folded makes of the text with one of these.                                             *)
Symbols  == Digit \cup Letters
Readings == [count : Nat, inputs : Seq(Letters)]
Empty    == [count |-> 0, inputs |-> <<>>]

NumberReads == [m \in Nat |-> [a \in Digit |-> Base * m + a]]
NewReads ==
    [m \in Readings |-> [a \in Symbols |->
        IF a \in Digit THEN [m EXCEPT !.count = Base * @ + a]
        ELSE [count |-> 0,
              inputs |-> m.inputs \o Times(a, IF m.count = 0 THEN 1 ELSE m.count)]]]
OldReads ==
    [m \in Readings |-> [a \in Symbols |->
        IF a \in Digit THEN [m EXCEPT !.count = Base * @ + a]
        ELSE [count |-> 0, inputs |-> (m.inputs \o Times(Idle, m.count)) \o <<a>>]]]

\* A digit more makes a number of a number.
LEMMA NumberReader == NumberReads \in Readers(Digit, Nat)
<1>1. \A m \in Nat : \A a \in Digit : Base * m + a \in Nat
    BY DigitsAssumption DEF Digit
<1> QED
    BY <1>1 DEF NumberReads, Readers

\* The parts of a reading.
LEMMA ReadingIs ==
    /\ \A m \in Readings : /\ m.count \in Nat /\ m.inputs \in Seq(Letters)
                           /\ m = [count |-> m.count, inputs |-> m.inputs]
    /\ \A n \in Nat : \A s \in Seq(Letters) : [count |-> n, inputs |-> s] \in Readings
    /\ \A n \in Nat : LET m == [count |-> n, inputs |-> <<>>]
                     IN  m \in Readings /\ m.count = n /\ m.inputs = <<>>
    /\ Empty \in Readings /\ Empty.count = 0 /\ Empty.inputs = <<>> /\ Idle \in Letters
BY DEF Readings, Empty, Letters

\* A digit is counted, whatever the format.
LEMMA DigitRead ==
    ASSUME NEW m \in Readings, NEW a \in Digit
    PROVE  /\ Base * m.count + a \in Nat
           /\ [m EXCEPT !.count = Base * @ + a] = [count |-> Base * m.count + a, inputs |-> m.inputs]
           /\ a \in Symbols
<1>1. m.count \in Nat
    BY DEF Readings
<1>2. Base * m.count + a \in Nat
    BY <1>1, DigitsAssumption DEF Digit
<1> QED
    BY <1>2 DEF Readings, Symbols

\* A symbol more makes a reading of a reading.
LEMMA NewReader == NewReads \in Readers(Symbols, Readings)
<1> DEFINE f(m, a) == IF a \in Digit THEN [m EXCEPT !.count = Base * @ + a]
                      ELSE [count |-> 0,
                            inputs |-> m.inputs \o Times(a, IF m.count = 0 THEN 1 ELSE m.count)]
<1>1. ASSUME NEW m \in Readings, NEW a \in Symbols PROVE f(m, a) \in Readings
    <2>1. CASE a \in Digit
        <3>1. [count |-> Base * m.count + a, inputs |-> m.inputs] \in Readings
            BY <2>1, DigitRead, ReadingIs
        <3> QED
            BY <2>1, <3>1, DigitRead
    <2>2. CASE a \notin Digit
        <3> DEFINE n == IF m.count = 0 THEN 1 ELSE m.count
        <3>1. n \in Nat /\ a \in Letters /\ m.inputs \in Seq(Letters)
            BY <2>2 DEF Readings, Symbols
        <3>2. Times(a, n) \in Seq(Letters)
            <4> HIDE DEF n
            <4> QED
                BY <3>1, TimesIs
        <3>3. m.inputs \o Times(a, n) \in Seq(Letters)
            BY <3>1, <3>2, ConcatProperties
        <3> HIDE DEF n
        <3>4. [count |-> 0, inputs |-> m.inputs \o Times(a, n)] \in Readings
            BY <3>3, ReadingIs
        <3> QED
            BY <2>2, <3>4 DEF n
    <2> QED
        BY <2>1, <2>2
<1>2. NewReads = [m \in Readings |-> [a \in Symbols |-> f(m, a)]]
    BY DEF NewReads
<1> HIDE DEF f
<1> QED
    BY <1>1, <1>2 DEF Readers

\* The same for the old format.
LEMMA OldReader == OldReads \in Readers(Symbols, Readings)
<1> DEFINE f(m, a) == IF a \in Digit THEN [m EXCEPT !.count = Base * @ + a]
                      ELSE [count |-> 0, inputs |-> (m.inputs \o Times(Idle, m.count)) \o <<a>>]
<1>1. ASSUME NEW m \in Readings, NEW a \in Symbols PROVE f(m, a) \in Readings
    <2>1. CASE a \in Digit
        <3>1. [count |-> Base * m.count + a, inputs |-> m.inputs] \in Readings
            BY <2>1, DigitRead, ReadingIs
        <3> QED
            BY <2>1, <3>1, DigitRead
    <2>2. CASE a \notin Digit
        <3>1. m.count \in Nat /\ a \in Letters /\ m.inputs \in Seq(Letters) /\ Idle \in Letters
            BY <2>2, ReadingIs DEF Symbols
        <3>2. Times(Idle, m.count) \in Seq(Letters)
            BY <3>1, TimesIs
        <3>3. <<a>> \in Seq(Letters)
            BY <3>1
        <3>4. (m.inputs \o Times(Idle, m.count)) \o <<a>> \in Seq(Letters)
            BY <3>1, <3>2, <3>3, ConcatProperties
        <3>5. [count |-> 0, inputs |-> (m.inputs \o Times(Idle, m.count)) \o <<a>>] \in Readings
            BY <3>4, ReadingIs
        <3> QED
            BY <2>2, <3>5
    <2> QED
        BY <2>1, <2>2
<1>2. OldReads = [m \in Readings |-> [a \in Symbols |-> f(m, a)]]
    BY DEF OldReads
<1> HIDE DEF f
<1> QED
    BY <1>1, <1>2 DEF Readers

\* What reading a symbol makes of a reading.
LEMMA NewReadsOne ==
    ASSUME NEW m \in Readings
    PROVE  /\ \A a \in Digit :
                NewReads[m][a] = [count |-> Base * m.count + a, inputs |-> m.inputs]
           /\ \A a \in Letters :
                NewReads[m][a] = [count |-> 0,
                                  inputs |-> m.inputs \o Times(a, IF m.count = 0 THEN 1 ELSE m.count)]
<1>1. ASSUME NEW a \in Digit
      PROVE  NewReads[m][a] = [count |-> Base * m.count + a, inputs |-> m.inputs]
    <2>1. NewReads[m][a] = [m EXCEPT !.count = Base * @ + a]
        BY DEF NewReads, Symbols
    <2> QED
        BY <2>1, DigitRead
<1>2. ASSUME NEW a \in Letters
      PROVE  NewReads[m][a] = [count |-> 0,
                               inputs |-> m.inputs \o Times(a, IF m.count = 0 THEN 1 ELSE m.count)]
    <2>1. a \in Symbols /\ a \notin Digit
        BY LettersAssumption DEF Symbols
    <2> QED
        BY <2>1 DEF NewReads
<1> QED
    BY <1>1, <1>2

\* A digit and a letter read in the old format.
LEMMA OldReadsOne ==
    ASSUME NEW m \in Readings
    PROVE  /\ \A a \in Digit :
                OldReads[m][a] = [count |-> Base * m.count + a, inputs |-> m.inputs]
           /\ \A a \in Letters :
                OldReads[m][a] = [count |-> 0, inputs |-> (m.inputs \o Times(Idle, m.count)) \o <<a>>]
<1>1. ASSUME NEW a \in Digit
      PROVE  OldReads[m][a] = [count |-> Base * m.count + a, inputs |-> m.inputs]
    <2>1. OldReads[m][a] = [m EXCEPT !.count = Base * @ + a]
        BY DEF OldReads, Symbols
    <2> QED
        BY <2>1, DigitRead
<1>2. ASSUME NEW a \in Letters
      PROVE  OldReads[m][a] = [count |-> 0, inputs |-> (m.inputs \o Times(Idle, m.count)) \o <<a>>]
    <2>1. a \in Symbols /\ a \notin Digit
        BY LettersAssumption DEF Symbols
    <2> QED
        BY <2>1 DEF OldReads
<1> QED
    BY <1>1, <1>2

-----------------------------------------------------------------------------
(* The recursive functions of the model, and Folded. *)

NewReading(s) == Folded(s, NewReads, Empty)
OldFrom(m, s) == Folded(s, OldReads, m).inputs \o Times(Idle, Folded(s, OldReads, m).count)

\* A text of the new format in which every count has its letter.
Settled(s) == NewReading(s).count = 0

\* Number is the reading of the digits at the head of a text.
LEMMA NumberIs ==
    ASSUME NEW s \in Seq(Symbols), NEW k \in 0 .. Len(s), Kept(s, k) \in Seq(Digit)
    PROVE  Number(s, k) = Folded(Kept(s, k), NumberReads, 0) /\ Number(s, k) \in Nat
<1> DEFINE t == Kept(s, k)
           Values(g) == g = [i \in 0 .. k |-> IF i = 0 THEN 0 ELSE Base * g[i - 1] + s[i]]
<1>1. t \in Seq(Digit) /\ Len(t) = k /\ (\A i \in 1 .. k : t[i] = s[i]) /\ k \in Nat
    <2>1. k \in Nat /\ Len(t) = k /\ \A i \in 1 .. k : t[i] = s[i]
        <3>1. k \in Nat
            OBVIOUS
        <3>2. Len(Kept(s, k)) = k /\ \A i \in 1 .. k : Kept(s, k)[i] = s[i]
            BY DropIs, Zenon
        <3> QED
            BY <3>1, <3>2
    <2> QED
        BY <2>1
<1> HIDE DEF t
<1>2. ASSUME NEW g, Folding(g, t, NumberReads, 0), \A i \in 0 .. k : g[i] \in Nat PROVE Values(g)
    <2>1. ASSUME NEW i \in 0 .. k, i # 0 PROVE NumberReads[g[i - 1]][t[i]] = Base * g[i - 1] + s[i]
        <3>1. i \in 1 .. k /\ i - 1 \in 0 .. k
            BY <2>1
        <3>2. g[i - 1] \in Nat /\ t[i] \in Digit /\ t[i] = s[i]
            BY <1>1, <1>2, <3>1
        <3> QED
            BY <3>2 DEF NumberReads
    <2>2. g = [i \in 0 .. k |-> IF i = 0 THEN 0 ELSE NumberReads[g[i - 1]][t[i]]]
        BY <1>1, <1>2 DEF Folding
    <2> QED
        BY <2>1, <2>2
<1>3. PICK g : Folding(g, t, NumberReads, 0) /\ \A i \in 0 .. k : g[i] \in Nat
    <2>1. 0 \in Nat
        OBVIOUS
    <2> QED
        BY <1>1, <2>1, NumberReader, FoldingExists
<1> DEFINE h == CHOOSE f : Values(f)
<1>4. Values(h)
    BY <1>2, <1>3
<1>5. Number(s, k) = h[k]
    BY DEF Number
<1> HIDE DEF h
<1>6. h = [i \in 0 .. Len(t) |-> h[i]] /\ h[0] = 0
    BY <1>1, <1>4
<1>7. ASSUME NEW i \in 1 .. Len(t), h[i - 1] \in Nat PROVE h[i] = NumberReads[h[i - 1]][t[i]]
    <2>1. i \in 0 .. k /\ i \in 1 .. k /\ i # 0
        BY <1>1
    <2>2. t[i] \in Digit /\ t[i] = s[i]
        BY <1>1, <2>1
    <2>3. h[i] = Base * h[i - 1] + s[i]
        BY <1>4, <2>1
    <2> QED
        BY <1>7, <2>2, <2>3 DEF NumberReads
<1> HIDE DEF Values
<1>8. Folding(h, t, NumberReads, 0) /\ Folded(t, NumberReads, 0) = h[Len(t)]
    <2>1. StartsAndReads(h, t, NumberReads, 0, Nat)
        BY <1>6, <1>7 DEF StartsAndReads
    <2> DEFINE R == Nat
               v == 0
    <2>2. v \in R /\ NumberReads \in Readers(Digit, R) /\ StartsAndReads(h, t, NumberReads, v, R)
        BY <2>1, NumberReader
    <2> HIDE DEF R, v
    <2>3. Folding(h, t, NumberReads, v) /\ Folded(t, NumberReads, v) = h[Len(t)]
        BY <1>1, <2>2, FoldingFound
    <2> QED
        BY <2>3 DEF v
<1>9. h[k] \in Nat
    <2>1. 0 \in Nat /\ k \in 0 .. Len(t)
        BY <1>1
    <2> QED
        BY <1>1, <1>8, <2>1, NumberReader, FoldedIs
<1> QED
    BY <1>1, <1>5, <1>8, <1>9 DEF t

\* Meaning reads a text of the new format.
LEMMA MeaningIs ==
    ASSUME NEW s \in Seq(Symbols)
    PROVE  Meaning(s) = NewReading(s).inputs
<1> DEFINE Reads(m, a) ==
             IF a \in Digit THEN [m EXCEPT !.count = Base * @ + a]
             ELSE [count |-> 0,
                   inputs |-> m.inputs \o Times(a, IF m.count = 0 THEN 1 ELSE m.count)]
           Values(g) == g = [i \in 0 .. Len(s) |->
             IF i = 0 THEN [count |-> 0, inputs |-> <<>>] ELSE Reads(g[i - 1], s[i])]
<1>1. \A m \in Readings : \A a \in Symbols : NewReads[m][a] = Reads(m, a)
    BY DEF NewReads
<1>2. Meaning(s) = (CHOOSE g : Values(g))[Len(s)].inputs
    BY Zenon DEF Meaning
<1> HIDE DEF Reads
<1>3. Len(s) \in Nat /\ (\A i \in 1 .. Len(s) : s[i] \in Symbols) /\ Empty \in Readings
    BY ReadingIs
<1>4. PICK g : Folding(g, s, NewReads, Empty) /\ \A i \in 0 .. Len(s) : g[i] \in Readings
    BY <1>3, NewReader, FoldingExists
<1>5. Values(g)
    <2>1. ASSUME NEW i \in 0 .. Len(s), i # 0 PROVE NewReads[g[i - 1]][s[i]] = Reads(g[i - 1], s[i])
        <3>1. i \in 1 .. Len(s) /\ i - 1 \in 0 .. Len(s)
            BY <1>3, <2>1
        <3> QED
            BY <1>1, <1>3, <1>4, <3>1
    <2>2. g = [i \in 0 .. Len(s) |-> IF i = 0 THEN Empty ELSE NewReads[g[i - 1]][s[i]]]
        BY <1>4 DEF Folding
    <2> QED
        BY <2>1, <2>2 DEF Empty
<1> DEFINE h == CHOOSE f : Values(f)
<1>6. Values(h)
    BY <1>5
<1>7. Meaning(s) = h[Len(s)].inputs
    BY <1>2
<1> HIDE DEF h
<1>8. h = [i \in 0 .. Len(s) |-> h[i]] /\ h[0] = Empty
    BY <1>3, <1>6 DEF Empty
<1>9. ASSUME NEW i \in 1 .. Len(s), h[i - 1] \in Readings PROVE h[i] = NewReads[h[i - 1]][s[i]]
    <2>1. i \in 0 .. Len(s) /\ i # 0
        BY <1>3
    <2>2. h[i] = Reads(h[i - 1], s[i])
        BY <1>6, <2>1
    <2> QED
        BY <1>1, <1>3, <1>9, <2>2
<1> HIDE DEF Values
<1>10. Folded(s, NewReads, Empty) = h[Len(s)]
    <2>1. StartsAndReads(h, s, NewReads, Empty, Readings)
        BY <1>8, <1>9 DEF StartsAndReads
    <2> QED
        BY <1>3, <2>1, NewReader, FoldingFound
<1> QED
    BY <1>7, <1>10 DEF NewReading

\* OldMeaning reads one of the old format; the count that it ends with is idle ticks too.
LEMMA OldMeaningIs ==
    ASSUME NEW s \in Seq(Symbols)
    PROVE  OldMeaning(s) = OldFrom(Empty, s)
<1> DEFINE Reads(m, a) ==
             IF a \in Digit THEN [m EXCEPT !.count = Base * @ + a]
             ELSE [count |-> 0, inputs |-> (m.inputs \o Times(Idle, m.count)) \o <<a>>]
           Values(g) == g = [i \in 0 .. Len(s) |->
             IF i = 0 THEN [count |-> 0, inputs |-> <<>>] ELSE Reads(g[i - 1], s[i])]
<1>1. \A m \in Readings : \A a \in Symbols : OldReads[m][a] = Reads(m, a)
    BY DEF OldReads
<1>2. OldMeaning(s) = (CHOOSE g : Values(g))[Len(s)].inputs
                          \o Times(Idle, (CHOOSE g : Values(g))[Len(s)].count)
    BY Zenon DEF OldMeaning
<1> HIDE DEF Reads
<1>3. Len(s) \in Nat /\ (\A i \in 1 .. Len(s) : s[i] \in Symbols) /\ Empty \in Readings
    BY ReadingIs
<1>4. PICK g : Folding(g, s, OldReads, Empty) /\ \A i \in 0 .. Len(s) : g[i] \in Readings
    BY <1>3, OldReader, FoldingExists
<1>5. Values(g)
    <2>1. ASSUME NEW i \in 0 .. Len(s), i # 0 PROVE OldReads[g[i - 1]][s[i]] = Reads(g[i - 1], s[i])
        <3>1. i \in 1 .. Len(s) /\ i - 1 \in 0 .. Len(s)
            BY <1>3, <2>1
        <3> QED
            BY <1>1, <1>3, <1>4, <3>1
    <2>2. g = [i \in 0 .. Len(s) |-> IF i = 0 THEN Empty ELSE OldReads[g[i - 1]][s[i]]]
        BY <1>4 DEF Folding
    <2> QED
        BY <2>1, <2>2 DEF Empty
<1> DEFINE h == CHOOSE f : Values(f)
<1>6. Values(h)
    BY <1>5
<1>7. OldMeaning(s) = h[Len(s)].inputs \o Times(Idle, h[Len(s)].count)
    BY <1>2
<1> HIDE DEF h
<1>8. h = [i \in 0 .. Len(s) |-> h[i]] /\ h[0] = Empty
    BY <1>3, <1>6 DEF Empty
<1>9. ASSUME NEW i \in 1 .. Len(s), h[i - 1] \in Readings PROVE h[i] = OldReads[h[i - 1]][s[i]]
    <2>1. i \in 0 .. Len(s) /\ i # 0
        BY <1>3
    <2>2. h[i] = Reads(h[i - 1], s[i])
        BY <1>6, <2>1
    <2> QED
        BY <1>1, <1>3, <1>9, <2>2
<1> HIDE DEF Values
<1>10. Folded(s, OldReads, Empty) = h[Len(s)]
    <2>1. StartsAndReads(h, s, OldReads, Empty, Readings)
        BY <1>8, <1>9 DEF StartsAndReads
    <2> QED
        BY <1>3, <2>1, OldReader, FoldingFound
<1> QED
    BY <1>7, <1>10 DEF OldFrom

-----------------------------------------------------------------------------
(* What numbers and runs mean. *)

\* Digits are counted and leave the inputs alone, in both formats.
LEMMA DigitsRead ==
    ASSUME NEW F \in {NewReads, OldReads}, NEW m \in Readings
    PROVE  \A s \in Seq(Digit) :
             Folded(s, F, m) = [count |-> Folded(s, NumberReads, m.count), inputs |-> m.inputs]
<1> DEFINE S == {s \in Seq(Digit) :
                   Folded(s, F, m) = [count |-> Folded(s, NumberReads, m.count), inputs |-> m.inputs]}
<1>1. F \in Readers(Symbols, Readings)
    BY NewReader, OldReader
<1>2. \A r \in Readings : \A a \in Digit : F[r][a] = [count |-> Base * r.count + a, inputs |-> r.inputs]
    <2> SUFFICES ASSUME NEW r \in Readings, NEW a \in Digit
                 PROVE  F[r][a] = [count |-> Base * r.count + a, inputs |-> r.inputs]
        OBVIOUS
    <2>1. /\ NewReads[r][a] = [count |-> Base * r.count + a, inputs |-> r.inputs]
          /\ OldReads[r][a] = [count |-> Base * r.count + a, inputs |-> r.inputs]
        BY NewReadsOne, OldReadsOne
    <2> QED
        BY <2>1
<1>3. m.count \in Nat /\ m.inputs \in Seq(Letters) /\ m = [count |-> m.count, inputs |-> m.inputs]
    BY ReadingIs
<1> DEFINE c == m.count
<1> HIDE DEF c
<1>4. /\ Folded(<<>>, NumberReads, c) = c
      /\ \A s \in Seq(Digit) : Folded(s, NumberReads, c) \in Nat
      /\ \A s \in Seq(Digit), a \in Digit :
           Folded(Append(s, a), NumberReads, c) = NumberReads[Folded(s, NumberReads, c)][a]
    <2> DEFINE N == Nat
    <2>1. c \in N /\ NumberReads \in Readers(Digit, N)
        BY <1>3, NumberReader DEF c
    <2> HIDE DEF N
    <2>2. /\ Folded(<<>>, NumberReads, c) = c
          /\ \A s \in Seq(Digit) : Folded(s, NumberReads, c) \in N
          /\ \A s \in Seq(Digit), a \in Digit :
               Folded(Append(s, a), NumberReads, c) = NumberReads[Folded(s, NumberReads, c)][a]
        BY <2>1, FoldedSteps
    <2> QED
        BY <2>2 DEF N
<1>5. /\ Folded(<<>>, F, m) = m
      /\ \A s \in Seq(Symbols), a \in Symbols : Folded(Append(s, a), F, m) = F[Folded(s, F, m)][a]
    BY <1>1, FoldedSteps
<1>6. <<>> \in S
    BY <1>3, <1>4, <1>5 DEF c
<1>7. ASSUME NEW s \in Seq(Digit), s \in S, NEW a \in Digit PROVE Append(s, a) \in S
    <2> DEFINE n == Folded(s, NumberReads, c)
    <2>1. n \in Nat /\ Folded(Append(s, a), NumberReads, c) = Base * n + a
        BY <1>4 DEF NumberReads
    <2>2. Folded(s, F, m) = [count |-> n, inputs |-> m.inputs]
        BY <1>7 DEF c
    <2>3. s \in Seq(Symbols) /\ a \in Symbols /\ Append(s, a) \in Seq(Digit)
        BY AppendProperties DEF Symbols
    <2> HIDE DEF n
    <2>4. [count |-> n, inputs |-> m.inputs] \in Readings
        BY <1>3, <2>1, ReadingIs
    <2>5. F[Folded(s, F, m)][a] = [count |-> Base * n + a, inputs |-> m.inputs]
        <3> DEFINE r == [count |-> n, inputs |-> m.inputs]
        <3>1. r.count = n /\ r.inputs = m.inputs
            OBVIOUS
        <3>2. F[r][a] = [count |-> Base * r.count + a, inputs |-> r.inputs]
            <4> HIDE DEF r
            <4> QED
                BY <1>2, <2>4 DEF r
        <3> QED
            BY <2>2, <3>1, <3>2
    <2>6. Folded(Append(s, a), F, m) = [count |-> Folded(Append(s, a), NumberReads, c), inputs |-> m.inputs]
        BY <1>5, <2>1, <2>3, <2>5
    <2> QED
        BY <2>3, <2>6 DEF c
<1> HIDE DEF S
<1>8. \A s \in Seq(Digit) : s \in S
    BY <1>6, <1>7, SequenceInduction
<1> QED
    BY <1>8 DEF S

\* The number that was written is read.
LEMMA DigitsNumber ==
    ASSUME NEW n \in Nat, IsCount(n)
    PROVE  Folded(Digits(n), NumberReads, 0) = n
<1> DEFINE w == Width(n)
           s == Digits(n)
           h == [i \in 0 .. w |-> Shifted(n, w - i)]
<1>1. w \in Nat /\ w >= 1 /\ Shifted(n, w) = 0
    BY WidthIs, DigitsAssumption
<1>2. s \in Seq(Digit) /\ Len(s) = w /\ \A i \in 1 .. w : s[i] = Shifted(n, w - i) % Base
    BY DigitsAre
<1> HIDE DEF w, s
<1>3. h = [i \in 0 .. w |-> h[i]] /\ h[0] = 0 /\ h[w] = n
    BY <1>1, ShiftedSteps
<1>4. ASSUME NEW i \in 1 .. w PROVE h[i] = NumberReads[h[i - 1]][s[i]]
    <2> DEFINE r == Shifted(n, w - i)
    <2>1. w - i \in Nat /\ (w - i) + 1 = w - (i - 1) /\ i \in 0 .. w /\ i - 1 \in 0 .. w
        BY <1>1
    <2>2. r \in Nat /\ Shifted(n, w - (i - 1)) = r \div Base
        BY <2>1, ShiftedSteps
    <2>3. h[i] = r /\ h[i - 1] = r \div Base /\ s[i] = r % Base
        BY <1>2, <2>1, <2>2
    <2> HIDE DEF r, h
    <2>4. r \div Base \in Nat /\ r % Base \in Digit /\ r = Base * (r \div Base) + (r % Base)
        BY <2>2, DivFacts, DigitsAssumption DEF Digit
    <2>5. NumberReads[r \div Base][r % Base] = Base * (r \div Base) + (r % Base)
        <3> DEFINE q == r \div Base
                   d == r % Base
        <3>1. q \in Nat /\ d \in Digit
            BY <2>4
        <3> HIDE DEF q, d
        <3>2. NumberReads[q][d] = Base * q + d
            BY <3>1 DEF NumberReads
        <3> QED
            BY <3>2 DEF q, d
    <2> QED
        BY <2>3, <2>4, <2>5
<1> HIDE DEF h
<1> DEFINE R == Nat
           v == 0
<1>5. StartsAndReads(h, s, NumberReads, v, R)
    BY <1>2, <1>3, <1>4 DEF StartsAndReads
<1>6. v \in R /\ NumberReads \in Readers(Digit, R)
    BY NumberReader
<1> HIDE DEF R, v
<1>7. Folded(s, NumberReads, v) = h[Len(s)]
    BY <1>2, <1>5, <1>6, FoldingFound
<1> QED
    BY <1>2, <1>3, <1>7 DEF s, v

\* A run is read as its ticks, after whatever was read before it.
LEMMA NewRun ==
    ASSUME NEW m \in Readings, m.count = 0, NEW c \in Letters, NEW n \in Nat \ {0}, IsCount(n)
    PROVE  /\ Run(c, n) \in Seq(Symbols)
           /\ Folded(Run(c, n), NewReads, m) = [count |-> 0, inputs |-> m.inputs \o Times(c, n)]
<1>1. NewReads \in Readers(Symbols, Readings) /\ c \in Symbols
    BY NewReader DEF Symbols
<1>2. /\ Folded(<<>>, NewReads, m) = m
      /\ \A s \in Seq(Symbols), a \in Symbols :
           Folded(Append(s, a), NewReads, m) = NewReads[Folded(s, NewReads, m)][a]
    BY <1>1, FoldedSteps
<1>3. <<>> \in Seq(Symbols) /\ Append(<<>>, c) = <<c>> /\ <<c>> \in Seq(Symbols)
    BY <1>1
<1>4. CASE n = 1
    <2>1. Run(c, n) = Append(<<>>, c)
        BY <1>3, <1>4 DEF Run
    <2>2. Folded(Run(c, n), NewReads, m) = NewReads[m][c]
        BY <1>1, <1>2, <1>3, <2>1
    <2>3. NewReads[m][c] = [count |-> 0, inputs |-> m.inputs \o Times(c, 1)]
        BY NewReadsOne
    <2> QED
        BY <1>3, <1>4, <2>1, <2>2, <2>3
<1>5. CASE n > 1
    <2> DEFINE s == Digits(n)
               r == [count |-> n, inputs |-> m.inputs]
    <2>1. s \in Seq(Digit)
        BY DigitsAre
    <2>2. Folded(s, NumberReads, 0) = n
        BY DigitsNumber
    <2> HIDE DEF s
    <2>3. s \in Seq(Symbols) /\ Append(s, c) = s \o <<c>> /\ Append(s, c) \in Seq(Symbols)
        <3>1. s \in Seq(Symbols)
            BY <2>1 DEF Symbols
        <3> QED
            BY <1>1, <3>1, AppendIsConcat, AppendProperties
    <2>4. Folded(s, NewReads, m) = r
        BY <2>1, <2>2, DigitsRead
    <2>5. Run(c, n) = Append(s, c)
        BY <1>5, <2>3 DEF Run, s
    <2>6. Folded(Run(c, n), NewReads, m) = NewReads[r][c]
        BY <1>1, <1>2, <2>3, <2>4, <2>5
    <2>7. r \in Readings /\ r.count = n /\ r.inputs = m.inputs
        BY ReadingIs
    <2> HIDE DEF r
    <2>8. NewReads[r][c] = [count |-> 0,
                            inputs |-> r.inputs \o Times(c, IF r.count = 0 THEN 1 ELSE r.count)]
        BY <2>7, NewReadsOne
    <2>9. NewReads[r][c] = [count |-> 0, inputs |-> m.inputs \o Times(c, n)]
        BY <2>7, <2>8
    <2> QED
        BY <2>3, <2>5, <2>6, <2>9
<1> QED
    BY <1>4, <1>5

\* A run that is appended to a text without a number at its end adds its ticks to the meaning.
LEMMA RunAppended ==
    ASSUME NEW s \in Seq(Symbols), Settled(s),
           NEW c \in Letters, NEW n \in Nat \ {0}, IsCount(n)
    PROVE  /\ s \o Run(c, n) \in Seq(Symbols)
           /\ Meaning(s) \in Seq(Letters)
           /\ Meaning(s \o Run(c, n)) = Meaning(s) \o Times(c, n)
           /\ Settled(s \o Run(c, n))
<1> DEFINE m == NewReading(s)
           run == Run(c, n)
<1>1. NewReads \in Readers(Symbols, Readings) /\ Empty \in Readings
    BY NewReader, ReadingIs
<1>2. m \in Readings
    BY <1>1, FoldedSteps DEF NewReading
<1>3. run \in Seq(Symbols) /\ Folded(run, NewReads, m) = [count |-> 0, inputs |-> m.inputs \o Times(c, n)]
    <2>1. m.count = 0
        BY DEF Settled
    <2> HIDE DEF m
    <2> QED
        BY <1>2, <2>1, NewRun DEF m
<1> HIDE DEF run
<1>4. s \o run \in Seq(Symbols)
    BY <1>3, ConcatProperties
<1>5. NewReading(s \o run) = Folded(run, NewReads, m)
    BY <1>1, <1>3, FoldedConcat DEF NewReading
<1>6. Meaning(s) = m.inputs /\ Meaning(s \o run) = NewReading(s \o run).inputs
    BY <1>4, MeaningIs
<1> HIDE DEF m
<1>7. m.inputs \in Seq(Letters)
    BY <1>2, ReadingIs
<1>8. Settled(s \o run)
    BY <1>3, <1>5 DEF Settled
<1> QED
    BY <1>3, <1>4, <1>5, <1>6, <1>7, <1>8 DEF run

-----------------------------------------------------------------------------
(* The heads of texts. *)

\* What leads a sequence is in the set, and what follows is not.
LEMMA LeadingIs ==
    ASSUME NEW A, NEW s \in Seq(A), NEW S
    PROVE  /\ Leading(s, S) \in 0 .. Len(s)
           /\ \A i \in 1 .. Leading(s, S) : s[i] \in S
           /\ Leading(s, S) < Len(s) => s[Leading(s, S) + 1] \notin S
           /\ s # <<>> /\ s[1] \in S => Leading(s, S) >= 1
<1> DEFINE n == Len(s)
           D == {i \in 1 .. n : \A j \in 1 .. i : s[j] \in S}
           k == Cardinality(D)
<1>1. n \in Nat /\ (s # <<>> => n >= 1)
    BY EmptySeq
<1> HIDE DEF n
<1>2. ASSUME NEW i \in D PROVE \A j \in 1 .. i : j \in D
    BY <1>1
<1>3. k \in 0 .. n /\ D = 1 .. k
    <2>1. D \in SUBSET (1 .. n)
        OBVIOUS
    <2> HIDE DEF D
    <2> QED
        BY <1>1, <1>2, <2>1, InitialSegment
<1>4. Leading(s, S) = k
    BY DEF Leading, n
<1>5. \A i \in D : s[i] \in S
    BY <1>1
<1>6. ASSUME k < n PROVE s[k + 1] \notin S
    <2>1. k + 1 \in 1 .. n /\ k + 1 \notin 1 .. k
        BY <1>1, <1>3, <1>6
    <2>2. k + 1 \notin D
        <3> HIDE DEF k, D
        <3> QED
            BY <1>3, <2>1
    <2> HIDE DEF k
    <2>3. PICK j \in 1 .. k + 1 : s[j] \notin S
        BY <2>1, <2>2
    <2>4. j \notin 1 .. k
        <3> HIDE DEF D
        <3> QED
            BY <1>3, <1>5, <2>3
    <2>5. j = k + 1
        BY <1>1, <1>3, <2>3, <2>4
    <2> QED
        BY <2>3, <2>5
<1>7. ASSUME s # <<>>, s[1] \in S PROVE k >= 1
    <2>1. 1 \in D
        BY <1>1, <1>7
    <2> HIDE DEF D
    <2> QED
        BY <1>3, <2>1
<1> HIDE DEF k, D
<1> QED
    BY <1>3, <1>4, <1>5, <1>6, <1>7 DEF n

\* The parts of a text have counts that begin as those of the text do.
LEMMA NoNoughtInParts ==
    ASSUME NEW s \in Seq(Symbols), NoNoughtBegins(s), NEW k \in 0 .. Len(s)
    PROVE  /\ NoNoughtBegins(Kept(s, k))
           /\ (k < Len(s) /\ k > 0 => s[k] \notin Digit \/ s[k + 1] \notin Digit)
                 => NoNoughtBegins(Drop(s, k))
<1> DEFINE n == Len(s)
           t == Kept(s, k)
           u == Drop(s, k)
<1>1. /\ Len(t) = k /\ \A i \in 1 .. k : t[i] = s[i]
      /\ Len(u) = n - k /\ \A i \in 1 .. n - k : u[i] = s[k + i]
    BY DropIs
<1>2. n \in Nat /\ k \in 0 .. n /\ \A i \in 1 .. n : s[i] = 0 => i > 1 /\ s[i - 1] \in Digit
    BY DEF NoNoughtBegins
<1> HIDE DEF t, u, n
<1>3. NoNoughtBegins(t)
    <2> SUFFICES ASSUME NEW i \in 1 .. k, t[i] = 0 PROVE i > 1 /\ t[i - 1] \in Digit
        BY <1>1 DEF NoNoughtBegins
    <2>1. i > 1 /\ s[i - 1] \in Digit
        BY <1>1, <1>2
    <2>2. i - 1 \in 1 .. k
        BY <1>2, <2>1
    <2> QED
        BY <1>1, <2>1, <2>2
<1>4. ASSUME k < n /\ k > 0 => s[k] \notin Digit \/ s[k + 1] \notin Digit PROVE NoNoughtBegins(u)
    <2> SUFFICES ASSUME NEW i \in 1 .. n - k, u[i] = 0 PROVE i > 1 /\ u[i - 1] \in Digit
        BY <1>1 DEF NoNoughtBegins
    <2>1. k + i \in 1 .. n /\ s[k + i] = 0 /\ s[k + i] \in Digit
        BY <1>1, <1>2, DigitsAssumption DEF Digit
    <2>2. k + i > 1 /\ s[(k + i) - 1] \in Digit
        BY <1>2, <2>1
    <2>3. i # 1
        BY <1>2, <1>4, <2>1, <2>2
    <2>4. i - 1 \in 1 .. n - k /\ k + (i - 1) = (k + i) - 1 /\ i > 1
        BY <1>2, <2>3
    <2> QED
        BY <1>1, <2>2, <2>4
<1> QED
    BY <1>3, <1>4 DEF t, u, n

\* Texts whose counts do not begin with nought can be joined.
LEMMA NoNoughtJoined ==
    ASSUME NEW s \in Seq(Symbols), NEW t \in Seq(Symbols), NoNoughtBegins(s), NoNoughtBegins(t)
    PROVE  NoNoughtBegins(s \o t)
<1> DEFINE n == Len(s)
           m == Len(t)
           u == s \o t
<1>1. n \in Nat /\ m \in Nat /\ Len(u) = n + m /\ \A i \in 1 .. n + m : u[i] = IF i <= n THEN s[i] ELSE t[i - n]
    BY ConcatProperties
<1>2. /\ \A i \in 1 .. n : s[i] = 0 => i > 1 /\ s[i - 1] \in Digit
      /\ \A i \in 1 .. m : t[i] = 0 => i > 1 /\ t[i - 1] \in Digit
    BY DEF NoNoughtBegins
<1> HIDE DEF n, m, u
<1> SUFFICES ASSUME NEW i \in 1 .. n + m, u[i] = 0 PROVE i > 1 /\ u[i - 1] \in Digit
    BY <1>1 DEF NoNoughtBegins, u
<1>3. CASE i <= n
    <2>1. i > 1 /\ s[i - 1] \in Digit
        BY <1>1, <1>2, <1>3
    <2> QED
        BY <1>1, <1>3, <2>1
<1>4. CASE i > n
    <2>1. i - n \in 1 .. m /\ t[i - n] = 0
        BY <1>1, <1>4
    <2>2. i - n > 1 /\ t[(i - n) - 1] \in Digit
        BY <1>2, <2>1
    <2>3. i - 1 \in 1 .. n + m /\ ~(i - 1 <= n) /\ (i - 1) - n = (i - n) - 1
        BY <1>1, <2>2
    <2> QED
        BY <1>1, <2>2, <2>3
<1> QED
    BY <1>1, <1>3, <1>4

\* The count of a run does not begin with nought.
LEMMA NoNoughtInRun ==
    ASSUME NEW c \in Letters, NEW n \in Nat \ {0}, IsCount(n)
    PROVE  NoNoughtBegins(Run(c, n))
<1>0. c \notin Digit /\ 0 \in Digit
    BY LettersAssumption, DigitsAssumption DEF Digit
<1>1. CASE n = 1
    <2>1. Run(c, n) = <<c>>
        BY <1>1 DEF Run
    <2>2. Len(<<c>>) = 1 /\ <<c>>[1] # 0
        BY <1>0
    <2> QED
        BY <2>1, <2>2 DEF NoNoughtBegins
<1>2. CASE n > 1
    <2> DEFINE s == Digits(n)
               w == Len(s)
               r == s \o <<c>>
    <2>1. s \in Seq(Digit) /\ s[1] # 0 /\ w >= 1 /\ w \in Nat
        BY DigitsAre, WidthIs
    <2>2. Run(c, n) = r
        BY <1>2 DEF Run
    <2>3. s \in Seq(Symbols) /\ <<c>> \in Seq(Symbols) /\ Len(<<c>>) = 1 /\ <<c>>[1] = c
        BY <2>1 DEF Symbols
    <2>4. \A i \in 1 .. w : s[i] \in Digit
        BY <2>1
    <2> HIDE DEF s
    <2>5. Len(r) = w + 1 /\ \A i \in 1 .. w + 1 : r[i] = IF i <= w THEN s[i] ELSE <<c>>[i - w]
        BY <2>3, ConcatProperties
    <2> HIDE DEF w, r
    <2>6. /\ \A i \in 1 .. w : r[i] \in Digit
          /\ r[1] # 0 /\ r[w + 1] # 0
        BY <1>0, <2>1, <2>3, <2>4, <2>5
    <2>7. ASSUME NEW i \in 1 .. Len(r), r[i] = 0 PROVE i > 1 /\ r[i - 1] \in Digit
        <3>1. i # 1 /\ i # w + 1
            BY <2>6, <2>7
        <3>2. i > 1 /\ i - 1 \in 1 .. w
            BY <2>1, <2>5, <3>1
        <3> QED
            BY <2>6, <3>2
    <2> QED
        BY <2>2, <2>7 DEF NoNoughtBegins
<1> QED
    BY <1>1, <1>2

-----------------------------------------------------------------------------
(* What a text of the old format means. *)

\* What was read before does not change what is read after it.
LEMMA OldPrefixed ==
    ASSUME NEW n \in Nat, NEW u \in Seq(Letters)
    PROVE  \A s \in Seq(Symbols) :
             LET r == Folded(s, OldReads, [count |-> n, inputs |-> <<>>])
             IN  /\ r \in Readings
                 /\ Folded(s, OldReads, [count |-> n, inputs |-> u]) =
                        [count |-> r.count, inputs |-> u \o r.inputs]
<1> DEFINE v == [count |-> n, inputs |-> <<>>]
           w == [count |-> n, inputs |-> u]
           S == {s \in Seq(Symbols) :
                   Folded(s, OldReads, w) = [count |-> Folded(s, OldReads, v).count,
                                             inputs |-> u \o Folded(s, OldReads, v).inputs]}
<1>1. /\ OldReads \in Readers(Symbols, Readings)
      /\ v \in Readings /\ v.count = n /\ v.inputs = <<>> /\ w \in Readings
    BY OldReader, ReadingIs
<1>2. w = [count |-> v.count, inputs |-> u \o v.inputs]
    BY <1>1, ConcatEmptySeq
<1> HIDE DEF v, w
<1>3. /\ Folded(<<>>, OldReads, v) = v /\ Folded(<<>>, OldReads, w) = w
      /\ \A s \in Seq(Symbols) : Folded(s, OldReads, v) \in Readings
      /\ \A s \in Seq(Symbols), a \in Symbols :
           /\ Folded(Append(s, a), OldReads, v) = OldReads[Folded(s, OldReads, v)][a]
           /\ Folded(Append(s, a), OldReads, w) = OldReads[Folded(s, OldReads, w)][a]
    BY <1>1, FoldedSteps
<1>4. <<>> \in S
    <2>1. Folded(<<>>, OldReads, w) = [count |-> Folded(<<>>, OldReads, v).count,
                                       inputs |-> u \o Folded(<<>>, OldReads, v).inputs]
        BY <1>2, <1>3, Zenon
    <2>2. <<>> \in Seq(Symbols)
        OBVIOUS
    <2> QED
        BY <2>1, <2>2
<1>5. ASSUME NEW s \in Seq(Symbols), s \in S, NEW a \in Symbols PROVE Append(s, a) \in S
    <2> DEFINE r == Folded(s, OldReads, v)
               q == [count |-> r.count, inputs |-> u \o r.inputs]
    <2>1. r \in Readings /\ Folded(s, OldReads, w) = q
        BY <1>3, <1>5
    <2>2. Append(s, a) \in Seq(Symbols)
        BY AppendProperties
    <2>3. /\ Folded(Append(s, a), OldReads, v) = OldReads[r][a]
          /\ Folded(Append(s, a), OldReads, w) = OldReads[q][a]
        BY <1>3, <2>1
    <2> HIDE DEF r
    <2>4. r.count \in Nat /\ r.inputs \in Seq(Letters)
        BY <2>1, ReadingIs
    <2>5. u \o r.inputs \in Seq(Letters)
        BY <2>4, ConcatProperties
    <2>6. q \in Readings /\ q.count = r.count /\ q.inputs = u \o r.inputs
        BY <2>4, <2>5, ReadingIs
    <2> HIDE DEF q
    <2>7. OldReads[q][a] = [count |-> OldReads[r][a].count, inputs |-> u \o OldReads[r][a].inputs]
        <3>1. CASE a \in Digit
            <4>1. /\ OldReads[q][a] = [count |-> Base * q.count + a, inputs |-> q.inputs]
                  /\ OldReads[r][a] = [count |-> Base * r.count + a, inputs |-> r.inputs]
                BY <2>1, <2>6, <3>1, OldReadsOne
            <4> QED
                BY <2>6, <4>1
        <3>2. CASE a \in Letters
            <4> DEFINE t == Times(Idle, r.count)
            <4>1. /\ OldReads[q][a] = [count |-> 0, inputs |-> ((u \o r.inputs) \o t) \o <<a>>]
                  /\ OldReads[r][a] = [count |-> 0, inputs |-> (r.inputs \o t) \o <<a>>]
                BY <2>1, <2>6, <3>2, OldReadsOne
            <4>2. t \in Seq(Letters) /\ <<a>> \in Seq(Letters)
                <5>1. t \in Seq(Letters)
                    BY <2>4, TimesIs, ReadingIs
                <5>2. <<a>> \in Seq(Letters)
                    BY <3>2
                <5> QED
                    BY <5>1, <5>2
            <4> HIDE DEF t
            <4>3. ((u \o r.inputs) \o t) \o <<a>> = u \o ((r.inputs \o t) \o <<a>>)
                <5> DEFINE x == r.inputs
                           y == <<a>>
                <5>1. x \in Seq(Letters) /\ y \in Seq(Letters)
                    BY <2>4, <4>2
                <5> HIDE DEF x, y
                <5>2. Chained(Chained(Chained(u, x), t), y) = Chained(u, Chained(Chained(x, t), y))
                    BY <4>2, <5>1, ChainedIs
                <5> QED
                    BY <5>2 DEF Chained, x, y
            <4>4. OldReads[r][a].count = 0 /\ OldReads[r][a].inputs = (r.inputs \o t) \o <<a>>
                <5> DEFINE z == (r.inputs \o t) \o <<a>>
                <5>1. OldReads[r][a] = [count |-> 0, inputs |-> z]
                    BY <4>1
                <5> HIDE DEF z
                <5>2. OldReads[r][a].count = 0 /\ OldReads[r][a].inputs = z
                    BY <5>1
                <5> QED
                    BY <5>2 DEF z
            <4> QED
                BY <4>1, <4>3, <4>4
        <3> QED
            BY <3>1, <3>2 DEF Symbols
    <2> QED
        BY <2>2, <2>3, <2>7
<1> HIDE DEF S
<1>6. \A s \in Seq(Symbols) : s \in S
    BY <1>4, <1>5, SequenceInduction
<1>7. ASSUME NEW s \in Seq(Symbols)
      PROVE  /\ Folded(s, OldReads, v) \in Readings
             /\ Folded(s, OldReads, w) = [count |-> Folded(s, OldReads, v).count,
                                          inputs |-> u \o Folded(s, OldReads, v).inputs]
    BY <1>3, <1>6 DEF S
<1> QED
    BY <1>7 DEF v, w

\* The inputs of a reading that goes on come first.
LEMMA OldFromIs ==
    ASSUME NEW n \in Nat, NEW u \in Seq(Letters), NEW s \in Seq(Symbols)
    PROVE  /\ OldFrom([count |-> n, inputs |-> <<>>], s) \in Seq(Letters)
           /\ OldFrom([count |-> n, inputs |-> u], s) = u \o OldFrom([count |-> n, inputs |-> <<>>], s)
<1> DEFINE v == [count |-> n, inputs |-> <<>>]
           w == [count |-> n, inputs |-> u]
           r == Folded(s, OldReads, v)
<1>1. r \in Readings /\ Folded(s, OldReads, w) = [count |-> r.count, inputs |-> u \o r.inputs]
    BY OldPrefixed
<1> HIDE DEF v, w, r
<1>2. r.count \in Nat /\ r.inputs \in Seq(Letters)
    BY <1>1, ReadingIs
<1> DEFINE t == Times(Idle, r.count)
           x == r.inputs
<1>3. t \in Seq(Letters) /\ x \in Seq(Letters)
    BY <1>2, TimesIs, ReadingIs
<1>4. OldFrom(v, s) = x \o t /\ OldFrom(w, s) = (u \o x) \o t
    <2>1. OldFrom(v, s) = x \o t
        BY DEF OldFrom, r
    <2>2. Folded(s, OldReads, w).count = r.count /\ Folded(s, OldReads, w).inputs = u \o x
        BY <1>1
    <2> QED
        BY <2>1, <2>2 DEF OldFrom
<1> HIDE DEF t, x
<1>5. (u \o x) \o t = u \o (x \o t) /\ x \o t \in Seq(Letters)
    BY <1>3, ConcatAssociative, ConcatProperties
<1> QED
    BY <1>4, <1>5 DEF v, w

\* What an old log means are inputs.
LEMMA OldMeaningType ==
    ASSUME NEW s \in Seq(Symbols)
    PROVE  OldMeaning(s) \in Seq(Letters)
<1>1. 0 \in Nat /\ <<>> \in Seq(Letters)
    OBVIOUS
<1>2. OldFrom([count |-> 0, inputs |-> <<>>], s) \in Seq(Letters)
    BY <1>1, OldFromIs
<1> QED
    BY <1>2, OldMeaningIs DEF Empty

\* Nothing means nothing.
LEMMA OldMeaningEmpty == OldMeaning(<<>>) = <<>>
<1>1. <<>> \in Seq(Symbols)
    OBVIOUS
<1>2. Folded(<<>>, OldReads, Empty) = Empty
    BY OldReader, ReadingIs, FoldedSteps
<1>3. OldFrom(Empty, <<>>) = <<>> \o Times(Idle, 0)
    BY <1>2, ReadingIs DEF OldFrom
<1>4. <<>> \o <<>> = <<>>
    OBVIOUS
<1> QED
    BY <1>1, <1>3, <1>4, OldMeaningIs, TimesSmall

\* A letter after a count is one tick after the idle ones.
LEMMA OldLetter ==
    ASSUME NEW n \in Nat, NEW c \in Letters, NEW t \in Seq(Symbols)
    PROVE  /\ <<c>> \o t \in Seq(Symbols)
           /\ OldFrom([count |-> n, inputs |-> <<>>], <<c>> \o t) =
                  (Times(Idle, n) \o <<c>>) \o OldMeaning(t)
<1> DEFINE m == [count |-> n, inputs |-> <<>>]
           u == Times(Idle, n) \o <<c>>
           s == <<c>>
<1>1. s \in Seq(Symbols) /\ c \in Symbols
    BY DEF Symbols
<1>2. m \in Readings /\ m.count = n /\ m.inputs = <<>>
    BY ReadingIs
<1>3. u \in Seq(Letters) /\ <<>> \o u = u /\ (<<>> \o Times(Idle, n)) \o <<c>> = u
    <2>1. Times(Idle, n) \in Seq(Letters)
        BY TimesIs, ReadingIs
    <2>2. <<c>> \in Seq(Letters)
        OBVIOUS
    <2>3. <<>> \o Times(Idle, n) = Times(Idle, n)
        BY <2>1, ConcatEmptySeq
    <2>4. u \in Seq(Letters)
        BY <2>1, <2>2, ConcatProperties
    <2> QED
        BY <2>3, <2>4, ConcatEmptySeq
<1> HIDE DEF m, u
<1>4. Folded(s, OldReads, m) = [count |-> 0, inputs |-> u]
    <2>1. /\ Folded(<<>>, OldReads, m) = m
          /\ \A x \in Seq(Symbols), a \in Symbols :
               Folded(Append(x, a), OldReads, m) = OldReads[Folded(x, OldReads, m)][a]
        BY <1>2, OldReader, FoldedSteps
    <2>2. <<>> \in Seq(Symbols) /\ Append(<<>>, c) = s
        OBVIOUS
    <2> HIDE DEF s
    <2>3. Folded(s, OldReads, m) = OldReads[m][c]
        BY <1>1, <2>1, <2>2
    <2>4. OldReads[m][c] = [count |-> 0, inputs |-> (m.inputs \o Times(Idle, m.count)) \o <<c>>]
        BY <1>2, OldReadsOne
    <2> QED
        BY <1>2, <1>3, <2>3, <2>4
<1> HIDE DEF s
<1>5. Folded(s \o t, OldReads, m) = Folded(t, OldReads, [count |-> 0, inputs |-> u])
    BY <1>1, <1>2, <1>4, OldReader, FoldedConcat
<1>6. OldFrom(m, s \o t) = OldFrom([count |-> 0, inputs |-> u], t)
    BY <1>5 DEF OldFrom
<1>7. OldFrom([count |-> 0, inputs |-> u], t) = u \o OldFrom([count |-> 0, inputs |-> <<>>], t)
    <2>1. 0 \in Nat
        OBVIOUS
    <2> QED
        BY <1>3, <2>1, OldFromIs
<1>8. s \o t \in Seq(Symbols)
    BY <1>1, ConcatProperties
<1> QED
    BY <1>6, <1>7, <1>8, OldMeaningIs DEF m, s, u, Empty

\* A letter at the head of an old log is a tick.
LEMMA OldMeaningLetter ==
    ASSUME NEW s \in Seq(Symbols), s # <<>>, s[1] \in Letters
    PROVE  /\ Drop(s, 1) \in Seq(Symbols) /\ Drop(s, 1) = Tail(s)
           /\ OldMeaning(s) = <<s[1]>> \o OldMeaning(Drop(s, 1))
<1> DEFINE c == s[1]
           t == Drop(s, 1)
<1>1. c \in Letters
    OBVIOUS
<1>2. t \in Seq(Symbols) /\ s = <<c>> \o t
    BY HeadIs
<1>3. t = Tail(s)
    BY HeadIs
<1> HIDE DEF c, t
<1>4. 0 \in Nat
    OBVIOUS
<1>5. OldFrom([count |-> 0, inputs |-> <<>>], <<c>> \o t) = (Times(Idle, 0) \o <<c>>) \o OldMeaning(t)
    BY <1>1, <1>2, <1>4, OldLetter
<1>6. Times(Idle, 0) \o <<c>> = <<c>>
    <2>1. <<c>> \in Seq(Letters)
        BY <1>1
    <2> QED
        BY <2>1, TimesSmall, ConcatEmptySeq
<1>7. OldMeaning(s) = OldFrom(Empty, s)
    BY OldMeaningIs
<1> QED
    BY <1>2, <1>3, <1>5, <1>6, <1>7 DEF c, t, Empty

\* A count that goes on at the end or before a letter is idle ticks first.
LEMMA OldCount ==
    ASSUME NEW n \in Nat, NEW t \in Seq(Symbols), t # <<>> => t[1] \in Letters
    PROVE  OldFrom([count |-> n, inputs |-> <<>>], t) = Times(Idle, n) \o OldMeaning(t)
<1> DEFINE u == Times(Idle, n)
           m == [count |-> n, inputs |-> <<>>]
<1>1. u \in Seq(Letters)
    BY TimesIs, ReadingIs
<1>2. CASE t = <<>>
    <2>1. Folded(<<>>, OldReads, m) = m
        BY OldReader, ReadingIs, FoldedSteps
    <2>2. OldFrom(m, <<>>) = <<>> \o u
        <3>1. m.inputs = <<>> /\ m.count = n
            OBVIOUS
        <3> HIDE DEF m
        <3> QED
            BY <2>1, <3>1 DEF OldFrom
    <2> HIDE DEF u
    <2>3. <<>> \o u = u /\ u \o <<>> = u
        BY <1>1, ConcatEmptySeq
    <2> QED
        BY <1>2, <2>2, <2>3, OldMeaningEmpty DEF u
<1>3. CASE t # <<>>
    <2> DEFINE c == t[1]
               x == Drop(t, 1)
    <2>1. c \in Letters
        BY <1>3
    <2>2. x \in Seq(Symbols) /\ OldMeaning(t) = <<c>> \o OldMeaning(x)
        BY <1>3, OldMeaningLetter
    <2>3. t = <<c>> \o x
        BY <1>3, HeadIs
    <2> HIDE DEF c, x
    <2>4. OldFrom(m, <<c>> \o x) = (u \o <<c>>) \o OldMeaning(x)
        BY <2>1, <2>2, OldLetter
    <2>5. OldMeaning(x) \in Seq(Letters)
        BY <2>2, OldMeaningType
    <2>6. <<c>> \in Seq(Letters)
        BY <2>1
    <2>7. (u \o <<c>>) \o OldMeaning(x) = u \o (<<c>> \o OldMeaning(x))
        <3> DEFINE y == <<c>>
                   z == OldMeaning(x)
        <3> HIDE DEF u, y, z
        <3>1. y \in Seq(Letters) /\ z \in Seq(Letters)
            BY <2>5, <2>6 DEF y, z
        <3>2. Chained(Chained(u, y), z) = Chained(u, Chained(y, z))
            BY <1>1, <3>1, ChainedIs
        <3> QED
            BY <3>2 DEF Chained, y, z
    <2> QED
        BY <2>2, <2>3, <2>4, <2>7
<1> QED
    BY <1>2, <1>3

\* Reading digits makes a number that is no smaller.
LEMMA DigitsGrow ==
    ASSUME NEW n \in Nat
    PROVE  \A s \in Seq(Digit) : Folded(s, NumberReads, n) \in Nat /\ Folded(s, NumberReads, n) >= n
<1> DEFINE S == {s \in Seq(Digit) : Folded(s, NumberReads, n) \in Nat /\ Folded(s, NumberReads, n) >= n}
<1>1. /\ Folded(<<>>, NumberReads, n) = n
      /\ \A s \in Seq(Digit), a \in Digit :
           Folded(Append(s, a), NumberReads, n) = NumberReads[Folded(s, NumberReads, n)][a]
    <2> DEFINE N == Nat
    <2>1. n \in N /\ NumberReads \in Readers(Digit, N)
        BY NumberReader
    <2> HIDE DEF N
    <2> QED
        BY <2>1, FoldedSteps
<1>2. <<>> \in S
    BY <1>1
<1>3. ASSUME NEW s \in Seq(Digit), s \in S, NEW a \in Digit PROVE Append(s, a) \in S
    <2> DEFINE m == Folded(s, NumberReads, n)
    <2>1. m \in Nat /\ m >= n
        BY <1>3
    <2>2. Folded(Append(s, a), NumberReads, n) = Base * m + a
        <3>1. Folded(Append(s, a), NumberReads, n) = NumberReads[m][a]
            BY <1>1
        <3> HIDE DEF m
        <3> QED
            BY <2>1, <3>1 DEF NumberReads
    <2>3. Append(s, a) \in Seq(Digit)
        BY AppendProperties
    <2>4. Base * m + a \in Nat /\ Base * m + a >= n
        <3> HIDE DEF m
        <3>1. Base \in Nat /\ Base > 1 /\ a \in Nat
            BY DigitsAssumption DEF Digit
        <3>2. Base * m >= m /\ Base * m \in Nat
            BY <2>1, <3>1
        <3> QED
            BY <2>1, <3>1, <3>2
    <2> QED
        BY <2>2, <2>3, <2>4
<1> HIDE DEF S
<1>4. \A s \in Seq(Digit) : s \in S
    BY <1>2, <1>3, SequenceInduction
<1> QED
    BY <1>4 DEF S

\* A number at the head of an old log is as many idle ticks, at least one.
LEMMA OldMeaningNumber ==
    ASSUME NEW s \in Seq(Symbols), s # <<>>, s[1] \in Digit, NoNoughtBegins(s),
           NEW k, k = Leading(s, Digit)
    PROVE  /\ k \in 1 .. Len(s) /\ Drop(s, k) \in Seq(Symbols) /\ NoNoughtBegins(Drop(s, k))
           /\ Drop(s, k) # <<>> => Drop(s, k)[1] \in Letters
           /\ Number(s, k) \in Nat \ {0}
           /\ OldMeaning(s) = Times(Idle, Number(s, k)) \o OldMeaning(Drop(s, k))
<1> DEFINE d == Kept(s, k)
           t == Drop(s, k)
           n == Number(s, k)
<1>1. /\ Len(s) \in Nat /\ k \in 1 .. Len(s) /\ k \in 0 .. Len(s)
      /\ (\A i \in 1 .. k : s[i] \in Digit)
      /\ (k < Len(s) => s[k + 1] \notin Digit)
    BY LeadingIs
<1>2. /\ d \in Seq(Symbols) /\ Len(d) = k /\ (\A i \in 1 .. k : d[i] = s[i])
      /\ t \in Seq(Symbols) /\ Len(t) = Len(s) - k /\ (\A i \in 1 .. Len(s) - k : t[i] = s[k + i])
      /\ s = d \o t
    <2>1. k \in 0 .. Len(s)
        BY <1>1
    <2>2. \A j \in 0 .. Len(s) :
             /\ Kept(s, j) \in Seq(Symbols) /\ Len(Kept(s, j)) = j
             /\ \A i \in 1 .. j : Kept(s, j)[i] = s[i]
             /\ Drop(s, j) \in Seq(Symbols) /\ Len(Drop(s, j)) = Len(s) - j
             /\ \A i \in 1 .. Len(s) - j : Drop(s, j)[i] = s[j + i]
             /\ s = Kept(s, j) \o Drop(s, j)
        BY DropIs
    <2> QED
        BY <2>1, <2>2, Zenon
<1>3. d \in Seq(Digit)
    <2> HIDE DEF d
    <2>1. \A i \in 1 .. Len(d) : d[i] \in Digit
        BY <1>1, <1>2
    <2> QED
        BY <1>2, <2>1
<1>4. NoNoughtBegins(t)
    BY <1>1, NoNoughtInParts
<1>5. t # <<>> => t[1] \in Letters
    <2> SUFFICES ASSUME t # <<>> PROVE t[1] \in Letters
        OBVIOUS
    <2>1. Len(t) >= 1
        BY <1>2, EmptySeq
    <2>2. k < Len(s) /\ 1 \in 1 .. Len(s) - k
        BY <1>1, <1>2, <2>1
    <2>3. t[1] = s[k + 1] /\ k + 1 \in 1 .. Len(s)
        BY <1>1, <1>2, <2>2
    <2>4. s[k + 1] \in Symbols
        BY <2>3
    <2> QED
        BY <1>1, <2>2, <2>3, <2>4 DEF Symbols
<1>6. n = Folded(d, NumberReads, 0) /\ n \in Nat
    BY <1>1, <1>3, NumberIs
<1> HIDE DEF t, n, d
<1>7. n # 0
    <2> DEFINE a == d[1]
               e == Drop(d, 1)
    <2>1. 1 \in 1 .. Len(s) /\ 1 \in 1 .. k
        BY <1>1
    <2>2. a \in Digit /\ a # 0
        BY <1>1, <1>2, <2>1 DEF NoNoughtBegins
    <2> DEFINE x == <<a>>
    <2>3. d # <<>>
        BY <1>1, <1>2
    <2>4. x \in Seq(Digit) /\ e \in Seq(Digit) /\ d = x \o e
        <3>1. e \in Seq(Digit) /\ d = <<d[1]>> \o e
            BY <1>3, <2>3, HeadIs
        <3> HIDE DEF e
        <3> QED
            BY <2>2, <3>1
    <2>5. x = <<a>>
        OBVIOUS
    <2> HIDE DEF a, e, x
    <2> DEFINE N == Nat
               v == 0
    <2>6. v \in N /\ NumberReads \in Readers(Digit, N)
        BY NumberReader
    <2>7. NumberReads[v][a] = a /\ a \in Nat
        <3>1. a \in Nat /\ Base * 0 + a = a
            BY <2>2, DigitsAssumption DEF Digit
        <3>2. NumberReads[0][a] = Base * 0 + a
            BY <2>2 DEF NumberReads
        <3> QED
            BY <3>1, <3>2
    <2> HIDE DEF N, v
    <2>8. Folded(d, NumberReads, v) = Folded(e, NumberReads, Folded(x, NumberReads, v))
        BY <2>4, <2>6, FoldedConcat
    <2>9. Folded(x, NumberReads, v) = a
        <3>1. /\ Folded(<<>>, NumberReads, v) = v
              /\ \A y \in Seq(Digit), b \in Digit :
                   Folded(Append(y, b), NumberReads, v) = NumberReads[Folded(y, NumberReads, v)][b]
            BY <2>6, FoldedSteps
        <3>2. <<>> \in Seq(Digit) /\ Append(<<>>, a) = <<a>>
            OBVIOUS
        <3> QED
            BY <2>2, <2>5, <2>7, <3>1, <3>2
    <2>10. Folded(e, NumberReads, a) \in Nat /\ Folded(e, NumberReads, a) >= a
        BY <2>4, <2>7, DigitsGrow
    <2>11. a > 0
        BY <2>2, <2>7
    <2> QED
        BY <1>6, <2>7, <2>8, <2>9, <2>10, <2>11 DEF v
<1>8. OldMeaning(s) = Times(Idle, n) \o OldMeaning(t)
    <2>1. Folded(d, OldReads, Empty) = [count |-> n, inputs |-> <<>>]
        <3>1. Empty \in Readings /\ Empty.count = 0 /\ Empty.inputs = <<>>
            BY ReadingIs
        <3>2. Folded(d, OldReads, Empty) = [count |-> Folded(d, NumberReads, Empty.count), inputs |-> Empty.inputs]
            BY <1>3, <3>1, DigitsRead
        <3> QED
            BY <1>6, <3>1, <3>2
    <2>2. Folded(d \o t, OldReads, Empty) = Folded(t, OldReads, Folded(d, OldReads, Empty))
        BY <1>2, OldReader, ReadingIs, FoldedConcat
    <2>3. OldFrom(Empty, s) = OldFrom([count |-> n, inputs |-> <<>>], t)
        BY <1>2, <2>1, <2>2 DEF OldFrom
    <2> QED
        BY <1>2, <1>5, <1>6, <2>3, OldCount, OldMeaningIs
<1> QED
    BY <1>1, <1>2, <1>4, <1>5, <1>6, <1>7, <1>8 DEF t, n

\* Taking off a head twice is taking off both.
LEMMA DropTwice ==
    ASSUME NEW A, NEW s \in Seq(A), NEW j \in 0 .. Len(s), NEW k \in 0 .. Len(s) - j
    PROVE  Drop(Drop(s, j), k) = Drop(s, j + k)
<1> DEFINE n == Len(s)
           t == Drop(s, j)
           u == Drop(t, k)
           v == Drop(s, j + k)
<1>1. n \in Nat /\ j \in 0 .. n /\ k \in 0 .. n - j /\ j + k \in 0 .. n
    OBVIOUS
<1>2. t \in Seq(A) /\ Len(t) = n - j /\ \A i \in 1 .. n - j : t[i] = s[j + i]
    BY DropIs
<1>3. v \in Seq(A) /\ Len(v) = n - (j + k) /\ \A i \in 1 .. n - (j + k) : v[i] = s[(j + k) + i]
    BY <1>1, DropIs
<1> HIDE DEF t
<1>4. u \in Seq(A) /\ Len(u) = (n - j) - k /\ \A i \in 1 .. (n - j) - k : u[i] = t[k + i]
    <2>1. k \in 0 .. Len(t)
        BY <1>1, <1>2
    <2>2. /\ Drop(t, k) \in Seq(A) /\ Len(Drop(t, k)) = Len(t) - k
          /\ \A i \in 1 .. Len(t) - k : Drop(t, k)[i] = t[k + i]
        BY <1>2, <2>1, DropIs
    <2> QED
        BY <1>2, <2>2
<1> HIDE DEF n, u, v
<1>5. ASSUME NEW i \in 1 .. Len(u) PROVE u[i] = v[i]
    <2>1. i \in 1 .. (n - j) - k /\ i \in 1 .. n - (j + k) /\ k + i \in 1 .. n - j /\ j + (k + i) = (j + k) + i
        BY <1>1, <1>4
    <2> QED
        BY <1>2, <1>3, <1>4, <2>1
<1>6. Len(u) = Len(v)
    BY <1>1, <1>3, <1>4
<1>7. u = v
    BY <1>3, <1>4, <1>5, <1>6, SeqEqual
<1> QED
    BY <1>7 DEF u, v, t

\* A repeated letter at the head of an old log is as many ticks.
LEMMA OldMeaningLetters ==
    ASSUME NEW s \in Seq(Symbols), s # <<>>, s[1] \in Letters,
           NEW k, k = Leading(s, {s[1]})
    PROVE  /\ k \in 1 .. Len(s) /\ Drop(s, k) \in Seq(Symbols)
           /\ k < Len(s) => s[k + 1] # s[1]
           /\ s[k] = s[1]
           /\ OldMeaning(s) = Times(s[1], k) \o OldMeaning(Drop(s, k))
<1> DEFINE c == s[1]
           S == {j \in 0 .. k : OldMeaning(s) = Times(c, j) \o OldMeaning(Drop(s, j))}
<1>1. /\ Len(s) \in Nat /\ k \in 1 .. Len(s) /\ k \in 0 .. Len(s)
      /\ (\A i \in 1 .. k : s[i] = c)
      /\ (k < Len(s) => s[k + 1] # c)
    BY LeadingIs
<1>2. \A j \in 0 .. Len(s) :
        /\ Drop(s, j) \in Seq(Symbols) /\ Len(Drop(s, j)) = Len(s) - j
        /\ \A i \in 1 .. Len(s) - j : Drop(s, j)[i] = s[j + i]
    BY DropIs
<1>3. c \in Letters
    OBVIOUS
<1> HIDE DEF c
<1>4. 0 \in S
    <2>1. Drop(s, 0) = s
        BY SubSeqFull DEF Drop
    <2>2. OldMeaning(s) \in Seq(Letters)
        BY OldMeaningType
    <2>3. Times(c, 0) \o OldMeaning(s) = OldMeaning(s)
        BY <2>2, TimesSmall, ConcatEmptySeq
    <2> QED
        BY <1>1, <2>1, <2>3
<1>5. ASSUME NEW j \in 0 + 1 .. k, j - 1 \in S PROVE j \in S
    <2> DEFINE t == Drop(s, j - 1)
               u == Drop(s, j)
               x == Times(c, j - 1)
    <2>1. /\ j - 1 \in 0 .. Len(s) /\ j \in 0 .. Len(s) /\ j - 1 \in Nat /\ 1 \in 1 .. Len(s) - (j - 1)
          /\ (j - 1) + 1 = j /\ j \in 1 .. k /\ 1 \in 0 .. Len(s) - (j - 1) /\ j \in 0 .. k
        BY <1>1
    <2>2. t \in Seq(Symbols) /\ t # <<>> /\ t[1] = c
        <3>1. /\ t \in Seq(Symbols) /\ Len(t) = Len(s) - (j - 1)
              /\ \A i \in 1 .. Len(s) - (j - 1) : t[i] = s[(j - 1) + i]
            BY <1>2, <2>1
        <3> HIDE DEF t
        <3>2. t[1] = s[j] /\ Len(t) # 0
            BY <1>1, <2>1, <3>1
        <3>3. t # <<>>
            BY <3>2
        <3>4. s[j] = c
            BY <1>1, <2>1
        <3> QED
            BY <3>1, <3>2, <3>3, <3>4
    <2>3. Drop(t, 1) = u
        BY <2>1, DropTwice
    <2>4. OldMeaning(t) = <<c>> \o OldMeaning(u)
        <3> HIDE DEF t, u
        <3> QED
            BY <1>3, <2>2, <2>3, OldMeaningLetter
    <2>5. OldMeaning(s) = x \o (<<c>> \o OldMeaning(u))
        BY <1>5, <2>4
    <2> DEFINE y == <<c>>
               z == OldMeaning(u)
    <2>6. x \in Seq(Letters) /\ y \in Seq(Letters) /\ z \in Seq(Letters)
        <3>1. z \in Seq(Letters)
            BY <1>2, <2>1, OldMeaningType
        <3>2. x \in Seq(Letters)
            BY <1>3, <2>1, TimesIs
        <3>3. y \in Seq(Letters)
            BY <1>3
        <3> QED
            BY <3>1, <3>2, <3>3
    <2>7. x \o y = Times(c, j)
        <3>1. Times(c, j - 1) \o Times(c, 1) = Times(c, (j - 1) + 1)
            BY <2>1, TimesPlus
        <3> QED
            BY <2>1, <3>1, TimesSmall
    <2> HIDE DEF t, u, x, y, z
    <2>8. x \o (y \o z) = (x \o y) \o z
        BY <2>6, ConcatAssociative
    <2>9. OldMeaning(s) = Times(c, j) \o OldMeaning(u)
        BY <2>5, <2>7, <2>8 DEF y, z
    <2> QED
        BY <2>1, <2>9 DEF u
<1>6. 0 \in Int /\ k \in Int
    BY <1>1
<1> HIDE DEF S
<1>7. \A j \in 0 .. k : j \in S
    BY <1>4, <1>5, <1>6, IntervalInduction, Zenon
<1>8. OldMeaning(s) = Times(c, k) \o OldMeaning(Drop(s, k))
    <2>1. k \in 0 .. k
        BY <1>1
    <2> QED
        BY <1>7, <2>1 DEF S
<1>9. s[k] = c
    <2>1. k \in 1 .. k
        BY <1>1
    <2> QED
        BY <1>1, <2>1
<1> QED
    BY <1>1, <1>2, <1>8, <1>9 DEF c

\* A repetition before other inputs is what they begin with.
LEMMA TimesFirst ==
    ASSUME NEW c \in Letters, NEW n \in Nat \ {0}, NEW t \in Seq(Letters)
    PROVE  /\ Times(c, n) \o t \in Seq(Letters) /\ Times(c, n) \o t # <<>>
           /\ (Times(c, n) \o t)[1] = c
<1> DEFINE s == Times(c, n)
<1>1. s \in Seq(Letters) /\ Len(s) = n /\ s[1] = c
    <2>1. 1 \in 1 .. n
        OBVIOUS
    <2> QED
        BY <2>1, TimesIs
<1> HIDE DEF s
<1>2. /\ s \o t \in Seq(Letters) /\ Len(s \o t) = n + Len(t)
      /\ \A i \in 1 .. n + Len(t) : (s \o t)[i] = IF i <= n THEN s[i] ELSE t[i - n]
    BY <1>1, ConcatProperties
<1>3. Len(t) \in Nat /\ 1 \in 1 .. n + Len(t) /\ 1 <= n
    OBVIOUS
<1> DEFINE x == s \o t
<1> HIDE DEF x
<1>4. x \in Seq(Letters) /\ Len(x) # 0 /\ x[1] = s[1]
    BY <1>2, <1>3 DEF x
<1>5. x # <<>>
    BY <1>4
<1> QED
    BY <1>1, <1>4, <1>5 DEF s, x

\* What an old log begins with: its first letter, or an idle tick when it is a count.
Begins(s) == IF s[1] \in Digit THEN Idle ELSE s[1]

\* What an old log means begins with that.
LEMMA OldMeaningFirst ==
    ASSUME NEW s \in Seq(Symbols), s # <<>>, NoNoughtBegins(s)
    PROVE  Begins(s) \in Letters /\ OldMeaning(s) # <<>> /\ OldMeaning(s)[1] = Begins(s)
<1>1. s[1] \in Symbols
    BY HeadIs
<1>2. CASE s[1] \in Digit
    <2> DEFINE k == Leading(s, Digit)
               n == Number(s, k)
    <2>1. n \in Nat \ {0} /\ OldMeaning(s) = Times(Idle, n) \o OldMeaning(Drop(s, k)) /\ Drop(s, k) \in Seq(Symbols)
        BY <1>2, OldMeaningNumber
    <2> HIDE DEF k, n
    <2>2. OldMeaning(Drop(s, k)) \in Seq(Letters)
        BY <2>1, OldMeaningType
    <2>3. Idle \in Letters
        BY ReadingIs
    <2> QED
        BY <1>2, <2>1, <2>2, <2>3, TimesFirst DEF Begins
<1>3. CASE s[1] \notin Digit
    <2>1. s[1] \in Letters
        BY <1>1, <1>3 DEF Symbols
    <2>2. Drop(s, 1) \in Seq(Symbols) /\ OldMeaning(s) = <<s[1]>> \o OldMeaning(Drop(s, 1))
        BY <2>1, OldMeaningLetter
    <2>3. OldMeaning(Drop(s, 1)) \in Seq(Letters)
        BY <2>2, OldMeaningType
    <2>4. Times(s[1], 1) = <<s[1]>> /\ 1 \in Nat \ {0}
        BY TimesSmall
    <2> DEFINE c == s[1]
               t == OldMeaning(Drop(s, 1))
    <2> HIDE DEF c, t
    <2>5. Times(c, 1) \o t # <<>> /\ (Times(c, 1) \o t)[1] = c
        BY <2>1, <2>3, <2>4, TimesFirst DEF c, t
    <2> QED
        BY <1>3, <2>1, <2>2, <2>4, <2>5 DEF Begins, c, t
<1> QED
    BY <1>2, <1>3

\* What is left of an old log is one, when no count was cut.
LEMMA OldLogDropped ==
    ASSUME NEW s, IsOldLog(s), NEW k \in 0 .. Len(s), NoNoughtBegins(Drop(s, k))
    PROVE  IsOldLog(Drop(s, k))
<1> DEFINE t == Drop(s, k)
           n == Len(s)
<1>1. s \in Seq(Digit \cup Moves)
    BY DEF IsOldLog
<1>2. /\ n \in Nat /\ t \in Seq(Digit \cup Moves) /\ Len(t) = n - k
      /\ \A i \in 1 .. n - k : t[i] = s[k + i]
    BY <1>1, DropIs
<1>3. ASSUME NEW i \in 1 .. Len(t)
      PROVE  /\ IsCount(Number(Drop(t, i - 1), Leading(Drop(t, i - 1), Digit)))
             /\ IsCount(Leading(Drop(t, i - 1), {t[i]}))
    <2>1. k + i \in 1 .. n /\ i - 1 \in 0 .. n - k /\ k + (i - 1) = (k + i) - 1 /\ i \in 1 .. n - k
        BY <1>2
    <2>2. t[i] = s[k + i]
        BY <1>2, <2>1
    <2>3. Drop(t, i - 1) = Drop(s, (k + i) - 1)
        BY <1>1, <2>1, DropTwice
    <2> DEFINE j == k + i
               u == Drop(s, j - 1)
    <2>4. IsCount(Number(u, Leading(u, Digit))) /\ IsCount(Leading(u, {s[j]}))
        <3>1. \A l \in 1 .. Len(s) : /\ IsCount(Number(Drop(s, l - 1), Leading(Drop(s, l - 1), Digit)))
                                     /\ IsCount(Leading(Drop(s, l - 1), {s[l]}))
            BY DEF IsOldLog
        <3> QED
            BY <2>1, <3>1
    <2> HIDE DEF t
    <2> QED
        BY <2>2, <2>3, <2>4
<1> HIDE DEF t
<1>4. \A i \in 1 .. Len(t) : LET u == Drop(t, i - 1)
                             IN  IsCount(Number(u, Leading(u, Digit))) /\ IsCount(Leading(u, {t[i]}))
    BY <1>3
<1> QED
    BY <1>2, <1>4 DEF IsOldLog, t

-----------------------------------------------------------------------------
(* The shortest text. *)

\* What TextLength recurses on: r[i] is how long the run of input i has lasted, f[i] the length
\* of the runs that have ended.
Lasts(r, s) ==
    r = [i \in 0 .. Len(s) |->
            IF i = 0 THEN 0
            ELSE IF i > 1 /\ s[i - 1] = s[i] THEN r[i - 1] + 1 ELSE 1]
Sums(f, r, s) ==
    f = [i \in 0 .. Len(s) |->
            IF i = 0 THEN 0
            ELSE f[i - 1] + (IF i < Len(s) /\ s[i] = s[i + 1] THEN 0 ELSE Len(Run(s[i], r[i])))]

\* The runs of a sequence have lengths.
LEMMA LastsExist ==
    ASSUME NEW s \in Seq(Letters)
    PROVE  \E r : Lasts(r, s) /\ \A i \in 0 .. Len(s) : r[i] \in Nat
<1> DEFINE n == Len(s)
           W == [i \in 0 .. n |-> Nat]
           F == [i \in 0 .. n |-> [m \in Nat |-> IF i > 1 /\ s[i - 1] = s[i] THEN m + 1 ELSE 1]]
<1>1. n \in Nat
    OBVIOUS
<1> HIDE DEF n
<1>2. 0 \in Int /\ n \in Int /\ 0 <= n /\ 0 \in W[0]
    BY <1>1
<1>3. \A i \in 0 + 1 .. n : \A m \in W[i - 1] : F[i][m] \in W[i]
    <2> SUFFICES ASSUME NEW i \in 0 + 1 .. n, NEW m \in W[i - 1] PROVE F[i][m] \in W[i]
        OBVIOUS
    <2>1. i \in 0 .. n /\ i - 1 \in 0 .. n
        BY <1>1
    <2>2. m \in Nat /\ W[i] = Nat
        BY <2>1
    <2>3. F[i][m] = IF i > 1 /\ s[i - 1] = s[i] THEN m + 1 ELSE 1
        BY <2>1, <2>2
    <2> HIDE DEF F, W
    <2> QED
        BY <2>2, <2>3
<1> HIDE DEF W, F
<1>4. PICK r : Recurses(r, 0, n, 0, F, W)
    BY <1>2, <1>3, RecursionExists, Zenon
<1>5. /\ r = [i \in 0 .. n |-> IF i = 0 THEN 0 ELSE F[i][r[i - 1]]]
      /\ \A i \in 0 .. n : r[i] \in Nat
    BY <1>4 DEF Recurses, W
<1>6. ASSUME NEW i \in 0 .. n, i # 0
      PROVE  F[i][r[i - 1]] = IF i > 1 /\ s[i - 1] = s[i] THEN r[i - 1] + 1 ELSE 1
    <2>1. r[i - 1] \in Nat
        BY <1>1, <1>5, <1>6
    <2> QED
        BY <2>1 DEF F
<1>7. Lasts(r, s)
    BY <1>5, <1>6 DEF Lasts, n
<1> QED
    BY <1>5, <1>7 DEF n

\* So have those that have ended.
LEMMA SumsExist ==
    ASSUME NEW s \in Seq(Letters), NEW r
    PROVE  \E f : Sums(f, r, s) /\ \A i \in 0 .. Len(s) : f[i] \in Nat
<1> DEFINE n == Len(s)
           more(i) == IF i < Len(s) /\ s[i] = s[i + 1] THEN 0 ELSE Len(Run(s[i], r[i]))
           W == [i \in 0 .. n |-> Nat]
           F == [i \in 0 .. n |-> [m \in Nat |-> m + more(i)]]
<1>1. n \in Nat
    OBVIOUS
<1>2. \A i : more(i) \in Nat
    <2>1. \A i : Len(Run(s[i], r[i])) \in 1 .. MaxDigits + 1
        BY RunIsText
    <2> QED
        BY <2>1, DigitsAssumption
<1> HIDE DEF n, more
<1>3. 0 \in Int /\ n \in Int /\ 0 <= n /\ 0 \in W[0]
    BY <1>1
<1>4. \A i \in 0 + 1 .. n : \A m \in W[i - 1] : F[i][m] \in W[i]
    <2> SUFFICES ASSUME NEW i \in 0 + 1 .. n, NEW m \in W[i - 1] PROVE F[i][m] \in W[i]
        OBVIOUS
    <2>1. i \in 0 .. n /\ i - 1 \in 0 .. n
        BY <1>1
    <2>2. m \in Nat /\ W[i] = Nat
        BY <2>1
    <2>3. F[i][m] = m + more(i)
        BY <2>1, <2>2
    <2> HIDE DEF F, W
    <2> QED
        BY <1>2, <2>2, <2>3
<1> HIDE DEF W, F
<1>5. PICK f : Recurses(f, 0, n, 0, F, W)
    BY <1>3, <1>4, RecursionExists, Zenon
<1>6. /\ f = [i \in 0 .. n |-> IF i = 0 THEN 0 ELSE F[i][f[i - 1]]]
      /\ \A i \in 0 .. n : f[i] \in Nat
    BY <1>5 DEF Recurses, W
<1>7. ASSUME NEW i \in 0 .. n, i # 0 PROVE F[i][f[i - 1]] = f[i - 1] + more(i)
    <2>1. f[i - 1] \in Nat
        BY <1>1, <1>6, <1>7
    <2> QED
        BY <2>1 DEF F
<1>8. f = [i \in 0 .. n |-> IF i = 0 THEN 0 ELSE f[i - 1] + more(i)]
    BY <1>6, <1>7
<1>9. Sums(f, r, s)
    BY <1>8 DEF Sums, n, more
<1> QED
    BY <1>6, <1>9 DEF n

\* u is what s begins with, and no run goes on where s is cut; two functions agree up to n.
Cut(u, s) ==
    /\ Len(u) <= Len(s) /\ \A i \in 1 .. Len(u) : u[i] = s[i]
    /\ Len(u) > 0 /\ Len(u) < Len(s) => s[Len(u)] # s[Len(u) + 1]
Agree(f, g, n) == \A i \in 0 .. n : f[i] = g[i]

\* The runs of the beginning of a sequence last as long as they do in the whole of it.
LEMMA LastsAgree ==
    ASSUME NEW s \in Seq(Letters), NEW u \in Seq(Letters), Cut(u, s),
           NEW r, Lasts(r, s), NEW q, Lasts(q, u)
    PROVE  Agree(r, q, Len(u))
<1> DEFINE n == Len(s)
           m == Len(u)
           S == {i \in 0 .. m : r[i] = q[i]}
<1>1. n \in Nat /\ m \in 0 .. n /\ \A i \in 1 .. m : u[i] = s[i]
    BY DEF Cut
<1>2. /\ \A i \in 0 .. n : r[i] = IF i = 0 THEN 0
                                  ELSE IF i > 1 /\ s[i - 1] = s[i] THEN r[i - 1] + 1 ELSE 1
      /\ \A i \in 0 .. m : q[i] = IF i = 0 THEN 0
                                  ELSE IF i > 1 /\ u[i - 1] = u[i] THEN q[i - 1] + 1 ELSE 1
    BY DEF Lasts
<1> HIDE DEF n, m
<1>3. 0 \in S
    BY <1>1, <1>2
<1>4. ASSUME NEW i \in 0 + 1 .. m, i - 1 \in S PROVE i \in S
    <2>1. i \in 0 .. m /\ i \in 0 .. n /\ i \in 1 .. m /\ i # 0 /\ (i > 1 => i - 1 \in 1 .. m)
        BY <1>1
    <2>2. r[i - 1] = q[i - 1]
        BY <1>4
    <2>3. u[i] = s[i] /\ (i > 1 => u[i - 1] = s[i - 1])
        BY <1>1, <2>1
    <2>4. /\ r[i] = IF i > 1 /\ s[i - 1] = s[i] THEN r[i - 1] + 1 ELSE 1
          /\ q[i] = IF i > 1 /\ u[i - 1] = u[i] THEN q[i - 1] + 1 ELSE 1
        BY <1>2, <2>1
    <2>5. r[i] = q[i]
        BY <2>2, <2>3, <2>4
    <2> QED
        BY <2>1, <2>5
<1>5. 0 \in Int /\ m \in Int
    BY <1>1
<1> HIDE DEF S
<1>6. \A i \in 0 .. m : i \in S
    BY <1>3, <1>4, <1>5, IntervalInduction, Zenon
<1> QED
    BY <1>6 DEF S, m, Agree

\* So do those that have ended, when none goes on where it is cut.
LEMMA SumsAgree ==
    ASSUME NEW s \in Seq(Letters), NEW u \in Seq(Letters), Cut(u, s),
           NEW r, NEW q, Agree(r, q, Len(u)),
           NEW f, Sums(f, r, s), NEW g, Sums(g, q, u)
    PROVE  Agree(f, g, Len(u))
<1> DEFINE n == Len(s)
           m == Len(u)
           S == {i \in 0 .. m : f[i] = g[i]}
<1>1. /\ n \in Nat /\ m \in 0 .. n /\ \A i \in 1 .. m : u[i] = s[i]
      /\ \A i \in 0 .. m : r[i] = q[i]
      /\ m > 0 /\ m < n => s[m] # s[m + 1]
    BY DEF Cut, Agree
<1>2. /\ \A i \in 0 .. n : f[i] = IF i = 0 THEN 0
            ELSE f[i - 1] + (IF i < n /\ s[i] = s[i + 1] THEN 0 ELSE Len(Run(s[i], r[i])))
      /\ \A i \in 0 .. m : g[i] = IF i = 0 THEN 0
            ELSE g[i - 1] + (IF i < m /\ u[i] = u[i + 1] THEN 0 ELSE Len(Run(u[i], q[i])))
    BY DEF Sums
<1> HIDE DEF n, m
<1>3. 0 \in S
    BY <1>1, <1>2
<1>4. ASSUME NEW i \in 0 + 1 .. m, i - 1 \in S PROVE i \in S
    <2>1. i \in 0 .. m /\ i \in 0 .. n /\ i \in 1 .. m /\ i # 0 /\ (i < m => i + 1 \in 1 .. m /\ i < n)
        BY <1>1
    <2>2. f[i - 1] = g[i - 1] /\ u[i] = s[i] /\ r[i] = q[i] /\ (i < m => u[i + 1] = s[i + 1])
        BY <1>1, <1>4, <2>1
    <2>3. (i < n /\ s[i] = s[i + 1]) <=> (i < m /\ u[i] = u[i + 1])
        <3>1. CASE i < m
            BY <2>1, <2>2, <3>1
        <3>2. CASE i = m
            BY <1>1, <2>1, <3>2
        <3> QED
            BY <1>1, <2>1, <3>1, <3>2
    <2>4. /\ f[i] = f[i - 1] + (IF i < n /\ s[i] = s[i + 1] THEN 0 ELSE Len(Run(s[i], r[i])))
          /\ g[i] = g[i - 1] + (IF i < m /\ u[i] = u[i + 1] THEN 0 ELSE Len(Run(u[i], q[i])))
        BY <1>2, <2>1
    <2>5. f[i] = g[i]
        BY <2>2, <2>3, <2>4
    <2> QED
        BY <2>1, <2>5
<1>5. 0 \in Int /\ m \in Int
    BY <1>1
<1> HIDE DEF S
<1>6. \A i \in 0 .. m : i \in S
    BY <1>3, <1>4, <1>5, IntervalInduction, Zenon
<1> QED
    BY <1>6 DEF S, m, Agree

\* TextLength adds up the runs.
LEMMA TextLengthIs ==
    ASSUME NEW s \in Seq(Letters)
    PROVE  \E r, f : /\ Lasts(r, s) /\ Sums(f, r, s)
                     /\ \A i \in 0 .. Len(s) : r[i] \in Nat /\ f[i] \in Nat
                     /\ TextLength(s) = f[Len(s)] /\ TextLength(s) \in Nat
<1> DEFINE r == CHOOSE x : Lasts(x, s)
           f == CHOOSE x : Sums(x, r, s)
<1>1. Cut(s, s) /\ Len(s) \in 0 .. Len(s)
    BY DEF Cut
<1>2. TextLength(s) = f[Len(s)]
    BY Zenon DEF TextLength, Lasts, Sums
<1>3. PICK q : Lasts(q, s) /\ \A i \in 0 .. Len(s) : q[i] \in Nat
    BY LastsExist
<1>4. Lasts(r, s)
    BY <1>3
<1> HIDE DEF r
<1>5. \A i \in 0 .. Len(s) : r[i] \in Nat
    <2>1. Agree(r, q, Len(s))
        BY <1>1, <1>3, <1>4, LastsAgree
    <2> QED
        BY <1>3, <2>1 DEF Agree
<1>6. PICK g : Sums(g, r, s) /\ \A i \in 0 .. Len(s) : g[i] \in Nat
    BY SumsExist
<1>7. Sums(f, r, s)
    BY <1>6
<1> HIDE DEF f
<1>8. \A i \in 0 .. Len(s) : f[i] \in Nat
    <2>1. Agree(r, r, Len(s))
        BY DEF Agree
    <2>2. Agree(f, g, Len(s))
        BY <1>1, <1>6, <1>7, <2>1, SumsAgree
    <2> QED
        BY <1>6, <2>2 DEF Agree
<1> QED
    BY <1>1, <1>2, <1>4, <1>5, <1>7, <1>8

\* Two sequences follow each other without a run that goes on from one to the other.
Apart(s, t) == s # <<>> /\ t # <<>> => s[Len(s)] # t[1]

\* What is known of a sequence that is a beginning and the rest.
LEMMA JoinedApart ==
    ASSUME NEW u \in Seq(Letters), NEW v \in Seq(Letters), Apart(u, v), NEW s, s = u \o v
    PROVE  /\ s \in Seq(Letters) /\ Len(s) = Len(u) + Len(v) /\ Len(u) \in Nat /\ Len(v) \in Nat
           /\ Cut(u, s)
           /\ \A i \in 1 .. Len(v) : v[i] = s[Len(u) + i]
<1> DEFINE n == Len(u)
           m == Len(v)
<1>1. /\ s \in Seq(Letters) /\ Len(s) = n + m /\ n \in Nat /\ m \in Nat
      /\ \A i \in 1 .. n + m : s[i] = IF i <= n THEN u[i] ELSE v[i - n]
    BY ConcatProperties
<1> HIDE DEF n, m
<1>2. ASSUME NEW i \in 1 .. n PROVE u[i] = s[i]
    <2>1. i \in 1 .. n + m /\ i <= n
        BY <1>1
    <2> QED
        BY <1>1, <2>1
<1>3. ASSUME NEW i \in 1 .. m PROVE v[i] = s[n + i]
    <2>1. n + i \in 1 .. n + m /\ ~(n + i <= n) /\ (n + i) - n = i
        BY <1>1
    <2> QED
        BY <1>1, <2>1
<1>4. ASSUME n > 0, n < Len(s) PROVE s[n] # s[n + 1]
    <2>1. n \in 1 .. n /\ 1 \in 1 .. m
        BY <1>1, <1>4
    <2>2. u # <<>> /\ v # <<>>
        <3>1. Len(u) # 0 /\ Len(v) # 0
            BY <2>1, <1>1 DEF n, m
        <3> QED
            BY <3>1
    <2>3. s[n] = u[n] /\ s[n + 1] = v[1]
        BY <1>2, <1>3, <2>1
    <2> QED
        BY <2>2, <2>3 DEF Apart, n
<1> QED
    BY <1>1, <1>2, <1>3, <1>4 DEF n, m, Cut

\* The text of a beginning is no longer than that of the whole.
LEMMA TextLengthGrows ==
    ASSUME NEW u \in Seq(Letters), NEW v \in Seq(Letters), Apart(u, v)
    PROVE  /\ TextLength(u) \in Nat /\ TextLength(u \o v) \in Nat
           /\ TextLength(u \o v) >= TextLength(u)
<1> DEFINE s == u \o v
<1>1. /\ s \in Seq(Letters) /\ Len(s) = Len(u) + Len(v) /\ Len(u) \in Nat /\ Len(v) \in Nat
      /\ Cut(u, s)
    BY JoinedApart
<1> HIDE DEF s
<1>2. PICK r, f : /\ Lasts(r, s) /\ Sums(f, r, s)
                  /\ \A i \in 0 .. Len(s) : r[i] \in Nat /\ f[i] \in Nat
                  /\ TextLength(s) = f[Len(s)] /\ TextLength(s) \in Nat
    BY <1>1, TextLengthIs
<1>3. PICK q, g : /\ Lasts(q, u) /\ Sums(g, q, u)
                  /\ TextLength(u) = g[Len(u)] /\ TextLength(u) \in Nat
    BY TextLengthIs
<1>4. Len(u) <= Len(s) /\ Len(u) \in 0 .. Len(u)
    BY <1>1
<1>5. Agree(r, q, Len(u))
    BY <1>1, <1>2, <1>3, LastsAgree
<1>6. Agree(f, g, Len(u))
    BY <1>1, <1>2, <1>3, <1>5, SumsAgree
<1> DEFINE n == Len(s)
           m == Len(u)
           S == {i \in m .. n : f[i] >= f[m]}
<1>7. n \in Nat /\ m \in 0 .. n /\ \A i \in 0 .. n : f[i] \in Nat
    BY <1>1, <1>2
<1>8. m \in S
    BY <1>7
<1>9. ASSUME NEW i \in m + 1 .. n, i - 1 \in S PROVE i \in S
    <2>1. i \in 0 .. n /\ i - 1 \in 0 .. n /\ i # 0 /\ i \in m .. n /\ m \in 0 .. n
        BY <1>7
    <2>2. f[i] = f[i - 1] + (IF i < Len(s) /\ s[i] = s[i + 1] THEN 0 ELSE Len(Run(s[i], r[i])))
        BY <1>2, <2>1 DEF Sums
    <2>3. Len(Run(s[i], r[i])) \in 1 .. MaxDigits + 1
        BY RunIsText
    <2> DEFINE more == IF i < Len(s) /\ s[i] = s[i + 1] THEN 0 ELSE Len(Run(s[i], r[i]))
    <2>4. more \in Nat
        BY <2>3, DigitsAssumption
    <2>5. f[i - 1] >= f[m] /\ f[i] = f[i - 1] + more
        BY <1>9, <2>2
    <2> HIDE DEF more, n, m
    <2>6. f[i] >= f[m]
        BY <1>7, <2>1, <2>4, <2>5
    <2> QED
        BY <2>1, <2>6
<1>10. m \in Int /\ n \in Int
    BY <1>7
<1> HIDE DEF S, n, m
<1>11. \A i \in m .. n : i \in S
    BY <1>8, <1>9, <1>10, IntervalInduction, Zenon
<1>12. f[n] >= f[m]
    <2>1. n \in m .. n
        BY <1>7
    <2> QED
        BY <1>11, <2>1 DEF S
<1>13. f[m] = TextLength(u)
    BY <1>3, <1>4, <1>6 DEF m, Agree
<1>14. f[n] = TextLength(s)
    BY <1>2 DEF n
<1> QED
    BY <1>2, <1>3, <1>12, <1>13, <1>14 DEF s

\* A run more lengthens the text by what the run is written as.
LEMMA TextLengthOfRun ==
    ASSUME NEW u \in Seq(Letters), NEW c \in Letters, NEW n \in Nat \ {0}, u # <<>> => u[Len(u)] # c
    PROVE  TextLength(u \o Times(c, n)) = TextLength(u) + Len(Run(c, n))
<1> DEFINE v == Times(c, n)
           s == u \o v
           m == Len(u)
<1>1. v \in Seq(Letters) /\ Len(v) = n /\ \A i \in 1 .. n : v[i] = c
    BY TimesIs
<1> HIDE DEF v
<1>2. Apart(u, v)
    <2>1. 1 \in 1 .. n
        OBVIOUS
    <2> QED
        BY <1>1, <2>1 DEF Apart
<1>3. /\ s \in Seq(Letters) /\ Len(s) = Len(u) + Len(v) /\ Len(u) \in Nat
      /\ Cut(u, s)
      /\ \A i \in 1 .. Len(v) : v[i] = s[Len(u) + i]
    BY <1>1, <1>2, JoinedApart
<1> HIDE DEF s
<1>4. PICK r, f : /\ Lasts(r, s) /\ Sums(f, r, s)
                  /\ \A i \in 0 .. Len(s) : r[i] \in Nat /\ f[i] \in Nat
                  /\ TextLength(s) = f[Len(s)] /\ TextLength(s) \in Nat
    BY <1>3, TextLengthIs
<1>5. PICK q, g : /\ Lasts(q, u) /\ Sums(g, q, u)
                  /\ TextLength(u) = g[Len(u)] /\ TextLength(u) \in Nat
    BY TextLengthIs
<1>6. Len(u) <= Len(s) /\ Len(u) \in 0 .. Len(u)
    BY <1>1, <1>3
<1>7. Agree(r, q, Len(u))
    BY <1>3, <1>4, <1>5, LastsAgree
<1>8. Agree(f, g, Len(u))
    BY <1>3, <1>4, <1>5, <1>7, SumsAgree
<1>9. f[m] = TextLength(u) /\ f[m + n] = TextLength(s)
    BY <1>1, <1>3, <1>4, <1>5, <1>6, <1>8 DEF Agree
<1>10. /\ m \in Nat /\ Len(s) = m + n /\ \A i \in 1 .. n : s[m + i] = c
       /\ m > 0 => s[m] # s[m + 1]
    <2>1. \A i \in 1 .. n : s[m + i] = c
        BY <1>1, <1>3
    <2>2. m > 0 => s[m] # s[m + 1]
        BY <1>1, <1>3 DEF Cut
    <2> QED
        BY <1>1, <1>3, <2>1, <2>2
<1>11. /\ \A i \in 0 .. m + n : r[i] = IF i = 0 THEN 0
                 ELSE IF i > 1 /\ s[i - 1] = s[i] THEN r[i - 1] + 1 ELSE 1
       /\ \A i \in 0 .. m + n : f[i] = IF i = 0 THEN 0
                 ELSE f[i - 1] + (IF i < m + n /\ s[i] = s[i + 1] THEN 0 ELSE Len(Run(s[i], r[i])))
    BY <1>4, <1>10 DEF Lasts, Sums
<1>12. \A i \in 0 .. m + n : r[i] \in Nat /\ f[i] \in Nat
    BY <1>4, <1>10
<1> HIDE DEF m
<1> DEFINE S == {j \in 1 .. n : r[m + j] = j /\ (j < n => f[m + j] = f[m])}
<1>13. ASSUME NEW j \in 1 .. n, f[m + (j - 1)] = f[m] PROVE j < n => f[m + j] = f[m]
    <2> SUFFICES ASSUME j < n PROVE f[m + j] = f[m]
        OBVIOUS
    <2>1. m + j \in 0 .. m + n /\ m + j # 0 /\ m + j < m + n /\ (m + j) - 1 = m + (j - 1)
          /\ (m + j) + 1 = m + (j + 1) /\ j + 1 \in 1 .. n /\ m \in 0 .. m + n
        BY <1>10
    <2>2. s[m + j] = s[(m + j) + 1]
        BY <1>10, <2>1
    <2>3. f[m + j] = f[(m + j) - 1] + 0
        BY <1>11, <2>1, <2>2
    <2> QED
        BY <1>12, <1>13, <2>1, <2>3
<1>14. 1 \in S
    <2>1. m + 1 \in 0 .. m + n /\ m + 1 # 0 /\ 1 \in 1 .. n /\ m + (1 - 1) = m /\ (m + 1) - 1 = m
        BY <1>10
    <2>2. ~(m + 1 > 1 /\ s[(m + 1) - 1] = s[m + 1])
        BY <1>10, <2>1
    <2>3. r[m + 1] = 1
        BY <1>11, <2>1, <2>2
    <2>4. 1 < n => f[m + 1] = f[m]
        BY <1>13, <2>1
    <2> QED
        BY <2>1, <2>3, <2>4
<1>15. ASSUME NEW j \in 1 + 1 .. n, j - 1 \in S PROVE j \in S
    <2>1. /\ m + j \in 0 .. m + n /\ m + j > 1 /\ m + j # 0 /\ j \in 1 .. n /\ j - 1 \in 1 .. n /\ j - 1 < n
          /\ (m + j) - 1 = m + (j - 1)
        BY <1>10
    <2>2. r[m + (j - 1)] = j - 1 /\ f[m + (j - 1)] = f[m]
        BY <1>15, <2>1
    <2>3. s[(m + j) - 1] = s[m + j]
        BY <1>10, <2>1
    <2>4. r[m + j] = r[(m + j) - 1] + 1
        BY <1>11, <2>1, <2>3
    <2>5. r[m + j] = j
        BY <2>1, <2>2, <2>4
    <2>6. j < n => f[m + j] = f[m]
        BY <1>13, <2>1, <2>2
    <2> QED
        BY <2>1, <2>5, <2>6
<1>16. 1 \in Int /\ n \in Int
    OBVIOUS
<1> HIDE DEF S
<1>17. \A j \in 1 .. n : j \in S
    BY <1>14, <1>15, <1>16, IntervalInduction, Zenon
<1>18. f[m + n] = f[m] + Len(Run(c, n))
    <2>1. n \in 1 .. n /\ m + n \in 0 .. m + n /\ m + n # 0 /\ ~(m + n < m + n) /\ (m + n) - 1 = m + (n - 1)
        BY <1>10
    <2>2. r[m + n] = n /\ s[m + n] = c
        BY <1>10, <1>17, <2>1 DEF S
    <2>3. f[m + n] = f[(m + n) - 1] + Len(Run(c, n))
        BY <1>11, <2>1, <2>2
    <2>4. f[m + (n - 1)] = f[m]
        <3>1. CASE n = 1
            BY <1>10, <3>1
        <3>2. CASE n # 1
            <4>1. n - 1 \in 1 .. n /\ n - 1 < n
                BY <3>2
            <4> QED
                BY <1>17, <4>1 DEF S
        <3> QED
            BY <3>1, <3>2
    <2> QED
        BY <2>1, <2>3, <2>4
<1> QED
    BY <1>9, <1>18 DEF s, v

-----------------------------------------------------------------------------
(* The recorder. *)

LoggedOf(p) == IF p = <<>> \/ p[1] = Idle THEN p ELSE <<Idle>> \o p

\* What the recorder knows of a play p that it has logged as s (of length l, as it counts), when
\* input c goes on for n ticks.
Recorded(c, n, s, l, p) ==
    /\ p = <<>> => c = Idle /\ n = 0 /\ s = <<>> /\ l = 0
    /\ p # <<>> => n > 0
    /\ n <= Len(p) /\ Len(p) <= MaxTicks
    /\ NoNoughtBegins(s)
    /\ IsStart(Meaning(s), LoggedOf(p))
    /\ l < Limit => Settled(s) /\ Meaning(s) \o Times(c, n) = LoggedOf(p)

\* What a sequence begins with it begins with when it is longer.
LEMMA StartGrows ==
    ASSUME NEW A, NEW s \in Seq(A), NEW t \in Seq(A), NEW u \in Seq(A)
    PROVE  /\ IsStart(s, s \o u)
           /\ IsStart(s, t) => IsStart(s, t \o u)
<1>1. Len(s) \in Nat /\ Len(t) \in Nat /\ Len(u) \in Nat
    OBVIOUS
<1>2. ASSUME NEW v \in Seq(A), Len(s) <= Len(v), \A i \in 1 .. Len(s) : s[i] = v[i] PROVE IsStart(s, v)
    <2> DEFINE x == SubSeq(v, 1, Len(s))
    <2>1. \A i \in 1 .. Len(s) : v[i] \in A
        BY <1>1, <1>2
    <2>2. x \in Seq(A) /\ Len(x) = Len(s) /\ \A i \in 1 .. Len(s) : x[i] = v[i]
        BY <1>1, <2>1, SubSeqProperties
    <2> HIDE DEF x
    <2>3. s = x
        BY <1>2, <2>2, SeqEqual
    <2> QED
        BY <1>2, <2>3 DEF IsStart, x
<1>3. ASSUME NEW v \in Seq(A), IsStart(s, v) PROVE Len(s) <= Len(v) /\ \A i \in 1 .. Len(s) : s[i] = v[i]
    <2> DEFINE x == SubSeq(v, 1, Len(s))
    <2>1. Len(s) <= Len(v) /\ s = x
        BY <1>3 DEF IsStart
    <2>2. \A i \in 1 .. Len(s) : v[i] \in A
        BY <1>1, <2>1
    <2>3. \A i \in 1 .. Len(s) : x[i] = v[i]
        BY <1>1, <2>2, SubSeqProperties
    <2> HIDE DEF x
    <2> QED
        BY <2>1, <2>3
<1>4. ASSUME NEW v \in Seq(A)
      PROVE  /\ v \o u \in Seq(A) /\ Len(v) <= Len(v \o u)
             /\ \A i \in 1 .. Len(v) : v[i] = (v \o u)[i]
    <2>1. /\ v \o u \in Seq(A) /\ Len(v \o u) = Len(v) + Len(u) /\ Len(v) \in Nat
          /\ \A i \in 1 .. Len(v) + Len(u) : (v \o u)[i] = IF i <= Len(v) THEN v[i] ELSE u[i - Len(v)]
        BY ConcatProperties
    <2>2. Len(v) <= Len(v \o u)
        BY <1>1, <2>1
    <2>3. ASSUME NEW i \in 1 .. Len(v) PROVE v[i] = (v \o u)[i]
        <3>1. i \in 1 .. Len(v) + Len(u) /\ i <= Len(v)
            BY <1>1, <2>1
        <3> QED
            BY <2>1, <3>1
    <2> QED
        BY <2>1, <2>2, <2>3
<1>5. IsStart(s, s \o u)
    <2> DEFINE v == s \o u
    <2>1. v \in Seq(A) /\ Len(s) <= Len(v) /\ \A i \in 1 .. Len(s) : s[i] = v[i]
        BY <1>4
    <2> HIDE DEF v
    <2>2. IsStart(s, v)
        BY <1>2, <2>1
    <2> QED
        BY <2>2 DEF v
<1>6. ASSUME IsStart(s, t) PROVE IsStart(s, t \o u)
    <2> DEFINE v == t \o u
    <2>1. v \in Seq(A) /\ Len(t) <= Len(v) /\ \A i \in 1 .. Len(t) : t[i] = v[i]
        BY <1>4
    <2>2. Len(s) <= Len(t) /\ \A i \in 1 .. Len(s) : s[i] = t[i]
        BY <1>3, <1>6
    <2> HIDE DEF v
    <2>3. Len(s) <= Len(v)
        BY <1>1, <2>1, <2>2
    <2>4. \A i \in 1 .. Len(s) : s[i] = v[i]
        <3> SUFFICES ASSUME NEW i \in 1 .. Len(s) PROVE s[i] = v[i]
            OBVIOUS
        <3>1. i \in 1 .. Len(t)
            BY <1>1, <2>2
        <3> QED
            BY <2>1, <2>2, <3>1
    <2>5. IsStart(s, v)
        BY <1>2, <2>1, <2>3, <2>4
    <2> QED
        BY <2>5 DEF v
<1> QED
    BY <1>5, <1>6

\* A tick more of the play is a tick more of what is logged, except that a play that begins with
\* a key has an idle tick before it.
LEMMA LoggedGrows ==
    ASSUME NEW p \in Seq(Letters), NEW a \in Letters
    PROVE  /\ LoggedOf(p) \in Seq(Letters)
           /\ Append(p, a) \in Seq(Letters) /\ Append(p, a) # <<>> /\ Len(Append(p, a)) = Len(p) + 1
           /\ p # <<>> \/ a = Idle => LoggedOf(Append(p, a)) = LoggedOf(p) \o <<a>>
           /\ p = <<>> /\ a # Idle => LoggedOf(Append(p, a)) = <<Idle>> \o <<a>>
<1> DEFINE q == Append(p, a)
           y == <<a>>
           z == <<Idle>>
<1>1. q \in Seq(Letters) /\ q # <<>> /\ Len(q) = Len(p) + 1
    BY AppendProperties
<1>2. q = p \o y
    BY AppendIsConcat
<1>3. y \in Seq(Letters) /\ z \in Seq(Letters)
    <2>1. Idle \in Letters
        BY ReadingIs
    <2> QED
        BY <2>1
<1>4. z \o p \in Seq(Letters)
    BY <1>3, ConcatProperties
<1>5. LoggedOf(p) \in Seq(Letters)
    BY <1>4 DEF LoggedOf
<1>6. CASE p = <<>>
    <2>1. q = y /\ q[1] = a
        BY <1>6
    <2>2. LoggedOf(p) = <<>> /\ <<>> \o y = y
        BY <1>3, <1>6, ConcatEmptySeq DEF LoggedOf
    <2>3. a = Idle => LoggedOf(q) = q
        BY <2>1 DEF LoggedOf
    <2>4. a # Idle => LoggedOf(q) = z \o q
        BY <1>1, <2>1 DEF LoggedOf
    <2> HIDE DEF q
    <2> QED
        BY <1>1, <1>5, <1>6, <2>1, <2>2, <2>3, <2>4 DEF q
<1>7. CASE p # <<>>
    <2>1. Len(p) >= 1 /\ Len(p) \in Nat
        BY <1>7, EmptySeq
    <2>2. q[1] = p[1]
        <3>1. 1 \in 1 .. Len(p)
            BY <2>1
        <3> QED
            BY <3>1, AppendProperties
    <2> HIDE DEF q, y, z
    <2>3. p[1] = Idle => LoggedOf(q) = q /\ LoggedOf(p) = p
        BY <2>2 DEF LoggedOf
    <2>4. p[1] # Idle => LoggedOf(q) = z \o q /\ LoggedOf(p) = z \o p
        BY <1>1, <1>7, <2>2 DEF LoggedOf, z
    <2>5. z \o (p \o y) = (z \o p) \o y
        BY <1>3, ConcatAssociative
    <2>6. LoggedOf(q) = LoggedOf(p) \o y
        BY <1>2, <2>3, <2>4, <2>5
    <2> QED
        BY <1>1, <1>5, <1>7, <2>6 DEF q, y
<1> QED
    BY <1>6, <1>7

\* What has been recorded has a meaning.
LEMMA MeaningType ==
    ASSUME NEW s \in Seq(Symbols)
    PROVE  Meaning(s) \in Seq(Letters) /\ NewReading(s) \in Readings
<1>1. NewReading(s) \in Readings
    BY NewReader, ReadingIs, FoldedSteps DEF NewReading
<1> QED
    BY <1>1, MeaningIs, ReadingIs

\* The run goes on.
LEMMA RecordGoesOn ==
    ASSUME NEW c \in Letters, NEW n \in Nat, NEW s \in Seq(Symbols), NEW l \in Nat, NEW p \in Seq(Letters),
           Recorded(c, n, s, l, p), Len(p) < MaxTicks
    PROVE  Recorded(c, n + 1, s, l, Append(p, c))
<1> DEFINE q == Append(p, c)
           m == Meaning(s)
           y == <<c>>
<1>1. q \in Seq(Letters) /\ q # <<>> /\ Len(q) = Len(p) + 1
    BY LoggedGrows
<1>2. LoggedOf(p) \in Seq(Letters) /\ LoggedOf(q) = LoggedOf(p) \o y
    <2>1. p # <<>> \/ c = Idle
        BY DEF Recorded
    <2> QED
        BY <2>1, LoggedGrows
<1>3. m \in Seq(Letters) /\ y \in Seq(Letters)
    BY MeaningType
<1>4. n + 1 > 0 /\ n + 1 <= Len(q) /\ Len(q) <= MaxTicks
    <2>1. n <= Len(p) /\ Len(p) \in Nat
        BY DEF Recorded
    <2> QED
        BY <1>1, <2>1, TicksAssumption
<1>5. IsStart(m, LoggedOf(q))
    <2>1. IsStart(m, LoggedOf(p))
        BY DEF Recorded
    <2> DEFINE x == LoggedOf(p)
    <2> HIDE DEF m, y, x
    <2>2. IsStart(m, x \o y)
        BY <1>2, <1>3, <2>1, StartGrows DEF x
    <2> QED
        BY <1>2, <2>2 DEF x
<1>6. ASSUME l < Limit PROVE Settled(s) /\ m \o Times(c, n + 1) = LoggedOf(q)
    <2> DEFINE x == Times(c, n)
    <2>1. Settled(s) /\ m \o x = LoggedOf(p)
        BY <1>6 DEF Recorded
    <2>2. x \in Seq(Letters)
        BY TimesIs
    <2>3. Times(c, n + 1) = x \o y
        <3>1. Times(c, n) \o Times(c, 1) = Times(c, n + 1)
            BY TimesPlus
        <3> QED
            BY <3>1, TimesSmall
    <2> HIDE DEF m, x, y
    <2>4. Chained(m, Chained(x, y)) = Chained(Chained(m, x), y)
        BY <1>3, <2>2, ChainedIs
    <2>5. m \o (x \o y) = (m \o x) \o y
        BY <2>4 DEF Chained
    <2> QED
        BY <1>2, <2>1, <2>3, <2>5
<1>7. NoNoughtBegins(s)
    BY DEF Recorded
<1> HIDE DEF q, m
<1> QED
    BY <1>1, <1>4, <1>5, <1>6, <1>7 DEF Recorded, q, m

\* A full log stays as it is.
LEMMA RecordFull ==
    ASSUME NEW c \in Letters, NEW n \in Nat, NEW s \in Seq(Symbols), NEW l \in Nat, NEW p \in Seq(Letters),
           Recorded(c, n, s, l, p), Len(p) < MaxTicks, ~(l < Limit), NEW a \in Letters
    PROVE  p # <<>> /\ Recorded(c, n, s, l, Append(p, a))
<1> DEFINE q == Append(p, a)
           m == Meaning(s)
           y == <<a>>
<1>1. p # <<>>
    <2>1. l # 0
        BY LimitAssumption
    <2> QED
        BY <2>1 DEF Recorded
<1>2. /\ q \in Seq(Letters) /\ q # <<>> /\ Len(q) = Len(p) + 1
      /\ LoggedOf(p) \in Seq(Letters) /\ LoggedOf(q) = LoggedOf(p) \o y
    BY <1>1, LoggedGrows
<1>3. m \in Seq(Letters) /\ y \in Seq(Letters)
    BY MeaningType
<1>4. n > 0 /\ n <= Len(q) /\ Len(q) <= MaxTicks
    <2>1. n > 0 /\ n <= Len(p) /\ Len(p) \in Nat
        BY <1>1 DEF Recorded
    <2> QED
        BY <1>2, <2>1, TicksAssumption
<1>5. IsStart(m, LoggedOf(q))
    <2>1. IsStart(m, LoggedOf(p))
        BY DEF Recorded
    <2> DEFINE x == LoggedOf(p)
    <2> HIDE DEF m, y, x
    <2>2. IsStart(m, x \o y)
        BY <1>2, <1>3, <2>1, StartGrows DEF x
    <2> QED
        BY <1>2, <2>2 DEF x
<1>6. NoNoughtBegins(s)
    BY DEF Recorded
<1> HIDE DEF q, m
<1> QED
    BY <1>1, <1>2, <1>4, <1>5, <1>6 DEF Recorded, q, m

\* A run that is cut off has lost its letter: its digits do not change the meaning.
LEMMA RunCut ==
    ASSUME NEW s \in Seq(Symbols), NEW c \in Letters, NEW n \in Nat \ {0}, IsCount(n),
           NEW cut \in 0 .. Len(Run(c, n)), cut < Len(Run(c, n))
    PROVE  Meaning(s \o Kept(Run(c, n), cut)) = Meaning(s)
<1> DEFINE run == Run(c, n)
           t == Kept(run, cut)
           m == NewReading(s)
<1>1. run \in Seq(Symbols)
    <2>1. Empty \in Readings /\ Empty.count = 0
        BY ReadingIs
    <2> QED
        BY <2>1, NewRun
<1>2. t \in Seq(Symbols) /\ Len(t) = cut /\ \A i \in 1 .. cut : t[i] = run[i]
    BY <1>1, DropIs
<1>3. \A i \in 1 .. cut : run[i] \in Digit
    <2>1. CASE n = 1
        <3>1. run = <<c>>
            BY <2>1 DEF Run
        <3>2. Len(run) = 1 /\ cut = 0
            BY <3>1
        <3> QED
            BY <3>2
    <2>2. CASE n > 1
        <3> DEFINE d == Digits(n)
        <3>1. d \in Seq(Digit)
            BY DigitsAre
        <3>2. run = d \o <<c>>
            BY <2>2 DEF Run
        <3> HIDE DEF d
        <3>3. d \in Seq(Symbols) /\ <<c>> \in Seq(Symbols) /\ Len(<<c>>) = 1 /\ Len(d) \in Nat
            BY <3>1 DEF Symbols
        <3>4. /\ Len(run) = Len(d) + 1
              /\ \A i \in 1 .. Len(d) + 1 : run[i] = IF i <= Len(d) THEN d[i] ELSE <<c>>[i - Len(d)]
            BY <3>2, <3>3, ConcatProperties
        <3> HIDE DEF run
        <3> SUFFICES ASSUME NEW i \in 1 .. cut PROVE run[i] \in Digit
            OBVIOUS
        <3>5. i \in 1 .. Len(d) + 1 /\ i \in 1 .. Len(d)
            BY <3>3, <3>4 DEF run
        <3> QED
            BY <3>1, <3>4, <3>5
    <2> QED
        BY <2>1, <2>2
<1> HIDE DEF t, run
<1>4. t \in Seq(Digit)
    BY <1>2, <1>3
<1>5. m \in Readings
    BY MeaningType
<1>6. NewReading(s \o t) = Folded(t, NewReads, m)
    BY <1>2, NewReader, ReadingIs, FoldedConcat DEF NewReading
<1> HIDE DEF m
<1>7. Folded(t, NewReads, m) = [count |-> Folded(t, NumberReads, m.count), inputs |-> m.inputs]
    BY <1>4, <1>5, DigitsRead
<1>8. s \o t \in Seq(Symbols)
    BY <1>2, ConcatProperties
<1> DEFINE u == s \o t
<1>9. Folded(t, NewReads, m).inputs = m.inputs
    BY <1>7
<1> HIDE DEF u
<1>10. Meaning(u) = NewReading(u).inputs
    BY <1>8, MeaningIs DEF u
<1>11. Meaning(s) = m.inputs
    BY MeaningIs DEF m
<1>12. Meaning(u) = Meaning(s)
    BY <1>6, <1>9, <1>10, <1>11 DEF u
<1> QED
    BY <1>12 DEF u, t, run

\* What the log is when the run that goes on has ended, as far as the buffer has room for it.
Ended(c, n, s, l) ==
    IF n > 1 THEN s \o Kept(Run(c, n), Least(Len(Run(c, n)), Limit - l - 1)) ELSE Append(s, c)

\* A run is in the log e behind s whole, or without its end.
Whole(e, s, run)  == e = s \o run
CutOff(e, s, run) == \E cut \in 0 .. Len(run) : cut < Len(run) /\ e = s \o Kept(run, cut)

\* A run that has ended is in the log whole, or it has filled it and lost its letter.
LEMMA EndedIs ==
    ASSUME NEW c \in Letters, NEW n \in Nat \ {0}, NEW s \in Seq(Symbols), NEW l \in Nat, l < Limit
    PROVE  \/ Whole(Ended(c, n, s, l), s, Run(c, n))
           \/ l + Len(Run(c, n)) >= Limit /\ CutOff(Ended(c, n, s, l), s, Run(c, n))
<1> DEFINE run == Run(c, n)
           room == Limit - l - 1
           cut == Least(Len(run), room)
<1>1. Len(run) \in Nat \ {0}
    BY RunIsText, DigitsAssumption
<1>2. room \in Nat
    BY LimitAssumption
<1>3. CASE n > 1 /\ Len(run) <= room
    <2>1. PICK T : run \in Seq(T)
        BY RunIsText
    <2> HIDE DEF run
    <2>2. cut = Len(run)
        BY <1>1, <1>2, <1>3 DEF Least
    <2>3. Kept(run, Len(run)) \in Seq(T) /\ Len(Kept(run, Len(run))) = Len(run)
          /\ \A i \in 1 .. Len(run) : Kept(run, Len(run))[i] = run[i]
        <3>1. Len(run) \in 0 .. Len(run)
            BY <1>1
        <3> QED
            BY <2>1, <3>1, DropIs
    <2>4. Kept(run, Len(run)) = run
        BY <2>1, <2>3, SeqEqual
    <2>5. Ended(c, n, s, l) = s \o Kept(run, cut)
        BY <1>3 DEF Ended, run
    <2> HIDE DEF cut
    <2> QED
        BY <2>2, <2>4, <2>5 DEF run, Whole
<1>4. CASE n > 1 /\ ~(Len(run) <= room)
    <2> HIDE DEF run
    <2>1. cut = room
        BY <1>1, <1>2, <1>4 DEF Least
    <2> HIDE DEF cut
    <2>2. cut \in 0 .. Len(run) /\ cut < Len(run) /\ l + Len(run) >= Limit
        BY <1>1, <1>2, <1>4, <2>1, LimitAssumption
    <2>3. Ended(c, n, s, l) = s \o Kept(run, cut)
        BY <1>4 DEF Ended, run, cut
    <2> QED
        BY <2>2, <2>3 DEF run, CutOff
<1>5. CASE ~(n > 1)
    <2>1. run = <<c>>
        BY <1>5 DEF Run
    <2>2. c \in Symbols
        BY DEF Symbols
    <2>3. Append(s, c) = s \o <<c>>
        BY <2>2, AppendIsConcat
    <2> QED
        BY <1>5, <2>1, <2>3 DEF Ended, Whole
<1> QED
    BY <1>3, <1>4, <1>5

\* When a run ends the log has the play up to there, or is full and has a beginning of it.
LEMMA RunEnds ==
    ASSUME NEW c \in Letters, NEW n \in Nat \ {0}, IsCount(n),
           NEW s \in Seq(Symbols), NoNoughtBegins(s), Settled(s),
           NEW l \in Nat, l < Limit, NEW e, e = Ended(c, n, s, l)
    PROVE  /\ e \in Seq(Symbols) /\ NoNoughtBegins(e)
           /\ IsStart(Meaning(e), Meaning(s) \o Times(c, n))
           /\ l + Len(Run(c, n)) < Limit =>
                  Settled(e) /\ Meaning(e) = Meaning(s) \o Times(c, n)
<1>0. /\ \A cut \in 0 .. Len(Run(c, n)) :
            cut < Len(Run(c, n)) => Meaning(s \o Kept(Run(c, n), cut)) = Meaning(s)
      /\ \/ Whole(e, s, Run(c, n))
         \/ l + Len(Run(c, n)) >= Limit /\ CutOff(e, s, Run(c, n))
    BY RunCut, EndedIs
<1> DEFINE run == Run(c, n)
           m == Meaning(s)
           x == Times(c, n)
<1>1. /\ s \o run \in Seq(Symbols) /\ m \in Seq(Letters)
      /\ Meaning(s \o run) = m \o x /\ Settled(s \o run)
    BY RunAppended
<1>2. run \in Seq(Symbols) /\ NoNoughtBegins(run)
    <2>1. Empty \in Readings /\ Empty.count = 0
        BY ReadingIs
    <2> QED
        BY <2>1, NewRun, NoNoughtInRun
<1>3. x \in Seq(Letters)
    BY TimesIs
<1>4. m \o x \in Seq(Letters)
    BY <1>1, <1>3, ConcatProperties
<1>5. IsStart(m, m \o x)
    <2> HIDE DEF m, x
    <2> QED
        BY <1>1, <1>3, StartGrows
<1>6. IsStart(m \o x, m \o x)
    <2> DEFINE y == m \o x
    <2>1. y \in Seq(Letters) /\ <<>> \in Seq(Letters) /\ y \o <<>> = y
        BY <1>4, ConcatEmptySeq
    <2> HIDE DEF y
    <2>2. IsStart(y, y \o <<>>)
        BY <2>1, StartGrows
    <2> QED
        BY <2>1, <2>2 DEF y
<1>7. CASE e = s \o run
    <2>1. NoNoughtBegins(s \o run)
        BY <1>2, NoNoughtJoined
    <2> HIDE DEF run, m, x
    <2> QED
        BY <1>1, <1>6, <1>7, <2>1 DEF run, m, x
<1>8. ASSUME l + Len(run) >= Limit, NEW cut \in 0 .. Len(run), cut < Len(run), e = s \o Kept(run, cut)
      PROVE  /\ e \in Seq(Symbols) /\ NoNoughtBegins(e) /\ IsStart(Meaning(e), m \o x)
             /\ ~(l + Len(run) < Limit)
    <2> DEFINE t == Kept(run, cut)
    <2>1. t \in Seq(Symbols) /\ NoNoughtBegins(t)
        <3> HIDE DEF run
        <3> QED
            BY <1>2, DropIs, NoNoughtInParts
    <2>2. s \o t \in Seq(Symbols) /\ NoNoughtBegins(s \o t)
        <3> HIDE DEF t
        <3> QED
            BY <2>1, ConcatProperties, NoNoughtJoined
    <2>3. Meaning(s \o t) = m
        BY <1>0, <1>8
    <2>4. Len(run) \in Nat
        BY <1>2
    <2> HIDE DEF t, run, m, x
    <2>5. Meaning(e) = m
        BY <1>8, <2>3 DEF t
    <2>6. ~(l + Len(run) < Limit)
        BY <1>8, <2>4, LimitAssumption
    <2> QED
        BY <1>5, <1>8, <2>2, <2>5, <2>6 DEF t
<1>9. Whole(e, s, run) \/ (l + Len(run) >= Limit /\ CutOff(e, s, run))
    BY <1>0
<1> HIDE DEF run, m, x
<1>10. CASE Whole(e, s, run)
    BY <1>7, <1>10 DEF run, m, x, Whole
<1>11. CASE ~Whole(e, s, run)
    <2>1. PICK cut \in 0 .. Len(run) : cut < Len(run) /\ e = s \o Kept(run, cut)
        BY <1>9, <1>11 DEF CutOff
    <2>2. e \in Seq(Symbols) /\ NoNoughtBegins(e) /\ IsStart(Meaning(e), m \o x) /\ ~(l + Len(run) < Limit)
        BY <1>8, <1>9, <1>11, <2>1
    <2> QED
        BY <2>2 DEF run, m, x
<1> QED
    BY <1>10, <1>11

\* A tick with another input ends the run; the first run of a play may be the idle tick that was
\* never played.
LEMMA RecordEnds ==
    ASSUME NEW c \in Letters, NEW n \in Nat, NEW s \in Seq(Symbols), NEW l \in Nat, NEW p \in Seq(Letters),
           Recorded(c, n, s, l, p), Len(p) < MaxTicks, l < Limit, NEW a \in Letters, a # c
    PROVE  /\ Ended(c, n, s, l) \in Seq(Symbols)
           /\ Recorded(a, 1, Ended(c, n, s, l), l + Len(Run(c, n)), Append(p, a))
<1>0. ASSUME NEW k \in Nat \ {0}, IsCount(k), NoNoughtBegins(s), Settled(s),
             NEW e, e = Ended(c, k, s, l)
      PROVE  /\ e \in Seq(Symbols) /\ NoNoughtBegins(e) /\ IsStart(Meaning(e), Meaning(s) \o Times(c, k))
             /\ l + Len(Run(c, k)) < Limit =>
                    Settled(e) /\ Meaning(e) = Meaning(s) \o Times(c, k)
    BY <1>0, RunEnds
<1> DEFINE k == IF n = 0 THEN 1 ELSE n
           e == Ended(c, n, s, l)
           q == Append(p, a)
           y == <<a>>
           m == Meaning(s)
           x == Times(c, k)
           z == l + Len(Run(c, n))
<1>1. n <= Len(p) /\ Len(p) \in Nat /\ (n = 0 => p = <<>> /\ c = Idle /\ s = <<>> /\ l = 0)
    BY DEF Recorded
<1>2. k \in Nat \ {0} /\ IsCount(k)
    <2>1. k \in Nat \ {0} /\ k <= MaxTicks
        BY <1>1, TicksAssumption
    <2> HIDE DEF k
    <2> QED
        BY <2>1, TicksAssumption, SmallerIsCount
<1>3. Run(c, n) = Run(c, k) /\ e = Ended(c, k, s, l)
    BY DEF Run, Ended
<1>4. NoNoughtBegins(s) /\ Settled(s) /\ m \o Times(c, n) = LoggedOf(p)
    BY DEF Recorded
<1>5. /\ e \in Seq(Symbols) /\ NoNoughtBegins(e) /\ IsStart(Meaning(e), m \o x)
      /\ z < Limit => Settled(e) /\ Meaning(e) = m \o x
    <2>1. /\ e \in Seq(Symbols) /\ NoNoughtBegins(e) /\ IsStart(Meaning(e), Meaning(s) \o Times(c, k))
          /\ l + Len(Run(c, k)) < Limit =>
                 Settled(e) /\ Meaning(e) = Meaning(s) \o Times(c, k)
        <3>1. k \in Nat \ {0} /\ IsCount(k) /\ e = Ended(c, k, s, l)
            BY <1>2, <1>3
        <3>2. NoNoughtBegins(s) /\ Settled(s)
            BY <1>4
        <3> HIDE DEF k, e, x, q, m
        <3> QED
            BY <1>0, <3>1, <3>2
    <2> QED
        BY <1>3, <2>1
<1>6. q \in Seq(Letters) /\ q # <<>> /\ Len(q) = Len(p) + 1
    BY LoggedGrows
<1>7. m \in Seq(Letters) /\ x \in Seq(Letters) /\ y \in Seq(Letters) /\ Meaning(e) \in Seq(Letters)
    <2>1. x \in Seq(Letters)
        <3> HIDE DEF k
        <3> QED
            BY <1>2, TimesIs
    <2>2. m \in Seq(Letters) /\ Meaning(e) \in Seq(Letters)
        BY <1>5, MeaningType
    <2> QED
        BY <2>1, <2>2
<1>8. m \o x \in Seq(Letters) /\ LoggedOf(q) = (m \o x) \o y
    <2>1. CASE n = 0
        <3>1. p = <<>> /\ a # Idle /\ LoggedOf(p) = <<>> /\ x = <<Idle>>
            BY <1>1, <2>1, TimesSmall DEF LoggedOf
        <3>2. LoggedOf(q) = <<Idle>> \o y
            BY <3>1, LoggedGrows
        <3>3. m = <<>>
            <4>1. Times(c, n) = <<>>
                BY <2>1, TimesSmall
            <4> HIDE DEF m
            <4>2. m \o <<>> = m
                BY <1>7, ConcatEmptySeq
            <4> QED
                BY <1>4, <3>1, <4>1, <4>2
        <3>4. <<>> \o <<Idle>> = <<Idle>>
            BY <1>7, <3>1, ConcatEmptySeq
        <3> HIDE DEF m, x
        <3> QED
            BY <1>7, <3>1, <3>2, <3>3, <3>4
    <2>2. CASE n # 0
        <3>1. p # <<>>
            <4>1. Len(<<>>) = 0
                OBVIOUS
            <4> QED
                BY <1>1, <2>2, <4>1
        <3>2. LoggedOf(q) = LoggedOf(p) \o y /\ LoggedOf(p) \in Seq(Letters)
            BY <3>1, LoggedGrows
        <3>3. m \o x = LoggedOf(p)
            BY <1>4, <2>2
        <3> HIDE DEF m, x
        <3> QED
            BY <3>2, <3>3
    <2> QED
        BY <2>1, <2>2
<1>9. IsStart(Meaning(e), LoggedOf(q))
    <2> DEFINE v == m \o x
               w == Meaning(e)
    <2> HIDE DEF v, w, y
    <2>1. IsStart(w, v \o y)
        BY <1>5, <1>7, <1>8, StartGrows DEF v, w
    <2> QED
        BY <1>8, <2>1 DEF v, w
<1>10. Times(a, 1) = y
    BY TimesSmall
<1>11. 1 > 0 /\ 1 <= Len(q) /\ Len(q) <= MaxTicks
    BY <1>1, <1>6, TicksAssumption
<1> HIDE DEF e, q, m, x, y, z
<1>12. z < Limit => Settled(e) /\ Meaning(e) \o Times(a, 1) = LoggedOf(q)
    BY <1>5, <1>8, <1>10
<1>13. Recorded(a, 1, e, z, q)
    BY <1>5, <1>6, <1>9, <1>11, <1>12 DEF Recorded
<1> QED
    BY <1>5, <1>13 DEF e, q, z

-----------------------------------------------------------------------------
(* The converter and the replay. *)

\* What the converter has written as t of a play p of which it has yet to read r.
InConversion(t, r, p) ==
    /\ IsOldLog(r) /\ NoNoughtBegins(t) /\ Settled(t)
    /\ Meaning(t) \o OldMeaning(r) = p
    /\ Len(t) = TextLength(Meaning(t))
    /\ Meaning(t) # <<>> /\ r # <<>> => Meaning(t)[Len(Meaning(t))] # Begins(r)

\* What the replay has given to its game as g of the text t of which it has yet to read r, with i
\* ticks left of the count it read last.
InReplay(t, r, i, g) ==
    /\ NoNoughtBegins(r)
    /\ (g \o Times(Idle, i)) \o OldMeaning(r) = OldMeaning(t)

\* At the head of the old log r, before q, are n ticks of input c.
HeadRun(r, q, c, n) ==
    /\ c \in Letters /\ n \in Nat \ {0} /\ IsCount(n)
    /\ IsOldLog(q)
    /\ r # <<>> /\ Begins(r) = c /\ (q # <<>> => Begins(q) # c)
    /\ OldMeaning(r) = Times(c, n) \o OldMeaning(q)

\* An old log is a text, and stays as it is when nothing is read of it.
LEMMA OldLogIs ==
    ASSUME NEW r, IsOldLog(r)
    PROVE  /\ r \in Seq(Digit \cup Moves) /\ r \in Seq(Symbols) /\ NoNoughtBegins(r)
           /\ r # <<>> => /\ IsCount(Number(r, Leading(r, Digit)))
                          /\ IsCount(Leading(r, {r[1]}))
<1>1. r \in Seq(Digit \cup Moves) /\ NoNoughtBegins(r)
    BY DEF IsOldLog
<1>2. r \in Seq(Symbols)
    BY <1>1 DEF Symbols, Letters
<1>3. ASSUME r # <<>> PROVE IsCount(Number(r, Leading(r, Digit))) /\ IsCount(Leading(r, {r[1]}))
    <2>1. 1 \in 1 .. Len(r) /\ 1 - 1 = 0
        BY <1>2, <1>3, EmptySeq
    <2>2. Drop(r, 0) = r
        <3>1. 0 \in 0 .. Len(r)
            BY <1>2
        <3>2. /\ Drop(r, 0) \in Seq(Symbols) /\ Len(Drop(r, 0)) = Len(r) - 0
              /\ \A i \in 1 .. Len(r) - 0 : Drop(r, 0)[i] = r[0 + i]
            BY <1>2, <3>1, DropIs
        <3>3. Len(Drop(r, 0)) = Len(r) /\ \A i \in 1 .. Len(r) : Drop(r, 0)[i] = r[i]
            BY <1>2, <3>2
        <3> QED
            BY <1>2, <3>2, <3>3, SeqEqual
    <2> QED
        BY <2>1, <2>2 DEF IsOldLog
<1> QED
    BY <1>1, <1>2, <1>3

\* A count in an old log is a run of idle ticks; what follows it is none.
LEMMA OldNumber ==
    ASSUME NEW r, IsOldLog(r), r # <<>>, r[1] \in Digit,
           NEW k, k = Leading(r, Digit), NEW n, n = Number(r, k)
    PROVE  HeadRun(r, Drop(r, k), Idle, n) /\ Drop(r, k) \in Seq(Symbols)
<1> DEFINE q == Drop(r, k)
<1>1. /\ r \in Seq(Digit \cup Moves) /\ r \in Seq(Symbols) /\ NoNoughtBegins(r)
      /\ IsCount(Number(r, Leading(r, Digit)))
    BY OldLogIs
<1>2. /\ k \in 1 .. Len(r) /\ q \in Seq(Symbols) /\ NoNoughtBegins(q)
      /\ q # <<>> => q[1] \in Letters
      /\ Number(r, k) \in Nat \ {0}
      /\ OldMeaning(r) = Times(Idle, Number(r, k)) \o OldMeaning(q)
    BY <1>1, OldMeaningNumber
<1>3. k \in 0 .. Len(r)
    BY <1>1, <1>2
<1>4. IsOldLog(q)
    BY <1>2, <1>3, OldLogDropped
<1>5. Idle \in Letters
    BY ReadingIs
<1>6. Begins(r) = Idle
    BY DEF Begins
<1>7. ASSUME q # <<>> PROVE Begins(q) # Idle
    <2>1. q \in Seq(Digit \cup Moves)
        BY <1>4 DEF IsOldLog
    <2>2. q[1] \in Letters /\ q[1] \notin Digit
        BY <1>2, <1>7, LettersAssumption
    <2> HIDE DEF q
    <2>3. q[1] \in Moves
        <3>1. 1 \in 1 .. Len(q)
            BY <1>7, <2>1, EmptySeq
        <3>2. q[1] \in Digit \cup Moves
            BY <2>1, <3>1
        <3> QED
            BY <2>2, <3>2
    <2> QED
        BY <2>2, <2>3, LettersAssumption DEF Begins
<1> HIDE DEF q
<1>8. n \in Nat \ {0} /\ IsCount(n) /\ OldMeaning(r) = Times(Idle, n) \o OldMeaning(q)
    BY <1>1, <1>2
<1>9. HeadRun(r, q, Idle, n)
    BY <1>4, <1>5, <1>6, <1>7, <1>8, Zenon DEF HeadRun
<1> QED
    BY <1>2, <1>9 DEF q

\* A repeated letter in an old log is a run; what follows it is another.
LEMMA OldLetters ==
    ASSUME NEW r, IsOldLog(r), r # <<>>, r[1] \notin Digit,
           NEW k, k = Leading(r, {r[1]})
    PROVE  HeadRun(r, Drop(r, k), r[1], k) /\ Drop(r, k) \in Seq(Symbols)
<1>0. \A j \in 0 .. Len(r) :
        Len(Drop(r, j)) = Len(r) - j /\ \A i \in 1 .. Len(r) - j : Drop(r, j)[i] = r[j + i]
    BY OldLogIs, DropIs
<1> DEFINE q == Drop(r, k)
           c == r[1]
<1>1. /\ r \in Seq(Digit \cup Moves) /\ r \in Seq(Symbols) /\ NoNoughtBegins(r)
      /\ IsCount(Leading(r, {r[1]}))
    BY OldLogIs
<1>2. c \in Moves /\ c \in Letters /\ c # Idle
    <2>1. 1 \in 1 .. Len(r)
        BY <1>1, EmptySeq
    <2>2. c \in Digit \cup Moves
        BY <1>1, <2>1
    <2> QED
        BY <2>2, LettersAssumption DEF Letters
<1>3. /\ k \in 1 .. Len(r) /\ q \in Seq(Symbols)
      /\ k < Len(r) => r[k + 1] # r[1]
      /\ r[k] = r[1]
      /\ OldMeaning(r) = Times(r[1], k) \o OldMeaning(q)
    BY <1>1, <1>2, OldMeaningLetters
<1>4. k \in 0 .. Len(r) /\ k \in Nat \ {0} /\ Len(r) \in Nat
    BY <1>1, <1>3
<1>5. NoNoughtBegins(q)
    <2>1. r[k] \notin Digit
        BY <1>3
    <2> QED
        BY <1>1, <1>4, <2>1, NoNoughtInParts
<1>6. IsOldLog(q)
    BY <1>4, <1>5, OldLogDropped
<1>7. ASSUME q # <<>> PROVE Begins(q) # c
    <2>1. Len(q) = Len(r) - k /\ \A i \in 1 .. Len(r) - k : q[i] = r[k + i]
        BY <1>0, <1>4
    <2> HIDE DEF q
    <2>2. Len(q) # 0
        BY <1>3, <1>7, EmptySeq
    <2>3. k < Len(r) /\ 1 \in 1 .. Len(r) - k
        BY <1>4, <2>1, <2>2
    <2>4. q[1] # c
        BY <1>3, <2>1, <2>3
    <2> QED
        BY <1>2, <2>4 DEF Begins
<1>8. Begins(r) = c
    BY DEF Begins
<1>9. IsCount(k)
    BY <1>1
<1> HIDE DEF q, c
<1>10. OldMeaning(r) = Times(c, k) \o OldMeaning(q)
    BY <1>3 DEF c
<1>11. HeadRun(r, q, c, k)
    BY <1>2, <1>4, <1>6, <1>7, <1>8, <1>9, <1>10, Zenon DEF HeadRun
<1> QED
    BY <1>3, <1>11 DEF q, c

\* The converter writes a run as the new format has it: in the end, or where it gives up because
\* the shortest text is too long.
LEMMA RunConverted ==
    ASSUME NEW t \in Seq(Symbols), NEW r, NEW p, InConversion(t, r, p),
           NEW q, NEW c, NEW n, HeadRun(r, q, c, n)
    PROVE  /\ t \o Run(c, n) \in Seq(Symbols)
           /\ InConversion(t \o Run(c, n), q, p)
           /\ TextLength(p) \in Nat /\ TextLength(p) >= Len(t) + Len(Run(c, n))
<1> DEFINE run == Run(c, n)
           t2 == t \o run
           m == Meaning(t)
           x == Times(c, n)
           v == OldMeaning(q)
           m2 == Meaning(t2)
<1>1. /\ c \in Letters /\ n \in Nat \ {0} /\ IsCount(n) /\ IsOldLog(q)
      /\ r # <<>> /\ Begins(r) = c /\ (q # <<>> => Begins(q) # c)
      /\ OldMeaning(r) = x \o v
    BY DEF HeadRun
<1>2. /\ IsOldLog(r) /\ NoNoughtBegins(t) /\ Settled(t)
      /\ m \o OldMeaning(r) = p /\ Len(t) = TextLength(m)
      /\ m # <<>> => m[Len(m)] # c
    BY <1>1 DEF InConversion
<1>3. t2 \in Seq(Symbols) /\ m \in Seq(Letters) /\ m2 = m \o x /\ Settled(t2)
    BY <1>1, <1>2, RunAppended
<1>4. run \in Seq(Symbols) /\ NoNoughtBegins(run) /\ Len(run) \in Nat /\ Len(t) \in Nat
    <2>1. Empty \in Readings /\ Empty.count = 0
        BY ReadingIs
    <2>2. run \in Seq(Symbols) /\ NoNoughtBegins(run)
        BY <1>1, <2>1, NewRun, NoNoughtInRun
    <2> QED
        BY <2>2
<1>5. NoNoughtBegins(t2) /\ Len(t2) = Len(t) + Len(run)
    <2> HIDE DEF run
    <2> QED
        BY <1>2, <1>4, NoNoughtJoined, ConcatProperties
<1>6. q \in Seq(Symbols) /\ NoNoughtBegins(q) /\ v \in Seq(Letters)
    BY <1>1, OldLogIs, OldMeaningType
<1>7. x \in Seq(Letters) /\ Len(x) = n /\ \A i \in 1 .. n : x[i] = c
    BY <1>1, TimesIs
<1>8. m2 \in Seq(Letters) /\ m2 # <<>> /\ m2[Len(m2)] = c
    <2> HIDE DEF x, m, m2
    <2>0. m \in Seq(Letters) /\ x \in Seq(Letters)
        BY <1>3, <1>7
    <2>1. /\ m \o x \in Seq(Letters) /\ Len(m \o x) = Len(m) + Len(x) /\ Len(m) \in Nat
          /\ \A i \in 1 .. Len(m) + Len(x) : (m \o x)[i] = IF i <= Len(m) THEN m[i] ELSE x[i - Len(m)]
        BY <2>0, ConcatProperties
    <2> DEFINE w == m \o x
    <2>2. /\ w \in Seq(Letters) /\ Len(w) = Len(m) + n
          /\ \A i \in 1 .. Len(m) + n : w[i] = IF i <= Len(m) THEN m[i] ELSE x[i - Len(m)]
        BY <1>7, <2>1
    <2> HIDE DEF w
    <2>3. Len(w) \in 1 .. Len(m) + n /\ ~(Len(w) <= Len(m)) /\ Len(w) - Len(m) \in 1 .. n
        BY <1>1, <2>1, <2>2
    <2>4. w[Len(w)] = c
        BY <1>7, <2>2, <2>3
    <2>5. w # <<>>
        <3>1. Len(w) # 0
            BY <2>3
        <3> QED
            BY <3>1, EmptySeq
    <2> QED
        BY <1>3, <2>2, <2>4, <2>5 DEF w
<1>9. m2 \o v = p
    <2> HIDE DEF m, x, v, m2
    <2>1. Chained(m, Chained(x, v)) = Chained(Chained(m, x), v)
        BY <1>3, <1>6, <1>7, ChainedIs
    <2>2. m \o (x \o v) = (m \o x) \o v
        BY <2>1 DEF Chained
    <2> QED
        BY <1>1, <1>2, <1>3, <2>2
<1>10. TextLength(m2) = Len(t2)
    <2>1. TextLength(m \o x) = TextLength(m) + Len(run)
        <3> HIDE DEF m, run
        <3> QED
            BY <1>1, <1>2, <1>3, TextLengthOfRun DEF run
    <2> HIDE DEF m, x, m2, t2, run
    <2> QED
        BY <1>2, <1>3, <1>5, <2>1
<1>11. q # <<>> => m2[Len(m2)] # Begins(q)
    BY <1>1, <1>8
<1>12. Apart(m2, v)
    <2>1. CASE q = <<>>
        BY <2>1, OldMeaningEmpty DEF Apart
    <2>2. CASE q # <<>>
        <3>1. v[1] = Begins(q)
            BY <1>6, <2>2, OldMeaningFirst
        <3> HIDE DEF m2, v
        <3> QED
            BY <1>11, <2>2, <3>1 DEF Apart
    <2> QED
        BY <2>1, <2>2
<1> HIDE DEF run, t2, m, x, v, m2
<1>13. TextLength(p) \in Nat /\ TextLength(p) >= TextLength(m2)
    <2>1. TextLength(m2 \o v) \in Nat /\ TextLength(m2 \o v) >= TextLength(m2)
        BY <1>6, <1>8, <1>12, TextLengthGrows
    <2> QED
        BY <1>9, <2>1
<1>14. InConversion(t2, q, p)
    BY <1>1, <1>3, <1>5, <1>9, <1>10, <1>11 DEF InConversion, m2, v
<1> QED
    BY <1>3, <1>5, <1>10, <1>13, <1>14 DEF t2, run

\* The replay gives an idle tick of the count it is in.
LEMMA IdleGiven ==
    ASSUME NEW t \in Seq(Symbols), NEW r \in Seq(Symbols), NEW i \in Nat \ {0}, NEW g \in Seq(Letters),
           InReplay(t, r, i, g)
    PROVE  Append(g, Idle) \in Seq(Letters) /\ i - 1 \in Nat /\ InReplay(t, r, i - 1, Append(g, Idle))
<1> DEFINE x == Times(Idle, i - 1)
           y == <<Idle>>
<1>1. Idle \in Letters /\ i - 1 \in Nat /\ 1 \in Nat /\ 1 + (i - 1) = i
    BY ReadingIs
<1>2. Append(g, Idle) = g \o y /\ Append(g, Idle) \in Seq(Letters)
    BY <1>1, AppendIsConcat, AppendProperties
<1>3. y \o x = Times(Idle, i)
    <2>1. Times(Idle, 1) \o Times(Idle, i - 1) = Times(Idle, 1 + (i - 1))
        BY <1>1, TimesPlus
    <2> QED
        BY <1>1, <2>1, TimesSmall
<1>4. x \in Seq(Letters) /\ y \in Seq(Letters)
    BY <1>1, TimesIs
<1> HIDE DEF x, y
<1>5. Chained(Chained(g, y), x) = Chained(g, Chained(y, x))
    BY <1>4, ChainedIs
<1>6. Append(g, Idle) \o x = g \o Times(Idle, i)
    BY <1>2, <1>3, <1>5 DEF Chained
<1>7. InReplay(t, r, i - 1, Append(g, Idle))
    BY <1>6 DEF InReplay, x
<1> QED
    BY <1>1, <1>2, <1>7

\* The replay reads a count, and gives the first of its ticks.
LEMMA CountGiven ==
    ASSUME NEW t \in Seq(Symbols), NEW r \in Seq(Symbols), NEW g \in Seq(Letters),
           InReplay(t, r, 0, g), r # <<>>, r[1] \in Digit,
           NEW k, k = Leading(r, Digit), NEW n, n = Number(r, k)
    PROVE  /\ Append(g, Idle) \in Seq(Letters) /\ n - 1 \in Nat /\ Drop(r, k) \in Seq(Symbols)
           /\ InReplay(t, Drop(r, k), n - 1, Append(g, Idle))
<1> DEFINE q == Drop(r, k)
           x == Times(Idle, n)
           v == OldMeaning(q)
<1>1. NoNoughtBegins(r) /\ (g \o Times(Idle, 0)) \o OldMeaning(r) = OldMeaning(t)
    BY DEF InReplay
<1>2. /\ q \in Seq(Symbols) /\ NoNoughtBegins(q) /\ n \in Nat \ {0}
      /\ OldMeaning(r) = x \o v
    BY <1>1, OldMeaningNumber
<1>3. g \o Times(Idle, 0) = g
    BY TimesSmall, ConcatEmptySeq
<1>4. x \in Seq(Letters) /\ v \in Seq(Letters)
    <2>1. Idle \in Letters
        BY ReadingIs
    <2> QED
        BY <1>2, <2>1, TimesIs, OldMeaningType
<1> HIDE DEF x, v, q
<1>5. Chained(g, Chained(x, v)) = Chained(Chained(g, x), v)
    BY <1>4, ChainedIs
<1>6. (g \o x) \o v = OldMeaning(t)
    BY <1>1, <1>2, <1>3, <1>5 DEF Chained
<1>7. InReplay(t, q, n, g)
    BY <1>2, <1>6 DEF InReplay, x, v
<1>8. Append(g, Idle) \in Seq(Letters) /\ n - 1 \in Nat /\ InReplay(t, q, n - 1, Append(g, Idle))
    BY <1>2, <1>7, IdleGiven
<1> QED
    BY <1>2, <1>8 DEF q

\* The replay reads and gives a letter.
LEMMA LetterGiven ==
    ASSUME NEW t \in Seq(Symbols), NEW r \in Seq(Symbols), NEW g \in Seq(Letters),
           InReplay(t, r, 0, g), r # <<>>, r[1] \notin Digit
    PROVE  /\ r[1] \in Letters /\ Append(g, r[1]) \in Seq(Letters) /\ Tail(r) \in Seq(Symbols)
           /\ InReplay(t, Tail(r), 0, Append(g, r[1]))
<1> DEFINE q == Tail(r)
           y == <<r[1]>>
           v == OldMeaning(q)
<1>1. NoNoughtBegins(r) /\ (g \o Times(Idle, 0)) \o OldMeaning(r) = OldMeaning(t)
    BY DEF InReplay
<1>2. 1 \in 1 .. Len(r) /\ 1 \in 0 .. Len(r) /\ r[1] \in Letters
    <2>1. 1 \in 1 .. Len(r) /\ 1 \in 0 .. Len(r)
        BY EmptySeq
    <2>2. r[1] \in Symbols
        BY <2>1
    <2> QED
        BY <2>1, <2>2 DEF Symbols
<1>3. q \in Seq(Symbols) /\ Drop(r, 1) = q /\ OldMeaning(r) = y \o v
    BY <1>2, OldMeaningLetter
<1>4. NoNoughtBegins(q)
    BY <1>1, <1>2, <1>3, NoNoughtInParts
<1>5. g \o Times(Idle, 0) = g
    BY TimesSmall, ConcatEmptySeq
<1>6. /\ y \in Seq(Letters) /\ v \in Seq(Letters)
      /\ Append(g, r[1]) = g \o y /\ Append(g, r[1]) \in Seq(Letters)
    <2>1. v \in Seq(Letters)
        BY <1>3, OldMeaningType
    <2> HIDE DEF v
    <2>2. y \in Seq(Letters) /\ Append(g, r[1]) = g \o y /\ Append(g, r[1]) \in Seq(Letters)
        BY <1>2, AppendIsConcat, AppendProperties
    <2> QED
        BY <2>1, <2>2
<1>7. Append(g, r[1]) \o Times(Idle, 0) = Append(g, r[1])
    BY <1>6, TimesSmall, ConcatEmptySeq
<1> HIDE DEF q, y, v
<1>8. Chained(g, Chained(y, v)) = Chained(Chained(g, y), v)
    BY <1>6, ChainedIs
<1>9. Append(g, r[1]) \o v = OldMeaning(t)
    BY <1>1, <1>3, <1>5, <1>6, <1>8 DEF Chained
<1>10. InReplay(t, q, 0, Append(g, r[1]))
    BY <1>4, <1>7, <1>9 DEF InReplay, v
<1> QED
    BY <1>2, <1>3, <1>6, <1>10 DEF q

\* A replay begins with all of its text.
LEMMA ReplayBegins ==
    ASSUME NEW t \in Seq(Symbols), NoNoughtBegins(t)
    PROVE  InReplay(t, t, 0, <<>>)
<1>1. OldMeaning(t) \in Seq(Letters) /\ <<>> \in Seq(Letters)
    BY OldMeaningType
<1>2. Times(Idle, 0) = <<>> /\ <<>> \o <<>> = <<>> /\ <<>> \o OldMeaning(t) = OldMeaning(t)
    BY <1>1, TimesSmall, ConcatEmptySeq
<1> QED
    BY <1>2 DEF InReplay

-----------------------------------------------------------------------------
(* The buffers. *)

\* What is written is a text (of anything: the digits themselves do not matter
\* here), and it fits.
Fit ==
    /\ \E S : {log, text} \subseteq Seq(S)
    /\ len \in Nat
    /\ LogsFitTheirBuffers

\* A run that ends is written within the buffer, and in whole unless it fills it.
LEMMA EndRunFits ==
    ASSUME Fit, EndRun, len < Limit
    PROVE  /\ \E S : log' \in Seq(S)
           /\ len' \in Nat /\ len' <= Limit + MaxDigits
           /\ Len(log') <= Limit
           /\ len' < Limit => len' = Len(log')
<1> DEFINE run == Run(last, since)
           room == Limit - len - 1
<1>1. PICK S : log \in Seq(S)
    BY DEF Fit
<1>2. PICK T : run \in Seq(T)
    BY RunIsText
<1>3. /\ Limit \in Nat /\ MaxDigits \in Nat /\ len \in Nat /\ len = Len(log)
      /\ Len(run) \in 1 .. MaxDigits + 1
      /\ room \in Nat
    BY RunIsText, LimitAssumption, DigitsAssumption DEF Fit, LogsFitTheirBuffers
<1>4. len' = len + Len(run)
    BY DEF EndRun
<1>5. CASE since > 1
    <2> DEFINE cut == Least(Len(run), room)
               piece == SubSeq(run, 1, cut)
    <2>1. cut \in 0 .. Len(run) /\ cut <= room /\ (Len(run) <= room => cut = Len(run))
        BY <1>3 DEF Least
    <2>2. piece \in Seq(T) /\ Len(piece) = cut
        <3>1. \A i \in 1 .. cut : run[i] \in T
            BY <1>2, <2>1
        <3> QED
            BY <1>2, <2>1, <3>1, SubSeqProperties
    <2>3. log' = log \o piece
        BY <1>5 DEF EndRun
    <2>4. log' \in Seq(S \cup T) /\ Len(log') = Len(log) + cut
        BY <1>1, <2>2, <2>3, JoinIsText
    <2> QED
        BY <1>3, <1>4, <2>1, <2>4
<1>6. CASE ~(since > 1)
    <2>1. Len(run) = 1
        BY <1>6, RunIsText
    <2>2. log' = Append(log, last)
        BY <1>6 DEF EndRun
    <2>3. log \in Seq(S \cup {last}) /\ last \in S \cup {last}
        BY <1>1
    <2>4. log' \in Seq(S \cup {last}) /\ Len(log') = Len(log) + 1
        BY <2>2, <2>3, AppendProperties
    <2> QED
        BY <1>3, <1>4, <2>1, <2>4
<1> QED
    BY <1>5, <1>6

\* A step of the converter writes only what leaves it within its buffer.
LEMMA ConvertedFits ==
    ASSUME Fit, NEW run, NEW n, Converted(run, n),
           \E T : run \in Seq(T), n = 1 => Len(run) = 1
    PROVE  Fit'
<1>1. UNCHANGED <<log, len>>
    BY DEF Converted, recorder
<1>2. PICK S : {log, text} \subseteq Seq(S)
    BY DEF Fit
<1>3. PICK T : run \in Seq(T)
    OBVIOUS
<1>4. CASE text' = text
    BY <1>1, <1>4 DEF Fit, LogsFitTheirBuffers
<1>5. CASE /\ Len(text) + (IF n = 1 THEN 0 ELSE Len(run)) < Limit
           /\ text' = text \o run
    <2>1. text' \in Seq(S \cup T) /\ Len(text') = Len(text) + Len(run)
        BY <1>2, <1>3, <1>5, JoinIsText
    <2>2. Len(text) \in Nat /\ Len(run) \in Nat
        BY <1>2, <1>3
    <2>3. Len(text') <= Limit
        <3>1. CASE n = 1
            <4>1. Len(run) = 1 /\ Len(text) < Limit
                BY <1>5, <2>2, <3>1
            <4> QED
                BY <2>1, <2>2, <4>1, LimitAssumption
        <3>2. CASE n # 1
            <4>1. Len(text) + Len(run) < Limit
                BY <1>5, <3>2
            <4> QED
                BY <2>1, <2>2, <4>1, LimitAssumption
        <3> QED
            BY <3>1, <3>2
    <2>4. log' \in Seq(S \cup T)
        BY <1>1, <1>2
    <2> QED
        BY <1>1, <2>1, <2>3, <2>4 DEF Fit, LogsFitTheirBuffers
<1> QED
    BY <1>4, <1>5 DEF Converted

-----------------------------------------------------------------------------
\* An input log starts empty.
LEMMA FitInit == Init => Fit
<1> SUFFICES ASSUME Init PROVE Fit
    OBVIOUS
<1>1. log = <<>> /\ text = <<>> /\ len = 0
    BY DEF Init, Fresh
<1>2. {log, text} \subseteq Seq({}) /\ Len(log) = 0 /\ Len(text) = 0
    BY <1>1
<1> QED
    BY <1>1, <1>2, LimitAssumption, DigitsAssumption DEF Fit, LogsFitTheirBuffers

\* Recording, closing, converting and replaying keep the invariant.
LEMMA FitStep == Fit /\ [Next]_vars => Fit'
<1> SUFFICES ASSUME Fit, [Next]_vars PROVE Fit'
    OBVIOUS
<1>1. ASSUME UNCHANGED <<log, len, text>> PROVE Fit'
    BY <1>1 DEF Fit, LogsFitTheirBuffers
<1>2. ASSUME NEW input \in Letters, Play(input) PROVE Fit'
    <2>1. text' = text
        BY <1>2 DEF Play
    <2>2. CASE UNCHANGED <<log, len>>
        BY <1>1, <2>1, <2>2
    <2>3. CASE EndRun /\ len < Limit
        <3>1. PICK S : log' \in Seq(S)
            BY <2>3, EndRunFits
        <3>2. PICK T : text \in Seq(T)
            BY DEF Fit
        <3>3. {log', text'} \subseteq Seq(S \cup T)
            BY <2>1, <3>1, <3>2
        <3> QED
            BY <2>1, <2>3, <3>3, EndRunFits DEF Fit, LogsFitTheirBuffers
    <2> QED
        BY <1>2, <2>2, <2>3 DEF Play, Record, recorder
<1>3. ASSUME Create PROVE Fit'
    <2>1. log' = <<>> /\ len' = 0 /\ text' = text
        BY <1>3 DEF Create
    <2>2. PICK T : text \in Seq(T)
        BY DEF Fit
    <2>3. {log', text'} \subseteq Seq(T) /\ Len(log') = 0
        BY <2>1, <2>2
    <2> QED
        BY <2>1, <2>3, LimitAssumption, DigitsAssumption DEF Fit, LogsFitTheirBuffers
<1>4. ASSUME Store PROVE Fit'
    <2>1. log' = log /\ len' = len /\ text' = log
        BY <1>4 DEF Store, recorder
    <2> QED
        BY <2>1 DEF Fit, LogsFitTheirBuffers
<1>5. ASSUME ConvertNumber PROVE Fit'
    <2> DEFINE n == Number(rest, Leading(rest, Digit))
               run == IF n = 1 THEN <<Idle>> ELSE Digits(n) \o <<Idle>>
    <2>1. Converted(run, n)
        BY <1>5 DEF ConvertNumber
    <2>2. (\E T : run \in Seq(T)) /\ (n = 1 => Len(run) = 1)
        <3> HIDE DEF n
        <3>1. CASE n = 1
            <4>1. run = <<Idle>> /\ <<Idle>> \in Seq({Idle}) /\ Len(<<Idle>>) = 1
                BY <3>1
            <4> QED
                BY <4>1
        <3>2. CASE n # 1
            BY <3>2, NumberedIsText
        <3> QED
            BY <3>1, <3>2
    <2> HIDE DEF run, n
    <2> QED
        BY <2>1, <2>2, ConvertedFits
<1>6. ASSUME ConvertLetters PROVE Fit'
    <2> DEFINE n == Leading(rest, {rest[1]})
               run == Run(rest[1], n)
    <2>1. Converted(run, n)
        BY <1>6 DEF ConvertLetters
    <2>2. (\E T : run \in Seq(T)) /\ (n = 1 => Len(run) = 1)
        BY RunIsText
    <2> HIDE DEF run, n
    <2> QED
        BY <2>1, <2>2, ConvertedFits
<1>7. ASSUME ConvertEnd PROVE Fit'
    BY <1>1, <1>7 DEF ConvertEnd, recorder
<1>8. ASSUME ReplayIdle \/ ReplayCount \/ ReplayLetter PROVE Fit'
    BY <1>1, <1>8 DEF ReplayIdle, ReplayCount, ReplayLetter, Give, recorder
<1>9. ASSUME UNCHANGED vars PROVE Fit'
    BY <1>1, <1>9 DEF vars, recorder
<1> QED
    BY <1>2, <1>3, <1>4, <1>5, <1>6, <1>7, <1>8, <1>9 DEF Next, ReplayOver, Refused

\* The recorder of game_update and convert_input_log stay within their buffers,
\* and input_log_len runs past the end by one run at most, for any size of the
\* buffer, any play and any old log.
THEOREM BuffersHold == Spec => []LogsFitTheirBuffers
<1>1. Fit => LogsFitTheirBuffers
    BY DEF Fit
<1> QED
    BY FitInit, FitStep, <1>1, PTL DEF Spec

-----------------------------------------------------------------------------
(* The invariant. *)

\* The recorder knows the play.
Playing ==
    phase = "playing" =>
        /\ text = <<>> /\ rest = <<>> /\ idles = 0 /\ replayed = <<>>
        /\ Recorded(last, since, log, len, played)

\* The converter has written what it has read.
Converting ==
    phase = "converting" =>
        /\ log = <<>> /\ idles = 0 /\ replayed = <<>>
        /\ InConversion(text, rest, played)

\* What was refused was too long.
Rejected == phase = "refused" => TextLength(played) >= Limit

\* The replay has given what it has read, of what was recorded or converted.
Replaying ==
    phase = "replaying" =>
        /\ InReplay(text, rest, idles, replayed)
        /\ log = <<>> /\ text # <<>> =>
               Meaning(text) = played /\ Len(text) = TextLength(played) /\ Len(text) < Limit

IInv == TypeOK /\ Playing /\ Converting /\ Rejected /\ Replaying

\* The type invariant, variable by variable.
LEMMA Types ==
    TypeOK <=>
        /\ phase \in {"playing", "converting", "refused", "replaying"}
        /\ last \in Letters /\ since \in Nat /\ len \in Nat /\ idles \in Nat
        /\ log \in Seq(Symbols) /\ text \in Seq(Symbols) /\ rest \in Seq(Symbols)
        /\ played \in Seq(Letters) /\ replayed \in Seq(Letters)
        /\ since = 0 => Fresh
BY DEF TypeOK, Symbols

\* What nothing means, and how long its text is.
LEMMA EmptyText ==
    /\ <<>> \in Seq(Symbols) /\ <<>> \in Seq(Letters)
    /\ NoNoughtBegins(<<>>) /\ Settled(<<>>) /\ Meaning(<<>>) = <<>>
    /\ TextLength(<<>>) = 0
<1>1. <<>> \in Seq(Symbols) /\ <<>> \in Seq(Letters) /\ Len(<<>>) = 0
    OBVIOUS
<1>2. NoNoughtBegins(<<>>)
    BY DEF NoNoughtBegins
<1>3. NewReading(<<>>) = Empty
    BY NewReader, ReadingIs, FoldedSteps DEF NewReading
<1>4. Settled(<<>>)
    BY <1>3, ReadingIs DEF Settled
<1>5. Meaning(<<>>) = <<>>
    BY <1>1, <1>3, MeaningIs, ReadingIs
<1>6. TextLength(<<>>) = 0
    <2> DEFINE s == <<>>
    <2>1. s \in Seq(Letters) /\ Len(s) = 0
        BY <1>1
    <2> HIDE DEF s
    <2>2. PICK r, f : Sums(f, r, s) /\ TextLength(s) = f[Len(s)]
        BY <2>1, TextLengthIs
    <2>3. f[0] = 0
        <3>1. 0 \in 0 .. Len(s)
            BY <2>1
        <3> QED
            BY <2>2, <3>1 DEF Sums
    <2>4. TextLength(s) = 0
        BY <2>1, <2>2, <2>3
    <2> QED
        BY <2>4 DEF s
<1> QED
    BY <1>1, <1>2, <1>4, <1>5, <1>6

\* A play and a conversion begin so that the invariant holds.
LEMMA IInvInit == Init => IInv
<1> SUFFICES ASSUME Init PROVE IInv
    OBVIOUS
<1>1. /\ last = Idle /\ since = 0 /\ log = <<>> /\ len = 0 /\ text = <<>> /\ idles = 0
      /\ replayed = <<>> /\ Fresh
    BY DEF Init, Fresh
<1>2. Idle \in Letters
    BY ReadingIs
<1>3. CASE phase = "playing" /\ rest = <<>> /\ played = <<>>
    <2>1. TypeOK
        BY <1>1, <1>2, <1>3, EmptyText, Types
    <2>2. Recorded(Idle, 0, <<>>, 0, <<>>)
        <3>1. LoggedOf(<<>>) = <<>> /\ Times(Idle, 0) = <<>> /\ <<>> \o <<>> = <<>>
            BY EmptyText, TimesSmall, ConcatEmptySeq DEF LoggedOf
        <3>2. IsStart(<<>>, <<>> \o <<>>)
            BY EmptyText, StartGrows
        <3>3. 0 <= Len(<<>>) /\ Len(<<>>) <= MaxTicks
            BY TicksAssumption
        <3> QED
            BY <3>1, <3>2, <3>3, EmptyText DEF Recorded
    <2> QED
        BY <1>1, <1>3, <2>1, <2>2 DEF IInv, Playing, Converting, Rejected, Replaying
<1>4. CASE phase = "converting" /\ rest \in OldLogs /\ played = OldMeaning(rest)
    <2>1. IsOldLog(rest)
        BY <1>4, OldLogsAssumption
    <2>2. rest \in Seq(Symbols) /\ played \in Seq(Letters)
        BY <1>4, <2>1, OldLogIs, OldMeaningType
    <2>3. TypeOK
        BY <1>1, <1>2, <1>4, <2>2, EmptyText, Types
    <2>4. <<>> \o OldMeaning(rest) = played /\ Len(<<>>) = 0
        BY <1>4, <2>2, ConcatEmptySeq
    <2>5. InConversion(<<>>, rest, played)
        BY <2>1, <2>4, EmptyText DEF InConversion
    <2> QED
        BY <1>1, <1>4, <2>3, <2>5 DEF IInv, Playing, Converting, Rejected, Replaying
<1> QED
    BY <1>3, <1>4 DEF Init

\* A tick of a play is recorded.
LEMMA PlayKeeps ==
    ASSUME IInv, NEW input \in Letters, Play(input)
    PROVE  IInv'
<1>1. /\ last \in Letters /\ since \in Nat /\ len \in Nat
      /\ log \in Seq(Symbols) /\ played \in Seq(Letters)
      /\ text \in Seq(Symbols) /\ rest \in Seq(Symbols) /\ replayed \in Seq(Letters) /\ idles \in Nat
    BY Types DEF IInv
<1>2. /\ phase = "playing" /\ Len(played) < MaxTicks /\ Record(input)
      /\ played' = Append(played, input)
      /\ UNCHANGED <<phase, text, rest, idles, replayed>>
    BY DEF Play
<1>3. Recorded(last, since, log, len, played)
    BY <1>2 DEF IInv, Playing
<1>4. /\ last' \in Letters /\ since' \in Nat /\ len' \in Nat /\ log' \in Seq(Symbols)
      /\ Recorded(last', since', log', len', Append(played, input))
    <2>1. CASE input = last
        <3>1. since' = since + 1 /\ UNCHANGED <<last, log, len>>
            BY <1>2, <2>1 DEF Record
        <3>2. Recorded(last, since + 1, log, len, Append(played, last))
            BY <1>1, <1>2, <1>3, RecordGoesOn
        <3>3. since + 1 \in Nat
            BY <1>1
        <3> QED
            BY <1>1, <2>1, <3>1, <3>2, <3>3
    <2>2. CASE input # last /\ len < Limit
        <3>1. EndRun /\ last' = input /\ since' = 1
            BY <1>2, <2>2 DEF Record
        <3>2. log' = Ended(last, since, log, len) /\ len' = len + Len(Run(last, since))
            BY <3>1 DEF EndRun, Ended, Kept
        <3>3. /\ Ended(last, since, log, len) \in Seq(Symbols)
              /\ Recorded(input, 1, Ended(last, since, log, len), len + Len(Run(last, since)),
                          Append(played, input))
            BY <1>1, <1>2, <1>3, <2>2, RecordEnds
        <3>4. len + Len(Run(last, since)) \in Nat
            <4>1. Len(Run(last, since)) \in Nat
                BY RunIsText, DigitsAssumption
            <4> QED
                BY <1>1, <4>1
        <3> QED
            BY <3>1, <3>2, <3>3, <3>4
    <2>3. CASE input # last /\ ~(len < Limit)
        <3>1. UNCHANGED <<last, since, log, len>>
            BY <1>2, <2>3 DEF Record, recorder
        <3>2. Recorded(last, since, log, len, Append(played, input))
            BY <1>1, <1>2, <1>3, <2>3, RecordFull
        <3> QED
            BY <1>1, <3>1, <3>2
    <2> QED
        BY <2>1, <2>2, <2>3
<1>5. played' \in Seq(Letters) /\ played' # <<>>
    BY <1>1, <1>2, LoggedGrows
<1>6. since' # 0
    BY <1>2, <1>4, <1>5 DEF Recorded
<1>7. TypeOK'
    <2>1. /\ phase' \in {"playing", "converting", "refused", "replaying"}
          /\ text' \in Seq(Symbols) /\ rest' \in Seq(Symbols) /\ replayed' \in Seq(Letters) /\ idles' \in Nat
        BY <1>1, <1>2
    <2> QED
        BY <1>4, <1>5, <1>6, <2>1 DEF TypeOK, Symbols
<1>8. Playing'
    BY <1>2, <1>4 DEF IInv, Playing
<1> QED
    BY <1>2, <1>7, <1>8 DEF IInv, Converting, Rejected, Replaying

\* A new game has a recorder of its own.
LEMMA CreateKeeps ==
    ASSUME IInv, Create
    PROVE  IInv'
<1>1. /\ phase = "playing" /\ last' = Idle /\ since' = 0 /\ log' = <<>> /\ len' = 0 /\ played' = <<>>
      /\ UNCHANGED <<phase, text, rest, idles, replayed>>
    BY DEF Create
<1>2. text = <<>> /\ rest = <<>> /\ idles = 0 /\ replayed = <<>>
    BY <1>1 DEF IInv, Playing
<1>3. Recorded(Idle, 0, <<>>, 0, <<>>)
    <2>1. LoggedOf(<<>>) = <<>> /\ Times(Idle, 0) = <<>> /\ <<>> \o <<>> = <<>>
        BY EmptyText, TimesSmall, ConcatEmptySeq DEF LoggedOf
    <2>2. IsStart(<<>>, <<>> \o <<>>)
        BY EmptyText, StartGrows
    <2>3. 0 <= Len(<<>>) /\ Len(<<>>) <= MaxTicks
        BY TicksAssumption
    <2> QED
        BY <2>1, <2>2, <2>3, EmptyText DEF Recorded
<1>4. TypeOK'
    <2>1. phase' \in {"playing", "converting", "refused", "replaying"} /\ Idle \in Letters /\ Fresh'
        BY <1>1, ReadingIs DEF Fresh
    <2> QED
        BY <1>1, <1>2, <2>1, EmptyText DEF TypeOK, Symbols
<1>5. Playing'
    BY <1>1, <1>2, <1>3 DEF Playing
<1> QED
    BY <1>1, <1>4, <1>5 DEF IInv, Converting, Rejected, Replaying

\* What has been recorded is replayed from its beginning.
LEMMA StoreKeeps ==
    ASSUME IInv, Store
    PROVE  IInv'
<1>1. /\ phase = "playing" /\ phase' = "replaying" /\ text' = log /\ rest' = log
      /\ last' = last /\ since' = since /\ log' = log /\ len' = len
      /\ idles' = idles /\ played' = played /\ replayed' = replayed
    BY DEF Store, recorder
<1>2. idles = 0 /\ replayed = <<>> /\ NoNoughtBegins(log)
    BY <1>1 DEF IInv, Playing, Recorded
<1>3. /\ last \in Letters /\ since \in Nat /\ len \in Nat /\ log \in Seq(Symbols)
      /\ played \in Seq(Letters) /\ replayed \in Seq(Letters) /\ idles \in Nat
      /\ since = 0 => Fresh
    BY Types DEF IInv
<1>4. TypeOK'
    <2>1. phase' \in {"playing", "converting", "refused", "replaying"}
        BY <1>1
    <2>2. since' = 0 => Fresh'
        BY <1>1, <1>3 DEF Fresh
    <2> QED
        BY <1>1, <1>3, <2>1, <2>2 DEF TypeOK, Symbols
<1>5. InReplay(log, log, 0, <<>>)
    BY <1>2, <1>3, ReplayBegins
<1>6. Replaying'
    BY <1>1, <1>2, <1>5 DEF Replaying
<1> QED
    BY <1>1, <1>4, <1>6 DEF IInv, Playing, Converting, Rejected

\* The types of what the converter and the replay leave alone.
LEMMA RecorderKept ==
    ASSUME TypeOK, UNCHANGED recorder
    PROVE  /\ last' \in Letters /\ since' \in Nat /\ len' \in Nat /\ log' \in Seq(Symbols)
           /\ log' = log /\ (since' = 0 => Fresh')
<1>1. /\ last \in Letters /\ since \in Nat /\ len \in Nat /\ log \in Seq(Symbols)
      /\ since = 0 => Fresh
    BY Types
<1> QED
    BY <1>1 DEF recorder, Fresh

\* A run at the head of the old log is converted.
LEMMA RunKeeps ==
    ASSUME IInv, NEW c, NEW n, HeadRun(rest, rest', c, n), rest' \in Seq(Symbols),
           Converted(Run(c, n), n)
    PROVE  IInv'
<1> DEFINE run == Run(c, n)
<1>1. /\ phase = "converting" /\ UNCHANGED <<recorder, idles, played, replayed>>
      /\ IF Len(text) + (IF n = 1 THEN 0 ELSE Len(run)) < Limit
         THEN text' = text \o run /\ phase' = phase
         ELSE phase' = "refused" /\ text' = text
    BY DEF Converted
<1>2. log = <<>> /\ idles = 0 /\ replayed = <<>> /\ InConversion(text, rest, played)
    BY <1>1 DEF IInv, Converting
<1>3. text \in Seq(Symbols) /\ played \in Seq(Letters) /\ replayed \in Seq(Letters)
    BY Types DEF IInv
<1>4. /\ last' \in Letters /\ since' \in Nat /\ len' \in Nat /\ log' \in Seq(Symbols)
      /\ log' = log /\ (since' = 0 => Fresh')
    BY <1>1, RecorderKept DEF IInv
<1>5. /\ text \o run \in Seq(Symbols) /\ InConversion(text \o run, rest', played)
      /\ TextLength(played) \in Nat /\ TextLength(played) >= Len(text) + Len(run)
    BY <1>2, <1>3, RunConverted
<1>6. idles' \in Nat /\ played' = played /\ replayed' = replayed /\ idles' = 0
    BY <1>1, <1>2
<1> HIDE DEF run
<1>7. CASE text' = text \o run /\ phase' = phase
    <2>1. TypeOK'
        <3>1. phase' \in {"playing", "converting", "refused", "replaying"} /\ text' \in Seq(Symbols)
            BY <1>1, <1>5, <1>7
        <3> QED
            BY <1>3, <1>4, <1>6, <3>1 DEF TypeOK, Symbols
    <2>2. Converting'
        BY <1>2, <1>4, <1>5, <1>6, <1>7 DEF Converting
    <2> QED
        BY <1>1, <1>7, <2>1, <2>2 DEF IInv, Playing, Rejected, Replaying
<1>8. CASE ~(Len(text) + (IF n = 1 THEN 0 ELSE Len(run)) < Limit) /\ phase' = "refused" /\ text' = text
    <2>1. TypeOK'
        <3>1. phase' \in {"playing", "converting", "refused", "replaying"} /\ text' \in Seq(Symbols)
            BY <1>3, <1>8
        <3> QED
            BY <1>3, <1>4, <1>6, <3>1 DEF TypeOK, Symbols
    <2>2. TextLength(played) >= Limit
        <3>1. Len(run) \in Nat /\ Len(text) \in Nat
            BY <1>3, RunIsText, DigitsAssumption DEF run
        <3>2. ~(Len(text) + (IF n = 1 THEN 0 ELSE Len(run)) < Limit)
            BY <1>8
        <3>3. ~(Len(text) + Len(run) < Limit)
            BY <3>1, <3>2, LimitAssumption
        <3> QED
            BY <1>5, <3>1, <3>3, LimitAssumption
    <2>3. Rejected'
        BY <1>6, <2>2 DEF Rejected
    <2> QED
        BY <1>8, <2>1, <2>3 DEF IInv, Playing, Converting, Replaying
<1> QED
    BY <1>1, <1>7, <1>8

\* A count of the old log is converted.
LEMMA ConvertNumberKeeps ==
    ASSUME IInv, ConvertNumber
    PROVE  IInv'
<1> DEFINE k == Leading(rest, Digit)
           n == Number(rest, k)
<1>1. /\ rest # <<>> /\ rest[1] \in Digit /\ rest' = Drop(rest, k)
      /\ Converted(IF n = 1 THEN <<Idle>> ELSE Digits(n) \o <<Idle>>, n)
    BY DEF ConvertNumber
<1>2. IsOldLog(rest)
    BY <1>1 DEF Converted, IInv, Converting, InConversion
<1>3. HeadRun(rest, rest', Idle, n) /\ rest' \in Seq(Symbols)
    BY <1>1, <1>2, OldNumber
<1> HIDE DEF k, n
<1>4. n \in Nat \ {0}
    BY <1>3 DEF HeadRun
<1>5. Run(Idle, n) = IF n = 1 THEN <<Idle>> ELSE Digits(n) \o <<Idle>>
    <2>1. n > 1 <=> n # 1
        BY <1>4
    <2> QED
        BY <2>1 DEF Run
<1> QED
    BY <1>1, <1>3, <1>5, RunKeeps

\* A letter of the old log is converted, with its repetitions.
LEMMA ConvertLettersKeeps ==
    ASSUME IInv, ConvertLetters
    PROVE  IInv'
<1> DEFINE c == rest[1]
           k == Leading(rest, {rest[1]})
<1>1. /\ rest # <<>> /\ rest[1] \notin Digit /\ rest' = Drop(rest, k)
      /\ Converted(Run(c, k), k)
    BY DEF ConvertLetters
<1>2. IsOldLog(rest)
    BY <1>1 DEF Converted, IInv, Converting, InConversion
<1>3. HeadRun(rest, rest', c, k) /\ rest' \in Seq(Symbols)
    BY <1>1, <1>2, OldLetters
<1> HIDE DEF c, k
<1> QED
    BY <1>1, <1>3, RunKeeps

\* The converted log is replayed from its beginning, unless its terminator does not fit.
LEMMA ConvertEndKeeps ==
    ASSUME IInv, ConvertEnd
    PROVE  IInv'
<1>1. /\ phase = "converting" /\ rest = <<>>
      /\ UNCHANGED <<recorder, text, idles, played, replayed>>
      /\ IF Len(text) < Limit THEN phase' = "replaying" /\ rest' = text
         ELSE phase' = "refused" /\ rest' = rest
    BY DEF ConvertEnd
<1>2. log = <<>> /\ idles = 0 /\ replayed = <<>> /\ InConversion(text, rest, played)
    BY <1>1 DEF IInv, Converting
<1>3. text \in Seq(Symbols) /\ rest \in Seq(Symbols) /\ played \in Seq(Letters) /\ replayed \in Seq(Letters)
    BY Types DEF IInv
<1>4. /\ last' \in Letters /\ since' \in Nat /\ len' \in Nat /\ log' \in Seq(Symbols)
      /\ log' = log /\ (since' = 0 => Fresh')
    BY <1>1, RecorderKept DEF IInv
<1>5. Meaning(text) = played /\ Len(text) = TextLength(played) /\ NoNoughtBegins(text)
    <2>1. /\ Meaning(text) \o OldMeaning(<<>>) = played /\ Len(text) = TextLength(Meaning(text))
          /\ NoNoughtBegins(text)
        BY <1>1, <1>2 DEF InConversion
    <2>2. Meaning(text) \in Seq(Letters)
        BY <1>3, MeaningType
    <2>3. Meaning(text) \o <<>> = Meaning(text)
        BY <2>2, ConcatEmptySeq
    <2> QED
        BY <2>1, <2>3, OldMeaningEmpty
<1>6. InReplay(text, text, 0, <<>>)
    BY <1>3, <1>5, ReplayBegins
<1>7. text' = text /\ idles' = 0 /\ idles' \in Nat /\ played' = played /\ replayed' = <<>>
    BY <1>1, <1>2
<1>8. CASE Len(text) < Limit
    <2>1. phase' = "replaying" /\ rest' = text
        BY <1>1, <1>8
    <2>2. TypeOK'
        <3>1. phase' \in {"playing", "converting", "refused", "replaying"} /\ rest' \in Seq(Symbols)
            BY <1>3, <2>1
        <3> QED
            BY <1>2, <1>3, <1>4, <1>7, <3>1 DEF TypeOK, Symbols
    <2>3. Replaying'
        BY <1>5, <1>6, <1>7, <1>8, <2>1 DEF Replaying
    <2> QED
        BY <2>1, <2>2, <2>3 DEF IInv, Playing, Converting, Rejected
<1>9. CASE ~(Len(text) < Limit)
    <2>1. phase' = "refused" /\ rest' = rest
        BY <1>1, <1>9
    <2>2. TypeOK'
        <3>1. phase' \in {"playing", "converting", "refused", "replaying"} /\ rest' \in Seq(Symbols)
            BY <1>3, <2>1
        <3> QED
            BY <1>2, <1>3, <1>4, <1>7, <3>1 DEF TypeOK, Symbols
    <2>3. TextLength(played) >= Limit
        BY <1>3, <1>5, <1>9, LimitAssumption
    <2>4. Rejected'
        BY <1>7, <2>3 DEF Rejected
    <2> QED
        BY <2>1, <2>2, <2>4 DEF IInv, Playing, Converting, Replaying
<1> QED
    BY <1>8, <1>9

\* The replay keeps the invariant when what it has given and what it has yet to read fit.
LEMMA GiveKeeps ==
    ASSUME IInv, NEW input \in Letters, Give(input), rest' \in Seq(Symbols), idles' \in Nat,
           Append(replayed, input) \in Seq(Letters),
           InReplay(text, rest', idles', Append(replayed, input))
    PROVE  IInv'
<1>1. /\ phase = "replaying" /\ phase' = phase /\ text' = text /\ played' = played
      /\ UNCHANGED recorder /\ replayed' = Append(replayed, input)
    BY DEF Give
<1>2. text \in Seq(Symbols) /\ played \in Seq(Letters)
    BY Types DEF IInv
<1>3. /\ last' \in Letters /\ since' \in Nat /\ len' \in Nat /\ log' \in Seq(Symbols)
      /\ log' = log /\ (since' = 0 => Fresh')
    BY <1>1, RecorderKept DEF IInv
<1>4. TypeOK'
    <2>1. phase' \in {"playing", "converting", "refused", "replaying"} /\ text' \in Seq(Symbols)
          /\ played' \in Seq(Letters) /\ replayed' \in Seq(Letters)
        BY <1>1, <1>2
    <2> QED
        BY <1>3, <2>1 DEF TypeOK, Symbols
<1>5. Replaying'
    BY <1>1, <1>3 DEF IInv, Replaying
<1> QED
    BY <1>1, <1>4, <1>5 DEF IInv, Playing, Converting, Rejected

\* The replay reads its text tick by tick.
LEMMA ReplayKeeps ==
    ASSUME IInv, ReplayIdle \/ ReplayCount \/ ReplayLetter
    PROVE  IInv'
<1>1. text \in Seq(Symbols) /\ rest \in Seq(Symbols) /\ replayed \in Seq(Letters) /\ idles \in Nat
    BY Types DEF IInv
<1>2. InReplay(text, rest, idles, replayed)
    BY DEF IInv, Replaying, ReplayIdle, ReplayCount, ReplayLetter, Give
<1>3. Idle \in Letters
    BY ReadingIs
<1>4. CASE ReplayIdle
    <2>1. idles > 0 /\ idles' = idles - 1 /\ Give(Idle) /\ rest' = rest
        BY <1>4 DEF ReplayIdle
    <2>2. idles \in Nat \ {0}
        BY <1>1, <2>1
    <2>3. /\ Append(replayed, Idle) \in Seq(Letters) /\ idles - 1 \in Nat
          /\ InReplay(text, rest, idles - 1, Append(replayed, Idle))
        BY <1>1, <1>2, <2>2, IdleGiven
    <2> QED
        BY <1>1, <1>3, <2>1, <2>3, GiveKeeps
<1>5. CASE ReplayCount
    <2> DEFINE k == Leading(rest, Digit)
               n == Number(rest, k)
    <2>1. /\ idles = 0 /\ rest # <<>> /\ rest[1] \in Digit /\ Give(Idle)
          /\ idles' = n - 1 /\ rest' = Drop(rest, k)
        BY <1>5 DEF ReplayCount
    <2>2. InReplay(text, rest, 0, replayed)
        BY <1>2, <2>1
    <2>3. /\ Append(replayed, Idle) \in Seq(Letters) /\ n - 1 \in Nat /\ Drop(rest, k) \in Seq(Symbols)
          /\ InReplay(text, Drop(rest, k), n - 1, Append(replayed, Idle))
        BY <1>1, <2>1, <2>2, CountGiven
    <2> HIDE DEF k, n
    <2> QED
        BY <1>3, <2>1, <2>3, GiveKeeps
<1>6. CASE ReplayLetter
    <2>1. /\ idles = 0 /\ rest # <<>> /\ rest[1] \notin Digit /\ rest' = Tail(rest) /\ idles' = idles
          /\ Give(IF rest[1] \in Moves THEN rest[1] ELSE Idle)
        BY <1>6 DEF ReplayLetter
    <2>2. InReplay(text, rest, 0, replayed)
        BY <1>2, <2>1
    <2>3. /\ rest[1] \in Letters /\ Append(replayed, rest[1]) \in Seq(Letters) /\ Tail(rest) \in Seq(Symbols)
          /\ InReplay(text, Tail(rest), 0, Append(replayed, rest[1]))
        BY <1>1, <2>1, <2>2, LetterGiven
    <2>4. Give(rest[1])
        BY <2>1, <2>3 DEF Letters
    <2> DEFINE c == rest[1]
    <2>5. /\ c \in Letters /\ Give(c) /\ rest' \in Seq(Symbols) /\ idles' \in Nat
          /\ Append(replayed, c) \in Seq(Letters) /\ InReplay(text, rest', idles', Append(replayed, c))
        BY <1>1, <2>1, <2>3, <2>4
    <2> HIDE DEF c
    <2> QED
        BY <2>5, GiveKeeps
<1> QED
    BY <1>4, <1>5, <1>6

\* Recording, closing, converting and replaying keep the invariant.
LEMMA IInvStep == IInv /\ [Next]_vars => IInv'
<1> SUFFICES ASSUME IInv, [Next]_vars PROVE IInv'
    OBVIOUS
<1>1. ASSUME UNCHANGED vars PROVE IInv'
    BY <1>1 DEF vars, recorder, IInv, TypeOK, Fresh, Playing, Converting, Rejected, Replaying
<1> QED
    BY <1>1, PlayKeeps, CreateKeeps, StoreKeeps, ConvertNumberKeeps, ConvertLettersKeeps,
       ConvertEndKeeps, ReplayKeeps DEF Next, ReplayOver, Refused

\* The recorder, the converter and the replay of any play and any old log keep to their types.
THEOREM TypeCorrect == Spec => []TypeOK
<1>1. IInv => TypeOK
    BY DEF IInv
<1> QED
    BY IInvInit, IInvStep, <1>1, PTL DEF Spec

\* What game_update writes into its log is the play: exactly, with the run that goes on, until the
\* buffer is full, and a beginning of it from then on.
THEOREM RecordedExactly == Spec => []RecorderIsExact
<1>1. IInv => RecorderIsExact
    BY DEF IInv, Playing, Recorded, RecorderIsExact, Logged, LoggedOf
<1> QED
    BY IInvInit, IInvStep, <1>1, PTL DEF Spec

\* convert_input_log keeps every input of every log that an old database can hold, writes the
\* shortest text, and refuses only what does not fit.
THEOREM ConvertedExactly == Spec => []ConversionKeepsThePlay
<1>1. IInv => ConversionKeepsThePlay
    BY DEF IInv, Converting, InConversion, Rejected, Replaying, ConversionKeepsThePlay
<1> QED
    BY IInvInit, IInvStep, <1>1, PTL DEF Spec

\* The replay screen gives its game what its text meant in the old format, whatever the text.
THEOREM ReplayedAsOld == Spec => []ReplayReadsTheOldFormat
<1>1. IInv => ReplayReadsTheOldFormat
    BY DEF IInv, Replaying, InReplay, ReplayReadsTheOldFormat
<1> QED
    BY IInvInit, IInvStep, <1>1, PTL DEF Spec
=============================================================================
