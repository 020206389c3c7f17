------------------------- MODULE HarnessTextProofs -------------------------
(***************************************************************************)
(* The iteration count on its way from the guest to the host: the digits   *)
(* that append_num prints in base 16, and the value that %lx makes of      *)
(* them.                                                                   *)
(*                                                                         *)
(* Both are recursive, and the induction theorems of the library take the  *)
(* predicate as an operator, so the inductions here go through the least   *)
(* element of a set of counterexamples (LeastNumber).                      *)
(***************************************************************************)
EXTENDS HarnessHost, WellFoundedInduction, FiniteSetTheorems, TLAPS

\* A set of naturals has a least element: induction with a set in the place of
\* a predicate.
LEMMA LeastNumber ==
    ASSUME NEW T \in SUBSET Nat, T # {}
    PROVE  \E m \in T : \A k \in T : m <= k
<1> DEFINE R == OpToRel(<, Nat)
<1>1. IsWellFoundedOn(R, Nat)
    BY NatLessThanWellFounded
<1>2. \A i, j \in Nat : <<i, j>> \in R <=> i < j
    BY DEF OpToRel
<1> HIDE DEF R
<1>3. PICK m \in T : \A k \in T : ~(<<k, m>> \in R)
    BY <1>1, WFMin
<1>4. \A k \in T : ~(k < m)
    BY <1>2, <1>3
<1> QED BY <1>4

------------------------------------------------------------------------------
(* append_num: the recursion has a solution, so Digits is one *)

Digit == 0..15
DigitsStep(g, v) == IF v < 16 THEN <<v>> ELSE Append(g[v \div 16], v % 16)

\* The digits of the numbers up to n.
DigitTable(n) ==
    {g \in [0..n -> Seq(Digit)] : \A i \in 0..n : g[i] = DigitsStep(g, i)}

\* One digit is a digit, and the rest of the number is smaller.
LEMMA DivFacts ==
    ASSUME NEW v \in Nat, ~(v < 16)
    PROVE  /\ v \div 16 \in Nat /\ v \div 16 < v /\ v % 16 \in Digit
           /\ v = 16 * (v \div 16) + (v % 16)
BY DEF Digit

\* A step gives a sequence of digits.
LEMMA StepType ==
    ASSUME NEW v \in Nat, NEW g, v >= 16 => g[v \div 16] \in Seq(Digit)
    PROVE  DigitsStep(g, v) \in Seq(Digit)
<1>1. CASE v < 16
  <2>1. v \in Digit
      BY <1>1 DEF Digit
  <2> QED BY <1>1, <2>1 DEF DigitsStep
<1>2. CASE ~(v < 16)
  <2>1. v % 16 \in Digit /\ g[v \div 16] \in Seq(Digit)
      BY <1>2, DivFacts
  <2>2. Append(g[v \div 16], v % 16) \in Seq(Digit)
      BY <2>1
  <2> QED BY <1>2, <2>2 DEF DigitsStep
<1> QED BY <1>1, <1>2

\* There is a table up to every number.
LEMMA TableExists ==
    \A n \in Nat : DigitTable(n) # {}
<1> DEFINE T == {n \in Nat : DigitTable(n) = {}}
<1>1. SUFFICES ASSUME T # {} PROVE FALSE
    OBVIOUS
<1>2. PICK m \in T : \A k \in T : m <= k
  <2>1. T \in SUBSET Nat
      OBVIOUS
  <2> HIDE DEF T
  <2> QED BY <1>1, <2>1, LeastNumber
<1>3. m \in Nat /\ DigitTable(m) = {}
    OBVIOUS
<1>4. CASE m = 0
  <2> DEFINE g == [i \in 0..0 |-> <<0>>]
  <2>1. <<0>> \in Seq(Digit)
      BY DEF Digit
  <2>2. g \in DigitTable(0)
      BY <2>1 DEF DigitTable, DigitsStep
  <2> QED BY <1>3, <1>4, <2>2
<1>5. CASE m # 0
  <2>1. m - 1 \in Nat /\ m - 1 \notin T
      BY <1>2, <1>3, <1>5
  <2>2. PICK g \in DigitTable(m - 1) : TRUE
      BY <2>1
  <2>3. g \in [0..(m - 1) -> Seq(Digit)] /\ \A i \in 0..(m - 1) : g[i] = DigitsStep(g, i)
      BY DEF DigitTable
  <2> DEFINE h == [i \in 0..m |-> IF i = m THEN DigitsStep(g, m) ELSE g[i]]
  <2>4. \A i \in 0..(m - 1) : i \in 0..m /\ i # m /\ h[i] = g[i]
      BY <1>3
  <2>5. DigitsStep(g, m) \in Seq(Digit)
    <3>1. m >= 16 => m \div 16 \in 0..(m - 1)
        BY <1>3, DivFacts
    <3> QED BY <1>3, <2>3, <3>1, StepType
  <2>6. h \in [0..m -> Seq(Digit)]
      BY <1>3, <2>3, <2>5
  <2>7. ASSUME NEW i \in 0..m PROVE h[i] = DigitsStep(h, i)
    <3>1. DigitsStep(h, i) = DigitsStep(g, i)
      <4>1. ~(i < 16) => i \div 16 \in 0..(m - 1)
          BY <1>3, DivFacts
      <4>2. ~(i < 16) => h[i \div 16] = g[i \div 16]
          BY <2>4, <4>1
      <4> HIDE DEF h
      <4> QED BY <4>2 DEF DigitsStep
    <3>2. CASE i = m
        BY <3>1, <3>2
    <3>3. CASE i # m
      <4>1. i \in 0..(m - 1)
          BY <1>3, <3>3
      <4> QED BY <2>3, <2>4, <3>1, <4>1
    <3> QED BY <3>2, <3>3
  <2>8. h \in DigitTable(m)
      BY <2>6, <2>7 DEF DigitTable
  <2> QED BY <1>3, <2>8
<1> QED BY <1>4, <1>5

\* Two tables agree where both are defined.
LEMMA TablesAgree ==
    ASSUME NEW n \in Nat, NEW k \in Nat, NEW g \in DigitTable(n), NEW h \in DigitTable(k),
           NEW i \in Nat, i <= n, i <= k
    PROVE  g[i] = h[i]
<1> DEFINE T == {j \in Nat : j <= n /\ j <= k /\ g[j] # h[j]}
<1>1. SUFFICES ASSUME T # {} PROVE FALSE
    OBVIOUS
<1>2. PICK m \in T : \A j \in T : m <= j
  <2>1. T \in SUBSET Nat
      OBVIOUS
  <2> HIDE DEF T
  <2> QED BY <1>1, <2>1, LeastNumber
<1>3. m \in Nat /\ m <= n /\ m <= k /\ g[m] # h[m]
    OBVIOUS
<1>4. g[m] = DigitsStep(g, m) /\ h[m] = DigitsStep(h, m)
    BY <1>3 DEF DigitTable
<1>5. ~(m < 16) => g[m \div 16] = h[m \div 16]
  <2>1. ASSUME ~(m < 16) PROVE m \div 16 \notin T /\ m \div 16 \in Nat /\ m \div 16 < m
    <3>1. m \div 16 \in Nat /\ m \div 16 < m
        BY <1>3, <2>1, DivFacts
    <3> QED BY <1>2, <1>3, <3>1
  <2> QED BY <1>3, <2>1
<1> QED BY <1>3, <1>4, <1>5 DEF DigitsStep

\* Digits satisfies its recursion.
LEMMA DigitsRecursion ==
    /\ Digits = [v \in Nat |-> DigitsStep(Digits, v)]
    /\ \A v \in Nat : Digits[v] = DigitsStep(Digits, v)
<1> DEFINE table(n) == CHOOSE g \in DigitTable(n) : TRUE
           f == [n \in Nat |-> table(n)[n]]
<1>1. \A n \in Nat : table(n) \in DigitTable(n)
    BY TableExists
<1>2. ASSUME NEW v \in Nat PROVE f[v] = DigitsStep(f, v)
  <2>1. table(v)[v] = DigitsStep(table(v), v)
      BY <1>1 DEF DigitTable
  <2>2. ~(v < 16) => f[v \div 16] = table(v)[v \div 16]
    <3>1. ASSUME ~(v < 16) PROVE f[v \div 16] = table(v)[v \div 16]
      <4>1. v \div 16 \in Nat /\ v \div 16 <= v
          BY <3>1, DivFacts
      <4>2. f[v \div 16] = table(v \div 16)[v \div 16]
          BY <4>1
      <4>3. table(v \div 16) \in DigitTable(v \div 16) /\ table(v) \in DigitTable(v)
          BY <1>1, <4>1
      <4> HIDE DEF table, f
      <4> QED BY <4>1, <4>2, <4>3, TablesAgree
    <3> QED BY <3>1
  <2>3. f[v] = table(v)[v]
      OBVIOUS
  <2> HIDE DEF table, f
  <2> QED BY <2>1, <2>2, <2>3 DEF DigitsStep
<1>3. f = [v \in Nat |-> DigitsStep(f, v)]
  <2>1. f = [v \in Nat |-> f[v]]
      OBVIOUS
  <2> HIDE DEF f
  <2> QED BY <1>2, <2>1
<1> HIDE DEF f
<1>4. Digits = [v \in Nat |-> DigitsStep(Digits, v)]
    BY <1>3 DEF Digits, DigitsStep
<1> QED BY <1>4

\* Every number prints as a sequence of digits, and as at least one.
LEMMA DigitsType ==
    \A v \in Nat : Digits[v] \in Seq(Digit) /\ Len(Digits[v]) >= 1
<1> DEFINE T == {v \in Nat : ~(Digits[v] \in Seq(Digit) /\ Len(Digits[v]) >= 1)}
<1>1. SUFFICES ASSUME T # {} PROVE FALSE
    OBVIOUS
<1>2. PICK m \in T : \A j \in T : m <= j
  <2>1. T \in SUBSET Nat
      OBVIOUS
  <2> HIDE DEF T
  <2> QED BY <1>1, <2>1, LeastNumber
<1>3. m \in Nat /\ ~(Digits[m] \in Seq(Digit) /\ Len(Digits[m]) >= 1)
    OBVIOUS
<1>4. Digits[m] = DigitsStep(Digits, m)
    BY <1>3, DigitsRecursion
<1>5. CASE m < 16
  <2>1. m \in Digit
      BY <1>3, <1>5 DEF Digit
  <2>2. <<m>> \in Seq(Digit) /\ Len(<<m>>) = 1
      BY <2>1
  <2> QED BY <1>3, <1>4, <1>5, <2>2 DEF DigitsStep
<1>6. CASE ~(m < 16)
  <2>1. m \div 16 \in Nat /\ m \div 16 < m /\ m % 16 \in Digit
      BY <1>3, <1>6, DivFacts
  <2>2. m \div 16 \notin T
      BY <1>2, <1>3, <2>1
  <2>3. Digits[m \div 16] \in Seq(Digit)
      BY <2>1, <2>2
  <2> DEFINE d == Digits[m \div 16]
             x == m % 16
  <2>4. d \in Seq(Digit) /\ x \in Digit /\ Digits[m] = Append(d, x)
      BY <1>4, <1>6, <2>1, <2>3 DEF DigitsStep
  <2> HIDE DEF d, x
  <2>5. Append(d, x) \in Seq(Digit) /\ Len(Append(d, x)) = Len(d) + 1 /\ Len(d) \in Nat
      BY <2>4
  <2> QED BY <1>3, <2>4, <2>5
<1> QED BY <1>5, <1>6

------------------------------------------------------------------------------
(* %lx: the value of a sequence of digits *)

\* a[k] is the value of the first k digits of q.
Horner(a, q) ==
    /\ a[0] = 0
    /\ \A k \in 1..Len(q) : a[k] = 16 * a[k - 1] + q[k]

\* The digits of v have the value v.
LEMMA DigitsValue ==
    \A v \in Nat : \A a : Horner(a, Digits[v]) => a[Len(Digits[v])] = v
<1> DEFINE Holds(v) == \A a : Horner(a, Digits[v]) => a[Len(Digits[v])] = v
           T == {v \in Nat : ~Holds(v)}
<1>1. SUFFICES ASSUME T # {} PROVE FALSE
    OBVIOUS
<1>2. PICK m \in T : \A j \in T : m <= j
  <2>1. T \in SUBSET Nat
      OBVIOUS
  <2> HIDE DEF T
  <2> QED BY <1>1, <2>1, LeastNumber
<1>3. m \in Nat /\ ~Holds(m)
    OBVIOUS
<1>4. PICK a : Horner(a, Digits[m]) /\ a[Len(Digits[m])] # m
    BY <1>3
<1>5. Digits[m] = DigitsStep(Digits, m)
    BY <1>3, DigitsRecursion
<1>6. CASE m < 16
  <2>1. Digits[m] = <<m>> /\ Len(Digits[m]) = 1
      BY <1>5, <1>6 DEF DigitsStep
  <2>2. a[0] = 0 /\ a[1] = 16 * a[0] + m
      BY <1>4, <2>1 DEF Horner
  <2> QED BY <1>3, <1>4, <2>1, <2>2
<1>7. CASE ~(m < 16)
  <2>1. /\ m \div 16 \in Nat /\ m \div 16 < m /\ m % 16 \in Digit
        /\ m = 16 * (m \div 16) + (m % 16)
      BY <1>3, <1>7, DivFacts
  <2>2. m \div 16 \notin T
      BY <1>2, <1>3, <2>1
  <2>3. Holds(m \div 16)
      BY <2>1, <2>2
  <2> DEFINE d == Digits[m \div 16]
             x == m % 16
             b == [i \in 0..Len(d) |-> a[i]]
  <2>4. d \in Seq(Digit) /\ x \in Digit /\ Digits[m] = Append(d, x)
      BY <1>5, <1>7, <2>1, DigitsType DEF DigitsStep
  <2>5. m = 16 * (m \div 16) + x /\ (Horner(b, d) => b[Len(d)] = m \div 16)
      BY <2>1, <2>3
  <2> HIDE DEF d, x
  <2>6. /\ Len(d) \in Nat /\ Len(Append(d, x)) = Len(d) + 1
        /\ Append(d, x)[Len(d) + 1] = x
        /\ \A k \in 1..Len(d) : Append(d, x)[k] = d[k]
      BY <2>4
  <2>7. /\ a[0] = 0
        /\ \A k \in 1..(Len(d) + 1) : a[k] = 16 * a[k - 1] + Append(d, x)[k]
      BY <1>4, <2>4, <2>6 DEF Horner
  <2>8. Horner(b, d)
    <3>1. b[0] = 0
        BY <2>6, <2>7
    <3>2. ASSUME NEW k \in 1..Len(d) PROVE b[k] = 16 * b[k - 1] + d[k]
      <4>1. k \in 0..Len(d) /\ k - 1 \in 0..Len(d) /\ k \in 1..(Len(d) + 1)
          BY <2>6
      <4>2. a[k] = 16 * a[k - 1] + d[k]
          BY <2>6, <2>7, <4>1
      <4> QED BY <4>1, <4>2
    <3> QED BY <3>1, <3>2 DEF Horner
  <2>9. a[Len(d)] = m \div 16
      BY <2>5, <2>6, <2>8
  <2>10. a[Len(d) + 1] = 16 * a[Len(d)] + x
    <3>1. Len(d) + 1 \in 1..(Len(d) + 1) /\ Len(d) + 1 - 1 = Len(d)
        BY <2>6
    <3> QED BY <2>6, <2>7, <3>1
  <2> QED BY <1>4, <2>4, <2>5, <2>6, <2>9, <2>10
<1> QED BY <1>6, <1>7

\* The largest index of a set of indexes that contains the last.
LEMMA MaxOf ==
    ASSUME NEW n \in Nat, NEW s \in SUBSET (1..n), n \in s
    PROVE  Max(s) = n
<1>1. \A y \in s : y \in Int /\ n >= y
    OBVIOUS
<1>2. \A x \in s : (\A y \in s : x >= y) => x = n
    BY <1>1
<1> QED BY <1>1, <1>2 DEF Max

\* The fold over the characters q, on the sets of indexes of its first n.
FoldStep(I, q, s) == IF s = {} THEN 0 ELSE 16 * I[s \ {Max(s)}] + q[Max(s)].of
FoldTable(q, n) ==
    {I \in [SUBSET (1..n) -> Nat] : \A s \in SUBSET (1..n) : I[s] = FoldStep(I, q, s)}

LEMMA FoldTableExists ==
    ASSUME NEW q, NEW len \in Nat, \A i \in 1..len : q[i].of \in Nat
    PROVE  \A n \in Nat : n <= len => FoldTable(q, n) # {}
<1> DEFINE T == {n \in Nat : n <= len /\ FoldTable(q, n) = {}}
<1>1. SUFFICES ASSUME T # {} PROVE FALSE
    OBVIOUS
<1>2. PICK m \in T : \A j \in T : m <= j
  <2>1. T \in SUBSET Nat
      OBVIOUS
  <2> HIDE DEF T
  <2> QED BY <1>1, <2>1, LeastNumber
<1>3. m \in Nat /\ m <= len /\ FoldTable(q, m) = {}
    OBVIOUS
<1>4. CASE m = 0
  <2> DEFINE I == [s \in SUBSET (1..0) |-> 0]
  <2>1. \A s \in SUBSET (1..0) : s = {}
      OBVIOUS
  <2>2. I \in FoldTable(q, 0)
      BY <2>1 DEF FoldTable, FoldStep
  <2> QED BY <1>3, <1>4, <2>2
<1>5. CASE m # 0
  <2>1. m - 1 \in Nat /\ m - 1 \notin T /\ m - 1 <= len
      BY <1>2, <1>3, <1>5
  <2>2. PICK I \in FoldTable(q, m - 1) : TRUE
      BY <2>1
  <2> DEFINE S == SUBSET (1..(m - 1))
  <2>3. I \in [S -> Nat] /\ \A s \in S : I[s] = FoldStep(I, q, s)
      BY DEF FoldTable
  <2> DEFINE J == [s \in SUBSET (1..m) |->
                      IF m \in s THEN 16 * I[s \ {m}] + q[m].of ELSE I[s]]
  <2>4. \A s \in SUBSET (1..m) : s \ {m} \in S /\ (m \notin s => s \in S)
      BY <1>3
  <2>5. \A s \in S : s \in SUBSET (1..m) /\ m \notin s /\ J[s] = I[s]
      BY <1>3
  <2>6. J \in [SUBSET (1..m) -> Nat]
    <3>1. q[m].of \in Nat
        BY <1>3, <1>5
    <3>2. \A s \in SUBSET (1..m) : J[s] \in Nat
      <4>1. ASSUME NEW s \in SUBSET (1..m), m \in s PROVE J[s] \in Nat
        <5>1. I[s \ {m}] \in Nat
            BY <2>3, <2>4
        <5> QED BY <3>1, <4>1, <5>1
      <4>2. ASSUME NEW s \in SUBSET (1..m), m \notin s PROVE J[s] \in Nat
          BY <2>3, <2>4, <4>2
      <4> QED BY <4>1, <4>2
    <3> QED BY <3>2
  <2>7. ASSUME NEW s \in SUBSET (1..m) PROVE J[s] = FoldStep(J, q, s)
    <3>1. CASE m \in s
      <4>1. Max(s) = m /\ s # {}
          BY <1>3, <3>1, MaxOf
      <4>2. J[s] = 16 * I[s \ {m}] + q[m].of /\ J[s \ {m}] = I[s \ {m}]
          BY <2>4, <2>5, <3>1
      <4> HIDE DEF J
      <4> QED BY <4>1, <4>2 DEF FoldStep
    <3>2. CASE m \notin s
      <4>1. s \in S /\ s \ {Max(s)} \in S
          BY <2>4, <3>2
      <4>2. J[s] = I[s] /\ J[s \ {Max(s)}] = I[s \ {Max(s)}]
          BY <2>5, <4>1
      <4>3. I[s] = FoldStep(I, q, s)
          BY <2>3, <4>1
      <4> HIDE DEF J
      <4> QED BY <4>2, <4>3 DEF FoldStep
    <3> QED BY <3>1, <3>2
  <2>8. J \in FoldTable(q, m)
      BY <2>6, <2>7 DEF FoldTable
  <2> QED BY <1>3, <2>8
<1> QED BY <1>4, <1>5

\* The fold goes from left to right: HexValue is the last of the values that
\* Horner's scheme goes through.
LEMMA HexValueHorner ==
    ASSUME NEW d \in Seq(Digit), NEW q, DOMAIN q = 1..Len(d),
           \A i \in 1..Len(d) : q[i].of = d[i]
    PROVE  \E a : Horner(a, d) /\ HexValue(q) = a[Len(d)]
<1> DEFINE n == Len(d)
           iter == CHOOSE I : I = [s \in SUBSET (1..n) |-> FoldStep(I, q, s)]
           a == [k \in 0..n |-> iter[1..k]]
<1>1. n \in Nat /\ \A i \in 1..n : q[i].of \in Nat
    BY DEF Digit
<1>2. \E I : I = [s \in SUBSET (1..n) |-> FoldStep(I, q, s)]
  <2>1. n <= n => FoldTable(q, n) # {}
    <3> HIDE DEF n
    <3> QED BY <1>1, FoldTableExists
  <2>2. PICK I \in FoldTable(q, n) : TRUE
      BY <1>1, <2>1
  <2>3. I \in [SUBSET (1..n) -> Nat] /\ \A s \in SUBSET (1..n) : I[s] = FoldStep(I, q, s)
      BY DEF FoldTable
  <2>4. I = [s \in SUBSET (1..n) |-> FoldStep(I, q, s)]
      BY <2>3
  <2> QED BY <2>4
<1>3. iter = [s \in SUBSET (1..n) |-> FoldStep(iter, q, s)]
    BY <1>2
<1>4. HexValue(q) = iter[1..n]
    BY DEF HexValue, FoldLeft, MapThenFoldSet, FoldStep
<1> HIDE DEF iter
<1>5. \A s \in SUBSET (1..n) : iter[s] = FoldStep(iter, q, s)
    BY <1>3
<1>6. a[0] = 0
  <2>1. 1..0 = {} /\ 1..0 \in SUBSET (1..n)
      OBVIOUS
  <2>2. iter[1..0] = 0
      BY <1>5, <2>1 DEF FoldStep
  <2> QED BY <1>1, <2>2
<1>7. ASSUME NEW k \in 1..n PROVE a[k] = 16 * a[k - 1] + d[k]
  <2>1. 1..k \in SUBSET (1..n) /\ k \in 1..k /\ k \in Nat /\ 1..k \in SUBSET (1..k)
      BY <1>1
  <2>2. Max(1..k) = k
      BY <2>1, MaxOf
  <2>3. (1..k) \ {k} = 1..(k - 1) /\ 1..k # {}
    <3>1. \A x \in Int : (x \in 1..k /\ x # k) <=> x \in 1..(k - 1)
        BY <2>1
    <3>2. (1..k) \ {k} \subseteq 1..(k - 1) /\ 1..(k - 1) \subseteq (1..k) \ {k}
        BY <3>1
    <3> QED BY <2>1, <3>2
  <2>4. iter[1..k] = 16 * iter[1..(k - 1)] + d[k]
      BY <1>5, <2>1, <2>2, <2>3 DEF FoldStep
  <2> QED BY <1>1, <2>4
<1>8. a[n] = iter[1..n]
    BY <1>1
<1> HIDE DEF a
<1> QED BY <1>4, <1>6, <1>7, <1>8 DEF Horner

------------------------------------------------------------------------------
(* The count as it is printed and scanned *)

\* The range of an unsigned int has its zero.
LEMMA WordRange ==
    2^WordBits \in Nat /\ 2^WordBits > 0
<1>1. WordBits \in Nat
    BY HarnessAssumption
<1> DEFINE S == 1..WordBits
<1>2. IsFiniteSet(S) /\ Cardinality(S) = WordBits
    BY <1>1, FS_Interval
<1>3. IsFiniteSet(SUBSET S) /\ Cardinality(SUBSET S) = 2^WordBits
    BY <1>2, FS_SUBSET
<1>4. SUBSET S # {}
    OBVIOUS
<1>5. Cardinality(SUBSET S) \in Nat /\ Cardinality(SUBSET S) # 0
    BY <1>3, <1>4, FS_CardinalityType, FS_EmptySet
<1> QED BY <1>3, <1>5

\* %x prints the whole count.
LEMMA WholeCount ==
    ASSUME NEW b \in 1..N
    PROVE  HexArgument(Iterations[b]) = Iterations[b] /\ Iterations[b] \in Nat
<1>1. Iterations[b] \in 0..(2^WordBits - 1)
    BY HarnessAssumption
<1> DEFINE w == 2^WordBits
<1>2. w \in Nat /\ w > 0
    BY WordRange
<1>3. Iterations[b] \in 0..(w - 1)
    BY <1>1
<1> HIDE DEF w
<1>4. Iterations[b] % w = Iterations[b] /\ Iterations[b] \in Nat
    BY <1>2, <1>3
<1> QED BY <1>4 DEF HexArgument, w

\* The characters of the count of b.
CountChars(b) ==
    [i \in DOMAIN Digits[Iterations[b]] |-> [class |-> "hex", of |-> Digits[Iterations[b]][i]]]

\* The count of every benchmark, whatever it is, prints as a space and at
\* least one hexadecimal digit, and what %lx makes of the digits is the count.
THEOREM CountSurvives ==
    ASSUME NEW b \in 1..N
    PROVE  /\ IterText(b) = <<Sp>> \o CountChars(b)
           /\ HexValue(CountChars(b)) = Iterations[b]
<1> DEFINE v == Iterations[b]
           d == Digits[v]
<1>1. v \in Nat /\ HexArgument(Iterations[b]) = v
    BY WholeCount
<1>2. d \in Seq(Digit) /\ DOMAIN d = 1..Len(d)
    BY <1>1, DigitsType
<1>3. IterText(b) = <<Sp>> \o CountChars(b)
    BY <1>1 DEF IterText, CountChars
<1>4. DOMAIN CountChars(b) = 1..Len(d) /\ \A i \in 1..Len(d) : CountChars(b)[i].of = d[i]
    BY <1>2 DEF CountChars
<1>5. PICK a : Horner(a, d) /\ HexValue(CountChars(b)) = a[Len(d)]
  <2> HIDE DEF d
  <2> QED BY <1>2, <1>4, HexValueHorner
<1>6. a[Len(d)] = v
    BY <1>1, <1>5, DigitsValue
<1> QED BY <1>3, <1>5, <1>6

\* They are characters, hexadecimal digits, and there is at least one.
LEMMA CountCharsType ==
    ASSUME NEW b \in 1..N
    PROVE  /\ CountChars(b) \in Seq(Char) /\ Len(CountChars(b)) \in Nat /\ Len(CountChars(b)) >= 1
           /\ \A i \in 1..Len(CountChars(b)) : CountChars(b)[i].class = "hex"
<1> DEFINE d == Digits[Iterations[b]]
<1>1. d \in Seq(Digit) /\ Len(d) >= 1 /\ Len(d) \in Nat
    BY WholeCount, DigitsType
<1> HIDE DEF d
<1>2. CountChars(b) = [i \in 1..Len(d) |-> [class |-> "hex", of |-> d[i]]]
    BY <1>1 DEF CountChars, d
<1>3. \A i \in 1..Len(d) : d[i] \in Nat
    BY <1>1 DEF Digit
<1>4. \A i \in 1..Len(d) : [class |-> "hex", of |-> d[i]] \in Char
    BY <1>3 DEF Char, NonWhite
<1>5. CountChars(b) \in Seq(Char) /\ Len(CountChars(b)) = Len(d)
    BY <1>1, <1>2, <1>4
<1> QED BY <1>1, <1>2, <1>5
=============================================================================
