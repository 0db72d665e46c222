------------------------- MODULE FormatMeaningProofs -------------------------
(***************************************************************************)
(* Facts about the reference definition of SimpleFormatter, for every       *)
(* format string: the recursive functions Number and Meanings satisfy the   *)
(* equations they are written with, and what follows from that.             *)
(*                                                                          *)
(* The provers cannot use an induction theorem that is about an operator,   *)
(* so induction is a statement about sets here: a nonempty set of naturals  *)
(* has a least element (from WFMin, which is about sets as well).           *)
(***************************************************************************)
EXTENDS SimpleFormatter, SequenceTheorems, WellFoundedInduction, TLAPS

(* A set of natural numbers that is not empty has a least element.          *)
LEMMA LeastElement ==
  ASSUME NEW T, T \subseteq Nat, T # {}
  PROVE  \E x \in T : \A y \in T : x <= y
  <1> DEFINE Below == {ss \in Nat \X Nat : ss[1] < ss[2]}
  <1>1. IsWellFoundedOn(Below, Nat)
    BY NatLessThanWellFounded DEF OpToRel
  <1>2. PICK x \in T : \A y \in T : ~(<<y, x>> \in Below)
    <2> HIDE DEF Below
    <2> QED
      BY <1>1, WFMin
  <1>3. ASSUME NEW y \in T
        PROVE  x <= y
    <2>1. x \in Nat /\ y \in Nat
      OBVIOUS
    <2>2. y < x => <<y, x>> \in Below
      BY <2>1
    <2>3. ~(y < x)
      BY <1>2, <2>2
    <2>4. QED
      BY <2>1, <2>3
  <1>4. QED
    BY <1>3

(* Induction, as a statement about the set of numbers that have a property. *)
LEMMA InductiveSet ==
  ASSUME NEW T, 0 \in T, \A n \in Nat : n \in T => n + 1 \in T
  PROVE  \A n \in Nat : n \in T
  <1> DEFINE Missing == {n \in Nat : n \notin T}
  <1>1. SUFFICES ASSUME Missing # {}
                 PROVE  FALSE
    OBVIOUS
  <1>2. PICK x \in Missing : \A y \in Missing : x <= y
    BY <1>1, LeastElement
  <1>3. x - 1 \in Nat
    BY <1>2
  <1>4. x - 1 \in T
    BY <1>2, <1>3
  <1>5. QED
    BY <1>2, <1>3, <1>4

-----------------------------------------------------------------------------
(* The digits of an index.                                                  *)

(* A run of digits that nothing continues ends at LastDigit.                *)
LEMMA LastDigitIs ==
  ASSUME NEW f \in Seq(STRING), NEW k \in 1 .. Len(f) + 1, NEW j \in k - 1 .. Len(f),
         \A m \in k .. j : f[m] \in Digits,
         j < Len(f) => f[j + 1] \notin Digits
  PROVE  LastDigit(f, k) = j
  <1> DEFINE Ends(n) == /\ \A m \in k .. n : f[m] \in Digits
                        /\ n < Len(f) => f[n + 1] \notin Digits
  <1>1. Ends(j)
    OBVIOUS
  <1>2. ASSUME NEW n \in k - 1 .. Len(f), Ends(n)
        PROVE  n = j
    <2>1. CASE n < j
      BY <1>1, <1>2, <2>1
    <2>2. CASE j < n
      BY <1>1, <1>2, <2>2
    <2>3. QED
      BY <2>1, <2>2
  <1>3. LastDigit(f, k) = CHOOSE n \in k - 1 .. Len(f) : Ends(n)
    BY DEF LastDigit
  <1>4. QED
    <2> HIDE DEF Ends
    <2> QED
      BY <1>1, <1>2, <1>3

(* There always is a last digit, or none at all.                            *)
LEMMA LastDigitExists ==
  ASSUME NEW f \in Seq(STRING), NEW k \in 1 .. Len(f) + 1
  PROVE  /\ LastDigit(f, k) \in k - 1 .. Len(f)
         /\ \A m \in k .. LastDigit(f, k) : f[m] \in Digits
         /\ LastDigit(f, k) < Len(f) => f[LastDigit(f, k) + 1] \notin Digits
  <1> DEFINE Stops == {n \in Nat : /\ k - 1 <= n /\ n <= Len(f)
                                   /\ n < Len(f) => f[n + 1] \notin Digits}
  <1>1. Len(f) \in Stops
    OBVIOUS
  <1>2. PICK j \in Stops : \A n \in Stops : j <= n
    BY <1>1, LeastElement
  <1>3. j \in k - 1 .. Len(f) /\ (j < Len(f) => f[j + 1] \notin Digits)
    OBVIOUS
  <1>4. ASSUME NEW m \in k .. j
        PROVE  f[m] \in Digits
    <2>1. PICK n \in Nat : m = n + 1
      <3>1. m - 1 \in Nat /\ m = (m - 1) + 1
        OBVIOUS
      <3>2. QED
        BY <3>1
    <2>2. k - 1 <= n /\ n < j /\ n < Len(f)
      BY <1>3, <2>1
    <2>3. n \notin Stops
      BY <1>2, <1>3, <2>2
    <2>4. QED
      BY <2>1, <2>2, <2>3
  <1>5. LastDigit(f, k) = j
    BY <1>3, <1>4, LastDigitIs
  <1>6. QED
    BY <1>3, <1>4, <1>5

-----------------------------------------------------------------------------
(* The number that digits write.                                            *)

\* One step of the recursion in Number.
NumberAt(value, f, k, m) ==
  IF m < k THEN 0 ELSE 10 * value[m - 1] + DigitValue[f[m]]

\* The function g satisfies the recursion up to n.
NumberUpTo(g, f, k, n) ==
  g = [m \in k - 1 .. Len(f) |-> IF m <= n THEN NumberAt(g, f, k, m) ELSE 0]

(* A function that satisfies the recursion up to n can be extended to n + 1.*)
LEMMA NumberExtends ==
  ASSUME NEW f \in Seq(STRING), NEW k \in 1 .. Len(f) + 1, NEW n \in Int, NEW g,
         NumberUpTo(g, f, k, n)
  PROVE  \E h : NumberUpTo(h, f, k, n + 1)
  <1> DEFINE h == [m \in k - 1 .. Len(f) |-> IF m <= n + 1 THEN NumberAt(g, f, k, m) ELSE 0]
  <1>1. ASSUME NEW m \in k - 1 .. Len(f), m <= n
        PROVE  h[m] = g[m]
    <2>1. h[m] = NumberAt(g, f, k, m)
      BY <1>1
    <2>2. g[m] = NumberAt(g, f, k, m)
      <3> HIDE DEF h
      <3> QED
        BY <1>1 DEF NumberUpTo
    <2>3. QED
      BY <2>1, <2>2
  <1>2. ASSUME NEW m \in k - 1 .. Len(f), m <= n + 1
        PROVE  NumberAt(g, f, k, m) = NumberAt(h, f, k, m)
    <2> HIDE DEF h
    <2>1. CASE m < k
      BY <2>1 DEF NumberAt
    <2>2. CASE m >= k
      <3>1. m - 1 \in k - 1 .. Len(f) /\ m - 1 <= n
        BY <1>2, <2>2
      <3>2. h[m - 1] = g[m - 1]
        BY <1>1, <3>1
      <3>3. QED
        BY <3>2 DEF NumberAt
    <2>3. QED
      BY <2>1, <2>2
  <1>3. h = [m \in k - 1 .. Len(f) |-> IF m <= n + 1 THEN NumberAt(h, f, k, m) ELSE 0]
    <2>1. ASSUME NEW m \in k - 1 .. Len(f)
          PROVE  (IF m <= n + 1 THEN NumberAt(g, f, k, m) ELSE 0)
                   = (IF m <= n + 1 THEN NumberAt(h, f, k, m) ELSE 0)
      <3> HIDE DEF h
      <3> QED
        BY <1>2
    <2>2. QED
      BY <2>1, Zenon
  <1>4. QED
    <2> HIDE DEF h
    <2> QED
      BY <1>3 DEF NumberUpTo

(* There is a function that satisfies the recursion.                        *)
LEMMA NumberIsDefined ==
  ASSUME NEW f \in Seq(STRING), NEW k \in 1 .. Len(f) + 1
  PROVE  \E g : g = [m \in k - 1 .. Len(f) |-> NumberAt(g, f, k, m)]
  <1> DEFINE Solved(n) == \E g : NumberUpTo(g, f, k, n)
  <1> DEFINE T == {n \in Nat : Solved(n - 1)}
  <1>1. Solved(0 - 1)
    <2> DEFINE g == [m \in k - 1 .. Len(f) |-> 0]
    <2>1. \A m \in k - 1 .. Len(f) : ~(m <= 0 - 1)
      OBVIOUS
    <2>2. NumberUpTo(g, f, k, 0 - 1)
      BY <2>1, Zenon DEF NumberUpTo
    <2>3. QED
      <3> HIDE DEF g
      <3> QED
        BY <2>2
  <1>2. ASSUME NEW n \in Nat, Solved(n - 1)
        PROVE  Solved(n + 1 - 1)
    <2>0. PICK g : NumberUpTo(g, f, k, n - 1)
      BY <1>2
    <2> HIDE DEF T
    <2>1. Solved((n - 1) + 1)
      <3>1. n - 1 \in Int
        OBVIOUS
      <3>2. QED
        BY <2>0, <3>1, NumberExtends
    <2>2. (n - 1) + 1 = n + 1 - 1
      OBVIOUS
    <2>3. QED
      <3> HIDE DEF Solved
      <3> QED
        BY <2>1, <2>2
  <1>3. \A n \in Nat : n \in T
    <2> HIDE DEF Solved
    <2>1. 0 \in T
      BY <1>1
    <2>2. \A n \in Nat : n \in T => n + 1 \in T
      BY <1>2
    <2>3. QED
      <3> HIDE DEF T
      <3> QED
        BY <2>1, <2>2, InductiveSet
  <1>4. Solved(Len(f))
    <2> HIDE DEF Solved
    <2>1. Len(f) + 1 \in Nat /\ Len(f) + 1 - 1 = Len(f)
      OBVIOUS
    <2>2. QED
      BY <1>3, <2>1
  <1>5. PICK g : NumberUpTo(g, f, k, Len(f))
    BY <1>4
  <1>6. \A m \in k - 1 .. Len(f) : m <= Len(f)
    OBVIOUS
  <1>7. g = [m \in k - 1 .. Len(f) |-> NumberAt(g, f, k, m)]
    BY <1>5, <1>6, Zenon DEF NumberUpTo
  <1>8. QED
    BY <1>7

(* The same for the number of a run of digits: none is 0, and one more      *)
(* digit is ten times the number and the digit.                             *)
LEMMA NumberEquations ==
  ASSUME NEW f \in Seq(STRING), NEW k \in 1 .. Len(f) + 1
  PROVE  /\ Number(f, k, k - 1) = 0
         /\ \A j \in k .. Len(f) : Number(f, k, j) = 10 * Number(f, k, j - 1) + DigitValue[f[j]]
  <1> DEFINE Solves(g) == g = [m \in k - 1 .. Len(f) |-> NumberAt(g, f, k, m)]
  <1> DEFINE value == CHOOSE g : Solves(g)
  <1>1. \E g : Solves(g)
    BY NumberIsDefined
  <1>2. Solves(value)
    <2> HIDE DEF Solves
    <2> QED
      BY <1>1
  <1>3. \A j : Number(f, k, j) = value[j]
    BY DEF Number, NumberAt
  <1>4. value = [m \in k - 1 .. Len(f) |-> NumberAt(value, f, k, m)]
    BY <1>2
  <1> HIDE DEF value
  <1>5. \A m \in k - 1 .. Len(f) : value[m] = NumberAt(value, f, k, m)
    BY <1>4
  <1>6. value[k - 1] = 0
    BY <1>5 DEF NumberAt
  <1>7. ASSUME NEW j \in k .. Len(f)
        PROVE  value[j] = 10 * value[j - 1] + DigitValue[f[j]]
    BY <1>5 DEF NumberAt
  <1>8. QED
    BY <1>3, <1>6, <1>7

(* A digit has a value.                                                     *)
LEMMA DigitValueType == \A d \in Digits : DigitValue[d] \in 0 .. 9
  BY DEF DigitValue, Digits

(* The number of a run of digits is natural, and does not become smaller    *)
(* with more digits.                                                        *)
LEMMA NumberGrows ==
  ASSUME NEW f \in Seq(STRING), NEW k \in 1 .. Len(f) + 1, NEW j \in k - 1 .. Len(f),
         \A m \in k .. j : f[m] \in Digits
  PROVE  \A m \in k - 1 .. j : Number(f, k, m) \in Nat /\ Number(f, k, m) <= Number(f, k, j)
  <1> DEFINE Num(m) == Number(f, k, m)
  <1>1. ASSUME NEW m \in Int, k <= m, m <= j, Num(m - 1) \in Nat
        PROVE  Num(m) \in Nat /\ Num(m - 1) <= Num(m)
    <2>1. Num(m) = 10 * Num(m - 1) + DigitValue[f[m]]
      BY <1>1, NumberEquations
    <2>2. DigitValue[f[m]] \in 0 .. 9
      BY <1>1, DigitValueType
    <2> DEFINE b == Num(m - 1)
    <2> DEFINE d == DigitValue[f[m]]
    <2>3. Num(m) = 10 * b + d /\ b \in Nat /\ d \in 0 .. 9
      BY <1>1, <2>1, <2>2
    <2> HIDE DEF Num, b, d
    <2>4. Num(m) \in Nat /\ b <= Num(m)
      BY <2>3
    <2>5. QED
      BY <2>4 DEF b
  <1>2. Num(k - 1) = 0
    BY NumberEquations
  <1> HIDE DEF Num
  <1> DEFINE Up == {n \in Nat : k - 1 + n <= j =>
                      /\ Num(k - 1 + n) \in Nat
                      /\ \A m \in k - 1 .. k - 1 + n :
                            Num(m) \in Nat /\ Num(m) <= Num(k - 1 + n)}
  <1>3. 0 \in Up
    BY <1>2
  <1>4. ASSUME NEW n \in Nat, n \in Up
        PROVE  n + 1 \in Up
    <2>1. SUFFICES ASSUME k - 1 + (n + 1) <= j
                   PROVE  /\ Num(k - 1 + (n + 1)) \in Nat
                          /\ \A m \in k - 1 .. k - 1 + (n + 1) :
                               Num(m) \in Nat /\ Num(m) <= Num(k - 1 + (n + 1))
      OBVIOUS
    <2> DEFINE p == k - 1 + n
    <2>2. /\ p \in Int /\ k <= p + 1 /\ p + 1 <= j /\ (p + 1) - 1 = p
          /\ k - 1 + (n + 1) = p + 1
      BY <2>1
    <2>3. /\ Num(p) \in Nat
          /\ \A m \in k - 1 .. p : Num(m) \in Nat /\ Num(m) <= Num(p)
      BY <1>4, <2>2
    <2> HIDE DEF p
    <2>4. Num(p + 1) \in Nat /\ Num(p) <= Num(p + 1)
      BY <1>1, <2>2, <2>3
    <2>5. \A m \in k - 1 .. p + 1 : Num(m) \in Nat /\ Num(m) <= Num(p + 1)
      BY <2>2, <2>3, <2>4
    <2>6. QED
      BY <2>2, <2>4, <2>5
  <1>5. \A n \in Nat : n \in Up
    <2> HIDE DEF Up
    <2> QED
      BY <1>3, <1>4, InductiveSet
  <1>6. PICK n \in Nat : k - 1 + n = j
    <2>1. j - (k - 1) \in Nat /\ k - 1 + (j - (k - 1)) = j
      OBVIOUS
    <2>2. QED
      BY <2>1
  <1>7. \A m \in k - 1 .. j : Num(m) \in Nat /\ Num(m) <= Num(j)
    <2>1. n \in Up
      BY <1>5
    <2>2. k - 1 + n <= j
      BY <1>6
    <2>3. \A m \in k - 1 .. k - 1 + n : Num(m) \in Nat /\ Num(m) <= Num(k - 1 + n)
      BY <2>1, <2>2
    <2>4. QED
      BY <1>6, <2>3
  <1>8. QED
    BY <1>7 DEF Num

-----------------------------------------------------------------------------
(* The meaning of a format string.                                          *)

(* What a format means from k on depends on what it means further on.       *)
LEMMA MeaningDependsOnRest ==
  ASSUME NEW f \in Seq(STRING), NEW count, NEW k \in 1 .. Len(f) + 1, NEW used,
         NEW g, NEW h, \A j \in k + 1 .. Len(f) + 1 : g[j] = h[j]
  PROVE  MeaningAt(g, f, count, k, used) = MeaningAt(h, f, count, k, used)
  <1> DEFINE last == LastDigit(f, k + 1)
  <1>1. CASE k > Len(f)
    BY <1>1 DEF MeaningAt
  <1>2. CASE k <= Len(f)
    <2>1. last \in k .. Len(f)
      BY <1>2, LastDigitExists
    <2>2. g[k + 1] = h[k + 1]
      BY <1>2
    <2>3. k # Len(f) => g[k + 2] = h[k + 2]
      BY <1>2
    <2>4. last # Len(f) => g[last + 2] = h[last + 2]
      BY <1>2, <2>1
    <2>5. QED
      BY <2>2, <2>3, <2>4, Zenon DEF MeaningAt
  <1>3. QED
    BY <1>1, <1>2

\* The function g satisfies the recursion in Meanings from n on.
MeaningsFrom(g, f, count, n) ==
  g = [k \in 1 .. Len(f) + 1 |->
         IF k >= n THEN [used \in Nat |-> MeaningAt(g, f, count, k, used)] ELSE 0]

(* It can be extended to n - 1.                                             *)
LEMMA MeaningsExtend ==
  ASSUME NEW f \in Seq(STRING), NEW count, NEW n \in Int, NEW g, MeaningsFrom(g, f, count, n)
  PROVE  \E h : MeaningsFrom(h, f, count, n - 1)
  <1> DEFINE h == [k \in 1 .. Len(f) + 1 |->
                     IF k >= n - 1 THEN [used \in Nat |-> MeaningAt(g, f, count, k, used)]
                                   ELSE 0]
  <1>1. ASSUME NEW k \in 1 .. Len(f) + 1, k >= n
        PROVE  h[k] = g[k]
    <2>1. h[k] = [used \in Nat |-> MeaningAt(g, f, count, k, used)]
      BY <1>1
    <2>2. g[k] = [used \in Nat |-> MeaningAt(g, f, count, k, used)]
      <3> HIDE DEF h
      <3> QED
        BY <1>1 DEF MeaningsFrom
    <2>3. QED
      BY <2>1, <2>2
  <1>2. ASSUME NEW k \in 1 .. Len(f) + 1, k >= n - 1
        PROVE  [used \in Nat |-> MeaningAt(g, f, count, k, used)]
                 = [used \in Nat |-> MeaningAt(h, f, count, k, used)]
    <2> HIDE DEF h
    <2>1. \A j \in k + 1 .. Len(f) + 1 : g[j] = h[j]
      BY <1>1, <1>2
    <2>2. \A used \in Nat : MeaningAt(g, f, count, k, used) = MeaningAt(h, f, count, k, used)
      BY <2>1, MeaningDependsOnRest
    <2>3. QED
      BY <2>2, Zenon
  <1>3. MeaningsFrom(h, f, count, n - 1)
    <2>1. ASSUME NEW k \in 1 .. Len(f) + 1
          PROVE  (IF k >= n - 1 THEN [used \in Nat |-> MeaningAt(g, f, count, k, used)] ELSE 0)
               = (IF k >= n - 1 THEN [used \in Nat |-> MeaningAt(h, f, count, k, used)] ELSE 0)
      <3> HIDE DEF h
      <3> QED
        BY <1>2
    <2>2. QED
      BY <2>1, Zenon DEF MeaningsFrom
  <1>4. QED
    <2> HIDE DEF h
    <2> QED
      BY <1>3

\* The function g satisfies the recursion in Meanings.
IsMeanings(g, f, count) ==
  g = [k \in 1 .. Len(f) + 1 |-> [used \in Nat |-> MeaningAt(g, f, count, k, used)]]

(* There is such a function.                                                *)
LEMMA MeaningsAreDefined ==
  ASSUME NEW f \in Seq(STRING), NEW count
  PROVE  \E g : IsMeanings(g, f, count)
  <1> DEFINE Solved(n) == \E g : MeaningsFrom(g, f, count, n)
  <1> DEFINE T == {m \in Nat : Solved(Len(f) + 2 - m)}
  <1>1. Solved(Len(f) + 2 - 0)
    <2> DEFINE g == [k \in 1 .. Len(f) + 1 |-> 0]
    <2>1. \A k \in 1 .. Len(f) + 1 : ~(k >= Len(f) + 2 - 0)
      OBVIOUS
    <2>2. MeaningsFrom(g, f, count, Len(f) + 2 - 0)
      BY <2>1, Zenon DEF MeaningsFrom
    <2>3. QED
      <3> HIDE DEF g
      <3> QED
        BY <2>2
  <1>2. ASSUME NEW m \in Nat, Solved(Len(f) + 2 - m)
        PROVE  Solved(Len(f) + 2 - (m + 1))
    <2>0. PICK g : MeaningsFrom(g, f, count, Len(f) + 2 - m)
      BY <1>2
    <2> HIDE DEF T
    <2>1. Solved(Len(f) + 2 - m - 1)
      <3>1. Len(f) + 2 - m \in Int
        OBVIOUS
      <3>2. QED
        BY <2>0, <3>1, MeaningsExtend
    <2>2. Len(f) + 2 - m - 1 = Len(f) + 2 - (m + 1)
      OBVIOUS
    <2>3. QED
      <3> HIDE DEF Solved
      <3> QED
        BY <2>1, <2>2
  <1>3. \A m \in Nat : m \in T
    <2> HIDE DEF Solved
    <2>1. 0 \in T
      BY <1>1
    <2>2. \A m \in Nat : m \in T => m + 1 \in T
      BY <1>2
    <2>3. QED
      <3> HIDE DEF T
      <3> QED
        BY <2>1, <2>2, InductiveSet
  <1>4. Solved(1)
    <2> HIDE DEF Solved
    <2>1. Len(f) + 1 \in Nat /\ Len(f) + 2 - (Len(f) + 1) = 1
      OBVIOUS
    <2>2. QED
      BY <1>3, <2>1
  <1>5. PICK g : MeaningsFrom(g, f, count, 1)
    BY <1>4
  <1>6. \A k \in 1 .. Len(f) + 1 : k >= 1
    OBVIOUS
  <1>7. IsMeanings(g, f, count)
    BY <1>5, <1>6, Zenon DEF MeaningsFrom, IsMeanings
  <1>8. QED
    BY <1>7

(* The recursion that defines the documented meaning of a format string has *)
(* a solution, and Meanings is one, for every string: what TextAsDocumented *)
(* compares with is defined by the equations that stand there.              *)
LEMMA MeaningsEquation ==
  ASSUME NEW f \in Seq(STRING), NEW count, NEW k \in 1 .. Len(f) + 1, NEW used \in Nat
  PROVE  Meanings(f, count)[k][used] = MeaningAt(Meanings(f, count), f, count, k, used)
  <1> DEFINE from == CHOOSE g : IsMeanings(g, f, count)
  <1>1. \E g : IsMeanings(g, f, count)
    BY MeaningsAreDefined
  <1>2. IsMeanings(from, f, count)
    BY <1>1
  <1>3. Meanings(f, count) = from
    BY DEF Meanings, IsMeanings
  <1>4. from = [j \in 1 .. Len(f) + 1 |-> [u \in Nat |-> MeaningAt(from, f, count, j, u)]]
    BY <1>2 DEF IsMeanings
  <1> HIDE DEF from
  <1>5. from[k] = [u \in Nat |-> MeaningAt(from, f, count, k, u)]
    BY <1>4
  <1>6. from[k][used] = MeaningAt(from, f, count, k, used)
    BY <1>5
  <1>7. QED
    BY <1>3, <1>6

Errors == {"none", "IllegalArgument", "IndexOutOfBounds"}

MeaningSet == [error : Errors, pieces : Seq(Pieces)]

(* A piece in front of a meaning.                                           *)
LEMMA PrecededType ==
  ASSUME NEW piece \in Pieces, NEW meaning \in MeaningSet
  PROVE  /\ Preceded(piece, meaning) \in MeaningSet
         /\ Preceded(piece, meaning).error = meaning.error
         /\ Preceded(piece, meaning).pieces = <<piece>> \o meaning.pieces
  <1>1. <<piece>> \in Seq(Pieces) /\ meaning.pieces \in Seq(Pieces)
    BY DEF MeaningSet
  <1>2. <<piece>> \o meaning.pieces \in Seq(Pieces)
    BY <1>1, ConcatProperties
  <1>3. QED
    BY <1>2 DEF MeaningSet, Preceded

\* A sequence of one element.
LEMMA SingletonType ==
  ASSUME NEW S, NEW x \in S
  PROVE  <<x>> \in Seq(S)
  OBVIOUS

(* The first element of the rest moves to the end of what comes before it.  *)
LEMMA AppendMoves ==
  ASSUME NEW S, NEW s \in Seq(S), NEW x \in S, NEW t \in Seq(S)
  PROVE  Append(s, x) \in Seq(S) /\ Append(s, x) \o t = s \o (<<x>> \o t)
  <1>1. Append(s, x) \in Seq(S) /\ Append(s, x) = s \o <<x>>
    BY AppendProperties, AppendIsConcat
  <1> DEFINE single == <<x>>
  <1>2. single \in Seq(S)
    BY SingletonType
  <1> HIDE DEF single
  <1>3. (s \o single) \o t = s \o (single \o t)
    BY <1>2, ConcatAssociative
  <1>4. QED
    BY <1>1, <1>3 DEF single

(* A meaning with other pieces.                                             *)
LEMMA OtherPieces ==
  ASSUME NEW meaning \in MeaningSet, NEW said
  PROVE  [meaning EXCEPT !.pieces = said] = [error |-> meaning.error, pieces |-> said]
  BY DEF MeaningSet

\* A character is a piece.
LEMMA CharacterIsPiece ==
  ASSUME NEW c \in STRING
  PROVE  <<c>> \in Pieces
  BY SingletonType, Zenon DEF Pieces

\* An argument that has been inserted is a piece.
LEMMA ArgumentIsPiece ==
  ASSUME NEW n \in Nat
  PROVE  <<"argument", n>> \in Pieces
  BY DEF Pieces

\* An error is a meaning.
LEMMA ErrorType ==
  ASSUME NEW error \in Errors
  PROVE  Meaning(error, <<>>) \in MeaningSet
  BY DEF Meaning, MeaningSet

(* The meaning from k on has its type if the later ones have.               *)
LEMMA MeaningAtType ==
  ASSUME NEW f \in Seq(STRING), NEW count, NEW k \in 1 .. Len(f) + 1, NEW used \in Nat, NEW g,
         \A j \in k + 1 .. Len(f) + 1 : \A u \in Nat : g[j][u] \in MeaningSet
  PROVE  MeaningAt(g, f, count, k, used) \in MeaningSet
  <1> DEFINE last == LastDigit(f, k + 1)
  <1> DEFINE which == IF last = k THEN used ELSE Number(f, k + 1, last)
  <1>1. CASE k > Len(f)
    BY <1>1, ErrorType DEF MeaningAt, Errors
  <1>2. CASE k <= Len(f)
    <2>1. last \in k .. Len(f) /\ \A m \in k + 1 .. last : f[m] \in Digits
      BY <1>2, LastDigitExists
    <2>2. Number(f, k + 1, last) \in Nat
      BY <1>2, <2>1, NumberGrows
    <2>3. which \in Nat
      BY <2>2
    <2>4. f[k] \in STRING /\ (k # Len(f) => f[k + 1] \in STRING)
      BY <1>2
    <2> HIDE DEF which, last
    <2>5. Preceded(<<f[k]>>, g[k + 1][used]) \in MeaningSet
      <3>1. <<f[k]>> \in Pieces
        BY <2>4, CharacterIsPiece, Zenon
      <3>2. g[k + 1][used] \in MeaningSet
        BY <1>2
      <3>3. QED
        BY <3>1, <3>2, PrecededType, Zenon
    <2>6. ASSUME k # Len(f)
          PROVE  Preceded(<<f[k + 1]>>, g[k + 2][used]) \in MeaningSet
      <3>1. <<f[k + 1]>> \in Pieces
        BY <2>4, <2>6, CharacterIsPiece, Zenon
      <3>2. g[k + 2][used] \in MeaningSet
        BY <1>2, <2>6
      <3>3. QED
        BY <3>1, <3>2, PrecededType, Zenon
    <2>7. ASSUME last # Len(f)
          PROVE  Preceded(<<"argument", which>>, g[last + 2][IF last = k THEN used + 1 ELSE used])
                   \in MeaningSet
      <3>1. g[last + 2][IF last = k THEN used + 1 ELSE used] \in MeaningSet
        BY <1>2, <2>1, <2>7
      <3>2. <<"argument", which>> \in Pieces
        BY <2>3, ArgumentIsPiece
      <3>3. QED
        BY <3>1, <3>2, PrecededType
    <2>8. /\ Meaning("IllegalArgument", <<>>) \in MeaningSet
          /\ Meaning("IndexOutOfBounds", <<>>) \in MeaningSet
      BY ErrorType DEF Errors
    <2>9. ~(k > Len(f))
      BY <1>2
    <2>10. QED
      BY <2>5, <2>6, <2>7, <2>8, <2>9, Zenon DEF MeaningAt, which, last
  <1>3. QED
    BY <1>1, <1>2

(* Every part of every format has a meaning.                                *)
LEMMA MeaningsType ==
  ASSUME NEW f \in Seq(STRING), NEW count, NEW k \in 1 .. Len(f) + 1, NEW used \in Nat
  PROVE  Meanings(f, count)[k][used] \in MeaningSet
  <1> DEFINE from == Meanings(f, count)
  <1> DEFINE Typed(j) == \A u \in Nat : from[j][u] \in MeaningSet
  <1> DEFINE T == {m \in Nat : \A j \in 1 .. Len(f) + 1 : j >= Len(f) + 2 - m => Typed(j)}
  <1> HIDE DEF Typed
  <1>1. 0 \in T
    OBVIOUS
  <1>2. ASSUME NEW m \in Nat, m \in T
        PROVE  m + 1 \in T
    <2>1. SUFFICES ASSUME NEW j \in 1 .. Len(f) + 1, j >= Len(f) + 2 - (m + 1)
                   PROVE  Typed(j)
      OBVIOUS
    <2>2. \A n \in j + 1 .. Len(f) + 1 : Typed(n)
      BY <1>2, <2>1
    <2>3. \A n \in j + 1 .. Len(f) + 1 : \A u \in Nat : from[n][u] \in MeaningSet
      BY <2>2 DEF Typed
    <2>4. \A u \in Nat : from[j][u] = MeaningAt(from, f, count, j, u)
      BY MeaningsEquation
    <2> HIDE DEF from
    <2>5. \A u \in Nat : MeaningAt(from, f, count, j, u) \in MeaningSet
      BY <2>3, MeaningAtType
    <2>6. QED
      BY <2>4, <2>5 DEF Typed
  <1>3. \A m \in Nat : m \in T
    <2> HIDE DEF T
    <2> QED
      BY <1>1, <1>2, InductiveSet
  <1>4. Len(f) + 1 \in Nat /\ k >= Len(f) + 2 - (Len(f) + 1)
    OBVIOUS
  <1>5. Typed(k)
    BY <1>3, <1>4
  <1>6. QED
    BY <1>5 DEF Typed

\* Nothing is left behind the end.
LEMMA MeaningOfEnd ==
  ASSUME NEW f \in Seq(STRING), NEW count, NEW used \in Nat
  PROVE  Meanings(f, count)[Len(f) + 1][used] = Meaning("none", <<>>)
  <1>1. Len(f) + 1 \in 1 .. Len(f) + 1 /\ Len(f) + 1 > Len(f)
    OBVIOUS
  <1>2. QED
    BY <1>1, MeaningsEquation, Zenon DEF MeaningAt

\* A character that is neither a bracket nor a backslash stands for itself.
LEMMA MeaningOfLiteral ==
  ASSUME NEW f \in Seq(STRING), NEW count, NEW used \in Nat, NEW k \in 1 .. Len(f),
         f[k] # Opening, f[k] # Backslash
  PROVE  Meanings(f, count)[k][used] = Preceded(<<f[k]>>, Meanings(f, count)[k + 1][used])
  <1> DEFINE from == Meanings(f, count)
  <1>1. k \in 1 .. Len(f) + 1 /\ ~(k > Len(f))
    OBVIOUS
  <1>2. from[k][used] = MeaningAt(from, f, count, k, used)
    BY <1>1, MeaningsEquation
  <1> HIDE DEF from
  <1>3. MeaningAt(from, f, count, k, used) = Preceded(<<f[k]>>, from[k + 1][used])
    BY <1>1, Zenon DEF MeaningAt
  <1>4. QED
    BY <1>2, <1>3 DEF from

\* A backslash stands for the character behind it.
LEMMA MeaningOfEscape ==
  ASSUME NEW f \in Seq(STRING), NEW count, NEW used \in Nat, NEW k \in 1 .. Len(f),
         f[k] = Backslash
  PROVE  Meanings(f, count)[k][used] =
           IF k = Len(f) THEN Meaning("IllegalArgument", <<>>)
           ELSE Preceded(<<f[k + 1]>>, Meanings(f, count)[k + 2][used])
  <1> DEFINE from == Meanings(f, count)
  <1>1. k \in 1 .. Len(f) + 1 /\ ~(k > Len(f))
    OBVIOUS
  <1>2. from[k][used] = MeaningAt(from, f, count, k, used)
    BY <1>1, MeaningsEquation
  <1> HIDE DEF from
  <1>3. MeaningAt(from, f, count, k, used) =
          IF k = Len(f) THEN Meaning("IllegalArgument", <<>>)
          ELSE Preceded(<<f[k + 1]>>, from[k + 2][used])
    BY <1>1, Zenon DEF MeaningAt
  <1>4. QED
    BY <1>2, <1>3 DEF from

\* f has a bracket at k, and the digits behind it end at j.
BracketAt(f, k, j) ==
  /\ k \in 1 .. Len(f) /\ f[k] = Opening
  /\ j \in k .. Len(f)
  /\ \A m \in k + 1 .. j : f[m] \in Digits
  /\ j < Len(f) => f[j + 1] \notin Digits

(* What the recursion uses of a bracket.                                    *)
LEMMA BracketFacts ==
  ASSUME NEW f \in Seq(STRING), NEW k, NEW j, BracketAt(f, k, j)
  PROVE  /\ k \in 1 .. Len(f) + 1 /\ ~(k > Len(f))
         /\ f[k] = Opening /\ f[k] # Backslash
         /\ k = Len(f) => j = Len(f)
         /\ LastDigit(f, k + 1) = j
  <1>1. /\ k \in 1 .. Len(f) /\ f[k] = Opening /\ j \in k .. Len(f)
        /\ \A m \in k + 1 .. j : f[m] \in Digits
        /\ j < Len(f) => f[j + 1] \notin Digits
    BY DEF BracketAt
  <1>2. LastDigit(f, k + 1) = j
    <2>1. k + 1 \in 1 .. Len(f) + 1 /\ j \in (k + 1) - 1 .. Len(f)
      BY <1>1
    <2>2. QED
      BY <1>1, <2>1, LastDigitIs
  <1>3. f[k] # Backslash
    BY <1>1, Zenon DEF Opening, Backslash
  <1>4. k \in 1 .. Len(f) + 1 /\ ~(k > Len(f)) /\ (k = Len(f) => j = Len(f))
    BY <1>1
  <1>5. QED
    BY <1>1, <1>2, <1>3, <1>4

\* It has to be closed behind the digits.
LEMMA MeaningOfOpenBracket ==
  ASSUME NEW f \in Seq(STRING), NEW count, NEW used \in Nat, NEW k, NEW j,
         BracketAt(f, k, j), j = Len(f) \/ f[j + 1] # Closing
  PROVE  Meanings(f, count)[k][used] = Meaning("IllegalArgument", <<>>)
  <1> DEFINE from == Meanings(f, count)
  <1>1. from[k][used] = MeaningAt(from, f, count, k, used)
    BY BracketFacts, MeaningsEquation
  <1> HIDE DEF from
  <1>2. MeaningAt(from, f, count, k, used) = Meaning("IllegalArgument", <<>>)
    BY BracketFacts, Zenon DEF MeaningAt
  <1>3. QED
    BY <1>1, <1>2 DEF from

\* Without digits it stands for the next argument.
LEMMA MeaningOfNext ==
  ASSUME NEW f \in Seq(STRING), NEW count, NEW used \in Nat, NEW k,
         BracketAt(f, k, k), k # Len(f), f[k + 1] = Closing
  PROVE  Meanings(f, count)[k][used] =
           IF used >= count THEN Meaning("IndexOutOfBounds", <<>>)
           ELSE Preceded(<<"argument", used>>, Meanings(f, count)[k + 2][used + 1])
  <1> DEFINE from == Meanings(f, count)
  <1>1. from[k][used] = MeaningAt(from, f, count, k, used)
    BY BracketFacts, MeaningsEquation
  <1> HIDE DEF from
  <1>2. MeaningAt(from, f, count, k, used) =
          IF used >= count THEN Meaning("IndexOutOfBounds", <<>>)
          ELSE Preceded(<<"argument", used>>, from[k + 2][used + 1])
    BY BracketFacts, Zenon DEF MeaningAt
  <1>3. QED
    BY <1>1, <1>2 DEF from

\* With digits it stands for the argument with their number.
LEMMA MeaningOfIndex ==
  ASSUME NEW f \in Seq(STRING), NEW count, NEW used \in Nat, NEW k, NEW j,
         BracketAt(f, k, j), j # k, j # Len(f), f[j + 1] = Closing
  PROVE  Meanings(f, count)[k][used] =
           IF Number(f, k + 1, j) >= count THEN Meaning("IndexOutOfBounds", <<>>)
           ELSE Preceded(<<"argument", Number(f, k + 1, j)>>, Meanings(f, count)[j + 2][used])
  <1> DEFINE from == Meanings(f, count)
  <1>1. from[k][used] = MeaningAt(from, f, count, k, used)
    BY BracketFacts, MeaningsEquation
  <1> HIDE DEF from
  <1>2. MeaningAt(from, f, count, k, used) =
          IF Number(f, k + 1, j) >= count THEN Meaning("IndexOutOfBounds", <<>>)
          ELSE Preceded(<<"argument", Number(f, k + 1, j)>>, from[j + 2][used])
    BY BracketFacts, Zenon DEF MeaningAt
  <1>3. QED
    BY <1>1, <1>2 DEF from

(* An index that is too large is an error, and stays one when more digits   *)
(* follow: an int may overflow only where the call has no right to succeed. *)
LEMMA LargeIndexFails ==
  ASSUME NEW f \in Seq(STRING), NEW count \in Nat, NEW used \in Nat, NEW k \in 1 .. Len(f),
         f[k] = Opening, NEW j \in k + 1 .. Len(f), \A m \in k + 1 .. j : f[m] \in Digits,
         Number(f, k + 1, j) >= count
  PROVE  Meanings(f, count)[k][used].error # "none"
  <1> DEFINE last == LastDigit(f, k + 1)
  <1>1. k + 1 \in 1 .. Len(f) + 1
    OBVIOUS
  <1>2. /\ last \in k .. Len(f)
        /\ \A m \in k + 1 .. last : f[m] \in Digits
        /\ last < Len(f) => f[last + 1] \notin Digits
    BY <1>1, LastDigitExists
  <1> HIDE DEF last
  <1>3. last >= j
    BY <1>2
  <1>4. /\ Number(f, k + 1, last) \in Nat /\ Number(f, k + 1, j) \in Nat
        /\ Number(f, k + 1, j) <= Number(f, k + 1, last)
    <2>1. last \in (k + 1) - 1 .. Len(f) /\ j \in (k + 1) - 1 .. last
      BY <1>2, <1>3
    <2>2. last \in (k + 1) - 1 .. last
      BY <2>1
    <2>3. QED
      BY <1>1, <1>2, <2>1, <2>2, NumberGrows
  <1>5. last # k /\ Number(f, k + 1, last) >= count
    BY <1>3, <1>4
  <1>6. Meanings(f, count)[k][used]
          \in {Meaning("IllegalArgument", <<>>), Meaning("IndexOutOfBounds", <<>>)}
    <2>1. BracketAt(f, k, last)
      BY <1>2 DEF BracketAt
    <2>2. CASE last = Len(f) \/ f[last + 1] # Closing
      BY <2>1, <2>2, MeaningOfOpenBracket
    <2>3. CASE last # Len(f) /\ f[last + 1] = Closing
      BY <1>5, <2>1, <2>3, MeaningOfIndex
    <2>4. QED
      BY <2>2, <2>3
  <1>7. QED
    BY <1>6 DEF Meaning

(* Without arguments a bracket is always an error.                          *)
LEMMA BracketWithoutArguments ==
  ASSUME NEW f \in Seq(STRING), NEW used \in Nat, NEW k \in 1 .. Len(f), f[k] = Opening
  PROVE  Meanings(f, 0)[k][used].error \in {"IllegalArgument", "IndexOutOfBounds"}
  <1> DEFINE last == LastDigit(f, k + 1)
  <1> DEFINE which == IF last = k THEN used ELSE Number(f, k + 1, last)
  <1>1. k + 1 \in 1 .. Len(f) + 1
    OBVIOUS
  <1>2. /\ last \in k .. Len(f)
        /\ \A m \in k + 1 .. last : f[m] \in Digits
        /\ last < Len(f) => f[last + 1] \notin Digits
    BY <1>1, LastDigitExists
  <1>3. which >= 0
    <2>1. last \in (k + 1) - 1 .. Len(f) /\ last \in (k + 1) - 1 .. last
      BY <1>2
    <2>2. Number(f, k + 1, last) \in Nat
      BY <1>1, <1>2, <2>1, NumberGrows
    <2> HIDE DEF last
    <2>3. QED
      BY <2>2
  <1> HIDE DEF last
  <1>4. Meanings(f, 0)[k][used]
          \in {Meaning("IllegalArgument", <<>>), Meaning("IndexOutOfBounds", <<>>)}
    <2>1. BracketAt(f, k, last)
      BY <1>2 DEF BracketAt
    <2>2. CASE last = Len(f) \/ f[last + 1] # Closing
      BY <2>1, <2>2, MeaningOfOpenBracket
    <2>3. CASE last = k /\ last # Len(f) /\ f[last + 1] = Closing
      BY <1>3, <2>1, <2>3, MeaningOfNext
    <2>4. CASE last # k /\ last # Len(f) /\ f[last + 1] = Closing
      BY <1>3, <2>1, <2>4, MeaningOfIndex
    <2>5. QED
      BY <2>2, <2>3, <2>4
  <1>5. QED
    BY <1>4 DEF Meaning

=============================================================================
