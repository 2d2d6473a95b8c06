------------------------ MODULE PureFunctionsProofs ------------------------
(***************************************************************************)
(* Proofs about the functions of the client that keep no state: for queue  *)
(* names of any length and any hash function, for chains of errors of any  *)
(* length, and for delays of any width, initial value and cap; and for     *)
(* the CRC16 of names of any length.                                       *)
(*                                                                         *)
(* Functions defined by recursion on numbers are reasoned about with       *)
(* Induct, which is induction for a set of numbers.  The exclusive or of   *)
(* the CRC is one of them, by the number of bits (Low).                    *)
(***************************************************************************)
EXTENDS PureFunctions, WellFoundedInduction, TLAPS

-----------------------------------------------------------------------------
(* Induction and recursion on numbers *)

\* A set with 0 and the successor of each of its numbers has all numbers.
LEMMA Induct ==
  ASSUME NEW S, 0 \in S, \A n \in Nat : n \in S => n + 1 \in S
  PROVE  Nat \subseteq S
<1> DEFINE T == Nat \ S
<1>1. SUFFICES ASSUME T # {} PROVE FALSE
  OBVIOUS
<1>0. IsWellFoundedOn(OpToRel(<, Nat), Nat)
  BY NatLessThanWellFounded
<1>2. PICK n \in T : \A m \in T : ~(<<m, n>> \in OpToRel(<, Nat))
  BY <1>0, <1>1, WFMin
<1>3. \A m \in T : ~(m < n)
  BY <1>2 DEF OpToRel
<1>4. n # 0 /\ n - 1 \in Nat /\ n - 1 < n
  OBVIOUS
<1>5. n - 1 + 1 \in S
  BY <1>3, <1>4
<1> QED BY <1>4, <1>5

\* Some sequence of values begins with `start`, and each value gives the next by `step`.
Recurs(V, start, step) ==
  \E f \in [Nat -> V] : f[0] = start /\ \A n \in Nat \ {0} : f[n] = step[f[n - 1]]

\* A value and a function for the next one define a sequence of values.
LEMMA Recursion ==
  ASSUME NEW V, NEW start \in V, NEW step \in [V -> V]
  PROVE  Recurs(V, start, step)
<1> DEFINE Begins(g, n) ==
             g[0] = start /\ \A i \in 1..n : g[i] = step[g[i - 1]]
           Good == {n \in Nat : \E g \in [Nat -> V] : Begins(g, n)}
<1>1. 0 \in Good
  <2>1. [i \in Nat |-> start] \in [Nat -> V] /\ Begins([i \in Nat |-> start], 0)
    OBVIOUS
  <2> QED BY <2>1
<1>2. ASSUME NEW n \in Nat, n \in Good PROVE n + 1 \in Good
  <2>1. PICK g \in [Nat -> V] : Begins(g, n)
    BY <1>2
  <2> DEFINE h == [g EXCEPT ![n + 1] = step[g[n]]]
  <2>2. h \in [Nat -> V]
    OBVIOUS
  <2>3. Begins(h, n + 1)
    BY <2>1
  <2> HIDE DEF Begins, h
  <2> QED BY <2>2, <2>3
<1>3. \A n \in Nat : \E g \in [Nat -> V] : Begins(g, n)
  <2> HIDE DEF Begins, Good
  <2>1. Nat \subseteq Good
    BY <1>1, <1>2, Induct
  <2> QED BY <2>1 DEF Good
<1>4. ASSUME NEW g, NEW h, NEW n \in Nat, Begins(g, n), Begins(h, n + 1) PROVE g[n] = h[n]
  <2> DEFINE S == {k \in Nat : k <= n => g[k] = h[k]}
  <2>1. 0 \in S
    BY <1>4
  <2>2. ASSUME NEW k \in Nat, k \in S PROVE k + 1 \in S
    <3>1. k + 1 <= n => g[k + 1] = step[g[k]] /\ h[k + 1] = step[h[k]]
      BY <1>4
    <3> QED BY <2>2, <3>1
  <2>3. Nat \subseteq S
    <3> HIDE DEF S
    <3> QED BY <2>1, <2>2, Induct
  <2> QED BY <2>3
<1> DEFINE G(n) == CHOOSE g \in [Nat -> V] : Begins(g, n)
           f == [n \in Nat |-> G(n)[n]]
<1>5. \A n \in Nat : G(n) \in [Nat -> V] /\ Begins(G(n), n)
  BY <1>3
<1> HIDE DEF G
<1>6. ASSUME NEW n \in Nat PROVE f[n] = IF n = 0 THEN start ELSE step[f[n - 1]]
  <2>1. CASE n = 0
    BY <1>5, <2>1
  <2>2. CASE n # 0
    <3>1. n - 1 \in Nat /\ n - 1 + 1 = n
      BY <2>2
    <3>2. G(n - 1)[n - 1] = G(n)[n - 1]
      <4> HIDE DEF Begins
      <4> QED BY <1>4, <1>5, <3>1
    <3>3. G(n)[n] = step[G(n)[n - 1]]
      BY <1>5, <2>2
    <3> QED BY <2>2, <3>1, <3>2, <3>3
  <2> QED BY <2>1, <2>2
<1>7. f \in [Nat -> V]
  BY <1>5
<1> QED BY <1>6, <1>7 DEF Recurs

-----------------------------------------------------------------------------
(* Powers of two *)

\* Pow2 satisfies its equation.
LEMMA PowEquation == Pow2 = [n \in Nat |-> IF n = 0 THEN 1 ELSE 2 * Pow2[n - 1]]
<1> DEFINE twice == [v \in Nat |-> 2 * v]
<1>1. twice \in [Nat -> Nat]
  OBVIOUS
<1>2. PICK f \in [Nat -> Nat] : f[0] = 1 /\ \A n \in Nat \ {0} : f[n] = twice[f[n - 1]]
  <2> HIDE DEF twice
  <2>1. 1 \in Nat
    OBVIOUS
  <2>2. Recurs(Nat, 1, twice)
    BY <1>1, <2>1, Recursion
  <2> QED BY <2>2 DEF Recurs
<1>3. f = [n \in Nat |-> IF n = 0 THEN 1 ELSE 2 * f[n - 1]]
  <2>1. \A n \in Nat \ {0} : f[n - 1] \in Nat
    OBVIOUS
  <2>2. \A n \in Nat : f[n] = IF n = 0 THEN 1 ELSE 2 * f[n - 1]
    BY <1>2, <2>1
  <2> QED BY <2>2
<1> QED BY <1>3 DEF Pow2

\* Powers of two are positive, each twice the one before.
LEMMA PowFacts ==
  /\ \A n \in Nat : Pow2[n] \in Nat \ {0}
  /\ \A n \in Nat \ {0} : Pow2[n] = 2 * Pow2[n - 1]
<1>1. /\ Pow2[0] = 1
      /\ \A n \in Nat \ {0} : Pow2[n] = 2 * Pow2[n - 1]
  BY PowEquation
<1> DEFINE S == {n \in Nat : Pow2[n] \in Nat \ {0}}
<1>2. 0 \in S /\ \A n \in Nat : n \in S => n + 1 \in S
  BY <1>1
<1>3. Nat \subseteq S
  <2> HIDE DEF S
  <2> QED BY <1>2, Induct
<1> QED BY <1>1, <1>3

-----------------------------------------------------------------------------
(* Exclusive or *)

\* The last bit of an exclusive or.
Last(x, y) == (x + y) % 2

\* It is a number.
LEMMA LastNumbers == \A x, y \in Nat : Last(x, y) \in Nat
  BY DEF Last

\* The exclusive or of the last w bits of two numbers, from the last bit on.
XorStep == [f \in [Nat \X Nat -> Nat] |->
              [z \in Nat \X Nat |-> 2 * f[<<z[1] \div 2, z[2] \div 2>>] + Last(z[1], z[2])]]
XorTo[w \in Nat] == IF w = 0 THEN [z \in Nat \X Nat |-> 0] ELSE XorStep[XorTo[w - 1]]
Low(w, x, y) == XorTo[w][<<x, y>>]

\* What Low does: one bit, and the rest of the numbers for the other ones.
LEMMA LowFacts ==
  /\ \A w, x, y \in Nat : Low(w, x, y) \in Nat
  /\ \A x, y \in Nat : Low(0, x, y) = 0
  /\ \A w, x, y \in Nat : Low(w + 1, x, y) = 2 * Low(w, x \div 2, y \div 2) + Last(x, y)
<1> DEFINE V == [Nat \X Nat -> Nat]
           zero == [z \in Nat \X Nat |-> 0]
<1>1. \A x, y \in Nat : <<x \div 2, y \div 2>> \in Nat \X Nat /\ Last(x, y) \in Nat
  BY DEF Last
<1>2. XorStep \in [V -> V]
  <2>1. ASSUME NEW f \in V, NEW z \in Nat \X Nat
        PROVE  2 * f[<<z[1] \div 2, z[2] \div 2>>] + Last(z[1], z[2]) \in Nat
    <3>1. f[<<z[1] \div 2, z[2] \div 2>>] \in Nat /\ Last(z[1], z[2]) \in Nat
      BY <1>1
    <3> QED BY <3>1
  <2> QED BY <2>1 DEF XorStep
<1>3. PICK f \in [Nat -> V] : f[0] = zero /\ \A n \in Nat \ {0} : f[n] = XorStep[f[n - 1]]
  <2> HIDE DEF V, zero
  <2>1. zero \in V
    BY DEF V, zero
  <2>2. Recurs(V, zero, XorStep)
    BY <1>2, <2>1, Recursion
  <2> QED BY <2>2 DEF Recurs
<1>4. f = [w \in Nat |-> IF w = 0 THEN zero ELSE XorStep[f[w - 1]]]
  BY <1>3
<1>5. XorTo = [w \in Nat |-> IF w = 0 THEN zero ELSE XorStep[XorTo[w - 1]]]
  BY <1>4 DEF XorTo
<1>6. /\ XorTo[0] = zero
      /\ \A w \in Nat : XorTo[w + 1] = XorStep[XorTo[w]]
  <2> HIDE DEF zero
  <2>1. \A w \in Nat : w + 1 \in Nat /\ w + 1 # 0 /\ w + 1 - 1 = w
    OBVIOUS
  <2> QED BY <1>5, <2>1
<1>7. \A w \in Nat : XorTo[w] \in V
  <2> DEFINE S == {w \in Nat : XorTo[w] \in V}
  <2>1. 0 \in S /\ \A w \in Nat : w \in S => w + 1 \in S
    <3>1. zero \in V
      OBVIOUS
    <3> HIDE DEF V, zero
    <3> QED BY <1>2, <1>6, <3>1
  <2>2. Nat \subseteq S
    <3> HIDE DEF S
    <3> QED BY <2>1, Induct
  <2> QED BY <2>2
<1>8. ASSUME NEW w \in Nat, NEW x \in Nat, NEW y \in Nat
      PROVE  Low(w + 1, x, y) = 2 * Low(w, x \div 2, y \div 2) + Last(x, y)
  <2>1. XorTo[w + 1] = XorStep[XorTo[w]]
    BY <1>6
  <2> DEFINE h == XorTo[w]
  <2>2. h \in V
    BY <1>7
  <2> HIDE DEF h
  <2>3. XorStep[h][<<x, y>>] = 2 * h[<<x \div 2, y \div 2>>] + Last(x, y)
    BY <2>2 DEF XorStep
  <2> QED BY <2>1, <2>3 DEF Low, h
<1> QED BY <1>6, <1>7, <1>8 DEF Low

\* The equation for one more bit, on its own.
LEMMA LowMore ==
  ASSUME NEW w \in Nat, NEW x \in Nat, NEW y \in Nat
  PROVE  Low(w + 1, x, y) = 2 * Low(w, x \div 2, y \div 2) + Last(x, y)
  BY LowFacts

\* Below, an equation between exclusive ors is shown for one more bit at a time.

\* The order does not matter.
LEMMA LowCommutes == \A w, x, y \in Nat : Low(w, x, y) = Low(w, y, x)
<1> DEFINE S == {w \in Nat : \A x, y \in Nat : Low(w, x, y) = Low(w, y, x)}
<1>1. 0 \in S
  BY LowFacts
<1>2. ASSUME NEW w \in Nat, w \in S PROVE w + 1 \in S
  <2>1. ASSUME NEW x \in Nat, NEW y \in Nat PROVE Low(w + 1, x, y) = Low(w + 1, y, x)
    <3>1. Low(w, x \div 2, y \div 2) = Low(w, y \div 2, x \div 2) /\ Last(x, y) = Last(y, x)
      BY <1>2 DEF Last
    <3>2. /\ Low(w + 1, x, y) = 2 * Low(w, x \div 2, y \div 2) + Last(x, y)
          /\ Low(w + 1, y, x) = 2 * Low(w, y \div 2, x \div 2) + Last(y, x)
      BY LowFacts
    <3> QED BY <3>1, <3>2
  <2> QED BY <2>1
<1>3. Nat \subseteq S
  <2> HIDE DEF S
  <2> QED BY <1>1, <1>2, Induct
<1> QED BY <1>3

\* Nor does the grouping.
LEMMA LowAssociates ==
  \A w, x, y, z \in Nat : Low(w, Low(w, x, y), z) = Low(w, x, Low(w, y, z))
<1> DEFINE S == {w \in Nat : \A x, y, z \in Nat : Low(w, Low(w, x, y), z) = Low(w, x, Low(w, y, z))}
<1>1. 0 \in S
  BY LowFacts
<1>2. ASSUME NEW w \in Nat, w \in S PROVE w + 1 \in S
  <2>1. ASSUME NEW x \in Nat, NEW y \in Nat, NEW z \in Nat
        PROVE  Low(w + 1, Low(w + 1, x, y), z) = Low(w + 1, x, Low(w + 1, y, z))
    <3>1. Low(w + 1, x, y) \in Nat /\ Low(w + 1, y, z) \in Nat
      <4>1. w + 1 \in Nat
        OBVIOUS
      <4> QED BY <4>1, LowFacts
    <3>2. SUFFICES ASSUME NEW p \in Nat, NEW q \in Nat, p = Low(w + 1, x, y), q = Low(w + 1, y, z)
                   PROVE  Low(w + 1, p, z) = Low(w + 1, x, q)
      BY <3>1
    <3>3. \A m, n \in Nat : Low(w + 1, m, n) = 2 * Low(w, m \div 2, n \div 2) + Last(m, n)
      BY LowMore
    <3>4. /\ p = 2 * Low(w, x \div 2, y \div 2) + Last(x, y)
          /\ q = 2 * Low(w, y \div 2, z \div 2) + Last(y, z)
      BY <3>2, <3>3
    <3>5. PICK ab \in Nat, bc \in Nat : ab = Low(w, x \div 2, y \div 2) /\ bc = Low(w, y \div 2, z \div 2)
      <4>1. x \div 2 \in Nat /\ y \div 2 \in Nat /\ z \div 2 \in Nat
        OBVIOUS
      <4> QED BY <4>1, LowFacts
    <3>6. p \div 2 = ab /\ q \div 2 = bc /\ Last(p, z) = Last(x, q)
      <4>1. p = 2 * ab + Last(x, y) /\ q = 2 * bc + Last(y, z)
        BY <3>4, <3>5
      <4> QED BY <4>1 DEF Last
    <3>7. Low(w, ab, z \div 2) = Low(w, x \div 2, bc)
      BY <1>2, <3>5
    <3>8. /\ Low(w + 1, p, z) = 2 * Low(w, p \div 2, z \div 2) + Last(p, z)
          /\ Low(w + 1, x, q) = 2 * Low(w, x \div 2, q \div 2) + Last(x, q)
      BY <3>3
    <3> QED BY <3>6, <3>7, <3>8
  <2> QED BY <2>1
<1>3. Nat \subseteq S
  <2> HIDE DEF S
  <2> QED BY <1>1, <1>2, Induct
<1> QED BY <1>3

\* A number with itself gives nothing.
LEMMA LowCancels == \A w, x \in Nat : Low(w, x, x) = 0
<1> DEFINE S == {w \in Nat : \A x \in Nat : Low(w, x, x) = 0}
<1>1. 0 \in S
  BY LowFacts
<1>2. ASSUME NEW w \in Nat, w \in S PROVE w + 1 \in S
  <2>1. ASSUME NEW x \in Nat PROVE Low(w + 1, x, x) = 0
    <3>1. Low(w, x \div 2, x \div 2) = 0 /\ Last(x, x) = 0
      BY <1>2 DEF Last
    <3>2. Low(w + 1, x, x) = 2 * Low(w, x \div 2, x \div 2) + Last(x, x)
      BY LowFacts
    <3> QED BY <3>1, <3>2
  <2> QED BY <2>1
<1>3. Nat \subseteq S
  <2> HIDE DEF S
  <2> QED BY <1>1, <1>2, Induct
<1> QED BY <1>3

\* Zero changes nothing but what is beyond the last w bits.
LEMMA LowZero == \A w, x \in Nat : x < Pow2[w] => Low(w, x, 0) = x
<1> DEFINE S == {w \in Nat : \A x \in Nat : x < Pow2[w] => Low(w, x, 0) = x}
<1>1. 0 \in S
  BY LowFacts, PowEquation
<1>2. ASSUME NEW w \in Nat, w \in S PROVE w + 1 \in S
  <2>1. ASSUME NEW x \in Nat, x < Pow2[w + 1] PROVE Low(w + 1, x, 0) = x
    <3>1. Pow2[w + 1] = 2 * Pow2[w] /\ Pow2[w] \in Nat
      BY PowFacts
    <3>2. Low(w, x \div 2, 0) = x \div 2 /\ 0 \div 2 = 0
      BY <1>2, <2>1, <3>1
    <3>3. Low(w + 1, x, 0) = 2 * Low(w, x \div 2, 0 \div 2) + Last(x, 0)
      <4>1. 0 \in Nat
        OBVIOUS
      <4> QED BY <4>1, LowFacts, Zenon
    <3> QED BY <3>2, <3>3 DEF Last
  <2> QED BY <2>1
<1>3. Nat \subseteq S
  <2> HIDE DEF S
  <2> QED BY <1>1, <1>2, Induct
<1> QED BY <1>3

\* The last w bits and the v bits before them do not meet.
Splits(w, v, x, y, a, b) ==
  /\ Low(w + v, x + Pow2[w] * a, y + Pow2[w] * b) = Low(w, x, y) + Pow2[w] * Low(v, a, b)
  /\ Low(w, x, y) < Pow2[w]

\* So the exclusive or of two numbers is that of their parts.
LEMMA LowSplits ==
  \A v, a, b, w, x, y \in Nat : x < Pow2[w] /\ y < Pow2[w] => Splits(w, v, x, y, a, b)
<1> SUFFICES ASSUME NEW v \in Nat, NEW a \in Nat, NEW b \in Nat
             PROVE  \A w, x, y \in Nat : x < Pow2[w] /\ y < Pow2[w] => Splits(w, v, x, y, a, b)
  OBVIOUS
<1> DEFINE S == {w \in Nat : \A x, y \in Nat :
                   x < Pow2[w] /\ y < Pow2[w] => Splits(w, v, x, y, a, b)}
<1>0. Low(v, a, b) \in Nat
  BY LowFacts
<1>1. 0 \in S
  <2>1. Pow2[0] = 1
    BY PowEquation
  <2>2. Pow2[0] * a = a /\ Pow2[0] * b = b /\ Pow2[0] * Low(v, a, b) = Low(v, a, b)
    BY <1>0, <2>1
  <2>3. Low(0, 0, 0) = 0 /\ 0 + v = v /\ 0 + a = a /\ 0 + b = b
    BY LowFacts
  <2>4. Splits(0, v, 0, 0, a, b)
    BY <1>0, <2>1, <2>2, <2>3 DEF Splits
  <2>5. \A x, y \in Nat : x < Pow2[0] /\ y < Pow2[0] => x = 0 /\ y = 0
    BY <2>1
  <2> QED BY <2>4, <2>5
<1>2. ASSUME NEW w \in Nat, w \in S PROVE w + 1 \in S
  <2>1. ASSUME NEW x \in Nat, NEW y \in Nat, x < Pow2[w + 1], y < Pow2[w + 1]
        PROVE  Splits(w + 1, v, x, y, a, b)
    <3>0. Low(w + 1, x, y) = 2 * Low(w, x \div 2, y \div 2) + Last(x, y)
      BY LowMore
    <3> DEFINE P == Pow2[w]  c == Low(v, a, b)  l == Low(w, x \div 2, y \div 2)
               pa == P * a  pb == P * b  pc == P * c
    <3>1. P \in Nat /\ Pow2[w + 1] = 2 * P
      BY PowFacts
    <3>2. pa \in Nat /\ pb \in Nat /\ pc \in Nat /\ l \in Nat
      <4>1. x \div 2 \in Nat /\ y \div 2 \in Nat
        OBVIOUS
      <4>2. l \in Nat
        BY <4>1, LowFacts
      <4>3. \A m \in Nat : P * m \in Nat
        BY <3>1
      <4> QED BY <1>0, <4>2, <4>3
    <3>3. Pow2[w + 1] * a = 2 * pa /\ Pow2[w + 1] * b = 2 * pb /\ Pow2[w + 1] * c = 2 * pc
      BY <1>0, <3>1
    <3>4. Low(w + v, x \div 2 + pa, y \div 2 + pb) = l + pc /\ l < P
      BY <1>2, <2>1, <3>1 DEF Splits
    <3>5. /\ Low(w + v + 1, x + 2 * pa, y + 2 * pb)
             = 2 * Low(w + v, (x + 2 * pa) \div 2, (y + 2 * pb) \div 2) + Last(x + 2 * pa, y + 2 * pb)
          /\ Low(w + 1, x, y) = 2 * l + Last(x, y)
      <4>1. x + 2 * pa \in Nat /\ y + 2 * pb \in Nat /\ w + v \in Nat
        BY <3>2
      <4>2. PICK xa \in Nat, yb \in Nat, m \in Nat : xa = x + 2 * pa /\ yb = y + 2 * pb /\ m = w + v
        BY <4>1
      <4>3. Low(m + 1, xa, yb) = 2 * Low(m, xa \div 2, yb \div 2) + Last(xa, yb)
        BY LowMore
      <4> HIDE DEF pa, pb
      <4> QED BY <3>0, <4>2, <4>3
    <3> HIDE DEF P, pa, pb, pc, c, l
    <3>6. /\ (x + 2 * pa) \div 2 = x \div 2 + pa /\ (y + 2 * pb) \div 2 = y \div 2 + pb
          /\ Last(x + 2 * pa, y + 2 * pb) = Last(x, y) /\ w + 1 + v = w + v + 1
      BY <3>2 DEF Last
    <3>7. Low(w + 1 + v, x + 2 * pa, y + 2 * pb) = Low(w + 1, x, y) + 2 * pc
      <4>1. Last(x, y) \in Nat
        BY LastNumbers
      <4>2. Low(w + v + 1, x + 2 * pa, y + 2 * pb) = 2 * (l + pc) + Last(x, y)
        BY <3>4, <3>5, <3>6
      <4> QED BY <3>2, <3>5, <3>6, <4>1, <4>2
    <3>8. Low(w + 1, x, y) < 2 * P
      BY <3>1, <3>2, <3>4, <3>5 DEF Last
    <3> QED BY <3>1, <3>3, <3>7, <3>8 DEF c, Splits
  <2> QED BY <2>1
<1>3. Nat \subseteq S
  <2> HIDE DEF S
  <2> QED BY <1>1, <1>2, Induct
<1> QED BY <1>3

\* The powers of two at which words are split.
LEMMA PowValues ==
  Pow2[1] = 2 /\ Pow2[7] = 128 /\ Pow2[8] = 256 /\ Pow2[9] = 512 /\ Pow2[15] = 32768 /\ Pow2[16] = 65536
<1>1. \A n \in Nat : Pow2[0] = 1 /\ Pow2[n + 1] = 2 * Pow2[n]
  BY PowEquation
<1>2. /\ Pow2[0 + 1] = 2 * Pow2[0] /\ Pow2[1 + 1] = 2 * Pow2[1] /\ Pow2[2 + 1] = 2 * Pow2[2]
      /\ Pow2[3 + 1] = 2 * Pow2[3] /\ Pow2[4 + 1] = 2 * Pow2[4] /\ Pow2[5 + 1] = 2 * Pow2[5]
      /\ Pow2[6 + 1] = 2 * Pow2[6] /\ Pow2[7 + 1] = 2 * Pow2[7] /\ Pow2[8 + 1] = 2 * Pow2[8]
      /\ Pow2[9 + 1] = 2 * Pow2[9] /\ Pow2[10 + 1] = 2 * Pow2[10] /\ Pow2[11 + 1] = 2 * Pow2[11]
      /\ Pow2[12 + 1] = 2 * Pow2[12] /\ Pow2[13 + 1] = 2 * Pow2[13] /\ Pow2[14 + 1] = 2 * Pow2[14]
      /\ Pow2[15 + 1] = 2 * Pow2[15]
  BY <1>1
<1> QED BY <1>1, <1>2

\* The last four bits of an exclusive or.
Four(x, y) ==
  Last(x, y) + 2 * Last(x \div 2, y \div 2) + 4 * Last(x \div 4, y \div 4) + 8 * Last(x \div 8, y \div 8)

\* They are a number.
LEMMA FourNumbers == \A x, y \in Nat : Four(x, y) \in Nat
  BY DEF Last, Four

\* Four bits of Low at once.
LEMMA LowFour ==
  ASSUME NEW w \in Nat, NEW x \in Nat, NEW y \in Nat
  PROVE  Low(w + 4, x, y) = Four(x, y) + 16 * Low(w, x \div 16, y \div 16)
<1>1. \A n, p, q, r, t \in Nat :
        p \div 2 = r /\ q \div 2 = t => Low(n + 1, p, q) = 2 * Low(n, r, t) + Last(p, q)
  BY LowMore
<1>2. PICK x2 \in Nat, x4 \in Nat, x8 \in Nat, x16 \in Nat :
           /\ x \div 2 = x2 /\ x \div 4 = x4 /\ x \div 8 = x8 /\ x \div 16 = x16
           /\ x2 \div 2 = x4 /\ x4 \div 2 = x8 /\ x8 \div 2 = x16
  OBVIOUS
<1>3. PICK y2 \in Nat, y4 \in Nat, y8 \in Nat, y16 \in Nat :
           /\ y \div 2 = y2 /\ y \div 4 = y4 /\ y \div 8 = y8 /\ y \div 16 = y16
           /\ y2 \div 2 = y4 /\ y4 \div 2 = y8 /\ y8 \div 2 = y16
  OBVIOUS
<1>4. PICK w1 \in Nat, w2 \in Nat, w3 \in Nat : w1 = w + 1 /\ w2 = w1 + 1 /\ w3 = w2 + 1 /\ w + 4 = w3 + 1
  OBVIOUS
<1>5. /\ Low(w3 + 1, x, y) = 2 * Low(w3, x2, y2) + Last(x, y)
      /\ Low(w2 + 1, x2, y2) = 2 * Low(w2, x4, y4) + Last(x2, y2)
      /\ Low(w1 + 1, x4, y4) = 2 * Low(w1, x8, y8) + Last(x4, y4)
      /\ Low(w + 1, x8, y8) = 2 * Low(w, x16, y16) + Last(x8, y8)
  <2>1. Low(w3 + 1, x, y) = 2 * Low(w3, x2, y2) + Last(x, y)
    BY <1>1, <1>2, <1>3
  <2>2. Low(w2 + 1, x2, y2) = 2 * Low(w2, x4, y4) + Last(x2, y2)
    BY <1>1, <1>2, <1>3
  <2>3. Low(w1 + 1, x4, y4) = 2 * Low(w1, x8, y8) + Last(x4, y4)
    BY <1>1, <1>2, <1>3
  <2>4. Low(w + 1, x8, y8) = 2 * Low(w, x16, y16) + Last(x8, y8)
    BY <1>1, <1>2, <1>3
  <2> QED BY <2>1, <2>2, <2>3, <2>4
<1>6. Four(x, y) = Last(x, y) + 2 * Last(x2, y2) + 4 * Last(x4, y4) + 8 * Last(x8, y8)
  BY <1>2, <1>3 DEF Four
<1>7. /\ Last(x, y) \in Nat /\ Last(x2, y2) \in Nat /\ Last(x4, y4) \in Nat /\ Last(x8, y8) \in Nat
      /\ Low(w3, x2, y2) \in Nat /\ Low(w2, x4, y4) \in Nat /\ Low(w1, x8, y8) \in Nat
      /\ Low(w, x16, y16) \in Nat
  BY LastNumbers, LowFacts
<1>8. Low(w3 + 1, x, y) = Four(x, y) + 16 * Low(w, x16, y16)
  BY <1>4, <1>5, <1>6, <1>7
<1> QED BY <1>2, <1>3, <1>4, <1>8

\* The exclusive or of the model is that of the last sixteen bits.
LEMMA XorIsLow == \A x, y \in Nat : Xor(x, y) = Low(16, x, y)
<1> SUFFICES ASSUME NEW x \in Nat, NEW y \in Nat PROVE Xor(x, y) = Low(16, x, y)
  OBVIOUS
<1>1. PICK x1 \in Nat, x2 \in Nat, x3 \in Nat, x4 \in Nat :
           /\ x \div 16 = x1 /\ x1 \div 16 = x2 /\ x2 \div 16 = x3 /\ x3 \div 16 = x4
  OBVIOUS
<1>2. PICK y1 \in Nat, y2 \in Nat, y3 \in Nat, y4 \in Nat :
           /\ y \div 16 = y1 /\ y1 \div 16 = y2 /\ y2 \div 16 = y3 /\ y3 \div 16 = y4
  OBVIOUS
<1>3. \A w, p, q, r, t \in Nat :
        p \div 16 = r /\ q \div 16 = t => Low(w + 4, p, q) = Four(p, q) + 16 * Low(w, r, t)
  BY LowFour
<1>4. /\ Low(12 + 4, x, y) = Four(x, y) + 16 * Low(12, x1, y1)
      /\ Low(8 + 4, x1, y1) = Four(x1, y1) + 16 * Low(8, x2, y2)
      /\ Low(4 + 4, x2, y2) = Four(x2, y2) + 16 * Low(4, x3, y3)
      /\ Low(0 + 4, x3, y3) = Four(x3, y3) + 16 * Low(0, x4, y4)
  <2>1. Low(12 + 4, x, y) = Four(x, y) + 16 * Low(12, x1, y1)
    <3>1. PICK w \in Nat : w = 12
      OBVIOUS
    <3>2. Low(w + 4, x, y) = Four(x, y) + 16 * Low(w, x1, y1)
      BY <1>1, <1>2, <1>3
    <3> QED BY <3>1, <3>2
  <2>2. Low(8 + 4, x1, y1) = Four(x1, y1) + 16 * Low(8, x2, y2)
    BY <1>1, <1>2, <1>3
  <2>3. Low(4 + 4, x2, y2) = Four(x2, y2) + 16 * Low(4, x3, y3)
    BY <1>1, <1>2, <1>3
  <2>4. Low(0 + 4, x3, y3) = Four(x3, y3) + 16 * Low(0, x4, y4)
    <3>1. PICK w \in Nat : w = 0
      OBVIOUS
    <3>2. Low(w + 4, x3, y3) = Four(x3, y3) + 16 * Low(w, x4, y4)
      BY <1>1, <1>2, <1>3
    <3> QED BY <3>1, <3>2
  <2> QED BY <2>1, <2>2, <2>3, <2>4
<1>5. Low(0, x4, y4) = 0
  BY LowFacts
<1>6. Four(x, y) \in Nat /\ Four(x1, y1) \in Nat /\ Four(x2, y2) \in Nat /\ Four(x3, y3) \in Nat
  BY FourNumbers
<1>7. Low(16, x, y) = Four(x, y) + 16 * Four(x1, y1) + 256 * Four(x2, y2) + 4096 * Four(x3, y3)
  BY <1>4, <1>5, <1>6
<1> DEFINE bit(p) == p * (((x \div p) + (y \div p)) % 2)
<1>8. Four(x, y) = bit(1) + bit(2) + bit(4) + bit(8)
  BY DEF Four, Last
<1>9. 16 * Four(x1, y1) = bit(16) + bit(32) + bit(64) + bit(128)
  <2>1. /\ x1 \div 2 = x \div 32 /\ x1 \div 4 = x \div 64 /\ x1 \div 8 = x \div 128
        /\ y1 \div 2 = y \div 32 /\ y1 \div 4 = y \div 64 /\ y1 \div 8 = y \div 128
    BY <1>1, <1>2
  <2> QED BY <1>1, <1>2, <2>1 DEF Four, Last
<1>10. 256 * Four(x2, y2) = bit(256) + bit(512) + bit(1024) + bit(2048)
  <2>1. x2 = x \div 256 /\ y2 = y \div 256
    BY <1>1, <1>2
  <2>2. /\ x2 \div 2 = x \div 512 /\ x2 \div 4 = x \div 1024 /\ x2 \div 8 = x \div 2048
        /\ y2 \div 2 = y \div 512 /\ y2 \div 4 = y \div 1024 /\ y2 \div 8 = y \div 2048
    BY <2>1
  <2> QED BY <2>1, <2>2 DEF Four, Last
<1>11. 4096 * Four(x3, y3) = bit(4096) + bit(8192) + bit(16384) + bit(32768)
  <2>1. x3 = x \div 4096 /\ y3 = y \div 4096
    BY <1>1, <1>2
  <2>2. /\ x3 \div 2 = x \div 8192 /\ x3 \div 4 = x \div 16384 /\ x3 \div 8 = x \div 32768
        /\ y3 \div 2 = y \div 8192 /\ y3 \div 4 = y \div 16384 /\ y3 \div 8 = y \div 32768
    BY <2>1
  <2> QED BY <2>1, <2>2 DEF Four, Last
<1>12. /\ bit(1) \in Nat /\ bit(2) \in Nat /\ bit(4) \in Nat /\ bit(8) \in Nat
       /\ bit(16) \in Nat /\ bit(32) \in Nat /\ bit(64) \in Nat /\ bit(128) \in Nat
       /\ bit(256) \in Nat /\ bit(512) \in Nat /\ bit(1024) \in Nat /\ bit(2048) \in Nat
       /\ bit(4096) \in Nat /\ bit(8192) \in Nat /\ bit(16384) \in Nat /\ bit(32768) \in Nat
  OBVIOUS
<1>13. Xor(x, y) = bit(1) + bit(2) + bit(4) + bit(8) + bit(16) + bit(32) + bit(64) + bit(128)
                     + bit(256) + bit(512) + bit(1024) + bit(2048)
                     + bit(4096) + bit(8192) + bit(16384) + bit(32768)
  BY DEF Xor
<1> HIDE DEF bit
<1> QED BY <1>7, <1>8, <1>9, <1>10, <1>11, <1>12, <1>13

-----------------------------------------------------------------------------
(* The CRC *)

Word == {n \in Nat : n < 65536}

\* Words with exclusive or: the laws of it.
LEMMA XorLaws ==
  ASSUME NEW x \in Word, NEW y \in Word, NEW z \in Word
  PROVE  /\ Xor(x, y) \in Word
         /\ Xor(x, y) = Xor(y, x)
         /\ Xor(Xor(x, y), z) = Xor(x, Xor(y, z))
         /\ Xor(x, 0) = x
         /\ Xor(x, x) = 0
<1>0. Word \subseteq Nat
  BY DEF Word
<1>1. x \in Nat /\ y \in Nat /\ z \in Nat /\ 0 \in Nat /\ 16 \in Nat
  BY <1>0
<1>2. x < Pow2[16] /\ y < Pow2[16]
  BY PowValues DEF Word
<1>3. Low(16, x, y) \in Nat /\ Low(16, y, z) \in Nat /\ Low(0, x, y) = 0
  BY <1>1, LowFacts
<1>4. Low(16, x, y) < Pow2[16]
  <2>1. Low(16, x, y) < Pow2[16]
    BY <1>1, <1>2, LowSplits DEF Splits
  <2> QED BY <2>1
<1>5. Xor(x, y) \in Word
  <2>1. Xor(x, y) = Low(16, x, y)
    BY <1>1, XorIsLow
  <2>2. Low(16, x, y) \in Word
    BY <1>3, <1>4, PowValues DEF Word
  <2> QED BY <2>1, <2>2
<1>6. Xor(x, y) = Xor(y, x)
  BY <1>1, XorIsLow, LowCommutes
<1>7. Xor(Xor(x, y), z) = Xor(x, Xor(y, z))
  BY <1>1, <1>3, XorIsLow, LowAssociates
<1>8. Xor(x, 0) = x
  BY <1>1, <1>2, XorIsLow, LowZero
<1>9. Xor(x, x) = 0
  BY <1>1, XorIsLow, LowCancels
<1> QED BY <1>5, <1>6, <1>7, <1>8, <1>9

\* Four words in pairs, and in other pairs.
LEMMA XorPairs ==
  ASSUME NEW x \in Word, NEW y \in Word, NEW u \in Word, NEW v \in Word
  PROVE  Xor(Xor(x, y), Xor(u, v)) = Xor(Xor(x, u), Xor(y, v))
<1>1. Xor(u, v) \in Word /\ Xor(x, u) \in Word /\ Xor(y, v) \in Word /\ Xor(y, u) \in Word
  BY XorLaws
<1>2. Xor(Xor(x, y), Xor(u, v)) = Xor(x, Xor(y, Xor(u, v)))
  BY <1>1, XorLaws
<1>3. Xor(y, Xor(u, v)) = Xor(Xor(y, u), v) /\ Xor(y, u) = Xor(u, y)
  BY XorLaws
<1>4. Xor(Xor(u, y), v) = Xor(u, Xor(y, v))
  BY XorLaws
<1>5. Xor(x, Xor(u, Xor(y, v))) = Xor(Xor(x, u), Xor(y, v))
  BY <1>1, XorLaws
<1> QED BY <1>2, <1>3, <1>4, <1>5

\* The words of two bytes: each byte on its own.
LEMMA XorBytes ==
  ASSUME NEW x \in Byte, NEW y \in Byte, NEW a \in Byte, NEW b \in Byte
  PROVE  /\ Xor(x + 256 * a, y + 256 * b) = Low(8, x, y) + 256 * Low(8, a, b)
         /\ Low(8, x, y) \in Byte
<1>1. x \in Nat /\ y \in Nat /\ a \in Nat /\ b \in Nat /\ 8 \in Nat
  BY DEF Byte
<1>2. x < Pow2[8] /\ y < Pow2[8] /\ Pow2[8] = 256
  BY PowValues DEF Byte
<1>3. Splits(8, 8, x, y, a, b)
  BY <1>1, <1>2, LowSplits
<1>4. Low(8, x, y) \in Nat
  BY <1>1, LowFacts
<1>5. x + 256 * a \in Nat /\ y + 256 * b \in Nat
  BY <1>1
<1>6. Xor(x + 256 * a, y + 256 * b) = Low(16, x + 256 * a, y + 256 * b)
  BY <1>5, XorIsLow
<1> QED BY <1>2, <1>3, <1>4, <1>6 DEF Byte, Splits

\* What a shift adds when the first bit of a word falls out.
Carry(r) == IF r >= 32768 THEN Poly ELSE 0

\* A shift doubles a word in sixteen bits and adds the carry.
LEMMA ShiftParts ==
  ASSUME NEW r \in Word
  PROVE  /\ (2 * r) % 65536 \in Word /\ Carry(r) \in Word
         /\ Shift(r) = Xor((2 * r) % 65536, Carry(r))
         /\ Shift(r) \in Word
<1>1. (2 * r) % 65536 \in Word /\ Carry(r) \in Word
  BY DEF Word, Carry, Poly
<1>2. CASE r >= 32768
  <2>1. Shift(r) = Xor((2 * r) % 65536, Carry(r))
    BY <1>2 DEF Shift, Carry, Word
  <2> QED BY <1>1, <2>1, XorLaws
<1>3. CASE ~(r >= 32768)
  <2>1. Shift(r) = 2 * r /\ Carry(r) = 0 /\ (2 * r) % 65536 = 2 * r
    BY <1>3 DEF Shift, Carry, Word
  <2>2. Xor(2 * r, 0) = 2 * r
    BY <1>1, <2>1, XorLaws
  <2> QED BY <1>1, <2>1, <2>2
<1> QED BY <1>2, <1>3

\* A word is its first bit and its last fifteen.
LEMMA FirstBit ==
  ASSUME NEW x \in Word
  PROVE  \E a, m \in Nat :
           /\ a < 2 /\ m < 32768 /\ x = m + 32768 * a
           /\ (2 * x) % 65536 = 2 * m
           /\ Carry(x) = IF a = 1 THEN Poly ELSE 0
<1>1. CASE x < 32768
  <2>1. x \in Nat /\ 0 \in Nat /\ x = x + 32768 * 0 /\ (2 * x) % 65536 = 2 * x /\ Carry(x) = 0
    BY <1>1 DEF Word, Carry
  <2> QED BY <1>1, <2>1
<1>2. CASE ~(x < 32768)
  <2>1. PICK m \in Nat : m < 32768 /\ x = m + 32768
    <3>1. x - 32768 \in Nat /\ x - 32768 < 32768 /\ x = (x - 32768) + 32768
      BY <1>2 DEF Word
    <3> QED BY <3>1
  <2>2. x = m + 32768 * 1 /\ (2 * x) % 65536 = 2 * m /\ Carry(x) = Poly
    BY <2>1 DEF Carry
  <2> QED BY <2>1, <2>2
<1> QED BY <1>1, <1>2

\* The exclusive or of two numbers in two parts, of w and v bits.
XorParts(w, v, P, x, y, a, b) ==
  /\ Xor(x + P * a, y + P * b) = Low(w, x, y) + P * Low(v, a, b)
  /\ Low(w, x, y) \in Nat /\ Low(w, x, y) < P

\* Where it can be split.
LEMMA XorSplits ==
  ASSUME NEW w \in Nat, NEW v \in Nat, w + v = 16, NEW P \in Nat, P = Pow2[w],
         NEW x \in Nat, NEW y \in Nat, NEW a \in Nat, NEW b \in Nat, x < P, y < P
  PROVE  XorParts(w, v, P, x, y, a, b)
<1>1. Splits(w, v, x, y, a, b)
  BY LowSplits
<1>2. x + P * a \in Nat /\ y + P * b \in Nat
  <2>1. \A n \in Nat : P * n \in Nat
    OBVIOUS
  <2> QED BY <2>1
<1>3. Xor(x + P * a, y + P * b) = Low(16, x + P * a, y + P * b)
  BY <1>2, XorIsLow
<1>4. Low(w, x, y) \in Nat
  BY LowFacts
<1> QED BY <1>1, <1>3, <1>4 DEF Splits, XorParts

\* Doubling and carrying, of the exclusive or of two words.
LEMMA PartsOfXor ==
  ASSUME NEW x \in Word, NEW y \in Word
  PROVE  /\ (2 * Xor(x, y)) % 65536 = Xor((2 * x) % 65536, (2 * y) % 65536)
         /\ Carry(Xor(x, y)) = Xor(Carry(x), Carry(y))
<1>1. PICK a \in Nat, m \in Nat :
           /\ a < 2 /\ m < 32768 /\ x = m + 32768 * a
           /\ (2 * x) % 65536 = 2 * m
           /\ Carry(x) = IF a = 1 THEN Poly ELSE 0
  BY FirstBit
<1>2. PICK b \in Nat, n \in Nat :
           /\ b < 2 /\ n < 32768 /\ y = n + 32768 * b
           /\ (2 * y) % 65536 = 2 * n
           /\ Carry(y) = IF b = 1 THEN Poly ELSE 0
  BY FirstBit
<1>3. PICK zero \in Nat, one \in Nat, two \in Nat, half \in Nat, fifteen \in Nat :
           /\ zero = 0 /\ one = 1 /\ two = 2 /\ half = 32768 /\ fifteen = 15
           /\ fifteen + one = 16 /\ one + fifteen = 16
           /\ two = Pow2[one] /\ half = Pow2[fifteen]
  BY PowValues
<1>4. PICK l \in Nat, c \in Nat : l = Low(fifteen, m, n) /\ c = Low(one, a, b)
  BY LowFacts
<1>5. c = Last(a, b)
  <2>1. Low(zero + 1, a, b) = 2 * Low(zero, a \div 2, b \div 2) + Last(a, b)
    BY LowMore
  <2>2. a \div 2 \in Nat /\ b \div 2 \in Nat
    OBVIOUS
  <2>3. Low(zero, a \div 2, b \div 2) = 0
    BY <1>3, <2>2, LowFacts
  <2>4. Last(a, b) \in Nat
    BY LastNumbers
  <2> QED BY <1>3, <1>4, <2>1, <2>3, <2>4
<1>6. Xor(x, y) = l + 32768 * c /\ l < 32768
  <2>1. m < half /\ n < half
    BY <1>1, <1>2, <1>3
  <2>2. XorParts(fifteen, one, half, m, n, a, b)
    BY <1>3, <2>1, XorSplits
  <2> QED BY <1>1, <1>2, <1>3, <1>4, <2>2 DEF XorParts
<1>7. c < 2
  BY <1>1, <1>2, <1>5 DEF Last
<1>8. (2 * Xor(x, y)) % 65536 = 2 * l
  BY <1>6, <1>7
<1>9. Xor(2 * m, 2 * n) = 2 * l
  <2>1. XorParts(one, fifteen, two, zero, zero, m, n)
    <3>1. zero < two
      BY <1>3
    <3> QED BY <1>3, <3>1, XorSplits
  <2>2. Low(one, zero, zero) = 0
    BY LowCancels
  <2> QED BY <1>3, <1>4, <2>1, <2>2 DEF XorParts
<1>10. Carry(Xor(x, y)) = IF c = 1 THEN Poly ELSE 0
  BY <1>6, <1>7 DEF Carry
<1>11. Xor(Carry(x), Carry(y)) = IF c = 1 THEN Poly ELSE 0
  <2>1. Poly \in Word /\ 0 \in Word
    BY DEF Poly, Word
  <2>2. Xor(Poly, Poly) = 0 /\ Xor(0, 0) = 0 /\ Xor(Poly, 0) = Poly /\ Xor(0, Poly) = Poly
    BY <2>1, XorLaws
  <2>3. \/ a = 0 /\ b = 0 /\ c = 0
        \/ a = 1 /\ b = 0 /\ c = 1
        \/ a = 0 /\ b = 1 /\ c = 1
        \/ a = 1 /\ b = 1 /\ c = 0
    BY <1>1, <1>2, <1>5 DEF Last
  <2> QED BY <1>1, <1>2, <2>2, <2>3
<1> QED BY <1>1, <1>2, <1>8, <1>9, <1>10, <1>11

\* A shift of an exclusive or is the exclusive or of the shifts.
LEMMA ShiftLinear ==
  ASSUME NEW x \in Word, NEW y \in Word
  PROVE  Shift(Xor(x, y)) = Xor(Shift(x), Shift(y)) /\ Shift(x) \in Word
<1>1. Xor(x, y) \in Word
  BY XorLaws
<1>2. Shift(Xor(x, y)) = Xor((2 * Xor(x, y)) % 65536, Carry(Xor(x, y)))
  BY <1>1, ShiftParts
<1>3. /\ Shift(x) = Xor((2 * x) % 65536, Carry(x)) /\ Shift(y) = Xor((2 * y) % 65536, Carry(y))
      /\ (2 * x) % 65536 \in Word /\ Carry(x) \in Word /\ Shift(x) \in Word
      /\ (2 * y) % 65536 \in Word /\ Carry(y) \in Word
  BY ShiftParts
<1>4. Xor(Xor((2 * x) % 65536, (2 * y) % 65536), Xor(Carry(x), Carry(y))) = Xor(Shift(x), Shift(y))
  BY <1>3, XorPairs
<1> QED BY <1>2, <1>3, <1>4, PartsOfXor

\* So is that of eight shifts.
LEMMA Shift8Linear ==
  ASSUME NEW x \in Word, NEW y \in Word
  PROVE  Shift8(Xor(x, y)) = Xor(Shift8(x), Shift8(y)) /\ Shift8(x) \in Word
<1>1. \A p, q \in Word : Shift2(Xor(p, q)) = Xor(Shift2(p), Shift2(q)) /\ Shift2(p) \in Word
  BY ShiftLinear DEF Shift2
<1>2. \A p, q \in Word : Shift4(Xor(p, q)) = Xor(Shift4(p), Shift4(q)) /\ Shift4(p) \in Word
  BY <1>1 DEF Shift4
<1> QED BY <1>2 DEF Shift8

\* While no bit falls out, eight shifts multiply by 256.
LEMMA Shift8Low ==
  ASSUME NEW l \in Byte
  PROVE  Shift8(l) = 256 * l
<1>1. \A r \in Nat : r < 32768 => Shift(r) = 2 * r
  BY DEF Shift
<1>2. \A r \in Nat : r < 16384 => Shift2(r) = 4 * r
  BY <1>1 DEF Shift2
<1>3. \A r \in Nat : r < 4096 => Shift4(r) = 16 * r
  BY <1>2 DEF Shift4
<1>4. PICK m \in Nat : m = 16 * l /\ m < 4096
  BY DEF Byte
<1>5. l \in Nat /\ l < 4096
  BY DEF Byte
<1>6. Shift4(l) = m
  BY <1>3, <1>4, <1>5
<1>7. Shift4(m) = 16 * m
  BY <1>3, <1>4
<1>8. Shift8(l) = 16 * m
  BY <1>6, <1>7 DEF Shift8
<1>9. 16 * m = 256 * l
  BY <1>4, <1>5
<1> QED BY <1>8, <1>9

\* The entry of the table for a byte.
Entry(h) == crc16tab[h + 1]

\* The table satisfies these equations: the entries of 2k and 2k + 1 come from that of k.
Doubles(k) ==
  Entry(2 * k) = Shift(Entry(k)) /\ Entry(2 * k + 1) = Xor(Entry(2 * k), Poly)

\* The 128 pairs of entries, one by one.
LEMMA TableDoubles == \A k \in 0..127 : Doubles(k)
  BY SMTT(120) DEF crc16tab, Shift, Xor, Poly, Doubles, Entry

\* An odd byte, put first in a word.
LEMMA OddByte == \A k \in 0..127 : Xor(256 * (2 * k), 256) = 256 * (2 * k + 1)
<1> SUFFICES ASSUME NEW k \in 0..127 PROVE Xor(256 * (2 * k), 256) = 256 * (2 * k + 1)
  OBVIOUS
<1>1. PICK zero \in Nat, n \in Nat, seven \in Nat, nine \in Nat, x \in Nat, P \in Nat :
           /\ zero = 0 /\ n = k /\ seven = 7 /\ nine = 9 /\ x = 256 /\ P = 512 /\ nine + seven = 16
           /\ n < Pow2[seven] /\ P = Pow2[nine]
  BY PowValues
<1>2. zero < P /\ x < P
  BY <1>1
<1>3. XorParts(nine, seven, P, zero, x, n, zero)
  BY <1>1, <1>2, XorSplits
<1>4. Low(seven, n, zero) = n
  BY <1>1, LowZero
<1>5. Low(nine, zero, x) = x
  <2>1. Low(nine, x, zero) = x
    BY <1>1, <1>2, LowZero
  <2> QED BY <2>1, LowCommutes
<1>6. Xor(zero + P * n, x + P * zero) = x + P * n
  BY <1>3, <1>4, <1>5 DEF XorParts
<1>7. zero + P * n = 256 * (2 * k) /\ x + P * zero = 256 /\ x + P * n = 256 * (2 * k + 1)
  BY <1>1
<1> QED BY <1>6, <1>7

\* What eight shifts make of 256.
LEMMA Shift8Of256 == Shift8(256) = Poly
<1>1. Shift2(256) = 1024 /\ Shift2(1024) = 4096 /\ Shift2(4096) = 16384
  BY DEF Shift2, Shift
<1>2. Shift(16384) = 32768 /\ Shift(32768) = Poly
  BY DEF Shift, Xor, Poly
<1> QED BY <1>1, <1>2 DEF Shift8, Shift4, Shift2

\* So the entry of a byte is what eight shifts make of the byte, put first in a word.
LEMMA TableRight == \A h \in Byte : Entry(h) = Shift8(256 * h)
<1> DEFINE S == {n \in Nat : \A h \in Byte : h < n => Entry(h) = Shift8(256 * h)}
<1>1. 0 \in S
  BY DEF Byte
<1>2. ASSUME NEW n \in Nat, n \in S PROVE n + 1 \in S
  <2>1. ASSUME n \in Byte PROVE Entry(n) = Shift8(256 * n)
    <3>1. CASE n = 0
      <4>1. Shift8(0) = 0 /\ Entry(0) = 0
        BY Shift8Low DEF Byte, Entry, crc16tab
      <4> QED BY <3>1, <4>1
    <3>2. CASE n # 0
      <4>1. PICK k \in 0..127, d \in {0, 1} : n = 2 * k + d
        BY <2>1 DEF Byte
      <4>2. Entry(k) = Shift8(256 * k)
        BY <1>2, <3>2, <4>1 DEF Byte
      <4>3. 256 * (2 * k) = Shift(256 * k)
        BY DEF Shift
      <4>4. Shift8(Shift(256 * k)) = Shift(Shift8(256 * k))
        BY DEF Shift8, Shift4, Shift2
      <4>5. Entry(2 * k) = Shift8(256 * (2 * k))
        BY <4>2, <4>3, <4>4, TableDoubles DEF Doubles
      <4>6. CASE d = 0
        BY <4>1, <4>5, <4>6
      <4>7. CASE d = 1
        <5>1. Xor(256 * (2 * k), 256) = 256 * (2 * k + 1)
          BY OddByte
        <5>2. Shift8(256) = Poly
          BY Shift8Of256
        <5>3. 256 * (2 * k) \in Word /\ 256 \in Word
          BY DEF Word
        <5> QED BY <4>1, <4>5, <4>7, <5>1, <5>2, <5>3, Shift8Linear, TableDoubles DEF Doubles
      <4> QED BY <4>6, <4>7
    <3> QED BY <3>1, <3>2
  <2>2. \A h \in Byte : h < n + 1 => h < n \/ h = n
    BY DEF Byte
  <2>3. \A h \in Byte : h < n + 1 => Entry(h) = Shift8(256 * h)
    BY <1>2, <2>1, <2>2
  <2> QED BY <2>3
<1>3. Nat \subseteq S
  <2> HIDE DEF S
  <2> QED BY <1>1, <1>2, Induct
<1>4. \A h \in Byte : h + 1 \in S /\ h < h + 1
  BY <1>3 DEF Byte
<1> QED BY <1>4

\* One byte by the table, and bit by bit.
LEMMA StepsAgree ==
  ASSUME NEW crc \in Word, NEW b \in Byte
  PROVE  /\ CrcStep(crc, b) = Shift8(Xor(crc, b * 256))
         /\ CrcStep(crc, b) \in Word
<1>1. PICK h \in Byte, l \in Byte :
           crc = l + 256 * h /\ crc \div 256 = h /\ (crc * 256) % 65536 = 256 * l
  <2>1. /\ crc \div 256 \in Byte /\ crc % 256 \in Byte
        /\ crc = (crc % 256) + 256 * (crc \div 256)
        /\ (crc * 256) % 65536 = 256 * (crc % 256)
    BY DEF Word, Byte
  <2> QED BY <2>1
<1>2. PICK zero \in Byte : zero = 0 /\ zero \in Word
  BY DEF Byte, Word
<1>3. Low(8, zero, zero) = 0
  BY <1>2, LowCancels DEF Byte
<1>4. PICK i \in Byte : i = Low(8, h, b)
  BY XorBytes
<1>5. Index(crc, b) = i
  <2>1. Xor(h + 256 * zero, b + 256 * zero) = Low(8, h, b) + 256 * Low(8, zero, zero)
    BY XorBytes
  <2>2. Xor(h, b) = i
    BY <1>2, <1>3, <1>4, <2>1 DEF Byte
  <2> QED BY <1>1, <2>2 DEF Index, Byte
<1>6. Xor(crc, b * 256) = Xor(l, 256 * i)
  <2>1. /\ Xor(l + 256 * h, zero + 256 * b) = Low(8, l, zero) + 256 * Low(8, h, b)
        /\ Xor(l + 256 * zero, zero + 256 * i) = Low(8, l, zero) + 256 * Low(8, zero, i)
    BY XorBytes
  <2>2. Low(8, zero, i) = i
    <3>1. Low(8, i, 0) = i
      BY PowValues, LowZero DEF Byte
    <3> QED BY <1>2, <3>1, LowCommutes DEF Byte
  <2> QED BY <1>1, <1>2, <1>4, <2>1, <2>2 DEF Byte
<1>7. /\ l \in Word /\ 256 * i \in Word
      /\ 256 * l \in Word
  BY DEF Word, Byte
<1>8. Shift8(Xor(l, 256 * i)) = Xor(256 * l, Entry(i)) /\ Entry(i) \in Word
  BY <1>7, Shift8Linear, Shift8Low, TableRight
<1>9. CrcStep(crc, b) = Xor(256 * l, Entry(i))
  BY <1>1, <1>5 DEF CrcStep, Entry
<1> QED BY <1>6, <1>7, <1>8, <1>9, XorLaws

\* Two functions on the first numbers begin alike and, while alike, go on alike.
Alike(N, f, g) ==
  /\ f = [n \in 0..N |-> f[n]] /\ g = [n \in 0..N |-> g[n]]
  /\ f[0] = g[0]
  /\ \A n \in 1..N : f[n - 1] = g[n - 1] => f[n] = g[n]

\* Then they are the same.
LEMMA SameFunction ==
  ASSUME NEW N \in Nat, NEW f, NEW g, Alike(N, f, g)
  PROVE  f = g
<1>0. /\ f = [n \in 0..N |-> f[n]] /\ g = [n \in 0..N |-> g[n]] /\ f[0] = g[0]
      /\ \A n \in 1..N : f[n - 1] = g[n - 1] => f[n] = g[n]
  BY DEF Alike
<1> DEFINE S == {n \in Nat : n <= N => f[n] = g[n]}
<1>1. 0 \in S
  BY <1>0
<1>2. ASSUME NEW n \in Nat, n \in S PROVE n + 1 \in S
  <2>1. ASSUME n + 1 <= N PROVE f[n + 1] = g[n + 1]
    <3>1. PICK m \in 1..N : m = n + 1 /\ m - 1 = n /\ f[n] = g[n]
      BY <1>2, <2>1
    <3> QED BY <1>0, <3>1
  <2> QED BY <2>1
<1>3. Nat \subseteq S
  <2> HIDE DEF S
  <2> QED BY <1>1, <1>2, Induct
<1>4. \A n \in 0..N : f[n] = g[n]
  BY <1>3
<1> QED BY <1>0, <1>4

\* The CRC of a name by the table is the remainder by the polynomial.
LEMMA CrcOfBytes ==
  ASSUME NEW data \in Seq(Byte)
  PROVE  CalculateCRC16(data) = Ccitt(data)
<1> DEFINE N == Len(data)
           ByTable(f) == f = [n \in 0..N |-> IF n = 0 THEN 0 ELSE CrcStep(f[n - 1], data[n])]
           ByBits(f) == f = [n \in 0..N |-> IF n = 0 THEN 0 ELSE Shift8(Xor(f[n - 1], data[n] * 256))]
<1>1. N \in Nat /\ \A n \in 1..N : data[n] \in Byte
  OBVIOUS
<1>2. PICK f : ByBits(f) /\ \A n \in 0..N : f[n] \in Word
  <2> DEFINE V == Nat \X Word
             after(p) == IF p[1] < N THEN Shift8(Xor(p[2], data[p[1] + 1] * 256)) ELSE 0
             next == [p \in V |-> <<p[1] + 1, after(p)>>]
  <2>1. next \in [V -> V]
    <3>1. ASSUME NEW p \in V PROVE <<p[1] + 1, after(p)>> \in V
      <4>1. p[1] \in Nat /\ p[2] \in Word /\ p[1] + 1 \in Nat
        OBVIOUS
      <4>2. CASE p[1] < N
        <5>1. data[p[1] + 1] \in Byte
          BY <1>1, <4>1, <4>2
        <5>2. after(p) \in Word
          BY <4>1, <4>2, <5>1, StepsAgree
        <5> QED BY <4>1, <5>2
      <4>3. CASE ~(p[1] < N)
        BY <4>1, <4>3 DEF Word
      <4> QED BY <4>2, <4>3
    <3> HIDE DEF V, after
    <3> QED BY <3>1
  <2>2. <<0, 0>> \in V
    BY DEF Word
  <2>3. PICK s \in [Nat -> V] : s[0] = <<0, 0>> /\ \A n \in Nat \ {0} : s[n] = next[s[n - 1]]
    <3> HIDE DEF V, next
    <3>1. Recurs(V, <<0, 0>>, next)
      BY <2>1, <2>2, Recursion
    <3> QED BY <3>1 DEF Recurs
  <2>4. \A n \in Nat : s[n] \in V /\ s[n + 1] = <<s[n][1] + 1, after(s[n])>>
    <3> SUFFICES ASSUME NEW n \in Nat
                 PROVE  s[n] \in V /\ s[n + 1] = <<s[n][1] + 1, after(s[n])>>
      OBVIOUS
    <3>1. n + 1 \in Nat \ {0} /\ n + 1 - 1 = n
      OBVIOUS
    <3> HIDE DEF after, V
    <3>2. s[n] \in V /\ s[n + 1] = next[s[n]]
      <4> HIDE DEF next
      <4> QED BY <2>3, <3>1
    <3> QED BY <3>2
  <2>5. \A n \in Nat : s[n][1] = n
    <3> DEFINE S == {n \in Nat : s[n][1] = n}
    <3>1. 0 \in S
      BY <2>3
    <3>2. ASSUME NEW n \in Nat, n \in S PROVE n + 1 \in S
      <4>1. s[n + 1] = <<s[n][1] + 1, after(s[n])>>
        BY <2>4
      <4> HIDE DEF after, V
      <4> QED BY <3>2, <4>1
    <3>3. Nat \subseteq S
      <4> HIDE DEF S
      <4> QED BY <3>1, <3>2, Induct
    <3> QED BY <3>3
  <2> DEFINE g == [n \in 0..N |-> s[n][2]]
  <2>6. \A n \in 0..N : g[n] \in Word
    BY <2>4
  <2>7. ASSUME NEW n \in 0..N
        PROVE  g[n] = IF n = 0 THEN 0 ELSE Shift8(Xor(g[n - 1], data[n] * 256))
    <3>1. CASE n = 0
      BY <2>3, <3>1
    <3>2. CASE n # 0
      <4>1. PICK m \in Nat : n = m + 1 /\ m < N /\ n - 1 = m /\ m \in 0..N
        <5> HIDE DEF N
        <5>1. n - 1 \in Nat /\ n = n - 1 + 1 /\ n - 1 < N /\ n - 1 \in 0..N
          BY <1>1, <3>2
        <5> QED BY <5>1
      <4>2. s[n] = <<m + 1, after(s[m])>>
        BY <2>4, <2>5, <4>1
      <4>3. after(s[m]) = Shift8(Xor(s[m][2], data[m + 1] * 256))
        BY <2>5, <4>1
      <4>4. g[n] = s[n][2] /\ g[n - 1] = s[m][2]
        BY <4>1
      <4> QED BY <3>2, <4>1, <4>2, <4>3, <4>4
    <3> QED BY <3>1, <3>2
  <2>8. ByBits(g)
    BY <2>7
  <2> HIDE DEF g
  <2> QED BY <2>6, <2>8
<1>3. ByTable(f)
  <2>1. ASSUME NEW n \in 0..N, n # 0
        PROVE  CrcStep(f[n - 1], data[n]) = Shift8(Xor(f[n - 1], data[n] * 256))
    <3>1. n - 1 \in 0..N /\ n \in 1..N
      <4> HIDE DEF N
      <4> QED BY <1>1, <2>1
    <3>2. f[n - 1] \in Word /\ data[n] \in Byte
      BY <1>1, <1>2, <3>1
    <3> QED BY <3>2, StepsAgree
  <2>2. ASSUME NEW n \in 0..N
        PROVE  (IF n = 0 THEN 0 ELSE CrcStep(f[n - 1], data[n]))
               = IF n = 0 THEN 0 ELSE Shift8(Xor(f[n - 1], data[n] * 256))
    BY <2>1
  <2> QED BY <1>2, <2>2
<1>4. ASSUME NEW g, ByTable(g) PROVE g = f
  <2>1. f = [n \in 0..N |-> f[n]] /\ g = [n \in 0..N |-> g[n]] /\ f[0] = g[0]
    BY <1>1, <1>3, <1>4
  <2>2. \A n \in 1..N : f[n - 1] = g[n - 1] => f[n] = g[n]
    BY <1>1, <1>3, <1>4
  <2>3. Alike(N, f, g)
    BY <2>1, <2>2 DEF Alike
  <2> HIDE DEF N
  <2> QED BY <1>1, <2>3, SameFunction
<1>5. ASSUME NEW g, ByBits(g) PROVE g = f
  <2>1. f = [n \in 0..N |-> f[n]] /\ g = [n \in 0..N |-> g[n]] /\ f[0] = g[0]
    BY <1>1, <1>2, <1>5
  <2>2. \A n \in 1..N : f[n - 1] = g[n - 1] => f[n] = g[n]
    BY <1>1, <1>2, <1>5
  <2>3. Alike(N, f, g)
    BY <2>1, <2>2 DEF Alike
  <2> HIDE DEF N
  <2> QED BY <1>1, <2>3, SameFunction
<1>6. CalculateCRC16(data) = f[N]
  BY <1>3, <1>4 DEF CalculateCRC16
<1>7. Ccitt(data) = f[N]
  BY <1>2, <1>5 DEF Ccitt
<1> QED BY <1>6, <1>7

-----------------------------------------------------------------------------
(* The delays *)

USE BackoffAssumption, FunctionsAssumption DEF BackoffAssumption, FunctionsAssumption

\* As long as the product fits, the next delay is not shorter, whatever the jitter of the two.
LEMMA LongerProduct ==
  ASSUME NEW n \in Nat, NEW t \in Jitters, NEW u \in Jitters
  PROVE  /\ Product(n + 1, u) \in Nat
         /\ Product(n + 1, u) <= Product(n + 1, 12)
         /\ n > 0 => Product(n, t) \in Nat /\ Product(n, t) <= Product(n + 1, u)
<1> DEFINE x == BackoffDelay * Pow2[n - 1]
           y == BackoffDelay * Pow2[n]
<1>1. BackoffDelay \in Nat
  BY PowFacts DEF Duration, Least, Greatest
<1>2. y \in Nat /\ n + 1 - 1 = n
  BY <1>1, PowFacts
<1>3. n > 0 => x \in Nat /\ y = 2 * x
  BY <1>1, PowFacts
<1>4. Product(n + 1, u) = (y * u) \div 10 /\ Product(n + 1, 12) = (y * 12) \div 10
  BY <1>2 DEF Product
<1>5. Product(n, t) = (x * t) \div 10
  BY DEF Product
<1> HIDE DEF x, y
<1>6. u \in Int /\ t \in Int /\ 8 <= u /\ u <= 12 /\ 8 <= t /\ t <= 12
  BY DEF Jitters
<1>7. /\ (y * u) \div 10 \in Nat /\ (y * u) \div 10 <= (y * 12) \div 10
      /\ n > 0 => (x * t) \div 10 \in Nat /\ (x * t) \div 10 <= (y * u) \div 10
  BY <1>2, <1>3, <1>6 DEF Jitters
<1> QED BY <1>4, <1>5, <1>7

\* The delay of the last retry is one that CalculateBackoff may have given.
BackoffInv ==
  /\ attemptsMade \in Nat /\ jitter \in Jitters
  /\ IF attemptsMade = 0 THEN delay = 0 ELSE delay \in CalculateBackoff(attemptsMade, jitter)

\* Every retry keeps that.
LEMMA RetryKeeps == BackoffInv /\ [Retry]_vars => BackoffInv'
  BY DEF BackoffInv, Retry, vars, CalculateBackoff, Product

\* The first values are as the invariant says.
LEMMA BackoffStarts == Init => BackoffInv
  BY DEF Init, BackoffInv, Jitters

\* A product that fits is not changed but by the cap.
LEMMA RetryLonger ==
  ASSUME BackoffInv, Retry, Fits(attemptsMade', 12) PROVE delay' >= delay
<1> DEFINE n == attemptsMade
<1>1. n \in Nat /\ n' = n + 1 /\ jitter \in Jitters /\ jitter' \in Jitters
  BY DEF BackoffInv, Retry
<1>2. \A p \in Nat : p <= Product(n + 1, 12) => ToDuration(p) = {p}
  <2>1. Least <= 0 /\ Least \in Int /\ Greatest \in Int
    BY PowFacts DEF Least, Greatest
  <2>2. Product(n + 1, 12) \in Int /\ Product(n + 1, 12) <= Greatest
    BY <1>1, <2>1 DEF Fits, Duration
  <2> QED BY <2>1, <2>2 DEF ToDuration, Duration
<1>3. MaxBackoffDelay \in Nat
  BY PowFacts DEF Duration, Least, Greatest
<1>4. /\ Product(n + 1, jitter') \in Nat
      /\ delay' = Capped(Product(n + 1, jitter'))
  <2>1. Product(n + 1, jitter') \in Nat /\ Product(n + 1, jitter') <= Product(n + 1, 12)
    BY <1>1, LongerProduct
  <2> QED BY <1>1, <1>2, <2>1 DEF Retry, CalculateBackoff
<1>5. CASE n = 0
  BY <1>3, <1>4, <1>5 DEF BackoffInv, Capped
<1>6. CASE n # 0
  <2>1. /\ Product(n, jitter) \in Nat /\ Product(n, jitter) <= Product(n + 1, jitter')
        /\ Product(n + 1, jitter') <= Product(n + 1, 12)
    BY <1>1, <1>6, LongerProduct
  <2>2. Product(n + 1, 12) \in Int
    BY <1>1, LongerProduct DEF Jitters
  <2>3. ToDuration(Product(n, jitter)) = {Product(n, jitter)}
    BY <1>2, <1>4, <2>1, <2>2
  <2>4. delay = Capped(Product(n, jitter))
    BY <1>1, <1>6, <2>3 DEF BackoffInv, CalculateBackoff
  <2> QED BY <1>3, <1>4, <2>1, <2>4 DEF Capped
<1> QED BY <1>1, <1>5, <1>6

-----------------------------------------------------------------------------
(* The keys of a queue *)

\* Some sequence has the elements of x and then those of y.
Joins(T, x, y) ==
  \E n \in Nat, m \in Nat, z \in Seq(T) :
    /\ z = x \o y /\ Len(x) = n /\ Len(y) = m /\ Len(z) = n + m
    /\ \A i \in 1..n : z[i] = x[i]
    /\ \A i \in 1..m : z[n + i] = y[i]

\* Two sequences one after the other.
LEMMA Joined ==
  ASSUME NEW T, NEW x \in Seq(T), NEW y \in Seq(T)
  PROVE  Joins(T, x, y)
<1> DEFINE n == Len(x)
<1>0. n \in Nat
  OBVIOUS
<1>1. x \o y \in Seq(T) /\ Len(x \o y) = n + Len(y)
  OBVIOUS
<1>2. \A i \in 1..n : (x \o y)[i] = x[i]
  OBVIOUS
<1>3. ASSUME NEW i \in 1..Len(y) PROVE (x \o y)[n + i] = y[i]
  <2>1. n + i \in 1..(Len(x) + Len(y)) /\ ~(n + i <= Len(x)) /\ n + i - Len(x) = i
    OBVIOUS
  <2>2. (x \o y)[n + i] = y[n + i - Len(x)]
    BY <2>1
  <2> QED BY <2>1, <2>2
<1>4. Len(y) \in Nat
  OBVIOUS
<1> QED BY <1>0, <1>1, <1>2, <1>3, <1>4 DEF Joins

\* The bytes of q with two bytes before and two after it.
Framed(q, head, tail, key) ==
  /\ key \in Seq(Byte) /\ Len(key) = Len(q) + 4
  /\ key[1] = head[1] /\ key[2] = head[2]
  /\ \A i \in 1..Len(q) : key[i + 2] = q[i]
  /\ key[Len(q) + 3] = tail[1] /\ key[Len(q) + 4] = tail[2]

\* Where the bytes of a sequence between two pairs go.
LEMMA Between ==
  ASSUME NEW q \in Seq(Byte), NEW head \in Seq(Byte), NEW tail \in Seq(Byte),
         Len(head) = 2, Len(tail) = 2
  PROVE  Framed(q, head, tail, (head \o q) \o tail)
<1>1. PICK n \in Nat, m \in Nat, z \in Seq(Byte) :
           /\ z = head \o q /\ Len(head) = n /\ Len(q) = m /\ Len(z) = n + m
           /\ \A i \in 1..n : z[i] = head[i]
           /\ \A i \in 1..m : z[n + i] = q[i]
  <2>1. Joins(Byte, head, q)
    BY Joined
  <2> QED BY <2>1 DEF Joins
<1>2. PICK l \in Nat, k \in Nat, y \in Seq(Byte) :
           /\ y = z \o tail /\ Len(z) = l /\ Len(tail) = k /\ Len(y) = l + k
           /\ \A i \in 1..l : y[i] = z[i]
           /\ \A i \in 1..k : y[l + i] = tail[i]
  <2>1. Joins(Byte, z, tail)
    BY Joined
  <2> QED BY <2>1 DEF Joins
<1>3. n = 2 /\ k = 2 /\ l = m + 2
  <2>1. n = 2 /\ k = 2
    BY <1>1, <1>2, Zenon
  <2>2. l = n + m
    BY <1>1, <1>2, Zenon
  <2> QED BY <2>1, <2>2
<1>4. Len(y) = m + 4
  BY <1>2, <1>3
<1>5. z[1] = head[1] /\ z[2] = head[2]
  BY <1>1, <1>3
<1>6. y[1] = z[1] /\ y[2] = z[2]
  BY <1>2, <1>3
<1>7. y[m + 3] = tail[1] /\ y[m + 4] = tail[2]
  <2>1. 1 \in 1..k /\ 2 \in 1..k /\ l + 1 = m + 3 /\ l + 2 = m + 4
    BY <1>3
  <2>2. \A i \in 1..k : y[l + i] = tail[i]
    BY <1>2
  <2> QED BY <2>1, <2>2
<1>8. ASSUME NEW i \in 1..m PROVE y[i+2] = q[i]
  <2>1. i + 2 = n + i /\ i + 2 \in 1..l
    BY <1>3
  <2> QED BY <1>1, <1>2, <2>1
<1>9. m = Len(q) /\ y = (head \o q) \o tail /\ y \in Seq(Byte)
  BY <1>1, <1>2
<1> QED BY <1>4, <1>5, <1>6, <1>7, <1>8, <1>9 DEF Framed

\* Where the bytes of a key with a hash tag come from.
LEMMA KeyBytes ==
  ASSUME NEW q \in Seq(Byte), NEW s \in Suffixes
  PROVE  /\ KeyOf(q, TRUE, s) \in Seq(Byte)
         /\ Len(KeyOf(q, TRUE, s)) = Len(q) + 4
         /\ KeyOf(q, TRUE, s)[1] = Bull
         /\ KeyOf(q, TRUE, s)[2] = Open
         /\ \A i \in 1..Len(q) : KeyOf(q, TRUE, s)[i + 2] = q[i]
         /\ KeyOf(q, TRUE, s)[Len(q) + 3] = Close
         /\ KeyOf(q, TRUE, s)[Len(q) + 4] = s
<1> DEFINE head == <<Bull, Open>>
           tail == <<Close, s>>
<1>1. /\ head \in Seq(Byte) /\ Len(head) = 2 /\ head[1] = Bull /\ head[2] = Open
      /\ tail \in Seq(Byte) /\ Len(tail) = 2 /\ tail[1] = Close /\ tail[2] = s
  BY DEF Byte, Bull, Open, Close, Suffixes
<1>2. KeyOf(q, TRUE, s) = (head \o q) \o tail
  BY DEF KeyOf
<1> HIDE DEF head, tail
<1>3. Framed(q, head, tail, KeyOf(q, TRUE, s))
  BY <1>1, <1>2, Between, Zenon
<1> QED BY <1>1, <1>3, Zenon DEF Framed

\* The least element of a set of numbers above some number.
LEMMA LeastOf ==
  ASSUME NEW S, S \subseteq Nat, S # {}
  PROVE  Min(S) \in S /\ \A n \in S : Min(S) <= n
<1>1. IsWellFoundedOn(OpToRel(<, Nat), Nat)
  BY NatLessThanWellFounded
<1>2. PICK m \in S : \A n \in S : ~(<<n, m>> \in OpToRel(<, Nat))
  BY <1>1, WFMin
<1>3. \A n \in S : ~(n < m)
  BY <1>2 DEF OpToRel
<1>4. \A n \in S : m <= n
  BY <1>3
<1> QED BY <1>4 DEF Min

\* The first brace of a key is the one before the name, and a closing one follows it: what
\* is hashed is a beginning of the name, up to its first closing brace.
LEMMA TagOfKey ==
  ASSUME NEW q \in Seq(Byte), q # << >>, q[1] # Close, NEW s \in Suffixes
  PROVE  HashKey(KeyOf(q, TRUE, s)) =
           SubSeq(q, 1, Min({ i \in 1..Len(q) : q[i] = Close } \cup {Len(q) + 1}) - 1)
<1> DEFINE key == KeyOf(q, TRUE, s)
           stops == { i \in 1..Len(q) : q[i] = Close } \cup {Len(q) + 1}
           stop == Min(stops)
           ends == After(At(key, Close), 2)
<1>1. /\ key \in Seq(Byte) /\ Len(key) = Len(q) + 4
      /\ key[1] = Bull /\ key[2] = Open
      /\ \A i \in 1..Len(q) : key[i + 2] = q[i]
      /\ key[Len(q) + 3] = Close /\ key[Len(q) + 4] = s
  BY KeyBytes
<1> HIDE DEF key
<1>2. Len(q) \in Nat /\ Len(q) > 0 /\ DOMAIN key = 1..(Len(q) + 4)
  BY <1>1
<1>3. Min(At(key, Open)) = 2
  <2>1. /\ At(key, Open) \subseteq Nat /\ 2 \in At(key, Open)
        /\ 1 \notin At(key, Open) /\ 0 \notin At(key, Open)
    BY <1>1, <1>2 DEF At, Bull, Open
  <2>2. Min(At(key, Open)) \in At(key, Open) /\ Min(At(key, Open)) <= 2
    BY <2>1, LeastOf
  <2> QED BY <2>1, <2>2
<1>4. At(key, Open) # {}
  BY <1>1, <1>2 DEF At
<1>5. stop \in stops /\ stop > 1 /\ stop <= Len(q) + 1 /\ \A i \in stops : stop <= i
  <2>1. /\ stops \subseteq Nat /\ stops # {}
        /\ 1 \notin stops /\ 0 \notin stops /\ Len(q) + 1 \in stops
    BY <1>2
  <2>2. stop \in stops /\ \A i \in stops : stop <= i
    <3> HIDE DEF stops
    <3> QED BY <2>1, LeastOf, Zenon
  <2> QED BY <1>2, <2>1, <2>2
<1>6. \A i \in ends : i - 2 \in stops
  <2> SUFFICES ASSUME NEW i \in ends PROVE i - 2 \in stops
    OBVIOUS
  <2>1. i \in 3..(Len(q) + 4) /\ key[i] = Close
    BY <1>2 DEF After, At
  <2>2. i # Len(q) + 4
    BY <1>1, <2>1 DEF Suffixes, Close
  <2>3. CASE i = Len(q) + 3
    BY <1>2, <2>3
  <2>4. CASE i # Len(q) + 3
    <3>1. i - 2 \in 1..Len(q) /\ i - 2 + 2 = i
      BY <1>2, <2>1, <2>2, <2>4
    <3>2. q[i - 2] = Close
      BY <1>1, <2>1, <3>1
    <3> QED BY <3>1, <3>2
  <2> QED BY <2>3, <2>4
<1>7. stop + 2 \in ends
  <2>1. stop + 2 \in 3..(Len(q) + 4) /\ stop + 2 > 2
    BY <1>2, <1>5
  <2>2. key[stop + 2] = Close
    BY <1>1, <1>2, <1>5
  <2> QED BY <1>2, <2>1, <2>2 DEF After, At
<1>8. ends # {} /\ Min(ends) = stop + 2
  <2>1. ends \subseteq Nat /\ ends # {}
    BY <1>2, <1>7 DEF After, At
  <2>2. Min(ends) \in ends /\ Min(ends) <= stop + 2
    <3> HIDE DEF ends
    <3> QED BY <1>7, <2>1, LeastOf
  <2>3. stop <= Min(ends) - 2
    BY <1>5, <1>6, <2>2
  <2> QED BY <1>2, <1>5, <2>1, <2>2, <2>3
<1>9. HashKey(key) = SubSeq(key, 3, stop + 1)
  <2>1. stop \in Int /\ stop + 2 > 2 + 1 /\ stop + 2 - 1 = stop + 1 /\ 2 + 1 = 3
    BY <1>2, <1>5
  <2> HIDE DEF stop
  <2> QED BY <1>3, <1>4, <1>8, <2>1 DEF HashKey
<1>10. SubSeq(key, 3, stop + 1) = SubSeq(q, 1, stop - 1)
  <2>0. stop \in Nat
    BY <1>2, <1>5
  <2> HIDE DEF stop, stops
  <2>1. SubSeq(key, 3, stop + 1) = [i \in 1..(stop - 1) |-> key[i + 2]]
    BY <1>1, <1>2, <1>5, <2>0
  <2>2. SubSeq(q, 1, stop - 1) = [i \in 1..(stop - 1) |-> q[i]]
    BY <1>2, <1>5, <2>0
  <2>3. \A i \in 1..(stop - 1) : key[i + 2] = q[i]
    BY <1>1, <1>2, <1>5, <2>0
  <2> QED BY <2>1, <2>2, <2>3
<1> QED BY <1>9, <1>10 DEF key

\* All keys of a queue are in one slot, by any hash.
LEMMA OneSlot ==
  ASSUME NEW q \in Seq(Byte), q # << >>, q[1] # Close
  PROVE  \E n : \A s \in Suffixes : GetClusterSlot(KeyOf(q, TRUE, s)) = n
  BY TagOfKey DEF GetClusterSlot

\* The inductive invariant: any name, any chain of errors, and a delay that
\* CalculateBackoff may have given.
FunctionsInv ==
  /\ BackoffInv
  /\ queueName \in Seq(Byte)
  /\ err \in Seq(Links)

\* Names, errors and delays are as the types say.
LEMMA FunctionsKeep ==
  FunctionsInv /\ [Fails \/ Name \/ Wrap]_<<vars, queueName, err>> => FunctionsInv'
<1> SUFFICES ASSUME FunctionsInv, [Fails \/ Name \/ Wrap]_<<vars, queueName, err>>
             PROVE  FunctionsInv'
  OBVIOUS
<1>1. CASE Fails
  BY <1>1, RetryKeeps DEF Fails, FunctionsInv
<1>2. CASE Name
  BY <1>2, RetryKeeps DEF Name, FunctionsInv
<1>3. CASE Wrap
  BY <1>3, RetryKeeps DEF Wrap, FunctionsInv
<1>4. CASE UNCHANGED <<vars, queueName, err>>
  BY <1>4, RetryKeeps DEF FunctionsInv
<1> QED BY <1>1, <1>2, <1>3, <1>4

\* The first name, error and delay.
LEMMA FunctionsStart == FunctionsInit => FunctionsInv
  BY BackoffStarts DEF FunctionsInit, FunctionsInv

\* The slots of the keys of the name of a state.
LEMMA SlotsOfName == FunctionsInv => KeysTogether
<1> SUFFICES ASSUME FunctionsInv, queueName # << >>, queueName[1] # Close
             PROVE  /\ { i.keys : i \in AnalyzeClusterKeys(QueueKeys(queueName, TRUE)) }
                         = {QueueKeys(queueName, TRUE)}
                    /\ ~Warns(queueName, TRUE)
  BY DEF KeysTogether
<1>1. PICK n : \A s \in Suffixes : GetClusterSlot(KeyOf(queueName, TRUE, s)) = n
  BY OneSlot DEF FunctionsInv
<1> DEFINE K == QueueKeys(queueName, TRUE)
<1>2. \A k \in K : GetClusterSlot(k) = n
  BY <1>1 DEF QueueKeys
<1>3. K # {}
  <2>1. 1 \in Suffixes
    BY DEF Suffixes
  <2> QED BY <2>1 DEF QueueKeys
<1>4. ~Warns(queueName, TRUE)
  <2>1. {1, 4, 2, 8, 9, 10} \subseteq Suffixes
    BY DEF Suffixes
  <2> QED BY <1>1, <2>1 DEF Warns, ValidateHashTags
<1>5. { i.keys : i \in AnalyzeClusterKeys(K) } = {K}
  <2> HIDE DEF K
  <2>1. { GetClusterSlot(k) : k \in K } = {n}
    BY <1>2, <1>3
  <2>2. { k \in K : GetClusterSlot(k) = n } = K
    BY <1>2
  <2>3. AnalyzeClusterKeys(K) = { [slot |-> n, keys |-> K] }
    BY <2>1, <2>2 DEF AnalyzeClusterKeys
  <2> QED BY <2>3
<1> QED BY <1>4, <1>5

\* Whatever braces a queue's name has and however long it is, its keys share a slot.
THEOREM KeysShareSlot == FunctionsSpec => []KeysTogether
  BY FunctionsStart, FunctionsKeep, SlotsOfName, PTL DEF FunctionsSpec

-----------------------------------------------------------------------------
(* The category of an error *)

\* What a wrapped error carries.
LEMMA HasWrapped ==
  ASSUME NEW e \in Seq(Links), NEW link \in Links, NEW kind
  PROVE  Has(<<link>> \o e, kind) <=> link = kind \/ Has(e, kind)
<1> DEFINE w == <<link>> \o e
<1>1. /\ w \in Seq(Links) /\ Len(w) = Len(e) + 1 /\ w[1] = link
      /\ \A i \in 1..Len(e) : w[i + 1] = e[i]
  OBVIOUS
<1>2. \A i \in 2..Len(w) : i - 1 \in 1..Len(e) /\ w[i] = e[i - 1]
  BY <1>1
<1> HIDE DEF w
<1>3. ASSUME NEW i \in DOMAIN w, w[i] = kind PROVE link = kind \/ Has(e, kind)
  BY <1>1, <1>2, <1>3 DEF Has
<1>4. ASSUME NEW i \in DOMAIN e, e[i] = kind PROVE Has(w, kind)
  BY <1>1, <1>4 DEF Has
<1>5. link = kind => Has(w, kind)
  BY <1>1 DEF Has
<1>6. Has(w, kind) <=> link = kind \/ Has(e, kind)
  BY <1>3, <1>4, <1>5 DEF Has
<1> QED BY <1>6 DEF w

\* Wrapping an error that has a category of its own by anything but a TransientError.
LEMMA WrapSticks ==
  ASSUME FunctionsInv, Wrap, Has(err, "transient") \/ Has(err, "permanent"), err'[1] # "transient"
  PROVE  CategorizeError(err') = CategorizeError(err)
<1>1. PICK link \in Links : err' = <<link>> \o err
  BY DEF Wrap
<1>2. err'[1] = link
  BY <1>1 DEF FunctionsInv
<1>3. \A kind : Has(err', kind) <=> link = kind \/ Has(err, kind)
  BY <1>1, HasWrapped DEF FunctionsInv
<1> QED BY <1>2, <1>3 DEF CategorizeError

\* However often an error is wrapped, its category stays that of the TransientError or
\* PermanentError in it, unless a TransientError is put around it.
THEOREM CategoriesStick == FunctionsSpec => CategorySticks
<1>1. FunctionsInv /\ [Fails \/ Name \/ Wrap]_<<vars, queueName, err>> =>
        [(Has(err, "transient") \/ Has(err, "permanent")) /\ err'[1] # "transient" =>
           CategorizeError(err') = CategorizeError(err)]_err
  BY WrapSticks DEF Fails, Name
<1> QED BY <1>1, FunctionsStart, FunctionsKeep, PTL DEF FunctionsSpec, CategorySticks

\* A job that keeps failing never waits less than before its last retry, until the delay
\* no longer fits a time.Duration.
THEOREM RetriesNeverSooner == FunctionsSpec => NeverSooner
<1>1. FunctionsInv /\ [Fails \/ Name \/ Wrap]_<<vars, queueName, err>> =>
        [Fits(attemptsMade', 12) => delay' >= delay]_vars
  BY RetryLonger DEF Fails, Name, Wrap, vars, FunctionsInv
<1> QED BY <1>1, FunctionsStart, FunctionsKeep, PTL DEF FunctionsSpec, NeverSooner

\* For queue names of any length, made of any bytes, the CRC16 by the table of cluster.go
\* is the remainder by the CCITT polynomial: no entry of the table is wrong, and the
\* step by a byte uses it rightly.
THEOREM CrcRight == FunctionsSpec => []CrcIsCcitt
<1>1. FunctionsInv => CrcIsCcitt
  BY CrcOfBytes DEF FunctionsInv, CrcIsCcitt
<1> QED BY <1>1, FunctionsStart, FunctionsKeep, PTL DEF FunctionsSpec
=============================================================================
