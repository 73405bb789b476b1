---------------------------- MODULE MarketProofs ----------------------------
(***************************************************************************)
(* The robot's order book is the exchange's.  What has to be shown first   *)
(* is that operator<, which multiplies a significand by a power of ten in  *)
(* doubles, compares Numbers by their value (LessByValue); then what a     *)
(* message does to a set, whatever its items (Applied); then that the set  *)
(* and the messages under way together are right about every price         *)
(* (InSync).  Powers, digits and Apply are recursive functions: that they  *)
(* exist, and what holds of all their values, is shown by looking at the   *)
(* least number for which it would not.                                    *)
(***************************************************************************)
EXTENDS Market, FiniteSetTheorems, SequenceTheorems, TLAPS

-----------------------------------------------------------------------------
(* Induction and recursion.                                                *)

LEMMA LeastNatural ==
  ASSUME NEW T, T \subseteq Nat, T # {}
  PROVE  \E n \in T : \A k \in T : n <= k
<1>1. PICK n \in T : \A k \in T : ~(<<k, n>> \in OpToRel(<, Nat))
  BY NatLessThanWellFounded, WFMin
<1>2. \A k \in T : ~(k < n)
  BY <1>1 DEF OpToRel
<1> QED
  BY <1>2

(* A function of the numbers in D may be defined from its value at a       *)
(* smaller one; it is put together from those defined up to a number.      *)
Descends(D, p) == p \in [D \ {0} -> D] /\ \A n \in D \ {0} : p[n] < n

Upto(D, n) == {m \in D : m <= n}

Recurs(E, c, p, G, f) ==
  \A m \in E : f[m] = IF m = 0 THEN c ELSE G[m, f[p[m]]]

Partial(D, S, c, p, G, n) ==
  {f \in [Upto(D, n) -> S] : Recurs(Upto(D, n), c, p, G, f)}

PartialAt(D, S, c, p, G, n) == CHOOSE f : f \in Partial(D, S, c, p, G, n)

Agree(D, n, k, f, g) == \A m \in D : m <= n /\ m <= k => f[m] = g[m]

LEMMA PartialsAgree ==
  ASSUME NEW D, D \subseteq Nat, NEW S, NEW c \in S,
         NEW p, Descends(D, p), NEW G \in [D \X S -> S]
  PROVE  \A n, k \in D :
           \A f \in Partial(D, S, c, p, G, n), g \in Partial(D, S, c, p, G, k) :
             Agree(D, n, k, f, g)
<1> SUFFICES ASSUME NEW n \in D, NEW f \in Partial(D, S, c, p, G, n),
                    NEW k \in D, NEW g \in Partial(D, S, c, p, G, k)
             PROVE  \A m \in D : m <= n /\ m <= k => f[m] = g[m]
  BY DEF Agree
<1> DEFINE T == {m \in D : m <= n /\ m <= k /\ f[m] # g[m]}
<1> SUFFICES ASSUME T # {} PROVE FALSE
  OBVIOUS
<1>1. PICK m \in T : \A j \in T : m <= j
  <2>1. T \subseteq Nat
    OBVIOUS
  <2> HIDE DEF T
  <2> QED
    BY <2>1, LeastNatural
<1>2. /\ m \in D /\ m <= n /\ m <= k /\ f[m] # g[m]
      /\ m \in Upto(D, n) /\ m \in Upto(D, k)
  BY <1>1 DEF Upto
<1>3. /\ f[m] = IF m = 0 THEN c ELSE G[m, f[p[m]]]
      /\ g[m] = IF m = 0 THEN c ELSE G[m, g[p[m]]]
  BY <1>2 DEF Partial, Recurs
<1>4. m # 0
  BY <1>2, <1>3
<1>5. p[m] \in D /\ p[m] < m /\ {m, n, k, p[m]} \subseteq Nat
  BY <1>2, <1>4 DEF Descends
<1>6. ~(p[m] \in T) /\ p[m] <= n /\ p[m] <= k
  BY <1>1, <1>2, <1>5
<1>7. f[p[m]] = g[p[m]]
  BY <1>5, <1>6
<1> QED
  BY <1>2, <1>3, <1>7

LEMMA PartialsExtend ==
  ASSUME NEW D, D \subseteq Nat, NEW S, NEW c \in S,
         NEW p, Descends(D, p),
         NEW G \in [D \X S -> S], NEW n \in D,
         NEW h, \A m \in D : m < n => h[m] \in S,
         Recurs({m \in D : m < n}, c, p, G, h)
  PROVE  Partial(D, S, c, p, G, n) # {}
<1> DEFINE v == IF n = 0 THEN c ELSE G[n, h[p[n]]]
           f == [m \in Upto(D, n) |-> IF m < n THEN h[m] ELSE v]
<1>1. v \in S
  BY DEF Descends
<1>2. f \in [Upto(D, n) -> S]
  BY <1>1 DEF Upto
<1>3. ASSUME NEW m \in Upto(D, n)
      PROVE  f[m] = IF m = 0 THEN c ELSE G[m, f[p[m]]]
  <2>1. m \in D /\ m \in Nat /\ n \in Nat /\ m <= n
    BY DEF Upto
  <2>2. ASSUME m # 0
        PROVE  f[p[m]] = h[p[m]]
    <3>1. p[m] \in D /\ p[m] < m /\ p[m] \in Nat
      BY <2>1, <2>2 DEF Descends
    <3>2. p[m] \in Upto(D, n) /\ p[m] < n
      BY <2>1, <3>1 DEF Upto
    <3> QED
      BY <3>2
  <2>3. f[m] = IF m < n THEN h[m] ELSE v
    OBVIOUS
  <2> HIDE DEF f
  <2>4. m < n => h[m] = IF m = 0 THEN c ELSE G[m, h[p[m]]]
    BY <2>1 DEF Recurs
  <2>5. f[m] = IF m = 0 THEN c ELSE G[m, h[p[m]]]
    <3>1. m < n \/ m = n
      BY <2>1
    <3> QED
      BY <2>3, <2>4, <3>1, Zenon
  <2> QED
    BY <2>2, <2>5, Zenon
<1>4. f \in Partial(D, S, c, p, G, n)
  <2> HIDE DEF f
  <2> QED
    BY <1>2, <1>3 DEF Partial, Recurs
<1> QED
  BY <1>4

LEMMA Recursion ==
  ASSUME NEW D, D \subseteq Nat, NEW S, NEW c \in S,
         NEW p, Descends(D, p),
         NEW G \in [D \X S -> S]
  PROVE  \E f \in [D -> S] : Recurs(D, c, p, G, f)
<1> DEFINE P(n) == Partial(D, S, c, p, G, n)
           F(n) == PartialAt(D, S, c, p, G, n)
           h == [n \in D |-> F(n)[n]]
<1>0. \A n, k \in D : \A f \in P(n), g \in P(k) : Agree(D, n, k, f, g)
  BY PartialsAgree
<1>1. ASSUME NEW n \in D, P(n) # {}
      PROVE  F(n) \in P(n)
  BY <1>1 DEF PartialAt
<1>2. ASSUME NEW n \in D, \A m \in D : m <= n => P(m) # {}
      PROVE  h[n] \in S /\ h[n] = IF n = 0 THEN c ELSE G[n, h[p[n]]]
  <2>1. n \in Upto(D, n) /\ F(n) \in P(n) /\ n \in Nat
    BY <1>1, <1>2 DEF Upto
  <2>2. F(n)[n] \in S /\ F(n)[n] = IF n = 0 THEN c ELSE G[n, F(n)[p[n]]]
    BY <2>1 DEF Partial, Recurs
  <2>3. ASSUME n # 0
        PROVE  F(n)[p[n]] = F(p[n])[p[n]]
    <3>1. p[n] \in D /\ p[n] \in Nat /\ p[n] < n
      BY <2>1, <2>3 DEF Descends
    <3>2. F(p[n]) \in P(p[n])
      BY <1>1, <1>2, <2>1, <3>1
    <3> PICK k \in D : k = p[n]
      BY <3>1
    <3>3. \A m \in D : m <= n /\ m <= k => F(n)[m] = F(k)[m]
      <4>1. Agree(D, n, k, F(n), F(k))
        BY <1>0, <2>1, <3>2
      <4> QED
        BY <4>1 DEF Agree
    <3> QED
      BY <2>1, <3>1, <3>3
  <2>4. h[n] = F(n)[n] /\ (n # 0 => h[p[n]] = F(p[n])[p[n]])
    BY DEF Descends
  <2> HIDE DEF h, F
  <2> QED
    BY <2>2, <2>3, <2>4, Zenon
<1>3. ASSUME NEW n \in D
      PROVE  P(n) # {}
  <2> DEFINE T == {m \in D : P(m) = {}}
  <2> SUFFICES ASSUME T # {} PROVE FALSE
    OBVIOUS
  <2>1. PICK m \in T : \A j \in T : m <= j
    <3>1. T \subseteq Nat
      OBVIOUS
    <3> HIDE DEF T
    <3> QED
      BY <3>1, LeastNatural
  <2>2. m \in D /\ m \in Nat /\ P(m) = {}
    BY <2>1
  <2>3. \A j \in D : j < m => P(j) # {}
    BY <2>1, <2>2
  <2>4. ASSUME NEW j \in D, j < m
        PROVE  h[j] \in S /\ h[j] = IF j = 0 THEN c ELSE G[j, h[p[j]]]
    <3>1. \A i \in D : i <= j => P(i) # {}
      BY <2>2, <2>3, <2>4
    <3> QED
      BY <1>2, <3>1
  <2>5. P(m) # {}
    <3> HIDE DEF h
    <3>1. Recurs({j \in D : j < m}, c, p, G, h) /\ \A j \in D : j < m => h[j] \in S
      BY <2>4 DEF Recurs
    <3> QED
      BY <2>2, <3>1, PartialsExtend
  <2> QED
    BY <2>2, <2>5
<1>4. \A n \in D : h[n] \in S /\ h[n] = IF n = 0 THEN c ELSE G[n, h[p[n]]]
  BY <1>2, <1>3
<1>5. h \in [D -> S]
  BY <1>4
<1> HIDE DEF h
<1> QED
  BY <1>4, <1>5 DEF Recurs

LEMMA Induction ==
  ASSUME NEW T, 0 \in T, \A n \in Nat : n \in T => n + 1 \in T
  PROVE  Nat \subseteq T
<1> DEFINE U == Nat \ T
<1> SUFFICES ASSUME U # {} PROVE FALSE
  OBVIOUS
<1>1. PICK n \in U : \A k \in U : n <= k
  <2>1. U \subseteq Nat
    OBVIOUS
  <2> HIDE DEF U
  <2> QED
    BY <2>1, LeastNatural
<1>2. n # 0 /\ n \in Nat
  BY <1>1
<1>3. n - 1 \in Nat /\ n - 1 \in T /\ (n - 1) + 1 = n
  BY <1>1, <1>2
<1> QED
  BY <1>1, <1>3

-----------------------------------------------------------------------------
(* Powers and binary digits.                                               *)

PowersOf(b, f) == f = [k \in Nat |-> IF k = 0 THEN 1 ELSE b * f[k - 1]]

LEMMA PowersExist ==
  ASSUME NEW b \in Nat \ {0}
  PROVE  \E f : PowersOf(b, f)
<1> DEFINE P == Nat \ {0}
           p == [n \in P |-> n - 1]
           G == [x \in Nat \X P |-> b * x[2]]
<1>1. Descends(Nat, p)
  BY DEF Descends
<1>2. G \in [Nat \X P -> P]
  OBVIOUS
<1>3. Nat \subseteq Nat /\ 1 \in P
  OBVIOUS
<1>4. \E g \in [Nat -> P] : Recurs(Nat, 1, p, G, g)
  <2> HIDE DEF p, G, P
  <2> QED
    BY <1>1, <1>2, <1>3, Recursion
<1>5. PICK g \in [Nat -> P] : Recurs(Nat, 1, p, G, g)
  BY <1>4
<1>6. ASSUME NEW k \in Nat
      PROVE  g[k] = IF k = 0 THEN 1 ELSE b * g[k - 1]
  <2>1. g[k] = IF k = 0 THEN 1 ELSE G[k, g[p[k]]]
    BY <1>5 DEF Recurs
  <2>2. k # 0 => p[k] = k - 1 /\ k - 1 \in Nat
    OBVIOUS
  <2>3. k # 0 => g[k - 1] \in P
    BY <2>2
  <2>4. k # 0 => G[k, g[k - 1]] = b * g[k - 1]
    BY <2>3
  <2> HIDE DEF p, G
  <2> QED
    BY <2>1, <2>2, <2>4
<1>7. PowersOf(b, g)
  BY <1>6 DEF PowersOf
<1> QED
  BY <1>7

LEMMA PowersGrow ==
  ASSUME NEW b \in Nat \ {0}, NEW f, PowersOf(b, f)
  PROVE  /\ f \in [Nat -> Nat \ {0}]
         /\ f[0] = 1 /\ \A k \in Nat : f[k + 1] = b * f[k]
<1>1. f[0] = 1
  BY DEF PowersOf
<1>2. ASSUME NEW k \in Nat
      PROVE  f[k + 1] = b * f[k]
  <2>1. k + 1 \in Nat /\ k + 1 # 0 /\ (k + 1) - 1 = k
    OBVIOUS
  <2> QED
    BY <2>1 DEF PowersOf
<1> DEFINE T == {k \in Nat : f[k] \in Nat \ {0}}
<1>3. 0 \in T /\ \A k \in Nat : k \in T => k + 1 \in T
  BY <1>1, <1>2
<1>4. Nat \subseteq T
  <2> HIDE DEF T
  <2> QED
    BY <1>3, Induction
<1>5. f \in [Nat -> Nat \ {0}]
  BY <1>4 DEF PowersOf
<1> QED
  BY <1>1, <1>2, <1>5

LEMMA TwoPowers ==
  /\ Two \in [Nat -> Nat \ {0}]
  /\ Two[0] = 1 /\ \A k \in Nat : Two[k + 1] = 2 * Two[k]
<1>1. PowersOf(2, Two)
  BY PowersExist DEF PowersOf, Two
<1> QED
  BY <1>1, PowersGrow

LEMMA TenPowers ==
  /\ Ten \in [Nat -> Nat \ {0}]
  /\ Ten[0] = 1 /\ \A k \in Nat : Ten[k + 1] = 10 * Ten[k]
<1>1. PowersOf(10, Ten)
  BY PowersExist DEF PowersOf, Ten
<1> QED
  BY <1>1, PowersGrow

LEMMA BitsCounted ==
  Bits \in [Nat -> Nat] /\ Bits[0] = 0 /\ \A n \in Nat \ {0} : Bits[n] = 1 + Bits[n \div 2]
<1> DEFINE p == [n \in Nat \ {0} |-> n \div 2]
           G == [x \in Nat \X Nat |-> 1 + x[2]]
           Equation(f) == f = [n \in Nat |-> IF n = 0 THEN 0 ELSE 1 + f[n \div 2]]
<1>1. Descends(Nat, p)
  BY DEF Descends
<1>2. G \in [Nat \X Nat -> Nat]
  OBVIOUS
<1>3. PICK g \in [Nat -> Nat] : Recurs(Nat, 0, p, G, g)
  <2> HIDE DEF p, G
  <2> QED
    BY <1>1, <1>2, Recursion
<1>4. ASSUME NEW n \in Nat
      PROVE  g[n] = IF n = 0 THEN 0 ELSE 1 + g[n \div 2]
  <2>1. g[n] = IF n = 0 THEN 0 ELSE G[n, g[p[n]]]
    BY <1>3 DEF Recurs
  <2>2. n # 0 => p[n] = n \div 2 /\ n \div 2 \in Nat
    OBVIOUS
  <2>3. n # 0 => g[n \div 2] \in Nat
    BY <2>2
  <2>4. n # 0 => G[n, g[n \div 2]] = 1 + g[n \div 2]
    BY <2>3
  <2> HIDE DEF p, G
  <2> QED
    BY <2>1, <2>2, <2>4
<1>5. Equation(g)
  BY <1>3, <1>4
<1>6. Equation(Bits)
  BY <1>5 DEF Bits
<1>7. Bits[0] = 0 /\ \A n \in Nat \ {0} : Bits[n] = 1 + Bits[n \div 2]
  BY <1>6
<1> DEFINE U == {n \in Nat : ~(Bits[n] \in Nat)}
<1>8. U = {}
  <2> SUFFICES ASSUME U # {} PROVE FALSE
    OBVIOUS
  <2>1. PICK n \in U : \A k \in U : n <= k
    <3>1. U \subseteq Nat
      OBVIOUS
    <3> HIDE DEF U
    <3> QED
      BY <3>1, LeastNatural
  <2>2. n \in Nat /\ n # 0 /\ n \div 2 \in Nat /\ n \div 2 < n
    BY <1>7, <2>1
  <2>3. Bits[n \div 2] \in Nat
    BY <2>1, <2>2
  <2> QED
    BY <1>7, <2>1, <2>2, <2>3
<1>9. Bits \in [Nat -> Nat]
  <2>1. \A n \in Nat : Bits[n] \in Nat
    BY <1>8
  <2> QED
    BY <1>6, <2>1
<1> QED
  BY <1>7, <1>9

LEMMA TwoValues ==
  /\ \A k \in Nat : Two[k] \in Nat \ {0}
  /\ Two[0] = 1 /\ Two[1] = 2 /\ Two[2] = 4
<1>1. Two[1] = 2 /\ Two[2] = 4
  <2>1. Two[0 + 1] = 2 * Two[0] /\ Two[1 + 1] = 2 * Two[1]
    BY TwoPowers
  <2> QED
    BY <2>1, TwoPowers
<1> QED
  BY <1>1, TwoPowers

LEMMA TwoSum ==
  ASSUME NEW a \in Nat, NEW b \in Nat
  PROVE  Two[a + b] = Two[a] * Two[b]
<1> DEFINE T == {k \in Nat : Two[a + k] = Two[a] * Two[k]}
<1>1. 0 \in T
  BY TwoPowers
<1>2. ASSUME NEW k \in Nat, k \in T
      PROVE  k + 1 \in T
  <2>1. Two[a + (k + 1)] = 2 * Two[a + k]
    BY TwoPowers
  <2>2. Two[a] * Two[k + 1] = 2 * (Two[a] * Two[k])
    BY TwoPowers
  <2> QED
    BY <1>2, <2>1, <2>2
<1>3. Nat \subseteq T
  <2> HIDE DEF T
  <2> QED
    BY <1>1, <1>2, Induction
<1> QED
  BY <1>3

LEMMA TenSum ==
  ASSUME NEW a \in Nat, NEW b \in Nat
  PROVE  Ten[a + b] = Ten[a] * Ten[b]
<1> DEFINE T == {k \in Nat : Ten[a + k] = Ten[a] * Ten[k]}
<1>1. 0 \in T
  BY TenPowers
<1>2. ASSUME NEW k \in Nat, k \in T
      PROVE  k + 1 \in T
  <2>1. Ten[a + (k + 1)] = 10 * Ten[a + k]
    BY TenPowers
  <2>2. Ten[a] * Ten[k + 1] = 10 * (Ten[a] * Ten[k])
    BY TenPowers
  <2> QED
    BY <1>2, <2>1, <2>2
<1>3. Nat \subseteq T
  <2> HIDE DEF T
  <2> QED
    BY <1>1, <1>2, Induction
<1> QED
  BY <1>3

LEMMA TwoMonotone ==
  ASSUME NEW a \in Nat, NEW b \in Nat, a <= b
  PROVE  Two[a] <= Two[b]
<1>1. b - a \in Nat /\ b = a + (b - a)
  OBVIOUS
<1>2. Two[b] = Two[a] * Two[b - a]
  BY <1>1, TwoSum
<1>3. Two[a] \in Nat /\ Two[b - a] \in Nat \ {0}
  BY <1>1, TwoPowers
<1>4. \A x \in Nat, y \in Nat \ {0} : x <= x * y
  OBVIOUS
<1> QED
  BY <1>2, <1>3, <1>4

(* The number of digits is where a number lies between the powers.         *)
LEMMA BitsBound ==
  ASSUME NEW n \in Nat \ {0}
  PROVE  Bits[n] \in Nat \ {0} /\ Two[Bits[n] - 1] <= n /\ n < Two[Bits[n]]
<1> DEFINE OK(m) == Bits[m] \in Nat \ {0} /\ Two[Bits[m] - 1] <= m /\ m < Two[Bits[m]]
           U == {m \in Nat \ {0} : ~OK(m)}
<1> SUFFICES ASSUME U # {} PROVE FALSE
  OBVIOUS
<1>1. PICK m \in U : \A k \in U : m <= k
  <2>1. U \subseteq Nat
    OBVIOUS
  <2> HIDE DEF U
  <2> QED
    BY <2>1, LeastNatural
<1>2. m \in Nat \ {0} /\ ~OK(m)
  BY <1>1
<1>3. Bits[m] = 1 + Bits[m \div 2]
  BY <1>2, BitsCounted
<1>4. CASE m = 1
  <2>1. Bits[m] = 1
    BY <1>3, <1>4, BitsCounted
  <2>2. Two[0] = 1 /\ Two[1] = 2
    BY TwoPowers
  <2> QED
    BY <1>2, <1>4, <2>1, <2>2
<1>5. CASE m # 1
  <2> PICK h : h = m \div 2
    OBVIOUS
  <2>1. h \in Nat \ {0} /\ h < m /\ (m = 2 * h \/ m = 2 * h + 1)
    BY <1>2, <1>5
  <2>2. ~(h \in U)
    BY <1>1, <1>2, <2>1
  <2>3. OK(h)
    BY <2>1, <2>2
  <2> PICK k : k = Bits[h]
    OBVIOUS
  <2>4. k \in Nat \ {0} /\ Two[k - 1] <= h /\ h < Two[k]
    BY <2>3
  <2>5. Bits[m] = k + 1
    BY <1>3, <2>4
  <2>6. Two[k + 1] = 2 * Two[k] /\ Two[k] = 2 * Two[k - 1]
    BY <2>4, TwoPowers
  <2>7. Two[k - 1] \in Nat
    BY <2>4, TwoPowers
  <2>8. Two[k] <= m /\ m < Two[k + 1]
    BY <2>1, <2>4, <2>6, <2>7
  <2>9. (k + 1) - 1 = k
    BY <2>4
  <2> QED
    BY <1>2, <2>4, <2>5, <2>8, <2>9
<1> QED
  BY <1>4, <1>5

LEMMA BitsWithin ==
  ASSUME NEW n \in Nat \ {0}, NEW k \in Nat, n < Two[k]
  PROVE  Bits[n] <= k
<1>1. Bits[n] \in Nat \ {0} /\ Two[Bits[n] - 1] <= n
  BY BitsBound
<1>2. ASSUME k < Bits[n] PROVE FALSE
  <2>1. Bits[n] - 1 \in Nat /\ k <= Bits[n] - 1
    BY <1>1, <1>2
  <2>2. Two[k] <= Two[Bits[n] - 1]
    BY <2>1, TwoMonotone
  <2>3. {Two[k], Two[Bits[n] - 1]} \subseteq Nat
    BY <2>1, TwoPowers
  <2> QED
    BY <1>1, <2>2, <2>3
<1> QED
  BY <1>1, <1>2

LEMMA BitsShifted ==
  ASSUME NEW n \in Nat \ {0}, NEW k \in Nat
  PROVE  n * Two[k] \in Nat \ {0} /\ Bits[n * Two[k]] = Bits[n] + k
<1> DEFINE T == {j \in Nat : n * Two[j] \in Nat \ {0} /\ Bits[n * Two[j]] = Bits[n] + j}
<1>1. 0 \in T
  <2>1. n * Two[0] = n /\ Bits[n] \in Nat
    BY TwoValues, BitsCounted
  <2> QED
    BY <2>1
<1>2. ASSUME NEW j \in Nat, j \in T
      PROVE  j + 1 \in T
  <2> PICK x : x = n * Two[j]
    OBVIOUS
  <2>1. x \in Nat \ {0} /\ Bits[x] = Bits[n] + j
    BY <1>2
  <2>2. n * Two[j + 1] = 2 * x
    BY TwoPowers
  <2>3. 2 * x \in Nat \ {0} /\ (2 * x) \div 2 = x
    BY <2>1
  <2>4. Bits[2 * x] = 1 + Bits[x]
    BY <2>3, BitsCounted
  <2>5. Bits[n] \in Nat
    BY BitsCounted
  <2> QED
    BY <2>1, <2>2, <2>3, <2>4, <2>5
<1>3. Nat \subseteq T
  <2> HIDE DEF T
  <2> QED
    BY <1>1, <1>2, Induction
<1> QED
  BY <1>3

-----------------------------------------------------------------------------
(* Doubles of integers that fit.                                           *)

(* The mantissa and the exponent of the double that is w.                  *)
Exponent(w) == Precision - Bits[w]

LEMMA ExponentNatural ==
  ASSUME NEW w \in Nat \ {0}, w < Two[Precision]
  PROVE  Exponent(w) \in Nat
BY PrecisionAssumption, BitsWithin, BitsCounted DEF Exponent

LEMMA QuotientExact ==
  ASSUME NEW x \in Nat, NEW y \in Nat \ {0}
  PROVE  (x * y) \div y = x /\ (x * y) % y = 0
<1>1. x * y \in Int /\ x * y = y * x + 0
  OBVIOUS
<1> QED
  BY <1>1, SMTT(60)

LEMMA DoubleScaled ==
  ASSUME NEW w \in Nat \ {0}, NEW r \in Nat, NEW t \in Nat,
         NEW k \in Int, k = r + 2 - t
  PROVE  LET num == Shift2(w * Two[t], k)
             den == Shift2(1, -k)
         IN  num \div den = w * Two[r + 2] /\ num % den = 0
<1>q. PICK q : q = w * Two[r + 2]
  OBVIOUS
<1>1. q \in Nat
  BY <1>q, TwoValues
<1>2. CASE k >= 0
  <2>1. t + k = r + 2 /\ k \in Nat
    BY <1>2
  <2>2. Two[t] * Two[k] = Two[r + 2]
    BY <2>1, TwoSum
  <2>3. Two[t] \in Nat /\ Two[k] \in Nat
    BY <2>1, TwoValues
  <2>4. (w * Two[t]) * Two[k] = w * (Two[t] * Two[k])
    BY <2>3
  <2>5. Shift2(w * Two[t], k) = q
    BY <1>2, <1>q, <2>2, <2>4 DEF Shift2
  <2>6. Shift2(1, -k) = 1
    <3>1. -k >= 0 => -k = 0
      BY <1>2
    <3> QED
      BY <3>1, TwoValues DEF Shift2
  <2>7. q \div 1 = q /\ q % 1 = 0
    BY <1>1
  <2> QED
    BY <1>q, <2>5, <2>6, <2>7
<1>3. CASE k < 0
  <2>j. PICK j \in Nat : j = -k
    BY <1>3
  <2>1. t = (r + 2) + j
    BY <2>j
  <2>2. Two[t] = Two[r + 2] * Two[j]
    <3>s. PICK s \in Nat : s = r + 2
      OBVIOUS
    <3>1. Two[s + j] = Two[s] * Two[j]
      BY TwoSum
    <3> QED
      BY <2>1, <3>1, <3>s
  <2>3. Two[r + 2] \in Nat /\ Two[j] \in Nat \ {0}
    BY TwoValues
  <2>4. w * Two[t] = q * Two[j]
    BY <1>q, <2>2, <2>3
  <2>5. Shift2(w * Two[t], k) = q * Two[j]
    BY <1>3, <2>4 DEF Shift2
  <2>6. Shift2(1, -k) = Two[j]
    BY <1>3, <2>3, <2>j DEF Shift2
  <2>7. (q * Two[j]) \div Two[j] = q /\ (q * Two[j]) % Two[j] = 0
    BY <1>1, <2>3, QuotientExact
  <2> QED
    BY <1>q, <2>5, <2>6, <2>7
<1> QED
  BY <1>2, <1>3

LEMMA DoubleExact ==
  ASSUME NEW w \in Nat \ {0}, w < Two[Precision], NEW t \in Nat,
         NEW n \in Int, Abs(n) = w * Two[t]
  PROVE  Double(n, 1, -t) = [m |-> WithSign(n, w * Two[Exponent(w)]), e |-> -Exponent(w)]
<1>r. PICK r \in Nat : r = Exponent(w)
  BY ExponentNatural
<1>1. /\ Bits[w] \in Nat /\ Bits[w] = Precision - r
      /\ Bits[Abs(n)] = Bits[w] + t /\ w * Two[t] # 0
  <2>1. Bits[w * Two[t]] = Bits[w] + t /\ w * Two[t] # 0
    BY BitsShifted
  <2>2. Bits[w] \in Nat
    BY BitsCounted
  <2>3. Bits[w] = Precision - r
    BY <1>r, <2>2, PrecisionAssumption DEF Exponent
  <2> QED
    BY <2>1, <2>2, <2>3
<1>2. Bits[1] = 1
  BY BitsCounted
<1>k. PICK k : k = Precision + 1 + Bits[1] - Bits[Abs(n)]
  OBVIOUS
<1>3. k \in Int /\ k = r + 2 - t
  BY <1>1, <1>2, <1>k, PrecisionAssumption
<1>num. PICK num : num = Shift2(Abs(n), k)
  OBVIOUS
<1>den. PICK den : den = Shift2(1, -k)
  OBVIOUS
<1>q. PICK q : q = num \div den
  OBVIOUS
<1>4. q = w * Two[r + 2] /\ num % den = 0
  <2>1. num = Shift2(w * Two[t], k)
    BY <1>num
  <2> HIDE <1>num
  <2>2. LET a == Shift2(w * Two[t], k)
            b == Shift2(1, -k)
        IN  a \div b = w * Two[r + 2] /\ a % b = 0
    BY <1>3, DoubleScaled
  <2> QED
    BY <2>1, <2>2, <1>den, <1>q, Zenon
<1>5. Bits[q] - Precision = 2
  <2>1. Bits[q] = Bits[w] + (r + 2)
    BY <1>4, BitsShifted
  <2> QED
    BY <1>1, <2>1, PrecisionAssumption
<1>6. Two[r] \in Nat /\ Two[r + 2] = 4 * Two[r] /\ Two[2] = 4
  <2>1. Two[r + 2] = Two[r] * Two[2]
    BY TwoSum
  <2> QED
    BY <2>1, TwoValues
<1>x. PICK x : x = w * Two[r]
  OBVIOUS
<1>7. x \in Nat /\ q = 4 * x
  BY <1>4, <1>6, <1>x
<1>8. q \div 4 = x /\ q % 4 = 0
  BY <1>7
<1>10. n # 0
  BY <1>1 DEF Abs
<1>11. Double(n, 1, -t) = Cut(n, q, IF num % den = 0 THEN 0 ELSE 1, 2, -t - k)
  <2>1. Double(n, 1, -t)
          = Cut(n, q, IF num % den = 0 THEN 0 ELSE 1, Bits[q] - Precision, -t - k)
    BY <1>10, <1>k, <1>num, <1>den, <1>q, Zenon DEF Double
  <2> QED
    BY <1>5, <2>1, Zenon
<1>12. Double(n, 1, -t) = [m |-> WithSign(n, x), e |-> -t - k + 2]
  <2>1. Double(n, 1, -t) = Cut(n, q, 0, 2, -t - k)
    BY <1>4, <1>11, Zenon
  <2>2. q \div Two[2] = x /\ 2 * (q % Two[2]) + 0 = 0 /\ ~(0 > Two[2]) /\ 0 # Two[2]
    BY <1>6, <1>8
  <2> QED
    BY <2>1, <2>2, Zenon DEF Cut
<1>13. -t - k + 2 = -r
  BY <1>3
<1> QED
  BY <1>12, <1>13, <1>r, <1>x

LEMMA FromIntExact ==
  ASSUME NEW w \in Nat \ {0}, w < Two[Precision]
  PROVE  FromInt(w) = [m |-> w * Two[Exponent(w)], e |-> -Exponent(w)]
<1>t. PICK t \in Nat : t = 0
  OBVIOUS
<1>1. Abs(w) = w
  <2>1. ~(w < 0)
    OBVIOUS
  <2> QED
    BY <2>1 DEF Abs
<1>2. w * Two[t] = w /\ -t = 0
  <2>1. -t = 0 - t
    OBVIOUS
  <2>2. 0 - t = 0
    BY <1>t
  <2>3. w * Two[t] = w
    BY <1>t, TwoValues
  <2> QED
    BY <2>1, <2>2, <2>3, Zenon
<1>3. Double(w, 1, -t) = [m |-> WithSign(w, w * Two[Exponent(w)]), e |-> -Exponent(w)]
  BY <1>1, <1>2, DoubleExact
<1>4. WithSign(w, w * Two[Exponent(w)]) = w * Two[Exponent(w)]
  BY DEF WithSign
<1> QED
  BY <1>2, <1>3, <1>4 DEF FromInt

(* A product that fits is what it is.                                      *)
LEMMA ProductExact ==
  ASSUME NEW v \in Nat \ {0}, NEW w \in Nat \ {0}, v * w < Two[Precision]
  PROVE  Truncate(Times(FromInt(v), FromInt(w))) = v * w
<1>x. PICK x : x = v * w
  OBVIOUS
<1>1. x \in Nat \ {0} /\ v <= x /\ w <= x /\ x < Two[Precision]
  <2>1. \A a, b \in Nat \ {0} : a * b \in Nat \ {0} /\ a <= a * b /\ b <= a * b
    OBVIOUS
  <2> QED
    BY <1>x, <2>1
<1>2. v < Two[Precision] /\ w < Two[Precision]
  BY <1>1, PrecisionAssumption, TwoValues
<1>i. PICK i \in Nat : i = Exponent(v)
  BY <1>2, ExponentNatural
<1>j. PICK j \in Nat : j = Exponent(w)
  BY <1>2, ExponentNatural
<1>r. PICK r \in Nat : r = Exponent(x)
  BY <1>1, ExponentNatural
<1>3. FromInt(v) = [m |-> v * Two[i], e |-> -i] /\ FromInt(w) = [m |-> w * Two[j], e |-> -j]
  BY <1>2, <1>i, <1>j, FromIntExact
<1>a. PICK a : a = Two[i]
  OBVIOUS
<1>b. PICK b : b = Two[j]
  OBVIOUS
<1>c. PICK c : c = Two[r]
  OBVIOUS
<1>4. a \in Nat \ {0} /\ b \in Nat \ {0} /\ c \in Nat \ {0} /\ Two[i + j] = a * b
  BY <1>a, <1>b, <1>c, TwoValues, TwoSum
<1>n. PICK n : n = (v * a) * (w * b)
  OBVIOUS
<1>5. n = x * (a * b) /\ n \in Nat
  BY <1>4, <1>n, <1>x
<1>t. PICK t \in Nat : t = i + j
  OBVIOUS
<1>6. Times(FromInt(v), FromInt(w)) = Double(n, 1, -t)
  <2>1. -i + -j = -t
    BY <1>t
  <2> QED
    BY <1>3, <1>a, <1>b, <1>n, <2>1 DEF Times
<1>7. Abs(n) = x * Two[t]
  BY <1>4, <1>5, <1>t DEF Abs
<1>8. Double(n, 1, -t) = [m |-> x * c, e |-> -r]
  <2>1. Double(n, 1, -t) = [m |-> WithSign(n, x * Two[Exponent(x)]), e |-> -Exponent(x)]
    BY <1>1, <1>5, <1>7, DoubleExact
  <2>2. WithSign(n, x * Two[Exponent(x)]) = x * c
    BY <1>5, <1>r, <1>c DEF WithSign
  <2> QED
    BY <2>1, <2>2, <1>r
<1>9. Truncate([m |-> x * c, e |-> -r]) = x
  <2>1. x * c \in Nat /\ (x * c) \div c = x
    BY <1>1, <1>4, QuotientExact
  <2>2. CASE r = 0
    BY <1>1, <1>c, <2>2, TwoValues DEF Truncate
  <2>3. CASE r # 0
    <3>1. ~(-r >= 0) /\ -(-r) = r
      BY <2>3
    <3>2. Abs(x * c) = x * c /\ \A y : WithSign(x * c, y) = y
      BY <2>1 DEF Abs, WithSign
    <3> QED
      BY <1>c, <2>1, <3>1, <3>2 DEF Truncate
  <2> QED
    BY <2>2, <2>3
<1> QED
  BY <1>6, <1>8, <1>9, <1>x

-----------------------------------------------------------------------------
(* Prices as they are written.                                             *)

Prices == BidPrices \cup AskPrices

(* Every price fits a double, in the smallest unit.                        *)
PricesFit == \A p \in Prices : p < Two[Precision]

Written(n) ==
  /\ n = Number(n.significand, n.exponent)
  /\ n.exponent \in Int /\ n.exponent >= MinExponent
  /\ n.significand \in Nat \ {0}
  /\ Units(n) \in Prices

LEMMA PricesType == Prices \subseteq Nat \ {0}
BY MarketAssumption DEF Prices

LEMMA WritingIsWritten ==
  ASSUME NEW p \in Prices, NEW n \in Writings(p)
  PROVE  Written(n) /\ Units(n) = p
<1>x. PICK x \in Exponents : p % UnitsPer(x) = 0 /\ n = Number(p \div UnitsPer(x), x)
  BY DEF Writings
<1>1. x \in Int /\ x >= MinExponent /\ p \in Nat \ {0}
  BY MarketAssumption, PricesType
<1>u. PICK u : u = UnitsPer(x)
  OBVIOUS
<1>2. u \in Nat \ {0}
  BY <1>1, <1>u, TenPowers, MarketAssumption DEF UnitsPer
<1>s. PICK s : s = p \div u
  OBVIOUS
<1>3. s \in Nat \ {0} /\ s * u = p
  BY <1>1, <1>2, <1>s, <1>u, <1>x
<1>4. n = Number(s, x) /\ n.significand = s /\ n.exponent = x
  BY <1>s, <1>u, <1>x DEF Number
<1>5. Units(n) = p
  BY <1>3, <1>4, <1>u DEF Units
<1> QED
  BY <1>1, <1>3, <1>4, <1>5 DEF Written

(* operator< compares by value.                                            *)
LEMMA ScaledFits ==
  ASSUME PricesFit, NEW n, Written(n), NEW r, Written(r),
         NEW k \in Nat, n.exponent = r.exponent + k
  PROVE  /\ Truncate(Times(FromInt(n.significand), FromInt(Ten[k])))
              = n.significand * Ten[k]
         /\ Units(n) = (n.significand * Ten[k]) * UnitsPer(r.exponent)
         /\ UnitsPer(r.exponent) \in Nat \ {0}
<1>s. PICK s \in Nat \ {0} : s = n.significand
  BY DEF Written
<1>j. PICK j \in Nat : j = r.exponent - MinExponent
  BY MarketAssumption DEF Written
<1>1. n.exponent - MinExponent = k + j
  BY <1>j, MarketAssumption DEF Written
<1>a. PICK a : a = Ten[k]
  OBVIOUS
<1>b. PICK b : b = Ten[j]
  OBVIOUS
<1>2. a \in Nat \ {0} /\ b \in Nat \ {0} /\ Ten[k + j] = a * b
  BY <1>a, <1>b, TenPowers, TenSum
<1>3. UnitsPer(r.exponent) = b
  BY <1>b, <1>j DEF UnitsPer
<1>4. Units(n) = s * (a * b)
  BY <1>1, <1>2, <1>s DEF Units, UnitsPer
<1>5. s * (a * b) = (s * a) * b /\ s * a \in Nat /\ s * a <= (s * a) * b
  BY <1>2
<1>6. Units(n) \in Nat /\ Units(n) < Two[Precision]
  BY PricesType DEF Written, PricesFit
<1>7. s * a < Two[Precision]
  BY <1>4, <1>5, <1>6, PrecisionAssumption, TwoValues
<1>8. Truncate(Times(FromInt(s), FromInt(a))) = s * a
  BY <1>2, <1>7, ProductExact
<1> QED
  BY <1>2, <1>3, <1>4, <1>5, <1>8, <1>a, <1>s

LEMMA LessByValue ==
  ASSUME PricesFit, NEW n, Written(n), NEW r, Written(r)
  PROVE  Less(n, r) <=> Units(n) < Units(r)
<1>d. PICK diff : diff = n.exponent - r.exponent
  OBVIOUS
<1>1. n.exponent \in Int /\ r.exponent \in Int /\ diff \in Int
  BY <1>d DEF Written
<1>2. n.significand \in Nat /\ r.significand \in Nat
  BY DEF Written
<1>3. \A x, y \in Nat, u \in Nat \ {0} : x < y <=> x * u < y * u
  OBVIOUS
<1>4. CASE diff = 0
  <2>1. Less(n, r) <=> n.significand < r.significand
    <3>1. /\ n.exponent - r.exponent = 0
          /\ ~(n.exponent - r.exponent > 0) /\ ~(n.exponent - r.exponent < 0)
      BY <1>1, <1>d, <1>4
    <3> QED
      BY <3>1, Zenon DEF Less
  <2>2. UnitsPer(r.exponent) \in Nat \ {0}
    BY <1>1, MarketAssumption, TenPowers DEF UnitsPer, Written
  <2>3. n.exponent = r.exponent
    BY <1>1, <1>4, <1>d
  <2> QED
    BY <1>2, <1>3, <2>1, <2>2, <2>3 DEF Units
<1>5. CASE diff > 0
  <2>1. Less(n, r) <=>
          Truncate(Times(FromInt(n.significand), FromInt(Ten[diff]))) < r.significand
    <3>1. /\ n.exponent - r.exponent > 0
          /\ n.exponent - r.exponent # 0 /\ ~(n.exponent - r.exponent < 0)
      BY <1>1, <1>d, <1>5
    <3> QED
      BY <1>d, <3>1, Zenon DEF Less
  <2>k. PICK k \in Nat : k = diff
    BY <1>1, <1>5
  <2>2. n.exponent = r.exponent + k
    BY <1>1, <1>d, <2>k
  <2>s. PICK s : s = n.significand * Ten[k]
    OBVIOUS
  <2>3. s \in Nat
    BY <1>2, <2>s, TenPowers
  <2>4. /\ Truncate(Times(FromInt(n.significand), FromInt(Ten[k]))) = s
        /\ Units(n) = s * UnitsPer(r.exponent) /\ UnitsPer(r.exponent) \in Nat \ {0}
    BY <2>2, <2>s, ScaledFits
  <2> QED
    BY <1>2, <1>3, <2>1, <2>3, <2>4, <2>k DEF Units
<1>6. CASE diff < 0
  <2>1. Less(n, r) <=>
          n.significand < Truncate(Times(FromInt(r.significand), FromInt(Ten[-diff])))
    BY <1>1, <1>d, <1>6 DEF Less
  <2>k. PICK k \in Nat : k = -diff
    BY <1>1, <1>6
  <2>2. r.exponent = n.exponent + k
    BY <1>1, <1>d, <2>k
  <2>s. PICK s : s = r.significand * Ten[k]
    OBVIOUS
  <2>3. s \in Nat
    BY <1>2, <2>s, TenPowers
  <2>4. /\ Truncate(Times(FromInt(r.significand), FromInt(Ten[k]))) = s
        /\ Units(r) = s * UnitsPer(n.exponent) /\ UnitsPer(n.exponent) \in Nat \ {0}
    BY <2>2, <2>s, ScaledFits
  <2> QED
    BY <1>2, <1>3, <2>1, <2>3, <2>4, <2>k DEF Units
<1> QED
  BY <1>1, <1>4, <1>5, <1>6

-----------------------------------------------------------------------------
(* The levels of a side of the book, and what a list of items says of them.*)

Levels(set) == {Units(n) : n \in set}

(* No price is there twice.                                                *)
Single(set, P) ==
  /\ set \subseteq WritingsOf(P)
  /\ \A m, n \in set : Units(m) = Units(n) => m = n

ItemType(P) == [price : WritingsOf(P), quantity : {0, 1}]

About(items, i, p) == Units(items[i].price) = p

Listing(items, P) ==
  /\ items \in Seq(ItemType(P))
  /\ \A i, j \in DOMAIN items :
       Units(items[i].price) = Units(items[j].price) => i = j

EntersBy(items, i, p) ==
  \E j \in 1..i : About(items, j, p) /\ items[j].quantity > 0

LeavesBy(items, i, p) ==
  \E j \in 1..i : About(items, j, p) /\ ~(items[j].quantity > 0)

Enters(items, p) == EntersBy(items, Len(items), p)

Leaves(items, p) == LeavesBy(items, Len(items), p)

LEMMA WritingsWritten ==
  ASSUME NEW P, P \subseteq Prices, NEW n \in WritingsOf(P)
  PROVE  Written(n) /\ Units(n) \in P
BY WritingIsWritten DEF WritingsOf

LEMMA EquivalentByValue ==
  ASSUME PricesFit, NEW P, P \subseteq Prices,
         NEW m \in WritingsOf(P), NEW n \in WritingsOf(P)
  PROVE  Equivalent(m, n) <=> Units(m) = Units(n)
<1>1. Units(m) \in Nat /\ Units(n) \in Nat
  BY WritingsWritten, PricesType
<1>2. /\ Less(m, n) <=> Units(m) < Units(n)
      /\ Less(n, m) <=> Units(n) < Units(m)
  BY WritingsWritten, LessByValue
<1> QED
  BY <1>1, <1>2 DEF Equivalent

LEMMA InsertLevel ==
  ASSUME PricesFit, NEW P, P \subseteq Prices, NEW set, Single(set, P),
         NEW n \in WritingsOf(P)
  PROVE  /\ Single(Insert(set, n), P)
         /\ Levels(Insert(set, n)) = Levels(set) \cup {Units(n)}
<1>1. \A m \in set : Equivalent(m, n) <=> Units(m) = Units(n)
  BY EquivalentByValue DEF Single
<1>2. CASE \E m \in set : Equivalent(m, n)
  <2>1. Insert(set, n) = set /\ Units(n) \in Levels(set)
    BY <1>1, <1>2 DEF Insert, Levels
  <2> QED
    BY <2>1
<1>3. CASE ~\E m \in set : Equivalent(m, n)
  <2>1. Insert(set, n) = set \cup {n} /\ \A m \in set : Units(m) # Units(n)
    BY <1>1, <1>3 DEF Insert
  <2>2. Single(set \cup {n}, P)
    BY <2>1 DEF Single
  <2>3. Levels(set \cup {n}) = Levels(set) \cup {Units(n)}
    BY DEF Levels
  <2> QED
    BY <2>1, <2>2, <2>3
<1> QED
  BY <1>2, <1>3

LEMMA EraseLevel ==
  ASSUME PricesFit, NEW P, P \subseteq Prices, NEW set, Single(set, P),
         NEW n \in WritingsOf(P)
  PROVE  /\ Single(Erase(set, n), P)
         /\ Levels(Erase(set, n)) = Levels(set) \ {Units(n)}
<1>1. \A m \in set : Equivalent(m, n) <=> Units(m) = Units(n)
  BY EquivalentByValue DEF Single
<1>2. Erase(set, n) = {m \in set : Units(m) # Units(n)}
  BY <1>1 DEF Erase
<1>3. Single({m \in set : Units(m) # Units(n)}, P)
  BY DEF Single
<1>4. Levels({m \in set : Units(m) # Units(n)}) = Levels(set) \ {Units(n)}
  BY DEF Levels
<1> QED
  BY <1>2, <1>3, <1>4

LEMMA ItemTyped ==
  ASSUME NEW P, NEW items, Listing(items, P), NEW i \in 1..Len(items)
  PROVE  items[i].price \in WritingsOf(P) /\ items[i].quantity \in {0, 1}
<1>1. items[i] \in ItemType(P)
  <2> HIDE DEF ItemType
  <2> QED
    BY DEF Listing
<1> QED
  BY <1>1 DEF ItemType

AfterOf(set, items, f) == f = [i \in 0..Len(items) |->
  IF i = 0 THEN set
  ELSE IF items[i].quantity > 0 THEN Insert(f[i - 1], items[i].price)
                                ELSE Erase(f[i - 1], items[i].price)]

LEMMA AfterExists ==
  ASSUME PricesFit, NEW P, P \subseteq Prices, NEW set, Single(set, P),
         NEW items, Listing(items, P)
  PROVE  \E f : AfterOf(set, items, f)
<1> DEFINE D == 0..Len(items)
           S == SUBSET WritingsOf(P)
           p == [i \in D \ {0} |-> i - 1]
           step(i, s) == IF items[i].quantity > 0 THEN Insert(s, items[i].price)
                                                  ELSE Erase(s, items[i].price)
           G == [x \in D \X S |-> IF x[1] = 0 THEN x[2] ELSE step(x[1], x[2])]
<1>1. Len(items) \in Nat /\ DOMAIN items = 1..Len(items) /\ D \subseteq Nat
  BY DEF Listing
<1>2. Descends(D, p)
  BY <1>1 DEF Descends
<1>3. ASSUME NEW i \in D, NEW s \in S, i # 0
      PROVE  step(i, s) \in S
  <2>1. items[i].price \in WritingsOf(P)
    <3>1. i \in 1..Len(items)
      BY <1>1, <1>3
    <3> QED
      BY <3>1, ItemTyped
  <2> QED
    BY <2>1 DEF Insert, Erase
<1>4. G \in [D \X S -> S]
  <2> HIDE DEF S, D, step
  <2> QED
    BY <1>3
<1>5. set \in S
  BY DEF Single
<1>6. \E f \in [D -> S] : Recurs(D, set, p, G, f)
  <2> HIDE DEF p, G, S, D
  <2> QED
    BY <1>1, <1>2, <1>4, <1>5, Recursion
<1>7. PICK f \in [D -> S] : Recurs(D, set, p, G, f)
  BY <1>6
<1>8. ASSUME NEW i \in D
      PROVE  f[i] = IF i = 0 THEN set ELSE step(i, f[i - 1])
  <2>1. f[i] = IF i = 0 THEN set ELSE G[i, f[p[i]]]
    BY <1>7 DEF Recurs
  <2>2. i # 0 => p[i] = i - 1 /\ i - 1 \in D
    BY <1>1
  <2>3. i # 0 => G[i, f[i - 1]] = step(i, f[i - 1])
    <3> HIDE DEF S, D, step
    <3> QED
      BY <1>7, <2>2
  <2> HIDE DEF p, G, step
  <2> QED
    BY <2>1, <2>2, <2>3
<1>9. AfterOf(set, items, f)
  BY <1>7, <1>8 DEF AfterOf
<1> QED
  BY <1>9

(* What a message makes of the set of a side: the levels it enters, and    *)
(* of those that were there the ones it does not take.                     *)
LevelsAfter(s, set, items, i, P) ==
  /\ Single(s, P)
  /\ \A q : q \in Levels(s) <=>
       EntersBy(items, i, q) \/ (q \in Levels(set) /\ ~LeavesBy(items, i, q))

LEMMA StepLevels ==
  ASSUME PricesFit, NEW P, P \subseteq Prices, NEW set, NEW items, Listing(items, P),
         NEW i \in 1..Len(items), NEW s, LevelsAfter(s, set, items, i - 1, P)
  PROVE  LevelsAfter(IF items[i].quantity > 0 THEN Insert(s, items[i].price)
                                              ELSE Erase(s, items[i].price),
                     set, items, i, P)
<1>1. Len(items) \in Nat /\ DOMAIN items = 1..Len(items) /\ i \in Nat
  BY DEF Listing
<1>n. PICK n \in WritingsOf(P) : n = items[i].price
  BY ItemTyped
<1>2. \A q : About(items, i, q) <=> q = Units(n)
  BY <1>n DEF About
<1>3. ASSUME NEW q
      PROVE  /\ EntersBy(items, i, q) <=>
                  EntersBy(items, i - 1, q) \/ (q = Units(n) /\ items[i].quantity > 0)
             /\ LeavesBy(items, i, q) <=>
                  LeavesBy(items, i - 1, q) \/ (q = Units(n) /\ ~(items[i].quantity > 0))
  <2>1. 1..i = (1..i-1) \cup {i}
    BY <1>1
  <2> QED
    BY <1>2, <2>1 DEF EntersBy, LeavesBy
<1>4. ~EntersBy(items, i - 1, Units(n)) /\ ~LeavesBy(items, i - 1, Units(n))
  <2>1. \A j \in 1..i-1 : j \in DOMAIN items /\ i \in DOMAIN items /\ i # j
    BY <1>1
  <2>2. \A j \in 1..i-1 : ~About(items, j, Units(n))
    BY <2>1, <1>n DEF About, Listing
  <2> QED
    BY <2>2 DEF EntersBy, LeavesBy
<1>5. CASE items[i].quantity > 0
  <2>1. /\ Single(Insert(s, n), P)
        /\ Levels(Insert(s, n)) = Levels(s) \cup {Units(n)}
    BY InsertLevel DEF LevelsAfter
  <2> QED
    BY <1>3, <1>4, <1>5, <1>n, <2>1 DEF LevelsAfter
<1>6. CASE ~(items[i].quantity > 0)
  <2>1. /\ Single(Erase(s, n), P)
        /\ Levels(Erase(s, n)) = Levels(s) \ {Units(n)}
    BY EraseLevel DEF LevelsAfter
  <2> QED
    BY <1>3, <1>4, <1>6, <1>n, <2>1 DEF LevelsAfter
<1> QED
  BY <1>5, <1>6

LEMMA Applied ==
  ASSUME PricesFit, NEW P, P \subseteq Prices, NEW set, Single(set, P),
         NEW items, Listing(items, P)
  PROVE  /\ Single(Apply(set, items), P)
         /\ \A q : q \in Levels(Apply(set, items)) <=>
              Enters(items, q) \/ (q \in Levels(set) /\ ~Leaves(items, q))
<1>f. PICK f : f = CHOOSE g : AfterOf(set, items, g)
  OBVIOUS
<1>1. AfterOf(set, items, f)
  BY <1>f, AfterExists
<1>2. Apply(set, items) = f[Len(items)]
  BY <1>f, Zenon DEF Apply, AfterOf
<1>3. Len(items) \in Nat
  BY DEF Listing
<1> DEFINE T == {i \in Nat : i <= Len(items) => LevelsAfter(f[i], set, items, i, P)}
<1>4. 0 \in T
  <2>1. f[0] = set
    BY <1>1, <1>3 DEF AfterOf
  <2>2. \A q : ~EntersBy(items, 0, q) /\ ~LeavesBy(items, 0, q)
    BY DEF EntersBy, LeavesBy
  <2> QED
    BY <2>1, <2>2 DEF LevelsAfter
<1>5. ASSUME NEW i \in Nat, i \in T
      PROVE  i + 1 \in T
  <2> SUFFICES ASSUME i + 1 <= Len(items)
               PROVE  LevelsAfter(f[i + 1], set, items, i + 1, P)
    OBVIOUS
  <2>k. PICK k : k = i + 1
    OBVIOUS
  <2>1. k \in 1..Len(items) /\ k - 1 = i /\ k # 0 /\ i <= Len(items)
    BY <1>3, <2>k
  <2>2. f[k] = IF items[k].quantity > 0 THEN Insert(f[k - 1], items[k].price)
                                        ELSE Erase(f[k - 1], items[k].price)
    BY <1>1, <1>3, <2>1 DEF AfterOf
  <2>3. LevelsAfter(f[k - 1], set, items, k - 1, P)
    BY <1>5, <2>1
  <2> HIDE DEF T
  <2>4. LevelsAfter(f[k], set, items, k, P)
    BY <2>1, <2>2, <2>3, StepLevels
  <2> QED
    BY <2>4, <2>k
<1>6. Nat \subseteq T
  <2> HIDE DEF T
  <2> QED
    BY <1>4, <1>5, Induction
<1>7. LevelsAfter(f[Len(items)], set, items, Len(items), P)
  BY <1>3, <1>6
<1> QED
  BY <1>2, <1>7 DEF LevelsAfter, Enters, Leaves

-----------------------------------------------------------------------------
(* Listings of a set of prices.                                            *)

LEMMA SequenceOfSet ==
  ASSUME NEW S, IsFiniteSet(S)
  PROVE  /\ SetToSeq(S) \in Seq(S)
         /\ \A i, j \in DOMAIN SetToSeq(S) : SetToSeq(S)[i] = SetToSeq(S)[j] => i = j
         /\ \A x \in S : \E i \in DOMAIN SetToSeq(S) : SetToSeq(S)[i] = x
<1>n. PICK n \in Nat : n = Cardinality(S)
  BY FS_CardinalityType
<1>s. PICK s : s = SetToSeq(S)
  OBVIOUS
<1>1. \E f \in [1..n -> S] : IsInjective(f)
  BY <1>n, FS_CardinalityType DEF ExistsBijection, Bijection, Injection
<1>2. s \in [1..n -> S] /\ IsInjective(s)
  <2>1. s = CHOOSE f \in [1..n -> S] : IsInjective(f)
    BY <1>n, <1>s DEF SetToSeq
  <2> QED
    BY <1>1, <2>1
<1>3. s \in Surjection(1..n, S)
  <2>1. s \in Injection(1..n, S)
    BY <1>2 DEF Injection
  <2>2. Cardinality(1..n) = n
    BY FS_Interval
  <2> QED
    BY <1>n, <2>1, <2>2, FS_Injection
<1>4. \A x \in S : \E i \in 1..n : s[i] = x
  BY <1>3 DEF Surjection
<1>5. s \in Seq(S) /\ DOMAIN s = 1..n
  BY <1>2
<1> QED
  BY <1>2, <1>4, <1>5, <1>s DEF IsInjective

(* A snapshot lists each level once.                                       *)
LEMMA ListingOfLevels ==
  ASSUME NEW P, P \subseteq Prices, NEW prices, prices \subseteq P, IsFiniteSet(prices),
         NEW items \in Listings(prices)
  PROVE  /\ Listing(items, P)
         /\ \A q : (Enters(items, q) <=> q \in prices) /\ ~Leaves(items, q)
<1>f. PICK f \in [prices -> UNION {Writings(p) : p \in prices}] :
        /\ \A p \in prices : f[p] \in Writings(p)
        /\ items = SetToSeq({Item(f[p], 1) : p \in prices})
  BY DEF Listings
<1> PICK S : S = {Item(f[p], 1) : p \in prices}
  OBVIOUS
<1>1. \A p \in prices : f[p] \in WritingsOf(P) /\ Units(f[p]) = p
  BY <1>f, WritingIsWritten DEF WritingsOf
<1>2. IsFiniteSet(S)
  <2> DEFINE g == [p \in prices |-> Item(f[p], 1)]
  <2>1. g \in Surjection(prices, S)
    BY DEF Surjection
  <2> HIDE DEF g
  <2> QED
    BY <2>1, FS_Surjection
<1>3. /\ items \in Seq(S)
      /\ \A i, j \in DOMAIN items : items[i] = items[j] => i = j
      /\ \A x \in S : \E i \in DOMAIN items : items[i] = x
  BY <1>2, <1>f, SequenceOfSet
<1>4. DOMAIN items = 1..Len(items) /\ \A i \in DOMAIN items : items[i] \in S
  BY <1>3
<1>5. S \subseteq ItemType(P)
  BY <1>1 DEF ItemType, Item
<1>6. items \in Seq(ItemType(P))
  BY <1>3, <1>5
<1>7. ASSUME NEW i \in DOMAIN items
      PROVE  \E p \in prices : items[i] = Item(f[p], 1) /\ Units(items[i].price) = p
                                 /\ items[i].quantity = 1
  BY <1>1, <1>4 DEF Item
<1>8. \A i, j \in DOMAIN items : Units(items[i].price) = Units(items[j].price) => i = j
  BY <1>3, <1>7
<1>9. ASSUME NEW q
      PROVE  (Enters(items, q) <=> q \in prices) /\ ~Leaves(items, q)
  <2>1. ~Leaves(items, q)
    BY <1>4, <1>7 DEF Leaves, LeavesBy
  <2>2. Enters(items, q) => q \in prices
    BY <1>4, <1>7 DEF Enters, EntersBy, About
  <2>3. ASSUME q \in prices
        PROVE  Enters(items, q)
    <3>1. PICK i \in DOMAIN items : items[i] = Item(f[q], 1)
      BY <1>3, <2>3
    <3>2. Units(items[i].price) = q /\ items[i].quantity > 0
      BY <1>1, <2>3, <3>1 DEF Item
    <3> QED
      BY <1>4, <3>2 DEF Enters, EntersBy, About
  <2> QED
    BY <2>1, <2>2, <2>3
<1> QED
  BY <1>6, <1>8, <1>9 DEF Listing

LEMMA ListingOfOne ==
  ASSUME NEW P, P \subseteq Prices, NEW p \in P, NEW n \in Writings(p),
         NEW quantity \in {0, 1}
  PROVE  LET items == <<Item(n, quantity)>>
         IN  /\ Listing(items, P)
             /\ \A q : /\ Enters(items, q) <=> q = p /\ quantity = 1
                       /\ Leaves(items, q) <=> q = p /\ quantity = 0
<1>i. PICK items : items = <<Item(n, quantity)>>
  OBVIOUS
<1>1. n \in WritingsOf(P) /\ Units(n) = p
  BY WritingIsWritten DEF WritingsOf
<1>2. /\ Len(items) = 1 /\ DOMAIN items = {1} /\ 1..1 = {1}
      /\ items[1].price = n /\ items[1].quantity = quantity
  BY <1>i DEF Item
<1>3. Item(n, quantity) \in ItemType(P)
  BY <1>1 DEF Item, ItemType
<1>4. items \in Seq(ItemType(P))
  BY <1>3, <1>i
<1>5. Listing(items, P)
  BY <1>2, <1>4 DEF Listing
<1>6. \A q : /\ Enters(items, q) <=> q = p /\ quantity = 1
             /\ Leaves(items, q) <=> q = p /\ quantity = 0
  BY <1>1, <1>2 DEF Enters, EntersBy, Leaves, LeavesBy, About
<1> QED
  BY <1>5, <1>6, <1>i

LEMMA ListingOfNone ==
  ASSUME NEW P
  PROVE  Listing(<<>>, P) /\ \A q : ~Enters(<<>>, q) /\ ~Leaves(<<>>, q)
<1>1. <<>> \in Seq(ItemType(P)) /\ Len(<<>>) = 0 /\ DOMAIN <<>> = {} /\ 1..0 = {}
  BY EmptySeq
<1> QED
  BY <1>1 DEF Listing, Enters, EntersBy, Leaves, LeavesBy

-----------------------------------------------------------------------------
(* A side of the book and what the robot will have made of it: the last    *)
(* message on the wire that speaks of a price is right about it, and where *)
(* there is none, the robot's set is.                                      *)
Silent(items, q) == ~Enters(items, q) /\ ~Leaves(items, q)

InSync(w, side, prices, set, P) ==
  /\ Single(set, P)
  /\ \A k \in DOMAIN w : Listing(w[k][side], P)
  /\ \A q :
       /\ \A k \in DOMAIN w :
            /\ Enters(w[k][side], q)
            /\ \A j \in DOMAIN w : j > k => ~Leaves(w[j][side], q)
            => q \in prices
       /\ \A k \in DOMAIN w :
            /\ Leaves(w[k][side], q)
            /\ \A j \in DOMAIN w : j > k => ~Enters(w[j][side], q)
            => q \notin prices
       /\ (\A k \in DOMAIN w : Silent(w[k][side], q))
            => (q \in prices <=> q \in Levels(set))

LEMMA SaysOnce ==
  ASSUME NEW P, NEW items, Listing(items, P), NEW q
  PROVE  ~(Enters(items, q) /\ Leaves(items, q))
<1>1. Len(items) \in Nat /\ DOMAIN items = 1..Len(items)
  BY DEF Listing
<1> QED
  BY <1>1 DEF Enters, EntersBy, Leaves, LeavesBy, About, Listing

LEMMA SyncSubscribed ==
  ASSUME NEW P, NEW side, NEW m, Listing(m[side], P), NEW prices,
         \A q : (Enters(m[side], q) <=> q \in prices) /\ ~Leaves(m[side], q)
  PROVE  InSync(<<m>>, side, prices, {}, P)
<1> PICK w : w = <<m>>
  OBVIOUS
<1>1. DOMAIN w = {1} /\ w[1] = m
  OBVIOUS
<1>2. Single({}, P) /\ Levels({}) = {}
  BY DEF Single, Levels
<1> QED
  BY <1>1, <1>2 DEF InSync, Silent

LEMMA SyncChanged ==
  ASSUME NEW M, NEW w \in Seq(M), NEW P, NEW side, NEW m \in M, Listing(m[side], P),
         NEW old, NEW set, InSync(w, side, old, set, P), NEW prices,
         \A q : /\ Enters(m[side], q) => q \in prices
                /\ Leaves(m[side], q) => q \notin prices
                /\ Silent(m[side], q) => (q \in prices <=> q \in old)
  PROVE  InSync(Append(w, m), side, prices, set, P)
<1>v. PICK v : v = Append(w, m)
  OBVIOUS
<1>n. PICK n : n = Len(w) + 1
  OBVIOUS
<1>1. /\ n \in Nat /\ DOMAIN v = 1..n /\ DOMAIN w = 1..n-1
      /\ v[n] = m /\ \A k \in DOMAIN w : v[k] = w[k] /\ n > k /\ k \in DOMAIN v
      /\ \A k \in DOMAIN v : k \in DOMAIN w \/ k = n
  BY <1>n, <1>v
<1>2. \A k \in DOMAIN v : Listing(v[k][side], P)
  BY <1>1 DEF InSync
<1>3. ASSUME NEW q, NEW k \in DOMAIN v, Enters(v[k][side], q),
             \A j \in DOMAIN v : j > k => ~Leaves(v[j][side], q)
      PROVE  q \in prices
  <2>1. CASE k = n
    BY <1>1, <1>3, <2>1
  <2>2. CASE k \in DOMAIN w
    <3>1. ~Leaves(m[side], q)
      BY <1>1, <1>3, <2>2
    <3>2. q \in old
      <4>1. \A j \in DOMAIN w : j > k => ~Leaves(w[j][side], q)
        BY <1>1, <1>3
      <4>2. Enters(w[k][side], q)
        BY <1>1, <1>3, <2>2
      <4> QED
        BY <2>2, <4>1, <4>2 DEF InSync
    <3> QED
      BY <3>1, <3>2 DEF Silent
  <2> QED
    BY <1>1, <2>1, <2>2
<1>4. ASSUME NEW q, NEW k \in DOMAIN v, Leaves(v[k][side], q),
             \A j \in DOMAIN v : j > k => ~Enters(v[j][side], q)
      PROVE  q \notin prices
  <2>1. CASE k = n
    BY <1>1, <1>4, <2>1
  <2>2. CASE k \in DOMAIN w
    <3>1. ~Enters(m[side], q)
      BY <1>1, <1>4, <2>2
    <3>2. q \notin old
      <4>1. \A j \in DOMAIN w : j > k => ~Enters(w[j][side], q)
        BY <1>1, <1>4
      <4>2. Leaves(w[k][side], q)
        BY <1>1, <1>4, <2>2
      <4> QED
        BY <2>2, <4>1, <4>2 DEF InSync
    <3> QED
      BY <3>1, <3>2 DEF Silent
  <2> QED
    BY <1>1, <2>1, <2>2
<1>5. ASSUME NEW q, \A k \in DOMAIN v : Silent(v[k][side], q)
      PROVE  q \in prices <=> q \in Levels(set)
  <2>1. Silent(m[side], q)
    <3>1. n \in DOMAIN v /\ v[n] = m
      <4>1. n \in Nat \ {0} /\ n \in 1..n
        BY <1>n
      <4> QED
        BY <1>1, <4>1
    <3> QED
      BY <1>5, <3>1
  <2>3. ASSUME NEW k \in DOMAIN w
        PROVE  Silent(w[k][side], q)
    <3>1. k \in DOMAIN v /\ v[k] = w[k]
      BY <1>1
    <3> QED
      BY <1>5, <3>1
  <2>2. q \in old <=> q \in Levels(set)
    BY <2>3 DEF InSync
  <2> QED
    BY <2>1, <2>2
<1> QED
  BY <1>2, <1>3, <1>4, <1>5, <1>v DEF InSync

LEMMA SyncRead ==
  ASSUME PricesFit, NEW M, NEW w \in Seq(M), w # <<>>,
         NEW P, P \subseteq Prices, NEW side,
         NEW prices, NEW set, InSync(w, side, prices, set, P)
  PROVE  InSync(Tail(w), side, prices, Apply(set, Head(w)[side]), P)
<1>v. PICK v : v = Tail(w)
  OBVIOUS
<1>i. PICK items : items = w[1][side]
  OBVIOUS
<1>s. PICK s : s = Apply(set, items)
  OBVIOUS
<1>1. /\ DOMAIN v = 1..Len(w)-1 /\ DOMAIN w = 1..Len(w) /\ Len(w) \in Nat \ {0}
      /\ \A k \in DOMAIN v : v[k] = w[k + 1] /\ k + 1 \in DOMAIN w
      /\ \A k \in DOMAIN w : k > 1 => k - 1 \in DOMAIN v /\ v[k - 1] = w[k]
      /\ 1 \in DOMAIN w /\ Head(w) = w[1]
  BY <1>v
<1>2. Listing(items, P) /\ Single(set, P)
  BY <1>1, <1>i DEF InSync
<1>3. /\ Single(s, P)
      /\ \A q : q \in Levels(s) <=> Enters(items, q) \/ (q \in Levels(set) /\ ~Leaves(items, q))
  BY <1>2, <1>s, Applied
<1>4. \A k \in DOMAIN v : Listing(v[k][side], P)
  BY <1>1 DEF InSync
<1>5. ASSUME NEW q, NEW k \in DOMAIN v, Enters(v[k][side], q),
             \A j \in DOMAIN v : j > k => ~Leaves(v[j][side], q)
      PROVE  q \in prices
  <2>1. ASSUME NEW j \in DOMAIN w, j > k + 1
        PROVE  ~Leaves(w[j][side], q)
    <3>1. j - 1 \in DOMAIN v /\ v[j - 1] = w[j] /\ j - 1 > k
      BY <1>1, <2>1
    <3> QED
      BY <1>5, <3>1
  <2>2. k + 1 \in DOMAIN w /\ Enters(w[k + 1][side], q)
    BY <1>1, <1>5
  <2> QED
    BY <2>1, <2>2 DEF InSync
<1>6. ASSUME NEW q, NEW k \in DOMAIN v, Leaves(v[k][side], q),
             \A j \in DOMAIN v : j > k => ~Enters(v[j][side], q)
      PROVE  q \notin prices
  <2>1. ASSUME NEW j \in DOMAIN w, j > k + 1
        PROVE  ~Enters(w[j][side], q)
    <3>1. j - 1 \in DOMAIN v /\ v[j - 1] = w[j] /\ j - 1 > k
      BY <1>1, <2>1
    <3> QED
      BY <1>6, <3>1
  <2>2. k + 1 \in DOMAIN w /\ Leaves(w[k + 1][side], q)
    BY <1>1, <1>6
  <2> QED
    BY <2>1, <2>2 DEF InSync
<1>7. ASSUME NEW q, \A k \in DOMAIN v : Silent(v[k][side], q)
      PROVE  q \in prices <=> q \in Levels(s)
  <2>1. \A j \in DOMAIN w : j > 1 => Silent(w[j][side], q)
    <3>1. \A j \in DOMAIN w : j > 1 => j - 1 \in DOMAIN v /\ v[j - 1] = w[j]
      BY <1>1
    <3> QED
      BY <1>7, <3>1
  <2>2. CASE Enters(items, q)
    <3>1. q \in prices
      BY <1>1, <1>i, <2>1, <2>2 DEF InSync, Silent
    <3> QED
      BY <1>3, <2>2, <3>1
  <2>3. CASE Leaves(items, q)
    <3>1. q \notin prices
      BY <1>1, <1>i, <2>1, <2>3 DEF InSync, Silent
    <3>2. ~Enters(items, q)
      BY <1>2, <2>3, SaysOnce
    <3> QED
      BY <1>3, <2>3, <3>1, <3>2
  <2>4. CASE Silent(items, q)
    <3>1. \A j \in DOMAIN w : Silent(w[j][side], q)
      <4>1. \A j \in DOMAIN w : j > 1 \/ j = 1
        BY <1>1
      <4> QED
        BY <1>i, <2>1, <2>4, <4>1
    <3>2. q \in prices <=> q \in Levels(set)
      BY <3>1 DEF InSync
    <3> QED
      BY <1>3, <2>4, <3>2 DEF Silent
  <2> QED
    BY <2>2, <2>3, <2>4 DEF Silent
<1>8. InSync(v, side, prices, s, P)
  BY <1>3, <1>4, <1>5, <1>6, <1>7 DEF InSync
<1> QED
  BY <1>1, <1>8, <1>i, <1>s, <1>v


-----------------------------------------------------------------------------
(* The ends of a set.                                                      *)
LEMMA FiniteMax ==
  ASSUME NEW S, S \subseteq Nat, S # {}, IsFiniteSet(S)
  PROVE  \E x \in S : \A y \in S : y <= x
<1> DEFINE Above(x) == {y \in S : y > x}
           T == {Cardinality(Above(x)) : x \in S}
<1>1. \A x \in S : IsFiniteSet(Above(x)) /\ Cardinality(Above(x)) \in Nat
  BY FS_Subset, FS_CardinalityType
<1>2. PICK c \in T : \A k \in T : c <= k
  <2>1. T \subseteq Nat /\ T # {}
    BY <1>1
  <2> HIDE DEF T
  <2> QED
    BY <2>1, LeastNatural
<1>3. PICK x \in S : c = Cardinality(Above(x))
  BY <1>2
<1>4. SUFFICES ASSUME NEW y \in S, y > x
               PROVE  FALSE
  <2>1. \A y \in S : y > x \/ y <= x
    OBVIOUS
  <2> QED
    BY <2>1
<1>5. Above(y) \subseteq Above(x) /\ y \in Above(x) /\ y \notin Above(y)
  <2>1. \A z \in S : z > y => z > x
    BY <1>4
  <2>2. y \in Nat /\ ~(y > y)
    OBVIOUS
  <2> QED
    BY <1>4, <2>1, <2>2
<1>6. Cardinality(Above(y)) \in T
  OBVIOUS
<1> HIDE DEF Above, T
<1>7. Above(y) # Above(x)
  BY <1>5
<1>8. Cardinality(Above(y)) < Cardinality(Above(x))
  BY <1>1, <1>5, <1>7, FS_Subset
<1>9. c <= Cardinality(Above(y))
  BY <1>2, <1>6
<1> QED
  BY <1>1, <1>3, <1>4, <1>8, <1>9

LEMMA LevelsType ==
  ASSUME NEW P, P \subseteq Prices, IsFiniteSet(P), NEW set, Single(set, P)
  PROVE  /\ Levels(set) \subseteq P /\ IsFiniteSet(Levels(set))
         /\ Levels(set) \subseteq Nat
         /\ \A n \in set : Written(n) /\ Units(n) \in Levels(set)
         /\ set = {} <=> Levels(set) = {}
<1>1. \A n \in set : Written(n) /\ Units(n) \in P
  BY WritingsWritten DEF Single
<1>2. Levels(set) \subseteq P
  BY <1>1 DEF Levels
<1> QED
  BY <1>1, <1>2, PricesType, FS_Subset DEF Levels

LEMMA GreatestLevel ==
  ASSUME PricesFit, NEW P, P \subseteq Prices, IsFiniteSet(P), NEW set, Single(set, P),
         set # {}
  PROVE  /\ Greatest(set) \in set
         /\ \A n \in set : Units(n) <= Units(Greatest(set))
<1>1. PICK x \in Levels(set) : \A y \in Levels(set) : y <= x
  BY LevelsType, FiniteMax
<1>2. PICK n \in set : Units(n) = x
  BY DEF Levels
<1>3. \A m \in set : ~Less(n, m)
  <2> SUFFICES ASSUME NEW m \in set
               PROVE  ~Less(n, m)
    OBVIOUS
  <2>1. Units(m) \in Nat /\ Units(n) \in Nat /\ Units(m) <= Units(n)
    BY <1>1, <1>2, LevelsType
  <2> QED
    BY <2>1, LevelsType, LessByValue
<1>g. PICK g : g = Greatest(set)
  OBVIOUS
<1>4. g \in set /\ \A m \in set : ~Less(g, m)
  BY <1>3, <1>g DEF Greatest
<1>5. ASSUME NEW m \in set
      PROVE  Units(m) <= Units(g)
  <2>1. Units(m) \in Nat /\ Units(g) \in Nat
    BY <1>4, LevelsType
  <2> QED
    BY <1>4, <2>1, LevelsType, LessByValue
<1> QED
  BY <1>4, <1>5, <1>g

LEMMA LeastLevel ==
  ASSUME PricesFit, NEW P, P \subseteq Prices, IsFiniteSet(P), NEW set, Single(set, P),
         set # {}
  PROVE  /\ Least(set) \in set
         /\ \A n \in set : Units(Least(set)) <= Units(n)
<1>1. PICK x \in Levels(set) : \A y \in Levels(set) : x <= y
  BY LevelsType, LeastNatural
<1>2. PICK n \in set : Units(n) = x
  BY DEF Levels
<1>3. \A m \in set : ~Less(m, n)
  <2> SUFFICES ASSUME NEW m \in set
               PROVE  ~Less(m, n)
    OBVIOUS
  <2>1. Units(m) \in Nat /\ Units(n) \in Nat /\ Units(n) <= Units(m)
    BY <1>1, <1>2, LevelsType
  <2> QED
    BY <2>1, LevelsType, LessByValue
<1>g. PICK g : g = Least(set)
  OBVIOUS
<1>4. g \in set /\ \A m \in set : ~Less(m, g)
  BY <1>3, <1>g DEF Least
<1>5. ASSUME NEW m \in set
      PROVE  Units(g) <= Units(m)
  <2>1. Units(m) \in Nat /\ Units(g) \in Nat
    BY <1>4, LevelsType
  <2> QED
    BY <1>4, <2>1, LevelsType, LessByValue
<1> QED
  BY <1>4, <1>5, <1>g

(* A set with each price once is the book, price for price.                *)
LEMMA SingleIsSame ==
  ASSUME NEW P, P \subseteq Prices, IsFiniteSet(P), NEW set, Single(set, P),
         NEW prices, prices = Levels(set)
  PROVE  SameLevels(set, prices)
<1> DEFINE f == [p \in prices |-> CHOOSE n \in set : Units(n) = p]
<1>1. \A p \in prices : f[p] \in set /\ Units(f[p]) = p
  BY DEF Levels
<1>2. f \in [prices -> set]
  BY <1>1
<1> HIDE DEF f
<1>3. \A n \in set : Units(n) \in prices /\ f[Units(n)] = n
  BY <1>1, LevelsType DEF Single
<1>4. f \in Bijection(prices, set)
  <2>1. f \in Injection(prices, set)
    BY <1>1, <1>2 DEF Injection, IsInjective
  <2>2. f \in Surjection(prices, set)
    BY <1>2, <1>3 DEF Surjection
  <2> QED
    BY <2>1, <2>2 DEF Bijection
<1>5. IsFiniteSet(prices)
  BY LevelsType
<1>6. Cardinality(prices) = Cardinality(set)
  BY <1>4, <1>5, FS_Bijection DEF ExistsBijection
<1> QED
  BY <1>6 DEF SameLevels, Levels


-----------------------------------------------------------------------------
(* The inductive invariant.                                                *)
Message == [bids : Seq(ItemType(BidPrices)), asks : Seq(ItemType(AskPrices))]

Unsubscribed ==
  ~subscribed => wire = <<>> /\ orderBookBid = {} /\ orderBookAsk = {}

Following ==
  subscribed =>
    /\ InSync(wire, "bids", book.bid, orderBookBid, BidPrices)
    /\ InSync(wire, "asks", book.ask, orderBookAsk, AskPrices)

BestAtEnds ==
  /\ orderBookBid # {} =>
       /\ bestBuyPrice \in orderBookBid
       /\ \A n \in orderBookBid : Units(n) <= Units(bestBuyPrice)
  /\ orderBookAsk # {} =>
       /\ bestSellPrice \in orderBookAsk
       /\ \A n \in orderBookAsk : Units(bestSellPrice) <= Units(n)

MarketInv ==
  TypeOK /\ wire \in Seq(Message) /\ Unsubscribed /\ Following /\ BestAtEnds

LEMMA Sides ==
  /\ BidPrices \subseteq Prices /\ IsFiniteSet(BidPrices)
  /\ AskPrices \subseteq Prices /\ IsFiniteSet(AskPrices)
BY MarketAssumption DEF Prices

LEMMA MarketInit ==
  ASSUME Init
  PROVE  MarketInv
<1>1. wire \in Seq(Message) /\ Len(wire) = 0
  BY EmptySeq DEF Init
<1>2. Len(wire) <= MaxInFlight
  BY <1>1, MarketAssumption
<1>3. TypeOK
  BY <1>2, Zenon DEF Init, TypeOK
<1> QED
  BY <1>1, <1>3 DEF Init, MarketInv, Unsubscribed, Following, BestAtEnds

LEMMA MarketSubscribe ==
  ASSUME MarketInv, Subscribe
  PROVE  MarketInv'
<1>b. PICK bids \in Listings(book.bid), asks \in Listings(book.ask) :
        wire' = Append(wire, [bids |-> bids, asks |-> asks])
  BY DEF Subscribe
<1> PICK m : m = [bids |-> bids, asks |-> asks]
  OBVIOUS
<1>1. wire = <<>> /\ wire' = <<m>> /\ m.bids = bids /\ m.asks = asks
  BY <1>b DEF Subscribe, MarketInv, Unsubscribed
<1>2. /\ book.bid \subseteq BidPrices /\ IsFiniteSet(book.bid)
      /\ book.ask \subseteq AskPrices /\ IsFiniteSet(book.ask)
  BY Sides, FS_Subset DEF MarketInv, TypeOK
<1>3. /\ Listing(m.bids, BidPrices)
      /\ \A q : (Enters(m.bids, q) <=> q \in book.bid) /\ ~Leaves(m.bids, q)
  <2>1. /\ Listing(bids, BidPrices)
        /\ \A q : (Enters(bids, q) <=> q \in book.bid) /\ ~Leaves(bids, q)
    BY <1>2, Sides, ListingOfLevels, Zenon
  <2> QED
    BY <1>1, <2>1
<1>4. /\ Listing(m.asks, AskPrices)
      /\ \A q : (Enters(m.asks, q) <=> q \in book.ask) /\ ~Leaves(m.asks, q)
  <2>1. /\ Listing(asks, AskPrices)
        /\ \A q : (Enters(asks, q) <=> q \in book.ask) /\ ~Leaves(asks, q)
    BY <1>2, Sides, ListingOfLevels, Zenon
  <2> QED
    BY <1>1, <2>1
<1>5. InSync(<<m>>, "bids", book.bid, {}, BidPrices)
  BY <1>3, SyncSubscribed
<1>6. InSync(<<m>>, "asks", book.ask, {}, AskPrices)
  BY <1>4, SyncSubscribed
<1>7. /\ orderBookBid' = {} /\ orderBookAsk' = {} /\ subscribed' /\ book' = book
      /\ UNCHANGED robotVars
  BY DEF Subscribe, MarketInv, Unsubscribed, robotVars
<1>8. Following' /\ Unsubscribed'
  BY <1>1, <1>5, <1>6, <1>7 DEF Following, Unsubscribed
<1>9. m \in Message
  BY <1>3, <1>4 DEF Message, Listing
<1>10. wire' \in Seq(Message) /\ Len(wire') = 1
  BY <1>1, <1>9
<1>11. TypeOK'
  BY <1>7, <1>10, MarketAssumption DEF TypeOK, MarketInv, robotVars
<1>12. BestAtEnds'
  BY <1>7 DEF BestAtEnds
<1> QED
  BY <1>8, <1>10, <1>11, <1>12 DEF MarketInv

(* What an update says of a side that changes, and of the other.           *)
Told(n, p, old) == <<Item(n, IF p \in old THEN 0 ELSE 1)>>

Changed(p, old) == IF p \in old THEN old \ {p} ELSE old \cup {p}

LEMMA ChangeTold ==
  ASSUME NEW P, P \subseteq Prices, NEW p \in P, NEW n \in Writings(p), NEW old
  PROVE  /\ Listing(Told(n, p, old), P)
         /\ \A q :
              /\ Enters(Told(n, p, old), q) => q \in Changed(p, old)
              /\ Leaves(Told(n, p, old), q) => q \notin Changed(p, old)
              /\ Silent(Told(n, p, old), q) => (q \in Changed(p, old) <=> q \in old)
<1>i. PICK items : items = Told(n, p, old)
  OBVIOUS
<1>p. PICK prices : prices = Changed(p, old)
  OBVIOUS
<1>1. CASE p \in old
  <2>1. items = <<Item(n, 0)>> /\ prices = old \ {p}
    BY <1>1, <1>i, <1>p DEF Told, Changed
  <2>2. Listing(<<Item(n, 0)>>, P) /\ \A q : /\ Enters(<<Item(n, 0)>>, q) <=> q = p /\ 0 = 1
                                             /\ Leaves(<<Item(n, 0)>>, q) <=> q = p /\ 0 = 0
    BY ListingOfOne
  <2> QED
    BY <2>1, <2>2, <1>1, <1>i, <1>p DEF Silent
<1>2. CASE p \notin old
  <2>1. items = <<Item(n, 1)>> /\ prices = old \cup {p}
    BY <1>2, <1>i, <1>p DEF Told, Changed
  <2>2. Listing(<<Item(n, 1)>>, P) /\ \A q : /\ Enters(<<Item(n, 1)>>, q) <=> q = p /\ 1 = 1
                                             /\ Leaves(<<Item(n, 1)>>, q) <=> q = p /\ 1 = 0
    BY ListingOfOne
  <2> QED
    BY <2>1, <2>2, <1>2, <1>i, <1>p DEF Silent
<1> QED
  BY <1>1, <1>2

LEMMA ChangeUntold ==
  ASSUME NEW P, NEW prices
  PROVE  /\ Listing(<<>>, P)
         /\ \A q : /\ Enters(<<>>, q) => q \in prices
                   /\ Leaves(<<>>, q) => q \notin prices
                   /\ Silent(<<>>, q) => (q \in prices <=> q \in prices)
BY ListingOfNone

LEMMA MarketChange ==
  ASSUME MarketInv, NEW side \in {"bid", "ask"},
         NEW p, p \in (IF side = "bid" THEN BidPrices ELSE AskPrices), Change(side, p)
  PROVE  MarketInv'
<1>g. PICK gone : gone = (p \in book[side])
  OBVIOUS
<1>b. book' = [book EXCEPT ![side] = IF gone THEN @ \ {p} ELSE @ \cup {p}]
  BY <1>g DEF Change
<1>n. PICK n \in Writings(p) :
        wire' = IF ~subscribed THEN wire
                ELSE Append(wire,
                  [bids |-> IF side = "bid" THEN <<Item(n, IF gone THEN 0 ELSE 1)>> ELSE <<>>,
                   asks |-> IF side = "ask" THEN <<Item(n, IF gone THEN 0 ELSE 1)>> ELSE <<>>])
  BY <1>g DEF Change
<1>i. PICK items : items = <<Item(n, IF gone THEN 0 ELSE 1)>>
  OBVIOUS
<1>m. PICK m : m = [bids |-> IF side = "bid" THEN items ELSE <<>>,
                    asks |-> IF side = "ask" THEN items ELSE <<>>]
  OBVIOUS
<1>1. /\ book \in [bid : SUBSET BidPrices, ask : SUBSET AskPrices]
      /\ wire \in Seq(Message) /\ Len(wire) < MaxInFlight
  BY DEF MarketInv, TypeOK, Change
<1>2. book' \in [bid : SUBSET BidPrices, ask : SUBSET AskPrices]
  BY <1>1, <1>b
<1>3. UNCHANGED robotVars /\ subscribed' = subscribed
  BY DEF Change
<1>4. wire' = IF ~subscribed THEN wire ELSE Append(wire, m)
  BY <1>i, <1>m, <1>n
<1>5. /\ Listing(m.bids, BidPrices)
      /\ \A q : /\ Enters(m.bids, q) => q \in book'.bid
                /\ Leaves(m.bids, q) => q \notin book'.bid
                /\ Silent(m.bids, q) => (q \in book'.bid <=> q \in book.bid)
  <2>1. CASE side = "bid"
    <3>1. m.bids = items /\ book'.bid = IF gone THEN book.bid \ {p} ELSE book.bid \cup {p}
      BY <1>1, <1>b, <1>m, <2>1
    <3>2. gone = (p \in book.bid) /\ p \in BidPrices
      BY <1>g, <2>1
    <3>3. items = Told(n, p, book.bid) /\ book'.bid = Changed(p, book.bid)
      BY <1>i, <3>1, <3>2 DEF Told, Changed
    <3>o. PICK old : old = book.bid
      OBVIOUS
    <3>4. /\ Listing(Told(n, p, old), BidPrices)
          /\ \A q :
               /\ Enters(Told(n, p, old), q) => q \in Changed(p, old)
               /\ Leaves(Told(n, p, old), q) => q \notin Changed(p, old)
               /\ Silent(Told(n, p, old), q) => (q \in Changed(p, old) <=> q \in old)
      BY <3>2, ChangeTold, Sides
    <3> QED
      BY <3>1, <3>3, <3>4, <3>o
  <2>2. CASE side # "bid"
    <3>1. m.bids = <<>> /\ book'.bid = book.bid
      BY <1>1, <1>b, <1>m, <2>2
    <3> QED
      BY <3>1, ChangeUntold
  <2> QED
    BY <2>1, <2>2
<1>6. /\ Listing(m.asks, AskPrices)
      /\ \A q : /\ Enters(m.asks, q) => q \in book'.ask
                /\ Leaves(m.asks, q) => q \notin book'.ask
                /\ Silent(m.asks, q) => (q \in book'.ask <=> q \in book.ask)
  <2>1. CASE side = "ask"
    <3>1. m.asks = items /\ book'.ask = IF gone THEN book.ask \ {p} ELSE book.ask \cup {p}
      BY <1>1, <1>b, <1>m, <2>1
    <3>2. gone = (p \in book.ask) /\ p \in AskPrices
      BY <1>g, <2>1
    <3>3. items = Told(n, p, book.ask) /\ book'.ask = Changed(p, book.ask)
      BY <1>i, <3>1, <3>2 DEF Told, Changed
    <3>o. PICK old : old = book.ask
      OBVIOUS
    <3>4. /\ Listing(Told(n, p, old), AskPrices)
          /\ \A q :
               /\ Enters(Told(n, p, old), q) => q \in Changed(p, old)
               /\ Leaves(Told(n, p, old), q) => q \notin Changed(p, old)
               /\ Silent(Told(n, p, old), q) => (q \in Changed(p, old) <=> q \in old)
      BY <3>2, ChangeTold, Sides
    <3> QED
      BY <3>1, <3>3, <3>4, <3>o
  <2>2. CASE side # "ask"
    <3>1. m.asks = <<>> /\ book'.ask = book.ask
      BY <1>1, <1>b, <1>m, <2>2
    <3> QED
      BY <3>1, ChangeUntold
  <2> QED
    BY <2>1, <2>2
<1>7. m \in Message
  BY <1>5, <1>6, <1>m DEF Message, Listing
<1>8. wire' \in Seq(Message) /\ Len(wire') <= MaxInFlight
  BY <1>1, <1>4, <1>7, MarketAssumption
<1>9. TypeOK'
  BY <1>2, <1>3, <1>8 DEF TypeOK, MarketInv, robotVars
<1>10. Unsubscribed' /\ BestAtEnds'
  BY <1>3, <1>4 DEF Unsubscribed, BestAtEnds, MarketInv, robotVars
<1>11. Following'
  <2> SUFFICES ASSUME subscribed
               PROVE  /\ InSync(wire', "bids", book'.bid, orderBookBid, BidPrices)
                      /\ InSync(wire', "asks", book'.ask, orderBookAsk, AskPrices)
    BY <1>3 DEF Following, robotVars
  <2>1. /\ InSync(wire, "bids", book.bid, orderBookBid, BidPrices)
        /\ InSync(wire, "asks", book.ask, orderBookAsk, AskPrices)
        /\ wire' = Append(wire, m)
    BY <1>4 DEF MarketInv, Following
  <2>2. InSync(Append(wire, m), "bids", book'.bid, orderBookBid, BidPrices)
    BY <1>1, <1>5, <1>7, <2>1, SyncChanged
  <2>3. InSync(Append(wire, m), "asks", book'.ask, orderBookAsk, AskPrices)
    BY <1>1, <1>6, <1>7, <2>1, SyncChanged
  <2> QED
    BY <2>1, <2>2, <2>3
<1> QED
  BY <1>8, <1>9, <1>10, <1>11 DEF MarketInv

LEMMA MarketRead ==
  ASSUME PricesFit, MarketInv, ReadOrderBook
  PROVE  MarketInv'
<1>b. PICK bid : bid = Apply(orderBookBid, Head(wire).bids)
  OBVIOUS
<1>a. PICK ask : ask = Apply(orderBookAsk, Head(wire).asks)
  OBVIOUS
<1>1. /\ orderBookBid' = bid /\ orderBookAsk' = ask
      /\ bestBuyPrice' = IF bid = {} THEN bestBuyPrice ELSE Greatest(bid)
      /\ bestSellPrice' = IF ask = {} THEN bestSellPrice ELSE Least(ask)
      /\ wire # <<>> /\ wire' = Tail(wire)
      /\ book' = book /\ subscribed' = subscribed
  BY <1>a, <1>b DEF ReadOrderBook
<1>2. /\ wire \in Seq(Message) /\ subscribed
      /\ InSync(wire, "bids", book.bid, orderBookBid, BidPrices)
      /\ InSync(wire, "asks", book.ask, orderBookAsk, AskPrices)
  BY <1>1 DEF MarketInv, TypeOK, Unsubscribed, Following
<1>3. InSync(Tail(wire), "bids", book.bid, bid, BidPrices)
  BY <1>1, <1>2, <1>b, Sides, SyncRead
<1>4. InSync(Tail(wire), "asks", book.ask, ask, AskPrices)
  BY <1>1, <1>2, <1>a, Sides, SyncRead
<1>5. Single(bid, BidPrices) /\ Single(ask, AskPrices)
  BY <1>3, <1>4 DEF InSync
<1>6. bid # {} => Greatest(bid) \in bid /\ \A n \in bid : Units(n) <= Units(Greatest(bid))
  BY <1>5, Sides, GreatestLevel
<1>7. ask # {} => Least(ask) \in ask /\ \A n \in ask : Units(Least(ask)) <= Units(n)
  BY <1>5, Sides, LeastLevel
<1>8. BestAtEnds'
  BY <1>1, <1>6, <1>7 DEF BestAtEnds
<1>9. Following' /\ Unsubscribed'
  BY <1>1, <1>2, <1>3, <1>4 DEF Following, Unsubscribed
<1>10. wire' \in Seq(Message) /\ Len(wire') <= Len(wire)
  BY <1>1, <1>2
<1>11. TypeOK'
  <2>1. Len(wire') <= MaxInFlight
    BY <1>2, <1>10, MarketAssumption DEF MarketInv, TypeOK
  <2>2. /\ bestBuyPrice' \in WritingsOf(BidPrices) \cup {None}
        /\ bestSellPrice' \in WritingsOf(AskPrices) \cup {None}
    BY <1>1, <1>5, <1>6, <1>7 DEF MarketInv, TypeOK, Single
  <2> QED
    BY <1>1, <1>5, <2>1, <2>2 DEF MarketInv, TypeOK, Single
<1> QED
  BY <1>8, <1>9, <1>10, <1>11 DEF MarketInv

LEMMA MarketNext ==
  ASSUME PricesFit, MarketInv, [Next]_vars
  PROVE  MarketInv'
<1>1. CASE Subscribe
  BY <1>1, MarketSubscribe
<1>2. CASE \E p \in BidPrices : Change("bid", p)
  BY <1>2, MarketChange
<1>3. CASE \E p \in AskPrices : Change("ask", p)
  BY <1>3, MarketChange
<1>4. CASE ReadOrderBook
  BY <1>4, MarketRead
<1>5. CASE UNCHANGED vars
  BY <1>5 DEF vars, robotVars, MarketInv, TypeOK, Unsubscribed, Following, BestAtEnds
<1> QED
  BY <1>1, <1>2, <1>3, <1>4, <1>5 DEF Next

LEMMA MarketInvariant ==
  ASSUME PricesFit
  PROVE  Spec => []MarketInv
<1>1. Init => MarketInv
  BY MarketInit
<1>2. MarketInv /\ [Next]_vars => MarketInv'
  BY MarketNext
<1> QED
  BY <1>1, <1>2, PTL DEF Spec

-----------------------------------------------------------------------------
(* Types: the robot's sets and best prices hold only Numbers that are      *)
(* prices of the market, whatever exponents the exchange writes them with. *)
THEOREM MarketTypeCorrect ==
  ASSUME PricesFit
  PROVE  Spec => []TypeOK
<1>1. MarketInv => TypeOK
  BY DEF MarketInv
<1> QED
  BY <1>1, MarketInvariant, PTL

LEMMA InvGivesBook ==
  ASSUME MarketInv
  PROVE  BookInSync
<1> SUFFICES ASSUME subscribed, wire = <<>>
             PROVE  SameLevels(orderBookBid, book.bid) /\ SameLevels(orderBookAsk, book.ask)
  BY DEF BookInSync
<1>1. /\ InSync(wire, "bids", book.bid, orderBookBid, BidPrices)
      /\ InSync(wire, "asks", book.ask, orderBookAsk, AskPrices)
      /\ DOMAIN wire = {}
  BY DEF MarketInv, Following
<1>2. Single(orderBookBid, BidPrices) /\ Single(orderBookAsk, AskPrices)
  BY <1>1 DEF InSync
<1>3. book.bid = Levels(orderBookBid)
  <2>1. \A q : q \in book.bid <=> q \in Levels(orderBookBid)
    BY <1>1 DEF InSync
  <2>2. book.bid \subseteq Nat /\ Levels(orderBookBid) \subseteq Nat
    BY <1>2, Sides, LevelsType, PricesType DEF MarketInv, TypeOK
  <2> QED
    BY <2>1, <2>2
<1>4. book.ask = Levels(orderBookAsk)
  <2>1. \A q : q \in book.ask <=> q \in Levels(orderBookAsk)
    BY <1>1 DEF InSync
  <2>2. book.ask \subseteq Nat /\ Levels(orderBookAsk) \subseteq Nat
    BY <1>2, Sides, LevelsType, PricesType DEF MarketInv, TypeOK
  <2> QED
    BY <2>1, <2>2
<1> QED
  BY <1>2, <1>3, <1>4, Sides, SingleIsSame

(* Whatever sequence of levels comes and goes, in whatever exponents they  *)
(* are written, once every message is handled the robot's std::sets are    *)
(* the exchange's book, each price once (bot::messageHandler).             *)
THEOREM BookInSyncCorrect ==
  ASSUME PricesFit
  PROVE  Spec => []BookInSync
<1>1. MarketInv => BookInSync
  BY InvGivesBook
<1> QED
  BY <1>1, MarketInvariant, PTL

LEMMA InvGivesBest ==
  ASSUME MarketInv
  PROVE  BestInSync
<1> SUFFICES ASSUME subscribed, wire = <<>>
             PROVE  /\ book.bid # {} => Units(bestBuyPrice) = Max(book.bid)
                    /\ book.ask # {} => Units(bestSellPrice) = Min(book.ask)
  BY DEF BestInSync
<1>1. SameLevels(orderBookBid, book.bid) /\ SameLevels(orderBookAsk, book.ask)
  BY InvGivesBook DEF BookInSync
<1>2. /\ book.bid = {Units(n) : n \in orderBookBid} /\ book.bid \subseteq Nat
      /\ book.ask = {Units(n) : n \in orderBookAsk} /\ book.ask \subseteq Nat
  BY <1>1, Sides, PricesType DEF SameLevels, MarketInv, TypeOK
<1>3. ASSUME book.bid # {}
      PROVE  Units(bestBuyPrice) = Max(book.bid)
  <2>b. PICK b : b = Units(bestBuyPrice)
    OBVIOUS
  <2>1. b \in book.bid /\ \A y \in book.bid : y <= b
    BY <1>2, <1>3, <2>b DEF MarketInv, BestAtEnds
  <2>x. PICK x : x = Max(book.bid)
    OBVIOUS
  <2>2. x \in book.bid /\ \A y \in book.bid : x >= y
    <3>1. \A y \in book.bid : b >= y
      BY <1>2, <2>1
    <3> QED
      BY <2>1, <2>x, <3>1 DEF Max
  <2>3. b \in Nat /\ x \in Nat /\ x <= b /\ x >= b
    BY <1>2, <2>1, <2>2
  <2> QED
    BY <2>3, <2>b, <2>x
<1>4. ASSUME book.ask # {}
      PROVE  Units(bestSellPrice) = Min(book.ask)
  <2>b. PICK b : b = Units(bestSellPrice)
    OBVIOUS
  <2>1. b \in book.ask /\ \A y \in book.ask : b <= y
    BY <1>2, <1>4, <2>b DEF MarketInv, BestAtEnds
  <2>x. PICK x : x = Min(book.ask)
    OBVIOUS
  <2>2. x \in book.ask /\ \A y \in book.ask : x <= y
    BY <2>1, <2>x DEF Min
  <2>3. b \in Nat /\ x \in Nat /\ x <= b /\ b <= x
    BY <1>2, <2>1, <2>2
  <2> QED
    BY <2>3, <2>b, <2>x
<1> QED
  BY <1>3, <1>4

(* operator< finds the best level by its value: once every message is      *)
(* handled, the robot's best prices are the extremes of the exchange's     *)
(* book, on each side that has levels.                                     *)
THEOREM BestInSyncCorrect ==
  ASSUME PricesFit
  PROVE  Spec => []BestInSync
<1>1. MarketInv => BestInSync
  BY InvGivesBest
<1> QED
  BY <1>1, MarketInvariant, PTL

=============================================================================
