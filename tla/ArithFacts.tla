----------------------------- MODULE ArithFacts -----------------------------
(***************************************************************************)
(* Arith for words of every width: powers of two, the bits of a number,    *)
(* truncation and sign, and what instructions do to bits.  The widths are  *)
(* limited, so induction is over the set of the numbers for which a fact   *)
(* holds.                                                                  *)
(***************************************************************************)
EXTENDS Arith, SequenceFacts

LEMMA Divides ==
  ASSUME NEW d \in Nat \ {0}, NEW x \in Int
  PROVE  /\ x = (x \div d) * d + (x % d)
         /\ x % d \in 0..(d - 1)
         /\ x \div d \in Int
OBVIOUS

LEMMA Quotient ==
  ASSUME NEW d \in Nat \ {0}, NEW q \in Int, NEW r \in 0..(d - 1)
  PROVE  /\ (q * d + r) \div d = q
         /\ (q * d + r) % d = r
OBVIOUS

LEMMA Power ==
  \A n \in 0..(WideBits + 1) : 2 ^ n \in Nat \ {0}
<1> DEFINE S == {n \in Nat : n <= WideBits + 1 => 2 ^ n \in Nat \ {0}}
<1>1. 0 \in S
  BY PowerAssumption
<1>2. ASSUME NEW n \in Nat, n \in S
      PROVE  n + 1 \in S
  BY <1>2, PowerAssumption, BitsAssumption
<1>3. Nat \subseteq S
  BY <1>1, <1>2, SetInduction
<1> QED
  BY <1>3, BitsAssumption

LEMMA PowerSum ==
  \A a, k \in Nat : a + k <= WideBits + 1 => 2 ^ (a + k) = 2 ^ a * 2 ^ k
<1> SUFFICES ASSUME NEW a \in Nat
             PROVE  \A k \in Nat : a + k <= WideBits + 1 => 2 ^ (a + k) = 2 ^ a * 2 ^ k
  OBVIOUS
<1> DEFINE S == {k \in Nat : a + k <= WideBits + 1 => 2 ^ (a + k) = 2 ^ a * 2 ^ k}
<1>1. 0 \in S
  BY PowerAssumption, Power
<1>2. ASSUME NEW k \in Nat, k \in S
      PROVE  k + 1 \in S
  BY <1>2, PowerAssumption, BitsAssumption, Power
<1>3. Nat \subseteq S
  BY <1>1, <1>2, SetInduction
<1> QED
  BY <1>3

LEMMA PowerExceeds ==
  \A n \in 0..WideBits : n < 2 ^ n
<1> DEFINE S == {n \in Nat : n <= WideBits => n < 2 ^ n}
<1>1. 0 \in S
  BY PowerAssumption
<1>2. ASSUME NEW n \in Nat, n \in S
      PROVE  n + 1 \in S
  BY <1>2, PowerAssumption, BitsAssumption, Power
<1>3. Nat \subseteq S
  BY <1>1, <1>2, SetInduction
<1> QED
  BY <1>3, BitsAssumption

-----------------------------------------------------------------------------
(* Numbers with so many bits.                                              *)

LEMMA QuotientOfQuotient ==
  ASSUME NEW x \in Int, NEW d \in Nat \ {0}, NEW e \in Nat \ {0}
  PROVE  (x \div d) \div e = x \div (d * e)
<1> DEFINE q == x \div d
           r == x % d
           p == q \div e
           s == q % e
<1>1. /\ x = q * d + r /\ r \in 0..(d - 1) /\ q \in Int
      /\ q = p * e + s /\ s \in 0..(e - 1) /\ p \in Int
  BY Divides
<1> HIDE DEF q, r, p, s
<1>2. x = p * (d * e) + (s * d + r)
  BY <1>1
<1>3. s * d <= (e - 1) * d
  BY <1>1
<1>4. s * d + r \in 0..(d * e - 1)
  BY <1>1, <1>3
<1>5. d * e \in Nat \ {0}
  OBVIOUS
<1>6. (p * (d * e) + (s * d + r)) \div (d * e) = p
  BY ONLY <1>1, <1>4, <1>5, Quotient
<1> QED
  BY <1>2, <1>6 DEF p, q

LEMMA BitRange ==
  ASSUME NEW x \in Int, NEW n \in 0..WideBits
  PROVE  BitOf(x, n) \in 0..1
BY Power, Divides DEF BitOf

LEMMA NoHighBits ==
  ASSUME NEW k \in Nat, NEW n \in k..WideBits, NEW x \in 0..(2 ^ k - 1)
  PROVE  BitOf(x, n) = 0
<1>1. n - k \in Nat /\ k + (n - k) = n
  OBVIOUS
<1>2. 2 ^ n = 2 ^ k * 2 ^ (n - k)
  BY <1>1, PowerSum, BitsAssumption
<1>3. 2 ^ k \in Nat \ {0} /\ 2 ^ (n - k) \in Nat \ {0}
  BY Power, BitsAssumption
<1>4. 2 ^ n >= 2 ^ k /\ 2 ^ n \in Nat \ {0}
  BY <1>2, <1>3
<1>5. x = 0 * 2 ^ n + x /\ x \in 0..(2 ^ n - 1)
  BY <1>4
<1>6. x \div 2 ^ n = 0
  BY <1>4, <1>5, Quotient
<1>7. 0 % 2 = 0
  OBVIOUS
<1> QED
  BY <1>6, <1>7 DEF BitOf

(* A multiple of a higher power of two makes no difference to a bit.       *)
LEMMA BitOfSum ==
  ASSUME NEW k \in 0..WideBits, NEW n \in 0..(k - 1), NEW x \in Int, NEW c \in Int
  PROVE  BitOf(x + c * 2 ^ k, n) = BitOf(x, n)
<1> DEFINE e == 2 ^ (k - n - 1)
           d == 2 ^ n
           q == x \div d
           r == x % d
<1>1. 2 ^ k = d * (2 * e) /\ e \in Nat \ {0} /\ d \in Nat \ {0}
  <2>1. k - n - 1 \in Nat /\ n + ((k - n - 1) + 1) = k /\ (k - n - 1) + 1 = k - n
    BY BitsAssumption
  <2>2. 2 ^ k = 2 ^ n * 2 ^ (k - n)
    BY <2>1, PowerSum, BitsAssumption
  <2>3. 2 ^ (k - n) = 2 * 2 ^ (k - n - 1)
    BY <2>1, PowerAssumption, BitsAssumption
  <2> QED
    BY <2>1, <2>2, <2>3, Power, BitsAssumption
<1> HIDE DEF e, d
<1>2. x = q * d + r /\ r \in 0..(d - 1) /\ q \in Int
  BY <1>1, Divides
<1> HIDE DEF q, r
<1>3. x + c * 2 ^ k = (q + 2 * (c * e)) * d + r
  BY <1>1, <1>2
<1>4. q + 2 * (c * e) \in Int /\ c * e \in Int
  BY <1>1, <1>2
<1>5. ((q + 2 * (c * e)) * d + r) \div d = q + 2 * (c * e)
  BY <1>1, <1>2, <1>4, Quotient
<1>6. (q + 2 * (c * e)) % 2 = q % 2
  BY <1>2, <1>4
<1> QED
  BY <1>3, <1>5, <1>6 DEF BitOf, q, d

LEMMA TruncFacts ==
  ASSUME NEW k \in 0..WideBits, NEW x \in Int
  PROVE  /\ Trunc(x, k) \in 0..(2 ^ k - 1)
         /\ x \in 0..(2 ^ k - 1) => Trunc(x, k) = x
         /\ \A c \in Int : Trunc(x + c * 2 ^ k, k) = Trunc(x, k)
         /\ \E c \in Int : Trunc(x, k) = x + c * 2 ^ k
<1> DEFINE d == 2 ^ k
           q == x \div d
           r == x % d
<1>1. d \in Nat \ {0}
  BY Power, BitsAssumption
<1>2. x = q * d + r /\ r \in 0..(d - 1) /\ q \in Int
  BY <1>1, Divides
<1>3. ASSUME x \in 0..(d - 1)
      PROVE  r = x
  <2>1. x = 0 * d + x
    BY <1>1
  <2> QED
    BY <1>1, <1>3, <2>1, Quotient
<1> HIDE DEF d, q, r
<1>4. ASSUME NEW c \in Int
      PROVE  (x + c * d) % d = r
  <2>1. x + c * d = (q + c) * d + r
    BY <1>1, <1>2
  <2>2. ((q + c) * d + r) % d = r
    BY <1>1, <1>2, Quotient
  <2> QED
    BY <2>1, <2>2
<1>5. r = x + (- q) * d /\ - q \in Int
  BY <1>1, <1>2
<1> QED
  BY <1>2, <1>3, <1>4, <1>5 DEF Trunc, r, d

LEMMA BitOfTrunc ==
  ASSUME NEW k \in 0..WideBits, NEW x \in Int, NEW n \in 0..WideBits
  PROVE  BitOf(Trunc(x, k), n) = IF n < k THEN BitOf(x, n) ELSE 0
<1>1. CASE n < k
  <2>1. PICK c \in Int : Trunc(x, k) = x + c * 2 ^ k
    BY TruncFacts
  <2> QED
    BY <1>1, <2>1, BitOfSum
<1>2. CASE n >= k
  BY <1>2, TruncFacts, NoHighBits
<1> QED
  BY <1>1, <1>2

LEMMA BitOfQuotient ==
  ASSUME NEW k \in Nat, NEW n \in Nat, n + k <= WideBits, NEW x \in Int
  PROVE  BitOf(x \div 2 ^ k, n) = BitOf(x, k + n)
<1>1. 2 ^ (k + n) = 2 ^ k * 2 ^ n
  BY PowerSum, BitsAssumption
<1>2. 2 ^ k \in Nat \ {0} /\ 2 ^ n \in Nat \ {0}
  BY Power, BitsAssumption
<1>3. (x \div 2 ^ k) \div 2 ^ n = x \div (2 ^ k * 2 ^ n)
  BY <1>2, QuotientOfQuotient
<1>4. BitOf(x \div 2 ^ k, n) = ((x \div 2 ^ k) \div 2 ^ n) % 2
  BY DEF BitOf
<1>5. BitOf(x, k + n) = (x \div 2 ^ (k + n)) % 2
  BY DEF BitOf
<1> QED
  BY ONLY <1>1, <1>3, <1>4, <1>5

LEMMA BitOfProduct ==
  ASSUME NEW k \in 0..WideBits, NEW n \in 0..WideBits, NEW x \in Int
  PROVE  BitOf(x * 2 ^ k, n) = IF n < k THEN 0 ELSE BitOf(x, n - k)
<1>0. 2 ^ k \in Nat \ {0} /\ 2 ^ n \in Nat \ {0}
  BY Power, BitsAssumption
<1>1. CASE n < k
  <2>1. BitOf(0 + x * 2 ^ k, n) = BitOf(0, n)
    <3>1. k \in 0..WideBits /\ n \in 0..(k - 1) /\ 0 \in Int /\ x \in Int
      BY <1>1, BitsAssumption
    <3> QED
      BY ONLY <3>1, BitOfSum
  <2>2. BitOf(0, n) = 0
    BY <1>0, NoHighBits, PowerAssumption
  <2> QED
    BY <1>0, <1>1, <2>1, <2>2
<1>2. CASE n >= k
  <2> DEFINE y == x * 2 ^ k
  <2>1. y \div 2 ^ k = x
    <3>1. y = x * 2 ^ k + 0 /\ 0 \in 0..(2 ^ k - 1)
      BY <1>0
    <3> QED
      BY <1>0, <3>1, Quotient
  <2>2. y \in Int
    BY <1>0
  <2> HIDE DEF y
  <2>3. n - k \in Nat /\ k + (n - k) = n /\ (n - k) + k <= WideBits
    BY <1>2, BitsAssumption
  <2>4. BitOf(y \div 2 ^ k, n - k) = BitOf(y, k + (n - k))
    BY <2>2, <2>3, BitOfQuotient
  <2> QED
    BY <1>2, <2>1, <2>3, <2>4 DEF y
<1> QED
  BY <1>1, <1>2

(* A number is its bits.                                                   *)
SameBelow(k, x, y) == \A n \in 0..(k - 1) : BitOf(x, n) = BitOf(y, n)

LEMMA SameBits ==
  ASSUME NEW k \in 0..WideBits, NEW x \in 0..(2 ^ k - 1), NEW y \in 0..(2 ^ k - 1),
         SameBelow(k, x, y)
  PROVE  x = y
<1> DEFINE S == {j \in Nat : j <= WideBits =>
                   \A v, w \in 0..(2 ^ j - 1) : SameBelow(j, v, w) => v = w}
<1>1. 0 \in S
  BY PowerAssumption
<1>2. ASSUME NEW j \in Nat, j \in S
      PROVE  j + 1 \in S
  <2>a. j <= WideBits => \A v, w \in 0..(2 ^ j - 1) : SameBelow(j, v, w) => v = w
    BY <1>2
  <2> SUFFICES ASSUME j + 1 <= WideBits, NEW v \in 0..(2 ^ (j + 1) - 1),
                      NEW w \in 0..(2 ^ (j + 1) - 1), SameBelow(j + 1, v, w)
               PROVE  v = w
    OBVIOUS
  <2>0. 2 ^ (j + 1) = 2 * 2 ^ j /\ 2 ^ j \in Nat \ {0}
    BY Power, PowerAssumption, BitsAssumption
  <2>1. ASSUME NEW u \in 0..(2 ^ (j + 1) - 1)
        PROVE  /\ u % 2 ^ j \in 0..(2 ^ j - 1)
               /\ u = BitOf(u, j) * 2 ^ j + (u % 2 ^ j)
               /\ \A n \in 0..(j - 1) : BitOf(u % 2 ^ j, n) = BitOf(u, n)
    <3>1. /\ u = (u \div 2 ^ j) * 2 ^ j + (u % 2 ^ j) /\ u % 2 ^ j \in 0..(2 ^ j - 1)
          /\ u \div 2 ^ j \in Int
      <4>1. u \in Int
        BY ONLY <2>0, <2>1
      <4> QED
        BY ONLY <2>0, <4>1, Divides
    <3>2. u \div 2 ^ j \in 0..1
      <4> DEFINE q == u \div 2 ^ j
                 d == 2 ^ j
                 r == u % 2 ^ j
      <4>1. /\ u = q * d + r /\ r \in 0..(d - 1) /\ q \in Int
            /\ d \in Nat \ {0} /\ u \in 0..(2 * d - 1)
        BY <2>0, <3>1
      <4> HIDE DEF q, d, r
      <4>2. ASSUME q < 0
            PROVE  FALSE
        <5>1. q * d <= - d
          BY <4>1, <4>2
        <5> QED
          BY <4>1, <5>1
      <4>3. ASSUME q > 1
            PROVE  FALSE
        <5>1. q * d >= 2 * d
          BY <4>1, <4>3
        <5> QED
          BY <4>1, <5>1
      <4>4. q \in 0..1
        BY <4>1, <4>2, <4>3
      <4> QED
        BY <4>4 DEF q
    <3>3. BitOf(u, j) = u \div 2 ^ j
      <4>1. \A q \in 0..1 : q % 2 = q
        OBVIOUS
      <4> QED
        BY ONLY <3>2, <4>1 DEF BitOf
    <3>4. ASSUME NEW n \in 0..(j - 1)
          PROVE  BitOf(u % 2 ^ j, n) = BitOf(u, n)
      <4>1. j \in 0..WideBits /\ n \in 0..WideBits /\ u \in Int /\ n < j
        BY BitsAssumption
      <4>2. BitOf(Trunc(u, j), n) = BitOf(u, n)
        BY <4>1, BitOfTrunc
      <4> QED
        BY <4>2 DEF Trunc
    <3> QED
      BY <3>1, <3>3, <3>4
  <2>2. BitOf(v, j) = BitOf(w, j) /\ SameBelow(j, v, w)
    BY DEF SameBelow
  <2>3. SameBelow(j, v % 2 ^ j, w % 2 ^ j)
    BY ONLY <2>1, <2>2, v \in 0..(2 ^ (j + 1) - 1), w \in 0..(2 ^ (j + 1) - 1)
    DEF SameBelow
  <2>4. v % 2 ^ j = w % 2 ^ j
    <3>1. v % 2 ^ j \in 0..(2 ^ j - 1) /\ w % 2 ^ j \in 0..(2 ^ j - 1)
      BY <2>1
    <3> QED
      BY <2>a, <2>3, <3>1, BitsAssumption
  <2> QED
    BY <2>1, <2>2, <2>4
<1>3. Nat \subseteq S
  BY <1>1, <1>2, SetInduction
<1>4. k \in S
  BY <1>3
<1> QED
  BY <1>4

-----------------------------------------------------------------------------
(* Words made of bits.                                                     *)

(* The recursive function that Ones sums with.                             *)
Below(S, g) ==
  [n \in 0..WideBits |->
     IF n = 0 THEN 0 ELSE g[n - 1] + (IF n - 1 \in S THEN 2 ^ (n - 1) ELSE 0)]

LEMMA BelowExists ==
  ASSUME NEW S
  PROVE  \E g : g = Below(S, g) /\ Ones(S) = g[WideBits]
<1> DEFINE Part(k, g) ==
             g = [n \in 0..k |->
                    IF n = 0 THEN 0
                    ELSE g[n - 1] + (IF n - 1 \in S THEN 2 ^ (n - 1) ELSE 0)]
           T == {k \in Nat : \E g : Part(k, g)}
<1>1. 0 \in T
  <2>1. Part(0, [n \in 0..0 |-> 0])
    OBVIOUS
  <2> QED
    BY <2>1
<1>2. ASSUME NEW k \in Nat, k \in T
      PROVE  k + 1 \in T
  <2>1. PICK g : Part(k, g)
    BY <1>2
  <2> DEFINE next == g[k] + (IF k \in S THEN 2 ^ k ELSE 0)
             h == [n \in 0..(k + 1) |-> IF n = k + 1 THEN next ELSE g[n]]
  <2> HIDE DEF next
  <2>2. \A n \in 0..k : g[n] = IF n = 0 THEN 0
                              ELSE g[n - 1] + (IF n - 1 \in S THEN 2 ^ (n - 1) ELSE 0)
    BY <2>1
  <2>3. ASSUME NEW n \in 0..(k + 1)
        PROVE  h[n] = IF n = 0 THEN 0
                      ELSE h[n - 1] + (IF n - 1 \in S THEN 2 ^ (n - 1) ELSE 0)
    <3>1. CASE n = k + 1
      <4>1. h[n] = next /\ h[n - 1] = g[k] /\ n - 1 = k /\ n # 0
        BY <3>1
      <4> QED
        BY <4>1 DEF next
    <3>2. CASE n # k + 1
      BY <2>2, <3>2
    <3> QED
      BY <3>1, <3>2
  <2>4. Part(k + 1, h)
    <3>1. h = [n \in 0..(k + 1) |-> h[n]]
      OBVIOUS
    <3> HIDE DEF h
    <3> QED
      BY <2>3, <3>1
  <2> HIDE DEF h, Part
  <2> QED
    BY <2>4
<1>3. Nat \subseteq T
  BY <1>1, <1>2, SetInduction
<1>4. PICK g : Part(WideBits, g)
  BY <1>3, BitsAssumption
<1>5. g = Below(S, g)
  BY <1>4 DEF Below
<1> DEFINE c == CHOOSE f : f = Below(S, f)
<1>6. c = Below(S, c)
  BY <1>5
<1>7. Ones(S) = c[WideBits]
  BY DEF Ones, Below
<1> QED
  BY <1>6, <1>7

(* Its ones are those, and it is no longer than they reach.                *)
LEMMA OnesFacts ==
  ASSUME NEW S, NEW k \in 0..WideBits,
         \A n \in S : n \in Int => n < k
  PROVE  /\ Ones(S) \in 0..(2 ^ k - 1)
         /\ Ones(S) \in Word
         /\ \A n \in 0..(WideBits - 1) : BitOf(Ones(S), n) = IF n \in S THEN 1 ELSE 0
<1>1. PICK g : g = Below(S, g) /\ Ones(S) = g[WideBits]
  BY BelowExists
<1>2. /\ g[0] = 0
      /\ \A n \in 0..(WideBits - 1) :
           g[n + 1] = g[n] + (IF n \in S THEN 2 ^ n ELSE 0)
  <2> DEFINE f == Below(S, g)
  <2>1. \A n \in 0..WideBits :
          f[n] = IF n = 0 THEN 0 ELSE g[n - 1] + (IF n - 1 \in S THEN 2 ^ (n - 1) ELSE 0)
    BY ONLY DEF Below
  <2>2. f = g
    BY <1>1
  <2> HIDE DEF f
  <2>3. \A n \in 0..WideBits :
          g[n] = IF n = 0 THEN 0 ELSE g[n - 1] + (IF n - 1 \in S THEN 2 ^ (n - 1) ELSE 0)
    BY ONLY <2>1, <2>2
  <2>4. ASSUME NEW n \in 0..(WideBits - 1)
        PROVE  g[n + 1] = g[n] + (IF n \in S THEN 2 ^ n ELSE 0)
    <3>1. n + 1 \in 0..WideBits /\ n + 1 # 0 /\ (n + 1) - 1 = n
      BY BitsAssumption
    <3> QED
      BY ONLY <2>3, <3>1
  <2> QED
    BY ONLY <2>3, <2>4, BitsAssumption
<1> DEFINE Good(n) == /\ g[n] \in 0..(2 ^ n - 1)
                      /\ n >= k => g[n] \in 0..(2 ^ k - 1)
                      /\ \A j \in 0..(n - 1) : BitOf(g[n], j) = IF j \in S THEN 1 ELSE 0
           T == {n \in Nat : n <= WideBits => Good(n)}
<1>3. 0 \in T
  <2>1. 2 ^ 0 = 1 /\ (0 >= k => k = 0)
    BY PowerAssumption, BitsAssumption
  <2>a. g[0] \in 0..(2 ^ 0 - 1)
    BY <1>2, <2>1
  <2>b. ASSUME 0 >= k
        PROVE  g[0] \in 0..(2 ^ k - 1)
    <3>1. k = 0
      BY <2>1, <2>b
    <3> QED
      BY ONLY <2>a, <3>1
  <2>2. /\ g[0] \in 0..(2 ^ 0 - 1)
        /\ 0 >= k => g[0] \in 0..(2 ^ k - 1)
    BY <2>a, <2>b
  <2>3. \A j \in 0..(0 - 1) : BitOf(g[0], j) = IF j \in S THEN 1 ELSE 0
    OBVIOUS
  <2> QED
    BY <2>2, <2>3
<1>4. ASSUME NEW n \in Nat, n \in T
      PROVE  n + 1 \in T
  <2> SUFFICES ASSUME n + 1 <= WideBits
               PROVE  Good(n + 1)
    OBVIOUS
  <2>1. /\ g[n] \in 0..(2 ^ n - 1)
        /\ n >= k => g[n] \in 0..(2 ^ k - 1)
        /\ \A j \in 0..(n - 1) : BitOf(g[n], j) = IF j \in S THEN 1 ELSE 0
    BY <1>4, BitsAssumption
  <2> DEFINE one == IF n \in S THEN 1 ELSE 0
  <2>2. g[n + 1] = g[n] + one * 2 ^ n /\ one \in 0..1
    BY <1>2, Power, BitsAssumption
  <2>a. one = IF n \in S THEN 1 ELSE 0
    OBVIOUS
  <2> HIDE DEF one
  <2>3. 2 ^ (n + 1) = 2 * 2 ^ n /\ 2 ^ n \in Nat \ {0}
    BY Power, PowerAssumption, BitsAssumption
  <2>4. g[n + 1] \in 0..(2 ^ (n + 1) - 1)
    BY ONLY <2>1, <2>2, <2>3
  <2>5. ASSUME n + 1 >= k
        PROVE  g[n + 1] \in 0..(2 ^ k - 1)
    <3>1. CASE n + 1 = k
      BY <2>4, <3>1
    <3>2. CASE n >= k
      <4>1. one = 0
        BY <2>a, <3>2
      <4> QED
        BY ONLY <2>1, <2>2, <2>3, <3>2, <4>1
    <3> QED
      BY <2>5, <3>1, <3>2
  <2>6. ASSUME NEW j \in 0..n
        PROVE  BitOf(g[n + 1], j) = IF j \in S THEN 1 ELSE 0
    <3>1. CASE j = n
      <4>0. one \in Int /\ 2 ^ n \in Nat \ {0} /\ g[n] \in 0..(2 ^ n - 1)
        BY ONLY <2>1, <2>2, <2>3
      <4>1. (one * 2 ^ n + g[n]) \div 2 ^ n = one
        BY ONLY <4>0, Quotient
      <4>2. one * 2 ^ n + g[n] = g[n + 1]
        BY ONLY <2>1, <2>2, <2>3
      <4>3. \A q \in 0..1 : q % 2 = q
        OBVIOUS
      <4>4. BitOf(g[n + 1], n) = one
        BY ONLY <2>2, <4>1, <4>2, <4>3 DEF BitOf
      <4> QED
        BY <2>a, <3>1, <4>4
    <3>2. CASE j # n
      <4>1. n \in 0..WideBits /\ j \in 0..(n - 1) /\ g[n] \in Int /\ one \in Int
        BY <2>1, <2>2, <2>3, <3>2, BitsAssumption
      <4>2. BitOf(g[n] + one * 2 ^ n, j) = BitOf(g[n], j)
        BY ONLY <4>1, BitOfSum
      <4> QED
        BY ONLY <2>1, <2>2, <4>1, <4>2
    <3> QED
      BY <3>1, <3>2
  <2> QED
    BY <2>4, <2>5, <2>6
<1>5. Nat \subseteq T
  BY <1>3, <1>4, SetInduction
<1>6. Good(WideBits)
  BY <1>5, BitsAssumption
<1> QED
  BY <1>1, <1>6, BitsAssumption DEF Word

(* A word is made of its own bits.                                         *)
LEMMA OnesOfBits ==
  ASSUME NEW x \in Word
  PROVE  Ones({n \in 0..(WideBits - 1) : BitOf(x, n) = 1}) = x
<1> DEFINE S == {n \in 0..(WideBits - 1) : BitOf(x, n) = 1}
<1>1. \A n \in S : n \in Int => n < WideBits
  BY BitsAssumption
<1>2. x \in Int /\ x \in 0..(2 ^ WideBits - 1) /\ WideBits \in 0..WideBits
  BY Power, BitsAssumption DEF Word
<1>3. \A n \in 0..(WideBits - 1) : BitOf(x, n) = IF n \in S THEN 1 ELSE 0
  <2>1. \A n \in 0..(WideBits - 1) : BitOf(x, n) \in 0..1
    BY <1>2, BitRange, BitsAssumption
  <2> QED
    BY <2>1
<1> HIDE DEF S
<1>4. /\ Ones(S) \in 0..(2 ^ WideBits - 1)
      /\ \A n \in 0..(WideBits - 1) : BitOf(Ones(S), n) = IF n \in S THEN 1 ELSE 0
  BY <1>1, <1>2, OnesFacts
<1>5. SameBelow(WideBits, Ones(S), x)
  BY <1>3, <1>4 DEF SameBelow
<1> QED
  BY <1>2, <1>4, <1>5, SameBits DEF S

(* Words below a power of two, of two words below it.                      *)
LEMMA OnesInBoth ==
  ASSUME NEW k \in 0..WideBits, NEW x \in 0..(2 ^ k - 1), NEW y \in 0..(2 ^ k - 1),
         NEW S \in SUBSET (0..(WideBits - 1)),
         \A n \in S : BitOf(x, n) = 1 \/ BitOf(y, n) = 1
  PROVE  /\ Ones(S) \in 0..(2 ^ k - 1)
         /\ Ones(S) \in Word
         /\ \A n \in 0..(WideBits - 1) : BitOf(Ones(S), n) = IF n \in S THEN 1 ELSE 0
<1>1. ASSUME NEW n \in S
      PROVE  n < k
  <2>1. n \in 0..(WideBits - 1)
    OBVIOUS
  <2>2. CASE n >= k
    <3>1. k \in Nat /\ n \in k..WideBits
      BY <2>1, <2>2, BitsAssumption
    <3>2. BitOf(x, n) = 0 /\ BitOf(y, n) = 0
      BY <3>1, NoHighBits
    <3> QED
      BY <3>2
  <2> QED
    BY <2>1, <2>2, BitsAssumption
<1> QED
  BY <1>1, OnesFacts

(* The ones of both words, of either and of one of them.                   *)
OfBoth(x, y) == {n \in 0..(WideBits - 1) : BitOf(x, n) = 1 /\ BitOf(y, n) = 1}
OfEither(x, y) == {n \in 0..(WideBits - 1) : BitOf(x, n) = 1 \/ BitOf(y, n) = 1}
OfOne(x, y) == {n \in 0..(WideBits - 1) : BitOf(x, n) # BitOf(y, n)}

LEMMA AluIs ==
  ASSUME NEW k, NEW x, NEW y
  PROVE  /\ Alu("add", k, x, y) = Trunc(x + y, k)
         /\ Alu("sub", k, x, y) = Trunc(x - y, k)
         /\ Alu("mul", k, x, y) = Trunc(x * y, k)
         /\ Alu("and", k, x, y) = Ones(OfBoth(x, y))
         /\ Alu("or", k, x, y) = Ones(OfEither(x, y))
         /\ Alu("xor", k, x, y) = Ones(OfOne(x, y))
         /\ Alu("shl", k, x, y) = Trunc(x * 2 ^ (y % k), k)
         /\ Alu("shr", k, x, y) = x \div 2 ^ (y % k)
         /\ Alu("sar", k, x, y) = Trunc(Signed(x, k) \div 2 ^ (y % k), k)
BY DEF Alu, WithBits, OfBoth, OfEither, OfOne

(* What and, or and xor do to each bit.                                    *)
LEMMA LogicBits ==
  ASSUME NEW k \in 0..WideBits, NEW x \in 0..(2 ^ k - 1), NEW y \in 0..(2 ^ k - 1), NEW j
  PROVE  /\ Alu("and", j, x, y) \in 0..(2 ^ k - 1)
         /\ Alu("or", j, x, y) \in 0..(2 ^ k - 1)
         /\ Alu("xor", j, x, y) \in 0..(2 ^ k - 1)
         /\ \A n \in 0..(WideBits - 1) :
              /\ BitOf(Alu("and", j, x, y), n) = 1 <=> BitOf(x, n) = 1 /\ BitOf(y, n) = 1
              /\ BitOf(Alu("or", j, x, y), n) = 1 <=> BitOf(x, n) = 1 \/ BitOf(y, n) = 1
              /\ BitOf(Alu("xor", j, x, y), n) = 1 <=> BitOf(x, n) # BitOf(y, n)
<1> DEFINE A == OfBoth(x, y)
           O == OfEither(x, y)
           E == OfOne(x, y)
<1>1. Alu("and", j, x, y) = Ones(A) /\ Alu("or", j, x, y) = Ones(O)
      /\ Alu("xor", j, x, y) = Ones(E)
  BY AluIs
<1>2. \A n \in 0..(WideBits - 1) : BitOf(x, n) \in 0..1 /\ BitOf(y, n) \in 0..1
  <2>1. x \in Int /\ y \in Int
    BY Power, BitsAssumption
  <2> QED
    BY <2>1, BitRange, BitsAssumption
<1>3. \A S \in {A, O, E} :
        /\ S \in SUBSET (0..(WideBits - 1))
        /\ \A n \in S : BitOf(x, n) = 1 \/ BitOf(y, n) = 1
  BY <1>2 DEF OfBoth, OfEither, OfOne
<1>4. \A n \in 0..(WideBits - 1) :
        /\ n \in A <=> BitOf(x, n) = 1 /\ BitOf(y, n) = 1
        /\ n \in O <=> BitOf(x, n) = 1 \/ BitOf(y, n) = 1
        /\ n \in E <=> BitOf(x, n) # BitOf(y, n)
  BY DEF OfBoth, OfEither, OfOne
<1> HIDE DEF A, O, E
<1>5. \A S \in {A, O, E} :
        /\ Ones(S) \in 0..(2 ^ k - 1)
        /\ \A n \in 0..(WideBits - 1) : BitOf(Ones(S), n) = IF n \in S THEN 1 ELSE 0
  <2> TAKE S \in {A, O, E}
  <2> QED
    BY <1>3, OnesInBoth
<1>6. \A n \in 0..(WideBits - 1) :
        /\ BitOf(Ones(A), n) = 1 <=> n \in A
        /\ BitOf(Ones(O), n) = 1 <=> n \in O
        /\ BitOf(Ones(E), n) = 1 <=> n \in E
  BY <1>5
<1> QED
  BY ONLY <1>1, <1>4, <1>5, <1>6

LEMMA TruncOfTrunc ==
  ASSUME NEW n \in 0..WideBits, NEW k \in 0..n, NEW x \in Int
  PROVE  Trunc(Trunc(x, n), k) = Trunc(x, k)
<1>1. PICK c \in Int : Trunc(x, n) = x + c * 2 ^ n
  BY TruncFacts
<1>2. 2 ^ n = 2 ^ (n - k) * 2 ^ k
  <2>1. n - k \in Nat /\ k \in Nat /\ (n - k) + k = n /\ n <= WideBits + 1
    BY BitsAssumption
  <2> QED
    BY <2>1, PowerSum
<1>3. 2 ^ (n - k) \in Int /\ 2 ^ k \in Int
  BY Power, BitsAssumption
<1>4. c * 2 ^ n = (c * 2 ^ (n - k)) * 2 ^ k /\ c * 2 ^ (n - k) \in Int
  BY <1>2, <1>3
<1>5. k \in 0..WideBits
  BY BitsAssumption
<1>6. Trunc(x + (c * 2 ^ (n - k)) * 2 ^ k, k) = Trunc(x, k)
  BY <1>4, <1>5, TruncFacts
<1>7. Trunc(x, n) = x + (c * 2 ^ (n - k)) * 2 ^ k
  BY ONLY <1>1, <1>4
<1> QED
  BY ONLY <1>6, <1>7

LEMMA TruncOfSum ==
  ASSUME NEW k \in 0..WideBits, NEW x \in Int, NEW y \in Int
  PROVE  /\ Trunc(Trunc(x, k) + Trunc(y, k), k) = Trunc(x + y, k)
         /\ Trunc(Trunc(x, k) - Trunc(y, k), k) = Trunc(x - y, k)
<1>1. PICK c \in Int : Trunc(x, k) = x + c * 2 ^ k
  BY TruncFacts
<1>2. PICK e \in Int : Trunc(y, k) = y + e * 2 ^ k
  BY TruncFacts
<1>3. 2 ^ k \in Int
  BY Power, BitsAssumption
<1>4. /\ Trunc(x, k) + Trunc(y, k) = (x + y) + (c + e) * 2 ^ k
      /\ Trunc(x, k) - Trunc(y, k) = (x - y) + (c - e) * 2 ^ k
  BY <1>1, <1>2, <1>3
<1>5. x + y \in Int /\ x - y \in Int /\ c + e \in Int /\ c - e \in Int
  OBVIOUS
<1> QED
  <2>1. Trunc((x + y) + (c + e) * 2 ^ k, k) = Trunc(x + y, k)
    BY ONLY <1>5, k \in 0..WideBits, TruncFacts
  <2>2. Trunc((x - y) + (c - e) * 2 ^ k, k) = Trunc(x - y, k)
    BY ONLY <1>5, k \in 0..WideBits, TruncFacts
  <2> QED
    BY ONLY <1>4, <2>1, <2>2

LEMMA SignedFacts ==
  ASSUME NEW k \in 1..WideBits, NEW x \in Int
  PROVE  /\ Signed(x, k) \in Int
         /\ Trunc(Signed(x, k), k) = Trunc(x, k)
<1>1. k \in 0..WideBits /\ 2 ^ k \in Int /\ 2 ^ (k - 1) \in Int
  BY Power, BitsAssumption
<1>2. Signed(x, k) = x + 0 * 2 ^ k \/ Signed(x, k) = x + (-1) * 2 ^ k
  BY <1>1 DEF Signed
<1> QED
  BY <1>1, <1>2, TruncFacts

-----------------------------------------------------------------------------
(* What instructions make is as wide as they are.                          *)

LEMMA PowerGrows ==
  ASSUME NEW n \in 0..WideBits, NEW k \in 0..n
  PROVE  2 ^ k <= 2 ^ n /\ 2 ^ k \in Nat \ {0} /\ 2 ^ n \in Nat \ {0}
<1>1. n - k \in Nat /\ k \in Nat /\ (n - k) + k = n /\ n <= WideBits + 1
  BY BitsAssumption
<1>2. 2 ^ n = 2 ^ (n - k) * 2 ^ k
  BY <1>1, PowerSum
<1>3. 2 ^ (n - k) \in Nat \ {0} /\ 2 ^ k \in Nat \ {0} /\ 2 ^ n \in Nat \ {0}
  BY Power, BitsAssumption
<1>4. 2 ^ (n - k) * 2 ^ k >= 1 * 2 ^ k
  BY ONLY <1>3
<1> QED
  BY ONLY <1>2, <1>3, <1>4

arithNames == {"add", "sub", "mul", "and", "or", "xor", "shl", "shr", "sar"}

LEMMA AluRange ==
  ASSUME NEW k \in 1..WideBits, NEW x \in 0..(2 ^ k - 1), NEW y \in 0..(2 ^ k - 1),
         NEW name \in arithNames
  PROVE  Alu(name, k, x, y) \in 0..(2 ^ k - 1)
<1>1. k \in 0..WideBits /\ 2 ^ k \in Nat \ {0} /\ x \in Int /\ y \in Int
  BY Power, BitsAssumption
<1>2. CASE name \in {"add", "sub", "mul"}
  <2>1. x + y \in Int /\ x - y \in Int /\ x * y \in Int
    BY <1>1
  <2>2. /\ Trunc(x + y, k) \in 0..(2 ^ k - 1)
        /\ Trunc(x - y, k) \in 0..(2 ^ k - 1)
        /\ Trunc(x * y, k) \in 0..(2 ^ k - 1)
    BY ONLY <1>1, <2>1, TruncFacts
  <2> QED
    BY <1>2, <2>2, AluIs
<1>3. CASE name \in {"and", "or", "xor"}
  BY <1>1, <1>3, LogicBits
<1>4. CASE name \in {"shl", "shr", "sar"}
  <2> DEFINE d == 2 ^ (y % k)
  <2>1. d \in Nat \ {0}
    <3>1. y % k \in 0..(k - 1)
      BY <1>1, BitsAssumption
    <3> QED
      BY <3>1, Power, BitsAssumption
  <2> HIDE DEF d
  <2>2. x * d \in Int /\ Signed(x, k) \in Int
    BY <1>1, <2>1, SignedFacts
  <2>3. Signed(x, k) \div d \in Int
    BY <2>1, <2>2
  <2>4. Trunc(x * d, k) \in 0..(2 ^ k - 1) /\ Trunc(Signed(x, k) \div d, k) \in 0..(2 ^ k - 1)
    BY ONLY <1>1, <2>2, <2>3, TruncFacts
  <2>5. x \div d \in 0..(2 ^ k - 1)
    <3> DEFINE q == x \div d
               r == x % d
    <3>1. x = q * d + r /\ r \in 0..(d - 1) /\ q \in Int
      BY <2>1, Divides
    <3> HIDE DEF q, r
    <3>2. ASSUME q < 0
          PROVE  FALSE
      <4>1. q * d <= - d
        BY <2>1, <3>1, <3>2
      <4> QED
        BY <2>1, <3>1, <4>1
    <3>3. q <= q * d
      BY <2>1, <3>1, <3>2
    <3>4. q \in 0..(2 ^ k - 1)
      BY <1>1, <2>1, <3>1, <3>2, <3>3
    <3> QED
      BY <3>4 DEF q
  <2>6. /\ Alu("shl", k, x, y) = Trunc(x * d, k)
        /\ Alu("shr", k, x, y) = x \div d
        /\ Alu("sar", k, x, y) = Trunc(Signed(x, k) \div d, k)
    <3>1. /\ Alu("shl", k, x, y) = Trunc(x * 2 ^ (y % k), k)
          /\ Alu("shr", k, x, y) = x \div 2 ^ (y % k)
          /\ Alu("sar", k, x, y) = Trunc(Signed(x, k) \div 2 ^ (y % k), k)
      BY DEF Alu
    <3> QED
      BY ONLY <3>1 DEF d
  <2> QED
    BY <1>4, <2>4, <2>5, <2>6
<1> QED
  BY <1>2, <1>3, <1>4 DEF arithNames

LEMMA EmittedRange ==
  ASSUME NEW x \in Word, NEW y \in Word, NEW name \in arithNames, NEW wide \in BOOLEAN
  PROVE  /\ Emitted(name, wide, x, y) \in Word
         /\ ~wide => Emitted(name, wide, x, y) \in 0..(2 ^ NarrowBits - 1)
<1>1. /\ WideBits \in 1..WideBits /\ NarrowBits \in 1..WideBits /\ NarrowBits \in 0..WideBits
      /\ WideBits \in 0..WideBits
  BY BitsAssumption
<1>2. x \in 0..(2 ^ WideBits - 1) /\ y \in 0..(2 ^ WideBits - 1)
  BY DEF Word
<1>3. 2 ^ NarrowBits <= 2 ^ WideBits /\ 2 ^ NarrowBits \in Nat /\ 2 ^ WideBits \in Nat
  BY <1>1, PowerGrows
<1>4. Trunc(x, NarrowBits) \in 0..(2 ^ NarrowBits - 1)
      /\ Trunc(y, NarrowBits) \in 0..(2 ^ NarrowBits - 1)
  BY <1>1, <1>2, <1>3, TruncFacts
<1>5. Alu(name, WideBits, x, y) \in 0..(2 ^ WideBits - 1)
  BY ONLY <1>1, <1>2, name \in arithNames, AluRange
<1>6. Alu(name, NarrowBits, Trunc(x, NarrowBits), Trunc(y, NarrowBits))
        \in 0..(2 ^ NarrowBits - 1)
  BY ONLY <1>1, <1>4, name \in arithNames, AluRange
<1> QED
  BY <1>3, <1>5, <1>6 DEF Emitted, Word

(* Bits that are all of a number, or two parts of it.                      *)
LEMMA SmallBits ==
  ASSUME NEW x \in 0..1
  PROVE  /\ BitOf(x, 0) = x
         /\ \A n \in 1..WideBits : BitOf(x, n) = 0
<1>1. 2 ^ 0 = 1 /\ 2 ^ 1 = 2
  <2>1. 2 ^ (0 + 1) = 2 * 2 ^ 0 /\ 0 + 1 = 1
    BY PowerAssumption, BitsAssumption
  <2> QED
    BY <2>1, PowerAssumption
<1>2. x \div 1 = x /\ x % 2 = x
  OBVIOUS
<1>3. ASSUME NEW n \in 1..WideBits
      PROVE  BitOf(x, n) = 0
  <2>1. x \in 0..(2 ^ 1 - 1) /\ 1 \in Nat
    BY <1>1
  <2> QED
    BY ONLY <2>1, n \in 1..WideBits, NoHighBits
<1> QED
  BY <1>1, <1>2, <1>3 DEF BitOf

LEMMA AndOfOnes ==
  ASSUME NEW k \in 0..WideBits, NEW x \in 0..(2 ^ k - 1), NEW j
  PROVE  Alu("and", j, x, 2 ^ k - 1) = x
<1> DEFINE ones == 2 ^ k - 1
           a == Alu("and", j, x, ones)
<1>1. 2 ^ k \in Nat \ {0} /\ ones \in 0..(2 ^ k - 1) /\ x \in Int
  BY Power, BitsAssumption
<1>2. ASSUME NEW n \in 0..(k - 1)
      PROVE  BitOf(ones, n) = 1
  <2>1. n \in 0..WideBits /\ n \in Nat /\ k - 1 - n \in Nat /\ (n + (k - 1 - n)) + 1 = k
        /\ k - 1 \in 0..WideBits /\ n + (k - 1 - n) = k - 1 /\ (k - 1) + 1 = k
    BY BitsAssumption
  <2> DEFINE d == 2 ^ n
             e == 2 ^ (k - 1 - n)
  <2>2. 2 ^ (k - 1) = d * e /\ 2 ^ k = 2 * 2 ^ (k - 1)
    BY <2>1, PowerSum, PowerAssumption, BitsAssumption
  <2>3. d \in Nat \ {0} /\ e \in Nat \ {0}
    BY <2>1, Power, BitsAssumption
  <2> HIDE DEF d, e
  <2>4. ones = (2 * e - 1) * d + (d - 1)
    BY <2>2, <2>3
  <2>5. d - 1 \in 0..(d - 1) /\ 2 * e - 1 \in Int
    BY <2>3
  <2>6. ((2 * e - 1) * d + (d - 1)) \div d = 2 * e - 1
    BY ONLY <2>3, <2>5, Quotient
  <2>7. (2 * e - 1) % 2 = 1
    BY <2>3
  <2> HIDE DEF ones
  <2> QED
    BY ONLY <2>4, <2>6, <2>7 DEF BitOf, d
<1> HIDE DEF ones
<1>3. /\ a \in 0..(2 ^ k - 1)
      /\ \A n \in 0..(WideBits - 1) :
           BitOf(a, n) = 1 <=> BitOf(x, n) = 1 /\ BitOf(ones, n) = 1
  BY <1>1, LogicBits
<1> HIDE DEF a
<1>4. ASSUME NEW n \in 0..(k - 1)
      PROVE  BitOf(a, n) = BitOf(x, n)
  <2>1. n \in 0..WideBits /\ n \in 0..(WideBits - 1) /\ a \in Int
    BY <1>1, <1>3, BitsAssumption
  <2>2. BitOf(a, n) \in 0..1 /\ BitOf(x, n) \in 0..1
    BY <1>1, <2>1, BitRange
  <2>3. BitOf(a, n) = 1 <=> BitOf(x, n) = 1
    BY <1>2, <1>3, <2>1
  <2> QED
    BY <2>2, <2>3
<1>5. SameBelow(k, a, x)
  BY <1>4 DEF SameBelow
<1> QED
  BY <1>3, <1>5, SameBits DEF a, ones

LEMMA OrOfZero ==
  ASSUME NEW k \in 0..WideBits, NEW x \in 0..(2 ^ k - 1), NEW j
  PROVE  Alu("or", j, 0, x) = x
<1> DEFINE a == Alu("or", j, 0, x)
<1>1. 2 ^ k \in Nat \ {0} /\ 0 \in 0..(2 ^ k - 1) /\ x \in Int /\ 0 \in 0..1
  BY Power, BitsAssumption
<1>2. /\ a \in 0..(2 ^ k - 1)
      /\ \A n \in 0..(WideBits - 1) :
           BitOf(a, n) = 1 <=> BitOf(0, n) = 1 \/ BitOf(x, n) = 1
  BY <1>1, LogicBits
<1> HIDE DEF a
<1>3. ASSUME NEW n \in 0..(k - 1)
      PROVE  BitOf(a, n) = BitOf(x, n)
  <2>1. n \in 0..WideBits /\ n \in 0..(WideBits - 1) /\ a \in Int /\ (n = 0 \/ n \in 1..WideBits)
    BY <1>1, <1>2, BitsAssumption
  <2>2. BitOf(a, n) \in 0..1 /\ BitOf(x, n) \in 0..1
    BY <1>1, <2>1, BitRange
  <2>3. BitOf(0, n) = 0
    BY <1>1, <2>1, SmallBits
  <2> QED
    BY <1>2, <2>1, <2>2, <2>3
<1>4. SameBelow(k, a, x)
  BY <1>3 DEF SameBelow
<1> QED
  BY <1>2, <1>4, SameBits DEF a

(* The sign bit.                                                           *)
LEMMA TopBitOf ==
  ASSUME NEW k \in 1..WideBits, NEW x \in 0..(2 ^ k - 1)
  PROVE  BitOf(x, k - 1) = IF x >= 2 ^ (k - 1) THEN 1 ELSE 0
<1> DEFINE d == 2 ^ (k - 1)
<1>1. d \in Nat \ {0} /\ 2 ^ k = 2 * d
  <2>1. k - 1 \in 0..WideBits /\ (k - 1) + 1 = k
    BY BitsAssumption
  <2> QED
    BY <2>1, Power, PowerAssumption, BitsAssumption
<1> HIDE DEF d
<1>2. CASE x >= d
  <2>1. x = 1 * d + (x - d) /\ x - d \in 0..(d - 1)
    BY <1>1, <1>2
  <2>2. (1 * d + (x - d)) \div d = 1
    BY ONLY <1>1, <2>1, 1 \in Int, Quotient
  <2>3. 1 % 2 = 1
    OBVIOUS
  <2> QED
    BY ONLY <1>2, <2>1, <2>2, <2>3 DEF BitOf, d
<1>3. CASE x < d
  <2>1. x = 0 * d + x /\ x \in 0..(d - 1)
    BY <1>1, <1>3
  <2>2. (0 * d + x) \div d = 0
    BY ONLY <1>1, <2>1, 0 \in Int, Quotient
  <2>3. 0 % 2 = 0 /\ ~(x >= d)
    BY <1>1, <1>3
  <2> QED
    BY ONLY <2>1, <2>2, <2>3 DEF BitOf, d
<1> QED
  BY <1>1, <1>2, <1>3

-----------------------------------------------------------------------------
(* The ops on flags and bits.                                              *)

LEMMA SmallPowers ==
  ASSUME 3 <= WideBits
  PROVE  2 ^ 0 = 1 /\ 2 ^ 1 = 2 /\ 2 ^ 2 = 4 /\ 2 ^ 3 = 8 /\ 2 ^ 4 = 16
<1>1. 0 \in 0..WideBits /\ 1 \in 0..WideBits /\ 2 \in 0..WideBits /\ 3 \in 0..WideBits
  BY BitsAssumption
<1>2. /\ 2 ^ (0 + 1) = 2 * 2 ^ 0 /\ 2 ^ (1 + 1) = 2 * 2 ^ 1
      /\ 2 ^ (2 + 1) = 2 * 2 ^ 2 /\ 2 ^ (3 + 1) = 2 * 2 ^ 3
  BY ONLY <1>1, PowerAssumption
<1>3. 0 + 1 = 1 /\ 1 + 1 = 2 /\ 2 + 1 = 3 /\ 3 + 1 = 4
  OBVIOUS
<1> QED
  BY <1>2, <1>3, PowerAssumption

LEMMA LowBits ==
  ASSUME NEW x \in Int, 3 <= WideBits
  PROVE  /\ BitOf(x, 0) = x % 2
         /\ BitOf(x, 1) = (x \div 2) % 2
         /\ BitOf(x, 2) = (x \div 4) % 2
<1>1. x \div 1 = x
  OBVIOUS
<1> QED
  BY <1>1, SmallPowers DEF BitOf

(* The flag for zero, shifted, and the sign flag.                          *)
LEMMA FlagPair ==
  ASSUME NEW z \in 0..1, NEW g \in 0..1, NEW j, 3 <= WideBits
  PROVE  Alu("or", j, z * 4, g) = z * 4 + g
<1> DEFINE x == z * 4
           a == Alu("or", j, x, g)
           s == x + g
<1>1. x \in {0, 4} /\ s \in {0, 1, 4, 5} /\ g \in {0, 1}
  OBVIOUS
<1>2. 3 \in 0..WideBits /\ 2 ^ 3 = 8
  BY SmallPowers, BitsAssumption
<1>3. x \in 0..(2 ^ 3 - 1) /\ g \in 0..(2 ^ 3 - 1) /\ s \in 0..(2 ^ 3 - 1)
  BY <1>1, <1>2
<1>4. /\ a \in 0..(2 ^ 3 - 1)
      /\ \A n \in 0..(WideBits - 1) : BitOf(a, n) = 1 <=> BitOf(x, n) = 1 \/ BitOf(g, n) = 1
  <2> HIDE DEF x, s
  <2>1. /\ Alu("or", j, x, g) \in 0..(2 ^ 3 - 1)
        /\ \A n \in 0..(WideBits - 1) :
             BitOf(Alu("or", j, x, g), n) = 1 <=> BitOf(x, n) = 1 \/ BitOf(g, n) = 1
    <3> DEFINE k == 3
    <3>1. k \in 0..WideBits /\ x \in 0..(2 ^ k - 1) /\ g \in 0..(2 ^ k - 1)
      BY <1>2, <1>3
    <3> HIDE DEF k
    <3>2. /\ Alu("or", j, x, g) \in 0..(2 ^ k - 1)
          /\ \A n \in 0..(WideBits - 1) :
               BitOf(Alu("or", j, x, g), n) = 1 <=> BitOf(x, n) = 1 \/ BitOf(g, n) = 1
      BY ONLY <3>1, LogicBits
    <3> QED
      BY ONLY <3>2 DEF k
  <2> QED
    BY <2>1
<1> HIDE DEF a
<1>5. a \in Int /\ x \in Int /\ g \in Int /\ s \in Int
  BY <1>1, <1>2, <1>4
<1>6. ASSUME NEW n \in 0..(3 - 1)
      PROVE  BitOf(a, n) = BitOf(s, n)
  <2>1. n \in 0..(WideBits - 1) /\ n \in 0..WideBits /\ n \in {0, 1, 2}
    BY BitsAssumption
  <2>2. BitOf(a, n) \in 0..1 /\ BitOf(s, n) \in 0..1
    BY <1>5, <2>1, BitRange
  <2>3. BitOf(s, n) = 1 <=> BitOf(x, n) = 1 \/ BitOf(g, n) = 1
    <3>1. /\ BitOf(x, 0) = x % 2 /\ BitOf(x, 1) = (x \div 2) % 2 /\ BitOf(x, 2) = (x \div 4) % 2
          /\ BitOf(g, 0) = g % 2 /\ BitOf(g, 1) = (g \div 2) % 2 /\ BitOf(g, 2) = (g \div 4) % 2
          /\ BitOf(s, 0) = s % 2 /\ BitOf(s, 1) = (s \div 2) % 2 /\ BitOf(s, 2) = (s \div 4) % 2
      BY <1>5, LowBits
    <3>2. \A y \in 0..1 : \A h \in 0..1 :
            /\ (y * 4 + h) % 2 = 1 <=> (y * 4) % 2 = 1 \/ h % 2 = 1
            /\ ((y * 4 + h) \div 2) % 2 = 1 <=> ((y * 4) \div 2) % 2 = 1 \/ (h \div 2) % 2 = 1
            /\ ((y * 4 + h) \div 4) % 2 = 1 <=> ((y * 4) \div 4) % 2 = 1 \/ (h \div 4) % 2 = 1
      OBVIOUS
    <3> QED
      BY <2>1, <3>1, <3>2
  <2>4. BitOf(a, n) = 1 <=> BitOf(s, n) = 1
    BY <1>4, <2>1, <2>3
  <2> QED
    BY <2>2, <2>4
<1> HIDE DEF x, s
<1>7. SameBelow(3, a, s)
  BY <1>6 DEF SameBelow
<1> QED
  BY <1>2, <1>3, <1>4, <1>7, SameBits DEF a, s, x

LEMMA ShiftedFlag ==
  ASSUME NEW z \in 0..1, 4 <= NarrowBits
  PROVE  Emitted("shl", FALSE, z, 2) = z * 4
<1>1. /\ NarrowBits \in 0..WideBits /\ 4 \in 0..NarrowBits /\ 3 <= WideBits
      /\ NarrowBits \in Nat
  BY BitsAssumption
<1>2. 2 ^ NarrowBits \in Nat /\ 16 <= 2 ^ NarrowBits
  <2>1. 2 ^ 4 <= 2 ^ NarrowBits /\ 2 ^ NarrowBits \in Nat
    BY <1>1, PowerGrows
  <2> QED
    BY <1>1, <2>1, SmallPowers
<1>3. z \in 0..(2 ^ NarrowBits - 1) /\ 2 \in 0..(2 ^ NarrowBits - 1)
      /\ z * 4 \in 0..(2 ^ NarrowBits - 1)
  BY <1>2
<1>4. /\ Trunc(z, NarrowBits) = z /\ Trunc(2, NarrowBits) = 2
      /\ Trunc(z * 4, NarrowBits) = z * 4
  <2>1. z \in Int /\ 2 \in Int /\ z * 4 \in Int
    OBVIOUS
  <2> QED
    BY ONLY <1>1, <1>3, <2>1, TruncFacts
<1>5. 2 % NarrowBits = 2
  BY <1>1
<1>6. Alu("shl", NarrowBits, z, 2) = Trunc(z * 2 ^ (2 % NarrowBits), NarrowBits)
  BY AluIs
<1>7. z * 2 ^ (2 % NarrowBits) = z * 4
  BY <1>1, <1>5, SmallPowers
<1> QED
  BY <1>4, <1>6, <1>7 DEF Emitted

(* The ones of a wide word, where only the low ones count.                 *)
LEMMA OnesTruncated ==
  ASSUME WideBits = 2 * NarrowBits
  PROVE  Trunc(2 ^ WideBits - 1, NarrowBits) = 2 ^ NarrowBits - 1
<1> DEFINE d == 2 ^ NarrowBits
<1>1. NarrowBits \in 0..WideBits /\ NarrowBits \in Nat /\ NarrowBits + NarrowBits = WideBits
      /\ WideBits <= WideBits + 1
  BY BitsAssumption
<1>2. 2 ^ WideBits = d * d
  BY ONLY <1>1, PowerSum
<1>3. d \in Nat \ {0}
  BY <1>1, Power, BitsAssumption
<1> HIDE DEF d
<1>4. 2 ^ WideBits - 1 = (d - 1) + (d - 1) * d /\ d - 1 \in Int /\ d - 1 \in 0..(d - 1)
  BY <1>2, <1>3
<1>5. /\ Trunc((d - 1) + (d - 1) * d, NarrowBits) = Trunc(d - 1, NarrowBits)
      /\ Trunc(d - 1, NarrowBits) = d - 1
  BY ONLY <1>1, <1>4, TruncFacts DEF d
<1> QED
  BY <1>4, <1>5 DEF d

(* And of bits is their product, and xor with one the other bit.           *)
LEMMA BitLogic ==
  ASSUME NEW x \in 0..1, NEW y \in 0..1, NEW j
  PROVE  /\ Alu("and", j, x, y) = x * y
         /\ Alu("xor", j, x, 1) = 1 - x
<1> DEFINE a == Alu("and", j, x, y)
           o == Alu("xor", j, x, 1)
<1>1. 1 \in 0..WideBits /\ 0 \in 0..WideBits /\ 0 \in 0..(WideBits - 1) /\ 2 ^ 1 = 2 /\ 2 ^ 0 = 1
  <2>1. 0 \in 0..WideBits /\ 2 ^ (0 + 1) = 2 * 2 ^ 0 /\ 2 ^ 0 = 1 /\ 0 + 1 = 1
    BY PowerAssumption, BitsAssumption
  <2> QED
    BY <2>1, BitsAssumption
<1>2. x \in 0..(2 ^ 1 - 1) /\ y \in 0..(2 ^ 1 - 1) /\ 1 \in 0..(2 ^ 1 - 1)
  BY <1>1
<1>3. /\ a \in 0..(2 ^ 1 - 1) /\ o \in 0..(2 ^ 1 - 1)
      /\ BitOf(a, 0) = 1 <=> BitOf(x, 0) = 1 /\ BitOf(y, 0) = 1
      /\ BitOf(o, 0) = 1 <=> BitOf(x, 0) # BitOf(1, 0)
  <2>1. /\ Alu("and", j, x, y) \in 0..(2 ^ 1 - 1)
        /\ \A n \in 0..(WideBits - 1) :
             BitOf(Alu("and", j, x, y), n) = 1 <=> BitOf(x, n) = 1 /\ BitOf(y, n) = 1
    <3> DEFINE k == 1
    <3>1. k \in 0..WideBits /\ x \in 0..(2 ^ k - 1) /\ y \in 0..(2 ^ k - 1)
      BY <1>1, <1>2
    <3> HIDE DEF k
    <3>2. /\ Alu("and", j, x, y) \in 0..(2 ^ k - 1)
          /\ \A n \in 0..(WideBits - 1) :
               BitOf(Alu("and", j, x, y), n) = 1 <=> BitOf(x, n) = 1 /\ BitOf(y, n) = 1
      BY ONLY <3>1, LogicBits
    <3> QED
      BY ONLY <3>2 DEF k
  <2>2. /\ Alu("xor", j, x, 1) \in 0..(2 ^ 1 - 1)
        /\ \A n \in 0..(WideBits - 1) :
             BitOf(Alu("xor", j, x, 1), n) = 1 <=> BitOf(x, n) # BitOf(1, n)
    <3> DEFINE k == 1
               i == 1
    <3>1. k \in 0..WideBits /\ x \in 0..(2 ^ k - 1) /\ i \in 0..(2 ^ k - 1)
      BY <1>1, <1>2
    <3> HIDE DEF k, i
    <3>2. /\ Alu("xor", j, x, i) \in 0..(2 ^ k - 1)
          /\ \A n \in 0..(WideBits - 1) :
               BitOf(Alu("xor", j, x, i), n) = 1 <=> BitOf(x, n) # BitOf(i, n)
      BY ONLY <3>1, LogicBits
    <3> QED
      BY ONLY <3>2 DEF k, i
  <2> QED
    BY <1>1, <2>1, <2>2
<1> HIDE DEF a, o
<1>4. a \in 0..1 /\ o \in 0..1 /\ 1 \in 0..1
  BY <1>1, <1>3
<1>5. BitOf(a, 0) = a /\ BitOf(o, 0) = o /\ BitOf(x, 0) = x /\ BitOf(y, 0) = y /\ BitOf(1, 0) = 1
  BY <1>4, SmallBits
<1>6. (a = 1 <=> x = 1 /\ y = 1) /\ (o = 1 <=> x # 1)
  BY <1>3, <1>5
<1> QED
  BY <1>4, <1>6 DEF a, o
=============================================================================
