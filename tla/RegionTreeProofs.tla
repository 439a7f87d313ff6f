-------------------------- MODULE RegionTreeProofs --------------------------
(***************************************************************************)
(* The region tree for every id width, every set of libraries and every    *)
(* nesting of loads, scopes and enumerations.                              *)
(***************************************************************************)
EXTENDS RegionTree, SeqLemmas

-----------------------------------------------------------------------------
(* Ids. *)

\* Powers of two are positive and double.
LEMMA PowFacts ==
  /\ pow2[0] = 1
  /\ \A n \in Nat : pow2[n] \in Nat \ {0} /\ pow2[n + 1] = 2 * pow2[n]
<1> DEFINE G(f) == [n \in Nat |-> IF n = 0 THEN 1 ELSE 2 * f[n-1]]
           h == [n \in Nat |-> [v \in Nat |-> 2 * v]]
<1>1. h \in [Nat -> [Nat -> Nat]] /\ (\A n, v \in Nat : h[n][v] = 2 * v) /\ 1 \in Nat
  OBVIOUS
<1> HIDE DEF h
<1>2. \E f : Recurses(Nat, 1, h, f)
  BY <1>1, PrimitiveRecursion
<1>3. \E f : f = G(f)
  <2>1. PICK f \in [Nat -> Nat] : f[0] = 1 /\ \A n \in Nat : f[n + 1] = h[n][f[n]]
    BY <1>2 DEF Recurses
  <2>2. \A n \in Nat : n # 0 => n - 1 \in Nat /\ (n - 1) + 1 = n
    OBVIOUS
  <2>3. \A n \in Nat : n # 0 => f[n] = 2 * f[n-1]
    <3> TAKE n \in Nat
    <3> HAVE n # 0
    <3>1. f[n] = h[n-1][f[n-1]] /\ f[n-1] \in Nat
      BY <2>1, <2>2
    <3> QED BY <1>1, <2>2, <3>1
  <2>4. \A n \in Nat : f[n] = G(f)[n]
    BY <2>1, <2>3
  <2> QED BY <2>4
<1>4. pow2 = G(pow2)
  BY <1>3 DEF pow2
<1> HIDE DEF G
<1>5. pow2[0] = 1 /\ \A n \in Nat : n # 0 => pow2[n] = 2 * pow2[n-1]
  BY <1>4 DEF G
<1>6. \A n \in Nat : pow2[n + 1] = 2 * pow2[n]
  <2> TAKE n \in Nat
  <2>1. n + 1 \in Nat /\ n + 1 # 0 /\ (n + 1) - 1 = n
    OBVIOUS
  <2> QED BY <1>5, <2>1
<1> DEFINE Good == {n \in Nat : pow2[n] \in Nat \ {0}}
<1>7. 0 \in Good /\ \A n \in Nat : n \in Good => n + 1 \in Good
  BY <1>5, <1>6
<1> HIDE DEF Good
<1>8. \A n \in Nat : n \in Good
  BY <1>7, SetInduction
<1> QED BY <1>5, <1>6, <1>8 DEF Good

\* The powers that bound ids.
LEMMA IdsFacts ==
  /\ W \in Nat \ {0} /\ pow2[W] \in Nat \ {0} /\ Ids \subseteq Nat /\ ROOT \in Ids
  /\ NULL \notin Ids
  BY SizeAssumption, PowFacts DEF Ids, ROOT, NULL

\* What bit n adds to the result of x | y.
OrBit(x, y, n) == IF Bit(x, n) \/ Bit(y, n) THEN pow2[n] ELSE 0

\* How the or is summed up, low bits first.
OrSums(x, y, k) ==
  k[0] = 0 /\ \A n \in 0..W : n # 0 => k[n] = k[n-1] + OrBit(x, y, n-1)

\* The recursion of BitOr, unfolded once and for all.
LEMMA BitOrUnfolds ==
  ASSUME NEW x, NEW y
  PROVE  \E k : OrSums(x, y, k) /\ BitOr(x, y) = k[W]
<1> DEFINE b(n) == OrBit(x, y, n)
           G(f) == [n \in 0..W |-> IF n = 0 THEN 0
                                   ELSE f[n-1] + IF Bit(x, n-1) \/ Bit(y, n-1) THEN pow2[n-1] ELSE 0]
           h == [n \in Nat |-> [v \in Nat |-> v + b(n)]]
           k == CHOOSE f : f = G(f)
<1>0. W \in Nat /\ \A n \in Nat : b(n) \in Nat
  BY PowFacts, SizeAssumption DEF OrBit
<1> HIDE DEF b
<1>1. h \in [Nat -> [Nat -> Nat]] /\ (\A n, v \in Nat : h[n][v] = v + b(n)) /\ 0 \in Nat
  BY <1>0
<1> HIDE DEF h
<1>2. \E f : Recurses(Nat, 0, h, f)
  BY <1>1, PrimitiveRecursion
<1>3. \E f : f = G(f)
  <2>1. PICK f \in [Nat -> Nat] : f[0] = 0 /\ \A n \in Nat : f[n + 1] = h[n][f[n]]
    BY <1>2 DEF Recurses
  <2> DEFINE g == [n \in 0..W |-> f[n]]
  <2>2. \A n \in 0..W : n # 0 => n - 1 \in Nat /\ (n - 1) + 1 = n /\ n - 1 \in 0..W
    BY <1>0
  <2>3. \A n \in 0..W : n # 0 => f[n] = f[n-1] + b(n-1)
    <3> TAKE n \in 0..W
    <3> HAVE n # 0
    <3> DEFINE m == n - 1
    <3>1. m \in Nat /\ m + 1 = n
      BY <2>2
    <3> HIDE DEF m
    <3>2. f[m + 1] = h[m][f[m]] /\ f[m] \in Nat
      BY <2>1, <3>1
    <3>3. h[m][f[m]] = f[m] + b(m)
      BY <1>1, <3>1, <3>2
    <3> QED BY <3>1, <3>2, <3>3 DEF m
  <2>4. \A n \in 0..W : g[n] = f[n]
    OBVIOUS
  <2>5. \A n \in 0..W : g[n] = G(g)[n]
    BY <2>1, <2>2, <2>3, <2>4 DEF b, OrBit
  <2>6. g = G(g)
    BY <2>5
  <2> QED BY <2>6
<1>4. k = G(k)
  BY <1>3
<1> HIDE DEF k
<1>5. k[0] = 0 /\ \A n \in 0..W : n # 0 => k[n] = k[n-1] + b(n-1)
  BY <1>0, <1>4 DEF b, OrBit
<1> HIDE DEF G
<1>6. OrSums(x, y, k)
  BY <1>5 DEF b, OrSums
<1>7. BitOr(x, y) = k[W]
  BY DEF BitOr, k, G
<1> QED BY <1>6, <1>7

\* A bitwise or fits the width.
LEMMA BitOrIsId ==
  ASSUME NEW x, NEW y
  PROVE  BitOr(x, y) \in Ids
<1>1. PICK k : OrSums(x, y, k) /\ BitOr(x, y) = k[W]
  BY BitOrUnfolds
<1> DEFINE P(n) == n <= W => k[n] \in 0..pow2[n]-1
           Good == {n \in Nat : P(n)}
<1>2. W \in Nat
  BY SizeAssumption
<1>3. P(0)
  BY <1>1, PowFacts DEF OrSums
<1>4. ASSUME NEW n \in Nat, P(n) PROVE P(n + 1)
  <2> SUFFICES ASSUME n + 1 <= W PROVE k[n + 1] \in 0..pow2[n + 1]-1
    OBVIOUS
  <2>1. n <= W /\ n + 1 \in 0..W /\ n + 1 # 0 /\ (n + 1) - 1 = n
    BY <1>2
  <2>2. k[n + 1] = k[n] + OrBit(x, y, n) /\ k[n] \in 0..pow2[n]-1
    BY <1>1, <1>4, <2>1 DEF OrSums
  <2>3. /\ pow2[n + 1] = 2 * pow2[n] /\ pow2[n] \in Nat
        /\ OrBit(x, y, n) \in Nat /\ OrBit(x, y, n) <= pow2[n]
    BY PowFacts DEF OrBit
  <2> QED BY <2>2, <2>3
<1> HIDE DEF P
<1>5. 0 \in Good /\ \A n \in Nat : n \in Good => n + 1 \in Good
  BY <1>3, <1>4
<1> HIDE DEF Good
<1>6. \A n \in Nat : n \in Good
  BY <1>5, SetInduction
<1>7. P(W)
  BY <1>2, <1>6 DEF Good
<1> QED BY <1>1, <1>2, <1>7 DEF P, Ids

-----------------------------------------------------------------------------
(* Prefixes and slots: the or of disjoint bits is a sum. *)

\* Shifting twice.
LEMMA PowSum ==
  \A a, b \in Nat : pow2[a + b] = pow2[a] * pow2[b]
<1> SUFFICES ASSUME NEW a \in Nat
             PROVE  \A b \in Nat : pow2[a + b] = pow2[a] * pow2[b]
  OBVIOUS
<1> DEFINE Good == {b \in Nat : pow2[a + b] = pow2[a] * pow2[b]}
<1>1. 0 \in Good
  BY PowFacts
<1>2. ASSUME NEW b \in Nat, b \in Good PROVE b + 1 \in Good
  <2>1. pow2[a + (b + 1)] = 2 * pow2[a + b]
    <3>1. a + (b + 1) = (a + b) + 1 /\ a + b \in Nat
      OBVIOUS
    <3> QED BY <3>1, PowFacts
  <2>2. pow2[b + 1] = 2 * pow2[b] /\ pow2[a] \in Nat /\ pow2[b] \in Nat
    BY PowFacts
  <2>3. pow2[a + b] = pow2[a] * pow2[b]
    BY <1>2
  <2>4. \A u, v \in Nat : 2 * (u * v) = u * (2 * v)
    OBVIOUS
  <2>5. 2 * (pow2[a] * pow2[b]) = pow2[a] * (2 * pow2[b])
    BY <2>2, <2>4
  <2>6. pow2[a + (b + 1)] = pow2[a] * pow2[b + 1]
    BY <2>1, <2>2, <2>3, <2>5
  <2> QED BY <2>6
<1> HIDE DEF Good
<1>3. \A b \in Nat : b \in Good
  BY <1>1, <1>2, SetInduction
<1> QED BY <1>3 DEF Good

\* Quotient and remainder.
LEMMA DivMod ==
  ASSUME NEW x \in Nat, NEW d \in Nat \ {0}
  PROVE  /\ x \div d \in Nat /\ x % d \in 0..d-1
         /\ x = d * (x \div d) + (x % d)
  OBVIOUS

\* They are the only ones.
LEMMA DivModUnique ==
  ASSUME NEW q \in Nat, NEW d \in Nat \ {0}, NEW r \in 0..d-1
  PROVE  (q * d + r) % d = r /\ (q * d + r) \div d = q
  OBVIOUS

\* One more bit of the remainder.
LEMMA NextBit ==
  ASSUME NEW x \in Nat, NEW n \in Nat
  PROVE  x % pow2[n + 1] = (x % pow2[n]) + IF Bit(x, n) THEN pow2[n] ELSE 0
<1> DEFINE d == pow2[n]
           q == x \div d
           r == x % d
           h == q \div 2
           e == q % 2
<1>1. d \in Nat \ {0} /\ pow2[n + 1] = 2 * d
  BY PowFacts
<1> HIDE DEF d
<1>2. q \in Nat /\ r \in 0..d-1 /\ x = d * q + r
  BY <1>1, DivMod
<1>3. Bit(x, n) <=> e = 1
  BY DEF Bit, d
<1> HIDE DEF q, r
<1>4. h \in Nat /\ e \in 0..1 /\ q = 2 * h + e
  BY <1>2
<1> HIDE DEF h, e
<1>5. x = h * (2 * d) + (d * e + r)
  <2>1. d * q = h * (2 * d) + d * e
    BY <1>1, <1>4
  <2> QED BY <1>1, <1>2, <1>4, <2>1
<1>6. d * e = (IF e = 1 THEN d ELSE 0) /\ d * e + r \in 0..2*d-1 /\ 2 * d \in Nat \ {0}
  BY <1>1, <1>2, <1>4
<1>7. (h * (2 * d) + (d * e + r)) % (2 * d) = d * e + r
  BY <1>4, <1>6, DivModUnique
<1>8. x % (2 * d) = d * e + r
  BY <1>5, <1>7
<1> QED BY <1>1, <1>2, <1>3, <1>6, <1>8 DEF d, r

\* A multiple of pow2[m] has no bit below m.
LEMMA LowBits ==
  ASSUME NEW q \in Nat, NEW m \in Nat, NEW i \in Nat, i < m
  PROVE  ~Bit(q * pow2[m], i)
<1> DEFINE j == (m - i) - 1
<1>1. j \in Nat /\ m = i + (j + 1) /\ j + 1 \in Nat
  OBVIOUS
<1> HIDE DEF j
<1>2. pow2[m] = pow2[i] * (2 * pow2[j])
  <2>1. pow2[i + (j + 1)] = pow2[i] * pow2[j + 1]
    BY <1>1, PowSum
  <2>2. pow2[j + 1] = 2 * pow2[j]
    BY <1>1, PowFacts
  <2> QED BY <1>1, <2>1, <2>2
<1> DEFINE a == pow2[i]
           b == pow2[j]
<1>3. a \in Nat \ {0} /\ b \in Nat
  BY <1>1, PowFacts
<1>4. pow2[m] = a * (2 * b)
  BY <1>2
<1> HIDE DEF a, b
<1>5. q * (a * (2 * b)) = (2 * (q * b)) * a + 0
  BY <1>3
<1>6. (2 * (q * b)) \in Nat /\ 0 \in 0..a-1
  BY <1>3
<1>7. ((2 * (q * b)) * a + 0) \div a = 2 * (q * b)
  BY <1>3, <1>6, DivModUnique
<1>8. (2 * (q * b)) % 2 = 0
  <2>1. q * b \in Nat
    BY <1>3
  <2>2. \A v \in Nat : (2 * v) % 2 = 0
    OBVIOUS
  <2> QED BY <2>1, <2>2
<1>9. (q * pow2[m]) \div pow2[i] = 2 * (q * b)
  BY <1>4, <1>5, <1>7 DEF a
<1> QED BY <1>8, <1>9 DEF Bit

\* A number below pow2[m] has no bit from m on.
LEMMA HighBits ==
  ASSUME NEW m \in Nat, NEW y \in 0..pow2[m]-1, NEW i \in Nat, m <= i
  PROVE  ~Bit(y, i)
<1> DEFINE j == i - m
<1>1. j \in Nat /\ i = m + j
  OBVIOUS
<1> HIDE DEF j
<1>2. pow2[i] = pow2[m] * pow2[j] /\ pow2[m] \in Nat \ {0} /\ pow2[j] \in Nat \ {0}
  BY <1>1, PowSum, PowFacts
<1>3. \A u, v \in Nat \ {0} : u * v \in Nat \ {0} /\ u <= u * v
  OBVIOUS
<1>4. pow2[i] \in Nat \ {0} /\ pow2[m] <= pow2[i]
  BY <1>2, <1>3
<1>5. y \in 0..pow2[i]-1 /\ 0 * pow2[i] + y = y
  BY <1>2, <1>4
<1>6. y \div pow2[i] = 0
  BY <1>4, <1>5, DivModUnique
<1> QED BY <1>6 DEF Bit

\* The or of a prefix and a slot below it is their sum.
LEMMA OrIsSum ==
  ASSUME NEW q \in Nat, NEW m \in Nat, m <= W, NEW y \in 0..pow2[m]-1,
         q * pow2[m] \in Ids
  PROVE  BitOr(q * pow2[m], y) = q * pow2[m] + y
<1> DEFINE x == q * pow2[m]
<1>0. x \in Nat /\ x < pow2[W] /\ y \in Nat /\ W \in Nat
  BY SizeAssumption, IdsFacts, PowFacts DEF Ids
<1>1. \A i \in Nat : ~Bit(x, i) \/ ~Bit(y, i)
  <2> TAKE i \in Nat
  <2>1. i < m \/ m <= i
    OBVIOUS
  <2> QED BY <2>1, LowBits, HighBits
<1> HIDE DEF x
<1>2. PICK k : OrSums(x, y, k) /\ BitOr(x, y) = k[W]
  BY BitOrUnfolds
<1> DEFINE P(n) == n <= W => k[n] = (x % pow2[n]) + (y % pow2[n])
           Good == {n \in Nat : P(n)}
<1>3. P(0)
  <2>1. k[0] = 0 /\ pow2[0] = 1
    BY <1>2, PowFacts DEF OrSums
  <2> QED BY <1>0, <2>1
<1>4. ASSUME NEW n \in Nat, P(n) PROVE P(n + 1)
  <2> SUFFICES ASSUME n + 1 <= W
               PROVE  k[n + 1] = (x % pow2[n + 1]) + (y % pow2[n + 1])
    OBVIOUS
  <2>1. n <= W /\ n + 1 \in 0..W /\ n + 1 # 0 /\ (n + 1) - 1 = n
    BY <1>0
  <2>2. k[n + 1] = k[n] + OrBit(x, y, n) /\ k[n] = (x % pow2[n]) + (y % pow2[n])
    BY <1>2, <1>4, <2>1 DEF OrSums
  <2>3. /\ x % pow2[n + 1] = (x % pow2[n]) + IF Bit(x, n) THEN pow2[n] ELSE 0
        /\ y % pow2[n + 1] = (y % pow2[n]) + IF Bit(y, n) THEN pow2[n] ELSE 0
    BY <1>0, NextBit
  <2>4. pow2[n] \in Nat \ {0} /\ x % pow2[n] \in Nat /\ y % pow2[n] \in Nat
    <3>1. pow2[n] \in Nat \ {0}
      BY PowFacts
    <3>2. \A u \in Nat, d \in Nat \ {0} : u % d \in Nat
      OBVIOUS
    <3> QED BY <1>0, <3>1, <3>2
  <2>5. OrBit(x, y, n) = (IF Bit(x, n) THEN pow2[n] ELSE 0) + IF Bit(y, n) THEN pow2[n] ELSE 0
    BY <1>1, <2>4 DEF OrBit
  <2> HIDE DEF P
  <2> QED BY <2>2, <2>3, <2>4, <2>5
<1> HIDE DEF P
<1>5. 0 \in Good /\ \A n \in Nat : n \in Good => n + 1 \in Good
  BY <1>3, <1>4
<1> HIDE DEF Good
<1>6. \A n \in Nat : n \in Good
  BY <1>5, SetInduction
<1>7. k[W] = (x % pow2[W]) + (y % pow2[W])
  BY <1>0, <1>6 DEF Good, P
<1>8. x % pow2[W] = x /\ y % pow2[W] = y
  <2>1. pow2[W] \in Nat \ {0} /\ pow2[m] <= pow2[W]
    <3>1. \A u, v \in Nat \ {0} : u <= u * v
      OBVIOUS
    <3>2. W = m + (W - m) /\ W - m \in Nat
      BY <1>0
    <3>3. pow2[W] = pow2[m] * pow2[W - m]
      BY <3>2, PowSum
    <3> QED BY <1>0, <3>1, <3>2, <3>3, PowFacts
  <2>2. y < pow2[m] /\ pow2[m] \in Nat
    BY PowFacts
  <2>3. y < pow2[W]
    BY <1>0, <2>1, <2>2
  <2> QED BY <1>0, <2>1, <2>3
<1> QED BY <1>2, <1>7, <1>8 DEF x

\* A shorter prefix of a prefix.
LEMMA MaskedTwice ==
  ASSUME NEW x \in Nat, NEW k \in Nat, NEW l \in Nat, k <= l, l <= W
  PROVE  Masked(Masked(x, l), k) = Masked(x, k)
<1> DEFINE d == pow2[W - l]
           e == pow2[l - k]
           q == x \div d
           r == x % d
           h == q \div e
           t == q % e
<1>0. W \in Nat /\ W - l \in Nat /\ l - k \in Nat /\ W - k = (W - l) + (l - k)
  BY SizeAssumption
<1>1. d \in Nat \ {0} /\ e \in Nat \ {0}
  BY <1>0, PowFacts
<1>2. pow2[W - k] = d * e
  BY <1>0, PowSum
<1> HIDE DEF d, e
<1>3. q \in Nat /\ r \in 0..d-1 /\ x = d * q + r
  BY <1>1, DivMod
<1>4. Masked(x, l) = x - r
  BY DEF Masked, d, r
<1> HIDE DEF q, r
<1>5. h \in Nat /\ t \in 0..e-1 /\ q = e * h + t
  BY <1>1, <1>3, DivMod
<1> HIDE DEF h, t
<1>6. d * e \in Nat \ {0} /\ d * t + r \in 0..(d * e)-1 /\ d * t + 0 \in 0..(d * e)-1
  <2>1. d * t + d <= d * e
    <3>1. t + 1 <= e /\ d * t + d = d * (t + 1)
      BY <1>1, <1>5
    <3>2. \A u, v \in Nat : u <= v => d * u <= d * v
      BY <1>1
    <3> QED BY <1>1, <1>5, <3>1, <3>2
  <2>2. d * t \in Nat /\ d * e \in Nat
    BY <1>1, <1>5
  <2> QED BY <1>1, <1>3, <2>1, <2>2
<1>7. /\ d * q + r = h * (d * e) + (d * t + r)
      /\ d * q + 0 = h * (d * e) + (d * t + 0)
  <2>1. d * q = h * (d * e) + d * t
    BY <1>1, <1>3, <1>5
  <2>2. d * q \in Nat /\ d * t \in Nat /\ h * (d * e) \in Nat /\ r \in Nat
    BY <1>1, <1>3, <1>5, <1>6
  <2> QED BY <2>1, <2>2
<1>8. (d * q + r) % (d * e) = d * t + r /\ (d * q + 0) % (d * e) = d * t + 0
  <2>1. (h * (d * e) + (d * t + r)) % (d * e) = d * t + r
    BY <1>5, <1>6, DivModUnique
  <2>2. (h * (d * e) + (d * t + 0)) % (d * e) = d * t + 0
    BY <1>5, <1>6, DivModUnique
  <2> QED BY <1>7, <2>1, <2>2
<1>9. x - r = d * q + 0
  BY <1>1, <1>3
<1>10. Masked(x, k) = x - (d * t + r)
  BY <1>2, <1>3, <1>8 DEF Masked
<1>11. Masked(x - r, k) = (x - r) - (d * t + 0)
  BY <1>2, <1>8, <1>9 DEF Masked
<1>12. d * t \in Nat
  BY <1>1, <1>5
<1> QED BY <1>3, <1>4, <1>10, <1>11, <1>12

\* Where the ids of a parent and its claimed child lie: the parent's is a
\* multiple of pow2[W - plen], the child adds its slot below that prefix.
LEMMA CandidateFacts ==
  ASSUME NEW pid \in Ids, NEW plen \in Nat, NEW g \in Nat, plen + g < W,
         pid % pow2[W - plen] = 0,
         NEW s \in SlotRange(plen + g, g)
  PROVE  /\ CandidateId(pid, plen + g, s) % pow2[W - (plen + g)] = 0
         /\ Masked(CandidateId(pid, plen + g, s), plen) = pid
<1> DEFINE m == W - plen
           n == W - (plen + g)
           q == pid \div pow2[m]
           y == s * pow2[n]
<1>0. W \in Nat /\ pid \in Nat /\ pid < pow2[W]
  BY SizeAssumption, IdsFacts DEF Ids
<1>1. m \in Nat /\ n \in Nat /\ m = g + n /\ m <= W /\ W = m + plen /\ plen + g # W
  BY <1>0
<1> HIDE DEF m, n
<1>2. /\ pow2[m] = pow2[g] * pow2[n] /\ pow2[W] = pow2[m] * pow2[plen]
      /\ pow2[m] \in Nat \ {0} /\ pow2[n] \in Nat \ {0}
      /\ pow2[g] \in Nat \ {0} /\ pow2[plen] \in Nat \ {0}
  <2>1. pow2[g + n] = pow2[g] * pow2[n]
    BY <1>1, PowSum
  <2>2. pow2[m + plen] = pow2[m] * pow2[plen]
    BY <1>1, PowSum
  <2>3. /\ pow2[m] \in Nat \ {0} /\ pow2[n] \in Nat \ {0}
        /\ pow2[g] \in Nat \ {0} /\ pow2[plen] \in Nat \ {0}
    BY <1>1, PowFacts
  <2> QED BY <1>1, <2>1, <2>2, <2>3
<1>3. s \in 0..pow2[g]-1
  BY <1>1 DEF SlotRange
<1>4. q \in Nat /\ pid = q * pow2[m]
  <2>1. pid % pow2[m] = 0
    BY DEF m
  <2>2. q \in Nat /\ pid = pow2[m] * q + (pid % pow2[m])
    BY <1>0, <1>2, DivMod
  <2> HIDE DEF q
  <2> QED BY <1>2, <2>1, <2>2
<1> HIDE DEF q
<1>5. y \in 0..pow2[m]-1
  <2>1. \A a, u, d \in Nat : d # 0 /\ a < u => a * d \in Nat /\ a * d < u * d
    OBVIOUS
  <2>2. s \in Nat /\ pow2[g] \in Nat /\ s < pow2[g]
    BY <1>2, <1>3
  <2>3. y \in Nat /\ y < pow2[g] * pow2[n]
    BY <1>2, <2>1, <2>2
  <2> HIDE DEF y
  <2> QED BY <1>2, <2>3
<1>6. y % pow2[W] = y
  <2>1. \A u, v \in Nat \ {0} : u <= u * v
    OBVIOUS
  <2>2. pow2[m] <= pow2[W] /\ pow2[W] \in Nat \ {0}
    BY <1>2, <2>1, IdsFacts
  <2> HIDE DEF y
  <2>3. y \in Nat /\ y < pow2[W]
    BY <1>2, <1>5, <2>2
  <2> QED BY <2>2, <2>3
<1>7. CandidateId(pid, plen + g, s) = BitOr(q * pow2[m], y)
  BY <1>4, <1>6 DEF CandidateId, y, n
<1>8. BitOr(q * pow2[m], y) = q * pow2[m] + y
  BY <1>1, <1>4, <1>5, OrIsSum
<1> DEFINE c == CandidateId(pid, plen + g, s)
<1>9. c = q * pow2[m] + y
  BY <1>7, <1>8
<1> HIDE DEF c
<1>10. c % pow2[n] = 0
  <2>1. c = (q * pow2[g] + s) * pow2[n] + 0
    <3>1. \A a, u, d, t \in Nat : a * (u * d) + t * d = (a * u + t) * d + 0
      OBVIOUS
    <3> QED BY <1>2, <1>3, <1>4, <1>9, <3>1 DEF y
  <2>2. q * pow2[g] + s \in Nat /\ 0 \in 0..pow2[n]-1
    BY <1>2, <1>3, <1>4
  <2> QED BY <1>2, <2>1, <2>2, DivModUnique
<1>11. Masked(c, plen) = pid
  <2>1. c % pow2[m] = y
    <3> HIDE DEF y
    <3>1. pow2[m] \in Nat \ {0}
      BY <1>2
    <3>2. (q * pow2[m] + y) % pow2[m] = y
      BY <1>4, <1>5, <3>1, DivModUnique
    <3> QED BY <1>9, <3>2
  <2>2. Masked(c, plen) = c - (c % pow2[m])
    BY DEF Masked, m
  <2>3. y \in Nat /\ q * pow2[m] \in Nat
    BY <1>0, <1>4, <1>5, <1>2
  <2> HIDE DEF y
  <2> QED BY <1>4, <1>9, <2>1, <2>2, <2>3
<1> QED BY <1>10, <1>11 DEF c, n

-----------------------------------------------------------------------------
(* Sibling chains. *)

\* Every sibling_next pointer in the region map R leads to a region or ends.
Linked(R) ==
  NULL \notin DOMAIN R /\ \A c \in DOMAIN R : R[c].sibling_next \in DOMAIN R \cup {NULL}

\* Chains(R)[n][c]: the first n regions from c along sibling_next.
Nodes(R) == DOMAIN R \cup {NULL}
NoChain(R) == [c \in Nodes(R) |-> <<>>]
Longer(R) ==
  [n \in Nat |-> [f \in [Nodes(R) -> Seq(DOMAIN R)] |->
     [c \in Nodes(R) |-> IF c = NULL THEN <<>> ELSE <<c>> \o f[R[c].sibling_next]]]]
Chains(R) == CHOOSE f : Recurses([Nodes(R) -> Seq(DOMAIN R)], NoChain(R), Longer(R), f)

\* How chains unfold.
LEMMA ChainsFacts ==
  ASSUME NEW R, Linked(R)
  PROVE  /\ Chains(R) \in [Nat -> [Nodes(R) -> Seq(DOMAIN R)]]
         /\ \A c \in Nodes(R) : Chains(R)[0][c] = <<>>
         /\ \A n \in Nat : Chains(R)[n][NULL] = <<>>
         /\ \A n \in Nat, c \in DOMAIN R :
              Chains(R)[n + 1][c] = <<c>> \o Chains(R)[n][R[c].sibling_next]
<1> DEFINE T == [Nodes(R) -> Seq(DOMAIN R)]
           L(f) == [c \in Nodes(R) |-> IF c = NULL THEN <<>> ELSE <<c>> \o f[R[c].sibling_next]]
<1>1. NoChain(R) \in T
  <2>1. <<>> \in Seq(DOMAIN R)
    OBVIOUS
  <2> QED BY <2>1 DEF NoChain
<1>2. \A f \in T : L(f) \in T
  <2> SUFFICES ASSUME NEW f \in T, NEW c \in Nodes(R)
               PROVE  (IF c = NULL THEN <<>> ELSE <<c>> \o f[R[c].sibling_next]) \in Seq(DOMAIN R)
    OBVIOUS
  <2>1. CASE c = NULL
    <3>1. <<>> \in Seq(DOMAIN R)
      OBVIOUS
    <3> QED BY <2>1, <3>1
  <2>2. CASE c # NULL
    <3>1. c \in DOMAIN R /\ f[R[c].sibling_next] \in Seq(DOMAIN R)
      BY <2>2 DEF Linked, Nodes
    <3>2. <<c>> \in Seq(DOMAIN R)
      BY <3>1
    <3> QED BY <2>2, <3>1, <3>2
  <2> QED BY <2>1, <2>2
<1>3. Longer(R) \in [Nat -> [T -> T]] /\ \A n \in Nat, f \in T : Longer(R)[n][f] = L(f)
  BY <1>2 DEF Longer
<1> HIDE DEF T, L
<1>4. \E f : Recurses(T, NoChain(R), Longer(R), f)
  BY <1>1, <1>3, PrimitiveRecursion
<1>5. Recurses(T, NoChain(R), Longer(R), Chains(R))
  BY <1>4 DEF Chains, T
<1>6. /\ Chains(R) \in [Nat -> T] /\ Chains(R)[0] = NoChain(R)
      /\ \A n \in Nat : Chains(R)[n + 1] = Longer(R)[n][Chains(R)[n]]
  BY <1>5 DEF Recurses
<1>7. \A n \in Nat : Chains(R)[n + 1] = L(Chains(R)[n])
  BY <1>3, <1>6
<1>8. \A c \in Nodes(R) : Chains(R)[0][c] = <<>>
  BY <1>6 DEF NoChain
<1>9. NULL \in Nodes(R) /\ \A c \in DOMAIN R : c \in Nodes(R) /\ c # NULL
  BY DEF Nodes, Linked
<1>10. \A n \in Nat : Chains(R)[n + 1][NULL] = <<>>
  BY <1>7, <1>9 DEF L
<1>11. \A n \in Nat : Chains(R)[n][NULL] = <<>>
  <2> TAKE n \in Nat
  <2>1. CASE n = 0
    BY <1>8, <1>9, <2>1
  <2>2. CASE n # 0
    <3>1. n - 1 \in Nat /\ (n - 1) + 1 = n
      BY <2>2
    <3> QED BY <1>10, <3>1
  <2> QED BY <2>1, <2>2
<1>12. \A n \in Nat, c \in DOMAIN R :
         Chains(R)[n + 1][c] = <<c>> \o Chains(R)[n][R[c].sibling_next]
  BY <1>7, <1>9 DEF L
<1> QED BY <1>6, <1>8, <1>11, <1>12 DEF T

\* Every region map in use is finite, linked and consistently numbered: a
\* region was created after the sibling its pointer leads to.
Numbered(R, rank) ==
  /\ rank \in [DOMAIN R -> 0..Cardinality(DOMAIN R)-1]
  /\ \A c \in DOMAIN R : R[c].sibling_next # NULL => rank[R[c].sibling_next] < rank[c]

\* A chain ends within as many steps as its first region's number says.
LEMMA ChainsEnd ==
  ASSUME NEW R, Linked(R), NEW rank, Numbered(R, rank)
  PROVE  \A n \in Nat : \A c \in Nodes(R) :
           (c # NULL => rank[c] < n) => Chains(R)[n + 1][c] = Chains(R)[n][c]
<1> DEFINE P(n) == \A c \in Nodes(R) :
             (c # NULL => rank[c] < n) => Chains(R)[n + 1][c] = Chains(R)[n][c]
           Good == {n \in Nat : P(n)}
<1>0. /\ \A c \in Nodes(R) : Chains(R)[0][c] = <<>>
      /\ \A n \in Nat : Chains(R)[n][NULL] = <<>>
      /\ \A n \in Nat, c \in DOMAIN R :
           Chains(R)[n + 1][c] = <<c>> \o Chains(R)[n][R[c].sibling_next]
  BY ChainsFacts
<1>1. \A c \in DOMAIN R : rank[c] \in Nat
  BY DEF Numbered
<1>2. P(0)
  <2> SUFFICES ASSUME NEW c \in Nodes(R), c # NULL => rank[c] < 0
               PROVE  Chains(R)[0 + 1][c] = Chains(R)[0][c]
    OBVIOUS
  <2>1. c = NULL
    BY <1>1 DEF Nodes
  <2> QED BY <1>0, <2>1
<1>3. ASSUME NEW n \in Nat, P(n) PROVE P(n + 1)
  <2> SUFFICES ASSUME NEW c \in Nodes(R), c # NULL => rank[c] < n + 1
               PROVE  Chains(R)[(n + 1) + 1][c] = Chains(R)[n + 1][c]
    OBVIOUS
  <2>0. n + 1 \in Nat /\ (n + 1) + 1 \in Nat
    OBVIOUS
  <2>1. CASE c = NULL
    BY <1>0, <2>0, <2>1
  <2>2. CASE c # NULL
    <3> DEFINE x == R[c].sibling_next
    <3>1. c \in DOMAIN R /\ x \in Nodes(R)
      BY <2>2 DEF Nodes, Linked
    <3>2. x # NULL => rank[x] < rank[c]
      BY <3>1 DEF Numbered
    <3>3. x # NULL => x \in DOMAIN R
      BY <3>1 DEF Nodes
    <3> HIDE DEF x
    <3>4. x # NULL => rank[x] < n
      BY <1>1, <2>2, <3>1, <3>2, <3>3
    <3>5. Chains(R)[n + 1][x] = Chains(R)[n][x]
      BY <1>3, <3>1, <3>4
    <3>6. /\ Chains(R)[(n + 1) + 1][c] = <<c>> \o Chains(R)[n + 1][x]
          /\ Chains(R)[n + 1][c] = <<c>> \o Chains(R)[n][x]
      BY <1>0, <2>0, <3>1 DEF x
    <3> QED BY <3>5, <3>6
  <2> QED BY <2>1, <2>2
<1> HIDE DEF P
<1>4. 0 \in Good /\ \A n \in Nat : n \in Good => n + 1 \in Good
  BY <1>2, <1>3
<1> HIDE DEF Good
<1>5. \A n \in Nat : n \in Good
  BY <1>4, SetInduction
<1> QED BY <1>5 DEF Good, P

\* Chains only depend on the sibling pointers of the regions they visit.
LEMMA ChainsAgree ==
  ASSUME NEW R, NEW Q, Linked(R), Linked(Q), DOMAIN R \subseteq DOMAIN Q,
         \A c \in DOMAIN R : Q[c].sibling_next = R[c].sibling_next
  PROVE  \A n \in Nat : \A c \in Nodes(R) : Chains(Q)[n][c] = Chains(R)[n][c]
<1> DEFINE P(n) == \A c \in Nodes(R) : Chains(Q)[n][c] = Chains(R)[n][c]
           Good == {n \in Nat : P(n)}
<1>0. /\ \A c \in Nodes(R) : Chains(R)[0][c] = <<>>
      /\ \A n \in Nat : Chains(R)[n][NULL] = <<>>
      /\ \A n \in Nat, c \in DOMAIN R :
           Chains(R)[n + 1][c] = <<c>> \o Chains(R)[n][R[c].sibling_next]
  BY ChainsFacts
<1>1. /\ \A c \in Nodes(Q) : Chains(Q)[0][c] = <<>>
      /\ \A n \in Nat : Chains(Q)[n][NULL] = <<>>
      /\ \A n \in Nat, c \in DOMAIN Q :
           Chains(Q)[n + 1][c] = <<c>> \o Chains(Q)[n][Q[c].sibling_next]
  BY ChainsFacts
<1>2. P(0)
  BY <1>0, <1>1 DEF Nodes
<1>3. ASSUME NEW n \in Nat, P(n) PROVE P(n + 1)
  <2> SUFFICES ASSUME NEW c \in Nodes(R) PROVE Chains(Q)[n + 1][c] = Chains(R)[n + 1][c]
    OBVIOUS
  <2>1. CASE c = NULL
    <3>1. n + 1 \in Nat
      OBVIOUS
    <3> QED BY <1>0, <1>1, <2>1, <3>1
  <2>2. CASE c # NULL
    <3>1. c \in DOMAIN R /\ c \in DOMAIN Q /\ R[c].sibling_next \in Nodes(R)
      BY <2>2 DEF Nodes, Linked
    <3>2. Chains(Q)[n][R[c].sibling_next] = Chains(R)[n][R[c].sibling_next]
      BY <1>3, <3>1
    <3>3. /\ Chains(Q)[n + 1][c] = <<c>> \o Chains(Q)[n][Q[c].sibling_next]
          /\ Chains(R)[n + 1][c] = <<c>> \o Chains(R)[n][R[c].sibling_next]
      BY <1>0, <1>1, <3>1
    <3>4. Q[c].sibling_next = R[c].sibling_next
      BY <3>1
    <3> QED BY <3>2, <3>3, <3>4
  <2> QED BY <2>1, <2>2
<1> HIDE DEF P
<1>4. 0 \in Good /\ \A n \in Nat : n \in Good => n + 1 \in Good
  BY <1>2, <1>3
<1> HIDE DEF Good
<1>5. \A n \in Nat : n \in Good
  BY <1>4, SetInduction
<1> QED BY <1>5 DEF Good, P

\* The traversal that ChildList makes, in any region map.
ChildListOf(R, r) ==
  LET from[n \in 0..Cardinality(DOMAIN R)] ==
        [c \in DOMAIN R \cup {NULL} |->
           IF n = 0 \/ c = NULL THEN <<>>
           ELSE <<c>> \o from[n-1][R[c].sibling_next]]
  IN  from[Cardinality(DOMAIN R)][R[r].children_head]

\* It yields the chain that starts at the head of the list.
LEMMA ChildListIsChain ==
  ASSUME NEW R, Linked(R), Cardinality(DOMAIN R) \in Nat,
         NEW r, R[r].children_head \in Nodes(R)
  PROVE  ChildListOf(R, r) = Chains(R)[Cardinality(DOMAIN R)][R[r].children_head]
<1> DEFINE N == Cardinality(DOMAIN R)
           D == DOMAIN R \cup {NULL}
           G(f) == [n \in 0..N |-> [c \in D |->
                      IF n = 0 \/ c = NULL THEN <<>>
                      ELSE <<c>> \o f[n-1][R[c].sibling_next]]]
           k == CHOOSE f : f = G(f)
           g == [n \in 0..N |-> Chains(R)[n]]
<1>0. /\ Chains(R) \in [Nat -> [D -> Seq(DOMAIN R)]]
      /\ \A c \in D : Chains(R)[0][c] = <<>>
      /\ \A n \in Nat : Chains(R)[n][NULL] = <<>>
      /\ \A n \in Nat, c \in DOMAIN R :
           Chains(R)[n + 1][c] = <<c>> \o Chains(R)[n][R[c].sibling_next]
  BY ChainsFacts DEF Nodes
<1>1. N \in Nat /\ 0..N \subseteq Nat
  OBVIOUS
<1> HIDE DEF N, D
<1>2. g = G(g)
  <2>1. \A n \in 0..N : n # 0 => n - 1 \in Nat /\ n - 1 \in 0..N /\ (n - 1) + 1 = n
    BY <1>1
  <2>2. \A n \in 0..N : g[n] = Chains(R)[n] /\ g[n] \in [D -> Seq(DOMAIN R)]
    BY <1>0, <1>1
  <2> HIDE DEF g
  <2>3. ASSUME NEW n \in 0..N, NEW c \in D
        PROVE  g[n][c] = IF n = 0 \/ c = NULL THEN <<>>
                         ELSE <<c>> \o g[n-1][R[c].sibling_next]
    <3>1. CASE n = 0 \/ c = NULL
      BY <1>0, <1>1, <2>2, <3>1
    <3>2. CASE n # 0 /\ c # NULL
      <4>1. c \in DOMAIN R
        BY <3>2 DEF D
      <4>2. g[n][c] = Chains(R)[(n - 1) + 1][c] /\ g[n - 1] = Chains(R)[n - 1]
        BY <2>1, <2>2, <3>2
      <4>3. Chains(R)[(n - 1) + 1][c] = <<c>> \o Chains(R)[n - 1][R[c].sibling_next]
        BY <1>0, <2>1, <3>2, <4>1
      <4> QED BY <3>2, <4>2, <4>3
    <3> QED BY <3>1, <3>2
  <2>4. \A n \in 0..N : g[n] = [c \in D |-> IF n = 0 \/ c = NULL THEN <<>>
                                            ELSE <<c>> \o g[n-1][R[c].sibling_next]]
    BY <2>2, <2>3
  <2>5. g = [n \in 0..N |-> g[n]]
    BY DEF g
  <2> QED BY <2>4, <2>5
<1>3. k = G(k)
  BY <1>2
<1> HIDE DEF k, g
<1> DEFINE P(n) == n <= N => \A c \in D : k[n][c] = Chains(R)[n][c]
           Good == {n \in Nat : P(n)}
<1>4. \A n \in 0..N, c \in D : k[n][c] = IF n = 0 \/ c = NULL THEN <<>>
                                        ELSE <<c>> \o k[n-1][R[c].sibling_next]
  <2> TAKE n \in 0..N, c \in D
  <2>1. k[n] = [x \in D |-> IF n = 0 \/ x = NULL THEN <<>>
                            ELSE <<x>> \o k[n-1][R[x].sibling_next]]
    BY <1>3
  <2> QED BY <2>1
<1> HIDE DEF G
<1>5. P(0)
  <2>1. 0 \in 0..N
    BY <1>1
  <2>2. \A c \in D : k[0][c] = <<>>
    BY <1>4, <2>1
  <2> QED BY <1>0, <2>2
<1>6. ASSUME NEW n \in Nat, P(n) PROVE P(n + 1)
  <2> SUFFICES ASSUME n + 1 <= N, NEW c \in D PROVE k[n + 1][c] = Chains(R)[n + 1][c]
    OBVIOUS
  <2>1. n + 1 \in 0..N /\ n + 1 # 0 /\ (n + 1) - 1 = n /\ n <= N /\ n + 1 \in Nat
    BY <1>1
  <2>2. CASE c = NULL
    BY <1>0, <1>4, <2>1, <2>2
  <2>3. CASE c # NULL
    <3>1. c \in DOMAIN R /\ R[c].sibling_next \in D
      BY <2>3 DEF D, Linked
    <3>2. k[n + 1][c] = <<c>> \o k[n][R[c].sibling_next]
      BY <1>4, <2>1, <2>3
    <3>3. k[n][R[c].sibling_next] = Chains(R)[n][R[c].sibling_next]
      BY <1>6, <2>1, <3>1
    <3> QED BY <1>0, <3>1, <3>2, <3>3
  <2> QED BY <2>2, <2>3
<1> HIDE DEF P
<1>7. 0 \in Good /\ \A n \in Nat : n \in Good => n + 1 \in Good
  BY <1>5, <1>6
<1> HIDE DEF Good
<1>8. \A n \in Nat : n \in Good
  BY <1>7, SetInduction
<1>9. P(N)
  BY <1>1, <1>8 DEF Good
<1>10. R[r].children_head \in D
  BY DEF D, Nodes
<1>11. k[N][R[r].children_head] = Chains(R)[N][R[r].children_head]
  BY <1>1, <1>9, <1>10 DEF P
<1> QED BY <1>11 DEF ChildListOf, k, G, D, N

-----------------------------------------------------------------------------
(* The inductive invariant. *)

\* Pointers stay inside the map and follow the order of creation.
PointersClosed ==
  /\ IsFiniteSet(DOMAIN region) /\ Linked(region)
  /\ \A r \in DOMAIN region : region[r].children_head \in Nodes(region)
  /\ \E rank : Numbered(region, rank)

\* The regions behind x on its list.
Behind(x) == Chains(region)[Cardinality(DOMAIN region)][region[x].sibling_next]

\* The frames a call in progress may have: what it restores is alive, and an
\* enumeration has visited a prefix of the children there were when it
\* started and still has the others ahead.
FramesOnTrack ==
  {f \in Frames :
     /\ f.saved \in DOMAIN region
     /\ f.kind = "each" =>
          /\ f.at \in DOMAIN region /\ f.due = f.seen \o Behind(f.at)
          /\ IsInjective(f.due)}

\* What an enumeration answers: the children there were, or a prefix of them
\* if it was broken off. The list has each of them once.
EachInListOrder ==
  last.op = "region_each" /\ "seen" \in DOMAIN last =>
    /\ last.seen \in Seq(Ids) /\ last.due \in Seq(Ids) /\ IsInjective(last.due)
    /\ IF last.all THEN last.seen = last.due ELSE IsPrefix(last.seen, last.due)

TreeConsistent ==
  /\ TypeOK /\ AncestorChainFits /\ PointersClosed /\ TreeShape
  /\ cur \in DOMAIN region
  /\ frames \in Seq(FramesOnTrack)
  /\ EachInListOrder

\* What a granted claim gets from region_alloc_slot: the new id of some slot
\* and a prefix that fits the width.
LEMMA AllocFacts ==
  ASSUME TypeOK, cur \in DOMAIN region, NEW p, NEW g \in HandlerAnswers(cur), ClaimResult(p, g) = "OK"
  PROVE  /\ region_alloc_slot(cur, g) \in Ids \ DOMAIN region
         /\ \E s \in SlotRange(region[cur].plen + g, g) :
              region_alloc_slot(cur, g) = CandidateId(cur, region[cur].plen + g, s)
         /\ g \in Nat \ {0} /\ region[cur].plen + g <= W
<1> DEFINE cplen == region[cur].plen + g
           free == {s \in SlotRange(cplen, g) : CandidateId(cur, cplen, s) \notin DOMAIN region}
<1>1. g \in Nat
  BY SizeAssumption DEF HandlerAnswers
<1>2. g # 0 /\ region_alloc_slot(cur, g) # INVALID
  BY DEF ClaimResult
<1>3. /\ region_alloc_slot(cur, g) =
           IF cplen > W \/ free = {} THEN INVALID ELSE CandidateId(cur, cplen, Min(free))
  BY DEF region_alloc_slot
<1>4. free # {} /\ ~(cplen > W)
  BY <1>2, <1>3
<1>5. free \subseteq Nat
  <2>1. \A n : 0..n \subseteq Nat
    OBVIOUS
  <2> QED BY <2>1 DEF SlotRange
<1>6. Min(free) \in free
  <2>1. \E x \in free : \A y \in free : x <= y
    BY <1>4, <1>5, LeastNat
  <2> QED BY <2>1 DEF Min
<1>7. CandidateId(cur, cplen, Min(free)) \in Ids \ DOMAIN region
  BY <1>6, BitOrIsId DEF CandidateId
<1>8. region[cur].plen \in 0..W /\ W \in Nat
  BY SizeAssumption DEF TypeOK, RegionEntry
<1>9. Min(free) \in SlotRange(cplen, g)
  BY <1>6
<1> HIDE DEF free
<1> QED BY <1>1, <1>2, <1>3, <1>4, <1>7, <1>8, <1>9

\* Region c is linked in at the head of p's children.
Grown(p, c, g) ==
  /\ p \in DOMAIN region /\ c \in Ids \ DOMAIN region
  /\ g \in Nat \ {0} /\ region[p].plen + g <= W
  /\ region' = WithChild(p, c, g)

\* The region map R with c as the new first child of p, as R1.
Linking(R, R1, p, c, g) ==
  /\ DOMAIN R1 = DOMAIN R \cup {c} /\ c \notin DOMAIN R /\ c # p
  /\ R1[c] \in RegionEntry
  /\ R1[c].plen = R[p].plen + g /\ R1[c].depth = R[p].depth + 1
  /\ R1[c].child_bits = g /\ R1[c].parent = p
  /\ R1[c].children_head = NULL
  /\ R1[c].sibling_next = R[p].children_head
  /\ R1[p].children_head = c
  /\ \A r \in DOMAIN R \ {p} : R1[r] = R[r]
  /\ \A r \in DOMAIN R :
       /\ R1[r] \in RegionEntry
       /\ R1[r].plen = R[r].plen /\ R1[r].depth = R[r].depth
       /\ R1[r].child_bits = R[r].child_bits
       /\ R1[r].parent = R[r].parent
       /\ R1[r].sibling_next = R[r].sibling_next

\* The fields after a claim.
LEMMA GrownFields ==
  ASSUME TypeOK, PointersClosed, NEW p, NEW c, NEW g, Grown(p, c, g)
  PROVE  Linking(region, region', p, c, g)
<1> DEFINE new == [plen |-> region[p].plen + g, depth |-> region[p].depth + 1,
                   child_bits |-> g, parent |-> p, children_head |-> NULL,
                   sibling_next |-> region[p].children_head, require_claim |-> FALSE]
<1>1. /\ DOMAIN region' = DOMAIN region \cup {c} /\ c \notin DOMAIN region /\ c # p
      /\ region'[c] = new
      /\ region'[p] = [region[p] EXCEPT !.children_head = c]
      /\ \A r \in DOMAIN region \ {p} : region'[r] = region[r]
  BY DEF Grown, WithChild
<1>2. /\ region[p] \in RegionEntry /\ c \in Ids /\ p \in Ids /\ W \in Nat
      /\ g \in Nat /\ region[p].plen + g <= W /\ p \in DOMAIN region
  BY SizeAssumption DEF TypeOK, Grown
<1>3. /\ region'[p] \in RegionEntry /\ region'[p].children_head = c
      /\ region'[p].plen = region[p].plen /\ region'[p].depth = region[p].depth
      /\ region'[p].child_bits = region[p].child_bits
      /\ region'[p].parent = region[p].parent
      /\ region'[p].sibling_next = region[p].sibling_next
  BY <1>1, <1>2 DEF RegionEntry
<1>4. \A r \in DOMAIN region \ {p} :
        /\ region'[r] \in RegionEntry
        /\ region'[r].plen = region[r].plen /\ region'[r].depth = region[r].depth
        /\ region'[r].child_bits = region[r].child_bits
        /\ region'[r].parent = region[r].parent
        /\ region'[r].sibling_next = region[r].sibling_next
  BY <1>1 DEF TypeOK
<1>5. new \in RegionEntry
  <2>1. /\ region[p].plen \in 0..W /\ region[p].depth \in Nat
        /\ region[p].children_head \in Ids \cup {NULL}
    BY <1>2 DEF RegionEntry
  <2>2. region[p].plen + g \in 0..W /\ region[p].depth + 1 \in Nat /\ g \in 0..W
    BY <1>2, <2>1
  <2> QED BY <1>2, <2>1, <2>2 DEF RegionEntry
<1>6. /\ new.plen = region[p].plen + g /\ new.depth = region[p].depth + 1
      /\ new.child_bits = g /\ new.parent = p /\ new.children_head = NULL
      /\ new.sibling_next = region[p].children_head
  OBVIOUS
<1> HIDE DEF new
<1> QED BY <1>1, <1>3, <1>4, <1>5, <1>6 DEF Linking

\* After a claim the pointers are closed, chains of older regions are as
\* before, and the new region heads its parent's list.
LEMMA GrownPointers ==
  ASSUME TypeOK, PointersClosed, NEW p, NEW c, NEW g, Grown(p, c, g)
  PROVE  /\ PointersClosed'
         /\ \A x \in Nodes(region) : Chains(region')[Cardinality(DOMAIN region')][x] =
                                      Chains(region)[Cardinality(DOMAIN region)][x]
         /\ ChildList(c)' = <<>>
         /\ ChildList(p)' = <<c>> \o ChildList(p)
         /\ \A r \in DOMAIN region \ {p} : ChildList(r)' = ChildList(r)
<1> DEFINE N == Cardinality(DOMAIN region)
<1>1. /\ DOMAIN region' = DOMAIN region \cup {c} /\ c \notin DOMAIN region /\ c # p
      /\ region'[c].children_head = NULL /\ region'[c].sibling_next = region[p].children_head
      /\ region'[p].children_head = c /\ p \in DOMAIN region /\ c \in Ids
      /\ \A r \in DOMAIN region \ {p} : region'[r] = region[r]
      /\ \A r \in DOMAIN region : region'[r].sibling_next = region[r].sibling_next
  <2>1. p \in DOMAIN region /\ c \in Ids
    BY DEF Grown
  <2>2. Linking(region, region', p, c, g)
    BY GrownFields
  <2> QED BY <2>1, <2>2 DEF Linking
<1>2. N \in Nat /\ IsFiniteSet(DOMAIN region') /\ Cardinality(DOMAIN region') = N + 1
  BY <1>1, FS_AddElement, FS_CardinalityType DEF PointersClosed
<1>3. Linked(region) /\ NULL \notin Ids
  BY IdsFacts DEF PointersClosed
<1>4. Linked(region')
  BY <1>1, <1>3 DEF Linked, PointersClosed, Nodes
<1>5. \A r \in DOMAIN region' : region'[r].children_head \in Nodes(region')
  BY <1>1 DEF PointersClosed, Nodes
<1>6. PICK rank : Numbered(region, rank)
  BY DEF PointersClosed
<1> DEFINE rank2 == [x \in DOMAIN region' |-> IF x = c THEN N ELSE rank[x]]
<1>7. Numbered(region', rank2)
  <2>1. \A x \in DOMAIN region : rank[x] \in 0..N-1 /\ rank2[x] = rank[x]
    BY <1>1, <1>6 DEF Numbered
  <2>2. rank2[c] = N /\ c \in DOMAIN region'
    BY <1>1
  <2>3. \A x \in DOMAIN region' : rank2[x] \in 0..N
    BY <1>1, <1>2, <2>1, <2>2
  <2>4. rank2 \in [DOMAIN region' -> 0..(N+1)-1]
    BY <1>2, <2>3
  <2>5. ASSUME NEW x \in DOMAIN region', region'[x].sibling_next # NULL
        PROVE  rank2[region'[x].sibling_next] < rank2[x]
    <3>1. CASE x = c
      <4>1. region'[x].sibling_next \in DOMAIN region
        BY <1>1, <2>5, <3>1 DEF PointersClosed, Nodes
      <4>2. rank2[region'[x].sibling_next] \in 0..N-1
        BY <2>1, <4>1
      <4> QED BY <1>2, <2>2, <3>1, <4>2
    <3>2. CASE x # c
      <4>1. x \in DOMAIN region /\ region'[x].sibling_next = region[x].sibling_next
        BY <1>1, <3>2
      <4>2. region[x].sibling_next \in DOMAIN region
        BY <1>3, <2>5, <4>1 DEF Linked
      <4>3. rank[region[x].sibling_next] < rank[x]
        BY <1>6, <2>5, <4>1 DEF Numbered
      <4> QED BY <2>1, <4>1, <4>2, <4>3
    <3> QED BY <3>1, <3>2
  <2> QED BY <1>2, <2>4, <2>5 DEF Numbered
<1> HIDE DEF rank2
<1>8. PointersClosed'
  BY <1>2, <1>4, <1>5, <1>7 DEF PointersClosed
<1>9. \A n \in Nat : \A x \in Nodes(region) : Chains(region')[n][x] = Chains(region)[n][x]
  BY <1>1, <1>3, <1>4, ChainsAgree
<1>10. \A x \in Nodes(region) : Chains(region)[N + 1][x] = Chains(region)[N][x]
  <2>1. \A x \in Nodes(region) : x # NULL => rank[x] < N
    BY <1>2, <1>6 DEF Numbered, Nodes
  <2> QED BY <1>2, <1>3, <1>6, <2>1, ChainsEnd
<1>11. \A x \in Nodes(region) : Chains(region')[Cardinality(DOMAIN region')][x] =
                                  Chains(region)[Cardinality(DOMAIN region)][x]
  BY <1>2, <1>9, <1>10
<1>12. /\ \A r \in DOMAIN region : ChildList(r) = Chains(region)[N][region[r].children_head]
       /\ \A r \in DOMAIN region' : ChildList(r)' = Chains(region')[N + 1][region'[r].children_head]
  <2>1. \A r : ChildList(r) = ChildListOf(region, r) /\ ChildList(r)' = ChildListOf(region', r)
    BY DEF ChildList, ChildListOf
  <2>2. \A r \in DOMAIN region : region[r].children_head \in Nodes(region)
    BY DEF PointersClosed
  <2>3. N + 1 \in Nat
    BY <1>2
  <2> QED BY <1>2, <1>3, <1>4, <1>5, <2>1, <2>2, <2>3, ChildListIsChain
<1>13. ChildList(c)' = <<>>
  BY <1>1, <1>2, <1>4, <1>12, ChainsFacts
<1>14. ChildList(p)' = <<c>> \o ChildList(p)
  <2>1. ChildList(p)' = Chains(region')[N + 1][c]
    BY <1>1, <1>12
  <2>2. Chains(region')[N + 1][c] = <<c>> \o Chains(region')[N][region[p].children_head]
    <3>1. Chains(region')[N + 1][c] = <<c>> \o Chains(region')[N][region'[c].sibling_next]
      <4>1. c \in DOMAIN region'
        BY <1>1
      <4> QED BY <1>2, <1>4, <4>1, ChainsFacts
    <3> QED BY <1>1, <3>1
  <2>3. Chains(region')[N][region[p].children_head] = Chains(region)[N][region[p].children_head]
    BY <1>1, <1>2, <1>9 DEF PointersClosed
  <2> QED BY <1>1, <1>12, <2>1, <2>2, <2>3
<1>15. \A r \in DOMAIN region \ {p} : ChildList(r)' = ChildList(r)
  <2> TAKE r \in DOMAIN region \ {p}
  <2>1. region'[r] = region[r] /\ r \in DOMAIN region' /\ region[r].children_head \in Nodes(region)
    BY <1>1 DEF PointersClosed
  <2>2. Chains(region')[N + 1][region[r].children_head] = Chains(region)[N][region[r].children_head]
    BY <1>2, <1>11, <2>1
  <2> QED BY <1>12, <2>1, <2>2
<1> QED BY <1>8, <1>11, <1>13, <1>14, <1>15

\* A step that changes no pointer of any region leaves chains and lists alone.
LEMMA SamePointers ==
  ASSUME PointersClosed, DOMAIN region' = DOMAIN region,
         \A r \in DOMAIN region : /\ region'[r].children_head = region[r].children_head
                                  /\ region'[r].sibling_next = region[r].sibling_next
  PROVE  /\ PointersClosed'
         /\ \A x \in Nodes(region) : Chains(region')[Cardinality(DOMAIN region')][x] =
                                      Chains(region)[Cardinality(DOMAIN region)][x]
         /\ \A r \in DOMAIN region : ChildList(r)' = ChildList(r)
<1> DEFINE N == Cardinality(DOMAIN region)
<1>1. N \in Nat /\ Linked(region) /\ IsFiniteSet(DOMAIN region)
  BY FS_CardinalityType DEF PointersClosed
<1>2. Linked(region') /\ Nodes(region') = Nodes(region)
  BY <1>1 DEF Linked, Nodes
<1>3. PICK rank : Numbered(region, rank)
  BY DEF PointersClosed
<1>4. Numbered(region', rank)
  BY <1>3 DEF Numbered
<1>5. PointersClosed'
  BY <1>1, <1>2, <1>4 DEF PointersClosed
<1>6. \A n \in Nat : \A x \in Nodes(region) : Chains(region')[n][x] = Chains(region)[n][x]
  BY <1>1, <1>2, ChainsAgree
<1>7. \A r \in DOMAIN region : /\ region[r].children_head \in Nodes(region)
                               /\ region'[r].children_head \in Nodes(region')
  BY <1>2 DEF PointersClosed
<1>8. \A r \in DOMAIN region : /\ ChildList(r) = Chains(region)[N][region[r].children_head]
                               /\ ChildList(r)' = Chains(region')[N][region'[r].children_head]
  <2>1. \A r : ChildList(r) = ChildListOf(region, r) /\ ChildList(r)' = ChildListOf(region', r)
    BY DEF ChildList, ChildListOf
  <2> QED BY <1>1, <1>2, <1>7, <2>1, ChildListIsChain
<1>9. \A r \in DOMAIN region : ChildList(r)' = ChildList(r)
  BY <1>1, <1>6, <1>7, <1>8
<1> QED BY <1>1, <1>5, <1>6, <1>9

\* Child lists hold live regions.
LEMMA ListTyped ==
  ASSUME PointersClosed, NEW r \in DOMAIN region
  PROVE  ChildList(r) \in Seq(DOMAIN region)
<1>1. /\ Cardinality(DOMAIN region) \in Nat /\ Linked(region)
      /\ region[r].children_head \in Nodes(region)
  BY FS_CardinalityType DEF PointersClosed
<1>2. ChildList(r) = Chains(region)[Cardinality(DOMAIN region)][region[r].children_head]
  BY <1>1, ChildListIsChain DEF ChildList, ChildListOf
<1>3. Chains(region) \in [Nat -> [Nodes(region) -> Seq(DOMAIN region)]]
  BY <1>1, ChainsFacts
<1> QED BY <1>1, <1>2, <1>3

-----------------------------------------------------------------------------
(* Steps. *)

\* A claim keeps the tree in shape.
LEMMA GrownShape ==
  ASSUME TypeOK, PointersClosed, TreeShape, AncestorChainFits,
         NEW p, NEW c, NEW g, Grown(p, c, g)
  PROVE  TreeShape' /\ AncestorChainFits'
<1>1. /\ DOMAIN region' = DOMAIN region \cup {c} /\ c \notin DOMAIN region /\ c # p
      /\ region'[c].plen = region[p].plen + g /\ region'[c].depth = region[p].depth + 1
      /\ region'[c].child_bits = g /\ region'[c].parent = p
      /\ \A r \in DOMAIN region :
           /\ region'[r].plen = region[r].plen /\ region'[r].depth = region[r].depth
           /\ region'[r].child_bits = region[r].child_bits
           /\ region'[r].parent = region[r].parent
  <2>1. /\ region'[c].plen = region[p].plen + g
        /\ region'[c].child_bits = g /\ region'[c].parent = p
    BY DEF Grown, WithChild
  <2>2. /\ DOMAIN region' = DOMAIN region \cup {c} /\ c \notin DOMAIN region /\ c # p
        /\ region'[c].depth = region[p].depth + 1
        /\ \A r \in DOMAIN region :
             /\ region'[r].plen = region[r].plen /\ region'[r].depth = region[r].depth
             /\ region'[r].child_bits = region[r].child_bits
             /\ region'[r].parent = region[r].parent
    <3>1. Linking(region, region', p, c, g)
      BY GrownFields
    <3> QED BY <3>1 DEF Linking
  <2> QED BY <2>1, <2>2
<1>2. p \in DOMAIN region /\ g \in Nat \ {0} /\ region[p].plen + g <= W
  BY DEF Grown
<1>3. /\ ChildList(c)' = <<>> /\ ChildList(p)' = <<c>> \o ChildList(p)
      /\ \A r \in DOMAIN region \ {p} : ChildList(r)' = ChildList(r)
  BY GrownPointers
<1>4. ROOT \in DOMAIN region' /\ region'[ROOT].parent = NULL
  BY <1>1 DEF TreeShape, NULL
<1>5. \A r \in DOMAIN region : region[r].parent # c
  <2>1. \A r \in DOMAIN region : region[r].parent \in DOMAIN region \cup {NULL}
    BY DEF TreeShape
  <2>2. c # NULL
    BY IdsFacts DEF Grown
  <2> QED BY <1>1, <2>1, <2>2
<1>6. ASSUME NEW r \in DOMAIN region'
      PROVE  IsInjective(ChildList(r)') /\ ToSet(ChildList(r)') = {x \in DOMAIN region' : region'[x].parent = r}
  <2>1. CASE r = c
    <3>1. IsInjective(<<>>) /\ ToSet(<<>>) = {}
      BY DEF IsInjective, ToSet
    <3>2. {x \in DOMAIN region' : region'[x].parent = c} = {}
      BY <1>1, <1>2, <1>5
    <3> QED BY <1>3, <2>1, <3>1, <3>2
  <2>2. CASE r = p
    <3>1. IsInjective(ChildList(p)) /\ ToSet(ChildList(p)) = {x \in DOMAIN region : region[x].parent = p}
      BY <1>2 DEF TreeShape
    <3>2. ChildList(p) \in Seq(DOMAIN region)
      BY <1>2, ListTyped
    <3>3. <<c>> \in Seq(DOMAIN region') /\ ChildList(p) \in Seq(DOMAIN region')
      BY <1>1, <3>2
    <3>4. IsInjective(<<c>>) /\ ToSet(<<c>>) = {c}
      BY DEF IsInjective, ToSet
    <3>5. ToSet(<<c>>) \cap ToSet(ChildList(p)) = {}
      BY <1>1, <3>1, <3>4
    <3> DEFINE a == <<c>>
               b == ChildList(p)
    <3> HIDE DEF a, b
    <3>6. /\ ToSet(a \o b) = ToSet(a) \cup ToSet(b)
          /\ IsInjective(a) /\ IsInjective(b) /\ ToSet(a) \cap ToSet(b) = {} => IsInjective(a \o b)
      <4>1. a \in Seq(DOMAIN region') /\ b \in Seq(DOMAIN region')
        BY <3>3 DEF a, b
      <4> QED BY <4>1, ConcatFacts
    <3> USE DEF a, b
    <3>7. {x \in DOMAIN region' : region'[x].parent = p} =
            {c} \cup {x \in DOMAIN region : region[x].parent = p}
      BY <1>1
    <3> QED BY <1>3, <2>2, <3>1, <3>4, <3>5, <3>6, <3>7
  <2>3. CASE r \in DOMAIN region \ {p}
    <3>1. IsInjective(ChildList(r)) /\ ToSet(ChildList(r)) = {x \in DOMAIN region : region[x].parent = r}
      BY <2>3 DEF TreeShape
    <3>2. {x \in DOMAIN region' : region'[x].parent = r} = {x \in DOMAIN region : region[x].parent = r}
      BY <1>1, <2>3
    <3> QED BY <1>3, <2>3, <3>1, <3>2
  <2> QED BY <1>1, <2>1, <2>2, <2>3
<1>7. ASSUME NEW r \in DOMAIN region', r # ROOT
      PROVE  /\ region'[r].parent \in DOMAIN region' \ {r}
             /\ region'[r].plen = region'[region'[r].parent].plen + region'[r].child_bits
             /\ region'[r].depth = region'[region'[r].parent].depth + 1
  <2>1. CASE r = c
    BY <1>1, <1>2, <2>1
  <2>2. CASE r \in DOMAIN region
    BY <1>1, <1>7, <2>2 DEF TreeShape
  <2> QED BY <1>1, <2>1, <2>2
<1>8. TreeShape'
  BY <1>4, <1>6, <1>7 DEF TreeShape
<1>9. AncestorChainFits'
  <2>1. region[p].depth \in Nat /\ region[p].plen \in Nat /\ region[p].depth <= region[p].plen
    BY <1>2, SizeAssumption DEF AncestorChainFits, TypeOK, RegionEntry
  <2>2. region'[c].depth <= region'[c].plen /\ region'[c].plen <= W
    BY <1>1, <1>2, <2>1, SizeAssumption
  <2> QED BY <1>1, <2>2 DEF AncestorChainFits
<1> QED BY <1>8, <1>9

\* A region's chain is the region and what is behind it.
LEMMA BehindUnfolds ==
  ASSUME PointersClosed, NEW x \in DOMAIN region
  PROVE  /\ Chains(region)[Cardinality(DOMAIN region)][x] = <<x>> \o Behind(x)
         /\ Behind(x) \in Seq(DOMAIN region)
         /\ region[x].sibling_next = NULL => Behind(x) = <<>>
<1> DEFINE N == Cardinality(DOMAIN region)
           M == N - 1
<1>1. N \in Nat /\ Linked(region)
  BY FS_CardinalityType DEF PointersClosed
<1>2. PICK rank : Numbered(region, rank)
  BY DEF PointersClosed
<1>3. rank[x] \in 0..N-1
  BY <1>2 DEF Numbered
<1>4. M \in Nat /\ M + 1 = N /\ rank[x] <= M
  BY <1>1, <1>3
<1> HIDE DEF N, M
<1>5. region[x].sibling_next \in Nodes(region)
  BY <1>1 DEF Linked, Nodes
<1>6. region[x].sibling_next # NULL => rank[region[x].sibling_next] < M
  <2> HAVE region[x].sibling_next # NULL
  <2>1. region[x].sibling_next \in DOMAIN region
    BY <1>5 DEF Nodes
  <2>2. rank[region[x].sibling_next] < rank[x] /\ rank[region[x].sibling_next] \in 0..N-1
    BY <1>2, <2>1 DEF Numbered, N
  <2> QED BY <1>3, <1>4, <2>2
<1>7. Chains(region)[M + 1][region[x].sibling_next] = Chains(region)[M][region[x].sibling_next]
  BY <1>1, <1>2, <1>4, <1>5, <1>6, ChainsEnd
<1>8. Chains(region)[M + 1][x] = <<x>> \o Chains(region)[M][region[x].sibling_next]
  BY <1>1, <1>4, ChainsFacts
<1>9. Behind(x) = Chains(region)[N][region[x].sibling_next]
  BY DEF Behind, N
<1>10. /\ Chains(region)[N][region[x].sibling_next] \in Seq(DOMAIN region)
       /\ Chains(region)[N][NULL] = <<>>
  BY <1>1, <1>5, ChainsFacts
<1> QED BY <1>4, <1>7, <1>8, <1>9, <1>10 DEF N

\* A frame stays on track when regions are added in front or only flags change.
LEMMA TrackKept ==
  ASSUME PointersClosed, DOMAIN region \subseteq DOMAIN region',
         \A r \in DOMAIN region : region'[r].sibling_next = region[r].sibling_next,
         \A x \in Nodes(region) : Chains(region')[Cardinality(DOMAIN region')][x] =
                                   Chains(region)[Cardinality(DOMAIN region)][x]
  PROVE  FramesOnTrack \subseteq FramesOnTrack'
<1>1. \A r \in DOMAIN region : region[r].sibling_next \in Nodes(region)
  BY DEF PointersClosed, Linked, Nodes
<1>2. \A r \in DOMAIN region : Behind(r)' = Behind(r)
  BY <1>1 DEF Behind
<1>3. Frames' = Frames
  BY DEF Frames
<1> QED BY <1>2, <1>3 DEF FramesOnTrack

\* Pushing a frame, and taking the top one off.
LEMMA StackFacts ==
  ASSUME NEW S, NEW T, S \subseteq T, NEW s \in Seq(S)
  PROVE  /\ s \in Seq(T)
         /\ \A f \in T : Append(s, f) \in Seq(T)
         /\ s # <<>> => /\ Front(s) \in Seq(T) /\ s[Len(s)] \in S
                        /\ \A f \in T : [s EXCEPT ![Len(s)] = f] \in Seq(T)
<1>1. s \in Seq(T)
  OBVIOUS
<1>2. s # <<>> => Front(s) \in Seq(T) /\ s[Len(s)] \in S
  BY <1>1 DEF Front
<1>3. ASSUME s # <<>>, NEW f \in T PROVE [s EXCEPT ![Len(s)] = f] \in Seq(T)
  <2>1. Len(s) \in Nat /\ s \in [1..Len(s) -> T]
    BY <1>1
  <2>2. [s EXCEPT ![Len(s)] = f] \in [1..Len(s) -> T]
    BY <2>1
  <2> QED BY <2>1, <2>2
<1> QED BY <1>1, <1>2, <1>3

\* Steps that leave the regions alone keep what is said of the tree.
LEMMA SameTree ==
  ASSUME TreeConsistent, region' = region
  PROVE  /\ AncestorChainFits' /\ PointersClosed' /\ TreeShape'
         /\ FramesOnTrack' = FramesOnTrack
<1>1. \A r : ChildList(r)' = ChildList(r)
  BY DEF ChildList
<1>2. \A r : Behind(r)' = Behind(r)
  BY DEF Behind
<1>3. FramesOnTrack' = FramesOnTrack
  BY <1>2 DEF FramesOnTrack, Frames
<1>4. PointersClosed'
  BY DEF TreeConsistent, PointersClosed
<1> QED BY <1>1, <1>3, <1>4 DEF TreeConsistent, TreeShape, AncestorChainFits

\* Answers that are not an enumeration's.
LEMMA PlainAnswer ==
  ASSUME NEW op \in {"load", "scope", "with_region", "init", "shutdown"}, NEW err \in Results,
         last' = Answer(op, err)
  PROVE  EachInListOrder' /\ last'.err \in Results /\ last'.op = op
<1>1. last'.op = op /\ last'.err = err /\ op # "region_each"
  BY DEF Answer
<1> QED BY <1>1 DEF EachInListOrder

\* A load of a module that is loaded already, or that is turned away.
LEMMA QuietLoads ==
  ASSUME TreeConsistent, NEW p \in Paths, LoadReuse(p) \/ LoadRefused(p)
  PROVE  TreeConsistent'
<1>1. UNCHANGED <<region, mod_hd, members, cur, frames>>
  BY DEF LoadReuse, LoadRefused
<1>2. PICK err \in Results : last' = Answer("load", err)
  <2>1. CASE LoadReuse(p)
    BY <2>1 DEF LoadReuse, Results
  <2>2. CASE LoadRefused(p)
    <3>1. \A g : ClaimResult(p, g) \in Results
      BY DEF ClaimResult, Results
    <3> QED BY <2>2, <3>1 DEF LoadRefused, Results
  <2> QED BY <2>1, <2>2
<1>3. EachInListOrder' /\ last'.err \in Results
  BY <1>2, PlainAnswer
<1>4. TypeOK'
  BY <1>1, <1>3 DEF TreeConsistent, TypeOK
<1> QED BY <1>1, <1>3, <1>4, SameTree DEF TreeConsistent

\* A load into the current region, xy_require_claim aside the calls that only
\* move the context.
LEMMA PlainLoad ==
  ASSUME TreeConsistent, NEW p \in Paths, LoadPlain(p)
  PROVE  TreeConsistent'
<1>1. region' = region /\ cur' = cur
  BY DEF LoadPlain
<1>2. CASE p \in NoInstall
  <2>1. UNCHANGED <<mod_hd, members, frames>> /\ last' = Answer("load", "NOTFOUND")
    BY <1>2 DEF LoadPlain
  <2>2. EachInListOrder' /\ last'.err \in Results
    BY <2>1, PlainAnswer DEF Results
  <2>3. TypeOK'
    BY <1>1, <2>1, <2>2 DEF TreeConsistent, TypeOK
  <2> QED BY <1>1, <2>1, <2>2, <2>3, SameTree DEF TreeConsistent
<1>3. CASE p \notin NoInstall
  <2> DEFINE f == [kind |-> "load", saved |-> cur]
  <2>1. /\ mod_hd' = WithKey(mod_hd, mod_key(p, cur), cur)
        /\ members' = [members EXCEPT ![cur] = @ \cup {p}]
        /\ frames' = Append(frames, f) /\ last' = Answer("scope", "OK")
    BY <1>3 DEF LoadPlain, Push
  <2>2. EachInListOrder' /\ last'.err \in Results
    BY <2>1, PlainAnswer DEF Results
  <2>3. cur \in DOMAIN region /\ cur \in Ids
    BY DEF TreeConsistent, TypeOK
  <2>4. f \in Frames /\ f.kind = "load" /\ f.saved = cur
    BY <2>3 DEF Frames
  <2>5. f \in FramesOnTrack
    BY <2>3, <2>4 DEF FramesOnTrack
  <2>6. frames' \in Seq(FramesOnTrack) /\ FramesOnTrack \subseteq Frames
    BY <2>1, <2>5, StackFacts DEF TreeConsistent, FramesOnTrack
  <2>7. frames' \in Seq(Frames)
    BY <2>6
  <2>8. \A k \in DOMAIN mod_hd' : mod_hd'[k] \in Ids
    BY <2>1, <2>3 DEF TreeConsistent, TypeOK, WithKey
  <2>9. DOMAIN members' = DOMAIN region /\ \A r \in DOMAIN region : members'[r] \subseteq Paths
    BY <2>1, <2>3 DEF TreeConsistent, TypeOK
  <2>10. TypeOK'
    BY <1>1, <2>2, <2>7, <2>8, <2>9 DEF TreeConsistent, TypeOK
  <2> QED BY <1>1, <2>2, <2>6, <2>10, SameTree DEF TreeConsistent
<1> QED BY <1>2, <1>3

\* xy_require_claim flips a flag of the current region and no pointer.
LEMMA RequireClaimStep ==
  ASSUME TreeConsistent, NEW on \in BOOLEAN, RequireClaim(on)
  PROVE  TreeConsistent'
<1>1. /\ region' = [region EXCEPT ![cur].require_claim = on] /\ last' = Answer("scope", "OK")
      /\ UNCHANGED <<mod_hd, members, cur, frames>> /\ cur \in DOMAIN region
      /\ TypeOK /\ PointersClosed /\ TreeShape
  BY DEF RequireClaim, TreeConsistent
<1>2. /\ DOMAIN region' = DOMAIN region
      /\ \A r \in DOMAIN region :
           /\ region'[r] \in RegionEntry
           /\ region'[r].plen = region[r].plen /\ region'[r].depth = region[r].depth
           /\ region'[r].child_bits = region[r].child_bits
           /\ region'[r].parent = region[r].parent
           /\ region'[r].sibling_next = region[r].sibling_next
           /\ region'[r].children_head = region[r].children_head
  BY <1>1 DEF TypeOK, RegionEntry
<1>3. EachInListOrder' /\ last'.err \in Results
  BY <1>1, PlainAnswer DEF Results
<1>4. /\ PointersClosed'
      /\ \A x \in Nodes(region) : Chains(region')[Cardinality(DOMAIN region')][x] =
                                   Chains(region)[Cardinality(DOMAIN region)][x]
      /\ \A r \in DOMAIN region : ChildList(r)' = ChildList(r)
  BY <1>1, <1>2, SamePointers
<1>5. FramesOnTrack \subseteq FramesOnTrack'
  BY <1>1, <1>2, <1>4, TrackKept
<1>6. TreeShape'
  <2>1. \A r \in DOMAIN region : {c \in DOMAIN region' : region'[c].parent = r} =
                                  {c \in DOMAIN region : region[c].parent = r}
    BY <1>2
  <2> QED BY <1>1, <1>2, <1>4, <2>1 DEF TreeShape
<1>7. AncestorChainFits'
  BY <1>2 DEF TreeConsistent, AncestorChainFits
<1>8. TypeOK'
  BY <1>1, <1>2, <1>3 DEF TypeOK
<1>9. frames' \in Seq(FramesOnTrack')
  <2>1. frames \in Seq(FramesOnTrack)
    BY DEF TreeConsistent
  <2> QED BY <1>1, <1>5, <2>1, StackFacts
<1> QED BY <1>1, <1>2, <1>3, <1>4, <1>6, <1>7, <1>8, <1>9 DEF TreeConsistent

\* The module map leads to ids.
MapTyped(m) == \A k \in DOMAIN m : m[k] \in Ids

\* A load that claims a child region and runs xy_install there.
LEMMA ClaimedLoad ==
  ASSUME TreeConsistent, NEW p \in Paths, LoadClaimed(p)
  PROVE  TreeConsistent'
<1>1. PICK g \in HandlerAnswers(cur) :
        LET c == region_alloc_slot(cur, g)
        IN  /\ ClaimResult(p, g) = "OK"
            /\ region' = WithChild(cur, c, g)
            /\ IF p \in NoInstall
               THEN /\ mod_hd' = WithoutKey(Rekeyed(mod_hd, p, cur, c), mod_key(p, c))
                    /\ members' = WithKey(members, c, {})
                    /\ last' = Answer("load", "NOTFOUND")
                    /\ UNCHANGED <<cur, frames>>
               ELSE /\ CanPush
                    /\ mod_hd' = Rekeyed(mod_hd, p, cur, c)
                    /\ members' = WithKey(members, c, {p})
                    /\ Push([kind |-> "load", saved |-> cur])
                    /\ cur' = c
                    /\ last' = Answer("scope", "OK")
  BY DEF LoadClaimed
<1> DEFINE c == region_alloc_slot(cur, g)
           f == [kind |-> "load", saved |-> cur]
<1>2. TypeOK /\ PointersClosed /\ TreeShape /\ AncestorChainFits /\ cur \in DOMAIN region
  BY DEF TreeConsistent
<1>3. c \in Ids \ DOMAIN region /\ g \in Nat \ {0} /\ region[cur].plen + g <= W
  BY <1>1, <1>2, AllocFacts
<1>4. region' = WithChild(cur, c, g)
  BY <1>1
<1>5. \/ /\ members' = WithKey(members, c, {}) /\ last' = Answer("load", "NOTFOUND")
         /\ mod_hd' = WithoutKey(Rekeyed(mod_hd, p, cur, c), mod_key(p, c))
         /\ cur' = cur /\ frames' = frames
      \/ /\ members' = WithKey(members, c, {p}) /\ last' = Answer("scope", "OK")
         /\ mod_hd' = Rekeyed(mod_hd, p, cur, c)
         /\ cur' = c /\ frames' = Append(frames, f)
  BY <1>1 DEF Push
<1> HIDE DEF c
<1>6. Grown(cur, c, g)
  BY <1>2, <1>3, <1>4 DEF Grown
<1>7. /\ DOMAIN region' = DOMAIN region \cup {c}
      /\ \A r \in DOMAIN region' : region'[r] \in RegionEntry
      /\ \A r \in DOMAIN region : region'[r].sibling_next = region[r].sibling_next
  <2>1. /\ DOMAIN region' = DOMAIN region \cup {c} /\ region'[c] \in RegionEntry
        /\ \A r \in DOMAIN region : region'[r] \in RegionEntry
        /\ \A r \in DOMAIN region : region'[r].sibling_next = region[r].sibling_next
    <3>1. Linking(region, region', cur, c, g)
      BY <1>2, <1>6, GrownFields
    <3> QED BY <3>1 DEF Linking
  <2> QED BY <2>1
<1>8. /\ PointersClosed'
      /\ \A x \in Nodes(region) : Chains(region')[Cardinality(DOMAIN region')][x] =
                                   Chains(region)[Cardinality(DOMAIN region)][x]
  BY <1>2, <1>6, GrownPointers
<1>9. TreeShape' /\ AncestorChainFits'
  BY <1>2, <1>6, GrownShape
<1>10. FramesOnTrack \subseteq FramesOnTrack'
  BY <1>2, <1>7, <1>8, TrackKept
<1>11. cur \in Ids
  BY DEF TreeConsistent, TypeOK
<1>12. f \in FramesOnTrack
  <2>1. f \in Frames /\ f.kind = "load" /\ f.saved = cur
    BY <1>11 DEF Frames
  <2> QED BY <1>2, <2>1 DEF FramesOnTrack
<1> HIDE DEF f
<1>13. frames \in Seq(FramesOnTrack)
  BY DEF TreeConsistent
<1>14. frames' \in Seq(FramesOnTrack')
  BY <1>5, <1>10, <1>12, <1>13, StackFacts
<1>15. frames' \in Seq(Frames)
  <2>1. FramesOnTrack' \subseteq Frames
    BY DEF FramesOnTrack, Frames
  <2> QED BY <1>14, <2>1
<1>16. cur' \in DOMAIN region' /\ cur' \in Ids
  BY <1>2, <1>3, <1>5, <1>7, <1>11
<1>17. EachInListOrder' /\ last'.err \in Results
  BY <1>5, PlainAnswer DEF Results
<1>18. DOMAIN members' = DOMAIN region' /\ \A r \in DOMAIN region' : members'[r] \subseteq Paths
  BY <1>2, <1>5, <1>7 DEF TypeOK, WithKey
<1>19. \A k \in DOMAIN mod_hd' : mod_hd'[k] \in Ids
  <2>1. \A m, k : MapTyped(m) => MapTyped(WithKey(m, k, c)) /\ MapTyped(WithoutKey(m, k))
    BY <1>3 DEF MapTyped, WithKey, WithoutKey
  <2>2. MapTyped(mod_hd)
    BY <1>2 DEF TypeOK, MapTyped
  <2>3. MapTyped(mod_hd')
    BY <1>5, <2>1, <2>2 DEF Rekeyed
  <2> QED BY <2>3 DEF MapTyped
<1>20. TypeOK'
  <2>1. DOMAIN region' \subseteq Ids
    BY <1>2, <1>3, <1>7 DEF TypeOK
  <2>2. Frames' = Frames
    BY DEF Frames
  <2> QED BY <1>7, <1>15, <1>16, <1>17, <1>18, <1>19, <2>1, <2>2 DEF TypeOK
<1> QED BY <1>8, <1>9, <1>14, <1>16, <1>17, <1>20 DEF TreeConsistent

\* Calls that only move the context: what is left to show of them.
LEMMA ContextStep ==
  ASSUME TreeConsistent, UNCHANGED <<region, mod_hd, members>>,
         cur' \in DOMAIN region, frames' \in Seq(FramesOnTrack),
         EachInListOrder', last'.err \in Results
  PROVE  TreeConsistent'
<1>1. frames' \in Seq(Frames)
  <2>1. FramesOnTrack \subseteq Frames
    BY DEF FramesOnTrack
  <2> QED BY <2>1
<1>2. TypeOK'
  BY <1>1 DEF TreeConsistent, TypeOK
<1> QED BY <1>2, SameTree DEF TreeConsistent

\* xy_with_region.
LEMMA WithRegionStep ==
  ASSUME TreeConsistent, NEW r \in Ids, WithRegion(r)
  PROVE  TreeConsistent'
<1> DEFINE f == [kind |-> "with", saved |-> cur]
<1>1. UNCHANGED <<region, mod_hd, members>> /\ cur \in DOMAIN region /\ cur \in Ids
      /\ frames \in Seq(FramesOnTrack)
  BY DEF WithRegion, TreeConsistent, TypeOK
<1>2. f \in FramesOnTrack
  <2>1. f \in Frames /\ f.kind = "with" /\ f.saved = cur
    BY <1>1 DEF Frames
  <2> QED BY <1>1, <2>1 DEF FramesOnTrack
<1>3. EachInListOrder' /\ last'.err \in Results
  <2>1. last' = Answer("scope", "OK") \/ last' = Answer("with_region", "NOTFOUND")
    BY DEF WithRegion
  <2> QED BY <2>1, PlainAnswer DEF Results
<1>4. \/ frames' = Append(frames, f) /\ cur' = r /\ r \in DOMAIN region
      \/ frames' = frames /\ cur' = cur
  BY DEF WithRegion, Push
<1> HIDE DEF f
<1>5. frames' \in Seq(FramesOnTrack) /\ cur' \in DOMAIN region
  BY <1>1, <1>2, <1>4, StackFacts
<1> QED BY <1>1, <1>3, <1>5, ContextStep

\* xy_install or a scope function returns.
LEMMA ReturnStep ==
  ASSUME TreeConsistent, Return
  PROVE  TreeConsistent'
<1>1. /\ UNCHANGED <<region, mod_hd, members>> /\ frames \in Seq(FramesOnTrack)
      /\ frames # <<>> /\ cur' = Top.saved /\ frames' = Front(frames)
      /\ last' = Answer("scope", "OK")
  BY DEF Return, TreeConsistent
<1>2. Front(frames) \in Seq(FramesOnTrack) /\ Top \in FramesOnTrack
  BY <1>1, StackFacts DEF Top
<1>3. cur' \in DOMAIN region
  BY <1>1, <1>2 DEF FramesOnTrack
<1>4. EachInListOrder' /\ last'.err \in Results
  BY <1>1, PlainAnswer DEF Results
<1> QED BY <1>1, <1>2, <1>3, <1>4, ContextStep

\* An element at the head of the rest is as good as one at the end.
LEMMA AppendMoves ==
  ASSUME NEW S, NEW a \in Seq(S), NEW b \in Seq(S), NEW x \in S
  PROVE  a \o (<<x>> \o b) = Append(a, x) \o b
<1> DEFINE l == a \o (<<x>> \o b)
           r == Append(a, x) \o b
           n == Len(a) + 1 + Len(b)
<1>1. Len(a) \in Nat /\ Len(b) \in Nat /\ <<x>> \in Seq(S) /\ Len(<<x>>) = 1
  OBVIOUS
<1>2. <<x>> \o b \in Seq(S) /\ Len(<<x>> \o b) = 1 + Len(b)
  BY <1>1
<1>3. l \in Seq(S) /\ Len(l) = n
  BY <1>1, <1>2
<1>4. Append(a, x) \in Seq(S) /\ Len(Append(a, x)) = Len(a) + 1
  BY <1>1
<1>5. r \in Seq(S) /\ Len(r) = n
  BY <1>1, <1>4
<1>6. ASSUME NEW i \in 1..n PROVE l[i] = r[i]
  <2>1. CASE i <= Len(a)
    BY <1>1, <1>2, <1>4, <2>1
  <2>2. CASE i = Len(a) + 1
    <3>1. (<<x>> \o b)[1] = x
      BY <1>1
    <3>2. l[i] = (<<x>> \o b)[1]
      BY <1>1, <1>2, <2>2
    <3>3. r[i] = x
      BY <1>1, <1>4, <2>2
    <3> QED BY <3>1, <3>2, <3>3
  <2>3. CASE i > Len(a) + 1
    <3> DEFINE j == i - Len(a) - 1
    <3>1. j \in 1..Len(b) /\ i = Len(a) + 1 + j /\ j + 1 \in 1..1 + Len(b) /\ i - Len(a) = j + 1
      BY <1>1, <2>3
    <3> HIDE DEF j
    <3>2. (<<x>> \o b)[j + 1] = b[j]
      BY <1>1, <3>1
    <3>3. l[i] = (<<x>> \o b)[j + 1]
      BY <1>1, <1>2, <2>3, <3>1
    <3>4. r[i] = b[j]
      BY <1>1, <1>4, <2>3, <3>1
    <3> QED BY <3>2, <3>3, <3>4
  <2> QED BY <1>1, <2>1, <2>2, <2>3
<1> HIDE DEF l, r
<1> QED BY <1>3, <1>5, <1>6 DEF l, r

\* xy_region_each calls its visitor for the head of the list.
LEMMA EachBeginStep ==
  ASSUME TreeConsistent, EachBegin
  PROVE  TreeConsistent'
<1> DEFINE h == region[cur].children_head
           f == [kind |-> "each", saved |-> cur, at |-> h, seen |-> <<h>>, due |-> ChildList(cur)]
<1>1. /\ UNCHANGED <<region, mod_hd, members, cur>> /\ frames \in Seq(FramesOnTrack)
      /\ cur \in DOMAIN region /\ cur \in Ids /\ PointersClosed /\ DOMAIN region \subseteq Ids
  BY DEF EachBegin, TreeConsistent, TypeOK
<1>2. CASE h = NULL
  <2>1. frames' = frames /\ last' = EachAnswer(<<>>, <<>>, TRUE)
    BY <1>2 DEF EachBegin
  <2>2. EachInListOrder' /\ last'.err \in Results
    <3>1. <<>> \in Seq(Ids) /\ IsInjective(<<>>)
      BY DEF IsInjective
    <3> QED BY <2>1, <3>1 DEF EachAnswer, EachInListOrder, Results
  <2> QED BY <1>1, <2>1, <2>2, ContextStep
<1>3. CASE h # NULL
  <2>1. frames' = Append(frames, f) /\ last' = Answer("scope", "OK")
    BY <1>3 DEF EachBegin, Push
  <2>2. EachInListOrder' /\ last'.err \in Results
    BY <2>1, PlainAnswer DEF Results
  <2>3. h \in DOMAIN region /\ h \in Ids
    BY <1>1, <1>3 DEF PointersClosed, Nodes
  <2>4. ChildList(cur) = <<h>> \o Behind(h)
    <3>1. /\ Cardinality(DOMAIN region) \in Nat /\ Linked(region)
          /\ region[cur].children_head \in Nodes(region)
      BY <1>1, FS_CardinalityType DEF PointersClosed
    <3>2. ChildList(cur) = Chains(region)[Cardinality(DOMAIN region)][h]
      BY <3>1, ChildListIsChain DEF ChildList, ChildListOf
    <3> HIDE DEF h
    <3> QED BY <1>1, <2>3, <3>2, BehindUnfolds
  <2>5. ChildList(cur) \in Seq(Ids) /\ IsInjective(ChildList(cur))
    BY <1>1, ListTyped DEF TreeConsistent, TreeShape
  <2> DEFINE due == ChildList(cur)
             seen == <<h>>
  <2>6. seen \in Seq(Ids)
    BY <2>3
  <2>7. f \in Frames
    <3> HIDE DEF h, due, seen
    <3>1. [kind |-> "each", saved |-> cur, at |-> h, seen |-> seen, due |-> due] \in Frames
      BY <1>1, <2>3, <2>5, <2>6 DEF Frames, due
    <3> QED BY <3>1 DEF due, seen
  <2>8. f.saved = cur /\ f.at = h /\ f.seen = <<h>> /\ f.due = ChildList(cur)
    OBVIOUS
  <2> HIDE DEF f
  <2>9. f \in FramesOnTrack
    BY <1>1, <2>3, <2>4, <2>5, <2>7, <2>8 DEF FramesOnTrack
  <2>10. frames' \in Seq(FramesOnTrack)
    BY <1>1, <2>1, <2>9, StackFacts
  <2> QED BY <1>1, <2>2, <2>10, ContextStep
<1> QED BY <1>2, <1>3

\* The frame of an enumeration and what is known of it.
LEMMA EachFrame ==
  ASSUME TreeConsistent, frames # <<>>, Top.kind = "each"
  PROVE  /\ Top \in [kind : {"each"}, saved : Ids, at : Ids, seen : Seq(Ids), due : Seq(Ids)]
         /\ Top.saved \in DOMAIN region /\ Top.at \in DOMAIN region
         /\ Top.due = Top.seen \o Behind(Top.at) /\ IsInjective(Top.due)
         /\ Front(frames) \in Seq(FramesOnTrack)
<1>1. frames \in Seq(FramesOnTrack)
  BY DEF TreeConsistent
<1>2. Front(frames) \in Seq(FramesOnTrack) /\ Top \in FramesOnTrack
  BY <1>1, StackFacts DEF Top
<1>3. Top \in [kind : {"each"}, saved : Ids, at : Ids, seen : Seq(Ids), due : Seq(Ids)]
  BY <1>2 DEF FramesOnTrack, Frames
<1> QED BY <1>2, <1>3 DEF FramesOnTrack

\* The enumeration goes on to the sibling, read when the visitor is back.
LEMMA EachNextStep ==
  ASSUME TreeConsistent, EachNext
  PROVE  TreeConsistent'
<1> DEFINE n == region[Top.at].sibling_next
           f == [Top EXCEPT !.at = n, !.seen = Append(@, n)]
<1>1. /\ UNCHANGED <<region, mod_hd, members, cur>> /\ frames # <<>> /\ Top.kind = "each"
      /\ cur \in DOMAIN region /\ PointersClosed /\ DOMAIN region \subseteq Ids
      /\ frames \in Seq(FramesOnTrack)
  BY DEF EachNext, TreeConsistent, TypeOK
<1>2. /\ Top \in [kind : {"each"}, saved : Ids, at : Ids, seen : Seq(Ids), due : Seq(Ids)]
      /\ Top.saved \in DOMAIN region /\ Top.at \in DOMAIN region
      /\ Top.due = Top.seen \o Behind(Top.at) /\ IsInjective(Top.due)
      /\ Front(frames) \in Seq(FramesOnTrack)
  BY <1>1, EachFrame
<1>3. CASE n = NULL
  <2>1. frames' = Front(frames) /\ last' = EachAnswer(Top.seen, Top.due, TRUE)
    BY <1>3 DEF EachNext
  <2>2. Behind(Top.at) = <<>> /\ Top.seen \in Seq(Ids)
    BY <1>1, <1>2, <1>3, BehindUnfolds
  <2>3. Top.due = Top.seen
    BY <1>2, <2>2
  <2>4. EachInListOrder' /\ last'.err \in Results
    <3>1. /\ last'.all = TRUE /\ last'.seen = Top.seen /\ last'.due = Top.due
          /\ last'.err = "OK"
      BY <2>1 DEF EachAnswer
    <3> QED BY <1>2, <2>2, <2>3, <3>1 DEF EachInListOrder, Results
  <2> QED BY <1>1, <1>2, <2>1, <2>4, ContextStep
<1>4. CASE n # NULL
  <2>1. frames' = [frames EXCEPT ![Len(frames)] = f] /\ last' = Answer("scope", "OK")
    BY <1>4 DEF EachNext
  <2>2. EachInListOrder' /\ last'.err \in Results
    BY <2>1, PlainAnswer DEF Results
  <2>3. n \in DOMAIN region /\ n \in Ids
    BY <1>1, <1>2, <1>4 DEF PointersClosed, Linked, Nodes
  <2>4. Behind(Top.at) = <<n>> \o Behind(n) /\ Behind(n) \in Seq(DOMAIN region)
    <3>1. Behind(Top.at) = Chains(region)[Cardinality(DOMAIN region)][n]
      BY DEF Behind
    <3> HIDE DEF n
    <3> QED BY <1>1, <2>3, <3>1, BehindUnfolds
  <2>5. Append(Top.seen, n) \in Seq(Ids) /\ Top.seen \in Seq(Ids)
    BY <1>2, <2>3
  <2>6. Top.due = Append(Top.seen, n) \o Behind(n)
    <3>1. Behind(n) \in Seq(Ids)
      BY <1>1, <2>4
    <3> HIDE DEF n
    <3>2. Top.seen \o (<<n>> \o Behind(n)) = Append(Top.seen, n) \o Behind(n)
      <4> DEFINE a == Top.seen
                 b == Behind(n)
      <4>1. a \in Seq(Ids) /\ b \in Seq(Ids) /\ n \in Ids
        BY <2>3, <2>5, <3>1
      <4> HIDE DEF a, b
      <4>2. a \o (<<n>> \o b) = Append(a, n) \o b
        BY <4>1, AppendMoves
      <4> QED BY <4>2 DEF a, b
    <3> QED BY <1>2, <2>4, <3>2
  <2>7. /\ f \in [kind : {"each"}, saved : Ids, at : Ids, seen : Seq(Ids), due : Seq(Ids)]
        /\ f.saved = Top.saved /\ f.at = n /\ f.seen = Append(Top.seen, n) /\ f.due = Top.due
    <3> HIDE DEF n
    <3> QED BY <1>2, <2>3, <2>5
  <2> HIDE DEF f
  <2>8. f \in FramesOnTrack
    <3>1. f \in Frames
      BY <2>7 DEF Frames
    <3> HIDE DEF n
    <3> QED BY <1>2, <2>3, <2>6, <2>7, <3>1 DEF FramesOnTrack
  <2>9. frames' \in Seq(FramesOnTrack)
    BY <1>1, <2>1, <2>8, StackFacts
  <2> QED BY <1>1, <2>2, <2>9, ContextStep
<1> QED BY <1>3, <1>4

\* The visitor stops the enumeration.
LEMMA EachBreakStep ==
  ASSUME TreeConsistent, EachBreak
  PROVE  TreeConsistent'
<1>1. /\ UNCHANGED <<region, mod_hd, members, cur>> /\ frames # <<>> /\ Top.kind = "each"
      /\ cur \in DOMAIN region /\ PointersClosed /\ DOMAIN region \subseteq Ids
      /\ frames' = Front(frames) /\ last' = EachAnswer(Top.seen, Top.due, FALSE)
  BY DEF EachBreak, TreeConsistent, TypeOK
<1>2. /\ Top \in [kind : {"each"}, saved : Ids, at : Ids, seen : Seq(Ids), due : Seq(Ids)]
      /\ Top.at \in DOMAIN region
      /\ Top.due = Top.seen \o Behind(Top.at) /\ IsInjective(Top.due)
      /\ Front(frames) \in Seq(FramesOnTrack)
  BY <1>1, EachFrame
<1>3. Behind(Top.at) \in Seq(Ids) /\ Top.seen \in Seq(Ids)
  <2>1. Behind(Top.at) \in Seq(DOMAIN region)
    BY <1>1, <1>2, BehindUnfolds
  <2> QED BY <1>1, <1>2, <2>1
<1>4. IsPrefix(Top.seen, Top.due)
  <2>1. \A a, b \in Seq(Ids) : IsPrefix(a, a \o b)
    BY DEF IsPrefix
  <2> QED BY <1>2, <1>3, <2>1
<1>5. /\ last'.all = FALSE /\ last'.seen = Top.seen /\ last'.due = Top.due
      /\ last'.err = "OK"
  BY <1>1 DEF EachAnswer
<1>6. EachInListOrder' /\ last'.err \in Results
  BY <1>2, <1>3, <1>4, <1>5 DEF EachInListOrder, Results
<1> QED BY <1>1, <1>2, <1>6, ContextStep

\* The map with the root alone, as region_ensure_root leaves it.
RootMap == [r \in {ROOT} |-> RootEntry]

\* It is typed, its pointers end at once and the root has no children.
LEMMA RootMapFacts ==
  /\ DOMAIN RootMap = {ROOT} /\ RootMap[ROOT] = RootEntry /\ RootEntry \in RegionEntry
  /\ IsFiniteSet(DOMAIN RootMap) /\ Linked(RootMap)
  /\ RootMap[ROOT].children_head \in Nodes(RootMap)
  /\ \E rank : Numbered(RootMap, rank)
  /\ ChildListOf(RootMap, ROOT) = <<>>
<1>1. DOMAIN RootMap = {ROOT} /\ RootMap[ROOT] = RootEntry
  BY DEF RootMap
<1>2. RootEntry \in RegionEntry
  <2>1. 0 \in 0..W
    BY SizeAssumption
  <2> QED BY <2>1 DEF RootEntry, RegionEntry
<1>3. RootEntry.sibling_next = NULL /\ RootEntry.children_head = NULL
  BY DEF RootEntry
<1>4. IsFiniteSet({ROOT}) /\ Cardinality({ROOT}) = 1
  BY FS_Singleton
<1>5. Linked(RootMap) /\ NULL \in Nodes(RootMap)
  BY <1>1, <1>3, IdsFacts DEF Linked, Nodes
<1> DEFINE rank == [x \in {ROOT} |-> 0]
<1>6. Numbered(RootMap, rank)
  <2>1. 0 \in 0..1-1
    OBVIOUS
  <2>2. rank \in [{ROOT} -> 0..1-1]
    BY <2>1
  <2> QED BY <1>1, <1>3, <1>4, <2>2 DEF Numbered
<1>7. ChildListOf(RootMap, ROOT) = <<>>
  <2>1. ChildListOf(RootMap, ROOT) = Chains(RootMap)[Cardinality(DOMAIN RootMap)][RootMap[ROOT].children_head]
    BY <1>1, <1>3, <1>4, <1>5, ChildListIsChain
  <2>2. Chains(RootMap)[1][NULL] = <<>>
    BY <1>5, ChainsFacts
  <2> QED BY <1>1, <1>3, <1>4, <2>1, <2>2
<1> QED BY <1>1, <1>2, <1>3, <1>4, <1>5, <1>6, <1>7

\* A runtime that has just started.
LEMMA InitConsistent ==
  ASSUME Init PROVE TreeConsistent
<1>1. region = RootMap
  BY DEF Init, RootMap
<1>2. ROOT \in Ids /\ NULL \notin Ids
  BY IdsFacts
<1>3. DOMAIN region = {ROOT} /\ region[ROOT] = RootEntry
  BY <1>1, RootMapFacts
<1>4. PointersClosed
  BY <1>1, <1>3, RootMapFacts DEF PointersClosed
<1>5. ChildList(ROOT) = <<>>
  <2>1. ChildList(ROOT) = ChildListOf(region, ROOT)
    BY DEF ChildList, ChildListOf
  <2> QED BY <1>1, <2>1, RootMapFacts
<1>6. TreeShape
  <2>1. IsInjective(<<>>) /\ ToSet(<<>>) = {}
    BY DEF IsInjective, ToSet
  <2>2. {c \in DOMAIN region : region[c].parent = ROOT} = {}
    BY <1>2, <1>3 DEF RootEntry
  <2> QED BY <1>3, <1>5, <2>1, <2>2 DEF TreeShape, RootEntry
<1>7. AncestorChainFits
  BY <1>3, SizeAssumption DEF AncestorChainFits, RootEntry
<1>8. /\ frames \in Seq(FramesOnTrack) /\ frames \in Seq(Frames) /\ EachInListOrder
      /\ last.err \in Results /\ cur = ROOT
  BY DEF Init, Answer, EachInListOrder, Results
<1>9. TypeOK
  BY <1>1, <1>2, <1>3, <1>8, RootMapFacts DEF Init, TypeOK
<1> QED BY <1>3, <1>4, <1>6, <1>7, <1>8, <1>9 DEF TreeConsistent

\* xy_shutdown and the bootstrap that follows.
LEMMA ShutdownStep ==
  ASSUME TreeConsistent, Shutdown
  PROVE  TreeConsistent'
<1>1. region' = RootMap
  BY DEF Shutdown, RootMap
<1>2. ROOT \in Ids /\ NULL \notin Ids
  BY IdsFacts
<1>3. DOMAIN region' = {ROOT} /\ region'[ROOT] = RootEntry
  BY <1>1, RootMapFacts
<1>4. PointersClosed'
  BY <1>1, <1>3, RootMapFacts DEF PointersClosed
<1>5. ChildList(ROOT)' = <<>>
  <2>1. ChildList(ROOT)' = ChildListOf(region', ROOT)
    BY DEF ChildList, ChildListOf
  <2> QED BY <1>1, <2>1, RootMapFacts
<1>6. TreeShape'
  <2>1. IsInjective(<<>>) /\ ToSet(<<>>) = {}
    BY DEF IsInjective, ToSet
  <2>2. {c \in DOMAIN region' : region'[c].parent = ROOT} = {}
    BY <1>2, <1>3 DEF RootEntry
  <2> QED BY <1>3, <1>5, <2>1, <2>2 DEF TreeShape, RootEntry
<1>7. AncestorChainFits'
  BY <1>3, SizeAssumption DEF AncestorChainFits, RootEntry
<1>8. EachInListOrder' /\ last'.err \in Results
  BY PlainAnswer DEF Shutdown, Results
<1>9. /\ frames' \in Seq(FramesOnTrack') /\ frames' \in Seq(Frames') /\ cur' = ROOT
  BY DEF Shutdown
<1>10. TypeOK'
  BY <1>1, <1>2, <1>3, <1>8, <1>9, RootMapFacts DEF Shutdown, TypeOK
<1> QED BY <1>3, <1>4, <1>6, <1>7, <1>8, <1>9, <1>10 DEF TreeConsistent

\* The invariant is inductive.
LEMMA NextConsistent ==
  ASSUME TreeConsistent, [Next]_vars PROVE TreeConsistent'
<1>1. CASE Next
  BY <1>1, QuietLoads, PlainLoad, ClaimedLoad, RequireClaimStep, WithRegionStep,
     ReturnStep, EachBeginStep, EachNextStep, EachBreakStep, ShutdownStep DEF Next
<1>2. CASE UNCHANGED vars
  <2>1. UNCHANGED <<region, mod_hd, members, cur, frames, last>>
    BY <1>2 DEF vars
  <2>2. EachInListOrder' /\ last'.err \in Results
    BY <2>1 DEF TreeConsistent, EachInListOrder, TypeOK
  <2> QED BY <2>1, <2>2, ContextStep DEF TreeConsistent
<1> QED BY <1>1, <1>2

-----------------------------------------------------------------------------
(* Prefixes and keys. *)

\* Region c is claimed for width g under the current one.
Claimed(c, g) ==
  /\ Grown(cur, c, g)
  /\ g \in HandlerAnswers(cur)
  /\ \E s \in SlotRange(region[cur].plen + g, g) :
       c = CandidateId(cur, region[cur].plen + g, s)

\* No field of any region changes but the claim gate.
SameRegions ==
  /\ DOMAIN region' = DOMAIN region
  /\ \A r \in DOMAIN region :
       /\ region'[r].plen = region[r].plen /\ region'[r].depth = region[r].depth
       /\ region'[r].child_bits = region[r].child_bits
       /\ region'[r].parent = region[r].parent
       /\ region'[r].sibling_next = region[r].sibling_next

\* What a granted claim does to the region map.
LEMMA GrantedClaim ==
  ASSUME TreeConsistent, NEW p, NEW g \in HandlerAnswers(cur), ClaimResult(p, g) = "OK",
         region' = WithChild(cur, region_alloc_slot(cur, g), g)
  PROVE  Claimed(region_alloc_slot(cur, g), g)
<1> DEFINE c == region_alloc_slot(cur, g)
<1>1. TypeOK /\ cur \in DOMAIN region
  BY DEF TreeConsistent
<1>2. /\ c \in Ids \ DOMAIN region /\ g \in Nat \ {0} /\ region[cur].plen + g <= W
      /\ \E s \in SlotRange(region[cur].plen + g, g) :
           c = CandidateId(cur, region[cur].plen + g, s)
  BY <1>1, AllocFacts
<1>3. region' = WithChild(cur, c, g)
  OBVIOUS
<1> HIDE DEF c
<1>4. Grown(cur, c, g)
  BY <1>1, <1>2, <1>3 DEF Grown
<1>5. Claimed(c, g)
  BY <1>2, <1>4 DEF Claimed
<1> QED BY <1>5 DEF c

\* What any step does to it.
LEMMA RegionSteps ==
  ASSUME TreeConsistent, Next
  PROVE  \/ SameRegions
         \/ \E c, g : Claimed(c, g)
         \/ Shutdown
<1>1. CASE region' = region
  BY <1>1 DEF SameRegions
<1>2. ASSUME NEW p \in Paths, LoadClaimed(p) PROVE \E c, g : Claimed(c, g)
  <2>1. PICK g \in HandlerAnswers(cur) :
          /\ ClaimResult(p, g) = "OK"
          /\ region' = WithChild(cur, region_alloc_slot(cur, g), g)
    BY <1>2 DEF LoadClaimed
  <2>2. Claimed(region_alloc_slot(cur, g), g)
    BY <2>1, GrantedClaim
  <2> QED BY <2>2
<1>3. ASSUME NEW on \in BOOLEAN, RequireClaim(on) PROVE SameRegions
  <2>1. region' = [region EXCEPT ![cur].require_claim = on]
    BY <1>3 DEF RequireClaim
  <2>2. TypeOK
    BY DEF TreeConsistent
  <2> QED BY <2>1, <2>2 DEF SameRegions, TypeOK, RegionEntry
<1>4. \/ region' = region \/ Shutdown
      \/ \E p \in Paths : LoadClaimed(p)
      \/ \E on \in BOOLEAN : RequireClaim(on)
  BY DEF Next, LoadReuse, LoadRefused, LoadPlain, WithRegion, Return,
         EachBegin, EachNext, EachBreak
<1> QED BY <1>1, <1>2, <1>3, <1>4

\* A prefix is never longer than what the handlers hand out; up to the full
\* width, where the search for a slot runs past the slots of the parent, an id
\* has no bit behind its prefix and starts with its parent's prefix.
IdsAligned ==
  \A r \in DOMAIN region :
    /\ region[r].plen <= MaxPlen
    /\ region[r].plen < W => r % pow2[W - region[r].plen] = 0
PrefixesNest ==
  \A r \in DOMAIN region \ {ROOT} :
    region[r].plen < W => Masked(r, region[region[r].parent].plen) = region[r].parent
Prefixed == IdsAligned /\ PrefixesNest

\* The root alone.
LEMMA RootPrefixed == region = RootMap => Prefixed
<1> SUFFICES ASSUME region = RootMap PROVE Prefixed
  OBVIOUS
<1>1. DOMAIN region = {ROOT} /\ region[ROOT].plen = 0 /\ MaxPlen \in Nat /\ W - 0 \in Nat
  BY RootMapFacts, SizeAssumption DEF RootEntry
<1>2. pow2[W - 0] \in Nat \ {0}
  BY <1>1, PowFacts
<1>3. ROOT % pow2[W - 0] = 0
  BY <1>2 DEF ROOT
<1> QED BY <1>1, <1>3 DEF Prefixed, IdsAligned, PrefixesNest

\* A granted claim.
LEMMA ClaimedPrefixed ==
  ASSUME TreeConsistent, Prefixed, NEW c, NEW g, Claimed(c, g)
  PROVE  Prefixed'
<1> DEFINE pl == region[cur].plen
<1>1. /\ cur \in DOMAIN region /\ cur \in Ids /\ pl \in Nat /\ c \in Ids \ DOMAIN region
      /\ g \in Nat \ {0} /\ pl + g <= W /\ W \in Nat /\ MaxPlen \in Nat
  BY SizeAssumption DEF TreeConsistent, TypeOK, RegionEntry, Claimed, Grown
<1>2. pl + g <= MaxPlen
  BY <1>1 DEF Claimed, HandlerAnswers
<1>3. /\ DOMAIN region' = DOMAIN region \cup {c} /\ c # cur
      /\ region'[c].plen = pl + g /\ region'[c].parent = cur
      /\ \A r \in DOMAIN region : /\ region'[r].plen = region[r].plen
                                  /\ region'[r].parent = region[r].parent
  <2>1. TypeOK /\ PointersClosed /\ Grown(cur, c, g)
    BY DEF TreeConsistent, Claimed
  <2>2. Linking(region, region', cur, c, g)
    BY <2>1, GrownFields
  <2> QED BY <2>2 DEF Linking
<1>4. cur % pow2[W - pl] = 0
  BY <1>1 DEF Prefixed, IdsAligned
<1>5. PICK s \in SlotRange(pl + g, g) : c = CandidateId(cur, pl + g, s)
  BY DEF Claimed
<1> HIDE DEF pl
<1>6. pl + g < W => c % pow2[W - (pl + g)] = 0 /\ Masked(c, pl) = cur
  BY <1>1, <1>2, <1>4, <1>5, CandidateFacts
<1>7. IdsAligned'
  BY <1>2, <1>3, <1>6 DEF Prefixed, IdsAligned
<1>8. PrefixesNest'
  <2> SUFFICES ASSUME NEW r \in DOMAIN region' \ {ROOT}, region'[r].plen < W
               PROVE  Masked(r, region'[region'[r].parent].plen) = region'[r].parent
    BY DEF PrefixesNest, Masked
  <2>1. CASE r = c
    <3>1. region'[r].parent = cur /\ region'[cur].plen = pl
      BY <1>1, <1>3, <2>1 DEF pl
    <3> QED BY <1>3, <1>6, <2>1, <3>1
  <2>2. CASE r # c
    <3>1. /\ r \in DOMAIN region \ {ROOT} /\ region'[r].parent = region[r].parent
          /\ region[r].plen < W
      BY <1>3, <2>2
    <3>2. region[r].parent \in DOMAIN region
      BY <3>1 DEF TreeConsistent, TreeShape
    <3>3. region'[region[r].parent].plen = region[region[r].parent].plen
      BY <1>3, <3>2
    <3>4. Masked(r, region[region[r].parent].plen) = region[r].parent
      BY <3>1 DEF Prefixed, PrefixesNest
    <3> QED BY <3>1, <3>3, <3>4
  <2> QED BY <2>1, <2>2
<1> QED BY <1>7, <1>8 DEF Prefixed

\* Every step keeps ids and prefixes together.
LEMMA NextPrefixed ==
  ASSUME TreeConsistent, Prefixed, [Next]_vars
  PROVE  Prefixed'
<1>1. CASE SameRegions
  <2>1. \A r \in DOMAIN region \ {ROOT} : region[r].parent \in DOMAIN region
    BY DEF TreeConsistent, TreeShape
  <2>2. IdsAligned'
    BY <1>1 DEF SameRegions, Prefixed, IdsAligned
  <2>3. PrefixesNest'
    BY <1>1, <2>1 DEF SameRegions, Prefixed, PrefixesNest, Masked
  <2> QED BY <2>2, <2>3 DEF Prefixed
<1>2. ASSUME NEW c, NEW g, Claimed(c, g) PROVE Prefixed'
  BY <1>2, ClaimedPrefixed
<1>3. CASE Shutdown
  <2>1. region' = RootMap
    BY <1>3 DEF Shutdown, RootMap
  <2>2. (region = RootMap)' => Prefixed'
    BY RootPrefixed, PTL
  <2> QED BY <2>1, <2>2 DEF RootMap, RootEntry
<1>4. CASE UNCHANGED vars
  BY <1>4 DEF vars, Prefixed, IdsAligned, PrefixesNest, Masked
<1> QED BY <1>1, <1>2, <1>3, <1>4, RegionSteps

\* What reachable states have in common.
Regular == TreeConsistent /\ Prefixed

LEMMA RegularInit == Init => Regular
<1>1. Init => region = RootMap
  BY DEF Init, RootMap
<1> QED BY <1>1, InitConsistent, RootPrefixed DEF Regular

LEMMA RegularNext == Regular /\ [Next]_vars => Regular'
  BY NextConsistent, NextPrefixed DEF Regular

\* path leads from its first region n steps up along parent pointers.
Climbs(path, n) ==
  /\ path \in [0..n -> DOMAIN region]
  /\ \A i \in 0..n-1 : path[i+1] = region[path[i]].parent

\* Every region a climb reaches passes the documented ancestry test: its id is
\* the lower region's, cut to its prefix length.
AncestorTestHolds ==
  \A n \in Nat : \A path \in [0..n -> DOMAIN region] :
    Climbs(path, n) /\ region[path[0]].plen < W =>
      Masked(path[0], region[path[n]].plen) = path[n]

\* One step up keeps the test.
LEMMA AncestorsPass ==
  ASSUME Regular PROVE AncestorTestHolds
<1> DEFINE P(n) == \A path : Climbs(path, n) /\ region[path[0]].plen < W =>
                     /\ region[path[n]].plen <= region[path[0]].plen
                     /\ Masked(path[0], region[path[n]].plen) = path[n]
           Good == {n \in Nat : P(n)}
<1>0. /\ W \in Nat /\ NULL \notin DOMAIN region
      /\ \A r \in DOMAIN region : r \in Nat /\ region[r].plen \in Nat
      /\ \A r \in DOMAIN region : region[r].plen < W => r % pow2[W - region[r].plen] = 0
  BY IdsFacts DEF Regular, TreeConsistent, TypeOK, RegionEntry, Prefixed, IdsAligned
<1>1. P(0)
  <2> SUFFICES ASSUME NEW path, Climbs(path, 0), region[path[0]].plen < W
               PROVE  Masked(path[0], region[path[0]].plen) = path[0]
    BY <1>0 DEF Climbs
  <2>1. path[0] \in DOMAIN region
    BY DEF Climbs
  <2> QED BY <1>0, <2>1 DEF Masked
<1>2. ASSUME NEW n \in Nat, P(n) PROVE P(n + 1)
  <2> SUFFICES ASSUME NEW path, Climbs(path, n + 1), region[path[0]].plen < W
               PROVE  /\ region[path[n + 1]].plen <= region[path[0]].plen
                      /\ Masked(path[0], region[path[n + 1]].plen) = path[n + 1]
    OBVIOUS
  <2> DEFINE low == [i \in 0..n |-> path[i]]
             r == path[0]
             a == path[n]
             b == path[n + 1]
  <2>1. 0 \in 0..n+1 /\ n \in 0..n+1 /\ n + 1 \in 0..n+1 /\ 0..n \subseteq 0..n+1 /\ n \in 0..(n+1)-1
    OBVIOUS
  <2>2. /\ r \in DOMAIN region /\ a \in DOMAIN region /\ b \in DOMAIN region
        /\ b = region[a].parent
    BY <2>1 DEF Climbs
  <2>3. Climbs(low, n) /\ low[0] = r /\ low[n] = a
    <3>1. low \in [0..n -> DOMAIN region]
      BY <2>1 DEF Climbs
    <3>2. \A i \in 0..n-1 : low[i+1] = path[i+1] /\ low[i] = path[i] /\ i \in 0..(n+1)-1
      OBVIOUS
    <3>3. \A i \in 0..n-1 : low[i+1] = region[low[i]].parent
      BY <3>2 DEF Climbs
    <3>4. low[0] = r /\ low[n] = a
      OBVIOUS
    <3> HIDE DEF low
    <3> QED BY <3>1, <3>3, <3>4 DEF Climbs
  <2> HIDE DEF low, r, a, b
  <2>4. region[r].plen < W
    BY DEF r
  <2>5. region[a].plen <= region[r].plen /\ Masked(r, region[a].plen) = a
    BY <1>2, <2>3, <2>4
  <2>6. a # ROOT
    BY <1>0, <2>2 DEF Regular, TreeConsistent, TreeShape
  <2>7. region[b].plen <= region[a].plen
    <3>1. region[a].plen = region[b].plen + region[a].child_bits
      BY <2>2, <2>6 DEF Regular, TreeConsistent, TreeShape
    <3>2. region[a].child_bits \in Nat
      BY <2>2 DEF Regular, TreeConsistent, TypeOK, RegionEntry
    <3> QED BY <1>0, <2>2, <3>1, <3>2
  <2>8. region[a].plen < W /\ region[a].plen <= W
    BY <1>0, <2>2, <2>4, <2>5
  <2>9. Masked(a, region[b].plen) = b
    BY <2>2, <2>6, <2>8 DEF Regular, Prefixed, PrefixesNest
  <2>10. Masked(Masked(r, region[a].plen), region[b].plen) = Masked(r, region[b].plen)
    BY <1>0, <2>2, <2>7, <2>8, MaskedTwice
  <2>11. region[b].plen <= region[r].plen /\ Masked(r, region[b].plen) = b
    BY <1>0, <2>2, <2>5, <2>7, <2>9, <2>10
  <2> QED BY <2>11 DEF r, b
<1> HIDE DEF P
<1>3. 0 \in Good /\ \A n \in Nat : n \in Good => n + 1 \in Good
  BY <1>1, <1>2
<1> HIDE DEF Good
<1>4. \A n \in Nat : n \in Good
  BY <1>3, SetInduction
<1> QED BY <1>4 DEF Good, P, AncestorTestHolds

\* The part of an id that is in a key tells any two of the regions D apart.
Apart(D) == \A r, s \in D : r \div pow2[KeyDrop] = s \div pow2[KeyDrop] => r = s

\* The last digit is lost to no harm as long as no prefix reaches into it.
LEMMA KeysApart ==
  ASSUME MaxPlen + KeyDrop <= W
  PROVE  Regular => Apart(DOMAIN region)
<1> SUFFICES ASSUME Regular, NEW r \in DOMAIN region, NEW s \in DOMAIN region,
                    r \div pow2[KeyDrop] = s \div pow2[KeyDrop]
             PROVE  r = s
  BY DEF Apart
<1> DEFINE d == pow2[KeyDrop]
<1>1. r \in Nat /\ s \in Nat /\ KeyDrop \in Nat /\ W \in Nat /\ MaxPlen \in Nat /\ d \in Nat \ {0}
  BY IdsFacts, PowFacts, SizeAssumption DEF Regular, TreeConsistent, TypeOK
<1>2. ASSUME NEW x \in DOMAIN region PROVE x % d = 0
  <2>0. x \in Nat
    BY IdsFacts DEF Regular, TreeConsistent, TypeOK
  <2>1. CASE KeyDrop = 0
    <3>1. d = 1
      BY <2>1, PowFacts
    <3> HIDE DEF d
    <3> QED BY <2>0, <3>1
  <2>2. CASE KeyDrop # 0
    <3> DEFINE pl == region[x].plen
               j == (W - pl) - KeyDrop
    <3>1. MaxPlen < W
      BY <1>1, <2>2
    <3>2. IdsAligned /\ TypeOK
      BY DEF Regular, Prefixed, TreeConsistent
    <3>3. pl \in Nat /\ pl <= MaxPlen /\ x % pow2[W - pl] = 0
      BY <1>1, <3>1, <3>2 DEF IdsAligned, TypeOK, RegionEntry
    <3> HIDE DEF pl
    <3>4. j \in Nat /\ W - pl = KeyDrop + j
      BY <1>1, <3>3
    <3> HIDE DEF j
    <3> DEFINE e == pow2[j]
               q == x \div (d * e)
    <3>5. pow2[W - pl] = d * e /\ e \in Nat \ {0}
      <4>1. pow2[KeyDrop + j] = pow2[KeyDrop] * pow2[j]
        BY <1>1, <3>4, PowSum
      <4>2. pow2[j] \in Nat \ {0}
        BY <3>4, PowFacts
      <4> QED BY <3>4, <4>1, <4>2
    <3> HIDE DEF d, e
    <3>6. d * e \in Nat \ {0}
      BY <1>1, <3>5
    <3>7. q \in Nat /\ x = (d * e) * q + (x % (d * e))
      BY <2>0, <3>6, DivMod
    <3>8. x % (d * e) = 0
      BY <3>3, <3>5
    <3> HIDE DEF q
    <3>9. x = (e * q) * d + 0 /\ e * q \in Nat /\ 0 \in 0..d-1
      BY <1>1, <3>5, <3>6, <3>7, <3>8
    <3> QED BY <1>1, <3>9, DivModUnique
  <2> QED BY <2>1, <2>2
<1>3. r % d = 0 /\ s % d = 0
  BY <1>2
<1>4. r \div d = s \div d
  OBVIOUS
<1> HIDE DEF d
<1>5. r = d * (r \div d) + (r % d) /\ s = d * (s \div d) + (s % d)
  BY <1>1, DivMod
<1> QED BY <1>1, <1>3, <1>4, <1>5

\* Two keys of live regions are equal only if path and region are.
LEMMA KeysDiffer ==
  ASSUME NEW D, Apart(D), NEW r \in D, NEW s \in D, NEW p, NEW q,
         mod_key(p, r) = mod_key(q, s)
  PROVE  p = q /\ r = s
  BY DEF mod_key, Apart

\* A load into the current region itself.
LEMMA PlainLoadKeys ==
  ASSUME TreeConsistent, KeysNameRegions, Apart(DOMAIN region),
         NEW p \in Paths, LoadPlain(p)
  PROVE  KeysNameRegions'
<1>1. region' = region /\ mod_key(p, cur) \notin DOMAIN mod_hd
  BY DEF LoadPlain
<1>2. CASE p \in NoInstall
  <2>1. mod_hd' = mod_hd /\ members' = members
    BY <1>2 DEF LoadPlain
  <2> QED BY <1>1, <2>1 DEF KeysNameRegions, mod_key
<1>3. CASE p \notin NoInstall
  <2>1. /\ mod_hd' = WithKey(mod_hd, mod_key(p, cur), cur)
        /\ members' = [members EXCEPT ![cur] = @ \cup {p}]
        /\ DOMAIN members = DOMAIN region /\ cur \in DOMAIN region
    BY <1>3 DEF LoadPlain, TreeConsistent, TypeOK
  <2> SUFFICES ASSUME NEW r \in DOMAIN region, NEW q \in members'[r]
               PROVE  mod_key(q, r) \in DOMAIN mod_hd' /\ mod_hd'[mod_key(q, r)] = r
    BY <1>1 DEF KeysNameRegions, mod_key
  <2>2. CASE r = cur /\ q = p
    BY <2>1, <2>2 DEF WithKey
  <2>3. CASE ~(r = cur /\ q = p)
    <3>1. q \in members[r]
      BY <2>1, <2>3
    <3>2. mod_key(q, r) \in DOMAIN mod_hd /\ mod_hd[mod_key(q, r)] = r
      BY <3>1 DEF KeysNameRegions
    <3>3. mod_key(q, r) # mod_key(p, cur)
      BY <1>1, <3>2
    <3> QED BY <2>1, <3>2, <3>3 DEF WithKey
  <2> QED BY <2>2, <2>3
<1> QED BY <1>2, <1>3

\* A load that claims: the entry is published under the parent, moved to the
\* child, and taken out again when there is no xy_install.
LEMMA ClaimedLoadKeys ==
  ASSUME TreeConsistent, KeysNameRegions, Apart(DOMAIN region), Apart(DOMAIN region'),
         NEW p \in Paths, LoadClaimed(p)
  PROVE  KeysNameRegions'
<1>1. PICK g \in HandlerAnswers(cur) :
        LET c == region_alloc_slot(cur, g)
        IN  /\ ClaimResult(p, g) = "OK"
            /\ region' = WithChild(cur, c, g)
            /\ \/ /\ mod_hd' = WithoutKey(Rekeyed(mod_hd, p, cur, c), mod_key(p, c))
                  /\ members' = WithKey(members, c, {})
               \/ /\ mod_hd' = Rekeyed(mod_hd, p, cur, c)
                  /\ members' = WithKey(members, c, {p})
  BY DEF LoadClaimed
<1> DEFINE c == region_alloc_slot(cur, g)
           old == mod_key(p, cur)
           new == mod_key(p, c)
<1>2. Claimed(c, g)
  BY <1>1, GrantedClaim
<1>3. \/ /\ mod_hd' = WithoutKey(Rekeyed(mod_hd, p, cur, c), new)
         /\ members' = WithKey(members, c, {})
      \/ /\ mod_hd' = Rekeyed(mod_hd, p, cur, c)
         /\ members' = WithKey(members, c, {p})
  BY <1>1
<1> HIDE DEF c
<1>4. /\ cur \in DOMAIN region /\ c \notin DOMAIN region /\ c # cur
      /\ DOMAIN region' = DOMAIN region \cup {c} /\ DOMAIN members = DOMAIN region
  BY <1>2 DEF Claimed, Grown, WithChild, TreeConsistent, TypeOK
<1>5. old \notin DOMAIN mod_hd
  BY DEF LoadClaimed
<1>6. old # new
  BY <1>4, KeysDiffer
<1>7. ASSUME NEW r \in DOMAIN region, NEW q \in members[r]
      PROVE  /\ mod_key(q, r) \in DOMAIN mod_hd /\ mod_hd[mod_key(q, r)] = r
             /\ mod_key(q, r) # old /\ mod_key(q, r) # new
  <2>1. mod_key(q, r) \in DOMAIN mod_hd /\ mod_hd[mod_key(q, r)] = r
    BY DEF KeysNameRegions
  <2>2. mod_key(q, r) # old
    BY <1>5, <2>1
  <2>3. r \in DOMAIN region' /\ c \in DOMAIN region' /\ r # c
    BY <1>4
  <2>4. mod_key(q, r) # new
    BY <2>3, KeysDiffer
  <2> QED BY <2>1, <2>2, <2>4
<1> DEFINE m == Rekeyed(mod_hd, p, cur, c)
<1>8. /\ \A k \in DOMAIN mod_hd \ {old, new} : k \in DOMAIN m /\ m[k] = mod_hd[k]
      /\ new \in DOMAIN m /\ m[new] = c
  BY <1>6 DEF Rekeyed, WithKey, WithoutKey
<1> HIDE DEF m
<1>9. \A k \in DOMAIN m \ {new} : k \in DOMAIN mod_hd' /\ mod_hd'[k] = m[k]
  BY <1>3 DEF m, WithoutKey
<1> SUFFICES ASSUME NEW r \in DOMAIN region', NEW q \in members'[r]
             PROVE  mod_key(q, r) \in DOMAIN mod_hd' /\ mod_hd'[mod_key(q, r)] = r
  BY DEF KeysNameRegions, mod_key
<1>10. CASE r = c
  <2>1. members'[c] # {}
    BY <1>10
  <2>2. mod_hd' = m /\ members'[c] = {p}
    BY <1>3, <2>1 DEF WithKey, m
  <2>3. mod_key(q, r) = new
    BY <1>10, <2>2
  <2> QED BY <1>8, <1>10, <2>2, <2>3
<1>11. CASE r # c
  <2>1. r \in DOMAIN region /\ q \in members[r]
    BY <1>3, <1>4, <1>11 DEF WithKey
  <2>2. /\ mod_key(q, r) \in DOMAIN mod_hd \ {old, new}
        /\ mod_hd[mod_key(q, r)] = r
    BY <1>7, <2>1
  <2> QED BY <1>8, <1>9, <2>2
<1> QED BY <1>10, <1>11

\* No step lets a key lead to another region's module.
LEMMA NextKeys ==
  ASSUME TreeConsistent, KeysNameRegions, Apart(DOMAIN region), Apart(DOMAIN region'),
         [Next]_vars
  PROVE  KeysNameRegions'
<1>1. CASE UNCHANGED <<mod_hd, members>> /\ DOMAIN region' = DOMAIN region
  BY <1>1 DEF KeysNameRegions, mod_key
<1>2. CASE Shutdown
  <2>1. region' = RootMap /\ members'[ROOT] = {}
    BY <1>2 DEF Shutdown, RootMap
  <2>2. DOMAIN region' = {ROOT}
    BY <2>1, RootMapFacts
  <2> QED BY <2>1, <2>2 DEF KeysNameRegions
<1>3. \/ UNCHANGED <<mod_hd, members>> /\ DOMAIN region' = DOMAIN region
      \/ \E p \in Paths : LoadPlain(p) \/ LoadClaimed(p)
      \/ Shutdown
  BY DEF Next, vars, LoadReuse, LoadRefused, RequireClaim, WithRegion, Return,
         EachBegin, EachNext, EachBreak
<1> QED BY <1>1, <1>2, <1>3, PlainLoadKeys, ClaimedLoadKeys

-----------------------------------------------------------------------------
(* Theorems. *)

\* The tree, the context and the enumerations in progress are consistent in
\* every reachable state.
THEOREM TreeAlways == Spec => []TreeConsistent
  BY InitConsistent, NextConsistent, PTL DEF Spec

\* The region map, the module map and the context keep their types.
THEOREM TypeCorrect == Spec => []TypeOK
<1>1. TreeConsistent => TypeOK
  BY DEF TreeConsistent
<1> QED BY <1>1, TreeAlways, PTL

\* Parent pointers and child lists describe one tree, whatever loads, scopes
\* and enumerations are nested when _xy_claim_for_load relinks two pointers.
THEOREM TreeShapeAlways == Spec => []TreeShape
<1>1. TreeConsistent => TreeShape
  BY DEF TreeConsistent
<1> QED BY <1>1, TreeAlways, PTL

\* For every id width W an array of W + 1 entries holds the ancestor chain of
\* every region, so xy_call checks the denies of all of them.
THEOREM AncestorChainAlwaysFits == Spec => []AncestorChainFits
<1>1. TreeConsistent => AncestorChainFits
  BY DEF TreeConsistent
<1> QED BY <1>1, TreeAlways, PTL

\* The tree and its ids are regular in every reachable state.
THEOREM RegularAlways == Spec => []Regular
  BY RegularInit, RegularNext, PTL DEF Spec

\* Prefix routing, whatever handlers grant: the id of a region that is not as
\* wide as the id itself starts with its parent's prefix, whichever slot
\* region_alloc_slot found free.
THEOREM PrefixesAlwaysNest == Spec => []PrefixesNest
<1>1. Regular => PrefixesNest
  BY DEF Regular, Prefixed
<1> QED BY <1>1, RegularAlways, PTL

\* So when claim handlers never hand out a prefix of the full width, every
\* child lies inside its parent.
THEOREM ChildAlwaysInsideParent ==
  ASSUME MaxPlen < W PROVE Spec => []ChildInsideParent
<1>1. Regular => ChildInsideParent
  <2> SUFFICES ASSUME Regular, NEW r \in DOMAIN region \ {ROOT}
               PROVE  Masked(r, region[region[r].parent].plen) = region[r].parent
    BY DEF ChildInsideParent
  <2>1. region[r].plen \in Nat /\ region[r].plen <= MaxPlen /\ W \in Nat /\ MaxPlen \in Nat
    BY SizeAssumption DEF Regular, Prefixed, IdsAligned, TreeConsistent, TypeOK, RegionEntry
  <2>2. region[r].plen < W
    BY <2>1
  <2> QED BY <2>2 DEF Regular, Prefixed, PrefixesNest
<1> QED BY <1>1, RegularAlways, PTL

\* The prefix test for ancestry that docs/api.md gives never misses an
\* ancestor, at any distance, of a region below the full width.
THEOREM AncestorsAlwaysPass == Spec => []AncestorTestHolds
  BY AncestorsPass, RegularAlways, PTL

\* The digit that mod_key loses never makes two modules share a key while the
\* prefixes stay clear of it, so every module on a region's list is found
\* under its key, across every claim that re-keys an entry.
THEOREM KeysAlwaysNameRegions ==
  ASSUME MaxPlen + KeyDrop <= W PROVE Spec => []KeysNameRegions
<1>1. Init => KeysNameRegions
  BY DEF Init, KeysNameRegions
<1>2. Regular => Apart(DOMAIN region)
  BY KeysApart
<1>3. Regular' => Apart(DOMAIN region')
  <2>1. Regular' => Apart(DOMAIN region)'
    BY <1>2, PTL
  <2> QED BY <2>1 DEF Apart
<1>4. Regular /\ Regular' /\ KeysNameRegions /\ [Next]_vars => KeysNameRegions'
  BY <1>2, <1>3, NextKeys DEF Regular
<1> QED BY <1>1, <1>4, RegularAlways, PTL DEF Spec

\* The current region and those that calls in progress put back are alive.
THEOREM ContextAlwaysLive == Spec => []ContextIsLive
<1>1. TreeConsistent => ContextIsLive
  <2> HAVE TreeConsistent
  <2>1. frames \in Seq(FramesOnTrack) /\ cur \in DOMAIN region
    BY DEF TreeConsistent
  <2>2. \A i \in DOMAIN frames : frames[i] \in FramesOnTrack
    BY <2>1
  <2> QED BY <2>1, <2>2 DEF ContextIsLive, FramesOnTrack
<1> QED BY <1>1, TreeAlways, PTL

\* What is visited of a list without repetitions, all of it or a prefix, has
\* none either.
LEMMA PrefixOnce ==
  ASSUME NEW S, NEW a \in Seq(S), NEW b \in Seq(S), IsPrefix(a, b), IsInjective(b)
  PROVE  IsInjective(a) /\ ToSet(a) \subseteq ToSet(b)
<1>1. /\ Len(a) <= Len(b) /\ Len(a) \in Nat /\ Len(b) \in Nat
      /\ DOMAIN a = 1..Len(a) /\ DOMAIN b = 1..Len(b)
  BY DEF IsPrefix
<1>2. \A i \in 1..Len(a) : a[i] = b[i] /\ i \in 1..Len(b)
  <2>1. a = SubSeq(b, 1, Len(a))
    BY DEF IsPrefix
  <2> QED BY <1>1, <2>1
<1> QED BY <1>1, <1>2 DEF IsInjective, ToSet

\* A finished enumeration has visited the children there were when it
\* started, each once, although its visitor may have claimed more; one that
\* was broken off has visited some of them.
THEOREM EachAlwaysVisitsSnapshot == Spec => []EachVisitsSnapshot
<1>1. TreeConsistent => EachVisitsSnapshot
  <2> SUFFICES ASSUME EachInListOrder, last.op = "region_each", "seen" \in DOMAIN last
               PROVE  /\ IsInjective(last.seen) /\ ToSet(last.seen) \subseteq ToSet(last.due)
                      /\ last.all => ToSet(last.seen) = ToSet(last.due)
    BY DEF TreeConsistent, EachVisitsSnapshot
  <2>1. /\ last.seen \in Seq(Ids) /\ last.due \in Seq(Ids) /\ IsInjective(last.due)
        /\ IF last.all THEN last.seen = last.due ELSE IsPrefix(last.seen, last.due)
    BY DEF EachInListOrder
  <2>2. CASE last.all
    BY <2>1, <2>2
  <2>3. CASE ~last.all
    BY <2>1, <2>3, PrefixOnce
  <2> QED BY <2>2, <2>3
<1> QED BY <1>1, TreeAlways, PTL

\* No step but xy_shutdown takes a region away, moves it in the tree or
\* changes its id, width or older siblings.
THEOREM RegionsAlwaysPersist == Spec => RegionsPersist
<1> DEFINE A == \A r \in DOMAIN region :
       \/ /\ r \in DOMAIN region'
          /\ \A f \in {"plen", "depth", "child_bits", "parent", "sibling_next"} :
               region'[r][f] = region[r][f]
       \/ last'.op = "shutdown"
<1>1. ASSUME TreeConsistent, Next PROVE A
  <2>1. CASE SameRegions
    BY <2>1 DEF SameRegions
  <2>2. ASSUME NEW c, NEW g, Claimed(c, g) PROVE A
    <3>1. TypeOK /\ PointersClosed /\ Grown(cur, c, g)
      BY <1>1, <2>2 DEF TreeConsistent, Claimed
    <3>2. Linking(region, region', cur, c, g)
      BY <3>1, GrownFields
    <3> QED BY <3>2 DEF Linking
  <2>3. CASE Shutdown
    BY <2>3 DEF Shutdown, Answer
  <2> QED BY <1>1, <2>1, <2>2, <2>3, RegionSteps
<1>2. TreeConsistent /\ [Next]_vars => [A]_vars
  BY <1>1
<1> HIDE DEF A
<1>3. Spec => [][A]_vars
  BY <1>2, TreeAlways, PTL DEF Spec
<1> QED BY <1>3 DEF A, RegionsPersist
=============================================================================
