----------------------------- MODULE SeqLemmas ------------------------------
(***************************************************************************)
(* Facts about sequences and subtree walks that the proofs of several      *)
(* components share: induction and recursion in terms of sets, taking      *)
(* an element out of a list and putting it back, filtering, concatenating, *)
(* and the depth-first walk of Subtrees.                                   *)
(***************************************************************************)
EXTENDS Integers, Subtrees, FiniteSetTheorems, WellFoundedInduction, TLAPS

-----------------------------------------------------------------------------
(* Induction. *)

\* A nonempty set of naturals has a least element.
LEMMA LeastNat ==
  ASSUME NEW T, T \subseteq Nat, T # {}
  PROVE  \E x \in T : \A y \in T : x <= y
<1>1. \E x \in T : \A y \in T : ~ (<<y, x>> \in OpToRel(<, Nat))
  BY NatLessThanWellFounded, WFMin
<1>2. PICK x \in T : \A y \in T : ~ (<<y, x>> \in OpToRel(<, Nat))
  BY <1>1
<1>3. \A y \in T : ~(y < x)
  BY <1>2 DEF OpToRel
<1> QED BY <1>3

\* A set that holds zero and is closed under successor holds every natural.
LEMMA SetInduction ==
  ASSUME NEW T, 0 \in T, \A n \in Nat : n \in T => n + 1 \in T
  PROVE  \A n \in Nat : n \in T
<1> DEFINE B == {n \in Nat : n \notin T}
<1> SUFFICES ASSUME B # {} PROVE FALSE
  OBVIOUS
<1>1. PICK x \in B : \A y \in B : x <= y
  BY LeastNat
<1>2. x # 0 /\ x - 1 \in Nat
  BY <1>1
<1>3. x - 1 \in B
  BY <1>1, <1>2
<1> QED BY <1>1, <1>3

\* The function f on the naturals starts with a and goes on with the steps h.
Recurses(T, a, h, f) ==
  f \in [Nat -> T] /\ f[0] = a /\ \A n \in Nat : f[n + 1] = h[n][f[n]]

\* Primitive recursion: there is such a function for every start and step.
LEMMA PrimitiveRecursion ==
  ASSUME NEW T, NEW a \in T, NEW h \in [Nat -> [T -> T]]
  PROVE  \E f : Recurses(T, a, h, f)
<1> DEFINE Upto(n) == {f \in [0..n -> T] : f[0] = a /\ \A i \in 0..n : i < n => f[i + 1] = h[i][f[i]]}
           P(n) == /\ \E f : f \in Upto(n)
                   /\ \A f, g : f \in Upto(n) /\ g \in Upto(n) => f[n] = g[n]
           Good == {n \in Nat : P(n)}
<1>a. ASSUME NEW n \in Nat, NEW f, f \in Upto(n)
      PROVE  f \in [0..n -> T] /\ f[0] = a /\ \A i \in 0..n : i < n => f[i + 1] = h[i][f[i]]
  BY <1>a
<1>b. ASSUME NEW n \in Nat, NEW f \in [0..n -> T], f[0] = a,
             \A i \in 0..n : i < n => f[i + 1] = h[i][f[i]]
      PROVE  f \in Upto(n)
  BY <1>b
<1> HIDE DEF Upto
<1>c. ASSUME NEW n \in Nat, NEW e, e \in Upto(n + 1)
      PROVE  \E b \in Upto(n) : b[n] = e[n] /\ e[n + 1] = h[n][e[n]]
  <2>1. n + 1 \in Nat
    OBVIOUS
  <2>2. e \in [0..n+1 -> T] /\ e[0] = a /\ \A i \in 0..n+1 : i < n + 1 => e[i + 1] = h[i][e[i]]
    BY <1>a, <1>c, <2>1
  <2>3. /\ \A i \in 0..n : i \in 0..n+1 /\ i < n + 1
        /\ \A i \in 0..n : i < n => i + 1 \in 0..n
        /\ n \in 0..n /\ 0 \in 0..n
    OBVIOUS
  <2> DEFINE b == [i \in 0..n |-> e[i]]
  <2>4. b \in [0..n -> T] /\ \A i \in 0..n : b[i] = e[i]
    BY <2>2, <2>3
  <2> HIDE DEF b
  <2>5. \A i \in 0..n : i < n => b[i + 1] = h[i][b[i]]
    BY <2>2, <2>3, <2>4
  <2>6. b[0] = a
    BY <2>2, <2>3, <2>4
  <2>7. b \in Upto(n)
    BY <1>b, <2>4, <2>5, <2>6
  <2> QED BY <2>2, <2>3, <2>4, <2>7
<1>1. P(0)
  <2>1. [i \in 0..0 |-> a] \in Upto(0)
    <3> DEFINE f == [i \in 0..0 |-> a]
    <3>1. f \in [0..0 -> T] /\ f[0] = a /\ \A i \in 0..0 : ~(i < 0)
      OBVIOUS
    <3> HIDE DEF f
    <3>2. f \in Upto(0)
      BY <1>b, <3>1
    <3> QED BY <3>2 DEF f
  <2>2. \A f : f \in Upto(0) => f[0] = a
    BY <1>a
  <2> QED BY <2>1, <2>2
<1>2. ASSUME NEW n \in Nat, P(n)
      PROVE  P(n + 1)
  <2>1. PICK f : f \in Upto(n)
    BY <1>2
  <2> DEFINE g == [i \in 0..n+1 |-> IF i = n + 1 THEN h[n][f[n]] ELSE f[i]]
  <2>2. f \in [0..n -> T] /\ f[0] = a /\ \A i \in 0..n : i < n => f[i + 1] = h[i][f[i]]
    BY <1>a, <2>1
  <2>3. \A i \in 0..n : i \in 0..n+1 /\ i # n + 1
    OBVIOUS
  <2>4. n \in 0..n /\ n + 1 \in 0..n+1 /\ 0 \in 0..n /\ n + 1 \in Nat
    OBVIOUS
  <2>5. h[n][f[n]] \in T
    BY <2>2, <2>4
  <2>6. \A i \in 0..n+1 : i = n + 1 \/ i \in 0..n
    OBVIOUS
  <2>7. g[n + 1] = h[n][f[n]] /\ \A i \in 0..n : g[i] = f[i]
    BY <2>3, <2>4
  <2>8. g \in [0..n+1 -> T]
    BY <2>2, <2>5, <2>6
  <2> HIDE DEF g
  <2>9. g[0] = a
    BY <2>2, <2>4, <2>7
  <2>10. \A i \in 0..n+1 : i < n + 1 => g[i + 1] = h[i][g[i]]
    <3> SUFFICES ASSUME NEW i \in 0..n+1, i < n + 1 PROVE g[i + 1] = h[i][g[i]]
      OBVIOUS
    <3>1. CASE i = n
      BY <2>4, <2>7, <3>1
    <3>2. CASE i # n
      <4>1. i \in 0..n /\ i < n /\ i + 1 \in 0..n
        BY <3>2
      <4> QED BY <2>2, <2>7, <4>1
    <3> QED BY <3>1, <3>2
  <2>11. g \in Upto(n + 1)
    BY <1>b, <2>4, <2>8, <2>9, <2>10
  <2>12. ASSUME NEW e1, NEW e2, e1 \in Upto(n + 1), e2 \in Upto(n + 1)
         PROVE  e1[n + 1] = e2[n + 1]
    <3>1. PICK b1 \in Upto(n) : b1[n] = e1[n] /\ e1[n + 1] = h[n][e1[n]]
      BY <1>c, <2>12
    <3>2. PICK b2 \in Upto(n) : b2[n] = e2[n] /\ e2[n + 1] = h[n][e2[n]]
      BY <1>c, <2>12
    <3> QED BY <1>2, <3>1, <3>2
  <2> QED BY <2>11, <2>12
<1>3. \A n \in Nat : P(n)
  <2> HIDE DEF P
  <2>1. 0 \in Good /\ \A n \in Nat : n \in Good => n + 1 \in Good
    BY <1>1, <1>2
  <2> HIDE DEF Good
  <2>2. \A n \in Nat : n \in Good
    BY <2>1, SetInduction
  <2> QED BY <2>2 DEF Good
<1> DEFINE s(n) == CHOOSE f : f \in Upto(n)
           r == [n \in Nat |-> s(n)[n]]
<1>4. \A n \in Nat : s(n) \in Upto(n)
  BY <1>3
<1> HIDE DEF s
<1>5. \A n \in Nat : s(n)[n] \in T
  <2> TAKE n \in Nat
  <2>1. s(n) \in Upto(n) /\ n \in 0..n
    BY <1>4
  <2>2. s(n) \in [0..n -> T]
    BY <1>a, <2>1
  <2> QED BY <2>1, <2>2
<1>6. \A n \in Nat : s(n + 1)[n + 1] = h[n][s(n)[n]]
  <2> TAKE n \in Nat
  <2>1. s(n + 1) \in Upto(n + 1) /\ s(n) \in Upto(n)
    BY <1>4
  <2>2. PICK b \in Upto(n) : b[n] = s(n + 1)[n] /\ s(n + 1)[n + 1] = h[n][s(n + 1)[n]]
    BY <1>c, <2>1
  <2>3. b[n] = s(n)[n]
    BY <1>3, <2>1
  <2> QED BY <2>2, <2>3
<1>7. s(0)[0] = a
  BY <1>a, <1>4
<1>8. r \in [Nat -> T] /\ \A n \in Nat : r[n] = s(n)[n]
  BY <1>5
<1> HIDE DEF r
<1>9. r[0] = a /\ \A n \in Nat : r[n + 1] = h[n][r[n]]
  <2>1. r[0] = a
    BY <1>7, <1>8
  <2>2. ASSUME NEW n \in Nat PROVE r[n + 1] = h[n][r[n]]
    <3>1. n + 1 \in Nat
      OBVIOUS
    <3> QED BY <1>6, <1>8, <3>1
  <2> QED BY <2>1, <2>2
<1> QED BY <1>8, <1>9 DEF Recurses

-----------------------------------------------------------------------------
(* Lists. *)

\* Removing position i shifts what is behind it by one.
LEMMA RemoveAtFacts ==
  ASSUME NEW S, NEW s \in Seq(S), NEW i \in 1..Len(s)
  PROVE  /\ RemoveAt(s, i) \in Seq(S)
         /\ Len(RemoveAt(s, i)) = Len(s) - 1
         /\ \A j \in 1..Len(s)-1 : RemoveAt(s, i)[j] = IF j < i THEN s[j] ELSE s[j + 1]
<1> DEFINE a == SubSeq(s, 1, i-1)
           b == SubSeq(s, i+1, Len(s))
<1>1. a \in Seq(S) /\ Len(a) = i - 1
  OBVIOUS
<1>2. b \in Seq(S) /\ Len(b) = Len(s) - i
  OBVIOUS
<1>3. \A j \in 1..i-1 : a[j] = s[j]
  OBVIOUS
<1>4. \A j \in 1..Len(s)-i : b[j] = s[i + j]
  OBVIOUS
<1> HIDE DEF a, b
<1>5. a \o b \in Seq(S) /\ Len(a \o b) = Len(s) - 1
  BY <1>1, <1>2
<1>6. \A j \in 1..Len(s)-1 : (a \o b)[j] = IF j < i THEN a[j] ELSE b[j - i + 1]
  BY <1>1, <1>2
<1>7. \A j \in 1..Len(s)-1 : (a \o b)[j] = IF j < i THEN s[j] ELSE s[j + 1]
  <2> TAKE j \in 1..Len(s)-1
  <2>1. CASE j < i
    <3>1. j \in 1..i-1
      BY <2>1
    <3>2. a[j] = s[j]
      BY <3>1, <1>3
    <3> QED BY <2>1, <3>2, <1>6
  <2>2. CASE ~(j < i)
    <3>1. j - i + 1 \in 1..Len(s)-i /\ i + (j - i + 1) = j + 1
      BY <2>2
    <3>2. b[j - i + 1] = s[j + 1]
      BY <3>1, <1>4
    <3>3. (a \o b)[j] = b[j - i + 1]
      BY <2>2, <1>6
    <3> QED BY <2>2, <3>2, <3>3
  <2> QED BY <2>1, <2>2
<1> QED BY <1>5, <1>7 DEF RemoveAt, a, b

\* Inserting at position i shifts what was there and behind by one.
LEMMA InsertAtFacts ==
  ASSUME NEW S, NEW s \in Seq(S), NEW i \in 1..Len(s)+1, NEW e \in S
  PROVE  /\ InsertAt(s, i, e) \in Seq(S)
         /\ Len(InsertAt(s, i, e)) = Len(s) + 1
         /\ InsertAt(s, i, e)[i] = e
         /\ \A j \in 1..i-1 : InsertAt(s, i, e)[j] = s[j]
         /\ \A j \in i+1..Len(s)+1 : InsertAt(s, i, e)[j] = s[j - 1]
<1> DEFINE a == SubSeq(s, 1, i-1)
           b == SubSeq(s, i, Len(s))
           m == a \o <<e>>
<1>1. a \in Seq(S) /\ Len(a) = i - 1
  OBVIOUS
<1>2. b \in Seq(S) /\ Len(b) = Len(s) - i + 1
  OBVIOUS
<1>3. \A j \in 1..i-1 : a[j] = s[j]
  OBVIOUS
<1>4. \A j \in 1..Len(s)-i+1 : b[j] = s[i + j - 1]
  OBVIOUS
<1> HIDE DEF a, b
<1>5. m \in Seq(S) /\ Len(m) = i /\ m[i] = e /\ \A j \in 1..i-1 : m[j] = s[j]
  BY <1>1, <1>3
<1> HIDE DEF m
<1>6. m \o b \in Seq(S) /\ Len(m \o b) = Len(s) + 1
  BY <1>2, <1>5
<1>7. \A j \in 1..i : (m \o b)[j] = m[j]
  BY <1>2, <1>5
<1>8. \A j \in i+1..Len(s)+1 : (m \o b)[j] = s[j - 1]
  <2> TAKE j \in i+1..Len(s)+1
  <2>1. (m \o b)[j] = b[j - i]
    BY <1>2, <1>5
  <2>2. j - i \in 1..Len(s)-i+1 /\ i + (j - i) - 1 = j - 1
    OBVIOUS
  <2> QED BY <1>4, <2>1, <2>2
<1>9. InsertAt(s, i, e) = m \o b
  BY DEF InsertAt, a, b, m
<1>10. (m \o b)[i] = e /\ \A j \in 1..i-1 : (m \o b)[j] = s[j]
  BY <1>5, <1>7
<1> QED BY <1>6, <1>8, <1>9, <1>10

\* Unlinking takes exactly one element out of a list without repetitions.
LEMMA UnlinkedFacts ==
  ASSUME NEW S, NEW s \in Seq(S), IsInjective(s), NEW e \in ToSet(s)
  PROVE  /\ Unlinked(s, e) \in Seq(S)
         /\ Len(Unlinked(s, e)) = Len(s) - 1
         /\ ToSet(Unlinked(s, e)) = ToSet(s) \ {e}
         /\ IsInjective(Unlinked(s, e))
<1> DEFINE k == CHOOSE i \in DOMAIN s : s[i] = e
           u == Unlinked(s, e)
<1>1. DOMAIN s = 1..Len(s) /\ k \in 1..Len(s) /\ s[k] = e
  BY DEF ToSet
<1>2. u = RemoveAt(s, k)
  BY DEF Unlinked
<1> HIDE DEF k, u
<1>3. /\ u \in Seq(S) /\ Len(u) = Len(s) - 1
      /\ \A j \in 1..Len(s)-1 : u[j] = IF j < k THEN s[j] ELSE s[j + 1]
  BY <1>1, <1>2, RemoveAtFacts
<1>4. DOMAIN u = 1..Len(s)-1
  BY <1>3
<1>5. \A x \in ToSet(u) : x \in ToSet(s) /\ x # e
  <2> SUFFICES ASSUME NEW j \in 1..Len(s)-1
               PROVE  u[j] \in ToSet(s) /\ u[j] # e
    BY <1>4 DEF ToSet
  <2>1. PICK m \in 1..Len(s) : m # k /\ u[j] = s[m]
    BY <1>1, <1>3
  <2> QED BY <1>1, <2>1 DEF ToSet, IsInjective
<1>6. \A x \in ToSet(s) : x # e => x \in ToSet(u)
  <2> SUFFICES ASSUME NEW m \in 1..Len(s), s[m] # e
               PROVE  \E j \in 1..Len(s)-1 : u[j] = s[m]
    BY <1>1, <1>4 DEF ToSet
  <2>1. CASE m < k
    <3>1. m \in 1..Len(s)-1 /\ u[m] = s[m]
      BY <1>1, <1>3, <2>1
    <3> QED BY <3>1
  <2>2. CASE m > k
    <3>1. m - 1 \in 1..Len(s)-1 /\ ~(m - 1 < k) /\ (m - 1) + 1 = m
      BY <1>1, <2>2
    <3>2. u[m - 1] = s[m]
      BY <1>3, <3>1
    <3> QED BY <3>1, <3>2
  <2> QED BY <1>1, <2>1, <2>2
<1>7. IsInjective(u)
  <2> SUFFICES ASSUME NEW i \in 1..Len(s)-1, NEW j \in 1..Len(s)-1, u[i] = u[j]
               PROVE  i = j
    BY <1>4 DEF IsInjective
  <2> DEFINE at(x) == IF x < k THEN x ELSE x + 1
  <2>1. at(i) \in 1..Len(s) /\ at(j) \in 1..Len(s) /\ (at(i) = at(j) => i = j)
    BY <1>1
  <2>2. u[i] = s[at(i)] /\ u[j] = s[at(j)]
    BY <1>3
  <2> HIDE DEF at
  <2>3. at(i) = at(j)
    BY <1>1, <2>1, <2>2 DEF IsInjective
  <2> QED BY <2>1, <2>3
<1> QED BY <1>3, <1>5, <1>6, <1>7 DEF u

\* Inserting adds one element.
LEMMA InsertedFacts ==
  ASSUME NEW S, NEW s \in Seq(S), IsInjective(s), NEW i \in 1..Len(s)+1,
         NEW e \in S, e \notin ToSet(s)
  PROVE  /\ InsertAt(s, i, e) \in Seq(S)
         /\ ToSet(InsertAt(s, i, e)) = ToSet(s) \cup {e}
         /\ IsInjective(InsertAt(s, i, e))
<1> DEFINE u == InsertAt(s, i, e)
<1>0. /\ InsertAt(s, i, e) \in Seq(S)
      /\ Len(InsertAt(s, i, e)) = Len(s) + 1
      /\ InsertAt(s, i, e)[i] = e
      /\ \A j \in 1..i-1 : InsertAt(s, i, e)[j] = s[j]
      /\ \A j \in i+1..Len(s)+1 : InsertAt(s, i, e)[j] = s[j - 1]
  BY InsertAtFacts
<1>1. /\ u \in Seq(S) /\ Len(u) = Len(s) + 1
      /\ u[i] = e
      /\ \A j \in 1..i-1 : u[j] = s[j]
      /\ \A j \in i+1..Len(s)+1 : u[j] = s[j - 1]
  BY <1>0
<1> HIDE DEF u
<1>2. DOMAIN u = 1..Len(s)+1 /\ DOMAIN s = 1..Len(s)
  BY <1>1
<1>3. \A x \in ToSet(u) : x \in ToSet(s) \cup {e}
  <2> SUFFICES ASSUME NEW j \in 1..Len(s)+1
               PROVE  u[j] \in ToSet(s) \cup {e}
    BY <1>2 DEF ToSet
  <2>1. CASE j = i
    BY <1>1, <2>1
  <2>2. CASE j < i
    <3>1. j \in 1..Len(s) /\ u[j] = s[j]
      BY <1>1, <2>2
    <3> QED BY <1>2, <3>1 DEF ToSet
  <2>3. CASE j > i
    <3>1. j - 1 \in 1..Len(s) /\ u[j] = s[j - 1]
      BY <1>1, <2>3
    <3> QED BY <1>2, <3>1 DEF ToSet
  <2> QED BY <2>1, <2>2, <2>3
<1>4. u[i] = e
  BY <1>1
<1>5. \A x \in ToSet(s) : x \in ToSet(u)
  <2> SUFFICES ASSUME NEW m \in 1..Len(s)
               PROVE  \E j \in 1..Len(s)+1 : u[j] = s[m]
    BY <1>2 DEF ToSet
  <2>1. CASE m < i
    <3>1. m \in 1..Len(s)+1 /\ u[m] = s[m]
      BY <1>1, <2>1
    <3> QED BY <3>1
  <2>2. CASE ~(m < i)
    <3>1. m + 1 \in 1..Len(s)+1 /\ ~(m + 1 < i) /\ m + 1 # i /\ (m + 1) - 1 = m
      BY <2>2
    <3>2. u[m + 1] = s[m]
      BY <1>1, <3>1
    <3> QED BY <3>1, <3>2
  <2> QED BY <2>1, <2>2
<1>6. IsInjective(u)
  <2> SUFFICES ASSUME NEW a \in 1..Len(s)+1, NEW b \in 1..Len(s)+1, u[a] = u[b]
               PROVE  a = b
    BY <1>2 DEF IsInjective
  <2> DEFINE at(x) == IF x < i THEN x ELSE x - 1
  <2>1. \A x \in 1..Len(s)+1 : x # i => at(x) \in 1..Len(s) /\ u[x] = s[at(x)] /\ u[x] # e
    <3> SUFFICES ASSUME NEW x \in 1..Len(s)+1, x # i
                 PROVE  at(x) \in 1..Len(s) /\ u[x] = s[at(x)] /\ u[x] # e
      OBVIOUS
    <3>1. at(x) \in 1..Len(s) /\ u[x] = s[at(x)]
      BY <1>1
    <3> QED BY <1>2, <3>1 DEF ToSet
  <2>2. CASE a = i \/ b = i
    BY <1>4, <2>1, <2>2
  <2>3. CASE a # i /\ b # i
    <3>1. at(a) = at(b)
      BY <1>2, <2>1, <2>3 DEF IsInjective
    <3> QED BY <3>1, <2>3
  <2> QED BY <2>2, <2>3
<1>7. ToSet(u) = ToSet(s) \cup {e}
  <2>1. e \in ToSet(u)
    BY <1>2, <1>4 DEF ToSet
  <2> QED BY <1>3, <1>5, <2>1
<1> QED BY <1>1, <1>6, <1>7 DEF u

\* Appending adds one element.
LEMMA AppendedFacts ==
  ASSUME NEW S, NEW s \in Seq(S), NEW e \in S
  PROVE  /\ Append(s, e) \in Seq(S)
         /\ ToSet(Append(s, e)) = ToSet(s) \cup {e}
         /\ IsInjective(s) /\ e \notin ToSet(s) => IsInjective(Append(s, e))
<1> DEFINE u == Append(s, e)
<1>1. /\ u \in Seq(S) /\ Len(u) = Len(s) + 1 /\ u[Len(s) + 1] = e
      /\ \A j \in 1..Len(s) : u[j] = s[j]
  OBVIOUS
<1> HIDE DEF u
<1>2. DOMAIN u = 1..Len(s)+1 /\ DOMAIN s = 1..Len(s)
  BY <1>1
<1>3. ToSet(u) = ToSet(s) \cup {e}
  <2>1. ASSUME NEW j \in DOMAIN u PROVE u[j] \in ToSet(s) \cup {e}
    <3>1. CASE j = Len(s) + 1
      BY <1>1, <3>1
    <3>2. CASE j # Len(s) + 1
      <4>1. j \in DOMAIN s
        BY <1>2, <3>2
      <4> QED BY <1>1, <1>2, <4>1 DEF ToSet
    <3> QED BY <3>1, <3>2
  <2>2. ASSUME NEW j \in DOMAIN s PROVE j \in DOMAIN u /\ u[j] = s[j]
    BY <1>1, <1>2
  <2>3. Len(s) + 1 \in DOMAIN u
    BY <1>2
  <2> QED BY <1>1, <2>1, <2>2, <2>3 DEF ToSet
<1>4. ASSUME IsInjective(s), e \notin ToSet(s) PROVE IsInjective(u)
  <2> SUFFICES ASSUME NEW a \in 1..Len(s)+1, NEW b \in 1..Len(s)+1, u[a] = u[b]
               PROVE  a = b
    BY <1>2 DEF IsInjective
  <2>1. \A x \in 1..Len(s) : u[x] = s[x] /\ s[x] # e
    BY <1>1, <1>2, <1>4 DEF ToSet
  <2>2. CASE a = Len(s) + 1 \/ b = Len(s) + 1
    BY <1>1, <2>1, <2>2
  <2>3. CASE a # Len(s) + 1 /\ b # Len(s) + 1
    <3>1. a \in 1..Len(s) /\ b \in 1..Len(s)
      BY <2>3
    <3> QED BY <1>2, <1>4, <2>1, <3>1 DEF IsInjective
  <2> QED BY <2>2, <2>3
<1> QED BY <1>1, <1>3, <1>4 DEF u

-----------------------------------------------------------------------------
(* Recursive functions over sequences. *)

\* What Only computes after i elements, as a function of what it had before.
KeptStep(s, S, f, n) ==
  [i \in 0..n |->
     IF i = 0 THEN <<>>
     ELSE IF s[i] \in S THEN Append(f[i-1], s[i]) ELSE f[i-1]]

\* The recursive definition of Only has a solution, and Only is its last value.
LEMMA OnlyDefined ==
  ASSUME NEW T, NEW s \in Seq(T), NEW S
  PROVE  \E f : f = KeptStep(s, S, f, Len(s)) /\ Only(s, S) = f[Len(s)]
<1> DEFINE Good == {n \in Nat : \E f : f = KeptStep(s, S, f, n)}
<1>1. 0 \in Good
  <2> DEFINE g == [i \in 0..0 |-> <<>>]
  <2>1. g = KeptStep(s, S, g, 0)
    BY DEF KeptStep
  <2> HIDE DEF g
  <2> QED BY <2>1
<1>2. \A n \in Nat : n \in Good => n + 1 \in Good
  <2> SUFFICES ASSUME NEW n \in Nat, NEW f, f = KeptStep(s, S, f, n)
               PROVE  \E g : g = KeptStep(s, S, g, n + 1)
    OBVIOUS
  <2> DEFINE new == IF s[n+1] \in S THEN Append(f[n], s[n+1]) ELSE f[n]
             g == [i \in 0..n+1 |-> IF i = n + 1 THEN new ELSE f[i]]
  <2>1. \A i \in 0..n : f[i] = IF i = 0 THEN <<>>
                               ELSE IF s[i] \in S THEN Append(f[i-1], s[i]) ELSE f[i-1]
    BY DEF KeptStep
  <2>2. \A i \in 0..n : g[i] = f[i]
    OBVIOUS
  <2>3. g[n+1] = new /\ DOMAIN g = 0..n+1
    OBVIOUS
  <2>4. \A i \in 0..n+1 : g[i] = IF i = 0 THEN <<>>
                                 ELSE IF s[i] \in S THEN Append(g[i-1], s[i]) ELSE g[i-1]
    <3> TAKE i \in 0..n+1
    <3>1. CASE i = n + 1
      <4>1. i # 0 /\ i - 1 = n /\ n \in 0..n
        BY <3>1
      <4>2. g[i-1] = f[n]
        BY <2>2, <4>1
      <4> QED BY <2>3, <3>1, <4>1, <4>2
    <3>2. CASE i = 0
      BY <2>1, <2>2, <3>2
    <3>3. CASE i \in 1..n
      <4>1. i \in 0..n /\ i - 1 \in 0..n /\ i # 0
        BY <3>3
      <4>2. g[i] = f[i] /\ g[i-1] = f[i-1]
        BY <2>2, <4>1
      <4> QED BY <2>1, <4>1, <4>2
    <3> QED BY <3>1, <3>2, <3>3
  <2>5. g = [i \in 0..n+1 |-> g[i]]
    OBVIOUS
  <2> HIDE DEF g, new
  <2>6. g = KeptStep(s, S, g, n + 1)
    BY <2>4, <2>5 DEF KeptStep
  <2> QED BY <2>6
<1>3. \A n \in Nat : n \in Good
  <2> HIDE DEF Good
  <2> QED BY <1>1, <1>2, SetInduction
<1>4. \E f : f = KeptStep(s, S, f, Len(s))
  BY <1>3
<1> DEFINE k == CHOOSE f : f = KeptStep(s, S, f, Len(s))
<1>5. k = KeptStep(s, S, k, Len(s))
  BY <1>4
<1>6. Only(s, S) = k[Len(s)]
  BY DEF Only, KeptStep
<1> HIDE DEF k
<1> QED BY <1>5, <1>6

\* Filtering keeps exactly the elements of s that are in S, and repeats none
\* that s does not repeat.
LEMMA OnlyFacts ==
  ASSUME NEW T, NEW s \in Seq(T), NEW S
  PROVE  /\ Only(s, S) \in Seq(T)
         /\ ToSet(Only(s, S)) = ToSet(s) \cap S
         /\ IsInjective(s) => IsInjective(Only(s, S))
<1>1. PICK f : f = KeptStep(s, S, f, Len(s)) /\ Only(s, S) = f[Len(s)]
  BY OnlyDefined
<1>2. \A i \in 0..Len(s) : f[i] = IF i = 0 THEN <<>>
                                  ELSE IF s[i] \in S THEN Append(f[i-1], s[i]) ELSE f[i-1]
  BY <1>1 DEF KeptStep
<1> DEFINE Upto(n) == {x \in S : \E j \in 1..n : s[j] = x}
           P(n) == n <= Len(s) =>
                     /\ f[n] \in Seq(T) /\ ToSet(f[n]) = Upto(n)
                     /\ IsInjective(s) => IsInjective(f[n])
           Good == {n \in Nat : P(n)}
<1>3. 0 \in Good
  <2>1. f[0] = <<>>
    BY <1>2
  <2>2. ToSet(<<>>) = {} /\ Upto(0) = {} /\ IsInjective(<<>>) /\ <<>> \in Seq(T)
    BY DEF ToSet, IsInjective
  <2> QED BY <2>1, <2>2
<1>4. \A n \in Nat : n \in Good => n + 1 \in Good
  <2> SUFFICES ASSUME NEW n \in Nat, P(n) PROVE P(n + 1)
    <3> HIDE DEF P
    <3> QED OBVIOUS
  <2> SUFFICES ASSUME n + 1 <= Len(s)
               PROVE  /\ f[n+1] \in Seq(T) /\ ToSet(f[n+1]) = Upto(n+1)
                      /\ IsInjective(s) => IsInjective(f[n+1])
    OBVIOUS
  <2>1. /\ f[n] \in Seq(T) /\ ToSet(f[n]) = Upto(n)
        /\ IsInjective(s) => IsInjective(f[n])
    OBVIOUS
  <2>2. n + 1 \in 1..Len(s) /\ DOMAIN s = 1..Len(s) /\ s[n+1] \in T
    OBVIOUS
  <2>3. f[n+1] = IF s[n+1] \in S THEN Append(f[n], s[n+1]) ELSE f[n]
    <3>1. n + 1 \in 0..Len(s) /\ n + 1 # 0 /\ (n + 1) - 1 = n
      BY <2>2
    <3> QED BY <1>2, <3>1
  <2>4. \A x : (\E j \in 1..n+1 : s[j] = x) <=> (\E j \in 1..n : s[j] = x) \/ s[n+1] = x
    <3>1. 1..n+1 = 1..n \cup {n+1}
      OBVIOUS
    <3> QED BY <3>1
  <2>5. CASE s[n+1] \notin S
    <3>1. Upto(n+1) = Upto(n)
      BY <2>4, <2>5
    <3> QED BY <2>1, <2>3, <2>5, <3>1
  <2>6. CASE s[n+1] \in S
    <3>1. Upto(n+1) = Upto(n) \cup {s[n+1]}
      BY <2>4, <2>6
    <3>2. IsInjective(s) => s[n+1] \notin Upto(n)
      BY <2>2 DEF IsInjective
    <3> HIDE DEF Upto, P, Good
    <3>3. /\ Append(f[n], s[n+1]) \in Seq(T)
          /\ ToSet(Append(f[n], s[n+1])) = ToSet(f[n]) \cup {s[n+1]}
          /\ IsInjective(f[n]) /\ s[n+1] \notin ToSet(f[n]) => IsInjective(Append(f[n], s[n+1]))
      BY <2>1, <2>2, AppendedFacts
    <3> QED BY <2>1, <2>3, <2>6, <3>1, <3>2, <3>3
  <2> QED BY <2>5, <2>6
<1>5. \A n \in Nat : n \in Good
  <2> HIDE DEF Good
  <2> QED BY <1>3, <1>4, SetInduction
<1>6. Upto(Len(s)) = ToSet(s) \cap S
  <2>1. DOMAIN s = 1..Len(s)
    OBVIOUS
  <2> QED BY <2>1 DEF ToSet
<1>7. Len(s) \in Good
  BY <1>5, SMTT(30)
<1> QED BY <1>1, <1>6, <1>7

\* Concatenation joins the elements.
LEMMA ConcatFacts ==
  ASSUME NEW T, NEW a \in Seq(T), NEW b \in Seq(T)
  PROVE  /\ a \o b \in Seq(T)
         /\ ToSet(a \o b) = ToSet(a) \cup ToSet(b)
         /\ IsInjective(a) /\ IsInjective(b) /\ ToSet(a) \cap ToSet(b) = {}
              => IsInjective(a \o b)
<1> DEFINE u == a \o b
<1>1. /\ u \in Seq(T) /\ Len(u) = Len(a) + Len(b)
      /\ \A j \in 1..Len(a) : u[j] = a[j]
      /\ \A j \in Len(a)+1..Len(a)+Len(b) : u[j] = b[j - Len(a)]
  OBVIOUS
<1> HIDE DEF u
<1>2. DOMAIN u = 1..Len(a)+Len(b) /\ DOMAIN a = 1..Len(a) /\ DOMAIN b = 1..Len(b)
  BY <1>1
<1>3. \A j \in DOMAIN u :
        \/ j \in DOMAIN a /\ u[j] = a[j]
        \/ j > Len(a) /\ j - Len(a) \in DOMAIN b /\ u[j] = b[j - Len(a)]
  BY <1>1, <1>2
<1>4. \A j \in DOMAIN a : j \in DOMAIN u /\ u[j] = a[j]
  BY <1>1, <1>2
<1>5. \A j \in DOMAIN b : j + Len(a) \in DOMAIN u /\ u[j + Len(a)] = b[j]
  <2> TAKE j \in DOMAIN b
  <2>1. j + Len(a) \in Len(a)+1..Len(a)+Len(b) /\ (j + Len(a)) - Len(a) = j
    BY <1>2
  <2> QED BY <1>1, <1>2, <2>1
<1>6. ToSet(u) = ToSet(a) \cup ToSet(b)
  BY <1>3, <1>4, <1>5 DEF ToSet
<1>7. ASSUME IsInjective(a), IsInjective(b), ToSet(a) \cap ToSet(b) = {}
      PROVE  IsInjective(u)
  <2> SUFFICES ASSUME NEW i \in DOMAIN u, NEW j \in DOMAIN u, u[i] = u[j]
               PROVE  i = j
    BY DEF IsInjective
  <2>1. \A x \in DOMAIN a, y \in DOMAIN b : a[x] # b[y]
    BY <1>7 DEF ToSet
  <2>2. CASE i \in DOMAIN a /\ u[i] = a[i]
    <3>1. j \in DOMAIN a /\ u[j] = a[j]
      BY <1>3, <2>1, <2>2
    <3> QED BY <1>7, <2>2, <3>1 DEF IsInjective
  <2>3. CASE i - Len(a) \in DOMAIN b /\ u[i] = b[i - Len(a)]
    <3>1. j - Len(a) \in DOMAIN b /\ u[j] = b[j - Len(a)]
      BY <1>3, <2>1, <2>3
    <3>2. i - Len(a) = j - Len(a)
      BY <1>7, <2>3, <3>1 DEF IsInjective
    <3> QED BY <1>2, <3>2
  <2> QED BY <1>3, <2>2, <2>3
<1> QED BY <1>1, <1>6, <1>7 DEF u

\* What FlattenSeq computes up to position i.
FlatStep(ss, f, n) == [i \in 1..n |-> IF i = 1 THEN ss[i] ELSE f[i-1] \o ss[i]]

\* The recursive definition of FlattenSeq has a solution.
LEMMA FlattenDefined ==
  ASSUME NEW T, NEW ss \in Seq(T), ss # <<>>
  PROVE  \E f : f = FlatStep(ss, f, Len(ss)) /\ FlattenSeq(ss) = f[Len(ss)]
<1> DEFINE P(n) == \E f : f = FlatStep(ss, f, n + 1)
           Good == {n \in Nat : P(n)}
<1>1. P(0)
  <2> DEFINE g == [i \in 1..0+1 |-> ss[i]]
  <2>1. g = FlatStep(ss, g, 0 + 1)
    BY DEF FlatStep
  <2> HIDE DEF g
  <2> QED BY <2>1
<1>2. ASSUME NEW n \in Nat, P(n) PROVE P(n + 1)
  <2>1. PICK f : f = FlatStep(ss, f, n + 1)
    BY <1>2
  <2> DEFINE m == n + 1
             g == [i \in 1..m+1 |-> IF i = m + 1 THEN f[m] \o ss[m+1] ELSE f[i]]
  <2>2. \A i \in 1..m : f[i] = IF i = 1 THEN ss[i] ELSE f[i-1] \o ss[i]
    BY <2>1 DEF FlatStep
  <2>3. \A i \in 1..m+1 : g[i] = IF i = 1 THEN ss[i] ELSE g[i-1] \o ss[i]
    <3> TAKE i \in 1..m+1
    <3>1. \A j \in 1..m : g[j] = f[j]
      OBVIOUS
    <3>2. CASE i = m + 1
      <4>1. i # 1 /\ i - 1 = m /\ m \in 1..m
        BY <3>2
      <4>2. g[i] = f[m] \o ss[m+1] /\ g[i-1] = f[m]
        BY <3>1, <3>2, <4>1
      <4> QED BY <3>2, <4>1, <4>2
    <3>3. CASE i = 1 /\ i # m + 1
      <4>1. i \in 1..m
        BY <3>3
      <4> QED BY <2>2, <3>1, <3>3, <4>1
    <3>4. CASE i \in 2..m
      <4>1. i \in 1..m /\ i - 1 \in 1..m /\ i # 1
        BY <3>4
      <4>2. g[i] = f[i] /\ g[i-1] = f[i-1]
        BY <3>1, <4>1
      <4>3. f[i] = f[i-1] \o ss[i]
        BY <2>2, <4>1
      <4> HIDE DEF g
      <4> QED BY <4>1, <4>2, <4>3
    <3> QED BY <3>2, <3>3, <3>4
  <2>4. g = [i \in 1..m+1 |-> g[i]]
    OBVIOUS
  <2> HIDE DEF g
  <2>5. g = FlatStep(ss, g, m + 1)
    BY <2>3, <2>4 DEF FlatStep
  <2> QED BY <2>5
<1>3. \A n \in Nat : P(n)
  <2> HIDE DEF P
  <2>1. 0 \in Good /\ \A n \in Nat : n \in Good => n + 1 \in Good
    BY <1>1, <1>2
  <2> HIDE DEF Good
  <2>2. \A n \in Nat : n \in Good
    BY <2>1, SetInduction
  <2> QED BY <2>2 DEF Good
<1>4. Len(ss) - 1 \in Nat /\ (Len(ss) - 1) + 1 = Len(ss) /\ Len(ss) # 0
  OBVIOUS
<1>5. \E f : f = FlatStep(ss, f, Len(ss))
  BY <1>3, <1>4
<1> DEFINE k == CHOOSE f : f = FlatStep(ss, f, Len(ss))
<1>6. k = FlatStep(ss, k, Len(ss))
  BY <1>5
<1>7. FlattenSeq(ss) = k[Len(ss)]
  BY <1>4 DEF FlattenSeq, FlatStep
<1> HIDE DEF k
<1> QED BY <1>6, <1>7

\* Flattening joins the elements of the parts; if no part repeats an element
\* and no two parts share one, nothing is repeated.
LEMMA FlattenFacts ==
  ASSUME NEW T, NEW ss \in Seq(Seq(T))
  PROVE  /\ FlattenSeq(ss) \in Seq(T)
         /\ ToSet(FlattenSeq(ss)) = UNION {ToSet(ss[i]) : i \in 1..Len(ss)}
         /\ /\ \A i \in 1..Len(ss) : IsInjective(ss[i])
            /\ \A i, j \in 1..Len(ss) : i # j => ToSet(ss[i]) \cap ToSet(ss[j]) = {}
            => IsInjective(FlattenSeq(ss))
<1>1. CASE ss = <<>>
  <2>1. FlattenSeq(ss) = <<>>
    BY <1>1 DEF FlattenSeq
  <2>2. ToSet(<<>>) = {} /\ IsInjective(<<>>) /\ <<>> \in Seq(T)
    BY DEF ToSet, IsInjective
  <2>3. 1..Len(ss) = {}
    BY <1>1
  <2>4. UNION {ToSet(ss[i]) : i \in 1..Len(ss)} = {}
    BY <2>3
  <2> QED BY <2>1, <2>2, <2>4
<1>2. CASE ss # <<>>
  <2>1. PICK f : f = FlatStep(ss, f, Len(ss)) /\ FlattenSeq(ss) = f[Len(ss)]
    BY <1>2, FlattenDefined
  <2>2. \A i \in 1..Len(ss) : f[i] = IF i = 1 THEN ss[i] ELSE f[i-1] \o ss[i]
    BY <2>1 DEF FlatStep
  <2> DEFINE Upto(n) == UNION {ToSet(ss[i]) : i \in 1..n}
             Apart == /\ \A i \in 1..Len(ss) : IsInjective(ss[i])
                      /\ \A i, j \in 1..Len(ss) : i # j => ToSet(ss[i]) \cap ToSet(ss[j]) = {}
             P(n) == n + 1 <= Len(ss) =>
                       /\ f[n+1] \in Seq(T) /\ ToSet(f[n+1]) = Upto(n+1)
                       /\ Apart => IsInjective(f[n+1])
             Good == {n \in Nat : P(n)}
  <2>3. \A i \in 1..Len(ss) : ss[i] \in Seq(T)
    OBVIOUS
  <2>4. P(0)
    <3>1. Len(ss) \in Nat /\ Len(ss) # 0 /\ 1 \in 1..Len(ss)
      BY <1>2
    <3>2. f[1] = ss[1] /\ ss[1] \in Seq(T)
      BY <2>2, <2>3, <3>1
    <3>3. Upto(1) = ToSet(ss[1])
      <4>1. 1..1 = {1}
        OBVIOUS
      <4> QED BY <4>1
    <3>4. Apart => IsInjective(ss[1])
      BY <3>1
    <3> HIDE DEF Upto, Apart
    <3> QED BY <3>2, <3>3, <3>4
  <2>5. ASSUME NEW n \in Nat, P(n), (n + 1) + 1 <= Len(ss)
        PROVE  /\ f[n+2] \in Seq(T) /\ ToSet(f[n+2]) = Upto(n+2)
               /\ Apart => IsInjective(f[n+2])
    <3>1. n + 2 \in 1..Len(ss) /\ n + 2 # 1 /\ (n + 2) - 1 = n + 1 /\ n + 1 <= Len(ss)
      <4> HIDE DEF P
      <4>1. Len(ss) \in Nat
        OBVIOUS
      <4> QED BY <2>5, <4>1
    <3>2. /\ f[n+1] \in Seq(T) /\ ToSet(f[n+1]) = Upto(n+1)
          /\ Apart => IsInjective(f[n+1])
      BY <2>5, <3>1
    <3>3. f[n+2] = f[n+1] \o ss[n+2] /\ ss[n+2] \in Seq(T)
      BY <2>2, <2>3, <3>1
    <3>4. Upto(n+2) = Upto(n+1) \cup ToSet(ss[n+2])
      <4>1. 1..n+2 = 1..n+1 \cup {n+2}
        OBVIOUS
      <4> QED BY <4>1
    <3>5. Apart => IsInjective(ss[n+2]) /\ Upto(n+1) \cap ToSet(ss[n+2]) = {}
      <4> SUFFICES ASSUME Apart PROVE IsInjective(ss[n+2]) /\ Upto(n+1) \cap ToSet(ss[n+2]) = {}
        OBVIOUS
      <4>1. \A i \in 1..n+1 : i \in 1..Len(ss) /\ i # n + 2
        BY <3>1
      <4> QED BY <3>1, <4>1
    <3> HIDE DEF Upto, Apart, P
    <3>6. /\ f[n+1] \o ss[n+2] \in Seq(T)
          /\ ToSet(f[n+1] \o ss[n+2]) = ToSet(f[n+1]) \cup ToSet(ss[n+2])
          /\ IsInjective(f[n+1]) /\ IsInjective(ss[n+2]) /\ ToSet(f[n+1]) \cap ToSet(ss[n+2]) = {}
               => IsInjective(f[n+1] \o ss[n+2])
      BY <3>2, <3>3, ConcatFacts
    <3> QED BY <3>2, <3>3, <3>4, <3>5, <3>6
  <2>6. ASSUME NEW n \in Nat, P(n) PROVE P(n + 1)
    <3>1. (n + 1) + 1 = n + 2
      OBVIOUS
    <3> HIDE DEF Upto, Apart
    <3> QED BY <2>5, <2>6, <3>1
  <2>7. \A n \in Nat : P(n)
    <3> HIDE DEF P
    <3>1. 0 \in Good /\ \A n \in Nat : n \in Good => n + 1 \in Good
      BY <2>4, <2>6
    <3> HIDE DEF Good
    <3>2. \A n \in Nat : n \in Good
      BY <3>1, SetInduction
    <3> QED BY <3>2 DEF Good
  <2>8. Len(ss) - 1 \in Nat /\ (Len(ss) - 1) + 1 = Len(ss) /\ Len(ss) <= Len(ss)
    BY <1>2
  <2>9. P(Len(ss) - 1)
    BY <2>7, <2>8
  <2> HIDE DEF Apart, Upto
  <2>10. /\ f[Len(ss)] \in Seq(T) /\ ToSet(f[Len(ss)]) = Upto(Len(ss))
         /\ Apart => IsInjective(f[Len(ss)])
    BY <2>8, <2>9
  <2> QED BY <2>1, <2>10 DEF Apart, Upto
<1> QED BY <1>1, <1>2

-----------------------------------------------------------------------------
(* The depth-first walk. *)

\* B[n] is the subtree of n in a finite tree with child lists C: it holds n,
\* n's children and the subtrees of all that it holds besides n.
IsForest(D, C, B) ==
  /\ \A n \in D : n \in B[n] /\ B[n] \subseteq D /\ IsFiniteSet(B[n])
  /\ \A n \in D : \A i \in DOMAIN C[n] : C[n][i] \in B[n] \ {n}
  /\ \A n \in D : \A x \in B[n] \ {n} : B[x] \subseteq B[n] \ {n}

\* The walk below n, given the module lists M and the child lists C.
Walk(M, C, B, n) == CollectOf([x \in B[n] |-> M[x]], [x \in B[n] |-> C[x]], n)

\* What the recursion of CollectOf demands of its solution f below n.
WalkStep(M, C, B, n, f) ==
  [x \in B[n] |-> M[x] \o FlattenSeq([i \in DOMAIN C[x] |-> f[C[x][i]]])]

\* If the recursion has a solution below n, the walk is the value of one.
LEMMA WalkIsSolution ==
  ASSUME NEW D, NEW M, NEW C, NEW B, IsForest(D, C, B), NEW n \in D,
         \E f : f = WalkStep(M, C, B, n, f)
  PROVE  \E f : f = WalkStep(M, C, B, n, f) /\ Walk(M, C, B, n) = f[n]
<1> DEFINE Mn == [x \in B[n] |-> M[x]]
           Cn == [x \in B[n] |-> C[x]]
           G(f) == [x \in DOMAIN Mn |-> Mn[x] \o FlattenSeq([i \in DOMAIN Cn[x] |-> f[Cn[x][i]]])]
           k == CHOOSE f : f = G(f)
<1>1. \A f : G(f) = WalkStep(M, C, B, n, f)
  BY DEF WalkStep
<1>2. \E f : f = G(f)
  <2> HIDE DEF G
  <2> QED BY <1>1
<1>3. k = G(k)
  <2> HIDE DEF G
  <2> QED BY <1>2
<1>4. Walk(M, C, B, n) = k[n]
  BY DEF Walk, CollectOf
<1> HIDE DEF k, G
<1>5. k = WalkStep(M, C, B, n, k)
  BY <1>1, <1>3
<1> QED BY <1>4, <1>5

\* The recursion has one solution below every node of a forest.
LEMMA WalkSolvable ==
  ASSUME NEW D, NEW M, NEW C, NEW B, IsForest(D, C, B)
  PROVE  \A n \in D :
           /\ \E f : f = WalkStep(M, C, B, n, f)
           /\ \A f : f = WalkStep(M, C, B, n, f) =>
                \A x \in B[n] : f[x] = Walk(M, C, B, x)
<1> DEFINE Wk(x) == Walk(M, C, B, x)
           Sol(n) == \E f : f = WalkStep(M, C, B, n, f)
           Uni(n) == \A f : f = WalkStep(M, C, B, n, f) => \A x \in B[n] : f[x] = Wk(x)
           P(k) == \A n \in D : Cardinality(B[n]) <= k => Sol(n) /\ Uni(n)
           Good == {k \in Nat : P(k)}
<1> HIDE DEF Wk, Sol, Uni, Good
<1>0. \A n \in D : Cardinality(B[n]) \in Nat /\ Cardinality(B[n]) > 0
  <2> TAKE n \in D
  <2>1. n \in B[n] /\ IsFiniteSet(B[n])
    BY DEF IsForest
  <2>2. Cardinality(B[n]) \in Nat
    BY <2>1, FS_CardinalityType
  <2>3. Cardinality(B[n]) # 0
    BY <2>1, FS_EmptySet
  <2> QED BY <2>2, <2>3
<1>1. P(0)
  BY <1>0
<1>2. ASSUME NEW k \in Nat, P(k), NEW n \in D, Cardinality(B[n]) <= k + 1
      PROVE  Sol(n) /\ Uni(n)
  <2>1. \A x \in B[n] \ {n} : x \in D /\ B[x] \subseteq B[n] \ {n} /\ Sol(x) /\ Uni(x)
    <3> TAKE x \in B[n] \ {n}
    <3>1. x \in D /\ B[x] \subseteq B[n] \ {n} /\ IsFiniteSet(B[n]) /\ n \in B[n]
      BY DEF IsForest
    <3>2. /\ IsFiniteSet(B[n] \ {n})
          /\ Cardinality(B[n] \ {n}) = Cardinality(B[n]) - 1
      BY <3>1, FS_RemoveElement
    <3>3. Cardinality(B[x]) <= Cardinality(B[n] \ {n})
      BY <3>1, <3>2, FS_Subset
    <3>4. Cardinality(B[x]) <= k
      BY <1>0, <1>2, <3>1, <3>2, <3>3
    <3> QED BY <1>2, <3>1, <3>4
  <2>2. \A y \in B[n] : \A i \in DOMAIN C[y] :
          C[y][i] \in B[y] /\ C[y][i] \in B[n] \ {n}
    BY <2>1 DEF IsForest
  <2>3. \A x \in B[n] \ {n} :
          Wk(x) = M[x] \o FlattenSeq([i \in DOMAIN C[x] |-> Wk(C[x][i])])
    <3> TAKE x \in B[n] \ {n}
    <3>1. PICK f : f = WalkStep(M, C, B, x, f)
      BY <2>1 DEF Sol
    <3>2. \A y \in B[x] : f[y] = Wk(y)
      BY <2>1, <3>1 DEF Uni
    <3>3. x \in B[x] /\ \A i \in DOMAIN C[x] : C[x][i] \in B[x]
      BY <2>1 DEF IsForest
    <3>4. f[x] = M[x] \o FlattenSeq([i \in DOMAIN C[x] |-> f[C[x][i]]])
      BY <3>1, <3>3 DEF WalkStep
    <3>5. [i \in DOMAIN C[x] |-> f[C[x][i]]] = [i \in DOMAIN C[x] |-> Wk(C[x][i])]
      BY <3>2, <3>3
    <3> QED BY <3>2, <3>3, <3>4, <3>5
  <2>4. Sol(n)
    <3> DEFINE top == M[n] \o FlattenSeq([i \in DOMAIN C[n] |-> Wk(C[n][i])])
               f == [x \in B[n] |-> IF x = n THEN top ELSE Wk(x)]
    <3>1. n \in B[n]
      BY DEF IsForest
    <3>2. \A x \in B[n] \ {n} : f[x] = Wk(x)
      OBVIOUS
    <3>3. f[n] = top /\ f = [x \in B[n] |-> f[x]]
      BY <3>1
    <3> HIDE DEF f
    <3>4. \A x \in B[n] : [i \in DOMAIN C[x] |-> f[C[x][i]]] = [i \in DOMAIN C[x] |-> Wk(C[x][i])]
      BY <2>2, <3>2
    <3>5. \A x \in B[n] : f[x] = M[x] \o FlattenSeq([i \in DOMAIN C[x] |-> f[C[x][i]]])
      <4> TAKE x \in B[n]
      <4>1. CASE x = n
        BY <3>3, <3>4, <4>1
      <4>2. CASE x # n
        <5>1. f[x] = Wk(x)
          BY <3>2, <4>2
        <5>2. Wk(x) = M[x] \o FlattenSeq([i \in DOMAIN C[x] |-> Wk(C[x][i])])
          BY <2>3, <4>2
        <5>3. [i \in DOMAIN C[x] |-> f[C[x][i]]] = [i \in DOMAIN C[x] |-> Wk(C[x][i])]
          BY <3>4
        <5> QED BY <5>1, <5>2, <5>3
      <4> QED BY <4>1, <4>2
    <3>6. f = WalkStep(M, C, B, n, f)
      BY <3>3, <3>5 DEF WalkStep
    <3> QED BY <3>6 DEF Sol
  <2>5. ASSUME NEW f, f = WalkStep(M, C, B, n, f), NEW x \in B[n] \ {n}
        PROVE  f[x] = Wk(x)
    <3> DEFINE g == [y \in B[x] |-> f[y]]
    <3>1. \A y \in B[x] : y \in B[n] /\ \A i \in DOMAIN C[y] : C[y][i] \in B[x]
      BY <2>1, <2>2 DEF IsForest
    <3>2. \A y \in B[x] : f[y] = M[y] \o FlattenSeq([i \in DOMAIN C[y] |-> f[C[y][i]]])
      BY <2>5, <3>1 DEF WalkStep
    <3>3. \A y \in B[x] : g[y] = f[y]
      OBVIOUS
    <3>4. g = [y \in B[x] |-> g[y]]
      OBVIOUS
    <3> HIDE DEF g
    <3>5. \A y \in B[x] : [i \in DOMAIN C[y] |-> f[C[y][i]]] = [i \in DOMAIN C[y] |-> g[C[y][i]]]
      BY <3>1, <3>3
    <3>6. \A y \in B[x] : g[y] = M[y] \o FlattenSeq([i \in DOMAIN C[y] |-> g[C[y][i]]])
      BY <3>2, <3>3, <3>5
    <3>7. g = WalkStep(M, C, B, x, g)
      BY <3>4, <3>6 DEF WalkStep
    <3>8. x \in B[x]
      BY <2>1 DEF IsForest
    <3> QED BY <2>1, <3>3, <3>7, <3>8 DEF Uni
  <2>6. ASSUME NEW f, f = WalkStep(M, C, B, n, f)
        PROVE  f[n] = M[n] \o FlattenSeq([i \in DOMAIN C[n] |-> Wk(C[n][i])])
    <3>1. n \in B[n]
      BY DEF IsForest
    <3>2. f[n] = M[n] \o FlattenSeq([i \in DOMAIN C[n] |-> f[C[n][i]]])
      BY <2>6, <3>1 DEF WalkStep
    <3>3. [i \in DOMAIN C[n] |-> f[C[n][i]]] = [i \in DOMAIN C[n] |-> Wk(C[n][i])]
      BY <2>2, <2>5, <2>6, <3>1
    <3> QED BY <3>2, <3>3
  <2>7. Uni(n)
    <3>1. PICK h : h = WalkStep(M, C, B, n, h) /\ Wk(n) = h[n]
      BY <2>4, WalkIsSolution DEF Sol, Wk
    <3>2. Wk(n) = M[n] \o FlattenSeq([i \in DOMAIN C[n] |-> Wk(C[n][i])])
      BY <2>6, <3>1
    <3>3. ASSUME NEW f, f = WalkStep(M, C, B, n, f), NEW x \in B[n] PROVE f[x] = Wk(x)
      <4>1. CASE x = n
        BY <2>6, <3>2, <3>3, <4>1
      <4>2. CASE x # n
        BY <2>5, <3>3, <4>2
      <4> QED BY <4>1, <4>2
    <3> QED BY <3>3 DEF Uni
  <2> QED BY <2>4, <2>7
<1>3. \A k \in Nat : P(k)
  <2>1. ASSUME NEW k \in Nat, P(k) PROVE P(k + 1)
    BY <1>2, <2>1
  <2> HIDE DEF P
  <2>2. 0 \in Good /\ \A k \in Nat : k \in Good => k + 1 \in Good
    BY <1>1, <2>1 DEF Good
  <2>3. \A k \in Nat : k \in Good
    BY <2>2, SetInduction
  <2> QED BY <2>3 DEF Good
<1>4. \A n \in D : Sol(n) /\ Uni(n)
  <2> TAKE n \in D
  <2>1. Cardinality(B[n]) \in Nat /\ Cardinality(B[n]) <= Cardinality(B[n])
    BY <1>0
  <2> QED BY <1>3, <2>1
<1> QED BY <1>4 DEF Sol, Uni, Wk

\* The walk is a node's own list followed by the walks of its children, the
\* equation the C recursion computes.
LEMMA WalkUnfolds ==
  ASSUME NEW D, NEW M, NEW C, NEW B, IsForest(D, C, B), NEW n \in D
  PROVE  Walk(M, C, B, n) =
           M[n] \o FlattenSeq([i \in DOMAIN C[n] |-> Walk(M, C, B, C[n][i])])
<1>1. /\ \E f : f = WalkStep(M, C, B, n, f)
      /\ \A f : f = WalkStep(M, C, B, n, f) => \A x \in B[n] : f[x] = Walk(M, C, B, x)
  BY WalkSolvable
<1>2. PICK f : f = WalkStep(M, C, B, n, f)
  BY <1>1
<1>3. n \in B[n] /\ \A i \in DOMAIN C[n] : C[n][i] \in B[n]
  BY DEF IsForest
<1>4. \A x \in B[n] : f[x] = Walk(M, C, B, x)
  BY <1>1, <1>2
<1>5. f[n] = M[n] \o FlattenSeq([i \in DOMAIN C[n] |-> f[C[n][i]]])
  BY <1>2, <1>3 DEF WalkStep
<1>6. [i \in DOMAIN C[n] |-> f[C[n][i]]] = [i \in DOMAIN C[n] |-> Walk(M, C, B, C[n][i])]
  BY <1>3, <1>4
<1> QED BY <1>3, <1>4, <1>5, <1>6

\* A subtree is its root and the subtrees of the root's children.
Covers(D, C, B) ==
  \A n \in D : B[n] = {n} \cup UNION {B[C[n][i]] : i \in DOMAIN C[n]}

\* No element is on two lists or twice on one, and siblings share no node.
ListsApart(D, M, C, B) ==
  /\ \A n \in D : IsInjective(M[n])
  /\ \A x, y \in D : x # y => ToSet(M[x]) \cap ToSet(M[y]) = {}
  /\ \A n \in D : \A i, j \in DOMAIN C[n] : i # j => B[C[n][i]] \cap B[C[n][j]] = {}

\* The walk lists exactly the elements of the subtree's lists, and each of
\* them once if no two lists share one.
LEMMA WalkFacts ==
  ASSUME NEW D, NEW M, NEW C, NEW B, NEW S, IsForest(D, C, B), Covers(D, C, B),
         \A n \in D : M[n] \in Seq(S) /\ C[n] \in Seq(D)
  PROVE  \A n \in D :
           /\ Walk(M, C, B, n) \in Seq(S)
           /\ ToSet(Walk(M, C, B, n)) = UNION {ToSet(M[x]) : x \in B[n]}
           /\ ListsApart(D, M, C, B) => IsInjective(Walk(M, C, B, n))
<1> DEFINE Wk(x) == Walk(M, C, B, x)
           Els(n) == UNION {ToSet(M[x]) : x \in B[n]}
           Ok(n) == /\ Wk(n) \in Seq(S) /\ ToSet(Wk(n)) = Els(n)
                    /\ ListsApart(D, M, C, B) => IsInjective(Wk(n))
           P(k) == \A n \in D : Cardinality(B[n]) <= k => Ok(n)
           Good == {k \in Nat : P(k)}
<1> HIDE DEF Wk, Ok, Good, Els
<1>0. \A n \in D : Cardinality(B[n]) \in Nat /\ Cardinality(B[n]) > 0
  <2> TAKE n \in D
  <2>1. n \in B[n] /\ IsFiniteSet(B[n])
    BY DEF IsForest
  <2>2. Cardinality(B[n]) \in Nat
    BY <2>1, FS_CardinalityType
  <2>3. Cardinality(B[n]) # 0
    BY <2>1, FS_EmptySet
  <2> QED BY <2>2, <2>3
<1>1. P(0)
  BY <1>0
<1>2. ASSUME NEW k \in Nat, P(k), NEW n \in D, Cardinality(B[n]) <= k + 1
      PROVE  Ok(n)
  <2>1. \A i \in DOMAIN C[n] : C[n][i] \in D /\ B[C[n][i]] \subseteq B[n] \ {n} /\ Ok(C[n][i])
    <3> TAKE i \in DOMAIN C[n]
    <3> DEFINE x == C[n][i]
    <3>1. x \in D /\ B[x] \subseteq B[n] \ {n} /\ IsFiniteSet(B[n]) /\ n \in B[n]
      BY DEF IsForest
    <3> HIDE DEF x
    <3>2. /\ IsFiniteSet(B[n] \ {n})
          /\ Cardinality(B[n] \ {n}) = Cardinality(B[n]) - 1
      BY <3>1, FS_RemoveElement
    <3>3. Cardinality(B[x]) <= Cardinality(B[n] \ {n})
      BY <3>1, <3>2, FS_Subset
    <3>4. Cardinality(B[x]) <= k
      BY <1>0, <1>2, <3>1, <3>2, <3>3
    <3>5. Ok(x)
      BY <1>2, <3>1, <3>4
    <3> QED BY <3>1, <3>5 DEF x
  <2> DEFINE ss == [i \in DOMAIN C[n] |-> Wk(C[n][i])]
             ell == Len(C[n])
  <2>2. ell \in Nat /\ DOMAIN C[n] = 1..ell
    OBVIOUS
  <2>3. \A i \in 1..ell : ss[i] = Wk(C[n][i]) /\ ss[i] \in Seq(S)
    BY <2>1, <2>2 DEF Ok
  <2>4. ss \in Seq(Seq(S)) /\ Len(ss) = ell
    <3>1. ss \in [1..ell -> Seq(S)]
      BY <2>2, <2>3
    <3> HIDE DEF ss
    <3> QED BY <2>2, <3>1
  <2>5. Wk(n) = M[n] \o FlattenSeq(ss)
    BY WalkUnfolds DEF Wk
  <2> HIDE DEF ss, ell
  <2>6. /\ FlattenSeq(ss) \in Seq(S)
        /\ ToSet(FlattenSeq(ss)) = UNION {ToSet(ss[i]) : i \in 1..ell}
        /\ /\ \A i \in 1..ell : IsInjective(ss[i])
           /\ \A i, j \in 1..ell : i # j => ToSet(ss[i]) \cap ToSet(ss[j]) = {}
           => IsInjective(FlattenSeq(ss))
    BY <2>4, FlattenFacts
  <2>7. /\ Wk(n) \in Seq(S)
        /\ ToSet(Wk(n)) = ToSet(M[n]) \cup ToSet(FlattenSeq(ss))
        /\ IsInjective(M[n]) /\ IsInjective(FlattenSeq(ss))
              /\ ToSet(M[n]) \cap ToSet(FlattenSeq(ss)) = {} => IsInjective(Wk(n))
    BY <2>5, <2>6, ConcatFacts
  <2>8. \A i \in 1..ell : ToSet(ss[i]) = Els(C[n][i])
    BY <2>1, <2>2, <2>3 DEF Ok
  <2>9. ToSet(Wk(n)) = Els(n)
    <3>1. \A z : z \in Els(n) <=> z \in ToSet(M[n]) \/ \E i \in 1..ell : z \in Els(C[n][i])
      BY <2>2 DEF Els, Covers
    <3>2. \A z : z \in ToSet(FlattenSeq(ss)) <=> \E i \in 1..ell : z \in Els(C[n][i])
      BY <2>6, <2>8
    <3> QED BY <2>7, <3>1, <3>2
  <2>10. ASSUME ListsApart(D, M, C, B) PROVE IsInjective(Wk(n))
    <3>1. \A i \in 1..ell : IsInjective(ss[i])
      BY <2>1, <2>2, <2>3, <2>10 DEF Ok
    <3>2. \A x, y \in D : x # y => \A z \in ToSet(M[x]) : z \notin ToSet(M[y])
      BY <2>10 DEF ListsApart
    <3>3. \A i \in 1..ell : B[C[n][i]] \subseteq D \ {n}
      BY <2>1, <2>2 DEF IsForest
    <3>4. \A i, j \in 1..ell : i # j => ToSet(ss[i]) \cap ToSet(ss[j]) = {}
      <4> SUFFICES ASSUME NEW i \in 1..ell, NEW j \in 1..ell, i # j,
                          NEW z \in ToSet(ss[i]), z \in ToSet(ss[j])
                   PROVE  FALSE
        OBVIOUS
      <4>0. z \in Els(C[n][i]) /\ z \in Els(C[n][j])
        BY <2>8
      <4>1. PICK x \in B[C[n][i]] : z \in ToSet(M[x])
        BY <4>0 DEF Els
      <4>2. PICK y \in B[C[n][j]] : z \in ToSet(M[y])
        BY <4>0 DEF Els
      <4>3. x # y
        BY <2>2, <2>10, <4>1, <4>2 DEF ListsApart
      <4> QED BY <3>2, <3>3, <4>1, <4>2, <4>3
    <3>5. ToSet(M[n]) \cap ToSet(FlattenSeq(ss)) = {}
      <4> SUFFICES ASSUME NEW z \in ToSet(M[n]), NEW i \in 1..ell, z \in Els(C[n][i])
                   PROVE  FALSE
        BY <2>6, <2>8
      <4>1. PICK x \in B[C[n][i]] : z \in ToSet(M[x])
        BY DEF Els
      <4> QED BY <3>2, <3>3, <4>1
    <3>6. IsInjective(M[n])
      BY <2>10 DEF ListsApart
    <3>7. IsInjective(FlattenSeq(ss))
      BY <2>6, <3>1, <3>4
    <3> QED BY <2>7, <3>5, <3>6, <3>7
  <2> QED BY <2>7, <2>9, <2>10 DEF Ok
<1>3. \A k \in Nat : P(k)
  <2>1. ASSUME NEW k \in Nat, P(k) PROVE P(k + 1)
    BY <1>2, <2>1
  <2> HIDE DEF P
  <2>2. 0 \in Good /\ \A k \in Nat : k \in Good => k + 1 \in Good
    BY <1>1, <2>1 DEF Good
  <2>3. \A k \in Nat : k \in Good
    BY <2>2, SetInduction
  <2> QED BY <2>3 DEF Good
<1>4. \A n \in D : Ok(n)
  <2> TAKE n \in D
  <2>1. Cardinality(B[n]) \in Nat /\ Cardinality(B[n]) <= Cardinality(B[n])
    BY <1>0
  <2> QED BY <1>3, <2>1
<1> QED BY <1>4 DEF Ok, Wk, Els

-----------------------------------------------------------------------------
(* Stacks. *)

\* A frame is replaced, taken off or pushed: the ones below stay.
LEMMA FrameFacts ==
  ASSUME NEW T, NEW s \in Seq(T), NEW f \in T
  PROVE  /\ Append(s, f) \in Seq(T) /\ Len(Append(s, f)) = Len(s) + 1
         /\ Append(s, f)[Len(s) + 1] = f
         /\ \A k \in 1..Len(s) : Append(s, f)[k] = s[k]
         /\ s # <<>> =>
              /\ Len(s) \in Nat \ {0} /\ s[Len(s)] \in T
              /\ Front(s) \in Seq(T) /\ Len(Front(s)) = Len(s) - 1
              /\ \A k \in 1..Len(s)-1 : Front(s)[k] = s[k]
              /\ Append(Front(s), f) \in Seq(T)
              /\ Len(Append(Front(s), f)) = Len(s)
              /\ Append(Front(s), f)[Len(s)] = f
              /\ \A k \in 1..Len(s)-1 : Append(Front(s), f)[k] = s[k]
<1>1. /\ Append(s, f) \in Seq(T) /\ Len(Append(s, f)) = Len(s) + 1
      /\ Append(s, f)[Len(s) + 1] = f
      /\ \A k \in 1..Len(s) : Append(s, f)[k] = s[k]
  OBVIOUS
<1>2. ASSUME s # <<>>
      PROVE  /\ Len(s) \in Nat \ {0} /\ s[Len(s)] \in T
             /\ Front(s) \in Seq(T) /\ Len(Front(s)) = Len(s) - 1
             /\ \A k \in 1..Len(s)-1 : Front(s)[k] = s[k]
  <2>1. Len(s) \in Nat \ {0}
    BY <1>2
  <2>2. s[Len(s)] \in T
    BY <2>1
  <2> DEFINE n == Len(s) - 1
  <2>a. n \in 0..Len(s)
    BY <2>1
  <2> HIDE DEF n
  <2>b. /\ SubSeq(s, 1, n) \in Seq(T) /\ Len(SubSeq(s, 1, n)) = n
        /\ \A k \in 1..n : SubSeq(s, 1, n)[k] = s[k]
    BY <2>a
  <2>3. /\ SubSeq(s, 1, Len(s) - 1) \in Seq(T) /\ Len(SubSeq(s, 1, Len(s) - 1)) = Len(s) - 1
        /\ \A k \in 1..Len(s)-1 : SubSeq(s, 1, Len(s) - 1)[k] = s[k]
    BY <2>b DEF n
  <2> QED BY <2>1, <2>2, <2>3 DEF Front
<1> DEFINE p == Front(s)
<1> HIDE DEF p
<1>3. ASSUME s # <<>>
      PROVE  /\ Append(p, f) \in Seq(T) /\ Len(Append(p, f)) = Len(s)
             /\ Append(p, f)[Len(s)] = f
             /\ \A k \in 1..Len(s)-1 : Append(p, f)[k] = s[k]
  <2>1. /\ p \in Seq(T) /\ Len(p) = Len(s) - 1 /\ Len(s) \in Nat \ {0}
        /\ \A k \in 1..Len(s)-1 : p[k] = s[k]
    BY <1>2, <1>3 DEF p
  <2> QED BY <2>1
<1> QED BY <1>1, <1>2, <1>3 DEF p

-----------------------------------------------------------------------------
(* Cascades. *)

\* A chain of sets that grows by what its last set begets stops growing.
LEMMA ChainStops ==
  ASSUME NEW T, NEW N \in Nat, IsFiniteSet(T), Cardinality(T) <= N,
         NEW kids \in [SUBSET T -> SUBSET T], kids[{}] = {},
         NEW f, \A n \in 0..N : f[n] \in SUBSET T,
         \A n \in 0..N : n < N => f[n + 1] = f[n] \cup kids[f[n]]
  PROVE  kids[f[N]] \subseteq f[N]
<1> DEFINE P(n) == n <= N => kids[f[n]] \subseteq f[n] \/ Cardinality(f[n]) >= n + 1
           Good == {n \in Nat : P(n)}
<1>0. \A n \in 0..N : IsFiniteSet(f[n]) /\ Cardinality(f[n]) \in Nat /\ Cardinality(f[n]) <= N
  <2> TAKE n \in 0..N
  <2> DEFINE S == f[n]
  <2>1. S \in SUBSET T
    OBVIOUS
  <2> HIDE DEF S
  <2>2. IsFiniteSet(S) /\ Cardinality(S) <= Cardinality(T)
    BY <2>1, FS_Subset
  <2>3. Cardinality(S) \in Nat /\ Cardinality(T) \in Nat
    BY <2>2, FS_CardinalityType
  <2>4. Cardinality(S) <= N
    BY <2>2, <2>3
  <2> QED BY <2>2, <2>3, <2>4 DEF S
<1>1. P(0)
  <2> DEFINE S == f[0]
  <2>1. IsFiniteSet(S) /\ Cardinality(S) \in Nat
    BY <1>0
  <2> HIDE DEF S
  <2>2. S = {} \/ Cardinality(S) # 0
    BY <2>1, FS_EmptySet
  <2>a. S = {} => kids[S] \subseteq S
    OBVIOUS
  <2>b. Cardinality(S) # 0 => Cardinality(S) >= 0 + 1
    BY <2>1
  <2>3. kids[S] \subseteq S \/ Cardinality(S) >= 0 + 1
    BY <2>2, <2>a, <2>b
  <2> QED BY <2>3 DEF S
<1>2. ASSUME NEW n \in Nat, P(n) PROVE P(n + 1)
  <2> SUFFICES ASSUME n + 1 <= N
               PROVE  kids[f[n + 1]] \subseteq f[n + 1] \/ Cardinality(f[n + 1]) >= n + 1 + 1
    OBVIOUS
  <2>1. n \in 0..N /\ n + 1 \in 0..N /\ n < N
    OBVIOUS
  <2> DEFINE S == f[n]
             U == f[n + 1]
  <2>2. U = S \cup kids[S] /\ IsFiniteSet(S) /\ Cardinality(S) \in Nat /\ IsFiniteSet(U) /\ S \in SUBSET T
    BY <1>0, <2>1
  <2>3. kids[S] \subseteq S \/ Cardinality(S) >= n + 1
    BY <1>2, <2>1
  <2> HIDE DEF S, U
  <2>4. CASE kids[S] \subseteq S
    <3>1. U = S
      BY <2>2, <2>4
    <3> QED BY <2>4, <3>1 DEF U
  <2>5. CASE ~(kids[S] \subseteq S)
    <3>1. PICK x \in kids[S] : x \notin S
      BY <2>5
    <3> DEFINE V == S \cup {x}
    <3>2. IsFiniteSet(V) /\ Cardinality(V) = Cardinality(S) + 1
      BY <2>2, <3>1, FS_AddElement
    <3>3. V \in SUBSET U
      BY <2>2, <3>1
    <3> HIDE DEF V
    <3>4. Cardinality(V) <= Cardinality(U) /\ Cardinality(U) \in Nat
      BY <2>2, <3>3, FS_Subset, FS_CardinalityType
    <3>5. Cardinality(U) >= n + 1 + 1
      BY <2>2, <2>3, <2>5, <3>2, <3>4
    <3> QED BY <3>5 DEF U
  <2> QED BY <2>4, <2>5
<1> HIDE DEF P
<1>3. 0 \in Good /\ \A n \in Nat : n \in Good => n + 1 \in Good
  BY <1>1, <1>2
<1>4. \A n \in Nat : n \in Good
  <2> HIDE DEF Good
  <2> QED BY <1>3, SetInduction
<1>5. P(N)
  BY <1>4
<1>6. N \in 0..N
  OBVIOUS
<1>7. kids[f[N]] \subseteq f[N] \/ Cardinality(f[N]) >= N + 1
  BY <1>5 DEF P
<1> QED BY <1>0, <1>6, <1>7
=============================================================================
