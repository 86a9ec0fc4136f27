------------------------------ MODULE PrefixSums ------------------------------
(***************************************************************************)
(* Sums over the first elements of a sequence, as the recursive functions  *)
(* of the models compute them.  The library's theorems on induction and    *)
(* recursion take an operator as a parameter; here the set of the numbers  *)
(* at which a claim fails takes its place, of which a well-founded order   *)
(* has a least element.                                                    *)
(***************************************************************************)
EXTENDS Integers, Sequences, WellFoundedInduction, TLAPS

LEMMA LeastNatural ==
  ASSUME NEW T \in SUBSET Nat, T # {}
  PROVE  \E m \in T: \A n \in T: m <= n
<1> DEFINE R == { r \in Nat \X Nat: r[1] < r[2] }
<1>1. R = OpToRel(<, Nat)
  BY DEF OpToRel
<1>2. IsWellFoundedOn(R, Nat)
  BY <1>1, NatLessThanWellFounded
<1>3. \E m \in T: \A n \in T: ~ (<< n, m >> \in R)
  <2> HIDE DEF R
  <2> QED BY <1>2, WFMin
<1>4. PICK m \in T: \A n \in T: ~ (<< n, m >> \in R)
  BY <1>3
<1>5. ASSUME NEW n \in T PROVE m <= n
  <2>1. m \in Nat /\ n \in Nat
    OBVIOUS
  <2>2. ~ (n < m)
    BY <1>4, <2>1
  <2> QED BY <2>1, <2>2
<1> QED BY <1>5

(* Induction over the numbers up to a bound, for a set instead of a predicate. *)
LEMMA UpTo ==
  ASSUME NEW N \in Nat, NEW P, 0 \in P,
         \A n \in 0..N - 1: n \in P => n + 1 \in P
  PROVE  0..N \subseteq P
<1> SUFFICES ASSUME 0..N \ P # {} PROVE FALSE
  OBVIOUS
<1> DEFINE T == 0..N \ P
<1>0. T \in SUBSET Nat /\ T # {}
  OBVIOUS
<1>1. PICK m \in T: \A n \in T: m <= n
  <2> HIDE DEF T
  <2> QED BY <1>0, LeastNatural
<1>2. m # 0
  OBVIOUS
<1>3. m \in 0..N /\ m - 1 \in 0..N - 1
  BY <1>2
<1>4. m - 1 \in P
  <2>1. ~(m <= m - 1)
    BY <1>3
  <2>2. m - 1 \notin T
    BY <1>1, <2>1
  <2> QED BY <1>3, <2>2
<1>5. (m - 1) + 1 \in P
  BY <1>3, <1>4
<1>6. (m - 1) + 1 = m
  BY <1>3
<1> QED BY <1>5, <1>6

(* Partial sums exist. *)
SumsOf(s, d, n) == s \in [0..n -> Nat] /\ s[0] = 0 /\ \A i \in 1..n: s[i] = s[i - 1] + d[i]

LEMMA SumsExist ==
  ASSUME NEW N \in Nat, NEW d, \A i \in 1..N: d[i] \in Nat
  PROVE  \E s: SumsOf(s, d, N)
<1> DEFINE P == { n \in 0..N: \E s: SumsOf(s, d, n) }
<1>1. 0 \in P
  <2>1. SumsOf([i \in 0..0 |-> 0], d, 0)
    BY DEF SumsOf
  <2> QED BY <2>1
<1>2. ASSUME NEW n \in 0..N - 1, n \in P PROVE n + 1 \in P
  <2>1. PICK s: SumsOf(s, d, n)
    BY <1>2
  <2> DEFINE t == [i \in 0..n + 1 |-> IF i = n + 1 THEN s[n] + d[n + 1] ELSE s[i]]
  <2>2. n \in Nat /\ n + 1 \in 1..N /\ d[n + 1] \in Nat /\ s[n] \in Nat
    BY <2>1 DEF SumsOf
  <2>3. t \in [0..n + 1 -> Nat]
    BY <2>1, <2>2 DEF SumsOf
  <2>4. t[0] = 0
    BY <2>1, <2>2 DEF SumsOf
  <2>5. ASSUME NEW i \in 1..n + 1 PROVE t[i] = t[i - 1] + d[i]
    <3>1. CASE i = n + 1
      BY <3>1, <2>2
    <3>2. CASE i # n + 1
      <4>1. i \in 1..n /\ i - 1 \in 0..n + 1 /\ i - 1 # n + 1
        BY <3>2, <2>2
      <4> QED BY <4>1, <3>2, <2>1 DEF SumsOf
    <3> QED BY <3>1, <3>2
  <2>6. SumsOf(t, d, n + 1)
    <3> HIDE DEF t
    <3> QED BY <2>3, <2>4, <2>5 DEF SumsOf
  <2>7. n + 1 \in 0..N
    OBVIOUS
  <2> QED BY <2>6, <2>7
<1>3. 0..N \subseteq P
  <2> HIDE DEF P
  <2> QED BY <1>1, <1>2, UpTo
<1> QED BY <1>3

(* A function that is defined from one place to the next, as the LET of a  *)
(* prefix sum does, has the sums as its values.                            *)
LEMMA SumsAre ==
  ASSUME NEW N \in Nat, NEW d, NEW s, SumsOf(s, d, N), NEW k \in 1..N + 1, NEW at,
         at = [n \in 1..k |-> IF n = 1 THEN 0 ELSE at[n - 1] + d[n - 1]]
  PROVE  at[k] = s[k - 1]
<1> DEFINE P == { n \in 0..k - 1: at[n + 1] = s[n] }
<1>1. 0 \in P
  <2>1. at[1] = 0
    <3>1. 1 \in 1..k
      OBVIOUS
    <3> QED BY <3>1
  <2> QED BY <2>1 DEF SumsOf
<1>2. ASSUME NEW n \in 0..k - 1 - 1, n \in P PROVE n + 1 \in P
  <2>1. n \in Nat /\ n + 2 \in 1..k /\ n + 2 # 1 /\ (n + 2) - 1 = n + 1 /\ n + 1 \in 1..N /\ (n + 1) - 1 = n
    OBVIOUS
  <2>2. at[n + 2] = at[n + 1] + d[n + 1]
    BY <2>1
  <2>3. s[n + 1] = s[n] + d[n + 1]
    BY <2>1 DEF SumsOf
  <2>4. at[n + 1] = s[n]
    BY <1>2
  <2>5. at[(n + 1) + 1] = s[n + 1]
    <3>1. (n + 1) + 1 = n + 2
      BY <2>1
    <3> QED BY <3>1, <2>2, <2>3, <2>4
  <2>6. n + 1 \in 0..k - 1
    OBVIOUS
  <2> QED BY <2>5, <2>6
<1>3. 0..k - 1 \subseteq P
  <2>1. k - 1 \in Nat
    OBVIOUS
  <2> HIDE DEF P
  <2> QED BY <1>1, <1>2, <2>1, UpTo
<1>4. k - 1 \in P /\ (k - 1) + 1 = k
  BY <1>3
<1> QED BY <1>4

LEMMA GreatestNatural ==
  ASSUME NEW N \in Nat, NEW T \in SUBSET (0..N), T # {}
  PROVE  \E m \in T: \A n \in T: n <= m
<1> DEFINE D == { N - n: n \in T }
<1>1. D \in SUBSET Nat /\ D # {}
  <2>1. ASSUME NEW n \in T PROVE N - n \in Nat /\ N - n \in D
    <3>1. n \in 0..N
      OBVIOUS
    <3> QED BY <3>1
  <2>2. PICK n \in T: TRUE
    OBVIOUS
  <2>3. D # {}
    BY <2>1, <2>2
  <2>4. \A x \in D: x \in Nat
    BY <2>1
  <2> QED BY <2>3, <2>4
<1>2. PICK d \in D: \A n \in D: d <= n
  <2> HIDE DEF D
  <2> QED BY <1>1, LeastNatural
<1>3. PICK m \in T: d = N - m
  OBVIOUS
<1>4. ASSUME NEW n \in T PROVE n <= m
  <2>1. d <= N - n
    BY <1>2
  <2> QED BY <1>3, <2>1
<1> QED BY <1>4

(* Sums of what is not zero rise. *)
LEMMA SumsRise ==
  ASSUME NEW N \in Nat, NEW d, NEW s, SumsOf(s, d, N), \A i \in 1..N: d[i] \in Nat
  PROVE  /\ \A i, j \in 0..N: i <= j => s[i] <= s[j]
         /\ (\A i \in 1..N: d[i] > 0) => \A i, j \in 0..N: i < j => s[i] < s[j]
<1>1. ASSUME NEW i \in 0..N PROVE \A j \in 0..N: i <= j => s[i] <= s[j]
  <2> DEFINE P == { n \in 0..N - i: s[i] <= s[i + n] }
  <2>1. 0 \in P
    BY DEF SumsOf
  <2>2. ASSUME NEW n \in 0..(N - i) - 1, n \in P PROVE n + 1 \in P
    <3>1. i + n \in 0..N /\ i + (n + 1) \in 1..N /\ (i + (n + 1)) - 1 = i + n
      OBVIOUS
    <3>2. s[i + (n + 1)] = s[i + n] + d[i + (n + 1)]
      BY <3>1 DEF SumsOf
    <3>3. s[i] \in Nat /\ s[i + n] \in Nat /\ d[i + (n + 1)] \in Nat /\ s[i] <= s[i + n]
      BY <2>2, <3>1 DEF SumsOf
    <3>4. n + 1 \in 0..N - i
      OBVIOUS
    <3>5. s[i] <= s[i + (n + 1)]
      BY <3>2, <3>3
    <3> QED BY <3>4, <3>5
  <2>3. 0..N - i \subseteq P
    <3>1. N - i \in Nat
      OBVIOUS
    <3> HIDE DEF P
    <3> QED BY <2>1, <2>2, <3>1, UpTo
  <2>4. ASSUME NEW j \in 0..N, i <= j PROVE s[i] <= s[j]
    <3>1. j - i \in 0..N - i /\ i + (j - i) = j
      BY <2>4
    <3>2. j - i \in P
      BY <2>3, <3>1
    <3> QED BY <3>1, <3>2
  <2> QED BY <2>4
<1>2. ASSUME NEW i \in 0..N, NEW j \in 0..N, i < j, \A k \in 1..N: d[k] > 0
      PROVE  s[i] < s[j]
  <2>1. i + 1 \in 1..N /\ (i + 1) - 1 = i /\ i + 1 <= j
    BY <1>2
  <2>2. s[i + 1] = s[i] + d[i + 1] /\ d[i + 1] > 0
    BY <1>2, <2>1 DEF SumsOf
  <2>3. s[i + 1] <= s[j]
    BY <1>1, <2>1
  <2>4. s[i] \in Nat /\ s[j] \in Nat /\ d[i + 1] \in Nat
    BY <2>1 DEF SumsOf
  <2> QED BY <2>2, <2>3, <2>4
<1> QED BY <1>1, <1>2

(* What a recursive function of the numbers up to N computes.              *)
LEMMA RecursiveSums ==
  ASSUME NEW N \in Nat, NEW d, \A i \in 1..N: d[i] \in Nat, NEW at,
         at = CHOOSE f: f = [n \in 0..N |-> IF n = 0 THEN 0 ELSE f[n - 1] + d[n]]
  PROVE  SumsOf(at, d, N)
<1> DEFINE F(f) == [n \in 0..N |-> IF n = 0 THEN 0 ELSE f[n - 1] + d[n]]
<1>1. PICK s: SumsOf(s, d, N)
  BY SumsExist
<1>2. s = F(s)
  <2>1. s = [n \in 0..N |-> s[n]]
    BY <1>1 DEF SumsOf
  <2>2. ASSUME NEW n \in 0..N PROVE s[n] = F(s)[n]
    <3>1. CASE n = 0
      BY <1>1, <3>1 DEF SumsOf
    <3>2. CASE n # 0
      <4>1. n \in 1..N
        BY <3>2
      <4> QED BY <1>1, <3>2, <4>1 DEF SumsOf
    <3> QED BY <3>1, <3>2
  <2> QED BY <2>1, <2>2
<1>3. at = F(at)
  <2>1. \E f: f = F(f)
    BY <1>2
  <2>2. at = CHOOSE f: f = F(f)
    OBVIOUS
  <2> HIDE DEF F
  <2> QED BY <2>1, <2>2
<1> DEFINE P == { n \in 0..N: at[n] \in Nat }
<1>4. at[0] = 0 /\ \A n \in 1..N: at[n] = at[n - 1] + d[n]
  <2>1. at[0] = 0
    <3>1. 0 \in 0..N
      OBVIOUS
    <3>2. F(at)[0] = 0
      BY <3>1
    <3>3. at[0] = F(at)[0]
      <4> HIDE DEF F
      <4> QED BY ONLY <1>3
    <3> QED BY ONLY <3>2, <3>3
  <2>2. ASSUME NEW n \in 1..N PROVE at[n] = at[n - 1] + d[n]
    <3>1. n \in 0..N /\ n # 0
      OBVIOUS
    <3>2. at[n] = F(at)[n]
      <4> HIDE DEF F
      <4> QED BY ONLY <1>3
    <3>3. F(at)[n] = at[n - 1] + d[n]
      BY <3>1
    <3> QED BY <3>2, <3>3
  <2> QED BY <2>1, <2>2
<1>5. 0..N \subseteq P
  <2>1. 0 \in P
    BY <1>4
  <2>2. ASSUME NEW n \in 0..N - 1, n \in P PROVE n + 1 \in P
    <3>1. n + 1 \in 1..N /\ n + 1 \in 0..N /\ (n + 1) - 1 = n
      OBVIOUS
    <3>2. at[n + 1] = at[n] + d[n + 1] /\ d[n + 1] \in Nat /\ at[n] \in Nat
      BY <1>4, <2>2, <3>1
    <3> QED BY <3>1, <3>2
  <2> HIDE DEF P
  <2> QED BY <2>1, <2>2, UpTo
<1>6. at \in [0..N -> Nat]
  <2>1. at = [n \in 0..N |-> at[n]]
    BY <1>3
  <2>2. \A n \in 0..N: at[n] \in Nat
    BY <1>5
  <2> QED BY ONLY <2>1, <2>2
<1> QED BY <1>4, <1>6 DEF SumsOf

(* Sums of the same numbers are the same.                                  *)
LEMMA SumsUnique ==
  ASSUME NEW N \in Nat, NEW d, NEW s, SumsOf(s, d, N),
         NEW k \in 0..N, NEW e, NEW t, SumsOf(t, e, k), \A i \in 1..k: d[i] = e[i]
  PROVE  \A n \in 0..k: s[n] = t[n]
<1> DEFINE P == { n \in 0..k: s[n] = t[n] }
<1>1. 0 \in P
  BY DEF SumsOf
<1>2. ASSUME NEW n \in 0..k - 1, n \in P PROVE n + 1 \in P
  <2>1. n + 1 \in 1..k /\ n + 1 \in 1..N /\ (n + 1) - 1 = n /\ n + 1 \in 0..k
    OBVIOUS
  <2> QED BY <1>2, <2>1 DEF SumsOf
<1>3. 0..k \subseteq P
  <2> HIDE DEF P
  <2> QED BY <1>1, <1>2, UpTo
<1> QED BY <1>3

(* Sums add up.                                                            *)
LEMMA SumsAdd ==
  ASSUME NEW N \in Nat, NEW d, NEW s, SumsOf(s, d, N), NEW e, NEW t, SumsOf(t, e, N),
         NEW g, NEW u, SumsOf(u, g, N),
         \A i \in 1..N: e[i] \in Nat /\ g[i] \in Nat /\ d[i] = 1 + e[i] + g[i]
  PROVE  s[N] = N + t[N] + u[N]
<1> DEFINE P == { n \in 0..N: s[n] = n + t[n] + u[n] }
<1>1. 0 \in P
  BY DEF SumsOf
<1>2. ASSUME NEW n \in 0..N - 1, n \in P PROVE n + 1 \in P
  <2>1. n + 1 \in 1..N /\ (n + 1) - 1 = n /\ n + 1 \in 0..N /\ n \in 0..N
    OBVIOUS
  <2>2. /\ s[n + 1] = s[n] + d[n + 1] /\ t[n + 1] = t[n] + e[n + 1] /\ u[n + 1] = u[n] + g[n + 1]
        /\ s[n] \in Nat /\ t[n] \in Nat /\ u[n] \in Nat
    BY <2>1 DEF SumsOf
  <2>3. e[n + 1] \in Nat /\ g[n + 1] \in Nat /\ d[n + 1] = 1 + e[n + 1] + g[n + 1]
    BY <2>1
  <2>4. s[n] = n + t[n] + u[n]
    BY <1>2
  <2>5. s[n + 1] = (n + 1) + t[n + 1] + u[n + 1]
    BY ONLY <2>1, <2>2, <2>3, <2>4
  <2> QED BY <2>1, <2>5
<1>3. 0..N \subseteq P
  <2> HIDE DEF P
  <2> QED BY <1>1, <1>2, UpTo
<1> QED BY <1>3

=============================================================================
