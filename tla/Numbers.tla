------------------------------ MODULE Numbers ------------------------------
(***************************************************************************)
(* Facts about numbers that the proofs of several modules need.  Induction *)
(* and recursion are stated with sets and functions: what is proved by     *)
(* induction is a set of numbers, and the step of a recursion is a         *)
(* function.  They are needed for what a transfer or a connection extends  *)
(* word by word or byte by byte; remainders for what wraps on the way.     *)
(***************************************************************************)
EXTENDS Integers, WellFoundedInduction, TLAPS

(* A set of natural numbers has a least element.                           *)
LEMMA LeastNumber ==
    ASSUME NEW T, T \subseteq Nat, T # {}
    PROVE  \E x \in T : \A y \in T : ~(y < x)
  <1> DEFINE R == OpToRel(<, Nat)
  <1>1. IsWellFoundedOn(R, Nat)
    BY NatLessThanWellFounded
  <1>2. \A x, y \in Nat : y < x => <<y, x>> \in R
    BY DEF OpToRel
  <1> HIDE DEF R
  <1>3. PICK x \in T : \A y \in T : <<y, x>> \notin R
    BY <1>1, WFMin
  <1> QED BY <1>2, <1>3

(* What holds of 0 and of the successor of a number it holds of.           *)
LEMMA InductionSet ==
    ASSUME NEW T, 0 \in T, \A n \in Nat : n \in T => n + 1 \in T
    PROVE  Nat \subseteq T
  <1> SUFFICES ASSUME Nat \ T # {} PROVE FALSE
    OBVIOUS
  <1>1. PICK x \in Nat \ T : \A y \in Nat \ T : ~(y < x)
    BY LeastNumber
  <1>2. x # 0 /\ x - 1 \in Nat /\ x - 1 < x /\ (x - 1) + 1 = x
    BY <1>1
  <1> QED BY <1>1, <1>2

(* The numbers up to n of a recursion with the step F.                     *)
Unfolds(f, n, x, F) == f[0] = x /\ \A k \in 0 .. n - 1 : f[k + 1] = F[k + 1][f[k]]

(* Two functions that unfold as far are the same so far.                   *)
LEMMA UnfoldsUnique ==
    ASSUME NEW f, NEW g, NEW m \in Nat, NEW n \in Nat, m <= n, NEW x, NEW F,
           Unfolds(f, m, x, F), Unfolds(g, n, x, F)
    PROVE  \A k \in 0 .. m : f[k] = g[k]
  <1> DEFINE T == {k \in Nat : k <= m => f[k] = g[k]}
  <1>1. 0 \in T
    BY DEF Unfolds
  <1>2. ASSUME NEW k \in Nat, k \in T PROVE k + 1 \in T
    <2>1. CASE k + 1 <= m
      <3>1. k \in 0 .. m - 1 /\ k \in 0 .. n - 1 /\ k <= m
        BY <2>1
      <3>2. f[k] = g[k]
        BY <1>2, <3>1
      <3> QED BY <3>1, <3>2 DEF Unfolds
    <2>2. CASE ~(k + 1 <= m)
      BY <2>2
    <2> QED BY <2>1, <2>2
  <1> HIDE DEF T
  <1>3. Nat \subseteq T
    BY <1>1, <1>2, InductionSet
  <1> QED BY <1>3 DEF T

(* The function that starts at x and steps by F.                           *)
Solves(f, x, F) == f = [n \in Nat |-> IF n = 0 THEN x ELSE F[n][f[n - 1]]]

(* A recursion with a typed start and a typed step defines a function.     *)
LEMMA Recursion ==
    ASSUME NEW S, NEW x \in S, NEW F \in [Nat -> [S -> S]]
    PROVE  \E f \in [Nat -> S] : Solves(f, x, F)
  <1> DEFINE T == {n \in Nat : \E g \in [0 .. n -> S] : Unfolds(g, n, x, F)}
  <1>1. 0 \in T
    <2> DEFINE g == [k \in 0 .. 0 |-> x]
    <2>1. g \in [0 .. 0 -> S] /\ Unfolds(g, 0, x, F)
      BY DEF Unfolds
    <2> QED BY <2>1
  <1>2. ASSUME NEW n \in Nat, n \in T PROVE n + 1 \in T
    <2>1. PICK g \in [0 .. n -> S] : Unfolds(g, n, x, F)
      BY <1>2
    <2> DEFINE h == [k \in 0 .. n + 1 |-> IF k = n + 1 THEN F[n + 1][g[n]] ELSE g[k]]
    <2>2. F[n + 1] \in [S -> S] /\ g[n] \in S
      BY <2>1
    <2>3. h \in [0 .. n + 1 -> S]
      BY <2>1, <2>2
    <2>4. h[0] = x
      BY <2>1 DEF Unfolds
    <2>5. ASSUME NEW k \in 0 .. n PROVE h[k + 1] = F[k + 1][h[k]]
      <3>1. CASE k = n
        <4>1. h[n + 1] = F[n + 1][g[n]] /\ h[n] = g[n]
          OBVIOUS
        <4> QED BY <3>1, <4>1
      <3>2. CASE k # n
        <4>1. k \in 0 .. n - 1 /\ k + 1 \in 0 .. n /\ k + 1 # n + 1 /\ k # n + 1
          BY <3>2
        <4>2. h[k + 1] = g[k + 1] /\ h[k] = g[k]
          BY <4>1
        <4> QED BY <2>1, <4>1, <4>2 DEF Unfolds
      <3> QED BY <3>1, <3>2
    <2> HIDE DEF h
    <2>6. Unfolds(h, n + 1, x, F)
      BY <2>4, <2>5 DEF Unfolds
    <2> QED BY <2>3, <2>6
  <1> HIDE DEF T
  <1>3. Nat \subseteq T
    BY <1>1, <1>2, InductionSet
  <1>4. \A n \in Nat : \E g \in [0 .. n -> S] : Unfolds(g, n, x, F)
    BY <1>3 DEF T
  <1> DEFINE G(n) == CHOOSE g \in [0 .. n -> S] : Unfolds(g, n, x, F)
  <1>5. \A n \in Nat : G(n) \in [0 .. n -> S] /\ Unfolds(G(n), n, x, F)
    BY <1>4
  <1> HIDE DEF G
  <1> DEFINE f == [n \in Nat |-> G(n)[n]]
  <1>6. f \in [Nat -> S]
    BY <1>5
  <1>7. f[0] = x
    BY <1>5 DEF Unfolds
  <1>8. ASSUME NEW n \in Nat \ {0} PROVE f[n] = F[n][f[n - 1]]
    <2>1. n - 1 \in Nat /\ n - 1 <= n /\ n - 1 \in 0 .. n - 1 /\ (n - 1) + 1 = n
      OBVIOUS
    <2>2. G(n)[n] = F[n][G(n)[n - 1]]
      BY <1>5, <2>1 DEF Unfolds
    <2>3. G(n - 1)[n - 1] = G(n)[n - 1]
      BY <1>5, <2>1, UnfoldsUnique
    <2> QED BY <2>1, <2>2, <2>3
  <1>9. f = [n \in Nat |-> IF n = 0 THEN x ELSE F[n][f[n - 1]]]
    <2> DEFINE e == [n \in Nat |-> IF n = 0 THEN x ELSE F[n][f[n - 1]]]
    <2>1. \A n \in Nat : f[n] = e[n]
      BY <1>7, <1>8
    <2> QED BY <2>1
  <1> QED BY <1>6, <1>9 DEF Solves

-----------------------------------------------------------------------------
(* Remainders.                                                             *)

(* Quotient and remainder are what they are called, and the only ones.     *)
LEMMA Quotient ==
    ASSUME NEW m \in Nat \ {0}, NEW x \in Int
    PROVE  /\ x = m * (x \div m) + (x % m)
           /\ x % m \in 0 .. m - 1 /\ x \div m \in Int
  OBVIOUS

LEMMA QuotientUnique ==
    ASSUME NEW m \in Nat \ {0}, NEW q \in Int, NEW p \in Int,
           NEW r \in 0 .. m - 1, NEW s \in 0 .. m - 1, m * q + r = m * p + s
    PROVE  q = p /\ r = s
  <1>1. m * (q - p) = s - r /\ s - r < m /\ s - r > -m
    OBVIOUS
  <1>2. CASE q > p
    <2>1. \A k \in Nat : m * (k + 1) >= m
      OBVIOUS
    <2>2. q - p - 1 \in Nat /\ q - p = (q - p - 1) + 1
      BY <1>2
    <2>3. m * (q - p) >= m
      BY <2>1, <2>2
    <2> QED BY <1>1, <2>3
  <1>3. CASE q < p
    <2>1. \A k \in Nat : m * (0 - (k + 1)) <= -m
      OBVIOUS
    <2>2. p - q - 1 \in Nat /\ q - p = 0 - ((p - q - 1) + 1)
      BY <1>3
    <2>3. m * (q - p) <= -m
      BY <2>1, <2>2
    <2> QED BY <1>1, <2>3
  <1>4. CASE q = p
    BY <1>1, <1>4
  <1> QED BY <1>2, <1>3, <1>4

LEMMA RemainderOf ==
    ASSUME NEW m \in Nat \ {0}, NEW q \in Int, NEW r \in 0 .. m - 1
    PROVE  (m * q + r) % m = r /\ (m * q + r) \div m = q
  <1> DEFINE x == m * q + r
  <1>1. x \in Int
    OBVIOUS
  <1>2. x = m * (x \div m) + (x % m) /\ x % m \in 0 .. m - 1 /\ x \div m \in Int
    BY <1>1, Quotient
  <1> QED BY <1>2, QuotientUnique

(* A remainder may be taken before an addition, too.                       *)
LEMMA RemainderAdd ==
    ASSUME NEW m \in Nat \ {0}, NEW x \in Int, NEW k \in Int
    PROVE  ((x % m) + k) % m = (x + k) % m
  <1> DEFINE y == (x % m) + k
             a == x \div m
             b == y \div m
             c == a + b
             r == y % m
  <1>1. x = m * a + (x % m) /\ a \in Int /\ x % m \in 0 .. m - 1
    BY Quotient
  <1>2. y \in Int
    BY <1>1
  <1>3. y = m * b + r /\ r \in 0 .. m - 1 /\ b \in Int
    BY <1>2, Quotient
  <1>4. m * c = m * a + m * b /\ c \in Int
    BY <1>1, <1>3
  <1>5. x + k = m * c + r
    BY <1>1, <1>3, <1>4
  <1>6. r \in 0 .. m - 1
    BY <1>3
  <1> HIDE DEF a, b, c, r
  <1>7. (x + k) % m = r
    BY <1>4, <1>5, <1>6, RemainderOf
  <1> QED BY <1>7 DEF r

=============================================================================
