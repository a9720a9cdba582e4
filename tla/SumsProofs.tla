------------------------------ MODULE SumsProofs ------------------------------
(***************************************************************************)
(* Induction over the natural numbers in a form that needs no operator as  *)
(* a parameter, and what the proofs about loops need of Sum.               *)
(***************************************************************************)
EXTENDS Sums, WellFoundedInduction, TLAPS

Less == {ss \in Nat \X Nat : ss[1] < ss[2]}

LEMMA LessIsWellFounded == IsWellFoundedOn(Less, Nat)
BY NatLessThanWellFounded DEF OpToRel, Less

\* A set of natural numbers has a least one.
LEMMA LeastOf ==
    ASSUME NEW T \in SUBSET Nat, T # {}
    PROVE  \E x \in T : \A y \in T : x <= y
<1>1. PICK x \in T : \A y \in T : ~ (<<y, x>> \in Less)
  BY LessIsWellFounded, WFMin
<1>2. ASSUME NEW y \in T PROVE x <= y
  <2>1. x \in Nat /\ y \in Nat /\ <<y, x>> \in Nat \X Nat
    OBVIOUS
  <2>2. <<y, x>> \in Less <=> y < x
    BY <2>1 DEF Less
  <2>3. QED
    BY <1>1, <2>1, <2>2
<1>3. QED
  BY <1>2

\* Induction, for a property given as the set of the numbers that have it.
LEMMA NatSetInduction ==
    ASSUME NEW S, 0 \in S, \A n \in Nat : n \in S => n + 1 \in S
    PROVE  Nat \subseteq S
<1> SUFFICES ASSUME ~(Nat \subseteq S) PROVE FALSE
  OBVIOUS
<1> DEFINE T == Nat \ S
<1>1. PICK x \in T : \A y \in T : x <= y
  BY LeastOf
<1>2. x # 0 /\ x - 1 \in Nat /\ x - 1 \notin T
  BY <1>1
<1>3. QED
  BY <1>1, <1>2

------------------------------------------------------------------------------
(* Sum is what its recursion says. *)

\* s has the sums of f up to n.
Sums(f, n, s) == s = [m \in 0 .. n |-> IF m = 0 THEN 0 ELSE s[m-1] + f[m-1]]

LEMMA SumsExist ==
    ASSUME NEW f
    PROVE  \A n \in Nat : \E s : Sums(f, n, s)
<1> DEFINE S == {n \in Nat : \E s : Sums(f, n, s)}
<1>1. 0 \in S
  <2>1. Sums(f, 0, [m \in 0 .. 0 |-> 0])
    BY DEF Sums
  <2>2. QED
    BY <2>1
<1>2. ASSUME NEW n \in Nat, n \in S PROVE n + 1 \in S
  <2>1. PICK s : Sums(f, n, s)
    BY <1>2
  <2> DEFINE t == [m \in 0 .. n+1 |-> IF m <= n THEN s[m] ELSE s[n] + f[n]]
  <2>2. ASSUME NEW m \in 0 .. n+1
        PROVE  t[m] = IF m = 0 THEN 0 ELSE t[m-1] + f[m-1]
    <3>1. CASE m <= n
      BY <3>1, <2>1 DEF Sums
    <3>2. CASE m = n + 1
      BY <3>2, <2>1 DEF Sums
    <3>3. QED
      BY <3>1, <3>2
  <2>3. Sums(f, n + 1, t)
    BY <2>2 DEF Sums
  <2>4. QED
    BY <2>3
<1> HIDE DEF S
<1>3. Nat \subseteq S
  BY <1>1, <1>2, NatSetInduction
<1>4. QED
  BY <1>3 DEF S

\* Two such functions agree as far as both go.
LEMMA SumsAgree ==
    ASSUME NEW f, NEW n \in Nat, NEW m \in Nat, NEW s, NEW t, Sums(f, n, s), Sums(f, m, t)
    PROVE  \A k \in Nat : k <= n /\ k <= m => s[k] = t[k]
<1> DEFINE S == {k \in Nat : k <= n /\ k <= m => s[k] = t[k]}
<1>1. 0 \in S
  BY DEF Sums
<1>2. ASSUME NEW k \in Nat, k \in S PROVE k + 1 \in S
  <2> SUFFICES ASSUME k + 1 <= n, k + 1 <= m PROVE s[k+1] = t[k+1]
    OBVIOUS
  <2>1. k + 1 \in 0 .. n /\ k + 1 \in 0 .. m /\ k + 1 # 0 /\ (k + 1) - 1 = k
    OBVIOUS
  <2>2. s[k+1] = s[k] + f[k]
    BY <2>1 DEF Sums
  <2>3. t[k+1] = t[k] + f[k]
    BY <2>1 DEF Sums
  <2>4. QED
    BY <1>2, <2>2, <2>3
<1> HIDE DEF S
<1>3. Nat \subseteq S
  BY <1>1, <1>2, NatSetInduction
<1>4. QED
  BY <1>3 DEF S

\* The recursion that defines Sum has a solution, and Sum takes it.
LEMMA SumStep ==
    ASSUME NEW f, NEW n \in Nat
    PROVE  Sum(f, 0) = 0 /\ Sum(f, n + 1) = Sum(f, n) + f[n]
<1> DEFINE upto(m) == CHOOSE s : Sums(f, m, s)
           all == [m \in Nat |-> upto(m)[m]]
<1>1. \A m \in Nat : Sums(f, m, upto(m))
  BY SumsExist
<1>2. ASSUME NEW m \in Nat
      PROVE  all[m] = IF m = 0 THEN 0 ELSE all[m-1] + f[m-1]
  <2>1. upto(m)[m] = IF m = 0 THEN 0 ELSE upto(m)[m-1] + f[m-1]
    <3>1. Sums(f, m, upto(m))
      BY <1>1
    <3> HIDE DEF upto
    <3>2. QED
      BY <3>1 DEF Sums
  <2>2. m # 0 => upto(m)[m-1] = upto(m-1)[m-1]
    <3> SUFFICES ASSUME m # 0 PROVE upto(m)[m-1] = upto(m-1)[m-1]
      OBVIOUS
    <3>1. m - 1 \in Nat /\ m - 1 <= m /\ m - 1 <= m - 1
      OBVIOUS
    <3>2. Sums(f, m, upto(m)) /\ Sums(f, m - 1, upto(m-1))
      BY <1>1, <3>1
    <3> HIDE DEF upto
    <3>3. QED
      BY <3>1, <3>2, SumsAgree
  <2>3. QED
    BY <2>1, <2>2
<1>3. \A m \in Nat : all[m] = IF m = 0 THEN 0 ELSE all[m-1] + f[m-1]
  BY <1>2
<1>4. all = [m \in Nat |-> all[m]]
  OBVIOUS
<1> HIDE DEF all
<1>5. all = [m \in Nat |-> IF m = 0 THEN 0 ELSE all[m-1] + f[m-1]]
  BY <1>3, <1>4
<1> DEFINE sol == CHOOSE s : s = [m \in Nat |-> IF m = 0 THEN 0 ELSE s[m-1] + f[m-1]]
<1>6. sol = [m \in Nat |-> IF m = 0 THEN 0 ELSE sol[m-1] + f[m-1]]
  BY <1>5
<1> HIDE DEF sol
<1>7. Sum(f, 0) = sol[0] /\ Sum(f, n) = sol[n] /\ Sum(f, n + 1) = sol[n + 1]
  BY DEF Sum, sol
<1>8. sol[0] = 0 /\ sol[n + 1] = sol[n] + f[n]
  BY <1>6
<1>9. QED
  BY <1>7, <1>8

------------------------------------------------------------------------------
(* What a loop needs of it. *)

\* A sum of integers is one, and of natural numbers too.
LEMMA SumType ==
    ASSUME NEW f, NEW n \in Nat, \A m \in 0 .. n - 1 : f[m] \in Int
    PROVE  /\ Sum(f, n) \in Int
           /\ (\A m \in 0 .. n - 1 : f[m] >= 0) => Sum(f, n) >= 0
<1> DEFINE P(m) == /\ Sum(f, m) \in Int
                   /\ (\A x \in 0 .. n - 1 : f[x] >= 0) => Sum(f, m) >= 0
           S == {m \in Nat : m <= n => P(m)}
<1>1. 0 \in S
  BY SumStep
<1>2. ASSUME NEW m \in Nat, m \in S PROVE m + 1 \in S
  <2> SUFFICES ASSUME m + 1 <= n PROVE P(m + 1)
    OBVIOUS
  <2>1. P(m) /\ m \in 0 .. n - 1 /\ f[m] \in Int
    BY <1>2
  <2>2. Sum(f, m + 1) = Sum(f, m) + f[m]
    BY SumStep
  <2>3. QED
    BY <2>1, <2>2
<1> HIDE DEF S
<1>3. Nat \subseteq S
  BY <1>1, <1>2, NatSetInduction
<1>4. QED
  BY <1>3 DEF S

\* A sum depends on its terms only.
LEMMA SumSame ==
    ASSUME NEW f, NEW g, NEW n \in Nat, \A m \in 0 .. n - 1 : f[m] = g[m]
    PROVE  Sum(f, n) = Sum(g, n)
<1> DEFINE S == {m \in Nat : m <= n => Sum(f, m) = Sum(g, m)}
<1>1. 0 \in S
  BY SumStep
<1>2. ASSUME NEW m \in Nat, m \in S PROVE m + 1 \in S
  <2> SUFFICES ASSUME m + 1 <= n PROVE Sum(f, m + 1) = Sum(g, m + 1)
    OBVIOUS
  <2>1. Sum(f, m) = Sum(g, m) /\ f[m] = g[m]
    BY <1>2
  <2>2. Sum(f, m + 1) = Sum(f, m) + f[m] /\ Sum(g, m + 1) = Sum(g, m) + g[m]
    BY SumStep
  <2>3. QED
    BY <2>1, <2>2
<1> HIDE DEF S
<1>3. Nat \subseteq S
  BY <1>1, <1>2, NatSetInduction
<1>4. QED
  BY <1>3 DEF S

\* Nothing but zeros add up to zero.
LEMMA SumZero ==
    ASSUME NEW f, NEW n \in Nat, \A m \in 0 .. n - 1 : f[m] = 0
    PROVE  Sum(f, n) = 0
<1> DEFINE S == {m \in Nat : m <= n => Sum(f, m) = 0}
<1>1. 0 \in S
  BY SumStep
<1>2. ASSUME NEW m \in Nat, m \in S PROVE m + 1 \in S
  <2> SUFFICES ASSUME m + 1 <= n PROVE Sum(f, m + 1) = 0
    OBVIOUS
  <2>1. Sum(f, m) = 0 /\ f[m] = 0
    BY <1>2
  <2>2. Sum(f, m + 1) = Sum(f, m) + f[m]
    BY SumStep
  <2>3. QED
    BY <2>1, <2>2
<1> HIDE DEF S
<1>3. Nat \subseteq S
  BY <1>1, <1>2, NatSetInduction
<1>4. QED
  BY <1>3 DEF S

\* A sum is at most as many times the bound of its terms.
LEMMA SumBound ==
    ASSUME NEW f, NEW n \in Nat, NEW B \in Nat, \A m \in 0 .. n - 1 : f[m] \in 0 .. B
    PROVE  Sum(f, n) \in 0 .. n * B
<1> DEFINE S == {m \in Nat : m <= n => Sum(f, m) \in 0 .. m * B}
<1>1. 0 \in S
  BY SumStep
<1>2. ASSUME NEW m \in Nat, m \in S PROVE m + 1 \in S
  <2> SUFFICES ASSUME m + 1 <= n PROVE Sum(f, m + 1) \in 0 .. (m + 1) * B
    OBVIOUS
  <2>1. Sum(f, m) \in 0 .. m * B /\ f[m] \in 0 .. B
    BY <1>2
  <2>2. Sum(f, m + 1) = Sum(f, m) + f[m]
    BY SumStep
  <2>3. (m + 1) * B = m * B + B /\ m * B \in Int
    OBVIOUS
  <2>4. QED
    BY <2>1, <2>2, <2>3
<1> HIDE DEF S
<1>3. Nat \subseteq S
  BY <1>1, <1>2, NatSetInduction
<1>4. QED
  BY <1>3 DEF S

\* Errors add up no faster than what they are errors of.
LEMMA SumError ==
    ASSUME NEW f, NEW g, NEW n \in Nat, NEW q \in Nat,
           \A m \in 0 .. n - 1 : /\ f[m] \in Int /\ g[m] \in Int
                                 /\ q * (f[m] - g[m]) <= g[m]
                                 /\ q * (g[m] - f[m]) <= g[m]
    PROVE  /\ q * (Sum(f, n) - Sum(g, n)) <= Sum(g, n)
           /\ q * (Sum(g, n) - Sum(f, n)) <= Sum(g, n)
<1> DEFINE P(m) == /\ Sum(f, m) \in Int /\ Sum(g, m) \in Int
                   /\ q * (Sum(f, m) - Sum(g, m)) <= Sum(g, m)
                   /\ q * (Sum(g, m) - Sum(f, m)) <= Sum(g, m)
           S == {m \in Nat : m <= n => P(m)}
<1>1. 0 \in S
  BY SumStep
<1>2. ASSUME NEW m \in Nat, m \in S PROVE m + 1 \in S
  <2> SUFFICES ASSUME m + 1 <= n PROVE P(m + 1)
    OBVIOUS
  <2>1. P(m)
    BY <1>2
  <2>2. /\ f[m] \in Int /\ g[m] \in Int
        /\ q * (f[m] - g[m]) <= g[m] /\ q * (g[m] - f[m]) <= g[m]
    OBVIOUS
  <2>3. Sum(f, m + 1) = Sum(f, m) + f[m] /\ Sum(g, m + 1) = Sum(g, m) + g[m]
    BY SumStep
  <2>4. QED
    BY <2>1, <2>2, <2>3
<1> HIDE DEF S
<1>3. Nat \subseteq S
  BY <1>1, <1>2, NatSetInduction
<1>4. QED
  BY <1>3 DEF S

------------------------------------------------------------------------------
(* Residues. *)

LEMMA DivisionIsExact ==
    ASSUME NEW M \in Nat \ {0}, NEW x \in Int
    PROVE  x = M * (x \div M) + (x % M) /\ x % M \in 0 .. M - 1 /\ x \div M \in Int
OBVIOUS

\* Numbers that differ by a multiple of M have the same residue.
LEMMA SameResidue ==
    ASSUME NEW M \in Nat \ {0}, NEW x \in Int, NEW y \in Int, NEW q \in Int, x = y + M * q
    PROVE  x % M = y % M
<1> DEFINE a == x \div M
           b == y \div M
           r == x % M
           s == y % M
<1>1. x = M * a + r /\ r \in 0 .. M - 1 /\ a \in Int
  BY DivisionIsExact
<1>2. y = M * b + s /\ s \in 0 .. M - 1 /\ b \in Int
  BY DivisionIsExact
<1> HIDE DEF a, b, r, s
<1>3. PICK d \in Int : d = b + q - a
  BY <1>1, <1>2
<1>4. r - s = M * d
  BY <1>1, <1>2, <1>3
<1>5. d <= -1 => M * d <= -M
  OBVIOUS
<1>6. d >= 1 => M * d >= M
  OBVIOUS
<1>7. r = s
  BY <1>1, <1>2, <1>4, <1>5, <1>6
<1>8. QED
  BY <1>7 DEF r, s

\* Adding residues is as good as adding the numbers.
LEMMA ResidueOfSum ==
    ASSUME NEW M \in Nat \ {0}, NEW x \in Int, NEW y \in Int
    PROVE  ((x % M) + (y % M)) % M = (x + y) % M
<1> DEFINE a == x \div M
           b == y \div M
           r == x % M
           s == y % M
<1>1. x = M * a + r /\ r \in 0 .. M - 1 /\ a \in Int
  BY DivisionIsExact
<1>2. y = M * b + s /\ s \in 0 .. M - 1 /\ b \in Int
  BY DivisionIsExact
<1> HIDE DEF a, b, r, s
<1>3. r + s = (x + y) + M * (-(a + b))
  BY <1>1, <1>2
<1>4. r + s \in Int /\ x + y \in Int /\ -(a + b) \in Int
  BY <1>1, <1>2
<1>5. (r + s) % M = (x + y) % M
  BY <1>3, <1>4, SameResidue
<1>6. QED
  BY <1>5 DEF r, s

\* The quotient and the residue of a place are its row and its column.
LEMMA DivisionOfPlace ==
    ASSUME NEW n \in Nat \ {0}, NEW r \in Nat, NEW s \in 0 .. n - 1
    PROVE  (r * n + s) \div n = r /\ (r * n + s) % n = s
<1> DEFINE x == r * n + s
           q == x \div n
           t == x % n
<1>1. x \in Int /\ r * n \in Int
  OBVIOUS
<1>2. x = n * q + t /\ t \in 0 .. n - 1 /\ q \in Int
  BY <1>1, DivisionIsExact
<1> HIDE DEF q, t
<1>3. PICK d \in Int : d = r - q
  BY <1>2
<1>4. t - s = n * d
  BY <1>2, <1>3
<1>5. (d <= -1 => n * d <= -n) /\ (d >= 1 => n * d >= n)
  OBVIOUS
<1>6. d = 0
  BY <1>2, <1>4, <1>5
<1>7. QED
  BY <1>2, <1>3, <1>4, <1>6 DEF q, t
==============================================================================
