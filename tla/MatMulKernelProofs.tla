------------------------- MODULE MatMulKernelProofs -------------------------
(***************************************************************************)
(* Proofs about MatMulKernel, for matrices and copies of every size, all   *)
(* fillings and every precision of the floats and doubles.                 *)
(***************************************************************************)
EXTENDS MatMulKernel, SumsProofs, TLAPS

(***************************************************************************)
(* The cells are stored in the order of their places, and those behind the *)
(* last one are still 0.                                                   *)
(***************************************************************************)
Progress ==
    /\ pc = "ecall" => i = 0 /\ written = 0
    /\ pc = "i" => written = i * NB
    /\ pc \in {"j", "k"} => written = i * NB + j
    /\ \A x \in Square(NB) : written <= x => c[x] = 0

\* Until a number is too large for it, tmp is what c can hold.
Precise == pc = "k" /\ ~big => tmp <= Exact

\* The last round of a cell has read past a copy if NB exceeds Cap.
Strays ==
    /\ NB <= Cap => stray = {}
    /\ NB > Cap =>
         /\ pc = "k" /\ k = NB => i * NB + j \in stray
         /\ \A x \in 0 .. written - 1 : x \in stray

KernelInv == TypeOK /\ Progress /\ Precise /\ Strays

------------------------------------------------------------------------------
(* Arithmetic. *)

\* A row and a column make a place of the square.
LEMMA PlaceInSquare ==
    ASSUME NEW n \in Nat, NEW r \in 0 .. n - 1, NEW s \in 0 .. n - 1
    PROVE  r * n + s \in Square(n) /\ r * n + s \in Nat /\ n * n \in Nat
<1>1. n \in Int /\ r \in Int /\ s \in Int /\ n * n \in Int /\ r * n \in Int
  OBVIOUS
<1>2. 0 <= r /\ r + 1 <= n /\ 0 <= s /\ s + 1 <= n
  OBVIOUS
<1>3. 0 <= r * n
  BY <1>1, <1>2
<1>4. (r + 1) * n <= n * n
  BY <1>1, <1>2
<1>5. (r + 1) * n = r * n + n
  BY <1>1
<1>6. QED
  BY <1>1, <1>2, <1>3, <1>4, <1>5 DEF Square

\* Two pairs of a row and a column do not share a place.
LEMMA PlacesDiffer ==
    ASSUME NEW n \in Nat, NEW r \in 0 .. n - 1, NEW s \in 0 .. n - 1,
           NEW p \in 0 .. n - 1, NEW q \in 0 .. n - 1, r * n + s = p * n + q
    PROVE  r = p /\ s = q
<1>1. n \in Int /\ r \in Int /\ s \in Int /\ p \in Int /\ q \in Int
  OBVIOUS
<1>2. r * n \in Int /\ p * n \in Int
  BY <1>1
<1>3. ASSUME NEW u \in 0 .. n - 1, NEW v \in 0 .. n - 1, u < v PROVE u * n + n <= v * n
  <2>1. u \in Int /\ v \in Int /\ u + 1 <= v /\ 0 <= n
    BY <1>3
  <2>2. (u + 1) * n <= v * n
    BY <1>1, <2>1
  <2>3. (u + 1) * n = u * n + n
    BY <1>1, <2>1
  <2>4. QED
    BY <2>2, <2>3
<1>4. ~(r < p)
  <2>1. SUFFICES ASSUME r < p PROVE FALSE
    OBVIOUS
  <2>2. r * n + n <= p * n
    BY <1>3, <2>1
  <2>3. QED
    BY <1>1, <1>2, <2>2
<1>5. ~(p < r)
  <2>1. SUFFICES ASSUME p < r PROVE FALSE
    OBVIOUS
  <2>2. p * n + n <= r * n
    BY <1>3, <2>1
  <2>3. QED
    BY <1>1, <1>2, <2>2
<1>6. r = p
  BY <1>1, <1>4, <1>5
<1>7. QED
  BY <1>1, <1>2, <1>6

\* Every place of a square that fits the copies is in them.
LEMMA FittingSquare ==
    ASSUME NEW n \in Nat, n <= Cap, NEW x \in Square(n)
    PROVE  x < Cap * Cap
<1>1. Cap \in Nat /\ n \in Nat /\ x \in Int /\ n * n \in Int /\ Cap * Cap \in Int
  BY KernelAssumption DEF Square
<1>2. n * n <= n * Cap /\ n * Cap <= Cap * Cap
  BY <1>1
<1>3. QED
  BY <1>1, <1>2 DEF Square

\* The last row of a larger one is not.
LEMMA LastRowIsOut ==
    ASSUME NEW n \in Nat, n > Cap, NEW s \in 0 .. n - 1
    PROVE  ~((n - 1) * n + s < Cap * Cap)
<1>1. Cap \in Nat /\ n \in Nat /\ Cap <= n - 1 /\ Cap <= n
  BY KernelAssumption
<1>2. Cap * Cap <= Cap * n /\ Cap * n <= (n - 1) * n
  BY <1>1
<1>3. Cap * Cap \in Int /\ Cap * n \in Int /\ (n - 1) * n \in Int /\ s \in Int /\ 0 <= s
  BY <1>1
<1>4. QED
  BY <1>2, <1>3

\* The distance of the numbers near x is a positive one.
LEMMA UlpPositive == ASSUME NEW x \in Nat, NEW L \in Nat PROVE Ulp(x, L) \in Nat \ {0}
<1> DEFINE least == {u \in Ulps : /\ x <= L * u
                                  /\ \A v \in Ulps : x <= L * v => u <= v}
<1>1. least \subseteq Nat \ {0}
  BY KernelAssumption
<1>2. CASE least = {}
  BY <1>2 DEF Ulp
<1>3. CASE least # {}
  <2>1. Ulp(x, L) = CHOOSE u \in least : TRUE
    BY <1>3 DEF Ulp
  <2>2. (CHOOSE u \in least : TRUE) \in least
    <3> HIDE DEF least
    <3>1. QED
      BY <1>3
  <2>3. QED
    BY <1>1, <2>1, <2>2
<1>4. QED
  BY <1>2, <1>3

\* What a float holds exactly is in the range of int.
LEMMA ExactIsInt == ASSUME NEW x \in Nat, x <= Exact PROVE x % Modulus = x
<1>1. Exact \in Nat /\ Modulus \in Nat /\ Exact < Modulus
  BY KernelAssumption
<1>2. x < Modulus /\ 0 <= x
  BY <1>1
<1>3. QED
  BY <1>1, <1>2

\* Rounding keeps a natural number one, and a small one as it is.
LEMMA RoundType ==
    ASSUME NEW x \in Nat, NEW L \in Nat
    PROVE  Round(x, L) \in Nat /\ (x <= L => Round(x, L) = x)
<1>1. CASE x <= L
  BY <1>1 DEF Round
<1>2. CASE ~(x <= L)
  <2>1. PICK u \in Nat \ {0} : u = Ulp(x, L)
    BY UlpPositive
  <2>2. PICK q \in Nat : q = x \div u
    BY <2>1
  <2>3. q * u \in Nat /\ (q + 1) * u \in Nat
    BY <2>1, <2>2
  <2>4. Nearest(x, u) \in {q * u, (q + 1) * u}
    BY <2>2 DEF Nearest
  <2>5. Round(x, L) = Nearest(x, u)
    BY <1>2, <2>1 DEF Round
  <2>6. QED
    BY <1>2, <2>3, <2>4, <2>5
<1>3. QED
  BY <1>1, <1>2

\* So do both formats.
LEMMA FloatType ==
    ASSUME NEW x \in Nat
    PROVE  /\ Float(x) \in Nat /\ (x <= Exact => Float(x) = x)
           /\ Double(x) \in Nat /\ (x <= Wide => Double(x) = x)
BY RoundType, KernelAssumption DEF Float, Double

------------------------------------------------------------------------------
(* The invariant. *)

\* main's matrices have their places filled, and c with 0.
LEMMA KernelInit == Init => KernelInv
<1> SUFFICES ASSUME Init PROVE KernelInv
  OBVIOUS
<1>1. NB \in Sides /\ NB \in Nat \ {0} /\ NB * NB \in Nat /\ NB * NB <= Places
  BY KernelAssumption DEF Init
<1>2. Square(NB) \subseteq 0 .. Places - 1
  BY <1>1, KernelAssumption DEF Square
<1>3. ASSUME NEW f \in Fillings
      PROVE  [x \in Square(NB) |-> f[x]] \in [Square(NB) -> 0 .. Exact]
  <2>1. f \in [0 .. Places - 1 -> 0 .. Exact]
    BY KernelAssumption
  <2>2. QED
    BY <1>2, <2>1
<1>4. a \in [Square(NB) -> 0 .. Exact] /\ b \in [Square(NB) -> 0 .. Exact]
  BY <1>3 DEF Init
<1>5. c \in [Square(NB) -> Nat] /\ \A x \in Square(NB) : c[x] = 0
  BY DEF Init
<1>6. TypeOK
  <2>1. i = 0 /\ j = 0 /\ k = 0 /\ tmp = 0 /\ written = 0 /\ stray = {}
    BY DEF Init
  <2>2. 0 \in 0 .. NB /\ 0 \in 0 .. NB * NB /\ 0 \in Nat
    BY <1>1
  <2>3. i \in 0 .. NB /\ j \in 0 .. NB /\ k \in 0 .. NB /\ tmp \in Nat
        /\ written \in 0 .. NB * NB /\ stray \subseteq Square(NB)
    BY <2>1, <2>2
  <2>4. pc = "ecall" /\ big = FALSE /\ lost = FALSE
    BY DEF Init
  <2>5. QED
    BY <1>1, <1>4, <1>5, <2>3, <2>4 DEF TypeOK
<1>7. Progress /\ Precise
  BY <1>5 DEF Init, Progress, Precise
<1>8. Strays
  BY DEF Init, Strays
<1>9. QED
  BY <1>6, <1>7, <1>8 DEF KernelInv

\* One round of the k loop: what it reads and where.
LEMMA RoundReads ==
    ASSUME TypeOK, Accumulate
    PROVE  /\ tmp' \in Nat /\ big' \in BOOLEAN
           /\ ~big' => ~big /\ tmp' <= Exact
           /\ NB <= Cap =>
                /\ stray' = stray
                /\ \E p \in Nat :
                      /\ p = a[i * NB + k] * b[k * NB + j]
                      /\ tmp' = Double(tmp + Float(p))
                      /\ ~big' => p <= Exact /\ tmp' = tmp + Float(p)
<1>1. NB \in Nat /\ i \in 0 .. NB - 1 /\ j \in 0 .. NB - 1 /\ k \in 0 .. NB - 1
  BY KernelAssumption DEF TypeOK, Accumulate
<1>2. PICK x \in Read(a, i * NB + k), y \in Read(b, k * NB + j) :
        /\ tmp' = Double(tmp + Float(x * y))
        /\ big' = (big \/ x * y > Exact \/ tmp + Float(x * y) > Exact)
  BY DEF Accumulate
<1>3. i * NB + k \in Square(NB) /\ k * NB + j \in Square(NB)
  BY <1>1, PlaceInSquare
<1>4. a[i * NB + k] \in Nat /\ b[k * NB + j] \in Nat
  <2>1. a \in [Square(NB) -> 0 .. Exact] /\ b \in [Square(NB) -> 0 .. Exact]
    BY DEF TypeOK
  <2>2. a[i * NB + k] \in 0 .. Exact /\ b[k * NB + j] \in 0 .. Exact
    BY <1>3, <2>1
  <2>3. QED
    BY <2>2, KernelAssumption
<1>5. x \in Nat /\ y \in Nat
  BY <1>4, KernelAssumption DEF Read
<1>6. x * y \in Nat
  BY <1>5
<1>7. PICK s \in Nat : s = tmp + Float(x * y)
  <2>1. Float(x * y) \in Nat /\ tmp \in Nat
    BY <1>6, FloatType DEF TypeOK
  <2>2. QED
    BY <2>1
<1>8. tmp' \in Nat /\ big' \in BOOLEAN /\ tmp' = Double(s)
  BY <1>2, <1>7, FloatType DEF TypeOK
<1>9. ~big' => ~big /\ tmp' = s /\ s <= Exact /\ x * y <= Exact
  <2>1. ~big' => ~big /\ ~(x * y > Exact) /\ ~(s > Exact)
    BY <1>2, <1>7
  <2>2. Exact \in Nat /\ Wide \in Nat /\ Exact <= Wide /\ x * y \in Nat
    BY <1>6, KernelAssumption
  <2>3. (~(x * y > Exact) => x * y <= Exact) /\ (~(s > Exact) => s <= Exact /\ s <= Wide)
    BY <1>7, <2>2
  <2>4. s <= Wide => tmp' = s
    BY <1>7, <1>8, FloatType
  <2>5. QED
    BY <2>1, <2>3, <2>4
<1>10. ASSUME NB <= Cap
       PROVE  stray' = stray /\ x = a[i * NB + k] /\ y = b[k * NB + j]
  <2>1. i * NB + k < Cap * Cap /\ k * NB + j < Cap * Cap
    BY <1>1, <1>3, <1>10, FittingSquare
  <2>2. QED
    BY <2>1 DEF Read, Accumulate
<1>11. QED
  BY <1>2, <1>6, <1>7, <1>8, <1>9, <1>10

\* Every step keeps the counters, the cells and the strays in order.
LEMMA KernelNext == KernelInv /\ [Next]_vars => KernelInv'
<1> SUFFICES ASSUME KernelInv, [Next]_vars PROVE KernelInv'
  OBVIOUS
<1>1. TypeOK /\ Progress /\ Precise /\ Strays
  BY DEF KernelInv
<1>2. NB \in Nat \ {0} /\ Exact \in Nat
  BY <1>1, KernelAssumption DEF TypeOK
<1>3. CASE UNCHANGED vars
  BY <1>1, <1>3
     DEF KernelInv, TypeOK, Progress, Precise, Strays, vars, inputs, history
<1>4. CASE Enter
  <2>1. TypeOK'
    BY <1>1, <1>4 DEF TypeOK, Enter, inputs, history
  <2>2. Progress'
    <3>1. i = 0 /\ written = 0 /\ i' = i /\ written' = written /\ NB' = NB /\ c' = c
      BY <1>1, <1>4 DEF Progress, Enter, inputs, history
    <3>2. written' = i' * NB'
      BY <1>2, <3>1
    <3>3. QED
      BY <1>1, <1>4, <3>1, <3>2 DEF Progress, Enter
  <2>3. Precise' /\ Strays'
    BY <1>1, <1>4 DEF Precise, Strays, Enter, inputs, history
  <2>4. QED
    BY <2>1, <2>2, <2>3 DEF KernelInv
<1>5. CASE EcallFails \/ LastRow
  <2>1. TypeOK'
    BY <1>1, <1>5 DEF TypeOK, EcallFails, LastRow, inputs, history
  <2>2. Progress' /\ Precise' /\ Strays'
    BY <1>1, <1>5 DEF Progress, Precise, Strays, EcallFails, LastRow, inputs, history
  <2>3. QED
    BY <2>1, <2>2 DEF KernelInv
<1>6. CASE NextRow
  <2>1. j' = 0 /\ i' = i /\ written' = written /\ NB' = NB /\ c' = c /\ pc' = "j" /\ i < NB
    BY <1>6 DEF NextRow, inputs, history
  <2>2. TypeOK'
    <3>1. j' \in 0 .. NB'
      BY <1>2, <2>1
    <3>2. QED
      BY <1>1, <1>6, <2>1, <3>1 DEF TypeOK, NextRow, inputs, history
  <2>3. Progress'
    <3>1. written = i * NB
      BY <1>1, <1>6 DEF Progress, NextRow
    <3>2. i * NB \in Int
      BY <1>1, <1>2 DEF TypeOK
    <3>3. written' = i' * NB' + j'
      BY <2>1, <3>1, <3>2
    <3>4. QED
      BY <1>1, <2>1, <3>3 DEF Progress
  <2>4. Precise' /\ Strays'
    BY <1>1, <1>6, <2>1 DEF Precise, Strays, NextRow, inputs, history
  <2>5. QED
    BY <2>2, <2>3, <2>4 DEF KernelInv
<1>7. CASE NextCell
  <2>1. /\ tmp' = c[i * NB + j] /\ k' = 0 /\ pc' = "k" /\ pc = "j" /\ i' = i /\ j' = j
        /\ c' = c /\ NB' = NB /\ written' = written /\ stray' = stray
    BY <1>7 DEF NextCell, inputs, history
  <2>2. i \in 0 .. NB - 1 /\ j \in 0 .. NB - 1
    BY <1>1, <1>2, <1>7 DEF TypeOK, NextCell
  <2>3. i * NB + j \in Square(NB) /\ i * NB + j \in Nat
    BY <1>2, <2>2, PlaceInSquare
  <2>4. written = i * NB + j
    BY <1>1, <2>1 DEF Progress
  <2>5. tmp' = 0
    BY <1>1, <2>1, <2>3, <2>4 DEF Progress
  <2>6. TypeOK'
    <3>1. tmp' \in Nat /\ k' \in 0 .. NB' /\ j' < NB' /\ i' < NB'
      BY <1>2, <2>1, <2>2, <2>5
    <3>2. QED
      BY <1>1, <1>7, <2>1, <3>1 DEF TypeOK, NextCell, inputs, history
  <2>7. Progress'
    BY <1>1, <2>1, <2>4 DEF Progress
  <2>8. Precise'
    BY <1>2, <2>5 DEF Precise
  <2>9. Strays'
    BY <1>1, <1>2, <2>1 DEF Strays
  <2>10. QED
    BY <2>6, <2>7, <2>8, <2>9 DEF KernelInv
<1>8. CASE LastCell
  <2>1. /\ i' = i + 1 /\ pc' = "i" /\ pc = "j" /\ j' = j /\ c' = c /\ NB' = NB
        /\ written' = written /\ ~(j < NB)
    BY <1>8 DEF LastCell, inputs, history
  <2>2. i \in 0 .. NB - 1 /\ j = NB
    BY <1>1, <1>2, <2>1 DEF TypeOK
  <2>3. TypeOK'
    <3>1. i' \in 0 .. NB'
      BY <1>2, <2>1, <2>2
    <3>2. QED
      BY <1>1, <1>8, <2>1, <3>1 DEF TypeOK, LastCell, inputs, history
  <2>4. Progress'
    <3>1. written = i * NB + NB
      BY <1>1, <2>1, <2>2 DEF Progress
    <3>2. (i + 1) * NB = i * NB + NB
      BY <1>2, <2>2
    <3>3. written' = i' * NB'
      BY <2>1, <3>1, <3>2
    <3>4. QED
      BY <1>1, <2>1, <3>3 DEF Progress
  <2>5. Precise' /\ Strays'
    BY <1>1, <1>8, <2>1 DEF Precise, Strays, LastCell, inputs, history
  <2>6. QED
    BY <2>3, <2>4, <2>5 DEF KernelInv
<1>9. CASE Accumulate
  <2>1. /\ pc = "k" /\ pc' = "k" /\ k < NB /\ k' = k + 1 /\ i' = i /\ j' = j /\ c' = c
        /\ NB' = NB /\ a' = a /\ b' = b /\ written' = written /\ lost' = lost
        /\ stray' = IF i * NB + k < Cap * Cap /\ k * NB + j < Cap * Cap
                    THEN stray ELSE stray \union {i * NB + j}
    BY <1>9 DEF Accumulate, inputs
  <2>2. i \in 0 .. NB - 1 /\ j \in 0 .. NB - 1 /\ k \in 0 .. NB - 1
    BY <1>1, <1>2, <2>1 DEF TypeOK
  <2>3. i * NB + j \in Square(NB)
    BY <1>2, <2>2, PlaceInSquare
  <2>4. tmp' \in Nat /\ big' \in BOOLEAN /\ (~big' => tmp' <= Exact)
        /\ (NB <= Cap => stray' = stray)
    BY <1>1, <1>9, RoundReads
  <2>5. TypeOK'
    <3>1. k' \in 0 .. NB'
      BY <1>2, <2>1, <2>2
    <3>2. stray' \subseteq Square(NB')
      BY <1>1, <2>1, <2>3 DEF TypeOK
    <3>3. QED
      BY <1>1, <2>1, <2>4, <3>1, <3>2 DEF TypeOK
  <2>6. Progress'
    BY <1>1, <2>1 DEF Progress
  <2>7. Precise'
    BY <2>4 DEF Precise
  <2>8. Strays'
    <3>1. CASE NB <= Cap
      BY <1>1, <2>1, <2>4, <3>1, KernelAssumption, <1>2 DEF Strays
    <3>2. CASE NB > Cap
      <4>1. stray \subseteq stray'
        BY <2>1
      <4>2. ASSUME k' = NB PROVE i * NB + j \in stray'
        <5>1. k = NB - 1
          BY <1>2, <2>1, <2>2, <4>2
        <5>2. ~(k * NB + j < Cap * Cap)
          BY <1>2, <2>2, <3>2, <5>1, LastRowIsOut
        <5>3. QED
          BY <2>1, <5>2
      <4>3. NB' > Cap /\ ~(NB' <= Cap)
        BY <1>2, <2>1, <3>2, KernelAssumption
      <4>4. QED
        BY <1>1, <2>1, <3>2, <4>1, <4>2, <4>3 DEF Strays
    <3>3. QED
      BY <1>2, <3>1, <3>2, KernelAssumption
  <2>9. QED
    BY <2>5, <2>6, <2>7, <2>8 DEF KernelInv
<1>10. CASE LastProduct
  <2>1. /\ pc = "k" /\ pc' = "j" /\ ~(k < NB) /\ j' = j + 1 /\ written' = written + 1
        /\ c' = [c EXCEPT ![i * NB + j] = Float(tmp)]
        /\ i' = i /\ k' = k /\ NB' = NB /\ a' = a /\ b' = b /\ tmp' = tmp
        /\ big' = big /\ stray' = stray /\ lost' = lost
    BY <1>10 DEF LastProduct, inputs
  <2>2. i \in 0 .. NB - 1 /\ j \in 0 .. NB - 1 /\ k = NB /\ i < NB
    BY <1>1, <1>2, <2>1 DEF TypeOK
  <2>3. i * NB + j \in Square(NB) /\ i * NB + j \in Nat /\ NB * NB \in Nat
    BY <1>2, <2>2, PlaceInSquare
  <2>4. written = i * NB + j
    BY <1>1, <2>1 DEF Progress
  <2>5. Float(tmp) \in Nat
    BY <1>1, FloatType DEF TypeOK
  <2>6. TypeOK'
    <3>1. j' \in 0 .. NB'
      BY <1>2, <2>1, <2>2
    <3>2. written' \in 0 .. NB' * NB'
      BY <2>1, <2>3, <2>4 DEF Square
    <3>3. c' \in [Square(NB') -> Nat]
      BY <1>1, <2>1, <2>5 DEF TypeOK
    <3>4. QED
      BY <1>1, <2>1, <2>2, <3>1, <3>2, <3>3 DEF TypeOK
  <2>7. Progress'
    <3>1. i * NB \in Int /\ j \in Int
      BY <1>2, <2>2
    <3>2. written' = i' * NB' + j'
      BY <2>1, <2>4, <3>1
    <3>3. ASSUME NEW x \in Square(NB), written + 1 <= x PROVE c'[x] = 0
      <4>1. x # i * NB + j /\ written <= x
        BY <2>3, <2>4, <3>3 DEF Square
      <4>2. c'[x] = c[x]
        BY <1>1, <2>1, <4>1 DEF TypeOK
      <4>3. QED
        BY <1>1, <4>1, <4>2 DEF Progress
    <3>4. QED
      BY <2>1, <3>2, <3>3 DEF Progress
  <2>8. Precise'
    BY <2>1 DEF Precise
  <2>9. Strays'
    <3>1. ASSUME NB > Cap, NEW x \in 0 .. written PROVE x \in stray
      <4>1. x = i * NB + j \/ x \in 0 .. written - 1
        BY <2>3, <2>4
      <4>2. QED
        BY <1>1, <2>1, <2>2, <3>1, <4>1 DEF Strays
    <3>2. 0 .. written' - 1 = 0 .. written
      BY <2>1, <2>3, <2>4
    <3>3. QED
      BY <1>1, <2>1, <3>1, <3>2 DEF Strays
  <2>10. QED
    BY <2>6, <2>7, <2>8, <2>9 DEF KernelInv
<1>11. QED
  BY <1>3, <1>4, <1>5, <1>6, <1>7, <1>8, <1>9, <1>10 DEF Next

\* KernelInv holds in every state of every behaviour.
THEOREM KernelInductive == Spec => []KernelInv
BY KernelInit, KernelNext, PTL DEF Spec

\* The counters stay inside the matrices, however large they are.
THEOREM KernelTypes == Spec => []TypeOK
<1>1. KernelInv => TypeOK
  BY DEF KernelInv
<1>2. QED
  BY <1>1, KernelInductive, PTL

\* An NB up to Cap lets no cell read past a copy, a larger one every cell.
THEOREM StraysAreAllOrNone == Spec => []AllOrNoneStray
<1>1. KernelInv => AllOrNoneStray
  <2> SUFFICES ASSUME KernelInv, NEW x \in 0 .. written - 1 PROVE x \in stray <=> NB > Cap
    BY DEF AllOrNoneStray
  <2>1. NB \in Nat /\ Cap \in Nat
    BY KernelAssumption DEF KernelInv, TypeOK
  <2>2. NB <= Cap \/ NB > Cap
    BY <2>1
  <2>3. NB <= Cap => ~(NB > Cap)
    BY <2>1
  <2>4. QED
    BY <2>2, <2>3 DEF KernelInv, Strays
<1>2. QED
  BY <1>1, KernelInductive, PTL

------------------------------------------------------------------------------
(* The refinement. *)

\* The place of the loops in mat_multiply_no_sgx
PlainPc == CASE pc = "ecall" -> "i" [] pc = "print" -> "done" [] OTHER -> pc

\* As long as the ecall lives, NB fits and the floats are exact, a step is one of
\* mat_multiply_no_sgx or changes nothing that it has.
LEMMA StepFollowsPlain ==
    ASSUME KernelInv, [Next]_vars, NEW n \in Sides, NB = n, n <= Cap, ~lost', ~big'
    PROVE  [Plain(n)!Next]_(Plain(n)!vars)
<1>1. TypeOK /\ Progress /\ Precise /\ n \in Nat \ {0} /\ Exact \in Nat
  BY KernelAssumption DEF KernelInv
<1>2. CASE UNCHANGED vars
  BY <1>2 DEF vars, inputs, history, Plain!vars, Rows, Partial
<1>3. CASE Enter
  BY <1>3 DEF Enter, inputs, history, Plain!vars, Rows, Partial
<1>4. CASE EcallFails
  BY <1>4 DEF EcallFails
<1>5. CASE NextRow
  BY <1>5 DEF NextRow, inputs, history, Plain!Next, Plain!NextRow, Rows, Partial
<1>6. CASE LastRow
  BY <1>6 DEF LastRow, inputs, history, Plain!Next, Plain!LastRow, Rows, Partial
<1>7. CASE LastCell
  BY <1>7 DEF LastCell, inputs, history, Plain!Next, Plain!LastCell, Rows, Partial
<1>8. CASE NextCell
  <2>1. /\ tmp' = c[i * n + j] /\ k' = 0 /\ pc' = "k" /\ pc = "j" /\ i' = i /\ j' = j
        /\ c' = c /\ a' = a /\ b' = b /\ j < n
    BY <1>8 DEF NextCell, inputs
  <2>2. i \in 0 .. n - 1 /\ j \in 0 .. n - 1
    BY <1>1, <2>1 DEF TypeOK
  <2>3. tmp' = 0
    <3>1. i * n + j \in Square(n) /\ i * n + j \in Nat
      BY <1>1, <2>2, PlaceInSquare
    <3>2. written = i * n + j
      BY <1>1, <2>1 DEF Progress
    <3>3. QED
      BY <1>1, <2>1, <3>1, <3>2 DEF Progress
  <2>4. Partial(n)' = [Partial(n) EXCEPT ![i][j] = 0]
    BY <2>1, <2>2, <2>3 DEF Partial
  <2>5. Rows(a, n)' = Rows(a, n) /\ Rows(b, n)' = Rows(b, n)
    BY <2>1 DEF Rows
  <2>6. PlainPc = "j" /\ PlainPc' = "k"
    BY <2>1 DEF PlainPc
  <2>7. Plain(n)!NextCell
    BY <2>1, <2>4, <2>5, <2>6 DEF Plain!NextCell, PlainPc
  <2>8. QED
    BY <2>7 DEF Plain!Next
<1>9. CASE Accumulate
  <2>1. /\ pc = "k" /\ pc' = "k" /\ k < n /\ k' = k + 1 /\ i' = i /\ j' = j /\ c' = c
        /\ a' = a /\ b' = b
    BY <1>9 DEF Accumulate, inputs
  <2>2. i \in 0 .. n - 1 /\ j \in 0 .. n - 1 /\ k \in 0 .. n - 1
    BY <1>1, <2>1 DEF TypeOK
  <2>3. PICK p \in Nat : p = a[i * n + k] * b[k * n + j] /\ tmp' = tmp + Float(p)
                         /\ p <= Exact
    BY <1>1, <1>9, RoundReads
  <2>4. tmp' <= Exact /\ tmp' \in Nat /\ tmp \in Nat
    BY <1>1, <1>9, RoundReads DEF TypeOK
  <2>5. tmp' = tmp + p
    BY <2>3, FloatType
  <2>6. Plain(n)!Mult(Rows(a, n)[i][k], Rows(b, n)[k][j]) = p
    <3>1. Rows(a, n)[i][k] * Rows(b, n)[k][j] = p
      BY <2>2, <2>3 DEF Rows
    <3>2. p % Modulus = p
      BY <2>3, ExactIsInt
    <3>3. QED
      BY <3>1, <3>2 DEF Plain!Mult
  <2>7. Partial(n)[i][j] = tmp
    BY <2>1, <2>2 DEF Partial
  <2>8. Plain(n)!Add(tmp, p) = tmp'
    <3>1. tmp' % Modulus = tmp'
      BY <2>4, ExactIsInt
    <3>2. QED
      BY <2>5, <3>1 DEF Plain!Add
  <2>9. Partial(n)' = [Partial(n) EXCEPT ![i][j] = tmp']
    BY <2>1, <2>2 DEF Partial
  <2>10. Partial(n)' = [Partial(n) EXCEPT ![i][j] =
                Plain(n)!Add(@, Plain(n)!Mult(Rows(a, n)[i][k], Rows(b, n)[k][j]))]
    BY <2>6, <2>7, <2>8, <2>9
  <2>11. Rows(a, n)' = Rows(a, n) /\ Rows(b, n)' = Rows(b, n)
    BY <2>1 DEF Rows
  <2>12. PlainPc = "k" /\ PlainPc' = "k"
    BY <2>1 DEF PlainPc
  <2>13. Plain(n)!Accumulate
    BY <2>1, <2>10, <2>11, <2>12 DEF Plain!Accumulate, PlainPc
  <2>14. QED
    BY <2>13 DEF Plain!Next
<1>10. CASE LastProduct
  <2>1. /\ pc = "k" /\ pc' = "j" /\ ~(k < n) /\ j' = j + 1 /\ i' = i /\ k' = k
        /\ c' = [c EXCEPT ![i * n + j] = Float(tmp)] /\ a' = a /\ b' = b /\ big' = big
    BY <1>10 DEF LastProduct, inputs
  <2>2. i \in 0 .. n - 1 /\ j \in 0 .. n - 1
    BY <1>1, <2>1 DEF TypeOK
  <2>3. Float(tmp) = tmp
    BY <1>1, <2>1, FloatType DEF Precise, TypeOK
  <2>4. ASSUME NEW r \in 0 .. n - 1, NEW s \in 0 .. n - 1
        PROVE  c'[r * n + s] = IF r = i /\ s = j THEN tmp ELSE c[r * n + s]
    <3>1. r * n + s \in Square(n)
      BY <1>1, PlaceInSquare
    <3>2. r * n + s = i * n + j => r = i /\ s = j
      BY <1>1, <2>2, PlacesDiffer
    <3>3. c \in [Square(n) -> Nat]
      BY <1>1 DEF TypeOK
    <3>4. c'[r * n + s] = IF r * n + s = i * n + j THEN tmp ELSE c[r * n + s]
      BY <2>1, <2>3, <3>1, <3>3
    <3>5. CASE r = i /\ s = j
      BY <3>4, <3>5
    <3>6. CASE ~(r = i /\ s = j)
      BY <3>2, <3>4, <3>6
    <3>7. QED
      BY <3>5, <3>6
  <2>5. Partial(n)' = Partial(n)
    BY <2>1, <2>4 DEF Partial
  <2>6. Rows(a, n)' = Rows(a, n) /\ Rows(b, n)' = Rows(b, n)
    BY <2>1 DEF Rows
  <2>7. PlainPc = "k" /\ PlainPc' = "j"
    BY <2>1 DEF PlainPc
  <2>8. Plain(n)!LastProduct
    BY <2>1, <2>5, <2>6, <2>7 DEF Plain!LastProduct, PlainPc
  <2>9. QED
    BY <2>8 DEF Plain!Next
<1>11. QED
  BY <1>2, <1>3, <1>4, <1>5, <1>6, <1>7, <1>8, <1>9, <1>10 DEF Next

\* ecall_matmul_u implements mat_multiply_no_sgx for as long as the ecall lives, NB
\* fits the copies and the floats are exact.
THEOREM KernelFollowsPlain == Spec => FollowsPlain
<1>1. KernelInv /\ [Next]_vars =>
        [\A n \in Sides :
           NB = n /\ n <= Cap /\ ~lost' /\ ~big' => [Plain(n)!Next]_(Plain(n)!vars)]_vars
  BY StepFollowsPlain
<1>2. QED
  BY <1>1, KernelInductive, PTL DEF Spec, FollowsPlain

------------------------------------------------------------------------------
(* Rounding. *)

\* The numbers of a format reach as far as x.
InRange(x, L) == \E u \in Ulps : x <= L * u

\* Rounding to a multiple of u is off by no more than half of it.
LEMMA NearestIsNear ==
    ASSUME NEW x \in Nat, NEW u \in Nat \ {0}
    PROVE  /\ Nearest(x, u) \in Nat
           /\ 2 * (Nearest(x, u) - x) <= u /\ 2 * (x - Nearest(x, u)) <= u
<1> DEFINE q == x \div u
           r == x % u
<1>1. x = u * q + r /\ r \in 0 .. u - 1 /\ q \in Int
  BY DivisionIsExact
<1>2. Nearest(x, u) = IF 2 * r < u \/ (2 * r = u /\ q % 2 = 0) THEN q * u ELSE (q + 1) * u
  BY DEF Nearest
<1> HIDE DEF q, r
<1>3. q * u \in Nat /\ (q + 1) * u = q * u + u /\ x = q * u + r
  <2>1. q <= -1 => u * q <= -u
    BY <1>1
  <2>2. q \in Nat
    BY <1>1, <2>1
  <2>3. QED
    BY <1>1, <2>2
<1>4. CASE 2 * r < u \/ (2 * r = u /\ q % 2 = 0)
  <2>1. Nearest(x, u) = q * u /\ 2 * r <= u
    BY <1>1, <1>2, <1>4
  <2>2. QED
    BY <1>1, <1>3, <2>1
<1>5. CASE ~(2 * r < u \/ (2 * r = u /\ q % 2 = 0))
  <2>1. Nearest(x, u) = (q + 1) * u /\ u <= 2 * r
    BY <1>1, <1>2, <1>5
  <2>2. QED
    BY <1>1, <1>3, <2>1
<1>6. QED
  BY <1>4, <1>5

\* The distance of the numbers at x is not twice as large as it has to be.
LEMMA UlpIsTight ==
    ASSUME NEW x \in Nat, NEW L \in Nat, x > L, InRange(x, L)
    PROVE  L * Ulp(x, L) < 2 * x
<1> DEFINE T == {u \in Ulps : x <= L * u}
           least == {u \in Ulps : /\ x <= L * u
                                  /\ \A v \in Ulps : x <= L * v => u <= v}
<1>1. L \in Nat /\ Ulps \subseteq Nat
  BY KernelAssumption
<1>2. PICK u \in T : \A v \in T : u <= v
  <2>1. T \subseteq Nat /\ T # {}
    BY <1>1 DEF InRange
  <2>2. QED
    BY <2>1, LeastOf
<1>3. least = {u}
  <2>1. u \in least
    BY <1>2
  <2>2. ASSUME NEW v \in least PROVE v = u
    <3>1. v \in T /\ v <= u /\ u <= v /\ u \in Nat /\ v \in Nat
      BY <1>1, <1>2, <2>1, <2>2
    <3>2. QED
      BY <3>1
  <2>3. QED
    BY <2>1, <2>2
<1>4. Ulp(x, L) = u
  BY <1>3 DEF Ulp
<1>5. u # 1 /\ u \in Ulps
  BY <1>1, <1>2
<1>6. PICK v \in Ulps : u = 2 * v
  BY <1>5, KernelAssumption
<1>7. v \in Nat \ {0} /\ v < u
  BY <1>1, <1>6, KernelAssumption
<1>8. ~(x <= L * v)
  BY <1>1, <1>2, <1>5, <1>7
<1>9. L * v < x /\ L * v \in Nat
  BY <1>1, <1>7, <1>8
<1>10. L * u = 2 * (L * v)
  BY <1>1, <1>6, <1>7
<1>11. QED
  BY <1>4, <1>9, <1>10

\* A rounding is off by no more than one part in L.
LEMMA RoundIsClose ==
    ASSUME NEW x \in Nat, NEW L \in Nat, InRange(x, L)
    PROVE  L * (Round(x, L) - x) <= x /\ L * (x - Round(x, L)) <= x
<1>1. L \in Nat /\ Round(x, L) \in Nat
  BY RoundType
<1>2. CASE x <= L
  <2>1. Round(x, L) = x
    BY <1>2 DEF Round
  <2>2. x - x = 0 /\ L * 0 = 0
    BY <1>1
  <2>3. QED
    BY <2>1, <2>2
<1>3. CASE x > L
  <2>1. PICK u \in Nat \ {0} : u = Ulp(x, L)
    BY UlpPositive
  <2>2. Round(x, L) = Nearest(x, u)
    BY <1>1, <1>3, <2>1 DEF Round
  <2>3. 2 * (Round(x, L) - x) <= u /\ 2 * (x - Round(x, L)) <= u
    BY <2>2, NearestIsNear
  <2>4. L * u < 2 * x
    BY <1>3, <2>1, UlpIsTight
  <2>5. ASSUME NEW d \in Int, 2 * d <= u PROVE L * d <= x
    <3>1. L * (2 * d) <= L * u
      BY <1>1, <2>5
    <3>2. L * (2 * d) = 2 * (L * d) /\ L * d \in Int
      BY <1>1
    <3>3. L * u \in Int
      BY <1>1
    <3>4. QED
      BY <2>4, <3>1, <3>2, <3>3
  <2>6. Round(x, L) - x \in Int /\ x - Round(x, L) \in Int
    BY <1>1
  <2>7. QED
    BY <2>3, <2>5, <2>6
<1>4. QED
  BY <1>1, <1>2, <1>3

------------------------------------------------------------------------------
(* The cells. *)

\* Every place has a row and a column.
LEMMA RowAndColumn ==
    ASSUME NEW n \in Nat \ {0}, NEW x \in Square(n)
    PROVE  x \div n \in 0 .. n - 1 /\ x % n \in 0 .. n - 1
<1> DEFINE q == x \div n
           t == x % n
<1>1. x \in Nat /\ x < n * n /\ n * n \in Int
  BY DEF Square
<1>2. x = n * q + t /\ t \in 0 .. n - 1 /\ q \in Int
  BY <1>1, DivisionIsExact
<1> HIDE DEF q, t
<1>3. (q <= -1 => n * q <= -n) /\ (q >= n => n * q >= n * n)
  BY <1>2
<1>4. n * q \in Int
  BY <1>2
<1>5. q \in 0 .. n - 1
  BY <1>1, <1>2, <1>3, <1>4
<1>6. QED
  BY <1>2, <1>5 DEF q, t

\* The terms of a cell are products of two elements.
LEMMA TermsOfCell ==
    ASSUME TypeOK, NEW x \in Square(NB), NEW y \in 0 .. NB - 1
    PROVE  /\ Terms(x)[y] \in 0 .. Exact * Exact
           /\ Terms(x)[y] \in Nat
           /\ Products(x)[y] = Float(Terms(x)[y]) /\ Products(x)[y] \in Nat
<1>1. NB \in Nat \ {0} /\ Exact \in Nat
  BY KernelAssumption DEF TypeOK
<1>2. Row(x) \in 0 .. NB - 1 /\ Column(x) \in 0 .. NB - 1
  BY <1>1, RowAndColumn DEF Row, Column
<1>3. Row(x) * NB + y \in Square(NB) /\ y * NB + Column(x) \in Square(NB)
  BY <1>1, <1>2, PlaceInSquare
<1>4. PICK v \in 0 .. Exact, w \in 0 .. Exact :
        v = a[Row(x) * NB + y] /\ w = b[y * NB + Column(x)]
  BY <1>3 DEF TypeOK
<1>5. v * w \in Nat /\ v * w <= v * Exact /\ v * Exact <= Exact * Exact
  BY <1>1
<1>6. v * Exact \in Int /\ Exact * Exact \in Int
  BY <1>1
<1>7. v * w \in 0 .. Exact * Exact
  BY <1>5, <1>6
<1>8. Terms(x)[y] = v * w
  BY <1>4 DEF Terms
<1>9. Products(x)[y] = Float(Terms(x)[y])
  BY DEF Products
<1>10. QED
  BY <1>5, <1>7, <1>8, <1>9, FloatType

\* Both formats reach as far as twice the sums do.
LEMMA RangeOfSums ==
    ASSUME TypeOK, NEW x \in Nat, x <= NB * (4 * (Exact * Exact))
    PROVE  InRange(x, Exact) /\ InRange(x, Wide)
<1>1. PICK u \in Ulps : 4 * Places * Exact <= u
  BY KernelAssumption
<1>2. /\ NB \in Nat \ {0} /\ NB * NB <= Places /\ Places \in Nat
      /\ Exact \in Nat \ {0} /\ u \in Nat /\ Wide \in Nat /\ Exact <= Wide
  BY KernelAssumption DEF TypeOK
<1>3. NB <= NB * NB /\ NB * NB \in Nat
  BY <1>2
<1>4. NB <= Places
  BY <1>2, <1>3
<1>5. PICK e \in Nat : e = 4 * (Exact * Exact)
  BY <1>2
<1>6. NB * e <= Places * e
  BY <1>2, <1>4, <1>5
<1>7. Places * e = Exact * (4 * Places * Exact)
  BY <1>2, <1>5
<1>8. Exact * (4 * Places * Exact) <= Exact * u
  BY <1>1, <1>2
<1>9. Exact * u <= Wide * u
  BY <1>2
<1>10. x <= Exact * u /\ x <= Wide * u
  <2>1. NB * e \in Int /\ Places * e \in Int /\ Exact * u \in Int /\ Wide * u \in Int
    BY <1>2, <1>5
  <2>2. QED
    BY <1>5, <1>6, <1>7, <1>8, <1>9, <2>1
<1>11. QED
  BY <1>10 DEF InRange

\* A product of two elements is off by no more than one part in Exact.
LEMMA ProductIsClose ==
    ASSUME TypeOK, NEW x \in Square(NB), NEW y \in 0 .. NB - 1
    PROVE  /\ Terms(x)[y] \in Nat /\ Products(x)[y] \in 0 .. 2 * (Exact * Exact)
           /\ Exact * (Products(x)[y] - Terms(x)[y]) <= Terms(x)[y]
           /\ Exact * (Terms(x)[y] - Products(x)[y]) <= Terms(x)[y]
<1>1. NB \in Nat \ {0} /\ Exact \in Nat \ {0} /\ 2 * (Exact * Exact) \in Nat
  BY KernelAssumption DEF TypeOK
<1>2. PICK t \in Nat : t = Terms(x)[y] /\ t <= Exact * Exact
  BY <1>1, TermsOfCell
<1>3. PICK p \in Nat : p = Products(x)[y] /\ p = Float(t)
  BY <1>2, TermsOfCell
<1>4. InRange(t, Exact)
  <2>1. PICK e \in Nat : e = 4 * (Exact * Exact) /\ Exact * Exact <= e
    BY <1>1
  <2>2. e <= NB * e
    BY <1>1, <2>1
  <2>3. t <= NB * e
    <3>1. Exact * Exact \in Int /\ NB * e \in Int
      BY <1>1, <2>1
    <3>2. QED
      BY <1>2, <2>1, <2>2, <3>1
  <2>4. QED
    BY <2>1, <2>3, RangeOfSums
<1>5. Exact * (p - t) <= t /\ Exact * (t - p) <= t
  BY <1>1, <1>3, <1>4, RoundIsClose DEF Float
<1>6. p <= 2 * (Exact * Exact)
  <2>1. p - t > 0 => p - t <= Exact * (p - t)
    BY <1>1
  <2>2. Exact * (p - t) \in Int /\ Exact * Exact \in Int
    BY <1>1
  <2>3. p <= t + t
    BY <1>5, <2>1, <2>2
  <2>4. QED
    BY <1>2, <2>2, <2>3
<1>7. QED
  BY <1>1, <1>2, <1>3, <1>5, <1>6

\* So is their sum, and both formats reach as far as twice a part of it.
LEMMA ProductsAreClose ==
    ASSUME TypeOK, NEW x \in Square(NB)
    PROVE  /\ Sum(Products(x), NB) \in Nat /\ Sum(Terms(x), NB) \in Nat
           /\ Exact * (Sum(Products(x), NB) - Sum(Terms(x), NB)) <= Sum(Terms(x), NB)
           /\ Exact * (Sum(Terms(x), NB) - Sum(Products(x), NB)) <= Sum(Terms(x), NB)
           /\ \A m \in 0 .. NB :
                 /\ Sum(Products(x), m) \in Nat
                 /\ \A t \in Nat : t <= 2 * Sum(Products(x), m) =>
                       InRange(t, Exact) /\ InRange(t, Wide)
<1>1. NB \in Nat \ {0} /\ Exact \in Nat \ {0} /\ 2 * (Exact * Exact) \in Nat
  BY KernelAssumption DEF TypeOK
<1>2. \A y \in 0 .. NB - 1 : Products(x)[y] \in Int /\ Terms(x)[y] \in Int
  BY <1>1, ProductIsClose
<1>3. /\ Exact * (Sum(Products(x), NB) - Sum(Terms(x), NB)) <= Sum(Terms(x), NB)
      /\ Exact * (Sum(Terms(x), NB) - Sum(Products(x), NB)) <= Sum(Terms(x), NB)
  BY <1>1, <1>2, ProductIsClose, SumError
<1>4. Sum(Terms(x), NB) \in Nat
  <2>1. \A y \in 0 .. NB - 1 : Terms(x)[y] \in Int /\ Terms(x)[y] >= 0
    BY ProductIsClose
  <2>2. QED
    BY <1>1, <2>1, SumType
<1>5. ASSUME NEW m \in 0 .. NB
      PROVE  /\ Sum(Products(x), m) \in Nat
             /\ \A t \in Nat : t <= 2 * Sum(Products(x), m) =>
                   InRange(t, Exact) /\ InRange(t, Wide)
  <2>1. PICK e \in Nat : e = 2 * (Exact * Exact) /\ 4 * (Exact * Exact) = 2 * e
    BY <1>1
  <2>2. \A y \in 0 .. m - 1 : Products(x)[y] \in 0 .. e
    BY <1>1, <2>1, ProductIsClose
  <2>3. m \in Nat /\ m <= NB
    BY <1>1
  <2>4. Sum(Products(x), m) \in 0 .. m * e
    BY <2>1, <2>2, <2>3, SumBound
  <2>5. m * e <= NB * e /\ NB * (2 * e) = 2 * (NB * e) /\ m * e \in Int /\ NB * e \in Int
    BY <1>1, <2>1, <2>3
  <2>6. ASSUME NEW t \in Nat, t <= 2 * Sum(Products(x), m)
        PROVE  InRange(t, Exact) /\ InRange(t, Wide)
    <3>1. t <= NB * (2 * e)
      BY <2>4, <2>5, <2>6
    <3>2. QED
      BY <2>1, <3>1, RangeOfSums
  <2>7. QED
    BY <2>4, <2>5, <2>6
<1>6. NB \in 0 .. NB
  BY <1>1
<1>7. QED
  BY <1>3, <1>4, <1>5, <1>6

------------------------------------------------------------------------------
(* A sum in a double. *)

\* t is the sum s of n products that a double has: exact as long as it can be, and
\* off by two parts in Wide for each of them else.
Close(t, s, n) ==
    /\ s <= Wide => t = s
    /\ Wide * (t - s) <= 2 * n * s /\ Wide * (s - t) <= 2 * n * s

\* One product more makes it one error more.
LEMMA OneMoreProduct ==
    ASSUME NEW t \in Nat, NEW s \in Nat, NEW p \in Nat, NEW n \in Nat,
           Close(t, s, n), 2 * (n + 1) <= Wide,
           \A z \in Nat : z <= 2 * (s + p) => InRange(z, Wide)
    PROVE  Close(Double(t + p), s + p, n + 1)
<1>1. PICK x \in Nat, S \in Nat, y \in Nat : x = t + p /\ S = s + p /\ y = Double(x)
  <2>1. t + p \in Nat /\ s + p \in Nat
    OBVIOUS
  <2>2. Double(t + p) \in Nat
    BY <2>1, FloatType
  <2>3. QED
    BY <2>1, <2>2
<1>2. Wide \in Nat \ {0} /\ 2 * n <= Wide
  BY KernelAssumption
<1>3. /\ Wide * (t - s) <= 2 * n * s /\ Wide * (s - t) <= 2 * n * s
      /\ 2 * n * s \in Int /\ Wide * (t - s) \in Int /\ Wide * (s - t) \in Int
      /\ Wide * s \in Int /\ 2 * n * S \in Int
  BY <1>1, <1>2 DEF Close
<1>4. 2 * n * s <= Wide * s
  BY <1>2
<1>5. t - s <= s
  <2>1. SUFFICES ASSUME t - s >= s + 1 PROVE FALSE
    OBVIOUS
  <2>2. Wide * (t - s) >= Wide * (s + 1)
    BY <1>2, <2>1
  <2>3. Wide * (s + 1) = Wide * s + Wide
    BY <1>2
  <2>4. QED
    BY <1>2, <1>3, <1>4, <2>2, <2>3
<1>6. x <= 2 * S
  BY <1>1, <1>5
<1>7. Wide * (y - x) <= x /\ Wide * (x - y) <= x
  BY <1>1, <1>2, <1>6, RoundIsClose DEF Double
<1>8. 2 * n * s <= 2 * n * S
  <2>1. 2 * n \in Nat /\ s <= S
    BY <1>1
  <2>2. QED
    BY <2>1
<1>9. 2 * (n + 1) * S = 2 * n * S + 2 * S
  OBVIOUS
<1>10. /\ Wide * (y - S) = Wide * (y - x) + Wide * (t - s)
       /\ Wide * (S - y) = Wide * (x - y) + Wide * (s - t)
  <2>1. y - S = (y - x) + (t - s) /\ S - y = (x - y) + (s - t)
    BY <1>1
  <2>2. ASSUME NEW d \in Int, NEW e \in Int PROVE Wide * (d + e) = Wide * d + Wide * e
    BY <1>2
  <2>3. y - x \in Int /\ x - y \in Int /\ t - s \in Int /\ s - t \in Int
    OBVIOUS
  <2>4. QED
    BY <2>1, <2>2, <2>3
<1>11. Wide * (y - S) <= 2 * (n + 1) * S /\ Wide * (S - y) <= 2 * (n + 1) * S
  <2>1. Wide * (y - x) \in Int /\ Wide * (x - y) \in Int
    BY <1>2
  <2>2. QED
    BY <1>3, <1>6, <1>7, <1>8, <1>9, <1>10, <2>1
<1>12. S <= Wide => y = S
  <2>1. SUFFICES ASSUME S <= Wide PROVE y = S
    OBVIOUS
  <2>2. s <= Wide
    BY <1>1, <1>2, <2>1
  <2>3. t = s
    BY <2>2 DEF Close
  <2>4. QED
    BY <1>1, <2>1, <2>3, FloatType
<1>13. QED
  BY <1>1, <1>11, <1>12 DEF Close

\* All these errors together are one part in Exact at most.
LEMMA SumIsClose ==
    ASSUME NEW t \in Nat, NEW s \in Nat, NEW n \in Nat, n <= Cap, Close(t, s, n)
    PROVE  /\ Exact * (t - s) <= s /\ Exact * (s - t) <= s
<1>1. /\ Wide \in Nat \ {0} /\ Exact \in Nat \ {0} /\ Cap \in Nat
      /\ 2 * Cap * Exact <= Wide
  BY KernelAssumption
<1>2. Exact * (2 * n * s) <= Wide * s
  <2>1. 2 * n * Exact <= 2 * Cap * Exact
    <3>1. 2 * n <= 2 * Cap /\ 2 * n \in Nat /\ 2 * Cap \in Nat
      BY <1>1
    <3>2. QED
      BY <1>1, <3>1
  <2>2. 2 * n * Exact <= Wide /\ 2 * n * Exact \in Nat
    <3>1. 2 * n * Exact \in Nat /\ 2 * Cap * Exact \in Nat
      BY <1>1
    <3>2. QED
      BY <1>1, <2>1, <3>1
  <2>3. (2 * n * Exact) * s <= Wide * s
    BY <1>1, <2>2
  <2>4. Exact * (2 * n * s) = (2 * n * Exact) * s
    BY <1>1
  <2>5. QED
    BY <2>3, <2>4
<1>3. ASSUME NEW d \in Int, Wide * d <= 2 * n * s PROVE Exact * d <= s
  <2>1. SUFFICES ASSUME Exact * d >= s + 1 PROVE FALSE
    BY <1>1
  <2>2. Wide * (Exact * d) >= Wide * (s + 1)
    <3>1. Exact * d \in Int
      BY <1>1
    <3>2. QED
      BY <1>1, <2>1, <3>1
  <2>3. Wide * (s + 1) = Wide * s + Wide
    BY <1>1
  <2>4. Exact * (Wide * d) <= Exact * (2 * n * s)
    <3>1. Wide * d \in Int /\ 2 * n * s \in Int
      BY <1>1
    <3>2. QED
      BY <1>1, <1>3, <3>1
  <2>5. Wide * (Exact * d) = Exact * (Wide * d)
    BY <1>1
  <2>6. Exact * (Wide * d) \in Int /\ Exact * (2 * n * s) \in Int /\ Wide * s \in Int
    BY <1>1
  <2>7. QED
    BY <1>1, <1>2, <2>2, <2>3, <2>4, <2>5, <2>6
<1>4. t - s \in Int /\ s - t \in Int
  OBVIOUS
<1>5. QED
  BY <1>3, <1>4 DEF Close

------------------------------------------------------------------------------
(* What has been stored. *)

\* Cells are stored with the rounded sum of their products, tmp has the sum so far.
Summed ==
    NB <= Cap =>
       /\ \A x \in Square(NB) : x < written =>
             \E t \in Nat : c[x] = Float(t) /\ Close(t, Sum(Products(x), NB), NB)
       /\ pc = "k" => Close(tmp, Sum(Products(i * NB + j), k), k)

\* The products are those of matrices nobody writes.
LEMMA ProductsStay == inputs' = inputs => \A x : Products(x)' = Products(x)
BY DEF inputs, Products, Terms, Row, Column

LEMMA SummedInit == Init => Summed
<1> SUFFICES ASSUME Init PROVE Summed
  OBVIOUS
<1>1. \A x \in Square(NB) : ~(x < written)
  BY KernelAssumption DEF Init, Square
<1>2. QED
  BY <1>1 DEF Init, Summed

LEMMA SummedNext == KernelInv /\ Summed /\ [Next]_vars => Summed'
<1> SUFFICES ASSUME KernelInv, Summed, [Next]_vars, NB <= Cap PROVE Summed'
  BY DEF Next, Enter, EcallFails, NextRow, LastRow, NextCell, LastCell, Accumulate,
         LastProduct, vars, inputs, Summed
<1>1. TypeOK /\ Progress /\ NB \in Nat \ {0}
  BY KernelAssumption DEF KernelInv, TypeOK
<1>2. NB' = NB /\ inputs' = inputs /\ Square(NB)' = Square(NB)
  BY DEF Next, Enter, EcallFails, NextRow, LastRow, NextCell, LastCell, Accumulate,
         LastProduct, vars, inputs, Square
<1>3. \A x : Products(x)' = Products(x)
  BY <1>2, ProductsStay
<1>4. CASE Enter \/ EcallFails \/ NextRow \/ LastRow \/ LastCell \/ UNCHANGED vars
  BY <1>2, <1>3, <1>4
     DEF Summed, Enter, EcallFails, NextRow, LastRow, LastCell, vars, history
<1>5. CASE NextCell
  <2>1. /\ tmp' = c[i * NB + j] /\ k' = 0 /\ i' = i /\ j' = j /\ c' = c
        /\ written' = written /\ pc = "j"
    BY <1>5 DEF NextCell, history
  <2>2. i * NB + j \in Square(NB) /\ written = i * NB + j
    <3>1. i \in 0 .. NB - 1 /\ j \in 0 .. NB - 1
      BY <1>1, <1>5 DEF TypeOK, NextCell
    <3>2. QED
      BY <1>1, <2>1, <3>1, PlaceInSquare DEF Progress
  <2>3. written \in Nat /\ written <= written
    BY <1>1, <2>2 DEF Square
  <2>4. tmp' = 0
    BY <1>1, <2>1, <2>2, <2>3 DEF Progress
  <2>5. Close(tmp', Sum(Products(i * NB + j)', 0), 0)
    <3>1. tmp' = 0 /\ Sum(Products(i * NB + j)', 0) = 0
      BY <2>4, SumStep
    <3>2. Wide \in Nat
      BY KernelAssumption
    <3>3. QED
      BY <3>1, <3>2 DEF Close
  <2>6. QED
    BY <1>2, <1>3, <2>1, <2>5 DEF Summed
<1>6. CASE Accumulate
  <2>1. /\ pc = "k" /\ k' = k + 1 /\ i' = i /\ j' = j /\ c' = c /\ written' = written
    BY <1>6 DEF Accumulate
  <2>2. i \in 0 .. NB - 1 /\ j \in 0 .. NB - 1 /\ k \in 0 .. NB - 1
    BY <1>1, <1>6 DEF TypeOK, Accumulate
  <2> DEFINE x == i * NB + j
  <2>3. x \in Square(NB) /\ Row(x) = i /\ Column(x) = j
    <3>1. x \in Square(NB)
      BY <1>1, <2>2, PlaceInSquare
    <3>2. x \div NB = i /\ x % NB = j
      BY <1>1, <2>2, DivisionOfPlace
    <3>3. QED
      BY <3>1, <3>2 DEF Row, Column
  <2>4. PICK p \in Nat : p = Float(a[i * NB + k] * b[k * NB + j]) /\ tmp' = Double(tmp + p)
    BY <1>1, <1>6, RoundReads, FloatType
  <2>5. Products(x)[k] = p
    <3> HIDE DEF x
    <3>1. QED
      BY <2>2, <2>3, <2>4 DEF Products, Terms
  <2>6. PICK s \in Nat : s = Sum(Products(x), k) /\ Sum(Products(x), k + 1) = s + p
    <3> HIDE DEF x
    <3>1. k \in 0 .. NB /\ k \in Nat
      BY <1>1, <2>2
    <3>2. Sum(Products(x), k) \in Nat
      BY <1>1, <2>3, <3>1, ProductsAreClose
    <3>3. QED
      BY <2>5, <3>1, <3>2, SumStep
  <2>7. Close(tmp', s + p, k + 1)
    <3>1. k + 1 \in 0 .. NB /\ k \in Nat /\ tmp \in Nat
      BY <1>1, <2>2 DEF TypeOK
    <3>2. 2 * (k + 1) <= Wide
      <4>1. 2 * (k + 1) <= 2 * Cap /\ 2 * Cap \in Nat
        BY <1>1, <2>2, KernelAssumption
      <4>2. 2 * Cap <= 2 * Cap * Exact
        BY <4>1, KernelAssumption
      <4>3. 2 * Cap * Exact \in Nat /\ Wide \in Nat /\ 2 * Cap * Exact <= Wide
        BY KernelAssumption
      <4>4. QED
        BY <3>1, <4>1, <4>2, <4>3
    <3>3. \A z \in Nat : z <= 2 * (s + p) => InRange(z, Wide)
      <4> HIDE DEF x
      <4>1. QED
        BY <1>1, <2>3, <2>6, <3>1, ProductsAreClose
    <3>4. Close(tmp, s, k)
      BY <2>1, <2>6 DEF Summed
    <3>5. QED
      BY <2>4, <3>1, <3>2, <3>3, <3>4, OneMoreProduct
  <2>8. Close(tmp', Sum(Products(x), k + 1), k + 1)
    BY <2>6, <2>7
  <2>9. QED
    BY <1>2, <1>3, <2>1, <2>8 DEF Summed
<1>7. CASE LastProduct
  <2>1. /\ pc = "k" /\ pc' = "j" /\ c' = [c EXCEPT ![i * NB + j] = Float(tmp)]
        /\ written' = written + 1
    BY <1>7 DEF LastProduct
  <2>2. i \in 0 .. NB - 1 /\ j \in 0 .. NB - 1 /\ k = NB
    BY <1>1, <1>7 DEF TypeOK, LastProduct
  <2> DEFINE x == i * NB + j
  <2>3. x \in Square(NB) /\ written = x
    BY <1>1, <2>1, <2>2, PlaceInSquare DEF Progress
  <2>4. tmp \in Nat /\ Close(tmp, Sum(Products(x), NB), NB)
    BY <1>1, <2>1, <2>2 DEF Summed, TypeOK
  <2>5. ASSUME NEW z \in Square(NB), z < written + 1
        PROVE  \E t \in Nat : c'[z] = Float(t) /\ Close(t, Sum(Products(z), NB), NB)
    <3> HIDE DEF x
    <3>1. z = x \/ z < written
      BY <2>3, <2>5 DEF Square
    <3>2. z = x => c'[z] = Float(tmp)
      BY <1>1, <2>1, <2>3 DEF TypeOK, x
    <3>3. z # x => c'[z] = c[z]
      BY <1>1, <2>1 DEF TypeOK, x
    <3>4. z < written => z # x
      BY <2>3 DEF Square
    <3>5. QED
      BY <2>4, <3>1, <3>2, <3>3, <3>4 DEF Summed
  <2>6. QED
    BY <1>2, <1>3, <2>1, <2>5 DEF Summed
<1>8. QED
  BY <1>4, <1>5, <1>6, <1>7 DEF Next

LEMMA SummedInvariant == Spec => []Summed
BY KernelInductive, SummedInit, SummedNext, PTL DEF Spec

\* The product is computed up to a cell, and each cell whose sum a double holds is
\* rounded once, for matrices of every size and content and whenever the ecall fails.
THEOREM CellsAreRoundedOnce == Spec => []CellsAreNearest
<1>1. KernelInv /\ Summed => CellsAreNearest
  <2> SUFFICES ASSUME KernelInv, Summed, NB <= Cap, NEW x \in Square(NB)
               PROVE  /\ x < written /\ Sum(Products(x), NB) <= Wide =>
                            c[x] = Float(Sum(Products(x), NB))
                      /\ x >= written => c[x] = 0
    BY DEF CellsAreNearest
  <2>1. x \in Nat /\ written \in Nat
    BY KernelAssumption DEF KernelInv, TypeOK, Square
  <2>2. x >= written => c[x] = 0
    BY <2>1 DEF KernelInv, Progress
  <2>3. ASSUME x < written, Sum(Products(x), NB) <= Wide
        PROVE  c[x] = Float(Sum(Products(x), NB))
    BY <2>3 DEF Summed, Close
  <2>4. QED
    BY <2>2, <2>3
<1>2. QED
  BY <1>1, KernelInductive, SummedInvariant, PTL

\* Two errors of one part in E.
LEMMA TwoRoundings ==
    ASSUME NEW E \in Nat, NEW x \in Nat, NEW S \in Nat, NEW T \in Nat,
           E * (x - S) <= S, E * (S - x) <= S, E * (S - T) <= T, E * (T - S) <= T
    PROVE  E * E * (x - T) <= (2 * E + 1) * T /\ E * E * (T - x) <= (2 * E + 1) * T
<1>1. E * S <= E * T + T
  <2>1. E * (S - T) = E * S - E * T
    OBVIOUS
  <2>2. E * S \in Int /\ E * T \in Int
    OBVIOUS
  <2>3. QED
    BY <2>1, <2>2
<1>2. ASSUME NEW d \in Int, NEW e \in Int, E * d <= S, E * e <= T
      PROVE  E * E * (d + e) <= (2 * E + 1) * T
  <2>1. PICK p \in Int, q \in Int : p = E * d /\ q = E * e
    OBVIOUS
  <2>2. E * p <= E * S /\ E * q <= E * T
    BY <1>2, <2>1
  <2>3. E * E * (d + e) = E * p + E * q
    BY <2>1
  <2>4. (2 * E + 1) * T = E * T + E * T + T
    OBVIOUS
  <2>5. E * p \in Int /\ E * q \in Int /\ E * S \in Int /\ E * T \in Int
    BY <2>1
  <2>6. QED
    BY <1>1, <2>2, <2>3, <2>4, <2>5
<1>3. E * E * ((x - S) + (S - T)) <= (2 * E + 1) * T
  BY <1>2
<1>4. E * E * ((S - x) + (T - S)) <= (2 * E + 1) * T
  BY <1>2
<1>5. (x - S) + (S - T) = x - T /\ (S - x) + (T - S) = T - x
  OBVIOUS
<1>6. QED
  BY <1>3, <1>4, <1>5

\* And three.
LEMMA ThreeRoundings ==
    ASSUME NEW E \in Nat, NEW x \in Nat, NEW t \in Nat, NEW S \in Nat, NEW T \in Nat,
           E * (x - t) <= t, E * (t - x) <= t,
           E * (t - S) <= S, E * (S - t) <= S, E * (S - T) <= T, E * (T - S) <= T
    PROVE  /\ E * E * E * (x - T) <= (3 * E * E + 3 * E + 1) * T
           /\ E * E * E * (T - x) <= (3 * E * E + 3 * E + 1) * T
<1>1. E * E * (t - T) <= (2 * E + 1) * T /\ E * E * (T - t) <= (2 * E + 1) * T
  BY TwoRoundings
<1>2. PICK F \in Nat, B \in Nat : F = E * E /\ B = (2 * E + 1) * T
  OBVIOUS
<1>3. F * t <= F * T + B
  <2>1. F * (t - T) = F * t - F * T /\ F * t \in Int /\ F * T \in Int
    BY <1>2
  <2>2. QED
    BY <1>1, <1>2, <2>1
<1>4. ASSUME NEW d \in Int, NEW e \in Int, E * d <= t, F * e <= B
      PROVE  E * E * E * (d + e) <= (3 * E * E + 3 * E + 1) * T
  <2>1. PICK p \in Int, q \in Int : p = E * d /\ q = F * e
    BY <1>2
  <2>2. F * p <= F * t /\ E * q <= E * B
    BY <1>2, <1>4, <2>1
  <2>3. E * E * E * (d + e) = F * p + E * q
    BY <1>2, <2>1
  <2>4. (3 * E * E + 3 * E + 1) * T = F * T + B + E * B
    BY <1>2
  <2>5. F * p \in Int /\ E * q \in Int /\ F * t \in Int /\ F * T \in Int /\ E * B \in Int
    BY <1>2, <2>1
  <2>6. QED
    BY <1>2, <1>3, <2>2, <2>3, <2>4, <2>5
<1>5. x - t \in Int /\ t - x \in Int /\ t - T \in Int /\ T - t \in Int
  OBVIOUS
<1>6. E * E * E * ((x - t) + (t - T)) <= (3 * E * E + 3 * E + 1) * T
  BY <1>1, <1>2, <1>4, <1>5
<1>7. E * E * E * ((t - x) + (T - t)) <= (3 * E * E + 3 * E + 1) * T
  BY <1>1, <1>2, <1>4, <1>5
<1>8. (x - t) + (t - T) = x - T /\ (t - x) + (T - t) = T - x
  OBVIOUS
<1>9. QED
  BY <1>6, <1>7, <1>8

\* For every NB up to the size of the copies, a printed cell is within three
\* roundings of the scalar product of its row and column, although each of its NB
\* sums may be rounded.
THEOREM CellsAreWithinThreeRoundings == Spec => []CellsAreAccurate
<1>1. KernelInv /\ Summed => CellsAreAccurate
  <2> SUFFICES ASSUME KernelInv, Summed, NB <= Cap, NEW x \in Square(NB), x < written
               PROVE  LET T == Sum(Terms(x), NB)
                          off == IF c[x] > T THEN c[x] - T ELSE T - c[x]
                      IN  Exact * Exact * Exact * off
                            <= (3 * Exact * Exact + 3 * Exact + 1) * T
    BY DEF CellsAreAccurate
  <2>1. TypeOK /\ Exact \in Nat /\ NB \in Nat /\ NB \in 0 .. NB
    BY KernelAssumption DEF KernelInv, TypeOK
  <2>2. PICK S \in Nat, T \in Nat :
          /\ S = Sum(Products(x), NB) /\ T = Sum(Terms(x), NB)
          /\ Exact * (S - T) <= T /\ Exact * (T - S) <= T
          /\ \A z \in Nat : z <= 2 * S => InRange(z, Exact)
    BY <2>1, ProductsAreClose
  <2>3. PICK t \in Nat : c[x] = Float(t) /\ Close(t, S, NB)
    BY <2>2 DEF Summed
  <2>4. Exact * (t - S) <= S /\ Exact * (S - t) <= S
    BY <2>1, <2>3, SumIsClose
  <2>5. t <= 2 * S
    <3>1. t - S > 0 => t - S <= Exact * (t - S)
      <4>1. Exact \in Nat \ {0} /\ t - S \in Int
        BY KernelAssumption
      <4>2. QED
        BY <4>1
    <3>2. Exact * (t - S) \in Int
      BY <2>1
    <3>3. QED
      BY <2>4, <3>1, <3>2
  <2>6. c[x] \in Nat /\ Exact * (c[x] - t) <= t /\ Exact * (t - c[x]) <= t
    BY <2>1, <2>2, <2>3, <2>5, FloatType, RoundIsClose DEF Float
  <2>7. /\ Exact * Exact * Exact * (c[x] - T) <= (3 * Exact * Exact + 3 * Exact + 1) * T
        /\ Exact * Exact * Exact * (T - c[x]) <= (3 * Exact * Exact + 3 * Exact + 1) * T
    BY <2>1, <2>2, <2>4, <2>6, ThreeRoundings
  <2>8. QED
    BY <2>2, <2>7
<1>2. QED
  BY <1>1, KernelInductive, SummedInvariant, PTL
==============================================================================
