--------------------------- MODULE MatMulSgxProofs ---------------------------
(***************************************************************************)
(* Proofs about MatMulSgx, for matrices of every size and content.         *)
(***************************************************************************)
EXTENDS MatMulSgx, SumsProofs, TLAPS

\* Without failures, add_enclave is given the product of its round.
PointInv ==
    pc = "add" /\ ~failed => point1 = Mult(mat1[i][k], mat2[k][j])

MatMulInv == TypeOK /\ PointInv

\* The arithmetic stays in the range of int.
LEMMA IntRange ==
    ASSUME NEW x \in Plain!Int32, NEW y \in Plain!Int32
    PROVE  Add(x, y) \in Plain!Int32 /\ Mult(x, y) \in Plain!Int32 /\ 0 \in Plain!Int32
<1>1. Modulus \in Nat \ {0} /\ x \in Int /\ y \in Int
  BY MatMulAssumption DEF Plain!Int32
<1>2. x + y \in Int /\ x * y \in Int
  BY <1>1
<1>3. (x + y) % Modulus \in 0 .. Modulus - 1
  BY <1>1, <1>2
<1>4. (x * y) % Modulus \in 0 .. Modulus - 1
  BY <1>1, <1>2
<1>5. Add(x, y) = (x + y) % Modulus /\ Mult(x, y) = (x * y) % Modulus
  BY DEF Add, Mult, Plain!Add, Plain!Mult
<1>6. 0 \in 0 .. Modulus - 1
  BY <1>1
<1>7. QED
  BY <1>3, <1>4, <1>5, <1>6 DEF Plain!Int32

\* The matrices main fills in have the right size.
LEMMA MatMulInit == Init => MatMulInv
<1> SUFFICES ASSUME Init PROVE MatMulInv
  OBVIOUS
<1>1. N \in Nat /\ 0 \in Plain!Int32 /\ Inputs \subseteq Matrix
  BY MatMulAssumption DEF Plain!Int32, Matrix, Plain!Matrix, Plain!Index
<1>2. mat1 \in Matrix /\ mat2 \in Matrix
  BY <1>1 DEF Init
<1>3. res \in Matrix
  BY <1>1 DEF Init, Plain!Zero, Matrix, Plain!Matrix
<1>4. lost \in [Index -> [Index -> SUBSET Index]] /\ failed \in BOOLEAN
  BY DEF Init
<1>5. QED
  BY <1>1, <1>2, <1>3, <1>4 DEF Init, MatMulInv, TypeOK, PointInv

\* Every step keeps the counters inside the matrices.
LEMMA MatMulNext == MatMulInv /\ [Next]_vars => MatMulInv'
<1> SUFFICES ASSUME MatMulInv, [Next]_vars PROVE MatMulInv'
  OBVIOUS
<1>1. N \in Nat /\ 0 \in Plain!Int32
  BY MatMulAssumption DEF Plain!Int32
<1>2. CASE NextRow \/ LastRow \/ LastCell \/ LastProduct \/ UNCHANGED vars
  BY <1>1, <1>2
     DEF MatMulInv, TypeOK, PointInv, NextRow, LastRow, LastCell, LastProduct, vars,
         loops
<1>3. CASE NextCell
  BY <1>1, <1>3
     DEF MatMulInv, TypeOK, PointInv, NextCell, Matrix, Plain!Matrix, Index,
         Plain!Index
<1>4. CASE MultEcall
  <2>1. mat1[i][k] \in Plain!Int32 /\ mat2[k][j] \in Plain!Int32
    BY <1>1, <1>4 DEF MatMulInv, TypeOK, MultEcall, Matrix, Plain!Matrix, Plain!Index
  <2>2. point1' \in Plain!Int32
    BY <1>4, <2>1, IntRange DEF MultEcall
  <2>3. QED
    BY <1>1, <1>4, <2>2 DEF MatMulInv, TypeOK, PointInv, MultEcall, loops
<1>5. CASE MultFails
  BY <1>1, <1>5 DEF MatMulInv, TypeOK, PointInv, MultFails, loops, Index, Plain!Index
<1>6. CASE AddEcall
  <2>1. res[i][j] \in Plain!Int32
    BY <1>1, <1>6 DEF MatMulInv, TypeOK, AddEcall, Matrix, Plain!Matrix, Plain!Index
  <2>2. Add(res[i][j], point1) \in Plain!Int32
    BY <2>1, IntRange DEF MatMulInv, TypeOK
  <2>3. res' \in Matrix
    BY <1>1, <1>6, <2>2
       DEF MatMulInv, TypeOK, AddEcall, Matrix, Plain!Matrix, Plain!Index
  <2>4. QED
    BY <1>1, <1>6, <2>3 DEF MatMulInv, TypeOK, PointInv, AddEcall
<1>7. CASE AddFails
  BY <1>1, <1>7
     DEF MatMulInv, TypeOK, PointInv, AddFails, Matrix, Plain!Matrix, Index,
         Plain!Index
<1>8. QED
  BY <1>2, <1>3, <1>4, <1>5, <1>6, <1>7 DEF Next

\* MatMulInv holds in every state of every behaviour.
THEOREM MatMulInductive == Spec => []MatMulInv
BY MatMulInit, MatMulNext, PTL DEF Spec

\* The counters stay inside the matrices and every element in the range of int.
THEOREM MatMulTypes == Spec => []TypeOK
<1>1. MatMulInv => TypeOK
  BY DEF MatMulInv
<1>2. QED
  BY <1>1, MatMulInductive, PTL

\* Each step before the first failure is a step of mat_multiply_no_sgx, or
\* changes nothing that it has.
LEMMA StepFollowsPlain ==
    MatMulInv /\ [Next]_vars => (~failed' => [Plain!Next]_(Plain!vars))
<1> SUFFICES ASSUME MatMulInv, [Next]_vars, ~failed' PROVE [Plain!Next]_(Plain!vars)
  OBVIOUS
<1>1. CASE NextRow
  BY <1>1 DEF NextRow, Plain!Next, Plain!NextRow
<1>2. CASE LastRow
  BY <1>2 DEF LastRow, loops, Plain!Next, Plain!LastRow
<1>3. CASE NextCell
  BY <1>3 DEF NextCell, Plain!Next, Plain!NextCell
<1>4. CASE LastCell
  BY <1>4 DEF LastCell, Plain!Next, Plain!LastCell
<1>5. CASE LastProduct
  BY <1>5 DEF LastProduct, Plain!Next, Plain!LastProduct
<1>6. CASE MultEcall \/ UNCHANGED vars
  BY <1>6 DEF MultEcall, vars, loops, Plain!vars
<1>7. CASE AddEcall
  <2>1. point1 = Plain!Mult(mat1[i][k], mat2[k][j]) /\ k < N
    BY <1>7 DEF AddEcall, MatMulInv, PointInv, TypeOK, Mult
  <2>2. Plain!Accumulate
    BY <1>7, <2>1 DEF AddEcall, Add, Plain!Accumulate
  <2>3. QED
    BY <2>2 DEF Plain!Next
<1>8. CASE MultFails \/ AddFails
  BY <1>8 DEF MultFails, AddFails
<1>9. QED
  BY <1>1, <1>2, <1>3, <1>4, <1>5, <1>6, <1>7, <1>8 DEF Next

\* mat_multiply_with_sgx implements mat_multiply_no_sgx for as long as no ecall
\* fails.
THEOREM ProductFollowsPlain == Spec => FollowsPlain
<1>1. MatMulInv /\ [Next]_vars => [~failed' => [Plain!Next]_(Plain!vars)]_vars
  BY StepFollowsPlain
<1>2. QED
  BY <1>1, MatMulInductive, PTL DEF Spec, FollowsPlain

------------------------------------------------------------------------------
(* The cells. *)

Working(r, c)  == pc \in {"k", "add"} /\ r = i /\ c = j
Finished(r, c) == r < i \/ (r = i /\ c < j /\ pc # "i")

\* What cell r, c holds: a finished one its sum, the one in work the sum so far,
\* with the term that comes next in point1.  It has lost no round it has not
\* been through.
CellInv(r, c) ==
    /\ Finished(r, c) => res[r][c] = Sum(Terms(r, c), N) % Modulus
    /\ Working(r, c) =>
          /\ res[r][c] = Sum(Terms(r, c), k) % Modulus
          /\ pc = "add" => point1 = Terms(r, c)[k] % Modulus
          /\ lost[r][c] \subseteq 0 .. (IF pc = "add" THEN k ELSE k - 1)
    /\ ~Working(r, c) /\ ~Finished(r, c) => lost[r][c] = {}

SumsInv == MatMulInv /\ \A r, c \in Index : CellInv(r, c)

\* The terms of a cell are integers, and so are their sums.
LEMMA TermsAreInts ==
    ASSUME TypeOK, NEW r \in Index, NEW c \in Index, NEW n \in 0 .. N
    PROVE  /\ \A x \in Index : Terms(r, c)[x] \in Int
           /\ Sum(Terms(r, c), n) \in Int
<1>1. N \in Nat /\ Modulus \in Nat /\ Index = 0 .. N - 1
  BY MatMulAssumption DEF Index, Plain!Index
<1>2. ASSUME NEW x \in Index PROVE Terms(r, c)[x] \in Int
  <2>1. mat1[r][x] \in Int /\ mat2[x][c] \in Int
    BY <1>1 DEF TypeOK, Matrix, Plain!Matrix, Plain!Index, Plain!Int32, Index
  <2>2. mat1[r][x] * mat2[x][c] \in Int
    BY <2>1
  <2>3. QED
    BY <2>2 DEF Terms
<1>3. \A x \in 0 .. n - 1 : Terms(r, c)[x] \in Int
  BY <1>1, <1>2
<1>4. QED
  BY <1>1, <1>2, <1>3, SumType

\* They are those of its row, its column and what it has lost.
LEMMA TermsStay ==
    ASSUME NEW r, NEW c, mat1' = mat1, mat2' = mat2, lost'[r][c] = lost[r][c]
    PROVE  Terms(r, c)' = Terms(r, c)
BY DEF Terms

\* All cells are ahead at first.
LEMMA SumsInit == Init => SumsInv
<1> SUFFICES ASSUME Init PROVE SumsInv
  OBVIOUS
<1>1. ASSUME NEW r \in Index, NEW c \in Index PROVE CellInv(r, c)
  <2>1. r \in Int /\ 0 <= r
    BY MatMulAssumption DEF Index, Plain!Index
  <2>2. QED
    BY <2>1 DEF Init, CellInv, Working, Finished
<1>2. QED
  BY <1>1, MatMulInit DEF SumsInv

\* The steps that change neither a cell nor which one is in work.
LEMMA LoopStepCells ==
    ASSUME SumsInv, NextRow \/ LastRow \/ LastCell \/ UNCHANGED vars,
           NEW r \in Index, NEW c \in Index
    PROVE  CellInv(r, c)'
<1>1. N \in Nat /\ r \in 0 .. N - 1 /\ c \in 0 .. N - 1 /\ TypeOK /\ CellInv(r, c)
  BY MatMulAssumption DEF SumsInv, MatMulInv, Index, Plain!Index
<1>2. res' = res /\ k' = k /\ point1' = point1 /\ lost' = lost /\ mat1' = mat1
      /\ mat2' = mat2
  BY DEF NextRow, LastRow, LastCell, vars, loops
<1>3. Terms(r, c)' = Terms(r, c)
  BY <1>2, TermsStay
<1>4. (Working(r, c)' <=> Working(r, c)) /\ (Finished(r, c)' <=> Finished(r, c))
  BY <1>1 DEF NextRow, LastRow, LastCell, vars, loops, Working, Finished, TypeOK
<1>5. Working(r, c) => pc' = pc
  BY DEF NextRow, LastRow, LastCell, vars, loops, Working
<1>6. QED
  BY <1>1, <1>2, <1>3, <1>4, <1>5 DEF CellInv

\* A cell is begun with the empty sum.
LEMMA NextCellCells ==
    ASSUME SumsInv, NextCell, NEW r \in Index, NEW c \in Index
    PROVE  CellInv(r, c)'
<1>1. N \in Nat /\ r \in 0 .. N - 1 /\ c \in 0 .. N - 1 /\ TypeOK /\ CellInv(r, c)
  BY MatMulAssumption DEF SumsInv, MatMulInv, Index, Plain!Index
<1>2. Terms(r, c)' = Terms(r, c)
  BY TermsStay DEF NextCell
<1>3. CASE r = i /\ c = j
  <2>1. ~Working(r, c) /\ ~Finished(r, c) /\ Working(r, c)' /\ ~Finished(r, c)'
    BY <1>1, <1>3 DEF NextCell, Working, Finished, TypeOK
  <2>2. res'[r][c] = 0
    BY <1>1, <1>3 DEF NextCell, TypeOK, Matrix, Plain!Matrix, Plain!Index
  <2>3. Sum(Terms(r, c), 0) = 0 /\ 0 % Modulus = 0
    BY SumStep, MatMulAssumption
  <2>4. QED
    BY <1>1, <1>2, <2>1, <2>2, <2>3 DEF NextCell, CellInv
<1>4. CASE ~(r = i /\ c = j)
  <2>1. ~Working(r, c) /\ ~Working(r, c)' /\ (Finished(r, c)' <=> Finished(r, c))
    BY <1>1, <1>4 DEF NextCell, Working, Finished
  <2>2. res'[r][c] = res[r][c]
    BY <1>1, <1>4 DEF NextCell, TypeOK, Matrix, Plain!Matrix, Plain!Index
  <2>3. QED
    BY <1>1, <1>2, <2>1, <2>2 DEF NextCell, CellInv
<1>5. QED
  BY <1>3, <1>4

\* After its last round the sum so far is the sum.
LEMMA LastProductCells ==
    ASSUME SumsInv, LastProduct, NEW r \in Index, NEW c \in Index
    PROVE  CellInv(r, c)'
<1>1. N \in Nat /\ r \in 0 .. N - 1 /\ c \in 0 .. N - 1 /\ TypeOK /\ CellInv(r, c)
  BY MatMulAssumption DEF SumsInv, MatMulInv, Index, Plain!Index
<1>2. Terms(r, c)' = Terms(r, c)
  BY TermsStay DEF LastProduct
<1>3. k = N /\ ~Working(r, c)' /\ (Finished(r, c)' <=> Finished(r, c) \/ Working(r, c))
  BY <1>1 DEF LastProduct, Working, Finished, TypeOK
<1>4. QED
  BY <1>1, <1>2, <1>3 DEF LastProduct, CellInv

\* mult_enclave gives the next term.
LEMMA MultEcallCells ==
    ASSUME SumsInv, MultEcall, NEW r \in Index, NEW c \in Index
    PROVE  CellInv(r, c)'
<1>1. N \in Nat /\ r \in 0 .. N - 1 /\ c \in 0 .. N - 1 /\ TypeOK /\ CellInv(r, c)
  BY MatMulAssumption DEF SumsInv, MatMulInv, Index, Plain!Index
<1>2. Terms(r, c)' = Terms(r, c) /\ res' = res /\ k' = k /\ lost' = lost
  BY TermsStay DEF MultEcall, loops
<1>3. (Working(r, c)' <=> Working(r, c)) /\ (Finished(r, c)' <=> Finished(r, c))
  BY DEF MultEcall, loops, Working, Finished
<1>4. ASSUME Working(r, c)
      PROVE  /\ point1' = Terms(r, c)[k] % Modulus
             /\ lost[r][c] \subseteq 0 .. k
  <2>1. k \in 0 .. N - 1 /\ k \in Index /\ lost[r][c] \subseteq 0 .. k - 1
    BY <1>1, <1>4 DEF MultEcall, CellInv, TypeOK, Index, Plain!Index
  <2>2. k \notin lost[r][c] /\ lost[r][c] \subseteq 0 .. k
    BY <2>1
  <2>3. Terms(r, c)[k] = mat1[r][k] * mat2[k][c]
    BY <2>1, <2>2 DEF Terms
  <2>4. QED
    BY <1>4, <2>2, <2>3 DEF MultEcall, Working, Mult, Plain!Mult
<1>5. pc' = "add"
  BY DEF MultEcall
<1>6. QED
  BY <1>1, <1>2, <1>3, <1>4, <1>5 DEF CellInv

\* A mult_enclave that fails takes the next term away, and no other.
LEMMA MultFailsCells ==
    ASSUME SumsInv, MultFails, NEW r \in Index, NEW c \in Index
    PROVE  CellInv(r, c)'
<1>1. N \in Nat /\ r \in 0 .. N - 1 /\ c \in 0 .. N - 1 /\ TypeOK /\ CellInv(r, c)
  BY MatMulAssumption DEF SumsInv, MatMulInv, Index, Plain!Index
<1>2. res' = res /\ k' = k /\ mat1' = mat1 /\ mat2' = mat2 /\ pc' = "add" /\ point1' = 0
  BY DEF MultFails, loops
<1>3. (Working(r, c)' <=> Working(r, c)) /\ (Finished(r, c)' <=> Finished(r, c))
  BY DEF MultFails, loops, Working, Finished
<1>4. CASE Working(r, c)
  <2>1. k \in 0 .. N - 1 /\ k \in Index /\ lost[r][c] \subseteq 0 .. k - 1
    BY <1>1, <1>4 DEF MultFails, CellInv, Working, TypeOK, Index, Plain!Index
  <2>2. lost'[r][c] = lost[r][c] \union {k}
    BY <1>1, <1>4 DEF MultFails, Working, TypeOK, Index, Plain!Index
  <2>3. Terms(r, c)'[k] = 0 /\ 0 % Modulus = 0
    BY <2>1, <2>2, MatMulAssumption DEF Terms
  <2>4. \A x \in 0 .. k - 1 : Terms(r, c)'[x] = Terms(r, c)[x]
    <3>1. ASSUME NEW x \in 0 .. k - 1 PROVE Terms(r, c)'[x] = Terms(r, c)[x]
      <4>1. x \in Index /\ (x \in lost'[r][c] <=> x \in lost[r][c])
        BY <1>1, <2>1, <2>2 DEF Index, Plain!Index
      <4>2. QED
        BY <1>2, <4>1 DEF Terms
    <3>2. QED
      BY <3>1
  <2>5. Sum(Terms(r, c)', k) = Sum(Terms(r, c), k)
    BY <2>1, <2>4, SumSame
  <2>6. lost'[r][c] \subseteq 0 .. k
    BY <2>1, <2>2
  <2>7. ~Finished(r, c)'
    BY <1>1, <1>3, <1>4 DEF Working, Finished, TypeOK
  <2>8. QED
    BY <1>1, <1>2, <1>3, <1>4, <2>3, <2>5, <2>6, <2>7 DEF CellInv
<1>5. CASE ~Working(r, c)
  <2>1. lost'[r][c] = lost[r][c]
    BY <1>1, <1>5 DEF MultFails, Working, TypeOK, Index, Plain!Index
  <2>2. Terms(r, c)' = Terms(r, c)
    BY <1>2, <2>1, TermsStay
  <2>3. QED
    BY <1>1, <1>2, <1>3, <1>5, <2>1, <2>2 DEF CellInv
<1>6. QED
  BY <1>4, <1>5

\* add_enclave adds the next term to the sum so far.
LEMMA AddEcallCells ==
    ASSUME SumsInv, AddEcall, NEW r \in Index, NEW c \in Index
    PROVE  CellInv(r, c)'
<1>1. N \in Nat /\ r \in 0 .. N - 1 /\ c \in 0 .. N - 1 /\ TypeOK /\ CellInv(r, c)
  BY MatMulAssumption DEF SumsInv, MatMulInv, Index, Plain!Index
<1>2. Terms(r, c)' = Terms(r, c) /\ lost' = lost /\ k' = k + 1 /\ pc' = "k"
  BY TermsStay DEF AddEcall
<1>3. (Working(r, c)' <=> Working(r, c)) /\ (Finished(r, c)' <=> Finished(r, c))
  BY DEF AddEcall, Working, Finished
<1>4. CASE Working(r, c)
  <2>1. k \in 0 .. N - 1 /\ k \in Index /\ k \in 0 .. N /\ lost[r][c] \subseteq 0 .. k
    BY <1>1, <1>4 DEF AddEcall, CellInv, TypeOK, Index, Plain!Index
  <2>2. res'[r][c] = (res[r][c] + point1) % Modulus
    BY <1>1, <1>4
       DEF AddEcall, Working, Add, Plain!Add, TypeOK, Matrix, Plain!Matrix, Plain!Index
  <2>3. /\ res[r][c] = Sum(Terms(r, c), k) % Modulus
        /\ point1 = Terms(r, c)[k] % Modulus
    BY <1>1, <1>4 DEF AddEcall, CellInv
  <2>4. Sum(Terms(r, c), k) \in Int /\ Terms(r, c)[k] \in Int
    BY <1>1, <2>1, TermsAreInts
  <2>5. res'[r][c] = (Sum(Terms(r, c), k) + Terms(r, c)[k]) % Modulus
    BY <2>2, <2>3, <2>4, ResidueOfSum, MatMulAssumption
  <2>6. res'[r][c] = Sum(Terms(r, c), k + 1) % Modulus
    BY <2>1, <2>5, SumStep
  <2>7. lost[r][c] \subseteq 0 .. (k + 1) - 1
    BY <2>1
  <2>8. ~Finished(r, c)'
    BY <1>1, <1>3, <1>4 DEF Working, Finished, TypeOK
  <2>9. QED
    BY <1>2, <1>3, <1>4, <2>6, <2>7, <2>8 DEF CellInv
<1>5. CASE ~Working(r, c)
  <2>1. res'[r][c] = res[r][c]
    BY <1>1, <1>5 DEF AddEcall, Working, TypeOK, Matrix, Plain!Matrix, Plain!Index
  <2>2. QED
    BY <1>1, <1>2, <1>3, <1>5, <2>1 DEF CellInv
<1>6. QED
  BY <1>4, <1>5

\* An add_enclave that fails takes all terms so far away.
LEMMA AddFailsCells ==
    ASSUME SumsInv, AddFails, NEW r \in Index, NEW c \in Index
    PROVE  CellInv(r, c)'
<1>1. N \in Nat /\ r \in 0 .. N - 1 /\ c \in 0 .. N - 1 /\ TypeOK /\ CellInv(r, c)
  BY MatMulAssumption DEF SumsInv, MatMulInv, Index, Plain!Index
<1>2. mat1' = mat1 /\ mat2' = mat2 /\ k' = k + 1 /\ pc' = "k"
  BY DEF AddFails
<1>3. (Working(r, c)' <=> Working(r, c)) /\ (Finished(r, c)' <=> Finished(r, c))
  BY DEF AddFails, Working, Finished
<1>4. CASE Working(r, c)
  <2>1. k \in 0 .. N - 1
    BY <1>1 DEF AddFails, TypeOK
  <2>2. res'[r][c] = 0 /\ lost'[r][c] = 0 .. k
    BY <1>1, <1>4
       DEF AddFails, Working, TypeOK, Matrix, Plain!Matrix, Index, Plain!Index
  <2>3. \A x \in 0 .. (k + 1) - 1 : Terms(r, c)'[x] = 0
    BY <1>1, <2>1, <2>2 DEF Terms, Index, Plain!Index
  <2>4. Sum(Terms(r, c)', k + 1) = 0 /\ 0 % Modulus = 0
    BY <2>1, <2>3, SumZero, MatMulAssumption
  <2>5. ~Finished(r, c)'
    BY <1>1, <1>3, <1>4 DEF Working, Finished, TypeOK
  <2>6. lost'[r][c] \subseteq 0 .. (k + 1) - 1
    BY <2>1, <2>2
  <2>7. QED
    BY <1>2, <1>3, <1>4, <2>2, <2>4, <2>5, <2>6 DEF CellInv
<1>5. CASE ~Working(r, c)
  <2>1. res'[r][c] = res[r][c] /\ lost'[r][c] = lost[r][c]
    BY <1>1, <1>5
       DEF AddFails, Working, TypeOK, Matrix, Plain!Matrix, Index, Plain!Index
  <2>2. Terms(r, c)' = Terms(r, c)
    BY <1>2, <2>1, TermsStay
  <2>3. QED
    BY <1>1, <1>2, <1>3, <1>5, <2>1, <2>2 DEF CellInv
<1>6. QED
  BY <1>4, <1>5

LEMMA SumsNext == SumsInv /\ [Next]_vars => SumsInv'
<1> SUFFICES ASSUME SumsInv, [Next]_vars PROVE SumsInv'
  OBVIOUS
<1>1. ASSUME NEW r \in Index, NEW c \in Index PROVE CellInv(r, c)'
  BY LoopStepCells, NextCellCells, LastProductCells, MultEcallCells, MultFailsCells,
     AddEcallCells, AddFailsCells
     DEF Next
<1>2. \A r, c \in Index : CellInv(r, c)'
  BY <1>1
<1>3. Index' = Index
  BY DEF Index, Plain!Index
<1>4. QED
  BY <1>2, <1>3, MatMulNext DEF SumsInv

\* For matrices of every size and every pattern of failing ecalls, a finished
\* cell is the sum of the products that were not lost.
THEOREM FinishedCellsAreSums == Spec => []CellsAreSums
<1>1. SumsInv => CellsAreSums
  BY DEF SumsInv, CellInv, Finished, CellsAreSums
<1>2. QED
  BY <1>1, SumsInit, SumsNext, PTL DEF Spec
==============================================================================
