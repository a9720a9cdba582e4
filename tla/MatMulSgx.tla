------------------------------ MODULE MatMulSgx ------------------------------
(***************************************************************************)
(* mat_multiply_with_sgx (FileIOHash_MultMat/App/App.cpp:515-537): the     *)
(* same three loops, with an ecall for each multiplication and for each    *)
(* addition.                                                               *)
(*                                                                         *)
(* The status of an ecall is kept in a variable that nothing reads.  An    *)
(* ecall that fails leaves its result at the 0 it was set to, which is     *)
(* what EdgeCalls shows of mult_enclave and add_enclave.                   *)
(***************************************************************************)
EXTENDS Integers, Sums

CONSTANTS
    N,        \* rows and columns
    Modulus,  \* 2^32
    Inputs    \* the matrices to multiply

ASSUME MatMulAssumption ==
    /\ N \in Nat /\ Modulus \in Nat \ {0}
    /\ Inputs \subseteq [0 .. N - 1 -> [0 .. N - 1 -> 0 .. Modulus - 1]]

VARIABLES
    mat1, mat2, res, i, j, k, pc,
    point1,   \* the last product
    failed,   \* history: an ecall has failed
    lost      \* history: lost[r][c], the products that cell r, c has lost

loops == <<mat1, mat2, res, i, j, k>>
vars  == <<loops, pc, point1, failed, lost>>

\* The loops are those of mat_multiply_no_sgx; between mult_enclave and
\* add_enclave the k loop is in the middle of a round.
Plain == INSTANCE MatMulPlain WITH pc <- IF pc = "add" THEN "k" ELSE pc

Index  == Plain!Index
Matrix == Plain!Matrix
Add(x, y)  == Plain!Add(x, y)
Mult(x, y) == Plain!Mult(x, y)

Init ==
    /\ mat1 \in Inputs /\ mat2 \in Inputs /\ res = Plain!Zero
    /\ i = 0 /\ j = 0 /\ k = 0 /\ pc = "i"
    /\ point1 = 0 /\ failed = FALSE
    /\ lost = [r \in Index |-> [c \in Index |-> {}]]

\* the loops' conditions and steps
NextRow ==
    /\ pc = "i" /\ i < N
    /\ j' = 0 /\ pc' = "j"
    /\ UNCHANGED <<mat1, mat2, res, i, k, point1, failed, lost>>

LastRow ==
    /\ pc = "i" /\ ~(i < N)
    /\ pc' = "done"
    /\ UNCHANGED <<loops, point1, failed, lost>>

NextCell ==
    /\ pc = "j" /\ j < N
    /\ res' = [res EXCEPT ![i][j] = 0]
    /\ k' = 0 /\ pc' = "k"
    /\ UNCHANGED <<mat1, mat2, i, j, point1, failed, lost>>

LastCell ==
    /\ pc = "j" /\ ~(j < N)
    /\ i' = i + 1 /\ pc' = "i"
    /\ UNCHANGED <<mat1, mat2, res, j, k, point1, failed, lost>>

LastProduct ==
    /\ pc = "k" /\ ~(k < N)
    /\ j' = j + 1 /\ pc' = "j"
    /\ UNCHANGED <<mat1, mat2, res, i, k, point1, failed, lost>>

MultTransposed ==
    /\ pc = "k" /\ k < N
    /\ point1' = Mult(mat1[i][k], mat2[k][i])
    /\ pc' = "add"
    /\ UNCHANGED <<loops, failed, lost>>

\* mult_enclave(global_eid, &point1, mat1[i][k], mat2[k][j])
MultEcall ==
    /\ pc = "k" /\ k < N
    /\ point1' = Mult(mat1[i][k], mat2[k][j])
    /\ pc' = "add"
    /\ UNCHANGED <<loops, failed, lost>>

MultFailsStale ==
    /\ pc = "k" /\ k < N
    /\ failed' = TRUE
    /\ lost' = [lost EXCEPT ![i][j] = @ \union {k}]
    /\ pc' = "add"
    /\ UNCHANGED <<loops, point1>>

\* point1 stays 0: this product is lost
MultFails ==
    /\ pc = "k" /\ k < N
    /\ point1' = 0 /\ failed' = TRUE
    /\ lost' = [lost EXCEPT ![i][j] = @ \union {k}]
    /\ pc' = "add"
    /\ UNCHANGED loops

\* add_enclave(global_eid, &point2, res[i][j], point1); res[i][j] = point2
AddEcall ==
    /\ pc = "add"
    /\ res' = [res EXCEPT ![i][j] = Add(@, point1)]
    /\ k' = k + 1 /\ pc' = "k"
    /\ UNCHANGED <<mat1, mat2, i, j, point1, failed, lost>>

\* point2 stays 0, and so does res[i][j]: the sum so far is lost
AddFails ==
    /\ pc = "add"
    /\ res' = [res EXCEPT ![i][j] = 0]
    /\ failed' = TRUE
    /\ lost' = [lost EXCEPT ![i][j] = 0 .. k]
    /\ k' = k + 1 /\ pc' = "k"
    /\ UNCHANGED <<mat1, mat2, i, j, point1>>

Next ==
    \/ NextRow \/ LastRow \/ NextCell \/ LastCell \/ LastProduct
    \/ MultEcall \/ MultFails \/ AddEcall \/ AddFails

Spec == Init /\ [][Next]_vars

------------------------------------------------------------------------------
(* Properties. *)

\* Type correctness of the loops: the counters stay within the matrices.
TypeOK ==
    /\ mat1 \in Matrix /\ mat2 \in Matrix /\ res \in Matrix
    /\ i \in 0 .. N /\ j \in 0 .. N /\ k \in 0 .. N
    /\ pc \in {"i", "j", "k", "add", "done"}
    /\ pc \in {"j", "k", "add"} => i < N
    /\ pc \in {"k", "add"} => j < N
    /\ pc = "add" => k < N
    /\ point1 \in Plain!Int32 /\ failed \in BOOLEAN
    /\ lost \in [Index -> [Index -> SUBSET Index]]

\* As long as no ecall fails, mat_multiply_with_sgx does what
\* mat_multiply_no_sgx does, round by round: a step is one of its steps or
\* changes nothing that it has.
FollowsPlain == [][~failed' => [Plain!Next]_(Plain!vars)]_vars

\* The products that row r and column c add up, 0 for those that were lost
Terms(r, c) ==
    [x \in Index |-> IF x \in lost[r][c] THEN 0 ELSE mat1[r][x] * mat2[x][c]]

(***************************************************************************)
(* Every finished cell is the scalar product of its row and column without *)
(* the rounds that were lost; with none lost it is the cell of the product *)
(* (App.cpp:523-534).                                                      *)
(***************************************************************************)
CellsAreSums ==
    \A r, c \in Index :
       r < i \/ (r = i /\ c < j /\ pc # "i") => res[r][c] = Sum(Terms(r, c), N) % Modulus
==============================================================================
