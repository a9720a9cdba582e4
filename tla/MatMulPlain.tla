----------------------------- MODULE MatMulPlain -----------------------------
(***************************************************************************)
(* mat_multiply_no_sgx (FileIOHash_MultMat/App/App.cpp:491-512): the       *)
(* product of two N x N matrices of int in the App alone.  It is what      *)
(* mat_multiply_with_sgx promises to compute.                              *)
(*                                                                         *)
(* An int is its residue modulo Modulus (2^32): the hardware's arithmetic  *)
(* wraps.                                                                  *)
(***************************************************************************)
EXTENDS Integers

CONSTANTS
    N,        \* rows and columns
    Modulus,  \* 2^32
    Inputs    \* the matrices to multiply

Index  == 0 .. N - 1
Int32  == 0 .. Modulus - 1
Matrix == [Index -> [Index -> Int32]]

VARIABLES
    mat1, mat2,  \* the factors
    res,         \* the product
    i, j, k,     \* the loops' counters
    pc           \* the loop whose condition is next

vars == <<mat1, mat2, res, i, j, k, pc>>

Add(x, y)  == (x + y) % Modulus
Mult(x, y) == (x * y) % Modulus

Zero == [r \in Index |-> [c \in Index |-> 0]]

\* main fills the three matrices in
Init ==
    /\ mat1 \in Inputs /\ mat2 \in Inputs /\ res = Zero
    /\ i = 0 /\ j = 0 /\ k = 0 /\ pc = "i"

\* for (i = 0; i < N; i++)
NextRow ==
    /\ pc = "i" /\ i < N
    /\ j' = 0 /\ pc' = "j"
    /\ UNCHANGED <<mat1, mat2, res, i, k>>

LastRow ==
    /\ pc = "i" /\ ~(i < N)
    /\ pc' = "done"
    /\ UNCHANGED <<mat1, mat2, res, i, j, k>>

\* for (j = 0; j < N; j++) res[i][j] = 0
NextCell ==
    /\ pc = "j" /\ j < N
    /\ res' = [res EXCEPT ![i][j] = 0]
    /\ k' = 0 /\ pc' = "k"
    /\ UNCHANGED <<mat1, mat2, i, j>>

LastCell ==
    /\ pc = "j" /\ ~(j < N)
    /\ i' = i + 1 /\ pc' = "i"
    /\ UNCHANGED <<mat1, mat2, res, j, k>>

\* for (k = 0; k < N; k++) res[i][j] += mat1[i][k] * mat2[k][j]
Accumulate ==
    /\ pc = "k" /\ k < N
    /\ res' = [res EXCEPT ![i][j] = Add(@, Mult(mat1[i][k], mat2[k][j]))]
    /\ k' = k + 1
    /\ UNCHANGED <<mat1, mat2, i, j, pc>>

LastProduct ==
    /\ pc = "k" /\ ~(k < N)
    /\ j' = j + 1 /\ pc' = "j"
    /\ UNCHANGED <<mat1, mat2, res, i, k>>

Next == NextRow \/ LastRow \/ NextCell \/ LastCell \/ Accumulate \/ LastProduct

Spec == Init /\ [][Next]_vars
==============================================================================
