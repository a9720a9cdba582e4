---------------------------- MODULE MatMulKernel ----------------------------
(***************************************************************************)
(* The product main computes in the enclave: it fills a, b and c in        *)
(* (FileIOHash_MultMat/App/App.cpp:590-614) and ecall_matmul_u             *)
(* (Enclave/Enclave.cpp:69-88) multiplies them as one-dimensional arrays.  *)
(*                                                                         *)
(* The bridge copies Cap * Cap floats of a and of b, whatever NB is; c is  *)
(* the App's own memory.  A product of two floats and a store to c are     *)
(* rounded to a float, every sum in tmp to a double, as the 64-bit builds  *)
(* of the Makefile do.  Elements are non-negative integers.                *)
(***************************************************************************)
EXTENDS Integers, Sums

CONSTANTS
    Cap,       \* 256, the side of the matrices that Enclave.edl declares
    Sides,     \* what NB may be set to
    Places,    \* bound: no matrix is larger
    Fillings,  \* what a and b may be filled with, place by place
    Exact,     \* 2^24: a float holds every integer up to it
    Wide,      \* 2^53: a double does
    Ulps,      \* distances of floats and doubles: 1, 2, 4 ... large enough for all sums
    Junk,      \* what may lie behind a copy
    Modulus    \* of the plain product's ints

ASSUME KernelAssumption ==
    /\ Cap \in Nat \ {0} /\ Places \in Nat
    /\ Sides \subseteq Nat \ {0} /\ \A n \in Sides : n * n <= Places
    /\ Exact \in Nat \ {0} /\ Wide \in Nat /\ Exact <= Wide
    /\ 2 * Cap * Exact <= Wide
    /\ Ulps \subseteq Nat \ {0} /\ \A u \in Ulps : u = 1 \/ \E v \in Ulps : u = 2 * v
    /\ \E u \in Ulps : 4 * Places * Exact <= u
    /\ Modulus \in Nat /\ Exact < Modulus
    /\ Junk \subseteq Nat /\ Junk # {}
    /\ Fillings \subseteq [0 .. Places - 1 -> 0 .. Exact]

VARIABLES
    NB, a, b, c,   \* main's matrices
    tmp, i, j, k,  \* the locals of ecall_matmul_u
    pc,            \* the loop whose condition is next, "ecall" before, "print" after
    written,       \* history: cells stored
    big,           \* history: a product or a sum has been more than Exact
    stray,         \* history: cells for which a read went past the end of a copy
    lost           \* history: the ecall failed

inputs  == <<NB, a, b>>
history == <<written, big, stray, lost>>
vars    == <<inputs, c, tmp, i, j, k, pc, history>>

Square(n) == 0 .. n * n - 1

\* The nearest of the numbers that a format holds which has every integer up to
\* limit; of two, the one whose last bit is 0
Ulp(x, limit) ==
    LET least == {u \in Ulps : /\ x <= limit * u
                               /\ \A v \in Ulps : x <= limit * v => u <= v}
    IN  IF least = {} THEN 1 ELSE CHOOSE u \in least : TRUE
Nearest(x, u) ==
    LET q == x \div u
        r == x % u
    IN  IF 2 * r < u \/ (2 * r = u /\ q % 2 = 0) THEN q * u ELSE (q + 1) * u
Round(x, limit) == IF x <= limit THEN x ELSE Nearest(x, Ulp(x, limit))

Float(x)  == Round(x, Exact)
Double(x) == Round(x, Wide)

Init ==
    /\ NB \in Sides
    /\ \E f, g \in Fillings :
          /\ a = [x \in Square(NB) |-> f[x]]
          /\ b = [x \in Square(NB) |-> g[x]]
    /\ c = [x \in Square(NB) |-> 0]
    /\ tmp = 0 /\ i = 0 /\ j = 0 /\ k = 0 /\ pc = "ecall"
    /\ written = 0 /\ big = FALSE /\ stray = {} /\ lost = FALSE

\* ecall_matmul_u(global_eid, a, b, c, NB) enters
Enter ==
    /\ pc = "ecall" /\ pc' = "i"
    /\ UNCHANGED <<inputs, c, tmp, i, j, k, history>>

\* It fails, or the enclave is lost on the way: main prints what c holds.
EcallFails ==
    /\ pc # "print" /\ pc' = "print"
    /\ lost' = TRUE
    /\ UNCHANGED <<inputs, c, tmp, i, j, k, written, big, stray>>

\* for (i = 0; i < NB; i++)
NextRow ==
    /\ pc = "i" /\ i < NB
    /\ j' = 0 /\ pc' = "j"
    /\ UNCHANGED <<inputs, c, tmp, i, k, history>>

LastRow ==
    /\ pc = "i" /\ ~(i < NB)
    /\ pc' = "print"
    /\ UNCHANGED <<inputs, c, tmp, i, j, k, history>>

\* Slip: tmp is not set for each cell
NextCellKeepsTmp ==
    /\ pc = "j" /\ j < NB
    /\ k' = 0 /\ pc' = "k"
    /\ UNCHANGED <<inputs, c, tmp, i, j, history>>

\* for (j = 0; j < NB; j++) tmp = c[I+j]
NextCell ==
    /\ pc = "j" /\ j < NB
    /\ tmp' = c[i * NB + j]
    /\ k' = 0 /\ pc' = "k"
    /\ UNCHANGED <<inputs, c, i, j, history>>

LastCell ==
    /\ pc = "j" /\ ~(j < NB)
    /\ i' = i + 1 /\ pc' = "i"
    /\ UNCHANGED <<inputs, c, tmp, j, k, history>>

\* What the copy of matrix m may have at index x
Read(m, x) == IF x < Cap * Cap THEN {m[x]} ELSE Junk

\* Slips: tmp is a float; b is read by rows
AccumulateInFloat ==
    /\ pc = "k" /\ k < NB
    /\ \E x \in Read(a, i * NB + k), y \in Read(b, k * NB + j) :
          /\ tmp' = Float(tmp + Float(x * y))
          /\ big' = (big \/ x * y > Exact \/ tmp + Float(x * y) > Exact)
    /\ stray' = IF i * NB + k < Cap * Cap /\ k * NB + j < Cap * Cap
                THEN stray ELSE stray \union {i * NB + j}
    /\ k' = k + 1
    /\ UNCHANGED <<inputs, c, i, j, pc, written, lost>>
AccumulateByRows ==
    /\ pc = "k" /\ k < NB
    /\ \E x \in Read(a, i * NB + k), y \in Read(b, j * NB + k) :
          /\ tmp' = Double(tmp + Float(x * y))
          /\ big' = (big \/ x * y > Exact \/ tmp + Float(x * y) > Exact)
    /\ stray' = IF i * NB + k < Cap * Cap /\ j * NB + k < Cap * Cap
                THEN stray ELSE stray \union {i * NB + j}
    /\ k' = k + 1
    /\ UNCHANGED <<inputs, c, i, j, pc, written, lost>>

\* for (k = 0; k < NB; k++) tmp += a[I+k] * b[k*NB+j]
Accumulate ==
    /\ pc = "k" /\ k < NB
    /\ \E x \in Read(a, i * NB + k), y \in Read(b, k * NB + j) :
          /\ tmp' = Double(tmp + Float(x * y))
          /\ big' = (big \/ x * y > Exact \/ tmp + Float(x * y) > Exact)
    /\ stray' = IF i * NB + k < Cap * Cap /\ k * NB + j < Cap * Cap
                THEN stray ELSE stray \union {i * NB + j}
    /\ k' = k + 1
    /\ UNCHANGED <<inputs, c, i, j, pc, written, lost>>

\* c[I+j] = tmp
LastProduct ==
    /\ pc = "k" /\ ~(k < NB)
    /\ c' = [c EXCEPT ![i * NB + j] = Float(tmp)]
    /\ written' = written + 1
    /\ j' = j + 1 /\ pc' = "j"
    /\ UNCHANGED <<inputs, tmp, i, k, big, stray, lost>>

Next ==
    \/ Enter \/ EcallFails
    \/ NextRow \/ LastRow \/ NextCell \/ LastCell \/ Accumulate \/ LastProduct

Spec == Init /\ [][Next]_vars

------------------------------------------------------------------------------
(* Properties. *)

\* Type correctness: the counters stay within the matrices.
TypeOK ==
    /\ NB \in Sides
    /\ a \in [Square(NB) -> 0 .. Exact] /\ b \in [Square(NB) -> 0 .. Exact]
    /\ c \in [Square(NB) -> Nat] /\ tmp \in Nat
    /\ i \in 0 .. NB /\ j \in 0 .. NB /\ k \in 0 .. NB
    /\ pc \in {"ecall", "i", "j", "k", "print"}
    /\ pc \in {"j", "k"} => i < NB
    /\ pc = "k" => j < NB
    /\ written \in 0 .. NB * NB /\ big \in BOOLEAN /\ lost \in BOOLEAN
    /\ stray \subseteq Square(NB)

Row(x)    == x \div NB
Column(x) == x % NB

\* The terms of cell x of the product, and those rounded
Terms(x)    == [y \in 0 .. NB - 1 |-> a[Row(x) * NB + y] * b[y * NB + Column(x)]]
Products(x) == [y \in 0 .. NB - 1 |-> Float(Terms(x)[y])]

(***************************************************************************)
(* What main prints is the product up to a cell and 0 behind it, also when *)
(* the enclave is lost and main does not look (App.cpp:606), and as long   *)
(* as a double holds its sum a cell is off from that of its rounded        *)
(* products by one rounding only, however many there are (Enclave.cpp:74). *)
(***************************************************************************)
CellsAreNearest ==
    NB <= Cap =>
      \A x \in Square(NB) :
         LET sum == Sum(Products(x), NB)
         IN  /\ x < written /\ sum <= Wide => c[x] = Float(sum)
             /\ x >= written => c[x] = 0

(***************************************************************************)
(* A cell is as good as three roundings are, each off by no more than one  *)
(* part in Exact: of its products, of all of a double's sums together, and *)
(* of the store to c, also when the double's sums are not exact            *)
(* (Enclave.cpp:74-85).  Sums kept in a float would be worse.              *)
(***************************************************************************)
CellsAreAccurate ==
    NB <= Cap =>
      \A x \in Square(NB) :
         LET exact == Sum(Terms(x), NB)
             off   == IF c[x] > exact THEN c[x] - exact ELSE exact - c[x]
         IN  x < written =>
               Exact * Exact * Exact * off <= (3 * Exact * Exact + 3 * Exact + 1) * exact

(***************************************************************************)
(* NB fits the copies or it does not: up to Cap no cell of the product     *)
(* reads past the end of one, above it every single cell does              *)
(* (App.cpp:591 against Enclave_t.c:98-103).                               *)
(***************************************************************************)
AllOrNoneStray == \A x \in 0 .. written - 1 : x \in stray <=> NB > Cap

\* The rows of a one-dimensional matrix
Rows(m, n) == [r \in 0 .. n - 1 |-> [s \in 0 .. n - 1 |-> m[r * n + s]]]

\* c, with the cell in work as far as it is in tmp
Partial(n) ==
    [r \in 0 .. n - 1 |-> [s \in 0 .. n - 1 |->
       IF pc = "k" /\ r = i /\ s = j THEN tmp ELSE c[r * n + s]]]

Plain(n) == INSTANCE MatMulPlain WITH
    N <- n, Inputs <- [0 .. n - 1 -> [0 .. n - 1 -> 0 .. Exact]],
    mat1 <- Rows(a, n), mat2 <- Rows(b, n), res <- Partial(n),
    pc <- CASE pc = "ecall" -> "i" [] pc = "print" -> "done" [] OTHER -> pc

(***************************************************************************)
(* The second product main prints is that of mat_multiply_no_sgx           *)
(* (App.cpp:617).  As long as the ecall lives, NB fits and the floats are  *)
(* exact, the enclave computes the same, step by step.                     *)
(***************************************************************************)
FollowsPlain ==
    [][\A n \in Sides :
         NB = n /\ n <= Cap /\ ~lost' /\ ~big' => [Plain(n)!Next]_(Plain(n)!vars)]_vars
==============================================================================
