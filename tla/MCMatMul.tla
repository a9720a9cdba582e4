------------------------------ MODULE MCMatMul ------------------------------
(* TLC instances of the multiplications: 2 x 2 matrices of 3-bit integers,  *)
(* of small and of overflowing products.                                    *)
EXTENDS MatMulSgx

Row(x, y) == [c \in 0..1 |-> IF c = 0 THEN x ELSE y]
Square(a, b, c, d) == [r \in 0..1 |-> IF r = 0 THEN Row(a, b) ELSE Row(c, d)]
SomeMatrices == {Square(1, 1, 1, 1), Square(1, 2, 3, 4), Square(7, 5, 0, 3)}
=============================================================================
