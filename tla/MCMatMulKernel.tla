--------------------------- MODULE MCMatMulKernel ---------------------------
(* TLC instance of MatMulKernel: matrices smaller than, as large as and      *)
(* larger than the copies.  Some sums are exact in a float, some in a double *)
(* only, some in neither.  main's fillings, all 1 and all 2, are among these *)
(* with two values, one of them in the first row or in every fifth place.    *)
EXTENDS MatMulKernel

OneFiveSix == {1, 5, 6}
Values == {<<1, 1>>, <<2, 2>>, <<32, 1>>, <<32, 31>>, <<7, 19>>}
SomeFillings ==
    {[x \in 0 .. 35 |-> IF x < 5 THEN v[1] ELSE v[2]] : v \in Values} \union
    {[x \in 0 .. 35 |-> IF x % 5 = 0 THEN v[1] ELSE v[2]] : v \in Values}
SomeJunk == {5}
==============================================================================
