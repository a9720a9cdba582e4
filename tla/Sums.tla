-------------------------------- MODULE Sums --------------------------------
(* The sum that a counting loop adds up: f[0] + ... + f[n-1].                *)
EXTENDS Integers

Sum(f, n) == LET s[m \in Nat] == IF m = 0 THEN 0 ELSE s[m-1] + f[m-1] IN s[n]
=============================================================================
