-------------------------------- MODULE Sums --------------------------------
(***************************************************************************)
(* The sum of a table of amounts.  A database SUM(...) over the rows of    *)
(* one account is held as a function on 1 .. n, so that the sum can be     *)
(* written as a recursive function; SumTheorems proves what it computes.   *)
(***************************************************************************)
EXTENDS Integers

\* PrefixSum(f, n)[k] = f[1] + ... + f[k]
PrefixSum(f, n) ==
  LET s[i \in 0 .. n] == IF i = 0 THEN 0 ELSE s[i - 1] + f[i]
  IN  s

SumTo(f, n) == PrefixSum(f, n)[n]
=============================================================================
