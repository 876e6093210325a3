-------------------------------- MODULE Sums --------------------------------
(***************************************************************************)
(* The running sums the code keeps while it walks over sizes, counts and   *)
(* durations.  They are written as a recursive function, of which          *)
(* SharedProofs proves what a fold would have to be believed for.          *)
(***************************************************************************)
EXTENDS Integers

(* What stands in front of the n-th place, the places from n on, summed.   *)
SumTo(f, n) ==
  LET upto[j \in 0..n] == IF j = 0 THEN 0 ELSE upto[j - 1] + f[j]
  IN  upto[n]
=============================================================================
