-------------------------------- MODULE Sums --------------------------------
(***************************************************************************)
(* Sums of integers over a finite set, which the totals, merges and joins  *)
(* of Report and Growth are.                                               *)
(***************************************************************************)
EXTENDS Integers, FiniteSets, FiniteSetsExt

\* The sum of f over the members of S.
SumOver(f, S) == MapThenSumSet(LAMBDA x : f[x], S)

\* The sum of all that f has.
Sum(f) == SumOver(f, DOMAIN f)
=============================================================================
