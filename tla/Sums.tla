-------------------------------- MODULE Sums --------------------------------
(* Sums of the values of a function.                                        *)
EXTENDS FiniteSetsExt, Integers

\* The sum of f[x] for all x in S.
SumOf(f, S) == MapThenSumSet(LAMBDA x : f[x], S)
=============================================================================
