------------------------------- MODULE Totals -------------------------------
(* Sums that the properties count with. *)
EXTENDS FiniteSetsExt

\* The sum of f over S.
Total(f, S) == MapThenSumSet(LAMBDA x : f[x], S)
=============================================================================
