-------------------------------- MODULE Sums --------------------------------
(***************************************************************************)
(* Sums of natural numbers over finite sets, stated without recursion: one *)
(* token for every unit of every summand, and the sum is the number of     *)
(* tokens.  So the theorems about finite sets apply to sums, where a fold  *)
(* would call for an induction over the set.                               *)
(***************************************************************************)
EXTENDS Integers, FiniteSets

\* One token for each unit of f[x], for the elements x of S.
Tokens(f, S) == UNION {{x} \X (1 .. f[x]) : x \in S}

\* The sum of f[x], x in S, where every f[x] is a natural number.
SumOver(f, S) == Cardinality(Tokens(f, S))
=============================================================================
