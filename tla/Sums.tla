-------------------------------- MODULE Sums --------------------------------
(***************************************************************************)
(* Sums over finite sets, in a form that can be both evaluated and proved  *)
(* about: the loops that add up numbers in the code are such sums.         *)
(***************************************************************************)
EXTENDS Integers, FiniteSets

\* The sum of the numbers f[n]: the size of sets of f[n] elements, put together.
AddUp(f) == Cardinality(UNION {{n} \X (1 .. f[n]) : n \in DOMAIN f})

=============================================================================
