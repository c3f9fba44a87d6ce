---------------------------------- MODULE Sums ----------------------------------
(***************************************************************************)
(* The sum of a family of numbers, counted instead of folded: what a fold    *)
(* computes is an induction over its set, how a set of pairs grows is not.   *)
(***************************************************************************)
EXTENDS Naturals, FiniteSets

\* A pair for every unit of every number of the family.
Units(f) == UNION {{x} \X (1..f[x]) : x \in DOMAIN f}

SumOf(f) == Cardinality(Units(f))
=============================================================================
