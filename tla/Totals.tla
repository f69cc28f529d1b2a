-------------------------------- MODULE Totals --------------------------------
(***************************************************************************)
(* The sum of a function with natural values over a finite domain, by      *)
(* counting one pair per unit.  The definition needs no recursion, so it   *)
(* can be reasoned about with the theorems on cardinalities.               *)
(***************************************************************************)
EXTENDS Naturals, FiniteSets

Units(f, x) == {x} \X (1..f[x])

Total(f) == Cardinality(UNION {Units(f, x) : x \in DOMAIN f})

=============================================================================
