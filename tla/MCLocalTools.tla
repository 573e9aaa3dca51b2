--------------------------- MODULE MCLocalTools ---------------------------
(* LocalTools for TLC: how often things happen.                             *)
EXTENDS LocalTools

SmallBudget == [calls |-> 3, changes |-> 1]

TinyBudget == [calls |-> 2, changes |-> 0]

=============================================================================
