------------------------------- MODULE Ordering -------------------------------
(***************************************************************************)
(* The rows of a query with an ORDER BY, as a sequence.                    *)
(***************************************************************************)
EXTENDS Integers, FiniteSets

\* A set in the order that before, a set of pairs, gives it: element number i is the one
\* that i - 1 others come before.
InOrder(S, before) ==
    [i \in 1 .. Cardinality(S) |->
       CHOOSE x \in S : Cardinality({y \in S : <<y, x>> \in before}) = i - 1]
=============================================================================
