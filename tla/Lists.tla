------------------------------- MODULE Lists -------------------------------
(***************************************************************************)
(* Membership in a sequence, the number of times a value is in it, and     *)
(* sequences of numbers in increasing order.                               *)
(***************************************************************************)
EXTENDS Integers, Sequences, FiniteSets

In(x, q) == \E k \in 1..Len(q) : q[k] = x

Occurrences(x, q) == Cardinality({k \in 1..Len(q) : q[k] = x})

Increasing(o) == \A i, j \in DOMAIN o : i < j => o[i] < o[j]

=============================================================================
