----------------------------- MODULE MCCollector -----------------------------
(***************************************************************************)
(* Collector on small instances; workers are interchangeable, and so are   *)
(* the messages of equal validity.                                         *)
(***************************************************************************)
EXTENDS Collector, TLC

Symm == Permutations(Workers) \cup Permutations(Msgs \ Bad)

=============================================================================
