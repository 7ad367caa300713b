--------------------------- MODULE MCInMemoryQueue ---------------------------
(***************************************************************************)
(* InMemoryQueue on small instances; messages and handlers are             *)
(* interchangeable.                                                        *)
(***************************************************************************)
EXTENDS InMemoryQueue, TLC

Symm == Permutations(Msgs) \cup Permutations(Handlers)

=============================================================================
