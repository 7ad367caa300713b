---------------------------- MODULE MCRedisQueue ----------------------------
(***************************************************************************)
(* RedisQueue on small instances: model values for messages, consumers,    *)
(* handlers and stamps, which the specification treats alike.              *)
(***************************************************************************)
EXTENDS RedisQueue, TLC

(* Messages, handlers, consumers and stamps are interchangeable.           *)
Symm == Permutations(Msgs) \cup Permutations(Handlers)
        \cup Permutations(Consumers) \cup Permutations(Stamps)

(* Two environment events of these kinds in a behaviour: two Redis errors, *)
(* or an error and a Nack, in any order.                                   *)
TwoEvents == faults + nacks <= 2

=============================================================================
