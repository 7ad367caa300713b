--------------------------- MODULE MCQueueClient ---------------------------
(***************************************************************************)
(* QueueClient on a small instance: one topic, where every call meets      *)
(* every other.                                                            *)
(***************************************************************************)
EXTENDS QueueClient

CONSTANTS t1

OneTopic == [m \in Msgs |-> t1]

=============================================================================
