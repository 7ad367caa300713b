---------------------------- MODULE AtLeastOnce ----------------------------
(***************************************************************************)
(* What the queue service promises its producers and consumers: a message  *)
(* once accepted stays owed until it is acknowledged or dead-lettered, or  *)
(* until a failure loses it; nothing is delivered that was not published.  *)
(* RedisQueue is shown to implement it.                                    *)
(***************************************************************************)
EXTENDS Naturals

CONSTANT Msgs

VARIABLES
    published,  \* messages the queue accepted
    owed,       \* messages it will still deliver
    acked,      \* messages a consumer acknowledged
    dead,       \* messages in the dead-letter queue
    lost,       \* messages of which a failure dropped a copy
    failures    \* failed commands and stopped processes so far

vars == <<published, owed, acked, dead, lost, failures>>

Init ==
    /\ published = {} /\ owed = {} /\ acked = {} /\ dead = {} /\ lost = {}
    /\ failures = 0

MaybeFailing == failures' \in {failures, failures + 1}

Publish(m) ==
    /\ m \notin published
    /\ published' = published \cup {m} /\ owed' = owed \cup {m}
    /\ UNCHANGED <<acked, dead, lost, failures>>

(* Another copy of m may be under way: then m stays owed.                  *)
Ack(m) ==
    /\ m \in published
    /\ acked' = acked \cup {m} /\ owed' \in {owed, owed \ {m}}
    /\ UNCHANGED <<published, dead, lost, failures>>

DeadLetter(m) ==
    /\ m \in published
    /\ dead' = dead \cup {m} /\ owed' \in {owed, owed \ {m}}
    /\ MaybeFailing
    /\ UNCHANGED <<published, acked, lost>>

(* At least once, not exactly once: a settled message may come back.       *)
Redeliver(m) ==
    /\ m \in published
    /\ owed' = owed \cup {m}
    /\ MaybeFailing
    /\ UNCHANGED <<published, acked, dead, lost>>

(* Only a failure takes messages away, and it takes no others than S.      *)
Fail(S) ==
    /\ MaybeFailing /\ failures' > 0
    /\ lost' = lost \cup S
    /\ owed' \subseteq owed /\ owed \subseteq owed' \cup S
    /\ dead' \subseteq dead /\ dead \subseteq dead' \cup S
    /\ UNCHANGED <<published, acked>>

Next ==
    \/ \E m \in Msgs : Publish(m) \/ Ack(m) \/ DeadLetter(m) \/ Redeliver(m)
    \/ \E S \in SUBSET published : Fail(S)

Spec == Init /\ [][Next]_vars

-----------------------------------------------------------------------------
(* What a producer may rely on, whoever implements the queue: a published  *)
(* message is owed, settled or lost, nothing else is owed, and without a   *)
(* failure nothing is lost.                                                *)
Promise ==
    /\ published \subseteq owed \cup acked \cup dead \cup lost
    /\ owed \cup acked \cup dead \cup lost \subseteq published
    /\ failures \in Nat /\ (lost # {} => failures > 0)

=============================================================================
