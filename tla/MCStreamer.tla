----------------------------- MODULE MCStreamer -----------------------------
(***************************************************************************)
(* Streamer on small instances; streamers are interchangeable.             *)
(***************************************************************************)
EXTENDS Streamer, TLC

Symm == Permutations(Streamers)

=============================================================================
