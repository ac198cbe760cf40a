-------------------------- MODULE MCMessageTracker --------------------------
(* Small instances of MessageTracker for TLC. *)
EXTENDS MessageTracker, TLC

Symmetric == Permutations(Threads) \cup Permutations(Connections)
=============================================================================
