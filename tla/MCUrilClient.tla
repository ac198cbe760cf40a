---------------------------- MODULE MCUrilClient ----------------------------
(* Small instances of UrilClient for TLC. *)
EXTENDS UrilClient, TLC

(* Where to stop: once a command has been issued across a new              *)
(* initialisation, the library promises nothing more: crossed stays TRUE   *)
(* and excuses the properties of the run that uses this, or leaves only    *)
(* what the theorems show of any use (NestedSyncNeedsOtherThread).         *)
NotCrossed == ~crossed
=============================================================================
