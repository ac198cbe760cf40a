------------------------------ MODULE Commands ------------------------------
(***************************************************************************)
(* What the client library promises for the commands it is given.  A call  *)
(* returns once.  Its callback is run at most once: never before the call  *)
(* is made, never for an asynchronous command that failed, and before the  *)
(* return of a synchronous one that succeeds.  For an asynchronous command *)
(* the callback may be faster than the return, and after a synchronous one *)
(* that failed it may still be run.                                        *)
(*                                                                         *)
(* The commands are independent of each other, so that several may take a *)
(* step at once: a callback that issues a command is such a step.          *)
(***************************************************************************)
EXTENDS Naturals

CONSTANTS Calls, SyncCalls

VARIABLES
  made,    \* the calls that have been made
  result,  \* [Calls -> "none", then what the call returned, "ok" or "fail"]
  told,    \* [Calls -> times the callback has been run]
  void     \* the promise is void: the application did what it must not do

vars == <<made, result, told, void>>

Init ==
  /\ made = {}
  /\ result = [c \in Calls |-> "none"]
  /\ told = [c \in Calls |-> 0]
  /\ ~void

Make(c) == c \in made' \ made /\ UNCHANGED <<result[c], told[c]>>

(* The call returns, when it is made (it fails then) or later. *)
Return(c) ==
  /\ result[c] = "none"
  /\ c \in made'
  /\ \/ /\ result'[c] = "ok" /\ c \in made
        /\ c \in SyncCalls => told[c] = 1
     \/ /\ result'[c] = "fail"
        /\ c \notin SyncCalls => told[c] = 0
  /\ UNCHANGED told[c]

Tell(c) ==
  /\ c \in made
  /\ told[c] = 0
  /\ c \in SyncCalls \/ result[c] # "fail"
  /\ told'[c] = 1
  /\ UNCHANGED <<c \in made, result[c]>>

Rest(c) == UNCHANGED <<c \in made, result[c], told[c]>>

Next == void' \/ \A c \in Calls : Make(c) \/ Return(c) \/ Tell(c) \/ Rest(c)

Spec == Init /\ [][Next]_vars
=============================================================================
