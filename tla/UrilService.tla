---------------------------- MODULE UrilService ----------------------------
(***************************************************************************)
(* What the service promises its clients, and all that the client library *)
(* relies on: a response goes out on a connection only for a request that *)
(* came in on it with the same unique_id, at most once per request, and    *)
(* never on a connection that is closed.  It promises no order, and no     *)
(* answer; and nothing on a connection that is void, as one is that the    *)
(* service takes for a connection that has been deleted.                   *)
(*                                                                         *)
(* MessageTracker implements this specification; UrilClient composes the   *)
(* library with it.                                                        *)
(***************************************************************************)
EXTENDS Naturals

CONSTANTS Connections, Ids

VARIABLES
  asked,     \* [Connections -> [Ids -> requests that came in]]
  answered,  \* [Connections -> [Ids -> responses that went out]]
  closed,    \* the connections that are closed
  void       \* the connections the promise does not hold for

Init ==
  /\ asked = [c \in Connections |-> [u \in Ids |-> 0]]
  /\ answered = [c \in Connections |-> [u \in Ids |-> 0]]
  /\ closed = {} /\ void = {}

(* A request comes in. *)
Ask(c, u) ==
  /\ c \notin closed
  /\ asked' = [asked EXCEPT ![c][u] = @ + 1]
  /\ UNCHANGED <<answered, closed, void>>

(* A response goes out. *)
Answer(c, u) ==
  /\ c \notin closed
  /\ answered[c][u] < asked[c][u]
  /\ answered' = [answered EXCEPT ![c][u] = @ + 1]
  /\ UNCHANGED <<asked, closed, void>>

(* A response goes out on a connection taken for another. *)
Stray(c, u) ==
  /\ c \notin closed
  /\ answered' = [answered EXCEPT ![c][u] = @ + 1]
  /\ void' = void \cup {c}
  /\ UNCHANGED <<asked, closed>>

(* A connection ends; what is open on it is never answered. *)
Close(c) ==
  /\ c \notin closed
  /\ closed' = closed \cup {c}
  /\ UNCHANGED <<asked, answered, void>>

Next ==
  \E c \in Connections :
    Close(c) \/ \E u \in Ids : Ask(c, u) \/ Answer(c, u) \/ Stray(c, u)

Spec == Init /\ [][Next]_<<asked, answered, closed, void>>
=============================================================================
