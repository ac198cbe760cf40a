--------------------------- MODULE MessageTracker ---------------------------
(***************************************************************************)
(* service/src/MessageTracker.cpp: the routing of requests and responses   *)
(* between the client connections and the modem adapter.                   *)
(*                                                                         *)
(* The tracker remembers, for every unique_id, the connection a request    *)
(* with that id arrived on, and sends the response with that id back to    *)
(* it.  Requests arrive on one pump thread per connection; responses and   *)
(* indications arrive on threads of the vendor RIL (and on the detached    *)
(* thread of getRadioModeV1), so mPendingRequests is shared under          *)
(* mRequestsLock and everything outside the lock interleaves.              *)
(*                                                                         *)
(* The adapter is the environment here: it accepts or refuses a dispatched *)
(* request and answers an accepted one, in any order.  Two of its threads  *)
(* may answer one request (AndroidRilAdapter, RaceNeedsTwoThreads); the    *)
(* answers after the first may come from freed memory.  The client numbers *)
(* its requests with a counter of its own process.                         *)
(***************************************************************************)
EXTENDS Naturals, FiniteSets

CONSTANTS
  Connections,   \* the connection objects, one per accepted socket
  Threads,       \* the threads on which the adapter calls processResponse
  MaxUid,        \* bound: ids a client uses (the code's counter is a uint32_t)
  MaxInd,        \* bound: indications the modem raises
  MaxAgain,      \* bound: answers to requests that have been answered
  NoConnection   \* nullptr

Uids == 1..MaxUid

ASSUME ConstantsAssumption ==
  /\ MaxUid \in Nat
  /\ MaxInd \in Nat /\ MaxAgain \in Nat
  /\ NoConnection \notin Connections

VARIABLES
  up,                \* the service runs; FALSE after a use of freed memory
  mPendingRequests,  \* [Uids -> connection or nullptr]; an absent key is nullptr
  live,              \* [Connections -> "none", "open" or "deleted"]
  nextUid,           \* [Connections -> id the client of the connection used last]
  pump,              \* [Connections -> id tracked and not yet dispatched, 0 if none]
  adapter,           \* requests the adapter has accepted and not yet answered
  job,               \* [Threads -> what the thread is doing in processResponse]
  raised,            \* indications raised so far
  again,             \* answers so far to requests that had been answered
  \* history of what happened, read by the properties only
  received,          \* <<connection, id>> of every request tracked
  accepted,          \* requests the adapter ever accepted
  sent,              \* [Connections -> [Uids -> responses sent with that id]]
  misrouted,         \* requests whose response went to another connection
  dropped,           \* requests whose response found no connection
  odd,               \* <<request, id>> of the answers that carried another id than
                     \* that of their request, or were not the first one to it
  failed,            \* requests whose response did not get to the connection
                     \* that the map gave for it
  owed,              \* connections deleted while the tracker still referred to
                     \* them, or found by a torn copy after they were deleted
  staleUse,          \* connections used after they were deleted
  reached            \* connections a response got to through a deleted one

vars == <<up, mPendingRequests, live, nextUid, pump, adapter, job, raised, again,
          received, accepted, sent, misrouted, dropped, odd, failed, owed, staleUse,
          reached>>

history == <<received, accepted, sent, misrouted, dropped, odd, failed, owed,
             staleUse, reached>>

(* A request as the adapter holds it.  Only uid is known to the code;      *)
(* origin is who really asked.                                             *)
Request == [uid : Uids, origin : Connections]

Idle == [kind |-> "idle"]
ResponseJob == [kind : {"response"}, uid : Uids, to : Connections, req : Request]
IndicationJob == [kind : {"copying", "indication"}, todo : SUBSET Connections]
Job == {Idle} \cup ResponseJob \cup IndicationJob

Init ==
  /\ up = TRUE
  /\ mPendingRequests = [u \in Uids |-> NoConnection]
  /\ live = [c \in Connections |-> "none"]
  /\ nextUid = [c \in Connections |-> 0]
  /\ pump = [c \in Connections |-> 0]
  /\ adapter = {}
  /\ job = [t \in Threads |-> Idle]
  /\ raised = 0
  /\ again = 0
  /\ received = {}
  /\ accepted = {}
  /\ sent = [c \in Connections |-> [u \in Uids |-> 0]]
  /\ misrouted = {}
  /\ dropped = {}
  /\ odd = {}
  /\ failed = {}
  /\ owed = {}
  /\ staleUse = {}
  /\ reached = {}

-----------------------------------------------------------------------------
(* A new connection; the tracker registers as its observer.  The client   *)
(* may be a fresh process (last = 0) or one that initialises again, whose *)
(* counter goes on.                                                        *)
onNewConnection(c, last) ==
  /\ up /\ live[c] = "none"
  /\ live' = [live EXCEPT ![c] = "open"]
  /\ nextUid' = [nextUid EXCEPT ![c] = last]
  /\ UNCHANGED <<up, mPendingRequests, pump, adapter, job, raised, again, history>>

(* What the tracker can still reach a connection through: an entry of the *)
(* map, or a thread inside processResponse.                                *)
Referred(c) ==
  \/ \E u \in Uids : mPendingRequests[u] = c
  \/ \E t \in Threads : \/ job[t].kind = "response" /\ job[t].to = c
                        \/ job[t].kind = "indication" /\ c \in job[t].todo

(* Mutant: a disconnect forgets the requests of every connection. *)
onClientDisconnected_ClearsMap(c) ==
  /\ up /\ live[c] = "open" /\ pump[c] = 0
  /\ live' = [live EXCEPT ![c] = "deleted"]
  /\ mPendingRequests' = [u \in Uids |-> NoConnection]
  /\ owed' = IF Referred(c) THEN owed \cup {c} ELSE owed
  /\ UNCHANGED <<up, nextUid, pump, adapter, job, raised, again, received, accepted,
                 sent, misrouted, dropped, odd, failed, staleUse, reached>>

(* The client hung up: the tracker stops observing the connection, which  *)
(* is deleted.  Its entries of mPendingRequests stay.                      *)
onClientDisconnected(c) ==
  /\ up /\ live[c] = "open" /\ pump[c] = 0
  /\ live' = [live EXCEPT ![c] = "deleted"]
  /\ owed' = IF Referred(c) THEN owed \cup {c} ELSE owed
  /\ UNCHANGED <<up, mPendingRequests, nextUid, pump, adapter, job, raised, again,
                 received, accepted, sent, misrouted, dropped, odd, failed, staleUse,
                 reached>>

(* onMessageReceived and the locked half of trackAndDispatchRequest: the  *)
(* entry of the id is overwritten whoever it belonged to.                  *)
Track(c) ==
  LET u == nextUid[c] + 1 IN
  /\ up /\ live[c] = "open" /\ pump[c] = 0
  /\ u \in Uids
  /\ nextUid' = [nextUid EXCEPT ![c] = u]
  /\ mPendingRequests' = [mPendingRequests EXCEPT ![u] = c]
  /\ pump' = [pump EXCEPT ![c] = u]
  /\ received' = received \cup {<<c, u>>}
  /\ UNCHANGED <<up, live, adapter, job, raised, again, accepted, sent, misrouted,
                 dropped, odd, failed, owed, staleUse, reached>>

(* The unlocked half: mNextProcessor->processRequest.  Its result is      *)
(* ignored, so a refused request keeps its entry.                          *)
Dispatch(c, ok) ==
  LET r == [uid |-> pump[c], origin |-> c] IN
  /\ up /\ pump[c] # 0
  /\ pump' = [pump EXCEPT ![c] = 0]
  /\ \/ /\ ok
        /\ adapter' = adapter \cup {r}
        /\ accepted' = accepted \cup {r}
     \/ /\ ~ok
        /\ UNCHANGED <<adapter, accepted>>
  /\ UNCHANGED <<up, mPendingRequests, live, nextUid, job, raised, again, received,
                 sent, misrouted, dropped, odd, failed, owed, staleUse, reached>>

(* Mutant: the null check of line 102 is missing. *)
Looked_NoNullCheck(t, r, u, c) ==
  /\ job' = [job EXCEPT ![t] =
               [kind |-> "response", uid |-> u, to |-> c, req |-> r]]
  /\ UNCHANGED dropped

(* The outcome of a lookup that read connection c for the answer to r. *)
Looked(t, r, u, c) ==
  \/ /\ c # NoConnection
     /\ job' = [job EXCEPT ![t] =
                  [kind |-> "response", uid |-> u, to |-> c, req |-> r]]
     /\ UNCHANGED dropped
  \/ /\ c = NoConnection
     /\ dropped' = dropped \cup {r}
     /\ UNCHANGED job

(* Mutant: the entry is read and not erased. *)
LookupAndErase_NoErase(t, r, u) ==
  /\ up /\ job[t] = Idle
  /\ Looked(t, r, u, mPendingRequests[u])
  /\ UNCHANGED <<up, mPendingRequests, live, nextUid, pump, raised, received,
                 accepted, sent, misrouted, failed, owed, staleUse, reached>>

(* Mutant: the entry is erased before it is read. *)
LookupAndErase_EraseFirst(t, r, u) ==
  /\ up /\ job[t] = Idle
  /\ mPendingRequests' = [mPendingRequests EXCEPT ![u] = NoConnection]
  /\ Looked(t, r, u, mPendingRequests'[u])
  /\ UNCHANGED <<up, live, nextUid, pump, raised, received, accepted, sent,
                 misrouted, failed, owed, staleUse, reached>>

(* processResponse for a response, under mRequestsLock: the entry is read *)
(* and erased at once.                                                     *)
LookupAndErase(t, r, u) ==
  /\ up /\ job[t] = Idle
  /\ mPendingRequests' = [mPendingRequests EXCEPT ![u] = NoConnection]
  /\ Looked(t, r, u, mPendingRequests[u])
  /\ UNCHANGED <<up, live, nextUid, pump, raised, received, accepted, sent,
                 misrouted, failed, owed, staleUse, reached>>

(* The adapter answers a request for the first time: with its id, or with  *)
(* any, since getRadioModeV1 hands its detached thread a reference to its  *)
(* own parameter uniqueId, which is gone when the thread reads it.         *)
Answer(t, r, u) ==
  /\ r \in adapter
  /\ adapter' = adapter \ {r}
  /\ odd' = IF u = r.uid THEN odd ELSE odd \cup {<<r, u>>}
  /\ LookupAndErase(t, r, u)
  /\ UNCHANGED again

(* The adapter answers a request that has been answered: its response is  *)
(* still there and has the id of the request, or is freed and has any id.  *)
AnswerAgain(t, r, u) ==
  /\ again < MaxAgain
  /\ again' = again + 1
  /\ r \in accepted \ adapter
  /\ odd' = odd \cup {<<r, u>>}
  /\ LookupAndErase(t, r, u)
  /\ UNCHANGED adapter

(* The send, after the lock is released.  It fails when the socket buffer *)
(* is full (MSG_DONTWAIT).                                                 *)
SendResponse(t, ok) ==
  LET j == job[t] IN
  /\ up /\ j.kind = "response"
  /\ live[j.to] = "open"
  /\ job' = [job EXCEPT ![t] = Idle]
  /\ sent' = IF ok THEN [sent EXCEPT ![j.to][j.uid] = @ + 1] ELSE sent
  /\ misrouted' = IF j.to # j.req.origin THEN misrouted \cup {j.req} ELSE misrouted
  /\ failed' = IF ok THEN failed ELSE failed \cup {j.req}
  /\ UNCHANGED <<up, mPendingRequests, live, nextUid, pump, adapter, raised, again,
                 received, accepted, dropped, odd, owed, staleUse, reached>>

(* The same through a connection that was deleted meanwhile: nothing is   *)
(* sent, the process dies, or the response goes out on an open connection  *)
(* that got the memory or the descriptor of the deleted one.               *)
SendToDeleted(t) ==
  LET j == job[t] IN
  /\ up /\ j.kind = "response"
  /\ live[j.to] # "open"
  /\ job' = [job EXCEPT ![t] = Idle]
  /\ failed' = failed \cup {j.req}
  /\ staleUse' = staleUse \cup {j.to}
  /\ \/ up' \in BOOLEAN /\ UNCHANGED <<sent, misrouted, reached>>
     \/ \E d \in Connections :
          /\ live[d] = "open"
          /\ sent' = [sent EXCEPT ![d][j.uid] = @ + 1]
          /\ misrouted' = IF d # j.req.origin THEN misrouted \cup {j.req} ELSE misrouted
          /\ reached' = reached \cup {d}
          /\ UNCHANGED up
  /\ UNCHANGED <<mPendingRequests, live, nextUid, pump, adapter, raised, again,
                 received, accepted, dropped, odd, owed>>

(* Mutant: a deleted connection stays in the list. *)
getConnections_KeepsDeleted == {c \in Connections : live[c] # "none"}

(* processResponse for an indication: getConnections copies the list of   *)
(* connections, then the copy is walked without any lock.                  *)
getConnections == {c \in Connections : live[c] = "open"}

BeginIndication(t) ==
  /\ up /\ job[t] = Idle
  /\ raised < MaxInd
  /\ raised' = raised + 1
  /\ job' = [job EXCEPT ![t] = [kind |-> "copying", todo |-> getConnections]]
  /\ UNCHANGED <<up, mPendingRequests, live, nextUid, pump, adapter, again, history>>

(* The copy takes no lock.  When connections come or go during it, it is   *)
(* whatever was read, of those that ever were in the list, or fatal.       *)
CopyConnections(t) ==
  /\ up /\ job[t].kind = "copying"
  /\ \/ /\ job[t].todo = getConnections
        /\ job' = [job EXCEPT ![t] = [kind |-> "indication", todo |-> getConnections]]
        /\ UNCHANGED <<up, owed>>
     \/ /\ job[t].todo # getConnections
        /\ \E read \in SUBSET {c \in Connections : live[c] # "none"} :
             /\ job' = [job EXCEPT ![t] = [kind |-> "indication", todo |-> read]]
             /\ owed' = owed \cup {c \in read : live[c] = "deleted"}
        /\ up' \in BOOLEAN
  /\ UNCHANGED <<mPendingRequests, live, nextUid, pump, adapter, raised, again,
                 received, accepted, sent, misrouted, dropped, odd, failed, staleUse,
                 reached>>

SendIndication(t, c) ==
  /\ up /\ job[t].kind = "indication"
  /\ c \in job[t].todo
  /\ job' = [job EXCEPT ![t] = [kind |-> "indication", todo |-> @.todo \ {c}]]
  /\ staleUse' = IF live[c] = "open" THEN staleUse ELSE staleUse \cup {c}
  /\ up' \in IF live[c] = "open" THEN {TRUE} ELSE BOOLEAN
  /\ UNCHANGED <<mPendingRequests, live, nextUid, pump, adapter, raised, again,
                 received, accepted, sent, misrouted, dropped, odd, failed, owed, reached>>

EndIndication(t) ==
  /\ up /\ job[t].kind = "indication"
  /\ job[t].todo = {}
  /\ job' = [job EXCEPT ![t] = Idle]
  /\ UNCHANGED <<up, mPendingRequests, live, nextUid, pump, adapter, raised, again,
                 history>>

-----------------------------------------------------------------------------
Next ==
  \/ \E c \in Connections :
       \/ \E last \in {0} \cup Uids : onNewConnection(c, last)
       \/ onClientDisconnected(c)
       \/ Track(c)
       \/ \E ok \in BOOLEAN : Dispatch(c, ok)
  \/ \E t \in Threads :
       \/ \E r \in adapter, u \in Uids : Answer(t, r, u)
       \/ \E r \in accepted, u \in Uids : AnswerAgain(t, r, u)
       \/ \E ok \in BOOLEAN : SendResponse(t, ok)
       \/ SendToDeleted(t)
       \/ BeginIndication(t)
       \/ CopyConnections(t)
       \/ \E c \in Connections : SendIndication(t, c)
       \/ EndIndication(t)

Spec == Init /\ [][Next]_vars

(***************************************************************************)
(* Fairness.  A pump thread and a thread inside processResponse run on:    *)
(* nothing blocks them but mRequestsLock, which is held for two map        *)
(* operations.  The vendor RIL completes every request it has accepted.    *)
(***************************************************************************)
Fairness ==
  /\ \A c \in Connections :
       WF_vars(\E ok \in BOOLEAN : Dispatch(c, ok))
  /\ \A t \in Threads :
       /\ WF_vars(SendToDeleted(t) \/ \E ok \in BOOLEAN : SendResponse(t, ok))
       /\ WF_vars(CopyConnections(t))
       /\ WF_vars(\E c \in Connections : SendIndication(t, c))
       /\ WF_vars(EndIndication(t))
  /\ WF_vars(\E t \in Threads, r \in adapter, u \in Uids : Answer(t, r, u))

FairSpec == Spec /\ Fairness

-----------------------------------------------------------------------------
(* Type correctness of the tracker, its environment and the history. *)
TypeOK ==
  /\ up \in BOOLEAN
  /\ mPendingRequests \in [Uids -> Connections \cup {NoConnection}]
  /\ live \in [Connections -> {"none", "open", "deleted"}]
  /\ nextUid \in [Connections -> {0} \cup Uids]
  /\ pump \in [Connections -> {0} \cup Uids]
  /\ adapter \subseteq Request
  /\ job \in [Threads -> Job]
  /\ raised \in 0..MaxInd
  /\ again \in 0..MaxAgain
  /\ received \subseteq Connections \X Uids
  /\ accepted \subseteq Request
  /\ sent \in [Connections -> [Uids -> Nat]]
  /\ misrouted \subseteq Request
  /\ dropped \subseteq Request
  /\ odd \subseteq Request \X Uids
  /\ failed \subseteq Request
  /\ owed \subseteq Connections
  /\ staleUse \subseteq Connections
  /\ reached \subseteq Connections

(* Two connections have used the same id.  The ids of two client processes *)
(* collide as soon as both are running: each counts from zero.             *)
Collision(u) ==
  \E c, d \in Connections : c # d /\ <<c, u>> \in received /\ <<d, u>> \in received

(* Something is odd about the answers to a request: one had another id, or *)
(* was not the first, or its id was taken by such an answer.               *)
Odd(r) == \E a \in odd : a[1] = r \/ a[2] = r.uid

(* A connection never receives more responses with an id than it sent     *)
(* requests with it (processResponse, lines 94-105): the read and the     *)
(* erase under one lock are what keeps a second response with the same id *)
(* from being sent to the same connection, whatever ids collide, whatever  *)
(* id the adapter answers with and however often.  Nothing is said of a    *)
(* connection that took the place of a deleted one (lines 94 to 106 send  *)
(* through the pointer after the lock is gone).                            *)
AtMostOneResponse ==
  \A c \in Connections \ reached, u \in Uids :
    sent[c][u] <= (IF <<c, u>> \in received THEN 1 ELSE 0)

(* A response is sent to another connection than the one that asked, or   *)
(* finds no connection at all (line 106), only when two connections used  *)
(* the same id, an answer carried the id of another request or was not the *)
(* first to its request, or the connection that asked was deleted before.  *)
RoutedHomeUnlessCollision ==
  \A r \in misrouted \cup dropped :
    Collision(r.uid) \/ Odd(r) \/ r.origin \in staleUse

(* A client that hangs up when the tracker no longer refers to its         *)
(* connection (nothing pending under its ids, no thread sending to it) is *)
(* never touched again, unless the unlocked copy of the list was torn.     *)
(* onClientDisconnected does not clear the map, so for the others a later  *)
(* response goes through a deleted object.                                 *)
QuiescentDisconnectIsSafe == staleUse \subseteq owed

(* Requests that came in, counted as UrilService counts them. *)
Asked ==
  [c \in Connections |-> [u \in Uids |-> IF <<c, u>> \in received THEN 1 ELSE 0]]

Contract == INSTANCE UrilService WITH
  Ids <- Uids, asked <- Asked, answered <- sent,
  closed <- {c \in Connections : live[c] = "deleted"}, void <- reached

(* The tracker implements UrilService, which the client library relies on: *)
(* whatever ids collide, whatever ids the adapter answers with and however *)
(* often, every response that goes out on an open connection goes to a     *)
(* request of that connection that has had none (lines 75 and 97-105); the *)
(* contract is void for a connection that got the place of a deleted one.  *)
ServiceKept == Contract!Spec

(* README.md line 17 claims that URIL handles "multiple connections,       *)
(* multiple requests from client".  With two clients connected, a response *)
(* whose id is right still reaches the client that asked.  The code does   *)
(* not keep this: clients number their requests independently and the map *)
(* has one entry per number (line 75).                                     *)
ResponseReachesItsRequester ==
  \A r \in misrouted : Odd(r) \/ r.origin \in staleUse

(* Every request the adapter accepted is eventually answered on the        *)
(* connection it came from, unless the process dies on freed memory, ids   *)
(* collided, an answer had another id or was not the first to its request, *)
(* or the send itself failed (lines 97 to 106).                            *)
AcceptedIsAnswered ==
  \A c \in Connections, u \in Uids :
    LET mine == {r \in accepted : r.uid = u /\ r.origin = c} IN
    mine # {} ~> \/ sent[c][u] > 0
                 \/ ~up
                 \/ Collision(u)
                 \/ \E r \in mine : Odd(r) \/ r \in failed
=============================================================================
