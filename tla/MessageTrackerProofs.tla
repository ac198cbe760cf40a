------------------------ MODULE MessageTrackerProofs ------------------------
(***************************************************************************)
(* Proofs about MessageTracker, for any set of connections and threads and *)
(* any number of ids.                                                      *)
(***************************************************************************)
EXTENDS MessageTracker, TLAPS

(* Thread t is about to send a response with id u to connection c. *)
Sending(t, c, u) == job[t].kind = "response" /\ job[t].to = c /\ job[t].uid = u

(* A client's ids grow, so the next one is new to its connection. *)
UidsGrow ==
  \A c \in Connections, u \in Uids :
    <<c, u>> \in received => u <= nextUid[c] /\ live[c] # "none"

(* An entry of the map stands for a request that nobody has answered yet. *)
PendingIsUnanswered ==
  \A c \in Connections, u \in Uids : mPendingRequests[u] = c =>
    /\ <<c, u>> \in received
    /\ c \in reached \/ sent[c][u] = 0
    /\ \A t \in Threads : ~Sending(t, c, u)

(* So does a response on its way, and no second one is. *)
SendingIsUnanswered ==
  \A c \in Connections, u \in Uids, t \in Threads : Sending(t, c, u) =>
    /\ <<c, u>> \in received
    /\ c \in reached \/ sent[c][u] = 0
    /\ \A s \in Threads : Sending(s, c, u) => s = t

OnceInv ==
  /\ TypeOK
  /\ UidsGrow
  /\ PendingIsUnanswered
  /\ SendingIsUnanswered
  /\ AtMostOneResponse

-----------------------------------------------------------------------------
(* What the three shapes of a job are told apart by. *)
LEMMA JobKinds ==
  ASSUME NEW j \in Job
  PROVE  /\ j.kind = "response" =>
              /\ j.uid \in Uids /\ j.to \in Connections /\ j.req \in Request
              /\ j \in ResponseJob
         /\ j.kind \in {"copying", "indication"} =>
              j.todo \subseteq Connections /\ j \in IndicationJob
         /\ j.kind \in {"idle", "response", "copying", "indication"}
         /\ Idle.kind = "idle"
  BY DEF Job, Idle, ResponseJob, IndicationJob

(* Counting one more response. *)
LEMMA OneMoreSent ==
  ASSUME sent \in [Connections -> [Uids -> Nat]], NEW c \in Connections, NEW u \in Uids
  PROVE  [sent EXCEPT ![c][u] = @ + 1] \in [Connections -> [Uids -> Nat]]
<1>1. sent[c] \in [Uids -> Nat] /\ sent[c][u] + 1 \in Nat
  OBVIOUS
<1>2. [sent[c] EXCEPT ![u] = @ + 1] \in [Uids -> Nat]
  BY <1>1
<1> QED
  BY <1>2

(* TypeOK is preserved by every step of the specification. *)
LEMMA TypeStep == TypeOK /\ [Next]_vars => TypeOK'
<1> SUFFICES ASSUME TypeOK, [Next]_vars PROVE TypeOK'
  OBVIOUS
<1> USE ConstantsAssumption DEF TypeOK, Uids
<1>1. ASSUME NEW c \in Connections, NEW last \in {0} \cup Uids, onNewConnection(c, last)
      PROVE  TypeOK'
  BY <1>1 DEF onNewConnection, history
<1>2. ASSUME NEW c \in Connections, onClientDisconnected(c)
      PROVE  TypeOK'
  BY <1>2 DEF onClientDisconnected
<1>3. ASSUME NEW c \in Connections, Track(c)
      PROVE  TypeOK'
  BY <1>3 DEF Track
<1>4. ASSUME NEW c \in Connections, NEW ok \in BOOLEAN, Dispatch(c, ok)
      PROVE  TypeOK'
  <2>1. [uid |-> pump[c], origin |-> c] \in Request
    BY <1>4 DEF Dispatch, Request
  <2> QED
    BY <1>4, <2>1 DEF Dispatch
<1>5. ASSUME NEW t \in Threads, NEW r \in accepted \cup adapter, NEW u \in Uids,
             Answer(t, r, u) \/ AnswerAgain(t, r, u)
      PROVE  TypeOK'
  <2>0. LookupAndErase(t, r, u) /\ r \in Request
    BY <1>5 DEF Answer, AnswerAgain
  <2>1. ASSUME mPendingRequests[u] # NoConnection
        PROVE  [kind |-> "response", uid |-> u, to |-> mPendingRequests[u], req |-> r] \in Job
    BY <2>0, <2>1 DEF Job, ResponseJob
  <2>2. job' \in [Threads -> Job] /\ dropped' \subseteq Request
    BY <2>0, <2>1 DEF LookupAndErase, Looked
  <2>3. adapter' \subseteq Request /\ odd' \subseteq Request \X Uids
    BY <1>5, <2>0 DEF Answer, AnswerAgain
  <2>4. again' \in 0..MaxAgain
    BY <1>5 DEF Answer, AnswerAgain
  <2> QED
    BY <2>0, <2>2, <2>3, <2>4 DEF LookupAndErase
<1>6. ASSUME NEW t \in Threads, NEW ok \in BOOLEAN, SendResponse(t, ok)
      PROVE  TypeOK'
  <2>1. job[t].uid \in Uids /\ job[t].to \in Connections /\ job[t].req \in Request
    BY <1>6, JobKinds DEF SendResponse
  <2>2. Idle \in Job
    BY DEF Job
  <2>3. job' \in [Threads -> Job]
    BY <1>6, <2>2 DEF SendResponse
  <2>4. sent' \in [Connections -> [Uids -> Nat]]
    BY <1>6, <2>1, OneMoreSent DEF SendResponse
  <2> QED
    BY <1>6, <2>1, <2>3, <2>4 DEF SendResponse
<1>6a. ASSUME NEW t \in Threads, SendToDeleted(t)
       PROVE  TypeOK'
  <2>1. job[t].uid \in Uids /\ job[t].to \in Connections /\ job[t].req \in Request
    BY <1>6a, JobKinds DEF SendToDeleted
  <2>2. Idle \in Job
    BY DEF Job
  <2>3. job' \in [Threads -> Job]
    BY <1>6a, <2>2 DEF SendToDeleted
  <2>4. /\ sent' \in [Connections -> [Uids -> Nat]] /\ reached' \subseteq Connections
        /\ misrouted' \subseteq Request /\ up' \in BOOLEAN
    <3>1. CASE up' \in BOOLEAN /\ UNCHANGED <<sent, misrouted, reached>>
      BY <3>1
    <3>2. ASSUME NEW d \in Connections,
                 sent' = [sent EXCEPT ![d][job[t].uid] = @ + 1],
                 misrouted' = IF d # job[t].req.origin THEN misrouted \cup {job[t].req}
                              ELSE misrouted,
                 reached' = reached \cup {d}, UNCHANGED up
          PROVE  /\ sent' \in [Connections -> [Uids -> Nat]] /\ reached' \subseteq Connections
                 /\ misrouted' \subseteq Request /\ up' \in BOOLEAN
      <4>1. sent' \in [Connections -> [Uids -> Nat]]
        BY <2>1, <3>2, OneMoreSent
      <4> QED
        BY <2>1, <3>2, <4>1
    <3> QED
      BY <1>6a, <3>1, <3>2 DEF SendToDeleted
  <2> QED
    BY <1>6a, <2>1, <2>3, <2>4 DEF SendToDeleted
<1>7. ASSUME NEW t \in Threads, BeginIndication(t)
      PROVE  TypeOK'
  <2>1. [kind |-> "copying", todo |-> getConnections] \in Job
    BY DEF Job, IndicationJob, getConnections
  <2> QED
    BY <1>7, <2>1 DEF BeginIndication, history
<1>7a. ASSUME NEW t \in Threads, CopyConnections(t)
       PROVE  TypeOK'
  <2>1. \A read \in SUBSET Connections : [kind |-> "indication", todo |-> read] \in Job
    BY DEF Job, IndicationJob
  <2>2. PICK read \in SUBSET Connections :
          /\ job' = [job EXCEPT ![t] = [kind |-> "indication", todo |-> read]]
          /\ owed' \subseteq owed \cup read
    BY <1>7a DEF CopyConnections, getConnections
  <2>3. up' \in BOOLEAN
    BY <1>7a DEF CopyConnections
  <2> QED
    BY <1>7a, <2>1, <2>2, <2>3 DEF CopyConnections
<1>8. ASSUME NEW t \in Threads, NEW c \in Connections, SendIndication(t, c)
      PROVE  TypeOK'
  <2>1. [kind |-> "indication", todo |-> job[t].todo \ {c}] \in Job
    BY <1>8, JobKinds DEF SendIndication, Job, IndicationJob
  <2> QED
    BY <1>8, <2>1 DEF SendIndication
<1>9. ASSUME NEW t \in Threads, EndIndication(t)
      PROVE  TypeOK'
  <2>1. Idle \in Job
    BY DEF Job
  <2> QED
    BY <1>9, <2>1 DEF EndIndication, history
<1>10. CASE UNCHANGED vars
  BY <1>10 DEF vars
<1> QED
  BY <1>1, <1>2, <1>3, <1>4, <1>5, <1>6, <1>6a, <1>7, <1>7a, <1>8, <1>9, <1>10 DEF Next

(* The initial state is well typed. *)
LEMMA TypeInit == Init => TypeOK
  BY ConstantsAssumption DEF Init, TypeOK, Uids, Job

(* The tracker, the model of the adapter and the history variables keep    *)
(* their types: in particular a response on its way always has a           *)
(* connection (the null check of processResponse, line 102).               *)
THEOREM TypeCorrect == Spec => []TypeOK
  BY TypeInit, TypeStep, PTL DEF Spec

-----------------------------------------------------------------------------
(* The strengthened invariant of at-most-one-response is inductive.        *)
(* Track adds a pair that UidsGrow shows to be new; LookupAndErase moves   *)
(* the claim on an answer from the map to one thread; SendResponse spends  *)
(* it.                                                                     *)
LEMMA OnceStep == OnceInv /\ [Next]_vars => OnceInv'
<1> SUFFICES ASSUME OnceInv, [Next]_vars PROVE OnceInv'
  OBVIOUS
<1> USE ConstantsAssumption DEF OnceInv
<1>0. TypeOK'
  BY TypeStep
<1>a. /\ mPendingRequests \in [Uids -> Connections \cup {NoConnection}]
      /\ nextUid \in [Connections -> Nat]
      /\ job \in [Threads -> Job]
      /\ sent \in [Connections -> [Uids -> Nat]]
      /\ Uids \subseteq Nat
  BY DEF TypeOK, Uids
<1> DEFINE Same == /\ mPendingRequests' = mPendingRequests
                   /\ received' = received /\ sent' = sent /\ reached' = reached
                   /\ \A t \in Threads, c \in Connections, u \in Uids :
                        Sending(t, c, u)' <=> Sending(t, c, u)
<1>b. ASSUME Same, UidsGrow' PROVE OnceInv'
  BY <1>0, <1>b DEF PendingIsUnanswered, SendingIsUnanswered, AtMostOneResponse
<1>1. ASSUME NEW c \in Connections, NEW last \in {0} \cup Uids, onNewConnection(c, last)
      PROVE  OnceInv'
  <2>1. UidsGrow'
    BY <1>1, <1>a DEF onNewConnection, history, UidsGrow, TypeOK
  <2> QED
    BY <1>1, <1>b, <2>1 DEF onNewConnection, history, Sending
<1>2. ASSUME NEW c \in Connections, onClientDisconnected(c)
      PROVE  OnceInv'
  <2>1. UidsGrow'
    BY <1>2, <1>a DEF onClientDisconnected, UidsGrow, TypeOK
  <2> QED
    BY <1>2, <1>b, <2>1 DEF onClientDisconnected, Sending
<1>3. ASSUME NEW c \in Connections, Track(c)
      PROVE  OnceInv'
  <2> DEFINE v == nextUid[c] + 1
  <2>0. nextUid[c] \in Nat /\ v \in Uids /\ ~(v <= nextUid[c])
    <3>1. nextUid[c] \in Nat
      BY <1>a
    <3>2. v \in Uids
      BY <1>3 DEF Track
    <3>3. ~(v <= nextUid[c])
      BY <3>1
    <3> QED
      BY <3>1, <3>2, <3>3
  <2>1. /\ v \in Uids /\ <<c, v>> \notin received
        /\ nextUid' = [nextUid EXCEPT ![c] = v]
        /\ mPendingRequests' = [mPendingRequests EXCEPT ![v] = c]
        /\ received' = received \cup {<<c, v>>}
        /\ reached' = reached /\ job' = job /\ sent' = sent /\ live' = live /\ live[c] = "open"
    BY <1>3, <2>0 DEF Track, UidsGrow
  <2>c. \A u \in Uids : u <= nextUid[c] => u <= v
    BY <2>0, <1>a
  <2>d. v <= v
    BY <2>0
  <2> HIDE DEF v
  <2>2. (c \in reached \/ sent[c][v] = 0) /\ \A t \in Threads : ~Sending(t, c, v)
    <3>1. sent[c][v] \in Nat /\ (c \in reached \/ sent[c][v] <= 0)
      BY <2>1, <1>a DEF AtMostOneResponse
    <3> QED
      BY <2>1, <3>1 DEF SendingIsUnanswered
  <2>3. UidsGrow'
    <3> SUFFICES ASSUME NEW d \in Connections, NEW u \in Uids, <<d, u>> \in received'
                 PROVE  u <= nextUid'[d] /\ live'[d] # "none"
      BY DEF UidsGrow
    <3>1. CASE d = c
      BY <2>1, <2>c, <2>d, <1>a, <3>1 DEF UidsGrow
    <3>2. CASE d # c
      BY <2>1, <1>a, <3>2 DEF UidsGrow
    <3> QED
      BY <3>1, <3>2
  <2>4. PendingIsUnanswered'
    <3> SUFFICES ASSUME NEW d \in Connections, NEW u \in Uids, mPendingRequests'[u] = d
                 PROVE  /\ <<d, u>> \in received'
                        /\ d \in reached' \/ sent'[d][u] = 0
                        /\ \A t \in Threads : ~Sending(t, d, u)'
      BY DEF PendingIsUnanswered
    <3>1. CASE u = v
      BY <1>a, <2>1, <2>2, <3>1 DEF Sending
    <3>2. CASE u # v
      BY <1>a, <2>1, <3>2 DEF Sending, PendingIsUnanswered
    <3> QED
      BY <3>1, <3>2
  <2>5. SendingIsUnanswered'
    BY <2>1 DEF Sending, SendingIsUnanswered
  <2>6. AtMostOneResponse'
    <3> SUFFICES ASSUME NEW d \in Connections \ reached, NEW u \in Uids
                 PROVE  sent[d][u] <= (IF <<d, u>> \in received' THEN 1 ELSE 0)
      BY <2>1 DEF AtMostOneResponse
    <3>1. sent[d][u] \in Nat /\ sent[d][u] <= (IF <<d, u>> \in received THEN 1 ELSE 0)
      BY <1>a DEF AtMostOneResponse
    <3>2. <<d, u>> \in received => <<d, u>> \in received'
      BY <2>1
    <3> QED
      BY <3>1, <3>2
  <2> QED
    BY <1>0, <2>3, <2>4, <2>5, <2>6
<1>4. ASSUME NEW c \in Connections, NEW ok \in BOOLEAN, Dispatch(c, ok)
      PROVE  OnceInv'
  <2>1. UidsGrow'
    BY <1>4 DEF Dispatch, UidsGrow
  <2> QED
    BY <1>4, <1>b, <2>1 DEF Dispatch, Sending
<1>5. ASSUME NEW t \in Threads, NEW r \in accepted \cup adapter, NEW u \in Uids,
             Answer(t, r, u) \/ AnswerAgain(t, r, u)
      PROVE  OnceInv'
  <2>0. LookupAndErase(t, r, u)
    BY <1>5 DEF Answer, AnswerAgain
  <2>1. UidsGrow'
    BY <2>0 DEF LookupAndErase, UidsGrow
  <2>2. AtMostOneResponse'
    BY <2>0 DEF LookupAndErase, AtMostOneResponse
  <2>3. ASSUME NEW s \in Threads, NEW d \in Connections, NEW w \in Uids, Sending(s, d, w)'
        PROVE  Sending(s, d, w) \/ (s = t /\ w = u /\ d = mPendingRequests[u])
    BY <2>0, <1>a, <2>3 DEF LookupAndErase, Looked, Sending
  <2>4. ASSUME NEW d \in Connections, NEW w \in Uids, mPendingRequests'[w] = d
        PROVE  w # u /\ mPendingRequests[w] = d
    BY <2>0, <1>a, <2>4 DEF LookupAndErase
  <2>5. received' = received /\ sent' = sent /\ reached' = reached
    BY <2>0 DEF LookupAndErase
  <2>6. PendingIsUnanswered'
    BY <2>3, <2>4, <2>5 DEF PendingIsUnanswered
  <2>7. SendingIsUnanswered'
    BY <2>3, <2>5, <1>a DEF SendingIsUnanswered, PendingIsUnanswered
  <2> QED
    BY <1>0, <2>1, <2>2, <2>6, <2>7
<1>6. ASSUME NEW t \in Threads, NEW ok \in BOOLEAN, SendResponse(t, ok)
      PROVE  OnceInv'
  <2> DEFINE c == job[t].to
             v == job[t].uid
  <2>1. c \in Connections /\ v \in Uids /\ Sending(t, c, v)
    BY <1>6, <1>a, JobKinds DEF SendResponse, Sending
  <2>2. /\ <<c, v>> \in received /\ mPendingRequests[v] # c
        /\ c \in reached \/ sent[c][v] = 0
    BY <2>1 DEF SendingIsUnanswered, PendingIsUnanswered
  <2>3. ASSUME NEW s \in Threads, NEW d \in Connections, NEW w \in Uids, Sending(s, d, w)'
        PROVE  Sending(s, d, w) /\ ~(d = c /\ w = v)
    <3>1. s # t /\ Sending(s, d, w)
      BY <1>6, <1>a, <2>3, JobKinds DEF SendResponse, Sending
    <3>2. ASSUME d = c, w = v PROVE FALSE
      BY <3>1, <3>2, <2>1 DEF SendingIsUnanswered
    <3> QED
      BY <3>1, <3>2
  <2>4. ASSUME NEW d \in Connections \ reached, NEW w \in Uids
        PROVE  sent'[d][w] = IF ok /\ d = c /\ w = v THEN 1 ELSE sent[d][w]
    BY <1>6, <1>a, <2>1, <2>2 DEF SendResponse
  <2>5. received' = received /\ mPendingRequests' = mPendingRequests /\ reached' = reached
    BY <1>6 DEF SendResponse
  <2>6. UidsGrow'
    BY <1>6 DEF SendResponse, UidsGrow
  <2>7. PendingIsUnanswered'
    BY <2>2, <2>3, <2>4, <2>5 DEF PendingIsUnanswered
  <2>8. SendingIsUnanswered'
    BY <2>3, <2>4, <2>5 DEF SendingIsUnanswered
  <2>9. AtMostOneResponse'
    <3> SUFFICES ASSUME NEW d \in Connections \ reached, NEW w \in Uids
                 PROVE  sent'[d][w] <= (IF <<d, w>> \in received' THEN 1 ELSE 0)
      BY <2>5 DEF AtMostOneResponse
    <3> HIDE DEF c, v
    <3>1. CASE d = c /\ w = v
      BY <3>1, <2>2, <2>4, <2>5
    <3>2. CASE ~(d = c /\ w = v)
      BY <3>2, <2>4, <2>5 DEF AtMostOneResponse
    <3> QED
      BY <3>1, <3>2
  <2> QED
    BY <1>0, <2>6, <2>7, <2>8, <2>9
<1>6a. ASSUME NEW t \in Threads, SendToDeleted(t)
       PROVE  OnceInv'
  <2>1. job[t].uid \in Uids
    BY <1>6a, <1>a, JobKinds DEF SendToDeleted
  <2>2. ASSUME NEW s \in Threads, NEW d \in Connections, NEW w \in Uids, Sending(s, d, w)'
        PROVE  Sending(s, d, w)
    BY <1>6a, <1>a, <2>2, JobKinds DEF SendToDeleted, Sending
  <2>3. /\ received' = received /\ mPendingRequests' = mPendingRequests
        /\ reached \subseteq reached'
    BY <1>6a DEF SendToDeleted
  <2>4. ASSUME NEW d \in Connections, d \notin reached', NEW w \in Uids
        PROVE  sent'[d][w] = sent[d][w]
    <3>1. CASE sent' = sent
      BY <3>1
    <3>2. ASSUME NEW e \in Connections,
                 sent' = [sent EXCEPT ![e][job[t].uid] = @ + 1], reached' = reached \cup {e}
          PROVE  sent'[d][w] = sent[d][w]
      BY <1>a, <2>4, <3>2
    <3> QED
      BY <1>6a, <3>1, <3>2 DEF SendToDeleted
  <2>5. UidsGrow'
    BY <1>6a DEF SendToDeleted, UidsGrow
  <2>6. PendingIsUnanswered'
    BY <2>2, <2>3, <2>4 DEF PendingIsUnanswered
  <2>7. SendingIsUnanswered'
    BY <2>2, <2>3, <2>4 DEF SendingIsUnanswered
  <2>8. AtMostOneResponse'
    BY <2>3, <2>4 DEF AtMostOneResponse
  <2> QED
    BY <1>0, <2>5, <2>6, <2>7, <2>8
<1>7. ASSUME NEW t \in Threads, BeginIndication(t)
      PROVE  OnceInv'
  <2>1. UidsGrow'
    BY <1>7 DEF BeginIndication, history, UidsGrow
  <2> QED
    BY <1>7, <1>a, <1>b, <2>1, JobKinds DEF BeginIndication, history, Sending
<1>7a. ASSUME NEW t \in Threads, CopyConnections(t)
       PROVE  OnceInv'
  <2>1. UidsGrow'
    BY <1>7a DEF CopyConnections, UidsGrow
  <2>2. PICK read : job' = [job EXCEPT ![t] = [kind |-> "indication", todo |-> read]]
    BY <1>7a DEF CopyConnections
  <2>3. job[t].kind = "copying"
    BY <1>7a DEF CopyConnections
  <2>4. \A s \in Threads, c \in Connections, u \in Uids :
          Sending(s, c, u)' <=> Sending(s, c, u)
    BY <1>a, <2>2, <2>3 DEF Sending
  <2> QED
    BY <1>7a, <1>b, <2>1, <2>4 DEF CopyConnections
<1>8. ASSUME NEW t \in Threads, NEW c \in Connections, SendIndication(t, c)
      PROVE  OnceInv'
  <2>1. UidsGrow'
    BY <1>8 DEF SendIndication, UidsGrow
  <2> QED
    BY <1>8, <1>a, <1>b, <2>1 DEF SendIndication, Sending
<1>9. ASSUME NEW t \in Threads, EndIndication(t)
      PROVE  OnceInv'
  <2>1. UidsGrow'
    BY <1>9 DEF EndIndication, history, UidsGrow
  <2> QED
    BY <1>9, <1>a, <1>b, <2>1, JobKinds DEF EndIndication, history, Sending
<1>10. CASE UNCHANGED vars
  BY <1>10, <1>b DEF vars, UidsGrow, Sending
<1> QED
  BY <1>1, <1>2, <1>3, <1>4, <1>5, <1>6, <1>6a, <1>7, <1>7a, <1>8, <1>9, <1>10 DEF Next

(* Initially nothing is pending, on its way or sent. *)
LEMMA OnceInit == Init => OnceInv
<1> SUFFICES ASSUME Init PROVE OnceInv
  OBVIOUS
<1>1. TypeOK
  BY TypeInit
<1>2. UidsGrow /\ AtMostOneResponse
  BY DEF Init, UidsGrow, AtMostOneResponse
<1>3. PendingIsUnanswered
  BY ConstantsAssumption DEF Init, PendingIsUnanswered
<1>4. SendingIsUnanswered
  BY DEF Init, SendingIsUnanswered, Sending, Idle
<1> QED
  BY <1>1, <1>2, <1>3, <1>4 DEF OnceInv

(* A connection never receives two responses with one id, nor one with an *)
(* id it did not use: processResponse reads and erases the entry of the    *)
(* map under one lock.  It holds for clients whose ids collide and for an  *)
(* adapter that answers with an arbitrary id and more than once; not for a *)
(* connection that took the place of a deleted one.                        *)
THEOREM AtMostOnce == Spec => []AtMostOneResponse
<1>1. Spec => []OnceInv
  BY OnceInit, OnceStep, PTL DEF Spec
<1>2. OnceInv => AtMostOneResponse
  BY DEF OnceInv
<1> QED
  BY <1>1, <1>2, PTL

-----------------------------------------------------------------------------
(* A step that changes neither what was asked, nor what was answered, nor *)
(* which connections are closed is a stutter of the contract.              *)
LEMMA ContractStutters ==
  ASSUME received' = received, sent' = sent, reached' = reached,
         \A d \in Connections : live'[d] = "deleted" <=> live[d] = "deleted"
  PROVE  /\ Asked' = Asked /\ sent' = sent /\ reached' = reached
         /\ {c \in Connections : live[c] = "deleted"}'
              = {c \in Connections : live[c] = "deleted"}
  BY DEF Asked

(* Every step of the tracker is a step of UrilService or none: Track is    *)
(* Ask, a send that succeeds is Answer, the deletion of a connection is    *)
(* Close.  That Answer is allowed is SendingIsUnanswered; that Ask counts  *)
(* one more is UidsGrow.  A response that reaches a connection through a  *)
(* deleted one is Stray, and so is every later one on that connection.     *)
LEMMA ContractStep ==
  OnceInv /\ [Next]_vars
    => [Contract!Next]_<<Asked, sent, {c \in Connections : live[c] = "deleted"}, reached>>
<1> DEFINE Closed == {c \in Connections : live[c] = "deleted"}
<1> SUFFICES ASSUME OnceInv, [Next]_vars
             PROVE  Contract!Next \/ UNCHANGED <<Asked, sent, Closed, reached>>
  OBVIOUS
<1> USE ConstantsAssumption
<1>a. /\ nextUid \in [Connections -> Nat]
      /\ job \in [Threads -> Job]
      /\ sent \in [Connections -> [Uids -> Nat]]
      /\ live \in [Connections -> {"none", "open", "deleted"}]
      /\ UidsGrow /\ SendingIsUnanswered
  BY DEF OnceInv, TypeOK, Uids
<1>b. ASSUME received' = received, sent' = sent, reached' = reached,
             \A d \in Connections : live'[d] = "deleted" <=> live[d] = "deleted"
      PROVE  UNCHANGED <<Asked, sent, Closed, reached>>
  BY <1>b, ContractStutters
<1>1. ASSUME NEW c \in Connections, NEW last \in {0} \cup Uids, onNewConnection(c, last)
      PROVE  UNCHANGED <<Asked, sent, Closed, reached>>
  BY <1>1, <1>a, <1>b DEF onNewConnection, history
<1>2. ASSUME NEW c \in Connections, onClientDisconnected(c)
      PROVE  Contract!Next
  <2>1. c \notin Closed /\ Closed' = Closed \cup {c}
    BY <1>2, <1>a DEF onClientDisconnected
  <2>2. Asked' = Asked /\ sent' = sent /\ reached' = reached
    BY <1>2 DEF onClientDisconnected, Asked
  <2>3. Contract!Close(c)
    BY <2>1, <2>2 DEF Contract!Close
  <2> QED
    BY <2>3 DEF Contract!Next
<1>3. ASSUME NEW c \in Connections, Track(c)
      PROVE  Contract!Next
  <2> DEFINE v == nextUid[c] + 1
  <2>1. v \in Uids /\ <<c, v>> \notin received
    <3>1. nextUid[c] \in Nat /\ v \in Uids
      BY <1>3, <1>a DEF Track
    <3>2. ~(v <= nextUid[c])
      BY <3>1
    <3> QED
      BY <3>1, <3>2, <1>a DEF UidsGrow
  <2>2. received' = received \cup {<<c, v>>} /\ sent' = sent /\ live' = live
        /\ live[c] = "open" /\ reached' = reached
    BY <1>3 DEF Track
  <2> HIDE DEF v
  <2>3. Asked' = [Asked EXCEPT ![c][v] = @ + 1]
    <3>1. Asked' = [d \in Connections |-> [u \in Uids |->
                      IF d = c /\ u = v THEN 1 ELSE Asked[d][u]]]
      BY <2>1, <2>2 DEF Asked
    <3>2. Asked[c][v] + 1 = 1
      BY <2>1 DEF Asked
    <3>3. Asked \in [Connections -> [Uids -> Nat]]
      BY DEF Asked
    <3> QED
      BY <3>1, <3>2, <3>3, <2>1
  <2>4. c \notin Closed /\ Closed' = Closed
    BY <2>2
  <2>5. Contract!Ask(c, v)
    BY <2>2, <2>3, <2>4 DEF Contract!Ask
  <2> QED
    BY <2>1, <2>5 DEF Contract!Next
<1>4. ASSUME NEW c \in Connections, NEW ok \in BOOLEAN, Dispatch(c, ok)
      PROVE  UNCHANGED <<Asked, sent, Closed, reached>>
  BY <1>4, <1>b DEF Dispatch
<1>5. ASSUME NEW t \in Threads, NEW r \in accepted \cup adapter, NEW u \in Uids,
             Answer(t, r, u) \/ AnswerAgain(t, r, u)
      PROVE  UNCHANGED <<Asked, sent, Closed, reached>>
  <2>1. LookupAndErase(t, r, u)
    BY <1>5 DEF Answer, AnswerAgain
  <2> QED
    BY <1>b, <2>1 DEF LookupAndErase
<1>6. ASSUME NEW t \in Threads, NEW ok \in BOOLEAN, SendResponse(t, ok)
      PROVE  Contract!Next \/ UNCHANGED <<Asked, sent, Closed, reached>>
  <2> DEFINE c == job[t].to
             v == job[t].uid
  <2>1. c \in Connections /\ v \in Uids /\ Sending(t, c, v)
    BY <1>6, <1>a, JobKinds DEF SendResponse, Sending
  <2>2. <<c, v>> \in received /\ (c \in reached \/ sent[c][v] = 0)
    BY <2>1, <1>a DEF SendingIsUnanswered
  <2>3. received' = received /\ live' = live /\ reached' = reached
    BY <1>6 DEF SendResponse
  <2>4. CASE ~ok
    BY <1>6, <1>b, <2>3, <2>4 DEF SendResponse
  <2>5. CASE ok
    <3>1. sent' = [sent EXCEPT ![c][v] = @ + 1] /\ live[c] = "open"
      BY <1>6, <2>5 DEF SendResponse
    <3> HIDE DEF c, v
    <3>2. c \in reached \/ sent[c][v] < Asked[c][v]
      BY <2>1, <2>2 DEF Asked
    <3>3. Asked' = Asked /\ Closed' = Closed /\ c \notin Closed
      BY <2>3, <3>1 DEF Asked
    <3>4. CASE c \in reached
      <4>1. reached' = reached \cup {c}
        BY <2>3, <3>4
      <4>2. Contract!Stray(c, v)
        BY <3>1, <3>3, <4>1 DEF Contract!Stray
      <4> QED
        BY <2>1, <4>2 DEF Contract!Next
    <3>5. CASE sent[c][v] < Asked[c][v]
      <4>1. Contract!Answer(c, v)
        BY <2>3, <3>1, <3>3, <3>5 DEF Contract!Answer
      <4> QED
        BY <2>1, <4>1 DEF Contract!Next
    <3> QED
      BY <3>2, <3>4, <3>5
  <2> QED
    BY <2>4, <2>5
<1>6a. ASSUME NEW t \in Threads, SendToDeleted(t)
       PROVE  Contract!Next \/ UNCHANGED <<Asked, sent, Closed, reached>>
  <2> DEFINE v == job[t].uid
  <2>1. v \in Uids
    BY <1>6a, <1>a, JobKinds DEF SendToDeleted
  <2>2. received' = received /\ live' = live
    BY <1>6a DEF SendToDeleted
  <2>3. CASE UNCHANGED <<sent, reached>>
    BY <1>b, <2>2, <2>3
  <2>4. ASSUME NEW d \in Connections, live[d] = "open",
               sent' = [sent EXCEPT ![d][v] = @ + 1], reached' = reached \cup {d}
        PROVE  Contract!Next
    <3> HIDE DEF v
    <3>1. Asked' = Asked /\ Closed' = Closed /\ d \notin Closed
      BY <2>2, <2>4 DEF Asked
    <3>2. Contract!Stray(d, v)
      BY <2>4, <3>1 DEF Contract!Stray
    <3> QED
      BY <2>1, <3>2 DEF Contract!Next
  <2> QED
    BY <1>6a, <2>3, <2>4 DEF SendToDeleted
<1>7. ASSUME NEW t \in Threads, BeginIndication(t)
      PROVE  UNCHANGED <<Asked, sent, Closed, reached>>
  BY <1>7, <1>b DEF BeginIndication, history
<1>7a. ASSUME NEW t \in Threads, CopyConnections(t)
       PROVE  UNCHANGED <<Asked, sent, Closed, reached>>
  BY <1>7a, <1>b DEF CopyConnections
<1>8. ASSUME NEW t \in Threads, NEW c \in Connections, SendIndication(t, c)
      PROVE  UNCHANGED <<Asked, sent, Closed, reached>>
  BY <1>8, <1>b DEF SendIndication
<1>9. ASSUME NEW t \in Threads, EndIndication(t)
      PROVE  UNCHANGED <<Asked, sent, Closed, reached>>
  BY <1>9, <1>b DEF EndIndication, history
<1>10. ASSUME UNCHANGED vars
       PROVE  UNCHANGED <<Asked, sent, Closed, reached>>
  BY <1>10, <1>b DEF vars
<1> QED
  BY <1>1, <1>2, <1>3, <1>4, <1>5, <1>6, <1>6a, <1>7, <1>7a, <1>8, <1>9, <1>10 DEF Next

(* Initially nothing was asked, nothing answered and nothing closed. *)
LEMMA ContractInit == Init => Contract!Init
  BY DEF Init, Contract!Init, Asked

(* The tracker implements the service that the client library relies on,  *)
(* for any number of connections, threads and ids, colliding ids and       *)
(* answers with arbitrary ids included.                                    *)
THEOREM ServiceImplemented == Spec => ServiceKept
<1>1. Spec => []OnceInv
  BY OnceInit, OnceStep, PTL DEF Spec
<1> QED
  BY <1>1, ContractInit, ContractStep, PTL DEF Spec, ServiceKept, Contract!Spec

-----------------------------------------------------------------------------
(* Why the response with an id may go astray. *)
Excused(u) == Collision(u) \/ \E a \in odd : a[2] = u

(* Why the response to a request may. *)
Astray(r) == Collision(r.uid) \/ Odd(r) \/ r.origin \in staleUse

(* Everything in flight was really asked for, under the id it carries. *)
Genuine ==
  /\ adapter \subseteq accepted
  /\ \A r \in accepted : <<r.origin, r.uid>> \in received
  /\ \A u \in Uids : mPendingRequests[u] # NoConnection =>
       <<mPendingRequests[u], u>> \in received
  /\ \A t \in Threads : job[t].kind = "response" =>
       /\ job[t].req \in accepted
       /\ <<job[t].to, job[t].uid>> \in received
       /\ job[t].uid = job[t].req.uid \/ <<job[t].req, job[t].uid>> \in odd
  /\ misrouted \cup dropped \subseteq accepted

(* A request that has been tracked and not dispatched is not yet known to *)
(* the adapter.                                                            *)
PumpIsFresh ==
  \A c \in Connections, u \in Uids : pump[c] = u =>
    /\ <<c, u>> \in received
    /\ \A r \in accepted : ~(r.origin = c /\ r.uid = u)

(* A request that is not answered yet still has an entry, unless excused. *)
EntryKept ==
  \A u \in Uids :
    \/ \E r \in adapter : r.uid = u
    \/ \E c \in Connections : pump[c] = u
    => mPendingRequests[u] # NoConnection \/ Excused(u)

RouteInv ==
  /\ OnceInv
  /\ Genuine
  /\ PumpIsFresh
  /\ EntryKept
  /\ RoutedHomeUnlessCollision

(* An excuse is never taken back: received, odd and staleUse only grow. *)
LEMMA ExcusedForever ==
  ASSUME received \subseteq received', odd \subseteq odd', staleUse \subseteq staleUse'
  PROVE  /\ \A u \in Uids : Excused(u) => Excused(u)'
         /\ \A r \in Request : Astray(r) => Astray(r)'
  BY DEF Excused, Astray, Odd, Collision

(* An excuse of its id is one of the request. *)
LEMMA ExcusedIsAstray ==
  ASSUME NEW r \in Request, Excused(r.uid)
  PROVE  Astray(r)
  BY DEF Excused, Astray, Odd

(* Two different origins of one id are a collision. *)
LEMMA TwoOrigins ==
  ASSUME NEW c \in Connections, NEW d \in Connections, NEW u \in Uids, c # d,
         <<c, u>> \in received, <<d, u>> \in received
  PROVE  Excused(u)
  BY DEF Excused, Collision

(* The strengthened invariant of routing is inductive.  The entry of an    *)
(* unanswered request disappears only in LookupAndErase, for the answer to *)
(* that request, to one of another connection with the same id (a          *)
(* collision) or to one that carries an arbitrary id.                      *)
LEMMA RouteStep == RouteInv /\ [Next]_vars => RouteInv'
<1> SUFFICES ASSUME RouteInv, [Next]_vars PROVE RouteInv'
  OBVIOUS
<1> USE ConstantsAssumption DEF RouteInv
<1>0. OnceInv'
  BY OnceStep
<1>a. TypeOK /\ TypeOK' /\ UidsGrow
  BY <1>0 DEF OnceInv
<1>b. /\ mPendingRequests \in [Uids -> Connections \cup {NoConnection}]
      /\ pump \in [Connections -> {0} \cup Uids]
      /\ job \in [Threads -> Job]
      /\ adapter \subseteq Request /\ accepted \subseteq Request
      /\ misrouted \subseteq Request /\ dropped \subseteq Request
      /\ \A r \in Request : r.uid \in Uids /\ r.origin \in Connections
  BY <1>a DEF TypeOK, Request
<1> DEFINE Quiet == /\ mPendingRequests' = mPendingRequests
                    /\ pump' = pump /\ adapter' = adapter
                    /\ received' = received /\ accepted' = accepted
                    /\ misrouted' = misrouted /\ dropped' = dropped
                    /\ odd' = odd /\ staleUse \subseteq staleUse'
                    /\ \A t \in Threads : job'[t].kind = "response" => job'[t] = job[t]
<1>c. ASSUME Quiet PROVE RouteInv'
  <2>1. Genuine' /\ PumpIsFresh'
    BY <1>c DEF Genuine, PumpIsFresh
  <2>2. EntryKept' /\ RoutedHomeUnlessCollision'
    BY <1>b, <1>c, ExcusedForever DEF EntryKept, RoutedHomeUnlessCollision, Astray
  <2> QED
    BY <1>0, <2>1, <2>2
<1>1. ASSUME NEW c \in Connections, NEW last \in {0} \cup Uids, onNewConnection(c, last)
      PROVE  RouteInv'
  BY <1>1, <1>c DEF onNewConnection, history
<1>2. ASSUME NEW c \in Connections, onClientDisconnected(c)
      PROVE  RouteInv'
  BY <1>2, <1>c DEF onClientDisconnected
<1>3. ASSUME NEW c \in Connections, Track(c)
      PROVE  RouteInv'
  <2> DEFINE v == nextUid[c] + 1
  <2>0. nextUid[c] \in Nat
    BY <1>a DEF TypeOK, Uids
  <2>1. /\ v \in Uids /\ <<c, v>> \notin received
        /\ mPendingRequests' = [mPendingRequests EXCEPT ![v] = c]
        /\ pump' = [pump EXCEPT ![c] = v]
        /\ received' = received \cup {<<c, v>>}
        /\ adapter' = adapter /\ accepted' = accepted /\ job' = job
        /\ misrouted' = misrouted /\ dropped' = dropped
        /\ odd' = odd /\ staleUse' = staleUse
    BY <1>3, <1>a, <2>0 DEF Track, UidsGrow
  <2> HIDE DEF v
  <2>2. /\ \A u \in Uids : Excused(u) => Excused(u)'
        /\ \A q \in Request : Astray(q) => Astray(q)'
    BY <2>1, ExcusedForever
  <2>3. Genuine'
    BY <2>1, <1>b DEF Genuine
  <2>4. PumpIsFresh'
    BY <2>1, <1>b DEF PumpIsFresh, Genuine
  <2>5. c # NoConnection
    OBVIOUS
  <2>6. EntryKept'
    BY <2>1, <2>2, <2>5, <1>b DEF EntryKept
  <2>7. RoutedHomeUnlessCollision'
    BY <2>1, <2>2, <1>b DEF RoutedHomeUnlessCollision, Astray
  <2> QED
    BY <1>0, <2>3, <2>4, <2>6, <2>7
<1>4. ASSUME NEW c \in Connections, NEW ok \in BOOLEAN, Dispatch(c, ok)
      PROVE  RouteInv'
  <2> DEFINE v == pump[c]
             r == [uid |-> v, origin |-> c]
  <2>1. v \in Uids /\ 0 \notin Uids
    BY <1>4, <1>b DEF Dispatch, Uids
  <2>2. /\ pump' = [pump EXCEPT ![c] = 0]
        /\ mPendingRequests' = mPendingRequests /\ received' = received
        /\ job' = job /\ misrouted' = misrouted /\ dropped' = dropped
        /\ odd' = odd /\ staleUse' = staleUse
        /\ \/ adapter' = adapter \cup {r} /\ accepted' = accepted \cup {r}
           \/ adapter' = adapter /\ accepted' = accepted
    BY <1>4 DEF Dispatch
  <2>3. r.uid = v /\ r.origin = c /\ <<c, v>> \in received
    BY <2>1 DEF PumpIsFresh
  <2> HIDE DEF r, v
  <2>4. /\ \A u \in Uids : Excused(u) => Excused(u)'
        /\ \A q \in Request : Astray(q) => Astray(q)'
    BY <2>2, ExcusedForever
  <2>5. Genuine'
    BY <2>2, <2>3 DEF Genuine
  <2>6. PumpIsFresh'
    <3> SUFFICES ASSUME NEW d \in Connections, NEW u \in Uids, pump'[d] = u
                 PROVE  /\ <<d, u>> \in received
                        /\ \A q \in accepted' : ~(q.origin = d /\ q.uid = u)
      BY <2>2 DEF PumpIsFresh
    <3>1. d # c /\ pump[d] = u
      BY <2>1, <2>2, <1>b
    <3> QED
      BY <3>1, <2>2, <2>3 DEF PumpIsFresh
  <2>7. EntryKept'
    <3> SUFFICES ASSUME NEW u \in Uids,
                        (\E q \in adapter' : q.uid = u) \/ (\E d \in Connections : pump'[d] = u)
                 PROVE  mPendingRequests[u] # NoConnection \/ Excused(u)
      BY <2>2, <2>4 DEF EntryKept
    <3>1. pump[c] = v
      BY DEF v
    <3>2. (\E q \in adapter : q.uid = u) \/ (\E d \in Connections : pump[d] = u)
      BY <2>1, <2>2, <2>3, <3>1, <1>b
    <3> QED
      BY <3>2 DEF EntryKept
  <2>8. RoutedHomeUnlessCollision'
    BY <2>2, <2>4, <1>b DEF RoutedHomeUnlessCollision, Astray
  <2> QED
    BY <1>0, <2>5, <2>6, <2>7, <2>8
<1>5. ASSUME NEW t \in Threads, NEW r \in accepted \cup adapter, NEW u \in Uids,
             Answer(t, r, u) \/ AnswerAgain(t, r, u)
      PROVE  RouteInv'
  <2>0. LookupAndErase(t, r, u)
    BY <1>5 DEF Answer, AnswerAgain
  <2>1. /\ mPendingRequests' = [mPendingRequests EXCEPT ![u] = NoConnection]
        /\ pump' = pump /\ received' = received /\ accepted' = accepted
        /\ misrouted' = misrouted /\ staleUse' = staleUse
    BY <2>0 DEF LookupAndErase
  <2>2. /\ adapter' \subseteq adapter /\ odd \subseteq odd'
        /\ \/ r \in adapter /\ adapter' = adapter \ {r} /\ r.uid = u
           \/ <<r, u>> \in odd'
    BY <1>5 DEF Answer, AnswerAgain
  <2>3. r \in accepted /\ r \in Request /\ r.uid \in Uids /\ r.origin \in Connections
    BY <1>b DEF Genuine
  <2>4. /\ \A w \in Uids : Excused(w) => Excused(w)'
        /\ \A q \in Request : Astray(q) => Astray(q)'
    BY <2>1, <2>2, ExcusedForever
  <2>5. \/ /\ mPendingRequests[u] # NoConnection
           /\ job' = [job EXCEPT ![t] = [kind |-> "response", uid |-> u,
                                        to |-> mPendingRequests[u], req |-> r]]
           /\ dropped' = dropped
        \/ /\ mPendingRequests[u] = NoConnection
           /\ dropped' = dropped \cup {r}
           /\ job' = job
    BY <2>0 DEF LookupAndErase, Looked
  <2>6. Genuine'
    <3>1. \A w \in Uids : mPendingRequests'[w] # NoConnection =>
            <<mPendingRequests'[w], w>> \in received
      BY <2>1, <1>b DEF Genuine
    <3>2. ASSUME NEW s \in Threads, job'[s].kind = "response"
          PROVE  /\ job'[s].req \in accepted
                 /\ <<job'[s].to, job'[s].uid>> \in received
                 /\ job'[s].uid = job'[s].req.uid \/ <<job'[s].req, job'[s].uid>> \in odd'
      <4>1. CASE job'[s] = job[s]
        BY <2>2, <3>2, <4>1 DEF Genuine
      <4>2. CASE job'[s] # job[s]
        <5>1. /\ mPendingRequests[u] # NoConnection
              /\ job'[s] = [kind |-> "response", uid |-> u,
                            to |-> mPendingRequests[u], req |-> r]
          BY <2>5, <1>b, <4>2
        <5> QED
          BY <5>1, <2>2, <2>3 DEF Genuine
      <4> QED
        BY <4>1, <4>2
    <3>3. misrouted' \cup dropped' \subseteq accepted
      BY <2>1, <2>3, <2>5 DEF Genuine
    <3>4. adapter' \subseteq accepted /\ \A q \in accepted : <<q.origin, q.uid>> \in received
      BY <2>2 DEF Genuine
    <3> QED
      BY <2>1, <3>1, <3>2, <3>3, <3>4 DEF Genuine
  <2>7. PumpIsFresh'
    BY <2>1 DEF PumpIsFresh
  <2>8. EntryKept'
    <3> SUFFICES ASSUME NEW w \in Uids,
                        (\E q \in adapter' : q.uid = w) \/ (\E d \in Connections : pump[d] = w)
                 PROVE  mPendingRequests'[w] # NoConnection \/ Excused(w)'
      BY <2>1 DEF EntryKept
    <3>1. CASE w # u
      BY <2>1, <2>2, <2>4, <3>1, <1>b DEF EntryKept
    <3>2. CASE w = u /\ <<r, u>> \in odd'
      BY <3>2 DEF Excused
    <3>3. CASE w = u /\ r \in adapter /\ adapter' = adapter \ {r} /\ r.uid = u
      <4>0. r.uid = w /\ <<r.origin, w>> \in received
        BY <2>3, <3>3 DEF Genuine
      <4>1. ASSUME NEW q \in adapter, q # r, q.uid = w
            PROVE  Excused(w)
        <5>1. q.origin # r.origin
          BY <4>0, <4>1, <2>3, <1>b DEF Request
        <5>2. <<q.origin, w>> \in received /\ q.origin \in Connections
          BY <4>1, <1>b DEF Genuine
        <5> QED
          BY <5>1, <5>2, <4>0, <2>3, TwoOrigins
      <4>2. ASSUME NEW d \in Connections, pump[d] = w
            PROVE  Excused(w)
        <5>1. <<d, w>> \in received /\ d # r.origin
          BY <4>0, <4>2, <2>3 DEF PumpIsFresh
        <5> QED
          BY <5>1, <4>0, <2>3, TwoOrigins
      <4> QED
        BY <4>1, <4>2, <2>4, <3>3
    <3> QED
      BY <2>2, <3>1, <3>2, <3>3
  <2>9. RoutedHomeUnlessCollision'
    <3>1. ASSUME mPendingRequests[u] = NoConnection PROVE Astray(r)'
      <4>1. CASE <<r, u>> \in odd'
        BY <4>1 DEF Astray, Odd
      <4>2. CASE r \in adapter /\ r.uid = u
        <5>1. Excused(u)
          BY <3>1, <4>2 DEF EntryKept
        <5> QED
          BY <2>3, <2>4, <4>2, <5>1, ExcusedIsAstray
      <4> QED
        BY <2>2, <4>1, <4>2
    <3>2. \A q \in misrouted \cup dropped : Astray(q)'
      BY <2>4, <1>b DEF RoutedHomeUnlessCollision, Astray
    <3>3. \A q \in misrouted' \cup dropped' : Astray(q)'
      BY <3>1, <3>2, <2>1, <2>5
    <3> QED
      BY <3>3 DEF RoutedHomeUnlessCollision, Astray
  <2> QED
    BY <1>0, <2>6, <2>7, <2>8, <2>9
<1>6. ASSUME NEW t \in Threads, (\E ok \in BOOLEAN : SendResponse(t, ok)) \/ SendToDeleted(t)
      PROVE  RouteInv'
  <2>0. PICK r : r = job[t].req
    OBVIOUS
  <2>1. /\ mPendingRequests' = mPendingRequests /\ pump' = pump /\ adapter' = adapter
        /\ received' = received /\ accepted' = accepted /\ dropped' = dropped
        /\ odd' = odd /\ staleUse \subseteq staleUse'
        /\ job' = [job EXCEPT ![t] = Idle]
        /\ \/ misrouted' = misrouted
           \/ misrouted' = misrouted \cup {r} /\ (job[t].to # r.origin \/ job[t].to \in staleUse')
        /\ job[t].kind = "response"
    <3>1. ASSUME NEW ok \in BOOLEAN, SendResponse(t, ok) 
          PROVE  /\ mPendingRequests' = mPendingRequests /\ pump' = pump
                 /\ adapter' = adapter /\ received' = received /\ accepted' = accepted
                 /\ dropped' = dropped /\ odd' = odd /\ staleUse' = staleUse
                 /\ job' = [job EXCEPT ![t] = Idle] /\ job[t].kind = "response"
                 /\ \/ misrouted' = misrouted
                    \/ misrouted' = misrouted \cup {r} /\ job[t].to # r.origin
      BY <2>0, <3>1 DEF SendResponse
    <3>2. CASE SendToDeleted(t)
      BY <2>0, <3>2 DEF SendToDeleted
    <3> QED
      BY <1>6, <3>1, <3>2
  <2>2. /\ r \in accepted /\ r \in Request /\ r.uid \in Uids /\ r.origin \in Connections
        /\ job[t].to \in Connections /\ job[t].uid \in Uids
    BY <2>0, <2>1, <1>b, JobKinds DEF Genuine
  <2>3. job[t].to # r.origin \/ job[t].to \in staleUse' => Astray(r)'
    <3>1. CASE <<r, job[t].uid>> \in odd
      BY <2>1, <3>1 DEF Astray, Odd
    <3>2. CASE job[t].to = r.origin /\ job[t].to \in staleUse'
      BY <3>2 DEF Astray
    <3>3. CASE job[t].uid = r.uid /\ job[t].to # r.origin
      <4>1. <<job[t].to, r.uid>> \in received /\ <<r.origin, r.uid>> \in received
        BY <2>0, <2>1, <2>2, <3>3 DEF Genuine
      <4>2. Excused(r.uid)
        BY <3>3, <4>1, <2>2, TwoOrigins
      <4> QED
        BY <2>1, <2>2, <4>2, ExcusedIsAstray, ExcusedForever
    <3>4. job[t].uid = r.uid \/ <<r, job[t].uid>> \in odd
      BY <2>0, <2>1 DEF Genuine
    <3> QED
      BY <3>1, <3>2, <3>3, <3>4
  <2>4. \A s \in Threads : job'[s].kind = "response" => job'[s] = job[s]
    BY <2>1, <1>b, JobKinds
  <2>5. Genuine'
    BY <2>1, <2>2, <2>4 DEF Genuine
  <2>6. PumpIsFresh'
    BY <2>1 DEF PumpIsFresh
  <2>7. EntryKept'
    BY <2>1, ExcusedForever DEF EntryKept
  <2>8. RoutedHomeUnlessCollision'
    <3>1. \A q \in misrouted \cup dropped : Astray(q)'
      BY <2>1, <1>b, ExcusedForever DEF RoutedHomeUnlessCollision, Astray
    <3>2. \A q \in misrouted' \cup dropped' : Astray(q)'
      BY <2>1, <2>3, <3>1
    <3> QED
      BY <3>2 DEF RoutedHomeUnlessCollision, Astray
  <2> QED
    BY <1>0, <2>5, <2>6, <2>7, <2>8
<1>7. ASSUME NEW t \in Threads, BeginIndication(t)
      PROVE  RouteInv'
  BY <1>7, <1>b, <1>c DEF BeginIndication, history
<1>7a. ASSUME NEW t \in Threads, CopyConnections(t)
       PROVE  RouteInv'
  <2>1. PICK read : job' = [job EXCEPT ![t] = [kind |-> "indication", todo |-> read]]
    BY <1>7a DEF CopyConnections
  <2> QED
    BY <1>7a, <1>b, <1>c, <2>1 DEF CopyConnections
<1>8. ASSUME NEW t \in Threads, NEW c \in Connections, SendIndication(t, c)
      PROVE  RouteInv'
  BY <1>8, <1>b, <1>c DEF SendIndication
<1>9. ASSUME NEW t \in Threads, EndIndication(t)
      PROVE  RouteInv'
  BY <1>9, <1>b, <1>c, JobKinds DEF EndIndication, history
<1>10. CASE UNCHANGED vars
  BY <1>10, <1>c DEF vars
<1> QED
  BY <1>1, <1>2, <1>3, <1>4, <1>5, <1>6, <1>7, <1>7a, <1>8, <1>9, <1>10 DEF Next

(* Initially there is nothing to route. *)
LEMMA RouteInit == Init => RouteInv
<1> SUFFICES ASSUME Init PROVE RouteInv
  OBVIOUS
<1>1. Genuine
  BY DEF Init, Genuine, Idle
<1>2. PumpIsFresh /\ EntryKept
  BY DEF Init, PumpIsFresh, EntryKept, Uids
<1>3. RoutedHomeUnlessCollision
  BY DEF Init, RoutedHomeUnlessCollision
<1> QED
  BY <1>1, <1>2, <1>3, OnceInit DEF RouteInv

(* A response is misrouted or finds no connection only when two            *)
(* connections used its id, an answer had the id of another request or was *)
(* not the first to its request, or the connection that asked had been     *)
(* deleted: routing by unique_id alone (lines 75 and 99) is right for a    *)
(* single client that stays and an adapter that answers once.              *)
THEOREM RoutingCorrect == Spec => []RoutedHomeUnlessCollision
<1>1. Spec => []RouteInv
  BY RouteInit, RouteStep, PTL DEF Spec
<1>2. RouteInv => RoutedHomeUnlessCollision
  BY DEF RouteInv
<1> QED
  BY <1>1, <1>2, PTL

-----------------------------------------------------------------------------
(* What the tracker refers to has been accepted, and if it is deleted by   *)
(* now, it was referred to when it was deleted.                            *)
ReferredIsOwed ==
  \A c \in Connections :
    Referred(c) => live[c] = "open" \/ (live[c] = "deleted" /\ c \in owed)

(* The inductive invariant of DisconnectSafety. *)
QuietInv ==
  /\ TypeOK
  /\ ReferredIsOwed
  /\ QuiescentDisconnectIsSafe

(* No step but the deletion itself gives the tracker a reference to a      *)
(* deleted connection: Track needs an open one, getConnections lists the   *)
(* open ones, LookupAndErase only moves a reference, and what a torn copy  *)
(* finds is owed.                                                          *)
LEMMA QuietStep == QuietInv /\ [Next]_vars => QuietInv'
<1> SUFFICES ASSUME QuietInv, [Next]_vars PROVE QuietInv'
  OBVIOUS
<1> USE ConstantsAssumption DEF QuietInv
<1>0. TypeOK'
  BY TypeStep
<1>b. /\ mPendingRequests \in [Uids -> Connections \cup {NoConnection}]
      /\ live \in [Connections -> {"none", "open", "deleted"}]
      /\ job \in [Threads -> Job]
  BY DEF TypeOK
<1> DEFINE Fewer == /\ live' = live /\ owed' = owed /\ staleUse' = staleUse
                    /\ \A c \in Connections : Referred(c)' => Referred(c) \/ live[c] = "open"
<1>c. ASSUME Fewer PROVE QuietInv'
  BY <1>0, <1>c DEF ReferredIsOwed, QuiescentDisconnectIsSafe
<1>1. ASSUME NEW c \in Connections, NEW last \in {0} \cup Uids, onNewConnection(c, last)
      PROVE  QuietInv'
  <2>1. \A d \in Connections : Referred(d)' <=> Referred(d)
    BY <1>1 DEF onNewConnection, Referred
  <2> QED
    BY <1>0, <1>1, <1>b, <2>1
       DEF onNewConnection, history, ReferredIsOwed, QuiescentDisconnectIsSafe
<1>2. ASSUME NEW c \in Connections, onClientDisconnected(c)
      PROVE  QuietInv'
  <2>1. \A d \in Connections : Referred(d)' <=> Referred(d)
    BY <1>2 DEF onClientDisconnected, Referred
  <2>2. /\ live' = [live EXCEPT ![c] = "deleted"]
        /\ owed' = IF Referred(c) THEN owed \cup {c} ELSE owed
        /\ staleUse' = staleUse
    BY <1>2 DEF onClientDisconnected
  <2> QED
    BY <1>0, <1>b, <2>1, <2>2 DEF ReferredIsOwed, QuiescentDisconnectIsSafe
<1>3. ASSUME NEW c \in Connections, Track(c)
      PROVE  QuietInv'
  <2>1. ASSUME NEW d \in Connections, Referred(d)' PROVE Referred(d) \/ live[d] = "open"
    BY <1>3, <2>1, <1>b DEF Track, Referred
  <2> QED
    BY <1>3, <1>c, <2>1 DEF Track
<1>4. ASSUME NEW c \in Connections, NEW ok \in BOOLEAN, Dispatch(c, ok)
      PROVE  QuietInv'
  BY <1>4, <1>c DEF Dispatch, Referred
<1>5. ASSUME NEW t \in Threads, NEW r \in accepted \cup adapter, NEW u \in Uids,
             Answer(t, r, u) \/ AnswerAgain(t, r, u)
      PROVE  QuietInv'
  <2>0. LookupAndErase(t, r, u)
    BY <1>5 DEF Answer, AnswerAgain
  <2>1. ASSUME NEW d \in Connections, Referred(d)' PROVE Referred(d)
    BY <2>0, <2>1, <1>b DEF LookupAndErase, Looked, Referred
  <2> QED
    BY <2>0, <1>c, <2>1 DEF LookupAndErase
<1>6. ASSUME NEW t \in Threads, (\E ok \in BOOLEAN : SendResponse(t, ok)) \/ SendToDeleted(t)
      PROVE  QuietInv'
  <2>1. job[t].kind = "response" /\ job[t].to \in Connections
    BY <1>6, <1>b, JobKinds DEF SendResponse, SendToDeleted
  <2>2. Referred(job[t].to)
    BY <2>1 DEF Referred
  <2>3. /\ live' = live /\ owed' = owed /\ mPendingRequests' = mPendingRequests
        /\ job' = [job EXCEPT ![t] = Idle]
        /\ \/ staleUse' = staleUse
           \/ live[job[t].to] # "open" /\ staleUse' = staleUse \cup {job[t].to}
    BY <1>6 DEF SendResponse, SendToDeleted
  <2>4. ASSUME NEW d \in Connections, Referred(d)' PROVE Referred(d)
    BY <2>3, <2>4, <1>b, JobKinds DEF Referred
  <2> QED
    BY <1>0, <2>1, <2>2, <2>3, <2>4 DEF ReferredIsOwed, QuiescentDisconnectIsSafe
<1>7. ASSUME NEW t \in Threads, BeginIndication(t)
      PROVE  QuietInv'
  <2>1. ASSUME NEW d \in Connections, Referred(d)' PROVE Referred(d) \/ live[d] = "open"
    BY <1>7, <2>1, <1>b DEF BeginIndication, getConnections, Referred
  <2> QED
    BY <1>7, <1>c, <2>1 DEF BeginIndication, history
<1>7a. ASSUME NEW t \in Threads, CopyConnections(t)
       PROVE  QuietInv'
  <2>1. PICK read \in SUBSET {c \in Connections : live[c] # "none"} :
          /\ job' = [job EXCEPT ![t] = [kind |-> "indication", todo |-> read]]
          /\ owed' = owed \cup {c \in read : live[c] = "deleted"}
    <3>1. CASE /\ job' = [job EXCEPT ![t] = [kind |-> "indication", todo |-> getConnections]]
               /\ owed' = owed
      <4>1. getConnections \in SUBSET {c \in Connections : live[c] # "none"}
        BY DEF getConnections
      <4>2. {c \in getConnections : live[c] = "deleted"} = {}
        BY DEF getConnections
      <4> QED
        BY <3>1, <4>1, <4>2
    <3> QED
      BY <1>7a, <3>1 DEF CopyConnections
  <2>2. live' = live /\ staleUse' = staleUse /\ mPendingRequests' = mPendingRequests
    BY <1>7a DEF CopyConnections
  <2>3. ASSUME NEW d \in Connections, Referred(d)' PROVE Referred(d) \/ d \in read
    BY <2>1, <2>2, <2>3, <1>b DEF Referred
  <2>4. \A d \in read : live[d] = "open" \/ (live[d] = "deleted" /\ d \in owed')
    BY <2>1, <1>b
  <2> QED
    BY <1>0, <2>1, <2>2, <2>3, <2>4 DEF ReferredIsOwed, QuiescentDisconnectIsSafe
<1>8. ASSUME NEW t \in Threads, NEW c \in Connections, SendIndication(t, c)
      PROVE  QuietInv'
  <2>1. Referred(c)
    BY <1>8 DEF SendIndication, Referred
  <2>2. ASSUME NEW d \in Connections, Referred(d)' PROVE Referred(d)
    BY <1>8, <2>2, <1>b DEF SendIndication, Referred
  <2> QED
    BY <1>0, <1>8, <2>1, <2>2
       DEF SendIndication, ReferredIsOwed, QuiescentDisconnectIsSafe
<1>9. ASSUME NEW t \in Threads, EndIndication(t)
      PROVE  QuietInv'
  <2>1. ASSUME NEW d \in Connections, Referred(d)' PROVE Referred(d)
    BY <1>9, <2>1, <1>b, JobKinds DEF EndIndication, Referred
  <2> QED
    BY <1>9, <1>c, <2>1 DEF EndIndication, history
<1>10. CASE UNCHANGED vars
  BY <1>10, <1>c DEF vars, Referred
<1> QED
  BY <1>1, <1>2, <1>3, <1>4, <1>5, <1>6, <1>7, <1>7a, <1>8, <1>9, <1>10 DEF Next

(* A client that disconnects with nothing pending is never touched again,  *)
(* although onClientDisconnected (line 59) leaves mPendingRequests alone,  *)
(* unless a copy of the list was torn.                                     *)
THEOREM DisconnectSafety == Spec => []QuiescentDisconnectIsSafe
<1>1. Init => QuietInv
  BY TypeInit, ConstantsAssumption
     DEF Init, QuietInv, ReferredIsOwed, Referred, QuiescentDisconnectIsSafe, Idle
<1>2. Spec => []QuietInv
  BY <1>1, QuietStep, PTL DEF Spec
<1>3. QuietInv => QuiescentDisconnectIsSafe
  BY DEF QuietInv
<1> QED
  BY <1>2, <1>3, PTL
=============================================================================
