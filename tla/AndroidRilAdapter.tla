-------------------------- MODULE AndroidRilAdapter --------------------------
(***************************************************************************)
(* service/src/modem_adapters/ril/AndroidRilAdapter.cpp, with the request  *)
(* processors of service/src/processor in front of it.                     *)
(*                                                                         *)
(* A request becomes a RilRequestContext, handed to the vendor RIL as the  *)
(* token of a RIL request.  The vendor completes the RIL request on one of *)
(* its threads; the handler of the RIL request fills the response in the   *)
(* context.  A registration status takes three RIL requests, one after the *)
(* other, with the same context; a detached thread sends the next one.     *)
(* When the context is complete, the response goes to the MessageTracker   *)
(* and the context is deleted.                                             *)
(*                                                                         *)
(* The vendor RIL is the environment: it completes a RIL request at most   *)
(* once, on any of its threads, and raises unsolicited responses.  What a  *)
(* response says is abstracted to who filled it in and its result.         *)
(***************************************************************************)
EXTENDS Naturals, FiniteSets

CONSTANTS
  Requests,   \* requests of the clients, with their distinct unique ids
  RilThreads, \* the vendor's threads that call RIL_onRequestComplete
  MsgIds,     \* the message ids the clients use
  MaxUnsol    \* bound: unsolicited responses of the vendor

(* The switch of each processor. *)
NetworkMsgIds ==
  {"SET_PREF", "GET_PREF", "GET_REGISTRATION_STATUS", "SCAN", "SET_SCREEN",
   "SELECTION", "GET_SIGNAL_STRENGTH", "GET_CELL_ACCESS_STATE"}
RadioMsgIds == {"SET_RADIO_MODE", "GET_RADIO_MODE"}
DataMsgIds ==
  {"SET_DATA_PROFILES", "SETUP_DATA_CALL", "DEACTIVATE_DATA_CALL",
   "GET_DATA_CALL_LIST", "SET_INITIAL_ATTACH_PARAMS"}

ASSUME ConstantsAssumption ==
  /\ IsFiniteSet(Requests) /\ IsFiniteSet(RilThreads)
  /\ MsgIds \subseteq NetworkMsgIds \cup RadioMsgIds \cup DataMsgIds \cup {"UNKNOWN"}
  /\ MaxUnsol \in Nat

(* The message ids that become one RIL request, and which one it is. *)
RilRequestOf ==
  [SET_PREF |-> "SET_PREFERRED_NETWORK_TYPE",
   GET_PREF |-> "GET_PREFERRED_NETWORK_TYPE",
   GET_REGISTRATION_STATUS |-> "VOICE_REGISTRATION_STATE",
   SCAN |-> "QUERY_AVAILABLE_NETWORKS",
   SET_SCREEN |-> "SCREEN_STATE",
   GET_SIGNAL_STRENGTH |-> "SIGNAL_STRENGTH",
   SET_RADIO_MODE |-> "RADIO_POWER",
   SETUP_DATA_CALL |-> "SETUP_DATA_CALL",
   DEACTIVATE_DATA_CALL |-> "DEACTIVATE_DATA_CALL",
   GET_DATA_CALL_LIST |-> "DATA_CALL_LIST",
   SET_INITIAL_ATTACH_PARAMS |-> "SET_INITIAL_ATTACH_APN"]

(* What the adapter's method for a message id does with a request: a RIL   *)
(* request, nothing (it returns false), a thread of its own, or an assert  *)
(* on a value of the payload it does not know.                             *)
Calls(m) ==
  CASE m \in {"SET_PREF", "SET_RADIO_MODE", "SETUP_DATA_CALL",
              "SET_INITIAL_ATTACH_PARAMS"} -> {RilRequestOf[m], "abort"}
    [] m = "SELECTION" -> {"SET_NETWORK_SELECTION_AUTOMATIC",
                           "SET_NETWORK_SELECTION_MANUAL", "false"}
    [] m = "GET_RADIO_MODE" -> {"thread"}
    [] m \in {"GET_CELL_ACCESS_STATE", "SET_DATA_PROFILES", "UNKNOWN"} -> {"false"}
    [] OTHER -> {RilRequestOf[m]}

RilRequests ==
  {RilRequestOf[m] : m \in DOMAIN RilRequestOf} \cup
  {"DATA_REGISTRATION_STATE", "OPERATOR", "SET_NETWORK_SELECTION_AUTOMATIC",
   "SET_NETWORK_SELECTION_MANUAL"}

(* The message id the handler of a RIL request puts into the response. *)
MsgIdOf(q) ==
  CASE q \in {"VOICE_REGISTRATION_STATE", "DATA_REGISTRATION_STATE", "OPERATOR"} ->
         "GET_REGISTRATION_STATUS"
    [] q \in {"SET_NETWORK_SELECTION_AUTOMATIC", "SET_NETWORK_SELECTION_MANUAL"} ->
         "SELECTION"
    [] OTHER -> CHOOSE m \in DOMAIN RilRequestOf : RilRequestOf[m] = q

(* Handlers that assert something about the data of a success. *)
Asserting ==
  {"GET_PREFERRED_NETWORK_TYPE", "VOICE_REGISTRATION_STATE",
   "DATA_REGISTRATION_STATE", "SIGNAL_STRENGTH", "SETUP_DATA_CALL", "DATA_CALL_LIST"}

(* The registration chain: what is asked for after a success. *)
NextRequest == [VOICE_REGISTRATION_STATE |-> "DATA_REGISTRATION_STATE",
                DATA_REGISTRATION_STATE |-> "OPERATOR"]

VARIABLES
  up,        \* the service runs; FALSE after an assert or a double free
  msg,       \* [Requests -> message id, "none" before it is received]
  accepted,  \* [Requests -> what processRequest returned]
  ctx,       \* [Requests -> the context of the request]
  vendor,    \* RIL requests at the vendor: [token, request]
  detached,  \* detached threads about to send the next RIL request, likewise
  stateJobs, \* requests whose getRadioModeV1 thread has not run yet
  thread,    \* [RilThreads -> where the thread is in handleRilResponse]
  unsol,     \* unsolicited responses so far
  indicated, \* message ids of the indications sent
  \* history, read by the properties only
  answered,  \* [Requests -> responses with the id of the request]
  response,  \* [Requests -> the last of them]
  by,        \* [Requests -> threads that handled a completion for the request]
  stray,     \* a response carried another id than its own
  stale      \* requests whose context was used after it was deleted

vars == <<up, msg, accepted, ctx, vendor, detached, stateJobs, thread, unsol, indicated,
          answered, response, by, stray, stale>>
history == <<answered, response, by, stray, stale>>
unsolVars == <<unsol, indicated>>

NoResponse == [msg_id |-> "none", result |-> "none", filled |-> {}]
NoContext == [st |-> "none", rilReqId |-> "none", isCompleted |-> FALSE,
              rsp |-> NoResponse]
Idle == [st |-> "idle"]

Init ==
  /\ up = TRUE
  /\ msg = [r \in Requests |-> "none"] /\ accepted = [r \in Requests |-> FALSE]
  /\ ctx = [r \in Requests |-> NoContext]
  /\ vendor = {} /\ detached = {} /\ stateJobs = {}
  /\ thread = [t \in RilThreads |-> Idle]
  /\ unsol = 0 /\ indicated = {}
  /\ answered = [r \in Requests |-> 0] /\ response = [r \in Requests |-> NoResponse]
  /\ by = [r \in Requests |-> {}] /\ stray = FALSE /\ stale = {}

-----------------------------------------------------------------------------
(* makeTokenForMessage *)
Token(q) == [st |-> "live", rilReqId |-> q, isCompleted |-> FALSE, rsp |-> NoResponse]

Sending(r, q) == [token |-> r, request |-> q]

(* Mutant: a method that should refuse sends what it has. *)
processRequest_NoRefusal(r, m) ==
  /\ up /\ msg[r] = "none"
  /\ msg' = [msg EXCEPT ![r] = m]
  /\ \E q \in Calls(m) \ {"abort", "thread"} :
       /\ ctx' = [ctx EXCEPT ![r] = Token(q)]
       /\ vendor' = vendor \cup {Sending(r, q)}
  /\ accepted' = [accepted EXCEPT ![r] = TRUE]
  /\ UNCHANGED <<up, detached, stateJobs, thread, unsolVars, history>>

(* CompositeRequestProcessor::processRequest: the processors are tried in  *)
(* turn until one returns true.  No two know the same message id, so at    *)
(* most one method of the adapter is called.                               *)
processRequest(r, m) ==
  /\ up /\ msg[r] = "none"
  /\ msg' = [msg EXCEPT ![r] = m]
  /\ \E q \in Calls(m) :
       /\ up' = (q # "abort")
       /\ accepted' = [accepted EXCEPT ![r] = q \notin {"false", "abort"}]
       /\ stateJobs' = IF q = "thread" THEN stateJobs \cup {r} ELSE stateJobs
       /\ IF q \in RilRequests
          THEN /\ ctx' = [ctx EXCEPT ![r] = Token(q)]
               /\ vendor' = vendor \cup {Sending(r, q)}
          ELSE UNCHANGED <<ctx, vendor>>
  /\ UNCHANGED <<detached, thread, unsolVars, history>>

(* A detached thread sends the next RIL request of a registration. *)
sendToVendorRil(d) ==
  /\ up /\ d \in detached
  /\ detached' = detached \ {d}
  /\ vendor' = vendor \cup {d}
  /\ UNCHANGED <<up, msg, accepted, ctx, stateJobs, thread, unsolVars, history>>

-----------------------------------------------------------------------------
(* The response after the handler of q has run with result e. *)
Filled(rsp, q, e) ==
  [msg_id |-> MsgIdOf(q), result |-> e,
   filled |-> IF e = "success" THEN rsp.filled \cup {q} ELSE rsp.filled]

(* Mutant: only the voice handler goes on. *)
Continues_VoiceOnly(q, e) == e = "success" /\ q = "VOICE_REGISTRATION_STATE"

(* The voice and the data handler go on after a success; every other       *)
(* handler, and every failure, completes the context.                      *)
Continues(q, e) == e = "success" /\ q \in DOMAIN NextRequest

(* Mutant: the context keeps the id of the RIL request that completed. *)
Handled_SameRequest(c, e) ==
  LET q == c.rilReqId IN
  [c EXCEPT !.rsp = Filled(@, q, e), !.isCompleted = ~Continues(q, e)]

(* Mutant: the operator handler, alone, forgets to complete the context. *)
Handled_OperatorOpen(c, e) ==
  LET q == c.rilReqId IN
  [c EXCEPT !.rsp = Filled(@, q, e),
            !.isCompleted = ~Continues(q, e) /\ q # "OPERATOR",
            !.rilReqId = IF Continues(q, e) THEN NextRequest[q] ELSE q]

(* The context after its handler has run. *)
Handled(c, e) ==
  LET q == c.rilReqId IN
  [c EXCEPT !.rsp = Filled(@, q, e),
            !.isCompleted = ~Continues(q, e),
            !.rilReqId = IF Continues(q, e) THEN NextRequest[q] ELSE q]

(* RIL_onRequestComplete and handleRilResponse up to line 1310: the handler *)
(* is chosen by the id in the context.  bad: the data of a success is not  *)
(* what the handler asserts.                                               *)
handleRilResponse(t, v, e, bad) ==
  LET r == v.token
      c == ctx[r]
  IN
  /\ up /\ thread[t] = Idle
  /\ v \in vendor
  /\ vendor' = vendor \ {v}
  /\ by' = [by EXCEPT ![r] = @ \cup {t}]
  /\ stale' = IF c.st = "freed" THEN stale \cup {r} ELSE stale
  /\ \/ /\ bad /\ e = "success" /\ c.rilReqId \in Asserting
        /\ up' = FALSE
        /\ UNCHANGED <<ctx, detached, thread>>
     \/ /\ ~bad
        /\ ctx' = [ctx EXCEPT ![r] = Handled(c, e)]
        /\ detached' = IF Continues(c.rilReqId, e)
                       THEN detached \cup {Sending(r, NextRequest[c.rilReqId])}
                       ELSE detached
        /\ thread' = [thread EXCEPT ![t] = [st |-> "check", token |-> r]]
        /\ UNCHANGED up
  /\ UNCHANGED <<msg, accepted, stateJobs, unsolVars, answered, response, stray>>

(* Mutant: a complete context is deleted before its response is sent. *)
check_completed_DeletesFirst(t) ==
  LET r == thread[t].token IN
  /\ up /\ thread[t].st = "check"
  /\ thread' = [thread EXCEPT ![t] = IF ctx[r].isCompleted
                                     THEN [@ EXCEPT !.st = "deliver"] ELSE Idle]
  /\ ctx' = IF ctx[r].isCompleted THEN [ctx EXCEPT ![r].st = "freed"] ELSE ctx
  /\ UNCHANGED <<up, msg, accepted, vendor, detached, stateJobs, unsolVars, history>>

(* Line 1310: isCompleted is read from the context, which another thread  *)
(* may have completed or deleted since; the memory of a deleted context    *)
(* may hold anything.                                                      *)
check_completed(t) ==
  LET r == thread[t].token IN
  /\ up /\ thread[t].st = "check"
  /\ \E done \in IF ctx[r].st = "freed" THEN BOOLEAN ELSE {ctx[r].isCompleted} :
       thread' = [thread EXCEPT ![t] = IF done THEN [@ EXCEPT !.st = "deliver"]
                                       ELSE Idle]
  /\ stale' = IF ctx[r].st = "freed" THEN stale \cup {r} ELSE stale
  /\ UNCHANGED <<up, msg, accepted, ctx, vendor, detached, stateJobs, unsolVars, answered,
                 response, by, stray>>

(* Another thread has deleted the context, or is about to and may be done  *)
(* before this one is.                                                     *)
Gone(t, r) ==
  \/ ctx[r].st = "freed"
  \/ \E u \in RilThreads \ {t} : thread[u] = [st |-> "delete", token |-> r]

(* processResponse of the MessageTracker. *)
deliver_response(t) ==
  LET r == thread[t].token IN
  /\ up /\ thread[t].st = "deliver"
  /\ thread' = [thread EXCEPT ![t].st = "delete"]
  /\ answered' = [answered EXCEPT ![r] = @ + 1]
  /\ response' = [response EXCEPT ![r] = ctx[r].rsp]
  /\ stale' = IF ctx[r].st = "freed" THEN stale \cup {r} ELSE stale
  /\ UNCHANGED <<up, msg, accepted, ctx, vendor, detached, stateJobs, unsolVars, by,
                 stray>>

(* The same with a response that has been deleted (line 1314): its pointer *)
(* is wild or null, or what is sent has any id and any content (that of    *)
(* NoResponse stands for what fits no request).                            *)
deliver_freed(t) ==
  LET r == thread[t].token IN
  /\ up /\ thread[t].st = "deliver" /\ Gone(t, r)
  /\ thread' = [thread EXCEPT ![t].st = "delete"]
  /\ stale' = stale \cup {r}
  /\ \/ up' \in BOOLEAN /\ UNCHANGED <<answered, response, stray>>
     \/ \E u \in Requests :
          /\ answered' = [answered EXCEPT ![u] = @ + 1]
          /\ response' = [response EXCEPT ![u] = NoResponse]
          /\ stray' = (stray \/ u # r)
          /\ UNCHANGED up
  /\ UNCHANGED <<msg, accepted, ctx, vendor, detached, stateJobs, unsolVars, by>>

(* The response and the context are deleted; a second time is fatal. *)
delete_context(t) ==
  LET r == thread[t].token IN
  /\ up /\ thread[t].st = "delete"
  /\ thread' = [thread EXCEPT ![t] = Idle]
  /\ up' = (ctx[r].st = "live")
  /\ ctx' = [ctx EXCEPT ![r].st = "freed"]
  /\ stale' = IF ctx[r].st = "freed" THEN stale \cup {r} ELSE stale
  /\ UNCHANGED <<msg, accepted, vendor, detached, stateJobs, unsolVars, answered, response,
                 by, stray>>

-----------------------------------------------------------------------------
(* The thread of getRadioModeV1.  It holds references to parameters of a   *)
(* call that has returned, so its id may be any; a radio state it does not *)
(* know is an assert.                                                      *)
getRadioMode_thread(r, u, known) ==
  /\ up /\ r \in stateJobs
  /\ stateJobs' = stateJobs \ {r}
  /\ up' = known
  /\ IF known
     THEN /\ answered' = [answered EXCEPT ![u] = @ + 1]
          /\ response' = [response EXCEPT ![u] = [msg_id |-> "GET_RADIO_MODE",
                                                  result |-> "success", filled |-> {}]]
          /\ stray' = (stray \/ u # r)
     ELSE UNCHANGED <<answered, response, stray>>
  /\ UNCHANGED <<msg, accepted, ctx, vendor, detached, thread, unsolVars, by, stale>>

(* The indication an unsolicited response becomes.  All the others become *)
(* indications too, without a message id.                                  *)
IndicationOf ==
  [RESPONSE_RADIO_STATE_CHANGED |-> "RADIO_MODE_CHANGED",
   DATA_CALL_LIST_CHANGED |-> "DATA_CALL_LIST_CHANGED",
   RESPONSE_VOICE_NETWORK_STATE_CHANGED |-> "NW_REGISTRATION",
   SIGNAL_STRENGTH |-> "NW_SIGNAL_STRENGTH",
   OTHERS |-> "0"]

handleRilUnsolicitedResponse(t, i) ==
  /\ up /\ thread[t] = Idle
  /\ unsol < MaxUnsol
  /\ unsol' = unsol + 1
  /\ indicated' = indicated \cup {IndicationOf[i]}
  /\ UNCHANGED <<up, msg, accepted, ctx, vendor, detached, stateJobs, thread, history>>

-----------------------------------------------------------------------------
RilThread(t) ==
  \/ \E v \in vendor, e \in {"success", "failure"}, bad \in BOOLEAN :
       handleRilResponse(t, v, e, bad)
  \/ check_completed(t) \/ deliver_response(t) \/ deliver_freed(t) \/ delete_context(t)

Detached ==
  \/ \E d \in detached : sendToVendorRil(d)
  \/ \E r \in stateJobs, u \in Requests, known \in BOOLEAN :
       getRadioMode_thread(r, u, known)

Next ==
  \/ \E r \in Requests, m \in MsgIds : processRequest(r, m)
  \/ Detached
  \/ \E t \in RilThreads : 
       \/ RilThread(t)
       \/ \E i \in DOMAIN IndicationOf : handleRilUnsolicitedResponse(t, i)

Spec == Init /\ [][Next]_vars

(* Threads run on, and the vendor RIL completes what it was asked. *)
Fairness ==
  /\ \A t \in RilThreads : WF_vars(RilThread(t))
  /\ WF_vars(Detached)

FairSpec == Spec /\ Fairness

-----------------------------------------------------------------------------
Response == [msg_id : {"none"} \cup NetworkMsgIds \cup RadioMsgIds \cup DataMsgIds,
             result : {"none", "success", "failure"}, filled : SUBSET RilRequests]
Context == [st : {"none", "live", "freed"}, rilReqId : RilRequests \cup {"none"},
            isCompleted : BOOLEAN, rsp : Response]
Underway == [token : Requests, request : RilRequests]

(* Type correctness of the adapter. *)
TypeOK ==
  /\ up \in BOOLEAN
  /\ msg \in [Requests -> MsgIds \cup {"none"}]
  /\ accepted \in [Requests -> BOOLEAN]
  /\ ctx \in [Requests -> Context]
  /\ vendor \subseteq Underway /\ detached \subseteq Underway
  /\ stateJobs \subseteq Requests
  /\ thread \in [RilThreads -> {Idle} \cup
                  [st : {"check", "deliver", "delete"}, token : Requests]]
  /\ unsol \in 0..MaxUnsol
  /\ indicated \subseteq {IndicationOf[i] : i \in DOMAIN IndicationOf}
  /\ answered \in [Requests -> Nat] /\ response \in [Requests -> Response]
  /\ by \in [Requests -> SUBSET RilThreads]
  /\ stray \in BOOLEAN /\ stale \subseteq Requests

(* At any time at most one RIL request is under way with a context, it is  *)
(* the one the context waits for, and the context is alive and open.  The  *)
(* handler is chosen by the context and not by the request that completed, *)
(* so this is what makes a completion meet its own handler (lines 1243 to  *)
(* 1309), however many threads the vendor has.                             *)
OneRequestUnderWay ==
  /\ vendor \cap detached = {}
  /\ \A v, w \in vendor \cup detached : v.token = w.token => v = w
  /\ \A v \in vendor \cup detached :
       /\ ctx[v.token].st = "live"
       /\ ctx[v.token].rilReqId = v.request
       /\ ~ctx[v.token].isCompleted

(* No context is used after its deletion and no request is answered twice  *)
(* (unless a response has carried the id of another request),              *)
(* except where line 1310 reads a context that another thread completes:   *)
(* that takes a registration status, whose completions came on two threads.*)
RaceNeedsTwoThreads ==
  \A r \in Requests :
    r \in stale \/ (~stray /\ answered[r] > 1) =>
      msg[r] = "GET_REGISTRATION_STATUS" /\ \E t, u \in by[r] : t # u

(* A response has the message id of its request, and a registration status *)
(* that reports success has been through all three handlers.  That is not  *)
(* said of a request whose context was used after its deletion (the race   *)
(* of RaceNeedsTwoThreads): what it is answered with may be anything.      *)
ResponseFits ==
  \A r \in Requests : answered[r] > 0 /\ ~stray /\ r \notin stale =>
    /\ response[r].msg_id = msg[r]
    /\ msg[r] = "GET_REGISTRATION_STATUS" /\ response[r].result = "success" =>
         response[r].filled = {"VOICE_REGISTRATION_STATE", "DATA_REGISTRATION_STATE",
                               "OPERATOR"}

(* A request that processRequest accepted is answered, unless an assert    *)
(* stops the service or a response carries another id than its own.        *)
AcceptedIsAnswered ==
  \A r \in Requests : accepted[r] ~> answered[r] > 0 \/ ~up \/ stray
=============================================================================
