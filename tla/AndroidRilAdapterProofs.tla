----------------------- MODULE AndroidRilAdapterProofs -----------------------
(***************************************************************************)
(* Proofs about AndroidRilAdapter, for any set of requests, vendor threads *)
(* and message ids.                                                        *)
(***************************************************************************)
EXTENDS AndroidRilAdapter, TLAPS

Registration == {"VOICE_REGISTRATION_STATE", "DATA_REGISTRATION_STATE", "OPERATOR"}
AnyMsgId == NetworkMsgIds \cup RadioMsgIds \cup DataMsgIds

(* The chain of a registration. *)
LEMMA Chain ==
  /\ DOMAIN NextRequest = {"VOICE_REGISTRATION_STATE", "DATA_REGISTRATION_STATE"}
  /\ NextRequest["VOICE_REGISTRATION_STATE"] = "DATA_REGISTRATION_STATE"
  /\ NextRequest["DATA_REGISTRATION_STATE"] = "OPERATOR"
  BY DEF NextRequest

(* The table of RIL requests, entry by entry. *)
LEMMA Table ==
  /\ DOMAIN RilRequestOf =
       {"SET_PREF", "GET_PREF", "GET_REGISTRATION_STATUS", "SCAN", "SET_SCREEN",
        "GET_SIGNAL_STRENGTH", "SET_RADIO_MODE", "SETUP_DATA_CALL",
        "DEACTIVATE_DATA_CALL", "GET_DATA_CALL_LIST", "SET_INITIAL_ATTACH_PARAMS"}
  /\ RilRequestOf["SET_PREF"] = "SET_PREFERRED_NETWORK_TYPE"
  /\ RilRequestOf["GET_PREF"] = "GET_PREFERRED_NETWORK_TYPE"
  /\ RilRequestOf["GET_REGISTRATION_STATUS"] = "VOICE_REGISTRATION_STATE"
  /\ RilRequestOf["SCAN"] = "QUERY_AVAILABLE_NETWORKS"
  /\ RilRequestOf["SET_SCREEN"] = "SCREEN_STATE"
  /\ RilRequestOf["GET_SIGNAL_STRENGTH"] = "SIGNAL_STRENGTH"
  /\ RilRequestOf["SET_RADIO_MODE"] = "RADIO_POWER"
  /\ RilRequestOf["SETUP_DATA_CALL"] = "SETUP_DATA_CALL"
  /\ RilRequestOf["DEACTIVATE_DATA_CALL"] = "DEACTIVATE_DATA_CALL"
  /\ RilRequestOf["GET_DATA_CALL_LIST"] = "DATA_CALL_LIST"
  /\ RilRequestOf["SET_INITIAL_ATTACH_PARAMS"] = "SET_INITIAL_ATTACH_APN"
  BY DEF RilRequestOf

(* No two message ids become the same RIL request, and none becomes a      *)
(* later request of a registration or a network selection.                 *)
LEMMA TableInjective ==
  /\ \A m, n \in DOMAIN RilRequestOf : RilRequestOf[m] = RilRequestOf[n] => m = n
  /\ \A m \in DOMAIN RilRequestOf :
       RilRequestOf[m] \notin {"DATA_REGISTRATION_STATE", "OPERATOR",
                               "SET_NETWORK_SELECTION_AUTOMATIC",
                               "SET_NETWORK_SELECTION_MANUAL"}
  /\ \A m \in DOMAIN RilRequestOf :
       RilRequestOf[m] = "VOICE_REGISTRATION_STATE" => m = "GET_REGISTRATION_STATUS"
  /\ DOMAIN RilRequestOf \subseteq AnyMsgId
  BY Table DEF AnyMsgId, NetworkMsgIds, RadioMsgIds, DataMsgIds

(* The handler of the RIL request that a message id becomes answers with   *)
(* that message id.                                                        *)
LEMMA MsgIdInverse ==
  ASSUME NEW m \in DOMAIN RilRequestOf
  PROVE  MsgIdOf(RilRequestOf[m]) = m
<1>1. CASE m = "GET_REGISTRATION_STATUS"
  BY <1>1, Table DEF MsgIdOf
<1>2. CASE m # "GET_REGISTRATION_STATUS"
  <2>1. RilRequestOf[m] \notin Registration \cup {"SET_NETWORK_SELECTION_AUTOMATIC",
                                                 "SET_NETWORK_SELECTION_MANUAL"}
    BY <1>2, TableInjective DEF Registration
  <2>2. MsgIdOf(RilRequestOf[m]) =
          CHOOSE n \in DOMAIN RilRequestOf : RilRequestOf[n] = RilRequestOf[m]
    BY <2>1 DEF MsgIdOf, Registration
  <2> QED
    BY <2>2, TableInjective
<1> QED
  BY <1>1, <1>2

LEMMA MsgIdRest ==
  /\ \A q \in Registration : MsgIdOf(q) = "GET_REGISTRATION_STATUS"
  /\ \A q \in {"SET_NETWORK_SELECTION_AUTOMATIC", "SET_NETWORK_SELECTION_MANUAL"} :
       MsgIdOf(q) = "SELECTION"
  BY DEF MsgIdOf, Registration

(* Every handler answers with some message id. *)
LEMMA MsgIdType ==
  ASSUME NEW q \in RilRequests
  PROVE  MsgIdOf(q) \in AnyMsgId
<1>1. CASE \E m \in DOMAIN RilRequestOf : q = RilRequestOf[m]
  BY <1>1, MsgIdInverse, TableInjective
<1>2. CASE q \in Registration
  BY <1>2, MsgIdRest DEF AnyMsgId, NetworkMsgIds
<1>3. CASE q \in {"SET_NETWORK_SELECTION_AUTOMATIC", "SET_NETWORK_SELECTION_MANUAL"}
  BY <1>3, MsgIdRest DEF AnyMsgId, NetworkMsgIds
<1> QED
  BY <1>1, <1>2, <1>3 DEF RilRequests, Registration

(* The RIL requests a message id leads to come back with that message id;  *)
(* only a registration status is a chain, and it starts at its beginning.  *)
LEMMA CallsFit ==
  ASSUME NEW m \in MsgIds, NEW q \in Calls(m), q \in RilRequests
  PROVE  /\ MsgIdOf(q) = m
         /\ q \in Registration =>
              q = "VOICE_REGISTRATION_STATE" /\ m = "GET_REGISTRATION_STATUS"
         /\ m = "GET_REGISTRATION_STATUS" => q = "VOICE_REGISTRATION_STATE"
<1> DEFINE Selections == {"SET_NETWORK_SELECTION_AUTOMATIC", "SET_NETWORK_SELECTION_MANUAL"}
<1>1. {"abort", "thread", "false"} \cap RilRequests = {}
  BY Table DEF RilRequests
<1>2. \/ m = "SELECTION" /\ q \in Selections
      \/ m \in DOMAIN RilRequestOf /\ q = RilRequestOf[m]
  <2>1. m \in AnyMsgId \cup {"UNKNOWN"}
    BY ConstantsAssumption DEF AnyMsgId
  <2> QED
    BY <2>1, <1>1, Table DEF Calls, AnyMsgId, NetworkMsgIds, RadioMsgIds, DataMsgIds
<1>3. CASE m = "SELECTION" /\ q \in Selections
  BY <1>3, MsgIdRest DEF Registration
<1>4. CASE m \in DOMAIN RilRequestOf /\ q = RilRequestOf[m]
  BY <1>4, MsgIdInverse, TableInjective, Table DEF Registration
<1> QED
  BY <1>2, <1>3, <1>4
-----------------------------------------------------------------------------
(* What the threads and the contexts know of each other: a thread that     *)
(* delivers or deletes has seen a complete context, and a context stays    *)
(* complete once it is.                                                    *)
ThreadsFit ==
  \A t \in RilThreads :
    /\ thread[t].st \in {"deliver", "delete"} => ctx[thread[t].token].isCompleted
    /\ thread[t].st = "check" => ctx[thread[t].token].st # "none"

ContextFits(r) ==
  /\ msg[r] = "none" => ctx[r].st = "none"
  /\ ctx[r].st = "none" => ~ctx[r].isCompleted
  /\ ctx[r].st = "freed" => ctx[r].isCompleted
  /\ ctx[r].st # "none" =>
       ctx[r].rilReqId \in RilRequests /\ MsgIdOf(ctx[r].rilReqId) = msg[r]
  /\ r \in stateJobs => ctx[r].st = "none" /\ msg[r] = "GET_RADIO_MODE"

AdapterInv ==
  /\ TypeOK
  /\ OneRequestUnderWay
  /\ ThreadsFit
  /\ \A r \in Requests : ContextFits(r)

Busy == [st : {"check", "deliver", "delete"}, token : Requests]

(* What a state of a thread can be. *)
LEMMA ThreadKinds ==
  ASSUME TypeOK, NEW t \in RilThreads
  PROVE  /\ thread[t].st \in {"check", "deliver", "delete"} =>
              thread[t] \in Busy /\ thread[t].token \in Requests
         /\ thread[t] = Idle <=> thread[t].st = "idle"
         /\ thread[t].st \in {"idle", "check", "deliver", "delete"}
  BY DEF TypeOK, Idle, Busy

(* What the handler makes of a context. *)
LEMMA HandledFields ==
  ASSUME NEW c \in Context, NEW e \in {"success", "failure"}, c.rilReqId \in RilRequests
  PROVE  /\ Handled(c, e) \in Context
         /\ Handled(c, e).st = c.st
         /\ Handled(c, e).rsp = Filled(c.rsp, c.rilReqId, e)
         /\ Handled(c, e).isCompleted = ~Continues(c.rilReqId, e)
         /\ Continues(c.rilReqId, e) =>
              /\ Handled(c, e).rilReqId = NextRequest[c.rilReqId]
              /\ NextRequest[c.rilReqId] \in RilRequests
              /\ MsgIdOf(NextRequest[c.rilReqId]) = MsgIdOf(c.rilReqId)
         /\ ~Continues(c.rilReqId, e) => Handled(c, e).rilReqId = c.rilReqId
<1>1. MsgIdOf(c.rilReqId) \in AnyMsgId
  BY MsgIdType
<1>2. Filled(c.rsp, c.rilReqId, e) \in Response
  BY <1>1 DEF Filled, Response, Context, AnyMsgId
<1>3. Continues(c.rilReqId, e) \in BOOLEAN
  BY DEF Continues
<1>4. Continues(c.rilReqId, e) =>
        /\ NextRequest[c.rilReqId] \in RilRequests
        /\ MsgIdOf(NextRequest[c.rilReqId]) = MsgIdOf(c.rilReqId)
  BY Chain, MsgIdRest DEF Continues, RilRequests, Registration
<1>5. DOMAIN c = {"st", "rilReqId", "isCompleted", "rsp"}
  BY DEF Context
<1> QED
  BY <1>2, <1>3, <1>4, <1>5 DEF Handled, Context

(* A new context. *)
LEMMA TokenFields ==
  ASSUME NEW q \in RilRequests
  PROVE  /\ Token(q) \in Context
         /\ Token(q).st = "live" /\ Token(q).rilReqId = q /\ ~Token(q).isCompleted
         /\ Token(q).rsp = NoResponse
  BY DEF Token, Context, Response, NoResponse

LEMMA AdapterInit == Init => AdapterInv
<1> SUFFICES ASSUME Init PROVE AdapterInv
  OBVIOUS
<1>1. NoContext \in Context /\ NoResponse \in Response
  BY DEF NoContext, NoResponse, Context, Response
<1>2. TypeOK
  <2>1. /\ up \in BOOLEAN /\ stray \in BOOLEAN
        /\ msg \in [Requests -> MsgIds \cup {"none"}]
        /\ accepted \in [Requests -> BOOLEAN]
        /\ ctx \in [Requests -> Context] /\ response \in [Requests -> Response]
    BY <1>1 DEF Init
  <2>2. /\ vendor \subseteq Underway /\ detached \subseteq Underway
        /\ stateJobs \subseteq Requests /\ stale \subseteq Requests
        /\ indicated \subseteq {IndicationOf[i] : i \in DOMAIN IndicationOf}
        /\ by \in [Requests -> SUBSET RilThreads]
        /\ thread \in [RilThreads -> {Idle} \cup Busy]
    BY DEF Init
  <2>3. unsol \in 0..MaxUnsol /\ answered \in [Requests -> Nat]
    BY ConstantsAssumption DEF Init
  <2> QED
    BY <2>1, <2>2, <2>3 DEF TypeOK, Busy
<1>3. OneRequestUnderWay
  BY DEF Init, OneRequestUnderWay
<1>4. ThreadsFit
  BY DEF Init, ThreadsFit, Idle
<1>5. \A r \in Requests : ContextFits(r)
  BY DEF Init, ContextFits, NoContext
<1> QED
  BY <1>2, <1>3, <1>4, <1>5 DEF AdapterInv

(* A request is received.  Its context is new, so nothing is under way     *)
(* with it and no thread has seen it.                                      *)
LEMMA AdapterReceives ==
  ASSUME AdapterInv, NEW r \in Requests, NEW m \in MsgIds, processRequest(r, m)
  PROVE  AdapterInv'
<1> USE DEF AdapterInv
<1>1. PICK q \in Calls(m) :
        /\ up' = (q # "abort")
        /\ accepted' = [accepted EXCEPT ![r] = q \notin {"false", "abort"}]
        /\ stateJobs' = IF q = "thread" THEN stateJobs \cup {r} ELSE stateJobs
        /\ IF q \in RilRequests
           THEN /\ ctx' = [ctx EXCEPT ![r] = Token(q)]
                /\ vendor' = vendor \cup {Sending(r, q)}
           ELSE UNCHANGED <<ctx, vendor>>
  BY DEF processRequest
<1>2. /\ msg[r] = "none" /\ msg' = [msg EXCEPT ![r] = m]
      /\ UNCHANGED <<detached, thread, unsol, indicated, answered, response, by, stray,
                     stale>>
  BY DEF processRequest, unsolVars, history
<1>3. m # "none"
  BY ConstantsAssumption DEF NetworkMsgIds, RadioMsgIds, DataMsgIds
<1>4. ctx[r].st = "none" /\ ~ctx[r].isCompleted
  BY <1>2 DEF ContextFits
<1>5. \A v \in vendor \cup detached : v.token # r
  BY <1>4 DEF OneRequestUnderWay
<1>6. q \in RilRequests => Token(q) \in Context /\ Sending(r, q) \in Underway
  BY TokenFields DEF Sending, Underway
<1>7. TypeOK'
  <2>1. ctx' \in [Requests -> Context] /\ vendor' \subseteq Underway
    BY <1>1, <1>6 DEF TypeOK
  <2>2. msg' \in [Requests -> MsgIds \cup {"none"}] /\ accepted' \in [Requests -> BOOLEAN]
    BY <1>1, <1>2 DEF TypeOK
  <2>3. up' \in BOOLEAN /\ stateJobs' \subseteq Requests
    BY <1>1 DEF TypeOK
  <2> QED
    BY <1>2, <2>1, <2>2, <2>3 DEF TypeOK
<1>8. CASE q \in RilRequests
  <2>1. /\ ctx' = [ctx EXCEPT ![r] = Token(q)]
        /\ vendor' = vendor \cup {Sending(r, q)}
    BY <1>1, <1>8
  <2>2. \A s \in Requests : ctx'[s] = IF s = r THEN Token(q) ELSE ctx[s]
    BY <2>1 DEF TypeOK
  <2>3. OneRequestUnderWay'
    <3>1. Sending(r, q).token = r /\ Sending(r, q).request = q
      BY DEF Sending
    <3>2. \A v \in vendor \cup detached : v.token \in Requests
      BY DEF TypeOK, Underway
    <3> QED
      BY <1>2, <1>5, <1>8, <2>1, <2>2, <3>1, <3>2, TokenFields DEF OneRequestUnderWay
  <2>4. ThreadsFit'
    BY <1>2, <1>4, <1>8, <2>2, ThreadKinds, TokenFields DEF ThreadsFit
  <2>5. q # "thread"
    BY <1>8, Table DEF RilRequests
  <2>6. r \notin stateJobs
    BY <1>2 DEF ContextFits
  <2>7. \A s \in Requests : ContextFits(s)'
    <3>1. MsgIdOf(q) = m
      BY <1>8, CallsFit
    <3>2. \A s \in Requests : msg'[s] = IF s = r THEN m ELSE msg[s]
      BY <1>2 DEF TypeOK
    <3>3. stateJobs' = stateJobs
      BY <1>1, <2>5
    <3> QED
      BY <1>3, <1>8, <2>2, <2>6, <3>1, <3>2, <3>3, TokenFields DEF ContextFits
  <2> QED
    BY <1>7, <2>3, <2>4, <2>7
<1>9. CASE q \notin RilRequests
  <2>1. ctx' = ctx /\ vendor' = vendor
    BY <1>1, <1>9
  <2>2. OneRequestUnderWay' /\ ThreadsFit'
    BY <1>2, <2>1 DEF OneRequestUnderWay, ThreadsFit
  <2>3. q = "thread" => m = "GET_RADIO_MODE"
    <3>1. m \in DOMAIN RilRequestOf => RilRequestOf[m] # "thread"
      BY Table
    <3>2. m \in AnyMsgId \cup {"UNKNOWN"}
      BY ConstantsAssumption DEF AnyMsgId
    <3> QED
      BY <3>1, <3>2, Table DEF Calls, AnyMsgId, NetworkMsgIds, RadioMsgIds, DataMsgIds
  <2>4. \A s \in Requests : ContextFits(s)'
    <3>1. \A s \in Requests : msg'[s] = IF s = r THEN m ELSE msg[s]
      BY <1>2 DEF TypeOK
    <3>2. \A s \in stateJobs' : s \in stateJobs \/ (s = r /\ m = "GET_RADIO_MODE")
      <4>1. stateJobs' = IF q = "thread" THEN stateJobs \cup {r} ELSE stateJobs
        BY <1>1
      <4> QED
        BY <2>3, <4>1
    <3>3. r \notin stateJobs
      BY <1>2 DEF ContextFits
    <3> QED
      BY <1>3, <1>4, <2>1, <3>1, <3>2, <3>3 DEF ContextFits
  <2> QED
    BY <1>7, <2>2, <2>4
<1> QED
  BY <1>8, <1>9

(* A detached thread sends: the request under way is the same. *)
LEMMA AdapterSends ==
  ASSUME AdapterInv, NEW d \in detached, sendToVendorRil(d)
  PROVE  AdapterInv'
<1> USE DEF AdapterInv
<1>1. /\ d \in detached
      /\ detached' = detached \ {d} /\ vendor' = vendor \cup {d}
      /\ UNCHANGED <<up, msg, accepted, ctx, stateJobs, thread, unsol, indicated, answered,
                     response, by, stray, stale>>
  BY DEF sendToVendorRil, unsolVars, history
<1>2. TypeOK'
  BY <1>1 DEF TypeOK
<1>3. OneRequestUnderWay'
  <2>1. vendor' \cup detached' = vendor \cup detached /\ vendor' \cap detached' = {}
    BY <1>1 DEF OneRequestUnderWay
  <2> QED
    BY <1>1, <2>1 DEF OneRequestUnderWay
<1>4. ThreadsFit' /\ \A s \in Requests : ContextFits(s)'
  BY <1>1 DEF ThreadsFit, ContextFits
<1> QED
  BY <1>2, <1>3, <1>4

(* A RIL request completes: its context waits for it, so its own handler   *)
(* runs, and either the next request of the chain is the one under way or  *)
(* the context is complete and nothing is.                                 *)
LEMMA AdapterHandles ==
  ASSUME AdapterInv, NEW t \in RilThreads, NEW v \in vendor,
         NEW e \in {"success", "failure"}, NEW bad \in BOOLEAN,
         handleRilResponse(t, v, e, bad)
  PROVE  AdapterInv'
<1> USE DEF AdapterInv
<1> DEFINE r == v.token
           c == ctx[r]
           q == c.rilReqId
<1>1. /\ thread[t] = Idle
      /\ vendor' = vendor \ {v}
      /\ by' = [by EXCEPT ![r] = @ \cup {t}]
      /\ stale' = IF c.st = "freed" THEN stale \cup {r} ELSE stale
      /\ UNCHANGED <<msg, accepted, stateJobs, unsol, indicated, answered, response, stray>>
  BY DEF handleRilResponse, unsolVars
<1>2. \/ up' = FALSE /\ UNCHANGED <<ctx, detached, thread>>
      \/ /\ ctx' = [ctx EXCEPT ![r] = Handled(c, e)]
         /\ detached' = IF Continues(q, e)
                        THEN detached \cup {Sending(r, NextRequest[q])}
                        ELSE detached
         /\ thread' = [thread EXCEPT ![t] = [st |-> "check", token |-> r]]
         /\ UNCHANGED up
  BY DEF handleRilResponse
<1>3. r \in Requests /\ c \in Context
  BY DEF TypeOK, Underway
<1>4. c.st = "live" /\ q = v.request /\ ~c.isCompleted /\ q \in RilRequests
  BY DEF OneRequestUnderWay, TypeOK, Underway
<1>5. \A w \in (vendor \cup detached) \ {v} : w.token # r
  BY DEF OneRequestUnderWay
<1>6. v \notin detached
  BY DEF OneRequestUnderWay
<1>7. /\ vendor' \subseteq Underway
      /\ by' \in [Requests -> SUBSET RilThreads]
      /\ stale' \subseteq Requests
  BY <1>1, <1>3 DEF TypeOK
<1>8. CASE up' = FALSE /\ UNCHANGED <<ctx, detached, thread>>
  <2>1. TypeOK'
    BY <1>1, <1>7, <1>8 DEF TypeOK
  <2>2. OneRequestUnderWay'
    BY <1>1, <1>8 DEF OneRequestUnderWay
  <2>3. ThreadsFit' /\ \A s \in Requests : ContextFits(s)'
    BY <1>1, <1>8 DEF ThreadsFit, ContextFits
  <2> QED
    BY <2>1, <2>2, <2>3
<1>9. CASE /\ ctx' = [ctx EXCEPT ![r] = Handled(c, e)]
           /\ detached' = IF Continues(q, e)
                          THEN detached \cup {Sending(r, NextRequest[q])}
                          ELSE detached
           /\ thread' = [thread EXCEPT ![t] = [st |-> "check", token |-> r]]
           /\ UNCHANGED up
  <2> DEFINE h == Handled(c, e)
             next == Sending(r, NextRequest[q])
  <2>1. /\ h \in Context
        /\ h.st = "live"
        /\ h.isCompleted = ~Continues(q, e)
        /\ Continues(q, e) => /\ h.rilReqId = NextRequest[q]
                              /\ NextRequest[q] \in RilRequests
                              /\ MsgIdOf(NextRequest[q]) = MsgIdOf(q)
        /\ ~Continues(q, e) => h.rilReqId = q
    BY <1>3, <1>4, HandledFields
  <2>2. \A s \in Requests : ctx'[s] = IF s = r THEN h ELSE ctx[s]
    BY <1>3, <1>9 DEF TypeOK
  <2>3. next.token = r /\ next.request = NextRequest[q]
    BY DEF Sending
  <2>4. Continues(q, e) => next \in Underway
    BY <1>3, <2>1 DEF Sending, Underway
  <2>5. [st |-> "check", token |-> r] \in Busy
    BY <1>3 DEF Busy
  <2> HIDE DEF h, next
  <2>6. detached' \subseteq Underway
    BY <1>9, <2>4 DEF TypeOK, next
  <2>7. thread' \in [RilThreads -> {Idle} \cup Busy]
    BY <1>9, <2>5 DEF TypeOK, Busy
  <2>8. TypeOK'
    <3>1. ctx' \in [Requests -> Context]
      BY <1>3, <1>9, <2>1 DEF TypeOK, h
    <3> QED
      BY <1>1, <1>7, <1>9, <2>6, <2>7, <3>1 DEF TypeOK, Busy
  <2>9. OneRequestUnderWay'
    <3>1. \A w \in vendor \cup detached : w.token \in Requests
      BY DEF TypeOK, Underway
    <3>2. vendor' = vendor \ {v}
      BY <1>1
    <3>3. CASE Continues(q, e)
      <4>1. detached' = detached \cup {next}
        BY <1>9, <3>3 DEF next
      <4>2. next \notin vendor'
        BY <1>5, <2>3, <3>2
      <4>3. /\ ctx'[next.token].st = "live"
            /\ ctx'[next.token].rilReqId = next.request
            /\ ~ctx'[next.token].isCompleted
        BY <1>3, <2>1, <2>2, <2>3, <3>3
      <4>4. \A w \in vendor' \cup detached' :
              w = next \/ (w \in vendor \cup detached /\ w.token # r)
        BY <1>5, <1>6, <3>2, <4>1
      <4>5. \A w \in vendor' \cup detached' : w # next => ctx'[w.token] = ctx[w.token]
        BY <2>2, <3>1, <4>4
      <4>6. vendor' \cap detached' = {}
        BY <3>2, <4>1, <4>2 DEF OneRequestUnderWay
      <4>7. \A x, y \in vendor' \cup detached' : x.token = y.token => x = y
        BY <2>3, <4>4 DEF OneRequestUnderWay
      <4> QED
        BY <4>3, <4>4, <4>5, <4>6, <4>7 DEF OneRequestUnderWay
    <3>4. CASE ~Continues(q, e)
      <4>1. detached' = detached
        BY <1>9, <3>4
      <4>2. \A w \in vendor' \cup detached' : w \in vendor \cup detached /\ w.token # r
        BY <1>5, <1>6, <3>2, <4>1
      <4>3. \A w \in vendor' \cup detached' : ctx'[w.token] = ctx[w.token]
        BY <2>2, <3>1, <4>2
      <4> QED
        BY <3>2, <4>1, <4>2, <4>3 DEF OneRequestUnderWay
    <3> QED
      BY <3>3, <3>4
  <2>10. ThreadsFit'
    <3>1. \A u \in RilThreads : u # t => thread'[u] = thread[u]
      BY <1>9 DEF TypeOK
    <3>2. thread'[t].st = "check" /\ thread'[t].token = r
      BY <1>9 DEF TypeOK
    <3>3. \A u \in RilThreads : thread[u].st \in {"deliver", "delete"} => thread[u].token # r
      BY <1>4 DEF ThreadsFit
    <3> QED
      BY <1>3, <2>1, <2>2, <3>1, <3>2, <3>3, ThreadKinds DEF ThreadsFit
  <2>11. \A s \in Requests : ContextFits(s)'
    <3>1. msg' = msg /\ stateJobs' = stateJobs
      BY <1>1
    <3>2. MsgIdOf(q) = msg[r] /\ msg[r] # "none" /\ r \notin stateJobs
      BY <1>3, <1>4 DEF ContextFits
    <3>3. h.rilReqId \in RilRequests /\ MsgIdOf(h.rilReqId) = msg[r]
      BY <1>4, <2>1, <3>2
    <3> QED
      BY <2>1, <2>2, <3>1, <3>2, <3>3 DEF ContextFits
  <2> QED
    BY <2>8, <2>9, <2>10, <2>11
<1> QED
  BY <1>2, <1>8, <1>9

(* What delivering a deleted response changes. *)
LEMMA FreedStep ==
  ASSUME TypeOK, NEW t \in RilThreads, NEW r, r = thread[t].token, deliver_freed(t)
  PROVE  /\ thread[t].st = "deliver" /\ r \in Requests /\ Gone(t, r)
         /\ thread' = [thread EXCEPT ![t] = [st |-> "delete", token |-> r]]
         /\ stale' = stale \cup {r}
         /\ up' \in BOOLEAN /\ stray' \in BOOLEAN /\ (stray => stray')
         /\ answered' \in [Requests -> Nat] /\ response' \in [Requests -> Response]
         /\ stray' \/ \A s \in Requests \ {r} :
                         answered'[s] = answered[s] /\ response'[s] = response[s]
         /\ UNCHANGED <<msg, accepted, ctx, vendor, detached, stateJobs, unsol, indicated, by>>
<1>1. /\ thread[t].st = "deliver" /\ Gone(t, r)
      /\ thread' = [thread EXCEPT ![t].st = "delete"]
      /\ stale' = stale \cup {r}
      /\ UNCHANGED <<msg, accepted, ctx, vendor, detached, stateJobs, unsol, indicated, by>>
  BY DEF deliver_freed, unsolVars
<1>2. \/ up' \in BOOLEAN /\ UNCHANGED <<answered, response, stray>>
      \/ \E u \in Requests :
           /\ answered' = [answered EXCEPT ![u] = @ + 1]
           /\ response' = [response EXCEPT ![u] = NoResponse]
           /\ stray' = (stray \/ u # r)
           /\ UNCHANGED up
  BY DEF deliver_freed
<1>3. r \in Requests /\ thread[t] \in Busy
  BY <1>1, ThreadKinds
<1>4. thread' = [thread EXCEPT ![t] = [st |-> "delete", token |-> r]]
  <2>1. [thread[t] EXCEPT !.st = "delete"] = [st |-> "delete", token |-> r]
    BY <1>3 DEF Busy
  <2>2. thread' = [thread EXCEPT ![t] = [thread[t] EXCEPT !.st = "delete"]]
    BY <1>1
  <2> QED
    BY <2>1, <2>2
<1>5. NoResponse \in Response
  BY DEF NoResponse, Response
<1>6. CASE up' \in BOOLEAN /\ UNCHANGED <<answered, response, stray>>
  BY <1>1, <1>3, <1>4, <1>6 DEF TypeOK
<1>7. ASSUME NEW u \in Requests,
             answered' = [answered EXCEPT ![u] = @ + 1],
             response' = [response EXCEPT ![u] = NoResponse],
             stray' = (stray \/ u # r), UNCHANGED up
      PROVE  /\ up' \in BOOLEAN /\ stray' \in BOOLEAN /\ (stray => stray')
             /\ answered' \in [Requests -> Nat] /\ response' \in [Requests -> Response]
             /\ stray' \/ \A s \in Requests \ {r} :
                             answered'[s] = answered[s] /\ response'[s] = response[s]
  <2>1. up' \in BOOLEAN /\ stray' \in BOOLEAN /\ (stray => stray')
    BY <1>7 DEF TypeOK
  <2>2. answered' \in [Requests -> Nat] /\ response' \in [Requests -> Response]
    BY <1>5, <1>7 DEF TypeOK
  <2>3. ASSUME NEW s \in Requests, s # r, u = r
        PROVE  answered'[s] = answered[s] /\ response'[s] = response[s]
    BY <1>7, <2>3 DEF TypeOK
  <2> QED
    BY <1>7, <2>1, <2>2, <2>3
<1> QED
  BY <1>1, <1>2, <1>3, <1>4, <1>6, <1>7

(* A thread looks at a context, delivers its response and deletes it. *)
LEMMA AdapterCompletes ==
  ASSUME AdapterInv, NEW t \in RilThreads,
         \/ check_completed(t) \/ deliver_response(t) \/ deliver_freed(t)
         \/ delete_context(t)
  PROVE  AdapterInv'
<1> USE DEF AdapterInv
<1> DEFINE r == thread[t].token
<1>1. r \in Requests /\ thread[t] \in Busy
  BY ThreadKinds DEF check_completed, deliver_response, deliver_freed, delete_context
<1>2. \A st \in {"deliver", "delete"} : [thread[t] EXCEPT !.st = st] \in Busy
  BY <1>1 DEF Busy
<1>3. CASE check_completed(t)
  <2>1. PICK done \in IF ctx[r].st = "freed" THEN BOOLEAN ELSE {ctx[r].isCompleted} :
          thread' = [thread EXCEPT ![t] = IF done THEN [@ EXCEPT !.st = "deliver"]
                                          ELSE Idle]
    BY <1>3 DEF check_completed
  <2>2. /\ stale' \subseteq stale \cup {r}
        /\ UNCHANGED <<up, msg, accepted, ctx, vendor, detached, stateJobs, unsol, indicated,
                       answered, response, by, stray>>
    BY <1>3 DEF check_completed, unsolVars
  <2>3. thread' \in [RilThreads -> {Idle} \cup Busy]
    BY <1>2, <2>1 DEF TypeOK, Busy
  <2>4. TypeOK'
    BY <1>1, <2>2, <2>3 DEF TypeOK, Busy
  <2>5. ThreadsFit'
    <3>1. \A u \in RilThreads : u # t => thread'[u] = thread[u]
      BY <2>1 DEF TypeOK
    <3>2. done => ctx[r].isCompleted
      BY <1>1, <2>1 DEF ContextFits
    <3>3. thread'[t] = Idle \/ (done /\ thread'[t].st = "deliver" /\ thread'[t].token = r)
      BY <1>1, <2>1 DEF TypeOK, Busy
    <3> QED
      BY <2>2, <3>1, <3>2, <3>3 DEF ThreadsFit, Idle
  <2>6. OneRequestUnderWay' /\ \A s \in Requests : ContextFits(s)'
    BY <2>2 DEF OneRequestUnderWay, ContextFits
  <2> QED
    BY <2>4, <2>5, <2>6
<1>4. CASE deliver_response(t)
  <2>1. /\ thread[t].st = "deliver" /\ thread' = [thread EXCEPT ![t].st = "delete"]
        /\ answered' = [answered EXCEPT ![r] = @ + 1]
        /\ response' = [response EXCEPT ![r] = ctx[r].rsp]
        /\ stale' \subseteq stale \cup {r}
        /\ UNCHANGED <<up, msg, accepted, ctx, vendor, detached, stateJobs, unsol, indicated,
                       by, stray>>
    BY <1>4 DEF deliver_response, unsolVars
  <2>2. thread' \in [RilThreads -> {Idle} \cup Busy]
    BY <1>2, <2>1 DEF TypeOK, Busy
  <2>3. answered' \in [Requests -> Nat] /\ response' \in [Requests -> Response]
    BY <1>1, <2>1 DEF TypeOK, Context
  <2>4. TypeOK'
    BY <1>1, <2>1, <2>2, <2>3 DEF TypeOK, Busy
  <2>5. ThreadsFit'
    <3>1. \A u \in RilThreads : u # t => thread'[u] = thread[u]
      BY <2>1 DEF TypeOK
    <3>2. thread'[t].st = "delete" /\ thread'[t].token = r
      BY <1>1, <2>1 DEF TypeOK, Busy
    <3> QED
      BY <2>1, <3>1, <3>2 DEF ThreadsFit
  <2>6. OneRequestUnderWay' /\ \A s \in Requests : ContextFits(s)'
    BY <2>1 DEF OneRequestUnderWay, ContextFits
  <2> QED
    BY <2>4, <2>5, <2>6
<1>5. CASE delete_context(t)
  <2>1. /\ thread[t].st = "delete" /\ thread' = [thread EXCEPT ![t] = Idle]
        /\ up' \in BOOLEAN
        /\ ctx' = [ctx EXCEPT ![r].st = "freed"]
        /\ stale' \subseteq stale \cup {r}
        /\ UNCHANGED <<msg, accepted, vendor, detached, stateJobs, unsol, indicated,
                       answered, response, by, stray>>
    BY <1>5 DEF delete_context, unsolVars
  <2>2. ctx[r].isCompleted
    BY <2>1 DEF ThreadsFit
  <2>3. /\ \A s \in Requests : s # r => ctx'[s] = ctx[s]
        /\ ctx'[r].st = "freed" /\ ctx'[r].isCompleted
        /\ ctx'[r].rilReqId = ctx[r].rilReqId
        /\ ctx' \in [Requests -> Context]
    <3>1. ctx \in [Requests -> Context] /\ ctx[r] \in Context
      BY <1>1 DEF TypeOK
    <3>2. /\ [ctx[r] EXCEPT !.st = "freed"] \in Context
          /\ [ctx[r] EXCEPT !.st = "freed"].st = "freed"
          /\ [ctx[r] EXCEPT !.st = "freed"].isCompleted = ctx[r].isCompleted
          /\ [ctx[r] EXCEPT !.st = "freed"].rilReqId = ctx[r].rilReqId
      BY <3>1 DEF Context
    <3>3. ctx' = [ctx EXCEPT ![r] = [ctx[r] EXCEPT !.st = "freed"]]
      BY <2>1
    <3> QED
      BY <1>1, <2>2, <3>1, <3>2, <3>3
  <2>4. \A v \in vendor \cup detached : v.token \in Requests \ {r}
    BY <2>2 DEF OneRequestUnderWay, TypeOK, Underway
  <2>5. thread' \in [RilThreads -> {Idle} \cup Busy]
    BY <2>1 DEF TypeOK, Busy
  <2>6. TypeOK'
    BY <1>1, <2>1, <2>3, <2>5 DEF TypeOK, Busy
  <2>7. OneRequestUnderWay'
    BY <2>1, <2>3, <2>4 DEF OneRequestUnderWay
  <2>8. ThreadsFit'
    <3>1. \A u \in RilThreads : thread'[u] = IF u = t THEN Idle ELSE thread[u]
      BY <2>1 DEF TypeOK
    <3> QED
      BY <2>3, <3>1, ThreadKinds DEF ThreadsFit, Idle
  <2>9. \A s \in Requests : ContextFits(s)'
    <3>1. ctx[r].st # "none"
      BY <1>1, <2>2 DEF ContextFits
    <3> QED
      BY <1>1, <2>1, <2>3, <3>1 DEF ContextFits
  <2> QED
    BY <2>6, <2>7, <2>8, <2>9
<1>6. CASE deliver_freed(t)
  <2>1. /\ thread[t].st = "deliver"
        /\ thread' = [thread EXCEPT ![t] = [st |-> "delete", token |-> r]]
        /\ stale' = stale \cup {r} /\ up' \in BOOLEAN /\ stray' \in BOOLEAN
        /\ answered' \in [Requests -> Nat] /\ response' \in [Requests -> Response]
        /\ UNCHANGED <<msg, accepted, ctx, vendor, detached, stateJobs, unsol, indicated, by>>
    BY <1>6, FreedStep
  <2>2. thread' \in [RilThreads -> {Idle} \cup Busy]
    BY <1>1, <2>1 DEF TypeOK, Busy
  <2>3. TypeOK'
    BY <1>1, <2>1, <2>2 DEF TypeOK, Busy
  <2>4. ThreadsFit'
    <3>1. \A u \in RilThreads : u # t => thread'[u] = thread[u]
      BY <2>1 DEF TypeOK
    <3>2. thread'[t].st = "delete" /\ thread'[t].token = r
      BY <2>1 DEF TypeOK
    <3> QED
      BY <2>1, <3>1, <3>2 DEF ThreadsFit
  <2>5. OneRequestUnderWay' /\ \A s \in Requests : ContextFits(s)'
    BY <2>1 DEF OneRequestUnderWay, ContextFits
  <2> QED
    BY <2>3, <2>4, <2>5
<1> QED
  BY <1>3, <1>4, <1>5, <1>6

(* The thread of getRadioModeV1 and an unsolicited response touch no       *)
(* context.                                                                *)
LEMMA AdapterOthers ==
  ASSUME AdapterInv,
         \/ \E r \in stateJobs, u \in Requests, known \in BOOLEAN :
              getRadioMode_thread(r, u, known)
         \/ \E t \in RilThreads, i \in DOMAIN IndicationOf :
              handleRilUnsolicitedResponse(t, i)
         \/ UNCHANGED vars
  PROVE  AdapterInv'
<1> USE DEF AdapterInv
<1>1. /\ UNCHANGED <<msg, accepted, ctx, vendor, detached, thread, by, stale>>
      /\ stateJobs' \subseteq stateJobs
  BY DEF getRadioMode_thread, handleRilUnsolicitedResponse, vars, history
<1>2. TypeOK'
  <2>1. ASSUME NEW r \in stateJobs, NEW u \in Requests, NEW known \in BOOLEAN,
               getRadioMode_thread(r, u, known)
        PROVE  TypeOK'
    <3>1. [msg_id |-> "GET_RADIO_MODE", result |-> "success", filled |-> {}] \in Response
      BY DEF Response, RadioMsgIds
    <3>2. answered' \in [Requests -> Nat] /\ response' \in [Requests -> Response]
      <4>1. CASE known
        <5>1. answered' = [answered EXCEPT ![u] = @ + 1]
          BY <2>1, <4>1 DEF getRadioMode_thread
        <5>2. response' = [response EXCEPT ![u] =
                 [msg_id |-> "GET_RADIO_MODE", result |-> "success", filled |-> {}]]
          BY <2>1, <4>1 DEF getRadioMode_thread
        <5> QED
          BY <3>1, <5>1, <5>2 DEF TypeOK
      <4>2. CASE ~known
        BY <2>1, <4>2 DEF getRadioMode_thread, TypeOK
      <4> QED
        BY <4>1, <4>2
    <3>3. up' \in BOOLEAN /\ stray' \in BOOLEAN
      BY <2>1 DEF getRadioMode_thread, TypeOK
    <3>4. UNCHANGED <<unsol, indicated>>
      BY <2>1 DEF getRadioMode_thread, unsolVars
    <3> QED
      BY <1>1, <3>2, <3>3, <3>4 DEF TypeOK
  <2>2. ASSUME NEW t \in RilThreads, NEW i \in DOMAIN IndicationOf,
               handleRilUnsolicitedResponse(t, i)
        PROVE  TypeOK'
    <3>1. unsol' \in 0..MaxUnsol
      BY <2>2, ConstantsAssumption DEF handleRilUnsolicitedResponse, TypeOK
    <3>2. indicated' \subseteq {IndicationOf[j] : j \in DOMAIN IndicationOf}
      BY <2>2 DEF handleRilUnsolicitedResponse, TypeOK
    <3>3. UNCHANGED <<up, answered, response, stray>>
      BY <2>2 DEF handleRilUnsolicitedResponse, history
    <3> QED
      BY <1>1, <3>1, <3>2, <3>3 DEF TypeOK
  <2>3. CASE UNCHANGED vars
    BY <2>3 DEF vars, TypeOK
  <2> QED
    BY <2>1, <2>2, <2>3
<1>3. OneRequestUnderWay' /\ ThreadsFit' /\ \A s \in Requests : ContextFits(s)'
  BY <1>1 DEF OneRequestUnderWay, ThreadsFit, ContextFits
<1> QED
  BY <1>2, <1>3

LEMMA AdapterStep == AdapterInv /\ [Next]_vars => AdapterInv'
<1> SUFFICES ASSUME AdapterInv, [Next]_vars PROVE AdapterInv'
  OBVIOUS
<1> QED
  BY AdapterReceives, AdapterSends, AdapterHandles, AdapterCompletes, AdapterOthers
  DEF Next, Detached, RilThread

(* The adapter's state is well typed; in particular a method that refuses  *)
(* a request never leaves a context behind.                                *)
THEOREM AdapterTypeCorrect == Spec => []TypeOK
<1>1. AdapterInv => TypeOK
  BY DEF AdapterInv
<1> QED
  BY <1>1, AdapterInit, AdapterStep, PTL DEF Spec

(* A completion always meets the handler of its own RIL request, however   *)
(* many threads the vendor completes on (handleRilResponse, 1243 to 1309). *)
THEOREM HandlerFits == Spec => []OneRequestUnderWay
<1>1. AdapterInv => OneRequestUnderWay
  BY DEF AdapterInv
<1> QED
  BY <1>1, AdapterInit, AdapterStep, PTL DEF Spec
-----------------------------------------------------------------------------
(* No handler answers for a radio mode, and only those of the chain answer *)
(* for a registration.                                                     *)
LEMMA MsgIdBack ==
  ASSUME NEW q \in RilRequests
  PROVE  /\ MsgIdOf(q) # "GET_RADIO_MODE"
         /\ MsgIdOf(q) = "GET_REGISTRATION_STATUS" => q \in Registration
<1>1. CASE \E m \in DOMAIN RilRequestOf : q = RilRequestOf[m]
  <2>1. PICK m \in DOMAIN RilRequestOf : q = RilRequestOf[m]
    BY <1>1
  <2>2. MsgIdOf(q) = m
    BY <2>1, MsgIdInverse
  <2> QED
    BY <2>1, <2>2, Table DEF Registration
<1>2. CASE q \in Registration
  BY <1>2, MsgIdRest
<1>3. CASE q \in {"SET_NETWORK_SELECTION_AUTOMATIC", "SET_NETWORK_SELECTION_MANUAL"}
  BY <1>3, MsgIdRest
<1> QED
  BY <1>1, <1>2, <1>3 DEF RilRequests, Registration

(* What a complete registration status has been through, and what it has   *)
(* been through before each of its RIL requests.                           *)
Before ==
  [VOICE_REGISTRATION_STATE |-> {},
   DATA_REGISTRATION_STATE |-> {"VOICE_REGISTRATION_STATE"},
   OPERATOR |-> {"VOICE_REGISTRATION_STATE", "DATA_REGISTRATION_STATE"}]

FilledFits(r) ==
  /\ ctx[r].isCompleted => ctx[r].rsp.msg_id = msg[r]
  /\ msg[r] = "GET_REGISTRATION_STATUS" =>
       /\ ctx[r].st # "none" /\ ~ctx[r].isCompleted =>
            ctx[r].rsp.filled = Before[ctx[r].rilReqId]
       /\ ctx[r].isCompleted /\ ctx[r].rsp.result = "success" =>
            ctx[r].rsp.filled = Registration

ResponseInv ==
  /\ AdapterInv
  /\ \A r \in Requests : FilledFits(r)
  /\ ResponseFits
  /\ \A r \in Requests : msg[r] = "none" => stray \/ answered[r] = 0

(* The handlers keep the response of a registration in step. *)
LEMMA FilledInStep ==
  ASSUME NEW c \in Context, NEW e \in {"success", "failure"}, c.rilReqId \in Registration,
         c.rsp.filled = Before[c.rilReqId]
  PROVE  /\ Continues(c.rilReqId, e) =>
              Filled(c.rsp, c.rilReqId, e).filled = Before[NextRequest[c.rilReqId]]
         /\ ~Continues(c.rilReqId, e) /\ Filled(c.rsp, c.rilReqId, e).result = "success" =>
              Filled(c.rsp, c.rilReqId, e).filled = Registration
<1>1. CASE e = "failure"
  BY <1>1 DEF Filled, Continues
<1>2. CASE e = "success"
  <2>1. Filled(c.rsp, c.rilReqId, e).filled = Before[c.rilReqId] \cup {c.rilReqId}
    BY <1>2 DEF Filled
  <2>2. CASE c.rilReqId = "VOICE_REGISTRATION_STATE"
    BY <1>2, <2>1, <2>2, Chain DEF Before, Continues
  <2>3. CASE c.rilReqId = "DATA_REGISTRATION_STATE"
    BY <1>2, <2>1, <2>3, Chain DEF Before, Continues
  <2>4. CASE c.rilReqId = "OPERATOR"
    BY <1>2, <2>1, <2>4, Chain DEF Before, Continues, Registration
  <2> QED
    BY <2>2, <2>3, <2>4 DEF Registration
<1> QED
  BY <1>1, <1>2

LEMMA ResponseInit == Init => ResponseInv
<1> SUFFICES ASSUME Init PROVE ResponseInv
  OBVIOUS
<1>1. \A r \in Requests : FilledFits(r)
  BY DEF Init, FilledFits, NoContext
<1>2. ResponseFits
  BY DEF Init, ResponseFits
<1> QED
  BY <1>1, <1>2, AdapterInit DEF Init, ResponseInv

(* The response that is delivered is that of a complete context. *)
LEMMA ResponseStep == ResponseInv /\ [Next]_vars => ResponseInv'
<1> SUFFICES ASSUME ResponseInv, [Next]_vars PROVE ResponseInv'
  OBVIOUS
<1> USE DEF ResponseInv
<1>0. AdapterInv'
  BY AdapterStep
<1>a. TypeOK /\ ThreadsFit /\ OneRequestUnderWay /\ \A r \in Requests : ContextFits(r)
  BY DEF AdapterInv
<1>b. /\ ctx \in [Requests -> Context] /\ msg \in [Requests -> MsgIds \cup {"none"}]
      /\ answered \in [Requests -> Nat] /\ response \in [Requests -> Response]
      /\ stray \in BOOLEAN
  BY <1>a DEF TypeOK
<1>c. \A r \in Requests : answered[r] \in Nat
  BY <1>b
<1>1. ASSUME NEW r \in Requests, NEW m \in MsgIds, processRequest(r, m)
      PROVE  ResponseInv'
  <2>1. PICK q \in Calls(m) : IF q \in RilRequests THEN ctx' = [ctx EXCEPT ![r] = Token(q)]
                                                   ELSE UNCHANGED ctx
    BY <1>1 DEF processRequest
  <2>2. /\ msg[r] = "none" /\ msg' = [msg EXCEPT ![r] = m]
        /\ UNCHANGED <<answered, response, stray, stale>>
    BY <1>1 DEF processRequest, history
  <2>3. m # "none"
    BY ConstantsAssumption DEF NetworkMsgIds, RadioMsgIds, DataMsgIds
  <2>4. \A s \in Requests : msg'[s] = IF s = r THEN m ELSE msg[s]
    BY <1>b, <2>2
  <2>5. ctx[r].st = "none" /\ ~ctx[r].isCompleted
    BY <1>a, <2>2 DEF ContextFits
  <2>6. \A s \in Requests : s # r => ctx'[s] = ctx[s]
    BY <1>b, <2>1
  <2>7. FilledFits(r)'
    <3>1. CASE q \in RilRequests
      <4>1. ctx'[r] = Token(q)
        BY <1>b, <2>1, <3>1
      <4>2. /\ Token(q).rilReqId = q /\ ~Token(q).isCompleted
            /\ Token(q).rsp.filled = {}
        BY <3>1, TokenFields DEF NoResponse
      <4>3. m = "GET_REGISTRATION_STATUS" => q = "VOICE_REGISTRATION_STATE"
        BY <3>1, CallsFit
      <4>4. Before["VOICE_REGISTRATION_STATE"] = {}
        BY DEF Before
      <4> QED
        BY <2>4, <4>1, <4>2, <4>3, <4>4 DEF FilledFits
    <3>2. CASE q \notin RilRequests
      BY <2>1, <2>5, <3>2 DEF FilledFits
    <3> QED
      BY <3>1, <3>2
  <2>8. \A s \in Requests : FilledFits(s)'
    <3>1. \A s \in Requests : s # r => FilledFits(s)'
      BY <2>4, <2>6 DEF FilledFits
    <3> QED
      BY <2>7, <3>1
  <2>9. ResponseFits'
    BY <1>c, <2>2, <2>4 DEF ResponseFits
  <2> QED
    BY <1>0, <2>2, <2>3, <2>4, <2>8, <2>9
<1>2. ASSUME NEW d \in detached, sendToVendorRil(d)
      PROVE  ResponseInv'
  <2>1. UNCHANGED <<msg, ctx, answered, response, stray, stale>>
    BY <1>2 DEF sendToVendorRil, history
  <2> QED
    BY <1>0, <2>1 DEF FilledFits, ResponseFits
<1>3. ASSUME NEW t \in RilThreads, NEW v \in vendor, NEW e \in {"success", "failure"},
             NEW bad \in BOOLEAN, handleRilResponse(t, v, e, bad)
      PROVE  ResponseInv'
  <2> DEFINE r == v.token
             c == ctx[r]
             q == c.rilReqId
  <2>1. UNCHANGED <<msg, answered, response, stray>> /\ stale \subseteq stale'
    BY <1>3 DEF handleRilResponse
  <2>2. \/ UNCHANGED ctx
        \/ ctx' = [ctx EXCEPT ![r] = Handled(c, e)]
    BY <1>3 DEF handleRilResponse
  <2>3. r \in Requests /\ c \in Context /\ c.st = "live" /\ ~c.isCompleted
    BY <1>a DEF OneRequestUnderWay, TypeOK, Underway
  <2>4. q \in RilRequests /\ MsgIdOf(q) = msg[r]
    BY <1>a, <2>3 DEF ContextFits
  <2>5. ResponseFits'
    BY <2>1 DEF ResponseFits
  <2>6. CASE UNCHANGED ctx
    BY <1>0, <2>1, <2>5, <2>6 DEF FilledFits
  <2>7. CASE ctx' = [ctx EXCEPT ![r] = Handled(c, e)]
    <3>1. \A s \in Requests : ctx'[s] = IF s = r THEN Handled(c, e) ELSE ctx[s]
      BY <1>b, <2>3, <2>7
    <3>2. /\ Handled(c, e).rsp = Filled(c.rsp, q, e)
          /\ Handled(c, e).isCompleted = ~Continues(q, e)
          /\ Continues(q, e) => Handled(c, e).rilReqId = NextRequest[q]
      BY <2>3, <2>4, HandledFields
    <3>3. Filled(c.rsp, q, e).msg_id = msg[r]
      BY <2>4 DEF Filled
    <3>4. ASSUME msg[r] = "GET_REGISTRATION_STATUS"
          PROVE  /\ Continues(q, e) =>
                      Filled(c.rsp, q, e).filled = Before[NextRequest[q]]
                 /\ ~Continues(q, e) /\ Filled(c.rsp, q, e).result = "success" =>
                      Filled(c.rsp, q, e).filled = Registration
      <4>1. q \in Registration
        BY <2>4, <3>4, MsgIdBack
      <4>2. c.rsp.filled = Before[q]
        BY <2>3, <3>4 DEF FilledFits
      <4> QED
        BY <2>3, <4>1, <4>2, FilledInStep
    <3>5. FilledFits(r)'
      BY <2>1, <2>3, <3>1, <3>2, <3>3, <3>4 DEF FilledFits
    <3>6. \A s \in Requests : FilledFits(s)'
      BY <2>1, <3>1, <3>5 DEF FilledFits
    <3> QED
      BY <1>0, <2>1, <2>5, <3>6
  <2> QED
    BY <2>2, <2>6, <2>7
<1>4. ASSUME NEW t \in RilThreads, check_completed(t)
      PROVE  ResponseInv'
  <2>1. UNCHANGED <<msg, ctx, answered, response, stray>> /\ stale \subseteq stale'
    BY <1>4 DEF check_completed
  <2> QED
    BY <1>0, <2>1 DEF FilledFits, ResponseFits
<1>5. ASSUME NEW t \in RilThreads, deliver_response(t)
      PROVE  ResponseInv'
  <2> DEFINE r == thread[t].token
  <2>1. /\ thread[t].st = "deliver"
        /\ answered' = [answered EXCEPT ![r] = @ + 1]
        /\ response' = [response EXCEPT ![r] = ctx[r].rsp]
        /\ UNCHANGED <<msg, ctx, stray>> /\ stale \subseteq stale'
    BY <1>5 DEF deliver_response
  <2>2. r \in Requests /\ ctx[r].isCompleted
    BY <1>a, <2>1, ThreadKinds DEF ThreadsFit
  <2>3. /\ \A s \in Requests : s # r => answered'[s] = answered[s] /\ response'[s] = response[s]
        /\ response'[r] = ctx[r].rsp
    BY <1>b, <2>1, <2>2
  <2>4. msg[r] # "none"
    BY <1>a, <2>2 DEF ContextFits
  <2>5. ResponseFits'
    BY <2>1, <2>2, <2>3 DEF ResponseFits, FilledFits, Registration
  <2>6. \A s \in Requests : FilledFits(s)'
    BY <2>1 DEF FilledFits
  <2> QED
    BY <1>0, <2>1, <2>3, <2>4, <2>5, <2>6
<1>6. ASSUME NEW t \in RilThreads, delete_context(t)
      PROVE  ResponseInv'
  <2> DEFINE r == thread[t].token
  <2>1. /\ thread[t].st = "delete"
        /\ ctx' = [ctx EXCEPT ![r].st = "freed"]
        /\ UNCHANGED <<msg, answered, response, stray>> /\ stale \subseteq stale'
    BY <1>6 DEF delete_context
  <2>2. r \in Requests /\ ctx[r].isCompleted
    BY <1>a, <2>1, ThreadKinds DEF ThreadsFit
  <2>3. /\ \A s \in Requests : s # r => ctx'[s] = ctx[s]
        /\ ctx'[r].isCompleted /\ ctx'[r].rsp = ctx[r].rsp
    BY <1>b, <2>1, <2>2 DEF Context
  <2>4. \A s \in Requests : FilledFits(s)'
    BY <2>1, <2>2, <2>3 DEF FilledFits
  <2> QED
    BY <1>0, <2>1, <2>4 DEF ResponseFits
<1>7. ASSUME NEW r \in stateJobs, NEW u \in Requests, NEW known \in BOOLEAN,
             getRadioMode_thread(r, u, known)
      PROVE  ResponseInv'
  <2>1. UNCHANGED <<msg, ctx, stale>>
    BY <1>7 DEF getRadioMode_thread
  <2>2. \A s \in Requests : FilledFits(s)'
    BY <2>1 DEF FilledFits
  <2>3. r \in Requests /\ msg[r] = "GET_RADIO_MODE"
    BY <1>a DEF TypeOK, ContextFits
  <2>4. CASE ~known
    <3>1. UNCHANGED <<answered, response, stray>>
      BY <1>7, <2>4 DEF getRadioMode_thread
    <3> QED
      BY <1>0, <2>1, <2>2, <3>1 DEF ResponseFits
  <2>5. CASE known
    <3>1. /\ answered' = [answered EXCEPT ![u] = @ + 1]
          /\ response' = [response EXCEPT ![u] =
               [msg_id |-> "GET_RADIO_MODE", result |-> "success", filled |-> {}]]
          /\ stray' = (stray \/ u # r)
      BY <1>7, <2>5 DEF getRadioMode_thread
    <3>2. CASE stray'
      BY <1>0, <2>2, <3>2 DEF ResponseFits
    <3>3. CASE ~stray'
      <4>1. u = r /\ ~stray
        BY <3>1, <3>3
      <4>2. \A s \in Requests : s # r => answered'[s] = answered[s] /\ response'[s] = response[s]
        BY <1>b, <2>3, <3>1, <4>1
      <4>3. response'[r].msg_id = "GET_RADIO_MODE"
        BY <1>b, <2>3, <3>1, <4>1
      <4>4. ResponseFits'
        BY <2>1, <2>3, <4>1, <4>2, <4>3 DEF ResponseFits
      <4> QED
        BY <1>0, <2>1, <2>2, <2>3, <4>1, <4>2, <4>4
    <3> QED
      BY <3>2, <3>3
  <2> QED
    BY <2>4, <2>5
<1>8. ASSUME NEW t \in RilThreads, NEW i \in DOMAIN IndicationOf,
             handleRilUnsolicitedResponse(t, i)
      PROVE  ResponseInv'
  <2>1. UNCHANGED <<msg, ctx, answered, response, stray, stale>>
    BY <1>8 DEF handleRilUnsolicitedResponse, history
  <2> QED
    BY <1>0, <2>1 DEF FilledFits, ResponseFits
<1>9. CASE UNCHANGED vars
  <2>1. UNCHANGED <<msg, ctx, answered, response, stray, stale>>
    BY <1>9 DEF vars
  <2> QED
    BY <1>0, <2>1 DEF FilledFits, ResponseFits
<1>10. ASSUME NEW t \in RilThreads, deliver_freed(t)
       PROVE  ResponseInv'
  <2> DEFINE r == thread[t].token
  <2>1. /\ thread[t].st = "deliver" /\ r \in Requests
        /\ stale' = stale \cup {r} /\ UNCHANGED <<msg, ctx>>
        /\ stray => stray'
        /\ stray' \/ \A s \in Requests \ {r} :
                        answered'[s] = answered[s] /\ response'[s] = response[s]
    BY <1>10, <1>a, FreedStep
  <2>2. msg[r] # "none"
    BY <1>a, <2>1 DEF ThreadsFit, ContextFits
  <2>3. \A s \in Requests : FilledFits(s)'
    BY <2>1 DEF FilledFits
  <2>4. ResponseFits'
    BY <2>1 DEF ResponseFits
  <2> QED
    BY <1>0, <2>1, <2>2, <2>3, <2>4
<1> QED
  BY <1>1, <1>2, <1>3, <1>4, <1>5, <1>6, <1>7, <1>8, <1>9, <1>10
  DEF Next, Detached, RilThread

(* Every response fits its request, and a registration status that reports *)
(* success is whole, unless its context was used after its deletion.       *)
THEOREM ResponsesFit == Spec => []ResponseFits
<1>1. ResponseInv => ResponseFits
  BY DEF ResponseInv
<1> QED
  BY <1>1, ResponseInit, ResponseStep, PTL DEF Spec
-----------------------------------------------------------------------------
(* The race of line 1310.  A request has been raced when it is for a       *)
(* registration status and two threads have handled its completions; as    *)
(* long as it has not, one thread at a time has its context, which is      *)
(* alive, and the response goes out once.                                  *)
On(t, r) == thread[t].st \in {"check", "deliver", "delete"} /\ thread[t].token = r

Raced(r) == msg[r] = "GET_REGISTRATION_STATUS" /\ \E t, u \in by[r] : t # u

(* What an answer leaves behind: a context that is or will be deleted, or  *)
(* a getRadioModeV1 thread that has run.                                   *)
Settled(r) ==
  \/ ctx[r].st = "freed"
  \/ \E t \in RilThreads : On(t, r) /\ thread[t].st = "delete"
  \/ ctx[r].st = "none" /\ msg[r] # "none" /\ r \notin stateJobs

Calm(r) ==
  /\ r \notin stale
  /\ \A t, u \in RilThreads : On(t, r) /\ On(u, r) => t = u
  /\ \A t \in RilThreads : On(t, r) => ctx[r].st = "live"
  /\ ~stray => answered[r] <= 1 /\ (answered[r] > 0 => Settled(r))

RaceFits(r) ==
  /\ \A t \in RilThreads : On(t, r) =>
       t \in by[r] /\ (msg[r] # "GET_REGISTRATION_STATUS" => ctx[r].isCompleted)
  /\ Raced(r) \/ Calm(r)

RaceInv == AdapterInv /\ \A r \in Requests : RaceFits(r)

LEMMA RaceInit == Init => RaceInv
<1> SUFFICES ASSUME Init PROVE RaceInv
  OBVIOUS
<1>1. \A t \in RilThreads, r \in Requests : ~On(t, r)
  BY DEF Init, On, Idle
<1>2. \A r \in Requests : r \notin stale /\ answered[r] = 0
  BY DEF Init
<1>3. \A r \in Requests : RaceFits(r)
  BY <1>1, <1>2 DEF RaceFits, Calm
<1> QED
  BY <1>3, AdapterInit DEF RaceInv

(* A request that a step does not touch. *)
LEMMA RaceFrame ==
  ASSUME NEW r \in Requests, RaceFits(r),
         \A t \in RilThreads : On(t, r)' <=> On(t, r),
         \A t \in RilThreads : On(t, r) => thread'[t].st = thread[t].st,
         ctx'[r] = ctx[r], msg'[r] = msg[r], by'[r] = by[r], answered'[r] = answered[r],
         r \in stale' => r \in stale, stray => stray', r \in stateJobs' <=> r \in stateJobs
  PROVE  RaceFits(r)'
<1>1. Raced(r) => Raced(r)'
  BY DEF Raced
<1>2. Settled(r) => Settled(r)'
  BY DEF Settled
<1>3. Calm(r) => Calm(r)'
  BY <1>2 DEF Calm
<1> QED
  BY <1>1, <1>3 DEF RaceFits

(* No thread has a request without a context. *)
LEMMA NoneOn ==
  ASSUME AdapterInv, NEW r \in Requests, NEW t \in RilThreads, ctx[r].st = "none"
  PROVE  ~On(t, r)
  BY DEF AdapterInv, ThreadsFit, ContextFits, On

LEMMA RaceReceives ==
  ASSUME RaceInv, NEW r \in Requests, NEW m \in MsgIds, processRequest(r, m)
  PROVE  \A s \in Requests : RaceFits(s)'
<1>1. PICK q \in Calls(m) :
        /\ stateJobs' = IF q = "thread" THEN stateJobs \cup {r} ELSE stateJobs
        /\ ctx' = ctx \/ ctx' = [ctx EXCEPT ![r] = Token(q)]
        /\ q = "thread" => ctx' = ctx
  BY DEF processRequest, RilRequests, RilRequestOf
<1>2. /\ msg[r] = "none" /\ msg' = [msg EXCEPT ![r] = m]
      /\ UNCHANGED <<thread, answered, response, by, stray, stale>>
  BY DEF processRequest, history
<1>3. TypeOK /\ ctx[r].st = "none" /\ r \notin stateJobs
  BY <1>2 DEF RaceInv, AdapterInv, ContextFits
<1>4. \A t \in RilThreads, s \in Requests : On(t, s)' <=> On(t, s)
  BY <1>2 DEF On
<1>5. ASSUME NEW s \in Requests, s # r PROVE RaceFits(s)'
  <2>1. ctx'[s] = ctx[s] /\ msg'[s] = msg[s] /\ (s \in stateJobs' <=> s \in stateJobs)
    BY <1>1, <1>2, <1>3, <1>5 DEF TypeOK
  <2> QED
    BY <1>2, <1>4, <2>1, RaceFrame DEF RaceInv
<1>6. RaceFits(r)'
  <2>1. \A t \in RilThreads : ~On(t, r)
    BY <1>3, NoneOn DEF RaceInv
  <2>2. Calm(r)
    BY <1>2 DEF RaceInv, RaceFits, Raced
  <2>3. ~Settled(r)
    BY <1>2, <1>3, <2>1 DEF Settled
  <2>4. Calm(r)'
    BY <1>2, <1>4, <2>1, <2>2, <2>3 DEF Calm
  <2> QED
    BY <1>4, <2>1, <2>4 DEF RaceFits
<1> QED
  BY <1>5, <1>6

(* A handler runs on an idle thread: if another thread still has the       *)
(* context, two threads have handled completions of a registration.        *)
LEMMA RaceHandles ==
  ASSUME RaceInv, NEW t \in RilThreads, NEW v \in vendor,
         NEW e \in {"success", "failure"}, NEW bad \in BOOLEAN,
         handleRilResponse(t, v, e, bad)
  PROVE  \A s \in Requests : RaceFits(s)'
<1> DEFINE r == v.token
           c == ctx[r]
           q == c.rilReqId
<1>1. /\ thread[t] = Idle
      /\ by' = [by EXCEPT ![r] = @ \cup {t}]
      /\ stale' = IF c.st = "freed" THEN stale \cup {r} ELSE stale
      /\ UNCHANGED <<msg, stateJobs, answered, stray>>
  BY DEF handleRilResponse
<1>2. \/ UNCHANGED <<ctx, thread>>
      \/ /\ ctx' = [ctx EXCEPT ![r] = Handled(c, e)]
         /\ thread' = [thread EXCEPT ![t] = [st |-> "check", token |-> r]]
  BY DEF handleRilResponse
<1>3. TypeOK /\ r \in Requests /\ c \in Context
  BY DEF RaceInv, AdapterInv, TypeOK, Underway
<1>4. c.st = "live" /\ ~c.isCompleted /\ q \in RilRequests /\ MsgIdOf(q) = msg[r]
  BY <1>3 DEF RaceInv, AdapterInv, OneRequestUnderWay, ContextFits
<1>5. /\ Handled(c, e).st = "live"
      /\ msg[r] # "GET_REGISTRATION_STATUS" => Handled(c, e).isCompleted
  <2>1. Handled(c, e).st = c.st /\ Handled(c, e).isCompleted = ~Continues(q, e)
    BY <1>3, <1>4, HandledFields
  <2>2. Continues(q, e) => msg[r] = "GET_REGISTRATION_STATUS"
    BY <1>4, Chain, MsgIdRest DEF Continues, Registration
  <2> QED
    BY <1>4, <2>1, <2>2
<1>6. stale' = stale
  BY <1>1, <1>4
<1> HIDE DEF r
<1>7. \A s \in Requests : ~On(t, s)
  BY <1>1 DEF On, Idle
<1>8. \A u \in RilThreads, s \in Requests : u # t => (On(u, s)' <=> On(u, s))
  BY <1>2, <1>3 DEF On, TypeOK
<1>9. \A u \in RilThreads : u # t => thread'[u] = thread[u]
  BY <1>2, <1>3 DEF TypeOK
<1>10. ASSUME NEW s \in Requests, s # r PROVE RaceFits(s)'
  <2>1. ~On(t, s)'
    BY <1>2, <1>3, <1>7, <1>10 DEF On, TypeOK
  <2>2. ctx'[s] = ctx[s] /\ by'[s] = by[s]
    BY <1>1, <1>2, <1>3, <1>10 DEF TypeOK
  <2> QED
    BY <1>1, <1>6, <1>7, <1>8, <1>9, <2>1, <2>2, RaceFrame DEF RaceInv
<1>11. RaceFits(r)'
  <2>1. RaceFits(r) /\ by'[r] = by[r] \cup {t}
    BY <1>1, <1>3 DEF RaceInv, TypeOK
  <2>2. ctx'[r].st = "live" /\ (ctx'[r] = ctx[r] \/ ctx'[r] = Handled(c, e))
    BY <1>2, <1>3, <1>4, <1>5 DEF TypeOK
  <2>3. Raced(r) => Raced(r)'
    BY <1>1, <2>1 DEF Raced
  <2>4. ASSUME NEW u \in RilThreads, On(u, r) PROVE Raced(r)'
    <3>1. u \in by[r] /\ u # t
      BY <1>7, <1>3, <2>1, <2>4 DEF RaceFits
    <3>2. msg[r] = "GET_REGISTRATION_STATUS"
      BY <1>4, <2>1, <2>4 DEF RaceFits
    <3> QED
      BY <1>1, <2>1, <3>1, <3>2 DEF Raced
  <2>5. ASSUME NEW u \in RilThreads, On(u, r)'
        PROVE  u \in by'[r] /\ (msg'[r] # "GET_REGISTRATION_STATUS" => ctx'[r].isCompleted)
    <3>1. CASE u = t
      <4>1. ctx'[r] = Handled(c, e)
        BY <1>2, <1>3, <1>7, <2>5, <3>1 DEF On, TypeOK
      <4> QED
        BY <1>1, <1>5, <2>1, <3>1, <4>1
    <3>2. CASE u # t
      <4>1. On(u, r)
        BY <1>3, <1>8, <2>5, <3>2
      <4>2. u \in by[r] /\ msg[r] = "GET_REGISTRATION_STATUS"
        BY <1>4, <2>1, <4>1 DEF RaceFits
      <4> QED
        BY <1>1, <2>1, <4>2
    <3> QED
      BY <3>1, <3>2
  <2>6. ASSUME \A u \in RilThreads : ~On(u, r), Calm(r) PROVE Calm(r)'
    <3>1. \A u \in RilThreads : On(u, r)' => u = t
      BY <1>3, <1>8, <2>6
    <3>2. ~Settled(r)
      BY <1>4, <2>6 DEF Settled
    <3>3. r \notin stale /\ (~stray => answered[r] <= 1 /\ ~(answered[r] > 0))
      BY <2>6, <3>2 DEF Calm
    <3>4. /\ r \notin stale' /\ (~stray' => answered'[r] <= 1 /\ ~(answered'[r] > 0))
      BY <1>1, <1>6, <3>3
    <3> QED
      BY <2>2, <3>1, <3>4 DEF Calm
  <2>7. Raced(r)' \/ Calm(r)'
    BY <2>1, <2>3, <2>4, <2>6 DEF RaceFits
  <2> QED
    BY <2>5, <2>7 DEF RaceFits
<1> QED
  BY <1>10, <1>11

(* The rest of handleRilResponse.  Unless the request has been raced, the  *)
(* thread is the only one that has the context, and the context is alive.  *)
LEMMA RaceCompletes ==
  ASSUME RaceInv, NEW t \in RilThreads, NEW r, r = thread[t].token,
         check_completed(t) \/ deliver_response(t) \/ delete_context(t)
  PROVE  \A s \in Requests : RaceFits(s)'
<1>1. thread[t].st \in {"check", "deliver", "delete"}
  BY DEF check_completed, deliver_response, delete_context
<1>2. /\ UNCHANGED <<msg, stateJobs, by, stray>>
      /\ stale' = IF ctx[r].st = "freed" THEN stale \cup {r} ELSE stale
      /\ ctx' = ctx \/ ctx' = [ctx EXCEPT ![r].st = "freed"]
      /\ answered' = answered \/ answered' = [answered EXCEPT ![r] = @ + 1]
      /\ \E x : thread' = [thread EXCEPT ![t] = x] /\ (x = Idle \/ x.token = r)
  <2>1. CASE check_completed(t)
    <3>1. PICK done \in BOOLEAN :
            thread' = [thread EXCEPT ![t] = IF done THEN [thread[t] EXCEPT !.st = "deliver"]
                                            ELSE Idle]
      BY <2>1 DEF check_completed, RaceInv, AdapterInv, TypeOK, Context
    <3>2. [thread[t] EXCEPT !.st = "deliver"].token = r
      BY <1>1, ThreadKinds DEF RaceInv, AdapterInv, Busy
    <3> QED
      BY <2>1, <3>1, <3>2 DEF check_completed
  <2>2. CASE deliver_response(t)
    <3>1. thread' = [thread EXCEPT ![t] = [thread[t] EXCEPT !.st = "delete"]]
      BY <2>2 DEF deliver_response
    <3>2. [thread[t] EXCEPT !.st = "delete"].token = r
      BY <1>1, ThreadKinds DEF RaceInv, AdapterInv, Busy
    <3> QED
      BY <2>2, <3>1, <3>2 DEF deliver_response
  <2>3. CASE delete_context(t)
    BY <2>3 DEF delete_context
  <2> QED
    BY <2>1, <2>2, <2>3
<1>3. TypeOK /\ r \in Requests /\ On(t, r) /\ thread[t] \in Busy
  BY <1>1, ThreadKinds DEF RaceInv, AdapterInv, On
<1>4. \A u \in RilThreads : u # t => thread'[u] = thread[u]
  BY <1>2, <1>3 DEF TypeOK
<1> DEFINE th == thread'[t]
<1>5. th = Idle \/ th.token = r
  BY <1>2, <1>3 DEF TypeOK
<1>6. ASSUME NEW s \in Requests, s # r PROVE RaceFits(s)'
  <2>1. ~On(t, s) /\ ~On(t, s)'
    BY <1>5, <1>6 DEF On, Idle
  <2>2. ctx'[s] = ctx[s] /\ answered'[s] = answered[s] /\ (s \in stale' => s \in stale)
    BY <1>2, <1>3, <1>6 DEF TypeOK
  <2>3. \A u \in RilThreads : On(u, s)' <=> On(u, s)
    BY <1>4, <2>1 DEF On
  <2>4. \A u \in RilThreads : On(u, s) => thread'[u].st = thread[u].st
    BY <1>4, <2>1
  <2> QED
    BY <1>2, <2>2, <2>3, <2>4, RaceFrame DEF RaceInv
<1>7. RaceFits(r)'
  <2>1. RaceFits(r)
    BY <1>3 DEF RaceInv
  <2>2. Raced(r) => Raced(r)'
    BY <1>2 DEF Raced
  <2>3. \A u \in RilThreads : On(u, r)' => On(u, r)
    BY <1>3, <1>4 DEF On
  <2>4. ctx'[r].isCompleted = ctx[r].isCompleted
    <3>1. ctx[r] \in Context
      BY <1>3 DEF TypeOK
    <3>2. [ctx[r] EXCEPT !.st = "freed"].isCompleted = ctx[r].isCompleted
      BY <3>1 DEF Context
    <3>3. ctx' = ctx \/ ctx'[r] = [ctx[r] EXCEPT !.st = "freed"]
      BY <1>2, <1>3 DEF TypeOK
    <3> QED
      BY <3>2, <3>3
  <2>5. ASSUME NEW u \in RilThreads, On(u, r)'
        PROVE  u \in by'[r] /\ (msg'[r] # "GET_REGISTRATION_STATUS" => ctx'[r].isCompleted)
    BY <1>2, <2>1, <2>3, <2>4, <2>5 DEF RaceFits
  <2>6. ASSUME Calm(r) PROVE Calm(r)'
    <3>1. ctx[r].st = "live" /\ r \notin stale /\ \A u \in RilThreads : On(u, r) => u = t
      BY <1>3, <2>6 DEF Calm
    <3>2. r \notin stale'
      BY <1>2, <3>1
    <3>3. \A u, w \in RilThreads : On(u, r)' /\ On(w, r)' => u = w
      BY <2>3, <3>1
    <3>a. answered[r] \in Nat /\ (~stray => answered[r] <= 1)
      BY <1>3, <2>6 DEF TypeOK, Calm
    <3>b. ~stray /\ answered[r] > 0 => thread[t].st = "delete"
      BY <2>6, <3>1 DEF Calm, Settled
    <3>4. CASE check_completed(t)
      <4>1. ctx' = ctx /\ answered' = answered /\ thread[t].st = "check"
        BY <3>4 DEF check_completed
      <4>2. ~stray' => answered'[r] <= 1 /\ ~(answered'[r] > 0)
        BY <1>2, <3>a, <3>b, <4>1
      <4> QED
        BY <3>1, <3>2, <3>3, <4>1, <4>2 DEF Calm
    <3>5. CASE deliver_response(t)
      <4>1. /\ ctx' = ctx /\ answered' = [answered EXCEPT ![r] = @ + 1]
            /\ thread[t].st = "deliver"
            /\ thread'[t] = [thread[t] EXCEPT !.st = "delete"]
        BY <1>3, <3>5 DEF deliver_response, TypeOK
      <4>2. thread'[t].st = "delete" /\ thread'[t].token = r
        BY <1>3, <4>1 DEF Busy
      <4>3. On(t, r)'
        BY <4>2 DEF On
      <4>4. Settled(r)'
        BY <4>2, <4>3 DEF Settled
      <4>5. ~stray => ~(answered[r] > 0)
        BY <3>b, <4>1
      <4>6. answered'[r] = answered[r] + 1
        BY <1>3, <4>1 DEF TypeOK
      <4>7. ~stray => answered'[r] <= 1
        BY <3>a, <4>5, <4>6
      <4> QED
        BY <1>2, <3>1, <3>2, <3>3, <4>1, <4>4, <4>7 DEF Calm
    <3>6. CASE delete_context(t)
      <4>1. /\ ctx' = [ctx EXCEPT ![r].st = "freed"] /\ answered' = answered
            /\ thread'[t] = Idle
        BY <1>3, <3>6 DEF delete_context, TypeOK
      <4>2. ctx'[r].st = "freed"
        BY <1>3, <4>1 DEF TypeOK, Context
      <4>3. \A u \in RilThreads : ~On(u, r)'
        BY <2>3, <3>1, <4>1 DEF On, Idle
      <4>4. Settled(r)'
        BY <4>2 DEF Settled
      <4> QED
        BY <1>2, <3>2, <3>a, <4>1, <4>3, <4>4 DEF Calm
    <3> QED
      BY <3>4, <3>5, <3>6
  <2> QED
    BY <2>1, <2>2, <2>5, <2>6 DEF RaceFits
<1> QED
  BY <1>6, <1>7

(* A getRadioModeV1 thread answers once; with the id of another request it *)
(* is a stray answer, and nothing is said of the numbers of answers.       *)
LEMMA RaceRadioMode ==
  ASSUME RaceInv, NEW r \in stateJobs, NEW u \in Requests, NEW known \in BOOLEAN,
         getRadioMode_thread(r, u, known)
  PROVE  \A s \in Requests : RaceFits(s)'
<1>1. /\ stateJobs' = stateJobs \ {r} /\ UNCHANGED <<msg, ctx, thread, by, stale>>
      /\ (answered' = answered /\ stray' = stray)
         \/ (answered' = [answered EXCEPT ![u] = @ + 1] /\ stray' = (stray \/ u # r))
  BY DEF getRadioMode_thread
<1>2. /\ TypeOK /\ r \in Requests /\ ctx[r].st = "none"
      /\ msg[r] = "GET_RADIO_MODE"
  BY DEF RaceInv, AdapterInv, TypeOK, ContextFits
<1>3. \A t \in RilThreads, s \in Requests : On(t, s)' <=> On(t, s)
  BY <1>1 DEF On
<1>4. ASSUME NEW s \in Requests PROVE Raced(s) => Raced(s)'
  BY <1>1 DEF Raced
<1>5. ASSUME NEW s \in Requests, Settled(s) PROVE Settled(s)'
  BY <1>1, <1>3, <1>5 DEF Settled
<1>6. ASSUME NEW s \in Requests, Calm(s) PROVE Calm(s)'
  <2>1. /\ s \notin stale' /\ \A t, w \in RilThreads : On(t, s)' /\ On(w, s)' => t = w
        /\ \A t \in RilThreads : On(t, s)' => ctx'[s].st = "live"
    BY <1>1, <1>3, <1>6 DEF Calm
  <2>2. ~stray' => ~stray
    BY <1>1
  <2>3. CASE s # r \/ answered' = answered
    <3>1. ~stray' => answered'[s] = answered[s]
      BY <1>1, <1>2, <2>3 DEF TypeOK
    <3> QED
      BY <1>5, <1>6, <2>1, <2>2, <3>1 DEF Calm
  <2>4. CASE s = r
    <3>1. \A t \in RilThreads : ~On(t, r)
      BY <1>2, NoneOn DEF RaceInv
    <3>2. ~Settled(r)
      BY <1>2, <3>1 DEF Settled
    <3>3. answered[r] \in Nat /\ (~stray => ~(answered[r] > 0))
      BY <1>2, <1>6, <2>4, <3>2 DEF Calm, TypeOK
    <3>4. answered'[r] = answered[r] \/ answered'[r] = answered[r] + 1
      BY <1>1, <1>2 DEF TypeOK
    <3>5. ~stray => answered'[r] <= 1
      BY <3>3, <3>4
    <3>6. Settled(r)'
      BY <1>1, <1>2 DEF Settled
    <3> QED
      BY <2>1, <2>2, <2>4, <3>5, <3>6 DEF Calm
  <2> QED
    BY <2>3, <2>4
<1> QED
  BY <1>1, <1>3, <1>4, <1>6 DEF RaceInv, RaceFits

(* A deleted response is delivered only for a request that has been raced: *)
(* another thread had the context too.                                     *)
LEMMA RaceFreed ==
  ASSUME RaceInv, NEW t \in RilThreads, NEW r, r = thread[t].token, deliver_freed(t)
  PROVE  \A s \in Requests : RaceFits(s)'
<1>1. TypeOK
  BY DEF RaceInv, AdapterInv
<1>2. /\ thread[t].st = "deliver" /\ r \in Requests /\ Gone(t, r)
      /\ thread' = [thread EXCEPT ![t] = [st |-> "delete", token |-> r]]
      /\ stale' = stale \cup {r} /\ (stray => stray')
      /\ stray' \/ \A s \in Requests \ {r} : answered'[s] = answered[s]
      /\ UNCHANGED <<msg, ctx, stateJobs, by>>
  BY <1>1, FreedStep
<1>3. On(t, r)
  BY <1>2 DEF On
<1>4. Raced(r)
  <2>1. ~Calm(r)
    <3>1. CASE ctx[r].st = "freed"
      BY <1>3, <3>1 DEF Calm
    <3>2. ASSUME NEW u \in RilThreads \ {t}, thread[u] = [st |-> "delete", token |-> r]
          PROVE  ~Calm(r)
      <4>1. On(u, r) /\ u # t
        BY <3>2 DEF On
      <4> QED
        BY <1>3, <4>1 DEF Calm
    <3> QED
      BY <1>2, <3>1, <3>2 DEF Gone
  <2> QED
    BY <1>2, <2>1 DEF RaceInv, RaceFits
<1>5. \A u \in RilThreads, s \in Requests : On(u, s)' <=> On(u, s)
  <2>1. \A u \in RilThreads : u # t => thread'[u] = thread[u]
    BY <1>1, <1>2 DEF TypeOK
  <2>2. thread'[t].st = "delete" /\ thread'[t].token = r
    BY <1>1, <1>2 DEF TypeOK
  <2> QED
    BY <1>2, <2>1, <2>2 DEF On
<1>6. RaceFits(r)'
  <2>1. Raced(r)'
    BY <1>2, <1>4 DEF Raced
  <2> QED
    BY <1>2, <1>5, <2>1 DEF RaceInv, RaceFits
<1>7. ASSUME NEW s \in Requests, s # r PROVE RaceFits(s)'
  <2>1. Raced(s) => Raced(s)'
    BY <1>2 DEF Raced
  <2>2. ASSUME Settled(s) PROVE Settled(s)'
    <3>1. \A u \in RilThreads : On(u, s) => thread'[u] = thread[u]
      BY <1>1, <1>2, <1>7 DEF TypeOK, On
    <3> QED
      BY <1>2, <1>5, <2>2, <3>1 DEF Settled
  <2>3. ASSUME Calm(s) PROVE Calm(s)'
    BY <1>2, <1>5, <1>7, <2>2, <2>3 DEF Calm
  <2> QED
    BY <1>2, <1>5, <1>7, <2>1, <2>3 DEF RaceInv, RaceFits
<1> QED
  BY <1>6, <1>7

LEMMA RaceStep == RaceInv /\ [Next]_vars => RaceInv'
<1> SUFFICES ASSUME RaceInv, [Next]_vars PROVE RaceInv'
  OBVIOUS
<1>0. AdapterInv'
  BY AdapterStep DEF RaceInv
<1>1. ASSUME UNCHANGED <<msg, ctx, thread, by, answered, stray, stale, stateJobs>>
      PROVE  RaceInv'
  <2>1. \A t \in RilThreads, r \in Requests : On(t, r)' <=> On(t, r)
    BY <1>1 DEF On
  <2>2. \A r \in Requests : RaceFits(r)'
    BY <1>1, <2>1, RaceFrame DEF RaceInv
  <2> QED
    BY <1>0, <2>2 DEF RaceInv
<1>2. ASSUME NEW r \in Requests, NEW m \in MsgIds, processRequest(r, m) PROVE RaceInv'
  BY <1>0, <1>2, RaceReceives DEF RaceInv
<1>3. ASSUME NEW d \in detached, sendToVendorRil(d) PROVE RaceInv'
  BY <1>1, <1>3 DEF sendToVendorRil, history
<1>4. ASSUME NEW r \in stateJobs, NEW u \in Requests, NEW known \in BOOLEAN,
             getRadioMode_thread(r, u, known)
      PROVE  RaceInv'
  BY <1>0, <1>4, RaceRadioMode DEF RaceInv
<1>5. ASSUME NEW t \in RilThreads, NEW v \in vendor, NEW e \in {"success", "failure"},
             NEW bad \in BOOLEAN, handleRilResponse(t, v, e, bad)
      PROVE  RaceInv'
  BY <1>0, <1>5, RaceHandles DEF RaceInv
<1>6. ASSUME NEW t \in RilThreads,
             check_completed(t) \/ deliver_response(t) \/ delete_context(t)
      PROVE  RaceInv'
  BY <1>0, <1>6, RaceCompletes DEF RaceInv
<1>7. ASSUME NEW t \in RilThreads, NEW i \in DOMAIN IndicationOf,
             handleRilUnsolicitedResponse(t, i)
      PROVE  RaceInv'
  BY <1>1, <1>7 DEF handleRilUnsolicitedResponse, history
<1>8. ASSUME NEW t \in RilThreads, deliver_freed(t)
      PROVE  RaceInv'
  BY <1>0, <1>8, RaceFreed DEF RaceInv
<1>9. CASE UNCHANGED vars
  BY <1>1, <1>9 DEF vars
<1> QED
  BY <1>2, <1>3, <1>4, <1>5, <1>6, <1>7, <1>8, <1>9 DEF Next, Detached, RilThread

(* Only a registration status whose completions came on two threads can    *)
(* have its context used after its deletion or be answered twice (line     *)
(* 1310 reads isCompleted after the handler has let the context go), for   *)
(* any number of vendor threads.                                           *)
THEOREM RaceTakesTwo == Spec => []RaceNeedsTwoThreads
<1>1. RaceInv => RaceNeedsTwoThreads
  <2> SUFFICES ASSUME RaceInv, NEW r \in Requests,
                      r \in stale \/ (~stray /\ answered[r] > 1)
               PROVE  Raced(r)
    BY DEF RaceNeedsTwoThreads, Raced
  <2>1. answered[r] \in Nat
    BY DEF RaceInv, AdapterInv, TypeOK
  <2>2. ~Calm(r)
    BY <2>1 DEF Calm
  <2> QED
    BY <2>2 DEF RaceInv, RaceFits
<1> QED
  BY <1>1, RaceInit, RaceStep, PTL DEF Spec
=============================================================================
