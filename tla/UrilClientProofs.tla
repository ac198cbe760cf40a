-------------------------- MODULE UrilClientProofs --------------------------
(***************************************************************************)
(* Proofs about UrilClient, for any calls, any number of slots, ids,       *)
(* connections and indications.                                            *)
(***************************************************************************)
EXTENDS UrilClient, TLAPS

(* TypeOK in parts: flags, counters, calls with their slots, what          *)
(* synchronous calls share with receive threads, and the connections.      *)
Receivers ==
  [st : {"none", "recv", "call", "lock", "signal", "ind", "user", "stuck", "ended",
         "failed", "crashed"},
   uid : Ids, cb : {"null", "user", "default", "async_cb"}, data : Calls \cup {NoCall}]
FlagType ==
  /\ initialized \in BOOLEAN /\ ind_cb \in BOOLEAN /\ default_async_cb \in BOOLEAN
  /\ ctxFreed \in BOOLEAN /\ crossed \in BOOLEAN /\ overlapped \in BOOLEAN
  /\ indRace \in BOOLEAN /\ indLate \in BOOLEAN
CounterType ==
  /\ handle \in Nat /\ s_unique_handle \in Nat /\ id_range \in IdRanges
  /\ s_unique_msg_id \in Ids /\ issued \in Nat
InitType ==
  /\ ipc \in {"idle", "cleared", "connecting", "connected", "marked"}
  /\ attempts \in 0..ConnectAttempts /\ conn \in 0..MaxInits
CallType ==
  /\ pc \in [Calls -> {"idle", "id", "acquire", "fill", "set_data", "set_uid", "send",
                       "lock", "waiting", "exit", "done"}]
  /\ ret \in [Calls -> {"none", "ok", "fail"}]
  /\ uid \in [Calls -> Ids]
SlotType ==
  /\ pending_ops \in [Slots -> PendingOp]
  /\ slot \in [Calls -> {0} \cup Slots]
FrameType == frame \in [SyncCalls -> {"none", "alive", "dead"}]
SyncType ==
  /\ condition \in [SyncCalls -> {0, 1}]
  /\ signalled \in [SyncCalls -> BOOLEAN] /\ locked \in [SyncCalls -> BOOLEAN]
  /\ gaveUp \subseteq SyncCalls /\ deadWrite \subseteq SyncCalls
  /\ deadSignal \subseteq SyncCalls
NetType ==
  /\ asked \in [Conns -> [Ids -> Nat]] /\ answered \in [Conns -> [Ids -> Nat]]
  /\ taken \in [Conns -> [Ids -> Nat]]
IndType == raised \in 0..MaxInds /\ inds \in [Conns -> 0..MaxInds]
RcvType == rcv \in [Conns -> Receivers]
AnswerType ==
  /\ callbacks \in [Calls -> Nat] /\ answers \in [Calls -> SUBSET Ids]
  /\ wiped \subseteq Calls

TypeParts ==
  /\ FlagType /\ CounterType /\ InitType /\ CallType /\ SlotType /\ FrameType
  /\ SyncType /\ NetType /\ IndType /\ RcvType /\ AnswerType

(* What a receive thread goes on with: the frame of a synchronous call,    *)
(* or a call that was issued in the callback.                              *)
DataFits ==
  \A k \in Conns :
    /\ rcv[k].st \in {"lock", "signal"} => rcv[k].data \in SyncCalls
    /\ rcv[k].st = "user" => rcv[k].data \in Calls

(* Init has not used up its attempts or its connections while it runs.    *)
InitBound ==
  /\ ipc \in {"cleared", "connecting"} => conn < MaxInits
  /\ ipc = "connecting" => attempts < ConnectAttempts

IdBound == s_unique_msg_id < id_range

IndBound == \A k \in Conns : inds[k] <= raised

(* A thread that fills a slot, or has filled it, has one. *)
HasSlot == \A c \in Calls : pc[c] \in {"fill", "set_data", "set_uid", "send"} => slot[c] # 0

TypeInv ==
  TypeParts /\ DataFits /\ InitBound /\ IdBound /\ IndBound /\ HasSlot

(* A receive thread has found ind_cb set, or was overtaken by its clearing.*)
IndInv ==
  /\ TestedIndCb /\ ~ind_cb => indRace
  /\ ipc = "cleared" => ~ind_cb
  /\ QuietReleaseIsSafe

-----------------------------------------------------------------------------
(* Receive thread k has looked up call c and not yet finished with it. *)
Holds(k, c) == rcv[k].st \in {"call", "lock"} /\ rcv[k].data = c

(* The request of call c has been sent.  A synchronous call that did not  *)
(* stay for the answer has given up.                                       *)
Awaits(c) ==
  IF c \in SyncCalls
  THEN pc[c] \in {"lock", "waiting"} \/ (pc[c] \in {"exit", "done"} /\ c \in gaveUp)
  ELSE pc[c] = "done" /\ ret[c] = "ok"

(* A request with id u on connection k still has to be answered. *)
Outstanding(k, u) == taken[k][u] < asked[k][u]

(* A response is taken after it was sent, and sent after it was asked for. *)
AskedFirst ==
  \A k \in Conns, u \in Ids : taken[k][u] <= answered[k][u] /\ answered[k][u] <= asked[k][u]

(* What a call has returned and what became of its frame follow from where *)
(* it is, however the library is used.                                     *)
ReturnInv ==
  /\ \A c \in Calls : pc[c] \notin {"exit", "done"} => ret[c] = "none"
  /\ \A c \in SyncCalls :
       /\ ret[c] = "ok" => condition[c] = 1
       /\ pc[c] \notin {"idle", "done"} => frame[c] = "alive"
       /\ frame[c] = "dead" => pc[c] = "done"

(* A call and its slot. *)
CallInv ==
  \A c \in Calls :
    /\ pc[c] \in {"idle", "id", "acquire"} =>
         slot[c] = 0 /\ callbacks[c] = 0 /\ \A k \in Conns : ~Holds(k, c)
    /\ slot[c] # 0 => callbacks[c] = 0 /\ \A k \in Conns : ~Holds(k, c)
    /\ pc[c] = "set_uid" => pending_ops[slot[c]].client_data = c
    /\ callbacks[c] = 0 => answers[c] = {}
    /\ callbacks[c] <= 1 /\ answers[c] \subseteq {uid[c]}

SlotInv ==
  /\ \A i \in Slots : pending_ops[i].busy <=> \E c \in Calls : slot[c] = i
  /\ \A c, d \in Calls : slot[c] # 0 /\ slot[c] = slot[d] => c = d
  /\ \A c \in Calls : slot[c] # 0 /\ pc[c] \notin {"fill", "set_data", "set_uid"} =>
       /\ pending_ops[slot[c]].unique_id = uid[c]
       /\ pending_ops[slot[c]].client_data = c

(* One thread at a time has a call, with the response to its request. *)
HoldInv ==
  \A k \in Conns, c \in Calls : Holds(k, c) =>
    /\ Awaits(c) /\ uid[c] = rcv[k].uid
    /\ callbacks[c] = IF rcv[k].st = "call" THEN 0 ELSE 1
    /\ c \in SyncCalls => condition[c] = 0
    /\ \A j \in Conns : Holds(j, c) => j = k

SyncInv ==
  /\ \A c \in SyncCalls : condition[c] = 1 => callbacks[c] = 1
  /\ deadWrite \subseteq gaveUp

(* As long as the ids have not come round they tell the requests apart:   *)
(* none is 0, the id of a slot never used, and none is used twice.         *)
FreshIds ==
  /\ s_unique_msg_id = issued
  /\ \A c \in Calls :
       /\ uid[c] <= issued
       /\ pc[c] \in {"acquire", "fill", "set_data", "set_uid", "send"} => uid[c] # 0
  /\ \A c, d \in Calls : uid[c] = uid[d] /\ uid[c] # 0 => c = d
  /\ \A i \in Slots : pending_ops[i].unique_id <= issued
  /\ \A i, j \in Slots : pending_ops[i].unique_id = pending_ops[j].unique_id
                         /\ pending_ops[i].unique_id # 0 => i = j
  /\ \A c \in Calls, i \in Slots :
       pc[c] \in {"acquire", "fill", "set_data", "set_uid"} => pending_ops[i].unique_id # uid[c]

FreshRequests ==
  /\ \A k \in Conns, u \in Ids : asked[k][u] > 0 => u # 0 /\ u <= issued /\ asked[k][u] = 1
  /\ \A k, j \in Conns, u \in Ids : asked[k][u] > 0 /\ asked[j][u] > 0 => k = j
  /\ \A c \in Calls, k \in Conns :
       pc[c] \in {"acquire", "fill", "set_data", "set_uid", "send"} => asked[k][uid[c]] = 0

(* The slot with the id of an outstanding request is still that of its call. *)
FreshMatch ==
  \A k \in Conns, u \in Ids, i \in Slots :
    Outstanding(k, u) /\ pending_ops[i].unique_id = u
      => \E c \in Calls : slot[c] = i /\ uid[c] = u /\ Awaits(c)

(* As long as operations do not overlap there is one request at a time, in *)
(* the first slot; the others have never been used.                        *)
OneAtATime ==
  /\ \A i \in Slots \ {1} : pending_ops[i].unique_id = 0 /\ ~pending_ops[i].busy
  /\ \A k \in Conns, u \in Ids : Outstanding(k, u) =>
       /\ asked[k][u] = taken[k][u] + 1
       /\ \E c \in Calls : slot[c] = 1 /\ uid[c] = u /\ Awaits(c)
       /\ \A j \in Conns, v \in Ids : Outstanding(j, v) => j = k /\ v = u

Core ==
  /\ CallInv /\ SlotInv /\ HoldInv /\ SyncInv
  /\ issued < id_range => FreshIds /\ FreshRequests /\ FreshMatch
  /\ ~overlapped => OneAtATime

CoreInv == TypeInv /\ AskedFirst /\ ReturnInv /\ (ProperUse => Core)

-----------------------------------------------------------------------------
(* The numbers and the sets of calls among the constants. *)
LEMMA Constants ==
  /\ SyncCalls \subseteq Calls /\ DefaultCalls \subseteq Calls /\ NestedCalls \subseteq Calls
  /\ NoCall \notin Calls
  /\ MaxInds \in Nat /\ MaxPendingOps \in Nat \ {0}
  /\ ConnectAttempts \in Nat \ {0} /\ MaxInits \in Nat \ {0}
  BY ConstantsAssumption, Zenon

(* The parts make up TypeOK. *)
LEMMA TypeOKParts == TypeParts <=> TypeOK
  BY Zenon DEF TypeOK, TypeParts, FlagType, CounterType, InitType, CallType, SlotType,
     FrameType, SyncType, NetType, IndType, RcvType, AnswerType, Receivers

(* The remainder is below the divisor, and below it the number itself. *)
LEMMA Remainder ==
  ASSUME NEW r \in Nat \ {0}, NEW n \in Nat
  PROVE  n % r \in 0..(r - 1) /\ (n < r => n % r = n)
  OBVIOUS

(* Ids are natural numbers, and those below id_range are Ids. *)
LEMMA IdsAreNat ==
  ASSUME NEW r \in IdRanges
  PROVE  Ids \subseteq Nat /\ 0 \in Ids /\ 0..(r - 1) \subseteq Ids /\ r \in Nat \ {0}
  BY ConstantsAssumption DEF Ids

(* The initial state is well typed. *)
LEMMA TypeInit == Init => TypeInv
<1> SUFFICES ASSUME Init PROVE TypeInv
  OBVIOUS
<1>1. 0 \in Ids /\ id_range \in Nat \ {0}
  BY ConstantsAssumption, IdsAreNat DEF Init
<1>2. FreeSlot \in PendingOp
  BY <1>1 DEF FreeSlot, PendingOp
<1>3. FlagType /\ CounterType /\ InitType /\ IndType
  <2>1. FlagType
    BY DEF Init, FlagType
  <2>2. CounterType
    BY <1>1 DEF Init, CounterType
  <2>3. InitType /\ IndType
    BY Constants DEF Init, InitType, IndType, Conns
  <2> QED
    BY <2>1, <2>2, <2>3
<1>4. CallType /\ SlotType /\ FrameType /\ SyncType /\ AnswerType
  BY <1>1, <1>2 DEF Init, CallType, SlotType, FrameType, SyncType, AnswerType
<1>5. NetType /\ RcvType
  BY <1>1 DEF Init, NetType, RcvType, Service!Init, Receivers, NotStarted, Receiver
<1>6. DataFits
  BY DEF Init, DataFits, NotStarted, Receiver
<1>7. InitBound /\ IdBound /\ IndBound /\ HasSlot
  BY <1>1 DEF Init, InitBound, IdBound, IndBound, HasSlot
<1> QED
  BY <1>3, <1>4, <1>5, <1>6, <1>7 DEF TypeInv, TypeParts

(* The types are preserved by every step of the specification. *)
LEMMA TypeStep == TypeInv /\ [Next]_vars => TypeInv'
<1> SUFFICES ASSUME TypeInv, [Next]_vars PROVE TypeInv'
  OBVIOUS
<1> USE DEF context, callbackVars, counters, initVars, callVars, syncVars, service, indVars,
            net, misuse, history
<1>a. /\ FlagType /\ CounterType /\ InitType /\ CallType /\ SlotType /\ FrameType
      /\ SyncType /\ NetType /\ IndType /\ RcvType /\ AnswerType /\ DataFits
      /\ InitBound /\ IdBound /\ IndBound /\ HasSlot
  BY DEF TypeInv, TypeParts
<1>b. SyncCalls \subseteq Calls /\ NestedCalls \subseteq Calls
  BY Constants
<1>c. Ids \subseteq Nat /\ 0 \in Ids /\ 0..(id_range - 1) \subseteq Ids /\ id_range \in Nat \ {0}
  BY <1>a, IdsAreNat DEF CounterType
<1>d. FreeSlot \in PendingOp /\ Receiving \in Receivers
  BY <1>c DEF FreeSlot, PendingOp, Receiving, Receiver, Receivers
<1>e. ASSUME NEW k \in Conns, NEW r \in Receivers
      PROVE  [rcv EXCEPT ![k] = r] \in [Conns -> Receivers]
  BY <1>a DEF RcvType
<1>f. ASSUME NEW k \in Conns, NEW st \in {"lock", "signal", "stuck", "crashed", "failed"}
      PROVE  [rcv EXCEPT ![k].st = st] \in [Conns -> Receivers]
  BY <1>a DEF RcvType, Receivers
<1>g. ASSUME NEW c \in Calls
      PROVE  Receiver("user", 0, "null", c) \in Receivers
  BY <1>c DEF Receiver, Receivers
<1>1. ASSUME uril_client_init
      PROVE  TypeInv'
  <2>1. /\ CallType' /\ FrameType' /\ SyncType' /\ NetType' /\ IndType' /\ RcvType'
        /\ IndBound' /\ DataFits'
    BY <1>1, <1>a
    DEF uril_client_init, CallType, FrameType, SyncType, NetType, IndType, RcvType,
        IndBound, DataFits
  <2>2. FlagType'
    BY <1>1, <1>a DEF uril_client_init, FlagType
  <2>3. CounterType'
    BY <1>1, <1>a DEF uril_client_init, CounterType
  <2>4. InitType'
    BY <1>1, <1>a DEF uril_client_init, InitType
  <2>5. SlotType'
    BY <1>1, <1>a, <1>d DEF uril_client_init, SlotType
  <2>6. AnswerType'
    BY <1>1, <1>a DEF uril_client_init, AnswerType
  <2>7. InitBound'
    BY <1>1 DEF uril_client_init, InitBound
  <2>8. IdBound'
    BY <1>1, <1>a DEF uril_client_init, IdBound
  <2>9. HasSlot'
    BY <1>1, <1>a DEF uril_client_init, HasSlot, Issuing
  <2> QED
    BY <2>1, <2>2, <2>3, <2>4, <2>5, <2>6, <2>7, <2>8, <2>9 DEF TypeInv, TypeParts
<1>2. ASSUME NEW ind \in IndCbs, NEW default \in DefaultCbs, set_callbacks(ind, default)
      PROVE  TypeInv'
  <2>1. /\ CounterType' /\ CallType' /\ SlotType' /\ FrameType' /\ SyncType' /\ NetType'
        /\ IndType' /\ RcvType' /\ AnswerType' /\ DataFits' /\ IdBound' /\ IndBound'
        /\ HasSlot'
    BY <1>2, <1>a
    DEF set_callbacks, CounterType, CallType, SlotType, FrameType, SyncType, NetType,
        IndType, RcvType, AnswerType, DataFits, IdBound, IndBound, HasSlot
  <2>2. FlagType'
    <3>1. ind \in BOOLEAN /\ default \in BOOLEAN
      BY ConstantsAssumption
    <3> QED
      BY <1>2, <1>a, <3>1 DEF set_callbacks, FlagType
  <2>3. InitType'
    BY <1>2, <1>a, Constants DEF set_callbacks, InitType
  <2>4. InitBound'
    BY <1>2, <1>a, Constants DEF set_callbacks, InitBound
  <2> QED
    BY <2>1, <2>2, <2>3, <2>4 DEF TypeInv, TypeParts
<1>3. ASSUME NEW freed \in BOOLEAN, connect_fails(freed)
      PROVE  TypeInv'
  <2>1. /\ CounterType' /\ CallType' /\ SlotType' /\ FrameType' /\ SyncType' /\ NetType'
        /\ IndType' /\ RcvType' /\ AnswerType' /\ DataFits' /\ IdBound' /\ IndBound'
        /\ HasSlot'
    BY <1>3, <1>a
    DEF connect_fails, CounterType, CallType, SlotType, FrameType, SyncType, NetType,
        IndType, RcvType, AnswerType, DataFits, IdBound, IndBound, HasSlot
  <2>2. FlagType'
    BY <1>3, <1>a DEF connect_fails, FlagType
  <2>3. InitType'
    BY <1>3, <1>a, Constants DEF connect_fails, InitType, InitBound
  <2>4. InitBound'
    BY <1>3, <1>a, Constants DEF connect_fails, InitBound, InitType
  <2> QED
    BY <2>1, <2>2, <2>3, <2>4 DEF TypeInv, TypeParts
<1>4. ASSUME connect_succeeds
      PROVE  TypeInv'
  <2>1. /\ CounterType' /\ CallType' /\ SlotType' /\ FrameType' /\ SyncType' /\ NetType'
        /\ IndType' /\ AnswerType' /\ IdBound' /\ IndBound' /\ HasSlot'
    BY <1>4, <1>a
    DEF connect_succeeds, CounterType, CallType, SlotType, FrameType, SyncType, NetType,
        IndType, AnswerType, IdBound, IndBound, HasSlot
  <2>2. FlagType'
    BY <1>4, <1>a DEF connect_succeeds, FlagType
  <2>3. InitType'
    BY <1>4, <1>a, Constants DEF connect_succeeds, InitType, InitBound
  <2>4. RcvType'
    BY <1>4, <1>a, <1>d DEF connect_succeeds, RcvType
  <2>5. DataFits'
    BY <1>4, <1>a DEF connect_succeeds, Receiving, Receiver, DataFits
  <2>6. InitBound'
    BY <1>4 DEF connect_succeeds, InitBound
  <2> QED
    BY <2>1, <2>2, <2>3, <2>4, <2>5, <2>6 DEF TypeInv, TypeParts
<1>h. ASSUME set_initialized
      PROVE  TypeInv'
  <2>1. /\ CounterType' /\ CallType' /\ SlotType' /\ FrameType' /\ SyncType' /\ NetType'
        /\ IndType' /\ RcvType' /\ AnswerType' /\ DataFits' /\ IdBound' /\ IndBound'
        /\ HasSlot'
    BY <1>h, <1>a
    DEF set_initialized, CounterType, CallType, SlotType, FrameType, SyncType, NetType,
        IndType, RcvType, AnswerType, DataFits, IdBound, IndBound, HasSlot
  <2>2. FlagType'
    BY <1>h, <1>a DEF set_initialized, FlagType
  <2>3. InitType' /\ InitBound'
    BY <1>h, <1>a DEF set_initialized, InitType, InitBound
  <2> QED
    BY <2>1, <2>2, <2>3 DEF TypeInv, TypeParts
<1>5. ASSUME init_returns
      PROVE  TypeInv'
  <2>1. /\ CallType' /\ SlotType' /\ FrameType' /\ SyncType' /\ NetType' /\ IndType'
        /\ RcvType' /\ AnswerType' /\ DataFits' /\ IndBound' /\ HasSlot'
    BY <1>5, <1>a
    DEF init_returns, CallType, SlotType, FrameType, SyncType, NetType, IndType, RcvType,
        AnswerType, DataFits, IndBound, HasSlot
  <2>2. FlagType'
    BY <1>5, <1>a DEF init_returns, FlagType
  <2>3. CounterType'
    BY <1>5, <1>a DEF init_returns, CounterType
  <2>4. InitType'
    BY <1>5, <1>a DEF init_returns, InitType
  <2>5. InitBound'
    BY <1>5 DEF init_returns, InitBound
  <2>6. IdBound'
    BY <1>5, <1>a DEF init_returns, IdBound
  <2> QED
    BY <2>1, <2>2, <2>3, <2>4, <2>5, <2>6 DEF TypeInv, TypeParts
<1>6. ASSUME uril_client_release
      PROVE  TypeInv'
  <2>1. /\ CounterType' /\ InitType' /\ CallType' /\ SlotType' /\ FrameType' /\ SyncType'
        /\ NetType' /\ IndType' /\ RcvType' /\ AnswerType' /\ DataFits' /\ InitBound'
        /\ IdBound' /\ IndBound' /\ HasSlot'
    BY <1>6, <1>a
    DEF uril_client_release, CounterType, InitType, CallType, SlotType, FrameType,
        SyncType, NetType, IndType, RcvType, AnswerType, DataFits, InitBound, IdBound,
        IndBound, HasSlot
  <2>2. FlagType'
    BY <1>6, <1>a DEF uril_client_release, FlagType
  <2> QED
    BY <2>1, <2>2 DEF TypeInv, TypeParts
<1>7. ASSUME NEW c \in Calls, NEW hndl \in 0..s_unique_handle,
             NEW req \in BOOLEAN, execute_command(c, hndl, req)
      PROVE  TypeInv'
  <2>1. /\ FlagType' /\ CounterType' /\ InitType' /\ SlotType' /\ SyncType' /\ NetType'
        /\ IndType' /\ RcvType' /\ AnswerType' /\ DataFits' /\ InitBound' /\ IdBound'
        /\ IndBound'
    BY <1>7, <1>a
    DEF execute_command, FlagType, CounterType, InitType, SlotType, SyncType, NetType,
        IndType, RcvType, AnswerType, DataFits, InitBound, IdBound, IndBound
  <2>2. CallType'
    BY <1>7, <1>a DEF execute_command, Enters, Goto, Fails, CallType
  <2>3. FrameType'
    BY <1>7, <1>a DEF execute_command, Enters, FrameType
  <2>4. HasSlot'
    BY <1>7, <1>a DEF execute_command, Enters, Goto, Fails, HasSlot, CallType
  <2> QED
    BY <2>1, <2>2, <2>3, <2>4 DEF TypeInv, TypeParts
<1>8. ASSUME NEW c \in Calls, gen_unique_id(c)
      PROVE  TypeInv'
  <2>1. /\ FlagType' /\ InitType' /\ SlotType' /\ FrameType' /\ SyncType' /\ NetType'
        /\ IndType' /\ RcvType' /\ AnswerType' /\ DataFits' /\ InitBound' /\ IndBound'
    BY <1>8, <1>a
    DEF gen_unique_id, FlagType, InitType, SlotType, FrameType, SyncType, NetType,
        IndType, RcvType, AnswerType, DataFits, InitBound, IndBound
  <2>2. CounterType'
    BY <1>8, <1>a, <1>c DEF gen_unique_id, CounterType
  <2>3. CallType'
    BY <1>8, <1>a, <2>2 DEF gen_unique_id, Goto, CallType, CounterType
  <2>4. IdBound'
    BY <1>8, <1>a, <1>c DEF gen_unique_id, IdBound, CounterType
  <2>5. HasSlot'
    BY <1>8, <1>a DEF gen_unique_id, Goto, HasSlot
  <2> QED
    BY <2>1, <2>2, <2>3, <2>4, <2>5 DEF TypeInv, TypeParts
<1>9. ASSUME NEW c \in Calls, acquire_free_op_slot(c)
      PROVE  TypeInv'
  <2>1. /\ CounterType' /\ InitType' /\ FrameType' /\ SyncType' /\ NetType' /\ IndType'
        /\ RcvType' /\ AnswerType' /\ InitBound' /\ IdBound' /\ IndBound'
    BY <1>9, <1>a
    DEF acquire_free_op_slot, CounterType, InitType, FrameType, SyncType, NetType,
        IndType, RcvType, AnswerType, InitBound, IdBound, IndBound
  <2>2. FlagType'
    BY <1>9, <1>a DEF acquire_free_op_slot, FlagType
  <2>3. CallType'
    BY <1>9, <1>a DEF acquire_free_op_slot, Goto, Fails, CallType
  <2>4. SlotType'
    <3>1. ASSUME NEW i \in Slots
          PROVE  [pending_ops EXCEPT ![i].busy = TRUE] \in [Slots -> PendingOp]
      BY <1>a DEF SlotType, PendingOp
    <3> QED
      BY <1>9, <1>a, <3>1 DEF acquire_free_op_slot, SlotType
  <2>5. DataFits'
    BY <1>9, <1>a DEF acquire_free_op_slot, DataFits
  <2>6. HasSlot'
    BY <1>9, <1>a
    DEF acquire_free_op_slot, Goto, Fails, HasSlot, CallType, SlotType, Slots
  <2> QED
    BY <2>1, <2>2, <2>3, <2>4, <2>5, <2>6 DEF TypeInv, TypeParts
<1>10. ASSUME NEW c \in Calls, fill_op(c)
      PROVE  TypeInv'
  <2>1. /\ FlagType' /\ CounterType' /\ InitType' /\ FrameType' /\ SyncType' /\ NetType'
        /\ IndType' /\ RcvType' /\ AnswerType' /\ DataFits' /\ InitBound' /\ IdBound'
        /\ IndBound'
    BY <1>10, <1>a
    DEF fill_op, FlagType, CounterType, InitType, FrameType, SyncType, NetType, IndType,
        RcvType, AnswerType, DataFits, InitBound, IdBound, IndBound
  <2>2. CallType'
    BY <1>10, <1>a DEF fill_op, Goto, CallType
  <2>3. SlotType'
    BY <1>10, <1>a DEF fill_op, SlotType, PendingOp, HasSlot, CallbackOf
  <2>4. HasSlot'
    BY <1>10, <1>a DEF fill_op, Goto, HasSlot
  <2> QED
    BY <2>1, <2>2, <2>3, <2>4 DEF TypeInv, TypeParts
<1>i. ASSUME NEW c \in Calls, set_op_data(c)
      PROVE  TypeInv'
  <2>1. /\ FlagType' /\ CounterType' /\ InitType' /\ FrameType' /\ SyncType' /\ NetType'
        /\ IndType' /\ RcvType' /\ AnswerType' /\ DataFits' /\ InitBound' /\ IdBound'
        /\ IndBound'
    BY <1>i, <1>a
    DEF set_op_data, FlagType, CounterType, InitType, FrameType, SyncType, NetType, IndType,
        RcvType, AnswerType, DataFits, InitBound, IdBound, IndBound
  <2>2. CallType'
    BY <1>i, <1>a DEF set_op_data, Goto, CallType
  <2>3. SlotType'
    BY <1>i, <1>a DEF set_op_data, SlotType, PendingOp, HasSlot
  <2>4. HasSlot'
    BY <1>i, <1>a DEF set_op_data, Goto, HasSlot
  <2> QED
    BY <2>1, <2>2, <2>3, <2>4 DEF TypeInv, TypeParts
<1>11. ASSUME NEW c \in Calls, set_op_uid(c)
      PROVE  TypeInv'
  <2>1. /\ FlagType' /\ CounterType' /\ InitType' /\ FrameType' /\ SyncType' /\ NetType'
        /\ IndType' /\ RcvType' /\ AnswerType' /\ InitBound' /\ IdBound' /\ IndBound'
    BY <1>11, <1>a
    DEF set_op_uid, FlagType, CounterType, InitType, FrameType, SyncType, NetType,
        IndType, RcvType, AnswerType, InitBound, IdBound, IndBound
  <2>2. CallType'
    BY <1>11, <1>a DEF set_op_uid, Goto, CallType
  <2>3. SlotType'
    BY <1>11, <1>a DEF set_op_uid, SlotType, PendingOp, CallType
  <2>4. DataFits'
    BY <1>11, <1>a DEF set_op_uid, DataFits
  <2>5. HasSlot'
    BY <1>11, <1>a DEF set_op_uid, Goto, HasSlot
  <2> QED
    BY <2>1, <2>2, <2>3, <2>4, <2>5 DEF TypeInv, TypeParts
<1>12. ASSUME NEW c \in Calls, NEW ok \in BOOLEAN, send_request(c, ok)
      PROVE  TypeInv'
  <2>1. /\ FlagType' /\ CounterType' /\ InitType' /\ SlotType' /\ FrameType' /\ SyncType'
        /\ IndType' /\ RcvType' /\ AnswerType' /\ DataFits' /\ InitBound' /\ IdBound'
        /\ IndBound'
    BY <1>12, <1>a
    DEF send_request, FlagType, CounterType, InitType, SlotType, FrameType, SyncType,
        IndType, RcvType, AnswerType, DataFits, InitBound, IdBound, IndBound
  <2>2. CallType'
    BY <1>12, <1>a DEF send_request, Sent, Fails, Goto, CallType
  <2>3. NetType'
    <3>1. CASE conn \in Conns
      <4>1. asked[conn] \in [Ids -> Nat] /\ uid[c] \in Ids
        BY <1>a, <3>1 DEF NetType, CallType
      <4>2. [asked[conn] EXCEPT ![uid[c]] = @ + 1] \in [Ids -> Nat]
        BY <4>1
      <4>3. [asked EXCEPT ![conn][uid[c]] = @ + 1] \in [Conns -> [Ids -> Nat]]
        BY <1>a, <4>2 DEF NetType
      <4> QED
        BY <1>12, <1>a, <4>3 DEF send_request, Service!Ask, NetType
    <3>2. CASE conn \notin Conns
      <4>1. [asked EXCEPT ![conn][uid[c]] = @ + 1] \in [Conns -> [Ids -> Nat]]
        BY <1>a, <3>2 DEF NetType
      <4> QED
        BY <1>12, <1>a, <4>1 DEF send_request, Service!Ask, NetType
    <3> QED
      BY <3>1, <3>2
  <2>4. HasSlot'
    BY <1>12, <1>a DEF send_request, Sent, Fails, Goto, HasSlot, CallType
  <2> QED
    BY <2>1, <2>2, <2>3, <2>4 DEF TypeInv, TypeParts
<1>13. ASSUME NEW c \in SyncCalls, sync_lock_and_test(c)
      PROVE  TypeInv'
  <2>1. /\ FlagType' /\ CounterType' /\ InitType' /\ SlotType' /\ FrameType' /\ SyncType'
        /\ NetType' /\ IndType' /\ RcvType' /\ AnswerType' /\ DataFits' /\ InitBound'
        /\ IdBound' /\ IndBound'
    BY <1>13, <1>a
    DEF sync_lock_and_test, FlagType, CounterType, InitType, SlotType, FrameType,
        SyncType, NetType, IndType, RcvType, AnswerType, DataFits, InitBound, IdBound,
        IndBound
  <2>2. CallType'
    BY <1>13, <1>a DEF sync_lock_and_test, Goto, CallType
  <2>3. HasSlot'
    BY <1>13, <1>a DEF sync_lock_and_test, Goto, HasSlot, CallType
  <2> QED
    BY <2>1, <2>2, <2>3 DEF TypeInv, TypeParts
<1>14. ASSUME NEW c \in SyncCalls, NEW spurious \in BOOLEAN, sync_wakes(c, spurious)
      PROVE  TypeInv'
  <2>1. /\ FlagType' /\ CounterType' /\ InitType' /\ SlotType' /\ FrameType' /\ NetType'
        /\ IndType' /\ RcvType' /\ AnswerType' /\ DataFits' /\ InitBound' /\ IdBound'
        /\ IndBound'
    BY <1>14, <1>a
    DEF sync_wakes, FlagType, CounterType, InitType, SlotType, FrameType, NetType,
        IndType, RcvType, AnswerType, DataFits, InitBound, IdBound, IndBound
  <2>2. CallType'
    BY <1>14, <1>a DEF sync_wakes, CallType
  <2>3. SyncType'
    BY <1>14, <1>a DEF sync_wakes, SyncType
  <2>4. HasSlot'
    BY <1>14, <1>a DEF sync_wakes, HasSlot
  <2> QED
    BY <2>1, <2>2, <2>3, <2>4 DEF TypeInv, TypeParts
<1>15. ASSUME NEW c \in SyncCalls, sync_times_out(c)
      PROVE  TypeInv'
  <2>1. /\ FlagType' /\ CounterType' /\ InitType' /\ SlotType' /\ FrameType' /\ NetType'
        /\ IndType' /\ RcvType' /\ AnswerType' /\ DataFits' /\ InitBound' /\ IdBound'
        /\ IndBound'
    BY <1>15, <1>a
    DEF sync_times_out, FlagType, CounterType, InitType, SlotType, FrameType, NetType,
        IndType, RcvType, AnswerType, DataFits, InitBound, IdBound, IndBound
  <2>2. CallType'
    BY <1>15, <1>a DEF sync_times_out, CallType
  <2>3. SyncType'
    BY <1>15, <1>a DEF sync_times_out, SyncType
  <2>4. HasSlot'
    BY <1>15, <1>a DEF sync_times_out, HasSlot
  <2> QED
    BY <2>1, <2>2, <2>3, <2>4 DEF TypeInv, TypeParts
<1>16. ASSUME NEW c \in SyncCalls, sync_exit(c)
      PROVE  TypeInv'
  <2>1. /\ FlagType' /\ CounterType' /\ InitType' /\ SlotType' /\ SyncType' /\ NetType'
        /\ IndType' /\ RcvType' /\ AnswerType' /\ DataFits' /\ InitBound' /\ IdBound'
        /\ IndBound'
    BY <1>16, <1>a
    DEF sync_exit, FlagType, CounterType, InitType, SlotType, SyncType, NetType, IndType,
        RcvType, AnswerType, DataFits, InitBound, IdBound, IndBound
  <2>2. CallType'
    BY <1>16, <1>a DEF sync_exit, CallType
  <2>3. FrameType'
    BY <1>16, <1>a DEF sync_exit, FrameType
  <2>4. HasSlot'
    BY <1>16, <1>a DEF sync_exit, HasSlot
  <2> QED
    BY <2>1, <2>2, <2>3, <2>4 DEF TypeInv, TypeParts
<1>17. ASSUME NEW k \in Conns, NEW u \in Ids, service_answers(k, u)
      PROVE  TypeInv'
  <2>1. /\ FlagType' /\ CounterType' /\ InitType' /\ CallType' /\ SlotType' /\ FrameType'
        /\ SyncType' /\ IndType' /\ RcvType' /\ AnswerType' /\ DataFits' /\ InitBound'
        /\ IdBound' /\ IndBound' /\ HasSlot'
    BY <1>17, <1>a
    DEF service_answers, FlagType, CounterType, InitType, CallType, SlotType, FrameType,
        SyncType, IndType, RcvType, AnswerType, DataFits, InitBound, IdBound, IndBound,
        HasSlot
  <2>2. NetType'
    BY <1>17, <1>a DEF service_answers, Service!Answer, NetType
  <2> QED
    BY <2>1, <2>2 DEF TypeInv, TypeParts
<1>18. ASSUME NEW k \in Conns, service_indicates(k)
      PROVE  TypeInv'
  <2>1. /\ FlagType' /\ CounterType' /\ InitType' /\ CallType' /\ SlotType' /\ FrameType'
        /\ SyncType' /\ NetType' /\ RcvType' /\ AnswerType' /\ DataFits' /\ InitBound'
        /\ IdBound' /\ HasSlot'
    BY <1>18, <1>a
    DEF service_indicates, FlagType, CounterType, InitType, CallType, SlotType,
        FrameType, SyncType, NetType, RcvType, AnswerType, DataFits, InitBound, IdBound,
        HasSlot
  <2>2. IndType'
    BY <1>18, <1>a, Constants DEF service_indicates, IndType, IndBound
  <2>3. IndBound'
    BY <1>18, <1>a DEF service_indicates, IndBound, IndType
  <2> QED
    BY <2>1, <2>2, <2>3 DEF TypeInv, TypeParts
<1>19. ASSUME NEW k \in Conns, service_disconnects(k)
      PROVE  TypeInv'
  <2>1. /\ FlagType' /\ CounterType' /\ InitType' /\ CallType' /\ SlotType' /\ FrameType'
        /\ SyncType' /\ NetType' /\ IndType' /\ AnswerType' /\ InitBound' /\ IdBound'
        /\ IndBound' /\ HasSlot'
    BY <1>19, <1>a
    DEF service_disconnects, Service!Close, FlagType, CounterType, InitType, CallType,
        SlotType, FrameType, SyncType, NetType, IndType, AnswerType, InitBound, IdBound,
        IndBound, HasSlot
  <2>2. RcvType'
    BY <1>19, <1>a, <1>c DEF service_disconnects, Receiver, RcvType, Receivers
  <2>3. DataFits'
    BY <1>19, <1>a DEF service_disconnects, Receiver, DataFits
  <2> QED
    BY <2>1, <2>2, <2>3 DEF TypeInv, TypeParts
<1>20. ASSUME NEW k \in Conns, receive_fails(k)
      PROVE  TypeInv'
  <2>1. /\ FlagType' /\ CounterType' /\ InitType' /\ CallType' /\ SlotType' /\ FrameType'
        /\ SyncType' /\ NetType' /\ IndType' /\ AnswerType' /\ InitBound' /\ IdBound'
        /\ IndBound' /\ HasSlot'
    BY <1>20, <1>a
    DEF receive_fails, FlagType, CounterType, InitType, CallType, SlotType, FrameType,
        SyncType, NetType, IndType, AnswerType, InitBound, IdBound, IndBound, HasSlot
  <2>2. RcvType'
    BY <1>20, <1>a DEF receive_fails, RcvType, Receivers
  <2>3. DataFits'
    BY <1>20, <1>a DEF receive_fails, DataFits
  <2> QED
    BY <2>1, <2>2, <2>3 DEF TypeInv, TypeParts
<1>21. ASSUME NEW k \in Conns, NEW u \in Ids, handle_receive_rsp(k, u)
      PROVE  TypeInv'
  <2>1. /\ FlagType' /\ CounterType' /\ InitType' /\ CallType' /\ FrameType' /\ SyncType'
        /\ IndType' /\ AnswerType' /\ InitBound' /\ IdBound' /\ IndBound'
    BY <1>21, <1>a
    DEF handle_receive_rsp, FlagType, CounterType, InitType, CallType, FrameType,
        SyncType, IndType, AnswerType, InitBound, IdBound, IndBound
  <2>2. SlotType'
    <3>1. ASSUME NEW i \in Slots
          PROVE  [pending_ops EXCEPT ![i].busy = FALSE] \in [Slots -> PendingOp]
      BY <1>a DEF SlotType, PendingOp
    <3> QED
      BY <1>21, <1>a, <3>1 DEF handle_receive_rsp, lookup_pending_op, SlotType
  <2>3. NetType'
    BY <1>21, <1>a DEF handle_receive_rsp, Takes, NetType
  <2>4. RcvType'
    <3>1. ASSUME NEW i \in Slots
          PROVE  Receiver("call", u, pending_ops[i].async_resp_cb,
                          pending_ops[i].client_data) \in Receivers
      BY <1>a DEF SlotType, PendingOp, Receiver, Receivers
    <3> QED
      BY <1>21, <1>a, <1>e, <3>1 DEF handle_receive_rsp, lookup_pending_op, RcvType
  <2>5. DataFits'
    BY <1>21, <1>a
    DEF handle_receive_rsp, Takes, lookup_pending_op, DataFits, RcvType, Receiver
  <2>6. HasSlot'
    BY <1>21, <1>a DEF handle_receive_rsp, HasSlot, Issuing
  <2> QED
    BY <2>1, <2>2, <2>3, <2>4, <2>5, <2>6 DEF TypeInv, TypeParts
<1>22. ASSUME NEW k \in Conns, invoke_callback(k)
      PROVE  TypeInv'
  <2>1. /\ FlagType' /\ CounterType' /\ InitType' /\ SlotType' /\ SyncType' /\ NetType'
        /\ IndType' /\ InitBound' /\ IdBound' /\ IndBound'
    BY <1>22, <1>a
    DEF invoke_callback, FlagType, CounterType, InitType, SlotType, SyncType, NetType,
        IndType, InitBound, IdBound, IndBound
  <2>2. CallType'
    BY <1>22, <1>a DEF invoke_callback, InCallback, Enters, Goto, Fails, CallType
  <2>3. FrameType'
    BY <1>22, <1>a DEF invoke_callback, InCallback, Enters, FrameType
  <2>4. RcvType'
    BY <1>22, <1>b, <1>d, <1>e, <1>g DEF invoke_callback, InCallback, RcvType
  <2>5. AnswerType'
    <3>1. rcv[k].uid \in Ids /\ rcv[k].data \in Calls \cup {NoCall}
      BY <1>a DEF RcvType, Receivers
    <3> QED
      BY <1>22, <1>a, <3>1 DEF invoke_callback, Ran, AnswerType
  <2>6. DataFits'
    BY <1>22, <1>a, <1>b
    DEF invoke_callback, InCallback, Receiving, Receiver, DataFits, RcvType
  <2>7. HasSlot'
    BY <1>22, <1>a DEF invoke_callback, InCallback, Enters, Goto, Fails, HasSlot, CallType
  <2> QED
    BY <2>1, <2>2, <2>3, <2>4, <2>5, <2>6, <2>7 DEF TypeInv, TypeParts
<1>23. ASSUME NEW k \in Conns, callback_returns(k)
      PROVE  TypeInv'
  <2>1. /\ FlagType' /\ CounterType' /\ InitType' /\ CallType' /\ SlotType' /\ FrameType'
        /\ SyncType' /\ NetType' /\ IndType' /\ AnswerType' /\ InitBound' /\ IdBound'
        /\ IndBound' /\ HasSlot'
    BY <1>23, <1>a
    DEF callback_returns, FlagType, CounterType, InitType, CallType, SlotType, FrameType,
        SyncType, NetType, IndType, AnswerType, InitBound, IdBound, IndBound, HasSlot
  <2>2. RcvType'
    BY <1>23, <1>a, <1>d DEF callback_returns, RcvType
  <2>3. DataFits'
    BY <1>23, <1>a DEF callback_returns, Receiving, Receiver, DataFits
  <2> QED
    BY <2>1, <2>2, <2>3 DEF TypeInv, TypeParts
<1>24. ASSUME NEW k \in Conns, handle_receive_ind(k)
      PROVE  TypeInv'
  <2>1. /\ FlagType' /\ CounterType' /\ InitType' /\ CallType' /\ SlotType' /\ FrameType'
        /\ SyncType' /\ NetType' /\ AnswerType' /\ InitBound' /\ IdBound' /\ HasSlot'
    BY <1>24, <1>a
    DEF handle_receive_ind, FlagType, CounterType, InitType, CallType, SlotType,
        FrameType, SyncType, NetType, AnswerType, InitBound, IdBound, HasSlot
  <2>2. IndType'
    BY <1>24, <1>a, Constants DEF handle_receive_ind, IndType
  <2>3. RcvType'
    BY <1>24, <1>a DEF handle_receive_ind, RcvType, Receivers
  <2>4. DataFits'
    BY <1>24, <1>a DEF handle_receive_ind, DataFits
  <2>5. IndBound'
    BY <1>24, <1>a DEF handle_receive_ind, IndBound, IndType
  <2> QED
    BY <2>1, <2>2, <2>3, <2>4, <2>5 DEF TypeInv, TypeParts
<1>25. ASSUME NEW k \in Conns, invoke_ind_cb(k)
      PROVE  TypeInv'
  <2>1. /\ CounterType' /\ InitType' /\ SlotType' /\ SyncType' /\ NetType' /\ IndType'
        /\ AnswerType' /\ InitBound' /\ IdBound' /\ IndBound'
    BY <1>25, <1>a
    DEF invoke_ind_cb, CounterType, InitType, SlotType, SyncType, NetType, IndType,
        AnswerType, InitBound, IdBound, IndBound
  <2>2. FlagType'
    BY <1>25, <1>a DEF invoke_ind_cb, FlagType
  <2>3. CallType'
    BY <1>25, <1>a DEF invoke_ind_cb, InCallback, Enters, Goto, Fails, CallType
  <2>4. FrameType'
    BY <1>25, <1>a DEF invoke_ind_cb, InCallback, Enters, FrameType
  <2>5. RcvType'
    <3>1. [rcv EXCEPT ![k].st = "crashed"] \in [Conns -> Receivers]
      BY <1>f
    <3> QED
      BY <1>25, <1>b, <1>d, <1>e, <1>g, <3>1 DEF invoke_ind_cb, InCallback, RcvType
  <2>6. DataFits'
    BY <1>25, <1>a, <1>b
    DEF invoke_ind_cb, InCallback, Receiving, Receiver, DataFits, RcvType, Receivers
  <2>7. HasSlot'
    BY <1>25, <1>a DEF invoke_ind_cb, InCallback, Enters, Goto, Fails, HasSlot, CallType
  <2> QED
    BY <2>1, <2>2, <2>3, <2>4, <2>5, <2>6, <2>7 DEF TypeInv, TypeParts
<1>26. ASSUME NEW k \in Conns, async_cb_copy(k)
      PROVE  TypeInv'
  <2>1. /\ FlagType' /\ CounterType' /\ InitType' /\ CallType' /\ SlotType' /\ FrameType'
        /\ NetType' /\ IndType' /\ InitBound' /\ IdBound' /\ IndBound' /\ HasSlot'
    BY <1>26, <1>a
    DEF async_cb_copy, FlagType, CounterType, InitType, CallType, SlotType, FrameType,
        NetType, IndType, InitBound, IdBound, IndBound, HasSlot
  <2>2. SyncType'
    BY <1>26, <1>a DEF async_cb_copy, SyncType
  <2>3. RcvType'
    BY <1>26, <1>a DEF async_cb_copy, RcvType, Receivers
  <2>4. AnswerType'
    BY <1>26, <1>a, <1>b DEF async_cb_copy, Ran, AnswerType, RcvType, Receivers
  <2>5. DataFits'
    BY <1>26, <1>a DEF async_cb_copy, DataFits, RcvType, Receivers
  <2> QED
    BY <2>1, <2>2, <2>3, <2>4, <2>5 DEF TypeInv, TypeParts
<1>j. ASSUME NEW k \in Conns, async_cb_stray(k)
      PROVE  TypeInv'
  <2>1. /\ FlagType' /\ CounterType' /\ InitType' /\ CallType' /\ SlotType' /\ FrameType'
        /\ SyncType' /\ NetType' /\ IndType' /\ AnswerType' /\ InitBound' /\ IdBound'
        /\ IndBound' /\ HasSlot'
    BY <1>j, <1>a
    DEF async_cb_stray, FlagType, CounterType, InitType, CallType, SlotType, FrameType,
        SyncType, NetType, IndType, AnswerType, InitBound, IdBound, IndBound, HasSlot
  <2>2. RcvType'
    <3>1. [rcv EXCEPT ![k].st = "crashed"] \in [Conns -> Receivers]
      BY <1>f
    <3> QED
      BY <1>j, <1>d, <1>e, <3>1 DEF async_cb_stray, RcvType
  <2>3. DataFits'
    BY <1>j, <1>a DEF async_cb_stray, Receiving, Receiver, DataFits, RcvType, Receivers
  <2> QED
    BY <2>1, <2>2, <2>3 DEF TypeInv, TypeParts
<1>27. ASSUME NEW k \in Conns, async_cb_lock(k)
      PROVE  TypeInv'
  <2>1. /\ FlagType' /\ CounterType' /\ InitType' /\ CallType' /\ SlotType' /\ FrameType'
        /\ NetType' /\ IndType' /\ AnswerType' /\ InitBound' /\ IdBound' /\ IndBound'
        /\ HasSlot'
    BY <1>27, <1>a
    DEF async_cb_lock, FlagType, CounterType, InitType, CallType, SlotType, FrameType,
        NetType, IndType, AnswerType, InitBound, IdBound, IndBound, HasSlot
  <2>2. SyncType'
    BY <1>27, <1>a DEF async_cb_lock, SyncType, DataFits
  <2>3. RcvType'
    <3>1. \A st \in {"signal", "stuck"} : [rcv EXCEPT ![k].st = st] \in [Conns -> Receivers]
      BY <1>f
    <3> QED
      BY <1>27, <3>1 DEF async_cb_lock, RcvType
  <2>4. DataFits'
    BY <1>27, <1>a DEF async_cb_lock, DataFits, RcvType, Receivers
  <2> QED
    BY <2>1, <2>2, <2>3, <2>4 DEF TypeInv, TypeParts
<1>28. ASSUME NEW k \in Conns, async_cb_signal(k)
      PROVE  TypeInv'
  <2>1. /\ FlagType' /\ CounterType' /\ InitType' /\ CallType' /\ SlotType' /\ FrameType'
        /\ NetType' /\ IndType' /\ AnswerType' /\ InitBound' /\ IdBound' /\ IndBound'
        /\ HasSlot'
    BY <1>28, <1>a
    DEF async_cb_signal, FlagType, CounterType, InitType, CallType, SlotType, FrameType,
        NetType, IndType, AnswerType, InitBound, IdBound, IndBound, HasSlot
  <2>2. SyncType'
    BY <1>28, <1>a DEF async_cb_signal, SyncType, DataFits
  <2>3. RcvType'
    <3>1. [rcv EXCEPT ![k].st = "stuck"] \in [Conns -> Receivers]
      BY <1>f
    <3> QED
      BY <1>28, <1>d, <1>e, <3>1 DEF async_cb_signal, RcvType
  <2>4. DataFits'
    BY <1>28, <1>a DEF async_cb_signal, Receiving, Receiver, DataFits, RcvType, Receivers
  <2> QED
    BY <2>1, <2>2, <2>3, <2>4 DEF TypeInv, TypeParts
<1>29. CASE UNCHANGED vars
  BY <1>29
  DEF vars, TypeInv, TypeParts, FlagType, CounterType, InitType, CallType, SlotType,
      FrameType, SyncType, NetType, IndType, RcvType, AnswerType, DataFits, InitBound,
      IdBound, IndBound, HasSlot
<1> QED
  BY <1>1, <1>2, <1>3, <1>4, <1>5, <1>6, <1>7, <1>8, <1>9, <1>10, <1>11, <1>12, <1>13,
     <1>14, <1>15, <1>16, <1>17, <1>18, <1>19, <1>20, <1>21, <1>22, <1>23, <1>24, <1>25,
     <1>26, <1>27, <1>28, <1>29, <1>h, <1>i, <1>j
  DEF Next, Issue, Await, Receive

(* The library's state keeps its types, however it is used: attempts and   *)
(* ids stay in their ranges, a slot that is filled exists (lines 281-298), *)
(* and only the frame of a synchronous call is written and locked as one   *)
(* (lines 312-320) unless the receive thread crashes first.                *)
THEOREM TypeCorrect == Spec => []TypeOK
<1>1. Spec => []TypeInv
  BY TypeInit, TypeStep, PTL DEF Spec
<1>2. TypeInv => TypeOK
  BY TypeOKParts DEF TypeInv
<1> QED
  BY <1>1, <1>2, PTL

-----------------------------------------------------------------------------
(* What is known of ind_cb is inductive.  The two actions that clear it    *)
(* note the race; set_callbacks, which may clear it as well, follows an    *)
(* init that has.                                                          *)
LEMMA IndStep == TypeInv /\ IndInv /\ [Next]_vars => IndInv'
<1> SUFFICES ASSUME TypeInv, IndInv, [Next]_vars PROVE IndInv'
  OBVIOUS
<1> USE DEF context, callbackVars, counters, initVars, callVars, syncVars, service, indVars,
            net, misuse, history
<1>a. RcvType /\ FlagType /\ InitType
  BY DEF TypeInv, TypeParts
<1>b. ASSUME ind_cb' = ind_cb, indRace' = indRace, indLate' = indLate,
             ipc' # "cleared" \/ ipc' = ipc,
             \A k \in Conns : rcv'[k].st = "ind" => rcv[k].st = "ind"
      PROVE  IndInv'
  BY <1>b DEF IndInv, TestedIndCb, QuietReleaseIsSafe
<1>1. CASE uril_client_init
  BY <1>1 DEF uril_client_init, IndInv, TestedIndCb, QuietReleaseIsSafe
<1>2. ASSUME NEW ind \in IndCbs, NEW default \in DefaultCbs, set_callbacks(ind, default)
      PROVE  IndInv'
  BY <1>2 DEF set_callbacks, IndInv, TestedIndCb, QuietReleaseIsSafe
<1>3. CASE uril_client_release
  BY <1>3, <1>a DEF uril_client_release, IndInv, TestedIndCb, QuietReleaseIsSafe, FlagType
<1>4. ASSUME NEW k \in Conns, handle_receive_ind(k)
      PROVE  IndInv'
  BY <1>4, <1>a
  DEF handle_receive_ind, IndInv, TestedIndCb, QuietReleaseIsSafe, RcvType
<1>5. ASSUME NEW k \in Conns, invoke_ind_cb(k)
      PROVE  IndInv'
  <2>1. TestedIndCb
    BY <1>5 DEF invoke_ind_cb, TestedIndCb
  <2>2. \A j \in Conns : rcv'[j].st = "ind" => rcv[j].st = "ind"
    BY <1>5, <1>a
    DEF invoke_ind_cb, InCallback, Receiving, Receiver, RcvType, Receivers
  <2>3. UNCHANGED <<ind_cb, indRace, ipc>> /\ indLate' = (indLate \/ ~ind_cb)
    BY <1>5 DEF invoke_ind_cb
  <2> QED
    BY <2>1, <2>2, <2>3 DEF IndInv, TestedIndCb, QuietReleaseIsSafe
<1>6. ASSUME NEW k \in Conns, NEW u \in Ids, handle_receive_rsp(k, u)
      PROVE  IndInv'
  BY <1>6, <1>a, <1>b DEF handle_receive_rsp, Receiver, RcvType
<1>7. ASSUME NEW k \in Conns, invoke_callback(k)
      PROVE  IndInv'
  BY <1>7, <1>a, <1>b DEF invoke_callback, InCallback, Receiving, Receiver, RcvType
<1>8. ASSUME NEW k \in Conns, callback_returns(k)
      PROVE  IndInv'
  BY <1>8, <1>a, <1>b DEF callback_returns, Receiving, Receiver, RcvType
<1>9. ASSUME NEW k \in Conns, async_cb_copy(k)
      PROVE  IndInv'
  BY <1>9, <1>a, <1>b DEF async_cb_copy, RcvType, Receivers
<1>10. ASSUME NEW k \in Conns, async_cb_lock(k) \/ async_cb_stray(k)
       PROVE  IndInv'
  BY <1>10, <1>a, <1>b
  DEF async_cb_lock, async_cb_stray, Receiving, Receiver, RcvType, Receivers
<1>11. ASSUME NEW k \in Conns, async_cb_signal(k)
       PROVE  IndInv'
  BY <1>11, <1>a, <1>b DEF async_cb_signal, Receiving, Receiver, RcvType, Receivers
<1>12. ASSUME NEW k \in Conns, service_disconnects(k) \/ receive_fails(k)
       PROVE  IndInv'
  BY <1>12, <1>a, <1>b
  DEF service_disconnects, receive_fails, Receiver, RcvType, Receivers
<1>13. ASSUME NEW k \in Conns,
              service_indicates(k) \/ \E u \in Ids : service_answers(k, u)
       PROVE  IndInv'
  BY <1>13, <1>b DEF service_indicates, service_answers
<1>14. CASE connect_succeeds
  BY <1>14, <1>a, <1>b DEF connect_succeeds, Receiving, Receiver, RcvType
<1>15. ASSUME NEW freed \in BOOLEAN, connect_fails(freed)
       PROVE  IndInv'
  BY <1>15, <1>b DEF connect_fails
<1>16. CASE set_initialized \/ init_returns
  BY <1>16, <1>b DEF set_initialized, init_returns
<1>17. ASSUME NEW c \in Calls, NEW hndl \in 0..s_unique_handle, NEW req \in BOOLEAN,
              execute_command(c, hndl, req)
       PROVE  IndInv'
  BY <1>17, <1>b DEF execute_command
<1>18. ASSUME NEW c \in Calls, Issue(c)
       PROVE  IndInv'
  BY <1>18, <1>b
  DEF Issue, gen_unique_id, acquire_free_op_slot, fill_op, set_op_data, set_op_uid, send_request
<1>19. ASSUME NEW c \in SyncCalls,
              Await(c) \/ \E spurious \in BOOLEAN : sync_wakes(c, spurious)
       PROVE  IndInv'
  BY <1>19, <1>b DEF Await, sync_lock_and_test, sync_times_out, sync_exit, sync_wakes
<1>20. CASE UNCHANGED vars
  BY <1>20, <1>b DEF vars
<1> QED
  BY <1>1, <1>2, <1>3, <1>4, <1>5, <1>6, <1>7, <1>8, <1>9, <1>10, <1>11, <1>12, <1>13,
     <1>14, <1>15, <1>16, <1>17, <1>18, <1>19, <1>20
  DEF Next, Receive

(* A release that meets no receive thread between the test and the call of *)
(* ind_cb (lines 114 and 115) is followed by no indication, however many   *)
(* connections earlier initialisations have left with a thread each.       *)
THEOREM QuietRelease == Spec => []QuietReleaseIsSafe
<1>1. Init => IndInv
  BY DEF Init, IndInv, TestedIndCb, QuietReleaseIsSafe, NotStarted, Receiver
<1>2. Spec => [](TypeInv /\ IndInv)
  BY <1>1, TypeInit, TypeStep, IndStep, PTL DEF Spec
<1>3. IndInv => QuietReleaseIsSafe
  BY DEF IndInv
<1> QED
  BY <1>2, <1>3, PTL

-----------------------------------------------------------------------------
(* What Ask changes, on the newest connection. *)
LEMMA AskEffect ==
  ASSUME TypeInv, NEW c \in Calls, asked' = [asked EXCEPT ![conn][uid[c]] = @ + 1],
         NEW k \in Conns, NEW u \in Ids
  PROVE  asked'[k][u] = IF k = conn /\ u = uid[c] THEN asked[k][u] + 1 ELSE asked[k][u]
<1>1. asked \in [Conns -> [Ids -> Nat]] /\ uid[c] \in Ids
  BY DEF TypeInv, TypeParts, NetType, CallType
<1>2. CASE k = conn
  BY <1>1, <1>2
<1>3. CASE k # conn
  BY <1>1, <1>3
<1> QED
  BY <1>2, <1>3

(* A response is taken after it was sent: what Inbox and UrilService say.  *)
LEMMA AskedFirstStep == TypeInv /\ AskedFirst /\ [Next]_vars => AskedFirst'
<1> SUFFICES ASSUME TypeInv, AskedFirst, [Next]_vars PROVE AskedFirst'
  OBVIOUS
<1> USE DEF context, callbackVars, counters, initVars, callVars, syncVars, service, indVars,
            net, misuse, history
<1>a. NetType /\ CallType
  BY DEF TypeInv, TypeParts
<1>b. ASSUME UNCHANGED <<asked, answered, taken>>
      PROVE  AskedFirst'
  BY <1>b DEF AskedFirst
<1>1. ASSUME NEW c \in Calls, NEW ok \in BOOLEAN, send_request(c, ok)
      PROVE  AskedFirst'
  <2>1. CASE UNCHANGED service
    BY <1>1, <1>b, <2>1 DEF send_request
  <2>2. CASE Service!Ask(conn, uid[c])
    <3>1. asked' = [asked EXCEPT ![conn][uid[c]] = @ + 1] /\ answered' = answered
          /\ taken' = taken
      BY <1>1, <2>2 DEF send_request, Service!Ask
    <3> QED
      BY <3>1, <1>a, AskEffect DEF AskedFirst, NetType
  <2> QED
    BY <1>1, <2>1, <2>2 DEF send_request
<1>2. ASSUME NEW k \in Conns, NEW u \in Ids, service_answers(k, u)
      PROVE  AskedFirst'
  BY <1>2, <1>a DEF service_answers, Service!Answer, AskedFirst, NetType
<1>3. ASSUME NEW k \in Conns, NEW u \in Ids, handle_receive_rsp(k, u)
      PROVE  AskedFirst'
  BY <1>3, <1>a DEF handle_receive_rsp, Takes, Inbox, AskedFirst, NetType
<1>4. ASSUME NEW k \in Conns,
             \/ service_indicates(k) \/ service_disconnects(k) \/ receive_fails(k)
             \/ invoke_callback(k) \/ callback_returns(k) \/ handle_receive_ind(k)
             \/ invoke_ind_cb(k) \/ async_cb_copy(k) \/ async_cb_stray(k)
             \/ async_cb_lock(k) \/ async_cb_signal(k)
      PROVE  AskedFirst'
  BY <1>4, <1>b
  DEF service_indicates, service_disconnects, receive_fails, invoke_callback,
      callback_returns, handle_receive_ind, invoke_ind_cb, async_cb_copy, async_cb_stray,
      async_cb_lock, async_cb_signal, Service!Close
<1>5. ASSUME NEW c \in Calls,
             \/ \E hndl \in 0..s_unique_handle, req \in BOOLEAN : execute_command(c, hndl, req)
             \/ gen_unique_id(c) \/ acquire_free_op_slot(c) \/ fill_op(c)
             \/ set_op_data(c) \/ set_op_uid(c)
      PROVE  AskedFirst'
  BY <1>5, <1>b
  DEF execute_command, gen_unique_id, acquire_free_op_slot, fill_op, set_op_data, set_op_uid
<1>6. ASSUME NEW c \in SyncCalls,
             Await(c) \/ \E spurious \in BOOLEAN : sync_wakes(c, spurious)
      PROVE  AskedFirst'
  BY <1>6, <1>b DEF Await, sync_lock_and_test, sync_times_out, sync_exit, sync_wakes
<1>7. CASE \/ uril_client_init \/ connect_succeeds \/ set_initialized \/ init_returns
           \/ uril_client_release
           \/ \E ind \in IndCbs, default \in DefaultCbs : set_callbacks(ind, default)
           \/ \E freed \in BOOLEAN : connect_fails(freed)
  BY <1>7, <1>b
  DEF uril_client_init, connect_succeeds, set_initialized, init_returns, uril_client_release,
      set_callbacks, connect_fails
<1>8. CASE UNCHANGED vars
  BY <1>8, <1>b DEF vars
<1> QED
  BY <1>1, <1>2, <1>3, <1>4, <1>5, <1>6, <1>7, <1>8 DEF Next, Issue, Receive

(* Entering the library: the call is under way, or has failed and left. *)
LEMMA EntersEffect ==
  ASSUME TypeInv, NEW c \in Calls, NEW hndl, NEW req, Enters(c, hndl, req)
  PROVE  /\ pc[c] = "idle"
         /\ \A d \in Calls : d # c => pc'[d] = pc[d] /\ ret'[d] = ret[d]
         /\ \A d \in SyncCalls : d # c => frame'[d] = frame[d]
         /\ c \in SyncCalls => frame'[c] = "alive"
         /\ \/ pc'[c] = "id" /\ ret'[c] = ret[c]
            \/ pc'[c] = (IF c \in SyncCalls THEN "exit" ELSE "done") /\ ret'[c] = "fail"
  BY DEF Enters, Goto, Fails, TypeInv, TypeParts, CallType, FrameType

(* Where a call is, what it has returned and what became of its frame move *)
(* together.                                                               *)
LEMMA ReturnStep == TypeInv /\ ReturnInv /\ [Next]_vars => ReturnInv'
<1> SUFFICES ASSUME TypeInv, ReturnInv, [Next]_vars PROVE ReturnInv'
  OBVIOUS
<1> USE DEF context, callbackVars, counters, initVars, callVars, syncVars, service, indVars,
            net, misuse, history
<1>a. CallType /\ FrameType /\ SyncType /\ RcvType /\ DataFits /\ SyncCalls \subseteq Calls
      /\ NestedCalls \subseteq Calls
  BY Constants DEF TypeInv, TypeParts
<1>b. ASSUME UNCHANGED <<pc, ret, frame, condition>>
      PROVE  ReturnInv'
  BY <1>b DEF ReturnInv
<1>c. ASSUME NEW c \in Calls, NEW hndl, NEW req, Enters(c, hndl, req), condition' = condition
      PROVE  ReturnInv'
  BY <1>c, <1>a, EntersEffect DEF ReturnInv
<1>1. ASSUME NEW c \in Calls, NEW hndl \in 0..s_unique_handle, NEW req \in BOOLEAN,
             execute_command(c, hndl, req)
      PROVE  ReturnInv'
  BY <1>1, <1>c DEF execute_command
<1>2. ASSUME NEW k \in Conns, invoke_callback(k) \/ invoke_ind_cb(k)
      PROVE  ReturnInv'
  BY <1>2, <1>a, <1>b, <1>c DEF invoke_callback, invoke_ind_cb, InCallback
<1>3. ASSUME NEW c \in Calls, Issue(c)
      PROVE  ReturnInv'
  BY <1>3, <1>a
  DEF Issue, gen_unique_id, acquire_free_op_slot, fill_op, set_op_data, set_op_uid,
      send_request, Goto, Fails, Sent, ReturnInv, CallType, FrameType
<1>4. ASSUME NEW c \in SyncCalls,
             Await(c) \/ \E spurious \in BOOLEAN : sync_wakes(c, spurious)
      PROVE  ReturnInv'
  BY <1>4, <1>a
  DEF Await, sync_lock_and_test, sync_times_out, sync_exit, sync_wakes, Goto, ReturnInv,
      CallType, FrameType, SyncType
<1>5. ASSUME NEW k \in Conns, async_cb_lock(k)
      PROVE  ReturnInv'
  BY <1>5, <1>a DEF async_cb_lock, DataFits, ReturnInv, SyncType
<1>6. ASSUME NEW k \in Conns,
             \/ service_indicates(k) \/ service_disconnects(k) \/ receive_fails(k)
             \/ callback_returns(k) \/ handle_receive_ind(k) \/ async_cb_copy(k)
             \/ async_cb_stray(k) \/ async_cb_signal(k)
             \/ \E u \in Ids : handle_receive_rsp(k, u) \/ service_answers(k, u)
      PROVE  ReturnInv'
  BY <1>6, <1>b
  DEF service_indicates, service_disconnects, receive_fails, callback_returns,
      handle_receive_ind, async_cb_copy, async_cb_stray, async_cb_signal, handle_receive_rsp,
      service_answers
<1>7. CASE \/ uril_client_init \/ connect_succeeds \/ set_initialized \/ init_returns
           \/ uril_client_release
           \/ \E ind \in IndCbs, default \in DefaultCbs : set_callbacks(ind, default)
           \/ \E freed \in BOOLEAN : connect_fails(freed)
  BY <1>7, <1>b
  DEF uril_client_init, connect_succeeds, set_initialized, init_returns, uril_client_release,
      set_callbacks, connect_fails
<1>8. CASE UNCHANGED vars
  BY <1>8, <1>b DEF vars
<1> QED
  BY <1>1, <1>2, <1>3, <1>4, <1>5, <1>6, <1>7, <1>8 DEF Next, Receive

(* The use was proper before a step if it is after it. *)
LEMMA ProperUseBefore == TypeInv /\ [Next]_vars /\ ProperUse' => ProperUse
<1> SUFFICES ASSUME TypeInv, [Next]_vars, ProperUse' PROVE ProperUse
  OBVIOUS
<1> USE DEF context, callbackVars, counters, initVars, callVars, syncVars, service, indVars,
            net, misuse, history
<1>a. issued \in Nat /\ id_range \in Nat
  BY IdsAreNat DEF TypeInv, TypeParts, CounterType
<1> DEFINE Grows == /\ id_range' = id_range /\ (crossed => crossed')
                    /\ (overlapped => overlapped')
                    /\ (issued' = issued \/ issued' = issued + 1)
<1>1. ASSUME uril_client_init \/ \E c \in Calls : gen_unique_id(c) \/ acquire_free_op_slot(c)
      PROVE  Grows
  <2>1. CASE uril_client_init
    BY <2>1, Zenon DEF uril_client_init
  <2>2. ASSUME NEW c \in Calls, gen_unique_id(c)
        PROVE  Grows
    BY <2>2 DEF gen_unique_id
  <2>3. ASSUME NEW c \in Calls, acquire_free_op_slot(c)
        PROVE  Grows
    BY <2>3, Zenon DEF acquire_free_op_slot
  <2> QED
    BY <1>1, <2>1, <2>2, <2>3
<1>2. ASSUME \/ connect_succeeds \/ set_initialized \/ init_returns \/ uril_client_release
             \/ \E ind \in IndCbs, default \in DefaultCbs : set_callbacks(ind, default)
             \/ \E freed \in BOOLEAN : connect_fails(freed)
      PROVE  Grows
  BY <1>2
  DEF set_callbacks, connect_succeeds, set_initialized, init_returns, uril_client_release,
      connect_fails
<1>3. ASSUME \E c \in Calls :
               \/ \E hndl \in 0..s_unique_handle, req \in BOOLEAN : execute_command(c, hndl, req)
               \/ fill_op(c) \/ set_op_data(c) \/ set_op_uid(c)
               \/ \E ok \in BOOLEAN : send_request(c, ok)
      PROVE  Grows
  BY <1>3 DEF execute_command, fill_op, set_op_data, set_op_uid, send_request
<1>4. ASSUME \E c \in SyncCalls :
               Await(c) \/ \E spurious \in BOOLEAN : sync_wakes(c, spurious)
      PROVE  Grows
  BY <1>4 DEF Await, sync_lock_and_test, sync_wakes, sync_times_out, sync_exit
<1>5. ASSUME \E k \in Conns :
               \/ Receive(k) \/ receive_fails(k)
               \/ \E u \in Ids : service_answers(k, u)
               \/ service_indicates(k) \/ service_disconnects(k)
      PROVE  Grows
  BY <1>5
  DEF Receive, service_answers, service_indicates, service_disconnects, receive_fails,
      handle_receive_rsp, invoke_callback, callback_returns, handle_receive_ind,
      invoke_ind_cb, async_cb_copy, async_cb_stray, async_cb_lock, async_cb_signal
<1>6. ASSUME UNCHANGED vars
      PROVE  Grows
  BY <1>6 DEF vars
<1>7. Grows
  BY <1>1, <1>2, <1>3, <1>4, <1>5, <1>6 DEF Next, Issue
<1> QED
  BY <1>a, <1>7 DEF ProperUse, IdsReused

-----------------------------------------------------------------------------
(* A call whose slot is taken, or that a thread holds, has not been        *)
(* answered, so its condition is not set.                                  *)
LEMMA NotYetSet ==
  ASSUME TypeInv, CallInv, HoldInv, SyncInv, NEW c \in SyncCalls,
         slot[c] # 0 \/ \E k \in Conns : Holds(k, c)
  PROVE  condition[c] = 0
<1>1. c \in Calls /\ condition[c] \in {0, 1}
  BY Constants DEF TypeInv, TypeParts, SyncType
<1>2. CASE slot[c] # 0
  BY <1>1, <1>2 DEF CallInv, SyncInv
<1>3. CASE \E k \in Conns : Holds(k, c)
  BY <1>1, <1>3 DEF HoldInv
<1> QED
  BY <1>2, <1>3

(* What matching rests on depends on the ids of the slots, on who owns     *)
(* them, on the requests, and on who still awaits an answer.               *)
LEMMA RegimesKept ==
  ASSUME TypeInv,
         \A i \in Slots : /\ pending_ops'[i].unique_id = pending_ops[i].unique_id
                          /\ pending_ops'[i].busy = pending_ops[i].busy,
         UNCHANGED <<slot, uid, asked, taken, issued, s_unique_msg_id>>,
         \A c \in Calls : \/ pc'[c] \notin {"acquire", "fill", "set_data", "set_uid", "send"}
                          \/ pc'[c] = pc[c]
                          \/ pc[c] \in {"fill", "set_data", "set_uid"},
         \A c \in Calls : slot[c] # 0 /\ Awaits(c) => Awaits(c)'
  PROVE  /\ FreshIds => FreshIds'
         /\ FreshRequests => FreshRequests'
         /\ FreshMatch => FreshMatch'
         /\ OneAtATime => OneAtATime'
<1>1. \A i \in Slots : i # 0
  BY DEF Slots
<1>2. \A k \in Conns, u \in Ids : Outstanding(k, u)' <=> Outstanding(k, u)
  BY DEF Outstanding
<1>3. FreshIds => FreshIds'
  BY DEF FreshIds
<1>4. FreshRequests => FreshRequests'
  BY DEF FreshRequests
<1>5. ASSUME FreshMatch PROVE FreshMatch'
  BY <1>1, <1>2, <1>5 DEF FreshMatch
<1>6. ASSUME OneAtATime PROVE OneAtATime'
  BY <1>1, <1>2, <1>6 DEF OneAtATime
<1> QED
  BY <1>3, <1>4, <1>5, <1>6

(* A step that touches no slot, sends nothing, gives out no id and lends   *)
(* no call to a receive thread keeps the invariant, wherever the calls go  *)
(* that do not fill a slot.                                                *)
LEMMA CoreKept ==
  ASSUME TypeInv, Core,
         UNCHANGED <<pending_ops, slot, uid, asked, taken, issued, s_unique_msg_id, id_range,
                     callbacks, answers, condition, deadWrite>>,
         overlapped => overlapped', gaveUp \subseteq gaveUp',
         \A k \in Conns : rcv'[k] = rcv[k] \/ rcv'[k].st \notin {"call", "lock"},
         \A c \in Calls : \/ pc'[c] = pc[c]
                          \/ /\ pc'[c] \in {"id", "lock", "waiting", "exit", "done"}
                             /\ pc[c] \notin {"fill", "set_data", "set_uid"}
                             /\ pc'[c] = "id" => pc[c] = "idle",
         \A c \in Calls : Awaits(c) /\ (c \in SyncCalls => condition[c] = 0) => Awaits(c)'
  PROVE  Core'
<1>a. CallInv /\ SlotInv /\ HoldInv /\ SyncInv
  BY DEF Core
<1>b. \A k \in Conns, c \in Calls : Holds(k, c)' => Holds(k, c) /\ rcv'[k] = rcv[k]
  BY DEF Holds
<1>c. \A c \in Calls : Awaits(c) /\ (slot[c] # 0 \/ \E k \in Conns : Holds(k, c)) => Awaits(c)'
  BY <1>a, NotYetSet
<1>1. CallInv'
  BY <1>a, <1>b DEF CallInv
<1>2. SlotInv'
  BY <1>a DEF SlotInv
<1>3. HoldInv'
  BY <1>a, <1>b, <1>c DEF HoldInv
<1>4. SyncInv'
  BY <1>a DEF SyncInv
<1>5. /\ FreshIds => FreshIds'
      /\ FreshRequests => FreshRequests'
      /\ FreshMatch => FreshMatch'
      /\ OneAtATime => OneAtATime'
  BY <1>c, RegimesKept
<1> QED
  BY <1>1, <1>2, <1>3, <1>4, <1>5 DEF Core

(* The quiet steps of the connections, and of init and release. *)
LEMMA CoreQuiet ==
  ASSUME TypeInv, Core,
         UNCHANGED <<pending_ops, callVars, s_unique_msg_id, id_range, asked, taken,
                     callbacks, answers, condition, gaveUp, deadWrite, issued, overlapped>>,
         \A k \in Conns : rcv'[k] = rcv[k] \/ rcv'[k].st \notin {"call", "lock"}
  PROVE  Core'
  BY CoreKept DEF callVars, Awaits

(* A call that enters the library is new to it. *)
LEMMA CoreEnters ==
  ASSUME TypeInv, Core, NEW c \in Calls, NEW hndl, NEW req, Enters(c, hndl, req),
         UNCHANGED <<pending_ops, slot, uid, counters, asked, taken, callbacks, answers,
                     condition, gaveUp, deadWrite, issued, overlapped>>,
         \A k \in Conns : rcv'[k] = rcv[k] \/ rcv'[k].st \notin {"call", "lock"}
  PROVE  Core'
<1>1. \A d \in Calls : Awaits(d) => Awaits(d)'
  BY EntersEffect DEF Awaits
<1> QED
  BY <1>1, EntersEffect, CoreKept DEF counters

(* uril_client_init: nobody is issuing, so nobody has a slot afterwards.   *)
LEMMA CoreInit ==
  ASSUME TypeInv, Core, uril_client_init, ProperUse'
  PROVE  Core'
<1> USE DEF counters, syncVars, net, service, indVars
<1>a. CallInv /\ SlotInv /\ HoldInv /\ SyncInv
  BY DEF Core
<1>b. CallType /\ SlotType /\ CounterType /\ NetType
  BY DEF TypeInv, TypeParts
<1>1. \A c \in Calls : ~Issuing(c)
  BY DEF ProperUse, uril_client_init
<1>2. /\ \A c \in Calls : slot'[c] = 0
      /\ \A i \in Slots : pending_ops'[i] = FreeSlot
      /\ UNCHANGED <<pc, ret, uid, rcv, asked, taken, callbacks, answers, condition, gaveUp,
                     deadWrite, issued, s_unique_msg_id, id_range>>
  BY <1>1 DEF uril_client_init
<1>3. \A k \in Conns, c \in Calls : Holds(k, c)' <=> Holds(k, c)
  BY <1>2 DEF Holds
<1>4. \A c \in Calls : Awaits(c)' <=> Awaits(c)
  BY <1>2 DEF Awaits
<1>5. \A k \in Conns, u \in Ids : Outstanding(k, u)' <=> Outstanding(k, u)
  BY <1>2 DEF Outstanding
<1>6. CallInv'
  BY <1>a, <1>1, <1>2, <1>3 DEF CallInv, Issuing
<1>7. SlotInv'
  BY <1>2 DEF SlotInv, FreeSlot, Slots
<1>8. HoldInv' /\ SyncInv'
  BY <1>a, <1>2, <1>3, <1>4 DEF HoldInv, SyncInv
<1>9. ASSUME issued' < id_range' PROVE FreshIds' /\ FreshRequests' /\ FreshMatch'
  <2>1. FreshIds /\ FreshRequests
    BY <1>2, <1>9 DEF Core
  <2>2. FreshIds'
    BY <1>1, <1>2, <1>b, <2>1 DEF FreshIds, FreeSlot, Issuing, CounterType
  <2>3. FreshRequests'
    BY <1>2, <2>1 DEF FreshRequests
  <2>4. FreshMatch'
    BY <1>2, <1>5, <1>b, <2>1
    DEF FreshMatch, FreshRequests, FreeSlot, Outstanding, NetType
  <2> QED
    BY <2>2, <2>3, <2>4
<1>10. ASSUME ~overlapped' PROVE OneAtATime'
  <2>1. ~overlapped /\ \A i \in Slots : ~pending_ops[i].busy
    BY <1>10 DEF uril_client_init
  <2>2. \A k \in Conns, u \in Ids : ~Outstanding(k, u)
    BY <1>a, <2>1, Constants DEF Core, OneAtATime, SlotInv, Slots
  <2> QED
    BY <1>2, <1>5, <2>2 DEF OneAtATime, FreeSlot
<1> QED
  BY <1>6, <1>7, <1>8, <1>9, <1>10 DEF Core

(* gen_unique_id: while the counter has not come round the id is new. *)
LEMMA CoreGen ==
  ASSUME TypeInv, Core, NEW c \in Calls, gen_unique_id(c)
  PROVE  Core'
<1> USE DEF context, counters, syncVars, net, service, indVars
<1>a. CallInv /\ SlotInv /\ HoldInv /\ SyncInv
  BY DEF Core
<1>b. /\ CallType /\ NetType /\ SlotType /\ issued \in Nat
      /\ id_range \in Nat \ {0} /\ Ids \subseteq Nat /\ 0..(id_range - 1) \subseteq Ids
  BY IdsAreNat DEF TypeInv, TypeParts, CounterType
<1>1. /\ pc[c] = "id"
      /\ \A d \in Calls : d # c => uid'[d] = uid[d] /\ pc'[d] = pc[d]
      /\ uid'[c] = s_unique_msg_id' /\ pc'[c] = "acquire"
      /\ issued' = issued + 1
      /\ UNCHANGED <<ret, slot, rcv, pending_ops, asked, taken, callbacks, answers, condition,
                     gaveUp, deadWrite, id_range, overlapped>>
  BY <1>b DEF gen_unique_id, Goto, CallType
<1>2. \A k \in Conns, d \in Calls : Holds(k, d)' <=> Holds(k, d)
  BY <1>1 DEF Holds
<1>3. \A d \in Calls : Awaits(d) => Awaits(d)' /\ d # c
  BY <1>1 DEF Awaits
<1>4. slot[c] = 0 /\ callbacks[c] = 0 /\ answers[c] = {} /\ \A k \in Conns : ~Holds(k, c)
  BY <1>a, <1>1 DEF CallInv
<1>5. CallInv'
  BY <1>a, <1>1, <1>2, <1>4 DEF CallInv
<1>6. SlotInv'
  BY <1>a, <1>1, <1>4 DEF SlotInv
<1>7. HoldInv' /\ SyncInv'
  BY <1>a, <1>1, <1>2, <1>3, <1>4 DEF HoldInv, SyncInv
<1>8. \A k \in Conns, u \in Ids : Outstanding(k, u)' <=> Outstanding(k, u)
  BY <1>1 DEF Outstanding
<1>9. ASSUME issued' < id_range' PROVE FreshIds' /\ FreshRequests' /\ FreshMatch'
  <2>1. FreshIds /\ FreshRequests /\ FreshMatch
    BY <1>1, <1>9, <1>b DEF Core
  <2>2. s_unique_msg_id' = issued + 1 /\ uid'[c] = issued + 1
    <3>1. s_unique_msg_id = issued
      BY <2>1 DEF FreshIds
    <3>2. issued + 1 \in Nat /\ issued + 1 < id_range
      BY <1>1, <1>9, <1>b
    <3>3. (issued + 1) % id_range = issued + 1
      BY <1>b, <3>2, Remainder
    <3> QED
      BY <1>1, <3>1, <3>3 DEF gen_unique_id
  <2>3. \A i \in Slots : pending_ops[i].unique_id \in Nat
    BY <1>b DEF SlotType, PendingOp
  <2>a. \A d \in Calls : uid[d] \in Nat
    BY <1>b DEF CallType
  <2>4. FreshIds'
    <3>1. \A d \in Calls : /\ uid'[d] <= issued'
                           /\ pc'[d] \in {"acquire", "fill", "set_data", "set_uid", "send"}
                                => uid'[d] # 0
      BY <1>1, <1>b, <2>1, <2>2, <2>a DEF FreshIds
    <3>2. \A d, e \in Calls : uid'[d] = uid'[e] /\ uid'[d] # 0 => d = e
      BY <1>1, <1>b, <2>1, <2>2, <2>a DEF FreshIds
    <3>3. \A i \in Slots : pending_ops'[i].unique_id <= issued'
      BY <1>1, <1>b, <2>1, <2>3 DEF FreshIds
    <3>4. \A d \in Calls, i \in Slots :
            pc'[d] \in {"acquire", "fill", "set_data", "set_uid"}
              => pending_ops'[i].unique_id # uid'[d]
      BY <1>1, <1>b, <2>1, <2>2, <2>3 DEF FreshIds
    <3> QED
      BY <1>1, <2>1, <2>2, <3>1, <3>2, <3>3, <3>4 DEF FreshIds
  <2>5. FreshRequests'
    <3>1. \A k \in Conns, u \in Ids : asked[k][u] > 0 => u # issued + 1
      BY <1>b, <2>1 DEF FreshRequests
    <3>2. \A k \in Conns, u \in Ids : asked[k][u] \in Nat
      BY <1>b DEF NetType
    <3>3. issued + 1 \in Ids
      BY <1>1, <1>9, <1>b
    <3>4. \A k \in Conns, u \in Ids :
            asked[k][u] > 0 => u # 0 /\ u <= issued + 1 /\ asked[k][u] = 1
      <4>1. \A u \in Ids : u <= issued => u <= issued + 1
        BY <1>b
      <4> QED
        BY <2>1, <4>1 DEF FreshRequests
    <3>5. \A k \in Conns : asked[k][issued + 1] = 0
      BY <3>1, <3>2, <3>3
    <3> QED
      BY <1>1, <2>1, <2>2, <3>4, <3>5 DEF FreshRequests
  <2>6. FreshMatch'
    BY <1>1, <1>3, <1>8, <2>1 DEF FreshMatch
  <2> QED
    BY <2>4, <2>5, <2>6
<1>10. ASSUME ~overlapped' PROVE OneAtATime'
  BY <1>1, <1>3, <1>8, <1>10 DEF OneAtATime, Core
<1> QED
  BY <1>5, <1>6, <1>7, <1>9, <1>10 DEF Core

(* acquire_free_op_slot: under the mutex the first slot that is not busy  *)
(* becomes that of the call.  Without overlap it is slot 1.                *)
LEMMA CoreAcquire ==
  ASSUME TypeInv, Core, NEW c \in Calls, acquire_free_op_slot(c)
  PROVE  Core'
<1> USE DEF context, callbackVars, counters, syncVars, net, service, indVars
<1>a. CallInv /\ SlotInv /\ HoldInv /\ SyncInv
  BY DEF Core
<1>b. CallType /\ SlotType /\ SyncCalls \subseteq Calls
  BY Constants DEF TypeInv, TypeParts
<1>c. /\ pc[c] = "acquire"
      /\ UNCHANGED <<uid, rcv, asked, taken, callbacks, answers, condition, gaveUp, deadWrite,
                     issued, s_unique_msg_id, id_range>>
      /\ ~overlapped' => ~overlapped /\ \A i \in Slots : ~pending_ops[i].busy
  BY DEF acquire_free_op_slot
<1>1. CASE Fails(c) /\ UNCHANGED <<pending_ops, slot>>
  <2>1. /\ pc'[c] \in {"exit", "done"}
        /\ \A d \in Calls : d # c => pc'[d] = pc[d] /\ ret'[d] = ret[d]
    BY <1>1, <1>b DEF Fails, CallType
  <2>2. \A d \in Calls : Awaits(d) => Awaits(d)'
    BY <1>c, <2>1 DEF Awaits
  <2> QED
    BY <1>1, <1>c, <2>1, <2>2, CoreKept
<1>2. ASSUME NEW i \in Slots, FirstFree(i),
             pending_ops' = [pending_ops EXCEPT ![i].busy = TRUE],
             slot' = [slot EXCEPT ![c] = i], Goto(c, "fill")
      PROVE  Core'
  <2>1. /\ pc'[c] = "fill" /\ slot'[c] = i /\ ret' = ret
        /\ \A d \in Calls : d # c => pc'[d] = pc[d] /\ slot'[d] = slot[d]
        /\ pending_ops'[i].busy
        /\ \A j \in Slots :
             /\ pending_ops'[j].unique_id = pending_ops[j].unique_id
             /\ pending_ops'[j].client_data = pending_ops[j].client_data
             /\ j # i => pending_ops'[j] = pending_ops[j]
    BY <1>2, <1>b DEF Goto, CallType, SlotType, PendingOp
  <2>2. /\ slot[c] = 0 /\ callbacks[c] = 0 /\ \A k \in Conns : ~Holds(k, c)
        /\ ~pending_ops[i].busy /\ \A d \in Calls : slot[d] # i
    BY <1>2, <1>a, <1>c DEF CallInv, SlotInv, FirstFree
  <2>3. \A k \in Conns, d \in Calls : Holds(k, d)' <=> Holds(k, d)
    BY <1>c DEF Holds
  <2>4. \A d \in Calls : Awaits(d) => Awaits(d)' /\ d # c
    BY <1>c, <2>1 DEF Awaits
  <2>5. \A k \in Conns, u \in Ids : Outstanding(k, u)' <=> Outstanding(k, u)
    BY <1>c DEF Outstanding
  <2>6. CallInv'
    <3>1. \A d \in Calls : pc[d] = "set_uid" => slot[d] \in Slots
      BY <1>b DEF TypeInv, HasSlot, SlotType
    <3> QED
      BY <1>a, <1>c, <2>1, <2>2, <2>3, <3>1 DEF CallInv
  <2>7. SlotInv'
    <3>1. \A j \in Slots : pending_ops'[j].busy <=> \E d \in Calls : slot'[d] = j
      BY <1>a, <2>1, <2>2 DEF SlotInv, Slots
    <3>2. \A d, e \in Calls : slot'[d] # 0 /\ slot'[d] = slot'[e] => d = e
      BY <1>a, <2>1, <2>2 DEF SlotInv
    <3>3. ASSUME NEW d \in Calls, slot'[d] # 0, pc'[d] \notin {"fill", "set_data", "set_uid"}
          PROVE  /\ pending_ops'[slot'[d]].unique_id = uid'[d]
                 /\ pending_ops'[slot'[d]].client_data = d
      <4>1. d # c /\ slot'[d] = slot[d] /\ slot[d] \in Slots
        BY <3>3, <1>b, <2>1 DEF SlotType
      <4> QED
        BY <1>a, <1>c, <2>1, <3>3, <4>1 DEF SlotInv
    <3> QED
      BY <3>1, <3>2, <3>3 DEF SlotInv
  <2>8. HoldInv' /\ SyncInv'
    BY <1>a, <1>c, <2>3, <2>4 DEF HoldInv, SyncInv
  <2>9. ASSUME issued' < id_range' PROVE FreshIds' /\ FreshRequests' /\ FreshMatch'
    <3>1. FreshIds /\ FreshRequests /\ FreshMatch
      BY <1>c, <2>9 DEF Core
    <3>2. FreshIds' /\ FreshRequests'
      BY <1>c, <2>1, <3>1 DEF FreshIds, FreshRequests
    <3>3. FreshMatch'
      BY <1>c, <2>1, <2>4, <2>5, <3>1 DEF FreshMatch
    <3> QED
      BY <3>2, <3>3
  <2>10. ASSUME ~overlapped' PROVE OneAtATime'
    <3>1. i = 1
      <4>1. 1 \in Slots
        BY Constants DEF Slots
      <4> QED
        BY <1>2, <1>c, <2>10, <4>1 DEF FirstFree, Slots
    <3>2. OneAtATime
      BY <1>c, <2>10 DEF Core
    <3>3. \A k \in Conns, u \in Ids : ~Outstanding(k, u)
      BY <1>a, <1>c, <2>2, <2>10, <3>1, <3>2 DEF OneAtATime, SlotInv
    <3> QED
      BY <2>1, <2>5, <3>1, <3>2, <3>3 DEF OneAtATime
  <2> QED
    BY <2>6, <2>7, <2>8, <2>9, <2>10 DEF Core
<1> QED
  BY <1>1, <1>2 DEF acquire_free_op_slot

(* The slot is filled: the callback, then the client data. *)
LEMMA CoreFill ==
  ASSUME TypeInv, Core, NEW c \in Calls, fill_op(c) \/ set_op_data(c)
  PROVE  Core'
<1> USE DEF context, callbackVars, counters, syncVars, net, service, indVars, history, misuse
<1>a. CallInv /\ SlotInv /\ HoldInv /\ SyncInv
  BY DEF Core
<1>b. CallType /\ SlotType /\ HasSlot
  BY DEF TypeInv, TypeParts
<1>1. /\ pc[c] \in {"fill", "set_data"} /\ pc'[c] \in {"set_data", "set_uid"}
      /\ slot[c] \in Slots
      /\ \A d \in Calls : d # c => pc'[d] = pc[d]
      /\ UNCHANGED <<ret, uid, slot, rcv, asked, taken, callbacks, answers, condition, gaveUp,
                     deadWrite, issued, s_unique_msg_id, id_range, overlapped>>
      /\ pc'[c] = "set_uid" => pending_ops'[slot[c]].client_data = c
      /\ \A j \in Slots :
           /\ pending_ops'[j].unique_id = pending_ops[j].unique_id
           /\ pending_ops'[j].busy = pending_ops[j].busy
           /\ j # slot[c] => pending_ops'[j] = pending_ops[j]
  BY <1>b DEF fill_op, set_op_data, Goto, CallType, SlotType, HasSlot, PendingOp
<1>2. \A k \in Conns, d \in Calls : Holds(k, d)' <=> Holds(k, d)
  BY <1>1 DEF Holds
<1>3. \A d \in Calls : Awaits(d) => Awaits(d)'
  BY <1>1 DEF Awaits
<1>4. \A d \in Calls : d # c /\ slot[d] # 0 => slot[d] \in Slots /\ slot[d] # slot[c]
  BY <1>a, <1>b DEF SlotInv, SlotType
<1>5. CallInv'
  BY <1>a, <1>b, <1>1, <1>2, <1>4 DEF CallInv, HasSlot
<1>6. SlotInv'
  <2>1. /\ \A j \in Slots : pending_ops'[j].busy <=> \E d \in Calls : slot'[d] = j
        /\ \A d, e \in Calls : slot'[d] # 0 /\ slot'[d] = slot'[e] => d = e
    BY <1>a, <1>1 DEF SlotInv
  <2>2. ASSUME NEW d \in Calls, slot'[d] # 0, pc'[d] \notin {"fill", "set_data", "set_uid"}
        PROVE  /\ pending_ops'[slot'[d]].unique_id = uid'[d]
               /\ pending_ops'[slot'[d]].client_data = d
    BY <1>a, <1>1, <1>4, <2>2 DEF SlotInv
  <2> QED
    BY <2>1, <2>2 DEF SlotInv
<1>7. HoldInv' /\ SyncInv'
  BY <1>a, <1>1, <1>2, <1>3 DEF HoldInv, SyncInv
<1>8. /\ FreshIds => FreshIds'
      /\ FreshRequests => FreshRequests'
      /\ FreshMatch => FreshMatch'
      /\ OneAtATime => OneAtATime'
  BY <1>1, <1>3, RegimesKept
<1> QED
  BY <1>1, <1>5, <1>6, <1>7, <1>8 DEF Core

(* The slot gets the id of the call, which no other slot has.  What the   *)
(* slot's old id stood for has been answered.                              *)
LEMMA CoreSetUid ==
  ASSUME TypeInv, Core, NEW c \in Calls, set_op_uid(c)
  PROVE  Core'
<1> USE DEF context, callbackVars, counters, syncVars, net, service, indVars, history, misuse
<1>a. CallInv /\ SlotInv /\ HoldInv /\ SyncInv
  BY DEF Core
<1>b. CallType /\ SlotType /\ HasSlot /\ NetType
  BY DEF TypeInv, TypeParts
<1>1. /\ pc[c] = "set_uid" /\ pc'[c] = "send" /\ slot[c] \in Slots /\ slot[c] # 0
      /\ uid[c] \in Ids
      /\ \A d \in Calls : d # c => pc'[d] = pc[d]
      /\ UNCHANGED <<ret, uid, slot, rcv, asked, taken, callbacks, answers, condition, gaveUp,
                     deadWrite, issued, s_unique_msg_id, id_range, overlapped>>
      /\ pending_ops'[slot[c]].unique_id = uid[c]
      /\ \A j \in Slots :
           /\ pending_ops'[j].client_data = pending_ops[j].client_data
           /\ pending_ops'[j].busy = pending_ops[j].busy
           /\ j # slot[c] => pending_ops'[j] = pending_ops[j]
  BY <1>b DEF set_op_uid, Goto, CallType, SlotType, HasSlot, PendingOp
<1>2. \A k \in Conns, d \in Calls : Holds(k, d)' <=> Holds(k, d)
  BY <1>1 DEF Holds
<1>3. \A d \in Calls : Awaits(d) => Awaits(d)' /\ d # c
  BY <1>1 DEF Awaits
<1>4. \A d \in Calls : d # c /\ slot[d] # 0 => slot[d] \in Slots /\ slot[d] # slot[c]
  BY <1>a, <1>b DEF SlotInv, SlotType
<1>5. CallInv'
  BY <1>a, <1>b, <1>1, <1>2, <1>4 DEF CallInv, HasSlot
<1>6. SlotInv'
  <2>1. /\ \A j \in Slots : pending_ops'[j].busy <=> \E d \in Calls : slot'[d] = j
        /\ \A d, e \in Calls : slot'[d] # 0 /\ slot'[d] = slot'[e] => d = e
    BY <1>a, <1>1 DEF SlotInv
  <2>2. ASSUME NEW d \in Calls, slot'[d] # 0, pc'[d] \notin {"fill", "set_data", "set_uid"}
        PROVE  /\ pending_ops'[slot'[d]].unique_id = uid'[d]
               /\ pending_ops'[slot'[d]].client_data = d
    <3>1. CASE d = c
      BY <1>a, <1>1, <3>1 DEF CallInv
    <3>2. CASE d # c
      BY <1>a, <1>1, <1>4, <2>2, <3>2 DEF SlotInv
    <3> QED
      BY <3>1, <3>2
  <2> QED
    BY <2>1, <2>2 DEF SlotInv
<1>7. HoldInv' /\ SyncInv'
  BY <1>a, <1>1, <1>2, <1>3 DEF HoldInv, SyncInv
<1>8. \A k \in Conns, u \in Ids : Outstanding(k, u)' <=> Outstanding(k, u)
  BY <1>1 DEF Outstanding
<1>9. ASSUME issued' < id_range' PROVE FreshIds' /\ FreshRequests' /\ FreshMatch'
  <2>1. FreshIds /\ FreshRequests /\ FreshMatch
    BY <1>1, <1>9 DEF Core
  <2>2. FreshIds'
    <3>1. \A i \in Slots : pending_ops'[i].unique_id <= issued'
      BY <1>1, <2>1 DEF FreshIds
    <3>2. \A i, j \in Slots : pending_ops'[i].unique_id = pending_ops'[j].unique_id
                              /\ pending_ops'[i].unique_id # 0 => i = j
      BY <1>1, <2>1 DEF FreshIds
    <3>3. \A d \in Calls, i \in Slots :
            pc'[d] \in {"acquire", "fill", "set_data", "set_uid"}
              => pending_ops'[i].unique_id # uid'[d]
      BY <1>1, <2>1 DEF FreshIds
    <3> QED
      BY <1>1, <2>1, <3>1, <3>2, <3>3 DEF FreshIds
  <2>3. FreshRequests'
    BY <1>1, <2>1 DEF FreshRequests
  <2>4. \A k \in Conns : ~Outstanding(k, uid[c])
    BY <1>1, <1>b, <2>1 DEF FreshRequests, Outstanding, NetType
  <2>5. FreshMatch'
    BY <1>1, <1>3, <1>8, <2>1, <2>4 DEF FreshMatch
  <2> QED
    BY <2>2, <2>3, <2>5
<1>10. ASSUME ~overlapped' PROVE OneAtATime'
  <2>1. OneAtATime
    BY <1>1, <1>10 DEF Core
  <2>2. slot[c] = 1
    BY <1>a, <1>1, <2>1 DEF OneAtATime, SlotInv
  <2> QED
    BY <1>1, <1>3, <1>8, <2>1, <2>2 DEF OneAtATime
<1> QED
  BY <1>5, <1>6, <1>7, <1>9, <1>10 DEF Core

(* A send that gets through: the request is new to the service, and its    *)
(* slot is the one its answer will find.                                   *)
LEMMA CoreSend ==
  ASSUME TypeInv, Core, NEW c \in Calls, NEW ok \in BOOLEAN, send_request(c, ok)
  PROVE  Core'
<1> USE DEF context, callbackVars, counters, syncVars, service, indVars, history, misuse
<1>a. CallInv /\ SlotInv /\ HoldInv /\ SyncInv
  BY DEF Core
<1>b. CallType /\ SlotType /\ HasSlot /\ NetType /\ SyncCalls \subseteq Calls
  BY Constants DEF TypeInv, TypeParts
<1>1. /\ pc[c] = "send" /\ slot[c] \in Slots /\ slot[c] # 0 /\ uid[c] \in Ids
      /\ UNCHANGED <<uid, slot, pending_ops, rcv, taken, callbacks, answers, condition,
                     gaveUp, deadWrite, issued, s_unique_msg_id, id_range, overlapped>>
  BY <1>b DEF send_request, CallType, SlotType, HasSlot
<1>2. /\ pc'[c] \in {"lock", "exit", "done"}
      /\ \A d \in Calls : d # c => pc'[d] = pc[d] /\ ret'[d] = ret[d]
  BY <1>b DEF send_request, Sent, Fails, Goto, CallType
<1>3. \A d \in Calls : Awaits(d) => Awaits(d)' /\ d # c
  BY <1>1, <1>2 DEF Awaits
<1>4. CASE UNCHANGED service
  BY <1>1, <1>2, <1>3, <1>4, CoreKept
<1>5. CASE ok /\ Service!Ask(conn, uid[c]) /\ Sent(c)
  <2>1. Awaits(c)'
    BY <1>5, <1>b DEF Sent, Goto, Awaits, CallType
  <2>2. \A k \in Conns, u \in Ids :
          asked'[k][u] = IF k = conn /\ u = uid[c] THEN asked[k][u] + 1 ELSE asked[k][u]
    BY <1>5, AskEffect DEF Service!Ask
  <2>3. \A k \in Conns, d \in Calls : Holds(k, d)' <=> Holds(k, d)
    BY <1>1 DEF Holds
  <2>4. CallInv' /\ SlotInv'
    BY <1>a, <1>1, <1>2, <2>3 DEF CallInv, SlotInv
  <2>5. HoldInv' /\ SyncInv'
    BY <1>a, <1>1, <1>3, <2>3 DEF HoldInv, SyncInv
  <2>6. \A k \in Conns, u \in Ids : asked[k][u] \in Nat /\ taken[k][u] \in Nat
    BY <1>b DEF NetType
  <2>7. \A k \in Conns, u \in Ids :
          Outstanding(k, u)' => Outstanding(k, u) \/ (k = conn /\ u = uid[c])
    BY <1>1, <2>2 DEF Outstanding
  <2>8. pending_ops[slot[c]].unique_id = uid[c]
    BY <1>a, <1>1 DEF SlotInv
  <2>9. ASSUME issued' < id_range' PROVE FreshIds' /\ FreshRequests' /\ FreshMatch'
    <3>1. FreshIds /\ FreshRequests /\ FreshMatch
      BY <1>1, <2>9 DEF Core
    <3>2. FreshIds'
      BY <1>1, <1>2, <3>1 DEF FreshIds
    <3>3. uid[c] # 0 /\ uid[c] <= issued /\ \A k \in Conns : asked[k][uid[c]] = 0
      BY <1>1, <3>1 DEF FreshIds, FreshRequests
    <3>4. \A d \in Calls : d # c => uid[d] # uid[c]
      BY <3>1, <3>3 DEF FreshIds
    <3>5. FreshRequests'
      <4>1. \A k \in Conns, u \in Ids :
              asked'[k][u] > 0 => u # 0 /\ u <= issued' /\ asked'[k][u] = 1
        BY <1>1, <2>2, <3>1, <3>3 DEF FreshRequests
      <4>2. \A k, j \in Conns, u \in Ids : asked'[k][u] > 0 /\ asked'[j][u] > 0 => k = j
        BY <2>2, <2>6, <3>1, <3>3 DEF FreshRequests
      <4>3. ASSUME NEW d \in Calls, NEW k \in Conns,
                   pc'[d] \in {"acquire", "fill", "set_data", "set_uid", "send"}
            PROVE  asked'[k][uid'[d]] = 0
        <5>1. d # c /\ uid[d] \in Ids
          BY <1>2, <1>b, <4>3 DEF CallType
        <5> QED
          BY <1>1, <1>2, <2>2, <3>1, <3>4, <4>3, <5>1 DEF FreshRequests
      <4> QED
        BY <4>1, <4>2, <4>3 DEF FreshRequests
    <3>6. FreshMatch'
      <4> SUFFICES ASSUME NEW k \in Conns, NEW u \in Ids, NEW i \in Slots,
                          Outstanding(k, u)', pending_ops'[i].unique_id = u
                   PROVE  \E d \in Calls : slot'[d] = i /\ uid'[d] = u /\ Awaits(d)'
        BY DEF FreshMatch
      <4>1. CASE Outstanding(k, u)
        BY <1>1, <1>3, <3>1, <4>1 DEF FreshMatch
      <4>2. CASE u = uid[c]
        <5>1. i = slot[c]
          BY <1>1, <2>8, <3>1, <3>3, <4>2 DEF FreshIds
        <5> QED
          BY <1>1, <2>1, <4>2, <5>1
      <4> QED
        BY <2>7, <4>1, <4>2
    <3> QED
      BY <3>2, <3>5, <3>6
  <2>10. ASSUME ~overlapped' PROVE OneAtATime'
    <3>1. OneAtATime
      BY <1>1, <2>10 DEF Core
    <3>2. slot[c] = 1
      BY <1>a, <1>1, <3>1 DEF OneAtATime, SlotInv
    <3>3. \A k \in Conns, u \in Ids : ~Outstanding(k, u)
      BY <1>a, <1>1, <1>3, <3>1, <3>2 DEF OneAtATime, SlotInv
    <3>4. \A k \in Conns, u \in Ids : Outstanding(k, u)' =>
            k = conn /\ u = uid[c] /\ asked'[k][u] = taken'[k][u] + 1
      BY <1>1, <2>2, <2>6, <2>7, <3>3 DEF Outstanding
    <3> QED
      BY <1>1, <2>1, <3>1, <3>2, <3>4 DEF OneAtATime
  <2> QED
    BY <2>4, <2>5, <2>9, <2>10 DEF Core
<1> QED
  BY <1>4, <1>5 DEF send_request

(* The slot that lookup_pending_op finds for an outstanding request is     *)
(* that of the call that made it, although it ignores busy.                *)
LEMMA Match ==
  ASSUME TypeInv, Core, ProperUse, NEW k \in Conns, NEW u \in Ids, Outstanding(k, u),
         NEW i \in lookup_pending_op(u)
  PROVE  \E c \in Calls : slot[c] = i /\ uid[c] = u /\ Awaits(c)
<1>1. i \in Slots /\ pending_ops[i].unique_id = u
      /\ \A j \in 1..(i - 1) : pending_ops[j].unique_id # u
  BY DEF lookup_pending_op
<1>2. CASE issued < id_range
  BY <1>1, <1>2 DEF Core, FreshMatch
<1>3. CASE ~overlapped
  <2>1. PICK c \in Calls : slot[c] = 1 /\ uid[c] = u /\ Awaits(c)
    BY <1>3 DEF Core, OneAtATime
  <2>2. pending_ops[1].unique_id = u
    BY <2>1 DEF Core, SlotInv, Awaits
  <2>3. i = 1
    BY <1>1, <2>2, Constants DEF Slots
  <2> QED
    BY <2>1, <2>3
<1>4. issued < id_range \/ ~overlapped
  BY IdsAreNat DEF ProperUse, IdsReused, TypeInv, TypeParts, CounterType
<1> QED
  BY <1>2, <1>3, <1>4

(* handle_receive_rsp: the call's claim on its answer passes from the slot *)
(* to one receive thread.                                                  *)
LEMMA CoreReceive ==
  ASSUME TypeInv, AskedFirst, Core, ProperUse, NEW k \in Conns, NEW u \in Ids,
         handle_receive_rsp(k, u)
  PROVE  Core'
<1> USE DEF callbackVars, counters, syncVars, service, indVars, history, misuse
<1>a. CallInv /\ SlotInv /\ HoldInv /\ SyncInv
  BY DEF Core
<1>b. CallType /\ SlotType /\ HasSlot /\ NetType /\ RcvType
  BY DEF TypeInv, TypeParts
<1>1. /\ rcv[k].st = "recv" /\ taken[k][u] < answered[k][u]
      /\ UNCHANGED <<pc, ret, uid, asked, callbacks, answers, condition, gaveUp, deadWrite,
                     issued, s_unique_msg_id, id_range, overlapped>>
      /\ \A j \in Conns, v \in Ids :
           taken'[j][v] = IF j = k /\ v = u THEN taken[j][v] + 1 ELSE taken[j][v]
  BY <1>b DEF handle_receive_rsp, Takes, Inbox, NetType
<1>2. \A j \in Conns, v \in Ids : asked[j][v] \in Nat /\ taken[j][v] \in Nat
                                  /\ answered[j][v] \in Nat
  BY <1>b DEF NetType
<1>3. Outstanding(k, u)
  BY <1>1, <1>2 DEF AskedFirst, Outstanding
<1>4. \A j \in Conns, v \in Ids : Outstanding(j, v)' => Outstanding(j, v)
  BY <1>1, <1>2 DEF Outstanding
<1>5. \A c \in Calls : Awaits(c)' <=> Awaits(c)
  BY <1>1 DEF Awaits
<1>6. CASE UNCHANGED <<pending_ops, rcv, slot>>
  <2>1. \A j \in Conns, c \in Calls : Holds(j, c)' <=> Holds(j, c)
    BY <1>6 DEF Holds
  <2>2. CallInv' /\ SlotInv' /\ HoldInv' /\ SyncInv'
    BY <1>a, <1>1, <1>5, <1>6, <2>1 DEF CallInv, SlotInv, HoldInv, SyncInv
  <2>3. ASSUME issued' < id_range' PROVE FreshIds' /\ FreshRequests' /\ FreshMatch'
    BY <1>1, <1>4, <1>5, <1>6, <2>3 DEF Core, FreshIds, FreshRequests, FreshMatch
  <2>4. ASSUME ~overlapped' PROVE OneAtATime'
    <3>1. OneAtATime
      BY <1>1, <2>4 DEF Core
    <3>2. \A j \in Conns, v \in Ids : ~Outstanding(j, v)'
      BY <1>1, <1>2, <1>3, <1>4, <3>1 DEF OneAtATime, Outstanding
    <3> QED
      BY <1>6, <3>1, <3>2 DEF OneAtATime
  <2> QED
    BY <2>2, <2>3, <2>4 DEF Core
<1>7. ASSUME NEW i \in lookup_pending_op(u),
             pending_ops' = [pending_ops EXCEPT ![i].busy = FALSE],
             rcv' = IF pending_ops[i].async_resp_cb = "null" THEN rcv
                    ELSE [rcv EXCEPT ![k] = Receiver("call", u, pending_ops[i].async_resp_cb,
                                                     pending_ops[i].client_data)],
             slot' = [d \in Calls |-> IF slot[d] = i /\ ~Issuing(d) THEN 0 ELSE slot[d]]
      PROVE  Core'
  <2>1. PICK c \in Calls : slot[c] = i /\ uid[c] = u /\ Awaits(c)
    BY <1>3, <1>7, Match
  <2>2. i \in Slots /\ i # 0 /\ pending_ops[i].unique_id = u
    BY <1>7 DEF lookup_pending_op, Slots
  <2>3. /\ ~Issuing(c)
        /\ pc[c] \notin {"idle", "id", "acquire", "fill", "set_data", "set_uid", "send"}
    BY <2>1 DEF Awaits, Issuing
  <2>4. pending_ops[i].client_data = c /\ callbacks[c] = 0
        /\ \A j \in Conns : ~Holds(j, c)
    BY <1>a, <2>1, <2>2, <2>3 DEF SlotInv, CallInv
  <2>5. /\ slot'[c] = 0
        /\ \A d \in Calls : d # c => slot'[d] = slot[d] /\ slot[d] # i
    BY <1>7, <1>a, <2>1, <2>2, <2>3 DEF SlotInv
  <2>6. /\ ~pending_ops'[i].busy
        /\ \A j \in Slots :
             /\ pending_ops'[j].unique_id = pending_ops[j].unique_id
             /\ pending_ops'[j].client_data = pending_ops[j].client_data
             /\ j # i => pending_ops'[j] = pending_ops[j]
    BY <1>7, <1>b, <2>2 DEF SlotType, PendingOp
  <2>7. /\ \A j \in Conns : j # k => rcv'[j] = rcv[j]
        /\ rcv'[k] = rcv[k] \/ (rcv'[k].st = "call" /\ rcv'[k].uid = u /\ rcv'[k].data = c)
    BY <1>7, <1>b, <2>4 DEF RcvType, Receiver
  <2>8. \A j \in Conns, d \in Calls :
          Holds(j, d)' => Holds(j, d) \/ (j = k /\ d = c /\ rcv'[k].st = "call"
                                          /\ rcv'[k].uid = u)
    BY <1>1, <2>7 DEF Holds
  <2>9. CallInv'
    <3>1. \A d \in Calls : pc[d] = "set_uid" => slot[d] \in Slots
      BY <1>b DEF HasSlot, SlotType
    <3> QED
      BY <1>a, <1>1, <2>3, <2>4, <2>5, <2>6, <2>8, <3>1 DEF CallInv
  <2>10. SlotInv'
    <3>1. \A j \in Slots : pending_ops'[j].busy <=> \E d \in Calls : slot'[d] = j
      BY <1>a, <2>1, <2>2, <2>5, <2>6 DEF SlotInv, Slots
    <3>2. \A d, e \in Calls : slot'[d] # 0 /\ slot'[d] = slot'[e] => d = e
      BY <1>a, <2>5 DEF SlotInv
    <3>3. \A d \in Calls : slot'[d] # 0 => d # c /\ slot'[d] = slot[d] /\ slot[d] \in Slots
      BY <1>b, <2>5 DEF SlotType
    <3> QED
      BY <1>a, <1>1, <2>6, <3>1, <3>2, <3>3 DEF SlotInv
  <2>11. HoldInv'
    <3> SUFFICES ASSUME NEW j \in Conns, NEW d \in Calls, Holds(j, d)'
                 PROVE  /\ Awaits(d)' /\ uid'[d] = rcv'[j].uid
                        /\ callbacks'[d] = IF rcv'[j].st = "call" THEN 0 ELSE 1
                        /\ d \in SyncCalls => condition'[d] = 0
                        /\ \A l \in Conns : Holds(l, d)' => l = j
      BY DEF HoldInv
    <3>1. CASE Holds(j, d)
      <4>1. j # k /\ rcv'[j] = rcv[j] /\ d # c
        BY <1>1, <2>4, <2>7, <3>1 DEF Holds
      <4> QED
        BY <1>a, <1>1, <1>5, <2>8, <3>1, <4>1 DEF HoldInv
    <3>2. CASE j = k /\ d = c /\ rcv'[k].st = "call" /\ rcv'[k].uid = u
      <4>1. c \in SyncCalls => condition[c] = 0
        BY <1>a, <2>1, <2>2, NotYetSet
      <4> QED
        BY <1>1, <1>5, <2>1, <2>4, <2>8, <3>2, <4>1
    <3> QED
      BY <2>8, <3>1, <3>2
  <2>12. SyncInv'
    BY <1>a, <1>1 DEF SyncInv
  <2>13. ASSUME issued' < id_range' PROVE FreshIds' /\ FreshRequests' /\ FreshMatch'
    <3>1. FreshIds /\ FreshRequests /\ FreshMatch
      BY <1>1, <2>13 DEF Core
    <3>2. FreshIds' /\ FreshRequests'
      BY <1>1, <2>6, <3>1 DEF FreshIds, FreshRequests
    <3>3. \A j \in Conns : ~Outstanding(j, u)'
      BY <1>1, <1>2, <1>3, <3>1 DEF FreshRequests, Outstanding
    <3>4. FreshMatch'
      <4> SUFFICES ASSUME NEW j \in Conns, NEW v \in Ids, NEW m \in Slots,
                          Outstanding(j, v)', pending_ops'[m].unique_id = v
                   PROVE  \E d \in Calls : slot'[d] = m /\ uid'[d] = v /\ Awaits(d)'
        BY DEF FreshMatch
      <4>1. PICK d \in Calls : slot[d] = m /\ uid[d] = v /\ Awaits(d)
        BY <1>4, <2>6, <3>1 DEF FreshMatch
      <4>2. d # c
        BY <2>1, <3>3, <4>1
      <4> QED
        BY <1>1, <1>5, <2>5, <4>1, <4>2
    <3> QED
      BY <3>2, <3>4
  <2>14. ASSUME ~overlapped' PROVE OneAtATime'
    <3>1. OneAtATime
      BY <1>1, <2>14 DEF Core
    <3>2. \A j \in Conns, v \in Ids : ~Outstanding(j, v)'
      BY <1>1, <1>2, <1>3, <1>4, <3>1 DEF OneAtATime, Outstanding
    <3> QED
      BY <2>6, <3>1, <3>2 DEF OneAtATime
  <2> QED
    BY <2>9, <2>10, <2>11, <2>12, <2>13, <2>14 DEF Core
<1> QED
  BY <1>6, <1>7 DEF handle_receive_rsp

(* A callback is run: the thread had the call, so it is the first time.    *)
LEMMA CoreRan ==
  ASSUME TypeInv, Core, NEW k \in Conns, NEW c \in Calls,
         rcv[k].st = "call", rcv[k].data = c, Ran(k, c),
         UNCHANGED <<pending_ops, slot, uid, counters, asked, taken, condition, gaveUp,
                     issued, overlapped>>,
         deadWrite' \subseteq gaveUp,
         \A j \in Conns : j # k => rcv'[j] = rcv[j],
         \/ rcv'[k] = [rcv[k] EXCEPT !.st = "lock"]
         \/ rcv'[k].st \notin {"call", "lock"},
         \A d \in Calls : \/ pc'[d] = pc[d] /\ ret'[d] = ret[d]
                          \/ pc[d] = "idle" /\ pc'[d] \in {"id", "exit", "done"}
  PROVE  Core'
<1> USE DEF counters
<1>a. CallInv /\ SlotInv /\ HoldInv /\ SyncInv
  BY DEF Core
<1>b. AnswerType /\ RcvType /\ SyncCalls \subseteq Calls
  BY Constants DEF TypeInv, TypeParts
<1>1. Holds(k, c) /\ callbacks[c] = 0 /\ slot[c] = 0 /\ answers[c] = {} /\ Awaits(c)
      /\ rcv[k].uid = uid[c] /\ pc[c] \notin {"idle", "id", "acquire"}
  BY <1>a DEF Holds, HoldInv, CallInv, Awaits
<1>2. /\ callbacks'[c] = 1 /\ answers'[c] = {uid[c]}
      /\ \A d \in Calls : d # c => callbacks'[d] = callbacks[d] /\ answers'[d] = answers[d]
  BY <1>b, <1>1 DEF Ran, AnswerType
<1>3. \A j \in Conns, d \in Calls :
        Holds(j, d)' => Holds(j, d) /\ (rcv'[j] = rcv[j] \/ (j = k /\ d = c))
  BY <1>b, <1>1 DEF Holds, RcvType, Receivers
<1>4. Holds(k, c)' => rcv'[k].st = "lock" /\ rcv'[k].uid = rcv[k].uid
  BY <1>b DEF Holds, RcvType, Receivers
<1>5. \A d \in Calls : Awaits(d) => Awaits(d)'
  BY DEF Awaits
<1>6. CallInv'
  BY <1>a, <1>1, <1>2, <1>3 DEF CallInv
<1>7. SlotInv'
  BY <1>a, <1>1 DEF SlotInv
<1>8. HoldInv'
  <2> SUFFICES ASSUME NEW j \in Conns, NEW d \in Calls, Holds(j, d)'
               PROVE  /\ Awaits(d)' /\ uid'[d] = rcv'[j].uid
                      /\ callbacks'[d] = IF rcv'[j].st = "call" THEN 0 ELSE 1
                      /\ d \in SyncCalls => condition'[d] = 0
                      /\ \A l \in Conns : Holds(l, d)' => l = j
    BY DEF HoldInv
  <2>1. CASE j = k /\ d = c
    BY <1>a, <1>1, <1>2, <1>3, <1>4, <1>5, <2>1 DEF HoldInv
  <2>2. CASE j # k \/ d # c
    <3>1. d # c /\ rcv'[j] = rcv[j]
      BY <1>a, <1>1, <1>3, <2>2 DEF HoldInv
    <3> QED
      BY <1>a, <1>2, <1>3, <1>5, <3>1 DEF HoldInv
  <2> QED
    BY <2>1, <2>2
<1>9. SyncInv'
  BY <1>a, <1>b, <1>2 DEF SyncInv
<1>10. /\ FreshIds => FreshIds'
       /\ FreshRequests => FreshRequests'
       /\ FreshMatch => FreshMatch'
       /\ OneAtATime => OneAtATime'
  BY <1>5, RegimesKept
<1> QED
  BY <1>6, <1>7, <1>8, <1>9, <1>10 DEF Core

(* async_cb: a frame that is gone is that of a call that gave up. *)
LEMMA FrameGone ==
  ASSUME ReturnInv, HoldInv, NEW k \in Conns, NEW c \in SyncCalls, Holds(k, c),
         frame[c] # "alive"
  PROVE  c \in gaveUp
  BY Constants DEF ReturnInv, HoldInv, Awaits

(* async_cb copies the response. *)
LEMMA CoreCopy ==
  ASSUME TypeInv, ReturnInv, Core, NEW k \in Conns, async_cb_copy(k)
  PROVE  Core'
<1> USE DEF context, callVars, syncVars, service, indVars, misuse, counters
<1> DEFINE c == rcv[k].data
<1>a. c \in SyncCalls /\ c \in Calls /\ RcvType
  BY Constants DEF TypeInv, TypeParts, async_cb_copy
<1>b. HoldInv /\ deadWrite \subseteq gaveUp
  BY DEF Core, SyncInv
<1>1. deadWrite' \subseteq gaveUp
  BY <1>a, <1>b, FrameGone DEF async_cb_copy, Holds
<1>2. /\ \A j \in Conns : j # k => rcv'[j] = rcv[j]
      /\ rcv'[k] = [rcv[k] EXCEPT !.st = "lock"]
  BY <1>a DEF async_cb_copy, RcvType
<1>3. rcv[k].st = "call" /\ Ran(k, c)
  BY DEF async_cb_copy
<1> HIDE DEF c
<1> QED
  BY <1>a, <1>1, <1>2, <1>3, CoreRan DEF async_cb_copy, c

(* A callback of the application is run, and may issue a command. *)
LEMMA CoreCallback ==
  ASSUME TypeInv, Core, NEW k \in Conns, invoke_callback(k)
  PROVE  Core'
<1> USE DEF context, service, indVars, misuse, counters
<1> DEFINE c == rcv[k].data
<1>a. c \in Calls \cup {NoCall} /\ RcvType /\ NestedCalls \subseteq Calls
      /\ deadWrite \subseteq gaveUp
  BY Constants DEF TypeInv, TypeParts, RcvType, Receivers, Core, SyncInv
<1>1. /\ \A j \in Conns : j # k => rcv'[j] = rcv[j]
      /\ rcv'[k].st \notin {"call", "lock"}
  BY <1>a DEF invoke_callback, InCallback, Receiving, Receiver, RcvType
<1>2. \A d \in Calls : \/ pc'[d] = pc[d] /\ ret'[d] = ret[d]
                       \/ pc[d] = "idle" /\ pc'[d] \in {"id", "exit", "done"}
  BY <1>a, EntersEffect DEF invoke_callback, InCallback
<1>3. CASE c # NoCall
  <2>1. c \in Calls /\ rcv[k].st = "call" /\ Ran(k, c)
    BY <1>3, <1>a DEF invoke_callback
  <2> HIDE DEF c
  <2> QED
    BY <1>a, <1>1, <1>2, <2>1, CoreRan DEF invoke_callback, c
<1>4. CASE c = NoCall
  <2>1. UNCHANGED <<callbacks, answers>>
    BY <1>4 DEF invoke_callback
  <2>2. \A d \in Calls : Awaits(d) => Awaits(d)'
    BY <1>2 DEF Awaits, invoke_callback
  <2> QED
    BY <1>1, <1>2, <2>1, <2>2, CoreKept DEF invoke_callback
<1> QED
  BY <1>3, <1>4

(* async_cb sets the condition, for a call that is waiting for it or gone. *)
LEMMA CoreLock ==
  ASSUME TypeInv, ReturnInv, Core, NEW k \in Conns, async_cb_lock(k)
  PROVE  Core'
<1> USE DEF context, callVars, service, indVars, misuse, counters
<1> DEFINE c == rcv[k].data
<1>a. c \in SyncCalls /\ c \in Calls /\ RcvType /\ SyncType /\ SyncCalls \subseteq Calls
  BY Constants DEF TypeInv, TypeParts, DataFits, async_cb_lock
<1>b. CallInv /\ SlotInv /\ HoldInv /\ SyncInv
  BY DEF Core
<1>1. Holds(k, c) /\ callbacks[c] = 1
  BY <1>a, <1>b DEF async_cb_lock, Holds, HoldInv
<1>2. /\ UNCHANGED <<pending_ops, pc, ret, uid, slot, asked, taken, callbacks, answers, gaveUp,
                     issued, s_unique_msg_id, id_range, overlapped>>
      /\ \A j \in Conns : rcv'[j] = rcv[j] \/ (j = k /\ rcv'[j].st \notin {"call", "lock"})
      /\ rcv'[k].st \notin {"call", "lock"}
  BY <1>a DEF async_cb_lock, RcvType, Receivers
<1>3. /\ deadWrite' \subseteq gaveUp
      /\ \A d \in SyncCalls : condition'[d] = condition[d] \/ d = c
  BY <1>a, <1>b, <1>1, FrameGone DEF async_cb_lock, SyncInv, SyncType
<1>4. \A j \in Conns, d \in Calls :
        Holds(j, d)' => Holds(j, d) /\ rcv'[j] = rcv[j] /\ d # c
  BY <1>b, <1>1, <1>2 DEF Holds, HoldInv
<1>5. \A d \in Calls : Awaits(d)' <=> Awaits(d)
  BY <1>2 DEF Awaits
<1> HIDE DEF c
<1>6. CallInv' /\ SlotInv'
  BY <1>b, <1>2, <1>4 DEF CallInv, SlotInv
<1>7. HoldInv'
  BY <1>b, <1>2, <1>3, <1>4, <1>5 DEF HoldInv
<1>8. SyncInv'
  BY <1>b, <1>1, <1>2, <1>3 DEF SyncInv
<1>9. /\ FreshIds => FreshIds'
      /\ FreshRequests => FreshRequests'
      /\ FreshMatch => FreshMatch'
      /\ OneAtATime => OneAtATime'
  BY <1>2, <1>5, RegimesKept
<1> QED
  BY <1>2, <1>6, <1>7, <1>8, <1>9 DEF Core

(* The rest of a synchronous call: it leaves with its answer or gives up. *)
LEMMA CoreAwait ==
  ASSUME TypeInv, Core, NEW c \in SyncCalls,
         Await(c) \/ \E spurious \in BOOLEAN : sync_wakes(c, spurious)
  PROVE  Core'
<1> USE DEF context, counters, initVars, syncVars, net, service, indVars, history, misuse
<1>a. CallType /\ SyncType /\ c \in Calls
  BY Constants DEF TypeInv, TypeParts
<1>1. /\ UNCHANGED <<pending_ops, slot, uid, asked, taken, issued, s_unique_msg_id, id_range,
                     callbacks, answers, condition, deadWrite, rcv, overlapped>>
      /\ gaveUp \subseteq gaveUp'
  BY DEF Await, sync_lock_and_test, sync_times_out, sync_exit, sync_wakes
<1>2. /\ \A d \in Calls : d # c => pc'[d] = pc[d] /\ ret'[d] = ret[d]
      /\ \/ pc[c] = "lock" /\ (condition[c] = 1 \/ pc'[c] = "waiting")
                           /\ pc'[c] \in {"waiting", "exit"}
         \/ pc[c] = "waiting" /\ pc'[c] = "exit" /\ (condition[c] = 1 \/ c \in gaveUp')
         \/ pc[c] = "exit" /\ pc'[c] = "done"
  BY <1>a
  DEF Await, sync_lock_and_test, sync_times_out, sync_exit, sync_wakes, Goto, CallType
<1>3. \A d \in Calls : Awaits(d) /\ (d \in SyncCalls => condition[d] = 0) => Awaits(d)'
  BY <1>1, <1>2 DEF Awaits
<1> QED
  BY <1>1, <1>2, <1>3, CoreKept

-----------------------------------------------------------------------------
(* Initially nothing has been asked and no slot was ever used. *)
LEMMA CoreInitial == Init => CoreInv
<1> SUFFICES ASSUME Init PROVE CoreInv
  OBVIOUS
<1>a. \A k \in Conns, c \in Calls : ~Holds(k, c)
  BY DEF Init, Holds, NotStarted, Receiver
<1>b. \A k \in Conns, u \in Ids : asked[k][u] = 0 /\ answered[k][u] = 0 /\ taken[k][u] = 0
  BY DEF Init, Service!Init
<1>1. TypeInv
  BY TypeInit
<1>2. AskedFirst /\ ReturnInv
  BY <1>b, Constants DEF Init, AskedFirst, ReturnInv
<1>3. CallInv /\ SlotInv /\ HoldInv /\ SyncInv
  BY <1>a DEF Init, CallInv, SlotInv, HoldInv, SyncInv, FreeSlot, Slots
<1>4. FreshIds /\ FreshRequests /\ FreshMatch /\ OneAtATime
  BY <1>b DEF Init, FreshIds, FreshRequests, FreshMatch, OneAtATime, Outstanding, FreeSlot
<1> QED
  BY <1>1, <1>2, <1>3, <1>4 DEF CoreInv, Core

(* The invariant is inductive.  Of the 31 actions eleven move a call's claim  *)
(* on its answer; the lemmas above say how.                                *)
LEMMA CoreStep == CoreInv /\ [Next]_vars => CoreInv'
<1> SUFFICES ASSUME CoreInv, [Next]_vars PROVE CoreInv'
  OBVIOUS
<1>a. TypeInv /\ AskedFirst /\ ReturnInv
  BY DEF CoreInv
<1>b. TypeInv' /\ AskedFirst' /\ ReturnInv'
  BY <1>a, TypeStep, AskedFirstStep, ReturnStep
<1> SUFFICES ASSUME ProperUse' PROVE Core'
  BY <1>b DEF CoreInv
<1>c. ProperUse /\ Core
  BY <1>a, ProperUseBefore DEF CoreInv
<1>d. RcvType /\ NestedCalls \subseteq Calls
  BY <1>a, Constants DEF TypeInv, TypeParts
<1> USE DEF context, callbackVars, counters, initVars, callVars, syncVars, service, indVars,
            net, misuse, history
<1>1. CASE uril_client_init
  BY <1>1, <1>a, <1>c, CoreInit
<1>2. ASSUME NEW c \in Calls, Issue(c)
      PROVE  Core'
  BY <1>2, <1>a, <1>c, CoreGen, CoreAcquire, CoreFill, CoreSetUid, CoreSend DEF Issue
<1>3. ASSUME NEW c \in Calls, NEW hndl \in 0..s_unique_handle, NEW req \in BOOLEAN,
             execute_command(c, hndl, req)
      PROVE  Core'
  BY <1>3, <1>a, <1>c, CoreEnters DEF execute_command
<1>4. ASSUME NEW c \in SyncCalls,
             Await(c) \/ \E spurious \in BOOLEAN : sync_wakes(c, spurious)
      PROVE  Core'
  BY <1>4, <1>a, <1>c, CoreAwait
<1>5. ASSUME NEW k \in Conns, NEW u \in Ids, handle_receive_rsp(k, u)
      PROVE  Core'
  BY <1>5, <1>a, <1>c, CoreReceive
<1>6. ASSUME NEW k \in Conns, invoke_callback(k) \/ async_cb_copy(k) \/ async_cb_lock(k)
      PROVE  Core'
  BY <1>6, <1>a, <1>c, CoreCallback, CoreCopy, CoreLock
<1>7. ASSUME NEW k \in Conns, invoke_ind_cb(k)
      PROVE  Core'
  <2>1. \A j \in Conns : rcv'[j] = rcv[j] \/ rcv'[j].st \notin {"call", "lock"}
    BY <1>7, <1>d DEF invoke_ind_cb, InCallback, Receiving, Receiver, RcvType, Receivers
  <2>2. CASE UNCHANGED <<pc, ret, frame>>
    BY <1>7, <1>a, <1>c, <2>1, <2>2, CoreQuiet DEF invoke_ind_cb
  <2>3. ASSUME NEW c \in NestedCalls, NEW hndl, NEW req, Enters(c, hndl, req)
        PROVE  Core'
    BY <1>7, <1>a, <1>c, <1>d, <2>1, <2>3, CoreEnters DEF invoke_ind_cb
  <2> QED
    BY <1>7, <2>2, <2>3 DEF invoke_ind_cb, InCallback
<1>8. ASSUME NEW k \in Conns,
             \/ service_disconnects(k) \/ receive_fails(k) \/ callback_returns(k)
             \/ handle_receive_ind(k) \/ async_cb_stray(k) \/ async_cb_signal(k)
      PROVE  Core'
  <2>1. \A j \in Conns : rcv'[j] = rcv[j] \/ rcv'[j].st \notin {"call", "lock"}
    BY <1>8, <1>d
    DEF service_disconnects, receive_fails, callback_returns, handle_receive_ind,
        async_cb_stray, async_cb_signal, Receiving, Receiver, RcvType, Receivers
  <2>2. UNCHANGED <<pending_ops, callVars, s_unique_msg_id, id_range, asked, taken,
                    callbacks, answers, condition, gaveUp, deadWrite, issued, overlapped>>
    BY <1>8
    DEF service_disconnects, receive_fails, callback_returns, handle_receive_ind,
        async_cb_stray, async_cb_signal, Service!Close
  <2> QED
    BY <1>a, <1>c, <2>1, <2>2, CoreQuiet
<1>9. ASSUME \/ connect_succeeds \/ set_initialized \/ init_returns \/ uril_client_release
             \/ \E ind \in IndCbs, default \in DefaultCbs : set_callbacks(ind, default)
             \/ \E freed \in BOOLEAN : connect_fails(freed)
             \/ \E k \in Conns : service_indicates(k) \/ \E u \in Ids : service_answers(k, u)
             \/ UNCHANGED vars
      PROVE  Core'
  <2>1. \A j \in Conns : rcv'[j] = rcv[j] \/ rcv'[j].st \notin {"call", "lock"}
    BY <1>9, <1>d
    DEF connect_succeeds, set_initialized, init_returns, uril_client_release, set_callbacks,
        connect_fails, service_indicates, service_answers, vars, Receiving, Receiver, RcvType
  <2>2. UNCHANGED <<pending_ops, callVars, s_unique_msg_id, id_range, asked, taken,
                    callbacks, answers, condition, gaveUp, deadWrite, issued, overlapped>>
    <3>1. CASE \E k \in Conns : service_indicates(k) \/ \E u \in Ids : service_answers(k, u)
      BY <3>1 DEF service_indicates, service_answers, Service!Answer
    <3>2. CASE \/ connect_succeeds \/ set_initialized \/ init_returns \/ uril_client_release
               \/ \E ind \in IndCbs, default \in DefaultCbs : set_callbacks(ind, default)
               \/ \E freed \in BOOLEAN : connect_fails(freed)
      BY <3>2
      DEF connect_succeeds, set_initialized, init_returns, uril_client_release,
          set_callbacks, connect_fails
    <3>3. CASE UNCHANGED vars
      BY <3>3 DEF vars
    <3> QED
      BY <1>9, <3>1, <3>2, <3>3
  <2> QED
    BY <1>a, <1>c, <2>1, <2>2, CoreQuiet
<1> QED
  BY <1>1, <1>2, <1>3, <1>4, <1>5, <1>6, <1>7, <1>8, <1>9 DEF Next, Receive

(* The invariant holds of every run of the library. *)
LEMMA CoreAlways == Spec => []CoreInv
  BY CoreInitial, CoreStep, PTL DEF Spec

(* Under proper use a call gets the response with its own id, and once:   *)
(* with any number of connections left by earlier initialisations, slots   *)
(* filled without the mutex and matched without regard to busy (lines      *)
(* 84-107, 281-287), and for a client with one operation at a time even    *)
(* after the counter has come round.                                       *)
THEOREM OwnAnswerOnce == Spec => []OneOwnAnswer
<1>1. CoreInv => OneOwnAnswer
  BY DEF CoreInv, Core, CallInv, OneOwnAnswer
<1> QED
  BY <1>1, CoreAlways, PTL

(* The slots and the open operations are in step (lines 84-95, 128-141,    *)
(* 262-287): no operation is overwritten, and none that can still be       *)
(* answered has lost its slot.                                             *)
THEOREM SlotsAccountedFor == Spec => []SlotAccounting
<1>1. CoreInv => SlotAccounting
  BY DEF CoreInv, Core, CallInv, SlotInv, SlotAccounting
<1> QED
  BY <1>1, CoreAlways, PTL

(* async_cb (lines 304-315) writes into a frame that is gone only for a    *)
(* call that gave up waiting.                                              *)
THEOREM DeadWrites == Spec => []DeadWriteOnlyAfterGiveUp
<1>1. CoreInv => DeadWriteOnlyAfterGiveUp
  BY DEF CoreInv, Core, SyncInv, DeadWriteOnlyAfterGiveUp
<1> QED
  BY <1>1, CoreAlways, PTL

-----------------------------------------------------------------------------
(* A call before its slot is filled.  Nobody knows of it yet. *)
Early(c) == pc[c] \in {"idle", "id", "acquire", "fill", "set_data"}

(* What is handed to receive threads, and set by them, is of calls that    *)
(* have filled a slot, and comes with a response that was taken.  The      *)
(* thread that runs a callback takes none.                                 *)
NestInv ==
  /\ \A i \in Slots, c \in Calls : pending_ops[i].client_data = c => ~Early(c)
  /\ \A k \in Conns, c \in Calls :
       Holds(k, c) => ~Early(c) /\ rcv[k].uid \in Ids /\ taken[k][rcv[k].uid] > 0
  /\ \A c \in SyncCalls : condition[c] = 1 => ~Early(c)
  /\ \A k \in Conns, c \in SyncCalls :
       rcv[k].st = "user" /\ rcv[k].data = c /\ condition[c] = 1
         => \E j \in Conns \ {k}, u \in Ids : taken[j][u] > 0 /\ (ProperUse => u = uid[c])

(* Calls leave the early stage for good, and keep their id from then on. *)
LEMMA LateStaysLate ==
  ASSUME TypeInv, [Next]_vars, NEW c \in Calls, ~Early(c)
  PROVE  ~Early(c)' /\ uid'[c] = uid[c]
<1> USE DEF context, callbackVars, counters, initVars, callVars, syncVars, service, indVars,
            net, misuse, history
<1>a. CallType /\ NestedCalls \subseteq Calls /\ SyncCalls \subseteq Calls
  BY Constants DEF TypeInv, TypeParts
<1>b. ASSUME pc' = pc, uid' = uid
      PROVE  ~Early(c)' /\ uid'[c] = uid[c]
  BY <1>b DEF Early
<1>c. ASSUME NEW d \in Calls, NEW hndl, NEW req, Enters(d, hndl, req), uid' = uid
      PROVE  ~Early(c)' /\ uid'[c] = uid[c]
  BY <1>c, EntersEffect DEF Early
<1>1. ASSUME NEW d \in Calls, Issue(d)
      PROVE  ~Early(c)' /\ uid'[c] = uid[c]
  BY <1>1, <1>a
  DEF Issue, gen_unique_id, acquire_free_op_slot, fill_op, set_op_data, set_op_uid,
      send_request, Goto, Fails, Sent, Early, CallType
<1>2. ASSUME NEW d \in SyncCalls,
             Await(d) \/ \E spurious \in BOOLEAN : sync_wakes(d, spurious)
      PROVE  ~Early(c)' /\ uid'[c] = uid[c]
  BY <1>2, <1>a
  DEF Await, sync_lock_and_test, sync_times_out, sync_exit, sync_wakes, Goto, Early, CallType
<1>3. ASSUME NEW d \in Calls, NEW hndl \in 0..s_unique_handle, NEW req \in BOOLEAN,
             execute_command(d, hndl, req)
      PROVE  ~Early(c)' /\ uid'[c] = uid[c]
  BY <1>3, <1>c DEF execute_command
<1>4. ASSUME NEW k \in Conns, invoke_callback(k) \/ invoke_ind_cb(k)
      PROVE  ~Early(c)' /\ uid'[c] = uid[c]
  BY <1>4, <1>a, <1>b, <1>c DEF invoke_callback, invoke_ind_cb, InCallback
<1>5. ASSUME NEW k \in Conns,
             \/ service_indicates(k) \/ service_disconnects(k) \/ receive_fails(k)
             \/ callback_returns(k) \/ handle_receive_ind(k) \/ async_cb_copy(k)
             \/ async_cb_stray(k) \/ async_cb_lock(k) \/ async_cb_signal(k)
             \/ \E u \in Ids : handle_receive_rsp(k, u) \/ service_answers(k, u)
      PROVE  ~Early(c)' /\ uid'[c] = uid[c]
  BY <1>5, <1>b
  DEF service_indicates, service_disconnects, receive_fails, callback_returns,
      handle_receive_ind, async_cb_copy, async_cb_stray, async_cb_lock, async_cb_signal,
      handle_receive_rsp, service_answers
<1>6. ASSUME \/ uril_client_init \/ connect_succeeds \/ set_initialized \/ init_returns
             \/ uril_client_release
             \/ \E ind \in IndCbs, default \in DefaultCbs : set_callbacks(ind, default)
             \/ \E freed \in BOOLEAN : connect_fails(freed)
      PROVE  ~Early(c)' /\ uid'[c] = uid[c]
  BY <1>6, <1>b
  DEF uril_client_init, connect_succeeds, set_initialized, init_returns, uril_client_release,
      set_callbacks, connect_fails
<1>7. CASE UNCHANGED vars
  BY <1>7, <1>b DEF vars
<1> QED
  BY <1>1, <1>2, <1>3, <1>4, <1>5, <1>6, <1>7 DEF Next, Receive

(* A step that lends no call, enters no callback and sets no condition.    *)
LEMMA NestKept ==
  ASSUME TypeInv, NestInv, [Next]_vars, ProperUse' => ProperUse,
         \A i \in Slots, c \in Calls :
           pending_ops'[i].client_data = c => pending_ops[i].client_data = c \/ ~Early(c)',
         \A k \in Conns : \/ rcv'[k] = rcv[k]
                          \/ /\ rcv'[k].st = "lock" /\ rcv[k].st = "call"
                             /\ rcv'[k].data = rcv[k].data /\ rcv'[k].uid = rcv[k].uid
                          \/ rcv'[k].st \notin {"call", "lock", "user"}
                          \/ /\ rcv'[k].st = "user"
                             /\ \A c \in Calls : rcv'[k].data = c => Early(c),
         condition' = condition, taken' = taken
  PROVE  NestInv'
<1>a. \A c \in Calls : ~Early(c) => ~Early(c)' /\ uid'[c] = uid[c]
  BY LateStaysLate
<1>b. SyncCalls \subseteq Calls
  BY Constants
<1>1. \A i \in Slots, c \in Calls : pending_ops'[i].client_data = c => ~Early(c)'
  BY <1>a DEF NestInv
<1>2. \A k \in Conns, c \in Calls :
        Holds(k, c)' => ~Early(c)' /\ rcv'[k].uid \in Ids /\ taken'[k][rcv'[k].uid] > 0
  BY <1>a DEF NestInv, Holds
<1>3. \A c \in SyncCalls : condition'[c] = 1 => ~Early(c)'
  BY <1>a, <1>b DEF NestInv
<1>4. \A k \in Conns, c \in SyncCalls :
        rcv'[k].st = "user" /\ rcv'[k].data = c /\ condition'[c] = 1
          => \E j \in Conns \ {k}, u \in Ids : taken'[j][u] > 0 /\ (ProperUse' => u = uid'[c])
  BY <1>a, <1>b DEF NestInv
<1> QED
  BY <1>1, <1>2, <1>3, <1>4 DEF NestInv

(* NestInv is inductive, with CoreInv for the ids under proper use. *)
LEMMA NestStep == CoreInv /\ NestInv /\ [Next]_vars => NestInv'
<1> SUFFICES ASSUME CoreInv, NestInv, [Next]_vars PROVE NestInv'
  OBVIOUS
<1> USE DEF context, callbackVars, counters, initVars, callVars, syncVars, service, indVars,
            net, misuse, history
<1>a. TypeInv /\ (ProperUse' => ProperUse)
  BY ProperUseBefore DEF CoreInv
<1>b. /\ CallType /\ SlotType /\ RcvType /\ SyncType /\ NetType /\ DataFits /\ HasSlot
      /\ NestedCalls \subseteq Calls /\ SyncCalls \subseteq Calls /\ NoCall \notin Calls
  BY <1>a, Constants DEF TypeInv, TypeParts
<1>1. ASSUME NEW k \in Conns, NEW u \in Ids, handle_receive_rsp(k, u)
      PROVE  NestInv'
  <2>1. /\ \A j \in Conns, v \in Ids :
             taken'[j][v] = IF j = k /\ v = u THEN taken[j][v] + 1 ELSE taken[j][v]
        /\ condition' = condition /\ rcv[k].st = "recv"
        /\ \A j \in Conns : j # k => rcv'[j] = rcv[j]
        /\ \A i \in Slots : pending_ops'[i].client_data = pending_ops[i].client_data
    <3>1. /\ condition' = condition /\ rcv[k].st = "recv"
          /\ taken' = [taken EXCEPT ![k][u] = @ + 1]
      BY <1>1 DEF handle_receive_rsp, Takes
    <3>2. \A j \in Conns : j # k => rcv'[j] = rcv[j]
      BY <1>1, <1>b DEF handle_receive_rsp, RcvType
    <3>3. \A i \in Slots : pending_ops'[i].client_data = pending_ops[i].client_data
      BY <1>1, <1>b DEF handle_receive_rsp, SlotType, PendingOp
    <3> QED
      BY <1>b, <3>1, <3>2, <3>3 DEF NetType
  <2>2. \/ rcv'[k] = rcv[k]
        \/ /\ rcv'[k].st = "call" /\ rcv'[k].uid = u
           /\ \E i \in Slots : rcv'[k].data = pending_ops[i].client_data
    BY <1>1, <1>b DEF handle_receive_rsp, lookup_pending_op, RcvType, Receiver
  <2>3. \A j \in Conns, v \in Ids : taken[j][v] \in Nat
    BY <1>b DEF NetType
  <2>4. \A c \in Calls : ~Early(c) => ~Early(c)' /\ uid'[c] = uid[c]
    BY <1>a, LateStaysLate
  <2>5. \A j \in Conns, v \in Ids : taken[j][v] > 0 => taken'[j][v] > 0
    BY <2>1, <2>3
  <2>6. taken'[k][u] > 0
    BY <2>1, <2>3
  <2>7. \A i \in Slots, c \in Calls : pending_ops'[i].client_data = c => ~Early(c)'
    BY <2>1, <2>4 DEF NestInv
  <2>8. \A j \in Conns, c \in Calls :
          Holds(j, c)' => ~Early(c)' /\ rcv'[j].uid \in Ids /\ taken'[j][rcv'[j].uid] > 0
    BY <2>1, <2>2, <2>4, <2>5, <2>6 DEF NestInv, Holds
  <2>9. \A c \in SyncCalls : condition'[c] = 1 => ~Early(c)'
    BY <1>b, <2>1, <2>4 DEF NestInv
  <2>10. \A j \in Conns, c \in SyncCalls :
           rcv'[j].st = "user" /\ rcv'[j].data = c /\ condition'[c] = 1
             => \E l \in Conns \ {j}, v \in Ids :
                  taken'[l][v] > 0 /\ (ProperUse' => v = uid'[c])
    BY <1>a, <1>b, <2>1, <2>2, <2>4, <2>5 DEF NestInv
  <2> QED
    BY <2>7, <2>8, <2>9, <2>10 DEF NestInv
<1>2. ASSUME NEW k \in Conns, async_cb_lock(k)
      PROVE  NestInv'
  <2> DEFINE c == rcv[k].data
  <2>1. /\ UNCHANGED <<pending_ops, taken, uid>> /\ ProperUse' = ProperUse
        /\ c \in SyncCalls /\ c \in Calls /\ Holds(k, c)
        /\ \A d \in SyncCalls : condition'[d] = condition[d] \/ d = c
        /\ \A j \in Conns : rcv'[j] = rcv[j] \/ rcv'[j].st \notin {"call", "lock", "user"}
        /\ rcv'[k].st \notin {"call", "lock", "user"}
    BY <1>2, <1>b
    DEF async_cb_lock, DataFits, SyncType, RcvType, Receivers, Holds, ProperUse, IdsReused
  <2>2. ~Early(c) /\ rcv[k].uid \in Ids /\ taken[k][rcv[k].uid] > 0
    BY <2>1 DEF NestInv
  <2>3. ProperUse => rcv[k].uid = uid[c]
    BY <2>1 DEF CoreInv, Core, HoldInv
  <2>4. \A d \in Calls : ~Early(d) => ~Early(d)'
    BY <1>a, LateStaysLate
  <2> HIDE DEF c
  <2>5. \A i \in Slots, d \in Calls : pending_ops'[i].client_data = d => ~Early(d)'
    BY <2>1, <2>4 DEF NestInv
  <2>6. \A j \in Conns, d \in Calls :
          Holds(j, d)' => ~Early(d)' /\ rcv'[j].uid \in Ids /\ taken'[j][rcv'[j].uid] > 0
    BY <2>1, <2>4 DEF NestInv, Holds
  <2>7. \A d \in SyncCalls : condition'[d] = 1 => ~Early(d)'
    BY <1>b, <2>1, <2>2, <2>4 DEF NestInv
  <2>8. ASSUME NEW j \in Conns, NEW d \in SyncCalls,
               rcv'[j].st = "user", rcv'[j].data = d, condition'[d] = 1
        PROVE  \E l \in Conns \ {j}, v \in Ids :
                 taken'[l][v] > 0 /\ (ProperUse' => v = uid'[d])
    <3>1. CASE d = c
      <4>1. j # k
        BY <2>1, <2>8
      <4> QED
        BY <2>1, <2>2, <2>3, <3>1, <4>1
    <3>2. CASE d # c
      BY <2>1, <2>8, <3>2 DEF NestInv
    <3> QED
      BY <3>1, <3>2
  <2> QED
    BY <2>5, <2>6, <2>7, <2>8 DEF NestInv
<1>3. ASSUME NEW c \in Calls, fill_op(c) \/ set_op_data(c)
      PROVE  NestInv'
  <2>1. \A i \in Slots, d \in Calls :
          pending_ops'[i].client_data = d => pending_ops[i].client_data = d \/ ~Early(d)'
    BY <1>3, <1>b
    DEF fill_op, set_op_data, Goto, SlotType, HasSlot, PendingOp, CallType, Early
  <2> QED
    BY <1>3, <1>a, <2>1, NestKept DEF fill_op, set_op_data
<1>4. ASSUME NEW k \in Conns, invoke_callback(k) \/ invoke_ind_cb(k)
      PROVE  NestInv'
  <2>1. ASSUME NEW c \in NestedCalls, NEW hndl, NEW req, Enters(c, hndl, req),
               rcv' = [rcv EXCEPT ![k] = Receiver("user", 0, "null", c)]
        PROVE  NestInv'
    <3>1. Early(c)
      BY <1>a, <1>b, <2>1, EntersEffect DEF Early
    <3>2. \A j \in Conns : \/ rcv'[j] = rcv[j]
                           \/ rcv'[j].st = "user" /\ rcv'[j].data = c
      BY <1>b, <2>1 DEF RcvType, Receiver
    <3> QED
      BY <1>4, <1>a, <3>1, <3>2, NestKept DEF invoke_callback, invoke_ind_cb
  <2>2. ASSUME \/ rcv' = [rcv EXCEPT ![k] = Receiving]
               \/ rcv' = [rcv EXCEPT ![k].st = "crashed"]
        PROVE  NestInv'
    <3>1. \A j \in Conns : rcv'[j] = rcv[j] \/ rcv'[j].st \notin {"call", "lock", "user"}
      BY <1>b, <2>2 DEF RcvType, Receivers, Receiving, Receiver
    <3> QED
      BY <1>4, <1>a, <3>1, NestKept DEF invoke_callback, invoke_ind_cb
  <2> QED
    BY <1>4, <2>1, <2>2 DEF invoke_callback, invoke_ind_cb, InCallback
<1>5. ASSUME NEW k \in Conns, async_cb_copy(k)
      PROVE  NestInv'
  <2>1. \A j \in Conns :
          \/ rcv'[j] = rcv[j]
          \/ /\ rcv'[j].st = "lock" /\ rcv[j].st = "call"
             /\ rcv'[j].data = rcv[j].data /\ rcv'[j].uid = rcv[j].uid
    BY <1>5, <1>b DEF async_cb_copy, RcvType, Receivers
  <2> QED
    BY <1>5, <1>a, <2>1, NestKept DEF async_cb_copy
<1>6. ASSUME NEW k \in Conns,
             \/ service_disconnects(k) \/ receive_fails(k) \/ callback_returns(k)
             \/ handle_receive_ind(k) \/ async_cb_stray(k) \/ async_cb_signal(k)
             \/ service_indicates(k) \/ \E u \in Ids : service_answers(k, u)
      PROVE  NestInv'
  <2>1. \A j \in Conns : rcv'[j] = rcv[j] \/ rcv'[j].st \notin {"call", "lock", "user"}
    BY <1>6, <1>b
    DEF service_disconnects, receive_fails, callback_returns, handle_receive_ind,
        async_cb_stray, async_cb_signal, service_indicates, service_answers, Receiving,
        Receiver, RcvType, Receivers
  <2>2. UNCHANGED <<pending_ops, condition, taken>>
    BY <1>6
    DEF service_disconnects, receive_fails, callback_returns, handle_receive_ind,
        async_cb_stray, async_cb_signal, service_indicates, service_answers
  <2> QED
    BY <1>a, <2>1, <2>2, NestKept
<1>7. ASSUME NEW c \in Calls,
             \/ \E hndl \in 0..s_unique_handle, req \in BOOLEAN : execute_command(c, hndl, req)
             \/ gen_unique_id(c) \/ acquire_free_op_slot(c) \/ set_op_uid(c)
             \/ \E ok \in BOOLEAN : send_request(c, ok)
      PROVE  NestInv'
  <2>1. UNCHANGED <<rcv, condition, taken>>
    BY <1>7
    DEF execute_command, gen_unique_id, acquire_free_op_slot, set_op_uid, send_request
  <2>2. \A i \in Slots : pending_ops'[i].client_data = pending_ops[i].client_data
    <3>1. CASE acquire_free_op_slot(c)
      BY <1>b, <3>1 DEF acquire_free_op_slot, SlotType, PendingOp
    <3>2. CASE set_op_uid(c)
      BY <1>b, <3>2 DEF set_op_uid, SlotType, PendingOp
    <3> QED
      BY <1>7, <3>1, <3>2 DEF execute_command, gen_unique_id, send_request
  <2> QED
    BY <1>a, <2>1, <2>2, NestKept
<1>8. ASSUME NEW c \in SyncCalls,
             Await(c) \/ \E spurious \in BOOLEAN : sync_wakes(c, spurious)
      PROVE  NestInv'
  <2>1. UNCHANGED <<pending_ops, rcv, condition, taken>>
    BY <1>8 DEF Await, sync_lock_and_test, sync_times_out, sync_exit, sync_wakes
  <2> QED
    BY <1>a, <2>1, NestKept
<1>9. CASE uril_client_init
  <2>1. UNCHANGED <<rcv, condition, taken>>
        /\ \A i \in Slots : pending_ops'[i].client_data \notin Calls
    BY <1>9, <1>b DEF uril_client_init, FreeSlot
  <2> QED
    BY <1>a, <2>1, NestKept
<1>10. ASSUME \/ connect_succeeds \/ set_initialized \/ init_returns \/ uril_client_release
              \/ \E ind \in IndCbs, default \in DefaultCbs : set_callbacks(ind, default)
              \/ \E freed \in BOOLEAN : connect_fails(freed)
              \/ UNCHANGED vars
       PROVE  NestInv'
  <2>1. \A j \in Conns : rcv'[j] = rcv[j] \/ rcv'[j].st \notin {"call", "lock", "user"}
    BY <1>10, <1>b
    DEF connect_succeeds, set_initialized, init_returns, uril_client_release, set_callbacks,
        connect_fails, vars, Receiving, Receiver, RcvType
  <2>2. UNCHANGED <<pending_ops, condition, taken>>
    BY <1>10
    DEF connect_succeeds, set_initialized, init_returns, uril_client_release, set_callbacks,
        connect_fails, vars
  <2> QED
    BY <1>a, <2>1, <2>2, NestKept
<1> QED
  BY <1>1, <1>2, <1>3, <1>4, <1>5, <1>6, <1>7, <1>8, <1>9, <1>10 DEF Next, Issue, Receive

(* A synchronous command issued from a callback succeeds only when another *)
(* receive thread took a response, and under proper use its own: the       *)
(* thread it was issued on is in handle_receive_rsp or handle_receive_ind  *)
(* (lines 115 and 148) until the command returns.                          *)
THEOREM NestedNeedsOtherThread == Spec => []NestedSyncNeedsOtherThread
<1>1. Init => NestInv
  BY Constants DEF Init, NestInv, Holds, NotStarted, Receiver, FreeSlot
<1>2. Spec => [](CoreInv /\ NestInv)
  BY <1>1, CoreInitial, CoreStep, NestStep, PTL DEF Spec
<1>3. CoreInv /\ NestInv => NestedSyncNeedsOtherThread
  BY DEF CoreInv, ReturnInv, NestInv, NestedSyncNeedsOtherThread
<1> QED
  BY <1>2, <1>3, PTL

-----------------------------------------------------------------------------
(* What a step may do to one call, in the terms of Commands. *)
CallStep(c) ==
  \/ pc[c] = "idle" /\ pc'[c] # "idle" /\ ret'[c] = ret[c] /\ callbacks'[c] = callbacks[c]
  \/ /\ ret[c] = "none" /\ pc'[c] # "idle" /\ callbacks'[c] = callbacks[c]
     /\ \/ ret'[c] = "ok" /\ pc[c] # "idle" /\ (c \in SyncCalls => callbacks[c] = 1)
        \/ ret'[c] = "fail" /\ (c \notin SyncCalls => callbacks[c] = 0)
  \/ /\ pc[c] # "idle" /\ pc'[c] # "idle" /\ ret'[c] = ret[c]
     /\ callbacks[c] = 0 /\ callbacks'[c] = 1
     /\ c \in SyncCalls \/ ret[c] # "fail"
  \/ (pc'[c] = "idle" <=> pc[c] = "idle") /\ ret'[c] = ret[c] /\ callbacks'[c] = callbacks[c]

(* A call enters the library: it is made, or made and refused. *)
LEMMA EntersIsCallStep ==
  ASSUME TypeInv, ReturnInv, CallInv, NEW c \in Calls, NEW hndl, NEW req,
         Enters(c, hndl, req), NEW d \in Calls, callbacks'[d] = callbacks[d]
  PROVE  CallStep(d)
  BY EntersEffect DEF CallStep, ReturnInv, CallInv

(* Under proper use every step does to every call what Commands allows.    *)
LEMMA CallSteps ==
  ASSUME CoreInv, ProperUse, [Next]_vars, NEW c \in Calls
  PROVE  CallStep(c)
<1> USE DEF context, callbackVars, counters, initVars, callVars, syncVars, service, indVars,
            net, misuse, history
<1>a. TypeInv /\ ReturnInv /\ CallInv /\ SlotInv /\ HoldInv /\ SyncInv
  BY DEF CoreInv, Core
<1>b. /\ CallType /\ SlotType /\ HasSlot /\ RcvType /\ SyncType /\ AnswerType /\ DataFits
      /\ NestedCalls \subseteq Calls /\ SyncCalls \subseteq Calls
  BY <1>a, Constants DEF TypeInv, TypeParts
<1>c. ASSUME UNCHANGED <<pc, ret, callbacks>>
      PROVE  CallStep(c)
  BY <1>c DEF CallStep
<1>1. ASSUME NEW d \in Calls, Issue(d)
      PROVE  CallStep(c)
  <2>1. ASSUME c # d
        PROVE  CallStep(c)
    BY <1>1, <1>b, <2>1
    DEF Issue, gen_unique_id, acquire_free_op_slot, fill_op, set_op_data, set_op_uid,
        send_request, Goto, Fails, Sent, CallStep, CallType
  <2>2. ASSUME c = d, gen_unique_id(d) \/ fill_op(d) \/ set_op_data(d) \/ set_op_uid(d)
        PROVE  CallStep(c)
    BY <1>b, <2>2
    DEF gen_unique_id, fill_op, set_op_data, set_op_uid, Goto, CallStep, CallType
  <2>3. ASSUME c = d, acquire_free_op_slot(d)
        PROVE  CallStep(c)
    BY <1>a, <1>b, <2>3
    DEF acquire_free_op_slot, Goto, Fails, CallStep, CallType, ReturnInv, CallInv
  <2>4. ASSUME c = d, NEW ok \in BOOLEAN, send_request(d, ok)
        PROVE  CallStep(c)
    <3>1. pc[c] = "send" /\ ret[c] = "none" /\ callbacks[c] = 0 /\ callbacks' = callbacks
      BY <1>a, <1>b, <2>4 DEF send_request, ReturnInv, HasSlot, CallInv
    <3>2. \/ pc'[c] = "lock" /\ ret'[c] = ret[c]
          \/ pc'[c] = "done" /\ ret'[c] = "ok" /\ c \notin SyncCalls
          \/ pc'[c] \in {"exit", "done"} /\ ret'[c] = "fail"
      BY <1>b, <2>4 DEF send_request, Sent, Goto, Fails, CallType
    <3> QED
      BY <3>1, <3>2 DEF CallStep
  <2> QED
    BY <1>1, <2>1, <2>2, <2>3, <2>4 DEF Issue
<1>2. ASSUME NEW d \in SyncCalls,
             Await(d) \/ \E spurious \in BOOLEAN : sync_wakes(d, spurious)
      PROVE  CallStep(c)
  <2>1. callbacks' = callbacks /\ \A e \in Calls : e # d => pc'[e] = pc[e] /\ ret'[e] = ret[e]
    BY <1>2, <1>b
    DEF Await, sync_lock_and_test, sync_times_out, sync_exit, sync_wakes, Goto, CallType
  <2>2. /\ pc[d] # "idle" /\ pc'[d] # "idle"
        /\ \/ ret'[d] = ret[d]
           \/ ret[d] = "none" /\ ret'[d] = "ok" /\ condition[d] = 1
           \/ ret[d] = "none" /\ ret'[d] = "fail"
    BY <1>2, <1>a, <1>b
    DEF Await, sync_lock_and_test, sync_times_out, sync_exit, sync_wakes, Goto, CallType,
        ReturnInv
  <2>3. condition[d] = 1 => callbacks[d] = 1
    BY <1>a DEF SyncInv
  <2> QED
    BY <2>1, <2>2, <2>3 DEF CallStep
<1>3. ASSUME NEW d \in Calls, NEW hndl \in 0..s_unique_handle, NEW req \in BOOLEAN,
             execute_command(d, hndl, req)
      PROVE  CallStep(c)
  BY <1>3, <1>a, EntersIsCallStep DEF execute_command
<1>4. ASSUME NEW k \in Conns, NEW d \in Calls, rcv[k].st = "call", rcv[k].data = d, Ran(k, d)
      PROVE  /\ pc[d] # "idle" /\ (d \in SyncCalls \/ ret[d] # "fail")
             /\ callbacks[d] = 0 /\ callbacks'[d] = 1
             /\ \A e \in Calls : e # d => callbacks'[e] = callbacks[e]
  <2>1. Awaits(d) /\ callbacks[d] = 0
    BY <1>4, <1>a DEF HoldInv, Holds
  <2> QED
    BY <1>4, <1>b, <2>1 DEF Awaits, Ran, AnswerType
<1>5. ASSUME NEW k \in Conns, async_cb_copy(k)
      PROVE  CallStep(c)
  <2>1. rcv[k].data \in Calls /\ rcv[k].st = "call" /\ Ran(k, rcv[k].data)
        /\ UNCHANGED <<pc, ret>>
    BY <1>5, <1>b DEF async_cb_copy
  <2> QED
    BY <1>4, <2>1 DEF CallStep
<1>6. ASSUME NEW k \in Conns, invoke_callback(k)
      PROVE  CallStep(c)
  <2> DEFINE d == rcv[k].data
  <2>0. CASE d = NoCall
    BY <1>6, <1>a, <1>b, <1>c, <2>0, EntersIsCallStep DEF invoke_callback, InCallback
  <2> SUFFICES ASSUME d # NoCall PROVE CallStep(c)
    BY <2>0
  <2>1. d \in Calls /\ rcv[k].st = "call" /\ Ran(k, d)
    BY <1>6, <1>b DEF invoke_callback, RcvType, Receivers
  <2>2. /\ pc[d] # "idle" /\ (d \in SyncCalls \/ ret[d] # "fail")
        /\ callbacks[d] = 0 /\ callbacks'[d] = 1
        /\ \A e \in Calls : e # d => callbacks'[e] = callbacks[e]
    BY <1>4, <2>1
  <2> HIDE DEF d
  <2>3. CASE UNCHANGED <<pc, ret>>
    BY <2>1, <2>2, <2>3 DEF CallStep
  <2>4. ASSUME NEW e \in NestedCalls, NEW hndl, NEW req, Enters(e, hndl, req)
        PROVE  CallStep(c)
    <3>1. e \in Calls /\ pc[e] = "idle" /\ e # d
          /\ \A b \in Calls : b # e => pc'[b] = pc[b] /\ ret'[b] = ret[b]
      BY <1>a, <1>b, <2>2, <2>4, EntersEffect
    <3>2. CASE c = d
      BY <2>1, <2>2, <3>1, <3>2 DEF CallStep
    <3>3. CASE c # d
      BY <1>a, <2>2, <2>4, <3>1, <3>3, EntersIsCallStep
    <3> QED
      BY <3>2, <3>3
  <2> QED
    BY <1>6, <2>3, <2>4 DEF invoke_callback, InCallback
<1>7. ASSUME NEW k \in Conns, invoke_ind_cb(k)
      PROVE  CallStep(c)
  BY <1>7, <1>a, <1>b, <1>c, EntersIsCallStep DEF invoke_ind_cb, InCallback
<1>8. ASSUME NEW k \in Conns,
             \/ service_indicates(k) \/ service_disconnects(k) \/ receive_fails(k)
             \/ callback_returns(k) \/ handle_receive_ind(k) \/ async_cb_stray(k)
             \/ async_cb_lock(k) \/ async_cb_signal(k)
             \/ \E u \in Ids : handle_receive_rsp(k, u) \/ service_answers(k, u)
      PROVE  CallStep(c)
  BY <1>8, <1>c
  DEF service_indicates, service_disconnects, receive_fails, callback_returns,
      handle_receive_ind, async_cb_stray, async_cb_lock, async_cb_signal,
      handle_receive_rsp, service_answers
<1>9. ASSUME \/ uril_client_init \/ connect_succeeds \/ set_initialized \/ init_returns
             \/ uril_client_release
             \/ \E ind \in IndCbs, default \in DefaultCbs : set_callbacks(ind, default)
             \/ \E freed \in BOOLEAN : connect_fails(freed)
      PROVE  CallStep(c)
  BY <1>9, <1>c
  DEF uril_client_init, connect_succeeds, set_initialized, init_returns, uril_client_release,
      set_callbacks, connect_fails
<1>10. CASE UNCHANGED vars
  BY <1>10, <1>c DEF vars
<1> QED
  BY <1>1, <1>2, <1>3, <1>5, <1>6, <1>7, <1>8, <1>9, <1>10 DEF Next, Receive

(* Every step of the library is a step of Commands. *)
LEMMA PromiseStep == CoreInv /\ [Next]_vars => Promise!Next
<1> SUFFICES ASSUME CoreInv, [Next]_vars, ProperUse'
             PROVE  \A c \in Calls : \/ Promise!Make(c) \/ Promise!Return(c)
                                     \/ Promise!Tell(c) \/ Promise!Rest(c)
  BY DEF Promise!Next
<1>1. ProperUse
  BY ProperUseBefore DEF CoreInv
<1>2. TAKE c \in Calls
<1>3. CallStep(c)
  BY <1>1, CallSteps
<1>4. CASE /\ pc[c] = "idle" /\ pc'[c] # "idle" /\ ret'[c] = ret[c]
           /\ callbacks'[c] = callbacks[c]
  BY <1>4 DEF Promise!Make
<1>5. CASE /\ ret[c] = "none" /\ pc'[c] # "idle" /\ callbacks'[c] = callbacks[c]
           /\ \/ ret'[c] = "ok" /\ pc[c] # "idle" /\ (c \in SyncCalls => callbacks[c] = 1)
              \/ ret'[c] = "fail" /\ (c \notin SyncCalls => callbacks[c] = 0)
  BY <1>5 DEF Promise!Return
<1>6. CASE /\ pc[c] # "idle" /\ pc'[c] # "idle" /\ ret'[c] = ret[c]
           /\ callbacks[c] = 0 /\ callbacks'[c] = 1
           /\ c \in SyncCalls \/ ret[c] # "fail"
  BY <1>6 DEF Promise!Tell
<1>7. CASE /\ (pc'[c] = "idle" <=> pc[c] = "idle") /\ ret'[c] = ret[c]
           /\ callbacks'[c] = callbacks[c]
  BY <1>7 DEF Promise!Rest
<1> QED
  BY <1>3, <1>4, <1>5, <1>6, <1>7 DEF CallStep

(* The library implements Commands: the callback of a properly used client *)
(* runs at most once, never for an asynchronous command that has failed,   *)
(* and before a synchronous one returns success (lines 148-152, 302,       *)
(* 355-372).                                                               *)
THEOREM PromiseKept == Spec => CommandsKept
<1>1. Init => Promise!Init
  <2> SUFFICES ASSUME Init PROVE Promise!Init
    OBVIOUS
  <2>1. ProperUse
    BY IdsAreNat DEF Init, ProperUse, IdsReused
  <2> QED
    BY <2>1 DEF Init, Promise!Init
<1>2. CoreInv /\ [Next]_vars => [Promise!Next]_Promise!vars
  BY PromiseStep
<1> QED
  BY <1>1, <1>2, CoreAlways, PTL DEF Spec, CommandsKept, Promise!Spec
=============================================================================
