----------------------------- MODULE UrilClient -----------------------------
(***************************************************************************)
(* client/src/uril_client.c with its socket connector: the client library. *)
(*                                                                         *)
(* Any number of application threads issue commands, asynchronously (a     *)
(* callback is invoked later) or synchronously (the thread waits on a      *)
(* condition variable in its own stack frame, with a timeout).  Every      *)
(* connection has a receive thread that matches responses with the         *)
(* pending operations and runs the callbacks.  One thread initialises and  *)
(* releases the library.                                                   *)
(*                                                                         *)
(* One action is one stretch of code between two points at which another   *)
(* thread can observe the difference.  The three static mutexes all name   *)
(* one pthread mutex and protect short sections, each one action here.     *)
(*                                                                         *)
(* The service is the environment, as UrilService specifies it: it answers *)
(* a request at most once, on the connection the request came on.  That    *)
(* MessageTracker keeps that promise, as long as it does not send on a     *)
(* connection it has deleted, is checked there.                            *)
(*                                                                         *)
(* The contents of requests are left out: every request fits the payload   *)
(* it is copied into (line 265 does not check that it does).               *)
(***************************************************************************)
EXTENDS Naturals, FiniteSets

CONSTANTS
  Calls,           \* the commands the application issues, one thread each
  SyncCalls,       \* those issued with uril_client_execute_command_sync
  DefaultCalls,    \* asynchronous ones without a callback of their own
  NestedCalls,     \* those a callback may issue, on the receive thread
  IndCbs,          \* whether init is given an ind_cb: a set of Booleans
  DefaultCbs,      \* whether it is given a default_resp_cb: a set of Booleans
  NoCall,          \* NULL client data
  MaxPendingOps,   \* URIL_MAX_PENDING_OPS, 16 in the code
  ConnectAttempts, \* URIL_CONNECT_ATTEMPTS_COUNT, 20 in the code
  IdRanges,        \* how many ids there may be: {2^32}, the range of a uint32_t
  MaxInits,        \* bound: calls of uril_client_init that connect
  MaxInds          \* bound: indications the service sends

Ids == UNION {0..(n - 1) : n \in IdRanges}
Slots == 1..MaxPendingOps
Conns == 1..MaxInits

ASSUME ConstantsAssumption ==
  /\ IsFiniteSet(Calls)
  /\ SyncCalls \subseteq Calls
  /\ DefaultCalls \subseteq Calls \ SyncCalls
  /\ NestedCalls \subseteq Calls
  /\ IndCbs \subseteq BOOLEAN /\ DefaultCbs \subseteq BOOLEAN
  /\ NoCall \notin Calls
  /\ IdRanges \subseteq Nat \ {0} /\ IdRanges # {}
  /\ MaxInds \in Nat
  /\ MaxPendingOps \in Nat \ {0}
  /\ ConnectAttempts \in Nat \ {0}
  /\ MaxInits \in Nat \ {0}

VARIABLES
  \* the context (uril_cli_ctx_t) and the counters
  initialized, handle, ind_cb, default_async_cb,
  pending_ops,       \* [Slots -> [busy, unique_id, client_data, async_resp_cb]]
  s_unique_msg_id, s_unique_handle,
  id_range,          \* how many ids there are, fixed from the start
  \* uril_client_init
  ipc,               \* how far uril_client_init is, or "idle"
  attempts,          \* failed connection attempts of the last initialisation
  conn,              \* connector->ctx: the newest connection, 0 before the first
  ctxFreed,          \* connector->ctx was freed by a failed attempt after that
  \* the application threads
  pc, ret,           \* [Calls -> where the thread is / what the call returned]
  uid,               \* [Calls -> msg.unique_id, 0 before it has one]
  slot,              \* [Calls -> the slot op points to; 0 before, and once sent and freed]
  frame,             \* [SyncCalls -> "none", "alive" or "dead"]: the stack frame
  condition,         \* [SyncCalls -> params.condition]
  signalled,         \* [SyncCalls -> the condition variable has been signalled]
  locked,            \* [SyncCalls -> sync_mutex is held by the waiting thread]
  \* the connections and their receive threads
  asked, answered,   \* what UrilService keeps: requests and responses by id
  taken,             \* [Conns -> [Ids -> responses read from the socket]]
  raised, inds,      \* indications sent, and those under way on a connection
  rcv,               \* [Conns -> state of the receive thread]
  \* history, read by the properties only
  callbacks,         \* [Calls -> times the callback ran for the call]
  answers,           \* [Calls -> ids of the responses handed to the call]
  gaveUp,            \* synchronous calls that returned without their answer
  deadWrite,         \* calls whose frame was written after it was gone
  deadSignal,        \* calls whose condition was signalled after it was destroyed
  wiped,             \* calls whose operation was cleared with the context
  crossed,           \* the context was cleared while a command was being issued
  issued,            \* ids given out
  overlapped,        \* a command was issued, or init called, with a slot busy
  indRace,           \* ind_cb was cleared between its test and its call
  indLate            \* ind_cb was called, or NULL was, with ind_cb cleared

callbackVars == <<ind_cb, default_async_cb>>
context == <<initialized, handle, callbackVars, pending_ops>>
counters == <<s_unique_msg_id, s_unique_handle, id_range>>
initVars == <<ipc, attempts, conn, ctxFreed>>
callVars == <<pc, ret, uid, slot>>
syncVars == <<frame, condition, signalled, locked>>
service == <<asked, answered>>
indVars == <<raised, inds>>
net == <<service, taken, indVars, rcv>>
misuse == <<wiped, crossed, issued, overlapped, indRace, indLate>>
history == <<callbacks, answers, gaveUp, deadWrite, deadSignal, misuse>>
vars == <<context, counters, initVars, callVars, syncVars, net, history>>

FreeSlot == [busy |-> FALSE, unique_id |-> 0, client_data |-> NoCall,
             async_resp_cb |-> "null"]
PendingOp == [busy : BOOLEAN, unique_id : Ids, client_data : Calls \cup {NoCall},
              async_resp_cb : {"null", "user", "default", "async_cb"}]

(* A receive thread: not started, in recv, with an operation it has looked *)
(* up ("call", then for async_cb "lock" and "signal"), with an ind_cb it   *)
(* has tested ("ind"), in a callback that issues a command ("user"),       *)
(* blocked for good, or in a call through NULL ("crashed").                *)
Receiver(st, u, cb, data) == [st |-> st, uid |-> u, cb |-> cb, data |-> data]
NotStarted == Receiver("none", 0, "null", NoCall)
Receiving == Receiver("recv", 0, "null", NoCall)

(* The service, as far as the library can tell: a connection it has closed *)
(* is one whose receive thread has ended.                                  *)
Service == INSTANCE UrilService WITH
  Connections <- Conns, closed <- {k \in Conns : rcv[k].st = "ended"}, void <- {}

(* Responses with id u that connection k has for its receive thread. *)
Inbox(k) == {u \in Ids : taken[k][u] < answered[k][u]}

(* A command is being issued: past the checks and not yet sent. *)
Issuing(c) == pc[c] \in {"id", "acquire", "fill", "set_data", "set_uid", "send"}

Init ==
  /\ initialized = FALSE /\ handle = 0 /\ ind_cb = FALSE /\ default_async_cb = FALSE
  /\ pending_ops = [i \in Slots |-> FreeSlot]
  /\ s_unique_msg_id = 0 /\ s_unique_handle = 0 /\ id_range \in IdRanges
  /\ ipc = "idle" /\ attempts = 0 /\ conn = 0 /\ ctxFreed = FALSE
  /\ pc = [c \in Calls |-> "idle"] /\ ret = [c \in Calls |-> "none"]
  /\ uid = [c \in Calls |-> 0] /\ slot = [c \in Calls |-> 0]
  /\ frame = [c \in SyncCalls |-> "none"]
  /\ condition = [c \in SyncCalls |-> 0]
  /\ signalled = [c \in SyncCalls |-> FALSE]
  /\ locked = [c \in SyncCalls |-> FALSE]
  /\ rcv = [k \in Conns |-> NotStarted]
  /\ Service!Init
  /\ taken = [k \in Conns |-> [u \in Ids |-> 0]]
  /\ raised = 0 /\ inds = [k \in Conns |-> 0]
  /\ callbacks = [c \in Calls |-> 0] /\ answers = [c \in Calls |-> {}]
  /\ gaveUp = {} /\ deadWrite = {} /\ deadSignal = {}
  /\ wiped = {} /\ crossed = FALSE /\ issued = 0 /\ overlapped = FALSE
  /\ indRace = FALSE /\ indLate = FALSE

-----------------------------------------------------------------------------
(* A receive thread is between the test of ind_cb and the call. *)
TestedIndCb == \E k \in Conns : rcv[k].st = "ind"

(* uril_client_init clears the whole context, whoever is using it ...      *)
uril_client_init ==
  /\ ipc = "idle"
  /\ conn < MaxInits
  /\ ipc' = "cleared"
  /\ initialized' = FALSE /\ handle' = 0
  /\ ind_cb' = FALSE /\ default_async_cb' = FALSE
  /\ pending_ops' = [i \in Slots |-> FreeSlot]
  /\ slot' = [c \in Calls |-> IF Issuing(c) THEN slot[c] ELSE 0]
  /\ wiped' = wiped \cup {c \in Calls : slot[c] # 0}
  /\ crossed' = (crossed \/ \E c \in Calls : Issuing(c))
  /\ overlapped' = (overlapped \/ \E i \in Slots : pending_ops[i].busy)
  /\ indRace' = (indRace \/ TestedIndCb)
  /\ UNCHANGED <<counters, attempts, conn, ctxFreed, pc, ret, uid, syncVars, net,
                 callbacks, answers, gaveUp, deadWrite, deadSignal, issued, indLate>>

(* ... then stores the two callbacks, either of which may be NULL.         *)
set_callbacks(ind, default) ==
  /\ ipc = "cleared"
  /\ ipc' = "connecting"
  /\ attempts' = 0
  /\ ind_cb' = ind /\ default_async_cb' = default
  /\ UNCHANGED <<initialized, handle, pending_ops, counters, conn, ctxFreed, callVars,
                 syncVars, net, history>>

(* Mutant: one attempt too many. *)
connect_fails_OneMore(freed) ==
  /\ ipc = "connecting"
  /\ attempts' = attempts + 1
  /\ ipc' = IF attempts' > ConnectAttempts THEN "idle" ELSE "connecting"
  /\ ctxFreed' = (ctxFreed \/ freed)
  /\ UNCHANGED <<context, counters, conn, callVars, syncVars, net, history>>

(* A connection attempt fails; the last one makes init return -1.  Unless *)
(* there was no socket or no memory, the attempt has stored a ctx of its   *)
(* own in the connector and freed it again.                                *)
connect_fails(freed) ==
  /\ ipc = "connecting"
  /\ attempts' = attempts + 1
  /\ ipc' = IF attempts' = ConnectAttempts THEN "idle" ELSE "connecting"
  /\ ctxFreed' = (ctxFreed \/ freed)
  /\ UNCHANGED <<context, counters, conn, callVars, syncVars, net, history>>

(* The attempt that succeeds starts the receive thread of a new            *)
(* connection.  The old connection and its thread, if any, live on.        *)
connect_succeeds ==
  /\ ipc = "connecting"
  /\ ipc' = "connected"
  /\ attempts' = 0
  /\ conn' = conn + 1 /\ ctxFreed' = FALSE
  /\ rcv' = [rcv EXCEPT ![conn + 1] = Receiving]
  /\ UNCHANGED <<context, counters, callVars, syncVars, service, taken, indVars, history>>

(* Only then is the library marked initialised, for now with handle 0 ...  *)
set_initialized ==
  /\ ipc = "connected"
  /\ ipc' = "marked"
  /\ initialized' = TRUE
  /\ UNCHANGED <<handle, callbackVars, pending_ops, counters, attempts, conn, ctxFreed,
                 callVars, syncVars, net, history>>

(* ... and a new handle given out. *)
init_returns ==
  /\ ipc = "marked"
  /\ ipc' = "idle"
  /\ s_unique_handle' = s_unique_handle + 1
  /\ handle' = s_unique_handle + 1
  /\ UNCHANGED <<initialized, callbackVars, pending_ops, s_unique_msg_id, id_range, attempts,
                 conn, ctxFreed, callVars, syncVars, net, history>>

(* uril_client_release: three fields are cleared, nothing is disconnected. *)
uril_client_release ==
  /\ initialized
  /\ initialized' = FALSE
  /\ ind_cb' = FALSE /\ default_async_cb' = FALSE
  /\ indRace' = (indRace \/ TestedIndCb)
  /\ UNCHANGED <<handle, pending_ops, counters, initVars, callVars, syncVars, net,
                 callbacks, answers, gaveUp, deadWrite, deadSignal, wiped, crossed, issued,
                 overlapped, indLate>>

-----------------------------------------------------------------------------
(* A synchronous call that fails on its way leaves through EXIT. *)
Fails(c) ==
  /\ ret' = [ret EXCEPT ![c] = "fail"]
  /\ pc' = [pc EXCEPT ![c] = IF c \in SyncCalls THEN "exit" ELSE "done"]

Goto(c, there) ==
  /\ pc' = [pc EXCEPT ![c] = there]
  /\ UNCHANGED ret

(* The call enters the library with a handle that was given out at some    *)
(* time, or 0, with or without a request structure (the NO_PAYLOAD macros  *)
(* pass NULL).                                                             *)
Enters(c, hndl, req) ==
  /\ pc[c] = "idle"
  /\ \/ initialized /\ hndl = handle /\ req /\ Goto(c, "id")
     \/ ~(initialized /\ hndl = handle /\ req) /\ Fails(c)
  /\ frame' = [d \in SyncCalls |-> IF d = c THEN "alive" ELSE frame[d]]

(* A thread of the application issues the command. *)
execute_command(c, hndl, req) ==
  /\ Enters(c, hndl, req)
  /\ UNCHANGED <<context, counters, initVars, uid, slot, condition, signalled,
                 locked, net, history>>

(* Mutant: the counter is read and never written back. *)
gen_unique_id_Constant(c) ==
  /\ pc[c] = "id"
  /\ uid' = [uid EXCEPT ![c] = (s_unique_msg_id + 1) % id_range]
  /\ issued' = issued + 1
  /\ Goto(c, "acquire")
  /\ UNCHANGED <<context, counters, initVars, slot, syncVars, net, callbacks, answers,
                 gaveUp, deadWrite, deadSignal, wiped, crossed, overlapped, indRace, indLate>>

(* The counter is a uint32_t: after its last value comes 0, which is also  *)
(* the id of every slot that was never used.                               *)
gen_unique_id(c) ==
  /\ pc[c] = "id"
  /\ s_unique_msg_id' = (s_unique_msg_id + 1) % id_range
  /\ uid' = [uid EXCEPT ![c] = s_unique_msg_id']
  /\ issued' = issued + 1
  /\ Goto(c, "acquire")
  /\ UNCHANGED <<context, s_unique_handle, id_range, initVars, slot, syncVars, net,
                 callbacks, answers, gaveUp, deadWrite, deadSignal, wiped, crossed, overlapped,
                 indRace, indLate>>

(* The first slot that is not busy. *)
FirstFree(i) ==
  /\ ~pending_ops[i].busy
  /\ \A j \in 1..(i - 1) : pending_ops[j].busy

acquire_free_op_slot(c) ==
  /\ pc[c] = "acquire"
  /\ \/ \E i \in Slots :
          /\ FirstFree(i)
          /\ pending_ops' = [pending_ops EXCEPT ![i].busy = TRUE]
          /\ slot' = [slot EXCEPT ![c] = i]
          /\ Goto(c, "fill")
     \/ /\ \A i \in Slots : pending_ops[i].busy
        /\ Fails(c)
        /\ UNCHANGED <<pending_ops, slot>>
  /\ overlapped' = (overlapped \/ \E i \in Slots : pending_ops[i].busy)
  /\ UNCHANGED <<initialized, handle, callbackVars, counters, initVars, uid, syncVars,
                 net, callbacks, answers, gaveUp, deadWrite, deadSignal, wiped, crossed, issued,
                 indRace, indLate>>

(* The callback a call registers.  The default one is read from the        *)
(* context, where a release may have cleared it.                           *)
CallbackOf(c) ==
  IF c \in SyncCalls THEN "async_cb"
  ELSE IF c \notin DefaultCalls THEN "user"
  ELSE IF default_async_cb THEN "default" ELSE "null"

(* The slot is filled without the mutex: the callback first ...            *)
fill_op(c) ==
  /\ pc[c] = "fill"
  /\ pending_ops' = [pending_ops EXCEPT ![slot[c]].async_resp_cb = CallbackOf(c)]
  /\ Goto(c, "set_data")
  /\ UNCHANGED <<initialized, handle, callbackVars, counters, initVars, uid,
                 slot, syncVars, net, history>>

(* ... the client data next ... *)
set_op_data(c) ==
  /\ pc[c] = "set_data"
  /\ pending_ops' = [pending_ops EXCEPT ![slot[c]].client_data = c]
  /\ Goto(c, "set_uid")
  /\ UNCHANGED <<initialized, handle, callbackVars, counters, initVars, uid,
                 slot, syncVars, net, history>>

(* ... and last the id it is looked up by. *)
set_op_uid(c) ==
  /\ pc[c] = "set_uid"
  /\ pending_ops' = [pending_ops EXCEPT ![slot[c]].unique_id = uid[c]]
  /\ Goto(c, "send")
  /\ UNCHANGED <<initialized, handle, callbackVars, counters, initVars, uid,
                 slot, syncVars, net, history>>

Sent(c) ==
  IF c \in SyncCalls
  THEN Goto(c, "lock")
  ELSE pc' = [pc EXCEPT ![c] = "done"] /\ ret' = [ret EXCEPT ![c] = "ok"]

(* Mutant: an error is reported although the message has gone out. *)
send_request_FailsLate(c, ok) ==
  /\ pc[c] = "send"
  /\ IF ok THEN Sent(c) ELSE Fails(c)
  /\ UNCHANGED <<context, counters, initVars, uid, slot, syncVars, taken, indVars, rcv,
                 history>>
  /\ Service!Ask(conn, uid[c])

(* The send, on the newest connection.  It fails when the socket buffer is *)
(* full (MSG_DONTWAIT) or the service has gone; the slot stays busy.  With *)
(* a connector->ctx that is freed memory, the send reports success or      *)
(* failure and the service gets nothing.                                   *)
send_request(c, ok) ==
  /\ pc[c] = "send"
  /\ UNCHANGED <<context, counters, initVars, uid, slot, syncVars, taken, indVars, rcv,
                 history>>
  /\ \/ /\ ok
        /\ \/ ~ctxFreed /\ Service!Ask(conn, uid[c])
           \/ ctxFreed /\ UNCHANGED service
        /\ Sent(c)
     \/ ~ok /\ Fails(c) /\ UNCHANGED service

-----------------------------------------------------------------------------
(* The rest of uril_client_execute_command_sync.  The mutex is held from   *)
(* the lock to the wait, so test and wait are one step.                    *)
sync_lock_and_test(c) ==
  /\ pc[c] = "lock"
  /\ IF condition[c] = 1
     THEN ret' = [ret EXCEPT ![c] = "ok"] /\ pc' = [pc EXCEPT ![c] = "exit"]
     ELSE Goto(c, "waiting")
  /\ UNCHANGED <<context, counters, initVars, uid, slot, syncVars, net, history>>

(* Mutant: a wake-up is taken for the answer. *)
sync_wakes_NoTest(c, spurious) ==
  /\ pc[c] = "waiting"
  /\ spurious \/ signalled[c]
  /\ ret' = [ret EXCEPT ![c] = "ok"]
  /\ pc' = [pc EXCEPT ![c] = "exit"]
  /\ UNCHANGED <<context, counters, initVars, uid, slot, syncVars, net, history>>

(* timedwait returns 0: signalled, or spuriously.  There is no loop around *)
(* it; the condition decides what the call returns.                        *)
sync_wakes(c, spurious) ==
  /\ pc[c] = "waiting"
  /\ spurious \/ signalled[c]
  /\ ret' = [ret EXCEPT ![c] = IF condition[c] = 1 THEN "ok" ELSE "fail"]
  /\ pc' = [pc EXCEPT ![c] = "exit"]
  /\ gaveUp' = IF condition[c] = 1 THEN gaveUp ELSE gaveUp \cup {c}
  /\ UNCHANGED <<context, counters, initVars, uid, slot, syncVars, net, callbacks,
                 answers, deadWrite, deadSignal, misuse>>

(* Mutant: the wait has no timeout. *)
sync_times_out_Never(c) ==
  /\ pc[c] = "waiting"
  /\ FALSE
  /\ UNCHANGED vars

(* timedwait times out, whatever the condition is by then: the call fails *)
(* and goes to EXIT with the mutex locked.                                 *)
sync_times_out(c) ==
  /\ pc[c] = "waiting"
  /\ ret' = [ret EXCEPT ![c] = "fail"]
  /\ pc' = [pc EXCEPT ![c] = "exit"]
  /\ locked' = [locked EXCEPT ![c] = TRUE]
  /\ gaveUp' = gaveUp \cup {c}
  /\ UNCHANGED <<context, counters, initVars, uid, slot, frame, condition,
                 signalled, net, callbacks, answers, deadWrite, deadSignal, misuse>>

(* EXIT: condition and mutex are destroyed and freed, the frame is gone. *)
sync_exit(c) ==
  /\ pc[c] = "exit"
  /\ pc' = [pc EXCEPT ![c] = "done"]
  /\ frame' = [frame EXCEPT ![c] = "dead"]
  /\ UNCHANGED <<context, counters, initVars, ret, uid, slot, condition, signalled,
                 locked, net, history>>

-----------------------------------------------------------------------------
(* The service answers a request, or never does. *)
service_answers(k, u) ==
  /\ UNCHANGED <<context, counters, initVars, callVars, syncVars, taken, indVars, rcv,
                 history>>
  /\ Service!Answer(k, u)

service_indicates(k) ==
  /\ rcv[k].st \notin {"none", "ended"}
  /\ raised < MaxInds
  /\ raised' = raised + 1
  /\ inds' = [inds EXCEPT ![k] = @ + 1]
  /\ UNCHANGED <<context, counters, initVars, callVars, syncVars, service, taken, rcv,
                 history>>

(* The service closes connection k: receive_routine tells the library,     *)
(* which does nothing, and ends.  What was still to be answered never is.  *)
service_disconnects(k) ==
  /\ rcv[k].st = "recv"
  /\ Inbox(k) = {} /\ inds[k] = 0
  /\ rcv' = [rcv EXCEPT ![k] = Receiver("ended", 0, "null", NoCall)]
  /\ Service!Close(k)
  /\ UNCHANGED <<context, counters, initVars, callVars, syncVars, taken, indVars, history>>

(* recv fails, an interrupted one included: the thread ends and tells      *)
(* nobody.  The socket stays open, so requests still go out.               *)
receive_fails(k) ==
  /\ rcv[k].st = "recv"
  /\ rcv' = [rcv EXCEPT ![k].st = "failed"]
  /\ UNCHANGED <<context, counters, initVars, callVars, syncVars, service, taken, indVars,
                 history>>

(* Mutant: the last slot is never looked at. *)
lookup_pending_op_SkipsLast(u) ==
  {i \in Slots \ {MaxPendingOps} :
     /\ pending_ops[i].unique_id = u
     /\ \A j \in 1..(i - 1) : pending_ops[j].unique_id # u}

(* The first slot with the id, busy or not. *)
lookup_pending_op(u) ==
  {i \in Slots : /\ pending_ops[i].unique_id = u
                 /\ \A j \in 1..(i - 1) : pending_ops[j].unique_id # u}

(* recv of a response on connection k. *)
Takes(k, u) ==
  /\ rcv[k].st = "recv"
  /\ u \in Inbox(k)
  /\ taken' = [taken EXCEPT ![k][u] = @ + 1]

(* Mutant: the slot stays busy. *)
handle_receive_rsp_KeepsBusy(k, u) ==
  /\ Takes(k, u)
  /\ \E i \in lookup_pending_op(u) :
       /\ rcv' = [rcv EXCEPT ![k] = Receiver("call", u, pending_ops[i].async_resp_cb,
                                             pending_ops[i].client_data)]
       /\ slot' = [c \in Calls |-> IF slot[c] = i THEN 0 ELSE slot[c]]
  /\ UNCHANGED <<context, counters, initVars, pc, ret, uid, syncVars, service, indVars,
                 history>>

(* connector_on_receive and handle_receive_rsp up to the callback: under   *)
(* the mutex the slot is found, freed and copied.                          *)
handle_receive_rsp(k, u) ==
  /\ Takes(k, u)
  /\ \/ /\ lookup_pending_op(u) = {}
        /\ UNCHANGED <<pending_ops, rcv, slot>>
     \/ \E i \in lookup_pending_op(u) :
          LET op == pending_ops[i] IN
          /\ pending_ops' = [pending_ops EXCEPT ![i].busy = FALSE]
          /\ rcv' = IF op.async_resp_cb = "null" THEN rcv
                    ELSE [rcv EXCEPT ![k] = Receiver("call", u, op.async_resp_cb,
                                                     op.client_data)]
          /\ slot' = [c \in Calls |-> IF slot[c] = i /\ ~Issuing(c) THEN 0 ELSE slot[c]]
  /\ UNCHANGED <<initialized, handle, callbackVars, counters, initVars, pc, ret, uid,
                 syncVars, service, indVars, history>>

Ran(k, c) ==
  /\ callbacks' = [callbacks EXCEPT ![c] = @ + 1]
  /\ answers' = [answers EXCEPT ![c] = @ \cup {rcv[k].uid}]

(* What the application does in a callback: nothing of interest, or it     *)
(* issues a command, on the receive thread.                                *)
InCallback(k) ==
  \/ rcv' = [rcv EXCEPT ![k] = Receiving] /\ UNCHANGED <<pc, ret, frame>>
  \/ \E c \in NestedCalls, hndl \in 0..s_unique_handle, req \in BOOLEAN :
       /\ Enters(c, hndl, req)
       /\ rcv' = [rcv EXCEPT ![k] = Receiver("user", 0, "null", c)]

(* A callback of the application.  One that was stored in a slot without   *)
(* its client data yet is given NULL, or the data of an earlier call.      *)
invoke_callback(k) ==
  /\ rcv[k].st = "call" /\ rcv[k].cb \in {"user", "default"}
  /\ IF rcv[k].data = NoCall THEN UNCHANGED <<callbacks, answers>> ELSE Ran(k, rcv[k].data)
  /\ InCallback(k)
  /\ UNCHANGED <<context, counters, initVars, uid, slot, condition, signalled, locked,
                 service, taken, indVars, gaveUp, deadWrite, deadSignal, misuse>>

(* The command issued in the callback has returned, and the callback does. *)
callback_returns(k) ==
  /\ rcv[k].st = "user" /\ pc[rcv[k].data] = "done"
  /\ rcv' = [rcv EXCEPT ![k] = Receiving]
  /\ UNCHANGED <<context, counters, initVars, callVars, syncVars, service, taken, indVars,
                 history>>

(* Mutant: the test is missing. *)
handle_receive_ind_NoTest(k) ==
  /\ rcv[k].st = "recv" /\ inds[k] > 0
  /\ inds' = [inds EXCEPT ![k] = @ - 1]
  /\ rcv' = [rcv EXCEPT ![k].st = "ind"]
  /\ UNCHANGED <<context, counters, initVars, callVars, syncVars, service, taken, raised,
                 history>>

(* connector_on_receive and handle_receive_ind: ind_cb is tested ...       *)
handle_receive_ind(k) ==
  /\ rcv[k].st = "recv" /\ inds[k] > 0
  /\ inds' = [inds EXCEPT ![k] = @ - 1]
  /\ rcv' = IF ind_cb THEN [rcv EXCEPT ![k].st = "ind"] ELSE rcv
  /\ UNCHANGED <<context, counters, initVars, callVars, syncVars, service, taken, raised,
                 history>>

(* ... and called, without a lock.  When it has been cleared in between,   *)
(* the call goes to the callback or, if the build reads ind_cb again,      *)
(* through NULL.                                                           *)
invoke_ind_cb(k) ==
  /\ rcv[k].st = "ind"
  /\ \/ InCallback(k)
     \/ /\ ~ind_cb
        /\ rcv' = [rcv EXCEPT ![k].st = "crashed"]
        /\ UNCHANGED <<pc, ret, frame>>
  /\ indLate' = (indLate \/ ~ind_cb)
  /\ UNCHANGED <<context, counters, initVars, uid, slot, condition, signalled, locked,
                 service, taken, indVars, callbacks, answers, gaveUp, deadWrite,
                 deadSignal, wiped, crossed, issued, overlapped, indRace>>

(* Mutant: the condition is set before the copy, without the mutex. *)
async_cb_copy_ConditionFirst(k) ==
  LET c == rcv[k].data IN
  /\ rcv[k].st = "call" /\ rcv[k].cb = "async_cb" /\ c \in SyncCalls
  /\ Ran(k, c)
  /\ condition' = [condition EXCEPT ![c] = 1]
  /\ rcv' = [rcv EXCEPT ![k].st = "lock"]
  /\ UNCHANGED <<context, counters, initVars, callVars, frame, signalled, locked,
                 service, taken, indVars, gaveUp, deadWrite, deadSignal, misuse>>

(* async_cb: the response is copied through params, which points into the  *)
(* frame of the waiting call.                                              *)
async_cb_copy(k) ==
  LET c == rcv[k].data IN
  /\ rcv[k].st = "call" /\ rcv[k].cb = "async_cb" /\ c \in SyncCalls
  /\ Ran(k, c)
  /\ deadWrite' = IF frame[c] = "alive" THEN deadWrite ELSE deadWrite \cup {c}
  /\ rcv' = [rcv EXCEPT ![k].st = "lock"]
  /\ UNCHANGED <<context, counters, initVars, callVars, syncVars, service, taken, indVars,
                 gaveUp, deadSignal, misuse>>

(* async_cb is given NULL, of which it only complains, or the client data  *)
(* of an asynchronous call, which it takes for a frame.                    *)
async_cb_stray(k) ==
  /\ rcv[k].st = "call" /\ rcv[k].cb = "async_cb" /\ rcv[k].data \notin SyncCalls
  /\ \/ rcv' = [rcv EXCEPT ![k] = Receiving]
     \/ rcv[k].data # NoCall /\ rcv' = [rcv EXCEPT ![k].st = "crashed"]
  /\ UNCHANGED <<context, counters, initVars, callVars, syncVars, service, taken, indVars,
                 history>>

(* async_cb sets the condition under the mutex of the frame.  A mutex that *)
(* the waiter left locked blocks it; one that is gone may let it through   *)
(* or block it for good.                                                   *)
async_cb_lock(k) ==
  LET c == rcv[k].data IN
  /\ rcv[k].st = "lock"
  /\ \/ /\ frame[c] = "alive" /\ ~locked[c]
        /\ condition' = [condition EXCEPT ![c] = 1]
        /\ rcv' = [rcv EXCEPT ![k].st = "signal"]
        /\ UNCHANGED deadWrite
     \/ /\ frame[c] = "dead"
        /\ \E st \in {"signal", "stuck"} : rcv' = [rcv EXCEPT ![k].st = st]
        /\ deadWrite' = deadWrite \cup {c}
        /\ UNCHANGED condition
  /\ UNCHANGED <<context, counters, initVars, callVars, frame, signalled, locked,
                 service, taken, indVars, callbacks, answers, gaveUp, deadSignal, misuse>>

(* The signal comes after the unlock: the waiter may have gone already. *)
async_cb_signal(k) ==
  LET c == rcv[k].data IN
  /\ rcv[k].st = "signal"
  /\ \/ /\ frame[c] = "alive"
        /\ signalled' = [signalled EXCEPT ![c] = (pc[c] = "waiting")]
        /\ rcv' = [rcv EXCEPT ![k] = Receiving]
        /\ UNCHANGED deadSignal
     \/ /\ frame[c] = "dead"
        /\ rcv' \in {[rcv EXCEPT ![k] = Receiving], [rcv EXCEPT ![k].st = "stuck"]}
        /\ deadSignal' = deadSignal \cup {c}
        /\ UNCHANGED signalled
  /\ UNCHANGED <<context, counters, initVars, callVars, frame, condition, locked,
                 service, taken, indVars, callbacks, answers, gaveUp, deadWrite, misuse>>

-----------------------------------------------------------------------------
Issue(c) ==
  \/ gen_unique_id(c)
  \/ acquire_free_op_slot(c)
  \/ fill_op(c)
  \/ set_op_data(c)
  \/ set_op_uid(c)
  \/ \E ok \in BOOLEAN : send_request(c, ok)

Await(c) == sync_lock_and_test(c) \/ sync_times_out(c) \/ sync_exit(c)

Receive(k) ==
  \/ \E u \in Ids : handle_receive_rsp(k, u)
  \/ invoke_callback(k)
  \/ callback_returns(k)
  \/ handle_receive_ind(k)
  \/ invoke_ind_cb(k)
  \/ async_cb_copy(k)
  \/ async_cb_stray(k)
  \/ async_cb_lock(k)
  \/ async_cb_signal(k)

Next ==
  \/ uril_client_init
  \/ \E ind \in IndCbs, default \in DefaultCbs : set_callbacks(ind, default)
  \/ connect_succeeds \/ set_initialized \/ init_returns \/ uril_client_release
  \/ \E freed \in BOOLEAN : connect_fails(freed)
  \/ \E c \in Calls :
       \/ \E hndl \in 0..s_unique_handle, req \in BOOLEAN : execute_command(c, hndl, req)
       \/ Issue(c)
  \/ \E c \in SyncCalls :
       \/ Await(c)
       \/ \E spurious \in BOOLEAN : sync_wakes(c, spurious)
  \/ \E k \in Conns :
       \/ Receive(k) \/ receive_fails(k)
       \/ \E u \in Ids : service_answers(k, u)
       \/ service_indicates(k) \/ service_disconnects(k)

Spec == Init /\ [][Next]_vars

(***************************************************************************)
(* Fairness.  A thread inside the library runs on and a timed wait ends;   *)
(* a receive thread takes what has arrived.  Nothing obliges the           *)
(* application to call, the service to answer or a wait to be signalled.   *)
(***************************************************************************)
Fairness ==
  /\ \A c \in Calls \ SyncCalls : WF_vars(Issue(c))
  /\ \A c \in SyncCalls : WF_vars(Issue(c) \/ Await(c))
  /\ \A k \in Conns : WF_vars(Receive(k))

FairSpec == Spec /\ Fairness

-----------------------------------------------------------------------------
(* Type correctness of the library's state. *)
TypeOK ==
  /\ initialized \in BOOLEAN /\ handle \in Nat /\ ind_cb \in BOOLEAN
  /\ default_async_cb \in BOOLEAN
  /\ pending_ops \in [Slots -> PendingOp]
  /\ s_unique_msg_id \in Ids /\ s_unique_handle \in Nat /\ id_range \in IdRanges
  /\ ipc \in {"idle", "cleared", "connecting", "connected", "marked"}
  /\ attempts \in 0..ConnectAttempts
  /\ conn \in 0..MaxInits
  /\ ctxFreed \in BOOLEAN
  /\ pc \in [Calls -> {"idle", "id", "acquire", "fill", "set_data", "set_uid", "send",
                       "lock", "waiting", "exit", "done"}]
  /\ ret \in [Calls -> {"none", "ok", "fail"}]
  /\ uid \in [Calls -> Ids]
  /\ slot \in [Calls -> {0} \cup Slots]
  /\ frame \in [SyncCalls -> {"none", "alive", "dead"}]
  /\ condition \in [SyncCalls -> {0, 1}]
  /\ signalled \in [SyncCalls -> BOOLEAN]
  /\ locked \in [SyncCalls -> BOOLEAN]
  /\ asked \in [Conns -> [Ids -> Nat]] /\ answered \in [Conns -> [Ids -> Nat]]
  /\ taken \in [Conns -> [Ids -> Nat]]
  /\ raised \in 0..MaxInds /\ inds \in [Conns -> 0..MaxInds]
  /\ rcv \in [Conns -> [st : {"none", "recv", "call", "lock", "signal", "ind", "user",
                              "stuck", "ended", "failed", "crashed"},
                        uid : Ids, cb : {"null", "user", "default", "async_cb"},
                        data : Calls \cup {NoCall}]]
  /\ callbacks \in [Calls -> Nat] /\ answers \in [Calls -> SUBSET Ids]
  /\ wiped \subseteq Calls
  /\ gaveUp \subseteq SyncCalls /\ deadWrite \subseteq SyncCalls
  /\ deadSignal \subseteq SyncCalls /\ crossed \in BOOLEAN
  /\ issued \in Nat /\ overlapped \in BOOLEAN /\ indRace \in BOOLEAN /\ indLate \in BOOLEAN

(* The ids have come round while operations overlapped.  An id may then be *)
(* that of two operations, or 0, that of a slot never used.                *)
IdsReused == issued >= id_range /\ overlapped

(* The application was never issuing a command while it initialised the    *)
(* library anew, and the ids have not come round on it.                    *)
ProperUse == ~crossed /\ ~IdsReused

(* A call gets the response with its own id and gets it once, although     *)
(* lookup_pending_op ignores busy, slots are filled without the mutex and  *)
(* freed slots keep their id.  A client that has one operation open at a   *)
(* time may even let the 32-bit counter wrap: its slot is always the first *)
(* with its id.                                                            *)
OneOwnAnswer ==
  ProperUse => \A c \in Calls : answers[c] \subseteq {uid[c]} /\ callbacks[c] <= 1

(* The slots and the open operations are in step: a busy slot belongs to   *)
(* one call, and a call that awaits its answer finds its slot busy and     *)
(* with its own id and data.  No operation is overwritten or lost, and a   *)
(* slot that nobody will ever free (a failed send, an unanswered request)  *)
(* is one whose call got no response.                                      *)
SlotAccounting ==
  ProperUse =>
    /\ \A i \in Slots : pending_ops[i].busy <=> \E c \in Calls : slot[c] = i
    /\ \A c, d \in Calls : slot[c] # 0 /\ slot[c] = slot[d] => c = d
    /\ \A c \in Calls : slot[c] # 0 /\ pc[c] \notin {"fill", "set_data", "set_uid"} =>
         /\ pending_ops[slot[c]].unique_id = uid[c]
         /\ pending_ops[slot[c]].client_data = c
         /\ callbacks[c] = 0

(* What the library promises, as long as it is used properly. *)
Promise == INSTANCE Commands WITH
  made <- {c \in Calls : pc[c] # "idle"}, result <- ret, told <- callbacks,
  void <- ~ProperUse

(* The library implements Commands: a callback runs at most once, never    *)
(* for an asynchronous command that has failed, and before a synchronous   *)
(* one returns success; a spurious wake-up never looks like an answer      *)
(* (lines 148-152, 302, 355-372).                                          *)
CommandsKept == Promise!Spec

(* The receive thread writes into a frame that is gone only when the call *)
(* gave up waiting: it timed out, or was woken without its answer.  (The   *)
(* signal of async_cb, after the unlock, may still hit a destroyed         *)
(* condition variable of a call that succeeded.)                           *)
DeadWriteOnlyAfterGiveUp ==
  ProperUse => deadWrite \subseteq gaveUp

(* A release, or a new initialisation, that no receive thread meets        *)
(* between the test and the call of ind_cb (lines 114 and 115) is safe:    *)
(* no indication goes through NULL or to the callback that was taken back. *)
QuietReleaseIsSafe == indLate => indRace

(* A synchronous command issued from a callback is issued on the thread    *)
(* that would answer it.  It can only succeed when another receive thread  *)
(* took a response, under proper use the one to this command: on one       *)
(* connection it waits for its timeout and fails.                          *)
NestedSyncNeedsOtherThread ==
  \A k \in Conns, c \in SyncCalls :
    rcv[k].st = "user" /\ rcv[k].data = c /\ ret[c] = "ok"
      => \E j \in Conns \ {k}, u \in Ids : taken[j][u] > 0 /\ (ProperUse => u = uid[c])

(* A synchronous call always returns, answered or not. *)
SyncCallReturns ==
  \A c \in SyncCalls : pc[c] # "idle" ~> pc[c] = "done"

(* A receive thread that runs a callback comes back to its socket, even if *)
(* the callback issues a command that only this thread could answer.       *)
CallbackReturns == \A k \in Conns : rcv[k].st = "user" ~> rcv[k].st = "recv"

(* A response has arrived for call c. *)
Arrived(c) == uid[c] # 0 /\ \E k \in Conns : uid[c] \in Inbox(k)

(* The response to an asynchronous command with its own callback is handed *)
(* to that callback, over new initialisations and old connections too, as  *)
(* long as the library was not initialised anew while the command was open *)
(* or any command being issued (line 204 clears all slots), recv works, and *)
(* no synchronous call has timed out, been woken for nothing or been       *)
(* signalled after its return.                                             *)
ArrivedIsDelivered ==
  \A c \in Calls \ (SyncCalls \cup DefaultCalls) :
    Arrived(c) ~> \/ callbacks[c] = 1 \/ c \in wiped \/ crossed
                  \/ gaveUp # {} \/ deadSignal # {}
                  \/ \E k \in Conns : rcv[k].st \in {"failed", "crashed"}

(* README.md line 17: a client may issue multiple requests, and "all these *)
(* request are handled asynchronously".  So the response to one command is *)
(* delivered whatever became of another.  The code does not keep this: a   *)
(* synchronous call that times out exits with sync_mutex locked (line 363) *)
(* and the receive thread blocks on it for good (line 315).                *)
AsyncIndependentOfTimeouts ==
  \A c \in Calls \ (SyncCalls \cup DefaultCalls) :
    Arrived(c) ~> callbacks[c] = 1 \/ \E k \in Conns : rcv[k].st \in {"failed", "crashed"}
=============================================================================
