------------------------ MODULE SocketClientConnector ------------------------
(***************************************************************************)
(* UrilService.cpp and service/src/connection/socks: how main builds the   *)
(* service and starts it, the listening socket, the connections, their     *)
(* observers, and the bytes of both directions.                            *)
(*                                                                         *)
(* One thread accepts clients.  Every accepted client gets a connection    *)
(* object with a pump thread of its own, which reads messages and tells    *)
(* the observers of the connection: the connector itself, which keeps the  *)
(* list of connections, and the MessageTracker, which serves the messages. *)
(* When the client hangs up, the pump thread tells the observers, each of  *)
(* which unregisters, and deletes the connection object it belongs to.     *)
(*                                                                         *)
(* The service is built for Unix sockets or, with CONNECTOR_TCP, for TCP.  *)
(* The two differ in how a message of FrameLen units crosses: a Unix       *)
(* socket takes it whole or not at all, TCP takes what there is room for   *)
(* and delivers it in pieces.                                              *)
(*                                                                         *)
(* The connector is started once and never stopped: main sleeps for ever   *)
(* after start().                                                          *)
(***************************************************************************)
EXTENDS Integers, SequencesExt, FiniteSets

CONSTANTS
  Clients,         \* client processes; each connects once
  Transports,      \* the builds considered: "unix", "tcp"
  MaxClientsCount, \* maxClientsCount, which only sets the backlog of listen()
  FrameLen,        \* units of a message: sizeof(uril_protocol_msg_t)
  Buffer,          \* units a socket holds for a client that does not read
  MaxMessages,     \* bound: [Clients -> messages it sends]
  MaxResponses     \* bound: messages the service sends, over all clients

ASSUME ConstantsAssumption ==
  /\ Transports \subseteq {"unix", "tcp"}
  /\ MaxClientsCount \in Nat
  /\ FrameLen \in Nat \ {0} /\ Buffer \in Nat
  /\ MaxMessages \in [Clients -> Nat] /\ MaxResponses \in Nat

VARIABLES
  boot,         \* the step of MainSteps that main does next
  transport,    \* the transport of the build, "none" before the connector exists
  up,           \* the service process runs; FALSE after it returned or was killed
  accepting,    \* where the accept thread is
  current,      \* the client the accept thread is setting up, <<>> or <<client>>
  backlog,      \* clients connected and not yet accepted
  copying,      \* getConnections copies the vector: "no", "clean", or "torn" if the
                \* vector has changed meanwhile
  mConnections, \* [Clients -> times the connection is in the connector's vector,
                \* whose order nothing depends on]
  object,       \* [Clients -> "none", "alive" or "freed"]: the connection object
  mObservers,   \* [Clients -> the observers vector: its memory and its size]
  mThread,      \* [Clients -> the connection's mThread has been set]
  pump,         \* [Clients -> the pump thread: state, position, end of iteration]
  client,       \* [Clients -> "out", "connected", "closed", or "reset": closed with
                \* bytes of the service unread]
  stream,       \* [Clients -> units written by the client, not yet read]
  down,         \* [Clients -> units written to the client, not yet read]
  \* history, read by the properties only
  taken,        \* [Clients -> frames the pump has read, each a sequence of units]
  delivered,    \* [Clients -> frames handed on to the request processors]
  wrote,        \* [Clients -> number of units the client has written]
  sends,        \* number of messages the service has tried to send
  sent,         \* [Clients -> numbers of those whose send() reported success]
  got,          \* [Clients -> frames the client has read]
  cut,          \* [Clients -> which of those was the first to be cut short, or 0]
  told,         \* [Clients -> [observer -> times it was told of the disconnect]]
  strayWrite,   \* clients whose freed object was written to
  fatal         \* what but a client has ended the process: "thread", "copy" or "none"

mainVars == <<boot, transport>>
acceptVars == <<accepting, current, backlog>>
requests == <<stream, taken, delivered, wrote>>
responses == <<down, sends, sent, got, cut>>
clientVars == <<client, requests, responses>>
history == <<told, strayWrite, fatal>>
vars == <<mainVars, up, acceptVars, copying, mConnections, object, mObservers, mThread,
          pump, clientVars, history>>

Observer == {"connector", "tracker"}

(* A vector of raw pointers: mem is what its memory holds, and the first  *)
(* size cells of it are the elements.                                      *)
EmptyVector == [mem |-> <<>>, size |-> 0]
Elements(v) == SubSeq(v.mem, 1, v.size)
PushBack(v, o) == [mem |-> Append(Elements(v), o), size |-> v.size + 1]

(* Mutant: the element is swapped with the last one instead. *)
Erase_SwapsLast(v, o) ==
  [mem |-> [i \in 1..Len(v.mem) |->
              IF v.mem[i] = o THEN v.mem[v.size]
              ELSE IF i = v.size THEN o ELSE v.mem[i]],
   size |-> v.size - 1]

(* erase(remove(...)): the elements kept move to the front in their order, *)
(* the memory behind them keeps what it held.                              *)
Erase(v, o) ==
  LET kept == {i \in 1..v.size : v.mem[i] # o}
      rank(i) == Cardinality({j \in kept : j <= i})
  IN [mem |-> [k \in 1..Len(v.mem) |->
                 IF k <= Cardinality(kept) THEN v.mem[CHOOSE i \in kept : rank(i) = k]
                 ELSE v.mem[k]],
      size |-> Cardinality(kept)]

(* The units of message number n of one direction, numbered through. *)
Frame(n) == [i \in 1..FrameLen |-> (n - 1) * FrameLen + i]

First(n, s) == SubSeq(s, 1, n)
Rest(n, s) == SubSeq(s, n + 1, Len(s))

(* Mutant: the connector accepts clients before the processors are linked. *)
MainSteps_StartsEarly ==
  <<"connector", "adapter", "tracker", "start", "processor", "next", "init">>

(* What main does, in its order. *)
MainSteps ==
  <<"connector", "adapter", "tracker", "processor", "next", "init", "start">>

At(step) == boot <= Len(MainSteps) /\ MainSteps[boot] = step
Done(step) == \E i \in 1..(boot - 1) : MainSteps[i] = step

NoPump == [st |-> "none", at |-> 0, end |-> 0]

Init ==
  /\ boot = 1 /\ transport = "none"
  /\ up = TRUE
  /\ accepting = "off" /\ current = <<>> /\ backlog = <<>>
  /\ copying = "no" /\ mConnections = [c \in Clients |-> 0]
  /\ object = [c \in Clients |-> "none"]
  /\ mObservers = [c \in Clients |-> EmptyVector]
  /\ mThread = [c \in Clients |-> FALSE]
  /\ pump = [c \in Clients |-> NoPump]
  /\ client = [c \in Clients |-> "out"]
  /\ stream = [c \in Clients |-> <<>>] /\ down = [c \in Clients |-> <<>>]
  /\ taken = [c \in Clients |-> <<>>] /\ delivered = [c \in Clients |-> <<>>]
  /\ wrote = [c \in Clients |-> 0]
  /\ sends = 0 /\ cut = [c \in Clients |-> 0]
  /\ sent = [c \in Clients |-> <<>>] /\ got = [c \in Clients |-> <<>>]
  /\ told = [c \in Clients |-> [o \in Observer |-> 0]]
  /\ strayWrite = {} /\ fatal = "none"

-----------------------------------------------------------------------------
MainGoesOn == up /\ boot' = boot + 1
ConnectionsUntouched == UNCHANGED <<current, backlog, copying, mConnections, object,
                                    mObservers, mThread, pump, clientVars, history>>

(* The configuration is compiled in and always loads. *)
getConfig == Transports

(* It names the connector to make. *)
createClientConnector ==
  /\ At("connector") /\ MainGoesOn
  /\ transport' \in getConfig
  /\ UNCHANGED <<up, accepting>> /\ ConnectionsUntouched

(* The adapter, the tracker, which registers with the connector, and the  *)
(* processors are made, and the tracker is given the next processor.       *)
main_creates ==
  /\ At("adapter") \/ At("tracker") \/ At("processor") \/ At("next")
  /\ MainGoesOn
  /\ UNCHANGED <<transport, up, accepting>> /\ ConnectionsUntouched

(* AndroidRilAdapter::init: the vendor library is loaded and started, or   *)
(* main returns.                                                           *)
init_adapter(ok) ==
  /\ At("init") /\ MainGoesOn
  /\ up' = ok
  /\ UNCHANGED <<transport, accepting>> /\ ConnectionsUntouched

(* start(): the socket is bound and the accept thread started; or main     *)
(* returns, or no thread can be made, which ends the process too.  The two *)
(* connectors differ in the address they bind.                             *)
StartsAccepting(t, ok) ==
  /\ At("start") /\ MainGoesOn
  /\ transport = t
  /\ up' = ok
  /\ accepting' = IF ok THEN "listen" ELSE accepting
  /\ UNCHANGED transport /\ ConnectionsUntouched

start_unix(ok) == StartsAccepting("unix", ok)
start_tcp(ok) == StartsAccepting("tcp", ok)

(* acceptLoop starts to listen, or ends. *)
listen(ok) ==
  /\ up /\ accepting = "listen"
  /\ accepting' = IF ok THEN "accept" ELSE "failed"
  /\ UNCHANGED <<mainVars, up, current, backlog, copying, mConnections, object, mObservers,
                 mThread, pump, clientVars, history>>

(* What the steps of the clients leave alone. *)
ServiceUntouched ==
  UNCHANGED <<mainVars, up, copying, mConnections, object, mObservers, mThread, pump,
              history>>

(* A client connects: it waits in the backlog, which is all that           *)
(* maxClientsCount limits.  The socket listens even when nobody accepts.   *)
connect(c) ==
  /\ up /\ client[c] = "out"
  /\ accepting \notin {"off", "listen", "failed"}
  /\ Len(backlog) <= MaxClientsCount
  /\ client' = [client EXCEPT ![c] = "connected"]
  /\ backlog' = Append(backlog, c)
  /\ ServiceUntouched
  /\ UNCHANGED <<accepting, current, requests, responses>>

(* A connected client may send before it is accepted.  On a Unix socket   *)
(* the message goes in whole; over TCP it arrives in pieces.               *)
client_sends(c) ==
  LET missing == FrameLen - (wrote[c] % FrameLen) IN
  \E n \in 1..missing :
    /\ up /\ client[c] = "connected"
    /\ wrote[c] < MaxMessages[c] * FrameLen
    /\ transport = "unix" => n = FrameLen
    /\ stream' = [stream EXCEPT ![c] = @ \o [i \in 1..n |-> wrote[c] + i]]
    /\ wrote' = [wrote EXCEPT ![c] = @ + n]
    /\ ServiceUntouched
    /\ UNCHANGED <<acceptVars, client, taken, delivered, responses>>

(* A client reads a message: recv with MSG_WAITALL. *)
client_receives(c) ==
  /\ up /\ client[c] = "connected"
  /\ Len(down[c]) >= FrameLen
  /\ got' = [got EXCEPT ![c] = Append(@, First(FrameLen, down[c]))]
  /\ down' = [down EXCEPT ![c] = Rest(FrameLen, @)]
  /\ ServiceUntouched
  /\ UNCHANGED <<acceptVars, client, requests, sends, sent, cut>>

(* A client closes, or its process ends, perhaps in the middle of a        *)
(* message and with messages of the service unread.                        *)
client_closes(c) ==
  /\ up /\ client[c] = "connected"
  /\ client' = [client EXCEPT ![c] = IF down[c] = <<>> THEN "closed" ELSE "reset"]
  /\ ServiceUntouched
  /\ UNCHANGED <<acceptVars, requests, responses>>

-----------------------------------------------------------------------------
(* What a change of the vector does to a copy of it under way. *)
Torn == IF copying = "no" THEN "no" ELSE "torn"

(* accept() returns a socket: the connection object is made, put on the    *)
(* list under mConnectionsLock, and observed by the connector.             *)
accept ==
  /\ up /\ accepting = "accept"
  /\ backlog # <<>>
  /\ LET c == Head(backlog) IN
     /\ backlog' = Tail(backlog)
     /\ current' = <<c>>
     /\ object' = [object EXCEPT ![c] = "alive"]
     /\ mConnections' = [mConnections EXCEPT ![c] = @ + 1]
     /\ mObservers' = [mObservers EXCEPT ![c] = PushBack(EmptyVector, "connector")]
  /\ copying' = Torn
  /\ accepting' = "notify"
  /\ UNCHANGED <<mainVars, up, mThread, pump, clientVars, history>>

(* accept() fails: the loop ends and nobody is accepted any more. *)
accept_fails ==
  /\ up /\ accepting = "accept"
  /\ accepting' = "ended"
  /\ UNCHANGED <<mainVars, up, current, backlog, copying, mConnections, object, mObservers,
                 mThread, pump, clientVars, history>>

(* Mutant: the tracker registers twice. *)
notify_new_connection_Twice ==
  /\ up /\ accepting = "notify"
  /\ mObservers' = [mObservers EXCEPT ![current[1]] =
                      PushBack(PushBack(@, "tracker"), "tracker")]
  /\ accepting' = "ignit"
  /\ UNCHANGED <<mainVars, up, current, backlog, copying, mConnections, object, mThread,
                 pump, clientVars, history>>

(* The observers of the connector are told; the one there is, the tracker, *)
(* if it has been made, registers with the connection.                     *)
notify_new_connection ==
  /\ up /\ accepting = "notify"
  /\ mObservers' = IF Done("tracker")
                   THEN [mObservers EXCEPT ![current[1]] = PushBack(@, "tracker")]
                   ELSE mObservers
  /\ accepting' = "ignit"
  /\ UNCHANGED <<mainVars, up, current, backlog, copying, mConnections, object, mThread,
                 pump, clientVars, history>>

(* Mutant: the pump is started as soon as there is a connection. *)
ignitPump_Early(ok) ==
  /\ ok /\ up /\ accepting \in {"notify", "ignit"}
  /\ pump[current[1]].st = "none"
  /\ pump' = [pump EXCEPT ![current[1]].st = "recv"]
  /\ accepting' = IF accepting = "ignit" THEN "assign" ELSE accepting
  /\ UNCHANGED <<mainVars, up, current, backlog, copying, mConnections, object, mObservers,
                 mThread, clientVars, history>>

(* Mutant: the thread is never started. *)
ignitPump_NoThread(ok) ==
  /\ ok /\ up /\ accepting = "ignit"
  /\ accepting' = "assign"
  /\ UNCHANGED <<mainVars, up, current, backlog, copying, mConnections, object, mObservers,
                 mThread, pump, clientVars, history>>

(* ignitPump: the thread exists and runs; or none can be made, and the     *)
(* exception of the constructor, which nobody catches, ends the process ...*)
ignitPump(ok) ==
  /\ up /\ accepting = "ignit"
  /\ up' = ok
  /\ pump' = IF ok THEN [pump EXCEPT ![current[1]].st = "recv"] ELSE pump
  /\ fatal' = IF ok THEN fatal ELSE "thread"
  /\ accepting' = IF ok THEN "assign" ELSE accepting
  /\ UNCHANGED <<mainVars, current, backlog, copying, mConnections, object, mObservers,
                 mThread, clientVars, told, strayWrite>>

(* ... before its handle is stored in the connection, which may be gone.   *)
assign_mThread ==
  /\ up /\ accepting = "assign"
  /\ mThread' = [mThread EXCEPT ![current[1]] = TRUE]
  /\ strayWrite' = IF object[current[1]] = "alive" THEN strayWrite
                   ELSE strayWrite \cup {current[1]}
  /\ current' = <<>>
  /\ accepting' = "accept"
  /\ UNCHANGED <<mainVars, up, backlog, copying, mConnections, object, mObservers, pump,
                 clientVars, told, fatal>>

-----------------------------------------------------------------------------
(* getConnections, by a thread of the adapter that has an indication for   *)
(* everybody, starts to copy the vector.  No lock is taken ...             *)
getConnections ==
  /\ up /\ Done("init") /\ copying = "no"
  /\ copying' = "clean"
  /\ UNCHANGED <<mainVars, up, acceptVars, mConnections, object, mObservers, mThread, pump,
                 clientVars, history>>

(* ... and a change of the vector races with the copy: what is copied may  *)
(* be anything, and using it may end the process.                          *)
getConnections_returns ==
  /\ up /\ copying # "no"
  /\ up' \in IF copying = "torn" THEN BOOLEAN ELSE {TRUE}
  /\ fatal' = IF up' THEN fatal ELSE "copy"
  /\ copying' = "no"
  /\ UNCHANGED <<mainVars, acceptVars, mConnections, object, mObservers, mThread, pump,
                 clientVars, told, strayWrite>>

-----------------------------------------------------------------------------
Observes(o, c) == \E i \in 1..mObservers[c].size : mObservers[c].mem[i] = o

(* The pump thread takes n units from the socket as one message and gives *)
(* it to every observer: the connector ignores it, the tracker hands it to *)
(* its next processor, if it has one.                                      *)
Takes(c, n) ==
  LET frame == First(n, stream[c]) IN
  /\ stream' = [stream EXCEPT ![c] = Rest(n, @)]
  /\ taken' = [taken EXCEPT ![c] = Append(@, frame)]
  /\ delivered' = IF Observes("tracker", c) /\ Done("next")
                  THEN [delivered EXCEPT ![c] = Append(@, frame)]
                  ELSE delivered
  /\ UNCHANGED <<mainVars, up, acceptVars, copying, mConnections, object, mObservers,
                 mThread, pump, client, wrote, responses, history>>

(* Mutant: recv does not wait for the whole message. *)
pump_message_NoWaitAll(c) ==
  /\ up /\ pump[c].st = "recv"
  /\ stream[c] # <<>>
  /\ Takes(c, IF Len(stream[c]) < FrameLen THEN Len(stream[c]) ELSE FrameLen)

(* recv with MSG_WAITALL returns a message. *)
pump_message(c) ==
  /\ up /\ pump[c].st = "recv"
  /\ Len(stream[c]) >= FrameLen
  /\ Takes(c, FrameLen)

Gone(c) == client[c] \in {"closed", "reset"}

(* The client is gone in the middle of a message: recv returns what there  *)
(* is of it.  Only a count of 0 is looked at, so the observers are given   *)
(* the piece, the rest of it zero.                                         *)
pump_short(c) ==
  /\ up /\ pump[c].st = "recv"
  /\ Gone(c) /\ Len(stream[c]) \in 1..(FrameLen - 1)
  /\ Takes(c, Len(stream[c]))

(* Mutant: the connection is deleted here too, to release its socket. *)
pump_error_Deletes(c) ==
  /\ up /\ pump[c].st = "recv"
  /\ object' = [object EXCEPT ![c] = "freed"]
  /\ pump' = [pump EXCEPT ![c].st = "ended"]
  /\ up' = ~mThread[c]
  /\ UNCHANGED <<mainVars, acceptVars, copying, mConnections, mObservers, mThread,
                 clientVars, history>>

(* recv fails, as it does once the client has closed with messages unread: *)
(* the thread ends; the connection stays on the list, unread, and nobody   *)
(* is told.                                                                *)
pump_error(c) ==
  /\ up /\ pump[c].st = "recv"
  /\ pump' = [pump EXCEPT ![c].st = "ended"]
  /\ UNCHANGED <<mainVars, up, acceptVars, copying, mConnections, object, mObservers,
                 mThread, clientVars, history>>

(* recv returns 0: the iteration over the observers starts.  Its end is    *)
(* fixed now, although the observers will unregister under way.            *)
pump_disconnect(c) ==
  /\ up /\ pump[c].st = "recv"
  /\ client[c] = "closed" /\ stream[c] = <<>>
  /\ pump' = [pump EXCEPT ![c] = [st |-> "telling", at |-> 1,
                                  end |-> mObservers[c].size]]
  /\ UNCHANGED <<mainVars, up, acceptVars, copying, mConnections, object, mObservers,
                 mThread, clientVars, history>>

(* Mutant: the connector only unregisters. *)
onClientDisconnected_KeepsListed(c, o) == mConnections

(* SocketClientConnector::onClientDisconnected takes the connection off   *)
(* the list; the tracker's onClientDisconnected does not touch the list.   *)
onClientDisconnected(c, o) ==
  IF o = "connector" THEN [mConnections EXCEPT ![c] = 0] ELSE mConnections

(* The next observer is told; it unregisters from the connection. *)
pump_tell(c) ==
  LET p == pump[c]
      o == mObservers[c].mem[p.at]
  IN
  /\ up /\ p.st = "telling" /\ p.at <= p.end
  /\ told' = [told EXCEPT ![c][o] = @ + 1]
  /\ mObservers' = [mObservers EXCEPT ![c] = Erase(@, o)]
  /\ mConnections' = onClientDisconnected(c, o)
  /\ copying' = IF o = "connector" THEN Torn ELSE copying
  /\ pump' = [pump EXCEPT ![c].at = @ + 1]
  /\ UNCHANGED <<mainVars, up, acceptVars, object, mThread, clientVars, strayWrite, fatal>>

(* delete this: the destructor closes the socket and joins mThread.  That *)
(* is the thread it runs on: join throws out of a destructor and the       *)
(* process terminates, unless mThread has not been stored yet.             *)
pump_delete(c) ==
  /\ up /\ pump[c].st = "telling" /\ pump[c].at > pump[c].end
  /\ object' = [object EXCEPT ![c] = "freed"]
  /\ pump' = [pump EXCEPT ![c].st = "ended"]
  /\ up' = ~mThread[c]
  /\ UNCHANGED <<mainVars, acceptVars, copying, mConnections, mObservers, mThread,
                 clientVars, history>>

-----------------------------------------------------------------------------
(* How many of len units send() takes, by the room left. *)
Taken(len, room) ==
  CASE room >= len -> len
    [] room < len /\ transport = "tcp" -> room
    [] OTHER -> 0

(* A message is sent to a client that is there: len units of it go to      *)
(* send() with MSG_DONTWAIT.  Anything but an error counts as success, and *)
(* an error is not retried.                                                *)
Sends(c, len) ==
  LET n == Taken(len, Buffer - Len(down[c])) IN
  /\ up /\ object[c] = "alive" /\ client[c] = "connected"
  /\ sends < MaxResponses
  /\ sends' = sends + 1
  /\ down' = [down EXCEPT ![c] = @ \o First(n, Frame(sends'))]
  /\ sent' = IF n > 0 THEN [sent EXCEPT ![c] = Append(@, sends')] ELSE sent
  /\ cut' = IF n \in 1..(len - 1) /\ cut[c] = 0
            THEN [cut EXCEPT ![c] = Len(sent[c]) + 1] ELSE cut
  /\ UNCHANGED <<mainVars, up, acceptVars, copying, mConnections, object, mObservers,
                 mThread, pump, client, requests, got, history>>

(* Mutant: the unused end of the payload is not sent. *)
sendMessageToClient_Short(c) == Sends(c, FrameLen - 1)

(* sendMessageToClient, by a thread of the adapter or a pump thread, on    *)
(* any connection the map of the tracker or a copied list holds.  A send   *)
(* on a deleted connection may go to the client that has its descriptor    *)
(* now, which is then a send to that client.                               *)
sendMessageToClient(c) == Sends(c, FrameLen)

(* The same send to a client that is gone.  On a connection that still     *)
(* exists SIGPIPE, which nothing ignores, ends the process; over TCP the   *)
(* first such send may still succeed, without an effect.  On a deleted     *)
(* connection anything may happen.                                         *)
send_to_gone(c) ==
  /\ up /\ object[c] # "none" /\ Gone(c)
  /\ sends < MaxResponses
  /\ sends' = sends + 1
  /\ up' \in IF object[c] = "alive" /\ transport = "unix" THEN {FALSE} ELSE BOOLEAN
  /\ UNCHANGED <<mainVars, acceptVars, copying, mConnections, object, mObservers, mThread,
                 pump, client, requests, down, sent, got, cut, history>>

-----------------------------------------------------------------------------
AcceptLoop ==
  \/ accept \/ notify_new_connection \/ assign_mThread
  \/ \E ok \in BOOLEAN : ignitPump(ok)

PumpLoop(c) ==
  pump_message(c) \/ pump_short(c) \/ pump_disconnect(c) \/ pump_tell(c) \/ pump_delete(c)

Next ==
  \/ createClientConnector \/ main_creates
  \/ \E ok \in BOOLEAN : init_adapter(ok) \/ start_unix(ok) \/ start_tcp(ok) \/ listen(ok)
  \/ AcceptLoop \/ accept_fails
  \/ getConnections \/ getConnections_returns
  \/ \E c \in Clients :
       \/ connect(c) \/ client_sends(c) \/ client_receives(c) \/ client_closes(c)
       \/ PumpLoop(c) \/ pump_error(c)
       \/ sendMessageToClient(c) \/ send_to_gone(c)

Spec == Init /\ [][Next]_vars

(* The service's threads run on.  Nothing obliges a client to do anything. *)
Fairness ==
  /\ WF_vars(AcceptLoop)
  /\ \A c \in Clients : WF_vars(PumpLoop(c))

FairSpec == Spec /\ Fairness

-----------------------------------------------------------------------------
UnitsOf(n) == 1..(n * FrameLen)
Frames(n) == UNION {[1..k -> UnitsOf(n)] : k \in 0..FrameLen}
Vectors == [mem : UNION {[1..n -> Observer] : n \in 0..2}, size : 0..2]

(* Type correctness of the connector, the connections and the clients. *)
TypeOK ==
  /\ up \in BOOLEAN
  /\ accepting \in {"off", "listen", "failed", "accept", "notify", "ignit", "assign",
                    "ended"}
  /\ current \in {<<>>} \cup {<<c>> : c \in Clients}
  /\ backlog \in Seq(Clients) /\ mConnections \in [Clients -> Nat]
  /\ object \in [Clients -> {"none", "alive", "freed"}]
  /\ mObservers \in [Clients -> Vectors]
  /\ mThread \in [Clients -> BOOLEAN]
  /\ pump \in [Clients -> [st : {"none", "recv", "telling", "ended"}, at : 0..3,
                           end : 0..2]]
  /\ boot \in 1..(Len(MainSteps) + 1) /\ transport \in Transports \cup {"none"}
  /\ client \in [Clients -> {"out", "connected", "closed", "reset"}]
  /\ \A c \in Clients :
       /\ wrote[c] \in 0..(MaxMessages[c] * FrameLen)
       /\ Range(stream[c]) \subseteq UnitsOf(MaxMessages[c])
       /\ Range(taken[c]) \cup Range(delivered[c]) \subseteq Frames(MaxMessages[c])
       /\ Len(down[c]) <= Buffer /\ Range(down[c]) \subseteq UnitsOf(MaxResponses)
       /\ Range(got[c]) \subseteq Frames(MaxResponses)
       /\ Range(sent[c]) \subseteq 1..MaxResponses
       /\ cut[c] \in 0..Len(sent[c])
  /\ sends \in 0..MaxResponses /\ copying \in {"no", "clean", "torn"}
  /\ told \in [Clients -> [Observer -> 0..2]]
  /\ strayWrite \subseteq Clients /\ fatal \in {"none", "thread", "copy"}

(* Line 85: the pump is started last "to ensure observers wont miss first *)
(* messages", and main starts the connector last of all.  Whatever a pump  *)
(* thread reads reaches the request processors, in order, and it is the    *)
(* messages the client wrote, one by one and whole: only the last can be   *)
(* short, over TCP, of a client that went away in the middle of it.        *)
NoMessageMissed ==
  \A c \in Clients :
    /\ delivered[c] = taken[c]
    /\ \A i \in DOMAIN taken[c] :
         \/ taken[c][i] = Frame(i)
         \/ /\ transport = "tcp" /\ Gone(c)
            /\ i = Len(taken[c]) /\ IsPrefix(taken[c][i], Frame(i))

(* What a client reads are the messages whose send() reported success,     *)
(* whole and in order, although several threads send to it, some of them   *)
(* on a connection they should no longer use, and none of them looks at    *)
(* the count send() returns.  Over TCP send() may take a part of a         *)
(* message: that one and those after it are read shifted, those before it  *)
(* still whole.  Never is more read than was sent.                         *)
SentIsReceived ==
  \A c \in Clients :
    /\ Len(got[c]) <= Len(sent[c])
    /\ cut[c] # 0 => transport = "tcp"
    /\ \A i \in DOMAIN got[c] :
         cut[c] = 0 \/ i < cut[c] => got[c][i] = Frame(sent[c][i])

(* Line 179: "delete after all observer notified".  Although the observers *)
(* unregister while the vector is iterated over, each of them has been     *)
(* told, once, by the time the connection is deleted.                      *)
AllToldBeforeDelete ==
  \A c \in Clients :
    object[c] = "freed" => \A o \in Observer : told[c][o] = 1

(* The list holds the connections that exist and whose disconnection the   *)
(* connector has not been told of, each once.  (What getConnections makes  *)
(* of it when the list changes under its copy is another matter.)          *)
ListedIsAlive ==
  \A c \in Clients :
    mConnections[c] = IF object[c] = "alive" /\ told[c]["connector"] = 0 THEN 1 ELSE 0

(* As long as no client has gone away, what can end the started service is *)
(* that no thread can be made for a new connection (line 194) or that the  *)
(* list was copied while it changed (line 101).  A failing accept or recv, *)
(* a full buffer and a message taken in part never do.  (Left out: memory  *)
(* that runs out, and the assertions of AndroidRilAdapter.)                *)
EndIsExplained ==
  ~up /\ accepting # "off" => fatal # "none" \/ \E c \in Clients : Gone(c)

(* Every message a client writes reaches the tracker, unless the process   *)
(* has terminated, the client was still in the backlog when accept failed, *)
(* or its own recv failed.                                                 *)
WrittenIsDelivered ==
  \A c \in Clients : \A n \in 1..MaxMessages[c] :
    (wrote[c] >= n * FrameLen)
      ~> \/ Len(delivered[c]) >= n
         \/ ~up
         \/ accepting = "ended" /\ object[c] = "none"
         \/ pump[c].st = "ended"

=============================================================================
