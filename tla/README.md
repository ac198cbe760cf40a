# A TLA+ model of URIL

URIL (Unified RIL) gives applications one message-based interface to a cellular modem. An
application links the client library, which talks over a Unix socket to the URIL service,
which talks to a vendor RIL (`ril.h`). Both ends are small programs with many threads and
few locks. This directory models them in TLA+, model-checks the models with TLC and proves
theorems about them with TLAPS.

Paths below are relative to `src/`.

## 1. Inventory

| Part | State | Operations | Interacts with |
|---|---|---|---|
| Client library, `client/src/uril_client.c` | one static context: `initialized`, `handle`, callbacks, 16 pending operations; two counters | init (20 connection attempts), release, asynchronous command, synchronous command with timeout, response and indication handlers | application threads call it; the connector's receive thread calls back |
| Client connector, `client/src/service_connector/` | `connector->ctx`: socket and receive thread | connect, send, receive routine (disconnect exists and is never called) | library (callbacks), service (socket) |
| Service connector, `service/src/connection/socks/` | listening socket, list of connections, observers; per connection a socket, an observer vector, a pump thread | start, accept loop, pump loop, send, (un)register, disconnect, delete | tracker observes it and every connection |
| Message tracker, `service/src/MessageTracker.cpp` | `mPendingRequests`: unique id to connection, under `mRequestsLock` | onNewConnection, onClientDisconnected, track and dispatch a request, route a response, broadcast an indication | pump threads call down; adapter threads call up |
| Request processors, `service/src/processor/` | none | choose the adapter's method by message id | tracker, adapter |
| Android RIL adapter, `service/src/modem_adapters/ril/` | one context per request, used as the RIL token | one method per message id, one handler per RIL request, completion, unsolicited responses | vendor RIL threads, detached threads, tracker |
| Start-up, `service/src/UrilService.cpp`, factory, static config | none after start | wires the parts, starts the connector, sleeps for ever | all |
| Stub adapter, OSAL, protocol structure, message headers, logging | none of interest | | |

What is hard in this code:

* **Threads.** Application threads against the receive thread (client); accept thread, pump
  threads, vendor threads and detached threads (service). Locks are held for single map or
  vector operations; everything between interleaves.
* **Lifetimes.** A synchronous call lends its stack frame to the receive thread; a
  connection deletes itself on its own thread; a RIL context is deleted by the completion
  that finds it complete; a detached thread captures parameters by reference.
* **Identity.** Responses are matched by `unique_id` twice, in the tracker (which has one
  map for all clients) and in the library (which ignores `busy`).
* **Size.** Every response is laid over the 1024 bytes of `payload`
  (`inc/internal/uril_protocol.h:37`); data calls, lists of them and network scans are
  longer.
* **Failure.** Failing sends, timeouts, spurious wake-ups, refused requests, answers that
  come twice, threads that cannot be made, hang-ups with requests pending or in the middle
  of a message, sends to a client that has gone or does not read, failing `accept` and
  `recv`, initialising again.

What makes each part correct:

* library: a call gets its own response, once; slots are never lost to another operation;
  success means answered; a synchronous call returns; nothing is written to a frame that is
  gone; what arrives is delivered;
* connector: what is read are the messages written, whole and in order, in both directions,
  and nothing a client sent first is missed; every observer is told before the connection is
  deleted; the list names living connections; the service outlives its clients, or it is
  known what ends it;
* tracker: a request is answered at most once, on the connection it came from; a deleted
  connection is not used;
* adapter: a completion meets the handler of its request; a context is not used after its
  deletion; a response fits its request; accepted means answered; what arrives of a response
  is what the vendor reported.

`PROJECT.json` lists the hazards line by line with the properties that cover them.

## 2. Modules

| Module | Models | Runs |
|---|---|---|
| `MessageTracker` | the tracker, with adapter and clients as environment | `MCMessageTracker` with three cfgs |
| `MessageTrackerProofs` | theorems about it | (TLAPS) |
| `UrilService` | abstract: what the service promises to a connection | used by `MessageTracker` and `UrilClient` |
| `Commands` | abstract: what the library promises to a call | used by `UrilClient` |
| `UrilClient` | library and client connector, with `UrilService` as environment | `MCUrilClient` with four cfgs |
| `UrilClientProofs` | theorems about it | (TLAPS) |
| `SocketClientConnector` | start-up of the service, connector (Unix and TCP) and connections | `MCSocketClientConnector` with two cfgs |
| `SocketClientConnectorProofs` | theorems about it | (TLAPS) |
| `AndroidRilAdapter` | processors and adapter, with the vendor RIL as environment | `MCAndroidRilAdapter` |
| `AndroidRilAdapterProofs` | theorems about it | (TLAPS) |
| `RilConversions` | the values the adapter's handlers compute, and the deadline of a timed wait | `MCRilConversions` with two cfgs |
| `RilConversionsProofs` | theorems about it | (TLAPS) |

Conventions. Names are the source's. One action is one stretch of code between two points
where another thread can see the difference: a critical section, a call that leaves the
component, a read of a shared field. Variables under the comment "history" are read by
properties only. Definitions named `X_Something` are mutants of `X`: plausible bugs that the
properties must detect. Messages, payloads and RIL data are abstracted to what the
properties tell apart.

**MessageTracker.** `mPendingRequests` maps ids to connections, an absent key to
`NoConnection`. `Track` and `Dispatch` are the locked and the unlocked half of
`trackAndDispatchRequest`; `LookupAndErase` is the critical section of `processResponse`,
`SendResponse` the send after it. Every client counts its ids from its own counter. The
adapter, the environment, is as bad as the code of `AndroidRilAdapter` allows: it answers a
request with its id or with another one (the detached thread of `getRadioModeV1` reads its
id through a dangling reference, and a response that was freed holds any id), and it may
answer a request again (`AnswerAgain`, at most `MaxAgain` times; line 1310 of the adapter).
`odd` remembers those answers. An indication copies the list of connections in two steps
(`BeginIndication`, `CopyConnections`), because `getConnections` takes no lock: a copy
during which connections came or went has read any of the pointers that ever were there, or
ends the process. Then the copy is walked (`SendIndication`). `SendToDeleted` is a send
through a deleted connection: nothing happens, the process dies, or the response goes out to
another client that has the memory or the descriptor now, which `reached` remembers. `owed`
collects the connections that were deleted while something still referred to them, or that a
torn copy named.

**UrilService** joins the two ends. It counts, for every connection and id, the requests
asked and the responses answered: a response is sent only for a request that was asked with
its id on its connection and not answered before, and none on a closed connection; it may
come late, out of order, or never. For a connection that took the place of a deleted one the
contract is `void`: it may get any response (`Stray`). `MessageTracker` implements it
(`ServiceKept`, by a run and by a theorem); `UrilClient` instantiates it as its environment,
with its own variables in the place of the abstract ones, and takes the actions of the
service from it. So what the runs show of the library holds with any service that behaves
like the tracker, whatever the adapter does, on a connection that is not `void`.

**Commands** is the library seen by the application: a call is made, it returns once, its
callback is run at most once, a synchronous call succeeds only with the answer, and the
callback of an asynchronous one that failed is never run. `void` marks the behaviours in
which the application broke the rules (`ProperUse` of `UrilClient`: the context was cleared
under a command being issued, or the ids have come round while operations overlapped), after
which nothing is promised. `CommandsKept` is the refinement.

**UrilClient.** `pc` follows each application thread through
`uril_client_execute_command_async` and `_sync`; `rcv` follows the receive thread of each
connection through lookup, callback and, for synchronous calls, copy, lock and signal.
`frame` is the life of the stack frame (with its mutex and condition) of a synchronous call.
A mutex that a timed-out waiter left locked blocks the receive thread; one that is gone may
let it through or block it. `crossed` records that the context was cleared while a command
was between its checks and its send: several properties hold only without that, and say so.
`wiped` are the calls whose slot a new initialisation has cleared (line 204): their
responses are lost. A slot is filled in three unlocked steps (callback, data, id), and an
initialisation ends in two (`initialized`, then the handle), so that other threads meet
every state between. The application may pass no default callback (`DefaultCbs`); a response
that finds none is dropped. `async_cb_stray` is the callback of a synchronous call run with
NULL, or with the data of an asynchronous call, which it takes for a frame. The message ids
are counted modulo `id_range`, one of `IdRanges`, and start at 1, so the wrap and the id 0
of slots never used are reached; `overlapped` and `issued` tell when an id was used again
while an operation was pending. A callback may issue a command of `NestedCalls`, on the
receive thread (`InCallback`). An indication tests `ind_cb` and calls it in two steps
(`handle_receive_ind`, `invoke_ind_cb`); what a build does that reads `ind_cb` again is a
choice. Allocation failures of the synchronous call's mutex and condition are left out.

**SocketClientConnector.** `boot` is the step of `main` (`MainSteps`) that comes next; a
step that fails ends the process. `transport` is chosen with the connector: the code is
built for one of the two. A message is `FrameLen` units, numbered through per direction. On
a Unix socket `send` takes a message whole or fails (a message of a kilobyte is one buffer
of the kernel); over TCP it takes what there is room for, and what the client writes arrives
in pieces. A client may go away in the middle of a message, or with messages unread: then
the pump's `recv` fails instead of returning 0. `send_to_gone` is the SIGPIPE that nothing
in the service ignores. The client over TCP is not in the repository; it is taken to read
like the one for Unix sockets. The observers of a connection are a vector of raw pointers
with its memory (`mem`) and its `size`, because the loop that tells the observers fixes its
end before they unregister and reads memory behind the new end: `erase(remove())` moves the
kept elements and leaves the rest of the memory as it was, which is what the standard
library's vector does with pointers. `ignitPump` and `assign_mThread` are two steps: the
thread runs before its handle is stored; if no thread can be made, the exception ends the
process. `getConnections` and `getConnections_returns` are the beginning and the end of the
unlocked copy of the list, which a change between them tears; `fatal` remembers which of the
two has ended the process. A message may be sent on any connection, also one whose object is
deleted: what the tracker's map or a copied list holds is not restricted here. The list of
connections is kept as how often it names each of them: nothing depends on its order.

**AndroidRilAdapter.** A context has a state (`live`, `freed`), the RIL request it waits
for, `isCompleted` and the response: its message id, its result and the set of handlers that
filled it. `handleRilResponse` is the handler; `check_completed`, `deliver_response` and
`delete_context` are lines 1310 to 1319, which other threads interleave with.
`deliver_freed` is the delivery of a response that another thread has deleted, or is about
to: a crash, a null pointer, or a message with any id and content; `stale` are the requests
of such contexts. An assertion that fails stops the service (`up`).

**RilConversions.** Every behaviour is one job of the adapter: a registration status (three
handlers filling one response), a data call or a list of them, a network scan, a preference
set and read back, or a timed wait of the client library. The loops over addresses, calls
and networks are one action per round. A C string is what its reader makes of it: a number,
or the sequence of addresses it lists. The addresses of a data call are numbered slots,
because the structure is packed and the loop writes one slot past `pdp_addrs`, into
`gtwy_addr`. Responses lie in a payload of `Payload` bytes, at the offsets of the packed
structures (`SlotAt`, `EntryAt`): the first data call at 8 or 9, calls of 2114 bytes, the
first scan entry at 13, entries of 1042. `beyond` records a write past the payload, after
which the process may die (`heap_breaks`); a call whose head lies there is `spilt`, nothing
is known of it. What lies in the payload is what the client receives, and the properties are
about that. Lengths are in bytes, since the version of a list is guessed from its length;
the sizes are those of the three structures of `ril.h`, which is not part of the repository.
The variable that the deny reason is copied from without having been written is the value
`uninitialised`. `input` remembers what the vendor or the caller gave.

## 3. Runs

| Run | Instance | Result |
|---|---|---|
| `message_tracker` | 2 connections, 2 threads, 2 ids, 1 repeated answer | holds |
| `message_tracker_live` | the same with 1 id and 1 indication, fair | holds |
| `message_tracker_collision` | 2 connections, 1 id | **violated** |
| `uril_client` | 3 calls (sync, own callback, default callback, which may be none), 2 slots, 4 ids | holds |
| `uril_client_live` | 2 calls, one of them also from callbacks, 2 slots, 1 indication, fair | holds |
| `uril_client_reinit` | 2 calls, one also from callbacks, 2 slots, 2 connections, 2 attempts, 1 to 3 ids, fair, until a command is issued across an initialisation | holds |
| `uril_client_timeout` | 2 calls, fair | **violated** |
| `connector` | Unix and TCP, 2 clients, 2 messages in, 2 out, of 2 units, buffer of 3, backlog 1, fair | holds |
| `connector_hang_up` | Unix, 2 clients, nothing sent to them | **violated** |
| `adapter` | 2 requests, 7 message ids, 2 vendor threads, 1 unsolicited, fair | holds |
| `conversions` | payload 1024, 4 addresses, 6 calls, 2 scan entries at most; up to 6 addresses, 8 calls, 4 networks sent; 64 bits | holds |
| `conversions_payload` | the same | **violated** |

What the violated runs show (each a statement of the README or of a header that the code
does not keep):

1. Ids of two clients collide in the tracker's map and a response goes to the wrong client
   (`MessageTracker.cpp:75`). `RoutedHomeUnlessCollision` gives the other reasons for a
   response that goes astray or is dropped: an answer with the wrong id, an answer that is
   not the first to its request, and a connection used after its deletion.
2. A synchronous call that times out leaves its mutex locked, and the receive thread may
   block on it for good (`uril_client.c:363`, `:315`). `ArrivedIsDelivered` shows that
   delivery works, over a second initialisation too, as long as `recv` works, no
   initialisation cleared the slot of the command or met a command being issued (line 204),
   and no synchronous call gave up or was signalled after its return (the signal follows the
   unlock, line 318).
3. A client that hangs up terminates the service (`SocketClientConnector.cpp:159`). The run
   sends nothing to clients; with `MaxResponses` 1 the shortest trace is another one, a
   message sent to a client that has just gone (SIGPIPE, line 220). `EndIsExplained` shows
   what else the connector ends a started service by: a thread that cannot be made (line
   194) and a list that changed while it was copied (line 101). The assertions of the
   adapter, which also end it, are in `AndroidRilAdapter`.
4. The response to a data call, a list of calls or a scan does not fit the message it is
   written into (`AndroidRilAdapter.cpp:1112`, `:1196`, `:968`; `uril_protocol.h:37`): the
   gateway, name servers and P-CSCF of every call, all calls of a list but the first, and
   the mcc, mnc and status of every network lie behind the heap object and are never sent.
   `AddressesAsReported`, `ListReadAsSent` and `ScanReportsCompleteNetworks` say what
   arrives all the same, for any size of the payload.

Bounds and why they are enough.

* Two connections and two threads are what a collision, a misrouting, a race in
  `processResponse` or a disconnect under an indication takes; the theorems hold for any
  number.
* Two slots and three calls fill the table; a freed slot is found by a later lookup with two
  calls. Two initialisations give an old and a new receive thread; `ConnectAttempts` 2 tells
  "one attempt failed" from "all failed". A receive thread of an older connection is also
  the "other thread" that `NestedSyncNeedsOtherThread` speaks of.
* Two clients give the accept thread one connection to set up while another is pumping or
  being deleted; two messages of one client tell order, and the streams of two clients do
  not touch, so the second client sends none. Two units tell a whole message from a part; a
  buffer of three lets a second message be cut.
* Three calls with 4 ids never wrap, so every overlap of the three is checked; in
  `uril_client_reinit` 1 to 3 ids let two calls share an id, use the id 0, or neither. The
  constraint `NotCrossed` stops that run where a command was issued across an
  initialisation: `crossed` stays true and excuses all its properties but
  `NestedSyncNeedsOtherThread`, whose theorem covers the rest. `MaxInds` 1 is one race of an
  indication with a release.
* Two requests and two vendor threads give the overlap of two completions of one context and
  of two contexts. The seven message ids are one per kind of call: the registration chain, a
  handler that asserts on its data and one that does not, a request chosen by its payload,
  the thread of `getRadioModeV1`, a refusal, an id nobody knows.
* The payload and the limits on addresses and calls are the code's 1024, 4 and 6; six
  addresses go past the limit. The limit on scan entries is 2 instead of 32: the second lies
  behind the payload as all later ones do. `AddrText` and `NameText` are the longest texts
  of an address and of a short name that are taken to occur. Of calls, the lengths that two
  versions divide begin at 7, so 8 calls reach them.
* `MaxUid`, `MaxInd`, `MaxAgain`, `MaxInits`, `MaxInds`, `MaxMessages`, `MaxResponses`,
  `MaxUnsol`, `MaxSent` and `MaxScanned` bound counters that grow without limit in the code.

Deadlock is not checked: all five models come to rest when their bounded inputs are used up
or the process has stopped. Being stuck is covered by the liveness properties.

Only `message_tracker` uses symmetry, of connections and of threads, which the specification
treats alike; it checks no liveness property.

Fairness is weak fairness of single threads.

* Tracker: a pump thread between track and dispatch, and a thread in `processResponse`, run
  on (the only lock is held for two map operations); the vendor answers what it accepted.
* Library: a thread inside the library runs on, a timed wait ends, the receive thread takes
  what has arrived. Nothing makes the application call, the service answer or a wait be
  signalled; a callback that has issued no command returns at once, one that has returns
  with it (`CallbackReturns` is the reason why that ends). `uril_client_reinit` checks
  liveness under its constraint: the states that are cut off satisfy `ArrivedIsDelivered` by
  its excuse.
* Connector: accept thread and pump threads run on; clients owe nothing.
* Adapter: vendor threads and detached threads run on, so that RIL requests complete.

## 4. Proofs

`MessageTrackerProofs` proves four invariants and a refinement of `MessageTracker!Spec` for
every set of connections and threads and every bound, from `ConstantsAssumption` alone (the
bounds are naturals, `NoConnection` is no connection).

* `TypeCorrect`: `Spec => []TypeOK`.
* `AtMostOnce`: `Spec => []AtMostOneResponse`. A count of responses sent is not inductive: a
  thread between the erase and the send will increase it. (Connections in `reached`
  excepted.) `OnceInv` adds what a connection is still owed for an id: the map entry and the
  threads that carry it. At most one of "sent", "entry present" and "thread on its way"
  holds, and none without a request. The erase in the same critical section as the read
  turns the second into the third.
* `RoutingCorrect`: `Spec => []RoutedHomeUnlessCollision`. `RouteInv` says of every entry,
  every request on its way to the adapter and every thread where its id came from: as long
  as no collision, no odd answer and no use of a deleted connection excuse it, the entry of
  an id is the connection that asked. `ExcusedForever` shows that an excuse never goes away,
  `TwoOrigins` that two origins of an id are a collision.
* `DisconnectSafety`: `Spec => []QuiescentDisconnectIsSafe`. `QuietInv` says that whatever
  the map or a thread refers to is open or owed.
* `ServiceImplemented`: `Spec => ServiceKept`, the refinement of `UrilService`. `Asked`
  counts the requests received; a step of the tracker is a step of the contract or leaves
  its variables alone (`ContractStep`, `ContractStutters`). A response may be sent because
  `OnceInv` counts what its connection is still owed.

`UrilClientProofs` proves six invariants and a refinement of `UrilClient!Spec`, for any
calls and any number of slots, ids, connections, attempts and indications, from
`ConstantsAssumption`.

* `TypeCorrect`. `TypeOK` is not inductive: `async_cb` may be given data of another call,
  since the callback and the data of a slot are written one after the other. `TypeInv` adds
  that a receive thread which locks, signals or runs the application's callback has data
  that fit (`DataFits`), that a call which fills a slot has one, and the bounds of the
  counters.
* `OwnAnswerOnce` (`OneOwnAnswer`), `SlotsAccountedFor` (`SlotAccounting`) and `DeadWrites`
  (`DeadWriteOnlyAfterGiveUp`) are read off one invariant, `CoreInv`. Its part `Core` holds
  under `ProperUse` only, and `ProperUseBefore` shows that improper use is never forgotten.
  `Core` relates a call to its slot (`CallInv`, `SlotInv`), to the receive thread that has
  looked it up (`HoldInv`: one at a time, with the call's id, before the callback has run or
  while it copies) and to its condition (`SyncInv`). Why a lookup finds the right slot has
  two different reasons, one for each half of `ProperUse`. As long as the ids have not come
  round they tell requests apart (`FreshIds`, `FreshRequests`), and the slot with the id of
  an outstanding request is still that of its call (`FreshMatch`), although freed slots keep
  their ids and `busy` is ignored. After the wrap only a client without overlapping
  operations is promised anything: it has one request outstanding, and its slot is the first
  of the table, so the lookup meets no older slot (`OneAtATime`). `Match` draws the common
  conclusion; there is one lemma per action.
* `QuietRelease` (`QuietReleaseIsSafe`). `IndInv`: a thread between the test and the call of
  `ind_cb` has found it set, or has been overtaken by its clearing.
* `NestedNeedsOtherThread` (`NestedSyncNeedsOtherThread`), however the library is used.
  `NestInv` says that what receive threads hold, and have set, is of calls that have filled
  a slot (`Early` calls are unknown to everybody), with a response that was taken; a thread
  in a callback takes none.
* `PromiseKept`: `Spec => CommandsKept`, the refinement of `Commands`. `CallStep` is what
  one step may do to one call; `CoreInv` excludes the second callback, and the callback of a
  call that has failed.

`SocketClientConnectorProofs` proves seven invariants of `SocketClientConnector!Spec`, for
any set of clients and any number and length of messages, buffer and backlog.

* `ConnectionsConsistent`: the inductive invariant `ConnectionInv`. `LifeInv` gives every
  connection a phase (`Unmade`, `Made`, `Pumped`, `Leaving`, `Deleted`), which fixes its
  observers vector with the memory behind its end, its pump, its place in the list and who
  has been told. `MainInv`, `AcceptInv` and `BacklogInv` tie the phases to `main`, to the
  accept thread and to the waiting clients. The memory is needed because the loop of the
  disconnection reads behind the end of the vector: `ErasedConnector` computes that the
  tracker is what it finds there.
* `ToldBeforeDelete` (`AllToldBeforeDelete`), `ListIsAlive` (`ListedIsAlive`) and
  `EndExplained` (`EndIsExplained`) follow from it.
* `MessagesKept` (`NoMessageMissed`). `RequestsInv`: the stream holds exactly the units
  after the frames taken (`WholeTaken`), until a client over TCP goes away within a message;
  the piece is then the last that is taken, and the stream stays empty (`PieceTaken`).
* `ReceivedAsSent` (`SentIsReceived`). `ResponsesInv`: as long as no message was cut, the
  units under way are those of the messages sent and not read, one after the other
  (`WholeSent`), so on a Unix socket every read meets a message's first unit.
* `TypeCorrect`: `TypeOK`. That units stay within the bounds of the streams needs the two
  invariants before.

`AndroidRilAdapterProofs` proves four invariants of `AndroidRilAdapter!Spec` for every set
of requests, vendor threads and message ids.

* `AdapterTypeCorrect` and `HandlerFits` (`OneRequestUnderWay`: a completion meets the
  handler of its own RIL request). Neither is inductive alone. `AdapterInv` adds what
  threads and contexts know of each other: a thread that delivers or deletes has seen a
  complete context, a freed context was complete, the RIL request a context waits for
  belongs to its message id, and the thread of `getRadioModeV1` has no context.
* `ResponsesFit` (`ResponseFits`), of requests whose context was not used after its
  deletion. `ResponseInv` adds that a registration that waits for a request has been through
  exactly the handlers before it, and that only a completed context can be delivered.
* `RaceTakesTwo` (`RaceNeedsTwoThreads`). `RaceInv` says of every request that two threads
  have completed RIL requests of it and it is a registration (`Raced`), or that it is
  `Calm`: one thread at a time is on it, its context lives until that thread deletes it, and
  it is answered once, by then (`Settled`).

`RilConversionsProofs` proves seven invariants of `RilConversions!Spec`.

* `DeadlineCorrect` (`DeadlineNearTimeout`) for every time of day below a second and every
  timeout. `TimeoutIsEarly` computes the error: 999 nanoseconds for each microsecond of the
  time of day. The invariant says that the deadline is the one of the wait's own input.
* `ListCorrect` (`ListReadAsSent`) for every limit up to the code's 6, on 32 and on 64 bits
  (`SizesAssumption`). `SixCallsAreTold` is the arithmetic; `ListInv` follows the loop over
  the calls.
* `RegistrationCorrect`, and from it `OperatorNamed` (`OperatorNamesTheCell`). `RegInv` says
  which parts of the response each handler has filled in, and with which reply (`FilledIn`).
* `CallsConverted`, and from it `AddressesCorrect` (`AddressesAsReported`), for every limit,
  any payload and any number of addresses. `CallInv` is the invariant of the loop: the slots
  hold the addresses read so far (`ReadSoFar`), and an address past the limit can lie in the
  slot of the gateway only, which is written later (`Gathered`).
* `ScanCorrect` (`ScanReportsCompleteNetworks`), for every limit, any payload and any number
  of networks. An entry is described by the rank of its network among the good ones
  (`IsEntry`), so a name left behind by a skipped network is overwritten by the next one
  (`Scanned`).
* `ReadBack` (`ReadBackAsSet`): the tables of preferences, and those of PDP types, are
  inverse to each other (`PrefInv`, `CallInv`).
* `TypeCorrect`: `TypeOK`, from the types of the parts. It is a statement about the model,
  not that the code stays within its arrays: what it writes behind the payload is `beyond`.

Every safety property of a passing run is thus a theorem. Only model-checked are the
liveness properties `AcceptedIsAnswered` (of the tracker and of the adapter),
`SyncCallReturns`, `CallbackReturns`, `ArrivedIsDelivered` and `WrittenIsDelivered`:
fairness and `ENABLED` are out of the prover's reach. The four violated runs are
counterexamples and need no proof.

## 5. Not modelled

* Values the adapter copies or looks up one by one: failure causes, bearers, authentication
  types, prefix lengths, signal strengths, texts of names; an assert on a length or on a
  link state is an abort of `AndroidRilAdapter`. Deactivation, screen state and network
  selection return a result only.
* The contents of requests, and with them the unchecked copy of a request into the payload
  (`uril_client.c:265`): of the requests of the interface only that of setting data profiles
  is longer than 1024 bytes, and the adapter refuses it.
* Requests that the adapter refuses (cell access state and others return false,
  `AndroidRilAdapter.cpp:1525`) are modelled, and never answered; no property says more of
  them than that the library keeps their slot (`SlotAccounting`).
* A client whose process is ended by SIGPIPE when it sends to a service that has gone: in
  `UrilClient` such a send fails, as it does in an application that ignores the signal.
* `RIL_requestTimedCallback`, which drops the vendor's request for a timed callback: what
  the vendor library does then is outside the repository.
* `stop()` and the code after the endless loop of `main`, which nothing reaches.
* Memory that runs out, log output, the stub adapter, headers without code (voice, SMS,
  eCall), a client connector for TCP (there is none).

## 6. Plan

Done: the components in the order tracker, library, connector, adapter, conversions; the
client's indications, callbacks that issue commands and the wrap of ids; start-up, the TCP
variant and the byte stream; the abstract specifications `UrilService` and `Commands` with
the refinements; a theorem for every safety property that the runs check (section 4). Next:

1. The tables of values of the adapter (failure causes, bearers, signal strengths), should a
   property be found that is more than a copy of them.
2. Shorter proofs: the lemmas of `UrilClientProofs` that show that an action leaves the
   invariant alone repeat one another.
