--------------------- MODULE SocketClientConnectorProofs ---------------------
(***************************************************************************)
(* Proofs about SocketClientConnector, for any set of clients, any length  *)
(* of a message, any buffer and any bounds.                                *)
(***************************************************************************)
EXTENDS SocketClientConnector, SequenceTheorems, FiniteSetTheorems, TLAPS

(* The observers vector through the life of a connection: made, observed   *)
(* by the connector, observed by both, and, while the pump tells them,     *)
(* with one and with none left.  The memory keeps what it held.            *)
Observed1 == [mem |-> <<"connector">>, size |-> 1]
Observed2 == [mem |-> <<"connector", "tracker">>, size |-> 2]
Left1 == [mem |-> <<"tracker", "tracker">>, size |-> 1]
Left0 == [mem |-> <<"tracker", "tracker">>, size |-> 0]

-----------------------------------------------------------------------------
(* Clients are accepted only after main has made everything, for a         *)
(* transport of the build.                                                 *)
MainInv ==
  /\ boot \in 1..8 /\ up \in BOOLEAN
  /\ transport \in Transports \cup {"none"}
  /\ IF boot = 1 THEN transport = "none" ELSE transport \in Transports
  /\ accepting \in {"off", "listen", "failed", "accept", "notify", "ignit", "assign",
                    "ended"}
  /\ accepting # "off" => boot = 8

(* The client the accept thread is setting up. *)
SettingUp(c) == current = <<c>>

AcceptInv ==
  /\ current \in {<<>>} \cup {<<c>> : c \in Clients}
  /\ current # <<>> <=> accepting \in {"notify", "ignit", "assign"}

(* Who waits in the backlog has connected, waits there once, and has no    *)
(* connection object.                                                      *)
BacklogInv ==
  /\ backlog \in Seq(Clients)
  /\ \A i \in 1..Len(backlog) :
       object[backlog[i]] = "none" /\ client[backlog[i]] # "out"
  /\ \A i, j \in 1..Len(backlog) : backlog[i] = backlog[j] => i = j

(* The life of a connection: what its observers, its pump thread, the list *)
(* and the history of the disconnection are in each phase of it.           *)
Unmade(c) ==
  /\ object[c] = "none" /\ ~SettingUp(c)
  /\ mObservers[c] = EmptyVector /\ pump[c] = NoPump
  /\ mConnections[c] = 0
  /\ told[c]["connector"] = 0 /\ told[c]["tracker"] = 0

Made(c) ==
  /\ object[c] = "alive" /\ SettingUp(c) /\ accepting \in {"notify", "ignit"}
  /\ mObservers[c] = IF accepting = "notify" THEN Observed1 ELSE Observed2
  /\ pump[c] = NoPump
  /\ mConnections[c] = 1
  /\ told[c]["connector"] = 0 /\ told[c]["tracker"] = 0

Pumped(c) ==
  /\ object[c] = "alive" /\ (SettingUp(c) => accepting = "assign")
  /\ mObservers[c] = Observed2
  /\ \/ pump[c].st \in {"recv", "ended"} /\ pump[c].at = 0 /\ pump[c].end = 0
     \/ pump[c].st = "telling" /\ pump[c].at = 1 /\ pump[c].end = 2
  /\ mConnections[c] = 1
  /\ told[c]["connector"] = 0 /\ told[c]["tracker"] = 0

Leaving(c) ==
  /\ object[c] = "alive" /\ (SettingUp(c) => accepting = "assign")
  /\ pump[c].st = "telling" /\ pump[c].end = 2
  /\ mConnections[c] = 0
  /\ told[c]["connector"] = 1
  /\ \/ pump[c].at = 2 /\ mObservers[c] = Left1 /\ told[c]["tracker"] = 0
     \/ pump[c].at = 3 /\ mObservers[c] = Left0 /\ told[c]["tracker"] = 1

Deleted(c) ==
  /\ object[c] = "freed" /\ (SettingUp(c) => accepting = "assign")
  /\ pump[c].st = "ended" /\ pump[c].at = 3 /\ pump[c].end = 2
  /\ mObservers[c] = Left0
  /\ mConnections[c] = 0
  /\ told[c]["connector"] = 1 /\ told[c]["tracker"] = 1

Phase(c) == Unmade(c) \/ Made(c) \/ Pumped(c) \/ Leaving(c) \/ Deleted(c)

(* A connection is a client's, and the service lets go of it only when the *)
(* client has closed.                                                      *)
Attached(c) ==
  /\ object[c] # "none" => boot = 8 /\ client[c] # "out"
  /\ pump[c].st = "telling" \/ object[c] = "freed" => client[c] = "closed"

LifeInv == \A c \in Clients : Phase(c) /\ Attached(c)

(* The tables have their shapes. *)
ShapeInv ==
  /\ object \in [Clients -> {"none", "alive", "freed"}]
  /\ mObservers \in [Clients -> Vectors]
  /\ mThread \in [Clients -> BOOLEAN]
  /\ mConnections \in [Clients -> Nat]
  /\ pump \in [Clients -> [st : {"none", "recv", "telling", "ended"}, at : 0..3,
                           end : 0..2]]
  /\ client \in [Clients -> {"out", "connected", "closed", "reset"}]
  /\ told \in [Clients -> [Observer -> 0..2]]
  /\ strayWrite \subseteq Clients

ConnectionInv ==
  MainInv /\ AcceptInv /\ BacklogInv /\ ShapeInv /\ LifeInv /\ EndIsExplained

-----------------------------------------------------------------------------
(* What the client has written and the pump has taken.  The stream holds   *)
(* the units after the frames taken, as long as these are whole; once a    *)
(* piece has been taken the stream is empty and stays so.                  *)
WholeTaken(c) ==
  /\ wrote[c] = Len(taken[c]) * FrameLen + Len(stream[c])
  /\ \A i \in 1..Len(stream[c]) : stream[c][i] = Len(taken[c]) * FrameLen + i
  /\ \A i \in 1..Len(taken[c]) : taken[c][i] = Frame(i)

PieceTaken(c) ==
  /\ transport = "tcp" /\ Gone(c)
  /\ stream[c] = <<>> /\ taken[c] # <<>>
  /\ \A i \in 1..(Len(taken[c]) - 1) : taken[c][i] = Frame(i)
  /\ LET k == Len(taken[c]) IN
       \E n \in 1..(FrameLen - 1) : taken[c][k] = First(n, Frame(k))

RequestsInv ==
  /\ stream \in [Clients -> Seq(Nat)] /\ wrote \in [Clients -> Nat]
  /\ taken \in [Clients -> Seq(Seq(Nat))] /\ delivered = taken
  /\ \A c \in Clients :
       /\ WholeTaken(c) \/ PieceTaken(c)
       /\ wrote[c] <= MaxMessages[c] * FrameLen
       /\ Len(taken[c]) <= MaxMessages[c]
       /\ client[c] = "out" => wrote[c] = 0
       /\ client[c] # "out" => boot = 8
       /\ transport # "tcp" => \E m \in Nat : wrote[c] = m * FrameLen

-----------------------------------------------------------------------------
(* How many messages have been sent whole before the first that was cut. *)
Whole(c) == IF cut[c] = 0 THEN Len(sent[c]) ELSE cut[c] - 1

(* What the service has sent and the client has read: of the messages not  *)
(* yet read, those before the cut are under way one after the other, and   *)
(* there are no more units than these messages have.                       *)
WholeSent(c) ==
  LET read == Len(got[c])
      left == Len(sent[c]) - read
      open == Whole(c) - read
  IN
  /\ cut[c] \in 0..Len(sent[c])
  /\ Len(down[c]) <= left * FrameLen
  /\ open >= 0 => open * FrameLen <= Len(down[c])
  /\ \A j \in 1..open : \A i \in 1..FrameLen :
       down[c][(j - 1) * FrameLen + i] = Frame(sent[c][read + j])[i]
  /\ \A i \in 1..read : i <= Whole(c) => got[c][i] = Frame(sent[c][i])

ResponsesInv ==
  /\ down \in [Clients -> Seq(UnitsOf(MaxResponses))]
  /\ sends \in 0..MaxResponses /\ cut \in [Clients -> Nat]
  /\ sent \in [Clients -> Seq(1..MaxResponses)]
  /\ got \in [Clients -> Seq([1..FrameLen -> UnitsOf(MaxResponses)])]
  /\ transport # "tcp" => \A c \in Clients : cut[c] = 0
  /\ \A c \in Clients : Len(down[c]) <= Buffer /\ WholeSent(c)

-----------------------------------------------------------------------------
(* Facts about the constants and the vectors.                              *)

LEMMA Constants ==
  /\ Transports \subseteq {"unix", "tcp"}
  /\ FrameLen \in Nat /\ FrameLen >= 1 /\ Buffer \in Nat /\ MaxResponses \in Nat
  /\ MaxMessages \in [Clients -> Nat]
<1>1. FrameLen \in Nat /\ FrameLen # 0
  BY ConstantsAssumption, Zenon
<1> QED
  BY <1>1, ConstantsAssumption

(* The vectors of the five phases, and what their cells hold. *)
LEMMA VectorCells ==
  /\ EmptyVector \in Vectors /\ Observed1 \in Vectors /\ Observed2 \in Vectors
  /\ Left1 \in Vectors /\ Left0 \in Vectors
  /\ EmptyVector.size = 0 /\ Observed2.size = 2 /\ Left1.size = 1 /\ Left0.size = 0
  /\ Observed2.mem[1] = "connector" /\ Observed2.mem[2] = "tracker"
  /\ Left1.mem[2] = "tracker" /\ Observed1.size = 1 /\ Observed1.mem[1] = "connector"
<1> DEFINE Mems == UNION {[1..n -> Observer] : n \in 0..2}
<1>0. <<>> \in [1..0 -> Observer] /\ <<"connector">> \in [1..1 -> Observer]
      /\ <<"connector", "tracker">> \in [1..2 -> Observer]
      /\ <<"tracker", "tracker">> \in [1..2 -> Observer]
  BY DEF Observer
<1>1. <<>> \in Mems /\ <<"connector">> \in Mems /\ <<"connector", "tracker">> \in Mems
      /\ <<"tracker", "tracker">> \in Mems
  BY <1>0
<1> QED
  BY <1>1 DEF Vectors, EmptyVector, Observed1, Observed2, Left1, Left0

LEMMA Pushed ==
  /\ PushBack(EmptyVector, "connector") = Observed1
  /\ PushBack(Observed1, "tracker") = Observed2
<1>1. Elements(EmptyVector) = <<>> /\ EmptyVector.size = 0
  BY DEF Elements, EmptyVector
<1>2. Elements(Observed1) = <<"connector">> /\ Observed1.size = 1
  <2>1. <<"connector">> \in Seq(Observer) /\ Len(<<"connector">>) = 1
    BY DEF Observer
  <2> QED
    BY <2>1, SubSeqFull DEF Elements, Observed1
<1>3. Append(<<>>, "connector") = <<"connector">>
  OBVIOUS
<1>4. Append(<<"connector">>, "tracker") = <<"connector", "tracker">>
  <2> DEFINE s == Append(<<"connector">>, "tracker")
             t == <<"connector", "tracker">>
  <2>1. <<"connector">> \in Seq(Observer) /\ "tracker" \in Observer
        /\ Len(<<"connector">>) = 1 /\ <<"connector">>[1] = "connector"
    BY DEF Observer
  <2>2. s \in Seq(Observer) /\ Len(s) = 2 /\ s[1] = "connector" /\ s[2] = "tracker"
    BY <2>1, AppendProperties
  <2>3. t \in Seq(Observer) /\ Len(t) = 2 /\ t[1] = "connector" /\ t[2] = "tracker"
    BY DEF Observer
  <2> HIDE DEF s, t
  <2>4. s = t
    BY <2>2, <2>3, SeqEqual
  <2> QED
    BY <2>4 DEF s, t
<1> QED
  BY <1>1, <1>2, <1>3, <1>4 DEF PushBack, Observed1, Observed2

(* Unregistering the connector moves the tracker to the front and leaves   *)
(* it, too, where the iteration looks next.                                *)
LEMMA ErasedConnector == Erase(Observed2, "connector") = Left1
<1> DEFINE v == Observed2
           kept == {i \in 1..v.size : v.mem[i] # "connector"}
           rank(i) == Cardinality({j \in kept : j <= i})
           place(k) == CHOOSE i \in kept : rank(i) = k
<1>1. kept = {2}
  BY DEF Observed2
<1>2. Cardinality(kept) = 1
  BY <1>1, FS_Singleton
<1>3. place(1) = 2
  <2>1. {j \in kept : j <= 2} = {2}
    BY <1>1
  <2>2. rank(2) = 1
    BY <2>1, FS_Singleton
  <2> QED
    BY <1>1, <2>2
<1>4. [k \in 1..Len(v.mem) |->
         IF k <= Cardinality(kept) THEN v.mem[place(k)] ELSE v.mem[k]]
      = <<"tracker", "tracker">>
  <2>1. Len(v.mem) = 2 /\ v.mem[2] = "tracker"
    BY DEF Observed2
  <2> HIDE DEF kept, rank, v, place
  <2> DEFINE cell(k) == IF k <= Cardinality(kept)
                        THEN v.mem[place(k)] ELSE v.mem[k]
  <2>2. cell(1) = "tracker"
    BY <1>2, <1>3, <2>1
  <2>3. cell(2) = "tracker"
    BY <1>2, <2>1
  <2> HIDE DEF cell
  <2>4. [k \in 1..Len(v.mem) |-> cell(k)] = <<"tracker", "tracker">>
    BY <2>1, <2>2, <2>3
  <2> QED
    BY <2>4 DEF cell
<1> QED
  BY <1>2, <1>4 DEF Erase, Left1

LEMMA ErasedTracker == Erase(Left1, "tracker") = Left0
<1> DEFINE v == Left1
           kept == {i \in 1..v.size : v.mem[i] # "tracker"}
<1>1. kept = {}
  BY DEF Left1
<1>2. Cardinality(kept) = 0
  BY <1>1, FS_EmptySet
<1>3. Len(v.mem) = 2 /\ v.mem[1] = "tracker" /\ v.mem[2] = "tracker"
  BY DEF Left1
<1>4. [k \in 1..Len(v.mem) |->
         IF k <= Cardinality(kept)
         THEN v.mem[CHOOSE i \in kept : Cardinality({j \in kept : j <= i}) = k]
         ELSE v.mem[k]] = <<"tracker", "tracker">>
  BY <1>2, <1>3
<1> QED
  BY <1>2, <1>4 DEF Erase, Left0

(* When main has started the connector it has made and linked the rest. *)
LEMMA AllMade == boot = 8 => Done("tracker") /\ Done("next")
  BY DEF Done, MainSteps

(* Each step of main is at its place. *)
LEMMA Steps ==
  ASSUME boot \in 1..8
  PROVE  /\ \A step : At(step) => boot <= 7
         /\ At("connector") <=> boot = 1
         /\ At("start") <=> boot = 7
         /\ At("init") <=> boot = 6
         /\ At("adapter") \/ At("tracker") \/ At("processor") \/ At("next") => boot \in 2..5
  BY DEF At, MainSteps

-----------------------------------------------------------------------------
(* The connections.                                                        *)

LEMMA PhaseKept ==
  ASSUME NEW d \in Clients, Phase(d),
         object'[d] = object[d], mObservers'[d] = mObservers[d], pump'[d] = pump[d],
         mConnections'[d] = mConnections[d], told'[d] = told[d],
         SettingUp(d)' <=> SettingUp(d), SettingUp(d) => accepting' = accepting
  PROVE  Phase(d)'
<1>1. CASE Unmade(d)
  BY <1>1 DEF Phase, Unmade
<1>2. CASE Made(d)
  BY <1>2 DEF Phase, Made
<1>3. CASE Pumped(d)
  BY <1>3 DEF Phase, Pumped
<1>4. CASE Leaving(d)
  BY <1>4 DEF Phase, Leaving
<1>5. CASE Deleted(d)
  BY <1>5 DEF Phase, Deleted
<1> QED
  BY <1>1, <1>2, <1>3, <1>4, <1>5 DEF Phase

(* A step of main changes no connection: there is none yet. *)
LEMMA MainStep ==
  ASSUME ConnectionInv, NEW ok \in BOOLEAN,
         \/ createClientConnector \/ main_creates \/ init_adapter(ok)
         \/ start_unix(ok) \/ start_tcp(ok) \/ listen(ok)
  PROVE  ConnectionInv'
<1> USE DEF ConnectionInv
<1>0. boot \in 1..8
  BY DEF MainInv
<1>1. UNCHANGED <<current, backlog, mConnections, object, mObservers, mThread, pump,
                  client, told, strayWrite>>
  BY DEF createClientConnector, main_creates, init_adapter, start_unix, start_tcp, listen,
         StartsAccepting, ConnectionsUntouched, clientVars, history
<1>2. /\ up /\ up' \in BOOLEAN
      /\ boot' \in 1..8 /\ (boot = 8 => boot' = 8)
      /\ IF boot' = 1 THEN transport' = "none" ELSE transport' \in Transports
  BY <1>0, Steps DEF createClientConnector, main_creates, init_adapter, start_unix,
         start_tcp, listen, StartsAccepting, MainGoesOn, getConfig, MainInv, mainVars
<1>3. \/ accepting' = accepting
      \/ accepting = "off" /\ accepting' = "listen" /\ boot' = 8
      \/ accepting = "listen" /\ accepting' \in {"accept", "failed"} /\ boot' = boot
  BY <1>0, Steps DEF createClientConnector, main_creates, init_adapter, start_unix,
         start_tcp, listen, StartsAccepting, MainGoesOn, MainInv, mainVars
<1>4. MainInv'
  BY <1>2, <1>3 DEF MainInv
<1>5. AcceptInv'
  BY <1>1, <1>3 DEF AcceptInv
<1>6. BacklogInv'
  BY <1>1 DEF BacklogInv
<1>7. ShapeInv'
  BY <1>1 DEF ShapeInv
<1>8. LifeInv'
  <2>1. \A c \in Clients : SettingUp(c) => accepting' = accepting
    BY <1>3 DEF AcceptInv, SettingUp
  <2>2. ASSUME NEW c \in Clients PROVE Phase(c)'
    BY <1>1, <2>1, PhaseKept DEF LifeInv, SettingUp
  <2>3. ASSUME NEW c \in Clients PROVE Attached(c)'
    BY <1>1, <1>2 DEF LifeInv, Attached
  <2> QED
    BY <2>2, <2>3 DEF LifeInv
<1>9. EndIsExplained'
  <2>1. ~up' => accepting' = "off"
    <3>1. CASE createClientConnector \/ main_creates \/ listen(ok)
      BY <1>2, <3>1 DEF createClientConnector, main_creates, listen
    <3>2. CASE init_adapter(ok)
      <4>1. boot = 6 /\ accepting' = accepting
        BY <1>0, <3>2, Steps DEF init_adapter
      <4> QED
        BY <4>1 DEF MainInv
    <3>3. CASE start_unix(ok) \/ start_tcp(ok)
      <4>1. boot = 7 /\ up' = ok /\ (~ok => accepting' = accepting)
        BY <1>0, <3>3, Steps DEF start_unix, start_tcp, StartsAccepting
      <4> QED
        BY <4>1 DEF MainInv
    <3> QED
      BY <3>1, <3>2, <3>3
  <2> QED
    BY <2>1 DEF EndIsExplained
<1> QED
  BY <1>4, <1>5, <1>6, <1>7, <1>8, <1>9

(* A step that only moves units leaves the connections as they are. *)
LEMMA ConnectionKept ==
  ASSUME ConnectionInv,
         UNCHANGED <<mainVars, up, acceptVars, mConnections, object, mObservers, mThread,
                     pump, client, history>>
  PROVE  ConnectionInv'
<1> USE DEF ConnectionInv, mainVars, acceptVars, history
<1>1. MainInv' /\ AcceptInv' /\ BacklogInv'
  BY DEF MainInv, AcceptInv, BacklogInv
<1>2. ShapeInv' /\ EndIsExplained'
  BY DEF ShapeInv, EndIsExplained, Gone
<1>3. LifeInv'
  <2>1. ASSUME NEW c \in Clients PROVE Phase(c)' /\ Attached(c)'
    BY PhaseKept DEF LifeInv, Attached, SettingUp
  <2> QED
    BY <2>1 DEF LifeInv
<1> QED
  BY <1>1, <1>2, <1>3

(* A client comes or goes. *)
LEMMA ClientStep ==
  ASSUME ConnectionInv, NEW c \in Clients, connect(c) \/ client_closes(c)
  PROVE  ConnectionInv'
<1> USE DEF ConnectionInv
<1>1. UNCHANGED <<mainVars, up, accepting, current, mConnections, object, mObservers,
                  mThread, pump, told, strayWrite>>
  BY DEF connect, client_closes, ServiceUntouched, acceptVars, history
<1>2. /\ up
      /\ client[c] \in {"out", "connected"}
      /\ client' \in [Clients -> {"out", "connected", "closed", "reset"}]
      /\ client'[c] # "out" /\ \A d \in Clients \ {c} : client'[d] = client[d]
  BY DEF connect, client_closes, ShapeInv
<1>3. MainInv' /\ AcceptInv'
  BY <1>1 DEF MainInv, AcceptInv, mainVars
<1>4. ShapeInv' /\ EndIsExplained'
  BY <1>1, <1>2 DEF ShapeInv, EndIsExplained
<1>5. LifeInv'
  <2>1. ASSUME NEW d \in Clients PROVE Phase(d)'
    BY <1>1, PhaseKept DEF LifeInv, SettingUp
  <2>2. ASSUME NEW d \in Clients PROVE Attached(d)'
    BY <1>1, <1>2 DEF LifeInv, Attached, mainVars
  <2> QED
    BY <2>1, <2>2 DEF LifeInv
<1>6. BacklogInv'
  <2>1. CASE connect(c)
    <3>1. /\ backlog \in Seq(Clients) /\ backlog' \in Seq(Clients)
          /\ Len(backlog') = Len(backlog) + 1
          /\ backlog'[Len(backlog')] = c
          /\ \A i \in 1..Len(backlog) : backlog'[i] = backlog[i]
      BY <2>1, AppendProperties DEF connect, BacklogInv
    <3>2. \A i \in 1..Len(backlog) : backlog[i] \in Clients /\ backlog[i] # c
      BY <2>1, <3>1, ElementOfSeq DEF connect, BacklogInv
    <3>3. object[c] = "none"
      BY <2>1 DEF connect, LifeInv, Attached
    <3> QED
      BY <1>1, <1>2, <3>1, <3>2, <3>3 DEF BacklogInv
  <2>2. CASE client_closes(c)
    <3>1. backlog' = backlog
      BY <2>2 DEF client_closes, acceptVars
    <3>2. \A i \in 1..Len(backlog) : backlog[i] \in Clients
      BY ElementOfSeq DEF BacklogInv
    <3> QED
      BY <1>1, <1>2, <3>1, <3>2 DEF BacklogInv
  <2> QED
    BY <2>1, <2>2
<1> QED
  BY <1>3, <1>4, <1>5, <1>6

(* The pump thread of one connection goes to another state. *)
LEMMA PumpShape ==
  ASSUME ShapeInv, NEW c \in Clients, NEW st \in {"none", "recv", "telling", "ended"}
  PROVE  [pump EXCEPT ![c].st = st] \in
            [Clients -> [st : {"none", "recv", "telling", "ended"}, at : 0..3, end : 0..2]]
<1> DEFINE T == [st : {"none", "recv", "telling", "ended"}, at : 0..3, end : 0..2]
<1>1. [pump[c] EXCEPT !.st = st] \in T
  BY DEF ShapeInv
<1> HIDE DEF T
<1>2. pump \in [Clients -> T]
  BY DEF ShapeInv, T
<1>3. [pump EXCEPT ![c] = [@ EXCEPT !.st = st]] \in [Clients -> T]
  BY <1>1, <1>2
<1> QED
  BY <1>3 DEF T

(* The accept loop: the client at the head of the backlog gets an object,  *)
(* the two observers, a pump thread and, last, the handle of the thread.   *)
LEMMA AcceptStep ==
  ASSUME ConnectionInv, accept
  PROVE  ConnectionInv'
<1> USE DEF ConnectionInv
<1>a. /\ backlog \in Seq(Clients) /\ backlog # <<>>
      /\ Head(backlog) \in Clients /\ Head(backlog) = backlog[1] /\ Len(backlog) >= 1
  BY HeadTailProperties, EmptySeq DEF accept, BacklogInv
<1>0. PICK c \in Clients :
        /\ backlog \in Seq(Clients) /\ backlog # <<>>
        /\ c = Head(backlog) /\ c = backlog[1] /\ Len(backlog) >= 1
  BY <1>a
<1>1. object[c] = "none" /\ client[c] # "out" /\ Unmade(c)
  BY <1>0 DEF BacklogInv, LifeInv, Phase, Made, Pumped, Leaving, Deleted
<1>2. /\ up /\ accepting = "accept" /\ accepting' = "notify" /\ boot = 8 /\ current = <<>>
      /\ UNCHANGED <<boot, transport, up, mThread, pump, client, told, strayWrite>>
      /\ backlog' = Tail(backlog) /\ current' = <<c>>
      /\ object' = [object EXCEPT ![c] = "alive"]
      /\ mConnections' = [mConnections EXCEPT ![c] = @ + 1]
      /\ mObservers' = [mObservers EXCEPT ![c] = Observed1]
  BY <1>0, Pushed DEF accept, MainInv, AcceptInv, mainVars, clientVars, history
<1>3. MainInv' /\ AcceptInv' /\ EndIsExplained'
  BY <1>0, <1>2 DEF MainInv, AcceptInv, EndIsExplained
<1>4. BacklogInv'
  <2>1. /\ backlog' \in Seq(Clients) /\ Len(backlog') = Len(backlog) - 1
        /\ \A i \in 1..Len(backlog') : backlog'[i] = backlog[i + 1]
    BY <1>0, <1>2, HeadTailProperties, LenProperties
  <2>2. \A i \in 1..Len(backlog') : backlog'[i] \in Clients /\ backlog'[i] # c
    BY <1>0, <2>1, ElementOfSeq DEF BacklogInv
  <2>3. \A i \in 1..Len(backlog') :
          object'[backlog'[i]] = "none" /\ client'[backlog'[i]] # "out"
    BY <1>0, <1>2, <2>1, <2>2 DEF BacklogInv, ShapeInv
  <2>4. \A i, j \in 1..Len(backlog') : backlog'[i] = backlog'[j] => i = j
    BY <1>0, <2>1 DEF BacklogInv
  <2> QED
    BY <2>1, <2>3, <2>4 DEF BacklogInv
<1>5. ShapeInv'
  BY <1>0, <1>2, VectorCells DEF ShapeInv
<1>6. LifeInv'
  <2>1. Phase(c)' /\ Attached(c)'
    <3>1. /\ object'[c] = "alive" /\ mObservers'[c] = Observed1
          /\ mConnections'[c] = mConnections[c] + 1
      BY <1>0, <1>2 DEF ShapeInv
    <3>2. Made(c)'
      BY <1>1, <1>2, <3>1 DEF Made, Unmade, SettingUp
    <3>3. Attached(c)'
      BY <1>1, <1>2, <3>1 DEF Attached, Unmade, NoPump
    <3> QED
      BY <3>2, <3>3 DEF Phase
  <2>2. ASSUME NEW d \in Clients, d # c PROVE Phase(d)' /\ Attached(d)'
    <3>1. /\ object'[d] = object[d] /\ mObservers'[d] = mObservers[d]
          /\ mConnections'[d] = mConnections[d]
      BY <1>0, <1>2, <2>2 DEF ShapeInv
    <3>2. ~SettingUp(d) /\ ~SettingUp(d)'
      BY <1>2, <2>2 DEF SettingUp
    <3> QED
      BY <1>2, <3>1, <3>2, PhaseKept DEF LifeInv, Attached
  <2> QED
    BY <2>1, <2>2 DEF LifeInv
<1> QED
  BY <1>3, <1>4, <1>5, <1>6

LEMMA AcceptFailsStep ==
  ASSUME ConnectionInv, accept_fails
  PROVE  ConnectionInv'
<1> USE DEF ConnectionInv
<1>1. /\ up /\ accepting = "accept" /\ accepting' = "ended" /\ current = <<>>
      /\ UNCHANGED <<boot, transport, up, current, backlog, mConnections, object,
                     mObservers, mThread, pump, client, told, strayWrite>>
  BY DEF accept_fails, AcceptInv, mainVars, clientVars, history
<1>2. MainInv' /\ AcceptInv' /\ BacklogInv' /\ ShapeInv' /\ EndIsExplained'
  BY <1>1 DEF MainInv, AcceptInv, BacklogInv, ShapeInv, EndIsExplained
<1>3. ASSUME NEW d \in Clients PROVE Phase(d)' /\ Attached(d)'
  BY <1>1, PhaseKept DEF LifeInv, Attached, SettingUp
<1> QED
  BY <1>2, <1>3 DEF LifeInv

(* The client being set up, and what the steps for it leave alone. *)
LEMMA SetUpStep ==
  ASSUME ConnectionInv, notify_new_connection \/ ignitPump(TRUE) \/ assign_mThread
  PROVE  ConnectionInv'
<1> USE DEF ConnectionInv
<1>1. accepting \in {"notify", "ignit", "assign"}
  BY DEF notify_new_connection, ignitPump, assign_mThread
<1>2. PICK c \in Clients : current = <<c>>
  BY <1>1 DEF AcceptInv
<1>3. /\ up /\ boot = 8 /\ current[1] = c
      /\ UNCHANGED <<boot, transport, up, backlog, mConnections, object, client, told>>
  BY <1>1, <1>2 DEF notify_new_connection, ignitPump, assign_mThread, MainInv, mainVars,
                    clientVars, history
<1>4. ~Unmade(c) /\ Phase(c) /\ Attached(c)
  BY <1>2 DEF Unmade, SettingUp, LifeInv
<1>5. /\ accepting' \in {"ignit", "assign", "accept"}
      /\ accepting' \in {"ignit", "assign"} => current' = current
      /\ accepting' = "accept" => current' = <<>>
  BY DEF notify_new_connection, ignitPump, assign_mThread
<1>6. MainInv' /\ AcceptInv' /\ BacklogInv' /\ EndIsExplained'
  BY <1>2, <1>3, <1>5 DEF MainInv, AcceptInv, BacklogInv, EndIsExplained
<1>7. ASSUME NEW d \in Clients, d # c,
             mObservers'[d] = mObservers[d], pump'[d] = pump[d]
      PROVE  Phase(d)' /\ Attached(d)'
  <2>1. ~SettingUp(d) /\ ~SettingUp(d)'
    BY <1>2, <1>5, <1>7 DEF SettingUp
  <2> QED
    BY <1>3, <1>7, <2>1, PhaseKept DEF LifeInv, Attached
<1>8. CASE notify_new_connection
  <2>1. /\ Made(c) /\ accepting = "notify" /\ accepting' = "ignit"
        /\ UNCHANGED <<mThread, pump, strayWrite, current>>
    BY <1>2, <1>4, <1>8 DEF notify_new_connection, Phase, Pumped, Leaving, Deleted,
                            SettingUp, history
  <2>2. mObservers' = [mObservers EXCEPT ![c] = Observed2]
    BY <1>3, <1>8, <2>1, AllMade, Pushed DEF notify_new_connection, Made
  <2>3. mObservers'[c] = Observed2 /\ \A d \in Clients \ {c} : mObservers'[d] = mObservers[d]
    BY <2>2 DEF ShapeInv
  <2>4. ShapeInv'
    BY <1>3, <2>1, <2>2, VectorCells DEF ShapeInv
  <2>5. Phase(c)' /\ Attached(c)'
    BY <1>3, <1>4, <2>1, <2>3 DEF Phase, Made, Attached, SettingUp
  <2> QED
    BY <1>6, <1>7, <2>1, <2>3, <2>4, <2>5 DEF LifeInv
<1>9. CASE ignitPump(TRUE)
  <2>1. /\ Made(c) /\ accepting = "ignit" /\ accepting' = "assign"
        /\ UNCHANGED <<mThread, mObservers, strayWrite, current>>
    BY <1>2, <1>4, <1>9 DEF ignitPump, Phase, Pumped, Leaving, Deleted, SettingUp, history
  <2>2. /\ pump' = [pump EXCEPT ![c].st = "recv"]
        /\ pump'[c].st = "recv" /\ pump'[c].at = pump[c].at /\ pump'[c].end = pump[c].end
        /\ \A d \in Clients \ {c} : pump'[d] = pump[d]
    BY <1>3, <1>9 DEF ignitPump, ShapeInv
  <2>4. ShapeInv'
    BY <1>3, <2>1, <2>2, PumpShape DEF ShapeInv
  <2>5. Phase(c)'
    <3>1. Pumped(c)'
      BY <1>3, <2>1, <2>2 DEF Made, Pumped, NoPump, SettingUp
    <3> QED
      BY <3>1 DEF Phase
  <2>6. Attached(c)'
    BY <1>3, <1>4, <2>1, <2>2 DEF Attached, Made
  <2> QED
    BY <1>6, <1>7, <2>1, <2>2, <2>4, <2>5, <2>6 DEF LifeInv
<1>10. CASE assign_mThread
  <2>1. /\ accepting = "assign" /\ accepting' = "accept" /\ current' = <<>>
        /\ UNCHANGED <<mObservers, pump>>
        /\ mThread' = [mThread EXCEPT ![c] = TRUE]
        /\ strayWrite' \in {strayWrite, strayWrite \cup {c}}
    BY <1>3, <1>10 DEF assign_mThread
  <2>2. ShapeInv'
    BY <1>3, <2>1 DEF ShapeInv
  <2>3. Phase(c)' /\ Attached(c)'
    <3>1. ~SettingUp(c)'
      BY <2>1 DEF SettingUp
    <3> QED
      BY <1>3, <1>4, <2>1, <3>1 DEF Phase, Made, Pumped, Leaving, Deleted, Attached
  <2> QED
    BY <1>6, <1>7, <2>1, <2>2, <2>3 DEF LifeInv
<1> QED
  BY <1>8, <1>9, <1>10

(* A step of the pump thread of c touches no other connection. *)
LEMMA OthersPumped ==
  ASSUME ConnectionInv, NEW c \in Clients,
         UNCHANGED <<boot, accepting, current, client>>,
         \A d \in Clients \ {c} :
           /\ object'[d] = object[d] /\ mObservers'[d] = mObservers[d]
           /\ pump'[d] = pump[d] /\ mConnections'[d] = mConnections[d]
           /\ told'[d] = told[d],
         Phase(c)' /\ Attached(c)'
  PROVE  LifeInv'
<1>1. ASSUME NEW d \in Clients, d # c PROVE Phase(d)' /\ Attached(d)'
  BY <1>1, PhaseKept DEF ConnectionInv, LifeInv, Attached, SettingUp
<1> QED
  BY <1>1 DEF LifeInv

LEMMA PumpErrorStep ==
  ASSUME ConnectionInv, NEW c \in Clients, pump_error(c)
  PROVE  ConnectionInv'
<1> USE DEF ConnectionInv
<1>1. /\ up /\ pump[c].st = "recv" /\ pump' = [pump EXCEPT ![c].st = "ended"]
      /\ UNCHANGED <<boot, transport, up, accepting, current, backlog, mConnections, object,
                     mObservers, mThread, client, told, strayWrite>>
  BY DEF pump_error, mainVars, acceptVars, clientVars, history
<1>2. MainInv' /\ AcceptInv' /\ BacklogInv' /\ EndIsExplained'
  BY <1>1 DEF MainInv, AcceptInv, BacklogInv, EndIsExplained
<1>3. ShapeInv'
  BY <1>1, PumpShape DEF ShapeInv
<1>4. /\ pump'[c].st = "ended" /\ pump'[c].at = pump[c].at /\ pump'[c].end = pump[c].end
      /\ \A d \in Clients \ {c} : pump'[d] = pump[d]
  BY <1>1 DEF ShapeInv
<1>5. Pumped(c) /\ Attached(c)
  BY <1>1 DEF LifeInv, Phase, Unmade, Made, Leaving, Deleted, NoPump
<1>6. Phase(c)' /\ Attached(c)'
  BY <1>1, <1>4, <1>5 DEF Phase, Pumped, Attached, SettingUp
<1> QED
  BY <1>1, <1>2, <1>3, <1>4, <1>6, OthersPumped

LEMMA PumpDisconnectStep ==
  ASSUME ConnectionInv, NEW c \in Clients, pump_disconnect(c)
  PROVE  ConnectionInv'
<1> USE DEF ConnectionInv
<1>1. /\ up /\ pump[c].st = "recv" /\ client[c] = "closed"
      /\ pump' = [pump EXCEPT ![c] = [st |-> "telling", at |-> 1,
                                      end |-> mObservers[c].size]]
      /\ UNCHANGED <<boot, transport, up, accepting, current, backlog, mConnections, object,
                     mObservers, mThread, client, told, strayWrite>>
  BY DEF pump_disconnect, mainVars, acceptVars, clientVars, history
<1>2. MainInv' /\ AcceptInv' /\ BacklogInv' /\ EndIsExplained'
  BY <1>1 DEF MainInv, AcceptInv, BacklogInv, EndIsExplained
<1>3. Pumped(c) /\ Attached(c)
  BY <1>1 DEF LifeInv, Phase, Unmade, Made, Leaving, Deleted, NoPump
<1>4. mObservers[c].size = 2
  BY <1>3, VectorCells DEF Pumped
<1>5. ShapeInv'
  BY <1>1, <1>4 DEF ShapeInv
<1>6. /\ pump'[c] = [st |-> "telling", at |-> 1, end |-> 2]
      /\ \A d \in Clients \ {c} : pump'[d] = pump[d]
  BY <1>1, <1>4 DEF ShapeInv
<1>7. Phase(c)' /\ Attached(c)'
  BY <1>1, <1>3, <1>6 DEF Phase, Pumped, Attached, SettingUp
<1> QED
  BY <1>1, <1>2, <1>5, <1>6, <1>7, OthersPumped

(* The connector is told first, the tracker second, although the vector    *)
(* shrinks under the iteration.                                            *)
LEMMA PumpTellStep ==
  ASSUME ConnectionInv, NEW c \in Clients, pump_tell(c)
  PROVE  ConnectionInv'
<1> USE DEF ConnectionInv
<1> DEFINE o == mObservers[c].mem[pump[c].at]
<1>1. /\ up /\ pump[c].st = "telling" /\ pump[c].at <= pump[c].end
      /\ pump' = [pump EXCEPT ![c].at = @ + 1]
      /\ UNCHANGED <<boot, transport, up, accepting, current, backlog, object,
                     mThread, client, strayWrite>>
  BY DEF pump_tell, mainVars, acceptVars, clientVars
<1>2. MainInv' /\ AcceptInv' /\ BacklogInv' /\ EndIsExplained'
  BY <1>1 DEF MainInv, AcceptInv, BacklogInv, EndIsExplained
<1>3. /\ pump[c].end = 2 /\ Attached(c)
      /\ \/ Pumped(c) /\ pump[c].at = 1
         \/ Leaving(c) /\ pump[c].at = 2
  BY <1>1 DEF LifeInv, Phase, Unmade, Made, Pumped, Leaving, Deleted, NoPump
<1>4. /\ pump'[c].st = "telling" /\ pump'[c].at = pump[c].at + 1 /\ pump'[c].end = 2
      /\ \A d \in Clients \ {c} : pump'[d] = pump[d]
      /\ pump' \in [Clients -> [st : {"none", "recv", "telling", "ended"}, at : 0..3,
                                end : 0..2]]
  <2> DEFINE T == [st : {"none", "recv", "telling", "ended"}, at : 0..3, end : 0..2]
  <2>1. pump \in [Clients -> T]
    BY DEF ShapeInv
  <2>2. [pump[c] EXCEPT !.at = pump[c].at + 1] \in T
    BY <1>3, <2>1
  <2>3. pump' = [pump EXCEPT ![c] = [pump[c] EXCEPT !.at = pump[c].at + 1]]
    BY <1>1
  <2>4. pump'[c] = [pump[c] EXCEPT !.at = pump[c].at + 1]
    BY <2>1, <2>3
  <2>5. pump'[c].st = "telling" /\ pump'[c].at = pump[c].at + 1 /\ pump'[c].end = 2
    BY <1>1, <1>3, <2>1, <2>4
  <2>6. pump' \in [Clients -> T]
    <3> HIDE DEF T
    <3> QED
      BY <2>1, <2>2, <2>3
  <2> QED
    BY <2>1, <2>3, <2>5, <2>6
<1>5. CASE Pumped(c) /\ pump[c].at = 1
  <2>1. o = "connector" /\ mObservers[c] = Observed2
    BY <1>5, VectorCells DEF Pumped
  <2>2. /\ told' = [told EXCEPT ![c]["connector"] = @ + 1]
        /\ mObservers' = [mObservers EXCEPT ![c] = Left1]
        /\ mConnections' = [mConnections EXCEPT ![c] = 0]
    BY <2>1, ErasedConnector DEF pump_tell, onClientDisconnected
  <2>3. /\ told'[c]["connector"] = 1 /\ told'[c]["tracker"] = 0
        /\ mObservers'[c] = Left1 /\ mConnections'[c] = 0
        /\ \A d \in Clients \ {c} : /\ told'[d] = told[d] /\ mObservers'[d] = mObservers[d]
                                    /\ mConnections'[d] = mConnections[d]
    BY <1>5, <2>2 DEF ShapeInv, Pumped, Observer
  <2>4. ShapeInv'
    <3>1. told' \in [Clients -> [Observer -> 0..2]]
      BY <1>5, <2>2 DEF ShapeInv, Pumped, Observer
    <3> QED
      BY <1>1, <1>4, <2>2, <3>1, VectorCells DEF ShapeInv
  <2>5. Leaving(c)' /\ Attached(c)'
    BY <1>1, <1>3, <1>4, <1>5, <2>3 DEF Pumped, Leaving, Attached, SettingUp
  <2> QED
    BY <1>1, <1>2, <1>4, <2>3, <2>4, <2>5, OthersPumped DEF Phase
<1>6. CASE Leaving(c) /\ pump[c].at = 2
  <2>1. o = "tracker" /\ mObservers[c] = Left1
    BY <1>6, VectorCells DEF Leaving
  <2>2. /\ told' = [told EXCEPT ![c]["tracker"] = @ + 1]
        /\ mObservers' = [mObservers EXCEPT ![c] = Left0]
        /\ mConnections' = mConnections
    BY <2>1, ErasedTracker DEF pump_tell, onClientDisconnected
  <2>3. /\ told'[c]["connector"] = 1 /\ told'[c]["tracker"] = 1
        /\ mObservers'[c] = Left0
        /\ \A d \in Clients \ {c} : told'[d] = told[d] /\ mObservers'[d] = mObservers[d]
    BY <1>6, <2>2 DEF ShapeInv, Leaving, Observer
  <2>4. ShapeInv'
    <3>1. told' \in [Clients -> [Observer -> 0..2]]
      BY <1>6, <2>2 DEF ShapeInv, Leaving, Observer
    <3> QED
      BY <1>1, <1>4, <2>2, <3>1, VectorCells DEF ShapeInv
  <2>5. Leaving(c)' /\ Attached(c)'
    BY <1>1, <1>3, <1>4, <1>6, <2>2, <2>3 DEF Leaving, Attached, SettingUp
  <2> QED
    BY <1>1, <1>2, <1>4, <2>2, <2>3, <2>4, <2>5, OthersPumped DEF Phase
<1> QED
  BY <1>3, <1>5, <1>6

LEMMA PumpDeleteStep ==
  ASSUME ConnectionInv, NEW c \in Clients, pump_delete(c)
  PROVE  ConnectionInv'
<1> USE DEF ConnectionInv
<1>1. /\ pump[c].st = "telling" /\ pump[c].at > pump[c].end
      /\ pump' = [pump EXCEPT ![c].st = "ended"]
      /\ object' = [object EXCEPT ![c] = "freed"]
      /\ up' = ~mThread[c]
      /\ UNCHANGED <<boot, transport, accepting, current, backlog, mConnections,
                     mObservers, mThread, client, told, strayWrite>>
  BY DEF pump_delete, mainVars, acceptVars, clientVars, history
<1>2. Leaving(c) /\ pump[c].at = 3 /\ pump[c].end = 2 /\ Attached(c) /\ client[c] = "closed"
  BY <1>1 DEF LifeInv, Phase, Unmade, Made, Pumped, Leaving, Deleted, NoPump, Attached
<1>3. MainInv'
  BY <1>1 DEF MainInv
<1>4. AcceptInv' /\ EndIsExplained'
  BY <1>1, <1>2 DEF AcceptInv, EndIsExplained, Gone
<1>5. ShapeInv'
  BY <1>1, PumpShape DEF ShapeInv
<1>6. /\ pump'[c].st = "ended" /\ pump'[c].at = 3 /\ pump'[c].end = 2
      /\ object'[c] = "freed"
      /\ \A d \in Clients \ {c} : pump'[d] = pump[d] /\ object'[d] = object[d]
  BY <1>1, <1>2 DEF ShapeInv
<1>7. BacklogInv'
  <2>1. \A i \in 1..Len(backlog) : backlog[i] \in Clients /\ backlog[i] # c
    BY <1>2, ElementOfSeq DEF BacklogInv, Leaving
  <2> QED
    BY <1>1, <1>6, <2>1 DEF BacklogInv
<1>8. Deleted(c)' /\ Attached(c)'
  BY <1>1, <1>2, <1>6 DEF Leaving, Deleted, Attached, SettingUp
<1> QED
  BY <1>1, <1>3, <1>4, <1>5, <1>6, <1>7, <1>8, OthersPumped DEF Phase

(* The process ends, or a send has no effect. *)
LEMMA EndStep ==
  ASSUME ConnectionInv, up' \in BOOLEAN, EndIsExplained',
         UNCHANGED <<boot, transport, accepting, current, backlog, mConnections, object,
                     mObservers, mThread, pump, client, told, strayWrite>>
  PROVE  ConnectionInv'
<1> USE DEF ConnectionInv
<1>1. MainInv' /\ AcceptInv' /\ BacklogInv' /\ ShapeInv'
  BY DEF MainInv, AcceptInv, BacklogInv, ShapeInv
<1>2. ASSUME NEW d \in Clients PROVE Phase(d)' /\ Attached(d)'
  BY PhaseKept DEF LifeInv, Attached, SettingUp
<1> QED
  BY <1>1, <1>2 DEF LifeInv

LEMMA SendToGoneStep ==
  ASSUME ConnectionInv, NEW c \in Clients, send_to_gone(c)
  PROVE  ConnectionInv'
<1>1. /\ Gone(c) /\ up' \in BOOLEAN
      /\ UNCHANGED <<boot, transport, accepting, current, backlog, mConnections, object,
                     mObservers, mThread, pump, client, told, strayWrite>>
  BY DEF send_to_gone, mainVars, acceptVars, history
<1>2. EndIsExplained'
  BY <1>1 DEF EndIsExplained, Gone
<1> QED
  BY <1>1, <1>2, EndStep

(* No thread can be made for a connection, or a copy of the list returns. *)
LEMMA FatalStep ==
  ASSUME ConnectionInv, ignitPump(FALSE) \/ getConnections_returns
  PROVE  ConnectionInv'
<1>1. /\ up' \in BOOLEAN /\ (~up' => fatal' # "none")
      /\ UNCHANGED <<boot, transport, accepting, current, backlog, mConnections, object,
                     mObservers, mThread, pump, client, told, strayWrite>>
  BY DEF ignitPump, getConnections_returns, mainVars, acceptVars, clientVars
<1>2. EndIsExplained'
  BY <1>1 DEF EndIsExplained
<1> QED
  BY <1>1, <1>2, EndStep

-----------------------------------------------------------------------------
LEMMA ConnectionInit == Init => ConnectionInv
<1> SUFFICES ASSUME Init PROVE ConnectionInv
  OBVIOUS
<1>1. MainInv /\ AcceptInv /\ EndIsExplained
  BY DEF Init, MainInv, AcceptInv, EndIsExplained
<1>2. BacklogInv
  BY EmptySeq DEF Init, BacklogInv
<1>3. ShapeInv
  BY VectorCells DEF Init, ShapeInv, NoPump, Observer
<1>4. LifeInv
  BY DEF Init, LifeInv, Phase, Unmade, Attached, NoPump, SettingUp, Observer
<1> QED
  BY <1>1, <1>2, <1>3, <1>4 DEF ConnectionInv

LEMMA ConnectionStep == ConnectionInv /\ [Next]_vars => ConnectionInv'
<1> SUFFICES ASSUME ConnectionInv, [Next]_vars PROVE ConnectionInv'
  OBVIOUS
<1>1. ASSUME NEW c \in Clients, client_sends(c) \/ client_receives(c) \/ pump_message(c)
                                \/ pump_short(c) \/ sendMessageToClient(c)
      PROVE  ConnectionInv'
  <2>1. UNCHANGED <<mainVars, up, acceptVars, mConnections, object, mObservers, mThread,
                    pump, client, history>>
    BY <1>1 DEF client_sends, client_receives, pump_message, pump_short, Takes,
                sendMessageToClient, Sends, ServiceUntouched
  <2> QED
    BY <2>1, ConnectionKept
<1>2. CASE UNCHANGED vars \/ getConnections
  BY <1>2, ConnectionKept DEF vars, clientVars, getConnections
<1>3. ASSUME NEW ok \in BOOLEAN, ignitPump(ok) PROVE ConnectionInv'
  BY <1>3, SetUpStep, FatalStep
<1> QED
  BY <1>1, <1>2, <1>3, FatalStep, MainStep, ClientStep, AcceptStep,
     AcceptFailsStep, SetUpStep, PumpErrorStep,
     PumpDisconnectStep, PumpTellStep, PumpDeleteStep, SendToGoneStep
     DEF Next, AcceptLoop, PumpLoop

(* Whatever the clients do and whenever they do it, the phases of a        *)
(* connection, the backlog and the accept thread fit together.             *)
THEOREM ConnectionsConsistent == Spec => []ConnectionInv
  BY ConnectionInit, ConnectionStep, PTL DEF Spec

(* Each observer of a connection has been told of the disconnection, once, *)
(* by the time pumpLoop deletes the connection.                            *)
THEOREM ToldBeforeDelete == Spec => []AllToldBeforeDelete
<1>1. ConnectionInv => AllToldBeforeDelete
  BY DEF ConnectionInv, LifeInv, Phase, Unmade, Made, Pumped, Leaving, Deleted,
         AllToldBeforeDelete, Observer
<1> QED
  BY <1>1, ConnectionsConsistent, PTL

(* The list holds the connections that exist and whose disconnection the   *)
(* connector has not been told of, each once.                              *)
THEOREM ListIsAlive == Spec => []ListedIsAlive
<1>1. ConnectionInv => ListedIsAlive
  BY DEF ConnectionInv, LifeInv, Phase, Unmade, Made, Pumped, Leaving, Deleted,
         ListedIsAlive
<1> QED
  BY <1>1, ConnectionsConsistent, PTL

(* Once started, the service ends only after a client has gone away, or    *)
(* for want of a thread, or by a copy of the list while the list changed.  *)
THEOREM EndExplained == Spec => []EndIsExplained
  BY ConnectionsConsistent, PTL DEF ConnectionInv

-----------------------------------------------------------------------------
(* Facts about whole messages in a stream of units.                        *)

LEMMA Products ==
  ASSUME NEW a \in Int, NEW b \in Int
  PROVE  /\ a * FrameLen \in Int
         /\ (a + 1) * FrameLen = a * FrameLen + FrameLen
         /\ (a - 1) * FrameLen = a * FrameLen - FrameLen
         /\ a <= b => a * FrameLen <= b * FrameLen
         /\ a < b => a * FrameLen + FrameLen <= b * FrameLen
         /\ a * FrameLen <= b * FrameLen => a <= b
         /\ a * FrameLen < b * FrameLen => a < b
<1>0. FrameLen \in Nat /\ FrameLen >= 1
  BY Constants
<1>1. ASSUME NEW x \in Int PROVE (x + 1) * FrameLen = x * FrameLen + FrameLen
  BY <1>0
<1>2. ASSUME NEW x \in Nat PROVE x * FrameLen >= 0
  BY <1>0
<1>3. ASSUME NEW x \in Int, NEW y \in Int, x <= y PROVE x * FrameLen <= y * FrameLen
  <2>1. (y - x) * FrameLen = y * FrameLen - x * FrameLen
    BY <1>0
  <2>2. y - x \in Nat
    BY <1>3
  <2> QED
    BY <1>0, <1>2, <2>1, <2>2
<1>4. ASSUME NEW x \in Int, NEW y \in Int, x < y
      PROVE  x * FrameLen + FrameLen <= y * FrameLen
  BY <1>0, <1>1, <1>3, <1>4
<1>5. a * FrameLen \in Int /\ b * FrameLen \in Int
  BY <1>0
<1>6. a * FrameLen <= b * FrameLen => a <= b
  BY <1>0, <1>4, <1>5
<1>7. a * FrameLen < b * FrameLen => a < b
  BY <1>0, <1>3, <1>5
<1>8. (a - 1) * FrameLen = a * FrameLen - FrameLen
  BY <1>0
<1> QED
  BY <1>1, <1>3, <1>4, <1>5, <1>6, <1>7, <1>8

LEMMA Regroup ==
  \A x, y, z \in Int : (x + y) + (z - y) = x + z /\ x + z = (x + y) + (z - y)
  OBVIOUS

(* No multiple of the length lies strictly within a message. *)
LEMMA WholeOnly ==
  ASSUME NEW a \in Int, NEW b \in Int, NEW n \in Int,
         a * FrameLen = b * FrameLen + n, n < FrameLen, n > 0
  PROVE  FALSE
<1>0. FrameLen \in Nat /\ FrameLen >= 1
  BY Constants
<1>1. b * FrameLen \in Int /\ a * FrameLen \in Int
  BY <1>0
<1>2. b < a
  BY <1>0, <1>1, Products
<1>3. b * FrameLen + FrameLen <= a * FrameLen
  BY <1>2, Products
<1> QED
  BY <1>0, <1>1, <1>3

(* A client that is completing a message stays within its bound. *)
LEMMA WithinBound ==
  ASSUME NEW w \in Nat, NEW m \in Nat, NEW n \in 1..(FrameLen - (w % FrameLen)),
         w < m * FrameLen
  PROVE  w + n <= m * FrameLen
<1>0. FrameLen \in Nat /\ FrameLen >= 1
  BY Constants
<1> DEFINE q == w \div FrameLen
           r == w % FrameLen
<1>1. q \in Int /\ r \in Int /\ w = q * FrameLen + r /\ r >= 0
  BY <1>0
<1> HIDE DEF q, r
<1>2. q * FrameLen <= w /\ q * FrameLen \in Int /\ m * FrameLen \in Int
  BY <1>0, <1>1
<1>3. q * FrameLen < m * FrameLen
  BY <1>2
<1>4. q * FrameLen + FrameLen <= m * FrameLen
  BY <1>1, <1>3, Products
<1>5. n <= FrameLen - r /\ n \in Int
  BY <1>0, <1>1 DEF r
<1> QED
  BY <1>0, <1>1, <1>2, <1>4, <1>5

(* The units of a message, and its beginnings. *)
LEMMA FrameUnits ==
  ASSUME NEW k \in Nat \ {0}, NEW m \in Nat, k <= m
  PROVE  /\ Frame(k) \in Seq(Nat) /\ Len(Frame(k)) = FrameLen
         /\ \A i \in 1..FrameLen : Frame(k)[i] = (k - 1) * FrameLen + i
         /\ Frame(k) \in [1..FrameLen -> UnitsOf(m)]
         /\ Frame(k) \in Seq(UnitsOf(m))
<1>0. FrameLen \in Nat /\ FrameLen >= 1
  BY Constants
<1>1. /\ (k - 1) * FrameLen \in Int /\ (k - 1) * FrameLen >= 0 * FrameLen
      /\ (k - 1) * FrameLen + FrameLen <= m * FrameLen /\ m * FrameLen \in Int
  <2>1. k - 1 \in Int /\ k - 1 < m /\ 0 <= k - 1
    OBVIOUS
  <2> QED
    BY <2>1, Products
<1>2. ASSUME NEW i \in 1..FrameLen
      PROVE  (k - 1) * FrameLen + i \in Nat /\ (k - 1) * FrameLen + i \in UnitsOf(m)
  BY <1>0, <1>1 DEF UnitsOf
<1>3. Frame(k) \in [1..FrameLen -> Nat] /\ Frame(k) \in [1..FrameLen -> UnitsOf(m)]
  BY <1>2 DEF Frame
<1>4. Frame(k) \in Seq(Nat) /\ Len(Frame(k)) = FrameLen
  BY <1>0, <1>3, SeqDef, LenProperties
<1>5. Frame(k) \in Seq(UnitsOf(m))
  BY <1>0, <1>3, SeqDef
<1> QED
  BY <1>3, <1>4, <1>5 DEF Frame

(* Cutting a sequence in two. *)
LEMMA FirstRest ==
  ASSUME NEW S, NEW s \in Seq(S), NEW n \in 0..Len(s)
  PROVE  /\ First(n, s) \in Seq(S) /\ Len(First(n, s)) = n
         /\ \A i \in 1..n : First(n, s)[i] = s[i]
         /\ Rest(n, s) \in Seq(S) /\ Len(Rest(n, s)) = Len(s) - n
         /\ \A i \in 1..(Len(s) - n) : Rest(n, s)[i] = s[n + i]
<1>0. Len(s) \in Nat /\ n \in Nat /\ n <= Len(s) /\ n \in Int /\ n + 1 \in Int
  BY LenProperties
<1>1. \A i \in 1..Len(s) : s[i] \in S
  BY ElementOfSeq
<1>2. /\ First(n, s) \in Seq(S) /\ Len(First(n, s)) = n
      /\ \A i \in 1..n : First(n, s)[i] = s[i]
  <2>1. \A i \in 1..n : s[i] \in S
    BY <1>0, <1>1
  <2> QED
    BY <1>0, <2>1, SubSeqProperties DEF First
<1>3. \A i \in (n + 1)..Len(s) : s[i] \in S
  BY <1>0, <1>1
<1>4. /\ SubSeq(s, n + 1, Len(s)) \in Seq(S)
      /\ Len(SubSeq(s, n + 1, Len(s))) = IF n + 1 <= Len(s) THEN Len(s) - (n + 1) + 1 ELSE 0
      /\ \A i \in 1..(Len(s) - (n + 1) + 1) :
           SubSeq(s, n + 1, Len(s))[i] = s[(n + 1) + i - 1]
  BY <1>0, <1>3, SubSeqProperties
<1>5. ASSUME NEW i \in 1..(Len(s) - n) PROVE SubSeq(s, n + 1, Len(s))[i] = s[n + i]
  <2>1. i \in 1..(Len(s) - (n + 1) + 1) /\ (n + 1) + i - 1 = n + i
    BY <1>0
  <2> QED
    BY <1>4, <2>1
<1>6. Len(SubSeq(s, n + 1, Len(s))) = Len(s) - n
  BY <1>0, <1>4
<1> QED
  BY <1>2, <1>4, <1>5, <1>6 DEF Rest

-----------------------------------------------------------------------------
(* The requests.                                                           *)

(* A pump thread that reads belongs to a connection both observers know,   *)
(* of a service that main has finished to put together.                    *)
LEMMA PumpDelivers ==
  ASSUME ConnectionInv, NEW c \in Clients, pump[c].st = "recv"
  PROVE  Observes("tracker", c) /\ Done("next") /\ boot = 8
<1>1. Pumped(c) /\ boot = 8
  BY DEF ConnectionInv, LifeInv, Phase, Unmade, Made, Pumped, Leaving, Deleted, NoPump,
         Attached
<1>2. Observes("tracker", c)
  BY <1>1, VectorCells DEF Observes, Pumped
<1> QED
  BY <1>1, <1>2, AllMade

(* Steps that move no unit towards the service. *)
LEMMA RequestsKept ==
  ASSUME RequestsInv, UNCHANGED requests,
         \A c \in Clients : Gone(c) => Gone(c)',
         \A c \in Clients : client'[c] = "out" => client[c] = "out",
         \A c \in Clients : client'[c] # "out" /\ client[c] = "out" => boot' = 8,
         transport' = transport \/ boot = 1, boot = 8 => boot' = 8
  PROVE  RequestsInv'
<1> SUFFICES ASSUME NEW c \in Clients
             PROVE  /\ WholeTaken(c)' \/ PieceTaken(c)'
                    /\ client'[c] = "out" => wrote'[c] = 0
                    /\ client'[c] # "out" => boot' = 8
                    /\ transport' # "tcp" => \E m \in Nat : wrote'[c] = m * FrameLen
  BY DEF RequestsInv, requests
<1>1. WholeTaken(c)' \/ PieceTaken(c)'
  <2>1. CASE WholeTaken(c)
    BY <2>1 DEF WholeTaken, requests
  <2>2. CASE PieceTaken(c)
    <3>1. transport' = transport
      <4>1. client[c] # "out"
        BY <2>2 DEF PieceTaken, Gone
      <4>2. boot = 8
        BY <4>1 DEF RequestsInv
      <4> QED
        BY <4>2
    <3> QED
      BY <2>2, <3>1 DEF PieceTaken, requests
  <2> QED
    BY <2>1, <2>2 DEF RequestsInv
<1>2. client'[c] = "out" => wrote'[c] = 0
  BY DEF RequestsInv, requests
<1>3. client'[c] # "out" => boot' = 8
  BY DEF RequestsInv
<1>4. transport' # "tcp" => \E m \in Nat : wrote'[c] = m * FrameLen
  <2>1. CASE transport' = transport
    BY <2>1 DEF RequestsInv, requests
  <2>2. CASE boot = 1
    <3>1. wrote'[c] = 0
      <4>1. client[c] # "out" => boot = 8
        BY DEF RequestsInv
      <4>2. client[c] = "out" => wrote[c] = 0
        BY DEF RequestsInv
      <4> QED
        BY <2>2, <4>1, <4>2 DEF requests
    <3>2. 0 * FrameLen = 0
      BY Constants
    <3> QED
      BY <3>1, <3>2
  <2> QED
    BY <2>1, <2>2
<1> QED
  BY <1>1, <1>2, <1>3, <1>4

LEMMA ClientSends ==
  ASSUME RequestsInv, MainInv, NEW c \in Clients, client_sends(c)
  PROVE  RequestsInv'
<1>0. FrameLen \in Nat /\ FrameLen >= 1 /\ MaxMessages[c] \in Nat
  BY Constants
<1>1. PICK n \in 1..(FrameLen - (wrote[c] % FrameLen)) :
        /\ client[c] = "connected"
        /\ wrote[c] < MaxMessages[c] * FrameLen
        /\ transport = "unix" => n = FrameLen
        /\ stream' = [stream EXCEPT ![c] = @ \o [i \in 1..n |-> wrote[c] + i]]
        /\ wrote' = [wrote EXCEPT ![c] = @ + n]
        /\ UNCHANGED <<boot, transport, client, taken, delivered>>
  BY DEF client_sends, ServiceUntouched, mainVars
<1> DEFINE new == [i \in 1..n |-> wrote[c] + i]
<1>2. /\ wrote[c] \in Nat /\ n \in Nat /\ stream[c] \in Seq(Nat)
      /\ new \in Seq(Nat) /\ Len(new) = n /\ \A i \in 1..n : new[i] = wrote[c] + i
  <2>1. wrote[c] \in Nat /\ n \in Nat /\ stream[c] \in Seq(Nat)
    BY <1>0 DEF RequestsInv
  <2>2. new \in [1..n -> Nat]
    BY <2>1
  <2>3. new \in Seq(Nat) /\ Len(new) = n
    BY <2>1, <2>2, SeqDef, LenProperties
  <2> QED
    BY <2>1, <2>3
<1> HIDE DEF new
<1>3. /\ wrote'[c] = wrote[c] + n /\ stream'[c] = stream[c] \o new
      /\ wrote' \in [Clients -> Nat] /\ stream' \in [Clients -> Seq(Nat)]
      /\ \A d \in Clients \ {c} : wrote'[d] = wrote[d] /\ stream'[d] = stream[d]
  BY <1>1, <1>2, ConcatProperties DEF RequestsInv, new
<1>4. WholeTaken(c)'
  <2>1. WholeTaken(c) /\ taken[c] \in Seq(Seq(Nat))
    BY <1>1 DEF RequestsInv, PieceTaken, Gone
  <2> DEFINE base == Len(taken[c]) * FrameLen
  <2>2. base \in Int
    BY <1>0, <2>1, LenProperties
  <2>3. /\ Len(stream'[c]) = Len(stream[c]) + n
        /\ \A i \in 1..(Len(stream[c]) + n) :
             stream'[c][i] = IF i <= Len(stream[c]) THEN stream[c][i]
                             ELSE wrote[c] + (i - Len(stream[c]))
    <3>1. Len(stream[c]) \in Nat
      BY <1>2, LenProperties
    <3>2. /\ Len(stream[c] \o new) = Len(stream[c]) + n
          /\ \A i \in 1..(Len(stream[c]) + n) : (stream[c] \o new)[i] =
               IF i <= Len(stream[c]) THEN stream[c][i] ELSE new[i - Len(stream[c])]
      BY <1>2, ConcatProperties
    <3>3. ASSUME NEW i \in 1..(Len(stream[c]) + n), ~(i <= Len(stream[c]))
          PROVE  new[i - Len(stream[c])] = wrote[c] + (i - Len(stream[c]))
      <4>1. i - Len(stream[c]) \in 1..n
        BY <1>2, <3>1, <3>3
      <4> QED
        BY <1>2, <4>1
    <3> QED
      BY <1>3, <3>2, <3>3
  <2>4. wrote[c] = base + Len(stream[c]) /\ Len(stream[c]) \in Nat
        /\ \A i \in 1..Len(stream[c]) : stream[c][i] = base + i
    BY <1>2, <2>1, LenProperties DEF WholeTaken
  <2> HIDE DEF base
  <2>5. \A i \in 1..Len(stream'[c]) : stream'[c][i] = base + i
    <3>1. ASSUME NEW i \in 1..(Len(stream[c]) + n) PROVE stream'[c][i] = base + i
      <4>1. CASE i <= Len(stream[c])
        <5>1. i \in 1..Len(stream[c])
          BY <2>4, <4>1
        <5> QED
          BY <2>3, <2>4, <4>1, <5>1
      <4>2. CASE ~(i <= Len(stream[c]))
        <5>1. stream'[c][i] = wrote[c] + (i - Len(stream[c]))
          BY <2>3, <4>2
        <5>2. wrote[c] = base + Len(stream[c]) /\ Len(stream[c]) \in Nat
          BY <2>4
        <5>3. i \in Int /\ Len(stream[c]) \in Int
          BY <1>2, <5>2
        <5>4. (base + Len(stream[c])) + (i - Len(stream[c])) = base + i
          BY <2>2, <5>3, Regroup, Zenon
        <5> QED
          BY <5>1, <5>2, <5>4
      <4> QED
        BY <4>1, <4>2
    <3> QED
      BY <2>3, <3>1
  <2>6. wrote'[c] = base + Len(stream'[c])
    BY <1>2, <1>3, <2>2, <2>3, <2>4
  <2> QED
    BY <1>1, <2>1, <2>5, <2>6 DEF WholeTaken, base
<1>5. wrote'[c] <= MaxMessages[c] * FrameLen
  BY <1>0, <1>1, <1>2, <1>3, WithinBound
<1>6. transport' # "tcp" => \E m \in Nat : wrote'[c] = m * FrameLen
  <2> SUFFICES ASSUME transport # "tcp" PROVE \E m \in Nat : wrote'[c] = m * FrameLen
    BY <1>1
  <2>1. n = FrameLen
    BY <1>1, Constants DEF RequestsInv, MainInv
  <2>2. PICK m \in Nat : wrote[c] = m * FrameLen
    BY DEF RequestsInv
  <2>3. wrote'[c] = (m + 1) * FrameLen
    BY <1>3, <2>1, <2>2, Products
  <2> QED
    BY <2>3
<1>7. ASSUME NEW d \in Clients, d # c PROVE WholeTaken(d)' \/ PieceTaken(d)'
  BY <1>1, <1>3, <1>7 DEF RequestsInv, WholeTaken, PieceTaken, Gone
<1>8. ASSUME NEW d \in Clients, d # c
      PROVE  /\ wrote'[d] <= MaxMessages[d] * FrameLen
             /\ transport' # "tcp" => \E m \in Nat : wrote'[d] = m * FrameLen
             /\ client'[d] = "out" => wrote'[d] = 0
  BY <1>1, <1>3, <1>8 DEF RequestsInv
<1> QED
  BY <1>1, <1>3, <1>4, <1>5, <1>6, <1>7, <1>8 DEF RequestsInv

(* What a pump thread takes from the stream, of a whole message or of the  *)
(* piece of one, is the beginning of the next message.                     *)
LEMMA TakenUnits ==
  ASSUME RequestsInv, NEW c \in Clients, WholeTaken(c),
         NEW n \in 1..FrameLen, n <= Len(stream[c])
  PROVE  /\ Len(taken[c]) + 1 <= MaxMessages[c]
         /\ First(n, stream[c]) \in Seq(Nat)
         /\ First(n, stream[c]) = First(n, Frame(Len(taken[c]) + 1))
         /\ Rest(n, stream[c]) \in Seq(Nat)
         /\ Len(Rest(n, stream[c])) = Len(stream[c]) - n
         /\ \A i \in 1..(Len(stream[c]) - n) : Rest(n, stream[c])[i] = stream[c][n + i]
<1> DEFINE s == stream[c]
           k == Len(taken[c])
           f == Frame(k + 1)
<1>0. /\ FrameLen \in Nat /\ FrameLen >= 1 /\ MaxMessages[c] \in Nat
      /\ s \in Seq(Nat) /\ Len(s) \in Nat /\ k \in Nat
      /\ wrote[c] \in Nat /\ wrote[c] <= MaxMessages[c] * FrameLen
      /\ n \in 1..FrameLen /\ n <= Len(s)
  BY Constants, LenProperties DEF RequestsInv
<1>1. wrote[c] = k * FrameLen + Len(s) /\ \A i \in 1..Len(s) : s[i] = k * FrameLen + i
  BY DEF WholeTaken
<1> HIDE DEF s, k
<1>2. k + 1 <= MaxMessages[c]
  <2>1. k * FrameLen < MaxMessages[c] * FrameLen
    <3>1. k * FrameLen \in Int /\ MaxMessages[c] * FrameLen \in Int
      BY <1>0
    <3> QED
      BY <1>0, <1>1, <3>1
  <2>2. k < MaxMessages[c]
    <3>1. k \in Int /\ MaxMessages[c] \in Int
      BY <1>0
    <3> QED
      BY <2>1, <3>1, Products
  <2> QED
    BY <1>0, <2>2
<1>3. /\ f \in Seq(Nat) /\ Len(f) = FrameLen
      /\ \A i \in 1..FrameLen : f[i] = k * FrameLen + i
  <2>1. k + 1 \in Nat \ {0} /\ (k + 1) - 1 = k
    BY <1>0
  <2> QED
    BY <1>0, <1>2, <2>1, FrameUnits
<1> HIDE DEF f
<1>4. /\ First(n, s) \in Seq(Nat) /\ Len(First(n, s)) = n
      /\ \A i \in 1..n : First(n, s)[i] = s[i]
      /\ Rest(n, s) \in Seq(Nat) /\ Len(Rest(n, s)) = Len(s) - n
      /\ \A i \in 1..(Len(s) - n) : Rest(n, s)[i] = s[n + i]
  <2>1. n \in 0..Len(s)
    BY <1>0
  <2> QED
    BY <1>0, <2>1, FirstRest
<1>5. /\ First(n, f) \in Seq(Nat) /\ Len(First(n, f)) = n
      /\ \A i \in 1..n : First(n, f)[i] = f[i]
  <2>1. n \in 0..Len(f)
    BY <1>0, <1>3
  <2> QED
    BY <1>3, <2>1, FirstRest
<1>6. First(n, s) = First(n, f)
  <2>1. ASSUME NEW i \in 1..n PROVE First(n, s)[i] = First(n, f)[i]
    <3>1. i \in 1..Len(s) /\ i \in 1..FrameLen
      BY <1>0
    <3> QED
      BY <1>1, <1>3, <1>4, <1>5, <3>1
  <2> QED
    BY <1>4, <1>5, <2>1, SeqEqual
<1> QED
  BY <1>2, <1>4, <1>6 DEF s, k, f

LEMMA PumpTakes ==
  ASSUME RequestsInv, ConnectionInv, NEW c \in Clients, pump_message(c) \/ pump_short(c)
  PROVE  RequestsInv'
<1> DEFINE k == Len(taken[c])
<1>0. /\ FrameLen \in Nat /\ FrameLen >= 1 /\ MaxMessages[c] \in Nat
      /\ stream[c] \in Seq(Nat) /\ Len(stream[c]) \in Nat
      /\ taken[c] \in Seq(Seq(Nat)) /\ k \in Nat
  BY Constants, LenProperties DEF RequestsInv
<1>1. PICK n \in 1..FrameLen :
        /\ Takes(c, n) /\ n <= Len(stream[c])
        /\ n = FrameLen \/ (Gone(c) /\ n < FrameLen /\ n = Len(stream[c]))
  <2>1. CASE pump_message(c)
    <3>1. FrameLen \in 1..FrameLen
      BY <1>0
    <3> QED
      BY <1>0, <2>1, <3>1 DEF pump_message
  <2>2. CASE pump_short(c)
    <3>1. /\ Len(stream[c]) \in 1..FrameLen /\ Len(stream[c]) < FrameLen
          /\ Takes(c, Len(stream[c])) /\ Gone(c) /\ Len(stream[c]) <= Len(stream[c])
      BY <1>0, <2>2 DEF pump_short
    <3> QED
      BY <3>1
  <2> QED
    BY <2>1, <2>2
<1>2. Observes("tracker", c) /\ Done("next") /\ boot = 8
  BY PumpDelivers DEF pump_message, pump_short
<1>3. WholeTaken(c)
  <2>1. stream[c] # <<>>
    BY <1>1
  <2> QED
    BY <2>1 DEF RequestsInv, PieceTaken
<1> DEFINE frame == First(n, stream[c])
           rest == Rest(n, stream[c])
<1>4. /\ stream' = [stream EXCEPT ![c] = rest]
      /\ taken' = [taken EXCEPT ![c] = Append(@, frame)]
      /\ delivered' = [delivered EXCEPT ![c] = Append(@, frame)]
      /\ UNCHANGED <<boot, transport, client, wrote>>
  BY <1>1, <1>2 DEF Takes, mainVars
<1>5. /\ k + 1 <= MaxMessages[c]
      /\ frame \in Seq(Nat) /\ frame = First(n, Frame(k + 1))
      /\ rest \in Seq(Nat) /\ Len(rest) = Len(stream[c]) - n
      /\ \A i \in 1..(Len(stream[c]) - n) : rest[i] = stream[c][n + i]
  BY <1>1, <1>3, TakenUnits
<1> HIDE DEF frame, rest
<1>6. /\ stream'[c] = rest /\ taken'[c] = Append(taken[c], frame)
      /\ \A d \in Clients \ {c} : stream'[d] = stream[d] /\ taken'[d] = taken[d]
      /\ stream' \in [Clients -> Seq(Nat)] /\ taken' \in [Clients -> Seq(Seq(Nat))]
      /\ delivered' = taken'
  BY <1>0, <1>4, <1>5, AppendProperties DEF RequestsInv
<1>7. /\ Len(taken'[c]) = k + 1 /\ taken'[c] # <<>> /\ taken'[c][k + 1] = frame
      /\ \A i \in 1..k : taken'[c][i] = Frame(i)
  <2>1. \A i \in 1..k : taken[c][i] = Frame(i)
    BY <1>3 DEF WholeTaken
  <2> DEFINE t == taken[c]
             S == Seq(Nat)
  <2>a. t \in Seq(S) /\ frame \in S
    BY <1>0, <1>5
  <2> HIDE DEF S, t
  <2>2. /\ Len(Append(t, frame)) = Len(t) + 1 /\ Append(t, frame) # <<>>
        /\ \A i \in 1..Len(t) : Append(t, frame)[i] = t[i]
        /\ Append(t, frame)[Len(t) + 1] = frame
    BY <2>a, AppendProperties
  <2> QED
    BY <1>6, <2>1, <2>2 DEF t
<1>8. WholeTaken(c)' \/ PieceTaken(c)'
  <2> DEFINE base == k * FrameLen
  <2>0. /\ base \in Int /\ (k + 1) * FrameLen = base + FrameLen
        /\ wrote[c] = base + Len(stream[c])
        /\ \A i \in 1..Len(stream[c]) : stream[c][i] = base + i
    <3>1. base \in Int /\ (k + 1) * FrameLen = base + FrameLen
      BY <1>0, Products
    <3>2. wrote[c] = base + Len(stream[c])
          /\ \A i \in 1..Len(stream[c]) : stream[c][i] = base + i
      BY <1>3 DEF WholeTaken
    <3> QED
      BY <3>1, <3>2
  <2> HIDE DEF k, base
  <2>1. CASE n = FrameLen
    <3>1. frame = Frame(k + 1)
      <4>1. k + 1 \in Nat \ {0}
        BY <1>0
      <4>2. Frame(k + 1) \in Seq(Nat) /\ Len(Frame(k + 1)) = FrameLen
        BY <1>0, <1>5, <4>1, FrameUnits
      <4> QED
        BY <1>5, <2>1, <4>2, SubSeqFull DEF First
    <3>2. ASSUME NEW i \in 1..(k + 1) PROVE taken'[c][i] = Frame(i)
      <4>0. k \in Nat
        BY <1>0
      <4>1. i \in 1..k \/ i = k + 1
        BY <4>0
      <4> QED
        BY <1>7, <3>1, <4>1
    <3>3. ASSUME NEW i \in 1..Len(rest) PROVE rest[i] = (k + 1) * FrameLen + i
      <4>1. n + i \in 1..Len(stream[c]) /\ rest[i] = stream[c][n + i]
        BY <1>0, <1>1, <1>5
      <4>2. rest[i] = base + (n + i)
        BY <2>0, <4>1
      <4> QED
        BY <1>0, <2>0, <2>1, <4>2
    <3>4. wrote[c] = (k + 1) * FrameLen + Len(rest)
      <4>1. /\ base \in Int /\ FrameLen \in Int /\ Len(stream[c]) \in Int
            /\ Len(rest) = Len(stream[c]) - FrameLen
        BY <1>0, <1>5, <2>0, <2>1
      <4>2. base + Len(stream[c]) = (base + FrameLen) + (Len(stream[c]) - FrameLen)
        BY <4>1, Regroup, Zenon
      <4> QED
        BY <2>0, <4>1, <4>2
    <3> QED
      BY <1>4, <1>6, <1>7, <3>2, <3>3, <3>4 DEF WholeTaken
  <2>2. CASE n < FrameLen
    <3>1. Gone(c) /\ n = Len(stream[c])
      BY <1>0, <1>1, <2>2
    <3>2. transport = "tcp"
      <4>1. SUFFICES ASSUME transport # "tcp" PROVE FALSE
        OBVIOUS
      <4>2. PICK m \in Nat : wrote[c] = m * FrameLen
        BY <4>1 DEF RequestsInv
      <4>3. m * FrameLen = k * FrameLen + n
        BY <2>0, <3>1, <4>2 DEF base
      <4>4. m \in Int /\ k \in Int /\ n \in Int /\ n > 0
        BY <1>0
      <4> QED
        BY <2>2, <4>3, <4>4, WholeOnly
    <3>3. rest = <<>>
      BY <1>5, <3>1, <1>0, EmptySeq
    <3>4. n \in 1..(FrameLen - 1)
      BY <1>0, <2>2
    <3>5. Len(taken'[c]) - 1 = k
      BY <1>0, <1>7
    <3>6. Gone(c)' /\ transport' = transport
      BY <1>4, <3>1 DEF Gone
    <3>7. \A i \in 1..(Len(taken'[c]) - 1) : taken'[c][i] = Frame(i)
      BY <1>7, <3>5
    <3>8. taken'[c][Len(taken'[c])] = First(n, Frame(Len(taken'[c])))
      BY <1>5, <1>7
    <3> QED
      BY <1>6, <1>7, <3>2, <3>3, <3>4, <3>6, <3>7, <3>8 DEF PieceTaken
  <2> QED
    BY <1>0, <1>1, <2>1, <2>2
<1>9. ASSUME NEW d \in Clients, d # c
      PROVE  (WholeTaken(d)' \/ PieceTaken(d)') /\ Len(taken'[d]) <= MaxMessages[d]
  <2>1. /\ taken'[d] = taken[d] /\ stream'[d] = stream[d]
        /\ UNCHANGED <<transport, client, wrote>>
    BY <1>4, <1>6, <1>9
  <2>2. (WholeTaken(d) \/ PieceTaken(d)) /\ Len(taken[d]) <= MaxMessages[d]
    BY DEF RequestsInv
  <2>3. WholeTaken(d) => WholeTaken(d)'
    BY <2>1 DEF WholeTaken
  <2>4. PieceTaken(d) => PieceTaken(d)'
    BY <2>1 DEF PieceTaken, Gone
  <2> QED
    BY <2>1, <2>2, <2>3, <2>4
<1>10. Len(taken'[c]) <= MaxMessages[c]
  BY <1>5, <1>7
<1> QED
  BY <1>4, <1>6, <1>8, <1>9, <1>10 DEF RequestsInv

LEMMA RequestsInit == Init => RequestsInv
<1> SUFFICES ASSUME Init PROVE RequestsInv
  OBVIOUS
<1>1. ASSUME NEW c \in Clients
      PROVE  /\ stream[c] = <<>> /\ taken[c] = <<>> /\ wrote[c] = 0 /\ client[c] = "out"
  BY DEF Init
<1>2. /\ stream \in [Clients -> Seq(Nat)] /\ wrote \in [Clients -> Nat]
      /\ taken \in [Clients -> Seq(Seq(Nat))] /\ delivered = taken
  BY EmptySeq DEF Init
<1>3. /\ Len(<<>>) = 0 /\ 0 * FrameLen = 0
      /\ \A c \in Clients : 0 <= MaxMessages[c] /\ 0 <= MaxMessages[c] * FrameLen
  BY Constants
<1>4. \A c \in Clients : WholeTaken(c)
  BY <1>1, <1>3 DEF WholeTaken
<1>5. 0 \in Nat
  OBVIOUS
<1> QED
  BY <1>1, <1>2, <1>3, <1>4, <1>5 DEF RequestsInv

LEMMA RequestsStep == ConnectionInv /\ RequestsInv /\ [Next]_vars => RequestsInv'
<1> SUFFICES ASSUME ConnectionInv, RequestsInv, [Next]_vars PROVE RequestsInv'
  OBVIOUS
<1>0. MainInv /\ client \in [Clients -> {"out", "connected", "closed", "reset"}]
  BY DEF ConnectionInv, ShapeInv
<1>1. ASSUME UNCHANGED <<requests, client>>,
             transport' = transport \/ boot = 1, boot = 8 => boot' = 8
      PROVE  RequestsInv'
  BY <1>1, RequestsKept DEF Gone
<1>2. ASSUME NEW ok \in BOOLEAN,
             \/ createClientConnector \/ main_creates \/ init_adapter(ok)
             \/ start_unix(ok) \/ start_tcp(ok) \/ listen(ok)
      PROVE  RequestsInv'
  <2>0. boot \in 1..8
    BY <1>0 DEF MainInv
  <2>1. UNCHANGED <<requests, client>>
    BY <1>2 DEF createClientConnector, main_creates, init_adapter, start_unix, start_tcp,
                listen, StartsAccepting, ConnectionsUntouched, clientVars
  <2>2. /\ transport' = transport \/ boot = 1
        /\ boot = 8 => boot' = 8
    BY <1>2, <2>0, Steps DEF createClientConnector, main_creates, init_adapter, start_unix,
                start_tcp, listen, StartsAccepting, mainVars
  <2> QED
    BY <1>1, <2>1, <2>2
<1>3. ASSUME NEW c \in Clients, connect(c) \/ client_closes(c) PROVE RequestsInv'
  <2>1. UNCHANGED <<requests, boot, transport>>
    BY <1>3 DEF connect, client_closes, ServiceUntouched, mainVars
  <2>2. /\ client[c] \in {"out", "connected"} /\ client'[c] # "out"
        /\ \A d \in Clients \ {c} : client'[d] = client[d]
    BY <1>0, <1>3 DEF connect, client_closes
  <2>3. client[c] = "out" => boot = 8
    BY <1>0, <1>3 DEF connect, client_closes, MainInv
  <2>4. \A d \in Clients : Gone(d) => Gone(d)'
    BY <2>2 DEF Gone
  <2> QED
    BY <2>1, <2>2, <2>3, <2>4, RequestsKept
<1>4. ASSUME NEW ok \in BOOLEAN,
             \/ accept \/ accept_fails \/ notify_new_connection \/ ignitPump(ok)
             \/ assign_mThread \/ getConnections \/ getConnections_returns
      PROVE  RequestsInv'
  <2>1. UNCHANGED <<requests, client, boot, transport>>
    BY <1>4 DEF accept, accept_fails, notify_new_connection, ignitPump, assign_mThread,
                getConnections, getConnections_returns, clientVars, mainVars
  <2> QED
    BY <1>1, <2>1
<1>5. ASSUME NEW c \in Clients,
             \/ client_receives(c) \/ pump_error(c) \/ pump_disconnect(c) \/ pump_tell(c)
             \/ pump_delete(c) \/ sendMessageToClient(c) \/ send_to_gone(c)
      PROVE  RequestsInv'
  <2>1. UNCHANGED <<requests, client, boot, transport>>
    BY <1>5 DEF client_receives, pump_error, pump_disconnect, pump_tell, pump_delete,
                sendMessageToClient, Sends, send_to_gone, ServiceUntouched, clientVars,
                mainVars
  <2> QED
    BY <1>1, <2>1
<1>6. CASE UNCHANGED vars
  BY <1>1, <1>6 DEF vars, clientVars, mainVars
<1> QED
  BY <1>0, <1>2, <1>3, <1>4, <1>5, <1>6, ClientSends, PumpTakes DEF Next, AcceptLoop, PumpLoop

(* Whatever the pump of a connection reads reaches the request processors, *)
(* and is what the client wrote, message by message and whole; only the    *)
(* last can be short, over TCP, of a client that went away in it.          *)
THEOREM MessagesKept == Spec => []NoMessageMissed
<1>1. Spec => []RequestsInv
  BY ConnectionsConsistent, RequestsInit, RequestsStep, PTL DEF Spec
<1>2. RequestsInv => NoMessageMissed
  <2> SUFFICES ASSUME RequestsInv, NEW c \in Clients
               PROVE  \A i \in DOMAIN taken[c] :
                        \/ taken[c][i] = Frame(i)
                        \/ /\ transport = "tcp" /\ Gone(c)
                           /\ i = Len(taken[c]) /\ IsPrefix(taken[c][i], Frame(i))
    BY DEF RequestsInv, NoMessageMissed
  <2>1. taken[c] \in Seq(Seq(Nat)) /\ Len(taken[c]) \in Nat
        /\ DOMAIN taken[c] = 1..Len(taken[c])
    BY LenProperties DEF RequestsInv
  <2>2. CASE WholeTaken(c)
    BY <2>1, <2>2 DEF WholeTaken
  <2>3. CASE PieceTaken(c)
    <3> DEFINE k == Len(taken[c])
    <3>1. PICK n \in 1..(FrameLen - 1) : taken[c][k] = First(n, Frame(k))
      BY <2>3 DEF PieceTaken
    <3>2. k \in Nat \ {0} /\ FrameLen \in Nat /\ n \in Nat /\ n <= FrameLen
      <4>1. k # 0
        BY <2>1, <2>3, EmptySeq DEF PieceTaken
      <4> QED
        BY <2>1, <4>1, Constants
    <3>3. Frame(k) \in Seq(Nat) /\ Len(Frame(k)) = FrameLen
      BY <3>2, FrameUnits
    <3> DEFINE f == Frame(k)
    <3> HIDE DEF k, f
    <3>4. \A i \in 1..n : f[i] \in Nat
      BY <3>2, <3>3, ElementOfSeq DEF f
    <3>5. First(n, f) \in Seq(Nat) /\ Len(First(n, f)) = n
      BY <3>2, <3>4, SubSeqProperties DEF First
    <3>6. SubSeq(First(n, f), 1, n) = First(n, f)
      BY <3>5, SubSeqFull
    <3>7. IsPrefix(First(n, f), f)
      BY <3>2, <3>3, <3>5, <3>6 DEF IsPrefix, First, f
    <3>8. ASSUME NEW i \in 1..k, i # k PROVE taken[c][i] = Frame(i)
      BY <2>3, <3>2, <3>8 DEF PieceTaken, k
    <3> QED
      BY <2>1, <2>3, <3>1, <3>7, <3>8 DEF PieceTaken, k, f
  <2> QED
    BY <2>2, <2>3 DEF RequestsInv
<1> QED
  BY <1>1, <1>2, PTL

-----------------------------------------------------------------------------
(* The responses.                                                          *)

(* Steps that move no unit towards the clients. *)
LEMMA ResponsesKept ==
  ASSUME ResponsesInv, UNCHANGED responses,
         transport' = transport \/ (\A c \in Clients : cut[c] = 0)
  PROVE  ResponsesInv'
<1>1. \A c \in Clients : WholeSent(c)' = WholeSent(c)
  BY DEF WholeSent, Whole, responses
<1> QED
  BY <1>1 DEF ResponsesInv, responses

(* What one client has under way, when the other clients' stay as they are. *)
LEMMA OthersSent ==
  ASSUME ResponsesInv, NEW c \in Clients, NEW d \in Clients, d # c,
         down'[d] = down[d], sent'[d] = sent[d], got'[d] = got[d], cut'[d] = cut[d]
  PROVE  Len(down'[d]) <= Buffer /\ WholeSent(d)'
<1>1. WholeSent(d) => WholeSent(d)'
  BY DEF WholeSent, Whole
<1> QED
  BY <1>1 DEF ResponsesInv

(* The sequences of a client and the numbers about them. *)
LEMMA SentShape ==
  ASSUME ResponsesInv, NEW c \in Clients
  PROVE  /\ FrameLen \in Nat /\ FrameLen >= 1 /\ Buffer \in Nat /\ MaxResponses \in Nat
         /\ down[c] \in Seq(UnitsOf(MaxResponses)) /\ Len(down[c]) \in Nat
         /\ Len(down[c]) <= Buffer
         /\ sent[c] \in Seq(1..MaxResponses) /\ Len(sent[c]) \in Nat
         /\ got[c] \in Seq([1..FrameLen -> UnitsOf(MaxResponses)]) /\ Len(got[c]) \in Nat
         /\ cut[c] \in 0..Len(sent[c]) /\ Whole(c) \in 0..Len(sent[c])
         /\ Len(sent[c]) - Len(got[c]) >= 0
<1>1. /\ down[c] \in Seq(UnitsOf(MaxResponses)) /\ sent[c] \in Seq(1..MaxResponses)
      /\ got[c] \in Seq([1..FrameLen -> UnitsOf(MaxResponses)])
      /\ Len(down[c]) <= Buffer
  BY DEF ResponsesInv
<1>2. Len(down[c]) \in Nat /\ Len(sent[c]) \in Nat /\ Len(got[c]) \in Nat
  BY <1>1, LenProperties
<1>3. cut[c] \in 0..Len(sent[c]) /\ Len(down[c]) <= (Len(sent[c]) - Len(got[c])) * FrameLen
  BY DEF ResponsesInv, WholeSent
<1>4. Whole(c) \in 0..Len(sent[c])
  BY <1>2, <1>3 DEF Whole
<1>5. Len(sent[c]) - Len(got[c]) >= 0
  <2> DEFINE left == Len(sent[c]) - Len(got[c])
  <2>0. left \in Int
    BY <1>2
  <2>1. left \in Int /\ Len(down[c]) <= left * FrameLen
    BY <1>3, <2>0, Zenon
  <2> HIDE DEF left
  <2>2. 0 * FrameLen = 0 /\ (0 * FrameLen <= left * FrameLen => 0 <= left)
        /\ left * FrameLen \in Int
    BY <2>1, Products, Constants
  <2>3. 0 <= left * FrameLen
    BY <1>2, <2>1, <2>2
  <2>4. 0 <= left
    BY <2>2, <2>3
  <2> QED
    BY <2>1, <2>4 DEF left
<1> QED
  BY <1>1, <1>2, <1>3, <1>4, <1>5, Constants

(* The units under way make up the oldest message first. *)
LEMMA NextFrame ==
  ASSUME ResponsesInv, NEW c \in Clients, Len(down[c]) >= FrameLen
  PROVE  /\ Len(got[c]) + 1 <= Len(sent[c])
         /\ Len(got[c]) + 1 <= Whole(c)
              => First(FrameLen, down[c]) = Frame(sent[c][Len(got[c]) + 1])
<1> DEFINE U == UnitsOf(MaxResponses)
           read == Len(got[c])
           left == Len(sent[c]) - read
           open == Whole(c) - read
           next == sent[c][read + 1]
<1>0. /\ FrameLen \in Nat /\ FrameLen >= 1 /\ MaxResponses \in Nat
      /\ down[c] \in Seq(U) /\ Len(down[c]) \in Nat
      /\ sent[c] \in Seq(1..MaxResponses) /\ Len(sent[c]) \in Nat
      /\ read \in Nat /\ left \in Int /\ open \in Int /\ Whole(c) \in 0..Len(sent[c])
  BY SentShape
<1>1. /\ Len(down[c]) <= left * FrameLen
      /\ \A j \in 1..open : \A i \in 1..FrameLen :
           down[c][(j - 1) * FrameLen + i] = Frame(sent[c][read + j])[i]
  BY DEF ResponsesInv, WholeSent
<1> HIDE DEF U, read, open, left
<1>2. left >= 1
  <2>1. left * FrameLen \in Int /\ 1 * FrameLen = FrameLen
        /\ (1 * FrameLen <= left * FrameLen => 1 <= left)
    BY <1>0, Products
  <2>2. 1 * FrameLen <= left * FrameLen
    BY <1>0, <1>1, <2>1
  <2> QED
    BY <1>0, <2>1, <2>2
<1>3. read + 1 \in 1..Len(sent[c])
  BY <1>0, <1>2 DEF left
<1> SUFFICES ASSUME read + 1 <= Whole(c) PROVE First(FrameLen, down[c]) = Frame(next)
  BY <1>0, <1>3 DEF read, next
<1>4. next \in 1..MaxResponses
  BY <1>0, <1>3, ElementOfSeq
<1> HIDE DEF next
<1>5. ASSUME NEW i \in 1..FrameLen PROVE down[c][i] = Frame(next)[i]
  <2>1. 1 \in 1..open /\ (1 - 1) * FrameLen + i = i
    BY <1>0 DEF open
  <2> QED
    BY <1>1, <2>1 DEF next
<1>6. Frame(next) \in Seq(U) /\ Len(Frame(next)) = FrameLen
  <2>1. next \in Nat \ {0} /\ next <= MaxResponses
    BY <1>0, <1>4
  <2> QED
    BY <1>0, <2>1, FrameUnits DEF U
<1>7. /\ First(FrameLen, down[c]) \in Seq(U) /\ Len(First(FrameLen, down[c])) = FrameLen
      /\ \A i \in 1..FrameLen : First(FrameLen, down[c])[i] = down[c][i]
  <2>1. FrameLen \in 0..Len(down[c])
    BY <1>0
  <2> QED
    BY <1>0, <2>1, FirstRest
<1>8. \A i \in 1..FrameLen : First(FrameLen, down[c])[i] = Frame(next)[i]
  BY <1>5, <1>7
<1> QED
  BY <1>6, <1>7, <1>8, SeqEqual

LEMMA ClientReceives ==
  ASSUME ResponsesInv, NEW c \in Clients, client_receives(c)
  PROVE  ResponsesInv'
<1> DEFINE U == UnitsOf(MaxResponses)
           G == [1..FrameLen -> U]
           frame == First(FrameLen, down[c])
           rest == Rest(FrameLen, down[c])
<1>0. /\ FrameLen \in Nat /\ FrameLen >= 1 /\ Buffer \in Nat
      /\ down[c] \in Seq(U) /\ Len(down[c]) \in Nat /\ Len(down[c]) <= Buffer
      /\ sent[c] \in Seq(1..MaxResponses) /\ Len(sent[c]) \in Nat
      /\ got[c] \in Seq(G) /\ Len(got[c]) \in Nat
      /\ cut[c] \in 0..Len(sent[c]) /\ Whole(c) \in 0..Len(sent[c])
  BY SentShape
<1> HIDE DEF U, G
<1>1. /\ Len(down[c]) >= FrameLen
      /\ got' = [got EXCEPT ![c] = Append(@, frame)]
      /\ down' = [down EXCEPT ![c] = rest]
      /\ UNCHANGED <<transport, sends, sent, cut>>
  BY DEF client_receives, ServiceUntouched, mainVars
<1>2. /\ frame \in Seq(U) /\ Len(frame) = FrameLen
      /\ rest \in Seq(U) /\ Len(rest) = Len(down[c]) - FrameLen
      /\ \A i \in 1..(Len(down[c]) - FrameLen) : rest[i] = down[c][FrameLen + i]
  <2> DEFINE s == down[c]
  <2>1. FrameLen \in 0..Len(s) /\ s \in Seq(U)
    BY <1>0, <1>1
  <2> HIDE DEF s
  <2>2. /\ First(FrameLen, s) \in Seq(U) /\ Len(First(FrameLen, s)) = FrameLen
        /\ Rest(FrameLen, s) \in Seq(U) /\ Len(Rest(FrameLen, s)) = Len(s) - FrameLen
        /\ \A i \in 1..(Len(s) - FrameLen) : Rest(FrameLen, s)[i] = s[FrameLen + i]
    BY <2>1, FirstRest
  <2> QED
    BY <2>2 DEF s
<1> HIDE DEF frame, rest
<1>3. frame \in G
  BY <1>2, LenProperties DEF G
<1>4. /\ Len(Append(got[c], frame)) = Len(got[c]) + 1
      /\ Append(got[c], frame) \in Seq(G)
      /\ \A i \in 1..Len(got[c]) : Append(got[c], frame)[i] = got[c][i]
      /\ Append(got[c], frame)[Len(got[c]) + 1] = frame
  BY <1>0, <1>3, AppendProperties
<1>5. /\ got'[c] = Append(got[c], frame) /\ down'[c] = rest /\ sent'[c] = sent[c]
      /\ got' \in [Clients -> Seq(G)] /\ down' \in [Clients -> Seq(U)]
      /\ \A d \in Clients \ {c} : got'[d] = got[d] /\ down'[d] = down[d] /\ sent'[d] = sent[d]
  <2>1. got \in [Clients -> Seq(G)] /\ down \in [Clients -> Seq(U)]
    BY DEF ResponsesInv, G, U
  <2> QED
    BY <1>1, <1>2, <1>4, <2>1
<1>6. Len(down'[c]) <= Buffer
  BY <1>0, <1>2, <1>5
<1>7. WholeSent(c)'
  <2> DEFINE read == Len(got[c])
             left == Len(sent[c]) - read
             open == Whole(c) - read
  <2>1. /\ Len(down[c]) <= left * FrameLen
        /\ open >= 0 => open * FrameLen <= Len(down[c])
        /\ \A j \in 1..open : \A i \in 1..FrameLen :
             down[c][(j - 1) * FrameLen + i] = Frame(sent[c][read + j])[i]
        /\ \A i \in 1..read : i <= Whole(c) => got[c][i] = Frame(sent[c][i])
    BY DEF ResponsesInv, WholeSent
  <2>2. /\ read + 1 <= Len(sent[c])
        /\ read + 1 <= Whole(c) => frame = Frame(sent[c][read + 1])
    BY <1>1, NextFrame DEF frame
  <2>3. /\ Len(got'[c]) = read + 1 /\ Whole(c)' = Whole(c) /\ cut'[c] = cut[c]
        /\ Len(sent'[c]) - Len(got'[c]) = left - 1
        /\ Whole(c)' - Len(got'[c]) = open - 1
        /\ read \in Nat /\ left \in Int /\ open \in Int
    <3>1. Len(got'[c]) = read + 1 /\ Len(sent'[c]) = Len(sent[c]) /\ cut'[c] = cut[c]
      BY <1>1, <1>4, <1>5
    <3>2. Whole(c)' = Whole(c)
      BY <3>1 DEF Whole
    <3> QED
      BY <1>0, <3>1, <3>2
  <2> HIDE DEF read, open, left
  <2>4. /\ Len(down'[c]) <= (left - 1) * FrameLen
        /\ open - 1 >= 0 => (open - 1) * FrameLen <= Len(down'[c])
    <3>1. /\ (open - 1) * FrameLen = open * FrameLen - FrameLen
          /\ (left - 1) * FrameLen = left * FrameLen - FrameLen
          /\ open * FrameLen \in Int /\ left * FrameLen \in Int
      BY <2>3, Products
    <3> QED
      BY <1>0, <1>2, <1>5, <2>1, <2>3, <3>1
  <2>5. ASSUME NEW j \in 1..(open - 1), NEW i \in 1..FrameLen
        PROVE  down'[c][(j - 1) * FrameLen + i] = Frame(sent'[c][(read + 1) + j])[i]
    <3>1. j \in Int /\ j + 1 \in 1..open /\ (j + 1) - 1 = j /\ (read + 1) + j = read + (j + 1)
          /\ open >= 0
      BY <2>3
    <3>2. down[c][j * FrameLen + i] = Frame(sent[c][read + (j + 1)])[i]
      BY <2>1, <3>1
    <3>3. /\ (j - 1) * FrameLen = j * FrameLen - FrameLen /\ j * FrameLen \in Int
          /\ 1 * FrameLen <= j * FrameLen
          /\ j * FrameLen + FrameLen <= open * FrameLen /\ open * FrameLen \in Int
      <4>1. 1 <= j /\ j < open /\ open \in Int /\ 1 \in Int
        BY <2>3
      <4> QED
        BY <3>1, <4>1, Products
    <3>4. 1 * FrameLen = FrameLen
      BY <1>0
    <3> DEFINE x == j * FrameLen
               top == open * FrameLen
               y == (j - 1) * FrameLen + i
    <3>5. /\ x \in Int /\ top \in Int /\ FrameLen <= x /\ x + FrameLen <= top
          /\ y = x - FrameLen + i /\ top <= Len(down[c])
      BY <2>1, <3>1, <3>3, <3>4
    <3> HIDE DEF x, top, y
    <3>6. y \in 1..(Len(down[c]) - FrameLen) /\ FrameLen + y = x + i
      BY <1>0, <3>5
    <3>7. rest[y] = down[c][x + i]
      BY <1>2, <3>6
    <3> QED
      BY <1>5, <3>1, <3>2, <3>7 DEF x, y
  <2>6. ASSUME NEW i \in 1..(read + 1), i <= Whole(c)
        PROVE  got'[c][i] = Frame(sent'[c][i])
    <3>1. i \in 1..read \/ i = read + 1
      BY <2>3
    <3> QED
      BY <1>4, <1>5, <2>1, <2>2, <2>6, <3>1 DEF read
  <2>7. cut'[c] \in 0..Len(sent'[c])
    BY <1>0, <1>5, <2>3
  <2> QED
    BY <2>3, <2>4, <2>5, <2>6, <2>7 DEF WholeSent
<1>8. ASSUME NEW d \in Clients PROVE Len(down'[d]) <= Buffer /\ WholeSent(d)'
  <2>1. CASE d = c
    BY <1>6, <1>7, <2>1
  <2>2. CASE d # c
    BY <1>1, <1>5, <2>2, OthersSent
  <2> QED
    BY <2>1, <2>2
<1> QED
  BY <1>1, <1>5, <1>8 DEF ResponsesInv, U, G

(* What send() takes of a message: all of it, nothing, or, over TCP, the   *)
(* part there is room for.                                                 *)
LEMMA TakenPart ==
  ASSUME NEW room \in Nat
  PROVE  /\ Taken(FrameLen, room) \in 0..FrameLen /\ Taken(FrameLen, room) <= room
         /\ transport # "tcp" => Taken(FrameLen, room) \in {0, FrameLen}
  BY Constants DEF Taken

LEMMA ServiceSends ==
  ASSUME ResponsesInv, NEW c \in Clients, sendMessageToClient(c)
  PROVE  ResponsesInv'
<1> DEFINE U == UnitsOf(MaxResponses)
           N == 1..MaxResponses
           n == Taken(FrameLen, Buffer - Len(down[c]))
           num == sends + 1
           f == Frame(num)
           part == First(n, f)
<1>0. /\ FrameLen \in Nat /\ FrameLen >= 1 /\ Buffer \in Nat /\ MaxResponses \in Nat
      /\ down[c] \in Seq(U) /\ Len(down[c]) \in Nat /\ Len(down[c]) <= Buffer
      /\ sent[c] \in Seq(N) /\ Len(sent[c]) \in Nat
      /\ got[c] \in Seq([1..FrameLen -> U]) /\ Len(got[c]) \in Nat
      /\ sends \in 0..MaxResponses
      /\ cut[c] \in 0..Len(sent[c]) /\ Whole(c) \in 0..Len(sent[c])
  BY SentShape DEF ResponsesInv
<1>1. /\ sends < MaxResponses /\ sends' = num
      /\ down' = [down EXCEPT ![c] = @ \o part]
      /\ sent' = IF n > 0 THEN [sent EXCEPT ![c] = Append(@, num)] ELSE sent
      /\ cut' = IF n \in 1..(FrameLen - 1) /\ cut[c] = 0
                THEN [cut EXCEPT ![c] = Len(sent[c]) + 1] ELSE cut
      /\ UNCHANGED <<transport, got>>
  BY DEF sendMessageToClient, Sends, mainVars
<1>2. /\ n \in 0..FrameLen /\ n <= Buffer - Len(down[c])
      /\ transport # "tcp" => n \in {0, FrameLen}
  <2>1. Buffer - Len(down[c]) \in Nat
    BY <1>0
  <2> QED
    BY <2>1, TakenPart
<1> HIDE DEF n, U, N
<1>3. num \in Nat \ {0} /\ num <= MaxResponses /\ num \in N
  BY <1>0, <1>1 DEF N
<1>4. /\ f \in Seq(U) /\ Len(f) = FrameLen
  BY <1>0, <1>3, FrameUnits DEF U
<1> HIDE DEF f, num
<1>5. /\ part \in Seq(U) /\ Len(part) = n /\ \A i \in 1..n : part[i] = f[i]
  <2>1. n \in 0..Len(f)
    BY <1>2, <1>4
  <2> QED
    BY <1>4, <2>1, FirstRest
<1> HIDE DEF part
<1>6. /\ down[c] \o part \in Seq(U) /\ Len(down[c] \o part) = Len(down[c]) + n
      /\ \A i \in 1..(Len(down[c]) + n) : (down[c] \o part)[i] =
            IF i <= Len(down[c]) THEN down[c][i] ELSE part[i - Len(down[c])]
  BY <1>0, <1>5, ConcatProperties
<1>7. /\ Append(sent[c], num) \in Seq(N) /\ Len(Append(sent[c], num)) = Len(sent[c]) + 1
      /\ \A i \in 1..Len(sent[c]) : Append(sent[c], num)[i] = sent[c][i]
      /\ Append(sent[c], num)[Len(sent[c]) + 1] = num
  BY <1>0, <1>3, AppendProperties
<1>8. /\ down' \in [Clients -> Seq(U)] /\ sent' \in [Clients -> Seq(N)]
      /\ down'[c] = down[c] \o part
      /\ sent'[c] = IF n > 0 THEN Append(sent[c], num) ELSE sent[c]
      /\ \A d \in Clients \ {c} : down'[d] = down[d] /\ sent'[d] = sent[d]
  <2>1. down \in [Clients -> Seq(U)] /\ sent \in [Clients -> Seq(N)]
    BY DEF ResponsesInv, U, N
  <2> QED
    BY <1>1, <1>6, <1>7, <2>1
<1>9. Len(down'[c]) <= Buffer
  BY <1>0, <1>2, <1>6, <1>8
<1>10. /\ sends' \in 0..MaxResponses /\ cut' \in [Clients -> Nat]
       /\ transport' # "tcp" => \A d \in Clients : cut'[d] = 0
       /\ cut'[c] = IF n \in 1..(FrameLen - 1) /\ cut[c] = 0 THEN Len(sent[c]) + 1
                    ELSE cut[c]
       /\ \A d \in Clients \ {c} : cut'[d] = cut[d]
  <2>1. sends' \in 0..MaxResponses
    BY <1>0, <1>1, <1>3
  <2>2. transport # "tcp" => n \notin 1..(FrameLen - 1)
    BY <1>0, <1>2
  <2>3. cut \in [Clients -> Nat] /\ Len(sent[c]) + 1 \in Nat
    BY <1>0 DEF ResponsesInv
  <2>4. transport # "tcp" => \A d \in Clients : cut[d] = 0
    BY DEF ResponsesInv
  <2> QED
    BY <1>1, <2>1, <2>2, <2>3, <2>4
<1>11. WholeSent(c)'
  <2> DEFINE read == Len(got[c])
             left == Len(sent[c]) - read
             open == Whole(c) - read
  <2>1. /\ Len(down[c]) <= left * FrameLen
        /\ open >= 0 => open * FrameLen <= Len(down[c])
        /\ \A j \in 1..open : \A i \in 1..FrameLen :
             down[c][(j - 1) * FrameLen + i] = Frame(sent[c][read + j])[i]
        /\ \A i \in 1..read : i <= Whole(c) => got[c][i] = Frame(sent[c][i])
    BY DEF ResponsesInv, WholeSent
  <2>2. got'[c] = got[c] /\ read \in Nat /\ left \in Int /\ open \in Int /\ left >= 0
    BY <1>0, <1>1, SentShape
  <2>3. CASE n = 0
    <3>1. down'[c] = down[c]
      <4>1. Len(down'[c]) = Len(down[c]) /\ down'[c] \in Seq(U)
        BY <1>0, <1>6, <1>8, <2>3
      <4>2. \A i \in 1..Len(down[c]) : down'[c][i] = down[c][i]
        BY <1>0, <1>6, <1>8, <2>3
      <4> QED
        BY <1>0, <4>1, <4>2, SeqEqual
    <3>2. sent'[c] = sent[c] /\ cut'[c] = cut[c]
      BY <1>8, <1>10, <2>3
    <3> QED
      BY <2>2, <3>1, <3>2 DEF WholeSent, Whole, ResponsesInv
  <2>4. CASE n > 0
    <3>1. /\ sent'[c] = Append(sent[c], num) /\ Len(sent'[c]) = Len(sent[c]) + 1
          /\ \A i \in 1..Len(sent[c]) : sent'[c][i] = sent[c][i]
          /\ sent'[c][Len(sent[c]) + 1] = num
      BY <1>7, <1>8, <2>4
    <3>2. Len(sent'[c]) - Len(got'[c]) = left + 1 /\ Len(got'[c]) = read
      BY <1>0, <2>2, <3>1
    <3>3. cut'[c] \in 0..Len(sent'[c])
      BY <1>0, <1>10, <3>1
    <3>4. Len(down'[c]) = Len(down[c]) + n
      BY <1>6, <1>8
    <3>5. \/ Whole(c)' = Whole(c)
          \/ /\ n = FrameLen /\ Whole(c)' = Whole(c) + 1
             /\ cut[c] = 0 /\ Whole(c) = Len(sent[c])
      BY <1>0, <1>2, <1>10, <2>4, <3>1 DEF Whole
    <3>6. Whole(c) \in 0..Len(sent[c]) /\ read + open = Whole(c) /\ Whole(c)' \in Int
      BY <1>0, <2>2, <3>5
    <3>7. cut[c] = 0 /\ Whole(c) = Len(sent[c]) => open = left
      BY <1>0
    <3>8. /\ Whole(c)' = Whole(c) => Whole(c)' - Len(got'[c]) = open
          /\ Whole(c)' = Whole(c) + 1 => Whole(c)' - Len(got'[c]) = open + 1
      BY <1>0, <2>2
    <3> HIDE DEF read, left, open
    <3>9. Len(down'[c]) <= (left + 1) * FrameLen
      <4>1. (left + 1) * FrameLen = left * FrameLen + FrameLen /\ left * FrameLen \in Int
        BY <2>2, Products
      <4> QED
        BY <1>0, <1>2, <2>1, <3>4, <4>1
    <3>10. ASSUME NEW j \in 1..open, NEW i \in 1..FrameLen
           PROVE  down'[c][(j - 1) * FrameLen + i] = Frame(sent'[c][read + j])[i]
      <4> DEFINE x == (j - 1) * FrameLen
                 top == open * FrameLen
      <4>1. j - 1 \in Int /\ j - 1 < open /\ 0 <= j - 1 /\ open >= 0
        BY <2>2
      <4>2. x \in Int /\ top \in Int /\ x + FrameLen <= top /\ 0 * FrameLen <= x
        <5>1. x \in Int /\ top \in Int /\ x + FrameLen <= top
          BY <2>2, <4>1, Products
        <5>2. 0 \in Int /\ (0 <= j - 1 => 0 * FrameLen <= x)
          BY <4>1, Products
        <5> QED
          BY <4>1, <5>1, <5>2
      <4>3. 0 * FrameLen = 0
        BY <1>0
      <4>4. down[c][x + i] = Frame(sent[c][read + j])[i] /\ top <= Len(down[c])
        BY <2>1, <4>1
      <4> HIDE DEF x, top
      <4>5. x + i \in 1..(Len(down[c]) + n) /\ x + i <= Len(down[c])
        BY <1>0, <1>2, <4>2, <4>3, <4>4
      <4>6. down'[c][x + i] = down[c][x + i]
        BY <1>6, <1>8, <4>5
      <4>7. read + j \in 1..Len(sent[c])
        BY <1>0, <2>2, <3>6
      <4> QED
        BY <3>1, <4>4, <4>6, <4>7 DEF x
    <3>11. ASSUME NEW i \in 1..read, i <= Whole(c)' PROVE got'[c][i] = Frame(sent'[c][i])
      <4>1. i \in 1..Len(sent[c]) /\ i <= Len(sent[c])
        BY <1>0, <2>2, SentShape DEF read
      <4>2. i <= Whole(c)
        BY <1>0, <3>5, <3>11, <4>1
      <4> QED
        BY <2>1, <2>2, <3>1, <4>1, <4>2
    <3>12. CASE Whole(c)' = Whole(c)
      <4>1. open >= 0 => open * FrameLen <= Len(down'[c])
        <5>1. open * FrameLen \in Int
          BY <2>2, Products
        <5> QED
          BY <1>0, <1>2, <2>1, <3>4, <5>1
      <4> QED
        BY <3>2, <3>3, <3>8, <3>9, <3>10, <3>11, <3>12, <4>1 DEF WholeSent
    <3>13. CASE n = FrameLen /\ Whole(c)' = Whole(c) + 1
                /\ cut[c] = 0 /\ Whole(c) = Len(sent[c])
      <4> DEFINE top == open * FrameLen
      <4>1. open = left /\ open >= 0 /\ Len(down[c]) = top /\ top \in Int
            /\ (open + 1) * FrameLen = top + FrameLen
        <5>1. open = left /\ open >= 0
          BY <2>2, <3>7, <3>13
        <5>2. top \in Int /\ (open + 1) * FrameLen = top + FrameLen
          BY <2>2, Products
        <5> QED
          BY <1>0, <2>1, <5>1, <5>2
      <4>2. (open + 1) * FrameLen <= Len(down'[c])
        <5> HIDE DEF top
        <5> QED
          BY <1>0, <3>4, <3>13, <4>1
      <4>3. ASSUME NEW j \in 1..(open + 1), NEW i \in 1..FrameLen
            PROVE  down'[c][(j - 1) * FrameLen + i] = Frame(sent'[c][read + j])[i]
        <5>1. CASE j = open + 1
          <6>1. (j - 1) * FrameLen = top
            BY <2>2, <5>1
          <6>2. sent'[c][read + j] = num
            <7>1. read + j = Len(sent[c]) + 1
              BY <1>0, <2>2, <3>6, <3>13, <5>1
            <7> QED
              BY <3>1, <7>1
          <6> HIDE DEF top
          <6>3. /\ top + i \in 1..(Len(down[c]) + n) /\ ~(top + i <= Len(down[c]))
                /\ (top + i) - Len(down[c]) = i /\ i \in 1..n
            BY <1>0, <3>13, <4>1
          <6>4. down'[c][top + i] = part[i]
            BY <1>6, <1>8, <6>3
          <6> QED
            BY <1>5, <6>1, <6>2, <6>3, <6>4 DEF f
        <5>2. CASE j # open + 1
          <6>1. j \in 1..open
            BY <2>2, <5>2
          <6> QED
            BY <3>10, <6>1
        <5> QED
          BY <5>1, <5>2
      <4> QED
        BY <3>2, <3>3, <3>8, <3>9, <3>11, <3>13, <4>2, <4>3 DEF WholeSent
    <3> QED
      BY <3>5, <3>12, <3>13
  <2> QED
    BY <1>2, <2>3, <2>4
<1>12. ASSUME NEW d \in Clients PROVE Len(down'[d]) <= Buffer /\ WholeSent(d)'
  <2>1. CASE d = c
    BY <1>9, <1>11, <2>1
  <2>2. CASE d # c
    <3>1. got'[d] = got[d] /\ cut'[d] = cut[d]
      BY <1>1, <1>10, <2>2
    <3> QED
      BY <1>8, <2>2, <3>1, OthersSent
  <2> QED
    BY <2>1, <2>2
<1>13. got' \in [Clients -> Seq([1..FrameLen -> U])]
  BY <1>1 DEF ResponsesInv, U
<1> QED
  BY <1>8, <1>10, <1>12, <1>13 DEF ResponsesInv, U, N

LEMMA ResponsesInit == Init => ResponsesInv
<1> SUFFICES ASSUME Init PROVE ResponsesInv
  OBVIOUS
<1>1. ASSUME NEW c \in Clients PROVE down[c] = <<>> /\ sent[c] = <<>> /\ got[c] = <<>>
  BY DEF Init
<1>2. /\ down \in [Clients -> Seq(UnitsOf(MaxResponses))]
      /\ sent \in [Clients -> Seq(1..MaxResponses)]
      /\ got \in [Clients -> Seq([1..FrameLen -> UnitsOf(MaxResponses)])]
      /\ cut \in [Clients -> Nat] /\ (\A c \in Clients : cut[c] = 0) /\ sends = 0
  BY EmptySeq DEF Init
<1>3. Len(<<>>) = 0 /\ 0 - 0 = 0 /\ 0 * FrameLen = 0 /\ 0 <= Buffer /\ 0 \in 0..MaxResponses
  BY Constants
<1>4. ASSUME NEW c \in Clients PROVE WholeSent(c)
  <2>1. Len(down[c]) = 0 /\ Len(got[c]) = 0 /\ Len(sent[c]) - Len(got[c]) = 0
    BY <1>1, <1>3
  <2>2. \A i \in 1..0 : FALSE
    OBVIOUS
  <2> QED
    BY <1>1, <1>2, <1>3, <2>1, <2>2 DEF WholeSent, Whole
<1> QED
  BY <1>1, <1>2, <1>3, <1>4 DEF ResponsesInv

LEMMA ResponsesStep == ConnectionInv /\ ResponsesInv /\ [Next]_vars => ResponsesInv'
<1> SUFFICES ASSUME ConnectionInv, ResponsesInv, [Next]_vars PROVE ResponsesInv'
  OBVIOUS
<1>1. ASSUME NEW ok \in BOOLEAN,
             \/ createClientConnector \/ main_creates \/ init_adapter(ok)
             \/ start_unix(ok) \/ start_tcp(ok) \/ listen(ok)
      PROVE  ResponsesInv'
  <2>0. boot \in 1..8 /\ (boot = 1 => transport = "none")
    BY DEF ConnectionInv, MainInv
  <2>1. UNCHANGED responses
    BY <1>1 DEF createClientConnector, main_creates, init_adapter, start_unix, start_tcp,
                listen, StartsAccepting, ConnectionsUntouched, clientVars
  <2>2. transport' = transport \/ boot = 1
    BY <1>1, <2>0, Steps DEF createClientConnector, main_creates, init_adapter, start_unix,
                start_tcp, listen, StartsAccepting, mainVars
  <2>3. transport' = transport \/ (\A c \in Clients : cut[c] = 0)
    BY <2>0, <2>2 DEF ResponsesInv
  <2> QED
    BY <2>1, <2>3, ResponsesKept
<1>2. ASSUME NEW ok \in BOOLEAN,
             \/ accept \/ accept_fails \/ notify_new_connection \/ ignitPump(ok)
             \/ assign_mThread \/ getConnections \/ getConnections_returns
      PROVE  ResponsesInv'
  BY <1>2, ResponsesKept DEF accept, accept_fails, notify_new_connection, ignitPump,
                             assign_mThread, getConnections, getConnections_returns,
                             clientVars, mainVars
<1>3. ASSUME NEW c \in Clients, connect(c) \/ client_sends(c) \/ client_closes(c)
      PROVE  ResponsesInv'
  BY <1>3, ResponsesKept DEF connect, client_sends, client_closes, ServiceUntouched, mainVars
<1>4. ASSUME NEW c \in Clients,
             \/ pump_message(c) \/ pump_short(c) \/ pump_error(c) \/ pump_disconnect(c)
             \/ pump_tell(c) \/ pump_delete(c)
      PROVE  ResponsesInv'
  BY <1>4, ResponsesKept DEF pump_message, pump_short, Takes, pump_error, pump_disconnect,
                             pump_tell, pump_delete, clientVars, mainVars
<1>5. ASSUME NEW c \in Clients, send_to_gone(c) PROVE ResponsesInv'
  <2>1. UNCHANGED <<transport, down, sent, got, cut>> /\ sends' = sends + 1
        /\ sends < MaxResponses
    BY <1>5 DEF send_to_gone, mainVars
  <2>2. sends' \in 0..MaxResponses
    BY <2>1, Constants DEF ResponsesInv
  <2>3. \A d \in Clients : WholeSent(d)' = WholeSent(d)
    BY <2>1 DEF WholeSent, Whole
  <2> QED
    BY <2>1, <2>2, <2>3 DEF ResponsesInv
<1>6. CASE UNCHANGED vars
  BY <1>6, ResponsesKept DEF vars, clientVars, mainVars
<1> QED
  BY <1>1, <1>2, <1>3, <1>4, <1>5, <1>6, ClientReceives, ServiceSends
     DEF Next, AcceptLoop, PumpLoop

(* What a client reads are the messages whose send() reported success,     *)
(* whole and in order, up to the first, over TCP, that was cut, and never  *)
(* more than was sent.                                                     *)
THEOREM ReceivedAsSent == Spec => []SentIsReceived
<1>1. Spec => []ResponsesInv
  BY ConnectionsConsistent, ResponsesInit, ResponsesStep, PTL DEF Spec
<1>2. ResponsesInv => SentIsReceived
  <2> SUFFICES ASSUME ResponsesInv, NEW c \in Clients
               PROVE  /\ Len(got[c]) <= Len(sent[c])
                      /\ cut[c] # 0 => transport = "tcp"
                      /\ \A i \in DOMAIN got[c] :
                           cut[c] = 0 \/ i < cut[c] => got[c][i] = Frame(sent[c][i])
    BY DEF SentIsReceived
  <2>1. got[c] \in Seq([1..FrameLen -> UnitsOf(MaxResponses)]) /\ WholeSent(c)
        /\ cut[c] \in Nat /\ (cut[c] # 0 => transport = "tcp")
    BY DEF ResponsesInv
  <2>2. /\ Len(got[c]) \in Nat /\ Len(sent[c]) \in Nat /\ DOMAIN got[c] = 1..Len(got[c])
        /\ Len(got[c]) <= Len(sent[c])
    BY <2>1, SentShape, LenProperties
  <2>3. \A i \in 1..Len(got[c]) : i <= Whole(c) => got[c][i] = Frame(sent[c][i])
    BY <2>1 DEF WholeSent
  <2>4. \A i \in 1..Len(got[c]) : cut[c] = 0 \/ i < cut[c] => i <= Whole(c)
    BY <2>1, <2>2 DEF Whole
  <2> QED
    BY <2>1, <2>2, <2>3, <2>4
<1> QED
  BY <1>1, <1>2, PTL

-----------------------------------------------------------------------------
(* The elements of a sequence are in its set. *)
LEMMA RangeIn ==
  ASSUME NEW S, NEW s \in Seq(S)
  PROVE  Range(s) \subseteq S
<1>1. DOMAIN s = 1..Len(s)
  BY LenProperties
<1> QED
  BY <1>1, ElementOfSeq DEF Range

LEMMA RequestTypes ==
  ASSUME RequestsInv, NEW c \in Clients
  PROVE  /\ wrote[c] \in 0..(MaxMessages[c] * FrameLen)
         /\ Range(stream[c]) \subseteq UnitsOf(MaxMessages[c])
         /\ Range(taken[c]) \cup Range(delivered[c]) \subseteq Frames(MaxMessages[c])
<1> DEFINE m == MaxMessages[c]
           k == Len(taken[c])
<1>0. /\ FrameLen \in Nat /\ FrameLen >= 1 /\ m \in Nat
      /\ wrote[c] \in Nat /\ wrote[c] <= m * FrameLen
      /\ stream[c] \in Seq(Nat) /\ taken[c] \in Seq(Seq(Nat)) /\ delivered[c] = taken[c]
      /\ k <= m
  BY Constants DEF RequestsInv
<1>1. /\ Len(stream[c]) \in Nat /\ DOMAIN stream[c] = 1..Len(stream[c])
      /\ k \in Nat /\ DOMAIN taken[c] = 1..k
  BY <1>0, LenProperties
<1>2. wrote[c] \in 0..(m * FrameLen)
  BY <1>0
<1>3. Range(stream[c]) \subseteq UnitsOf(m)
  <2>1. CASE WholeTaken(c)
    <3> DEFINE base == k * FrameLen
               top == m * FrameLen
    <3>1. wrote[c] = base + Len(stream[c])
          /\ \A i \in 1..Len(stream[c]) : stream[c][i] = base + i
      BY <2>1 DEF WholeTaken
    <3>2. base \in Int /\ base >= 0 /\ top \in Int /\ wrote[c] <= top
      BY <1>0, <1>1
    <3> HIDE DEF base, top
    <3>3. ASSUME NEW i \in 1..Len(stream[c]) PROVE stream[c][i] \in 1..top
      <4>1. base + i \in 1..top
        BY <1>0, <1>1, <3>1, <3>2
      <4> QED
        BY <3>1, <4>1
    <3> QED
      BY <1>1, <3>3 DEF Range, UnitsOf, top
  <2>2. CASE PieceTaken(c)
    BY <2>2 DEF PieceTaken, Range
  <2> QED
    BY <2>1, <2>2 DEF RequestsInv
<1>4. ASSUME NEW i \in 1..k PROVE taken[c][i] \in Frames(m)
  <2>1. i \in Nat \ {0} /\ i <= m
    BY <1>0, <1>1
  <2>2. Frame(i) \in [1..FrameLen -> UnitsOf(m)] /\ Frame(i) \in Seq(UnitsOf(m))
        /\ Len(Frame(i)) = FrameLen
    BY <1>0, <2>1, FrameUnits
  <2>3. taken[c][i] = Frame(i) \/ \E n \in 1..(FrameLen - 1) : taken[c][i] = First(n, Frame(i))
    <3>1. CASE WholeTaken(c)
      BY <3>1 DEF WholeTaken
    <3>2. CASE PieceTaken(c)
      <4>1. i = k \/ i \in 1..(k - 1)
        BY <1>1
      <4> QED
        BY <3>2, <4>1 DEF PieceTaken
    <3> QED
      BY <3>1, <3>2 DEF RequestsInv
  <2>4. CASE taken[c][i] = Frame(i)
    <3>1. FrameLen \in 0..FrameLen
      BY <1>0
    <3> QED
      BY <2>2, <2>4, <3>1 DEF Frames
  <2>5. ASSUME NEW n \in 1..(FrameLen - 1), taken[c][i] = First(n, Frame(i))
        PROVE  taken[c][i] \in Frames(m)
    <3> DEFINE f == Frame(i)
               U == UnitsOf(m)
    <3>1. f \in Seq(U) /\ n \in 0..Len(f) /\ n \in 0..FrameLen
      BY <1>0, <2>2
    <3> HIDE DEF f, U
    <3>2. First(n, f) \in Seq(U) /\ Len(First(n, f)) = n
      BY <3>1, FirstRest
    <3>3. First(n, f) \in [1..n -> U]
      BY <3>2, LenProperties
    <3> QED
      BY <2>5, <3>1, <3>3 DEF Frames, f, U
  <2> QED
    BY <2>3, <2>4, <2>5
<1>5. Range(taken[c]) \subseteq Frames(m)
  BY <1>1, <1>4 DEF Range
<1> QED
  BY <1>0, <1>2, <1>3, <1>5

LEMMA ResponseTypes ==
  ASSUME ResponsesInv, NEW c \in Clients
  PROVE  /\ Len(down[c]) <= Buffer /\ Range(down[c]) \subseteq UnitsOf(MaxResponses)
         /\ Range(got[c]) \subseteq Frames(MaxResponses)
         /\ Range(sent[c]) \subseteq 1..MaxResponses
         /\ cut[c] \in 0..Len(sent[c])
<1> DEFINE U == UnitsOf(MaxResponses)
           G == [1..FrameLen -> U]
<1>1. /\ Len(down[c]) <= Buffer
      /\ down[c] \in Seq(U) /\ got[c] \in Seq(G) /\ sent[c] \in Seq(1..MaxResponses)
  BY DEF ResponsesInv
<1>2. G \subseteq Frames(MaxResponses)
  <2>1. FrameLen \in 0..FrameLen
    BY Constants
  <2> QED
    BY <2>1 DEF Frames
<1> HIDE DEF U, G
<1>3. Range(down[c]) \subseteq U /\ Range(got[c]) \subseteq G
      /\ Range(sent[c]) \subseteq 1..MaxResponses
  BY <1>1, RangeIn
<1> QED
  BY <1>1, <1>2, <1>3, SentShape DEF U

(* The copy of the list and what has ended the process. *)
CopyInv ==
  copying \in {"no", "clean", "torn"} /\ fatal \in {"none", "thread", "copy"}

LEMMA CopyStep == CopyInv /\ [Next]_vars => CopyInv'
<1> SUFFICES ASSUME CopyInv, [Next]_vars PROVE CopyInv'
  OBVIOUS
<1> USE DEF CopyInv, history
<1>1. ASSUME NEW ok \in BOOLEAN,
             \/ createClientConnector \/ main_creates \/ init_adapter(ok)
             \/ start_unix(ok) \/ start_tcp(ok) \/ listen(ok)
      PROVE  CopyInv'
  BY <1>1 DEF createClientConnector, main_creates, init_adapter, start_unix, start_tcp,
              listen, StartsAccepting, ConnectionsUntouched
<1>2. ASSUME NEW ok \in BOOLEAN,
             \/ accept \/ accept_fails \/ notify_new_connection \/ ignitPump(ok)
             \/ assign_mThread \/ getConnections \/ getConnections_returns
      PROVE  CopyInv'
  BY <1>2 DEF accept, accept_fails, notify_new_connection, ignitPump, assign_mThread,
              getConnections, getConnections_returns, Torn
<1>3. ASSUME NEW c \in Clients,
             \/ connect(c) \/ client_sends(c) \/ client_receives(c) \/ client_closes(c)
             \/ sendMessageToClient(c) \/ send_to_gone(c)
      PROVE  CopyInv'
  BY <1>3 DEF connect, client_sends, client_receives, client_closes, sendMessageToClient,
              Sends, send_to_gone, ServiceUntouched
<1>4. ASSUME NEW c \in Clients,
             \/ pump_message(c) \/ pump_short(c) \/ pump_error(c) \/ pump_disconnect(c)
             \/ pump_tell(c) \/ pump_delete(c)
      PROVE  CopyInv'
  BY <1>4 DEF pump_message, pump_short, Takes, pump_error, pump_disconnect, pump_tell,
              pump_delete, Torn
<1>5. CASE UNCHANGED vars
  BY <1>5 DEF vars
<1> QED
  BY <1>1, <1>2, <1>3, <1>4, <1>5 DEF Next, AcceptLoop, PumpLoop

(* Type correctness of the connector, the connections and the clients. *)
THEOREM TypeCorrect == Spec => []TypeOK
<1>1. Spec => []RequestsInv
  BY ConnectionsConsistent, RequestsInit, RequestsStep, PTL DEF Spec
<1>2. Spec => []ResponsesInv
  BY ConnectionsConsistent, ResponsesInit, ResponsesStep, PTL DEF Spec
<1>3. Spec => []CopyInv
  <2>1. Init => CopyInv
    BY DEF Init, CopyInv
  <2> QED
    BY <2>1, CopyStep, PTL DEF Spec
<1>4. ConnectionInv /\ RequestsInv /\ ResponsesInv /\ CopyInv => TypeOK
  <2> SUFFICES ASSUME ConnectionInv, RequestsInv, ResponsesInv, CopyInv PROVE TypeOK
    OBVIOUS
  <2>1. boot \in 1..(Len(MainSteps) + 1)
    <3>1. Len(MainSteps) = 7
      BY DEF MainSteps
    <3>2. boot \in 1..8
      BY DEF ConnectionInv, MainInv
    <3> QED
      BY <3>1, <3>2
  <2>2. /\ up \in BOOLEAN /\ transport \in Transports \cup {"none"}
        /\ accepting \in {"off", "listen", "failed", "accept", "notify", "ignit", "assign",
                          "ended"}
        /\ current \in {<<>>} \cup {<<c>> : c \in Clients} /\ backlog \in Seq(Clients)
    BY DEF ConnectionInv, MainInv, AcceptInv, BacklogInv
  <2>3. sends \in 0..MaxResponses /\ copying \in {"no", "clean", "torn"}
        /\ fatal \in {"none", "thread", "copy"}
    BY DEF ResponsesInv, CopyInv
  <2>4. ShapeInv
    BY DEF ConnectionInv
  <2> QED
    BY <2>1, <2>2, <2>3, <2>4, RequestTypes, ResponseTypes DEF TypeOK, ShapeInv
<1> QED
  BY <1>1, <1>2, <1>3, <1>4, ConnectionsConsistent, PTL
=============================================================================
