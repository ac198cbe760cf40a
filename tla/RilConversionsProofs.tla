------------------------ MODULE RilConversionsProofs ------------------------
(***************************************************************************)
(* Proofs about RilConversions, for any replies of the vendor and any      *)
(* limits: the deadline of every timed wait, the version of every list of  *)
(* data calls, on 32 and on 64 bits, registration statuses, preferences,   *)
(* the addresses of a data call and network scans.                         *)
(***************************************************************************)
EXTENDS RilConversions, SequenceTheorems, FiniteSetTheorems, TLAPS

(* A deadline is early by 999 nanoseconds for each microsecond of the time *)
(* of day: the part below the second is divided by a thousand.             *)
LEMMA TimeoutIsEarly ==
  ASSUME NEW usec \in Nat, usec < 1000000, NEW ms \in Nat
  PROVE  LET d == TimeoutAt(0, usec, ms) IN
         /\ d.tv_sec \in Nat /\ d.tv_nsec \in Nat /\ d.tv_nsec < 1000000000
         /\ Lasts(d, usec) = ms * 1000000 - 999 * usec
<1> DEFINE q == ms \div 1000
           r == ms % 1000
<1>1. ms = 1000 * q + r /\ q \in Nat /\ r \in Nat /\ r < 1000
  BY SMT
<1>2. /\ TimeoutAt(0, usec, ms).tv_sec = q
      /\ TimeoutAt(0, usec, ms).tv_nsec = usec + r * 1000000
  BY <1>1, SMT DEF TimeoutAt
<1> HIDE DEF q, r
<1>3. Lasts(TimeoutAt(0, usec, ms), usec) =
        q * 1000000000 + (usec + r * 1000000) - usec * 1000
  BY <1>2, SMT DEF Lasts
<1> QED
  BY <1>1, <1>2, <1>3, SMT

(* The deadline is that of the timeout and the time of day that were given. *)
DeadlineInv ==
  /\ {"usec", "ms"} \subseteq DOMAIN input
  /\ pc = "waiting" =>
       /\ input.usec \in Usecs /\ input.ms \in Timeouts
       /\ deadline = TimeoutAt(0, input.usec, input.ms)

LEMMA DeadlineInit == Init => DeadlineInv
  BY DEF Init, DeadlineInv

LEMMA DeadlineStep == DeadlineInv /\ [Next]_vars => DeadlineInv'
<1> SUFFICES ASSUME DeadlineInv, [Next]_vars PROVE DeadlineInv'
  OBVIOUS
<1> USE DEF DeadlineInv
<1>a. ASSUME NEW e \in {"success", "failure"}, NEW y \in Replies, handleRilVoiceRegState(e, y)
      PROVE  DeadlineInv'
  <2>1. DOMAIN input' = DOMAIN input /\ pc' # "waiting"
    BY <1>a DEF handleRilVoiceRegState
  <2> QED
    BY <2>1
<1>b. ASSUME NEW e \in {"success", "failure"}, NEW y \in Replies, handleRilDataRegState(e, y)
      PROVE  DeadlineInv'
  <2>1. DOMAIN input' = DOMAIN input /\ pc' # "waiting"
    BY <1>b DEF handleRilDataRegState
  <2> QED
    BY <2>1
<1>c. ASSUME NEW e, NEW code, handleRilGetOperator(e, code)
      PROVE  DeadlineInv'
  <2>1. DOMAIN input' = DOMAIN input /\ pc' # "waiting"
    BY <1>c DEF handleRilGetOperator
  <2> QED
    BY <2>1
<1>d. ASSUME NEW v, NEW c, handleRilSetupDataCall(v, c)
      PROVE  DeadlineInv'
  <2>1. DOMAIN input' = DOMAIN input /\ pc' # "waiting"
    BY <1>d DEF handleRilSetupDataCall, convert_call
  <2> QED
    BY <2>1
<1>e. ASSUME NEW v, NEW n, handleRilGetDataCallList(v, n)
      PROVE  DeadlineInv'
  <2>1. DOMAIN input' = DOMAIN input /\ pc' # "waiting"
    BY <1>e DEF handleRilGetDataCallList
  <2> QED
    BY <2>1
<1>f. ASSUME NEW c, next_call(c)
      PROVE  DeadlineInv'
  <2>1. DOMAIN input' = DOMAIN input /\ pc' # "waiting"
    BY <1>f DEF next_call, convert_call
  <2> QED
    BY <2>1
<1>1. CASE Registration
  BY <1>1, <1>a, <1>b, <1>c DEF Registration
<1>2. CASE DataCalls
  <2>1. CASE convert_address \/ convert_rest \/ call_done \/ list_done
    BY <2>1 DEF convert_address, convert_rest, call_done, list_done
  <2> QED
    BY <1>2, <2>1, <1>d, <1>e, <1>f DEF DataCalls
<1>3. CASE Scan
  <2>1. DOMAIN input' = DOMAIN input /\ pc' # "waiting"
    BY <1>3 DEF Scan, scan_start, scan_entry, scan_done
  <2> QED
    BY <2>1
<1>4. ASSUME NEW p, setNetworkPreference(p)
      PROVE  DeadlineInv'
  <2>1. DOMAIN input' = DOMAIN input /\ pc' # "waiting"
    BY <1>4 DEF setNetworkPreference
  <2> QED
    BY <2>1
<1>5. CASE handleRilGetNetworkPref
  BY <1>5 DEF handleRilGetNetworkPref
<1>6. ASSUME NEW usec \in Usecs, NEW ms \in Timeouts,
             osal_condition_unix_timedwait(usec, ms)
      PROVE  DeadlineInv'
  <2>1. input' = [input EXCEPT !.usec = usec, !.ms = ms]
    BY <1>6 DEF osal_condition_unix_timedwait
  <2>2. input'.usec = usec /\ input'.ms = ms /\ DOMAIN input' = DOMAIN input
    BY <2>1
  <2> QED
    BY <1>6, <2>2 DEF osal_condition_unix_timedwait
<1>7. CASE heap_breaks
  BY <1>7 DEF heap_breaks
<1>8. CASE UNCHANGED vars
  BY <1>8 DEF vars
<1> QED
  BY <1>1, <1>2, <1>3, <1>4, <1>5, <1>6, <1>7, <1>8 DEF Next

(* Every timed wait has a valid deadline, never late and less than a       *)
(* second early (osal_condition_unix_timedwait, 72 and 73).                *)
THEOREM DeadlineCorrect == Spec => []DeadlineNearTimeout
<1>1. ASSUME NEW usec \in Usecs, NEW ms \in Timeouts
      PROVE  NearTimeout(TimeoutAt(0, usec, ms), usec, ms)
  <2>1. usec \in Nat /\ usec < 1000000 /\ ms \in Nat
    BY TimesAssumption, SMT
  <2>2. LET d == TimeoutAt(0, usec, ms) IN
        /\ d.tv_sec \in Nat /\ d.tv_nsec \in Nat /\ d.tv_nsec < 1000000000
        /\ Lasts(d, usec) = ms * 1000000 - 999 * usec
    BY <2>1, TimeoutIsEarly, SMT
  <2> QED
    BY <2>1, <2>2, SMT DEF NearTimeout
<1>2. DeadlineInv => DeadlineNearTimeout
  BY <1>1 DEF DeadlineInv, DeadlineNearTimeout
<1> QED
  BY <1>2, DeadlineInit, DeadlineStep, PTL DEF Spec
-----------------------------------------------------------------------------
LEMMA Sizes ==
  /\ Word = 8 => SizeOf(6) = 56 /\ SizeOf(9) = 64 /\ SizeOf(11) = 72
  /\ Word = 4 => SizeOf(6) = 36 /\ SizeOf(9) = 40 /\ SizeOf(11) = 44
  BY DEF SizeOf

(* Up to six calls, no length is a multiple of an older version's size. *)
LEMMA SixCallsAreTold ==
  ASSUME NEW v \in Versions, NEW n \in 1..6
  PROVE  VersionOf(n * SizeOf(v)) = v /\ (n * SizeOf(v)) \div SizeOf(v) = n
<1>1. n \in {1, 2, 3, 4, 5, 6} /\ v \in {6, 9, 11} /\ Word \in {4, 8}
  BY SizesAssumption DEF Versions
<1>2. CASE Word = 8
  BY <1>1, <1>2, Sizes DEF VersionOf
<1>3. CASE Word = 4
  BY <1>1, <1>3, Sizes DEF VersionOf
<1> QED
  BY <1>1, <1>2, <1>3

(* An empty list is one of version 6 without calls. *)
LEMMA NoCallsAreTold ==
  ASSUME NEW v \in Versions
  PROVE  VersionOf(0 * SizeOf(v)) = 6 /\ (0 * SizeOf(v)) \div SizeOf(6) = 0
<1>1. Word \in {4, 8} /\ v \in {6, 9, 11}
  BY SizesAssumption DEF Versions
<1>2. SizeOf(v) \in Nat /\ SizeOf(6) \in {36, 56}
  BY <1>1, Sizes
<1>3. 0 * SizeOf(v) = 0
  BY <1>2
<1> QED
  BY <1>2, <1>3 DEF VersionOf

-----------------------------------------------------------------------------
(* Where a list of data calls is: a list that fits is never misread, and   *)
(* the loop over the calls stops at its end.                               *)
ListType == list \in [sent : Nat, ver : Versions \cup {0}, read : Versions \cup {0},
                      num_calls : Nat, i : Nat, at : Nat]
ListInv ==
  /\ ListType /\ list.i <= MaxCalls
  /\ list.sent <= MaxCalls => list.num_calls = list.sent /\ pc # "misread"
  /\ pc \in {"addresses", "rest", "converted", "spilt"} =>
       list.i < list.num_calls /\ list.i < MaxCalls
  /\ pc = "calls" => list.i <= list.num_calls /\ list.i <= MaxCalls
  /\ pc = "listed" /\ list.sent <= MaxCalls => list.i = list.sent

LEMMA ListInit == Init => ListInv
  BY SizesAssumption DEF Init, ListInv, ListType, Versions

(* The version of a list, and the calls it is read as having. *)
LEMMA ListStart ==
  ASSUME NEW v \in Versions, NEW n \in Nat
  PROVE  /\ VersionOf(n * SizeOf(v)) \in Versions
         /\ (n * SizeOf(v)) \div SizeOf(VersionOf(n * SizeOf(v))) \in Nat
         /\ n <= MaxCalls =>
              /\ n > 0 => VersionOf(n * SizeOf(v)) = v
              /\ (n * SizeOf(v)) \div SizeOf(VersionOf(n * SizeOf(v))) = n
<1> DEFINE len == n * SizeOf(v)
           ver == VersionOf(len)
<1>1. ver \in Versions
  BY DEF VersionOf, Versions
<1>2. \A w \in Versions : SizeOf(w) \in Nat \ {0}
  BY Sizes, SizesAssumption DEF Versions
<1>3. len \div SizeOf(ver) \in Nat
  <2> HIDE DEF ver
  <2>1. SizeOf(v) \in Nat /\ SizeOf(ver) \in Nat \ {0}
    BY <1>1, <1>2
  <2>2. \A a, b \in Nat : a * b \in Nat
    OBVIOUS
  <2>3. \A a \in Nat, b \in Nat \ {0} : a \div b \in Nat
    OBVIOUS
  <2> QED
    BY <2>1, <2>2, <2>3
<1>4. CASE n <= MaxCalls /\ n > 0
  <2>1. n \in 1..6
    BY <1>4, SizesAssumption
  <2> QED
    BY <2>1, <1>1, <1>3, SixCallsAreTold
<1>5. CASE n = 0
  BY <1>5, <1>1, <1>3, NoCallsAreTold
<1> QED
  BY <1>1, <1>3, <1>4, <1>5

LEMMA ListStep == ListInv /\ [Next]_vars => ListInv'
<1> SUFFICES ASSUME ListInv, [Next]_vars PROVE ListInv'
  OBVIOUS
<1>m. MaxCalls \in Nat /\ MaxCalls >= 1 /\ MaxSent \in Nat
  BY SizesAssumption, ConstantsAssumption
<1>u. ASSUME UNCHANGED list,
             pc' \notin {"misread", "addresses", "rest", "converted", "spilt", "calls",
                         "listed"}
      PROVE  ListInv'
  BY <1>u DEF ListInv, ListType
<1>1. CASE Registration
  <2>1. UNCHANGED list /\ pc' \in {"abort", "data", "operator", "registered"}
    BY <1>1 DEF Registration, handleRilVoiceRegState, handleRilDataRegState,
                handleRilGetOperator
  <2> QED
    BY <2>1, <1>u
<1>2. ASSUME NEW v \in Versions, NEW c, handleRilSetupDataCall(v, c)
      PROVE  ListInv'
  <2>1. /\ pc' = "addresses"
        /\ list' = [sent |-> 1, ver |-> v, read |-> v, num_calls |-> 1, i |-> 0,
                    at |-> 8]
    BY <1>2 DEF handleRilSetupDataCall, convert_call
  <2> QED
    BY <2>1, <1>m DEF ListInv, ListType
<1>3. ASSUME NEW v \in Versions, NEW n \in 0..MaxSent, handleRilGetDataCallList(v, n)
      PROVE  ListInv'
  <2> DEFINE len == n * SizeOf(v)
             ver == VersionOf(len)
             num == len \div SizeOf(ver)
  <2>1. n \in Nat
    BY <1>m
  <2>2. /\ ver \in Versions /\ num \in Nat
        /\ n <= MaxCalls => (n > 0 => ver = v) /\ num = n
    BY <2>1, ListStart
  <2>3. /\ list' = [sent |-> n, ver |-> v, read |-> ver, num_calls |-> num, i |-> 0,
                    at |-> 9]
        /\ pc' = IF n > 0 /\ ver # v THEN "misread" ELSE "calls"
    BY <1>3 DEF handleRilGetDataCallList
  <2> HIDE DEF len, ver, num
  <2> QED
    BY <2>1, <2>2, <2>3, <1>m DEF ListInv, ListType
<1>4. ASSUME NEW c, next_call(c)
      PROVE  ListInv'
  BY <1>4, <1>m DEF ListInv, ListType, next_call, convert_call
<1>5. CASE convert_address
  BY <1>5 DEF ListInv, ListType, convert_address
<1>6. CASE convert_rest
  BY <1>6 DEF ListInv, ListType, convert_rest
<1>7. CASE call_done
  <2>1. CallSize \in Nat
    BY ConstantsAssumption DEF CallSize, CallHead, AddrSize
  <2>2. /\ list' = [list EXCEPT !.i = list.i + 1, !.at = list.at + CallSize]
        /\ pc \in {"converted", "spilt"} /\ pc' = "calls"
    BY <1>7 DEF call_done
  <2> HIDE DEF CallSize
  <2>3. list' = [sent |-> list.sent, ver |-> list.ver, read |-> list.read,
                 num_calls |-> list.num_calls, i |-> list.i + 1, at |-> list.at + CallSize]
    BY <2>2 DEF ListInv, ListType
  <2>4. list.i \in Nat /\ list.at \in Nat /\ list.num_calls \in Nat
    BY DEF ListInv, ListType
  <2>5. list.at + CallSize \in Nat /\ list.i + 1 \in Nat
    BY <2>1, <2>4
  <2>6. ListType'
    BY <2>3, <2>5 DEF ListInv, ListType
  <2> QED
    BY <1>m, <2>2, <2>3, <2>4, <2>6 DEF ListInv
<1>8. CASE list_done
  BY <1>8, <1>m DEF ListInv, ListType, list_done
<1>9. CASE Scan
  <2>1. UNCHANGED list /\ pc' \in {"scan", "scanned"}
    BY <1>9 DEF Scan, scan_start, scan_entry, scan_done
  <2> QED
    BY <2>1, <1>u
<1>10. ASSUME NEW p, setNetworkPreference(p)
       PROVE  ListInv'
  BY <1>10, <1>u DEF setNetworkPreference
<1>11. CASE handleRilGetNetworkPref
  BY <1>11, <1>u DEF handleRilGetNetworkPref
<1>12. ASSUME NEW usec, NEW ms, osal_condition_unix_timedwait(usec, ms)
       PROVE  ListInv'
  BY <1>12, <1>u DEF osal_condition_unix_timedwait
<1>13. CASE heap_breaks
  BY <1>13, <1>u DEF heap_breaks
<1>14. CASE UNCHANGED vars
  BY <1>14 DEF vars, ListInv, ListType
<1> QED
  BY <1>1, <1>2, <1>3, <1>4, <1>5, <1>6, <1>7, <1>8, <1>9, <1>10, <1>11, <1>12, <1>13,
     <1>14
  DEF Next, DataCalls

(* Every list of at most URIL_DATA_MAX_CALLS_COUNT_V01 data calls is read  *)
(* as the version it is, and data_calls_len counts all of them             *)
(* (handleRilGetDataCallListV1, whose version test divides the length), on *)
(* 32 and on 64 bits.  How much of them arrives is another matter.         *)
THEOREM ListCorrect == Spec => []ListReadAsSent
<1>1. ListInv => ListReadAsSent
  BY DEF ListInv, ListReadAsSent
<1> QED
  BY <1>1, ListInit, ListStep, PTL DEF Spec

-----------------------------------------------------------------------------
(* The jobs do not disturb each other: what each leaves alone.             *)

Fields == {"voice", "data", "code", "call", "scan", "pref", "usec", "ms"}
FieldsInv == DOMAIN input = Fields

LEMMA RegistrationFrame ==
  ASSUME FieldsInv, Registration
  PROVE  /\ FieldsInv' /\ pc' \in {"abort", "data", "operator", "registered"}
         /\ UNCHANGED <<list, call, scan, pref, deadline>>
         /\ input'.call = input.call /\ input'.scan = input.scan /\ input'.pref = input.pref
<1>1. UNCHANGED <<list, call, scan, pref, deadline>>
      /\ pc' \in {"abort", "data", "operator", "registered"}
  BY DEF Registration, handleRilVoiceRegState, handleRilDataRegState, handleRilGetOperator
<1>2. \E x : \/ input' = [input EXCEPT !.voice = x] \/ input' = [input EXCEPT !.data = x]
             \/ input' = [input EXCEPT !.code = x]
  BY DEF Registration, handleRilVoiceRegState, handleRilDataRegState, handleRilGetOperator
<1> QED
  BY <1>1, <1>2 DEF FieldsInv, Fields

LEMMA DataCallsFrame ==
  ASSUME FieldsInv, DataCalls
  PROVE  /\ FieldsInv'
         /\ pc' \in {"addresses", "rest", "converted", "spilt", "calls", "misread", "listed"}
         /\ UNCHANGED <<reg, scan, pref, deadline>>
         /\ input'.voice = input.voice /\ input'.data = input.data
         /\ input'.code = input.code /\ input'.scan = input.scan /\ input'.pref = input.pref
<1>1. UNCHANGED <<reg, scan, pref, deadline>>
      /\ pc' \in {"addresses", "rest", "converted", "spilt", "calls", "misread", "listed"}
  BY DEF DataCalls, handleRilSetupDataCall, handleRilGetDataCallList, next_call,
         convert_call, convert_address, convert_rest, call_done, list_done
<1>2. input' = input \/ \E c : input' = [input EXCEPT !.call = c]
  BY DEF DataCalls, handleRilSetupDataCall, handleRilGetDataCallList, next_call,
         convert_call, convert_address, convert_rest, call_done, list_done
<1> QED
  BY <1>1, <1>2 DEF FieldsInv, Fields

LEMMA ScanFrame ==
  ASSUME FieldsInv, Scan
  PROVE  /\ FieldsInv' /\ pc' \in {"scan", "scanned"}
         /\ UNCHANGED <<reg, list, call, pref, deadline>>
         /\ input'.voice = input.voice /\ input'.data = input.data
         /\ input'.code = input.code /\ input'.call = input.call /\ input'.pref = input.pref
<1>1. UNCHANGED <<reg, list, call, pref, deadline>> /\ pc' \in {"scan", "scanned"}
  BY DEF Scan, scan_start, scan_entry, scan_done
<1>2. input' = input \/ \E x : input' = [input EXCEPT !.scan = x]
  BY DEF Scan, scan_start, scan_entry, scan_done
<1> QED
  BY <1>1, <1>2 DEF FieldsInv, Fields

Preference ==
  \/ \E p \in DOMAIN urilNwPrefToRilNwPref : setNetworkPreference(p)
  \/ handleRilGetNetworkPref

LEMMA PreferenceFrame ==
  ASSUME FieldsInv, Preference
  PROVE  /\ FieldsInv' /\ pc' \in {"preferred", "reported"}
         /\ UNCHANGED <<reg, list, call, scan, deadline>>
         /\ input'.voice = input.voice /\ input'.data = input.data
         /\ input'.code = input.code /\ input'.call = input.call /\ input'.scan = input.scan
<1>1. UNCHANGED <<reg, list, call, scan, deadline>> /\ pc' \in {"preferred", "reported"}
  BY DEF Preference, setNetworkPreference, handleRilGetNetworkPref
<1>2. input' = input \/ \E x : input' = [input EXCEPT !.pref = x]
  BY DEF Preference, setNetworkPreference, handleRilGetNetworkPref
<1> QED
  BY <1>1, <1>2 DEF FieldsInv, Fields

LEMMA WaitFrame ==
  ASSUME FieldsInv, NEW usec, NEW ms, osal_condition_unix_timedwait(usec, ms)
  PROVE  /\ FieldsInv' /\ pc' = "waiting"
         /\ UNCHANGED <<reg, list, call, scan, pref>>
         /\ input'.voice = input.voice /\ input'.data = input.data
         /\ input'.code = input.code /\ input'.call = input.call
         /\ input'.scan = input.scan /\ input'.pref = input.pref
  BY DEF osal_condition_unix_timedwait, FieldsInv, Fields

LEMMA HeapFrame ==
  ASSUME heap_breaks
  PROVE  pc' = "crashed" /\ UNCHANGED <<reg, list, call, scan, pref, deadline, input>>
  BY DEF heap_breaks

LEMMA FieldsInit == Init => FieldsInv
  BY DEF Init, FieldsInv, Fields

LEMMA FieldsStep == FieldsInv /\ [Next]_vars => FieldsInv'
<1> SUFFICES ASSUME FieldsInv, [Next]_vars PROVE FieldsInv'
  OBVIOUS
<1>1. CASE UNCHANGED vars
  BY <1>1 DEF vars, FieldsInv
<1> QED
  BY <1>1, RegistrationFrame, DataCallsFrame, ScanFrame, PreferenceFrame, WaitFrame,
     HeapFrame DEF Next, Preference, FieldsInv

-----------------------------------------------------------------------------
(* A registration status: how far the three replies have filled it in.     *)

RegType == reg \in [voice : RegInfo, data : RegInfo, ids : SUBSET Identities,
                    named : SUBSET Identities, result : {"none", "success", "failure"}]

FilledIn ==
  /\ pc = "idle" => reg = NoReg
  /\ pc = "data" => reg.data = NoRegInfo /\ reg.named = {}
                    /\ reg.ids = rilCellToUrilCellVoice(input.voice.rat)
  /\ pc = "operator" => reg.named = {} /\
       reg.ids = rilCellToUrilCellVoice(input.voice.rat)
                 \cup rilCellToUrilCellData(input.data.rat)

RegInv == RegType /\ FilledIn /\ OperatorNamesTheCell

(* A reply that does not end the service is converted to a valid status.   *)
LEMMA RegConverted ==
  ASSUME NEW y \in Replies, ~Aborts(y)
  PROVE  rilNwRegToUrilNwReg(y) \in RegInfo
<1>0. NoRegInfo \in RegInfo
  BY DEF NoRegInfo, RegInfo
<1>1. CASE ~Readable(y)
  BY <1>0, <1>1 DEF rilNwRegToUrilNwReg
<1>2. CASE Readable(y)
  <2>1. y.rat \in KnownTechs
    BY <1>2 DEF Aborts
  <2>2. rilRatToUrilRat[y.rat] \in KnownTechs \cup {"NONE"}
    BY <2>1 DEF rilRatToUrilRat
  <2> DEFINE d == IF y.regstate \notin {3, 13} \/ y.denyreason # Null THEN "GENERAL"
                  ELSE "uninitialised"
             s == IF y.regstate \in {1, 5} THEN "FULL"
                  ELSE IF y.regstate < 10 THEN "NONE" ELSE "LIMITED"
  <2>3. d \in {"GENERAL", "uninitialised"} /\ s \in {"NONE", "LIMITED", "FULL"}
    OBVIOUS
  <2>4. rilNwRegToUrilNwReg(y) =
          [follows |-> TRUE, rat |-> rilRatToUrilRat[y.rat], roaming |-> y.regstate = 5,
           denied |-> y.regstate \in {3, 13}, deny_reason |-> d, registration_state |-> s]
    BY <1>2 DEF rilNwRegToUrilNwReg
  <2>5. (y.regstate = 5) \in BOOLEAN /\ (y.regstate \in {3, 13}) \in BOOLEAN
    OBVIOUS
  <2> HIDE DEF d, s
  <2> DEFINE roam == y.regstate = 5
             deny == y.regstate \in {3, 13}
  <2>6. rilNwRegToUrilNwReg(y) =
          [follows |-> TRUE, rat |-> rilRatToUrilRat[y.rat], roaming |-> roam,
           denied |-> deny, deny_reason |-> d, registration_state |-> s]
        /\ roam \in BOOLEAN /\ deny \in BOOLEAN
    BY <2>4, <2>5
  <2> HIDE DEF roam, deny
  <2> QED
    BY <2>2, <2>3, <2>6 DEF RegInfo
<1> QED
  BY <1>1, <1>2

LEMMA CellIds ==
  \A rat : /\ rilCellToUrilCellVoice(rat) \in {{}, {"gsm"}, {"wcdma"}, {"tdscdma"}}
           /\ rilCellToUrilCellData(rat) \in {{}, {"lte"}}
           /\ rilCellToUrilCellData(rat) # {} => rilCellToUrilCellVoice(rat) = {}
  BY DEF rilCellToUrilCellVoice, rilCellToUrilCellData

(* The operator's code goes to one of the identities the replies gave. *)
LEMMA NamedOne ==
  ASSUME NEW v \in {{}, {"gsm"}, {"wcdma"}, {"tdscdma"}}, NEW d \in {{}, {"lte"}}
  PROVE  /\ Named(v \cup d) \subseteq v \cup d
         /\ v \cup d # {} => Cardinality(Named(v \cup d)) = 1
         /\ v = {} \/ d = {} => Named(v \cup d) = v \cup d
<1>1. \A x : Cardinality({x}) = 1
  BY FS_Singleton
<1>2. /\ v = {"gsm"} => Named(v \cup d) = {"gsm"}
      /\ v = {"wcdma"} => Named(v \cup d) = {"wcdma"}
      /\ v = {"tdscdma"} /\ d = {} => Named(v \cup d) = {"tdscdma"}
      /\ v = {"tdscdma"} /\ d = {"lte"} => Named(v \cup d) = {"lte"}
      /\ v = {} /\ d = {"lte"} => Named(v \cup d) = {"lte"}
      /\ v = {} /\ d = {} => Named(v \cup d) = {}
  BY DEF Named
<1> QED
  BY <1>1, <1>2

LEMMA RegInit == Init => RegInv
<1> SUFFICES ASSUME Init PROVE RegInv
  OBVIOUS
<1>1. pc = "idle" /\ reg = NoReg
  BY DEF Init
<1>2. NoRegInfo \in RegInfo /\ NoRegInfo.deny_reason = "GENERAL"
  BY DEF NoRegInfo, RegInfo
<1>3. NoReg.voice = NoRegInfo /\ NoReg.data = NoRegInfo
  BY DEF NoReg
<1>4. RegType
  BY <1>1, <1>2 DEF RegType, NoReg, Identities
<1> QED
  BY <1>1, <1>2, <1>3, <1>4
  DEF RegInv, FilledIn, OperatorNamesTheCell

(* The other jobs leave a registration status alone. *)
LEMMA RegFrame ==
  ASSUME RegInv, UNCHANGED reg, pc' \notin {"idle", "data", "operator", "registered"},
         input'.voice = input.voice, input'.data = input.data
  PROVE  RegInv'
  BY DEF RegInv, RegType, FilledIn, OperatorNamesTheCell

(* The first reply starts the response anew. *)
LEMMA VoiceStep ==
  ASSUME FieldsInv, RegInv, NEW e \in {"success", "failure"}, NEW y \in Replies,
         handleRilVoiceRegState(e, y)
  PROVE  RegInv'
<1>0. NoRegInfo \in RegInfo /\ NoRegInfo.deny_reason = "GENERAL"
  BY DEF NoRegInfo, RegInfo
<1>1. pc = "idle" /\ reg = NoReg /\ NoReg.data = NoRegInfo /\ NoReg.voice = NoRegInfo
  BY DEF handleRilVoiceRegState, RegInv, FilledIn, NoReg
<1>2. input'.voice = y /\ input'.data = input.data
  BY DEF handleRilVoiceRegState, FieldsInv, Fields
<1>3. CASE e = "success" /\ Aborts(y)
  <2>1. pc' = "abort" /\ reg' = reg
    BY <1>3 DEF handleRilVoiceRegState
  <2>2. RegType' /\ FilledIn' /\ OperatorNamesTheCell'
    BY <2>1 DEF RegInv, RegType, FilledIn, OperatorNamesTheCell
  <2> QED
    BY <2>2 DEF RegInv
<1>4. CASE e = "success" /\ ~Aborts(y)
  <2> DEFINE info == rilNwRegToUrilNwReg(y)
             ids == rilCellToUrilCellVoice(y.rat)
  <2>1. pc' = "data"
    BY <1>4 DEF handleRilVoiceRegState
  <2>2. reg' = [voice |-> info, data |-> NoRegInfo, ids |-> ids, named |-> {},
                result |-> "success"]
    BY <1>4 DEF handleRilVoiceRegState, NoReg
  <2>3. info \in RegInfo
    BY <1>4, RegConverted
  <2>4. ids \in SUBSET Identities
    BY CellIds DEF Identities
  <2> HIDE DEF info
  <2>5. RegType'
    BY <1>0, <2>2, <2>3, <2>4 DEF RegType
  <2>6. FilledIn' /\ OperatorNamesTheCell'
    BY <1>2, <2>1, <2>2 DEF FilledIn, OperatorNamesTheCell
  <2> QED
    BY <2>5, <2>6 DEF RegInv
<1>5. CASE e = "failure"
  <2>1. pc' = "registered"
        /\ reg' = [voice |-> NoRegInfo, data |-> NoRegInfo, ids |-> {}, named |-> {},
                   result |-> "failure"]
    BY <1>5 DEF handleRilVoiceRegState, NoReg
  <2>2. RegType'
    BY <1>0, <2>1 DEF RegType
  <2>3. FilledIn' /\ OperatorNamesTheCell'
    BY <2>1 DEF FilledIn, OperatorNamesTheCell
  <2> QED
    BY <2>2, <2>3 DEF RegInv
<1> QED
  BY <1>3, <1>4, <1>5

(* The second adds the data domain to it. *)
LEMMA DataStep ==
  ASSUME FieldsInv, RegInv, NEW e \in {"success", "failure"}, NEW y \in Replies,
         handleRilDataRegState(e, y)
  PROVE  RegInv'
<1>0. NoRegInfo \in RegInfo /\ NoRegInfo.deny_reason = "GENERAL"
  BY DEF NoRegInfo, RegInfo
<1>1. /\ pc = "data" /\ reg.data = NoRegInfo /\ reg.named = {}
      /\ reg.ids = rilCellToUrilCellVoice(input.voice.rat) /\ RegType
  BY DEF handleRilDataRegState, RegInv, FilledIn
<1>2. input'.data = y /\ input'.voice = input.voice
  BY DEF handleRilDataRegState, FieldsInv, Fields
<1>3. CASE e = "success" /\ Aborts(y)
  <2>1. pc' = "abort" /\ reg' = reg
    BY <1>3 DEF handleRilDataRegState
  <2>2. RegType' /\ FilledIn' /\ OperatorNamesTheCell'
    BY <1>1, <2>1 DEF RegType, FilledIn, OperatorNamesTheCell
  <2> QED
    BY <2>2 DEF RegInv
<1>4. CASE e = "success" /\ ~Aborts(y)
  <2> DEFINE info == rilNwRegToUrilNwReg(y)
             ids == rilCellToUrilCellData(y.rat)
  <2>1. pc' = "operator"
    BY <1>4 DEF handleRilDataRegState
  <2>2. reg' = [voice |-> reg.voice, data |-> info, ids |-> reg.ids \cup ids,
                named |-> reg.named, result |-> "success"]
    BY <1>1, <1>4 DEF handleRilDataRegState, RegType
  <2>3. info \in RegInfo
    BY <1>4, RegConverted
  <2>4. ids \in SUBSET Identities
    BY CellIds DEF Identities
  <2> HIDE DEF info
  <2>5. RegType'
    BY <1>1, <2>2, <2>3, <2>4 DEF RegType
  <2>6. FilledIn' /\ OperatorNamesTheCell'
    BY <1>1, <1>2, <2>1, <2>2 DEF FilledIn, OperatorNamesTheCell
  <2> QED
    BY <2>5, <2>6 DEF RegInv
<1>5. CASE e = "failure"
  <2>1. pc' = "registered"
        /\ reg' = [voice |-> reg.voice, data |-> reg.data, ids |-> reg.ids,
                   named |-> reg.named, result |-> "failure"]
    BY <1>1, <1>5 DEF handleRilDataRegState, RegType
  <2>2. RegType'
    BY <1>1, <2>1 DEF RegType
  <2>3. FilledIn' /\ OperatorNamesTheCell'
    BY <2>1 DEF FilledIn, OperatorNamesTheCell
  <2> QED
    BY <2>2, <2>3 DEF RegInv
<1> QED
  BY <1>3, <1>4, <1>5

(* The third gives the operator's code to a cell. *)
LEMMA OperatorStep ==
  ASSUME FieldsInv, RegInv, NEW e \in {"success", "failure"}, NEW code \in BOOLEAN,
         handleRilGetOperator(e, code)
  PROVE  RegInv'
<1> DEFINE v == rilCellToUrilCellVoice(input.voice.rat)
           d == rilCellToUrilCellData(input.data.rat)
           named == IF e = "success" /\ code THEN Named(v \cup d) ELSE {}
<1>1. /\ pc = "operator" /\ pc' = "registered" /\ reg.named = {} /\ reg.ids = v \cup d
      /\ RegType
  BY DEF handleRilGetOperator, RegInv, FilledIn
<1>2. input'.data = input.data /\ input'.voice = input.voice /\ input'.code = code
  BY DEF handleRilGetOperator, FieldsInv, Fields
<1>3. reg' = [voice |-> reg.voice, data |-> reg.data, ids |-> reg.ids, named |-> named,
              result |-> e]
  BY <1>1 DEF handleRilGetOperator, RegType
<1>4. /\ v \in {{}, {"gsm"}, {"wcdma"}, {"tdscdma"}} /\ d \in {{}, {"lte"}}
      /\ input.voice.rat = input.data.rat => v = {} \/ d = {}
  BY CellIds
<1> HIDE DEF v, d
<1>5. /\ Named(v \cup d) \subseteq v \cup d
      /\ v \cup d # {} => Cardinality(Named(v \cup d)) = 1
      /\ v = {} \/ d = {} => Named(v \cup d) = v \cup d
  BY <1>4, NamedOne
<1>6. v \cup d \in SUBSET Identities
  BY <1>4 DEF Identities
<1>7. RegType'
  BY <1>1, <1>3, <1>5, <1>6 DEF RegType
<1>8. FilledIn'
  BY <1>1 DEF FilledIn
<1>9. OperatorNamesTheCell'
  BY <1>1, <1>2, <1>3, <1>4, <1>5 DEF OperatorNamesTheCell
<1> QED
  BY <1>7, <1>8, <1>9 DEF RegInv

LEMMA RegStep == FieldsInv /\ RegInv /\ [Next]_vars => RegInv'
<1> SUFFICES ASSUME FieldsInv, RegInv, [Next]_vars PROVE RegInv'
  OBVIOUS
<1>1. CASE Registration
  BY <1>1, VoiceStep, DataStep, OperatorStep DEF Registration
<1>2. CASE DataCalls
  BY <1>2, DataCallsFrame, RegFrame
<1>3. CASE Scan
  BY <1>3, ScanFrame, RegFrame
<1>4. CASE Preference
  BY <1>4, PreferenceFrame, RegFrame
<1>5. ASSUME NEW usec, NEW ms, osal_condition_unix_timedwait(usec, ms)
      PROVE  RegInv'
  BY <1>5, WaitFrame, RegFrame
<1>6. CASE heap_breaks
  BY <1>6, HeapFrame, RegFrame
<1>7. CASE UNCHANGED vars
  BY <1>7 DEF vars, RegInv, RegType, FilledIn, OperatorNamesTheCell
<1> QED
  BY <1>1, <1>2, <1>3, <1>4, <1>5, <1>6, <1>7 DEF Next, Preference

(* A registration status is always what the replies so far make of it:     *)
(* handleRilVoiceRegState, handleRilDataRegState and handleRilGetOperator  *)
(* fill in one response, and no other job touches it.                      *)
THEOREM RegistrationCorrect == Spec => []RegInv
  BY FieldsInit, FieldsStep, RegInit, RegStep, PTL DEF Spec

(* An operator's code goes to one of the cell identities of the response,  *)
(* and to the only one when both domains use the same technology           *)
(* (handleRilGetOperator).                                                 *)
THEOREM OperatorNamed == Spec => []OperatorNamesTheCell
<1>1. RegInv => OperatorNamesTheCell
  BY DEF RegInv
<1> QED
  BY <1>1, RegistrationCorrect, PTL

-----------------------------------------------------------------------------
(* Network preferences: the tables of the two directions are inverse.      *)

LEMMA PreferencesInverse ==
  \A p \in DOMAIN urilNwPrefToRilNwPref :
    /\ urilNwPrefToRilNwPref[p] \in DOMAIN RilNwPrefToUrilNwPref
    /\ RilNwPrefToUrilNwPref[urilNwPrefToRilNwPref[p]] = p
  BY DEF urilNwPrefToRilNwPref, RilNwPrefToUrilNwPref

PrefInv ==
  /\ pref \in [client : DOMAIN urilNwPrefToRilNwPref \cup {"none"},
               vendor : DOMAIN RilNwPrefToUrilNwPref \cup {"none"}]
  /\ pc = "preferred" => /\ input.pref \in DOMAIN urilNwPrefToRilNwPref
                         /\ pref.vendor = urilNwPrefToRilNwPref[input.pref]
  /\ pc = "reported" => pref.client = input.pref

LEMMA PrefInit == Init => PrefInv
  BY DEF Init, PrefInv

LEMMA PrefFrame ==
  ASSUME PrefInv, UNCHANGED pref, pc' \notin {"preferred", "reported"}
  PROVE  PrefInv'
  BY DEF PrefInv

LEMMA PrefStep == FieldsInv /\ PrefInv /\ [Next]_vars => PrefInv'
<1> SUFFICES ASSUME FieldsInv, PrefInv, [Next]_vars PROVE PrefInv'
  OBVIOUS
<1>1. CASE Registration
  BY <1>1, RegistrationFrame, PrefFrame
<1>2. CASE DataCalls
  BY <1>2, DataCallsFrame, PrefFrame
<1>3. CASE Scan
  BY <1>3, ScanFrame, PrefFrame
<1>4. ASSUME NEW p \in DOMAIN urilNwPrefToRilNwPref, setNetworkPreference(p)
      PROVE  PrefInv'
  <2> DEFINE q == urilNwPrefToRilNwPref[p]
  <2>1. q \in DOMAIN RilNwPrefToUrilNwPref
    BY PreferencesInverse
  <2>2. pc' = "preferred" /\ input'.pref = p /\ pref' = [client |-> pref.client, vendor |-> q]
    BY <1>4 DEF setNetworkPreference, FieldsInv, Fields, PrefInv
  <2> HIDE DEF q
  <2>3. /\ pref'.client = pref.client /\ pref'.vendor = q
        /\ pref' \in [client : DOMAIN urilNwPrefToRilNwPref \cup {"none"},
                      vendor : DOMAIN RilNwPrefToUrilNwPref \cup {"none"}]
    BY <2>1, <2>2 DEF PrefInv
  <2> QED
    BY <2>2, <2>3 DEF PrefInv, q
<1>5. CASE handleRilGetNetworkPref
  <2>1. /\ input.pref \in DOMAIN urilNwPrefToRilNwPref
        /\ RilNwPrefToUrilNwPref[pref.vendor] = input.pref
    BY <1>5, PreferencesInverse DEF handleRilGetNetworkPref, PrefInv
  <2>2. /\ pc' = "reported" /\ input'.pref = input.pref
        /\ pref' = [client |-> input.pref, vendor |-> pref.vendor]
    BY <1>5, <2>1 DEF handleRilGetNetworkPref, PrefInv
  <2> QED
    BY <2>1, <2>2 DEF PrefInv
<1>6. ASSUME NEW usec, NEW ms, osal_condition_unix_timedwait(usec, ms)
      PROVE  PrefInv'
  BY <1>6, WaitFrame, PrefFrame
<1>7. CASE heap_breaks
  BY <1>7, HeapFrame, PrefFrame
<1>8. CASE UNCHANGED vars
  BY <1>8 DEF vars, PrefInv
<1> QED
  BY <1>1, <1>2, <1>3, <1>4, <1>5, <1>6, <1>7, <1>8 DEF Next

-----------------------------------------------------------------------------
(* The addresses of a data call.                                           *)

LEMMA Limits ==
  /\ MaxAddrs \in Nat /\ MaxEntries \in Nat /\ MaxSent \in Nat /\ MaxScanned \in Nat
  /\ gtwy = MaxAddrs /\ dnsp = MaxAddrs + 1 /\ dnss = MaxAddrs + 2 /\ pcscf = MaxAddrs + 3
  BY ConstantsAssumption DEF gtwy, dnsp, dnss, pcscf

LEMMA StringsAre ==
  ASSUME NEW s \in Strings
  PROVE  /\ s # Null => s \in Seq(Addrs \cup {"/"})
         /\ s \in Seq(Addrs \cup {"/"}) => s # Null
  BY ConstantsAssumption DEF Strings

(* What rilIpAddrToUrilDataAddr takes from a string, in terms of the       *)
(* addresses at its start.                                                 *)
LEMMA ReadsFirst ==
  ASSUME NEW s \in Strings
  PROVE  /\ Reads(s) => /\ Head(s) \in Addrs /\ FirstOf(s) = Head(s) /\ Tail(s) \in Strings
                        /\ Tail(s) # Null
         /\ ~Reads(s) => FirstOf(s) = "0" /\ SecondOf(s) = "0" /\ Readables(s) = {}
<1>1. CASE s = Null
  BY <1>1 DEF Reads, FirstOf, SecondOf, Readables
<1>2. CASE s # Null
  <2>1. s \in Seq(Addrs \cup {"/"}) /\ Len(s) \in Nat
    BY <1>2, StringsAre
  <2>2. Readables(s) = {k \in 1..Len(s) : \A j \in 1..k : s[j] # "/"}
    BY <1>2 DEF Readables
  <2>3. CASE Reads(s)
    <3>1. s # <<>> /\ Head(s) = s[1] /\ Len(s) >= 1 /\ s[1] # "/"
      BY <2>1, <2>3 DEF Reads
    <3>2. 1 \in Readables(s)
      BY <2>1, <2>2, <3>1
    <3>3. Tail(s) \in Seq(Addrs \cup {"/"})
      BY <2>1, <3>1
    <3>4. Tail(s) \in Strings /\ Tail(s) # Null
      BY <3>3, StringsAre DEF Strings
    <3>5. s[1] \in Addrs \cup {"/"}
      BY <2>1, <3>1
    <3> QED
      BY <2>3, <3>1, <3>2, <3>4, <3>5 DEF FirstOf
  <2>4. CASE ~Reads(s)
    <3>1. s = <<>> \/ (Len(s) >= 1 /\ s[1] = "/")
      BY <1>2, <2>1, <2>4 DEF Reads
    <3>2. ASSUME NEW k \in Readables(s) PROVE FALSE
      <4>1. k \in 1..Len(s) /\ \A j \in 1..k : s[j] # "/"
        BY <2>2
      <4>2. 1 \in 1..k /\ Len(s) >= 1
        BY <2>1, <4>1
      <4> QED
        BY <3>1, <4>1, <4>2
    <3>3. Readables(s) = {}
      BY <3>2
    <3> QED
      BY <2>4, <3>3 DEF FirstOf, SecondOf
  <2> QED
    BY <2>3, <2>4
<1> QED
  BY <1>1, <1>2

LEMMA TailOfSeq ==
  ASSUME NEW S, NEW s \in Seq(S), s # <<>>
  PROVE  /\ Len(s) \in Nat /\ Len(s) >= 1 /\ Tail(s) \in Seq(S)
         /\ Len(s) = 1 => Tail(s) = <<>>
         /\ Len(s) # 1 => Tail(s) # <<>> /\ Head(Tail(s)) = s[2] /\ 2 \in 1..Len(s)
<1>1. Len(s) \in Nat /\ Len(s) # 0
  BY EmptySeq
<1>2. /\ Tail(s) \in Seq(S) /\ Len(Tail(s)) = Len(s) - 1
      /\ \A i \in 1 .. Len(Tail(s)) : Tail(s)[i] = s[i + 1]
  BY HeadTailProperties
<1> DEFINE t == Tail(s)
<1> HIDE DEF t
<1>3. t \in Seq(S) /\ Len(t) = Len(s) - 1 /\ \A i \in 1..Len(t) : t[i] = s[i + 1]
  BY <1>2 DEF t
<1>4. Len(s) = 1 => t = <<>>
  BY <1>3, EmptySeq
<1>5. Len(s) # 1 => Len(t) # 0 /\ 1 \in 1..Len(t) /\ 2 \in 1..Len(s)
  BY <1>1, <1>3
<1>6. Len(s) # 1 => t # <<>> /\ t[1] = s[2]
  BY <1>3, <1>5, EmptySeq
<1>7. Head(t) = t[1]
  BY <1>3
<1> QED
  BY <1>1, <1>3, <1>4, <1>5, <1>6, <1>7 DEF t

LEMMA ReadsSecond ==
  ASSUME NEW s \in Strings, Reads(s)
  PROVE  SecondOf(s) = IF Reads(Tail(s)) THEN Head(Tail(s)) ELSE "0"
<1>1. s \in Seq(Addrs \cup {"/"}) /\ s # <<>> /\ s[1] # "/"
  BY StringsAre DEF Reads
<1>2. Readables(s) = {k \in 1..Len(s) : \A j \in 1..k : s[j] # "/"}
  BY DEF Readables, Reads
<1>3. Tail(s) # Null
  BY ReadsFirst
<1>4. /\ Len(s) = 1 => Tail(s) = <<>>
      /\ Len(s) # 1 => Tail(s) # <<>> /\ Head(Tail(s)) = s[2] /\ 2 \in 1..Len(s)
  BY <1>1, TailOfSeq
<1>5. CASE Len(s) = 1
  <2>1. 2 \notin Readables(s)
    BY <1>2, <1>5
  <2> QED
    BY <1>4, <1>5, <2>1 DEF Reads, SecondOf
<1>6. CASE Len(s) # 1
  <2>1. \A j : j \in 1..2 <=> j = 1 \/ j = 2
    OBVIOUS
  <2>2. 2 \in Readables(s) <=> s[2] # "/"
    BY <1>1, <1>2, <1>4, <1>6, <2>1
  <2> QED
    BY <1>3, <1>4, <1>6, <2>2 DEF Reads, SecondOf
<1> QED
  BY <1>5, <1>6

Slots == [0..pcscf -> Addrs \cup {"0"}]

(* The slots t are the given ones with what s has at k. *)
Puts(t, slot, k, s) ==
  /\ t \in Slots
  /\ \A j \in 0..pcscf : j # k => t[j] = slot[j]
  /\ t[k] = IF s = Null THEN "0" ELSE IF Reads(s) THEN Head(s) ELSE slot[k]

LEMMA StoredSlot ==
  ASSUME NEW slot \in Slots, NEW k \in 0..pcscf, NEW s \in Strings
  PROVE  Puts(Stored(slot, k, s), slot, k, s)
<1> USE DEF Puts
<1>1. CASE s = Null
  BY <1>1 DEF Stored, Slots
<1>2. CASE s # Null /\ Reads(s)
  <2>1. Head(s) \in Addrs
    BY <1>2, ReadsFirst
  <2>2. Stored(slot, k, s) = [slot EXCEPT ![k] = Head(s)]
    BY <1>2 DEF Stored
  <2> QED
    BY <1>2, <2>1, <2>2 DEF Slots
<1>3. CASE s # Null /\ ~Reads(s)
  BY <1>3 DEF Stored
<1> QED
  BY <1>1, <1>2, <1>3

(* What is left of a string after k rounds of the loop: whether another    *)
(* address is read, and which.                                             *)
LEMMA RestOfString ==
  ASSUME NEW a \in Seq(Addrs \cup {"/"}), NEW k \in Nat, k <= Len(a)
  PROVE  LET rest == SubSeq(a, k + 1, Len(a)) IN
         /\ rest \in Seq(Addrs \cup {"/"}) /\ rest # Null
         /\ Reads(rest) => /\ k + 1 \in 1..Len(a) /\ Head(rest) = a[k + 1] /\ a[k + 1] # "/"
                           /\ Tail(rest) = SubSeq(a, k + 2, Len(a))
         /\ ~Reads(rest) => k = Len(a) \/ (k + 1 \in 1..Len(a) /\ a[k + 1] = "/")
<1> DEFINE rest == SubSeq(a, k + 1, Len(a))
           S == Addrs \cup {"/"}
<1>0. a \in Seq(S) /\ Len(a) \in Nat
  OBVIOUS
<1> HIDE DEF S
<1>1. CASE k = Len(a)
  <2>1. rest = <<>>
    BY <1>0, <1>1, SubSeqEmpty
  <2>2. <<>> \in Seq(Addrs \cup {"/"})
    OBVIOUS
  <2>3. <<>> # Null
    BY <2>2, ConstantsAssumption
  <2> QED
    BY <1>1, <2>1, <2>2, <2>3 DEF Reads
<1>2. CASE k < Len(a)
  <2>1. k + 1 \in 1..Len(a) /\ Len(a) \in (k + 1)..Len(a) /\ k + 1 + 1 = k + 2
    BY <1>0, <1>2
  <2>2. rest \in Seq(S) /\ Len(rest) = Len(a) - (k + 1) + 1
    BY <1>0, <2>1, SubSeqProperties
  <2>3. rest # <<>>
    <3>1. Len(rest) # 0
      BY <1>0, <1>2, <2>2
    <3> QED
      BY <2>2, <3>1, EmptySeq
  <2>4. Head(rest) = a[k + 1] /\ Tail(rest) = SubSeq(a, k + 1 + 1, Len(a))
    BY <1>0, <2>1, HeadTailOfSubSeq
  <2>5. rest \in Seq(Addrs \cup {"/"})
    BY <2>2 DEF S
  <2>6. rest # Null
    BY <2>5, ConstantsAssumption
  <2> HIDE DEF rest
  <2>7. Tail(rest) = SubSeq(a, k + 2, Len(a))
    BY <2>1, <2>4
  <2>8. Reads(rest) <=> a[k + 1] # "/"
    BY <2>3, <2>4, <2>6 DEF Reads
  <2> QED
    BY <2>1, <2>4, <2>5, <2>6, <2>7, <2>8 DEF rest
<1> QED
  BY <1>0, <1>1, <1>2

(* How many addresses a string begins with. *)
LEMMA ReadablesAre ==
  ASSUME NEW a \in Seq(Addrs \cup {"/"}), NEW k \in Nat, k <= Len(a),
         \A j \in 1..k : a[j] # "/"
  PROVE  /\ Cardinality(Readables(a)) \in Nat /\ Cardinality(Readables(a)) >= k
         /\ k = Len(a) \/ (k + 1 \in 1..Len(a) /\ a[k + 1] = "/") =>
              Cardinality(Readables(a)) = k
<1>0. Len(a) \in Nat /\ a # Null
  BY ConstantsAssumption
<1>1. Readables(a) = {i \in 1..Len(a) : \A j \in 1..i : a[j] # "/"}
  BY <1>0 DEF Readables
<1> DEFINE n == Len(a)
<1> HIDE DEF n
<1>n. n \in Nat /\ k <= n /\ Readables(a) \subseteq 1..n
  BY <1>0, <1>1 DEF n
<1>2. 1..k \subseteq Readables(a)
  <2> SUFFICES ASSUME NEW i \in 1..k PROVE i \in Readables(a)
    OBVIOUS
  <2>1. i \in 1..n /\ \A j \in 1..i : j \in 1..k
    BY <1>n
  <2> QED
    BY <1>1, <2>1 DEF n
<1>3. IsFiniteSet(1..n) /\ IsFiniteSet(1..k) /\ Cardinality(1..k) = k
  BY <1>n, FS_Interval
<1>4. IsFiniteSet(Readables(a)) /\ Cardinality(1..k) <= Cardinality(Readables(a))
  BY <1>n, <1>2, <1>3, FS_Subset
<1>5. Cardinality(Readables(a)) \in Nat
  BY <1>4, FS_CardinalityType
<1>6. ASSUME k = n \/ (k + 1 \in 1..n /\ a[k + 1] = "/")
      PROVE  Readables(a) \subseteq 1..k
  <2> SUFFICES ASSUME NEW i \in Readables(a) PROVE i \in 1..k
    OBVIOUS
  <2>1. i \in 1..n /\ \A j \in 1..i : a[j] # "/"
    BY <1>1 DEF n
  <2>2. CASE k = n
    BY <2>1, <2>2
  <2>3. CASE k + 1 \in 1..n /\ a[k + 1] = "/"
    <3>1. k + 1 \notin 1..i
      BY <2>1, <2>3
    <3>2. i \in Nat /\ i >= 1 /\ ~(k + 1 <= i)
      BY <2>1, <3>1, <1>n
    <3> QED
      BY <3>2
  <2> QED
    BY <1>6, <2>2, <2>3
<1>7. ASSUME Readables(a) \subseteq 1..k PROVE Cardinality(Readables(a)) = k
  <2>1. Readables(a) = 1..k
    BY <1>2, <1>7
  <2> QED
    BY <1>3, <2>1
<1>8. Cardinality(Readables(a)) >= k
  <2> DEFINE m == Cardinality(Readables(a))
  <2> HIDE DEF m
  <2>1. m \in Nat /\ k <= m
    BY <1>3, <1>4, <1>5 DEF m
  <2>2. m >= k
    BY <2>1
  <2> QED
    BY <2>2 DEF m
<1> QED
  BY <1>5, <1>6, <1>7, <1>8 DEF n

CallType ==
  call \in [pdp_type : DOMAIN urilPdpTypeToRilPdpType, pdp_addrs_len : 0..MaxAddrs,
            rest : Strings, slot : Slots]

(* In the loop over the addresses: the ones before the rest are stored. *)
ReadSoFar(a) ==
  LET k == call.pdp_addrs_len IN
  /\ a = Null => call.rest = Null /\ k = 0
  /\ a # Null => /\ k <= Len(a) /\ call.rest = SubSeq(a, k + 1, Len(a))
                 /\ \A j \in 1..k : a[j] # "/"
  /\ \A j \in 0..pcscf : call.slot[j] = IF j < k THEN a[j + 1] ELSE "0"

(* After it: the address past the limit is where the gateway will be. *)
Gathered(a) ==
  LET n == Cardinality(Readables(a)) IN
  /\ n \in Nat
  /\ call.pdp_addrs_len = IF n > MaxAddrs THEN MaxAddrs ELSE n
  /\ \A j \in 0 .. MaxAddrs - 1 : call.slot[j] = IF j < n THEN a[j + 1] ELSE "0"
  /\ call.slot[gtwy] = IF n > MaxAddrs THEN a[MaxAddrs + 1] ELSE "0"
  /\ call.slot[dnsp] = "0" /\ call.slot[dnss] = "0" /\ call.slot[pcscf] = "0"

CallInv ==
  /\ CallType /\ input.call \in CallData
  /\ pc \in {"addresses", "rest", "converted"} =>
       call.pdp_type = PdpTypeOf(input.call.type)
  /\ pc = "addresses" => ReadSoFar(input.call.addresses)
  /\ pc = "rest" => Gathered(input.call.addresses)
  /\ AddressesAsReported

LEMMA CallInit == Init => CallInv
<1> SUFFICES ASSUME Init PROVE CallInv
  OBVIOUS
<1>1. pc = "idle" /\ call = NoCall /\ input.call = NoData
  BY DEF Init
<1>2. NoData \in CallData
  BY DEF NoData, CallData, Strings
<1>3. CallType
  BY <1>1, Limits DEF CallType, NoCall, Slots, Strings, urilPdpTypeToRilPdpType
<1> QED
  BY <1>1, <1>2, <1>3 DEF CallInv, AddressesAsReported

(* The other jobs leave a data call alone. *)
LEMMA CallFrame ==
  ASSUME CallInv, UNCHANGED call, pc' \notin {"addresses", "rest", "converted"},
         input'.call = input.call
  PROVE  CallInv'
  BY DEF CallInv, CallType, AddressesAsReported

LEMMA ConvertCallStep ==
  ASSUME FieldsInv, CallInv, NEW c \in VendorCalls, convert_call(c)
  PROVE  CallInv'
<1>1. c \in CallData
  BY ConstantsAssumption
<1>2. pc' = "addresses" /\ input'.call = c
  BY DEF convert_call, FieldsInv, Fields
<1>3. call' = [pdp_type |-> PdpTypeOf(c.type), pdp_addrs_len |-> 0, rest |-> c.addresses,
               slot |-> [k \in 0..pcscf |-> "0"]]
  BY DEF convert_call, NoCall
<1>4. c.addresses \in Strings /\ PdpTypeOf(c.type) \in DOMAIN urilPdpTypeToRilPdpType
  BY <1>1 DEF CallData, PdpTypeOf, urilPdpTypeToRilPdpType
<1>5. [k \in 0..pcscf |-> "0"] \in Slots /\ 0 \in 0..MaxAddrs
  BY Limits DEF Slots
<1>6. CallType'
  BY <1>3, <1>4, <1>5 DEF CallType
<1>7. c.addresses # Null => 0 <= Len(c.addresses)
                            /\ c.addresses = SubSeq(c.addresses, 0 + 1, Len(c.addresses))
  <2> SUFFICES ASSUME c.addresses # Null
               PROVE  0 <= Len(c.addresses)
                      /\ c.addresses = SubSeq(c.addresses, 1, Len(c.addresses))
    OBVIOUS
  <2>1. c.addresses \in Seq(Addrs \cup {"/"})
    BY <1>4, StringsAre
  <2> DEFINE a == c.addresses
             S == Addrs \cup {"/"}
  <2>2. a \in Seq(S)
    BY <2>1
  <2> HIDE DEF a, S
  <2>3. 0 <= Len(a) /\ SubSeq(a, 1, Len(a)) = a
    BY <2>2, SubSeqFull
  <2> QED
    BY <2>3 DEF a
<1>8. ReadSoFar(c.addresses)'
  <2>1. call'.pdp_addrs_len = 0 /\ call'.rest = c.addresses
        /\ \A j \in 0..pcscf : call'.slot[j] = "0"
    BY <1>3
  <2>2. \A j \in 1..0 : FALSE
    OBVIOUS
  <2>3. \A j \in 0..pcscf : ~(j < 0)
    BY Limits
  <2> QED
    BY <1>7, <2>1, <2>2, <2>3 DEF ReadSoFar
<1>9. call'.pdp_type = PdpTypeOf(c.type)
  BY <1>3
<1> QED
  BY <1>1, <1>2, <1>6, <1>8, <1>9 DEF CallInv, AddressesAsReported

(* A round of the loop stores an address, or finds that it is the end. *)
LEMMA ConvertAddressStep ==
  ASSUME CallInv, convert_address
  PROVE  CallInv'
<1> DEFINE a == input.call.addresses
           k == call.pdp_addrs_len
           s == call.rest
<1>1. /\ pc = "addresses" /\ s # Null /\ input' = input
      /\ call.pdp_type = PdpTypeOf(input.call.type)
  BY DEF convert_address, CallInv
<1>2. /\ k \in 0..MaxAddrs /\ s \in Strings /\ call.slot \in Slots
      /\ call.pdp_type \in DOMAIN urilPdpTypeToRilPdpType
  BY DEF CallInv, CallType
<1>3. ReadSoFar(a) /\ a \in Strings
  BY <1>1 DEF CallInv, CallData
<1>4. /\ a \in Seq(Addrs \cup {"/"}) /\ k <= Len(a) /\ s = SubSeq(a, k + 1, Len(a))
      /\ \A j \in 1..k : a[j] # "/"
  BY <1>1, <1>3, StringsAre DEF ReadSoFar
<1>5. k \in Nat /\ k <= MaxAddrs /\ k \in 0..pcscf /\ Len(a) \in Nat
  BY <1>2, <1>4, Limits
<1>6. /\ Reads(s) => /\ k + 1 \in 1..Len(a) /\ Head(s) = a[k + 1] /\ a[k + 1] # "/"
                     /\ Tail(s) = SubSeq(a, k + 2, Len(a))
      /\ ~Reads(s) => k = Len(a) \/ (k + 1 \in 1..Len(a) /\ a[k + 1] = "/")
  BY <1>4, <1>5, RestOfString
<1> DEFINE t == Stored(call.slot, k, s)
<1>7. /\ t \in Slots
      /\ \A j \in 0..pcscf : j # k => t[j] = call.slot[j]
      /\ t[k] = IF Reads(s) THEN Head(s) ELSE call.slot[k]
  BY <1>1, <1>2, <1>5, StoredSlot DEF Puts
<1>8. \A j \in 0..pcscf : call.slot[j] = IF j < k THEN a[j + 1] ELSE "0"
  BY <1>3 DEF ReadSoFar
<1>9. CASE Reads(s) /\ k < MaxAddrs
  <2>1. /\ pc' = pc
        /\ call' = [pdp_type |-> call.pdp_type, pdp_addrs_len |-> k + 1, rest |-> Tail(s),
                    slot |-> t]
    BY <1>9 DEF convert_address, Counted, CallInv, CallType
  <2>2. Tail(s) \in Strings
    BY <1>2, <1>9, ReadsFirst
  <2>3. k + 1 \in 0..MaxAddrs
    BY <1>5, <1>9, Limits
  <2> HIDE DEF t
  <2>4. CallType'
    BY <1>2, <1>7, <2>1, <2>2, <2>3 DEF CallType
  <2>5. ASSUME NEW j \in 0..pcscf PROVE t[j] = IF j < k + 1 THEN a[j + 1] ELSE "0"
    <3>1. CASE j = k
      <4>1. t[j] = a[j + 1]
        BY <1>6, <1>7, <1>9, <3>1
      <4>2. j < k + 1
        BY <1>5, <3>1
      <4> QED
        BY <4>1, <4>2
    <3>2. CASE j # k
      <4>1. t[j] = IF j < k THEN a[j + 1] ELSE "0"
        BY <1>7, <1>8, <3>2
      <4>2. j < k <=> j < k + 1
        BY <1>5, <3>2, Limits
      <4> QED
        BY <4>1, <4>2
    <3> QED
      BY <3>1, <3>2
  <2>6. \A j \in 1 .. k + 1 : a[j] # "/"
    <3>1. \A j \in 1 .. k + 1 : j \in 1..k \/ j = k + 1
      BY <1>5
    <3> QED
      BY <1>4, <1>6, <1>9, <3>1
  <2>7. a # Null /\ k + 1 <= Len(a) /\ Tail(s) = SubSeq(a, (k + 1) + 1, Len(a))
    <3>1. k + 1 <= Len(a) /\ (k + 1) + 1 = k + 2
      BY <1>5, <1>6, <1>9
    <3> QED
      BY <1>4, <1>6, <1>9, <3>1, StringsAre, <1>3
  <2>8. call'.pdp_addrs_len = k + 1 /\ call'.rest = Tail(s) /\ call'.slot = t
        /\ call'.pdp_type = call.pdp_type
    BY <2>1
  <2> HIDE DEF a, k, s
  <2>9. ReadSoFar(a)'
    BY <1>1, <2>5, <2>6, <2>7, <2>8 DEF ReadSoFar, a
  <2> QED
    BY <1>1, <2>1, <2>4, <2>8, <2>9 DEF CallInv, AddressesAsReported, a
<1>10. CASE ~(Reads(s) /\ k < MaxAddrs)
  <2> DEFINE n == Cardinality(Readables(a))
  <2>1. /\ pc' = "rest"
        /\ call' = [pdp_type |-> call.pdp_type, pdp_addrs_len |-> k, rest |-> Null,
                    slot |-> t]
    BY <1>10 DEF convert_address, Counted, CallInv, CallType
  <2> HIDE DEF t
  <2>2. CallType'
    BY <1>2, <1>7, <2>1 DEF CallType, Strings
  <2>8. call'.pdp_addrs_len = k /\ call'.slot = t /\ call'.pdp_type = call.pdp_type
    BY <2>1
  <2>p. /\ gtwy \in 0..pcscf /\ dnsp \in 0..pcscf /\ dnss \in 0..pcscf /\ pcscf \in 0..pcscf
        /\ \A j \in 0 .. MaxAddrs - 1 : j \in 0..pcscf /\ j # MaxAddrs /\ j \in Nat
        /\ dnsp # k /\ dnss # k /\ pcscf # k
        /\ ~(dnsp < k) /\ ~(dnss < k) /\ ~(pcscf < k) /\ ~(gtwy < k) /\ gtwy = MaxAddrs
        /\ ~(k < k)
    BY <1>5, Limits
  <2>3. CASE ~Reads(s)
    <3>1. n = k
      BY <1>4, <1>5, <1>6, <2>3, ReadablesAre
    <3>2. \A j \in 0..pcscf : t[j] = IF j < k THEN a[j + 1] ELSE "0"
      BY <1>5, <1>7, <1>8, <2>3
    <3>3. ~(k > MaxAddrs) /\ k \in Nat
      BY <1>5, Limits
    <3> HIDE DEF a, k, s, n
    <3>4. Gathered(a)'
      BY <1>1, <2>8, <2>p, <3>1, <3>2, <3>3 DEF Gathered, a, n
    <3> QED
      BY <1>1, <2>1, <2>2, <2>8, <3>4 DEF CallInv, AddressesAsReported, a
  <2>4. CASE Reads(s) /\ k = MaxAddrs
    <3>1. \A j \in 1 .. k + 1 : a[j] # "/"
      <4>1. \A j \in 1 .. k + 1 : j \in 1..k \/ j = k + 1
        BY <1>5
      <4> QED
        BY <1>4, <1>6, <2>4, <4>1
    <3>2. k + 1 \in Nat /\ k + 1 <= Len(a)
      BY <1>5, <1>6, <2>4
    <3>3. n \in Nat /\ n >= k + 1
      BY <1>4, <3>1, <3>2, ReadablesAre
    <3>4. n > MaxAddrs /\ \A j \in 0 .. MaxAddrs - 1 : j < n
      BY <1>5, <2>4, <3>3
    <3>5. \A j \in 0 .. MaxAddrs - 1 : t[j] = a[j + 1]
      <4>1. \A j \in 0 .. MaxAddrs - 1 : j \in 0..pcscf /\ j # k /\ j < k
        BY <1>5, <2>4, Limits
      <4> QED
        BY <1>7, <1>8, <4>1
    <3>6. t[gtwy] = a[MaxAddrs + 1]
      BY <1>6, <1>7, <2>4, <2>p
    <3>7. t[dnsp] = "0" /\ t[dnss] = "0" /\ t[pcscf] = "0"
      BY <1>7, <1>8, <2>p
    <3> HIDE DEF a, k, s, n
    <3>8. Gathered(a)'
      BY <1>1, <2>4, <2>8, <3>3, <3>4, <3>5, <3>6, <3>7 DEF Gathered, a, n
    <3> QED
      BY <1>1, <2>1, <2>2, <2>8, <3>8 DEF CallInv, AddressesAsReported, a
  <2>5. k < MaxAddrs \/ k = MaxAddrs
    BY <1>5, Limits
  <2> QED
    BY <1>10, <2>3, <2>4, <2>5
<1> QED
  BY <1>9, <1>10

(* Gateway, name servers and P-CSCF go where they belong. *)
LEMMA RestStored ==
  ASSUME NEW slot \in Slots, NEW c \in CallData,
         slot[dnsp] = "0", slot[dnss] = "0", slot[pcscf] = "0"
  PROVE  /\ Rest(slot, c) \in Slots
         /\ \A j \in 0 .. MaxAddrs - 1 : Rest(slot, c)[j] = slot[j]
         /\ Rest(slot, c)[gtwy] = IF c.gateways = Null \/ Reads(c.gateways)
                                  THEN FirstOf(c.gateways) ELSE slot[gtwy]
         /\ Rest(slot, c)[dnsp] = FirstOf(c.dnses)
         /\ Rest(slot, c)[dnss] = SecondOf(c.dnses)
         /\ Rest(slot, c)[pcscf] = FirstOf(c.pcscf)
<1> DEFINE g == Stored(slot, gtwy, c.gateways)
           d == Stored(g, dnsp, c.dnses)
           e == IF Reads(c.dnses) THEN Stored(d, dnss, Tail(c.dnses)) ELSE d
           f == Stored(e, pcscf, c.pcscf)
<1>0. c.gateways \in Strings /\ c.dnses \in Strings /\ c.pcscf \in Strings
  BY DEF CallData
<1>p. /\ gtwy \in 0..pcscf /\ dnsp \in 0..pcscf /\ dnss \in 0..pcscf /\ pcscf \in 0..pcscf
      /\ gtwy # dnsp /\ gtwy # dnss /\ gtwy # pcscf /\ dnsp # dnss /\ dnsp # pcscf
      /\ dnss # pcscf
      /\ \A j \in 0 .. MaxAddrs - 1 :
           j \in 0..pcscf /\ j # gtwy /\ j # dnsp /\ j # dnss /\ j # pcscf
  BY Limits
<1>q. gtwy \in 0..pcscf /\ dnsp \in 0..pcscf /\ dnss \in 0..pcscf /\ pcscf \in 0..pcscf
  BY <1>p
<1>n. \A s \in Strings : /\ s = Null => FirstOf(s) = "0"
                         /\ Reads(s) => s # Null /\ FirstOf(s) = Head(s)
                         /\ ~Reads(s) => FirstOf(s) = "0"
  BY ReadsFirst DEF Reads
<1>1. /\ g \in Slots /\ \A j \in 0..pcscf : j # gtwy => g[j] = slot[j]
      /\ g[gtwy] = IF c.gateways = Null \/ Reads(c.gateways)
                   THEN FirstOf(c.gateways) ELSE slot[gtwy]
  <2>1. /\ g \in Slots /\ \A j \in 0..pcscf : j # gtwy => g[j] = slot[j]
        /\ g[gtwy] = IF c.gateways = Null THEN "0"
                     ELSE IF Reads(c.gateways) THEN Head(c.gateways) ELSE slot[gtwy]
    <3>1. Puts(g, slot, gtwy, c.gateways)
      BY <1>0, <1>q, StoredSlot
    <3> QED
      BY <3>1 DEF Puts
  <2> QED
    BY <1>0, <1>n, <2>1
<1> HIDE DEF g
<1>2. /\ d \in Slots /\ \A j \in 0..pcscf : j # dnsp => d[j] = g[j]
      /\ d[dnsp] = IF c.dnses = Null THEN "0"
                   ELSE IF Reads(c.dnses) THEN Head(c.dnses) ELSE g[dnsp]
  <2>1. Puts(d, g, dnsp, c.dnses)
    BY <1>0, <1>1, <1>q, StoredSlot
  <2> QED
    BY <2>1 DEF Puts
<1> HIDE DEF d
<1>3. d[dnsp] = FirstOf(c.dnses)
  BY <1>0, <1>1, <1>2, <1>p, <1>n
<1>4. /\ e \in Slots /\ \A j \in 0..pcscf : j # dnss => e[j] = d[j]
      /\ e[dnss] = SecondOf(c.dnses)
  <2>0. d[dnss] = "0"
    BY <1>1, <1>2, <1>p
  <2>1. CASE Reads(c.dnses)
    <3> DEFINE t == Tail(c.dnses)
    <3>1. t \in Strings /\ t # Null
      BY <1>0, <2>1, ReadsFirst
    <3>2. SecondOf(c.dnses) = IF Reads(t) THEN Head(t) ELSE "0"
      BY <1>0, <2>1, ReadsSecond
    <3>3. e = Stored(d, dnss, t)
      BY <2>1
    <3> HIDE DEF e, t
    <3>4. /\ e \in Slots /\ \A j \in 0..pcscf : j # dnss => e[j] = d[j]
          /\ e[dnss] = IF Reads(t) THEN Head(t) ELSE d[dnss]
      <4>1. Puts(e, d, dnss, t)
        BY <1>2, <1>q, <3>1, <3>3, StoredSlot
      <4> QED
        BY <3>1, <4>1 DEF Puts
    <3> QED
      BY <2>0, <3>2, <3>4
  <2>2. CASE ~Reads(c.dnses)
    <3>1. e = d
      BY <2>2
    <3>2. SecondOf(c.dnses) = "0"
      BY <1>0, <2>2, ReadsFirst
    <3> QED
      BY <1>2, <2>0, <3>1, <3>2
  <2> QED
    BY <2>1, <2>2
<1> HIDE DEF e
<1>5. /\ f \in Slots /\ \A j \in 0..pcscf : j # pcscf => f[j] = e[j]
      /\ f[pcscf] = IF c.pcscf = Null THEN "0"
                    ELSE IF Reads(c.pcscf) THEN Head(c.pcscf) ELSE e[pcscf]
  <2>1. Puts(f, e, pcscf, c.pcscf)
    BY <1>0, <1>4, <1>q, StoredSlot
  <2> QED
    BY <2>1 DEF Puts
<1> HIDE DEF f
<1>6. f[pcscf] = FirstOf(c.pcscf)
  <2>1. e[pcscf] = "0"
    BY <1>1, <1>2, <1>4, <1>p
  <2> QED
    BY <1>0, <1>5, <1>n, <2>1
<1>7. /\ f[gtwy] = g[gtwy] /\ f[dnsp] = d[dnsp] /\ f[dnss] = e[dnss]
      /\ \A j \in 0 .. MaxAddrs - 1 : f[j] = slot[j]
  BY <1>1, <1>2, <1>4, <1>5, <1>p
<1>8. Rest(slot, c) = f
  BY DEF Rest, f, e, d, g
<1> QED
  BY <1>1, <1>3, <1>4, <1>5, <1>6, <1>7, <1>8

LEMMA ConvertRestStep ==
  ASSUME CallInv, convert_rest
  PROVE  CallInv'
<1> DEFINE c == input.call
           a == input.call.addresses
           n == Cardinality(Readables(a))
           t == Rest(call.slot, c)
<1>1. pc' = "converted" /\ input' = input /\ CallType /\ c \in CallData /\ a \in Strings
  BY DEF convert_rest, CallInv, CallData
<1>2. Gathered(a)
  <2>1. CASE pc = "rest"
    BY <2>1 DEF CallInv
  <2>2. CASE pc = "addresses" /\ call.rest = Null
    <3>1. ReadSoFar(a)
      BY <2>2 DEF CallInv
    <3>2. a = Null
      <4> SUFFICES ASSUME a # Null PROVE FALSE
        OBVIOUS
      <4>1. a \in Seq(Addrs \cup {"/"}) /\ call.pdp_addrs_len \in Nat
        BY <1>1, StringsAre, Limits DEF CallType
      <4>2. call.pdp_addrs_len <= Len(a)
            /\ call.rest = SubSeq(a, call.pdp_addrs_len + 1, Len(a))
        BY <3>1 DEF ReadSoFar
      <4> QED
        BY <2>2, <4>1, <4>2, RestOfString
    <3>3. Readables(a) = {} /\ n = 0
      BY <3>2, FS_EmptySet DEF Readables
    <3>4. call.pdp_addrs_len = 0 /\ \A j \in 0..pcscf : ~(j < 0) /\ call.slot[j] = "0"
      BY <3>1, <3>2, Limits DEF ReadSoFar
    <3>5. /\ gtwy \in 0..pcscf /\ dnsp \in 0..pcscf /\ dnss \in 0..pcscf
          /\ pcscf \in 0..pcscf /\ 0 \in Nat /\ ~(0 > MaxAddrs)
          /\ \A j \in 0 .. MaxAddrs - 1 : j \in 0..pcscf
      BY Limits
    <3> QED
      BY <3>3, <3>4, <3>5 DEF Gathered
  <2> QED
    BY <2>1, <2>2 DEF convert_rest
<1>3. call.pdp_type = PdpTypeOf(c.type)
  BY DEF convert_rest, CallInv
<1>4. call' = [pdp_type |-> call.pdp_type, pdp_addrs_len |-> call.pdp_addrs_len,
               rest |-> call.rest, slot |-> t]
  BY <1>1 DEF convert_rest, CallType
<1>5. call.slot \in Slots /\ call.slot[dnsp] = "0" /\ call.slot[dnss] = "0"
      /\ call.slot[pcscf] = "0"
  BY <1>1, <1>2 DEF CallType, Gathered
<1>6. /\ t \in Slots
      /\ \A j \in 0 .. MaxAddrs - 1 : t[j] = call.slot[j]
      /\ t[gtwy] = IF c.gateways = Null \/ Reads(c.gateways)
                   THEN FirstOf(c.gateways) ELSE call.slot[gtwy]
      /\ t[dnsp] = FirstOf(c.dnses) /\ t[dnss] = SecondOf(c.dnses)
      /\ t[pcscf] = FirstOf(c.pcscf)
  BY <1>1, <1>5, RestStored
<1> HIDE DEF t
<1>7. CallType'
  BY <1>1, <1>4, <1>6 DEF CallType
<1>8. /\ call'.slot = t /\ call'.pdp_addrs_len = call.pdp_addrs_len
      /\ call'.pdp_type = call.pdp_type
  BY <1>4
<1>9. \/ t[gtwy] = FirstOf(c.gateways)
      \/ /\ n > MaxAddrs /\ c.gateways # Null /\ Readables(c.gateways) = {}
         /\ t[gtwy] = a[MaxAddrs + 1]
  <2>1. CASE c.gateways = Null \/ Reads(c.gateways)
    BY <1>6, <2>1
  <2>2. CASE c.gateways # Null /\ ~Reads(c.gateways)
    <3>1. Readables(c.gateways) = {} /\ FirstOf(c.gateways) = "0"
      BY <1>1, <2>2, ReadsFirst DEF CallData
    <3>2. t[gtwy] = IF n > MaxAddrs THEN a[MaxAddrs + 1] ELSE "0"
      BY <1>2, <1>6, <2>2 DEF Gathered
    <3> QED
      BY <2>2, <3>1, <3>2
  <2> QED
    BY <2>1, <2>2
<1>10. /\ call.pdp_addrs_len = IF n > MaxAddrs THEN MaxAddrs ELSE n
       /\ \A j \in 0 .. MaxAddrs - 1 : t[j] = IF j < n THEN a[j + 1] ELSE "0"
  BY <1>2, <1>6 DEF Gathered
<1>11. AddressesAsReported'
  BY <1>1, <1>6, <1>8, <1>9, <1>10 DEF AddressesAsReported
<1> QED
  BY <1>1, <1>3, <1>7, <1>8, <1>11 DEF CallInv

LEMMA CallStep == FieldsInv /\ CallInv /\ [Next]_vars => CallInv'
<1> SUFFICES ASSUME FieldsInv, CallInv, [Next]_vars PROVE CallInv'
  OBVIOUS
<1>1. CASE Registration
  BY <1>1, RegistrationFrame, CallFrame
<1>2. ASSUME NEW v \in Versions, NEW c \in VendorCalls, handleRilSetupDataCall(v, c)
      PROVE  CallInv'
  BY <1>2, ConvertCallStep DEF handleRilSetupDataCall
<1>3. ASSUME NEW v \in Versions, NEW n \in 0..MaxSent, handleRilGetDataCallList(v, n)
      PROVE  CallInv'
  <2>1. UNCHANGED <<call, input>> /\ pc' \in {"misread", "calls"}
    BY <1>3 DEF handleRilGetDataCallList
  <2> QED
    BY <2>1, CallFrame
<1>4. ASSUME NEW c \in VendorCalls, next_call(c)
      PROVE  CallInv'
  <2>1. CASE Fits(list.at, CallHead)
    BY <1>4, <2>1, ConvertCallStep DEF next_call
  <2>2. CASE ~Fits(list.at, CallHead)
    <3>1. pc' = "spilt" /\ UNCHANGED <<call, input>>
      BY <1>4, <2>2 DEF next_call
    <3> QED
      BY <3>1, CallFrame
  <2> QED
    BY <2>1, <2>2
<1>5. CASE convert_address
  BY <1>5, ConvertAddressStep
<1>6. CASE convert_rest
  BY <1>6, ConvertRestStep
<1>7. CASE call_done
  BY <1>7, CallFrame DEF call_done
<1>8. CASE list_done
  BY <1>8, CallFrame DEF list_done
<1>9. CASE Scan
  BY <1>9, ScanFrame, CallFrame
<1>10. CASE Preference
  BY <1>10, PreferenceFrame, CallFrame
<1>11. ASSUME NEW usec, NEW ms, osal_condition_unix_timedwait(usec, ms)
       PROVE  CallInv'
  BY <1>11, WaitFrame, CallFrame
<1>12. CASE heap_breaks
  BY <1>12, HeapFrame, CallFrame
<1>13. CASE UNCHANGED vars
  BY <1>13 DEF vars, CallInv, CallType, ReadSoFar, Gathered, AddressesAsReported, TextFits
<1> QED
  BY <1>1, <1>2, <1>3, <1>4, <1>5, <1>6, <1>7, <1>8, <1>9, <1>10, <1>11, <1>12, <1>13
  DEF Next, DataCalls, Preference

(* The conversion of a data call whose head lies in the payload has        *)
(* written the addresses read so far in order, each to its own slot and    *)
(* the one past the limit where the gateway goes, whether or not the slot  *)
(* still lies in the payload (rilDataCallResponseToIRilDataCallInfo).      *)
THEOREM CallsConverted == Spec => []CallInv
  BY FieldsInit, FieldsStep, CallInit, CallStep, PTL DEF Spec

(* Whatever arrives of a converted data call is what the vendor reported,  *)
(* but for an empty gateway after too many addresses: for any strings, any *)
(* limit and any size of the payload.                                      *)
THEOREM AddressesCorrect == Spec => []AddressesAsReported
<1>1. CallInv => AddressesAsReported
  BY DEF CallInv
<1> QED
  BY <1>1, CallsConverted, PTL

(* A network preference is read back as it was set (setNetworkPreference,  *)
(* handleRilGetNetworkPref), and a converted call has the PDP type that    *)
(* its string names (rilPdpTypeToUrilPdpType).                             *)
THEOREM ReadBack == Spec => []ReadBackAsSet
<1>1. \A p \in DOMAIN urilPdpTypeToRilPdpType : PdpTypeOf(urilPdpTypeToRilPdpType[p]) = p
  <2>1. DOMAIN urilPdpTypeToRilPdpType = {"NONE", "IP", "IPV6", "IPV4V6", "PPP"}
    BY DEF urilPdpTypeToRilPdpType
  <2>2. /\ urilPdpTypeToRilPdpType["NONE"] = "" /\ urilPdpTypeToRilPdpType["IP"] = "IP"
        /\ urilPdpTypeToRilPdpType["IPV6"] = "IPV6" /\ urilPdpTypeToRilPdpType["PPP"] = "PPP"
        /\ urilPdpTypeToRilPdpType["IPV4V6"] = "IPV4V6"
    BY DEF urilPdpTypeToRilPdpType
  <2>3. PdpTypeOf("") = "NONE"
    BY DEF PdpTypeOf
  <2>4. \A p \in {"IP", "IPV6", "IPV4V6", "PPP"} : PdpTypeOf(p) = p
    BY DEF PdpTypeOf
  <2> QED
    BY <2>1, <2>2, <2>3, <2>4
<1>2. PrefInv /\ CallInv => ReadBackAsSet
  BY <1>1 DEF PrefInv, CallInv, ReadBackAsSet
<1> QED
  BY <1>2, CallsConverted, FieldsInit, FieldsStep, PrefInit, PrefStep, PTL DEF Spec

-----------------------------------------------------------------------------
(* A network scan.                                                         *)

Statuses == {StatusOf[s] : s \in DOMAIN StatusOf}
EntryType == [operator_name : 0..MaxScanned, network_status : Statuses]
Table == [0 .. MaxEntries - 1 -> EntryType]
ScanType ==
  scan \in [num_entries : 0..MaxScanned, i : 0..MaxScanned, num_filled : 0..MaxEntries,
            entries : Table]

(* The networks of a scan that have their names and a known status. *)
Good(found) == {i \in DOMAIN found : Counts(found[i])}

(* Entry k is the network that k others of these come before. *)
IsEntry(entry, k, found) ==
  /\ entry.operator_name \in Good(found)
  /\ Cardinality({j \in Good(found) : j < entry.operator_name}) = k
  /\ entry.network_status = StatusOf[found[entry.operator_name].status]

Scanned(found) ==
  /\ scan.i = Len(found) /\ scan.i <= scan.num_entries
  /\ scan.num_filled = Cardinality(Good(found))
  /\ \A k \in 0 .. scan.num_filled - 1 : IsEntry(scan.entries[k], k, found)

ScanInv ==
  /\ ScanType /\ input.scan \in Seq(Networks)
  /\ pc = "idle" => input.scan = <<>>
  /\ pc \in {"scan", "scanned"} => Scanned(input.scan)
  /\ pc = "scanned" => (scan.i < scan.num_entries => scan.num_filled = MaxEntries)

LEMMA NoEntries == [k \in 0 .. MaxEntries - 1 |-> NoEntry] \in Table
<1>1. 0 \in 0..MaxScanned
  BY Limits
<1>2. "NONE" \in Statuses
  BY DEF Statuses, StatusOf
<1>3. NoEntry \in EntryType
  BY <1>1, <1>2 DEF NoEntry, EntryType
<1> QED
  BY <1>3 DEF Table

LEMMA ScanInit == Init => ScanInv
<1> SUFFICES ASSUME Init PROVE ScanInv
  OBVIOUS
<1>1. 0 \in 0..MaxScanned /\ 0 \in 0..MaxEntries
  BY Limits
<1>2. ScanType
  BY <1>1, NoEntries DEF Init, ScanType
<1>3. pc = "idle" /\ input.scan = <<>>
  BY DEF Init
<1> QED
  BY <1>2, <1>3 DEF ScanInv

LEMMA ScanFrameKept ==
  ASSUME ScanInv, UNCHANGED scan, pc' \notin {"idle", "scan", "scanned"},
         input'.scan = input.scan
  PROVE  ScanInv'
  BY DEF ScanInv, ScanType

(* What a network adds to the table: an entry that counts, or nothing that *)
(* is reported.                                                            *)
LEMMA EntryWritten ==
  ASSUME ScanType, scan.i < MaxScanned, scan.num_filled < MaxEntries, NEW n \in Networks
  PROVE  \E t \in Table :
           /\ [Entry(scan, n) EXCEPT !.i = @ + 1] =
                [num_entries |-> scan.num_entries, i |-> scan.i + 1,
                 num_filled |-> IF Counts(n) THEN scan.num_filled + 1 ELSE scan.num_filled,
                 entries |-> t]
           /\ \A j \in 0 .. scan.num_filled - 1 : t[j] = scan.entries[j]
           /\ Counts(n) => t[scan.num_filled] = [operator_name |-> scan.i + 1,
                                                 network_status |-> StatusOf[n.status]]
<1> DEFINE k == scan.num_filled
           x == scan.i + 1
           old == scan.entries
           named == [old EXCEPT ![k] = [operator_name |-> x,
                                        network_status |-> old[k].network_status]]
           full == [old EXCEPT ![k] = [operator_name |-> x,
                                       network_status |-> StatusOf[n.status]]]
<1>1. /\ scan = [num_entries |-> scan.num_entries, i |-> scan.i, num_filled |-> k,
                 entries |-> old]
      /\ old \in Table /\ k \in Nat /\ scan.i \in Nat
  BY Limits DEF ScanType
<1>2. /\ k \in 0 .. MaxEntries - 1 /\ x \in 0..MaxScanned
      /\ \A j \in 0 .. k - 1 : j # k /\ j \in 0 .. MaxEntries - 1
  BY <1>1, Limits
<1>3. old[k].network_status \in Statuses /\ old[k] \in EntryType
  BY <1>1, <1>2 DEF Table, EntryType
<1>4. Counts(n) => StatusOf[n.status] \in Statuses
  BY DEF Counts, Statuses
<1>5. named \in Table /\ (Counts(n) => full \in Table)
  BY <1>1, <1>2, <1>3, <1>4 DEF Table, EntryType
<1>6. old[k] = [operator_name |-> old[k].operator_name,
                network_status |-> old[k].network_status]
  BY <1>3 DEF EntryType
<1>d. DOMAIN old = 0 .. MaxEntries - 1
  BY <1>1 DEF Table
<1>7. CASE Counts(n)
  <2>1. n.names
    BY <1>7 DEF Counts
  <2>2. [scan EXCEPT !.entries[k].operator_name = x] =
          [num_entries |-> scan.num_entries, i |-> scan.i, num_filled |-> k,
           entries |-> named]
    BY <1>1, <1>2, <1>6, <1>d
  <2>3. [named EXCEPT ![k].network_status = StatusOf[n.status]] = full
    BY <1>2, <1>d
  <2>4. [[num_entries |-> scan.num_entries, i |-> scan.i, num_filled |-> k,
          entries |-> named] EXCEPT !.entries[k].network_status = StatusOf[n.status],
                                    !.num_filled = k + 1] =
          [num_entries |-> scan.num_entries, i |-> scan.i, num_filled |-> k + 1,
           entries |-> full]
    <3> DEFINE s == [num_entries |-> scan.num_entries, i |-> scan.i, num_filled |-> k,
                     entries |-> named]
               u == [num_entries |-> scan.num_entries, i |-> scan.i, num_filled |-> k,
                     entries |-> full]
    <3>1. [s EXCEPT !.entries[k].network_status = StatusOf[n.status]] = u
      BY <1>2, <1>d
    <3>2. [s EXCEPT !.entries[k].network_status = StatusOf[n.status], !.num_filled = k + 1]
            = [[s EXCEPT !.entries[k].network_status = StatusOf[n.status]]
                 EXCEPT !.num_filled = k + 1]
      BY Zenon
    <3>3. [u EXCEPT !.num_filled = k + 1] =
            [num_entries |-> scan.num_entries, i |-> scan.i, num_filled |-> k + 1,
             entries |-> full]
      OBVIOUS
    <3> QED
      BY <3>1, <3>2, <3>3, Zenon
  <2>5. Entry(scan, n) = [num_entries |-> scan.num_entries, i |-> scan.i,
                          num_filled |-> k + 1, entries |-> full]
    BY <1>7, <2>1, <2>2, <2>4 DEF Entry
  <2>6. [Entry(scan, n) EXCEPT !.i = @ + 1] =
          [num_entries |-> scan.num_entries, i |-> x, num_filled |-> k + 1, entries |-> full]
    BY <2>5
  <2>7. /\ \A j \in 0 .. k - 1 : full[j] = old[j]
        /\ full[k] = [operator_name |-> x, network_status |-> StatusOf[n.status]]
    BY <1>2, <1>d
  <2> QED
    BY <1>5, <1>7, <2>6, <2>7
<1>8. CASE ~Counts(n) /\ n.names
  <2>1. Entry(scan, n) = [scan EXCEPT !.entries[k].operator_name = x]
    BY <1>8 DEF Entry
  <2>2. [scan EXCEPT !.entries[k].operator_name = x] =
          [num_entries |-> scan.num_entries, i |-> scan.i, num_filled |-> k,
           entries |-> named]
    BY <1>1, <1>2, <1>6, <1>d
  <2>3. \A j \in 0 .. k - 1 : named[j] = old[j]
    BY <1>2, <1>d
  <2> HIDE DEF named
  <2>4. [Entry(scan, n) EXCEPT !.i = @ + 1] =
          [num_entries |-> scan.num_entries, i |-> x, num_filled |-> k, entries |-> named]
    <3>1. Entry(scan, n) = [num_entries |-> scan.num_entries, i |-> scan.i,
                            num_filled |-> k, entries |-> named]
      BY <2>1, <2>2
    <3> QED
      BY <3>1
  <2> QED
    BY <1>5, <1>8, <2>3, <2>4
<1>9. CASE ~Counts(n) /\ ~n.names
  <2>1. Entry(scan, n) = scan
    BY <1>9 DEF Entry
  <2>2. [Entry(scan, n) EXCEPT !.i = @ + 1] =
          [num_entries |-> scan.num_entries, i |-> x, num_filled |-> k, entries |-> old]
    BY <1>1, <2>1
  <2> QED
    BY <1>1, <1>9, <2>2
<1> QED
  BY <1>7, <1>8, <1>9

(* One more network: which ones are good, and that the entries there are   *)
(* remain the entries of the longer list.                                  *)
LEMMA GoodAppend ==
  ASSUME NEW found \in Seq(Networks), NEW n \in Networks
  PROVE  LET more == Append(found, n) IN
         /\ IsFiniteSet(Good(found)) /\ Cardinality(Good(found)) \in Nat
         /\ Good(found) \subseteq 1..Len(found)
         /\ Good(more) = IF Counts(n) THEN Good(found) \cup {Len(found) + 1} ELSE Good(found)
         /\ Counts(n) => Cardinality(Good(more)) = Cardinality(Good(found)) + 1
         /\ \A i \in Good(found) : more[i] = found[i]
         /\ more[Len(found) + 1] = n
<1> DEFINE more == Append(found, n)
           m == Len(found)
<1>1. /\ m \in Nat /\ DOMAIN found = 1..m /\ Len(more) = m + 1 /\ DOMAIN more = 1 .. m + 1
      /\ \A i \in 1..m : more[i] = found[i]
      /\ more[m + 1] = n
  BY AppendProperties
<1> HIDE DEF m, more
<1>2. Good(found) = {i \in 1..m : Counts(found[i])}
      /\ Good(more) = {i \in 1 .. m + 1 : Counts(more[i])}
  BY <1>1 DEF Good
<1>3. \A i : i \in 1 .. m + 1 <=> i \in 1..m \/ i = m + 1
  BY <1>1
<1>4. Good(more) = IF Counts(n) THEN Good(found) \cup {m + 1} ELSE Good(found)
  BY <1>1, <1>2, <1>3
<1>5. Good(found) \subseteq 1..m /\ m + 1 \notin 1..m
  BY <1>1, <1>2
<1>6. IsFiniteSet(Good(found))
  <2>1. IsFiniteSet(1..m)
    BY <1>1, FS_Interval
  <2> QED
    BY <1>5, <2>1, FS_Subset
<1>7. Cardinality(Good(found)) \in Nat
  BY <1>6, FS_CardinalityType
<1>8. Counts(n) => Cardinality(Good(more)) = Cardinality(Good(found)) + 1
  BY <1>4, <1>5, <1>6, FS_AddElement
<1> QED
  BY <1>1, <1>4, <1>5, <1>6, <1>7, <1>8 DEF m, more

LEMMA EntryKept ==
  ASSUME NEW found \in Seq(Networks), NEW n \in Networks, NEW entry, NEW k,
         IsEntry(entry, k, found)
  PROVE  IsEntry(entry, k, Append(found, n))
<1> DEFINE more == Append(found, n)
           m == Len(found)
           i == entry.operator_name
<1>1. /\ Good(found) \subseteq 1..m /\ m \in Nat
      /\ Good(more) = IF Counts(n) THEN Good(found) \cup {m + 1} ELSE Good(found)
      /\ \A j \in Good(found) : more[j] = found[j]
  BY GoodAppend
<1> HIDE DEF more, m, i
<1>2. /\ i \in Good(found) /\ Cardinality({j \in Good(found) : j < i}) = k
      /\ entry.network_status = StatusOf[found[i].status]
  BY DEF IsEntry, i
<1>3. i \in 1..m /\ ~(m + 1 < i)
  BY <1>1, <1>2
<1>4. {j \in Good(more) : j < i} = {j \in Good(found) : j < i}
  BY <1>1, <1>3
<1>5. i \in Good(more) /\ more[i] = found[i]
  BY <1>1, <1>2
<1> QED
  BY <1>2, <1>4, <1>5 DEF IsEntry, i, more

LEMMA ScanStartStep ==
  ASSUME FieldsInv, ScanInv, NEW n \in 0..MaxScanned, scan_start(n)
  PROVE  ScanInv'
<1>1. /\ pc' = "scan" /\ input' = input /\ input.scan = <<>>
      /\ scan' = [num_entries |-> n, i |-> 0, num_filled |-> 0,
                  entries |-> [k \in 0 .. MaxEntries - 1 |-> NoEntry]]
  BY DEF scan_start, ScanInv
<1>2. 0 \in 0..MaxScanned /\ 0 \in 0..MaxEntries /\ 0 <= n
  BY Limits
<1>3. ScanType'
  BY <1>1, <1>2, NoEntries DEF ScanType
<1>4. Good(<<>>) = {} /\ Cardinality({}) = 0 /\ Len(<<>>) = 0
  BY FS_EmptySet DEF Good
<1>5. \A k \in 0 .. 0 - 1 : FALSE
  OBVIOUS
<1>6. scan'.i = 0 /\ scan'.num_entries = n /\ scan'.num_filled = 0
  BY <1>1
<1>7. Scanned(<<>>)'
  BY <1>2, <1>4, <1>5, <1>6 DEF Scanned
<1>8. input'.scan \in Seq(Networks)
  BY <1>1
<1> QED
  BY <1>1, <1>3, <1>7, <1>8 DEF ScanInv

(* A network that counts becomes the next entry. *)
LEMMA ScanEntryStep ==
  ASSUME FieldsInv, ScanInv, NEW n \in Networks, scan_entry(n)
  PROVE  ScanInv'
<1> DEFINE found == input.scan
           more == Append(found, n)
           f == scan.num_filled
<1>0. scan.i < scan.num_entries /\ f < MaxEntries
  BY DEF scan_entry
<1>1. /\ pc = "scan" /\ pc' = "scan"
      /\ scan' = [Entry(scan, n) EXCEPT !.i = @ + 1]
      /\ input'.scan = more
  BY DEF scan_entry, FieldsInv, Fields
<1>2. ScanType /\ found \in Seq(Networks) /\ Scanned(found)
  BY <1>1 DEF ScanInv
<1>3. /\ scan.num_entries \in 0..MaxScanned /\ scan.i \in 0..MaxScanned
      /\ f \in 0..MaxEntries
  BY <1>2 DEF ScanType
<1>4. /\ scan.i < MaxScanned /\ scan.i + 1 \in 0..MaxScanned /\ scan.i \in Nat /\ f \in Nat
      /\ f + 1 \in 0..MaxEntries /\ scan.i + 1 <= scan.num_entries
  BY <1>0, <1>3, Limits
<1>5. PICK t \in Table :
        /\ scan' = [num_entries |-> scan.num_entries, i |-> scan.i + 1,
                    num_filled |-> IF Counts(n) THEN f + 1 ELSE f, entries |-> t]
        /\ \A j \in 0 .. f - 1 : t[j] = scan.entries[j]
        /\ Counts(n) => t[f] = [operator_name |-> scan.i + 1,
                                network_status |-> StatusOf[n.status]]
  BY <1>0, <1>1, <1>2, <1>4, EntryWritten
<1>6. ScanType'
  BY <1>3, <1>4, <1>5 DEF ScanType
<1>7. scan.i = Len(found) /\ f = Cardinality(Good(found))
      /\ \A k \in 0 .. f - 1 : IsEntry(scan.entries[k], k, found)
  BY <1>2 DEF Scanned
<1>8. /\ IsFiniteSet(Good(found)) /\ Cardinality(Good(found)) \in Nat
      /\ Good(found) \subseteq 1..Len(found)
      /\ Good(more) = IF Counts(n) THEN Good(found) \cup {Len(found) + 1} ELSE Good(found)
      /\ Counts(n) => Cardinality(Good(more)) = Cardinality(Good(found)) + 1
      /\ more[Len(found) + 1] = n
  BY <1>2, GoodAppend
<1>9. more \in Seq(Networks) /\ Len(more) = Len(found) + 1
  BY <1>2, AppendProperties
<1>10. \A k \in 0 .. f - 1 : IsEntry(t[k], k, more)
  BY <1>2, <1>5, <1>7, EntryKept
<1>11. Counts(n) => IsEntry(t[f], f, more)
  <2> SUFFICES ASSUME Counts(n) PROVE IsEntry(t[f], f, more)
    OBVIOUS
  <2> DEFINE i == Len(found) + 1
  <2>1. t[f].operator_name = i /\ t[f].network_status = StatusOf[n.status]
    BY <1>5, <1>7
  <2>2. i \in Good(more) /\ more[i] = n
    BY <1>8
  <2>3. {j \in Good(more) : j < i} = Good(found)
    <3>1. Len(found) \in Nat
      BY <1>4, <1>7
    <3>2. \A j \in Good(found) : j < i
      BY <1>8, <3>1
    <3>3. ~(i < i)
      BY <3>1
    <3> HIDE DEF i
    <3> QED
      BY <1>8, <3>2, <3>3 DEF i
  <2> HIDE DEF i, more
  <2> QED
    BY <1>7, <2>1, <2>2, <2>3 DEF IsEntry
<1>12. /\ scan'.i = Len(more) /\ scan'.i <= scan'.num_entries
       /\ scan'.entries = t
       /\ scan'.num_filled = IF Counts(n) THEN f + 1 ELSE f
  BY <1>4, <1>5, <1>7, <1>9
<1> HIDE DEF more, found, f
<1>13. Scanned(input.scan)'
  <2>1. CASE Counts(n)
    <3>1. scan'.num_filled = f + 1 /\ Cardinality(Good(more)) = f + 1
      BY <1>7, <1>8, <1>12, <2>1
    <3>2. \A k \in 0 .. (f + 1) - 1 : k \in 0 .. f - 1 \/ k = f
      BY <1>4
    <3>3. \A k \in 0 .. (f + 1) - 1 : IsEntry(t[k], k, more)
      BY <1>10, <1>11, <2>1, <3>2
    <3> QED
      BY <1>1, <1>12, <3>1, <3>3 DEF Scanned
  <2>2. CASE ~Counts(n)
    <3>1. scan'.num_filled = f /\ Cardinality(Good(more)) = f
      BY <1>7, <1>8, <1>12, <2>2
    <3> QED
      BY <1>1, <1>10, <1>12, <3>1 DEF Scanned
  <2> QED
    BY <2>1, <2>2
<1> QED
  BY <1>1, <1>6, <1>9, <1>13 DEF ScanInv

LEMMA ScanDoneStep ==
  ASSUME ScanInv, scan_done
  PROVE  ScanInv'
<1>1. /\ pc = "scan" /\ pc' = "scanned" /\ scan' = scan /\ input' = input
      /\ ~(scan.i < scan.num_entries /\ scan.num_filled < MaxEntries)
  BY DEF scan_done
<1>2. scan.num_filled \in 0..MaxEntries
  BY DEF ScanInv, ScanType
<1>3. scan.num_filled < MaxEntries \/ scan.num_filled = MaxEntries
  BY <1>2, Limits
<1> QED
  BY <1>1, <1>3 DEF ScanInv, ScanType, Scanned

LEMMA ScanStep == FieldsInv /\ ScanInv /\ [Next]_vars => ScanInv'
<1> SUFFICES ASSUME FieldsInv, ScanInv, [Next]_vars PROVE ScanInv'
  OBVIOUS
<1>1. CASE Registration
  BY <1>1, RegistrationFrame, ScanFrameKept
<1>2. CASE DataCalls
  BY <1>2, DataCallsFrame, ScanFrameKept
<1>3. CASE Scan
  BY <1>3, ScanStartStep, ScanEntryStep, ScanDoneStep DEF Scan
<1>4. CASE Preference
  BY <1>4, PreferenceFrame, ScanFrameKept
<1>5. ASSUME NEW usec, NEW ms, osal_condition_unix_timedwait(usec, ms)
      PROVE  ScanInv'
  BY <1>5, WaitFrame, ScanFrameKept
<1>6. CASE heap_breaks
  BY <1>6, HeapFrame, ScanFrameKept
<1>7. CASE UNCHANGED vars
  BY <1>7 DEF vars, ScanInv, ScanType, Scanned
<1> QED
  BY <1>1, <1>2, <1>3, <1>4, <1>5, <1>6, <1>7 DEF Next, Preference

(* A scan counts the networks that have their names and a known status,    *)
(* all of them unless the table is full, and what arrives of an entry is   *)
(* of the network at its place (handleRilAvailableNetworksResponseV1): for *)
(* any number of networks and of entries and any size of the payload.      *)
THEOREM ScanCorrect == Spec => []ScanReportsCompleteNetworks
<1>1. ScanInv => ScanReportsCompleteNetworks
  <2> SUFFICES ASSUME ScanInv, pc = "scanned"
               PROVE  LET good == {i \in DOMAIN input.scan : Counts(input.scan[i])} IN
                      /\ scan.num_filled = Cardinality(good)
                      /\ \A k \in 0 .. scan.num_filled - 1 :
                           LET i == scan.entries[k].operator_name IN
                           /\ NameFits(k) =>
                                i \in good /\ Cardinality({j \in good : j < i}) = k
                           /\ StatusFits(k) => scan.entries[k].network_status
                                                = StatusOf[input.scan[i].status]
                      /\ Len(input.scan) < scan.num_entries => scan.num_filled = MaxEntries
    BY DEF ScanReportsCompleteNetworks
  <2>1. /\ Scanned(input.scan)
        /\ scan.i < scan.num_entries => scan.num_filled = MaxEntries
    BY DEF ScanInv
  <2> QED
    BY <2>1 DEF Scanned, IsEntry, Good
<1> QED
  BY <1>1, FieldsInit, FieldsStep, ScanInit, ScanStep, PTL DEF Spec

-----------------------------------------------------------------------------
(* Types: where a job can be, and the timespec. *)
Places ==
  {"idle", "abort", "data", "operator", "registered", "calls", "misread", "addresses",
   "rest", "converted", "spilt", "listed", "crashed", "scan", "scanned", "preferred",
   "reported", "waiting"}
PlaceInv ==
  pc \in Places /\ deadline \in [tv_sec : Nat, tv_nsec : Nat] /\ beyond \in BOOLEAN

LEMMA PlaceInit == Init => PlaceInv
<1> SUFFICES ASSUME Init PROVE PlaceInv
  OBVIOUS
<1>1. pc \in Places /\ deadline \in [tv_sec : Nat, tv_nsec : Nat]
  BY DEF Init, Places
<1>2. beyond \in BOOLEAN
  BY Zenon DEF Init
<1> QED
  BY <1>1, <1>2 DEF PlaceInv

(* Whether something was written behind the payload. *)
LEMMA BeyondStep == PlaceInv /\ [Next]_vars => beyond' \in BOOLEAN
<1> SUFFICES ASSUME PlaceInv, [Next]_vars PROVE beyond' \in BOOLEAN
  OBVIOUS
<1>1. CASE UNCHANGED beyond
  BY <1>1 DEF PlaceInv
<1>2. CASE Registration
  BY <1>1, <1>2 DEF Registration, handleRilVoiceRegState, handleRilDataRegState,
                    handleRilGetOperator
<1>3. CASE DataCalls
  <2>1. UNCHANGED beyond \/ beyond' \in BOOLEAN
    BY <1>3 DEF DataCalls, handleRilSetupDataCall, handleRilGetDataCallList, next_call,
                convert_address, convert_rest, call_done, list_done
  <2> QED
    BY <1>1, <2>1
<1>4. CASE Scan
  <2>1. UNCHANGED beyond \/ beyond' \in BOOLEAN
    BY <1>4 DEF Scan, scan_start, scan_entry, scan_done
  <2> QED
    BY <1>1, <2>1
<1>5. ASSUME NEW p, setNetworkPreference(p) PROVE UNCHANGED beyond
  BY <1>5 DEF setNetworkPreference
<1>6. ASSUME NEW usec, NEW ms, osal_condition_unix_timedwait(usec, ms)
      PROVE  UNCHANGED beyond
  BY <1>6 DEF osal_condition_unix_timedwait
<1>7. CASE handleRilGetNetworkPref \/ heap_breaks \/ UNCHANGED vars
  BY <1>1, <1>7 DEF handleRilGetNetworkPref, heap_breaks, vars
<1> QED
  BY <1>1, <1>2, <1>3, <1>4, <1>5, <1>6, <1>7 DEF Next

LEMMA PlaceStep == FieldsInv /\ PlaceInv /\ [Next]_vars => PlaceInv'
<1> SUFFICES ASSUME FieldsInv, PlaceInv, [Next]_vars PROVE PlaceInv'
  OBVIOUS
<1>b. beyond' \in BOOLEAN
  BY BeyondStep
<1>1. CASE Registration
  BY <1>b, <1>1, RegistrationFrame DEF PlaceInv, Places
<1>2. CASE DataCalls
  BY <1>b, <1>2, DataCallsFrame DEF PlaceInv, Places
<1>3. CASE Scan
  BY <1>b, <1>3, ScanFrame DEF PlaceInv, Places
<1>4. CASE Preference
  BY <1>b, <1>4, PreferenceFrame DEF PlaceInv, Places
<1>5. ASSUME NEW usec \in Usecs, NEW ms \in Timeouts,
             osal_condition_unix_timedwait(usec, ms)
      PROVE  PlaceInv'
  <2>1. usec \in Nat /\ usec < 1000000 /\ ms \in Nat
    BY TimesAssumption
  <2> DEFINE d == TimeoutAt(0, usec, ms)
  <2>2. d.tv_sec \in Nat /\ d.tv_nsec \in Nat
    BY <2>1, TimeoutIsEarly
  <2>3. d = [tv_sec |-> d.tv_sec, tv_nsec |-> d.tv_nsec]
    BY DEF TimeoutAt
  <2> HIDE DEF d
  <2>4. d \in [tv_sec : Nat, tv_nsec : Nat]
    BY <2>2, <2>3
  <2> QED
    BY <1>b, <1>5, <2>4 DEF osal_condition_unix_timedwait, PlaceInv, Places, d
<1>6. CASE heap_breaks
  BY <1>b, <1>6, HeapFrame DEF PlaceInv, Places
<1>7. CASE UNCHANGED vars
  BY <1>7 DEF vars, PlaceInv
<1> QED
  BY <1>1, <1>2, <1>3, <1>4, <1>5, <1>6, <1>7 DEF Next, Preference

(* Type correctness of every conversion: whatever the vendor lists and     *)
(* whatever the limits are, the counters stay within their arrays and the  *)
(* values written are of their tables.  That a field is written does not   *)
(* mean that it lies in the payload (beyond).                              *)
THEOREM TypeCorrect == Spec => []TypeOK
<1>1. ASSUME ListInv PROVE list \in [sent : Nat, ver : Versions \cup {0},
                  read : Versions \cup {0}, num_calls : Nat, i : 0..MaxCalls,
                  at : Nat]
  <2>1. ListType /\ list.i <= MaxCalls /\ MaxCalls \in Nat
    BY <1>1, SizesAssumption DEF ListInv
  <2>2. list.i \in 0..MaxCalls
    BY <2>1 DEF ListType
  <2> QED
    BY <2>1, <2>2 DEF ListType
<1>2. CallInv => call \in [pdp_type : DOMAIN urilPdpTypeToRilPdpType,
                           pdp_addrs_len : 0..MaxAddrs, rest : Strings,
                           slot : [0..pcscf -> Addrs \cup {"0"}]]
  BY DEF CallInv, CallType, Slots
<1>3. ScanInv => scan \in [num_entries : 0..MaxScanned, i : 0..MaxScanned,
        num_filled : 0..MaxEntries,
        entries : [0 .. MaxEntries - 1 ->
                    [operator_name : 0..MaxScanned,
                     network_status : {StatusOf[s] : s \in DOMAIN StatusOf}]]]
  BY DEF ScanInv, ScanType, Table, EntryType, Statuses
<1>4. PrefInv => pref.vendor \in DOMAIN RilNwPrefToUrilNwPref \cup {"none"}
  BY DEF PrefInv
<1>5. RegInv /\ ListInv /\ CallInv /\ ScanInv /\ PrefInv /\ PlaceInv => TypeOK
  BY <1>1, <1>2, <1>3, <1>4 DEF TypeOK, RegInv, RegType, PlaceInv, Places
<1> QED
  BY <1>5, FieldsInit, FieldsStep, RegInit, RegStep, ListInit, ListStep, CallInit, CallStep,
     ScanInit, ScanStep, PrefInit, PrefStep, PlaceInit, PlaceStep, PTL DEF Spec
=============================================================================
