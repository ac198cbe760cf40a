--------------------------- MODULE RilConversions ---------------------------
(***************************************************************************)
(* What the handlers of AndroidRilAdapter.cpp make of the data of a        *)
(* completion, and the deadline that osal_condition_unix.c makes of a      *)
(* timeout: the computations on values that the other modules leave out.   *)
(*                                                                         *)
(* Every behaviour is one job.  A loop of the code is an action per        *)
(* iteration; a registration status is its three handlers, which fill in   *)
(* one response.                                                           *)
(*                                                                         *)
(* A response is written over the payload of a uril_protocol_msg_t, which  *)
(* starts as zero (line 1238) and is all that is sent and all that a       *)
(* client gets.  The structures of a data call and of a scan are longer:   *)
(* what the handlers write behind the payload goes to memory that is not   *)
(* theirs.  call and scan record what was written where; a field arrives   *)
(* if it lies in the payload, and holds zero there if nothing was written. *)
(*                                                                         *)
(* A C string is Null, or what its reader makes of it: a number, or the    *)
(* addresses it lists, where "/" is a prefix length without an address.    *)
(***************************************************************************)
EXTENDS Integers, Sequences, FiniteSets

CONSTANTS
  Null,         \* a null pointer
  Addrs,        \* addresses the vendor reports
  VendorCalls,  \* data calls the vendor reports
  MaxAddrs,     \* URIL_DATA_MAX_ADDR_COUNT_V01
  MaxCalls,     \* URIL_DATA_MAX_CALLS_COUNT_V01
  MaxEntries,   \* URIL_NW_SCAN_MAX_ENTRY_COUNT_V01
  Payload,      \* MAX_URIL_PAYLOAD_SIZE
  AddrText,     \* bytes of an address of the vendor, with its end
  NameText,     \* bytes of a name of an operator, with its end
  Word,         \* bytes of a pointer and its alignment
  RadioTechs,   \* radio technologies in the replies of the vendor
  MaxSent,      \* bound: data calls the vendor lists
  MaxScanned,   \* bound: networks the vendor found
  Usecs,        \* tv_usec when a timed wait begins
  Timeouts      \* its timeout, in milliseconds

(* The fields of an RIL_Data_Call_Response that are converted here. *)
Strings == Seq(Addrs \cup {"/"}) \cup {Null}
CallData == [type : {"", "IP", "IPV6", "IPV4V6", "PPP", "other"},
             addresses : Strings, gateways : Strings, dnses : Strings, pcscf : Strings]

ASSUME ConstantsAssumption ==
  /\ VendorCalls \subseteq CallData
  /\ Null \notin Seq(Addrs \cup {"/"}) /\ "/" \notin Addrs /\ "0" \notin Addrs
  /\ MaxAddrs \in Nat /\ MaxEntries \in Nat /\ MaxSent \in Nat /\ MaxScanned \in Nat

ASSUME SizesAssumption == MaxCalls \in 1..6 /\ Word \in {4, 8}

(* The head of a response, up to its first address or name, fits. *)
ASSUME PayloadAssumption ==
  Payload \in Nat /\ Payload >= 41 /\ AddrText \in 1..256 /\ NameText \in 1..513

ASSUME TimesAssumption ==
  Usecs \subseteq Nat /\ (\A u \in Usecs : u < 1000000) /\ Timeouts \subseteq Nat

VARIABLES
  pc,       \* where the job is
  reg,      \* uril_nw_get_registration_status_resp_msg_v01
  list,     \* the list of data calls: what was sent, what is made of it
  call,     \* uril_data_call_info_t_v01 of one data call
  scan,     \* uril_nw_scan_resp_msg_v01
  pref,     \* the network preference, at the client and at the vendor
  deadline, \* the timespec of a timed wait
  beyond,   \* something was written behind the payload
  input     \* history: the data the vendor or the caller gave

vars == <<pc, reg, list, call, scan, pref, deadline, beyond, input>>

-----------------------------------------------------------------------------
(* Network preferences. *)
urilNwPrefToRilNwPref ==
  [URIL_GSM_WCDMA |-> "NET_GSM_WCDMA", URIL_GSM_ONLY |-> "NET_GSM_ONLY",
   URIL_WCDMA |-> "NET_WCDMA", URIL_GSM_WCDMA_AUTO |-> "NET_GSM_WCDMA_AUTO",
   URIL_CDMA_EVDO_AUTO |-> "NET_CDMA_EVDO_AUTO", URIL_CDMA_ONLY |-> "NET_CDMA_ONLY",
   URIL_EVDO_ONLY |-> "NET_EVDO_ONLY",
   URIL_GSM_WCDMA_CDMA_EVDO_AUTO |-> "NET_GSM_WCDMA_CDMA_EVDO_AUTO",
   URIL_LTE_CDMA_EVDO |-> "NET_LTE_CDMA_EVDO", URIL_LTE_GSM_WCDMA |-> "NET_LTE_GSM_WCDMA",
   URIL_LTE_CMDA_EVDO_GSM_WCDMA |-> "NET_LTE_CMDA_EVDO_GSM_WCDMA",
   URIL_LTE_ONLY |-> "NET_LTE_ONLY", URIL_LTE_WCDMA |-> "NET_LTE_WCDMA"]

RilNwPrefToUrilNwPref ==
  [NET_GSM_WCDMA |-> "URIL_GSM_WCDMA", NET_GSM_ONLY |-> "URIL_GSM_ONLY",
   NET_WCDMA |-> "URIL_WCDMA", NET_GSM_WCDMA_AUTO |-> "URIL_GSM_WCDMA_AUTO",
   NET_CDMA_EVDO_AUTO |-> "URIL_CDMA_EVDO_AUTO", NET_CDMA_ONLY |-> "URIL_CDMA_ONLY",
   NET_EVDO_ONLY |-> "URIL_EVDO_ONLY",
   NET_GSM_WCDMA_CDMA_EVDO_AUTO |-> "URIL_GSM_WCDMA_CDMA_EVDO_AUTO",
   NET_LTE_CDMA_EVDO |-> "URIL_LTE_CDMA_EVDO", NET_LTE_GSM_WCDMA |-> "URIL_LTE_GSM_WCDMA",
   NET_LTE_CMDA_EVDO_GSM_WCDMA |-> "URIL_LTE_CMDA_EVDO_GSM_WCDMA",
   NET_LTE_ONLY |-> "URIL_LTE_ONLY", NET_LTE_WCDMA |-> "URIL_LTE_WCDMA"]

(* Radio technologies, named without the prefixes of the two enumerations. *)
KnownTechs ==
  {"UNKNOWN", "GPRS", "EDGE", "UMTS", "IS95A", "IS95B", "1xRTT", "EVDO_0", "EVDO_A",
   "HSDPA", "HSUPA", "HSPA", "EVDO_B", "EHRPD", "LTE", "HSPAP", "GSM", "TD_SCDMA", "IWLAN"}
rilRatToUrilRat == [t \in KnownTechs |-> IF t = "UNKNOWN" THEN "NONE" ELSE t]

(* PDP types: what a request says to the vendor, and what its reply means. *)
urilPdpTypeToRilPdpType ==
  [NONE |-> "", IP |-> "IP", IPV6 |-> "IPV6", IPV4V6 |-> "IPV4V6", PPP |-> "PPP"]

(* Mutant: the beginning of the string decides. *)
PdpTypeOf_Prefix(type) ==
  CASE type \in {"IP", "IPV6", "IPV4V6"} -> "IP" [] type = "PPP" -> "PPP" [] OTHER -> "NONE"

PdpTypeOf(type) == IF type \in {"IP", "IPV6", "IPV4V6", "PPP"} THEN type ELSE "NONE"

-----------------------------------------------------------------------------
(* A registration reply: Null where rilStrToInt reads no number. *)
RegStates == {0, 1, 2, 3, 4, 5, 10, 12, 13, 14}
Replies == [regstate : RegStates \cup {11, Null}, rat : RadioTechs \cup {Null},
            denyreason : {"a reason", Null}]

NoRegInfo == [follows |-> FALSE, rat |-> "NONE", roaming |-> FALSE, denied |-> FALSE,
              deny_reason |-> "GENERAL", registration_state |-> "NONE"]
Identities == {"gsm", "wcdma", "lte", "tdscdma"}
NoReg == [voice |-> NoRegInfo, data |-> NoRegInfo, ids |-> {}, named |-> {},
          result |-> "none"]

Readable(y) == y.regstate # Null /\ y.rat # Null

(* The asserts of rilNwRegToUrilNwReg and rilRatToUrilRat. *)
Aborts(y) == Readable(y) /\ (y.regstate \notin RegStates \/ y.rat \notin KnownTechs)

(* A deny reason that was read is replaced by GENERAL; one that was not is *)
(* copied from an uninitialised variable.                                  *)
rilNwRegToUrilNwReg(y) ==
  IF ~Readable(y) THEN NoRegInfo ELSE
  [follows |-> TRUE, rat |-> rilRatToUrilRat[y.rat], roaming |-> y.regstate = 5,
   denied |-> y.regstate \in {3, 13},
   deny_reason |-> IF y.regstate \notin {3, 13} \/ y.denyreason # Null THEN "GENERAL"
                   ELSE "uninitialised",
   registration_state |-> IF y.regstate \in {1, 5} THEN "FULL"
                          ELSE IF y.regstate < 10 THEN "NONE" ELSE "LIMITED"]

(* The cell identities a reply adds to the response. *)
rilCellToUrilCellVoice(rat) ==
  CASE rat \in {"GPRS", "EDGE", "GSM"} -> {"gsm"}
    [] rat \in {"UMTS", "HSDPA", "HSUPA", "HSPA", "HSPAP"} -> {"wcdma"}
    [] rat = "TD_SCDMA" -> {"tdscdma"}
    [] OTHER -> {}
rilCellToUrilCellData(rat) == IF rat = "LTE" THEN {"lte"} ELSE {}

handleRilVoiceRegState(e, y) ==
  /\ pc = "idle"
  /\ input' = [input EXCEPT !.voice = y]
  /\ IF e = "success" /\ Aborts(y)
     THEN pc' = "abort" /\ UNCHANGED reg
     ELSE /\ pc' = IF e = "success" THEN "data" ELSE "registered"
          /\ reg' = IF e = "success"
                    THEN [NoReg EXCEPT !.voice = rilNwRegToUrilNwReg(y), !.result = e,
                                       !.ids = rilCellToUrilCellVoice(y.rat)]
                    ELSE [NoReg EXCEPT !.result = e]
  /\ UNCHANGED <<list, call, scan, pref, deadline, beyond>>

handleRilDataRegState(e, y) ==
  /\ pc = "data"
  /\ input' = [input EXCEPT !.data = y]
  /\ IF e = "success" /\ Aborts(y)
     THEN pc' = "abort" /\ UNCHANGED reg
     ELSE /\ pc' = IF e = "success" THEN "operator" ELSE "registered"
          /\ reg' = IF e = "success"
                    THEN [reg EXCEPT !.data = rilNwRegToUrilNwReg(y), !.result = e,
                                     !.ids = @ \cup rilCellToUrilCellData(y.rat)]
                    ELSE [reg EXCEPT !.result = e]
  /\ UNCHANGED <<list, call, scan, pref, deadline, beyond>>

(* Mutant: the LTE identity is forgotten. *)
Named_NoLte(ids) ==
  CASE "gsm" \in ids -> {"gsm"}
    [] "gsm" \notin ids /\ "wcdma" \in ids -> {"wcdma"}
    [] OTHER -> ids \cap {"tdscdma"}

(* The identity that gets the operator's mcc and mnc. *)
Named(ids) ==
  CASE "gsm" \in ids -> {"gsm"}
    [] "gsm" \notin ids /\ "wcdma" \in ids -> {"wcdma"}
    [] ids \cap {"gsm", "wcdma"} = {} /\ "lte" \in ids -> {"lte"}
    [] OTHER -> ids \cap {"tdscdma"}

handleRilGetOperator(e, code) ==
  /\ pc = "operator"
  /\ pc' = "registered"
  /\ input' = [input EXCEPT !.code = code]
  /\ reg' = [reg EXCEPT !.result = e,
                        !.named = IF e = "success" /\ code THEN Named(reg.ids) ELSE @]
  /\ UNCHANGED <<list, call, scan, pref, deadline, beyond>>

-----------------------------------------------------------------------------
(* A data call begins at list.at of the payload.  Its addresses lie one    *)
(* after the other in a packed structure, behind fields of 32 bytes:       *)
(* pdp_addrs from 0, then gtwy_addr and the ones after it, and the mtu.    *)
gtwy == MaxAddrs
dnsp == MaxAddrs + 1
dnss == MaxAddrs + 2
pcscf == MaxAddrs + 3
AddrSize == 260
CallHead == 32
CallSize == CallHead + AddrSize * (MaxAddrs + 4) + 2
SlotAt(at, k) == at + CallHead + AddrSize * k
Fits(at, size) == at + size <= Payload

(* Nothing is written yet. *)
NoCall == [pdp_type |-> "NONE", pdp_addrs_len |-> 0, rest |-> Null,
           slot |-> [k \in 0..pcscf |-> "0"]]

(* Mutant: a "/" without an address before it is taken for an address. *)
Reads_EmptyAddress(s) == s # Null /\ s # <<>>

(* rilIpAddrToUrilDataAddr: does it read an address, and the slots after.  *)
Reads(s) == s # Null /\ s # <<>> /\ Head(s) # "/"
Stored(slot, k, s) ==
  CASE s = Null -> [slot EXCEPT ![k] = "0"]
    [] s # Null /\ Reads(s) -> [slot EXCEPT ![k] = Head(s)]
    [] OTHER -> slot

(* rilDataCallResponseToIRilDataCallInfo up to its loop. *)
convert_call(c) ==
  /\ input' = [input EXCEPT !.call = c]
  /\ call' = [NoCall EXCEPT !.pdp_type = PdpTypeOf(c.type), !.rest = c.addresses]
  /\ pc' = "addresses"

(* An RIL_Data_Call_Response has four ints and five pointers, then a sixth *)
(* pointer, then an int that is padded.                                    *)
SizeOf(v) == 16 + Word * CASE v = 6 -> 5 [] v = 9 -> 6 [] v = 11 -> 7
Versions == {6, 9, 11}

(* The call is read into a structure of version 11 that starts as zero. *)
Comes(v, c) == v = 6 => c.pcscf = Null

(* handleRilSetupDataCallV1: one call, of any version. *)
handleRilSetupDataCall(v, c) ==
  /\ pc = "idle" /\ Comes(v, c)
  /\ convert_call(c)
  /\ list' = [sent |-> 1, ver |-> v, read |-> v, num_calls |-> 1, i |-> 0, at |-> 8]
  /\ UNCHANGED <<reg, scan, pref, deadline, beyond>>

(* Mutant: version 9 is not known. *)
VersionOf_No9(len) == IF len % SizeOf(6) = 0 THEN 6 ELSE 11

(* The version of a list is guessed from its length.  The vendor sends     *)
(* whole structures, so the assert that one of them fits holds.            *)
VersionOf(len) ==
  CASE len % SizeOf(6) = 0 -> 6
    [] len % SizeOf(6) # 0 /\ len % SizeOf(9) = 0 -> 9
    [] OTHER -> 11

(* handleRilGetDataCallListV1 up to its loop.  n calls of version v.  Of a *)
(* list that is misread, the fields are anything.                          *)
handleRilGetDataCallList(v, n) ==
  LET len == n * SizeOf(v)
      ver == VersionOf(len)
  IN
  /\ pc = "idle"
  /\ list' = [sent |-> n, ver |-> v, read |-> ver, num_calls |-> len \div SizeOf(ver),
              i |-> 0, at |-> 9]
  /\ pc' = IF n > 0 /\ ver # v THEN "misread" ELSE "calls"
  /\ UNCHANGED <<reg, call, scan, pref, deadline, beyond, input>>

(* The head of a call that is not in the payload, the counter of its       *)
(* addresses included, is memory that other threads use: nothing of what   *)
(* its conversion writes, or reads back, is known.                         *)
next_call(c) ==
  /\ pc = "calls" /\ list.i < list.num_calls /\ list.i < MaxCalls
  /\ Comes(list.read, c)
  /\ IF Fits(list.at, CallHead)
     THEN convert_call(c) /\ UNCHANGED beyond
     ELSE pc' = "spilt" /\ beyond' = TRUE /\ UNCHANGED <<call, input>>
  /\ UNCHANGED <<reg, list, scan, pref, deadline>>

(* Mutant: the last address is written but not counted. *)
Counted_OneLess(s, k) == Reads(s) /\ k < MaxAddrs - 1

(* The condition of the loop over the addresses. *)
Counted(s, k) == Reads(s) /\ k < MaxAddrs

(* One round of the loop over the addresses: an address is converted       *)
(* before the limit is tested.                                             *)
convert_address ==
  LET s == call.rest
      k == call.pdp_addrs_len
  IN
  /\ pc = "addresses" /\ s # Null
  /\ IF Counted(s, k)
     THEN /\ call' = [call EXCEPT !.slot = Stored(@, k, s), !.pdp_addrs_len = k + 1,
                                  !.rest = Tail(s)]
          /\ UNCHANGED pc
     ELSE /\ call' = [call EXCEPT !.slot = Stored(@, k, s), !.rest = Null]
          /\ pc' = "rest"
  /\ beyond' = (beyond \/ (Reads(s) /\ ~Fits(SlotAt(list.at, k), AddrSize)))
  /\ UNCHANGED <<reg, list, scan, pref, deadline, input>>

(* Gateway, name servers and P-CSCF, and then the mtu, the last field. *)
Rest(slot, c) ==
  LET g == Stored(slot, gtwy, c.gateways)
      d == Stored(g, dnsp, c.dnses)
      e == IF Reads(c.dnses) THEN Stored(d, dnss, Tail(c.dnses)) ELSE d
  IN  Stored(e, pcscf, c.pcscf)

convert_rest ==
  /\ pc = "rest" \/ (pc = "addresses" /\ call.rest = Null)
  /\ call' = [call EXCEPT !.slot = Rest(@, input.call)]
  /\ pc' = "converted"
  /\ beyond' = (beyond \/ ~Fits(list.at, CallSize))
  /\ UNCHANGED <<reg, list, scan, pref, deadline, input>>

(* The end of a round of the loop over the calls. *)
call_done ==
  /\ pc \in {"converted", "spilt"}
  /\ list' = [list EXCEPT !.i = @ + 1, !.at = @ + CallSize]
  /\ pc' = "calls"
  /\ UNCHANGED <<reg, call, scan, pref, deadline, beyond, input>>

list_done ==
  /\ pc = "calls" /\ ~(list.i < list.num_calls /\ list.i < MaxCalls)
  /\ pc' = "listed"
  /\ UNCHANGED <<reg, list, call, scan, pref, deadline, beyond, input>>

-----------------------------------------------------------------------------
(* handleRilAvailableNetworksResponseV1.  A network the vendor found: are  *)
(* its three names there, and what does its status say.                    *)
StatusOf == [unknown |-> "NONE", available |-> "AVAILABLE",
             current |-> "CURRENT_SERVING", forbidden |-> "FORBIDDEN"]
Networks == [names : BOOLEAN, status : DOMAIN StatusOf \cup {"other", Null}]
NoEntry == [operator_name |-> 0, network_status |-> "NONE"]

(* Where entry k begins: two names of up to 513 bytes, mcc and mnc, the    *)
(* status, and the rat, which is never written.                            *)
EntryAt(k) == 13 + 1042 * k
NameFits(k) == Fits(EntryAt(k), 513 + NameText)
CodeFits(k) == Fits(EntryAt(k), 1034)
StatusFits(k) == Fits(EntryAt(k), 1038)

Counts(n) == n.names /\ n.status \in DOMAIN StatusOf

scan_start(n) ==
  /\ pc = "idle"
  /\ pc' = "scan"
  /\ scan' = [num_entries |-> n, i |-> 0, num_filled |-> 0,
              entries |-> [k \in 0 .. MaxEntries - 1 |-> NoEntry]]
  /\ UNCHANGED <<reg, list, call, pref, deadline, beyond, input>>

(* Mutant: an entry counts as soon as its name is written. *)
Entry_NameIsEnough(s, n) ==
  IF ~n.names THEN s ELSE
  [s EXCEPT !.entries[s.num_filled].operator_name = s.i + 1, !.num_filled = @ + 1]

(* The name goes into the next free entry before the status is looked at;  *)
(* an entry that does not count is written over by the next one.           *)
Entry(s, n) ==
  LET k == s.num_filled
      t == IF n.names THEN [s EXCEPT !.entries[k].operator_name = s.i + 1] ELSE s
  IN  IF Counts(n)
      THEN [t EXCEPT !.entries[k].network_status = StatusOf[n.status], !.num_filled = k + 1]
      ELSE t

scan_entry(n) ==
  /\ pc = "scan" /\ scan.i < scan.num_entries /\ scan.num_filled < MaxEntries
  /\ scan' = [Entry(scan, n) EXCEPT !.i = @ + 1]
  /\ input' = [input EXCEPT !.scan = Append(@, n)]
  /\ beyond' = (\/ beyond
                \/ n.names /\ ~CodeFits(scan.num_filled)
                \/ Counts(n) /\ ~StatusFits(scan.num_filled))
  /\ UNCHANGED <<pc, reg, list, call, pref, deadline>>

scan_done ==
  /\ pc = "scan" /\ ~(scan.i < scan.num_entries /\ scan.num_filled < MaxEntries)
  /\ pc' = "scanned"
  /\ UNCHANGED <<reg, list, call, scan, pref, deadline, beyond, input>>

(* What was written behind the payload was somebody else's: the allocator  *)
(* ends the process, or the handler and the sending go on.                 *)
heap_breaks ==
  /\ beyond /\ pc # "crashed"
  /\ pc' = "crashed"
  /\ UNCHANGED <<reg, list, call, scan, pref, deadline, beyond, input>>

-----------------------------------------------------------------------------
(* A client sets the network preference and reads it back. *)
setNetworkPreference(p) ==
  /\ pc = "idle"
  /\ pc' = "preferred"
  /\ input' = [input EXCEPT !.pref = p]
  /\ pref' = [pref EXCEPT !.vendor = urilNwPrefToRilNwPref[p]]
  /\ UNCHANGED <<reg, list, call, scan, deadline, beyond>>

handleRilGetNetworkPref ==
  /\ pc = "preferred"
  /\ pc' = "reported"
  /\ pref' = [pref EXCEPT !.client = RilNwPrefToUrilNwPref[pref.vendor]]
  /\ UNCHANGED <<reg, list, call, scan, deadline, beyond, input>>

(* Mutant: the microseconds are converted, the carry is forgotten. *)
TimeoutAt_NoCarry(sec, usec, ms) ==
  [tv_sec |-> sec + (ms \div 1000), tv_nsec |-> usec * 1000 + (ms % 1000) * 1000000]

(* The timespec of a wait of ms milliseconds that begins at sec and usec;  *)
(* the microseconds are added as nanoseconds.                              *)
TimeoutAt(sec, usec, ms) ==
  [tv_sec |-> sec + (ms \div 1000), tv_nsec |-> usec + (ms % 1000) * 1000000]

osal_condition_unix_timedwait(usec, ms) ==
  /\ pc = "idle"
  /\ pc' = "waiting"
  /\ input' = [input EXCEPT !.usec = usec, !.ms = ms]
  /\ deadline' = TimeoutAt(0, usec, ms)
  /\ UNCHANGED <<reg, list, call, scan, pref, beyond>>

-----------------------------------------------------------------------------
NoReply == [regstate |-> Null, rat |-> Null, denyreason |-> Null]
NoData == [type |-> "", addresses |-> Null, gateways |-> Null, dnses |-> Null,
           pcscf |-> Null]

Init ==
  /\ pc = "idle"
  /\ reg = NoReg /\ call = NoCall
  /\ list = [sent |-> 0, ver |-> 0, read |-> 0, num_calls |-> 0, i |-> 0, at |-> 0]
  /\ scan = [num_entries |-> 0, i |-> 0, num_filled |-> 0,
             entries |-> [k \in 0 .. MaxEntries - 1 |-> NoEntry]]
  /\ pref = [client |-> "none", vendor |-> "none"]
  /\ deadline = [tv_sec |-> 0, tv_nsec |-> 0]
  /\ beyond = FALSE
  /\ input = [voice |-> NoReply, data |-> NoReply, code |-> FALSE, call |-> NoData,
           scan |-> <<>>, pref |-> "none", usec |-> 0, ms |-> 0]

Registration ==
  \E e \in {"success", "failure"} :
    \/ \E y \in Replies : handleRilVoiceRegState(e, y) \/ handleRilDataRegState(e, y)
    \/ \E code \in BOOLEAN : handleRilGetOperator(e, code)

DataCalls ==
  \/ \E v \in Versions, c \in VendorCalls : handleRilSetupDataCall(v, c)
  \/ \E v \in Versions, n \in 0..MaxSent : handleRilGetDataCallList(v, n)
  \/ \E c \in VendorCalls : next_call(c)
  \/ convert_address \/ convert_rest \/ call_done \/ list_done

Scan ==
  \/ \E n \in 0..MaxScanned : scan_start(n)
  \/ \E n \in Networks : scan_entry(n)
  \/ scan_done

Next ==
  \/ Registration \/ DataCalls \/ Scan \/ heap_breaks
  \/ \E p \in DOMAIN urilNwPrefToRilNwPref : setNetworkPreference(p)
  \/ handleRilGetNetworkPref
  \/ \E usec \in Usecs, ms \in Timeouts : osal_condition_unix_timedwait(usec, ms)

Spec == Init /\ [][Next]_vars

-----------------------------------------------------------------------------
RegInfo == [follows : BOOLEAN, rat : KnownTechs \cup {"NONE"}, roaming : BOOLEAN,
            denied : BOOLEAN, deny_reason : {"GENERAL", "uninitialised"},
            registration_state : {"NONE", "LIMITED", "FULL"}]

(* Type correctness.  The counters stay within their arrays; the write of  *)
(* line 417 does not, and lands in gtwy_addr, the slot behind pdp_addrs;   *)
(* what is written behind the payload is recorded in beyond.               *)
TypeOK ==
  /\ pc \in {"idle", "abort", "data", "operator", "registered", "calls", "misread",
             "addresses", "rest", "converted", "spilt", "listed", "crashed", "scan",
             "scanned", "preferred",
             "reported", "waiting"}
  /\ reg \in [voice : RegInfo, data : RegInfo, ids : SUBSET Identities,
              named : SUBSET Identities, result : {"none", "success", "failure"}]
  /\ list \in [sent : Nat, ver : Versions \cup {0}, read : Versions \cup {0},
               num_calls : Nat, i : 0..MaxCalls, at : Nat]
  /\ call \in [pdp_type : DOMAIN urilPdpTypeToRilPdpType, pdp_addrs_len : 0..MaxAddrs,
               rest : Strings, slot : [0..pcscf -> Addrs \cup {"0"}]]
  /\ scan \in [num_entries : 0..MaxScanned, i : 0..MaxScanned, num_filled : 0..MaxEntries,
               entries : [0 .. MaxEntries - 1 ->
                           [operator_name : 0..MaxScanned,
                            network_status : {StatusOf[s] : s \in DOMAIN StatusOf}]]]
  /\ pref.vendor \in DOMAIN RilNwPrefToUrilNwPref \cup {"none"}
  /\ deadline \in [tv_sec : Nat, tv_nsec : Nat]
  /\ beyond \in BOOLEAN

(* A registration status that reports success with an operator's code      *)
(* gives the code to one of its cell identities; when the voice and the    *)
(* data reply name the same technology, that is the only identity there is.*)
OperatorNamesTheCell ==
  pc = "registered" /\ reg.result = "success" /\ input.code =>
    /\ reg.named \subseteq reg.ids
    /\ reg.ids # {} => Cardinality(reg.named) = 1
    /\ input.voice.rat = input.data.rat => reg.named = reg.ids

(* The addresses at the start of a string that the loop can read. *)
Readables(s) ==
  IF s = Null THEN {} ELSE {k \in 1..Len(s) : \A j \in 1..k : s[j] # "/"}
FirstOf(s) == IF Readables(s) = {} THEN "0" ELSE s[1]
SecondOf(s) == IF 2 \in Readables(s) THEN s[2] ELSE "0"

(* Does the text of address slot k of the call arrive at the client.       *)
TextFits(k) == Fits(SlotAt(list.at, k), AddrText)

(* What arrives of a converted data call is what the vendor reported: the  *)
(* number of addresses, up to the limit; the first ones, in order; and of  *)
(* the gateway, name servers and P-CSCF those that lie in the payload.     *)
(* Only the gateway may instead be the address just past the limit, when   *)
(* the vendor listed more and reported an empty gateway (line 417).  In    *)
(* the 1024 bytes of the code lie four addresses, the fourth without its   *)
(* prefix length, and nothing of the gateway and the fields behind it.     *)
AddressesAsReported ==
  pc = "converted" =>
    LET c == input.call
        n == Cardinality(Readables(c.addresses))
    IN
    /\ call.pdp_addrs_len = IF n > MaxAddrs THEN MaxAddrs ELSE n
    /\ \A k \in 0 .. MaxAddrs - 1 : TextFits(k) =>
         call.slot[k] = IF k < n THEN c.addresses[k + 1] ELSE "0"
    /\ TextFits(gtwy) =>
         \/ call.slot[gtwy] = FirstOf(c.gateways)
         \/ /\ n > MaxAddrs /\ c.gateways # Null /\ Readables(c.gateways) = {}
            /\ call.slot[gtwy] = c.addresses[MaxAddrs + 1]
    /\ TextFits(dnsp) => call.slot[dnsp] = FirstOf(c.dnses)
    /\ TextFits(dnss) => call.slot[dnss] = SecondOf(c.dnses)
    /\ TextFits(pcscf) => call.slot[pcscf] = FirstOf(c.pcscf)

(* A list of at most URIL_DATA_MAX_CALLS_COUNT_V01 data calls is read as   *)
(* the version it is, and data_calls_len, which arrives, is their number:  *)
(* the lengths that two versions divide begin just above that limit.  It   *)
(* is not said that the calls arrive: only the first one lies in part in   *)
(* the payload (AddressesAsReported).                                      *)
ListReadAsSent ==
  list.sent <= MaxCalls =>
    /\ pc # "misread"
    /\ list.num_calls = list.sent
    /\ pc = "listed" => list.i = list.sent

(* A scan counts, in entries_len, the networks that have their names and a *)
(* known status, up to the limit, and an entry is written for each of them *)
(* in order: what arrives of it (of the 1024 bytes of the code only the    *)
(* names of the first entry) is of that network, although the name of one  *)
(* that does not count was written to the same place before.               *)
ScanReportsCompleteNetworks ==
  pc = "scanned" =>
    LET good == {i \in DOMAIN input.scan : Counts(input.scan[i])} IN
    /\ scan.num_filled = Cardinality(good)
    /\ \A k \in 0 .. scan.num_filled - 1 :
         LET i == scan.entries[k].operator_name IN
         /\ NameFits(k) => i \in good /\ Cardinality({j \in good : j < i}) = k
         /\ StatusFits(k) => scan.entries[k].network_status = StatusOf[input.scan[i].status]
    /\ Len(input.scan) < scan.num_entries => scan.num_filled = MaxEntries

(* Every response lies within the payload that uril_protocol.h:37 declares *)
(* as the largest.  The code does not keep this: a data call takes 2114    *)
(* bytes and a scan entry 1042.                                            *)
ResponseInPayload == ~beyond

(* A network preference that a client sets is the one it reads back, and   *)
(* the PDP type of a call is the one that was asked for.                   *)
ReadBackAsSet ==
  /\ pc = "reported" => pref.client = input.pref
  /\ pc = "converted" => \A p \in DOMAIN urilPdpTypeToRilPdpType :
       urilPdpTypeToRilPdpType[p] = input.call.type => call.pdp_type = p

(* How long a timed wait lasts, in nanoseconds. *)
Lasts(d, usec) == d.tv_sec * 1000000000 + d.tv_nsec - usec * 1000

(* A valid timespec, never late and less than a second early. *)
NearTimeout(d, usec, ms) ==
  /\ d.tv_nsec >= 0 /\ d.tv_nsec < 1000000000
  /\ Lasts(d, usec) <= ms * 1000000
  /\ Lasts(d, usec) > ms * 1000000 - 1000000000

(* The deadline of a timed wait is a valid timespec; the wait is never     *)
(* longer than its timeout and less than a second shorter (line 73 adds    *)
(* microseconds as nanoseconds).                                           *)
DeadlineNearTimeout == pc = "waiting" => NearTimeout(deadline, input.usec, input.ms)
=============================================================================
