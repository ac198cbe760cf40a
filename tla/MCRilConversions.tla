--------------------------- MODULE MCRilConversions ---------------------------
(* A small instance of RilConversions for TLC. *)
EXTENDS RilConversions

SomeAddrs == {"a", "b", "c", "d", "e", "f"}

(* Up to two addresses more than the limit of four, and one that stops the *)
(* reader at the first, the second and the last place.                     *)
SixAddrs == <<"a", "b", "c", "d", "e", "f">>
Lists == {SubSeq(SixAddrs, 1, n) : n \in 0..6}
         \cup {Null, <<"/">>, <<"a", "/", "b">>, <<"a", "b", "c", "d", "/", "e">>}
Servers == {Null, <<>>, <<"d">>, <<"d", "c">>}

(* Any addresses with any gateway, and any other servers, of any type. *)
SomeCalls ==
  [type : {"IP"}, addresses : Lists, gateways : Servers, dnses : {<<"d", "c">>},
   pcscf : {<<"b">>}]
  \cup
  [type : {"", "IP", "IPV6", "IPV4V6", "PPP", "other"}, addresses : {SubSeq(SixAddrs, 1, 5)},
   gateways : {<<>>}, dnses : Servers, pcscf : Servers]

SomeTechs == {"GSM", "HSPAP", "TD_SCDMA", "LTE", "99"}
SomeUsecs == {0, 1, 500000, 999999}
SomeTimeouts == {0, 1, 999, 1000, 1500, 1999}
=============================================================================
