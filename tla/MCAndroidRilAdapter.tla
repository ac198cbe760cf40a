------------------------ MODULE MCAndroidRilAdapter ------------------------
(* Small instances of AndroidRilAdapter for TLC. *)
EXTENDS AndroidRilAdapter

(* One message id of each kind of call: three RIL requests in a row, one   *)
(* that asserts on its data, one that does not, one of two by its payload, *)
(* a thread, a refusal, and an id no processor knows.                      *)
SomeMsgIds == {"GET_REGISTRATION_STATUS", "SETUP_DATA_CALL", "SET_SCREEN", "SELECTION",
               "GET_RADIO_MODE", "GET_CELL_ACCESS_STATE", "UNKNOWN"}
=============================================================================
