---------------------- MODULE MCSocketClientConnector ----------------------
(* Small instances of SocketClientConnector for TLC. *)
EXTENDS SocketClientConnector, TLC

CONSTANTS c1, c2

TwoAndNone == c1 :> 2 @@ c2 :> 0
OneEach == [c \in Clients |-> 1]
=============================================================================
