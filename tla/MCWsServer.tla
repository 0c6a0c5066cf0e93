----------------------------- MODULE MCWsServer -----------------------------
(***************************************************************************)
(* Instance of WsServer for TLC.  One client sends frames that may come    *)
(* together in one recv, one only greets, and one only connects and leaves; *)
(* with two descriptors the third gets the descriptor, and the memory, of  *)
(* another, or the process is out of descriptors.                          *)
(***************************************************************************)
EXTENDS WsServer

CONSTANTS talks, greets, silent

Three == {talks, greets, silent}
Talk  == [c \in Three |-> IF c = talks THEN 3 ELSE IF c = greets THEN 1 ELSE 0]

=============================================================================
