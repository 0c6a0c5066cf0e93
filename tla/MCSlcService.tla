---------------------------- MODULE MCSlcService ----------------------------
(***************************************************************************)
(* Instance of SlcService for TLC.  Two requests are enough for one to     *)
(* overlap, follow or overtake the other at every point; of two layers the *)
(* first has a successor and the second is the last, so OpenSLC ends both  *)
(* ways, at the terminator of its file and at an exit.                     *)
(***************************************************************************)
EXTENDS SlcService

CONSTANTS c1, c2

TwoRequests == {c1, c2}

=============================================================================
