---------------------------- MODULE OrderDelivery ----------------------------
(***************************************************************************)
(* What the order list promises to the rest of the DLP host: the board     *)
(* finishes the orders one by one, and an order leaves the list once the   *)
(* board has finished it, before the next one starts.                      *)
(***************************************************************************)
EXTENDS Naturals

VARIABLES
  taken,  \* orders that have left the list
  done    \* orders the board has finished

vars == <<taken, done>>

Init == taken = 0 /\ done = 0

\* The board finishes the order at the head of the list.
Finish ==
  /\ done = taken
  /\ done' = done + 1
  /\ UNCHANGED taken

\* The finished order leaves the list.
Take ==
  /\ taken < done
  /\ taken' = taken + 1
  /\ UNCHANGED done

Next == Finish \/ Take

Spec == Init /\ [][Next]_vars

=============================================================================
