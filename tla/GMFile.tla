------------------------------- MODULE GMFile -------------------------------
(***************************************************************************)
(* The print job of the DLP host: the G-code file that GMCreat             *)
(* (00.dlpUsr1/SLC_Read.cpp) writes, the order list that GM_Read           *)
(* (00.dlpUsr1/marlinHost.cpp) loads from it, and what the reply thread    *)
(* has to wait for after each command.                                     *)
(***************************************************************************)
EXTENDS Naturals

CONSTANT Layers  \* layer_z, the number of layers GMCreat writes after the first exposure

ASSUME LayersAssumption == Layers \in Nat

\* Number of lines GMCreat writes.
FileLength == 5 * Layers + 7

\* The command on line n of G-M.gcode: set the line number, home, move to the work
\* level, then wait, LED on, LED off, lift and lower once per layer, and a last home.
GMCreat(n) ==
  IF n = 1 THEN "M110"
  ELSE IF n = 2 \/ n = FileLength THEN "G28"
  ELSE <<"M106", "M107", "G0", "G0", "M114">>[(n % 5) + 1]

\* GM_Read tests feof only after fgets has failed, so the last line enters the list twice.
NumOrders == FileLength + 1

\* Mutation: GM_Read gives the repeated last line a number of its own.
NumberOfNode(i) == i

\* The N word of the i-th order of the list.
Number(i) == IF i <= FileLength THEN i ELSE FileLength

\* What the host waits for after the command: 1 the board has to finish it, 2 expose,
\* 3 wait for the projector, 4 let the projector go on, 0 nothing.
compareSelf(n) ==
  [M110 |-> 0, G28 |-> 1, M106 |-> 2, M107 |-> 4, G0 |-> 0, M114 |-> 3][GMCreat(n)]

=============================================================================
