---------------------------- MODULE MCMarlinLink ----------------------------
(***************************************************************************)
(* Instances of MarlinLink for TLC.  One layer has every kind of order and *)
(* every pair of neighbours of the file; the second layer closes the cycle *)
(* wait, LED on, LED off, lift, lower, wait.                               *)
(***************************************************************************)
EXTENDS MarlinLink

OneLayer  == 1
TwoLayers == 2

\* Room for one refused line, which comes to three reply lines, and the next one.
OneComplaint == 4

\* Two copies of a line on their way at once, and the reply the host is reading.
TwoCopies == 3
=============================================================================
