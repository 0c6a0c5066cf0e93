------------------------------- MODULE Listing -------------------------------
(***************************************************************************)
(* What a program keeps of a list that it is given, without changing the   *)
(* order: find's output for the readable models (00.dlpUsr1/file.cpp), and *)
(* OctoPrint's answer for the names that can be printed                    *)
(* (01.autoFdm/usr01.h).                                                   *)
(***************************************************************************)
EXTENDS Naturals, Sequences, FiniteSets

\* The places of all elements of S, in increasing order: one sequence.
PlacesOf(order, S) ==
  LET at == {i \in DOMAIN order : order[i] \in S}
  IN {p \in [1 .. Cardinality(at) -> at] : \A j, k \in DOMAIN p : j < k => p[j] < p[k]}

\* The elements of S in the order they are listed in: a set of one sequence.
Kept(order, S) == {[k \in DOMAIN p |-> order[p[k]]] : p \in PlacesOf(order, S)}

=============================================================================
