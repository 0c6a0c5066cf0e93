--------------------------------- MODULE Main ---------------------------------
(***************************************************************************)
(* src/main.cpp: the build chooses one of two programs, the automatic FDM  *)
(* printer (AutoFdm) or the assistant LDM printer (CgiMailbox).  With both *)
(* chosen the second is never reached, for the first does not return; with *)
(* neither, main returns at once.                                          *)
(***************************************************************************)
EXTENDS AutoFdm, CgiMailbox

VARIABLE program   \* the program that main calls

vars == <<program, fdmVars, mailVars>>

TypeOK == program \in {"autoFdmUsr01", "assistLdmUsr02"} /\ FdmTypeOK /\ MailTypeOK

\* What the program that does not run would find does not matter.
Init ==
  /\ FdmInit /\ MailInit
  /\ \/ program = "autoFdmUsr01" /\ back = NoFile
     \/ program = "assistLdmUsr02" /\ files = {}

\* A step of each program with what is around it.
Fdm(A)  == program = "autoFdmUsr01" /\ A /\ UNCHANGED <<program, mailVars>>
Mail(A) == program = "assistLdmUsr02" /\ A /\ UNCHANGED <<program, fdmVars>>

Next == Fdm(FdmNext) \/ Mail(MailNext)

Spec == Init /\ [][Next]_vars

\* The programs are scheduled, a print and a cancellation come to an end, and a CGI
\* process collects an answer that is there; when one gives up is left open.
FairSpec ==
  /\ Spec
  /\ WF_vars(Fdm(Program)) /\ WF_vars(Fdm(Printer))
  /\ WF_vars(Mail(Switch)) /\ \A c \in Clients : WF_vars(Mail(Collect(c)))

=============================================================================
