------------------------------ MODULE MainProofs ------------------------------
(***************************************************************************)
(* Theorems about the two programs of main.cpp, for every folder of files  *)
(* and every set of presses.                                               *)
(***************************************************************************)
EXTENDS Main, FiniteSetTheorems, SequenceTheorems, TLAPS

-----------------------------------------------------------------------------
(* The assistant LDM printer: each press gets its own answer. *)

\* While nothing has disturbed the switch, one process at most is at work, and what waits in
\* the FIFO, in the thread and in the file is its own.
Undisturbed ==
  /\ \A c, d \in Clients : cgi[c] \in Working /\ cgi[d] \in Working => c = d
  /\ \A c \in Clients :
       /\ cgi[c] # "crashed"
       /\ strs[c] # NoFile => strs[c] = own[c] /\ cgi[c] \notin {"start", "look", "open"}
       /\ cgi[c] = "start" => c \notin fifo /\ own[c] = NoFile
       /\ c \in fifo => cgi[c] = "look" /\ own[c] = NoFile /\ thread = "read"
       /\ cgi[c] = "look" /\ own[c] # NoFile /\ thread = "read" => back = own[c]
       /\ cgi[c] = "open" => back # NoFile
       /\ cgi[c] \in {"open", "remove"} => thread = "read"
  /\ thread = "rename" =>
       back = NoFile /\ \E c \in Clients : cgi[c] = "look" /\ own[c] = outfile
  /\ back # NoFile => \E c \in Clients : cgi[c] \in Working /\ own[c] = back

MailInv == MailTypeOK /\ (~disturbed => Undisturbed)

LEMMA MailInitially == Init => MailInv
<1>. SUFFICES ASSUME Init PROVE MailInv
  OBVIOUS
<1>1. MailTypeOK
  <2>1. disturbed \in BOOLEAN /\ listening \in BOOLEAN
    BY DEF Init, MailInit
  <2>2. flag \in 0 .. 1
    BY DEF Init, MailInit
  <2>. QED BY <2>1, <2>2 DEF Init, MailInit, MailTypeOK, Answers, Working
<1>2. ~disturbed => Undisturbed
  BY DEF Init, MailInit, Undisturbed, Answers, Working, NoFile
<1>. QED BY <1>1, <1>2 DEF MailInv

LEMMA MailTypeStep ==
  ASSUME MailTypeOK, MailNext
  PROVE  MailTypeOK'
<1>. USE DEF MailTypeOK, switch, client
<1>1. CASE Listen
  BY <1>1 DEF Listen
<1>2. CASE Spin
  BY <1>2 DEF Spin, mailVars
<1>3. CASE Receive
  <2>1. Text(flag) \in Answers
    BY DEF Text, Answers
  <2>2. 1 - flag \in 0 .. 1
    OBVIOUS
  <2>. QED BY <1>3, <2>1, <2>2 DEF Receive
<1>4. CASE Rename
  BY <1>4 DEF Rename
<1>5. ASSUME NEW c \in Clients, Client(c) PROVE MailTypeOK'
  <2>1. CASE fifo_write(c)
    BY <2>1 DEF fifo_write, Goes, Working
  <2>2. CASE GiveUp(c)
    BY <2>2 DEF GiveUp, Goes, Working
  <2>3. CASE Find(c)
    BY <2>3 DEF Find, Goes, Working
  <2>4. CASE Open(c)
    BY <2>4 DEF Open, Goes, Working
  <2>5. CASE Remove(c)
    BY <2>5 DEF Remove, Goes, Working
  <2>. QED BY <1>5, <2>1, <2>2, <2>3, <2>4, <2>5 DEF Client, Collect
<1>. QED BY <1>1, <1>2, <1>3, <1>4, <1>5 DEF MailNext, Switch

\* Each step of the thread and of a process keeps the invariant.
LEMMA UndisturbedStep ==
  ASSUME MailTypeOK, MailNext, ~disturbed => Undisturbed, ~disturbed'
  PROVE  Undisturbed'
<1>0. ~disturbed /\ Undisturbed
  BY DEF MailNext, Switch, Listen, Spin, Receive, Rename, Client, Collect, fifo_write,
         Find, GiveUp, Open, Remove, mailVars, MailTypeOK
<1>. USE DEF MailTypeOK, switch, client, Undisturbed, NoFile, Answers, Working
<1>1. CASE Listen
  BY <1>0, <1>1 DEF Listen
<1>2. CASE Spin
  BY <1>0, <1>2 DEF Spin, mailVars
<1>3. CASE Receive
  BY <1>0, <1>3 DEF Receive, Text
<1>4. CASE Rename
  BY <1>0, <1>4 DEF Rename
<1>5. ASSUME NEW c \in Clients, Client(c) PROVE Undisturbed'
  <2>1. CASE fifo_write(c)
    BY <1>0, <2>1 DEF fifo_write, Goes
  <2>2. CASE GiveUp(c)
    BY <1>0, <2>2 DEF GiveUp, Goes
  <2>3. CASE Find(c)
    BY <1>0, <2>3 DEF Find, Goes
  <2>4. CASE Open(c)
    BY <1>0, <2>4 DEF Open, Goes
  <2>5. CASE Remove(c)
    BY <1>0, <2>5 DEF Remove, Goes
  <2>. QED BY <1>5, <2>1, <2>2, <2>3, <2>4, <2>5 DEF Client, Collect
<1>. QED BY <1>1, <1>2, <1>3, <1>4, <1>5 DEF MailNext, Switch

LEMMA MailStays == ASSUME MailInv, [Next]_vars PROVE MailInv'
<1>1. CASE MailNext
  BY <1>1, MailTypeStep, UndisturbedStep DEF MailInv
<1>2. CASE UNCHANGED mailVars
  BY <1>2 DEF MailInv, MailTypeOK, Undisturbed, mailVars, switch, client
<1>. QED BY <1>1, <1>2 DEF Next, Fdm, Mail, vars

\* What the button says is what its press has done, unless presses overlapped or an answer
\* was left behind (usr02.h 64-101, ultrasound-get.c 3161-3187).
THEOREM PressGetsItsAnswer == Spec => []OwnToggle
<1>1. MailInv => OwnToggle
  BY DEF MailInv, Undisturbed, OwnToggle
<1>. QED BY MailInitially, MailStays, <1>1, PTL DEF Spec

-----------------------------------------------------------------------------
(* The automatic FDM printer: a cancellation that was seen ends the loop. *)

\* A cancelled print of the folder counts as stopped; once the program has seen it, it neither
\* wants to go on nor is about to, and no print of the folder is under way.
StopInv ==
  /\ job \in Jobs /\ files \subseteq Names
  /\ stopped \in BOOLEAN /\ noticed \in BOOLEAN
  /\ state \in {"Printing", "Paused"} => job # None
  /\ state = "Cancelling" /\ job[1] = "loop" => stopped = TRUE
  /\ stopped = TRUE /\ noticed = TRUE =>
       /\ loopState = 0 /\ pc # "post"
       /\ job[1] = "loop" => state \notin {"Printing", "Paused"}

LEMMA JobKinds ==
  /\ Own \in Jobs /\ Own[1] = "local" /\ Own # None /\ None[1] = "none"
  /\ \A n \in Names : Loop(n) \in Jobs /\ Loop(n)[1] = "loop" /\ Loop(n) # None
  /\ \A j \in Jobs : j # Own /\ j # None => j[1] = "loop"
BY DEF Jobs, Own, None, Loop

LEMMA StopInitially == Init => StopInv
BY DEF Init, FdmInit, StopInv, Jobs

LEMMA StopStep == ASSUME StopInv, FdmNext PROVE StopInv'
<1>. USE JobKinds DEF StopInv, printer, history, counts
<1>1. CASE GetFiles
  BY <1>1 DEF GetFiles
<1>2. CASE GetJob
  <2>1. noticed' = (noticed \/ (state = "Cancelling" /\ job[1] = "loop"))
    BY <1>2 DEF GetJob
  <2>2. noticed' \in BOOLEAN
    BY <2>1
  <2>3. noticed' = TRUE => noticed = TRUE \/ (state = "Cancelling" /\ job[1] = "loop")
    BY <2>1
  <2>. QED BY <1>2, <2>2, <2>3 DEF GetJob, cjson_analysisState
<1>3. CASE JobUnknown
  BY <1>3 DEF JobUnknown
<1>4. CASE Post
  <2>. DEFINE name == fileName[fileIndex + 1]
  <2>1. CASE name \in files /\ state = "Operational" /\ state' = "Printing" /\ job' = Loop(name)
    BY <1>4, <2>1 DEF Post
  <2>2. CASE UNCHANGED printer
    BY <1>4, <2>1 DEF Post
  <2>. QED BY <1>4, <2>1, <2>2 DEF Post
<1>5. CASE Printer
  BY <1>5 DEF Printer, Moves
<1>6. CASE User
  <2>1. ASSUME NEW n \in files \cap Printable, UserPrints(Loop(n)) PROVE StopInv'
    BY <1>6, <2>1 DEF User, Act, UserPrints
  <2>2. CASE UserPrints(Own)
    BY <1>6, <2>2 DEF User, Act, UserPrints
  <2>3. CASE UserCancels
    BY <1>6, <2>3 DEF User, Act, UserCancels
  <2>4. CASE UserSwitches
    BY <1>6, <2>4 DEF User, Act, UserSwitches
  <2>5. CASE UserStores
    BY <1>6, <2>5 DEF User, Act, UserStores
  <2>. QED BY <1>6, <2>1, <2>2, <2>3, <2>4, <2>5 DEF User
<1>. QED BY <1>1, <1>2, <1>3, <1>4, <1>5, <1>6 DEF FdmNext, Program

LEMMA StopStays == ASSUME StopInv, [Next]_vars PROVE StopInv'
<1>1. CASE UNCHANGED fdmVars
  BY <1>1 DEF StopInv, fdmVars, printer, history
<1>. QED BY <1>1, StopStep DEF Next, Fdm, Mail, vars

\* After the program has seen the user cancel a print of the folder it starts nothing until the
\* user prints a file of the folder again, for every folder (usr01.h 176-280, 504-551).
THEOREM CancellingEndsLoop == Spec => CancelStops
<1>1. StopInv /\ [Next]_vars =>
        [pc = "post" /\ state = "Operational" /\ state' = "Printing"
           => ~(stopped /\ noticed)]_fdmVars
  BY DEF StopInv
<1>. QED BY StopInitially, StopStays, <1>1, PTL DEF Spec, CancelStops

-----------------------------------------------------------------------------
(* The automatic FDM printer: the names and the index. *)

\* What is kept is among what is listed and asked for, and no longer than the list.
LEMMA KeptType ==
  ASSUME NEW M, NEW S, NEW order \in Seq(M), NEW l \in Kept(order, S)
  PROVE  l \in Seq(S) /\ Len(l) \in 0 .. Len(order)
<1>. DEFINE at == {i \in DOMAIN order : order[i] \in S}
            n  == Cardinality(at)
<1>1. n \in 0 .. Len(order)
  <2>1. at \in SUBSET (1 .. Len(order)) /\ Len(order) \in Nat
    OBVIOUS
  <2>2. IsFiniteSet(1 .. Len(order)) /\ Cardinality(1 .. Len(order)) = Len(order)
    BY <2>1, FS_Interval
  <2>3. IsFiniteSet(at) /\ n <= Len(order)
    BY <2>1, <2>2, FS_Subset
  <2>. QED BY <2>1, <2>3, FS_CardinalityType
<1>2. PICK p \in [1 .. n -> at] : l = [k \in 1 .. n |-> order[p[k]]]
  BY DEF Kept, PlacesOf
<1>3. \A i \in at : order[i] \in S
  OBVIOUS
<1>. HIDE DEF n, at
<1>4. l \in [1 .. n -> S]
  BY <1>2, <1>3
<1>. QED BY <1>1, <1>4

\* The index is below the number of names, if there are any; after the names have been asked
\* for, that number is the length of the list.
IndexInv ==
  /\ FdmTypeOK /\ fileNumLast = fileNum
  /\ fileNum > 0 => fileIndex < fileNum
  /\ pc # "list" => fileNum = Len(fileName)
  /\ pc = "post" => fileNum > 0

LEMMA ListLength == Len(Order) \in Nat
BY FdmAssumption

LEMMA IndexInitially == Init => IndexInv
<1>. SUFFICES ASSUME Init PROVE IndexInv
  OBVIOUS
<1>1. stopped \in BOOLEAN /\ noticed \in BOOLEAN
  BY DEF Init, FdmInit
<1>. QED BY <1>1, ListLength, FdmAssumption DEF Init, FdmInit, IndexInv, FdmTypeOK, Jobs

LEMMA IndexStep == ASSUME IndexInv, FdmNext PROVE IndexInv'
<1>. USE ListLength, FdmAssumption DEF IndexInv, FdmTypeOK, counts, printer, history
<1>1. CASE GetFiles
  <2>1. CASE /\ fileName' \in Kept(Order, files \cap Printable)
             /\ TakeNumber(Len(fileName'))
             /\ pc' = "job"
             /\ UNCHANGED fails
    <3>1. fileName' \in Seq(files \cap Printable) /\ Len(fileName') \in 0 .. Len(Order)
      BY <2>1, KeptType
    <3>2. fileName' \in Seq(Printable)
      BY <3>1, SeqMonotonic
    <3>. QED BY <1>1, <2>1, <3>1, <3>2 DEF GetFiles, TakeNumber
  <2>2. CASE RequestFails /\ UNCHANGED <<fileName, counts, pc>>
    BY <1>1, <2>2 DEF GetFiles, RequestFails
  <2>. QED BY <1>1, <2>1, <2>2 DEF GetFiles
<1>2. CASE GetJob
  <2>1. loopState' \in 0 .. 1 /\ printState' \in 0 .. 1
    BY <1>2 DEF GetJob, cjson_analysisState, cjson_analysisPrintState
  <2>2. noticed' \in BOOLEAN
    BY <1>2 DEF GetJob
  <2>3. pc' \in {"post", "list"} /\ (pc' = "post" => fileNum > 0)
    BY <1>2 DEF GetJob
  <2>. QED BY <1>2, <2>1, <2>2, <2>3 DEF GetJob
<1>3. CASE JobUnknown
  BY <1>3 DEF JobUnknown, RequestFails
<1>4. CASE Post
  <2>1. state' \in {state, "Printing"} /\ job' \in Jobs
    BY <1>4, JobKinds DEF Post
  <2>. QED BY <1>4, <2>1 DEF Post
<1>5. CASE Printer
  BY <1>5 DEF Printer, Moves
<1>6. CASE User
  <2>1. UNCHANGED <<pc, fileName, counts, loopState, printState, fails>> /\ acts' \in 0 .. MaxActs
    BY <1>6 DEF User, Act
  <2>2. ASSUME NEW n \in files \cap Printable, UserPrints(Loop(n)) PROVE IndexInv'
    BY <2>1, <2>2, JobKinds DEF UserPrints
  <2>3. CASE UserPrints(Own)
    BY <2>1, <2>3, JobKinds DEF UserPrints
  <2>4. CASE UserCancels
    BY <2>1, <2>4 DEF UserCancels
  <2>5. CASE UserSwitches
    BY <2>1, <2>5 DEF UserSwitches
  <2>6. CASE UserStores
    BY <2>1, <2>6 DEF UserStores
  <2>. QED BY <1>6, <2>2, <2>3, <2>4, <2>5, <2>6 DEF User
<1>. QED BY <1>1, <1>2, <1>3, <1>4, <1>5, <1>6 DEF FdmNext, Program

LEMMA IndexStays == ASSUME IndexInv, [Next]_vars PROVE IndexInv'
<1>1. CASE UNCHANGED fdmVars
  BY <1>1 DEF IndexInv, FdmTypeOK, fdmVars, counts, printer, history
<1>. QED BY <1>1, IndexStep DEF Next, Fdm, Mail, vars

\* The name that is asked for is one of this round's names, however the number of files
\* changes between two rounds (usr01.h 445-499, 541-551).
THEOREM IndexFits == Spec => []IndexInRange
<1>1. IndexInv => IndexInRange
  BY DEF IndexInv, IndexInRange
<1>. QED BY IndexInitially, IndexStays, <1>1, PTL DEF Spec

-----------------------------------------------------------------------------
(* Both programs: the types. *)

\* Every variable keeps its type: above all, each name that has been read can be printed, and
\* an index that is kept over a round fits OctoPrint's list, for every folder and every set of
\* presses.
THEOREM TypesHold == Spec => []TypeOK
<1>. DEFINE Chosen == program \in {"autoFdmUsr01", "assistLdmUsr02"}
<1>1. Init => Chosen
  BY DEF Init
<1>2. Chosen /\ [Next]_vars => Chosen'
  BY DEF Next, Fdm, Mail, vars
<1>3. Chosen /\ MailInv /\ IndexInv => TypeOK
  BY DEF TypeOK, MailInv, IndexInv
<1>. QED BY MailInitially, MailStays, IndexInitially, IndexStays, <1>1, <1>2, <1>3, PTL DEF Spec

=============================================================================
