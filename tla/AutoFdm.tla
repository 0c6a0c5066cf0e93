-------------------------------- MODULE AutoFdm --------------------------------
(***************************************************************************)
(* The loop of the automatic FDM printer (01.autoFdm/usr01.h,              *)
(* autoFdmUsr01): every few seconds OctoPrint is asked for the files of    *)
(* the folder "loop" and for its job; once a file of the folder is seen    *)
(* printing, the program starts the files one after the other whenever the *)
(* printer is free, until it sees such a print being cancelled.            *)
(*                                                                         *)
(* Between the two questions and the order to print the printer goes on    *)
(* and the user acts, so that each answer may be old when it is used.      *)
(* OctoPrint refuses to start a print when it is not "Operational".        *)
(***************************************************************************)
EXTENDS Naturals, Sequences, Listing

CONSTANTS
  Order,       \* names of files, in the order OctoPrint lists them
  Printable,   \* names with one of the extensions gcode, gco, g
  Long,        \* names too long to be kept inside a std::string
  MaxActs,     \* bound: what the user does
  MaxFails     \* bound: requests that bring back no JSON

Names == {Order[i] : i \in DOMAIN Order}
None  == <<"none">>
Own   == <<"local", "own">>          \* a file outside the folder
Loop(n) == <<"loop", n>>
Jobs  == {Loop(n) : n \in Names} \cup {Own, None}

ASSUME FdmAssumption ==
  /\ Order \in Seq(Names) /\ Printable \subseteq Names /\ Long \subseteq Names
  /\ MaxActs \in Nat /\ MaxFails \in Nat

VARIABLES
  state, job,             \* of the printer: state and job.file.path
  files,                  \* in the folder
  pc,                     \* "list", "job", "post"
  fileName,               \* names read in this round
  fileNum, fileNumLast, fileIndex,
  loopState,              \* fileState of cjson_analysisState: go on in the loop
  printState,             \* fileState of cjson_analysisPrintState: busy
  acts, fails,
  stopped, noticed        \* history: the user has cancelled the loop; the program has seen it

printer == <<state, job>>
counts  == <<fileNum, fileNumLast, fileIndex>>
history == <<stopped, noticed>>
fdmVars == <<printer, files, pc, fileName, counts, loopState, printState, acts, fails, history>>

FdmTypeOK ==
  /\ state \in {"Operational", "Printing", "Paused", "Finishing", "Cancelling", "Offline"}
  /\ job \in Jobs /\ files \subseteq Names
  /\ pc \in {"list", "job", "post"} /\ fileName \in Seq(Printable)
  /\ fileNum \in 0 .. Len(Order) /\ fileNumLast \in 0 .. Len(Order)
  /\ fileIndex \in 0 .. Len(Order)
  /\ loopState \in 0 .. 1 /\ printState \in 0 .. 1
  /\ acts \in 0 .. MaxActs /\ fails \in 0 .. MaxFails
  /\ stopped \in BOOLEAN /\ noticed \in BOOLEAN

FdmInit ==
  /\ state = "Operational" /\ job = None /\ files \in SUBSET Names
  /\ pc = "list" /\ fileName = <<>>
  /\ fileNum = 0 /\ fileNumLast = 0 /\ fileIndex = 0
  /\ loopState = 0 /\ printState = 0
  /\ acts = 0 /\ fails = 0 /\ stopped = FALSE /\ noticed = FALSE

-----------------------------------------------------------------------------
(* The program. *)

RequestFails == fails < MaxFails /\ fails' = fails + 1

\* Mutation: the index is kept when the number of files changes.
KeepIndex(n) == fileNum' = n /\ fileNumLast' = n /\ UNCHANGED fileIndex

\* A new number of files puts the index back.
TakeNumber(n) ==
  /\ fileNum' = n /\ fileNumLast' = n
  /\ fileIndex' = IF fileNumLast # n THEN 0 ELSE fileIndex

\* Mutation: the extensions are not looked at.
GetFilesUnfiltered ==
  /\ pc = "list"
  /\ \/ /\ fileName' \in Kept(Order, files)
        /\ TakeNumber(Len(fileName'))
        /\ pc' = "job"
        /\ UNCHANGED fails
     \/ RequestFails /\ UNCHANGED <<fileName, counts, pc>>
  /\ UNCHANGED <<printer, files, loopState, printState, acts, history>>

\* Without a list the round ends, and the job is not looked at.
GetFiles ==
  /\ pc = "list"
  /\ \/ /\ fileName' \in Kept(Order, files \cap Printable)
        /\ TakeNumber(Len(fileName'))
        /\ pc' = "job"
        /\ UNCHANGED fails
     \/ RequestFails /\ UNCHANGED <<fileName, counts, pc>>
  /\ UNCHANGED <<printer, files, loopState, printState, acts, history>>

\* Mutation: the end of a cancelled print does not end the loop.
IgnoreCancelling ==
  loopState' = IF job[1] = "loop" /\ state = "Printing" THEN 1 ELSE loopState

\* What the answer does to the two static variables; other states and jobs
\* leave them as they are.
cjson_analysisState ==
  loopState' = IF job[1] # "loop" THEN loopState
               ELSE IF state = "Printing" THEN 1
               ELSE IF state = "Cancelling" THEN 0
               ELSE loopState

cjson_analysisPrintState ==
  printState' = IF state \in {"Printing", "Finishing"} THEN 1
                ELSE IF state = "Operational" THEN 0
                ELSE printState

\* "goto init" after an answer that is not JSON or says "Offline".
JobUnknown ==
  /\ pc = "job"
  /\ \/ state = "Offline" /\ UNCHANGED fails
     \/ RequestFails
  /\ fileNum' = 0 /\ fileNumLast' = 0
  /\ pc' = "list"
  /\ UNCHANGED <<printer, files, fileName, fileIndex, loopState, printState, acts, history>>

GetJob ==
  /\ pc = "job" /\ state # "Offline"
  /\ cjson_analysisState
  /\ \/ /\ job # None /\ loopState' = 1 /\ fileNum > 0
        /\ cjson_analysisPrintState
        /\ pc' = IF printState' = 0 THEN "post" ELSE "list"
     \/ /\ ~(job # None /\ loopState' = 1 /\ fileNum > 0)
        /\ pc' = "list"
        /\ UNCHANGED printState
  /\ noticed' = (noticed \/ (state = "Cancelling" /\ job[1] = "loop"))
  /\ UNCHANGED <<printer, files, fileName, counts, acts, fails, stopped>>

\* Mutation: the index goes on only when the last file has been printed.
PostSame ==
  /\ pc = "post"
  /\ LET name == fileName[fileIndex + 1] IN
       \/ name \in files /\ state = "Operational" /\ state' = "Printing" /\ job' = Loop(name)
       \/ (name \notin files \/ state # "Operational") /\ UNCHANGED printer
  /\ fileIndex' = IF fileIndex + 1 >= fileNum THEN 0 ELSE fileIndex
  /\ pc' = "list"
  /\ UNCHANGED <<files, fileName, fileNum, fileNumLast, loopState, printState, acts, fails,
                 history>>

\* fileName has been cleared: a name inside the string object is still there, a
\* longer one is in memory given back.  The answer is not looked at.
Post ==
  /\ pc = "post"
  /\ LET name == fileName[fileIndex + 1] IN
       \/ name \in files /\ state = "Operational" /\ state' = "Printing" /\ job' = Loop(name)
       \/ /\ name \notin files \/ state # "Operational" \/ name \in Long
          /\ UNCHANGED printer
  /\ fileIndex' = IF fileIndex + 1 >= fileNum THEN 0 ELSE fileIndex + 1
  /\ pc' = "list"
  /\ UNCHANGED <<files, fileName, fileNum, fileNumLast, loopState, printState, acts, fails,
                 history>>

Program == GetFiles \/ GetJob \/ JobUnknown \/ Post

-----------------------------------------------------------------------------
(* The printer and the user. *)

Moves(from, to) == state = from /\ state' = to
                   /\ UNCHANGED <<job, files, pc, fileName, counts, loopState, printState,
                                  acts, fails, history>>

Printer == \/ Moves("Printing", "Finishing")
           \/ Moves("Finishing", "Operational")
           \/ Moves("Cancelling", "Operational")

Act == acts < MaxActs /\ acts' = acts + 1
       /\ UNCHANGED <<pc, fileName, counts, loopState, printState, fails>>

\* Loading a file to print it is one request.
UserPrints(j) ==
  /\ state = "Operational"
  /\ state' = "Printing" /\ job' = j
  /\ stopped' = (stopped /\ j = Own)
  /\ UNCHANGED <<files, noticed>>

UserCancels ==
  /\ state \in {"Printing", "Paused"}
  /\ state' = "Cancelling"
  /\ \/ job = Own /\ UNCHANGED history
     \/ job # Own /\ stopped' = TRUE /\ noticed' = FALSE
  /\ UNCHANGED <<job, files>>

UserSwitches ==
  /\ \/ state = "Printing" /\ state' = "Paused"
     \/ state = "Paused" /\ state' = "Printing"
     \/ state = "Operational" /\ state' = "Offline"
     \/ state = "Offline" /\ state' = "Operational"
  /\ UNCHANGED <<job, files, history>>

UserStores ==
  /\ \E n \in Names : files' = IF n \in files THEN files \ {n} ELSE files \cup {n}
  /\ UNCHANGED <<printer, history>>

User == Act /\ \/ \E n \in files \cap Printable : UserPrints(Loop(n))
               \/ UserPrints(Own)
               \/ UserCancels \/ UserSwitches \/ UserStores

FdmNext == Program \/ Printer \/ User

FdmSpec == FdmInit /\ [][FdmNext]_fdmVars

-----------------------------------------------------------------------------
(* The name that is asked for is one of this round's names: the index never *)
(* points past the list, however the number of files changes.               *)
IndexInRange == pc = "post" => fileIndex < Len(fileName)

(* After the program has seen the user cancel a print of the folder it      *)
(* starts nothing until the user prints a file of the folder again.         *)
CancelStops ==
  [][pc = "post" /\ state = "Operational" /\ state' = "Printing" => ~(stopped /\ noticed)]_fdmVars

(* While the loop goes on and the printer is neither paused nor offline,    *)
(* every file of the folder is printed again and again, the ones with long  *)
(* names excepted.                                                          *)
EveryFileRuns ==
  \A n \in Printable \ Long :
    <>[](loopState = 1 /\ n \in files /\ state \notin {"Paused", "Offline"})
      => []<>(state = "Printing" /\ job = Loop(n))

=============================================================================
