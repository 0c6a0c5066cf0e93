----------------------------- MODULE SlcService -----------------------------
(***************************************************************************)
(* The image service of dlpModule/SlcFileRead.  A CGI process (mult-post)  *)
(* writes a command into a FIFO and polls for the file that answers it;    *)
(* the SLC_Read process has three threads: the receiver (pthread_fifo)     *)
(* copies what it reads into str_fifo and raises fifoRecv, the analyser    *)
(* (pthread_analyse in main.cpp) carries the command out and renames the   *)
(* answer into place, and the main thread (OpenSLC) writes dst.bmp, one    *)
(* layer each time file_continue_flag is raised.                           *)
(*                                                                         *)
(* Nothing ties an answer to its request.  There is no time: the time-out  *)
(* of a CGI process may come whenever it finds no answer.                  *)
(***************************************************************************)
EXTENDS Naturals, Sequences, FiniteSets

CONSTANTS
  Clients,     \* CGI processes, each of which makes one request
  TotalLayers  \* layers of the SLC file; none if its header is bad

ASSUME ServiceAssumption ==
  /\ IsFiniteSet(Clients)
  /\ TotalLayers \in Nat

Commands == {"analyseNext", "exit"}
Strings  == Commands \cup {"none", "other"}   \* "other": no command, or two in one, or half of each

\* An answer: its kind and the LayerCurrent it names; bmp is history, the layer that
\* dst.bmp held when the answer was written.
NoAnswer == [kind |-> "none", LayerCurrent |-> 0, bmp |-> 0]
Exited   == [kind |-> "exit", LayerCurrent |-> 0, bmp |-> 0]
Answers  == [kind : {"none", "exit", "BMP_OK"}, LayerCurrent : 0 .. TotalLayers,
             bmp : 0 .. TotalLayers]

VARIABLES
  cgi,         \* per client: where it is
  command,     \* per client: what it has written into the FIFO, "none" before
  strs,        \* per client: the answer it has read
  seen,        \* per client, history: the layer in dst.bmp when it wrote its command
  fifo,        \* commands in the FIFO
  fifo_open,   \* the FIFO exists and has a reader
  recv,        \* where the receiver is
  buf,         \* what the receiver has read
  str_fifo, fifoRecv,
  analyser,    \* where the analyser is
  new,         \* SLC_ReadFifoBack_new
  back,        \* SLC_ReadFifoBack, NoAnswer when there is no such file
  file_continue_flag, LayerCurrent,
  slc,         \* where OpenSLC is
  bmp,         \* the layer in dst.bmp
  orderly      \* history: no request so far overlapped another or was given up

client  == <<cgi, command, strs, seen, orderly>>
channel == <<recv, buf, str_fifo, fifoRecv>>
reader  == <<slc, LayerCurrent, bmp>>
vars == <<client, fifo, fifo_open, channel, analyser, new, back, file_continue_flag, reader>>

TypeOK ==
  /\ cgi \in [Clients -> {"start", "poll", "read", "remove", "done", "crashed"}]
  /\ command \in [Clients -> Commands \cup {"none"}]
  /\ strs \in [Clients -> Answers]
  /\ seen \in [Clients -> 0 .. TotalLayers]
  /\ orderly \in BOOLEAN
  /\ fifo \in Seq(Commands) /\ fifo_open \in BOOLEAN
  /\ recv \in {"open", "read", "copy", "half", "raise"}
  /\ buf \in Strings /\ str_fifo \in Strings /\ fifoRecv \in 0 .. 1
  /\ analyser \in {"poll", "compare", "wait", "answer", "rename", "exit", "rename_exit", "die"}
  /\ new \in Answers /\ back \in Answers
  /\ file_continue_flag \in 0 .. 1
  /\ slc \in {"parse", "wait", "lower", "end", "gone"}
  /\ LayerCurrent \in 0 .. TotalLayers /\ bmp \in 0 .. TotalLayers

Init ==
  /\ cgi = [c \in Clients |-> "start"] /\ command = [c \in Clients |-> "none"]
  /\ strs = [c \in Clients |-> NoAnswer] /\ seen = [c \in Clients |-> 0]
  /\ orderly = TRUE
  /\ fifo = <<>> /\ fifo_open = FALSE
  /\ recv = "open" /\ buf = "none" /\ str_fifo = "none" /\ fifoRecv = 0
  /\ analyser = "poll" /\ new = NoAnswer /\ back = NoAnswer
  /\ file_continue_flag = 0
  /\ slc = "parse" /\ LayerCurrent = 0 /\ bmp = 0

alive == slc # "gone"

-----------------------------------------------------------------------------
(* A CGI process (mult-post.c). *)

Waiting == {c \in Clients : cgi[c] \in {"poll", "read", "remove"}}

\* fifo_write succeeds while the FIFO has a reader.
Post(c) ==
  /\ cgi[c] = "start" /\ fifo_open
  /\ \E cmd \in Commands :
       /\ fifo' = Append(fifo, cmd)
       /\ command' = [command EXCEPT ![c] = cmd]
  /\ cgi' = [cgi EXCEPT ![c] = "poll"]
  /\ seen' = [seen EXCEPT ![c] = bmp]
  /\ orderly' = (orderly /\ Waiting = {})
  /\ UNCHANGED <<strs, fifo_open, channel, analyser, new, back, file_continue_flag, reader>>

Client(c, here, next) ==
  /\ cgi[c] = here
  /\ cgi' = [cgi EXCEPT ![c] = next]
  /\ UNCHANGED <<command, seen, fifo, fifo_open, channel, analyser, new,
                 file_continue_flag, reader>>

\* It fails when there is none, and the page stays empty.
PostFails(c) ==
  /\ Client(c, "start", "done")
  /\ ~fifo_open
  /\ UNCHANGED <<strs, orderly, back>>

Found(c) ==
  /\ Client(c, "poll", "read")
  /\ back # NoAnswer
  /\ UNCHANGED <<strs, orderly, back>>

\* time_out is reached.
GiveUp(c) ==
  /\ Client(c, "poll", "done")
  /\ back = NoAnswer
  /\ orderly' = FALSE
  /\ UNCHANGED <<strs, back>>

ReadBack(c) ==
  /\ Client(c, "read", "remove")
  /\ back # NoAnswer
  /\ strs' = [strs EXCEPT ![c] = back]
  /\ UNCHANGED <<orderly, back>>

\* Another process was faster: fopen returns NULL and fgets is called with it.
ReadNull(c) ==
  /\ Client(c, "read", "crashed")
  /\ back = NoAnswer
  /\ UNCHANGED <<strs, orderly, back>>

RemoveBack(c) ==
  /\ Client(c, "remove", "done")
  /\ back' = NoAnswer
  /\ UNCHANGED <<strs, orderly>>

-----------------------------------------------------------------------------
(* The receiver (pthread_fifo.cpp). *)

Receiver(here, next) ==
  /\ alive
  /\ recv = here /\ recv' = next
  /\ UNCHANGED <<client, analyser, new, back, file_continue_flag, reader>>

OpenFifo ==
  /\ Receiver("open", "read")
  /\ fifo_open' = TRUE
  /\ UNCHANGED <<fifo, buf, str_fifo, fifoRecv>>

\* One read takes all there is: two commands come out as one string.
ReadFifo ==
  /\ Receiver("read", "copy")
  /\ fifo # <<>>
  /\ buf' = IF Len(fifo) = 1 THEN Head(fifo) ELSE "other"
  /\ fifo' = <<>>
  /\ UNCHANGED <<fifo_open, str_fifo, fifoRecv>>

\* strcpy: half way the string is neither the old nor the new one.
StartCopy ==
  /\ Receiver("copy", "half")
  /\ str_fifo' = IF str_fifo = buf THEN buf ELSE "other"
  /\ UNCHANGED <<fifo, fifo_open, buf, fifoRecv>>

EndCopy ==
  /\ Receiver("half", "raise")
  /\ str_fifo' = buf
  /\ UNCHANGED <<fifo, fifo_open, buf, fifoRecv>>

RaiseRecv ==
  /\ Receiver("raise", "read")
  /\ fifoRecv' = 1
  /\ UNCHANGED <<fifo, fifo_open, buf, str_fifo>>

-----------------------------------------------------------------------------
(* The analyser (pthread_analyse). *)

Analyser(here, next) ==
  /\ alive
  /\ analyser = here /\ analyser' = next
  /\ UNCHANGED <<client, fifo, recv, buf, str_fifo, LayerCurrent, bmp>>

\* Mutation: fifoRecv is not put back.
KeepRecv ==
  /\ Analyser("poll", "compare")
  /\ fifoRecv = 1
  /\ UNCHANGED <<fifoRecv, fifo_open, new, back, file_continue_flag, slc>>

TakeRecv ==
  /\ Analyser("poll", "compare")
  /\ fifoRecv = 1
  /\ fifoRecv' = 0
  /\ UNCHANGED <<fifo_open, new, back, file_continue_flag, slc>>

analyseNext ==
  /\ Analyser("compare", "wait")
  /\ str_fifo = "analyseNext"
  /\ file_continue_flag' = 1
  /\ UNCHANGED <<fifoRecv, fifo_open, new, back, slc>>

CompareExit ==
  /\ Analyser("compare", "exit")
  /\ str_fifo = "exit"
  /\ UNCHANGED <<fifoRecv, fifo_open, new, back, file_continue_flag, slc>>

CompareOther ==
  /\ Analyser("compare", "poll")
  /\ str_fifo \notin Commands
  /\ UNCHANGED <<fifoRecv, fifo_open, new, back, file_continue_flag, slc>>

\* Mutation: the answer does not wait for the image.
AnswerAtOnce ==
  /\ Analyser("wait", "answer")
  /\ UNCHANGED <<fifoRecv, fifo_open, new, back, file_continue_flag, slc>>

WaitForImage ==
  /\ Analyser("wait", "answer")
  /\ file_continue_flag # 1
  /\ UNCHANGED <<fifoRecv, fifo_open, new, back, file_continue_flag, slc>>

\* LayerCurrent is read only now: OpenSLC may be at the next layer.
WriteAnswer ==
  /\ Analyser("answer", "rename")
  /\ new' = [kind |-> "BMP_OK", LayerCurrent |-> LayerCurrent, bmp |-> bmp]
  /\ UNCHANGED <<fifoRecv, fifo_open, back, file_continue_flag, slc>>

RenameAnswer ==
  /\ Analyser("rename", "poll")
  /\ back' = new /\ new' = NoAnswer
  /\ UNCHANGED <<fifoRecv, fifo_open, file_continue_flag, slc>>

WriteExit ==
  /\ Analyser("exit", "rename_exit")
  /\ new' = Exited
  /\ UNCHANGED <<fifoRecv, fifo_open, back, file_continue_flag, slc>>

RenameExit ==
  /\ Analyser("rename_exit", "die")
  /\ back' = new /\ new' = NoAnswer
  /\ UNCHANGED <<fifoRecv, fifo_open, file_continue_flag, slc>>

\* rm of the FIFO, then exit(0), which ends all three threads.
Exit ==
  /\ Analyser("die", "die")
  /\ fifo_open' = FALSE
  /\ slc' = "gone"
  /\ UNCHANGED <<fifoRecv, new, back, file_continue_flag>>

-----------------------------------------------------------------------------
(* The main thread (OpenSLC). *)

Reader(here, next) ==
  /\ slc = here /\ slc' = next
  /\ UNCHANGED <<client, fifo, channel, analyser, new, back>>

\* Mutation: the terminator of the file is not looked at.
ParseOn ==
  /\ Reader("parse", "wait")
  /\ LayerCurrent' = LayerCurrent + 1
  /\ UNCHANGED <<fifo_open, file_continue_flag, bmp>>

ParseLayer ==
  /\ Reader("parse", "wait")
  /\ LayerCurrent < TotalLayers
  /\ LayerCurrent' = LayerCurrent + 1
  /\ UNCHANGED <<fifo_open, file_continue_flag, bmp>>

\* The terminator of the file, or a bad header.
EndOfFile ==
  /\ Reader("parse", "end")
  /\ LayerCurrent = TotalLayers
  /\ UNCHANGED <<fifo_open, file_continue_flag, LayerCurrent, bmp>>

\* Mutation: the image is written without being asked for.
WriteUnasked ==
  /\ Reader("wait", "lower")
  /\ bmp' = LayerCurrent
  /\ UNCHANGED <<fifo_open, file_continue_flag, LayerCurrent>>

imwrite ==
  /\ Reader("wait", "lower")
  /\ file_continue_flag = 1
  /\ bmp' = LayerCurrent
  /\ UNCHANGED <<fifo_open, file_continue_flag, LayerCurrent>>

\* Mutation: the flag is left up once the image is written.
LeaveRaised ==
  /\ Reader("lower", "parse")
  /\ UNCHANGED <<fifo_open, file_continue_flag, LayerCurrent, bmp>>

LowerFlag ==
  /\ Reader("lower", "parse")
  /\ file_continue_flag' = 0
  /\ UNCHANGED <<fifo_open, LayerCurrent, bmp>>

\* rm of the FIFO, and main returns: an answer that is not renamed yet never will be.
Return ==
  /\ Reader("end", "gone")
  /\ fifo_open' = FALSE
  /\ UNCHANGED <<file_continue_flag, LayerCurrent, bmp>>

-----------------------------------------------------------------------------
Cgi(c) == Found(c) \/ ReadBack(c) \/ ReadNull(c) \/ RemoveBack(c)

ReceiverThread == OpenFifo \/ ReadFifo \/ StartCopy \/ EndCopy \/ RaiseRecv

AnalyserThread ==
  \/ TakeRecv \/ analyseNext \/ CompareExit \/ CompareOther \/ WaitForImage
  \/ WriteAnswer \/ RenameAnswer \/ WriteExit \/ RenameExit \/ Exit

ReaderThread == ParseLayer \/ EndOfFile \/ imwrite \/ LowerFlag \/ Return

Next ==
  \/ \E c \in Clients : Post(c) \/ PostFails(c) \/ GiveUp(c) \/ Cgi(c)
  \/ ReceiverThread \/ AnalyserThread \/ ReaderThread

Spec == Init /\ [][Next]_vars

\* Every thread runs; nobody has to make a request or to lose patience.
Fairness ==
  /\ \A c \in Clients : WF_vars(Cgi(c))
  /\ WF_vars(ReceiverThread) /\ WF_vars(AnalyserThread) /\ WF_vars(ReaderThread)

FairSpec == Spec /\ Fairness

-----------------------------------------------------------------------------
(* Properties. *)

\* Each image was asked for: however requests overlap, are merged in the FIFO or overwrite
\* each other in str_fifo, OpenSLC has written no more layers than there were commands (main.cpp
\* 226-249, pthread_fifo.cpp 51-62, SLC_Read.cpp 710-715).  It may be one more than there were
\* calls of analyseNext: a command that overtakes an exit in str_fifo is carried out twice.
NoExtraImage == bmp <= Cardinality({c \in Clients : command[c] # "none"})

\* As long as requests come one at a time and none is given up, dst.bmp stays as it is from
\* the moment its answer is written until the client has taken it, although OpenSLC goes on
\* parsing: the layer that the answer names may already be the next one (main.cpp 236-249,
\* SLC_Read.cpp 710-715).
ImageStays ==
  orderly =>
    \A a \in {new, back} :
      a.kind = "BMP_OK" => a.bmp = bmp /\ a.LayerCurrent \in {bmp, bmp + 1}

\* Under the same condition the answer a client gets is to its own request: it is of the kind
\* asked for, and dst.bmp has gone one layer further (mult-post.c 66-107).  Overlapping
\* clients take each other's answers.
OwnAnswer ==
  orderly =>
    \A c \in Clients :
      /\ cgi[c] # "crashed"
      /\ strs[c] # NoAnswer =>
           IF command[c] = "exit"
           THEN strs[c].kind = "exit"
           ELSE strs[c].kind = "BMP_OK" /\ strs[c].bmp = seen[c] + 1

\* Such a request is answered, unless it is for the last layer or follows an exit: then the
\* process may be gone before the answer is renamed (main.cpp 249, 261-268, 366-373).
Answerable(c) ==
  /\ cgi[c] = "poll" /\ orderly
  /\ \A d \in Clients \ {c} : command[d] # "exit"
  /\ command[c] = "exit" \/ seen[c] + 1 < TotalLayers

Answered == \A c \in Clients : Answerable(c) ~> (cgi[c] = "done" \/ ~orderly)

=============================================================================
