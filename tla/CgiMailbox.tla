------------------------------ MODULE CgiMailbox ------------------------------
(***************************************************************************)
(* A switch of the assistant LDM printer (02.assistLdm/usr02.h) and the    *)
(* CGI processes that work it (www/FIFO_TEST/cgi-bin): ultrasound, reset   *)
(* and pressure each have a FIFO for the requests, a thread that turns a   *)
(* flag at every read of it, and one file for the answer.  The three are   *)
(* alike and share nothing; this is one of them.                           *)
(*                                                                         *)
(* A read takes all the requests that wait, as one.  A process looks for   *)
(* the file of the answer, opens it and removes it in three steps, and     *)
(* gives up after a thousand looks; nothing says whose answer it is.       *)
(***************************************************************************)
EXTENDS Naturals

CONSTANT Clients   \* CGI processes, one for each press of the button

NoFile == "nofile"

VARIABLES
  listening,   \* the thread has opened the FIFO
  fifo,        \* processes whose request is in the FIFO
  flag,
  outfile,     \* the answer before it gets its name
  thread,      \* "read" or "rename"
  back,        \* the file of the answer
  cgi,         \* where each process is
  strs,        \* what each process has read
  own,         \* history: the answer that was made for the request of each process
  disturbed    \* history: requests overlapped, or an answer was left behind

switch == <<listening, fifo, flag, outfile, thread>>
client == <<cgi, strs>>
mailVars == <<switch, back, client, own, disturbed>>

Answers == {"0", "1"}
Text(f) == IF f = 0 THEN "0" ELSE "1"
Working == {"look", "open", "remove"}

MailTypeOK ==
  /\ listening \in BOOLEAN /\ fifo \subseteq Clients
  /\ flag \in 0 .. 1 /\ outfile \in Answers /\ thread \in {"read", "rename"}
  /\ back \in Answers \cup {NoFile}
  /\ cgi \in [Clients -> Working \cup {"start", "done", "gone", "crashed"}]
  /\ strs \in [Clients -> Answers \cup {NoFile}]
  /\ own \in [Clients -> Answers \cup {NoFile}]
  /\ disturbed \in BOOLEAN

\* The file of an earlier run of the program may still be there.
MailInit ==
  /\ listening = FALSE /\ fifo = {} /\ flag = 0 /\ outfile = "0" /\ thread = "read"
  /\ back \in Answers \cup {NoFile}
  /\ cgi = [c \in Clients |-> "start"] /\ strs = [c \in Clients |-> NoFile]
  /\ own = [c \in Clients |-> NoFile]
  /\ disturbed = (back # NoFile)

-----------------------------------------------------------------------------
(* The thread. *)

Listen ==
  /\ ~listening /\ listening' = TRUE
  /\ UNCHANGED <<fifo, flag, outfile, thread, back, client, own, disturbed>>

\* Nothing to read: the loop goes round.
Spin == listening /\ thread = "read" /\ fifo = {} /\ UNCHANGED mailVars

\* Mutation: nothing is answered when the switch is turned back.
ReceiveOneWay ==
  /\ listening /\ thread = "read" /\ fifo # {}
  /\ fifo' = {}
  /\ outfile' = Text(flag) /\ flag' = 1 - flag
  /\ own' = [c \in Clients |-> IF c \in fifo THEN Text(flag) ELSE own[c]]
  /\ thread' = IF flag = 0 THEN "rename" ELSE "read"
  /\ UNCHANGED <<listening, back, client, disturbed>>

Receive ==
  /\ listening /\ thread = "read" /\ fifo # {}
  /\ fifo' = {}
  /\ outfile' = Text(flag) /\ flag' = 1 - flag
  /\ own' = [c \in Clients |-> IF c \in fifo THEN Text(flag) ELSE own[c]]
  /\ thread' = "rename"
  /\ UNCHANGED <<listening, back, client, disturbed>>

Rename ==
  /\ thread = "rename"
  /\ back' = outfile
  /\ thread' = "read"
  /\ UNCHANGED <<listening, fifo, flag, outfile, client, own, disturbed>>

Switch == Listen \/ Spin \/ Receive \/ Rename

-----------------------------------------------------------------------------
(* A CGI process. *)

Goes(c, from, to) == cgi[c] = from /\ cgi' = [cgi EXCEPT ![c] = to]

\* Without a reader the FIFO cannot be opened for writing; the process goes on.
fifo_write(c) ==
  /\ Goes(c, "start", "look")
  /\ fifo' = IF listening THEN fifo \cup {c} ELSE fifo
  /\ disturbed' = (disturbed \/ \E d \in Clients : cgi[d] \in Working)
  /\ UNCHANGED <<listening, flag, outfile, thread, back, strs, own>>

Find(c) == Goes(c, "look", "open") /\ back # NoFile
           /\ UNCHANGED <<switch, back, strs, own, disturbed>>

\* Its answer comes later, if its request was written.
GiveUp(c) ==
  /\ Goes(c, "look", "gone") /\ back = NoFile
  /\ disturbed' = (disturbed \/ c \in fifo \/ own[c] # NoFile)
  /\ UNCHANGED <<switch, back, strs, own>>

\* fgets of a file that could not be opened ends the process.
Open(c) ==
  /\ \/ back # NoFile /\ Goes(c, "open", "remove") /\ strs' = [strs EXCEPT ![c] = back]
     \/ back = NoFile /\ Goes(c, "open", "crashed") /\ UNCHANGED strs
  /\ UNCHANGED <<switch, back, own, disturbed>>

\* Mutation: the file is left where it is.
LeaveBack(c) == Goes(c, "remove", "done")
                /\ UNCHANGED <<switch, back, strs, own, disturbed>>

Remove(c) == Goes(c, "remove", "done") /\ back' = NoFile
             /\ UNCHANGED <<switch, strs, own, disturbed>>

\* What a process does once there is an answer.
Collect(c) == Find(c) \/ Open(c) \/ Remove(c)

Client(c) == fifo_write(c) \/ GiveUp(c) \/ Collect(c)

MailNext == Switch \/ \E c \in Clients : Client(c)

MailSpec == MailInit /\ [][MailNext]_mailVars

-----------------------------------------------------------------------------
(* As long as no two processes are at work at once and nobody has given up  *)
(* on an answer, each process ends with the answer to its own press: what   *)
(* the button then says is what its press has done.                         *)
OwnToggle ==
  ~disturbed => \A c \in Clients :
                  /\ strs[c] # NoFile => strs[c] = own[c]
                  /\ cgi[c] # "crashed"

(* A request that has been written is answered, and its process ends with   *)
(* the answer, unless it gives up or is disturbed.                          *)
Served ==
  \A c \in Clients :
    (cgi[c] = "look" /\ (c \in fifo \/ own[c] # NoFile))
      ~> (cgi[c] \in {"done", "gone"} \/ disturbed)

=============================================================================
