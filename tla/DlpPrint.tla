------------------------------- MODULE DlpPrint -------------------------------
(***************************************************************************)
(* One DLP printer: the four threads that run a print and the two flags    *)
(* through which they talk, print_flag and file_continue_flag, neither of  *)
(* them under a lock (00.dlpUsr1).                                         *)
(*                                                                         *)
(*   HMI    thread_1 of HMI-Screen.cpp: start, pause, continue, stop       *)
(*   motor  thread_1 of marlinHost.cpp: print() sends the order list       *)
(*   reply  thread_3 of marlinHost.cpp: takes oks, waits, exposes, deletes *)
(*   file   thread_1 of SLC_Read.cpp: OpenSLC shows the images in turn     *)
(*                                                                         *)
(* The link is reduced to the oks that the board still owes; MarlinLink    *)
(* has the wire, the resends and the board's complaints.  There is no      *)
(* time: a sleep is a step that may come late.  A thread is "dead" when    *)
(* the process has crashed.                                                *)
(***************************************************************************)
EXTENDS GMFile

CONSTANTS
  Images,      \* images the SLC file yields: the base layers, then the contour layers
  Bottom,      \* buttom, the number of base layers
  MaxPresses   \* bound: presses of the user, and removals of the USB stick

\* Images is not tied to Layers: layer_z is a truncated division of the height (652), and the
\* contour layers are what the file holds.
ASSUME PrintAssumption ==
  /\ Images \in Nat \ {0}
  /\ Bottom \in Nat /\ Bottom <= Images
  /\ MaxPresses \in Nat

HomeOks == 3   \* home_z sends G28 three times

VARIABLES
  print_flag,          \* 0 stopped, 1 printing, 2 paused
  file_continue_flag,  \* 1: the next image may be shown
  hmi,                 \* where the HMI thread is
  print_flag_temp,     \* HMI: the value it is about to write to print_flag
  motor,               \* where the motor thread is
  head,                \* index of the head of the order list
  order_status,        \* 1: that order has been sent
  owed,                \* oks the board has still to give
  reply,               \* where the reply thread is
  print_path,          \* the file to print: an SLC file, one without a header, or gone
  slc,                 \* where the file thread is
  img,                 \* file thread: the image it works on
  shown,               \* picture in the frame buffer, 0 before the first
  presses,             \* presses so far
  clean                \* history: the print began from rest and was not stopped since

flags  == <<print_flag, file_continue_flag>>
screen == <<hmi, print_flag_temp, presses, print_path>>
list   == <<head, order_status>>
file   == <<slc, img, shown>>
vars == <<flags, screen, motor, list, owed, reply, file, clean>>

ListEmpty == head > NumOrders

\* The picture of image i: the base layers have the same one, a white screen.
Picture(i) == IF i <= Bottom THEN 1 ELSE i

TypeOK ==
  /\ print_flag \in 0 .. 2 /\ file_continue_flag \in 0 .. 1
  /\ hmi \in {"idle", "toggle", "stop", "dead"} /\ print_flag_temp \in 0 .. 2
  /\ presses \in 0 .. MaxPresses
  /\ motor \in {"idle", "begin", "judge", "again", "send", "drain", "end", "dead"}
  /\ head \in 1 .. NumOrders + 1 /\ order_status \in 0 .. 1
  /\ owed \in Nat
  /\ reply \in {"poll", "fun2", "fun3", "dead"}
  /\ print_path \in {"slc", "headless", "gone"}
  /\ slc \in {"wait", "load", "ready", "poll", "show", "lower", "quit", "dead"}
  /\ img \in 1 .. Images + 1 /\ shown \in 0 .. Images
  /\ clean \in BOOLEAN

\* thread_1 of marlinHost.cpp homes the axis before its loop.
Init ==
  /\ print_flag = 0 /\ file_continue_flag = 0
  /\ hmi = "idle" /\ print_flag_temp = 0 /\ presses = 0
  /\ motor = "idle" /\ head = NumOrders + 1 /\ order_status = 0 /\ owed = HomeOks
  /\ reply = "poll"
  /\ print_path \in {"slc", "headless"}
  /\ slc = "wait" /\ img = 1 /\ shown = 0
  /\ clean = FALSE

-----------------------------------------------------------------------------
(* The HMI thread. *)

Press ==
  /\ hmi = "idle" /\ presses < MaxPresses
  /\ presses' = presses + 1

\* PRINT_STOP starts, pauses and continues: print_flag is read ...
PRINT_STOP ==
  /\ Press
  /\ print_flag_temp' = IF print_flag = 2 THEN 1 ELSE print_flag + 1
  /\ hmi' = "toggle"
  /\ UNCHANGED <<flags, print_path, motor, list, owed, reply, file, clean>>

\* ... and written later, whatever another thread has written meanwhile.
WriteToggle ==
  /\ hmi = "toggle"
  /\ print_flag' = print_flag_temp
  /\ hmi' = "idle"
  /\ UNCHANGED <<file_continue_flag, print_flag_temp, presses, print_path, motor, list, owed,
                 reply, file, clean>>

\* PRINT_STOP_RETURN and page_file_show clear both flags, page_file_show_end only the first.
PRINT_STOP_RETURN ==
  /\ Press
  /\ print_flag' = 0
  /\ clean' = FALSE
  /\ hmi' \in {"stop", "idle"}
  /\ UNCHANGED <<file_continue_flag, print_flag_temp, print_path, motor, list, owed, reply,
                 file>>

WriteStop ==
  /\ hmi = "stop"
  /\ file_continue_flag' = 0
  /\ hmi' = "idle"
  /\ UNCHANGED <<print_flag, print_flag_temp, presses, print_path, motor, list, owed, reply,
                 file, clean>>

\* file_first to file_eight, on a page that is left before a print can be started.
file_get ==
  /\ Press
  /\ print_flag = 0
  /\ print_path' \in {"slc", "headless"}
  /\ UNCHANGED <<flags, hmi, print_flag_temp, motor, list, owed, reply, file, clean>>

\* Somebody pulls the USB stick out, between two images or while one is shown.
PullStick ==
  /\ presses < MaxPresses /\ presses' = presses + 1
  /\ print_path' = "gone"
  /\ UNCHANGED <<flags, hmi, print_flag_temp, motor, list, owed, reply, file, clean>>

-----------------------------------------------------------------------------
(* The motor thread. *)

Motor(here, next) == motor = here /\ motor' = next

\* Nothing of an earlier print is left over.
AtRest ==
  /\ reply = "poll" /\ owed = 0
  /\ hmi = "idle" /\ file_continue_flag = 0
  /\ slc = "wait" \/ (slc \in {"load", "ready", "poll"} /\ img = 1)

StartPrint ==
  /\ Motor("idle", "begin")
  /\ print_flag = 1
  /\ clean' = AtRest
  /\ UNCHANGED <<flags, screen, list, owed, reply, file>>

\* print() raises the flag and GM_Read fills the list.
print ==
  /\ Motor("begin", "judge")
  /\ file_continue_flag' = 1
  /\ head' = 1 /\ order_status' = 0
  /\ UNCHANGED <<print_flag, screen, owed, reply, file, clean>>

\* juge_print returns when it reads 1; it goes on reading while it reads 2.
JudgeGo ==
  /\ Motor("judge", "again")
  /\ print_flag = 1
  /\ UNCHANGED <<flags, screen, list, owed, reply, file, clean>>

\* When it reads 0 it lowers the flag and homes the axis.
JudgeStop ==
  /\ Motor("judge", "again")
  /\ print_flag = 0
  /\ file_continue_flag' = 0
  /\ owed' = owed + HomeOks
  /\ UNCHANGED <<print_flag, screen, list, reply, file, clean>>

\* Mutation: a pause is taken for a stop.
CheckRunning ==
  /\ motor = "again"
  /\ motor' = IF print_flag # 1 THEN "drain" ELSE "send"
  /\ UNCHANGED <<flags, screen, list, owed, reply, file, clean>>

\* print() looks at print_flag a second time, after juge_print.
CheckAgain ==
  /\ motor = "again"
  /\ motor' = IF print_flag = 0 THEN "drain" ELSE "send"
  /\ UNCHANGED <<flags, screen, list, owed, reply, file, clean>>

\* The first copy of an order earns an ok, unless it repeats the last line number.
send_head ==
  /\ Motor("send", "judge")
  /\ ~ListEmpty
  /\ order_status' = 1
  /\ owed' = IF order_status = 0 /\ head < NumOrders THEN owed + 1 ELSE owed
  /\ UNCHANGED <<flags, screen, head, reply, file, clean>>

EndOfList ==
  /\ Motor("send", "drain")
  /\ ListEmpty
  /\ UNCHANGED <<flags, screen, list, owed, reply, file, clean>>

\* delHeadGoods until the list is empty.
Drain ==
  /\ Motor("drain", "end")
  /\ head' = NumOrders + 1 /\ order_status' = 0
  /\ UNCHANGED <<flags, screen, owed, reply, file, clean>>

EndPrint ==
  /\ Motor("end", "idle")
  /\ print_flag' = 0
  /\ UNCHANGED <<file_continue_flag, screen, list, owed, reply, file, clean>>

-----------------------------------------------------------------------------
(* The reply thread. *)

Sent == ~ListEmpty /\ order_status = 1

\* Mutation: an order is counted off an empty list.
CountOff ==
  /\ head' = head + 1
  /\ order_status' = 0

delHeadGoods ==
  /\ head' = IF ListEmpty THEN head ELSE head + 1
  /\ order_status' = 0

TakeReply ==
  /\ reply = "poll" /\ owed > 0
  /\ owed' = owed - 1

IgnoreOk ==
  /\ TakeReply
  /\ ~Sent
  /\ UNCHANGED <<flags, screen, motor, list, reply, file, clean>>

\* An ok for an order without a wait; M107 lets the projector go on (fun1).
TakeOk ==
  /\ TakeReply
  /\ Sent /\ compareSelf(Number(head)) \in {0, 1, 4}
  /\ file_continue_flag' = IF compareSelf(Number(head)) = 4 THEN 1 ELSE file_continue_flag
  /\ delHeadGoods
  /\ UNCHANGED <<print_flag, screen, motor, reply, file, clean>>

\* An ok for M114 starts the wait for the projector (fun2).
StartWait ==
  /\ TakeReply
  /\ Sent /\ compareSelf(Number(head)) = 3
  /\ reply' = "fun2"
  /\ UNCHANGED <<flags, screen, motor, list, file, clean>>

\* An ok for M106 starts the exposure (fun3) ...
Expose ==
  /\ TakeReply
  /\ Sent /\ compareSelf(Number(head)) = 2
  /\ print_flag = 1
  /\ reply' = "fun3"
  /\ UNCHANGED <<flags, screen, motor, list, file, clean>>

\* ... unless the print is paused or stopped: fun3 then returns at once.
SkipExposure ==
  /\ TakeReply
  /\ Sent /\ compareSelf(Number(head)) = 2
  /\ print_flag # 1
  /\ delHeadGoods
  /\ UNCHANGED <<flags, screen, motor, reply, file, clean>>

\* Mutation: fun2 waits for the flag to be raised.
EndRaisedWait ==
  /\ reply = "fun3" \/ (reply = "fun2" /\ file_continue_flag = 1)
  /\ reply' = "poll"
  /\ delHeadGoods
  /\ UNCHANGED <<flags, screen, motor, owed, file, clean>>

\* The wait or the exposure ends, and what is the head by then leaves the list.
EndWait ==
  /\ reply = "fun3" \/ (reply = "fun2" /\ file_continue_flag # 1)
  /\ reply' = "poll"
  /\ delHeadGoods
  /\ UNCHANGED <<flags, screen, motor, owed, file, clean>>

-----------------------------------------------------------------------------
(* The file thread. *)

File(here, next) == slc = here /\ slc' = next

\* thread_1 opens the file whenever print_flag is not 0: for a new print, and again at the end
\* of the file.  Without a header OpenSLC returns at once with both flags as they were.
OpenSLC ==
  /\ File("wait", "load")
  /\ print_flag # 0 /\ print_path = "slc"
  /\ img' = 1
  /\ UNCHANGED <<flags, screen, motor, list, owed, reply, shown, clean>>

\* fopen fails, for the file is gone or the calls that found no header have used up the
\* descriptors: both flags go down, and fclose(NULL) ends the process.
OpenFails ==
  /\ slc = "wait"
  /\ print_flag # 0 /\ print_path # "slc"
  /\ print_flag' = 0 /\ file_continue_flag' = 0
  /\ hmi' = "dead" /\ motor' = "dead" /\ reply' = "dead" /\ slc' = "dead"
  /\ clean' = FALSE
  /\ UNCHANGED <<print_flag_temp, presses, print_path, list, owed, img, shown>>

\* A base layer: its picture is written and shown before the flag is looked at.
bmp_255 ==
  /\ File("load", "ready")
  /\ img <= Bottom
  /\ shown' = Picture(img)
  /\ UNCHANGED <<flags, screen, motor, list, owed, reply, img, clean>>

\* A contour layer: its picture is written, and shown only when the flag allows.
LoadImage ==
  /\ File("load", "ready")
  /\ img > Bottom /\ img <= Images
  /\ print_path # "gone"
  /\ UNCHANGED <<flags, screen, motor, list, owed, reply, img, shown, clean>>

EndOfFile ==
  /\ File("load", "quit")
  /\ img > Images
  /\ print_path # "gone"
  /\ UNCHANGED <<flags, screen, motor, list, owed, reply, img, shown, clean>>

\* access(), which the base layers do not call, misses the file: the print is stopped.
FileGone ==
  /\ File("load", "wait")
  /\ img > Bottom
  /\ print_path = "gone"
  /\ print_flag' = 0 /\ file_continue_flag' = 0
  /\ clean' = FALSE
  /\ UNCHANGED <<screen, motor, list, owed, reply, img, shown>>

\* The loop around file_continue_flag, which also looks for a stop.
PollContinue ==
  /\ slc = "ready"
  /\ slc' = IF file_continue_flag = 1 THEN "show" ELSE "poll"
  /\ UNCHANGED <<flags, screen, motor, list, owed, reply, img, shown, clean>>

\* Mutation: the loop around file_continue_flag does not look for a stop.
NoPollStop ==
  /\ File("poll", "ready")
  /\ UNCHANGED <<flags, screen, motor, list, owed, reply, img, shown, clean>>

PollStop ==
  /\ slc = "poll"
  /\ slc' = IF print_flag = 0 THEN "quit" ELSE "ready"
  /\ UNCHANGED <<flags, screen, motor, list, owed, reply, img, shown, clean>>

show_bmp ==
  /\ File("show", "lower")
  /\ shown' = Picture(img)
  /\ UNCHANGED <<flags, screen, motor, list, owed, reply, img, clean>>

\* Mutation: the flag is left up once the image is shown.
LeaveRaised ==
  /\ File("lower", "load")
  /\ img' = img + 1
  /\ UNCHANGED <<flags, screen, motor, list, owed, reply, shown, clean>>

\* The flag goes down, so that the next image waits; its picture is worked on meanwhile.
LowerFlag ==
  /\ File("lower", "load")
  /\ file_continue_flag' = 0
  /\ img' = img + 1
  /\ UNCHANGED <<print_flag, screen, motor, list, owed, reply, shown, clean>>

\* OpenSLC lowers the flag and returns; thread_1 opens the file again unless stopped.
QuitSLC ==
  /\ File("quit", "wait")
  /\ file_continue_flag' = 0
  /\ UNCHANGED <<print_flag, screen, motor, list, owed, reply, img, shown, clean>>

-----------------------------------------------------------------------------
User == PRINT_STOP \/ PRINT_STOP_RETURN \/ file_get \/ PullStick

Hmi == WriteToggle \/ WriteStop

MotorThread ==
  \/ StartPrint \/ print \/ JudgeGo \/ JudgeStop \/ CheckAgain
  \/ send_head \/ EndOfList \/ Drain \/ EndPrint

ReplyThread ==
  IgnoreOk \/ TakeOk \/ StartWait \/ Expose \/ SkipExposure \/ EndWait

FileThread ==
  \/ OpenSLC \/ OpenFails \/ bmp_255 \/ LoadImage \/ EndOfFile \/ FileGone
  \/ PollContinue \/ PollStop \/ show_bmp \/ LowerFlag \/ QuitSLC

Next == User \/ Hmi \/ MotorThread \/ ReplyThread \/ FileThread

Spec == Init /\ [][Next]_vars

\* The operating system runs every thread; nothing makes the user press.
Fairness ==
  /\ WF_vars(Hmi) /\ WF_vars(MotorThread)
  /\ WF_vars(ReplyThread) /\ WF_vars(FileThread)

FairSpec == Spec /\ Fairness

-----------------------------------------------------------------------------
(* Properties. *)

\* While a print that began from rest has not been stopped, the picture on the projector
\* during the k-th exposure is that of the k-th image of the file, however the user pauses and
\* continues and however late each thread runs.  Only the last image, when the file has base
\* layers, may have given way to the white picture, for at its end the file is opened again and
\* bmp_255 does not wait for the flag (marlinHost.cpp 317-349, SLC_Read.cpp 659-677, 813-860,
\* 1105-1127, 1143-1156).
ImageMatches ==
  LET k == Number(head) \div 5 IN
  clean /\ reply = "fun3" /\ k <= Images
    => \/ shown = Picture(k)
       \/ k = Images /\ Bottom > 0 /\ shown = Picture(1)

\* The motor thread and the reply thread free nodes of one list without a lock
\* (marlinHost.cpp 173-208, 486, 649).  In a print from rest that has not been stopped,
\* however it is paused and continued, they cannot do so at once: when the motor thread
\* starts to empty the list there is nothing left in it.
OneRemover == clean /\ motor = "drain" => ListEmpty

\* Once both flags are left down, every thread comes to rest with the list empty, unless
\* opening the file has failed and taken the process down: no wait, no exposure and no image
\* goes on.  print_flag alone is not enough: if print() sees the stop at line 469 and not in
\* juge_print, and the file thread is not there to show an image, the flag stays up and fun2
\* waits until the next print (marlinHost.cpp 323-326, 407-419, 466-488, SLC_Read.cpp 698-709,
\* 833-845, 1105-1118).
Quiet == motor = "idle" /\ ListEmpty /\ reply = "poll" /\ slc = "wait"
StopQuiets == <>[](print_flag = 0 /\ file_continue_flag = 0) => <>[](Quiet \/ motor = "dead")

\* A print of an SLC file that is left running from rest gets to the last line of the list.
RunsThrough ==
  <>[](clean /\ print_flag = 1 /\ print_path = "slc") => []<>(head >= NumOrders)

\* While a print from rest is printing or paused, an M106 leaves the list only after its
\* exposure (marlinHost.cpp 374: class 2 has an execution time to be kept).  It does not:
\* if the ok for M106 comes while the print is paused, the layer is not exposed.
ExposureTimed ==
  [][ clean /\ print_flag # 0 /\ head' = head + 1 /\ compareSelf(Number(head)) = 2
        => reply = "fun3" ]_vars

=============================================================================
