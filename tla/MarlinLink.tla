------------------------------ MODULE MarlinLink ------------------------------
(***************************************************************************)
(* The serial link between the DLP host and the Marlin motion board:       *)
(* 00.dlpUsr1/marlinHost.cpp with the receiver of DEV_Config_2.cpp, for    *)
(* one print job.                                                          *)
(*                                                                         *)
(* Three threads share the order list without a lock.  The motor thread    *)
(* (print, send_head) sends the head of the list again and again until it  *)
(* has gone; the receiver (Uart_REC) puts one reply line at a time into    *)
(* RevBuf3; the reply thread (thread_3) removes the head when it believes  *)
(* that the board has acknowledged it.  Every send ends in tcflush, which  *)
(* throws away what the host has not read yet and what the UART has not    *)
(* sent yet.                                                               *)
(*                                                                         *)
(* The list is what GM_Read loaded, and only its head is ever removed, so  *)
(* it is represented by the index of its head in Orders and by the         *)
(* order_status of that head.                                              *)
(***************************************************************************)
EXTENDS Naturals, Sequences, GMFile

CONSTANTS
  Lossy,      \* TRUE: tcflush discards something; FALSE: it never finds anything to discard
  Paced,      \* TRUE: the board replies within one resend period; FALSE: it may be slower
  MaxFlight   \* bound: lines and replies between the two ends when the host sends

ASSUME LinkAssumption ==
  /\ Lossy \in BOOLEAN
  /\ Paced \in BOOLEAN
  /\ MaxFlight \in Nat \ {0}

-----------------------------------------------------------------------------
(* Lines and replies. *)

Lines   == 0 .. FileLength        \* a line on the wire; Garbled stands for a damaged one
Garbled == 0

Ok       == [kind |-> "ok",       last |-> 0]
Resend   == [kind |-> "resend",   last |-> 0]
Checksum == [kind |-> "checksum", last |-> 0]
LineError(n) == [kind |-> "line", last |-> n]
Empty    == [kind |-> "empty",    last |-> 0]   \* uart3_sign = 0
Replies  == {Ok, Resend, Checksum} \cup {LineError(n) : n \in Lines}

VARIABLES
  head,          \* index of the first node of the order list
  order_status,  \* order_status of that node: 1 once it has been sent
  printing,      \* the motor thread is in print()
  wire,          \* lines written by the host and not yet read by the board
  cut,           \* the board holds the front of a line whose rest was flushed away
  last,          \* board: the last line number it accepted
  exec,          \* board: accepted lines it has not acknowledged
  completed,     \* board: the last line it finished
  replies,       \* reply lines the host has not read
  RevBuf3,       \* the reply line handed to the reply thread
  reply,         \* where the reply thread is
  next_flag,     \* thread_3: ignore the next ok
  Line_Last,     \* thread_3: line number in the board's last complaint
  Head_Last,     \* thread_3: _Line_Last, the head's number at that moment
  file_continue_flag  \* 1: the projector may show the next image

host     == <<head, order_status, printing>>
board    == <<last, exec, completed>>
judgment == <<next_flag, Line_Last, Head_Last>>
vars == <<host, wire, cut, board, replies, RevBuf3, reply, judgment, file_continue_flag>>

TypeOK ==
  /\ head \in 1 .. NumOrders + 1
  /\ order_status \in 0 .. 1
  /\ printing \in BOOLEAN
  /\ wire \in Seq(Lines)
  /\ cut \in BOOLEAN
  /\ last \in Lines
  /\ exec \in Seq(Lines)
  /\ completed \in Lines
  /\ replies \in Seq(Replies)
  /\ RevBuf3 \in Replies \cup {Empty}
  /\ reply \in {"poll", "fun2", "fun3"}
  /\ next_flag \in 0 .. 1
  /\ Line_Last \in Lines
  /\ Head_Last \in Lines
  /\ file_continue_flag \in 0 .. 1

\* print() has raised file_continue_flag and GM_Read has filled the list.
Init ==
  /\ head = 1 /\ order_status = 0 /\ printing = TRUE
  /\ wire = <<>> /\ cut = FALSE
  /\ last = 0 /\ exec = <<>> /\ completed = 0
  /\ replies = <<>> /\ RevBuf3 = Empty /\ reply = "poll"
  /\ next_flag = 0 /\ Line_Last = 0 /\ Head_Last = 0
  /\ file_continue_flag = 1

ListEmpty == head > NumOrders

-----------------------------------------------------------------------------
(* The motor thread. *)

Flight == Len(wire) + Len(exec) + Len(replies) + (IF RevBuf3 = Empty THEN 0 ELSE 1)

\* When the next send may come.  The period is flagFrequency * t; a board that is Paced
\* has said all it has to say by then, except that the reply thread may be exposing.
SendDue ==
  /\ Flight < MaxFlight
  /\ Paced => /\ wire = <<>> /\ exec = <<>>
              /\ (order_status = 1 /\ reply = "poll") => (replies = <<>> /\ RevBuf3 = Empty)

\* Unread replies that can survive tcflush.
AfterFlush ==
  IF ~Lossy THEN {replies}
  ELSE IF Paced THEN {<<>>}
  ELSE {SubSeq(replies, k + 1, Len(replies)) : k \in 0 .. Len(replies)}

\* serialPrintf and serialFlush.  The whole line goes out, or none of it, or its front.
SendWhole(n) ==
  /\ wire' = Append(wire, IF cut THEN Garbled ELSE n)
  /\ cut' = FALSE

SendNothing ==
  /\ Lossy
  /\ UNCHANGED <<wire, cut>>

SendFront ==
  /\ Lossy
  /\ cut' = TRUE
  /\ UNCHANGED wire

send(n) ==
  /\ replies' \in AfterFlush
  /\ SendWhole(n) \/ SendNothing \/ SendFront

\* send_head: the head is sent whatever its status, and marked as sent.  The counter
\* times is put back to 0 by every send, so its limit of 30 is never reached.
send_head ==
  /\ printing /\ ~ListEmpty
  /\ SendDue
  /\ order_status' = 1
  /\ send(Number(head))
  /\ UNCHANGED <<head, printing, board, RevBuf3, reply, judgment, file_continue_flag>>

\* send_head finds the list empty: print leaves its loop.
EndPrint ==
  /\ printing /\ ListEmpty
  /\ printing' = FALSE
  /\ UNCHANGED <<head, order_status, wire, cut, board, replies, RevBuf3, reply, judgment,
                 file_continue_flag>>

-----------------------------------------------------------------------------
(* The board, as the host's comments and parser describe it.  It reads ahead of what it *)
(* executes, so a complaint about a later line can come before an earlier ok.           *)

\* A complaint is the reason, Resend and one ok of its own.  After "Resend: 2" the comment
\* at marlinHost.cpp 583 shows two: the second is that of the first copy, still executing.
Complaint(n) ==
  <<IF n = Garbled THEN Checksum ELSE LineError(last), Resend, Ok>>

Acceptable(n) == n # Garbled /\ (n = last + 1 \/ GMCreat(n) = "M110")

BoardAccept ==
  /\ wire # <<>> /\ Acceptable(Head(wire))
  /\ wire' = Tail(wire)
  /\ last' = Head(wire)
  /\ exec' = Append(exec, Head(wire))
  /\ UNCHANGED <<host, cut, completed, replies, RevBuf3, reply, judgment, file_continue_flag>>

BoardRefuse ==
  /\ wire # <<>> /\ ~Acceptable(Head(wire))
  /\ wire' = Tail(wire)
  /\ replies' = replies \o Complaint(Head(wire))
  /\ UNCHANGED <<host, cut, board, RevBuf3, reply, judgment, file_continue_flag>>

BoardFinish ==
  /\ exec # <<>>
  /\ completed' = Head(exec)
  /\ exec' = Tail(exec)
  /\ replies' = Append(replies, Ok)
  /\ UNCHANGED <<host, wire, cut, last, RevBuf3, reply, judgment, file_continue_flag>>

-----------------------------------------------------------------------------
(* The receiver and the reply thread. *)

\* Uart_REC hands over one line once the reply thread is done with the last one.
Uart_REC ==
  /\ RevBuf3 = Empty /\ replies # <<>>
  /\ RevBuf3' = Head(replies)
  /\ replies' = Tail(replies)
  /\ UNCHANGED <<host, wire, cut, board, reply, judgment, file_continue_flag>>

\* view_command_head: the head; com still holds the last order once the list is empty.
view_command_head == IF ListEmpty THEN Number(NumOrders) ELSE Number(head)

Handles(kind) ==
  /\ reply = "poll" /\ RevBuf3.kind = kind
  /\ UNCHANGED <<printing, wire, cut, board, replies>>

delHeadGoods ==
  /\ head' = IF ListEmpty THEN head ELSE head + 1
  /\ order_status' = 0

HandleLineError ==
  /\ Handles("line")
  /\ Line_Last' = RevBuf3.last
  /\ Head_Last' = view_command_head
  /\ RevBuf3' = Empty
  /\ UNCHANGED <<head, order_status, next_flag, reply, file_continue_flag>>

\* Mutation: a checksum complaint does not stop the next ok from counting.
ForgetChecksum ==
  /\ Handles("checksum")
  /\ RevBuf3' = Empty
  /\ UNCHANGED <<head, order_status, judgment, reply, file_continue_flag>>

HandleChecksum ==
  /\ Handles("checksum")
  /\ next_flag' = 1
  /\ RevBuf3' = Empty
  /\ UNCHANGED <<head, order_status, Line_Last, Head_Last, reply, file_continue_flag>>

\* Mutation: every Resend cancels the next ok, whatever the line numbers say.
CancelOnResend ==
  /\ Handles("resend")
  /\ next_flag' = 1
  /\ RevBuf3' = Empty
  /\ UNCHANGED <<head, order_status, Line_Last, Head_Last, reply, file_continue_flag>>

HandleResend ==
  /\ Handles("resend")
  /\ next_flag' = IF Head_Last # Line_Last \/ compareSelf(view_command_head) \in {1, 3}
                  THEN 1 ELSE next_flag
  /\ RevBuf3' = Empty
  /\ UNCHANGED <<head, order_status, Line_Last, Head_Last, reply, file_continue_flag>>

\* Mutation: next_flag is not looked at.
AnyOk == ~ListEmpty /\ order_status = 1

\* Mutation: the ok counts for an order that was never sent.
UnsentOk == next_flag = 0 /\ ~ListEmpty

Acknowledged == next_flag = 0 /\ ~ListEmpty /\ order_status = 1

\* An ok that is not an acknowledgement: next_flag was raised, or nothing was sent.
IgnoreOk ==
  /\ Handles("ok")
  /\ ~Acknowledged
  /\ next_flag' = 0
  /\ RevBuf3' = Empty
  /\ UNCHANGED <<head, order_status, Line_Last, Head_Last, reply, file_continue_flag>>

\* An ok for an order without a wait; M107 also lets the projector go on (fun1).
TakeOk ==
  /\ Handles("ok") /\ Acknowledged
  /\ compareSelf(Number(head)) \in {0, 1, 4}
  /\ file_continue_flag' = IF compareSelf(Number(head)) = 4 THEN 1 ELSE file_continue_flag
  /\ delHeadGoods
  /\ RevBuf3' = Empty
  /\ UNCHANGED <<reply, judgment>>

\* An ok for M114 (fun2) or M106 (fun3): the order goes only after the wait.
StartWait ==
  /\ Handles("ok") /\ Acknowledged
  /\ \/ compareSelf(Number(head)) = 3 /\ reply' = "fun2"
     \/ compareSelf(Number(head)) = 2 /\ reply' = "fun3"
  /\ UNCHANGED <<head, order_status, RevBuf3, judgment, file_continue_flag>>

\* Mutation: fun2 only sleeps and does not wait for the projector.
EndAnyWait ==
  /\ reply # "poll"
  /\ reply' = "poll"
  /\ delHeadGoods
  /\ RevBuf3' = Empty
  /\ UNCHANGED <<printing, wire, cut, board, replies, judgment, file_continue_flag>>

\* fun2 returns when the projector has shown the image, fun3 when the exposure is over.
EndWait ==
  /\ reply = "fun3" \/ (reply = "fun2" /\ file_continue_flag # 1)
  /\ reply' = "poll"
  /\ delHeadGoods
  /\ RevBuf3' = Empty
  /\ UNCHANGED <<printing, wire, cut, board, replies, judgment, file_continue_flag>>

\* The projector (SLC_Read.cpp) shows an image and lowers the flag.
ShowImage ==
  /\ file_continue_flag = 1
  /\ file_continue_flag' = 0
  /\ UNCHANGED <<host, wire, cut, board, replies, RevBuf3, reply, judgment>>

-----------------------------------------------------------------------------
ReplyThread ==
  \/ HandleLineError \/ HandleChecksum \/ HandleResend
  \/ IgnoreOk \/ TakeOk \/ StartWait \/ EndWait

Next ==
  \/ send_head \/ EndPrint
  \/ BoardAccept \/ BoardRefuse \/ BoardFinish
  \/ Uart_REC \/ ReplyThread \/ ShowImage

Spec == Init /\ [][Next]_vars

\* Every thread runs for ever, the board serves its queue, and print() sends for ever:
\* of the sends made while the board holds no half line, not all are cut by tcflush.
Fairness ==
  /\ WF_vars(send_head) /\ WF_vars(EndPrint)
  /\ SF_vars(send_head /\ ~cut /\ SendWhole(Number(head)))
  /\ WF_vars(BoardAccept) /\ WF_vars(BoardRefuse) /\ WF_vars(BoardFinish)
  /\ WF_vars(Uart_REC) /\ WF_vars(ReplyThread) /\ WF_vars(ShowImage)

FairSpec == Spec /\ Fairness

-----------------------------------------------------------------------------
(* Properties. *)

\* The reply thread never removes an order, and never starts the wait or the exposure
\* that belongs to one, before the board has finished it (marlinHost.cpp 352-381, 622-651).
\* It is what the exposure times rest on.  It needs a board that is Paced.
AckedIsDone ==
  /\ head > 1 => Number(head - 1) <= completed
  /\ reply # "poll" => Number(head) <= completed

\* Every order that has left the list has reached the board or is still on the wire: when
\* tcflush discards nothing, early and doubled oks never make the host skip an order
\* (the test of order_status at marlinHost.cpp 628).
NotSkipped ==
  \A i \in 1 .. head - 1 :
    Number(i) <= last \/ \E k \in 1 .. Len(wire) : wire[k] = Number(i)

\* An exposure never starts before the projector has put up its image: the wait of M114
\* in fun2 keeps the reply thread and the file thread in step whatever the link does
\* (marlinHost.cpp 323-349, 635-646, SLC_Read.cpp 1105-1127).
ImageBeforeExposure == reply = "fun3" => file_continue_flag = 0

\* Seen from outside, the list delivers its orders to the board one at a time, in order.
InStep == INSTANCE OrderDelivery WITH taken <- head - 1, done <- completed
DeliversInStep == InStep!Spec

\* Despite lost and damaged lines the print gets through every line of the file: the
\* list comes down to the repeated last line (print, marlinHost.cpp 466-483).
ReachesLast == <>(head >= NumOrders)

\* The print ends by itself.  It does not: the board refuses the repeated last line as a
\* duplicate, and for G28 the reply thread never takes the ok that follows.
PrintEnds == <>(~printing)

=============================================================================
