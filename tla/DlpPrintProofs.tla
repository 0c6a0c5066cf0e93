---------------------------- MODULE DlpPrintProofs ----------------------------
(***************************************************************************)
(* Theorems about the threads of one print, for every number of layers and *)
(* of images and every number of presses.                                  *)
(***************************************************************************)
EXTENDS DlpPrint, GMFileProofs

-----------------------------------------------------------------------------
(* How often the projector is let go on. *)

\* How often the projector has been let go on when order h is the head: at the start of the
\* print and by each M107 before h.
Raises(h) == IF h = 1 THEN 1 ELSE (h + 3) \div 5

LEMMA RaisesType ==
  /\ Raises(1) = 1 /\ Raises(NumOrders + 1) = Layers + 2
  /\ \A h \in 1 .. NumOrders + 1 : Raises(h) \in Nat /\ Raises(h) >= 1
BY LayersAssumption DEF Raises, NumOrders, FileLength

\* Only an M107 changes it.
LEMMA RaisesStep ==
  ASSUME NEW h \in Orders
  PROVE  Raises(h + 1) = IF Class(h) = 4 THEN Raises(h) + 1 ELSE Raises(h)
<1>1. CASE h \in 1 .. FileLength
  <2>1. Class(h) = compareSelf(h)
    BY <1>1 DEF Class, Number
  <2>2. CASE h = 1
    BY <2>1, <2>2, FirstClass DEF Raises
  <2>3. CASE h = 2
    <3>1. Class(h) # 4
      BY <2>1, <2>3, <1>1, ClassOfLine
    <3>. QED BY <3>1, <2>3 DEF Raises
  <2>4. CASE h = FileLength
    <3>1. Class(h) # 4
      BY <2>1, <2>4, <1>1, ClassOfLine
    <3>2. Raises(h + 1) = Raises(h)
      BY <2>4, LayersAssumption DEF Raises, FileLength
    <3>. QED BY <3>1, <3>2
  <2>5. CASE h \notin {1, 2, FileLength}
    <3>1. Class(h) = 4 <=> h % 5 = 1
      BY <2>1, <2>5, <1>1, ClassOfLine
    <3>2. h \in Nat /\ h > 2
      BY <2>5, <1>1, FileLengthNat
    <3>3. (h + 4) \div 5 = IF h % 5 = 1 THEN (h + 3) \div 5 + 1 ELSE (h + 3) \div 5
      BY <3>2
    <3>. QED BY <3>1, <3>2, <3>3 DEF Raises
  <2>. QED BY <2>2, <2>3, <2>4, <2>5
<1>2. CASE h = NumOrders
  <2>1. Class(h) # 4
    BY <1>2, ClassOfLine, FileLengthNat DEF Class, Number, NumOrders
  <2>2. Raises(h + 1) = Raises(h)
    BY <1>2, LayersAssumption DEF Raises, NumOrders, FileLength
  <2>. QED BY <2>1, <2>2
<1>. QED BY <1>1, <1>2, FileLengthNat DEF Orders, NumOrders

\* At an exposure it is the number of the exposure.
LEMMA RaisesAtExposure ==
  ASSUME NEW h \in Orders, Class(h) = 2
  PROVE  Raises(h) = Number(h) \div 5 /\ Raises(h) <= Layers + 1
<1>1. h \in 1 .. FileLength
  <2>1. CASE h = NumOrders
    BY <2>1, ClassOfLine, FileLengthNat DEF Class, Number, NumOrders
  <2>. QED BY <2>1, FileLengthNat DEF Orders, NumOrders
<1>2. Class(h) = compareSelf(h) /\ Number(h) = h
  BY <1>1 DEF Class, Number
<1>3. h \notin {1, 2, FileLength} /\ h % 5 = 0
  BY <1>1, <1>2, ClassOfLine
<1>4. h \in Nat /\ h >= 5 /\ h <= 5 * Layers + 7
  BY <1>1, <1>3, FileLengthNat DEF FileLength
<1>5. (h + 3) \div 5 = h \div 5
  BY <1>3, <1>4
<1>6. h \div 5 <= Layers + 1
  BY <1>3, <1>4, LayersAssumption
<1>. QED BY <1>2, <1>4, <1>5, <1>6 DEF Raises

-----------------------------------------------------------------------------
(* Types. *)

\* The image that the file thread loads may be one past the last; the one it shows is not.
InFile == slc \in {"ready", "poll", "show", "lower"} => img <= Images

LEMMA DlpInitTypes == Init => TypeOK /\ InFile
<1>1. 1 \in 1 .. Images + 1 /\ 0 \in 0 .. Images
  BY LayersAssumption, PrintAssumption
<1>2. NumOrders + 1 \in 1 .. NumOrders + 1
  BY FileLengthNat DEF NumOrders
<1>3. 0 \in 0 .. MaxPresses
  BY PrintAssumption
<1>. SUFFICES ASSUME Init PROVE TypeOK /\ InFile
  OBVIOUS
<1>4. clean \in BOOLEAN
  BY DEF Init
<1>. QED BY <1>1, <1>2, <1>3, <1>4 DEF Init, TypeOK, InFile, HomeOks

LEMMA DlpTypeStep == ASSUME TypeOK, InFile, [Next]_vars PROVE TypeOK' /\ InFile'
<1>. USE DEF TypeOK, InFile, flags, screen, list, file
<1>1. CASE UNCHANGED vars
  BY <1>1 DEF vars
<1>2. CASE User
  <2>1. clean' \in BOOLEAN
    BY <1>2 DEF User, PRINT_STOP, PRINT_STOP_RETURN, file_get, PullStick
  <2>2. presses' \in 0 .. MaxPresses
    BY <1>2, PrintAssumption DEF User, Press, PRINT_STOP, PRINT_STOP_RETURN, file_get, PullStick
  <2>3. CASE PRINT_STOP
    BY <2>1, <2>2, <2>3 DEF PRINT_STOP
  <2>4. CASE PRINT_STOP_RETURN
    BY <2>1, <2>2, <2>4 DEF PRINT_STOP_RETURN
  <2>5. CASE file_get \/ PullStick
    BY <2>1, <2>2, <2>5 DEF file_get, PullStick
  <2>. QED BY <1>2, <2>3, <2>4, <2>5 DEF User
<1>3. CASE Hmi
  BY <1>3 DEF Hmi, WriteToggle, WriteStop
<1>4. CASE MotorThread
  <2>1. CASE StartPrint
    BY <2>1, Zenon DEF StartPrint, Motor, AtRest
  <2>2. CASE print
    BY <2>2, FileLengthNat DEF print, Motor, NumOrders
  <2>3. CASE JudgeGo \/ JudgeStop \/ CheckAgain
    BY <2>3 DEF JudgeGo, JudgeStop, CheckAgain, Motor, HomeOks
  <2>4. CASE send_head \/ EndOfList
    BY <2>4 DEF send_head, EndOfList, Motor
  <2>5. CASE Drain \/ EndPrint
    BY <2>5, FileLengthNat DEF Drain, EndPrint, Motor, NumOrders
  <2>. QED BY <1>4, <2>1, <2>2, <2>3, <2>4, <2>5 DEF MotorThread
<1>5. CASE ReplyThread
  <2>1. delHeadGoods => head' \in 1 .. NumOrders + 1 /\ order_status' \in 0 .. 1
    BY FileLengthNat DEF delHeadGoods, ListEmpty, NumOrders
  <2>2. TakeReply => owed' \in Nat
    BY DEF TakeReply
  <2>. QED BY <1>5, <2>1, <2>2 DEF ReplyThread, IgnoreOk, TakeOk, StartWait, Expose,
                SkipExposure, EndWait, TakeReply
<1>6. CASE FileThread
  <2>1. CASE OpenSLC
    <3>1. 1 \in 1 .. Images + 1
      BY PrintAssumption
    <3>. QED BY <2>1, <3>1 DEF OpenSLC, File
  <2>5. CASE OpenFails
    <3>1. clean' \in BOOLEAN
      BY <2>5 DEF OpenFails
    <3>. QED BY <2>5, <3>1 DEF OpenFails
  <2>2. CASE bmp_255 \/ show_bmp
    <3>1. img \in 1 .. Images
      BY <2>2, PrintAssumption DEF bmp_255, show_bmp, File
    <3>. QED BY <2>2, PrintAssumption DEF bmp_255, show_bmp, File, Picture
  <2>3. CASE LoadImage \/ EndOfFile
    BY <2>3 DEF LoadImage, EndOfFile, File
  <2>6. CASE FileGone
    <3>1. clean' \in BOOLEAN
      BY <2>6 DEF FileGone
    <3>. QED BY <2>6, <3>1 DEF FileGone, File
  <2>4. CASE PollContinue \/ PollStop \/ LowerFlag \/ QuitSLC
    BY <2>4, PrintAssumption DEF PollContinue, PollStop, LowerFlag, QuitSLC, File
  <2>. QED BY <1>6, <2>1, <2>2, <2>3, <2>4, <2>5, <2>6 DEF FileThread
<1>. QED BY <1>1, <1>2, <1>3, <1>4, <1>5, <1>6 DEF Next

\* Every variable of a print keeps its type.
THEOREM PrintTypeCorrect == Spec => []TypeOK
<1>1. TypeOK /\ InFile /\ [Next]_vars => TypeOK' /\ InFile'
  BY DlpTypeStep
<1>. QED BY DlpInitTypes, <1>1, PTL DEF Spec

-----------------------------------------------------------------------------
(* The invariant. *)

\* A print is under way.
Sending == motor \in {"judge", "again", "send"}

\* The list is empty between two prints; a clean print is not stopped, and what the motor
\* thread then empties is empty already.
RunInv ==
  /\ hmi = "toggle" => print_flag_temp # 0
  /\ clean => hmi # "stop"
  /\ motor \in {"idle", "begin", "end"} => ListEmpty
  /\ motor = "dead" => ~clean
  /\ clean /\ (motor = "begin" \/ Sending) => print_flag # 0
  /\ clean /\ motor = "drain" => ListEmpty

\* The reply thread waits only for the head, and an exposure and the step after it find the
\* flag down.
ReplyInv ==
  clean =>
    /\ reply # "poll" => Sending /\ ~ListEmpty
    /\ reply = "fun2" => Class(head) = 3
    /\ reply = "fun3" => Class(head) = 2
    /\ Sending /\ ~ListEmpty /\ Class(head) \in {2, 4} => file_continue_flag = 0

\* The image that is due: on its way while the flag is up, in the frame buffer once it is down.
Coming ==
  \/ slc \in {"load", "ready", "poll", "show"} /\ img = Raises(head)
  \/ slc = "wait" /\ Raises(head) = 1
  \/ slc = "lower" /\ img = Raises(head) /\ shown = Picture(Raises(head))

\* The next image is worked on, and only a base layer is drawn, which looks like the one there;
\* after the last image the file is opened again, and its first base layer drawn.
There ==
  \/ /\ slc \in {"load", "ready", "poll"} /\ img = Raises(head) + 1
     /\ shown = Picture(Raises(head))
  \/ /\ slc \in {"quit", "wait", "load", "ready", "poll"} /\ Raises(head) = Images
     /\ \/ shown = Picture(Raises(head))
        \/ Bottom > 0 /\ shown = Picture(1)

\* Between the start of the print and the first read of the list nothing is under way.
ImageInv ==
  /\ clean /\ motor = "begin" =>
       /\ reply = "poll" /\ owed = 0 /\ file_continue_flag = 0
       /\ slc = "wait" \/ (slc \in {"load", "ready", "poll"} /\ img = 1)
  /\ clean /\ Sending /\ Raises(head) <= Images =>
       IF file_continue_flag = 1 THEN Coming ELSE There

PrintInv == TypeOK /\ InFile /\ RunInv /\ ReplyInv /\ ImageInv

LEMMA DlpInitially == Init => PrintInv
<1>1. NumOrders + 1 > NumOrders
  BY FileLengthNat DEF NumOrders
<1>. QED BY <1>1, DlpInitTypes DEF Init, PrintInv, RunInv, ReplyInv, ImageInv, ListEmpty,
              Sending

\* The motor thread.
LEMMA MotorKeeps == ASSUME PrintInv, MotorThread PROVE (RunInv /\ ReplyInv /\ ImageInv)'
<1>. USE DEF PrintInv, TypeOK, RunInv, ReplyInv, ImageInv, Sending, Coming, There, flags, screen,
             list, file, Motor, ListEmpty
<1>1. CASE StartPrint
  BY <1>1 DEF StartPrint, AtRest
<1>2. CASE print
  <2>1. Class(1) = 0 /\ Raises(1) = 1 /\ 1 <= NumOrders
    BY FirstClass, RaisesType, FileLengthNat DEF NumOrders
  <2>. QED BY <1>2, <2>1 DEF print
<1>3. CASE JudgeGo
  BY <1>3 DEF JudgeGo
<1>4. CASE JudgeStop
  BY <1>4 DEF JudgeStop
<1>5. CASE CheckAgain
  BY <1>5 DEF CheckAgain
<1>6. CASE send_head
  BY <1>6 DEF send_head
<1>7. CASE EndOfList
  BY <1>7 DEF EndOfList
<1>8. CASE Drain
  BY <1>8, FileLengthNat DEF Drain, NumOrders
<1>9. CASE EndPrint
  BY <1>9 DEF EndPrint
<1>. QED BY <1>1, <1>2, <1>3, <1>4, <1>5, <1>6, <1>7, <1>8, <1>9 DEF MotorThread

\* The file thread: the image that is due is shown, and the flag goes down after it.
LEMMA FileKeeps == ASSUME PrintInv, FileThread PROVE (RunInv /\ ReplyInv /\ ImageInv)'
<1>. USE DEF PrintInv, TypeOK, InFile, RunInv, ReplyInv, ImageInv, Sending, Coming, There, flags,
             screen, list, file, File, ListEmpty
<1>. USE RaisesType, PrintAssumption
<1>1. CASE OpenSLC
  BY <1>1 DEF OpenSLC
<1>9. CASE OpenFails
  BY <1>9 DEF OpenFails
<1>10. CASE bmp_255
  BY <1>10 DEF bmp_255, Picture
<1>11. CASE FileGone
  BY <1>11 DEF FileGone
<1>2. CASE PollContinue
  BY <1>2 DEF PollContinue
<1>3. CASE PollStop
  BY <1>3 DEF PollStop
<1>4. CASE show_bmp
  BY <1>4 DEF show_bmp
<1>5. CASE LowerFlag
  BY <1>5 DEF LowerFlag
<1>6. CASE LoadImage
  BY <1>6 DEF LoadImage
<1>7. CASE EndOfFile
  BY <1>7 DEF EndOfFile
<1>8. CASE QuitSLC
  BY <1>8 DEF QuitSLC
<1>. QED BY <1>1, <1>2, <1>3, <1>4, <1>5, <1>6, <1>7, <1>8, <1>9, <1>10, <1>11 DEF FileThread

\* The screen and the stick: a stop makes the print unclean, and a pause is no stop.
LEMMA ScreenKeeps ==
  ASSUME PrintInv, User \/ Hmi
  PROVE  (RunInv /\ ReplyInv /\ ImageInv)'
<1>. USE DEF PrintInv, TypeOK, RunInv, ReplyInv, ImageInv, Sending, Coming, There, flags, screen,
             list, file, File, ListEmpty
<1>1. CASE PRINT_STOP
  BY <1>1 DEF PRINT_STOP, Press
<1>2. CASE PRINT_STOP_RETURN
  BY <1>2 DEF PRINT_STOP_RETURN, Press
<1>3. CASE WriteToggle
  BY <1>3 DEF WriteToggle
<1>4. CASE WriteStop
  BY <1>4 DEF WriteStop
<1>5. CASE file_get \/ PullStick
  BY <1>5 DEF file_get, PullStick, Press
<1>. QED BY <1>1, <1>2, <1>3, <1>4, <1>5 DEF User, Hmi

\* What deleting the head does to the class of the head and to the image that is due.
LEMMA AfterDelete ==
  ASSUME TypeOK, ~ListEmpty, delHeadGoods
  PROVE  /\ head \in Orders /\ head' = head + 1
         /\ Class(head) # 4 => Raises(head') = Raises(head)
         /\ Class(head) = 4 => Raises(head') = Raises(head) + 1
         /\ ~ListEmpty' /\ Class(head') = 2 => Class(head) = 3
         /\ ~ListEmpty' /\ Class(head') = 4 => Class(head) = 2
<1>1. head \in Orders /\ head' = head + 1
  BY FileLengthNat DEF TypeOK, ListEmpty, delHeadGoods, Orders, NumOrders
<1>2. ~ListEmpty' => head + 1 \in Orders
  BY <1>1, FileLengthNat DEF ListEmpty, Orders, NumOrders
<1>. QED BY <1>1, <1>2, RaisesStep, WaitBeforeExposure, ExposureBeforeNext

\* The reply thread: a head that leaves the list makes the next image due only if it is M107.
LEMMA ReplyKeeps == ASSUME PrintInv, ReplyThread PROVE (RunInv /\ ReplyInv /\ ImageInv)'
<1>. USE DEF PrintInv, TypeOK, RunInv, ReplyInv, ImageInv, Sending, Coming, There, flags, screen,
             list, file, TakeReply, Sent
<1>0. Raises(head) \in Nat
  BY RaisesType, FileLengthNat DEF NumOrders
<1>1. CASE IgnoreOk
  BY <1>1 DEF IgnoreOk, ListEmpty
<1>2. CASE TakeOk
  <2>1. CASE Class(head) = 4
    BY <1>0, <1>2, <2>1, AfterDelete, LayersAssumption, PrintAssumption DEF TakeOk, Class, ListEmpty
  <2>2. CASE Class(head) # 4
    BY <1>0, <1>2, <2>2, AfterDelete DEF TakeOk, Class, ListEmpty
  <2>. QED BY <2>1, <2>2
<1>3. CASE StartWait
  BY <1>3 DEF StartWait, Class, ListEmpty
<1>4. CASE Expose
  BY <1>4 DEF Expose, Class, ListEmpty
<1>5. CASE SkipExposure
  BY <1>0, <1>5, AfterDelete DEF SkipExposure, Class, ListEmpty
<1>6. CASE EndWait
  <2>1. CASE ListEmpty
    BY <1>6, <2>1 DEF EndWait, ListEmpty, delHeadGoods
  <2>2. CASE ~ListEmpty /\ reply = "fun3"
    BY <1>0, <1>6, <2>2, AfterDelete DEF EndWait, ListEmpty
  <2>3. CASE ~ListEmpty /\ reply = "fun2" /\ file_continue_flag # 1
    BY <1>0, <1>6, <2>3, AfterDelete DEF EndWait, ListEmpty
  <2>. QED BY <1>6, <2>1, <2>2, <2>3 DEF EndWait
<1>. QED BY <1>1, <1>2, <1>3, <1>4, <1>5, <1>6 DEF ReplyThread

LEMMA PrintStays == ASSUME PrintInv, [Next]_vars PROVE PrintInv'
<1>1. TypeOK' /\ InFile'
  BY DlpTypeStep DEF PrintInv
<1>2. CASE UNCHANGED vars
  BY <1>1, <1>2 DEF PrintInv, RunInv, ReplyInv, ImageInv, Sending, Coming, There, ListEmpty,
       vars, flags, screen, list, file
<1>. QED BY <1>1, <1>2, MotorKeeps, FileKeeps, ScreenKeeps, ReplyKeeps DEF PrintInv, Next

\* In a print from rest that has not been stopped the motor thread never empties a list from
\* which the reply thread may still remove an order (marlinHost.cpp 173-208, 486, 649).
THEOREM OneThreadRemoves == Spec => []OneRemover
<1>1. PrintInv => OneRemover
  BY DEF PrintInv, RunInv, OneRemover
<1>. QED BY DlpInitially, PrintStays, <1>1, PTL DEF Spec

\* In such a print the picture on the projector during the k-th exposure is that of the k-th
\* image of the file, up to the last image, or the last but one if there are base layers, for
\* every number of layers, images and base layers, however it is paused and continued
\* (marlinHost.cpp 317-349, SLC_Read.cpp 659-677, 813-860, 1105-1127, 1143-1156).
THEOREM ExposuresMatch == Spec => []ImageMatches
<1>1. PrintInv => ImageMatches
  <2>. DEFINE k == Number(head) \div 5
  <2>. SUFFICES ASSUME PrintInv, clean, reply = "fun3", k <= Images
                PROVE  \/ shown = Picture(k)
                       \/ k = Images /\ Bottom > 0 /\ shown = Picture(1)
    BY DEF ImageMatches
  <2>1. Sending /\ ~ListEmpty /\ Class(head) = 2 /\ file_continue_flag = 0
    BY DEF PrintInv, ReplyInv
  <2>2. head \in Orders
    BY <2>1, FileLengthNat DEF PrintInv, TypeOK, ListEmpty, Orders, NumOrders
  <2>3. Raises(head) = k
    BY <2>1, <2>2, RaisesAtExposure
  <2>. HIDE DEF k
  <2>4. There
    <3>1. Raises(head) <= Images
      BY <2>2, <2>3, RaisesType, FileLengthNat, PrintAssumption DEF Orders, NumOrders
    <3>. QED BY <2>1, <3>1 DEF PrintInv, ImageInv
  <2>. QED BY <2>3, <2>4, PrintAssumption DEF There
<1>. QED BY DlpInitially, PrintStays, <1>1, PTL DEF Spec

=============================================================================
