--------------------------- MODULE SlcServiceProofs ---------------------------
(***************************************************************************)
(* Theorems about SlcService, for every finite set of clients and every    *)
(* number of layers.                                                       *)
(***************************************************************************)
EXTENDS SlcService, FiniteSetTheorems, SequenceTheorems, TLAPS

\* An answer that is written is an answer by type, and the kinds of what is read and written
\* are what TypeOK says of them.
LEMMA AnswerType ==
  /\ NoAnswer \in Answers /\ Exited \in Answers
  /\ \A l, b \in 0 .. TotalLayers :
       [kind |-> "BMP_OK", LayerCurrent |-> l, bmp |-> b] \in Answers
BY ServiceAssumption DEF NoAnswer, Exited, Answers

\* Before the first request nothing is answered and no layer is parsed.
LEMMA InitType == Init => TypeOK
<1>. SUFFICES ASSUME Init PROVE TypeOK
  OBVIOUS
<1>1. 0 \in 0 .. TotalLayers /\ NoAnswer \in Answers /\ "none" \in Strings
  BY ServiceAssumption, AnswerType DEF Strings
<1>2. /\ cgi \in [Clients -> {"start", "poll", "read", "remove", "done", "crashed"}]
      /\ command \in [Clients -> Commands \cup {"none"}]
      /\ strs \in [Clients -> Answers]
      /\ seen \in [Clients -> 0 .. TotalLayers]
  BY <1>1 DEF Init
<1>3. fifo \in Seq(Commands)
  BY DEF Init
<1>4. fifo_open \in BOOLEAN
  BY DEF Init
<1>5. orderly \in BOOLEAN
  BY DEF Init
<1>6. /\ recv \in {"open", "read", "copy", "half", "raise"}
      /\ analyser \in {"poll", "compare", "wait", "answer", "rename", "exit", "rename_exit",
                       "die"}
      /\ slc \in {"parse", "wait", "lower", "end", "gone"}
  BY DEF Init
<1>7. /\ buf \in Strings /\ str_fifo \in Strings /\ fifoRecv \in 0 .. 1
      /\ new \in Answers /\ back \in Answers /\ file_continue_flag \in 0 .. 1
      /\ LayerCurrent \in 0 .. TotalLayers /\ bmp \in 0 .. TotalLayers
  BY <1>1 DEF Init
<1>. QED BY <1>2, <1>3, <1>4, <1>5, <1>6, <1>7 DEF TypeOK

\* Every step of the CGI processes and of the three threads keeps the types.
LEMMA NextType == TypeOK /\ [Next]_vars => TypeOK'
<1>. SUFFICES ASSUME TypeOK, [Next]_vars PROVE TypeOK'
  OBVIOUS
<1>. USE DEF TypeOK, client, channel, reader
<1>1. ASSUME NEW c \in Clients, Post(c) PROVE TypeOK'
  <2>1. PICK cmd \in Commands : fifo' = Append(fifo, cmd)
                                /\ command' = [command EXCEPT ![c] = cmd]
    BY <1>1 DEF Post
  <2>2. fifo' \in Seq(Commands)
    BY <2>1, AppendProperties
  <2>3. command' \in [Clients -> Commands \cup {"none"}]
    BY <2>1
  <2>. QED BY <1>1, <2>2, <2>3 DEF Post
<1>2. ASSUME NEW c \in Clients, PostFails(c) PROVE TypeOK'
  BY <1>2 DEF PostFails, Client
<1>3. ASSUME NEW c \in Clients, Found(c) PROVE TypeOK'
  BY <1>3 DEF Found, Client
<1>4. ASSUME NEW c \in Clients, GiveUp(c) PROVE TypeOK'
  BY <1>4 DEF GiveUp, Client
<1>5. ASSUME NEW c \in Clients, ReadBack(c) PROVE TypeOK'
  BY <1>5 DEF ReadBack, Client
<1>6. ASSUME NEW c \in Clients, ReadNull(c) PROVE TypeOK'
  BY <1>6 DEF ReadNull, Client
<1>7. ASSUME NEW c \in Clients, RemoveBack(c) PROVE TypeOK'
  BY <1>7, AnswerType DEF RemoveBack, Client
<1>8. CASE OpenFifo
  BY <1>8 DEF OpenFifo, Receiver
<1>9. CASE ReadFifo
  <2>1. Head(fifo) \in Commands /\ <<>> \in Seq(Commands)
    BY <1>9, HeadTailProperties DEF ReadFifo
  <2>2. buf' \in Strings /\ fifo' \in Seq(Commands)
    BY <1>9, <2>1 DEF ReadFifo, Strings
  <2>. QED BY <1>9, <2>2 DEF ReadFifo, Receiver
<1>10. CASE StartCopy
  <2>1. str_fifo' \in Strings
    BY <1>10 DEF StartCopy, Strings
  <2>. QED BY <1>10, <2>1 DEF StartCopy, Receiver
<1>11. CASE EndCopy
  BY <1>11 DEF EndCopy, Receiver
<1>12. CASE RaiseRecv
  BY <1>12 DEF RaiseRecv, Receiver
<1>13. CASE TakeRecv \/ analyseNext \/ CompareExit \/ CompareOther \/ WaitForImage
  BY <1>13 DEF TakeRecv, analyseNext, CompareExit, CompareOther, WaitForImage, Analyser
<1>14. CASE WriteAnswer \/ RenameAnswer \/ WriteExit \/ RenameExit
  BY <1>14, AnswerType DEF WriteAnswer, RenameAnswer, WriteExit, RenameExit, Analyser
<1>15. CASE Exit
  BY <1>15 DEF Exit, Analyser
<1>16. CASE ParseLayer
  <2>1. LayerCurrent' \in 0 .. TotalLayers
    BY <1>16, ServiceAssumption DEF ParseLayer
  <2>. QED BY <1>16, <2>1 DEF ParseLayer, Reader
<1>17. CASE EndOfFile \/ imwrite \/ LowerFlag
  BY <1>17 DEF EndOfFile, imwrite, LowerFlag, Reader
<1>18. CASE Return
  BY <1>18 DEF Return, Reader
<1>19. CASE UNCHANGED vars
  BY <1>19 DEF vars
<1>. QED
  BY <1>1, <1>2, <1>3, <1>4, <1>5, <1>6, <1>7, <1>8, <1>9, <1>10, <1>11, <1>12, <1>13, <1>14,
     <1>15, <1>16, <1>17, <1>18, <1>19
     DEF Next, Cgi, ReceiverThread, AnalyserThread, ReaderThread

\* The clients, the three threads and the two files keep their types.
THEOREM ServiceTypeCorrect == Spec => []TypeOK
BY InitType, NextType, PTL DEF Spec

-----------------------------------------------------------------------------
(* Every image was asked for. *)

Asked == {c \in Clients : command[c] # "none"}

\* Commands on their way: in the FIFO, with the receiver, in str_fifo, with the analyser, and
\* raised but not yet seen by OpenSLC.
InReceiver == IF recv \in {"copy", "half", "raise"} THEN 1 ELSE 0
InAnalyser == IF analyser = "compare" THEN 1 ELSE 0
Raised     == IF file_continue_flag = 1 /\ slc \notin {"lower", "gone"} THEN 1 ELSE 0
InHand     == Len(fifo) + InReceiver + fifoRecv + InAnalyser + Raised

\* Why no image is written unasked: a command moves from place to place, where it may be lost
\* but never becomes two, and OpenSLC is never more than one layer ahead of dst.bmp.
AskedInv ==
  /\ \A c \in Clients : cgi[c] = "start" => command[c] = "none"
  /\ LayerCurrent = IF slc = "wait" THEN bmp + 1 ELSE
                    IF slc = "gone" THEN LayerCurrent ELSE bmp
  /\ bmp + InHand <= Cardinality(Asked)

\* The number of commands written so far is a natural number.
LEMMA AskedFinite == IsFiniteSet(Asked) /\ Cardinality(Asked) \in Nat
<1>1. Asked \in SUBSET Clients
  BY DEF Asked
<1>. QED BY <1>1, ServiceAssumption, FS_Subset, FS_CardinalityType

\* So are the numbers of those in hand.
LEMMA InHandType ==
  ASSUME TypeOK
  PROVE  /\ Len(fifo) \in Nat /\ fifoRecv \in 0 .. 1
         /\ InReceiver \in 0 .. 1 /\ InAnalyser \in 0 .. 1 /\ Raised \in 0 .. 1
         /\ InHand \in Nat /\ bmp \in Nat /\ LayerCurrent \in Nat
<1>1. Len(fifo) \in Nat
  BY DEF TypeOK
<1>2. fifoRecv \in 0 .. 1
  BY DEF TypeOK
<1>3. InReceiver \in 0 .. 1 /\ InAnalyser \in 0 .. 1 /\ Raised \in 0 .. 1
  BY DEF InReceiver, InAnalyser, Raised
<1>4. bmp \in Nat /\ LayerCurrent \in Nat
  BY ServiceAssumption DEF TypeOK
<1>. QED BY <1>1, <1>2, <1>3, <1>4 DEF InHand

\* The same after a step.
LEMMA InHandTypeNext ==
  ASSUME TypeOK'
  PROVE  /\ Len(fifo') \in Nat /\ fifoRecv' \in 0 .. 1
         /\ InReceiver' \in 0 .. 1 /\ InAnalyser' \in 0 .. 1 /\ Raised' \in 0 .. 1
         /\ InHand' \in Nat /\ bmp' \in Nat /\ LayerCurrent' \in Nat
<1>1. Len(fifo') \in Nat
  BY DEF TypeOK
<1>2. fifoRecv' \in 0 .. 1
  BY DEF TypeOK
<1>3. InReceiver' \in 0 .. 1 /\ InAnalyser' \in 0 .. 1 /\ Raised' \in 0 .. 1
  BY DEF InReceiver, InAnalyser, Raised
<1>4. bmp' \in Nat /\ LayerCurrent' \in Nat
  BY ServiceAssumption DEF TypeOK
<1>. QED BY <1>1, <1>2, <1>3, <1>4 DEF InHand

\* Before the first request there is nothing in hand.
LEMMA InitAsked == Init => AskedInv
<1>. SUFFICES ASSUME Init PROVE AskedInv
  OBVIOUS
<1>1. Len(fifo) = 0
  BY DEF Init
<1>2. InReceiver = 0 /\ InAnalyser = 0 /\ Raised = 0 /\ fifoRecv = 0
  BY DEF Init, InReceiver, InAnalyser, Raised
<1>3. InHand = 0
  BY <1>1, <1>2 DEF InHand
<1>4. \A c \in Clients : command[c] = "none"
  BY DEF Init
<1>5. bmp = 0 /\ LayerCurrent = 0 /\ slc = "parse"
  BY DEF Init
<1>. QED BY <1>3, <1>4, <1>5, AskedFinite DEF AskedInv

\* A sum that does not grow stays below its bound.
LEMMA SumBelow ==
  ASSUME NEW a \in Nat, NEW b \in Nat, NEW c \in Nat, NEW d \in Nat, NEW e \in Nat,
         a + b <= c + d, c + d <= e
  PROVE  a + b <= e
OBVIOUS

\* What a step has to do to keep the count: nothing to the clients, no command more than
\* before, and no parsing ahead.
LEMMA KeepsAsked ==
  ASSUME TypeOK, TypeOK', AskedInv,
         UNCHANGED <<cgi, command>>,
         bmp' + InHand' <= bmp + InHand,
         LayerCurrent' = IF slc' = "wait" THEN bmp' + 1 ELSE
                         IF slc' = "gone" THEN LayerCurrent' ELSE bmp'
  PROVE  AskedInv'
<1>1. Asked' = Asked
  BY DEF Asked
<1>2. bmp \in Nat /\ InHand \in Nat /\ Cardinality(Asked) \in Nat
  BY InHandType, AskedFinite
<1>3. bmp' \in Nat /\ InHand' \in Nat
  BY InHandTypeNext
<1>4. bmp + InHand <= Cardinality(Asked)
  BY DEF AskedInv
<1>5. bmp' + InHand' <= Cardinality(Asked)
  BY <1>2, <1>3, <1>4, SumBelow
<1>. QED BY <1>1, <1>5 DEF AskedInv

\* A request adds one command to the FIFO and one client to those who asked.
LEMMA PostAsked ==
  ASSUME TypeOK, AskedInv, NEW c \in Clients, Post(c)
  PROVE  AskedInv'
<1>1. PICK cmd \in Commands : fifo' = Append(fifo, cmd)
                              /\ command' = [command EXCEPT ![c] = cmd]
  BY DEF Post
<1>2. c \notin Asked /\ Asked' = Asked \cup {c}
  <2>1. command[c] = "none" /\ cmd # "none"
    BY <1>1 DEF Post, AskedInv, Commands
  <2>2. command'[c] = cmd /\ \A d \in Clients \ {c} : command'[d] = command[d]
    BY <1>1 DEF TypeOK
  <2>. QED BY <2>1, <2>2 DEF Asked
<1>3. Cardinality(Asked') = Cardinality(Asked) + 1
  BY <1>2, AskedFinite, FS_AddElement
<1>4. Len(fifo') = Len(fifo) + 1
  BY <1>1, AppendProperties DEF TypeOK
<1>5. UNCHANGED <<InReceiver, fifoRecv, InAnalyser, Raised, bmp, LayerCurrent, slc>>
  BY DEF Post, channel, reader, InReceiver, InAnalyser, Raised
<1>6. InHand' = InHand + 1
  BY <1>4, <1>5, InHandType DEF InHand
<1>7. \A d \in Clients : cgi'[d] = "start" => command'[d] = "none"
  BY <1>1 DEF Post, AskedInv, TypeOK
<1>. QED BY <1>3, <1>5, <1>6, <1>7, InHandType, AskedFinite DEF AskedInv

\* The steps of a CGI process after its request leave everything but its own place alone.
LEMMA CgiAsked ==
  ASSUME TypeOK, AskedInv, NEW c \in Clients, PostFails(c) \/ GiveUp(c) \/ Cgi(c)
  PROVE  AskedInv'
<1>1. UNCHANGED <<command, fifo, channel, analyser, file_continue_flag, reader>>
  BY DEF PostFails, GiveUp, Cgi, Found, ReadBack, ReadNull, RemoveBack, Client
<1>2. InHand' = InHand /\ Asked' = Asked
  BY <1>1 DEF InHand, InReceiver, InAnalyser, Raised, Asked, channel, reader
<1>3. \E next \in {"read", "remove", "done", "crashed"} : cgi' = [cgi EXCEPT ![c] = next]
  BY DEF PostFails, GiveUp, Cgi, Found, ReadBack, ReadNull, RemoveBack, Client
<1>4. \A d \in Clients : cgi'[d] = "start" => command'[d] = "none"
  BY <1>1, <1>3 DEF AskedInv, TypeOK
<1>. QED BY <1>1, <1>2, <1>4 DEF AskedInv, reader

\* Every step hands a command on, drops it or carries it out once.
LEMMA NextAsked == TypeOK /\ TypeOK' /\ AskedInv /\ [Next]_vars => AskedInv'
<1>. SUFFICES ASSUME TypeOK, TypeOK', AskedInv, [Next]_vars PROVE AskedInv'
  OBVIOUS
<1>. DEFINE Behind == LayerCurrent = IF slc = "wait" THEN bmp + 1 ELSE
                                     IF slc = "gone" THEN LayerCurrent ELSE bmp
<1>0. Behind
  BY DEF AskedInv
<1>1. ASSUME NEW c \in Clients, Post(c) \/ PostFails(c) \/ GiveUp(c) \/ Cgi(c)
      PROVE  AskedInv'
  BY <1>1, PostAsked, CgiAsked
<1>2. CASE ReceiverThread
  <2>1. UNCHANGED <<cgi, command, bmp, LayerCurrent, slc, InAnalyser, Raised>>
    BY <1>2 DEF ReceiverThread, OpenFifo, ReadFifo, StartCopy, EndCopy, RaiseRecv, Receiver,
                client, reader, InAnalyser, Raised
  <2>2. InHand = Len(fifo) + InReceiver + fifoRecv + InAnalyser + Raised
    BY DEF InHand
  <2>3. InHand' = Len(fifo') + InReceiver' + fifoRecv' + InAnalyser + Raised
    BY <2>1 DEF InHand
  <2>4. InHand' <= InHand
    <3>1. CASE OpenFifo \/ StartCopy \/ EndCopy
      <4>1. fifo' = fifo /\ fifoRecv' = fifoRecv /\ InReceiver' = InReceiver
        BY <3>1 DEF OpenFifo, StartCopy, EndCopy, Receiver, InReceiver
      <4>. QED BY <2>2, <2>3, <4>1, InHandType
    <3>2. CASE ReadFifo
      <4>1. Len(fifo) >= 1 /\ Len(fifo') = 0
        BY <3>2, EmptySeq, LenProperties DEF ReadFifo, TypeOK
      <4>2. InReceiver = 0 /\ InReceiver' = 1 /\ fifoRecv' = fifoRecv
        BY <3>2 DEF ReadFifo, Receiver, InReceiver
      <4>. QED BY <2>2, <2>3, <4>1, <4>2, InHandType
    <3>3. CASE RaiseRecv
      <4>1. InReceiver = 1 /\ InReceiver' = 0 /\ fifoRecv' = 1 /\ fifo' = fifo
        BY <3>3 DEF RaiseRecv, Receiver, InReceiver
      <4>. QED BY <2>2, <2>3, <4>1, InHandType
    <3>. QED BY <1>2, <3>1, <3>2, <3>3 DEF ReceiverThread
  <2>. QED BY <1>0, <2>1, <2>4, InHandType, InHandTypeNext, KeepsAsked
<1>3. CASE AnalyserThread
  <2>1. UNCHANGED <<cgi, command, bmp, LayerCurrent, fifo, InReceiver>>
    BY <1>3 DEF AnalyserThread, TakeRecv, analyseNext, CompareExit, CompareOther, WaitForImage,
                WriteAnswer, RenameAnswer, WriteExit, RenameExit, Exit, Analyser, client,
                InReceiver
  <2>2. slc' \in {slc, "gone"}
    BY <1>3 DEF AnalyserThread, TakeRecv, analyseNext, CompareExit, CompareOther, WaitForImage,
                WriteAnswer, RenameAnswer, WriteExit, RenameExit, Exit, Analyser
  <2>3. /\ InHand = Len(fifo) + InReceiver + fifoRecv + InAnalyser + Raised
        /\ InHand' = Len(fifo) + InReceiver + fifoRecv' + InAnalyser' + Raised'
    BY <2>1 DEF InHand
  <2>4. InHand' \in {InHand, InHand - 1}
    <3>1. CASE TakeRecv
      <4>1. fifoRecv = 1 /\ fifoRecv' = 0 /\ InAnalyser = 0 /\ InAnalyser' = 1 /\ Raised' = Raised
        BY <3>1 DEF TakeRecv, Analyser, InAnalyser, Raised
      <4>. QED BY <2>3, <4>1, InHandType
    <3>2. CASE analyseNext
      <4>1. InAnalyser = 1 /\ InAnalyser' = 0 /\ fifoRecv' = fifoRecv
        BY <3>2 DEF analyseNext, Analyser, InAnalyser
      <4>2. CASE slc \in {"lower", "gone"}
        <5>1. Raised = 0 /\ Raised' = 0
          BY <3>2, <4>2 DEF analyseNext, Analyser, Raised
        <5>. QED BY <2>3, <4>1, <5>1, InHandType
      <4>3. CASE slc \notin {"lower", "gone"}
        <5>1. Raised' = 1
          BY <3>2, <4>3 DEF analyseNext, Analyser, Raised
        <5>. QED BY <2>3, <4>1, <5>1, InHandType
      <4>. QED BY <4>2, <4>3
    <3>3. CASE CompareExit \/ CompareOther
      <4>1. InAnalyser = 1 /\ InAnalyser' = 0 /\ fifoRecv' = fifoRecv /\ Raised' = Raised
        BY <3>3 DEF CompareExit, CompareOther, Analyser, InAnalyser, Raised
      <4>. QED BY <2>3, <4>1, InHandType
    <3>4. CASE WaitForImage \/ WriteAnswer \/ RenameAnswer \/ WriteExit \/ RenameExit
      <4>1. UNCHANGED <<InAnalyser, fifoRecv, Raised>>
        BY <3>4 DEF WaitForImage, WriteAnswer, RenameAnswer, WriteExit, RenameExit, Analyser,
                    InAnalyser, Raised
      <4>. QED BY <2>3, <4>1, InHandType
    <3>5. CASE Exit
      <4>1. InAnalyser' = InAnalyser /\ fifoRecv' = fifoRecv /\ Raised' = 0
        BY <3>5 DEF Exit, Analyser, InAnalyser, Raised
      <4>2. Raised = 0 \/ Raised = 1
        BY InHandType
      <4>. QED BY <2>3, <4>1, <4>2, InHandType
    <3>. QED BY <1>3, <3>1, <3>2, <3>3, <3>4, <3>5 DEF AnalyserThread
  <2>5. Behind'
    BY <1>0, <2>1, <2>2
  <2>. QED BY <2>1, <2>4, <2>5, InHandType, InHandTypeNext, KeepsAsked
<1>4. CASE ReaderThread
  <2>1. UNCHANGED <<cgi, command, fifo, fifoRecv, InReceiver, InAnalyser>>
    BY <1>4 DEF ReaderThread, ParseLayer, EndOfFile, imwrite, LowerFlag, Return, Reader, client,
                channel, InReceiver, InAnalyser
  <2>2. InHand' = InHand - Raised + Raised'
    <3>. DEFINE others == Len(fifo) + InReceiver + fifoRecv + InAnalyser
    <3>1. others \in Nat /\ Raised \in Nat
      BY InHandType
    <3>2. Raised' \in Nat
      BY InHandTypeNext
    <3>3. InHand = others + Raised /\ InHand' = others + Raised'
      BY <2>1 DEF InHand
    <3>. HIDE DEF others
    <3>. QED BY <3>1, <3>2, <3>3
  <2>3. bmp \in Nat /\ InHand \in Nat /\ Raised \in 0 .. 1
    BY InHandType
  <2>4. bmp' + InHand' <= bmp + InHand /\ Behind'
    <3>1. CASE imwrite
      <4>1. Raised = 1 /\ Raised' = 0
        BY <3>1 DEF imwrite, Reader, Raised
      <4>2. bmp' = bmp + 1 /\ Behind'
        BY <1>0, <3>1 DEF imwrite, Reader
      <4>. QED BY <2>2, <2>3, <4>1, <4>2
    <3>2. CASE LowerFlag
      <4>1. bmp' = bmp /\ Raised' = 0
        BY <3>2 DEF LowerFlag, Reader, Raised
      <4>2. Behind'
        BY <1>0, <3>2 DEF LowerFlag, Reader
      <4>. QED BY <2>2, <2>3, <4>1, <4>2
    <3>3. CASE ParseLayer \/ EndOfFile
      <4>1. bmp' = bmp /\ Raised' = Raised
        BY <3>3 DEF ParseLayer, EndOfFile, Reader, Raised
      <4>2. Behind'
        BY <1>0, <3>3 DEF ParseLayer, EndOfFile, Reader
      <4>. QED BY <2>2, <2>3, <4>1, <4>2
    <3>4. CASE Return
      <4>1. bmp' = bmp /\ Raised' = 0
        BY <3>4 DEF Return, Reader, Raised
      <4>2. Behind'
        BY <1>0, <3>4 DEF Return, Reader
      <4>. QED BY <2>2, <2>3, <4>1, <4>2
    <3>. QED BY <1>4, <3>1, <3>2, <3>3, <3>4 DEF ReaderThread
  <2>. QED BY <2>1, <2>4, KeepsAsked
<1>5. CASE UNCHANGED vars
  <2>1. UNCHANGED <<cgi, command, bmp, InHand>> /\ Behind'
    BY <1>0, <1>5 DEF vars, client, channel, reader, InHand, InReceiver, InAnalyser, Raised
  <2>. QED BY <2>1, InHandType, KeepsAsked
<1>. QED BY <1>1, <1>2, <1>3, <1>4, <1>5 DEF Next

\* However many clients write into the FIFO, and however their commands are merged,
\* overwritten or carried out twice, OpenSLC writes no more images than commands came in.
THEOREM ImagesWereAsked == Spec => []NoExtraImage
<1>1. TypeOK /\ AskedInv => NoExtraImage
  BY AskedFinite, InHandType DEF AskedInv, NoExtraImage, Asked, TypeOK
<1>2. TypeOK /\ TypeOK' /\ AskedInv /\ [Next]_vars => AskedInv'
  BY NextAsked
<1>. QED BY <1>1, <1>2, ServiceTypeCorrect, InitAsked, PTL DEF Spec

-----------------------------------------------------------------------------
(* Requests that come one at a time. *)

\* The places where a request, or the answer to it, can be.
AtFifo     == fifo # <<>>
AtReceiver == recv \in {"copy", "half", "raise"}
AtFlag     == fifoRecv = 1
AtAnalyser == analyser \notin {"poll", "die"}
AtBack     == back # NoAnswer

\* It is in one of them at a time.
Alone ==
  /\ AtFifo => ~AtReceiver /\ ~AtFlag /\ ~AtAnalyser /\ ~AtBack
  /\ AtReceiver => ~AtFlag /\ ~AtAnalyser /\ ~AtBack
  /\ AtFlag => ~AtAnalyser /\ ~AtBack
  /\ AtAnalyser => ~AtBack

\* There is no request on its way, and no answer.
Idle == ~AtFifo /\ ~AtReceiver /\ ~AtFlag /\ ~AtAnalyser /\ ~AtBack

\* Answer a is what client c asked for.
Fits(c, a) ==
  IF command[c] = "exit" THEN a.kind = "exit" ELSE a.kind = "BMP_OK" /\ a.bmp = seen[c] + 1

\* Answer a is about the image in dst.bmp.
Current(a) == a.kind = "BMP_OK" => a.bmp = bmp /\ a.LayerCurrent \in {bmp, bmp + 1}

\* The flag and the answer under its temporary name belong to the step the analyser is at.
FlagInv ==
  /\ slc = "lower" => file_continue_flag = 1
  /\ file_continue_flag = 1 => analyser = "wait"
  /\ new # NoAnswer <=> analyser \in {"rename", "rename_exit"}

\* Where the request of client c is, and how far it has been carried out.
Request(c) ==
  /\ command[c] \in Commands
  /\ AtFifo => fifo = <<command[c]>>
  /\ AtReceiver => buf = command[c]
  /\ recv = "raise" \/ AtFlag \/ analyser = "compare" => str_fifo = command[c]
  /\ analyser \in {"wait", "answer", "rename"} => command[c] = "analyseNext"
  /\ analyser \in {"exit", "rename_exit"} => command[c] = "exit"
  /\ AtFifo \/ AtReceiver \/ AtFlag \/ analyser = "compare" => bmp = seen[c]
  /\ analyser = "wait" =>
       bmp = IF file_continue_flag = 1 /\ slc # "lower" THEN seen[c] ELSE seen[c] + 1
  /\ analyser = "answer" => bmp = seen[c] + 1
  /\ analyser \in {"rename", "rename_exit"} => Fits(c, new) /\ Current(new)
  /\ AtBack => Fits(c, back) /\ Current(back)

\* What client c has got.
Got(c) ==
  /\ cgi[c] # "crashed"
  /\ cgi[c] \in {"start", "poll", "read"} => strs[c] = NoAnswer
  /\ cgi[c] \in {"read", "remove"} => AtBack
  /\ strs[c] # NoAnswer => Fits(c, strs[c])

\* Why an orderly client gets its own answer: there is one client at a time, its request is in
\* one place at a time, and each place knows how far the request has been carried out; when
\* the client has gone, nothing of it is left for the next one.
OrderInv ==
  orderly =>
    /\ Alone
    /\ Waiting = {} => Idle
    /\ \A c, d \in Waiting : c = d
    /\ \A c \in Waiting : Request(c)
    /\ \A c \in Clients : Got(c)

\* The answers that mean something are told from NoAnswer.
LEMMA AnswerKinds ==
  /\ NoAnswer.kind = "none" /\ Exited.kind = "exit" /\ Exited # NoAnswer
  /\ \A l, b : [kind |-> "BMP_OK", LayerCurrent |-> l, bmp |-> b] # NoAnswer
BY DEF NoAnswer, Exited

\* Before the first request nothing is raised or written.
LEMMA InitOrder == Init => FlagInv /\ OrderInv
<1>. SUFFICES ASSUME Init PROVE FlagInv /\ OrderInv
  OBVIOUS
<1>1. FlagInv
  BY DEF Init, FlagInv
<1>2. Idle /\ Alone
  BY DEF Init, Idle, Alone, AtFifo, AtReceiver, AtFlag, AtAnalyser, AtBack
<1>3. Waiting = {}
  BY DEF Init, Waiting
<1>4. \A c \in Clients : Got(c)
  BY DEF Init, Got
<1>. QED BY <1>1, <1>2, <1>3, <1>4 DEF OrderInv

\* OpenSLC lowers the flag it has found raised, and the analyser waits for that.
LEMMA NextFlag == FlagInv /\ [Next]_vars => FlagInv'
<1>. SUFFICES ASSUME FlagInv, [Next]_vars PROVE FlagInv'
  OBVIOUS
<1>1. ASSUME NEW c \in Clients, Post(c) \/ PostFails(c) \/ GiveUp(c) \/ Cgi(c)
      PROVE  FlagInv'
  BY <1>1 DEF Post, PostFails, GiveUp, Cgi, Found, ReadBack, ReadNull, RemoveBack, Client,
              reader, FlagInv
<1>2. CASE ReceiverThread
  BY <1>2 DEF ReceiverThread, OpenFifo, ReadFifo, StartCopy, EndCopy, RaiseRecv, Receiver,
              reader, FlagInv
<1>3. CASE AnalyserThread
  BY <1>3, AnswerKinds
     DEF AnalyserThread, TakeRecv, analyseNext, CompareExit, CompareOther, WaitForImage,
         WriteAnswer, RenameAnswer, WriteExit, RenameExit, Exit, Analyser, FlagInv
<1>4. CASE ReaderThread
  BY <1>4 DEF ReaderThread, ParseLayer, EndOfFile, imwrite, LowerFlag, Return, Reader, FlagInv
<1>5. CASE UNCHANGED vars
  BY <1>5 DEF vars, reader, FlagInv
<1>. QED BY <1>1, <1>2, <1>3, <1>4, <1>5 DEF Next

\* A step of one of the threads: no client moves, and the answer does not go away.
LEMMA ThreadOrder ==
  ASSUME OrderInv, UNCHANGED client, AtBack => AtBack',
         orderly => Alone',
         orderly /\ Idle => Idle',
         orderly => \A c \in Waiting : Request(c)'
  PROVE  OrderInv'
<1>1. /\ UNCHANGED <<cgi, command, strs, seen, orderly>> /\ Waiting' = Waiting
  BY DEF client, Waiting
<1>2. ASSUME orderly, NEW c \in Clients PROVE Got(c)'
  BY <1>1, <1>2 DEF OrderInv, Got, Fits
<1>. QED BY <1>1, <1>2 DEF OrderInv

\* A request is made when there is no other, and so nothing is on its way.
LEMMA PostOrder ==
  ASSUME TypeOK, OrderInv, NEW c \in Clients, Post(c)
  PROVE  OrderInv'
<1>. SUFFICES ASSUME orderly' PROVE OrderInv'
  BY DEF OrderInv
<1>1. orderly /\ Waiting = {} /\ Idle
  BY DEF Post, OrderInv
<1>2. PICK cmd \in Commands : /\ fifo' = Append(fifo, cmd)
                              /\ command' = [command EXCEPT ![c] = cmd]
  BY DEF Post
<1>3. /\ cgi[c] = "start" /\ cgi' = [cgi EXCEPT ![c] = "poll"]
      /\ seen' = [seen EXCEPT ![c] = bmp]
      /\ UNCHANGED <<strs, recv, buf, str_fifo, fifoRecv, analyser, new, back,
                     file_continue_flag, slc, bmp>>
  BY DEF Post, channel, reader
<1>4. fifo' = <<cmd>> /\ command'[c] = cmd /\ seen'[c] = bmp /\ cgi'[c] = "poll"
  BY <1>1, <1>2, <1>3 DEF Idle, AtFifo, TypeOK
<1>5. \A d \in Clients \ {c} : /\ cgi'[d] = cgi[d] /\ command'[d] = command[d]
                               /\ seen'[d] = seen[d]
  BY <1>2, <1>3 DEF TypeOK
<1>6. Waiting' = {c}
  BY <1>1, <1>4, <1>5 DEF Waiting
<1>7. Alone'
  BY <1>1, <1>3 DEF Idle, Alone, AtFifo, AtReceiver, AtFlag, AtAnalyser, AtBack
<1>8. Request(c)'
  BY <1>1, <1>3, <1>4 DEF Idle, Request, AtFifo, AtReceiver, AtFlag, AtAnalyser, AtBack
<1>9. ASSUME NEW d \in Clients PROVE Got(d)'
  <2>1. Got(d)
    BY <1>1 DEF OrderInv
  <2>2. CASE d = c
    BY <1>3, <1>4, <2>1, <2>2 DEF Got
  <2>3. CASE d # c
    BY <1>3, <1>5, <2>1, <2>3 DEF Got, Fits, AtBack
  <2>. QED BY <2>2, <2>3
<1>. QED BY <1>6, <1>7, <1>8, <1>9 DEF OrderInv

\* The one client there is finds, reads and removes the answer to its own request.
LEMMA CgiOrder ==
  ASSUME TypeOK, OrderInv, NEW c \in Clients, PostFails(c) \/ GiveUp(c) \/ Cgi(c)
  PROVE  OrderInv'
<1>. SUFFICES ASSUME orderly' PROVE OrderInv'
  BY DEF OrderInv
<1>1. /\ UNCHANGED <<command, seen, fifo, recv, buf, str_fifo, fifoRecv, analyser, new,
                     file_continue_flag, slc, bmp>>
      /\ orderly
  BY DEF PostFails, GiveUp, Cgi, Found, ReadBack, ReadNull, RemoveBack, Client, channel, reader
<1>2. Alone /\ (Waiting = {} => Idle) /\ (\A d, e \in Waiting : d = e)
      /\ (\A d \in Waiting : Request(d)) /\ (\A d \in Clients : Got(d))
  BY <1>1 DEF OrderInv
<1>3. CASE PostFails(c)
  <2>1. UNCHANGED <<strs, back>> /\ cgi[c] = "start" /\ cgi' = [cgi EXCEPT ![c] = "done"]
    BY <1>3 DEF PostFails, Client
  <2>2. Waiting' = Waiting
    BY <2>1 DEF Waiting, TypeOK
  <2>3. \A d \in Clients : Got(d)'
    BY <1>1, <1>2, <2>1 DEF Got, Fits, AtBack, TypeOK
  <2>. QED BY <1>1, <1>2, <2>1, <2>2, <2>3
           DEF OrderInv, Alone, Idle, Request, Fits, Current, AtFifo, AtReceiver, AtFlag,
               AtAnalyser, AtBack
<1>4. CASE Found(c) \/ ReadBack(c)
  <2>1. /\ back # NoAnswer /\ back' = back
        /\ \/ cgi[c] = "poll" /\ cgi' = [cgi EXCEPT ![c] = "read"] /\ strs' = strs
           \/ /\ cgi[c] = "read" /\ cgi' = [cgi EXCEPT ![c] = "remove"]
              /\ strs' = [strs EXCEPT ![c] = back]
    BY <1>4 DEF Found, ReadBack, Client
  <2>2. Waiting' = Waiting /\ c \in Waiting
    BY <2>1 DEF Waiting, TypeOK
  <2>3. Fits(c, back)
    BY <1>2, <2>1, <2>2 DEF Request, AtBack
  <2>4. ASSUME NEW d \in Clients PROVE Got(d)'
    <3>1. CASE d = c
      BY <1>1, <1>2, <2>1, <2>3, <3>1 DEF Got, Fits, AtBack, TypeOK
    <3>2. CASE d # c
      BY <1>1, <1>2, <2>1, <3>2 DEF Got, Fits, AtBack, TypeOK
    <3>. QED BY <3>1, <3>2
  <2>. QED BY <1>1, <1>2, <2>1, <2>2, <2>4
           DEF OrderInv, Alone, Idle, Request, Fits, Current, AtFifo, AtReceiver, AtFlag,
               AtAnalyser, AtBack
<1>5. CASE ReadNull(c)
  BY <1>2, <1>5 DEF ReadNull, Client, Got, AtBack
<1>6. CASE RemoveBack(c)
  <2>1. /\ strs' = strs /\ back' = NoAnswer
        /\ cgi[c] = "remove" /\ cgi' = [cgi EXCEPT ![c] = "done"]
    BY <1>6 DEF RemoveBack, Client
  <2>2. Waiting = {c} /\ Waiting' = {}
    BY <1>2, <2>1 DEF Waiting, TypeOK
  <2>3. AtBack
    BY <1>2, <2>1 DEF Got
  <2>4. Alone' /\ Idle'
    BY <1>1, <1>2, <2>1, <2>3 DEF Alone, Idle, AtFifo, AtReceiver, AtFlag, AtAnalyser, AtBack
  <2>5. ASSUME NEW d \in Clients PROVE Got(d)'
    <3>1. d # c => cgi[d] \notin {"read", "remove"}
      BY <2>2 DEF Waiting
    <3>. QED BY <1>1, <1>2, <2>1, <3>1 DEF Got, Fits, TypeOK
  <2>. QED BY <2>2, <2>4, <2>5 DEF OrderInv
<1>7. CASE GiveUp(c)
  BY <1>7 DEF GiveUp
<1>. QED BY <1>3, <1>4, <1>5, <1>6, <1>7 DEF Cgi

\* The receiver takes the one command there is, and copies it whole before it says so.
LEMMA ReceiverOrder ==
  ASSUME TypeOK, OrderInv, ReceiverThread
  PROVE  OrderInv'
<1>1. UNCHANGED <<client, analyser, new, back, file_continue_flag, slc, bmp>>
  BY DEF ReceiverThread, OpenFifo, ReadFifo, StartCopy, EndCopy, RaiseRecv, Receiver, reader
<1>2. orderly => Alone' /\ (Idle => Idle')
  BY <1>1 DEF ReceiverThread, OpenFifo, ReadFifo, StartCopy, EndCopy, RaiseRecv, Receiver,
              OrderInv, Alone, Idle, AtFifo, AtReceiver, AtFlag, AtAnalyser, AtBack
<1>3. ASSUME orderly, NEW c \in Waiting PROVE Request(c)'
  <2>1. Request(c) /\ Alone /\ UNCHANGED <<command, seen>>
    BY <1>1, <1>3 DEF OrderInv, client
  <2>2. CASE OpenFifo
    BY <1>1, <2>1, <2>2 DEF OpenFifo, Receiver, Request, Fits, Current, AtFifo, AtReceiver,
                            AtFlag, AtBack
  <2>3. CASE ReadFifo
    <3>1. fifo = <<command[c]>> /\ fifo' = <<>>
      BY <2>1, <2>3 DEF ReadFifo, Request, AtFifo
    <3>2. Len(fifo) = 1 /\ Head(fifo) = command[c]
      BY <3>1
    <3>3. buf' = command[c] /\ recv' = "copy" /\ UNCHANGED <<str_fifo, fifoRecv>>
      BY <2>3, <3>2 DEF ReadFifo, Receiver
    <3>4. ~AtFlag /\ ~AtAnalyser /\ ~AtBack /\ bmp = seen[c]
      BY <2>1, <2>3 DEF ReadFifo, Alone, Request, AtFifo
    <3>. QED BY <1>1, <2>1, <3>1, <3>3, <3>4 DEF Request, AtFifo, AtReceiver, AtFlag, AtAnalyser, AtBack
  <2>4. CASE StartCopy \/ EndCopy \/ RaiseRecv
    <3>1. AtReceiver /\ ~AtFlag /\ ~AtAnalyser /\ ~AtBack
      BY <2>1, <2>4 DEF StartCopy, EndCopy, RaiseRecv, Receiver, Alone, AtReceiver
    <3>2. UNCHANGED <<fifo, buf>>
      BY <2>4 DEF StartCopy, EndCopy, RaiseRecv
    <3>3. \/ recv' = "half"
          \/ recv' = "raise" /\ str_fifo' = buf
          \/ recv = "raise" /\ recv' = "read" /\ str_fifo' = str_fifo
      BY <2>4 DEF StartCopy, EndCopy, RaiseRecv, Receiver
    <3>4. recv' # "read" => fifoRecv' = fifoRecv
      BY <2>4 DEF StartCopy, EndCopy, RaiseRecv, Receiver
    <3>. QED BY <1>1, <2>1, <3>1, <3>2, <3>3, <3>4
             DEF Request, AtFifo, AtReceiver, AtFlag, AtAnalyser, AtBack
  <2>. QED BY <2>2, <2>3, <2>4 DEF ReceiverThread
<1>. QED BY <1>1, <1>2, <1>3, ThreadOrder DEF AtBack

\* The analyser carries out the one command there is, and its answer is about that.
LEMMA AnalyserOrder ==
  ASSUME TypeOK, AskedInv, FlagInv, OrderInv, AnalyserThread
  PROVE  OrderInv'
<1>1. UNCHANGED <<client, fifo, recv, buf, str_fifo, bmp, LayerCurrent>> /\ alive
  BY DEF AnalyserThread, TakeRecv, analyseNext, CompareExit, CompareOther, WaitForImage,
         WriteAnswer, RenameAnswer, WriteExit, RenameExit, Exit, Analyser
<1>2. AtBack => AtBack'
  BY DEF AnalyserThread, TakeRecv, analyseNext, CompareExit, CompareOther, WaitForImage,
         WriteAnswer, RenameAnswer, WriteExit, RenameExit, Exit, Analyser, AtBack, FlagInv
<1>3. orderly => Alone' /\ (Idle => Idle')
  BY <1>1 DEF AnalyserThread, TakeRecv, analyseNext, CompareExit, CompareOther, WaitForImage,
         WriteAnswer, RenameAnswer, WriteExit, RenameExit, Exit, Analyser,
         OrderInv, Alone, Idle, AtFifo, AtReceiver, AtFlag, AtAnalyser, AtBack
<1>4. ASSUME orderly, NEW c \in Waiting PROVE Request(c)'
  <2>1. Request(c) /\ Alone /\ UNCHANGED <<command, seen>>
    BY <1>1, <1>4 DEF OrderInv, client
  <2>. USE DEF Request, Fits, Current, Alone, AtFifo, AtReceiver, AtFlag, AtAnalyser, AtBack
  <2>2. CASE TakeRecv
    BY <1>1, <2>1, <2>2 DEF TakeRecv, Analyser
  <2>3. CASE analyseNext
    BY <1>1, <2>1, <2>3 DEF analyseNext, Analyser, FlagInv
  <2>4. CASE CompareExit
    BY <1>1, <2>1, <2>4 DEF CompareExit, Analyser
  <2>5. CASE CompareOther
    BY <1>1, <2>1, <2>5 DEF CompareOther, Analyser
  <2>6. CASE WaitForImage
    BY <1>1, <2>1, <2>6 DEF WaitForImage, Analyser
  <2>7. CASE WriteAnswer
    <3>1. LayerCurrent \in {bmp, bmp + 1}
      BY <1>1 DEF AskedInv, alive
    <3>2. /\ new' = [kind |-> "BMP_OK", LayerCurrent |-> LayerCurrent, bmp |-> bmp]
          /\ analyser = "answer" /\ analyser' = "rename"
          /\ UNCHANGED <<fifoRecv, back, file_continue_flag, slc>>
      BY <2>7 DEF WriteAnswer, Analyser
    <3>3. /\ new'.kind = "BMP_OK" /\ new'.bmp = bmp /\ new'.LayerCurrent = LayerCurrent
      BY <3>2
    <3>. QED BY <1>1, <2>1, <3>1, <3>2, <3>3
  <2>8. CASE RenameAnswer \/ RenameExit
    BY <1>1, <2>1, <2>8 DEF RenameAnswer, RenameExit, Analyser
  <2>9. CASE WriteExit
    <3>1. /\ new' = Exited /\ analyser = "exit" /\ analyser' = "rename_exit"
          /\ UNCHANGED <<fifoRecv, back, file_continue_flag, slc>>
      BY <2>9 DEF WriteExit, Analyser
    <3>. QED BY <1>1, <2>1, <3>1, AnswerKinds
  <2>10. CASE Exit
    BY <1>1, <2>1, <2>10 DEF Exit, Analyser
  <2>. QED BY <2>2, <2>3, <2>4, <2>5, <2>6, <2>7, <2>8, <2>9, <2>10 DEF AnalyserThread
<1>. QED BY <1>1, <1>2, <1>3, <1>4, ThreadOrder

\* OpenSLC writes one image while the analyser waits for it, and none at another time.
LEMMA ReaderOrder ==
  ASSUME TypeOK, AskedInv, FlagInv, OrderInv, ReaderThread
  PROVE  OrderInv'
<1>1. UNCHANGED <<client, fifo, recv, buf, str_fifo, fifoRecv, analyser, new, back>>
  BY DEF ReaderThread, ParseLayer, EndOfFile, imwrite, LowerFlag, Return, Reader, channel
<1>2. orderly => Alone' /\ (Idle => Idle')
  BY <1>1 DEF OrderInv, Alone, Idle, AtFifo, AtReceiver, AtFlag, AtAnalyser, AtBack
<1>3. \/ UNCHANGED <<bmp, file_continue_flag>> /\ slc # "lower" /\ slc' # "lower"
      \/ analyser = "wait"
  BY DEF ReaderThread, ParseLayer, EndOfFile, imwrite, LowerFlag, Return, Reader, FlagInv
<1>4. ASSUME orderly, NEW c \in Waiting PROVE Request(c)'
  <2>1. Request(c) /\ Alone /\ UNCHANGED <<command, seen>>
    BY <1>1, <1>4 DEF OrderInv, client
  <2>. USE DEF Request, Fits, Current, AtFifo, AtReceiver, AtFlag, AtBack
  <2>2. CASE UNCHANGED <<bmp, file_continue_flag>> /\ slc # "lower" /\ slc' # "lower"
    BY <1>1, <2>1, <2>2
  <2>3. CASE analyser = "wait"
    <3>1. ~AtFifo /\ ~AtReceiver /\ ~AtFlag /\ ~AtBack
      BY <2>1, <2>3 DEF Alone, AtAnalyser
    <3>2. bmp' = IF file_continue_flag' = 1 /\ slc' # "lower" THEN seen[c] ELSE seen[c] + 1
      BY <2>1, <2>3 DEF ReaderThread, ParseLayer, EndOfFile, imwrite, LowerFlag, Return, Reader,
                        FlagInv, AskedInv
    <3>. QED BY <1>1, <2>1, <2>3, <3>1, <3>2
  <2>. QED BY <1>3, <2>2, <2>3
<1>. QED BY <1>1, <1>2, <1>4, ThreadOrder DEF AtBack

\* Every step of an orderly history.
LEMMA NextOrder == TypeOK /\ AskedInv /\ FlagInv /\ OrderInv /\ [Next]_vars => OrderInv'
<1>. SUFFICES ASSUME TypeOK, AskedInv, FlagInv, OrderInv, [Next]_vars PROVE OrderInv'
  OBVIOUS
<1>1. CASE UNCHANGED vars
  <2>1. UNCHANGED <<client, fifo, recv, buf, str_fifo, fifoRecv, analyser, new, back,
                    file_continue_flag, slc, bmp>>
    BY <1>1 DEF vars, channel, reader
  <2>2. orderly => Alone' /\ (Idle => Idle')
    BY <2>1 DEF OrderInv, Alone, Idle, AtFifo, AtReceiver, AtFlag, AtAnalyser, AtBack
  <2>3. ASSUME orderly, NEW c \in Waiting PROVE Request(c)'
    BY <2>1, <2>3 DEF OrderInv, client, Request, Fits, Current, AtFifo, AtReceiver, AtFlag, AtBack
  <2>. QED BY <2>1, <2>2, <2>3, ThreadOrder DEF AtBack
<1>. QED BY <1>1, PostOrder, CgiOrder, ReceiverOrder, AnalyserOrder, ReaderOrder DEF Next

\* What the two theorems share.
LEMMA OrderAlways == Spec => [](TypeOK /\ FlagInv /\ OrderInv)
<1>1. TypeOK /\ TypeOK' /\ AskedInv /\ [Next]_vars => AskedInv'
  BY NextAsked
<1>2. FlagInv /\ [Next]_vars => FlagInv'
  BY NextFlag
<1>3. TypeOK /\ AskedInv /\ FlagInv /\ OrderInv /\ [Next]_vars => OrderInv'
  BY NextOrder
<1>. QED BY <1>1, <1>2, <1>3, ServiceTypeCorrect, InitAsked, InitOrder, PTL DEF Spec

\* As long as requests come one at a time and none is given up, each client gets the answer
\* to its own request and finds dst.bmp one layer further, and no client reads a file that is
\* gone (mult-post.c 66-107, main.cpp 226-268): for any number of requests, one after another.
THEOREM AnswersFit == Spec => []OwnAnswer
<1>1. OrderInv => OwnAnswer
  BY DEF OrderInv, Got, Fits, OwnAnswer
<1>. QED BY <1>1, OrderAlways, PTL

\* Under the same condition the image an answer is about is not written over before the
\* client has taken the answer, although OpenSLC goes on parsing (main.cpp 236-249,
\* SLC_Read.cpp 710-715).
THEOREM ImagesStay == Spec => []ImageStays
<1>1. FlagInv /\ OrderInv => ImageStays
  <2>. SUFFICES ASSUME FlagInv, OrderInv, orderly
                PROVE  Current(new) /\ Current(back)
    BY DEF ImageStays, Current
  <2>1. Current(NoAnswer)
    BY AnswerKinds DEF Current
  <2>2. CASE Waiting = {}
    <3>1. new = NoAnswer /\ back = NoAnswer
      BY <2>2 DEF FlagInv, OrderInv, Idle, AtAnalyser, AtBack
    <3>. QED BY <2>1, <3>1
  <2>3. ASSUME NEW c \in Waiting PROVE Current(new) /\ Current(back)
    <3>1. Request(c)
      BY DEF OrderInv
    <3>. QED BY <2>1, <3>1 DEF FlagInv, Request, AtBack
  <2>. QED BY <2>2, <2>3
<1>. QED BY <1>1, OrderAlways, PTL

=============================================================================
