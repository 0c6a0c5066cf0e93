--------------------------- MODULE MarlinLinkProofs ---------------------------
(***************************************************************************)
(* Theorems about MarlinLink, for every number of layers, every bound on   *)
(* the lines in flight and every combination of Lossy and Paced unless a   *)
(* theorem says otherwise.                                                 *)
(***************************************************************************)
EXTENDS MarlinLink, GMFileProofs, SequenceTheorems

\* Line 0 never carries an order: a damaged line is told from every real one.
LEMMA LinesType == Garbled \in Lines /\ \A h \in Orders : Number(h) \in Lines \ {Garbled}
BY NumberType, FileLengthNat DEF Lines, Garbled

\* view_command_head names a real line, also when the list is empty.
LEMMA ViewType ==
  ASSUME TypeOK
  PROVE  view_command_head \in Lines
BY LinesType, FileLengthNat DEF TypeOK, view_command_head, ListEmpty, Orders, NumOrders

\* What the board says about a refused line are three replies.
LEMMA ComplaintType ==
  ASSUME NEW n, last \in Lines
  PROVE  Complaint(n) \in Seq(Replies)
<1>1. LineError(last) \in Replies /\ Checksum \in Replies /\ Resend \in Replies /\ Ok \in Replies
  BY DEF Replies
<1>. QED BY <1>1 DEF Complaint

\* What tcflush leaves of the unread replies are replies.
LEMMA AfterFlushType ==
  ASSUME replies \in Seq(Replies)
  PROVE  AfterFlush \subseteq Seq(Replies)
<1>1. <<>> \in Seq(Replies)
  OBVIOUS
<1>2. ASSUME NEW k \in 0 .. Len(replies)
      PROVE  SubSeq(replies, k + 1, Len(replies)) \in Seq(Replies)
  <2>1. \A i \in k + 1 .. Len(replies) : replies[i] \in Replies
    BY <1>2, ElementOfSeq, LenProperties
  <2>. QED BY <2>1, <1>2, SubSeqProperties, LenProperties
<1>. QED BY <1>1, <1>2 DEF AfterFlush

-----------------------------------------------------------------------------
(* Type correctness. *)

\* The list as GM_Read leaves it, with nothing sent, has its types.
LEMMA InitType == Init => TypeOK
<1>. SUFFICES ASSUME Init PROVE TypeOK
  OBVIOUS
<1>1. head \in 1 .. NumOrders + 1 /\ {last, completed, Line_Last, Head_Last} \subseteq Lines
  BY FileLengthNat DEF Init, Lines, NumOrders
<1>2. wire \in Seq(Lines) /\ exec \in Seq(Lines) /\ replies \in Seq(Replies)
  BY DEF Init
<1>3. RevBuf3 \in Replies \cup {Empty} /\ reply \in {"poll", "fun2", "fun3"}
  BY DEF Init
<1>4. printing \in BOOLEAN /\ cut \in BOOLEAN
  BY DEF Init
<1>5. order_status \in 0 .. 1 /\ next_flag \in 0 .. 1 /\ file_continue_flag \in 0 .. 1
  BY DEF Init
<1>. QED BY <1>1, <1>2, <1>3, <1>4, <1>5 DEF TypeOK

\* Every step of the three threads, the projector and the board keeps the types.
LEMMA NextType == TypeOK /\ [Next]_vars => TypeOK'
<1>. SUFFICES ASSUME TypeOK, [Next]_vars PROVE TypeOK'
  OBVIOUS
<1>. USE DEF TypeOK
<1>1. CASE send_head
  <2>1. replies' \in Seq(Replies)
    BY <1>1, AfterFlushType DEF send_head, send
  <2>2. Number(head) \in Lines /\ Garbled \in Lines
    BY <1>1, LinesType, FileLengthNat DEF send_head, ListEmpty, Orders, NumOrders
  <2>3. \/ wire' = wire
        \/ \E n \in Lines : wire' = Append(wire, n)
    BY <1>1, <2>2 DEF send_head, send, SendWhole, SendNothing, SendFront
  <2>4. wire' \in Seq(Lines)
    <3>1. CASE wire' = wire
      BY <3>1
    <3>2. ASSUME NEW n \in Lines, wire' = Append(wire, n)
          PROVE  wire' \in Seq(Lines)
      BY <3>2, AppendProperties
    <3>. QED BY <2>3, <3>1, <3>2
  <2>5. cut' \in BOOLEAN
    BY <1>1 DEF send_head, send, SendWhole, SendNothing, SendFront
  <2>. QED BY <1>1, <2>1, <2>4, <2>5 DEF send_head, board, judgment
<1>2. CASE EndPrint
  BY <1>2 DEF EndPrint, board, judgment
<1>3. CASE BoardAccept
  <2>1. Head(wire) \in Lines /\ wire' \in Seq(Lines)
    BY <1>3, HeadTailProperties DEF BoardAccept
  <2>. QED BY <1>3, <2>1 DEF BoardAccept, host, judgment
<1>4. CASE BoardRefuse
  <2>1. wire' \in Seq(Lines)
    BY <1>4, HeadTailProperties DEF BoardRefuse
  <2>2. replies' \in Seq(Replies)
    BY <1>4, ComplaintType, ConcatProperties DEF BoardRefuse
  <2>. QED BY <1>4, <2>1, <2>2 DEF BoardRefuse, host, board, judgment
<1>5. CASE BoardFinish
  <2>1. Head(exec) \in Lines /\ exec' \in Seq(Lines)
    BY <1>5, HeadTailProperties DEF BoardFinish
  <2>2. replies' \in Seq(Replies)
    BY <1>5 DEF BoardFinish, Replies
  <2>. QED BY <1>5, <2>1, <2>2 DEF BoardFinish, host, judgment
<1>6. CASE Uart_REC
  <2>1. Head(replies) \in Replies /\ replies' \in Seq(Replies)
    BY <1>6, HeadTailProperties DEF Uart_REC
  <2>. QED BY <1>6, <2>1 DEF Uart_REC, host, board, judgment
<1>7. CASE HandleLineError
  <2>1. RevBuf3.last \in Lines
    BY <1>7, FileLengthNat
       DEF HandleLineError, Handles, Replies, Empty, Ok, Resend, Checksum, LineError, Lines
  <2>. QED BY <1>7, <2>1, ViewType DEF HandleLineError, Handles, board
<1>8. CASE HandleChecksum
  BY <1>8 DEF HandleChecksum, Handles, board
<1>9. CASE HandleResend
  BY <1>9 DEF HandleResend, Handles, board
<1>10. CASE IgnoreOk
  BY <1>10 DEF IgnoreOk, Handles, board
<1>11. CASE TakeOk
  BY <1>11, FileLengthNat
     DEF TakeOk, Handles, board, judgment, delHeadGoods, ListEmpty, NumOrders
<1>12. CASE StartWait
  BY <1>12 DEF StartWait, Handles, board, judgment
<1>13. CASE EndWait
  BY <1>13, FileLengthNat
     DEF EndWait, board, judgment, delHeadGoods, ListEmpty, NumOrders
<1>14. CASE ShowImage
  BY <1>14 DEF ShowImage, host, board, judgment
<1>15. CASE UNCHANGED vars
  BY <1>15 DEF vars, host, board, judgment
<1>. QED
  BY <1>1, <1>2, <1>3, <1>4, <1>5, <1>6, <1>7, <1>8, <1>9, <1>10, <1>11, <1>12, <1>13,
     <1>14, <1>15 DEF Next, ReplyThread

\* The state of the three threads, the link and the board keeps its types.
THEOREM TypeCorrect == Spec => []TypeOK
BY InitType, NextType, PTL DEF Spec

-----------------------------------------------------------------------------
(* The projector and the list stay in step. *)

\* Why an exposure finds its image: the flag is down from the moment M106 is at the head
\* until M107 has gone, because M106 is preceded by the wait that needs it down, and the
\* reply thread only waits or exposes for an order that is still at the head.
ImageInv ==
  /\ ~ListEmpty /\ Class(head) \in {2, 4} => file_continue_flag = 0
  /\ reply = "fun2" => ~ListEmpty /\ Class(head) = 3
  /\ reply = "fun3" => ~ListEmpty /\ Class(head) = 2

\* A list that is not empty has one of the orders of the file at its head.
LEMMA HeadIsOrder == TypeOK /\ ~ListEmpty => head \in Orders
BY FileLengthNat DEF TypeOK, ListEmpty, Orders, NumOrders

\* print() raises the flag before the first order, which neither waits nor exposes.
LEMMA InitImage == Init => ImageInv
<1>. SUFFICES ASSUME Init PROVE ImageInv
  OBVIOUS
<1>1. head = 1 /\ reply = "poll"
  BY DEF Init
<1>. QED BY <1>1, FirstClass DEF ImageInv

\* An order that leaves the list leaves the flag right for the next one.
LEMMA DeletePreservesImage ==
  ASSUME TypeOK, ~ListEmpty, delHeadGoods, reply' = "poll",
         file_continue_flag' = 1 => Class(head) \notin {2, 3},
         file_continue_flag' \in 0 .. 1
  PROVE  ImageInv'
<1>1. head \in Orders /\ head' = head + 1 /\ head + 1 \in Nat
  BY HeadIsOrder, FileLengthNat DEF delHeadGoods, Orders, NumOrders
<1>2. ASSUME ~ListEmpty', Class(head') \in {2, 4}
      PROVE  file_continue_flag' = 0
  <2>1. head + 1 \in Orders
    BY <1>1, <1>2, FileLengthNat DEF ListEmpty, Orders, NumOrders
  <2>2. Class(head + 1) = 2 => Class(head) = 3
    BY <1>1, <2>1, WaitBeforeExposure
  <2>3. Class(head + 1) = 4 => Class(head) = 2
    BY <1>1, <2>1, ExposureBeforeNext
  <2>. QED BY <1>1, <1>2, <2>2, <2>3
<1>. QED BY <1>2 DEF ImageInv

\* Only M107 raises the flag and only the projector lowers it, so no step can start an
\* exposure with the flag up.
LEMMA NextImage == TypeOK /\ ImageInv /\ [Next]_vars => ImageInv'
<1>. SUFFICES ASSUME TypeOK, ImageInv, [Next]_vars PROVE ImageInv'
  OBVIOUS
<1>t. TypeOK'
  BY NextType
<1>1. CASE TakeOk
  <2>1. ~ListEmpty /\ delHeadGoods /\ reply' = "poll" /\ Class(head) \in {0, 1, 4}
    BY <1>1 DEF TakeOk, Handles, Acknowledged, Class
  <2>2. file_continue_flag' \in 0 .. 1
    BY <1>t DEF TypeOK
  <2>. QED BY <2>1, <2>2, DeletePreservesImage
<1>2. CASE StartWait
  BY <1>2 DEF StartWait, Handles, Acknowledged, ImageInv, ListEmpty, Class
<1>3. CASE EndWait
  <2>1. ~ListEmpty /\ delHeadGoods /\ reply' = "poll"
    BY <1>3 DEF EndWait, ImageInv, TypeOK
  <2>2. file_continue_flag' = 0
    BY <1>3 DEF EndWait, ImageInv, TypeOK
  <2>. QED BY <2>1, <2>2, DeletePreservesImage
<1>4. CASE ShowImage
  BY <1>4 DEF ShowImage, host, ImageInv, ListEmpty
<1>5. CASE UNCHANGED <<head, reply, file_continue_flag>>
  BY <1>5 DEF ImageInv, ListEmpty
<1>6. ASSUME [Next]_vars, ~TakeOk, ~StartWait, ~EndWait, ~ShowImage
      PROVE  UNCHANGED <<head, reply, file_continue_flag>>
  BY <1>6 DEF Next, ReplyThread, send_head, EndPrint, BoardAccept, BoardRefuse, BoardFinish,
              Uart_REC, HandleLineError, HandleChecksum, HandleResend, IgnoreOk, Handles,
              vars, host, board
<1>. QED BY <1>1, <1>2, <1>3, <1>4, <1>5, <1>6

\* However slow or lossy the link, and whatever the number of layers: no exposure begins
\* before the projector shows its image.
THEOREM ImageAlwaysFirst == Spec => []ImageBeforeExposure
<1>1. TypeOK /\ ImageInv => ImageBeforeExposure
  BY DEF ImageInv, ImageBeforeExposure
<1>. QED BY <1>1, TypeCorrect, InitImage, NextImage, PTL DEF Spec

-----------------------------------------------------------------------------
(* No order is skipped on a link that loses nothing. *)

\* Lines w behind line l: each is the one before it again, or the next.
Chained(w, l) ==
  /\ w \in Seq(1 .. FileLength)
  /\ w # <<>> => w[1] \in {l, l + 1}
  /\ \A k \in 1 .. Len(w) - 1 : w[k + 1] \in {w[k], w[k] + 1}

\* The newest line on its way, or l when there is none.
Newest(w, l) == IF w = <<>> THEN l ELSE w[Len(w)]

\* No number between l and the newest line is missing.
Covered(w, l) == \A n \in l + 1 .. Newest(w, l) : \E k \in 1 .. Len(w) : w[k] = n

\* The newest line that the host has sent is a line of the file.
LEMMA NewestType ==
  ASSUME NEW l \in Lines, NEW w, Chained(w, l)
  PROVE  Newest(w, l) \in Lines
BY FileLengthNat, LenProperties DEF Chained, Newest, Lines

\* Sending the newest line again, or the next one, keeps the chain.
LEMMA ChainAppend ==
  ASSUME NEW l \in Lines, NEW w, Chained(w, l), Covered(w, l),
         NEW n \in 1 .. FileLength, n \in {Newest(w, l), Newest(w, l) + 1}
  PROVE  /\ Chained(Append(w, n), l)
         /\ Newest(Append(w, n), l) = n
         /\ Covered(Append(w, n), l)
<1>. DEFINE v == Append(w, n)
<1>1. /\ v \in Seq(1 .. FileLength) /\ v # <<>>
      /\ Len(w) \in Nat /\ Len(v) = Len(w) + 1
      /\ \A k \in 1 .. Len(w) : v[k] = w[k]
      /\ v[Len(w) + 1] = n
  <2>1. w \in Seq(1 .. FileLength)
    BY DEF Chained
  <2>2. Len(w) \in Nat
    BY <2>1, LenProperties
  <2>. QED BY <2>1, <2>2, AppendProperties
<1>2. Newest(v, l) = n
  BY <1>1 DEF Newest
<1>3. Chained(v, l)
  <2>1. v[1] \in {l, l + 1}
    <3>1. CASE w = <<>>
      BY <1>1, <3>1 DEF Newest
    <3>2. CASE w # <<>>
      BY <1>1, <3>2, LenProperties, EmptySeq DEF Chained
    <3>. QED BY <3>1, <3>2
  <2>2. ASSUME NEW k \in 1 .. Len(v) - 1
        PROVE  v[k + 1] \in {v[k], v[k] + 1}
    <3>1. CASE k = Len(w)
      <4>1. w # <<>>
        BY <3>1, <2>2, <1>1
      <4>. QED BY <1>1, <3>1, <4>1, <2>2 DEF Newest
    <3>2. CASE k < Len(w)
      BY <1>1, <3>2, <2>2 DEF Chained
    <3>. QED BY <3>1, <3>2, <2>2, <1>1
  <2>. QED BY <1>1, <2>1, <2>2 DEF Chained
<1>4. Covered(v, l)
  <2>. SUFFICES ASSUME NEW m \in l + 1 .. n
                PROVE  \E k \in 1 .. Len(v) : v[k] = m
    BY <1>2 DEF Covered
  <2>1. Newest(w, l) \in Nat /\ l \in Nat
    BY NewestType, FileLengthNat DEF Lines
  <2>2. CASE m = n
    BY <1>1, <2>2
  <2>3. CASE m \in l + 1 .. Newest(w, l)
    <3>1. PICK k \in 1 .. Len(w) : w[k] = m
      BY <2>3 DEF Covered
    <3>. QED BY <1>1, <3>1
  <2>. QED BY <2>1, <2>2, <2>3
<1>. QED BY <1>2, <1>3, <1>4

\* Reading the first line keeps the chain, now behind that line.
LEMMA ChainTail ==
  ASSUME NEW l \in Lines, NEW w, Chained(w, l), Covered(w, l), w # <<>>
  PROVE  /\ w[1] \in 1 .. FileLength
         /\ w[1] \in {l, l + 1}
         /\ Chained(Tail(w), w[1])
         /\ Newest(Tail(w), w[1]) = Newest(w, l)
         /\ Covered(Tail(w), w[1])
<1>. DEFINE v == Tail(w)
<1>1. /\ v \in Seq(1 .. FileLength)
      /\ Len(v) \in Nat /\ Len(w) = Len(v) + 1
      /\ \A k \in 1 .. Len(v) : v[k] = w[k + 1]
      /\ w[1] \in 1 .. FileLength
  <2>1. w \in Seq(1 .. FileLength)
    BY DEF Chained
  <2>2. Len(w) \in Nat \ {0}
    BY <2>1, EmptySeq
  <2>3. w[1] \in 1 .. FileLength
    <3>1. 1 \in 1 .. Len(w)
      BY <2>2
    <3>. QED BY <2>1, <3>1, ElementOfSeq
  <2>. QED BY <2>1, <2>2, <2>3, HeadTailProperties
<1>2. v = <<>> <=> Len(v) = 0
  BY <1>1, EmptySeq
<1>3. w[1] \in {l, l + 1}
  BY DEF Chained
<1>4. Chained(v, w[1])
  <2>1. v # <<>> => v[1] \in {w[1], w[1] + 1}
    BY <1>1, <1>2 DEF Chained
  <2>2. ASSUME NEW k \in 1 .. Len(v) - 1
        PROVE  v[k + 1] \in {v[k], v[k] + 1}
    BY <1>1, <2>2 DEF Chained
  <2>. QED BY <1>1, <2>1, <2>2 DEF Chained
<1>5. Newest(v, w[1]) = Newest(w, l)
  BY <1>1, <1>2 DEF Newest
<1>6. Covered(v, w[1])
  <2>. SUFFICES ASSUME NEW m \in w[1] + 1 .. Newest(w, l)
                PROVE  \E k \in 1 .. Len(v) : v[k] = m
    BY <1>5 DEF Covered
  <2>1. Newest(w, l) \in Nat /\ l \in Nat /\ w[1] \in Nat
    BY <1>1, NewestType, FileLengthNat DEF Lines
  <2>2. m \in l + 1 .. Newest(w, l) /\ m # w[1]
    BY <1>3, <2>1
  <2>3. PICK k \in 1 .. Len(w) : w[k] = m
    BY <2>2 DEF Covered
  <2>4. k - 1 \in 1 .. Len(v) /\ v[k - 1] = m
    BY <1>1, <2>2, <2>3
  <2>. QED BY <2>4
<1>. QED BY <1>1, <1>3, <1>4, <1>5, <1>6

\* Why nothing is skipped: the lines in flight are a chain from the last line the board
\* accepted to the newest one sent, an order only leaves the list once it has been sent,
\* and so the next order is the newest line again or the one after it.
ChainInv ==
  /\ ~cut
  /\ Chained(wire, last) /\ Covered(wire, last)
  /\ Newest(wire, last) <= view_command_head
  /\ \A i \in 1 .. head - 1 : Number(i) <= Newest(wire, last)
  /\ ~ListEmpty /\ order_status = 1 => Number(head) <= Newest(wire, last)
  /\ reply # "poll" => ~ListEmpty /\ order_status = 1

\* Before the first send there is nothing on the wire and nothing to cover.
LEMMA InitChain == Init => ChainInv
<1>. SUFFICES ASSUME Init PROVE ChainInv
  OBVIOUS
<1>1. Chained(wire, last) /\ Newest(wire, last) = 0 /\ Covered(wire, last)
  BY DEF Init, Chained, Newest, Covered
<1>2. view_command_head \in Nat
  BY InitType, ViewType DEF Lines
<1>3. ~cut /\ head = 1 /\ order_status = 0 /\ reply = "poll"
  BY DEF Init
<1>. QED BY <1>1, <1>2, <1>3 DEF ChainInv

\* The repeated last line has the number of the line before it; every other order has the
\* number after that of its predecessor.
LEMMA NumberStep ==
  /\ Number(1) = 1
  /\ \A h \in Orders : h + 1 \in Orders => Number(h + 1) \in {Number(h), Number(h) + 1}
  /\ \A h \in Orders : \A i \in 1 .. h : Number(i) <= Number(h)
  /\ \A h \in Orders : Number(h) <= Number(NumOrders)
BY FileLengthNat DEF Orders, NumOrders, Number

\* An order that has been sent may leave the list.
LEMMA DeletePreservesChain ==
  ASSUME TypeOK, ChainInv, ~ListEmpty, order_status = 1, delHeadGoods,
         UNCHANGED <<wire, cut, last>>, reply' = "poll"
  PROVE  ChainInv'
<1>1. head \in Orders /\ head' = head + 1 /\ order_status' = 0
  BY HeadIsOrder DEF delHeadGoods
<1>2. view_command_head = Number(head)
  BY DEF view_command_head
<1>3. Number(head) <= view_command_head'
  <2>1. CASE ListEmpty'
    BY <1>1, <2>1, NumberStep DEF view_command_head
  <2>2. CASE ~ListEmpty'
    <3>1. head + 1 \in Orders
      BY <1>1, <2>2, FileLengthNat DEF ListEmpty, Orders, NumOrders
    <3>2. head \in 1 .. head + 1
      BY <1>1, FileLengthNat DEF Orders, NumOrders
    <3>3. Number(head) <= Number(head + 1)
      BY <3>1, <3>2, NumberStep
    <3>. QED BY <1>1, <2>2, <3>3 DEF view_command_head
  <2>. QED BY <2>1, <2>2
<1>4. Newest(wire, last) \in Nat /\ Number(head) \in Nat /\ view_command_head' \in Nat
  <2>1. head + 1 \in Orders \/ ListEmpty'
    BY <1>1, FileLengthNat DEF ListEmpty, Orders, NumOrders
  <2>2. NumOrders \in Orders
    BY FileLengthNat DEF Orders, NumOrders
  <2>. QED
    BY <1>1, <2>1, <2>2, NewestType, NumberType, FileLengthNat
       DEF ChainInv, TypeOK, Lines, view_command_head
<1>5. Newest(wire, last) <= view_command_head'
  BY <1>2, <1>3, <1>4 DEF ChainInv
<1>6. \A i \in 1 .. head' - 1 : Number(i) <= Newest(wire, last)
  BY <1>1, FileLengthNat DEF ChainInv, Orders, NumOrders
<1>. QED BY <1>1, <1>5, <1>6 DEF ChainInv, Newest, Covered, Chained

\* Sending the head again, or for the first time, continues the chain.
LEMMA SendPreservesChain ==
  ASSUME TypeOK, ChainInv, ~Lossy, send_head
  PROVE  ChainInv'
<1>1. head \in Orders /\ ~ListEmpty
  BY HeadIsOrder DEF send_head
<1>2. /\ wire' = Append(wire, Number(head)) /\ ~cut'
      /\ head' = head /\ last' = last /\ reply' = reply /\ order_status' = 1
  BY DEF send_head, send, SendWhole, SendNothing, SendFront, ChainInv, board
<1>3. Newest(wire, last) \in Nat /\ Number(head) \in 1 .. FileLength
  BY <1>1, NewestType, NumberType, FileLengthNat DEF ChainInv, TypeOK, Lines
<1>4. Newest(wire, last) <= Number(head)
  BY <1>1 DEF ChainInv, view_command_head
<1>5. Number(head) <= Newest(wire, last) + 1
  <2>1. CASE head = 1
    BY <1>3, <2>1, NumberStep
  <2>2. CASE head # 1
    <3>1. head - 1 \in Orders /\ (head - 1) + 1 = head
      BY <1>1, <2>2, FileLengthNat DEF Orders, NumOrders
    <3>2. Number(head) \in {Number(head - 1), Number(head - 1) + 1}
      BY <1>1, <3>1, NumberStep
    <3>3. Number(head - 1) <= Newest(wire, last)
      BY <1>1, <3>1, FileLengthNat DEF ChainInv, Orders, NumOrders
    <3>4. Number(head - 1) \in Nat
      BY <3>1, NumberType, FileLengthNat
    <3>. QED BY <1>3, <3>2, <3>3, <3>4
  <2>. QED BY <2>1, <2>2
<1>6. Number(head) \in {Newest(wire, last), Newest(wire, last) + 1}
  BY <1>3, <1>4, <1>5
<1>7. /\ Chained(wire', last') /\ Covered(wire', last')
      /\ Newest(wire', last') = Number(head)
  BY <1>2, <1>3, <1>6, ChainAppend DEF ChainInv, TypeOK
<1>8. view_command_head' = Number(head) /\ ~ListEmpty'
  BY <1>1, <1>2 DEF view_command_head, ListEmpty
<1>9. \A i \in 1 .. head - 1 : Number(i) <= Number(head)
  BY <1>1, NumberStep, FileLengthNat DEF Orders, NumOrders
<1>10. reply' # "poll" => ~ListEmpty' /\ order_status' = 1
  BY <1>2, <1>8
<1>11. Newest(wire', last') <= view_command_head'
  BY <1>3, <1>7, <1>8
<1>12. \A i \in 1 .. head' - 1 : Number(i) <= Newest(wire', last')
  BY <1>2, <1>7, <1>9
<1>13. Number(head') <= Newest(wire', last')
  BY <1>2, <1>3, <1>7
<1>. QED
  <2>1. ChainInv' <=>
          /\ ~cut'
          /\ Chained(wire', last') /\ Covered(wire', last')
          /\ Newest(wire', last') <= view_command_head'
          /\ \A i \in 1 .. head' - 1 : Number(i) <= Newest(wire', last')
          /\ ~ListEmpty' /\ order_status' = 1 => Number(head') <= Newest(wire', last')
          /\ reply' # "poll" => ~ListEmpty' /\ order_status' = 1
    BY DEF ChainInv, Chained, Covered, Newest
  <2>. QED BY <2>1, <1>2, <1>7, <1>10, <1>11, <1>12, <1>13

\* The board reads a line: the next one, or one it has seen.
LEMMA ReadPreservesChain ==
  ASSUME TypeOK, ChainInv, wire # <<>>, wire' = Tail(wire),
         last' = wire[1], UNCHANGED <<head, order_status, cut, reply>>
  PROVE  ChainInv'
<1>1. /\ Chained(wire', last') /\ Covered(wire', last')
      /\ Newest(wire', last') = Newest(wire, last)
  BY ChainTail DEF ChainInv, TypeOK
<1>2. view_command_head' = view_command_head /\ ListEmpty' = ListEmpty
  BY DEF view_command_head, ListEmpty
<1>3. ChainInv' <=>
        /\ ~cut'
        /\ Chained(wire', last') /\ Covered(wire', last')
        /\ Newest(wire', last') <= view_command_head'
        /\ \A i \in 1 .. head' - 1 : Number(i) <= Newest(wire', last')
        /\ ~ListEmpty' /\ order_status' = 1 => Number(head') <= Newest(wire', last')
        /\ reply' # "poll" => ~ListEmpty' /\ order_status' = 1
  BY DEF ChainInv, Chained, Covered, Newest
<1>. QED BY <1>1, <1>2, <1>3 DEF ChainInv

\* Every step of a lossless link keeps the chain from the board's last line to the head.
LEMMA NextChain == ~Lossy /\ TypeOK /\ ChainInv /\ [Next]_vars => ChainInv'
<1>. SUFFICES ASSUME ~Lossy, TypeOK, ChainInv, [Next]_vars PROVE ChainInv'
  OBVIOUS
<1>1. CASE send_head
  BY <1>1, SendPreservesChain
<1>2. CASE BoardAccept
  <2>1. wire # <<>> /\ wire' = Tail(wire) /\ wire[1] \in 1 .. FileLength /\ last' = wire[1]
    BY <1>2, ChainTail DEF BoardAccept, ChainInv, TypeOK
  <2>. QED BY <1>2, <2>1, ReadPreservesChain DEF BoardAccept, host
<1>3. CASE BoardRefuse
  <2>1. wire # <<>> /\ wire' = Tail(wire) /\ wire[1] \in 1 .. FileLength
        /\ wire[1] \in {last, last + 1}
    BY <1>3, ChainTail DEF BoardRefuse, ChainInv, TypeOK
  <2>2. wire[1] # last + 1
    BY <1>3, <2>1, FileLengthNat DEF BoardRefuse, Acceptable, Garbled
  <2>3. last' = wire[1]
    BY <1>3, <2>1, <2>2 DEF BoardRefuse, board
  <2>. QED BY <1>3, <2>1, <2>3, ReadPreservesChain DEF BoardRefuse, host
<1>4. CASE TakeOk
  <2>1. /\ ~ListEmpty /\ order_status = 1 /\ delHeadGoods /\ reply' = "poll"
        /\ UNCHANGED <<wire, cut, last>>
    BY <1>4 DEF TakeOk, Handles, Acknowledged, board
  <2>. QED BY <2>1, DeletePreservesChain
<1>5. CASE EndWait
  <2>1. /\ ~ListEmpty /\ order_status = 1 /\ delHeadGoods /\ reply' = "poll"
        /\ UNCHANGED <<wire, cut, last>>
    BY <1>5 DEF EndWait, ChainInv, board
  <2>. QED BY <2>1, DeletePreservesChain
<1>6. CASE StartWait
  BY <1>6 DEF StartWait, Handles, Acknowledged, board, ChainInv, Chained, Covered, Newest,
              view_command_head, ListEmpty
<1>7. CASE UNCHANGED <<head, order_status, wire, cut, last, reply>>
  BY <1>7 DEF ChainInv, Chained, Covered, Newest, view_command_head, ListEmpty
<1>8. ASSUME [Next]_vars, ~send_head, ~BoardAccept, ~BoardRefuse, ~TakeOk, ~EndWait, ~StartWait
      PROVE  UNCHANGED <<head, order_status, wire, cut, last, reply>>
  BY <1>8 DEF Next, ReplyThread, EndPrint, BoardFinish, Uart_REC, ShowImage,
              HandleLineError, HandleChecksum, HandleResend, IgnoreOk, Handles,
              vars, host, board
<1>. QED BY <1>1, <1>2, <1>3, <1>4, <1>5, <1>6, <1>7, <1>8

\* On a link that loses nothing the host never skips an order, however late and however
\* often the board answers and whatever is in flight.
THEOREM NeverSkips ==
  ASSUME ~Lossy
  PROVE  Spec => []NotSkipped
<1>1. TypeOK /\ ChainInv => NotSkipped
  <2>. SUFFICES ASSUME TypeOK, ChainInv, NEW i \in 1 .. head - 1, ~(Number(i) <= last)
                PROVE  \E k \in 1 .. Len(wire) : wire[k] = Number(i)
    BY DEF NotSkipped
  <2>1. i \in Orders
    BY FileLengthNat DEF TypeOK, Orders, NumOrders
  <2>2. Number(i) \in Nat /\ last \in Nat /\ Newest(wire, last) \in Nat
    BY <2>1, NumberType, NewestType, FileLengthNat DEF ChainInv, TypeOK, Lines
  <2>3. Number(i) \in last + 1 .. Newest(wire, last)
    BY <2>2 DEF ChainInv
  <2>. QED BY <2>3 DEF ChainInv, Covered
<1>2. TypeOK /\ ChainInv /\ [Next]_vars => ChainInv'
  BY NextChain
<1>. QED BY <1>1, <1>2, TypeCorrect, InitChain, PTL DEF Spec

-----------------------------------------------------------------------------
(* The acknowledgements of a board that is Paced. *)

\* The lines q behind the line r, when there is one.
Behind(r, q) == IF r = Empty THEN q ELSE <<r>> \o q

\* What the reply thread has not handled yet.
Unread == Behind(RevBuf3, replies)

\* The first order whose ok may still be missing: the head, or the one after it while
\* the reply thread waits with the head's ok in its hands.
Due == IF reply = "poll" THEN head ELSE head + 1

\* The ok at place k of q ends a complaint about a damaged line or one before order d.
Cancelled(q, k, d) ==
  /\ k >= 3
  /\ q[k - 1] = Resend
  /\ q[k - 2] = Checksum \/ \E x \in Lines : x < d /\ q[k - 2] = LineError(x)

\* The reply thread will throw away the ok at place k of Unread.
Harmless(k) ==
  \/ k = 1 /\ next_flag = 1
  \/ /\ k = 2 /\ Unread[1] = Resend
     /\ next_flag = 1 \/ Head_Last # Line_Last \/ Class(head) \in {1, 3}
  \/ Cancelled(Unread, k, Due)

\* The ok at place k is the last thing the board said about the head, which it finished.
Live(k) == k = Len(Unread) /\ completed = head /\ wire = <<>> /\ exec = <<>>

\* The reply thread reads replies.
PollInv ==
  reply = "poll" =>
    /\ \A k \in 1 .. Len(Unread) : Unread[k] = Ok => Harmless(k) \/ Live(k)
    /\ order_status = 0 => completed = head - 1 /\ exec = <<>>
    /\ exec # <<>> => exec = <<head>> /\ wire = <<>> /\ last = head

\* The reply thread waits in fun2 or fun3.
WaitInv ==
  reply # "poll" =>
    /\ RevBuf3 = Ok /\ completed = head /\ exec = <<>>
    /\ order_status = 1 /\ Class(head) \in {2, 3}
    /\ \A k \in 1 .. Len(replies) : replies[k] = Ok => Cancelled(replies, k, Due)

\* The board has finished the head, or everything before it.
BoardInv ==
  /\ head <= NumOrders /\ completed \in {head - 1, head}
  /\ exec = <<>> => last = completed
  /\ wire # <<>> => \E n \in Lines :
       /\ wire = <<n>>
       /\ \/ n = Garbled
          \/ order_status = 1 /\ n = Number(head)
          \/ order_status = 0 /\ n = head - 1 /\ n # 1

\* Why an ok that counts is the head's own: of the oks that are still unread each is
\* either going to be thrown away or the very last thing the board said, after it finished
\* the head (PollInv); a wait only begins with such an ok and what is sent meanwhile is a
\* copy of the finished line (WaitInv); and of all lines in flight the board can only
\* accept the head (BoardInv).
PacedInv == BoardInv /\ PollInv /\ WaitInv

\* The kinds of reply lines are told apart by thread_3.
LEMMA KindOfReply ==
  ASSUME NEW r \in Replies \cup {Empty}
  PROVE  /\ r = Empty <=> r \notin Replies
         /\ r.kind = "ok" <=> r = Ok
         /\ r.kind = "resend" <=> r = Resend
         /\ r.kind = "checksum" <=> r = Checksum
         /\ r.kind = "line" <=> \E n \in Lines : r = LineError(n) /\ r.last = n
BY DEF Replies, Empty, Ok, Resend, Checksum, LineError

\* Unread is the line in the hands of the reply thread and then the lines behind it.
LEMMA BehindShape ==
  ASSUME NEW r \in Replies \cup {Empty}, NEW q \in Seq(Replies)
  PROVE  /\ Behind(r, q) \in Seq(Replies)
         /\ Len(q) \in Nat /\ Len(Behind(r, q)) \in Nat
         /\ r = Empty => Behind(r, q) = q
         /\ r # Empty =>
              /\ Behind(r, q)[1] = r /\ Len(Behind(r, q)) = Len(q) + 1
              /\ \A k \in 1 .. Len(q) : Behind(r, q)[k + 1] = q[k]
<1>1. Len(q) \in Nat
  BY LenProperties
<1>2. CASE r = Empty
  BY <1>1, <1>2 DEF Behind
<1>3. CASE r # Empty
  <2>1. r \in Replies
    BY <1>3
  <2>2. <<r>> \in Seq(Replies) /\ Len(<<r>>) = 1 /\ <<r>>[1] = r
    BY <2>1
  <2>3. Behind(r, q) = <<r>> \o q
    BY <1>3 DEF Behind
  <2>. QED BY <1>1, <1>3, <2>2, <2>3, ConcatProperties
<1>. QED BY <1>2, <1>3

\* What the board adds to the replies comes at the end of Unread.
LEMMA BehindConcat ==
  ASSUME NEW r \in Replies \cup {Empty}, NEW q \in Seq(Replies), NEW s \in Seq(Replies)
  PROVE  /\ Len(Behind(r, q \o s)) = Len(Behind(r, q)) + Len(s)
         /\ \A k \in 1 .. Len(Behind(r, q)) : Behind(r, q \o s)[k] = Behind(r, q)[k]
         /\ \A k \in 1 .. Len(s) : Behind(r, q \o s)[Len(Behind(r, q)) + k] = s[k]
<1>1. /\ q \o s \in Seq(Replies) /\ Len(q \o s) = Len(q) + Len(s)
      /\ Len(q) \in Nat /\ Len(s) \in Nat
      /\ \A i \in 1 .. Len(q) + Len(s) :
            (q \o s)[i] = IF i <= Len(q) THEN q[i] ELSE s[i - Len(q)]
  BY ConcatProperties, LenProperties
<1>2. CASE r = Empty
  BY <1>1, <1>2 DEF Behind
<1>3. CASE r # Empty
  <2>. DEFINE B == Behind(r, q)
              C == Behind(r, q \o s)
  <2>1. /\ B[1] = r /\ Len(B) = Len(q) + 1
        /\ \A k \in 1 .. Len(q) : B[k + 1] = q[k]
    BY <1>3, BehindShape
  <2>2. /\ C[1] = r /\ Len(C) = Len(q \o s) + 1
        /\ \A k \in 1 .. Len(q \o s) : C[k + 1] = (q \o s)[k]
    BY <1>1, <1>3, BehindShape
  <2>. HIDE DEF B, C
  <2>3. ASSUME NEW k \in 1 .. Len(B)
        PROVE  C[k] = B[k]
    <3>1. CASE k = 1
      BY <2>1, <2>2, <3>1
    <3>2. CASE k # 1
      <4>1. k - 1 \in 1 .. Len(q) /\ k - 1 \in 1 .. Len(q \o s) /\ (k - 1) + 1 = k
        BY <1>1, <2>1, <3>2
      <4>2. B[k] = q[k - 1] /\ C[k] = (q \o s)[k - 1]
        BY <4>1, <2>1, <2>2
      <4>. QED BY <4>1, <4>2, <1>1
    <3>. QED BY <3>1, <3>2
  <2>4. ASSUME NEW k \in 1 .. Len(s)
        PROVE  C[Len(B) + k] = s[k]
    <3>1. Len(q) + k \in 1 .. Len(q \o s) /\ Len(B) + k = (Len(q) + k) + 1
      BY <1>1, <2>1
    <3>2. C[Len(B) + k] = (q \o s)[Len(q) + k]
      BY <3>1, <2>2
    <3>. QED BY <3>1, <3>2, <1>1
  <2>. QED BY <1>1, <2>1, <2>2, <2>3, <2>4 DEF B, C
<1>. QED BY <1>2, <1>3

\* Every order but the repeated last line carries its own number.
LEMMA NumberIs ==
  ASSUME NEW h \in Orders
  PROVE  /\ h <= FileLength => Number(h) = h
         /\ h > FileLength => h = NumOrders /\ Number(h) = FileLength /\ Class(h) = 1
         /\ Class(1) = 0
         /\ h \in Nat /\ h >= 1
<1>1. Class(NumOrders) = 1
  BY FileLengthNat DEF Class, Number, NumOrders, compareSelf, GMCreat
<1>. QED BY <1>1, FirstClass, FileLengthNat DEF Orders, NumOrders, Number

\* A reply that acknowledges nothing is handled: whatever was going to be thrown away
\* behind it still is.
LEMMA HandlePreservesPaced ==
  ASSUME TypeOK, PacedInv, HandleLineError \/ HandleChecksum \/ HandleResend \/ IgnoreOk
  PROVE  PacedInv'
<1>. DEFINE kind == RevBuf3.kind
<1>1. /\ reply = "poll" /\ reply' = "poll" /\ RevBuf3 # Empty /\ RevBuf3' = Empty
      /\ head' = head /\ order_status' = order_status
      /\ UNCHANGED <<wire, last, exec, completed, replies>>
  BY DEF HandleLineError, HandleChecksum, HandleResend, IgnoreOk, Handles, board, Empty
<1>2. /\ RevBuf3 \in Replies /\ head \in Orders /\ view_command_head = Number(head)
      /\ head \in Nat
  BY <1>1, FileLengthNat
     DEF TypeOK, PacedInv, BoardInv, view_command_head, ListEmpty, Orders, NumOrders
<1>3. /\ Unread' = replies /\ Len(replies) \in Nat
      /\ Unread[1] = RevBuf3 /\ Len(Unread) = Len(replies) + 1
      /\ \A k \in 1 .. Len(replies) : Unread[k + 1] = replies[k]
  BY <1>1, BehindShape DEF Unread, Behind, TypeOK
<1>4. Due = head /\ Due' = head
  BY <1>1 DEF Due
<1>5. ASSUME NEW k \in 1 .. Len(replies), replies[k] = Ok, Harmless(k + 1)
      PROVE  Harmless(k)'
  <2>1. CASE k + 1 = 2 /\ Unread[1] = Resend
             /\ (next_flag = 1 \/ Head_Last # Line_Last \/ Class(head) \in {1, 3})
    <3>1. RevBuf3.kind = "resend"
      BY <1>2, <1>3, <2>1, KindOfReply
    <3>2. HandleResend
      BY <3>1 DEF HandleLineError, HandleChecksum, IgnoreOk, Handles
    <3>3. next_flag' = 1
      BY <3>2, <2>1, <1>2 DEF HandleResend, Class
    <3>. QED BY <3>3, <2>1 DEF Harmless
  <2>2. CASE k >= 3 /\ Cancelled(Unread, k + 1, Due)
    <3>1. replies[k - 1] = Unread[k] /\ replies[k - 2] = Unread[k - 1]
      BY <1>3, <2>2
    <3>2. Cancelled(replies, k, head)
      BY <2>2, <3>1, <1>4 DEF Cancelled
    <3>. QED BY <3>2, <1>3, <1>4 DEF Harmless, Cancelled
  <2>3. CASE k = 2 /\ Cancelled(Unread, k + 1, Due)
    <3>1. replies[1] = Resend
      BY <1>3, <2>3 DEF Cancelled
    <3>2. CASE RevBuf3 = Checksum
      <4>1. HandleChecksum
        BY <1>2, <3>2, KindOfReply DEF HandleLineError, HandleResend, IgnoreOk, Handles, Checksum
      <4>2. next_flag' = 1
        BY <4>1 DEF HandleChecksum
      <4>. QED BY <4>2, <3>1, <1>3, <2>3 DEF Harmless
    <3>3. ASSUME NEW x \in Lines, x < head, RevBuf3 = LineError(x)
          PROVE  Harmless(k)'
      <4>1. HandleLineError
        BY <3>3 DEF HandleChecksum, HandleResend, IgnoreOk, Handles, LineError
      <4>2. Line_Last' = x /\ Head_Last' = Number(head)
        BY <4>1, <1>2, <3>3 DEF HandleLineError, LineError
      <4>3. Number(head) # x \/ Class(head) = 1
        BY <1>2, <3>3, NumberIs, FileLengthNat DEF Orders, NumOrders, Lines
      <4>. QED BY <4>2, <4>3, <3>1, <1>1, <1>3, <2>3 DEF Harmless, Class
    <3>. QED BY <1>3, <1>4, <2>3, <3>2, <3>3 DEF Cancelled
  <2>. QED BY <1>5, <2>1, <2>2, <2>3, <1>3 DEF Harmless, Cancelled
<1>6. ASSUME NEW k \in 1 .. Len(replies), replies[k] = Ok
      PROVE  (Harmless(k) \/ Live(k))'
  <2>1. Harmless(k + 1) \/ Live(k + 1)
    BY <1>1, <1>3, <1>6 DEF PacedInv, PollInv
  <2>2. CASE Live(k + 1)
    BY <1>1, <1>3, <2>2 DEF Live
  <2>. QED BY <2>1, <2>2, <1>5, <1>6
<1>7. PollInv'
  BY <1>1, <1>3, <1>6 DEF PollInv, PacedInv
<1>8. BoardInv'
  BY <1>1 DEF BoardInv, PacedInv
<1>. QED BY <1>1, <1>7, <1>8 DEF PacedInv, WaitInv

\* The list as it is before the first send.
LEMMA InitPaced == Init => PacedInv
<1>. SUFFICES ASSUME Init PROVE PacedInv
  OBVIOUS
<1>1. Unread = <<>> /\ Len(Unread) = 0
  BY DEF Init, Unread, Behind
<1>2. BoardInv
  BY FileLengthNat DEF Init, BoardInv, NumOrders
<1>3. PollInv
  BY <1>1 DEF Init, PollInv
<1>. QED BY <1>2, <1>3 DEF Init, PacedInv, WaitInv

\* A Paced host sends when the board is silent, so what tcflush throws away is either
\* nothing that is still counted, or replies that were going to be thrown away.
LEMMA SendPreservesPaced ==
  ASSUME Paced, TypeOK, PacedInv, send_head
  PROVE  PacedInv'
<1>1. /\ wire = <<>> /\ exec = <<>>
      /\ order_status = 1 /\ reply = "poll" => replies = <<>> /\ RevBuf3 = Empty
      /\ order_status' = 1 /\ UNCHANGED <<head, last, exec, completed, RevBuf3, reply, judgment>>
      /\ head \in Orders
  BY HeadIsOrder DEF send_head, SendDue, board
<1>2. \/ wire' = <<>>
      \/ \E n \in Lines : wire' = <<n>> /\ n \in {Garbled, Number(head)}
  <2>1. Append(wire, Garbled) = <<Garbled>> /\ Append(wire, Number(head)) = <<Number(head)>>
    BY <1>1
  <2>2. Garbled \in Lines /\ Number(head) \in Lines
    BY <1>1, LinesType
  <2>. QED BY <1>1, <2>1, <2>2 DEF send_head, send, SendWhole, SendNothing, SendFront
<1>3. replies' = replies \/ replies' = <<>>
  BY DEF send_head, send, AfterFlush
<1>4. BoardInv'
  BY <1>1, <1>2 DEF BoardInv, PacedInv
<1>5. CASE reply = "poll"
  <2>1. RevBuf3 \in Replies \cup {Empty} /\ replies \in Seq(Replies) /\ <<>> \in Seq(Replies)
    BY DEF TypeOK
  <2>2. /\ Len(Unread) \in Nat /\ Len(Unread') \in Nat /\ Len(Unread') <= Len(Unread)
        /\ \A k \in 1 .. Len(Unread') : Unread'[k] = Unread[k]
    <3>1. CASE replies' = replies
      BY <1>1, <2>1, <3>1, BehindShape DEF Unread
    <3>2. CASE replies' = <<>>
      <4>1. Unread' = Behind(RevBuf3, <<>>) /\ Unread = Behind(RevBuf3, <<>> \o replies)
        BY <1>1, <2>1, <3>2, ConcatEmptySeq DEF Unread
      <4>2. /\ Len(Behind(RevBuf3, <<>>)) \in Nat /\ Len(replies) \in Nat
            /\ Len(Unread) = Len(Behind(RevBuf3, <<>>)) + Len(replies)
            /\ \A k \in 1 .. Len(Behind(RevBuf3, <<>>)) : Unread[k] = Behind(RevBuf3, <<>>)[k]
        <5>1. /\ Len(Behind(RevBuf3, <<>> \o replies)) = Len(Behind(RevBuf3, <<>>)) + Len(replies)
              /\ \A k \in 1 .. Len(Behind(RevBuf3, <<>>)) :
                   Behind(RevBuf3, <<>> \o replies)[k] = Behind(RevBuf3, <<>>)[k]
          BY <2>1, BehindConcat
        <5>2. Len(Behind(RevBuf3, <<>>)) \in Nat /\ Len(replies) \in Nat
          BY <2>1, BehindShape
        <5>. QED BY <4>1, <5>1, <5>2
      <4>. QED BY <4>1, <4>2
    <3>. QED BY <1>3, <3>1, <3>2
  <2>3. CASE order_status = 1
    <3>1. Len(Unread') = 0
      <4>1. Len(Unread) = 0
        BY <1>1, <1>5, <2>3 DEF Unread, Behind
      <4>. QED BY <4>1, <2>2
    <3>. QED BY <1>1, <1>4, <1>5, <3>1 DEF PacedInv, PollInv, WaitInv
  <2>4. CASE order_status = 0
    <3>. SUFFICES ASSUME NEW k \in 1 .. Len(Unread'), Unread'[k] = Ok
                  PROVE  Harmless(k)'
      BY <1>1, <1>4, <1>5 DEF PacedInv, PollInv, WaitInv
    <3>1. k \in 1 .. Len(Unread) /\ Unread[k] = Ok
      BY <2>2
    <3>2. Harmless(k)
      <4>1. ~Live(k)
        BY <1>1, <1>5, <2>4, FileLengthNat DEF PacedInv, PollInv, Live, Orders, NumOrders
      <4>. QED BY <1>5, <3>1, <4>1 DEF PacedInv, PollInv
    <3>3. Due' = Due
      BY <1>1 DEF Due
    <3>4. Cancelled(Unread, k, Due) => Cancelled(Unread, k, Due)'
      <4>. SUFFICES ASSUME Cancelled(Unread, k, Due)
                    PROVE  Cancelled(Unread, k, Due)'
        OBVIOUS
      <4>1. k >= 3 /\ Unread'[k - 1] = Unread[k - 1] /\ Unread'[k - 2] = Unread[k - 2]
        BY <2>2 DEF Cancelled
      <4>. QED BY <3>3, <4>1 DEF Cancelled
    <3>5. k = 2 => Unread'[1] = Unread[1]
      BY <2>2
    <3>. QED BY <1>1, <3>2, <3>4, <3>5 DEF Harmless, judgment
  <2>. QED BY <2>3, <2>4 DEF TypeOK
<1>6. CASE reply # "poll"
  <2>1. \A k \in 1 .. Len(replies') : replies'[k] = Ok => Cancelled(replies', k, Due)
    <3>1. CASE replies' = replies
      BY <1>6, <3>1 DEF PacedInv, WaitInv
    <3>2. CASE replies' = <<>>
      BY <3>2
    <3>. QED BY <1>3, <3>1, <3>2
  <2>2. Due' = Due
    BY <1>1 DEF Due
  <2>3. \A k \in 1 .. Len(replies') : replies'[k] = Ok => Cancelled(replies, k, Due)'
    BY <2>1, <2>2 DEF Cancelled
  <2>. QED BY <1>1, <1>4, <1>6, <2>3 DEF PacedInv, PollInv, WaitInv
<1>. QED BY <1>5, <1>6

\* The line on its way to the board while the host is Paced.
LEMMA LineInFlight ==
  ASSUME TypeOK, PacedInv, wire # <<>>
  PROVE  /\ Head(wire) \in Lines /\ Tail(wire) = <<>>
         /\ \/ Head(wire) = Garbled
            \/ order_status = 1 /\ Head(wire) = Number(head)
            \/ order_status = 0 /\ Head(wire) = head - 1 /\ Head(wire) # 1
<1>1. PICK n \in Lines : /\ wire = <<n>>
                         /\ \/ n = Garbled
                            \/ order_status = 1 /\ n = Number(head)
                            \/ order_status = 0 /\ n = head - 1 /\ n # 1
  BY DEF PacedInv, BoardInv
<1>2. Head(wire) = n /\ Tail(wire) = <<>>
  BY <1>1
<1>. QED BY <1>1, <1>2

\* M110, the one command whose number the board does not look at, is on line 1.
LEMMA OnlyFirstIsM110 ==
  ASSUME NEW n \in Lines, GMCreat(n) = "M110"
  PROVE  n = 1
<1>1. CASE n = 1 \/ n = 2 \/ n = FileLength
  BY <1>1 DEF GMCreat
<1>2. CASE ~(n = 1 \/ n = 2 \/ n = FileLength)
  <2>1. GMCreat(n) = <<"M106", "M107", "G0", "G0", "M114">>[(n % 5) + 1]
    BY <1>2 DEF GMCreat
  <2>2. n % 5 \in 0 .. 4
    BY FileLengthNat DEF Lines
  <2>3. n % 5 = 0 \/ n % 5 = 1 \/ n % 5 = 2 \/ n % 5 = 3 \/ n % 5 = 4
    BY <2>2
  <2>. QED BY <2>1, <2>3
<1>. QED BY <1>1, <1>2

\* The board accepts a line only when it is the head, sent and not yet executed.
LEMMA AcceptIsHead ==
  ASSUME TypeOK, PacedInv, BoardAccept
  PROVE  /\ order_status = 1 /\ reply = "poll" /\ exec = <<>>
         /\ wire' = <<>> /\ last' = head /\ exec' = <<head>>
<1>1. /\ Head(wire) \in Lines /\ wire' = <<>>
      /\ \/ Head(wire) = Number(head) /\ order_status = 1
         \/ order_status = 0 /\ Head(wire) = head - 1 /\ Head(wire) # 1
      /\ last' = Head(wire) /\ exec' = Append(exec, Head(wire))
      /\ Head(wire) = last + 1 \/ Head(wire) = 1
  BY LineInFlight, OnlyFirstIsM110 DEF BoardAccept, Acceptable
<1>2. exec = <<>>
  BY DEF PacedInv, PollInv, WaitInv, BoardAccept
<1>3. last = completed /\ completed \in {head - 1, head} /\ head \in Orders
  BY <1>2, FileLengthNat DEF PacedInv, BoardInv, TypeOK, Orders, NumOrders
<1>4. order_status = 0 => completed = head - 1
  BY DEF PacedInv, PollInv, WaitInv
<1>5. order_status = 1 /\ Head(wire) = Number(head)
  BY <1>1, <1>3, <1>4, FileLengthNat DEF Orders, NumOrders
<1>6. Head(wire) = head
  BY <1>1, <1>3, <1>5, NumberIs, FileLengthNat DEF Orders, NumOrders
<1>7. reply = "poll"
  <2>. SUFFICES ASSUME reply # "poll" PROVE FALSE
    OBVIOUS
  <2>1. completed = head /\ Class(head) \in {2, 3}
    BY DEF PacedInv, WaitInv
  <2>2. head = 1
    BY <1>1, <1>3, <1>6, <2>1 DEF Orders
  <2>. QED BY <2>1, <2>2, FirstClass
<1>8. Append(exec, Head(wire)) = <<head>>
  BY <1>2, <1>6
<1>. QED BY <1>1, <1>2, <1>5, <1>6, <1>7, <1>8

\* The head goes from the wire into execution.
LEMMA AcceptPreservesPaced ==
  ASSUME TypeOK, PacedInv, BoardAccept
  PROVE  PacedInv'
<1>1. /\ order_status = 1 /\ reply = "poll" /\ exec = <<>>
      /\ wire' = <<>> /\ last' = head /\ exec' = <<head>>
  BY AcceptIsHead
<1>2. /\ UNCHANGED <<head, order_status, completed, replies, RevBuf3, reply,
                     next_flag, Line_Last, Head_Last>>
      /\ wire # <<>>
  BY DEF BoardAccept, host, judgment
<1>3. Unread' = Unread /\ Due' = Due
  BY <1>2 DEF Unread, Due
<1>4. BoardInv'
  BY <1>1, <1>2 DEF PacedInv, BoardInv
<1>5. PollInv'
  <2>1. ASSUME NEW k \in 1 .. Len(Unread), Unread[k] = Ok
        PROVE  Harmless(k)'
    <3>1. Harmless(k)
      BY <1>1, <1>2, <2>1 DEF PacedInv, PollInv, Live
    <3>. QED BY <1>2, <1>3, <3>1 DEF Harmless, Cancelled
  <2>. QED BY <1>1, <1>2, <1>3, <2>1 DEF PollInv
<1>. QED BY <1>1, <1>2, <1>4, <1>5 DEF PacedInv, WaitInv

\* The board finishes the head: its ok is the last thing to be read, and it counts.
LEMMA FinishPreservesPaced ==
  ASSUME TypeOK, PacedInv, BoardFinish
  PROVE  PacedInv'
<1>1. /\ reply = "poll" /\ order_status = 1 /\ exec = <<head>> /\ wire = <<>> /\ last = head
  BY DEF BoardFinish, PacedInv, PollInv, WaitInv, TypeOK
<1>2. /\ UNCHANGED <<head, order_status, wire, last, RevBuf3, reply,
                     next_flag, Line_Last, Head_Last>>
      /\ completed' = head /\ exec' = <<>> /\ replies' = Append(replies, Ok)
  BY <1>1 DEF BoardFinish, host, judgment
<1>3. BoardInv'
  BY <1>1, <1>2 DEF PacedInv, BoardInv
<1>4. /\ Len(Unread) \in Nat /\ Len(Unread') = Len(Unread) + 1
      /\ \A k \in 1 .. Len(Unread) : Unread'[k] = Unread[k]
  <2>1. RevBuf3 \in Replies \cup {Empty} /\ replies \in Seq(Replies) /\ Ok \in Replies
    BY DEF TypeOK, Replies
  <2>2. <<Ok>> \in Seq(Replies) /\ Len(<<Ok>>) = 1
    BY <2>1
  <2>3. Unread' = Behind(RevBuf3, replies \o <<Ok>>)
    BY <1>2, <2>1, AppendIsConcat DEF Unread
  <2>4. /\ Len(Behind(RevBuf3, replies \o <<Ok>>)) = Len(Behind(RevBuf3, replies)) + Len(<<Ok>>)
        /\ \A k \in 1 .. Len(Behind(RevBuf3, replies)) :
             Behind(RevBuf3, replies \o <<Ok>>)[k] = Behind(RevBuf3, replies)[k]
    BY <2>1, <2>2, BehindConcat
  <2>5. Len(Unread) \in Nat /\ Unread = Behind(RevBuf3, replies)
    BY <2>1, BehindShape DEF Unread
  <2>. QED BY <2>2, <2>3, <2>4, <2>5
<1>5. PollInv'
  <2>1. ASSUME NEW k \in 1 .. Len(Unread'), Unread'[k] = Ok
        PROVE  (Harmless(k) \/ Live(k))'
    <3>1. CASE k = Len(Unread')
      BY <1>1, <1>2, <3>1 DEF Live
    <3>2. CASE k # Len(Unread')
      <4>1. k \in 1 .. Len(Unread) /\ Unread[k] = Ok
        BY <1>4, <2>1, <3>2
      <4>2. Harmless(k)
        BY <1>1, <4>1 DEF PacedInv, PollInv, Live
      <4>3. k >= 3 => Unread'[k - 1] = Unread[k - 1] /\ Unread'[k - 2] = Unread[k - 2]
        BY <1>4, <4>1
      <4>4. k = 2 => Unread'[1] = Unread[1]
        BY <1>4, <4>1
      <4>5. Due' = Due
        BY <1>2 DEF Due
      <4>. QED BY <1>2, <4>2, <4>3, <4>4, <4>5 DEF Harmless, Cancelled
    <3>. QED BY <3>1, <3>2
  <2>. QED BY <1>1, <1>2, <2>1 DEF PollInv
<1>. QED BY <1>1, <1>2, <1>3, <1>5 DEF PacedInv, WaitInv

\* The board refuses a line: the ok of its complaint is thrown away, unless the complaint
\* is about the head itself and everything else has been said.
LEMMA RefusePreservesPaced ==
  ASSUME TypeOK, PacedInv, BoardRefuse
  PROVE  PacedInv'
<1>. DEFINE n == Head(wire)
            s == Complaint(n)
<1>1. /\ wire # <<>> /\ wire' = <<>> /\ replies' = replies \o s /\ ~Acceptable(n)
      /\ UNCHANGED <<head, order_status, last, exec, completed, RevBuf3, reply,
                     next_flag, Line_Last, Head_Last>>
  BY LineInFlight DEF BoardRefuse, host, board, judgment
<1>2. /\ n \in Lines
      /\ \/ n = Garbled
         \/ order_status = 1 /\ n = Number(head)
         \/ order_status = 0 /\ n = head - 1 /\ n # 1
  BY <1>1, LineInFlight
<1>3. exec = <<>> /\ last = completed /\ completed \in {head - 1, head} /\ head \in Orders
  BY <1>1, FileLengthNat DEF PacedInv, BoardInv, PollInv, WaitInv, TypeOK, Orders, NumOrders
<1>4. /\ s \in Seq(Replies) /\ Len(s) = 3
      /\ s[1] = IF n = Garbled THEN Checksum ELSE LineError(last)
      /\ s[2] = Resend /\ s[3] = Ok
  BY ComplaintType DEF Complaint, TypeOK
<1>5. Due' = Due
  BY <1>1 DEF Due
<1>6. \/ s[1] = Checksum
      \/ last \in Lines /\ last < Due /\ s[1] = LineError(last)
      \/ reply = "poll" /\ completed = head
  <2>1. last \in Lines /\ head \in Nat /\ last \in Nat
    BY <1>3, FileLengthNat DEF TypeOK, Lines, Orders, NumOrders
  <2>2. last < Due \/ (reply = "poll" /\ completed = head)
    BY <1>3, <2>1 DEF Due
  <2>3. s[1] = Checksum \/ s[1] = LineError(last)
    BY <1>4
  <2>. QED BY <2>1, <2>2, <2>3
<1>7. BoardInv'
  BY <1>1 DEF PacedInv, BoardInv
<1>. HIDE DEF n, s
<1>8. CASE reply = "poll"
  <2>1. RevBuf3 \in Replies \cup {Empty} /\ replies \in Seq(Replies)
    BY DEF TypeOK
  <2>2. /\ Len(Behind(RevBuf3, replies \o s)) = Len(Behind(RevBuf3, replies)) + Len(s)
        /\ \A k \in 1 .. Len(Behind(RevBuf3, replies)) :
             Behind(RevBuf3, replies \o s)[k] = Behind(RevBuf3, replies)[k]
        /\ \A k \in 1 .. Len(s) :
             Behind(RevBuf3, replies \o s)[Len(Behind(RevBuf3, replies)) + k] = s[k]
    BY <2>1, <1>4, BehindConcat
  <2>3. Unread = Behind(RevBuf3, replies) /\ Unread' = Behind(RevBuf3, replies \o s)
    BY <1>1 DEF Unread
  <2>4. /\ Len(Unread) \in Nat /\ Len(Unread') = Len(Unread) + 3
        /\ \A k \in 1 .. Len(Unread) : Unread'[k] = Unread[k]
        /\ Unread'[Len(Unread) + 1] = s[1] /\ Unread'[Len(Unread) + 2] = Resend
    BY <2>1, <2>2, <2>3, <1>4, BehindShape
  <2>5. ASSUME NEW k \in 1 .. Len(Unread'), Unread'[k] = Ok
        PROVE  (Harmless(k) \/ Live(k))'
    <3>1. CASE k = Len(Unread) + 3
      <4>1. CASE reply = "poll" /\ completed = head
        BY <1>1, <1>3, <2>4, <3>1, <4>1 DEF Live
      <4>2. CASE s[1] = Checksum \/ (last \in Lines /\ last < Due /\ s[1] = LineError(last))
        <5>1. k >= 3 /\ Unread'[k - 1] = Resend /\ Unread'[k - 2] = s[1]
          BY <2>4, <3>1
        <5>. QED BY <4>2, <5>1, <1>1, <1>5 DEF Harmless, Cancelled
      <4>. QED BY <1>6, <4>1, <4>2
    <3>2. CASE k # Len(Unread) + 3
      <4>1. k \in 1 .. Len(Unread) /\ Unread[k] = Ok
        <5>1. s[1] # Ok /\ Resend # Ok
          BY <1>4 DEF Checksum, LineError, Ok, Resend
        <5>2. k # Len(Unread) + 1 /\ k # Len(Unread) + 2
          BY <2>4, <2>5, <5>1
        <5>. QED BY <2>4, <2>5, <3>2, <5>2
      <4>2. Harmless(k)
        BY <1>1, <1>8, <4>1 DEF PacedInv, PollInv, Live
      <4>3. k >= 3 => Unread'[k - 1] = Unread[k - 1] /\ Unread'[k - 2] = Unread[k - 2]
        BY <2>4, <4>1
      <4>4. k = 2 => Unread'[1] = Unread[1]
        BY <2>4, <4>1
      <4>. QED BY <1>1, <1>5, <4>2, <4>3, <4>4 DEF Harmless, Cancelled
    <3>. QED BY <3>1, <3>2
  <2>. QED BY <1>1, <1>3, <1>7, <1>8, <2>5 DEF PacedInv, PollInv, WaitInv
<1>9. CASE reply # "poll"
  <2>1. /\ Len(replies) \in Nat /\ Len(replies') = Len(replies) + 3
        /\ \A k \in 1 .. Len(replies) : replies'[k] = replies[k]
        /\ replies'[Len(replies) + 1] = s[1] /\ replies'[Len(replies) + 2] = Resend
    <3>1. /\ replies \in Seq(Replies) /\ Len(replies) \in Nat
          /\ Len(replies \o s) = Len(replies) + Len(s)
          /\ \A i \in 1 .. Len(replies) + Len(s) :
              (replies \o s)[i] = IF i <= Len(replies) THEN replies[i] ELSE s[i - Len(replies)]
      BY <1>4, ConcatProperties, LenProperties DEF TypeOK
    <3>. QED BY <1>1, <1>4, <3>1
  <2>2. ASSUME NEW k \in 1 .. Len(replies'), replies'[k] = Ok
        PROVE  Cancelled(replies, k, Due)'
    <3>1. CASE k = Len(replies) + 3
      <4>1. k >= 3 /\ replies'[k - 1] = Resend /\ replies'[k - 2] = s[1]
        BY <2>1, <3>1
      <4>. QED BY <4>1, <1>5, <1>6, <1>9 DEF Cancelled
    <3>2. CASE k # Len(replies) + 3
      <4>1. k \in 1 .. Len(replies) /\ replies[k] = Ok
        <5>1. s[1] # Ok /\ Resend # Ok
          BY <1>4 DEF Checksum, LineError, Ok, Resend
        <5>2. k # Len(replies) + 1 /\ k # Len(replies) + 2
          BY <2>1, <2>2, <5>1
        <5>. QED BY <2>1, <2>2, <3>2, <5>2
      <4>2. Cancelled(replies, k, Due)
        BY <1>9, <4>1 DEF PacedInv, WaitInv
      <4>3. k >= 3 => replies'[k - 1] = replies[k - 1] /\ replies'[k - 2] = replies[k - 2]
        BY <2>1, <4>1
      <4>. QED BY <1>5, <4>2, <4>3 DEF Cancelled
    <3>. QED BY <3>1, <3>2
  <2>. QED BY <1>1, <1>7, <1>9, <2>2 DEF PacedInv, PollInv, WaitInv
<1>. QED BY <1>8, <1>9

\* The receiver hands over the next line: what is unread stays the same.
LEMMA HandOverPreservesPaced ==
  ASSUME TypeOK, PacedInv, Uart_REC
  PROVE  PacedInv'
<1>1. /\ RevBuf3 = Empty /\ replies \in Seq(Replies) /\ replies # <<>>
      /\ RevBuf3' = Head(replies) /\ replies' = Tail(replies)
      /\ UNCHANGED <<head, order_status, wire, last, exec, completed, reply,
                     next_flag, Line_Last, Head_Last>>
  BY DEF Uart_REC, TypeOK, host, board, judgment
<1>2. reply = "poll"
  BY <1>1 DEF PacedInv, WaitInv, Empty, Ok
<1>3. Unread' = Unread
  <2>1. Head(replies) \in Replies /\ Head(replies) # Empty
    BY <1>1, KindOfReply, HeadTailProperties
  <2>2. Unread = replies /\ Unread' = <<Head(replies)>> \o Tail(replies)
    BY <1>1, <2>1 DEF Unread, Behind
  <2>3. <<Head(replies)>> \o Tail(replies) = replies
    BY <1>1
  <2>. QED BY <2>2, <2>3
<1>. QED BY <1>1, <1>2, <1>3
         DEF PacedInv, PollInv, WaitInv, BoardInv, Harmless, Live, Cancelled, Due

\* An ok that counts is the last thing the board had to say, and the head is finished.
LEMMA CountedOkIsLive ==
  ASSUME TypeOK, PacedInv, Handles("ok"), Acknowledged
  PROVE  /\ reply = "poll" /\ order_status = 1 /\ RevBuf3 = Ok /\ replies = <<>>
         /\ completed = head /\ wire = <<>> /\ exec = <<>> /\ last = head
         /\ head \in Orders /\ head <= FileLength /\ Number(head) = head
<1>1. /\ reply = "poll" /\ order_status = 1 /\ next_flag = 0 /\ RevBuf3 = Ok
      /\ RevBuf3 # Empty /\ replies \in Seq(Replies) /\ RevBuf3 \in Replies \cup {Empty}
  BY KindOfReply DEF Handles, Acknowledged, TypeOK, Ok, Empty
<1>2. Unread[1] = Ok /\ Len(Unread) = Len(replies) + 1 /\ Len(replies) \in Nat
  BY <1>1, BehindShape DEF Unread
<1>3. Harmless(1) \/ Live(1)
  BY <1>1, <1>2 DEF PacedInv, PollInv
<1>4. Live(1)
  BY <1>1, <1>3 DEF Harmless, Cancelled
<1>5. replies = <<>>
  BY <1>1, <1>2, <1>4, EmptySeq DEF Live
<1>6. head \in Orders /\ completed \in Lines /\ last = completed
  BY <1>4, HeadIsOrder DEF Acknowledged, TypeOK, PacedInv, BoardInv, Live
<1>7. head <= FileLength
  BY <1>4, <1>6, FileLengthNat DEF Live, Lines
<1>. QED BY <1>1, <1>4, <1>5, <1>6, <1>7, NumberIs DEF Live

\* The head leaves the list with its ok.
LEMMA TakePreservesPaced ==
  ASSUME TypeOK, PacedInv, TakeOk
  PROVE  PacedInv'
<1>1. /\ replies = <<>> /\ completed = head /\ wire = <<>> /\ exec = <<>> /\ last = head
      /\ head \in Orders /\ head <= FileLength /\ reply = "poll"
  BY CountedOkIsLive DEF TakeOk
<1>2. /\ head' = head + 1 /\ order_status' = 0 /\ RevBuf3' = Empty /\ reply' = "poll"
      /\ UNCHANGED <<wire, last, exec, completed, replies>>
  BY <1>1 DEF TakeOk, Handles, Acknowledged, delHeadGoods, board
<1>3. Len(Unread') = 0
  BY <1>1, <1>2 DEF Unread, Behind
<1>4. BoardInv'
  BY <1>1, <1>2, FileLengthNat DEF BoardInv, Orders, NumOrders
<1>5. PollInv'
  BY <1>1, <1>2, <1>3, FileLengthNat DEF PollInv, Orders, NumOrders
<1>. QED BY <1>2, <1>4, <1>5 DEF PacedInv, WaitInv

\* The wait begins with the last thing the board had to say.
LEMMA StartWaitPreservesPaced ==
  ASSUME TypeOK, PacedInv, StartWait
  PROVE  PacedInv'
<1>1. /\ replies = <<>> /\ completed = head /\ wire = <<>> /\ exec = <<>> /\ last = head
      /\ head \in Orders /\ head <= FileLength /\ order_status = 1 /\ RevBuf3 = Ok
  BY CountedOkIsLive DEF StartWait
<1>2. /\ reply' # "poll" /\ Class(head) \in {2, 3}
      /\ UNCHANGED <<head, order_status, wire, last, exec, completed, replies, RevBuf3>>
  BY DEF StartWait, Handles, board, Class
<1>3. BoardInv'
  BY <1>1, <1>2, FileLengthNat DEF BoardInv, Orders, NumOrders
<1>4. Class(head') = Class(head)
  BY <1>2
<1>. QED BY <1>1, <1>2, <1>3, <1>4 DEF PacedInv, PollInv, WaitInv

\* After the wait the order leaves the list; what was sent meanwhile is a copy of it,
\* which the board refuses, and the complaints about it are thrown away.
LEMMA EndWaitPreservesPaced ==
  ASSUME TypeOK, PacedInv, EndWait
  PROVE  PacedInv'
<1>1. /\ reply # "poll" /\ order_status = 1 /\ exec = <<>> /\ completed = head
      /\ last = completed /\ Class(head) \in {2, 3} /\ head <= NumOrders
      /\ completed \in Lines /\ replies \in Seq(Replies)
  BY DEF EndWait, PacedInv, WaitInv, BoardInv, TypeOK
<1>2. head \in Orders /\ head <= FileLength /\ Number(head) = head /\ head # 1
  BY <1>1, FirstClass, NumberIs, FileLengthNat DEF TypeOK, Orders, Lines, NumOrders
<1>3. /\ head' = head + 1 /\ order_status' = 0 /\ RevBuf3' = Empty /\ reply' = "poll"
      /\ UNCHANGED <<wire, last, exec, completed, replies>>
  BY <1>2, FileLengthNat DEF EndWait, delHeadGoods, ListEmpty, Orders, NumOrders, board
<1>4. Unread' = replies /\ Due' = Due /\ Due = head + 1
  BY <1>1, <1>3 DEF Unread, Behind, Due
<1>5. BoardInv'
  <2>1. wire # <<>> => \E n \in Lines : wire = <<n>> /\ (n = Garbled \/ n = head)
    BY <1>1, <1>2 DEF PacedInv, BoardInv
  <2>2. \A n \in Lines : n = head => n = head' - 1 /\ n # 1
    BY <1>2, <1>3 DEF Orders
  <2>. QED BY <1>1, <1>2, <1>3, <2>1, <2>2, FileLengthNat DEF BoardInv, Orders, NumOrders
<1>6. PollInv'
  <2>1. ASSUME NEW k \in 1 .. Len(Unread'), Unread'[k] = Ok
        PROVE  Harmless(k)'
    <3>1. Cancelled(replies, k, Due)
      BY <1>1, <1>4, <2>1 DEF PacedInv, WaitInv
    <3>2. Cancelled(Unread', k, Due')
      BY <3>1, <1>4
    <3>. QED BY <3>2 DEF Harmless, Cancelled
  <2>. QED BY <1>1, <1>2, <1>3, <2>1 DEF PollInv, Orders
<1>. QED BY <1>3, <1>5, <1>6 DEF PacedInv, WaitInv

\* Every step of a host with a board that is Paced.
LEMMA NextPaced == Paced /\ TypeOK /\ PacedInv /\ [Next]_vars => PacedInv'
<1>. SUFFICES ASSUME Paced, TypeOK, PacedInv, [Next]_vars PROVE PacedInv'
  OBVIOUS
<1>1. CASE EndPrint \/ ShowImage \/ UNCHANGED vars
  BY <1>1 DEF EndPrint, ShowImage, vars, host, board, judgment, PacedInv, PollInv, WaitInv,
              BoardInv, Harmless, Live, Cancelled, Due, Unread, Behind
<1>2. CASE HandleLineError \/ HandleChecksum \/ HandleResend \/ IgnoreOk
  BY <1>2, HandlePreservesPaced
<1>. QED
  BY <1>1, <1>2, SendPreservesPaced, AcceptPreservesPaced, RefusePreservesPaced,
     FinishPreservesPaced, HandOverPreservesPaced, TakePreservesPaced,
     StartWaitPreservesPaced, EndWaitPreservesPaced DEF Next, ReplyThread

\* When the board answers within a resend period, an order only leaves the list, and a wait
\* or an exposure only begins, once the board has finished it: for every number of layers,
\* whatever tcflush discards, however many lines are damaged or sent twice.
THEOREM AcksMeanDone ==
  ASSUME Paced
  PROVE  Spec => []AckedIsDone
<1>1. TypeOK /\ PacedInv => AckedIsDone
  <2>. SUFFICES ASSUME TypeOK, PacedInv PROVE AckedIsDone
    OBVIOUS
  <2>1. head \in Orders /\ completed \in {head - 1, head}
    BY FileLengthNat DEF PacedInv, BoardInv, TypeOK, Orders, NumOrders
  <2>2. Number(head) <= head
    BY <2>1, FileLengthNat DEF Number, Orders, NumOrders
  <2>3. head > 1 => Number(head - 1) <= head - 1
    BY <2>1, FileLengthNat DEF Number, Orders, NumOrders
  <2>4. head \in Nat /\ Number(head) \in Nat /\ (head > 1 => Number(head - 1) \in Nat)
    BY <2>1, FileLengthNat DEF Number, Orders, NumOrders
  <2>5. reply # "poll" => completed = head
    BY DEF PacedInv, WaitInv
  <2>. QED BY <2>1, <2>2, <2>3, <2>4, <2>5 DEF AckedIsDone
<1>2. TypeOK /\ PacedInv /\ [Next]_vars => PacedInv'
  BY NextPaced
<1>. QED BY <1>1, <1>2, TypeCorrect, InitPaced, PTL DEF Spec

\* A step is the board finishing the head, the head leaving the list, or neither.
LEMMA StepDelivers ==
  ASSUME TypeOK, PacedInv, PacedInv', [Next]_vars
  PROVE  [InStep!Next]_(InStep!vars)
<1>1. CASE BoardFinish
  <2>1. exec = <<head>> /\ completed' = head /\ head' = head
    BY <1>1 DEF BoardFinish, PacedInv, PollInv, WaitInv, TypeOK, host
  <2>2. completed \in {head - 1, head} /\ head \in Nat
    BY FileLengthNat DEF PacedInv, BoardInv, TypeOK, NumOrders
  <2>3. CASE completed = head
    BY <2>1, <2>3 DEF InStep!vars
  <2>4. CASE completed = head - 1
    BY <2>1, <2>2, <2>4 DEF InStep!Next, InStep!Finish
  <2>. QED BY <2>2, <2>3, <2>4
<1>2. CASE TakeOk
  <2>1. completed = head /\ head' = head + 1 /\ completed' = completed /\ head \in Nat
    BY <1>2, CountedOkIsLive, FileLengthNat
       DEF TakeOk, delHeadGoods, Handles, Acknowledged, board, TypeOK, NumOrders
  <2>. QED BY <2>1 DEF InStep!Next, InStep!Take
<1>3. CASE EndWait
  <2>1. completed = head /\ head' = head + 1 /\ completed' = completed /\ head \in Nat
    BY <1>3, FileLengthNat
       DEF EndWait, delHeadGoods, ListEmpty, board, TypeOK, PacedInv, WaitInv, BoardInv, NumOrders
  <2>. QED BY <2>1 DEF InStep!Next, InStep!Take
<1>4. CASE UNCHANGED <<head, completed>>
  BY <1>4 DEF InStep!vars
<1>5. ASSUME [Next]_vars, ~BoardFinish, ~TakeOk, ~EndWait
      PROVE  UNCHANGED <<head, completed>>
  BY <1>5 DEF Next, ReplyThread, send_head, EndPrint, BoardAccept, BoardRefuse, Uart_REC,
              ShowImage, HandleLineError, HandleChecksum, HandleResend, IgnoreOk, StartWait,
              Handles, vars, host, board
<1>. QED BY <1>1, <1>2, <1>3, <1>4, <1>5

\* Under the same condition the threads, the link and the board together implement
\* OrderDelivery: the orders are finished one by one, each before the next one starts, and
\* none is finished twice or taken early. (What the board does with M110 twice is a stutter.)
THEOREM DeliversInOrder ==
  ASSUME Paced
  PROVE  Spec => DeliversInStep
<1>1. Init => InStep!Init
  BY DEF Init, InStep!Init
<1>2. TypeOK /\ PacedInv /\ [Next]_vars => PacedInv'
  BY NextPaced
<1>3. TypeOK /\ PacedInv /\ PacedInv' /\ [Next]_vars => [InStep!Next]_(InStep!vars)
  BY StepDelivers
<1>. QED BY <1>1, <1>2, <1>3, TypeCorrect, InitPaced, PTL DEF Spec, DeliversInStep, InStep!Spec

=============================================================================
