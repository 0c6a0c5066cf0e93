----------------------------- MODULE GMFileProofs -----------------------------
(***************************************************************************)
(* What the shape of G-M.gcode guarantees, whatever its number of layers:  *)
(* the wait for the projector (M114) stands right before every exposure    *)
(* (M106), and the exposure right before the order that lets the projector *)
(* go on (M107).                                                           *)
(***************************************************************************)
EXTENDS GMFile, TLAPS

Orders == 1 .. NumOrders

\* The class of the h-th order of the list.
Class(h) == compareSelf(Number(h))

\* G-M.gcode has at least one exposure and the lines around it.
LEMMA FileLengthNat == FileLength \in Nat /\ FileLength >= 7
BY LayersAssumption DEF FileLength

\* Line numbers as the orders carry them.
LEMMA NumberType == \A h \in Orders : Number(h) \in 1 .. FileLength
BY FileLengthNat DEF Orders, NumOrders, Number

\* The class of a line is decided by its place in the cycle of five.
LEMMA ClassOfLine ==
  ASSUME NEW n \in 1 .. FileLength
  PROVE  /\ compareSelf(n) \in 0 .. 4
         /\ n \in {1, 2, FileLength} => compareSelf(n) \in {0, 1}
         /\ n \notin {1, 2, FileLength} =>
              /\ compareSelf(n) = 2 <=> n % 5 = 0
              /\ compareSelf(n) = 4 <=> n % 5 = 1
              /\ compareSelf(n) = 3 <=> n % 5 = 4
              /\ compareSelf(n) # 1
<1>1. CASE n = 1
  BY <1>1 DEF compareSelf, GMCreat
<1>2. CASE n # 1 /\ (n = 2 \/ n = FileLength)
  BY <1>2 DEF compareSelf, GMCreat
<1>3. CASE n \notin {1, 2, FileLength}
  <2>1. n \in Nat /\ n % 5 \in 0 .. 4
    BY FileLengthNat
  <2>2. GMCreat(n) = <<"M106", "M107", "G0", "G0", "M114">>[(n % 5) + 1]
    BY <1>3 DEF GMCreat
  <2>3. CASE n % 5 = 0
    BY <1>3, <2>1, <2>2, <2>3 DEF compareSelf
  <2>4. CASE n % 5 = 1
    BY <1>3, <2>1, <2>2, <2>4 DEF compareSelf
  <2>5. CASE n % 5 \in {2, 3}
    BY <1>3, <2>1, <2>2, <2>5 DEF compareSelf
  <2>6. CASE n % 5 = 4
    BY <1>3, <2>1, <2>2, <2>6 DEF compareSelf
  <2>. QED BY <2>1, <2>3, <2>4, <2>5, <2>6
<1>. QED BY <1>1, <1>2, <1>3

\* Every order has one of the five classes that thread_3 tells apart.
LEMMA ClassType == \A h \in Orders : Class(h) \in 0 .. 4
BY NumberType, ClassOfLine DEF Class

\* The order before an exposure is the wait for the projector.
LEMMA WaitBeforeExposure ==
  ASSUME NEW h \in Orders, h + 1 \in Orders, Class(h + 1) = 2
  PROVE  Class(h) = 3
<1>1. h + 1 <= FileLength /\ h \in 1 .. FileLength /\ h + 1 \in 1 .. FileLength
  <2>1. CASE h + 1 = NumOrders
    <3>1. Number(h + 1) = FileLength
      BY <2>1, FileLengthNat DEF Number, NumOrders
    <3>. QED BY <3>1, ClassOfLine, FileLengthNat DEF Class
  <2>. QED BY <2>1, FileLengthNat DEF Orders, NumOrders
<1>2. Number(h) = h /\ Number(h + 1) = h + 1
  BY <1>1 DEF Number
<1>3. h + 1 \notin {1, 2, FileLength} /\ (h + 1) % 5 = 0
  BY <1>1, <1>2, ClassOfLine DEF Class
<1>4. h \notin {1, 2, FileLength} /\ h % 5 = 4
  BY <1>1, <1>3, FileLengthNat
<1>. QED BY <1>1, <1>2, <1>4, ClassOfLine DEF Class

\* The order before the one that lets the projector go on is the exposure.
LEMMA ExposureBeforeNext ==
  ASSUME NEW h \in Orders, h + 1 \in Orders, Class(h + 1) = 4
  PROVE  Class(h) = 2
<1>1. h + 1 <= FileLength /\ h \in 1 .. FileLength /\ h + 1 \in 1 .. FileLength
  <2>1. CASE h + 1 = NumOrders
    <3>1. Number(h + 1) = FileLength
      BY <2>1, FileLengthNat DEF Number, NumOrders
    <3>. QED BY <3>1, ClassOfLine, FileLengthNat DEF Class
  <2>. QED BY <2>1, FileLengthNat DEF Orders, NumOrders
<1>2. Number(h) = h /\ Number(h + 1) = h + 1
  BY <1>1 DEF Number
<1>3. h + 1 \notin {1, 2, FileLength} /\ (h + 1) % 5 = 1
  BY <1>1, <1>2, ClassOfLine DEF Class
<1>4. h \notin {1, 2, FileLength} /\ h % 5 = 0
  BY <1>1, <1>3, FileLengthNat
<1>. QED BY <1>1, <1>2, <1>4, ClassOfLine DEF Class

\* The first order waits for nothing.
LEMMA FirstClass == Class(1) = 0
<1>1. Number(1) = 1
  BY FileLengthNat DEF Number
<1>. QED BY <1>1 DEF Class, compareSelf, GMCreat

=============================================================================
