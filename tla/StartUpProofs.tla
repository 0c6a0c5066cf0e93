---------------------------- MODULE StartUpProofs ----------------------------
(***************************************************************************)
(* Theorems about the start of the DLP host, for every number of ports,    *)
(* rounds and looks, every range of times and every number of power cuts.  *)
(***************************************************************************)
EXTENDS StartUp, TLAPS

\* The steps of the search: its own, or a new start.
Searching == SearchStep \/ Receiver \/ DeviceStep \/ SearchAnew \/ UNCHANGED searchVars

LEMMA SearchPart == [Next]_vars => Searching
BY DEF Next, Searching, Wakes, Searches, Receives, Device, Restarts, Outage, Synced, vars

-----------------------------------------------------------------------------
(* Types. *)

\* A port is waited for only if there is one.
SearchTyped == SearchTypeOK /\ (phase = "wait" => port \in Ports)

LEMMA SearchInitTypes == Init => SearchTyped
<1>. SUFFICES ASSUME SearchInit PROVE SearchTyped
  BY DEF Init
<1>1. stray \in BOOLEAN
  BY DEF SearchInit, Started
<1>2. sign \in [Devices -> BOOLEAN]
  BY DEF SearchInit, Started
<1>3. 1 \in 1 .. NPorts + 1 /\ 1 \in 1 .. Rounds /\ 0 \in 0 .. Checks - 1 /\ 0 \in 0 .. MaxTouches
  BY SearchAssumption
<1>4. tty_flags \in [Ports -> {-1, 0, 1}]
  BY DEF SearchInit, Started
<1>. QED BY <1>1, <1>2, <1>3, <1>4 DEF SearchInit, Started, SearchTyped, SearchTypeOK, Devices

LEMMA SearchTypeStep == ASSUME SearchTyped, Searching PROVE SearchTyped'
<1>. USE SearchAssumption DEF SearchTyped, SearchTypeOK, plugs, cursor
<1>1. CASE open_tty
  <2>1. tty_flags' \in [Ports -> {-1, 0, 1}]
    BY <1>1 DEF open_tty
  <2>2. port' \in 1 .. NPorts + 1 /\ round' \in 1 .. Rounds /\ times' \in 0 .. Checks - 1
    BY <1>1 DEF open_tty
  <2>3. opened' \subseteq Ports /\ lines' \subseteq opened'
    BY <1>1 DEF open_tty
  <2>. QED BY <1>1, <2>1, <2>2, <2>3 DEF open_tty
<1>2. CASE Ask
  <2>1. fd' \in [Devices -> Ports \cup {Nowhere}] /\ owed' \subseteq Devices
    BY <1>2 DEF Ask
  <2>. QED BY <1>2, <2>1 DEF Ask
<1>3. CASE Skip
  BY <1>3 DEF Skip, Ports
<1>4. CASE RoundEnds
  BY <1>4 DEF RoundEnds, Ports
<1>5. CASE Check
  <2>1. sign' \in [Devices -> BOOLEAN]
    BY <1>5 DEF Check
  <2>2. tty_flags' \in [Ports -> {-1, 0, 1}]
    BY <1>5 DEF Check
  <2>3. found' \in [Devices -> Ports \cup {Nowhere}]
    BY <1>5 DEF Check
  <2>4. port' \in 1 .. NPorts + 1 /\ times' \in 0 .. Checks - 1
    BY <1>5 DEF Check, Ports
  <2>. QED BY <1>5, <2>1, <2>2, <2>3, <2>4 DEF Check
<1>6. CASE close_tty
  BY <1>6 DEF close_tty, Devices
<1>7. CASE Receiver
  <2>. PICK d \in Devices : Uart_REC(d)
    BY <1>7 DEF Receiver
  <2>1. sign' \in [Devices -> BOOLEAN]
    BY DEF Uart_REC
  <2>. QED BY <2>1 DEF Uart_REC
<1>8. CASE DeviceStep
  <2>1. stray' \in BOOLEAN
    BY <1>8 DEF DeviceStep, Touch, Answer, Arrives
  <2>2. lines' \subseteq opened /\ touches' \in 0 .. MaxTouches
    BY <1>8 DEF DeviceStep, Touch, Answer, Arrives
  <2>. QED BY <1>8, <2>1, <2>2 DEF DeviceStep, Touch, Answer, Arrives
<1>9. CASE SearchAnew
  <2>1. stray' \in BOOLEAN
    BY <1>9 DEF SearchAnew
  <2>2. sign' \in [Devices -> BOOLEAN] /\ tty_flags' \in [Ports -> {-1, 0, 1}]
    BY <1>9 DEF SearchAnew
  <2>3. port' \in 1 .. NPorts + 1 /\ round' \in 1 .. Rounds /\ times' \in 0 .. Checks - 1
    BY <1>9 DEF SearchAnew
  <2>. QED BY <1>9, <2>1, <2>2, <2>3 DEF SearchAnew, Devices
<1>. QED BY <1>1, <1>2, <1>3, <1>4, <1>5, <1>6, <1>7, <1>8, <1>9
     DEF Searching, SearchStep, searchVars

\* A time and a marker written make a content; whatever is kept is a file.
LEMMA WrittenIsFile == \A t \in Delays, r \in BOOLEAN : {<<t, r>>} \in Files
BY DEF Files, Contents

LEMMA NoFileIsFile == {} \in Files /\ {Empty} \in Files
BY DEF Files, Contents

LEMMA ContentOfFile == \A f \in Files : \A c \in f \ {Empty} : c[1] \in Delays /\ c[2] \in BOOLEAN
BY DEF Files, Contents

LEMMA SuccessorTime == \A t \in Delays : Successor(t) \in Delays
BY WakeAssumption DEF Successor, Delays

LEMMA WakeTypeStep == ASSUME WakeTypeOK, [Next]_vars PROVE WakeTypeOK'
<1>. USE DEF WakeTypeOK, Runs, program, storage, machine, history, rebootcfg_write, Fresh
<1>0. FirstDelay \in Delays
  BY WakeAssumption DEF Delays
<1>1. CASE Wakes
  <2>1. CASE Look
    BY <2>1 DEF Look
  <2>2. CASE rebootcfg_read
    <3>1. CASE file = {} /\ rebootcfg_write(time_add, reboot_) /\ main' = "dead" /\ UNCHANGED program
      BY <2>2, <3>1, WrittenIsFile DEF rebootcfg_read
    <3>2. CASE file = {Empty} /\ main' \in {"next", "press"} /\ UNCHANGED <<program, storage>>
      BY <2>2, <3>2 DEF rebootcfg_read
    <3>3. CASE \E c \in file \ {Empty} :
                 /\ time_add' = IF c[1] > MaxDelay THEN 1 ELSE c[1]
                 /\ reboot_' = c[2]
                 /\ main' \in {"next", "press"}
                 /\ UNCHANGED storage
      <4>. PICK c \in file \ {Empty} : /\ time_add' = IF c[1] > MaxDelay THEN 1 ELSE c[1]
                                      /\ reboot_' = c[2]
        BY <3>3
      <4>1. c[1] \in Delays /\ c[2] \in BOOLEAN
        BY ContentOfFile
      <4>2. time_add' \in Delays
        BY <4>1, WakeAssumption DEF Delays
      <4>3. reboot_' \in BOOLEAN
        BY <4>1
      <4>. QED BY <2>2, <3>3, <4>2, <4>3 DEF rebootcfg_read
    <3>4. \/ file = {} /\ rebootcfg_write(time_add, reboot_) /\ main' = "dead" /\ UNCHANGED program
          \/ file = {Empty} /\ main' \in {"next", "press"} /\ UNCHANGED <<program, storage>>
          \/ \E c \in file \ {Empty} :
               /\ time_add' = IF c[1] > MaxDelay THEN 1 ELSE c[1]
               /\ reboot_' = c[2]
               /\ main' \in {"next", "press"}
               /\ UNCHANGED storage
      BY <2>2 DEF rebootcfg_read
    <3>. QED BY <3>1, <3>2, <3>3, <3>4
  <2>3. CASE NextDelay
    BY <2>3, WrittenIsFile, SuccessorTime DEF NextDelay
  <2>4. CASE Press
    <3>1. lamp' \in BOOLEAN
      BY <2>4 DEF Press
    <3>. QED BY <2>4, <3>1 DEF Press
  <2>5. CASE SaveAndRestart
    BY <2>5, WrittenIsFile DEF SaveAndRestart
  <2>6. CASE Clear
    BY <2>6, WrittenIsFile DEF Clear
  <2>. QED BY <1>1, <2>1, <2>2, <2>3, <2>4, <2>5, <2>6 DEF Wakes, WakeStep
<1>2. CASE UNCHANGED wakeVars
  BY <1>2 DEF wakeVars
<1>3. CASE Restarts
  BY <1>0, <1>3 DEF Restarts, Restart, Relaunch
<1>4. CASE Outage
  <2>1. file' \in Files /\ disk' \in Files
    BY <1>4, NoFileIsFile DEF Outage, PowerCut
  <2>2. cuts' \in 0 .. MaxCuts
    BY <1>4, WakeAssumption DEF Outage, PowerCut
  <2>3. lamp' \in BOOLEAN /\ viaRestart' \in BOOLEAN /\ restarting' \in BOOLEAN /\ reboot_' \in BOOLEAN
    BY <1>4 DEF Outage, PowerCut
  <2>4. main' = "look" /\ time_add' = FirstDelay /\ tried' = {} /\ last' = 0 /\ needs' = needs
    BY <1>4 DEF Outage, PowerCut
  <2>. QED BY <1>0, <2>1, <2>2, <2>3, <2>4
<1>5. CASE Synced
  BY <1>5 DEF Synced, Sync
<1>. QED BY <1>1, <1>2, <1>3, <1>4, <1>5 DEF Next, Searches, Receives, Device, vars

LEMMA WakeInitTypes == Init => WakeTypeOK
<1>. SUFFICES ASSUME WakeInit PROVE WakeTypeOK
  BY DEF Init
<1>1. FirstDelay \in Delays /\ needs \in Delays /\ cuts \in 0 .. MaxCuts
  BY WakeAssumption DEF WakeInit, Delays
<1>2. file \in Files /\ disk \in Files
  BY <1>1, WrittenIsFile, NoFileIsFile DEF WakeInit
<1>3. reboot_ \in BOOLEAN /\ restarting \in BOOLEAN /\ lamp \in BOOLEAN /\ viaRestart \in BOOLEAN
  BY DEF WakeInit
<1>. QED BY <1>1, <1>2, <1>3 DEF WakeInit, WakeTypeOK

\* Every variable of the start keeps its type (DEV_Config_2.cpp 1172-1284, 559-762).
THEOREM StartTypeCorrect == Spec => []TypeOK
<1>1. SearchTyped /\ WakeTypeOK => TypeOK
  BY DEF SearchTyped, TypeOK
<1>2. SearchTyped /\ [Next]_vars => SearchTyped'
  BY SearchPart, SearchTypeStep
<1>. QED BY <1>1, <1>2, SearchInitTypes, WakeInitTypes, WakeTypeStep, PTL DEF Spec

-----------------------------------------------------------------------------
(* What was found is kept. *)

\* A device is found at the end of its search only, on a free port that is open; the port is
\* then marked, and no other search asks it or closes it.
FoundInv ==
  /\ \A d \in Devices : found[d] # Nowhere =>
       /\ found[d] \in Ports /\ fd[d] = found[d]
       /\ tty_flags[found[d]] = 1 /\ found[d] \in opened
  /\ found["Marlin"] # Nowhere => found["Marlin"] # found["HMI"]
  /\ phase \in {"open", "ask", "wait"} => found[role] = Nowhere
  /\ role = "Marlin" => found["HMI"] = Nowhere /\ fd["HMI"] = Nowhere
  /\ phase \in {"ask", "wait"} => \A p \in Ports : tty_flags[p] = 0 => p \in opened
  /\ phase = "wait" => tty_flags[port] = 0 /\ fd[role] = port

LEMMA FoundInitially == Init => FoundInv
BY DEF Init, SearchInit, Started, FoundInv, Devices

LEMMA FoundStep == ASSUME SearchTyped, FoundInv, Searching PROVE FoundInv'
<1>. USE DEF SearchTyped, SearchTypeOK, FoundInv, plugs, cursor, Devices
<1>0. Nowhere \notin Ports
  BY DEF Ports, Nowhere
<1>1. CASE open_tty
  BY <1>1 DEF open_tty
<1>2. CASE Ask
  BY <1>2 DEF Ask
<1>3. CASE Skip
  BY <1>3 DEF Skip
<1>4. CASE RoundEnds
  BY <1>4 DEF RoundEnds
<1>5. CASE Check
  BY <1>0, <1>5 DEF Check
<1>6. CASE close_tty
  BY <1>6 DEF close_tty
<1>7. CASE Receiver
  BY <1>7 DEF Receiver, Uart_REC
<1>8. CASE DeviceStep
  BY <1>8 DEF DeviceStep, Touch, Answer, Arrives
<1>9. CASE SearchAnew
  BY <1>9 DEF SearchAnew
<1>10. CASE UNCHANGED searchVars
  BY <1>10 DEF searchVars
<1>. QED BY <1>1, <1>2, <1>3, <1>4, <1>5, <1>6, <1>7, <1>8, <1>9, <1>10
     DEF Searching, SearchStep

LEMMA FoundKeeps == ASSUME SearchTyped /\ FoundInv, [Next]_vars PROVE (SearchTyped /\ FoundInv)'
BY SearchPart, SearchTypeStep, FoundStep

\* The two devices have ports of their own, which stay open (DEV_Config_2.cpp 263-762).
THEOREM FoundIsKept == Spec => []FoundStays
<1>1. FoundInv => FoundStays
  BY DEF FoundInv, FoundStays
<1>. QED BY SearchInitTypes, FoundInitially, FoundKeeps, <1>1, PTL DEF Spec

\* Once the board has been found the receiver is not caught in its loop
\* (DEV_Config_2.cpp 240-258).
THEOREM ReceiverFree == Spec => []CaughtWithoutBoard
<1>1. FoundInv => CaughtWithoutBoard
  BY DEF FoundInv, CaughtWithoutBoard, Runaway, Devices
<1>. QED BY SearchInitTypes, FoundInitially, FoundKeeps, <1>1, PTL DEF Spec

-----------------------------------------------------------------------------
(* Found on its own port. *)

\* While no line came unasked, an unread line waits on the port in hand, if that is the port of
\* the device searched for, or on one where a device was found; and only then is the sign up.
AnswerInv ==
  ~stray =>
    /\ \A d \in Devices : found[d] \in {where[d], Nowhere}
    /\ \A p \in lines : tty_flags[p] = 1 \/ (phase = "wait" /\ p = port /\ port = where[role])
    /\ phase \in {"open", "ask"} => ~sign[role]
    /\ phase = "wait" /\ sign[role] => port = where[role]
    /\ role = "Marlin" => ~sign["HMI"]

\* While a port's answer is waited for, the board's descriptor is open: it leads to a port that
\* can be opened, and such a port is free or its device was found.
OpenInv ==
  /\ opened \cap broken = {}
  /\ \A p \in Ports : tty_flags[p] = 1 => p \in opened
  /\ fd["Marlin"] # Nowhere => fd["Marlin"] \notin broken /\ tty_flags[fd["Marlin"]] # -1
  /\ phase = "wait" => fd["Marlin"] \in opened \cup {Nowhere}
  /\ \A p \in Ports : tty_flags[p] = 1 => \E d \in Devices : found[d] = p
  /\ found["Marlin"] # Nowhere => fd["HMI"] # found["Marlin"]

SearchInv == SearchTyped /\ FoundInv /\ OpenInv /\ AnswerInv

LEMMA AnswerInitially == Init => OpenInv /\ AnswerInv
BY DEF Init, SearchInit, Started, OpenInv, AnswerInv, Devices

LEMMA OpenStep == ASSUME SearchTyped, FoundInv, OpenInv, Searching PROVE OpenInv'
<1>. USE DEF SearchTyped, SearchTypeOK, FoundInv, OpenInv, plugs, cursor, Devices
<1>0. Nowhere \notin Ports
  BY DEF Ports, Nowhere
<1>1. CASE open_tty
  BY <1>1 DEF open_tty
<1>2. CASE Ask
  <2>1. port \in opened /\ port \notin broken /\ tty_flags[port] = 0
    BY <1>2 DEF Ask
  <2>2. CASE role = "Marlin"
    BY <1>0, <1>2, <2>1, <2>2 DEF Ask
  <2>3. CASE role = "HMI"
    <3>1. fd'["Marlin"] = fd["Marlin"] /\ fd'["HMI"] = port
      BY <1>2, <2>3 DEF Ask
    <3>2. fd["Marlin"] # Nowhere => fd["Marlin"] \in opened
      BY <1>2 DEF Ask
    <3>. QED BY <1>0, <1>2, <2>1, <3>1, <3>2 DEF Ask
  <2>. QED BY <2>2, <2>3
<1>3. CASE Skip
  BY <1>3 DEF Skip
<1>4. CASE RoundEnds
  BY <1>4 DEF RoundEnds
<1>5. CASE Check
  BY <1>0, <1>5 DEF Check
<1>6. CASE close_tty
  BY <1>6 DEF close_tty
<1>7. CASE Receiver
  BY <1>7 DEF Receiver, Uart_REC
<1>8. CASE DeviceStep
  BY <1>8 DEF DeviceStep, Touch, Answer, Arrives
<1>9. CASE SearchAnew
  BY <1>9 DEF SearchAnew
<1>10. CASE UNCHANGED searchVars
  BY <1>10 DEF searchVars
<1>. QED BY <1>1, <1>2, <1>3, <1>4, <1>5, <1>6, <1>7, <1>8, <1>9, <1>10
     DEF Searching, SearchStep

LEMMA AnswerStep == ASSUME SearchInv, Searching PROVE AnswerInv'
<1>. USE DEF SearchInv, SearchTyped, SearchTypeOK, FoundInv, OpenInv, AnswerInv, plugs, cursor,
             Devices
<1>0. Nowhere \notin Ports
  BY DEF Ports, Nowhere
<1>1. CASE open_tty
  BY <1>1 DEF open_tty
<1>2. CASE Ask
  BY <1>0, <1>2 DEF Ask
<1>3. CASE Skip
  BY <1>3 DEF Skip
<1>4. CASE RoundEnds
  BY <1>4 DEF RoundEnds
<1>5. CASE Check
  BY <1>0, <1>5 DEF Check, CanReceive, Runaway
<1>6. CASE close_tty
  BY <1>6 DEF close_tty
<1>7. CASE Receiver
  <2>. SUFFICES ASSUME ~stray PROVE AnswerInv'
    BY <1>7 DEF Receiver, Uart_REC
  <2>. PICK d \in Devices : Uart_REC(d)
    BY <1>7 DEF Receiver
  <2>1. CanReceive(d) /\ lines' = lines \ {fd[d]} /\ fd[d] \in lines
    BY DEF Uart_REC, CanReceive
  <2>2. \A e \in Devices : e # d => sign'[e] = sign[e]
    BY DEF Uart_REC
  <2>3. UNCHANGED <<plugs, tty_flags, opened, fd, phase, role, cursor, owed, touches, found, stray>>
    BY DEF Uart_REC
  <2>4. d = "HMI" => (sign'["HMI"] => where["HMI"] = fd["HMI"])
    BY DEF Uart_REC
  <2>5. \A p \in lines : tty_flags[p] = 1 \/ (phase = "wait" /\ p = port /\ port = where[role])
    OBVIOUS
  <2>6. phase \in {"open", "ask"} => ~sign'[role]
    BY <2>1, <2>2, <2>4, <2>5, <1>0
  <2>7. phase = "wait" /\ sign'[role] => port = where[role]
    BY <2>1, <2>2, <2>4, <2>5, <1>0
  <2>8. role = "Marlin" => ~sign'["HMI"]
    BY <2>1, <2>2, <2>4, <1>0, <2>5
  <2>. QED BY <2>1, <2>3, <2>6, <2>7, <2>8
<1>8. CASE DeviceStep
  <2>1. PICK d \in Devices : Arrives(d)
    BY <1>8 DEF DeviceStep, Touch, Answer
  <2>2. ~stray' => ~stray /\ Awaited(d)
    BY <2>1 DEF Arrives
  <2>3. UNCHANGED <<where, tty_flags, sign, phase, role, port, found>>
    BY <2>1 DEF Arrives
  <2>4. \A p \in lines' : p \in lines \/ p = where[d]
    BY <2>1 DEF Arrives
  <2>. QED BY <2>2, <2>3, <2>4 DEF Awaited
<1>9. CASE SearchAnew
  BY <1>9 DEF SearchAnew
<1>10. CASE UNCHANGED searchVars
  BY <1>10 DEF searchVars
<1>. QED BY <1>1, <1>2, <1>3, <1>4, <1>5, <1>6, <1>7, <1>8, <1>9, <1>10
     DEF Searching, SearchStep

LEMMA SearchKeeps == ASSUME SearchInv, [Next]_vars PROVE SearchInv'
BY SearchPart, SearchTypeStep, FoundStep, OpenStep, AnswerStep DEF SearchInv

\* Unless a line came that nobody was waiting for, a device is found where it is
\* (DEV_Config_2.cpp 370-534, 559-762).
THEOREM FoundWhereItIs == Spec => []RightPorts
<1>1. Init => SearchInv
  BY SearchInitTypes, FoundInitially, AnswerInitially DEF SearchInv
<1>2. SearchInv => RightPorts
  BY DEF SearchInv, AnswerInv, RightPorts
<1>. QED BY SearchKeeps, <1>1, <1>2, PTL DEF Spec

-----------------------------------------------------------------------------
(* No time is skipped. *)

\* Once a restart has been asked for, the file holds the time tried last, with the marker or
\* without, until the next start has taken it over; a start of another kind has tried none.
LastInv ==
  /\ main = "save" => time_add = last
  /\ restarting =>
       /\ main \in {"clear", "serve"} /\ time_add = last
       /\ \E r \in BOOLEAN : file = {<<last, r>>}
  /\ main \in {"look", "read"} =>
       \/ last = 0
       \/ viaRestart /\ \E r \in BOOLEAN : file = {<<last, r>>}
  /\ main = "next" /\ last # 0 => time_add = last
  /\ main = "press" /\ last # 0 => time_add \in {last, Successor(last)}
  /\ main = "dead" => last = 0

LEMMA LastStep == ASSUME WakeTypeOK, LastInv, [Next]_vars PROVE LastInv'
<1>. USE DEF WakeTypeOK, LastInv, Runs, program, storage, machine, history, rebootcfg_write, Fresh
<1>1. CASE Look
  BY <1>1 DEF Look
<1>2. CASE rebootcfg_read
  <2>1. main = "read" /\ ~restarting' /\ last' = last
    BY <1>2 DEF rebootcfg_read
  <2>2. CASE last = 0
    BY <1>2, <2>1, <2>2 DEF rebootcfg_read
  <2>3. CASE last # 0
    <3>. PICK m \in BOOLEAN : file = {<<last, m>>}
      BY <2>1, <2>3
    <3>1. <<last, m>> # Empty /\ <<last, m>>[1] = last /\ ~(last > MaxDelay)
      BY WakeAssumption DEF Empty, Delays
    <3>2. time_add' = last /\ main' \in {"next", "press"}
      BY <1>2, <3>1 DEF rebootcfg_read
    <3>. QED BY <2>1, <3>2
  <2>. QED BY <2>2, <2>3
<1>3. CASE NextDelay
  BY <1>3 DEF NextDelay
<1>4. CASE Press
  <2>1. ~restarting /\ main' = "save" /\ restarting' = restarting /\ time_add' = last'
    BY <1>4 DEF Press
  <2>. QED BY <2>1
<1>5. CASE SaveAndRestart
  BY <1>5 DEF SaveAndRestart
<1>6. CASE Clear
  BY <1>6 DEF Clear
<1>7. CASE UNCHANGED wakeVars
  BY <1>7 DEF wakeVars
<1>8. CASE Restarts
  BY <1>8 DEF Restarts, Restart, Relaunch
<1>9. CASE Outage
  BY <1>9 DEF Outage, PowerCut
<1>10. CASE Synced
  BY <1>10 DEF Synced, Sync
<1>. QED BY <1>1, <1>2, <1>3, <1>4, <1>5, <1>6, <1>7, <1>8, <1>9, <1>10
     DEF Next, Wakes, WakeStep, Searches, Receives, Device, vars

\* While the power stays, every start tries the time tried last or the next, whether or not the
\* program got on after reboot() and cleared the marker (DEV_Config_2.cpp 1251-1284).
THEOREM GoesOnWithLast == Spec => NoneSkipped
<1>1. Init => WakeTypeOK /\ LastInv
  BY WakeInitTypes DEF Init, WakeInit, LastInv
<1>2. WakeTypeOK /\ LastInv /\ [Next]_vars => LastInv'
  BY LastStep
<1>3. LastInv =>
        [main = "press" /\ main' = "save" /\ last # 0 => time_add \in {last, Successor(last)}]_wakeVars
  BY DEF LastInv
<1>. QED BY <1>1, <1>2, <1>3, WakeTypeStep, PTL DEF Spec, NoneSkipped

-----------------------------------------------------------------------------
(* The times are tried in turn. *)

\* The times from a to b, going on with 1 after the longest.
Around(a, b) == IF a <= b THEN a .. b ELSE (a .. MaxDelay) \cup (1 .. b)

\* The times tried so far are in turn, and t was the last.
TriedUpTo(t) == tried = {} \/ \E a \in Delays : tried = Around(a, t)

\* Time t is the next in turn.
NextIs(t) ==
  \/ tried = {} \/ tried = Delays
  \/ t \notin tried /\ \E a \in Delays : tried \cup {t} = Around(a, t)

TurnInv ==
  /\ main \in {"save", "next"} => TriedUpTo(time_add)
  /\ main = "press" => NextIs(time_add)
  /\ restarting => main = "clear"
  /\ restarting \/ (viaRestart /\ main \in {"look", "read"}) =>
       \E t \in Delays : file = {<<t, TRUE>>} /\ TriedUpTo(t)
  /\ main = "dead" \/ (~viaRestart /\ main \in {"look", "read"}) => tried = {}

LEMMA AroundGrows ==
  ASSUME NEW a \in Delays, NEW t \in Delays, Around(a, t) # Delays
  PROVE  /\ Successor(t) \notin Around(a, t)
         /\ Around(a, t) \cup {Successor(t)} = Around(a, Successor(t))
<1>. USE WakeAssumption DEF Around, Delays, Successor
<1>1. CASE t = MaxDelay
  <2>1. a # 1 /\ a <= t
    BY <1>1
  <2>. QED BY <1>1, <2>1
<1>2. CASE t < MaxDelay /\ a <= t
  BY <1>2
<1>3. CASE t < MaxDelay /\ a > t
  <2>1. a # t + 1
    <3>1. SUFFICES ASSUME a = t + 1 PROVE Around(a, t) = 1 .. MaxDelay
      OBVIOUS
    <3>2. Around(a, t) = ((t + 1) .. MaxDelay) \cup (1 .. t)
      BY <1>3, <3>1
    <3>3. ((t + 1) .. MaxDelay) \cup (1 .. t) = 1 .. MaxDelay
      BY <1>3
    <3>. QED BY <3>2, <3>3
  <2>. QED BY <1>3, <2>1
<1>. QED BY <1>1, <1>2, <1>3

LEMMA AroundOne == \A t \in Delays : {t} = Around(t, t)
BY DEF Around, Delays

\* The time after the last one tried is the next in turn.
LEMMA NextInTurn == ASSUME NEW t \in Delays, TriedUpTo(t) PROVE NextIs(Successor(t))
<1>1. CASE tried = {} \/ tried = Delays
  BY <1>1 DEF NextIs
<1>2. CASE tried # {} /\ tried # Delays
  <2>. PICK a \in Delays : tried = Around(a, t)
    BY <1>2 DEF TriedUpTo
  <2>. QED BY <1>2, AroundGrows DEF NextIs
<1>. QED BY <1>1, <1>2

LEMMA TurnStep == ASSUME PromptKill, WakeTypeOK, TurnInv, [Next]_vars PROVE TurnInv'
<1>. USE DEF TurnInv, Runs, program, storage, machine, history, rebootcfg_write, Fresh
<1>1. CASE Look
  BY <1>1 DEF Look, TriedUpTo
<1>2. CASE rebootcfg_read
  <2>1. main = "read" /\ ~restarting /\ UNCHANGED <<restarting, tried, viaRestart>>
    BY <1>2 DEF rebootcfg_read
  <2>2. CASE ~viaRestart
    <3>1. tried = {} /\ main' \in {"dead", "next", "press"}
      BY <1>2, <2>1, <2>2 DEF rebootcfg_read
    <3>. QED BY <2>1, <3>1 DEF TriedUpTo, NextIs
  <2>3. CASE viaRestart
    <3>. PICK t \in Delays : file = {<<t, TRUE>>} /\ TriedUpTo(t)
      BY <2>1, <2>3
    <3>1. <<t, TRUE>> # Empty /\ <<t, TRUE>>[1] = t /\ <<t, TRUE>>[2] = TRUE /\ ~(t > MaxDelay)
      BY WakeAssumption DEF Empty, Delays
    <3>2. time_add' = t /\ main' = "next"
      BY <1>2, <3>1 DEF rebootcfg_read
    <3>. QED BY <2>1, <3>2 DEF TriedUpTo
  <2>. QED BY <2>2, <2>3
<1>3. CASE NextDelay
  <2>1. NextIs(Successor(time_add))
    BY <1>3, NextInTurn DEF NextDelay, WakeTypeOK
  <2>2. /\ ~restarting' /\ main' = "press" /\ time_add' = Successor(time_add)
        /\ tried' = tried
    BY <1>3 DEF NextDelay
  <2>. QED BY <2>1, <2>2 DEF NextIs
<1>4. CASE Press
  <2>1. /\ ~restarting' /\ main' = "save" /\ time_add' = time_add /\ NextIs(time_add)
        /\ tried' = (IF tried = Delays THEN {} ELSE tried) \cup {time_add}
        /\ time_add \in Delays
    BY <1>4 DEF Press, WakeTypeOK
  <2>2. \E a \in Delays : tried' = Around(a, time_add)
    <3>1. CASE tried = {} \/ tried = Delays
      BY <2>1, <3>1, AroundOne
    <3>2. CASE tried # {} /\ tried # Delays
      BY <2>1, <3>2 DEF NextIs
    <3>. QED BY <3>1, <3>2
  <2>. QED BY <2>1, <2>2 DEF TriedUpTo
<1>5. CASE SaveAndRestart
  <2>1. file' = {<<time_add, TRUE>>} /\ TriedUpTo(time_add) /\ main' = "clear"
        /\ tried' = tried /\ time_add \in Delays
    BY <1>5 DEF SaveAndRestart, WakeTypeOK
  <2>. QED BY <2>1 DEF TriedUpTo
<1>6. CASE Clear
  BY <1>6 DEF Clear
<1>7. CASE UNCHANGED wakeVars
  BY <1>7 DEF wakeVars, TriedUpTo, NextIs
<1>8. CASE Restarts
  BY <1>8 DEF Restarts, Restart, Relaunch, TriedUpTo
<1>9. CASE Outage
  BY <1>9 DEF Outage, PowerCut
<1>10. CASE Synced
  BY <1>10 DEF Synced, Sync, TriedUpTo, NextIs
<1>. QED BY <1>1, <1>2, <1>3, <1>4, <1>5, <1>6, <1>7, <1>8, <1>9, <1>10
     DEF Next, Wakes, WakeStep, Searches, Receives, Device, vars

\* If a restart kills the program at once, no time is tried again before all have been, however
\* often the program ends and starts again while the power stays (DEV_Config_2.cpp 1248-1284).
THEOREM EachTimeInTurn == PromptKill => (Spec => TriesInTurn)
<1>1. Init => TurnInv
  BY DEF Init, WakeInit, TurnInv
<1>2. SUFFICES ASSUME PromptKill PROVE Spec => TriesInTurn
  OBVIOUS
<1>3. WakeTypeOK /\ TurnInv /\ [Next]_vars => TurnInv'
  BY <1>2, TurnStep
<1>4. TurnInv /\ [Next]_vars =>
        [main = "press" /\ main' = "save" => time_add \notin tried \/ tried = Delays]_wakeVars
  BY DEF TurnInv, NextIs
<1>5. Init => WakeTypeOK
  BY WakeInitTypes
<1>. QED BY <1>1, <1>3, <1>4, <1>5, WakeTypeStep, PTL DEF Spec, TriesInTurn

=============================================================================
