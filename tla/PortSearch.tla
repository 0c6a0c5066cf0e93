------------------------------ MODULE PortSearch ------------------------------
(***************************************************************************)
(* The second half of hardware_init_main (DEV_Config_2.cpp): finding out   *)
(* on which serial port the motion board is and on which the screen        *)
(* (MarlinBoard_find, HMI_find), with the receiver thread (Uart_REC) that  *)
(* runs meanwhile and polls only the descriptors fd_HMI and fd_Marlin.     *)
(*                                                                         *)
(* A port is asked and its answer waited for a while; any line is an       *)
(* answer of the board, a line that ends in the screen's mark one of the   *)
(* screen.  A device may answer at any moment, also when its port is no    *)
(* longer the one that is waited for, and the user may touch the screen.   *)
(* A port stands for its descriptor: after close_tty the same ports are    *)
(* opened in the same order and get the same numbers.  Lines that wait on  *)
(* one port are not counted.                                               *)
(***************************************************************************)
EXTENDS Integers

CONSTANTS
  NPorts,      \* 5 in the code: ttyAMA0, ttyUSB0 .. ttyUSB3
  Rounds,      \* 10 in the code
  Checks,      \* 6 in the code: looks at the sign, half a second apart
  MaxTouches   \* bound: lines the screen sends without being asked

ASSUME SearchAssumption ==
  NPorts \in Nat \ {0} /\ Rounds \in Nat \ {0} /\ Checks \in Nat \ {0} /\ MaxTouches \in Nat

Ports   == 1 .. NPorts
Nowhere == 0
Devices == {"Marlin", "HMI"}

VARIABLES
  where,       \* the port each device is plugged into
  broken,      \* ports that cannot be opened
  tty_flags,   \* per port: -1 not to be opened, 0 free, 1 a device was found there
  opened,      \* ports with an open descriptor
  fd,          \* fd_Marlin and fd_HMI
  sign,        \* uart3_sign and uart1_sign: an answer has been received
  phase,       \* "open", "ask", "wait", "close", "done"
  role,        \* the device that is searched
  port, round, times,
  owed,        \* devices that have been asked and have not answered
  lines,       \* ports with input waiting in the kernel
  touches,
  found,       \* history: the port each device was found on
  stray        \* history: a line arrived that was not waited for

plugs      == <<where, broken>>
cursor     == <<port, round, times>>
searchVars == <<plugs, tty_flags, opened, fd, sign, phase, role, cursor, owed,
                lines, touches, found, stray>>

SearchTypeOK ==
  /\ where \in [Devices -> Ports \cup {Nowhere}] /\ broken \subseteq Ports
  /\ tty_flags \in [Ports -> {-1, 0, 1}] /\ opened \subseteq Ports
  /\ fd \in [Devices -> Ports \cup {Nowhere}] /\ sign \in [Devices -> BOOLEAN]
  /\ phase \in {"open", "ask", "wait", "close", "done"} /\ role \in Devices
  /\ port \in 1 .. NPorts + 1 /\ round \in 1 .. Rounds /\ times \in 0 .. Checks - 1
  /\ owed \subseteq Devices /\ lines \subseteq opened
  /\ touches \in 0 .. MaxTouches
  /\ found \in [Devices -> Ports \cup {Nowhere}] /\ stray \in BOOLEAN

\* What a new process starts with.
Started ==
  /\ tty_flags = [p \in Ports |-> 0] /\ opened = {}
  /\ fd = [d \in Devices |-> Nowhere] /\ sign = [d \in Devices |-> FALSE]
  /\ phase = "open" /\ role = "Marlin"
  /\ port = 1 /\ round = 1 /\ times = 0
  /\ owed = {} /\ lines = {}
  /\ found = [d \in Devices |-> Nowhere] /\ stray = FALSE

SearchInit ==
  /\ where \in [Devices -> Ports \cup {Nowhere}]
  /\ where["HMI"] # Nowhere => where["HMI"] # where["Marlin"]
  /\ broken \in SUBSET Ports
  /\ touches = 0
  /\ Started

SearchAnew ==
  /\ tty_flags' = [p \in Ports |-> 0] /\ opened' = {}
  /\ fd' = [d \in Devices |-> Nowhere] /\ sign' = [d \in Devices |-> FALSE]
  /\ phase' = "open" /\ role' = "Marlin"
  /\ port' = 1 /\ round' = 1 /\ times' = 0
  /\ owed' = {} /\ lines' = {}
  /\ found' = [d \in Devices |-> Nowhere] /\ stray' = FALSE
  /\ UNCHANGED <<plugs, touches>>

-----------------------------------------------------------------------------
(* The receiver thread. *)

\* serialDataAvail is -1 on a closed descriptor: the loop around the board's
\* input does not end, and writes over the end of RevBuf3.
Runaway == fd["Marlin"] \notin opened \cup {Nowhere} /\ ~sign["Marlin"]

CanReceive(d) == fd[d] \in lines /\ ~sign[d] /\ ~Runaway

\* A line is the board's whoever sent it; the screen's has the screen's mark.
Uart_REC(d) ==
  /\ CanReceive(d)
  /\ lines' = lines \ {fd[d]}
  /\ sign' = [sign EXCEPT ![d] = d = "Marlin" \/ where["HMI"] = fd[d]]
  /\ UNCHANGED <<plugs, tty_flags, opened, fd, phase, role, cursor, owed, touches, found, stray>>

-----------------------------------------------------------------------------
(* MarlinBoard_find, then HMI_find. *)

open_tty ==
  /\ phase = "open"
  /\ opened' = opened \cup {p \in Ports \ broken : tty_flags[p] = 0}
  /\ tty_flags' = [p \in Ports |->
                     IF tty_flags[p] = 0 /\ p \in broken THEN -1 ELSE tty_flags[p]]
  /\ port' = 1 /\ round' = 1 /\ times' = 0
  /\ phase' = "ask"
  /\ UNCHANGED <<plugs, fd, sign, role, owed, lines, touches, found, stray>>

\* Mutation: a port that is not free is asked, too.
AskAny ==
  /\ phase = "ask" /\ port \in Ports /\ tty_flags[port] # -1
  /\ fd' = [fd EXCEPT ![role] = port]
  /\ owed' = IF where[role] = port THEN owed \cup {role} ELSE owed
  /\ phase' = "wait"
  /\ UNCHANGED <<plugs, tty_flags, opened, sign, role, cursor, lines, touches, found, stray>>

\* The device that is searched for is asked if it is on this port.
Ask ==
  /\ phase = "ask" /\ port \in Ports /\ tty_flags[port] = 0
  /\ fd' = [fd EXCEPT ![role] = port]
  /\ owed' = IF where[role] = port THEN owed \cup {role} ELSE owed
  /\ phase' = "wait"
  /\ UNCHANGED <<plugs, tty_flags, opened, sign, role, cursor, lines, touches, found, stray>>

Skip ==
  /\ phase = "ask" /\ port \in Ports /\ tty_flags[port] # 0
  /\ port' = port + 1
  /\ UNCHANGED <<plugs, tty_flags, opened, fd, sign, phase, role, round, times, owed,
                 lines, touches, found, stray>>

\* After the last round nothing is restarted: i>9 is never true in the loop.
RoundEnds ==
  /\ phase = "ask" /\ port \notin Ports
  /\ \/ /\ round < Rounds
        /\ round' = round + 1 /\ port' = 1
        /\ UNCHANGED phase
     \/ /\ round = Rounds
        /\ phase' = "close"
        /\ UNCHANGED <<round, port>>
  /\ UNCHANGED <<plugs, tty_flags, opened, fd, sign, role, times, owed, lines, touches,
                 found, stray>>

\* Mutation: a copied block keeps the index of the block before.
CheckCopied ==
  /\ phase = "wait" /\ \A d \in Devices : ~CanReceive(d)
  /\ \/ \E p \in {IF port > 1 THEN port - 1 ELSE port} :
          /\ sign[role]
          /\ tty_flags' = [tty_flags EXCEPT ![p] = 1]
          /\ found' = [found EXCEPT ![role] = p]
          /\ sign' = [sign EXCEPT ![role] = FALSE]
          /\ phase' = "close"
          /\ UNCHANGED <<port, times>>
     \/ /\ ~sign[role] /\ times + 1 < Checks
        /\ times' = times + 1
        /\ UNCHANGED <<tty_flags, found, sign, phase, port>>
     \/ /\ ~sign[role] /\ times + 1 >= Checks
        /\ times' = 0 /\ port' = port + 1
        /\ phase' = "ask"
        /\ UNCHANGED <<tty_flags, found, sign>>
  /\ UNCHANGED <<plugs, opened, fd, role, round, owed, lines, touches, stray>>

\* A look at the sign; in half a second the receiver has taken what was waiting.
Check ==
  /\ phase = "wait" /\ \A d \in Devices : ~CanReceive(d)
  /\ \/ /\ sign[role]
        /\ tty_flags' = [tty_flags EXCEPT ![port] = 1]
        /\ found' = [found EXCEPT ![role] = port]
        /\ sign' = [sign EXCEPT ![role] = FALSE]
        /\ phase' = "close"
        /\ UNCHANGED <<port, times>>
     \/ /\ ~sign[role] /\ times + 1 < Checks
        /\ times' = times + 1
        /\ UNCHANGED <<tty_flags, found, sign, phase, port>>
     \/ /\ ~sign[role] /\ times + 1 >= Checks
        /\ times' = 0 /\ port' = port + 1
        /\ phase' = "ask"
        /\ UNCHANGED <<tty_flags, found, sign>>
  /\ UNCHANGED <<plugs, opened, fd, role, round, owed, lines, touches, stray>>

\* Mutation: every port is closed.
CloseAll ==
  /\ phase = "close"
  /\ opened' = {}
  /\ lines' = {}
  /\ \/ role = "Marlin" /\ role' = "HMI" /\ phase' = "open"
     \/ role = "HMI" /\ phase' = "done" /\ UNCHANGED role
  /\ UNCHANGED <<plugs, tty_flags, fd, sign, cursor, owed, touches, found, stray>>

close_tty ==
  /\ phase = "close"
  /\ opened' = {p \in opened : tty_flags[p] = 1}
  /\ lines' = lines \cap opened'
  /\ \/ role = "Marlin" /\ role' = "HMI" /\ phase' = "open"
     \/ role = "HMI" /\ phase' = "done" /\ UNCHANGED role
  /\ UNCHANGED <<plugs, tty_flags, fd, sign, cursor, owed, touches, found, stray>>

SearchStep == open_tty \/ Ask \/ Skip \/ RoundEnds \/ Check \/ close_tty

-----------------------------------------------------------------------------
(* The devices. *)

Awaited(d) == phase = "wait" /\ role = d /\ port = where[d]

\* A line of device d arrives; on a port that is not open it is lost.
Arrives(d) ==
  /\ lines' = lines \cup ({where[d]} \cap opened)
  /\ stray' = (stray \/ ~Awaited(d))
  /\ UNCHANGED <<plugs, tty_flags, opened, fd, sign, phase, role, cursor, found>>

Answer(d) ==
  /\ d \in owed
  /\ owed' = owed \ {d}
  /\ Arrives(d)
  /\ UNCHANGED touches

Touch ==
  /\ where["HMI"] # Nowhere /\ touches < MaxTouches
  /\ touches' = touches + 1
  /\ Arrives("HMI")
  /\ UNCHANGED owed

DeviceStep == Touch \/ \E d \in Devices : Answer(d)
Receiver   == \E d \in Devices : Uart_REC(d)

-----------------------------------------------------------------------------
(* A device is only found where it is, unless a line came that nobody was   *)
(* waiting for: an answer after its port was given up, or a touch of the    *)
(* screen.                                                                  *)
RightPorts == stray \/ \A d \in Devices : found[d] \in {where[d], Nowhere}

(* What was found is kept: the two devices have ports of their own, these   *)
(* stay open, and the descriptors lead there.                               *)
FoundStays ==
  /\ \A d \in Devices : found[d] # Nowhere => fd[d] = found[d] /\ found[d] \in opened
  /\ found["Marlin"] # Nowhere => found["Marlin"] # found["HMI"]

(* The receiver can only be caught in its loop when no board was found.     *)
CaughtWithoutBoard == Runaway => found["Marlin"] = Nowhere

=============================================================================
