---------------------------- MODULE ProjectorWake ----------------------------
(***************************************************************************)
(* The first half of hardware_init_main (DEV_Config_2.cpp): waking the     *)
(* projector.  The button of the projector is worked by a relay; how long  *)
(* it has to be held is not known.  While the frame buffer shows that no   *)
(* projector is on, the program holds the button, restarts the machine and *)
(* looks again; reboot.cfg carries the time of the last attempt, time_add, *)
(* and the marker reboot_ over to the next start, which then tries the     *)
(* next time.                                                              *)
(*                                                                         *)
(* Power may be cut at any moment: the projector goes off, and what was    *)
(* written since the last synchronisation of the disk survives, is lost or *)
(* leaves the file empty (fopen "w" truncates).  reboot() only asks for a  *)
(* restart, and returns.                                                   *)
(***************************************************************************)
EXTENDS Integers

CONSTANTS
  MaxDelay,     \* 8 in the code, seconds
  FirstDelay,   \* 4 in the code: the initial time_add
  Needs,        \* times one of which the projector needs
  MaxCuts,      \* bound: power cuts
  PromptKill    \* a restart kills the program before it gets on after reboot()

ASSUME WakeAssumption ==
  /\ MaxDelay \in Nat /\ FirstDelay \in 1 .. MaxDelay
  /\ Needs \subseteq 1 .. MaxDelay
  /\ MaxCuts \in Nat
  /\ PromptKill \in BOOLEAN

VARIABLES
  file,         \* reboot.cfg: {} when it is not there, else its one content
  disk,         \* the file as a power cut would leave it at the latest
  time_add, reboot_,  \* the program's variables
  main,         \* where hardware_init_main is
  restarting,   \* a restart has been asked for
  lamp,         \* the projector is on
  needs,        \* the time this projector needs
  cuts,         \* power cuts so far
  viaRestart,   \* history: this start follows a restart the program asked for
  tried,        \* history: times tried since power came
  last          \* history: the last of them, 0 for none

program  == <<time_add, reboot_>>
storage  == <<file, disk>>
machine  == <<lamp, needs, cuts>>
history  == <<viaRestart, tried, last>>
wakeVars == <<program, storage, main, restarting, machine, history>>

Delays == 1 .. MaxDelay
Empty  == <<>>
Contents == (Delays \X BOOLEAN) \cup {Empty}
Files  == {{}} \cup {{c} : c \in Contents}

WakeTypeOK ==
  /\ file \in Files /\ disk \in Files
  /\ time_add \in Delays /\ reboot_ \in BOOLEAN
  /\ main \in {"look", "read", "next", "press", "save", "clear", "serve", "dead"}
  /\ restarting \in BOOLEAN
  /\ lamp \in BOOLEAN /\ needs \in Delays /\ cuts \in 0 .. MaxCuts
  /\ viaRestart \in BOOLEAN /\ tried \subseteq Delays /\ last \in Delays \cup {0}

\* A machine that has never been started, or one that has.
WakeInit ==
  /\ file \in {{}, {<<FirstDelay, FALSE>>}} /\ disk = file
  /\ time_add = FirstDelay /\ reboot_ = FALSE
  /\ main = "look" /\ restarting = FALSE
  /\ lamp = FALSE /\ needs \in Needs /\ cuts = 0
  /\ viaRestart = FALSE /\ tried = {} /\ last = 0

\* The program gets on: not while a restart that kills at once is under way.
Runs(at) == main = at /\ ~(restarting /\ PromptKill)

rebootcfg_write(t, r) == file' = {<<t, r>>} /\ UNCHANGED disk

-----------------------------------------------------------------------------
Look ==
  /\ Runs("look")
  /\ main' = IF lamp THEN "clear" ELSE "read"
  /\ UNCHANGED <<program, storage, restarting, machine, history>>

\* Without a file the defaults are written, and fclose is given NULL, which
\* ends the program.  An empty file leaves the variables as they are.
rebootcfg_read ==
  /\ Runs("read")
  /\ \/ /\ file = {}
        /\ rebootcfg_write(time_add, reboot_)
        /\ main' = "dead"
        /\ UNCHANGED program
     \/ /\ file = {Empty}
        /\ main' = IF reboot_ THEN "next" ELSE "press"
        /\ UNCHANGED <<program, storage>>
     \/ \E c \in file \ {Empty} :
          /\ time_add' = IF c[1] > MaxDelay THEN 1 ELSE c[1]
          /\ reboot_' = c[2]
          /\ main' = IF c[2] THEN "next" ELSE "press"
          /\ UNCHANGED storage
  /\ UNCHANGED <<restarting, machine, history>>

\* Mutation: the time is not wrapped around.
SuccessorUnbounded(t) == t + 1

Successor(t) == IF t + 1 > MaxDelay THEN 1 ELSE t + 1

NextDelay ==
  /\ Runs("next")
  /\ time_add' = Successor(time_add)
  /\ rebootcfg_write(Successor(time_add), reboot_)
  /\ main' = "press"
  /\ UNCHANGED <<reboot_, restarting, machine, history>>

\* The relay is on for time_add seconds.
Press ==
  /\ Runs("press")
  /\ lamp' = (lamp \/ time_add = needs)
  /\ tried' = (IF tried = Delays THEN {} ELSE tried) \cup {time_add}
  /\ last' = time_add
  /\ main' = "save"
  /\ UNCHANGED <<program, storage, restarting, needs, cuts, viaRestart>>

\* Mutation: the marker is set and not written.
SaveAndRestartUnsaved ==
  /\ Runs("save")
  /\ reboot_' = TRUE /\ restarting' = TRUE /\ main' = "clear"
  /\ UNCHANGED <<time_add, storage, machine, history>>

\* Mutation: the file is given the next time, which the next start goes beyond.
SaveAndRestartAhead ==
  /\ Runs("save")
  /\ reboot_' = TRUE
  /\ rebootcfg_write(Successor(time_add), TRUE)
  /\ restarting' = TRUE
  /\ main' = "clear"
  /\ UNCHANGED <<time_add, machine, history>>

SaveAndRestart ==
  /\ Runs("save")
  /\ reboot_' = TRUE
  /\ rebootcfg_write(time_add, TRUE)
  /\ restarting' = TRUE
  /\ main' = "clear"
  /\ UNCHANGED <<time_add, machine, history>>

\* Reached with the projector on, and after reboot() has returned.
Clear ==
  /\ Runs("clear")
  /\ reboot_' = FALSE
  /\ rebootcfg_write(time_add, FALSE)
  /\ main' = "serve"
  /\ UNCHANGED <<time_add, restarting, machine, history>>

WakeStep ==
  Look \/ rebootcfg_read \/ NextDelay \/ Press \/ SaveAndRestart \/ Clear

-----------------------------------------------------------------------------
(* The machine. *)

Fresh == time_add' = FirstDelay /\ reboot_' = FALSE /\ main' = "look" /\ restarting' = FALSE

\* The restart that was asked for: the disk is synchronised, the projector stays on.
Restart ==
  /\ restarting
  /\ Fresh
  /\ disk' = file /\ viaRestart' = TRUE
  /\ UNCHANGED <<file, machine, tried, last>>

\* Someone starts the program again.
Relaunch ==
  /\ main = "dead"
  /\ Fresh
  /\ viaRestart' = FALSE
  /\ UNCHANGED <<storage, machine, tried, last>>

PowerCut ==
  /\ cuts < MaxCuts
  /\ cuts' = cuts + 1
  /\ Fresh
  /\ file' \in IF file = disk THEN {file} ELSE {file, disk, {Empty}}
  /\ disk' = file'
  /\ lamp' = FALSE /\ viaRestart' = FALSE /\ tried' = {} /\ last' = 0
  /\ UNCHANGED needs

Sync == /\ disk # file /\ disk' = file
        /\ UNCHANGED <<program, file, main, restarting, machine, history>>

-----------------------------------------------------------------------------
(* A start that follows a restart finds the marker set, so that it goes on  *)
(* to the next time (DEV_Config_2.cpp:1218: "reboot_ ..., 1 when this       *)
(* operation was entered through the restart operation").                   *)
MarkerTells == viaRestart /\ main = "read" => \E c \in file \ {Empty} : c[2]

(* While the power stays, a start goes on with the time tried last or the   *)
(* next one: it skips none and does not begin again, whatever the program   *)
(* got to do between reboot() and its end, the clearing of the marker       *)
(* included (DEV_Config_2.cpp 1251-1284).                                   *)
NoneSkipped ==
  [][main = "press" /\ main' = "save" /\ last # 0
       => time_add \in {last, Successor(last)}]_wakeVars

(* Between two interruptions of the power no time is tried again before     *)
(* every time has been tried.                                               *)
TriesInTurn ==
  [][main = "press" /\ main' = "save" => time_add \notin tried \/ tried = Delays]_wakeVars

=============================================================================
