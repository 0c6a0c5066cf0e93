------------------------------- MODULE StartUp -------------------------------
(***************************************************************************)
(* hardware_init_main as a whole: ProjectorWake, then PortSearch.  A new   *)
(* start, whatever its cause, begins the search anew; the plugs stay.      *)
(***************************************************************************)
EXTENDS ProjectorWake, PortSearch

vars == <<wakeVars, searchVars>>

TypeOK == WakeTypeOK /\ SearchTypeOK

Init == WakeInit /\ SearchInit

Wakes    == WakeStep /\ UNCHANGED searchVars
Searches == Runs("serve") /\ SearchStep /\ UNCHANGED wakeVars
Receives == Runs("serve") /\ Receiver /\ UNCHANGED wakeVars
Device   == Runs("serve") /\ DeviceStep /\ UNCHANGED wakeVars
Restarts == (Restart \/ Relaunch) /\ SearchAnew
Outage   == PowerCut /\ SearchAnew
Synced   == Sync /\ UNCHANGED searchVars

\* The machine runs for ever once everything is done.
Next == Wakes \/ Searches \/ Receives \/ Device \/ Restarts \/ Outage \/ Synced

Spec == Init /\ [][Next]_vars

\* The threads are scheduled, a restart that was asked for takes place, and a
\* program that died is started again.
FairSpec == Spec /\ WF_vars(Wakes) /\ WF_vars(Searches) /\ WF_vars(Receives)
                 /\ WF_vars(Restarts)

-----------------------------------------------------------------------------
(* Whatever time the projector needs, and whether or not the devices are    *)
(* plugged in, the machine comes up in the end, with the projector on.      *)
ComesUp == <>[](lamp /\ main = "serve" /\ phase = "done")

=============================================================================
