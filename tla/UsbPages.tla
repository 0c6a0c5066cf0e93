------------------------------- MODULE UsbPages -------------------------------
(***************************************************************************)
(* The model pages of the screen and the sticks they come from: the file   *)
(* thread (file.cpp thread_1) counts the sticks, mounts them, lists their  *)
(* models into file.cfg and shows a page; the screen thread (HMI-Screen.cpp *)
(* thread_1) pages, selects, deletes, starts and stops; the print ends by  *)
(* itself or when its file is gone (SLC_Read.cpp, marlinHost.cpp).  They   *)
(* share usb_flag, file_change_flag, print_flag, page_menu, file_num and   *)
(* the file without a lock.                                                *)
(*                                                                         *)
(* The file thread's work takes seconds and is split where the other       *)
(* thread can come between.  The screen keeps what was last written to it. *)
(* The user sends one command at a time, for what the screen shows then.   *)
(***************************************************************************)
EXTENDS Integers, Sequences, FiniteSets, Listing

CONSTANTS
  Sticks,     \* USB sticks
  Local,      \* the place of models saved on the machine, always readable
  Order,      \* all models, in the order find lists them
  Place,      \* the stick each model is on, or Local
  PageSize,   \* 8 in the code
  MaxPlugs,   \* bound: sticks plugged in or pulled
  MaxCmds     \* bound: the user's commands

Models == {Order[i] : i \in DOMAIN Order}
Blank  == "blank"

ASSUME PagesAssumption ==
  /\ Order \in Seq(Models)
  /\ Local \notin Sticks /\ IsFiniteSet(Sticks)
  /\ Place \in [Models -> Sticks \cup {Local}] /\ Blank \notin Models
  /\ PageSize \in Nat \ {0} /\ MaxPlugs \in Nat /\ MaxCmds \in Nat

VARIABLES
  plugged, alive,      \* sticks in the machine; models not deleted
  mounted,             \* sticks mounted and still there
  listing, file_num,   \* file.cfg and the count taken from it
  page_menu, shown,    \* the page number, and what the screen shows
  usb_flag, u_num,     \* sticks as of the last update (-1: update!), and as just counted
  usb_flag_last,       \* the screen thread's copy
  file_change_flag, print_flag,
  print_path,          \* the model selected
  fpc, spc,            \* where the file thread and the screen thread are
  page,                \* the screen's page: "model" or "print"
  cmd,                 \* the command received and not yet handled
  plugs, cmds,         \* bounded events so far
  swapped,             \* history: sticks changed and their number is as last counted
  due, dropped,        \* history: an update is wanted and not done; the last one was skipped
  begun                \* history: the print began with changes forbidden and the file thread idle

usb    == <<plugged, alive, plugs>>
list   == <<listing, file_num>>
flags  == <<usb_flag, file_change_flag, print_flag>>
user   == <<cmd, cmds>>
past   == <<swapped, due, dropped, begun>>
vars   == <<usb, mounted, list, page_menu, shown, flags, u_num, usb_flag_last, print_path,
            fpc, spc, page, user, past>>

Slots == 1 .. PageSize
Taps  == {<<"tap", k>> : k \in Slots}
Words == {"page_file_show", "page_menu_add", "page_menu_sub", "delete_model",
          "PRINT_STOP", "PRINT_STOP_RETURN"}
Idle  == <<"none">>
Commands == {<<w>> : w \in Words} \cup Taps

LastPage(n) == (n + PageSize - 1) \div PageSize

TypeOK ==
  /\ plugged \subseteq Sticks /\ alive \subseteq Models /\ mounted \subseteq Sticks
  /\ listing \in Seq(Models) /\ file_num \in 0 .. Len(Order)
  /\ page_menu \in {0, 1} \cup 1 .. LastPage(Len(Order)) /\ shown \in [Slots -> Models \cup {Blank}]
  /\ usb_flag \in -1 .. Cardinality(Sticks) /\ u_num \in 0 .. Cardinality(Sticks)
  /\ usb_flag_last \in -1 .. Cardinality(Sticks)
  /\ file_change_flag \in 0 .. 1 /\ print_flag \in 0 .. 2
  /\ print_path \in Models \cup {Blank}
  /\ fpc \in {"poll", "decide", "umount", "mount", "page", "find", "count", "show", "flag", "hung"}
  /\ spc \in {"top", "cmd", "show", "hung"}
  /\ page \in {"model", "print"} /\ cmd \in Commands \cup {Idle}
  /\ plugs \in 0 .. MaxPlugs /\ cmds \in 0 .. MaxCmds
  /\ swapped \in BOOLEAN /\ due \in BOOLEAN /\ dropped \in BOOLEAN /\ begun \in {"no", "guarded", "open"}

Readable(m) == m \in alive /\ (Place[m] = Local \/ Place[m] \in mounted)

\* Line i of the list; past its end the buffer keeps the last line.
Line(l, i) == IF l = <<>> THEN Blank ELSE l[IF i <= Len(l) THEN i ELSE Len(l)]

\* file_show: the lines of page p, blank from file_num on.
PageOf(l, n, p) ==
  [k \in Slots |-> LET i == (p - 1) * PageSize + k IN IF i <= n THEN Line(l, i) ELSE Blank]

Cleared == [k \in Slots |-> Blank]     \* menu_show_clear

Init ==
  /\ plugged \in SUBSET Sticks /\ alive = Models /\ mounted = {}
  /\ listing = <<>> /\ file_num = 0
  /\ page_menu = 1 /\ shown = Cleared
  /\ usb_flag = -1 /\ u_num = 0 /\ usb_flag_last = 0
  /\ file_change_flag = 0 /\ print_flag = 0 /\ print_path = Blank
  /\ fpc = "poll" /\ spc = "top" /\ page = "model" /\ cmd = Idle
  /\ plugs = 0 /\ cmds = 0
  /\ swapped = FALSE /\ due = TRUE /\ dropped = FALSE /\ begun = "no"

-----------------------------------------------------------------------------
(* The file thread.  popen and its command are over before the next step. *)

fileKeeps == <<usb, usb_flag_last, print_path, spc, page, user, begun>>

Poll ==
  /\ fpc = "poll" /\ Cardinality(plugged) # usb_flag
  /\ u_num' = Cardinality(plugged)
  /\ swapped' = FALSE /\ due' = TRUE
  /\ fpc' = "decide"
  /\ UNCHANGED <<fileKeeps, mounted, list, page_menu, shown, flags, dropped>>

\* Mutation: any change of the sticks ends the protection of a print.
DecideAnyChange ==
  /\ fpc = "decide"
  /\ file_change_flag' = IF print_flag \in {1, 2} THEN 0 ELSE file_change_flag
  /\ fpc' = IF file_change_flag' = 0 THEN "umount" ELSE "flag"
  /\ UNCHANGED <<fileKeeps, mounted, list, page_menu, shown, usb_flag, print_flag, u_num,
                 swapped, due, dropped>>

Decide ==
  /\ fpc = "decide"
  /\ file_change_flag' =
       IF print_flag \in {1, 2} /\ u_num < usb_flag THEN 0 ELSE file_change_flag
  /\ fpc' = IF file_change_flag' = 0 THEN "umount" ELSE "flag"
  /\ UNCHANGED <<fileKeeps, mounted, list, page_menu, shown, usb_flag, print_flag, u_num,
                 swapped, due, dropped>>

Umount ==
  /\ fpc = "umount"
  /\ mounted' = {}
  /\ fpc' = "mount"
  /\ UNCHANGED <<fileKeeps, list, page_menu, shown, flags, u_num, swapped, due, dropped>>

\* The devices are looked up again, and as many mounted as were counted.
Mount ==
  /\ fpc = "mount"
  /\ due' = (print_flag # 0)
  /\ \/ /\ print_flag = 0 /\ u_num # 0
        /\ \E S \in SUBSET plugged :
             /\ Cardinality(S) = u_num \/ (Cardinality(S) < u_num /\ S = plugged)
             /\ mounted' = S
     \/ /\ print_flag # 0 \/ u_num = 0
        /\ UNCHANGED mounted
  /\ fpc' = "page"
  /\ UNCHANGED <<fileKeeps, list, page_menu, shown, flags, u_num, swapped, dropped>>

FirstPage ==
  /\ fpc = "page"
  /\ \/ /\ print_flag = 0
        /\ page_menu' = 1 /\ shown' = Cleared
        /\ fpc' = "find"
        /\ UNCHANGED due
     \/ /\ print_flag # 0
        /\ due' = TRUE
        /\ fpc' = "flag"
        /\ UNCHANGED <<page_menu, shown>>
  /\ UNCHANGED <<fileKeeps, mounted, list, flags, u_num, swapped, dropped>>

\* read_print_file: first the list, then its number of lines.
Find ==
  /\ fpc = "find"
  /\ listing' \in Kept(Order, {m \in Models : Readable(m)})
  /\ fpc' = "count"
  /\ UNCHANGED <<fileKeeps, mounted, file_num, page_menu, shown, flags, u_num,
                 swapped, due, dropped>>

Count ==
  /\ fpc = "count"
  /\ file_num' = Len(listing)
  /\ fpc' = "show"
  /\ UNCHANGED <<fileKeeps, mounted, listing, page_menu, shown, flags, u_num,
                 swapped, due, dropped>>

\* file_show skips (page_menu-1)*8 lines, an unsigned number: with page 0 the
\* thread reads past the end four thousand million times.
file_show(pc, next) ==
  IF page_menu = 0
    THEN pc' = "hung" /\ UNCHANGED shown
    ELSE pc' = next /\ shown' = PageOf(listing, file_num, page_menu)

Show ==
  /\ fpc = "show"
  /\ file_show(fpc, "flag")
  /\ UNCHANGED <<fileKeeps, mounted, list, page_menu, flags, u_num, swapped, due, dropped>>

\* The count is noted whether or not anything was done, and also over a -1 that
\* was written meanwhile.
NoteCount ==
  /\ fpc = "flag"
  /\ usb_flag' = u_num
  /\ dropped' = due
  /\ fpc' = "poll"
  /\ UNCHANGED <<fileKeeps, mounted, list, page_menu, shown, file_change_flag, print_flag,
                 u_num, swapped, due>>

FileThread == \/ Poll \/ Decide \/ Umount \/ Mount \/ FirstPage
              \/ Find \/ Count \/ Show \/ NoteCount

-----------------------------------------------------------------------------
(* The screen thread. *)

screenKeeps == <<usb, mounted, list, u_num, fpc, cmds, swapped, dropped>>

Top ==
  /\ spc = "top" /\ (usb_flag # usb_flag_last \/ cmd # Idle)
  /\ page_menu' = IF usb_flag # usb_flag_last THEN 1 ELSE page_menu
  /\ usb_flag_last' = usb_flag
  /\ spc' = IF cmd # Idle THEN "cmd" ELSE "top"
  /\ UNCHANGED <<screenKeeps, shown, flags, print_path, page, cmd, due, begun>>

\* Command c is handled; the loop starts again at its top, or at the second half.
Handle(c, next) == spc = "cmd" /\ cmd = c /\ cmd' = Idle /\ spc' = next

AskUpdate == usb_flag' = -1 /\ due' = TRUE

\* Mutation: the update is not asked for.
DeleteQuietly ==
  /\ Handle(<<"delete_model">>, "top")
  /\ \/ /\ print_flag = 0 /\ Readable(print_path)
        /\ alive' = alive \ {print_path}
        /\ shown' = Cleared /\ page' = "model"
        /\ file_change_flag' = 0
     \/ /\ ~(print_flag = 0 /\ Readable(print_path))
        /\ UNCHANGED <<alive, shown, page, file_change_flag>>
  /\ UNCHANGED <<plugged, plugs, mounted, list, u_num, fpc, cmds, swapped, dropped,
                 page_menu, usb_flag, due, usb_flag_last, print_flag, print_path, begun>>

delete_model ==
  /\ Handle(<<"delete_model">>, "top")
  /\ \/ /\ print_flag = 0 /\ Readable(print_path)
        /\ alive' = alive \ {print_path}
        /\ shown' = Cleared /\ page' = "model"
        /\ AskUpdate /\ file_change_flag' = 0
     \/ /\ ~(print_flag = 0 /\ Readable(print_path))
        /\ UNCHANGED <<alive, shown, page, usb_flag, due, file_change_flag>>
  /\ UNCHANGED <<plugged, plugs, mounted, list, u_num, fpc, cmds, swapped, dropped,
                 page_menu, usb_flag_last, print_flag, print_path, begun>>

PRINT_STOP_RETURN ==
  /\ Handle(<<"PRINT_STOP_RETURN">>, "top")
  /\ print_flag' = 0 /\ begun' = "no"
  /\ file_change_flag' = 0 /\ AskUpdate
  /\ shown' = Cleared /\ page' = "model"
  /\ UNCHANGED <<screenKeeps, page_menu, usb_flag_last, print_path>>

page_file_show ==
  /\ Handle(<<"page_file_show">>, "top")
  /\ page_menu' = 1
  /\ print_flag' = 0 /\ begun' = "no"
  /\ page' = "model"
  /\ UNCHANGED <<screenKeeps, shown, usb_flag, file_change_flag, usb_flag_last, print_path, due>>

\* Mutation: the pages do not end.
AddUncapped ==
  /\ Handle(<<"page_menu_add">>, "show")
  /\ page_menu' = (IF page_menu < 1 THEN 1 ELSE page_menu) + 1
  /\ shown' = Cleared
  /\ UNCHANGED <<screenKeeps, flags, usb_flag_last, print_path, page, due, begun>>

page_menu_add ==
  /\ Handle(<<"page_menu_add">>, "show")
  /\ LET next == (IF page_menu < 1 THEN 1 ELSE page_menu) + 1
     IN page_menu' = IF next > LastPage(file_num) THEN LastPage(file_num) ELSE next
  /\ shown' = Cleared
  /\ UNCHANGED <<screenKeeps, flags, usb_flag_last, print_path, page, due, begun>>

page_menu_sub ==
  /\ Handle(<<"page_menu_sub">>, "show")
  /\ page_menu' = IF page_menu > 1 THEN page_menu - 1 ELSE 1
  /\ shown' = Cleared
  /\ UNCHANGED <<screenKeeps, flags, usb_flag_last, print_path, page, due, begun>>

\* Mutation: without models the page number is left as it is.
MenuShowAnyPage ==
  /\ spc = "show"
  /\ \/ /\ file_num = 0
        /\ spc' = "top"
        /\ UNCHANGED <<page_menu, shown>>
     \/ /\ file_num > 0
        /\ file_show(spc, "top")
        /\ UNCHANGED page_menu
  /\ UNCHANGED <<screenKeeps, flags, usb_flag_last, print_path, page, cmd, due, begun>>

\* The second half of both: file_num is read again.
MenuShow ==
  /\ spc = "show"
  /\ \/ /\ file_num = 0
        /\ page_menu' = 1 /\ spc' = "top"
        /\ UNCHANGED shown
     \/ /\ file_num > 0
        /\ file_show(spc, "top")
        /\ UNCHANGED page_menu
  /\ UNCHANGED <<screenKeeps, flags, usb_flag_last, print_path, page, cmd, due, begun>>

\* Mutation: the slots are counted from nought.
SlotFromNought(k) ==
  /\ Handle(<<"tap", k>>, "top")
  /\ LET before == PageSize * (page_menu - 1) IN
     \/ /\ before + 1 <= file_num
        /\ print_path' = Line(listing, IF k = 1 THEN 1 ELSE before + k - 1)
        /\ file_change_flag' = 1 /\ page' = "print"
     \/ /\ before + 1 > file_num
        /\ UNCHANGED <<print_path, file_change_flag, page>>
  /\ UNCHANGED <<screenKeeps, page_menu, shown, usb_flag, print_flag, usb_flag_last, due, begun>>

\* file_first .. file_eight: whatever the slot, it is the page's first line that
\* has to exist.
file_slot(k) ==
  /\ Handle(<<"tap", k>>, "top")
  /\ LET before == PageSize * (page_menu - 1) IN
     \/ /\ before + 1 <= file_num
        /\ print_path' = Line(listing, before + k)
        /\ file_change_flag' = 1 /\ page' = "print"
     \/ /\ before + 1 > file_num
        /\ UNCHANGED <<print_path, file_change_flag, page>>
  /\ UNCHANGED <<screenKeeps, page_menu, shown, usb_flag, print_flag, usb_flag_last, due, begun>>

PRINT_STOP ==
  /\ Handle(<<"PRINT_STOP">>, "top")
  /\ print_flag' = IF print_flag = 2 THEN 1 ELSE print_flag + 1
  /\ begun' = IF print_flag # 0 THEN begun
              ELSE IF fpc = "poll" /\ file_change_flag = 1 THEN "guarded" ELSE "open"
  /\ UNCHANGED <<screenKeeps, page_menu, shown, usb_flag, file_change_flag, usb_flag_last,
                 print_path, page, due>>

ScreenThread ==
  \/ Top \/ MenuShow \/ delete_model \/ PRINT_STOP_RETURN \/ page_file_show
  \/ page_menu_add \/ page_menu_sub \/ PRINT_STOP
  \/ \E k \in Slots : file_slot(k)

-----------------------------------------------------------------------------
(* The print, the user and the sticks. *)

printKeeps == <<usb, mounted, list, page_menu, u_num, usb_flag_last, file_change_flag,
                print_path, fpc, spc, user, swapped, dropped>>

PrintEnds ==
  /\ print_flag = 1
  /\ print_flag' = 0 /\ begun' = "no"
  /\ UNCHANGED <<printKeeps, usb_flag, shown, page, due>>

\* The layer's file can no longer be accessed; file_change_flag stays.
PrintBreaks ==
  /\ print_flag # 0 /\ ~Readable(print_path)
  /\ print_flag' = 0 /\ begun' = "no"
  /\ AskUpdate
  /\ shown' = Cleared /\ page' = "model"
  /\ UNCHANGED printKeeps

Offered ==
  IF page = "model"
    THEN Taps \cup {<<"page_menu_add">>, <<"page_menu_sub">>, <<"page_file_show">>}
    ELSE {<<"delete_model">>, <<"PRINT_STOP">>, <<"PRINT_STOP_RETURN">>, <<"page_file_show">>}

Press ==
  /\ cmd = Idle /\ spc # "hung" /\ cmds < MaxCmds
  /\ cmd' \in Offered /\ cmds' = cmds + 1
  /\ UNCHANGED <<usb, mounted, list, page_menu, shown, flags, u_num, usb_flag_last,
                 print_path, fpc, spc, page, past>>

\* The sticks are now those in S; that is not seen if the number is the one noted.
Change(S) ==
  /\ plugs < MaxPlugs /\ plugs' = plugs + 1
  /\ plugged' = S
  /\ swapped' = (swapped \/ Cardinality(S) = IF fpc = "poll" THEN usb_flag ELSE u_num)
  /\ UNCHANGED <<alive, list, page_menu, shown, flags, u_num, usb_flag_last, print_path,
                 fpc, spc, page, user, due, dropped, begun>>

Plug(s) == s \notin plugged /\ Change(plugged \cup {s}) /\ UNCHANGED mounted
Pull(s) == s \in plugged /\ Change(plugged \ {s}) /\ mounted' = mounted \ {s}

World == \/ PrintEnds \/ PrintBreaks \/ Press
         \/ \E s \in Sticks : Plug(s) \/ Pull(s)

Next == FileThread \/ ScreenThread \/ World

Spec == Init /\ [][Next]_vars

\* Both threads are scheduled; the user, the sticks and the print owe nothing.
FairSpec == Spec /\ WF_vars(FileThread) /\ WF_vars(ScreenThread)

-----------------------------------------------------------------------------
(* The page number is at least one, but for a moment inside page_menu_add:  *)
(* file_show can only be called with page 0, and hang, by the other thread  *)
(* or after the other thread has changed file_num in that moment.           *)
PageInRange == page_menu = 0 => spc \in {"show", "hung"}

(* When the screen shows the present page of the present list, a tap on an  *)
(* entry selects the model shown there (file_show and file_get count alike).*)
TapOpensShown ==
  [][\A k \in Slots :
       /\ cmd = <<"tap", k>> /\ cmd' = Idle
       /\ shown = PageOf(listing, file_num, page_menu) /\ shown[k] # Blank
       => print_path' = shown[k]]_vars

(* While a model is printed, and file_change_flag forbade changes and the   *)
(* file thread was idle when the print began, nothing is unmounted unless a *)
(* stick is pulled.  (A second print started after a stick was pulled in    *)
(* the first one is not protected: the flag stays 0.)                       *)
PrintKeepsMounts ==
  [][begun = "guarded" /\ mounted' # mounted => plugged' # plugged \/ u_num < usb_flag]_vars

(* However the threads interleave, in the end the list is that of the       *)
(* sticks and models there are, unless the last update was skipped or asked *)
(* for while one was under way, or sticks were exchanged between two counts.*)
UpToDate ==
  LET There(m) == m \in alive /\ Place[m] \in plugged \cup {Local}
  IN listing = SelectSeq(Order, There) /\ file_num = Len(listing)

Settles == <>[](dropped \/ swapped \/ "hung" \in {fpc, spc} \/ UpToDate)

=============================================================================
