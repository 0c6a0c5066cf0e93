---------------------------- MODULE UsbPagesProofs ----------------------------
(***************************************************************************)
(* Theorems about the model pages and the sticks, for every set of sticks, *)
(* every list and place of models and every size of a page.                *)
(***************************************************************************)
EXTENDS UsbPages, FiniteSetTheorems, TLAPS

-----------------------------------------------------------------------------
(* The numbers, the list and what the screen shows. *)

\* What is kept is among what is listed, and no longer than the list.
LEMMA KeptType ==
  ASSUME NEW M, NEW S, NEW order \in Seq(M), NEW l \in Kept(order, S)
  PROVE  l \in Seq(M) /\ Len(l) \in 0 .. Len(order)
<1>. DEFINE at == {i \in DOMAIN order : order[i] \in S}
            n  == Cardinality(at)
<1>1. n \in 0 .. Len(order)
  <2>1. at \in SUBSET (1 .. Len(order)) /\ Len(order) \in Nat
    OBVIOUS
  <2>2. IsFiniteSet(1 .. Len(order)) /\ Cardinality(1 .. Len(order)) = Len(order)
    BY <2>1, FS_Interval
  <2>3. IsFiniteSet(at) /\ n <= Len(order)
    BY <2>1, <2>2, FS_Subset
  <2>. QED BY <2>1, <2>3, FS_CardinalityType
<1>2. PICK p \in [1 .. n -> at] : l = [k \in 1 .. n |-> order[p[k]]]
  BY DEF Kept, PlacesOf
<1>3. \A i \in at : order[i] \in M
  OBVIOUS
<1>. HIDE DEF n, at
<1>4. l \in [1 .. n -> M]
  BY <1>2, <1>3
<1>. QED BY <1>1, <1>4

\* What is counted of the sticks is at most their number.
LEMMA SticksCount ==
  /\ Cardinality(Sticks) \in Nat
  /\ \A S \in SUBSET Sticks : Cardinality(S) \in 0 .. Cardinality(Sticks)
<1>1. ASSUME NEW S \in SUBSET Sticks PROVE Cardinality(S) \in 0 .. Cardinality(Sticks)
  BY PagesAssumption, FS_Subset, FS_CardinalityType
<1>. QED BY <1>1, PagesAssumption, FS_CardinalityType

\* A longer list has no fewer pages.
LEMMA Pages ==
  ASSUME NEW a \in Nat, NEW b \in Nat, a <= b
  PROVE  /\ LastPage(a) \in Nat /\ LastPage(b) \in Nat
         /\ LastPage(a) <= LastPage(b)
<1>. DEFINE P == PageSize
            q(n) == (n + P - 1) \div P
<1>1. P \in Nat /\ P >= 1
  BY PagesAssumption
<1>2. ASSUME NEW n \in Nat
      PROVE  q(n) \in Nat /\ P * q(n) <= n + P - 1 /\ n + P - 1 < P * q(n) + P
  <2>1. n + P - 1 \in Nat
    BY <1>1
  <2>. QED BY <1>1, <2>1
<1>. HIDE DEF q, P
<1>3. q(a) <= q(b)
  <2>1. SUFFICES ASSUME q(a) >= q(b) + 1 PROVE FALSE
    BY <1>2
  <2>2. q(a) \in Nat /\ q(b) \in Nat
    BY <1>2
  <2>. DEFINE d == q(a) - q(b) - 1
  <2>3. d \in Nat /\ q(a) = q(b) + 1 + d
    BY <2>1, <2>2
  <2>. HIDE DEF d
  <2>4. P * q(a) = P * q(b) + P + P * d /\ P * d \in Nat /\ P * q(b) \in Nat
    BY <1>1, <2>2, <2>3
  <2>. QED BY <1>1, <1>2, <2>4
<1>. QED BY <1>2, <1>3 DEF q, P, LastPage

\* A page of a list of models shows models and blanks.
LEMMA PageType ==
  ASSUME listing \in Seq(Models), file_num \in Nat, page_menu \in Nat, page_menu # 0
  PROVE  /\ PageOf(listing, file_num, page_menu) \in [Slots -> Models \cup {Blank}]
         /\ \A k \in Slots :
              Line(listing, PageSize * (page_menu - 1) + k) \in Models \cup {Blank}
<1>1. ASSUME NEW i \in Nat, i # 0 PROVE Line(listing, i) \in Models \cup {Blank}
  BY <1>1 DEF Line
<1>2. ASSUME NEW k \in Slots
      PROVE  /\ (page_menu - 1) * PageSize + k \in Nat /\ (page_menu - 1) * PageSize + k # 0
             /\ PageSize * (page_menu - 1) = (page_menu - 1) * PageSize
  <2>1. (page_menu - 1) * PageSize \in Nat /\ k \in Nat /\ k # 0
    BY PagesAssumption DEF Slots
  <2>. QED BY <2>1, PagesAssumption
<1>. QED BY <1>1, <1>2 DEF PageOf

LEMMA ClearedType == Cleared \in [Slots -> Models \cup {Blank}]
BY DEF Cleared

\* The types need more than themselves: the list is no longer than find's, and the page number
\* is nought only inside page_menu_add, so that no line before the first is read.
PageInv == TypeOK /\ PageInRange /\ Len(listing) <= Len(Order)

LEMMA PageInitially == Init => PageInv
<1>. SUFFICES ASSUME Init PROVE PageInv
  OBVIOUS
<1>1. Len(Order) \in Nat
  BY PagesAssumption
<1>2. usb_flag \in -1 .. Cardinality(Sticks) /\ u_num \in 0 .. Cardinality(Sticks)
      /\ usb_flag_last \in -1 .. Cardinality(Sticks)
  BY SticksCount DEF Init
<1>3. plugs \in 0 .. MaxPlugs /\ cmds \in 0 .. MaxCmds /\ file_num \in 0 .. Len(Order)
  BY <1>1, PagesAssumption DEF Init
<1>4. listing \in Seq(Models) /\ Len(listing) <= Len(Order)
  BY <1>1 DEF Init
<1>5. plugged \subseteq Sticks /\ alive \subseteq Models /\ mounted \subseteq Sticks
      /\ print_path \in Models \cup {Blank} /\ cmd \in Commands \cup {Idle}
  BY DEF Init
<1>6. /\ page_menu \in {0, 1} \cup 1 .. LastPage(Len(Order)) /\ PageInRange
      /\ shown \in [Slots -> Models \cup {Blank}]
  BY ClearedType DEF Init, PageInRange
<1>7. /\ file_change_flag \in 0 .. 1 /\ print_flag \in 0 .. 2
      /\ fpc = "poll" /\ spc = "top" /\ page = "model" /\ begun = "no"
  BY DEF Init
<1>8. swapped \in BOOLEAN /\ due \in BOOLEAN /\ dropped \in BOOLEAN
  BY DEF Init
<1>. QED BY <1>2, <1>3, <1>4, <1>5, <1>6, <1>7, <1>8 DEF PageInv, TypeOK

LEMMA PageStep == ASSUME PageInv, [Next]_vars PROVE PageInv'
<1>. USE DEF PageInv, TypeOK, PageInRange, fileKeeps, screenKeeps, printKeeps, usb, list, flags,
             user, past, Idle
<1>1. CASE FileThread
  <2>1. CASE Poll
    BY <2>1, SticksCount DEF Poll
  <2>2. CASE Decide
    BY <2>2 DEF Decide
  <2>3. CASE Umount
    BY <2>3 DEF Umount
  <2>4. CASE Mount
    BY <2>4 DEF Mount
  <2>5. CASE FirstPage
    <3>1. page_menu' \in {page_menu, 1} /\ shown' \in [Slots -> Models \cup {Blank}]
      BY <2>5, ClearedType DEF FirstPage
    <3>2. fpc' \in {"find", "flag"} /\ due' \in BOOLEAN
      BY <2>5 DEF FirstPage
    <3>. QED BY <2>5, <3>1, <3>2 DEF FirstPage
  <2>6. CASE Find
    <3>1. listing' \in Kept(Order, {m \in Models : Readable(m)})
      BY <2>6 DEF Find
    <3>2. listing' \in Seq(Models) /\ Len(listing') <= Len(Order)
      BY <3>1, KeptType, PagesAssumption
    <3>. QED BY <2>6, <3>2 DEF Find
  <2>7. CASE Count
    <3>1. Len(listing) \in 0 .. Len(Order)
      BY <2>7
    <3>. QED BY <2>7, <3>1 DEF Count
  <2>8. CASE Show
    BY <2>8, PageType DEF Show, file_show
  <2>9. CASE NoteCount
    BY <2>9 DEF NoteCount
  <2>. QED BY <1>1, <2>1, <2>2, <2>3, <2>4, <2>5, <2>6, <2>7, <2>8, <2>9 DEF FileThread
<1>2. CASE ScreenThread
  <2>1. CASE Top
    BY <2>1 DEF Top
  <2>2. CASE MenuShow
    BY <2>2, PageType DEF MenuShow, file_show
  <2>3. CASE page_menu_add
    <3>1. /\ LastPage(file_num) \in Nat /\ LastPage(Len(Order)) \in Nat
          /\ LastPage(file_num) <= LastPage(Len(Order)) /\ page_menu \in Nat
      BY Pages, PagesAssumption
    <3>. DEFINE next == (IF page_menu < 1 THEN 1 ELSE page_menu) + 1
    <3>2. page_menu' = IF next > LastPage(file_num) THEN LastPage(file_num) ELSE next
      BY <2>3 DEF page_menu_add
    <3>3. page_menu' \in {0} \cup 1 .. LastPage(Len(Order))
      BY <3>1, <3>2
    <3>4. /\ spc' = "show" /\ shown' = Cleared /\ cmd' = Idle
          /\ UNCHANGED <<screenKeeps, flags, usb_flag_last, print_path, page, due, begun>>
      BY <2>3 DEF page_menu_add, Handle
    <3>. QED BY <3>3, <3>4, ClearedType
  <2>4. CASE page_menu_sub
    <3>1. page_menu' \in {1} \cup 1 .. LastPage(Len(Order))
      <4>1. LastPage(Len(Order)) \in Nat
        BY Pages, PagesAssumption
      <4>2. page_menu' = IF page_menu > 1 THEN page_menu - 1 ELSE 1
        BY <2>4 DEF page_menu_sub
      <4>. QED BY <4>1, <4>2
    <3>. QED BY <2>4, <3>1, ClearedType DEF page_menu_sub, Handle
  <2>5. CASE page_file_show
    BY <2>5 DEF page_file_show, Handle
  <2>6. CASE delete_model
    <3>1. usb_flag' \in -1 .. Cardinality(Sticks)
      BY <2>6, SticksCount DEF delete_model, AskUpdate
    <3>2. shown' \in [Slots -> Models \cup {Blank}]
      BY <2>6, ClearedType DEF delete_model
    <3>3. alive' \subseteq Models /\ page' \in {page, "model"} /\ due' \in {due, TRUE}
          /\ file_change_flag' \in {file_change_flag, 0}
      BY <2>6 DEF delete_model, AskUpdate
    <3>4. /\ spc = "cmd" /\ spc' = "top" /\ cmd' = Idle
          /\ UNCHANGED <<plugged, plugs, mounted, list, u_num, fpc, cmds, swapped, dropped,
                         page_menu, usb_flag_last, print_flag, print_path, begun>>
      BY <2>6 DEF delete_model, Handle
    <3>5. file_change_flag' \in 0 .. 1 /\ page' \in {"model", "print"}
      BY <3>3
    <3>6. due' \in BOOLEAN
      BY <3>3
    <3>7. PageInRange'
      BY <3>4
    <3>. QED BY <3>1, <3>2, <3>3, <3>4, <3>5, <3>6, <3>7
  <2>7. CASE PRINT_STOP_RETURN
    BY <2>7, SticksCount, ClearedType DEF PRINT_STOP_RETURN, Handle, AskUpdate
  <2>8. CASE PRINT_STOP
    BY <2>8 DEF PRINT_STOP, Handle
  <2>9. ASSUME NEW k \in Slots, file_slot(k) PROVE PageInv'
    BY <2>9, PageType DEF file_slot, Handle
  <2>. QED BY <1>2, <2>1, <2>2, <2>3, <2>4, <2>5, <2>6, <2>7, <2>8, <2>9 DEF ScreenThread
<1>3. CASE World
  <2>1. CASE PrintEnds
    BY <2>1 DEF PrintEnds
  <2>2. CASE PrintBreaks
    BY <2>2, SticksCount, ClearedType DEF PrintBreaks, AskUpdate
  <2>3. CASE Press
    <3>1. Offered \subseteq Commands
      BY DEF Offered, Commands, Words
    <3>2. cmd' \in Commands \cup {Idle} /\ cmds' \in 0 .. MaxCmds
      BY <2>3, <3>1, PagesAssumption DEF Press
    <3>. QED BY <2>3, <3>2 DEF Press
  <2>4. ASSUME NEW s \in Sticks, Plug(s) \/ Pull(s) PROVE PageInv'
    <3>1. PICK S \in SUBSET Sticks : Change(S)
      BY <2>4 DEF Plug, Pull
    <3>2. mounted' \in SUBSET Sticks
      BY <2>4 DEF Plug, Pull
    <3>3. swapped' \in BOOLEAN /\ plugs' \in 0 .. MaxPlugs /\ plugged' \in SUBSET Sticks
      BY <3>1, PagesAssumption DEF Change
    <3>. QED BY <3>1, <3>2, <3>3 DEF Change
  <2>. QED BY <1>3, <2>1, <2>2, <2>3, <2>4 DEF World
<1>4. CASE UNCHANGED vars
  BY <1>4 DEF vars
<1>. QED BY <1>1, <1>2, <1>3, <1>4 DEF Next

\* Every variable keeps its type: the list that has been read holds models only, the count fits
\* the list, and the screen shows models or blanks, for every list and every set of sticks.
THEOREM TypesHold == Spec => []TypeOK
<1>1. PageInv => TypeOK
  BY DEF PageInv
<1>. QED BY PageInitially, PageStep, <1>1, PTL DEF Spec

\* file_show is called with page nought, and hangs, only inside page_menu_add
\* (HMI-Screen.cpp 479-525, HMI-Screen-SW.cpp 248-285).
THEOREM PagesFromOne == Spec => []PageInRange
<1>1. PageInv => PageInRange
  BY DEF PageInv
<1>. QED BY PageInitially, PageStep, <1>1, PTL DEF Spec

-----------------------------------------------------------------------------
(* A tap. *)

LEMMA EntryOfSlot ==
  ASSUME NEW k \in Slots, page_menu \in Int, file_num \in Int,
         PageOf(listing, file_num, page_menu)[k] # Blank
  PROVE  /\ PageSize * (page_menu - 1) + 1 <= file_num
         /\ Line(listing, PageSize * (page_menu - 1) + k) = PageOf(listing, file_num, page_menu)[k]
<1>. DEFINE before == PageSize * (page_menu - 1)
<1>1. before \in Int /\ before = (page_menu - 1) * PageSize /\ k \in Int /\ 1 <= k
  BY PagesAssumption DEF Slots
<1>2. PageOf(listing, file_num, page_menu)[k] =
        IF before + k <= file_num THEN Line(listing, before + k) ELSE Blank
  BY <1>1 DEF PageOf
<1>. HIDE DEF before
<1>3. before + k <= file_num
  BY <1>2
<1>4. before + 1 <= file_num
  BY <1>1, <1>3
<1>. QED BY <1>2, <1>3, <1>4 DEF before

LEMMA PageNumbers == PageInv => page_menu \in Int /\ file_num \in Int
BY Pages, PagesAssumption DEF PageInv, TypeOK

\* If the screen shows the present page, a tap selects the model shown
\* (HMI-Screen.cpp 529-660, HMI-Screen-SW.cpp 248-285 and 697-710).
THEOREM TapSelectsShown == Spec => TapOpensShown
<1>. DEFINE Tapped(k) == /\ cmd = <<"tap", k>> /\ cmd' = Idle
                         /\ shown = PageOf(listing, file_num, page_menu) /\ shown[k] # Blank
<1>1. ASSUME PageInv, [Next]_vars, NEW k \in Slots, Tapped(k)
      PROVE  print_path' = shown[k]
  <2>1. cmd # Idle
    BY <1>1 DEF Idle
  <2>2. cmd' # cmd
    BY <1>1, <2>1
  <2>3. ~(FileThread \/ World \/ UNCHANGED vars)
    BY <2>1, <2>2 DEF FileThread, Poll, Decide, Umount, Mount, FirstPage, Find, Count, Show,
         NoteCount, fileKeeps, user, World, PrintEnds, PrintBreaks, printKeeps, Press, Plug, Pull,
         Change, vars
  <2>4. ScreenThread
    BY <1>1, <2>3 DEF Next
  <2>5. ~(Top \/ MenuShow)
    BY <2>2 DEF Top, MenuShow
  <2>6. PICK j \in Slots : file_slot(j)
    BY <1>1, <2>4, <2>5 DEF ScreenThread, delete_model, PRINT_STOP_RETURN, page_file_show,
         page_menu_add, page_menu_sub, PRINT_STOP, Handle
  <2>7. j = k
    BY <1>1, <2>6 DEF file_slot, Handle
  <2>8. PageSize * (page_menu - 1) + 1 <= file_num /\
        Line(listing, PageSize * (page_menu - 1) + k) = shown[k]
    BY <1>1, PageNumbers, EntryOfSlot
  <2>9. ~(PageSize * (page_menu - 1) + 1 > file_num)
    BY <1>1, <2>8, PageNumbers, PagesAssumption
  <2>. QED BY <2>6, <2>7, <2>8, <2>9 DEF file_slot
<1>2. PageInv /\ [Next]_vars => [\A k \in Slots : Tapped(k) => print_path' = shown[k]]_vars
  BY <1>1
<1>. HIDE DEF Tapped
<1>4. Spec => [][\A k \in Slots : Tapped(k) => print_path' = shown[k]]_vars
  BY <1>2, PageInitially, PageStep, PTL DEF Spec
<1>. QED BY <1>4 DEF TapOpensShown, Tapped

-----------------------------------------------------------------------------
(* The sticks stay mounted during a print. *)

\* While a guarded print lasts, the file thread is on its way to unmount only because a stick
\* was pulled, and nothing is mounted once the guard is gone.
GuardInv ==
  /\ file_change_flag \in {0, 1} /\ print_flag \in 0 .. 2
  /\ begun = "guarded" =>
       /\ print_flag # 0
       /\ fpc = "umount" => u_num < usb_flag \/ mounted = {}
       /\ file_change_flag = 1 \/ mounted = {} \/ fpc = "umount"

LEMMA GuardStep == ASSUME GuardInv, [Next]_vars PROVE GuardInv'
<1>. USE DEF GuardInv, fileKeeps, screenKeeps, printKeeps, usb, list, flags, user, past
<1>1. CASE FileThread
  <2>1. CASE Poll
    BY <2>1 DEF Poll
  <2>2. CASE Decide
    BY <2>2 DEF Decide
  <2>3. CASE Umount
    BY <2>3 DEF Umount
  <2>4. CASE Mount
    BY <2>4 DEF Mount
  <2>5. CASE FirstPage
    BY <2>5 DEF FirstPage
  <2>6. CASE Find \/ Count
    BY <2>6 DEF Find, Count
  <2>7. CASE Show
    BY <2>7 DEF Show, file_show
  <2>8. CASE NoteCount
    BY <2>8 DEF NoteCount
  <2>. QED BY <1>1, <2>1, <2>2, <2>3, <2>4, <2>5, <2>6, <2>7, <2>8 DEF FileThread
<1>2. CASE ScreenThread
  <2>1. CASE Top
    BY <2>1 DEF Top
  <2>2. CASE MenuShow
    BY <2>2 DEF MenuShow, file_show
  <2>3. CASE page_menu_add \/ page_menu_sub \/ page_file_show
    BY <2>3 DEF page_menu_add, page_menu_sub, page_file_show
  <2>4. CASE delete_model
    BY <2>4 DEF delete_model, AskUpdate
  <2>5. CASE PRINT_STOP_RETURN
    BY <2>5 DEF PRINT_STOP_RETURN
  <2>6. CASE PRINT_STOP
    BY <2>6 DEF PRINT_STOP
  <2>7. CASE \E k \in Slots : file_slot(k)
    BY <2>7 DEF file_slot
  <2>. QED BY <1>2, <2>1, <2>2, <2>3, <2>4, <2>5, <2>6, <2>7 DEF ScreenThread
<1>3. CASE World
  <2>1. CASE PrintEnds
    BY <2>1 DEF PrintEnds
  <2>2. CASE PrintBreaks
    BY <2>2 DEF PrintBreaks
  <2>3. CASE Press
    BY <2>3 DEF Press
  <2>4. CASE \E s \in Sticks : Plug(s) \/ Pull(s)
    <3>1. UNCHANGED <<flags, fpc, u_num, begun>>
      BY <2>4 DEF Plug, Pull, Change
    <3>2. mounted = {} => mounted' = {}
      BY <2>4 DEF Plug, Pull
    <3>. QED BY <3>1, <3>2
  <2>. QED BY <1>3, <2>1, <2>2, <2>3, <2>4 DEF World
<1>4. CASE UNCHANGED vars
  BY <1>4 DEF vars
<1>. QED BY <1>1, <1>2, <1>3, <1>4 DEF Next

\* A print that began guarded keeps its sticks unless one is pulled
\* (file.cpp 156-240, HMI-Screen.cpp 529-743).
THEOREM PrintsKeepSticks == Spec => PrintKeepsMounts
<1>1. Init => GuardInv
  BY DEF Init, GuardInv
<1>2. ASSUME GuardInv, [Next]_vars, begun = "guarded", mounted' # mounted
      PROVE  plugged' # plugged \/ u_num < usb_flag
  <2>. USE DEF fileKeeps, screenKeeps, printKeeps, usb, list, flags, user, past
  <2>1. CASE FileThread
    <3>1. ~Mount
      BY <1>2 DEF Mount, GuardInv
    <3>2. Umount
      BY <1>2, <2>1, <3>1 DEF FileThread, Poll, Decide, FirstPage, Find, Count, Show, NoteCount
    <3>. QED BY <1>2, <3>2 DEF Umount, GuardInv
  <2>2. CASE ScreenThread
    BY <1>2, <2>2 DEF ScreenThread, Top, MenuShow, delete_model, PRINT_STOP_RETURN,
         page_file_show, page_menu_add, page_menu_sub, PRINT_STOP, file_slot
  <2>3. CASE World
    BY <1>2, <2>3 DEF World, PrintEnds, PrintBreaks, Press, Plug, Pull, Change
  <2>4. CASE UNCHANGED vars
    BY <1>2, <2>4 DEF vars
  <2>. QED BY <1>2, <2>1, <2>2, <2>3, <2>4 DEF Next
<1>3. GuardInv /\ [Next]_vars =>
        [begun = "guarded" /\ mounted' # mounted => plugged' # plugged \/ u_num < usb_flag]_vars
  BY <1>2
<1>4. Spec => [][begun = "guarded" /\ mounted' # mounted
                   => plugged' # plugged \/ u_num < usb_flag]_vars
  BY <1>1, <1>3, GuardStep, PTL DEF Spec
<1>. QED BY <1>4 DEF PrintKeepsMounts

=============================================================================
