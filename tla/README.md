# Verification of the USR printer controller

The repository is the controller of a family of 3D printers: a DLP resin printer
(`src/00.dlpUsr1`), an unattended FDM printer (`src/01.autoFdm`), three switches of an assistant
for a metal printer (`src/02.assistLdm`), an image service for sliced files (`src/dlpModule/SlcFileRead`), a
WebSocket server (`src/mana-svr/tcp`) and web pages. This directory holds TLA+ models of its
concurrent core, the TLC configurations that check them and the theorems that TLAPS proves
about them. The reference is the C and C++ code; where a comment or a message of the code says
something else, that is a finding.

Line numbers below are those of the files under `src/`, counted by line feeds as `grep -n` does.
(`DEV_Config_2.cpp` holds another separator before line 527; an editor that counts it shows the
later lines one higher.)

## 1. Inventory

| Component | Code | State | Operations | Hard part |
|---|---|---|---|---|
| Print job and order list | `00.dlpUsr1/SLC_Read.cpp` 394-552 (`GMCreat`), `marlinHost.cpp` 60-314 (`GM_Read`, list functions) | `G-M.gcode`, a linked list of `Goods` with `order_status` | write the file, load it, read, mark and delete the head | two threads use the list without a lock; `feof` loop |
| Link to the motion board | `marlinHost.cpp` 211-314, 438-493, 544-725; `DEV_Config_2.cpp` 240-258; `wiringSerial.cpp` | head of the list, `RevBuf3`, `uart3_sign`, `next_flag`, `Line_Last`, `flagFrequency`, the UART | send and resend with line number and checksum, `tcflush`, parse complaints and oks | lost, cut, doubled and late lines; an ok carries no number |
| DLP print control | `marlinHost.cpp` 317-349, 387-540; `SLC_Read.cpp` 659-1158; `HMI-Screen.cpp` 445-477, 732-743 | `print_flag`, `file_continue_flag`, the list, `print_path`, the image in the frame buffer | choose a file, start, pause, continue, stop, open the file, show an image, expose, end | four threads, two plain flags, spinning on both; the file is opened again at its end |
| Screen pages and parameters | `HMI-Screen.cpp`, `HMI-Screen-SW.cpp`, `strstr.cpp` | `page_menu`, `print_path`, `file_change_flag`, what the screen still shows | paging, choice, start, stop and deletion of models, exchange of parameters | the list changes under the page; checks one line and acts on another |
| Serial ports and receivers | `DEV_Config_2.cpp` (`hardware_init_main`), `DEV_Config.cpp` | `tty_flags`, `fd_HMI`, `fd_Marlin`, receive buffers and signs, `reboot.cfg` | wake the projector with restarts, find screen and board by trying ports, receive | late answers on a port given up, a closed descriptor, power cut |
| Configuration and USB watch | `file.cpp`, `parameter.cpp` | `usb_flag`, `file.cfg`, `file_num`, mounts, settings | count and mount sticks, list their models, read and write settings | the sticks change while printing, or during an update |
| Light engine | `PDC.cpp` | one command and its echo | send, wait for echo | waits for ever |
| SLC image service | `dlpModule/SlcFileRead/main.cpp`, `pthread/*`, `www/cgi-bin/mult-post.c` | a FIFO, `str_fifo`, `fifoRecv`, `file_continue_flag`, answer files, `dst.bmp` | request, receive, analyse, write an image, answer, exit | answers are not tied to requests; commands merge |
| WebSocket server | `mana-svr/tcp/tcp_epoll.c`, `tcp_session.c`, `tcp_ws.c` | epoll set, sessions, handshake state | accept, handshake, frame, send, close | edge-triggered epoll; loop bound overwritten |
| Automatic FDM printer | `01.autoFdm/usr01.h`, `main.cpp` | names and index of the folder's files, two static verdicts on the job | ask for the files, ask for the job, print the next file | polls that miss changes; answers that are old when used |
| Assistant LDM printer | `02.assistLdm/usr02.h`, `www/FIFO_TEST/cgi-bin/*.c`, `main.cpp` | per switch a FIFO, a flag, an answer file | press, answer, collect, give up | answers are not tied to requests; presses merge |
| OctoPrint client | `octoModule/octoMovement.cpp` | none | one HTTP call per function; an emergency stop nobody calls | - |
| FIFO page | `www/FIFO_POST/cgi-bin/mult-post.c`, `pthread/*.cpp` | a FIFO | as the image service | as the image service |
| Frame buffer, web front end, vendored code | `dlpModule/FrameBuffer`, `dlpModule/webModule`, the libraries | - | - | no protocol of the machine |

How they interact:

- The **screen** thread changes `print_flag` (0 stopped, 1 printing, 2 paused). The **motor**
  thread sees it rise, raises `file_continue_flag`, loads the order list and sends its head
  again and again. The **reply** thread deletes the head when the board has said `ok`; for
  `M114` it first waits until `file_continue_flag` is down, for `M106` it first exposes, for
  `M107` it raises the flag again. The **file** thread waits for that flag, shows the next
  image and lowers it. No lock protects any of this.
- The **receivers** (`Uart_REC`) hand whole lines to the reply thread and to the screen thread
  through one buffer and one sign each.
- The **file** thread of `file.cpp` watches the sticks and writes the list of models that the
  screen thread pages through; both show pages and set `page_menu`, and either may find the
  print started or stopped by the other side (`print_flag`, `file_change_flag`, `usb_flag`).
- At the start `hardware_init_main` works alone but for the receiver, which polls the two
  descriptors that the search for the ports changes under it.
- A **CGI process** writes a command into a FIFO and polls for the answer file. In the image
  service three threads pass the command on through `str_fifo`/`fifoRecv` and
  `file_continue_flag`.

What makes each component correct is the list of properties of the runs (section 3); what can go wrong and
is hard to test is the list `hazards` of `PROJECT.json`, each at its line, with the properties
that would catch it.

## 2. Modules

| Module | Models | State and actions |
|---|---|---|
| `GMFile` | the file and the classes of its commands | pure: `GMCreat(n)` is the command of line n, `Number(i)` the N word of the i-th order, `compareSelf` what the reply thread waits for |
| `MarlinLink` | the link for one print job | the list is the index `head` of its first node and that node's `order_status`; `wire`, `cut`, `replies`, `RevBuf3` are the two directions of the UART and the hand-over of a line; one action per branch of `thread_3`, `send_head`, `Uart_REC`, and the board as an external actor |
| `OrderDelivery` | abstract specification: orders are finished one by one and taken before the next starts | `taken`, `done`; implemented by `MarlinLink` with `taken <- head - 1`, `done <- completed` |
| `DlpPrint` | one printer: screen, motor, reply and file threads and the two flags | each thread has a variable that says where it is (`hmi`, `motor`, `reply`, `slc`; `dead` after a crash); reads and writes of the flags are separate steps; `img` is the image OpenSLC works on, `shown` the picture in the frame buffer, `print_path` whether the chosen file can be opened and has a header; the link is reduced to the oks the board still `owed` |
| `SlcService` | the image service and its CGI processes | per client `cgi`; receiver `recv`, `buf`, analyser, OpenSLC `slc`; the answer files are `new` and `back` |
| `WsServer` | the WebSocket server, its session table, the kernel's side of epoll and the clients | `online`, `c_sock`, `removed`, `is_shake_hand` are the sessions; `backlog`, `sock`, `interest`, `ready` the kernel; `all`, `fd`, `s`, `pc` the loop; one action per branch of the loop |
| `ProjectorWake` | waking the projector, with restarts and power cuts | `file` and `disk` are `reboot.cfg` as the program sees it and as it would survive; `main` is the place in `hardware_init_main`; `lamp` and `needs` are the projector |
| `PortSearch` | `MarlinBoard_find`, `HMI_find` and the receiver | `tty_flags`, `opened`, `fd`, `sign`; the devices `owed` an answer, ports with unread `lines` |
| `StartUp` | `hardware_init_main`: the two in sequence, with crashes | every restart begins the search anew |
| `UsbPages` | file thread, screen thread, print, user, sticks | `fpc` and `spc` are the places of the two threads; `listing`, `file_num`, `page_menu`, `shown`, `mounted` and the three flags they share |
| `AutoFdm` | the loop of `autoFdmUsr01`, OctoPrint and its user | `pc` with one action per request; `fileName`, the three counts, `loopState` and `printState` (two static variables, both called `fileState` in the code) |
| `CgiMailbox` | one switch of `usr02.h` and its CGI processes | `fifo`, `flag`, `outfile`, `back` and the place `cgi` of each process |
| `Listing` | what is kept of a list, in its order | pure: `Kept(order, S)` is used by `UsbPages` for the models `find` lists and by `AutoFdm` for OctoPrint's names |
| `Main` | `main.cpp`: which of the two programs the build runs | `program` |
| `MCMarlinLink`, `MCSlcService`, `MCWsServer`, `MCUsbPages`, `MCMain` | instances for TLC | values of the constants |
| `GMFileProofs`, `MarlinLinkProofs`, `DlpPrintProofs`, `SlcServiceProofs`, `WsServerProofs`, `StartUpProofs`, `UsbPagesProofs`, `MainProofs` | lemmas and theorems | - |

`MarlinLink` and `DlpPrint` both extend `GMFile`; they split one system along the line where its
parts touch least. `MarlinLink` keeps everything that happens on the wire and reduces the
projector to one action (`ShowImage`) and the user to nobody; `DlpPrint` keeps users, projector
and both flags and reduces the wire to "an order sent once earns one ok". `AckedIsDone` and
`DeliversInStep` of the first are what justifies that reduction in the second.

### MarlinLink

- *Sending.* `send_head` sends the head whether or not it was sent before and marks it. `send`
  is `serialPrintf` followed by `tcflush(TCIOFLUSH)`: the whole line may leave, or its front
  (`cut`: the board then holds half a line, and glues the next one to it), or nothing; replies
  not read yet are dropped (`AfterFlush`). The limit of 30 sends has no action because it can
  never be reached: line 284 puts `times` back at every send.
- *The board* is external and follows the comments at lines 583-586: a line with the next number
  is accepted and answered by one `ok` when it is finished; any other is refused by a complaint,
  `Resend` and one `ok`. `M110` sets the number. The comment shows two oks after a refused
  duplicate; the model takes the second one for that of the first copy, which is still executing.
- *Time* is one guard, `SendDue`. With `Paced` the board has answered all it was sent when the
  next send comes; without it the host may send again while the first copy is executing.
- *Replies.* One action per test in `thread_3`, on one line at a time: `HandleLineError`,
  `HandleChecksum`, `HandleResend`, and for `ok` the four outcomes `IgnoreOk`, `TakeOk`,
  `StartWait`, `EndWait`.

### DlpPrint

- Start and pause are two steps (`PRINT_STOP` reads, `WriteToggle` writes), stop is two steps
  for its two flags. `page_file_show_end` clears only `print_flag`, so `WriteStop` may be left out.
- `juge_print` and the test at line 469 are separate steps, as are the two reads in the wait
  loop of OpenSLC (`PollContinue`, `PollStop`), the display and the lowering of the flag.
- *Base and contour layers.* OpenSLC first shows `Bottom` base layers, all with one white picture
  (`Picture`), then the contour layers. For a base layer `bmp_255` writes the picture and shows
  it (674) *before* the wait for the flag (833), and again after it; for a contour layer the
  display comes after the wait only.
- *The end of the file.* OpenSLC returns, and `thread_1` opens the file again as long as
  `print_flag` is not 0 (1143-1156). With a base layer the white picture is then drawn at once,
  whatever is still exposed. How many images the file yields is not tied to how many exposures
  the list asks for (line 652 truncates the height), so `Images` and `Layers` are independent.
- *The file itself.* `file_get` chooses a file, `PullStick` pulls the stick out. Then `access`
  fails before the next contour layer (`FileGone`; the base layers do not call it) or `fopen`
  fails at the next opening (`OpenFails`, 698-709): the flags are cleared and `fclose(NULL)`
  ends the process. A file without a header makes OpenSLC return with the flags as they were and
  the file left open (779-782); `thread_1` calls it again and again until the process has used up
  its descriptors, and then `fopen` fails too. One such return changes nothing in the model; the
  descriptors an earlier print without a header has used up are not counted in a later one.
- `HomeOks` is 3: `home_z` sends `G28 Z0` three times without waiting; so does the start-up.
- `clean` is a history variable: the print began with nothing left of an earlier one and has
  not been stopped since.
- *Freeing the list.* `OneRemover` says when the two threads that free nodes cannot meet. After
  a stop they can: `fun2` and `fun3` return at once and the reply thread deletes the head (649)
  while the motor thread empties the list (486). The memory that is then freed twice is not
  modelled; the list here is an index.
- The loops that spin on the flags are steps that re-read memory. The makefile compiles without
  optimisation; the variables are not `volatile`, and an optimising build could turn them into
  endless loops.

### SlcService

- `Post` is `fifo_write`; a client may give up whenever it finds no answer (`GiveUp`, the
  time-out). `access`, `fopen`/`fgets` and `remove` are separate steps, and `ReadNull` is the
  read of a file another client has just removed.
- One `read` takes everything in the FIFO (`ReadFifo`); `strcpy` into `str_fifo` is two steps
  with a string in between that is neither the old nor the new one.
- `analyseNext` raises `file_continue_flag`, `WaitForImage` waits until OpenSLC has lowered it,
  `WriteAnswer` reads `LayerCurrent` only then.
- The help text of the program (`main.cpp` 32-40) spells the commands `analysisNext` and `eixt`;
  the code compares with `analyseNext` and `exit` (234, 251). A client that follows the help
  text gets no answer.

### WsServer

- *The server* is one thread. `clear_offline_session` is the top of the loop, `epoll_wait` takes
  a batch, and each event is `accept` or `get_session` followed by the reads: one step per `recv`
  with what is done about its data (`process_ws_shake_hand`, `ws_send_data`, `IgnoreFrame`), and
  one for each way the reads end (`NoMore`, `close_session`, `RecvError`). Clients act between
  any two of these steps.
- `close_session` only marks the session; the socket stays open, and its number taken, until
  `clear_offline_session` closes it. `accept` takes the lowest free number, as the kernel does,
  and session memory is used again, so a new client meets the number and the memory of an old one.
- `ret`, the number of events of the batch, and `i`, the position in it, are the set `all` of
  events not looked at: the order of a batch is left open. Line 113 makes `ret` 0, which empties
  it; `dropped` remembers that something was in it.
- The test at line 80 is always false (`!` binds more tightly than `&`), so no event is skipped.
- *The kernel* is external. A connection's descriptor enters `ready` when something arrives on
  it, also its end, and leaves it when it is reported. The listening socket is level triggered
  and reported as long as someone waits.
- *A client* connects once, sends the handshake, waits for its answer, sends frames, and leaves at
  any time by closing (`fin`) or breaking off (`rst`). After a reset `recv` fails with an error
  that ends the process, or, when a `send` has already been told of it, returns 0.
- A message is small and arrives whole, and one `recv` takes all that has arrived; only the first
  message in it is looked at. A message split over two reads is not modelled.
- `websocketRecv` and `str_net` are written at lines 100-101 and read nowhere, so they are left out.

### StartUp, ProjectorWake, PortSearch

- *The file.* `fopen "w"` truncates, so that a power cut before the kernel has written its
  buffers (`Sync`) leaves the old file, the new one or an empty one. A missing file makes the
  program write the defaults and then call `fclose` on the null pointer of the failed read, which
  ends it; the next start finds the file. An empty file leaves the variables as they are.
- *A restart* is asked for by `reboot()`, which returns. With `PromptKill` the program gets no
  further; without it main goes on (`Clear`) until the restart takes place.
- When the projector is already on, the time is not read: the start writes the initial
  `time_add` of 4 seconds back with the marker, so that what was learnt is forgotten. The test
  `i>9` before `reboot()` in both searches is never true in a loop that ends at 9.
- *The search* asks one port after the other, waits for six looks half a second apart, and takes
  any line as the board's; the screen's lines carry a mark. A device may answer late, and the
  user may touch the screen; `stray` remembers a line that nobody waited for.
- *The receiver* polls `fd_HMI` and `fd_Marlin` as they are. On a closed descriptor
  `serialDataAvail` is -1 and the loop for the board never ends (`Runaway`). This happens
  between `close_tty` and the next `open_tty` and, when no board was found, for good; what the
  overrun of `RevBuf3` does to memory is not modelled, the thread is taken to be lost.

### UsbPages

- The file thread's `popen` commands take seconds; each is a step. It tests `print_flag` three
  times on its way (`Decide`, `Mount`, `FirstPage`) and may go on with some and not others.
- The screen thread handles one command in one step, except paging up and down, whose second half
  (`MenuShow`) reads `file_num` again, and the copy of `usb_flag` at the top of its loop (`Top`).
- `file_show` with `page_menu` 0 skips `(unsigned)(-1)*8` lines; the thread is `hung`.
- What the code does and the properties leave room for: `usb_flag = -1`, the screen's request
  for an update, is overwritten by an update under way; an update is skipped while
  `file_change_flag` is set or a print runs, and not made up for; sticks exchanged between two
  counts go unseen; a second print after a stick was pulled is not protected; an empty slot of a
  page selects the last model; `page_file_show` goes to page 1 without drawing it; a print that
  breaks off leaves `file_change_flag` set.

### AutoFdm, CgiMailbox, Main

- The `#define` of both programs are commented out at this commit; `main` then returns at once.
  `Main` is the build with one of them: with both, the second is never reached.
- `AutoFdm` makes three requests in turn; between any two the printer moves on and the user acts.
  An answer that is no JSON ends the round after the list and goes back to `init` after the job,
  as `Offline` does. States the code does not name leave both verdicts as they are, and so does a
  print that is not from the folder.
- The vector of names is cleared and read afterwards through an old iterator. What is read is
  still the name when it is short enough to be stored inside the string; a longer one is in
  memory given back (`Long`), and the request for it may name no file.
- `readme.txt` asks for a cancellation of more than five seconds; even then a list that fails
  makes the round skip the question for the job, so `CancelStops` speaks of cancellations seen.
- `CgiMailbox` is one of three switches that are alike and share nothing; the thread waits in
  `Spin`. A press before the thread has opened the FIFO is lost; presses that wait together are
  read as one; an answer file of an earlier run may still be there; a file removed between
  `access` and `fopen` makes `fgets` fail on a null pointer. After one answer left behind every
  press gets the answer of the one before, which is what `disturbed` stands for.
- The code after `while(1);` (`usr02.h` 393) is not reached and not modelled.

## 3. Runs

| Run | Instance | States | What it shows |
|---|---|---|---|
| `link_paced` | 2 layers, lossy, paced, at most 4 lines and replies in flight | 4,856 | type; an order leaves the list only when the board has finished it; no exposure without its image; the list implements `OrderDelivery`; the print gets to its last line |
| `link_eager` | 1 layer, lossless, slow board, at most 3 in flight | 50,529 | no order is skipped; the print gets to its last line |
| `link_print_ends` | 1 layer, lossless, paced | - | **violated**: the print never ends by itself |
| `dlp_print` | 2 layers (three exposures), 3 images, one of them a base layer, 3 presses | 343,499 | type; at each exposure its own picture, or for the last image the white one; no two threads empty the list; a stop brings all threads to rest, or the process has crashed; a print left alone runs through |
| `dlp_exposure` | 1 layer (two exposures), 2 images, 2 presses | - | **violated**: a pause can make a layer go unexposed |
| `slc_service` | 2 clients, 2 layers | 16,817 | no image unasked for; orderly requests get their own answer and its image |
| `ws_server` | 3 clients (three messages, one, none), 2 descriptors | 325,217 | type; the sessions agree with the kernel's table; each client gets its own echoes; no event is lost unless a batch was dropped, and then everything sent is read |
| `ws_stall` | the same | - | **violated**: the server goes to wait with unread input that the kernel will not report |
| `start_up` | times 1 to 3, 3 ports, 2 rounds, 2 looks, 1 touch, 1 power cut | 1,082,624 | type; times are tried in turn and none is skipped; devices are found on their ports, unless a stray line came, and kept; the receiver is caught only when there is no board; the machine comes up |
| `start_up_marker` | the same without power cuts, the restart taking its time | - | **violated**: the program clears the marker it has just written |
| `usb_pages` | 2 sticks, 4 models, pages of 2, 2 changes of sticks, 3 commands | 795,233 | type; page 0 only inside `page_menu_add`; a tap opens what is shown; a guarded print keeps its mounts; the list gets up to date |
| `main_programs` | 4 files, 4 acts of the user, 1 failed request; 3 presses | 235,124 | type; the index fits the list; a cancellation seen ends the loop; every file is printed; each press that is not disturbed has its own answer, and is answered |

### Bounds, and why they are enough

- *Layers.* The file is a cycle of five commands; one layer holds every command and every pair
  of neighbours except the one that closes the cycle, which the second layer of `link_paced`
  adds. What a thread does depends on the head's class and number only.
- *MaxFlight* caps the lines and replies under way when the host sends. Four is room for a
  refused line, which comes to three replies, and the next line; the eager run needs two copies
  of one line and the reply in `RevBuf3`.
- *MaxPresses.* Three presses are: start, pause, continue; start, stop, start; start, pause,
  stop. The choice of a file and the removal of the stick count as one each.
- *Images.* One base layer and two contour layers hold each pair of neighbours (base and contour,
  contour and contour, the end and the base layer again), and three exposures are as many as the
  images.
- *Clients.* Two requests overlap, follow or overtake each other at every point. With three
  clients the invariants of `slc_service` hold as well (4.6 million states, too many for a run
  kept here).
- *Clients of the WebSocket server.* Three connections on two descriptors: the third is accepted
  only on the number and the memory of one that left, or finds none. One client sends two frames
  after its handshake, which one `recv` can take together; with more frames that only repeats. A
  client that sent without pause would keep the loop at line 87 busy and starve the others; the
  bound `MaxSent` hides this, and `Heard` does not speak of it.

- *Start-up.* Three times are enough for the wrap-around and for a needed time before, at and
  after the first; three ports for a device before, at and after the one that is asked, with
  every set of ports that cannot be opened. Two rounds are one that is followed by another and
  one that is the last. One power cut falls between any two steps.
- *Pages.* Two pages and one model more or less decide between first, middle and last page.
  With four commands the run passes as well (2.94 million states).
- *Programs of main.* Four acts are: print, cancel, print again, change the folder. Two presses
  overlap or follow each other; the third finds what they left behind.

### Fairness

Every thread runs for ever (the operating system schedules them), so each thread's steps are
weakly fair; the board serves its queue. `MarlinLink` adds strong fairness of one event: of the
sends made while the board holds no half line, not every one is cut by `tcflush`; without it a
print on a lossy link need not progress, and no code prevents that. Nobody is forced to press,
to ask, to give up or to pull the stick out, to connect, to send or to leave. `WsServer` has one
fair thread, the server's. `DlpPrint`, `SlcService`, `WsServer` and the run `link_eager` may come
to rest, so they do not check for deadlock; `link_paced` does.

In `StartUp` the threads are fair, a restart that was asked for takes place, and a program that
died is started again; power cuts, touches and answers are not forced. In `UsbPages` both threads
are fair and nobody else. In `Main` the program, the printer's way from printing or cancelling to
operational, the thread of the switch and, for each CGI process, collecting an answer that is
there; giving up is left open. `StartUp` and `UsbPages` come to rest; `Main` never stops, since
both of its programs loop, and is checked for deadlock.

### Limits met while modelling

- `AckedIsDone` needs the paced board. If an order takes longer than a resend period, the ok in
  the complaint about its second copy is taken for the order's own, and the host is one order
  ahead of the board; `NotSkipped` is what remains true.
- A lossy link with a board slower than the resend period can lose every ok; nothing is claimed
  about progress there.
- After a stop during an exposure `M107` is never sent: the LED stays as it was. No comment says
  otherwise, so this is a remark and not a finding.
- `StopQuiets` needs both flags to be left down: if `print()` sees the stop at line 469 and the
  file thread is elsewhere, `file_continue_flag` stays up and `fun2` waits until the next print.
- A command that overtakes an `exit` in `str_fifo` is carried out twice, so the number of images
  is bounded by the number of commands and not by that of the calls of `analyseNext`.
- Overlapping clients take each other's answers, and one may call `fgets` on a null pointer
  (`mult-post.c` 100). The answer to the last layer may never be renamed into place.
- `RightPorts` needs the devices to speak only when asked: any line counts as the board's, so a
  touch of the screen during the search gives the screen's port to the board.
- `TriesInTurn` and `ComesUp` need the restart to kill at once; otherwise finding 4 applies, and
  `NoneSkipped` is what remains: a start tries the time tried last again, or the next one. The
  theorem says so for both; the instance in which the program goes on after `reboot()` passes as
  well (two ports, one round, one power cut; 108,966 states).
- `OneRemover` and `ImageMatches` need a print that has not been stopped.
- With base layers the last exposure may show the white picture: `bmp_255` draws the first base
  layer (674) before the wait for the flag (833), and `thread_1` opens the file again while the
  last image is waited for or exposed (1143-1156). The comments at 855 and 1127, which say that
  lowering the flag makes the display wait "next time", do not tell of it. The second alternative
  of `ImageMatches` is this case and no other; without it TLC finds the run to it at once, with
  one base layer, one contour layer and no pause. Images and exposures are
  equally many when the file has one contour layer more than the quotient of line 652.
- `StopQuiets` excuses the process that crashed in `fclose(NULL)`.
- `OwnAnswer`, `OwnToggle` and `CancelStops` speak of requests, presses and cancellations that
  nothing disturbed. What happens to the others is listed in the hazards with the note that no
  property covers it: the code promises nothing there.

## 4. Findings

1. `link_print_ends`: `GM_Read` enters the last line of the file twice; for `G28` the test at
   line 615 raises `next_flag` even when the numbers agree, which the comment at line 593 calls
   normal, so the second copy is resent for ever.
2. `dlp_exposure`: `fun3` exposes only if `print_flag` is 1 when the ok arrives (332), whereas the
   comment at 374 says that the order has an execution time to be kept; a pause at that moment
   deletes the order without exposure.
3. `ws_stall`: when a client has closed, line 113 of `tcp_epoll.c` puts the result of `epoll_ctl`
   into `ret`, the number of events, and the loop that the comment at line 57 says goes through
   the first `ret` elements ends there. With edge triggering (72) the rest of the batch is not
   reported again: its clients wait for an answer, or keep a dead session, until they send more.
   `EdgeKept` and `Heard` say that this is the only way an event gets lost.
4. `start_up_marker`: the comment at `DEV_Config_2.cpp` 1218 says that `reboot_` tells a start that
   it follows the restart; after `reboot()` (1281), which returns, the program goes on and writes
   the marker back to 0 (1283-1284). A machine that shuts down more slowly than that tries the
   same time again, and restarts for ever if it is the wrong one.

## 5. Proofs

All theorems are proved by TLAPS for every value of the constants.

| Theorem | Says | Argument |
|---|---|---|
| `MarlinLinkProofs!TypeCorrect` | `Spec => []TypeOK` | `TypeOK` is inductive; the lemmas of `GMFileProofs` bound `Number` and `Orders` |
| `MarlinLinkProofs!ImageAlwaysFirst` | `Spec => []ImageBeforeExposure`, for every `Layers`, lossy or not, paced or not | the property is not inductive: when `M106` comes to the head, the flag must already be down. `ImageInv` says that the flag may be up only while the head is an order between `M107` and the end of the wait, which the order of commands in the file (`WaitBeforeExposure`, `ExposureBeforeNext`) keeps true |
| `MarlinLinkProofs!NeverSkips` | `~Lossy => (Spec => []NotSkipped)` | `ChainInv`: the numbers that the board has accepted and those on the wire form a chain without a gap up to the last order sent |
| `MarlinLinkProofs!AcksMeanDone` | `Paced => (Spec => []AckedIsDone)`, for every `Layers` and bound on the lines in flight, lossy or not | `PacedInv` has three parts. `BoardInv`: the board has finished everything before the head and at most the head, and of the lines on the wire it can only accept the head. `PollInv`: each unread ok is either one that the reply thread throws away or the last thing the board said, after it finished the head. `WaitInv`: during a wait only copies of the finished line are sent. |
| `MarlinLinkProofs!DeliversInOrder` | `Paced => (Spec => DeliversInStep)`: the link implements `OrderDelivery` with `taken <- head - 1`, `done <- completed` | `StepDelivers` maps each action: `BoardFinish` finishes the head unless it is already finished (the board carries out `M110` twice), `TakeOk` and `EndWait` take the head, which `PacedInv` says is finished then; everything else is a stutter |
| `DlpPrintProofs!PrintTypeCorrect` | `Spec => []TypeOK` | `TypeOK` is inductive together with `InFile`: while OpenSLC has an image in hand, `img` is one of the file's |
| `DlpPrintProofs!OneThreadRemoves` | `Spec => []OneRemover` | `RunInv`: as long as nothing was stopped, `print_flag` stays up while orders are sent, so that the motor thread leaves its loop with the list empty only |
| `DlpPrintProofs!ExposuresMatch` | `Spec => []ImageMatches`, for every `Layers`, `Images` and `Bottom` | not inductive: `ReplyInv` ties the state of the reply thread to the class of the head and says that an exposure finds the flag down; `ImageInv` follows the image that is due, `Raises(head)`: on its way between the threads while the flag is up (`Coming`), in the frame buffer once it is down (`There`), even when `bmp_255` has drawn the next base layer over it, for that has the same picture; after the last image, whose file is opened again, the white one may be there. `RaisesStep` and `RaisesAtExposure` say how the number of `M107` lines counts the exposures |
| `SlcServiceProofs!ServiceTypeCorrect` | `Spec => []TypeOK` | `TypeOK` is inductive |
| `SlcServiceProofs!ImagesWereAsked` | `Spec => []NoExtraImage`, for every finite set of clients | `AskedInv` counts the commands under way: those in the FIFO, one in the receiver, one in the raised `fifoRecv`, one in the analyser, one in the raised flag; with the images written they never exceed the commands sent, and the flag is lowered before the next image |
| `SlcServiceProofs!AnswersFit`, `ImagesStay` | `Spec => []OwnAnswer`, `Spec => []ImageStays`, for every finite set of clients | `OrderInv`: while requests come one at a time, one client at most is under way, its request is in one place (FIFO, receiver, flag, analyser, answer file), and each place knows how far it has been carried out (`Request`, `Fits`, `Current`); when the client has gone nothing is left for the next (`Idle`). `FlagInv` ties the flag and the answer file to the place of the analyser; `AskedInv` keeps OpenSLC from writing without a request |
| `WsServerProofs!ServerTypeCorrect` | `Spec => []TypeOK` | together with `TableInv`: that a client sends a number that is a message's, and that an answer comes from a connection, needs the table |
| `WsServerProofs!TablesAgree` | `Spec => []SessionsMatch`, for all sets of clients, descriptors and memory | the property is not inductive: `TableInv` adds that sessions have different descriptors (`OnlineInv`), that each open descriptor has a session and each connection one descriptor (`SockInv`), that who is not accepted has neither descriptor nor answer (`FreshInv`), that the flag belongs to the connection (`GreetInv`), and that events and the one in hand are of connections in the set (`EventInv`) |
| `WsServerProofs!NoEdgeLost` | `Spec => []EdgeKept` | `EdgeInv`: until a batch is dropped, a connection with something to read is on the ready list, in the batch or in hand; `WaitInv`: who goes to wait has done with the batch |
| `WsServerProofs!AnswersAreOwn` | `Spec => []EchoOwn`, for all sets of clients, descriptors and memory | `EchoInv`: what each client has got, followed by what is still unread of it, is a subsequence of what it sent (`Stream`), and until it got the handshake only that is on its way. That an answer goes to the connection that the message was read from is `TableInv` |
| `StartUpProofs!StartTypeCorrect` | `Spec => []TypeOK` | that a port is waited for only if there is one is added (`SearchTyped`); what `reboot.cfg` holds is a time and a marker |
| `StartUpProofs!FoundIsKept`, `ReceiverFree` | `Spec => []FoundStays`, `Spec => []CaughtWithoutBoard`, for every number of ports, rounds and looks | `FoundInv`: a device is found at the end of its own search, on a port that was free and is open; the port is marked then, and no later search asks or closes it |
| `StartUpProofs!FoundWhereItIs` | `Spec => []RightPorts` | `AnswerInv`: while no line came unasked, a line waits only on the port in hand and only if that is the device's own, so the sign is up for no other port. That the wait for the screen cannot start with a line left unread needs `OpenInv`: the board's descriptor is open then, and the receiver not caught in its loop |
| `StartUpProofs!GoesOnWithLast` | `Spec => NoneSkipped`, for every range of times, with or without `PromptKill` and with any number of power cuts | `LastInv`: until power goes, the time tried last is the one in the file between two starts and the one in the program, or the one before it once the marker was found. The clearing of the marker leaves the time, and a file that is missing or empty needs a power cut, which forgets the last time |
| `StartUpProofs!EachTimeInTurn` | `PromptKill => (Spec => TriesInTurn)`, for every range of times | `TurnInv`: the times tried since power came are an interval of the circle `1 .. MaxDelay` (`Around`) that ends at the time in the program or, between two starts, at the one in the file; `AroundGrows` and `NextInTurn` give the step |
| `UsbPagesProofs!TypesHold`, `PagesFromOne` | `Spec => []TypeOK`, `Spec => []PageInRange`, for every list, set of sticks and page size | neither is inductive alone: that only models are read from the list needs a page number of one or more, and this is `PageInRange`. `PageInv` also bounds the list by that of `find` (`KeptType`), and `Pages` says that a longer list has no fewer pages |
| `UsbPagesProofs!TapSelectsShown` | `Spec => TapOpensShown` | the lemma `EntryOfSlot`: a slot that shows an entry is within the list, and `file_get` counts to the same line as `file_show` |
| `UsbPagesProofs!PrintsKeepSticks` | `Spec => PrintKeepsMounts`, for every set of sticks | `GuardInv`: in a guarded print the file thread gets to unmount only if a stick was pulled, and once the guard is gone nothing is mounted any more |
| `MainProofs!PressGetsItsAnswer` | `Spec => []OwnToggle`, for every set of clients | `Undisturbed`: with one process at work, request, answer and file are in the hands of one side at a time |
| `MainProofs!CancellingEndsLoop` | `Spec => CancelStops` | `StopInv`: once the cancellation was noticed `loopState` is 0, the program is not about to post, and no job of its own is printing |
| `MainProofs!IndexFits` | `Spec => []IndexInRange`, for every set of files | `IndexInv`: the index is below the number kept from this round's list whenever there are files; `KeptType` gives the list its type |
| `MainProofs!TypesHold` | `Spec => []TypeOK` | from `IndexInv`, which contains the types of `AutoFdm`, and `MailInv`, which contains those of `CgiMailbox` |

`GMFileProofs` holds the facts about the file that the theorems of the link and of the print
rest on. The assumptions are those the modules declare: `Layers` a natural number, `Images` a
positive one and `Bottom` at most that; a finite set of clients, a positive bound on the lines in flight; descriptors that are
numbers other than the listening socket's; positive numbers of ports, rounds and looks; a
positive page size and models whose places are known; lists that are sequences. Four theorems
have a hypothesis of their own, the same that the run of the property sets: `Paced` for
`AcksMeanDone` and `DeliversInOrder`, `~Lossy` for `NeverSkips`, `PromptKill` for
`EachTimeInTurn`. The section on the limits says what goes wrong without them.

`UsbPages` and `AutoFdm` state what they keep of a list with `Kept` (one sequence, chosen by its
places) and not with `SelectSeq`, whose recursion the provers cannot look into. TLC has found the
two equal for all lists of up to four names out of three, and `UpToDate`, in `Settles`,
still compares the list with `SelectSeq`.

Every invariant of the passing runs, every action property and the refinement of `OrderDelivery`
is stated by a theorem.

Only model-checked: the liveness properties (`ReachesLast`, `RunsThrough`, `StopQuiets`,
`Answered`, `Heard`, `ComesUp`, `Settles`, `EveryFileRuns`, `Served`), because liveness under
fairness is out of the prover's reach.

## 6. Plan

1. (done) `GMFile`, `MarlinLink`, `OrderDelivery`: the link.
2. (done) `DlpPrint`: the threads of a print.
3. (done) `SlcService`: the image service.
4. (done) `WsServer`: epoll with edge triggering and the session table.
5. (done) `ProjectorWake`, `PortSearch`, `StartUp`: the start of the DLP host, with crashes.
6. (done) `UsbPages`: sticks, list of models and pages.
7. (done) `AutoFdm`, `CgiMailbox`, `Main`: the two programs of `main.cpp`.
8. `Codec`: checksum, frame lengths and the layer arithmetic against reference definitions.
9. `OrderList`: the list at the level of its pointers, with two threads deleting.

The theorems planned for these modules are proved. Those of items 8 and 9 would come with their
modules.

## 7. Not modelled

- The frame buffer and the web front end have no protocol of their own with the machine. The
  light engine answers one blocking command, and the search for its port is not called.
- `octoMovement.cpp`: one `curl` call per function. `scram()`, the emergency stop with its
  retries, and `get_netInfConnect` are called nowhere (only in a comment, `usr02.h` 232-233).
- The receiver and CGI of the FIFO page are those of the image service.
- The geometry of the slices, the wording of messages, the display of times, the file names of
  the screen and the values of parameters are data no property depends on.
- Older copies of the sources (`DEV_Config.cpp`, the directories `备份`) and the second make of
  screen in `HMI-Screen-SW.cpp` repeat what is modelled.
- Of the 222,000 lines of the tree nearly all are vendored: cJSON (also pasted in front of each
  CGI program), zlib, libcrc, mosquitto and the web site's libraries, several of them in more
  than one copy. The program's own control code is a few thousand lines. The share of mapped
  lines is therefore small, and stays so.
- Plan items 8 and 9.
