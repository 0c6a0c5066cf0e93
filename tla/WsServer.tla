------------------------------- MODULE WsServer -------------------------------
(***************************************************************************)
(* The WebSocket server of mana-svr/tcp: one thread around epoll_wait      *)
(* (tcp_epoll.c), the table of sessions (tcp_session.c) and, of the        *)
(* protocol (tcp_ws.c), the handshake and the echo of frames.              *)
(*                                                                         *)
(* Clients connect, send, close and break off at any time, also while the  *)
(* server works through a batch of events.  The connections are edge       *)
(* triggered: the kernel reports a descriptor again only when something    *)
(* new arrives on it.  A message is small and arrives whole; the order in  *)
(* which the kernel lists connections and events is left open.             *)
(***************************************************************************)
EXTENDS Naturals, Sequences

CONSTANTS
  Conns,    \* connections; each client connects once
  Fds,      \* descriptors the process may still open, besides the listening socket
  Objects,  \* memory for sessions, in session_manager's cache or from malloc; it never runs out
  MaxSent   \* bound, per client: messages it sends, the handshake included

None == "none"
lfd  == 0       \* the listening socket; its number stands for "no descriptor" elsewhere

ASSUME WsAssumption ==
  /\ Fds \subseteq Nat \ {lfd}
  /\ None \notin Conns /\ None \notin Objects
  /\ MaxSent \in [Conns -> Nat]

Messages == [from : Conns, n : Nat]   \* n = 1: the handshake, then frames

VARIABLES
  backlog,       \* connections not accepted yet
  inq,           \* per connection: messages that have arrived and are not read
  sent,          \* per client: how many messages it has sent
  peer,          \* per client: "new", "up", "fin" after close, "rst" after a reset
  got,           \* per client: messages the server has answered, the handshake first
  sock,          \* the connection behind each descriptor
  interest,      \* connections' descriptors in the epoll set
  ready,         \* of these, the descriptors on the kernel's ready list
  online,        \* session_manager.online_session
  c_sock, removed, is_shake_hand,   \* fields of the sessions
  pc,            \* where the server is
  all,           \* events of this batch that are still to be looked at
  fd, s,         \* the descriptor of the event in hand, and its session
  dropped        \* history: a batch was left with a connection's event not looked at

clients  == <<inq, sent, peer>>
kernel   == <<backlog, sock, interest, ready>>
sessions == <<online, c_sock, removed, is_shake_hand>>
event    == <<fd, s>>
vars == <<clients, got, kernel, sessions, pc, all, event, dropped>>

TypeOK ==
  /\ backlog \subseteq Conns
  /\ inq \in [Conns -> Seq(Messages)] /\ sent \in [Conns -> Nat]
  /\ peer \in [Conns -> {"new", "up", "fin", "rst"}]
  /\ got \in [Conns -> Seq(Messages)]
  /\ sock \in [Fds -> Conns \cup {None}]
  /\ interest \subseteq Fds /\ ready \subseteq Fds
  /\ online \subseteq Objects
  /\ c_sock \in [Objects -> Fds \cup {lfd}]
  /\ removed \in [Objects -> 0 .. 1] /\ is_shake_hand \in [Objects -> 0 .. 1]
  /\ pc \in {"loop", "wait", "recv", "dead"}
  /\ all \subseteq Fds \cup {lfd}
  /\ fd \in Fds \cup {lfd} /\ s \in Objects \cup {None}
  /\ dropped \in BOOLEAN

Init ==
  /\ backlog = {} /\ sock = [f \in Fds |-> None] /\ interest = {} /\ ready = {}
  /\ inq = [c \in Conns |-> <<>>] /\ sent = [c \in Conns |-> 0]
  /\ peer = [c \in Conns |-> "new"] /\ got = [c \in Conns |-> <<>>]
  /\ online = {} /\ c_sock = [o \in Objects |-> lfd]
  /\ removed = [o \in Objects |-> 0] /\ is_shake_hand = [o \in Objects |-> 0]
  /\ pc = "loop" /\ all = {} /\ fd = lfd /\ s = None /\ dropped = FALSE

-----------------------------------------------------------------------------
(* Clients and the kernel. *)

\* There is something to read on connection c, if only its end.
Input(c) == inq[c] # <<>> \/ peer[c] \in {"fin", "rst"}

\* What arrives on connection c puts its descriptor on the ready list.
Arrival(c) == ready' = ready \cup {f \in interest : sock[f] = c}

ClientStep == UNCHANGED <<got, sock, interest, sessions, pc, all, event, dropped>>

Connect(c) ==
  /\ peer[c] = "new"
  /\ peer' = [peer EXCEPT ![c] = "up"]
  /\ backlog' = backlog \cup {c}
  /\ UNCHANGED <<inq, sent, ready>> /\ ClientStep

\* The handshake comes first, and no frame before its answer.
Send(c) ==
  /\ peer[c] = "up" /\ sent[c] < MaxSent[c]
  /\ sent[c] = 0 \/ got[c] # <<>>
  /\ inq' = [inq EXCEPT ![c] = Append(@, [from |-> c, n |-> sent[c] + 1])]
  /\ sent' = [sent EXCEPT ![c] = @ + 1]
  /\ Arrival(c)
  /\ UNCHANGED <<peer, backlog>> /\ ClientStep

\* The client closes, or the connection breaks.
Leave(c) ==
  /\ peer[c] = "up"
  /\ \E how \in {"fin", "rst"} : peer' = [peer EXCEPT ![c] = how]
  /\ Arrival(c)
  /\ UNCHANGED <<inq, sent, backlog>> /\ ClientStep

-----------------------------------------------------------------------------
(* The server. *)

Server(here, next) ==
  /\ pc = here /\ pc' = next
  /\ UNCHANGED <<sent, peer>>

\* Mutation: the removed session is not taken out of the list.
KeepOnline ==
  /\ Server("loop", "wait")
  /\ all = {}
  /\ sock' = [f \in Fds |-> IF \E o \in online : removed[o] = 1 /\ c_sock[o] = f
                            THEN None ELSE sock[f]]
  /\ UNCHANGED <<inq, got, backlog, interest, ready, sessions, all, event, dropped>>

\* At the top of the loop the sessions that were removed go, and only now their sockets are
\* closed and their descriptors free for the next accept.
clear_offline_session ==
  /\ Server("loop", "wait")
  /\ all = {}
  /\ LET off == {o \in online : removed[o] = 1}
     IN  /\ online' = online \ off
         /\ sock' = [f \in Fds |-> IF \E o \in off : c_sock[o] = f THEN None ELSE sock[f]]
         /\ c_sock' = [o \in Objects |-> IF o \in off THEN lfd ELSE c_sock[o]]
  /\ UNCHANGED <<inq, got, backlog, interest, ready, removed, is_shake_hand, all, event,
                 dropped>>

\* The listening socket is level triggered.  The others leave the ready list, and are reported
\* if there still is something to read.
epoll_wait ==
  /\ Server("wait", "loop")
  /\ all' = {f \in ready : Input(sock[f])} \cup (IF backlog # {} THEN {lfd} ELSE {})
  /\ all' # {}
  /\ ready' = {}
  /\ UNCHANGED <<inq, got, backlog, sock, interest, sessions, event, dropped>>

\* Descriptors not in use, of which accept takes the lowest, and memory not in use.
Free == {f \in Fds : sock[f] = None}
cache_alloc == CHOOSE o \in Objects : o \notin online

\* accept, epoll_ctl and save_session.
accept ==
  /\ Server("loop", "loop")
  /\ lfd \in all /\ online # Objects
  /\ all' = all \ {lfd}
  /\ \E c \in backlog, cfd \in Free :
       /\ \A f \in Free : cfd <= f
       /\ backlog' = backlog \ {c}
       /\ sock' = [sock EXCEPT ![cfd] = c]
       /\ interest' = interest \cup {cfd}
       /\ ready' = IF Input(c) THEN ready \cup {cfd} ELSE ready
       /\ c_sock' = [c_sock EXCEPT ![cache_alloc] = cfd]
  /\ online' = online \cup {cache_alloc}
  /\ removed' = [removed EXCEPT ![cache_alloc] = 0]
  /\ is_shake_hand' = [is_shake_hand EXCEPT ![cache_alloc] = 0]
  /\ UNCHANGED <<inq, got, event, dropped>>

\* No descriptor is left: accept fails, and the process exits.
AcceptError ==
  /\ Server("loop", "dead")
  /\ lfd \in all /\ Free = {}
  /\ UNCHANGED <<inq, got, kernel, sessions, all, event, dropped>>

\* Sessions that get_session may return for f.
SessionOf(f) == {o \in online : removed[o] = 0 /\ c_sock[o] = f}

\* Mutation: any session that is online will do.
get_any_session ==
  /\ Server("loop", "recv")
  /\ fd' \in all \ {lfd}
  /\ all' = all \ {fd'}
  /\ s' \in {o \in online : removed[o] = 0}
  /\ UNCHANGED <<inq, got, kernel, sessions, dropped>>

\* An event on a connection: its session is looked up once, for the whole event.
get_session ==
  /\ Server("loop", "recv")
  /\ fd' \in all \ {lfd}
  /\ all' = all \ {fd'}
  /\ s' \in SessionOf(fd')
  /\ UNCHANGED <<inq, got, kernel, sessions, dropped>>

\* Mutation: recv is called once for an event.
recv_once ==
  /\ Server("recv", "loop")
  /\ inq[sock[fd]] # <<>>
  /\ inq' = [inq EXCEPT ![sock[fd]] = <<>>]
  /\ UNCHANGED <<kernel, online, c_sock, removed, all, event, dropped>>

\* One recv takes all that has arrived.
recv ==
  /\ Server("recv", "recv")
  /\ inq[sock[fd]] # <<>>
  /\ inq' = [inq EXCEPT ![sock[fd]] = <<>>]
  /\ UNCHANGED <<kernel, online, c_sock, removed, all, event, dropped>>

\* Only its beginning is looked at, and answered to the session's socket.
Answer == got' = [got EXCEPT ![sock[c_sock[s]]] = Append(@, Head(inq[sock[fd]]))]

process_ws_shake_hand ==
  /\ recv
  /\ is_shake_hand[s] = 0
  /\ is_shake_hand' = [is_shake_hand EXCEPT ![s] = 1]
  /\ Answer

\* Text and binary frames are echoed ...
ws_send_data ==
  /\ recv
  /\ is_shake_hand[s] = 1
  /\ Answer
  /\ UNCHANGED is_shake_hand

\* ... others, such as the frame with which a browser closes, are not.
IgnoreFrame ==
  /\ recv
  /\ is_shake_hand[s] = 1
  /\ UNCHANGED <<got, is_shake_hand>>

EndOfEvent ==
  /\ inq[sock[fd]] = <<>>
  /\ fd' = lfd /\ s' = None
  /\ UNCHANGED <<inq, got>>

\* recv returns -1 with EAGAIN: the next event.
NoMore ==
  /\ Server("recv", "loop") /\ EndOfEvent
  /\ peer[sock[fd]] = "up"
  /\ UNCHANGED <<kernel, sessions, all, dropped>>

\* Mutation: the handshake is taken back also where there was none.
CountDown ==
  /\ Server("recv", "loop") /\ EndOfEvent
  /\ peer[sock[fd]] \in {"fin", "rst"}
  /\ interest' = interest \ {fd} /\ ready' = ready \ {fd}
  /\ removed' = [removed EXCEPT ![s] = 1]
  /\ is_shake_hand' = [is_shake_hand EXCEPT ![s] = @ - 1]
  /\ all' = {}
  /\ dropped' = (dropped \/ all \ {lfd} # {})
  /\ UNCHANGED <<backlog, sock, online, c_sock>>

\* recv returns 0: the client has closed, or the connection broke and a send met the error.
\* The result of epoll_ctl, 0, goes into ret, the number of events.
close_session ==
  /\ Server("recv", "loop") /\ EndOfEvent
  /\ peer[sock[fd]] \in {"fin", "rst"}
  /\ interest' = interest \ {fd} /\ ready' = ready \ {fd}
  /\ removed' = [removed EXCEPT ![s] = 1]
  /\ is_shake_hand' = [is_shake_hand EXCEPT ![s] = 0]
  /\ all' = {}
  /\ dropped' = (dropped \/ all \ {lfd} # {})
  /\ UNCHANGED <<backlog, sock, online, c_sock>>

\* Any other error of recv ends the process.
RecvError ==
  /\ Server("recv", "dead") /\ EndOfEvent
  /\ peer[sock[fd]] = "rst"
  /\ UNCHANGED <<kernel, sessions, all, dropped>>

-----------------------------------------------------------------------------
Client(c) == Connect(c) \/ Send(c) \/ Leave(c)

Serve ==
  \/ clear_offline_session \/ epoll_wait \/ accept \/ AcceptError \/ get_session
  \/ process_ws_shake_hand \/ ws_send_data \/ IgnoreFrame
  \/ NoMore \/ close_session \/ RecvError

Next == Serve \/ \E c \in Conns : Client(c)

Spec == Init /\ [][Next]_vars

\* The server thread runs; no client has to do anything.
FairSpec == Spec /\ WF_vars(Serve)

-----------------------------------------------------------------------------
(* Properties. *)

\* The table of sessions agrees with the kernel's: each descriptor in the epoll set is an open
\* connection of its own with exactly one session that is not removed, whose handshake flag
\* tells whether this connection, and not an earlier one on the same descriptor or in the same
\* memory, has been greeted; any other open descriptor is about to be closed by
\* clear_offline_session (tcp_epoll.c 60-78, 105-119, tcp_session.c 30-54, 74-89, 109-151).
SessionsMatch ==
  /\ \A f \in interest :
       /\ sock[f] # None
       /\ \A g \in Fds \ {f} : sock[g] # sock[f]
       /\ \E o \in online :
            /\ SessionOf(f) = {o}
            /\ is_shake_hand[o] = 1 <=> got[sock[f]] # <<>>
  /\ \A f \in Fds \ interest :
       sock[f] # None <=> \E o \in online : removed[o] = 1 /\ c_sock[o] = f

\* A client is answered its own messages only, in the order it sent them, the handshake first
\* (tcp_epoll.c 86-103).  Some may be missing: frames that one recv takes together.
EchoOwn ==
  \A c \in Conns :
    /\ got[c] # <<>> => got[c][1].n = 1
    /\ \A i \in 1 .. Len(got[c]) : got[c][i].from = c
    /\ \A i, j \in 1 .. Len(got[c]) : i < j => got[c][i].n < got[c][j].n

\* When the server goes to wait, every connection with something to read has its event on
\* the ready list (tcp_epoll.c 57: the loop goes through the first ret elements of all).  It
\* does not hold: line 113 sets ret to 0 when a client has closed, and the rest of the batch is
\* not looked at, nor reported again.
NoStall == pc = "wait" => \A f \in interest : Input(sock[f]) => f \in ready

\* It does hold as long as no batch was dropped: a message or a close that races with the loop
\* which reads until EAGAIN is not lost (tcp_epoll.c 86-119).
EdgeKept == ~dropped => NoStall

\* Then everything a client sends is read, and its close is noticed.
Unheard(c) == inq[c] # <<>> \/ (peer[c] = "fin" /\ \E f \in interest : sock[f] = c)

Heard == \A c \in Conns : Unheard(c) ~> (~Unheard(c) \/ dropped \/ pc = "dead")

=============================================================================
