---------------------------- MODULE WsServerProofs ----------------------------
(***************************************************************************)
(* Theorems about WsServer, for every set of connections, descriptors and  *)
(* sessions.                                                               *)
(***************************************************************************)
EXTENDS WsServer, SequenceTheorems, TLAPS

\* A message that a client sends, and the first of those that one recv takes, are messages.
LEMMA MessageType ==
  ASSUME TypeOK, NEW c \in Conns
  PROVE  /\ [from |-> c, n |-> sent[c] + 1] \in Messages
         /\ inq[c] # <<>> => Head(inq[c]) \in Messages
<1>1. sent[c] + 1 \in Nat
  BY DEF TypeOK
<1>2. inq[c] \in Seq(Messages)
  BY DEF TypeOK
<1>. QED BY <1>1, <1>2, HeadTailProperties DEF Messages

-----------------------------------------------------------------------------
(* The invariant. *)

\* Each session has a descriptor of its own, with a connection behind it, which is in the
\* epoll set until the session is removed.
OnlineInv ==
  /\ \A o, p \in online : o # p => c_sock[o] # c_sock[p]
  /\ \A o \in online :
       /\ c_sock[o] \in Fds /\ sock[c_sock[o]] \in Conns
       /\ removed[o] = 0 <=> c_sock[o] \in interest

\* Each open descriptor has a session, and each connection one descriptor at most.
SockInv ==
  /\ \A f \in Fds : sock[f] # None => \E o \in online : c_sock[o] = f
  /\ \A f, g \in Fds : f # g /\ sock[f] # None => sock[f] # sock[g]
  /\ \A f \in interest : sock[f] # None

\* A connection that is not accepted yet has no descriptor and no answer.
FreshInv ==
  \A c \in Conns :
    c \in backlog \/ peer[c] = "new" =>
      got[c] = <<>> /\ \A f \in Fds : sock[f] # c

\* The handshake flag belongs to the connection.
GreetInv ==
  \A o \in online :
    removed[o] = 0 => (is_shake_hand[o] = 1 <=> got[sock[c_sock[o]]] # <<>>)

\* Events are of connections in the epoll set, and so is the one in hand, with its session;
\* who waits to be accepted has connected.
EventInv ==
  /\ ready \subseteq interest /\ all \ {lfd} \subseteq interest
  /\ pc = "recv" => fd \in interest /\ s \in SessionOf(fd)
  /\ \A c \in backlog : peer[c] # "new"

TableInv == OnlineInv /\ SockInv /\ FreshInv /\ GreetInv /\ EventInv

\* A connection with something to read is on the ready list, in the batch or in hand.
EdgeInv ==
  ~dropped /\ pc # "dead" =>
    \A f \in interest :
      Input(sock[f]) => f \in ready \/ f \in all \/ (pc = "recv" /\ f = fd)

\* While the server waits, the last batch is done with.
WaitInv == pc = "wait" => all = {}

\* The event in hand has a connection, and a session of that connection.
LEMMA Held ==
  ASSUME TypeOK, TableInv, pc = "recv"
  PROVE  /\ fd \in interest /\ fd \in Fds /\ sock[fd] \in Conns
         /\ s \in online /\ s \in Objects /\ removed[s] = 0 /\ c_sock[s] = fd
<1>1. fd \in interest /\ s \in online /\ removed[s] = 0 /\ c_sock[s] = fd
  BY DEF TableInv, EventInv, SessionOf
<1>. QED BY <1>1 DEF TypeOK, TableInv, OnlineInv

-----------------------------------------------------------------------------
(* Type correctness. *)

\* Before the first client nothing is open.
LEMMA InitType == Init => TypeOK
<1>. SUFFICES ASSUME Init PROVE TypeOK
  OBVIOUS
<1>1. inq \in [Conns -> Seq(Messages)] /\ got \in [Conns -> Seq(Messages)] /\ sent \in [Conns -> Nat]
  BY DEF Init
<1>2. sock \in [Fds -> Conns \cup {None}] /\ peer \in [Conns -> {"new", "up", "fin", "rst"}]
  BY DEF Init
<1>3. /\ c_sock \in [Objects -> Fds \cup {lfd}]
      /\ removed \in [Objects -> 0 .. 1] /\ is_shake_hand \in [Objects -> 0 .. 1]
  BY DEF Init
<1>4. dropped \in BOOLEAN
  BY DEF Init
<1>. QED BY <1>1, <1>2, <1>3, <1>4 DEF Init, TypeOK

\* A client's step keeps the types.
LEMMA ClientType ==
  ASSUME TypeOK, NEW c \in Conns, Client(c)
  PROVE  TypeOK'
<1>1. UNCHANGED <<got, sock, interest, sessions, pc, all, event, dropped>>
  BY DEF Client, Connect, Send, Leave, ClientStep
<1>2. /\ inq' \in [Conns -> Seq(Messages)] /\ sent' \in [Conns -> Nat]
  <2>1. CASE Connect(c) \/ Leave(c)
    BY <2>1 DEF Connect, Leave, TypeOK
  <2>2. CASE Send(c)
    <3>1. Append(inq[c], [from |-> c, n |-> sent[c] + 1]) \in Seq(Messages)
      BY MessageType, AppendProperties DEF TypeOK
    <3>. QED BY <2>2, <3>1 DEF Send, TypeOK
  <2>. QED BY <2>1, <2>2 DEF Client
<1>3. peer' \in [Conns -> {"new", "up", "fin", "rst"}]
  <2>1. \E how \in {"new", "up", "fin", "rst"} : peer' = [peer EXCEPT ![c] = how] \/ peer' = peer
    BY DEF Client, Connect, Send, Leave
  <2>. QED BY <2>1 DEF TypeOK
<1>4. backlog' \subseteq Conns
  BY DEF Client, Connect, Send, Leave, TypeOK
<1>5. ready' \subseteq Fds
  BY DEF Client, Connect, Send, Leave, Arrival, TypeOK
<1>. QED BY <1>1, <1>2, <1>3, <1>4, <1>5 DEF sessions, event, TypeOK

\* So does a step of the server.
LEMMA ServeType == TypeOK /\ TableInv /\ Serve => TypeOK'
<1>. SUFFICES ASSUME TypeOK, TableInv, Serve PROVE TypeOK'
  OBVIOUS
<1>1. CASE clear_offline_session
  BY <1>1 DEF clear_offline_session, Server, event, TypeOK
<1>2. CASE epoll_wait
  BY <1>2 DEF epoll_wait, Server, sessions, event, TypeOK
<1>3. CASE accept
  <2>1. cache_alloc \in Objects
    BY <1>3 DEF accept, cache_alloc, TypeOK
  <2>2. PICK c \in backlog, cfd \in Free :
          /\ backlog' = backlog \ {c}
          /\ sock' = [sock EXCEPT ![cfd] = c]
          /\ interest' = interest \cup {cfd}
          /\ ready' = IF Input(c) THEN ready \cup {cfd} ELSE ready
          /\ c_sock' = [c_sock EXCEPT ![cache_alloc] = cfd]
    BY <1>3 DEF accept
  <2>3. c \in Conns /\ cfd \in Fds
    BY DEF TypeOK, Free
  <2>. QED BY <1>3, <2>1, <2>2, <2>3 DEF accept, Server, event, TypeOK
<1>4. CASE AcceptError
  BY <1>4 DEF AcceptError, Server, kernel, sessions, event, TypeOK
<1>5. CASE get_session
  BY <1>5 DEF get_session, SessionOf, Server, kernel, sessions, TypeOK
<1>6. CASE process_ws_shake_hand \/ ws_send_data \/ IgnoreFrame
  <2>1. recv
    BY <1>6 DEF process_ws_shake_hand, ws_send_data, IgnoreFrame
  <2>2. sock[fd] \in Conns /\ c_sock[s] = fd /\ s \in Objects /\ inq[sock[fd]] # <<>>
    BY <2>1, Held DEF recv, Server
  <2>3. inq' \in [Conns -> Seq(Messages)]
    <3>1. <<>> \in Seq(Messages)
      OBVIOUS
    <3>. QED BY <2>1, <3>1 DEF recv, TypeOK
  <2>4. got' \in [Conns -> Seq(Messages)]
    <3>1. Append(got[sock[fd]], Head(inq[sock[fd]])) \in Seq(Messages)
      BY <2>2, MessageType, AppendProperties DEF TypeOK
    <3>. QED BY <1>6, <2>2, <3>1 DEF process_ws_shake_hand, ws_send_data, IgnoreFrame, Answer, TypeOK
  <2>5. is_shake_hand' \in [Objects -> 0 .. 1]
    BY <1>6 DEF process_ws_shake_hand, ws_send_data, IgnoreFrame, TypeOK
  <2>. QED BY <2>1, <2>3, <2>4, <2>5 DEF recv, Server, kernel, event, TypeOK
<1>7. CASE NoMore \/ RecvError
  BY <1>7 DEF NoMore, RecvError, EndOfEvent, Server, kernel, sessions, TypeOK
<1>8. CASE close_session
  <2>1. dropped' \in BOOLEAN
    BY <1>8 DEF close_session
  <2>2. removed' \in [Objects -> 0 .. 1] /\ is_shake_hand' \in [Objects -> 0 .. 1]
    <3>1. removed \in [Objects -> 0 .. 1] /\ is_shake_hand \in [Objects -> 0 .. 1]
      BY DEF TypeOK
    <3>2. removed' = [removed EXCEPT ![s] = 1] /\ is_shake_hand' = [is_shake_hand EXCEPT ![s] = 0]
      BY <1>8 DEF close_session
    <3>3. 0 \in 0 .. 1 /\ 1 \in 0 .. 1
      OBVIOUS
    <3>4. removed' \in [Objects -> 0 .. 1]
      BY <3>1, <3>2, <3>3, Zenon
    <3>5. is_shake_hand' \in [Objects -> 0 .. 1]
      BY <3>1, <3>2, <3>3, Zenon
    <3>. QED BY <3>4, <3>5
  <2>3. UNCHANGED <<inq, got, sent, peer, backlog, sock, online, c_sock>>
    BY <1>8 DEF close_session, EndOfEvent, Server
  <2>4. pc' = "loop" /\ all' = {} /\ fd' = lfd /\ s' = None
    BY <1>8 DEF close_session, EndOfEvent, Server
  <2>5. interest' \subseteq Fds /\ ready' \subseteq Fds
    BY <1>8 DEF close_session, TypeOK
  <2>. QED BY <2>1, <2>2, <2>3, <2>4, <2>5 DEF TypeOK
<1>. QED BY <1>1, <1>2, <1>3, <1>4, <1>5, <1>6, <1>7, <1>8 DEF Serve

-----------------------------------------------------------------------------
(* The table. *)

\* Before the first client there is nothing in it.
LEMMA InitTable == Init => TableInv
<1>. SUFFICES ASSUME Init PROVE TableInv
  OBVIOUS
<1>1. online = {} /\ interest = {} /\ ready = {} /\ all = {} /\ backlog = {} /\ pc # "recv"
  BY DEF Init
<1>2. (\A f \in Fds : sock[f] = None) /\ (\A c \in Conns : got[c] = <<>>)
  BY DEF Init
<1>3. \A c \in Conns, f \in Fds : sock[f] # c
  BY <1>2, WsAssumption
<1>. QED BY <1>1, <1>2, <1>3 DEF TableInv, OnlineInv, SockInv, FreshInv, GreetInv, EventInv

\* A client changes nothing in the table but its own place in the backlog.
LEMMA ClientTable ==
  ASSUME TypeOK, TableInv, NEW c \in Conns, Client(c)
  PROVE  TableInv'
<1>1. UNCHANGED <<got, sock, interest, online, c_sock, removed, is_shake_hand, pc, all, fd, s>>
  BY DEF Client, Connect, Send, Leave, ClientStep, sessions, event
<1>2. ready' \subseteq interest
  BY DEF Client, Connect, Send, Leave, Arrival, TableInv, EventInv
<1>3. \A d \in Conns :
        /\ peer'[d] = "new" => peer[d] = "new"
        /\ d \in backlog' => d \in backlog \/ peer[d] = "new"
        /\ d \in backlog' => peer'[d] # "new"
  BY DEF Client, Connect, Send, Leave, TypeOK, TableInv, EventInv
<1>4. OnlineInv' /\ SockInv' /\ GreetInv'
  BY <1>1 DEF TableInv, OnlineInv, SockInv, GreetInv
<1>5. FreshInv'
  BY <1>1, <1>3 DEF TableInv, FreshInv
<1>6. backlog' \subseteq Conns
  BY ClientType DEF TypeOK
<1>7. EventInv'
  BY <1>1, <1>2, <1>3, <1>6 DEF TableInv, EventInv, SessionOf
<1>. QED BY <1>4, <1>5, <1>7 DEF TableInv

\* What the removed sessions had open is closed, and nothing else.
LEMMA ClearTable ==
  ASSUME TypeOK, TableInv, clear_offline_session
  PROVE  TableInv'
<1>. DEFINE off == {o \in online : removed[o] = 1}
<1>1. /\ online' = online \ off
      /\ sock' = [f \in Fds |-> IF \E o \in off : c_sock[o] = f THEN None ELSE sock[f]]
      /\ c_sock' = [o \in Objects |-> IF o \in off THEN lfd ELSE c_sock[o]]
  BY DEF clear_offline_session
<1>2. /\ UNCHANGED <<got, backlog, peer, interest, ready, removed, is_shake_hand, all>>
      /\ pc' = "wait"
  BY DEF clear_offline_session, Server
<1>3. \A o \in online' : o \in online /\ removed[o] = 0 /\ c_sock'[o] = c_sock[o]
  BY <1>1 DEF TypeOK
<1>4. \A f \in interest : f \in Fds /\ sock'[f] = sock[f]
  BY <1>1 DEF TypeOK, TableInv, OnlineInv
<1>5. OnlineInv'
  BY <1>2, <1>3, <1>4 DEF TableInv, OnlineInv, TypeOK
<1>6. \A f \in Fds : sock'[f] \in {None, sock[f]}
  BY <1>1
<1>7. SockInv'
  <2>1. ASSUME NEW f \in Fds, sock'[f] # None PROVE \E o \in online' : c_sock'[o] = f
    <3>1. PICK o \in online : c_sock[o] = f
      BY <2>1, <1>6 DEF TableInv, SockInv
    <3>2. o \notin off
      BY <2>1, <3>1, <1>1
    <3>. QED BY <3>1, <3>2, <1>1, <1>3
  <2>. QED BY <2>1, <1>2, <1>4, <1>6 DEF TableInv, SockInv
<1>8. FreshInv'
  <2>1. \A c \in Conns : c # None
    BY WsAssumption
  <2>. QED BY <2>1, <1>2, <1>6 DEF TableInv, FreshInv
<1>9. GreetInv'
  BY <1>2, <1>3, <1>4 DEF TableInv, GreetInv, OnlineInv
<1>10. EventInv'
  BY <1>2 DEF TableInv, EventInv
<1>. QED BY <1>5, <1>7, <1>8, <1>9, <1>10 DEF TableInv

\* What is reported was on the ready list.
LEMMA WaitTable ==
  ASSUME TypeOK, TableInv, epoll_wait
  PROVE  TableInv'
<1>1. /\ UNCHANGED <<got, backlog, peer, sock, interest, online, c_sock, removed, is_shake_hand>>
      /\ pc' = "loop" /\ ready' = {} /\ all' \subseteq ready \cup {lfd}
  BY DEF epoll_wait, Server, sessions
<1>. QED BY <1>1 DEF TableInv, OnlineInv, SockInv, FreshInv, GreetInv, EventInv

\* A new connection gets a free descriptor, and a session whose handshake is still to come.
LEMMA AcceptTable ==
  ASSUME TypeOK, TableInv, accept
  PROVE  TableInv'
<1>. DEFINE o == cache_alloc
<1>1. PICK c \in backlog, cfd \in Free :
        /\ backlog' = backlog \ {c}
        /\ sock' = [sock EXCEPT ![cfd] = c]
        /\ interest' = interest \cup {cfd}
        /\ ready' = IF Input(c) THEN ready \cup {cfd} ELSE ready
        /\ c_sock' = [c_sock EXCEPT ![o] = cfd]
  BY DEF accept
<1>2. /\ UNCHANGED <<got, peer>> /\ pc' = "loop" /\ all' = all \ {lfd}
      /\ online' = online \cup {o}
      /\ removed' = [removed EXCEPT ![o] = 0]
      /\ is_shake_hand' = [is_shake_hand EXCEPT ![o] = 0]
  BY DEF accept, Server
<1>3. o \in Objects /\ o \notin online
  BY DEF accept, cache_alloc, TypeOK
<1>4. /\ c \in Conns /\ c # None /\ got[c] = <<>> /\ peer[c] # "new"
      /\ \A f \in Fds : sock[f] # c
  BY WsAssumption DEF TypeOK, TableInv, FreshInv, EventInv
<1>5. cfd \in Fds /\ sock[cfd] = None /\ cfd \notin interest
  BY DEF Free, TableInv, SockInv
<1>6. sock'[cfd] = c /\ \A f \in Fds \ {cfd} : sock'[f] = sock[f]
  BY <1>1, <1>5 DEF TypeOK
<1>7. /\ c_sock'[o] = cfd /\ removed'[o] = 0 /\ is_shake_hand'[o] = 0
      /\ \A p \in online :
           /\ c_sock'[p] = c_sock[p] /\ removed'[p] = removed[p]
           /\ is_shake_hand'[p] = is_shake_hand[p]
           /\ c_sock[p] \in Fds /\ c_sock[p] # cfd
  <2>1. \A p \in online : p \in Objects /\ p # o
    BY <1>3 DEF TypeOK
  <2>2. \A p \in online : c_sock[p] \in Fds /\ sock[c_sock[p]] # None
    BY WsAssumption DEF TableInv, OnlineInv
  <2>. QED BY <1>1, <1>2, <1>3, <1>5, <2>1, <2>2 DEF TypeOK
<1>. HIDE DEF o
<1>8. OnlineInv'
  BY <1>1, <1>2, <1>3, <1>4, <1>5, <1>6, <1>7 DEF TableInv, OnlineInv
<1>9. SockInv'
  <2>1. \A f \in Fds : sock'[f] # None => \E p \in online' : c_sock'[p] = f
    <3>1. \A f \in Fds \ {cfd} : sock'[f] # None => \E p \in online : c_sock'[p] = f
      BY <1>6, <1>7 DEF TableInv, SockInv
    <3>. QED BY <1>2, <1>7, <3>1
  <2>2. \A f, g \in Fds : f # g /\ sock'[f] # None => sock'[f] # sock'[g]
    BY <1>4, <1>6 DEF TableInv, SockInv
  <2>3. \A f \in interest' : sock'[f] # None
    BY <1>1, <1>4, <1>5, <1>6 DEF TypeOK, TableInv, SockInv
  <2>. QED BY <2>1, <2>2, <2>3 DEF SockInv
<1>10. FreshInv'
  <2>1. \A d \in Conns : d \in backlog' \/ peer'[d] = "new" => d # c /\ (d \in backlog \/ peer[d] = "new")
    BY <1>1, <1>2, <1>4
  <2>. QED BY <2>1, <1>2, <1>6 DEF TableInv, FreshInv
<1>11. GreetInv'
  <2>1. \A p \in online : sock'[c_sock[p]] = sock[c_sock[p]]
    BY <1>6, <1>7
  <2>. QED BY <2>1, <1>2, <1>4, <1>6, <1>7 DEF TableInv, GreetInv
<1>12. EventInv'
  BY <1>1, <1>2 DEF TableInv, EventInv
<1>. QED BY <1>8, <1>9, <1>10, <1>11, <1>12 DEF TableInv

\* The steps that only look: the table is as it was.
LEMMA LookTable ==
  ASSUME TypeOK, TableInv, AcceptError \/ get_session \/ NoMore \/ RecvError
  PROVE  TableInv'
<1>1. UNCHANGED <<got, peer, backlog, sock, interest, ready, online, c_sock, removed, is_shake_hand>>
  BY DEF AcceptError, get_session, NoMore, RecvError, EndOfEvent, Server, kernel, sessions
<1>2. all' \subseteq all
  BY DEF AcceptError, get_session, NoMore, RecvError
<1>3. pc' = "recv" => fd' \in all \ {lfd} /\ s' \in SessionOf(fd')
  BY DEF AcceptError, get_session, NoMore, RecvError, Server
<1>4. EventInv'
  BY <1>1, <1>2, <1>3 DEF TableInv, EventInv, SessionOf
<1>. QED BY <1>1, <1>4 DEF TableInv, OnlineInv, SockInv, FreshInv, GreetInv

\* An answer goes to the connection that the message came from, and greets it if it is the first.
LEMMA RecvTable ==
  ASSUME TypeOK, TableInv, process_ws_shake_hand \/ ws_send_data \/ IgnoreFrame
  PROVE  TableInv'
<1>1. /\ UNCHANGED <<peer, backlog, sock, interest, ready, online, c_sock, removed, all, fd, s>>
      /\ pc = "recv" /\ pc' = "recv"
  BY DEF process_ws_shake_hand, ws_send_data, IgnoreFrame, recv, Server, kernel, event
<1>2. fd \in Fds /\ sock[fd] \in Conns /\ s \in online /\ s \in Objects /\ removed[s] = 0 /\ c_sock[s] = fd
  BY <1>1, Held
<1>3. /\ \A d \in Conns \ {sock[fd]} : got'[d] = got[d]
      /\ got[sock[fd]] # <<>> => got'[sock[fd]] # <<>>
      /\ \A p \in Objects \ {s} : is_shake_hand'[p] = is_shake_hand[p]
      /\ is_shake_hand'[s] = 1 /\ got'[sock[fd]] # <<>>
  <2>1. \A m : Append(got[sock[fd]], m) # <<>>
    <3>1. got[sock[fd]] \in Seq(Messages)
      BY <1>2 DEF TypeOK
    <3>. QED BY <3>1
  <2>2. is_shake_hand[s] = 1 => got[sock[fd]] # <<>>
    BY <1>2 DEF TableInv, GreetInv
  <2>3. CASE process_ws_shake_hand
    BY <1>2, <2>1, <2>3 DEF process_ws_shake_hand, Answer, TypeOK
  <2>4. CASE ws_send_data
    BY <1>2, <2>1, <2>4 DEF ws_send_data, Answer, TypeOK
  <2>5. CASE IgnoreFrame
    BY <2>2, <2>5 DEF IgnoreFrame
  <2>. QED BY <2>3, <2>4, <2>5
<1>4. FreshInv'
  <2>1. \A c \in Conns : c \in backlog \/ peer[c] = "new" => c # sock[fd]
    BY <1>2 DEF TableInv, FreshInv
  <2>. QED BY <1>1, <1>3, <2>1 DEF TableInv, FreshInv
<1>5. GreetInv'
  <2>1. ASSUME NEW p \in online, p # s
        PROVE  p \in Objects /\ sock[c_sock[p]] \in Conns \ {sock[fd]}
    <3>1. p \in Objects /\ c_sock[p] \in Fds /\ c_sock[p] # fd /\ sock[c_sock[p]] \in Conns
      BY <1>2, <2>1 DEF TypeOK, TableInv, OnlineInv
    <3>2. sock[c_sock[p]] # None
      BY <3>1, WsAssumption
    <3>. QED BY <1>2, <3>1, <3>2 DEF TableInv, SockInv
  <2>. QED BY <1>1, <1>2, <1>3, <2>1 DEF TableInv, GreetInv
<1>6. OnlineInv' /\ SockInv' /\ EventInv'
  BY <1>1 DEF TableInv, OnlineInv, SockInv, EventInv, SessionOf
<1>. QED BY <1>4, <1>5, <1>6 DEF TableInv

\* A connection that has ended leaves the epoll set together with its session.
LEMMA CloseTable ==
  ASSUME TypeOK, TableInv, close_session
  PROVE  TableInv'
<1>1. /\ UNCHANGED <<got, peer, backlog, sock, online, c_sock>>
      /\ pc = "recv" /\ pc' = "loop" /\ all' = {}
      /\ interest' = interest \ {fd} /\ ready' = ready \ {fd}
      /\ removed' = [removed EXCEPT ![s] = 1]
      /\ is_shake_hand' = [is_shake_hand EXCEPT ![s] = 0]
  BY DEF close_session, EndOfEvent, Server
<1>2. s \in online /\ s \in Objects /\ c_sock[s] = fd
  BY <1>1, Held
<1>3. \A p \in online \ {s} :
        /\ c_sock[p] # fd /\ removed'[p] = removed[p] /\ is_shake_hand'[p] = is_shake_hand[p]
  BY <1>1, <1>2 DEF TypeOK, TableInv, OnlineInv
<1>4. removed'[s] = 1
  BY <1>1, <1>2 DEF TypeOK
<1>5. OnlineInv'
  BY <1>1, <1>2, <1>3, <1>4 DEF TableInv, OnlineInv
<1>6. SockInv' /\ FreshInv' /\ EventInv'
  BY <1>1 DEF TableInv, SockInv, FreshInv, EventInv
<1>7. GreetInv'
  BY <1>1, <1>3, <1>4 DEF TableInv, GreetInv
<1>. QED BY <1>5, <1>6, <1>7 DEF TableInv

\* Every step keeps the types and the table.
LEMMA NextTable == TypeOK /\ TableInv /\ [Next]_vars => TypeOK' /\ TableInv'
<1>. SUFFICES ASSUME TypeOK, TableInv, [Next]_vars PROVE TypeOK' /\ TableInv'
  OBVIOUS
<1>1. CASE Serve
  BY <1>1, ServeType, ClearTable, WaitTable, AcceptTable, LookTable, RecvTable, CloseTable DEF Serve
<1>2. ASSUME NEW c \in Conns, Client(c) PROVE TypeOK' /\ TableInv'
  BY <1>2, ClientType, ClientTable
<1>3. CASE UNCHANGED vars
  <2>1. TypeOK'
    BY <1>3 DEF vars, clients, kernel, sessions, event, TypeOK
  <2>2. TableInv'
    BY <1>3 DEF vars, clients, kernel, sessions, event, TableInv, OnlineInv, SockInv, FreshInv,
                GreetInv, EventInv, SessionOf
  <2>. QED BY <2>1, <2>2
<1>. QED BY <1>1, <1>2, <1>3 DEF Next

\* The kernel's side, the sessions and the server keep their types.
THEOREM ServerTypeCorrect == Spec => []TypeOK
BY InitType, InitTable, NextTable, PTL DEF Spec

\* The two tables agree after every step, however descriptors and memory are used again.
THEOREM TablesAgree == Spec => []SessionsMatch
<1>1. TypeOK /\ TableInv => SessionsMatch
  <2>. SUFFICES ASSUME TypeOK, TableInv PROVE SessionsMatch
    OBVIOUS
  <2>1. ASSUME NEW f \in interest
        PROVE  /\ sock[f] # None
               /\ \A g \in Fds \ {f} : sock[g] # sock[f]
               /\ \E o \in online :
                    /\ SessionOf(f) = {o}
                    /\ is_shake_hand[o] = 1 <=> got[sock[f]] # <<>>
    <3>1. f \in Fds /\ sock[f] # None /\ \A g \in Fds \ {f} : sock[g] # sock[f]
      BY DEF TypeOK, TableInv, SockInv
    <3>2. PICK o \in online : c_sock[o] = f
      BY <3>1 DEF TableInv, SockInv
    <3>3. removed[o] = 0 /\ (is_shake_hand[o] = 1 <=> got[sock[f]] # <<>>)
      BY <3>2 DEF TableInv, OnlineInv, GreetInv
    <3>4. SessionOf(f) = {o}
      BY <3>2, <3>3 DEF SessionOf, TableInv, OnlineInv
    <3>. QED BY <3>1, <3>3, <3>4
  <2>2. ASSUME NEW f \in Fds \ interest
        PROVE  sock[f] # None <=> \E o \in online : removed[o] = 1 /\ c_sock[o] = f
    <3>1. \A o \in online : c_sock[o] = f => removed[o] = 1 /\ sock[f] # None
      BY WsAssumption DEF TypeOK, TableInv, OnlineInv
    <3>2. sock[f] # None => \E o \in online : c_sock[o] = f
      BY DEF TableInv, SockInv
    <3>. QED BY <3>1, <3>2
  <2>. QED BY <2>1, <2>2 DEF SessionsMatch
<1>. QED BY <1>1, InitType, InitTable, NextTable, PTL DEF Spec

-----------------------------------------------------------------------------
(* No edge is lost. *)

\* What a client does that there is to read puts its descriptor on the ready list.
LEMMA ClientEdge ==
  ASSUME TypeOK, TableInv, EdgeInv, NEW c \in Conns, Client(c)
  PROVE  EdgeInv'
<1>1. UNCHANGED <<sock, interest, pc, all, fd, dropped>>
  BY DEF Client, Connect, Send, Leave, ClientStep, event
<1>2. ready \subseteq ready'
  BY DEF Client, Connect, Send, Leave, Arrival
<1>3. \A d \in Conns \ {c} : inq'[d] = inq[d] /\ peer'[d] = peer[d]
  BY DEF Client, Connect, Send, Leave, TypeOK
<1>4. ASSUME NEW f \in interest, sock[f] = c, Input(c)'
      PROVE  f \in ready'
  <2>1. CASE Connect(c)
    BY <1>4, <2>1 DEF Connect, TypeOK, TableInv, FreshInv
  <2>2. CASE Send(c) \/ Leave(c)
    BY <1>4, <2>2 DEF Send, Leave, Arrival
  <2>. QED BY <2>1, <2>2 DEF Client
<1>5. \A f \in interest : sock[f] \in Conns
  BY DEF TypeOK, TableInv, SockInv
<1>. QED BY <1>1, <1>2, <1>3, <1>4, <1>5 DEF EdgeInv, Input

\* A step of the server takes a descriptor off the ready list, or out of the batch, only to look
\* at it, and leaves it only when there is nothing more to read.
LEMMA ServeEdge ==
  ASSUME TypeOK, TableInv, EdgeInv, WaitInv, Serve
  PROVE  EdgeInv' /\ WaitInv'
<1>1. UNCHANGED peer
  BY DEF Serve, clear_offline_session, epoll_wait, accept, AcceptError, get_session,
         process_ws_shake_hand, ws_send_data, IgnoreFrame, recv, NoMore, close_session,
         RecvError, Server
<1>2. CASE clear_offline_session
  <2>1. /\ UNCHANGED <<inq, interest, ready, all, dropped>> /\ pc = "loop" /\ pc' = "wait" /\ all = {}
    BY <1>2 DEF clear_offline_session, Server
  <2>2. \A f \in interest : sock'[f] = sock[f]
    BY <1>2 DEF clear_offline_session, TypeOK, TableInv, OnlineInv
  <2>. QED BY <1>1, <2>1, <2>2 DEF EdgeInv, WaitInv, Input
<1>3. CASE epoll_wait
  <2>1. UNCHANGED <<inq, sock, interest, dropped>> /\ pc = "wait" /\ pc' = "loop" /\ all = {}
    BY <1>3 DEF epoll_wait, Server, WaitInv
  <2>2. \A f \in ready : Input(sock[f]) => f \in all'
    BY <1>3 DEF epoll_wait
  <2>. QED BY <1>1, <2>1, <2>2 DEF EdgeInv, WaitInv, Input
<1>4. CASE accept
  <2>1. PICK c \in backlog, cfd \in Free :
          /\ sock' = [sock EXCEPT ![cfd] = c]
          /\ interest' = interest \cup {cfd}
          /\ ready' = IF Input(c) THEN ready \cup {cfd} ELSE ready
    BY <1>4 DEF accept
  <2>2. /\ UNCHANGED <<inq, dropped>> /\ pc = "loop" /\ pc' = "loop" /\ all' = all \ {lfd}
    BY <1>4 DEF accept, Server
  <2>3. cfd \in Fds /\ sock'[cfd] = c /\ \A f \in interest : f \in Fds /\ f # lfd /\ f # cfd /\ sock'[f] = sock[f]
    BY <2>1, WsAssumption DEF Free, TypeOK, TableInv, SockInv
  <2>. QED BY <1>1, <2>1, <2>2, <2>3 DEF EdgeInv, WaitInv, Input
<1>5. CASE AcceptError \/ RecvError
  BY <1>5 DEF AcceptError, RecvError, Server, EdgeInv, WaitInv
<1>6. CASE get_session
  BY <1>1, <1>6 DEF get_session, Server, kernel, EdgeInv, WaitInv, Input
<1>7. CASE process_ws_shake_hand \/ ws_send_data \/ IgnoreFrame
  <2>1. /\ UNCHANGED <<sock, interest, ready, all, fd, dropped>> /\ pc = "recv" /\ pc' = "recv"
        /\ inq' = [inq EXCEPT ![sock[fd]] = <<>>]
    BY <1>7 DEF process_ws_shake_hand, ws_send_data, IgnoreFrame, recv, Server, kernel, event
  <2>2. \A f \in interest : inq'[sock[f]] # <<>> => inq[sock[f]] # <<>>
    BY <2>1 DEF TypeOK, TableInv, SockInv
  <2>. QED BY <1>1, <2>1, <2>2 DEF EdgeInv, WaitInv, Input
<1>8. CASE NoMore
  <2>1. UNCHANGED <<inq, sock, interest, ready, all, dropped>> /\ pc = "recv" /\ pc' = "loop"
    BY <1>8 DEF NoMore, EndOfEvent, Server, kernel
  <2>2. ~Input(sock[fd])
    BY <1>8 DEF NoMore, EndOfEvent, Input
  <2>. QED BY <1>1, <2>1, <2>2 DEF EdgeInv, WaitInv, Input
<1>9. CASE close_session
  <2>1. UNCHANGED <<inq, sock>> /\ pc = "recv" /\ pc' = "loop" /\ all' = {}
    BY <1>9 DEF close_session, EndOfEvent, Server
  <2>2. interest' = interest \ {fd} /\ ready' = ready \ {fd}
    BY <1>9 DEF close_session
  <2>3. ~dropped' => ~dropped /\ all \subseteq {lfd}
    BY <1>9 DEF close_session
  <2>4. lfd \notin interest
    BY WsAssumption DEF TypeOK
  <2>. QED BY <1>1, <2>1, <2>2, <2>3, <2>4 DEF EdgeInv, WaitInv, Input
<1>. QED BY <1>2, <1>3, <1>4, <1>5, <1>6, <1>7, <1>8, <1>9 DEF Serve

\* As long as no batch was dropped, a server that goes to wait has left nothing unread that
\* the kernel would not report.
THEOREM NoEdgeLost == Spec => []EdgeKept
<1>. DEFINE IInv == TypeOK /\ TableInv /\ EdgeInv /\ WaitInv
<1>1. Init => IInv
  <2>. SUFFICES ASSUME Init PROVE EdgeInv /\ WaitInv
    BY InitType, InitTable
  <2>. QED BY DEF Init, EdgeInv, WaitInv
<1>2. IInv /\ [Next]_vars => IInv'
  <2>. SUFFICES ASSUME IInv, [Next]_vars PROVE EdgeInv' /\ WaitInv'
    BY NextTable
  <2>1. CASE Serve
    BY <2>1, ServeEdge
  <2>2. ASSUME NEW c \in Conns, Client(c) PROVE EdgeInv' /\ WaitInv'
    <3>1. UNCHANGED <<pc, all>>
      BY <2>2 DEF Client, Connect, Send, Leave, ClientStep
    <3>. QED BY <2>2, <3>1, ClientEdge DEF WaitInv
  <2>3. CASE UNCHANGED vars
    BY <2>3 DEF vars, clients, kernel, event, EdgeInv, WaitInv, Input
  <2>. QED BY <2>1, <2>2, <2>3 DEF Next
<1>3. IInv => EdgeKept
  BY DEF EdgeInv, WaitInv, EdgeKept, NoStall
<1>. QED BY <1>1, <1>2, <1>3, PTL DEF Spec

-----------------------------------------------------------------------------
(* Each client hears its own messages. *)

\* The messages of q are client c's, none twice, in the order it sent them.
Ordered(q, c) ==
  /\ \A i \in 1 .. Len(q) : q[i].from = c /\ q[i].n <= sent[c]
  /\ \A i, j \in 1 .. Len(q) : i < j => q[i].n < q[j].n

\* What client c has been answered comes before what is still unread, and there is nothing
\* but the handshake before the first answer.
Stream(c) ==
  /\ Ordered(inq[c], c) /\ Ordered(got[c], c)
  /\ \A i \in 1 .. Len(got[c]), j \in 1 .. Len(inq[c]) : got[c][i].n < inq[c][j].n
  /\ got[c] = <<>> => sent[c] <= 1 /\ \A j \in 1 .. Len(inq[c]) : inq[c][j].n = 1
  /\ got[c] # <<>> => got[c][1].n = 1

EchoInv == \A c \in Conns : Stream(c)

\* Each message of a sequence has a number, and so has each client's count.
LEMMA QueueType ==
  ASSUME TypeOK, NEW c \in Conns
  PROVE  /\ sent[c] \in Nat
         /\ inq[c] \in Seq(Messages) /\ Len(inq[c]) \in Nat
         /\ got[c] \in Seq(Messages) /\ Len(got[c]) \in Nat
         /\ \A i \in 1 .. Len(inq[c]) : inq[c][i].n \in Nat
         /\ \A i \in 1 .. Len(got[c]) : got[c][i].n \in Nat
<1>1. sent[c] \in Nat /\ inq[c] \in Seq(Messages) /\ got[c] \in Seq(Messages)
  BY DEF TypeOK
<1>2. Len(inq[c]) \in Nat /\ Len(got[c]) \in Nat
  BY <1>1, LenProperties
<1>3. \A i \in 1 .. Len(inq[c]) : inq[c][i] \in Messages
  BY <1>1, ElementOfSeq
<1>4. \A i \in 1 .. Len(got[c]) : got[c][i] \in Messages
  BY <1>1, ElementOfSeq
<1>5. \A m \in Messages : m.n \in Nat
  BY DEF Messages
<1>. QED BY <1>1, <1>2, <1>3, <1>4, <1>5

\* A message behind those of q, and after them, leaves them in order.
LEMMA OrderedAppend ==
  ASSUME NEW q \in Seq(Messages), NEW m \in Messages,
         \A i, j \in 1 .. Len(q) : i < j => q[i].n < q[j].n,
         \A i \in 1 .. Len(q) : q[i].n < m.n
  PROVE  LET w == Append(q, m)
         IN  /\ Len(q) \in Nat /\ Len(w) = Len(q) + 1
             /\ \A i \in 1 .. Len(w) : w[i] = IF i = Len(q) + 1 THEN m ELSE q[i]
             /\ \A i, j \in 1 .. Len(w) : i < j => w[i].n < w[j].n
<1>. DEFINE w == Append(q, m)
<1>1. Len(q) \in Nat
  BY LenProperties
<1>2. Len(w) = Len(q) + 1
  BY AppendProperties
<1>3. \A i \in 1 .. Len(w) : w[i] = IF i = Len(q) + 1 THEN m ELSE q[i]
  BY <1>1, <1>2, AppendProperties
<1>. HIDE DEF w
<1>4. \A i, j \in 1 .. Len(w) : i < j => w[i].n < w[j].n
  BY <1>1, <1>2, <1>3
<1>. QED BY <1>1, <1>2, <1>3, <1>4 DEF w

\* What a client sends is its own, behind all it has sent.
LEMMA SendEcho ==
  ASSUME TypeOK, EchoInv, NEW c \in Conns, Send(c)
  PROVE  Stream(c)'
<1>. DEFINE q == inq[c]
            m == [from |-> c, n |-> sent[c] + 1]
            w == Append(q, m)
<1>1. /\ inq'[c] = w /\ sent'[c] = sent[c] + 1 /\ got' = got
      /\ sent[c] = 0 \/ got[c] # <<>>
  BY DEF Send, ClientStep, TypeOK
<1>2. m \in Messages /\ m.n = sent[c] + 1 /\ m.from = c
  BY MessageType
<1>3. /\ sent[c] \in Nat /\ q \in Seq(Messages)
      /\ \A i \in 1 .. Len(q) : q[i].n \in Nat
      /\ \A i \in 1 .. Len(got[c]) : got[c][i].n \in Nat
  BY QueueType
<1>4. Stream(c)
  BY DEF EchoInv
<1>. HIDE DEF m
<1>5. /\ Len(q) \in Nat /\ Len(w) = Len(q) + 1
      /\ \A i \in 1 .. Len(w) : w[i] = IF i = Len(q) + 1 THEN m ELSE q[i]
      /\ \A i, j \in 1 .. Len(w) : i < j => w[i].n < w[j].n
  <2>1. /\ \A i, j \in 1 .. Len(q) : i < j => q[i].n < q[j].n
        /\ \A i \in 1 .. Len(q) : q[i].n < m.n
    BY <1>2, <1>3, <1>4 DEF Stream, Ordered
  <2>. QED BY <1>2, <1>3, <2>1, OrderedAppend
<1>. HIDE DEF w
<1>6. \A i \in 1 .. Len(w) : w[i].from = c /\ w[i].n <= sent'[c]
  <2>1. \A i \in 1 .. Len(q) : q[i].from = c /\ q[i].n \in Nat /\ q[i].n <= sent[c]
    BY <1>3, <1>4 DEF Stream, Ordered
  <2>2. ASSUME NEW i \in 1 .. Len(w)
        PROVE  w[i].from = c /\ w[i].n <= sent[c] + 1
    <3>1. CASE i = Len(q) + 1
      BY <1>2, <1>3, <1>5, <3>1
    <3>2. CASE i # Len(q) + 1
      <4>1. i \in 1 .. Len(q) /\ w[i] = q[i]
        BY <1>5, <3>2
      <4>. QED BY <1>3, <2>1, <4>1
    <3>. QED BY <3>1, <3>2
  <2>. QED BY <1>1, <2>2
<1>7. \A i \in 1 .. Len(got[c]), j \in 1 .. Len(w) : got[c][i].n < w[j].n
  <2>1. \A i \in 1 .. Len(got[c]) : got[c][i].n \in Nat /\ got[c][i].n <= sent[c]
    BY <1>3, <1>4 DEF Stream, Ordered
  <2>2. \A i \in 1 .. Len(got[c]), j \in 1 .. Len(q) : got[c][i].n < q[j].n
    BY <1>4 DEF Stream
  <2>3. ASSUME NEW i \in 1 .. Len(got[c]), NEW j \in 1 .. Len(w)
        PROVE  got[c][i].n < w[j].n
    <3>1. CASE j = Len(q) + 1
      <4>1. w[j] = m
        BY <1>5, <3>1
      <4>. QED BY <1>2, <1>3, <2>1, <4>1
    <3>2. CASE j # Len(q) + 1
      <4>1. j \in 1 .. Len(q) /\ w[j] = q[j]
        BY <1>5, <3>2
      <4>. QED BY <2>2, <4>1
    <3>. QED BY <3>1, <3>2
  <2>. QED BY <2>3
<1>8. got[c] = <<>> => sent'[c] <= 1 /\ \A j \in 1 .. Len(w) : w[j].n = 1
  <2>. SUFFICES ASSUME got[c] = <<>> PROVE sent'[c] <= 1 /\ \A j \in 1 .. Len(w) : w[j].n = 1
    OBVIOUS
  <2>1. sent[c] = 0
    BY <1>1
  <2>. QED BY <1>1, <1>2, <1>4, <1>5, <2>1 DEF Stream
<1>9. \A i \in 1 .. Len(got[c]) : got[c][i].from = c /\ got[c][i].n <= sent'[c]
  BY <1>1, <1>3, <1>4 DEF Stream, Ordered
<1>. QED BY <1>1, <1>4, <1>5, <1>6, <1>7, <1>8, <1>9 DEF Stream, Ordered

\* Where nothing is sent, read or answered the stream is as it was.
LEMMA StreamSame ==
  ASSUME NEW c, Stream(c), inq'[c] = inq[c], sent'[c] = sent[c], got'[c] = got[c]
  PROVE  Stream(c)'
BY DEF Stream, Ordered

\* Only sending matters, and only to the client that sends.
LEMMA ClientEcho ==
  ASSUME TypeOK, EchoInv, NEW c \in Conns, Client(c)
  PROVE  EchoInv'
<1>. SUFFICES ASSUME NEW d \in Conns PROVE Stream(d)'
  BY DEF EchoInv
<1>1. CASE Send(c) /\ d = c
  BY <1>1, SendEcho
<1>2. CASE ~(Send(c) /\ d = c)
  <2>1. inq'[d] = inq[d] /\ sent'[d] = sent[d] /\ got' = got
    BY <1>2 DEF Client, Connect, Send, Leave, ClientStep, TypeOK
  <2>. QED BY <2>1, StreamSame DEF EchoInv
<1>. QED BY <1>1, <1>2

\* The server answers the first of the messages it took, to the connection it took them from.
LEMMA RecvEcho ==
  ASSUME TypeOK, TableInv, EchoInv, process_ws_shake_hand \/ ws_send_data \/ IgnoreFrame
  PROVE  EchoInv'
<1>0. pc = "recv" /\ sock[fd] \in Conns
  BY Held DEF process_ws_shake_hand, ws_send_data, IgnoreFrame, recv, Server
<1>. SUFFICES ASSUME NEW c \in Conns, c = sock[fd] PROVE EchoInv'
  BY <1>0
<1>. DEFINE q == inq[c]
            m == Head(q)
            w == Append(got[c], m)
<1>1. /\ q # <<>> /\ sent' = sent
      /\ inq' = [inq EXCEPT ![c] = <<>>]
  BY DEF process_ws_shake_hand, ws_send_data, IgnoreFrame, recv, Server
<1>2. s \in online /\ removed[s] = 0 /\ c_sock[s] = fd
  BY <1>0, Held
<1>3. inq'[c] = <<>> /\ \A d \in Conns \ {c} : inq'[d] = inq[d]
  BY <1>1, <1>2 DEF TypeOK
<1>4. Stream(c)
  BY <1>2 DEF EchoInv
<1>5. \/ got' = [got EXCEPT ![c] = w]
      \/ got' = got /\ got[c] # <<>>
  <2>1. CASE process_ws_shake_hand \/ ws_send_data
    BY <1>2, <2>1 DEF process_ws_shake_hand, ws_send_data, Answer
  <2>2. CASE IgnoreFrame
    BY <1>2, <2>2 DEF IgnoreFrame, TableInv, GreetInv
  <2>. QED BY <2>1, <2>2
<1>6. \A d \in Conns \ {c} : Stream(d)'
  <2>1. \A d \in Conns \ {c} : got'[d] = got[d]
    BY <1>5 DEF TypeOK
  <2>. QED BY <1>1, <1>3, <2>1, StreamSame DEF EchoInv
<1>7. Len(inq'[c]) = 0
  BY <1>3
<1>8. CASE got' = got /\ got[c] # <<>>
  <2>1. Stream(c)'
    BY <1>1, <1>4, <1>7, <1>8 DEF Stream, Ordered
  <2>. QED BY <1>6, <2>1 DEF EchoInv
<1>9. CASE got' = [got EXCEPT ![c] = w]
  <2>1. got'[c] = w
    BY <1>2, <1>9 DEF TypeOK
  <2>2. /\ sent[c] \in Nat /\ q \in Seq(Messages) /\ got[c] \in Seq(Messages)
        /\ Len(q) \in Nat /\ Len(got[c]) \in Nat
        /\ \A i \in 1 .. Len(q) : q[i].n \in Nat
        /\ \A i \in 1 .. Len(got[c]) : got[c][i].n \in Nat
    BY <1>2, QueueType
  <2>3. 1 \in 1 .. Len(q) /\ m = q[1] /\ m \in Messages
    <3>1. Len(q) # 0
      BY <1>1, <2>2, EmptySeq
    <3>. QED BY <1>1, <1>2, <2>2, <3>1, MessageType
  <2>4. m.from = c /\ m.n <= sent[c] /\ \A i \in 1 .. Len(got[c]) : got[c][i].n < m.n
    BY <1>4, <2>3 DEF Stream, Ordered
  <2>5. got[c] = <<>> => m.n = 1
    BY <1>4, <2>3 DEF Stream
  <2>. HIDE DEF m
  <2>6. /\ Len(w) = Len(got[c]) + 1
        /\ \A i \in 1 .. Len(w) : w[i] = IF i = Len(got[c]) + 1 THEN m ELSE got[c][i]
        /\ \A i, j \in 1 .. Len(w) : i < j => w[i].n < w[j].n
    <3>1. \A i, j \in 1 .. Len(got[c]) : i < j => got[c][i].n < got[c][j].n
      BY <1>4 DEF Stream, Ordered
    <3>2. got[c] \in Seq(Messages) /\ m \in Messages
      BY <2>2, <2>3
    <3>3. \A i \in 1 .. Len(got[c]) : got[c][i].n < m.n
      BY <2>4
    <3>. QED BY <3>1, <3>2, <3>3, OrderedAppend
  <2>. HIDE DEF w
  <2>7. \A i \in 1 .. Len(w) : w[i].from = c /\ w[i].n <= sent'[c]
    <3>. SUFFICES ASSUME NEW i \in 1 .. Len(w) PROVE w[i].from = c /\ w[i].n <= sent[c]
      BY <1>1
    <3>1. CASE i = Len(got[c]) + 1
      <4>1. w[i] = m
        BY <2>6, <3>1
      <4>. QED BY <2>4, <4>1
    <3>2. CASE i # Len(got[c]) + 1
      <4>1. i \in 1 .. Len(got[c]) /\ w[i] = got[c][i]
        BY <2>2, <2>6, <3>2
      <4>. QED BY <1>4, <4>1 DEF Stream, Ordered
    <3>. QED BY <3>1, <3>2
  <2>8. w # <<>> /\ w[1].n = 1
    <3>1. CASE got[c] = <<>>
      <4>1. Len(got[c]) = 0
        BY <3>1
      <4>. QED BY <2>5, <2>6, <3>1, <4>1
    <3>2. CASE got[c] # <<>>
      <4>1. Len(got[c]) # 0
        BY <2>2, <3>2, EmptySeq
      <4>2. Len(w) # 0 /\ 1 \in 1 .. Len(w) /\ w[1] = got[c][1]
        BY <2>2, <2>6, <4>1
      <4>3. got[c][1].n = 1
        BY <1>4, <3>2 DEF Stream
      <4>4. w # <<>>
        BY <4>2
      <4>. QED BY <4>2, <4>3, <4>4
    <3>. QED BY <3>1, <3>2
  <2>9. Stream(c)'
    BY <1>7, <2>1, <2>6, <2>7, <2>8 DEF Stream, Ordered
  <2>. QED BY <1>6, <2>9 DEF EchoInv
<1>. QED BY <1>5, <1>8, <1>9

\* The other steps of the server touch no message.
LEMMA NextEcho == TypeOK /\ TableInv /\ EchoInv /\ [Next]_vars => EchoInv'
<1>. SUFFICES ASSUME TypeOK, TableInv, EchoInv, [Next]_vars PROVE EchoInv'
  OBVIOUS
<1>1. CASE process_ws_shake_hand \/ ws_send_data \/ IgnoreFrame
  BY <1>1, RecvEcho
<1>2. ASSUME NEW c \in Conns, Client(c) PROVE EchoInv'
  BY <1>2, ClientEcho
<1>3. CASE UNCHANGED <<inq, sent, got>>
  BY <1>3 DEF EchoInv, Stream, Ordered
<1>4. ASSUME Serve, ~(process_ws_shake_hand \/ ws_send_data \/ IgnoreFrame)
      PROVE  UNCHANGED <<inq, sent, got>>
  BY <1>4 DEF Serve, clear_offline_session, epoll_wait, accept, AcceptError, get_session,
              NoMore, close_session, RecvError, EndOfEvent, Server
<1>. QED BY <1>1, <1>2, <1>3, <1>4 DEF Next, vars, clients

\* No client is ever answered another's message, one twice or one out of order, whatever
\* descriptors and session memory are used again (tcp_epoll.c 86-103, tcp_session.c 30-54):
\* the session in hand is that of the connection the message was read from.
THEOREM AnswersAreOwn == Spec => []EchoOwn
<1>1. Init => EchoInv
  <2>. SUFFICES ASSUME Init, NEW c \in Conns PROVE Stream(c)
    BY DEF EchoInv
  <2>1. inq[c] = <<>> /\ got[c] = <<>> /\ sent[c] = 0
    BY DEF Init
  <2>2. Len(inq[c]) = 0 /\ Len(got[c]) = 0
    BY <2>1
  <2>. QED BY <2>1, <2>2 DEF Stream, Ordered
<1>2. EchoInv => EchoOwn
  BY DEF EchoInv, Stream, Ordered, EchoOwn
<1>. QED BY <1>1, <1>2, InitType, InitTable, NextTable, NextEcho, PTL DEF Spec

=============================================================================
