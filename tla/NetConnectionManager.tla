------------------------ MODULE NetConnectionManager ------------------------
(***************************************************************************)
(* NetConnectionManager and NetListener: the net thread's loop over the    *)
(* listening socket and all connections, with epoll on Linux and select on *)
(* Windows (build says for which it was built), next to the rest of the    *)
(* process, which opens and closes descriptors of its own.  What           *)
(* matters here is identity: a descriptor is a small number the kernel     *)
(* hands out again as soon as it is free, and m_Connections, epoll, the    *)
(* event batch and needremove all know sockets only by that number.  What  *)
(* happens to the bytes of one connection is NetConnection's matter; here  *)
(* a read works or fails and may leave something to send.                  *)
(***************************************************************************)
EXTENDS Integers, Sequences, FiniteSets

CONSTANTS
    Clients,     \* remote ends of connections, each connects once
    Bridge,      \* the one of them that is NetAwakeBridge's own end
    MaxFd,       \* the process may have descriptors 1 .. MaxFd open
    MaxEvents,   \* room in m_Events
    FD_SETSIZE,  \* room in an fd_set of Windows
    MaxConnections, \* connections AddConnection accepts on Windows
    Builds,      \* a subset of {"linux", "windows"}
    MaxOthers    \* bound: descriptors the rest of the process holds at once

ASSUME ManagerAssumption ==
    /\ Bridge \in Clients
    /\ MaxFd \in Nat \ {0}
    /\ MaxEvents \in Nat \ {0}
    /\ MaxOthers \in Nat
    /\ Builds \subseteq {"linux", "windows"}
    /\ MaxConnections \in Nat /\ FD_SETSIZE \in Nat /\ MaxConnections < FD_SETSIZE
    /\ Clients \cap {"free", "epoll", "listener", "bridge", "other"} = {}

Fds == 1 .. MaxFd

SOCKET_ERROR == -1

VARIABLES
    build,
    \* the kernel
    table,          \* what each descriptor of the process refers to
    interest,       \* the epoll set: [who, fd, out]
    link,           \* each client's connection as the kernel sees it
    inbox,          \* what recv would find
    reset,          \* the connection was reset
    \* the manager
    m_Connections,  \* descriptor -> [who, sending, added]
    m_Socket,       \* the listener's descriptor
    m_Send,         \* the bridge's descriptor
    events,         \* the events of this batch that are still to be handled
    needremove,
    closing,        \* the descriptor OnSocketClose is about to close
    pc

kernelVars == << build, table, interest, link, inbox, reset >>
managerVars == << m_Connections, m_Socket, m_Send, events, needremove, closing, pc >>
vars == << kernelVars, managerVars >>
-----------------------------------------------------------------------------
(* The kernel's descriptor table and epoll set.                            *)

FreeFds == {fd \in Fds : table[fd] = "free"}

(***************************************************************************)
(* What socket(), accept() and every other open may return: the lowest     *)
(* free number, as Linux promises.  Windows promises nothing; the lowest   *)
(* one is the case in which a number comes back soonest.                   *)
(***************************************************************************)
NewFds == {fd \in FreeFds : \A other \in FreeFds : fd <= other}

\* A closed socket leaves the epoll set by itself.
Unregister(who) == {r \in interest : r.who # who}

Queued == {c \in Clients : link[c] = "queued"}

\* What closing the listening socket does to the connections nobody accepted.
CutQueued == [c \in Clients |-> IF link[c] = "queued" THEN "cut" ELSE link[c]]

Cut(who) == [c \in Clients |-> IF c = who THEN "cut" ELSE link[c]]

InitAt(start) ==
    /\ build \in Builds
    /\ table = [fd \in Fds |-> IF fd = 1 /\ build = "linux" THEN "epoll" ELSE "free"]
    /\ interest = {}
    /\ link = [c \in Clients |-> "idle"]
    /\ inbox = [c \in Clients |-> "quiet"]
    /\ reset = [c \in Clients |-> FALSE]
    /\ m_Connections = << >>
    /\ m_Socket = SOCKET_ERROR
    /\ m_Send = SOCKET_ERROR
    /\ events = << >>
    /\ needremove = << >>
    /\ closing = SOCKET_ERROR
    /\ pc = start

Init == InitAt("init")
-----------------------------------------------------------------------------
(* The clients, and the rest of the process.                               *)

Connect(c) ==
    /\ c # Bridge
    /\ link[c] = "idle"
    /\ \E fd \in Fds : table[fd] = "listener"
    /\ link' = [link EXCEPT ![c] = "queued"]
    /\ UNCHANGED << build, table, interest, inbox, reset, managerVars >>

\* A package or a part of one, something that is not one, or the end of the stream.
Say(c, what) ==
    /\ c # Bridge
    /\ link[c] \in {"queued", "live"}
    /\ ~reset[c]
    /\ inbox[c] = "quiet"
    /\ inbox' = [inbox EXCEPT ![c] = what]
    /\ UNCHANGED << build, table, interest, link, reset, managerVars >>

Reset(c) ==
    /\ c # Bridge
    /\ link[c] \in {"queued", "live"}
    /\ ~reset[c]
    /\ reset' = [reset EXCEPT ![c] = TRUE]
    /\ UNCHANGED << build, table, interest, link, inbox, managerVars >>

OtherOpen ==
    /\ Cardinality({fd \in Fds : table[fd] = "other"}) < MaxOthers
    /\ \E fd \in NewFds : table' = [table EXCEPT ![fd] = "other"]
    /\ UNCHANGED << build, interest, link, inbox, reset, managerVars >>

OtherClose ==
    /\ \E fd \in Fds : /\ table[fd] = "other"
                       /\ table' = [table EXCEPT ![fd] = "free"]
    /\ UNCHANGED << build, interest, link, inbox, reset, managerVars >>
-----------------------------------------------------------------------------
(* NetConnectionManager::Init.                                             *)

(***************************************************************************)
(* NetListener::Start: the listening socket, or none when socket, bind or  *)
(* listen fails (the assert that it succeeded is compiled out).            *)
(***************************************************************************)
StartListener ==
    /\ pc = "init"
    /\ \/ \E fd \in NewFds : table' = [table EXCEPT ![fd] = "listener"] /\ m_Socket' = fd
       \/ UNCHANGED << table, m_Socket >>
    /\ pc' = "bridge"
    /\ UNCHANGED << build, interest, link, inbox, reset, m_Connections, m_Send, events,
                    needremove, closing >>

(***************************************************************************)
(* NetAwakeBridge::Init, which connects to the listening socket (or has no *)
(* socket to do so, or cannot make it non-blocking and closes it again),   *)
(* and the registration of the listening socket with epoll.  When          *)
(* epoll_ctl fails, Init prints that and goes on.                          *)
(***************************************************************************)
InitBridge ==
    /\ pc = "bridge"
    /\ \/ /\ \E fd \in NewFds : table' = [table EXCEPT ![fd] = "bridge"] /\ m_Send' = fd
          /\ link' = IF m_Socket = SOCKET_ERROR THEN link ELSE [link EXCEPT ![Bridge] = "queued"]
       \/ UNCHANGED << table, m_Send, link >>
    /\ \/ UNCHANGED interest
       \/ /\ m_Socket # SOCKET_ERROR /\ build = "linux"
          /\ interest' = interest \cup {[who |-> "listener", fd |-> m_Socket, out |-> FALSE]}
    /\ pc' = "loop"
    /\ UNCHANGED << build, inbox, reset, m_Connections, m_Socket, events, needremove, closing >>
-----------------------------------------------------------------------------
(* SelectSocketLinux and SelectSocketWin.                                  *)

(***************************************************************************)
(* The sockets epoll or select looks at.  SelectSocketWin makes its sets   *)
(* anew each time; IsNeedRead is always true, as less than a package stays *)
(* in a receive buffer (NetConnection's RecvBufferSuffices).               *)
(***************************************************************************)
Watched ==
    IF build = "linux" THEN interest
    ELSE {[who |-> "listener", fd |-> fd, out |-> FALSE] : fd \in {m_Socket} \cap Fds} \cup
         {[who |-> m_Connections[fd].who, fd |-> fd, out |-> m_Connections[fd].sending] :
            fd \in DOMAIN m_Connections}

\* A reset shows as an error to epoll, as input to select.
Flags(r) ==
    IF r.who = "listener"
    THEN IF Queued = {} THEN {} ELSE {"IN"}
    ELSE {f \in {"ERR", "IN", "OUT"} :
            \/ f = "ERR" /\ reset[r.who] /\ build = "linux"
            \/ f = "IN" /\ (reset[r.who] \/ inbox[r.who] # "quiet")
            \/ f = "OUT" /\ r.out}

Ready == {r \in Watched : Flags(r) # {}}

\* The while loop goes round once more.
Continue ==
    /\ pc = "loop"
    /\ pc' = "wait"
    /\ UNCHANGED << kernelVars, m_Connections, m_Socket, m_Send, events, needremove, closing >>

BatchSize ==
    IF Cardinality(Ready) < MaxEvents \/ build = "windows" THEN Cardinality(Ready) ELSE MaxEvents

\* SelectSocketWin looks at the listening socket first, then goes through the map.
InMapOrder(first, second) == first.who = "listener" \/ (second.who # "listener" /\ first.fd < second.fd)

\* epoll_wait fills m_Events with as many ready sockets as there is room for.
EpollWait ==
    /\ pc = "wait"
    /\ Ready # {}
    /\ \E batch \in [1 .. BatchSize -> Ready] :
         /\ \A i, j \in 1 .. BatchSize : batch[i] = batch[j] => i = j
         /\ build = "windows" => \A i, j \in 1 .. BatchSize : i < j => InMapOrder(batch[i], batch[j])
         /\ events' = [i \in 1 .. BatchSize |->
                         [who |-> batch[i].who, fd |-> batch[i].fd, flags |-> Flags(batch[i])]]
    /\ pc' = "dispatch"
    /\ UNCHANGED << kernelVars, m_Connections, m_Socket, m_Send, needremove, closing >>

\* Mutant of EpollTimeout: epoll_wait without a timeout.
EpollTimeoutNever == pc = "wait" /\ FALSE

\* epoll_wait times out or is interrupted: no events.
EpollTimeout ==
    /\ pc = "wait"
    /\ pc' = "loop"
    /\ UNCHANGED << kernelVars, m_Connections, m_Socket, m_Send, events, needremove, closing >>

Event == Head(events)

Dispatching == pc = "dispatch" /\ events # << >>

\* push_back(s); continue
NeedRemove ==
    /\ needremove' = Append(needremove, [who |-> Event.who, fd |-> Event.fd])
    /\ events' = Tail(events)

\* The handler for one flag returned 0; the next flag of the event is looked at.
Handled(flag) ==
    /\ events' = [events EXCEPT ![1].flags = @ \ {flag}]
    /\ UNCHANGED needremove

\* Mutant of EventError: the continue after push_back is missing.
EventErrorNoContinue ==
    /\ Dispatching
    /\ "ERR" \in Event.flags
    /\ needremove' = Append(needremove, [who |-> Event.who, fd |-> Event.fd])
    /\ events' = [events EXCEPT ![1].flags = @ \ {"ERR"}]
    /\ UNCHANGED << kernelVars, m_Connections, m_Socket, m_Send, closing, pc >>

EventError ==
    /\ Dispatching
    /\ "ERR" \in Event.flags
    /\ NeedRemove
    /\ UNCHANGED << kernelVars, m_Connections, m_Socket, m_Send, closing, pc >>

Accepting ==
    /\ Dispatching
    /\ "ERR" \notin Event.flags /\ "IN" \in Event.flags
    /\ Event.fd = m_Socket

\* Mutant of Full: there is no limit.
FullNever == FALSE

Full == build = "windows" /\ Cardinality(DOMAIN m_Connections) >= MaxConnections

\* AddConnection closes a socket that is one too many; OnSocketRead returns 0.
AddConnectionFull ==
    /\ Accepting
    /\ FreeFds # {}
    /\ Full
    /\ \E c \in Queued : link' = Cut(c)
    /\ Handled("IN")
    /\ UNCHANGED << build, table, interest, inbox, reset, m_Connections, m_Socket, m_Send, closing, pc >>

\* map::insert keeps an entry that is already there.
Insert(s, connection) ==
    [fd \in DOMAIN m_Connections \cup {s} |->
       IF fd \in DOMAIN m_Connections THEN m_Connections[fd] ELSE connection]

(***************************************************************************)
(* NetListener::OnSocketRead and AddConnection: the accepted socket gets a *)
(* NetConnection under its descriptor and, on Linux, is registered for     *)
(* input.  When epoll_ctl fails, AddConnection prints that and goes on:    *)
(* the connection stays in the map (added is FALSE) and nobody looks at    *)
(* its socket before Release.                                              *)
(***************************************************************************)
AddConnection ==
    /\ Accepting
    /\ ~Full
    /\ \E c \in Queued, fd \in NewFds, added \in BOOLEAN :
         /\ build = "windows" => added
         /\ table' = [table EXCEPT ![fd] = c]
         /\ link' = [link EXCEPT ![c] = "live"]
         /\ m_Connections' = Insert(fd, [who |-> c, sending |-> FALSE, added |-> added])
         /\ interest' = IF build = "windows" \/ ~added THEN interest
                        ELSE interest \cup {[who |-> c, fd |-> fd, out |-> FALSE]}
    /\ Handled("IN")
    /\ UNCHANGED << build, inbox, reset, m_Socket, m_Send, closing, pc >>

(***************************************************************************)
(* accept fails: no descriptor is left, nothing is queued, or the queued   *)
(* connection died and accept reports that.  OnSocketRead returns 1.       *)
(***************************************************************************)
AcceptFailed ==
    /\ Accepting
    /\ \/ (FreeFds = {} \/ Queued = {}) /\ UNCHANGED link
       \/ \E c \in Queued : reset[c] /\ link' = Cut(c)
    /\ NeedRemove
    /\ UNCHANGED << build, table, interest, inbox, reset, m_Connections, m_Socket, m_Send, closing, pc >>

(***************************************************************************)
(* Making the accepted socket non-blocking or setting SO_LINGER fails: it  *)
(* is closed again and OnSocketRead returns 2 or 3.                        *)
(***************************************************************************)
AcceptRefused ==
    /\ Accepting
    /\ FreeFds # {}
    /\ \E c \in Queued : link' = Cut(c)
    /\ NeedRemove
    /\ UNCHANGED << build, table, interest, inbox, reset, m_Connections, m_Socket, m_Send, closing, pc >>

\* GetConnectionFromSocket finds the event's descriptor.
OnConnection(flag) ==
    /\ Dispatching
    /\ "ERR" \notin Event.flags
    /\ flag \in Event.flags
    /\ Event.fd # m_Socket
    /\ Event.fd \in DOMAIN m_Connections

\* UpdateConnectionSend: buffered data and EPOLLOUT go together.
SetSending(fd, sending) ==
    /\ m_Connections' = [m_Connections EXCEPT ![fd].sending = sending]
    /\ interest' = {IF r.who = table[fd] THEN [r EXCEPT !.out = sending] ELSE r : r \in interest}

\* Mutant of ReadFails: 0 from CheckRecvPackage (no whole package yet) is an error.
ReadFailsUnfinished(c) == TRUE

\* recv fails or finds the end of the stream, or CheckRecvPackage answers -1.
ReadFails(c) == reset[c] \/ inbox[c] # "data"

\* OnSocketRead: packages are taken, some answered; anything may follow in the stream.
ReadDone ==
    /\ OnConnection("IN")
    /\ LET c == table[Event.fd]
       IN  /\ inbox[c] = "data"
           /\ \E rest \in {"quiet", "data", "bad", "fin"} : inbox' = [inbox EXCEPT ![c] = rest]
    /\ \E sending \in BOOLEAN :
         /\ m_Connections[Event.fd].sending => sending
         /\ SetSending(Event.fd, sending)
    /\ Handled("IN")
    /\ UNCHANGED << build, table, link, reset, m_Socket, m_Send, closing, pc >>

ReadFailed ==
    /\ OnConnection("IN")
    /\ ReadFails(table[Event.fd])
    /\ NeedRemove
    /\ UNCHANGED << kernelVars, m_Connections, m_Socket, m_Send, closing, pc >>

\* OnSocketWrite: DoSend sends all or a part, or fails on a reset connection.
WriteDone ==
    /\ OnConnection("OUT")
    /\ "IN" \notin Event.flags
    /\ ~reset[table[Event.fd]]
    /\ \E sending \in BOOLEAN :
         /\ sending => m_Connections[Event.fd].sending
         /\ SetSending(Event.fd, sending)
    /\ Handled("OUT")
    /\ UNCHANGED << build, table, link, inbox, reset, m_Socket, m_Send, closing, pc >>

WriteFailed ==
    /\ OnConnection("OUT")
    /\ "IN" \notin Event.flags
    /\ reset[table[Event.fd]]
    /\ NeedRemove
    /\ UNCHANGED << kernelVars, m_Connections, m_Socket, m_Send, closing, pc >>

\* No flag is left, or nobody owns the descriptor any more.
NextEvent ==
    /\ Dispatching
    /\ \/ Event.flags = {}
       \/ "ERR" \notin Event.flags /\ Event.fd \notin DOMAIN m_Connections \cup {m_Socket}
    /\ events' = Tail(events)
    /\ UNCHANGED << kernelVars, m_Connections, m_Socket, m_Send, needremove, closing, pc >>
-----------------------------------------------------------------------------
(* The loop over needremove: OnSocketClose.                                *)

Removing == pc = "dispatch" /\ events = << >> /\ needremove # << >>

Doomed == Head(needremove).fd

\* EPOLL_CTL_DEL takes out whatever the descriptor refers to now.
EpollDel == Unregister(table[Doomed])

CloseListener ==
    /\ Removing
    /\ Doomed = m_Socket
    /\ table' = [table EXCEPT ![m_Socket] = "free"]
    /\ m_Socket' = SOCKET_ERROR
    /\ interest' = EpollDel
    /\ link' = CutQueued
    /\ needremove' = Tail(needremove)
    /\ UNCHANGED << build, inbox, reset, m_Connections, m_Send, events, closing, pc >>

\* Mutant of SocketOfDeleted: SetSocket(SOCKET_ERROR) before the delete is missing.
SocketOfDeletedKept(s) == s

\* The socket ~NetConnection finds in the object OnSocketClose deletes.
SocketOfDeleted(s) == SOCKET_ERROR

\* Mutant of Erase: the connection stays in the map.
EraseForgotten(s) == m_Connections

Erase(s) == [fd \in DOMAIN m_Connections \ {s} |-> m_Connections[fd]]

(***************************************************************************)
(* The connection leaves epoll and the map and is deleted; its destructor  *)
(* closes the socket it still holds, if any.  Closing s itself is the last *)
(* statement, and another thread may run before it.                        *)
(***************************************************************************)
CloseConnection ==
    /\ Removing
    /\ Doomed # m_Socket
    /\ Doomed \in DOMAIN m_Connections
    /\ m_Connections' = Erase(Doomed)
    /\ table' = [fd \in Fds |-> IF fd = SocketOfDeleted(Doomed) THEN "free" ELSE table[fd]]
    /\ interest' = EpollDel
    /\ closing' = Doomed
    /\ needremove' = Tail(needremove)
    /\ pc' = "close"
    /\ UNCHANGED << build, link, inbox, reset, m_Socket, m_Send, events >>

CloseSocket ==
    /\ pc = "close"
    /\ table' = [table EXCEPT ![closing] = "free"]
    /\ interest' = Unregister(table[closing])
    /\ link' = Cut(table[closing])
    /\ closing' = SOCKET_ERROR
    /\ pc' = "dispatch"
    /\ UNCHANGED << build, inbox, reset, m_Connections, m_Socket, m_Send, events, needremove >>

\* SelectSocketLinux returns (nothing left to remove, or only what nobody owns).
SelectDone ==
    /\ pc = "dispatch"
    /\ events = << >>
    /\ needremove # << >> => Doomed \notin DOMAIN m_Connections \cup {m_Socket}
    /\ IF needremove = << >>
       THEN pc' = "loop" /\ UNCHANGED << needremove, interest >>
       ELSE needremove' = Tail(needremove) /\ interest' = EpollDel /\ UNCHANGED pc
    /\ UNCHANGED << build, table, link, inbox, reset, m_Connections, m_Socket, m_Send, events, closing >>
-----------------------------------------------------------------------------
(* Release, after the loop.                                                *)

LeaveLoop ==
    /\ pc = "loop"
    /\ pc' = "release"
    /\ UNCHANGED << kernelVars, m_Connections, m_Socket, m_Send, events, needremove, closing >>

StopListener ==
    /\ pc = "release"
    /\ table' = [fd \in Fds |-> IF fd = m_Socket THEN "free" ELSE table[fd]]
    /\ interest' = Unregister("listener")
    /\ link' = CutQueued
    /\ m_Socket' = SOCKET_ERROR
    /\ pc' = "delete"
    /\ UNCHANGED << build, inbox, reset, m_Connections, m_Send, events, needremove, closing >>

\* Mutant of DeleteConnection: the destructor leaves the socket open.
DeleteConnectionLeak ==
    /\ pc = "delete"
    /\ \E s \in DOMAIN m_Connections : m_Connections' = Erase(s)
    /\ UNCHANGED << kernelVars, m_Socket, m_Send, events, needremove, closing, pc >>

\* SAFE_DELETE_MAP: every connection's destructor closes its socket.
DeleteConnection ==
    /\ pc = "delete"
    /\ \E s \in DOMAIN m_Connections :
         /\ m_Connections' = Erase(s)
         /\ table' = [table EXCEPT ![s] = "free"]
         /\ interest' = Unregister(table[s])
         /\ link' = Cut(table[s])
    /\ UNCHANGED << build, inbox, reset, m_Socket, m_Send, events, needremove, closing, pc >>

ReleaseDone ==
    /\ pc = "delete"
    /\ DOMAIN m_Connections = {}
    /\ pc' = "done"
    /\ UNCHANGED << kernelVars, m_Connections, m_Socket, m_Send, events, needremove, closing >>
-----------------------------------------------------------------------------
Environment ==
    \/ \E c \in Clients : Connect(c) \/ Reset(c)
    \/ \E c \in Clients, what \in {"data", "bad", "fin"} : Say(c, what)
    \/ OtherOpen
    \/ OtherClose

SelectSocket ==
    \/ EpollWait \/ EpollTimeout \/ EventError
    \/ AddConnection \/ AddConnectionFull \/ AcceptFailed \/ AcceptRefused
    \/ ReadDone \/ ReadFailed \/ WriteDone \/ WriteFailed \/ NextEvent
    \/ CloseListener \/ CloseConnection \/ CloseSocket \/ SelectDone

Release == StopListener \/ DeleteConnection \/ ReleaseDone

Done == pc = "done" /\ UNCHANGED vars

Next ==
    \/ Environment
    \/ StartListener \/ InitBridge
    \/ Continue \/ LeaveLoop
    \/ SelectSocket
    \/ Release
    \/ Done

Spec == Init /\ [][Next]_vars
-----------------------------------------------------------------------------
(* Properties.                                                             *)

Owners == {"free", "epoll", "listener", "bridge", "other"} \cup Clients

\* Every variable has its type.
TypeOK ==
    /\ table \in [Fds -> Owners]
    /\ interest \subseteq [who : {"listener"} \cup Clients, fd : Fds, out : BOOLEAN]
    /\ link \in [Clients -> {"idle", "queued", "live", "cut"}]
    /\ inbox \in [Clients -> {"quiet", "data", "bad", "fin"}]
    /\ reset \in [Clients -> BOOLEAN]
    /\ DOMAIN m_Connections \subseteq Fds
    /\ \A fd \in DOMAIN m_Connections :
          m_Connections[fd] \in [who : Clients, sending : BOOLEAN, added : BOOLEAN]
    /\ {m_Socket, m_Send, closing} \subseteq Fds \cup {SOCKET_ERROR}
    /\ events \in Seq([who : {"listener"} \cup Clients, fd : Fds,
                       flags : SUBSET {"ERR", "IN", "OUT"}])
    /\ needremove \in Seq([who : {"listener"} \cup Clients, fd : Fds])
    /\ build \in Builds
    /\ pc \in {"none", "init", "bridge", "loop", "wait", "dispatch", "close",
               "release", "delete", "done"}

(***************************************************************************)
(* m_Connections, the epoll set and the descriptor table agree at every    *)
(* step: each entry is the connection its descriptor really refers to,     *)
(* registered under it and for output exactly when there is something to   *)
(* send (or not watched at all, when the epoll_ctl of AddConnection failed *)
(* for it, and for no other reason), and no accepted socket is open        *)
(* without an entry (the one being closed excepted).  It is what makes the *)
(* assert in AddConnection hold: a descriptor the kernel hands out is      *)
(* never a key already.                                                    *)
(***************************************************************************)
MapMatchesKernel ==
    /\ \A fd \in DOMAIN m_Connections :
         /\ table[fd] = m_Connections[fd].who
         /\ IF m_Connections[fd].added
            THEN [who |-> table[fd], fd |-> fd, out |-> m_Connections[fd].sending] \in Watched
            ELSE \A r \in Watched : r.fd # fd
    /\ \A fd \in Fds : table[fd] \in Clients => fd \in DOMAIN m_Connections \cup {closing}
    /\ \A fd \in Fds : table[fd] = "listener" <=> fd = m_Socket
    /\ \A r \in Watched : table[r.fd] = r.who

(***************************************************************************)
(* A descriptor in the event batch or in needremove still refers to the    *)
(* socket the event was reported for, although sockets are accepted and    *)
(* closed, and descriptors opened by other threads, while the batch is     *)
(* worked off: nothing is ever done to a socket on another one's account.  *)
(***************************************************************************)
EventsCurrent ==
    /\ \A i \in DOMAIN events : table[events[i].fd] = events[i].who
    /\ \A i \in DOMAIN needremove : table[needremove[i].fd] = needremove[i].who

(***************************************************************************)
(* The net thread never closes a descriptor of another thread: OnSocketClose *)
(* closes a socket once, so that a number which another thread got in      *)
(* between is left alone.                                                  *)
(***************************************************************************)
OthersUntouched ==
    [][\A fd \in Fds : table[fd] = "other" /\ table'[fd] # "other"
                          => UNCHANGED managerVars]_vars

(***************************************************************************)
(* While the loop runs a connection is closed only for its own fault: its  *)
(* peer closed or reset it, or sent what is not a package.  Neither        *)
(* another connection's failure nor the listener's costs it its socket.    *)
(***************************************************************************)
OnlyFaultyClosed ==
    [][\A fd \in Fds :
         table[fd] \in Clients /\ table'[fd] # table[fd] /\ pc # "delete"
            => reset[table[fd]] \/ inbox[table[fd]] \in {"bad", "fin"}]_vars

(***************************************************************************)
(* What is ready fits into m_Events, which epoll_wait would otherwise      *)
(* overrun; and "Windows can handle 64 sockets, one of them the listener"  *)
(* (AddConnection): the listening socket and all connections fit into an   *)
(* fd_set, whose FD_SET leaves out what does not, so that no connection is *)
(* accepted and then never looked at.                                      *)
(***************************************************************************)
EventsFit ==
    IF build = "linux" THEN Len(events) <= MaxEvents ELSE Cardinality(Watched) <= FD_SETSIZE

(***************************************************************************)
(* "Remove the sockets with an error" (the comment over the second loop of *)
(* SelectSocketLinux): the listening socket has none, so once the server   *)
(* listens (the bridge has connected) it does so for as long as the loop   *)
(* runs.                                                                   *)
(***************************************************************************)
ListenerKept ==
    link[Bridge] # "idle" /\ pc \in {"loop", "wait", "dispatch", "close"}
        => m_Socket # SOCKET_ERROR
=============================================================================
