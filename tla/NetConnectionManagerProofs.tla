--------------------- MODULE NetConnectionManagerProofs ---------------------
(***************************************************************************)
(* NetConnectionManager proved, for any clients, descriptors and room in   *)
(* m_Events: identity is kept.  The invariant says what a descriptor       *)
(* stands for in each of the places that know it - the kernel's table, the *)
(* epoll set, m_Connections, the event batch, needremove - and where in    *)
(* the loop each of them may hold something.                               *)
(***************************************************************************)
EXTENDS NetConnectionManager, FiniteSetTheorems, SequenceTheorems, TLAPS

Sockets == {"listener"} \cup Clients
EventSet == [who : Sockets, fd : Fds, flags : SUBSET {"ERR", "IN", "OUT"}]
RemoveSet == [who : Sockets, fd : Fds]

\* The table, the connections the kernel has, and the map are about the same sockets.
Owned ==
    /\ \A fd \in DOMAIN m_Connections : table[fd] = m_Connections[fd].who
    /\ \A fd \in Fds : table[fd] \in Clients => fd \in DOMAIN m_Connections \cup {closing}
    /\ \A fd \in Fds : table[fd] = "listener" <=> fd = m_Socket
    /\ \A fd, other \in Fds : table[fd] \in Clients /\ table[fd] = table[other] => fd = other
    /\ \A fd \in Fds : table[fd] \in Clients => link[table[fd]] = "live"
    /\ \A c \in Clients : link[c] = "live" => \E fd \in Fds : table[fd] = c
    /\ \A c \in Clients : link[c] = "queued" => m_Socket # SOCKET_ERROR
    /\ m_Send # SOCKET_ERROR => table[m_Send] = "bridge"

\* The epoll set has one registration for each socket whose epoll_ctl worked; select needs none.
Registered ==
    /\ build = "linux" => \A fd \in DOMAIN m_Connections : m_Connections[fd].added =>
         [who |-> table[fd], fd |-> fd, out |-> m_Connections[fd].sending] \in interest
    /\ \A fd \in DOMAIN m_Connections : ~m_Connections[fd].added =>
         build = "linux" /\ \A r \in interest : r.fd # fd
    /\ \A r \in interest : table[r.fd] = r.who
    /\ \A r, s \in interest : r.fd = s.fd => r = s
    /\ \A r \in interest : r.who = "listener" => r.out = FALSE
    /\ build = "windows" => interest = {}

\* No descriptor is in the batch and needremove twice.
Distinct ==
    /\ \A i, j \in DOMAIN events : events[i].fd = events[j].fd => i = j
    /\ \A i, j \in DOMAIN needremove : needremove[i].fd = needremove[j].fd => i = j
    /\ \A i \in DOMAIN events, j \in DOMAIN needremove : events[i].fd # needremove[j].fd

\* What there can be at each place of the loop.
Phases ==
    /\ pc \notin {"dispatch", "close"} => events = << >> /\ needremove = << >>
    /\ pc # "close" => closing = SOCKET_ERROR
    /\ pc = "close" =>
         /\ closing \in Fds /\ table[closing] \in Clients
         /\ closing \notin DOMAIN m_Connections
         /\ events = << >>
         /\ \A i \in DOMAIN needremove : needremove[i].fd # closing
    /\ pc \in {"none", "init", "bridge", "done"} => \A fd \in Fds : table[fd] \notin Clients
    /\ pc \in {"none", "init", "delete", "done"} => m_Socket = SOCKET_ERROR

Faulty(c) == reset[c] \/ inbox[c] \in {"bad", "fin"}

\* An event is there for a reason, and what is to be removed has deserved it.
Faults ==
    /\ \A i \in DOMAIN events :
         events[i].who \in Clients =>
           /\ "ERR" \in events[i].flags => reset[events[i].who]
           /\ "IN" \in events[i].flags => Faulty(events[i].who) \/ inbox[events[i].who] = "data"
    /\ \A i \in DOMAIN events : events[i].who = "listener" => "ERR" \notin events[i].flags
    /\ \A i \in DOMAIN needremove : needremove[i].who \in Clients => Faulty(needremove[i].who)
    /\ pc = "close" => Faulty(table[closing])

Room ==
    /\ IsFiniteSet(DOMAIN m_Connections)
    /\ build = "windows" => Cardinality(DOMAIN m_Connections) <= MaxConnections
    /\ build = "linux" => Len(events) <= MaxEvents

ManagerInv ==
    /\ TypeOK
    /\ Owned
    /\ Registered
    /\ Distinct
    /\ EventsCurrent
    /\ Phases
    /\ Faults
    /\ Room
-----------------------------------------------------------------------------
(* Facts about the operators.                                              *)

LEMMA Names ==
    /\ {"free", "epoll", "listener", "bridge", "other"} \cap Clients = {}
    /\ Bridge \in Clients
    /\ SOCKET_ERROR \notin Fds
    /\ Fds \subseteq Int
    /\ IsFiniteSet(Fds)
    /\ MaxEvents \in Nat /\ MaxConnections \in Nat /\ FD_SETSIZE \in Nat
    /\ MaxConnections < FD_SETSIZE
    /\ Builds \subseteq {"linux", "windows"}
<1>1. IsFiniteSet(Fds)
  BY FS_Interval, ManagerAssumption DEF Fds
<1> QED BY <1>1, ManagerAssumption DEF Fds, SOCKET_ERROR

\* A connection goes into the map under a descriptor that has no entry, and leaves it.
LEMMA Inserted ==
    ASSUME NEW s, NEW connection, s \notin DOMAIN m_Connections
    PROVE  /\ DOMAIN Insert(s, connection) = DOMAIN m_Connections \cup {s}
           /\ \A fd \in DOMAIN m_Connections : Insert(s, connection)[fd] = m_Connections[fd]
           /\ Insert(s, connection)[s] = connection
  BY DEF Insert

LEMMA Erased ==
    ASSUME NEW s
    PROVE  /\ DOMAIN Erase(s) = DOMAIN m_Connections \ {s}
           /\ \A fd \in DOMAIN m_Connections \ {s} : Erase(s)[fd] = m_Connections[fd]
  BY DEF Erase

\* What TypeOK says of each variable but the batch.
LEMMA KernelTypes ==
    ASSUME TypeOK
    PROVE  /\ table \in [Fds -> Owners]
           /\ \A r \in interest : /\ r.who \in Sockets /\ r.fd \in Fds /\ r.out \in BOOLEAN
                                  /\ r = [who |-> r.who, fd |-> r.fd, out |-> r.out]
           /\ link \in [Clients -> {"idle", "queued", "live", "cut"}]
           /\ inbox \in [Clients -> {"quiet", "data", "bad", "fin"}]
           /\ reset \in [Clients -> BOOLEAN]
           /\ DOMAIN m_Connections \subseteq Fds
           /\ \A fd \in DOMAIN m_Connections :
                /\ m_Connections[fd].who \in Clients
                /\ m_Connections[fd].sending \in BOOLEAN /\ m_Connections[fd].added \in BOOLEAN
                /\ m_Connections[fd] = [who |-> m_Connections[fd].who, sending |-> m_Connections[fd].sending,
                                        added |-> m_Connections[fd].added]
           /\ m_Socket # SOCKET_ERROR => m_Socket \in Fds
           /\ m_Send # SOCKET_ERROR => m_Send \in Fds
           /\ closing # SOCKET_ERROR => closing \in Fds
           /\ build \in {"linux", "windows"}
<1>1. \A r \in interest : r \in [who : Sockets, fd : Fds, out : BOOLEAN]
  BY DEF TypeOK, Sockets
<1>2. \A r \in interest : /\ r.who \in Sockets /\ r.fd \in Fds /\ r.out \in BOOLEAN
                          /\ r = [who |-> r.who, fd |-> r.fd, out |-> r.out]
  BY <1>1
<1>3. \A fd \in DOMAIN m_Connections : m_Connections[fd] \in [who : Clients, sending : BOOLEAN, added : BOOLEAN]
  BY DEF TypeOK
<1>4. \A fd \in DOMAIN m_Connections :
        /\ m_Connections[fd].who \in Clients
        /\ m_Connections[fd].sending \in BOOLEAN /\ m_Connections[fd].added \in BOOLEAN
        /\ m_Connections[fd] = [who |-> m_Connections[fd].who, sending |-> m_Connections[fd].sending,
                                added |-> m_Connections[fd].added]
  BY <1>3
<1> QED BY <1>2, <1>4, Names DEF TypeOK

\* What the elements of the batch and of needremove are.
LEMMA Elements ==
    ASSUME TypeOK
    PROVE  /\ \A i \in DOMAIN events : events[i].fd \in Fds /\ events[i].who \in Sockets
           /\ \A i \in DOMAIN needremove : needremove[i].fd \in Fds /\ needremove[i].who \in Sockets
<1>1. events \in Seq(EventSet) /\ needremove \in Seq(RemoveSet)
  BY DEF TypeOK, EventSet, RemoveSet, Sockets
<1>2. \A i \in DOMAIN events : events[i] \in EventSet
  BY <1>1
<1>3. \A i \in DOMAIN needremove : needremove[i] \in RemoveSet
  BY <1>1
<1> QED BY <1>2, <1>3 DEF EventSet, RemoveSet

\* A batch that is a sequence of events, at its head and behind.
LEMMA Batch ==
    ASSUME TypeOK, events # << >>
    PROVE  /\ 1 \in DOMAIN events /\ Event = events[1] /\ Event \in EventSet
           /\ Tail(events) \in Seq(EventSet)
           /\ \A i \in DOMAIN Tail(events) : i + 1 \in DOMAIN events /\ i + 1 # 1 /\ Tail(events)[i] = events[i + 1]
<1>1. events \in Seq(EventSet)
  BY DEF TypeOK, EventSet, Sockets
<1> HIDE DEF EventSet
<1> QED BY <1>1 DEF Event

LEMMA Doomeds ==
    ASSUME TypeOK, needremove # << >>
    PROVE  /\ 1 \in DOMAIN needremove /\ Head(needremove) = needremove[1] /\ needremove[1] \in RemoveSet
           /\ Doomed = needremove[1].fd /\ Doomed \in Fds
           /\ Tail(needremove) \in Seq(RemoveSet)
           /\ \A i \in DOMAIN Tail(needremove) :
                i + 1 \in DOMAIN needremove /\ i + 1 # 1 /\ Tail(needremove)[i] = needremove[i + 1]
<1>1. needremove \in Seq(RemoveSet)
  BY DEF TypeOK, RemoveSet, Sockets
<1>2. /\ 1 \in DOMAIN needremove /\ Head(needremove) = needremove[1] /\ needremove[1] \in RemoveSet
      /\ Tail(needremove) \in Seq(RemoveSet)
      /\ \A i \in DOMAIN Tail(needremove) :
           i + 1 \in DOMAIN needremove /\ i + 1 # 1 /\ Tail(needremove)[i] = needremove[i + 1]
  BY <1>1
<1> QED BY <1>2 DEF Doomed, RemoveSet

(***************************************************************************)
(* What may happen to the batch: the event at its head is handled or       *)
(* dropped, or moves on to needremove.  Nothing new comes in.              *)
(***************************************************************************)
FromBatch ==
    /\ \A i \in DOMAIN events' : \E j \in DOMAIN events :
         events'[i].who = events[j].who /\ events'[i].fd = events[j].fd /\ events'[i].flags \subseteq events[j].flags
    /\ \A i \in DOMAIN needremove' :
         \/ \E j \in DOMAIN needremove : needremove'[i] = needremove[j]
         \/ needremove'[i].who = Event.who /\ needremove'[i].fd = Event.fd

BatchTypes ==
    /\ events \in Seq(EventSet)
    /\ needremove \in Seq(RemoveSet)

LEMMA HandledBatch ==
    ASSUME TypeOK, Distinct, events # << >>, NEW flag, Handled(flag)
    PROVE  /\ BatchTypes' /\ Distinct' /\ FromBatch /\ Len(events') = Len(events)
           /\ \A i \in DOMAIN events' :
                /\ i \in DOMAIN events
                /\ events'[i].who = events[i].who
                /\ events'[i].flags \subseteq events[i].flags
                /\ i = 1 => flag \notin events'[i].flags
           /\ UNCHANGED needremove
<1>1. events \in Seq(EventSet) /\ needremove \in Seq(RemoveSet)
  BY DEF TypeOK, EventSet, RemoveSet, Sockets
<1>2. PICK e : e = [events[1] EXCEPT !.flags = @ \ {flag}]
  OBVIOUS
<1>3. events[1] \in EventSet
  BY Batch
<1>4. e \in EventSet /\ e.who = events[1].who /\ e.fd = events[1].fd /\ e.flags = events[1].flags \ {flag}
  BY <1>2, <1>3 DEF EventSet
<1>5. events' = [events EXCEPT ![1] = e] /\ needremove' = needremove
  BY <1>2 DEF Handled
<1>6. events' \in Seq(EventSet) /\ Len(events') = Len(events) /\ DOMAIN events' = DOMAIN events
  BY <1>1, <1>4, <1>5
<1>7. \A i \in DOMAIN events : /\ events'[i].who = events[i].who /\ events'[i].fd = events[i].fd
                               /\ events'[i].flags \subseteq events[i].flags
                               /\ i = 1 => flag \notin events'[i].flags
  BY <1>1, <1>4, <1>5
<1> HIDE DEF EventSet
<1>8. Distinct'
  BY <1>5, <1>6, <1>7 DEF Distinct
<1> QED BY <1>1, <1>5, <1>6, <1>7, <1>8 DEF FromBatch, BatchTypes

LEMMA DroppedBatch ==
    ASSUME TypeOK, Distinct, events # << >>, events' = Tail(events), UNCHANGED needremove
    PROVE  BatchTypes' /\ Distinct' /\ FromBatch /\ Len(events') < Len(events)
<1>1. events \in Seq(EventSet) /\ needremove \in Seq(RemoveSet)
  BY DEF TypeOK, EventSet, RemoveSet, Sockets
<1>2. Len(events') < Len(events)
  BY <1>1
<1>3. Distinct'
  BY Batch DEF Distinct
<1>4. FromBatch
  BY Batch DEF FromBatch
<1> QED BY <1>1, <1>2, <1>3, <1>4, Batch DEF BatchTypes

LEMMA NeedRemoveBatch ==
    ASSUME TypeOK, Distinct, events # << >>, NeedRemove
    PROVE  /\ BatchTypes' /\ Distinct' /\ FromBatch /\ Len(events') < Len(events)
<1>1. events \in Seq(EventSet) /\ needremove \in Seq(RemoveSet)
  BY DEF TypeOK, EventSet, RemoveSet, Sockets
<1>2. PICK d : d = [who |-> Event.who, fd |-> Event.fd]
  OBVIOUS
<1>3. d \in RemoveSet /\ d.who = events[1].who /\ d.fd = events[1].fd
  BY <1>2, Batch DEF EventSet, RemoveSet
<1>4. needremove' = Append(needremove, d) /\ events' = Tail(events)
  BY <1>2 DEF NeedRemove
<1>5. Len(events') < Len(events)
  BY <1>1, <1>4
<1>6. needremove' \in Seq(RemoveSet)
  BY <1>1, <1>3, <1>4
<1>7. /\ \A i \in DOMAIN needremove' : (i \in DOMAIN needremove /\ needremove'[i] = needremove[i])
                                       \/ (i \notin DOMAIN needremove /\ i = Len(needremove) + 1 /\ needremove'[i] = d)
  BY <1>1, <1>3, <1>4
<1>8. Distinct'
  BY <1>3, <1>4, <1>7, Batch DEF Distinct
<1>9. FromBatch
  BY <1>3, <1>4, <1>7, Batch DEF FromBatch
<1> QED BY <1>4, <1>5, <1>6, <1>8, <1>9, Batch DEF BatchTypes
-----------------------------------------------------------------------------
(* The invariant, action by action.                                        *)

LEMMA ManagerInit ==
    ASSUME NEW start \in {"none", "init"}, InitAt(start)
    PROVE  ManagerInv
<1> USE DEF InitAt
<1>1. DOMAIN m_Connections = {} /\ events = << >> /\ needremove = << >> /\ Len(events) = 0
  OBVIOUS
<1>2. DOMAIN events = {} /\ DOMAIN needremove = {}
  BY <1>1
<1>3. table \in [Fds -> {"free", "epoll"}]
  OBVIOUS
<1>4. TypeOK
  BY <1>1, <1>3 DEF TypeOK, Owners
<1>5. Owned
  BY <1>1, <1>3, Names DEF Owned
<1>6. Registered
  BY <1>1 DEF Registered
<1>7. Distinct /\ EventsCurrent
  BY <1>2 DEF Distinct, EventsCurrent
<1>8. Phases
  BY <1>3, Names DEF Phases
<1>9. Faults
  BY <1>2 DEF Faults
<1>10. Room
  BY <1>1, FS_EmptySet, Names DEF Room
<1> QED BY <1>4, <1>5, <1>6, <1>7, <1>8, <1>9, <1>10 DEF ManagerInv

LEMMA ConnectKeeps ==
    ASSUME ManagerInv, NEW c \in Clients, Connect(c)
    PROVE  ManagerInv'
<1> USE DEF ManagerInv, Connect, managerVars
<1>1. TypeOK'
  BY DEF TypeOK
<1>2. m_Socket # SOCKET_ERROR
  BY Names DEF Owned
<1>3. Owned'
  BY <1>2 DEF Owned, TypeOK
<1>4. Registered' /\ Distinct' /\ EventsCurrent' /\ Phases' /\ Room'
  BY DEF Registered, Distinct, EventsCurrent, Phases, Room
<1>5. Faults'
  BY DEF Faults, Faulty
<1> QED BY <1>1, <1>3, <1>4, <1>5

LEMMA SayKeeps ==
    ASSUME ManagerInv, NEW c \in Clients, NEW what \in {"data", "bad", "fin"}, Say(c, what)
    PROVE  ManagerInv'
<1> USE DEF ManagerInv, Say, managerVars
<1>1. TypeOK'
  BY DEF TypeOK
<1>2. Owned' /\ Registered' /\ Distinct' /\ EventsCurrent' /\ Phases' /\ Room'
  BY DEF Owned, Registered, Distinct, EventsCurrent, Phases, Room
<1>3. \A b \in Clients : Faulty(b) => Faulty(b)'
  BY DEF Faulty, TypeOK
<1>4. \A b \in Clients : inbox[b] = "data" => inbox'[b] = "data"
  BY DEF TypeOK
<1>5. Faults'
  BY <1>3, <1>4 DEF Faults, Phases
<1> QED BY <1>1, <1>2, <1>5

LEMMA ResetKeeps ==
    ASSUME ManagerInv, NEW c \in Clients, Reset(c)
    PROVE  ManagerInv'
<1> USE DEF ManagerInv, Reset, managerVars
<1>1. TypeOK'
  BY DEF TypeOK
<1>2. Owned' /\ Registered' /\ Distinct' /\ EventsCurrent' /\ Phases' /\ Room'
  BY DEF Owned, Registered, Distinct, EventsCurrent, Phases, Room
<1>3. \A b \in Clients : (reset[b] => reset'[b]) /\ (Faulty(b) => Faulty(b)')
  BY DEF Faulty, TypeOK
<1>4. Faults'
  BY <1>3 DEF Faults, Phases
<1> QED BY <1>1, <1>2, <1>4

(***************************************************************************)
(* A descriptor that refers to no socket of the manager before and after a *)
(* step is none of its business.                                           *)
(***************************************************************************)
Foreign == {"free", "epoll", "other", "bridge"}

LEMMA ForeignKeeps ==
    ASSUME ManagerInv, NEW fd \in Fds, NEW was \in Foreign, NEW becomes \in Foreign,
           table[fd] = was, was # "bridge", table' = [table EXCEPT ![fd] = becomes],
           UNCHANGED << build, interest, link, inbox, reset, managerVars >>
    PROVE  ManagerInv'
<1> USE DEF ManagerInv, managerVars, Foreign
<1>1. TypeOK'
  BY DEF TypeOK, Owners
<1>2. \A o \in Fds : table'[o] = table[o] \/ (o = fd /\ table[o] = was /\ table'[o] = becomes)
  BY DEF TypeOK
<1>3. was \notin Sockets /\ becomes \notin Sockets
  BY Names DEF Sockets
<1>4. \A o \in Fds : table[o] \in Sockets \/ table'[o] \in Sockets => table'[o] = table[o]
  BY <1>2, <1>3
<1>5. Owned'
  <2>1. DOMAIN m_Connections \subseteq Fds /\ \A o \in DOMAIN m_Connections : m_Connections[o].who \in Clients
    BY DEF TypeOK
  <2>2. m_Send # SOCKET_ERROR => m_Send \in Fds
    BY DEF TypeOK
  <2> QED BY <1>2, <1>4, <2>1, <2>2 DEF Owned, Sockets
<1>6. Registered'
  <2>1. \A r \in interest : r.fd \in Fds /\ r.who \in Sockets
    BY DEF TypeOK, Sockets
  <2>2. DOMAIN m_Connections \subseteq Fds /\ \A o \in DOMAIN m_Connections : table[o] \in Clients
    BY DEF TypeOK, Owned
  <2> QED BY <1>4, <2>1, <2>2 DEF Registered, Sockets
<1>7. Distinct' /\ Room'
  BY DEF Distinct, Room
<1>8. EventsCurrent'
  BY <1>4, Elements DEF EventsCurrent
<1>9. Phases' /\ Faults'
  <2>1. pc = "close" => closing \in Fds /\ table'[closing] = table[closing]
    BY <1>4 DEF Phases, Sockets
  <2> QED BY <1>4, <2>1 DEF Phases, Faults, Faulty, Sockets
<1> QED BY <1>1, <1>5, <1>6, <1>7, <1>8, <1>9

LEMMA OtherKeeps == ManagerInv /\ (OtherOpen \/ OtherClose) => ManagerInv'
<1>1. ASSUME ManagerInv, OtherOpen PROVE ManagerInv'
  BY <1>1, ForeignKeeps DEF OtherOpen, NewFds, FreeFds, Foreign
<1>2. ASSUME ManagerInv, OtherClose PROVE ManagerInv'
  BY <1>2, ForeignKeeps DEF OtherClose, Foreign
<1> QED BY <1>1, <1>2

LEMMA EnvironmentKeeps == ManagerInv /\ Environment => ManagerInv'
  BY ConnectKeeps, SayKeeps, ResetKeeps, OtherKeeps DEF Environment

\* Steps that only go from one place of the loop to another.
LEMMA PlaceKeeps ==
    ASSUME ManagerInv, Continue \/ EpollTimeout \/ LeaveLoop \/ ReleaseDone
    PROVE  ManagerInv'
<1> USE DEF ManagerInv, kernelVars
<1>1. /\ UNCHANGED << kernelVars, m_Connections, m_Socket, m_Send, events, needremove, closing >>
      /\ pc \in {"loop", "wait", "delete"} /\ pc' \in {"wait", "loop", "release", "done"}
      /\ pc' = "done" => pc = "delete" /\ DOMAIN m_Connections = {}
  BY DEF Continue, EpollTimeout, LeaveLoop, ReleaseDone
<1>2. TypeOK'
  BY <1>1 DEF TypeOK
<1>3. Owned' /\ Registered' /\ Distinct' /\ EventsCurrent' /\ Room'
  BY <1>1 DEF Owned, Registered, Distinct, EventsCurrent, Room
<1>4. Phases'
  <2>1. pc' = "done" => \A fd \in Fds : table[fd] \notin Clients
    BY <1>1, Names DEF Owned, Phases
  <2> QED BY <1>1, <2>1 DEF Phases
<1>5. Faults'
  BY <1>1 DEF Faults, Faulty
<1> QED BY <1>2, <1>3, <1>4, <1>5

LEMMA StartListenerKeeps == ManagerInv /\ StartListener => ManagerInv'
<1> SUFFICES ASSUME ManagerInv, StartListener PROVE ManagerInv'
  OBVIOUS
<1> USE DEF ManagerInv
<1>1. /\ pc = "init" /\ pc' = "bridge"
      /\ UNCHANGED << build, interest, link, inbox, reset, m_Connections, m_Send, events, needremove, closing >>
  BY DEF StartListener
<1>2. m_Socket = SOCKET_ERROR /\ \A fd \in Fds : table[fd] \notin Sockets
  BY <1>1, Names DEF Phases, Owned, Sockets
<1>3. DOMAIN m_Connections = {} /\ interest = {}
  <2>1. \A fd \in DOMAIN m_Connections : fd \in Fds /\ table[fd] \in Clients
    BY DEF TypeOK, Owned
  <2>2. \A r \in interest : r.fd \in Fds /\ table[r.fd] \in Sockets
    BY DEF TypeOK, Registered, Sockets
  <2> QED BY <1>2, <2>1, <2>2 DEF Sockets
<1>4. CASE UNCHANGED << table, m_Socket >>
  <2>1. TypeOK'
    BY <1>1, <1>4 DEF TypeOK
  <2> QED BY <1>1, <1>4, <2>1
          DEF Owned, Registered, Distinct, EventsCurrent, Phases, Faults, Faulty, Room
<1>5. ASSUME NEW fd \in NewFds, table' = [table EXCEPT ![fd] = "listener"], m_Socket' = fd
      PROVE  ManagerInv'
  <2>1. fd \in Fds /\ table[fd] = "free"
    BY DEF NewFds, FreeFds
  <2>2. TypeOK'
    BY <1>1, <1>5, <2>1 DEF TypeOK, Owners
  <2>3. table'[fd] = "listener" /\ \A o \in Fds \ {fd} : table'[o] = table[o]
    BY <1>5, <2>1 DEF TypeOK
  <2>4. Owned'
    <3>1. m_Send # SOCKET_ERROR => m_Send \in Fds /\ m_Send # fd
      BY <2>1 DEF Owned, TypeOK
    <3>2. \A o \in Fds : table'[o] \notin Clients
      BY <1>2, <2>3, Names DEF Sockets
    <3>3. \A c \in Clients : link[c] # "live" /\ link[c] # "queued"
      BY <1>2 DEF Owned, Sockets
    <3>4. \A o \in Fds : table'[o] = "listener" <=> o = m_Socket'
      BY <1>2, <1>5, <2>3 DEF Sockets
    <3> QED BY <1>1, <1>3, <2>3, <3>1, <3>2, <3>3, <3>4 DEF Owned
  <2>5. Registered' /\ Room' /\ Distinct'
    BY <1>1, <1>3 DEF Registered, Room, Distinct
  <2>6. EventsCurrent' /\ Faults'
    BY <1>1 DEF EventsCurrent, Faults, Phases
  <2>7. Phases'
    BY <1>1, <1>2, <2>3, Names DEF Phases, Sockets
  <2> QED BY <2>2, <2>4, <2>5, <2>6, <2>7
<1> QED BY <1>4, <1>5 DEF StartListener

LEMMA InitBridgeKeeps == ManagerInv /\ InitBridge => ManagerInv'
<1> SUFFICES ASSUME ManagerInv, InitBridge PROVE ManagerInv'
  OBVIOUS
<1> USE DEF ManagerInv
<1>1. /\ pc = "bridge" /\ pc' = "loop"
      /\ UNCHANGED << build, inbox, reset, m_Connections, m_Socket, events, needremove, closing >>
  BY DEF InitBridge
<1>2. \A fd \in Fds : table[fd] \notin Clients
  BY <1>1 DEF Phases
<1>3. DOMAIN m_Connections = {}
  <2>1. \A fd \in DOMAIN m_Connections : fd \in Fds /\ table[fd] \in Clients
    BY KernelTypes DEF Owned
  <2> QED BY <1>2, <2>1
<1>4. /\ \A fd \in Fds : table'[fd] = table[fd] \/ (table[fd] = "free" /\ table'[fd] = "bridge")
      /\ table' \in [Fds -> Owners]
      /\ m_Send' \in Fds \cup {SOCKET_ERROR}
      /\ m_Send' # SOCKET_ERROR => table'[m_Send'] = "bridge"
  <2>1. CASE UNCHANGED << table, m_Send, link >>
    BY <2>1 DEF TypeOK, Owned
  <2>2. ASSUME NEW fd \in NewFds, table' = [table EXCEPT ![fd] = "bridge"] /\ m_Send' = fd
        PROVE  <1>4!1 /\ <1>4!2 /\ <1>4!3 /\ <1>4!4
    BY <2>2 DEF TypeOK, NewFds, FreeFds, Owners
  <2> QED BY <2>1, <2>2 DEF InitBridge
<1>5. /\ link' \in [Clients -> {"idle", "queued", "live", "cut"}]
      /\ \A c \in Clients : link'[c] = link[c] \/ (link'[c] = "queued" /\ m_Socket # SOCKET_ERROR)
  BY Names DEF InitBridge, TypeOK
<1>6. interest' = interest \/ (/\ m_Socket # SOCKET_ERROR /\ build # "windows"
                               /\ interest' = interest \cup {[who |-> "listener", fd |-> m_Socket, out |-> FALSE]})
  BY DEF InitBridge
<1>7. TypeOK'
  <2>1. interest' \subseteq [who : {"listener"} \cup Clients, fd : Fds, out : BOOLEAN]
    <3>1. [who |-> "listener", fd |-> m_Socket, out |-> FALSE] \in [who : {"listener"} \cup Clients, fd : Fds, out : BOOLEAN]
          \/ m_Socket = SOCKET_ERROR
      BY KernelTypes
    <3>2. interest \subseteq [who : {"listener"} \cup Clients, fd : Fds, out : BOOLEAN]
      BY DEF TypeOK
    <3> QED BY <1>6, <3>1, <3>2
  <2> QED BY <1>1, <1>4, <1>5, <2>1 DEF TypeOK
<1>8. Owned'
  <2>1. \A fd \in Fds : table'[fd] \notin Clients /\ (table'[fd] = "listener" <=> fd = m_Socket)
    BY <1>2, <1>4, Names DEF Owned
  <2>2. \A c \in Clients : link[c] # "live" /\ link'[c] # "live"
    BY <1>2, <1>5 DEF Owned
  <2>3. \A c \in Clients : link'[c] = "queued" => m_Socket # SOCKET_ERROR
    BY <1>5 DEF Owned
  <2> QED BY <1>1, <1>3, <1>4, <2>1, <2>2, <2>3 DEF Owned
<1>9. Registered'
  <2>1. \A r \in interest : r.fd \in Fds /\ r.who \in Sockets /\ table'[r.fd] = r.who
    BY <1>4, Names, KernelTypes DEF Registered, Sockets
  <2>2. CASE interest' = interest
    BY <1>1, <1>3, <2>1, <2>2 DEF Registered
  <2>3. CASE /\ m_Socket # SOCKET_ERROR /\ build # "windows"
             /\ interest' = interest \cup {[who |-> "listener", fd |-> m_Socket, out |-> FALSE]}
    <3>1. m_Socket \in Fds /\ table[m_Socket] = "listener" /\ table'[m_Socket] = "listener"
      BY <1>4, <2>3 DEF TypeOK, Owned
    <3>2. \A r \in interest : r.fd = m_Socket => r = [who |-> "listener", fd |-> m_Socket, out |-> FALSE]
      <4>1. SUFFICES ASSUME NEW r \in interest, r.fd = m_Socket
                     PROVE  r = [who |-> "listener", fd |-> m_Socket, out |-> FALSE]
        OBVIOUS
      <4>2. r.who = "listener" /\ r.out = FALSE
        BY <3>1, <4>1 DEF Registered
      <4> QED BY <4>1, <4>2, KernelTypes
    <3>3. PICK n : n = [who |-> "listener", fd |-> m_Socket, out |-> FALSE]
      OBVIOUS
    <3>4. n.fd = m_Socket /\ n.who = "listener" /\ n.out = FALSE /\ interest' = interest \cup {n}
      BY <2>3, <3>3
    <3>5. \A r \in interest : r.fd = n.fd => r = n
      BY <3>2, <3>3
    <3>6. \A r, s \in interest' : r.fd = s.fd => r = s
      BY <3>4, <3>5 DEF Registered
    <3>7. \A r \in interest' : table'[r.fd] = r.who /\ (r.who = "listener" => r.out = FALSE)
      BY <2>1, <3>1, <3>4 DEF Registered
    <3>8. build' # "windows" /\ DOMAIN m_Connections' = {}
      BY <1>1, <1>3, <2>3
    <3> QED BY <3>6, <3>7, <3>8 DEF Registered
  <2> QED BY <1>6, <2>2, <2>3
<1>10. Distinct' /\ Room'
  BY <1>1 DEF Distinct, Room
<1>11. EventsCurrent' /\ Faults'
  BY <1>1 DEF EventsCurrent, Faults, Phases
<1>12. Phases'
  BY <1>1 DEF Phases
<1> QED BY <1>7, <1>8, <1>9, <1>10, <1>11, <1>12

\* What epoll_wait and select look at: every socket once, and under the number it has.
LEMMA WatchedSockets ==
    ASSUME ManagerInv
    PROVE  /\ \A r \in Watched : r.who \in Sockets /\ r.fd \in Fds /\ table[r.fd] = r.who
           /\ \A r, s \in Watched : r.fd = s.fd => r = s
           /\ IsFiniteSet(Watched)
<1> USE DEF ManagerInv
<1>1. build \in {"linux", "windows"}
  BY Names DEF TypeOK
<1>2. /\ \A r \in Watched : r.who \in Sockets /\ r.fd \in Fds /\ table[r.fd] = r.who
      /\ \A r, s \in Watched : r.fd = s.fd => r = s
  <2>1. CASE build = "linux"
    BY <2>1 DEF Watched, Registered, TypeOK, Sockets
  <2>2. CASE build = "windows"
    <3>1. \A r \in Watched :
            \/ r.fd \in Fds /\ r = [who |-> "listener", fd |-> m_Socket, out |-> FALSE]
            \/ r.fd \in DOMAIN m_Connections
               /\ r = [who |-> m_Connections[r.fd].who, fd |-> r.fd, out |-> m_Connections[r.fd].sending]
      BY <2>2 DEF Watched
    <3>2. \A fd \in DOMAIN m_Connections : /\ fd \in Fds /\ table[fd] = m_Connections[fd].who
                                           /\ table[fd] \in Clients
      BY DEF TypeOK, Owned
    <3>3. m_Socket \in Fds => table[m_Socket] = "listener" /\ m_Socket \notin DOMAIN m_Connections
      BY <3>2, Names DEF Owned
    <3>4. \A r \in Watched : r.who \in Sockets /\ r.fd \in Fds /\ table[r.fd] = r.who
      BY <3>1, <3>2, <3>3, KernelTypes DEF Sockets
    <3>5. \A r, s \in Watched : r.fd = s.fd => r = s
      <4> SUFFICES ASSUME NEW r \in Watched, NEW s \in Watched, r.fd = s.fd PROVE r = s
        OBVIOUS
      <4>1. CASE r.fd \in DOMAIN m_Connections
        BY <3>1, <3>3, <4>1
      <4>2. CASE r.fd \notin DOMAIN m_Connections
        BY <3>1, <4>2
      <4> QED BY <4>1, <4>2
    <3> QED BY <3>4, <3>5
  <2> QED BY <1>1, <2>1, <2>2
<1>3. [r \in Watched |-> r.fd] \in Injection(Watched, Fds)
  BY <1>2 DEF Injection, IsInjective
<1> QED BY <1>2, <1>3, FS_Injection, Names

LEMMA FlagsOf ==
    ASSUME ManagerInv, NEW r, r.who \in Sockets
    PROVE  /\ Flags(r) \in SUBSET {"ERR", "IN", "OUT"}
           /\ r.who \in Clients =>
                /\ "ERR" \in Flags(r) => reset[r.who]
                /\ "IN" \in Flags(r) => Faulty(r.who) \/ inbox[r.who] = "data"
           /\ r.who = "listener" => "ERR" \notin Flags(r)
<1> USE DEF ManagerInv
<1>1. CASE r.who = "listener"
  BY <1>1, Names DEF Flags
<1>2. CASE r.who # "listener"
  <2>1. r.who \in Clients /\ inbox[r.who] \in {"quiet", "data", "bad", "fin"}
    BY <1>2, KernelTypes DEF Sockets
  <2>2. Flags(r) = {f \in {"ERR", "IN", "OUT"} :
                      \/ f = "ERR" /\ reset[r.who] /\ build = "linux"
                      \/ f = "IN" /\ (reset[r.who] \/ inbox[r.who] # "quiet")
                      \/ f = "OUT" /\ r.out}
    BY <1>2 DEF Flags
  <2> QED BY <1>2, <2>1, <2>2 DEF Faulty
<1> QED BY <1>1, <1>2

LEMMA EpollWaitKeeps == ManagerInv /\ EpollWait => ManagerInv'
<1> SUFFICES ASSUME ManagerInv, EpollWait PROVE ManagerInv'
  OBVIOUS
<1> USE DEF ManagerInv
<1>1. /\ pc = "wait" /\ pc' = "dispatch"
      /\ UNCHANGED << build, table, interest, link, inbox, reset, m_Connections, m_Socket, m_Send, needremove, closing >>
  BY DEF EpollWait, kernelVars
<1>2. PICK n : n = BatchSize
  OBVIOUS
<1>3. PICK batch \in [1 .. n -> Ready] :
        /\ \A i, j \in 1 .. n : batch[i] = batch[j] => i = j
        /\ events' = [i \in 1 .. n |-> [who |-> batch[i].who, fd |-> batch[i].fd, flags |-> Flags(batch[i])]]
  BY <1>2 DEF EpollWait
<1>4. n \in Nat /\ (build = "linux" => n <= MaxEvents)
  <2>1. IsFiniteSet(Ready)
    BY WatchedSockets, FS_Subset DEF Ready
  <2>2. Cardinality(Ready) \in Nat
    BY <2>1, FS_CardinalityType
  <2> QED BY <1>2, <2>2, Names DEF BatchSize
<1>5. \A i \in 1 .. n : batch[i] \in Watched /\ batch[i].who \in Sockets
  BY <1>3, WatchedSockets DEF Ready
<1>6. /\ DOMAIN events' = 1 .. n
      /\ \A i \in 1 .. n : /\ events'[i].who = batch[i].who /\ events'[i].fd = batch[i].fd
                           /\ events'[i].flags = Flags(batch[i])
  BY <1>3
<1>7. events' \in Seq(EventSet) /\ Len(events') = n
  <2>1. \A i \in 1 .. n : [who |-> batch[i].who, fd |-> batch[i].fd, flags |-> Flags(batch[i])] \in EventSet
    BY <1>5, WatchedSockets, FlagsOf DEF EventSet
  <2> HIDE DEF EventSet
  <2> QED BY <1>3, <1>4, <2>1
<1>8. needremove = << >> /\ closing = SOCKET_ERROR /\ DOMAIN needremove = {}
  BY <1>1 DEF Phases
<1>9. TypeOK'
  BY <1>1, <1>7 DEF TypeOK, EventSet, Sockets
<1>10. Owned' /\ Registered'
  BY <1>1 DEF Owned, Registered
<1>11. Distinct'
  BY <1>1, <1>3, <1>5, <1>6, <1>8, WatchedSockets DEF Distinct
<1>12. EventsCurrent'
  BY <1>1, <1>5, <1>6, <1>8, WatchedSockets DEF EventsCurrent
<1>13. Phases'
  BY <1>1, <1>8 DEF Phases
<1>14. Faults'
  <2>1. \A c \in Clients : Faulty(c)' = Faulty(c)
    BY <1>1 DEF Faulty
  <2> QED BY <1>1, <1>5, <1>6, <1>8, <2>1, FlagsOf DEF Faults
<1>15. Room'
  BY <1>1, <1>4, <1>7 DEF Room
<1> QED BY <1>9, <1>10, <1>11, <1>12, <1>13, <1>14, <1>15

(***************************************************************************)
(* Working off the head of the batch without touching a descriptor: the    *)
(* table, the epoll set and the map stay, and who goes to needremove is    *)
(* the listener or at fault.                                               *)
(***************************************************************************)
LEMMA BatchKeeps ==
    ASSUME ManagerInv, Dispatching,
           BatchTypes', Distinct', FromBatch, Len(events') <= Len(events),
           Event.who \in Clients => Faulty(Event.who) \/ needremove' = needremove,
           \A c \in Clients : link[c] # "live" => link'[c] \in {"cut", link[c]},
           \A c \in Clients : link[c] = "live" => link'[c] = "live",
           link' \in [Clients -> {"idle", "queued", "live", "cut"}],
           UNCHANGED << build, table, interest, inbox, reset, m_Connections, m_Socket, m_Send, closing, pc >>
    PROVE  ManagerInv'
<1> USE DEF ManagerInv
<1>1. TypeOK'
  BY DEF TypeOK, BatchTypes, EventSet, RemoveSet, Sockets
<1>2. Owned'
  BY KernelTypes DEF Owned
<1>3. Registered'
  BY DEF Registered
<1>4. Event = events[1] /\ 1 \in DOMAIN events
  BY Batch DEF Dispatching
<1>5. EventsCurrent'
  BY <1>4 DEF EventsCurrent, FromBatch
<1>6. Phases'
  BY DEF Phases, Dispatching
<1>7. Faults'
  <2>1. \A c : Faulty(c)' = Faulty(c)
    BY DEF Faulty
  <2>2. \A i \in DOMAIN needremove' : needremove'[i].who \in Clients => Faulty(needremove'[i].who)
    BY DEF Faults, FromBatch
  <2> QED BY <2>1, <2>2 DEF Faults, FromBatch, Dispatching
<1>8. Room'
  BY <1>1, Names DEF Room, TypeOK
<1> QED BY <1>1, <1>2, <1>3, <1>5, <1>6, <1>7, <1>8

\* A queued connection that is dropped changes no other one.
LEMMA QueuedCut ==
    ASSUME TypeOK, NEW c \in Queued, link' = Cut(c)
    PROVE  /\ \A b \in Clients : link[b] # "live" => link'[b] \in {"cut", link[b]}
           /\ \A b \in Clients : link[b] = "live" => link'[b] = "live"
           /\ link' \in [Clients -> {"idle", "queued", "live", "cut"}]
  BY KernelTypes DEF Cut, Queued

\* The event at the head of the batch is about the socket its descriptor refers to.
LEMMA EventOwner ==
    ASSUME ManagerInv, Dispatching
    PROVE  /\ Event.fd \in Fds /\ Event.who \in Sockets /\ table[Event.fd] = Event.who
           /\ Event = events[1] /\ 1 \in DOMAIN events /\ events # << >>
           /\ Event.fd = m_Socket <=> Event.who = "listener"
<1> USE DEF ManagerInv
<1>1. events # << >>
  BY DEF Dispatching
<1>2. Event = events[1] /\ 1 \in DOMAIN events
  BY <1>1, Batch
<1>3. Event.fd \in Fds /\ Event.who \in Sockets
  BY <1>2, Elements
<1>4. table[Event.fd] = Event.who
  BY <1>2 DEF EventsCurrent
<1> QED BY <1>1, <1>2, <1>3, <1>4 DEF Owned

LEMMA EventErrorKeeps == ManagerInv /\ EventError => ManagerInv'
<1> SUFFICES ASSUME ManagerInv, EventError PROVE ManagerInv'
  OBVIOUS
<1> USE DEF ManagerInv
<1>1. /\ Dispatching /\ NeedRemove /\ events # << >>
      /\ UNCHANGED << build, table, interest, link, inbox, reset, m_Connections, m_Socket, m_Send, closing, pc >>
  BY DEF EventError, Dispatching, kernelVars
<1>2. Event.who \in Clients => Faulty(Event.who)
  BY <1>1, EventOwner DEF EventError, Faults, Faulty
<1>3. BatchTypes' /\ Distinct' /\ FromBatch /\ Len(events') <= Len(events)
  BY <1>1, NeedRemoveBatch DEF TypeOK, BatchTypes
<1> QED BY <1>1, <1>2, <1>3, BatchKeeps, KernelTypes

LEMMA NextEventKeeps == ManagerInv /\ NextEvent => ManagerInv'
<1> SUFFICES ASSUME ManagerInv, NextEvent PROVE ManagerInv'
  OBVIOUS
<1> USE DEF ManagerInv
<1>1. /\ Dispatching /\ events' = Tail(events) /\ events # << >>
      /\ UNCHANGED << build, table, interest, link, inbox, reset, m_Connections, m_Socket, m_Send, needremove, closing, pc >>
  BY DEF NextEvent, Dispatching, kernelVars
<1>2. BatchTypes' /\ Distinct' /\ FromBatch /\ Len(events') <= Len(events)
  BY <1>1, DroppedBatch DEF TypeOK, BatchTypes
<1> QED BY <1>1, <1>2, BatchKeeps, KernelTypes

LEMMA AcceptKeeps == ManagerInv /\ (AcceptFailed \/ AcceptRefused \/ AddConnectionFull) => ManagerInv'
<1> SUFFICES ASSUME ManagerInv, AcceptFailed \/ AcceptRefused \/ AddConnectionFull PROVE ManagerInv'
  OBVIOUS
<1> USE DEF ManagerInv
<1>1. /\ Dispatching /\ Event.fd = m_Socket /\ events # << >> /\ (NeedRemove \/ Handled("IN"))
      /\ UNCHANGED << build, table, interest, inbox, reset, m_Connections, m_Socket, m_Send, closing, pc >>
  BY DEF AcceptFailed, AcceptRefused, AddConnectionFull, Accepting, Dispatching
<1>2. Event.who \notin Clients
  BY <1>1, EventOwner, Names
<1>3. /\ \A b \in Clients : link[b] # "live" => link'[b] \in {"cut", link[b]}
      /\ \A b \in Clients : link[b] = "live" => link'[b] = "live"
      /\ link' \in [Clients -> {"idle", "queued", "live", "cut"}]
  <2>1. link' = link \/ \E c \in Queued : link' = Cut(c)
    BY DEF AcceptFailed, AcceptRefused, AddConnectionFull
  <2> QED BY <2>1, QueuedCut, KernelTypes
<1>4. BatchTypes' /\ Distinct' /\ FromBatch /\ Len(events') <= Len(events)
  BY <1>1, NeedRemoveBatch, HandledBatch DEF TypeOK, BatchTypes
<1> QED BY <1>1, <1>2, <1>3, <1>4, BatchKeeps

LEMMA FailedKeeps == ManagerInv /\ (ReadFailed \/ WriteFailed) => ManagerInv'
<1> SUFFICES ASSUME ManagerInv, ReadFailed \/ WriteFailed PROVE ManagerInv'
  OBVIOUS
<1> USE DEF ManagerInv
<1>1. /\ Dispatching /\ NeedRemove /\ events # << >>
      /\ UNCHANGED << build, table, interest, link, inbox, reset, m_Connections, m_Socket, m_Send, closing, pc >>
  BY DEF ReadFailed, WriteFailed, OnConnection, Dispatching, kernelVars
<1>2. Event.who \in Clients => Faulty(Event.who)
  <2> SUFFICES ASSUME Event.who \in Clients PROVE Faulty(Event.who)
    OBVIOUS
  <2>1. CASE WriteFailed
    BY <1>1, <2>1, EventOwner DEF WriteFailed, Faulty
  <2>2. CASE ReadFailed
    <3>1. "IN" \in Event.flags /\ ReadFails(Event.who)
      BY <1>1, <2>2, EventOwner DEF ReadFailed, OnConnection
    <3>2. Faulty(Event.who) \/ inbox[Event.who] = "data"
      BY <1>1, <3>1, EventOwner DEF Faults
    <3> QED BY <3>1, <3>2 DEF ReadFails, Faulty
  <2> QED BY <2>1, <2>2
<1>3. BatchTypes' /\ Distinct' /\ FromBatch /\ Len(events') <= Len(events)
  BY <1>1, NeedRemoveBatch DEF TypeOK, BatchTypes
<1> QED BY <1>1, <1>2, <1>3, BatchKeeps, KernelTypes

\* A connection nobody accepted has no descriptor.
LEMMA QueuedNowhere ==
    ASSUME ManagerInv, NEW c \in Clients, link[c] = "queued"
    PROVE  \A fd \in Fds : table[fd] # c
  BY Names DEF ManagerInv, Owned

LEMMA AddConnectionKeeps == ManagerInv /\ AddConnection => ManagerInv'
<1> SUFFICES ASSUME ManagerInv, AddConnection PROVE ManagerInv'
  OBVIOUS
<1> USE DEF ManagerInv
<1>1. /\ Dispatching /\ Event.fd = m_Socket /\ events # << >> /\ Handled("IN") /\ ~Full
      /\ UNCHANGED << build, inbox, reset, m_Socket, m_Send, closing, pc >>
  BY DEF AddConnection, Accepting, Dispatching
<1>2. PICK c \in Queued, fd \in NewFds, added \in BOOLEAN :
        /\ build = "windows" => added
        /\ table' = [table EXCEPT ![fd] = c]
        /\ link' = [link EXCEPT ![c] = "live"]
        /\ m_Connections' = Insert(fd, [who |-> c, sending |-> FALSE, added |-> added])
        /\ interest' = IF build = "windows" \/ ~added THEN interest
                       ELSE interest \cup {[who |-> c, fd |-> fd, out |-> FALSE]}
  BY DEF AddConnection
<1>3. c \in Clients /\ link[c] = "queued" /\ fd \in Fds /\ table[fd] = "free"
  BY DEF Queued, NewFds, FreeFds
<1>4. /\ table'[fd] = c /\ (\A o \in Fds \ {fd} : table'[o] = table[o]) /\ table' \in [Fds -> Owners]
      /\ link'[c] = "live" /\ (\A b \in Clients \ {c} : link'[b] = link[b])
      /\ link' \in [Clients -> {"idle", "queued", "live", "cut"}]
  BY <1>2, <1>3, KernelTypes DEF Owners
<1>5. fd \notin DOMAIN m_Connections
  BY <1>3, Names, KernelTypes DEF Owned
<1>6. /\ DOMAIN m_Connections' = DOMAIN m_Connections \cup {fd}
      /\ \A o \in DOMAIN m_Connections : m_Connections'[o] = m_Connections[o] /\ o # fd
      /\ m_Connections'[fd] = [who |-> c, sending |-> FALSE, added |-> added]
  <2>1. PICK n : n = [who |-> c, sending |-> FALSE, added |-> added]
    OBVIOUS
  <2>2. m_Connections' = Insert(fd, n)
    BY <1>2, <2>1
  <2>3. /\ DOMAIN Insert(fd, n) = DOMAIN m_Connections \cup {fd}
        /\ \A o \in DOMAIN m_Connections : Insert(fd, n)[o] = m_Connections[o]
        /\ Insert(fd, n)[fd] = n
    BY <1>5, Inserted, Zenon
  <2> QED BY <1>5, <2>1, <2>2, <2>3, Zenon
<1>7. \A o \in Fds : table[o] # c
  BY <1>3, QueuedNowhere, Zenon
<1>8. BatchTypes' /\ Distinct' /\ FromBatch /\ Len(events') = Len(events) /\ needremove' = needremove
  BY <1>1, HandledBatch DEF Handled
<1>9. closing = SOCKET_ERROR /\ pc = "dispatch"
  BY <1>1 DEF Phases, Dispatching
<1>10. TypeOK'
  <2>1. \A o \in DOMAIN m_Connections' : o \in Fds /\ m_Connections'[o] \in [who : Clients, sending : BOOLEAN, added : BOOLEAN]
    <3>1. m_Connections'[fd] \in [who : Clients, sending : BOOLEAN, added : BOOLEAN]
      BY <1>3, <1>6
    <3>2. \A o \in DOMAIN m_Connections : o \in Fds /\ m_Connections[o] \in [who : Clients, sending : BOOLEAN, added : BOOLEAN]
      BY DEF TypeOK
    <3> QED BY <1>3, <1>6, <3>1, <3>2
  <2>2. interest' \subseteq [who : {"listener"} \cup Clients, fd : Fds, out : BOOLEAN]
    <3>1. [who |-> c, fd |-> fd, out |-> FALSE] \in [who : {"listener"} \cup Clients, fd : Fds, out : BOOLEAN]
      BY <1>3
    <3>2. interest \subseteq [who : {"listener"} \cup Clients, fd : Fds, out : BOOLEAN]
      BY DEF TypeOK
    <3> QED BY <1>2, <3>1, <3>2
  <2> QED BY <1>1, <1>4, <1>8, <2>1, <2>2 DEF TypeOK, BatchTypes, EventSet, RemoveSet, Sockets
<1>11. Owned'
  <2>1. \A o \in DOMAIN m_Connections' : table'[o] = m_Connections'[o].who
    BY <1>4, <1>6, KernelTypes DEF Owned
  <2>2. \A o \in Fds : table'[o] \in Clients => o \in DOMAIN m_Connections' \cup {closing'}
    BY <1>1, <1>4, <1>6 DEF Owned
  <2>3. \A o \in Fds : table'[o] = "listener" <=> o = m_Socket'
    BY <1>1, <1>3, <1>4, Names DEF Owned
  <2>4. \A o, u \in Fds : table'[o] \in Clients /\ table'[o] = table'[u] => o = u
    BY <1>4, <1>7 DEF Owned
  <2>5. \A o \in Fds : table'[o] \in Clients => link'[table'[o]] = "live"
    BY <1>4, <1>7 DEF Owned
  <2>6. \A b \in Clients : link'[b] = "live" => \E o \in Fds : table'[o] = b
    <3> SUFFICES ASSUME NEW b \in Clients, link'[b] = "live" PROVE \E o \in Fds : table'[o] = b
      OBVIOUS
    <3>1. CASE b = c
      BY <1>3, <1>4, <3>1
    <3>2. CASE b # c
      <4>1. PICK o \in Fds : table[o] = b
        BY <1>4, <3>2 DEF Owned
      <4> QED BY <1>3, <1>4, <4>1, Names
    <3> QED BY <3>1, <3>2
  <2>7. \A b \in Clients : link'[b] = "queued" => m_Socket' # SOCKET_ERROR
    BY <1>1, <1>4 DEF Owned
  <2>8. m_Send' # SOCKET_ERROR => table'[m_Send'] = "bridge"
    BY <1>1, <1>3, <1>4, KernelTypes DEF Owned
  <2> QED BY <2>1, <2>2, <2>3, <2>4, <2>5, <2>6, <2>7, <2>8 DEF Owned
<1>12. Registered'
  <2>1. PICK n : n = [who |-> c, fd |-> fd, out |-> FALSE]
    OBVIOUS
  <2>2. n.who = c /\ n.fd = fd /\ n.out = FALSE /\ interest' = IF build = "windows" \/ ~added THEN interest ELSE interest \cup {n}
    BY <1>2, <2>1
  <2>3. \A r \in interest : r.fd \in Fds /\ r.fd # fd /\ table'[r.fd] = r.who
    BY <1>3, <1>4, KernelTypes, Names DEF Registered, Sockets
  <2>4. \A r \in interest' : table'[r.fd] = r.who /\ (r.who = "listener" => r.out = FALSE)
    BY <1>4, <2>2, <2>3 DEF Registered
  <2>5. \A r, s \in interest' : r.fd = s.fd => r = s
    BY <2>2, <2>3 DEF Registered
  <2>6. build = "linux" => \A o \in DOMAIN m_Connections' : m_Connections'[o].added =>
          [who |-> table'[o], fd |-> o, out |-> m_Connections'[o].sending] \in interest'
    <3> SUFFICES ASSUME build = "linux", NEW o \in DOMAIN m_Connections', m_Connections'[o].added
                 PROVE  [who |-> table'[o], fd |-> o, out |-> m_Connections'[o].sending] \in interest'
      OBVIOUS
    <3>1. CASE o = fd
      <4>1. m_Connections'[fd].sending = FALSE /\ m_Connections'[fd].added = added
        BY <1>6
      <4>2. n \in interest'
        BY <2>2, <3>1, <4>1
      <4> QED BY <1>4, <2>1, <3>1, <4>1, <4>2
    <3>2. CASE o # fd
      <4>1. o \in DOMAIN m_Connections /\ m_Connections'[o] = m_Connections[o]
        BY <1>6, <3>2
      <4>2. table'[o] = table[o]
        BY <1>4, <3>2, <4>1, KernelTypes
      <4>3. [who |-> table[o], fd |-> o, out |-> m_Connections[o].sending] \in interest
        BY <4>1 DEF Registered
      <4> QED BY <2>2, <4>1, <4>2, <4>3
    <3> QED BY <3>1, <3>2
  <2>7. build = "windows" => interest' = {}
    BY <2>2 DEF Registered
  <2>8. ASSUME NEW o \in DOMAIN m_Connections', ~m_Connections'[o].added
        PROVE  build = "linux" /\ \A r \in interest' : r.fd # o
    <3>1. CASE o = fd
      <4>1. ~added
        BY <1>6, <2>8, <3>1
      <4>2. build = "linux"
        BY <1>2, <4>1, KernelTypes
      <4> QED BY <2>2, <2>3, <3>1, <4>1, <4>2
    <3>2. CASE o # fd
      <4>1. o \in DOMAIN m_Connections /\ m_Connections'[o] = m_Connections[o]
        BY <1>6, <3>2
      <4>2. build = "linux" /\ \A r \in interest : r.fd # o
        BY <2>8, <4>1 DEF Registered
      <4> QED BY <2>2, <3>2, <4>2
    <3> QED BY <3>1, <3>2
  <2> QED BY <1>1, <2>4, <2>5, <2>6, <2>7, <2>8 DEF Registered
<1>13. EventsCurrent'
  <2>1. \A o \in Fds : table[o] \in Sockets => table'[o] = table[o]
    BY <1>3, <1>4, Names DEF Sockets
  <2> QED BY <1>8, <2>1, Elements DEF EventsCurrent, FromBatch
<1>14. Phases'
  BY <1>1, <1>9 DEF Phases
<1>15. Faults'
  <2>1. \A b : Faulty(b)' = Faulty(b)
    BY <1>1 DEF Faulty
  <2> QED BY <1>1, <1>8, <1>9, <2>1 DEF Faults, FromBatch
<1>16. Room'
  <2>1. IsFiniteSet(DOMAIN m_Connections') /\ Cardinality(DOMAIN m_Connections') = Cardinality(DOMAIN m_Connections) + 1
    BY <1>5, <1>6, FS_AddElement DEF Room
  <2>2. Cardinality(DOMAIN m_Connections) \in Nat
    BY FS_CardinalityType DEF Room
  <2> QED BY <1>1, <1>8, <2>1, <2>2, Names DEF Room, Full
<1> QED BY <1>8, <1>10, <1>11, <1>12, <1>13, <1>14, <1>15, <1>16

\* UpdateConnectionSend changes the entry and the registration of one connection, together.
LEMMA SendingSet ==
    ASSUME ManagerInv, NEW fd \in DOMAIN m_Connections, NEW sending \in BOOLEAN, SetSending(fd, sending),
           UNCHANGED << build, table >>
    PROVE  /\ Registered'
           /\ interest' \subseteq [who : {"listener"} \cup Clients, fd : Fds, out : BOOLEAN]
           /\ DOMAIN m_Connections' = DOMAIN m_Connections
           /\ \A o \in DOMAIN m_Connections : /\ m_Connections'[o] \in [who : Clients, sending : BOOLEAN, added : BOOLEAN]
                                              /\ m_Connections'[o].who = m_Connections[o].who
<1> USE DEF ManagerInv
<1> DEFINE New(r) == IF r.who = table[fd] THEN [r EXCEPT !.out = sending] ELSE r
<1>1. interest' = {New(r) : r \in interest}
  BY DEF SetSending
<1>2. fd \in Fds /\ table[fd] \in Clients
  BY KernelTypes DEF Owned
<1>3. \A r \in interest : /\ New(r).who = r.who /\ New(r).fd = r.fd
                          /\ New(r) \in [who : {"listener"} \cup Clients, fd : Fds, out : BOOLEAN]
                          /\ New(r) = [who |-> r.who, fd |-> r.fd, out |-> IF r.who = table[fd] THEN sending ELSE r.out]
  BY KernelTypes DEF Sockets
<1>4. /\ m_Connections' = [m_Connections EXCEPT ![fd] = [@ EXCEPT !.sending = sending]]
      /\ DOMAIN m_Connections' = DOMAIN m_Connections
  BY DEF SetSending
<1>5. \A o \in DOMAIN m_Connections :
         /\ m_Connections'[o] \in [who : Clients, sending : BOOLEAN, added : BOOLEAN]
         /\ m_Connections'[o].who = m_Connections[o].who
         /\ m_Connections'[o].sending = IF o = fd THEN sending ELSE m_Connections[o].sending
         /\ m_Connections'[o].added = m_Connections[o].added
  BY <1>4, KernelTypes
<1>6. Registered'
  <2>1. build' = "linux" => \A o \in DOMAIN m_Connections' : m_Connections'[o].added =>
          [who |-> table'[o], fd |-> o, out |-> m_Connections'[o].sending] \in interest'
    <3> SUFFICES ASSUME build = "linux", NEW o \in DOMAIN m_Connections, m_Connections[o].added
                 PROVE  [who |-> table[o], fd |-> o, out |-> m_Connections'[o].sending] \in interest'
      BY <1>4, <1>5
    <3>1. PICK r \in interest : r = [who |-> table[o], fd |-> o, out |-> m_Connections[o].sending]
      BY DEF Registered
    <3>2. r.who = table[o] /\ r.fd = o /\ r.out = m_Connections[o].sending
      BY <3>1
    <3>3. table[o] = table[fd] <=> o = fd
      BY <1>2, KernelTypes DEF Owned
    <3>4. New(r) = [who |-> table[o], fd |-> o, out |-> m_Connections'[o].sending]
      BY <1>3, <1>5, <3>2, <3>3
    <3> HIDE DEF New
    <3> QED BY <1>1, <3>1, <3>4
  <2>2. \A r \in interest' : table'[r.fd] = r.who /\ (r.who = "listener" => r.out = FALSE)
    <3> SUFFICES ASSUME NEW r \in interest
                 PROVE  table'[New(r).fd] = New(r).who /\ (New(r).who = "listener" => New(r).out = FALSE)
      BY <1>1
    <3>1. r.who = "listener" => New(r) = r
      BY <1>2, Names
    <3> HIDE DEF New
    <3> QED BY <1>3, <3>1 DEF Registered
  <2>3. \A r, s \in interest' : r.fd = s.fd => r = s
    <3> HIDE DEF New
    <3> QED BY <1>1, <1>3 DEF Registered
  <2>4. build' = "windows" => interest' = {}
    BY <1>1 DEF Registered
  <2>5. ASSUME NEW o \in DOMAIN m_Connections', ~m_Connections'[o].added
        PROVE  build' = "linux" /\ \A r \in interest' : r.fd # o
    <3>1. build = "linux" /\ \A r \in interest : r.fd # o
      BY <1>4, <1>5, <2>5 DEF Registered
    <3> HIDE DEF New
    <3> QED BY <1>1, <1>3, <3>1
  <2> QED BY <2>1, <2>2, <2>3, <2>4, <2>5 DEF Registered
<1>7. interest' \subseteq [who : {"listener"} \cup Clients, fd : Fds, out : BOOLEAN]
  <2> HIDE DEF New
  <2> QED BY <1>1, <1>3
<1> QED BY <1>4, <1>5, <1>6, <1>7

\* The connection an event finds in the map is the one the event is about.
LEMMA OnConnectionOwner ==
    ASSUME ManagerInv, NEW flag, OnConnection(flag)
    PROVE  /\ Dispatching /\ events # << >>
           /\ Event.fd \in DOMAIN m_Connections /\ table[Event.fd] = Event.who /\ Event.who \in Clients
<1>1. Dispatching /\ Event.fd \in DOMAIN m_Connections
  BY DEF OnConnection
<1>2. m_Connections[Event.fd].who \in Clients /\ table[Event.fd] = m_Connections[Event.fd].who
  BY <1>1, KernelTypes DEF ManagerInv, Owned
<1> QED BY <1>1, <1>2, EventOwner

\* A flag of the event at the head has been handled; a connection may be registered anew.
LEMMA SentOrReceived ==
    ASSUME ManagerInv, NEW flag, OnConnection(flag), Handled(flag),
           NEW sending \in BOOLEAN, SetSending(Event.fd, sending),
           inbox' \in [Clients -> {"quiet", "data", "bad", "fin"}],
           inbox' = inbox \/ (flag = "IN" /\ inbox[Event.who] = "data" /\ \A c \in Clients : c # Event.who => inbox'[c] = inbox[c]),
           UNCHANGED << build, table, link, reset, m_Socket, m_Send, closing, pc >>
    PROVE  ManagerInv'
<1> USE DEF ManagerInv
<1>1. /\ Dispatching /\ events # << >>
      /\ Event.fd \in DOMAIN m_Connections /\ table[Event.fd] = Event.who /\ Event.who \in Clients
  BY OnConnectionOwner
<1>2. /\ Registered'
      /\ interest' \subseteq [who : {"listener"} \cup Clients, fd : Fds, out : BOOLEAN]
      /\ DOMAIN m_Connections' = DOMAIN m_Connections
      /\ \A o \in DOMAIN m_Connections : /\ m_Connections'[o] \in [who : Clients, sending : BOOLEAN, added : BOOLEAN]
                                         /\ m_Connections'[o].who = m_Connections[o].who
  BY <1>1, SendingSet
<1>3. /\ BatchTypes' /\ Distinct' /\ FromBatch /\ Len(events') = Len(events) /\ needremove' = needremove
      /\ \A i \in DOMAIN events' :
           /\ i \in DOMAIN events
           /\ events'[i].who = events[i].who
           /\ events'[i].flags \subseteq events[i].flags
           /\ i = 1 => flag \notin events'[i].flags
  BY <1>1, HandledBatch
<1>4. TypeOK'
  BY <1>2, <1>3 DEF TypeOK, BatchTypes, EventSet, RemoveSet, Sockets
<1>5. Owned'
  BY <1>2, KernelTypes DEF Owned
<1>6. EventsCurrent'
  BY <1>3 DEF EventsCurrent, FromBatch
<1>7. Phases'
  BY <1>1, <1>2 DEF Phases, Dispatching
<1>8. \A c \in Clients : Faulty(c) => Faulty(c)'
  BY <1>1 DEF Faulty
<1>9. Faults'
  <2>1. ASSUME NEW i \in DOMAIN events', events'[i].who \in Clients, "IN" \in events'[i].flags
        PROVE  Faulty(events[i].who)' \/ inbox'[events'[i].who] = "data"
    <3>1. i \in DOMAIN events /\ events'[i].who = events[i].who /\ "IN" \in events[i].flags
      BY <1>3, <2>1
    <3>2. Faulty(events[i].who) \/ inbox[events[i].who] = "data"
      BY <2>1, <3>1 DEF Faults
    <3>3. CASE inbox' = inbox
      BY <1>8, <2>1, <3>1, <3>2, <3>3
    <3>4. CASE flag = "IN" /\ \A c \in Clients : c # Event.who => inbox'[c] = inbox[c]
      <4>1. i # 1
        BY <1>3, <2>1, <3>4
      <4>2. events[i].fd # Event.fd /\ events[i].fd \in Fds /\ Event.fd \in Fds
        BY <1>1, <3>1, <4>1, EventOwner, Elements DEF Distinct
      <4>3. table[events[i].fd] = events[i].who
        BY <3>1 DEF EventsCurrent
      <4>4. events[i].who # Event.who
        BY <1>1, <4>2, <4>3 DEF Owned
      <4> QED BY <1>8, <2>1, <3>1, <3>2, <3>4, <4>4
    <3> QED BY <3>3, <3>4
  <2>2. \A i \in DOMAIN needremove' : needremove'[i].who \in Clients => Faulty(needremove[i].who)'
    BY <1>3, <1>8 DEF Faults
  <2>3. \A i \in DOMAIN events' : /\ events'[i].who \in Clients /\ "ERR" \in events'[i].flags => reset'[events'[i].who]
                                  /\ events'[i].who = "listener" => "ERR" \notin events'[i].flags
    BY <1>3 DEF Faults
  <2> QED BY <1>1, <2>1, <2>2, <2>3 DEF Faults, Dispatching
<1>10. Room'
  BY <1>2, <1>3 DEF Room
<1> QED BY <1>2, <1>3, <1>4, <1>5, <1>6, <1>7, <1>9, <1>10

LEMMA DoneKeeps == ManagerInv /\ (ReadDone \/ WriteDone) => ManagerInv'
<1>1. ASSUME ManagerInv, ReadDone PROVE ManagerInv'
  <2>1. OnConnection("IN") /\ Handled("IN") /\ UNCHANGED << build, table, link, reset, m_Socket, m_Send, closing, pc >>
    BY <1>1 DEF ReadDone
  <2>2. PICK sending \in BOOLEAN : SetSending(Event.fd, sending)
    BY <1>1 DEF ReadDone
  <2>3. table[Event.fd] = Event.who /\ Event.who \in Clients
    BY <1>1, <2>1, OnConnectionOwner
  <2>4. PICK rest \in {"quiet", "data", "bad", "fin"} :
          inbox[Event.who] = "data" /\ inbox' = [inbox EXCEPT ![Event.who] = rest]
    BY <1>1, <2>3 DEF ReadDone
  <2>5. inbox \in [Clients -> {"quiet", "data", "bad", "fin"}]
    BY <1>1, KernelTypes DEF ManagerInv
  <2>6. /\ inbox' \in [Clients -> {"quiet", "data", "bad", "fin"}]
        /\ \A c \in Clients : c # Event.who => inbox'[c] = inbox[c]
    BY <2>3, <2>4, <2>5
  <2> QED BY <1>1, <2>1, <2>2, <2>4, <2>6, SentOrReceived
<1>2. ASSUME ManagerInv, WriteDone PROVE ManagerInv'
  <2>1. /\ OnConnection("OUT") /\ Handled("OUT")
        /\ UNCHANGED << build, table, link, inbox, reset, m_Socket, m_Send, closing, pc >>
    BY <1>2 DEF WriteDone
  <2>2. PICK sending \in BOOLEAN : SetSending(Event.fd, sending)
    BY <1>2 DEF WriteDone
  <2>3. inbox' \in [Clients -> {"quiet", "data", "bad", "fin"}]
    BY <1>2, <2>1, KernelTypes DEF ManagerInv
  <2> QED BY <1>2, <2>1, <2>2, <2>3, SentOrReceived
<1> QED BY <1>1, <1>2

\* The socket at the head of needremove is one of the manager's, and still the same.
LEMMA DoomedOwner ==
    ASSUME ManagerInv, Removing
    PROVE  /\ Doomed \in Fds /\ table[Doomed] \in Sockets
           /\ table[Doomed] \in Clients => Doomed \in DOMAIN m_Connections /\ Faulty(table[Doomed])
           /\ table[Doomed] = "listener" <=> Doomed = m_Socket
           /\ needremove # << >> /\ Tail(needremove) \in Seq(RemoveSet)
           /\ \A i \in DOMAIN Tail(needremove) :
                /\ Tail(needremove)[i].fd # Doomed /\ Tail(needremove)[i].fd \in Fds
                /\ table[Tail(needremove)[i].fd] = Tail(needremove)[i].who
                /\ Tail(needremove)[i].who \in Sockets
                /\ Tail(needremove)[i].who \in Clients => Faulty(Tail(needremove)[i].who)
           /\ \A i, j \in DOMAIN Tail(needremove) : Tail(needremove)[i].fd = Tail(needremove)[j].fd => i = j
<1> USE DEF ManagerInv
<1>1. needremove # << >> /\ pc = "dispatch"
  BY DEF Removing
<1>2. /\ 1 \in DOMAIN needremove /\ Doomed = needremove[1].fd /\ Doomed \in Fds
      /\ Tail(needremove) \in Seq(RemoveSet)
      /\ \A i \in DOMAIN Tail(needremove) :
           i + 1 \in DOMAIN needremove /\ i + 1 # 1 /\ Tail(needremove)[i] = needremove[i + 1]
  BY <1>1, Doomeds
<1>3. table[Doomed] = needremove[1].who /\ needremove[1].who \in Sockets
  BY <1>2, Elements DEF EventsCurrent
<1>4. closing = SOCKET_ERROR
  BY <1>1 DEF Phases
<1>5. \A i \in DOMAIN Tail(needremove) :
                /\ Tail(needremove)[i].fd # Doomed /\ Tail(needremove)[i].fd \in Fds
                /\ table[Tail(needremove)[i].fd] = Tail(needremove)[i].who
                /\ Tail(needremove)[i].who \in Sockets
                /\ Tail(needremove)[i].who \in Clients => Faulty(Tail(needremove)[i].who)
  BY <1>2, Elements DEF Distinct, EventsCurrent, Faults
<1>6. \A i, j \in DOMAIN Tail(needremove) : Tail(needremove)[i].fd = Tail(needremove)[j].fd => i = j
  <2>1. \A i \in DOMAIN Tail(needremove) : i \in Int
    BY <1>2
  <2> QED BY <1>2, <2>1 DEF Distinct
<1> QED BY <1>1, <1>2, <1>3, <1>4, <1>5, <1>6, Names DEF Owned, Faults

(***************************************************************************)
(* One socket of the manager is closed: its descriptor becomes free, its   *)
(* registration and its entry in the map go, and its connection is cut, as *)
(* are the queued ones with the listener.  What is left of the batch is    *)
(* about other sockets.                                                    *)
(***************************************************************************)
LEMMA SocketClosed ==
    ASSUME ManagerInv, NEW fd \in Fds, table[fd] \in Sockets,
           table' = [table EXCEPT ![fd] = "free"],
           interest' = Unregister(table[fd]),
           DOMAIN m_Connections' = DOMAIN m_Connections \ {fd},
           \A o \in DOMAIN m_Connections' : m_Connections'[o] = m_Connections[o],
           \/ table[fd] = "listener" /\ m_Socket' = SOCKET_ERROR /\ link' = CutQueued
           \/ table[fd] \in Clients /\ UNCHANGED m_Socket /\ link' = Cut(table[fd]),
           closing' = SOCKET_ERROR,
           closing \in {fd, SOCKET_ERROR},
           \A i \in DOMAIN events : events[i].fd # fd,
           \A i \in DOMAIN needremove' : needremove'[i].fd # fd,
           \A i \in DOMAIN needremove' : table[needremove'[i].fd] = needremove'[i].who,
           needremove' \in Seq(RemoveSet), pc' \in {"dispatch", "delete"},
           UNCHANGED << build, inbox, reset, m_Send, events >>
    PROVE  TypeOK' /\ Owned' /\ Registered' /\ EventsCurrent' /\ Room'
<1> USE DEF ManagerInv
<1>1. table'[fd] = "free" /\ (\A o \in Fds \ {fd} : table'[o] = table[o]) /\ table' \in [Fds -> Owners]
  BY KernelTypes DEF Owners
<1>2. /\ link' \in [Clients -> {"idle", "queued", "live", "cut"}]
      /\ \A c \in Clients : link'[c] \in {"cut", link[c]}
      /\ \A c \in Clients : c # table[fd] /\ link[c] = "live" => link'[c] = "live"
      /\ table[fd] \in Clients => link'[table[fd]] = "cut"
      /\ table[fd] = "listener" => \A c \in Clients : link'[c] # "queued"
  BY KernelTypes, Names DEF CutQueued, Cut
<1>3. \A o \in Fds \ {fd} : table[o] \in Clients => table[o] # table[fd]
  BY DEF Owned
<1>4. interest' \subseteq interest /\ \A r \in interest' : r.who # table[fd]
  BY DEF Unregister
<1>5. TypeOK'
  <2>1. \A o \in DOMAIN m_Connections' : o \in Fds /\ m_Connections'[o] \in [who : Clients, sending : BOOLEAN, added : BOOLEAN]
    BY DEF TypeOK
  <2>2. interest' \subseteq [who : {"listener"} \cup Clients, fd : Fds, out : BOOLEAN]
    BY <1>4 DEF TypeOK
  <2>3. {m_Socket', m_Send', closing'} \subseteq Fds \cup {SOCKET_ERROR}
    BY KernelTypes
  <2> QED BY <1>1, <1>2, <2>1, <2>2, <2>3 DEF TypeOK, RemoveSet, Sockets
<1>6. Owned'
  <2>1. \A o \in DOMAIN m_Connections' : table'[o] = m_Connections'[o].who
    BY <1>1, KernelTypes DEF Owned
  <2>2. \A o \in Fds : table'[o] \in Clients => o \in DOMAIN m_Connections' \cup {closing'}
    <3> SUFFICES ASSUME NEW o \in Fds, table'[o] \in Clients PROVE o \in DOMAIN m_Connections'
      OBVIOUS
    <3>1. o # fd /\ table[o] \in Clients
      BY <1>1, Names
    <3>2. o # closing
      BY <3>1, Names
    <3> QED BY <3>1, <3>2 DEF Owned
  <2>3. \A o \in Fds : table'[o] = "listener" <=> o = m_Socket'
    BY <1>1, Names DEF Owned
  <2>4. \A o, u \in Fds : table'[o] \in Clients /\ table'[o] = table'[u] => o = u
    BY <1>1, Names DEF Owned
  <2>5. \A o \in Fds : table'[o] \in Clients => link'[table'[o]] = "live"
    BY <1>1, <1>2, <1>3, Names DEF Owned
  <2>6. \A c \in Clients : link'[c] = "live" => \E o \in Fds : table'[o] = c
    <3> SUFFICES ASSUME NEW c \in Clients, link'[c] = "live" PROVE \E o \in Fds : table'[o] = c
      OBVIOUS
    <3>1. link[c] = "live" /\ c # table[fd]
      BY <1>2
    <3>2. PICK o \in Fds : table[o] = c
      BY <3>1 DEF Owned
    <3> QED BY <1>1, <3>1, <3>2
  <2>7. \A c \in Clients : link'[c] = "queued" => m_Socket' # SOCKET_ERROR
    BY <1>2 DEF Owned
  <2>8. m_Send' # SOCKET_ERROR => table'[m_Send'] = "bridge"
    BY <1>1, KernelTypes, Names DEF Owned, Sockets
  <2> QED BY <2>1, <2>2, <2>3, <2>4, <2>5, <2>6, <2>7, <2>8 DEF Owned
<1>7. Registered'
  <2>1. build' = "linux" => \A o \in DOMAIN m_Connections' : m_Connections'[o].added =>
          [who |-> table'[o], fd |-> o, out |-> m_Connections'[o].sending] \in interest'
    <3> SUFFICES ASSUME build = "linux", NEW o \in DOMAIN m_Connections', m_Connections'[o].added
                 PROVE  [who |-> table'[o], fd |-> o, out |-> m_Connections'[o].sending] \in interest'
      OBVIOUS
    <3>1. o \in DOMAIN m_Connections /\ o \in Fds /\ o # fd /\ table'[o] = table[o] /\ m_Connections'[o] = m_Connections[o]
      BY <1>1, KernelTypes
    <3>2. table[o] # table[fd]
      BY <1>3, <3>1, KernelTypes DEF Owned
    <3>3. PICK r \in interest : r = [who |-> table[o], fd |-> o, out |-> m_Connections[o].sending]
      BY <3>1 DEF Registered
    <3>4. r.who # table[fd]
      BY <3>2, <3>3
    <3>5. r \in interest'
      BY <3>4 DEF Unregister
    <3> QED BY <3>1, <3>3, <3>5
  <2>2. \A r \in interest' : table'[r.fd] = r.who /\ (r.who = "listener" => r.out = FALSE)
    BY <1>1, <1>4, KernelTypes DEF Registered
  <2>3. \A r, s \in interest' : r.fd = s.fd => r = s
    BY <1>4 DEF Registered
  <2>4. build' = "windows" => interest' = {}
    BY <1>4 DEF Registered
  <2>5. \A o \in DOMAIN m_Connections' : ~m_Connections'[o].added =>
          build' = "linux" /\ \A r \in interest' : r.fd # o
    BY <1>1, <1>4 DEF Registered
  <2> QED BY <2>1, <2>2, <2>3, <2>4, <2>5 DEF Registered
<1>8. EventsCurrent'
  <2>1. \A i \in DOMAIN events : table'[events[i].fd] = events[i].who
    BY <1>1, Elements DEF EventsCurrent
  <2>2. \A i \in DOMAIN needremove' : needremove'[i].fd \in Fds
    <3>1. \A i \in DOMAIN needremove' : needremove'[i] \in RemoveSet
      OBVIOUS
    <3> QED BY <3>1 DEF RemoveSet
  <2>3. \A i \in DOMAIN needremove' : table'[needremove'[i].fd] = needremove'[i].who
    BY <1>1, <2>2
  <2> QED BY <2>1, <2>3 DEF EventsCurrent
<1>9. Room'
  <2>1. IsFiniteSet(DOMAIN m_Connections') /\ Cardinality(DOMAIN m_Connections') <= Cardinality(DOMAIN m_Connections)
    BY FS_Subset DEF Room
  <2>2. Cardinality(DOMAIN m_Connections) \in Nat /\ Cardinality(DOMAIN m_Connections') \in Nat
    BY <2>1, FS_CardinalityType DEF Room
  <2> QED BY <2>1, <2>2, Names DEF Room
<1> QED BY <1>5, <1>6, <1>7, <1>8, <1>9

LEMMA CloseListenerKeeps == ManagerInv /\ CloseListener => ManagerInv'
<1> SUFFICES ASSUME ManagerInv, CloseListener PROVE ManagerInv'
  OBVIOUS
<1> USE DEF ManagerInv
<1>1. /\ Removing /\ Doomed = m_Socket /\ pc = "dispatch" /\ events = << >> /\ closing = SOCKET_ERROR
      /\ DOMAIN events = {}
  BY DEF CloseListener, Removing, Phases
<1>2. /\ table' = [table EXCEPT ![Doomed] = "free"] /\ m_Socket' = SOCKET_ERROR
      /\ interest' = Unregister(table[Doomed]) /\ link' = CutQueued /\ needremove' = Tail(needremove)
      /\ UNCHANGED << build, inbox, reset, m_Connections, m_Send, events, closing, pc >>
  BY <1>1 DEF CloseListener, EpollDel
<1>3. Doomed \in Fds /\ table[Doomed] = "listener" /\ Doomed \notin DOMAIN m_Connections
  BY <1>1, DoomedOwner, KernelTypes, Names DEF Owned
<1>4. TypeOK' /\ Owned' /\ Registered' /\ EventsCurrent' /\ Room'
  <2>1. /\ needremove' \in Seq(RemoveSet)
        /\ \A i \in DOMAIN needremove' : needremove'[i].fd # Doomed /\ table[needremove'[i].fd] = needremove'[i].who
    BY <1>1, <1>2, DoomedOwner
  <2>2. DOMAIN m_Connections' = DOMAIN m_Connections \ {Doomed}
    BY <1>2, <1>3
  <2>3. table[Doomed] \in Sockets /\ closing' = SOCKET_ERROR /\ closing \in {Doomed, SOCKET_ERROR}
    BY <1>1, <1>2, <1>3 DEF Sockets
  <2> QED BY <1>1, <1>2, <1>3, <2>1, <2>2, <2>3, SocketClosed
<1>5. Distinct'
  BY <1>1, <1>2, DoomedOwner DEF Distinct
<1>6. Phases'
  BY <1>1, <1>2 DEF Phases
<1>7. Faults'
  <2>1. \A c : Faulty(c)' = Faulty(c)
    BY <1>2 DEF Faulty
  <2> QED BY <1>1, <1>2, <2>1, DoomedOwner DEF Faults
<1> QED BY <1>4, <1>5, <1>6, <1>7

LEMMA CloseConnectionKeeps == ManagerInv /\ CloseConnection => ManagerInv'
<1> SUFFICES ASSUME ManagerInv, CloseConnection PROVE ManagerInv'
  OBVIOUS
<1> USE DEF ManagerInv
<1>1. /\ Removing /\ Doomed \in DOMAIN m_Connections /\ pc = "dispatch" /\ events = << >> /\ closing = SOCKET_ERROR
      /\ DOMAIN events = {}
  BY DEF CloseConnection, Removing, Phases
<1>2. /\ closing' = Doomed /\ pc' = "close" /\ m_Connections' = Erase(Doomed)
      /\ interest' = Unregister(table[Doomed]) /\ needremove' = Tail(needremove)
      /\ UNCHANGED << build, link, inbox, reset, m_Socket, m_Send, events >>
  BY DEF CloseConnection, EpollDel
<1>3. table' = table
  <2>1. table' = [fd \in Fds |-> IF fd = SOCKET_ERROR THEN "free" ELSE table[fd]]
    BY DEF CloseConnection, SocketOfDeleted
  <2> QED BY <2>1, KernelTypes, Names
<1>4. Doomed \in Fds /\ table[Doomed] \in Clients /\ Faulty(table[Doomed])
  BY <1>1, DoomedOwner, KernelTypes DEF Owned
<1>5. /\ DOMAIN m_Connections' = DOMAIN m_Connections \ {Doomed}
      /\ \A fd \in DOMAIN m_Connections' : m_Connections'[fd] = m_Connections[fd]
  BY <1>2, Erased
<1>6. TypeOK'
  <2>1. \A o \in DOMAIN m_Connections' : o \in Fds /\ m_Connections'[o] \in [who : Clients, sending : BOOLEAN, added : BOOLEAN]
    BY <1>5 DEF TypeOK
  <2>2. interest' \subseteq [who : {"listener"} \cup Clients, fd : Fds, out : BOOLEAN]
    BY <1>2 DEF TypeOK, Unregister
  <2>3. needremove' \in Seq(RemoveSet)
    BY <1>1, <1>2, DoomedOwner
  <2> QED BY <1>2, <1>3, <1>4, <2>1, <2>2, <2>3 DEF TypeOK, RemoveSet, Sockets
<1>7. Owned'
  <2>1. \A fd \in Fds : table'[fd] \in Clients => fd \in DOMAIN m_Connections' \cup {closing'}
    BY <1>1, <1>2, <1>3, <1>5, Names DEF Owned
  <2>2. \A fd \in DOMAIN m_Connections' : table'[fd] = m_Connections'[fd].who
    BY <1>3, <1>5 DEF Owned
  <2> QED BY <1>2, <1>3, <2>1, <2>2 DEF Owned
<1>8. Registered'
  <2>1. interest' \subseteq interest
    BY <1>2 DEF Unregister
  <2>2. build' = "linux" => \A o \in DOMAIN m_Connections' : m_Connections'[o].added =>
          [who |-> table'[o], fd |-> o, out |-> m_Connections'[o].sending] \in interest'
    <3> SUFFICES ASSUME build = "linux", NEW o \in DOMAIN m_Connections', m_Connections[o].added
                 PROVE  [who |-> table[o], fd |-> o, out |-> m_Connections[o].sending] \in interest'
      BY <1>2, <1>3, <1>5
    <3>1. o \in DOMAIN m_Connections /\ o \in Fds /\ o # Doomed
      BY <1>5, KernelTypes
    <3>2. table[o] # table[Doomed]
      BY <1>4, <3>1 DEF Owned
    <3>3. PICK r \in interest : r = [who |-> table[o], fd |-> o, out |-> m_Connections[o].sending]
      BY <3>1 DEF Registered
    <3>4. r.who # table[Doomed]
      BY <3>2, <3>3
    <3> QED BY <1>2, <3>3, <3>4 DEF Unregister
  <2>3. \A o \in DOMAIN m_Connections' : ~m_Connections'[o].added =>
          build' = "linux" /\ \A r \in interest' : r.fd # o
    BY <1>2, <1>5, <2>1 DEF Registered
  <2> QED BY <1>2, <1>3, <2>1, <2>2, <2>3 DEF Registered
<1>9. Distinct'
  BY <1>1, <1>2, DoomedOwner DEF Distinct
<1>10. EventsCurrent'
  BY <1>1, <1>2, <1>3, DoomedOwner DEF EventsCurrent
<1>11. Phases'
  BY <1>1, <1>2, <1>3, <1>4, <1>5, DoomedOwner DEF Phases
<1>12. Faults'
  <2>1. \A c : Faulty(c)' = Faulty(c)
    BY <1>2 DEF Faulty
  <2> QED BY <1>1, <1>2, <1>3, <1>4, <2>1, DoomedOwner DEF Faults
<1>13. Room'
  <2>1. IsFiniteSet(DOMAIN m_Connections') /\ Cardinality(DOMAIN m_Connections') <= Cardinality(DOMAIN m_Connections)
    BY <1>5, FS_Subset DEF Room
  <2>2. Cardinality(DOMAIN m_Connections) \in Nat /\ Cardinality(DOMAIN m_Connections') \in Nat
    BY <2>1, FS_CardinalityType DEF Room
  <2> QED BY <1>2, <2>1, <2>2, Names DEF Room
<1> QED BY <1>6, <1>7, <1>8, <1>9, <1>10, <1>11, <1>12, <1>13

LEMMA CloseSocketKeeps == ManagerInv /\ CloseSocket => ManagerInv'
<1> SUFFICES ASSUME ManagerInv, CloseSocket PROVE ManagerInv'
  OBVIOUS
<1> USE DEF ManagerInv
<1>1. /\ pc = "close" /\ pc' = "dispatch" /\ closing' = SOCKET_ERROR
      /\ table' = [table EXCEPT ![closing] = "free"] /\ interest' = Unregister(table[closing])
      /\ link' = Cut(table[closing])
      /\ UNCHANGED << build, inbox, reset, m_Connections, m_Socket, m_Send, events, needremove >>
  BY DEF CloseSocket
<1>2. /\ closing \in Fds /\ table[closing] \in Clients /\ closing \notin DOMAIN m_Connections
      /\ events = << >> /\ DOMAIN events = {}
      /\ \A i \in DOMAIN needremove : needremove[i].fd # closing
  BY <1>1 DEF Phases
<1>3. TypeOK' /\ Owned' /\ Registered' /\ EventsCurrent' /\ Room'
  <2>1. needremove \in Seq(RemoveSet) /\ \A i \in DOMAIN needremove : table[needremove[i].fd] = needremove[i].who
    BY DEF TypeOK, RemoveSet, Sockets, EventsCurrent
  <2>2. table[closing] \in Sockets /\ DOMAIN m_Connections' = DOMAIN m_Connections \ {closing}
    BY <1>1, <1>2 DEF Sockets
  <2>3. PICK fd \in Fds : fd = closing
    BY <1>2
  <2> QED BY <1>1, <1>2, <2>1, <2>2, <2>3, SocketClosed
<1>4. Distinct'
  BY <1>1 DEF Distinct
<1>5. Phases'
  BY <1>1 DEF Phases
<1>6. Faults'
  BY <1>1, <1>2 DEF Faults, Faulty
<1> QED BY <1>3, <1>4, <1>5, <1>6

LEMMA SelectDoneKeeps == ManagerInv /\ SelectDone => ManagerInv'
<1> SUFFICES ASSUME ManagerInv, SelectDone PROVE ManagerInv'
  OBVIOUS
<1> USE DEF ManagerInv
<1>1. needremove = << >>
  BY DoomedOwner DEF SelectDone, Removing, Sockets
<1>2. /\ pc = "dispatch" /\ pc' = "loop" /\ events = << >>
      /\ UNCHANGED << build, table, interest, link, inbox, reset, m_Connections, m_Socket, m_Send, events,
                      needremove, closing >>
  BY <1>1 DEF SelectDone
<1>3. TypeOK'
  BY <1>2 DEF TypeOK
<1> QED BY <1>1, <1>2, <1>3
        DEF Owned, Registered, Distinct, EventsCurrent, Phases, Faults, Faulty, Room

\* Outside the dispatch of a batch there is nothing in it.
LEMMA NoBatch ==
    ASSUME ManagerInv, pc \notin {"dispatch", "close"}
    PROVE  /\ closing = SOCKET_ERROR /\ events = << >> /\ needremove = << >>
           /\ DOMAIN events = {} /\ DOMAIN needremove = {} /\ needremove \in Seq(RemoveSet)
<1>1. closing = SOCKET_ERROR /\ events = << >> /\ needremove = << >>
  BY DEF ManagerInv, Phases
<1> QED BY <1>1

LEMMA StopListenerKeeps == ManagerInv /\ StopListener => ManagerInv'
<1> SUFFICES ASSUME ManagerInv, StopListener PROVE ManagerInv'
  OBVIOUS
<1> USE DEF ManagerInv
<1>1. /\ pc = "release" /\ pc' = "delete" /\ m_Socket' = SOCKET_ERROR
      /\ table' = [fd \in Fds |-> IF fd = m_Socket THEN "free" ELSE table[fd]]
      /\ interest' = Unregister("listener") /\ link' = CutQueued
      /\ UNCHANGED << build, inbox, reset, m_Connections, m_Send, events, needremove, closing >>
  BY DEF StopListener
<1>2. /\ closing = SOCKET_ERROR /\ events = << >> /\ needremove = << >>
      /\ DOMAIN events = {} /\ DOMAIN needremove = {} /\ needremove \in Seq(RemoveSet)
  BY <1>1, NoBatch
<1>3. TypeOK' /\ Owned' /\ Registered' /\ EventsCurrent' /\ Room'
  <2>1. CASE m_Socket = SOCKET_ERROR
    <3>1. table' = table
      BY <1>1, <2>1, KernelTypes, Names
    <3>2. interest' = interest
      BY <1>1, <2>1, KernelTypes, Names DEF Unregister, Owned, Registered
    <3>3. link' = link
      BY <1>1, <2>1, KernelTypes DEF CutQueued, Owned
    <3>4. TypeOK'
      BY <1>1, <2>1, <3>1, <3>2, <3>3 DEF TypeOK
    <3> QED BY <1>1, <2>1, <3>1, <3>2, <3>3, <3>4 DEF Owned, Registered, EventsCurrent, Room
  <2>2. CASE m_Socket # SOCKET_ERROR
    <3>1. PICK fd \in Fds : fd = m_Socket
      BY <2>2, KernelTypes
    <3>2. table[fd] = "listener" /\ table[fd] \in Sockets /\ fd \notin DOMAIN m_Connections
      BY <3>1, KernelTypes, Names DEF Owned, Sockets
    <3>3. table' = [table EXCEPT ![fd] = "free"]
      BY <1>1, <3>1, KernelTypes
    <3>4. DOMAIN m_Connections' = DOMAIN m_Connections \ {fd}
      BY <1>1, <3>2
    <3> QED BY <1>1, <1>2, <3>1, <3>2, <3>3, <3>4, SocketClosed
  <2> QED BY <2>1, <2>2
<1>4. Distinct'
  BY <1>1 DEF Distinct
<1>5. Phases' /\ Faults'
  BY <1>1, <1>2 DEF Phases, Faults
<1> QED BY <1>3, <1>4, <1>5

LEMMA DeleteConnectionKeeps == ManagerInv /\ DeleteConnection => ManagerInv'
<1> SUFFICES ASSUME ManagerInv, DeleteConnection PROVE ManagerInv'
  OBVIOUS
<1> USE DEF ManagerInv
<1>1. /\ pc = "delete"
      /\ UNCHANGED << build, inbox, reset, m_Socket, m_Send, events, needremove, closing, pc >>
  BY DEF DeleteConnection
<1>2. PICK s \in DOMAIN m_Connections :
        /\ m_Connections' = Erase(s) /\ table' = [table EXCEPT ![s] = "free"]
        /\ interest' = Unregister(table[s]) /\ link' = Cut(table[s])
  BY DEF DeleteConnection
<1>3. /\ closing = SOCKET_ERROR /\ events = << >> /\ needremove = << >>
      /\ DOMAIN events = {} /\ DOMAIN needremove = {} /\ needremove \in Seq(RemoveSet)
  BY <1>1, NoBatch
<1>4. s \in Fds /\ table[s] \in Clients /\ table[s] \in Sockets
  BY KernelTypes DEF Owned, Sockets
<1>5. /\ DOMAIN m_Connections' = DOMAIN m_Connections \ {s}
      /\ \A fd \in DOMAIN m_Connections' : m_Connections'[fd] = m_Connections[fd]
  BY <1>2, Erased
<1>6. TypeOK' /\ Owned' /\ Registered' /\ EventsCurrent' /\ Room'
  BY <1>1, <1>2, <1>3, <1>4, <1>5, SocketClosed
<1>7. Distinct'
  BY <1>1 DEF Distinct
<1>8. Phases' /\ Faults'
  BY <1>1, <1>3 DEF Phases, Faults
<1> QED BY <1>6, <1>7, <1>8

LEMMA ManagerKeeps ==
    ASSUME ManagerInv, StartListener \/ InitBridge \/ Continue \/ LeaveLoop \/ SelectSocket \/ Release
    PROVE  ManagerInv'
<1>1. CASE SelectSocket
  BY <1>1, EpollWaitKeeps, PlaceKeeps, EventErrorKeeps, AddConnectionKeeps, AcceptKeeps, DoneKeeps, FailedKeeps,
     NextEventKeeps, CloseListenerKeeps, CloseConnectionKeeps, CloseSocketKeeps, SelectDoneKeeps
     DEF SelectSocket
<1>2. CASE Release
  BY <1>2, StopListenerKeeps, DeleteConnectionKeeps, PlaceKeeps DEF Release
<1> QED BY <1>1, <1>2, StartListenerKeeps, InitBridgeKeeps, PlaceKeeps

LEMMA ManagerInvNext == ManagerInv /\ [Next]_vars => ManagerInv'
<1> SUFFICES ASSUME ManagerInv, [Next]_vars PROVE ManagerInv'
  OBVIOUS
<1>1. CASE UNCHANGED vars
  <2>1. TypeOK'
    BY <1>1 DEF ManagerInv, TypeOK, vars, kernelVars, managerVars
  <2> QED BY <1>1, <2>1 DEF ManagerInv, Owned, Registered, Distinct, EventsCurrent, Phases, Faults, Faulty, Room,
                            vars, kernelVars, managerVars
<1> QED BY <1>1, EnvironmentKeeps, ManagerKeeps DEF Next, Done

LEMMA Invariant == Spec => []ManagerInv
<1>1. Init => ManagerInv
  BY ManagerInit DEF Init
<1> QED BY <1>1, ManagerInvNext, PTL DEF Spec
-----------------------------------------------------------------------------
(* The results.                                                            *)

(***************************************************************************)
(* The type invariant, for any clients and any number of descriptors.      *)
(***************************************************************************)
THEOREM ManagerTypes == Spec => []TypeOK
<1>1. ManagerInv => TypeOK
  BY DEF ManagerInv
<1> QED BY <1>1, Invariant, PTL

(***************************************************************************)
(* m_Connections, the epoll set (or select's sets) and the kernel's table  *)
(* agree at every step: each entry is the connection its descriptor refers *)
(* to, looked at for output exactly when something is buffered, and no     *)
(* accepted socket is without an entry but the one being closed.  An entry *)
(* nobody looks at is one whose epoll_ctl failed in AddConnection.         *)
(***************************************************************************)
THEOREM MapAgrees == Spec => []MapMatchesKernel
<1>1. ManagerInv => MapMatchesKernel
  <2> SUFFICES ASSUME ManagerInv PROVE MapMatchesKernel
    OBVIOUS
  <2>1. \A fd \in DOMAIN m_Connections :
          IF m_Connections[fd].added
          THEN [who |-> table[fd], fd |-> fd, out |-> m_Connections[fd].sending] \in Watched
          ELSE \A r \in Watched : r.fd # fd
    <3>1. CASE build = "linux"
      BY <3>1 DEF ManagerInv, Registered, Watched
    <3>2. CASE build # "linux"
      <4>1. \A fd \in DOMAIN m_Connections : m_Connections[fd].added
        BY <3>2 DEF ManagerInv, Registered
      <4> QED BY <3>2, <4>1 DEF ManagerInv, Owned, Watched
    <3> QED BY <3>1, <3>2
  <2> QED BY <2>1, WatchedSockets DEF ManagerInv, Owned, MapMatchesKernel
<1> QED BY <1>1, Invariant, PTL

(***************************************************************************)
(* What the event batch and needremove know of a socket is never out of    *)
(* date: its descriptor still refers to it, whoever else opens and closes  *)
(* descriptors while the batch is worked off.                              *)
(***************************************************************************)
THEOREM BatchCurrent == Spec => []EventsCurrent
<1>1. ManagerInv => EventsCurrent
  BY DEF ManagerInv
<1> QED BY <1>1, Invariant, PTL

(***************************************************************************)
(* epoll_wait never reports more than m_Events has room for, and what      *)
(* SelectSocketWin puts into an fd_set fits, for any FD_SETSIZE above the  *)
(* limit in AddConnection.                                                 *)
(***************************************************************************)
THEOREM SocketsFit == Spec => []EventsFit
<1>1. ManagerInv => EventsFit
  <2> SUFFICES ASSUME ManagerInv PROVE EventsFit
    OBVIOUS
  <2>1. CASE build = "linux"
    BY <2>1 DEF ManagerInv, Room, EventsFit
  <2>2. CASE build = "windows"
    <3> DEFINE All == DOMAIN m_Connections \cup {m_Socket}
    <3>1. IsFiniteSet(All) /\ Cardinality(All) <= MaxConnections + 1
      <4>1. IsFiniteSet(DOMAIN m_Connections) /\ Cardinality(DOMAIN m_Connections) <= MaxConnections
        BY <2>2 DEF ManagerInv, Room
      <4>2. Cardinality(DOMAIN m_Connections) \in Nat
        BY <4>1, FS_CardinalityType
      <4>3. IsFiniteSet(All) /\ Cardinality(All) \in {Cardinality(DOMAIN m_Connections), Cardinality(DOMAIN m_Connections) + 1}
        BY <4>1, FS_AddElement
      <4> HIDE DEF All
      <4> QED BY <4>1, <4>2, <4>3, Names
    <3>2. [r \in Watched |-> r.fd] \in Injection(Watched, All)
      <4>1. \A r \in Watched : r.fd \in All
        BY <2>2 DEF Watched
      <4> HIDE DEF All
      <4>2. \A r, q \in Watched : r.fd = q.fd => r = q
        BY WatchedSockets
      <4> QED BY <4>1, <4>2 DEF Injection, IsInjective
    <3>3. Cardinality(Watched) <= Cardinality(All)
      BY <3>1, <3>2, FS_Injection
    <3>4. Cardinality(Watched) \in Nat /\ Cardinality(All) \in Nat
      BY <3>1, WatchedSockets, FS_CardinalityType
    <3> HIDE DEF All
    <3> QED BY <2>2, <3>1, <3>3, <3>4, Names DEF EventsFit
  <2> QED BY <2>1, <2>2, KernelTypes DEF ManagerInv
<1> QED BY <1>1, Invariant, PTL

\* Which descriptors a step of the net thread may take away from their owner.
LEMMA Closes ==
    ASSUME ManagerInv, [Next]_vars, NEW fd \in Fds, table'[fd] # table[fd]
    PROVE  \/ table[fd] = "free"
           \/ table[fd] = "other" /\ UNCHANGED managerVars
           \/ table[fd] = "listener"
           \/ table[fd] \in Clients /\ (pc = "delete" \/ Faulty(table[fd]))
<1> USE DEF ManagerInv
<1>1. ASSUME NEW o \in Fds, NEW v, table' = [table EXCEPT ![o] = v] PROVE o = fd
  BY <1>1, KernelTypes
<1>2. CASE Environment
  <2>1. OtherOpen \/ OtherClose
    BY <1>2 DEF Environment, Connect, Reset, Say
  <2> QED BY <1>1, <2>1 DEF OtherOpen, OtherClose, NewFds, FreeFds
<1>3. CASE StartListener \/ InitBridge \/ AddConnection
  BY <1>1, <1>3 DEF StartListener, InitBridge, AddConnection, NewFds, FreeFds
<1>4. CASE CloseListener
  <2>1. m_Socket \in Fds /\ table[m_Socket] = "listener"
    BY <1>4, DoomedOwner DEF CloseListener
  <2> QED BY <1>1, <1>4, <2>1 DEF CloseListener
<1>5. CASE CloseConnection
  BY <1>5, Names DEF CloseConnection, SocketOfDeleted
<1>6. CASE CloseSocket
  <2>1. closing \in Fds /\ table[closing] \in Clients /\ Faulty(table[closing])
    BY <1>6 DEF CloseSocket, Phases, Faults
  <2> QED BY <1>1, <1>6, <2>1 DEF CloseSocket
<1>7. CASE StopListener
  BY <1>7 DEF StopListener, Owned
<1>8. CASE DeleteConnection
  <2>1. PICK s \in DOMAIN m_Connections : table' = [table EXCEPT ![s] = "free"]
    BY <1>8 DEF DeleteConnection
  <2>2. s \in Fds /\ table[s] \in Clients
    BY KernelTypes DEF Owned
  <2> QED BY <1>1, <1>8, <2>1, <2>2 DEF DeleteConnection
<1>9. CASE UNCHANGED table
  BY <1>9
<1>10. StartListener \/ InitBridge \/ AddConnection \/ CloseListener \/ CloseConnection \/ CloseSocket
       \/ StopListener \/ DeleteConnection \/ Environment \/ UNCHANGED table
  BY DEF Next, SelectSocket, Release, Done, Continue, LeaveLoop, EpollWait, EpollTimeout, EventError,
         AddConnectionFull, AcceptFailed, AcceptRefused, ReadDone, ReadFailed, WriteDone, WriteFailed,
         NextEvent, SelectDone, ReleaseDone, vars, kernelVars
<1> QED BY <1>2, <1>3, <1>4, <1>5, <1>6, <1>7, <1>8, <1>9, <1>10

(***************************************************************************)
(* No step of the net thread takes away a descriptor another thread holds. *)
(***************************************************************************)
THEOREM OthersKept == Spec => OthersUntouched
<1>1. ManagerInv /\ [Next]_vars =>
        [\A fd \in Fds : table[fd] = "other" /\ table'[fd] # "other" => UNCHANGED managerVars]_vars
  <2> SUFFICES ASSUME ManagerInv, [Next]_vars, NEW fd \in Fds, table[fd] = "other", table'[fd] # "other"
               PROVE  UNCHANGED managerVars
    OBVIOUS
  <2> QED BY Closes, Names
<1> QED BY <1>1, Invariant, PTL DEF Spec, OthersUntouched

(***************************************************************************)
(* While the loop runs, a connection loses its socket only when its own    *)
(* peer closed or reset it or sent what is not a package.                  *)
(***************************************************************************)
THEOREM FaultlessKept == Spec => OnlyFaultyClosed
<1>1. ManagerInv /\ [Next]_vars =>
        [\A fd \in Fds : table[fd] \in Clients /\ table'[fd] # table[fd] /\ pc # "delete"
            => reset[table[fd]] \/ inbox[table[fd]] \in {"bad", "fin"}]_vars
  <2> SUFFICES ASSUME ManagerInv, [Next]_vars, NEW fd \in Fds, table[fd] \in Clients,
                      table'[fd] # table[fd], pc # "delete"
               PROVE  Faulty(table[fd])
    BY DEF Faulty
  <2> QED BY Closes, Names
<1> QED BY <1>1, Invariant, PTL DEF Spec, OnlyFaultyClosed
=============================================================================
