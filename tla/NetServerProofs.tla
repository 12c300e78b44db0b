-------------------------- MODULE NetServerProofs --------------------------
(***************************************************************************)
(* NetServer proved, for any clients, descriptors and number of Starts, on *)
(* top of what NetConnectionManagerProofs proves of the net thread.        *)
(***************************************************************************)
EXTENDS NetServer, NetConnectionManagerProofs

Bridges == {fd \in Fds : table[fd] = "bridge"}

\* Start, Stop and the destructor on one side, the net thread on the other.
Lifecycle ==
    /\ starts \in Nat
    /\ main \in {"constructed", "running", "joining", "joined", "stopped", "destroyed"}
    /\ main \in {"constructed", "joined", "stopped", "destroyed"} => pc \in {"none", "done"}
    /\ main = "constructed" => starts = 0
    /\ main \in {"running", "joining"} => starts > 0

\* The flag in GetLuaState remembers the first Start; the state does not outlive its Stop.
Lua ==
    /\ init \in BOOLEAN /\ (init <=> starts > 0)
    /\ LuaState \in {"NULL", "open"}
    /\ LuaState = "open" => starts = 1 /\ main \in {"running", "joining", "joined"}
    /\ main \in {"running", "joining"} /\ starts = 1 => LuaState = "open"

\* A Start that is not past NetAwakeBridge::Init has made no bridge yet.
Made == IF pc \in {"init", "bridge"} THEN starts - 1 ELSE starts

\* The bridge the object knows is one of those that are open.
BridgesCounted ==
    /\ main # "destroyed" =>
         /\ Cardinality(Bridges) <= Made
         /\ Bridges # {} => m_Send # SOCKET_ERROR
    /\ main = "destroyed" =>
         /\ \A fd \in Fds : table[fd] \in {"free", "other", "bridge"}
         /\ Bridges # {} => Cardinality(Bridges) < starts

ServerInv == ManagerInv /\ Lifecycle /\ Lua /\ BridgesCounted
----------------------------------------------------------------------------
LEMMA FiniteBridges == IsFiniteSet(Bridges) /\ Cardinality(Bridges) \in Nat
<1>1. IsFiniteSet(Bridges)
  BY Names, FS_Subset DEF Bridges
<1> QED BY <1>1, FS_CardinalityType

\* Before and after a run the manager has no socket open.
LEMMA AtRest ==
    ASSUME ManagerInv, pc \in {"none", "done"}
    PROVE  /\ m_Socket = SOCKET_ERROR /\ DOMAIN m_Connections = {}
           /\ \A fd \in Fds : table[fd] \notin Sockets
           /\ \A c \in Clients : link[c] \in {"idle", "cut"}
<1> USE DEF ManagerInv
<1>1. m_Socket = SOCKET_ERROR /\ \A fd \in Fds : table[fd] \notin Sockets
  BY Names DEF Phases, Owned, Sockets
<1>2. DOMAIN m_Connections = {}
  <2>1. \A fd \in DOMAIN m_Connections : fd \in Fds /\ table[fd] \in Sockets
    BY KernelTypes DEF Owned, Sockets
  <2> QED BY <1>1, <2>1
<1>3. \A c \in Clients : link[c] \in {"idle", "cut"}
  BY <1>1, KernelTypes DEF Owned, Sockets
<1> QED BY <1>1, <1>2, <1>3

LEMMA ServerInvInit == ServerInit => ServerInv
<1> SUFFICES ASSUME ServerInit PROVE ServerInv
  OBVIOUS
<1>1. ManagerInv
  BY ManagerInit DEF ServerInit
<1>2. pc = "none" /\ starts = 0 /\ main = "constructed" /\ LuaState = "NULL" /\ init = FALSE
  BY DEF ServerInit, InitAt, LuaInit
<1>3. Bridges = {}
  BY DEF ServerInit, InitAt, Bridges
<1>4. BridgesCounted
  BY <1>2, <1>3, FS_EmptySet DEF BridgesCounted, Made
<1>5. Lifecycle
  BY <1>2 DEF Lifecycle
<1>6. Lua
  <2>1. init = FALSE
    BY <1>2, Zenon
  <2>2. init \in BOOLEAN /\ ~init
    BY <2>1, Zenon
  <2>3. starts = 0 /\ main = "constructed" /\ LuaState = "NULL"
    BY <1>2, Zenon
  <2> QED BY <2>2, <2>3 DEF Lua
<1> QED BY <1>1, <1>4, <1>5, <1>6 DEF ServerInv

\* Start finds the manager as Release left it.
LEMMA StartKeeps == ServerInv /\ Start => ServerInv'
<1> SUFFICES ASSUME ServerInv, Start PROVE ServerInv'
  OBVIOUS
<1> USE DEF ServerInv
<1>1. /\ main \in {"constructed", "stopped"} /\ main' = "running" /\ starts' = starts + 1 /\ pc' = "init"
      /\ init' = TRUE /\ LuaState' = IF init THEN LuaState ELSE "open"
      /\ UNCHANGED << build, table, interest, link, inbox, reset,
                      m_Connections, m_Socket, m_Send, events, needremove, closing >>
  BY DEF Start, GetLuaState, kernelVars
<1>2. pc \in {"none", "done"} /\ starts \in Nat
  BY <1>1 DEF Lifecycle
<1>3. ManagerInv'
  <2> USE DEF ManagerInv
  <2>1. TypeOK'
    BY <1>1 DEF TypeOK
  <2>2. Phases'
    BY <1>1, <1>2 DEF Phases
  <2> QED BY <1>1, <1>2, <2>1, <2>2 DEF Owned, Registered, Distinct, EventsCurrent, Faults, Faulty, Room
<1>4. Lifecycle'
  BY <1>1, <1>2 DEF Lifecycle
<1>5. Lua'
  BY <1>1, <1>2 DEF Lua
<1>6. BridgesCounted'
  <2>1. Bridges' = Bridges
    BY <1>1 DEF Bridges
  <2> QED BY <1>1, <1>2, <2>1, FiniteBridges DEF BridgesCounted, Made
<1> QED BY <1>3, <1>4, <1>5, <1>6

\* Stop, the join and what follows it do not touch the manager.
LEMMA StopKeeps == ServerInv /\ (Stop \/ Join \/ StopDone) => ServerInv'
<1> SUFFICES ASSUME ServerInv, Stop \/ Join \/ StopDone PROVE ServerInv'
  OBVIOUS
<1> USE DEF ServerInv
<1>1. UNCHANGED << vars, starts >> /\ main # "destroyed" /\ main' # "destroyed"
  BY DEF Stop, Join, StopDone
<1>2. ManagerInv'
  BY <1>1, ManagerInvNext
<1>3. Bridges' = Bridges /\ pc' = pc /\ m_Send' = m_Send
  BY <1>1 DEF Bridges, vars, kernelVars, managerVars
<1>4. BridgesCounted'
  BY <1>1, <1>3 DEF BridgesCounted, Made
<1>5. Lifecycle' /\ Lua'
  <2>1. CASE Stop
    BY <1>1, <1>3, <2>1 DEF Stop, Lifecycle, Lua, luaVars
  <2>2. CASE Join
    BY <1>1, <1>3, <2>2 DEF Join, Lifecycle, Lua, luaVars
  <2>3. CASE StopDone
    BY <1>1, <1>3, <2>3 DEF StopDone, ReleaseLua, Lifecycle, Lua
  <2> QED BY <2>1, <2>2, <2>3
<1> QED BY <1>2, <1>4, <1>5

LEMMA DestroyKeeps == ServerInv /\ Destroy => ServerInv'
<1> SUFFICES ASSUME ServerInv, Destroy PROVE ServerInv'
  OBVIOUS
<1> USE DEF ServerInv
<1>1. /\ main \in {"constructed", "stopped"} /\ main' = "destroyed"
      /\ interest' = {} /\ m_Connections' = << >> /\ m_Socket' = SOCKET_ERROR /\ m_Send' = SOCKET_ERROR
      /\ UNCHANGED << build, link, inbox, reset, events, needremove, closing, pc, starts, LuaState, init >>
  BY DEF Destroy, luaVars
<1>2. pc \in {"none", "done"}
  BY <1>1 DEF Lifecycle
<1>3. /\ m_Socket = SOCKET_ERROR /\ DOMAIN m_Connections = {}
      /\ \A fd \in Fds : table[fd] \notin Sockets
      /\ \A c \in Clients : link[c] \in {"idle", "cut"}
  BY <1>2, AtRest
<1>4. table' = [fd \in Fds |-> IF table[fd] = "epoll" \/ fd = m_Send THEN "free" ELSE table[fd]]
  BY <1>3, Names DEF Destroy
<1>5. table' \in [Fds -> {"free", "other", "bridge"}]
  BY <1>3, <1>4, KernelTypes DEF ManagerInv, Owners, Sockets
<1>6. ManagerInv'
  <2> USE DEF ManagerInv
  <2>1. DOMAIN m_Connections' = {} /\ \A fd \in Fds : table'[fd] \notin Sockets
    BY <1>1, <1>5, Names DEF Sockets
  <2>2. TypeOK'
    BY <1>1, <1>5, <2>1 DEF TypeOK, Owners
  <2>3. Owned'
    BY <1>1, <1>3, <2>1, Names DEF Owned, Sockets
  <2>4. Registered'
    BY <1>1, <2>1 DEF Registered
  <2>5. Distinct' /\ Faults'
    BY <1>1, <1>2 DEF Distinct, Faults, Faulty
  <2>6. EventsCurrent' /\ Phases'
    BY <1>1, <1>2, <2>1, NoBatch DEF EventsCurrent, Phases, Sockets
  <2>7. Room'
    BY <1>1, <2>1, FS_EmptySet, Names DEF Room
  <2> QED BY <2>2, <2>3, <2>4, <2>5, <2>6, <2>7
<1>7. Lifecycle' /\ Lua'
  BY <1>1, <1>2 DEF Lifecycle, Lua
<1>8. BridgesCounted'
  <2>1. Bridges' = Bridges \ {m_Send}
    BY <1>4, <1>5 DEF Bridges
  <2>2. Bridges # {} => m_Send \in Bridges
    BY <1>1, KernelTypes DEF BridgesCounted, ManagerInv, Owned, Bridges
  <2>3. Cardinality(Bridges) <= starts /\ starts \in Nat
    BY <1>1, <1>2 DEF BridgesCounted, Made, Lifecycle
  <2>4. Bridges # {} => Cardinality(Bridges') = Cardinality(Bridges) - 1
    BY <2>1, <2>2, FiniteBridges, FS_RemoveElement
  <2>5. Bridges' # {} => Cardinality(Bridges') < starts
    BY <2>1, <2>3, <2>4, FiniteBridges
  <2> QED BY <1>1, <1>5, <2>5 DEF BridgesCounted
<1> QED BY <1>6, <1>7, <1>8

\* Only NetAwakeBridge::Init opens a bridge, one at a time, and the net thread closes none.
LEMMA BridgesOnlyMade ==
    ASSUME ManagerInv, [Next]_vars
    PROVE  IF InitBridge THEN \/ Bridges' = Bridges /\ m_Send' = m_Send
                              \/ \E fd \in Fds : Bridges' = Bridges \cup {fd} /\ m_Send' = fd
           ELSE Bridges' = Bridges /\ m_Send' = m_Send
<1>1. CASE InitBridge
  <2>1. CASE UNCHANGED << table, m_Send, link >>
    BY <1>1, <2>1 DEF Bridges
  <2>2. ASSUME NEW fd \in NewFds, table' = [table EXCEPT ![fd] = "bridge"], m_Send' = fd
        PROVE  fd \in Fds /\ Bridges' = Bridges \cup {fd} /\ m_Send' = fd
    BY <2>2, KernelTypes DEF NewFds, FreeFds, Bridges, ManagerInv
  <2> QED BY <1>1, <2>1, <2>2 DEF InitBridge
<1>2. CASE ~InitBridge
  <2>1. m_Send' = m_Send
    BY <1>2 DEF Next, Environment, Connect, Say, Reset, OtherOpen, OtherClose, StartListener, Continue, LeaveLoop,
         SelectSocket, EpollWait, EpollTimeout, EventError, AddConnection, AddConnectionFull, AcceptFailed,
         AcceptRefused, ReadDone, ReadFailed, WriteDone, WriteFailed, NextEvent, CloseListener, CloseConnection,
         CloseSocket, SelectDone, Release, StopListener, DeleteConnection, ReleaseDone, Done, vars, managerVars
  <2>2. ASSUME NEW fd \in Fds PROVE table[fd] = "bridge" => table'[fd] = "bridge"
    BY Closes, Names
  <2>3. ASSUME NEW fd \in Fds, table'[fd] = "bridge" PROVE table[fd] = "bridge"
    <3>1. CASE UNCHANGED table
      BY <2>3, <3>1
    <3>2. ASSUME NEW o \in Fds, NEW v, v # "bridge", table' = [table EXCEPT ![o] = v] PROVE table[fd] = "bridge"
      BY <2>3, <3>2, KernelTypes DEF ManagerInv
    <3>3. CASE OtherOpen \/ OtherClose \/ StartListener
      BY <3>1, <3>2, <3>3 DEF OtherOpen, OtherClose, StartListener, NewFds, FreeFds
    <3>4. CASE AddConnection
      BY <3>2, <3>4, Names DEF AddConnection, NewFds, FreeFds, Queued
    <3>5. CASE CloseListener \/ CloseConnection \/ StopListener
      BY <2>3, <3>5, KernelTypes DEF ManagerInv, CloseListener, CloseConnection, StopListener
    <3>6. CASE CloseSocket \/ DeleteConnection
      BY <2>3, <3>6, KernelTypes DEF ManagerInv, CloseSocket, DeleteConnection
    <3> QED BY <1>2, <3>1, <3>3, <3>4, <3>5, <3>6
            DEF Next, Environment, Connect, Say, Reset, Continue, LeaveLoop, SelectSocket, EpollWait, EpollTimeout,
                EventError, AddConnectionFull, AcceptFailed, AcceptRefused, ReadDone, ReadFailed, WriteDone,
                WriteFailed, NextEvent, SelectDone, Release, ReleaseDone, Done, vars, kernelVars
  <2> QED BY <1>2, <2>1, <2>2, <2>3 DEF Bridges
<1> QED BY <1>1, <1>2

\* How far the net thread gets: it does nothing before Start and after its end.
LEMMA ThreadPlaces ==
    ASSUME ManagerInv, StartListener \/ InitBridge \/ Continue \/ LeaveLoop \/ SelectSocket \/ Release
    PROVE  /\ pc \notin {"none", "done"} /\ pc' # "none" /\ pc' # "init"
           /\ pc' = "bridge" <=> StartListener
           /\ InitBridge => pc = "bridge"
           /\ pc \in {"init", "bridge"} => StartListener \/ InitBridge
  BY DEF StartListener, InitBridge, Continue, LeaveLoop, Release, StopListener, DeleteConnection, ReleaseDone,
         SelectSocket, EpollWait, EpollTimeout, EventError, AddConnection, AddConnectionFull, AcceptFailed,
         AcceptRefused, Accepting, OnConnection, Dispatching, Removing, ReadDone, ReadFailed, WriteDone, WriteFailed,
         NextEvent, CloseListener, CloseConnection, CloseSocket, SelectDone

LEMMA ThreadKeeps == ServerInv /\ ThreadProcess => ServerInv'
<1> SUFFICES ASSUME ServerInv, ThreadProcess PROVE ServerInv'
  OBVIOUS
<1> USE DEF ServerInv
<1>1. StartListener \/ InitBridge \/ Continue \/ LeaveLoop \/ SelectSocket \/ Release
  BY DEF ThreadProcess
<1>2. UNCHANGED << main, starts, LuaState, init >>
  BY DEF ThreadProcess, serverVars, luaVars
<1>3. ManagerInv'
  BY <1>1, ManagerKeeps
<1>4. pc \notin {"none", "done"} /\ main \in {"running", "joining"} /\ starts > 0 /\ starts \in Nat
  BY <1>1, ThreadPlaces DEF Lifecycle
<1>5. Lifecycle' /\ Lua'
  BY <1>2, <1>4 DEF Lifecycle, Lua
<1>6. BridgesCounted'
  <2>1. Cardinality(Bridges) <= Made /\ (Bridges # {} => m_Send # SOCKET_ERROR)
    BY <1>4 DEF BridgesCounted
  <2>2. CASE InitBridge
    <3>1. Made' = Made + 1
      BY <1>1, <1>2, <1>4, <2>2, ThreadPlaces DEF Made, InitBridge
    <3>2. CASE Bridges' = Bridges /\ m_Send' = m_Send
      BY <1>2, <1>4, <2>1, <3>1, <3>2, FiniteBridges DEF BridgesCounted, Made
    <3>3. ASSUME NEW fd \in Fds, Bridges' = Bridges \cup {fd}, m_Send' = fd PROVE BridgesCounted'
      <4>1. Cardinality(Bridges') <= Cardinality(Bridges) + 1
        BY <3>3, FiniteBridges, FS_AddElement
      <4>2. Cardinality(Bridges) \in Nat /\ Cardinality(Bridges') \in Nat /\ Made \in Int
        BY <1>4, <3>3, FiniteBridges, FS_AddElement, FS_CardinalityType DEF Made
      <4>3. Cardinality(Bridges') <= Made'
        BY <2>1, <3>1, <4>1, <4>2
      <4> QED BY <1>2, <1>4, <3>3, <4>3, Names DEF BridgesCounted
    <3> QED BY <2>2, <3>2, <3>3, BridgesOnlyMade DEF Next
  <2>3. CASE ~InitBridge
    <3>1. Bridges' = Bridges /\ m_Send' = m_Send
      BY <1>1, <2>3, BridgesOnlyMade DEF Next
    <3>2. Made' >= Made /\ Made \in Int /\ Made' \in Int
      BY <1>1, <1>2, <1>4, <2>3, ThreadPlaces DEF Made, StartListener
    <3> QED BY <1>2, <1>4, <2>1, <3>1, <3>2, FiniteBridges DEF BridgesCounted
  <2> QED BY <2>2, <2>3
<1> QED BY <1>3, <1>5, <1>6

LEMMA SurroundingsKeep == ServerInv /\ Environment /\ UNCHANGED serverVars => ServerInv'
<1> SUFFICES ASSUME ServerInv, Environment, UNCHANGED serverVars PROVE ServerInv'
  OBVIOUS
<1> USE DEF ServerInv
<1>1. UNCHANGED << main, starts, LuaState, init, m_Send, pc >>
  BY DEF serverVars, luaVars, Environment, Connect, Say, Reset, OtherOpen, OtherClose, managerVars
<1>2. ManagerInv'
  BY EnvironmentKeeps
<1>3. Lifecycle' /\ Lua'
  BY <1>1 DEF Lifecycle, Lua
<1>4. /\ \A fd \in Fds : table'[fd] \in {table[fd], "free", "other"}
      /\ \A fd \in Fds : table[fd] = "bridge" <=> table'[fd] = "bridge"
  BY KernelTypes DEF ManagerInv, Environment, Connect, Say, Reset, OtherOpen, OtherClose, NewFds, FreeFds
<1>5. Bridges' = Bridges
  BY <1>4 DEF Bridges
<1>6. BridgesCounted'
  BY <1>1, <1>4, <1>5 DEF BridgesCounted, Made
<1> QED BY <1>2, <1>3, <1>6

LEMMA ServerInvNext == ServerInv /\ [ServerNext]_allVars => ServerInv'
<1> SUFFICES ASSUME ServerInv, [ServerNext]_allVars PROVE ServerInv'
  OBVIOUS
<1>1. CASE UNCHANGED allVars
  <2>1. ManagerInv'
    BY <1>1, ManagerInvNext DEF ServerInv, allVars
  <2>2. Bridges' = Bridges
    BY <1>1 DEF allVars, vars, kernelVars, Bridges
  <2> QED BY <1>1, <2>1, <2>2 DEF ServerInv, Lifecycle, Lua, BridgesCounted, Made,
                                  allVars, vars, kernelVars, managerVars, serverVars, luaVars
<1> QED BY <1>1, StartKeeps, StopKeeps, DestroyKeeps, ThreadKeeps, SurroundingsKeep DEF ServerNext, Main, Destroyed
----------------------------------------------------------------------------
(***************************************************************************)
(* When Stop has returned, no socket of the net thread is open, no         *)
(* connection stands or waits and no Lua state is open; when the server is destroyed only the rest  *)
(* of the process has descriptors, and the bridges of Starts before the    *)
(* last.                                                                   *)
(***************************************************************************)
THEOREM Released == ServerSpec => []AllReleased
<1>1. ServerInv => AllReleased
  <2> SUFFICES ASSUME ServerInv PROVE AllReleased
    OBVIOUS
  <2>1. main \in {"stopped", "destroyed"} =>
          /\ LuaState = "NULL"
          /\ \A fd \in Fds : table[fd] \notin Clients \cup {"listener"}
          /\ \A c \in Clients : link[c] \in {"idle", "cut"}
    BY AtRest DEF ServerInv, Lifecycle, Lua, Sockets
  <2>2. ASSUME main = "destroyed"
        PROVE  LET left == {fd \in Fds : table[fd] \notin {"free", "other"}}
               IN  /\ \A fd \in left : table[fd] = "bridge"
                   /\ left # {} => Cardinality(left) < starts
    <3>1. {fd \in Fds : table[fd] \notin {"free", "other"}} = Bridges
      BY <2>2 DEF ServerInv, BridgesCounted, Bridges
    <3>2. \A fd \in Bridges : table[fd] = "bridge"
      BY DEF Bridges
    <3>3. Bridges # {} => Cardinality(Bridges) < starts
      BY <2>2 DEF ServerInv, BridgesCounted
    <3> QED BY <3>1, <3>2, <3>3
  <2> QED BY <2>1, <2>2 DEF AllReleased
<1> QED BY <1>1, ServerInvInit, ServerInvNext, PTL DEF ServerSpec

(***************************************************************************)
(* Until it is started a second time a running server has its Lua state.   *)
(* The restart is where that ends: the run net_server_lua shows it.        *)
(***************************************************************************)
THEOREM LuaUntilRestart == ServerSpec => [](starts <= 1 => LuaStateThere)
<1>1. ServerInv => (starts <= 1 => LuaStateThere)
  BY DEF ServerInv, Lifecycle, Lua, LuaStateThere
<1> QED BY <1>1, ServerInvInit, ServerInvNext, PTL DEF ServerSpec
============================================================================
