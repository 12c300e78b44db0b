----------------------------- MODULE NetServer -----------------------------
(***************************************************************************)
(* NetServer: the main thread constructs the server, starts the net        *)
(* thread, stops it through the flag m_Run and a join, and destroys the    *)
(* server with its manager.  The net thread is NetConnectionManager, whose *)
(* loop goes round while m_Run holds and is followed by Release.  Start    *)
(* makes LuaWrap's Lua state and Stop closes it.  A server that is stopped *)
(* may be started again, with the same manager.                            *)
(***************************************************************************)
EXTENDS NetConnectionManager, LuaWrap

CONSTANT MaxStarts   \* bound: calls of Start

ASSUME StartsAssumption == MaxStarts \in Nat

VARIABLES
    m_Run,
    main,    \* how far the main thread is
    starts   \* calls of Start so far

serverVars == << m_Run, main, starts, luaVars >>
allVars == << vars, serverVars >>

ServerInit ==
    /\ InitAt("none")
    /\ LuaInit
    /\ m_Run = FALSE
    /\ main = "constructed"
    /\ starts = 0

\* Start; m_Thread must not be joinable, so the server is not running.
Start ==
    /\ main \in {"constructed", "stopped"}
    /\ starts < MaxStarts
    /\ starts' = starts + 1
    /\ GetLuaState
    /\ m_Run' = TRUE
    /\ pc' = "init"
    /\ main' = "running"
    /\ UNCHANGED << kernelVars, m_Connections, m_Socket, m_Send, events, needremove, closing >>

\* Stop up to the join; a thread that is not running is not joinable.
Stop ==
    /\ main \in {"constructed", "running", "stopped"}
    /\ m_Run' = FALSE
    /\ main' = IF main = "running" THEN "joining" ELSE "joined"
    /\ UNCHANGED << vars, starts, luaVars >>

Join ==
    /\ main = "joining"
    /\ pc = "done"
    /\ main' = "joined"
    /\ UNCHANGED << vars, m_Run, starts, luaVars >>

StopDone ==
    /\ main = "joined"
    /\ ReleaseLua
    /\ main' = "stopped"
    /\ UNCHANGED << vars, m_Run, starts >>

(***************************************************************************)
(* ~NetServer: ~NetConnectionManager closes the epoll descriptor, calls    *)
(* Release once more (nothing is left for it), deletes the listener, and   *)
(* ~NetAwakeBridge closes the bridge.                                      *)
(***************************************************************************)
Destroy ==
    /\ main \in {"constructed", "stopped"}
    /\ table' = [fd \in Fds |-> IF table[fd] = "epoll" \/ fd \in DOMAIN m_Connections \cup {m_Socket, m_Send}
                                THEN "free" ELSE table[fd]]
    /\ interest' = {}
    /\ m_Connections' = << >>
    /\ m_Socket' = SOCKET_ERROR
    /\ m_Send' = SOCKET_ERROR
    /\ main' = "destroyed"
    /\ UNCHANGED << build, link, inbox, reset, events, needremove, closing, pc, m_Run, starts, luaVars >>

\* ThreadProcess: Init, while (m_Run) SelectSocket(200), Release.
ThreadProcess ==
    /\ \/ StartListener \/ InitBridge
       \/ m_Run /\ Continue
       \/ SelectSocket
       \/ ~m_Run /\ LeaveLoop
       \/ Release
    /\ UNCHANGED serverVars

Main == Start \/ Stop \/ Join \/ StopDone \/ Destroy

Destroyed == main = "destroyed" /\ UNCHANGED allVars

ServerNext ==
    \/ Main
    \/ ThreadProcess
    \/ Environment /\ UNCHANGED serverVars
    \/ Destroyed

(***************************************************************************)
(* The net thread is scheduled; epoll_wait returns after 200 ms at the     *)
(* latest.  The main thread gets out of the join once the thread ended.    *)
(* Nothing is assumed of the clients or of when Stop is called.            *)
(***************************************************************************)
ServerSpec ==
    /\ ServerInit
    /\ [][ServerNext]_allVars
    /\ WF_allVars(ThreadProcess)
    /\ WF_allVars(Join \/ StopDone)
----------------------------------------------------------------------------
(***************************************************************************)
(* When Stop has returned, the net thread holds no descriptor any more:    *)
(* the listening socket and every connection, accepted at whatever moment, *)
(* are closed, and their peers know it; nor is a Lua state left open.      *)
(* When the server is destroyed only the rest of the process has           *)
(* descriptors open, besides the bridges that NetAwakeBridge::Init forgot  *)
(* when the server was started again: one for each Start after the first,  *)
(* at most.                                                                *)
(***************************************************************************)
AllReleased ==
    /\ main \in {"stopped", "destroyed"} =>
         /\ LuaState = "NULL"
         /\ \A fd \in Fds : table[fd] \notin Clients \cup {"listener"}
         /\ \A c \in Clients : link[c] \in {"idle", "cut"}
    /\ main = "destroyed" =>
         LET left == {fd \in Fds : table[fd] \notin {"free", "other"}}
         IN  /\ \A fd \in left : table[fd] = "bridge"
             /\ left # {} => Cardinality(left) < starts

(***************************************************************************)
(* "Get the Lua state" (LuaWrap.h on GetLuaState, which Start calls for    *)
(* that): a server that runs has one.                                      *)
(***************************************************************************)
LuaStateThere == main \in {"running", "joining"} => LuaState = "open"

(***************************************************************************)
(* Stop returns: whatever the clients do, idle or busy, the net thread     *)
(* sees that m_Run is false, releases everything and is joined.            *)
(***************************************************************************)
StopReturns == main = "joining" ~> main = "stopped"
============================================================================
