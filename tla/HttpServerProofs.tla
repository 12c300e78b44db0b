-------------------------- MODULE HttpServerProofs --------------------------
(***************************************************************************)
(* Theorems about HttpServer and about main() of app1, which runs one: the *)
(* bookkeeping of its outgoing requests, its life, and how main() ends,    *)
(* for any number of paths, requests, connections, sends and restarts.     *)
(***************************************************************************)
EXTENDS App1, TLAPS

bookVars == << m_HttpRequest, requests, connections, failed >>

\* The actions that leave the bookkeeping of outgoing requests alone.
LEMMA BookUnchanged ==
    ASSUME \/ Start \/ Stop \/ LoopBreak \/ Join
           \/ Listen \/ OnRegisterServer \/ OnInit \/ EventBaseLoop
           \/ \E p \in Paths : OnHttpRequest(p)
           \/ LoopDone \/ OnUpdate \/ LeaveLoop \/ OnRelease
           \/ \E p \in Paths : Ask(p)
           \/ Deleted
           \/ UNCHANGED vars
    PROVE  UNCHANGED bookVars
<1>1. CASE Start BY <1>1 DEF Start, bookVars, libVars
<1>2. CASE Stop BY <1>2 DEF Stop, bookVars, libVars
<1>3. CASE LoopBreak BY <1>3 DEF LoopBreak, bookVars, libVars
<1>4. CASE Join BY <1>4 DEF Join, bookVars, libVars
<1>5. CASE Listen BY <1>5 DEF Listen, bookVars, libVars
<1>6. CASE OnRegisterServer BY <1>6 DEF OnRegisterServer, bookVars, libVars
<1>7. CASE OnInit BY <1>7 DEF OnInit, bookVars, libVars
<1>8. CASE EventBaseLoop BY <1>8 DEF EventBaseLoop, bookVars, libVars
<1>9. CASE \E p \in Paths : OnHttpRequest(p) BY <1>9 DEF OnHttpRequest, bookVars, libVars
<1>10. CASE LoopDone BY <1>10 DEF LoopDone, bookVars, libVars
<1>11. CASE OnUpdate BY <1>11 DEF OnUpdate, bookVars, libVars
<1>12. CASE LeaveLoop BY <1>12 DEF LeaveLoop, bookVars, libVars
<1>13. CASE OnRelease BY <1>13 DEF OnRelease, bookVars, libVars
<1>14. CASE \E p \in Paths : Ask(p) BY <1>14 DEF Ask, bookVars, libVars
<1>15. CASE Deleted BY <1>15 DEF Deleted, vars, bookVars, libVars
<1>16. CASE UNCHANGED vars BY <1>16 DEF vars, bookVars, libVars
<1> QED BY <1>1, <1>2, <1>3, <1>4, <1>5, <1>6, <1>7, <1>8, <1>9, <1>10, <1>11, <1>12, <1>13,
           <1>14, <1>15, <1>16

\* Every step leaves the bookkeeping alone or is one of four actions.
LEMMA BookSteps ==
    ASSUME [Next]_vars
    PROVE  \/ UNCHANGED bookVars
           \/ Destroy
           \/ \E r \in Requests, c \in Connections : SendHttpRequest(r, c)
           \/ \E r \in Requests : OnHttpRequestDone(r)
           \/ \E r \in Requests : OnHttpRequestError(r)
<1>1. CASE Main BY <1>1, BookUnchanged DEF Main
<1>2. CASE ThreadProcess BY <1>2, BookUnchanged DEF ThreadProcess, Handle
<1> QED BY <1>1, <1>2, BookUnchanged DEF Next

LEMMA FreedOnceInit == Init => FreedOnce
BY DEF Init, FreedOnce, None

LEMMA FreedOnceNext == FreedOnce /\ [Next]_vars => FreedOnce'
<1> SUFFICES ASSUME FreedOnce, [Next]_vars PROVE FreedOnce'
    OBVIOUS
<1>1. CASE UNCHANGED bookVars
    BY <1>1 DEF FreedOnce, bookVars
<1>2. CASE Destroy
    BY <1>2 DEF FreedOnce, Destroy, FreeConnections, OnConnection, Without, None
<1>3. ASSUME NEW r \in Requests, NEW c \in Connections, SendHttpRequest(r, c)
      PROVE  FreedOnce'
    <2>1. /\ c \notin connections /\ r \notin DOMAIN requests
          /\ connections' = connections \cup {c}
          /\ m_HttpRequest' = Insert(m_HttpRequest, r, c)
        BY <1>3 DEF SendHttpRequest
    <2>2. requests' = Put(requests, r, c) \/ requests' = requests
        BY <1>3 DEF SendHttpRequest
    <2>3. CASE r \in DOMAIN m_HttpRequest
        BY <2>1, <2>2, <2>3 DEF FreedOnce, Insert, Put
    <2>4. CASE r \notin DOMAIN m_HttpRequest
        BY <2>1, <2>2, <2>4 DEF FreedOnce, Insert, Put
    <2> QED BY <2>3, <2>4
<1>4. ASSUME NEW r \in Requests, OnHttpRequestDone(r)
      PROVE  FreedOnce'
    BY <1>4 DEF FreedOnce, OnHttpRequestDone, FreeConnections, OnConnection, Without
<1>5. ASSUME NEW r \in Requests, OnHttpRequestError(r)
      PROVE  FreedOnce'
    BY <1>5 DEF FreedOnce, OnHttpRequestError, Without
<1> QED BY <1>1, <1>2, <1>3, <1>4, <1>5, BookSteps

(***************************************************************************)
(* No outgoing connection is freed twice or under a request, whatever way  *)
(* requests fail and however addresses are reused.  FreedOnce is inductive *)
(* as it stands.                                                           *)
(***************************************************************************)
THEOREM ConnectionsFreedOnce == Spec => []FreedOnce
BY FreedOnceInit, FreedOnceNext, PTL DEF Spec
-----------------------------------------------------------------------------
(***************************************************************************)
(* Until a request fails, the map is exactly the outstanding requests and  *)
(* every connection carries one of them.                                   *)
(***************************************************************************)
Carried == \A c \in connections : \E r \in DOMAIN requests : requests[r] = c

Exact ==
    /\ RequestsRecorded
    /\ Carried
    /\ DOMAIN m_HttpRequest \subseteq DOMAIN requests

\* A destroyed server has no thread, and nobody sends through it.
Quiet ==
    main = "deleted" => thread = "none" /\ (~failed => connections = {})

Book == FreedOnce /\ (~failed => Exact) /\ Quiet

LEMMA BookInit == Init => Book
BY FreedOnceInit DEF Init, Book, Exact, Carried, Quiet, RequestsRecorded, None

LEMMA ExactNext == FreedOnce /\ (~failed => Exact) /\ [Next]_vars => (~failed => Exact)'
<1> SUFFICES ASSUME FreedOnce, ~failed => Exact, [Next]_vars, ~failed'
             PROVE  Exact'
    OBVIOUS
<1> USE DEF Exact, RequestsRecorded, Carried
<1>1. CASE UNCHANGED bookVars
    BY <1>1 DEF bookVars
<1>2. CASE Destroy
    <2>1. ~failed BY <1>2 DEF Destroy
    <2> QED BY <1>2, <2>1 DEF Destroy, FreeConnections, OnConnection, Without, None
<1>3. ASSUME NEW r \in Requests, NEW c \in Connections, SendHttpRequest(r, c)
      PROVE  Exact'
    <2>1. /\ c \notin connections /\ r \notin DOMAIN requests
          /\ connections' = connections \cup {c}
          /\ m_HttpRequest' = Insert(m_HttpRequest, r, c)
          /\ requests' = Put(requests, r, c)
          /\ ~failed
        BY <1>3 DEF SendHttpRequest
    <2>2. r \notin DOMAIN m_HttpRequest
        BY <2>1
    <2>3. m_HttpRequest' = Put(m_HttpRequest, r, c)
        BY <2>1, <2>2 DEF Insert
    <2>4. RequestsRecorded'
        BY <2>1, <2>3 DEF Put
    <2>5. Carried'
        BY <2>1, <2>3 DEF Put
    <2> QED BY <2>1, <2>3, <2>4, <2>5 DEF Put
<1>4. ASSUME NEW r \in Requests, OnHttpRequestDone(r)
      PROVE  Exact'
    <2>1. /\ r \in DOMAIN requests /\ ~failed
          /\ r \in DOMAIN m_HttpRequest /\ m_HttpRequest[r] = requests[r]
        BY <1>4 DEF OnHttpRequestDone
    <2>2. OnConnection({m_HttpRequest[r]}) = {r}
        BY <2>1 DEF FreedOnce, OnConnection
    <2>3. /\ m_HttpRequest' = Without(m_HttpRequest, {r})
          /\ requests' = Without(requests, {r})
          /\ connections' = connections \ {requests[r]}
        <3>1. {m_HttpRequest[x] : x \in {r} \cap DOMAIN m_HttpRequest} = {m_HttpRequest[r]}
            BY <2>1
        <3> QED BY <1>4, <2>1, <2>2, <3>1 DEF OnHttpRequestDone, FreeConnections
    <2> QED BY <2>1, <2>3 DEF Without
<1>5. ASSUME NEW r \in Requests, OnHttpRequestError(r)
      PROVE  FALSE
    BY <1>5 DEF OnHttpRequestError
<1> QED BY <1>1, <1>2, <1>3, <1>4, <1>5, BookSteps

LEMMA QuietNext == Book /\ [Next]_vars => Quiet'
<1> SUFFICES ASSUME Book, [Next]_vars, main' = "deleted"
             PROVE  thread' = "none" /\ (~failed' => connections' = {})
    BY DEF Quiet
<1>1. CASE Destroy
    <2>1. ~failed => \A c \in connections : \E r \in DOMAIN m_HttpRequest : m_HttpRequest[r] = c
        BY DEF Book, Exact, RequestsRecorded, Carried
    <2> QED BY <1>1, <2>1 DEF Destroy, FreeConnections
<1>2. CASE Main /\ ~Destroy
    BY <1>2 DEF Book, Quiet, Main, Start, Stop, LoopBreak, Join, libVars, threadVars
<1>3. CASE ThreadProcess
    <2>1. main' = main /\ thread # "none"
        BY <1>3 DEF ThreadProcess, Listen, OnRegisterServer, OnInit, EventBaseLoop, Handle, OnHttpRequest,
              OnHttpRequestDone, OnHttpRequestError, LoopDone, OnUpdate, LeaveLoop, OnRelease, mainVars
    <2> QED BY <2>1 DEF Book, Quiet
<1>4. CASE \E r \in Requests, c \in Connections : SendHttpRequest(r, c)
    BY <1>4 DEF Book, Quiet, SendHttpRequest, MaySend, mainVars
<1>5. CASE \E p \in Paths : Ask(p)
    BY <1>5 DEF Book, Quiet, Ask, libVars, threadVars, mainVars
<1>6. CASE Deleted \/ UNCHANGED vars
    BY <1>6 DEF Book, Quiet, Deleted, vars, libVars, threadVars, mainVars
<1> QED BY <1>1, <1>2, <1>3, <1>4, <1>5, <1>6 DEF Next

(***************************************************************************)
(* Until a request fails, m_HttpRequest is exact: every outstanding        *)
(* request is recorded with its connection, no connection outlives its     *)
(* request, and the destructor leaves nothing.  Book is the inductive      *)
(* strengthening: no key of the map is stale, which is why insert never    *)
(* meets an entry of an earlier request at the same address.               *)
(***************************************************************************)
THEOREM MapExactUntilFailure == Spec => []ExactUntilFailure
<1>1. Book /\ [Next]_vars => Book'
    BY FreedOnceNext, ExactNext, QuietNext DEF Book
<1>2. Book => ExactUntilFailure
    BY DEF Book, Exact, Carried, Quiet, ExactUntilFailure, FreedOnce
<1> QED BY BookInit, <1>1, <1>2, PTL DEF Spec
-----------------------------------------------------------------------------
(***************************************************************************)
(* Where the thread is and what clients can expect: the port is open only  *)
(* between the bind and evhttp_free, a client waits only while it is, and  *)
(* past OnRegisterServer every registered path has its callback.           *)
(***************************************************************************)
Bound == {"register", "init", "test", "dispatch", "update", "release"}

Serving ==
    /\ client \in [Paths -> {"idle", "waiting", "ok", "notfound", "dropped"}]
    /\ listening => thread \in Bound
    /\ Waiting # {} => listening
    /\ thread \notin {"none", "start", "register"} => Registered \subseteq m_ServerCallBack

\* The actions that concern neither the clients nor the place of the thread.
LEMMA Elsewhere ==
    ASSUME \/ Stop \/ LoopBreak \/ Destroy \/ Deleted \/ UNCHANGED vars
           \/ \E r \in Requests, c \in Connections : SendHttpRequest(r, c)
           \/ \E r \in Requests : OnHttpRequestDone(r) \/ OnHttpRequestError(r)
    PROVE  UNCHANGED << client, listening, thread, m_ServerCallBack >>
  BY DEF Stop, LoopBreak, Destroy, Deleted, SendHttpRequest, OnHttpRequestDone, OnHttpRequestError,
         vars, clientVars, threadVars

LEMMA ServingInit == Init => Serving
  BY DEF Init, Serving, Waiting

LEMMA ServingNext == Serving /\ [Next]_vars => Serving'
<1> SUFFICES ASSUME Serving, [Next]_vars PROVE Serving'
  OBVIOUS
<1> USE DEF Serving, Bound
<1>1. CASE UNCHANGED << client, listening, thread, m_ServerCallBack >>
  BY <1>1 DEF Waiting
<1>2. CASE Start
  BY <1>2 DEF Start, Waiting, clientVars
<1>3. CASE Join
  BY <1>3 DEF Join, Waiting, clientVars
<1>4. CASE Listen
  BY <1>4 DEF Listen, Waiting
<1>5. CASE OnRegisterServer
  BY <1>5 DEF OnRegisterServer, Waiting, clientVars
<1>6. CASE OnInit \/ EventBaseLoop \/ LoopDone \/ OnUpdate \/ LeaveLoop
  BY <1>6 DEF OnInit, EventBaseLoop, LoopDone, OnUpdate, LeaveLoop, Waiting, clientVars
<1>7. ASSUME NEW p \in Paths, OnHttpRequest(p) PROVE Serving'
  <2>1. client' = [client EXCEPT ![p] = Reply(p)] /\ Reply(p) \in {"ok", "notfound"}
    BY <1>7 DEF OnHttpRequest, Reply
  <2>2. Waiting' \subseteq Waiting
    BY <2>1 DEF Waiting
  <2> QED BY <1>7, <2>1, <2>2 DEF OnHttpRequest
<1>8. CASE OnRelease
  BY <1>8 DEF OnRelease, Waiting
<1>9. ASSUME NEW p \in Paths, Ask(p) PROVE Serving'
  BY <1>9 DEF Ask, Waiting, threadVars
<1> QED BY <1>1, <1>2, <1>3, <1>4, <1>5, <1>6, <1>7, <1>8, <1>9, Elsewhere DEF Next, Main, ThreadProcess, Handle

(***************************************************************************)
(* A client that asks for a registered path is never told it is not there, *)
(* however early it comes, for any paths and any number of restarts: no    *)
(* request is dispatched before OnRegisterServer has run.                  *)
(***************************************************************************)
THEOREM RegisteredAnswered == Spec => []RegisteredServed
<1> DEFINE Inv == Serving /\ RegisteredServed
<1>1. Init => Inv
  BY ServingInit, HttpAssumption DEF Init, RegisteredServed
<1>2. Inv /\ [Next]_vars => Inv'
  <2> SUFFICES ASSUME Serving, RegisteredServed, [Next]_vars, NEW q \in Registered PROVE client'[q] # "notfound"
    BY ServingNext DEF RegisteredServed
  <2>1. q \in Paths /\ client[q] # "notfound"
    BY HttpAssumption DEF RegisteredServed
  <2>2. ASSUME NEW p \in Paths, OnHttpRequest(p) PROVE client'[q] # "notfound"
    <3>1. q \in m_ServerCallBack
      BY <2>2 DEF Serving, OnHttpRequest
    <3>2. Reply(q) = "ok"
      BY <3>1 DEF Reply
    <3> QED BY <2>1, <2>2, <3>2 DEF Serving, OnHttpRequest
  <2>3. CASE OnRelease
    BY <2>1, <2>3 DEF OnRelease
  <2>4. ASSUME NEW p \in Paths, Ask(p) PROVE client'[q] # "notfound"
    BY <2>1, <2>4 DEF Ask, Serving
  <2>5. CASE Start \/ Join \/ Listen \/ OnRegisterServer \/ OnInit \/ EventBaseLoop \/ LoopDone \/ OnUpdate \/ LeaveLoop
    BY <2>1, <2>5 DEF Start, Join, Listen, OnRegisterServer, OnInit, EventBaseLoop, LoopDone, OnUpdate, LeaveLoop,
                      clientVars
  <2>6. CASE UNCHANGED client
    BY <2>1, <2>6
  <2> QED BY <2>2, <2>3, <2>4, <2>5, <2>6, Elsewhere DEF Next, Main, ThreadProcess, Handle
<1>3. Inv => RegisteredServed
  OBVIOUS
<1> QED BY <1>1, <1>2, <1>3, PTL DEF Spec
-----------------------------------------------------------------------------
(***************************************************************************)
(* The types, and the event base behind every outgoing connection.         *)
(***************************************************************************)
Flags == {m_Run, m_EventBase, event_break, listening} \subseteq BOOLEAN

LEMMA FlagsNext == Flags /\ [Next]_vars => Flags'
<1> SUFFICES ASSUME Flags, [Next]_vars PROVE Flags'
  OBVIOUS
<1> USE DEF Flags
<1>1. CASE Main
  BY <1>1 DEF Main, Start, Stop, LoopBreak, Join, Destroy, clientVars, threadVars
<1>2. CASE ThreadProcess
  BY <1>2 DEF ThreadProcess, Handle, Listen, OnRegisterServer, OnInit, EventBaseLoop, OnHttpRequest,
              OnHttpRequestDone, OnHttpRequestError, LoopDone, OnUpdate, LeaveLoop, OnRelease, clientVars, mainVars
<1>3. CASE \/ \E r \in Requests, c \in Connections : SendHttpRequest(r, c)
           \/ \E p \in Paths : Ask(p)
           \/ Deleted \/ UNCHANGED vars
  BY <1>3 DEF SendHttpRequest, Ask, Deleted, vars, clientVars, threadVars, mainVars
<1> QED BY <1>1, <1>2, <1>3 DEF Next

LEMMA TypesInit == Init => TypeOK
  BY DEF Init, TypeOK, None

LEMMA TypesNext == TypeOK /\ [Next]_vars => TypeOK'
<1> SUFFICES ASSUME TypeOK, [Next]_vars PROVE TypeOK'
  OBVIOUS
<1>1. Flags'
  BY FlagsNext DEF TypeOK, Flags
<1> USE <1>1 DEF TypeOK, Flags
<1>2. CASE Start \/ Stop \/ LoopBreak \/ Join
  BY <1>2 DEF Start, Stop, LoopBreak, Join, clientVars, libVars, threadVars
<1>3. CASE Destroy
  BY <1>3 DEF Destroy, FreeConnections, Without, None, clientVars
<1>4. CASE Listen \/ OnRegisterServer \/ OnInit \/ LoopDone \/ OnUpdate \/ LeaveLoop
  BY <1>4 DEF Listen, OnRegisterServer, OnInit, LoopDone, OnUpdate, LeaveLoop, clientVars, libVars, mainVars
<1>5. CASE EventBaseLoop
  BY <1>5 DEF EventBaseLoop, Waiting, clientVars, libVars, mainVars
<1>6. ASSUME NEW p \in Paths, OnHttpRequest(p) PROVE TypeOK'
  BY <1>6 DEF OnHttpRequest, Reply, libVars, mainVars
<1>7. ASSUME NEW r \in Requests, OnHttpRequestDone(r) PROVE TypeOK'
  BY <1>7 DEF OnHttpRequestDone, FreeConnections, Without, clientVars, mainVars
<1>8. ASSUME NEW r \in Requests, OnHttpRequestError(r) PROVE TypeOK'
  BY <1>8 DEF OnHttpRequestError, Without, clientVars, mainVars
<1>9. CASE OnRelease
  BY <1>9 DEF OnRelease, libVars, mainVars
<1>10. ASSUME NEW r \in Requests, NEW c \in Connections, SendHttpRequest(r, c) PROVE TypeOK'
  BY <1>10 DEF SendHttpRequest, Insert, Put, clientVars, threadVars, mainVars
<1>11. ASSUME NEW p \in Paths, Ask(p) PROVE TypeOK'
  BY <1>11 DEF Ask, libVars, threadVars, mainVars
<1>12. CASE Deleted \/ UNCHANGED vars
  BY <1>12 DEF Deleted, vars, clientVars, libVars, threadVars, mainVars
<1> QED BY <1>2, <1>3, <1>4, <1>5, <1>6, <1>7, <1>8, <1>9, <1>10, <1>11, <1>12
        DEF Next, Main, ThreadProcess, Handle

(***************************************************************************)
(* Every variable of the HTTP server keeps its type, and until the server  *)
(* is destroyed no outgoing connection is without an event base.           *)
(***************************************************************************)
THEOREM ServerTypes == Spec => []TypeOK
  BY TypesInit, TypesNext, PTL DEF Spec
-----------------------------------------------------------------------------
(* main() of app1.                                                         *)

(***************************************************************************)
(* From its start to the end of its loop main() has is_run set unless a    *)
(* signal cleared it, and it stops the server only when one did.  What the *)
(* server promises (Serving) turns "no thread" into "no port and no        *)
(* client".                                                                *)
(***************************************************************************)
Obeys ==
    /\ app \in {"install", "run"} => is_run \/ caught
    /\ app = "stop" => caught

Gone ==
    app = "returned" => caught /\ thread = "none" /\ ~m_EventBase

AppInv == Serving /\ Obeys /\ Gone

\* A step of the program is a step of its server, or leaves the server alone.
LEMMA ServerSteps ==
    ASSUME [AppNext]_allVars
    PROVE  [Next]_vars
<1>1. CASE UNCHANGED vars
  BY <1>1
<1>2. CASE StartServer \/ StopServer \/ StopGoesOn \/ DestroyServer
  BY <1>2 DEF StartServer, StopServer, StopGoesOn, DestroyServer, Next, Main
<1>3. CASE SetRun \/ Install
  BY <1>3 DEF SetRun, Install
<1>4. CASE ServerThread \/ Surroundings
  BY <1>4 DEF ServerThread, Surroundings, Next
<1>5. ASSUME NEW s \in Signals, OnSignal(s) \/ Kill(s) PROVE UNCHANGED vars
  BY <1>5 DEF OnSignal, Kill
<1>6. CASE Ended \/ UNCHANGED allVars
  BY <1>6 DEF Ended, allVars
<1> QED BY <1>1, <1>2, <1>3, <1>4, <1>5, <1>6 DEF AppNext, MainThread

LEMMA AppInvInit == AppInit => AppInv
  BY ServingInit DEF AppInit, AppInv, Obeys, Gone

LEMMA ObeysNext == AppInv /\ [AppNext]_allVars => Obeys'
<1> SUFFICES ASSUME Obeys, [AppNext]_allVars PROVE Obeys'
  BY DEF AppInv
<1> USE DEF Obeys
<1>1. CASE MainThread
  BY <1>1 DEF MainThread, StartServer, SetRun, Install, StopServer, StopGoesOn, DestroyServer, appVars
<1>2. CASE ServerThread \/ Surroundings \/ Ended \/ UNCHANGED allVars
  BY <1>2 DEF ServerThread, Surroundings, Ended, allVars, appVars
<1>3. ASSUME NEW s \in Signals, OnSignal(s) \/ Kill(s) PROVE Obeys'
  BY <1>3 DEF OnSignal, Kill
<1> QED BY <1>1, <1>2, <1>3 DEF AppNext

LEMMA GoneNext == AppInv /\ [AppNext]_allVars => Gone'
<1> SUFFICES ASSUME Obeys, Gone, [AppNext]_allVars PROVE Gone'
  BY DEF AppInv
<1> USE DEF Gone
<1>1. CASE DestroyServer
  BY <1>1 DEF DestroyServer, Destroy, Obeys
<1>2. CASE StartServer \/ SetRun \/ Install \/ StopServer \/ StopGoesOn
  BY <1>2 DEF StartServer, SetRun, Install, StopServer, StopGoesOn, appVars
<1>3. CASE ServerThread \/ Surroundings
  BY <1>3 DEF ServerThread, Surroundings, Alive, appVars
<1>4. CASE Ended \/ UNCHANGED allVars
  BY <1>4 DEF Ended, allVars, appVars, vars, threadVars
<1>5. ASSUME NEW s \in Signals, OnSignal(s) \/ Kill(s) PROVE Gone'
  BY <1>5 DEF OnSignal, Kill, Alive
<1> QED BY <1>1, <1>2, <1>3, <1>4, <1>5 DEF AppNext, MainThread

(***************************************************************************)
(* main() returns only after a signal, and then the server's thread is     *)
(* gone, its port closed, no client left waiting and the base freed,       *)
(* whenever the signal came and whatever the server was doing.             *)
(***************************************************************************)
THEOREM ReturnsClean == AppSpec => []CleanReturn
<1>1. AppInv /\ [AppNext]_allVars => AppInv'
  BY ServerSteps, ServingNext, ObeysNext, GoneNext DEF AppInv
<1>2. AppInv => CleanReturn
  BY DEF AppInv, Serving, Bound, Gone, CleanReturn
<1> QED BY AppInvInit, <1>1, <1>2, PTL DEF AppSpec
=============================================================================
