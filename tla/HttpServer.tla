----------------------------- MODULE HttpServer -----------------------------
(***************************************************************************)
(* HttpServer: the main thread starts and stops a thread that runs a       *)
(* libevent loop.  The loop answers the requests of HTTP clients and       *)
(* completes the requests the program itself sends (SendHttpRequest); for  *)
(* each of those the server keeps the connection in m_HttpRequest, under   *)
(* the address of the request, to free it when the request is done.        *)
(*                                                                         *)
(* libevent is external: a request or a connection is its address, and a   *)
(* freed address may be handed out again by the next allocation.           *)
(***************************************************************************)
EXTENDS Naturals

CONSTANTS
    Paths,        \* the paths clients ask for, one client each
    Registered,   \* the paths OnRegisterServer registers
    HasDefault,   \* whether OnRegisterServer sets m_DefaultCallBack
    Requests,     \* addresses of outgoing requests
    Connections,  \* addresses of outgoing connections
    MaxSends,     \* bound: calls of SendHttpRequest
    MaxStarts     \* bound: calls of Start

ASSUME HttpAssumption ==
    /\ Registered \subseteq Paths
    /\ HasDefault \in BOOLEAN
    /\ MaxSends \in Nat /\ MaxStarts \in Nat

VARIABLES
    m_Run,
    m_EventBase,      \* whether the event base exists
    event_break,      \* the base's flag set by event_base_loopbreak
    m_ServerCallBack, \* the registered paths
    m_HttpRequest,    \* request address -> connection address
    thread,           \* where the server's thread is
    main,             \* where the main thread is in the server's methods
    listening,        \* whether http_server is bound to the port
    client,           \* per path: what became of its client's last request
    ready,            \* the events event_base_loop has found and not handled
    requests,         \* libevent: outstanding requests -> their connection
    connections,      \* libevent: allocated connections
    failed,           \* whether an outgoing request has failed so far
    sends, starts

clientVars == << listening, client >>
libVars    == << requests, connections >>
threadVars == << m_EventBase, event_break, m_ServerCallBack, thread, ready >>
mainVars   == << m_Run, main, starts >>
vars == << clientVars, libVars, threadVars, mainVars, m_HttpRequest, failed, sends >>

None == [r \in {} |-> r]

Init ==
    /\ m_Run = FALSE /\ m_EventBase = FALSE /\ event_break = FALSE
    /\ m_ServerCallBack = {}
    /\ m_HttpRequest = None
    /\ thread = "none" /\ main = "idle"
    /\ listening = FALSE
    /\ client = [p \in Paths |-> "idle"]
    /\ ready = {}
    /\ requests = None
    /\ connections = {}
    /\ failed = FALSE
    /\ sends = 0 /\ starts = 0
-----------------------------------------------------------------------------
(***************************************************************************)
(* std::map and libevent's ownership of requests and connections.          *)
(***************************************************************************)
Without(f, S) == [r \in DOMAIN f \ S |-> f[r]]

Put(f, r, c) == [x \in DOMAIN f \cup {r} |-> IF x = r THEN c ELSE f[x]]

\* map::insert leaves an entry that is there already as it is.
Insert(f, r, c) == IF r \in DOMAIN f THEN f ELSE Put(f, r, c)

OnConnection(S) == {r \in DOMAIN requests : requests[r] \in S}

\* evhttp_connection_free for every connection in S: its requests go with it.
FreeConnections(S, done) ==
    /\ connections' = connections \ S
    /\ requests' = Without(requests, OnConnection(S) \cup done)
-----------------------------------------------------------------------------
(***************************************************************************)
(* The main thread.  It starts a server that is stopped and destroys it    *)
(* when it is stopped; Stop does nothing to a server that is.              *)
(***************************************************************************)
Start ==
    /\ main = "idle" /\ thread = "none"
    /\ starts < MaxStarts
    /\ starts' = starts + 1
    /\ m_Run' = TRUE
    /\ thread' = "start"
    /\ UNCHANGED << clientVars, libVars, m_EventBase, event_break, m_ServerCallBack, ready, main, m_HttpRequest, failed, sends >>

\* Mutant of Stop: it relies on event_base_loopbreak alone.
StopOnlyBreaks ==
    /\ main = "idle"
    /\ m_Run
    /\ main' = "break"
    /\ UNCHANGED << clientVars, libVars, threadVars, m_Run, starts, m_HttpRequest, failed, sends >>

Stop ==
    /\ main = "idle"
    /\ m_Run
    /\ m_Run' = FALSE
    /\ main' = "break"
    /\ UNCHANGED << clientVars, libVars, threadVars, starts, m_HttpRequest, failed, sends >>

\* event_base_loopbreak, which does nothing to a base that is not there yet.
LoopBreak ==
    /\ main = "break"
    /\ event_break' = m_EventBase
    /\ main' = "join"
    /\ UNCHANGED << clientVars, libVars, m_EventBase, m_ServerCallBack, thread, ready, m_Run, starts, m_HttpRequest, failed, sends >>

Join ==
    /\ main = "join" /\ thread = "exit"
    /\ thread' = "none"
    /\ main' = "idle"
    /\ UNCHANGED << clientVars, libVars, m_EventBase, event_break, m_ServerCallBack, ready, m_Run, starts, m_HttpRequest, failed, sends >>

\* Mutant of Destroy: the map is cleared without freeing the connections.
DestroyClears ==
    /\ main = "idle" /\ thread = "none"
    /\ m_HttpRequest' = None
    /\ m_EventBase' = FALSE
    /\ main' = "deleted"
    /\ UNCHANGED << clientVars, libVars, event_break, m_ServerCallBack, thread, ready, m_Run, starts, failed, sends >>

\* ~HttpServer frees the connections still in the map, then the base.
Destroy ==
    /\ main = "idle" /\ thread = "none"
    /\ FreeConnections({m_HttpRequest[r] : r \in DOMAIN m_HttpRequest}, {})
    /\ m_HttpRequest' = None
    /\ m_EventBase' = FALSE
    /\ main' = "deleted"
    /\ UNCHANGED << clientVars, event_break, m_ServerCallBack, thread, ready, m_Run, starts, failed, sends >>
-----------------------------------------------------------------------------
(***************************************************************************)
(* SendHttpRequest, called where the program's own code runs: in OnInit,   *)
(* OnUpdate, OnRelease and the handlers of requests, or by the main thread *)
(* while the server is stopped.  The result of evhttp_make_request is not  *)
(* looked at; when it fails, libevent has freed the request.               *)
(***************************************************************************)
MaySend ==
    \/ thread \in {"init", "dispatch", "update", "release"}
    \/ main = "idle" /\ thread = "none"

SendHttpRequest(r, c) ==
    /\ MaySend
    /\ sends < MaxSends
    /\ m_EventBase
    /\ c \notin connections
    /\ r \notin DOMAIN requests
    /\ sends' = sends + 1
    /\ connections' = connections \cup {c}
    /\ m_HttpRequest' = Insert(m_HttpRequest, r, c)
    /\ \/ requests' = Put(requests, r, c) /\ UNCHANGED failed
       \/ failed' = TRUE /\ UNCHANGED requests
    /\ UNCHANGED << clientVars, threadVars, mainVars >>
-----------------------------------------------------------------------------
(***************************************************************************)
(* The server's thread (ThreadProcess).                                    *)
(***************************************************************************)
\* Mutant of Listen: OnRegisterServer is not called.
ListenUnregistered ==
    /\ thread = "start"
    /\ m_EventBase' = TRUE
    /\ listening' \in BOOLEAN
    /\ thread' = "init"
    /\ UNCHANGED << client, libVars, event_break, m_ServerCallBack, ready, mainVars, m_HttpRequest, failed, sends >>

\* The base is made and the port bound; a bind that fails goes unnoticed.
Listen ==
    /\ thread = "start"
    /\ m_EventBase' = TRUE
    /\ listening' \in BOOLEAN
    /\ thread' = "register"
    /\ UNCHANGED << client, libVars, event_break, m_ServerCallBack, ready, mainVars, m_HttpRequest, failed, sends >>

OnRegisterServer ==
    /\ thread = "register"
    /\ m_ServerCallBack' = m_ServerCallBack \cup Registered
    /\ thread' = "init"
    /\ UNCHANGED << clientVars, libVars, m_EventBase, event_break, ready, mainVars, m_HttpRequest, failed, sends >>

OnInit ==
    /\ thread = "init"
    /\ thread' = "test"
    /\ UNCHANGED << clientVars, libVars, m_EventBase, event_break, m_ServerCallBack, ready, mainVars, m_HttpRequest, failed, sends >>

Waiting == {p \in Paths : client[p] = "waiting"}

\* event_base_loop polls once: the clients that wait, the requests that ended.
EventBaseLoop ==
    /\ thread = "test"
    /\ m_Run
    /\ event_break' = FALSE
    /\ \E ended \in SUBSET DOMAIN requests : ready' = Waiting \cup ended
    /\ thread' = "dispatch"
    /\ UNCHANGED << clientVars, libVars, m_EventBase, m_ServerCallBack, mainVars, m_HttpRequest, failed, sends >>

\* What OnHttpRequest answers to the path p.
Reply(p) == IF p \in m_ServerCallBack \/ HasDefault THEN "ok" ELSE "notfound"

OnHttpRequest(p) ==
    /\ thread = "dispatch"
    /\ p \in ready
    /\ ready' = ready \ {p}
    /\ client' = [client EXCEPT ![p] = Reply(p)]
    /\ UNCHANGED << listening, libVars, m_EventBase, event_break, m_ServerCallBack, thread, mainVars, m_HttpRequest, failed, sends >>

\* Mutant of OnHttpRequestDone: the entry stays in the map.
OnHttpRequestDoneKeeps(r) ==
    /\ thread = "dispatch"
    /\ r \in ready /\ r \in DOMAIN requests
    /\ ready' = ready \ {r}
    /\ FreeConnections({m_HttpRequest[x] : x \in {r} \cap DOMAIN m_HttpRequest}, {r})
    /\ UNCHANGED << clientVars, m_EventBase, event_break, m_ServerCallBack, thread, mainVars, m_HttpRequest, failed, sends >>

(***************************************************************************)
(* The request r was answered, or no connection could be made: libevent    *)
(* calls OnHttpRequestDone with it and frees it afterwards.                *)
(***************************************************************************)
OnHttpRequestDone(r) ==
    /\ thread = "dispatch"
    /\ r \in ready /\ r \in DOMAIN requests
    /\ ready' = ready \ {r}
    /\ FreeConnections({m_HttpRequest[x] : x \in {r} \cap DOMAIN m_HttpRequest}, {r})
    /\ m_HttpRequest' = Without(m_HttpRequest, {r})
    /\ UNCHANGED << clientVars, m_EventBase, event_break, m_ServerCallBack, thread, mainVars, failed, sends >>

(***************************************************************************)
(* The request r ended in an error, the timeout of 10 seconds for one:     *)
(* libevent frees it and calls OnHttpRequestDone with NULL, which is in no *)
(* map.                                                                    *)
(***************************************************************************)
OnHttpRequestError(r) ==
    /\ thread = "dispatch"
    /\ r \in ready /\ r \in DOMAIN requests
    /\ ready' = ready \ {r}
    /\ requests' = Without(requests, {r})
    /\ failed' = TRUE
    /\ UNCHANGED << clientVars, connections, m_EventBase, event_break, m_ServerCallBack, thread, mainVars, m_HttpRequest, sends >>

\* The loop returns when all is handled, or early once the flag is set.
LoopDone ==
    /\ thread = "dispatch"
    /\ ready = {} \/ event_break
    /\ ready' = {}
    /\ thread' = "update"
    /\ UNCHANGED << clientVars, libVars, m_EventBase, event_break, m_ServerCallBack, mainVars, m_HttpRequest, failed, sends >>

OnUpdate ==
    /\ thread = "update"
    /\ thread' = "test"
    /\ UNCHANGED << clientVars, libVars, m_EventBase, event_break, m_ServerCallBack, ready, mainVars, m_HttpRequest, failed, sends >>

LeaveLoop ==
    /\ thread = "test"
    /\ ~m_Run
    /\ thread' = "release"
    /\ UNCHANGED << clientVars, libVars, m_EventBase, event_break, m_ServerCallBack, ready, mainVars, m_HttpRequest, failed, sends >>

\* Mutant of OnRelease: http_server is not freed.
OnReleaseKeeps ==
    /\ thread = "release"
    /\ thread' = "exit"
    /\ UNCHANGED << clientVars, libVars, m_EventBase, event_break, m_ServerCallBack, ready, mainVars, m_HttpRequest, failed, sends >>

\* OnRelease, then evhttp_free: the port and the clients' connections close.
OnRelease ==
    /\ thread = "release"
    /\ listening' = FALSE
    /\ client' = [p \in Paths |-> IF client[p] = "waiting" THEN "dropped" ELSE client[p]]
    /\ thread' = "exit"
    /\ UNCHANGED << libVars, m_EventBase, event_break, m_ServerCallBack, ready, mainVars, m_HttpRequest, failed, sends >>

\* A client asks for its path, once more when it has had an answer.
Ask(p) ==
    /\ listening
    /\ client[p] # "waiting"
    /\ client' = [client EXCEPT ![p] = "waiting"]
    /\ UNCHANGED << listening, libVars, threadVars, mainVars, m_HttpRequest, failed, sends >>
-----------------------------------------------------------------------------
Handle(e) ==
    \/ e \in Paths /\ OnHttpRequest(e)
    \/ e \in Requests /\ (OnHttpRequestDone(e) \/ OnHttpRequestError(e))

ThreadProcess ==
    \/ Listen \/ OnRegisterServer \/ OnInit
    \/ EventBaseLoop
    \/ \E e \in Paths \cup Requests : Handle(e)
    \/ LoopDone \/ OnUpdate \/ LeaveLoop \/ OnRelease

Main == Start \/ Stop \/ LoopBreak \/ Join \/ Destroy

Deleted == main = "deleted" /\ UNCHANGED vars

Next ==
    \/ Main
    \/ ThreadProcess
    \/ \E r \in Requests, c \in Connections : SendHttpRequest(r, c)
    \/ \E p \in Paths : Ask(p)
    \/ Deleted

(***************************************************************************)
(* The thread is scheduled; the main thread, once in Stop, goes on.        *)
(* Nothing is assumed of the clients or of the servers asked.              *)
(***************************************************************************)
Spec ==
    /\ Init
    /\ [][Next]_vars
    /\ WF_vars(ThreadProcess)
    /\ WF_vars(LoopBreak \/ Join)
-----------------------------------------------------------------------------
(***************************************************************************)
(* The types, and: until the server is destroyed there are outgoing        *)
(* connections only while there is an event base.                          *)
(***************************************************************************)
TypeOK ==
    /\ {m_Run, m_EventBase, event_break, listening} \subseteq BOOLEAN
    /\ m_ServerCallBack \in SUBSET Registered
    /\ DOMAIN m_HttpRequest \subseteq Requests
    /\ thread \in {"none", "start", "register", "init", "test", "dispatch", "update", "release", "exit"}
    /\ main \in {"idle", "break", "join", "deleted"}
    /\ client \in [Paths -> {"idle", "waiting", "ok", "notfound", "dropped"}]
    /\ ready \subseteq Paths \cup Requests
    /\ DOMAIN requests \subseteq Requests
    /\ connections \subseteq Connections
    /\ connections # {} /\ main # "deleted" => m_EventBase

(***************************************************************************)
(* "The set of requests" (m_HttpRequest): every outstanding request is in  *)
(* the map, with the connection it was made on.                            *)
(***************************************************************************)
RequestsRecorded ==
    \A r \in DOMAIN requests : r \in DOMAIN m_HttpRequest /\ m_HttpRequest[r] = requests[r]

(***************************************************************************)
(* "Release the connection that belongs to the request"                    *)
(* (OnHttpRequestDone), as far as it goes: until a request fails, every    *)
(* outstanding request is in the map, an outgoing connection lives no      *)
(* longer than the request made on it, and the destructor leaves none      *)
(* behind, whenever the server was stopped and whatever was outstanding.   *)
(***************************************************************************)
ExactUntilFailure ==
    ~failed =>
        /\ RequestsRecorded
        /\ \A c \in connections : \E r \in DOMAIN requests : requests[r] = c
        /\ main = "deleted" => connections = {} /\ DOMAIN requests = {}

(***************************************************************************)
(* A connection is freed at most once, and never under a request: what the *)
(* map holds is allocated and there only once, and so are the connections  *)
(* of the outstanding requests.  A connection in the map under one request *)
(* does not carry another.                                                 *)
(***************************************************************************)
FreedOnce ==
    /\ \A r \in DOMAIN m_HttpRequest : m_HttpRequest[r] \in connections
    /\ \A r, s \in DOMAIN m_HttpRequest : m_HttpRequest[r] = m_HttpRequest[s] => r = s
    /\ \A r \in DOMAIN requests : requests[r] \in connections
    /\ \A r \in DOMAIN m_HttpRequest, s \in DOMAIN requests : m_HttpRequest[r] = requests[s] => r = s

(***************************************************************************)
(* A client that asks for a registered path is never told it is not there, *)
(* also not between the bind and OnRegisterServer.                         *)
(***************************************************************************)
RegisteredServed == \A p \in Registered : client[p] # "notfound"

(***************************************************************************)
(* Every client that was let in gets its answer, or sees its connection    *)
(* closed by Stop; none is left hanging.                                   *)
(***************************************************************************)
Answered == \A p \in Paths : client[p] = "waiting" ~> client[p] # "waiting"

(***************************************************************************)
(* Stop returns, also one that comes before the thread has got anywhere or *)
(* in the middle of the loop.                                              *)
(***************************************************************************)
StopReturns == main = "break" ~> main = "idle"
=============================================================================
