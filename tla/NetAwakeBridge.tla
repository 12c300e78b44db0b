--------------------------- MODULE NetAwakeBridge ---------------------------
(***************************************************************************)
(* NetAwakeBridge: a socket the manager connects to its own listener, so   *)
(* that another thread can get the net thread out of its wait by sending a *)
(* package through it (Notify).  Before it sends, Notify asks select       *)
(* whether the connection stands; select is called with nfds = 0, which    *)
(* Windows ignores and Linux obeys.  At the other end the net thread       *)
(* accepts the connection and reads it like any client's.                  *)
(*                                                                         *)
(* The bytes of the connection are named by their position in its stream.  *)
(***************************************************************************)
EXTENDS Integers

CONSTANTS
    NfdsIgnored,  \* TRUE on Windows, FALSE on Linux
    HEADER_SIZE,  \* bytes of a wake-up package, which has no body
    SocketRoom,   \* bytes the connection holds between send and recv
    RecvSize,     \* bytes one recv takes at most
    MaxNotify     \* bound: calls of Notify

ASSUME BridgeAssumption ==
    /\ NfdsIgnored \in BOOLEAN
    /\ HEADER_SIZE \in Nat \ {0} /\ SocketRoom \in Nat \ {0} /\ RecvSize \in Nat \ {0}
    /\ MaxNotify \in Nat

VARIABLES
    m_Send,       \* "none" or "open"
    connection,   \* "none", "connecting", "up", "refused" or "broken"
    accepted,     \* the other end: "no", "watched", "unwatched" or "refused"
    written,      \* bytes sent
    arrived,      \* bytes the net thread has put into m_RecvBuffer
    taken,        \* bytes it has taken out of it, package by package
    whole,        \* positions of the packages that were sent whole
    reading,      \* the net thread is in the loop of OnSocketRead
    notifier,     \* "idle" or "send", where Notify is
    notifies,     \* calls of Notify so far
    due,          \* where the last package that had to be sent ends
    selectFailed, \* CheckSend's select has returned SOCKET_ERROR
    cut           \* a send took less than a package

notifyVars == << m_Send, notifier, notifies, due, selectFailed >>
streamVars == << written, whole, cut >>
netVars == << accepted, arrived, taken, reading >>
bridgeVars == << notifyVars, streamVars, netVars, connection >>

BridgeInit ==
    /\ m_Send = "none" /\ notifier = "idle" /\ notifies = 0 /\ due = 0 /\ selectFailed = FALSE
    /\ written = 0 /\ whole = {} /\ cut = FALSE
    /\ accepted = "no" /\ arrived = 0 /\ taken = 0 /\ reading = FALSE
    /\ connection = "none"

Room == SocketRoom - (written - arrived)

\* Init: a non-blocking socket, connect under way, or nothing when that fails.
BridgeConnect ==
    /\ connection = "none"
    /\ \/ m_Send' = "open" /\ connection' = "connecting"
       \/ m_Send' = m_Send /\ connection' = "refused"
    /\ UNCHANGED << notifier, notifies, due, selectFailed, streamVars, netVars >>

\* The network: the connection is established, refused, or breaks.
Establish ==
    /\ \/ connection = "connecting" /\ connection' \in {"up", "refused"}
       \/ connection = "up" /\ connection' = "broken"
    /\ UNCHANGED << notifyVars, streamVars, netVars >>
-----------------------------------------------------------------------------
\* The descriptors among the first nfds that select reports, by kind.
Selected(kind) ==
    /\ NfdsIgnored
    /\ \/ kind = "write" /\ connection = "up" /\ Room > 0
       \/ kind = "write" /\ connection = "broken"
       \/ kind = "except" /\ connection = "refused"

\* Mutant of CheckSend: whether there is room is not looked at.
CheckSendRoomless ==
    /\ notifier' = IF m_Send = "open" /\ connection = "up" THEN "send" ELSE "idle"
    /\ UNCHANGED << m_Send, selectFailed >>

\* CheckSend: a failed connection is closed, one with room may be used; when
\* select itself fails the socket is closed, whatever the connection's state.
CheckSend ==
    \/ /\ m_Send' = IF m_Send = "open" /\ Selected("except") THEN "none" ELSE m_Send
       /\ notifier' = IF m_Send = "open" /\ Selected("write") THEN "send" ELSE "idle"
       /\ UNCHANGED selectFailed
    \/ /\ m_Send = "open"
       /\ m_Send' = "none" /\ notifier' = "idle" /\ selectFailed' = TRUE

\* Notify up to the result of CheckSend.
Notify ==
    /\ notifier = "idle"
    /\ notifies < MaxNotify
    /\ notifies' = notifies + 1
    /\ CheckSend
    /\ due' = IF m_Send' = "open" /\ connection = "up" /\ Room >= HEADER_SIZE
              THEN written + HEADER_SIZE ELSE due
    /\ UNCHANGED << connection, streamVars, netVars >>

\* Notify sends the package, as much of it as there is room for: only an error
\* is looked at, and closes the socket.  The socket does not block, so that
\* having no room is an error.
NotifySend ==
    /\ notifier = "send"
    /\ notifier' = "idle"
    /\ \/ /\ connection = "up" /\ Room >= HEADER_SIZE
          /\ written' = written + HEADER_SIZE
          /\ whole' = whole \cup {written}
          /\ UNCHANGED << m_Send, cut >>
       \/ /\ connection = "up" /\ Room > 0 /\ Room < HEADER_SIZE
          /\ written' = written + Room
          /\ cut' = TRUE
          /\ UNCHANGED << m_Send, whole >>
       \/ /\ connection = "broken" \/ Room = 0
          /\ m_Send' = "none"
          /\ UNCHANGED streamVars
    /\ UNCHANGED << connection, notifies, due, selectFailed, netVars >>
-----------------------------------------------------------------------------
\* The listener accepts the connection.  Its epoll_ctl may fail (Linux), after
\* which it is not watched, or it is closed: AddConnection has no place left
\* (Windows), or the listener fails and is closed itself.
Accept ==
    /\ connection = "up" /\ accepted = "no"
    /\ \/ /\ accepted' \in {"watched"} \cup (IF NfdsIgnored THEN {} ELSE {"unwatched"})
          /\ UNCHANGED connection
       \/ connection' = "broken" /\ UNCHANGED accepted
    /\ UNCHANGED << arrived, taken, reading, notifyVars, streamVars >>

\* OnSocketRead: recv takes part of what is there, or finds the other end closed.
ReadBridge ==
    /\ connection = "up" /\ accepted = "watched" /\ ~reading
    /\ \/ /\ \E n \in 1 .. RecvSize : n <= written - arrived /\ arrived' = arrived + n
          /\ reading' = TRUE
          /\ UNCHANGED connection
       \/ /\ m_Send = "none" /\ arrived = written
          /\ connection' = "broken"
          /\ UNCHANGED << arrived, reading >>
    /\ UNCHANGED << accepted, taken, notifyVars, streamVars >>

\* Mutants of CheckRecvPackage: a package that is just complete is left waiting;
\* everything arrived goes with the first package.
CheckRecvPackageLate ==
    /\ reading
    /\ \/ arrived - taken <= HEADER_SIZE /\ reading' = FALSE /\ UNCHANGED << taken, accepted, connection >>
       \/ arrived - taken > HEADER_SIZE /\ taken' = taken + HEADER_SIZE
          /\ UNCHANGED << reading, accepted, connection >>
    /\ UNCHANGED << arrived, notifyVars, streamVars >>

CheckRecvPackageAll ==
    /\ reading
    /\ \/ arrived - taken < HEADER_SIZE /\ reading' = FALSE /\ UNCHANGED << taken, accepted, connection >>
       \/ arrived - taken >= HEADER_SIZE /\ taken \in whole /\ taken' = arrived
          /\ UNCHANGED << reading, accepted, connection >>
       \/ arrived - taken >= HEADER_SIZE /\ taken \notin whole
          /\ accepted' = "refused" /\ connection' = "broken" /\ reading' = FALSE /\ UNCHANGED taken
    /\ UNCHANGED << arrived, notifyVars, streamVars >>

\* The loop of OnSocketRead: with less than a header it waits for more, a whole
\* package is taken.  Bytes that are no whole package have some header: a wrong
\* one, and the connection is closed, or one with a body of some length, there or
\* not (a negative one needs a byte above 127, and a wake-up has none).
CheckRecvPackage ==
    /\ reading
    /\ \/ /\ arrived - taken < HEADER_SIZE \/ taken \notin whole
          /\ reading' = FALSE
          /\ UNCHANGED << taken, accepted, connection >>
       \/ /\ arrived - taken >= HEADER_SIZE /\ taken \in whole
          /\ taken' = taken + HEADER_SIZE
          /\ UNCHANGED << reading, accepted, connection >>
       \/ /\ arrived - taken >= HEADER_SIZE /\ taken \notin whole
          /\ \/ accepted' = "refused" /\ connection' = "broken" /\ reading' = FALSE
                /\ UNCHANGED taken
             \/ taken' \in (taken + HEADER_SIZE) .. arrived
                /\ UNCHANGED << reading, accepted, connection >>
    /\ UNCHANGED << arrived, notifyVars, streamVars >>

BridgeIdle ==
    /\ connection # "none" /\ notifier = "idle" /\ notifies = MaxNotify
    /\ UNCHANGED bridgeVars

BridgeNext ==
    \/ BridgeConnect \/ Establish \/ Notify \/ NotifySend
    \/ Accept \/ ReadBridge \/ CheckRecvPackage \/ BridgeIdle

BridgeFairness ==
    /\ WF_bridgeVars(NotifySend)
    /\ WF_bridgeVars(Accept) /\ WF_bridgeVars(ReadBridge) /\ WF_bridgeVars(CheckRecvPackage)

BridgeSpec == BridgeInit /\ [][BridgeNext]_bridgeVars /\ BridgeFairness
-----------------------------------------------------------------------------
(***************************************************************************)
(* The bridge is given up only when its connection has failed, or select   *)
(* itself has: neither a Notify that comes before the connect is through   *)
(* nor one that meets a full connection spoils it for later calls.         *)
(***************************************************************************)
BridgeKept == connection \in {"connecting", "up"} /\ ~selectFailed => m_Send = "open"

(***************************************************************************)
(* The net thread takes the wake-ups for what they are however recv cuts   *)
(* the stream: it closes the bridge over its data only after a send with   *)
(* too little room, whose short count Notify does not look at.             *)
(***************************************************************************)
WakeUpsWhole == accepted = "refused" => cut

(***************************************************************************)
(* "Notify: wake up": a Notify that meets an established connection with   *)
(* room for its package gets the net thread out of its wait with it,       *)
(* unless the connection breaks, is one that epoll_ctl refused to watch,   *)
(* or its stream was cut.  (due only grows: what it was is reached too.)   *)
(***************************************************************************)
NotifyWakes ==
    due > taken ~> (taken >= due \/ connection = "broken" \/ accepted = "unwatched" \/ cut)
=============================================================================
