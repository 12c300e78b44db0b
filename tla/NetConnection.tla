--------------------------- MODULE NetConnection ---------------------------
(***************************************************************************)
(* One connection of the Net library as the net thread drives it on Linux: *)
(* epoll reports the socket, NetConnectionManager::OnSocketRead receives a *)
(* chunk, CheckRecvPackage / NetServer::OnRecvData cut packages off the    *)
(* receive buffer and answer them into the send buffer, OnSocketWrite      *)
(* flushes the send buffer, and every failure ends in OnSocketClose.       *)
(*                                                                         *)
(* Bytes are named, not valued.  A byte the peer sends is its position in  *)
(* the stream the peer writes, so a buffer that holds the stream           *)
(* undamaged holds consecutive numbers, and the header found in a buffer   *)
(* is the one whose first byte has that position.  A byte of a reply is    *)
(* numbered by the request it answers and its place in that reply.         *)
(***************************************************************************)
EXTENDS ByteBuffer, FiniteSets

CONSTANTS
    HEADER_SIZE,           \* NetPackageHeader::HEADER_SIZE
    NET_BUFFER_SIZE,       \* size of m_SendBuffer and of m_RecvBuffer
    NET_PACKAGE_MAX_SIZE,  \* the largest BodySize accepted
    RECV_SIZE,             \* size of the buffer handed to recv
    REPLY_SIZE,            \* BodySize of the answer to a login
    SOCK_SNDBUF,           \* what the kernel buffers towards a slow peer
    Packages,              \* headers the peer may send
    MaxSent,               \* bound: packages the peer sends
    MemcpyOrders           \* the memcpy directions of the libc in use

HEADER_SIGN == 88

CMD_HEARTBEAT == 3

CMD_LOGIN == 1001

(***************************************************************************)
(* NetPackageHeader, reduced to the fields the receiving side looks at.    *)
(* BodySize is a signed Int32 and arrives as the peer wrote it.            *)
(***************************************************************************)
Headers == [Sign : Nat, Command : Nat, BodySize : Int]

NoHeader == [Sign |-> 0, Command |-> 0, BodySize |-> 0]

ASSUME SizesAssumption ==
    /\ HEADER_SIZE \in Nat \ {0}
    /\ NET_BUFFER_SIZE \in Nat
    /\ NET_PACKAGE_MAX_SIZE \in Nat
    /\ RECV_SIZE \in Nat \ {0}
    /\ REPLY_SIZE \in Nat
    /\ SOCK_SNDBUF \in Nat \ {0}
    /\ MaxSent \in Nat

ASSUME PackagesAssumption == Packages \subseteq Headers

ASSUME MemcpyAssumption == MemcpyOrders \subseteq CopyOrders /\ MemcpyOrders # {}

(***************************************************************************)
(* An unfinished package and one more chunk always fit into m_RecvBuffer   *)
(* (in the code: 28 + 1024 - 1 + 1024 <= 8192).                            *)
(***************************************************************************)
ASSUME RecvBufferAssumption ==
    HEADER_SIZE + NET_PACKAGE_MAX_SIZE - 1 + RECV_SIZE <= NET_BUFFER_SIZE

VARIABLES
    sent,          \* packages the peer has started to write, with their position
    written,       \* bytes the peer has written
    consumed,      \* bytes recv has returned to the net thread
    peer,          \* "open", "closed" (FIN) or "reset"
    m_RecvBuffer, m_RecvHeader, m_SendBuffer,
    epollOut,      \* EPOLLOUT is in the socket's epoll interest set
    wire,          \* reply bytes the kernel took over from send()
    peerRead,      \* how many of them the peer has read
    received,      \* what TakeRecvPackage handed to the server
    ev,            \* the events epoll_wait reported, not looked at again
    pc,            \* where the net thread is
    why            \* why the socket is being removed

peerVars == << sent, written, peer, peerRead >>
connVars == << consumed, m_RecvBuffer, m_RecvHeader, m_SendBuffer, epollOut,
               wire, received >>
threadVars == << ev, pc, why >>
vars == << peerVars, connVars, threadVars >>
----------------------------------------------------------------------------
(* The byte stream and the packages in it.                                 *)

\* The size CheckRecvPackage and TakeRecvPackage compute from a header.
SizeOf(h) == HEADER_SIZE + h.BodySize

\* The bytes the peer really writes: no body goes with a negative size.
WireSize(h) == IF h.BodySize < 0 THEN HEADER_SIZE ELSE SizeOf(h)

Header(p) == [Sign |-> p.Sign, Command |-> p.Command, BodySize |-> p.BodySize]

\* The bytes from stream position at on.
Stream(at, len) == [i \in 1 .. len |-> at + i - 1]

(***************************************************************************)
(* NetPackageHeader::Unpack of the first HEADER_SIZE bytes of buf: the     *)
(* header the peer packed when those are a package's first bytes, and      *)
(* whatever header anybody may send when they are not.                     *)
(***************************************************************************)
Unpack(buf) ==
    LET at(p) == \A i \in 1 .. HEADER_SIZE : buf[i] = p.at + i - 1
        here  == {k \in DOMAIN sent : at(sent[k])}
    IN  IF here = {} THEN Packages ELSE {Header(sent[k]) : k \in here}

\* What Pack and the body make of the answer to request r.
ReplyLen == HEADER_SIZE + REPLY_SIZE

Reply(r) == [i \in 1 .. ReplyLen |-> r * ReplyLen + i - 1]
----------------------------------------------------------------------------
Init ==
    /\ sent = << >>
    /\ written = 0
    /\ consumed = 0
    /\ peer = "open"
    /\ m_RecvBuffer = << >>
    /\ m_RecvHeader = NoHeader
    /\ m_SendBuffer = << >>
    /\ epollOut = FALSE
    /\ wire = << >>
    /\ peerRead = 0
    /\ received = << >>
    /\ ev = {}
    /\ pc = "select"
    /\ why = "none"
----------------------------------------------------------------------------
(* The peer and the network.                                               *)

PeerSend(h) ==
    /\ peer = "open"
    /\ Len(sent) < MaxSent
    /\ sent' = Append(sent, [Sign |-> h.Sign, Command |-> h.Command,
                             BodySize |-> h.BodySize, at |-> written])
    /\ written' = written + WireSize(h)
    /\ UNCHANGED << peer, peerRead, connVars, threadVars >>

\* The peer goes away, perhaps in the middle of a package.
PeerLeave(how) ==
    /\ peer = "open" \/ (peer = "closed" /\ how = "reset")
    /\ peer' = how
    /\ written' \in consumed .. written
    /\ UNCHANGED << sent, peerRead, connVars, threadVars >>

PeerRead ==
    /\ peer = "open"
    /\ peerRead < Len(wire)
    /\ peerRead' \in peerRead + 1 .. Len(wire)
    /\ UNCHANGED << sent, written, peer, connVars, threadVars >>
----------------------------------------------------------------------------
(* The net thread.                                                         *)

Ready ==
    {e \in {"ERR", "IN", "OUT"} :
        CASE e = "ERR" -> peer = "reset"
          [] e = "IN"  -> consumed < written \/ peer # "open"
          [] e = "OUT" -> epollOut /\ Len(wire) - peerRead < SOCK_SNDBUF}

(***************************************************************************)
(* SelectSocketLinux: epoll_wait, and which handler the reported events    *)
(* lead to.  Level triggered: nothing is reported for an idle socket.      *)
(***************************************************************************)
EpollWait ==
    /\ pc = "select"
    /\ Ready # {}
    /\ ev' = Ready
    /\ pc' = IF "ERR" \in Ready THEN "remove" ELSE IF "IN" \in Ready THEN "read" ELSE "write"
    /\ why' = IF "ERR" \in Ready THEN "err" ELSE "none"
    /\ UNCHANGED << peerVars, connVars >>

Remove(reason) ==
    /\ pc' = "remove"
    /\ why' = reason
    /\ UNCHANGED ev

(***************************************************************************)
(* OnSocketRead up to AddRecvData.  recv returns any part of what has      *)
(* arrived, 0 once everything before a FIN was read, an error on a reset   *)
(* connection.                                                             *)
(***************************************************************************)
OnSocketRead ==
    /\ pc = "read"
    /\ \/ \E n \in 1 .. RECV_SIZE :
            /\ consumed + n <= written
            /\ consumed' = consumed + n
            /\ m_RecvBuffer' = AddData(m_RecvBuffer, Stream(consumed, n), NET_BUFFER_SIZE)
            /\ IF Fits(m_RecvBuffer, n, NET_BUFFER_SIZE)
               THEN pc' = "check" /\ UNCHANGED << ev, why >>
               ELSE Remove("full")
       \/ /\ peer = "closed"
          /\ consumed = written
          /\ Remove("peer")
          /\ UNCHANGED << consumed, m_RecvBuffer >>
       \/ /\ peer = "reset"
          /\ Remove("recv")
          /\ UNCHANGED << consumed, m_RecvBuffer >>
    /\ UNCHANGED << peerVars, m_RecvHeader, m_SendBuffer, epollOut, wire, received >>

\* No header is cached and the buffer holds one.
HeaderArrived == m_RecvHeader.Sign = 0 /\ Len(m_RecvBuffer) >= HEADER_SIZE

\* Mutants of BadHeader: the size is not checked; the limit itself is refused.
BadHeaderAnySize(h) == h.Sign # HEADER_SIGN
BadHeaderAtLimit(h) == h.Sign # HEADER_SIGN \/ h.BodySize >= NET_PACKAGE_MAX_SIZE

\* Why CheckRecvPackage answers -1.
BadHeader(h) == h.Sign # HEADER_SIGN \/ h.BodySize > NET_PACKAGE_MAX_SIZE

\* Mutant of PackageArrived: > for >=.
PackageArrivedLate(h) == h.Sign # 0 /\ Len(m_RecvBuffer) > SizeOf(h)

\* Why CheckRecvPackage answers 1.
PackageArrived(h) == h.Sign # 0 /\ Len(m_RecvBuffer) >= SizeOf(h)

(***************************************************************************)
(* CheckRecvPackage and the branch of the do-while that follows it: -1     *)
(* removes the socket, 1 takes the package, 0 ends the loop.               *)
(***************************************************************************)
CheckRecvPackage ==
    /\ pc = "check"
    /\ \E h \in IF HeaderArrived THEN Unpack(m_RecvBuffer) ELSE {m_RecvHeader} :
         /\ m_RecvHeader' = h
         /\ IF HeaderArrived /\ BadHeader(h)
            THEN Remove("data")
            ELSE /\ pc' = IF PackageArrived(h) THEN "take" ELSE "write"
                 /\ UNCHANGED << ev, why >>
    /\ UNCHANGED << peerVars, consumed, m_RecvBuffer, m_SendBuffer, epollOut, wire, received >>

\* Mutant of UpdateConnectionSend: called before the buffer changes, not after.
UpdateConnectionSendEarly == epollOut' = (Len(m_SendBuffer) > 0)

\* The socket's epoll interest follows IsNeedWrite.
UpdateConnectionSend == epollOut' = (Len(m_SendBuffer') > 0)

(***************************************************************************)
(* AddSendData: the data is queued whole or not at all, and the epoll      *)
(* interest is updated either way.                                         *)
(***************************************************************************)
AddSendData(data) ==
    /\ m_SendBuffer' = AddData(m_SendBuffer, data, NET_BUFFER_SIZE)
    /\ UpdateConnectionSend

\* Mutant of TakeRecvPackage: the cached header is not reset.
TakeRecvPackageNoReset ==
    /\ received' = Append(received,
                     [head |-> m_RecvHeader,
                      body |-> GetData(m_RecvBuffer, HEADER_SIZE, m_RecvHeader.BodySize)])
    /\ \E order \in MemcpyOrders :
         m_RecvBuffer' = RemoveData(m_RecvBuffer, SizeOf(m_RecvHeader), order)
    /\ UNCHANGED m_RecvHeader

TakeRecvPackage ==
    /\ received' = Append(received,
                     [head |-> m_RecvHeader,
                      body |-> GetData(m_RecvBuffer, HEADER_SIZE, m_RecvHeader.BodySize)])
    /\ \E order \in MemcpyOrders :
         m_RecvBuffer' = RemoveData(m_RecvBuffer, SizeOf(m_RecvHeader), order)
    /\ m_RecvHeader' = NoHeader

(***************************************************************************)
(* OnRecvPackage and NetServer::OnRecvData: the package is taken, a login  *)
(* is answered (nobody looks at the result of Send), a heartbeat and any   *)
(* other command need no answer.                                           *)
(***************************************************************************)
OnRecvData ==
    /\ pc = "take"
    /\ m_RecvHeader.BodySize >= 0
    /\ TakeRecvPackage
    /\ IF m_RecvHeader.Command = CMD_LOGIN
       THEN AddSendData(Reply(Len(received')))
       ELSE UNCHANGED << m_SendBuffer, epollOut >>
    /\ pc' = "check"
    /\ UNCHANGED << peerVars, consumed, wire, ev, why >>

(***************************************************************************)
(* The same call for a negative BodySize, which BadHeader lets through and *)
(* for which PackageArrived holds as soon as the header is there: GetData  *)
(* passes the negative length on to memcpy as a size_t beyond any memory,  *)
(* and that ends the process.                                              *)
(***************************************************************************)
GetDataNegative ==
    /\ pc = "take"
    /\ m_RecvHeader.BodySize < 0
    /\ pc' = "crashed"
    /\ UNCHANGED << peerVars, connVars, ev, why >>

(***************************************************************************)
(* OnSocketWrite, when EPOLLOUT was reported: DoSend hands the kernel what *)
(* it takes and re-arms epoll.                                             *)
(***************************************************************************)
DoSend ==
    /\ pc = "write"
    /\ "OUT" \in ev
    /\ m_SendBuffer # << >>
    /\ \/ /\ peer # "reset"
          /\ \E n \in 1 .. Len(m_SendBuffer), order \in MemcpyOrders :
               /\ Len(wire) - peerRead + n <= SOCK_SNDBUF
               /\ wire' = wire \o SubSeq(m_SendBuffer, 1, n)
               /\ m_SendBuffer' = RemoveData(m_SendBuffer, n, order)
          /\ UpdateConnectionSend
          /\ pc' = "select"
          /\ UNCHANGED << ev, why >>
       \/ /\ peer = "reset"
          /\ Remove("send")
          /\ UNCHANGED << m_SendBuffer, wire, epollOut >>
    /\ UNCHANGED << peerVars, consumed, m_RecvBuffer, m_RecvHeader, received >>

\* EPOLLOUT was not reported, or DoSend finds nothing to send.
NoWrite ==
    /\ pc = "write"
    /\ "OUT" \notin ev \/ m_SendBuffer = << >>
    /\ pc' = "select"
    /\ UNCHANGED << peerVars, connVars, ev, why >>

(***************************************************************************)
(* OnSocketClose, for the sockets in needremove: out of epoll, out of      *)
(* m_Connections, the connection and its buffers deleted, the socket       *)
(* closed.  The buffers keep their last value for the properties to read.  *)
(***************************************************************************)
OnSocketClose ==
    /\ pc = "remove"
    /\ pc' = "closed"
    /\ epollOut' = FALSE
    /\ UNCHANGED << peerVars, consumed, m_RecvBuffer, m_RecvHeader, m_SendBuffer,
                    wire, received, ev, why >>
----------------------------------------------------------------------------
PeerNext ==
    \/ \E h \in Packages : PeerSend(h)
    \/ \E how \in {"closed", "reset"} : PeerLeave(how)
    \/ PeerRead

NetThread ==
    \/ EpollWait
    \/ OnSocketRead
    \/ CheckRecvPackage
    \/ OnRecvData
    \/ GetDataNegative
    \/ DoSend
    \/ NoWrite
    \/ OnSocketClose

\* A closed connection is deleted and a crashed process is gone.
Closed == pc \in {"closed", "crashed"} /\ UNCHANGED vars

Next == PeerNext \/ NetThread \/ Closed

Spec == Init /\ [][Next]_vars

(***************************************************************************)
(* The net thread runs its loop for as long as the server runs.  Only the  *)
(* flushing of replies depends on the peer, which must keep reading.       *)
(***************************************************************************)
FairSpec == Spec /\ WF_vars(NetThread) /\ WF_vars(PeerRead)
----------------------------------------------------------------------------
(* Properties.                                                             *)

SentPackages == [Sign : Nat, Command : Nat, BodySize : Int, at : Nat]

\* Every variable has its type, and neither buffer outgrows its array.
TypeOK ==
    /\ sent \in Seq(SentPackages)
    /\ written \in Nat
    /\ consumed \in Nat
    /\ consumed <= written
    /\ peer \in {"open", "closed", "reset"}
    /\ m_RecvBuffer \in Seq(Nat) /\ Len(m_RecvBuffer) <= NET_BUFFER_SIZE
    /\ m_RecvHeader \in Headers
    /\ m_SendBuffer \in Seq(Nat) /\ Len(m_SendBuffer) <= NET_BUFFER_SIZE
    /\ epollOut \in BOOLEAN
    /\ wire \in Seq(Nat)
    /\ peerRead \in Nat
    /\ received \in Seq([head : Headers, body : Seq(Nat)])
    /\ ev \subseteq {"ERR", "IN", "OUT"}
    /\ pc \in {"select", "read", "check", "take", "write", "remove", "closed", "crashed"}
    /\ why \in {"none", "err", "peer", "recv", "full", "data", "send"}

\* The packages the protocol allows.
WellFormed(h) == h.Sign = HEADER_SIGN /\ h.BodySize \in 0 .. NET_PACKAGE_MAX_SIZE

(***************************************************************************)
(* OnSocketRead never returns 3: whatever sizes the headers give, negative *)
(* ones included, and however recv cuts the stream up, the chunk fits      *)
(* behind the unfinished package, so AddRecvData cannot fail and no peer   *)
(* is cut off for it.                                                      *)
(***************************************************************************)
RecvBufferSuffices == why # "full"

(***************************************************************************)
(* Why RecvBufferSuffices holds.  A cached header has passed the check;    *)
(* whenever the net thread is outside the do-while loop of OnSocketRead    *)
(* the buffer has been drained down to less than one package; and a        *)
(* package is taken only when all of it is there.                          *)
(***************************************************************************)
Drained ==
    /\ pc \in {"select", "read", "check", "take", "write"} /\ m_RecvHeader.Sign # 0
          => ~BadHeader(m_RecvHeader)
    /\ pc \in {"select", "read", "write"} =>
          Len(m_RecvBuffer) < IF m_RecvHeader.Sign = 0 THEN HEADER_SIZE
                                                       ELSE SizeOf(m_RecvHeader)
    /\ pc = "take" => m_RecvHeader.Sign # 0 /\ Len(m_RecvBuffer) >= SizeOf(m_RecvHeader)

(***************************************************************************)
(* RemoveData moves the remaining data back (its comment, "the remaining   *)
(* data moves back"): m_RecvBuffer always holds the bytes received last    *)
(* and not yet taken, in their order.                                      *)
(***************************************************************************)
RemainderMovedBack ==
    m_RecvBuffer = Stream(consumed - Len(m_RecvBuffer), Len(m_RecvBuffer))

(***************************************************************************)
(* The server is handed exactly the packages the peer sent, in order, each *)
(* once, with its own header and its own body, however the stream was cut  *)
(* up and however the remainder was moved back in the buffer.              *)
(***************************************************************************)
PackagesInOrder ==
    /\ Len(received) <= Len(sent)
    /\ \A k \in DOMAIN received :
         /\ received[k].head = Header(sent[k])
         /\ received[k].body = Stream(sent[k].at + HEADER_SIZE, sent[k].BodySize)

(***************************************************************************)
(* Every package handed to the server has the right sign and a size of 0   *)
(* to NET_PACKAGE_MAX_SIZE.  The first one that has not decides what       *)
(* becomes of the rest, and only such a one does: CheckRecvPackage answers *)
(* -1, or, for a negative size behind the right sign, which it does not    *)
(* refuse, GetData ends the process.  No well-formed package costs a peer  *)
(* its connection or the server its process.                               *)
(***************************************************************************)
OnlyBadDataRefused ==
    /\ \A k \in DOMAIN received : WellFormed(received[k].head)
    /\ why = "data" => /\ Len(received) < Len(sent)
                       /\ ~WellFormed(sent[Len(received) + 1])
    /\ pc = "crashed" => /\ Len(received) < Len(sent)
                         /\ sent[Len(received) + 1].Sign = HEADER_SIGN
                         /\ sent[Len(received) + 1].BodySize < 0

(***************************************************************************)
(* What the peer gets to read, and what still waits in m_SendBuffer, is a  *)
(* sequence of whole replies, each to a different login and in the order   *)
(* of the logins.  A reply that met a full buffer is missing, but never    *)
(* leaves a part behind that would shift the peer's framing.               *)
(***************************************************************************)
SendStreamIntact ==
    LET out == wire \o m_SendBuffer
    IN  \A i \in DOMAIN out :
          /\ (i = 1 \/ out[i - 1] % ReplyLen = ReplyLen - 1) => out[i] % ReplyLen = 0
          /\ out[i] % ReplyLen = 0 =>
               /\ \A j \in 1 .. i - 1 : out[j] < out[i]
               /\ received[out[i] \div ReplyLen].head.Command = CMD_LOGIN
          /\ out[i] % ReplyLen < ReplyLen - 1 =>
               i < Len(out) /\ out[i + 1] = out[i] + 1

(***************************************************************************)
(* Every package that is preceded by well-formed packages only reaches the *)
(* server, unless its peer leaves: a package whose last byte arrived is    *)
(* not left in the buffer to wait for the next one.                        *)
(***************************************************************************)
PackageTaken ==
    \A k \in 1 .. MaxSent :
        (Len(sent) >= k /\ \A j \in 1 .. k : j <= Len(sent) /\ WellFormed(sent[j]))
            ~> (Len(received) >= k \/ peer # "open")

(***************************************************************************)
(* A queued reply does not wait for further traffic: while the peer stays  *)
(* and reads, the send buffer is emptied, because EPOLLOUT stays armed for *)
(* as long as anything is left in it and the process lives.               *)
(***************************************************************************)
RepliesFlushed ==
    m_SendBuffer # << >> ~>
        (m_SendBuffer = << >> \/ peer # "open" \/ pc \in {"closed", "crashed"})
----------------------------------------------------------------------------
(* What the connection promises its user: see PackageChannel.              *)

Content(p) == [head |-> Header(p), body |-> Stream(p.at + HEADER_SIZE, p.BodySize)]

Channel == INSTANCE PackageChannel WITH
    sent <- [k \in DOMAIN sent |-> Content(sent[k])],
    peerOpen <- peer = "open",
    shut <- pc \in {"remove", "closed", "crashed"},
    Acceptable <- LAMBDA c : WellFormed(c.head)

ChannelSpec == Channel!Spec
============================================================================
