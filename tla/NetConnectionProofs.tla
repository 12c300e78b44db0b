------------------------ MODULE NetConnectionProofs ------------------------
(***************************************************************************)
(* Theorems about NetConnection for every choice of its constants: header, *)
(* buffer, chunk and reply sizes, every set of packages, any number of     *)
(* them.                                                                   *)
(***************************************************************************)
EXTENDS NetConnection, SequenceTheorems, TLAPS

(***************************************************************************)
(* ByteBuffer::AddData keeps the buffer within its size.                   *)
(***************************************************************************)
LEMMA AddDataType ==
    ASSUME NEW buf \in Seq(Nat), NEW data \in Seq(Nat), NEW size \in Nat,
           Len(buf) <= size
    PROVE  /\ AddData(buf, data, size) \in Seq(Nat)
           /\ Len(AddData(buf, data, size)) <= size
<1>1. CASE Fits(buf, Len(data), size)
  <2>1. Len(buf \o data) = Len(buf) + Len(data) /\ buf \o data \in Seq(Nat)
    OBVIOUS
  <2> QED BY <1>1, <2>1 DEF AddData, Fits
<1>2. CASE ~Fits(buf, Len(data), size)
  BY <1>2 DEF AddData
<1> QED BY <1>1, <1>2

(***************************************************************************)
(* ByteBuffer::RemoveData shortens the buffer by len, whatever the         *)
(* direction of the libc's memcpy does to the bytes.                       *)
(***************************************************************************)
LEMMA RemoveDataType ==
    ASSUME NEW buf \in Seq(Nat), NEW len \in 1 .. Len(buf), NEW order \in CopyOrders
    PROVE  /\ RemoveData(buf, len, order) \in Seq(Nat)
           /\ Len(RemoveData(buf, len, order)) = Len(buf) - len
<1>1. len \in Nat \ {0} /\ Len(buf) \in Nat /\ len <= Len(buf)
  OBVIOUS
<1>2. PICK n \in Nat : n = Len(buf) - len
  BY <1>1
<1>3. CASE n = 0
  <2>1. RemoveData(buf, len, order) = << >>
    BY <1>1, <1>2, <1>3 DEF RemoveData
  <2> QED BY <2>1, <1>2, <1>3
<1>4. CASE n # 0 /\ order = "ascending"
  <2>1. RemoveData(buf, len, order) = SubSeq(buf, len + 1, Len(buf))
    BY <1>1, <1>2, <1>4 DEF RemoveData, MoveBack
  <2>2. \A i \in len + 1 .. Len(buf) : buf[i] \in Nat
    BY <1>1
  <2>3. /\ SubSeq(buf, len + 1, Len(buf)) \in Seq(Nat)
        /\ Len(SubSeq(buf, len + 1, Len(buf))) = n
    <3> HIDE DEF RemoveData
    <3> QED BY <1>1, <1>2, <1>4, <2>2, SubSeqProperties
  <2> QED BY <1>2, <2>1, <2>3
<1>5. CASE n # 0 /\ order # "ascending"
  <2> DEFINE at(i) == n + 1 + ((i - n - 1) % len)
             moved == [i \in 1 .. n |-> buf[at(i)]]
  <2>1. RemoveData(buf, len, order) = moved
    BY <1>1, <1>2, <1>5 DEF RemoveData, MoveBack
  <2>2. ASSUME NEW i \in 1 .. n PROVE buf[at(i)] \in Nat
    <3>1. (i - n - 1) % len \in 0 .. len - 1
      BY <1>1
    <3>2. at(i) \in 1 .. Len(buf)
      BY <3>1, <1>1, <1>2
    <3> QED BY <3>2
  <2> HIDE DEF at
  <2>3. moved \in Seq(Nat) /\ Len(moved) = n
    BY <2>2
  <2> QED BY <1>2, <2>1, <2>3
<1> QED BY <1>3, <1>4, <1>5
----------------------------------------------------------------------------
BoundInv == TypeOK /\ Drained /\ RecvBufferSuffices

LEMMA StreamType ==
    ASSUME NEW at \in Nat, NEW len \in Nat
    PROVE  Stream(at, len) \in Seq(Nat) /\ Len(Stream(at, len)) = len
BY DEF Stream

LEMMA ReplyType ==
    ASSUME NEW r \in Nat
    PROVE  Reply(r) \in Seq(Nat)
<1>1. ReplyLen \in Nat
  BY SizesAssumption DEF ReplyLen
<1>2. r * ReplyLen \in Nat
  BY <1>1
<1>3. \A i \in 1 .. ReplyLen : r * ReplyLen + i - 1 \in Nat
  BY <1>1, <1>2
<1> QED BY <1>1, <1>3 DEF Reply

(***************************************************************************)
(* What Unpack may find is a header.                                       *)
(***************************************************************************)
LEMMA UnpackType ==
    ASSUME TypeOK, NEW buf, NEW h \in Unpack(buf)
    PROVE  h \in Headers
<1>1. ASSUME NEW k \in DOMAIN sent PROVE Header(sent[k]) \in Headers
  <2>1. sent[k] \in SentPackages
    BY DEF TypeOK
  <2> QED BY <2>1 DEF SentPackages, Header, Headers
<1>2. h \in Packages \/ \E k \in DOMAIN sent : h = Header(sent[k])
  BY DEF Unpack
<1> QED BY <1>1, <1>2, PackagesAssumption

LEMMA BoundInit == Init => BoundInv
<1> SUFFICES ASSUME Init PROVE BoundInv
  OBVIOUS
<1>1. TypeOK
  <2>1. sent \in Seq(SentPackages) /\ received \in Seq([head : Headers, body : Seq(Nat)])
    BY DEF Init
  <2>2. m_RecvHeader \in Headers
    BY DEF Init, NoHeader, Headers
  <2>3. /\ m_RecvBuffer \in Seq(Nat) /\ Len(m_RecvBuffer) = 0
        /\ m_SendBuffer \in Seq(Nat) /\ Len(m_SendBuffer) = 0
        /\ wire \in Seq(Nat)
    BY DEF Init
  <2>4. epollOut \in BOOLEAN /\ ev \subseteq {"ERR", "IN", "OUT"}
    BY Zenon DEF Init
  <2>5. /\ written = 0 /\ consumed = 0 /\ peerRead = 0
        /\ peer = "open" /\ pc = "select" /\ why = "none"
    BY DEF Init
  <2> QED BY <2>1, <2>2, <2>3, <2>4, <2>5, SizesAssumption DEF TypeOK
<1>2. Drained /\ RecvBufferSuffices
  BY SizesAssumption DEF Init, Drained, RecvBufferSuffices, NoHeader
<1> QED BY <1>1, <1>2 DEF BoundInv

LEMMA BoundNext == BoundInv /\ [Next]_vars => BoundInv'
<1> SUFFICES ASSUME BoundInv, [Next]_vars PROVE BoundInv'
  OBVIOUS
<1> USE SizesAssumption, RecvBufferAssumption DEF BoundInv
<1>1. ASSUME NEW h \in Packages, PeerSend(h) PROVE BoundInv'
  <2>1. h \in Headers
    BY PackagesAssumption
  <2>2. [Sign |-> h.Sign, Command |-> h.Command, BodySize |-> h.BodySize,
         at |-> written] \in SentPackages
    BY <2>1 DEF TypeOK, Headers, SentPackages
  <2>3. sent' \in Seq(SentPackages)
    BY <1>1, <2>2 DEF PeerSend, TypeOK
  <2>4. written' \in Nat /\ consumed <= written'
    <3>1. WireSize(h) \in Nat
      BY <2>1 DEF WireSize, SizeOf, Headers
    <3> QED BY <1>1, <3>1 DEF PeerSend, TypeOK
  <2>5. TypeOK'
    BY <1>1, <2>3, <2>4 DEF PeerSend, TypeOK, connVars, threadVars
  <2> QED
    BY <1>1, <2>5 DEF PeerSend, Drained, RecvBufferSuffices, connVars, threadVars
<1>2. ASSUME NEW how \in {"closed", "reset"}, PeerLeave(how) PROVE BoundInv'
  <2>1. TypeOK'
    BY <1>2 DEF PeerLeave, TypeOK, connVars, threadVars
  <2> QED
    BY <1>2, <2>1 DEF PeerLeave, Drained, RecvBufferSuffices, connVars, threadVars
<1>3. ASSUME PeerRead PROVE BoundInv'
  <2>1. TypeOK'
    BY <1>3 DEF PeerRead, TypeOK, connVars, threadVars
  <2> QED
    BY <1>3, <2>1 DEF PeerRead, Drained, RecvBufferSuffices, connVars, threadVars
<1>4. ASSUME EpollWait PROVE BoundInv'
  <2>1. Ready \subseteq {"ERR", "IN", "OUT"}
    BY DEF Ready
  <2>2. TypeOK'
    BY <1>4, <2>1 DEF EpollWait, TypeOK, connVars, peerVars
  <2> QED
    BY <1>4, <2>2 DEF EpollWait, Drained, RecvBufferSuffices, connVars, peerVars
<1>5. ASSUME OnSocketRead PROVE BoundInv'
  <2>1. ASSUME NEW n \in 1 .. RECV_SIZE,
               consumed + n <= written,
               consumed' = consumed + n,
               m_RecvBuffer' = AddData(m_RecvBuffer, Stream(consumed, n), NET_BUFFER_SIZE),
               IF Fits(m_RecvBuffer, n, NET_BUFFER_SIZE)
               THEN pc' = "check" /\ UNCHANGED << ev, why >>
               ELSE Remove("full")
        PROVE  BoundInv'
    <3>1. n \in Nat /\ Stream(consumed, n) \in Seq(Nat)
      BY StreamType DEF TypeOK
    <3>2. m_RecvBuffer' \in Seq(Nat) /\ Len(m_RecvBuffer') <= NET_BUFFER_SIZE
      BY <2>1, <3>1, AddDataType DEF TypeOK
    <3>3. Len(m_RecvBuffer) < HEADER_SIZE + NET_PACKAGE_MAX_SIZE
      <4>1. pc = "read"
        BY <1>5 DEF OnSocketRead
      <4>2. m_RecvHeader.Sign \in Nat /\ m_RecvHeader.BodySize \in Int
        BY DEF TypeOK, Headers
      <4>3. Len(m_RecvBuffer) \in Nat
        BY DEF TypeOK
      <4> QED BY <4>1, <4>2, <4>3 DEF Drained, SizeOf, BadHeader
    <3>4. Fits(m_RecvBuffer, n, NET_BUFFER_SIZE)
      BY <3>3 DEF Fits, TypeOK
    <3>5. pc' = "check" /\ UNCHANGED << ev, why >>
      BY <2>1, <3>4
    <3>6. TypeOK'
      BY <1>5, <2>1, <3>2, <3>5 DEF OnSocketRead, TypeOK, peerVars
    <3> QED
      BY <1>5, <3>5, <3>6 DEF OnSocketRead, Drained, RecvBufferSuffices
  <2>2. ASSUME \/ Remove("peer") \/ Remove("recv"),
               UNCHANGED << consumed, m_RecvBuffer >>
        PROVE  BoundInv'
    <3>1. TypeOK'
      BY <1>5, <2>2 DEF OnSocketRead, Remove, TypeOK, peerVars
    <3> QED
      BY <2>2, <3>1 DEF Remove, Drained, RecvBufferSuffices
  <2> QED BY <1>5, <2>1, <2>2 DEF OnSocketRead
<1>6. ASSUME CheckRecvPackage PROVE BoundInv'
  <2>1. PICK h \in IF HeaderArrived THEN Unpack(m_RecvBuffer) ELSE {m_RecvHeader} :
          /\ m_RecvHeader' = h
          /\ IF HeaderArrived /\ BadHeader(h)
             THEN Remove("data")
             ELSE /\ pc' = IF PackageArrived(h) THEN "take" ELSE "write"
                  /\ UNCHANGED << ev, why >>
    BY <1>6 DEF CheckRecvPackage
  <2>2. h \in Headers
    BY <2>1, UnpackType DEF TypeOK
  <2>3. TypeOK'
    BY <1>6, <2>1, <2>2 DEF CheckRecvPackage, Remove, TypeOK, peerVars
  <2>4. Len(m_RecvBuffer) \in Nat /\ SizeOf(h) \in Int /\ h.Sign \in Nat
    BY <2>2 DEF TypeOK, SizeOf, Headers
  <2>5. pc = "check" /\ m_RecvBuffer' = m_RecvBuffer
    BY <1>6 DEF CheckRecvPackage
  <2>6. CASE HeaderArrived /\ BadHeader(h)
    BY <2>1, <2>3, <2>6 DEF Remove, Drained, RecvBufferSuffices
  <2>7. CASE ~(HeaderArrived /\ BadHeader(h))
    <3>1. h.Sign # 0 => ~BadHeader(h)
      BY <2>1, <2>5, <2>7 DEF Drained
    <3>2. pc' = "take" => h.Sign # 0 /\ Len(m_RecvBuffer) >= SizeOf(h)
      BY <2>1, <2>7 DEF PackageArrived
    <3>3. pc' = "write" => Len(m_RecvBuffer) < IF h.Sign = 0 THEN HEADER_SIZE ELSE SizeOf(h)
      <4>1. SUFFICES ASSUME pc' = "write" PROVE Len(m_RecvBuffer) < IF h.Sign = 0 THEN HEADER_SIZE ELSE SizeOf(h)
        OBVIOUS
      <4>2. ~PackageArrived(h)
        BY <2>1, <2>7, <4>1
      <4>3. CASE h.Sign = 0
        <5>1. BadHeader(h)
          BY <4>3 DEF BadHeader, HEADER_SIGN
        <5>2. ~HeaderArrived /\ h = m_RecvHeader
          BY <5>1, <2>1, <2>7
        <5> QED BY <5>2, <4>3, <2>4 DEF HeaderArrived
      <4> QED BY <4>2, <4>3, <2>4 DEF PackageArrived
    <3>4. pc' \in {"take", "write"} /\ why' = why
      BY <2>1, <2>7
    <3>5. Drained'
      BY <2>1, <2>5, <3>1, <3>2, <3>3, <3>4 DEF Drained, BadHeader, SizeOf
    <3> QED BY <2>3, <3>4, <3>5 DEF RecvBufferSuffices
  <2> QED BY <2>6, <2>7
<1>7. ASSUME OnRecvData PROVE BoundInv'
  <2> DEFINE len == SizeOf(m_RecvHeader)
             entry == [head |-> m_RecvHeader,
                       body |-> GetData(m_RecvBuffer, HEADER_SIZE, m_RecvHeader.BodySize)]
  <2>1. pc = "take" /\ TakeRecvPackage /\ m_RecvHeader.BodySize >= 0
    BY <1>7 DEF OnRecvData
  <2>2. m_RecvHeader \in Headers /\ m_RecvHeader.BodySize \in Nat
    BY <2>1 DEF TypeOK, Headers
  <2>3. len \in 1 .. Len(m_RecvBuffer)
    BY <2>1, <2>2 DEF Drained, SizeOf, TypeOK
  <2>4. m_RecvBuffer' \in Seq(Nat) /\ Len(m_RecvBuffer') <= NET_BUFFER_SIZE
    <3>1. PICK order \in MemcpyOrders : m_RecvBuffer' = RemoveData(m_RecvBuffer, len, order)
      BY <2>1 DEF TakeRecvPackage
    <3>2. order \in CopyOrders
      BY MemcpyAssumption
    <3>3. m_RecvBuffer \in Seq(Nat) /\ Len(m_RecvBuffer) <= NET_BUFFER_SIZE
      BY DEF TypeOK
    <3>4. m_RecvBuffer' \in Seq(Nat) /\ Len(m_RecvBuffer') = Len(m_RecvBuffer) - len
      BY <2>3, <3>1, <3>2, <3>3, RemoveDataType
    <3> HIDE DEF len
    <3> QED BY <2>3, <3>3, <3>4
  <2>5. received' \in Seq([head : Headers, body : Seq(Nat)])
    <3>1. \A i \in HEADER_SIZE + 1 .. HEADER_SIZE + m_RecvHeader.BodySize : m_RecvBuffer[i] \in Nat
      <4>1. HEADER_SIZE + m_RecvHeader.BodySize <= Len(m_RecvBuffer) /\ m_RecvBuffer \in Seq(Nat)
        BY <2>3 DEF SizeOf, TypeOK
      <4>2. \A i \in 1 .. Len(m_RecvBuffer) : m_RecvBuffer[i] \in Nat
        BY <4>1
      <4>3. Len(m_RecvBuffer) \in Nat
        BY <4>1
      <4> QED BY <2>2, <4>1, <4>2, <4>3
    <3>2. entry.body \in Seq(Nat)
      BY <2>2, <3>1, SubSeqProperties DEF GetData
    <3>3. entry \in [head : Headers, body : Seq(Nat)]
      BY <2>2, <3>2
    <3>4. received' = Append(received, entry)
      BY <2>1 DEF TakeRecvPackage
    <3> HIDE DEF entry
    <3> QED BY <3>3, <3>4 DEF TypeOK
  <2>6. /\ m_SendBuffer' \in Seq(Nat) /\ Len(m_SendBuffer') <= NET_BUFFER_SIZE
        /\ epollOut' \in BOOLEAN
    <3>1. CASE m_RecvHeader.Command = CMD_LOGIN
      <4>1. AddSendData(Reply(Len(received')))
        BY <1>7, <3>1 DEF OnRecvData
      <4>2. Reply(Len(received')) \in Seq(Nat)
        <5>1. Len(received') \in Nat
          BY <2>5
        <5> QED BY <5>1, ReplyType
      <4>3. m_SendBuffer' = AddData(m_SendBuffer, Reply(Len(received')), NET_BUFFER_SIZE)
        BY <4>1 DEF AddSendData
      <4>4. epollOut' \in BOOLEAN
        BY <4>1 DEF AddSendData, UpdateConnectionSend
      <4>5. m_SendBuffer \in Seq(Nat) /\ Len(m_SendBuffer) <= NET_BUFFER_SIZE
        BY DEF TypeOK
      <4> QED BY <4>2, <4>3, <4>4, <4>5, AddDataType
    <3>2. CASE m_RecvHeader.Command # CMD_LOGIN
      BY <1>7, <3>2 DEF OnRecvData, TypeOK
    <3> QED BY <3>1, <3>2
  <2>7. m_RecvHeader' = NoHeader /\ NoHeader \in Headers
    BY <2>1 DEF TakeRecvPackage, NoHeader, Headers
  <2>8. pc' = "check" /\ UNCHANGED << peerVars, consumed, wire, ev, why >>
    BY <1>7 DEF OnRecvData
  <2>9. TypeOK'
    BY <2>4, <2>5, <2>6, <2>7, <2>8 DEF TypeOK, peerVars
  <2> QED
    BY <2>7, <2>8, <2>9 DEF Drained, RecvBufferSuffices, NoHeader
<1>8. ASSUME DoSend PROVE BoundInv'
  <2>1. /\ UNCHANGED << peerVars, consumed, m_RecvBuffer, m_RecvHeader, received >>
        /\ pc = "write"
    BY <1>8 DEF DoSend
  <2>2. CASE peer = "reset"
    <3>1. Remove("send") /\ UNCHANGED << m_SendBuffer, wire, epollOut >>
      BY <1>8, <2>2 DEF DoSend
    <3>2. TypeOK'
      BY <2>1, <3>1 DEF Remove, TypeOK, peerVars
    <3> QED BY <3>1, <3>2 DEF Remove, Drained, RecvBufferSuffices
  <2>3. CASE peer # "reset"
    <3>1. PICK n \in 1 .. Len(m_SendBuffer), order \in MemcpyOrders :
            /\ wire' = wire \o SubSeq(m_SendBuffer, 1, n)
            /\ m_SendBuffer' = RemoveData(m_SendBuffer, n, order)
      BY <1>8, <2>3 DEF DoSend
    <3>2. UpdateConnectionSend /\ pc' = "select" /\ UNCHANGED << ev, why >>
      BY <1>8, <2>3 DEF DoSend
    <3>3. m_SendBuffer \in Seq(Nat) /\ Len(m_SendBuffer) <= NET_BUFFER_SIZE /\ wire \in Seq(Nat)
      BY DEF TypeOK
    <3>4. order \in CopyOrders
      BY MemcpyAssumption
    <3>5. m_SendBuffer' \in Seq(Nat) /\ Len(m_SendBuffer') = Len(m_SendBuffer) - n
      BY <3>1, <3>3, <3>4, RemoveDataType
    <3>6. Len(m_SendBuffer') <= NET_BUFFER_SIZE
      BY <3>3, <3>5
    <3>7. wire' \in Seq(Nat)
      <4>1. \A i \in 1 .. n : m_SendBuffer[i] \in Nat
        BY <3>3
      <4>2. SubSeq(m_SendBuffer, 1, n) \in Seq(Nat)
        BY <4>1, SubSeqProperties
      <4> QED BY <3>1, <3>3, <4>2
    <3>8. epollOut' \in BOOLEAN
      BY <3>2 DEF UpdateConnectionSend
    <3>9. TypeOK'
      BY <2>1, <3>2, <3>5, <3>6, <3>7, <3>8 DEF TypeOK, peerVars
    <3> QED
      BY <2>1, <3>2, <3>9 DEF Drained, RecvBufferSuffices
  <2> QED BY <2>2, <2>3
<1>9. ASSUME NoWrite PROVE BoundInv'
  <2>1. TypeOK'
    BY <1>9 DEF NoWrite, TypeOK, connVars, peerVars
  <2> QED
    BY <1>9, <2>1 DEF NoWrite, Drained, RecvBufferSuffices, connVars, peerVars
<1>10. ASSUME OnSocketClose PROVE BoundInv'
  <2>1. epollOut' \in BOOLEAN
    BY <1>10, Zenon DEF OnSocketClose
  <2>2. TypeOK'
    BY <1>10, <2>1 DEF OnSocketClose, TypeOK, peerVars
  <2> QED
    BY <1>10, <2>2 DEF OnSocketClose, Drained, RecvBufferSuffices
<1>11. ASSUME GetDataNegative PROVE BoundInv'
  <2>1. TypeOK'
    BY <1>11 DEF GetDataNegative, TypeOK, connVars, peerVars
  <2> QED
    BY <1>11, <2>1 DEF GetDataNegative, Drained, RecvBufferSuffices, connVars, peerVars
<1>12. ASSUME UNCHANGED vars PROVE BoundInv'
  BY <1>12 DEF vars, peerVars, connVars, threadVars, TypeOK, Drained, RecvBufferSuffices
<1> QED
  BY <1>1, <1>2, <1>3, <1>4, <1>5, <1>6, <1>7, <1>8, <1>9, <1>10, <1>11, <1>12
  DEF Next, PeerNext, NetThread, Closed

(***************************************************************************)
(* Every variable of a connection keeps its type and neither ByteBuffer    *)
(* outgrows its array, whatever the sizes, packages and memcpy direction.  *)
(***************************************************************************)
THEOREM ConnectionTypeOK == Spec => []TypeOK
<1>1. BoundInv => TypeOK
  BY DEF BoundInv
<1> QED BY <1>1, BoundInit, BoundNext, PTL DEF Spec

(***************************************************************************)
(* AddRecvData never fails in OnSocketRead: the receive buffer holds an    *)
(* unfinished package and a chunk for every peer and every chunking, also  *)
(* for the negative sizes CheckRecvPackage does not refuse.                *)
(***************************************************************************)
THEOREM RecvBufferNeverFull == Spec => []RecvBufferSuffices
<1>1. BoundInv => RecvBufferSuffices
  BY DEF BoundInv
<1> QED BY <1>1, BoundInit, BoundNext, PTL DEF Spec
----------------------------------------------------------------------------
(* Framing.  From here on memcpy copies upwards, as RemoveData needs; what *)
(* happens otherwise is shown by the run net_connection_memcpy.            *)

\* Where package k starts in the stream, k = Len(sent) + 1 included.
StartOf(k) == IF k = 1 THEN 0 ELSE sent[k - 1].at + WireSize(sent[k - 1])

(***************************************************************************)
(* The packages lie in the stream one behind the other, and no byte is     *)
(* written behind the last.                                                *)
(***************************************************************************)
Laid ==
    /\ \A k \in DOMAIN sent : sent[k].at = StartOf(k)
    /\ \A j, k \in DOMAIN sent : j < k => sent[j].at + WireSize(sent[j]) <= sent[k].at
    /\ written <= StartOf(Len(sent) + 1)
    /\ peer = "open" => written = StartOf(Len(sent) + 1)

(***************************************************************************)
(* The receive buffer begins with the first package not yet handed on, and *)
(* the cached header is that package's.                                    *)
(***************************************************************************)
Aligned ==
    /\ Len(m_RecvBuffer) <= consumed
    /\ RemainderMovedBack
    /\ Len(received) <= Len(sent)
    /\ consumed - Len(m_RecvBuffer) = StartOf(Len(received) + 1)
    /\ pc \in {"select", "read", "check", "take", "write"} /\ m_RecvHeader.Sign # 0 =>
         /\ Len(received) < Len(sent)
         /\ m_RecvHeader = Header(sent[Len(received) + 1])
    /\ why = "data" => pc \in {"remove", "closed"}

FrameInv == BoundInv /\ Laid /\ Aligned /\ PackagesInOrder /\ OnlyBadDataRefused

\* Two pieces of the stream that follow each other make one.
LEMMA StreamConcat ==
    ASSUME NEW at \in Nat, NEW m \in Nat, NEW n \in Nat
    PROVE  Stream(at, m) \o Stream(at + m, n) = Stream(at, m + n)
<1>1. at + m \in Nat /\ m + n \in Nat
  OBVIOUS
<1>2. PICK s : s = Stream(at, m)
  OBVIOUS
<1>3. PICK t : t = Stream(at + m, n)
  OBVIOUS
<1>4. PICK u : u = Stream(at, m + n)
  OBVIOUS
<1>5. s \in Seq(Nat) /\ Len(s) = m /\ \A i \in 1 .. m : s[i] = at + i - 1
  BY <1>2, StreamType DEF Stream
<1>6. t \in Seq(Nat) /\ Len(t) = n /\ \A i \in 1 .. n : t[i] = at + m + i - 1
  BY <1>1, <1>3, StreamType DEF Stream
<1>7. u \in Seq(Nat) /\ Len(u) = m + n /\ \A i \in 1 .. m + n : u[i] = at + i - 1
  BY <1>1, <1>4, StreamType DEF Stream
<1>8. s \o t \in Seq(Nat) /\ Len(s \o t) = m + n
  BY <1>5, <1>6, ConcatProperties
<1>9. ASSUME NEW i \in 1 .. m + n PROVE (s \o t)[i] = u[i]
  <2>1. (s \o t)[i] = IF i <= m THEN s[i] ELSE t[i - m]
    BY <1>5, <1>6, ConcatProperties
  <2> QED BY <1>5, <1>6, <1>7, <2>1
<1>10. s \o t = u
  BY <1>7, <1>8, <1>9, SeqEqual
<1> QED BY <1>2, <1>3, <1>4, <1>10

\* GetData takes a piece out of a piece of the stream.
LEMMA StreamGet ==
    ASSUME NEW at \in Nat, NEW len \in Nat, NEW m \in Nat, NEW n \in Nat, m + n <= len
    PROVE  GetData(Stream(at, len), m, n) = Stream(at + m, n)
<1>1. m + n \in Nat /\ at + m \in Nat
  OBVIOUS
<1>2. PICK s : s = Stream(at, len)
  OBVIOUS
<1>3. PICK t : t = Stream(at + m, n)
  OBVIOUS
<1>4. s \in Seq(Nat) /\ Len(s) = len /\ \A i \in 1 .. len : s[i] = at + i - 1
  BY <1>2, StreamType DEF Stream
<1>5. t \in Seq(Nat) /\ Len(t) = n /\ \A i \in 1 .. n : t[i] = at + m + i - 1
  BY <1>1, <1>3, StreamType DEF Stream
<1>6. \A i \in m + 1 .. m + n : s[i] \in Nat
  BY <1>4
<1>7. PICK w : w = SubSeq(s, m + 1, m + n)
  OBVIOUS
<1>8. w \in Seq(Nat) /\ Len(w) = n /\ \A i \in 1 .. n : w[i] = s[m + i]
  <2>1. /\ w \in Seq(Nat) /\ Len(w) = IF m + 1 <= m + n THEN m + n - (m + 1) + 1 ELSE 0
        /\ \A i \in 1 .. m + n - (m + 1) + 1 : w[i] = s[m + 1 + i - 1]
    BY <1>6, <1>7, SubSeqProperties
  <2> QED BY <2>1
<1>9. ASSUME NEW i \in 1 .. n PROVE w[i] = t[i]
  BY <1>4, <1>5, <1>8
<1>10. w = t
  BY <1>5, <1>8, <1>9, SeqEqual
<1> QED BY <1>2, <1>3, <1>7, <1>10 DEF GetData

\* RemoveData takes its first bytes away from a piece of the stream.
LEMMA StreamRemove ==
    ASSUME NEW at \in Nat, NEW len \in Nat, NEW m \in Nat, m <= len
    PROVE  RemoveData(Stream(at, len), m, "ascending") = Stream(at + m, len - m)
<1>1. PICK n \in Nat : n = len - m
  OBVIOUS
<1>2. Stream(at, len) \in Seq(Nat) /\ Len(Stream(at, len)) = len
  BY StreamType
<1>3. CASE n = 0
  <2>1. RemoveData(Stream(at, len), m, "ascending") = << >>
    BY <1>1, <1>2, <1>3 DEF RemoveData
  <2>2. at + m \in Nat
    OBVIOUS
  <2>3. Stream(at + m, n) \in Seq(Nat) /\ Len(Stream(at + m, n)) = 0
    BY <1>3, <2>2, StreamType
  <2>4. Stream(at + m, n) = << >>
    BY <2>3
  <2> QED BY <1>1, <2>1, <2>4
<1>4. CASE n # 0
  <2>1. RemoveData(Stream(at, len), m, "ascending") = SubSeq(Stream(at, len), m + 1, len)
    BY <1>1, <1>2, <1>4 DEF RemoveData, MoveBack
  <2>2. m + n = len
    BY <1>1
  <2>3. GetData(Stream(at, len), m, n) = SubSeq(Stream(at, len), m + 1, len)
    BY <2>2 DEF GetData
  <2>4. GetData(Stream(at, len), m, n) = Stream(at + m, n)
    BY <2>2, StreamGet
  <2> QED BY <1>1, <2>1, <2>3, <2>4
<1> QED BY <1>3, <1>4

\* What the fields of a sent package are.
LEMMA SentFields ==
    ASSUME TypeOK, NEW k \in DOMAIN sent
    PROVE  /\ sent[k].Sign \in Nat /\ sent[k].Command \in Nat /\ sent[k].BodySize \in Int
           /\ sent[k].at \in Nat
           /\ WireSize(sent[k]) \in Nat /\ WireSize(sent[k]) >= HEADER_SIZE
           /\ Header(sent[k]) \in Headers
<1>1. sent[k] \in SentPackages
  BY DEF TypeOK
<1> QED BY <1>1, SizesAssumption DEF SentPackages, WireSize, SizeOf, Header, Headers

LEMMA StartOfType ==
    ASSUME TypeOK, NEW k \in 1 .. Len(sent) + 1
    PROVE  StartOf(k) \in Nat
<1>1. CASE k = 1
  BY <1>1 DEF StartOf
<1>2. CASE k # 1
  <2>1. k - 1 \in DOMAIN sent
    BY <1>2 DEF TypeOK
  <2> QED BY <1>2, <2>1, SentFields DEF StartOf
<1> QED BY <1>1, <1>2

\* Sending a package leaves the earlier ones where they are.
LEMMA SentAppended ==
    ASSUME TypeOK, NEW h \in Packages, PeerSend(h)
    PROVE  /\ Len(sent') = Len(sent) + 1
           /\ DOMAIN sent = 1 .. Len(sent) /\ DOMAIN sent' = 1 .. Len(sent) + 1
           /\ Len(sent) \in Nat
           /\ \A k \in DOMAIN sent : sent'[k] = sent[k]
           /\ sent'[Len(sent) + 1].at = written
           /\ WireSize(sent'[Len(sent) + 1]) = WireSize(h)
           /\ \A k \in 1 .. Len(sent) + 1 : StartOf(k)' = StartOf(k)
<1>1. PICK p : p = [Sign |-> h.Sign, Command |-> h.Command, BodySize |-> h.BodySize, at |-> written]
  OBVIOUS
<1>2. p \in SentPackages /\ p.at = written /\ WireSize(p) = WireSize(h)
  BY <1>1, PackagesAssumption DEF TypeOK, Headers, SentPackages, WireSize, SizeOf
<1>3. sent' = Append(sent, p)
  BY <1>1 DEF PeerSend
<1>4. sent \in Seq(SentPackages)
  BY DEF TypeOK
<1>5. /\ Len(sent') = Len(sent) + 1
      /\ DOMAIN sent = 1 .. Len(sent) /\ DOMAIN sent' = 1 .. Len(sent) + 1
      /\ Len(sent) \in Nat
      /\ \A k \in DOMAIN sent : sent'[k] = sent[k]
      /\ sent'[Len(sent) + 1] = p
  BY <1>2, <1>3, <1>4
<1>6. ASSUME NEW k \in 1 .. Len(sent) + 1 PROVE StartOf(k)' = StartOf(k)
  <2>1. CASE k = 1
    BY <2>1 DEF StartOf
  <2>2. CASE k # 1
    <3>1. k - 1 \in DOMAIN sent
      BY <1>5, <2>2
    <3>2. sent'[k - 1] = sent[k - 1]
      BY <1>5, <3>1
    <3> QED BY <2>2, <3>2 DEF StartOf, WireSize, SizeOf
  <2> QED BY <2>1, <2>2
<1> QED BY <1>2, <1>5, <1>6

LEMMA LaidNext == BoundInv /\ Laid /\ [Next]_vars => Laid'
<1> SUFFICES ASSUME TypeOK, Laid, [Next]_vars PROVE Laid'
  BY DEF BoundInv
<1>1. ASSUME NEW h \in Packages, PeerSend(h) PROVE Laid'
  <2>1. PICK n \in Nat : n = Len(sent)
    BY DEF TypeOK
  <2>2. /\ Len(sent') = n + 1
        /\ DOMAIN sent = 1 .. n /\ DOMAIN sent' = 1 .. n + 1
        /\ \A k \in 1 .. n : sent'[k] = sent[k]
        /\ sent'[n + 1].at = written
        /\ WireSize(sent'[n + 1]) = WireSize(h)
        /\ \A k \in 1 .. n + 1 : StartOf(k)' = StartOf(k)
    BY <1>1, <2>1, SentAppended
  <2>3. /\ peer = "open" /\ peer' = "open" /\ written = StartOf(n + 1)
        /\ written' = written + WireSize(h)
    BY <1>1, <2>1 DEF PeerSend, Laid
  <2>4. written \in Nat /\ WireSize(h) \in Nat
    BY PackagesAssumption, SizesAssumption DEF TypeOK, WireSize, SizeOf, Headers
  <2>5. StartOf(n + 2)' = written'
    BY <2>2, <2>3, <2>4 DEF StartOf
  <2>6. ASSUME NEW k \in 1 .. n + 1 PROVE sent'[k].at = StartOf(k)'
    BY <2>2, <2>3, <2>6 DEF Laid
  <2>7. ASSUME NEW j \in 1 .. n PROVE sent[j].at + WireSize(sent[j]) <= written
    <3>1. written = sent[n].at + WireSize(sent[n])
      BY <2>3 DEF StartOf
    <3>2. sent[n].at \in Nat /\ WireSize(sent[n]) \in Nat
      BY <2>2, SentFields
    <3>3. sent[j].at \in Nat /\ WireSize(sent[j]) \in Nat
      BY <2>2, SentFields
    <3>4. j < n => sent[j].at + WireSize(sent[j]) <= sent[n].at
      BY <2>2 DEF Laid
    <3> QED BY <3>1, <3>2, <3>3, <3>4
  <2>8. ASSUME NEW j \in 1 .. n + 1, NEW k \in 1 .. n + 1, j < k
        PROVE  sent'[j].at + WireSize(sent'[j]) <= sent'[k].at
    <3>1. j \in 1 .. n /\ sent'[j] = sent[j]
      BY <2>2, <2>8
    <3>2. CASE k = n + 1
      BY <2>2, <2>7, <3>1, <3>2
    <3>3. CASE k # n + 1
      <4>1. k \in 1 .. n /\ sent'[k] = sent[k]
        BY <2>2, <3>3
      <4> QED BY <2>2, <2>8, <3>1, <4>1 DEF Laid
    <3> QED BY <3>2, <3>3
  <2>9. (\A k \in DOMAIN sent : sent[k].at = StartOf(k))'
    BY <2>2, <2>6
  <2>10. (\A j, k \in DOMAIN sent : j < k => sent[j].at + WireSize(sent[j]) <= sent[k].at)'
    BY <2>2, <2>8 DEF WireSize, SizeOf
  <2>11. written' = StartOf(Len(sent) + 1)'
    <3>1. Len(sent') + 1 = n + 2
      BY <2>2
    <3> QED BY <2>5, <3>1 DEF StartOf
  <2>12. written' <= StartOf(Len(sent) + 1)'
    BY <2>3, <2>4, <2>11
  <2> QED BY <2>9, <2>10, <2>11, <2>12 DEF Laid
<1>2. ASSUME NEW how \in {"closed", "reset"}, PeerLeave(how) PROVE Laid'
  <2>1. UNCHANGED sent /\ peer' # "open" /\ written' \in consumed .. written
    BY <1>2 DEF PeerLeave
  <2>2. StartOf(Len(sent) + 1) \in Nat /\ written \in Nat /\ consumed \in Nat
    BY StartOfType DEF TypeOK
  <2>3. written' <= StartOf(Len(sent) + 1)
    BY <2>1, <2>2 DEF Laid
  <2> QED BY <2>1, <2>3 DEF Laid, StartOf, WireSize, SizeOf
<1>3. CASE UNCHANGED << sent, written, peer >>
  BY <1>3 DEF Laid, StartOf, WireSize, SizeOf
<1>4. CASE PeerRead \/ NetThread \/ Closed \/ UNCHANGED vars
  <2>1. UNCHANGED << sent, written, peer >>
    BY <1>4 DEF PeerRead, NetThread, EpollWait, OnSocketRead, CheckRecvPackage, OnRecvData,
                GetDataNegative, DoSend, NoWrite,
                OnSocketClose, Closed, vars, peerVars
  <2> QED BY <1>3, <2>1
<1> QED BY <1>1, <1>2, <1>4 DEF Next, PeerNext

\* The receiving side of FrameInv.
Framed == Aligned /\ PackagesInOrder /\ OnlyBadDataRefused

Loop == {"select", "read", "check", "take", "write"}

\* Steps that receive nothing.
LEMMA FramedKept ==
    ASSUME Framed, UNCHANGED << sent, consumed, m_RecvBuffer, m_RecvHeader, received >>,
           pc' \in Loop => pc \in Loop,
           why' = "data" => why = "data" /\ pc' \in {"remove", "closed"},
           pc' = "crashed" => pc = "crashed"
    PROVE  Framed'
<1>1. Aligned'
  BY DEF Framed, Aligned, Loop, RemainderMovedBack, Stream, StartOf, WireSize, SizeOf, Header
<1>2. PackagesInOrder'
  BY DEF Framed, PackagesInOrder, Header, Stream
<1>3. OnlyBadDataRefused'
  BY DEF Framed, OnlyBadDataRefused, WellFormed
<1> QED BY <1>1, <1>2, <1>3 DEF Framed

LEMMA FramedSend ==
    ASSUME TypeOK, Framed, NEW h \in Packages, PeerSend(h)
    PROVE  Framed'
<1>1. PICK n \in Nat : n = Len(sent)
  BY DEF TypeOK
<1>2. /\ Len(sent') = n + 1
      /\ DOMAIN sent = 1 .. n
      /\ \A k \in 1 .. n : sent'[k] = sent[k]
      /\ \A k \in 1 .. n + 1 : StartOf(k)' = StartOf(k)
  BY <1>1, SentAppended
<1>3. /\ UNCHANGED << consumed, m_RecvBuffer, m_RecvHeader, received, pc, why >>
  BY DEF PeerSend, connVars, threadVars
<1>4. PICK r \in Nat : r = Len(received) /\ DOMAIN received = 1 .. r
  BY DEF TypeOK
<1>5. r <= n
  BY <1>1, <1>4 DEF Framed, Aligned
<1>6. Aligned'
  <2>1. (Len(m_RecvBuffer) <= consumed /\ RemainderMovedBack)'
    BY <1>3 DEF Framed, Aligned, RemainderMovedBack, Stream
  <2>2. (Len(received) <= Len(sent))'
    BY <1>2, <1>3, <1>4, <1>5
  <2>3. (consumed - Len(m_RecvBuffer) = StartOf(Len(received) + 1))'
    <3>1. r + 1 \in 1 .. n + 1
      BY <1>5
    <3>2. consumed - Len(m_RecvBuffer) = StartOf(r + 1)
      BY <1>4 DEF Framed, Aligned
    <3>3. StartOf(r + 1)' = StartOf(r + 1)
      BY <1>2, <3>1
    <3>4. (consumed - Len(m_RecvBuffer))' = consumed - Len(m_RecvBuffer)
      BY <1>3
    <3>5. StartOf(Len(received) + 1)' = StartOf(r + 1)'
      BY <1>3, <1>4 DEF StartOf
    <3> QED BY <3>2, <3>3, <3>4, <3>5
  <2>4. ASSUME pc' \in Loop, m_RecvHeader'.Sign # 0
        PROVE  (Len(received) < Len(sent) /\ m_RecvHeader = Header(sent[Len(received) + 1]))'
    <3>1. r < n /\ m_RecvHeader = Header(sent[r + 1])
      BY <1>1, <1>3, <1>4, <2>4 DEF Framed, Aligned, Loop
    <3>2. sent'[r + 1] = sent[r + 1]
      BY <1>2, <3>1
    <3> QED BY <1>2, <1>3, <1>4, <3>1, <3>2 DEF Header
  <2>5. (why = "data" => pc \in {"remove", "closed"})'
    BY <1>3 DEF Framed, Aligned
  <2> QED BY <2>1, <2>2, <2>3, <2>4, <2>5 DEF Aligned, Loop
<1>7. PackagesInOrder'
  <2>1. (Len(received) <= Len(sent))'
    BY <1>2, <1>3, <1>4, <1>5
  <2>2. ASSUME NEW k \in 1 .. r
        PROVE  /\ received[k].head = Header(sent'[k])
               /\ received[k].body = Stream(sent'[k].at + HEADER_SIZE, sent'[k].BodySize)
    <3>1. sent'[k] = sent[k]
      BY <1>2, <1>5
    <3> QED BY <1>4, <3>1 DEF Framed, PackagesInOrder
  <2> QED BY <1>3, <1>4, <2>1, <2>2 DEF PackagesInOrder, Header, Stream
<1>8. OnlyBadDataRefused'
  <2>1. ASSUME why = "data" PROVE r < n /\ ~WellFormed(sent[r + 1]) /\ sent'[r + 1] = sent[r + 1]
    BY <1>1, <1>2, <1>4, <2>1 DEF Framed, OnlyBadDataRefused
  <2>2. (why = "data" => Len(received) < Len(sent) /\ ~WellFormed(sent[Len(received) + 1]))'
    BY <1>2, <1>3, <1>4, <2>1 DEF WellFormed
  <2>4. ASSUME pc = "crashed"
        PROVE  /\ r < n /\ sent[r + 1].Sign = HEADER_SIGN /\ sent[r + 1].BodySize < 0
               /\ sent'[r + 1] = sent[r + 1]
    BY <1>1, <1>2, <1>4, <2>4 DEF Framed, OnlyBadDataRefused
  <2>5. (pc = "crashed" => /\ Len(received) < Len(sent)
                          /\ sent[Len(received) + 1].Sign = HEADER_SIGN
                          /\ sent[Len(received) + 1].BodySize < 0)'
    BY <1>2, <1>3, <1>4, <2>4
  <2>3. (\A k \in DOMAIN received : WellFormed(received[k].head))'
    BY <1>3 DEF Framed, OnlyBadDataRefused, WellFormed
  <2> QED BY <2>2, <2>3, <2>5 DEF OnlyBadDataRefused
<1> QED BY <1>6, <1>7, <1>8 DEF Framed

LEMMA FramedRead ==
    ASSUME BoundInv, Framed, OnSocketRead, BoundInv'
    PROVE  Framed'
<1>1. UNCHANGED << sent, m_RecvHeader, received >> /\ pc = "read" /\ why # "data"
  BY DEF OnSocketRead, peerVars, Framed, Aligned
<1>2. CASE UNCHANGED << consumed, m_RecvBuffer >> /\ (Remove("peer") \/ Remove("recv"))
  BY <1>1, <1>2, FramedKept DEF Remove, Loop
<1>3. ASSUME NEW n \in 1 .. RECV_SIZE,
             consumed + n <= written,
             consumed' = consumed + n,
             m_RecvBuffer' = AddData(m_RecvBuffer, Stream(consumed, n), NET_BUFFER_SIZE),
             IF Fits(m_RecvBuffer, n, NET_BUFFER_SIZE)
             THEN pc' = "check" /\ UNCHANGED << ev, why >>
             ELSE Remove("full")
      PROVE  Framed'
  <2>1. n \in Nat /\ consumed \in Nat /\ m_RecvBuffer \in Seq(Nat) /\ Len(m_RecvBuffer) \in Nat
    BY SizesAssumption DEF BoundInv, TypeOK
  <2>2. PICK l \in Nat : l = Len(m_RecvBuffer)
    BY <2>1
  <2>3. PICK a \in Nat : a = consumed - l /\ l <= consumed
    BY <2>1, <2>2 DEF Framed, Aligned
  <2>4. Fits(m_RecvBuffer, n, NET_BUFFER_SIZE)
    BY <1>3 DEF BoundInv, RecvBufferSuffices, Remove
  <2>5. Len(Stream(consumed, n)) = n
    BY <2>1, StreamType
  <2>6. m_RecvBuffer' = Stream(a, l + n)
    <3>1. m_RecvBuffer' = m_RecvBuffer \o Stream(consumed, n)
      BY <1>3, <2>4, <2>5 DEF AddData, Fits
    <3>2. m_RecvBuffer = Stream(a, l)
      BY <2>2, <2>3 DEF Framed, Aligned, RemainderMovedBack
    <3>3. consumed = a + l
      BY <2>1, <2>3
    <3> QED BY <2>1, <3>1, <3>2, <3>3, StreamConcat
  <2>7. Len(m_RecvBuffer') = l + n
    BY <2>1, <2>6, StreamType
  <2>8. consumed' - Len(m_RecvBuffer') = a
    BY <1>3, <2>1, <2>3, <2>7
  <2>9. Aligned'
    <3>1. RemainderMovedBack'
      BY <2>6, <2>7, <2>8 DEF RemainderMovedBack, Stream
    <3>2. (Len(m_RecvBuffer) <= consumed)'
      BY <1>3, <2>1, <2>3, <2>7
    <3>3. (consumed - Len(m_RecvBuffer) = StartOf(Len(received) + 1))'
      BY <1>1, <2>2, <2>3, <2>8 DEF Framed, Aligned, StartOf, WireSize, SizeOf
    <3>4. pc' = "check" /\ why' = why
      BY <1>3, <2>4
    <3> QED BY <1>1, <3>1, <3>2, <3>3, <3>4 DEF Framed, Aligned, Header
  <2>10. PackagesInOrder' /\ OnlyBadDataRefused'
    <3>1. why' = why /\ pc' = "check"
      BY <1>3, <2>4
    <3> QED BY <1>1, <3>1 DEF Framed, PackagesInOrder, OnlyBadDataRefused, WellFormed, Header, Stream
  <2> QED BY <2>9, <2>10 DEF Framed
<1> QED BY <1>2, <1>3 DEF OnSocketRead

\* The header found at the front of the buffer is the next package's.
LEMMA UnpackNext ==
    ASSUME BoundInv, Laid, Framed, HeaderArrived, NEW h \in Unpack(m_RecvBuffer)
    PROVE  Len(received) < Len(sent) /\ h = Header(sent[Len(received) + 1])
<1>1. PICK n \in Nat : n = Len(sent) /\ DOMAIN sent = 1 .. n
  BY DEF BoundInv, TypeOK
<1>2. PICK r \in Nat : r = Len(received) /\ r <= n
  BY <1>1 DEF BoundInv, TypeOK, Framed, Aligned
<1>3. PICK l \in Nat : l = Len(m_RecvBuffer)
  BY DEF BoundInv, TypeOK
<1>4. l >= HEADER_SIZE /\ HEADER_SIZE \in Nat \ {0}
  BY <1>3, SizesAssumption DEF HeaderArrived
<1>5. PICK a \in Nat : a = consumed - l /\ a = StartOf(r + 1)
  BY <1>2, <1>3 DEF BoundInv, TypeOK, Framed, Aligned
<1>6. consumed \in Nat /\ written \in Nat /\ consumed <= written
  BY DEF BoundInv, TypeOK
<1>7. r < n
  <2>1. SUFFICES ASSUME r = n PROVE FALSE
    BY <1>2
  <2>2. written <= a
    BY <1>1, <1>5, <2>1 DEF Laid
  <2> QED BY <1>3, <1>4, <1>5, <1>6, <2>2
<1>8. PICK q \in 1 .. n : q = r + 1
  BY <1>7
<1>9. sent[q].at = a
  BY <1>1, <1>5, <1>8 DEF Laid
<1>10. \A i \in 1 .. l : m_RecvBuffer[i] = a + i - 1
  <2>1. m_RecvBuffer = Stream(a, l)
    BY <1>3, <1>5 DEF Framed, Aligned, RemainderMovedBack
  <2> QED BY <2>1 DEF Stream
<1> DEFINE at(p) == \A i \in 1 .. HEADER_SIZE : m_RecvBuffer[i] = p.at + i - 1
           here == {k \in DOMAIN sent : at(sent[k])}
<1>11. q \in here
  BY <1>1, <1>4, <1>9, <1>10
<1>12. ASSUME NEW k \in here PROVE k = q
  <2>1. k \in 1 .. n /\ m_RecvBuffer[1] = sent[k].at + 1 - 1
    BY <1>1, <1>4
  <2>2. m_RecvBuffer[1] = a + 1 - 1
    BY <1>3, <1>4, <1>10
  <2>3. sent[k].at \in Nat /\ WireSize(sent[k]) \in Nat /\ WireSize(sent[k]) >= HEADER_SIZE
    BY <1>1, <2>1, SentFields DEF BoundInv
  <2>4. sent[q].at \in Nat /\ WireSize(sent[q]) \in Nat /\ WireSize(sent[q]) >= HEADER_SIZE
    BY <1>1, SentFields DEF BoundInv
  <2>5. sent[k].at = a
    BY <2>1, <2>2, <2>3
  <2>6. ~ (k < q)
    <3>1. SUFFICES ASSUME k < q PROVE FALSE
      OBVIOUS
    <3>2. sent[k].at + WireSize(sent[k]) <= sent[q].at
      BY <1>1, <2>1, <3>1 DEF Laid
    <3> QED BY <1>4, <1>9, <2>3, <2>5, <3>2
  <2>7. ~ (q < k)
    <3>1. SUFFICES ASSUME q < k PROVE FALSE
      OBVIOUS
    <3>2. sent[q].at + WireSize(sent[q]) <= sent[k].at
      BY <1>1, <2>1, <3>1 DEF Laid
    <3> QED BY <1>4, <1>9, <2>4, <2>5, <3>2
  <2> QED BY <2>1, <2>6, <2>7
<1>13. Unpack(m_RecvBuffer) = IF here = {} THEN Packages ELSE {Header(sent[k]) : k \in here}
  BY DEF Unpack
<1> HIDE DEF here
<1>14. h = Header(sent[q])
  BY <1>11, <1>12, <1>13
<1> QED BY <1>1, <1>2, <1>7, <1>8, <1>14

LEMMA FramedCheck ==
    ASSUME BoundInv, Laid, Framed, CheckRecvPackage
    PROVE  Framed'
<1>1. PICK h \in IF HeaderArrived THEN Unpack(m_RecvBuffer) ELSE {m_RecvHeader} :
        /\ m_RecvHeader' = h
        /\ IF HeaderArrived /\ BadHeader(h)
           THEN Remove("data")
           ELSE /\ pc' = IF PackageArrived(h) THEN "take" ELSE "write"
                /\ UNCHANGED << ev, why >>
  BY DEF CheckRecvPackage
<1>2. pc = "check" /\ UNCHANGED << sent, consumed, m_RecvBuffer, received >>
  BY DEF CheckRecvPackage, peerVars
<1>3. h.Sign # 0 \/ HeaderArrived =>
        Len(received) < Len(sent) /\ h = Header(sent[Len(received) + 1])
  <2>1. CASE HeaderArrived
    BY <1>1, <2>1, UnpackNext
  <2>2. CASE ~HeaderArrived
    BY <1>1, <1>2, <2>2 DEF Framed, Aligned
  <2> QED BY <2>1, <2>2
<1>4. why # "data"
  BY <1>2 DEF Framed, Aligned
<1>5. why' = "data" => HeaderArrived /\ BadHeader(h) /\ pc' = "remove"
  BY <1>1, <1>4 DEF Remove
<1>6. Aligned'
  BY <1>1, <1>2, <1>3, <1>5 DEF Framed, Aligned, RemainderMovedBack, Stream, StartOf, WireSize, SizeOf, Header
<1>7. PackagesInOrder'
  BY <1>2 DEF Framed, PackagesInOrder, Header, Stream
<1>8. OnlyBadDataRefused'
  <2>1. ASSUME why' = "data" PROVE Len(received) < Len(sent) /\ ~WellFormed(sent[Len(received) + 1])
    <3>1. Len(received) < Len(sent) /\ h = Header(sent[Len(received) + 1]) /\ BadHeader(h)
      BY <1>3, <1>5, <2>1
    <3>2. PICK p : p = sent[Len(received) + 1]
      OBVIOUS
    <3>3. p.BodySize \in Int
      <4>1. Len(received) \in Nat /\ Len(sent) \in Nat /\ DOMAIN sent = 1 .. Len(sent)
        BY DEF BoundInv, TypeOK
      <4>2. Len(received) + 1 \in DOMAIN sent
        BY <3>1, <4>1
      <4> QED BY <3>2, <4>2, SentFields DEF BoundInv
    <3>4. ~WellFormed(p)
      BY <3>1, <3>2, <3>3, SizesAssumption DEF BadHeader, WellFormed, Header
    <3> QED BY <3>1, <3>2, <3>4
  <2>2. pc' # "crashed"
    BY <1>1 DEF Remove
  <2> QED BY <1>2, <2>1, <2>2 DEF Framed, OnlyBadDataRefused, WellFormed
<1> QED BY <1>6, <1>7, <1>8 DEF Framed

\* The next package, whole at the front of the buffer, is handed on.
LEMMA Delivered ==
    ASSUME BoundInv, Laid, Framed, pc = "take", m_RecvHeader.BodySize >= 0
    PROVE  /\ Len(received) < Len(sent)
           /\ m_RecvHeader = Header(sent[Len(received) + 1])
           /\ WellFormed(m_RecvHeader)
           /\ GetData(m_RecvBuffer, HEADER_SIZE, m_RecvHeader.BodySize) =
                Stream(sent[Len(received) + 1].at + HEADER_SIZE, sent[Len(received) + 1].BodySize)
<1>1. m_RecvHeader.Sign # 0 /\ Len(m_RecvBuffer) >= SizeOf(m_RecvHeader) /\ ~BadHeader(m_RecvHeader)
  BY DEF BoundInv, Drained
<1>2. Len(received) < Len(sent) /\ m_RecvHeader = Header(sent[Len(received) + 1])
  BY <1>1 DEF Framed, Aligned
<1>3. m_RecvHeader.BodySize \in Nat
  BY DEF BoundInv, TypeOK, Headers
<1>4. WellFormed(m_RecvHeader)
  BY <1>1, <1>3, SizesAssumption DEF WellFormed, BadHeader
<1>5. PICK q \in DOMAIN sent : q = Len(received) + 1
  <2>1. Len(received) \in Nat /\ Len(sent) \in Nat /\ DOMAIN sent = 1 .. Len(sent)
    BY DEF BoundInv, TypeOK
  <2> QED BY <1>2, <2>1
<1>6. PICK l \in Nat : l = Len(m_RecvBuffer)
  BY DEF BoundInv, TypeOK
<1>7. PICK a \in Nat : a = consumed - l /\ a = sent[q].at
  BY <1>5, <1>6, SentFields DEF BoundInv, Laid, Framed, Aligned
<1>8. m_RecvBuffer = Stream(a, l)
  BY <1>6, <1>7 DEF Framed, Aligned, RemainderMovedBack
<1>9. PICK b \in Nat : b = m_RecvHeader.BodySize /\ b = sent[q].BodySize /\ HEADER_SIZE + b <= l
  BY <1>1, <1>2, <1>3, <1>5, <1>6 DEF Header, SizeOf
<1>10. HEADER_SIZE \in Nat
  BY SizesAssumption
<1>11. GetData(m_RecvBuffer, HEADER_SIZE, b) = Stream(a + HEADER_SIZE, b)
  <2>1. PICK h \in Nat : h = HEADER_SIZE /\ h + b <= l
    BY <1>9, <1>10
  <2>2. GetData(Stream(a, l), h, b) = Stream(a + h, b)
    BY <2>1, StreamGet
  <2> QED BY <1>8, <2>1, <2>2
<1> QED BY <1>2, <1>4, <1>5, <1>7, <1>9, <1>11

LEMMA FramedTake ==
    ASSUME MemcpyOrders = {"ascending"}, BoundInv, Laid, Framed, OnRecvData
    PROVE  Framed'
<1>1. /\ pc = "take" /\ TakeRecvPackage /\ UNCHANGED << sent, consumed, why >> /\ pc' = "check"
      /\ m_RecvHeader.BodySize >= 0
  BY DEF OnRecvData, peerVars
<1>2. PICK r \in Nat : r = Len(received) /\ DOMAIN received = 1 .. r
  BY DEF BoundInv, TypeOK
<1>3. PICK q \in DOMAIN sent : q = r + 1 /\ q <= Len(sent) /\ q \in Nat
  <2>1. r \in Nat /\ Len(sent) \in Nat /\ DOMAIN sent = 1 .. Len(sent)
    BY DEF BoundInv, TypeOK
  <2> QED BY <1>1, <1>2, <2>1, Delivered
<1>4. /\ m_RecvHeader = Header(sent[q]) /\ WellFormed(m_RecvHeader)
      /\ GetData(m_RecvBuffer, HEADER_SIZE, m_RecvHeader.BodySize) =
           Stream(sent[q].at + HEADER_SIZE, sent[q].BodySize)
  BY <1>1, <1>2, <1>3, Delivered
<1>5. PICK e : e = [head |-> m_RecvHeader,
                    body |-> GetData(m_RecvBuffer, HEADER_SIZE, m_RecvHeader.BodySize)]
  OBVIOUS
<1>6. /\ e.head = Header(sent[q]) /\ WellFormed(e.head)
      /\ e.body = Stream(sent[q].at + HEADER_SIZE, sent[q].BodySize)
  BY <1>4, <1>5
<1>7. /\ Len(received') = q /\ DOMAIN received' = 1 .. q
      /\ \A k \in 1 .. r : received'[k] = received[k]
      /\ received'[q] = e
  <2>1. received' = Append(received, e)
    BY <1>1, <1>5 DEF TakeRecvPackage
  <2>2. received \in Seq([head : Headers, body : Seq(Nat)])
    BY DEF BoundInv, TypeOK
  <2> QED BY <1>2, <1>3, <2>1, <2>2
<1>8. PICK len \in Nat : len = SizeOf(m_RecvHeader) /\ len = WireSize(sent[q]) /\ len >= 1
  BY <1>1, <1>4, SentFields, SizesAssumption DEF BoundInv, WireSize, SizeOf, Header
<1>9. PICK l \in Nat : l = Len(m_RecvBuffer) /\ len <= l
  BY <1>1, <1>8 DEF BoundInv, TypeOK, Drained
<1>10. PICK a \in Nat : a = consumed - l /\ a = sent[q].at /\ consumed \in Nat
  BY <1>2, <1>3, <1>9, SentFields DEF BoundInv, TypeOK, Laid, Framed, Aligned
<1>11. m_RecvBuffer' = Stream(a + len, l - len)
  <2>1. m_RecvBuffer = Stream(a, l)
    BY <1>9, <1>10 DEF Framed, Aligned, RemainderMovedBack
  <2>2. m_RecvBuffer' = RemoveData(m_RecvBuffer, len, "ascending")
    BY <1>1, <1>8 DEF TakeRecvPackage
  <2> QED BY <1>9, <2>1, <2>2, StreamRemove
<1>12. l - len \in Nat /\ a + len \in Nat
  BY <1>9
<1>13. Len(m_RecvBuffer') = l - len
  BY <1>11, <1>12, StreamType
<1>14. consumed' - Len(m_RecvBuffer') = a + len
  BY <1>1, <1>9, <1>10, <1>12, <1>13
<1>15. Aligned'
  <2>1. RemainderMovedBack'
    BY <1>11, <1>13, <1>14 DEF RemainderMovedBack, Stream
  <2>2. (Len(m_RecvBuffer) <= consumed)'
    BY <1>1, <1>9, <1>10, <1>12, <1>13
  <2>3. (Len(received) <= Len(sent))'
    BY <1>1, <1>3, <1>7
  <2>4. StartOf(Len(received) + 1)' = a + len
    <3>1. (Len(received'))+ 1 # 1 /\ Len(received') + 1 - 1 = q
      BY <1>3, <1>7
    <3> QED BY <1>1, <1>8, <1>10, <3>1 DEF StartOf, WireSize, SizeOf
  <2>5. (consumed - Len(m_RecvBuffer) = StartOf(Len(received) + 1))'
    BY <1>14, <2>4
  <2>6. m_RecvHeader'.Sign = 0
    BY <1>1 DEF TakeRecvPackage, NoHeader
  <2>7. why' # "data"
    BY <1>1 DEF Framed, Aligned
  <2> QED BY <2>1, <2>2, <2>3, <2>5, <2>6, <2>7 DEF Aligned
<1>16. PackagesInOrder'
  <2>1. (Len(received) <= Len(sent))'
    BY <1>1, <1>3, <1>7
  <2>2. ASSUME NEW k \in 1 .. q
        PROVE  /\ received'[k].head = Header(sent[k])
               /\ received'[k].body = Stream(sent[k].at + HEADER_SIZE, sent[k].BodySize)
    <3>1. CASE k = q
      BY <1>6, <1>7, <3>1
    <3>2. CASE k # q
      <4>1. k \in 1 .. r
        BY <1>3, <3>2
      <4> QED BY <1>2, <1>7, <4>1 DEF Framed, PackagesInOrder
    <3> QED BY <3>1, <3>2
  <2> QED BY <1>1, <1>7, <2>1, <2>2 DEF PackagesInOrder, Header, Stream
<1>17. OnlyBadDataRefused'
  <2>1. ASSUME NEW k \in 1 .. q PROVE WellFormed(received'[k].head)
    <3>1. CASE k = q
      BY <1>6, <1>7, <3>1
    <3>2. CASE k # q
      <4>1. k \in 1 .. r
        BY <1>3, <3>2
      <4> QED BY <1>2, <1>7, <4>1 DEF Framed, OnlyBadDataRefused
    <3> QED BY <3>1, <3>2
  <2>2. why' # "data"
    BY <1>1 DEF Framed, Aligned
  <2> QED BY <1>1, <1>7, <2>1, <2>2 DEF OnlyBadDataRefused, WellFormed
<1> QED BY <1>15, <1>16, <1>17 DEF Framed

\* A negative size in the next package, and nothing else, ends the process.
LEMMA FramedCrash ==
    ASSUME BoundInv, Framed, GetDataNegative
    PROVE  Framed'
<1>1. /\ pc = "take" /\ m_RecvHeader.BodySize < 0 /\ pc' = "crashed"
      /\ UNCHANGED << sent, consumed, m_RecvBuffer, m_RecvHeader, received, why >>
  BY DEF GetDataNegative, peerVars, connVars
<1>2. m_RecvHeader.Sign # 0 /\ ~BadHeader(m_RecvHeader)
  BY <1>1 DEF BoundInv, Drained
<1>3. Len(received) < Len(sent) /\ m_RecvHeader = Header(sent[Len(received) + 1])
  BY <1>1, <1>2 DEF Framed, Aligned
<1>4. sent[Len(received) + 1].Sign = HEADER_SIGN /\ sent[Len(received) + 1].BodySize < 0
  BY <1>1, <1>2, <1>3 DEF Header, BadHeader
<1>5. why # "data"
  BY <1>1 DEF Framed, Aligned
<1>6. Aligned'
  BY <1>1, <1>5 DEF Framed, Aligned, RemainderMovedBack, Stream, StartOf, WireSize, SizeOf
<1>7. PackagesInOrder'
  BY <1>1 DEF Framed, PackagesInOrder, Header, Stream
<1>8. OnlyBadDataRefused'
  BY <1>1, <1>3, <1>4, <1>5 DEF Framed, OnlyBadDataRefused, WellFormed
<1> QED BY <1>6, <1>7, <1>8 DEF Framed

LEMMA FrameInit == Init => FrameInv
<1> SUFFICES ASSUME Init PROVE FrameInv
  OBVIOUS
<1>1. /\ sent = << >> /\ received = << >> /\ m_RecvBuffer = << >> /\ consumed = 0 /\ written = 0
      /\ m_RecvHeader.Sign = 0 /\ why = "none" /\ pc = "select"
  BY DEF Init, NoHeader
<1>2. /\ Len(sent) = 0 /\ DOMAIN sent = {} /\ Len(received) = 0 /\ DOMAIN received = {}
      /\ Len(m_RecvBuffer) = 0
  BY <1>1
<1>3. StartOf(Len(sent) + 1) = 0 /\ StartOf(Len(received) + 1) = 0
  BY <1>2 DEF StartOf
<1>4. Laid
  BY <1>1, <1>2, <1>3 DEF Laid
<1>5. RemainderMovedBack
  <2>1. Stream(0, 0) \in Seq(Nat) /\ Len(Stream(0, 0)) = 0
    BY StreamType
  <2>2. Stream(0, 0) = << >>
    BY <2>1
  <2>3. PICK c \in Nat, l \in Nat : c = 0 /\ l = 0 /\ c = consumed /\ l = Len(m_RecvBuffer)
    BY <1>1, <1>2, Zenon
  <2>4. c - l = 0
    BY <2>3
  <2> QED BY <1>1, <1>2, <2>2, <2>3, <2>4 DEF RemainderMovedBack
<1>6. Aligned
  BY <1>1, <1>2, <1>3, <1>5 DEF Aligned
<1>7. PackagesInOrder /\ OnlyBadDataRefused
  BY <1>1, <1>2 DEF PackagesInOrder, OnlyBadDataRefused
<1> QED BY <1>4, <1>6, <1>7, BoundInit DEF FrameInv

LEMMA FrameNext ==
    ASSUME MemcpyOrders = {"ascending"}
    PROVE  FrameInv /\ [Next]_vars => FrameInv'
<1> SUFFICES ASSUME FrameInv, [Next]_vars PROVE FrameInv'
  OBVIOUS
<1>1. BoundInv /\ Laid /\ Framed /\ TypeOK
  BY DEF FrameInv, Framed, BoundInv
<1>2. BoundInv' /\ Laid'
  BY <1>1, BoundNext, LaidNext
<1>3. ASSUME NEW h \in Packages, PeerSend(h) PROVE Framed'
  BY <1>1, <1>3, FramedSend
<1>4. ASSUME OnSocketRead PROVE Framed'
  BY <1>1, <1>2, <1>4, FramedRead
<1>5. ASSUME CheckRecvPackage PROVE Framed'
  BY <1>1, <1>5, FramedCheck
<1>6. ASSUME OnRecvData PROVE Framed'
  BY <1>1, <1>6, FramedTake
<1>7. ASSUME (\E how \in {"closed", "reset"} : PeerLeave(how)) \/ PeerRead \/ Closed \/ UNCHANGED vars
      PROVE Framed'
  <2>1. /\ UNCHANGED << sent, consumed, m_RecvBuffer, m_RecvHeader, received, pc, why >>
    BY <1>7 DEF PeerLeave, PeerRead, Closed, vars, connVars, peerVars, threadVars
  <2>2. why = "data" => pc \in {"remove", "closed"}
    BY <1>1 DEF Framed, Aligned
  <2> QED BY <1>1, <2>1, <2>2, FramedKept
<1>8. ASSUME EpollWait \/ DoSend \/ NoWrite \/ OnSocketClose PROVE Framed'
  <2>1. UNCHANGED << sent, consumed, m_RecvBuffer, m_RecvHeader, received >>
    BY <1>8 DEF EpollWait, DoSend, NoWrite, OnSocketClose, connVars, peerVars
  <2>2. pc' \in Loop => pc \in Loop
    BY <1>8 DEF EpollWait, DoSend, NoWrite, OnSocketClose, Loop
  <2>3. why = "data" => pc \in {"remove", "closed"}
    BY <1>1 DEF Framed, Aligned
  <2>4. why' = "data" => why = "data" /\ pc' \in {"remove", "closed"}
    BY <1>8, <2>3 DEF EpollWait, DoSend, NoWrite, OnSocketClose, Remove
  <2>5. pc' # "crashed"
    BY <1>8 DEF EpollWait, DoSend, NoWrite, OnSocketClose, Remove
  <2> QED BY <1>1, <2>1, <2>2, <2>4, <2>5, FramedKept
<1>9. ASSUME GetDataNegative PROVE Framed'
  BY <1>1, <1>9, FramedCrash
<1>10. Framed'
  BY <1>3, <1>4, <1>5, <1>6, <1>7, <1>8, <1>9 DEF Next, PeerNext, NetThread
<1> QED BY <1>2, <1>10 DEF FrameInv, Framed

(***************************************************************************)
(* With a memcpy that copies upwards RemoveData really moves the remaining *)
(* data back: m_RecvBuffer always holds the bytes received and not taken,  *)
(* in their order.  The run net_connection_memcpy shows the other case.    *)
(***************************************************************************)
THEOREM RemainderKept ==
    ASSUME MemcpyOrders = {"ascending"}
    PROVE  Spec => []RemainderMovedBack
<1>1. FrameInv => RemainderMovedBack
  BY DEF FrameInv, Aligned
<1> QED BY <1>1, FrameInit, FrameNext, PTL DEF Spec

(***************************************************************************)
(* The server is handed exactly the packages the peer sent, in order, each *)
(* once and with its own header and body, for every set of packages and    *)
(* every chunking of the stream, when memcpy copies upwards.               *)
(***************************************************************************)
THEOREM PackagesKeepOrder ==
    ASSUME MemcpyOrders = {"ascending"}
    PROVE  Spec => []PackagesInOrder
<1>1. FrameInv => PackagesInOrder
  BY DEF FrameInv
<1> QED BY <1>1, FrameInit, FrameNext, PTL DEF Spec

(***************************************************************************)
(* Whatever sizes, negative ones included, the peer's headers give: only   *)
(* packages of the right sign and of size 0 to NET_PACKAGE_MAX_SIZE are    *)
(* handed on, CheckRecvPackage answers -1 only for the first package that  *)
(* is not one of these, and the process ends in GetData only when that     *)
(* package has a negative size, which CheckRecvPackage does not refuse.    *)
(***************************************************************************)
THEOREM OnlyMalformedRefused ==
    ASSUME MemcpyOrders = {"ascending"}
    PROVE  Spec => []OnlyBadDataRefused
<1>1. FrameInv => OnlyBadDataRefused
  BY DEF FrameInv
<1> QED BY <1>1, FrameInit, FrameNext, PTL DEF Spec
----------------------------------------------------------------------------
(* The connection implements PackageChannel.                               *)

\* The contents of the packages sent, as the channel sees them.
Contents == [k \in DOMAIN sent |-> Content(sent[k])]

LEMMA ChannelInit == Init => Channel!Init
<1> SUFFICES ASSUME Init PROVE Channel!Init
  OBVIOUS
<1>1. Contents = << >>
  BY DEF Init, Contents
<1>2. received = << >> /\ ((peer = "open") = TRUE) /\ ((pc \in {"remove", "closed", "crashed"}) = FALSE)
  BY DEF Init
<1> QED BY <1>1, <1>2 DEF Channel!Init, Contents

\* What the channel sees of a package is its header and its body.
LEMMA ContentsType ==
    ASSUME TypeOK
    PROVE  /\ Contents \in Seq([head : Headers, body : Seq(Nat)])
           /\ Len(Contents) = Len(sent) /\ DOMAIN Contents = DOMAIN sent
           /\ \A k \in DOMAIN sent : Contents[k] = Content(sent[k])
<1>1. ASSUME NEW k \in DOMAIN sent PROVE Content(sent[k]) \in [head : Headers, body : Seq(Nat)]
  <2>1. sent[k].at + HEADER_SIZE \in Nat /\ sent[k].BodySize \in Int /\ Header(sent[k]) \in Headers
    BY SentFields, SizesAssumption
  <2>2. Stream(sent[k].at + HEADER_SIZE, sent[k].BodySize) \in Seq(Nat)
    <3>1. CASE sent[k].BodySize \in Nat
      BY <2>1, <3>1, StreamType
    <3>2. CASE sent[k].BodySize \notin Nat
      <4>1. 1 .. sent[k].BodySize = 1 .. 0
        BY <2>1, <3>2
      <4>2. Stream(sent[k].at + HEADER_SIZE, sent[k].BodySize) = Stream(sent[k].at + HEADER_SIZE, 0)
        BY <4>1, Zenon DEF Stream
      <4> QED BY <2>1, <4>2, StreamType
    <3> QED BY <3>1, <3>2
  <2> QED BY <2>1, <2>2 DEF Content
<1>2. PICK n \in Nat : n = Len(sent) /\ DOMAIN sent = 1 .. n
  BY DEF TypeOK
<1> QED BY <1>1, <1>2 DEF Contents

Shut == pc \in {"remove", "closed", "crashed"}

\* The steps of the channel in terms of Contents and Shut.
LEMMA ChannelStutter ==
    ASSUME UNCHANGED << sent, received, peer >>, Shut' <=> Shut
    PROVE  UNCHANGED Channel!vars
<1>1. UNCHANGED Contents
  BY DEF Contents, Content, Header, Stream
<1>2. UNCHANGED (peer = "open") /\ UNCHANGED (pc \in {"remove", "closed", "crashed"})
  BY DEF Shut
<1> QED BY <1>1, <1>2 DEF Channel!vars, Contents

LEMMA ChannelSend ==
    ASSUME TypeOK, TypeOK', NEW h \in Packages, PeerSend(h)
    PROVE  Channel!Send
<1>1. PICK n \in Nat : n = Len(sent) /\ DOMAIN sent = 1 .. n
  BY DEF TypeOK
<1>2. Len(sent') = n + 1 /\ DOMAIN sent' = 1 .. n + 1 /\ \A k \in 1 .. n : sent'[k] = sent[k]
  BY <1>1, SentAppended
<1>3. PICK c : c = Contents
  OBVIOUS
<1>4. PICK d : d = Contents'
  OBVIOUS
<1>5. /\ c \in Seq([head : Headers, body : Seq(Nat)]) /\ Len(c) = n
      /\ \A k \in 1 .. n : c[k] = Content(sent[k])
  BY <1>1, <1>3, ContentsType
<1>6. /\ d \in Seq([head : Headers, body : Seq(Nat)]) /\ Len(d) = n + 1
      /\ \A k \in 1 .. n : d[k] = Content(sent[k])
  <2>1. /\ d \in Seq([head : Headers, body : Seq(Nat)]) /\ Len(d) = n + 1
    <3>1. (TypeOK => /\ Contents \in Seq([head : Headers, body : Seq(Nat)])
                     /\ Len(Contents) = Len(sent))'
      BY ContentsType, PTL
    <3> QED BY <1>2, <1>4, <3>1
  <2>2. d = [k \in 1 .. n + 1 |-> Content(sent'[k])]
    BY <1>2, <1>4 DEF Contents, Content, Header, Stream
  <2> QED BY <1>2, <2>1, <2>2
<1>7. SubSeq(d, 1, n) = c
  <2>1. PICK w : w = SubSeq(d, 1, n)
    OBVIOUS
  <2>2. PICK S : S = [head : Headers, body : Seq(Nat)]
    OBVIOUS
  <2>3. c \in Seq(S) /\ d \in Seq(S)
    BY <1>5, <1>6, <2>2
  <2>4. \A i \in 1 .. n : d[i] \in S
    BY <1>6, <2>3
  <2>5. w \in Seq(S) /\ Len(w) = n /\ \A i \in 1 .. n : w[i] = d[i]
    <3>1. /\ w \in Seq(S)
          /\ Len(w) = IF 1 <= n THEN n - 1 + 1 ELSE 0
          /\ \A i \in 1 .. n - 1 + 1 : w[i] = d[1 + i - 1]
      BY <2>1, <2>4, SubSeqProperties
    <3> QED BY <3>1
  <2>6. \A i \in 1 .. n : w[i] = c[i]
    BY <1>5, <1>6, <2>5
  <2>7. w = c
    BY <1>5, <2>3, <2>5, <2>6, SeqEqual
  <2> QED BY <2>1, <2>7
<1>8. (peer = "open") = TRUE
  BY DEF PeerSend
<1>9. UNCHANGED received /\ UNCHANGED (peer = "open") /\ UNCHANGED (pc \in {"remove", "closed", "crashed"})
  BY DEF PeerSend, connVars, threadVars
<1>10. Len(Contents') = Len(Contents) + 1 /\ SubSeq(Contents', 1, Len(Contents)) = Contents
  BY <1>3, <1>4, <1>5, <1>6, <1>7
<1> QED BY <1>8, <1>9, <1>10 DEF Channel!Send, Contents

LEMMA ChannelLeave ==
    ASSUME NEW how \in {"closed", "reset"}, PeerLeave(how)
    PROVE  Channel!Leave \/ UNCHANGED Channel!vars
<1>1. UNCHANGED << sent, received, pc >> /\ peer' = how
  BY DEF PeerLeave, connVars, threadVars
<1>2. UNCHANGED Contents /\ UNCHANGED (pc \in {"remove", "closed", "crashed"})
  BY <1>1 DEF Contents, Content, Header, Stream
<1>3. ((peer' = "open") = FALSE) /\ (peer = "open" => ((peer = "open") = TRUE))
  BY <1>1
<1>4. CASE peer = "open"
  BY <1>1, <1>2, <1>3, <1>4 DEF Channel!Leave, Contents
<1>5. CASE peer # "open"
  <2>1. UNCHANGED (peer = "open")
    BY <1>1, <1>5
  <2> QED BY <1>1, <1>2, <2>1 DEF Channel!vars, Contents
<1> QED BY <1>4, <1>5

LEMMA ChannelDeliver ==
    ASSUME BoundInv, Laid, Framed, OnRecvData
    PROVE  Channel!Deliver
<1>1. /\ pc = "take" /\ TakeRecvPackage /\ UNCHANGED << sent, peer >> /\ pc' = "check"
      /\ m_RecvHeader.BodySize >= 0
  BY DEF OnRecvData, peerVars
<1>2. PICK q \in DOMAIN sent : q = Len(received) + 1 /\ Len(received) < Len(sent)
  <2>1. Len(received) \in Nat /\ Len(sent) \in Nat /\ DOMAIN sent = 1 .. Len(sent)
    BY DEF BoundInv, TypeOK
  <2> QED BY <1>1, <2>1, Delivered
<1>3. /\ m_RecvHeader = Header(sent[q]) /\ WellFormed(m_RecvHeader)
      /\ GetData(m_RecvBuffer, HEADER_SIZE, m_RecvHeader.BodySize) =
           Stream(sent[q].at + HEADER_SIZE, sent[q].BodySize)
  BY <1>1, <1>2, Delivered
<1>4. /\ Len(Contents) = Len(sent) /\ Contents[q] = Content(sent[q])
  BY <1>2, ContentsType DEF BoundInv
<1>5. received' = Append(received, Contents[q])
  BY <1>1, <1>3, <1>4 DEF TakeRecvPackage, Content
<1>6. WellFormed(Contents[q].head)
  BY <1>3, <1>4 DEF Content
<1>7. UNCHANGED Contents /\ UNCHANGED (peer = "open")
  BY <1>1 DEF Contents, Content, Header, Stream
<1>8. UNCHANGED (pc \in {"remove", "closed", "crashed"}) /\ ((pc \in {"remove", "closed", "crashed"}) = FALSE)
  BY <1>1
<1> QED BY <1>2, <1>4, <1>5, <1>6, <1>7, <1>8 DEF Channel!Deliver, Contents

LEMMA ChannelShut ==
    ASSUME TypeOK, UNCHANGED << sent, received, peer >>, ~Shut, Shut',
           \/ peer # "open"
           \/ Len(received) < Len(sent) /\ ~WellFormed(sent[Len(received) + 1])
    PROVE  Channel!Shut
<1>1. UNCHANGED Contents /\ UNCHANGED (peer = "open")
  BY DEF Contents, Content, Header, Stream
<1>2. ((pc \in {"remove", "closed", "crashed"}) = FALSE) /\ ((pc' \in {"remove", "closed", "crashed"}) = TRUE)
  BY DEF Shut
<1>3. \/ ~(peer = "open")
      \/ Len(received) < Len(Contents) /\ ~WellFormed(Contents[Len(received) + 1].head)
  <2>1. CASE peer # "open"
    BY <2>1
  <2>2. CASE Len(received) < Len(sent) /\ ~WellFormed(sent[Len(received) + 1])
    <3>1. Len(received) \in Nat /\ Len(sent) \in Nat /\ DOMAIN sent = 1 .. Len(sent)
      BY DEF TypeOK
    <3>2. PICK q \in DOMAIN sent : q = Len(received) + 1
      BY <2>2, <3>1
    <3>3. Len(Contents) = Len(sent) /\ Contents[q] = Content(sent[q])
      BY <3>2, ContentsType
    <3>4. ~WellFormed(Contents[q].head)
      BY <2>2, <3>2, <3>3 DEF WellFormed, Content, Header
    <3> QED BY <2>2, <3>2, <3>3, <3>4
  <2> QED BY <2>1, <2>2
<1> QED BY <1>1, <1>2, <1>3 DEF Channel!Shut, Contents

LEMMA ChannelNext ==
    ASSUME FrameInv, FrameInv', [Next]_vars
    PROVE  [Channel!Next]_(Channel!vars)
<1>1. BoundInv /\ Laid /\ Framed /\ TypeOK /\ TypeOK'
  BY DEF FrameInv, Framed, BoundInv
<1>2. ASSUME NEW h \in Packages, PeerSend(h) PROVE Channel!Send
  BY <1>1, <1>2, ChannelSend
<1>3. ASSUME NEW how \in {"closed", "reset"}, PeerLeave(how)
      PROVE  Channel!Leave \/ UNCHANGED Channel!vars
  BY <1>3, ChannelLeave
<1>4. ASSUME OnRecvData PROVE Channel!Deliver
  BY <1>1, <1>4, ChannelDeliver
<1>5. ASSUME CheckRecvPackage PROVE Channel!Shut \/ UNCHANGED Channel!vars
  <2>1. UNCHANGED << sent, received, peer >> /\ ~Shut
    BY <1>5 DEF CheckRecvPackage, peerVars, Shut
  <2>2. CASE Shut'
    <3>1. why' = "data"
      BY <1>5, <2>2 DEF CheckRecvPackage, Remove, Shut
    <3>2. (Len(received) < Len(sent) /\ ~WellFormed(sent[Len(received) + 1]))'
      BY <3>1 DEF FrameInv, OnlyBadDataRefused
    <3>3. Len(received) < Len(sent) /\ ~WellFormed(sent[Len(received) + 1])
      BY <2>1, <3>2 DEF WellFormed
    <3> QED BY <1>1, <2>1, <2>2, <3>3, ChannelShut
  <2>3. CASE ~Shut'
    BY <2>1, <2>3, ChannelStutter
  <2> QED BY <2>2, <2>3
<1>6. ASSUME EpollWait \/ OnSocketRead \/ DoSend
      PROVE  Channel!Shut \/ UNCHANGED Channel!vars
  <2>1. UNCHANGED << sent, received, peer >> /\ ~Shut
    BY <1>6 DEF EpollWait, OnSocketRead, DoSend, peerVars, connVars, Shut
  <2>2. CASE Shut'
    <3>1. peer # "open"
      <4>1. CASE EpollWait
        BY <2>2, <4>1 DEF EpollWait, Ready, Shut
      <4>2. CASE OnSocketRead
        <5>1. why' # "full"
          BY DEF FrameInv, BoundInv, RecvBufferSuffices
        <5> QED BY <2>2, <4>2, <5>1 DEF OnSocketRead, Remove, Shut
      <4>3. CASE DoSend
        BY <2>2, <4>3 DEF DoSend, Shut
      <4> QED BY <1>6, <4>1, <4>2, <4>3
    <3> QED BY <1>1, <2>1, <2>2, <3>1, ChannelShut
  <2>3. CASE ~Shut'
    BY <2>1, <2>3, ChannelStutter
  <2> QED BY <2>2, <2>3
<1>7. ASSUME PeerRead \/ NoWrite \/ OnSocketClose \/ Closed \/ UNCHANGED vars
      PROVE  UNCHANGED Channel!vars
  <2>1. UNCHANGED << sent, received, peer >> /\ (Shut' <=> Shut)
    BY <1>7 DEF PeerRead, NoWrite, OnSocketClose, Closed, vars, peerVars, connVars, threadVars, Shut
  <2> QED BY <2>1, ChannelStutter
<1>8. ASSUME GetDataNegative PROVE Channel!Shut
  <2>1. UNCHANGED << sent, received, peer >> /\ ~Shut /\ Shut' /\ pc' = "crashed"
    BY <1>8 DEF GetDataNegative, peerVars, connVars, Shut
  <2>2. (Len(received) < Len(sent) /\ sent[Len(received) + 1].BodySize < 0)'
    BY <2>1 DEF FrameInv, OnlyBadDataRefused
  <2>3. Len(received) < Len(sent) /\ sent[Len(received) + 1].BodySize < 0
    BY <2>1, <2>2
  <2>4. ~WellFormed(sent[Len(received) + 1])
    BY <2>3, SizesAssumption DEF WellFormed
  <2> QED BY <1>1, <2>1, <2>3, <2>4, ChannelShut
<1> QED BY <1>2, <1>3, <1>4, <1>5, <1>6, <1>7, <1>8 DEF Next, PeerNext, NetThread, Channel!Next

(***************************************************************************)
(* The connection implements PackageChannel: what its user sees is the     *)
(* peer's packages arriving whole, in order and once, until the peer       *)
(* leaves or sends a malformed package, one of negative size included.     *)
(* Buffering, the cached header, the chunks and epoll do not show.         *)
(***************************************************************************)
THEOREM ImplementsPackageChannel ==
    ASSUME MemcpyOrders = {"ascending"}
    PROVE  Spec => ChannelSpec
<1>1. FrameInv /\ FrameInv' /\ [Next]_vars => [Channel!Next]_(Channel!vars)
  BY ChannelNext
<1> QED BY <1>1, ChannelInit, FrameInit, FrameNext, PTL DEF Spec, ChannelSpec, Channel!Spec
----------------------------------------------------------------------------
(* The sending side.                                                       *)

\* A byte of the answer to request q tells q and its own place.
LEMMA ReplyByte ==
    ASSUME NEW m \in Nat \ {0}, NEW q \in Nat, NEW r \in 0 .. m - 1, NEW x \in Int, x = q * m + r
    PROVE  x % m = r /\ x \div m = q
  OBVIOUS

\* Which requests the bytes below q * m can belong to.
LEMMA ReplyOf ==
    ASSUME NEW m \in Nat \ {0}, NEW q \in Nat, NEW x \in Nat, m <= x, x < q * m
    PROVE  x \div m \in 1 .. q - 1
  OBVIOUS

\* What has been queued for the peer, sent or not.
Out == wire \o m_SendBuffer

\* What SendStreamIntact says of the bytes out and the packages rec.
Whole(out, rec) ==
    \A i \in DOMAIN out :
        /\ (i = 1 \/ out[i - 1] % ReplyLen = ReplyLen - 1) => out[i] % ReplyLen = 0
        /\ out[i] % ReplyLen = 0 =>
             /\ \A j \in 1 .. i - 1 : out[j] < out[i]
             /\ rec[out[i] \div ReplyLen].head.Command = CMD_LOGIN
        /\ out[i] % ReplyLen < ReplyLen - 1 =>
             i < Len(out) /\ out[i + 1] = out[i] + 1

\* The bytes belong to answers to the first r packages.
Answers(out, r) ==
    \A i \in DOMAIN out : ReplyLen <= out[i] /\ out[i] < (r + 1) * ReplyLen

SendInv == SendStreamIntact /\ Answers(Out, Len(received))

LEMMA ReplyLenType == ReplyLen \in Nat \ {0}
  BY SizesAssumption DEF ReplyLen

\* Another package does not disturb what is queued.
LEMMA WholeKept ==
    ASSUME NEW out \in Seq(Nat), NEW rec, NEW rec2, NEW r \in Nat,
           Whole(out, rec), Answers(out, r), \A k \in 1 .. r : rec2[k] = rec[k]
    PROVE  Whole(out, rec2) /\ Answers(out, r + 1)
<1>1. PICK m \in Nat \ {0} : m = ReplyLen
  BY ReplyLenType
<1>2. PICK e \in Nat : e = (r + 1) * m
  OBVIOUS
<1>3. e + m = (r + 1 + 1) * m
  BY <1>2
<1>4. ASSUME NEW i \in DOMAIN out
      PROVE  /\ m <= out[i] /\ out[i] < e /\ out[i] \in Nat
             /\ rec2[out[i] \div m] = rec[out[i] \div m]
  <2>1. m <= out[i] /\ out[i] < e /\ out[i] \in Nat
    BY <1>1, <1>2 DEF Answers
  <2>2. PICK x \in Nat, q \in Nat : x = out[i] /\ q = r + 1 /\ m <= x /\ x < q * m
    BY <1>2, <2>1
  <2>3. x \div m \in 1 .. q - 1
    BY <2>2, ReplyOf
  <2>4. out[i] \div m \in 1 .. r
    BY <2>2, <2>3
  <2> QED BY <2>1, <2>4
<1>5. Answers(out, r + 1)
  BY <1>1, <1>2, <1>3, <1>4 DEF Answers
<1>6. Whole(out, rec2)
  BY <1>1, <1>4 DEF Whole
<1> QED BY <1>5, <1>6

\* A whole answer to package r + 1 goes behind what is queued.
LEMMA WholeAppended ==
    ASSUME NEW out \in Seq(Nat), NEW rec, NEW r \in Nat,
           Whole(out, rec), Answers(out, r), rec[r + 1].head.Command = CMD_LOGIN
    PROVE  Whole(out \o Reply(r + 1), rec) /\ Answers(out \o Reply(r + 1), r + 1)
<1>1. PICK m \in Nat \ {0} : m = ReplyLen
  BY ReplyLenType
<1>2. PICK e \in Nat : e = (r + 1) * m
  OBVIOUS
<1>3. m <= e
  BY <1>2
<1>4. PICK new \in Seq(Nat) : new = Reply(r + 1)
  BY ReplyType
<1>5. Len(new) = m /\ \A i \in 1 .. m : new[i] = e + i - 1
  BY <1>1, <1>2, <1>4 DEF Reply
<1>6. PICK all \in Seq(Nat) : all = out \o new
  BY ConcatProperties
<1>7. PICK l \in Nat : l = Len(out)
  OBVIOUS
<1>8. /\ Len(all) = l + m
      /\ \A i \in 1 .. l : all[i] = out[i]
      /\ \A i \in l + 1 .. l + m : all[i] = e + (i - l) - 1
  <2>1. Len(all) = l + m /\ \A i \in 1 .. l + m : all[i] = IF i <= l THEN out[i] ELSE new[i - l]
    BY <1>5, <1>6, <1>7, ConcatProperties
  <2>2. ASSUME NEW i \in 1 .. l PROVE all[i] = out[i]
    BY <2>1
  <2>3. ASSUME NEW i \in l + 1 .. l + m PROVE all[i] = e + (i - l) - 1
    <3>1. i \in 1 .. l + m /\ ~(i <= l)
      OBVIOUS
    <3>2. all[i] = new[i - l]
      BY <2>1, <3>1
    <3>3. PICK j \in 1 .. m : j = i - l
      OBVIOUS
    <3>4. new[j] = e + j - 1
      BY <1>5
    <3> QED BY <3>2, <3>3, <3>4
  <2> QED BY <2>1, <2>2, <2>3
<1>9. ASSUME NEW i \in 1 .. l PROVE m <= all[i] /\ all[i] < e /\ all[i] \in Nat
  <2>1. i \in DOMAIN out /\ all[i] = out[i]
    BY <1>7, <1>8
  <2>2. m <= out[i] /\ out[i] < e
    BY <1>1, <1>2, <2>1 DEF Answers
  <2> QED BY <2>1, <2>2
<1>10. ASSUME NEW i \in l + 1 .. l + m
       PROVE  /\ all[i] \in Nat /\ all[i] = e + (i - l - 1)
              /\ all[i] % m = i - l - 1 /\ all[i] \div m = r + 1
  <2>1. i - l - 1 \in 0 .. m - 1 /\ all[i] \in Nat /\ all[i] = e + (i - l - 1)
    BY <1>8
  <2>2. PICK q \in Nat, d \in 0 .. m - 1, x \in Int :
          q = r + 1 /\ d = i - l - 1 /\ x = all[i]
    BY <2>1
  <2>3. e = q * m /\ x = e + d
    BY <1>2, <2>1, <2>2
  <2>4. x = q * m + d
    BY <2>3
  <2>5. x % m = d /\ x \div m = q
    BY <2>4, ReplyByte
  <2> QED BY <2>1, <2>2, <2>5
<1>11. Answers(all, r + 1)
  <2>1. ASSUME NEW i \in l + 1 .. l + m PROVE m <= all[i] /\ all[i] < e + m
    <3>1. all[i] = e + (i - l - 1)
      BY <1>10
    <3>2. m <= e + (i - l - 1) /\ e + (i - l - 1) < e + m
      BY <1>3
    <3> QED BY <3>1, <3>2
  <2>2. ASSUME NEW i \in 1 .. l PROVE m <= all[i] /\ all[i] < e + m
    BY <1>9
  <2>3. DOMAIN all = 1 .. l + m /\ \A i \in DOMAIN all : i \in 1 .. l \/ i \in l + 1 .. l + m
    BY <1>8
  <2>4. \A i \in DOMAIN all : m <= all[i] /\ all[i] < e + m
    BY <2>1, <2>2, <2>3, Zenon
  <2>5. e + m = (r + 1 + 1) * m
    BY <1>2
  <2> QED BY <1>1, <2>4, <2>5 DEF Answers
<1>12. ASSUME NEW i \in 1 .. l
       PROVE  /\ (i = 1 \/ all[i - 1] % m = m - 1) => all[i] % m = 0
              /\ all[i] % m = 0 =>
                   /\ \A j \in 1 .. i - 1 : all[j] < all[i]
                   /\ rec[all[i] \div m].head.Command = CMD_LOGIN
              /\ all[i] % m < m - 1 => i < Len(all) /\ all[i + 1] = all[i] + 1
  <2>1. /\ (i = 1 \/ out[i - 1] % m = m - 1) => out[i] % m = 0
        /\ out[i] % m = 0 =>
             /\ \A j \in 1 .. i - 1 : out[j] < out[i]
             /\ rec[out[i] \div m].head.Command = CMD_LOGIN
        /\ out[i] % m < m - 1 => i < l /\ out[i + 1] = out[i] + 1
    <3>1. i \in DOMAIN out /\ Len(out) = l
      BY <1>7
    <3> QED BY <1>1, <3>1, Zenon DEF Whole
  <2>2. all[i] = out[i] /\ (i # 1 => all[i - 1] = out[i - 1]) /\ (i < l => all[i + 1] = out[i + 1])
    BY <1>8
  <2>3. \A j \in 1 .. i - 1 : all[j] = out[j]
    BY <1>8
  <2> QED BY <1>8, <2>1, <2>2, <2>3, SMTT(30)
<1>13. ASSUME NEW i \in l + 1 .. l + m
       PROVE  /\ (i = 1 \/ all[i - 1] % m = m - 1) => all[i] % m = 0
              /\ all[i] % m = 0 =>
                   /\ \A j \in 1 .. i - 1 : all[j] < all[i]
                   /\ rec[all[i] \div m].head.Command = CMD_LOGIN
              /\ all[i] % m < m - 1 => i < Len(all) /\ all[i + 1] = all[i] + 1
  <2>1. all[i] \in Nat /\ all[i] = e + (i - l - 1) /\ all[i] % m = i - l - 1 /\ all[i] \div m = r + 1
    BY <1>10
  <2>2. i # l + 1 => all[i - 1] % m = i - l - 2
    <3>1. i # l + 1 => i - 1 \in l + 1 .. l + m
      OBVIOUS
    <3> QED BY <1>10, <3>1
  <2>3. (i = 1 \/ all[i - 1] % m = m - 1) => all[i] % m = 0
    BY <2>1, <2>2
  <2>4. i = l + 1 => \A j \in 1 .. i - 1 : all[j] < all[i]
    BY <1>9, <2>1
  <2>5. all[i] % m = 0 =>
          /\ \A j \in 1 .. i - 1 : all[j] < all[i]
          /\ rec[all[i] \div m].head.Command = CMD_LOGIN
    BY <2>1, <2>4
  <2>6. all[i] % m < m - 1 => i < Len(all) /\ all[i + 1] = all[i] + 1
    <3>1. SUFFICES ASSUME i - l - 1 < m - 1 PROVE i < Len(all) /\ all[i + 1] = all[i] + 1
      BY <2>1
    <3>2. i + 1 \in l + 1 .. l + m
      BY <3>1
    <3>3. all[i + 1] = e + (i + 1 - l - 1)
      BY <1>10, <3>2
    <3> QED BY <1>8, <2>1, <3>2, <3>3
  <2> QED BY <2>3, <2>5, <2>6
<1>14. Whole(all, rec)
  <2>1. DOMAIN all = 1 .. l + m /\ \A i \in DOMAIN all : i \in 1 .. l \/ i \in l + 1 .. l + m
    BY <1>8
  <2> QED BY <1>1, <1>12, <1>13, <2>1 DEF Whole
<1> QED BY <1>4, <1>6, <1>11, <1>14

LEMMA BytesConcat ==
    ASSUME NEW s, s \in Seq(Nat), NEW t, t \in Seq(Nat)
    PROVE  /\ s \o t \in Seq(Nat) /\ Len(s \o t) = Len(s) + Len(t)
           /\ \A i \in 1 .. Len(s) + Len(t) : (s \o t)[i] = IF i <= Len(s) THEN s[i] ELSE t[i - Len(s)]
  BY ConcatProperties

\* The bytes send() took and the bytes RemoveData leaves are the buffer's.
LEMMA BufferSplit ==
    ASSUME NEW b \in Seq(Nat), NEW n \in 1 .. Len(b)
    PROVE  /\ SubSeq(b, 1, n) \in Seq(Nat) /\ RemoveData(b, n, "ascending") \in Seq(Nat)
           /\ SubSeq(b, 1, n) \o RemoveData(b, n, "ascending") = b
<1>1. PICK l \in Nat : l = Len(b) /\ n \in 1 .. l
  OBVIOUS
<1>2. PICK h : h = SubSeq(b, 1, n)
  OBVIOUS
<1>3. \A i \in 1 .. n : b[i] \in Nat
  BY <1>1
<1>4. h \in Seq(Nat) /\ Len(h) = n /\ \A i \in 1 .. n : h[i] = b[i]
  <2>1. /\ h \in Seq(Nat) /\ Len(h) = IF 1 <= n THEN n - 1 + 1 ELSE 0
        /\ \A i \in 1 .. n - 1 + 1 : h[i] = b[1 + i - 1]
    BY <1>2, <1>3, SubSeqProperties
  <2> QED BY <1>1, <2>1
<1>5. PICK t : t = RemoveData(b, n, "ascending")
  OBVIOUS
<1>6. t \in Seq(Nat) /\ Len(t) = l - n /\ \A i \in 1 .. l - n : t[i] = b[n + i]
  <2>1. CASE l = n
    <3>1. t = << >>
      BY <1>1, <1>5, <2>1 DEF RemoveData
    <3> QED BY <1>1, <2>1, <3>1
  <2>2. CASE l # n
    <3>1. t = SubSeq(b, n + 1, l)
      BY <1>1, <1>5, <2>2 DEF RemoveData, MoveBack
    <3>2. \A i \in n + 1 .. l : b[i] \in Nat
      BY <1>1
    <3>3. /\ t \in Seq(Nat) /\ Len(t) = IF n + 1 <= l THEN l - (n + 1) + 1 ELSE 0
          /\ \A i \in 1 .. l - (n + 1) + 1 : t[i] = b[n + 1 + i - 1]
      BY <1>1, <3>1, <3>2, SubSeqProperties
    <3> QED BY <1>1, <2>2, <3>3
  <2> QED BY <2>1, <2>2
<1>7. PICK c : c = h \o t
  OBVIOUS
<1>8. c \in Seq(Nat) /\ Len(c) = l /\ \A i \in 1 .. l : c[i] = b[i]
  <2>1. /\ c \in Seq(Nat) /\ Len(c) = Len(h) + Len(t)
        /\ \A i \in 1 .. Len(h) + Len(t) : c[i] = IF i <= Len(h) THEN h[i] ELSE t[i - Len(h)]
    <3>1. h \in Seq(Nat) /\ t \in Seq(Nat)
      BY <1>4, <1>6
    <3> QED BY <1>7, <3>1, BytesConcat, Zenon
  <2>2. Len(h) + Len(t) = l /\ Len(h) = n
    BY <1>1, <1>4, <1>6
  <2>3. \A i \in 1 .. l : c[i] = IF i <= n THEN h[i] ELSE t[i - n]
    BY <2>1, <2>2
  <2>4. ASSUME NEW i \in 1 .. l PROVE c[i] = b[i]
    <3>1. CASE i <= n
      <4>1. i \in 1 .. n
        BY <1>1, <3>1
      <4> QED BY <1>4, <2>3, <3>1, <4>1
    <3>2. CASE i > n
      <4>1. i - n \in 1 .. l - n /\ n + (i - n) = i /\ ~(i <= n)
        BY <1>1, <3>2
      <4>2. t[i - n] = b[n + (i - n)]
        BY <1>6, <4>1
      <4>3. c[i] = t[i - n]
        BY <2>3, <4>1
      <4> QED BY <4>1, <4>2, <4>3
    <3> QED BY <1>1, <3>1, <3>2
  <2> QED BY <2>1, <2>2, <2>4
<1>9. h \o t = b
  BY <1>1, <1>7, <1>8, SeqEqual
<1> QED BY <1>2, <1>4, <1>5, <1>6, <1>9

\* send() moves bytes from the buffer to the wire and changes none.
LEMMA OutSent ==
    ASSUME NEW w \in Seq(Nat), NEW b \in Seq(Nat), NEW n \in 1 .. Len(b)
    PROVE  (w \o SubSeq(b, 1, n)) \o RemoveData(b, n, "ascending") = w \o b
<1>1. PICK h \in Seq(Nat), t \in Seq(Nat) :
        h = SubSeq(b, 1, n) /\ t = RemoveData(b, n, "ascending") /\ h \o t = b
  BY BufferSplit
<1>2. (w \o h) \o t = w \o (h \o t)
  BY SMTT(60)
<1> QED BY <1>1, <1>2

LEMMA SendInit == Init => SendInv
<1> SUFFICES ASSUME Init PROVE SendInv
  OBVIOUS
<1>1. wire = << >> /\ m_SendBuffer = << >>
  BY DEF Init
<1>2. wire \o m_SendBuffer = << >>
  BY <1>1
<1>3. PICK out : out = wire \o m_SendBuffer /\ DOMAIN out = {}
  BY <1>2
<1> QED BY <1>3 DEF SendInv, SendStreamIntact, Out, Answers

LEMMA SendNext ==
    ASSUME MemcpyOrders = {"ascending"}, BoundInv, SendInv, [Next]_vars
    PROVE  SendInv'
<1>1. wire \in Seq(Nat) /\ m_SendBuffer \in Seq(Nat) /\ received \in Seq([head : Headers, body : Seq(Nat)])
  BY DEF BoundInv, TypeOK
<1>2. PICK out \in Seq(Nat) : out = Out
  BY <1>1, ConcatProperties DEF Out
<1>3. PICK r \in Nat : r = Len(received)
  BY <1>1
<1>4. Whole(out, received) /\ Answers(out, r)
  BY <1>2, <1>3 DEF SendInv, SendStreamIntact, Out, Whole
<1>5. ASSUME NEW new, new = Out', NEW rec, rec = received', NEW len, len = Len(received'),
             Whole(new, rec), Answers(new, len)
      PROVE  SendInv'
  BY <1>5 DEF SendInv, SendStreamIntact, Out, Whole, Answers
<1>6. ASSUME UNCHANGED << Out, received >> PROVE SendInv'
  <2>1. out = Out' /\ received = received' /\ r = Len(received')
    BY <1>2, <1>3, <1>6
  <2> QED BY <1>4, <1>5, <2>1
<1>7. CASE OnRecvData
  <2>1. PICK e : /\ e = [head |-> m_RecvHeader,
                         body |-> GetData(m_RecvBuffer, HEADER_SIZE, m_RecvHeader.BodySize)]
                 /\ received' = Append(received, e)
    BY <1>7 DEF OnRecvData, TakeRecvPackage
  <2>2. PICK rec : rec = received'
    OBVIOUS
  <2>3. /\ Len(rec) = r + 1 /\ (\A k \in 1 .. r : rec[k] = received[k]) /\ rec[r + 1] = e
    BY <1>1, <1>3, <2>1, <2>2
  <2>4. Whole(out, rec) /\ Answers(out, r + 1)
    BY <1>4, <2>3, WholeKept
  <2>5. wire' = wire
    BY <1>7 DEF OnRecvData
  <2>6. CASE m_SendBuffer' = m_SendBuffer
    <3>1. out = Out'
      BY <1>2, <2>5, <2>6 DEF Out
    <3> QED BY <1>5, <2>2, <2>3, <2>4, <3>1
  <2>7. CASE m_SendBuffer' # m_SendBuffer
    <3>1. m_RecvHeader.Command = CMD_LOGIN /\ m_SendBuffer' = m_SendBuffer \o Reply(Len(received'))
      BY <1>7, <2>7 DEF OnRecvData, AddSendData, AddData
    <3>2. PICK reply \in Seq(Nat) : reply = Reply(r + 1) /\ reply = Reply(Len(received'))
      BY <2>2, <2>3, ReplyType
    <3>3. Out' = out \o reply
      <4>1. m_SendBuffer' = m_SendBuffer \o reply
        BY <3>1, <3>2
      <4>2. wire \o (m_SendBuffer \o reply) = (wire \o m_SendBuffer) \o reply
        <5>1. wire \in Seq(Nat) /\ m_SendBuffer \in Seq(Nat) /\ reply \in Seq(Nat)
          BY <1>1, <3>2
        <5> QED BY <5>1, SMTT(60)
      <4> QED BY <1>2, <2>5, <4>1, <4>2 DEF Out
    <3>4. rec[r + 1].head.Command = CMD_LOGIN
      BY <2>1, <2>3, <3>1
    <3>5. Whole(out, rec) /\ Answers(out, r)
      BY <1>4, <2>4
    <3>6. Whole(out \o reply, rec) /\ Answers(out \o reply, r + 1)
      BY <3>2, <3>4, <3>5, WholeAppended
    <3> QED BY <1>5, <2>2, <2>3, <3>3, <3>6
  <2> QED BY <2>6, <2>7
<1>8. CASE DoSend
  <2>1. UNCHANGED received
    BY <1>8 DEF DoSend
  <2>2. CASE peer = "reset"
    BY <1>6, <1>8, <2>1, <2>2 DEF DoSend, Out
  <2>3. CASE peer # "reset"
    <3>1. PICK n \in 1 .. Len(m_SendBuffer) :
            /\ wire' = wire \o SubSeq(m_SendBuffer, 1, n)
            /\ m_SendBuffer' = RemoveData(m_SendBuffer, n, "ascending")
      BY <1>8, <2>3 DEF DoSend
    <3>2. Out' = Out
      BY <1>1, <3>1, OutSent DEF Out
    <3> QED BY <1>6, <2>1, <3>2
  <2> QED BY <2>2, <2>3
<1>9. CASE (Next /\ ~OnRecvData /\ ~DoSend) \/ UNCHANGED vars
  <2>1. UNCHANGED << wire, m_SendBuffer, received >>
    BY <1>9 DEF Next, PeerNext, NetThread, PeerSend, PeerLeave, PeerRead, EpollWait, OnSocketRead,
                CheckRecvPackage, GetDataNegative, NoWrite, OnSocketClose, Closed, vars, connVars
  <2> QED BY <1>6, <2>1 DEF Out
<1> QED BY <1>7, <1>8, <1>9

(***************************************************************************)
(* What the peer reads is a sequence of whole replies to logins, in the    *)
(* order of the logins: a full send buffer loses replies, but never leaves *)
(* a part of one behind, whatever the sizes and however send() cuts them.  *)
(***************************************************************************)
THEOREM RepliesWhole ==
    ASSUME MemcpyOrders = {"ascending"}
    PROVE  Spec => []SendStreamIntact
<1>1. BoundInv /\ SendInv /\ [Next]_vars => SendInv'
  BY SendNext
<1>2. SendInv => SendStreamIntact
  BY DEF SendInv
<1> QED BY <1>1, <1>2, SendInit, BoundInit, BoundNext, PTL DEF Spec
============================================================================
