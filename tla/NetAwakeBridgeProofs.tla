------------------------ MODULE NetAwakeBridgeProofs ------------------------
(***************************************************************************)
(* NetAwakeBridge proved, on either system, for any sizes of the package,  *)
(* of the connection and of a recv, and for any number of calls of Notify. *)
(***************************************************************************)
EXTENDS NetAwakeBridge, TLAPS

\* The positions of the stream lie in the order in which bytes pass through it.
Positions ==
    /\ written \in Nat /\ arrived \in Nat /\ taken \in Nat
    /\ taken <= arrived /\ arrived <= written
    /\ whole \subseteq Nat

\* Since select saw room in the connection nobody has written into it.
RoomKept == notifier = "send" => connection = "broken" \/ (connection = "up" /\ Room > 0)

\* Until a send is cut, packages lie end to end from where the net thread is.
EndToEnd ==
    ~cut => /\ taken \in whole \/ taken = written
            /\ \A p \in whole : p + HEADER_SIZE \in whole \/ p + HEADER_SIZE = written

BridgeInv == Positions /\ RoomKept /\ BridgeKept /\ EndToEnd /\ WakeUpsWhole

LEMMA BridgeInvInit == BridgeInit => BridgeInv
  BY BridgeAssumption
  DEF BridgeInit, BridgeInv, Positions, RoomKept, BridgeKept, EndToEnd, WakeUpsWhole

LEMMA BridgeInvNext == BridgeInv /\ [BridgeNext]_bridgeVars => BridgeInv'
<1> SUFFICES ASSUME BridgeInv, [BridgeNext]_bridgeVars PROVE BridgeInv'
  OBVIOUS
<1> USE BridgeAssumption DEF BridgeInv
<1>1. CASE BridgeConnect
  <2>1. UNCHANGED << notifier, selectFailed, written, whole, cut, accepted, arrived, taken >>
    BY <1>1 DEF BridgeConnect, streamVars, netVars
  <2>2. notifier # "send"
    BY <1>1 DEF BridgeConnect, RoomKept
  <2> QED BY <1>1, <2>1, <2>2
    DEF BridgeConnect, Positions, RoomKept, BridgeKept, EndToEnd, WakeUpsWhole
<1>2. CASE Establish
  <2>1. UNCHANGED << m_Send, notifier, selectFailed, written, whole, cut, accepted, arrived, taken >>
    BY <1>2 DEF Establish, notifyVars, streamVars, netVars
  <2> QED BY <1>2, <2>1
    DEF Establish, Positions, RoomKept, BridgeKept, EndToEnd, WakeUpsWhole, Room
<1>3. CASE Notify
  <2>1. UNCHANGED << connection, written, whole, cut, accepted, arrived, taken >>
    BY <1>3 DEF Notify, streamVars, netVars
  <2>2. RoomKept'
    BY <1>3, <2>1 DEF Notify, CheckSend, Selected, RoomKept, Room
  <2>3. BridgeKept'
    BY <1>3, <2>1 DEF Notify, CheckSend, Selected, BridgeKept
  <2> QED BY <2>1, <2>2, <2>3 DEF Positions, EndToEnd, WakeUpsWhole
<1>4. CASE NotifySend
  <2>1. UNCHANGED << connection, selectFailed, accepted, arrived, taken >> /\ notifier' = "idle"
    BY <1>4 DEF NotifySend, netVars
  <2>2. connection = "broken" \/ (connection = "up" /\ Room > 0)
    BY <1>4 DEF NotifySend, RoomKept
  <2>3. Room \in Int
    BY DEF Room, Positions
  <2>4. CASE connection = "up" /\ Room >= HEADER_SIZE /\ written' = written + HEADER_SIZE
             /\ whole' = whole \cup {written} /\ UNCHANGED << m_Send, cut >>
    <3>1. Positions'
      BY <2>1, <2>4 DEF Positions
    <3>2. EndToEnd'
      BY <2>1, <2>4 DEF EndToEnd, Positions
    <3> QED BY <2>1, <2>4, <3>1, <3>2 DEF RoomKept, BridgeKept, WakeUpsWhole
  <2>5. CASE connection = "up" /\ Room > 0 /\ written' = written + Room
             /\ cut' = TRUE /\ UNCHANGED << m_Send, whole >>
    BY <2>1, <2>3, <2>5 DEF Positions, RoomKept, BridgeKept, EndToEnd, WakeUpsWhole
  <2>6. CASE (connection = "broken" \/ Room = 0) /\ UNCHANGED streamVars
    BY <2>1, <2>2, <2>3, <2>6
    DEF streamVars, Positions, RoomKept, BridgeKept, EndToEnd, WakeUpsWhole
  <2> QED BY <1>4, <2>4, <2>5, <2>6 DEF NotifySend
<1>5. CASE Accept
  <2>1. UNCHANGED << m_Send, notifier, selectFailed, written, whole, cut, arrived, taken >>
    BY <1>5 DEF Accept, notifyVars, streamVars
  <2>2. accepted' # "refused"
    BY <1>5 DEF Accept
  <2>3. connection = "up" /\ connection' \in {"up", "broken"}
    BY <1>5 DEF Accept
  <2> QED BY <2>1, <2>2, <2>3
    DEF Positions, RoomKept, BridgeKept, EndToEnd, WakeUpsWhole, Room
<1>6. CASE ReadBridge
  <2>1. UNCHANGED << m_Send, notifier, selectFailed, written, whole, cut, accepted, taken >>
    BY <1>6 DEF ReadBridge, notifyVars, streamVars
  <2>2. connection = "up" /\ connection' \in {"up", "broken"}
    BY <1>6 DEF ReadBridge
  <2>3. arrived' \in Nat /\ arrived <= arrived' /\ arrived' <= written
    BY <1>6 DEF ReadBridge, Positions
  <2>4. RoomKept'
    <3>1. Room > 0 => Room' > 0
      <4>1. Room = SocketRoom - (written - arrived) /\ Room' = SocketRoom - (written - arrived')
        BY <2>1 DEF Room
      <4>2. \A r, w, x, y \in Nat : x <= y /\ r - (w - x) > 0 => r - (w - y) > 0
        OBVIOUS
      <4>3. SocketRoom \in Nat /\ written \in Nat /\ arrived \in Nat
        BY DEF Positions
      <4> HIDE BridgeAssumption DEF BridgeInv
      <4> QED BY <2>3, <4>1, <4>2, <4>3
    <3> QED BY <2>1, <2>2, <3>1 DEF RoomKept
  <2> QED BY <2>1, <2>2, <2>3, <2>4
    DEF Positions, BridgeKept, EndToEnd, WakeUpsWhole
<1>7. CASE CheckRecvPackage
  <2>1. UNCHANGED << m_Send, notifier, selectFailed, written, whole, cut, arrived >>
    BY <1>7 DEF CheckRecvPackage, notifyVars, streamVars
  <2>2. CASE UNCHANGED << taken, accepted, connection >>
    BY <2>1, <2>2 DEF Positions, RoomKept, BridgeKept, EndToEnd, WakeUpsWhole, Room
  <2>3. CASE arrived - taken >= HEADER_SIZE /\ taken \in whole /\ taken' = taken + HEADER_SIZE
             /\ UNCHANGED << accepted, connection >>
    BY <2>1, <2>3 DEF Positions, RoomKept, BridgeKept, EndToEnd, WakeUpsWhole, Room
  <2>4. CASE arrived - taken >= HEADER_SIZE /\ taken \notin whole
    <3>1. cut
      BY <2>4 DEF EndToEnd, Positions
    <3>2. taken' \in Nat /\ taken' <= arrived
      <4>1. taken' = taken \/ taken' \in (taken + HEADER_SIZE) .. arrived
        BY <1>7, <2>4 DEF CheckRecvPackage
      <4> QED BY <4>1 DEF Positions
    <3>3. connection' \in {connection, "broken"}
      BY <1>7 DEF CheckRecvPackage
    <3> QED BY <2>1, <3>1, <3>2, <3>3
      DEF Positions, RoomKept, BridgeKept, EndToEnd, WakeUpsWhole, Room
  <2> QED BY <1>7, <2>2, <2>3, <2>4 DEF CheckRecvPackage
<1>8. CASE BridgeIdle \/ UNCHANGED bridgeVars
  BY <1>8 DEF BridgeIdle, bridgeVars, notifyVars, streamVars, netVars,
    Positions, RoomKept, BridgeKept, EndToEnd, WakeUpsWhole, Room
<1> QED BY <1>1, <1>2, <1>3, <1>4, <1>5, <1>6, <1>7, <1>8 DEF BridgeNext

(***************************************************************************)
(* On either system the bridge is given up only when its connection or     *)
(* select has failed.  CheckSend and Notify close the socket in four       *)
(* places; that the failing send is none of an established connection is   *)
(* because only Notify fills the room its select has seen.                 *)
(***************************************************************************)
THEOREM KeptUntilFailed == BridgeSpec => []BridgeKept
<1>1. BridgeInv => BridgeKept
  BY DEF BridgeInv
<1> QED BY <1>1, BridgeInvInit, BridgeInvNext, PTL DEF BridgeSpec

(***************************************************************************)
(* However recv cuts the stream, the net thread never takes a wake-up for  *)
(* bad data and closes the bridge over it, unless a send was short.        *)
(***************************************************************************)
THEOREM WholeUnlessCut == BridgeSpec => []WakeUpsWhole
<1>1. BridgeInv => WakeUpsWhole
  BY DEF BridgeInv
<1> QED BY <1>1, BridgeInvInit, BridgeInvNext, PTL DEF BridgeSpec
=============================================================================
