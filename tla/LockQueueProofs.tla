-------------------------- MODULE LockQueueProofs --------------------------
(***************************************************************************)
(* LockQueue proved, for any threads and items: it implements the atomic   *)
(* queue, no operation says "empty" of a queue that is not, and Pop is     *)
(* safe for a consumer that is alone.                                      *)
(***************************************************************************)
EXTENDS LockQueue, SequenceTheorems, TLAPS

Critical == {"front", "pop", "unlock"}

Types ==
    /\ m_Data \in Seq(Items)
    /\ op \in [Threads -> {"none", "Push", "Pop", "TryPop", "MoveAll"}]
    /\ pc \in [Threads -> {"idle", "lock"} \cup Critical]
    /\ item \in [Threads -> Items \cup {NULL}]
    /\ got \in [Consumers -> Seq(Items)]
    /\ unused \subseteq Items
    /\ ub \in BOOLEAN

\* Producers push what they were given, consumers do the rest.
Roles ==
    \A t \in Threads :
      /\ pc[t] # "idle" => op[t] # "none"
      /\ op[t] = "Push" => t \in Producers /\ item[t] \in Items
      /\ op[t] \in {"Pop", "TryPop", "MoveAll"} => t \in Consumers /\ op[t] \in Operations

\* The mutex is held by exactly the thread that is at work on the queue.
Excluded == \A t \in Threads : m_Mutex = t <=> pc[t] \in Critical

\* What the thread that holds the mutex knows of the queue.
KnowsFront(t) ==
    /\ pc[t] = "front" => op[t] # "Push" /\ (op[t] # "Pop" => m_Data # << >>)
    /\ pc[t] = "pop" /\ op[t] # "Push" => m_Data # << >> /\ item[t] = Head(m_Data)

KnowsEmpty(t) ==
    /\ pc[t] = "lock" /\ op[t] # "Push" => item[t] = NULL
    /\ pc[t] = "unlock" /\ (op[t] = "MoveAll" \/ (op[t] = "TryPop" /\ item[t] = NULL)) => m_Data = << >>

QueueInv ==
    /\ Types
    /\ Roles
    /\ Excluded
    /\ \A t \in Threads : KnowsFront(t)
    /\ \A t \in Threads : KnowsEmpty(t)
----------------------------------------------------------------------------
LEMMA WhereNext ==
    ASSUME NEW data
    PROVE  /\ AtLoop("Push", data) = "pop"
           /\ AtLoop("Pop", data) = "front"
           /\ AtLoop("TryPop", data) = IF data # << >> THEN "front" ELSE "unlock"
           /\ AtLoop("MoveAll", data) = IF data # << >> THEN "front" ELSE "unlock"
  BY DEF AtLoop

\* Only the thread that holds the mutex is at work on the queue.
LEMMA OneAtWork ==
    ASSUME Excluded, NEW t \in Threads, NEW u \in Threads, u # t,
           pc[t] \in Critical
    PROVE  pc[u] \notin Critical
  BY DEF Excluded

LEMMA QueueInvInit == Init => QueueInv
<1> SUFFICES ASSUME Init PROVE QueueInv
  OBVIOUS
<1> USE DEF Init
<1>1. Types
  <2>1. << >> \in Seq(Items)
    OBVIOUS
  <2> QED BY <2>1 DEF Types
<1>2. Roles
  BY DEF Roles
<1>3. Excluded
  BY QueueAssumption DEF Excluded, Critical, Threads
<1>4. ASSUME NEW t \in Threads PROVE KnowsFront(t) /\ KnowsEmpty(t)
  BY <1>4 DEF KnowsFront, KnowsEmpty
<1> QED BY <1>1, <1>2, <1>3, <1>4 DEF QueueInv

LEMMA CallKeeps ==
    ASSUME QueueInv, NEW t \in Threads, NEW name \in {"Push", "Pop", "TryPop", "MoveAll"},
           NEW i \in Items \cup {NULL}, Call(t, name, i),
           name = "Push" => t \in Producers /\ i \in Items,
           name # "Push" => t \in Consumers /\ name \in Operations /\ i = NULL,
           unused' \subseteq unused,
           UNCHANGED << m_Data, m_Mutex, got, ub >>
    PROVE  QueueInv'
<1> USE DEF QueueInv
<1>1. Types'
  BY DEF Types, Call, Critical
<1>2. Roles'
  BY DEF Roles, Types, Call
<1>3. Excluded'
  BY DEF Excluded, Types, Call, Critical
<1>4. ASSUME NEW u \in Threads PROVE KnowsFront(u)' /\ KnowsEmpty(u)'
  BY <1>4 DEF KnowsFront, KnowsEmpty, Types, Call
<1> QED BY <1>1, <1>2, <1>3, <1>4

LEMMA LockKeeps ==
    ASSUME QueueInv, NEW t \in Threads, Lock(t)
    PROVE  QueueInv'
<1> USE DEF QueueInv
<1>1. PICK p : p = AtLoop(op[t], m_Data)
  OBVIOUS
<1>2. /\ pc' = [pc EXCEPT ![t] = p] /\ m_Mutex' = t /\ m_Mutex = NULL /\ pc[t] = "lock"
      /\ UNCHANGED << m_Data, op, item, got, unused, ub >>
  BY <1>1 DEF Lock, MutexFree
<1>3. op[t] \in {"Push", "Pop", "TryPop", "MoveAll"}
  BY <1>2 DEF Types, Roles
<1>4. /\ p \in Critical
      /\ p = "front" => op[t] # "Push" /\ (op[t] # "Pop" => m_Data # << >>)
      /\ p = "pop" => op[t] = "Push"
      /\ p = "unlock" => m_Data = << >>
  BY <1>1, <1>3, WhereNext DEF Critical
<1>5. Types'
  BY <1>2, <1>4 DEF Types
<1>6. Roles'
  BY <1>2, <1>3 DEF Roles, Types
<1>7. Excluded'
  BY <1>2, <1>4, QueueAssumption DEF Excluded, Types, Threads
<1>8. ASSUME NEW u \in Threads PROVE KnowsFront(u)' /\ KnowsEmpty(u)'
  <2>1. CASE u = t
    BY <1>2, <1>4, <2>1 DEF KnowsFront, KnowsEmpty, Types
  <2>2. CASE u # t
    BY <1>2, <2>2 DEF KnowsFront, KnowsEmpty, Types
  <2> QED BY <2>1, <2>2
<1> QED BY <1>5, <1>6, <1>7, <1>8

LEMMA FrontKeeps ==
    ASSUME QueueInv, NEW t \in Threads, Front(t)
    PROVE  QueueInv'
<1> USE DEF QueueInv
<1>1. pc[t] = "front" /\ op[t] # "Push" /\ UNCHANGED << m_Data, m_Mutex, op, got, unused >>
  BY DEF Front, KnowsFront
<1>2. CASE m_Data = << >>
  <2>1. ub' = TRUE /\ UNCHANGED << item, pc >>
    BY <1>2 DEF Front
  <2> QED BY <1>1, <2>1 DEF Types, Roles, Excluded, KnowsFront, KnowsEmpty
<1>3. CASE m_Data # << >>
  <2>1. /\ item' = [item EXCEPT ![t] = Head(m_Data)] /\ UNCHANGED ub
        /\ pc' = [pc EXCEPT ![t] = "pop"]
    BY <1>3 DEF Front
  <2>2. Head(m_Data) \in Items
    BY <1>3 DEF Types
  <2>3. Types'
    BY <1>1, <2>1, <2>2 DEF Types, Critical
  <2>4. Roles'
    BY <1>1, <2>1 DEF Roles, Types
  <2>5. Excluded'
    BY <1>1, <2>1 DEF Excluded, Types, Critical
  <2>6. ASSUME NEW u \in Threads PROVE KnowsFront(u)' /\ KnowsEmpty(u)'
    <3>1. CASE u = t
      BY <1>1, <1>3, <2>1, <3>1 DEF KnowsFront, KnowsEmpty, Types
    <3>2. CASE u # t
      BY <1>1, <2>1, <3>2 DEF KnowsFront, KnowsEmpty, Types
    <3> QED BY <3>1, <3>2
  <2> QED BY <2>3, <2>4, <2>5, <2>6
<1> QED BY <1>2, <1>3

LEMMA PopFrontKeeps ==
    ASSUME QueueInv, NEW t \in Threads, PopFront(t)
    PROVE  QueueInv'
<1> USE DEF QueueInv
<1>1. PICK p : p = Again(t, m_Data')
  OBVIOUS
<1>2. /\ pc[t] = "pop" /\ op[t] # "Push" /\ m_Data # << >> /\ item[t] = Head(m_Data)
      /\ op[t] \in {"Pop", "TryPop", "MoveAll"} /\ t \in Consumers
  BY DEF PopFront, KnowsFront, Roles, Types
<1>3. /\ m_Data' = Tail(m_Data) /\ ub' = FALSE /\ pc' = [pc EXCEPT ![t] = p]
      /\ got' = [got EXCEPT ![t] = Append(@, item[t])]
      /\ UNCHANGED << m_Mutex, op, item, unused >>
  BY <1>1, <1>2 DEF PopFront
<1>4. m_Data' \in Seq(Items) /\ item[t] \in Items
  BY <1>2, <1>3 DEF Types
<1>5. /\ p \in {"front", "unlock"}
      /\ p = "front" => op[t] = "MoveAll" /\ m_Data' # << >>
      /\ p = "unlock" /\ op[t] = "MoveAll" => m_Data' = << >>
  BY <1>1, <1>2, WhereNext DEF Again
<1>6. Types'
  <2>1. got' \in [Consumers -> Seq(Items)]
    BY <1>2, <1>3, <1>4 DEF Types
  <2> QED BY <1>3, <1>4, <1>5, <2>1 DEF Types, Critical
<1>7. Roles'
  BY <1>2, <1>3 DEF Roles, Types
<1>8. Excluded'
  BY <1>2, <1>3, <1>5 DEF Excluded, Types, Critical
<1>9. ASSUME NEW u \in Threads PROVE KnowsFront(u)' /\ KnowsEmpty(u)'
  <2>1. CASE u = t
    <3>1. pc'[t] = p /\ item'[t] # NULL /\ op'[t] = op[t]
      BY <1>3, <1>4, QueueAssumption DEF Types
    <3> QED BY <1>5, <2>1, <3>1 DEF KnowsFront, KnowsEmpty
  <2>2. CASE u # t
    <3>1. pc[u] \notin Critical
      BY <1>2, <2>2, OneAtWork DEF Critical
    <3> QED BY <1>3, <2>2, <3>1 DEF KnowsFront, KnowsEmpty, Types, Critical
  <2> QED BY <2>1, <2>2
<1> QED BY <1>6, <1>7, <1>8, <1>9

LEMMA PushBackKeeps ==
    ASSUME QueueInv, NEW t \in Threads, PushBack(t)
    PROVE  QueueInv'
<1> USE DEF QueueInv
<1>1. /\ pc[t] = "pop" /\ op[t] = "Push" /\ pc' = [pc EXCEPT ![t] = "unlock"]
      /\ m_Data' = Append(m_Data, item[t])
      /\ UNCHANGED << m_Mutex, op, item, got, unused, ub >>
  BY DEF PushBack
<1>2. item[t] \in Items
  BY <1>1 DEF Roles
<1>3. Types'
  <2>1. m_Data' \in Seq(Items)
    BY <1>1, <1>2 DEF Types
  <2> QED BY <1>1, <2>1 DEF Types, Critical
<1>4. Roles'
  BY <1>1 DEF Roles, Types
<1>5. Excluded'
  BY <1>1 DEF Excluded, Types, Critical
<1>6. ASSUME NEW u \in Threads PROVE KnowsFront(u)' /\ KnowsEmpty(u)'
  <2>1. CASE u = t
    BY <1>1, <2>1 DEF KnowsFront, KnowsEmpty, Types
  <2>2. CASE u # t
    <3>1. pc[u] \notin Critical
      BY <1>1, <2>2, OneAtWork DEF Critical
    <3> QED BY <1>1, <2>2, <3>1 DEF KnowsFront, KnowsEmpty, Types, Critical
  <2> QED BY <2>1, <2>2
<1> QED BY <1>3, <1>4, <1>5, <1>6

LEMMA UnlockKeeps ==
    ASSUME QueueInv, NEW t \in Threads, Unlock(t)
    PROVE  QueueInv'
<1> USE DEF QueueInv
<1>1. /\ pc[t] = "unlock" /\ m_Mutex' = NULL
      /\ op' = [op EXCEPT ![t] = "none"] /\ pc' = [pc EXCEPT ![t] = "idle"]
      /\ item' = [item EXCEPT ![t] = NULL]
      /\ UNCHANGED << m_Data, got, unused, ub >>
  BY DEF Unlock, Holder
<1>2. Types'
  BY <1>1 DEF Types
<1>3. Roles'
  BY <1>1 DEF Roles, Types
<1>4. Excluded'
  <2>1. \A u \in Threads : pc'[u] \notin Critical
    BY <1>1, OneAtWork DEF Critical, Types
  <2> QED BY <1>1, <2>1, QueueAssumption DEF Excluded, Threads
<1>5. ASSUME NEW u \in Threads PROVE KnowsFront(u)' /\ KnowsEmpty(u)'
  BY <1>1 DEF KnowsFront, KnowsEmpty, Types
<1> QED BY <1>2, <1>3, <1>4, <1>5

LEMMA DestroyKeeps == QueueInv /\ Destroy => QueueInv'
<1> SUFFICES ASSUME QueueInv, Destroy PROVE QueueInv'
  OBVIOUS
<1> USE DEF QueueInv, Destroy
<1>1. Types'
  BY DEF Types
<1> QED BY <1>1 DEF Roles, Excluded, KnowsFront, KnowsEmpty

LEMMA QueueInvNext == QueueInv /\ [Next]_vars => QueueInv'
<1> SUFFICES ASSUME QueueInv, [Next]_vars PROVE QueueInv'
  OBVIOUS
<1>1. ASSUME NEW t \in Producers, Push(t) PROVE QueueInv'
  <2>1. PICK i \in unused : Call(t, "Push", i) /\ unused' = unused \ {i}
    BY <1>1 DEF Push
  <2>2. i \in Items
    BY <2>1 DEF QueueInv, Types
  <2>3. UNCHANGED << m_Data, m_Mutex, got, ub >>
    BY <1>1 DEF Push
  <2> QED BY <2>1, <2>2, <2>3, CallKeeps DEF Threads
<1>2. ASSUME NEW t \in Consumers, Consume(t) PROVE QueueInv'
  <2>1. PICK name \in Operations : Call(t, name, NULL)
    BY <1>2 DEF Consume
  <2>2. name \in {"Push", "Pop", "TryPop", "MoveAll"} /\ name # "Push"
    BY <2>1, QueueAssumption
  <2>3. UNCHANGED << m_Data, m_Mutex, got, unused, ub >>
    BY <1>2 DEF Consume
  <2> QED BY <2>1, <2>2, <2>3, CallKeeps DEF Threads
<1>3. ASSUME NEW t \in Threads, Step(t) PROVE QueueInv'
  BY <1>3, LockKeeps, FrontKeeps, PopFrontKeeps, PushBackKeeps, UnlockKeeps DEF Step
<1>4. CASE Destroy
  BY <1>4, DestroyKeeps
<1>5. CASE UNCHANGED vars
  BY <1>5 DEF vars, QueueInv, Types, Roles, Excluded, KnowsFront, KnowsEmpty
<1> QED BY <1>1, <1>2, <1>3, <1>4, <1>5 DEF Next, Over
----------------------------------------------------------------------------
(***************************************************************************)
(* TryPop and MoveAll never call front or pop on an empty std::queue, even *)
(* among consumers that use Pop, and a TryPop that returns NULL and a      *)
(* MoveAll that returns leave an empty queue: for any number of threads    *)
(* and items.                                                              *)
(***************************************************************************)
THEOREM SaysEmptyOfEmpty == Spec => []EmptyWhenSaidSo
<1> DEFINE InPop == \E t \in Consumers : op[t] = "Pop" /\ m_Mutex = t
           Inv == QueueInv /\ (ub => InPop)
<1>1. Init => Inv
  BY QueueInvInit DEF Init
<1>2. Inv /\ [Next]_vars => Inv'
  <2> SUFFICES ASSUME QueueInv, ub => InPop, [Next]_vars PROVE (ub => InPop)'
    BY QueueInvNext
  <2>1. ASSUME ~ub, NEW t \in Threads, Step(t) PROVE (ub => InPop)'
    <3>1. CASE Front(t)
      <4>1. CASE m_Data # << >>
        BY <2>1, <3>1, <4>1 DEF Front
      <4>2. CASE m_Data = << >>
        <5>1. pc[t] = "front" /\ op[t] = "Pop"
          BY <3>1, <4>2 DEF QueueInv, KnowsFront, Front
        <5>2. t \in Consumers /\ m_Mutex = t
          BY <5>1 DEF QueueInv, Roles, Excluded, Critical
        <5> QED BY <3>1, <5>1, <5>2 DEF Front
      <4> QED BY <4>1, <4>2
    <3>2. CASE PopFront(t)
      <4>1. m_Data # << >>
        BY <3>2 DEF QueueInv, KnowsFront, PopFront
      <4> QED BY <3>2, <4>1 DEF PopFront
    <3>3. CASE Lock(t) \/ PushBack(t) \/ Unlock(t)
      BY <2>1, <3>3 DEF Lock, PushBack, Unlock
    <3> QED BY <2>1, <3>1, <3>2, <3>3 DEF Step
  <2>2. ASSUME ~ub, NEW t \in Threads, Push(t) \/ Consume(t) PROVE ~ub'
    BY <2>2 DEF Push, Consume
  <2>3. CASE ~ub /\ Destroy
    BY <2>3 DEF Destroy
  <2>4. CASE UNCHANGED vars
    BY <2>4 DEF vars
  <2> QED BY <2>1, <2>2, <2>3, <2>4 DEF Next, Over, Threads, Going
<1>3. Inv => EmptyWhenSaidSo
  BY DEF QueueInv, KnowsEmpty, EmptyWhenSaidSo, Threads
<1> QED BY <1>1, <1>2, <1>3, PTL DEF Spec
----------------------------------------------------------------------------
\* What a Pop that waits for the mutex can count on when nobody else consumes:
\* an item is in the queue, or a producer is about to put one there.
AloneInv ==
    /\ QueueInv
    /\ ~ub
    /\ m_Mutex \in Threads \cup {NULL}
    /\ \A t \in Consumers :
         /\ pc[t] = "lock" /\ op[t] = "Pop" => m_Data # << >> \/ \E q \in Producers : pc[q] = "pop"
         /\ pc[t] = "front" => m_Data # << >>
    /\ \A q \in Producers : pc[q] = "unlock" => m_Data # << >>

LEMMA ProducersPush ==
    ASSUME QueueInv, NEW q \in Producers, pc[q] \in Critical
    PROVE  op[q] = "Push" /\ pc[q] \in {"pop", "unlock"}
<1>1. q \in Threads /\ q \notin Consumers
  BY QueueAssumption DEF Threads
<1>2. op[q] = "Push"
  BY <1>1 DEF QueueInv, Types, Roles, Critical
<1> QED BY <1>1, <1>2 DEF QueueInv, KnowsFront, Critical

LEMMA AloneStep ==
    ASSUME \A t, u \in Consumers : t = u, AloneInv, NEW t \in Threads, Step(t)
    PROVE  AloneInv'
<1> USE DEF AloneInv
<1>1. QueueInv'
  BY LockKeeps, FrontKeeps, PopFrontKeeps, PushBackKeeps, UnlockKeeps DEF Step
<1>2. CASE Lock(t)
  <2>1. PICK p : p = AtLoop(op[t], m_Data)
    OBVIOUS
  <2>2. /\ pc' = [pc EXCEPT ![t] = p] /\ m_Mutex' = t /\ m_Mutex = NULL /\ pc[t] = "lock"
        /\ UNCHANGED << m_Data, op, ub >>
    BY <1>2, <2>1 DEF Lock, MutexFree
  <2>3. \A q \in Producers : pc[q] \notin Critical
    BY <2>2, QueueAssumption DEF QueueInv, Excluded, Threads
  <2>4. op[t] \in {"Push", "Pop", "TryPop", "MoveAll"}
    BY <2>2 DEF QueueInv, Types, Roles
  <2>5. /\ p = "front" => op[t] # "Push" /\ (op[t] # "Pop" => m_Data # << >>)
        /\ p # "lock" /\ (p = "unlock" => op[t] # "Push")
    BY <2>1, <2>4, WhereNext
  <2>6. t \in Producers => op[t] = "Push"
    BY <2>4, QueueAssumption DEF QueueInv, Roles, Threads
  <2>7. ASSUME NEW u \in Consumers
        PROVE /\ pc'[u] = "lock" /\ op'[u] = "Pop" => m_Data' # << >>
              /\ pc'[u] = "front" => m_Data' # << >>
    BY <2>2, <2>3, <2>5 DEF QueueInv, Types, Critical, Threads
  <2>8. ASSUME NEW q \in Producers PROVE pc'[q] # "unlock"
    BY <2>2, <2>3, <2>5, <2>6 DEF QueueInv, Types, Critical, Threads
  <2> QED BY <1>1, <2>2, <2>7, <2>8
<1>3. CASE Front(t)
  <2>1. pc[t] = "front" /\ op[t] # "Push"
    BY <1>3 DEF Front, QueueInv, KnowsFront
  <2>2. t \in Consumers
    BY <2>1 DEF QueueInv, Types, Roles
  <2>3. m_Data # << >>
    BY <2>1, <2>2
  <2>4. pc' = [pc EXCEPT ![t] = "pop"] /\ UNCHANGED << m_Data, m_Mutex, op, ub >>
    BY <1>3, <2>3 DEF Front
  <2> QED BY <1>1, <2>2, <2>3, <2>4, QueueAssumption DEF QueueInv, Types, Threads
<1>4. CASE PopFront(t)
  <2>1. pc[t] = "pop" /\ op[t] # "Push" /\ m_Data # << >>
    BY <1>4 DEF PopFront, QueueInv, KnowsFront
  <2>2. t \in Consumers
    BY <2>1 DEF QueueInv, Types, Roles
  <2>3. UNCHANGED << m_Mutex, op >> /\ ub' = FALSE
    BY <1>4, <2>1 DEF PopFront
  <2>4. pc'[t] \in {"front", "unlock"} /\ (pc'[t] = "front" => m_Data' # << >>)
    <3>1. pc'[t] = Again(t, m_Data')
      BY <1>4 DEF PopFront, QueueInv, Types
    <3> QED BY <3>1, WhereNext DEF Again
  <2>5. \A q \in Producers : pc'[q] # "unlock"
    <3>1. ASSUME NEW q \in Producers PROVE pc[q] \notin Critical /\ q # t
      BY <2>1, <2>2, OneAtWork, QueueAssumption DEF QueueInv, Critical, Threads
    <3> QED BY <1>4, <3>1 DEF PopFront, QueueInv, Types, Critical, Threads
  <2> QED BY <1>1, <2>2, <2>3, <2>4, <2>5
<1>5. CASE PushBack(t)
  <2>1. m_Data' # << >>
    BY <1>5 DEF PushBack, QueueInv, Types
  <2> QED BY <1>1, <1>5, <2>1 DEF PushBack
<1>6. CASE Unlock(t)
  <2>1. /\ pc[t] = "unlock" /\ pc' = [pc EXCEPT ![t] = "idle"] /\ op' = [op EXCEPT ![t] = "none"]
        /\ m_Mutex' = NULL /\ UNCHANGED << m_Data, ub >>
    BY <1>6 DEF Unlock, Holder
  <2> QED BY <1>1, <2>1 DEF QueueInv, Types, Threads
<1> QED BY <1>2, <1>3, <1>4, <1>5, <1>6 DEF Step

LEMMA AloneConsume ==
    ASSUME AloneInv, QueueInv', NEW t \in Consumers, Consume(t), \A u \in Consumers : u = t
    PROVE  AloneInv'
<1> USE DEF AloneInv
<1>2. PICK name \in Operations : (name = "Pop" => \E n \in GetSize : n > 0) /\ Call(t, name, NULL)
  BY DEF Consume
<1>3. /\ pc[t] = "idle" /\ pc' = [pc EXCEPT ![t] = "lock"] /\ op' = [op EXCEPT ![t] = name]
      /\ UNCHANGED << m_Data, m_Mutex, ub >>
  BY <1>2 DEF Call, Consume
<1>4. t \in Threads /\ t \notin Producers
  BY QueueAssumption DEF Threads
<1>5. name = "Pop" => m_Data # << >> \/ \E q \in Producers : pc[q] = "pop"
  <2> SUFFICES ASSUME name = "Pop", m_Data = << >> PROVE \E q \in Producers : pc[q] = "pop"
    OBVIOUS
  <2>1. m_Mutex # NULL
    BY <1>2 DEF GetSize
  <2>2. PICK u \in Threads : m_Mutex = u
    BY <2>1
  <2>3. pc[u] \in Critical
    BY <2>2 DEF QueueInv, Excluded
  <2>4. u # t
    BY <1>3, <2>3 DEF Critical
  <2>5. u \in Producers
    BY <2>4 DEF Threads
  <2>6. pc[u] \in {"pop", "unlock"}
    BY <2>3, <2>5, ProducersPush
  <2> QED BY <2>5, <2>6
<1>6. \A q \in Producers : pc'[q] = pc[q]
  BY <1>3, <1>4 DEF QueueInv, Types, Threads
<1>7. pc'[t] = "lock" /\ op'[t] = name
  BY <1>3, <1>4 DEF QueueInv, Types
<1> QED BY <1>3, <1>5, <1>6, <1>7

(***************************************************************************)
(* A consumer that is the only one may trust GetSize: its Pop meets no     *)
(* empty queue, for any number of producers, although GetSize looks at the *)
(* queue without the lock.  With two consumers that is not so.             *)
(***************************************************************************)
THEOREM PopSafeAlone ==
    ASSUME \A t, u \in Consumers : t = u
    PROVE  Spec => []PopDefined
<1>1. Init => AloneInv
  BY QueueInvInit, QueueAssumption DEF Init, AloneInv, Threads
<1>2. AloneInv /\ [Next]_vars => AloneInv'
  <2> SUFFICES ASSUME AloneInv, [Next]_vars PROVE AloneInv'
    OBVIOUS
  <2>1. QueueInv'
    BY QueueInvNext DEF AloneInv
  <2>2. ASSUME NEW t \in Threads, Step(t) PROVE AloneInv'
    BY <2>2, AloneStep
  <2>3. ASSUME NEW t \in Consumers, Consume(t) PROVE AloneInv'
    BY <2>1, <2>3, AloneConsume
  <2>4. ASSUME NEW t \in Producers, Push(t) PROVE AloneInv'
    <3>1. PICK i \in unused : Call(t, "Push", i)
      BY <2>4 DEF Push
    <3>2. /\ pc[t] = "idle" /\ pc' = [pc EXCEPT ![t] = "lock"] /\ op' = [op EXCEPT ![t] = "Push"]
          /\ UNCHANGED << m_Data, m_Mutex, ub >>
      BY <2>4, <3>1 DEF Call, Push
    <3>3. t \in Threads /\ t \notin Consumers
      BY QueueAssumption DEF Threads
    <3>4. \A u \in Consumers : pc'[u] = pc[u] /\ op'[u] = op[u]
      BY <3>2, <3>3 DEF AloneInv, QueueInv, Types, Threads
    <3>5. \A q \in Producers : pc'[q] = pc[q] \/ (q = t /\ pc'[q] = "lock" /\ pc[q] = "idle")
      BY <3>2, <3>3 DEF AloneInv, QueueInv, Types, Threads
    <3> QED BY <2>1, <3>2, <3>4, <3>5 DEF AloneInv
  <2>5. CASE Destroy
    BY <2>1, <2>5 DEF Destroy, AloneInv, Threads
  <2>6. CASE UNCHANGED vars
    BY <2>1, <2>6 DEF vars, AloneInv
  <2> QED BY <2>2, <2>3, <2>4, <2>5, <2>6 DEF Next, Over
<1>3. AloneInv => PopDefined
  BY DEF AloneInv, PopDefined
<1> QED BY <1>1, <1>2, <1>3, PTL DEF Spec
----------------------------------------------------------------------------
\* One step of a thread is one step of the atomic queue, or none.
LEMMA StepImplements ==
    ASSUME QueueInv, NEW t \in Threads, Step(t)
    PROVE  [Atomic!Next]_Atomic!vars
<1>1. CASE PopFront(t)
  <2>1. t \in Consumers /\ m_Data # << >> /\ item[t] = Head(m_Data)
    BY <1>1 DEF QueueInv, Types, Roles, KnowsFront, PopFront
  <2>2. Atomic!Dequeue(t)
    BY <1>1, <2>1 DEF PopFront, Atomic!Dequeue
  <2> QED BY <2>1, <2>2 DEF Atomic!Next
<1>2. CASE PushBack(t)
  <2>1. item[t] \in Items
    BY <1>2 DEF QueueInv, Roles, PushBack
  <2>2. Atomic!Enqueue(item[t])
    BY <1>2 DEF PushBack, Atomic!Enqueue
  <2> QED BY <2>1, <2>2 DEF Atomic!Next
<1>3. CASE Lock(t) \/ Front(t) \/ Unlock(t)
  BY <1>3 DEF Lock, Front, Unlock, Atomic!vars
<1> QED BY <1>1, <1>2, <1>3 DEF Step

(***************************************************************************)
(* LockQueue implements the atomic queue, for any threads, items and       *)
(* operations: push takes effect at m_Data.push, an operation that takes   *)
(* an item at m_Data.pop, ~LockQueue deletes what is left, and nothing     *)
(* else changes what is in the queue or has been handed out.               *)
(***************************************************************************)
THEOREM ImplementsAtomicQueue == Spec => QueueSpec
<1>1. Init => Atomic!Init
  BY DEF Init, Atomic!Init
<1>2. QueueInv /\ [Next]_vars => [Atomic!Next]_Atomic!vars
  <2> SUFFICES ASSUME QueueInv, [Next]_vars PROVE [Atomic!Next]_Atomic!vars
    OBVIOUS
  <2>1. ASSUME NEW t \in Threads, Step(t) PROVE [Atomic!Next]_Atomic!vars
    BY <2>1, StepImplements
  <2>2. ASSUME NEW t \in Threads, Push(t) \/ Consume(t) PROVE [Atomic!Next]_Atomic!vars
    BY <2>2 DEF Push, Consume, Atomic!vars
  <2>3. CASE Destroy
    BY <2>3 DEF Destroy, Atomic!Delete, Atomic!Next
  <2>4. CASE UNCHANGED vars
    BY <2>4 DEF vars, Atomic!vars
  <2> QED BY <2>1, <2>2, <2>3, <2>4 DEF Next, Over, Threads
<1> QED BY <1>1, <1>2, QueueInvInit, QueueInvNext, PTL DEF Spec, QueueSpec, Atomic!Spec
============================================================================
