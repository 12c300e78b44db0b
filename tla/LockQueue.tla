----------------------------- MODULE LockQueue -----------------------------
(***************************************************************************)
(* LockQueue: a std::queue of pointers behind a mutex.  Producers push;    *)
(* consumers use TryPop, MoveAll, or Pop when GetSize, which takes no      *)
(* lock, has said that there is something.  An operation is several steps: *)
(* taking the lock, reading the front, removing it, giving the lock back.  *)
(***************************************************************************)
EXTENDS Naturals, Sequences

CONSTANTS
    Producers, Consumers,
    Items,     \* the pointers pushed, each once
    NULL,
    Operations, \* the operations consumers use
    MaxCalls   \* bound: calls of each consumer

ASSUME QueueAssumption ==
    /\ Producers \cap Consumers = {}
    /\ NULL \notin Items /\ NULL \notin Producers \cup Consumers
    /\ Operations \subseteq {"Pop", "TryPop", "MoveAll"}
    /\ MaxCalls \in Nat

VARIABLES
    m_Data,
    m_Mutex,  \* the thread that holds the mutex, or NULL
    op,       \* per thread: the operation it is in, or "none"
    pc,       \* per thread: "idle", "lock", "front", "pop" or "unlock"
    item,     \* per thread: the local variable or argument
    got,      \* per consumer: the items taken
    unused,   \* items not pushed yet
    calls,    \* per consumer: calls made
    alive,    \* whether the queue has not been destroyed
    deleted,  \* what the destructor deleted
    ub        \* whether front() or pop() was called on an empty queue

vars == << m_Data, m_Mutex, op, pc, item, got, unused, calls, alive, deleted, ub >>

Threads == Producers \cup Consumers

Init ==
    /\ m_Data = << >>
    /\ m_Mutex = NULL
    /\ op = [t \in Threads |-> "none"]
    /\ pc = [t \in Threads |-> "idle"]
    /\ item = [t \in Threads |-> NULL]
    /\ got = [t \in Consumers |-> << >>]
    /\ unused = Items
    /\ calls = [t \in Consumers |-> 0]
    /\ alive = TRUE
    /\ deleted = << >>
    /\ ub = FALSE

Call(t, name, i) ==
    /\ pc[t] = "idle"
    /\ op' = [op EXCEPT ![t] = name]
    /\ pc' = [pc EXCEPT ![t] = "lock"]
    /\ item' = [item EXCEPT ![t] = i]

Push(t) ==
    /\ \E i \in unused : Call(t, "Push", i) /\ unused' = unused \ {i}
    /\ UNCHANGED << m_Data, m_Mutex, got, calls, alive, deleted, ub >>

(***************************************************************************)
(* GetSize reads m_Data without the lock: while another thread is at work  *)
(* on the queue the answer can be anything.                                *)
(***************************************************************************)
GetSize == IF m_Mutex = NULL THEN {Len(m_Data)} ELSE {0, 1}

\* A consumer calls an operation; Pop only after a look at GetSize.
Consume(t) ==
    /\ calls[t] < MaxCalls
    /\ calls' = [calls EXCEPT ![t] = @ + 1]
    /\ \E name \in Operations :
         /\ name = "Pop" => \E n \in GetSize : n > 0
         /\ Call(t, name, NULL)
    /\ UNCHANGED << m_Data, m_Mutex, got, unused, alive, deleted, ub >>

\* Where an operation goes on once it may look at the queue.
AtLoop(name, data) ==
    CASE name = "Push" -> "pop"
      [] name = "Pop" -> "front"
      [] name \in {"TryPop", "MoveAll"} -> IF data # << >> THEN "front" ELSE "unlock"

\* Mutant of MutexFree: the mutex is not waited for.
MutexFreeAlways == TRUE

MutexFree == m_Mutex = NULL

Lock(t) ==
    /\ pc[t] = "lock"
    /\ MutexFree
    /\ m_Mutex' = t
    /\ pc' = [pc EXCEPT ![t] = AtLoop(op[t], m_Data)]
    /\ UNCHANGED << m_Data, op, item, got, unused, calls, alive, deleted, ub >>

\* item = m_Data.front()
Front(t) ==
    /\ pc[t] = "front"
    /\ \/ /\ m_Data # << >>
          /\ item' = [item EXCEPT ![t] = Head(m_Data)]
          /\ pc' = [pc EXCEPT ![t] = "pop"]
          /\ UNCHANGED ub
       \/ /\ m_Data = << >>
          /\ ub' = TRUE
          /\ UNCHANGED << item, pc >>
    /\ UNCHANGED << m_Data, m_Mutex, op, got, unused, calls, alive, deleted >>

\* Mutant of Again: MoveAll takes one item only.
AgainNever(t, data) == "unlock"

\* MoveAll looks at the queue again.
Again(t, data) == IF op[t] = "MoveAll" THEN AtLoop("MoveAll", data) ELSE "unlock"

\* m_Data.pop(); the item is returned, or goes to dst and MoveAll looks again.
PopFront(t) ==
    /\ pc[t] = "pop" /\ op[t] # "Push"
    /\ ub' = (m_Data = << >>)
    /\ m_Data' = IF m_Data = << >> THEN m_Data ELSE Tail(m_Data)
    /\ got' = [got EXCEPT ![t] = Append(@, item[t])]
    /\ pc' = [pc EXCEPT ![t] = Again(t, m_Data')]
    /\ UNCHANGED << m_Mutex, op, item, unused, calls, alive, deleted >>

PushBack(t) ==
    /\ pc[t] = "pop" /\ op[t] = "Push"
    /\ m_Data' = Append(m_Data, item[t])
    /\ pc' = [pc EXCEPT ![t] = "unlock"]
    /\ UNCHANGED << m_Mutex, op, item, got, unused, calls, alive, deleted, ub >>

\* Mutant of Holder: the mutex is kept on the return without a result.
HolderWithResult(t) == IF op[t] = "TryPop" /\ item[t] = NULL THEN m_Mutex ELSE NULL

Holder(t) == NULL

\* The end of the function destroys the unique_lock.
Unlock(t) ==
    /\ pc[t] = "unlock"
    /\ m_Mutex' = Holder(t)
    /\ op' = [op EXCEPT ![t] = "none"]
    /\ pc' = [pc EXCEPT ![t] = "idle"]
    /\ item' = [item EXCEPT ![t] = NULL]
    /\ UNCHANGED << m_Data, got, unused, calls, alive, deleted, ub >>

\* ~LockQueue, when no thread is in an operation, deletes what is left.
Destroy ==
    /\ \A t \in Threads : pc[t] = "idle"
    /\ alive' = FALSE
    /\ deleted' = m_Data
    /\ m_Data' = << >>
    /\ UNCHANGED << m_Mutex, op, pc, item, got, unused, calls, ub >>

Step(t) == Lock(t) \/ Front(t) \/ PopFront(t) \/ PushBack(t) \/ Unlock(t)

Going == alive /\ ~ub

Over == ~Going /\ UNCHANGED vars

Next ==
    \/ Going /\ \E t \in Producers : Push(t)
    \/ Going /\ \E t \in Consumers : Consume(t)
    \/ Going /\ \E t \in Threads : Step(t)
    \/ Going /\ Destroy
    \/ Over

(***************************************************************************)
(* The threads are scheduled.  std::mutex does not promise that a thread   *)
(* gets it while others keep coming; weak fairness is enough here because  *)
(* the others' calls are bounded.                                          *)
(***************************************************************************)
Spec == Init /\ [][Next]_vars /\ \A t \in Threads : WF_vars(Going /\ Step(t))
-----------------------------------------------------------------------------
(***************************************************************************)
(* The queue implements the atomic one: the items come out in the order in *)
(* which they went in, none is lost, none goes to two consumers or to a    *)
(* consumer and the destructor.                                            *)
(***************************************************************************)
Atomic == INSTANCE AtomicQueue WITH queue <- m_Data

QueueSpec == Atomic!Spec

(***************************************************************************)
(* "Pop (throws when there is no data)": front and pop are never called on *)
(* an empty std::queue, which would not throw but be undefined.            *)
(***************************************************************************)
PopDefined == ~ub

(***************************************************************************)
(* "NULL when there is no data", "move all data": a TryPop that returns    *)
(* NULL and a MoveAll that returns leave, at that moment, an empty queue;  *)
(* and neither of them calls front or pop on an empty std::queue, whatever *)
(* the others do: who does is in Pop.                                      *)
(***************************************************************************)
EmptyWhenSaidSo ==
    /\ ub => \E t \in Consumers : op[t] = "Pop" /\ m_Mutex = t
    /\ \A t \in Consumers :
         pc[t] = "unlock" /\ (op[t] = "MoveAll" \/ (op[t] = "TryPop" /\ item[t] = NULL)) => m_Data = << >>

(***************************************************************************)
(* Every call returns, the mutex being given back on every way out, unless *)
(* a Pop has met an empty queue.                                           *)
(***************************************************************************)
CallsReturn == \A t \in Threads : pc[t] # "idle" ~> (pc[t] = "idle" \/ ub)
=============================================================================
