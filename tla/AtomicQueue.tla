---------------------------- MODULE AtomicQueue ----------------------------
(***************************************************************************)
(* What LockQueue promises its threads: a first-in first-out queue whose   *)
(* operations are atomic.  An item goes to exactly one consumer, or is     *)
(* deleted with the queue.                                                 *)
(***************************************************************************)
EXTENDS Sequences

CONSTANTS Consumers, Items

VARIABLES
    queue,    \* the items in the queue, oldest first
    got,      \* what each consumer has taken, in order
    deleted   \* the items deleted with the queue

vars == << queue, got, deleted >>

Init ==
    /\ queue = << >>
    /\ got = [t \in Consumers |-> << >>]
    /\ deleted = << >>

Enqueue(i) ==
    /\ queue' = Append(queue, i)
    /\ UNCHANGED << got, deleted >>

Dequeue(t) ==
    /\ queue # << >>
    /\ queue' = Tail(queue)
    /\ got' = [got EXCEPT ![t] = Append(@, Head(queue))]
    /\ UNCHANGED deleted

Delete ==
    /\ deleted' = queue
    /\ queue' = << >>
    /\ UNCHANGED got

Next ==
    \/ \E i \in Items : Enqueue(i)
    \/ \E t \in Consumers : Dequeue(t)
    \/ Delete

Spec == Init /\ [][Next]_vars
=============================================================================
