---------------------------- MODULE MCLockQueue ----------------------------
EXTENDS LockQueue

CONSTANTS p1, p2, t1, t2, a, b, c

MCProducers == {p1, p2}
MCConsumers == {t1, t2}
MCItems == {a, b, c}
=============================================================================
