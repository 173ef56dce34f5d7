----------------------- MODULE MCLockFreeBufferQueue -----------------------
(* Small instances of LockFreeBufferQueue for TLC. *)
EXTENDS LockFreeBufferQueue, TLC

CONSTANTS p1, p2, c1, c2

TwoProducers == {p1, p2}
OneProducer  == {p1}
TwoConsumers == {c1, c2}
OneConsumer  == {c1}

MoveOps  == {"nonblocking_push", "nonblocking_pop"}
TryOrAsk == TryOps \cup QueryOps

Symmetry == Permutations(TwoProducers) \cup Permutations(TwoConsumers)
=============================================================================
