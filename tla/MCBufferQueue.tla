---------------------------- MODULE MCBufferQueue ----------------------------
(* Small instances of BufferQueue for TLC. *)
EXTENDS BufferQueue, TLC

CONSTANTS p1, p2, c1, v1, v2

TwoProducers == {p1, p2}
OneConsumer  == {c1}
TwoValues    == {v1, v2}
OneValue     == {v1}

\* Between them the two sets have every member function.
SafetyOps == {"push", "nonblocking_push", "value_pop", "nonblocking_pop",
              "is_empty", "close"}
LiveOps   == {"wait_push", "try_push", "value_pop", "wait_pop", "try_pop",
              "is_closed", "close"}

\* Threads of one side and elements are interchangeable in a safety run.
Symmetry ==
    Permutations(TwoProducers) \cup Permutations(TwoValues)
=============================================================================
