--------------------------- MODULE MCFlexBarrier ---------------------------
(* Small instances of FlexBarrier for TLC. *)
EXTENDS FlexBarrier

CONSTANTS a, b, c

ThreeThreads == {a, b, c}
TwoThreads   == {a, b}

Keep   == {-1}          \* the completion function keeps the thread count
Resize == {-1, 0, 1, 2, 3} \* ... or chooses another, or throws
=============================================================================
