------------------------------ MODULE MCDedup ------------------------------
(***************************************************************************)
(* Small instances of Dedup, and of its last stage with the real cache,    *)
(* Reorder, for TLC.  Each behaviour is one of a single unit, chosen at    *)
(* the start; the other one stays in an initial state.                     *)
(***************************************************************************)
EXTENDS Dedup

CONSTANTS d1, d2, Units, Sizes

VARIABLES
    unit,
    toCome, T, queue, chunks_per_anchor, next, oneChunk, written, at

\* Two coarse chunks: the second starts with the contents of the first.
Repeated    == {<<d1, d1, d2>>}
FourChunks  == {<<>>, <<d1, d2, d1, d1>>}
FiveEqual   == {<<d1, d1, d1, d1, d1>>}
CutAfter2   == {2}
EachChunk   == {1, 2}
OneOrTwo    == {1, 2}
JustTwo     == {2}
AfterFirst  == {1}
OneBucket   == [c \in {d1, d2} |-> 1]

FourAnchors == <<2, 5, 1, 2>>

Both       == {"encode", "reorder"}
JustEncode == {"encode"}

R == INSTANCE Reorder WITH chunk <- oneChunk

ASSUME R!ConstantsOK /\ Units \subseteq Both

reorderVars == <<toCome, T, queue, chunks_per_anchor, next, oneChunk, written, at>>
all == <<unit, vars, reorderVars>>

UnitInit == unit \in Units /\ Init /\ R!Init

OfEncode(A)  == unit = "encode" /\ A /\ UNCHANGED <<unit, reorderVars>>
OfReorder(A) == unit = "reorder" /\ A /\ UNCHANGED <<unit, vars>>

UnitSpec == UnitInit /\ [][OfEncode(Next) \/ OfReorder(R!Next)]_all

\* The fairness of LiveSpec.
UnitLiveSpec == UnitSpec /\ WF_all(OfEncode(Next))

\* Of either unit: what is written, and that Encode returns.
WrittenInOrder == WholeInputWritten /\ R!WrittenPromptly
EncodeEnds     == unit = "encode" => EncodeReturns
=============================================================================
