--------------------------- MODULE MCLatchBarrier ---------------------------
(***************************************************************************)
(* Small instances of Latch and Barrier for TLC.  Each behaviour is one of *)
(* a single component, the unit chosen at the start; the other one stays   *)
(* in its initial state.                                                   *)
(***************************************************************************)
EXTENDS Latch

CONSTANTS Units, a, b, c, MaxPhases, Drops

VARIABLES
    unit,
    thread_count_, num_waiting_, num_to_leave_, idle_, ready_,
    barrierPc, barrierOp, arrived, passed, barrierLife

ThreeThreads == {a, b, c}
TwoThreads   == {a, b}

Both        == {"latch", "barrier"}
JustLatch   == {"latch"}
JustBarrier == {"barrier"}

B == INSTANCE Barrier WITH pc <- barrierPc, op <- barrierOp, life <- barrierLife

ASSUME UnitsAssumption   == Units \subseteq Both
ASSUME BarrierAssumption == B!ConstantsOK

barrierVars == <<thread_count_, num_waiting_, num_to_leave_, idle_, ready_,
                 barrierPc, barrierOp, arrived, passed, barrierLife>>
all == <<unit, vars, barrierVars>>

UnitInit == unit \in Units /\ Init /\ B!Init

OfLatch(A)   == unit = "latch" /\ A /\ UNCHANGED <<unit, barrierVars>>
OfBarrier(A) == unit = "barrier" /\ A /\ UNCHANGED <<unit, vars>>

UnitNext == OfLatch(Next) \/ OfBarrier(B!Next)

\* The fairness of Latch!LiveSpec and B!LiveSpec.
UnitSpec ==
    /\ UnitInit /\ [][UnitNext]_all
    /\ WF_all(OfLatch(Destroyed)) /\ WF_all(OfBarrier(B!Destroyed))
    /\ \A t \in Threads :
         /\ WF_all(OfLatch(Step(t)))
         /\ WF_all(OfBarrier(B!Step(t))) /\ WF_all(OfBarrier(B!Call(t)))

\* Barrier's properties, stated there.
BarrierSync     == B!Sync /\ B!NoUseAfterDestroy
FirstPhaseEnds  == B!FirstPhaseEnds
EverybodyLeaves == B!EverybodyLeaves
BarrierTypeOK   == B!TypeOK
LeaversCounted  == B!LeaversCounted
=============================================================================
