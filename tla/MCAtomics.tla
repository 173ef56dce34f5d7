----------------------------- MODULE MCAtomics -----------------------------
(***************************************************************************)
(* Small instances of the components that work with atomics instead of, or *)
(* beside, a mutex, for TLC: LockFreeBufferQueue and Counter.  Each        *)
(* behaviour is one of a single component, the unit chosen at the start;   *)
(* the other one stays in an initial state.                                *)
(***************************************************************************)
EXTENDS LockFreeBufferQueue, TLC

CONSTANTS
    Units, t1, t2, r1, r2,
    Counters, Readers, Kinds, Integral, Amounts, Resets, MaxCounts, NoThread

VARIABLES
    unit,
    kind, value_, serializer_, children_, broker_, buffer_, counterPc, reg,
    todo, tmp, counterOp, to, counterRes, made, total, floor, raced

TwoCounters  == {t1, t2}
TwoReaders   == {r1, r2}
OneCounter   == {t1}
OneReader    == {r1}

Small     == 0 .. 5
Ones      == {1}
Zero      == {0}

CN == INSTANCE Counter WITH pc <- counterPc, op <- counterOp, res <- counterRes

AllKinds  == {"simplex", "weak", "strong"}
Strong    == {"strong"}
MoveOps   == {"nonblocking_push", "nonblocking_pop"}

Both        == {"counter", "queue"}
JustCounter == {"counter"}

\* t1 and t2 are also the queue's producers, r1 and r2 its consumers.
Symmetry == Permutations(TwoCounters) \cup Permutations(TwoReaders)

ASSUME UnitsAssumption == Units \subseteq Both
ASSUME CounterAssumption == CN!ConstantsOK

counterVars == <<kind, value_, serializer_, children_, broker_, buffer_, counterPc, reg,
                 todo, tmp, counterOp, to, counterRes, made, total, floor, raced>>
all == <<unit, vars, counterVars>>

UnitInit ==
    /\ unit \in Units /\ Init /\ CN!Init
    /\ unit # "counter" => kind = "simplex"
    /\ unit # "queue" => tail_ = 0

OfCounter(A) == unit = "counter" /\ A /\ UNCHANGED <<unit, vars>>
OfQueue(A)   == unit = "queue" /\ A /\ UNCHANGED <<unit, counterVars>>

UnitNext == OfCounter(CN!Next) \/ OfQueue(Next)

UnitSpec == UnitInit /\ [][UnitNext]_all

\* The counter's properties, stated there.
Conservation     == CN!Conservation
LoadInBounds     == CN!LoadInBounds
ExtractedOnce    == CN!ExtractedOnce
CounterTypeOK    == CN!TypeOK
NoDanglingBroker == CN!NoDanglingBroker
=============================================================================
