----------------------------- MODULE MCLocked -----------------------------
(***************************************************************************)
(* Small instances of the smaller components that guard their state with   *)
(* one mutex, for TLC: MutableThread, SimpleThreadPool, SerialExecutor,    *)
(* PriorityQueue and StreamMutex.  Each behaviour is one of a single       *)
(* component, the unit chosen at the start; the others stay in an initial  *)
(* state.                                                                  *)
(***************************************************************************)
EXTENDS MutableThread, Integers, Sequences

CONSTANTS
    Units, c1, c2, t1, t2, t3,
    Jobs, NoJob, Users, Objects, min_threads_, max_threads_, LateCalls,
    Elems, MaxElems, CopyThrows,
    Streams, Guards, stm_, cout, g1, g2, MaxDepth, MaxItems, MaxTurns, Throws

VARIABLES
    unit,
    function_queue, shutting_down, runner, job, submitted, begun, executor,
    shutting_down_, active_threads_, unused_threads_, made, held, own, busy,
    deletes, walk, at,
    less_, cont_, popPc, last, thrown,
    stream_map, mtx_, owner, depth, stack, turn, out

TwoClients == {c1, c2}
ThreeTasks == {t1, t2, t3}
ThreeObjects == {t1, t2, t3}

FourElems    == 1 .. 4
OneStream    == {cout}
TwoGuards    == {g1, g2}
BothOnCout   == [g \in TwoGuards |-> cout]

AllUnits == {"mutable_thread", "serial_executor", "simple_thread_pool", "priority_queue",
             "stream_mutex"}
JustPool   == {"simple_thread_pool"}
JustStream == {"stream_mutex"}

SE == INSTANCE SerialExecutor WITH started <- begun
TP == INSTANCE SimpleThreadPool
PQ == INSTANCE PriorityQueue WITH Threads <- Clients, pc <- popPc
SM == INSTANCE StreamMutex WITH Threads <- Clients

ASSUME PoolAssumption   == TP!ConstantsOK
ASSUME ElemsAssumption  == Elems \subseteq Int /\ IsFiniteSet(Elems)
ASSUME StreamAssumption == stm_ \in [Guards -> Streams]
ASSUME UnitsAssumption  == Units \subseteq AllUnits

seVars == <<function_queue, shutting_down, runner, job, submitted, begun, executor>>
tpVars == <<shutting_down_, active_threads_, unused_threads_, made, held, own, busy, deletes,
            walk, at>>
pqVars == <<less_, cont_, popPc, last, thrown>>
smVars == <<stream_map, mtx_, owner, depth, stack, turn, out>>
all    == <<unit, vars, seVars, tpVars, pqVars, smVars>>

UnitInit ==
    /\ unit \in Units
    /\ Init /\ SE!Init /\ TP!Init /\ PQ!Init /\ SM!Init
    /\ unit # "mutable_thread" => run_fn_ = NoTask
    /\ unit # "priority_queue" => cont_ = <<>> /\ less_

Rest(u) ==
    /\ UNCHANGED unit
    /\ u = "mutable_thread" \/ UNCHANGED vars
    /\ u = "serial_executor" \/ UNCHANGED seVars
    /\ u = "simple_thread_pool" \/ UNCHANGED tpVars
    /\ u = "priority_queue" \/ UNCHANGED pqVars
    /\ u = "stream_mutex" \/ UNCHANGED smVars

Of(u, A) == unit = u /\ A /\ Rest(u)

OfMutableThread(A)  == Of("mutable_thread", A)
OfSerialExecutor(A) == Of("serial_executor", A)

UnitNext ==
    \/ OfMutableThread(Next)
    \/ OfSerialExecutor(SE!Next)
    \/ Of("simple_thread_pool", TP!Next)
    \/ Of("priority_queue", PQ!Next)
    \/ Of("stream_mutex", SM!Next)

\* The fairness of MutableThread!LiveSpec and SE!LiveSpec.
UnitSpec ==
    /\ UnitInit /\ [][UnitNext]_all
    /\ WF_all(OfMutableThread(WorkerStep))
    /\ \A t \in Clients : WF_all(OfMutableThread(ClientStep(t)))
    /\ \A t \in Threads : SF_all(OfMutableThread(Acquire(t)))
    /\ WF_all(OfSerialExecutor(SE!RunnerStep)) /\ WF_all(OfSerialExecutor(SE!Joined))

\* The properties of the other modules, stated there.
BegunInTime  == SE!BegunInTime
RunnerAwake  == SE!RunnerAwake
OneOwner     == TP!OneOwner
HighestFirst == PQ!HighestFirst
StatementsWhole   == SM!StatementsWhole
NothingLeftLocked == SM!NothingLeftLocked
=============================================================================
