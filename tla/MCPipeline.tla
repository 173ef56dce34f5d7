----------------------------- MODULE MCPipeline -----------------------------
(***************************************************************************)
(* Small instances, for TLC, of Pipeline and of QueueEnds, the ends that   *)
(* queues are shared by.  PipelineSpec has the behaviours of the one and   *)
(* EndsSpec those of the other, which leave alone what is not theirs.      *)
(***************************************************************************)
EXTENDS Pipeline

CONSTANTS b1, b2, f1, f2, value,
    Backs, Fronts, FirstBack, FirstFront, Values, Capacity, NoValue

VARIABLES bk_, ft_, end, deletes, contents, endsClosed, call, res

QE == INSTANCE QueueEnds WITH q <- contents, closed <- endsClosed

ASSUME EndsAssumption == QE!ConstantsOK

TwoBacks  == {b1, b2}
TwoFronts == {f1, f2}
OneBack   == {b1}
OneFront  == {f1}
OneValue  == {value}

Seg(k) == [kind |-> k]
Par(n, body) == [kind |-> "parallel", n |-> n, body |-> body]

ThreeInputs == <<1, 2, 3>>

\* One plan per way to connect segments: a queue merged with the function
\* that follows it, a queue with a thread of its own, replicas that share a
\* queue, functions that pop for themselves.
SmallPlans ==
    { << Seg("from"), Seg("multi_out"), Seg("consumer") >>,
      << Seg("from"), Seg("consumer") >>,
      << Seg("producer"), Par(2, <<"simple">>), Seg("to") >>,
      << Seg("from"), Par(2, <<"multi_out", "simple">>), Seg("consumer") >>,
      << Seg("producer"), Seg("multi_in"), Seg("consumer") >>,
      << Seg("from"), Seg("full"), Seg("multi_in_consumer") >> }
OnePlan == { << Seg("from"), Seg("consumer") >> }

endsVars == <<bk_, ft_, end, deletes, contents, endsClosed, call, res>>
all == <<vars, endsVars>>

BothInit == Init /\ QE!Init

OfPipeline(A) == A /\ UNCHANGED endsVars
OfEnds(A)     == A /\ UNCHANGED vars

\* With the fairness of Pipeline!LiveSpec ...
PipelineSpec == BothInit /\ [][OfPipeline(Next)]_all /\ WF_all(OfPipeline(Next))

\* ... and that of QueueEnds!LiveSpec.
EndsSpec ==
    /\ BothInit /\ [][OfEnds(QE!Next)]_all
    /\ \A e \in QE!Ends : WF_all(OfEnds(QE!Releasing(e)))
    /\ \A e \in Fronts : SF_all(OfEnds(QE!Serve(e)))

\* The properties of QueueEnds, stated there.
NoDanglingEnd == QE!NoDanglingEnd
LastEndCloses == QE!LastEndCloses
ConsumersEnd  == QE!ConsumersEnd
Reclaimed     == QE!Reclaimed
DeletedOnce   == QE!DeletedOnce
EndsTypeOK    == QE!TypeOK
=============================================================================
