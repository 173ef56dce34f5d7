------------------------------ MODULE Pipeline ------------------------------
(***************************************************************************)
(* gcl::pipeline (include/pipeline.h): a plan is a chain of segments;      *)
(* running it starts one pool thread per segment that needs one, joined by *)
(* bounded queues that each thread closes when its own input ends.  The    *)
(* __instance releases the threads with a latch, and learns from a         *)
(* flex_barrier, FlexBarrier.tla step by step, that all are done; it uses  *)
(* the barrier once more to know that they have left it.                   *)
(*                                                                         *)
(* The queues are BoundedQueue's (what BufferQueue implements), the pool's *)
(* threads run what they are given (MutableThread).                        *)
(***************************************************************************)
EXTENDS Integers, Sequences, FiniteSets, SequencesExt

CONSTANTS
    Plans,       \* the plans that may be run: sequences of segments
    Inputs,      \* what a producer makes or the user feeds: a sequence
    QueueSize,   \* of the segments' queues (10 in the code) and the user's
    Main, NoThread

Functions == {"simple", "multi_out", "multi_in", "full"}
Consumers == {"consumer", "multi_in_consumer"}

\* A segment is a function, a producer, a consumer, one of the user's queues
\* ("from", "to"), or parallel: so many replicas of a chain of functions.
Segment ==
    [kind : Functions \cup Consumers \cup {"producer", "from", "to"}]
      \cup [kind : {"parallel"}, n : Nat \ {0}, body : Seq(Functions)]

ASSUME PlansAssumption ==
    \A p \in Plans :
        /\ p \in Seq(Segment) /\ Len(p) >= 2
        /\ p[1].kind \in {"producer", "from"}
        /\ p[Len(p)].kind \in Consumers \cup {"to"}
        /\ \A i \in 2 .. Len(p) - 1 : p[i].kind \in Functions \cup {"parallel"}
ASSUME InputsAssumption == Inputs \in Seq(Int) /\ QueueSize \in Nat \ {0}

-----------------------------------------------------------------------------
(* From a plan to its threads and queues.  Queues and threads are named by *)
(* where they are: <<i>> in segment i, <<i, r, j>> in stage j of replica r *)
(* of the parallel segment i, whose out_queues_ are <<i, r>>.              *)

NoQueue == <<>>

\* __segment_chain's constructor: a function that follows a queue pulls from
\* it directly, and the queue needs no thread.
Merged(p) == p[1].kind = "from" /\ p[2].kind \in Functions

\* Where segment i takes its input, and what its get_back() is to segment
\* i - 1.  The user's queues have the place of their segments.
InQueue(p, i) == IF p[i].kind = "from" \/ (i = 2 /\ Merged(p)) THEN <<1>> ELSE <<i>>
OutQueue(p, i) == IF i = Len(p) THEN NoQueue ELSE <<i + 1>>

Worker(id, run, ins, out) == [id |-> id, run |-> run, ins |-> ins, out |-> out]

\* Replica r of a parallel segment: a chain that starts with a producer on
\* in_queue_, which the first function merges.
Replica(p, i, r) ==
    LET body == p[i].body
    IN  [j \in 1 .. Len(body) |->
            Worker(<<i, r, j>>, body[j],
                   << IF j = 1 THEN <<i>> ELSE <<i, r, j>> >>,
                   IF j = Len(body) THEN <<i, r>> ELSE <<i, r, j + 1>>)]

FunctionWorkers(p, i) == << Worker(<<i>>, p[i].kind, << InQueue(p, i) >>, OutQueue(p, i)) >>
ConsumerWorkers(p, i) == << Worker(<<i>>, p[i].kind, << InQueue(p, i) >>, NoQueue) >>
ProducerWorkers(p, i) == << Worker(<<i>>, "producer", <<>>, OutQueue(p, i)) >>

\* from(queue): a thread that copies to the next segment's queue, unless that
\* one has merged it; to(queue): nothing.
QueueProducerWorkers(p, i) ==
    IF Merged(p) THEN <<>> ELSE << Worker(<<i>>, "from", << InQueue(p, i) >>, OutQueue(p, i)) >>
QueueConsumerWorkers(p, i) == <<>>

\* Mutant: the replicas of a parallel segment write to its out queue.
ParallelWorkers_Shared(p, i) ==
    FlattenSeq([r \in 1 .. p[i].n |->
        [j \in 1 .. Len(p[i].body) |->
            [Replica(p, i, r)[j] EXCEPT
                 !.out = IF j = Len(p[i].body) THEN OutQueue(p, i) ELSE @]]])

\* The replicas, and a thread that collects what they put out.
ParallelWorkers(p, i) ==
    FlattenSeq([r \in 1 .. p[i].n |-> Replica(p, i, r)])
      \o << Worker(<<i>>, "collector", [r \in 1 .. p[i].n |-> <<i, r>>], OutQueue(p, i)) >>

\* What run() of a segment executes.
SegmentWorkers(p, i) ==
    CASE p[i].kind \in Functions -> FunctionWorkers(p, i)
      [] p[i].kind \in Consumers -> ConsumerWorkers(p, i)
      [] p[i].kind = "producer"  -> ProducerWorkers(p, i)
      [] p[i].kind = "from"      -> QueueProducerWorkers(p, i)
      [] p[i].kind = "to"        -> QueueConsumerWorkers(p, i)
      [] p[i].kind = "parallel"  -> ParallelWorkers(p, i)

Workers == [p \in Plans |-> FlattenSeq([i \in 1 .. Len(p) |-> SegmentWorkers(p, i)])]

Ids(p)  == {w.id : w \in ToSet(Workers[p])}
Jobs    == [p \in Plans |-> [id \in Ids(p) |-> CHOOSE w \in ToSet(Workers[p]) : w.id = id]]
QueuesOf(p) == {InQueue(p, i) : i \in 2 .. Len(p)} \cup {<<1>>}
                 \cup UNION {ToSet(w.ins) \cup {w.out} : w \in ToSet(Workers[p])}
Threads == (UNION {Ids(p) : p \in Plans}) \cup {Main}

ASSUME MainAssumption ==
    Main \notin UNION {Ids(p) : p \in Plans} /\ NoThread \notin Threads

-----------------------------------------------------------------------------

VARIABLES
    plan,
    executed,    \* num_threads_: how many threads have been given their work
    start_, end_, done_,
    main,        \* where the thread that runs the plan and its execution is
    at,          \* where each worker is: "idle", "start", "run", "call" (inside
                 \* a function that pops for itself), "close", "exit", "gone"
    in,          \* which of its queues it reads (a collector has several)
    held,        \* the elements it has popped for this call
    hand,        \* what it has yet to push
    queue, closed,
    fed,         \* how many inputs the user has put into its queue
    delivered,   \* what consumers, or the reader of the user's queue, got
    \* thread_end_, a flex_barrier
    thread_count_, new_thread_count_, num_waiting_, num_to_leave_, mutex_,
    idle_, ready_, pc, op, arrived, passed, phase, joined, thrown, life

B == INSTANCE FlexBarrier
       WITH Owner <- Main, NumThreads <- 1, Completions <- {1}, MaxPhases <- 3, Drops <- FALSE

barrier == <<thread_count_, new_thread_count_, num_waiting_, num_to_leave_, mutex_,
             idle_, ready_, pc, op, arrived, passed, phase, joined, thrown, life>>
control == <<executed, start_, end_, done_, main>>
worker  == <<at, in, held, hand>>
user    == <<fed, delivered>>
vars    == <<plan, control, worker, queue, closed, user, barrier>>

\* thread_end_ is NULL until the constructor knows num_threads_.
Init ==
    /\ plan \in Plans
    /\ executed = 0 /\ start_ = 1 /\ end_ = 1 /\ done_ = FALSE
    /\ main = "execute"
    /\ at = [w \in Threads |-> "idle"]
    /\ in = [w \in Threads |-> 1]
    /\ held = [w \in Threads |-> <<>>] /\ hand = [w \in Threads |-> <<>>]
    /\ queue = [q \in QueuesOf(plan) |-> <<>>]
    /\ closed = {}
    /\ fed = 0 /\ delivered = <<>>
    /\ thread_count_ = 0 /\ new_thread_count_ = 0 /\ num_waiting_ = 0 /\ num_to_leave_ = 0
    /\ mutex_ = NoThread /\ idle_ = {} /\ ready_ = {}
    /\ pc = [t \in Threads |-> "out"] /\ op = [t \in Threads |-> "none"]
    /\ arrived = [t \in Threads |-> 0] /\ passed = [t \in Threads |-> 0]
    /\ phase = 0 /\ joined = [t \in Threads |-> 0] /\ thrown = FALSE
    /\ life = "none"

Job(w) == Jobs[plan][w]

-----------------------------------------------------------------------------
(* The workers: run_simple_function and its kin.                           *)

Goto(w, l) == at' = [at EXCEPT ![w] = l]

Source(w) == Job(w).ins[in[w]]

\* The user's functions, as in testing/pipeline_test.cc: a multi_out function
\* repeats its argument, a multi_in one adds two elements up, the others pass
\* on what they get.  How many elements a call pops by itself:
Pops(run) == IF run = "multi_in" THEN 2 ELSE 1

Result(run, args) ==
    CASE run = "multi_out" -> args \o args
      [] run = "multi_in"  -> << IF args = <<>> THEN -1 ELSE FoldSeq(LAMBDA x, y : x + y, 0, args) >>
      [] run \in Consumers -> <<>>
      [] OTHER             -> args

\* thread_start(): what a worker does first.
ThreadStart(w) ==
    /\ at[w] = "start"
    /\ start_ = 0
    /\ Goto(w, "run")
    /\ hand' = [hand EXCEPT ![w] = IF Job(w).run = "producer" THEN Inputs ELSE <<>>]
    /\ UNCHANGED <<in, held, queue, closed, user>>

PopsForItself == {"multi_in", "full", "multi_in_consumer"}

\* The loop over a function that pops for itself: while (!in_queue.is_closed()).
LoopTest(w) ==
    /\ at[w] = "run" /\ hand[w] = <<>> /\ Job(w).run \in PopsForItself
    /\ Goto(w, IF Source(w) \in closed THEN "close" ELSE "call")
    /\ UNCHANGED <<in, held, hand, queue, closed, user>>

\* The call of the function with what has been popped for it.
Call(w, args) ==
    /\ hand' = [hand EXCEPT ![w] = Result(Job(w).run, args)]
    /\ delivered' = IF Job(w).run \in Consumers THEN delivered \o args ELSE delivered
    /\ held' = [held EXCEPT ![w] = <<>>]
    /\ Goto(w, "run")

\* wait_pop() gets an element, in the loop or in the function.
Pop(w) ==
    /\ Job(w).run # "producer" /\ hand[w] = <<>>
    /\ at[w] = IF Job(w).run \in PopsForItself THEN "call" ELSE "run"
    /\ queue[Source(w)] # <<>>
    /\ queue' = [queue EXCEPT ![Source(w)] = Tail(@)]
    /\ LET args == Append(held[w], Head(queue[Source(w)]))
       IN  IF Len(args) = Pops(Job(w).run)
           THEN Call(w, args)
           ELSE /\ held' = [held EXCEPT ![w] = args]
                /\ UNCHANGED <<at, hand, delivered>>
    /\ UNCHANGED <<in, closed, fed>>

\* Mutant: the collector ends with its first queue.
PopClosed_First(w) ==
    /\ Job(w).run # "producer" /\ hand[w] = <<>>
    /\ queue[Source(w)] = <<>> /\ Source(w) \in closed
    /\ \/ /\ at[w] = "call"
          /\ Call(w, held[w])
          /\ UNCHANGED in
       \/ /\ at[w] = "run" /\ Job(w).run \notin PopsForItself
          /\ Goto(w, "close")
          /\ UNCHANGED <<in, held, hand, delivered>>
    /\ UNCHANGED <<queue, closed, fed>>

\* wait_pop() says closed: a function that popped returns what it has, a loop
\* ends, a collector goes on to the next queue.
PopClosed(w) ==
    /\ Job(w).run # "producer" /\ hand[w] = <<>>
    /\ queue[Source(w)] = <<>> /\ Source(w) \in closed
    /\ \/ /\ at[w] = "call"
          /\ Call(w, held[w])
          /\ UNCHANGED in
       \/ /\ at[w] = "run" /\ Job(w).run \notin PopsForItself
          /\ IF in[w] < Len(Job(w).ins)
             THEN in' = [in EXCEPT ![w] = @ + 1] /\ UNCHANGED at
             ELSE Goto(w, "close") /\ UNCHANGED in
          /\ UNCHANGED <<held, hand, delivered>>
    /\ UNCHANGED <<queue, closed, fed>>

\* push() waits for room, and throws into a closed queue.
Push(w) ==
    /\ hand[w] # <<>>
    /\ LET out == Job(w).out
       IN  IF out \in closed
           THEN Goto(w, "threw") /\ UNCHANGED queue
           ELSE /\ Len(queue[out]) < QueueSize
                /\ queue' = [queue EXCEPT ![out] = Append(@, Head(hand[w]))]
                /\ UNCHANGED at
    /\ hand' = [hand EXCEPT ![w] = Tail(@)]
    /\ UNCHANGED <<in, held, closed, user>>

ProducerReturns(w) ==
    /\ at[w] = "run" /\ hand[w] = <<>> /\ Job(w).run = "producer"
    /\ Goto(w, "close")
    /\ UNCHANGED <<in, held, hand, queue, closed, user>>

\* out_queue.close(); a consumer has none.
Close(w) ==
    /\ at[w] = "close"
    /\ closed' = closed \cup ({Job(w).out} \ {NoQueue})
    /\ Goto(w, "exit")
    /\ UNCHANGED <<in, held, hand, queue, user>>

\* thread_done()
ThreadDone(w) ==
    /\ at[w] = "exit"
    /\ B!Enter(w, "arrive_and_wait")
    /\ Goto(w, "gone")
    /\ UNCHANGED <<plan, control, in, held, hand, queue, closed, user>>

Run(w) ==
    /\ \/ ThreadStart(w) \/ LoopTest(w) \/ Pop(w) \/ PopClosed(w) \/ Push(w)
       \/ ProducerReturns(w) \/ Close(w)
    /\ UNCHANGED <<plan, control, barrier>>

-----------------------------------------------------------------------------
(* __instance and execution.                                               *)

MainGoes(l) == main' = l

Rest == <<plan, in, held, hand, queue, closed, user>>

\* plan_->run(): execute() for each segment that needs a thread.
Execute ==
    /\ main = "execute"
    /\ executed < Len(Workers[plan])
    /\ executed' = executed + 1
    /\ Goto(Workers[plan][executed'].id, "start")
    /\ UNCHANGED <<Rest, start_, end_, done_, main, barrier>>

CreateBarrier ==
    /\ main = "execute"
    /\ executed = Len(Workers[plan])
    /\ thread_count_' = executed
    /\ life' = "alive"
    /\ MainGoes("start")
    /\ UNCHANGED <<Rest, at, executed, start_, end_, done_>>
    /\ UNCHANGED <<new_thread_count_, num_waiting_, num_to_leave_, mutex_, idle_, ready_>>
    /\ UNCHANGED <<pc, op, arrived, passed, phase, joined, thrown>>

\* Mutant: the threads are started before the barrier is there.
Start_Early ==
    /\ main \in {"execute", "start"} /\ start_ = 1
    /\ start_' = 0
    /\ MainGoes(IF main = "start" THEN "wait" ELSE main)
    /\ UNCHANGED <<Rest, at, executed, end_, done_, barrier>>

\* start_.count_down(); then the caller waits, or leaves it to ~execution.
Start ==
    /\ main = "start"
    /\ start_' = 0
    /\ main' \in {"wait", "~wait"}
    /\ UNCHANGED <<Rest, at, executed, end_, done_, barrier>>

\* Mutant: wait() does not use the barrier.
EndWait_Only ==
    /\ main \in {"wait", "waited", "~wait"} /\ end_ = 0
    /\ MainGoes(IF main = "wait" THEN "waited" ELSE "delete")
    /\ UNCHANGED <<Rest, at, executed, start_, end_, done_, barrier>>

\* wait(), called by the user or by ~__instance: end_.wait(), and then ...
EndWait ==
    /\ main \in {"wait", "waited", "~wait"} /\ end_ = 0
    /\ B!Enter(Main, "arrive_and_wait")
    /\ MainGoes(IF main = "wait" THEN "arrive" ELSE "~arrive")
    /\ UNCHANGED <<Rest, at, executed, start_, end_, done_>>

\* ... the caller comes back from the barrier.
Arrived ==
    /\ main \in {"arrive", "~arrive"} /\ pc[Main] = "out"
    /\ MainGoes(IF main = "arrive" THEN "waited" ELSE "delete")
    /\ UNCHANGED <<Rest, at, executed, start_, end_, done_, barrier>>

\* delete plan_, delete thread_end_: the barrier's destructor waits for it to
\* be empty.
Delete ==
    /\ main = "delete"
    /\ B!all_threads_exited
    /\ life' = "destroyed"
    /\ MainGoes("deleted")
    /\ UNCHANGED <<Rest, at, executed, start_, end_, done_>>
    /\ UNCHANGED <<thread_count_, new_thread_count_, num_waiting_, num_to_leave_, mutex_>>
    /\ UNCHANGED <<idle_, ready_, pc, op, arrived, passed, phase, joined, thrown>>

\* all_threads_done(), the barrier's completion function.
all_threads_done ==
    /\ done_' = TRUE
    /\ end_' = IF done_ THEN end_ ELSE end_ - 1

\* A thread inside the barrier; who completes a phase runs all_threads_done.
BarrierStep(t) ==
    /\ B!Step(t)
    /\ IF phase' = phase THEN UNCHANGED <<done_, end_>> ELSE all_threads_done
    /\ UNCHANGED <<Rest, at, executed, start_, main>>

-----------------------------------------------------------------------------
(* The user's queues: somebody fills and closes one, empties the other.    *)

Feed ==
    /\ plan[1].kind = "from" /\ <<1>> \notin closed
    /\ IF fed = Len(Inputs)
       THEN closed' = closed \cup {<<1>>} /\ UNCHANGED <<queue, fed>>
       ELSE /\ Len(queue[<<1>>]) < QueueSize
            /\ fed' = fed + 1
            /\ queue' = [queue EXCEPT ![<<1>>] = Append(@, Inputs[fed'])]
            /\ UNCHANGED closed
    /\ UNCHANGED <<plan, control, worker, delivered, barrier>>

Sink == <<Len(plan)>>

Read ==
    /\ plan[Len(plan)].kind = "to" /\ queue[Sink] # <<>>
    /\ queue' = [queue EXCEPT ![Sink] = Tail(@)]
    /\ delivered' = Append(delivered, Head(queue[Sink]))
    /\ UNCHANGED <<plan, control, worker, closed, fed, barrier>>

-----------------------------------------------------------------------------

Next ==
    \/ \E w \in Ids(plan) : Run(w) \/ ThreadDone(w) \/ BarrierStep(w)
    \/ Execute \/ CreateBarrier \/ Start \/ EndWait \/ Arrived \/ Delete
    \/ BarrierStep(Main)
    \/ Feed \/ Read

Spec == Init /\ [][Next]_vars

\* Every behaviour is finite, so this is the fairness of the scheduler: while
\* a worker, the caller or the user of a queue can go on, one of them does.
LiveSpec == Spec /\ WF_vars(Next)

-----------------------------------------------------------------------------

\* What the plan makes of the inputs, if its functions take one element each.
Stage(s, seg) ==
    LET once(t, f) == FlattenSeq([i \in 1 .. Len(t) |-> Result(f, <<t[i]>>)])
    IN  IF seg.kind = "parallel" THEN FoldLeft(once, s, seg.body)
        ELSE IF seg.kind \in Functions THEN once(s, seg.kind) ELSE s
Expected == FoldLeft(Stage, Inputs, plan)

FunctionsOf(p) ==
    {p[i].kind : i \in DOMAIN p}
      \cup UNION {ToSet(p[i].body) : i \in {j \in DOMAIN p : p[j].kind = "parallel"}}

Count(s, x) == Cardinality({i \in DOMAIN s : s[i] = x})

Got == delivered \o (IF plan[Len(plan)].kind = "to" THEN queue[Sink] ELSE <<>>)

\* is_done() is said when every element has come out at the end of the plan,
\* once, and in order unless a parallel segment shares them out.  A segment
\* that pops for itself may leave elements behind when its queue is closed
\* early, but never reorders or repeats them.
AllDelivered ==
    done_ => IF "multi_in" \in FunctionsOf(plan) THEN TRUE
             ELSE IF FunctionsOf(plan) \cap PopsForItself # {} THEN IsPrefix(Got, Expected)
             ELSE IF "parallel" \in FunctionsOf(plan)
                  THEN \A x \in ToSet(Got) \cup ToSet(Expected) : Count(Got, x) = Count(Expected, x)
                  ELSE Got = Expected

\* The barrier spans the exit of the workers: it is there for each that comes
\* to thread_done() until all are out, and wait() returns only when done_ is
\* set (its assertion) and every worker has left the barrier, as the comment in
\* all_threads_done promises.
BarrierSpansExit ==
    /\ (\E w \in Ids(plan) : at[w] = "exit" \/ pc[w] # "out") => life = "alive"
    /\ main \in {"waited", "delete", "deleted"} =>
          done_ /\ \A w \in Ids(plan) : at[w] = "gone" /\ pc[w] = "out"

\* Whatever the user does, the execution ends: the closing of the first queue
\* travels down the plan, nobody is stuck on a queue or in the barrier, and
\* the destructor is through.
ExecutionEnds == <>(main = "deleted")
=============================================================================
