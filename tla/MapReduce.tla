------------------------------ MODULE MapReduce ------------------------------
(***************************************************************************)
(* gcl::map_reduce::run (include/map_reduce.h) with its helpers            *)
(* (include/map_reduce_impl.h): the Runner hands a copy of its input       *)
(* iterator to a mapper_helper on each of the threads the pool gives it,   *)
(* waits on a countdown_latch, collects what was mapped into one task per  *)
(* shard, and does the same with reducer_helpers that pop the tasks.       *)
(*                                                                         *)
(* Both latches are CountdownLatch, step by step.  The input and the tasks *)
(* are queues that were closed before a helper looks at them, so a pop of  *)
(* queue_front_iter takes the head or becomes the end; a thread the pool   *)
(* has just made runs the function it is given (MutableThread).            *)
(***************************************************************************)
EXTENDS Naturals, Sequences, FiniteSets, FiniteSetsExt, SequencesExt

CONSTANTS
    Runner, Mappers, Reducers,
    InputSeqs,     \* the inputs that may be given: sequences without repetition
    KeyOf,         \* what the mapper makes of an input: its key, a number
    ShardOf,       \* the shard of a key, below NumShards
    NumShards,
    MaxThreads,    \* max_threads_ of the thread pool
    NoThread

Helpers == Mappers \cup Reducers
Inputs  == DOMAIN KeyOf
Keys    == DOMAIN ShardOf
Tasks   == SUBSET Keys

ASSUME HelpersAssumption ==
    /\ IsFiniteSet(Helpers) /\ Mappers \cap Reducers = {}
    /\ {Runner, NoThread} \cap Helpers = {} /\ Runner # NoThread
ASSUME DataAssumption ==
    /\ NumShards \in Nat
    /\ \A s \in InputSeqs : s \in Seq(Inputs) /\ IsInjective(s)
    /\ \A x \in Inputs : KeyOf[x] \in Keys
    /\ Keys \subseteq Nat /\ \A k \in Keys : ShardOf[k] \in 0 .. NumShards - 1
ASSUME PoolAssumption == MaxThreads \in Nat

VARIABLES
    stage,       \* where run() is
    tried,       \* the helpers it has asked the pool for in this stage
    active,      \* how many threads of the pool are in use
    input,       \* what is left in the input queue
    first,       \* the iterator that run() was called with: <<x>> if it holds
                 \* the element x, <<>> if it has come to the end
    hpc, iter,   \* each helper: its pc, its iterator,
    item,        \* and what it works on, in the same form
    mapped,      \* mapper_outputs_: which mapper has mapped which inputs
    threw,       \* did a mapper throw
    skipped,     \* the keys left out of the shards
    tasks,       \* reducer_inputs
    reduced,     \* how often each key has been reduced
    mCount, mCondition, mMutex, mPc, mDestroyed,  \* mapper_latch
    rCount, rCondition, rMutex, rPc, rDestroyed   \* reducer_latch

ML == INSTANCE CountdownLatch
        WITH Counters <- Mappers, Waiter <- Runner, Count <- Cardinality(Mappers),
             count_ <- mCount, condition_ <- mCondition, condition_mutex_ <- mMutex,
             pc <- mPc, destroyed <- mDestroyed
RL == INSTANCE CountdownLatch
        WITH Counters <- Reducers, Waiter <- Runner, Count <- Cardinality(Reducers),
             count_ <- rCount, condition_ <- rCondition, condition_mutex_ <- rMutex,
             pc <- rPc, destroyed <- rDestroyed

mLatch  == <<mCount, mCondition, mMutex, mPc, mDestroyed>>
rLatch  == <<rCount, rCondition, rMutex, rPc, rDestroyed>>
run     == <<stage, tried, active, first, skipped>>
helper  == <<hpc, iter, item>>
data    == <<input, mapped, threw, tasks, reduced>>
vars    == <<run, helper, data, mLatch, rLatch>>

\* queue_front_iter::next() on the closed queue qu: what the iterator then
\* holds, and what is left in the queue.
NextOf(qu) == IF qu = <<>> THEN <<>> ELSE <<Head(qu)>>
Popped(qu) == IF qu = <<>> THEN <<>> ELSE Tail(qu)

\* The iterator that run() gets has popped its first element already.
Init ==
    /\ stage = "start mappers" /\ tried = {}
    /\ active \in 0 .. MaxThreads
    /\ \E s \in InputSeqs :
         /\ first = NextOf(s) /\ input = Popped(s)
    /\ hpc = [h \in Helpers |-> "none"]
    /\ iter = [h \in Helpers |-> <<>>] /\ item = [h \in Helpers |-> <<>>]
    /\ mapped = {} /\ threw = FALSE /\ skipped = {}
    /\ tasks = <<>> /\ reduced = [k \in Keys |-> 0]
    /\ ML!Init /\ RL!Init

Goto(h, p) == hpc' = [hpc EXCEPT ![h] = p]

-----------------------------------------------------------------------------
(* The helpers: "none" before their thread has them, at the top of the     *)
(* "loop", at "work" on an item, or "counting" down the latch.             *)

\* Mutant: the iterator is not advanced in the queue.
FetchInput_Peek(m) ==
    /\ m \in Mappers /\ hpc[m] = "loop" /\ iter[m] # <<>>
    /\ item' = [item EXCEPT ![m] = iter[m]]
    /\ iter' = [iter EXCEPT ![m] = NextOf(input)]
    /\ Goto(m, "work")
    /\ UNCHANGED <<run, input, mapped, threw, tasks, reduced, mLatch, rLatch>>

\* value = *(iter++): the next element is popped before this one is mapped.
FetchInput(m) ==
    /\ m \in Mappers /\ hpc[m] = "loop" /\ iter[m] # <<>>
    /\ item' = [item EXCEPT ![m] = iter[m]]
    /\ iter' = [iter EXCEPT ![m] = NextOf(input)] /\ input' = Popped(input)
    /\ Goto(m, "work")
    /\ UNCHANGED <<run, mapped, threw, tasks, reduced, mLatch, rLatch>>

Map(m) ==
    /\ m \in Mappers /\ hpc[m] = "work"
    /\ mapped' = mapped \cup {<<m, item[m][1]>>}
    /\ Goto(m, "loop")
    /\ UNCHANGED <<run, iter, item, input, threw, tasks, reduced, mLatch, rLatch>>

\* A mapper that throws, before or after its output, ends the loop.
MapThrows(m) ==
    /\ m \in Mappers /\ hpc[m] = "work"
    /\ mapped' \in {mapped, mapped \cup {<<m, item[m][1]>>}}
    /\ threw' = TRUE
    /\ iter' = [iter EXCEPT ![m] = <<>>]
    /\ Goto(m, "loop")
    /\ UNCHANGED <<run, item, input, tasks, reduced, mLatch, rLatch>>

FetchTask(r) ==
    /\ r \in Reducers /\ hpc[r] = "loop" /\ iter[r] # <<>>
    /\ item' = [item EXCEPT ![r] = iter[r]]
    /\ iter' = [iter EXCEPT ![r] = NextOf(tasks)] /\ tasks' = Popped(tasks)
    /\ Goto(r, "work")
    /\ UNCHANGED <<run, input, mapped, threw, reduced, mLatch, rLatch>>

Reduce(r) ==
    /\ r \in Reducers /\ hpc[r] = "work"
    /\ reduced' = [k \in Keys |-> IF k \in item[r][1] THEN reduced[k] + 1 ELSE reduced[k]]
    /\ Goto(r, "loop")
    /\ UNCHANGED <<run, iter, item, input, mapped, threw, tasks, mLatch, rLatch>>

\* done_latch->count_down() after the loop.
CountDown(h) ==
    /\ hpc[h] = "loop" /\ iter[h] = <<>>
    /\ Goto(h, "counting")
    /\ \/ h \in Mappers /\ ML!Call(h) /\ UNCHANGED rLatch
       \/ h \in Reducers /\ RL!Call(h) /\ UNCHANGED mLatch
    /\ UNCHANGED <<run, iter, item, data>>

Latch ==
    /\ \/ (\E t \in Mappers \cup {Runner} : ML!Step(t)) /\ UNCHANGED rLatch
       \/ (\E t \in Reducers \cup {Runner} : RL!Step(t)) /\ UNCHANGED mLatch
    /\ UNCHANGED <<run, helper, data>>

SpuriousWakeup ==
    /\ \/ ML!SpuriousWakeup(Runner) /\ UNCHANGED rLatch
       \/ RL!SpuriousWakeup(Runner) /\ UNCHANGED mLatch
    /\ UNCHANGED <<run, helper, data>>

-----------------------------------------------------------------------------
(* run().                                                                  *)

\* simple_thread_pool::try_get_unused_thread has one of its own or makes one.
HasThread == active < MaxThreads

\* release_thread of the threads of the helpers S; a NULL is not found.
Released(S) == active - Cardinality({h \in S : hpc[h] # "none"})

\* Mutant: the pool makes one thread too many.
StartMapper_OffByOne(m) ==
    /\ stage = "start mappers" /\ m \notin tried
    /\ tried' = tried \cup {m}
    /\ IF active <= MaxThreads
       THEN /\ active' = active + 1
            /\ Goto(m, "loop") /\ iter' = [iter EXCEPT ![m] = first]
       ELSE UNCHANGED <<active, hpc, iter>>
    /\ UNCHANGED <<stage, first, skipped, item, data, mLatch, rLatch>>

\* try_get_unused_thread and, unless it has none, execute on its thread.
StartMapper(m) ==
    /\ stage = "start mappers" /\ m \notin tried
    /\ tried' = tried \cup {m}
    /\ IF HasThread
       THEN /\ active' = active + 1
            /\ Goto(m, "loop") /\ iter' = [iter EXCEPT ![m] = first]
       ELSE UNCHANGED <<active, hpc, iter>>
    /\ UNCHANGED <<stage, first, skipped, item, data, mLatch, rLatch>>

WaitMappers ==
    /\ stage = "start mappers" /\ tried = Mappers
    /\ stage' = "wait mappers"
    /\ ML!Call(Runner)
    /\ UNCHANGED <<tried, active, first, skipped, helper, data, rLatch>>

MappedKeys == {KeyOf[p[2]] : p \in mapped}

\* One task for each shard that has keys, in the order of the shards.
TaskOf(K, s) == {k \in K : ShardOf[k] = s}
ShardTasks(K) ==
    LET S == {ShardOf[k] : k \in K}
    IN  [i \in 1 .. Cardinality(S) |->
            TaskOf(K, CHOOSE s \in S : Cardinality({t \in S : t <= s}) = i)]

\* The first key is compared with the key of reducer_input_.end(): whatever
\* is there, it may be equal to the first key, and then that key is skipped.
\* A queue of no tasks cannot be constructed: run() throws.
Shuffle ==
    /\ stage = "wait mappers" /\ mPc[Runner] = "done"
    /\ active' = Released(Mappers)
    /\ skipped' \in IF MappedKeys = {} THEN {{}} ELSE {{}, {Min(MappedKeys)}}
    /\ tasks' = ShardTasks(MappedKeys \ skipped')
    /\ tried' = {}
    /\ IF tasks' = <<>>
       THEN stage' = "threw" /\ ML!Destroy
       ELSE stage' = "start reducers" /\ UNCHANGED mLatch
    /\ UNCHANGED <<first, helper, input, mapped, threw, reduced, rLatch>>

\* Mutant: begin() is called once, and its iterator copied to the reducers.
StartReducer_Copy(r) ==
    /\ stage = "start reducers" /\ r \notin tried
    /\ tried' = tried \cup {r}
    /\ IF HasThread
       THEN /\ active' = active + 1
            /\ Goto(r, "loop") /\ iter' = [iter EXCEPT ![r] = NextOf(tasks)]
            /\ tasks' = IF tried' = Reducers THEN Popped(tasks) ELSE tasks
       ELSE UNCHANGED <<active, hpc, iter, tasks>>
    /\ UNCHANGED <<stage, first, skipped, item, input, mapped, threw, reduced, mLatch, rLatch>>

\* Each reducer gets an iterator of its own, which pops in the Runner.
StartReducer(r) ==
    /\ stage = "start reducers" /\ r \notin tried
    /\ tried' = tried \cup {r}
    /\ IF HasThread
       THEN /\ active' = active + 1
            /\ Goto(r, "loop") /\ iter' = [iter EXCEPT ![r] = NextOf(tasks)]
            /\ tasks' = Popped(tasks)
       ELSE UNCHANGED <<active, hpc, iter, tasks>>
    /\ UNCHANGED <<stage, first, skipped, item, input, mapped, threw, reduced, mLatch, rLatch>>

WaitReducers ==
    /\ stage = "start reducers" /\ tried = Reducers
    /\ stage' = "wait reducers"
    /\ RL!Call(Runner)
    /\ UNCHANGED <<tried, active, first, skipped, helper, data, mLatch>>

\* The threads are released and run() returns: its latches are gone.
Finish ==
    /\ stage = "wait reducers" /\ rPc[Runner] = "done"
    /\ stage' = "returned"
    /\ active' = Released(Reducers)
    /\ ML!Destroy /\ RL!Destroy
    /\ UNCHANGED <<tried, first, skipped, helper, data>>

HelperStep(h) ==
    FetchInput(h) \/ Map(h) \/ MapThrows(h) \/ FetchTask(h) \/ Reduce(h) \/ CountDown(h)

RunnerStep ==
    \/ \E m \in Mappers : StartMapper(m)
    \/ \E r \in Reducers : StartReducer(r)
    \/ WaitMappers \/ Shuffle \/ WaitReducers \/ Finish

Next == (\E h \in Helpers : HelperStep(h)) \/ RunnerStep \/ Latch \/ SpuriousWakeup

Spec == Init /\ [][Next]_vars

\* Threads are scheduled, the mappers and reducers of the client return, and
\* a thread that wants a latch's mutex is not passed over for ever.
MLatchStep(t) == ML!Step(t) /\ UNCHANGED <<run, helper, data, rLatch>>
RLatchStep(t) == RL!Step(t) /\ UNCHANGED <<run, helper, data, mLatch>>
MAcquire(t)   == ML!Acquire(t) /\ UNCHANGED <<run, helper, data, rLatch>>
RAcquire(t)   == RL!Acquire(t) /\ UNCHANGED <<run, helper, data, mLatch>>

LiveSpec ==
    /\ Spec
    /\ WF_vars(RunnerStep)
    /\ \A h \in Helpers : WF_vars(HelperStep(h))
    /\ \A t \in Mappers \cup {Runner} : WF_vars(MLatchStep(t)) /\ SF_vars(MAcquire(t))
    /\ \A t \in Reducers \cup {Runner} : WF_vars(RLatchStep(t)) /\ SF_vars(RAcquire(t))

-----------------------------------------------------------------------------
(* Properties.                                                             *)

TypeOK ==
    /\ stage \in {"start mappers", "wait mappers", "start reducers", "wait reducers",
                  "returned", "threw"}
    /\ tried \in SUBSET Helpers
    /\ active \in 0 .. MaxThreads
    /\ input \in Seq(Inputs) /\ first \in Seq(Inputs)
    /\ hpc \in [Helpers -> {"none", "loop", "work", "counting"}]
    /\ \A m \in Mappers : iter[m] \in Seq(Inputs) /\ item[m] \in Seq(Inputs)
    /\ \A r \in Reducers : iter[r] \in Seq(Tasks) /\ item[r] \in Seq(Tasks)
    /\ mapped \in SUBSET (Mappers \X Inputs)
    /\ threw \in BOOLEAN /\ skipped \in SUBSET Keys
    /\ tasks \in Seq(Tasks) /\ reduced \in [Keys -> Nat]
    /\ ML!TypeOK /\ RL!TypeOK

\* run() destroys its latches only when every helper is through with them:
\* with the mappers' when it throws, with both when it returns.
HelpersGone ==
    /\ ML!SingleWaiterMayDestroy /\ RL!SingleWaiterMayDestroy
    /\ mDestroyed => \A m \in Mappers : mPc[m] = "done"
    /\ rDestroyed => \A r \in Reducers : rPc[r] = "done"

\* When the shuffle begins nobody maps any more and, if no mapper threw, every
\* input has been mapped; only the input that the iterator given to run()
\* already held is mapped by more than one mapper.
EveryInputMapped ==
    /\ stage \notin {"start mappers", "wait mappers"} =>
         /\ \A m \in Mappers : hpc[m] = "counting"
         /\ threw \/ (input = <<>> /\ \A x \in Range(first) : \E m \in Mappers : <<m, x>> \in mapped)
    /\ \A p, o \in mapped : p[2] = o[2] => p[1] = o[1] \/ first = <<p[2]>>

\* When run() returns, every key that came out of the mappers and was not
\* skipped has been reduced, and nothing is ever reduced twice.
ReducedOnce ==
    /\ \A k \in Keys : reduced[k] <= 1
    /\ stage = "returned" => \A k \in Keys : reduced[k] = 1 <=> k \in MappedKeys \ skipped

\* run() comes to an end if the pool has a thread for every helper.
RunReturns ==
    (active + Cardinality(Mappers) <= MaxThreads /\ active + Cardinality(Reducers) <= MaxThreads
       /\ tried = {} /\ stage = "start mappers")
    ~> stage \in {"returned", "threw"}
=============================================================================
