# Google Concurrency Library: TLA+ models, model checking and proofs

The repository is a C++11 library of concurrency building blocks: queues,
latches, barriers, counters, executors, a pipeline and a map-reduce; among its
samples is a threaded deduplicating compressor, in C. This
directory holds TLA+ models of its components, the TLC configurations that
check them on small instances, and TLAPS proofs that hold for every instance.
`PROJECT.json` lists the components, the runs, the source lines each definition
models, the hazards and the theorems in machine-readable form.

Nearly every component is a C++ class that several threads use at once. A model has one
variable per data member, one action per step of a member function that other
threads can come between, and keeps the names of the source (`waiting_full_`,
`push_at`, `num_to_leave_`).

## 1. Inventory

| Component | State | Operations | What is hard | What makes it correct |
|---|---|---|---|---|
| `buffer_queue` | ring `buffer_`, `push_index_`, `pop_index_`, `closed_`, `waiting_full_`, `waiting_empty_`, a mutex, two condition variables | 4 pushes (copy and move), 4 pops, `close`, `is_closed`, `is_empty` | wakeups are made only when a counter says so; element assignments may throw; spurious wakeups | implements a closable FIFO; no lost wakeup; `close` releases everybody |
| `lock_free_buffer_queue` | `head_`, `tail_`, `values_`, `value_state_` | try and nonblocking push and pop, `is_empty`, `is_full` | every atomic access is a point of interleaving; failed pushes leave invalid slots; relaxed loads | each element out once, in order; no slot is stranded; `empty` and `full` are true at some point of the call |
| `latch` | `count_`, atomic `waiting_`, mutex, condition variable | `wait`, `is_ready`, `count_down`, `count_down_and_wait`, destructor | the destructor spins on `waiting_`, changed outside the mutex | nobody passes early; nobody is inside a destroyed latch; zero releases all |
| `countdown_latch` | `count_`, mutex, condition variable | `wait`, `count_down`, destructor | one waiter may destroy the latch as it returns | the same |
| `barrier` | `thread_count_`, `num_waiting_`, atomic `num_to_leave_`, mutex, two condition variables | `arrive_and_wait`, `arrive_and_drop`, destructor | `num_to_leave_` is decremented outside the mutex | nobody leaves a phase early; a phase ends |
| `flex_barrier` | the same and `new_thread_count_` | the same, with a completion function | the completion function changes the thread count or throws | phases do not overlap; counters agree with the threads inside |
| queue ends (`queue_base.h`) | reference counts of the fronts and backs of a queue | copy, move, release of an end; `share_queue_ends` | the last front and the last back are released concurrently | closed when the last of a kind goes, deleted, not used after |
| counters (`counter.h`) | an atomic value, the set of brokers of a duplex counter | bump, load, exchange, broker creation and death | queries race with the death of brokers | no count is lost or taken twice |
| `mutable_thread` | `run_fn_`, `queued_fn_`, `thread_state_`, mutex, condition variable | `try_execute`, `execute`, `join`, `run` | the worker swaps its task slots without the mutex | the function under way is not disturbed; what reaches `run_fn_` runs once; `join` returns |
| `simple_thread_pool` | sets of unused and active threads, `shutting_down_` | get, donate, release, destructor | the destructor walks the sets without the lock | a thread is given to one client at a time and deleted once |
| `serial_executor` | task queue, `shutting_down` | `execute`, `run`, destructor | shutdown against queued tasks; a task may queue tasks | FIFO, one at a time, at most one after shutdown |
| `pipeline` | segments joined by queues, a latch and a `flex_barrier` per execution | `run`, `wait`, `is_done`, the destructor of an execution, the loops of each kind of segment | closing travels along the segments; the barrier is used once more by whoever waits, then deleted | all elements get through; every thread ends; the barrier outlives its users |
| `map_reduce` | an input iterator copied to every mapper, two latches, a task queue | `run` | workers finish in any order, some throw | every input mapped, every key reduced once, `run` returns |
| `concurrent_priority_queue` | heap, mutex, condition variable | push, try_pop, pop, update, copy | pop blocks; an assignment may throw between two heap operations | highest priority first; nothing lost |
| `stream_mutex` | one recursive mutex per stream, in a map | operator chains, `hold`, lock, unlock | the lock passes from the first operator to a temporary; statements nest; insertions throw | statements are not mixed |
| `samples/dedup` | queues between pools of threads, the threads' ring buffers, reference counts of shared memory, a hash table with bucket locks, the last stage's cache of chunks that came early | Fragment, FragmentRefine, Deduplicate, Compress, Reorder | equal chunks are looked up at once; chunks overtake each other; queues end with several producers; a chunk may have to wait for another one's compression | the output is that of the serial encoder; memory is freed with its last user; every stage ends |
| `source`, `iterator_queue` | an iterator range | get, pop | none: one thread | |

Interactions. The queue ends of `queue_base.h` wrap any queue. The pipeline
joins its stages by queues through those ends and runs them on a
`simple_thread_pool`, which hands out `mutable_thread`s. `map_reduce` uses the
pool and a `countdown_latch`; an execution of a pipeline uses a latch and a
`flex_barrier`. Barriers and counters, `serial_executor`, `stream_mutex` and the
priority queue stand alone, and so does the compressor, which has queues of its
own (`queue.c`). The tests, the archive (C++98 emulation of `std::thread`), the
`blackscholes` sample and `third_party` are not modelled.

## 2. Modules

One module per component, and two for the compressor. A variable is a data member under its own name, a
`pc`/`op` pair says which member function a thread is in and where, and an
action is a stretch of code that nobody can come between. Where a mutex is held
and nothing in the critical section is visible from outside, the critical
section is one action; where somebody looks without the mutex (a destructor, an
unlocked test, an atomic), it is cut at each such point. A condition variable is
the set of threads blocked on it; `SpuriousWakeup` moves any of them back to the
mutex at any time.

| Module | Code | State | Actions |
|---|---|---|---|
| `BoundedQueue` | the contract that the queues of `include/` share | `q`, `closed`, the call each client is in | one atomic step per answer; a call that throws becomes a pending close |
| `BufferQueue` | `buffer_queue.h` | the ring, both indexes, `closed_`, both `waiting_` counters, `mtx_`, both wait sets | `Call`, `Acquire`, `TryLockFails`, one action per outcome of a push or pop under the mutex, the `close` of the exception handler |
| `LockFreeBufferQueue` | `lock_free_buffer_queue.h` | `head_`, `tail_`, `values_`, `value_state_` | one action per atomic access |
| `Latch` | `latch.cc` | `count_`, `waiting_`, mutex, wait set | `waiting_` before and after the mutex; throwing `count_down`; the spinning destructor |
| `CountdownLatch` | `countdown_latch.cc` | `count_`, mutex, wait set | `wait`, `count_down`, its unlock as a step of its own, the destructor |
| `Barrier` | `barrier.cc` | `thread_count_`, `num_waiting_`, `num_to_leave_`, both wait sets | the code between two waits; the decrement outside the mutex; drops; the destructor |
| `FlexBarrier` | `flex_barrier.cc` | the same, `new_thread_count_` and an explicit mutex | the same, with `on_countdown` and `reset`, a completion that keeps, changes or refuses the count |
| `Counter` | `counter.h` | `value_`, `children_`, `broker_`, `buffer_`, `serializer_` | bumps, atomic and in two steps; creation and death of brokers; queries that visit one broker per step |
| `QueueEnds` | `queue_base.h` | `bk_`, `ft_`, what each end refers to, a `BoundedQueue` | copy, move, call, and a release cut at each operation on the counts |
| `MutableThread` | `mutable_thread.cc` | `run_fn_`, `queued_fn_`, `thread_state_`, the mutex | the unlocked tests, the locked fill, `join`, the worker with each unlocked swap apart |
| `MapReduce` | `map_reduce.h`, `map_reduce_impl.h`, `map_reduce_helpers.h` | the input, each helper's iterator and element, the tasks, two `CountdownLatch`es, the free threads of the pool | starting helpers, fetching, mapping, throwing, shuffling, reducing, destroying the latches |
| `SimpleThreadPool` | `simple_thread_pool.cc` | both sets, `shutting_down_`, who holds which thread | the member functions; the destructor, one join and delete at a time |
| `SerialExecutor` | `serial_executor.cc` | `function_queue`, `shutting_down`, where `run` is | `execute`, `run` with its unlocked test, shutdown and join |
| `PriorityQueue` | `concurrent_priority_queue.h` | `cont_`, the wait set | `push`, `try_pop`, `pop`, `update`, with the standard heap operations by their contracts |
| `StreamMutex` | `stream_mutex.h`, `stream_mutex.cc` | `stream_map`, each recursive mutex, each thread's nesting | construction, lock, insertion, unlock, an insertion that throws |
| `Pipeline` | `pipeline.h` | queues and what each thread holds, the latch, the barrier | what each kind of segment's loop does between two queue operations; starting, waiting, deleting |
| `SerialDedup` | `encoder.c` (serial build), `decoder.c` | the cache of contents, the records written | one step per chunk |
| `Dedup` | `encoder.c` (threaded build), `queue.c`, `hashtable.c`, `mbuffer.c` | the queues, each thread's buffers, chunks, hash table, reference counts | enqueue and dequeue in batches, each stage's handling of a chunk, the ends of the queues |
| `Reorder` | `sub_Reorder`, `tree.c`, `binheap.c` | the search tree and the heaps | arrival of a chunk, writing, the flush at the end |

Composition. `BufferQueue` implements `BoundedQueue`
(`Abs == INSTANCE BoundedQueue WITH ...`, property `ImplementsBoundedQueue`);
`QueueEnds` is built on an instance of `BoundedQueue`, so what it says holds for
any queue with that contract; `MapReduce` contains two instances of
`CountdownLatch` with all their steps, and takes from the queues and the pool
only what `map_reduce` uses; `Pipeline` contains an instance of `FlexBarrier`,
again step by step, and queues that behave as `BoundedQueue`s; `Dedup`
implements `SerialDedup` (`ImplementsSerial`), with the cache of the last stage
as a set, and `Reorder` has that stage alone with the tree and the heaps that
the code keeps the set in.

The `MC*` modules give the constants small values. `MCLatchBarrier`, `MCAtomics`,
`MCLocked` and `MCDedup` each hold several components: a behaviour picks one of
them, the `unit`, at the start and is a behaviour of that one; the others stay in
an initial state. These modules also conjoin the components' fairness conditions
and name their properties (`BarrierSync == B!Sync /\ B!NoUseAfterDestroy`,
`WrittenInOrder == WholeInputWritten /\ R!WrittenPromptly`, ...).

`MCAtomics` EXTENDS `LockFreeBufferQueue` and has the counter as `CN == INSTANCE
Counter WITH ...`, under names of its own where both have a variable of the same name
(`counterPc`, `counterOp`, `counterRes`); `MCLatchBarrier` (`B`), `MCLocked` (`TP`, `SE`,
`PQ`, `SM`) and `MCDedup` (`R`) are built the same way. `MCPipeline` has `QueueEnds`
besides (`QE`), but a specification for each (`PipelineSpec`, `EndsSpec`), which leaves the
variables of the other alone. Proofs about an instance,
such as `CN!Spec => []Conservation`, are about the component with its own
constants, whatever the other one does.

The theorems and proofs are in modules of their own:

| Module | Extends | Proves about |
|---|---|---|
| `BufferQueueProofs` | `BufferQueue` | `buffer_queue`, and that it implements `BoundedQueue` |
| `LatchBarrierProofs` | `MCLatchBarrier` | `latch` and `barrier` |
| `FlexBarrierProofs` | `FlexBarrier` | `flex_barrier` |
| `AtomicsProofs` | `MCAtomics` | `lock_free_buffer_queue` and the counters |
| `PipelineProofs` | `MCPipeline` | `pipeline`, and the shared ends of a queue |
| `LockedProofs` | `MCLocked` | `mutable_thread`, `simple_thread_pool`, `serial_executor`, `concurrent_priority_queue`, `stream_mutex` |
| `MapReduceProofs` | `MapReduce` | `map_reduce` with its two `countdown_latch`es |
| `DedupProofs` | `Dedup` | the compressor's shared memory, and that it implements `SerialDedup` |

Choices of the environment that the models keep: element assignments that throw
(`CopyThrows`), the order of two relaxed loads (`ReorderLoads`), spurious
failure of `compare_exchange_weak` (`WeakFails`), a completion function that
throws or returns any count (`Completions`), an uninitialised read in the
shuffle of `map_reduce`, mappers that throw, a pool with too few threads, a stale
read of `shutting_down` in `serial_executor`, insertions into a stream that throw,
any arrangement of a heap that its contract allows, any interleaving of the
compressor's threads and so any order of arrival at its last stage.

## 3. Runs

| Run | Question | Properties |
|---|---|---|
| `queue_safety` | does the ring with its mutex and wait sets behave as a closable FIFO, and is every needed notification sent? | `CountersCoverWaiters`, `NoLostWakeup`, `ClosedWakesAll`, `ImplementsBoundedQueue` |
| `queue_live` | does `close` get everybody out? Deadlock is checked as well | `CloseReleases` |
| `latch_barrier` | the latch: gate and destructor, with counts that jump and counts that are too large. The barrier: two phases with drops, and the destructor | `Gate`, `NoUseAfterDestroy`, `DestroyReturns`; `BarrierSync`, `FirstPhaseEnds` |
| `flex_phases` | three phases whose completion resizes, keeps or throws | `Sync`, `DestroyAfterDeparture`, `PhaseEmpties` |
| `atomics` | the counters: is every count in one place, through brokers that die during a query? The lock-free queue: two producers against two consumers, with pushes that throw | `Conservation`, `LoadInBounds`; `PopsGetTheirElement`, `TruthfulAnswers` |
| `lf_live` | is every reserved index consumed? | `NoOrphanSlot`, `AllConsumed` |
| `queue_ends` | reference counts against concurrent copies, moves, releases | `NoDanglingEnd`, `ConsumersEnd`, `Reclaimed` |
| `locked` | five components under one mutex each: hand-over and join of `mutable_thread`; one owner per pool thread; what the executor runs and when it stops; the order of the priority queue; whole statements on a stream | `RunningUndisturbed`, `JoinReturns`; `OneOwner`; `BegunInTime`, `RunnerAwake`; `HighestFirst`; `StatementsWhole` |
| `map_reduce` | a whole `run()` | `HelpersGone`, `EveryInputMapped`, `ReducedOnce`, `RunReturns` |
| `dedup` | does the threaded compressor write what the serial one does, free what it shares, and end? Does the tree of heaps give out chunks in order as soon as possible? | `RefsCountHolders`, `WrittenInOrder`, `EncodeEnds`, `ImplementsSerial` |
| `pipeline` | six plans: does everything arrive, is the barrier there for the whole of everybody's exit, does the execution end? | `AllDelivered`, `BarrierSpansExit`, `ExecutionEnds` |
| `counters_strong` | what `counter.h:176` says of exchanges | `ExtractedOnce`, which fails |

The modules also state their `TypeOK` and the invariants that explain why the
properties above hold (`LockInv`, `WaitingCoversInside`, `LeaversCounted`,
`Accounting`, `WindowOK`, `CasSucceeds`, `NoDanglingBroker`, `LastEndCloses`,
`RunSlotIsRun`, `ZeroReleases`). They hold with the constants of the runs, as
adding them to the `INVARIANTS` of a configuration shows, and most of them are proved or
are part of an inductive invariant (section 4). The configurations that are no
runs (`MCDedup_anchors.cfg`, `MCLocked_late.cfg`, ...) show the observations of
section 5.

Every property is preceded by a comment that says what it means and which code
it is about. Each of the passing ones is also run against a mutant, a plausible
slip in the code that the property must detect; the mutants are the operators
next to the definitions they change (`wait_OffByOne`, `Fill_NoNotify`,
`DedupSearch_NoLock`, `Destroy_NoNotify`, ...).

Deadlock is left unchecked where the program may stop for a good reason: calls
are bounded, an object has been destroyed, or the input is at its end; that
nothing stops before is then the business of the liveness properties.

### Bounds, and why they are enough

* `BufferQueue`: three threads, of which two push and one pops, in the safety run a ring of
  three slots (capacity 2) with two elements, so that the indexes wrap and the
  notifier has more than one candidate; in the live run capacity 1. `MaxWaiting`
  caps the two counters, which spurious wakeups can drive up without limit; at the
  cap only further spurious wakeups are cut off. Between them the two runs call
  every member function. The proofs hold for every value of all these constants.
* `LockFreeBufferQueue`: two producers and two consumers on two slots, three
  reservations (`MaxTail`), hence one full lap and one index beyond; on one slot
  with one consumer, three laps.
* `Latch`: three threads, a count of 3, counts of up to 2 at a time and two calls
  each, so that the count can jump, reach zero, and be exceeded
  (`Overcount = TRUE`).
* `Barrier`, `FlexBarrier`: three threads, two and three phases (`MaxPhases`), so
  that a thread can come back before the last one of the phase before has left,
  drop, and, in the flexible one, meet every thread count from 0 to 3.
* `Counter`: two counting threads and two readers; two counts in all
  (`MaxCounts`), as the races are between one count, one death and one query.
* `QueueEnds`: two backs and two fronts, whose names are reused after a release,
  so copies, moves and releases go on for ever; a queue of capacity 1.
* `MutableThread`: two clients, three functions: one running, one queued, one
  more, either for a full object or for the race for the last free slot.
* `MapReduce`: up to three inputs of two keys, two mappers, two reducers, two
  shards, two pool threads.
* `SimpleThreadPool`: two clients, three threads, of which the pool starts with
  one and may make two. `SerialExecutor`: three functions, submitted by clients or
  by one another. `PriorityQueue`: four elements, so that a heap has two levels
  below its root, both orders of priority. `StreamMutex`: two threads and one stream
  with two `stream_mutex`es; `MaxDepth`, `MaxItems`, `MaxTurns` bound the nesting,
  what is written and how often a thread takes the stream.
* `Pipeline`: three inputs through queues of one element, so that every queue fills
  up and runs empty. The six plans hold every kind of segment and every way to
  connect two: a queue merged into the function behind it, a queue with a thread
  of its own, replicas that share a queue, functions that pop for themselves.
* `Dedup`: two threads in each pool, with a queue each or one between them, queues of
  one element and batches of two. The input d1 d2 d1 d1 is cut after its second chunk
  and read in two buffers: equal chunks lie in the same and in different coarse
  chunks, unequal ones share a bucket. The other input is empty.
* `Reorder`: coarse chunks of two, five, one and two fine chunks, in every order of
  arrival: heaps of up to three levels and trees of every shape of four nodes.

### Fairness

Threads are scheduled: weak fairness of each thread's steps inside a call. A
mutex passes nobody over for ever: strong fairness of `Acquire`, where others may
take it again and again (`BufferQueue`, `MutableThread`, `MapReduce`); in
`Latch`, `Barrier` and `FlexBarrier` the calls are bounded and weak fairness is
enough. Nothing obliges a client to call, with these exceptions, each of them
part of what the property is about: in the barriers every thread that takes part keeps arriving;
in `lf_live` consumers go on popping (strong fairness of the start of a
pop), as an element nobody asks for stays; in `QueueEnds` a call on a front takes
effect if it can again and again (`Serve`), which is the liveness of the queue
that `CloseReleases` shows for `buffer_queue`, and a release that was begun is
finished. Functions handed to `mutable_thread`, mappers and reducers return.
`Dedup` and `Pipeline` do finite work, so that it is enough for both that some
thread that can run does (weak fairness of `Next`). For `SerialExecutor`:
weak fairness of the runner, which includes that a function returns, and of the
join. The destructors of `SerialExecutor` and the pool need not be called.

## 4. Proofs

TLC checks small instances; the theorems below are checked by TLAPS and hold for
every value of the constants: any number of threads, slots, elements, phases and
calls, any capacity, and every choice of the environment a constant stands for,
unless a hypothesis says otherwise. The constants satisfy the named assumptions
of their modules (`ThreadsAssumption`, `MaxElemsAssumption`, `CountAssumption`,
`CardinalityAssumption`, `EndsAssumption`, `CounterAssumption`, `PoolAssumption`,
`PlansAssumption`, `MainAssumption`,
`ElemsAssumption`, `StreamAssumption`, `InputsAssumption`, ...): finitely many threads, finitely many elements
of the priority queue, each with a number, names that stand for "nobody" and
"nothing" are no threads and no elements, sizes are at least what the
constructors demand, a plan begins and ends as the operators of `pipeline.h` let it.
TLC evaluates each of them in a run.

| Component | Theorem | Says | Hypotheses |
|---|---|---|---|
| `buffer_queue` | `TypeCorrect`, `LockCorrect` | indexes stay in the ring and counters at or above zero; mutex and wait sets agree with where the threads are | |
| | `CountersCorrect` | the waiting counters never undercount the blocked threads | |
| | `NoLostWakeupCorrect` | every free slot (element) has an awake blocking push (pop) for it while one is blocked | |
| | `ClosedCorrect` | nobody is blocked on a closed queue | |
| | `QueueImplements` | `Spec => ImplementsBoundedQueue`: it is a closable FIFO | |
| `latch` | `GateCorrect` | nobody passes before zero | |
| | `WaitingCovers` | `waiting_` covers the threads inside a blocking call | |
| | `DestroySafe` | nobody is inside when the destructor returns | |
| `barrier` | `BarrierSyncCorrect` | nobody leaves a phase, nor the destructor, early | |
| `flex_barrier` | `SyncCorrect` | phases do not overlap, whatever the completion function does | |
| | `AccountingCorrect` | `num_waiting_` and `num_to_leave_` are exact | |
| | `DestroyAfterDepartureCorrect` | the destructor outlasts every waiter | |
| `lock_free_buffer_queue` | `PopsCorrect` | a pop copies the element of the index it reserved, alone | `~ReorderLoads` |
| | `TruthfulCorrect` | empty and full are true at some moment of the call | `~ReorderLoads` |
| | `NoOrphanCorrect` | every waiting slot in the window has a push that will fill it | `~ReorderLoads`, `~WeakFails`, `OneSkipper` |
| counters | `ConservationCorrect` | every count is in one place or was returned once | |
| | `NoDanglingBrokerCorrect` | queries visit living brokers only | |
| | `LoadInBoundsCorrect` | the load of a weak counter is between two values the counter had | `Amounts \subseteq Nat` |
| queue ends | `NoDanglingEndCorrect` | no end refers to a deleted queue | |
| | `LastEndClosesCorrect` | no back, or no front, left: the queue is closed or about to be | |
| `pipeline` | `BarrierSpansExitCorrect` | the barrier is there from the first worker's exit until the last is out; `wait()` and `~execution` return after that | |
| `mutable_thread` | `RunningUndisturbedCorrect` | the function under way stays in its slot | |
| | `NoLostWakeupCorrect` | the worker does not sleep on work, nor through a `join` | |
| `simple_thread_pool` | `OneOwnerCorrect` | one owner per thread, each deleted once | `~LateCalls` |
| `serial_executor` | `BegunInTimeCorrect` | first in, first out, one at a time, at most one begun after the shutdown | |
| `concurrent_priority_queue` | `HighestFirstCorrect` | a pop takes the most urgent element there is, and nobody is left blocked while there are elements | |
| `stream_mutex` | `StatementsWholeCorrect` | statements of different threads do not mix | |
| `map_reduce` | `HelpersGoneCorrect` | no helper uses a latch that `run()` has destroyed | |
| | `EveryInputMappedCorrect` | all input is mapped, and but for the first each once | `Mappers # {}` |
| | `ReducedOnceCorrect` | every key that was not skipped is reduced once | `Reducers # {}` |
| compressor | `BuffersCounted` | a buffer's count is the number of chunks that use its memory | |
| | `SerialImplemented` | `Spec => ImplementsSerial`: the records written are those of the serial build | |
| | `AlwaysDecodes` | what is written decodes to the beginning of the input | |

The hypotheses are the cases that section 5 describes, in which the code does
something else (`ReorderLoads`, `WeakFails`, two consumers and a throwing
assignment, `LateCalls`), a reading of the property (a count is between two
others only if nobody subtracts) or an empty pool of helpers, which `map_reduce`
does not mean to have. `Conservation` makes its own exception: a strong
broker that an exchange drains during its destructor (`raced`).

### The inductive invariants

No property of the table is inductive by itself. What it needs:

* `BufferQueue`: `TypeOK`, `LockInv`, `CountersCoverWaiters`, `ClosedWakesAll`,
  `NoLostWakeup`. That a pop which frees a slot notifies when somebody waits needs
  the counter to be positive, hence `CountersCoverWaiters`; that the notifier's decrement
  leaves that true needs the notified thread to leave the wait set in the
  same step, and that nobody else is inside the critical section, which is
  `LockInv`. `ClosedWakesAll` needs that whoever goes to wait has seen
  the queue open under the same lock. Pushes and pops are symmetric, and so are the
  lemmas (`NotifyFullEffect`, `NotifyEmptyEffect`, `BodyShape`, `LeavesShape`).
* `BufferQueue` implements `BoundedQueue`: `ArgInv` says that a thread on its way
  to push has an element. `ContentsFacts` describes the elements between the indexes
  (`SlotOf`: a row that may wrap round the ring), `ContentsAppend` and
  `ContentsTail` what `push_at` and `pop_from` do to it; then each action is one
  abstract step or none, case by case (`PopImplements`, `PushImplements`, ...).
* `Latch`: `TypeOK`, `PlaceInv`, `LockInv`, `Gate`, `WaitingCoversInside`,
  `LifeInv`. The destructor spins until `waiting_` is zero, so that it must cover
  everybody inside from before the lock is asked for until after it is given back.
* `Barrier`: while `num_to_leave_` is zero a phase gathers (`GatherInv`: the threads are level),
  while it is not the phase empties (`LeaveInv`: it counts those still to leave);
  `DropInv` ties `thread_count_` to who takes part and `BLifeInv` the destructor to an emptying barrier.
  `GatherInv` has a second disjunct for the phase that nobody was the
  last to leave (section 5): it keeps the barrier shut, which is safe.
* `FlexBarrier`: `Types`, `WaitInv`, `CountInv` (with `Accounting` and `Sync`),
  `StrayInv` for threads that threw out of their phase and remain counted, `LifeInv`.
* `LockFreeBufferQueue`: `Core` says for every place in `pop` and `push` what the
  thread knows of the slot it works on (`PlaceAt`, `OwnAt`, `FillAt`, ...), that an index is won by one
  pop and one push (`ApartInv`) and that valid slots in the window hold their elements
  (`WindowInv`). `SeenInv` records what a call has seen of the indexes.
  `OrphanInv` adds `SkipsInv`: a pop that nobody overtakes is at `head_`
  until it has taken or skipped its slot.
* `Counter`: `Types`, `BrokerInv`, `QueryInv`, `NoDanglingBroker`, `DyingInv` (a dying
  broker's count is the one its destructor has read) and `Conservation`, an
  equation of four sums; for `LoadInBounds`, `WeakInv`: what a query
  found at its start is at most what it has and what it will still visit, and what it
  has is at most what the brokers it has visited hold. The sums are recursive
  functions of sets. What holds of them is shown by a least counterexample
  (`LeastSet`, from the well-founded order of the subsets of a finite set):
  that the fold is well defined (`SumDef`), that the order does not matter
  (`AddsUpAnyOrder`), and what changing, removing or raising summands does
  (`SumChange`, `SumRemove`, `SumMonotone`).
* `QueueEnds`: `EndsTypes`, `EndsCounts` (the counts are exact), `EndsGone` (where no end
  of a kind is left none comes back) and `LastEndCloses`.
* `Pipeline`: two halves. About plans, `WorkersNamed`: no two workers of a plan have the
  same name, so the number the barrier is created with, the length of a list that
  `FlattenSeq` puts together, is the number of threads that will come to it. It goes from
  the replicas to the segments to the plan (`ParallelNames`, `SegmentNames`), each time by
  `Flattening`: names stay unique if they are so in each part and no two parts share
  one. What `FlattenSeq`'s recursive function computes is shown by a least
  counterexample (`LeastIndex`, `JoinsExists`, `Joint`).
  About the execution, `LaunchInv` (who has been given work is just the first `executed`
  of the list, and the latch holds them until all have theirs), `WorkInv` (who is in the
  barrier has left its loop), `GatherInv` (in phase 0 only workers are in the barrier, those
  that wait are counted, and it was made for all of them: it completes when all are
  gone, so `done_` and `end_` are set after that) and `LeaveInv` (from then on
  `num_to_leave_` counts the workers still to be woken, nobody can be left in the lock's
  queue but the caller, and the caller, who needs the mutex and `num_to_leave_ = 0`, gets
  its single-thread phase only when every worker has unlocked). The instance of
  `FlexBarrier` is used by its steps, not by its theorems: those are for a thread count
  fixed at the start, this barrier is created once the plan's count is known.
* `MutableThread`: `TypeOK`, `CallInv`, `MutexInv`, `Apart` (no function is in two
  places), `SlotInv` (what the slots hold at each place of the worker), `NoLostWakeup`.
* `SimpleThreadPool`: `PoolTypeInv`, `PoolOwnership` (a thread is a user's or in one
  set), `PoolWalkInv` (the destructor has deleted just what it has visited).
* `SerialExecutor`: what was submitted is what was begun followed by the queue.
* `PriorityQueue`: `HeapTypes`, `HeapInv` (a heap under the comparator, until an
  assignment throws), `AwakeInv`. The root of a heap is the most urgent element because
  of the elements that are more urgent than it one would have the least index
  (`LeastIndex`), and so a less urgent parent (`RootIsFirst`); what any rearrangement keeps,
  and what `pop_heap` leaves, are `Arranged` and `Popped`.
* `StreamMutex`: `MapInv` (one mutex per stream), `HoldInv` (who is inside of a statement
  holds the mutex at least as deep), `TurnInv` (what the holder wrote in this turn is
  the end of the output).
* `MapReduce`: `MLatchInv`, `RLatchInv` (a latch's count is the number of threads
  yet to take one off it), `ControlInv` (the stage of `run()` against the latches and helpers), `IterInv`,
  `InputInv`, `SoleInv` (who has which input), `TasksInv` with `OnePlace` (a key
  is in one task, iterator or hand or has been reduced, never in two of them) and
  `KeysInv` with `Somewhere` (and in one from the shuffle on, unless it was skipped).
* `Dedup`, its memory: `MemInv`. All that leads to a stage, its queues and the
  threads' `recv_buf`s and `send_buf`s, is one family of sequences (`At`): its
  contents (`Content`), and that no two of its elements are the same or overlap (`Separate`), are
  what queue operations in batches keep (`Moving`, `Adding`, `Dropping`, `Fronting`).
  `HandInv`, `CoarseInv` and `ChunkInv` say that chunks are numbered in the order of their places
  in the input (`Number`); `SepInv` and `FineInv` that each is on its way to one stage,
  once, and how far it has got. So the holders of a buffer are distinct places, of
  which each step adds or takes away at most the one that it counts
  (`RefsGain`, `RefsLose`).
* `Dedup` implements `SerialDedup`: `SerialInv` adds `AnchorsInv` (a count in
  `chunks_per_anchor` is the true one), `ListsInv` (no contents twice in the hash
  table), `FoundInv` (what a search found under the bucket's lock is still what it would find),
  `CacheInv` (an entry is flushed just when its data are in the file) and `TurnInv`: only the next
  place of the input can have the number that Reorder waits for (`NumberFollows`),
  whether or not it knows yet that the anchor has ended. Then `ReorderWrite` is
  the step of the serial build (`WriteRefines`) and every other step stutters.
  That the file decodes (`AlwaysDecodes`) needs `OutInv` besides.

Each was checked by TLC on the run's constants before it was proved. A proof
has one lemma per part of the invariant and one step per action; what a step leaves
alone is stated once (`CounterFrame`, `ReaderFrame`, `BodyShape`, ...).

What a theorem about an instance has to do with the runs: `UnitCorrect`
(`AtomicsProofs`) shows that the behaviours TLC explores in `atomics` are
behaviours of the counter as far as its variables go. The other `MC` modules have
the same form.

### Only model-checked

* All liveness properties (`CloseReleases`, `DestroyReturns`, `FirstPhaseEnds`,
  `PhaseEmpties`, `AllConsumed`, `ConsumersEnd`, `Reclaimed`, `JoinReturns`,
  `RunnerAwake`, `RunReturns`, `EncodeEnds`, `ExecutionEnds`): fairness and
  `ENABLED` are beyond the prover.
* `WrittenInOrder`: `Reorder` walks its search tree and its heaps by `RECURSIVE`
  operators, about which nothing can be proved here.
* `AllDelivered` of `Pipeline`: not proved (section 7). It compares what arrives with
  what the functions of a whole plan make of the inputs.
* That counters stay within the width of their type (`Integral`): it depends on
  what the clients count.

## 5. What the models show beyond the properties

Observations made while modelling. The first is a violation run; the others can
be reproduced with the configuration named, which is not part of the runs, or by
the change of constants given.

* `ExtractedOnce` (`counters_strong`). `~strong_broker` hands its count over
  before it takes the mutex (`counter.h:622`); an exchange in between drains it
  again, although `counter.h:176` says that every count is extracted by one and
  only one exchange.
* Reuse of `barrier` (`MCLatchBarrier_reuse.cfg`, `EverybodyLeaves`). The last-leaver
  test is made under the mutex but the decrement after it (`barrier.cc:62-67`):
  two leaving threads may both miss being last, or a waiter on `idle_` may be
  notified before its predicate is true, and the next phase never opens. The
  TODO at `barrier.cc:53` suspects it.
* The destructor of `flex_barrier` (`MCFlexBarrier_destroy.cfg`,
  `NoUseAfterDestroy`) may finish while the last thread still has to release
  `mutex_` (`flex_barrier.cc:62`).
* The destructor of `latch` (`MCLatchBarrier_overcount.cfg`, `DestroyAlwaysReturns`)
  spins for ever after a `count_down_and_wait` that threw (`latch.cc:70`).
* Two consumers of `lock_free_buffer_queue` (`MCLockFreeBufferQueue_orphan.cfg`,
  `NoOrphanSlot`) can strand a slot after a push that throws. With
  `WeakFails = TRUE` one consumer is enough, and with `ReorderLoads = TRUE`
  (two producers, one consumer, one slot, `MaxTail = 3`) `WindowOK` fails.
* The last front and the last back of a shared queue may both delete it
  (`MCPipeline_delete.cfg`, `DeletedOnce`; `queue_base.h:413`, `:498`).
* `mutable_thread`: two calls of `execute` that saw the same free slot, or one
  that fills a slot between the two swaps of `finish_run`, lose a function
  (`NothingOverwritten`, against `mutable_thread.h:58`); `join` does not wait for
  queued work (`JoinWaitsForWork`, against `mutable_thread.h:49`). Both are
  stated in `MutableThread` and fail with the constants of `MCLocked.cfg`.
* `buffer_queue`: a push whose assignment throws closes the queue
  (`buffer_queue.h:97`), where the proposal `n3533.html` leaves the queue open.
* `map_reduce`: the input that the iterator given to `run()` already holds is
  mapped by every mapper; the comparison with `prev_iter == end()` can skip the
  first key (`map_reduce.h:170`); an input without any key throws out of `run()`
  from the constructor of a queue of no elements; `run()` hangs if the pool lacks
  a thread for a helper, whose absence nobody notices (`map_reduce.h:118`).
* `simple_thread_pool` (`MCLocked_late.cfg`, `OneOwner`): the comment at
  `simple_thread_pool.cc:47` says that no operation takes effect once the destructor has begun, but
  only `try_get_unused_thread` looks at the flag. A thread donated while the sets
  are walked is deleted twice or never. Nothing in the library calls it that late.
* `stream_mutex` (`MCLocked_throw.cfg`, `NothingLeftLocked`): when the first
  insertion of a statement throws, there is no guard yet and the stream stays
  locked (`stream_mutex.h:99`). Statements nested on two streams in opposite
  orders deadlock, as with any two locks; the model has one stream per run.
* `concurrent_priority_queue`: an assignment that throws leaves the element at the
  back of a container that is no heap until `update` makes one
  (`concurrent_priority_queue.h:200`).
* `pipeline`: a function that pops for itself is called while `!is_closed()`
  (`pipeline.h:213`); what is still in a closed queue is dropped. A pool that has
  no thread to give makes `pipeline.h:105` dereference a null pointer.
* The compressor (`MCDedup_anchors.cfg`, `ArrayCoversAnchors`): the array of chunk
  counts is doubled only once for a chunk number beyond its end
  (`encoder.c:1238`); from its real first size, 1024, this needs thousands of coarse
  chunks far out of order. `MCDedup_deadlock.cfg`: with small queues the stages can wait on
  each other in a circle, the last one for a chunk that a thread upstream keeps
  in a partly filled buffer (`encoder.c:576`); `QUEUE_SIZE` is 2^20 in the code.
  The field `pmin` of `tree.c` is never set.
* `counter.h:669` registers brokers inside `assert()`; the model is of the build
  with assertions.

## 6. Not modelled

* `pipeline`: parallel segments inside parallel segments, functions that throw, and
  a pool without a free thread.
* `concurrent_priority_queue`: copy, assignment, swap and the unlocked `size` and
  `empty`, which the header leaves to the caller to protect.
* The compressor: Rabin fingerprints (where chunks are cut is given), SHA1 and
  compression (taken as injective), the growth of the hash table (not compiled in),
  preloading, statistics, I/O errors.
* A reducer of `map_reduce` that throws ends the program.
* `counter_array` and the array brokers repeat the protocol of the single
  counters per element.
* The iterators and wrappers of `queue_base.h` forward calls; the assignment
  operators of the shared ends do not compile when used and are left out.
* `source`, `iterator_queue`, `scoped_guard`, `dynarray`, debug output: no shared
  state.
* The tests, `archive/` (the C++98 emulation of the standard threads), `samples/blackscholes`
  (threads that share nothing) and `third_party/`.
* Weak memory, except for the two relaxed loads of `ReorderLoads`: other
  atomic accesses take effect in program order. The counters and the lock-free
  queue use relaxed and acquire/release accesses, whose further reorderings
  are not explored.
* Overflow of the 64-bit indexes and of counters, and allocation failure.

## 7. Plan

Done: every component with state that threads share has a module and a run. Every
safety property of the runs is proved, except those that section 4 lists as
only model-checked, and so are both refinements, of `BoundedQueue` by `BufferQueue`
and of `SerialDedup` by `Dedup`.

Open, in this order:

1. `AllDelivered` of `Pipeline`: for every queue, what has gone through it as the
   functions before it make it, segment by segment.
2. An abstract cyclic barrier that `FlexBarrier` implements, in its place in
   `Pipeline`.
3. Parallel segments inside parallel segments, and functions that throw.
