--------------------------- MODULE SerialExecutor ---------------------------
(***************************************************************************)
(* gcl::serial_executor (src/serial_executor.cc): a thread that runs the   *)
(* functions it is given one after another.  Its destructor drops what is  *)
(* queued and joins the thread; other threads, and the running function    *)
(* itself, may go on calling execute until the join is over.               *)
(*                                                                         *)
(* What is done under queue_lock is one step; the loop's own test of       *)
(* shutting_down is made without the lock.                                 *)
(***************************************************************************)
EXTENDS Naturals, Sequences, SequencesExt

CONSTANTS
    Jobs,        \* the functions, each handed over once
    NoJob

VARIABLES
    function_queue, shutting_down,
    runner,      \* where run() is: at its "test", about to "lock", "blocked" on
                 \* queue_condvar, "running" a function, at the "end"
    job,         \* the function it runs
    submitted, started,   \* in which order functions were queued and begun
    executor     \* "alive", "joining" (in the destructor) or "destroyed"

vars == <<function_queue, shutting_down, runner, job, submitted, started, executor>>

Init ==
    /\ function_queue = <<>> /\ shutting_down = FALSE
    /\ runner = "test" /\ job = NoJob
    /\ submitted = <<>> /\ started = <<>>
    /\ executor = "alive"

\* queue_condvar.notify_one(): only run() waits.
Notified == IF runner = "blocked" THEN "lock" ELSE runner

\* By any thread, or by the function that is running.
execute(j) ==
    /\ executor # "destroyed" /\ j \notin ToSet(submitted)
    /\ function_queue' = Append(function_queue, j)
    /\ submitted' = Append(submitted, j)
    /\ runner' = Notified
    /\ UNCHANGED <<shutting_down, job, started, executor>>

\* while (!shutting_down): a read that races with the destructor's write may
\* still see the old value.
Test ==
    /\ runner = "test"
    /\ \/ runner' = "lock"
       \/ shutting_down /\ runner' = "end"
    /\ UNCHANGED <<function_queue, shutting_down, job, submitted, started, executor>>

queue_ready == function_queue # <<>> \/ shutting_down

\* wait() finds the queue not ready and releases the lock.
Block ==
    /\ runner = "lock" /\ ~queue_ready
    /\ runner' = "blocked"
    /\ UNCHANGED <<function_queue, shutting_down, job, submitted, started, executor>>

\* Mutant: what is queued is run although the executor is shutting down.
Fetch_Always ==
    /\ runner = "lock" /\ queue_ready
    /\ IF function_queue = <<>> THEN runner' = "end" /\ UNCHANGED <<function_queue, job, started>>
       ELSE /\ runner' = "running" /\ job' = Head(function_queue)
            /\ started' = Append(started, job')
            /\ function_queue' = Tail(function_queue)
    /\ UNCHANGED <<shutting_down, submitted, executor>>

\* It is ready: for the end, which the loop's test now sees as well, or with
\* a function, which is run after the lock is released.
Fetch ==
    /\ runner = "lock" /\ queue_ready
    /\ IF shutting_down THEN runner' = "end" /\ UNCHANGED <<function_queue, job, started>>
       ELSE /\ runner' = "running" /\ job' = Head(function_queue)
            /\ started' = Append(started, job')
            /\ function_queue' = Tail(function_queue)
    /\ UNCHANGED <<shutting_down, submitted, executor>>

SpuriousWakeup ==
    /\ runner = "blocked"
    /\ runner' = "lock"
    /\ UNCHANGED <<function_queue, shutting_down, job, submitted, started, executor>>

\* run_function() returns.
Return ==
    /\ runner = "running"
    /\ runner' = "test" /\ job' = NoJob
    /\ UNCHANGED <<function_queue, shutting_down, submitted, started, executor>>

\* Mutant: the destructor does not notify.
Destroy_NoNotify ==
    /\ executor = "alive"
    /\ shutting_down' = TRUE /\ function_queue' = <<>>
    /\ executor' = "joining"
    /\ UNCHANGED <<runner, job, submitted, started>>

\* ~serial_executor up to run_thread.join().
Destroy ==
    /\ executor = "alive"
    /\ shutting_down' = TRUE /\ function_queue' = <<>>
    /\ runner' = Notified
    /\ executor' = "joining"
    /\ UNCHANGED <<job, submitted, started>>

Joined ==
    /\ executor = "joining" /\ runner = "end"
    /\ executor' = "destroyed"
    /\ UNCHANGED <<function_queue, shutting_down, runner, job, submitted, started>>

RunnerStep == Test \/ Block \/ Fetch \/ Return

Next == (\E j \in Jobs : execute(j)) \/ RunnerStep \/ SpuriousWakeup \/ Destroy \/ Joined

Spec == Init /\ [][Next]_vars

\* The thread is scheduled and its functions return; the destructor's join
\* comes back once the thread has ended.
LiveSpec == Spec /\ WF_vars(RunnerStep) /\ WF_vars(Joined)

-----------------------------------------------------------------------------

\* The destructor "drops any future execution" (serial_executor.cc:34): once
\* it has taken the lock no function is begun, not even one that was handed
\* over later and is still in the queue; and before that functions begin in
\* the order in which they were handed over, none of them skipped.
BegunInTime ==
    [][/\ shutting_down => started' = started
       /\ ~shutting_down => submitted = started \o function_queue]_vars

\* The thread never sleeps through work or through the end: while the executor
\* lives its queue is empty again and again, and the destructor comes back.
RunnerAwake == []<>((executor = "alive" /\ function_queue = <<>>) \/ executor = "destroyed")
=============================================================================
