---------------------------- MODULE MutableThread ----------------------------
(***************************************************************************)
(* gcl::mutable_thread (src/mutable_thread.cc): a thread that sleeps until *)
(* it is given work, with one slot for the function it runs and one for a  *)
(* function queued behind it.  Clients fill the slots under                *)
(* thread_state_mu_, but look at them first without it; the worker empties *)
(* them in finish_run without the mutex too, one swap at a time.           *)
(*                                                                         *)
(* A swap of a std::function is taken as one step: the program has a data  *)
(* race there, and anything finer would be undefined behaviour.            *)
(***************************************************************************)
EXTENDS Naturals, FiniteSets

CONSTANTS
    Clients,   \* the threads that call the mutable_thread
    Worker,    \* its own thread t_
    Tasks,     \* the functions, each handed over at most once
    NoTask,    \* an empty function
    NoThread

Threads == Clients \cup {Worker}

ASSUME ThreadsAssumption == Worker \notin Clients /\ NoThread \notin Threads
ASSUME TasksAssumption   == IsFiniteSet(Tasks) /\ NoTask \notin Tasks

VARIABLES
    thread_state_,     \* RUNNING is tested for but never stored
    run_fn_, queued_fn_,
    thread_state_mu_,  \* the thread that holds the mutex, or NoThread
    pc,
    op,                \* the call a client is in
    fn,                \* its argument
    handed,            \* the tasks that have been handed over
    started,           \* the tasks the worker has started, with how often
    life               \* of the object: "alive" or "destroyed"

slots  == <<run_fn_, queued_fn_>>
client == <<op, fn, handed>>
vars   == <<thread_state_, slots, thread_state_mu_, pc, client, started, life>>

Goto(t, p) == pc' = [pc EXCEPT ![t] = p]

\* The constructors: the one that takes a function executes it before the
\* worker exists.
Init ==
    /\ thread_state_ = "IDLE"
    /\ run_fn_ \in Tasks \cup {NoTask} /\ queued_fn_ = NoTask
    /\ thread_state_mu_ = NoThread
    /\ pc = [t \in Threads |-> IF t = Worker THEN "thread_wait" ELSE "out"]
    /\ op = [c \in Clients |-> "none"]
    /\ fn = [c \in Clients |-> NoTask]
    /\ handed = {run_fn_} \ {NoTask}
    /\ started = [t \in Tasks |-> 0]
    /\ life = "alive"

is_joining == thread_state_ = "JOINING"
is_done    == thread_state_ \in {"DONE", "JOINED"}
Full       == run_fn_ # NoTask /\ queued_fn_ # NoTask

Acquire(t) ==
    /\ thread_state_mu_ = NoThread
    /\ \/ t = Worker /\ pc[t] = "thread_wait" /\ Goto(t, "ready_to_continue")
       \/ pc[t] = "lock" /\ op[t] = "execute" /\ Goto(t, "which")
       \/ pc[t] = "lock" /\ op[t] = "try_execute" /\ Goto(t, "is_done")
       \/ pc[t] = "lock" /\ op[t] = "join" /\ Goto(t, "JOINING")
    /\ thread_state_mu_' = t
    /\ UNCHANGED <<thread_state_, slots, client, started, life>>

-----------------------------------------------------------------------------
(* The clients.  join is called once, by whoever is done with the thread,  *)
(* also while others still try to hand over work.                          *)

Call(c) ==
    /\ pc[c] = "out" /\ life = "alive"
    /\ \/ \E t \in Tasks \ handed, o \in {"execute", "try_execute"} :
            /\ op' = [op EXCEPT ![c] = o]
            /\ fn' = [fn EXCEPT ![c] = t]
            /\ handed' = handed \cup {t}
            /\ Goto(c, "test")
       \/ /\ thread_state_ # "JOINED" /\ \A d \in Clients : op[d] # "join"
          /\ op' = [op EXCEPT ![c] = "join"]
          /\ Goto(c, "lock")
          /\ UNCHANGED <<fn, handed>>
    /\ UNCHANGED <<thread_state_, slots, thread_state_mu_, started, life>>

\* The client returns; a client that holds the mutex unlocks it.
Return(c) ==
    /\ op' = [op EXCEPT ![c] = "none"]
    /\ fn' = [fn EXCEPT ![c] = NoTask]
    /\ thread_state_mu_' = IF thread_state_mu_ = c THEN NoThread ELSE thread_state_mu_
    /\ Goto(c, "out")
    /\ UNCHANGED handed

\* try_execute gives up if both slots are taken, execute spins.  The reads are
\* one step: that a slot is free was true when the deciding one was made, and
\* after the others execute only spins once more.
Test(c) ==
    /\ pc[c] = "test"
    /\ \/ op[c] = "try_execute" /\ Full /\ Return(c)
       \/ op[c] = "try_execute" /\ ~Full /\ Goto(c, "lock") /\ UNCHANGED <<thread_state_mu_, client>>
       \/ op[c] = "execute" /\ (~Full \/ is_done \/ is_joining)
            /\ Goto(c, "is_done") /\ UNCHANGED <<thread_state_mu_, client>>
    /\ UNCHANGED <<thread_state_, slots, started, life>>

\* is_done() || is_joining(): two reads of thread_state_, which may go from
\* JOINING to DONE in between.
AskDone(c) ==
    /\ pc[c] = "is_done"
    /\ IF is_done THEN Return(c)
       ELSE Goto(c, "is_joining") /\ UNCHANGED <<thread_state_mu_, client>>
    /\ UNCHANGED <<thread_state_, slots, started, life>>

AskJoining(c) ==
    /\ pc[c] = "is_joining"
    /\ IF is_joining THEN Return(c)
       ELSE /\ Goto(c, IF op[c] = "execute" THEN "lock" ELSE "which")
            /\ UNCHANGED <<thread_state_mu_, client>>
    /\ UNCHANGED <<thread_state_, slots, started, life>>

\* Mutant: a queued function goes to the free slot, which was looked for
\* before the mutex was taken.
Which_Stale(c) ==
    /\ pc[c] = "which"
    /\ \/ Goto(c, "run_fn_")
       \/ run_fn_ # NoTask /\ Goto(c, "queued_fn_")
    /\ UNCHANGED <<thread_state_, slots, thread_state_mu_, client, started, life>>

\* With the mutex held: is run_fn_ empty?
Which(c) ==
    /\ pc[c] = "which"
    /\ Goto(c, IF run_fn_ = NoTask THEN "run_fn_" ELSE "queued_fn_")
    /\ UNCHANGED <<thread_state_, slots, thread_state_mu_, client, started, life>>

\* thread_paused_cond_.notify_one(), as c leaves its critical section.
NotifyAndGoto(c, p) ==
    pc' = [pc EXCEPT ![c] = p,
                     ![Worker] = IF @ = "blocked" THEN "thread_wait" ELSE @]

\* Mutant: the worker is notified only of a function that was queued.
Fill_NoNotify(c) ==
    /\ \/ pc[c] = "run_fn_" /\ run_fn_' = fn[c] /\ UNCHANGED queued_fn_ /\ Goto(c, "out")
       \/ pc[c] = "queued_fn_" /\ queued_fn_' = fn[c] /\ UNCHANGED run_fn_
          /\ NotifyAndGoto(c, "out")
    /\ op' = [op EXCEPT ![c] = "none"]
    /\ fn' = [fn EXCEPT ![c] = NoTask]
    /\ thread_state_mu_' = NoThread
    /\ UNCHANGED <<thread_state_, handed, started, life>>

\* The swap into the chosen slot; what was there goes away with the argument.
Fill(c) ==
    /\ \/ pc[c] = "run_fn_" /\ run_fn_' = fn[c] /\ UNCHANGED queued_fn_
       \/ pc[c] = "queued_fn_" /\ queued_fn_' = fn[c] /\ UNCHANGED run_fn_
    /\ NotifyAndGoto(c, "out")
    /\ op' = [op EXCEPT ![c] = "none"]
    /\ fn' = [fn EXCEPT ![c] = NoTask]
    /\ thread_state_mu_' = NoThread
    /\ UNCHANGED <<thread_state_, handed, started, life>>

\* Mutant: join does not notify the worker.
join_NoNotify(c) ==
    /\ pc[c] = "JOINING"
    /\ thread_state_' = "JOINING"
    /\ Goto(c, "t_->join")
    /\ thread_state_mu_' = NoThread
    /\ UNCHANGED <<slots, client, started, life>>

join(c) ==
    /\ pc[c] = "JOINING"
    /\ thread_state_' = "JOINING"
    /\ NotifyAndGoto(c, "t_->join")
    /\ thread_state_mu_' = NoThread
    /\ UNCHANGED <<slots, client, started, life>>

Joined(c) ==
    /\ pc[c] = "t_->join" /\ pc[Worker] = "end"
    /\ thread_state_' = "JOINED"
    /\ Return(c)
    /\ UNCHANGED <<slots, started, life>>

\* The destructor, once nobody is in a call, of a thread that was joined: one
\* that was not is joined first.
Destroy ==
    /\ life = "alive" /\ is_done
    /\ \A c \in Clients : pc[c] = "out"
    /\ life' = "destroyed"
    /\ UNCHANGED <<thread_state_, slots, thread_state_mu_, pc, client, started>>

-----------------------------------------------------------------------------
(* The worker.                                                             *)

\* Under the mutex: one turn of the wait, and the test after it.
thread_wait ==
    /\ pc[Worker] = "ready_to_continue"
    /\ \/ (is_joining \/ is_done) /\ Goto(Worker, "DONE")
       \/ ~(is_joining \/ is_done) /\ run_fn_ # NoTask /\ Goto(Worker, "run_fn_()")
       \/ ~(is_joining \/ is_done) /\ run_fn_ = NoTask /\ Goto(Worker, "blocked")
    /\ thread_state_mu_' = NoThread
    /\ UNCHANGED <<thread_state_, slots, client, started, life>>

SpuriousWakeup ==
    /\ pc[Worker] = "blocked"
    /\ Goto(Worker, "thread_wait")
    /\ UNCHANGED <<thread_state_, slots, thread_state_mu_, client, started, life>>

Run ==
    /\ pc[Worker] = "run_fn_()"
    /\ started' = [started EXCEPT ![run_fn_] = @ + 1]
    /\ Goto(Worker, "running")
    /\ UNCHANGED <<thread_state_, slots, thread_state_mu_, client, life>>

\* The function returns; is another one queued?
FinishRun ==
    /\ pc[Worker] = "running"
    /\ Goto(Worker, IF queued_fn_ # NoTask THEN "swap" ELSE "clear run_fn_")
    /\ UNCHANGED <<thread_state_, slots, thread_state_mu_, client, started, life>>

\* Mutant: the function that has run stays in queued_fn_.
SwapQueued_Only ==
    /\ pc[Worker] = "swap"
    /\ run_fn_' = queued_fn_ /\ queued_fn_' = run_fn_
    /\ Goto(Worker, "thread_wait")
    /\ UNCHANGED <<thread_state_, thread_state_mu_, client, started, life>>

SwapQueued ==
    /\ pc[Worker] = "swap"
    /\ run_fn_' = queued_fn_ /\ queued_fn_' = run_fn_
    /\ Goto(Worker, "clear queued_fn_")
    /\ UNCHANGED <<thread_state_, thread_state_mu_, client, started, life>>

Clear ==
    /\ \/ pc[Worker] = "clear queued_fn_" /\ queued_fn_' = NoTask /\ UNCHANGED run_fn_
       \/ pc[Worker] = "clear run_fn_" /\ run_fn_' = NoTask /\ UNCHANGED queued_fn_
    /\ Goto(Worker, "thread_wait")
    /\ UNCHANGED <<thread_state_, thread_state_mu_, client, started, life>>

Done ==
    /\ pc[Worker] = "DONE"
    /\ thread_state_' = "DONE"
    /\ Goto(Worker, "end")
    /\ UNCHANGED <<slots, thread_state_mu_, client, started, life>>

WorkerStep == thread_wait \/ Run \/ FinishRun \/ SwapQueued \/ Clear \/ Done

ClientStep(c) ==
    Test(c) \/ AskDone(c) \/ AskJoining(c) \/ Which(c) \/ Fill(c) \/ join(c) \/ Joined(c)

Next ==
    \/ \E t \in Threads : Acquire(t)
    \/ \E c \in Clients : Call(c) \/ ClientStep(c)
    \/ WorkerStep \/ SpuriousWakeup \/ Destroy

Spec == Init /\ [][Next]_vars

\* Threads are scheduled, functions return, and the mutex passes nobody over
\* for ever.  Nothing obliges a client to call.
LiveSpec ==
    /\ Spec
    /\ WF_vars(WorkerStep)
    /\ \A c \in Clients : WF_vars(ClientStep(c))
    /\ \A t \in Threads : SF_vars(Acquire(t))

-----------------------------------------------------------------------------
(* Properties.                                                             *)

TypeOK ==
    /\ thread_state_ \in {"IDLE", "JOINING", "DONE", "JOINED"}
    /\ run_fn_ \in Tasks \cup {NoTask} /\ queued_fn_ \in Tasks \cup {NoTask}
    /\ thread_state_mu_ \in Threads \cup {NoThread}
    /\ pc \in [Threads -> {"out", "test", "is_done", "is_joining", "lock", "which", "run_fn_",
                           "queued_fn_", "JOINING", "t_->join", "thread_wait",
                           "ready_to_continue", "blocked", "run_fn_()", "running", "swap",
                           "clear queued_fn_", "clear run_fn_", "DONE", "end"}]
    /\ op \in [Clients -> {"none", "execute", "try_execute", "join"}]
    /\ fn \in [Clients -> Tasks \cup {NoTask}]
    /\ handed \in SUBSET Tasks
    /\ started \in [Tasks -> 0 .. 1]
    /\ life \in {"alive", "destroyed"}

\* The function the worker calls stays in run_fn_ while it runs: no client,
\* however stale its look at the slots, swaps it away under the worker, and
\* the worker never calls an empty function.
RunningUndisturbed ==
    /\ pc[Worker] = "run_fn_()" => run_fn_ # NoTask /\ started[run_fn_] = 0
    /\ pc[Worker] = "running" => run_fn_ # NoTask /\ started[run_fn_] = 1

\* The worker does not sleep on work in run_fn_ or through a join.
NoLostWakeup ==
    pc[Worker] = "blocked" => run_fn_ = NoTask /\ thread_state_ = "IDLE"

\* A function that has got to run_fn_ is run unless the thread is joined.
RunSlotIsRun ==
    \A t \in Tasks : (run_fn_ = t) ~> (started[t] = 1 \/ thread_state_ # "IDLE")

\* join returns, whatever work there is and whoever still hands over more, and
\* then is_done() stays true.
JoinReturns ==
    \A c \in Clients : (op[c] = "join") ~> [](thread_state_ = "JOINED")

\* "execute ... blocks until there is an empty spot to queue up for execution"
\* (mutable_thread.h): a function handed over is kept until it has run.
NothingOverwritten ==
    [][\A t \in Tasks :
          (t \in {run_fn_, queued_fn_} /\ started[t] = 0) =>
          (t \in {run_fn_', queued_fn_'} \/ started'[t] = 1)]_vars

\* "Will not complete joining until all queued work is completed."
JoinWaitsForWork ==
    thread_state_ = "JOINED" => \A t \in {run_fn_, queued_fn_} \ {NoTask} : started[t] = 1
=============================================================================
