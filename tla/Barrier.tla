------------------------------ MODULE Barrier ------------------------------
(***************************************************************************)
(* gcl::barrier (src/barrier.cc).  mutex_ guards thread_count_ and         *)
(* num_waiting_; num_to_leave_ is atomic, set under the mutex when a phase *)
(* completes, read under it by the two condition-variable predicates and   *)
(* by the last-leaver test, but decremented by a leaving thread after it   *)
(* has released the mutex.  The destructor spins on it.                    *)
(*                                                                         *)
(* Nobody tries the mutex without blocking and a critical section reads    *)
(* num_to_leave_ at most once while a decrement can be pending, so what a  *)
(* thread does between two waits under the mutex is one action, and the    *)
(* decrement is another.                                                   *)
(***************************************************************************)
EXTENDS Integers, FiniteSets

CONSTANTS
    Threads,     \* the threads that share the barrier
    Owner,       \* the thread that destroys it
    MaxPhases,   \* bound: how often each thread arrives
    Drops        \* may threads call arrive_and_drop

\* What the constants have to satisfy.
ConstantsOK ==
    /\ IsFiniteSet(Threads) /\ Owner \in Threads
    /\ MaxPhases \in Nat \ {0} /\ Drops \in BOOLEAN

VARIABLES
    thread_count_,
    num_waiting_,
    num_to_leave_,
    idle_, ready_,  \* the threads blocked on each condition variable
    pc,             \* "out" of the barrier, wanting the "lock", "blocked",
                    \* "woken" from ready_, about to "leave", or "dropped"
    op,             \* the member function a thread is in
    arrived,        \* how often each thread has been counted in num_waiting_
    passed,         \* how often it got past the wait for the others
    life            \* "alive", "destroying", "destroyed"

barrierVars == <<thread_count_, num_waiting_, num_to_leave_, idle_, ready_>>
vars == <<barrierVars, pc, op, arrived, passed, life>>

N == Cardinality(Threads)

TypeOK ==
    /\ thread_count_ \in 0 .. N
    /\ num_waiting_ \in 0 .. N * MaxPhases
    /\ num_to_leave_ \in 0 .. N
    /\ idle_ \in SUBSET Threads
    /\ ready_ \in SUBSET Threads
    /\ pc \in [Threads -> {"out", "lock", "blocked", "woken", "leave", "dropped"}]
    /\ op \in [Threads -> {"none", "arrive_and_wait", "arrive_and_drop"}]
    /\ arrived \in [Threads -> 0 .. MaxPhases]
    /\ passed \in [Threads -> 0 .. MaxPhases]
    /\ life \in {"alive", "destroying", "destroyed"}

Init ==
    /\ thread_count_ = N
    /\ num_waiting_ = 0
    /\ num_to_leave_ = 0
    /\ idle_ = {} /\ ready_ = {}
    /\ pc = [t \in Threads |-> "out"]
    /\ op = [t \in Threads |-> "none"]
    /\ arrived = [t \in Threads |-> 0]
    /\ passed = [t \in Threads |-> 0]
    /\ life = "alive"

-----------------------------------------------------------------------------

all_threads_exited == num_to_leave_ = 0

all_threads_waiting == num_waiting_ = thread_count_

Enter(t, o) ==
    /\ pc[t] = "out"
    /\ life = "alive"
    /\ pc' = [pc EXCEPT ![t] = "lock"]
    /\ op' = [op EXCEPT ![t] = o]
    /\ UNCHANGED <<barrierVars, arrived, passed, life>>

Call(t) ==
    /\ arrived[t] < MaxPhases
    /\ Enter(t, "arrive_and_wait") \/ (Drops /\ Enter(t, "arrive_and_drop"))

\* pc after t goes to p, the threads in R leave ready_'s wait and those in I
\* leave idle_'s: both compete for the mutex and test their predicate again.
Moved(t, p, R, I) ==
    pc' = [u \in Threads |-> IF u = t THEN p
                             ELSE IF u \in R THEN "woken"
                             ELSE IF u \in I THEN "lock" ELSE pc[u]]

\* idle_.wait finds that threads of the last phase are still to leave.
WaitIdle(t) ==
    /\ pc[t] = "lock"
    /\ ~all_threads_exited
    /\ idle_' = idle_ \cup {t}
    /\ Moved(t, "blocked", {}, {})
    /\ UNCHANGED <<thread_count_, num_waiting_, num_to_leave_, ready_, op, arrived, passed, life>>

\* The last thread to arrive starts the departure of everybody; when it is
\* the only one it is also the last to leave.
ArriveLast(t) ==
    /\ num_waiting_ + 1 = thread_count_
    /\ num_to_leave_' = thread_count_
    /\ num_waiting_' = IF thread_count_ = 1 THEN 0 ELSE num_waiting_ + 1
    /\ ready_' = {}
    /\ idle_' = IF thread_count_ = 1 THEN {} ELSE idle_
    /\ Moved(t, "leave", ready_, IF thread_count_ = 1 THEN idle_ ELSE {})
    /\ passed' = [passed EXCEPT ![t] = @ + 1]

ArriveEarly(t) ==
    /\ num_waiting_ + 1 # thread_count_
    /\ num_waiting_' = num_waiting_ + 1
    /\ ready_' = ready_ \cup {t}
    /\ Moved(t, "blocked", {}, {})
    /\ UNCHANGED <<num_to_leave_, idle_, passed>>

\* arrive_and_wait up to the wait for the others.
arrive_and_wait(t) ==
    /\ pc[t] = "lock" /\ op[t] = "arrive_and_wait"
    /\ all_threads_exited
    /\ arrived' = [arrived EXCEPT ![t] = @ + 1]
    /\ ArriveLast(t) \/ ArriveEarly(t)
    /\ UNCHANGED <<thread_count_, op, life>>

\* Mutant: a woken thread does not test all_threads_waiting again.
Woken_NoRecheck(t) ==
    /\ pc[t] = "woken"
    /\ num_waiting_' = IF num_to_leave_ = 1 THEN 0 ELSE num_waiting_
    /\ idle_' = IF num_to_leave_ = 1 THEN {} ELSE idle_
    /\ Moved(t, "leave", {}, IF num_to_leave_ = 1 THEN idle_ ELSE {})
    /\ passed' = [passed EXCEPT ![t] = @ + 1]
    /\ UNCHANGED <<thread_count_, num_to_leave_, ready_, op, arrived, life>>

\* The rest of arrive_and_wait, for a thread woken from ready_.
Woken(t) ==
    /\ pc[t] = "woken"
    /\ IF all_threads_waiting
       THEN /\ num_waiting_' = IF num_to_leave_ = 1 THEN 0 ELSE num_waiting_
            /\ idle_' = IF num_to_leave_ = 1 THEN {} ELSE idle_
            /\ Moved(t, "leave", {}, IF num_to_leave_ = 1 THEN idle_ ELSE {})
            /\ passed' = [passed EXCEPT ![t] = @ + 1]
            /\ UNCHANGED ready_
       ELSE /\ ready_' = ready_ \cup {t}
            /\ Moved(t, "blocked", {}, {})
            /\ UNCHANGED <<num_waiting_, idle_, passed>>
    /\ UNCHANGED <<thread_count_, num_to_leave_, op, arrived, life>>

\* Mutant: a leaving thread forgets the decrement.
Leave_NoDecrement(t) ==
    /\ pc[t] = "leave"
    /\ pc' = [pc EXCEPT ![t] = "out"]
    /\ op' = [op EXCEPT ![t] = "none"]
    /\ UNCHANGED <<barrierVars, arrived, passed, life>>

\* Mutant: the decrement is also made by the last-leaver branch.
Leave_Twice(t) ==
    /\ pc[t] = "leave"
    /\ num_to_leave_' = IF num_to_leave_ = 1 THEN -1 ELSE num_to_leave_ - 1
    /\ pc' = [pc EXCEPT ![t] = "out"]
    /\ op' = [op EXCEPT ![t] = "none"]
    /\ UNCHANGED <<thread_count_, num_waiting_, idle_, ready_, arrived, passed, life>>

\* --num_to_leave_, with the mutex already released.
Leave(t) ==
    /\ pc[t] = "leave"
    /\ num_to_leave_' = num_to_leave_ - 1
    /\ pc' = [pc EXCEPT ![t] = "out"]
    /\ op' = [op EXCEPT ![t] = "none"]
    /\ UNCHANGED <<thread_count_, num_waiting_, idle_, ready_, arrived, passed, life>>

\* Mutant: a drop does not look whether it was the one the others wait for.
arrive_and_drop_NoNotify(t) ==
    /\ pc[t] = "lock" /\ op[t] = "arrive_and_drop"
    /\ all_threads_exited
    /\ thread_count_' = thread_count_ - 1
    /\ Moved(t, "dropped", {}, {})
    /\ op' = [op EXCEPT ![t] = "none"]
    /\ UNCHANGED <<num_waiting_, num_to_leave_, idle_, ready_, arrived, passed, life>>

\* The last thread to drop gets an exception, after the decrement; otherwise
\* a drop may complete the phase for the threads that wait.
arrive_and_drop(t) ==
    /\ pc[t] = "lock" /\ op[t] = "arrive_and_drop"
    /\ all_threads_exited
    /\ thread_count_' = thread_count_ - 1
    /\ IF thread_count_' # 0 /\ num_waiting_ = thread_count_'
       THEN /\ num_to_leave_' = thread_count_'
            /\ ready_' = {}
            /\ Moved(t, "dropped", ready_, {})
       ELSE /\ Moved(t, "dropped", {}, {})
            /\ UNCHANGED <<num_to_leave_, ready_>>
    /\ op' = [op EXCEPT ![t] = "none"]
    /\ UNCHANGED <<num_waiting_, idle_, arrived, passed, life>>

SpuriousWakeup(t) ==
    /\ pc[t] = "blocked"
    /\ idle_' = idle_ \ {t}
    /\ ready_' = ready_ \ {t}
    /\ pc' = [pc EXCEPT ![t] = IF t \in idle_ THEN "lock" ELSE "woken"]
    /\ UNCHANGED <<thread_count_, num_waiting_, num_to_leave_, op, arrived, passed, life>>

\* The Owner, back from a phase that nobody follows with another call, runs
\* the destructor.
Destroy ==
    /\ life = "alive"
    /\ pc[Owner] = "out" /\ passed[Owner] > 0
    /\ \A t \in Threads : pc[t] # "lock" /\ t \notin idle_
    /\ \A t \in Threads : pc[t] \in {"blocked", "woken"} => arrived[t] = passed[Owner]
    /\ life' = "destroying"
    /\ UNCHANGED <<barrierVars, pc, op, arrived, passed>>

\* Mutant: the destructor does not wait.
Destroyed_NoSpin ==
    /\ life = "destroying"
    /\ life' = "destroyed"
    /\ UNCHANGED <<barrierVars, pc, op, arrived, passed>>

Destroyed ==
    /\ life = "destroying"
    /\ all_threads_exited
    /\ life' = "destroyed"
    /\ UNCHANGED <<barrierVars, pc, op, arrived, passed>>

Step(t) ==
    WaitIdle(t) \/ arrive_and_wait(t) \/ Woken(t) \/ Leave(t) \/ arrive_and_drop(t)

Next ==
    \/ \E t \in Threads : Call(t) \/ Step(t) \/ SpuriousWakeup(t)
    \/ Destroy \/ Destroyed

Spec == Init /\ [][Next]_vars

\* A thread inside a member function is scheduled; the clients all arrive.
LiveSpec ==
    /\ Spec
    /\ \A t \in Threads : WF_vars(Step(t)) /\ WF_vars(Call(t))
    /\ WF_vars(Destroyed)

-----------------------------------------------------------------------------

\* No thread gets past its k-th wait before every thread that still takes
\* part has arrived for the k-th time.
Sync ==
    \A t, u \in Threads : pc[u] # "dropped" => passed[t] <= arrived[u]

\* num_to_leave_ accounts for every thread of the phase that is not out yet.
LeaversCounted ==
    num_to_leave_ =
        Cardinality({t \in Threads : pc[t] = "leave"})
        + (IF num_to_leave_ > 0 /\ all_threads_waiting
           THEN Cardinality({t \in Threads : /\ pc[t] \in {"blocked", "woken"}
                                             /\ t \notin idle_}) ELSE 0)

\* When the destructor is done no thread is inside the barrier.
NoUseAfterDestroy ==
    life = "destroyed" => \A t \in Threads : pc[t] \in {"out", "dropped"}

\* Everybody who arrives for the first phase gets past it, whoever drops out
\* and however soon others come back.
FirstPhaseEnds ==
    \A t \in Threads : (arrived[t] = 1 /\ passed[t] = 0) ~> (passed[t] = 1)

\* Everybody who arrives gets out, phase after phase.
EverybodyLeaves ==
    \A t \in Threads : (pc[t] # "out") ~> (pc[t] \in {"out", "dropped"})
=============================================================================
