---------------------------- MODULE FlexBarrier ----------------------------
(***************************************************************************)
(* gcl::flex_barrier (src/flex_barrier.cc): a barrier whose completion     *)
(* function runs once per phase, before anybody leaves, and chooses the    *)
(* thread count of the next phase.  Unlike gcl::barrier it decrements      *)
(* num_to_leave_ under mutex_, so a phase is reset by exactly one thread.  *)
(* The mutex is explicit here because the destructor looks at              *)
(* num_to_leave_ without it: "unlock" is a thread that has done everything *)
(* but release the mutex.                                                  *)
(***************************************************************************)
EXTENDS Integers, FiniteSets

CONSTANTS
    Threads,      \* the threads that share the barrier
    Owner,        \* the thread that destroys it
    NumThreads,   \* the constructor's num_threads
    Completions,  \* what the completion function may return (0: reset throws,
                  \* as it would if the function itself did)
    MaxPhases,    \* bound: how often each thread arrives
    Drops,        \* may threads call arrive_and_drop
    NoThread

ASSUME ThreadsAssumption == IsFiniteSet(Threads) /\ Owner \in Threads /\ NoThread \notin Threads
ASSUME CountAssumption   == NumThreads \in Nat \ {0}
ASSUME CompletionAssumption == Completions \subseteq Int
ASSUME BoundsAssumption  == MaxPhases \in Nat \ {0} /\ Drops \in BOOLEAN

VARIABLES
    thread_count_, new_thread_count_, num_waiting_, num_to_leave_,
    mutex_,         \* the thread that holds it, or NoThread
    idle_, ready_,  \* the threads blocked on each condition variable
    pc,             \* "out", wanting the "lock", "blocked", "woken" from
                    \* ready_, "unlock", "dropped"
    op, arrived, passed,
    phase,          \* how many phases have been completed
    joined,         \* the phase in which each thread arrived last
    thrown,         \* has a completion function thrown
    life            \* "alive", "destroying", "destroyed"

counts == <<thread_count_, new_thread_count_, num_waiting_, num_to_leave_>>
history == <<phase, joined, thrown>>
vars == <<counts, mutex_, idle_, ready_, pc, op, arrived, passed, history, life>>

TypeOK ==
    /\ thread_count_ \in Nat
    /\ new_thread_count_ \in Nat
    /\ num_waiting_ \in 0 .. Cardinality(Threads)
    /\ num_to_leave_ \in 0 .. Cardinality(Threads)
    /\ mutex_ \in Threads \cup {NoThread}
    /\ idle_ \in SUBSET Threads
    /\ ready_ \in SUBSET Threads
    /\ pc \in [Threads -> {"out", "lock", "blocked", "woken", "unlock", "dropped"}]
    /\ op \in [Threads -> {"none", "arrive_and_wait", "arrive_and_drop"}]
    /\ arrived \in [Threads -> 0 .. MaxPhases]
    /\ passed \in [Threads -> 0 .. MaxPhases]
    /\ phase \in Nat
    /\ joined \in [Threads -> Nat]
    /\ thrown \in BOOLEAN
    /\ life \in {"alive", "destroying", "destroyed"}

\* new_thread_count_ is left uninitialised; zero stands for that, which no
\* reset stores.
Init ==
    /\ thread_count_ = NumThreads
    /\ new_thread_count_ = 0
    /\ num_waiting_ = 0
    /\ num_to_leave_ = 0
    /\ mutex_ = NoThread
    /\ idle_ = {} /\ ready_ = {}
    /\ pc = [t \in Threads |-> "out"]
    /\ op = [t \in Threads |-> "none"]
    /\ arrived = [t \in Threads |-> 0]
    /\ passed = [t \in Threads |-> 0]
    /\ phase = 0
    /\ joined = [t \in Threads |-> 0]
    /\ thrown = FALSE
    /\ life = "alive"

-----------------------------------------------------------------------------

all_threads_exited == num_to_leave_ = 0

all_threads_waiting == num_waiting_ = thread_count_

Enter(t, o) ==
    /\ pc[t] = "out"
    /\ life = "alive"
    /\ pc' = [pc EXCEPT ![t] = "lock"]
    /\ op' = [op EXCEPT ![t] = o]
    /\ UNCHANGED <<counts, mutex_, idle_, ready_, arrived, passed, history, life>>

Call(t) ==
    /\ arrived[t] < MaxPhases
    /\ Enter(t, "arrive_and_wait") \/ (Drops /\ Enter(t, "arrive_and_drop"))

\* pc after t goes to p, the threads in R leave ready_'s wait and those in I
\* leave idle_'s.
Moved(t, p, R, I) ==
    pc' = [u \in Threads |-> IF u = t THEN p
                             ELSE IF u \in R THEN "woken"
                             ELSE IF u \in I THEN "lock" ELSE pc[u]]

WaitIdle(t) ==
    /\ pc[t] = "lock" /\ mutex_ = NoThread
    /\ ~all_threads_exited
    /\ idle_' = idle_ \cup {t}
    /\ Moved(t, "blocked", {}, {})
    /\ UNCHANGED <<counts, mutex_, ready_, op, arrived, passed, history, life>>

\* What on_countdown leaves in new_thread_count_, for a phase of n threads.
on_countdown(n) == {IF r > 0 THEN r ELSE n : r \in Completions \ {0}}

\* on_countdown throws out of a phase of n threads: num_to_leave_ is set, but
\* nobody is notified and the thread that throws is never taken off it.
CompletionThrows(t, n) ==
    /\ 0 \in Completions
    /\ num_to_leave_' = n
    /\ phase' = phase + 1
    /\ thrown' = TRUE
    /\ Moved(t, "unlock", {}, {})
    /\ UNCHANGED <<new_thread_count_, ready_>>

\* Mutant: the last thread to arrive does not notify ready_.
ArriveLast_NoNotify(t) ==
    /\ num_waiting_ + 1 = thread_count_
    /\ new_thread_count_' \in on_countdown(thread_count_)
    /\ num_waiting_' = num_waiting_ + 1
    /\ num_to_leave_' = thread_count_ - 1
    /\ Moved(t, "unlock", {}, {})
    /\ mutex_' = t
    /\ passed' = [passed EXCEPT ![t] = @ + 1]
    /\ phase' = phase + 1
    /\ UNCHANGED <<thread_count_, idle_, ready_, thrown>>

\* The last thread to arrive runs the completion function and starts the
\* departure; when it is the only one it also ends it.
ArriveLast(t) ==
    /\ num_waiting_ + 1 = thread_count_
    /\ new_thread_count_' \in on_countdown(thread_count_)
    /\ IF thread_count_ = 1
       THEN /\ thread_count_' = new_thread_count_'
            /\ num_waiting_' = 0
            /\ num_to_leave_' = 0
            /\ idle_' = {}
            /\ Moved(t, "unlock", ready_, idle_)
       ELSE /\ num_waiting_' = num_waiting_ + 1
            /\ num_to_leave_' = thread_count_ - 1
            /\ Moved(t, "unlock", ready_, {})
            /\ UNCHANGED <<thread_count_, idle_>>
    /\ ready_' = {}
    /\ mutex_' = t
    /\ passed' = [passed EXCEPT ![t] = @ + 1]
    /\ phase' = phase + 1
    /\ UNCHANGED thrown

ArriveThrows(t) ==
    /\ num_waiting_ + 1 = thread_count_
    /\ num_waiting_' = num_waiting_ + 1
    /\ CompletionThrows(t, thread_count_)
    /\ mutex_' = t
    /\ UNCHANGED <<thread_count_, idle_, passed>>

ArriveEarly(t) ==
    /\ num_waiting_ + 1 # thread_count_
    /\ num_waiting_' = num_waiting_ + 1
    /\ ready_' = ready_ \cup {t}
    /\ Moved(t, "blocked", {}, {})
    /\ UNCHANGED <<thread_count_, new_thread_count_, num_to_leave_, mutex_, idle_, passed>>
    /\ UNCHANGED <<phase, thrown>>

\* Mutant: a new arrival does not wait for the last phase to empty.
arrive_and_wait_NoIdle(t) ==
    /\ pc[t] = "lock" /\ op[t] = "arrive_and_wait" /\ mutex_ = NoThread
    /\ arrived' = [arrived EXCEPT ![t] = @ + 1]
    /\ joined' = [joined EXCEPT ![t] = phase]
    /\ ArriveLast(t) \/ ArriveThrows(t) \/ ArriveEarly(t)
    /\ UNCHANGED <<op, life>>

\* arrive_and_wait up to the wait for the others.
arrive_and_wait(t) ==
    /\ pc[t] = "lock" /\ op[t] = "arrive_and_wait" /\ mutex_ = NoThread
    /\ all_threads_exited
    /\ arrived' = [arrived EXCEPT ![t] = @ + 1]
    /\ joined' = [joined EXCEPT ![t] = phase]
    /\ ArriveLast(t) \/ ArriveThrows(t) \/ ArriveEarly(t)
    /\ UNCHANGED <<op, life>>

\* Mutant: the last thread to leave does not notify idle_.
Woken_NoIdle(t) ==
    /\ pc[t] = "woken" /\ mutex_ = NoThread
    /\ all_threads_waiting
    /\ thread_count_' = IF num_to_leave_ = 1 THEN new_thread_count_ ELSE thread_count_
    /\ num_waiting_' = IF num_to_leave_ = 1 THEN 0 ELSE num_waiting_
    /\ num_to_leave_' = num_to_leave_ - 1
    /\ mutex_' = t
    /\ Moved(t, "unlock", {}, {})
    /\ passed' = [passed EXCEPT ![t] = @ + 1]
    /\ UNCHANGED <<new_thread_count_, idle_, ready_, op, arrived, history, life>>

\* Mutant: the last-leaver test is made after the decrement.
Woken_LateTest(t) ==
    /\ pc[t] = "woken" /\ mutex_ = NoThread
    /\ all_threads_waiting
    /\ num_to_leave_' = num_to_leave_ - 1
    /\ thread_count_' = IF num_to_leave_' = 1 THEN new_thread_count_ ELSE thread_count_
    /\ num_waiting_' = IF num_to_leave_' = 1 THEN 0 ELSE num_waiting_
    /\ idle_' = IF num_to_leave_' = 1 THEN {} ELSE idle_
    /\ mutex_' = t
    /\ Moved(t, "unlock", {}, IF num_to_leave_' = 1 THEN idle_ ELSE {})
    /\ passed' = [passed EXCEPT ![t] = @ + 1]
    /\ UNCHANGED <<new_thread_count_, ready_, op, arrived, history, life>>

\* The rest of arrive_and_wait, for a thread woken from ready_: the last one
\* to leave installs the new thread count and opens the next phase.
Woken(t) ==
    /\ pc[t] = "woken" /\ mutex_ = NoThread
    /\ IF all_threads_waiting
       THEN /\ thread_count_' = IF num_to_leave_ = 1 THEN new_thread_count_ ELSE thread_count_
            /\ num_waiting_' = IF num_to_leave_ = 1 THEN 0 ELSE num_waiting_
            /\ idle_' = IF num_to_leave_ = 1 THEN {} ELSE idle_
            /\ num_to_leave_' = num_to_leave_ - 1
            /\ mutex_' = t
            /\ Moved(t, "unlock", {}, IF num_to_leave_ = 1 THEN idle_ ELSE {})
            /\ passed' = [passed EXCEPT ![t] = @ + 1]
            /\ UNCHANGED ready_
       ELSE /\ ready_' = ready_ \cup {t}
            /\ Moved(t, "blocked", {}, {})
            /\ UNCHANGED <<thread_count_, num_waiting_, num_to_leave_, mutex_, idle_, passed>>
    /\ UNCHANGED <<new_thread_count_, op, arrived, history, life>>

Unlock(t) ==
    /\ pc[t] = "unlock"
    /\ mutex_' = NoThread
    /\ pc' = [pc EXCEPT ![t] = IF op[t] = "arrive_and_drop" THEN "dropped" ELSE "out"]
    /\ op' = [op EXCEPT ![t] = "none"]
    /\ UNCHANGED <<counts, idle_, ready_, arrived, passed, history, life>>

\* Mutant: a drop does not check that there is a thread left to drop.
arrive_and_drop_NoCheck(t) ==
    /\ pc[t] = "lock" /\ op[t] = "arrive_and_drop" /\ mutex_ = NoThread
    /\ all_threads_exited
    /\ mutex_' = t
    /\ thread_count_' = thread_count_ - 1
    /\ Moved(t, "unlock", {}, {})
    /\ UNCHANGED <<num_to_leave_, new_thread_count_, num_waiting_, ready_>>
    /\ UNCHANGED <<idle_, op, arrived, passed, history, life>>

\* Throws when no thread is left to drop; a drop may complete the phase, and
\* the last drop of all runs the completion function for nobody.
arrive_and_drop(t) ==
    /\ pc[t] = "lock" /\ op[t] = "arrive_and_drop" /\ mutex_ = NoThread
    /\ all_threads_exited
    /\ mutex_' = t
    /\ IF thread_count_ = 0
       THEN /\ Moved(t, "unlock", {}, {})
            /\ UNCHANGED <<counts, ready_, phase, thrown>>
       ELSE /\ thread_count_' = thread_count_ - 1
            /\ IF num_waiting_ = thread_count_'
               THEN \/ /\ num_to_leave_' = thread_count_'
                       /\ new_thread_count_' \in on_countdown(thread_count_')
                       /\ ready_' = {}
                       /\ Moved(t, "unlock", ready_, {})
                       /\ phase' = phase + 1
                       /\ UNCHANGED thrown
                    \/ CompletionThrows(t, thread_count_')
               ELSE /\ Moved(t, "unlock", {}, {})
                    /\ UNCHANGED <<num_to_leave_, new_thread_count_, ready_, phase, thrown>>
            /\ UNCHANGED num_waiting_
    /\ UNCHANGED <<idle_, op, arrived, passed, joined, life>>

SpuriousWakeup(t) ==
    /\ pc[t] = "blocked"
    /\ idle_' = idle_ \ {t}
    /\ ready_' = ready_ \ {t}
    /\ pc' = [pc EXCEPT ![t] = IF t \in idle_ THEN "lock" ELSE "woken"]
    /\ UNCHANGED <<counts, mutex_, op, arrived, passed, history, life>>

\* Threads counted in this phase that have not got past the wait yet.
Members == {t \in Threads : arrived[t] > passed[t]}

\* The Owner, back from a phase that nobody follows with another call, runs
\* the destructor: the threads still inside are on their way out.
Destroy ==
    /\ life = "alive"
    /\ pc[Owner] = "out" /\ passed[Owner] > 0
    /\ \A t \in Threads : pc[t] # "lock" /\ t \notin idle_ /\ op[t] # "arrive_and_drop"
    /\ Members # {} => num_to_leave_ > 0
    /\ life' = "destroying"
    /\ UNCHANGED <<counts, mutex_, idle_, ready_, pc, op, arrived, passed, history>>

\* Mutant: the destructor does not wait.
Destroyed_NoSpin ==
    /\ life = "destroying"
    /\ life' = "destroyed"
    /\ UNCHANGED <<counts, mutex_, idle_, ready_, pc, op, arrived, passed, history>>

Destroyed ==
    /\ life = "destroying"
    /\ all_threads_exited
    /\ life' = "destroyed"
    /\ UNCHANGED <<counts, mutex_, idle_, ready_, pc, op, arrived, passed, history>>

Step(t) ==
    WaitIdle(t) \/ arrive_and_wait(t) \/ Woken(t) \/ Unlock(t) \/ arrive_and_drop(t)

Next ==
    \/ \E t \in Threads : Call(t) \/ Step(t) \/ SpuriousWakeup(t)
    \/ Destroy \/ Destroyed

Spec == Init /\ [][Next]_vars

\* A thread inside a member function is scheduled, and gets the mutex since
\* arrivals are bounded; the clients all arrive.
LiveSpec ==
    /\ Spec
    /\ \A t \in Threads : WF_vars(Step(t)) /\ WF_vars(Call(t))
    /\ WF_vars(Destroyed)

-----------------------------------------------------------------------------

\* Phases do not overlap: everybody who waits arrived in the phase that is
\* gathering or, while threads leave, in the one just completed, so no thread
\* gets out with a phase it did not arrive for or oversleeps its own.
Sync ==
    \A t \in Members : joined[t] = IF num_to_leave_ > 0 THEN phase - 1 ELSE phase

\* The counters agree with where the threads are: while a phase empties,
\* num_to_leave_ is what is left of it; before, num_waiting_ is what has
\* come.  So every phase lets exactly its thread count out, is reset once,
\* and starts from zero.
Accounting ==
    IF num_to_leave_ > 0
    THEN num_to_leave_ = Cardinality(Members) /\ all_threads_waiting
    ELSE num_waiting_ = Cardinality(Members)

\* Nobody sleeps on idle_ once the last phase has emptied, or on ready_ once
\* the phase is complete, unless the completion function threw.
NoLostWakeup ==
    ~thrown => /\ idle_ # {} => num_to_leave_ > 0
               /\ ready_ # {} => ~all_threads_waiting

\* The destructor is done only when everybody is past the wait.
DestroyAfterDeparture ==
    life = "destroyed" => \A t \in Threads : pc[t] \in {"out", "unlock", "dropped"}

\* When the destructor is done no thread uses the barrier any more.
NoUseAfterDestroy ==
    life = "destroyed" => mutex_ = NoThread /\ \A t \in Threads : pc[t] \in {"out", "dropped"}

\* A completed phase empties, and then lets in those who wait for that,
\* unless the completion function threw.
PhaseEmpties ==
    \A t \in Threads :
        (num_to_leave_ > 0 /\ (t \in Members \/ t \in idle_))
            ~> (thrown \/ (t \notin idle_ /\ num_to_leave_ = 0))
=============================================================================
