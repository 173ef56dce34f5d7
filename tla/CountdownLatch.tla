--------------------------- MODULE CountdownLatch ---------------------------
(***************************************************************************)
(* gcl::countdown_latch (src/countdown_latch.cc): the simpler latch, with  *)
(* no account of the threads inside wait() and a destructor that checks    *)
(* nothing.  Its header allows one thing: "a single waiter can safely      *)
(* destroy the latch as soon as it returns from wait()".  Here the Waiter  *)
(* does that while other threads count down, and may still be on their way *)
(* out of count_down: the unlock is a step of its own.                     *)
(***************************************************************************)
EXTENDS Integers, FiniteSets

CONSTANTS
    Counters,   \* the threads that count down, once each: a finite set
    Waiter,     \* the thread that waits and then destroys the latch, not a Counter
    Count,      \* the constructor's argument
    NoThread    \* not a thread

Threads == Counters \cup {Waiter}

VARIABLES
    count_,
    condition_,        \* the threads blocked on the condition variable
    condition_mutex_,  \* the thread that holds the mutex, or NoThread
    pc,
    destroyed

vars == <<count_, condition_, condition_mutex_, pc, destroyed>>

TypeOK ==
    /\ count_ \in 0 .. Count
    /\ condition_ \in SUBSET Threads
    /\ condition_mutex_ \in Threads \cup {NoThread}
    /\ pc \in [Threads -> {"start", "lock", "held", "blocked", "unlock", "done"}]
    /\ destroyed \in BOOLEAN

Init ==
    /\ count_ = Count
    /\ condition_ = {}
    /\ condition_mutex_ = NoThread
    /\ pc = [t \in Threads |-> "start"]
    /\ destroyed = FALSE

\* A thread enters its call.
Call(t) ==
    /\ pc[t] = "start"
    /\ ~destroyed
    /\ pc' = [pc EXCEPT ![t] = "lock"]
    /\ UNCHANGED <<count_, condition_, condition_mutex_, destroyed>>

Acquire(t) ==
    /\ pc[t] = "lock"
    /\ condition_mutex_ = NoThread
    /\ condition_mutex_' = t
    /\ pc' = [pc EXCEPT ![t] = "held"]
    /\ UNCHANGED <<count_, condition_, destroyed>>

\* Mutant: wait() stops waiting at one.
wait_OffByOne(t) ==
    /\ pc[t] = "held"
    /\ \/ /\ count_ > 1
          /\ condition_' = condition_ \cup {t}
          /\ condition_mutex_' = NoThread
          /\ pc' = [pc EXCEPT ![t] = "blocked"]
       \/ /\ count_ <= 1
          /\ pc' = [pc EXCEPT ![t] = "unlock"]
          /\ UNCHANGED <<condition_, condition_mutex_>>
    /\ UNCHANGED <<count_, destroyed>>

\* One turn of the loop in wait().
wait(t) ==
    /\ pc[t] = "held"
    /\ \/ /\ count_ > 0
          /\ condition_' = condition_ \cup {t}
          /\ condition_mutex_' = NoThread
          /\ pc' = [pc EXCEPT ![t] = "blocked"]
       \/ /\ count_ = 0
          /\ pc' = [pc EXCEPT ![t] = "unlock"]
          /\ UNCHANGED <<condition_, condition_mutex_>>
    /\ UNCHANGED <<count_, destroyed>>

\* Mutant: the count is decremented without the test for zero that notifies.
count_down_NoNotify(t) ==
    /\ pc[t] = "held"
    /\ count_' = count_ - 1
    /\ pc' = [pc EXCEPT ![t] = "unlock"]
    /\ UNCHANGED <<condition_, condition_mutex_, destroyed>>

\* Throws on a zero count (the lock_guard still unlocks); notifies at zero.
count_down(t) ==
    /\ pc[t] = "held"
    /\ IF count_ <= 0
       THEN pc' = [pc EXCEPT ![t] = "unlock"] /\ UNCHANGED <<count_, condition_>>
       ELSE /\ count_' = count_ - 1
            /\ LET W == IF count_' = 0 THEN condition_ ELSE {} IN
                 /\ condition_' = condition_ \ W
                 /\ pc' = [u \in Threads |-> IF u = t THEN "unlock"
                                             ELSE IF u \in W THEN "lock" ELSE pc[u]]
    /\ UNCHANGED <<condition_mutex_, destroyed>>

Unlock(t) ==
    /\ pc[t] = "unlock"
    /\ condition_mutex_' = NoThread
    /\ pc' = [pc EXCEPT ![t] = "done"]
    /\ UNCHANGED <<count_, condition_, destroyed>>

SpuriousWakeup(t) ==
    /\ pc[t] = "blocked"
    /\ condition_' = condition_ \ {t}
    /\ pc' = [pc EXCEPT ![t] = "lock"]
    /\ UNCHANGED <<count_, condition_mutex_, destroyed>>

\* The Waiter, back from wait(), destroys the latch, if the clients keep to
\* Count calls of count_down; a call too many throws, whenever it comes.
Destroy ==
    /\ pc[Waiter] = "done"
    /\ ~destroyed
    /\ Cardinality({t \in Counters : pc[t] # "start"}) <= Count
    /\ destroyed' = TRUE
    /\ UNCHANGED <<count_, condition_, condition_mutex_, pc>>

Step(t) ==
    \/ Acquire(t)
    \/ Unlock(t)
    \/ t = Waiter /\ wait(t)
    \/ t \in Counters /\ count_down(t)

Next ==
    \/ \E t \in Threads : Call(t) \/ Step(t) \/ SpuriousWakeup(t)
    \/ Destroy

Spec == Init /\ [][Next]_vars

-----------------------------------------------------------------------------

\* A Waiter that is back from wait() may destroy the latch: every count_down
\* that brought the count to zero has left its critical section (the mutex
\* is not held and nobody wants it any more).
SingleWaiterMayDestroy ==
    destroyed => /\ condition_mutex_ = NoThread
                 /\ \A t \in Counters : pc[t] \in {"start", "done"}
=============================================================================
