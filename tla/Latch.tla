------------------------------- MODULE Latch -------------------------------
(***************************************************************************)
(* gcl::latch (src/latch.cc): a single-use count guarded by                *)
(* condition_mutex_, on which threads block until it is zero, and the      *)
(* atomic waiting_ that tells the destructor how many threads are still    *)
(* inside wait() or count_down_and_wait().  waiting_ is changed outside    *)
(* the mutex, before it is taken and after it is released.                 *)
(*                                                                         *)
(* One thread, the Owner, destroys the latch once its own calls have shown *)
(* it that the count is zero.                                              *)
(***************************************************************************)
EXTENDS Integers, FiniteSets

CONSTANTS
    Threads,
    Owner,      \* the thread that destroys the latch
    Count,      \* the constructor's argument
    MaxN,       \* the largest argument of count_down
    MaxCalls,   \* bound: calls per thread
    Overcount,  \* may the clients count down more than Count in total
    NoThread

ASSUME CountAssumption   == Count \in Nat /\ MaxN \in Nat \ {0} /\ MaxCalls \in Nat
ASSUME ThreadsAssumption == Owner \in Threads /\ NoThread \notin Threads
ASSUME FiniteAssumption  == IsFiniteSet(Threads)
ASSUME OvercountAssumption == Overcount \in BOOLEAN

VARIABLES
    count_,
    waiting_,
    condition_,        \* the threads blocked on the condition variable
    condition_mutex_,  \* the thread that holds the mutex, or NoThread
    pc, op, n,         \* each thread's place, call, and count_down argument
    calls,             \* how many calls each thread has made
    claimed,           \* the total the clients have asked to count down
    sawZero,           \* has a call of the Owner shown it a zero count
    life               \* "alive", "destroying" (in ~latch), "destroyed"

latchVars  == <<count_, waiting_, condition_, condition_mutex_>>
clientVars == <<calls, claimed, sawZero, life>>
vars == <<latchVars, pc, op, n, clientVars>>

Ops == {"wait", "is_ready", "count_down", "count_down_and_wait"}

TypeOK ==
    /\ count_ \in 0 .. Count
    /\ waiting_ \in Nat
    /\ condition_ \in SUBSET Threads
    /\ condition_mutex_ \in Threads \cup {NoThread}
    /\ pc \in [Threads -> {"idle", "lock", "held", "blocked", "leave"}]
    /\ op \in [Threads -> Ops \cup {"none"}]
    /\ n \in [Threads -> 0 .. MaxN]
    /\ calls \in [Threads -> 0 .. MaxCalls]
    /\ claimed \in Nat
    /\ sawZero \in BOOLEAN
    /\ life \in {"alive", "destroying", "destroyed"}

Init ==
    /\ count_ = Count
    /\ waiting_ = 0
    /\ condition_ = {}
    /\ condition_mutex_ = NoThread
    /\ pc = [t \in Threads |-> "idle"]
    /\ op = [t \in Threads |-> "none"]
    /\ n = [t \in Threads |-> 0]
    /\ calls = [t \in Threads |-> 0]
    /\ claimed = 0
    /\ sawZero = FALSE
    /\ life = "alive"

-----------------------------------------------------------------------------

\* A call begins; wait() and count_down_and_wait() announce themselves first.
Call(t, o, k) ==
    /\ pc[t] = "idle"
    /\ life = "alive"
    /\ calls[t] < MaxCalls
    /\ Overcount \/ claimed + k <= Count
    /\ waiting_' = IF o \in {"wait", "count_down_and_wait"} THEN waiting_ + 1 ELSE waiting_
    /\ pc' = [pc EXCEPT ![t] = "lock"]
    /\ op' = [op EXCEPT ![t] = o]
    /\ n' = [n EXCEPT ![t] = k]
    /\ calls' = [calls EXCEPT ![t] = @ + 1]
    /\ claimed' = claimed + k
    /\ UNCHANGED <<count_, condition_, condition_mutex_, sawZero, life>>

Start(t) ==
    \/ \E o \in {"wait", "is_ready"} : Call(t, o, 0)
    \/ \E k \in 1 .. MaxN : Call(t, "count_down", k)
    \/ Call(t, "count_down_and_wait", 1)

Acquire(t) ==
    /\ pc[t] = "lock"
    /\ condition_mutex_ = NoThread
    /\ condition_mutex_' = t
    /\ pc' = [pc EXCEPT ![t] = "held"]
    /\ UNCHANGED <<count_, waiting_, condition_, op, n, clientVars>>

\* The critical section ends with t at p and the threads in W notified.
Release(t, p, W) ==
    /\ condition_mutex_' = NoThread
    /\ pc' = [u \in Threads |-> IF u = t THEN p ELSE IF u \in W THEN "lock" ELSE pc[u]]

\* The call is over.
Done(t) ==
    /\ op' = [op EXCEPT ![t] = "none"]
    /\ n' = [n EXCEPT ![t] = 0]

Learns(t, b) == sawZero' = (sawZero \/ (t = Owner /\ b))

\* One turn of the loop "while (count_ > 0) condition_.wait(lock)".
wait_loop(t) ==
    /\ IF count_ > 0
       THEN Release(t, "blocked", {}) /\ condition_' = condition_ \cup {t}
       ELSE Release(t, "leave", {}) /\ UNCHANGED condition_
    /\ op' = [op EXCEPT ![t] = "wait"]
    /\ UNCHANGED <<n, sawZero>>

\* Mutant: wait() tests the count with an if, so a spurious wakeup gets out.
wait_If(t) ==
    /\ pc[t] = "held" /\ op[t] = "wait"
    /\ IF count_ > 0 /\ n[t] = 0
       THEN /\ Release(t, "blocked", {}) /\ condition_' = condition_ \cup {t}
            /\ n' = [n EXCEPT ![t] = 1]
       ELSE Release(t, "leave", {}) /\ UNCHANGED <<condition_, n>>
    /\ UNCHANGED <<count_, waiting_, op, calls, claimed, sawZero, life>>

wait(t) ==
    /\ pc[t] = "held" /\ op[t] = "wait"
    /\ wait_loop(t)
    /\ UNCHANGED <<count_, waiting_, calls, claimed, life>>

is_ready(t) ==
    /\ pc[t] = "held" /\ op[t] = "is_ready"
    /\ Release(t, "idle", {})
    /\ Done(t)
    /\ Learns(t, count_ = 0)
    /\ UNCHANGED <<count_, waiting_, condition_, calls, claimed, life>>

\* Mutant: waiters are notified when the count was one before, not zero after.
count_down_EarlyTest(t) ==
    /\ pc[t] = "held" /\ op[t] = "count_down"
    /\ IF count_ - n[t] < 0
       THEN Release(t, "idle", {}) /\ UNCHANGED <<count_, condition_, sawZero>>
       ELSE /\ count_' = count_ - n[t]
            /\ IF count_ = 1
               THEN Release(t, "idle", condition_) /\ condition_' = {}
               ELSE Release(t, "idle", {}) /\ UNCHANGED condition_
            /\ Learns(t, count_' = 0)
    /\ Done(t)
    /\ UNCHANGED <<waiting_, calls, claimed, life>>

\* Mutant: the count is not checked before it is decremented.
count_down_NoCheck(t) ==
    /\ pc[t] = "held" /\ op[t] = "count_down"
    /\ count_' = count_ - n[t]
    /\ IF count_' = 0
       THEN Release(t, "idle", condition_) /\ condition_' = {}
       ELSE Release(t, "idle", {}) /\ UNCHANGED condition_
    /\ Learns(t, count_' = 0)
    /\ Done(t)
    /\ UNCHANGED <<waiting_, calls, claimed, life>>

\* Throws and changes nothing if the count would go below zero.
count_down(t) ==
    /\ pc[t] = "held" /\ op[t] = "count_down"
    /\ IF count_ - n[t] < 0
       THEN Release(t, "idle", {}) /\ UNCHANGED <<count_, condition_, sawZero>>
       ELSE /\ count_' = count_ - n[t]
            /\ IF count_' = 0
               THEN Release(t, "idle", condition_) /\ condition_' = {}
               ELSE Release(t, "idle", {}) /\ UNCHANGED condition_
            /\ Learns(t, count_' = 0)
    /\ Done(t)
    /\ UNCHANGED <<waiting_, calls, claimed, life>>

\* Mutant: waiting_ is given back before the mutex, with the lock still held.
count_down_and_wait_Early(t) ==
    /\ pc[t] = "held" /\ op[t] = "count_down_and_wait"
    /\ count_ > 0
    /\ count_' = count_ - 1
    /\ waiting_' = waiting_ - 1
    /\ IF count_' = 0
       THEN Release(t, "lock", condition_) /\ condition_' = {}
       ELSE Release(t, "blocked", {}) /\ condition_' = condition_ \cup {t}
    /\ op' = [op EXCEPT ![t] = "wait"]
    /\ n' = [n EXCEPT ![t] = 0]
    /\ UNCHANGED <<calls, claimed, sawZero, life>>

\* On a zero count it throws with waiting_ still counting the caller; the
\* thread that reaches zero goes out, any other joins the wait loop.
count_down_and_wait(t) ==
    /\ pc[t] = "held" /\ op[t] = "count_down_and_wait"
    /\ \/ /\ count_ = 0
          /\ Release(t, "idle", {})
          /\ Done(t)
          /\ UNCHANGED <<count_, condition_, sawZero>>
       \/ /\ count_ = 1
          /\ count_' = 0
          /\ Release(t, "leave", condition_)
          /\ condition_' = {}
          /\ UNCHANGED <<op, n, sawZero>>
       \/ /\ count_ > 1
          /\ count_' = count_ - 1
          /\ wait_loop(t)
    /\ UNCHANGED <<waiting_, calls, claimed, life>>

\* --waiting_, the last thing wait() and count_down_and_wait() do.
Leave(t) ==
    /\ pc[t] = "leave"
    /\ waiting_' = waiting_ - 1
    /\ pc' = [pc EXCEPT ![t] = "idle"]
    /\ Done(t)
    /\ Learns(t, TRUE)
    /\ UNCHANGED <<count_, condition_, condition_mutex_, calls, claimed, life>>

SpuriousWakeup(t) ==
    /\ pc[t] = "blocked"
    /\ condition_' = condition_ \ {t}
    /\ pc' = [pc EXCEPT ![t] = "lock"]
    /\ UNCHANGED <<count_, waiting_, condition_mutex_, op, n, clientVars>>

\* The Owner calls the destructor: it knows the count is zero, and the calls
\* the destructor does not wait for (count_down, is_ready) are over.
Destroy ==
    /\ life = "alive"
    /\ pc[Owner] = "idle"
    /\ sawZero
    /\ \A t \in Threads : op[t] \in {"none", "wait", "count_down_and_wait"}
    /\ life' = "destroying"
    /\ UNCHANGED <<latchVars, pc, op, n, calls, claimed, sawZero>>

\* Mutant: the destructor does not wait.
Destroyed_NoSpin ==
    /\ life = "destroying"
    /\ life' = "destroyed"
    /\ UNCHANGED <<latchVars, pc, op, n, calls, claimed, sawZero>>

\* The destructor's loop sees waiting_ at zero.
Destroyed ==
    /\ life = "destroying"
    /\ waiting_ = 0
    /\ life' = "destroyed"
    /\ UNCHANGED <<latchVars, pc, op, n, calls, claimed, sawZero>>

Step(t) ==
    Acquire(t) \/ wait(t) \/ is_ready(t) \/ count_down(t) \/ count_down_and_wait(t) \/ Leave(t)

Next ==
    \/ \E t \in Threads : Start(t) \/ Step(t) \/ SpuriousWakeup(t)
    \/ Destroy
    \/ Destroyed

Spec == Init /\ [][Next]_vars

\* A thread inside a call is scheduled, and so is the destructor's loop.
\* Contention for the mutex ends because the number of calls is bounded.
LiveSpec == Spec /\ WF_vars(Destroyed) /\ \A t \in Threads : WF_vars(Step(t))

-----------------------------------------------------------------------------

\* Threads inside wait() or count_down_and_wait().
Inside == {t \in Threads : op[t] \in {"wait", "count_down_and_wait"}}

\* A thread gets past the wait loop only after the count has reached zero
\* (latch.h: all calls to count_down() happen before any wait() returns),
\* whatever spurious wakeups there are; and nobody sleeps through zero.
Gate ==
    /\ \A t \in Threads : pc[t] = "leave" => count_ = 0
    /\ condition_ # {} => count_ > 0

\* waiting_ never misses a thread that still has to touch the latch.
WaitingCoversInside == Cardinality(Inside) <= waiting_

\* Once the destructor is done no thread is in the middle of a call, about
\* to lock, holding the mutex, or about to decrement waiting_.
NoUseAfterDestroy ==
    life = "destroyed" => condition_mutex_ = NoThread /\ \A t \in Threads : pc[t] = "idle"

\* Every call that is inside when the count is zero returns.
ZeroReleases ==
    \A t \in Threads : (count_ = 0 /\ t \in Inside) ~> pc[t] = "idle"

\* The destructor, called on a latch whose count is zero, returns, as long as
\* the clients count down no more than Count in all.
DestroyReturns ==
    (life = "destroying" /\ claimed <= Count) ~> (life = "destroyed")

\* The same whatever the clients have tried: a call that throws because the
\* count is zero is over too.
DestroyAlwaysReturns == (life = "destroying") ~> (life = "destroyed")
=============================================================================
