----------------------------- MODULE BufferQueue -----------------------------
(***************************************************************************)
(* gcl::buffer_queue (include/buffer_queue.h): a bounded queue in a ring   *)
(* of max_elems + 1 slots, guarded by the mutex mtx_, with the condition   *)
(* variables not_empty_ and not_full_ and the counters waiting_empty_ and  *)
(* waiting_full_ that say whether a notification is worth making.          *)
(*                                                                         *)
(* A thread's call is cut where other threads can come between: before the *)
(* mutex is taken, while it is held, inside a condition-variable wait      *)
(* (which gives the mutex up), and, when something throws, between leaving *)
(* the critical section by the exception and the close() of the handler.   *)
(* A condition variable is the set of threads blocked on it; a notified or *)
(* spuriously woken thread competes for the mutex again.                   *)
(***************************************************************************)
EXTENDS Integers, Sequences, FiniteSets

CONSTANTS
    Producers,    \* threads that may push
    Consumers,    \* threads that may pop
    Values,       \* the elements
    MaxElems,     \* the constructor's max_elems
    Ops,          \* the member functions the clients use
    CopyThrows,   \* may the element's copy or move assignment throw
    MaxWaiting,   \* bound: no spurious wakeup once a counter is this high
    NoThread, NoValue

Threads == Producers \cup Consumers

PushOps  == {"try_push", "nonblocking_push", "wait_push", "push"}
PopOps   == {"try_pop", "nonblocking_pop", "wait_pop", "value_pop"}
QueryOps == {"is_closed", "is_empty"}
AllOps   == PushOps \cup PopOps \cup QueryOps \cup {"close"}

NonblockingOps == {"nonblocking_push", "nonblocking_pop"}

ASSUME MaxElemsAssumption == MaxElems \in Nat \ {0}
ASSUME ThreadsAssumption  == IsFiniteSet(Threads) /\ NoThread \notin Threads
ASSUME ValuesAssumption   == NoValue \notin Values
ASSUME OpsAssumption      == Ops \subseteq AllOps
ASSUME ThrowsAssumption   == CopyThrows \in BOOLEAN
ASSUME WaitingAssumption  == MaxWaiting \in Nat

VARIABLES
    mtx_,           \* the thread that holds the mutex, or NoThread
    closed_,
    buffer_,        \* slot -> element
    push_index_, pop_index_,
    waiting_full_, waiting_empty_,
    not_full_, not_empty_,  \* the threads blocked on each condition variable
    pc,             \* where each thread is in its call
    op,             \* the member function it is in, or "none"
    arg,            \* the element it pushes
    res             \* the answer of its last call

queue   == <<closed_, buffer_, push_index_, pop_index_>>
waiting == <<waiting_full_, waiting_empty_, not_full_, not_empty_>>
client  == <<pc, op, arg, res>>
vars    == <<mtx_, queue, waiting, client>>

num_slots_ == MaxElems + 1

Slots == 0 .. MaxElems

\* Mutant: the index is not wrapped around.
next_NoWrap(idx) == idx + 1

next(idx) == (idx + 1) % num_slots_

\* The number of elements from pop_index_ up to push_index_, around the ring.
Count == IF push_index_ >= pop_index_
         THEN push_index_ - pop_index_
         ELSE push_index_ + num_slots_ - pop_index_

PCs == {"idle",     \* not in a call
        "lock",     \* wants mtx_, at the start of a call or woken from a wait
        "held",     \* owns mtx_
        "wait",     \* blocked on not_full_ or not_empty_
        "closing",  \* wants mtx_ for close()
        "close"}    \* owns mtx_ in close()

Statuses == {"none", "success", "empty", "full", "closed", "busy",
             "exception", "true", "false"}

Answer(s, v) == [status |-> s, elem |-> v]
NoAnswer == Answer("none", NoValue)

TypeOK ==
    /\ mtx_ \in Threads \cup {NoThread}
    /\ closed_ \in BOOLEAN
    /\ buffer_ \in [Slots -> Values \cup {NoValue}]
    /\ push_index_ \in Slots
    /\ pop_index_ \in Slots
    /\ waiting_full_ \in Nat
    /\ waiting_empty_ \in Nat
    /\ not_full_ \in SUBSET Threads
    /\ not_empty_ \in SUBSET Threads
    /\ pc \in [Threads -> PCs]
    /\ op \in [Threads -> AllOps \cup {"none"}]
    /\ arg \in [Threads -> Values \cup {NoValue}]
    /\ res \in [Threads -> [status : Statuses, elem : Values \cup {NoValue}]]

-----------------------------------------------------------------------------
(* Construction: empty, or filled with n elements from an iterator range.  *)

Init ==
    /\ mtx_ = NoThread
    /\ closed_ = FALSE
    /\ pop_index_ = 0
    /\ push_index_ \in 0 .. MaxElems
    /\ buffer_ \in [Slots -> Values \cup {NoValue}]
    /\ \A i \in Slots : buffer_[i] # NoValue <=> i < push_index_
    /\ waiting_full_ = 0 /\ waiting_empty_ = 0
    /\ not_full_ = {} /\ not_empty_ = {}
    /\ pc = [t \in Threads |-> "idle"]
    /\ op = [t \in Threads |-> "none"]
    /\ arg = [t \in Threads |-> NoValue]
    /\ res = [t \in Threads |-> NoAnswer]

-----------------------------------------------------------------------------
(* Entering a call and taking the mutex.                                   *)

Enter(t, o, v, p) ==
    /\ pc[t] = "idle"
    /\ o \in Ops
    /\ pc' = [pc EXCEPT ![t] = p]
    /\ op' = [op EXCEPT ![t] = o]
    /\ arg' = [arg EXCEPT ![t] = v]
    /\ res' = [res EXCEPT ![t] = NoAnswer]
    /\ UNCHANGED <<mtx_, queue, waiting>>

Call(t) ==
    \/ t \in Producers /\ \E o \in PushOps, v \in Values : Enter(t, o, v, "lock")
    \/ t \in Consumers /\ \E o \in PopOps : Enter(t, o, NoValue, "lock")
    \/ \E o \in QueryOps : Enter(t, o, NoValue, "lock")
    \/ Enter(t, "close", NoValue, "closing")

Acquire(t) ==
    /\ mtx_ = NoThread
    /\ \/ pc[t] = "lock"    /\ pc' = [pc EXCEPT ![t] = "held"]
       \/ pc[t] = "closing" /\ pc' = [pc EXCEPT ![t] = "close"]
    /\ mtx_' = t
    /\ UNCHANGED <<queue, waiting, op, arg, res>>

\* The thread leaves its call with this answer.
Answered(t, s, v) ==
    /\ op' = [op EXCEPT ![t] = "none"]
    /\ arg' = [arg EXCEPT ![t] = NoValue]
    /\ res' = [res EXCEPT ![t] = Answer(s, v)]

\* The thread leaves its critical section by an exception; o is the handler
\* that runs close() next, s what the caller sees when it is done.
Thrown(t, o, s) ==
    /\ op' = [op EXCEPT ![t] = o]
    /\ arg' = [arg EXCEPT ![t] = NoValue]
    /\ res' = [res EXCEPT ![t] = Answer(s, NoValue)]

\* pc after thread t goes to p and the threads in W are notified.
Moved(t, p, W) ==
    pc' = [u \in Threads |-> IF u = t THEN p ELSE IF u \in W THEN "lock" ELSE pc[u]]

\* try_to_lock found the mutex taken.
TryLockFails(t) ==
    /\ pc[t] = "lock"
    /\ op[t] \in NonblockingOps
    /\ mtx_ # NoThread
    /\ Moved(t, "idle", {})
    /\ Answered(t, "busy", NoValue)
    /\ UNCHANGED <<mtx_, queue, waiting>>

-----------------------------------------------------------------------------
(* Inside the critical section.  Every body gives the mutex up.            *)

\* A body that leaves the queue as it found it.
Refuse(t, s) ==
    /\ Moved(t, "idle", {})
    /\ Answered(t, s, NoValue)
    /\ UNCHANGED <<queue, waiting>>

\* The threads one notify_one may wake.
NotifyOne(waiters) == IF waiters = {} THEN {{}} ELSE {{w} : w \in waiters}

\* Mutant: the counter is cleared by a notification that wakes only one.
NotifyNotFull_Reset(W) ==
    IF waiting_full_ > 0
    THEN /\ waiting_full_' = 0
         /\ W \in NotifyOne(not_full_)
         /\ not_full_' = not_full_ \ W
    ELSE /\ W = {}
         /\ UNCHANGED <<waiting_full_, not_full_>>

\* notify_one on not_full_, if a waiter is accounted for.
NotifyNotFull(W) ==
    IF waiting_full_ > 0
    THEN /\ waiting_full_' = waiting_full_ - 1
         /\ W \in NotifyOne(not_full_)
         /\ not_full_' = not_full_ \ W
    ELSE /\ W = {}
         /\ UNCHANGED <<waiting_full_, not_full_>>

\* Mutant: a push notifies only if two poppers are accounted for.
NotifyNotEmpty_OffByOne(W) ==
    IF waiting_empty_ > 1
    THEN /\ waiting_empty_' = waiting_empty_ - 1
         /\ W \in NotifyOne(not_empty_)
         /\ not_empty_' = not_empty_ \ W
    ELSE /\ W = {}
         /\ UNCHANGED <<waiting_empty_, not_empty_>>

NotifyNotEmpty(W) ==
    IF waiting_empty_ > 0
    THEN /\ waiting_empty_' = waiting_empty_ - 1
         /\ W \in NotifyOne(not_empty_)
         /\ not_empty_' = not_empty_ \ W
    ELSE /\ W = {}
         /\ UNCHANGED <<waiting_empty_, not_empty_>>

\* The index moves before the element does, so a throwing move loses the
\* element.  In value_pop the move into the result may throw as well, after
\* wait_pop is over: then only value_pop's own handler runs.
pop_from(t, pdx) ==
    /\ pop_index_' = next(pdx)
    /\ \E W \in SUBSET not_full_ :
        /\ NotifyNotFull(W)
        /\ \/ Moved(t, "idle", W) /\ Answered(t, "success", buffer_[pdx])
           \/ CopyThrows /\ Moved(t, "closing", W) /\ Thrown(t, op[t], "exception")
           \/ /\ CopyThrows /\ op[t] = "value_pop"
              /\ Moved(t, "closing", W) /\ Thrown(t, "close", "exception")
    /\ UNCHANGED <<closed_, buffer_, push_index_, waiting_empty_, not_empty_>>

\* The index moves only after the element is in its slot.
push_at(t, hdx, nxt) ==
    \/ /\ buffer_' = [buffer_ EXCEPT ![hdx] = arg[t]]
       /\ push_index_' = nxt
       /\ \E W \in SUBSET not_empty_ :
            NotifyNotEmpty(W) /\ Moved(t, "idle", W)
       /\ Answered(t, "success", NoValue)
       /\ UNCHANGED <<closed_, pop_index_, waiting_full_, not_full_>>
    \/ /\ CopyThrows
       /\ Moved(t, "closing", {})
       /\ Thrown(t, op[t], "exception")
       /\ UNCHANGED <<queue, waiting>>

\* Mutant: closed_ is tested before the indices, so a closed queue is not drained.
try_pop_common_NoDrain(t) ==
    IF closed_ THEN Refuse(t, "closed")
    ELSE IF pop_index_ = push_index_ THEN Refuse(t, "empty")
    ELSE pop_from(t, pop_index_)

try_pop_common(t) ==
    IF pop_index_ = push_index_
    THEN Refuse(t, IF closed_ THEN "closed" ELSE "empty")
    ELSE pop_from(t, pop_index_)

\* One turn of wait_pop's loop; value_pop throws the status closed, which its
\* own handler turns into one more close().
wait_pop(t) ==
    \/ /\ pop_index_ # push_index_
       /\ pop_from(t, pop_index_)
    \/ /\ pop_index_ = push_index_ /\ closed_
       /\ IF op[t] = "value_pop"
          THEN /\ Moved(t, "closing", {})
               /\ Thrown(t, "close", "closed")
               /\ UNCHANGED <<queue, waiting>>
          ELSE Refuse(t, "closed")
    \/ /\ pop_index_ = push_index_ /\ ~closed_
       /\ waiting_empty_' = waiting_empty_ + 1
       /\ not_empty_' = not_empty_ \cup {t}
       /\ Moved(t, "wait", {})
       /\ UNCHANGED <<queue, waiting_full_, not_full_, op, arg, res>>

try_push_common(t) ==
    IF closed_ THEN Refuse(t, "closed")
    ELSE IF next(push_index_) = pop_index_ THEN Refuse(t, "full")
    ELSE push_at(t, push_index_, next(push_index_))

\* One turn of wait_push's loop; push throws where wait_push answers closed,
\* outside any handler, so nothing more happens to the queue.
wait_push(t) ==
    \/ closed_ /\ Refuse(t, "closed")
    \/ /\ ~closed_ /\ next(push_index_) # pop_index_
       /\ push_at(t, push_index_, next(push_index_))
    \/ /\ ~closed_ /\ next(push_index_) = pop_index_
       /\ waiting_full_' = waiting_full_ + 1
       /\ not_full_' = not_full_ \cup {t}
       /\ Moved(t, "wait", {})
       /\ UNCHANGED <<queue, waiting_empty_, not_empty_, op, arg, res>>

Owns(t, ops) ==
    /\ pc[t] = "held"
    /\ op[t] \in ops
    /\ mtx_' = NoThread

TryPop(t)   == Owns(t, {"try_pop", "nonblocking_pop"}) /\ try_pop_common(t)
WaitPop(t)  == Owns(t, {"wait_pop", "value_pop"}) /\ wait_pop(t)
TryPush(t)  == Owns(t, {"try_push", "nonblocking_push"}) /\ try_push_common(t)
WaitPush(t) == Owns(t, {"wait_push", "push"}) /\ wait_push(t)

is_closed(t) ==
    Owns(t, {"is_closed"}) /\ Refuse(t, IF closed_ THEN "true" ELSE "false")

is_empty(t) ==
    /\ Owns(t, {"is_empty"})
    /\ Refuse(t, IF push_index_ = pop_index_ THEN "true" ELSE "false")

\* Mutant: close() forgets to notify not_full_.
close_NoNotFull(t) ==
    /\ pc[t] = "close"
    /\ mtx_' = NoThread
    /\ closed_' = TRUE
    /\ not_empty_' = {}
    /\ Moved(t, "idle", not_empty_)
    /\ Answered(t, IF res[t].status = "none" THEN "success" ELSE res[t].status, NoValue)
    /\ UNCHANGED <<buffer_, push_index_, pop_index_, waiting_full_, waiting_empty_, not_full_>>

\* Everybody who waits is woken; the counters are left as they are.  Run as
\* a handler, the exception goes on: out of wait_pop it meets value_pop's
\* handler, which closes again.
close(t) ==
    /\ pc[t] = "close"
    /\ mtx_' = NoThread
    /\ closed_' = TRUE
    /\ not_empty_' = {}
    /\ not_full_' = {}
    /\ IF op[t] = "value_pop"
       THEN /\ Moved(t, "closing", not_empty_ \cup not_full_)
            /\ op' = [op EXCEPT ![t] = "close"]
            /\ UNCHANGED <<arg, res>>
       ELSE /\ Moved(t, "idle", not_empty_ \cup not_full_)
            /\ Answered(t, IF res[t].status = "none" THEN "success"
                           ELSE res[t].status, NoValue)
    /\ UNCHANGED <<buffer_, push_index_, pop_index_, waiting_full_, waiting_empty_>>

\* A condition variable may wake a waiter nobody notified; its counter still
\* counts it, and counts it again when it waits again.
SpuriousWakeup(t) ==
    /\ pc[t] = "wait"
    /\ IF t \in not_full_ THEN waiting_full_ < MaxWaiting ELSE waiting_empty_ < MaxWaiting
    /\ not_full_' = not_full_ \ {t}
    /\ not_empty_' = not_empty_ \ {t}
    /\ Moved(t, "lock", {})
    /\ UNCHANGED <<mtx_, queue, waiting_full_, waiting_empty_, op, arg, res>>

Body(t) ==
    TryPop(t) \/ WaitPop(t) \/ TryPush(t) \/ WaitPush(t)
        \/ is_closed(t) \/ is_empty(t) \/ close(t)

Step(t) == Acquire(t) \/ TryLockFails(t) \/ Body(t)

Next == \E t \in Threads : Call(t) \/ Step(t) \/ SpuriousWakeup(t)

Spec == Init /\ [][Next]_vars

\* Critical sections end, and a thread that competes for the mutex is not
\* passed over for ever.  Nothing obliges a client to make another call.
Fairness == \A t \in Threads : WF_vars(Body(t)) /\ SF_vars(Acquire(t))

LiveSpec == Spec /\ Fairness

-----------------------------------------------------------------------------
(* Properties.                                                             *)

\* mtx_ is held by exactly the thread whose pc says so, and a thread is
\* blocked on a condition variable exactly when it gave the mutex up in a
\* blocking call of that variable's kind.
LockInv ==
    /\ \A t \in Threads : pc[t] \in {"held", "close"} <=> mtx_ = t
    /\ \A t \in Threads : pc[t] = "wait" <=> t \in not_full_ \cup not_empty_
    /\ \A t \in not_full_ : op[t] \in {"wait_push", "push"}
    /\ \A t \in not_empty_ : op[t] \in {"wait_pop", "value_pop"}

\* The counters never undercount the blocked threads, so the test
\* "waiting_full_ > 0" in pop_from, or its dual in push_reindex, never skips
\* a notification somebody needs - whatever spurious wakeups have done to it.
CountersCoverWaiters ==
    /\ Cardinality(not_full_) <= waiting_full_
    /\ Cardinality(not_empty_) <= waiting_empty_

\* Threads in a blocking push (pop) that are on their way to the loop's test.
AwakePushers == {t \in Threads : pc[t] \in {"lock", "held"} /\ op[t] \in {"wait_push", "push"}}
AwakePoppers == {t \in Threads : pc[t] \in {"lock", "held"} /\ op[t] \in {"wait_pop", "value_pop"}}

\* Threads that left by an exception and have not closed the queue yet.
Failing == {t \in Threads : pc[t] \in {"closing", "close"}}

\* No lost wakeup: while a push is blocked, every free slot has an awake
\* blocking push that can take it, and while a pop is blocked every element
\* has an awake blocking pop that can take it.  The exception is a queue
\* about to be closed, where close() wakes everybody.
NoLostWakeup ==
    /\ not_full_ # {} => \/ MaxElems - Count <= Cardinality(AwakePushers)
                         \/ Failing # {}
    /\ not_empty_ # {} => \/ Count <= Cardinality(AwakePoppers)
                          \/ Failing # {}

\* Nobody is blocked on a closed queue.
ClosedWakesAll == closed_ => not_full_ = {} /\ not_empty_ = {}

\* Every blocked caller gets out of its call once the queue is closed.
CloseReleases ==
    \A t \in Threads : (closed_ /\ pc[t] \in {"wait", "lock"}) ~> pc[t] = "idle"

\* The contents as a sequence, oldest first.
Contents == [i \in 1 .. Count |-> buffer_[(pop_index_ + i - 1) % num_slots_]]

Kind(o) == IF o \in PushOps THEN "push"
           ELSE IF o \in PopOps THEN "pop"
           ELSE IF o \in QueryOps THEN "query" ELSE "close"

AbstractCall == [t \in Threads |->
    IF pc[t] = "idle" THEN "none"
    ELSE IF pc[t] \in {"closing", "close"} THEN "close" ELSE Kind(op[t])]

Abs == INSTANCE BoundedQueue WITH
    Capacity <- MaxElems, q <- Contents, closed <- closed_, call <- AbstractCall

\* The ring, the mutex and the condition variables implement the closable
\* FIFO: no element is lost, duplicated or reordered, nothing is accepted
\* after close, and closed is answered to a pop only when drained.
ImplementsBoundedQueue == Abs!Spec
=============================================================================
