-------------------------- MODULE BufferQueueProofs --------------------------
(***************************************************************************)
(* Proofs about BufferQueue for every number of threads, every set of      *)
(* elements, every capacity and every choice of member functions, with or  *)
(* without throwing assignments and with any number of spurious wakeups.   *)
(***************************************************************************)
EXTENDS BufferQueue, FiniteSetTheorems, SequenceTheorems, TLAPS

-----------------------------------------------------------------------------
(* Facts about the operators.                                              *)

\* The index arithmetic of buffer_queue::next stays in the ring and wraps
\* only at the last slot.
LEMMA NextInRing ==
    ASSUME NEW i \in Slots
    PROVE  /\ next(i) \in Slots
           /\ next(i) = IF i = MaxElems THEN 0 ELSE i + 1
  <1>1. MaxElems \in Nat /\ MaxElems >= 1
    BY MaxElemsAssumption
  <1>2. i \in Nat /\ i <= MaxElems
    BY <1>1 DEF Slots
  <1>3. CASE i = MaxElems
    BY <1>1, <1>2, <1>3 DEF next, num_slots_, Slots
  <1>4. CASE i < MaxElems
    BY <1>1, <1>2, <1>4 DEF next, num_slots_, Slots
  <1> QED
    BY <1>1, <1>2, <1>3, <1>4

\* The constructors build a well-typed queue.
LEMMA InitType == Init => TypeOK
  <1> SUFFICES ASSUME Init PROVE TypeOK
    OBVIOUS
  <1>1. NoAnswer \in [status : Statuses, elem : Values \cup {NoValue}]
    BY DEF NoAnswer, Answer, Statuses
  <1>2. pop_index_ \in Slots /\ push_index_ \in Slots
    BY MaxElemsAssumption DEF Init, Slots
  <1> QED
    BY <1>1, <1>2 DEF Init, TypeOK, PCs

\* Every step of every member function keeps the state well-typed: the
\* indices stay in the ring and the counters never go below zero.
LEMMA NextType == TypeOK /\ [Next]_vars => TypeOK'
  <1> SUFFICES ASSUME TypeOK, [Next]_vars PROVE TypeOK'
    OBVIOUS
  <1> USE DEF TypeOK
  <1>1. CASE UNCHANGED vars
    BY <1>1 DEF vars, queue, waiting, client
  <1>2. ASSUME NEW t \in Threads, Call(t) PROVE TypeOK'
    <2>1. NoAnswer \in [status : Statuses, elem : Values \cup {NoValue}]
      BY DEF NoAnswer, Answer, Statuses
    <2>2. PICK o \in AllOps, v \in Values \cup {NoValue}, p \in {"lock", "closing"} :
              Enter(t, o, v, p)
      BY <1>2 DEF Call, AllOps
    <2> QED
      BY <2>1, <2>2 DEF Enter, PCs, queue, waiting
  <1>3. ASSUME NEW t \in Threads, Acquire(t) PROVE TypeOK'
    BY <1>3 DEF Acquire, PCs, queue, waiting
  <1>4. ASSUME NEW t \in Threads, TryLockFails(t) PROVE TypeOK'
    BY <1>4 DEF TryLockFails, Moved, Answered, Answer, Statuses, PCs, queue, waiting
  <1>5. ASSUME NEW t \in Threads, NEW s \in Statuses, Refuse(t, s), mtx_' = NoThread
        PROVE  TypeOK'
    BY <1>5 DEF Refuse, Moved, Answered, Answer, PCs, queue, waiting
  <1>6. ASSUME NEW t \in Threads, pop_from(t, pop_index_), mtx_' = NoThread
        PROVE  TypeOK'
    <2>1. pop_index_' \in Slots
      BY <1>6, NextInRing DEF pop_from
    <2>2. waiting_full_' \in Nat /\ not_full_' \in SUBSET Threads
      BY <1>6 DEF pop_from, NotifyNotFull
    <2>3. buffer_[pop_index_] \in Values \cup {NoValue}
      OBVIOUS
    <2>4. pc' \in [Threads -> PCs]
      BY <1>6 DEF pop_from, Moved, PCs
    <2>5. op' \in [Threads -> AllOps \cup {"none"}]
      BY <1>6 DEF pop_from, Answered, Thrown, AllOps
    <2>6. /\ arg' \in [Threads -> Values \cup {NoValue}]
          /\ res' \in [Threads -> [status : Statuses, elem : Values \cup {NoValue}]]
      <3>1. PICK s \in {"success", "exception"}, v \in Values \cup {NoValue} :
                /\ arg' = [arg EXCEPT ![t] = NoValue]
                /\ res' = [res EXCEPT ![t] = Answer(s, v)]
        BY <1>6, <2>3 DEF pop_from, Answered, Thrown
      <3> QED
        BY <3>1 DEF Answer, Statuses
    <2> QED
      BY <1>6, <2>1, <2>2, <2>4, <2>5, <2>6 DEF pop_from
  <1>7. ASSUME NEW t \in Threads, push_at(t, push_index_, next(push_index_)), mtx_' = NoThread
        PROVE  TypeOK'
    <2>1. push_index_' \in Slots
      BY <1>7, NextInRing DEF push_at, queue
    <2>2. waiting_empty_' \in Nat /\ not_empty_' \in SUBSET Threads
      BY <1>7 DEF push_at, NotifyNotEmpty, waiting
    <2>3. pc' \in [Threads -> PCs]
      BY <1>7 DEF push_at, Moved, PCs
    <2>4. op' \in [Threads -> AllOps \cup {"none"}]
      BY <1>7 DEF push_at, Answered, Thrown, AllOps
    <2>5. /\ arg' \in [Threads -> Values \cup {NoValue}]
          /\ res' \in [Threads -> [status : Statuses, elem : Values \cup {NoValue}]]
      BY <1>7 DEF push_at, Answered, Thrown, Answer, Statuses
    <2>6. buffer_' \in [Slots -> Values \cup {NoValue}]
      BY <1>7 DEF push_at, queue
    <2> QED
      BY <1>7, <2>1, <2>2, <2>3, <2>4, <2>5, <2>6 DEF push_at, queue, waiting
  <1>8. ASSUME NEW t \in Threads, TryPop(t) PROVE TypeOK'
    BY <1>5, <1>6, <1>8 DEF TryPop, Owns, try_pop_common, Statuses
  <1>9. ASSUME NEW t \in Threads, WaitPop(t) PROVE TypeOK'
    <2>1. CASE pop_index_ # push_index_ /\ pop_from(t, pop_index_)
      BY <1>6, <1>9, <2>1 DEF WaitPop, Owns
    <2>2. CASE Refuse(t, "closed")
      BY <1>5, <1>9, <2>2 DEF WaitPop, Owns, Statuses
    <2>3. CASE Moved(t, "closing", {}) /\ Thrown(t, "close", "closed") /\ UNCHANGED <<queue, waiting>>
      BY <1>9, <2>3 DEF WaitPop, Owns, Moved, Thrown, Answer, Statuses, AllOps, PCs, queue, waiting
    <2>4. CASE /\ waiting_empty_' = waiting_empty_ + 1
               /\ not_empty_' = not_empty_ \cup {t}
               /\ Moved(t, "wait", {})
               /\ UNCHANGED <<queue, waiting_full_, not_full_, op, arg, res>>
      BY <1>9, <2>4 DEF WaitPop, Owns, Moved, PCs, queue
    <2> QED
      BY <1>9, <2>1, <2>2, <2>3, <2>4 DEF WaitPop, wait_pop
  <1>10. ASSUME NEW t \in Threads, TryPush(t) PROVE TypeOK'
    BY <1>5, <1>7, <1>10 DEF TryPush, Owns, try_push_common, Statuses
  <1>11. ASSUME NEW t \in Threads, WaitPush(t) PROVE TypeOK'
    <2>1. CASE Refuse(t, "closed")
      BY <1>5, <1>11, <2>1 DEF WaitPush, Owns, Statuses
    <2>2. CASE push_at(t, push_index_, next(push_index_))
      BY <1>7, <1>11, <2>2 DEF WaitPush, Owns
    <2>3. CASE /\ waiting_full_' = waiting_full_ + 1
               /\ not_full_' = not_full_ \cup {t}
               /\ Moved(t, "wait", {})
               /\ UNCHANGED <<queue, waiting_empty_, not_empty_, op, arg, res>>
      BY <1>11, <2>3 DEF WaitPush, Owns, Moved, PCs, queue
    <2> QED
      BY <1>11, <2>1, <2>2, <2>3 DEF WaitPush, wait_push
  <1>12. ASSUME NEW t \in Threads, is_closed(t) \/ is_empty(t) PROVE TypeOK'
    <2>1. PICK s \in Statuses : Refuse(t, s)
      BY <1>12 DEF is_closed, is_empty, Statuses
    <2> QED
      BY <1>5, <1>12, <2>1 DEF is_closed, is_empty, Owns
  <1>13. ASSUME NEW t \in Threads, close(t) PROVE TypeOK'
    <2>1. CASE op[t] = "value_pop"
      BY <1>13, <2>1 DEF close, Moved, AllOps, PCs
    <2>2. CASE op[t] # "value_pop"
      <3>1. PICK s \in Statuses : Answered(t, s, NoValue)
        BY <1>13, <2>2 DEF close, Statuses
      <3> QED
        BY <1>13, <2>2, <3>1 DEF close, Moved, Answered, Answer, PCs
    <2> QED
      BY <2>1, <2>2
  <1>14. ASSUME NEW t \in Threads, SpuriousWakeup(t) PROVE TypeOK'
    BY <1>14 DEF SpuriousWakeup, Moved, PCs, queue
  <1> QED
    BY <1>1, <1>2, <1>3, <1>4, <1>8, <1>9, <1>10, <1>11, <1>12, <1>13, <1>14
       DEF Next, Step, Body

\* A buffer_queue is always well-typed.
THEOREM TypeCorrect == Spec => []TypeOK
  BY InitType, NextType, PTL DEF Spec

-----------------------------------------------------------------------------
(* The mutex and the wait sets.                                            *)

\* Thread t ends its critical section, goes to p, wakes the threads in W and
\* leaves everybody else's call alone.
Exits(t, p, W) ==
    /\ p \in {"idle", "closing"}
    /\ mtx_' = NoThread
    /\ Moved(t, p, W)
    /\ \A u \in Threads \ {t} : op'[u] = op[u]

BlockingPush == {"wait_push", "push"}
BlockingPop  == {"wait_pop", "value_pop"}

\* The five ways a call's critical section ends, close() being the sixth.
Quiet(t) ==
    /\ pc[t] = "held"
    /\ \E p : /\ Exits(t, p, {})
              /\ op[t] \in BlockingPush \cup BlockingPop => closed_ \/ p = "closing"
    /\ UNCHANGED <<queue, waiting>>

Pops(t) ==
    /\ pc[t] = "held" /\ op[t] \in PopOps
    /\ pop_index_ # push_index_
    /\ pop_index_' = next(pop_index_)
    /\ \E p : \E W \in SUBSET not_full_ : NotifyNotFull(W) /\ Exits(t, p, W)
    /\ UNCHANGED <<closed_, push_index_, waiting_empty_, not_empty_>>

Pushes(t) ==
    /\ pc[t] = "held" /\ op[t] \in PushOps
    /\ ~closed_ /\ next(push_index_) # pop_index_
    /\ push_index_' = next(push_index_)
    /\ \E W \in SUBSET not_empty_ : NotifyNotEmpty(W) /\ Exits(t, "idle", W)
    /\ UNCHANGED <<closed_, pop_index_, waiting_full_, not_full_>>

BlocksFull(t) ==
    /\ pc[t] = "held" /\ op[t] \in BlockingPush
    /\ ~closed_ /\ next(push_index_) = pop_index_
    /\ mtx_' = NoThread
    /\ waiting_full_' = waiting_full_ + 1
    /\ not_full_' = not_full_ \cup {t}
    /\ Moved(t, "wait", {})
    /\ UNCHANGED <<queue, waiting_empty_, not_empty_, op, arg, res>>

BlocksEmpty(t) ==
    /\ pc[t] = "held" /\ op[t] \in BlockingPop
    /\ ~closed_ /\ pop_index_ = push_index_
    /\ mtx_' = NoThread
    /\ waiting_empty_' = waiting_empty_ + 1
    /\ not_empty_' = not_empty_ \cup {t}
    /\ Moved(t, "wait", {})
    /\ UNCHANGED <<queue, waiting_full_, not_full_, op, arg, res>>

\* Every critical section of every member function ends in one of these ways.
LEMMA BodyShape ==
    ASSUME TypeOK, NEW t \in Threads, Body(t)
    PROVE  Quiet(t) \/ Pops(t) \/ Pushes(t) \/ BlocksFull(t) \/ BlocksEmpty(t) \/ close(t)
  <1>1. ASSUME NEW s, Refuse(t, s), pc[t] = "held", mtx_' = NoThread,
               op[t] \in BlockingPush \cup BlockingPop => closed_
        PROVE  Quiet(t)
    <2>1. Exits(t, "idle", {})
      BY <1>1 DEF Exits, Refuse, Answered, TypeOK
    <2> QED
      BY <1>1, <2>1 DEF Quiet, Refuse
  <1>2. ASSUME NEW o, NEW s, Moved(t, "closing", {}), Thrown(t, o, s),
               UNCHANGED <<queue, waiting>>, pc[t] = "held", mtx_' = NoThread
        PROVE  Quiet(t)
    <2>1. Exits(t, "closing", {})
      BY <1>2 DEF Exits, Thrown, TypeOK
    <2> QED
      BY <1>2, <2>1 DEF Quiet
  <1>3. ASSUME pop_from(t, pop_index_), pc[t] = "held", mtx_' = NoThread,
               op[t] \in PopOps, pop_index_ # push_index_
        PROVE  Pops(t)
    <2>1. PICK W \in SUBSET not_full_ :
            /\ NotifyNotFull(W)
            /\ \/ Moved(t, "idle", W) /\ Answered(t, "success", buffer_[pop_index_])
               \/ Moved(t, "closing", W) /\ Thrown(t, op[t], "exception")
               \/ Moved(t, "closing", W) /\ Thrown(t, "close", "exception")
      BY <1>3 DEF pop_from
    <2>2. \A u \in Threads \ {t} : op'[u] = op[u]
      BY <2>1 DEF Answered, Thrown, TypeOK
    <2>3. \E p : Exits(t, p, W)
      BY <1>3, <2>1, <2>2 DEF Exits
    <2> QED
      BY <1>3, <2>1, <2>3 DEF Pops, pop_from
  <1>4. ASSUME push_at(t, push_index_, next(push_index_)), pc[t] = "held", mtx_' = NoThread,
               op[t] \in PushOps, ~closed_, next(push_index_) # pop_index_
        PROVE  Pushes(t) \/ Quiet(t)
    <2>1. CASE Moved(t, "closing", {}) /\ Thrown(t, op[t], "exception") /\ UNCHANGED <<queue, waiting>>
      BY <1>2, <1>4, <2>1
    <2>2. CASE /\ push_index_' = next(push_index_)
               /\ \E W \in SUBSET not_empty_ : NotifyNotEmpty(W) /\ Moved(t, "idle", W)
               /\ Answered(t, "success", NoValue)
               /\ UNCHANGED <<closed_, pop_index_, waiting_full_, not_full_>>
      <3>1. PICK W \in SUBSET not_empty_ : NotifyNotEmpty(W) /\ Moved(t, "idle", W)
        BY <2>2
      <3>2. \A u \in Threads \ {t} : op'[u] = op[u]
        BY <2>2 DEF Answered, TypeOK
      <3>3. Exits(t, "idle", W)
        BY <1>4, <3>1, <3>2 DEF Exits
      <3> QED
        BY <1>4, <2>2, <3>1, <3>3 DEF Pushes
    <2> QED
      BY <1>4, <2>1, <2>2 DEF push_at
  <1> USE DEF Owns, PushOps, PopOps, BlockingPush, BlockingPop
  <1>5. CASE TryPop(t)
    BY <1>1, <1>3, <1>5 DEF TryPop, try_pop_common
  <1>6. CASE WaitPop(t)
    <2>1. CASE pop_index_ # push_index_ /\ pop_from(t, pop_index_)
      BY <1>3, <1>6, <2>1 DEF WaitPop
    <2>2. CASE closed_ /\ Refuse(t, "closed")
      BY <1>1, <1>6, <2>2 DEF WaitPop
    <2>3. CASE Moved(t, "closing", {}) /\ Thrown(t, "close", "closed") /\ UNCHANGED <<queue, waiting>>
      BY <1>2, <1>6, <2>3 DEF WaitPop
    <2> QED
      BY <1>6, <2>1, <2>2, <2>3 DEF WaitPop, wait_pop, BlocksEmpty
  <1>7. CASE TryPush(t)
    BY <1>1, <1>4, <1>7 DEF TryPush, try_push_common
  <1>8. CASE WaitPush(t)
    BY <1>1, <1>4, <1>8 DEF WaitPush, wait_push, BlocksFull
  <1>9. CASE is_closed(t) \/ is_empty(t)
    <2>1. PICK s : Refuse(t, s)
      BY <1>9 DEF is_closed, is_empty
    <2> QED
      BY <1>1, <1>9, <2>1 DEF is_closed, is_empty
  <1> QED
    BY <1>5, <1>6, <1>7, <1>8, <1>9 DEF Body

\* Seen from the mutex and the wait sets, a thread that does not block leaves
\* its critical section and takes the threads it wakes out of the wait sets.
Leaves(t, p, W) ==
    /\ pc[t] \in {"held", "close"}
    /\ Exits(t, p, W)
    /\ W \subseteq not_full_ \cup not_empty_
    /\ not_full_' = not_full_ \ W
    /\ not_empty_' = not_empty_ \ W

\* A critical section that ends without blocking its thread does this, be it
\* a push, a pop, a refusal or close().
LEMMA LeavesShape ==
    ASSUME TypeOK, LockInv, NEW t \in Threads,
           Quiet(t) \/ Pops(t) \/ Pushes(t) \/ close(t)
    PROVE  \E p, W : Leaves(t, p, W)
  <1>0. not_full_ \cap not_empty_ = {}
    BY DEF LockInv
  <1>1. CASE Quiet(t)
    <2>1. PICK p : Exits(t, p, {})
      BY <1>1 DEF Quiet
    <2>2. Leaves(t, p, {})
      BY <1>1, <2>1 DEF Quiet, Leaves, waiting
    <2> QED
      BY <2>2
  <1>2. CASE Pops(t)
    <2>1. PICK p, W : W \in SUBSET not_full_ /\ NotifyNotFull(W) /\ Exits(t, p, W)
      BY <1>2 DEF Pops
    <2>2. Leaves(t, p, W)
      BY <1>0, <1>2, <2>1 DEF Pops, Leaves, NotifyNotFull
    <2> QED
      BY <2>2
  <1>3. CASE Pushes(t)
    <2>1. PICK W \in SUBSET not_empty_ : NotifyNotEmpty(W) /\ Exits(t, "idle", W)
      BY <1>3 DEF Pushes
    <2>2. Leaves(t, "idle", W)
      BY <1>0, <1>3, <2>1 DEF Pushes, Leaves, NotifyNotEmpty
    <2> QED
      BY <2>2
  <1>4. CASE close(t)
    <2> DEFINE W == not_empty_ \cup not_full_
    <2>1. \A u \in Threads \ {t} : op'[u] = op[u]
      BY <1>4 DEF close, Answered, TypeOK
    <2>2. PICK p \in {"idle", "closing"} : Moved(t, p, W)
      BY <1>4 DEF close
    <2>3. not_full_' = not_full_ \ W /\ not_empty_' = not_empty_ \ W
      BY <1>4 DEF close
    <2>4. Leaves(t, p, W)
      BY <1>4, <2>1, <2>2, <2>3 DEF close, Leaves, Exits
    <2> QED
      BY <2>4
  <1> QED
    BY <1>1, <1>2, <1>3, <1>4

\* A constructed queue has nobody inside it.
LEMMA InitLock == Init => LockInv
  BY ThreadsAssumption DEF Init, LockInv

\* No step lets two threads into the critical section or loses track of a
\* blocked thread.
LEMMA NextLock == TypeOK /\ LockInv /\ [Next]_vars => LockInv'
  <1> SUFFICES ASSUME TypeOK, LockInv, [Next]_vars PROVE LockInv'
    OBVIOUS
  <1>1. CASE UNCHANGED vars
    BY <1>1 DEF vars, waiting, client, LockInv
  <1>2. ASSUME NEW t \in Threads, Call(t) PROVE LockInv'
    <2>1. PICK o \in AllOps, v \in Values \cup {NoValue}, p \in {"lock", "closing"} :
              Enter(t, o, v, p)
      BY <1>2 DEF Call, AllOps
    <2> QED
      BY <2>1 DEF Enter, LockInv, waiting, TypeOK
  <1>3. ASSUME NEW t \in Threads, Acquire(t) PROVE LockInv'
    BY <1>3, ThreadsAssumption DEF Acquire, LockInv, waiting, TypeOK
  <1>4. ASSUME NEW t \in Threads, TryLockFails(t) PROVE LockInv'
    BY <1>4 DEF TryLockFails, Moved, Answered, LockInv, waiting, TypeOK
  <1>5. ASSUME NEW t \in Threads, NEW p, NEW W, Leaves(t, p, W) PROVE LockInv'
    <2>1. mtx_ = t
      BY <1>5 DEF Leaves, LockInv
    <2>2. t \notin not_full_ \cup not_empty_
      BY <1>5 DEF Leaves, LockInv
    <2>3. \A u \in Threads : pc'[u] = IF u = t THEN p ELSE IF u \in W THEN "lock" ELSE pc[u]
      BY <1>5 DEF Leaves, Exits, Moved
    <2>4. \A u \in Threads : pc'[u] \in {"held", "close"} <=> mtx_' = u
      BY <1>5, <2>1, <2>3, ThreadsAssumption DEF Leaves, Exits, LockInv, TypeOK
    <2>5. \A u \in Threads : pc'[u] = "wait" <=> u \in not_full_' \cup not_empty_'
      BY <1>5, <2>2, <2>3 DEF Leaves, Exits, LockInv
    <2>6. (\A u \in not_full_' : op'[u] \in {"wait_push", "push"})
          /\ (\A u \in not_empty_' : op'[u] \in {"wait_pop", "value_pop"})
      BY <1>5, <2>2 DEF Leaves, Exits, LockInv, TypeOK
    <2> QED
      BY <2>4, <2>5, <2>6 DEF LockInv
  <1>6. ASSUME NEW t \in Threads, BlocksFull(t) \/ BlocksEmpty(t) PROVE LockInv'
    <2>1. mtx_ = t
      BY <1>6 DEF BlocksFull, BlocksEmpty, BlockingPush, BlockingPop, LockInv
    <2>2. \A u \in Threads : pc'[u] = IF u = t THEN "wait" ELSE pc[u]
      BY <1>6 DEF BlocksFull, BlocksEmpty, Moved
    <2>3. \A u \in Threads : pc'[u] \in {"held", "close"} <=> mtx_' = u
      BY <1>6, <2>1, <2>2, ThreadsAssumption DEF BlocksFull, BlocksEmpty, BlockingPush, BlockingPop, LockInv
    <2> QED
      BY <1>6, <2>2, <2>3 DEF BlocksFull, BlocksEmpty, BlockingPush, BlockingPop, LockInv
  <1>7. ASSUME NEW t \in Threads, SpuriousWakeup(t) PROVE LockInv'
    BY <1>7 DEF SpuriousWakeup, Moved, LockInv, TypeOK
  <1> QED
    BY <1>1, <1>2, <1>3, <1>4, <1>5, <1>6, <1>7, BodyShape, LeavesShape DEF Next, Step

\* Mutual exclusion on mtx_, and the wait sets hold exactly the blocked calls.
THEOREM LockCorrect == Spec => []LockInv
  <1>1. Init => TypeOK /\ LockInv
    BY InitType, InitLock
  <1>2. TypeOK /\ LockInv /\ [Next]_vars => (TypeOK /\ LockInv)'
    BY NextType, NextLock
  <1> QED
    BY <1>1, <1>2, PTL DEF Spec

-----------------------------------------------------------------------------
(* The counters and the wakeups.                                           *)

\* Counting subsets of the (finite) set of threads.
LEMMA CardSubset ==
    ASSUME NEW A, NEW B, A \subseteq B, B \subseteq Threads
    PROVE  /\ Cardinality(A) \in Nat /\ Cardinality(B) \in Nat
           /\ Cardinality(A) <= Cardinality(B)
  <1>1. IsFiniteSet(A) /\ IsFiniteSet(B)
    BY FS_Subset, ThreadsAssumption
  <1> QED
    BY <1>1, FS_Subset, FS_CardinalityType

\* A set of threads that has all of A and one thread more is larger by at
\* least one.
LEMMA CardAdd ==
    ASSUME NEW A, NEW B, NEW w, w \notin A, A \cup {w} \subseteq B, B \subseteq Threads
    PROVE  /\ Cardinality(A) \in Nat /\ Cardinality(B) \in Nat
           /\ Cardinality(A) + 1 <= Cardinality(B)
  <1>1. IsFiniteSet(A)
    BY FS_Subset, ThreadsAssumption
  <1>2. Cardinality(A \cup {w}) = Cardinality(A) + 1
    BY <1>1, FS_AddElement
  <1>3. Cardinality(A \cup {w}) <= Cardinality(B) /\ Cardinality(B) \in Nat
    BY CardSubset
  <1> QED
    BY <1>1, <1>2, <1>3, FS_CardinalityType

\* Taking one thread out of a set of threads makes it smaller by at most one.
LEMMA CardRemove ==
    ASSUME NEW A, NEW B, NEW t \in Threads, A \subseteq Threads, A \ {t} \subseteq B, B \subseteq Threads
    PROVE  /\ Cardinality(A) \in Nat /\ Cardinality(B) \in Nat
           /\ Cardinality(A) <= Cardinality(B) + 1
  <1>1. CASE t \in B
    <2>1. A \subseteq B
      BY <1>1
    <2> QED
      BY <2>1, CardSubset
  <1>2. CASE t \notin B
    <2>1. IsFiniteSet(B)
      BY FS_Subset, ThreadsAssumption
    <2>2. Cardinality(B \cup {t}) = Cardinality(B) + 1
      BY <1>2, <2>1, FS_AddElement
    <2>3. A \subseteq B \cup {t} /\ B \cup {t} \subseteq Threads
      OBVIOUS
    <2>4. Cardinality(A) <= Cardinality(B \cup {t}) /\ Cardinality(A) \in Nat
      BY <2>3, CardSubset
    <2> QED
      BY <2>1, <2>2, <2>4, FS_CardinalityType
  <1> QED
    BY <1>1, <1>2

\* What a notification does to the counter and the wait set it is about.
LEMMA NotifyFullEffect ==
    ASSUME TypeOK, Cardinality(not_full_) <= waiting_full_,
           NEW W \in SUBSET not_full_, NotifyNotFull(W)
    PROVE  /\ Cardinality(not_full_') <= waiting_full_'
           /\ not_full_' = not_full_ \ W
           /\ not_full_ # {} => \E w \in not_full_ : W = {w}
  <1>1. not_full_ \subseteq Threads /\ IsFiniteSet(not_full_)
    BY FS_Subset, ThreadsAssumption DEF TypeOK
  <1>2. CASE not_full_ = {}
    <2>1. Cardinality({}) = 0
      BY FS_EmptySet
    <2>2. not_full_' = {}
      BY <1>2 DEF NotifyNotFull
    <2>3. waiting_full_' \in Nat
      BY DEF NotifyNotFull, TypeOK
    <2> QED
      BY <1>2, <2>1, <2>2, <2>3
  <1>3. CASE not_full_ # {}
    <2>1. PICK x : x \in not_full_
      BY <1>3
    <2>2. Cardinality({}) + 1 <= Cardinality(not_full_)
      BY <1>1, <2>1, CardAdd
    <2>3. waiting_full_ > 0
      BY <2>2, <1>1, FS_EmptySet, FS_CardinalityType DEF TypeOK
    <2>4. PICK w \in not_full_ : W = {w}
      BY <1>3, <2>3 DEF NotifyNotFull, NotifyOne
    <2>5. not_full_' = not_full_ \ {w} /\ waiting_full_' = waiting_full_ - 1
      BY <2>3, <2>4 DEF NotifyNotFull
    <2>6. Cardinality(not_full_') = Cardinality(not_full_) - 1
      BY <1>1, <2>5, FS_RemoveElement
    <2> QED
      BY <1>1, <2>4, <2>5, <2>6, FS_CardinalityType DEF TypeOK
  <1> QED
    BY <1>2, <1>3

\* The same for the notification that push_reindex makes.
LEMMA NotifyEmptyEffect ==
    ASSUME TypeOK, Cardinality(not_empty_) <= waiting_empty_,
           NEW W \in SUBSET not_empty_, NotifyNotEmpty(W)
    PROVE  /\ Cardinality(not_empty_') <= waiting_empty_'
           /\ not_empty_' = not_empty_ \ W
           /\ not_empty_ # {} => \E w \in not_empty_ : W = {w}
  <1>1. not_empty_ \subseteq Threads /\ IsFiniteSet(not_empty_)
    BY FS_Subset, ThreadsAssumption DEF TypeOK
  <1>2. CASE not_empty_ = {}
    <2>1. Cardinality({}) = 0
      BY FS_EmptySet
    <2>2. not_empty_' = {}
      BY <1>2 DEF NotifyNotEmpty
    <2>3. waiting_empty_' \in Nat
      BY DEF NotifyNotEmpty, TypeOK
    <2> QED
      BY <1>2, <2>1, <2>2, <2>3
  <1>3. CASE not_empty_ # {}
    <2>1. PICK x : x \in not_empty_
      BY <1>3
    <2>2. Cardinality({}) + 1 <= Cardinality(not_empty_)
      BY <1>1, <2>1, CardAdd
    <2>3. waiting_empty_ > 0
      BY <2>2, <1>1, FS_EmptySet, FS_CardinalityType DEF TypeOK
    <2>4. PICK w \in not_empty_ : W = {w}
      BY <1>3, <2>3 DEF NotifyNotEmpty, NotifyOne
    <2>5. not_empty_' = not_empty_ \ {w} /\ waiting_empty_' = waiting_empty_ - 1
      BY <2>3, <2>4 DEF NotifyNotEmpty
    <2>6. Cardinality(not_empty_') = Cardinality(not_empty_) - 1
      BY <1>1, <2>5, FS_RemoveElement
    <2> QED
      BY <1>1, <2>4, <2>5, <2>6, FS_CardinalityType DEF TypeOK
  <1> QED
    BY <1>2, <1>3

\* A constructed queue has no waiters, so its counters cover them.
LEMMA InitCounters == Init => CountersCoverWaiters /\ ClosedWakesAll
  BY FS_EmptySet DEF Init, CountersCoverWaiters, ClosedWakesAll

\* No step makes a counter lag behind the threads blocked on its condition
\* variable, or lets a thread block on a closed queue.
LEMMA NextCounters ==
    TypeOK /\ LockInv /\ CountersCoverWaiters /\ ClosedWakesAll /\ [Next]_vars
        => (CountersCoverWaiters /\ ClosedWakesAll)'
  <1> SUFFICES ASSUME TypeOK, LockInv, CountersCoverWaiters, ClosedWakesAll, [Next]_vars
               PROVE  (CountersCoverWaiters /\ ClosedWakesAll)'
    OBVIOUS
  <1>0. not_full_ \subseteq Threads /\ not_empty_ \subseteq Threads
    BY DEF TypeOK
  <1>1. ASSUME UNCHANGED <<closed_, waiting>> PROVE (CountersCoverWaiters /\ ClosedWakesAll)'
    BY <1>1 DEF waiting, CountersCoverWaiters, ClosedWakesAll
  <1>2. CASE UNCHANGED vars
    BY <1>1, <1>2 DEF vars, queue
  <1>3. ASSUME NEW t \in Threads, Call(t) \/ Acquire(t) \/ TryLockFails(t) \/ Quiet(t)
        PROVE  (CountersCoverWaiters /\ ClosedWakesAll)'
    BY <1>1, <1>3 DEF Call, Enter, Acquire, TryLockFails, Quiet, queue
  <1>4. ASSUME NEW t \in Threads, Pops(t) PROVE (CountersCoverWaiters /\ ClosedWakesAll)'
    BY <1>4, NotifyFullEffect DEF Pops, CountersCoverWaiters, ClosedWakesAll
  <1>5. ASSUME NEW t \in Threads, Pushes(t) PROVE (CountersCoverWaiters /\ ClosedWakesAll)'
    BY <1>5, NotifyEmptyEffect DEF Pushes, CountersCoverWaiters, ClosedWakesAll
  <1>6. ASSUME NEW t \in Threads, BlocksFull(t) PROVE (CountersCoverWaiters /\ ClosedWakesAll)'
    <2>1. IsFiniteSet(not_full_) /\ t \notin not_full_
      BY <1>0, <1>6, FS_Subset, ThreadsAssumption DEF BlocksFull, LockInv
    <2>2. Cardinality(not_full_ \cup {t}) = Cardinality(not_full_) + 1
      BY <2>1, FS_AddElement
    <2> QED
      BY <1>6, <2>1, <2>2, FS_CardinalityType
         DEF BlocksFull, queue, CountersCoverWaiters, ClosedWakesAll, TypeOK
  <1>7. ASSUME NEW t \in Threads, BlocksEmpty(t) PROVE (CountersCoverWaiters /\ ClosedWakesAll)'
    <2>1. IsFiniteSet(not_empty_) /\ t \notin not_empty_
      BY <1>0, <1>7, FS_Subset, ThreadsAssumption DEF BlocksEmpty, LockInv
    <2>2. Cardinality(not_empty_ \cup {t}) = Cardinality(not_empty_) + 1
      BY <2>1, FS_AddElement
    <2> QED
      BY <1>7, <2>1, <2>2, FS_CardinalityType
         DEF BlocksEmpty, queue, CountersCoverWaiters, ClosedWakesAll, TypeOK
  <1>8. ASSUME NEW t \in Threads, close(t) PROVE (CountersCoverWaiters /\ ClosedWakesAll)'
    BY <1>8, FS_EmptySet DEF close, CountersCoverWaiters, ClosedWakesAll, TypeOK
  <1>9. ASSUME NEW t \in Threads, SpuriousWakeup(t)
        PROVE  (CountersCoverWaiters /\ ClosedWakesAll)'
    <2>1. /\ Cardinality(not_full_ \ {t}) <= Cardinality(not_full_)
          /\ Cardinality(not_full_ \ {t}) \in Nat /\ Cardinality(not_full_) \in Nat
      BY <1>0, CardSubset
    <2>2. /\ Cardinality(not_empty_ \ {t}) <= Cardinality(not_empty_)
          /\ Cardinality(not_empty_ \ {t}) \in Nat /\ Cardinality(not_empty_) \in Nat
      BY <1>0, CardSubset
    <2> QED
      BY <1>9, <2>1, <2>2 DEF SpuriousWakeup, queue, CountersCoverWaiters, ClosedWakesAll, TypeOK
  <1> QED
    BY <1>2, <1>3, <1>4, <1>5, <1>6, <1>7, <1>8, <1>9, BodyShape DEF Next, Step

\* The element count as the indices move around the ring.
LEMMA CountFacts ==
    ASSUME TypeOK
    PROVE  /\ Count \in 0 .. MaxElems
           /\ Count = 0 <=> pop_index_ = push_index_
           /\ Count = MaxElems <=> next(push_index_) = pop_index_
           /\ (/\ pop_index_ # push_index_ /\ pop_index_' = next(pop_index_)
               /\ UNCHANGED push_index_) => Count' = Count - 1
           /\ (/\ next(push_index_) # pop_index_ /\ push_index_' = next(push_index_)
               /\ UNCHANGED pop_index_) => Count' = Count + 1
  <1>1. MaxElems \in Nat /\ MaxElems >= 1
    BY MaxElemsAssumption
  <1>2. /\ push_index_ \in Nat /\ push_index_ <= MaxElems
        /\ pop_index_ \in Nat /\ pop_index_ <= MaxElems
    BY <1>1 DEF TypeOK, Slots
  <1>3. /\ next(push_index_) = IF push_index_ = MaxElems THEN 0 ELSE push_index_ + 1
        /\ next(pop_index_) = IF pop_index_ = MaxElems THEN 0 ELSE pop_index_ + 1
    BY NextInRing DEF TypeOK
  <1> QED
    BY <1>1, <1>2, <1>3 DEF Count, num_slots_

\* A step that blocks nobody new, keeps every awake thread awake and every
\* failing one failing, and does not touch the indices, keeps both halves.
LEMMA ServedFrame ==
    ASSUME TypeOK, NoLostWakeup,
           UNCHANGED <<push_index_, pop_index_>>,
           not_full_' \subseteq not_full_, not_empty_' \subseteq not_empty_,
           AwakePushers \subseteq AwakePushers', AwakePoppers \subseteq AwakePoppers',
           Failing # {} => Failing' # {}
    PROVE  NoLostWakeup'
  <1>1. Count' = Count /\ Count \in 0 .. MaxElems /\ MaxElems \in Nat
    BY CountFacts, MaxElemsAssumption DEF Count
  <1>2. AwakePushers' \subseteq Threads /\ AwakePoppers' \subseteq Threads
    BY DEF AwakePushers, AwakePoppers
  <1>3. /\ Cardinality(AwakePushers) <= Cardinality(AwakePushers')
        /\ Cardinality(AwakePushers) \in Nat /\ Cardinality(AwakePushers') \in Nat
    BY <1>2, CardSubset
  <1>4. /\ Cardinality(AwakePoppers) <= Cardinality(AwakePoppers')
        /\ Cardinality(AwakePoppers) \in Nat /\ Cardinality(AwakePoppers') \in Nat
    BY <1>2, CardSubset
  <1> QED
    BY <1>1, <1>3, <1>4 DEF NoLostWakeup

\* Nobody is blocked on a constructed queue.
LEMMA InitWakeup == Init => NoLostWakeup
  BY DEF Init, NoLostWakeup

\* Every step keeps a waker for whoever is blocked and could go on.
LEMMA NextWakeup ==
    TypeOK /\ LockInv /\ CountersCoverWaiters /\ ClosedWakesAll /\ NoLostWakeup /\ [Next]_vars
        => NoLostWakeup'
  <1> SUFFICES ASSUME TypeOK, LockInv, CountersCoverWaiters, ClosedWakesAll,
                      NoLostWakeup, [Next]_vars
               PROVE  NoLostWakeup'
    OBVIOUS
  <1>0. /\ MaxElems \in Nat /\ Count \in 0 .. MaxElems
        /\ AwakePushers \subseteq Threads /\ AwakePoppers \subseteq Threads
        /\ AwakePushers' \subseteq Threads /\ AwakePoppers' \subseteq Threads
    BY CountFacts, MaxElemsAssumption DEF AwakePushers, AwakePoppers
  <1>1. CASE UNCHANGED vars
    BY <1>1, ServedFrame DEF vars, queue, waiting, client, AwakePushers, AwakePoppers, Failing
  <1>2. ASSUME NEW t \in Threads, Call(t) PROVE NoLostWakeup'
    <2>1. PICK o \in AllOps, v \in Values \cup {NoValue}, p \in {"lock", "closing"} :
              Enter(t, o, v, p)
      BY <1>2 DEF Call, AllOps
    <2>2. AwakePushers \subseteq AwakePushers' /\ AwakePoppers \subseteq AwakePoppers'
      BY <2>1 DEF Enter, AwakePushers, AwakePoppers, TypeOK
    <2>3. Failing \subseteq Failing'
      BY <2>1 DEF Enter, Failing, TypeOK
    <2> QED
      BY <2>1, <2>2, <2>3, ServedFrame DEF Enter, queue, waiting
  <1>3. ASSUME NEW t \in Threads, Acquire(t) PROVE NoLostWakeup'
    <2>1. AwakePushers \subseteq AwakePushers' /\ AwakePoppers \subseteq AwakePoppers'
      BY <1>3 DEF Acquire, AwakePushers, AwakePoppers, TypeOK
    <2>2. Failing \subseteq Failing'
      BY <1>3 DEF Acquire, Failing, TypeOK
    <2> QED
      BY <1>3, <2>1, <2>2, ServedFrame DEF Acquire, queue, waiting
  <1>4. ASSUME NEW t \in Threads, TryLockFails(t) PROVE NoLostWakeup'
    <2>1. AwakePushers \subseteq AwakePushers' /\ AwakePoppers \subseteq AwakePoppers'
      BY <1>4 DEF TryLockFails, NonblockingOps, Moved, Answered, AwakePushers, AwakePoppers, TypeOK
    <2>2. Failing \subseteq Failing'
      BY <1>4 DEF TryLockFails, Moved, Failing, TypeOK
    <2> QED
      BY <1>4, <2>1, <2>2, ServedFrame DEF TryLockFails, queue, waiting
  <1>5. ASSUME NEW t \in Threads, SpuriousWakeup(t) PROVE NoLostWakeup'
    <2>1. AwakePushers \subseteq AwakePushers' /\ AwakePoppers \subseteq AwakePoppers'
      BY <1>5 DEF SpuriousWakeup, Moved, AwakePushers, AwakePoppers, TypeOK
    <2>2. Failing \subseteq Failing'
      BY <1>5 DEF SpuriousWakeup, Moved, Failing, TypeOK
    <2> QED
      BY <1>5, <2>1, <2>2, ServedFrame DEF SpuriousWakeup, queue
  <1>6. ASSUME NEW t \in Threads, NEW p, NEW W, Exits(t, p, W), pc[t] = "held",
               W \subseteq not_full_ \cup not_empty_
        PROVE  /\ AwakePushers \ {t} \subseteq AwakePushers'
               /\ AwakePoppers \ {t} \subseteq AwakePoppers'
               /\ W \subseteq not_full_ => W \subseteq AwakePushers'
               /\ W \subseteq not_empty_ => W \subseteq AwakePoppers'
               /\ Failing # {} \/ p = "closing" => Failing' # {}
    <2>1. \A u \in Threads : pc'[u] = IF u = t THEN p ELSE IF u \in W THEN "lock" ELSE pc[u]
      BY <1>6 DEF Exits, Moved
    <2>2. \A u \in Threads \ {t} : op'[u] = op[u]
      BY <1>6 DEF Exits
    <2>3. t \notin not_full_ \cup not_empty_
      BY <1>6 DEF LockInv
    <2>4. /\ AwakePushers \ {t} \subseteq AwakePushers'
          /\ AwakePoppers \ {t} \subseteq AwakePoppers'
      BY <2>1, <2>2 DEF AwakePushers, AwakePoppers
    <2>5. W \subseteq not_full_ => W \subseteq AwakePushers'
      BY <2>1, <2>2, <2>3 DEF AwakePushers, LockInv, TypeOK
    <2>6. W \subseteq not_empty_ => W \subseteq AwakePoppers'
      BY <2>1, <2>2, <2>3 DEF AwakePoppers, LockInv, TypeOK
    <2>7. Failing # {} => Failing' # {}
      BY <1>6, <2>1 DEF Failing, LockInv
    <2>8. p = "closing" => t \in Failing'
      BY <2>1 DEF Failing
    <2> QED
      BY <2>4, <2>5, <2>6, <2>7, <2>8
  <1>7. ASSUME NEW t \in Threads, Quiet(t) PROVE NoLostWakeup'
    <2>1. PICK p : /\ Exits(t, p, {})
                   /\ op[t] \in BlockingPush \cup BlockingPop => closed_ \/ p = "closing"
      BY <1>7 DEF Quiet
    <2>2. pc[t] = "held" /\ UNCHANGED <<push_index_, pop_index_, not_full_, not_empty_>>
      BY <1>7 DEF Quiet, queue, waiting
    <2>3. /\ AwakePushers \ {t} \subseteq AwakePushers'
          /\ AwakePoppers \ {t} \subseteq AwakePoppers'
          /\ Failing # {} \/ p = "closing" => Failing' # {}
      BY <1>6, <2>1, <2>2
    <2>4. CASE closed_ \/ p = "closing"
      BY <2>2, <2>3, <2>4 DEF ClosedWakesAll, NoLostWakeup
    <2>5. CASE op[t] \notin BlockingPush \cup BlockingPop
      <3>1. t \notin AwakePushers /\ t \notin AwakePoppers
        BY <2>5 DEF AwakePushers, AwakePoppers, BlockingPush, BlockingPop
      <3> QED
        BY <2>2, <2>3, <3>1, ServedFrame
    <2> QED
      BY <2>1, <2>4, <2>5
  <1>8. ASSUME NEW t \in Threads, Pops(t) PROVE NoLostWakeup'
    <2>1. PICK p, W : W \in SUBSET not_full_ /\ NotifyNotFull(W) /\ Exits(t, p, W)
      BY <1>8 DEF Pops
    <2>2. /\ AwakePushers \ {t} \subseteq AwakePushers'
          /\ AwakePoppers \ {t} \subseteq AwakePoppers'
          /\ W \subseteq AwakePushers'
          /\ Failing # {} => Failing' # {}
      BY <1>6, <1>8, <2>1 DEF Pops
    <2>3. Count' = Count - 1
      BY <1>8, CountFacts DEF Pops
    <2>4. ASSUME not_full_' # {}, Failing' = {}
          PROVE  MaxElems - Count' <= Cardinality(AwakePushers')
      <3>1. not_full_ # {} /\ Failing = {}
        BY <2>1, <2>2, <2>4, NotifyFullEffect DEF CountersCoverWaiters
      <3>2. PICK w \in not_full_ : W = {w}
        BY <2>1, <3>1, NotifyFullEffect DEF CountersCoverWaiters
      <3>3. t \notin AwakePushers /\ w \notin AwakePushers
        BY <1>8, <3>2 DEF Pops, PopOps, AwakePushers, LockInv
      <3>4. AwakePushers \cup {w} \subseteq AwakePushers'
        BY <2>2, <3>2, <3>3
      <3>5. /\ Cardinality(AwakePushers) + 1 <= Cardinality(AwakePushers')
            /\ Cardinality(AwakePushers) \in Nat /\ Cardinality(AwakePushers') \in Nat
        BY <1>0, <3>3, <3>4, CardAdd
      <3>6. MaxElems - Count <= Cardinality(AwakePushers)
        BY <3>1 DEF NoLostWakeup
      <3> QED
        BY <1>0, <2>3, <3>5, <3>6
    <2>5. ASSUME not_empty_' # {}, Failing' = {}
          PROVE  Count' <= Cardinality(AwakePoppers')
      <3>1. not_empty_ # {} /\ Failing = {}
        BY <1>8, <2>2, <2>5 DEF Pops
      <3>2. /\ Cardinality(AwakePoppers) <= Cardinality(AwakePoppers') + 1
            /\ Cardinality(AwakePoppers) \in Nat /\ Cardinality(AwakePoppers') \in Nat
        BY <1>0, <2>2, CardRemove
      <3>3. Count <= Cardinality(AwakePoppers)
        BY <3>1 DEF NoLostWakeup
      <3> QED
        BY <1>0, <2>3, <3>2, <3>3
    <2> QED
      BY <2>4, <2>5 DEF NoLostWakeup
  <1>9. ASSUME NEW t \in Threads, Pushes(t) PROVE NoLostWakeup'
    <2>1. PICK W \in SUBSET not_empty_ : NotifyNotEmpty(W) /\ Exits(t, "idle", W)
      BY <1>9 DEF Pushes
    <2>2. /\ AwakePushers \ {t} \subseteq AwakePushers'
          /\ AwakePoppers \ {t} \subseteq AwakePoppers'
          /\ W \subseteq AwakePoppers'
          /\ Failing # {} => Failing' # {}
      BY <1>6, <1>9, <2>1 DEF Pushes
    <2>3. Count' = Count + 1
      BY <1>9, CountFacts DEF Pushes
    <2>4. ASSUME not_empty_' # {}, Failing' = {}
          PROVE  Count' <= Cardinality(AwakePoppers')
      <3>1. not_empty_ # {} /\ Failing = {}
        BY <2>1, <2>2, <2>4, NotifyEmptyEffect DEF CountersCoverWaiters
      <3>2. PICK w \in not_empty_ : W = {w}
        BY <2>1, <3>1, NotifyEmptyEffect DEF CountersCoverWaiters
      <3>3. t \notin AwakePoppers /\ w \notin AwakePoppers
        BY <1>9, <3>2 DEF Pushes, PushOps, AwakePoppers, LockInv
      <3>4. AwakePoppers \cup {w} \subseteq AwakePoppers'
        BY <2>2, <3>2, <3>3
      <3>5. /\ Cardinality(AwakePoppers) + 1 <= Cardinality(AwakePoppers')
            /\ Cardinality(AwakePoppers) \in Nat /\ Cardinality(AwakePoppers') \in Nat
        BY <1>0, <3>3, <3>4, CardAdd
      <3>6. Count <= Cardinality(AwakePoppers)
        BY <3>1 DEF NoLostWakeup
      <3> QED
        BY <1>0, <2>3, <3>5, <3>6
    <2>5. ASSUME not_full_' # {}, Failing' = {}
          PROVE  MaxElems - Count' <= Cardinality(AwakePushers')
      <3>1. not_full_ # {} /\ Failing = {}
        BY <1>9, <2>2, <2>5 DEF Pushes
      <3>2. /\ Cardinality(AwakePushers) <= Cardinality(AwakePushers') + 1
            /\ Cardinality(AwakePushers) \in Nat /\ Cardinality(AwakePushers') \in Nat
        BY <1>0, <2>2, CardRemove
      <3>3. MaxElems - Count <= Cardinality(AwakePushers)
        BY <3>1 DEF NoLostWakeup
      <3> QED
        BY <1>0, <2>3, <3>2, <3>3
    <2> QED
      BY <2>4, <2>5 DEF NoLostWakeup
  <1>10. ASSUME NEW t \in Threads, BlocksFull(t) PROVE NoLostWakeup'
    <2>1. \A u \in Threads : pc'[u] = IF u = t THEN "wait" ELSE pc[u]
      BY <1>10 DEF BlocksFull, Moved
    <2>2. Failing \subseteq Failing' /\ AwakePoppers \subseteq AwakePoppers'
      BY <1>10, <2>1 DEF BlocksFull, BlockingPush, Failing, AwakePoppers
    <2>3. Count' = Count /\ Count = MaxElems
      BY <1>10, CountFacts DEF BlocksFull, queue, Count
    <2>4. /\ Cardinality(AwakePoppers) <= Cardinality(AwakePoppers')
          /\ Cardinality(AwakePoppers) \in Nat /\ Cardinality(AwakePoppers') \in Nat
      BY <1>0, <2>2, CardSubset
    <2>5. Cardinality(AwakePushers') \in Nat
      BY <1>0, CardSubset
    <2> QED
      BY <1>0, <1>10, <2>2, <2>3, <2>4, <2>5 DEF BlocksFull, NoLostWakeup
  <1>11. ASSUME NEW t \in Threads, BlocksEmpty(t) PROVE NoLostWakeup'
    <2>1. \A u \in Threads : pc'[u] = IF u = t THEN "wait" ELSE pc[u]
      BY <1>11 DEF BlocksEmpty, Moved
    <2>2. Failing \subseteq Failing' /\ AwakePushers \subseteq AwakePushers'
      BY <1>11, <2>1 DEF BlocksEmpty, BlockingPop, Failing, AwakePushers
    <2>3. Count' = Count /\ Count = 0
      BY <1>11, CountFacts DEF BlocksEmpty, queue, Count
    <2>4. /\ Cardinality(AwakePushers) <= Cardinality(AwakePushers')
          /\ Cardinality(AwakePushers) \in Nat /\ Cardinality(AwakePushers') \in Nat
      BY <1>0, <2>2, CardSubset
    <2>5. Cardinality(AwakePoppers') \in Nat
      BY <1>0, CardSubset
    <2> QED
      BY <1>0, <1>11, <2>2, <2>3, <2>4, <2>5 DEF BlocksEmpty, NoLostWakeup
  <1>12. ASSUME NEW t \in Threads, close(t) PROVE NoLostWakeup'
    BY <1>12 DEF close, NoLostWakeup
  <1> QED
    BY <1>1, <1>2, <1>3, <1>4, <1>5, <1>7, <1>8, <1>9, <1>10, <1>11, <1>12, BodyShape
       DEF Next, Step

-----------------------------------------------------------------------------
(* The theorems.  Only all parts together are inductive: the wakeup        *)
(* argument needs the counters, the counters need the lock discipline.     *)

IInv == TypeOK /\ LockInv /\ CountersCoverWaiters /\ ClosedWakesAll /\ NoLostWakeup

\* The conjunction of the invariants is inductive: it holds of a constructed
\* queue and every step of every member function preserves it.
LEMMA Inductive == Spec => []IInv
  <1>1. Init => IInv
    BY InitType, InitLock, InitCounters, InitWakeup DEF IInv
  <1>2. IInv /\ [Next]_vars => IInv'
    BY NextType, NextLock, NextCounters, NextWakeup DEF IInv
  <1> QED
    BY <1>1, <1>2, PTL DEF Spec

\* waiting_full_ and waiting_empty_ never undercount the blocked threads, so
\* skipping a notification when they are zero is sound.
THEOREM CountersCorrect == Spec => []CountersCoverWaiters
  <1>1. IInv => CountersCoverWaiters
    BY DEF IInv
  <1> QED
    BY <1>1, Inductive, PTL

\* No push or pop stays blocked while there is room or an element for it and
\* nobody awake to take it.
THEOREM NoLostWakeupCorrect == Spec => []NoLostWakeup
  <1>1. IInv => NoLostWakeup
    BY DEF IInv
  <1> QED
    BY <1>1, Inductive, PTL

\* close() leaves nobody blocked and nobody blocks afterwards.
THEOREM ClosedCorrect == Spec => []ClosedWakesAll
  <1>1. IInv => ClosedWakesAll
    BY DEF IInv
  <1> QED
    BY <1>1, Inductive, PTL

-----------------------------------------------------------------------------
(* The queue implements BoundedQueue.                                      *)

\* A thread that is on its way to push has an element to push.
ArgInv ==
    \A t \in Threads :
        op[t] \in PushOps /\ pc[t] \in {"lock", "held", "wait"} => arg[t] \in Values

\* Division by the number of slots takes an index that has run over the end
\* of the ring back to its beginning.
LEMMA Wraps ==
    ASSUME NEW x \in Nat, x < 2 * num_slots_
    PROVE  /\ x < num_slots_ => x % num_slots_ = x
           /\ x >= num_slots_ => x % num_slots_ = x - num_slots_
  <1>1. num_slots_ \in Nat /\ num_slots_ >= 2
    BY MaxElemsAssumption DEF num_slots_
  <1> HIDE DEF num_slots_
  <1>2. ASSUME x < num_slots_ PROVE x % num_slots_ = x
    BY <1>1, <1>2
  <1>3. ASSUME x >= num_slots_ PROVE x % num_slots_ = x - num_slots_
    BY <1>1, <1>3
  <1> QED
    BY <1>2, <1>3

\* The slot of the i-th element from slot p on.
SlotOf(p, i) == IF p + i - 1 <= MaxElems THEN p + i - 1 ELSE p + i - 1 - num_slots_

\* Between the indexes lie the elements, in a row that may wrap.
ContentsOK ==
    /\ Contents \in Seq(Values \cup {NoValue}) /\ Len(Contents) = Count
    /\ \A i \in 1 .. Count : /\ SlotOf(pop_index_, i) \in Slots
                             /\ Contents[i] = buffer_[SlotOf(pop_index_, i)]

LEMMA ContentsFacts == TypeOK => ContentsOK
  <1> SUFFICES ASSUME TypeOK PROVE ContentsOK
    OBVIOUS
  <1>1. /\ MaxElems \in Nat /\ num_slots_ = MaxElems + 1 /\ Count \in 0 .. MaxElems
        /\ pop_index_ \in 0 .. MaxElems
    BY MaxElemsAssumption, CountFacts DEF num_slots_, TypeOK, Slots
  <1>2. ASSUME NEW i \in 1 .. Count
        PROVE  /\ SlotOf(pop_index_, i) \in Slots
               /\ (pop_index_ + i - 1) % num_slots_ = SlotOf(pop_index_, i)
    <2>1. i \in Nat /\ i >= 1 /\ i <= MaxElems
      BY <1>1
    <2>2. SlotOf(pop_index_, i) \in Slots
      BY <1>1, <2>1 DEF SlotOf, Slots
    <2>3. pop_index_ + i - 1 \in Nat /\ pop_index_ + i - 1 < 2 * num_slots_
      BY <1>1, <2>1
    <2>4. (pop_index_ + i - 1) % num_slots_ =
             IF pop_index_ + i - 1 < num_slots_ THEN pop_index_ + i - 1
             ELSE pop_index_ + i - 1 - num_slots_
      <3> DEFINE x == pop_index_ + i - 1
      <3>1. x \in Nat /\ x < 2 * num_slots_
        BY <2>3
      <3>2. x < num_slots_ \/ x >= num_slots_
        BY <1>1, <3>1
      <3> HIDE DEF x
      <3> QED
        BY <1>1, <3>1, <3>2, Wraps
    <2>5. pop_index_ + i - 1 < num_slots_ <=> pop_index_ + i - 1 <= MaxElems
      BY <1>1, <2>3
    <2> QED
      BY <2>2, <2>4, <2>5 DEF SlotOf
  <1>3. \A i \in 1 .. Count : buffer_[SlotOf(pop_index_, i)] \in Values \cup {NoValue}
    BY <1>2 DEF TypeOK
  <1>4. Contents = [i \in 1 .. Count |-> buffer_[SlotOf(pop_index_, i)]]
    BY <1>2 DEF Contents
  <1> QED
    BY <1>1, <1>2, <1>3, <1>4 DEF ContentsOK

LEMMA ContentsFactsPrime == TypeOK' => ContentsOK'
  BY ContentsFacts, PTL

\* push_at puts an element behind the others.
LEMMA ContentsAppend ==
    ASSUME TypeOK, TypeOK', NEW v, next(push_index_) # pop_index_,
           buffer_' = [buffer_ EXCEPT ![push_index_] = v],
           push_index_' = next(push_index_), UNCHANGED pop_index_
    PROVE  Contents' = Append(Contents, v)
  <1>1. Count' = Count + 1 /\ Count \in 0 .. MaxElems /\ MaxElems \in Nat
    BY CountFacts, MaxElemsAssumption
  <1>2. /\ Contents \in Seq(Values \cup {NoValue}) /\ Len(Contents) = Count
        /\ Contents' \in Seq(Values \cup {NoValue}) /\ Len(Contents') = Count'
        /\ \A i \in 1 .. Count : /\ SlotOf(pop_index_, i) \in Slots
                                 /\ Contents[i] = buffer_[SlotOf(pop_index_, i)]
        /\ \A i \in 1 .. Count' : Contents'[i] = buffer_'[SlotOf(pop_index_, i)]
    BY ContentsFacts, ContentsFactsPrime DEF ContentsOK, SlotOf
  <1>3. push_index_ \in 0 .. MaxElems /\ pop_index_ \in 0 .. MaxElems
    BY DEF TypeOK, Slots
  <1>4. /\ SlotOf(pop_index_, Count + 1) = push_index_
        /\ \A i \in 1 .. Count : SlotOf(pop_index_, i) # push_index_
    BY <1>1, <1>3 DEF SlotOf, num_slots_, Count
  <1>5. /\ \A s \in Slots : s # push_index_ => buffer_'[s] = buffer_[s]
        /\ buffer_'[push_index_] = v
    BY DEF TypeOK
  <1>6. \A i \in 1 .. Count : Contents'[i] = Contents[i]
    BY <1>1, <1>2, <1>4, <1>5
  <1>7. Contents'[Count + 1] = v
    BY <1>1, <1>2, <1>4, <1>5
  <1> QED
    <2>1. Append(Contents, v) \in Seq(Values \cup {NoValue, v}) /\ Len(Append(Contents, v)) = Count + 1
          /\ \A i \in 1 .. Count : Append(Contents, v)[i] = Contents[i]
          /\ Append(Contents, v)[Count + 1] = v
      BY <1>1, <1>2
    <2>2. Contents' \in Seq(Values \cup {NoValue, v})
      BY <1>2
    <2>3. \A i \in 1 .. Count + 1 : i \in 1 .. Count \/ i = Count + 1
      BY <1>1
    <2>4. \A i \in 1 .. Count + 1 : Contents'[i] = Append(Contents, v)[i]
      BY <1>6, <1>7, <2>1, <2>3
    <2> QED
      BY <1>1, <1>2, <2>1, <2>2, <2>4, SeqEqual

\* pop_from takes the element in front of the others.
LEMMA ContentsTail ==
    ASSUME TypeOK, TypeOK', pop_index_ # push_index_, pop_index_' = next(pop_index_),
           UNCHANGED <<buffer_, push_index_>>
    PROVE  /\ Contents # <<>> /\ Head(Contents) = buffer_[pop_index_]
           /\ Contents' = Tail(Contents)
  <1>1. Count' = Count - 1 /\ Count \in 1 .. MaxElems /\ MaxElems \in Nat
    BY CountFacts, MaxElemsAssumption
  <1>2. /\ Contents \in Seq(Values \cup {NoValue}) /\ Len(Contents) = Count
        /\ Contents' \in Seq(Values \cup {NoValue}) /\ Len(Contents') = Count'
        /\ \A i \in 1 .. Count : Contents[i] = buffer_[SlotOf(pop_index_, i)]
        /\ \A i \in 1 .. Count' : Contents'[i] = buffer_[SlotOf(next(pop_index_), i)]
    BY ContentsFacts, ContentsFactsPrime DEF ContentsOK, SlotOf
  <1>3. /\ pop_index_ \in 0 .. MaxElems
        /\ next(pop_index_) = IF pop_index_ = MaxElems THEN 0 ELSE pop_index_ + 1
    BY NextInRing DEF TypeOK, Slots
  <1>4. /\ SlotOf(pop_index_, 1) = pop_index_
        /\ \A i \in 1 .. Count - 1 : SlotOf(next(pop_index_), i) = SlotOf(pop_index_, i + 1)
    BY <1>1, <1>3 DEF SlotOf, num_slots_
  <1>5. Contents # <<>> /\ Head(Contents) = Contents[1] /\ Contents[1] = buffer_[pop_index_]
    BY <1>1, <1>2, <1>4
  <1>6. /\ Tail(Contents) \in Seq(Values \cup {NoValue}) /\ Len(Tail(Contents)) = Count - 1
        /\ \A i \in 1 .. Count - 1 : Tail(Contents)[i] = Contents[i + 1]
    BY <1>1, <1>2, <1>5
  <1>7. \A i \in 1 .. Count - 1 : Contents'[i] = Tail(Contents)[i]
    BY <1>1, <1>2, <1>4, <1>6
  <1> QED
    BY <1>1, <1>2, <1>5, <1>6, <1>7, SeqEqual

\* What a thread's call is to the abstract queue, by where the thread is.
CallOf(p, o) ==
    IF p = "idle" THEN "none" ELSE IF p \in {"closing", "close"} THEN "close" ELSE Kind(o)

LEMMA Calls ==
    /\ AbstractCall = [u \in Threads |-> CallOf(pc[u], op[u])]
    /\ AbstractCall' = [u \in Threads |-> CallOf(pc'[u], op'[u])]
  BY DEF AbstractCall, CallOf

\* A thread that leaves its call, and the threads it wakes.
LEMMA Returns ==
    ASSUME TypeOK, LockInv, NEW t \in Threads, NEW s, NEW v,
           NEW W \in SUBSET (not_full_ \cup not_empty_), Moved(t, "idle", W), Answered(t, s, v)
    PROVE  Abs!Return(t, s, v)
  <1>1. \A u \in Threads : CallOf(pc'[u], op'[u]) = IF u = t THEN "none" ELSE CallOf(pc[u], op[u])
    <2>1. \A u \in W : pc[u] = "wait"
      BY DEF LockInv, TypeOK
    <2> QED
      BY <2>1 DEF Moved, Answered, CallOf, TypeOK
  <1>2. AbstractCall' = [AbstractCall EXCEPT ![t] = "none"]
    BY <1>1, Calls
  <1> QED
    BY <1>2 DEF Answered, Answer, Abs!Return, Abs!Answer

LEMMA Turns ==
    ASSUME TypeOK, LockInv, NEW t \in Threads, NEW s, NEW o,
           NEW W \in SUBSET (not_full_ \cup not_empty_), Moved(t, "closing", W), Thrown(t, o, s)
    PROVE  Abs!TurnIntoClose(t, s)
  <1>1. \A u \in Threads : CallOf(pc'[u], op'[u]) = IF u = t THEN "close" ELSE CallOf(pc[u], op[u])
    <2>1. \A u \in W : pc[u] = "wait"
      BY DEF LockInv, TypeOK
    <2> QED
      BY <2>1 DEF Moved, Thrown, CallOf, TypeOK
  <1>2. AbstractCall' = [AbstractCall EXCEPT ![t] = "close"]
    BY <1>1, Calls
  <1> QED
    BY <1>2 DEF Thrown, Answer, Abs!TurnIntoClose, Abs!Answer

\* The contents are a matter of the ring alone.
LEMMA ContentsStay ==
    ASSUME UNCHANGED <<buffer_, push_index_, pop_index_>>
    PROVE  UNCHANGED Contents
  BY DEF Contents, Count

LEMMA PopImplements ==
    ASSUME TypeOK, TypeOK', LockInv, NEW t \in Threads, AbstractCall[t] = "pop",
           pop_index_ # push_index_, pop_from(t, pop_index_)
    PROVE  Abs!Pop(t)
  <1>1. PICK W \in SUBSET not_full_ :
            \/ Moved(t, "idle", W) /\ Answered(t, "success", buffer_[pop_index_])
            \/ Moved(t, "closing", W) /\ Thrown(t, op[t], "exception")
            \/ Moved(t, "closing", W) /\ Thrown(t, "close", "exception")
    BY DEF pop_from
  <1>2. /\ pop_index_' = next(pop_index_) /\ UNCHANGED <<closed_, buffer_, push_index_>>
    BY DEF pop_from
  <1>3. /\ Contents # <<>> /\ Head(Contents) = buffer_[pop_index_] /\ Contents' = Tail(Contents)
    BY <1>2, ContentsTail
  <1>4. W \in SUBSET (not_full_ \cup not_empty_)
    OBVIOUS
  <1>5. Abs!Return(t, "success", Head(Contents)) \/ Abs!TurnIntoClose(t, "exception")
    BY <1>1, <1>3, <1>4, Returns, Turns
  <1> QED
    BY <1>2, <1>3, <1>5 DEF Abs!Pop

LEMMA PushImplements ==
    ASSUME TypeOK, TypeOK', LockInv, ArgInv, NEW t \in Threads, AbstractCall[t] = "push",
           pc[t] = "held", op[t] \in PushOps, ~closed_, next(push_index_) # pop_index_,
           push_at(t, push_index_, next(push_index_))
    PROVE  Abs!Push(t)
  <1>1. Len(Contents) < MaxElems /\ arg[t] \in Values
    BY ContentsFacts, CountFacts, MaxElemsAssumption DEF ArgInv, ContentsOK
  <1>2. CASE /\ buffer_' = [buffer_ EXCEPT ![push_index_] = arg[t]]
             /\ push_index_' = next(push_index_)
             /\ \E W \in SUBSET not_empty_ : NotifyNotEmpty(W) /\ Moved(t, "idle", W)
             /\ Answered(t, "success", NoValue)
             /\ UNCHANGED <<closed_, pop_index_, waiting_full_, not_full_>>
    <2>1. Contents' = Append(Contents, arg[t])
      BY <1>2, ContentsAppend
    <2>2. PICK W \in SUBSET not_empty_ : Moved(t, "idle", W)
      BY <1>2
    <2>3. Abs!Return(t, "success", NoValue)
      BY <1>2, <2>2, Returns
    <2> QED
      BY <1>1, <1>2, <2>1, <2>3 DEF Abs!Push
  <1>3. CASE /\ Moved(t, "closing", {}) /\ Thrown(t, op[t], "exception")
             /\ UNCHANGED <<queue, waiting>>
    <2>1. Abs!TurnIntoClose(t, "exception")
      BY <1>3, Turns
    <2>2. UNCHANGED <<Contents, closed_>>
      BY <1>3, ContentsStay DEF queue
    <2> QED
      BY <1>1, <2>1, <2>2 DEF Abs!Push
  <1> QED
    BY <1>2, <1>3 DEF push_at

\* A refusal says why, and the queue stays as it is.
LEMMA RefuseImplements ==
    ASSUME TypeOK, LockInv, NEW t \in Threads, NEW s, Refuse(t, s),
           \/ AbstractCall[t] = "push" /\ closed_ /\ s = "closed"
           \/ AbstractCall[t] = "push" /\ ~closed_ /\ next(push_index_) = pop_index_ /\ s = "full"
           \/ /\ AbstractCall[t] = "pop" /\ pop_index_ = push_index_
              /\ s = IF closed_ THEN "closed" ELSE "empty"
    PROVE  Abs!Refuse(t)
  <1>1. Abs!Return(t, s, NoValue)
    BY Returns DEF Refuse
  <1>2. UNCHANGED <<Contents, closed_>>
    BY ContentsStay DEF Refuse, queue
  <1>3. /\ next(push_index_) = pop_index_ => Len(Contents) = MaxElems
        /\ pop_index_ = push_index_ => Contents = <<>>
    BY ContentsFacts, CountFacts DEF ContentsOK
  <1>4. closed_ \in BOOLEAN
    BY DEF TypeOK
  <1> QED
    BY <1>1, <1>2, <1>3, <1>4 DEF Abs!Refuse

\* Every step of the queue is one of the contract, or changes nothing of it.
LEMMA StepImplements ==
    ASSUME TypeOK, TypeOK', LockInv, ArgInv, Next
    PROVE  Abs!Next \/ UNCHANGED Abs!vars
  <1>1. \A t \in Threads : AbstractCall[t] = CallOf(pc[t], op[t])
    BY Calls
  <1>2. ASSUME NEW t \in Threads, Call(t) PROVE Abs!Invoke(t)
    <2>1. PICK o \in AllOps, v \in Values \cup {NoValue}, p \in {"lock", "closing"} :
              Enter(t, o, v, p)
      BY <1>2 DEF Call, AllOps
    <2>2. CallOf(p, o) \in Abs!Kinds /\ CallOf("idle", op[t]) = "none"
      BY <2>1 DEF CallOf, Kind, Abs!Kinds
    <2>3. \A u \in Threads : CallOf(pc'[u], op'[u]) = IF u = t THEN CallOf(p, o) ELSE CallOf(pc[u], op[u])
      BY <2>1 DEF Enter, TypeOK
    <2>4. AbstractCall' = [AbstractCall EXCEPT ![t] = CallOf(p, o)]
      BY <2>3, Calls
    <2>5. res' = [res EXCEPT ![t] = Abs!NoAnswer]
      BY <2>1 DEF Enter, NoAnswer, Answer, Abs!NoAnswer, Abs!Answer
    <2>6. UNCHANGED <<Contents, closed_>>
      BY <2>1, ContentsStay DEF Enter, queue
    <2>7. AbstractCall[t] = "none"
      BY <1>1, <2>1, <2>2 DEF Enter
    <2> QED
      BY <2>2, <2>4, <2>5, <2>6, <2>7 DEF Abs!Invoke
  <1>3. ASSUME NEW t \in Threads, NEW p \in PCs,
               \A u \in Threads : pc'[u] = IF u = t THEN p ELSE pc[u],
               CallOf(p, op[t]) = CallOf(pc[t], op[t]), UNCHANGED <<queue, op, res>>
        PROVE  UNCHANGED Abs!vars
    <2>1. \A u \in Threads : CallOf(pc'[u], op'[u]) = CallOf(pc[u], op[u])
      BY <1>3
    <2>2. UNCHANGED AbstractCall
      BY <2>1, Calls
    <2>3. UNCHANGED <<Contents, closed_>>
      BY <1>3, ContentsStay DEF queue
    <2> QED
      BY <1>3, <2>2, <2>3 DEF Abs!vars
  <1>4. ASSUME NEW t \in Threads, Acquire(t) PROVE UNCHANGED Abs!vars
    <2>1. PICK p \in {"held", "close"} :
            /\ pc[t] = IF p = "held" THEN "lock" ELSE "closing"
            /\ pc' = [pc EXCEPT ![t] = p]
      BY <1>4 DEF Acquire
    <2>2. CallOf(p, op[t]) = CallOf(pc[t], op[t]) /\ p \in PCs
      BY <2>1 DEF CallOf, PCs
    <2>3. \A u \in Threads : pc'[u] = IF u = t THEN p ELSE pc[u]
      BY <2>1 DEF TypeOK
    <2> QED
      BY <1>3, <1>4, <2>2, <2>3 DEF Acquire
  <1>5. ASSUME NEW t \in Threads, TryLockFails(t) PROVE Abs!Refuse(t)
    <2>1. Abs!Return(t, "busy", NoValue) /\ UNCHANGED <<Contents, closed_>>
      BY <1>5, Returns, ContentsStay DEF TryLockFails, queue
    <2>2. AbstractCall[t] \in {"push", "pop"}
      BY <1>1, <1>5 DEF TryLockFails, CallOf, Kind, NonblockingOps, PushOps, PopOps
    <2> QED
      BY <2>1, <2>2 DEF Abs!Refuse
  <1>6. ASSUME NEW t \in Threads, SpuriousWakeup(t) PROVE UNCHANGED Abs!vars
    <2>1. /\ \A u \in Threads : pc'[u] = IF u = t THEN "lock" ELSE pc[u]
          /\ pc[t] = "wait" /\ UNCHANGED <<queue, op, res>>
      BY <1>6 DEF SpuriousWakeup, Moved
    <2> QED
      BY <1>3, <2>1 DEF CallOf, PCs
  <1>7. ASSUME NEW t \in Threads, NEW O, Owns(t, O)
        PROVE  /\ pc[t] = "held" /\ op[t] \in O
               /\ O \subseteq PushOps => AbstractCall[t] = "push"
               /\ O \subseteq PopOps => AbstractCall[t] = "pop"
               /\ O \subseteq QueryOps => AbstractCall[t] = "query"
    <2>1. pc[t] = "held" /\ op[t] \in O /\ AbstractCall[t] = Kind(op[t])
      BY <1>1, <1>7 DEF Owns, CallOf
    <2> QED
      BY <2>1 DEF Kind, PushOps, PopOps, QueryOps
  <1>8. ASSUME NEW t \in Threads, TryPop(t) PROVE Abs!Pop(t) \/ Abs!Refuse(t)
    <2>1. AbstractCall[t] = "pop" /\ try_pop_common(t)
      BY <1>7, <1>8 DEF TryPop, PopOps
    <2> QED
      BY <2>1, PopImplements, RefuseImplements DEF try_pop_common
  <1>9. ASSUME NEW t \in Threads, TryPush(t) PROVE Abs!Push(t) \/ Abs!Refuse(t)
    <2>1. /\ AbstractCall[t] = "push" /\ pc[t] = "held" /\ op[t] \in PushOps
          /\ try_push_common(t)
      BY <1>7, <1>9 DEF TryPush, PushOps
    <2> QED
      BY <2>1, PushImplements, RefuseImplements DEF try_push_common
  <1>10. ASSUME NEW t \in Threads, WaitPop(t)
         PROVE  Abs!Pop(t) \/ Abs!Refuse(t) \/ UNCHANGED Abs!vars
    <2>1. AbstractCall[t] = "pop" /\ pc[t] = "held" /\ wait_pop(t)
      BY <1>7, <1>10 DEF WaitPop, PopOps
    <2>2. CASE pop_index_ # push_index_ /\ pop_from(t, pop_index_)
      BY <2>1, <2>2, PopImplements
    <2>3. CASE pop_index_ = push_index_ /\ closed_ /\ Refuse(t, "closed")
      BY <2>1, <2>3, RefuseImplements
    <2>4. CASE /\ pop_index_ = push_index_ /\ closed_ /\ Moved(t, "closing", {})
               /\ Thrown(t, "close", "closed") /\ UNCHANGED <<queue, waiting>>
      <3>1. Abs!TurnIntoClose(t, "closed") /\ UNCHANGED <<Contents, closed_>>
        BY <2>4, Turns, ContentsStay DEF queue
      <3>2. Contents = <<>>
        BY <2>4, ContentsFacts, CountFacts DEF ContentsOK
      <3> QED
        BY <2>1, <2>4, <3>1, <3>2 DEF Abs!Refuse
    <2>5. CASE Moved(t, "wait", {}) /\ UNCHANGED <<queue, waiting_full_, not_full_, op, arg, res>>
      <3>1. \A u \in Threads : pc'[u] = IF u = t THEN "wait" ELSE pc[u]
        BY <2>5 DEF Moved
      <3> QED
        BY <1>3, <2>1, <2>5, <3>1 DEF CallOf, PCs
    <2> QED
      BY <2>1, <2>2, <2>3, <2>4, <2>5 DEF wait_pop
  <1>11. ASSUME NEW t \in Threads, WaitPush(t)
         PROVE  Abs!Push(t) \/ Abs!Refuse(t) \/ UNCHANGED Abs!vars
    <2>1. AbstractCall[t] = "push" /\ pc[t] = "held" /\ op[t] \in PushOps /\ wait_push(t)
      BY <1>7, <1>11 DEF WaitPush, PushOps
    <2>2. CASE closed_ /\ Refuse(t, "closed")
      BY <2>1, <2>2, RefuseImplements
    <2>3. CASE /\ ~closed_ /\ next(push_index_) # pop_index_
               /\ push_at(t, push_index_, next(push_index_))
      BY <2>1, <2>3, PushImplements
    <2>4. CASE Moved(t, "wait", {}) /\ UNCHANGED <<queue, waiting_empty_, not_empty_, op, arg, res>>
      <3>1. \A u \in Threads : pc'[u] = IF u = t THEN "wait" ELSE pc[u]
        BY <2>4 DEF Moved
      <3> QED
        BY <1>3, <2>1, <2>4, <3>1 DEF CallOf, PCs
    <2> QED
      BY <2>1, <2>2, <2>3, <2>4 DEF wait_push
  <1>12. ASSUME NEW t \in Threads, is_closed(t) \/ is_empty(t) PROVE Abs!Query(t)
    <2>1. AbstractCall[t] = "query"
      BY <1>7, <1>12 DEF is_closed, is_empty, QueryOps
    <2>2. PICK b \in {closed_, Contents = <<>>} : Refuse(t, IF b THEN "true" ELSE "false")
      <3>1. Contents = <<>> <=> push_index_ = pop_index_
        BY ContentsFacts, CountFacts DEF ContentsOK
      <3>2. (IF Contents = <<>> THEN "true" ELSE "false")
               = IF push_index_ = pop_index_ THEN "true" ELSE "false"
        BY <3>1
      <3>3. \/ Refuse(t, IF closed_ THEN "true" ELSE "false")
            \/ Refuse(t, IF Contents = <<>> THEN "true" ELSE "false")
        BY <1>12, <3>2 DEF is_closed, is_empty
      <3> QED
        BY <3>3
    <2>3. Abs!Return(t, IF b THEN "true" ELSE "false", NoValue)
      BY <2>2, Returns DEF Refuse
    <2>4. UNCHANGED <<Contents, closed_>>
      BY <2>2, ContentsStay DEF Refuse, queue
    <2> QED
      BY <2>1, <2>3, <2>4 DEF Abs!Query
  <1>13. ASSUME NEW t \in Threads, close(t) PROVE Abs!Close(t)
    <2>1. /\ pc[t] = "close" /\ closed_' = TRUE
          /\ UNCHANGED <<buffer_, push_index_, pop_index_>>
      BY <1>13 DEF close
    <2>2. AbstractCall[t] = "close" /\ UNCHANGED Contents
      BY <1>1, <2>1, ContentsStay DEF CallOf
    <2>3. CASE op[t] = "value_pop"
      <3>1. /\ Moved(t, "closing", not_empty_ \cup not_full_)
            /\ op' = [op EXCEPT ![t] = "close"] /\ UNCHANGED <<arg, res>>
        BY <1>13, <2>3 DEF close
      <3>2. \A u \in not_empty_ \cup not_full_ : pc[u] = "wait"
        BY DEF LockInv, TypeOK
      <3>3. \A u \in Threads : CallOf(pc'[u], op'[u]) = CallOf(pc[u], op[u])
        BY <2>1, <3>1, <3>2 DEF Moved, CallOf, TypeOK
      <3>4. UNCHANGED AbstractCall
        BY <3>3, Calls
      <3> QED
        BY <2>1, <2>2, <3>1, <3>4 DEF Abs!Close
    <2>4. CASE op[t] # "value_pop"
      <3> DEFINE s == IF res[t].status = "none" THEN "success" ELSE res[t].status
      <3>1. Moved(t, "idle", not_empty_ \cup not_full_) /\ Answered(t, s, NoValue)
        BY <1>13, <2>4 DEF close
      <3>2. Abs!Return(t, s, NoValue)
        BY <3>1, Returns
      <3> QED
        BY <2>1, <2>2, <3>2 DEF Abs!Close
    <2> QED
      BY <2>3, <2>4
  <1> QED
    BY <1>2, <1>4, <1>5, <1>6, <1>8, <1>9, <1>10, <1>11, <1>12, <1>13 DEF Next, Step, Body, Abs!Next

\* A constructed queue has the elements it was given.
LEMMA InitImplements == Init => Abs!Init /\ ArgInv
  <1> SUFFICES ASSUME Init PROVE Abs!Init /\ ArgInv
    OBVIOUS
  <1>1. TypeOK
    BY InitType
  <1>2. /\ MaxElems \in Nat /\ pop_index_ = 0 /\ push_index_ \in 0 .. MaxElems /\ Count = push_index_
    BY MaxElemsAssumption DEF Init, Count
  <1>3. /\ Contents \in Seq(Values \cup {NoValue}) /\ Len(Contents) = Count
        /\ \A i \in 1 .. Count : Contents[i] = buffer_[SlotOf(0, i)]
    BY <1>1, <1>2, ContentsFacts DEF ContentsOK
  <1>4. ASSUME NEW i \in 1 .. Count PROVE Contents[i] \in Values
    <2>1. SlotOf(0, i) = i - 1 /\ i - 1 \in Slots /\ i - 1 < push_index_
      BY <1>2 DEF SlotOf, Slots
    <2>2. buffer_[i - 1] \in Values
      BY <2>1 DEF Init
    <2> QED
      BY <1>3, <2>1, <2>2
  <1>5. Contents \in Seq(Values)
    BY <1>2, <1>3, <1>4
  <1>6. AbstractCall = [t \in Threads |-> "none"]
    BY Calls DEF CallOf, Init
  <1>7. res = [t \in Threads |-> Abs!NoAnswer]
    BY DEF Init, NoAnswer, Answer, Abs!NoAnswer, Abs!Answer
  <1>8. ArgInv
    BY DEF Init, ArgInv
  <1> QED
    BY <1>2, <1>3, <1>5, <1>6, <1>7, <1>8 DEF Abs!Init, Init

LEMMA NextArg == TypeOK /\ LockInv /\ ArgInv /\ [Next]_vars => ArgInv'
  <1> SUFFICES ASSUME TypeOK, LockInv, ArgInv, [Next]_vars PROVE ArgInv'
    OBVIOUS
  <1>1. CASE UNCHANGED vars
    BY <1>1 DEF vars, client, ArgInv
  <1>2. ASSUME NEW t \in Threads, Call(t) PROVE ArgInv'
    <2>1. PICK o \in AllOps, v \in Values \cup {NoValue}, p \in {"lock", "closing"} :
              Enter(t, o, v, p) /\ (o \in PushOps => v \in Values)
      BY <1>2 DEF Call, AllOps, PushOps, PopOps, QueryOps
    <2> QED
      BY <2>1 DEF Enter, ArgInv, TypeOK
  \* A thread keeps its element for as long as it is in the call.
  <1>3. ASSUME NEW t \in Threads, NEW p, NEW W \in SUBSET (not_full_ \cup not_empty_),
               Moved(t, p, W),
               \A u \in Threads \ {t} : op'[u] = op[u] /\ arg'[u] = arg[u],
               \/ p \in {"idle", "closing"}
               \/ pc[t] \in {"lock", "held", "wait"} /\ op'[t] = op[t] /\ arg'[t] = arg[t]
        PROVE  ArgInv'
    <2>1. \A u \in W : pc[u] = "wait"
      BY DEF LockInv, TypeOK
    <2>2. \A u \in Threads : pc'[u] = IF u = t THEN p ELSE IF u \in W THEN "lock" ELSE pc[u]
      BY <1>3 DEF Moved
    <2>3. ASSUME NEW u \in Threads, op'[u] \in PushOps, pc'[u] \in {"lock", "held", "wait"}
          PROVE  arg'[u] \in Values
      <3>1. CASE u = t
        BY <1>3, <2>2, <2>3, <3>1 DEF ArgInv
      <3>2. CASE u # t
        <4>1. op'[u] = op[u] /\ arg'[u] = arg[u] /\ pc[u] \in {"lock", "held", "wait"}
          BY <1>3, <2>1, <2>2, <2>3, <3>2
        <4> QED
          BY <2>3, <4>1 DEF ArgInv
      <3> QED
        BY <3>1, <3>2
    <2> QED
      BY <2>3 DEF ArgInv
  \* An answer or an exception is nobody else's business.
  <1>8. ASSUME NEW t \in Threads, NEW s,
               (\E v : Answered(t, s, v)) \/ (\E o : Thrown(t, o, s))
        PROVE  \A u \in Threads \ {t} : op'[u] = op[u] /\ arg'[u] = arg[u]
    BY <1>8 DEF Answered, Thrown, TypeOK
  <1>4. ASSUME NEW t \in Threads, Acquire(t) PROVE ArgInv'
    BY <1>4 DEF Acquire, ArgInv, TypeOK
  <1>5. ASSUME NEW t \in Threads, TryLockFails(t) PROVE ArgInv'
    <2>1. Moved(t, "idle", {}) /\ Answered(t, "busy", NoValue)
      BY <1>5 DEF TryLockFails
    <2> QED
      BY <1>3, <1>8, <2>1
  <1>6. ASSUME NEW t \in Threads, SpuriousWakeup(t) PROVE ArgInv'
    <2>1. pc[t] = "wait" /\ Moved(t, "lock", {}) /\ UNCHANGED <<op, arg>>
      BY <1>6 DEF SpuriousWakeup
    <2> QED
      BY <1>3, <2>1
  <1>7. ASSUME NEW t \in Threads, Body(t) PROVE ArgInv'
    <2>1. ASSUME NEW s, Refuse(t, s) PROVE ArgInv'
      BY <1>3, <1>8, <2>1 DEF Refuse
    <2>2. ASSUME NEW W \in SUBSET (not_full_ \cup not_empty_), NEW s, NEW v,
                 Moved(t, "idle", W), Answered(t, s, v)
          PROVE  ArgInv'
      BY <1>3, <1>8, <2>2
    <2>3. ASSUME NEW W \in SUBSET (not_full_ \cup not_empty_), NEW s, NEW o,
                 Moved(t, "closing", W), Thrown(t, o, s)
          PROVE  ArgInv'
      BY <1>3, <1>8, <2>3
    <2>4. ASSUME pc[t] = "held", Moved(t, "wait", {}), UNCHANGED <<op, arg>> PROVE ArgInv'
      BY <1>3, <2>4
    <2>5. ASSUME pop_from(t, pop_index_) PROVE ArgInv'
      <3>1. PICK W \in SUBSET not_full_ :
            \/ Moved(t, "idle", W) /\ Answered(t, "success", buffer_[pop_index_])
            \/ Moved(t, "closing", W) /\ Thrown(t, op[t], "exception")
            \/ Moved(t, "closing", W) /\ Thrown(t, "close", "exception")
        BY <2>5 DEF pop_from
      <3>2. W \in SUBSET (not_full_ \cup not_empty_)
        OBVIOUS
      <3> QED
        BY <2>2, <2>3, <3>1, <3>2
    <2>6. ASSUME push_at(t, push_index_, next(push_index_)) PROVE ArgInv'
      BY <2>2, <2>3, <2>6 DEF push_at
    <2>7. CASE TryPop(t)
      BY <2>1, <2>5, <2>7 DEF TryPop, try_pop_common
    <2>8. CASE WaitPop(t)
      BY <2>1, <2>3, <2>4, <2>5, <2>8 DEF WaitPop, wait_pop, Owns
    <2>9. CASE TryPush(t)
      BY <2>1, <2>6, <2>9 DEF TryPush, try_push_common
    <2>10. CASE WaitPush(t)
      BY <2>1, <2>4, <2>6, <2>10 DEF WaitPush, wait_push, Owns
    <2>11. CASE is_closed(t) \/ is_empty(t)
      BY <2>1, <2>11 DEF is_closed, is_empty
    <2>12. CASE close(t)
      <3>1. PICK p \in {"idle", "closing"} : Moved(t, p, not_empty_ \cup not_full_)
        BY <2>12 DEF close
      <3>2. \A u \in Threads \ {t} : op'[u] = op[u] /\ arg'[u] = arg[u]
        BY <2>12 DEF close, Answered, TypeOK
      <3> QED
        BY <1>3, <3>1, <3>2
    <2> QED
      BY <1>7, <2>7, <2>8, <2>9, <2>10, <2>11, <2>12 DEF Body
  <1> QED
    BY <1>1, <1>2, <1>4, <1>5, <1>6, <1>7 DEF Next, Step

\* Through its mutex, indexes and waiters, the queue is the closable FIFO that
\* the library's queues promise to be (queue_base.h): a push appends, a pop
\* takes the oldest, and each answer is true when it is given.
THEOREM QueueImplements == Spec => ImplementsBoundedQueue
  <1>1. Init => TypeOK /\ LockInv /\ ArgInv /\ Abs!Init
    BY InitType, InitLock, InitImplements
  <1>2. TypeOK /\ LockInv /\ ArgInv /\ [Next]_vars => (TypeOK /\ LockInv /\ ArgInv)'
    BY NextType, NextLock, NextArg
  <1>3. TypeOK /\ TypeOK' /\ LockInv /\ ArgInv /\ [Next]_vars => [Abs!Next]_Abs!vars
    <2>1. UNCHANGED vars => UNCHANGED Abs!vars
      BY DEF vars, queue, client, Abs!vars, Contents, Count, AbstractCall
    <2> QED
      BY <2>1, StepImplements
  <1> QED
    BY <1>1, <1>2, <1>3, PTL DEF Spec, ImplementsBoundedQueue, Abs!Spec
=============================================================================
