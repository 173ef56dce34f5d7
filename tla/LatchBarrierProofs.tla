------------------------ MODULE LatchBarrierProofs -------------------------
(***************************************************************************)
(* Proofs about Latch and Barrier for every number of threads.  Latch: for *)
(* every count and every argument of count_down, whether or not the        *)
(* clients count down too often.  Barrier: for any number of phases, with  *)
(* and without drops.  Both: however many spurious wakeups there are.      *)
(***************************************************************************)
EXTENDS MCLatchBarrier, FiniteSetTheorems, TLAPS

-----------------------------------------------------------------------------
(* Latch.                                                                  *)

Waiting == {"wait", "count_down_and_wait"}

\* Where a thread can be in which call: only the calls that block are in the
\* wait loop or about to decrement waiting_.
PlaceInv ==
    \A t \in Threads :
        /\ pc[t] = "idle" <=> op[t] = "none"
        /\ pc[t] \in {"blocked", "leave"} => op[t] \in Waiting

\* The mutex and the condition variable agree with where the threads are.
LockInv ==
    /\ \A t \in Threads : pc[t] = "held" <=> condition_mutex_ = t
    /\ \A t \in Threads : pc[t] = "blocked" <=> t \in condition_

\* The Owner is told the truth, and destroys only a latch that is at zero and
\* that nobody will count down or query any more.
LifeInv ==
    /\ sawZero => count_ = 0
    /\ life # "alive" => count_ = 0 /\ \A t \in Threads : op[t] \in Waiting \cup {"none"}
    /\ life = "destroyed" => Inside = {}

IInv == TypeOK /\ PlaceInv /\ LockInv /\ Gate /\ WaitingCoversInside /\ LifeInv

-----------------------------------------------------------------------------
(* Facts about waiting_, for a set of threads that one thread enters or    *)
(* leaves.                                                                 *)

\* The threads inside a blocking call are finitely many.
LEMMA InsideFinite ==
    /\ IsFiniteSet(Inside) /\ Cardinality(Inside) \in Nat
    /\ IsFiniteSet(Inside') /\ Cardinality(Inside') \in Nat
  <1>1. Inside \subseteq Threads /\ Inside' \subseteq Threads
    BY DEF Inside
  <1> QED
    BY <1>1, FiniteAssumption, FS_Subset, FS_CardinalityType

\* A call that announces itself before it is counted inside is covered.
LEMMA EnterInside ==
    ASSUME NEW t, Inside' \subseteq Inside \cup {t}
    PROVE  Cardinality(Inside') <= Cardinality(Inside) + 1
  <1>1. /\ IsFiniteSet(Inside \cup {t})
        /\ Cardinality(Inside \cup {t}) <= Cardinality(Inside) + 1
    BY InsideFinite, FS_AddElement
  <1>2. Cardinality(Inside') <= Cardinality(Inside \cup {t})
    BY <1>1, FS_Subset
  <1>3. Cardinality(Inside \cup {t}) \in Nat
    BY <1>1, FS_CardinalityType
  <1> QED
    BY <1>1, <1>2, <1>3, InsideFinite

\* A thread that leaves takes one off.
LEMMA LeaveInside ==
    ASSUME NEW t \in Inside, Inside' \subseteq Inside \ {t}
    PROVE  Cardinality(Inside') <= Cardinality(Inside) - 1
  <1>1. /\ IsFiniteSet(Inside \ {t})
        /\ Cardinality(Inside \ {t}) = Cardinality(Inside) - 1
    BY InsideFinite, FS_RemoveElement
  <1> QED
    BY <1>1, FS_Subset

\* Nobody else comes in.
LEMMA StayInside ==
    ASSUME Inside' \subseteq Inside
    PROVE  Cardinality(Inside') <= Cardinality(Inside)
  BY InsideFinite, FS_Subset

-----------------------------------------------------------------------------

\* A latch is constructed with nobody inside.
LEMMA InitInv == Init => IInv
  <1> SUFFICES ASSUME Init PROVE IInv
    OBVIOUS
  <1>1. Inside = {}
    BY DEF Init, Inside
  <1>2. TypeOK
    <2>1. 0 \in 0 .. MaxN /\ 0 \in 0 .. MaxCalls /\ Count \in 0 .. Count
      BY CountAssumption
    <2> QED
      BY <2>1 DEF Init, TypeOK, Ops
  <1> QED
    BY <1>1, <1>2, FS_EmptySet, ThreadsAssumption, CountAssumption
       DEF Init, IInv, PlaceInv, LockInv, Gate, WaitingCoversInside, LifeInv

\* Every step keeps the state well typed; that waiting_ never drops below zero
\* needs that it covers the threads inside.
LEMMA NextType == IInv /\ [Next]_vars => TypeOK'
  <1> SUFFICES ASSUME IInv, [Next]_vars PROVE TypeOK'
    OBVIOUS
  <1> USE CountAssumption, ThreadsAssumption DEF IInv, TypeOK, Ops, latchVars, clientVars
  <1>1. CASE UNCHANGED vars
    BY <1>1 DEF vars
  <1>2. ASSUME NEW t \in Threads, Start(t) PROVE TypeOK'
    <2>1. PICK o \in Ops, k \in 0 .. MaxN : Call(t, o, k)
      BY <1>2 DEF Start
    <2> QED
      BY <2>1 DEF Call
  <1>3. ASSUME NEW t \in Threads, Acquire(t) PROVE TypeOK'
    BY <1>3 DEF Acquire
  <1>4. ASSUME NEW t \in Threads, wait(t) PROVE TypeOK'
    BY <1>4 DEF wait, wait_loop, Release
  <1>5. ASSUME NEW t \in Threads, is_ready(t) PROVE TypeOK'
    BY <1>5 DEF is_ready, Release, Done, Learns
  <1>6. ASSUME NEW t \in Threads, count_down(t) PROVE TypeOK'
    <2>1. n[t] \in Int /\ count_ \in Int /\ 0 \in 0 .. MaxN
      OBVIOUS
    <2>2. count_' \in 0 .. Count /\ condition_' \in SUBSET Threads
      <3>1. CASE count_ - n[t] < 0
        BY <1>6, <3>1 DEF count_down
      <3>2. CASE ~(count_ - n[t] < 0)
        BY <1>6, <2>1, <3>2 DEF count_down
      <3> QED
        BY <3>1, <3>2
    <2>3. pc' \in [Threads -> {"idle", "lock", "held", "blocked", "leave"}]
      BY <1>6 DEF count_down, Release
    <2>4. condition_mutex_' = NoThread
      BY <1>6 DEF count_down, Release
    <2>5. sawZero' \in BOOLEAN
      BY <1>6 DEF count_down, Learns
    <2>6. op' \in [Threads -> Ops \cup {"none"}] /\ n' \in [Threads -> 0 .. MaxN]
      BY <1>6, <2>1 DEF count_down, Done
    <2> QED
      BY <1>6, <2>2, <2>3, <2>4, <2>5, <2>6 DEF count_down
  <1>7. ASSUME NEW t \in Threads, count_down_and_wait(t) PROVE TypeOK'
    BY <1>7 DEF count_down_and_wait, wait_loop, Release, Done
  <1>8. ASSUME NEW t \in Threads, Leave(t) PROVE TypeOK'
    <2>1. t \in Inside
      BY <1>8 DEF Leave, PlaceInv, Waiting, Inside
    <2>2. waiting_ >= 1
      BY <2>1, InsideFinite, FS_EmptySet DEF WaitingCoversInside
    <2> QED
      BY <1>8, <2>2 DEF Leave, Done, Learns
  <1>9. ASSUME NEW t \in Threads, SpuriousWakeup(t) PROVE TypeOK'
    BY <1>9 DEF SpuriousWakeup
  <1>10. CASE Destroy
    BY <1>10 DEF Destroy
  <1>11. CASE Destroyed
    BY <1>11 DEF Destroyed
  <1> QED
    BY <1>1, <1>2, <1>3, <1>4, <1>5, <1>6, <1>7, <1>8, <1>9, <1>10, <1>11 DEF Next, Step

\* Only the blocking calls reach the wait loop.
LEMMA NextPlace == IInv /\ [Next]_vars => PlaceInv'
  <1> SUFFICES ASSUME IInv, [Next]_vars PROVE PlaceInv'
    OBVIOUS
  <1> USE CountAssumption, ThreadsAssumption DEF IInv, TypeOK, Ops, latchVars, clientVars,
          PlaceInv, LockInv, Waiting
  <1>1. CASE UNCHANGED vars
    BY <1>1 DEF vars
  <1>2. ASSUME NEW t \in Threads, Start(t) PROVE PlaceInv'
    <2>1. PICK o \in Ops, k \in 0 .. MaxN : Call(t, o, k)
      BY <1>2, CountAssumption DEF Start, Ops
    <2> QED
      BY <2>1 DEF Call
  <1>3. ASSUME NEW t \in Threads, Acquire(t) PROVE PlaceInv'
    BY <1>3 DEF Acquire
  <1>4. ASSUME NEW t \in Threads, wait(t) PROVE PlaceInv'
    BY <1>4 DEF wait, wait_loop, Release
  <1>5. ASSUME NEW t \in Threads, is_ready(t) PROVE PlaceInv'
    BY <1>5 DEF is_ready, Release, Done, Learns
  <1>6. ASSUME NEW t \in Threads, count_down(t) PROVE PlaceInv'
    BY <1>6 DEF count_down, Release, Done, Learns
  <1>7. ASSUME NEW t \in Threads, count_down_and_wait(t) PROVE PlaceInv'
    BY <1>7 DEF count_down_and_wait, wait_loop, Release, Done
  <1>8. ASSUME NEW t \in Threads, Leave(t) PROVE PlaceInv'
    BY <1>8 DEF Leave, Done, Learns
  <1>9. ASSUME NEW t \in Threads, SpuriousWakeup(t) PROVE PlaceInv'
    BY <1>9 DEF SpuriousWakeup
  <1>10. CASE Destroy
    BY <1>10 DEF Destroy
  <1>11. CASE Destroyed
    BY <1>11 DEF Destroyed
  <1> QED
    BY <1>1, <1>2, <1>3, <1>4, <1>5, <1>6, <1>7, <1>8, <1>9, <1>10, <1>11 DEF Next, Step

\* Only Acquire takes the mutex and only its holder gives it back; a thread
\* blocks with the mutex in hand, and wakes by being taken off the list.
LEMMA NextLock == IInv /\ [Next]_vars => LockInv'
  <1> SUFFICES ASSUME IInv, [Next]_vars PROVE LockInv'
    OBVIOUS
  <1> USE CountAssumption, ThreadsAssumption DEF IInv, TypeOK, Ops, latchVars, clientVars,
          LockInv, PlaceInv, Waiting
  <1>1. CASE UNCHANGED vars
    BY <1>1 DEF vars
  <1>2. ASSUME NEW t \in Threads, Start(t) PROVE LockInv'
    <2>1. PICK o \in Ops, k \in 0 .. MaxN : Call(t, o, k)
      BY <1>2, CountAssumption DEF Start, Ops
    <2> QED
      BY <2>1 DEF Call
  <1>3. ASSUME NEW t \in Threads, Acquire(t) PROVE LockInv'
    BY <1>3 DEF Acquire
  <1>4. ASSUME NEW t \in Threads, wait(t) PROVE LockInv'
    BY <1>4 DEF wait, wait_loop, Release
  <1>5. ASSUME NEW t \in Threads, is_ready(t) PROVE LockInv'
    BY <1>5 DEF is_ready, Release, Done, Learns
  <1>6. ASSUME NEW t \in Threads, count_down(t) PROVE LockInv'
    BY <1>6 DEF count_down, Release, Done, Learns
  <1>7. ASSUME NEW t \in Threads, count_down_and_wait(t) PROVE LockInv'
    BY <1>7 DEF count_down_and_wait, wait_loop, Release, Done
  <1>8. ASSUME NEW t \in Threads, Leave(t) PROVE LockInv'
    BY <1>8 DEF Leave, Done, Learns
  <1>9. ASSUME NEW t \in Threads, SpuriousWakeup(t) PROVE LockInv'
    BY <1>9 DEF SpuriousWakeup
  <1>10. CASE Destroy
    BY <1>10 DEF Destroy
  <1>11. CASE Destroyed
    BY <1>11 DEF Destroyed
  <1> QED
    BY <1>1, <1>2, <1>3, <1>4, <1>5, <1>6, <1>7, <1>8, <1>9, <1>10, <1>11 DEF Next, Step

\* The count never rises again, and a thread joins the list only over a count
\* that is not zero.
LEMMA NextGate == IInv /\ [Next]_vars => Gate'
  <1> SUFFICES ASSUME IInv, [Next]_vars PROVE Gate'
    OBVIOUS
  <1> USE CountAssumption, ThreadsAssumption DEF IInv, TypeOK, Ops, latchVars, clientVars,
          Gate, LockInv, PlaceInv, Waiting
  <1>1. CASE UNCHANGED vars
    BY <1>1 DEF vars
  <1>2. ASSUME NEW t \in Threads, Start(t) PROVE Gate'
    <2>1. PICK o \in Ops, k \in 0 .. MaxN : Call(t, o, k)
      BY <1>2, CountAssumption DEF Start, Ops
    <2> QED
      BY <2>1 DEF Call
  <1>3. ASSUME NEW t \in Threads, Acquire(t) PROVE Gate'
    BY <1>3 DEF Acquire
  <1>4. ASSUME NEW t \in Threads, wait(t) PROVE Gate'
    BY <1>4 DEF wait, wait_loop, Release
  <1>5. ASSUME NEW t \in Threads, is_ready(t) PROVE Gate'
    BY <1>5 DEF is_ready, Release, Done, Learns
  <1>6. ASSUME NEW t \in Threads, count_down(t) PROVE Gate'
    BY <1>6 DEF count_down, Release, Done, Learns
  <1>7. ASSUME NEW t \in Threads, count_down_and_wait(t) PROVE Gate'
    BY <1>7 DEF count_down_and_wait, wait_loop, Release, Done
  <1>8. ASSUME NEW t \in Threads, Leave(t) PROVE Gate'
    BY <1>8 DEF Leave, Done, Learns
  <1>9. ASSUME NEW t \in Threads, SpuriousWakeup(t) PROVE Gate'
    BY <1>9 DEF SpuriousWakeup
  <1>10. CASE Destroy
    BY <1>10 DEF Destroy
  <1>11. CASE Destroyed
    BY <1>11 DEF Destroyed
  <1> QED
    BY <1>1, <1>2, <1>3, <1>4, <1>5, <1>6, <1>7, <1>8, <1>9, <1>10, <1>11 DEF Next, Step

\* Only a call that begins brings a thread inside.
LEMMA NextInside ==
    IInv /\ [Next]_vars => Inside' \subseteq Inside \/ \E t \in Threads : Start(t)
  <1> SUFFICES ASSUME IInv, [Next]_vars, ~ \E t \in Threads : Start(t)
               PROVE  Inside' \subseteq Inside
    OBVIOUS
  <1> USE DEF IInv, TypeOK, Ops, latchVars, clientVars, Inside
  <1>1. CASE UNCHANGED vars
    BY <1>1 DEF vars
  <1>2. ASSUME NEW t \in Threads, Acquire(t) PROVE Inside' \subseteq Inside
    BY <1>2 DEF Acquire
  <1>3. ASSUME NEW t \in Threads, wait(t) PROVE Inside' \subseteq Inside
    BY <1>3 DEF wait, wait_loop, Release
  <1>4. ASSUME NEW t \in Threads, is_ready(t) PROVE Inside' \subseteq Inside
    BY <1>4 DEF is_ready, Release, Done, Learns
  <1>5. ASSUME NEW t \in Threads, count_down(t) PROVE Inside' \subseteq Inside
    BY <1>5 DEF count_down, Release, Done, Learns
  <1>6. ASSUME NEW t \in Threads, count_down_and_wait(t) PROVE Inside' \subseteq Inside
    BY <1>6 DEF count_down_and_wait, wait_loop, Release, Done
  <1>7. ASSUME NEW t \in Threads, Leave(t) PROVE Inside' \subseteq Inside
    BY <1>7 DEF Leave, Done, Learns
  <1>8. ASSUME NEW t \in Threads, SpuriousWakeup(t) PROVE Inside' \subseteq Inside
    BY <1>8 DEF SpuriousWakeup
  <1>9. CASE Destroy
    BY <1>9 DEF Destroy
  <1>10. CASE Destroyed
    BY <1>10 DEF Destroyed
  <1> QED
    BY <1>1, <1>2, <1>3, <1>4, <1>5, <1>6, <1>7, <1>8, <1>9, <1>10 DEF Next, Step

\* waiting_ rises with the call that goes inside, and falls only with a thread
\* that is going out.
LEMMA NextCovers == IInv /\ [Next]_vars => WaitingCoversInside'
  <1> SUFFICES ASSUME IInv, [Next]_vars PROVE WaitingCoversInside'
    OBVIOUS
  <1> USE InsideFinite DEF IInv, TypeOK, WaitingCoversInside
  <1>1. CASE Inside' \subseteq Inside /\ waiting_' = waiting_
    BY <1>1, StayInside
  <1>2. ASSUME NEW t \in Threads, Start(t) PROVE WaitingCoversInside'
    <2>1. PICK o \in Ops, k \in 0 .. MaxN : Call(t, o, k)
      BY <1>2, CountAssumption DEF Start, Ops
    <2>2. CASE o \in Waiting
      <3>1. Inside' \subseteq Inside \cup {t} /\ waiting_' = waiting_ + 1
        BY <2>1, <2>2 DEF Call, Waiting, Inside
      <3> QED
        BY <3>1, EnterInside
    <2>3. CASE o \notin Waiting
      <3>1. Inside' \subseteq Inside /\ waiting_' = waiting_
        BY <2>1, <2>3 DEF Call, Waiting, Inside
      <3> QED
        BY <3>1, <1>1
    <2> QED
      BY <2>2, <2>3
  <1>3. ASSUME NEW t \in Threads, Leave(t) PROVE WaitingCoversInside'
    <2>1. t \in Inside
      BY <1>3 DEF Leave, PlaceInv, Waiting, Inside
    <2>2. Inside' \subseteq Inside \ {t} /\ waiting_' = waiting_ - 1
      BY <1>3 DEF Leave, Done, Inside
    <2> QED
      BY <2>1, <2>2, LeaveInside
  <1>4. ASSUME ~ \E t \in Threads : Start(t) \/ Leave(t) PROVE WaitingCoversInside'
    <2>1. waiting_' = waiting_
      BY <1>4 DEF Next, Step, Acquire, wait, is_ready, count_down, count_down_and_wait,
                  SpuriousWakeup, Destroy, Destroyed, vars, latchVars
    <2> QED
      BY <2>1, <1>1, <1>4, NextInside
  <1> QED
    BY <1>2, <1>3, <1>4

\* A count that is zero stays zero, so what the Owner learnt stays true; a latch
\* that is being destroyed admits nobody, so once waiting_ is zero nobody is
\* inside, ever again.
LEMMA NextLife == IInv /\ [Next]_vars => LifeInv'
  <1> SUFFICES ASSUME IInv, [Next]_vars PROVE LifeInv'
    OBVIOUS
  <1> USE CountAssumption, ThreadsAssumption DEF IInv, TypeOK, Ops, latchVars, clientVars,
          LifeInv, Waiting, Inside
  <1>1. CASE UNCHANGED vars
    BY <1>1 DEF vars
  <1>2. ASSUME NEW t \in Threads, Start(t) PROVE LifeInv'
    <2>1. PICK o \in Ops, k \in 0 .. MaxN : Call(t, o, k)
      BY <1>2, CountAssumption DEF Start, Ops
    <2> QED
      BY <2>1 DEF Call
  <1>3. ASSUME NEW t \in Threads, Acquire(t) PROVE LifeInv'
    BY <1>3 DEF Acquire
  <1>4. ASSUME NEW t \in Threads, wait(t) PROVE LifeInv'
    BY <1>4 DEF wait, wait_loop, Release
  <1>5. ASSUME NEW t \in Threads, is_ready(t) PROVE LifeInv'
    BY <1>5 DEF is_ready, Release, Done, Learns
  <1>6. ASSUME NEW t \in Threads, count_down(t) PROVE LifeInv'
    BY <1>6 DEF count_down, Release, Done, Learns
  <1>7. ASSUME NEW t \in Threads, count_down_and_wait(t) PROVE LifeInv'
    BY <1>7 DEF count_down_and_wait, wait_loop, Release, Done
  <1>8. ASSUME NEW t \in Threads, Leave(t) PROVE LifeInv'
    <2>1. count_ = 0
      BY <1>8 DEF Leave, Gate
    <2> QED
      BY <1>8, <2>1 DEF Leave, Done, Learns, Inside
  <1>9. ASSUME NEW t \in Threads, SpuriousWakeup(t) PROVE LifeInv'
    BY <1>9 DEF SpuriousWakeup
  <1>10. CASE Destroy
    BY <1>10 DEF Destroy
  <1>11. CASE Destroyed
    <2>1. Cardinality(Inside) = 0
      BY <1>11, InsideFinite DEF Destroyed, WaitingCoversInside
    <2>2. Inside = {}
      BY <2>1, InsideFinite, FS_EmptySet
    <2> QED
      BY <1>11, <2>2 DEF Destroyed, Inside
  <1> QED
    BY <1>1, <1>2, <1>3, <1>4, <1>5, <1>6, <1>7, <1>8, <1>9, <1>10, <1>11 DEF Next, Step

LEMMA NextInv == IInv /\ [Next]_vars => IInv'
  BY NextType, NextPlace, NextLock, NextGate, NextCovers, NextLife DEF IInv

LEMMA Invariance == Spec => []IInv
  BY InitInv, NextInv, PTL DEF Spec

-----------------------------------------------------------------------------

\* Nobody gets past the wait loop before the count is zero, and nobody sleeps
\* once it is, in every run of every latch, whatever wakes up spuriously and
\* however often the clients count down (latch.cc: wait, count_down_and_wait).
THEOREM GateCorrect == Spec => []Gate
  BY Invariance, PTL DEF IInv

\* waiting_ always counts at least the threads inside wait() or
\* count_down_and_wait() (latch.cc: the increments before the lock).
THEOREM WaitingCovers == Spec => []WaitingCoversInside
  BY Invariance, PTL DEF IInv

\* When ~latch returns, no thread holds the mutex or is in any call, though
\* waiting_ is decremented after the mutex is given back (latch.cc: ~latch).
THEOREM DestroySafe == Spec => []NoUseAfterDestroy
  <1>1. IInv => NoUseAfterDestroy
    <2> SUFFICES ASSUME IInv, life = "destroyed"
                 PROVE  condition_mutex_ = NoThread /\ \A t \in Threads : pc[t] = "idle"
      BY DEF NoUseAfterDestroy
    <2>1. ASSUME NEW t \in Threads PROVE pc[t] = "idle"
      <3>1. op[t] = "none"
        BY DEF IInv, LifeInv, Inside, Waiting
      <3> QED
        BY <3>1 DEF IInv, PlaceInv
    <2>2. condition_mutex_ = NoThread
      BY <2>1 DEF IInv, LockInv, TypeOK
    <2> QED
      BY <2>1, <2>2
  <1> QED
    BY <1>1, Invariance, PTL

-----------------------------------------------------------------------------
(* Barrier.                                                                *)

\* The threads that have not dropped out.
Live == {t \in Threads : barrierPc[t] # "dropped"}

\* The threads counted in a phase that they have yet to get past.
Members == {t \in Threads : arrived[t] > passed[t]}

\* Those and the ones that are past the wait but have not left.
Leavers == Members \cup {t \in Threads : barrierPc[t] = "leave"}

\* The counters are numbers, and a thread is at most one phase ahead of itself.
BTypes ==
    /\ thread_count_ \in Nat /\ num_waiting_ \in Nat /\ num_to_leave_ \in Nat
    /\ barrierPc \in [Threads -> {"out", "lock", "blocked", "woken", "leave", "dropped"}]
    /\ barrierOp \in [Threads -> {"none", "arrive_and_wait", "arrive_and_drop"}]
    /\ arrived \in [Threads -> Nat] /\ passed \in [Threads -> Nat]
    /\ \A t \in Threads : arrived[t] \in {passed[t], passed[t] + 1}
    /\ barrierLife \in {"alive", "destroying", "destroyed"}

\* A thread sleeps on one condition variable at most, and is counted in its
\* phase exactly while it waits for the others.
BWaitInv ==
    /\ idle_ \subseteq Threads /\ ready_ \subseteq Threads /\ idle_ \cap ready_ = {}
    /\ \A t \in Threads : barrierPc[t] = "blocked" <=> t \in idle_ \cup ready_
    /\ \A t \in Threads : t \in Members <=> t \in ready_ \/ barrierPc[t] = "woken"

\* While a phase gathers, the threads are level, and it is not complete.  A
\* phase of which nobody was the last to leave has left num_waiting_ too high,
\* and no further phase completes.
GatherInv ==
    num_to_leave_ = 0 =>
      /\ \A t \in Threads : barrierPc[t] # "leave"
      /\ \A t, u \in Live : passed[t] = passed[u]
      /\ \/ num_waiting_ = Cardinality(Members) /\ num_waiting_ < thread_count_
         \/ num_waiting_ >= thread_count_ + Cardinality(Members)

\* While it empties, num_to_leave_ counts the threads that are still to leave.
LeaveInv ==
    num_to_leave_ > 0 =>
      /\ \A t, u \in Live : arrived[t] = arrived[u]
      /\ num_to_leave_ = Cardinality(Leavers)
      /\ num_waiting_ = thread_count_ \/ (num_waiting_ = 0 /\ Members = {})

\* thread_count_ counts the threads that take part; the others are behind.
DropInv ==
    /\ thread_count_ = Cardinality(Live)
    /\ \A t \in Threads \ Live, u \in Live : passed[t] <= passed[u]

\* A barrier that is being destroyed is emptying or empty, and nobody comes.
BLifeInv ==
    /\ barrierLife # "alive" =>
          /\ idle_ = {} /\ \A t \in Threads : barrierPc[t] # "lock"
          /\ Members # {} => num_to_leave_ > 0
    /\ barrierLife = "destroyed" => num_to_leave_ = 0

BInv == BTypes /\ BWaitInv /\ GatherInv /\ LeaveInv /\ DropInv /\ BLifeInv

-----------------------------------------------------------------------------
(* Counting the threads of a barrier.                                      *)

\* What Barrier takes from FiniteSets is what this module takes.
LEMMA SameSets ==
    \A S : B!Cardinality(S) = Cardinality(S) /\ B!IsFiniteSet(S) = IsFiniteSet(S)
  BY DEF B!Cardinality, Cardinality, B!IsFiniteSet, IsFiniteSet

LEMMA BarrierFinite ==
    /\ IsFiniteSet(Live) /\ IsFiniteSet(Members) /\ IsFiniteSet(Leavers)
    /\ IsFiniteSet(Live') /\ IsFiniteSet(Members') /\ IsFiniteSet(Leavers')
    /\ Cardinality(Live) \in Nat /\ Cardinality(Members) \in Nat /\ Cardinality(Leavers) \in Nat
    /\ Cardinality(Live') \in Nat /\ Cardinality(Members') \in Nat /\ Cardinality(Leavers') \in Nat
  <1>1. /\ Live \subseteq Threads /\ Members \subseteq Threads /\ Leavers \subseteq Threads
        /\ Live' \subseteq Threads /\ Members' \subseteq Threads /\ Leavers' \subseteq Threads
    BY DEF Live, Members, Leavers
  <1>2. IsFiniteSet(Threads)
    BY BarrierAssumption, SameSets DEF B!ConstantsOK
  <1> QED
    BY <1>1, <1>2, FS_Subset, FS_CardinalityType

LEMMA NoMembers == Cardinality(Members) = 0 <=> Members = {}
  BY BarrierFinite, FS_EmptySet

LEMMA NoLeavers == Cardinality(Leavers) = 0 <=> Leavers = {}
  BY BarrierFinite, FS_EmptySet

\* A set of live threads that has as many as there are is all of them.
LEMMA Everybody ==
    ASSUME NEW S, NEW T, IsFiniteSet(T), S \subseteq T, Cardinality(S) = Cardinality(T)
    PROVE  S = T
  BY FS_Subset

\* A member of a phase is live, and sleeps or has just woken up.
LEMMA MemberPlace ==
    ASSUME BWaitInv, NEW t \in Members
    PROVE  t \in Threads /\ barrierPc[t] \in {"blocked", "woken"} /\ t \in Live
  BY DEF BWaitInv, Members, Live

\* A step that changes no counter and no history, and puts nobody into or out
\* of a set that is counted.
LEMMA BarrierQuiet ==
    ASSUME BInv, UNCHANGED <<thread_count_, num_waiting_, num_to_leave_, arrived, passed>>,
           Live' = Live,
           \A t \in Threads : barrierPc'[t] = "leave" <=> barrierPc[t] = "leave"
    PROVE  (GatherInv /\ LeaveInv /\ DropInv)' /\ Members' = Members /\ Leavers' = Leavers
  <1>1. Members' = Members /\ Leavers' = Leavers
    BY DEF Members, Leavers
  <1>2. GatherInv'
    BY <1>1 DEF BInv, GatherInv
  <1>3. LeaveInv'
    BY <1>1 DEF BInv, LeaveInv
  <1>4. DropInv'
    BY <1>1 DEF BInv, DropInv
  <1> QED
    BY <1>1, <1>2, <1>3, <1>4

LEMMA BarrierInit == B!Init => BInv
  <1> SUFFICES ASSUME B!Init PROVE BInv
    OBVIOUS
  <1>1. /\ thread_count_ = Cardinality(Threads) /\ num_waiting_ = 0 /\ num_to_leave_ = 0
        /\ idle_ = {} /\ ready_ = {} /\ barrierLife = "alive"
        /\ \A t \in Threads : /\ barrierPc[t] = "out" /\ barrierOp[t] = "none"
                              /\ arrived[t] = 0 /\ passed[t] = 0
    BY SameSets DEF B!Init, B!N
  <1>2. Members = {} /\ Live = Threads /\ Owner \in Threads
    BY <1>1, BarrierAssumption DEF Members, Live, B!ConstantsOK
  <1>3. Cardinality(Threads) \in Nat /\ Cardinality(Threads) # 0
    BY <1>2, BarrierFinite, FS_EmptySet
  <1>4. BTypes
    BY <1>1, <1>3 DEF BTypes, B!Init
  <1>5. BWaitInv /\ DropInv /\ BLifeInv /\ LeaveInv
    BY <1>1, <1>2 DEF BWaitInv, DropInv, BLifeInv, LeaveInv
  <1>6. GatherInv
    BY <1>1, <1>2, <1>3, NoMembers DEF GatherInv
  <1> QED
    BY <1>4, <1>5, <1>6 DEF BInv

\* A thread calls, waits for the last phase to empty, or wakes up for no reason.
LEMMA BarrierCallKeeps ==
    ASSUME BInv, NEW t \in Threads, B!Call(t) \/ B!WaitIdle(t) \/ B!SpuriousWakeup(t)
    PROVE  BInv'
  <1>1. UNCHANGED <<thread_count_, num_waiting_, num_to_leave_, arrived, passed, barrierLife>>
    BY DEF B!Call, B!Enter, B!WaitIdle, B!SpuriousWakeup, B!barrierVars
  <1>2. /\ barrierPc \in [Threads -> {"out", "lock", "blocked", "woken", "leave", "dropped"}]
        /\ barrierOp \in [Threads -> {"none", "arrive_and_wait", "arrive_and_drop"}]
        /\ idle_ \subseteq Threads /\ ready_ \subseteq Threads /\ idle_ \cap ready_ = {}
        /\ \A u \in Threads : barrierPc[u] = "blocked" <=> u \in idle_ \cup ready_
        /\ \A u \in Threads : u \in Members <=> u \in ready_ \/ barrierPc[u] = "woken"
    BY DEF BInv, BTypes, BWaitInv
  <1>3. CASE B!Call(t)
    <2>1. PICK o \in {"arrive_and_wait", "arrive_and_drop"} : B!Enter(t, o)
      BY <1>3 DEF B!Call
    <2>2. /\ barrierPc[t] = "out" /\ barrierPc' = [barrierPc EXCEPT ![t] = "lock"]
          /\ barrierOp' = [barrierOp EXCEPT ![t] = o] /\ barrierLife = "alive"
          /\ idle_' = idle_ /\ ready_' = ready_
      BY <2>1 DEF B!Enter, B!barrierVars
    <2>3. Live' = Live /\ \A u \in Threads : barrierPc'[u] = "leave" <=> barrierPc[u] = "leave"
      BY <1>2, <2>2 DEF Live
    <2>4. (GatherInv /\ LeaveInv /\ DropInv)' /\ Members' = Members
      BY <1>1, <2>3, BarrierQuiet
    <2>5. BTypes'
      BY <1>1, <1>2, <2>2 DEF BInv, BTypes
    <2>6. BWaitInv'
      BY <1>2, <2>2, <2>4 DEF BWaitInv
    <2>7. BLifeInv'
      BY <1>1, <2>2 DEF BLifeInv
    <2> QED
      BY <2>4, <2>5, <2>6, <2>7 DEF BInv
  <1>4. CASE B!WaitIdle(t)
    <2>1. /\ barrierPc[t] = "lock" /\ idle_' = idle_ \cup {t} /\ ready_' = ready_
          /\ barrierOp' = barrierOp /\ barrierLife = "alive"
          /\ barrierPc' \in [Threads -> {"out", "lock", "blocked", "woken", "leave", "dropped"}]
          /\ \A u \in Threads : barrierPc'[u] = IF u = t THEN "blocked" ELSE barrierPc[u]
      BY <1>2, <1>4 DEF B!WaitIdle, B!Moved, BInv, BLifeInv, BTypes
    <2>2. Live' = Live /\ \A u \in Threads : barrierPc'[u] = "leave" <=> barrierPc[u] = "leave"
      BY <2>1 DEF Live
    <2>3. (GatherInv /\ LeaveInv /\ DropInv)' /\ Members' = Members
      BY <1>1, <2>2, BarrierQuiet
    <2>4. BTypes'
      BY <1>1, <2>1 DEF BInv, BTypes
    <2>5. BWaitInv'
      BY <1>2, <2>1, <2>3 DEF BWaitInv
    <2>6. BLifeInv'
      BY <1>1, <2>1 DEF BLifeInv
    <2> QED
      BY <2>3, <2>4, <2>5, <2>6 DEF BInv
  <1>5. CASE B!SpuriousWakeup(t)
    <2>1. /\ barrierPc[t] = "blocked" /\ idle_' = idle_ \ {t} /\ ready_' = ready_ \ {t}
          /\ barrierOp' = barrierOp
          /\ barrierPc' = [barrierPc EXCEPT ![t] = IF t \in idle_ THEN "lock" ELSE "woken"]
      BY <1>5 DEF B!SpuriousWakeup
    <2>2. Live' = Live /\ \A u \in Threads : barrierPc'[u] = "leave" <=> barrierPc[u] = "leave"
      BY <1>2, <2>1 DEF Live
    <2>3. (GatherInv /\ LeaveInv /\ DropInv)' /\ Members' = Members
      BY <1>1, <2>2, BarrierQuiet
    <2>4. BTypes'
      BY <1>1, <1>2, <2>1 DEF BInv, BTypes
    <2>5. BWaitInv'
      BY <1>2, <2>1, <2>3 DEF BWaitInv
    <2>6. BLifeInv'
      BY <1>1, <1>2, <2>1, <2>3 DEF BInv, BLifeInv
    <2> QED
      BY <2>3, <2>4, <2>5, <2>6 DEF BInv
  <1> QED
    BY <1>3, <1>4, <1>5

\* A thread tests the predicate again in vain, or the destructor takes a step.
LEMMA BarrierCalm ==
    ASSUME BInv, B!Destroy \/ B!Destroyed
    PROVE  BInv'
  <1>1. UNCHANGED <<thread_count_, num_waiting_, num_to_leave_, idle_, ready_,
                    barrierPc, barrierOp, arrived, passed>>
    BY DEF B!Destroy, B!Destroyed, B!barrierVars
  <1>2. (GatherInv /\ LeaveInv /\ DropInv)' /\ Members' = Members
    BY <1>1, BarrierQuiet DEF Live
  <1>3. BTypes' /\ BWaitInv'
    BY <1>1, <1>2 DEF BInv, BTypes, BWaitInv, B!Destroy, B!Destroyed
  <1>4. CASE B!Destroyed
    BY <1>1, <1>2, <1>3, <1>4 DEF BInv, BLifeInv, B!Destroyed, B!all_threads_exited
  <1>5. CASE B!Destroy
    <2>1. /\ \A t \in Threads : barrierPc[t] # "lock" /\ t \notin idle_
          /\ barrierPc[Owner] = "out" /\ barrierLife' = "destroying"
          /\ \A t \in Threads : barrierPc[t] \in {"blocked", "woken"} => arrived[t] = passed[Owner]
      BY <1>5 DEF B!Destroy
    <2>2. idle_ = {}
      BY <2>1 DEF BInv, BWaitInv
    <2>3. ASSUME NEW u \in Members, num_to_leave_ = 0 PROVE FALSE
      <3>1. u \in Live /\ barrierPc[u] \in {"blocked", "woken"} /\ u \in Threads
        BY MemberPlace DEF BInv
      <3>2. Owner \in Live
        BY <2>1, BarrierAssumption DEF Live, B!ConstantsOK
      <3>3. passed[u] = passed[Owner]
        BY <2>3, <3>1, <3>2 DEF BInv, GatherInv
      <3>4. arrived[u] > passed[u] /\ passed[u] \in Nat
        BY <3>1 DEF Members, BInv, BTypes
      <3> QED
        BY <2>1, <3>1, <3>3, <3>4
    <2>4. Members # {} => num_to_leave_ > 0
      BY <2>3 DEF BInv, BTypes
    <2> QED
      BY <1>1, <1>2, <1>3, <2>1, <2>2, <2>4 DEF BInv, BLifeInv
  <1> QED
    BY <1>2, <1>3, <1>4, <1>5 DEF BInv

\* An arrival comes to a phase that is gathering, and is not counted in it yet.
LEMMA BarrierArrival ==
    ASSUME BInv, NEW t \in Threads, B!arrive_and_wait(t)
    PROVE  /\ barrierPc[t] = "lock" /\ num_to_leave_ = 0 /\ barrierLife = "alive"
           /\ thread_count_' = thread_count_ /\ barrierOp' = barrierOp /\ barrierLife' = "alive"
           /\ t \in Live /\ t \notin Members /\ passed[t] \in Nat /\ arrived[t] = passed[t]
           /\ arrived' \in [Threads -> Nat]
           /\ \A u \in Threads : arrived'[u] = IF u = t THEN passed[t] + 1 ELSE arrived[u]
  <1>1. /\ barrierPc[t] = "lock" /\ num_to_leave_ = 0
        /\ arrived' = [arrived EXCEPT ![t] = @ + 1]
        /\ UNCHANGED <<thread_count_, barrierOp, barrierLife>>
    BY DEF B!arrive_and_wait, B!all_threads_exited
  <1>2. /\ arrived \in [Threads -> Nat] /\ passed \in [Threads -> Nat]
        /\ arrived[t] \in {passed[t], passed[t] + 1}
    BY DEF BInv, BTypes
  <1>3. t \in Live /\ t \notin Members
    BY <1>1 DEF Live, BInv, BWaitInv
  <1>4. arrived[t] = passed[t]
    BY <1>2, <1>3 DEF Members
  <1>5. barrierLife = "alive"
    BY <1>1 DEF BInv, BLifeInv
  <1> QED
    BY <1>1, <1>2, <1>3, <1>4, <1>5

LEMMA BarrierEarly ==
    ASSUME BInv, NEW t \in Threads, B!arrive_and_wait(t), B!ArriveEarly(t)
    PROVE  BInv'
  <1>1. /\ num_waiting_ + 1 # thread_count_ /\ num_waiting_' = num_waiting_ + 1
        /\ ready_' = ready_ \cup {t} /\ UNCHANGED <<num_to_leave_, idle_, passed>>
        /\ barrierPc' = [u \in Threads |-> IF u = t THEN "blocked" ELSE barrierPc[u]]
    BY DEF B!ArriveEarly, B!Moved
  <1>2. /\ barrierPc[t] = "lock" /\ num_to_leave_ = 0 /\ thread_count_' = thread_count_
        /\ barrierOp' = barrierOp /\ barrierLife' = "alive"
        /\ t \in Live /\ t \notin Members /\ passed[t] \in Nat /\ arrived[t] = passed[t]
        /\ arrived' \in [Threads -> Nat]
        /\ \A u \in Threads : arrived'[u] = IF u = t THEN passed[t] + 1 ELSE arrived[u]
    BY BarrierArrival
  <1>3. Members' = Members \cup {t}
    BY <1>1, <1>2 DEF Members
  <1>4. Live' = Live
    BY <1>1, <1>2 DEF Live
  <1>5. Cardinality(Members') = Cardinality(Members) + 1
    BY <1>2, <1>3, BarrierFinite, FS_AddElement
  <1>6. BTypes'
    BY <1>1, <1>2 DEF BInv, BTypes
  <1>7. BWaitInv'
    BY <1>1, <1>2, <1>3 DEF BInv, BWaitInv
  <1>8. GatherInv'
    <2>1. /\ \A u \in Threads : barrierPc[u] # "leave"
          /\ \A u, v \in Live : passed[u] = passed[v]
          /\ \/ num_waiting_ = Cardinality(Members) /\ num_waiting_ < thread_count_
             \/ num_waiting_ >= thread_count_ + Cardinality(Members)
      BY <1>2 DEF BInv, GatherInv
    <2>2. num_waiting_ \in Nat /\ thread_count_ \in Nat /\ Cardinality(Members) \in Nat
      BY BarrierFinite DEF BInv, BTypes
    <2>3. \/ num_waiting_' = Cardinality(Members') /\ num_waiting_' < thread_count_'
          \/ num_waiting_' >= thread_count_' + Cardinality(Members')
      BY <1>1, <1>2, <1>5, <2>1, <2>2
    <2>4. \A u \in Threads : barrierPc'[u] # "leave"
      BY <1>1, <2>1
    <2> QED
      BY <1>1, <1>4, <2>1, <2>3, <2>4 DEF GatherInv
  <1>9. LeaveInv' /\ DropInv' /\ BLifeInv'
    BY <1>1, <1>2, <1>4 DEF BInv, LeaveInv, DropInv, BLifeInv
  <1> QED
    BY <1>6, <1>7, <1>8, <1>9 DEF BInv

\* The last arrival finds everybody else in the phase.
LEMMA BarrierLast ==
    ASSUME BInv, NEW t \in Threads, B!arrive_and_wait(t), B!ArriveLast(t)
    PROVE  BInv'
  <1> DEFINE I == IF thread_count_ = 1 THEN idle_ ELSE {}
  <1>1. /\ num_waiting_ + 1 = thread_count_ /\ num_to_leave_' = thread_count_
        /\ num_waiting_' = IF thread_count_ = 1 THEN 0 ELSE num_waiting_ + 1
        /\ ready_' = {} /\ idle_' = idle_ \ I
        /\ barrierPc' = [u \in Threads |-> IF u = t THEN "leave"
                                           ELSE IF u \in ready_ THEN "woken"
                                           ELSE IF u \in I THEN "lock" ELSE barrierPc[u]]
        /\ passed' = [passed EXCEPT ![t] = @ + 1]
    BY DEF B!ArriveLast, B!Moved
  <1>2. /\ barrierPc[t] = "lock" /\ num_to_leave_ = 0 /\ thread_count_' = thread_count_
        /\ barrierOp' = barrierOp /\ barrierLife' = "alive"
        /\ t \in Live /\ t \notin Members /\ passed[t] \in Nat /\ arrived[t] = passed[t]
        /\ arrived' \in [Threads -> Nat]
        /\ \A u \in Threads : arrived'[u] = IF u = t THEN passed[t] + 1 ELSE arrived[u]
    BY BarrierArrival
  <1>3. /\ num_waiting_ \in Nat /\ thread_count_ \in Nat /\ Cardinality(Members) \in Nat
        /\ passed \in [Threads -> Nat] /\ arrived \in [Threads -> Nat]
        /\ \A u \in Threads : arrived[u] \in {passed[u], passed[u] + 1}
        /\ idle_ \subseteq Threads /\ ready_ \subseteq Threads /\ idle_ \cap ready_ = {}
        /\ \A u \in Threads : barrierPc[u] = "blocked" <=> u \in idle_ \cup ready_
        /\ \A u \in Threads : u \in Members <=> u \in ready_ \/ barrierPc[u] = "woken"
    BY BarrierFinite DEF BInv, BTypes, BWaitInv
  <1>4. /\ \A u \in Threads : barrierPc[u] # "leave"
        /\ \A u, v \in Live : passed[u] = passed[v]
        /\ num_waiting_ = Cardinality(Members)
    <2>1. /\ \A u \in Threads : barrierPc[u] # "leave"
          /\ \A u, v \in Live : passed[u] = passed[v]
          /\ \/ num_waiting_ = Cardinality(Members) /\ num_waiting_ < thread_count_
             \/ num_waiting_ >= thread_count_ + Cardinality(Members)
      BY <1>2 DEF BInv, GatherInv
    <2> QED
      BY <1>1, <1>3, <2>1
  <1>5. Members \cup {t} = Live
    <2>1. Members \cup {t} \subseteq Live
      BY <1>2, MemberPlace DEF BInv
    <2>2. Cardinality(Members \cup {t}) = Cardinality(Members) + 1
      BY <1>2, BarrierFinite, FS_AddElement
    <2>3. Cardinality(Members \cup {t}) = Cardinality(Live)
      BY <1>1, <1>4, <2>2 DEF BInv, DropInv
    <2> QED
      BY <2>1, <2>3, BarrierFinite, Everybody
  <1>6. /\ passed' \in [Threads -> Nat]
        /\ \A u \in Threads : passed'[u] = IF u = t THEN passed[t] + 1 ELSE passed[u]
    BY <1>1, <1>3
  <1>7. Members' = Members
    BY <1>2, <1>3, <1>6 DEF Members
  <1>8. Live' = Live
    BY <1>1, <1>2, <1>3 DEF Live
  <1>9. Leavers' = Live
    BY <1>1, <1>4, <1>5, <1>7 DEF Leavers, Live
  <1>10. thread_count_ = Cardinality(Live) /\ thread_count_ > 0
    BY <1>1, <1>3 DEF BInv, DropInv
  <1>11. BTypes'
    <2>1. \A u \in Threads : arrived'[u] \in {passed'[u], passed'[u] + 1}
      BY <1>2, <1>3, <1>6
    <2>2. barrierPc' \in [Threads -> {"out", "lock", "blocked", "woken", "leave", "dropped"}]
      BY <1>1 DEF BInv, BTypes
    <2> QED
      BY <1>1, <1>2, <1>3, <1>6, <2>1, <2>2 DEF BInv, BTypes
  <1>12. BWaitInv'
    BY <1>1, <1>2, <1>3, <1>7 DEF BWaitInv
  <1>13. LeaveInv'
    <2>1. \A u \in Live : arrived'[u] = passed[t] + 1
      BY <1>2, <1>3, <1>4, <1>5 DEF Members, Live
    <2>2. num_waiting_' = thread_count_' \/ (num_waiting_' = 0 /\ Members' = {})
      BY <1>1, <1>2, <1>3, <1>4, <1>7, NoMembers
    <2> QED
      BY <1>1, <1>8, <1>9, <1>10, <2>1, <2>2 DEF LeaveInv
  <1>14. DropInv'
    <2>1. /\ thread_count_ = Cardinality(Live)
          /\ \A u \in Threads \ Live, v \in Live : passed[u] <= passed[v]
      BY DEF BInv, DropInv
    <2>2. \A u \in Threads \ Live : passed'[u] = passed[u] /\ passed[u] \in Nat
      BY <1>2, <1>3, <1>6
    <2>3. \A v \in Live : passed[v] \in Nat /\ passed'[v] \in {passed[v], passed[v] + 1}
      BY <1>2, <1>3, <1>6 DEF Live
    <2>4. \A u \in Threads \ Live, v \in Live : passed'[u] <= passed'[v]
      BY <2>1, <2>2, <2>3
    <2> QED
      BY <1>2, <1>8, <2>1, <2>4 DEF DropInv
  <1>15. GatherInv' /\ BLifeInv'
    BY <1>1, <1>2, <1>10 DEF GatherInv, BLifeInv
  <1> QED
    BY <1>11, <1>12, <1>13, <1>14, <1>15 DEF BInv

\* A woken thread that finds the others still to come sleeps on.
LEMMA BarrierSleepsOn ==
    ASSUME BInv, NEW t \in Threads, B!Woken(t), num_waiting_ # thread_count_
    PROVE  BInv'
  <1>1. /\ barrierPc[t] = "woken" /\ ready_' = ready_ \cup {t}
        /\ barrierPc' = [u \in Threads |-> IF u = t THEN "blocked" ELSE barrierPc[u]]
        /\ UNCHANGED <<thread_count_, num_waiting_, num_to_leave_, idle_,
                       barrierOp, arrived, passed, barrierLife>>
    BY DEF B!Woken, B!Moved, B!all_threads_waiting
  <1>2. Live' = Live /\ \A u \in Threads : barrierPc'[u] = "leave" <=> barrierPc[u] = "leave"
    BY <1>1 DEF Live
  <1>3. (GatherInv /\ LeaveInv /\ DropInv)' /\ Members' = Members
    BY <1>1, <1>2, BarrierQuiet
  <1>4. BTypes' /\ BWaitInv' /\ BLifeInv'
    BY <1>1, <1>3 DEF BInv, BTypes, BWaitInv, BLifeInv
  <1> QED
    BY <1>3, <1>4 DEF BInv

\* One that finds them all gets past the wait.
LEMMA BarrierPasses ==
    ASSUME BInv, NEW t \in Threads, B!Woken(t), num_waiting_ = thread_count_
    PROVE  BInv'
  <1> DEFINE I == IF num_to_leave_ = 1 THEN idle_ ELSE {}
  <1>1. /\ barrierPc[t] = "woken" /\ ready_' = ready_ /\ idle_' = idle_ \ I
        /\ num_waiting_' = IF num_to_leave_ = 1 THEN 0 ELSE num_waiting_
        /\ barrierPc' = [u \in Threads |-> IF u = t THEN "leave"
                                           ELSE IF u \in I THEN "lock" ELSE barrierPc[u]]
        /\ passed' = [passed EXCEPT ![t] = @ + 1]
        /\ UNCHANGED <<thread_count_, num_to_leave_, barrierOp, arrived, barrierLife>>
    BY DEF B!Woken, B!Moved, B!all_threads_waiting
  <1>2. /\ num_waiting_ \in Nat /\ thread_count_ \in Nat /\ num_to_leave_ \in Nat
        /\ Cardinality(Members) \in Nat /\ Cardinality(Leavers) \in Nat
        /\ passed \in [Threads -> Nat] /\ arrived \in [Threads -> Nat]
        /\ \A u \in Threads : arrived[u] \in {passed[u], passed[u] + 1}
        /\ idle_ \subseteq Threads /\ ready_ \subseteq Threads /\ idle_ \cap ready_ = {}
        /\ \A u \in Threads : barrierPc[u] = "blocked" <=> u \in idle_ \cup ready_
        /\ \A u \in Threads : u \in Members <=> u \in ready_ \/ barrierPc[u] = "woken"
    BY BarrierFinite DEF BInv, BTypes, BWaitInv
  <1>3. t \in Members /\ t \notin ready_ /\ t \notin idle_
    BY <1>1, <1>2
  <1>4. num_to_leave_ > 0
    <2>1. Cardinality(Members) > 0
      BY <1>2, <1>3, NoMembers
    <2> QED
      BY <1>2, <2>1 DEF BInv, GatherInv
  <1>5. /\ \A u, v \in Live : arrived[u] = arrived[v]
        /\ num_to_leave_ = Cardinality(Leavers)
        /\ num_waiting_ = thread_count_ \/ (num_waiting_ = 0 /\ Members = {})
    BY <1>4 DEF BInv, LeaveInv
  <1>6. /\ passed' \in [Threads -> Nat] /\ arrived[t] = passed[t] + 1
        /\ \A u \in Threads : passed'[u] = IF u = t THEN passed[t] + 1 ELSE passed[u]
    BY <1>1, <1>2, <1>3 DEF Members
  <1>7. Members' = Members \ {t}
    BY <1>1, <1>2, <1>3, <1>6 DEF Members
  <1>8. Live' = Live /\ t \in Live
    BY <1>1, <1>2 DEF Live
  <1>9. Leavers' = Leavers
    BY <1>1, <1>2, <1>3, <1>7 DEF Leavers
  <1>10. num_to_leave_ = 1 => Members' = {}
    <2> SUFFICES ASSUME num_to_leave_ = 1, NEW u \in Members, u # t PROVE FALSE
      BY <1>7
    <2>1. t \in Leavers /\ u \in Leavers \ {t}
      BY <1>3 DEF Leavers
    <2>2. IsFiniteSet(Leavers \ {t}) /\ Cardinality(Leavers \ {t}) = 0
      BY <1>5, <2>1, BarrierFinite, FS_RemoveElement
    <2> QED
      BY <2>1, <2>2, FS_EmptySet
  <1>11. BTypes'
    <2>1. \A u \in Threads : arrived'[u] \in {passed'[u], passed'[u] + 1}
      BY <1>1, <1>2, <1>6
    <2>2. barrierPc' \in [Threads -> {"out", "lock", "blocked", "woken", "leave", "dropped"}]
      BY <1>1 DEF BInv, BTypes
    <2> QED
      BY <1>1, <1>2, <1>6, <2>1, <2>2 DEF BInv, BTypes
  <1>12. BWaitInv'
    BY <1>1, <1>2, <1>3, <1>7 DEF BWaitInv
  <1>13. LeaveInv' /\ GatherInv'
    BY <1>1, <1>4, <1>5, <1>8, <1>9, <1>10 DEF LeaveInv, GatherInv
  <1>14. DropInv'
    <2>1. /\ thread_count_ = Cardinality(Live)
          /\ \A u \in Threads \ Live, v \in Live : passed[u] <= passed[v]
      BY DEF BInv, DropInv
    <2>2. \A u \in Threads \ Live : passed'[u] = passed[u] /\ passed[u] \in Nat
      BY <1>2, <1>6, <1>8
    <2>3. \A v \in Live : passed[v] \in Nat /\ passed'[v] \in {passed[v], passed[v] + 1}
      BY <1>2, <1>6 DEF Live
    <2>4. \A u \in Threads \ Live, v \in Live : passed'[u] <= passed'[v]
      BY <2>1, <2>2, <2>3
    <2> QED
      BY <1>1, <1>8, <2>1, <2>4 DEF DropInv
  <1>15. BLifeInv'
    BY <1>1, <1>4 DEF BInv, BLifeInv
  <1> QED
    BY <1>11, <1>12, <1>13, <1>14, <1>15 DEF BInv

\* The decrement outside the mutex.  The last one may be made without anybody
\* having reset num_waiting_; then no further phase opens.
LEMMA BarrierLeaves ==
    ASSUME BInv, NEW t \in Threads, B!Leave(t)
    PROVE  BInv'
  <1>1. /\ barrierPc[t] = "leave" /\ num_to_leave_' = num_to_leave_ - 1
        /\ barrierPc' = [barrierPc EXCEPT ![t] = "out"]
        /\ barrierOp' = [barrierOp EXCEPT ![t] = "none"]
        /\ UNCHANGED <<thread_count_, num_waiting_, idle_, ready_, arrived, passed, barrierLife>>
    BY DEF B!Leave
  <1>2. /\ num_waiting_ \in Nat /\ thread_count_ \in Nat /\ num_to_leave_ \in Nat
        /\ Cardinality(Members) \in Nat /\ Cardinality(Leavers) \in Nat
        /\ \A u \in Threads : arrived[u] \in {passed[u], passed[u] + 1} /\ passed[u] \in Nat
        /\ barrierPc \in [Threads -> {"out", "lock", "blocked", "woken", "leave", "dropped"}]
        /\ barrierOp \in [Threads -> {"none", "arrive_and_wait", "arrive_and_drop"}]
        /\ \A u \in Threads : barrierPc[u] = "blocked" <=> u \in idle_ \cup ready_
        /\ \A u \in Threads : u \in Members <=> u \in ready_ \/ barrierPc[u] = "woken"
    BY BarrierFinite DEF BInv, BTypes, BWaitInv
  <1>3. num_to_leave_ > 0
    BY <1>1, <1>2 DEF BInv, GatherInv
  <1>4. /\ \A u, v \in Live : arrived[u] = arrived[v]
        /\ num_to_leave_ = Cardinality(Leavers)
        /\ num_waiting_ = thread_count_ \/ (num_waiting_ = 0 /\ Members = {})
    BY <1>3 DEF BInv, LeaveInv
  <1>5. t \in Leavers /\ t \notin Members /\ t \in Live
    BY <1>1, <1>2 DEF Leavers, Live
  <1>6. Members' = Members /\ Live' = Live
    BY <1>1, <1>2 DEF Members, Live
  <1>7. Leavers' = Leavers \ {t}
    BY <1>1, <1>2, <1>5, <1>6 DEF Leavers
  <1>8. num_to_leave_' = Cardinality(Leavers') /\ num_to_leave_' \in Nat
    BY <1>1, <1>4, <1>5, <1>7, BarrierFinite, FS_RemoveElement
  <1>9. BTypes' /\ BWaitInv' /\ DropInv'
    BY <1>1, <1>2, <1>6, <1>8 DEF BInv, BTypes, BWaitInv, DropInv
  <1>10. LeaveInv'
    BY <1>1, <1>4, <1>6, <1>8 DEF LeaveInv
  <1>11. num_to_leave_' = 0 => Leavers' = {} /\ Members = {}
    BY <1>6, <1>8, BarrierFinite, FS_EmptySet DEF Leavers
  <1>12. GatherInv'
    <2> SUFFICES ASSUME num_to_leave_' = 0
                 PROVE  /\ \A u \in Threads : barrierPc'[u] # "leave"
                        /\ \A u, v \in Live : passed[u] = passed[v]
                        /\ \/ num_waiting_ = Cardinality(Members) /\ num_waiting_ < thread_count_
                           \/ num_waiting_ >= thread_count_ + Cardinality(Members)
      BY <1>1, <1>6 DEF GatherInv
    <2>1. \A u \in Threads : barrierPc'[u] # "leave"
      BY <1>11 DEF Leavers
    <2>2. \A u \in Threads : arrived[u] = passed[u]
      BY <1>2, <1>11 DEF Members
    <2>3. \A u, v \in Live : passed[u] = passed[v]
      BY <1>4, <2>2 DEF Live
    <2>4. Cardinality(Members) = 0 /\ thread_count_ > 0
      <3>1. Cardinality(Live) # 0
        BY <1>5, BarrierFinite, FS_EmptySet
      <3> QED
        BY <1>2, <1>11, <3>1, NoMembers DEF BInv, DropInv
    <2> QED
      BY <1>2, <1>4, <2>1, <2>3, <2>4
  <1>13. BLifeInv'
    BY <1>1, <1>2, <1>3, <1>6, <1>8, <1>11 DEF BInv, BLifeInv
  <1> QED
    BY <1>9, <1>10, <1>12, <1>13 DEF BInv

\* A drop may leave those who wait complete.
LEMMA BarrierDrops ==
    ASSUME BInv, NEW t \in Threads, B!arrive_and_drop(t)
    PROVE  BInv'
  <1> DEFINE complete == thread_count_' # 0 /\ num_waiting_ = thread_count_'
             R == IF complete THEN ready_ ELSE {}
  <1>1. /\ barrierPc[t] = "lock" /\ num_to_leave_ = 0 /\ thread_count_' = thread_count_ - 1
        /\ num_to_leave_' = IF complete THEN thread_count_' ELSE num_to_leave_
        /\ ready_' = ready_ \ R
        /\ barrierPc' = [u \in Threads |-> IF u = t THEN "dropped"
                                           ELSE IF u \in R THEN "woken" ELSE barrierPc[u]]
        /\ barrierOp' = [barrierOp EXCEPT ![t] = "none"]
        /\ UNCHANGED <<num_waiting_, idle_, arrived, passed, barrierLife>>
    BY DEF B!arrive_and_drop, B!Moved, B!all_threads_exited
  <1> HIDE DEF complete
  <1>2. /\ num_waiting_ \in Nat /\ thread_count_ \in Nat /\ num_to_leave_ \in Nat
        /\ Cardinality(Members) \in Nat /\ Cardinality(Live) \in Nat
        /\ \A u \in Threads : arrived[u] \in {passed[u], passed[u] + 1} /\ passed[u] \in Nat
        /\ barrierPc \in [Threads -> {"out", "lock", "blocked", "woken", "leave", "dropped"}]
        /\ barrierOp \in [Threads -> {"none", "arrive_and_wait", "arrive_and_drop"}]
        /\ idle_ \subseteq Threads /\ ready_ \subseteq Threads /\ idle_ \cap ready_ = {}
        /\ \A u \in Threads : barrierPc[u] = "blocked" <=> u \in idle_ \cup ready_
        /\ \A u \in Threads : u \in Members <=> u \in ready_ \/ barrierPc[u] = "woken"
    BY BarrierFinite DEF BInv, BTypes, BWaitInv
  <1>3. t \in Live /\ t \notin Members /\ t \notin ready_ /\ barrierLife = "alive"
    BY <1>1, <1>2 DEF Live, BInv, BLifeInv, BTypes
  <1>4. /\ \A u \in Threads : barrierPc[u] # "leave"
        /\ \A u, v \in Live : passed[u] = passed[v]
        /\ \/ num_waiting_ = Cardinality(Members) /\ num_waiting_ < thread_count_
           \/ num_waiting_ >= thread_count_ + Cardinality(Members)
    BY <1>1 DEF BInv, GatherInv
  <1>5. Members' = Members /\ Live' = Live \ {t}
    BY <1>1, <1>2, <1>3 DEF Members, Live
  <1>6. thread_count_' = Cardinality(Live') /\ thread_count_' \in Nat
    BY <1>1, <1>3, <1>5, BarrierFinite, FS_RemoveElement DEF BInv, DropInv
  <1>7. Leavers' = Members
    BY <1>1, <1>4, <1>5 DEF Leavers
  <1>8. complete => num_waiting_ = Cardinality(Members) /\ Members = Live'
    <2> SUFFICES ASSUME complete PROVE num_waiting_ = Cardinality(Members) /\ Members = Live'
      OBVIOUS
    <2>1. num_waiting_ = Cardinality(Members)
      BY <1>1, <1>2, <1>4 DEF complete
    <2>2. Members \subseteq Live'
      BY <1>3, <1>5, MemberPlace DEF BInv
    <2>3. Cardinality(Members) = Cardinality(Live')
      BY <1>6, <2>1 DEF complete
    <2> QED
      BY <2>1, <2>2, <2>3, BarrierFinite, Everybody
  <1>9. BTypes'
    <2>1. num_to_leave_' \in Nat
      BY <1>1, <1>2, <1>6
    <2>2. barrierPc' \in [Threads -> {"out", "lock", "blocked", "woken", "leave", "dropped"}]
      BY <1>1, <1>2
    <2> QED
      BY <1>1, <1>2, <1>6, <2>1, <2>2 DEF BInv, BTypes
  <1>10. BWaitInv'
    BY <1>1, <1>2, <1>3, <1>5 DEF BWaitInv
  <1>11. LeaveInv'
    <2> SUFFICES ASSUME num_to_leave_' > 0 PROVE LeaveInv'
      BY DEF LeaveInv
    <2>1. complete
      BY <1>1, <1>2
    <2>2. num_to_leave_' = Cardinality(Leavers') /\ num_waiting_' = thread_count_'
      BY <1>1, <1>7, <1>8, <2>1 DEF complete
    <2>3. \A u, v \in Live' : arrived'[u] = arrived'[v]
      <3>1. \A u \in Live' : u \in Members /\ u \in Threads /\ u \in Live
        BY <1>5, <1>8, <2>1 DEF Live
      <3>2. \A u \in Live' : arrived[u] = passed[u] + 1
        BY <1>2, <3>1 DEF Members
      <3>3. \A u, v \in Live' : passed[u] = passed[v]
        BY <1>4, <3>1
      <3> QED
        BY <1>1, <3>2, <3>3
    <2> QED
      BY <2>2, <2>3 DEF LeaveInv
  <1>12. GatherInv'
    <2> SUFFICES ASSUME num_to_leave_' = 0 PROVE GatherInv'
      BY DEF GatherInv
    <2>1. ~complete
      BY <1>1 DEF complete
    <2>2. \A u \in Threads : barrierPc'[u] # "leave"
      BY <1>1, <1>4
    <2>3. \A u, v \in Live' : passed'[u] = passed'[v]
      BY <1>1, <1>4, <1>5
    <2>4. thread_count_' = 0 \/ num_waiting_ # thread_count_'
      BY <2>1 DEF complete
    <2>5. \/ num_waiting_' = Cardinality(Members') /\ num_waiting_' < thread_count_'
          \/ num_waiting_' >= thread_count_' + Cardinality(Members')
      BY <1>1, <1>2, <1>4, <1>5, <1>6, <2>4
    <2> QED
      BY <2>2, <2>3, <2>5 DEF GatherInv
  <1>13. DropInv'
    <2>1. \A u \in Threads \ Live', v \in Live' : passed'[u] <= passed'[v]
      <3> SUFFICES ASSUME NEW u \in Threads \ Live', NEW v \in Live'
                   PROVE  passed[u] <= passed[v]
        BY <1>1
      <3>1. v \in Live /\ v \in Threads
        BY <1>5 DEF Live
      <3>2. CASE u = t
        BY <1>2, <1>3, <1>4, <3>1, <3>2
      <3>3. CASE u # t
        BY <1>5, <3>1, <3>3 DEF BInv, DropInv
      <3> QED
        BY <3>2, <3>3
    <2> QED
      BY <1>6, <2>1 DEF DropInv
  <1>14. BLifeInv'
    BY <1>1, <1>3 DEF BLifeInv
  <1> QED
    BY <1>9, <1>10, <1>11, <1>12, <1>13, <1>14 DEF BInv

\* The invariant of the barrier is inductive.
LEMMA BarrierInductive == BInv /\ [B!Next]_B!vars => BInv'
  <1> SUFFICES ASSUME BInv, [B!Next]_B!vars PROVE BInv'
    OBVIOUS
  <1>1. ASSUME NEW t \in Threads, B!Call(t) \/ B!WaitIdle(t) \/ B!SpuriousWakeup(t)
        PROVE  BInv'
    BY <1>1, BarrierCallKeeps
  <1>2. ASSUME NEW t \in Threads, B!arrive_and_wait(t) PROVE BInv'
    BY <1>2, BarrierEarly, BarrierLast DEF B!arrive_and_wait
  <1>3. ASSUME NEW t \in Threads, B!Woken(t) PROVE BInv'
    BY <1>3, BarrierSleepsOn, BarrierPasses
  <1>4. ASSUME NEW t \in Threads, B!Leave(t) PROVE BInv'
    BY <1>4, BarrierLeaves
  <1>5. ASSUME NEW t \in Threads, B!arrive_and_drop(t) PROVE BInv'
    BY <1>5, BarrierDrops
  <1>6. CASE B!Destroy \/ B!Destroyed
    BY <1>6, BarrierCalm
  <1>7. CASE UNCHANGED B!vars
    BY <1>7 DEF B!vars, B!barrierVars, BInv, BTypes, BWaitInv, GatherInv, LeaveInv, DropInv,
                BLifeInv, Live, Members, Leavers
  <1> QED
    BY <1>1, <1>2, <1>3, <1>4, <1>5, <1>6, <1>7 DEF B!Next, B!Step

\* No thread gets past its k-th wait before every thread that still takes part
\* has arrived for the k-th time, in every phase, with threads that drop and
\* threads that come back early (barrier.cc: arrive_and_wait, arrive_and_drop),
\* and nobody is inside when ~barrier returns.
THEOREM BarrierSyncCorrect == B!Spec => []BarrierSync
  <1>1. BInv => B!Sync
    <2> SUFFICES ASSUME BInv, NEW t \in Threads, NEW u \in Threads, barrierPc[u] # "dropped"
                 PROVE  passed[t] <= arrived[u]
      BY DEF B!Sync
    <2>1. /\ u \in Live /\ num_to_leave_ \in Nat
          /\ passed[t] \in Nat /\ arrived[t] \in {passed[t], passed[t] + 1}
          /\ passed[u] \in Nat /\ arrived[u] \in {passed[u], passed[u] + 1}
      BY DEF BInv, BTypes, Live
    <2>2. CASE t \notin Live
      BY <2>1, <2>2 DEF BInv, DropInv
    <2>3. CASE t \in Live /\ num_to_leave_ = 0
      BY <2>1, <2>3 DEF BInv, GatherInv
    <2>4. CASE t \in Live /\ num_to_leave_ > 0
      BY <2>1, <2>4 DEF BInv, LeaveInv
    <2> QED
      BY <2>1, <2>2, <2>3, <2>4
  <1>2. BInv => B!NoUseAfterDestroy
    <2> SUFFICES ASSUME BInv, barrierLife = "destroyed", NEW t \in Threads
                 PROVE  barrierPc[t] \in {"out", "dropped"}
      BY DEF B!NoUseAfterDestroy
    <2>1. /\ num_to_leave_ = 0 /\ idle_ = {} /\ barrierPc[t] # "lock"
          /\ Members # {} => num_to_leave_ > 0
      BY DEF BInv, BLifeInv
    <2>2. t \notin Members
      BY <2>1
    <2>3. barrierPc[t] \notin {"leave", "blocked", "woken"}
      BY <2>1, <2>2 DEF BInv, GatherInv, BWaitInv
    <2> QED
      BY <2>1, <2>3 DEF BInv, BTypes
  <1>3. BInv => BarrierSync
    BY <1>1, <1>2 DEF BarrierSync
  <1> QED
    BY <1>3, BarrierInit, BarrierInductive, PTL DEF B!Spec
=============================================================================
