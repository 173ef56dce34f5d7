------------------------- MODULE FlexBarrierProofs -------------------------
(***************************************************************************)
(* Proofs about FlexBarrier for every number of threads and phases,        *)
(* whatever the completion function returns, with drops and throws.        *)
(***************************************************************************)
EXTENDS FlexBarrier, FiniteSetTheorems, TLAPS

Places == {"out", "lock", "blocked", "woken", "unlock", "dropped"}

\* The counters are numbers, and a thread is at most one phase ahead of itself.
Types ==
    /\ thread_count_ \in Nat /\ new_thread_count_ \in Nat
    /\ num_waiting_ \in Nat /\ num_to_leave_ \in Nat
    /\ pc \in [Threads -> Places]
    /\ op \in [Threads -> {"none", "arrive_and_wait", "arrive_and_drop"}]
    /\ arrived \in [Threads -> Nat] /\ passed \in [Threads -> Nat]
    /\ \A t \in Threads : arrived[t] \in {passed[t], passed[t] + 1}
    /\ phase \in Nat /\ joined \in [Threads -> Nat]
    /\ life \in {"alive", "destroying", "destroyed"}

\* A thread sleeps on one condition variable at most, and is counted in its
\* phase from the moment it sleeps on ready_ until it gets past that wait.
WaitInv ==
    /\ idle_ \subseteq Threads /\ ready_ \subseteq Threads /\ idle_ \cap ready_ = {}
    /\ \A t \in Threads : pc[t] = "blocked" <=> t \in idle_ \cup ready_
    /\ \A t \in Threads : t \in ready_ \/ pc[t] = "woken" => t \in Members

\* A phase that is gathering is not complete, unless it is empty; when no
\* threads are left to count, those who come all the same wait for ever.
GatherInv ==
    num_to_leave_ = 0 => num_waiting_ = 0 \/ num_waiting_ < thread_count_ \/ thread_count_ = 0

\* A thread that threw out of its phase is still counted in it, so the phase
\* never empties.
StrayInv ==
    \A t \in Members : t \in ready_ \/ pc[t] = "woken" \/ num_to_leave_ > 0

\* A barrier that is being destroyed is emptying or empty, and nobody comes.
LifeInv ==
    /\ life # "alive" =>
          /\ idle_ = {} /\ \A t \in Threads : pc[t] # "lock"
          /\ Members # {} => num_to_leave_ > 0
    /\ life = "destroyed" => num_to_leave_ = 0

CountInv == Accounting /\ GatherInv /\ Sync

IInv == Types /\ WaitInv /\ CountInv /\ StrayInv /\ LifeInv

-----------------------------------------------------------------------------
(* Counting the members of a phase.                                        *)

LEMMA MembersFinite ==
    /\ IsFiniteSet(Members) /\ Cardinality(Members) \in Nat
    /\ IsFiniteSet(Members') /\ Cardinality(Members') \in Nat
  <1>1. Members \subseteq Threads /\ Members' \subseteq Threads
    BY DEF Members
  <1> QED
    BY <1>1, ThreadsAssumption, FS_Subset, FS_CardinalityType

LEMMA NoMembers == Cardinality(Members) = 0 <=> Members = {}
  BY MembersFinite, FS_EmptySet

LEMMA MemberComes ==
    ASSUME NEW t, t \notin Members, Members' = Members \cup {t}
    PROVE  Cardinality(Members') = Cardinality(Members) + 1
  BY MembersFinite, FS_AddElement

LEMMA MemberGoes ==
    ASSUME NEW t \in Members, Members' = Members \ {t}
    PROVE  Cardinality(Members') = Cardinality(Members) - 1
  BY MembersFinite, FS_RemoveElement

\* What the completion function leaves is a number of threads.
LEMMA CompletionNat ==
    ASSUME NEW k \in Nat
    PROVE  on_countdown(k) \subseteq Nat
  BY CompletionAssumption DEF on_countdown

\* A step that leaves the counters and the histories alone.
LEMMA QuietCounts ==
    ASSUME CountInv, UNCHANGED <<counts, arrived, passed, history>>
    PROVE  CountInv' /\ Members' = Members
  BY DEF CountInv, counts, history, Accounting, GatherInv, Sync, Members, all_threads_waiting

-----------------------------------------------------------------------------

\* A barrier is constructed with nobody in it.
LEMMA InitInv == Init => IInv
  <1> SUFFICES ASSUME Init PROVE IInv
    OBVIOUS
  <1> USE ThreadsAssumption, CountAssumption DEF Init
  <1>1. Types /\ Members = {}
    BY DEF Types, Places, Members
  <1>2. WaitInv /\ StrayInv /\ LifeInv
    BY <1>1 DEF WaitInv, StrayInv, LifeInv
  <1>3. CountInv
    BY <1>1, NoMembers DEF CountInv, Accounting, GatherInv, Sync
  <1> QED
    BY <1>1, <1>2, <1>3 DEF IInv

\* A thread calls, or goes to sleep until the last phase has emptied.
LEMMA CallKeeps ==
    ASSUME IInv, NEW t \in Threads, Call(t) \/ WaitIdle(t)
    PROVE  IInv'
  <1>1. CountInv' /\ Members' = Members
    BY QuietCounts DEF IInv, Call, Enter, WaitIdle
  <1>2. CASE Call(t)
    <2>1. PICK o \in {"arrive_and_wait", "arrive_and_drop"} : Enter(t, o)
      BY <1>2 DEF Call
    <2>2. Types'
      BY <2>1 DEF IInv, Types, Enter, counts, history, Places
    <2>3. WaitInv' /\ StrayInv'
      BY <1>1, <2>1 DEF IInv, Types, WaitInv, StrayInv, Enter, counts
    <2>4. LifeInv'
      BY <2>1 DEF IInv, LifeInv, Enter
    <2> QED
      BY <1>1, <2>2, <2>3, <2>4 DEF IInv
  <1>3. CASE WaitIdle(t)
    <2>1. Types'
      BY <1>3 DEF IInv, Types, WaitIdle, Moved, counts, history, Places
    <2>2. WaitInv' /\ StrayInv'
      <3>1. /\ \A u \in Threads : pc'[u] = IF u = t THEN "blocked" ELSE pc[u]
            /\ idle_' = idle_ \cup {t} /\ ready_' = ready_ /\ pc[t] = "lock"
            /\ num_to_leave_' = num_to_leave_
        BY <1>3 DEF WaitIdle, Moved, counts
      <3>2. t \in Threads /\ t \notin idle_ \cup ready_ /\ "blocked" # "woken"
        BY <3>1 DEF IInv, WaitInv
      <3>3. idle_' \subseteq Threads /\ ready_' \subseteq Threads /\ idle_' \cap ready_' = {}
        BY <3>1, <3>2 DEF IInv, WaitInv
      <3>4. \A u \in Threads : pc'[u] = "blocked" <=> u \in idle_' \cup ready_'
        BY <3>1, <3>2 DEF IInv, WaitInv
      <3>5. \A u \in Threads : pc'[u] = "woken" <=> pc[u] = "woken"
        BY <3>1
      <3>6. \A u \in Threads : u \in ready_' \/ pc'[u] = "woken" => u \in Members'
        BY <1>1, <3>1, <3>5 DEF IInv, WaitInv
      <3>7. StrayInv'
        <4> SUFFICES ASSUME NEW u \in Members'
                     PROVE  u \in ready_' \/ pc'[u] = "woken" \/ num_to_leave_' > 0
          BY DEF StrayInv
        <4>1. u \in Members /\ u \in Threads
          BY <1>1 DEF Members
        <4> QED
          BY <4>1, <3>1, <3>5 DEF IInv, StrayInv
      <3> QED
        BY <3>3, <3>4, <3>6, <3>7 DEF WaitInv
    <2>3. LifeInv'
      BY <1>3 DEF IInv, LifeInv, WaitIdle
    <2> QED
      BY <1>1, <2>1, <2>2, <2>3 DEF IInv
  <1> QED
    BY <1>2, <1>3

\* A thread releases the mutex, or wakes up for no reason.
LEMMA UnlockKeeps ==
    ASSUME IInv, NEW t \in Threads, Unlock(t) \/ SpuriousWakeup(t)
    PROVE  IInv'
  <1>1. CountInv' /\ Members' = Members
    BY QuietCounts DEF IInv, Unlock, SpuriousWakeup
  <1>2. CASE Unlock(t)
    <2>1. Types'
      BY <1>2 DEF IInv, Types, Unlock, counts, history, Places
    <2>2. WaitInv' /\ StrayInv'
      BY <1>1, <1>2 DEF IInv, Types, WaitInv, StrayInv, Unlock, counts
    <2>3. LifeInv'
      BY <1>1, <1>2 DEF IInv, Types, LifeInv, Unlock, counts
    <2> QED
      BY <1>1, <2>1, <2>2, <2>3 DEF IInv
  <1>3. CASE SpuriousWakeup(t)
    <2>1. Types'
      BY <1>3 DEF IInv, Types, SpuriousWakeup, counts, history, Places
    <2>2. WaitInv' /\ StrayInv'
      BY <1>1, <1>3 DEF IInv, Types, WaitInv, StrayInv, SpuriousWakeup, counts
    <2>3. LifeInv'
      BY <1>1, <1>3 DEF IInv, Types, LifeInv, WaitInv, SpuriousWakeup, counts
    <2> QED
      BY <1>1, <2>1, <2>2, <2>3 DEF IInv
  <1> QED
    BY <1>2, <1>3

\* The destructor is called, and returns.
LEMMA DestroyKeeps ==
    ASSUME IInv, Destroy \/ Destroyed
    PROVE  IInv'
  <1>1. CountInv' /\ Members' = Members
    BY QuietCounts DEF IInv, Destroy, Destroyed
  <1>2. Types' /\ WaitInv' /\ StrayInv'
    BY <1>1 DEF IInv, Types, WaitInv, StrayInv, Destroy, Destroyed, counts, history
  <1>3. LifeInv'
    BY <1>1, ThreadsAssumption DEF IInv, Types, LifeInv, WaitInv, Destroy, Destroyed, counts,
       all_threads_exited
  <1> QED
    BY <1>1, <1>2, <1>3 DEF IInv

\* An arrival is not counted yet: whoever is, and is on its way to the mutex,
\* has been left behind by a throw, and then the phase does not empty.
LEMMA NotMember ==
    ASSUME IInv, NEW t \in Threads, pc[t] = "lock", num_to_leave_ = 0
    PROVE  t \notin Members /\ arrived[t] = passed[t]
  BY DEF IInv, Types, WaitInv, StrayInv, Members

\* What all arrivals have in common.
LEMMA Arrival ==
    ASSUME IInv, NEW t \in Threads, arrive_and_wait(t)
    PROVE  /\ pc[t] = "lock" /\ num_to_leave_ = 0 /\ life = "alive" /\ life' = "alive"
           /\ t \notin Members /\ arrived[t] = passed[t] /\ passed[t] \in Nat
           /\ arrived' \in [Threads -> Nat] /\ joined' \in [Threads -> Nat]
           /\ \A u \in Threads : arrived'[u] = IF u = t THEN passed[t] + 1 ELSE arrived[u]
           /\ \A u \in Threads : joined'[u] = IF u = t THEN phase ELSE joined[u]
           /\ op' = op
           /\ num_waiting_ = Cardinality(Members) /\ num_waiting_ \in Nat
  <1>1. /\ pc[t] = "lock" /\ num_to_leave_ = 0 /\ life' = life /\ op' = op
        /\ arrived' = [arrived EXCEPT ![t] = @ + 1]
        /\ joined' = [joined EXCEPT ![t] = phase]
    BY DEF arrive_and_wait, all_threads_exited
  <1>2. t \notin Members /\ arrived[t] = passed[t]
    BY <1>1, NotMember
  <1>3. life = "alive"
    BY <1>1 DEF IInv, Types, LifeInv
  <1>4. num_waiting_ = Cardinality(Members)
    BY <1>1 DEF IInv, CountInv, Accounting
  <1>5. /\ arrived \in [Threads -> Nat] /\ passed \in [Threads -> Nat]
        /\ phase \in Nat /\ joined \in [Threads -> Nat] /\ num_waiting_ \in Nat
    BY DEF IInv, Types
  <1>6. passed[t] \in Nat
    BY <1>5
  <1>7. arrived' \in [Threads -> Nat]
        /\ \A u \in Threads : arrived'[u] = IF u = t THEN passed[t] + 1 ELSE arrived[u]
    BY <1>1, <1>2, <1>5, <1>6
  <1>8. joined' \in [Threads -> Nat]
        /\ \A u \in Threads : joined'[u] = IF u = t THEN phase ELSE joined[u]
    BY <1>1, <1>5
  <1> QED
    BY <1>1, <1>2, <1>3, <1>4, <1>5, <1>6, <1>7, <1>8

\* Whoever arrives and does not get past the wait is counted.
LEMMA ArrivalCounts ==
    ASSUME IInv, NEW t \in Threads, arrive_and_wait(t), passed' = passed
    PROVE  /\ Members' = Members \cup {t}
           /\ Cardinality(Members') = num_waiting_ + 1
           /\ \A u \in Threads : arrived'[u] \in {passed'[u], passed'[u] + 1}
  <1>1. /\ t \notin Members /\ arrived[t] = passed[t] /\ passed[t] \in Nat
        /\ \A u \in Threads : arrived'[u] = IF u = t THEN passed[t] + 1 ELSE arrived[u]
        /\ num_waiting_ = Cardinality(Members)
    BY Arrival
  <1>2. Members' = Members \cup {t}
    BY <1>1 DEF Members
  <1>3. \A u \in Threads : arrived[u] \in {passed[u], passed[u] + 1}
    BY DEF IInv, Types
  <1> QED
    BY <1>1, <1>2, <1>3, MemberComes

\* An arrival that is not the last.
LEMMA EarlyKeeps ==
    ASSUME IInv, NEW t \in Threads, arrive_and_wait(t), ArriveEarly(t)
    PROVE  IInv'
  <1>1. /\ num_waiting_ + 1 # thread_count_ /\ num_waiting_' = num_waiting_ + 1
        /\ ready_' = ready_ \cup {t}
        /\ UNCHANGED <<thread_count_, new_thread_count_, num_to_leave_, idle_, passed, phase>>
        /\ pc' = [u \in Threads |-> IF u = t THEN "blocked" ELSE pc[u]]
    BY DEF ArriveEarly, Moved
  <1>2. /\ Members' = Members \cup {t} /\ Cardinality(Members') = num_waiting_ + 1
        /\ \A u \in Threads : arrived'[u] \in {passed'[u], passed'[u] + 1}
    BY <1>1, ArrivalCounts
  <1>3. /\ pc[t] = "lock" /\ num_to_leave_ = 0 /\ life' = "alive" /\ op' = op
        /\ arrived' \in [Threads -> Nat] /\ joined' \in [Threads -> Nat]
        /\ \A u \in Threads : joined'[u] = IF u = t THEN phase ELSE joined[u]
        /\ num_waiting_ \in Nat
    BY Arrival
  <1>4. Types'
    BY <1>1, <1>2, <1>3 DEF IInv, Types, Places
  <1>5. WaitInv'
    BY <1>1, <1>2, <1>3 DEF IInv, WaitInv
  <1>6. StrayInv'
    BY <1>1, <1>2, <1>3 DEF IInv, StrayInv, Members
  <1>7. Accounting' /\ GatherInv'
    <2>1. num_to_leave_' = 0 /\ num_waiting_' = Cardinality(Members')
      BY <1>1, <1>2, <1>3
    <2>2. num_waiting_ = 0 \/ num_waiting_ < thread_count_ \/ thread_count_ = 0
      BY <1>3 DEF IInv, CountInv, GatherInv
    <2>3. thread_count_ \in Nat
      BY DEF IInv, Types
    <2>4. num_waiting_' < thread_count_' \/ thread_count_' = 0
      BY <1>1, <1>3, <2>2, <2>3
    <2> QED
      BY <2>1, <2>4 DEF Accounting, GatherInv
  <1>8. Sync'
    <2> SUFFICES ASSUME NEW u \in Members' PROVE joined'[u] = phase'
      BY <1>1, <1>3 DEF Sync
    <2>1. u \in Threads /\ (u = t \/ u \in Members)
      BY <1>2 DEF Members
    <2> QED
      BY <2>1, <1>1, <1>3 DEF IInv, CountInv, Sync
  <1>9. LifeInv'
    BY <1>3 DEF LifeInv
  <1> QED
    BY <1>4, <1>5, <1>6, <1>7, <1>8, <1>9 DEF IInv, CountInv

\* The last arrival, when the completion function throws out of it.
LEMMA ThrowKeeps ==
    ASSUME IInv, NEW t \in Threads, arrive_and_wait(t), ArriveThrows(t)
    PROVE  IInv'
  <1>1. /\ num_waiting_ + 1 = thread_count_ /\ num_waiting_' = num_waiting_ + 1
        /\ num_to_leave_' = thread_count_ /\ phase' = phase + 1
        /\ UNCHANGED <<thread_count_, new_thread_count_, idle_, ready_, passed>>
        /\ pc' = [u \in Threads |-> IF u = t THEN "unlock" ELSE pc[u]]
    BY DEF ArriveThrows, CompletionThrows, Moved
  <1>2. /\ Members' = Members \cup {t} /\ Cardinality(Members') = num_waiting_ + 1
        /\ \A u \in Threads : arrived'[u] \in {passed'[u], passed'[u] + 1}
    BY <1>1, ArrivalCounts
  <1>3. /\ pc[t] = "lock" /\ num_to_leave_ = 0 /\ life' = "alive" /\ op' = op
        /\ arrived' \in [Threads -> Nat] /\ joined' \in [Threads -> Nat]
        /\ \A u \in Threads : joined'[u] = IF u = t THEN phase ELSE joined[u]
        /\ num_waiting_ \in Nat
    BY Arrival
  <1>4. num_to_leave_' > 0 /\ num_to_leave_' # 0 /\ phase \in Nat
    BY <1>1, <1>3 DEF IInv, Types
  <1>5. Types'
    BY <1>1, <1>2, <1>3 DEF IInv, Types, Places
  <1>6. WaitInv'
    BY <1>1, <1>2, <1>3 DEF IInv, WaitInv
  <1>7. StrayInv'
    BY <1>4 DEF StrayInv
  <1>8. Accounting' /\ GatherInv'
    BY <1>1, <1>2, <1>4 DEF Accounting, GatherInv, all_threads_waiting
  <1>9. Sync'
    <2> SUFFICES ASSUME NEW u \in Members' PROVE joined'[u] = phase' - 1
      BY <1>4 DEF Sync
    <2>1. u \in Threads /\ (u = t \/ u \in Members)
      BY <1>2 DEF Members
    <2>2. joined'[u] = phase
      BY <2>1, <1>3 DEF IInv, CountInv, Sync
    <2> QED
      BY <2>2, <1>1, <1>4
  <1>10. LifeInv'
    BY <1>3 DEF LifeInv
  <1> QED
    BY <1>5, <1>6, <1>7, <1>8, <1>9, <1>10 DEF IInv, CountInv

\* The last arrival: the others of the phase start to leave, or there are none.
LEMMA LastKeeps ==
    ASSUME IInv, NEW t \in Threads, arrive_and_wait(t), ArriveLast(t)
    PROVE  IInv'
  <1>1. /\ num_waiting_ + 1 = thread_count_ /\ new_thread_count_' \in Nat
        /\ ready_' = {} /\ phase' = phase + 1
        /\ passed' = [passed EXCEPT ![t] = @ + 1]
    BY CompletionNat DEF ArriveLast, IInv, Types
  <1>2. /\ pc[t] = "lock" /\ num_to_leave_ = 0 /\ life' = "alive" /\ op' = op
        /\ t \notin Members /\ arrived[t] = passed[t] /\ passed[t] \in Nat
        /\ arrived' \in [Threads -> Nat] /\ joined' \in [Threads -> Nat]
        /\ \A u \in Threads : arrived'[u] = IF u = t THEN passed[t] + 1 ELSE arrived[u]
        /\ \A u \in Threads : joined'[u] = IF u = t THEN phase ELSE joined[u]
        /\ num_waiting_ \in Nat /\ num_waiting_ = Cardinality(Members)
    BY Arrival
  <1>3. /\ passed \in [Threads -> Nat] /\ phase \in Nat /\ thread_count_ \in Nat
        /\ \A u \in Threads : arrived[u] \in {passed[u], passed[u] + 1}
    BY DEF IInv, Types
  <1>4. /\ passed' \in [Threads -> Nat]
        /\ \A u \in Threads : passed'[u] = IF u = t THEN passed[t] + 1 ELSE passed[u]
    BY <1>1, <1>2, <1>3
  <1>5. \A u \in Threads : arrived'[u] \in {passed'[u], passed'[u] + 1}
    BY <1>2, <1>3, <1>4
  <1>6. Members' = Members
    BY <1>2, <1>4 DEF Members
  <1>7. CASE thread_count_ = 1
    <2>1. /\ thread_count_' = new_thread_count_' /\ num_waiting_' = 0 /\ num_to_leave_' = 0
          /\ idle_' = {}
          /\ pc' = [u \in Threads |-> IF u = t THEN "unlock"
                                      ELSE IF u \in ready_ THEN "woken"
                                      ELSE IF u \in idle_ THEN "lock" ELSE pc[u]]
      BY <1>7 DEF ArriveLast, Moved
    <2>2. Members = {}
      BY <1>1, <1>2, <1>7, NoMembers
    <2>3. Types'
      BY <1>1, <1>2, <1>3, <1>4, <1>5, <2>1 DEF IInv, Types, Places
    <2>4. \A u \in Threads : u \notin ready_ /\ pc[u] # "woken"
      BY <2>2 DEF IInv, WaitInv
    <2>5. \A u \in Threads : pc'[u] # "blocked" /\ pc'[u] # "woken"
      BY <2>1, <2>4 DEF IInv, WaitInv
    <2>6. WaitInv' /\ StrayInv'
      BY <1>1, <1>6, <2>1, <2>2, <2>5 DEF WaitInv, StrayInv
    <2>7. Cardinality(Members') = 0
      BY <1>6, <2>2, NoMembers
    <2>8. CountInv'
      BY <1>6, <2>1, <2>2, <2>7 DEF CountInv, Accounting, GatherInv, Sync
    <2> QED
      BY <1>2, <2>3, <2>6, <2>8 DEF IInv, LifeInv
  <1>8. CASE thread_count_ # 1
    <2>1. /\ thread_count_' = thread_count_ /\ num_waiting_' = num_waiting_ + 1
          /\ num_to_leave_' = thread_count_ - 1 /\ idle_' = idle_
          /\ pc' = [u \in Threads |-> IF u = t THEN "unlock"
                                      ELSE IF u \in ready_ THEN "woken" ELSE pc[u]]
      BY <1>8 DEF ArriveLast, Moved
    <2>2. /\ num_to_leave_' = num_waiting_ /\ num_to_leave_' > 0 /\ num_to_leave_' # 0
          /\ num_to_leave_' \in Nat
      BY <1>1, <1>2, <1>3, <1>8, <2>1
    <2>3. Types'
      BY <1>1, <1>2, <1>3, <1>4, <1>5, <2>1, <2>2 DEF IInv, Types, Places
    <2>4. WaitInv'
      BY <1>1, <1>2, <1>6, <2>1 DEF IInv, WaitInv
    <2>5. StrayInv'
      BY <2>2 DEF StrayInv
    <2>6. Accounting' /\ GatherInv'
      BY <1>1, <1>2, <1>6, <2>1, <2>2 DEF Accounting, GatherInv, all_threads_waiting
    <2>7. Sync'
      <3> SUFFICES ASSUME NEW u \in Members' PROVE joined'[u] = phase' - 1
        BY <2>2 DEF Sync
      <3>1. u \in Threads /\ u # t /\ u \in Members
        BY <1>2, <1>6 DEF Members
      <3>2. joined'[u] = phase
        BY <3>1, <1>2 DEF IInv, CountInv, Sync
      <3> QED
        BY <3>2, <1>1, <1>3
    <2> QED
      BY <1>2, <2>3, <2>4, <2>5, <2>6, <2>7 DEF IInv, CountInv, LifeInv
  <1> QED
    BY <1>7, <1>8

\* A thread past the wait leaves, and the last one opens the next phase; one
\* that woke up for no reason goes back to sleep.
LEMMA WokenKeeps ==
    ASSUME IInv, NEW t \in Threads, Woken(t)
    PROVE  IInv'
  <1>1. /\ pc[t] = "woken" /\ new_thread_count_' = new_thread_count_ /\ op' = op /\ life' = life
        /\ arrived' = arrived /\ phase' = phase /\ joined' = joined
    BY DEF Woken, history
  <1>2. t \in Members
    BY <1>1 DEF IInv, WaitInv
  <1>3. /\ Cardinality(Members) \in Nat /\ Cardinality(Members) # 0
        /\ num_waiting_ \in Nat /\ num_to_leave_ \in Nat /\ thread_count_ \in Nat
        /\ new_thread_count_ \in Nat
    BY <1>2, MembersFinite, NoMembers DEF IInv, Types
  <1>4. CASE all_threads_waiting
    <2>1. /\ thread_count_' = IF num_to_leave_ = 1 THEN new_thread_count_ ELSE thread_count_
          /\ num_waiting_' = IF num_to_leave_ = 1 THEN 0 ELSE num_waiting_
          /\ idle_' = IF num_to_leave_ = 1 THEN {} ELSE idle_
          /\ num_to_leave_' = num_to_leave_ - 1
          /\ pc' = [u \in Threads |-> IF u = t THEN "unlock"
                                      ELSE IF u \in {} THEN "woken"
                                      ELSE IF u \in (IF num_to_leave_ = 1 THEN idle_ ELSE {})
                                           THEN "lock" ELSE pc[u]]
          /\ passed' = [passed EXCEPT ![t] = @ + 1]
          /\ ready_' = ready_
      BY <1>4 DEF Woken, Moved
    <2>2. num_to_leave_ > 0 /\ num_to_leave_ = Cardinality(Members)
      <3>1. num_waiting_ = thread_count_
        BY <1>4 DEF all_threads_waiting
      <3>2. ASSUME num_to_leave_ = 0 PROVE FALSE
        <4>1. num_waiting_ = Cardinality(Members)
          BY <3>2 DEF IInv, CountInv, Accounting
        <4>2. num_waiting_ = 0 \/ num_waiting_ < thread_count_ \/ thread_count_ = 0
          BY <3>2 DEF IInv, CountInv, GatherInv
        <4> QED
          BY <4>1, <4>2, <3>1, <1>3
      <3>3. num_to_leave_ > 0
        BY <3>2, <1>3
      <3> QED
        BY <3>3 DEF IInv, CountInv, Accounting
    <2>3. /\ passed \in [Threads -> Nat] /\ arrived \in [Threads -> Nat]
          /\ \A u \in Threads : arrived[u] \in {passed[u], passed[u] + 1}
      BY DEF IInv, Types
    <2>4. /\ passed' \in [Threads -> Nat]
          /\ \A u \in Threads : passed'[u] = IF u = t THEN passed[t] + 1 ELSE passed[u]
      BY <2>1, <2>3
    <2>5. arrived[t] = passed[t] + 1
      BY <1>2, <2>3 DEF Members
    <2>6. \A u \in Threads : arrived'[u] \in {passed'[u], passed'[u] + 1}
      BY <1>1, <2>3, <2>4, <2>5
    <2>7. Members' = Members \ {t}
      BY <1>1, <2>3, <2>4, <2>5 DEF Members
    <2>8. Cardinality(Members') = num_to_leave_ - 1
      BY <1>2, <2>2, <2>7, MemberGoes
    <2>9. num_to_leave_' \in Nat
      BY <1>3, <2>1, <2>2
    <2>10. Types'
      BY <1>1, <1>3, <2>1, <2>4, <2>6, <2>9 DEF IInv, Types, Places
    <2>11. life # "destroyed" /\ (life # "alive" => idle_ = {} /\ \A u \in Threads : pc[u] # "lock")
      BY <2>2, <1>3 DEF IInv, LifeInv
    <2>12. WaitInv'
      <3>1. t \notin idle_ \cup ready_
        BY <1>1 DEF IInv, WaitInv
      <3>2. \A u \in Threads : pc'[u] = "woken" <=> pc[u] = "woken" /\ u # t
        BY <2>1 DEF IInv, WaitInv
      <3>3. \A u \in Threads : pc'[u] = "blocked" <=> u \in idle_' \cup ready_'
        BY <2>1, <3>1 DEF IInv, WaitInv
      <3>4. idle_' \subseteq Threads /\ ready_' \subseteq Threads /\ idle_' \cap ready_' = {}
        BY <2>1 DEF IInv, WaitInv
      <3>5. \A u \in Threads : u \in ready_' \/ pc'[u] = "woken" => u \in Members'
        BY <2>1, <2>7, <3>1, <3>2 DEF IInv, WaitInv
      <3> QED
        BY <3>3, <3>4, <3>5 DEF WaitInv
    <2>13. CASE num_to_leave_ = 1
      <3>1. num_to_leave_' = 0 /\ num_waiting_' = 0 /\ Cardinality(Members') = 0
        BY <2>1, <2>8, <2>13
      <3>2. Members' = {}
        BY <3>1, MembersFinite, FS_EmptySet
      <3>3. StrayInv' /\ CountInv'
        BY <3>1, <3>2 DEF StrayInv, CountInv, Accounting, GatherInv, Sync
      <3>4. LifeInv'
        BY <1>1, <2>1, <2>11, <3>2 DEF LifeInv
      <3> QED
        BY <2>10, <2>12, <3>3, <3>4 DEF IInv
    <2>14. CASE num_to_leave_ # 1
      <3>1. num_to_leave_' > 0 /\ num_to_leave_' # 0
        BY <1>3, <2>1, <2>2, <2>14
      <3>2. StrayInv' /\ GatherInv'
        BY <3>1 DEF StrayInv, GatherInv
      <3>3. Accounting'
        BY <1>4, <2>1, <2>8, <2>14, <3>1 DEF Accounting, all_threads_waiting
      <3>4. Sync'
        BY <1>1, <2>2, <2>7, <3>1 DEF IInv, CountInv, Sync
      <3>5. LifeInv'
        BY <1>1, <2>1, <2>11, <2>14, <3>1 DEF LifeInv
      <3> QED
        BY <2>10, <2>12, <3>2, <3>3, <3>4, <3>5 DEF IInv, CountInv
    <2> QED
      BY <2>13, <2>14
  <1>5. CASE ~all_threads_waiting
    <2>1. /\ ready_' = ready_ \cup {t}
          /\ UNCHANGED <<thread_count_, num_waiting_, num_to_leave_, idle_, passed>>
          /\ pc' = [u \in Threads |-> IF u = t THEN "blocked" ELSE pc[u]]
      BY <1>5 DEF Woken, Moved
    <2>2. CountInv' /\ Members' = Members
      BY <1>1, <2>1, QuietCounts DEF IInv, counts, history, Woken
    <2>3. Types'
      BY <1>1, <2>1 DEF IInv, Types, Places
    <2>4. WaitInv'
      BY <1>1, <1>2, <2>1, <2>2 DEF IInv, WaitInv
    <2>5. StrayInv'
      BY <1>1, <2>1, <2>2 DEF IInv, StrayInv, Members
    <2>6. LifeInv'
      BY <1>1, <2>1, <2>2 DEF IInv, LifeInv
    <2> QED
      BY <2>2, <2>3, <2>4, <2>5, <2>6 DEF IInv
  <1> QED
    BY <1>4, <1>5

\* A drop, which may complete the phase for those who have arrived, or for
\* nobody, and out of which the completion function may throw.
LEMMA DropKeeps ==
    ASSUME IInv, NEW t \in Threads, arrive_and_drop(t)
    PROVE  IInv'
  <1>1. /\ pc[t] = "lock" /\ num_to_leave_ = 0 /\ life' = life /\ op' = op /\ idle_' = idle_
        /\ arrived' = arrived /\ passed' = passed /\ joined' = joined
    BY DEF arrive_and_drop, all_threads_exited
  <1>2. Members' = Members
    BY <1>1 DEF Members
  <1>3. life = "alive" /\ t \notin Members /\ num_waiting_ = Cardinality(Members)
    BY <1>1, NotMember DEF IInv, Types, LifeInv, CountInv, Accounting
  <1>4. /\ num_waiting_ \in Nat /\ thread_count_ \in Nat /\ new_thread_count_ \in Nat
        /\ phase \in Nat
    BY DEF IInv, Types
  <1>5. LifeInv'
    BY <1>1, <1>3 DEF LifeInv
  <1>6. t \notin ready_ /\ t \notin idle_
    BY <1>1 DEF IInv, WaitInv
  <1>7. CASE thread_count_ = 0 \/ num_waiting_ # thread_count_ - 1
    <2>1. /\ thread_count_' = IF thread_count_ = 0 THEN 0 ELSE thread_count_ - 1
          /\ UNCHANGED <<num_waiting_, num_to_leave_, new_thread_count_, ready_, phase>>
          /\ pc' = [u \in Threads |-> IF u = t THEN "unlock" ELSE pc[u]]
      BY <1>7 DEF arrive_and_drop, Moved, counts
    <2>2. thread_count_' \in Nat
      BY <1>4, <2>1
    <2>3. Types'
      BY <1>1, <2>1, <2>2 DEF IInv, Types, Places
    <2>4. WaitInv'
      BY <1>1, <1>2, <1>6, <2>1 DEF IInv, WaitInv
    <2>5. StrayInv'
      BY <1>2, <1>3, <2>1 DEF IInv, StrayInv, Members
    <2>6. Accounting' /\ Sync'
      BY <1>1, <1>2, <2>1 DEF IInv, CountInv, Accounting, Sync
    <2>7. GatherInv'
      <3>1. num_waiting_ = 0 \/ num_waiting_ < thread_count_ \/ thread_count_ = 0
        BY <1>1 DEF IInv, CountInv, GatherInv
      <3>2. num_waiting_ = 0 \/ num_waiting_ < thread_count_' \/ thread_count_' = 0
        BY <1>4, <1>7, <2>1, <3>1
      <3> QED
        BY <2>1, <3>2 DEF GatherInv
    <2> QED
      BY <1>5, <2>3, <2>4, <2>5, <2>6, <2>7 DEF IInv, CountInv
  <1>8. CASE thread_count_ # 0 /\ num_waiting_ = thread_count_ - 1
    <2>1. /\ thread_count_' = num_waiting_ /\ num_waiting_' = num_waiting_
          /\ num_to_leave_' = num_waiting_ /\ phase' = phase + 1
          /\ \/ /\ ready_' = {}
                /\ pc' = [u \in Threads |-> IF u = t THEN "unlock"
                                            ELSE IF u \in ready_ THEN "woken" ELSE pc[u]]
             \/ /\ ready_' = ready_
                /\ pc' = [u \in Threads |-> IF u = t THEN "unlock" ELSE pc[u]]
      BY <1>8 DEF arrive_and_drop, CompletionThrows, Moved
    <2>2. new_thread_count_' \in Nat
      <3>1. thread_count_ - 1 \in Nat
        BY <1>4, <1>8
      <3>2. on_countdown(thread_count_ - 1) \subseteq Nat
        BY <3>1, CompletionNat
      <3>3. \/ new_thread_count_' \in on_countdown(thread_count_ - 1)
            \/ new_thread_count_' = new_thread_count_
        BY <1>8 DEF arrive_and_drop, CompletionThrows
      <3> QED
        BY <1>4, <3>2, <3>3
    <2>3. Types'
      BY <1>1, <1>4, <2>1, <2>2 DEF IInv, Types, Places
    <2>4. WaitInv'
      BY <1>1, <1>2, <1>6, <2>1 DEF IInv, WaitInv
    <2>5. CASE num_waiting_ = 0
      <3>1. Members' = {} /\ Cardinality(Members') = 0
        BY <1>2, <1>3, <2>5, NoMembers
      <3> QED
        BY <1>5, <2>1, <2>3, <2>4, <2>5, <3>1
           DEF IInv, StrayInv, CountInv, Accounting, GatherInv, Sync
    <2>6. CASE num_waiting_ # 0
      <3>1. num_to_leave_' > 0 /\ num_to_leave_' # 0
        BY <1>4, <2>1, <2>6
      <3>2. StrayInv' /\ GatherInv'
        BY <3>1 DEF StrayInv, GatherInv
      <3>3. Accounting'
        BY <1>2, <1>3, <2>1, <3>1 DEF Accounting, all_threads_waiting
      <3>4. Sync'
        <4> SUFFICES ASSUME NEW u \in Members' PROVE joined'[u] = phase' - 1
          BY <3>1 DEF Sync
        <4>1. joined[u] = phase
          BY <1>1, <1>2 DEF IInv, CountInv, Sync
        <4> QED
          BY <4>1, <1>1, <1>4, <2>1
      <3> QED
        BY <1>5, <2>3, <2>4, <3>2, <3>3, <3>4 DEF IInv, CountInv
    <2> QED
      BY <2>5, <2>6
  <1> QED
    BY <1>7, <1>8, <1>4

-----------------------------------------------------------------------------

LEMMA Inductive == IInv /\ [Next]_vars => IInv'
  <1> SUFFICES ASSUME IInv, [Next]_vars PROVE IInv'
    OBVIOUS
  <1>1. ASSUME NEW t \in Threads, arrive_and_wait(t) PROVE IInv'
    BY <1>1, LastKeeps, ThrowKeeps, EarlyKeeps DEF arrive_and_wait
  <1>2. CASE UNCHANGED vars
    <2>1. CountInv' /\ Members' = Members
      BY <1>2, QuietCounts DEF IInv, vars
    <2> QED
      BY <1>2, <2>1 DEF vars, counts, history, IInv, Types, WaitInv, StrayInv, LifeInv
  <1> QED
    BY <1>1, <1>2, CallKeeps, UnlockKeeps, DestroyKeeps, WokenKeeps, DropKeeps DEF Next, Step

LEMMA Invariant == Spec => []IInv
  BY InitInv, Inductive, PTL DEF Spec

\* Phases of flex_barrier do not overlap, whatever thread counts the completion
\* function chooses, with drops and throws: whoever waits came in the phase
\* that is gathering or in the one that is leaving.
THEOREM SyncCorrect == Spec => []Sync
  <1>1. IInv => Sync
    BY DEF IInv, CountInv
  <1> QED
    BY <1>1, Invariant, PTL

\* num_to_leave_ and num_waiting_ count the threads of the phase exactly, and a
\* phase that leaves is complete.
THEOREM AccountingCorrect == Spec => []Accounting
  <1>1. IInv => Accounting
    BY DEF IInv, CountInv
  <1> QED
    BY <1>1, Invariant, PTL

\* ~flex_barrier's wait for num_to_leave_ is enough for it never to return
\* while a thread still waits.
THEOREM DestroyAfterDepartureCorrect == Spec => []DestroyAfterDeparture
  <1>1. IInv => DestroyAfterDeparture
    <2> SUFFICES ASSUME IInv, life = "destroyed", NEW t \in Threads
                 PROVE  pc[t] \in {"out", "unlock", "dropped"}
      BY DEF DestroyAfterDeparture
    <2>1. num_to_leave_ = 0 /\ idle_ = {} /\ pc[t] # "lock" /\ Members = {}
      BY DEF IInv, LifeInv
    <2>2. pc[t] \in Places
      BY DEF IInv, Types
    <2>3. t \notin ready_ /\ pc[t] # "woken"
      BY <2>1 DEF IInv, WaitInv
    <2>4. pc[t] # "blocked"
      BY <2>1, <2>3 DEF IInv, WaitInv
    <2> QED
      BY <2>1, <2>2, <2>3, <2>4 DEF Places
  <1> QED
    BY <1>1, Invariant, PTL
=============================================================================
