-------------------------- MODULE MapReduceProofs --------------------------
(***************************************************************************)
(* Proofs about MapReduce for any number of mappers and reducers, any      *)
(* input without repetition, any shards and any size of the thread pool.   *)
(***************************************************************************)
EXTENDS MapReduce, FiniteSetTheorems, SequenceTheorems, TLAPS

\* What there is to say of the values of a countdown_latch that the threads C
\* count down and the Runner waits for: the count is the number of threads that
\* have yet to take one off it, and the Runner is let through when all of C are
\* out again.
Through(l)   == l \in {"unlock", "done"}
NotYet(C, p) == {t \in C : ~Through(p[t])}

LatchInv(C, n, cond, mx, p, d) ==
    /\ p \in [C \cup {Runner} -> {"start", "lock", "held", "blocked", "unlock", "done"}]
    /\ n = Cardinality(NotYet(C, p))
    /\ cond \subseteq {Runner} /\ \A t \in C : p[t] # "blocked"
    /\ mx \in C \cup {Runner, NoThread}
    /\ \A t \in C \cup {Runner} : p[t] \in {"held", "unlock"} <=> mx = t
    /\ Runner \in cond <=> p[Runner] = "blocked"
    /\ p[Runner] \in {"unlock", "done"} => \A t \in C : p[t] = "done"
    /\ d => p[Runner] = "done"

MLatchInv == LatchInv(Mappers, mCount, mCondition, mMutex, mPc, mDestroyed)
RLatchInv == LatchInv(Reducers, rCount, rCondition, rMutex, rPc, rDestroyed)

\* Where run() is, and how it and the helpers have come to use the latches.
StageInv ==
    /\ stage \in {"start mappers", "wait mappers", "start reducers", "wait reducers",
                  "returned", "threw"}
    /\ mPc[Runner] # "start" <=> stage # "start mappers"
    /\ rPc[Runner] # "start" <=> stage \in {"wait reducers", "returned"}
    /\ stage \notin {"start mappers", "wait mappers"} => mPc[Runner] = "done"
    /\ stage = "returned" => rPc[Runner] = "done"
    /\ mDestroyed => stage \in {"threw", "returned"}
    /\ rDestroyed => stage = "returned"
CountsInv ==
    /\ hpc \in [Helpers -> {"none", "loop", "work", "counting"}]
    /\ \A m \in Mappers : mPc[m] # "start" <=> hpc[m] = "counting"
    /\ \A r \in Reducers : rPc[r] # "start" <=> hpc[r] = "counting"
StartsInv ==
    /\ stage = "start mappers" => \A m \in Mappers \ tried : hpc[m] = "none"
    /\ stage = "start reducers" => \A r \in Reducers \ tried : hpc[r] = "none"
    /\ stage \in {"start mappers", "wait mappers"} => \A r \in Reducers : hpc[r] = "none"

ControlInv == StageInv /\ CountsInv /\ StartsInv

\* What an iterator, or a pop, holds of the elements of S.
AtMostOne(S) == {<<>>} \cup {<<x>> : x \in S}

\* The helpers and their iterators.
IterInv ==
    /\ iter \in [Helpers -> AtMostOne(Inputs) \cup AtMostOne(Tasks)]
    /\ item \in [Helpers -> AtMostOne(Inputs) \cup AtMostOne(Tasks)]
    /\ \A m \in Mappers : iter[m] \in AtMostOne(Inputs) /\ item[m] \in AtMostOne(Inputs)
    /\ \A r \in Reducers : iter[r] \in AtMostOne(Tasks) /\ item[r] \in AtMostOne(Tasks)
    /\ \A h \in Helpers : /\ hpc[h] \in {"none", "counting"} => iter[h] = <<>>
                          /\ hpc[h] = "work" => item[h] # <<>>

\* The mapper m has the input x: it is next or now at work on it, or has
\* mapped it.
Has(m, x) == iter[m] = <<x>> \/ (hpc[m] = "work" /\ item[m] = <<x>>) \/ <<m, x>> \in mapped

\* A mapper that has come to the end has found the input empty, unless one has
\* thrown; each has had the first input, and no two have another one.
InputInv ==
    /\ first \in AtMostOne(Inputs) /\ input \in Seq(Inputs)
    /\ mapped \subseteq Mappers \X Inputs
    /\ first = <<>> => input = <<>>
    /\ \A m \in Mappers : hpc[m] # "none" /\ iter[m] = <<>> => threw \/ input = <<>>
    /\ \A x \in Inputs, m \in Mappers :
         first = <<x>> /\ hpc[m] # "none" => threw \/ Has(m, x)

SoleInv ==
    /\ \A i, j \in 1 .. Len(input) : input[i] = input[j] => i = j
    /\ \A x \in Inputs : first # <<x>> =>
         /\ \A m, o \in Mappers : Has(m, x) /\ Has(o, x) => m = o
         /\ \A i \in 1 .. Len(input), m \in Mappers : input[i] = x => ~Has(m, x)

\* The key k is in the task that the reducer r has next, or is at work on.
Ahead(r, k) == iter[r] # <<>> /\ k \in iter[r][1]
InHand(r, k) == hpc[r] = "work" /\ k \in item[r][1]

\* A key is in one place: a task in the queue, a task that a reducer has, or
\* among what has been reduced; and in none if it is not to be reduced.
OnePlace(k) ==
    /\ \A i, j \in 1 .. Len(tasks) : k \in tasks[i] /\ k \in tasks[j] => i = j
    /\ \A i \in 1 .. Len(tasks) : k \in tasks[i] =>
         reduced[k] = 0 /\ \A r \in Reducers : ~Ahead(r, k) /\ ~InHand(r, k)
    /\ \A r \in Reducers : Ahead(r, k) => reduced[k] = 0 /\ ~InHand(r, k)
    /\ \A r \in Reducers : InHand(r, k) => reduced[k] = 0
    /\ \A r, o \in Reducers :
         (Ahead(r, k) \/ InHand(r, k)) /\ (Ahead(o, k) \/ InHand(o, k)) => r = o

\* A reducer that has come to the end has found the queue empty, and there are
\* no tasks before the shuffle.
TasksInv ==
    /\ tasks \in Seq(Tasks) /\ reduced \in [Keys -> 0 .. 1]
    /\ \A r \in Reducers : hpc[r] # "none" /\ iter[r] = <<>> => tasks = <<>>
    /\ stage \in {"start mappers", "wait mappers"} => tasks = <<>>
    /\ \A k \in Keys : OnePlace(k)

Somewhere(k) ==
    \/ \E i \in 1 .. Len(tasks) : k \in tasks[i]
    \/ \E r \in Reducers : Ahead(r, k) \/ InHand(r, k)
    \/ reduced[k] = 1

KeysInv ==
    \A k \in Keys :
       Somewhere(k) <=> /\ stage \notin {"start mappers", "wait mappers"}
                        /\ k \in MappedKeys \ skipped

IInv == /\ MLatchInv /\ RLatchInv /\ ControlInv /\ IterInv /\ InputInv /\ SoleInv
        /\ TasksInv /\ KeysInv

-----------------------------------------------------------------------------
(* The latches, a step at a time, on their values.                         *)

LatchPcs == {"start", "lock", "held", "blocked", "unlock", "done"}

LEMMA Apart ==
    ASSUME NEW C \in {Mappers, Reducers}
    PROVE  IsFiniteSet(C) /\ Runner \notin C /\ NoThread \notin C /\ Runner # NoThread
  <1>1. C \subseteq Helpers
    BY DEF Helpers
  <1> QED
    BY <1>1, HelpersAssumption, FS_Subset

\* A thread that goes on without taking anything off the count.
LEMMA LatchMoves ==
    ASSUME NEW C \in {Mappers, Reducers}, NEW n, NEW cond, NEW mx, NEW p, NEW d,
           LatchInv(C, n, cond, mx, p, d), NEW t \in C \cup {Runner}, NEW l \in LatchPcs,
           t \in C => (Through(p[t]) <=> Through(l))
    PROVE  /\ [p EXCEPT ![t] = l] \in [C \cup {Runner} -> LatchPcs]
           /\ n = Cardinality(NotYet(C, [p EXCEPT ![t] = l]))
           /\ \A u \in C \cup {Runner} : [p EXCEPT ![t] = l][u] = IF u = t THEN l ELSE p[u]
  <1>1. p \in [C \cup {Runner} -> LatchPcs]
    BY DEF LatchInv, LatchPcs
  <1>2. [p EXCEPT ![t] = l] \in [C \cup {Runner} -> LatchPcs]
        /\ \A u \in C \cup {Runner} : [p EXCEPT ![t] = l][u] = IF u = t THEN l ELSE p[u]
    BY <1>1
  <1>3. NotYet(C, [p EXCEPT ![t] = l]) = NotYet(C, p)
    BY <1>2 DEF NotYet
  <1> QED
    BY <1>2, <1>3 DEF LatchInv

LEMMA RunnerMoves ==
    ASSUME NEW C \in {Mappers, Reducers}, NEW n, NEW cond, NEW mx, NEW p, NEW d,
           LatchInv(C, n, cond, mx, p, d), NEW l \in LatchPcs
    PROVE  /\ [p EXCEPT ![Runner] = l] \in [C \cup {Runner} -> LatchPcs]
           /\ n = Cardinality(NotYet(C, [p EXCEPT ![Runner] = l]))
           /\ \A u \in C \cup {Runner} : [p EXCEPT ![Runner] = l][u] = IF u = Runner THEN l ELSE p[u]
  <1>1. p \in [C \cup {Runner} -> LatchPcs]
    BY DEF LatchInv, LatchPcs
  <1>2. [p EXCEPT ![Runner] = l] \in [C \cup {Runner} -> LatchPcs]
        /\ \A u \in C \cup {Runner} : [p EXCEPT ![Runner] = l][u] = IF u = Runner THEN l ELSE p[u]
    BY <1>1
  <1>3. NotYet(C, [p EXCEPT ![Runner] = l]) = NotYet(C, p)
    BY <1>2, Apart DEF NotYet
  <1> QED
    BY <1>2, <1>3 DEF LatchInv

LEMMA LatchCall ==
    ASSUME NEW C \in {Mappers, Reducers}, NEW n, NEW cond, NEW mx, NEW p, NEW d,
           LatchInv(C, n, cond, mx, p, d), NEW t \in C \cup {Runner}, p[t] = "start"
    PROVE  LatchInv(C, n, cond, mx, [p EXCEPT ![t] = "lock"], d)
  <1> DEFINE q == [p EXCEPT ![t] = "lock"]
  <1>0. "lock" \in LatchPcs /\ (t \in C => (Through(p[t]) <=> Through("lock")))
    BY Apart DEF LatchPcs, Through
  <1>1. /\ q \in [C \cup {Runner} -> LatchPcs] /\ n = Cardinality(NotYet(C, q))
        /\ \A u \in C \cup {Runner} : q[u] = IF u = t THEN "lock" ELSE p[u]
    BY <1>0, LatchMoves
  <1> HIDE DEF q
  <1>2. LatchInv(C, n, cond, mx, q, d)
    BY <1>1, Apart DEF LatchInv, LatchPcs
  <1> QED
    BY <1>2 DEF q

LEMMA LatchAcquire ==
    ASSUME NEW C \in {Mappers, Reducers}, NEW n, NEW cond, NEW p, NEW d,
           LatchInv(C, n, cond, NoThread, p, d), NEW t \in C \cup {Runner}, p[t] = "lock"
    PROVE  LatchInv(C, n, cond, t, [p EXCEPT ![t] = "held"], d)
  <1> DEFINE q == [p EXCEPT ![t] = "held"]
  <1>0. "held" \in LatchPcs /\ t \in C \cup {Runner} /\ (t \in C => (Through(p[t]) <=> Through("held")))
    BY Apart DEF LatchPcs, Through
  <1>1. /\ q \in [C \cup {Runner} -> LatchPcs] /\ n = Cardinality(NotYet(C, q))
        /\ \A u \in C \cup {Runner} : q[u] = IF u = t THEN "held" ELSE p[u]
    BY <1>0, LatchMoves
  <1> HIDE DEF q
  <1>2. LatchInv(C, n, cond, t, q, d)
    BY <1>1, Apart DEF LatchInv, LatchPcs
  <1> QED
    BY <1>2 DEF q

LEMMA LatchUnlock ==
    ASSUME NEW C \in {Mappers, Reducers}, NEW n, NEW cond, NEW mx, NEW p, NEW d,
           LatchInv(C, n, cond, mx, p, d), NEW t \in C \cup {Runner}, p[t] = "unlock"
    PROVE  LatchInv(C, n, cond, NoThread, [p EXCEPT ![t] = "done"], d)
  <1> DEFINE q == [p EXCEPT ![t] = "done"]
  <1>0. "done" \in LatchPcs /\ t \in C \cup {Runner} /\ (t \in C => (Through(p[t]) <=> Through("done")))
    BY Apart DEF LatchPcs, Through
  <1>1. /\ q \in [C \cup {Runner} -> LatchPcs] /\ n = Cardinality(NotYet(C, q))
        /\ \A u \in C \cup {Runner} : q[u] = IF u = t THEN "done" ELSE p[u]
    BY <1>0, LatchMoves
  <1> HIDE DEF q
  <1>2. LatchInv(C, n, cond, NoThread, q, d)
    BY <1>1, Apart DEF LatchInv, LatchPcs
  <1> QED
    BY <1>2 DEF q

\* wait() blocks the Runner.
LEMMA LatchBlocks ==
    ASSUME NEW C \in {Mappers, Reducers}, NEW n, NEW cond, NEW mx, NEW p, NEW d,
           LatchInv(C, n, cond, mx, p, d), p[Runner] = "held"
    PROVE  LatchInv(C, n, cond \cup {Runner}, NoThread, [p EXCEPT ![Runner] = "blocked"], d)
  <1> DEFINE q == [p EXCEPT ![Runner] = "blocked"]
  <1>0. "blocked" \in LatchPcs
    BY DEF LatchPcs
  <1>1. /\ q \in [C \cup {Runner} -> LatchPcs] /\ n = Cardinality(NotYet(C, q))
        /\ \A u \in C \cup {Runner} : q[u] = IF u = Runner THEN "blocked" ELSE p[u]
    BY <1>0, RunnerMoves
  <1> HIDE DEF q
  <1>2. LatchInv(C, n, cond \cup {Runner}, NoThread, q, d)
    BY <1>1, Apart DEF LatchInv, LatchPcs
  <1> QED
    BY <1>2 DEF q

LEMMA LatchWakes ==
    ASSUME NEW C \in {Mappers, Reducers}, NEW n, NEW cond, NEW mx, NEW p, NEW d,
           LatchInv(C, n, cond, mx, p, d), p[Runner] = "blocked"
    PROVE  LatchInv(C, n, cond \ {Runner}, mx, [p EXCEPT ![Runner] = "lock"], d)
  <1> DEFINE q == [p EXCEPT ![Runner] = "lock"]
  <1>0. "lock" \in LatchPcs
    BY DEF LatchPcs
  <1>1. /\ q \in [C \cup {Runner} -> LatchPcs] /\ n = Cardinality(NotYet(C, q))
        /\ \A u \in C \cup {Runner} : q[u] = IF u = Runner THEN "lock" ELSE p[u]
    BY <1>0, RunnerMoves
  <1> HIDE DEF q
  <1>2. LatchInv(C, n, cond \ {Runner}, mx, q, d)
    BY <1>1, Apart DEF LatchInv, LatchPcs
  <1> QED
    BY <1>2 DEF q

\* wait() lets the Runner through: nobody is left to count down, and as the
\* Runner has the mutex nobody is about to unlock it either.
LEMMA LatchPasses ==
    ASSUME NEW C \in {Mappers, Reducers}, NEW cond, NEW mx, NEW p, NEW d,
           LatchInv(C, 0, cond, mx, p, d), p[Runner] = "held"
    PROVE  LatchInv(C, 0, cond, mx, [p EXCEPT ![Runner] = "unlock"], d)
  <1> DEFINE q == [p EXCEPT ![Runner] = "unlock"]
  <1>0. "unlock" \in LatchPcs
    BY DEF LatchPcs
  <1>1. /\ q \in [C \cup {Runner} -> LatchPcs] /\ 0 = Cardinality(NotYet(C, q))
        /\ \A u \in C \cup {Runner} : q[u] = IF u = Runner THEN "unlock" ELSE p[u]
    BY <1>0, RunnerMoves
  <1>2. IsFiniteSet(NotYet(C, p)) /\ Cardinality(NotYet(C, p)) = 0
    <2>1. NotYet(C, p) \subseteq C
      BY DEF NotYet
    <2> QED
      BY <2>1, Apart, FS_Subset DEF LatchInv
  <1>3. NotYet(C, p) = {}
    BY <1>2, FS_EmptySet
  <1>4. \A u \in C : p[u] = "done"
    BY <1>3, Apart DEF NotYet, LatchInv, Through
  <1> HIDE DEF q
  <1>5. LatchInv(C, 0, cond, mx, q, d)
    BY <1>1, <1>4, Apart DEF LatchInv, LatchPcs
  <1> QED
    BY <1>5 DEF q

\* A thread that counts down is counted.
LEMMA LatchPositive ==
    ASSUME NEW C \in {Mappers, Reducers}, NEW n, NEW cond, NEW mx, NEW p, NEW d,
           LatchInv(C, n, cond, mx, p, d), NEW t \in C, p[t] = "held"
    PROVE  n \in Nat /\ n > 0
  <1>1. IsFiniteSet(NotYet(C, p)) /\ t \in NotYet(C, p)
    <2>1. NotYet(C, p) \subseteq C
      BY DEF NotYet
    <2> QED
      BY <2>1, Apart, FS_Subset DEF LatchInv, NotYet, Through
  <1> QED
    BY <1>1, FS_CardinalityType, FS_EmptySet DEF LatchInv

\* count_down() takes one off the count, and at zero wakes the Runner.
LEMMA LatchCounts ==
    ASSUME NEW C \in {Mappers, Reducers}, NEW n, NEW cond, NEW mx, NEW p, NEW d,
           LatchInv(C, n, cond, mx, p, d), NEW t \in C, p[t] = "held", NEW W \in {{}, cond},
           NEW q, q \in [C \cup {Runner} -> LatchPcs],
           \A u \in C \cup {Runner} : q[u] = IF u = t THEN "unlock"
                                            ELSE IF u \in W THEN "lock" ELSE p[u]
    PROVE  LatchInv(C, n - 1, cond \ W, mx, q, d)
  <1>1. /\ IsFiniteSet(NotYet(C, p)) /\ t \in NotYet(C, p) /\ t # Runner
        /\ W \subseteq {Runner}
    <2>1. NotYet(C, p) \subseteq C
      BY DEF NotYet
    <2> QED
      BY <2>1, Apart, FS_Subset DEF LatchInv, NotYet, Through
  <1>2. /\ q \in [C \cup {Runner} -> LatchPcs]
        /\ \A u \in C : q[u] = IF u = t THEN "unlock" ELSE p[u]
        /\ q[Runner] = IF Runner \in W THEN "lock" ELSE p[Runner]
    BY <1>1, Apart DEF LatchInv, LatchPcs
  <1>3. NotYet(C, q) = NotYet(C, p) \ {t}
    BY <1>2 DEF NotYet, Through
  <1>4. Cardinality(NotYet(C, q)) = n - 1
    <2>1. Cardinality(NotYet(C, p) \ {t}) = Cardinality(NotYet(C, p)) - 1
      BY <1>1, FS_RemoveElement
    <2> QED
      BY <1>3, <2>1 DEF LatchInv
  <1>5. n \in Nat /\ n > 0
    BY LatchPositive
  <1>6. p[Runner] \notin {"unlock", "done"}
    BY <1>1 DEF LatchInv
  <1> QED
    BY <1>1, <1>2, <1>4, <1>5, <1>6, Apart DEF LatchInv, LatchPcs

-----------------------------------------------------------------------------
(* The same for the actions of the two latches.                            *)

LEMMA MStepKeeps ==
    ASSUME MLatchInv, NEW t \in Mappers \cup {Runner}, ML!Step(t) \/ (t = Runner /\ ML!SpuriousWakeup(t))
    PROVE  /\ MLatchInv' /\ UNCHANGED mDestroyed
           /\ \A u \in Mappers \cup {Runner} : (mPc'[u] = "start") <=> (mPc[u] = "start")
           /\ mPc[Runner] = "done" => mPc'[Runner] = "done"
  <1>1. mPc \in [Mappers \cup {Runner} -> LatchPcs]
    BY DEF MLatchInv, LatchInv, LatchPcs
  <1>2. CASE ML!Acquire(t)
    <2>1. /\ mPc[t] = "lock" /\ mMutex = NoThread /\ mMutex' = t
          /\ mPc' = [mPc EXCEPT ![t] = "held"]
          /\ UNCHANGED <<mCount, mCondition, mDestroyed>>
      BY <1>2 DEF ML!Acquire
    <2>2. MLatchInv'
      BY <2>1, LatchAcquire DEF MLatchInv
    <2> QED
      BY <1>1, <2>1, <2>2
  <1>3. CASE ML!Unlock(t)
    <2>1. /\ mPc[t] = "unlock" /\ mMutex' = NoThread
          /\ mPc' = [mPc EXCEPT ![t] = "done"]
          /\ UNCHANGED <<mCount, mCondition, mDestroyed>>
      BY <1>3 DEF ML!Unlock
    <2>2. MLatchInv'
      BY <2>1, LatchUnlock DEF MLatchInv
    <2> QED
      BY <1>1, <2>1, <2>2
  <1>4. CASE t = Runner /\ ML!wait(t)
    <2>1. /\ mPc[Runner] = "held" /\ UNCHANGED <<mCount, mDestroyed>>
          /\ \/ /\ mCondition' = mCondition \cup {Runner} /\ mMutex' = NoThread
                /\ mPc' = [mPc EXCEPT ![Runner] = "blocked"]
             \/ /\ mCount = 0 /\ UNCHANGED <<mCondition, mMutex>>
                /\ mPc' = [mPc EXCEPT ![Runner] = "unlock"]
      BY <1>4 DEF ML!wait
    <2>2. MLatchInv'
      BY <2>1, LatchBlocks, LatchPasses DEF MLatchInv
    <2> QED
      BY <1>1, <2>1, <2>2
  <1>5. CASE t \in Mappers /\ ML!count_down(t)
    <2>1. mCount \in Nat /\ mCount > 0
      BY <1>5, LatchPositive DEF MLatchInv, ML!count_down
    <2> DEFINE W == IF mCount - 1 = 0 THEN mCondition ELSE {}
    <2>2. /\ mPc[t] = "held" /\ mCount' = mCount - 1 /\ UNCHANGED <<mMutex, mDestroyed>>
          /\ mCondition' = mCondition \ W
          /\ mPc' = [u \in Mappers \cup {Runner} |-> IF u = t THEN "unlock"
                                                 ELSE IF u \in W THEN "lock" ELSE mPc[u]]
      BY <1>5, <2>1 DEF ML!count_down, ML!Threads
    <2>3. W \in {{}, mCondition}
      OBVIOUS
    <2> HIDE DEF W
    <2>4. /\ mPc' \in [Mappers \cup {Runner} -> LatchPcs]
          /\ \A u \in Mappers \cup {Runner} : mPc'[u] = IF u = t THEN "unlock"
                                                 ELSE IF u \in W THEN "lock" ELSE mPc[u]
      BY <1>1, <2>2 DEF LatchPcs
    <2>5. LatchInv(Mappers, mCount - 1, mCondition \ W, mMutex, mPc', mDestroyed)
      BY <1>5, <2>2, <2>3, <2>4, LatchCounts DEF MLatchInv
    <2>6. MLatchInv'
      BY <2>2, <2>5 DEF MLatchInv
    <2>7. \A u \in W : u = Runner /\ mPc[Runner] = "blocked"
      BY <2>3 DEF MLatchInv, LatchInv
    <2> QED
      BY <1>5, <2>2, <2>4, <2>6, <2>7, Apart
  <1>6. CASE t = Runner /\ ML!SpuriousWakeup(t)
    <2>1. /\ mPc[Runner] = "blocked" /\ mCondition' = mCondition \ {Runner}
          /\ mPc' = [mPc EXCEPT ![Runner] = "lock"]
          /\ UNCHANGED <<mCount, mMutex, mDestroyed>>
      BY <1>6 DEF ML!SpuriousWakeup
    <2>2. MLatchInv'
      BY <2>1, LatchWakes DEF MLatchInv
    <2> QED
      BY <1>1, <2>1, <2>2
  <1>7. \/ ML!Acquire(t) \/ ML!Unlock(t) \/ (t = Runner /\ ML!wait(t))
        \/ (t \in Mappers /\ ML!count_down(t)) \/ (t = Runner /\ ML!SpuriousWakeup(t))
    BY DEF ML!Step
  <1> QED
    BY <1>2, <1>3, <1>4, <1>5, <1>6, <1>7

LEMMA MCallKeeps ==
    ASSUME MLatchInv, NEW t \in Mappers \cup {Runner}, ML!Call(t)
    PROVE  /\ MLatchInv' /\ UNCHANGED mDestroyed /\ mPc[t] = "start"
           /\ \A u \in Mappers \cup {Runner} : mPc'[u] = IF u = t THEN "lock" ELSE mPc[u]
  <1>1. /\ mPc[t] = "start" /\ mPc' = [mPc EXCEPT ![t] = "lock"]
        /\ UNCHANGED <<mCount, mCondition, mMutex, mDestroyed>>
    BY DEF ML!Call
  <1>2. MLatchInv'
    BY <1>1, LatchCall DEF MLatchInv
  <1> QED
    BY <1>1, <1>2 DEF MLatchInv, LatchInv

LEMMA MDestroyKeeps ==
    ASSUME MLatchInv, ML!Destroy
    PROVE  MLatchInv' /\ UNCHANGED mPc
  BY DEF MLatchInv, ML!Destroy, LatchInv

LEMMA RStepKeeps ==
    ASSUME RLatchInv, NEW t \in Reducers \cup {Runner}, RL!Step(t) \/ (t = Runner /\ RL!SpuriousWakeup(t))
    PROVE  /\ RLatchInv' /\ UNCHANGED rDestroyed
           /\ \A u \in Reducers \cup {Runner} : (rPc'[u] = "start") <=> (rPc[u] = "start")
           /\ rPc[Runner] = "done" => rPc'[Runner] = "done"
  <1>1. rPc \in [Reducers \cup {Runner} -> LatchPcs]
    BY DEF RLatchInv, LatchInv, LatchPcs
  <1>2. CASE RL!Acquire(t)
    <2>1. /\ rPc[t] = "lock" /\ rMutex = NoThread /\ rMutex' = t
          /\ rPc' = [rPc EXCEPT ![t] = "held"]
          /\ UNCHANGED <<rCount, rCondition, rDestroyed>>
      BY <1>2 DEF RL!Acquire
    <2>2. RLatchInv'
      BY <2>1, LatchAcquire DEF RLatchInv
    <2> QED
      BY <1>1, <2>1, <2>2
  <1>3. CASE RL!Unlock(t)
    <2>1. /\ rPc[t] = "unlock" /\ rMutex' = NoThread
          /\ rPc' = [rPc EXCEPT ![t] = "done"]
          /\ UNCHANGED <<rCount, rCondition, rDestroyed>>
      BY <1>3 DEF RL!Unlock
    <2>2. RLatchInv'
      BY <2>1, LatchUnlock DEF RLatchInv
    <2> QED
      BY <1>1, <2>1, <2>2
  <1>4. CASE t = Runner /\ RL!wait(t)
    <2>1. /\ rPc[Runner] = "held" /\ UNCHANGED <<rCount, rDestroyed>>
          /\ \/ /\ rCondition' = rCondition \cup {Runner} /\ rMutex' = NoThread
                /\ rPc' = [rPc EXCEPT ![Runner] = "blocked"]
             \/ /\ rCount = 0 /\ UNCHANGED <<rCondition, rMutex>>
                /\ rPc' = [rPc EXCEPT ![Runner] = "unlock"]
      BY <1>4 DEF RL!wait
    <2>2. RLatchInv'
      BY <2>1, LatchBlocks, LatchPasses DEF RLatchInv
    <2> QED
      BY <1>1, <2>1, <2>2
  <1>5. CASE t \in Reducers /\ RL!count_down(t)
    <2>1. rCount \in Nat /\ rCount > 0
      BY <1>5, LatchPositive DEF RLatchInv, RL!count_down
    <2> DEFINE W == IF rCount - 1 = 0 THEN rCondition ELSE {}
    <2>2. /\ rPc[t] = "held" /\ rCount' = rCount - 1 /\ UNCHANGED <<rMutex, rDestroyed>>
          /\ rCondition' = rCondition \ W
          /\ rPc' = [u \in Reducers \cup {Runner} |-> IF u = t THEN "unlock"
                                                 ELSE IF u \in W THEN "lock" ELSE rPc[u]]
      BY <1>5, <2>1 DEF RL!count_down, RL!Threads
    <2>3. W \in {{}, rCondition}
      OBVIOUS
    <2> HIDE DEF W
    <2>4. /\ rPc' \in [Reducers \cup {Runner} -> LatchPcs]
          /\ \A u \in Reducers \cup {Runner} : rPc'[u] = IF u = t THEN "unlock"
                                                 ELSE IF u \in W THEN "lock" ELSE rPc[u]
      BY <1>1, <2>2 DEF LatchPcs
    <2>5. LatchInv(Reducers, rCount - 1, rCondition \ W, rMutex, rPc', rDestroyed)
      BY <1>5, <2>2, <2>3, <2>4, LatchCounts DEF RLatchInv
    <2>6. RLatchInv'
      BY <2>2, <2>5 DEF RLatchInv
    <2>7. \A u \in W : u = Runner /\ rPc[Runner] = "blocked"
      BY <2>3 DEF RLatchInv, LatchInv
    <2> QED
      BY <1>5, <2>2, <2>4, <2>6, <2>7, Apart
  <1>6. CASE t = Runner /\ RL!SpuriousWakeup(t)
    <2>1. /\ rPc[Runner] = "blocked" /\ rCondition' = rCondition \ {Runner}
          /\ rPc' = [rPc EXCEPT ![Runner] = "lock"]
          /\ UNCHANGED <<rCount, rMutex, rDestroyed>>
      BY <1>6 DEF RL!SpuriousWakeup
    <2>2. RLatchInv'
      BY <2>1, LatchWakes DEF RLatchInv
    <2> QED
      BY <1>1, <2>1, <2>2
  <1>7. \/ RL!Acquire(t) \/ RL!Unlock(t) \/ (t = Runner /\ RL!wait(t))
        \/ (t \in Reducers /\ RL!count_down(t)) \/ (t = Runner /\ RL!SpuriousWakeup(t))
    BY DEF RL!Step
  <1> QED
    BY <1>2, <1>3, <1>4, <1>5, <1>6, <1>7

LEMMA RCallKeeps ==
    ASSUME RLatchInv, NEW t \in Reducers \cup {Runner}, RL!Call(t)
    PROVE  /\ RLatchInv' /\ UNCHANGED rDestroyed /\ rPc[t] = "start"
           /\ \A u \in Reducers \cup {Runner} : rPc'[u] = IF u = t THEN "lock" ELSE rPc[u]
  <1>1. /\ rPc[t] = "start" /\ rPc' = [rPc EXCEPT ![t] = "lock"]
        /\ UNCHANGED <<rCount, rCondition, rMutex, rDestroyed>>
    BY DEF RL!Call
  <1>2. RLatchInv'
    BY <1>1, LatchCall DEF RLatchInv
  <1> QED
    BY <1>1, <1>2 DEF RLatchInv, LatchInv

LEMMA RDestroyKeeps ==
    ASSUME RLatchInv, RL!Destroy
    PROVE  RLatchInv' /\ UNCHANGED rPc
  BY DEF RLatchInv, RL!Destroy, LatchInv

-----------------------------------------------------------------------------
(* run(), the helpers and the latches.                                     *)

\* The parts that one helper's step in its loop leaves alone.
LEMMA LoopSteps ==
    ASSUME ControlInv, NEW h \in Helpers,
           FetchInput(h) \/ Map(h) \/ MapThrows(h) \/ FetchTask(h) \/ Reduce(h)
    PROVE  /\ UNCHANGED <<run, mLatch, rLatch>>
           /\ hpc[h] \in {"loop", "work"} /\ hpc'[h] \in {"loop", "work"}
           /\ hpc' \in [Helpers -> {"none", "loop", "work", "counting"}]
           /\ \A u \in Helpers : u # h => hpc'[u] = hpc[u]
  <1>1. /\ UNCHANGED <<run, mLatch, rLatch>> /\ hpc[h] \in {"loop", "work"}
        /\ hpc' = [hpc EXCEPT ![h] = "loop"] \/ hpc' = [hpc EXCEPT ![h] = "work"]
    BY DEF FetchInput, Map, MapThrows, FetchTask, Reduce, Goto
  <1> QED
    BY <1>1 DEF ControlInv, CountsInv

LEMMA KindsApart ==
    /\ Mappers \subseteq Helpers /\ Reducers \subseteq Helpers /\ Mappers \cap Reducers = {}
    /\ Runner \notin Mappers /\ Runner \notin Reducers
  BY HelpersAssumption DEF Helpers

LEMMA ControlKeeps ==
    ASSUME MLatchInv, RLatchInv, ControlInv, Next
    PROVE  MLatchInv' /\ RLatchInv' /\ ControlInv'
  <1>1. ASSUME UNCHANGED mLatch PROVE MLatchInv'
    BY <1>1 DEF mLatch, MLatchInv
  <1>2. ASSUME UNCHANGED rLatch PROVE RLatchInv'
    BY <1>2 DEF rLatch, RLatchInv
  <1>3. ASSUME NEW h \in Helpers,
               FetchInput(h) \/ Map(h) \/ MapThrows(h) \/ FetchTask(h) \/ Reduce(h)
        PROVE  MLatchInv' /\ RLatchInv' /\ ControlInv'
    <2>1. /\ UNCHANGED <<run, mLatch, rLatch>>
          /\ hpc[h] \in {"loop", "work"} /\ hpc'[h] \in {"loop", "work"}
          /\ hpc' \in [Helpers -> {"none", "loop", "work", "counting"}]
          /\ \A u \in Helpers : u # h => hpc'[u] = hpc[u]
      BY <1>3, LoopSteps
    <2>2. ControlInv'
      <3>1. StageInv'
        BY <2>1, KindsApart DEF ControlInv, StageInv, run, mLatch, rLatch
      <3>2. CountsInv'
        BY <2>1, KindsApart DEF ControlInv, CountsInv, run, mLatch, rLatch
      <3>3. StartsInv'
        BY <2>1, KindsApart DEF ControlInv, StartsInv, run, mLatch, rLatch
      <3> QED
        BY <3>1, <3>2, <3>3 DEF ControlInv
    <2> QED
      BY <1>1, <1>2, <2>1, <2>2
  <1>4. ASSUME NEW h \in Helpers, CountDown(h)
        PROVE  MLatchInv' /\ RLatchInv' /\ ControlInv'
    <2>1. /\ UNCHANGED run /\ hpc[h] = "loop" /\ hpc'[h] = "counting"
          /\ hpc' \in [Helpers -> {"none", "loop", "work", "counting"}]
          /\ \A u \in Helpers : u # h => hpc'[u] = hpc[u]
      BY <1>4 DEF CountDown, Goto, ControlInv, CountsInv
    <2>2. CASE h \in Mappers /\ ML!Call(h) /\ UNCHANGED rLatch
      <3>1. /\ MLatchInv' /\ UNCHANGED mDestroyed
            /\ \A u \in Mappers \cup {Runner} : mPc'[u] = IF u = h THEN "lock" ELSE mPc[u]
        BY <2>2, MCallKeeps
      <3>2. ControlInv'
        <4>1. StageInv'
          BY <2>1, <2>2, <3>1, KindsApart DEF ControlInv, StageInv, run, rLatch
        <4>2. CountsInv'
          BY <2>1, <2>2, <3>1, KindsApart DEF ControlInv, CountsInv, run, rLatch
        <4>3. StartsInv'
          BY <2>1, <2>2, <3>1, KindsApart DEF ControlInv, StartsInv, run, rLatch
        <4> QED
          BY <4>1, <4>2, <4>3 DEF ControlInv
      <3> QED
        BY <1>2, <2>2, <3>1, <3>2
    <2>3. CASE h \in Reducers /\ RL!Call(h) /\ UNCHANGED mLatch
      <3>1. /\ RLatchInv' /\ UNCHANGED rDestroyed
            /\ \A u \in Reducers \cup {Runner} : rPc'[u] = IF u = h THEN "lock" ELSE rPc[u]
        BY <2>3, RCallKeeps
      <3>2. ControlInv'
        <4>1. StageInv'
          BY <2>1, <2>3, <3>1, KindsApart DEF ControlInv, StageInv, run, mLatch
        <4>2. CountsInv'
          BY <2>1, <2>3, <3>1, KindsApart DEF ControlInv, CountsInv, run, mLatch
        <4>3. StartsInv'
          BY <2>1, <2>3, <3>1, KindsApart DEF ControlInv, StartsInv, run, mLatch
        <4> QED
          BY <4>1, <4>2, <4>3 DEF ControlInv
      <3> QED
        BY <1>1, <2>3, <3>1, <3>2
    <2> QED
      BY <1>4, <2>2, <2>3 DEF CountDown
  <1>5. ASSUME NEW m \in Mappers, StartMapper(m)
        PROVE  MLatchInv' /\ RLatchInv' /\ ControlInv'
    <2>1. /\ UNCHANGED <<stage, mLatch, rLatch>> /\ stage = "start mappers" /\ m \notin tried
          /\ tried' = tried \cup {m} /\ hpc[m] = "none"
          /\ hpc' = hpc \/ hpc' = [hpc EXCEPT ![m] = "loop"]
      BY <1>5 DEF StartMapper, Goto, ControlInv, StartsInv
    <2>2. /\ hpc' \in [Helpers -> {"none", "loop", "work", "counting"}] /\ hpc'[m] # "counting"
          /\ \A u \in Helpers : u # m => hpc'[u] = hpc[u]
      BY <2>1 DEF ControlInv, CountsInv
    <2>3. ControlInv'
      <3>1. StageInv'
        BY <2>1, <2>2, KindsApart DEF ControlInv, StageInv, mLatch, rLatch
      <3>2. CountsInv'
        BY <2>1, <2>2, KindsApart DEF ControlInv, CountsInv, mLatch, rLatch
      <3>3. StartsInv'
        BY <2>1, <2>2, KindsApart DEF ControlInv, StartsInv, mLatch, rLatch
      <3> QED
        BY <3>1, <3>2, <3>3 DEF ControlInv
    <2> QED
      BY <1>1, <1>2, <2>1, <2>3
  <1>6. ASSUME NEW r \in Reducers, StartReducer(r)
        PROVE  MLatchInv' /\ RLatchInv' /\ ControlInv'
    <2>1. /\ UNCHANGED <<stage, mLatch, rLatch>> /\ stage = "start reducers" /\ r \notin tried
          /\ tried' = tried \cup {r} /\ hpc[r] = "none"
          /\ hpc' = hpc \/ hpc' = [hpc EXCEPT ![r] = "loop"]
      BY <1>6 DEF StartReducer, Goto, ControlInv, StartsInv
    <2>2. /\ hpc' \in [Helpers -> {"none", "loop", "work", "counting"}] /\ hpc'[r] # "counting"
          /\ \A u \in Helpers : u # r => hpc'[u] = hpc[u]
      BY <2>1 DEF ControlInv, CountsInv
    <2>3. ControlInv'
      <3>1. StageInv'
        BY <2>1, <2>2, KindsApart DEF ControlInv, StageInv, mLatch, rLatch
      <3>2. CountsInv'
        BY <2>1, <2>2, KindsApart DEF ControlInv, CountsInv, mLatch, rLatch
      <3>3. StartsInv'
        BY <2>1, <2>2, KindsApart DEF ControlInv, StartsInv, mLatch, rLatch
      <3> QED
        BY <3>1, <3>2, <3>3 DEF ControlInv
    <2> QED
      BY <1>1, <1>2, <2>1, <2>3
  <1>7. CASE WaitMappers
    <2>1. /\ stage = "start mappers" /\ stage' = "wait mappers" /\ ML!Call(Runner)
          /\ UNCHANGED <<tried, hpc, rLatch>>
      BY <1>7 DEF WaitMappers, helper
    <2>2. /\ MLatchInv' /\ UNCHANGED mDestroyed
          /\ \A u \in Mappers \cup {Runner} : mPc'[u] = IF u = Runner THEN "lock" ELSE mPc[u]
      BY <2>1, MCallKeeps
    <2>3. ControlInv'
      <3>1. StageInv'
        BY <2>1, <2>2, KindsApart DEF ControlInv, StageInv, rLatch
      <3>2. CountsInv'
        BY <2>1, <2>2, KindsApart DEF ControlInv, CountsInv, rLatch
      <3>3. StartsInv'
        BY <2>1, <2>2, KindsApart DEF ControlInv, StartsInv, rLatch
      <3> QED
        BY <3>1, <3>2, <3>3 DEF ControlInv
    <2> QED
      BY <1>2, <2>1, <2>2, <2>3
  <1>8. CASE WaitReducers
    <2>1. /\ stage = "start reducers" /\ stage' = "wait reducers" /\ RL!Call(Runner)
          /\ UNCHANGED <<tried, hpc, mLatch>>
      BY <1>8 DEF WaitReducers, helper
    <2>2. /\ RLatchInv' /\ UNCHANGED rDestroyed
          /\ \A u \in Reducers \cup {Runner} : rPc'[u] = IF u = Runner THEN "lock" ELSE rPc[u]
      BY <2>1, RCallKeeps
    <2>3. ControlInv'
      <3>1. StageInv'
        BY <2>1, <2>2, KindsApart DEF ControlInv, StageInv, mLatch
      <3>2. CountsInv'
        BY <2>1, <2>2, KindsApart DEF ControlInv, CountsInv, mLatch
      <3>3. StartsInv'
        BY <2>1, <2>2, KindsApart DEF ControlInv, StartsInv, mLatch
      <3> QED
        BY <3>1, <3>2, <3>3 DEF ControlInv
    <2> QED
      BY <1>1, <2>1, <2>2, <2>3
  <1>9. CASE Shuffle
    <2>1. /\ stage = "wait mappers" /\ mPc[Runner] = "done" /\ UNCHANGED <<hpc, rLatch>>
          /\ \/ stage' = "threw" /\ ML!Destroy
             \/ stage' = "start reducers" /\ UNCHANGED mLatch
      BY <1>9 DEF Shuffle, helper
    <2>2. MLatchInv' /\ UNCHANGED mPc /\ (stage' = "start reducers" => mDestroyed' = mDestroyed)
      BY <1>1, <2>1, MDestroyKeeps DEF mLatch
    <2>3. ControlInv'
      <3>1. StageInv'
        <4>1. mPc' = mPc /\ rPc' = rPc /\ rDestroyed' = rDestroyed /\ StageInv
          BY <2>1, <2>2 DEF rLatch, ControlInv
        <4>2. CASE stage' = "threw"
          BY <2>1, <4>1, <4>2 DEF StageInv
        <4>3. CASE stage' = "start reducers"
          <5>1. mDestroyed' = mDestroyed
            BY <2>2, <4>3
          <5> QED
            BY <2>1, <4>1, <4>3, <5>1 DEF StageInv
        <4> QED
          BY <2>1, <4>2, <4>3
      <3>2. CountsInv'
        BY <2>1, <2>2, KindsApart DEF ControlInv, CountsInv, rLatch
      <3>3. StartsInv'
        BY <2>1, <2>2, KindsApart DEF ControlInv, StartsInv, rLatch
      <3> QED
        BY <3>1, <3>2, <3>3 DEF ControlInv
    <2> QED
      BY <1>2, <2>1, <2>2, <2>3
  <1>10. CASE Finish
    <2>1. /\ stage = "wait reducers" /\ rPc[Runner] = "done" /\ UNCHANGED <<tried, hpc>>
          /\ stage' = "returned" /\ ML!Destroy /\ RL!Destroy
      BY <1>10 DEF Finish, helper
    <2>2. MLatchInv' /\ RLatchInv' /\ UNCHANGED <<mPc, rPc>>
      BY <2>1, MDestroyKeeps, RDestroyKeeps
    <2>3. ControlInv'
      <3>1. StageInv'
        BY <2>1, <2>2, KindsApart DEF ControlInv, StageInv
      <3>2. CountsInv'
        BY <2>1, <2>2, KindsApart DEF ControlInv, CountsInv
      <3>3. StartsInv'
        BY <2>1, <2>2, KindsApart DEF ControlInv, StartsInv
      <3> QED
        BY <3>1, <3>2, <3>3 DEF ControlInv
    <2> QED
      BY <2>2, <2>3
  <1>11. CASE Latch \/ SpuriousWakeup
    <2>1. UNCHANGED <<run, hpc>>
      BY <1>11 DEF Latch, SpuriousWakeup, helper
    <2>2. ASSUME NEW t \in Mappers \cup {Runner}, UNCHANGED rLatch,
                 ML!Step(t) \/ (t = Runner /\ ML!SpuriousWakeup(t))
          PROVE  MLatchInv' /\ RLatchInv' /\ ControlInv'
      <3>1. /\ MLatchInv' /\ UNCHANGED mDestroyed
            /\ \A u \in Mappers \cup {Runner} : mPc'[u] = "start" <=> mPc[u] = "start"
            /\ mPc[Runner] = "done" => mPc'[Runner] = "done"
        BY <2>2, MStepKeeps
      <3>2. ControlInv'
        <4>1. StageInv'
          BY <2>1, <2>2, <3>1, KindsApart DEF ControlInv, StageInv, run, rLatch
        <4>2. CountsInv'
          BY <2>1, <2>2, <3>1, KindsApart DEF ControlInv, CountsInv, run, rLatch
        <4>3. StartsInv'
          BY <2>1, <2>2, <3>1, KindsApart DEF ControlInv, StartsInv, run, rLatch
        <4> QED
          BY <4>1, <4>2, <4>3 DEF ControlInv
      <3> QED
        BY <1>2, <2>2, <3>1, <3>2
    <2>3. ASSUME NEW t \in Reducers \cup {Runner}, UNCHANGED mLatch,
                 RL!Step(t) \/ (t = Runner /\ RL!SpuriousWakeup(t))
          PROVE  MLatchInv' /\ RLatchInv' /\ ControlInv'
      <3>1. /\ RLatchInv' /\ UNCHANGED rDestroyed
            /\ \A u \in Reducers \cup {Runner} : rPc'[u] = "start" <=> rPc[u] = "start"
            /\ rPc[Runner] = "done" => rPc'[Runner] = "done"
        BY <2>3, RStepKeeps
      <3>2. ControlInv'
        <4>1. StageInv'
          BY <2>1, <2>3, <3>1, KindsApart DEF ControlInv, StageInv, run, mLatch
        <4>2. CountsInv'
          BY <2>1, <2>3, <3>1, KindsApart DEF ControlInv, CountsInv, run, mLatch
        <4>3. StartsInv'
          BY <2>1, <2>3, <3>1, KindsApart DEF ControlInv, StartsInv, run, mLatch
        <4> QED
          BY <4>1, <4>2, <4>3 DEF ControlInv
      <3> QED
        BY <1>1, <2>3, <3>1, <3>2
    <2> QED
      BY <1>11, <2>2, <2>3 DEF Latch, SpuriousWakeup
  <1> QED
    BY <1>3, <1>4, <1>5, <1>6, <1>7, <1>8, <1>9, <1>10, <1>11 DEF Next, HelperStep, RunnerStep

-----------------------------------------------------------------------------
(* The iterators.                                                          *)

LEMMA OneOf ==
    ASSUME NEW S
    PROVE  /\ <<>> \in AtMostOne(S)
           /\ \A s \in AtMostOne(S) : s # <<>> => s[1] \in S /\ s = <<s[1]>>
           /\ \A x \in S : <<x>> \in AtMostOne(S) /\ <<x>> # <<>>
           /\ \A x, y : <<x>> = <<y>> => x = y
  <1>1. \A x, y : <<x>> = <<y>> => x = y
    <2> TAKE x, y
    <2> HAVE <<x>> = <<y>>
    <2>1. <<x>>[1] = <<y>>[1]
      OBVIOUS
    <2> QED
      BY <2>1
  <1> QED
    BY <1>1 DEF AtMostOne

\* What an iterator's next() takes from a queue, and what it leaves.
LEMMA PopFacts ==
    ASSUME NEW S, NEW s \in Seq(S)
    PROVE  /\ NextOf(s) \in AtMostOne(S) /\ Popped(s) \in Seq(S)
           /\ NextOf(s) = <<>> <=> s = <<>>
           /\ s = <<>> => Popped(s) = <<>>
           /\ s # <<>> => /\ Len(s) \in Nat /\ Len(s) >= 1
                          /\ NextOf(s) = <<s[1]>> /\ s[1] \in S
                          /\ Len(Popped(s)) = Len(s) - 1
                          /\ \A i \in 1 .. Len(s) - 1 : Popped(s)[i] = s[i + 1]
  <1>1. CASE s = <<>>
    BY <1>1, OneOf DEF NextOf, Popped
  <1>2. CASE s # <<>>
    <2>1. /\ Len(s) \in Nat /\ Len(s) >= 1 /\ Head(s) = s[1] /\ s[1] \in S
          /\ Tail(s) \in Seq(S) /\ Len(Tail(s)) = Len(s) - 1
          /\ \A i \in 1 .. Len(s) - 1 : Tail(s)[i] = s[i + 1]
      BY <1>2
    <2>2. NextOf(s) = <<s[1]>> /\ Popped(s) = Tail(s)
      BY <1>2, <2>1 DEF NextOf, Popped
    <2> QED
      BY <1>2, <2>1, <2>2, OneOf
  <1> QED
    BY <1>1, <1>2

\* What the steps do to the helpers, one by one.
LEMMA FetchInputDoes ==
    ASSUME ControlInv, IterInv, NEW m \in Mappers, FetchInput(m)
    PROVE  /\ hpc[m] = "loop" /\ iter[m] # <<>>
           /\ \A h \in Helpers : /\ hpc'[h] = IF h = m THEN "work" ELSE hpc[h]
                                 /\ iter'[h] = IF h = m THEN NextOf(input) ELSE iter[h]
                                 /\ item'[h] = IF h = m THEN iter[m] ELSE item[h]
           /\ input' = Popped(input)
           /\ UNCHANGED <<run, mapped, threw, tasks, reduced, mLatch, rLatch>>
  BY KindsApart DEF FetchInput, Goto, IterInv, ControlInv, CountsInv

LEMMA MapDoes ==
    ASSUME ControlInv, IterInv, NEW m \in Mappers, Map(m) \/ MapThrows(m)
    PROVE  /\ hpc[m] = "work" /\ UNCHANGED <<run, item, input, tasks, reduced>>
           /\ \A h \in Helpers : /\ hpc'[h] = IF h = m THEN "loop" ELSE hpc[h]
                                 /\ h # m => iter'[h] = iter[h]
           /\ \/ /\ mapped' = mapped \cup {<<m, item[m][1]>>}
                 /\ iter'[m] = iter[m] /\ threw' = threw
              \/ /\ mapped' \in {mapped, mapped \cup {<<m, item[m][1]>>}}
                 /\ iter'[m] = <<>> /\ threw' = TRUE
  BY KindsApart DEF Map, MapThrows, Goto, IterInv, ControlInv, CountsInv

LEMMA FetchTaskDoes ==
    ASSUME ControlInv, IterInv, NEW r \in Reducers, FetchTask(r)
    PROVE  /\ hpc[r] = "loop" /\ iter[r] # <<>>
           /\ \A h \in Helpers : /\ hpc'[h] = IF h = r THEN "work" ELSE hpc[h]
                                 /\ iter'[h] = IF h = r THEN NextOf(tasks) ELSE iter[h]
                                 /\ item'[h] = IF h = r THEN iter[r] ELSE item[h]
           /\ tasks' = Popped(tasks)
           /\ UNCHANGED <<run, input, mapped, threw, reduced, mLatch, rLatch>>
  BY KindsApart DEF FetchTask, Goto, IterInv, ControlInv, CountsInv

LEMMA ReduceDoes ==
    ASSUME ControlInv, IterInv, NEW r \in Reducers, Reduce(r)
    PROVE  /\ hpc[r] = "work" /\ UNCHANGED <<run, iter, item, input, mapped, threw, tasks>>
           /\ \A h \in Helpers : hpc'[h] = IF h = r THEN "loop" ELSE hpc[h]
           /\ reduced' = [k \in Keys |-> IF k \in item[r][1] THEN reduced[k] + 1 ELSE reduced[k]]
  BY KindsApart DEF Reduce, Goto, IterInv, ControlInv, CountsInv

LEMMA CountDownDoes ==
    ASSUME ControlInv, IterInv, NEW h \in Helpers, CountDown(h)
    PROVE  /\ hpc[h] = "loop" /\ iter[h] = <<>> /\ UNCHANGED <<run, iter, item, data>>
           /\ \A u \in Helpers : hpc'[u] = IF u = h THEN "counting" ELSE hpc[u]
  BY DEF CountDown, Goto, IterInv, ControlInv, CountsInv

LEMMA StartMapperDoes ==
    ASSUME ControlInv, IterInv, NEW m \in Mappers, StartMapper(m)
    PROVE  /\ stage = "start mappers" /\ hpc[m] = "none" /\ UNCHANGED <<stage, first, skipped, item, data>>
           /\ \/ UNCHANGED <<hpc, iter>>
              \/ \A h \in Helpers : /\ hpc'[h] = IF h = m THEN "loop" ELSE hpc[h]
                                    /\ iter'[h] = IF h = m THEN first ELSE iter[h]
  BY KindsApart DEF StartMapper, Goto, IterInv, ControlInv, CountsInv, StartsInv

LEMMA StartReducerDoes ==
    ASSUME ControlInv, IterInv, NEW r \in Reducers, StartReducer(r)
    PROVE  /\ stage = "start reducers" /\ hpc[r] = "none"
           /\ UNCHANGED <<stage, first, skipped, item, input, mapped, threw, reduced>>
           /\ \/ UNCHANGED <<hpc, iter, tasks>>
              \/ /\ \A h \in Helpers : /\ hpc'[h] = IF h = r THEN "loop" ELSE hpc[h]
                                       /\ iter'[h] = IF h = r THEN NextOf(tasks) ELSE iter[h]
                 /\ tasks' = Popped(tasks)
  BY KindsApart DEF StartReducer, Goto, IterInv, ControlInv, CountsInv, StartsInv

\* The other steps do nothing to the helpers, nor to the data but in the shuffle.
LEMMA OthersDo ==
    ASSUME WaitMappers \/ Shuffle \/ WaitReducers \/ Finish \/ Latch \/ SpuriousWakeup
    PROVE  /\ UNCHANGED <<hpc, iter, item, first, input, mapped, threw, reduced>>
           /\ Shuffle \/ UNCHANGED <<tasks, skipped>>
  BY DEF WaitMappers, Shuffle, WaitReducers, Finish, Latch, SpuriousWakeup, helper, data, run

LEMMA IterKeeps ==
    ASSUME ControlInv, IterInv, InputInv, TasksInv, Next
    PROVE  IterInv'
  <1> DEFINE T == AtMostOne(Inputs) \cup AtMostOne(Tasks)
  <1>1. /\ NextOf(input) \in AtMostOne(Inputs) /\ NextOf(tasks) \in AtMostOne(Tasks)
        /\ first \in AtMostOne(Inputs)
        /\ \A S : <<>> \in AtMostOne(S)
    BY PopFacts, OneOf DEF InputInv, TasksInv
  <1>2. iter \in [Helpers -> T] /\ item \in [Helpers -> T]
    BY DEF IterInv
  <1>3. ASSUME NEW m \in Mappers, FetchInput(m)
        PROVE  IterInv'
    <2>1. iter' \in [Helpers -> T] /\ item' \in [Helpers -> T]
      BY <1>1, <1>2, <1>3, KindsApart DEF FetchInput
    <2> QED
      BY <1>1, <1>3, <2>1, FetchInputDoes, KindsApart DEF IterInv
  <1>4. ASSUME NEW m \in Mappers, Map(m) \/ MapThrows(m)
        PROVE  IterInv'
    <2>1. iter' \in [Helpers -> T] /\ item' \in [Helpers -> T]
      BY <1>1, <1>2, <1>4, KindsApart DEF Map, MapThrows
    <2> QED
      BY <1>1, <1>4, <2>1, MapDoes, KindsApart DEF IterInv
  <1>5. ASSUME NEW r \in Reducers, FetchTask(r)
        PROVE  IterInv'
    <2>1. iter' \in [Helpers -> T] /\ item' \in [Helpers -> T]
      BY <1>1, <1>2, <1>5, KindsApart DEF FetchTask
    <2> QED
      BY <1>1, <1>5, <2>1, FetchTaskDoes, KindsApart DEF IterInv
  <1>6. ASSUME NEW r \in Reducers, Reduce(r)
        PROVE  IterInv'
    BY <1>6, ReduceDoes, KindsApart DEF IterInv
  <1>7. ASSUME NEW h \in Helpers, CountDown(h)
        PROVE  IterInv'
    BY <1>7, CountDownDoes DEF IterInv
  <1>8. ASSUME NEW m \in Mappers, StartMapper(m)
        PROVE  IterInv'
    <2>1. iter' \in [Helpers -> T]
      BY <1>1, <1>2, <1>8, KindsApart DEF StartMapper
    <2>2. item' = item
      BY <1>8, StartMapperDoes
    <2>3. CASE UNCHANGED <<hpc, iter>>
      BY <2>2, <2>3 DEF IterInv
    <2>4. CASE \A h \in Helpers : /\ hpc'[h] = IF h = m THEN "loop" ELSE hpc[h]
                                  /\ iter'[h] = IF h = m THEN first ELSE iter[h]
      BY <1>1, <2>1, <2>2, <2>4, KindsApart DEF IterInv
    <2> QED
      BY <1>8, <2>3, <2>4, StartMapperDoes
  <1>9. ASSUME NEW r \in Reducers, StartReducer(r)
        PROVE  IterInv'
    <2>1. iter' \in [Helpers -> T]
      BY <1>1, <1>2, <1>9, KindsApart DEF StartReducer
    <2>2. item' = item
      BY <1>9, StartReducerDoes
    <2>3. CASE UNCHANGED <<hpc, iter>>
      BY <2>2, <2>3 DEF IterInv
    <2>4. CASE \A h \in Helpers : /\ hpc'[h] = IF h = r THEN "loop" ELSE hpc[h]
                                  /\ iter'[h] = IF h = r THEN NextOf(tasks) ELSE iter[h]
      BY <1>1, <2>1, <2>2, <2>4, KindsApart DEF IterInv
    <2> QED
      BY <1>9, <2>3, <2>4, StartReducerDoes
  <1>10. CASE WaitMappers \/ Shuffle \/ WaitReducers \/ Finish \/ Latch \/ SpuriousWakeup
    BY <1>10, OthersDo DEF IterInv
  <1>11. \A h \in Helpers : (FetchInput(h) \/ Map(h) \/ MapThrows(h) => h \in Mappers)
                           /\ (FetchTask(h) \/ Reduce(h) => h \in Reducers)
    BY DEF FetchInput, Map, MapThrows, FetchTask, Reduce
  <1> QED
    BY <1>3, <1>4, <1>5, <1>6, <1>7, <1>8, <1>9, <1>10, <1>11 DEF Next, HelperStep, RunnerStep

-----------------------------------------------------------------------------
(* The input.                                                              *)

\* The steps that do not concern the mappers and the input.
LEMMA InputFrame ==
    ASSUME InputInv, SoleInv, UNCHANGED <<first, input, mapped, threw>>,
           \A m \in Mappers : /\ iter'[m] = iter[m] /\ item'[m] = item[m]
                              /\ hpc'[m] # hpc[m] => hpc[m] = "loop" /\ hpc'[m] = "counting"
    PROVE  InputInv' /\ SoleInv'
  <1>0. \A m \in Mappers : /\ iter'[m] = iter[m] /\ item'[m] = item[m]
                           /\ (hpc'[m] = "work") <=> (hpc[m] = "work")
                           /\ (hpc'[m] = "none") <=> (hpc[m] = "none")
    OBVIOUS
  <1>1. \A x \in Inputs, m \in Mappers : Has(m, x)' <=> Has(m, x)
    <2> TAKE x \in Inputs, m \in Mappers
    <2> QED
      BY <1>0 DEF Has
  <1>2. InputInv'
    BY <1>0, <1>1 DEF InputInv
  <1>3. SoleInv'
    BY <1>1 DEF SoleInv
  <1> QED
    BY <1>2, <1>3

LEMMA FetchInputKeeps ==
    ASSUME ControlInv, IterInv, InputInv, SoleInv, NEW m \in Mappers, FetchInput(m)
    PROVE  InputInv' /\ SoleInv'
  <1>1. /\ hpc[m] = "loop" /\ iter[m] # <<>>
        /\ \A h \in Mappers : /\ hpc'[h] = IF h = m THEN "work" ELSE hpc[h]
                              /\ iter'[h] = IF h = m THEN NextOf(input) ELSE iter[h]
                              /\ item'[h] = IF h = m THEN iter[m] ELSE item[h]
        /\ input' = Popped(input) /\ UNCHANGED <<first, mapped, threw>>
    BY FetchInputDoes, KindsApart DEF run
  <1>2. /\ Popped(input) \in Seq(Inputs) /\ (NextOf(input) = <<>> <=> input = <<>>)
        /\ input = <<>> => Popped(input) = <<>>
    BY PopFacts DEF InputInv
  <1>3. \A h \in Mappers, x \in Inputs : Has(h, x)' => Has(h, x) \/ (h = m /\ NextOf(input) = <<x>>)
    BY <1>1 DEF Has
  <1>4. \A h \in Mappers, x \in Inputs : Has(h, x) => Has(h, x)'
    BY <1>1 DEF Has
  <1>5. InputInv'
    BY <1>1, <1>2, <1>4 DEF InputInv
  <1>6. CASE input = <<>>
    <2>1. input' = <<>> /\ Len(input') = 0 /\ NextOf(input) = <<>>
      BY <1>1, <1>2, <1>6
    <2>2. \A h \in Mappers, x \in Inputs : Has(h, x)' => Has(h, x)
      BY <1>3, <2>1, OneOf
    <2>3. SoleInv'
      BY <1>1, <2>1, <2>2 DEF SoleInv
    <2> QED
      BY <1>5, <2>3
  <1>7. CASE input # <<>>
    <2>1. /\ Len(input) \in Nat /\ Len(input) >= 1
          /\ NextOf(input) = <<input[1]>> /\ Len(input') = Len(input) - 1
          /\ \A i \in 1 .. Len(input) - 1 : input'[i] = input[i + 1]
      BY <1>1, <1>7, PopFacts DEF InputInv
    <2>2. \A i \in 1 .. Len(input') : /\ i \in 1 .. Len(input) - 1 /\ i + 1 \in 1 .. Len(input)
                                      /\ i + 1 # 1 /\ input'[i] = input[i + 1]
      BY <2>1
    <2>3. \A i, j \in 1 .. Len(input') : input'[i] = input'[j] => i = j
      <3> TAKE i, j \in 1 .. Len(input')
      <3>1. i + 1 \in 1 .. Len(input) /\ j + 1 \in 1 .. Len(input)
            /\ input'[i] = input[i + 1] /\ input'[j] = input[j + 1] /\ i \in Int /\ j \in Int
        BY <2>1, <2>2
      <3>2. input[i + 1] = input[j + 1] => i + 1 = j + 1
        BY <3>1 DEF SoleInv
      <3> QED
        BY <3>1, <3>2
    <2>4. 1 \in 1 .. Len(input)
      BY <2>1
    <2>5. ASSUME NEW x \in Inputs, first # <<x>>, NEW h \in Mappers, NEW o \in Mappers,
                 Has(h, x)', Has(o, x)'
          PROVE  h = o
      <3>1. CASE x = input[1]
        <4>1. ~Has(h, x) /\ ~Has(o, x)
          BY <2>4, <2>5, <3>1 DEF SoleInv
        <4> QED
          BY <1>3, <2>5, <4>1
      <3>2. CASE x # input[1]
        <4>1. Has(h, x) /\ Has(o, x)
          BY <1>3, <2>1, <2>5, <3>2, OneOf
        <4> QED
          BY <2>5, <4>1 DEF SoleInv
      <3> QED
        BY <3>1, <3>2
    <2>6. ASSUME NEW x \in Inputs, first # <<x>>, NEW h \in Mappers,
                 NEW i \in 1 .. Len(input'), input'[i] = x
          PROVE  ~Has(h, x)'
      <3>1. /\ i + 1 \in 1 .. Len(input) /\ i + 1 # 1 /\ input[i + 1] = x
        BY <2>2, <2>6
      <3>2. x # input[1] /\ ~Has(h, x)
        BY <2>4, <2>6, <3>1 DEF SoleInv
      <3> QED
        BY <1>3, <2>1, <3>2, OneOf
    <2>7. SoleInv'
      BY <1>1, <2>3, <2>5, <2>6 DEF SoleInv
    <2> QED
      BY <1>5, <2>7
  <1> QED
    BY <1>6, <1>7

LEMMA MapKeeps ==
    ASSUME ControlInv, IterInv, InputInv, SoleInv, NEW m \in Mappers, Map(m) \/ MapThrows(m)
    PROVE  InputInv' /\ SoleInv'
  <1>1. /\ hpc[m] = "work" /\ UNCHANGED <<first, item, input>>
        /\ \A h \in Mappers : /\ hpc'[h] = IF h = m THEN "loop" ELSE hpc[h]
                              /\ h # m => iter'[h] = iter[h]
        /\ mapped' \in {mapped, mapped \cup {<<m, item[m][1]>>}}
        /\ \/ /\ mapped' = mapped \cup {<<m, item[m][1]>>}
              /\ iter'[m] = iter[m] /\ threw' = threw
           \/ iter'[m] = <<>> /\ threw' = TRUE
    BY MapDoes, KindsApart DEF run
  <1>2. PICK y \in Inputs : item[m] = <<y>> /\ item[m][1] = y
    BY <1>1, OneOf, KindsApart DEF IterInv
  <1>3. mapped \subseteq mapped' /\ mapped' \subseteq mapped \cup {<<m, y>>}
        /\ mapped' \subseteq Mappers \X Inputs
    BY <1>1, <1>2 DEF InputInv
  <1>4. \A h \in Mappers, x \in Inputs : <<h, x>> \in mapped' => <<h, x>> \in mapped \/ (h = m /\ x = y)
    BY <1>3
  <1>5. \A h \in Mappers, x \in Inputs : Has(h, x)' => Has(h, x)
    BY <1>1, <1>2, <1>4, OneOf DEF Has
  <1>6. ASSUME NEW h \in Mappers, NEW x \in Inputs, Has(h, x)
        PROVE  threw' \/ Has(h, x)'
    <2>1. CASE h # m
      BY <1>1, <1>3, <1>6, <2>1 DEF Has
    <2>2. CASE h = m /\ threw' # TRUE
      <3>1. iter'[m] = iter[m] /\ <<m, y>> \in mapped'
        BY <1>1, <1>2, <2>2
      <3>2. item[m] = <<x>> => x = y
        BY <1>2, OneOf
      <3> QED
        BY <1>1, <1>3, <1>6, <2>2, <3>1, <3>2 DEF Has
    <2> QED
      BY <2>1, <2>2
  <1>7. threw => threw'
    BY <1>1
  <1>8. InputInv'
    BY <1>1, <1>3, <1>6, <1>7 DEF InputInv
  <1>9. SoleInv'
    BY <1>1, <1>5 DEF SoleInv
  <1> QED
    BY <1>8, <1>9

LEMMA StartMapperKeeps ==
    ASSUME ControlInv, IterInv, InputInv, SoleInv, NEW m \in Mappers, StartMapper(m)
    PROVE  InputInv' /\ SoleInv'
  <1>1. /\ hpc[m] = "none" /\ UNCHANGED <<first, item, input, mapped, threw>>
        /\ \/ UNCHANGED <<hpc, iter>>
           \/ \A h \in Mappers : /\ hpc'[h] = IF h = m THEN "loop" ELSE hpc[h]
                                 /\ iter'[h] = IF h = m THEN first ELSE iter[h]
    BY StartMapperDoes, KindsApart DEF data
  <1>2. CASE UNCHANGED <<hpc, iter>>
    BY <1>1, <1>2, InputFrame
  <1>3. CASE \A h \in Mappers : /\ hpc'[h] = IF h = m THEN "loop" ELSE hpc[h]
                                /\ iter'[h] = IF h = m THEN first ELSE iter[h]
    <2>1. \A h \in Mappers, x \in Inputs : Has(h, x)' => Has(h, x) \/ first = <<x>>
      BY <1>1, <1>3 DEF Has
    <2>2. \A h \in Mappers, x \in Inputs : h # m /\ Has(h, x) => Has(h, x)'
      BY <1>1, <1>3 DEF Has
    <2>3. \A x \in Inputs : first = <<x>> => Has(m, x)'
      BY <1>1, <1>3 DEF Has
    <2>4. InputInv'
      BY <1>1, <1>3, <2>2, <2>3 DEF InputInv
    <2>5. SoleInv'
      BY <1>1, <2>1 DEF SoleInv
    <2> QED
      BY <2>4, <2>5
  <1> QED
    BY <1>1, <1>2, <1>3

LEMMA InputKeeps ==
    ASSUME ControlInv, IterInv, InputInv, SoleInv, Next
    PROVE  InputInv' /\ SoleInv'
  <1>1. ASSUME NEW r \in Reducers, FetchTask(r) \/ Reduce(r) \/ StartReducer(r)
        PROVE  InputInv' /\ SoleInv'
    <2>1. /\ UNCHANGED <<first, input, mapped, threw>>
          /\ \A m \in Mappers : iter'[m] = iter[m] /\ item'[m] = item[m] /\ hpc'[m] = hpc[m]
      <3>1. CASE FetchTask(r)
        BY <3>1, FetchTaskDoes, KindsApart DEF run
      <3>2. CASE Reduce(r)
        BY <3>2, ReduceDoes, KindsApart DEF run
      <3>3. CASE StartReducer(r)
        BY <3>3, StartReducerDoes, KindsApart
      <3> QED
        BY <1>1, <3>1, <3>2, <3>3
    <2> QED
      BY <2>1, InputFrame
  <1>2. ASSUME NEW h \in Helpers, CountDown(h)
        PROVE  InputInv' /\ SoleInv'
    <2>1. /\ UNCHANGED <<first, input, mapped, threw>>
          /\ \A m \in Mappers : /\ iter'[m] = iter[m] /\ item'[m] = item[m]
                                /\ hpc'[m] # hpc[m] => hpc[m] = "loop" /\ hpc'[m] = "counting"
      BY <1>2, CountDownDoes, KindsApart DEF run, data
    <2> QED
      BY <2>1, InputFrame
  <1>3. CASE WaitMappers \/ Shuffle \/ WaitReducers \/ Finish \/ Latch \/ SpuriousWakeup
    BY <1>3, OthersDo, InputFrame
  <1>4. \A h \in Helpers : (FetchInput(h) \/ Map(h) \/ MapThrows(h) => h \in Mappers)
                          /\ (FetchTask(h) \/ Reduce(h) => h \in Reducers)
    BY DEF FetchInput, Map, MapThrows, FetchTask, Reduce
  <1> QED
    BY <1>1, <1>2, <1>3, <1>4, FetchInputKeeps, MapKeeps, StartMapperKeeps
       DEF Next, HelperStep, RunnerStep
-----------------------------------------------------------------------------
(* The tasks.                                                              *)

Early(st) == st \in {"start mappers", "wait mappers"}

\* The steps that leave the reducers, their tasks and the queue alone.
LEMMA TasksFrame ==
    ASSUME TasksInv, UNCHANGED <<tasks, reduced>>, Early(stage') => Early(stage),
           \A r \in Reducers : /\ iter'[r] = iter[r] /\ item'[r] = item[r]
                               /\ hpc'[r] # hpc[r] => hpc[r] = "loop" /\ hpc'[r] = "counting"
    PROVE  TasksInv' /\ \A k \in Keys : Somewhere(k)' <=> Somewhere(k)
  <1>1. \A r \in Reducers : /\ iter'[r] = iter[r] /\ item'[r] = item[r]
                            /\ (hpc'[r] = "work") <=> (hpc[r] = "work")
                            /\ (hpc'[r] = "none") <=> (hpc[r] = "none")
    OBVIOUS
  <1>2. \A k \in Keys, r \in Reducers :
           (Ahead(r, k)' <=> Ahead(r, k)) /\ (InHand(r, k)' <=> InHand(r, k))
    BY <1>1 DEF Ahead, InHand
  <1>3. ASSUME NEW k \in Keys PROVE OnePlace(k)'
    <2>1. OnePlace(k) /\ tasks' = tasks /\ reduced' = reduced
      BY DEF TasksInv
    <2> QED
      BY <1>2, <2>1 DEF OnePlace
  <1>4. TasksInv'
    BY <1>1, <1>3 DEF TasksInv, Early
  <1> QED
    BY <1>2, <1>4 DEF Somewhere

\* The reducer r takes the task at the head of the queue for its next one, and
\* goes to work on what was its next.
LEMMA TaskPopped ==
    ASSUME TasksInv, NEW r \in Reducers, UNCHANGED <<stage, reduced>>, tasks' = Popped(tasks),
           iter'[r] = NextOf(tasks),
           \A k \in Keys : ~InHand(r, k) /\ (InHand(r, k)' <=> Ahead(r, k)),
           \A o \in Reducers : o # r => /\ hpc'[o] = hpc[o] /\ iter'[o] = iter[o]
                                        /\ item'[o] = item[o]
    PROVE  TasksInv' /\ \A k \in Keys : Somewhere(k)' <=> Somewhere(k)
  <1>1. /\ tasks' \in Seq(Tasks) /\ (NextOf(tasks) = <<>> <=> tasks = <<>>)
        /\ tasks = <<>> => tasks' = <<>>
    BY PopFacts DEF TasksInv
  <1>2. \A k \in Keys, o \in Reducers : o # r =>
           (Ahead(o, k)' <=> Ahead(o, k)) /\ (InHand(o, k)' <=> InHand(o, k))
    BY DEF Ahead, InHand
  <1>3. /\ \A o \in Reducers : hpc'[o] # "none" /\ iter'[o] = <<>> => tasks' = <<>>
        /\ Early(stage') => tasks' = <<>>
    BY <1>1 DEF TasksInv, Early
  <1>4. CASE tasks = <<>>
    <2>1. \A k \in Keys : ~Ahead(r, k)'
      BY <1>1, <1>4 DEF Ahead
    <2>2. Len(tasks) = 0 /\ Len(tasks') = 0
      BY <1>1, <1>4
    <2>3. \A k \in Keys : OnePlace(k)'
      BY <1>2, <2>1, <2>2 DEF TasksInv, OnePlace
    <2>4. TasksInv'
      BY <1>1, <1>3, <2>3 DEF TasksInv, Early
    <2>5. ASSUME NEW k \in Keys PROVE Somewhere(k)' <=> Somewhere(k)
      BY <1>2, <2>1, <2>2 DEF Somewhere
    <2> QED
      BY <2>4, <2>5
  <1>5. CASE tasks # <<>>
    <2>1. /\ Len(tasks) \in Nat /\ Len(tasks) >= 1 /\ Len(tasks') = Len(tasks) - 1
          /\ NextOf(tasks) = <<tasks[1]>>
          /\ \A i \in 1 .. Len(tasks) - 1 : tasks'[i] = tasks[i + 1]
      BY <1>5, PopFacts DEF TasksInv
    <2>2. \A i \in 1 .. Len(tasks') : /\ i + 1 \in 1 .. Len(tasks) /\ i + 1 # 1
                                      /\ tasks'[i] = tasks[i + 1] /\ i \in Int
      BY <2>1
    <2>3. 1 \in 1 .. Len(tasks)
      BY <2>1
    <2>4. \A k \in Keys : Ahead(r, k)' <=> k \in tasks[1]
      BY <2>1 DEF Ahead
    <2>5. ASSUME NEW k \in Keys PROVE OnePlace(k)'
      <3>0. OnePlace(k)
        BY DEF TasksInv
      <3>1. ASSUME NEW i \in 1 .. Len(tasks'), k \in tasks'[i]
            PROVE  /\ k \in tasks[i + 1] /\ i + 1 \in 1 .. Len(tasks) /\ k \notin tasks[1]
                   /\ reduced[k] = 0 /\ \A o \in Reducers : ~Ahead(o, k) /\ ~InHand(o, k)
        BY <2>2, <2>3, <3>0, <3>1 DEF OnePlace
      <3>2. \A i, j \in 1 .. Len(tasks') : k \in tasks'[i] /\ k \in tasks'[j] => i = j
        <4> TAKE i, j \in 1 .. Len(tasks')
        <4> HAVE k \in tasks'[i] /\ k \in tasks'[j]
        <4>1. i + 1 = j + 1
          BY <3>0, <3>1 DEF OnePlace
        <4> QED
          BY <2>2, <4>1
      <3>3. \A i \in 1 .. Len(tasks') : k \in tasks'[i] =>
               reduced'[k] = 0 /\ \A o \in Reducers : ~Ahead(o, k)' /\ ~InHand(o, k)'
        BY <1>2, <2>4, <3>1
      <3>4. k \in tasks[1] =>
               /\ reduced[k] = 0 /\ \A o \in Reducers : ~Ahead(o, k) /\ ~InHand(o, k)
        BY <2>3, <3>0 DEF OnePlace
      <3>5. \A o \in Reducers : Ahead(o, k)' => reduced'[k] = 0 /\ ~InHand(o, k)'
        BY <1>2, <2>4, <3>0, <3>4 DEF OnePlace
      <3>6. \A o \in Reducers : InHand(o, k)' => reduced'[k] = 0
        BY <1>2, <3>0 DEF OnePlace
      <3>7. \A q, o \in Reducers :
               (Ahead(q, k)' \/ InHand(q, k)') /\ (Ahead(o, k)' \/ InHand(o, k)') => q = o
        BY <1>2, <2>4, <3>0, <3>4 DEF OnePlace
      <3> QED
        BY <3>2, <3>3, <3>5, <3>6, <3>7 DEF OnePlace
    <2>6. TasksInv'
      BY <1>1, <1>3, <2>5 DEF TasksInv, Early
    <2>7. ASSUME NEW k \in Keys PROVE Somewhere(k)' <=> Somewhere(k)
      <3>1. (\E i \in 1 .. Len(tasks) : k \in tasks[i])
               <=> (k \in tasks[1] \/ \E i \in 1 .. Len(tasks') : k \in tasks'[i])
        <4>1. \A i \in 1 .. Len(tasks) : i # 1 =>
                 i - 1 \in 1 .. Len(tasks') /\ tasks'[i - 1] = tasks[i]
          BY <2>1
        <4> QED
          BY <2>2, <2>3, <4>1
      <3>2. (\E o \in Reducers : Ahead(o, k)' \/ InHand(o, k)')
               <=> (k \in tasks[1] \/ \E o \in Reducers : Ahead(o, k) \/ InHand(o, k))
        BY <1>2, <2>4
      <3> QED
        BY <3>1, <3>2 DEF Somewhere
    <2> QED
      BY <2>6, <2>7
  <1> QED
    BY <1>4, <1>5

LEMMA TasksFetched ==
    ASSUME ControlInv, IterInv, TasksInv, NEW r \in Reducers, FetchTask(r)
    PROVE  TasksInv' /\ \A k \in Keys : Somewhere(k)' <=> Somewhere(k)
  <1>1. /\ hpc[r] = "loop" /\ iter[r] # <<>> /\ tasks' = Popped(tasks)
        /\ hpc'[r] = "work" /\ iter'[r] = NextOf(tasks) /\ item'[r] = iter[r]
        /\ \A o \in Reducers : o # r => /\ hpc'[o] = hpc[o] /\ iter'[o] = iter[o]
                                        /\ item'[o] = item[o]
        /\ UNCHANGED <<stage, reduced>>
    BY FetchTaskDoes, KindsApart DEF run
  <1>2. \A k \in Keys : ~InHand(r, k) /\ (InHand(r, k)' <=> Ahead(r, k))
    BY <1>1 DEF InHand, Ahead
  <1> QED
    BY <1>1, <1>2, TaskPopped

LEMMA TasksStarted ==
    ASSUME ControlInv, IterInv, TasksInv, NEW r \in Reducers, StartReducer(r)
    PROVE  TasksInv' /\ \A k \in Keys : Somewhere(k)' <=> Somewhere(k)
  <1>1. /\ hpc[r] = "none" /\ iter[r] = <<>> /\ UNCHANGED <<stage, item, reduced>>
        /\ \/ UNCHANGED <<hpc, iter, tasks>>
           \/ /\ hpc'[r] = "loop" /\ iter'[r] = NextOf(tasks) /\ tasks' = Popped(tasks)
              /\ \A o \in Reducers : o # r => hpc'[o] = hpc[o] /\ iter'[o] = iter[o]
    BY StartReducerDoes, KindsApart DEF IterInv
  <1>2. CASE UNCHANGED <<hpc, iter, tasks>>
    BY <1>1, <1>2, TasksFrame DEF Early
  <1>3. CASE /\ hpc'[r] = "loop" /\ iter'[r] = NextOf(tasks) /\ tasks' = Popped(tasks)
             /\ \A o \in Reducers : o # r => hpc'[o] = hpc[o] /\ iter'[o] = iter[o]
    <2>1. \A k \in Keys : ~InHand(r, k) /\ (InHand(r, k)' <=> Ahead(r, k))
      BY <1>1, <1>3 DEF InHand, Ahead
    <2> QED
      BY <1>1, <1>3, <2>1, TaskPopped
  <1> QED
    BY <1>1, <1>2, <1>3

\* What a reducer was at work on is then reduced, and was not before.
LEMMA TasksReduced ==
    ASSUME ControlInv, IterInv, TasksInv, NEW r \in Reducers, Reduce(r)
    PROVE  TasksInv' /\ \A k \in Keys : Somewhere(k)' <=> Somewhere(k)
  <1>1. /\ hpc[r] = "work" /\ hpc'[r] = "loop" /\ UNCHANGED <<stage, iter, item, tasks>>
        /\ \A o \in Reducers : o # r => hpc'[o] = hpc[o]
        /\ \A k \in Keys : reduced'[k] = IF InHand(r, k) THEN reduced[k] + 1 ELSE reduced[k]
        /\ reduced' = [k \in Keys |-> IF InHand(r, k) THEN reduced[k] + 1 ELSE reduced[k]]
    BY ReduceDoes, KindsApart DEF run, InHand
  <1>2. /\ \A k \in Keys, o \in Reducers : Ahead(o, k)' <=> Ahead(o, k)
        /\ \A k \in Keys, o \in Reducers : o # r => (InHand(o, k)' <=> InHand(o, k))
        /\ \A k \in Keys : ~InHand(r, k)'
    BY <1>1 DEF Ahead, InHand
  <1>3. \A k \in Keys : InHand(r, k) => reduced[k] = 0
    BY DEF TasksInv, OnePlace
  <1>4. reduced' \in [Keys -> 0 .. 1]
    <2>1. \A k \in Keys : reduced[k] \in 0 .. 1
      BY DEF TasksInv
    <2>2. \A k \in Keys : (IF InHand(r, k) THEN reduced[k] + 1 ELSE reduced[k]) \in 0 .. 1
      BY <1>3, <2>1
    <2> QED
      BY <1>1, <2>2
  <1>5. ASSUME NEW k \in Keys PROVE OnePlace(k)'
    <2>1. OnePlace(k)
      BY DEF TasksInv
    <2>2. CASE InHand(r, k)
      <3>1. /\ \A i \in 1 .. Len(tasks) : k \notin tasks[i]
            /\ \A o \in Reducers : ~Ahead(o, k) /\ (o # r => ~InHand(o, k))
        BY <2>1, <2>2 DEF OnePlace
      <3> QED
        BY <1>1, <1>2, <3>1 DEF OnePlace
    <2>3. CASE ~InHand(r, k)
      BY <1>1, <1>2, <2>1, <2>3 DEF OnePlace
    <2> QED
      BY <2>2, <2>3
  <1>6. TasksInv'
    BY <1>1, <1>4, <1>5 DEF TasksInv
  <1>7. ASSUME NEW k \in Keys PROVE Somewhere(k)' <=> Somewhere(k)
    <2>1. CASE InHand(r, k)
      BY <1>1, <1>3, <2>1 DEF Somewhere
    <2>2. CASE ~InHand(r, k)
      <3>1. reduced'[k] = reduced[k]
        BY <1>1, <2>2
      <3>2. \A o \in Reducers : InHand(o, k)' <=> InHand(o, k)
        BY <1>2, <2>2
      <3> QED
        BY <1>1, <1>2, <3>1, <3>2 DEF Somewhere
    <2> QED
      BY <2>1, <2>2
  <1> QED
    BY <1>6, <1>7
-----------------------------------------------------------------------------
(* The shuffle.                                                            *)

\* The rank of a number in a set of them counts the set out, from 1.
RankIn(S, s) == Cardinality({t \in S : t <= s})

LEMMA RankFacts ==
    ASSUME NEW S \in SUBSET Nat, IsFiniteSet(S)
    PROVE  /\ Cardinality(S) \in Nat
           /\ \A s \in S : RankIn(S, s) \in 1 .. Cardinality(S)
           /\ \A s, u \in S : RankIn(S, s) = RankIn(S, u) => s = u
           /\ \A i \in 1 .. Cardinality(S) : \E s \in S : RankIn(S, s) = i
  <1> DEFINE UpTo(s) == {t \in S : t <= s}
  <1>1. Cardinality(S) \in Nat
    BY FS_CardinalityType
  <1>2. ASSUME NEW s \in S
        PROVE  IsFiniteSet(UpTo(s)) /\ RankIn(S, s) \in 1 .. Cardinality(S)
    <2>1. UpTo(s) \in SUBSET S /\ s \in UpTo(s)
      OBVIOUS
    <2>2. IsFiniteSet(UpTo(s)) /\ Cardinality(UpTo(s)) <= Cardinality(S)
      BY <2>1, FS_Subset
    <2>3. Cardinality(UpTo(s)) \in Nat /\ Cardinality(UpTo(s)) # 0
      BY <2>1, <2>2, FS_CardinalityType, FS_EmptySet
    <2> QED
      BY <1>1, <2>2, <2>3 DEF RankIn
  <1>3. ASSUME NEW s \in S, NEW u \in S, s < u
        PROVE  RankIn(S, s) # RankIn(S, u)
    <2>1. UpTo(s) \in SUBSET UpTo(u) /\ u \in UpTo(u) /\ u \notin UpTo(s)
      <3>1. s \in Nat /\ u \in Nat /\ \A t \in S : t \in Nat
        OBVIOUS
      <3>2. \A t \in S : t <= s => t <= u
        BY <1>3, <3>1
      <3>3. u <= u /\ ~(u <= s)
        BY <1>3, <3>1
      <3> QED
        BY <3>2, <3>3
    <2>2. Cardinality(UpTo(u)) = Cardinality(UpTo(s)) => UpTo(u) = UpTo(s)
      BY <1>2, <2>1, FS_Subset
    <2> QED
      BY <2>1, <2>2 DEF RankIn
  <1>4. \A s, u \in S : RankIn(S, s) = RankIn(S, u) => s = u
    <2>1. \A s, u \in S : s < u \/ u < s \/ s = u
      OBVIOUS
    <2> QED
      BY <1>3, <2>1
  <1>5. \A i \in 1 .. Cardinality(S) : \E s \in S : RankIn(S, s) = i
    <2> DEFINE I == 1 .. Cardinality(S)
               f == [s \in S |-> RankIn(S, s)]
    <2>1. f \in Injection(S, I)
      <3>1. f \in [S -> I]
        BY <1>2
      <3>2. \A s, u \in S : f[s] = f[u] => s = u
        BY <1>4
      <3> HIDE DEF f, I
      <3> QED
        BY <3>1, <3>2 DEF Injection, IsInjective
    <2>2. IsFiniteSet(I) /\ Cardinality(I) = Cardinality(S)
      <3>1. IsFiniteSet(I) /\ Cardinality(I) = IF 1 > Cardinality(S) THEN 0 ELSE Cardinality(S) - 1 + 1
        BY <1>1, FS_Interval
      <3> QED
        BY <1>1, <3>1
    <2>3. f \in Surjection(S, I)
      <3> HIDE DEF f, I
      <3> QED
        BY <2>1, <2>2, FS_Injection
    <2>4. \A i \in I : \E s \in S : f[s] = i
      <3> HIDE DEF f, I
      <3> QED
        BY <2>3 DEF Surjection
    <2> QED
      BY <2>4
  <1> QED
    BY <1>1, <1>2, <1>4, <1>5

\* The tasks have each of the keys, and in one task only.
LEMMA ShardTasksFacts ==
    ASSUME NEW K \in SUBSET Keys
    PROVE  /\ ShardTasks(K) \in Seq(Tasks)
           /\ \A i, j \in 1 .. Len(ShardTasks(K)), k \in Keys :
                k \in ShardTasks(K)[i] /\ k \in ShardTasks(K)[j] => i = j
           /\ \A k \in Keys : (\E i \in 1 .. Len(ShardTasks(K)) : k \in ShardTasks(K)[i]) <=> k \in K
  <1> DEFINE S == {ShardOf[k] : k \in K}
             n == Cardinality(S)
             Pick(i) == CHOOSE s \in S : RankIn(S, s) = i
             T == [i \in 1 .. n |-> TaskOf(K, Pick(i))]
  <1>1. S \in SUBSET Nat /\ IsFiniteSet(S)
    <2> DEFINE I == 0 .. NumShards - 1
    <2>1. S \in SUBSET I
      BY DataAssumption
    <2>2. IsFiniteSet(I) /\ I \subseteq Nat
      BY DataAssumption, FS_Interval
    <2> HIDE DEF S, I
    <2> QED
      BY <2>1, <2>2, FS_Subset
  <1>2. /\ n \in Nat
        /\ \A s \in S : RankIn(S, s) \in 1 .. n
        /\ \A s, u \in S : RankIn(S, s) = RankIn(S, u) => s = u
        /\ \A i \in 1 .. n : \E s \in S : RankIn(S, s) = i
    BY <1>1, RankFacts
  <1>3. ShardTasks(K) = T
    BY DEF ShardTasks, RankIn
  <1>4. \A i \in 1 .. n : Pick(i) \in S /\ RankIn(S, Pick(i)) = i
    BY <1>2
  <1>5. ASSUME NEW s \in S PROVE s = Pick(RankIn(S, s))
    <2>1. RankIn(S, s) \in 1 .. n
      BY <1>2
    <2>2. Pick(RankIn(S, s)) \in S /\ RankIn(S, Pick(RankIn(S, s))) = RankIn(S, s)
      BY <1>4, <2>1
    <2> HIDE DEF Pick, S
    <2> QED
      BY <1>2, <2>2
  <1>6. \A k \in K : ShardOf[k] \in S
    OBVIOUS
  <1> HIDE DEF S, n, Pick
  <1>7. /\ \A i \in 1 .. n : T[i] = TaskOf(K, Pick(i))
        /\ \A i \in 1 .. n : TaskOf(K, Pick(i)) \in Tasks
    BY DEF TaskOf, Tasks
  <1>8. T \in Seq(Tasks) /\ Len(T) = n
    BY <1>2, <1>7
  <1>9. ASSUME NEW i \in 1 .. n, NEW j \in 1 .. n, NEW k \in Keys, k \in T[i], k \in T[j]
        PROVE  i = j
    <2>1. ShardOf[k] = Pick(i) /\ ShardOf[k] = Pick(j)
      BY <1>7, <1>9 DEF TaskOf
    <2> QED
      BY <1>4, <2>1
  <1>10. ASSUME NEW k \in Keys
         PROVE  (\E i \in 1 .. n : k \in T[i]) <=> k \in K
    <2>1. ASSUME k \in K
          PROVE  \E i \in 1 .. n : k \in T[i]
      <3>1. RankIn(S, ShardOf[k]) \in 1 .. n /\ ShardOf[k] = Pick(RankIn(S, ShardOf[k]))
        BY <1>2, <1>5, <1>6, <2>1
      <3>2. k \in T[RankIn(S, ShardOf[k])]
        BY <1>7, <2>1, <3>1 DEF TaskOf
      <3> QED
        BY <3>1, <3>2
    <2>2. ASSUME NEW i \in 1 .. n, k \in T[i]
          PROVE  k \in K
      BY <1>7, <2>2 DEF TaskOf
    <2> QED
      BY <2>1, <2>2
  <1> HIDE DEF T
  <1> QED
    BY <1>3, <1>8, <1>9, <1>10

LEMMA ShuffleKeeps ==
    ASSUME ControlInv, IterInv, InputInv, TasksInv, KeysInv, Shuffle
    PROVE  TasksInv' /\ KeysInv'
  <1> DEFINE K == MappedKeys \ skipped'
  <1>1. /\ stage = "wait mappers" /\ tasks' = ShardTasks(K)
        /\ stage' \in {"threw", "start reducers"}
        /\ UNCHANGED <<hpc, iter, item, mapped, reduced>>
    BY DEF Shuffle, helper
  <1>2. K \in SUBSET Keys
    BY DataAssumption DEF MappedKeys, InputInv
  <1>3. tasks = <<>> /\ \A r \in Reducers : hpc[r] = "none" /\ iter[r] = <<>>
    BY <1>1, KindsApart DEF TasksInv, ControlInv, StartsInv, IterInv
  <1>4. \A r \in Reducers, k \in Keys : ~Ahead(r, k)' /\ ~InHand(r, k)'
    BY <1>1, <1>3 DEF Ahead, InHand
  <1>5. \A k \in Keys : reduced[k] = 0
    <2>1. \A k \in Keys : reduced[k] # 1 /\ reduced[k] \in 0 .. 1
      BY <1>1 DEF KeysInv, Somewhere, TasksInv
    <2> QED
      BY <2>1
  <1>6. MappedKeys' = MappedKeys
    BY <1>1 DEF MappedKeys
  <1> HIDE DEF K
  <1>7. /\ tasks' \in Seq(Tasks)
        /\ \A i, j \in 1 .. Len(tasks'), k \in Keys : k \in tasks'[i] /\ k \in tasks'[j] => i = j
        /\ \A k \in Keys : (\E i \in 1 .. Len(tasks') : k \in tasks'[i]) <=> k \in K
    BY <1>1, <1>2, ShardTasksFacts
  <1>8. \A k \in Keys : OnePlace(k)'
    BY <1>1, <1>4, <1>5, <1>7 DEF OnePlace
  <1>9. TasksInv'
    BY <1>1, <1>3, <1>7, <1>8 DEF TasksInv
  <1>10. ASSUME NEW k \in Keys PROVE Somewhere(k)' <=> k \in K
    <2>1. reduced'[k] = 0
      BY <1>1, <1>5
    <2>2. Somewhere(k)' <=> \E i \in 1 .. Len(tasks') : k \in tasks'[i]
      BY <1>4, <2>1 DEF Somewhere
    <2> QED
      BY <1>7, <2>2
  <1> USE DEF K
  <1>11. KeysInv'
    BY <1>1, <1>6, <1>10 DEF KeysInv
  <1> QED
    BY <1>9, <1>11

\* Before the shuffle there is no key anywhere; after it nobody maps.
LEMMA KeysFrame ==
    ASSUME KeysInv, \A k \in Keys : Somewhere(k)' <=> Somewhere(k),
           Early(stage') <=> Early(stage),
           ~Early(stage) => UNCHANGED <<mapped, skipped>>
    PROVE  KeysInv'
  <1>1. ~Early(stage) => MappedKeys' = MappedKeys
    BY DEF MappedKeys
  <1> QED
    BY <1>1 DEF KeysInv, Early

\* When the mappers' latch has let the Runner through, they are all out.
LEMMA AllCounted ==
    ASSUME MLatchInv, ControlInv, ~Early(stage), NEW m \in Mappers
    PROVE  hpc[m] = "counting" /\ mPc[m] = "done"
  <1>1. mPc[Runner] = "done" /\ mPc[m] = "done"
    BY DEF ControlInv, StageInv, Early, MLatchInv, LatchInv
  <1> QED
    BY <1>1 DEF ControlInv, CountsInv

LEMMA TasksKeeps ==
    ASSUME MLatchInv, ControlInv, IterInv, InputInv, TasksInv, KeysInv, Next
    PROVE  TasksInv' /\ KeysInv'
  <1>1. ASSUME NEW m \in Mappers, FetchInput(m) \/ Map(m) \/ MapThrows(m) \/ StartMapper(m)
        PROVE  TasksInv' /\ KeysInv'
    <2>1. /\ UNCHANGED <<stage, tasks, reduced, skipped>> /\ Early(stage)
          /\ \A r \in Reducers : hpc'[r] = hpc[r] /\ iter'[r] = iter[r] /\ item'[r] = item[r]
      <3>1. CASE FetchInput(m)
        BY <3>1, FetchInputDoes, AllCounted, KindsApart DEF run
      <3>2. CASE Map(m) \/ MapThrows(m)
        BY <3>2, MapDoes, AllCounted, KindsApart DEF run
      <3>3. CASE StartMapper(m)
        BY <3>3, StartMapperDoes, KindsApart DEF data, Early
      <3> QED
        BY <1>1, <3>1, <3>2, <3>3
    <2>2. TasksInv' /\ \A k \in Keys : Somewhere(k)' <=> Somewhere(k)
      BY <2>1, TasksFrame
    <2> QED
      BY <2>1, <2>2, KeysFrame
  <1>2. ASSUME NEW r \in Reducers, FetchTask(r) \/ Reduce(r) \/ StartReducer(r)
        PROVE  TasksInv' /\ KeysInv'
    <2>1. UNCHANGED <<stage, mapped, skipped>>
      BY <1>2, FetchTaskDoes, ReduceDoes, StartReducerDoes DEF run
    <2>2. TasksInv' /\ \A k \in Keys : Somewhere(k)' <=> Somewhere(k)
      BY <1>2, TasksFetched, TasksReduced, TasksStarted
    <2> QED
      BY <2>1, <2>2, KeysFrame
  <1>3. ASSUME NEW h \in Helpers, CountDown(h)
        PROVE  TasksInv' /\ KeysInv'
    <2>1. /\ UNCHANGED <<stage, tasks, reduced, mapped, skipped>>
          /\ \A r \in Reducers : /\ iter'[r] = iter[r] /\ item'[r] = item[r]
                                 /\ hpc'[r] # hpc[r] => hpc[r] = "loop" /\ hpc'[r] = "counting"
      BY <1>3, CountDownDoes, KindsApart DEF run, data
    <2>2. TasksInv' /\ \A k \in Keys : Somewhere(k)' <=> Somewhere(k)
      BY <2>1, TasksFrame
    <2> QED
      BY <2>1, <2>2, KeysFrame
  <1>4. CASE WaitMappers \/ WaitReducers \/ Finish \/ Latch \/ SpuriousWakeup
    <2>1. UNCHANGED <<hpc, iter, item, mapped, reduced, tasks, skipped>>
      BY <1>4 DEF WaitMappers, WaitReducers, Finish, Latch, SpuriousWakeup, helper, data, run
    <2>2. Early(stage') <=> Early(stage)
      BY <1>4 DEF WaitMappers, WaitReducers, Finish, Latch, SpuriousWakeup, run, Early
    <2>3. TasksInv' /\ \A k \in Keys : Somewhere(k)' <=> Somewhere(k)
      BY <2>1, <2>2, TasksFrame
    <2> QED
      BY <2>1, <2>2, <2>3, KeysFrame
  <1>5. \A h \in Helpers : (FetchInput(h) \/ Map(h) \/ MapThrows(h) => h \in Mappers)
                           /\ (FetchTask(h) \/ Reduce(h) => h \in Reducers)
    BY DEF FetchInput, Map, MapThrows, FetchTask, Reduce
  <1> QED
    BY <1>1, <1>2, <1>3, <1>4, <1>5, ShuffleKeeps DEF Next, HelperStep, RunnerStep

-----------------------------------------------------------------------------
(* The initial states, the induction and the theorems.                     *)

LEMMA LatchBegins ==
    ASSUME NEW C \in {Mappers, Reducers}
    PROVE  LatchInv(C, Cardinality(C), {}, NoThread, [t \in C \cup {Runner} |-> "start"], FALSE)
  <1> DEFINE p == [t \in C \cup {Runner} |-> "start"]
  <1>1. NotYet(C, p) = C
    BY DEF NotYet, Through
  <1>2. \A t \in C \cup {Runner} : p[t] = "start"
    OBVIOUS
  <1> QED
    BY <1>1, <1>2, Apart DEF LatchInv

LEMMA InitInv == Init => IInv
  <1> SUFFICES ASSUME Init PROVE IInv
    OBVIOUS
  <1>1. MLatchInv /\ RLatchInv
    BY LatchBegins DEF Init, ML!Init, RL!Init, ML!Threads, RL!Threads, MLatchInv, RLatchInv
  <1>2. ControlInv
    BY KindsApart DEF Init, ML!Init, RL!Init, ML!Threads, RL!Threads, ControlInv, StageInv,
       CountsInv,
       StartsInv
  <1>3. /\ \A h \in Helpers : hpc[h] = "none" /\ iter[h] = <<>> /\ item[h] = <<>>
        /\ mapped = {} /\ tasks = <<>> /\ reduced = [k \in Keys |-> 0]
    BY DEF Init
  <1>4. \A S : <<>> \in AtMostOne(S)
    BY OneOf
  <1>5. IterInv
    BY <1>3, <1>4, KindsApart DEF Init, IterInv
  <1>6. \A m \in Mappers, x \in Inputs : ~Has(m, x)
    BY <1>3, OneOf, KindsApart DEF Has
  <1>7. PICK s \in InputSeqs : first = NextOf(s) /\ input = Popped(s)
    BY DEF Init
  <1>8. s \in Seq(Inputs) /\ \A i, j \in 1 .. Len(s) : s[i] = s[j] => i = j
    <2>1. s \in Seq(Inputs) /\ IsInjective(s) /\ DOMAIN s = 1 .. Len(s)
      BY DataAssumption
    <2> QED
      BY <2>1 DEF IsInjective
  <1>9. InputInv
    <2>1. /\ first \in AtMostOne(Inputs) /\ input \in Seq(Inputs)
          /\ first = <<>> => input = <<>>
      BY <1>7, <1>8, PopFacts
    <2> QED
      BY <1>3, <2>1, KindsApart DEF InputInv
  <1>10. \A i, j \in 1 .. Len(input) : input[i] = input[j] => i = j
    <2>1. CASE s = <<>>
      <3>1. input = <<>>
        BY <1>7, <1>8, <2>1, PopFacts
      <3> QED
        BY <3>1
    <2>2. CASE s # <<>>
      <3>1. /\ Len(s) \in Nat /\ Len(input) = Len(s) - 1
            /\ \A i \in 1 .. Len(s) - 1 : input[i] = s[i + 1]
        BY <1>7, <1>8, <2>2, PopFacts
      <3> TAKE i, j \in 1 .. Len(input)
      <3>2. /\ i \in Int /\ j \in Int /\ i + 1 \in 1 .. Len(s) /\ j + 1 \in 1 .. Len(s)
            /\ input[i] = s[i + 1] /\ input[j] = s[j + 1]
        BY <3>1
      <3>3. input[i] = input[j] => i + 1 = j + 1
        BY <1>8, <3>2
      <3> QED
        BY <3>2, <3>3
    <2> QED
      BY <2>1, <2>2
  <1>11. SoleInv
    BY <1>6, <1>10 DEF SoleInv
  <1>12. \A r \in Reducers, k \in Keys : ~Ahead(r, k) /\ ~InHand(r, k)
    BY <1>3, KindsApart DEF Ahead, InHand
  <1>13. Len(tasks) = 0 /\ tasks \in Seq(Tasks) /\ \A k \in Keys : reduced[k] = 0
    BY <1>3
  <1>14. TasksInv
    <2>1. \A k \in Keys : OnePlace(k)
      BY <1>12, <1>13 DEF OnePlace
    <2> QED
      BY <1>3, <1>13, <2>1, KindsApart DEF TasksInv
  <1>15. KeysInv
    <2>1. \A k \in Keys : ~Somewhere(k)
      BY <1>12, <1>13 DEF Somewhere
    <2> QED
      BY <2>1 DEF KeysInv, Init
  <1> QED
    BY <1>1, <1>2, <1>5, <1>9, <1>11, <1>14, <1>15 DEF IInv

LEMMA Inductive == IInv /\ [Next]_vars => IInv'
  <1>1. ASSUME IInv, Next PROVE IInv'
    <2>1. MLatchInv' /\ RLatchInv' /\ ControlInv'
      BY <1>1, ControlKeeps DEF IInv
    <2>2. IterInv'
      BY <1>1, IterKeeps DEF IInv
    <2>3. InputInv' /\ SoleInv'
      BY <1>1, InputKeeps DEF IInv
    <2>4. TasksInv' /\ KeysInv'
      BY <1>1, TasksKeeps DEF IInv
    <2> QED
      BY <2>1, <2>2, <2>3, <2>4 DEF IInv
  <1>2. ASSUME IInv, UNCHANGED vars PROVE IInv'
    <2>0. UNCHANGED <<run, helper, data, mLatch, rLatch>>
      BY <1>2 DEF vars
    <2>1. MLatchInv' /\ RLatchInv'
      BY <1>2, <2>0 DEF IInv, mLatch, rLatch, MLatchInv, RLatchInv
    <2>2. ControlInv' /\ IterInv'
      BY <1>2, <2>0 DEF IInv, run, helper, mLatch, rLatch, ControlInv, StageInv, CountsInv,
         StartsInv,
         IterInv
    <2>3. InputInv' /\ SoleInv'
      BY <1>2, <2>0, InputFrame DEF IInv, run, helper, data
    <2>4. UNCHANGED <<stage, hpc, iter, item, tasks, reduced, mapped, skipped>>
      BY <2>0 DEF run, helper, data
    <2>5. TasksInv' /\ \A k \in Keys : Somewhere(k)' <=> Somewhere(k)
      BY <1>2, <2>4, TasksFrame DEF IInv
    <2>6. KeysInv'
      BY <1>2, <2>4, <2>5, KeysFrame DEF IInv
    <2> QED
      BY <2>1, <2>2, <2>3, <2>5, <2>6 DEF IInv
  <1> QED
    BY <1>1, <1>2

LEMMA Invariance == Spec => []IInv
  BY InitInv, Inductive, PTL DEF Spec

\* run() leaves no helper behind that would yet touch one of its latches when
\* it destroys them, on either of its two ways out.
THEOREM HelpersGoneCorrect == Spec => []HelpersGone
  <1>1. IInv => HelpersGone
    <2> SUFFICES ASSUME IInv PROVE HelpersGone
      OBVIOUS
    <2>1. /\ mDestroyed => mPc[Runner] = "done" /\ \A m \in Mappers : mPc[m] = "done"
          /\ rDestroyed => rPc[Runner] = "done" /\ \A r \in Reducers : rPc[r] = "done"
      BY DEF IInv, MLatchInv, RLatchInv, LatchInv
    <2>2. /\ mDestroyed => mMutex = NoThread
          /\ rDestroyed => rMutex = NoThread
      BY <2>1 DEF IInv, MLatchInv, RLatchInv, LatchInv
    <2>3. ML!SingleWaiterMayDestroy /\ RL!SingleWaiterMayDestroy
      BY <2>1, <2>2 DEF ML!SingleWaiterMayDestroy, RL!SingleWaiterMayDestroy, ML!Threads,
         RL!Threads
    <2> QED
      BY <2>1, <2>3 DEF HelpersGone
  <1> QED
    BY <1>1, Invariance, PTL

\* When run() starts to shuffle, the input has been mapped to its end, if no
\* mapper threw; and only the input that the iterator given to run() held has
\* been mapped by several mappers.
THEOREM EveryInputMappedCorrect ==
    ASSUME Mappers # {}
    PROVE  Spec => []EveryInputMapped
  <1>1. IInv => EveryInputMapped
    <2> SUFFICES ASSUME IInv PROVE EveryInputMapped
      OBVIOUS
    <2> USE DEF IInv
    <2>1. ASSUME stage \notin {"start mappers", "wait mappers"}
          PROVE  /\ \A m \in Mappers : hpc[m] = "counting"
                 /\ threw \/ (input = <<>> /\ \A x \in Range(first) : \E m \in Mappers : <<m, x>> \in mapped)
      <3>1. \A m \in Mappers : hpc[m] = "counting" /\ iter[m] = <<>>
        BY <2>1, AllCounted, KindsApart DEF Early, IterInv
      <3>2. PICK m \in Mappers : TRUE
        OBVIOUS
      <3>3. threw \/ input = <<>>
        BY <3>1, <3>2 DEF InputInv
      <3>4. ASSUME NEW x \in Range(first), ~threw
            PROVE  <<m, x>> \in mapped
        <4>1. x \in Inputs /\ first = <<x>>
          <5>1. PICK i \in DOMAIN first : x = first[i]
            BY DEF Range
          <5>2. first # <<>>
            BY <5>1
          <5>3. first[1] \in Inputs /\ first = <<first[1]>> /\ i = 1
            BY <5>1, <5>2, OneOf DEF InputInv
          <5> QED
            BY <5>1, <5>3
        <4>2. Has(m, x)
          BY <3>1, <3>4, <4>1 DEF InputInv
        <4> QED
          BY <3>1, <4>2, OneOf, <4>1 DEF Has
      <3> QED
        BY <3>1, <3>3, <3>4
    <2>2. ASSUME NEW p \in mapped, NEW o \in mapped, p[2] = o[2], first # <<p[2]>>
          PROVE  p[1] = o[1]
      <3>1. /\ p = <<p[1], p[2]>> /\ o = <<o[1], o[2]>>
            /\ p[1] \in Mappers /\ o[1] \in Mappers /\ p[2] \in Inputs
        BY DEF InputInv
      <3>2. Has(p[1], p[2]) /\ Has(o[1], p[2])
        BY <2>2, <3>1 DEF Has
      <3> QED
        BY <2>2, <3>1, <3>2 DEF SoleInv
    <2> QED
      BY <2>1, <2>2 DEF EveryInputMapped
  <1> QED
    BY <1>1, Invariance, PTL

\* Every key that came out of the mappers and was not skipped is reduced, and
\* exactly once, by the time run() returns; no key ever is reduced twice.
THEOREM ReducedOnceCorrect ==
    ASSUME Reducers # {}
    PROVE  Spec => []ReducedOnce
  <1>1. IInv => ReducedOnce
    <2> SUFFICES ASSUME IInv PROVE ReducedOnce
      OBVIOUS
    <2> USE DEF IInv
    <2>1. \A k \in Keys : reduced[k] <= 1
      <3>1. \A k \in Keys : reduced[k] \in 0 .. 1
        BY DEF TasksInv
      <3> QED
        BY <3>1
    <2>2. ASSUME stage = "returned", NEW k \in Keys
          PROVE  reduced[k] = 1 <=> k \in MappedKeys \ skipped
      <3>1. \A r \in Reducers : hpc[r] = "counting" /\ iter[r] = <<>>
        <4>1. rPc[Runner] = "done"
          BY <2>2 DEF ControlInv, StageInv
        <4>2. \A r \in Reducers : rPc[r] = "done"
          BY <4>1 DEF RLatchInv, LatchInv
        <4> QED
          BY <4>2, KindsApart DEF ControlInv, CountsInv, IterInv
      <3>2. tasks = <<>>
        BY <3>1 DEF TasksInv
      <3>3. Somewhere(k) <=> reduced[k] = 1
        BY <3>1, <3>2 DEF Somewhere, Ahead, InHand
      <3> QED
        BY <2>2, <3>3 DEF KeysInv
    <2> QED
      BY <2>1, <2>2 DEF ReducedOnce
  <1> QED
    BY <1>1, Invariance, PTL
=============================================================================
