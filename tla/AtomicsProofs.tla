--------------------------- MODULE AtomicsProofs ---------------------------
(***************************************************************************)
(* Proofs about the two components that work with atomics.                 *)
(*                                                                         *)
(* LockFreeBufferQueue, for every number of producers and consumers, slots *)
(* and pushes, whether or not the element's assignment throws, if the two  *)
(* loads a call begins with happen in the order of the program text.       *)
(*                                                                         *)
(* Counter, as MCAtomics instantiates it, for any number of counting       *)
(* threads and of queries, all three kinds of counter, any amounts and any *)
(* number of counts.                                                       *)
(***************************************************************************)
EXTENDS MCAtomics, FiniteSetTheorems, WellFoundedInduction, TLAPS

-----------------------------------------------------------------------------
(* LockFreeBufferQueue.                                                    *)

Places == {"idle", "load", "state", "cas_head", "copy", "clear", "skip", "clear_invalid",
           "cas_tail", "write", "set_valid", "set_invalid"}
AllOps == PopOps \cup PushOps \cup QueryOps \cup {"none"}

SharedTypes ==
    /\ head_ \in Nat /\ tail_ \in Nat
    /\ value_state_ \in [Slots -> {"valid", "waiting", "invalid"}]
    /\ values_ \in [Slots -> Nat \cup {NoIndex}]

LocalTypes ==
    /\ pc \in [Threads -> Places] /\ op \in [Threads -> AllOps]
    /\ DOMAIN res = Threads
    /\ head \in [Threads -> Nat \cup {NoIndex}] /\ tail \in [Threads -> Nat \cup {NoIndex}]

Types == SharedTypes /\ LocalTypes

Popping(t) == \/ pc[t] \in {"cas_head", "copy", "clear", "skip", "clear_invalid"}
              \/ pc[t] = "state" /\ op[t] \in PopOps
Pushing(t) == \/ pc[t] \in {"cas_tail", "write", "set_valid", "set_invalid"}
              \/ pc[t] = "state" /\ op[t] \notin PopOps
Owns(t)    == pc[t] \in {"copy", "clear"}
Fills(t)   == pc[t] \in {"write", "set_valid", "set_invalid"}

\* Where a thread is fits what it has been called for and what it has read.
PlaceAt(t) ==
    /\ pc[t] = "idle" <=> op[t] = "none"
    /\ pc[t] = "idle" => head[t] = NoIndex /\ tail[t] = NoIndex
    /\ pc[t] = "load" =>
         /\ head[t] # NoIndex => HeadFirst(t) /\ head[t] <= head_ /\ tail[t] = NoIndex
         /\ tail[t] # NoIndex => ~HeadFirst(t) /\ tail[t] <= tail_
    /\ Popping(t) => op[t] \in PopOps /\ head[t] \in Nat /\ head[t] <= head_
    /\ Pushing(t) => op[t] \in PushOps /\ tail[t] \in Nat /\ tail[t] <= tail_
    /\ op[t] = "none" \/ res[t] \in {"none", "exception"}

\* A pop that may still win the race for index head_ has seen an element
\* there, or an invalid slot that its push is through with.
PopAt(t) ==
    /\ pc[t] = "state" /\ op[t] \in PopOps /\ head[t] = head_ => head_ < tail_
    /\ pc[t] = "cas_head" /\ head[t] = head_ =>
         head_ < tail_ /\ value_state_[Pos(head_)] = "valid"
    /\ pc[t] = "skip" /\ head[t] = head_ =>
         head_ < tail_ /\ \A u \in Threads : Fills(u) => tail[u] # head_
    /\ pc[t] = "clear_invalid" => head[t] < head_

\* A pop that has won it keeps its slot from being filled again.
OwnAt(t) ==
    Owns(t) => /\ head[t] < head_ /\ tail_ <= head[t] + cardinality_
               /\ value_state_[Pos(head[t])] = "valid" /\ values_[Pos(head[t])] = head[t]

\* A push that may still win index tail_ has seen room and a free slot there.
PushAt(t) ==
    /\ pc[t] = "state" /\ op[t] \in PushOps /\ tail[t] = tail_ => tail_ < head_ + cardinality_
    /\ pc[t] = "cas_tail" /\ tail[t] = tail_ =>
         tail_ < head_ + cardinality_ /\ value_state_[Pos(tail_)] = "waiting"

\* A push that has won it fills its slot, which pops wait for.
FillAt(t) ==
    Fills(t) => /\ head_ <= tail[t] /\ tail[t] < tail_
                /\ value_state_[Pos(tail[t])] = "waiting"
                /\ pc[t] = "set_valid" => values_[Pos(tail[t])] = tail[t]

ThreadsInv == \A t \in Threads : PlaceAt(t) /\ PopAt(t) /\ OwnAt(t) /\ PushAt(t) /\ FillAt(t)

\* An index is won by one pop and by one push.
ApartInv ==
    /\ \A t, u \in Threads : Owns(t) /\ Owns(u) /\ t # u => head[t] # head[u]
    /\ \A t, u \in Threads : Fills(t) /\ Fills(u) /\ t # u => tail[t] # tail[u]

\* The window has room in the slots, and its valid slots hold their elements.
WindowInv ==
    /\ head_ <= tail_ /\ tail_ <= head_ + cardinality_
    /\ \A i \in Nat :
         head_ <= i /\ i < tail_ /\ value_state_[Pos(i)] = "valid" => values_[Pos(i)] = i

\* What the queue is now has been seen by every call.
SeenInv ==
    /\ DOMAIN seen = Threads
    /\ \A t \in Threads : op[t] # "none" =>
         /\ head_ = tail_ => "empty" \in seen[t]
         /\ tail_ = head_ + cardinality_ => "full" \in seen[t]

Core == Types /\ ThreadsInv /\ ApartInv /\ WindowInv

IInv == Core /\ SeenInv

-----------------------------------------------------------------------------
(* Positions in the array of slots.                                        *)

LEMMA Position ==
    ASSUME NEW i \in Nat
    PROVE  Pos(i) \in Slots /\ Pos(i) \in Int
  BY CardinalityAssumption DEF Pos, Slots

LEMMA Division ==
    ASSUME NEW i \in Nat
    PROVE  i = cardinality_ * (i \div cardinality_) + Pos(i) /\ i \div cardinality_ \in Int
  BY CardinalityAssumption DEF Pos

LEMMA SmallMultiple ==
    ASSUME NEW a \in Int, cardinality_ * a > - cardinality_, cardinality_ * a < cardinality_
    PROVE  a = 0
  BY CardinalityAssumption

\* Indexes less than the number of slots apart have slots of their own.
LEMMA PosDiffer ==
    ASSUME NEW i \in Nat, NEW j \in Nat, i # j, i < j + cardinality_, j < i + cardinality_
    PROVE  Pos(i) # Pos(j)
  <1> SUFFICES ASSUME Pos(i) = Pos(j) PROVE FALSE
    OBVIOUS
  <1> DEFINE a == i \div cardinality_
             b == j \div cardinality_
  <1>1. /\ a \in Int /\ b \in Int /\ Pos(i) \in Int
        /\ i = cardinality_ * a + Pos(i) /\ j = cardinality_ * b + Pos(i)
    BY Division, Position
  <1> HIDE DEF a, b
  <1>2. cardinality_ * a \in Int /\ cardinality_ * b \in Int
    BY <1>1, CardinalityAssumption
  <1>3. cardinality_ * (a - b) = cardinality_ * a - cardinality_ * b
    BY <1>1, CardinalityAssumption
  <1>4. cardinality_ * (a - b) = i - j
    BY <1>1, <1>2, <1>3
  <1>5. a - b = 0
    BY <1>1, <1>4, SmallMultiple, CardinalityAssumption
  <1> QED
    BY <1>1, <1>5

\* An index and the one that many further share a slot.
LEMMA PosSame ==
    ASSUME NEW i \in Nat
    PROVE  Pos(i + cardinality_) = Pos(i)
  <1> DEFINE a == i \div cardinality_
             b == (i + cardinality_) \div cardinality_
  <1>1. i + cardinality_ \in Nat
    BY CardinalityAssumption
  <1>2. /\ a \in Int /\ b \in Int /\ Pos(i) \in Slots /\ Pos(i + cardinality_) \in Slots
        /\ i = cardinality_ * a + Pos(i)
        /\ i + cardinality_ = cardinality_ * b + Pos(i + cardinality_)
    BY <1>1, Division, Position
  <1> HIDE DEF a, b
  <1>3. cardinality_ * a \in Int /\ cardinality_ * b \in Int
    BY <1>2, CardinalityAssumption
  <1>4. cardinality_ * (b - a - 1) = cardinality_ * b - cardinality_ * a - cardinality_
    BY <1>2, CardinalityAssumption
  <1>a. Pos(i) \in Int /\ Pos(i + cardinality_) \in Int /\ cardinality_ \in Int
    BY <1>1, Position, CardinalityAssumption
  <1>5. cardinality_ * (b - a - 1) = Pos(i) - Pos(i + cardinality_)
    BY <1>2, <1>3, <1>4, <1>a
  <1>6. b - a - 1 = 0
    BY <1>2, <1>5, SmallMultiple, CardinalityAssumption DEF Slots
  <1>7. cardinality_ * (b - a - 1) = 0
    BY <1>6, CardinalityAssumption
  <1> QED
    BY <1>2, <1>5, <1>7 DEF Slots

-----------------------------------------------------------------------------
(* What a step does to the threads.                                        *)

\* Only t has changed.
Others(t) ==
    \A u \in Threads \ {t} : /\ pc'[u] = pc[u] /\ op'[u] = op[u] /\ res'[u] = res[u]
                             /\ head'[u] = head[u] /\ tail'[u] = tail[u]

\* t is out of the call, or at its beginning again.
Left(t) ==
    /\ head'[t] = NoIndex /\ tail'[t] = NoIndex
    /\ \/ /\ pc'[t] = "idle" /\ op'[t] = "none"
          /\ res'[t] \in {"busy", "success", "exception"}
       \/ /\ pc'[t] = "load" /\ op'[t] = op[t] /\ op[t] # "none" /\ res'[t] = res[t]

LEMMA GotoFrame ==
    ASSUME LocalTypes, NEW t \in Threads, NEW p \in Places, Goto(t, p), UNCHANGED <<head, tail>>
    PROVE  /\ Others(t) /\ LocalTypes'
           /\ pc'[t] = p /\ op'[t] = op[t] /\ res'[t] = res[t]
           /\ head'[t] = head[t] /\ tail'[t] = tail[t]
  BY DEF LocalTypes, Goto, Others

LEMMA ReturnFrame ==
    ASSUME LocalTypes, NEW t \in Threads, NEW s, Return(t, s)
    PROVE  /\ Others(t) /\ LocalTypes'
           /\ pc'[t] = "idle" /\ op'[t] = "none" /\ res'[t] = s
           /\ head'[t] = NoIndex /\ tail'[t] = NoIndex
  BY DEF LocalTypes, Return, Forget, Others, Places, AllOps

LEMMA BusyFrame ==
    ASSUME LocalTypes, NEW t \in Threads, op[t] # "none", Busy(t)
    PROVE  Others(t) /\ LocalTypes' /\ Left(t)
  <1>1. CASE op[t] \in TryOps
    <2>1. Goto(t, "load") /\ Forget(t)
      BY <1>1 DEF Busy
    <2> QED
      BY <2>1 DEF LocalTypes, Goto, Forget, Others, Places, Left
  <1>2. CASE op[t] \notin TryOps
    BY <1>2, ReturnFrame DEF Busy, Left
  <1> QED
    BY <1>1, <1>2

\* t answers at once, or goes on with one of the indexes it read.
Concluded(t, h, l) ==
    \/ /\ pc'[t] = "idle" /\ op'[t] = "none" /\ head'[t] = NoIndex /\ tail'[t] = NoIndex
       /\ op[t] \in PopOps => res'[t] = "empty" /\ h = l
       /\ op[t] \in PushOps => res'[t] = "full" /\ l = h + cardinality_
       /\ op[t] = "is_empty" /\ res'[t] = "true" => h = l
       /\ op[t] = "is_full" /\ res'[t] = "true" => l = h + cardinality_
    \/ /\ pc'[t] = "state" /\ op'[t] = op[t] /\ res'[t] = res[t]
       /\ \/ op[t] \in PopOps /\ h # l /\ head'[t] = h
          \/ op[t] \in PushOps /\ l # h + cardinality_ /\ tail'[t] = l

LEMMA ConcludesFrame ==
    ASSUME LocalTypes, NEW t \in Threads, NEW h \in Nat, NEW l \in Nat, Concludes(t, h, l)
    PROVE  Others(t) /\ LocalTypes' /\ Concluded(t, h, l)
  <1>1. ASSUME NEW s, Return(t, s) PROVE /\ Others(t) /\ LocalTypes'
                                         /\ pc'[t] = "idle" /\ op'[t] = "none" /\ res'[t] = s
                                         /\ head'[t] = NoIndex /\ tail'[t] = NoIndex
    BY <1>1, ReturnFrame
  <1>2. ASSUME NEW x \in Nat \cup {NoIndex}, NEW y \in Nat \cup {NoIndex}, Goto(t, "state"),
               head' = [head EXCEPT ![t] = x], tail' = [tail EXCEPT ![t] = y]
        PROVE  /\ Others(t) /\ LocalTypes' /\ head'[t] = x /\ tail'[t] = y
               /\ pc'[t] = "state" /\ op'[t] = op[t] /\ res'[t] = res[t]
    BY <1>2 DEF LocalTypes, Goto, Others, Places
  <1>3. CASE op[t] \in PopOps
    <2>1. IF h = l THEN Return(t, "empty")
          ELSE /\ Goto(t, "state") /\ head' = [head EXCEPT ![t] = h]
               /\ tail' = [tail EXCEPT ![t] = NoIndex]
      BY <1>3 DEF Concludes, PopOps, PushOps
    <2>2. op[t] \notin PushOps /\ op[t] # "is_empty" /\ op[t] # "is_full"
      BY <1>3 DEF PopOps, PushOps
    <2>3. CASE h = l
      BY <2>1, <2>2, <2>3, <1>1, <1>3 DEF Concluded
    <2>4. CASE h # l
      BY <2>1, <2>2, <2>4, <1>2, <1>3 DEF Concluded
    <2> QED
      BY <2>3, <2>4
  <1>4. CASE op[t] \in PushOps
    <2>1. IF l = h + cardinality_ THEN Return(t, "full")
          ELSE /\ Goto(t, "state") /\ head' = [head EXCEPT ![t] = NoIndex]
               /\ tail' = [tail EXCEPT ![t] = l]
      BY <1>4 DEF Concludes, PopOps, PushOps
    <2>2. op[t] \notin PopOps /\ op[t] # "is_empty" /\ op[t] # "is_full"
      BY <1>4 DEF PopOps, PushOps
    <2>3. CASE l = h + cardinality_
      BY <2>1, <2>2, <2>3, <1>1, <1>4 DEF Concluded
    <2>4. CASE l # h + cardinality_
      BY <2>1, <2>2, <2>4, <1>2, <1>4 DEF Concluded
    <2> QED
      BY <2>3, <2>4
  <1>5. CASE op[t] \in {"is_empty", "is_full"}
    <2>1. op[t] \notin PopOps /\ op[t] \notin PushOps
      BY <1>5 DEF PopOps, PushOps
    <2>2. \/ op[t] = "is_empty" /\ Return(t, IF h = l THEN "true" ELSE "false")
          \/ op[t] = "is_full" /\ Return(t, IF l = h + cardinality_ THEN "true" ELSE "false")
      BY <2>1 DEF Concludes
    <2>3. CASE op[t] = "is_empty"
      BY <2>1, <2>2, <2>3, <1>1 DEF Concluded
    <2>4. CASE op[t] = "is_full"
      BY <2>1, <2>2, <2>4, <1>1 DEF Concluded
    <2> QED
      BY <2>3, <2>4, <1>5
  <1> QED
    BY <1>3, <1>4, <1>5 DEF Concludes

\* Every step records what the queue is after it.
LEMMA Recorded ==
    ASSUME LocalTypes', Record
    PROVE  SeenInv'
  BY DEF Record, SeenInv

-----------------------------------------------------------------------------
(* Steps that leave what is shared alone.                                  *)

\* The new place of t is one that its invariants allow.
Settles(t) ==
    /\ (PlaceAt(t) /\ PopAt(t) /\ PushAt(t))'
    /\ Owns(t)' => Owns(t) /\ head'[t] = head[t]
    /\ Fills(t)' => Fills(t) /\ tail'[t] = tail[t] /\ (pc'[t] = "set_valid" => pc[t] = "set_valid")

LEMMA OthersPlace ==
    ASSUME Core, NEW t \in Threads, Others(t), NEW u \in Threads \ {t},
           head_' \in Nat, tail_' \in Nat, head_ <= head_', tail_ <= tail_'
    PROVE  PlaceAt(u)'
  <1>1. /\ pc'[u] = pc[u] /\ op'[u] = op[u] /\ res'[u] = res[u]
        /\ head'[u] = head[u] /\ tail'[u] = tail[u]
    BY DEF Others
  <1>2. PlaceAt(u) /\ head_ \in Nat /\ tail_ \in Nat /\ NoIndex \notin Nat
    BY BoundAssumption DEF Core, ThreadsInv, Types, SharedTypes
  <1>3. head[u] \in Nat \cup {NoIndex} /\ tail[u] \in Nat \cup {NoIndex}
    BY DEF Core, Types, LocalTypes
  <1>4. HeadFirst(u)' = HeadFirst(u)
    BY <1>1 DEF HeadFirst
  <1>5. Popping(u)' = Popping(u) /\ Pushing(u)' = Pushing(u)
    BY <1>1 DEF Popping, Pushing
  <1> QED
    BY <1>1, <1>2, <1>3, <1>4, <1>5 DEF PlaceAt

LEMMA CalmKeeps ==
    ASSUME Core, NEW t \in Threads, UNCHANGED shared, Others(t), LocalTypes', Settles(t)
    PROVE  Core'
  <1>1. /\ head_' = head_ /\ tail_' = tail_ /\ value_state_' = value_state_
        /\ values_' = values_
    BY DEF shared
  <1>2. Types'
    BY <1>1 DEF Core, Types, SharedTypes
  <1>3. \A u \in Threads \ {t} : /\ pc'[u] = pc[u] /\ op'[u] = op[u] /\ res'[u] = res[u]
                                 /\ head'[u] = head[u] /\ tail'[u] = tail[u]
    BY DEF Others
  <1>4. \A u \in Threads : Owns(u)' => Owns(u) /\ head'[u] = head[u]
    BY <1>3 DEF Owns, Settles
  <1>5. \A u \in Threads : Fills(u)' =>
          Fills(u) /\ tail'[u] = tail[u] /\ (pc'[u] = "set_valid" => pc[u] = "set_valid")
    BY <1>3 DEF Fills, Settles
  <1>6. ApartInv'
    BY <1>4, <1>5 DEF Core, ApartInv
  <1>7. WindowInv'
    BY <1>1 DEF Core, WindowInv
  <1>8. ThreadsInv'
    <2> SUFFICES ASSUME NEW u \in Threads
                 PROVE  (PlaceAt(u) /\ PopAt(u) /\ OwnAt(u) /\ PushAt(u) /\ FillAt(u))'
      BY DEF ThreadsInv
    <2>1. PlaceAt(u) /\ PopAt(u) /\ OwnAt(u) /\ PushAt(u) /\ FillAt(u)
      BY DEF Core, ThreadsInv
    <2>2. OwnAt(u)'
      BY <2>1, <1>1, <1>4 DEF OwnAt
    <2>3. FillAt(u)'
      BY <2>1, <1>1, <1>5 DEF FillAt
    <2>4. CASE u = t
      BY <2>2, <2>3, <2>4 DEF Settles
    <2>5. CASE u # t
      <3>1. PlaceAt(u)'
        BY <1>1, <2>5, OthersPlace DEF Core, Types, SharedTypes
      <3>2. PopAt(u)'
        BY <1>1, <1>3, <1>5, <2>1, <2>5 DEF PopAt
      <3>3. PushAt(u)'
        BY <1>1, <1>3, <2>1, <2>5 DEF PushAt
      <3> QED
        BY <2>2, <2>3, <3>1, <3>2, <3>3
    <2> QED
      BY <2>4, <2>5
  <1> QED
    BY <1>2, <1>6, <1>7, <1>8 DEF Core

\* A thread that is out of its call, or at its beginning, is at no index.
LEMMA LeftSettles ==
    ASSUME Core, NEW t \in Threads, Left(t)
    PROVE  Settles(t) /\ ~Owns(t)' /\ ~Fills(t)'
  <1>1. PlaceAt(t)
    BY DEF Core, ThreadsInv
  <1>2. pc'[t] \in {"idle", "load"} /\ (pc'[t] = "idle" <=> op'[t] = "none")
    BY DEF Left
  <1>3. ~Owns(t)' /\ ~Fills(t)' /\ ~Popping(t)' /\ ~Pushing(t)'
    BY <1>2 DEF Owns, Fills, Popping, Pushing
  <1>4. PlaceAt(t)'
    BY <1>1, <1>2, <1>3 DEF Left, PlaceAt
  <1>5. PopAt(t)' /\ PushAt(t)'
    BY <1>2 DEF PopAt, PushAt
  <1> QED
    BY <1>3, <1>4, <1>5 DEF Settles

LEMMA CallKeeps ==
    ASSUME Core, NEW t \in Threads, Call(t)
    PROVE  Core'
  <1>1. PICK o \in Ops : op' = [op EXCEPT ![t] = o]
    BY DEF Call
  <1>2. o \in AllOps /\ o # "none"
    BY OpsAssumption DEF AllOps, PopOps, PushOps, QueryOps
  <1>3. /\ Others(t) /\ LocalTypes' /\ pc[t] = "idle"
        /\ pc'[t] = "load" /\ op'[t] = o /\ res'[t] = "none"
        /\ head'[t] = head[t] /\ tail'[t] = tail[t]
    BY <1>1, <1>2 DEF Call, Core, Types, LocalTypes, Others, Places
  <1>4. head[t] = NoIndex /\ tail[t] = NoIndex
    BY <1>3 DEF Core, ThreadsInv, PlaceAt
  <1>5. Settles(t)
    BY <1>2, <1>3, <1>4
       DEF Settles, PlaceAt, PopAt, PushAt, Owns, Fills, Popping, Pushing
  <1>6. UNCHANGED shared
    BY DEF Call
  <1> QED
    BY <1>3, <1>5, <1>6, CalmKeeps

\* What a call that answers at once says of the queue is so.
Honest(t) ==
    op'[t] = "none" =>
      /\ op[t] \in PopOps /\ res'[t] = "empty" => head_ = tail_
      /\ op[t] = "is_empty" /\ res'[t] = "true" => head_ = tail_
      /\ op[t] \in PushOps /\ res'[t] = "full" => tail_ = head_ + cardinality_
      /\ op[t] = "is_full" /\ res'[t] = "true" => tail_ = head_ + cardinality_

LEMMA LoadHeadKeeps ==
    ASSUME Core, NEW t \in Threads, LoadHead(t), ~ReorderLoads
    PROVE  Core' /\ Others(t) /\ Honest(t)
  <1>1. /\ pc[t] = "load" /\ head[t] = NoIndex /\ UNCHANGED shared
        /\ HeadFirst(t) \/ tail[t] # NoIndex
    BY DEF LoadHead
  <1>2. /\ PlaceAt(t) /\ head_ \in Nat /\ tail_ \in Nat /\ cardinality_ \in Nat
        /\ tail_ <= head_ + cardinality_ /\ NoIndex \notin Nat
    BY BoundAssumption, CardinalityAssumption
       DEF Core, Types, SharedTypes, ThreadsInv, WindowInv
  <1>3. op[t] # "none"
    BY <1>1, <1>2 DEF PlaceAt
  <1>4. CASE tail[t] = NoIndex
    <2>1. /\ head' = [head EXCEPT ![t] = head_] /\ UNCHANGED <<pc, op, res, tail>>
      BY <1>4 DEF LoadHead
    <2>2. Others(t) /\ LocalTypes' /\ head'[t] = head_
      BY <1>2, <2>1 DEF Core, Types, LocalTypes, Others
    <2>3. PlaceAt(t)'
      BY <1>1, <1>2, <1>4, <2>1, <2>2 DEF PlaceAt, shared, HeadFirst, Popping, Pushing
    <2>4. Settles(t)
      BY <1>1, <2>1, <2>3 DEF Settles, PopAt, PushAt, Owns, Fills
    <2>5. Honest(t)
      BY <1>3, <2>1 DEF Honest
    <2> QED
      BY <1>1, <2>2, <2>4, <2>5, CalmKeeps
  <1>5. CASE tail[t] # NoIndex
    <2>1. /\ tail[t] \in Nat /\ tail[t] <= tail_ /\ ~HeadFirst(t)
      BY <1>1, <1>2, <1>5 DEF Core, Types, LocalTypes, PlaceAt
    <2>2. op[t] \notin PopOps /\ op[t] # "is_empty"
      BY <2>1 DEF HeadFirst
    <2>3. Others(t) /\ LocalTypes' /\ Concluded(t, head_, tail[t])
      BY <1>2, <1>5, <2>1, ConcludesFrame DEF LoadHead, Core, Types
    <2>4. tail[t] = head_ + cardinality_ => tail_ = head_ + cardinality_
      BY <1>2, <2>1
    <2>5. Honest(t)
      BY <1>3, <2>2, <2>3, <2>4 DEF Honest, Concluded
    <2>6. PlaceAt(t)'
      BY <1>1, <1>2, <2>1, <2>2, <2>3 DEF Concluded, PlaceAt, shared, Popping, Pushing
    <2>7. PopAt(t)' /\ ~Owns(t)' /\ ~Fills(t)'
      BY <2>2, <2>3 DEF Concluded, PopAt, Owns, Fills
    <2>8. PushAt(t)'
      BY <1>1, <1>2, <2>2, <2>3 DEF Concluded, PushAt, shared
    <2> QED
      BY <1>1, <2>3, <2>5, <2>6, <2>7, <2>8, CalmKeeps DEF Settles
  <1> QED
    BY <1>4, <1>5

LEMMA LoadTailKeeps ==
    ASSUME Core, NEW t \in Threads, LoadTail(t), ~ReorderLoads
    PROVE  Core' /\ Others(t) /\ Honest(t)
  <1>1. /\ pc[t] = "load" /\ tail[t] = NoIndex /\ UNCHANGED shared
        /\ ~HeadFirst(t) \/ head[t] # NoIndex
    BY DEF LoadTail
  <1>2. /\ PlaceAt(t) /\ head_ \in Nat /\ tail_ \in Nat
        /\ head_ <= tail_ /\ NoIndex \notin Nat
    BY BoundAssumption DEF Core, Types, SharedTypes, ThreadsInv, WindowInv
  <1>3. op[t] # "none"
    BY <1>1, <1>2 DEF PlaceAt
  <1>4. CASE head[t] = NoIndex
    <2>1. /\ tail' = [tail EXCEPT ![t] = tail_] /\ UNCHANGED <<pc, op, res, head>>
      BY <1>4 DEF LoadTail
    <2>2. Others(t) /\ LocalTypes' /\ tail'[t] = tail_
      BY <1>2, <2>1 DEF Core, Types, LocalTypes, Others
    <2>3. PlaceAt(t)'
      BY <1>1, <1>2, <1>4, <2>1, <2>2 DEF PlaceAt, shared, HeadFirst, Popping, Pushing
    <2>4. Settles(t)
      BY <1>1, <2>1, <2>3 DEF Settles, PopAt, PushAt, Owns, Fills
    <2>5. Honest(t)
      BY <1>3, <2>1 DEF Honest
    <2> QED
      BY <1>1, <2>2, <2>4, <2>5, CalmKeeps
  <1>5. CASE head[t] # NoIndex
    <2>1. /\ head[t] \in Nat /\ head[t] <= head_ /\ HeadFirst(t)
      BY <1>1, <1>2, <1>5 DEF Core, Types, LocalTypes, PlaceAt
    <2>2. op[t] \notin PushOps /\ op[t] # "is_full"
      BY <2>1 DEF HeadFirst, PopOps, PushOps
    <2>3. Others(t) /\ LocalTypes' /\ Concluded(t, head[t], tail_)
      BY <1>2, <1>5, <2>1, ConcludesFrame DEF LoadTail, Core, Types
    <2>4. head[t] = tail_ => head_ = tail_
      BY <1>2, <2>1
    <2>5. Honest(t)
      BY <1>3, <2>2, <2>3, <2>4 DEF Honest, Concluded
    <2>6. PlaceAt(t)'
      BY <1>1, <1>2, <2>1, <2>2, <2>3 DEF Concluded, PlaceAt, shared, Popping, Pushing
    <2>7. PushAt(t)' /\ ~Owns(t)' /\ ~Fills(t)'
      BY <2>2, <2>3 DEF Concluded, PushAt, Owns, Fills
    <2>8. PopAt(t)'
      BY <1>1, <1>2, <2>2, <2>3 DEF Concluded, PopAt, shared
    <2> QED
      BY <1>1, <2>3, <2>5, <2>6, <2>7, <2>8, CalmKeeps DEF Settles
  <1> QED
    BY <1>4, <1>5

\* A thread that goes to another place of the same call.
LEMMA Moves ==
    ASSUME Core, NEW t \in Threads, NEW p \in Places, Goto(t, p), UNCHANGED <<head, tail>>,
           pc[t] # "idle", p # "idle"
    PROVE  /\ Others(t) /\ LocalTypes' /\ pc'[t] = p /\ op'[t] = op[t] /\ res'[t] = res[t]
           /\ head'[t] = head[t] /\ tail'[t] = tail[t] /\ op'[t] # "none"
  BY GotoFrame DEF Core, Types, ThreadsInv, PlaceAt

LEMMA PopStateKeeps ==
    ASSUME Core, NEW t \in Threads, PopState(t)
    PROVE  Core' /\ Others(t) /\ (Left(t) \/ op'[t] # "none")
  <1>1. pc[t] = "state" /\ op[t] \in PopOps /\ UNCHANGED shared
    BY DEF PopState
  <1>2. /\ PlaceAt(t) /\ PopAt(t) /\ head[t] \in Nat /\ op[t] # "none"
    BY <1>1 DEF Core, ThreadsInv, PlaceAt, Popping
  <1>3. CASE Busy(t)
    <2>1. Others(t) /\ LocalTypes' /\ Left(t)
      BY <1>2, <1>3, BusyFrame DEF Core, Types
    <2> QED
      BY <1>1, <2>1, LeftSettles, CalmKeeps
  <1>4. CASE value_state_[Pos(head[t])] = "valid" /\ Goto(t, "cas_head") /\ UNCHANGED <<head, tail>>
    <2>1. /\ Others(t) /\ LocalTypes' /\ pc'[t] = "cas_head" /\ op'[t] = op[t]
          /\ res'[t] = res[t] /\ head'[t] = head[t] /\ op'[t] # "none"
      BY <1>1, <1>4, Moves DEF Places
    <2>2. PlaceAt(t)' /\ PushAt(t)' /\ ~Owns(t)' /\ ~Fills(t)'
      BY <1>1, <1>2, <2>1 DEF PlaceAt, PushAt, Owns, Fills, Popping, Pushing, shared
    <2>3. PopAt(t)'
      BY <1>1, <1>2, <1>4, <2>1 DEF PopAt, shared
    <2> QED
      BY <1>1, <2>1, <2>2, <2>3, CalmKeeps DEF Settles
  <1>5. CASE value_state_[Pos(head[t])] = "invalid" /\ Goto(t, "skip") /\ UNCHANGED <<head, tail>>
    <2>1. /\ Others(t) /\ LocalTypes' /\ pc'[t] = "skip" /\ op'[t] = op[t]
          /\ res'[t] = res[t] /\ head'[t] = head[t] /\ op'[t] # "none"
      BY <1>1, <1>5, Moves DEF Places
    <2>2. PlaceAt(t)' /\ PushAt(t)' /\ ~Owns(t)' /\ ~Fills(t)'
      BY <1>1, <1>2, <2>1 DEF PlaceAt, PushAt, Owns, Fills, Popping, Pushing, shared
    <2>3. ASSUME NEW u \in Threads, Fills(u)', head[t] = head_ PROVE tail'[u] # head_
      <3>1. Fills(u) /\ tail'[u] = tail[u]
        BY <2>1, <2>2, <2>3 DEF Others, Fills
      <3>2. value_state_[Pos(tail[u])] = "waiting"
        BY <3>1 DEF Core, ThreadsInv, FillAt
      <3> QED
        BY <1>5, <2>3, <3>1, <3>2
    <2>4. PopAt(t)'
      BY <1>1, <1>2, <2>1, <2>3 DEF PopAt, shared
    <2> QED
      BY <1>1, <2>1, <2>2, <2>4, CalmKeeps DEF Settles
  <1> QED
    BY <1>3, <1>4, <1>5 DEF PopState

LEMMA PushStateKeeps ==
    ASSUME Core, NEW t \in Threads, PushState(t)
    PROVE  Core' /\ Others(t) /\ (Left(t) \/ op'[t] # "none")
  <1>1. pc[t] = "state" /\ op[t] \in PushOps /\ op[t] \notin PopOps /\ UNCHANGED shared
    BY DEF PushState, PopOps, PushOps
  <1>2. /\ PlaceAt(t) /\ PushAt(t) /\ tail[t] \in Nat /\ op[t] # "none"
    BY <1>1 DEF Core, ThreadsInv, PlaceAt, Pushing
  <1>3. CASE Busy(t)
    <2>1. Others(t) /\ LocalTypes' /\ Left(t)
      BY <1>2, <1>3, BusyFrame DEF Core, Types
    <2> QED
      BY <1>1, <2>1, LeftSettles, CalmKeeps
  <1>4. CASE value_state_[Pos(tail[t])] = "waiting" /\ Goto(t, "cas_tail") /\ UNCHANGED <<head, tail>>
    <2>1. /\ Others(t) /\ LocalTypes' /\ pc'[t] = "cas_tail" /\ op'[t] = op[t]
          /\ res'[t] = res[t] /\ tail'[t] = tail[t] /\ op'[t] # "none"
      BY <1>1, <1>4, Moves DEF Places
    <2>2. PlaceAt(t)' /\ PopAt(t)' /\ ~Owns(t)' /\ ~Fills(t)'
      BY <1>1, <1>2, <2>1 DEF PlaceAt, PopAt, Owns, Fills, Popping, Pushing, shared
    <2>3. PushAt(t)'
      BY <1>1, <1>2, <1>4, <2>1 DEF PushAt, shared
    <2> QED
      BY <1>1, <2>1, <2>2, <2>3, CalmKeeps DEF Settles
  <1> QED
    BY <1>3, <1>4 DEF PushState

LEMMA CopyKeeps ==
    ASSUME Core, NEW t \in Threads, Copy(t)
    PROVE  Core' /\ Others(t) /\ op'[t] # "none"
  <1>1. /\ pc[t] = "copy" /\ pc' = [pc EXCEPT ![t] = "clear"] /\ UNCHANGED <<op, head, tail>>
        /\ UNCHANGED shared
        /\ res' = res \/ res' = [res EXCEPT ![t] = "exception"]
    BY DEF Copy
  <1>2. PlaceAt(t) /\ op[t] # "none"
    BY <1>1 DEF Core, ThreadsInv, PlaceAt
  <1>3. /\ Others(t) /\ LocalTypes' /\ pc'[t] = "clear" /\ res'[t] \in {res[t], "exception"}
    BY <1>1 DEF Core, Types, LocalTypes, Others, Places
  <1>4. PlaceAt(t)'
    BY <1>1, <1>2, <1>3 DEF PlaceAt, Popping, Pushing, shared
  <1>5. PopAt(t)' /\ PushAt(t)' /\ Owns(t) /\ ~Fills(t)'
    BY <1>1, <1>3 DEF PopAt, PushAt, Owns, Fills
  <1> QED
    BY <1>1, <1>2, <1>3, <1>4, <1>5, CalmKeeps DEF Settles

-----------------------------------------------------------------------------
(* Steps that reserve an index.                                            *)

\* head_ moves past a slot that no push is filling.
LEMMA HeadKeeps ==
    ASSUME Core, NEW t \in Threads, Others(t), LocalTypes',
           head_' = head_ + 1, UNCHANGED <<tail_, value_state_, values_>>,
           head[t] = head_, head_ < tail_,
           \A u \in Threads : Fills(u) => tail[u] # head_,
           PlaceAt(t)', ~Fills(t)',
           \/ pc'[t] = "copy" /\ head'[t] = head_ /\ value_state_[Pos(head_)] = "valid"
           \/ pc'[t] = "clear_invalid" /\ head'[t] = head_
    PROVE  Core'
  <1>1. /\ head_ \in Nat /\ tail_ \in Nat /\ cardinality_ \in Nat /\ cardinality_ > 0
        /\ head_' \in Nat /\ tail_ <= head_ + cardinality_
    BY CardinalityAssumption DEF Core, Types, SharedTypes, WindowInv
  <1>2. Types'
    BY <1>1 DEF Core, Types, SharedTypes
  <1>3. \A u \in Threads \ {t} : /\ pc'[u] = pc[u] /\ op'[u] = op[u]
                                 /\ head'[u] = head[u] /\ tail'[u] = tail[u]
    BY DEF Others
  <1>4. \A u \in Threads : Fills(u)' => Fills(u) /\ u # t /\ tail'[u] = tail[u] /\ pc'[u] = pc[u]
    BY <1>3 DEF Fills
  <1>5. \A u \in Threads : Owns(u) => head[u] \in Nat /\ head[u] < head_
    BY DEF Core, ThreadsInv, OwnAt, PlaceAt, Owns, Popping
  <1>6. \A u \in Threads : Owns(u)' /\ u # t => Owns(u) /\ head'[u] = head[u]
    BY <1>3 DEF Owns
  <1>7. ApartInv'
    <2>1. \A u, v \in Threads : Owns(u)' /\ Owns(v)' /\ u # v => head'[u] # head'[v]
      BY <1>1, <1>5, <1>6 DEF Core, ApartInv
    <2>2. \A u, v \in Threads : Fills(u)' /\ Fills(v)' /\ u # v => tail'[u] # tail'[v]
      BY <1>4 DEF Core, ApartInv
    <2> QED
      BY <2>1, <2>2 DEF ApartInv
  <1>8. WindowInv'
    BY <1>1 DEF Core, WindowInv
  <1>9. ThreadsInv'
    <2> SUFFICES ASSUME NEW u \in Threads
                 PROVE  (PlaceAt(u) /\ PopAt(u) /\ OwnAt(u) /\ PushAt(u) /\ FillAt(u))'
      BY DEF ThreadsInv
    <2>1. PlaceAt(u) /\ PopAt(u) /\ OwnAt(u) /\ PushAt(u) /\ FillAt(u)
      BY DEF Core, ThreadsInv
    <2>2. FillAt(u)'
      <3> SUFFICES ASSUME Fills(u)' PROVE FillAt(u)'
        BY DEF FillAt
      <3>1. /\ Fills(u) /\ tail'[u] = tail[u] /\ pc'[u] = pc[u] /\ tail[u] # head_
            /\ tail[u] \in Nat
        BY <1>4, <2>1 DEF PlaceAt, Pushing, Fills
      <3>2. head_ + 1 <= tail[u]
        BY <1>1, <2>1, <3>1 DEF FillAt
      <3> QED
        BY <2>1, <3>1, <3>2 DEF FillAt
    <2>3. CASE u = t
      <3>1. OwnAt(t)'
        <4>1. value_state_[Pos(head_)] = "valid" => values_[Pos(head_)] = head_
          BY <1>1 DEF Core, WindowInv
        <4> QED
          BY <4>1, <1>1 DEF OwnAt, Owns
      <3>2. PopAt(t)' /\ PushAt(t)'
        BY <1>1 DEF PopAt, PushAt
      <3> QED
        BY <2>2, <2>3, <3>1, <3>2
    <2>4. CASE u # t
      <3>1. PlaceAt(u)'
        BY <1>1, <2>4, OthersPlace
      <3>2. OwnAt(u)'
        BY <1>1, <1>5, <1>6, <2>1, <2>4 DEF OwnAt
      <3>3. PushAt(u)'
        BY <1>1, <1>3, <2>1, <2>4 DEF PushAt
      <3>4. PopAt(u)'
        <4>1. Popping(u) => head[u] \in Nat /\ head[u] <= head_
          BY <2>1 DEF PlaceAt
        <4>2. Popping(u) => head[u] < head_' /\ head[u] # head_'
          BY <4>1, <1>1
        <4> QED
          BY <1>3, <2>4, <4>2 DEF PopAt, Popping
      <3> QED
        BY <2>2, <3>1, <3>2, <3>3, <3>4
    <2> QED
      BY <2>3, <2>4
  <1> QED
    BY <1>2, <1>7, <1>8, <1>9 DEF Core

LEMMA CasHeadKeeps ==
    ASSUME Core, NEW t \in Threads, CasHead(t)
    PROVE  Core' /\ Others(t) /\ (Left(t) \/ op'[t] # "none")
  <1>1. pc[t] = "cas_head" /\ UNCHANGED <<tail_, value_state_, values_>>
    BY DEF CasHead
  <1>2. /\ PlaceAt(t) /\ PopAt(t) /\ head[t] \in Nat /\ op[t] # "none"
    BY <1>1 DEF Core, ThreadsInv, PlaceAt, Popping
  <1>3. CASE head_ = head[t]
    <2>1. head_' = head_ + 1 /\ Goto(t, "copy") /\ UNCHANGED <<head, tail>>
      BY <1>3 DEF CasHead
    <2>2. /\ Others(t) /\ LocalTypes' /\ pc'[t] = "copy" /\ op'[t] = op[t]
          /\ res'[t] = res[t] /\ head'[t] = head[t] /\ op'[t] # "none"
      BY <1>1, <2>1, Moves DEF Places
    <2>3. PlaceAt(t)' /\ ~Fills(t)'
      BY <1>1, <1>2, <1>3, <2>1, <2>2 DEF PlaceAt, Fills, Popping, Pushing
    <2>4. head_ < tail_ /\ value_state_[Pos(head_)] = "valid"
      BY <1>1, <1>2, <1>3 DEF PopAt
    <2>5. \A u \in Threads : Fills(u) => tail[u] # head_
      BY <2>4 DEF Core, ThreadsInv, FillAt
    <2> QED
      BY <1>1, <1>3, <2>1, <2>2, <2>3, <2>4, <2>5, HeadKeeps
  <1>4. CASE head_ # head[t]
    <2>1. UNCHANGED shared /\ Busy(t)
      BY <1>1, <1>4 DEF CasHead, shared
    <2>2. Others(t) /\ LocalTypes' /\ Left(t)
      BY <1>2, <2>1, BusyFrame DEF Core, Types
    <2> QED
      BY <2>1, <2>2, LeftSettles, CalmKeeps
  <1> QED
    BY <1>3, <1>4

LEMMA SkipInvalidKeeps ==
    ASSUME Core, NEW t \in Threads, SkipInvalid(t)
    PROVE  Core' /\ Others(t) /\ op'[t] # "none"
  <1>1. /\ pc[t] = "skip" /\ UNCHANGED <<tail_, value_state_, values_>>
        /\ Goto(t, "clear_invalid") /\ UNCHANGED <<head, tail>>
    BY DEF SkipInvalid
  <1>2. /\ PlaceAt(t) /\ PopAt(t) /\ head[t] \in Nat /\ op[t] # "none" /\ head[t] <= head_
        /\ head_ \in Nat
    BY <1>1 DEF Core, ThreadsInv, PlaceAt, Popping, Types, SharedTypes
  <1>3. /\ Others(t) /\ LocalTypes' /\ pc'[t] = "clear_invalid" /\ op'[t] = op[t]
        /\ res'[t] = res[t] /\ head'[t] = head[t] /\ op'[t] # "none"
    BY <1>1, Moves DEF Places
  <1>4. CASE head_ = head[t]
    <2>1. head_' = head_ + 1
      BY <1>4 DEF SkipInvalid
    <2>2. PlaceAt(t)' /\ ~Fills(t)'
      BY <1>1, <1>2, <1>3, <2>1 DEF PlaceAt, Fills, Popping, Pushing
    <2>3. head_ < tail_ /\ \A u \in Threads : Fills(u) => tail[u] # head_
      BY <1>1, <1>2, <1>4 DEF PopAt
    <2> QED
      BY <1>1, <1>3, <1>4, <2>1, <2>2, <2>3, HeadKeeps
  <1>5. CASE head_ # head[t]
    <2>1. head_' = head_ /\ UNCHANGED shared
      BY <1>1, <1>5 DEF SkipInvalid, shared
    <2>2. PlaceAt(t)'
      BY <1>1, <1>2, <1>3, <2>1 DEF PlaceAt, Popping, Pushing
    <2>3. head[t] < head_
      BY <1>2, <1>5
    <2>4. PopAt(t)' /\ PushAt(t)' /\ ~Owns(t)' /\ ~Fills(t)'
      BY <1>3, <2>1, <2>3 DEF PopAt, PushAt, Owns, Fills
    <2> QED
      BY <1>3, <2>1, <2>2, <2>4, CalmKeeps DEF Settles
  <1> QED
    BY <1>4, <1>5

\* tail_ moves to a slot that is free.
LEMMA TailKeeps ==
    ASSUME Core, NEW t \in Threads, CasTail(t), tail_ = tail[t]
    PROVE  Core' /\ Others(t) /\ op'[t] # "none"
  <1>1. /\ pc[t] = "cas_tail" /\ UNCHANGED <<head_, value_state_, values_>>
        /\ tail_' = tail_ + 1 /\ Goto(t, "write") /\ UNCHANGED <<head, tail>>
    BY DEF CasTail
  <1>2. /\ PlaceAt(t) /\ PushAt(t) /\ op[t] # "none"
    BY <1>1 DEF Core, ThreadsInv, PlaceAt
  <1>3. /\ head_ \in Nat /\ tail_ \in Nat /\ cardinality_ \in Nat /\ cardinality_ > 0
        /\ tail_' \in Nat /\ head_ <= tail_
        /\ tail_ < head_ + cardinality_ /\ value_state_[Pos(tail_)] = "waiting"
    BY <1>1, <1>2, CardinalityAssumption DEF Core, Types, SharedTypes, WindowInv, PushAt
  <1>4. /\ Others(t) /\ LocalTypes' /\ pc'[t] = "write" /\ op'[t] = op[t]
        /\ res'[t] = res[t] /\ tail'[t] = tail[t] /\ op'[t] # "none"
    BY <1>1, Moves DEF Places
  <1>5. Types'
    BY <1>1, <1>3, <1>4 DEF Core, Types, SharedTypes
  <1>6. \A u \in Threads \ {t} : /\ pc'[u] = pc[u] /\ op'[u] = op[u]
                                 /\ head'[u] = head[u] /\ tail'[u] = tail[u]
    BY <1>4 DEF Others
  <1>7. \A u \in Threads : Owns(u)' => Owns(u) /\ u # t /\ head'[u] = head[u]
    BY <1>4, <1>6 DEF Owns
  <1>8. \A u \in Threads : Fills(u) => tail[u] \in Nat /\ tail[u] < tail_
    BY DEF Core, ThreadsInv, FillAt, PlaceAt, Fills, Pushing
  <1>9. \A u \in Threads : Fills(u)' /\ u # t => Fills(u) /\ tail'[u] = tail[u] /\ pc'[u] = pc[u]
    BY <1>6 DEF Fills
  <1>10. ApartInv'
    <2>1. \A u, v \in Threads : Owns(u)' /\ Owns(v)' /\ u # v => head'[u] # head'[v]
      BY <1>7 DEF Core, ApartInv
    <2>2. \A u, v \in Threads : Fills(u)' /\ Fills(v)' /\ u # v => tail'[u] # tail'[v]
      BY <1>3, <1>4, <1>8, <1>9 DEF Core, ApartInv
    <2> QED
      BY <2>1, <2>2 DEF ApartInv
  <1>11. WindowInv'
    <2> SUFFICES ASSUME NEW i \in Nat, head_ <= i, i < tail_ + 1, value_state_[Pos(i)] = "valid"
                 PROVE  values_[Pos(i)] = i
      BY <1>1, <1>3 DEF WindowInv
    <2>1. i # tail_
      BY <1>3
    <2>2. i < tail_
      BY <2>1, <1>3
    <2> QED
      BY <2>2 DEF Core, WindowInv
  <1>12. ThreadsInv'
    <2> SUFFICES ASSUME NEW u \in Threads
                 PROVE  (PlaceAt(u) /\ PopAt(u) /\ OwnAt(u) /\ PushAt(u) /\ FillAt(u))'
      BY DEF ThreadsInv
    <2>1. PlaceAt(u) /\ PopAt(u) /\ OwnAt(u) /\ PushAt(u) /\ FillAt(u)
      BY DEF Core, ThreadsInv
    <2>2. OwnAt(u)'
      <3> SUFFICES ASSUME Owns(u)' PROVE OwnAt(u)'
        BY DEF OwnAt
      <3>1. Owns(u) /\ head'[u] = head[u] /\ head[u] \in Nat
        BY <1>7, <2>1 DEF PlaceAt, Popping, Owns
      <3>2. /\ head[u] < head_ /\ tail_ <= head[u] + cardinality_
            /\ value_state_[Pos(head[u])] = "valid" /\ values_[Pos(head[u])] = head[u]
        BY <2>1, <3>1 DEF OwnAt
      <3>3. tail_ # head[u] + cardinality_
        BY <3>1, <3>2, <1>3, PosSame
      <3>4. tail_ + 1 <= head[u] + cardinality_
        BY <3>1, <3>2, <3>3, <1>3
      <3> QED
        BY <1>1, <3>1, <3>2, <3>4 DEF OwnAt
    <2>3. CASE u = t
      <3>1. PlaceAt(t)' /\ PopAt(t)' /\ PushAt(t)'
        BY <1>1, <1>2, <1>3, <1>4 DEF PlaceAt, PopAt, PushAt, Popping, Pushing
      <3>2. FillAt(t)'
        BY <1>1, <1>3, <1>4 DEF FillAt
      <3> QED
        BY <2>2, <2>3, <3>1, <3>2
    <2>4. CASE u # t
      <3>1. PlaceAt(u)'
        BY <1>1, <1>3, <1>4, <2>4, OthersPlace
      <3>2. FillAt(u)'
        BY <1>1, <1>3, <1>8, <1>9, <2>1, <2>4 DEF FillAt
      <3>3. PushAt(u)'
        <4>1. Pushing(u) => tail[u] \in Nat /\ tail[u] <= tail_ /\ op[u] \in PushOps
          BY <2>1 DEF PlaceAt
        <4>2. op[u] \in PushOps => op[u] \notin PopOps
          BY DEF PushOps, PopOps
        <4>3. pc[u] = "cas_tail" \/ (pc[u] = "state" /\ op[u] \in PushOps) => tail[u] # tail_ + 1
          BY <4>1, <4>2, <1>3 DEF Pushing
        <4> QED
          BY <1>1, <1>6, <2>4, <4>3 DEF PushAt
      <3>4. PopAt(u)'
        <4>1. ASSUME head_ < tail_, NEW v \in Threads, Fills(v)', \A w \in Threads : Fills(w) => tail[w] # head_
              PROVE tail'[v] # head_
          BY <4>1, <1>3, <1>4, <1>9
        <4>2. head_ < tail_ => head_ < tail_ + 1
          BY <1>3
        <4> QED
          BY <1>1, <1>6, <2>1, <2>4, <4>1, <4>2 DEF PopAt
      <3> QED
        BY <2>2, <3>1, <3>2, <3>3, <3>4
    <2> QED
      BY <2>3, <2>4
  <1> QED
    BY <1>4, <1>5, <1>10, <1>11, <1>12 DEF Core

LEMMA CasTailKeeps ==
    ASSUME Core, NEW t \in Threads, CasTail(t)
    PROVE  Core' /\ Others(t) /\ (Left(t) \/ op'[t] # "none")
  <1>1. CASE tail_ = tail[t]
    BY <1>1, TailKeeps
  <1>2. CASE tail_ # tail[t]
    <2>1. pc[t] = "cas_tail" /\ UNCHANGED shared /\ Busy(t)
      BY <1>2 DEF CasTail, shared
    <2>2. op[t] # "none"
      BY <2>1 DEF Core, ThreadsInv, PlaceAt
    <2>3. Others(t) /\ LocalTypes' /\ Left(t)
      BY <2>1, <2>2, BusyFrame DEF Core, Types
    <2> QED
      BY <2>1, <2>3, LeftSettles, CalmKeeps
  <1> QED
    BY <1>1, <1>2

-----------------------------------------------------------------------------
(* Steps that change a slot.                                               *)

\* The indexes that pushes fill and those that pops own, like all indexes of
\* the window and the next one, have slots of their own.
LEMMA OwnSlots ==
    ASSUME Core
    PROVE  /\ \A t, u \in Threads : Owns(t) /\ Owns(u) /\ t # u => Pos(head[t]) # Pos(head[u])
           /\ \A t, u \in Threads : Fills(t) /\ Fills(u) /\ t # u => Pos(tail[t]) # Pos(tail[u])
           /\ \A t \in Threads : Owns(t) /\ head_ < tail_ => Pos(head[t]) # Pos(head_)
           /\ \A t \in Threads : Fills(t) /\ tail_ < head_ + cardinality_ => Pos(tail[t]) # Pos(tail_)
           /\ \A t \in Threads : \A i \in Nat :
                Fills(t) /\ head_ <= i /\ i < tail_ /\ i # tail[t] => Pos(tail[t]) # Pos(i)
           /\ \A t \in Threads : \A i \in Nat :
                Owns(t) /\ head_ <= i /\ i < tail_ => Pos(head[t]) # Pos(i)
  <1>1. /\ head_ \in Nat /\ tail_ \in Nat /\ cardinality_ \in Nat
        /\ head_ <= tail_ /\ tail_ <= head_ + cardinality_
    BY CardinalityAssumption DEF Core, Types, SharedTypes, WindowInv
  <1>2. \A t \in Threads : Owns(t) =>
          head[t] \in Nat /\ head[t] < head_ /\ tail_ <= head[t] + cardinality_
    BY DEF Core, ThreadsInv, OwnAt, PlaceAt, Owns, Popping
  <1>3. \A t \in Threads : Fills(t) => tail[t] \in Nat /\ head_ <= tail[t] /\ tail[t] < tail_
    BY DEF Core, ThreadsInv, FillAt, PlaceAt, Fills, Pushing
  <1>4. ASSUME NEW t \in Threads, NEW u \in Threads, Owns(t), Owns(u), t # u
        PROVE  Pos(head[t]) # Pos(head[u])
    <2>1. head[t] # head[u]
      BY <1>4 DEF Core, ApartInv
    <2>2. head[t] < head[u] + cardinality_ /\ head[u] < head[t] + cardinality_
      BY <1>1, <1>2, <1>4
    <2> QED
      BY <1>2, <1>4, <2>1, <2>2, PosDiffer
  <1>5. ASSUME NEW t \in Threads, NEW u \in Threads, Fills(t), Fills(u), t # u
        PROVE  Pos(tail[t]) # Pos(tail[u])
    <2>1. tail[t] # tail[u]
      BY <1>5 DEF Core, ApartInv
    <2>2. tail[t] < tail[u] + cardinality_ /\ tail[u] < tail[t] + cardinality_
      BY <1>1, <1>3, <1>5
    <2> QED
      BY <1>3, <1>5, <2>1, <2>2, PosDiffer
  <1>6. ASSUME NEW t \in Threads, NEW i \in Nat, Owns(t), head_ <= i, i < tail_
        PROVE  Pos(head[t]) # Pos(i)
    <2>1. head[t] # i /\ head[t] < i + cardinality_ /\ i < head[t] + cardinality_
      BY <1>1, <1>2, <1>6
    <2> QED
      BY <1>2, <1>6, <2>1, PosDiffer
  <1>7. ASSUME NEW t \in Threads, NEW i \in Nat, Fills(t), head_ <= i,
               i < head_ + cardinality_, i # tail[t]
        PROVE  Pos(tail[t]) # Pos(i)
    <2>1. tail[t] < i + cardinality_ /\ i < tail[t] + cardinality_
      BY <1>1, <1>3, <1>7
    <2> QED
      BY <1>3, <1>7, <2>1, PosDiffer
  <1>8. \A t \in Threads : Owns(t) /\ head_ < tail_ => Pos(head[t]) # Pos(head_)
    BY <1>1, <1>6
  <1>9. \A t \in Threads : Fills(t) /\ tail_ < head_ + cardinality_ => Pos(tail[t]) # Pos(tail_)
    BY <1>1, <1>3, <1>7
  <1>10. \A t \in Threads : \A i \in Nat :
           Fills(t) /\ head_ <= i /\ i < tail_ /\ i # tail[t] => Pos(tail[t]) # Pos(i)
    BY <1>1, <1>7
  <1> QED
    BY <1>4, <1>5, <1>6, <1>8, <1>9, <1>10

\* The element is put into the slot, or its assignment throws.
LEMMA WriteKeeps ==
    ASSUME Core, NEW t \in Threads, Write(t)
    PROVE  Core' /\ Others(t) /\ op'[t] # "none"
  <1>1. pc[t] = "write" /\ UNCHANGED <<head_, tail_, value_state_, head, tail>>
    BY DEF Write
  <1>2. PICK p \in {"set_valid", "set_invalid"} : Goto(t, p)
    BY DEF Write
  <1>3. /\ Others(t) /\ LocalTypes' /\ pc'[t] = p /\ op'[t] = op[t]
        /\ res'[t] = res[t] /\ head'[t] = head[t] /\ tail'[t] = tail[t] /\ op'[t] # "none"
    BY <1>1, <1>2, Moves DEF Places
  <1>4. /\ Fills(t) /\ ~Owns(t) /\ PlaceAt(t) /\ tail[t] \in Nat
    BY <1>1 DEF Fills, Owns, Core, ThreadsInv, PlaceAt, Pushing
  <1>5. PlaceAt(t)'
    BY <1>1, <1>3, <1>4 DEF PlaceAt, Popping, Pushing
  <1>6. PopAt(t)' /\ PushAt(t)' /\ ~Owns(t)'
    BY <1>3 DEF PopAt, PushAt, Owns
  <1>7. CASE UNCHANGED values_ /\ Goto(t, "set_invalid")
    <2>1. pc'[t] = "set_invalid"
      BY <1>1, <1>7, Moves DEF Places
    <2>2. Settles(t)
      BY <1>3, <1>4, <1>5, <1>6, <2>1 DEF Settles
    <2>3. UNCHANGED shared
      BY <1>1, <1>7 DEF shared
    <2> QED
      BY <1>3, <2>2, <2>3, CalmKeeps
  <1>8. CASE values_' = [values_ EXCEPT ![Pos(tail[t])] = tail[t]]
    <2>1. /\ values_ \in [Slots -> Nat \cup {NoIndex}] /\ Pos(tail[t]) \in Slots
      BY <1>4, Position DEF Core, Types, SharedTypes
    <2>2. /\ values_'[Pos(tail[t])] = tail[t] /\ values_' \in [Slots -> Nat \cup {NoIndex}]
          /\ \A s \in Slots : s # Pos(tail[t]) => values_'[s] = values_[s]
      BY <1>4, <1>8, <2>1
    <2>3. Types'
      BY <1>1, <1>3, <2>2 DEF Core, Types, SharedTypes
    <2>4. \A u \in Threads \ {t} : /\ pc'[u] = pc[u] /\ op'[u] = op[u]
                                   /\ head'[u] = head[u] /\ tail'[u] = tail[u]
      BY <1>3 DEF Others
    <2>5. \A u \in Threads : Owns(u)' => Owns(u) /\ head'[u] = head[u] /\ u # t
      BY <1>6, <2>4 DEF Owns
    <2>6. \A u \in Threads : Fills(u)' => Fills(u) /\ tail'[u] = tail[u]
      BY <1>3, <1>4, <2>4 DEF Fills
    <2>7. value_state_[Pos(tail[t])] = "waiting"
      BY <1>4 DEF Core, ThreadsInv, FillAt
    <2>8. ApartInv'
      BY <2>5, <2>6 DEF Core, ApartInv
    <2>9. WindowInv'
      <3> SUFFICES ASSUME NEW i \in Nat, head_ <= i, i < tail_, value_state_[Pos(i)] = "valid"
                   PROVE  values_'[Pos(i)] = i
        BY <1>1 DEF Core, WindowInv
      <3> QED
        BY <2>2, <2>7, Position DEF Core, WindowInv
    <2>10. ThreadsInv'
      <3> SUFFICES ASSUME NEW u \in Threads
                   PROVE  (PlaceAt(u) /\ PopAt(u) /\ OwnAt(u) /\ PushAt(u) /\ FillAt(u))'
        BY DEF ThreadsInv
      <3>1. PlaceAt(u) /\ PopAt(u) /\ OwnAt(u) /\ PushAt(u) /\ FillAt(u)
        BY DEF Core, ThreadsInv
      <3>2. OwnAt(u)'
        <4>1. Owns(u) => head[u] \in Nat
          BY <3>1 DEF PlaceAt, Popping, Owns
        <4>2. Owns(u) => Pos(head[u]) \in Slots
          BY <4>1, Position
        <4> QED
          BY <1>1, <2>2, <2>5, <2>7, <3>1, <4>2 DEF OwnAt
      <3>3. FillAt(u)'
        <4>1. Fills(u) => tail[u] \in Nat
          BY <3>1 DEF PlaceAt, Pushing, Fills
        <4>2. Fills(u) => Pos(tail[u]) \in Slots
          BY <4>1, Position
        <4>3. Fills(u) /\ u # t => Pos(tail[t]) # Pos(tail[u])
          BY <1>4, OwnSlots
        <4> QED
          BY <1>1, <2>2, <2>4, <2>6, <3>1, <4>2, <4>3 DEF FillAt
      <3>4. CASE u = t
        BY <1>5, <1>6, <3>2, <3>3, <3>4
      <3>5. CASE u # t
        <4>1. PlaceAt(u)'
          BY <1>1, <1>3, <3>5, OthersPlace DEF Core, Types, SharedTypes
        <4>2. PopAt(u)' /\ PushAt(u)'
          BY <1>1, <2>4, <2>6, <3>1, <3>5 DEF PopAt, PushAt
        <4> QED
          BY <3>2, <3>3, <4>1, <4>2
      <3> QED
        BY <3>4, <3>5
    <2> QED
      BY <1>3, <2>3, <2>8, <2>9, <2>10 DEF Core
  <1> QED
    BY <1>7, <1>8 DEF Write

\* A thread changes the state of the slot s and leaves: its own slot, or one
\* that is invalid.
LEMMA StateKeeps ==
    ASSUME Core, NEW t \in Threads, Others(t), LocalTypes', Left(t),
           UNCHANGED <<head_, tail_, values_>>,
           NEW s \in Slots, NEW new \in {"valid", "waiting", "invalid"},
           value_state_' = [value_state_ EXCEPT ![s] = new],
           \/ new = "waiting" /\ Owns(t) /\ s = Pos(head[t])
           \/ new = "waiting" /\ value_state_[s] = "invalid"
           \/ Fills(t) /\ s = Pos(tail[t]) /\ (new = "valid" => pc[t] = "set_valid")
    PROVE  Core'
  <1>1. /\ value_state_'[s] = new
        /\ value_state_' \in [Slots -> {"valid", "waiting", "invalid"}]
        /\ \A x \in Slots : x # s => value_state_'[x] = value_state_[x]
    BY DEF Core, Types, SharedTypes
  <1>2. Types'
    BY <1>1 DEF Core, Types, SharedTypes
  <1>3. \A u \in Threads \ {t} : /\ pc'[u] = pc[u] /\ op'[u] = op[u]
                                 /\ head'[u] = head[u] /\ tail'[u] = tail[u]
    BY DEF Others
  <1>4. Settles(t) /\ ~Owns(t)' /\ ~Fills(t)'
    BY LeftSettles
  <1>5. \A u \in Threads : Owns(u)' => Owns(u) /\ head'[u] = head[u] /\ u # t
    BY <1>3, <1>4 DEF Owns
  <1>6. \A u \in Threads : Fills(u)' =>
          Fills(u) /\ tail'[u] = tail[u] /\ pc'[u] = pc[u] /\ u # t
    BY <1>3, <1>4 DEF Fills
  <1>7. Fills(t) => value_state_[Pos(tail[t])] = "waiting"
    BY DEF Core, ThreadsInv, FillAt
  <1>8. head_ \in Nat /\ tail_ \in Nat /\ Pos(head_) \in Slots /\ Pos(tail_) \in Slots
    BY Position DEF Core, Types, SharedTypes
  <1>9. ApartInv'
    BY <1>5, <1>6 DEF Core, ApartInv
  <1>10. WindowInv'
    <2> SUFFICES ASSUME NEW i \in Nat, head_ <= i, i < tail_, value_state_'[Pos(i)] = "valid"
                 PROVE  values_[Pos(i)] = i
      BY DEF Core, WindowInv
    <2>1. CASE Pos(i) # s
      BY <2>1, <1>1, Position DEF Core, WindowInv
    <2>2. CASE Pos(i) = s
      <3>1. new = "valid"
        BY <2>2, <1>1
      <3>2. Fills(t) /\ Pos(i) = Pos(tail[t]) /\ pc[t] = "set_valid"
        BY <2>2, <3>1
      <3>3. i = tail[t]
        BY <3>2, OwnSlots
      <3> QED
        BY <3>2, <3>3 DEF Core, ThreadsInv, FillAt
    <2> QED
      BY <2>1, <2>2
  <1>11. ThreadsInv'
    <2> SUFFICES ASSUME NEW u \in Threads
                 PROVE  (PlaceAt(u) /\ PopAt(u) /\ OwnAt(u) /\ PushAt(u) /\ FillAt(u))'
      BY DEF ThreadsInv
    <2>1. PlaceAt(u) /\ PopAt(u) /\ OwnAt(u) /\ PushAt(u) /\ FillAt(u)
      BY DEF Core, ThreadsInv
    <2>2. OwnAt(u)'
      <3> SUFFICES ASSUME Owns(u)' PROVE OwnAt(u)'
        BY DEF OwnAt
      <3>1. Owns(u) /\ head'[u] = head[u] /\ u # t /\ head[u] \in Nat
        BY <1>5, <2>1 DEF PlaceAt, Popping, Owns
      <3>2. /\ value_state_[Pos(head[u])] = "valid" /\ Pos(head[u]) \in Slots
        BY <2>1, <3>1, Position DEF OwnAt
      <3>3. Pos(head[u]) # s
        BY <1>7, <3>1, <3>2, OwnSlots
      <3> QED
        BY <1>1, <2>1, <3>1, <3>2, <3>3 DEF OwnAt
    <2>3. FillAt(u)'
      <3> SUFFICES ASSUME Fills(u)' PROVE FillAt(u)'
        BY DEF FillAt
      <3>1. Fills(u) /\ tail'[u] = tail[u] /\ pc'[u] = pc[u] /\ u # t /\ tail[u] \in Nat
        BY <1>6, <2>1 DEF PlaceAt, Pushing, Fills
      <3>2. /\ value_state_[Pos(tail[u])] = "waiting" /\ Pos(tail[u]) \in Slots
        BY <2>1, <3>1, Position DEF FillAt
      <3>3. value_state_'[Pos(tail[u])] = "waiting"
        BY <1>1, <3>1, <3>2, OwnSlots
      <3> QED
        BY <2>1, <3>1, <3>3 DEF FillAt
    <2>4. CASE u = t
      BY <1>4, <2>2, <2>3, <2>4 DEF Settles
    <2>5. CASE u # t
      <3>1. PlaceAt(u)'
        BY <1>8, <2>5, OthersPlace
      <3>2. PopAt(u)'
        <4>1. head_ < tail_ /\ value_state_[Pos(head_)] = "valid" =>
                value_state_'[Pos(head_)] = "valid"
          BY <1>1, <1>7, <1>8, OwnSlots
        <4> QED
          BY <1>3, <1>6, <2>1, <2>5, <4>1 DEF PopAt
      <3>3. PushAt(u)'
        <4>1. tail_ < head_ + cardinality_ /\ value_state_[Pos(tail_)] = "waiting" =>
                value_state_'[Pos(tail_)] = "waiting"
          BY <1>1, <1>8, OwnSlots
        <4> QED
          BY <1>3, <2>1, <2>5, <4>1 DEF PushAt
      <3> QED
        BY <2>2, <2>3, <3>1, <3>2, <3>3
    <2> QED
      BY <2>4, <2>5
  <1> QED
    BY <1>2, <1>9, <1>10, <1>11 DEF Core

LEMMA ClearValueKeeps ==
    ASSUME Core, NEW t \in Threads, clear_value(t)
    PROVE  Core' /\ Others(t) /\ Left(t)
  <1>1. pc[t] = "clear" /\ UNCHANGED <<head_, tail_, values_>>
    BY DEF clear_value
  <1>2. Owns(t) /\ PlaceAt(t) /\ head[t] \in Nat /\ res[t] \in {"none", "exception"}
    BY <1>1 DEF Core, ThreadsInv, PlaceAt, Popping, Owns
  <1>3. Others(t) /\ LocalTypes' /\ Left(t)
    BY <1>2, ReturnFrame DEF clear_value, Core, Types, Left
  <1>4. CASE value_state_' = [value_state_ EXCEPT ![Pos(head[t])] = "waiting"]
    BY <1>1, <1>2, <1>3, <1>4, Position, StateKeeps
  <1>5. CASE UNCHANGED value_state_
    BY <1>1, <1>3, <1>5, LeftSettles, CalmKeeps DEF shared
  <1> QED
    BY <1>3, <1>4, <1>5 DEF clear_value, CasState

LEMMA ClearInvalidKeeps ==
    ASSUME Core, NEW t \in Threads, ClearInvalid(t)
    PROVE  Core' /\ Others(t) /\ Left(t)
  <1>1. pc[t] = "clear_invalid" /\ UNCHANGED <<head_, tail_, values_>>
    BY DEF ClearInvalid
  <1>2. PlaceAt(t) /\ head[t] \in Nat /\ op[t] # "none"
    BY <1>1 DEF Core, ThreadsInv, PlaceAt, Popping
  <1>3. Others(t) /\ LocalTypes' /\ Left(t)
    BY <1>2, BusyFrame DEF ClearInvalid, Core, Types
  <1>4. CASE /\ value_state_[Pos(head[t])] = "invalid"
             /\ value_state_' = [value_state_ EXCEPT ![Pos(head[t])] = "waiting"]
    BY <1>1, <1>2, <1>3, <1>4, Position, StateKeeps
  <1>5. CASE UNCHANGED value_state_
    BY <1>1, <1>3, <1>5, LeftSettles, CalmKeeps DEF shared
  <1> QED
    BY <1>3, <1>4, <1>5 DEF ClearInvalid, CasState

LEMMA SetStateKeeps ==
    ASSUME Core, NEW t \in Threads, set_state(t)
    PROVE  Core' /\ Others(t) /\ Left(t)
  <1>1. pc[t] \in {"set_valid", "set_invalid"} /\ UNCHANGED <<head_, tail_, values_>>
    BY DEF set_state
  <1>2. Fills(t) /\ PlaceAt(t) /\ tail[t] \in Nat
    BY <1>1 DEF Core, ThreadsInv, PlaceAt, Pushing, Fills
  <1>3. Others(t) /\ LocalTypes' /\ Left(t)
    BY <1>2, ReturnFrame DEF set_state, Core, Types, Left
  <1>4. CASE \/ /\ pc[t] = "set_valid"
                /\ value_state_' = [value_state_ EXCEPT ![Pos(tail[t])] = "valid"]
             \/ /\ pc[t] = "set_invalid"
                /\ value_state_' = [value_state_ EXCEPT ![Pos(tail[t])] = "invalid"]
    BY <1>1, <1>2, <1>3, <1>4, Position, StateKeeps
  <1>5. CASE UNCHANGED value_state_
    BY <1>1, <1>3, <1>5, LeftSettles, CalmKeeps DEF shared
  <1> QED
    BY <1>3, <1>4, <1>5 DEF set_state, CasState

-----------------------------------------------------------------------------
(* The invariant.                                                          *)

LEMMA PosSmall ==
    ASSUME NEW i \in Slots
    PROVE  Pos(i) = i
  <1> DEFINE a == i \div cardinality_
  <1>1. i \in Nat /\ i < cardinality_ /\ cardinality_ \in Nat \ {0}
    BY CardinalityAssumption DEF Slots
  <1>a. a \in Int /\ i = cardinality_ * a + Pos(i) /\ Pos(i) \in Slots
    BY <1>1, Division, Position
  <1> HIDE DEF a
  <1>2. /\ a \in Int /\ Pos(i) \in Int /\ 0 <= Pos(i) /\ Pos(i) < cardinality_
        /\ i = cardinality_ * a + Pos(i)
    BY <1>1, <1>a DEF Slots
  <1>3. cardinality_ * a \in Int
    BY <1>1, <1>2
  <1>4. cardinality_ * a > - cardinality_ /\ cardinality_ * a < cardinality_
    BY <1>1, <1>2, <1>3
  <1>5. a = 0
    BY <1>2, <1>4, SmallMultiple
  <1>6. cardinality_ * a = 0
    BY <1>1, <1>5
  <1> QED
    BY <1>1, <1>2, <1>6

LEMMA Initial == Init => IInv
  <1> SUFFICES ASSUME Init PROVE IInv
    OBVIOUS
  <1>1. PICK k \in 0 .. cardinality_ :
          /\ tail_ = k
          /\ value_state_ = [s \in Slots |-> IF s < k THEN "valid" ELSE "waiting"]
          /\ values_ = [s \in Slots |-> IF s < k THEN s ELSE NoIndex]
    BY DEF Init
  <1>2. /\ head_ = 0 /\ k \in Nat /\ cardinality_ \in Nat /\ k <= cardinality_
        /\ \A s \in Slots : s \in Nat
    BY CardinalityAssumption DEF Init, Slots
  <1>3. \A t \in Threads : /\ pc[t] = "idle" /\ op[t] = "none" /\ res[t] = "none"
                           /\ head[t] = NoIndex /\ tail[t] = NoIndex
    BY DEF Init
  <1>4. SharedTypes
    BY <1>1, <1>2 DEF SharedTypes
  <1>5. LocalTypes
    BY DEF Init, LocalTypes, Places, AllOps
  <1>6. ThreadsInv /\ ApartInv
    BY <1>3 DEF ThreadsInv, ApartInv, PlaceAt, PopAt, OwnAt, PushAt, FillAt,
                Owns, Fills, Popping, Pushing
  <1>7. WindowInv
    <2> SUFFICES ASSUME NEW i \in Nat, i < k
                 PROVE  values_[Pos(i)] = i
      BY <1>1, <1>2 DEF WindowInv
    <2>1. i \in Slots
      BY <1>2 DEF Slots
    <2> QED
      BY <2>1, <1>1, PosSmall
  <1>8. SeenInv
    BY <1>3 DEF Init, SeenInv
  <1> QED
    BY <1>4, <1>5, <1>6, <1>7, <1>8 DEF IInv, Core, Types

\* Every step keeps the invariant, changes one thread, and answers honestly.
LEMMA StepKeeps ==
    ASSUME Core, ~ReorderLoads, NEW t \in Threads, Begin(t) \/ Step(t)
    PROVE  Core' /\ Others(t) /\ Honest(t) /\ Record
  <1>1. Left(t) \/ op'[t] # "none" => Honest(t)
    BY DEF Left, Honest
  <1>2. CASE Begin(t)
    <2>1. PICK o \in Ops : op' = [op EXCEPT ![t] = o]
      BY <1>2 DEF Begin, Call
    <2>2. o # "none"
      BY OpsAssumption DEF PopOps, PushOps, QueryOps
    <2>3. Others(t) /\ op'[t] # "none"
      BY <1>2, <2>1, <2>2 DEF Begin, Call, Core, Types, LocalTypes, Others
    <2> QED
      BY <1>1, <1>2, <2>3, CallKeeps DEF Begin
  <1>3. CASE Step(t)
    <2>1. Record
      BY <1>3 DEF Step
    <2>2. CASE LoadHead(t)
      BY <2>1, <2>2, LoadHeadKeeps
    <2>3. CASE LoadTail(t)
      BY <2>1, <2>3, LoadTailKeeps
    <2>4. CASE PopState(t)
      BY <1>1, <2>1, <2>4, PopStateKeeps
    <2>5. CASE CasHead(t)
      BY <1>1, <2>1, <2>5, CasHeadKeeps
    <2>6. CASE Copy(t)
      BY <1>1, <2>1, <2>6, CopyKeeps
    <2>7. CASE clear_value(t)
      BY <1>1, <2>1, <2>7, ClearValueKeeps
    <2>8. CASE SkipInvalid(t)
      BY <1>1, <2>1, <2>8, SkipInvalidKeeps
    <2>9. CASE ClearInvalid(t)
      BY <1>1, <2>1, <2>9, ClearInvalidKeeps
    <2>10. CASE PushState(t)
      BY <1>1, <2>1, <2>10, PushStateKeeps
    <2>11. CASE CasTail(t)
      BY <1>1, <2>1, <2>11, CasTailKeeps
    <2>12. CASE Write(t)
      BY <1>1, <2>1, <2>12, WriteKeeps
    <2>13. CASE set_state(t)
      BY <1>1, <2>1, <2>13, SetStateKeeps
    <2> QED
      BY <1>3, <2>2, <2>3, <2>4, <2>5, <2>6, <2>7, <2>8, <2>9, <2>10, <2>11, <2>12, <2>13 DEF Step
  <1> QED
    BY <1>2, <1>3

LEMMA Inductive ==
    ASSUME ~ReorderLoads, IInv, [Next]_vars
    PROVE  IInv'
  <1>1. CASE Next
    <2>1. PICK t \in Threads : Begin(t) \/ Step(t)
      BY <1>1 DEF Next
    <2>2. Core' /\ Record
      BY <2>1, StepKeeps DEF IInv
    <2>3. SeenInv'
      BY <2>2, Recorded DEF Core, Types
    <2> QED
      BY <2>2, <2>3 DEF IInv
  <1>2. CASE UNCHANGED vars
    BY <1>2 DEF vars, shared, IInv, Core, Types, SharedTypes, LocalTypes, ThreadsInv, ApartInv,
                WindowInv, SeenInv, PlaceAt, PopAt, OwnAt, PushAt, FillAt, Owns, Fills,
                Popping, Pushing, HeadFirst
  <1> QED
    BY <1>1, <1>2

-----------------------------------------------------------------------------
(* What follows from it.                                                   *)

\* A pop copies the element of the index that it reserved, out of a slot that
\* no other pop copies from and no push is filling: nonblocking_pop may read
\* the slot without a lock, and elements come out once each and in order.
THEOREM PopsCorrect ==
    ASSUME ~ReorderLoads
    PROVE  Spec => []PopsGetTheirElement
  <1>1. IInv => PopsGetTheirElement
    <2> SUFFICES ASSUME IInv, NEW t \in Threads, pc[t] = "copy"
                 PROVE  /\ values_[Pos(head[t])] = head[t]
                        /\ value_state_[Pos(head[t])] = "valid"
                        /\ \A u \in Threads \ {t} :
                             /\ pc[u] = "copy" => head[u] # head[t]
                             /\ pc[u] \in {"write", "set_valid"} => Pos(tail[u]) # Pos(head[t])
      BY DEF PopsGetTheirElement
    <2>1. Core /\ Owns(t)
      BY DEF IInv, Owns
    <2>2. values_[Pos(head[t])] = head[t] /\ value_state_[Pos(head[t])] = "valid"
      BY <2>1 DEF Core, ThreadsInv, OwnAt
    <2>3. \A u \in Threads \ {t} : pc[u] = "copy" => head[u] # head[t]
      BY <2>1 DEF Core, ApartInv, Owns
    <2>4. \A u \in Threads : Fills(u) => value_state_[Pos(tail[u])] = "waiting"
      BY <2>1 DEF Core, ThreadsInv, FillAt
    <2>5. \A u \in Threads : pc[u] \in {"write", "set_valid"} => Pos(tail[u]) # Pos(head[t])
      BY <2>2, <2>4 DEF Fills
    <2> QED
      BY <2>2, <2>3, <2>5
  <1>2. Init => IInv
    BY Initial
  <1>3. IInv /\ [Next]_vars => IInv'
    BY Inductive
  <1> QED
    BY <1>1, <1>2, <1>3, PTL DEF Spec

\* Pops answer empty, pushes full, is_empty and is_full true only if the queue
\* was so at some point of the call: a pop and is_empty read head_ before
\* tail_, a push and is_full tail_ before head_, and neither index goes back.
THEOREM TruthfulCorrect ==
    ASSUME ~ReorderLoads
    PROVE  Spec => TruthfulAnswers
  <1> DEFINE Truthful ==
        \A t \in Threads :
          /\ Answers(t, PopOps, "empty") \/ Answers(t, {"is_empty"}, "true") => "empty" \in seen[t]
          /\ Answers(t, PushOps, "full") \/ Answers(t, {"is_full"}, "true") => "full" \in seen[t]
  <1>1. ASSUME IInv, Next PROVE Truthful
    <2>1. PICK t \in Threads : Begin(t) \/ Step(t)
      BY <1>1 DEF Next
    <2>2. Others(t) /\ Honest(t)
      BY <1>1, <2>1, StepKeeps DEF IInv
    <2> SUFFICES ASSUME NEW u \in Threads
                 PROVE  /\ Answers(u, PopOps, "empty") \/ Answers(u, {"is_empty"}, "true")
                             => "empty" \in seen[u]
                        /\ Answers(u, PushOps, "full") \/ Answers(u, {"is_full"}, "true")
                             => "full" \in seen[u]
      OBVIOUS
    <2>3. /\ op[u] # "none" /\ head_ = tail_ => "empty" \in seen[u]
          /\ op[u] # "none" /\ tail_ = head_ + cardinality_ => "full" \in seen[u]
      BY <1>1 DEF IInv, SeenInv
    <2>4. op[u] \in PopOps \cup PushOps \cup {"is_empty", "is_full"} => op[u] # "none"
      BY DEF PopOps, PushOps
    <2>5. CASE u = t
      BY <2>2, <2>3, <2>4, <2>5 DEF Answers, Honest
    <2>6. CASE u # t
      BY <2>2, <2>4, <2>6 DEF Others, Answers
    <2> QED
      BY <2>5, <2>6
  <1>2. IInv /\ [Next]_vars => [Truthful]_vars
    BY <1>1
  <1>3. Init => IInv
    BY Initial
  <1>4. IInv /\ [Next]_vars => IInv'
    BY Inductive
  <1> QED
    BY <1>2, <1>3, <1>4, PTL DEF Spec, TruthfulAnswers

-----------------------------------------------------------------------------
(* Slots that are waited for.                                              *)

\* Only one thread pops, or no element's assignment throws.
OneSkipper == ~CopyThrows \/ \A t, u \in Consumers : t = u

\* Without exceptions no slot is ever invalid.
NoSkips ==
    /\ \A s \in Slots : value_state_[s] # "invalid"
    /\ \A t \in Threads : pc[t] \notin {"skip", "clear_invalid", "set_invalid"}

\* A pop that nobody overtakes is at head_ until it takes or skips its slot,
\* and a slot that it skips is not filled before it has cleared it.
Aims(t) == /\ op[t] \in PopOps
           /\ pc[t] \in {"state", "cas_head", "skip"} \/ (pc[t] = "load" /\ head[t] # NoIndex)

LoneAt(t) ==
    /\ op[t] \in PopOps => t \in Consumers
    /\ Aims(t) => head[t] = head_
    /\ pc[t] = "skip" => value_state_[Pos(head[t])] = "invalid"
    /\ pc[t] = "clear_invalid" =>
         tail_ <= head[t] + cardinality_ /\ value_state_[Pos(head[t])] = "invalid"

SkipsInv == IF CopyThrows THEN \A t \in Threads : LoneAt(t) ELSE NoSkips

OrphanInv == IInv /\ SkipsInv /\ NoOrphanSlot

\* What the steps of the other threads do to the slot of a pop.
Mild(t) ==
    op[t] \notin PopOps =>
      /\ head_' = head_
      /\ \A s \in Slots : value_state_[s] = "invalid" => value_state_'[s] = "invalid"
      /\ \/ tail_' = tail_
         \/ tail_' = tail_ + 1 /\ value_state_[Pos(tail_)] = "waiting"

LEMMA LoneKeeps ==
    ASSUME Core, CopyThrows, OneSkipper, \A v \in Threads : LoneAt(v),
           NEW t \in Threads, Others(t), Mild(t), LoneAt(t)'
    PROVE  \A u \in Threads : LoneAt(u)'
  <1> SUFFICES ASSUME NEW u \in Threads, u # t PROVE LoneAt(u)'
    OBVIOUS
  <1>1. /\ pc'[u] = pc[u] /\ op'[u] = op[u] /\ head'[u] = head[u]
    BY DEF Others
  <1>2. PlaceAt(u) /\ LoneAt(u) /\ LoneAt(t) /\ (pc[u] = "clear_invalid" => head[u] < head_)
    BY DEF Core, ThreadsInv, PopAt
  <1>3. CASE op[u] \notin PopOps
    <2>1. ~Popping(u)
      BY <1>2, <1>3 DEF PlaceAt
    <2> QED
      BY <1>1, <1>3, <2>1 DEF LoneAt, Aims, Popping
  <1>4. CASE op[u] \in PopOps
    <2>1. op[t] \notin PopOps
      BY <1>2, <1>4 DEF LoneAt, OneSkipper
    <2>2. /\ head_' = head_
          /\ \A s \in Slots : value_state_[s] = "invalid" => value_state_'[s] = "invalid"
          /\ \/ tail_' = tail_
             \/ tail_' = tail_ + 1 /\ value_state_[Pos(tail_)] = "waiting"
      BY <2>1 DEF Mild
    <2>3. Aims(u)' = Aims(u)
      BY <1>1 DEF Aims
    <2>4. pc[u] \in {"skip", "clear_invalid"} => head[u] \in Nat /\ Pos(head[u]) \in Slots
      BY <1>2, Position DEF PlaceAt, Popping
    <2>5. ASSUME pc[u] = "clear_invalid" PROVE tail_' <= head[u] + cardinality_
      <3>1. /\ tail_ <= head[u] + cardinality_ /\ value_state_[Pos(head[u])] = "invalid"
            /\ head[u] \in Nat /\ tail_ \in Nat /\ cardinality_ \in Nat
        BY <1>2, <2>4, <2>5, CardinalityAssumption DEF LoneAt, Core, Types, SharedTypes
      <3>2. value_state_[Pos(tail_)] = "waiting" => tail_ # head[u] + cardinality_
        BY <3>1, PosSame
      <3> QED
        BY <2>2, <3>1, <3>2
    <2> QED
      BY <1>1, <1>2, <2>2, <2>3, <2>4, <2>5 DEF LoneAt
  <1> QED
    BY <1>3, <1>4

\* A push fills the slots that were waiting, or the thread t moves on to them.
LEMMA OrphanKeeps ==
    ASSUME Core, NoOrphanSlot, NEW t \in Threads, Others(t), Core', head_ <= head_',
           \A i \in Nat : head_' <= i /\ i < tail_' /\ value_state_'[Pos(i)] = "waiting" =>
             \/ Fills(t)' /\ tail'[t] = i
             \/ i < tail_ /\ value_state_[Pos(i)] = "waiting" /\ ~(Fills(t) /\ tail[t] = i)
    PROVE  NoOrphanSlot'
  <1>1. head_ \in Nat /\ tail_ \in Nat /\ head_' \in Nat /\ tail_' \in Nat
    BY DEF Core, Types, SharedTypes
  <1>b. \A a, b \in Nat : \A i \in a .. b - 1 : i \in Nat /\ a <= i /\ i < b
    OBVIOUS
  <1>a. \A i \in head_' .. tail_' - 1 : i \in Nat /\ head_' <= i /\ i < tail_'
    BY <1>1, <1>b
  <1> SUFFICES ASSUME NEW i \in Nat, head_' <= i, i < tail_', value_state_'[Pos(i)] = "waiting"
               PROVE  \E u \in Threads : tail'[u] = i /\ Fills(u)'
    BY <1>a DEF NoOrphanSlot, Fills, Pos
  <1>2. CASE Fills(t)' /\ tail'[t] = i
    BY <1>2
  <1>3. CASE i < tail_ /\ value_state_[Pos(i)] = "waiting" /\ ~(Fills(t) /\ tail[t] = i)
    <2>1. i \in head_ .. tail_ - 1
      BY <1>1, <1>3
    <2>2. PICK u \in Threads : tail[u] = i /\ Fills(u)
      BY <1>3, <2>1 DEF NoOrphanSlot, Fills
    <2>3. u # t
      BY <1>3, <2>2
    <2> QED
      BY <2>2, <2>3 DEF Others, Fills
  <1> QED
    BY <1>2, <1>3

\* A step that leaves what is shared alone and is no push's.
LEMMA CalmOrphan ==
    ASSUME Core, NoOrphanSlot, NEW t \in Threads, Others(t), Core', UNCHANGED shared, ~Fills(t)
    PROVE  NoOrphanSlot'
  <1>1. head_ \in Nat /\ head_' = head_ /\ tail_' = tail_ /\ value_state_' = value_state_
    BY DEF shared, Core, Types, SharedTypes
  <1>2. head_ <= head_'
    BY <1>1
  <1> QED
    BY <1>1, <1>2, OrphanKeeps

\* A thread that has left its call, or is at its beginning, skips nothing.
LEMMA LeftLone ==
    ASSUME Core, NEW t \in Threads, Left(t), LoneAt(t)
    PROVE  LoneAt(t)'
  <1>1. pc'[t] \in {"idle", "load"} /\ head'[t] = NoIndex /\ (op'[t] = op[t] \/ op'[t] = "none")
    BY DEF Left
  <1>2. "none" \notin PopOps
    BY DEF PopOps
  <1> QED
    BY <1>1, <1>2 DEF LoneAt, Aims

LEMMA NoSkipsStep ==
    ASSUME Core, ~CopyThrows, NoSkips, NEW t \in Threads, Begin(t) \/ Step(t)
    PROVE  NoSkips'
  <1> DEFINE Skips == {"skip", "clear_invalid", "set_invalid"}
  <1>1. \A s \in Slots : value_state_[s] # "invalid"
    BY DEF NoSkips
  <1>2. \A u \in Threads : pc[u] \notin Skips
    BY DEF NoSkips
  <1>3. value_state_ \in [Slots -> {"valid", "waiting", "invalid"}]
    BY DEF Core, Types, SharedTypes
  <1>4. \A s \in Slots : value_state_'[s] # "invalid"
    <2>1. ASSUME NEW p, NEW old, NEW new \in {"valid", "waiting"}, CasState(p, old, new)
          PROVE  \A s \in Slots : value_state_'[s] # "invalid"
      BY <1>1, <1>3, <2>1 DEF CasState
    <2>2. UNCHANGED value_state_ => \A s \in Slots : value_state_'[s] # "invalid"
      BY <1>1
    <2>3. clear_value(t) => \A s \in Slots : value_state_'[s] # "invalid"
      BY <2>1 DEF clear_value
    <2>4. ClearInvalid(t) => \A s \in Slots : value_state_'[s] # "invalid"
      BY <2>1 DEF ClearInvalid
    <2>5. set_state(t) => \A s \in Slots : value_state_'[s] # "invalid"
      BY <1>2, <2>1 DEF set_state
    <2>6. \/ UNCHANGED value_state_
          \/ clear_value(t) \/ ClearInvalid(t) \/ set_state(t)
      BY DEF Begin, Step, Call, LoadHead, LoadTail, PopState, CasHead, Copy, SkipInvalid,
             PushState, CasTail, Write, shared
    <2> QED
      BY <2>2, <2>3, <2>4, <2>5, <2>6
  <1>5. \A u \in Threads : pc'[u] \notin Skips
    <2>1. pc \in [Threads -> Places] /\ \A u \in Threads : pc[u] \in Places
      BY DEF Core, Types, LocalTypes
    <2>2. \A p \in Places \ Skips : Goto(t, p) => \A u \in Threads : pc'[u] \notin Skips
      BY <1>2, <2>1 DEF Goto
    <2>3. \A s : Return(t, s) => \A u \in Threads : pc'[u] \notin Skips
      BY <1>2, <2>1 DEF Return
    <2>4. Busy(t) => \A u \in Threads : pc'[u] \notin Skips
      BY <2>2, <2>3 DEF Busy, Places
    <2>5. \A h, l : Concludes(t, h, l) => \A u \in Threads : pc'[u] \notin Skips
      BY <2>2, <2>3 DEF Concludes, Places
    <2>6. UNCHANGED pc => \A u \in Threads : pc'[u] \notin Skips
      BY <1>2
    <2>7. CASE Begin(t)
      BY <1>2, <2>1, <2>7 DEF Begin, Call
    <2>8. CASE LoadHead(t) \/ LoadTail(t)
      BY <2>5, <2>6, <2>8 DEF LoadHead, LoadTail
    <2>9. CASE PopState(t)
      <3>1. op[t] \in PopOps /\ pc[t] = "state"
        BY <2>9 DEF PopState
      <3>2. Pos(head[t]) \in Slots
        BY <3>1, Position DEF Core, ThreadsInv, PlaceAt, Popping
      <3> QED
        BY <1>1, <2>2, <2>4, <2>9, <3>2 DEF PopState, Places
    <2>10. CASE CasHead(t) \/ PushState(t) \/ CasTail(t)
      BY <2>2, <2>4, <2>10 DEF CasHead, PushState, CasTail, Places
    <2>11. CASE Copy(t)
      BY <1>2, <2>1, <2>11 DEF Copy
    <2>12. CASE Write(t)
      BY <2>2, <2>12 DEF Write, Places
    <2>13. CASE clear_value(t) \/ set_state(t)
      BY <2>3, <2>13 DEF clear_value, set_state
    <2>14. CASE ClearInvalid(t) \/ SkipInvalid(t)
      BY <1>2, <2>14 DEF ClearInvalid, SkipInvalid
    <2> QED
      BY <2>7, <2>8, <2>9, <2>10, <2>11, <2>12, <2>13, <2>14 DEF Step
  <1> QED
    BY <1>4, <1>5 DEF NoSkips

LEMMA LoneStep ==
    ASSUME Core, ~ReorderLoads, NEW t \in Threads, LoneAt(t), Begin(t) \/ Step(t)
    PROVE  Mild(t) /\ LoneAt(t)'
  <1>1. /\ PlaceAt(t) /\ PopAt(t) /\ PushAt(t) /\ FillAt(t) /\ head_ \in Nat /\ tail_ \in Nat
        /\ tail_ <= head_ + cardinality_ /\ cardinality_ \in Nat /\ NoIndex \notin Nat
    BY CardinalityAssumption, BoundAssumption
       DEF Core, ThreadsInv, WindowInv, Types, SharedTypes
  <1>2. UNCHANGED shared => Mild(t)
    BY DEF Mild, shared
  <1>3. PushOps \cap PopOps = {} /\ "none" \notin PopOps
    BY DEF PushOps, PopOps
  <1>4. CASE Begin(t)
    <2>1. PICK o \in Ops : op' = [op EXCEPT ![t] = o] /\ (o \in PopOps => t \in Consumers)
      BY <1>4 DEF Begin, Call
    <2>2. /\ UNCHANGED shared /\ pc'[t] = "load" /\ op'[t] = o /\ head'[t] = NoIndex
      BY <1>1, <1>4, <2>1 DEF Begin, Call, Core, Types, LocalTypes, PlaceAt
    <2> QED
      BY <1>2, <2>1, <2>2 DEF LoneAt, Aims
  <1>5. CASE LoadHead(t) \/ LoadTail(t)
    <2>1. UNCHANGED shared /\ pc[t] = "load"
      BY <1>5 DEF LoadHead, LoadTail
    <2>2. op'[t] \in PopOps => op[t] \in PopOps /\ head'[t] \in {head_, NoIndex}
                               /\ pc'[t] \in {"load", "state"} /\ (pc'[t] = "state" => head'[t] = head_)
      <3>1. CASE LoadHead(t) /\ tail[t] = NoIndex
        <4>1. head' = [head EXCEPT ![t] = head_] /\ UNCHANGED <<pc, op>>
          BY <3>1 DEF LoadHead
        <4> QED
          BY <2>1, <4>1 DEF Core, Types, LocalTypes
      <3>2. CASE LoadTail(t) /\ head[t] = NoIndex
        <4>1. UNCHANGED <<pc, op, head>>
          BY <3>2 DEF LoadTail
        <4> QED
          BY <2>1, <3>2, <4>1
      <3>3. CASE LoadHead(t) /\ tail[t] # NoIndex
        <4>1. op[t] \notin PopOps /\ tail[t] \in Nat
          BY <1>1, <2>1, <3>3 DEF PlaceAt, HeadFirst, Core, Types, LocalTypes
        <4>2. Concluded(t, head_, tail[t])
          BY <1>1, <3>3, <4>1, ConcludesFrame DEF LoadHead, Core, Types
        <4> QED
          BY <1>3, <4>1, <4>2 DEF Concluded
      <3>4. CASE LoadTail(t) /\ head[t] # NoIndex
        <4>1. head[t] \in Nat
          BY <3>4 DEF Core, Types, LocalTypes
        <4>2. Concluded(t, head[t], tail_)
          BY <1>1, <3>4, <4>1, ConcludesFrame DEF LoadTail, Core, Types
        <4>3. op[t] \in PopOps => head[t] = head_
          BY <2>1, <3>4 DEF LoneAt, Aims
        <4> QED
          BY <1>3, <4>2, <4>3 DEF Concluded
      <3> QED
        BY <1>5, <3>1, <3>2, <3>3, <3>4
    <2>3. pc'[t] \notin {"skip", "clear_invalid"}
      <3>1. pc' = pc \/ \E h, l : Concludes(t, h, l)
        BY <1>5 DEF LoadHead, LoadTail
      <3>2. pc'[t] \in {"load", "state", "idle"}
        BY <2>1, <3>1 DEF Concludes, Goto, Return, Core, Types, LocalTypes
      <3> QED
        BY <3>2
    <2> QED
      BY <1>2, <2>1, <2>2, <2>3 DEF LoneAt, Aims, shared
  <1>6. CASE PopState(t)
    <2>1. pc[t] = "state" /\ op[t] \in PopOps /\ UNCHANGED shared /\ op[t] # "none"
      BY <1>3, <1>6 DEF PopState
    <2>2. CASE Busy(t)
      BY <1>2, <2>1, <2>2, BusyFrame, LeftLone DEF Core, Types
    <2>3. CASE Goto(t, "cas_head") /\ UNCHANGED <<head, tail>>
      <3>1. pc'[t] = "cas_head" /\ op'[t] = op[t] /\ head'[t] = head[t]
        BY <2>1, <2>3, Moves DEF Places
      <3> QED
        BY <1>2, <2>1, <3>1 DEF LoneAt, Aims, shared
    <2>4. CASE value_state_[Pos(head[t])] = "invalid" /\ Goto(t, "skip") /\ UNCHANGED <<head, tail>>
      <3>1. pc'[t] = "skip" /\ op'[t] = op[t] /\ head'[t] = head[t]
        BY <2>1, <2>4, Moves DEF Places
      <3> QED
        BY <1>2, <2>1, <2>4, <3>1 DEF LoneAt, Aims, shared
    <2> QED
      BY <1>6, <2>2, <2>3, <2>4 DEF PopState
  <1>7. CASE CasHead(t)
    <2>1. pc[t] = "cas_head" /\ op[t] \in PopOps /\ op[t] # "none"
      BY <1>1, <1>3, <1>7 DEF CasHead, PlaceAt, Popping
    <2>2. CASE Busy(t)
      BY <2>1, <2>2, BusyFrame, LeftLone DEF Core, Types, Mild
    <2>3. CASE Goto(t, "copy") /\ UNCHANGED <<head, tail>>
      <3>1. pc'[t] = "copy" /\ op'[t] = op[t]
        BY <2>1, <2>3, Moves DEF Places
      <3> QED
        BY <2>1, <3>1 DEF LoneAt, Aims, Mild
    <2> QED
      BY <1>7, <2>2, <2>3 DEF CasHead
  <1>8. CASE Copy(t)
    <2>1. /\ pc'[t] = "clear" /\ op'[t] = op[t] /\ UNCHANGED shared
      BY <1>8 DEF Copy, Core, Types, LocalTypes
    <2> QED
      BY <1>2, <2>1 DEF LoneAt, Aims
  <1>9. CASE clear_value(t)
    <2>1. op[t] \in PopOps
      BY <1>1, <1>9 DEF clear_value, PlaceAt, Popping
    <2> QED
      BY <1>9, <2>1, ClearValueKeeps, LeftLone DEF Mild
  <1>10. CASE SkipInvalid(t)
    <2>1. /\ pc[t] = "skip" /\ op[t] \in PopOps /\ head[t] = head_
          /\ value_state_[Pos(head[t])] = "invalid"
      BY <1>1, <1>10 DEF SkipInvalid, PlaceAt, Popping, LoneAt, Aims
    <2>2. /\ pc'[t] = "clear_invalid" /\ op'[t] = op[t] /\ head'[t] = head[t]
          /\ tail_' = tail_ /\ value_state_' = value_state_
      BY <1>10, <2>1, Moves DEF SkipInvalid, Places
    <2> QED
      BY <1>1, <2>1, <2>2 DEF LoneAt, Aims, Mild
  <1>11. CASE ClearInvalid(t)
    <2>1. op[t] \in PopOps
      BY <1>1, <1>11 DEF ClearInvalid, PlaceAt, Popping
    <2> QED
      BY <1>11, <2>1, ClearInvalidKeeps, LeftLone DEF Mild
  <1>12. CASE PushState(t) \/ CasTail(t) \/ Write(t) \/ set_state(t)
    <2>1. op[t] \in PushOps /\ op[t] \notin PopOps
      BY <1>1, <1>3, <1>12
         DEF PushState, CasTail, Write, set_state, PlaceAt, Pushing
    <2>2. LoneAt(t)'
      <3>1. ASSUME NEW p \in {"cas_tail", "write", "set_valid", "set_invalid"}, Goto(t, p)
            PROVE  op'[t] = op[t] /\ pc'[t] = p
        BY <3>1 DEF Goto, Core, Types, LocalTypes
      <3>2. ASSUME Left(t) PROVE LoneAt(t)'
        BY <3>2, LeftLone
      <3>3. ASSUME Busy(t) PROVE LoneAt(t)'
        <4>1. op[t] # "none"
          BY <2>1 DEF PushOps
        <4> QED
          BY <3>2, <3>3, <4>1, BusyFrame DEF Core, Types
      <3>4. CASE PushState(t) \/ CasTail(t)
        BY <2>1, <3>1, <3>3, <3>4 DEF PushState, CasTail, LoneAt, Aims
      <3>5. CASE Write(t)
        BY <2>1, <3>1, <3>5 DEF Write, LoneAt, Aims
      <3>6. CASE set_state(t)
        BY <3>2, <3>6, SetStateKeeps
      <3> QED
        BY <1>12, <3>4, <3>5, <3>6
    <2>3. Mild(t)
      <3>1. CASE PushState(t)
        BY <1>2, <3>1 DEF PushState
      <3>2. CASE CasTail(t)
        BY <1>1, <3>2 DEF CasTail, PushAt, Mild
      <3>3. CASE Write(t)
        BY <3>3 DEF Write, Mild
      <3>4. CASE set_state(t)
        <4>1. Fills(t) /\ value_state_[Pos(tail[t])] = "waiting"
          BY <1>1, <3>4 DEF set_state, Fills, FillAt
        <4>2. \A s \in Slots : value_state_[s] = "invalid" => value_state_'[s] = "invalid"
          BY <3>4, <4>1 DEF set_state, CasState, Core, Types, SharedTypes
        <4> QED
          BY <3>4, <4>2 DEF set_state, Mild
      <3> QED
        BY <1>12, <3>1, <3>2, <3>3, <3>4
    <2> QED
      BY <2>2, <2>3
  <1> QED
    BY <1>4, <1>5, <1>6, <1>7, <1>8, <1>9, <1>10, <1>11, <1>12 DEF Step

LEMMA OrphanStep ==
    ASSUME Core, SkipsInv, NoOrphanSlot, ~WeakFails,
           NEW t \in Threads, Begin(t) \/ Step(t), Core', Others(t)
    PROVE  NoOrphanSlot'
  <1>1. /\ PlaceAt(t) /\ PopAt(t) /\ OwnAt(t) /\ FillAt(t)
        /\ head_ \in Nat /\ tail_ \in Nat /\ cardinality_ \in Nat \ {0}
        /\ value_state_ \in [Slots -> {"valid", "waiting", "invalid"}]
    BY CardinalityAssumption DEF Core, ThreadsInv, Types, SharedTypes
  <1>2. head_ <= head_ /\ head_ <= head_ + 1
    BY <1>1
  <1>3. CASE Begin(t)
    <2>1. UNCHANGED shared /\ ~Fills(t)
      BY <1>3 DEF Begin, Call, Fills
    <2> QED
      BY <2>1, CalmOrphan
  <1>4. CASE LoadHead(t) \/ LoadTail(t) \/ PopState(t) \/ Copy(t) \/ PushState(t)
    <2>1. UNCHANGED shared /\ ~Fills(t)
      BY <1>4 DEF LoadHead, LoadTail, PopState, Copy, PushState, Fills
    <2> QED
      BY <2>1, CalmOrphan
  <1>5. CASE CasHead(t) \/ SkipInvalid(t)
    <2>1. /\ head_' \in {head_, head_ + 1} /\ tail_' = tail_ /\ value_state_' = value_state_
          /\ ~Fills(t)
      BY <1>5 DEF CasHead, SkipInvalid, Fills
    <2>2. head_ <= head_'
      BY <1>2, <2>1
    <2> QED
      BY <2>1, <2>2, OrphanKeeps
  <1>6. CASE CasTail(t)
    <2>1. pc[t] = "cas_tail" /\ head_' = head_ /\ value_state_' = value_state_ /\ ~Fills(t)
      BY <1>6 DEF CasTail, Fills
    <2>2. CASE tail_ # tail[t]
      <3>1. UNCHANGED shared
        BY <1>6, <2>2 DEF CasTail, shared
      <3> QED
        BY <2>1, <3>1, CalmOrphan
    <2>3. CASE tail_ = tail[t]
      <3>1. tail_' = tail_ + 1 /\ Goto(t, "write") /\ UNCHANGED <<head, tail>>
        BY <1>6, <2>3 DEF CasTail
      <3>2. Fills(t)' /\ tail'[t] = tail_
        BY <2>1, <2>3, <3>1, Moves DEF Places, Fills
      <3>3. \A i \in Nat : i < tail_ + 1 => i = tail_ \/ i < tail_
        BY <1>1
      <3> QED
        BY <1>2, <2>1, <3>1, <3>2, <3>3, OrphanKeeps
    <2> QED
      BY <2>2, <2>3
  <1>7. CASE Write(t)
    <2>1. /\ head_' = head_ /\ tail_' = tail_ /\ value_state_' = value_state_ /\ tail' = tail
          /\ pc[t] = "write" /\ (Goto(t, "set_valid") \/ Goto(t, "set_invalid"))
      BY <1>7 DEF Write
    <2>2. Fills(t)'
      BY <2>1 DEF Goto, Fills, Core, Types, LocalTypes
    <2> QED
      BY <1>2, <2>1, <2>2, OrphanKeeps
  <1>8. CASE clear_value(t) \/ ClearInvalid(t)
    <2>1. /\ head_' = head_ /\ tail_' = tail_ /\ ~Fills(t) /\ head[t] \in Nat
      BY <1>1, <1>8 DEF clear_value, ClearInvalid, Fills, PlaceAt, Popping
    <2>2. \/ value_state_' = value_state_
          \/ value_state_' = [value_state_ EXCEPT ![Pos(head[t])] = "waiting"]
      BY <1>8 DEF clear_value, ClearInvalid, CasState
    <2>3. head[t] < head_ /\ tail_ <= head[t] + cardinality_
      <3>1. CASE clear_value(t)
        BY <1>1, <3>1 DEF clear_value, OwnAt, Owns
      <3>2. CASE ClearInvalid(t)
        BY <1>1, <3>2 DEF ClearInvalid, PopAt, SkipsInv, NoSkips, LoneAt
      <3> QED
        BY <1>8, <3>1, <3>2
    <2>4. ASSUME NEW i \in Nat, head_ <= i, i < tail_
          PROVE  value_state_'[Pos(i)] = value_state_[Pos(i)]
      <3>1. i # head[t] /\ i < head[t] + cardinality_ /\ head[t] < i + cardinality_
        BY <1>1, <2>1, <2>3, <2>4
      <3>2. Pos(i) # Pos(head[t]) /\ Pos(i) \in Slots
        BY <2>1, <3>1, PosDiffer, Position
      <3> QED
        BY <1>1, <2>2, <3>2
    <2> QED
      BY <1>2, <2>1, <2>4, OrphanKeeps
  <1>9. CASE set_state(t)
    <2>1. /\ head_' = head_ /\ tail_' = tail_ /\ Fills(t) /\ tail[t] \in Nat
      BY <1>1, <1>9 DEF set_state, Fills, PlaceAt, Pushing
    <2>2. value_state_[Pos(tail[t])] = "waiting"
      BY <1>1, <2>1 DEF FillAt
    <2>3. PICK new \in {"valid", "invalid"} :
            value_state_' = [value_state_ EXCEPT ![Pos(tail[t])] = new]
      BY <1>9, <2>2 DEF set_state, CasState
    <2>4. ASSUME NEW i \in Nat, value_state_'[Pos(i)] = "waiting"
          PROVE  value_state_[Pos(i)] = "waiting" /\ tail[t] # i
      <3>1. Pos(i) \in Slots /\ Pos(tail[t]) \in Slots
        BY <2>1, Position
      <3>2. Pos(i) # Pos(tail[t])
        BY <1>1, <2>3, <2>4, <3>1
      <3> QED
        BY <1>1, <2>3, <2>4, <3>1, <3>2
    <2> QED
      BY <1>2, <2>1, <2>4, OrphanKeeps
  <1> QED
    BY <1>3, <1>4, <1>5, <1>6, <1>7, <1>8, <1>9 DEF Step

LEMMA OrphanInductive ==
    ASSUME ~ReorderLoads, ~WeakFails, OneSkipper, OrphanInv, [Next]_vars
    PROVE  OrphanInv'
  <1>1. CASE Next
    <2>1. PICK t \in Threads : Begin(t) \/ Step(t)
      BY <1>1 DEF Next
    <2>2. Core /\ SkipsInv /\ NoOrphanSlot /\ Core' /\ Others(t)
      BY <2>1, StepKeeps DEF OrphanInv, IInv
    <2>3. IInv'
      BY Inductive DEF OrphanInv
    <2>4. SkipsInv'
      <3>1. CASE CopyThrows
        <4>1. \A u \in Threads : LoneAt(u)
          BY <2>2, <3>1 DEF SkipsInv
        <4>2. Mild(t) /\ LoneAt(t)'
          BY <2>1, <2>2, <4>1, LoneStep
        <4> QED
          BY <2>2, <3>1, <4>1, <4>2, LoneKeeps DEF SkipsInv
      <3>2. CASE ~CopyThrows
        BY <2>1, <2>2, <3>2, NoSkipsStep DEF SkipsInv
      <3> QED
        BY <3>1, <3>2
    <2>5. NoOrphanSlot'
      BY <2>1, <2>2, OrphanStep
    <2> QED
      BY <2>3, <2>4, <2>5 DEF OrphanInv
  <1>2. CASE UNCHANGED vars
    <2>1. IInv'
      BY Inductive DEF OrphanInv
    <2>2. SkipsInv'
      BY <1>2 DEF vars, shared, OrphanInv, SkipsInv, NoSkips, LoneAt, Aims
    <2>3. NoOrphanSlot'
      BY <1>2 DEF vars, shared, OrphanInv, NoOrphanSlot
    <2> QED
      BY <2>1, <2>2, <2>3 DEF OrphanInv
  <1> QED
    BY <1>1, <1>2

\* Every slot in the window that is waiting has a push that will fill it, if
\* the weak exchanges of set_state and clear_value do not fail spuriously, and
\* either no element's assignment throws or only one thread pops: a pop that
\* has skipped an invalid slot may otherwise find it invalid a lap later, and
\* clear it while the next pop has yet to skip it.
THEOREM NoOrphanCorrect ==
    ASSUME ~ReorderLoads, ~WeakFails, OneSkipper
    PROVE  Spec => []NoOrphanSlot
  <1>1. Init => OrphanInv
    <2> SUFFICES ASSUME Init PROVE OrphanInv
      OBVIOUS
    <2>1. IInv
      BY Initial
    <2>2. PICK k \in 0 .. cardinality_ :
            /\ tail_ = k /\ head_ = 0
            /\ value_state_ = [s \in Slots |-> IF s < k THEN "valid" ELSE "waiting"]
      BY DEF Init
    <2>3. SkipsInv
      BY <2>2 DEF Init, SkipsInv, NoSkips, LoneAt, Aims, PopOps
    <2>4. NoOrphanSlot
      <3>1. k \in Nat /\ k <= cardinality_ /\ cardinality_ \in Nat
        BY CardinalityAssumption
      <3>2. \A i \in 0 .. k - 1 : i \in Slots /\ i < k
        BY <3>1 DEF Slots
      <3> QED
        BY <2>2, <3>2, PosSmall DEF NoOrphanSlot
    <2> QED
      BY <2>1, <2>3, <2>4 DEF OrphanInv
  <1>2. OrphanInv /\ [Next]_vars => OrphanInv'
    BY OrphanInductive
  <1>3. OrphanInv => NoOrphanSlot
    BY DEF OrphanInv
  <1> QED
    BY <1>1, <1>2, <1>3, PTL DEF Spec

-----------------------------------------------------------------------------
(* Sums over finite sets.  A sum is a recursive function of the set; that  *)
(* something holds of every set is shown by taking a least set for which   *)
(* it does not, as the elements are removed from it one by one.            *)

Pick(s) == CHOOSE x \in s : TRUE

\* g adds up f over every subset of S, the way the fold does.
AddsUp(g, f, S) ==
    g = [s \in SUBSET S |-> IF s = {} THEN 0 ELSE f[Pick(s)] + g[s \ {Pick(s)}]]

\* Among sets with some property there is a least one, which stands for the
\* induction step.
LEMMA LeastSet ==
    ASSUME NEW S, IsFiniteSet(S), NEW Bad \in SUBSET SUBSET S, Bad # {}
    PROVE  \E s \in Bad : \A u \in Bad : u \subseteq s => u = s
  <1>1. IsWellFoundedOn(StrictSubsetOrdering(S), SUBSET S)
    BY FS_StrictSubsetOrderingWellFounded, FS_FiniteSubsetsOfFinite
  <1>2. PICK s \in Bad : \A u \in Bad : ~(<<u, s>> \in StrictSubsetOrdering(S))
    BY <1>1, WFMin
  <1>3. ASSUME NEW u \in Bad, u \subseteq s PROVE u = s
    BY <1>2, <1>3 DEF StrictSubsetOrdering
  <1> QED
    BY <1>2, <1>3

\* What such a function is at the empty set and at another one.
LEMMA AddsUpAt ==
    ASSUME NEW f, NEW S, NEW g, AddsUp(g, f, S)
    PROVE  /\ g[{}] = 0
           /\ \A s \in SUBSET S :
                s # {} => Pick(s) \in s /\ g[s] = f[Pick(s)] + g[s \ {Pick(s)}]
  <1>1. \A s \in SUBSET S : g[s] = IF s = {} THEN 0 ELSE f[Pick(s)] + g[s \ {Pick(s)}]
    BY DEF AddsUp
  <1> QED
    BY <1>1 DEF Pick

\* Two such functions agree on a set on which the summands do,
LEMMA AddsUpAgree ==
    ASSUME NEW f, NEW S, NEW g, AddsUp(g, f, S), NEW e, NEW T, NEW h, AddsUp(h, e, T),
           NEW W, IsFiniteSet(W), W \subseteq S, W \subseteq T, \A x \in W : f[x] = e[x]
    PROVE  g[W] = h[W]
  <1> DEFINE Bad == {s \in SUBSET W : g[s] # h[s]}
  <1>1. ASSUME Bad # {} PROVE FALSE
    <2>1. PICK s \in Bad : \A u \in Bad : u \subseteq s => u = s
      <3>1. Bad \in SUBSET SUBSET W
        OBVIOUS
      <3> HIDE DEF Bad
      <3> QED
        BY <1>1, <3>1, LeastSet
    <2>2. s \in SUBSET S /\ s \in SUBSET T /\ g[s] # h[s] /\ s \subseteq W
      OBVIOUS
    <2>3. s # {} /\ Pick(s) \in s
      <3>1. g[{}] = 0 /\ h[{}] = 0
        BY AddsUpAt
      <3> QED
        BY <2>2, <3>1 DEF Pick
    <2>4. g[s \ {Pick(s)}] = h[s \ {Pick(s)}]
      BY <2>1, <2>2, <2>3
    <2> QED
      BY <2>2, <2>3, <2>4, AddsUpAt
  <1> QED
    BY <1>1

\* and there is one,
LEMMA AddsUpExists ==
    ASSUME NEW f, NEW S, IsFiniteSet(S)
    PROVE  \E g : AddsUp(g, f, S)
  <1> DEFINE Bad == {T \in SUBSET S : ~ \E g : AddsUp(g, f, T)}
             G(u) == CHOOSE g : AddsUp(g, f, u)
  <1>1. ASSUME Bad # {} PROVE FALSE
    <2>1. PICK T \in Bad : \A u \in Bad : u \subseteq T => u = T
      <3>1. Bad \in SUBSET SUBSET S
        OBVIOUS
      <3> HIDE DEF Bad
      <3> QED
        BY <1>1, <3>1, LeastSet
    <2>2. \A u \in SUBSET T : u # T => AddsUp(G(u), f, u) /\ IsFiniteSet(u)
      BY <2>1, FS_Subset
    <2> DEFINE h == [s \in SUBSET T |->
                        IF s = {} THEN 0 ELSE f[Pick(s)] + G(s \ {Pick(s)})[s \ {Pick(s)}]]
    <2> HIDE DEF G
    <2>3. ASSUME NEW u \in SUBSET T, u # T PROVE h[u] = G(u)[u]
      <3>1. AddsUp(G(u), f, u) /\ IsFiniteSet(u)
        BY <2>2, <2>3
      <3>2. CASE u = {}
        BY <3>1, <3>2, AddsUpAt
      <3>3. CASE u # {}
        <4> DEFINE v == u \ {Pick(u)}
        <4>1. Pick(u) \in u /\ G(u)[u] = f[Pick(u)] + G(u)[v]
          BY <3>1, <3>3, AddsUpAt
        <4>2. AddsUp(G(v), f, v) /\ IsFiniteSet(v) /\ v \subseteq u
          BY <2>2, <2>3, <4>1
        <4>3. G(u)[v] = G(v)[v]
          BY <3>1, <4>2, AddsUpAgree
        <4> QED
          BY <3>3, <4>1, <4>3
      <3> QED
        BY <3>2, <3>3
    <2>4. \A s \in SUBSET T : s # {} =>
             h[s \ {Pick(s)}] = G(s \ {Pick(s)})[s \ {Pick(s)}]
      <3>1. \A s \in SUBSET T : s # {} => s \ {Pick(s)} # T /\ s \ {Pick(s)} \in SUBSET T
        BY DEF Pick
      <3> HIDE DEF h
      <3> QED
        BY <2>3, <3>1
    <2>5. h = [s \in SUBSET T |-> IF s = {} THEN 0 ELSE f[Pick(s)] + h[s \ {Pick(s)}]]
      <3>1. \A s \in SUBSET T :
               h[s] = IF s = {} THEN 0 ELSE f[Pick(s)] + G(s \ {Pick(s)})[s \ {Pick(s)}]
        OBVIOUS
      <3>2. h = [s \in SUBSET T |-> h[s]]
        OBVIOUS
      <3> HIDE DEF h
      <3> QED
        BY <2>4, <3>1, <3>2
    <2> QED
      BY <2>1, <2>5 DEF AddsUp
  <1> QED
    BY <1>1

\* so that the fold, which chooses one, adds up.
LEMMA SumDef ==
    ASSUME NEW f, NEW S, IsFiniteSet(S)
    PROVE  \E g : AddsUp(g, f, S) /\ CN!SumOver(f, S) = g[S]
  <1> DEFINE h == CHOOSE h : h = [s \in SUBSET S |->
                     IF s = {} THEN 0
                     ELSE f[CHOOSE x \in s : TRUE] + h[s \ {CHOOSE x \in s : TRUE}]]
  <1>1. CN!SumOver(f, S) = h[S]
    BY DEF CN!SumOver, CN!MapThenSumSet, CN!MapThenFoldSet
  <1>2. h = [s \in SUBSET S |->
                IF s = {} THEN 0
                ELSE f[CHOOSE x \in s : TRUE] + h[s \ {CHOOSE x \in s : TRUE}]]
    <2>1. PICK g : AddsUp(g, f, S)
      BY AddsUpExists
    <2>2. g = [s \in SUBSET S |->
                  IF s = {} THEN 0
                  ELSE f[CHOOSE x \in s : TRUE] + g[s \ {CHOOSE x \in s : TRUE}]]
      BY <2>1 DEF AddsUp, Pick
    <2> QED
      BY <2>2
  <1> QED
    BY <1>1, <1>2 DEF AddsUp, Pick

\* A sum depends on nothing but the summands,
LEMMA SumAgree ==
    ASSUME NEW S, IsFiniteSet(S), NEW f, NEW e, \A x \in S : f[x] = e[x]
    PROVE  CN!SumOver(f, S) = CN!SumOver(e, S)
  BY SumDef, AddsUpAgree

AnyOrder(g, f, S) ==
    \A s \in SUBSET S : g[s] \in Int /\ \A y \in s : g[s] = f[y] + g[s \ {y}]

\* and not on the order in which they are taken.
LEMMA AddsUpAnyOrder ==
    ASSUME NEW f, NEW S, IsFiniteSet(S), NEW g, AddsUp(g, f, S), \A x \in S : f[x] \in Int
    PROVE  AnyOrder(g, f, S)
  <1>0. \A u \in SUBSET S : u # {} => Pick(u) \in u /\ g[u] = f[Pick(u)] + g[u \ {Pick(u)}]
    BY AddsUpAt
  <1> DEFINE OK(s) == g[s] \in Int /\ \A y \in s : g[s] = f[y] + g[s \ {y}]
             Bad == {s \in SUBSET S : ~OK(s)}
  <1>1. ASSUME Bad # {} PROVE FALSE
    <2>1. PICK s \in Bad : \A u \in Bad : u \subseteq s => u = s
      <3>1. Bad \in SUBSET SUBSET S
        OBVIOUS
      <3> HIDE DEF Bad
      <3> QED
        BY <1>1, <3>1, LeastSet
    <2>2. \A u \in SUBSET s : u # s => OK(u)
      BY <2>1
    <2> HIDE DEF OK
    <2>3. s # {}
      <3>1. g[{}] = 0
        BY AddsUpAt
      <3>2. OK({})
        BY <3>1 DEF OK
      <3> QED
        BY <2>1, <3>2
    <2> DEFINE x == Pick(s)
    <2>4. x \in s /\ g[s] = f[x] + g[s \ {x}]
      BY <1>0, <2>1, <2>3
    <2> HIDE DEF x
    <2>5. OK(s \ {x}) /\ f[x] \in Int
      BY <2>1, <2>2, <2>4
    <2>6. g[s] \in Int
      BY <2>4, <2>5 DEF OK
    <2>7. ASSUME NEW y \in s PROVE g[s] = f[y] + g[s \ {y}]
      <3>1. CASE y = x
        BY <2>4, <3>1
      <3>2. CASE y # x
        <4> DEFINE v == (s \ {x}) \ {y}
        <4>1. g[s \ {x}] = f[y] + g[v]
          BY <2>5, <3>2 DEF OK
        <4>2. OK(s \ {y}) /\ OK(v) /\ f[y] \in Int /\ x \in s \ {y} /\ (s \ {y}) \ {x} = v
          BY <2>1, <2>2, <2>4, <3>2
        <4>3. g[s \ {y}] = f[x] + g[v]
          BY <4>2 DEF OK
        <4>4. g[v] \in Int
          BY <4>2 DEF OK
        <4> HIDE DEF v
        <4> QED
          BY <2>4, <2>5, <4>1, <4>2, <4>3, <4>4
      <3> QED
        BY <3>1, <3>2
    <2> QED
      BY <2>1, <2>6, <2>7 DEF OK
  <1> QED
    BY <1>1 DEF AnyOrder

\* The sum over no elements, and without one of the elements.
LEMMA SumEmpty == ASSUME NEW f PROVE CN!SumOver(f, {}) = 0
  <1>1. PICK g : AddsUp(g, f, {}) /\ CN!SumOver(f, {}) = g[{}]
    BY SumDef, FS_EmptySet
  <1> QED
    BY <1>1, AddsUpAt

LEMMA SumRemove ==
    ASSUME NEW S, IsFiniteSet(S), NEW f, \A x \in S : f[x] \in Int, NEW y \in S
    PROVE  /\ CN!SumOver(f, S) \in Int /\ CN!SumOver(f, S \ {y}) \in Int
           /\ CN!SumOver(f, S) = f[y] + CN!SumOver(f, S \ {y})
  <1>1. PICK g : AddsUp(g, f, S) /\ CN!SumOver(f, S) = g[S]
    BY SumDef
  <1>2. IsFiniteSet(S \ {y})
    BY FS_Subset
  <1>3. PICK h : AddsUp(h, f, S \ {y}) /\ CN!SumOver(f, S \ {y}) = h[S \ {y}]
    BY <1>2, SumDef
  <1>4. h[S \ {y}] = g[S \ {y}]
    BY <1>1, <1>2, <1>3, AddsUpAgree
  <1>5. g[S] = f[y] + g[S \ {y}] /\ g[S] \in Int /\ g[S \ {y}] \in Int
    <2>1. \A s \in SUBSET S : g[s] \in Int /\ \A x \in s : g[s] = f[x] + g[s \ {x}]
      <3>1. AnyOrder(g, f, S)
        BY <1>1, AddsUpAnyOrder
      <3> QED
        BY <3>1 DEF AnyOrder
    <2> QED
      BY <2>1
  <1> QED
    BY <1>1, <1>3, <1>4, <1>5

\* A sum of zeros, and of integers.
LEMMA SumZero ==
    ASSUME NEW S, IsFiniteSet(S), NEW f, \A x \in S : f[x] = 0
    PROVE  CN!SumOver(f, S) = 0
  <1> DEFINE Bad == {s \in SUBSET S : CN!SumOver(f, s) # 0}
  <1>1. ASSUME Bad # {} PROVE FALSE
    <2>1. PICK s \in Bad : \A u \in Bad : u \subseteq s => u = s
      <3>1. Bad \in SUBSET SUBSET S
        OBVIOUS
      <3> HIDE DEF Bad
      <3> QED
        BY <1>1, <3>1, LeastSet
    <2>2. CN!SumOver(f, s) # 0 /\ IsFiniteSet(s)
      BY <2>1, FS_Subset
    <2>3. PICK x \in s : TRUE
      <3>1. CN!SumOver(f, {}) = 0
        BY SumEmpty
      <3> QED
        BY <2>2, <3>1
    <2>4. CN!SumOver(f, s \ {x}) = 0 /\ f[x] = 0
      BY <2>1, <2>3
    <2>5. CN!SumOver(f, s) = f[x] + CN!SumOver(f, s \ {x})
      <3>1. \A y \in s : f[y] \in Int
        BY <2>1
      <3> HIDE DEF Bad
      <3> QED
        BY <2>2, <2>3, <3>1, SumRemove
    <2> QED
      BY <2>2, <2>4, <2>5
  <1> QED
    BY <1>1

LEMMA SumInt ==
    ASSUME NEW S, IsFiniteSet(S), NEW f, \A x \in S : f[x] \in Int
    PROVE  CN!SumOver(f, S) \in Int
  <1>1. CASE S = {}
    BY <1>1, SumEmpty
  <1>2. CASE S # {}
    BY <1>2, SumRemove
  <1> QED
    BY <1>1, <1>2

\* One summand changes.
LEMMA SumChange ==
    ASSUME NEW S, IsFiniteSet(S), NEW f, NEW e, NEW y \in S,
           \A x \in S : f[x] \in Int /\ e[x] \in Int, \A x \in S : x # y => e[x] = f[x]
    PROVE  CN!SumOver(e, S) = CN!SumOver(f, S) - f[y] + e[y]
  <1>1. CN!SumOver(f, S \ {y}) = CN!SumOver(e, S \ {y})
    BY SumAgree, FS_Subset
  <1>2. /\ CN!SumOver(f, S) = f[y] + CN!SumOver(f, S \ {y})
        /\ CN!SumOver(e, S) = e[y] + CN!SumOver(e, S \ {y})
        /\ CN!SumOver(f, S \ {y}) \in Int /\ f[y] \in Int /\ e[y] \in Int
    BY SumRemove
  <1> QED
    BY <1>1, <1>2

\* Larger summands make a larger sum.
LEMMA SumMonotone ==
    ASSUME NEW S, IsFiniteSet(S), NEW f, NEW e,
           \A x \in S : f[x] \in Int /\ e[x] \in Int /\ f[x] <= e[x]
    PROVE  CN!SumOver(f, S) <= CN!SumOver(e, S)
  <1> DEFINE Bad == {s \in SUBSET S : ~(CN!SumOver(f, s) <= CN!SumOver(e, s))}
  <1>1. ASSUME Bad # {} PROVE FALSE
    <2>1. PICK s \in Bad : \A u \in Bad : u \subseteq s => u = s
      <3>1. Bad \in SUBSET SUBSET S
        OBVIOUS
      <3> HIDE DEF Bad
      <3> QED
        BY <1>1, <3>1, LeastSet
    <2>2. s # {}
      <3>1. CN!SumOver(f, {}) = 0 /\ CN!SumOver(e, {}) = 0
        BY SumEmpty
      <3>2. ~(CN!SumOver(f, s) <= CN!SumOver(e, s))
        BY <2>1
      <3>3. ASSUME s = {} PROVE FALSE
        <4>1. ~(CN!SumOver(f, {}) <= CN!SumOver(e, {}))
          BY <3>2, <3>3
        <4> QED
          BY <3>1, <4>1
      <3> QED
        BY <3>3
    <2>3. PICK x \in s : TRUE
      BY <2>2
    <2>4. CN!SumOver(f, s \ {x}) <= CN!SumOver(e, s \ {x}) /\ IsFiniteSet(s)
      BY <2>1, FS_Subset
    <2>5. /\ CN!SumOver(f, s) = f[x] + CN!SumOver(f, s \ {x})
          /\ CN!SumOver(e, s) = e[x] + CN!SumOver(e, s \ {x})
          /\ CN!SumOver(f, s \ {x}) \in Int /\ CN!SumOver(e, s \ {x}) \in Int
          /\ f[x] \in Int /\ e[x] \in Int /\ f[x] <= e[x]
      BY <2>1, <2>4, SumRemove
    <2>6. ~(CN!SumOver(f, s) <= CN!SumOver(e, s))
      BY <2>1
    <2> HIDE DEF Bad
    <2> QED
      BY <2>4, <2>5, <2>6
  <1> QED
    BY <1>1

-----------------------------------------------------------------------------
(* The inductive invariant.                                                *)

\* Where a counting thread may be.
CounterPlaces == {"none", "idle", "store", "add", "erase"}

\* Without the bounds that the width of the counter sets.
CounterTypes ==
    /\ kind \in Kinds /\ value_ \in Int /\ total \in Int /\ raced \in BOOLEAN
    /\ serializer_ \in Readers \cup {NoThread}
    /\ children_ \in SUBSET Counters
    /\ broker_ \in [Counters -> Int] /\ buffer_ \in [Counters -> Int]
    /\ reg \in [Counters -> Int]
    /\ counterPc \in [Counters \cup Readers -> CounterPlaces \cup {"rollcall", "base"}]
    /\ todo \in [Readers -> SUBSET Counters]
    /\ tmp \in [Readers -> Int] /\ to \in [Readers -> Int]
    /\ counterRes \in [Readers -> Int] /\ floor \in [Readers -> Int]
    /\ counterOp \in [Readers -> {"none", "load", "exchange"}]

\* Brokers are a duplex counter's, and only what is read and then written with
\* nothing in between may be read and then written.
BrokerInv ==
    \A t \in Counters :
        /\ counterPc[t] \in CounterPlaces
        /\ counterPc[t] # "none" => kind # "simplex"
        /\ counterPc[t] = "store" => kind = "weak"
        /\ counterPc[t] = "add" => kind = "strong"

\* A query has the mutex while it visits the brokers; only a strong counter is
\* exchanged or reads its own count later.
QueryInv ==
    \A r \in Readers :
        /\ counterPc[r] \in {"none", "rollcall", "base"}
        /\ counterPc[r] = "none" <=> counterOp[r] = "none"
        /\ counterPc[r] = "rollcall" <=> serializer_ = r
        /\ counterPc[r] # "rollcall" => todo[r] = {}
        /\ counterPc[r] # "none" => kind # "simplex"
        /\ counterOp[r] = "none" => tmp[r] = 0
        /\ counterOp[r] = "exchange" \/ counterPc[r] = "base" => kind = "strong"

\* A dying broker's count is the one its destructor has read.
DyingInv ==
    ~raced => \A t \in Counters :
                 counterPc[t] = "add" \/ (counterPc[t] = "erase" /\ kind = "weak")
                    => reg[t] = broker_[t]

CounterIInv == CounterTypes /\ BrokerInv /\ QueryInv /\ NoDanglingBroker /\ DyingInv /\ Conservation

\* The brokers a query has yet to visit and those it has visited.
Unseen(r) == CN!SumOver(broker_, todo[r])
Seen(r) == CN!SumOver(broker_, children_ \ todo[r])

\* What keeps a weak counter's load within bounds: nobody's count goes down,
\* and the sum so far is made of brokers that have been visited.
WeakInv ==
    kind = "weak" =>
        /\ \A t \in Counters :
             /\ buffer_[t] >= 0
             /\ counterPc[t] = "store" => reg[t] >= broker_[t]
        /\ \A r \in Readers : counterPc[r] = "rollcall" =>
             /\ floor[r] <= value_ + tmp[r] + Unseen(r)
             /\ tmp[r] <= Seen(r)

-----------------------------------------------------------------------------
(* Types and places.                                                       *)

\* What the constants are assumed to satisfy, for citation.
LEMMA Constants ==
    /\ IsFiniteSet(Counters) /\ IsFiniteSet(Readers) /\ Counters \cap Readers = {}
    /\ NoThread \notin Readers /\ Kinds \subseteq {"simplex", "weak", "strong"}
    /\ Amounts \subseteq Int /\ Resets \subseteq Int
  BY CounterAssumption DEF CN!ConstantsOK, CN!AllKinds, CN!IsFiniteSet, IsFiniteSet

\* Counting into the thread's buffer.
BuffersOnly(t, by) ==
    /\ buffer_' = [buffer_ EXCEPT ![t] = @ + by]
    /\ UNCHANGED <<value_, broker_, reg, counterPc>>

LEMMA InitHolds ==
    CN!Init => CounterTypes /\ BrokerInv /\ QueryInv /\ NoDanglingBroker /\ DyingInv /\ WeakInv
  <1> SUFFICES ASSUME CN!Init
               PROVE  CounterTypes /\ BrokerInv /\ QueryInv /\ NoDanglingBroker /\ DyingInv /\ WeakInv
    OBVIOUS
  <1>1. CounterTypes
    <2>1. kind \in Kinds /\ value_ \in Int /\ total \in Int /\ raced \in BOOLEAN
      BY Constants DEF CN!Init
    <2>2. /\ broker_ \in [Counters -> Int] /\ buffer_ \in [Counters -> Int]
          /\ reg \in [Counters -> Int]
          /\ counterPc \in [Counters \cup Readers -> CounterPlaces \cup {"rollcall", "base"}]
      BY DEF CN!Init, CN!Threads, CounterPlaces
    <2>3. /\ todo \in [Readers -> SUBSET Counters]
          /\ tmp \in [Readers -> Int] /\ to \in [Readers -> Int]
          /\ counterRes \in [Readers -> Int] /\ floor \in [Readers -> Int]
          /\ counterOp \in [Readers -> {"none", "load", "exchange"}]
      BY DEF CN!Init
    <2> QED
      BY <2>1, <2>2, <2>3 DEF CN!Init, CounterTypes
  <1>2. /\ \A t \in Counters : counterPc[t] = "none" /\ buffer_[t] = 0
        /\ \A r \in Readers : /\ counterPc[r] = "none" /\ counterOp[r] = "none"
                              /\ todo[r] = {} /\ tmp[r] = 0
        /\ children_ = {} /\ serializer_ \notin Readers
    BY Constants DEF CN!Init, CN!Threads
  <1>3. BrokerInv
    BY <1>2 DEF BrokerInv, CounterPlaces
  <1>4. QueryInv
    BY <1>2 DEF QueryInv
  <1>5. NoDanglingBroker
    BY <1>2 DEF NoDanglingBroker, CN!NoDanglingBroker
  <1>6. DyingInv /\ WeakInv
    BY <1>2 DEF DyingInv, WeakInv
  <1> QED
    BY <1>1, <1>3, <1>4, <1>5, <1>6

LEMMA SharesType ==
    CounterTypes => \A t \in Counters : CN!Share(t) \in Int /\ CN!Shares[t] = CN!Share(t)
  BY DEF CounterTypes, CN!Shares, CN!Share

\* A step of a query ends it.
LEMMA BaseTypes ==
    ASSUME CounterTypes, NEW r \in Readers, NEW o, NEW x \in Int, NEW s \in Int, CN!Base(r, o, x, s)
    PROVE  /\ value_' \in Int /\ total' \in Int
           /\ counterPc' \in [Counters \cup Readers -> CounterPlaces \cup {"rollcall", "base"}]
           /\ tmp' \in [Readers -> Int] /\ to' \in [Readers -> Int]
           /\ counterRes' \in [Readers -> Int] /\ floor' \in [Readers -> Int]
           /\ counterOp' \in [Readers -> {"none", "load", "exchange"}]
           /\ todo' = todo
  <1>1. value_' \in Int /\ total' \in Int /\ s + value_ \in Int
    BY DEF CounterTypes, CN!Base
  <1>2. CN!Answer(r, s + value_)
    BY DEF CN!Base
  <1> QED
    BY <1>1, <1>2 DEF CN!Answer, CN!Goto, CounterTypes, CounterPlaces

LEMMA AddTypes ==
    ASSUME CounterTypes, NEW t \in Counters, NEW by \in Int, CN!Add(t, by)
    PROVE  /\ value_' \in Int /\ broker_' \in [Counters -> Int] /\ reg' \in [Counters -> Int]
           /\ counterPc' \in [Counters \cup Readers -> CounterPlaces \cup {"rollcall", "base"}]
  BY DEF CounterTypes, CN!Add, CN!Goto, CounterPlaces

LEMMA VisibleType == CounterTypes => CN!Visible \in Int
  <1> SUFFICES ASSUME CounterTypes PROVE CN!Visible \in Int
    OBVIOUS
  <1>1. IsFiniteSet(children_) /\ \A x \in children_ : broker_[x] \in Int
    BY Constants, FS_Subset DEF CounterTypes
  <1>2. CN!SumOver(broker_, children_) \in Int
    BY <1>1, SumInt
  <1> QED
    BY <1>2 DEF CN!Visible, CounterTypes

LEMMA NextTypes == CounterTypes /\ [CN!Next]_CN!vars => CounterTypes'
  <1> SUFFICES ASSUME CounterTypes, [CN!Next]_CN!vars PROVE CounterTypes'
    OBVIOUS
  <1> USE Constants
  <1>1. CASE UNCHANGED CN!vars
    BY <1>1 DEF CN!vars, CN!client, CN!counter, CN!query, CounterTypes
  <1>2. ASSUME NEW t \in Counters, CN!Bump(t) PROVE CounterTypes'
    <2>1. PICK by \in Amounts :
            /\ \/ CN!Add(t, by) /\ UNCHANGED buffer_
               \/ BuffersOnly(t, by)
            /\ total' = total + by
      BY <1>2 DEF CN!Bump, BuffersOnly
    <2>2. by \in Int
      OBVIOUS
    <2>3. /\ value_' \in Int /\ broker_' \in [Counters -> Int] /\ reg' \in [Counters -> Int]
          /\ counterPc' \in [Counters \cup Readers -> CounterPlaces \cup {"rollcall", "base"}]
          /\ buffer_' \in [Counters -> Int] /\ total' \in Int
      BY <2>1, <2>2, AddTypes DEF CounterTypes, BuffersOnly
    <2> QED
      BY <1>2, <2>3 DEF CN!Bump, CN!query, CounterTypes
  <1>3. ASSUME NEW t \in Counters, CN!Store(t) PROVE CounterTypes'
    BY <1>3 DEF CN!Store, CN!client, CN!query, CN!Goto, CounterTypes, CounterPlaces
  <1>4. ASSUME NEW t \in Counters, CN!push(t) PROVE CounterTypes'
    <2>1. CN!Add(t, buffer_[t]) /\ buffer_[t] \in Int /\ buffer_' = [buffer_ EXCEPT ![t] = 0]
      BY <1>4 DEF CN!push, CounterTypes
    <2>2. /\ value_' \in Int /\ broker_' \in [Counters -> Int] /\ reg' \in [Counters -> Int]
          /\ counterPc' \in [Counters \cup Readers -> CounterPlaces \cup {"rollcall", "base"}]
      BY <2>1, AddTypes
    <2>3. buffer_' \in [Counters -> Int]
      BY <2>1 DEF CounterTypes
    <2> QED
      BY <1>4, <2>2, <2>3 DEF CN!push, CN!client, CN!query, CounterTypes
  <1>5. ASSUME NEW t \in Counters, CN!insert(t) PROVE CounterTypes'
    BY <1>5 DEF CN!insert, CN!client, CN!query, CN!Goto, CounterTypes, CounterPlaces
  <1>6. ASSUME NEW t \in Counters, CN!DestroyBroker(t) PROVE CounterTypes'
    BY <1>6 DEF CN!DestroyBroker, CN!client, CN!query, CN!counter, CN!Goto, CounterTypes, CounterPlaces
  <1>7. ASSUME NEW t \in Counters, CN!EraseAdd(t) PROVE CounterTypes'
    BY <1>7 DEF CN!EraseAdd, CN!client, CN!query, CN!Goto, CounterTypes, CounterPlaces
  <1>8. ASSUME NEW t \in Counters, CN!erase(t) PROVE CounterTypes'
    <2>1. value_' \in Int
      BY <1>8 DEF CN!erase, CounterTypes
    <2> QED
      BY <1>8, <2>1 DEF CN!erase, CN!client, CN!query, CN!Goto, CounterTypes, CounterPlaces
  <1>9. ASSUME NEW r \in Readers, CN!SimplexQuery(r) PROVE CounterTypes'
    <2>1. PICK x \in Resets, o \in {"load", "exchange"} : CN!Base(r, o, x, 0)
      BY <1>9 DEF CN!SimplexQuery
    <2> QED
      BY <1>9, <2>1, BaseTypes DEF CN!SimplexQuery, CounterTypes
  <1>10. ASSUME NEW r \in Readers, CN!Query(r) PROVE CounterTypes'
    <2>1. floor' \in [Readers -> Int]
      BY <1>10, VisibleType DEF CN!Query, CounterTypes
    <2> QED
      BY <1>10, <2>1 DEF CN!Query, CN!client, CN!Goto, CounterTypes, CounterPlaces
  <1>11. ASSUME NEW r \in Readers, CN!poll(r) PROVE CounterTypes'
    <2>1. PICK c \in todo[r] :
             /\ tmp' = [tmp EXCEPT ![r] = @ + broker_[c]]
             /\ todo' = [todo EXCEPT ![r] = @ \ {c}]
             /\ IF counterOp[r] = "exchange"
                THEN /\ broker_' = [broker_ EXCEPT ![c] = 0]
                     /\ raced' = (raced \/ (counterPc[c] \in {"add", "erase"} /\ broker_[c] # 0))
                ELSE UNCHANGED <<broker_, raced>>
      BY <1>11 DEF CN!poll
    <2>2. c \in Counters
      BY DEF CounterTypes
    <2>3. tmp' \in [Readers -> Int] /\ todo' \in [Readers -> SUBSET Counters]
      BY <2>1, <2>2 DEF CounterTypes
    <2>4. broker_' \in [Counters -> Int]
      BY <2>1, <2>2 DEF CounterTypes
    <2>5. raced' \in BOOLEAN
      <3>1. CASE counterOp[r] = "exchange"
        BY <2>1, <3>1, Zenon
      <3>2. CASE counterOp[r] # "exchange"
        BY <2>1, <3>2 DEF CounterTypes
      <3> QED
        BY <3>1, <3>2
    <2> QED
      BY <1>11, <2>3, <2>4, <2>5 DEF CN!poll, CounterTypes
  <1>12. ASSUME NEW r \in Readers, CN!Unlock(r) PROVE CounterTypes'
    <2>1. serializer_' \in Readers \cup {NoThread}
      BY <1>12 DEF CN!Unlock
    <2>2. CASE kind = "weak"
      <3>1. CN!Base(r, "load", 0, tmp[r]) /\ tmp[r] \in Int
        BY <1>12, <2>2 DEF CN!Unlock, CounterTypes
      <3> QED
        BY <1>12, <2>1, <3>1, BaseTypes DEF CN!Unlock, CounterTypes
    <2>3. CASE kind # "weak"
      BY <1>12, <2>1, <2>3 DEF CN!Unlock, CN!query, CN!Goto, CounterTypes, CounterPlaces
    <2> QED
      BY <2>2, <2>3
  <1>13. ASSUME NEW r \in Readers, CN!StrongBase(r) PROVE CounterTypes'
    <2>1. CN!Base(r, counterOp[r], to[r], tmp[r]) /\ to[r] \in Int /\ tmp[r] \in Int
      BY <1>13 DEF CN!StrongBase, CounterTypes
    <2> QED
      BY <1>13, <2>1, BaseTypes DEF CN!StrongBase, CounterTypes
  <1> QED
    BY <1>1, <1>2, <1>3, <1>4, <1>5, <1>6, <1>7, <1>8, <1>9, <1>10, <1>11, <1>12, <1>13
       DEF CN!Next

\* Every step is a counting thread's, which leaves the queries alone, or a
\* reader's, which leaves the counting threads where they are.
CounterStep(t) ==
    \/ CN!Bump(t) \/ CN!Store(t) \/ CN!push(t) \/ CN!insert(t)
    \/ CN!DestroyBroker(t) \/ CN!EraseAdd(t) \/ CN!erase(t)
ReaderStep(r) ==
    CN!SimplexQuery(r) \/ CN!Query(r) \/ CN!poll(r) \/ CN!Unlock(r) \/ CN!StrongBase(r)

\* What a step leaves alone, by whose step it is, and how it moves its thread.
LEMMA CounterFrame ==
    ASSUME CounterTypes, NEW t \in Counters, CounterStep(t)
    PROVE  /\ \A u \in Counters \cup Readers : u # t => counterPc'[u] = counterPc[u]
           /\ UNCHANGED <<kind, raced, serializer_>>
           /\ UNCHANGED <<todo, tmp, counterOp, to, counterRes, floor>>
           /\ \A u \in Counters : u # t => /\ broker_'[u] = broker_[u] /\ buffer_'[u] = buffer_[u]
                                           /\ reg'[u] = reg[u]
  <1>1. CASE CN!Bump(t)
    <2>1. \A by : CN!Add(t, by) =>
             /\ \A u \in Counters \cup Readers : u # t => counterPc'[u] = counterPc[u]
             /\ \A u \in Counters : u # t => broker_'[u] = broker_[u] /\ reg'[u] = reg[u]
      BY DEF CN!Add, CN!Goto, CounterTypes
    <2> QED
      BY <1>1, <2>1 DEF CN!Bump, CN!query, CounterTypes
  <1>2. CASE CN!push(t)
    <2>1. CN!Add(t, buffer_[t]) =>
             /\ \A u \in Counters \cup Readers : u # t => counterPc'[u] = counterPc[u]
             /\ \A u \in Counters : u # t => broker_'[u] = broker_[u] /\ reg'[u] = reg[u]
      BY DEF CN!Add, CN!Goto, CounterTypes
    <2> QED
      BY <1>2, <2>1 DEF CN!push, CN!query, CN!client, CounterTypes
  <1>3. CASE CN!Store(t) \/ CN!insert(t) \/ CN!DestroyBroker(t) \/ CN!EraseAdd(t) \/ CN!erase(t)
    BY <1>3 DEF CN!Store, CN!insert, CN!DestroyBroker, CN!EraseAdd, CN!erase, CN!Goto,
                CN!query, CN!client, CN!counter, CounterTypes
  <1> QED
    BY <1>1, <1>2, <1>3 DEF CounterStep

LEMMA ReaderFrame ==
    ASSUME CounterTypes, NEW r \in Readers, ReaderStep(r)
    PROVE  /\ \A u \in Counters \cup Readers : u # r => counterPc'[u] = counterPc[u]
           /\ UNCHANGED <<kind, children_, buffer_, reg>>
           /\ \A u \in Readers : u # r => /\ todo'[u] = todo[u] /\ tmp'[u] = tmp[u]
                                          /\ counterOp'[u] = counterOp[u] /\ floor'[u] = floor[u]
  <1>1. ASSUME NEW v, CN!Answer(r, v)
        PROVE  /\ \A u \in Counters \cup Readers : u # r => counterPc'[u] = counterPc[u]
               /\ \A u \in Readers : u # r => /\ todo'[u] = todo[u] /\ tmp'[u] = tmp[u]
                                              /\ counterOp'[u] = counterOp[u] /\ floor'[u] = floor[u]
    BY <1>1 DEF CN!Answer, CN!Goto, CounterTypes
  <1>2. CASE CN!SimplexQuery(r)
    BY <1>1, <1>2 DEF CN!SimplexQuery, CN!Base
  <1>3. CASE CN!Query(r)
    BY <1>3 DEF CN!Query, CN!client, CN!Goto, CounterTypes
  <1>4. CASE CN!poll(r)
    BY <1>4 DEF CN!poll, CounterTypes
  <1>5. CASE CN!Unlock(r)
    <2>1. CASE kind = "weak"
      BY <1>1, <1>5, <2>1 DEF CN!Unlock, CN!Base
    <2>2. CASE kind # "weak"
      BY <1>5, <2>2 DEF CN!Unlock, CN!query, CN!Goto, CounterTypes
    <2> QED
      BY <2>1, <2>2
  <1>6. CASE CN!StrongBase(r)
    BY <1>1, <1>6 DEF CN!StrongBase, CN!Base
  <1> QED
    BY <1>2, <1>3, <1>4, <1>5, <1>6 DEF ReaderStep

\* How a reader's query goes on.
LEMMA ReaderMoves ==
    ASSUME CounterTypes, BrokerInv, QueryInv, NEW r \in Readers, ReaderStep(r)
    PROVE  \/ /\ counterPc'[r] = "none" /\ counterOp'[r] = "none" /\ tmp'[r] = 0 /\ todo'[r] = {}
              /\ broker_' = broker_ /\ raced' = raced
              /\ serializer_' = IF serializer_ = r THEN NoThread ELSE serializer_
           \/ /\ counterPc[r] = "none" /\ counterPc'[r] = "rollcall"
              /\ serializer_ = NoThread /\ serializer_' = r /\ tmp' = tmp /\ broker_' = broker_
              /\ raced' = raced /\ kind # "simplex" /\ todo'[r] = children_
              /\ counterOp'[r] = "load" \/ (counterOp'[r] = "exchange" /\ kind = "strong")
           \/ /\ counterPc[r] = "rollcall" /\ counterPc'[r] = "rollcall"
              /\ UNCHANGED <<serializer_, counterOp>> /\ todo'[r] \subseteq todo[r]
           \/ /\ counterPc[r] = "rollcall" /\ counterPc'[r] = "base" /\ todo[r] = {}
              /\ kind = "strong" /\ serializer_' = NoThread /\ broker_' = broker_ /\ raced' = raced
              /\ UNCHANGED <<todo, tmp, counterOp>>
  <1> USE Constants
  <1>1. ASSUME NEW v, CN!Answer(r, v), todo[r] = {}
        PROVE  counterPc'[r] = "none" /\ counterOp'[r] = "none" /\ tmp'[r] = 0 /\ todo'[r] = {}
    BY <1>1 DEF CN!Answer, CN!Goto, CounterTypes
  <1>2. CASE CN!SimplexQuery(r)
    <2>1. counterPc[r] = "none" /\ todo[r] = {} /\ serializer_ # r
      BY <1>2 DEF CN!SimplexQuery, QueryInv
    <2> QED
      BY <1>1, <1>2, <2>1 DEF CN!SimplexQuery, CN!Base
  <1>3. CASE CN!Query(r)
    BY <1>3 DEF CN!Query, CN!client, CN!Goto, CounterTypes
  <1>4. CASE CN!poll(r)
    BY <1>4 DEF CN!poll, CounterTypes
  <1>5. CASE CN!Unlock(r)
    <2>1. /\ counterPc[r] = "rollcall" /\ todo[r] = {}
          /\ serializer_ = r /\ serializer_' = NoThread
          /\ broker_' = broker_ /\ raced' = raced
      BY <1>5 DEF CN!Unlock, QueryInv
    <2>2. CASE kind = "weak"
      BY <1>1, <1>5, <2>1, <2>2 DEF CN!Unlock, CN!Base
    <2>3. CASE kind # "weak"
      <3>1. kind = "strong"
        BY <2>1, <2>3 DEF QueryInv, CounterTypes
      <3> QED
        BY <1>5, <2>1, <2>3, <3>1 DEF CN!Unlock, CN!query, CN!Goto, CounterTypes
    <2> QED
      BY <2>2, <2>3
  <1>6. CASE CN!StrongBase(r)
    <2>1. counterPc[r] = "base" /\ todo[r] = {} /\ serializer_ # r
      BY <1>6 DEF CN!StrongBase, QueryInv
    <2> QED
      BY <1>1, <1>6, <2>1 DEF CN!StrongBase, CN!Base
  <1> QED
    BY <1>2, <1>3, <1>4, <1>5, <1>6 DEF ReaderStep

\* A counting thread's place, its broker and its registration.
LEMMA CounterMoves ==
    ASSUME CounterTypes, BrokerInv, NEW t \in Counters, CounterStep(t)
    PROVE  \/ /\ counterPc'[t] = counterPc[t] /\ counterPc[t] # "erase" /\ counterPc[t] # "add"
              /\ children_' = children_
           \/ /\ counterPc[t] = "idle" /\ counterPc'[t] = "store" /\ kind = "weak"
              /\ children_' = children_
           \/ /\ counterPc[t] = "store" /\ counterPc'[t] = "idle" /\ children_' = children_
           \/ /\ counterPc[t] = "none" /\ counterPc'[t] = "idle" /\ kind # "simplex"
              /\ serializer_ = NoThread /\ children_' = children_ \cup {t}
           \/ /\ counterPc[t] = "idle" /\ kind = "strong" /\ counterPc'[t] = "add"
              /\ reg'[t] = broker_'[t] /\ children_' = children_
           \/ /\ counterPc[t] = "idle" /\ kind # "strong" /\ counterPc'[t] = "erase"
              /\ reg'[t] = broker_'[t] /\ children_' = children_
           \/ /\ counterPc[t] = "add" /\ counterPc'[t] = "erase" /\ children_' = children_
           \/ /\ counterPc[t] = "erase" /\ counterPc'[t] = "none"
              /\ serializer_ = NoThread /\ children_' = children_ \ {t}
  <1>1. ASSUME NEW by, CN!Add(t, by), counterPc[t] \in {"none", "idle"}, UNCHANGED children_
        PROVE  \/ /\ counterPc'[t] = counterPc[t] /\ counterPc[t] # "erase" /\ counterPc[t] # "add"
                  /\ children_' = children_
               \/ /\ counterPc[t] = "idle" /\ counterPc'[t] = "store" /\ kind = "weak"
                  /\ children_' = children_
    BY <1>1 DEF CN!Add, CN!Goto, CN!SemiAtomic, CounterTypes
  <1>2. CASE CN!Bump(t)
    BY <1>1, <1>2 DEF CN!Bump
  <1>3. CASE CN!push(t)
    BY <1>1, <1>3 DEF CN!push
  <1>4. CASE CN!Store(t) \/ CN!insert(t)
    BY <1>4 DEF CN!Store, CN!insert, CN!Goto, CounterTypes
  <1>5. CASE CN!DestroyBroker(t)
    BY <1>5 DEF CN!DestroyBroker, CN!counter, CN!Goto, CounterTypes
  <1>6. CASE CN!EraseAdd(t) \/ CN!erase(t)
    BY <1>6 DEF CN!EraseAdd, CN!erase, CN!Goto, CounterTypes
  <1> QED
    BY <1>2, <1>3, <1>4, <1>5, <1>6 DEF CounterStep

LEMMA StepCases ==
    CN!Next <=> \/ \E t \in Counters : CounterStep(t)
                \/ \E r \in Readers : ReaderStep(r)
  BY DEF CN!Next, CounterStep, ReaderStep

LEMMA NextPlaces ==
    /\ CounterTypes /\ CounterTypes' /\ BrokerInv /\ QueryInv /\ NoDanglingBroker
    /\ [CN!Next]_CN!vars
    => (BrokerInv /\ QueryInv /\ NoDanglingBroker)'
  <1> SUFFICES ASSUME CounterTypes, CounterTypes', BrokerInv, QueryInv, NoDanglingBroker, [CN!Next]_CN!vars
               PROVE  (BrokerInv /\ QueryInv /\ NoDanglingBroker)'
    OBVIOUS
  <1> USE Constants
  <1>1. CASE UNCHANGED CN!vars
    BY <1>1 DEF CN!vars, CN!client, CN!counter, CN!query, BrokerInv, QueryInv, NoDanglingBroker,
                CN!NoDanglingBroker
  <1>2. ASSUME NEW t \in Counters, CounterStep(t)
        PROVE  (BrokerInv /\ QueryInv /\ NoDanglingBroker)'
    <2>1. /\ \A u \in Counters \cup Readers : u # t => counterPc'[u] = counterPc[u]
          /\ UNCHANGED <<kind, raced, serializer_, todo, tmp, counterOp, to, counterRes, floor>>
      BY <1>2, CounterFrame
    <2>2. BrokerInv'
      BY <1>2, <2>1, CounterMoves DEF BrokerInv, CounterPlaces
    <2>3. \A r \in Readers : counterPc'[r] = counterPc[r]
      BY <2>1
    <2>4. QueryInv'
      BY <2>1, <2>3 DEF QueryInv
    <2>5. children_' = {u \in Counters : counterPc'[u] # "none"}
      <3>1. children_ = {u \in Counters : counterPc[u] # "none"}
        BY DEF NoDanglingBroker, CN!NoDanglingBroker
      <3> QED
        BY <1>2, <2>1, <3>1, CounterMoves
    <2>6. ASSUME NEW r \in Readers, NEW c \in todo'[r] PROVE counterPc'[c] # "none"
      <3>1. c \in todo[r] /\ c \in Counters /\ counterPc[c] # "none"
        BY <2>1, <2>6 DEF NoDanglingBroker, CN!NoDanglingBroker, CounterTypes
      <3>2. serializer_ = r
        BY <3>1 DEF QueryInv
      <3> QED
        BY <1>2, <2>1, <3>1, <3>2, CounterMoves
    <2> QED
      BY <2>2, <2>4, <2>5, <2>6 DEF NoDanglingBroker, CN!NoDanglingBroker
  <1>3. ASSUME NEW r \in Readers, ReaderStep(r)
        PROVE  (BrokerInv /\ QueryInv /\ NoDanglingBroker)'
    <2>1. /\ \A u \in Counters \cup Readers : u # r => counterPc'[u] = counterPc[u]
          /\ UNCHANGED <<kind, children_, buffer_, reg>>
          /\ \A u \in Readers : u # r => /\ todo'[u] = todo[u] /\ tmp'[u] = tmp[u]
                                         /\ counterOp'[u] = counterOp[u] /\ floor'[u] = floor[u]
      BY <1>3, ReaderFrame
    <2>2. \A u \in Counters : counterPc'[u] = counterPc[u]
      BY <2>1
    <2>3. BrokerInv'
      BY <2>1, <2>2 DEF BrokerInv
    <2>4. ASSUME NEW u \in Readers, u # r
          PROVE  serializer_' = u <=> serializer_ = u
      BY <1>3, <2>4, ReaderMoves DEF QueryInv
    <2>5. QueryInv'
      <3>1. ASSUME NEW u \in Readers, u # r
            PROVE  /\ counterPc'[u] \in {"none", "rollcall", "base"}
                   /\ counterPc'[u] = "none" <=> counterOp'[u] = "none"
                   /\ counterPc'[u] = "rollcall" <=> serializer_' = u
                   /\ counterPc'[u] # "rollcall" => todo'[u] = {}
                   /\ counterPc'[u] # "none" => kind' # "simplex"
                   /\ counterOp'[u] = "none" => tmp'[u] = 0
                   /\ counterOp'[u] = "exchange" \/ counterPc'[u] = "base" => kind' = "strong"
        BY <2>1, <2>4, <3>1 DEF QueryInv
      <3>2. /\ counterPc'[r] \in {"none", "rollcall", "base"}
            /\ counterPc'[r] = "none" <=> counterOp'[r] = "none"
            /\ counterPc'[r] = "rollcall" <=> serializer_' = r
            /\ counterPc'[r] # "rollcall" => todo'[r] = {}
            /\ counterPc'[r] # "none" => kind' # "simplex"
            /\ counterOp'[r] = "none" => tmp'[r] = 0
            /\ counterOp'[r] = "exchange" \/ counterPc'[r] = "base" => kind' = "strong"
        BY <1>3, <2>1, ReaderMoves DEF QueryInv
      <3> QED
        BY <3>1, <3>2 DEF QueryInv
    <2>6. children_' = {u \in Counters : counterPc'[u] # "none"}
      BY <2>1, <2>2 DEF NoDanglingBroker, CN!NoDanglingBroker
    <2>7. ASSUME NEW u \in Readers, NEW c \in todo'[u] PROVE counterPc'[c] # "none"
      <3>1. c \in Counters
        BY <2>7 DEF CounterTypes
      <3>2. CASE u # r
        BY <2>1, <2>2, <2>7, <3>1, <3>2 DEF NoDanglingBroker, CN!NoDanglingBroker
      <3>3. CASE u = r
        <4>1. c \in todo[r] \/ c \in children_
          BY <1>3, <2>7, <3>3, ReaderMoves
        <4> QED
          BY <2>2, <3>1, <4>1 DEF NoDanglingBroker, CN!NoDanglingBroker
      <3> QED
        BY <3>2, <3>3
    <2> QED
      BY <2>3, <2>5, <2>6, <2>7 DEF NoDanglingBroker, CN!NoDanglingBroker
  <1> QED
    BY <1>1, <1>2, <1>3, StepCases

\* What an exchange takes from a dying broker, or what does not: then nothing
\* is drained twice.
LEMMA NextDying ==
    /\ CounterTypes /\ CounterTypes' /\ BrokerInv /\ QueryInv /\ DyingInv /\ [CN!Next]_CN!vars => DyingInv'
  <1> SUFFICES ASSUME CounterTypes, CounterTypes', BrokerInv, QueryInv, DyingInv, [CN!Next]_CN!vars, ~raced',
                      NEW t \in Counters,
                      counterPc'[t] = "add" \/ (counterPc'[t] = "erase" /\ kind' = "weak")
               PROVE  reg'[t] = broker_'[t]
    BY DEF DyingInv
  <1>1. CASE UNCHANGED CN!vars
    BY <1>1 DEF CN!vars, CN!client, CN!counter, CN!query, DyingInv
  <1>2. ASSUME NEW u \in Counters, CounterStep(u) PROVE reg'[t] = broker_'[t]
    <2>1. CASE u # t
      BY <1>2, <2>1, CounterFrame DEF DyingInv
    <2>2. CASE u = t
      BY <1>2, <2>2, CounterMoves, CounterFrame DEF BrokerInv
    <2> QED
      BY <2>1, <2>2
  <1>3. ASSUME NEW r \in Readers, ReaderStep(r) PROVE reg'[t] = broker_'[t]
    <2>1. counterPc'[t] = counterPc[t] /\ UNCHANGED <<kind, reg>>
      BY <1>3, ReaderFrame, Constants
    <2>2. CASE broker_' = broker_ /\ raced' = raced
      BY <2>1, <2>2 DEF DyingInv
    <2>3. CASE CN!poll(r)
      <3>1. PICK c \in todo[r] :
               IF counterOp[r] = "exchange"
               THEN /\ broker_' = [broker_ EXCEPT ![c] = 0]
                    /\ raced' = (raced \/ (counterPc[c] \in {"add", "erase"} /\ broker_[c] # 0))
               ELSE UNCHANGED <<broker_, raced>>
        BY <2>3 DEF CN!poll
      <3>2. CASE counterOp[r] = "exchange"
        <4>1. ~raced /\ ~(counterPc[c] \in {"add", "erase"} /\ broker_[c] # 0)
          BY <3>1, <3>2
        <4>2. reg[t] = broker_[t]
          BY <2>1, <4>1 DEF DyingInv
        <4>3. broker_'[t] = IF t = c THEN 0 ELSE broker_[t]
          BY <3>1, <3>2 DEF CounterTypes
        <4>4. counterPc[t] \in {"add", "erase"}
          BY <2>1
        <4> QED
          BY <2>1, <4>1, <4>2, <4>3, <4>4
      <3>3. CASE counterOp[r] # "exchange"
        BY <2>2, <3>1, <3>3
      <3> QED
        BY <3>2, <3>3
    <2>4. CASE ~CN!poll(r)
      <3>1. broker_' = broker_ /\ raced' = raced
        BY <1>3, <2>4 DEF ReaderStep, CN!SimplexQuery, CN!Query, CN!Unlock, CN!StrongBase,
                         CN!client
      <3> QED
        BY <2>2, <3>1
    <2> QED
      BY <2>3, <2>4
  <1> QED
    BY <1>1, <1>2, <1>3, StepCases

-----------------------------------------------------------------------------
(* Every count is in one place.                                            *)

\* The summands of Conservation.
InBrokers == CN!SumOver(CN!Shares, Counters)
InBuffers == CN!SumOver(buffer_, Counters)
Exchanges == {r \in Readers : counterOp[r] = "exchange"}
InQueries == CN!SumOver(tmp, Exchanges)

LEMMA Balance ==
    Conservation <=> (~raced => total = value_ + InBrokers + InBuffers + InQueries)
  BY DEF Conservation, CN!Conservation, InBrokers, InBuffers, InQueries, Exchanges

SumsOK == InBrokers \in Int /\ InBuffers \in Int /\ InQueries \in Int

LEMMA SumTypes == CounterTypes => SumsOK
  <1> SUFFICES ASSUME CounterTypes PROVE SumsOK
    OBVIOUS
  <1>1. InBrokers \in Int
    <2>1. \A t \in Counters : CN!Shares[t] \in Int
      BY SharesType
    <2> QED
      BY <2>1, Constants, SumInt DEF InBrokers
  <1>2. InBuffers \in Int
    <2>1. \A t \in Counters : buffer_[t] \in Int
      BY DEF CounterTypes
    <2> QED
      BY <2>1, Constants, SumInt DEF InBuffers
  <1>3. InQueries \in Int
    <2>1. IsFiniteSet(Exchanges)
      BY Constants, FS_Subset DEF Exchanges
    <2>2. \A t \in Exchanges : tmp[t] \in Int
      BY DEF CounterTypes, Exchanges
    <2> QED
      BY <2>1, <2>2, SumInt DEF InQueries
  <1> QED
    BY <1>1, <1>2, <1>3 DEF SumsOK

LEMMA SharesTypePrime ==
    CounterTypes' => \A t \in Counters : CN!Share(t)' \in Int /\ (CN!Shares')[t] = CN!Share(t)'
  BY DEF CounterTypes, CN!Shares, CN!Share

LEMMA SumTypesPrime == CounterTypes' => SumsOK'
  BY SumTypes, PTL

\* One thread's share changes.
LEMMA ShareMoves ==
    ASSUME CounterTypes, CounterTypes', NEW t \in Counters,
           \A u \in Counters : u # t => CN!Share(u)' = CN!Share(u)
    PROVE  InBrokers' = InBrokers - CN!Share(t) + CN!Share(t)'
  <1>1. \A u \in Counters : /\ CN!Shares[u] \in Int /\ (CN!Shares')[u] \in Int
                            /\ u # t => (CN!Shares')[u] = CN!Shares[u]
    BY SharesType, SharesTypePrime
  <1>2. CN!SumOver(CN!Shares', Counters)
          = CN!SumOver(CN!Shares, Counters) - CN!Shares[t] + (CN!Shares')[t]
    BY <1>1, Constants, SumChange
  <1>3. CN!Shares[t] = CN!Share(t) /\ (CN!Shares')[t] = CN!Share(t)'
    BY SharesType, SharesTypePrime
  <1>4. InBrokers' = CN!SumOver(CN!Shares', Counters)
    BY DEF InBrokers, CN!SumOver, CN!MapThenSumSet, CN!MapThenFoldSet
  <1> QED
    BY <1>2, <1>3, <1>4 DEF InBrokers

LEMMA SharesStay ==
    ASSUME CounterTypes, CounterTypes', \A u \in Counters : CN!Share(u)' = CN!Share(u)
    PROVE  InBrokers' = InBrokers
  <1>1. CN!Shares' = CN!Shares
    BY DEF CN!Shares
  <1> QED
    BY <1>1 DEF InBrokers, CN!SumOver, CN!MapThenSumSet, CN!MapThenFoldSet

LEMMA BufferMoves ==
    ASSUME CounterTypes, CounterTypes', NEW t \in Counters,
           \A u \in Counters : u # t => buffer_'[u] = buffer_[u]
    PROVE  InBuffers' = InBuffers - buffer_[t] + buffer_'[t]
  <1>1. \A u \in Counters : buffer_[u] \in Int /\ buffer_'[u] \in Int
    BY DEF CounterTypes
  <1>2. CN!SumOver(buffer_', Counters)
          = CN!SumOver(buffer_, Counters) - buffer_[t] + buffer_'[t]
    BY <1>1, Constants, SumChange
  <1>3. InBuffers' = CN!SumOver(buffer_', Counters)
    BY DEF InBuffers, CN!SumOver, CN!MapThenSumSet, CN!MapThenFoldSet
  <1> QED
    BY <1>2, <1>3 DEF InBuffers

\* What the queries hold, if r is the only one to go on.
\* What the query of r has taken out of the brokers.
Taken(r) == IF counterOp[r] = "exchange" THEN tmp[r] ELSE 0

LEMMA QueryMoves ==
    ASSUME CounterTypes, CounterTypes', NEW r \in Readers,
           \A u \in Readers : u # r => tmp'[u] = tmp[u] /\ counterOp'[u] = counterOp[u]
    PROVE  InQueries' = InQueries - Taken(r) + Taken(r)'
  <1> DEFINE OtherCounters == {u \in Readers \ {r} : counterOp[u] = "exchange"}
             Others1 == {u \in Readers \ {r} : counterOp'[u] = "exchange"}
  <1>1. Others1 = OtherCounters
    OBVIOUS
  <1>2. IsFiniteSet(Exchanges) /\ IsFiniteSet(Exchanges') /\ IsFiniteSet(OtherCounters)
    <2>1. Exchanges \in SUBSET Readers /\ Exchanges' \in SUBSET Readers /\ OtherCounters \in SUBSET Readers
      BY DEF Exchanges
    <2> HIDE DEF OtherCounters
    <2> QED
      BY <2>1, Constants, FS_Subset
  <1>3. CN!SumOver(tmp, OtherCounters) = CN!SumOver(tmp', OtherCounters) /\ CN!SumOver(tmp, OtherCounters) \in Int
    <2>1. \A u \in OtherCounters : tmp[u] = tmp'[u] /\ tmp[u] \in Int
      BY DEF CounterTypes
    <2> HIDE DEF OtherCounters
    <2> QED
      BY <1>2, <2>1, SumAgree, SumInt
  <1>4. InQueries = Taken(r) + CN!SumOver(tmp, OtherCounters)
    <2>1. CASE counterOp[r] = "exchange"
      <3>1. r \in Exchanges /\ OtherCounters = Exchanges \ {r} /\ \A u \in Exchanges : tmp[u] \in Int
        BY <2>1 DEF Exchanges, CounterTypes
      <3> HIDE DEF OtherCounters
      <3>2. CN!SumOver(tmp, Exchanges) = tmp[r] + CN!SumOver(tmp, Exchanges \ {r})
        BY <1>2, <3>1, SumRemove
      <3> QED
        BY <2>1, <3>1, <3>2 DEF InQueries, Taken
    <2>2. CASE counterOp[r] # "exchange"
      <3>1. OtherCounters = Exchanges
        BY <2>2 DEF Exchanges
      <3> HIDE DEF OtherCounters
      <3> QED
        BY <1>3, <2>2, <3>1 DEF InQueries, Taken
    <2> QED
      BY <2>1, <2>2
  <1>5. InQueries' = Taken(r)' + CN!SumOver(tmp', OtherCounters)
    <2>0. InQueries' = CN!SumOver(tmp', Exchanges')
      BY DEF InQueries, CN!SumOver, CN!MapThenSumSet, CN!MapThenFoldSet
    <2>1. CASE counterOp'[r] = "exchange"
      <3>1. r \in Exchanges' /\ OtherCounters = Exchanges' \ {r} /\ \A u \in Exchanges' : tmp'[u] \in Int
        BY <1>1, <2>1 DEF Exchanges, CounterTypes
      <3> HIDE DEF OtherCounters
      <3>2. CN!SumOver(tmp', Exchanges') = tmp'[r] + CN!SumOver(tmp', Exchanges' \ {r})
        BY <1>2, <3>1, SumRemove
      <3> QED
        BY <2>0, <2>1, <3>1, <3>2 DEF Taken
    <2>2. CASE counterOp'[r] # "exchange"
      <3>1. OtherCounters = Exchanges'
        BY <1>1, <2>2 DEF Exchanges
      <3> HIDE DEF OtherCounters
      <3> QED
        BY <1>3, <2>0, <2>2, <3>1 DEF Taken
    <2> QED
      BY <2>1, <2>2
  <1>6. Taken(r) \in Int /\ Taken(r)' \in Int
    BY DEF Taken, CounterTypes
  <1> HIDE DEF OtherCounters, Others1
  <1> QED
    BY <1>3, <1>4, <1>5, <1>6

LEMMA QueriesStay ==
    ASSUME UNCHANGED <<tmp, counterOp>>
    PROVE  InQueries' = InQueries
  BY DEF InQueries, Exchanges, CN!SumOver, CN!MapThenSumSet, CN!MapThenFoldSet

\* operator += changes the counter or the thread's broker by what it is given.
LEMMA AddsOnce ==
    ASSUME CounterTypes, CounterTypes', BrokerInv, NEW t \in Counters, NEW by \in Int,
           counterPc[t] \in {"none", "idle"}, CN!Add(t, by), UNCHANGED kind,
           \A u \in Counters : u # t => CN!Share(u)' = CN!Share(u)
    PROVE  value_' + InBrokers' = value_ + InBrokers + by
  <1>1. InBrokers' = InBrokers - CN!Share(t) + CN!Share(t)' /\ InBrokers \in Int
    BY ShareMoves, SumTypes DEF SumsOK
  <1>2. CN!Share(t) = broker_[t] /\ broker_[t] \in Int /\ value_ \in Int
    BY DEF CN!Share, CounterTypes
  <1>3. \/ value_' = value_ + by /\ CN!Share(t)' = broker_[t]
        \/ value_' = value_ /\ CN!Share(t)' = broker_[t] + by
    BY DEF CN!Add, CN!Goto, CN!Share, CounterTypes
  <1>4. CASE value_' = value_ + by /\ CN!Share(t)' = broker_[t]
    BY <1>1, <1>2, <1>4
  <1>5. CASE value_' = value_ /\ CN!Share(t)' = broker_[t] + by
    BY <1>1, <1>2, <1>5
  <1> QED
    BY <1>3, <1>4, <1>5

LEMMA CounterConserves ==
    ASSUME CounterTypes, CounterTypes', BrokerInv, DyingInv, Conservation, NEW t \in Counters, CounterStep(t)
    PROVE  Conservation'
  <1>1. /\ \A u \in Counters \cup Readers : u # t => counterPc'[u] = counterPc[u]
        /\ UNCHANGED <<kind, raced, serializer_, todo, tmp, counterOp, to, counterRes, floor>>
        /\ \A u \in Counters : u # t => /\ broker_'[u] = broker_[u] /\ buffer_'[u] = buffer_[u]
                                        /\ reg'[u] = reg[u]
    BY CounterFrame
  <1>2. \A u \in Counters : u # t => CN!Share(u)' = CN!Share(u)
    BY <1>1 DEF CN!Share
  <1>3. InQueries' = InQueries
    BY <1>1, QueriesStay
  <1>4. /\ InBrokers' = InBrokers - CN!Share(t) + CN!Share(t)'
        /\ InBuffers' = InBuffers - buffer_[t] + buffer_'[t]
    BY <1>1, <1>2, ShareMoves, BufferMoves
  <1>5. /\ InBrokers \in Int /\ InBuffers \in Int /\ InQueries \in Int
        /\ InBrokers' \in Int /\ InBuffers' \in Int
        /\ value_ \in Int /\ value_' \in Int /\ total \in Int /\ total' \in Int
        /\ broker_[t] \in Int /\ buffer_[t] \in Int /\ reg[t] \in Int
    BY SumTypes, SumTypesPrime DEF SumsOK, CounterTypes
  <1>6. ASSUME total' + (value_ + InBrokers + InBuffers)
                 = total + (value_' + InBrokers' + InBuffers')
        PROVE  Conservation'
    <2> DEFINE Held == value_ + InBrokers + InBuffers
               Held1 == value_' + InBrokers' + InBuffers'
    <2>1. ~raced' => total = Held + InQueries
      BY <1>1, Balance
    <2>3. Held \in Int /\ Held1 \in Int /\ total' + Held = total + Held1
      BY <1>5, <1>6
    <2>4. ASSUME ~raced' PROVE total' = Held1 + InQueries'
      <3>1. total = Held + InQueries
        BY <2>1, <2>4
      <3>2. total \in Int /\ total' \in Int /\ InQueries \in Int /\ InQueries' = InQueries
        BY <1>3, <1>5
      <3>3. total' + Held = total + Held1 /\ Held \in Int /\ Held1 \in Int
        BY <2>3
      <3> HIDE DEF Held, Held1
      <3>4. total' = Held1 + InQueries
        <4>1. PICK x : x = total'
          OBVIOUS
        <4>2. x \in Int /\ x + Held = total + Held1
          BY <3>2, <3>3, <4>1
        <4>3. total \in Int /\ InQueries \in Int
          BY <3>2
        <4>4. x = Held1 + InQueries
          BY <3>1, <3>3, <4>2, <4>3
        <4> QED
          BY <4>1, <4>4
      <3> QED
        BY <3>2, <3>4
    <2>2. ~raced' => total' = value_' + InBrokers' + InBuffers' + InQueries'
      BY <2>4
    <2> QED
      BY <2>2 DEF Conservation, CN!Conservation, InBrokers, InBuffers, InQueries, Exchanges
  <1>7. CASE CN!Bump(t)
    <2>1. PICK by \in Amounts :
            /\ \/ CN!Add(t, by) /\ UNCHANGED buffer_
               \/ BuffersOnly(t, by)
            /\ total' = total + by /\ counterPc[t] \in {"none", "idle"}
      BY <1>7 DEF CN!Bump, BuffersOnly
    <2>2. by \in Int
      BY Constants
    <2>3. CASE CN!Add(t, by) /\ UNCHANGED buffer_
      <3>1. value_' + InBrokers' = value_ + InBrokers + by
        BY <1>1, <1>2, <2>1, <2>2, <2>3, AddsOnce
      <3>2. InBuffers' = InBuffers
        BY <2>3 DEF InBuffers, CN!SumOver, CN!MapThenSumSet, CN!MapThenFoldSet
      <3>3. total' = total + by
        BY <2>1
      <3>4. total' + (value_ + InBrokers + InBuffers)
              = total + (value_' + InBrokers' + InBuffers')
        <4> DEFINE a == value_ + InBrokers
                   b == value_' + InBrokers'
        <4>1. a \in Int /\ b \in Int /\ b = a + by
          BY <1>5, <3>1
        <4>2. total' + (a + InBuffers) = total + (b + InBuffers')
          <5> HIDE DEF a, b
          <5> QED
            BY <1>5, <2>2, <3>2, <3>3, <4>1
        <4> QED
          BY <4>2
      <3> QED
        BY <1>6, <3>4
    <2>4. CASE BuffersOnly(t, by)
      <3>1. CN!Share(t)' = CN!Share(t)
        BY <1>1, <2>4 DEF CN!Share, BuffersOnly
      <3>2. InBrokers' = InBrokers
        BY <1>2, <3>1, SharesStay DEF BuffersOnly
      <3>3. buffer_'[t] = buffer_[t] + by
        BY <2>4 DEF CounterTypes, BuffersOnly
      <3> QED
        BY <1>4, <1>5, <1>6, <2>1, <2>2, <2>4, <3>2, <3>3 DEF BuffersOnly
    <2> QED
      BY <2>1, <2>3, <2>4
  <1>8. CASE CN!push(t)
    <2>1. /\ CN!Add(t, buffer_[t]) /\ counterPc[t] \in {"none", "idle"} /\ total' = total
          /\ buffer_'[t] = 0
      BY <1>8 DEF CN!push, CN!client, CounterTypes
    <2>2. value_' + InBrokers' = value_ + InBrokers + buffer_[t]
      BY <1>1, <1>2, <1>5, <2>1, AddsOnce
    <2> QED
      BY <1>4, <1>5, <1>6, <2>1, <2>2
  \* In the other steps a count changes its place, if anything.
  <1>9. ASSUME total' = total, buffer_' = buffer_, value_' + CN!Share(t)' = value_ + CN!Share(t)
        PROVE  Conservation'
    <2>1. CN!Share(t) \in Int /\ CN!Share(t)' \in Int
      BY SharesType, SharesTypePrime
    <2>2. InBuffers' = InBuffers
      BY <1>4, <1>5, <1>9
    <2> QED
      BY <1>4, <1>5, <1>6, <1>9, <2>1, <2>2
  <1>10. CASE CN!Store(t)
    <2>1. CN!Share(t)' = reg[t] /\ CN!Share(t) = reg[t] /\ value_' = value_
      BY <1>10 DEF CN!Store, CN!Goto, CN!Share, CounterTypes
    <2> QED
      BY <1>9, <1>10, <2>1 DEF CN!Store, CN!client
  <1>11. CASE CN!insert(t)
    <2>1. CN!Share(t)' = broker_[t] /\ CN!Share(t) = broker_[t] /\ value_' = value_
      BY <1>11 DEF CN!insert, CN!client, CN!Goto, CN!Share, CounterTypes
    <2> QED
      BY <1>9, <1>11, <2>1 DEF CN!insert, CN!client
  <1>12. CASE CN!DestroyBroker(t)
    <2>1. CN!Share(t)' = broker_[t] /\ CN!Share(t) = broker_[t] /\ value_' = value_
      BY <1>12 DEF CN!DestroyBroker, CN!client, CN!counter, CN!Goto, CN!Share, CounterTypes
    <2> QED
      BY <1>9, <1>12, <2>1 DEF CN!DestroyBroker, CN!client, CN!counter
  <1>13. CASE CN!EraseAdd(t)
    <2>1. CASE raced
      BY <1>1, <2>1 DEF Conservation, CN!Conservation
    <2>2. CASE ~raced
      <3>1. counterPc[t] = "add" /\ kind = "strong" /\ reg[t] = broker_[t]
        BY <1>13, <2>2 DEF CN!EraseAdd, BrokerInv, DyingInv
      <3>2. CN!Share(t)' = 0 /\ CN!Share(t) = broker_[t] /\ value_' = value_ + broker_[t]
        BY <1>13, <3>1 DEF CN!EraseAdd, CN!client, CN!Goto, CN!Share, CounterTypes
      <3> QED
        BY <1>5, <1>9, <1>13, <3>2 DEF CN!EraseAdd, CN!client
    <2> QED
      BY <2>1, <2>2
  <1>14. CASE CN!erase(t)
    <2>1. CASE raced
      BY <1>1, <2>1 DEF Conservation, CN!Conservation
    <2>2. CASE ~raced
      <3>1. counterPc[t] = "erase" /\ kind \in {"weak", "strong"}
        BY <1>14, Constants DEF CN!erase, BrokerInv, CounterTypes
      <3>2. CN!Share(t)' = 0
        BY <1>14 DEF CN!erase, CN!client, CN!Goto, CN!Share, CounterTypes
      <3>3. CASE kind = "weak"
        <4>1. reg[t] = broker_[t] /\ CN!Share(t) = broker_[t] /\ value_' = value_ + reg[t]
          BY <1>14, <2>2, <3>1, <3>3 DEF CN!erase, DyingInv, CN!Share
        <4> QED
          BY <1>5, <1>9, <1>14, <3>2, <4>1 DEF CN!erase, CN!client
      <3>4. CASE kind = "strong"
        <4>1. CN!Share(t) = 0 /\ value_' = value_
          BY <1>14, <3>1, <3>4 DEF CN!erase, CN!Share
        <4> QED
          BY <1>5, <1>9, <1>14, <3>2, <4>1 DEF CN!erase, CN!client
      <3> QED
        BY <3>1, <3>3, <3>4
    <2> QED
      BY <2>1, <2>2
  <1> QED
    BY <1>7, <1>8, <1>10, <1>11, <1>12, <1>13, <1>14 DEF CounterStep

LEMMA ReaderConserves ==
    ASSUME CounterTypes, CounterTypes', BrokerInv, QueryInv, Conservation, NEW r \in Readers, ReaderStep(r)
    PROVE  Conservation'
  <1>1. /\ \A u \in Counters \cup Readers : u # r => counterPc'[u] = counterPc[u]
        /\ UNCHANGED <<kind, children_, buffer_, reg>>
        /\ \A u \in Readers : u # r => /\ todo'[u] = todo[u] /\ tmp'[u] = tmp[u]
                                       /\ counterOp'[u] = counterOp[u] /\ floor'[u] = floor[u]
    BY ReaderFrame
  <1>2. \A u \in Counters : counterPc'[u] = counterPc[u]
    BY <1>1, Constants
  <1>3. InBuffers' = InBuffers /\ InQueries' = InQueries - Taken(r) + Taken(r)'
    <2>1. InBuffers' = InBuffers
      BY <1>1 DEF InBuffers, CN!SumOver, CN!MapThenSumSet, CN!MapThenFoldSet
    <2> QED
      BY <1>1, <2>1, QueryMoves
  <1>4. /\ InBrokers \in Int /\ InBuffers \in Int /\ InQueries \in Int
        /\ InBrokers' \in Int /\ InQueries' \in Int
        /\ value_ \in Int /\ value_' \in Int /\ total \in Int /\ total' \in Int
        /\ Taken(r) \in Int /\ Taken(r)' \in Int /\ tmp[r] \in Int
    BY SumTypes, SumTypesPrime DEF SumsOK, CounterTypes, Taken
  <1>5. ASSUME raced => raced',
               ~raced' => total' + value_ + InBrokers + Taken(r)
                            = total + value_' + InBrokers' + Taken(r)'
        PROVE  Conservation'
    <2>1. raced \/ total = value_ + InBrokers + InBuffers + InQueries
      BY Balance
    <2>2. raced' \/ total' = value_' + InBrokers' + InBuffers' + InQueries'
      BY <1>3, <1>4, <1>5, <2>1
    <2> QED
      BY <2>2 DEF Conservation, CN!Conservation, InBrokers, InBuffers, InQueries, Exchanges
  <1>6. ASSUME UNCHANGED broker_ PROVE InBrokers' = InBrokers
    <2>1. \A u \in Counters : CN!Share(u)' = CN!Share(u)
      BY <1>1, <1>2, <1>6 DEF CN!Share
    <2> QED
      BY <2>1, SharesStay
  <1>7. ASSUME NEW o, NEW x \in Int, CN!Base(r, o, x, tmp[r]), UNCHANGED <<broker_, raced>>,
               o = counterOp[r] \/ (counterOp[r] = "none" /\ tmp[r] = 0)
        PROVE  Conservation'
    <2>1. Taken(r)' = 0 /\ InBrokers' = InBrokers
      BY <1>6, <1>7 DEF CN!Base, CN!Answer, Taken, CounterTypes
    <2>2. CASE o = "exchange"
      <3>1. value_' = x /\ total' = total + x - (tmp[r] + value_) /\ Taken(r) = tmp[r]
        BY <1>7, <2>2 DEF CN!Base, Taken
      <3> QED
        BY <1>4, <1>5, <1>7, <2>1, <3>1
    <2>3. CASE o # "exchange"
      <3>1. value_' = value_ /\ total' = total /\ Taken(r) = 0
        BY <1>7, <2>3 DEF CN!Base, Taken
      <3> QED
        BY <1>4, <1>5, <1>7, <2>1, <3>1
    <2> QED
      BY <2>2, <2>3
  <1>8. CASE CN!SimplexQuery(r)
    <2>1. PICK x \in Resets, o \in {"load", "exchange"} : CN!Base(r, o, x, 0)
      BY <1>8 DEF CN!SimplexQuery
    <2>2. counterOp[r] = "none" /\ tmp[r] = 0
      BY <1>8 DEF CN!SimplexQuery, QueryInv
    <2>3. x \in Int
      BY Constants
    <2> QED
      BY <1>7, <1>8, <2>1, <2>2, <2>3 DEF CN!SimplexQuery
  <1>9. CASE CN!Query(r)
    <2>1. Taken(r) = 0 /\ Taken(r)' = 0
      BY <1>9 DEF CN!Query, QueryInv, Taken
    <2> QED
      BY <1>4, <1>5, <1>6, <1>9, <2>1 DEF CN!Query, CN!client
  <1>10. CASE CN!poll(r)
    <2>1. PICK c \in todo[r] :
             /\ tmp' = [tmp EXCEPT ![r] = @ + broker_[c]]
             /\ IF counterOp[r] = "exchange"
                THEN /\ broker_' = [broker_ EXCEPT ![c] = 0]
                     /\ raced' = (raced \/ (counterPc[c] \in {"add", "erase"} /\ broker_[c] # 0))
                ELSE UNCHANGED <<broker_, raced>>
      BY <1>10 DEF CN!poll
    <2>2. c \in Counters /\ broker_[c] \in Int /\ UNCHANGED <<value_, total, counterOp>>
          /\ tmp'[r] = tmp[r] + broker_[c]
      BY <1>10, <2>1 DEF CN!poll, CounterTypes
    <2>3. CASE counterOp[r] = "exchange"
      <3>1. \A u \in Counters : u # c => CN!Share(u)' = CN!Share(u)
        BY <1>1, <1>2, <2>1, <2>3 DEF CN!Share, CounterTypes
      <3>2. InBrokers' = InBrokers - CN!Share(c) + CN!Share(c)'
        BY <2>2, <3>1, ShareMoves
      <3>3. kind = "strong" /\ counterPc[c] # "store"
        BY <2>2, <2>3 DEF QueryInv, BrokerInv
      <3>4. ASSUME ~raced' PROVE CN!Share(c) = broker_[c]
        BY <2>1, <2>3, <3>3, <3>4 DEF CN!Share
      <3>5. CN!Share(c)' = 0
        BY <1>1, <1>2, <2>1, <2>2, <2>3, <3>3 DEF CN!Share, CounterTypes
      <3>6. Taken(r) = tmp[r] /\ Taken(r)' = tmp[r] + broker_[c]
        BY <2>2, <2>3 DEF Taken
      <3>7. raced => raced'
        BY <2>1, <2>3
      <3> QED
        BY <1>4, <1>5, <2>2, <3>2, <3>4, <3>5, <3>6, <3>7
    <2>4. CASE counterOp[r] # "exchange"
      <3>1. Taken(r) = 0 /\ Taken(r)' = 0
        BY <2>2, <2>4 DEF Taken
      <3> QED
        BY <1>4, <1>5, <1>6, <2>1, <2>2, <2>4, <3>1
    <2> QED
      BY <2>3, <2>4
  <1>11. CASE CN!Unlock(r)
    <2>1. CASE kind = "weak"
      <3>1. CN!Base(r, "load", 0, tmp[r]) /\ UNCHANGED <<broker_, raced>>
        BY <1>11, <2>1 DEF CN!Unlock
      <3>2. counterOp[r] = "load"
        BY <1>11, <2>1 DEF CN!Unlock, QueryInv, CounterTypes
      <3> QED
        BY <1>7, <3>1, <3>2
    <2>2. CASE kind # "weak"
      <3>1. UNCHANGED <<tmp, counterOp, broker_, raced, value_, total>>
        BY <1>11, <2>2 DEF CN!Unlock, CN!query
      <3>2. Taken(r)' = Taken(r)
        BY <3>1 DEF Taken
      <3> QED
        BY <1>4, <1>5, <1>6, <3>1, <3>2
    <2> QED
      BY <2>1, <2>2
  <1>12. CASE CN!StrongBase(r)
    <2>1. /\ CN!Base(r, counterOp[r], to[r], tmp[r]) /\ to[r] \in Int
          /\ UNCHANGED <<broker_, raced>>
      BY <1>12 DEF CN!StrongBase, CounterTypes
    <2> QED
      BY <1>7, <2>1
  <1> QED
    BY <1>8, <1>9, <1>10, <1>11, <1>12 DEF ReaderStep

LEMMA NextConserves ==
    /\ CounterTypes /\ CounterTypes' /\ BrokerInv /\ QueryInv /\ DyingInv /\ Conservation /\ [CN!Next]_CN!vars
    => Conservation'
  <1> SUFFICES ASSUME CounterTypes, CounterTypes', BrokerInv, QueryInv, DyingInv, Conservation,
                      [CN!Next]_CN!vars
               PROVE  Conservation'
    OBVIOUS
  <1>1. CASE UNCHANGED CN!vars
    BY <1>1 DEF CN!vars, CN!client, CN!counter, CN!query, Conservation, CN!Conservation,
                CN!Shares, CN!Share, CN!SumOver, CN!MapThenSumSet, CN!MapThenFoldSet
  <1> QED
    BY <1>1, StepCases, CounterConserves, ReaderConserves

\* At the start the counter has what it was made with.
LEMMA InitConserves == CN!Init => Conservation
  <1> SUFFICES ASSUME CN!Init PROVE Conservation
    OBVIOUS
  <1>1. CounterTypes
    BY InitHolds
  <1>2. /\ \A t \in Counters : CN!Shares[t] = 0 /\ buffer_[t] = 0
        /\ Exchanges = {} /\ total = value_
    BY Constants DEF CN!Init, CN!Shares, CN!Share, CN!Threads, Exchanges
  <1>3. InBrokers = 0 /\ InBuffers = 0
    BY <1>2, Constants, SumZero DEF InBrokers, InBuffers
  <1>4. InQueries = 0
    BY <1>2, SumEmpty DEF InQueries
  <1>5. value_ = value_ + 0 + 0 + 0
    BY <1>1 DEF CounterTypes
  <1> QED
    BY <1>2, <1>3, <1>4, <1>5, Balance

LEMMA InductiveInvariant == CN!Spec => []CounterIInv
  <1>1. CN!Init => CounterIInv
    BY InitHolds, InitConserves DEF CounterIInv
  <1>2. CounterIInv /\ [CN!Next]_CN!vars => CounterIInv'
    BY NextTypes, NextPlaces, NextDying, NextConserves DEF CounterIInv
  <1> QED
    BY <1>1, <1>2, PTL DEF CN!Spec

\* No count is lost, and none is taken twice, however bumps, buffers, queries
\* and the creation and death of brokers interleave, unless an exchange drains
\* a strong broker whose destructor has read its count (counter.h:622).
THEOREM ConservationCorrect == CN!Spec => []Conservation
  BY InductiveInvariant, PTL DEF CounterIInv

\* No query touches a broker that is gone (the assertions of insert and erase).
THEOREM NoDanglingBrokerCorrect == CN!Spec => []NoDanglingBroker
  BY InductiveInvariant, PTL DEF CounterIInv

-----------------------------------------------------------------------------
(* The load of a weak counter, if threads only count up.                   *)

LEMMA SeenTypes ==
    ASSUME CounterTypes, NEW r \in Readers
    PROVE  Unseen(r) \in Int /\ Seen(r) \in Int
  <1>1. \A S \in SUBSET Counters : IsFiniteSet(S) /\ \A x \in S : broker_[x] \in Int
    BY Constants, FS_Subset DEF CounterTypes
  <1>2. \A S \in SUBSET Counters : CN!SumOver(broker_, S) \in Int
    BY <1>1, SumInt
  <1>3. todo[r] \in SUBSET Counters /\ children_ \ todo[r] \in SUBSET Counters
    BY DEF CounterTypes
  <1> QED
    BY <1>2, <1>3 DEF Unseen, Seen

LEMMA SeenPrime ==
    ASSUME NEW r \in Readers
    PROVE  /\ Unseen(r)' = CN!SumOver(broker_', todo'[r])
           /\ Seen(r)' = CN!SumOver(broker_', children_' \ todo'[r])
  BY DEF Unseen, Seen, CN!SumOver, CN!MapThenSumSet, CN!MapThenFoldSet

\* What a thread counts in, with which the bounds only widen.
LEMMA OnlyUp ==
    ASSUME Amounts \subseteq Nat, CounterTypes, CounterTypes', BrokerInv, WeakInv, kind = "weak",
           NEW t \in Counters, CounterStep(t)
    PROVE  /\ buffer_'[t] >= 0
           /\ counterPc'[t] = "store" => reg'[t] >= broker_'[t]
           /\ counterPc[t] # "erase" => value_' >= value_ /\ broker_'[t] >= broker_[t]
  <1>1. /\ buffer_[t] \in Int /\ buffer_[t] >= 0 /\ broker_[t] \in Int
        /\ reg[t] \in Int /\ value_ \in Int
        /\ counterPc[t] = "store" => reg[t] >= broker_[t]
        /\ counterPc[t] # "add"
    BY DEF CounterTypes, WeakInv, BrokerInv
  <1>2. ASSUME NEW by \in Nat, CN!Add(t, by), counterPc[t] \in {"none", "idle"}
        PROVE  /\ counterPc'[t] = "store" => reg'[t] >= broker_'[t]
               /\ value_' >= value_ /\ broker_'[t] >= broker_[t]
    BY <1>1, <1>2 DEF CN!Add, CN!Goto, CounterTypes
  <1>3. CASE CN!Bump(t)
    <2>1. PICK by \in Nat :
            \/ CN!Add(t, by) /\ UNCHANGED buffer_
            \/ BuffersOnly(t, by)
      BY <1>3 DEF CN!Bump, BuffersOnly
    <2>2. counterPc[t] \in {"none", "idle"}
      BY <1>3 DEF CN!Bump
    <2>3. CASE CN!Add(t, by) /\ UNCHANGED buffer_
      BY <1>1, <1>2, <2>2, <2>3
    <2>4. CASE BuffersOnly(t, by)
      BY <1>1, <2>2, <2>4 DEF CounterTypes, BuffersOnly
    <2> QED
      BY <2>1, <2>3, <2>4
  <1>4. CASE CN!push(t)
    <2>1. /\ CN!Add(t, buffer_[t]) /\ counterPc[t] \in {"none", "idle"} /\ buffer_[t] \in Nat
          /\ buffer_'[t] = 0
      BY <1>1, <1>4 DEF CN!push, CounterTypes
    <2> QED
      BY <1>2, <2>1
  <1>5. CASE CN!Store(t)
    BY <1>1, <1>5 DEF CN!Store, CN!Goto, CN!client, CounterTypes
  <1>6. CASE CN!insert(t) \/ CN!DestroyBroker(t) \/ CN!EraseAdd(t)
    BY <1>1, <1>6 DEF CN!insert, CN!DestroyBroker, CN!EraseAdd, CN!Goto,
                       CN!client, CN!counter, CounterTypes
  <1>7. CASE CN!erase(t)
    BY <1>1, <1>7 DEF CN!erase, CN!Goto, CN!client, CounterTypes
  <1> QED
    BY <1>3, <1>4, <1>5, <1>6, <1>7 DEF CounterStep

\* A counting thread only adds to what a query may yet see or has seen,
LEMMA CounterKeepsWeak ==
    ASSUME Amounts \subseteq Nat, CounterTypes, CounterTypes', BrokerInv, QueryInv, NoDanglingBroker, WeakInv,
           NEW t \in Counters, CounterStep(t)
    PROVE  WeakInv'
  <1>1. /\ \A u \in Counters \cup Readers : u # t => counterPc'[u] = counterPc[u]
        /\ UNCHANGED <<kind, serializer_, todo, tmp, floor>>
        /\ \A u \in Counters : u # t => /\ broker_'[u] = broker_[u] /\ buffer_'[u] = buffer_[u]
                                        /\ reg'[u] = reg[u]
    BY CounterFrame
  <1> SUFFICES ASSUME kind = "weak" PROVE WeakInv'
    BY <1>1 DEF WeakInv
  <1>2. /\ buffer_'[t] >= 0
        /\ counterPc'[t] = "store" => reg'[t] >= broker_'[t]
        /\ counterPc[t] # "erase" => value_' >= value_ /\ broker_'[t] >= broker_[t]
    BY OnlyUp
  <1>3. ASSUME NEW u \in Counters
        PROVE  /\ buffer_'[u] >= 0
               /\ counterPc'[u] = "store" => reg'[u] >= broker_'[u]
    BY <1>1, <1>2, <1>3 DEF WeakInv
  <1>4. ASSUME NEW r \in Readers, counterPc'[r] = "rollcall"
        PROVE  /\ floor'[r] <= value_' + tmp'[r] + Unseen(r)'
               /\ tmp'[r] <= Seen(r)'
    <2>1. counterPc[r] = "rollcall" /\ serializer_ # NoThread
      BY <1>1, <1>4, Constants DEF QueryInv
    <2>2. children_' = children_ /\ counterPc[t] # "erase"
      BY <2>1, CounterMoves
    <2>3. /\ value_' >= value_
          /\ \A x \in Counters : /\ broker_[x] \in Int /\ broker_'[x] \in Int
                                 /\ broker_[x] <= broker_'[x]
      BY <1>1, <1>2, <2>2 DEF CounterTypes
    <2>4. /\ IsFiniteSet(todo[r]) /\ todo[r] \subseteq Counters
          /\ IsFiniteSet(children_ \ todo[r]) /\ children_ \ todo[r] \subseteq Counters
      BY Constants, FS_Subset DEF CounterTypes
    <2>5. CN!SumOver(broker_, todo[r]) <= CN!SumOver(broker_', todo[r])
      BY <2>3, <2>4, SumMonotone
    <2>6. CN!SumOver(broker_, children_ \ todo[r]) <= CN!SumOver(broker_', children_ \ todo[r])
      BY <2>3, <2>4, SumMonotone
    <2>7. /\ CN!SumOver(broker_', todo[r]) \in Int
          /\ CN!SumOver(broker_', children_ \ todo[r]) \in Int
      BY <2>3, <2>4, SumInt
    <2>8. /\ Unseen(r)' = CN!SumOver(broker_', todo[r])
          /\ Seen(r)' = CN!SumOver(broker_', children_ \ todo[r])
      BY <1>1, <2>2, SeenPrime
    <2>9. Unseen(r) <= Unseen(r)' /\ Seen(r) <= Seen(r)'
      BY <2>5, <2>6, <2>8 DEF Unseen, Seen
    <2>10. Unseen(r) \in Int /\ Seen(r) \in Int /\ Unseen(r)' \in Int /\ Seen(r)' \in Int
      BY <2>7, <2>8, SeenTypes
    <2>11. floor[r] <= value_ + tmp[r] + Unseen(r) /\ tmp[r] <= Seen(r)
      BY <2>1 DEF WeakInv
    <2>12. value_ \in Int /\ value_' \in Int /\ tmp[r] \in Int /\ floor[r] \in Int
      BY DEF CounterTypes
    <2>13. PICK a, b : a = Unseen(r)' /\ b = Seen(r)'
      OBVIOUS
    <2>14. floor[r] <= value_' + tmp[r] + a /\ tmp[r] <= b
      BY <2>3, <2>9, <2>10, <2>11, <2>12, <2>13
    <2> QED
      BY <1>1, <2>13, <2>14
  <1> QED
    BY <1>3, <1>4 DEF WeakInv

\* and a query moves a broker from the one to the other.
LEMMA ReaderKeepsWeak ==
    ASSUME CounterTypes, CounterTypes', QueryInv, QueryInv', NoDanglingBroker, WeakInv,
           NEW r \in Readers, ReaderStep(r)
    PROVE  WeakInv'
  <1>1. /\ \A u \in Counters \cup Readers : u # r => counterPc'[u] = counterPc[u]
        /\ UNCHANGED <<kind, children_, buffer_, reg>>
        /\ \A u \in Readers : u # r => /\ todo'[u] = todo[u] /\ tmp'[u] = tmp[u]
                                       /\ counterOp'[u] = counterOp[u] /\ floor'[u] = floor[u]
    BY ReaderFrame
  <1> SUFFICES ASSUME kind = "weak" PROVE WeakInv'
    BY <1>1 DEF WeakInv
  <1>2. UNCHANGED broker_
    BY DEF ReaderStep, CN!SimplexQuery, CN!Query, CN!poll, CN!Unlock, CN!StrongBase, QueryInv
  <1>3. ASSUME NEW u \in Counters
        PROVE  /\ buffer_'[u] >= 0
               /\ counterPc'[u] = "store" => reg'[u] >= broker_'[u]
    BY <1>1, <1>2, <1>3, Constants DEF WeakInv
  <1>4. ASSUME NEW u \in Readers, counterPc'[u] = "rollcall"
        PROVE  /\ floor'[u] <= value_' + tmp'[u] + Unseen(u)'
               /\ tmp'[u] <= Seen(u)'
    <2>1. /\ Unseen(u)' = CN!SumOver(broker_, todo'[u])
          /\ Seen(u)' = CN!SumOver(broker_, children_ \ todo'[u])
      BY <1>1, <1>2, SeenPrime
    <2>2. CASE u # r
      <3>1. counterPc[u] = "rollcall" /\ serializer_ = u /\ serializer_' = u
        BY <1>1, <1>4, <2>2 DEF QueryInv
      <3>2. value_' = value_
        BY <2>2, <3>1, Constants
           DEF ReaderStep, CN!SimplexQuery, CN!Query, CN!poll, CN!Unlock, CN!StrongBase,
               QueryInv
      <3>3. Unseen(u)' = Unseen(u) /\ Seen(u)' = Seen(u)
        BY <1>1, <2>1, <2>2 DEF Unseen, Seen
      <3> QED
        BY <1>1, <2>2, <3>1, <3>2, <3>3 DEF WeakInv
    <2>3. CASE u = r
      <3>1. CASE CN!Query(r)
        <4>1. /\ todo'[r] = children_ /\ floor'[r] = CN!Visible /\ UNCHANGED <<value_, tmp>>
              /\ counterOp[r] = "none"
          BY <3>1 DEF CN!Query, CN!client, CounterTypes, QueryInv
        <4>2. tmp[r] = 0 /\ children_ \ todo'[r] = {}
          BY <4>1 DEF QueryInv
        <4>3. Seen(r)' = 0
          BY <2>1, <2>3, <4>2, SumEmpty
        <4>4. Unseen(r)' = CN!SumOver(broker_, children_)
          BY <2>1, <2>3, <4>1
        <4>5. PICK a : a = Unseen(r)'
          OBVIOUS
        <4>6. CN!Visible = value_ + a /\ CN!Visible \in Int /\ value_ \in Int
          BY <4>4, <4>5, VisibleType DEF CN!Visible, CounterTypes
        <4>7. a \in Int
          <5>1. IsFiniteSet(children_) /\ \A x \in children_ : broker_[x] \in Int
            BY Constants, FS_Subset DEF CounterTypes
          <5> QED
            BY <4>4, <4>5, <5>1, SumInt
        <4>8. CN!Visible <= value_ + 0 + a
          BY <4>6, <4>7
        <4> QED
          BY <2>3, <4>1, <4>2, <4>3, <4>5, <4>8
      <3>2. CASE CN!poll(r)
        <4>1. PICK c \in todo[r] :
                 /\ tmp' = [tmp EXCEPT ![r] = @ + broker_[c]]
                 /\ todo' = [todo EXCEPT ![r] = @ \ {c}]
          BY <3>2 DEF CN!poll
        <4>2. /\ tmp'[r] = tmp[r] + broker_[c] /\ todo'[r] = todo[r] \ {c}
              /\ UNCHANGED <<value_, floor>> /\ counterPc[r] = "rollcall"
          BY <3>2, <4>1 DEF CN!poll, CounterTypes
        <4>3. /\ \A S \in SUBSET Counters : IsFiniteSet(S) /\ \A x \in S : broker_[x] \in Int
              /\ todo[r] \in SUBSET Counters /\ c \in Counters
              /\ children_ \ todo'[r] \in SUBSET Counters
          BY Constants, FS_Subset DEF CounterTypes
        <4>4. c \in children_ \ todo'[r] /\ (children_ \ todo'[r]) \ {c} = children_ \ todo[r]
          BY <4>2, <4>3 DEF NoDanglingBroker, CN!NoDanglingBroker
        <4>5. /\ CN!SumOver(broker_, todo[r]) = broker_[c] + CN!SumOver(broker_, todo[r] \ {c})
              /\ CN!SumOver(broker_, todo[r] \ {c}) \in Int
          BY <4>3, SumRemove
        <4> DEFINE W == children_ \ todo'[r]
        <4>6. /\ CN!SumOver(broker_, W) = broker_[c] + CN!SumOver(broker_, W \ {c})
              /\ CN!SumOver(broker_, W \ {c}) \in Int
          <5>1. c \in W /\ W \in SUBSET Counters
            BY <4>3, <4>4
          <5> HIDE DEF W
          <5> QED
            BY <4>3, <5>1, SumRemove
        <4>7. PICK a, b : a = Unseen(r)' /\ b = Seen(r)'
          OBVIOUS
        <4>8. Unseen(r) = broker_[c] + a /\ a \in Int
          BY <2>1, <2>3, <4>2, <4>5, <4>7 DEF Unseen
        <4>9. b = broker_[c] + Seen(r) /\ Seen(r) \in Int
          BY <2>1, <2>3, <4>4, <4>6, <4>7 DEF Seen
        <4>10. /\ floor[r] <= value_ + tmp[r] + Unseen(r) /\ tmp[r] <= Seen(r)
               /\ value_ \in Int /\ tmp[r] \in Int /\ floor[r] \in Int /\ broker_[c] \in Int
          BY <4>2, <4>3 DEF WeakInv, CounterTypes
        <4>11. floor[r] <= value_ + (tmp[r] + broker_[c]) + a /\ tmp[r] + broker_[c] <= b
          BY <4>8, <4>9, <4>10
        <4> QED
          BY <2>3, <4>2, <4>7, <4>11
      <3>3. CASE CN!SimplexQuery(r) \/ CN!StrongBase(r) \/ CN!Unlock(r)
        <4>1. counterPc'[r] # "rollcall"
          BY <3>3 DEF CN!SimplexQuery, CN!StrongBase, CN!Unlock, CN!Base, CN!Answer, CN!Goto,
                        CounterTypes
        <4> QED
          BY <1>4, <2>3, <4>1
      <3> QED
        BY <3>1, <3>2, <3>3 DEF ReaderStep
    <2> QED
      BY <2>2, <2>3
  <1> QED
    BY <1>3, <1>4 DEF WeakInv

LEMMA NextWeak ==
    ASSUME Amounts \subseteq Nat
    PROVE  CounterIInv /\ CounterIInv' /\ WeakInv /\ [CN!Next]_CN!vars => WeakInv'
  <1> SUFFICES ASSUME CounterIInv, CounterIInv', WeakInv, [CN!Next]_CN!vars PROVE WeakInv'
    OBVIOUS
  <1>1. CASE UNCHANGED CN!vars
    <2>1. /\ UNCHANGED <<kind, value_, children_, broker_, buffer_>>
          /\ UNCHANGED <<counterPc, reg, todo, tmp, floor>>
      BY <1>1 DEF CN!vars, CN!client, CN!counter, CN!query
    <2>2. \A r \in Readers : Unseen(r)' = Unseen(r) /\ Seen(r)' = Seen(r)
      BY <2>1, SeenPrime DEF Unseen, Seen
    <2> QED
      BY <2>1, <2>2 DEF WeakInv
  <1>2. CASE CN!Next
    <2>1. ASSUME NEW t \in Counters, CounterStep(t) PROVE WeakInv'
      BY <2>1, CounterKeepsWeak DEF CounterIInv
    <2>2. ASSUME NEW r \in Readers, ReaderStep(r) PROVE WeakInv'
      BY <2>2, ReaderKeepsWeak DEF CounterIInv
    <2> QED
      BY <1>2, <2>1, <2>2, StepCases
  <1> QED
    BY <1>1, <1>2

\* What a query that took no time would have seen bounds the answer from both
\* sides in the step that gives it.
LEMMA AnswersInBounds ==
    CounterIInv /\ CounterIInv' /\ WeakInv /\ [CN!Next]_CN!vars
    => \A r \in Readers : (kind = "weak" /\ counterOp[r] = "load" /\ counterOp'[r] = "none")
          => floor[r] <= counterRes'[r] /\ counterRes'[r] <= CN!Visible'
  <1> SUFFICES ASSUME CounterIInv, CounterIInv', WeakInv, [CN!Next]_CN!vars, NEW r \in Readers, kind = "weak",
                      counterOp[r] = "load", counterOp'[r] = "none"
               PROVE  floor[r] <= counterRes'[r] /\ counterRes'[r] <= CN!Visible'
    OBVIOUS
  <1> USE DEF CounterIInv
  <1>1. CN!Next
    BY DEF CN!vars, CN!query
  <1>2. ReaderStep(r)
    <2>1. ASSUME NEW t \in Counters, CounterStep(t) PROVE FALSE
      BY <2>1, CounterFrame
    <2>2. ASSUME NEW u \in Readers, u # r, ReaderStep(u) PROVE FALSE
      BY <2>2, ReaderFrame
    <2> QED
      BY <1>1, <2>1, <2>2, StepCases
  <1>3. CN!Unlock(r)
    BY <1>2 DEF ReaderStep, CN!SimplexQuery, CN!Query, CN!poll, CN!StrongBase, QueryInv, CounterTypes
  <1>4. /\ counterPc[r] = "rollcall" /\ todo[r] = {}
        /\ counterRes'[r] = tmp[r] + value_ /\ UNCHANGED <<value_, children_, broker_>>
    BY <1>3 DEF CN!Unlock, CN!Base, CN!Answer, CounterTypes
  <1>5. Unseen(r) = 0 /\ Seen(r) = CN!SumOver(broker_, children_)
    <2>1. children_ \ todo[r] = children_
      BY <1>4
    <2> QED
      BY <1>4, <2>1, SumEmpty DEF Unseen, Seen
  <1>6. CN!Visible' = value_ + Seen(r)
    BY <1>4, <1>5 DEF CN!Visible, CN!SumOver, CN!MapThenSumSet, CN!MapThenFoldSet
  <1>7. /\ floor[r] <= value_ + tmp[r] + Unseen(r) /\ tmp[r] <= Seen(r)
        /\ value_ \in Int /\ tmp[r] \in Int /\ floor[r] \in Int
    BY <1>4 DEF WeakInv, CounterTypes
  <1>8. Seen(r) \in Int
    BY SeenTypes
  <1>9. floor[r] <= tmp[r] + value_ /\ tmp[r] + value_ <= value_ + Seen(r)
    BY <1>5, <1>7, <1>8
  <1> QED
    BY <1>4, <1>6, <1>9

\* load of a weak counter answers with a count between what was visible when
\* it took the mutex and what is visible when it releases it
\* (counter.h:452-459), if nothing is subtracted.
THEOREM LoadInBoundsCorrect ==
    ASSUME Amounts \subseteq Nat
    PROVE  CN!Spec => LoadInBounds
  <1>1. CN!Init => WeakInv
    BY InitHolds
  <1>2. CounterIInv /\ CounterIInv' /\ WeakInv /\ [CN!Next]_CN!vars => WeakInv'
    BY NextWeak
  <1>3. CounterIInv /\ CounterIInv' /\ WeakInv /\ [CN!Next]_CN!vars =>
          [\A r \in Readers : (kind = "weak" /\ counterOp[r] = "load" /\ counterOp'[r] = "none")
              => floor[r] <= counterRes'[r] /\ counterRes'[r] <= CN!Visible']_CN!vars
    BY AnswersInBounds
  <1> QED
    BY <1>1, <1>2, <1>3, InductiveInvariant, PTL DEF CN!Spec, LoadInBounds, CN!LoadInBounds

\* What is proved of CN!Spec holds of the instances that are model-checked.
THEOREM UnitCorrect ==
    UnitSpec => [](Conservation /\ NoDanglingBroker)
  <1>1. UnitInit => CN!Init
    BY DEF UnitInit
  <1>2. [UnitNext]_all => [CN!Next]_CN!vars
    BY DEF UnitNext, OfCounter, OfQueue, all, counterVars, CN!vars, CN!client, CN!counter,
           CN!query
  <1>3. UnitSpec => CN!Spec
    BY <1>1, <1>2, PTL DEF UnitSpec, CN!Spec
  <1> QED
    BY <1>3, ConservationCorrect, NoDanglingBrokerCorrect, PTL
=============================================================================
