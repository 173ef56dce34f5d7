------------------------ MODULE LockFreeBufferQueue ------------------------
(***************************************************************************)
(* gcl::lock_free_buffer_queue (include/lock_free_buffer_queue.h).  head_  *)
(* and tail_ only grow; a push reserves index i by moving tail_ from i to  *)
(* i + 1, writes slot i % cardinality_ and then marks it valid; a pop      *)
(* reserves i by moving head_, copies the element and marks the slot       *)
(* waiting again.  A push whose copy throws leaves the slot invalid, and   *)
(* pops skip it.  Every atomic access is one action.                       *)
(*                                                                         *)
(* Elements are never compared, so each is named by the index that its     *)
(* push reserved: a slot that holds i holds the element of the i-th push,  *)
(* and a FIFO queue hands out element i to the pop that reserved i.        *)
(***************************************************************************)
EXTENDS Integers, FiniteSets

CONSTANTS
    Producers, Consumers,  \* threads that push, threads that pop
    cardinality_,          \* the number of slots
    MaxTail,               \* bound: how many pushes may reserve an index
    Ops,                   \* the member functions the clients use
    CopyThrows,            \* may the element's assignment throw
    ReorderLoads,          \* may a call's loads of head_ and tail_ happen in
                           \* the order opposite to the program text
    WeakFails,             \* may compare_exchange_weak fail spuriously
    NoIndex

Threads == Producers \cup Consumers

PopOps   == {"nonblocking_pop", "try_pop"}
PushOps  == {"nonblocking_push", "try_push"}
QueryOps == {"is_empty", "is_full"}
TryOps   == {"try_pop", "try_push"}

ASSUME CardinalityAssumption == cardinality_ \in Nat \ {0}
ASSUME BoundAssumption == MaxTail \in Nat /\ NoIndex \notin Nat
ASSUME OpsAssumption   == Ops \subseteq PopOps \cup PushOps \cup QueryOps
ASSUME FlagsAssumption == {CopyThrows, ReorderLoads, WeakFails} \subseteq BOOLEAN

VARIABLES
    head_, tail_,
    value_state_,  \* slot -> valid, waiting or invalid
    values_,       \* slot -> the element in it
    pc, op, res,   \* each thread's place, member function and last answer
    head, tail,    \* its local copies of head_ and tail_, or NoIndex
    seen           \* history: was the queue "empty" or "full" at some point
                   \* of the call the thread is in

shared == <<head_, tail_, value_state_, values_>>
vars   == <<shared, pc, op, res, head, tail, seen>>

Slots == 0 .. cardinality_ - 1

Pos(i) == i % cardinality_

Index == 0 .. MaxTail

TypeOK ==
    /\ head_ \in Index
    /\ tail_ \in Index
    /\ value_state_ \in [Slots -> {"valid", "waiting", "invalid"}]
    /\ values_ \in [Slots -> Index \cup {NoIndex}]
    /\ pc \in [Threads -> {"idle", "load", "state", "cas_head", "copy", "clear",
                           "skip", "clear_invalid", "cas_tail", "write", "set_valid",
                           "set_invalid"}]
    /\ op \in [Threads -> PopOps \cup PushOps \cup QueryOps \cup {"none"}]
    /\ res \in [Threads -> {"none", "success", "empty", "full", "busy", "exception",
                            "true", "false"}]
    /\ head \in [Threads -> Index \cup {NoIndex}]
    /\ tail \in [Threads -> Index \cup {NoIndex}]
    /\ seen \in [Threads -> SUBSET {"empty", "full"}]

\* init, and iter_init with any number of elements that fits.
Init ==
    /\ head_ = 0
    /\ \E k \in 0 .. cardinality_ :
        /\ tail_ = k /\ k <= MaxTail
        /\ value_state_ = [s \in Slots |-> IF s < k THEN "valid" ELSE "waiting"]
        /\ values_ = [s \in Slots |-> IF s < k THEN s ELSE NoIndex]
    /\ pc = [t \in Threads |-> "idle"]
    /\ op = [t \in Threads |-> "none"]
    /\ res = [t \in Threads |-> "none"]
    /\ head = [t \in Threads |-> NoIndex]
    /\ tail = [t \in Threads |-> NoIndex]
    /\ seen = [t \in Threads |-> {}]

-----------------------------------------------------------------------------
(* Moving through a call.                                                  *)

Call(t) ==
    /\ pc[t] = "idle"
    /\ \E o \in Ops :
        /\ o \in PushOps => t \in Producers
        /\ o \in PopOps => t \in Consumers
        /\ op' = [op EXCEPT ![t] = o]
    /\ pc' = [pc EXCEPT ![t] = "load"]
    /\ res' = [res EXCEPT ![t] = "none"]
    /\ UNCHANGED <<shared, head, tail>>

Goto(t, p) == pc' = [pc EXCEPT ![t] = p] /\ UNCHANGED <<op, res>>

Forget(t) == /\ head' = [head EXCEPT ![t] = NoIndex]
             /\ tail' = [tail EXCEPT ![t] = NoIndex]

Return(t, s) ==
    /\ pc' = [pc EXCEPT ![t] = "idle"]
    /\ op' = [op EXCEPT ![t] = "none"]
    /\ res' = [res EXCEPT ![t] = s]
    /\ Forget(t)

\* try_pop and try_push go round again.
Busy(t) ==
    IF op[t] \in TryOps
    THEN Goto(t, "load") /\ Forget(t)
    ELSE Return(t, "busy")

-----------------------------------------------------------------------------
(* The two loads every call begins with, and what it concludes from them.  *)

\* Mutant: every call reads tail_ first.
HeadFirst_Never(t) == FALSE

HeadFirst(t) == op[t] \in PopOps \cup {"is_empty"}

\* Mutant: the queue is taken as full one element early.
Concludes_OneEarly(t, h, l) ==
    \/ /\ op[t] \in PopOps
       /\ IF h = l THEN Return(t, "empty")
          ELSE Goto(t, "state") /\ head' = [head EXCEPT ![t] = h]
                                /\ tail' = [tail EXCEPT ![t] = NoIndex]
    \/ /\ op[t] \in PushOps
       /\ IF l = h + cardinality_ - 1 THEN Return(t, "full")
          ELSE Goto(t, "state") /\ head' = [head EXCEPT ![t] = NoIndex]
                                /\ tail' = [tail EXCEPT ![t] = l]
    \/ op[t] = "is_empty" /\ Return(t, IF h = l THEN "true" ELSE "false")
    \/ op[t] = "is_full" /\ Return(t, IF l = h + cardinality_ - 1 THEN "true" ELSE "false")

\* A pop goes on with the head it read, a push with the tail.
Concludes(t, h, l) ==
    \/ /\ op[t] \in PopOps
       /\ IF h = l THEN Return(t, "empty")
          ELSE Goto(t, "state") /\ head' = [head EXCEPT ![t] = h]
                                /\ tail' = [tail EXCEPT ![t] = NoIndex]
    \/ /\ op[t] \in PushOps
       /\ IF l = h + cardinality_ THEN Return(t, "full")
          ELSE Goto(t, "state") /\ head' = [head EXCEPT ![t] = NoIndex]
                                /\ tail' = [tail EXCEPT ![t] = l]
    \/ op[t] = "is_empty" /\ Return(t, IF h = l THEN "true" ELSE "false")
    \/ op[t] = "is_full" /\ Return(t, IF l = h + cardinality_ THEN "true" ELSE "false")

LoadHead(t) ==
    /\ pc[t] = "load" /\ head[t] = NoIndex
    /\ HeadFirst(t) \/ tail[t] # NoIndex \/ ReorderLoads
    /\ IF tail[t] = NoIndex
       THEN head' = [head EXCEPT ![t] = head_] /\ UNCHANGED <<pc, op, res, tail>>
       ELSE Concludes(t, head_, tail[t])
    /\ UNCHANGED shared

LoadTail(t) ==
    /\ pc[t] = "load" /\ tail[t] = NoIndex
    /\ ~HeadFirst(t) \/ head[t] # NoIndex \/ ReorderLoads
    /\ IF head[t] = NoIndex
       THEN tail' = [tail EXCEPT ![t] = tail_] /\ UNCHANGED <<pc, op, res, head>>
       ELSE Concludes(t, head[t], tail_)
    /\ UNCHANGED shared

-----------------------------------------------------------------------------
(* nonblocking_pop                                                         *)

PopState(t) ==
    /\ pc[t] = "state" /\ op[t] \in PopOps
    /\ LET s == value_state_[Pos(head[t])] IN
        \/ s = "valid" /\ Goto(t, "cas_head") /\ UNCHANGED <<head, tail>>
        \/ s = "invalid" /\ Goto(t, "skip") /\ UNCHANGED <<head, tail>>
        \/ s = "waiting" /\ Busy(t)
    /\ UNCHANGED shared

\* Mutant: the reservation is a store, so two pops may take one element.
CasHead_Store(t) ==
    /\ pc[t] = "cas_head"
    /\ head_' = head[t] + 1
    /\ Goto(t, "copy") /\ UNCHANGED <<head, tail>>
    /\ UNCHANGED <<tail_, value_state_, values_>>

\* Mutant: head_ is incremented whatever it holds.
CasHead_FetchAdd(t) ==
    /\ pc[t] = "cas_head"
    /\ head_' = head_ + 1
    /\ Goto(t, "copy") /\ UNCHANGED <<head, tail>>
    /\ UNCHANGED <<tail_, value_state_, values_>>

CasHead(t) ==
    /\ pc[t] = "cas_head"
    /\ IF head_ = head[t]
       THEN head_' = head_ + 1 /\ Goto(t, "copy") /\ UNCHANGED <<head, tail>>
       ELSE UNCHANGED head_ /\ Busy(t)
    /\ UNCHANGED <<tail_, value_state_, values_>>

\* elem = values_[pos]; it clears the slot whether or not the copy throws.
Copy(t) ==
    /\ pc[t] = "copy"
    /\ pc' = [pc EXCEPT ![t] = "clear"]
    /\ \/ UNCHANGED res
       \/ CopyThrows /\ res' = [res EXCEPT ![t] = "exception"]
    /\ UNCHANGED <<shared, op, head, tail>>

\* compare_exchange_weak from old to new, its failure ignored.
CasState(pos, old, new) ==
    \/ value_state_[pos] = old /\ value_state_' = [value_state_ EXCEPT ![pos] = new]
    \/ (value_state_[pos] # old \/ WeakFails) /\ UNCHANGED value_state_

clear_value(t) ==
    /\ pc[t] = "clear"
    /\ CasState(Pos(head[t]), "valid", "waiting")
    /\ Return(t, IF res[t] = "none" THEN "success" ELSE res[t])
    /\ UNCHANGED <<head_, tail_, values_>>

\* Mutant: the slot is cleared before head_ leaves it.
SkipInvalid_ClearFirst(t) ==
    /\ pc[t] = "skip"
    /\ CasState(Pos(head[t]), "invalid", "waiting")
    /\ Goto(t, "clear_invalid")
    /\ UNCHANGED <<head_, tail_, values_, head, tail>>

\* An invalid slot: head_ is moved past it if it has not moved, and the slot
\* is cleared in either case.
SkipInvalid(t) ==
    /\ pc[t] = "skip"
    /\ head_' = IF head_ = head[t] THEN head_ + 1 ELSE head_
    /\ Goto(t, "clear_invalid")
    /\ UNCHANGED <<tail_, value_state_, values_, head, tail>>

ClearInvalid(t) ==
    /\ pc[t] = "clear_invalid"
    /\ CasState(Pos(head[t]), "invalid", "waiting")
    /\ Busy(t)
    /\ UNCHANGED <<head_, tail_, values_>>

-----------------------------------------------------------------------------
(* nonblocking_push                                                        *)

\* Mutant: the state of the slot is not looked at before it is reserved.
PushState_Unchecked(t) ==
    /\ pc[t] = "state" /\ op[t] \in PushOps
    /\ Goto(t, "cas_tail") /\ UNCHANGED <<head, tail>>
    /\ UNCHANGED shared

PushState(t) ==
    /\ pc[t] = "state" /\ op[t] \in PushOps
    /\ IF value_state_[Pos(tail[t])] = "waiting"
       THEN Goto(t, "cas_tail") /\ UNCHANGED <<head, tail>>
       ELSE Busy(t)
    /\ UNCHANGED shared

\* MaxTail stops the push that would reserve one index too many.
CasTail(t) ==
    /\ pc[t] = "cas_tail"
    /\ tail_ = tail[t] => tail_ < MaxTail
    /\ IF tail_ = tail[t]
       THEN tail_' = tail_ + 1 /\ Goto(t, "write") /\ UNCHANGED <<head, tail>>
       ELSE UNCHANGED tail_ /\ Busy(t)
    /\ UNCHANGED <<head_, value_state_, values_>>

\* Mutant: the slot is marked before the element is in it.
Write_AfterState(t) ==
    /\ pc[t] = "write"
    /\ value_state_' = [value_state_ EXCEPT ![Pos(tail[t])] = "valid"]
    /\ Goto(t, "set_valid")
    /\ UNCHANGED <<head_, tail_, values_, head, tail>>

\* values_[pos] = elem, which may throw.
Write(t) ==
    /\ pc[t] = "write"
    /\ \/ values_' = [values_ EXCEPT ![Pos(tail[t])] = tail[t]] /\ Goto(t, "set_valid")
       \/ CopyThrows /\ UNCHANGED values_ /\ Goto(t, "set_invalid")
    /\ UNCHANGED <<head_, tail_, value_state_, head, tail>>

\* Mutant: a failed copy marks the slot as if it had succeeded.
set_state_AlwaysValid(t) ==
    /\ \/ pc[t] = "set_valid" /\ Return(t, "success")
       \/ pc[t] = "set_invalid" /\ Return(t, "exception")
    /\ CasState(Pos(tail[t]), "waiting", "valid")
    /\ UNCHANGED <<head_, tail_, values_>>

\* Mutant: the exchange expects the wrong old state, so it always fails.
set_state_WrongOld(t) ==
    /\ \/ pc[t] = "set_valid" /\ Return(t, "success")
       \/ pc[t] = "set_invalid" /\ Return(t, "exception")
    /\ CasState(Pos(tail[t]), "invalid", "valid")
    /\ UNCHANGED <<head_, tail_, values_>>

set_state(t) ==
    /\ \/ /\ pc[t] = "set_valid"
          /\ CasState(Pos(tail[t]), "waiting", "valid")
          /\ Return(t, "success")
       \/ /\ pc[t] = "set_invalid"
          /\ CasState(Pos(tail[t]), "waiting", "invalid")
          /\ Return(t, "exception")
    /\ UNCHANGED <<head_, tail_, values_>>

-----------------------------------------------------------------------------

\* What the queue is after the step, kept for every thread inside a call.
Record ==
    LET now == (IF head_' = tail_' THEN {"empty"} ELSE {})
               \cup (IF tail_' = head_' + cardinality_ THEN {"full"} ELSE {})
    IN seen' = [t \in Threads |-> IF op'[t] = "none" THEN {} ELSE seen[t] \cup now]

Step(t) ==
    /\ \/ LoadHead(t) \/ LoadTail(t)
       \/ PopState(t) \/ CasHead(t) \/ Copy(t) \/ clear_value(t)
       \/ SkipInvalid(t) \/ ClearInvalid(t)
       \/ PushState(t) \/ CasTail(t) \/ Write(t) \/ set_state(t)
    /\ Record

Begin(t) == Call(t) /\ Record

Next == \E t \in Threads : Begin(t) \/ Step(t)

Spec == Init /\ [][Next]_vars

\* Every thread inside a call is scheduled, and consumers keep coming back to
\* pop, whatever else they ask in between.
LiveSpec ==
    /\ Spec
    /\ \A t \in Threads : WF_vars(Step(t))
    /\ \A t \in Consumers : SF_vars(Begin(t) /\ op'[t] \in PopOps)

-----------------------------------------------------------------------------
(* Properties.                                                             *)

\* The reserved window never exceeds the slots and head_ never passes tail_,
\* so no push writes a slot another push or pop is still using.
WindowOK == head_ <= tail_ /\ tail_ <= head_ + cardinality_

\* A pop that has reserved index i copies element i, out of a slot nobody
\* else is at: elements come out once each, in the order of their pushes.
PopsGetTheirElement ==
    \A t \in Threads : pc[t] = "copy" =>
        /\ values_[Pos(head[t])] = head[t]
        /\ value_state_[Pos(head[t])] = "valid"
        /\ \A u \in Threads \ {t} :
             /\ pc[u] = "copy" => head[u] # head[t]
             /\ pc[u] \in {"write", "set_valid"} => Pos(tail[u]) # Pos(head[t])

\* A slot in the window that is waiting has a push that will fill it: no
\* index is left for which pops wait for ever.
NoOrphanSlot ==
    \A i \in head_ .. tail_ - 1 :
        value_state_[Pos(i)] = "waiting" =>
            \E t \in Threads : tail[t] = i /\ pc[t] \in {"write", "set_valid", "set_invalid"}

\* The failure branch of clear_value and set_state ("this should never happen
\* for real") is not taken for a pop or a push that owns the slot.
CasSucceeds ==
    \A t \in Threads :
        /\ pc[t] = "clear" => value_state_[Pos(head[t])] = "valid"
        /\ pc[t] \in {"write", "set_valid", "set_invalid"} =>
             value_state_[Pos(tail[t])] = "waiting"

Answers(t, Os, s) == op[t] \in Os /\ op'[t] = "none" /\ res'[t] = s

\* nonblocking_pop and try_pop answer empty, nonblocking_push and try_push
\* full, is_empty and is_full true, only if the queue was in that state at
\* some point during the call, although the two indexes are read apart.
TruthfulAnswers ==
    [][\A t \in Threads :
        /\ Answers(t, PopOps, "empty") \/ Answers(t, {"is_empty"}, "true") => "empty" \in seen[t]
        /\ Answers(t, PushOps, "full") \/ Answers(t, {"is_full"}, "true") => "full" \in seen[t]
      ]_vars

\* Every index a push reserves is eventually consumed.
AllConsumed == \A i \in 0 .. MaxTail - 1 : (tail_ > i) ~> (head_ > i)
=============================================================================
