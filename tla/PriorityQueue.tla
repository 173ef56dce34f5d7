--------------------------- MODULE PriorityQueue ---------------------------
(***************************************************************************)
(* gcl::concurrent_priority_queue (include/concurrent_priority_queue.h): a *)
(* heap in a container, under one mutex, with a pop that blocks.  Each     *)
(* stretch under pop_mutex_ is one step.  The heap operations are the      *)
(* standard library's, known by their contracts: push_heap and pop_heap    *)
(* expect a heap and leave one, in any arrangement; without one to start   *)
(* from the arrangement is anything.                                       *)
(***************************************************************************)
EXTENDS Naturals, Sequences, SequencesExt

CONSTANTS
    Threads,
    Elems,          \* the elements, each with the number that is its priority
    MaxElems,       \* at most so many are in the queue
    CopyThrows      \* may the assignment of an element throw

VARIABLES
    less_,          \* whether a smaller number is a lower priority
    cont_,
    pc,             \* of each thread: "out", "blocked" on pop_var_, "woken"
    last,           \* the element popped last (a history variable)
    thrown          \* an assignment has thrown since the heap was last made

vars == <<less_, cont_, pc, last, thrown>>

Less(l, x, y) == IF l THEN x < y ELSE x > y
IsHeap(l, s)  == \A i \in 2 .. Len(s) : ~Less(l, s[i \div 2], s[i])
Arrangements(s) == SetToSeqs(ToSet(s))      \* no element is there twice

make_heap(l, s) == {h \in Arrangements(s) : IsHeap(l, h)}
push_heap(l, s) == IF IsHeap(l, Front(s)) THEN make_heap(l, s) ELSE Arrangements(s)
pop_heap(l, s)  ==
    IF IsHeap(l, s) THEN {Append(h, s[1]) : h \in make_heap(l, Tail(s))} ELSE Arrangements(s)

\* The constructors: from nothing, or from any elements.
Init ==
    /\ less_ \in BOOLEAN
    /\ \E S \in SUBSET Elems : \E s \in SetToSeqs(S) :
          Len(s) <= MaxElems /\ cont_ \in make_heap(less_, s)
    /\ pc = [t \in Threads |-> "out"]
    /\ last = <<>> /\ thrown = FALSE

Woken == [t \in Threads |-> IF pc[t] = "blocked" THEN "woken" ELSE pc[t]]

push(t, x) ==
    /\ pc[t] = "out" /\ Len(cont_) < MaxElems /\ x \notin ToSet(cont_)
    /\ cont_' \in push_heap(less_, Append(cont_, x))
    /\ pc' = Woken
    /\ UNCHANGED <<less_, last, thrown>>

\* do_pop of an element.  An assignment that throws leaves it at the back.
do_pop ==
    \E h \in pop_heap(less_, cont_) :
       \/ cont_' = Front(h) /\ last' = <<Last(h)>> /\ UNCHANGED thrown
       \/ CopyThrows /\ cont_' = h /\ thrown' = TRUE /\ UNCHANGED last

try_pop(t) ==
    /\ pc[t] = "out" /\ cont_ # <<>>
    /\ do_pop
    /\ UNCHANGED <<less_, pc>>

\* pop: it blocks until there is an element; an exception ends it as well.
pop(t) ==
    /\ pc[t] \in {"out", "woken"}
    /\ IF cont_ = <<>>
       THEN pc' = [pc EXCEPT ![t] = "blocked"] /\ UNCHANGED <<cont_, last, thrown>>
       ELSE do_pop /\ pc' = [pc EXCEPT ![t] = "out"]
    /\ UNCHANGED less_

SpuriousWakeup(t) ==
    /\ pc[t] = "blocked" /\ pc' = [pc EXCEPT ![t] = "woken"]
    /\ UNCHANGED <<less_, cont_, last, thrown>>

\* A slip: only the comparator is replaced.
update_KeepsOrder(l) == less_' = l /\ thrown' = FALSE /\ UNCHANGED <<cont_, pc, last>>

\* update takes no lock: the caller sees to it that nobody is inside.
update(l) ==
    /\ less_' = l
    /\ cont_' \in make_heap(l, cont_)
    /\ thrown' = FALSE
    /\ UNCHANGED <<pc, last>>

Next ==
    \/ \E t \in Threads :
          try_pop(t) \/ pop(t) \/ SpuriousWakeup(t) \/ \E x \in Elems : push(t, x)
    \/ \E l \in BOOLEAN : update(l)

Spec == Init /\ [][Next]_vars

-----------------------------------------------------------------------------

\* Who pops gets the element of the highest priority there is ("the element
\* with the highest priority", concurrent_priority_queue.h:175), under
\* whatever comparator was set last, unless an assignment has thrown since: that
\* leaves an element outside the heap, but loses none.  And nobody is left
\* blocked while there are elements.
HighestFirst ==
    [][LET gone == ToSet(cont_) \ ToSet(cont_') IN
       /\ gone # {} => last' # <<>> /\ gone = {last'[1]}
       /\ ~thrown => \A x \in gone : \A y \in ToSet(cont_) : ~Less(less_, x, y)
       /\ cont_' # <<>> => \A t \in Threads : pc'[t] # "blocked"]_vars
=============================================================================
