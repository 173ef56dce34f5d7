----------------------------- MODULE QueueEnds -----------------------------
(***************************************************************************)
(* The shared ends of a queue (include/queue_base.h): share_queue_ends     *)
(* makes a queue_object and hands out a shared_queue_back and a            *)
(* shared_queue_front, which their threads copy, move, call and destroy.   *)
(* queue_counted counts the backs in bk_ and the fronts in ft_; the last   *)
(* end of either kind closes the queue, and whoever then finds that the    *)
(* other kind is gone as well deletes it.                                  *)
(*                                                                         *)
(* The queue inside is any that keeps the contract of BoundedQueue; each   *)
(* end is used by one thread at a time, so an end stands for a client of   *)
(* that contract.                                                          *)
(***************************************************************************)
EXTENDS Naturals, Sequences, FiniteSets

CONSTANTS
    Backs, Fronts,      \* names for the ends; a name is free again once its end is gone
    FirstBack, FirstFront,
    Values, Capacity, NoValue

Ends == Backs \cup Fronts

\* What the constants have to satisfy.
ConstantsOK ==
    /\ IsFiniteSet(Ends) /\ Backs \cap Fronts = {}
    /\ FirstBack \in Backs /\ FirstFront \in Fronts
    /\ Capacity \in Nat /\ NoValue \notin Values

VARIABLES
    bk_, ft_,     \* queue_counted's counts
    end,          \* each end: "none" (there is none of that name), "refers" to
                  \* the queue, "null" (moved from), or in release() at
                  \* "close", "other" (asks for the other kind) or "delete"
    deletes,      \* how often the queue has been deleted
    q, closed, call, res   \* the queue, see BoundedQueue

Q == INSTANCE BoundedQueue WITH Threads <- Ends

queueVars == <<q, closed, call, res>>
vars == <<bk_, ft_, end, deletes, queueVars>>

Goto(e, s) == end' = [end EXCEPT ![e] = s]

\* share_queue_ends: the queue may have been built with elements in it.
Init ==
    /\ bk_ = 1 /\ ft_ = 1
    /\ end = [e \in Ends |-> IF e \in {FirstBack, FirstFront} THEN "refers" ELSE "none"]
    /\ deletes = 0
    /\ q \in UNION {[1 .. n -> Values] : n \in 0 .. Capacity}
    /\ closed = FALSE
    /\ call = [e \in Ends |-> "none"]
    /\ res = [e \in Ends |-> Q!NoAnswer]

-----------------------------------------------------------------------------

SameKind(e, f) == e \in Backs <=> f \in Backs

\* Mutant: a copy does not count itself.
Copy_NoInc(e, f) ==
    /\ end[e] = "refers" /\ end[f] = "none" /\ SameKind(e, f)
    /\ call[e] = "none"
    /\ Goto(f, "refers")
    /\ UNCHANGED <<bk_, ft_, deletes, queueVars>>

\* The copy constructors.
Copy(e, f) ==
    /\ end[e] = "refers" /\ end[f] = "none" /\ SameKind(e, f)
    /\ call[e] = "none"
    /\ Goto(f, "refers")
    /\ IF e \in Backs THEN bk_' = bk_ + 1 /\ UNCHANGED ft_
                      ELSE ft_' = ft_ + 1 /\ UNCHANGED bk_
    /\ UNCHANGED <<deletes, queueVars>>

\* Mutant: the end moved from keeps its pointer.
Move_Keep(e, f) ==
    /\ end[e] = "refers" /\ end[f] = "none" /\ SameKind(e, f)
    /\ call[e] = "none"
    /\ Goto(f, "refers")
    /\ UNCHANGED <<bk_, ft_, deletes, queueVars>>

\* The move constructors, also from an end that was moved from before.
Move(e, f) ==
    /\ end[e] \in {"refers", "null"} /\ end[f] = "none" /\ SameKind(e, f)
    /\ call[e] = "none"
    /\ end' = [end EXCEPT ![f] = end[e], ![e] = "null"]
    /\ res' = [res EXCEPT ![e] = Q!NoAnswer]
    /\ UNCHANGED <<bk_, ft_, deletes, q, closed, call>>

\* Destroying an end that was moved from.
ReleaseNull(e) ==
    /\ end[e] = "null"
    /\ Goto(e, "none")
    /\ UNCHANGED <<bk_, ft_, deletes, queueVars>>

\* The last of the kind goes on to close the queue.
Decremented(e, last) ==
    /\ IF last
       THEN Goto(e, "close") /\ call' = [call EXCEPT ![e] = "close"]
       ELSE Goto(e, "none") /\ UNCHANGED call
    /\ res' = [res EXCEPT ![e] = Q!NoAnswer]
    /\ UNCHANGED <<q, closed>>

\* Mutant: dec_back and dec_front test the count before they decrement it.
Release_Postfix(e) ==
    /\ end[e] = "refers" /\ call[e] = "none"
    /\ \/ e \in Backs  /\ bk_' = bk_ - 1 /\ UNCHANGED ft_ /\ Decremented(e, bk_ = 0)
       \/ e \in Fronts /\ ft_' = ft_ - 1 /\ UNCHANGED bk_ /\ Decremented(e, ft_ = 0)
    /\ UNCHANGED deletes

\* release() in the destructor: dec_back or dec_front.
Release(e) ==
    /\ end[e] = "refers" /\ call[e] = "none"
    /\ \/ e \in Backs  /\ bk_' = bk_ - 1 /\ UNCHANGED ft_ /\ Decremented(e, bk_' = 0)
       \/ e \in Fronts /\ ft_' = ft_ - 1 /\ UNCHANGED bk_ /\ Decremented(e, ft_' = 0)
    /\ UNCHANGED deletes

\* Mutant: release() does not close the queue.
ReleaseClose_Skip(e) ==
    /\ end[e] = "close"
    /\ call' = [call EXCEPT ![e] = "none"]
    /\ Goto(e, "other")
    /\ UNCHANGED <<q, closed, res, bk_, ft_, deletes>>

\* queue_->close()
ReleaseClose(e) ==
    /\ end[e] = "close"
    /\ Q!Close(e) /\ call'[e] = "none"
    /\ Goto(e, "other")
    /\ UNCHANGED <<bk_, ft_, deletes>>

\* Mutant: release() asks for its own kind.
ReleaseOther_Own(e) ==
    /\ end[e] = "other"
    /\ Goto(e, IF (e \in Backs /\ bk_ = 0) \/ (e \in Fronts /\ ft_ = 0)
               THEN "delete" ELSE "none")
    /\ UNCHANGED <<bk_, ft_, deletes, queueVars>>

\* queue_->no_front(), queue_->no_back()
ReleaseOther(e) ==
    /\ end[e] = "other"
    /\ Goto(e, IF (e \in Backs /\ ft_ = 0) \/ (e \in Fronts /\ bk_ = 0)
               THEN "delete" ELSE "none")
    /\ UNCHANGED <<bk_, ft_, deletes, queueVars>>

Delete(e) ==
    /\ end[e] = "delete"
    /\ deletes' = deletes + 1
    /\ Goto(e, "none")
    /\ UNCHANGED <<bk_, ft_, queueVars>>

-----------------------------------------------------------------------------
(* Calls through an end go to the queue: backs push, fronts pop, both ask  *)
(* and close.                                                              *)

Invoke(e) ==
    /\ end[e] = "refers"
    /\ Q!Invoke(e)
    /\ call'[e] = "push" => e \in Backs
    /\ call'[e] = "pop" => e \in Fronts
    /\ UNCHANGED <<bk_, ft_, end, deletes>>

\* push, wait_push, value_pop and wait_pop return when the queue lets them,
\* the others at once.
Serve(e) ==
    /\ end[e] = "refers"
    /\ Q!Push(e) \/ Q!Pop(e) \/ Q!Query(e) \/ Q!Close(e)
         \/ (Q!Refuse(e) /\ res'[e].status = "closed")
    /\ UNCHANGED <<bk_, ft_, end, deletes>>

\* try_push, try_pop, nonblocking_push and nonblocking_pop.
TurnAway(e) ==
    /\ end[e] = "refers"
    /\ Q!Refuse(e) /\ res'[e].status # "closed"
    /\ UNCHANGED <<bk_, ft_, end, deletes>>

Releasing(e) == ReleaseClose(e) \/ ReleaseOther(e) \/ Delete(e)

Next ==
    \/ \E e, f \in Ends : Copy(e, f) \/ Move(e, f)
    \/ \E e \in Ends :
        \/ ReleaseNull(e) \/ Release(e) \/ Releasing(e)
        \/ Invoke(e) \/ Serve(e) \/ TurnAway(e)

Spec == Init /\ [][Next]_vars

\* A destructor that has begun goes on, and a pop that the queue can serve is
\* served even if other ends compete for it, as in buffer_queue (see
\* CloseReleases).  Nothing obliges a client to call or to release.
LiveSpec ==
    /\ Spec
    /\ \A e \in Ends : WF_vars(Releasing(e))
    /\ \A e \in Fronts : SF_vars(Serve(e))

-----------------------------------------------------------------------------
(* Properties.                                                             *)

TypeOK ==
    /\ bk_ \in 0 .. Cardinality(Backs)
    /\ ft_ \in 0 .. Cardinality(Fronts)
    /\ end \in [Ends -> {"none", "refers", "null", "close", "other", "delete"}]
    /\ deletes \in Nat
    /\ Q!TypeOK

Refers(S) == {e \in S : end[e] = "refers"}

\* An end that a client can still call refers to a queue that is there: the
\* counts never miss an end, whatever is copied, moved and released.
NoDanglingEnd ==
    /\ deletes > 0 => Refers(Ends) = {}
    /\ Cardinality(Refers(Backs)) <= bk_ /\ Cardinality(Refers(Fronts)) <= ft_

\* "when the last of the fronts or the last of the backs is deleted, the queue
\* will be closed" (n3533.html), at the latest when its destructor is done.
LastEndCloses ==
    \A K \in {Backs, Fronts} :
        (\A e \in K : end[e] \notin {"refers", "close"}) => closed

\* Once there is no back any more, a pop that waits through a front returns:
\* the consumers of a queue whose producers are gone come to an end.
ConsumersEnd ==
    \A e \in Fronts : (Refers(Backs) = {} /\ call[e] = "pop") ~> call[e] # "pop"

\* When no end refers to the queue it is deleted, in whatever order and
\* however concurrently the last ends go.
Reclaimed == (Refers(Ends) = {}) ~> (deletes > 0)

\* ... and it is deleted only once, with nobody still working on it.
DeletedOnce ==
    /\ deletes <= 1
    /\ deletes = 1 => \A e \in Ends : end[e] \notin {"close", "other", "delete"}
=============================================================================
