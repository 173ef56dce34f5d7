---------------------------- MODULE BoundedQueue ----------------------------
(***************************************************************************)
(* What a closable bounded queue promises to its clients, with no mutex,   *)
(* index or waiter in sight.  A client thread makes a call, the call takes *)
(* effect in one atomic step and answers with a queue_op_status.           *)
(*                                                                         *)
(* A call whose element copy throws does not answer at once: it turns into *)
(* a pending close of the queue, and answers when the close has happened.  *)
(* A push that throws leaves the contents alone; a pop that throws has     *)
(* already removed the element it could not deliver.                       *)
(***************************************************************************)
EXTENDS Naturals, Sequences

CONSTANTS
    Threads,   \* the client threads
    Values,    \* the elements
    Capacity,  \* the most elements the queue holds
    NoValue    \* stands for "no element" in an answer

VARIABLES
    q,         \* the elements, oldest first
    closed,    \* has the queue been closed
    call,      \* call[t]: the kind of call thread t is in, or "none"
    res        \* res[t]: the answer of t's last call

vars == <<q, closed, call, res>>

Kinds == {"push", "pop", "query", "close"}

Answer(s, v) == [status |-> s, elem |-> v]

NoAnswer == Answer("none", NoValue)

Statuses == {"none", "success", "empty", "full", "closed", "busy",
             "exception", "true", "false"}

TypeOK ==
    /\ q \in Seq(Values)
    /\ Len(q) <= Capacity
    /\ closed \in BOOLEAN
    /\ call \in [Threads -> Kinds \cup {"none"}]
    /\ res \in [Threads -> [status : Statuses, elem : Values \cup {NoValue}]]

Init ==
    /\ q \in Seq(Values)
    /\ Len(q) <= Capacity
    /\ closed = FALSE
    /\ call = [t \in Threads |-> "none"]
    /\ res = [t \in Threads |-> NoAnswer]

Invoke(t) ==
    /\ call[t] = "none"
    /\ \E k \in Kinds : call' = [call EXCEPT ![t] = k]
    /\ res' = [res EXCEPT ![t] = NoAnswer]
    /\ UNCHANGED <<q, closed>>

Return(t, s, v) ==
    /\ call' = [call EXCEPT ![t] = "none"]
    /\ res' = [res EXCEPT ![t] = Answer(s, v)]

\* The call fails and owes the queue a close; s is what it will answer.
TurnIntoClose(t, s) ==
    /\ call' = [call EXCEPT ![t] = "close"]
    /\ res' = [res EXCEPT ![t] = Answer(s, NoValue)]

Push(t) ==
    /\ call[t] = "push"
    /\ ~closed
    /\ Len(q) < Capacity
    /\ \/ \E v \in Values : q' = Append(q, v) /\ Return(t, "success", NoValue)
       \/ UNCHANGED q /\ TurnIntoClose(t, "exception")
    /\ UNCHANGED closed

Pop(t) ==
    /\ call[t] = "pop"
    /\ q # <<>>
    /\ q' = Tail(q)
    /\ \/ Return(t, "success", Head(q))
       \/ TurnIntoClose(t, "exception")
    /\ UNCHANGED closed

\* A call that does nothing to the queue says why: a push is refused as
\* closed only after a close, a pop only once the queue is drained as well.
Refuse(t) ==
    /\ \/ call[t] = "push" /\ closed /\ Return(t, "closed", NoValue)
       \/ call[t] = "push" /\ ~closed /\ Len(q) = Capacity /\ Return(t, "full", NoValue)
       \/ call[t] = "pop" /\ q = <<>> /\ ~closed /\ Return(t, "empty", NoValue)
       \/ call[t] = "pop" /\ q = <<>> /\ closed
          /\ (Return(t, "closed", NoValue) \/ TurnIntoClose(t, "closed"))
       \/ call[t] \in {"push", "pop"} /\ Return(t, "busy", NoValue)
    /\ UNCHANGED <<q, closed>>

Query(t) ==
    /\ call[t] = "query"
    /\ \E b \in {closed, q = <<>>} :
           Return(t, IF b THEN "true" ELSE "false", NoValue)
    /\ UNCHANGED <<q, closed>>

\* A failed value_pop closes twice, so a close may leave another one owed.
Close(t) ==
    /\ call[t] = "close"
    /\ closed' = TRUE
    /\ \/ Return(t, IF res[t].status = "none" THEN "success" ELSE res[t].status, NoValue)
       \/ UNCHANGED <<call, res>>
    /\ UNCHANGED q

Next ==
    \E t \in Threads :
        Invoke(t) \/ Push(t) \/ Pop(t) \/ Refuse(t) \/ Query(t) \/ Close(t)

Spec == Init /\ [][Next]_vars
=============================================================================
