-------------------------- MODULE SimpleThreadPool --------------------------
(***************************************************************************)
(* gcl::simple_thread_pool (src/simple_thread_pool.cc): mutable_threads    *)
(* that clients get, have execute functions, and donate back or have       *)
(* released to them.  Every member function holds new_thread_mu_ and is    *)
(* one step, except the destructor, which only sets shutting_down_ under   *)
(* it and then walks both sets without it.                                 *)
(***************************************************************************)
EXTENDS Naturals, FiniteSets

CONSTANTS
    Users,                   \* the threads that use the pool
    Objects,                 \* names for mutable_threads
    min_threads_, max_threads_,
    LateCalls                \* may donate_thread or release_thread be called
                             \* while the pool is being destroyed

\* There are names for the threads that the constructor makes.
ConstantsOK ==
    /\ min_threads_ \in Nat /\ max_threads_ \in Nat /\ LateCalls \in BOOLEAN
    /\ \E S \in SUBSET Objects : Cardinality(S) = min_threads_

VARIABLES
    shutting_down_, active_threads_, unused_threads_,
    made,        \* the mutable_threads there have been
    held,        \* the threads each user has got or made and not given away
    own,         \* those that belong to users: released, or made by them
    busy,        \* the threads that run a function
    deletes,     \* how often each was deleted by the pool
    walk,        \* the destructor: "alive", in "active" or "unused", "destroyed"
    at           \* the threads that its loop has been to

members == <<shutting_down_, active_threads_, unused_threads_>>
vars    == <<members, made, held, own, busy, deletes, walk, at>>

Tracked == active_threads_ \cup unused_threads_

Init ==
    /\ shutting_down_ = FALSE
    /\ made = CHOOSE S \in SUBSET Objects : Cardinality(S) = min_threads_
    /\ active_threads_ = {} /\ unused_threads_ = made
    /\ held = [u \in Users |-> {}] /\ own = {}
    /\ busy = {} /\ deletes = [t \in Objects |-> 0]
    /\ walk = "alive" /\ at = {}

\* A call that changes the sets: the pool is there, and unless LateCalls it is
\* not being destroyed.
Callable == walk = "alive" \/ (LateCalls /\ walk # "destroyed")

Keeps(u, t) == held' = [held EXCEPT ![u] = @ \cup {t}]
Gives(u, t) == held' = [held EXCEPT ![u] = @ \ {t}]

\* A call that returns NULL changes nothing and is left out.
try_get_unused_thread(u) ==
    /\ ~shutting_down_
    /\ IF unused_threads_ = {}
       THEN /\ Cardinality(active_threads_) < max_threads_
            /\ \E t \in Objects \ made :
                 /\ active_threads_' = active_threads_ \cup {t}
                 /\ made' = made \cup {t} /\ Keeps(u, t)
            /\ UNCHANGED unused_threads_
       ELSE \E t \in unused_threads_ :
                 /\ active_threads_' = active_threads_ \cup {t}
                 /\ unused_threads_' = unused_threads_ \ {t}
                 /\ Keeps(u, t) /\ UNCHANGED made
    /\ UNCHANGED <<shutting_down_, own, busy, deletes, walk, at>>

\* Mutant: a donated thread stays in active_threads_.
donate_thread_StaysActive(u, t) ==
    /\ Callable /\ t \in held[u]
    /\ unused_threads_' = unused_threads_ \cup {t}
    /\ Gives(u, t) /\ own' = own \ {t}
    /\ UNCHANGED <<shutting_down_, active_threads_, made, busy, deletes, walk, at>>

\* By a user, or by a function running on t.  A thread that is not the
\* pool's is taken over; there is no test for a full pool.
donate_thread(u, t) ==
    /\ Callable /\ t \in held[u]
    /\ active_threads_' = active_threads_ \ {t}
    /\ unused_threads_' = unused_threads_ \cup {t}
    /\ Gives(u, t) /\ own' = own \ {t}
    /\ UNCHANGED <<shutting_down_, made, busy, deletes, walk, at>>

release_thread(u, t) ==
    /\ Callable /\ t \in held[u] /\ t \in active_threads_
    /\ active_threads_' = active_threads_ \ {t}
    /\ own' = own \cup {t}
    /\ UNCHANGED <<shutting_down_, unused_threads_, made, held, busy, deletes, walk, at>>

\* A user makes a mutable_thread of its own.
MakeThread(u) ==
    /\ walk = "alive"
    /\ \E t \in Objects \ made :
         made' = made \cup {t} /\ own' = own \cup {t} /\ Keeps(u, t)
    /\ UNCHANGED <<members, busy, deletes, walk, at>>

\* A user has its thread execute a function, and the function returns.
Execute(u, t) ==
    /\ t \in held[u] /\ t \notin busy /\ walk = "alive"
    /\ busy' = busy \cup {t}
    /\ UNCHANGED <<members, made, held, own, deletes, walk, at>>

FunctionReturns(t) ==
    /\ t \in busy
    /\ busy' = busy \ {t}
    /\ UNCHANGED <<members, made, held, own, deletes, walk, at>>

-----------------------------------------------------------------------------

Shutdown ==
    /\ walk = "alive"
    /\ shutting_down_' = TRUE
    /\ walk' = "active"
    /\ UNCHANGED <<active_threads_, unused_threads_, made, held, own, busy, deletes, at>>

Walked == IF walk = "active" THEN active_threads_ ELSE unused_threads_

\* t->join() waits for the running function, then t is deleted.  Nothing is
\* erased from the sets.
JoinAndDelete(t) ==
    /\ walk \in {"active", "unused"} /\ t \in Walked \ at
    /\ t \notin busy
    /\ deletes' = [deletes EXCEPT ![t] = @ + 1]
    /\ at' = at \cup {t}
    /\ UNCHANGED <<members, made, held, own, busy, walk>>

LoopEnds ==
    /\ walk \in {"active", "unused"} /\ Walked \subseteq at
    /\ walk' = IF walk = "active" THEN "unused" ELSE "destroyed"
    /\ at' = {}
    /\ UNCHANGED <<members, made, held, own, busy, deletes>>

Next ==
    \/ \E u \in Users : try_get_unused_thread(u) \/ MakeThread(u)
    \/ \E u \in Users, t \in Objects :
          donate_thread(u, t) \/ release_thread(u, t) \/ Execute(u, t)
    \/ \E t \in Objects : FunctionReturns(t) \/ JoinAndDelete(t)
    \/ Shutdown \/ LoopEnds

Spec == Init /\ [][Next]_vars

-----------------------------------------------------------------------------

\* Who owns a thread: it is a user's, or it is in one of the two sets and not
\* in both, however often it went back and forth; at most one user has it, and
\* nobody has one that the pool would give to the next who asks.  The
\* destructor deletes the pool's once each, when their functions have returned
\* ("Deleting the thread pool should wait for all threads",
\* simple_thread_pool.h:53), and never a user's.
OneOwner ==
    /\ active_threads_ \cap unused_threads_ = {}
    /\ own \cap Tracked = {} /\ own \cup Tracked = made
    /\ \A u \in Users : held[u] \cap unused_threads_ = {}
    /\ \A u, v \in Users : u # v => held[u] \cap held[v] = {}
    /\ \A t \in made :
         deletes[t] > 0 => deletes[t] = 1 /\ t \notin busy \cup own
    /\ walk = "destroyed" => \A t \in Tracked : deletes[t] = 1
=============================================================================
