---------------------------- MODULE StreamMutex ----------------------------
(***************************************************************************)
(* stream_mutex and stream_guard (include/stream_mutex.h): whole           *)
(* statements, mcout << a << b, go to a stream undivided.  All the         *)
(* stream_mutexes of a stream share one recursive_mutex, found in a map    *)
(* under a lock of its own (get_stream_mutex_map, src/stream_mutex.cc).    *)
(*                                                                         *)
(* A thread has a stack of what it is inside of: the call of an operator   *)
(* that has locked the mutex and has still to insert its first argument,   *)
(* or the life of a stream_guard (the rest of the statement, or what       *)
(* hold(), or a lock_guard, began).  What is inserted may itself write to a        *)
(* stream, and may throw.                                                  *)
(***************************************************************************)
EXTENDS Naturals, Sequences, FiniteSets

CONSTANTS
    Threads, Streams,
    Guards,             \* the stream_mutexes
    stm_,               \* the stream of each
    MaxDepth, MaxItems, MaxTurns, \* bounds: of a stack, of what goes to a
                        \* stream, of the times a thread holds a stream
    Throws,             \* may an insertion throw
    NoThread

VARIABLES
    stream_map,         \* the number of each stream's recursive_mutex, or 0
    mtx_,               \* and of each stream_mutex's, or 0 before it is made
    owner, depth,       \* each recursive_mutex: who holds it, how many times
    stack,              \* of each thread: what it is inside of, innermost last
    turn,               \* how often a thread has begun to hold a stream
    out                 \* what each stream got: who wrote it, in which turn

vars == <<stream_map, mtx_, owner, depth, stack, turn, out>>

Mutexes == DOMAIN owner

Init ==
    /\ stream_map = [s \in Streams |-> 0] /\ mtx_ = [g \in Guards |-> 0]
    /\ owner = <<>> /\ depth = <<>>
    /\ stack = [t \in Threads |-> <<>>]
    /\ turn = [t \in Threads |-> [s \in Streams |-> 0]]
    /\ out = [s \in Streams |-> <<>>]

\* A slip: every stream_mutex makes a mutex of its own.
get_stream_mutex_map_New(s) == Len(owner) + 1

\* The stream's mutex, a new one the first time it is asked for.
get_stream_mutex_map(s) == IF stream_map[s] = 0 THEN Len(owner) + 1 ELSE stream_map[s]

\* stream_mutex(stm)
Construct(g) ==
    /\ mtx_[g] = 0
    /\ LET m == get_stream_mutex_map(stm_[g]) IN
       /\ mtx_' = [mtx_ EXCEPT ![g] = m]
       /\ stream_map' = [stream_map EXCEPT ![stm_[g]] = m]
       /\ IF m \in Mutexes THEN UNCHANGED <<owner, depth>>
          ELSE owner' = Append(owner, NoThread) /\ depth' = Append(depth, 0)
    /\ UNCHANGED <<stack, turn, out>>

Holds(t, s) == \E i \in DOMAIN stack[t] : stm_[stack[t][i].guard] = s

\* t locks the mutex of g: "first" in operator<< or operator>>, which has still
\* to insert its argument, "guard" in hold() and in lock and try_lock.
Lock(t, g, in) ==
    /\ mtx_[g] # 0 /\ Len(stack[t]) < MaxDepth
    /\ turn[t][stm_[g]] < MaxTurns \/ Holds(t, stm_[g])
    /\ owner[mtx_[g]] \in {NoThread, t}
    /\ owner' = [owner EXCEPT ![mtx_[g]] = t]
    /\ depth' = [depth EXCEPT ![mtx_[g]] = @ + 1]
    /\ stack' = [stack EXCEPT ![t] = Append(@, [guard |-> g, in |-> in])]
    /\ turn' = IF Holds(t, stm_[g]) THEN turn ELSE [turn EXCEPT ![t][stm_[g]] = @ + 1]
    /\ UNCHANGED <<stream_map, mtx_, out>>

Top(t) == stack[t][Len(stack[t])]

\* bypass() << arg; the operator returns a guard that unlocks.
Insert(t) ==
    /\ stack[t] # <<>>
    /\ LET s == stm_[Top(t).guard] IN
       /\ Len(out[s]) < MaxItems
       /\ out' = [out EXCEPT ![s] = Append(@, <<t, turn[t][s]>>)]
    /\ stack' = [stack EXCEPT ![t][Len(stack[t])].in = "guard"]
    /\ UNCHANGED <<stream_map, mtx_, owner, depth, turn>>

\* The guards in the frames F of t's stack unlock.
UnlockAll(t, F) ==
    LET times(m) == Cardinality({i \in F : mtx_[stack[t][i].guard] = m})
    IN  /\ depth' = [m \in Mutexes |-> depth[m] - times(m)]
        /\ owner' = [m \in Mutexes |-> IF depth'[m] = 0 THEN NoThread ELSE owner[m]]

\* ~stream_guard at the end of the statement, or unlock().
Unlock(t) ==
    /\ stack[t] # <<>> /\ Top(t).in = "guard"
    /\ UnlockAll(t, {Len(stack[t])})
    /\ stack' = [stack EXCEPT ![t] = SubSeq(@, 1, Len(@) - 1)]
    /\ UNCHANGED <<stream_map, mtx_, turn, out>>

\* An insertion throws.  The guards are destroyed, but an operator that has not
\* made one yet leaves its mutex locked.
Throw(t) ==
    /\ Throws /\ stack[t] # <<>>
    /\ UnlockAll(t, {i \in DOMAIN stack[t] : stack[t][i].in = "guard"})
    /\ stack' = [stack EXCEPT ![t] = <<>>]
    /\ UNCHANGED <<stream_map, mtx_, turn, out>>

Next ==
    \/ \E g \in Guards : Construct(g)
    \/ \E t \in Threads :
          \/ \E g \in Guards, in \in {"first", "guard"} : Lock(t, g, in)
          \/ Insert(t) \/ Unlock(t) \/ Throw(t)

Spec == Init /\ [][Next]_vars

-----------------------------------------------------------------------------

\* What a thread writes to a stream from the moment it holds it to the moment
\* it lets go is not divided by what others write, whichever stream_mutexes of
\* the stream they use and however statements nest or end.
StatementsWhole ==
    \A s \in Streams : \A i, k \in DOMAIN out[s] :
        out[s][i] = out[s][k] => \A j \in i .. k : out[s][j] = out[s][i]

\* A thread that is inside nothing holds no mutex.  It does after the first
\* insertion of a statement has thrown (stream_mutex.h:99): the others wait for
\* ever.
NothingLeftLocked ==
    \A m \in Mutexes : owner[m] # NoThread => stack[owner[m]] # <<>>
=============================================================================
