------------------------------ MODULE Counter ------------------------------
(***************************************************************************)
(* gcl::counter (include/counter.h): a simplex counter, a weak duplex with *)
(* weak brokers or a strong duplex with strong brokers.  Threads count on  *)
(* the counter itself, on a broker of their own or into a local buffer;    *)
(* readers query the counter with load and, unless it is weak, exchange.   *)
(* A query of a duplex polls (or drains) the registered brokers one by one *)
(* under serializer_, while they go on counting.                           *)
(*                                                                         *)
(* Subtraction is the addition of a negative amount.  A buffer is local to *)
(* its thread and is gone before the thread's broker is made or destroyed. *)
(***************************************************************************)
EXTENDS Integers, FiniteSets, FiniteSetsExt

CONSTANTS
    Counters,   \* threads that count, each with at most one broker at a time
    Readers,    \* threads that query
    Kinds,      \* which of "simplex", "weak" and "strong" to construct
    Integral,   \* the values of the counter's integer type
    Amounts,    \* by how much a thread counts
    Resets,     \* what exchange may leave behind
    MaxCounts,  \* bound: how often the threads count, taken together
    NoThread

AllKinds == {"simplex", "weak", "strong"}

\* What the constants have to satisfy.
ConstantsOK ==
    /\ IsFiniteSet(Counters) /\ IsFiniteSet(Readers)
    /\ Counters \cap Readers = {} /\ NoThread \notin Readers
    /\ Kinds \subseteq AllKinds
    /\ Integral \subseteq Int /\ 0 \in Integral
    /\ Amounts \subseteq Integral /\ Resets \subseteq Integral
    /\ MaxCounts \in Nat

VARIABLES
    kind,         \* which of the class templates this counter is
    value_,       \* the counter's own count
    serializer_,  \* the reader that holds the mutex, or NoThread
    children_,    \* the registered brokers, named by their threads
    broker_,      \* each broker's value_
    buffer_,      \* each thread's local buffer
    pc,
    reg,          \* a counting thread's register: the sum it stores, or the
                  \* count its broker's destructor hands over
    todo,         \* the brokers a query has yet to visit
    tmp,          \* the sum of the query so far
    op, to,       \* the query, and the argument of exchange
    res,          \* its answer
    made,         \* how often threads have counted
    total,        \* history: what was counted and put in, less what exchanges
                  \* have returned
    floor,        \* history: what was visible when a query took the mutex
    raced         \* history: was a broker drained during its destructor

client  == <<kind, made, total, raced>>
counter == <<value_, serializer_, children_, broker_, buffer_>>
query   == <<todo, tmp, op, to, res, floor>>
vars    == <<client, counter, query, pc, reg>>

Threads == Counters \cup Readers

SumOver(f, S) == MapThenSumSet(LAMBDA t : f[t], S)

\* What a query that ran in no time would see.
Visible == value_ + SumOver(broker_, children_)

Init ==
    /\ kind \in Kinds
    /\ value_ \in Resets
    /\ serializer_ = NoThread
    /\ children_ = {}
    /\ broker_ = [t \in Counters |-> 0]
    /\ buffer_ = [t \in Counters |-> 0]
    /\ pc = [t \in Threads |-> "none"]
    /\ reg = [t \in Counters |-> 0]
    /\ todo = [r \in Readers |-> {}]
    /\ tmp = [r \in Readers |-> 0]
    /\ op = [r \in Readers |-> "none"]
    /\ to = [r \in Readers |-> 0]
    /\ res = [r \in Readers |-> 0]
    /\ floor = [r \in Readers |-> 0]
    /\ made = 0
    /\ total = value_
    /\ raced = FALSE

Goto(t, p) == pc' = [pc EXCEPT ![t] = p]

-----------------------------------------------------------------------------
(* Counting.  pc is "none" for a thread without a broker, "idle" for one   *)
(* with a broker it is not operating on.                                   *)

\* Mutant: strong brokers are semi-atomic too.
SemiAtomic_Always == TRUE

\* A weak broker has one writer, its thread, and is loaded and then stored; a
\* strong broker is also written by exchange and uses fetch_add.
SemiAtomic == kind = "weak"

\* operator += on the counter, or on the thread's broker.
Add(t, by) ==
    \/ /\ value_' = value_ + by
       /\ UNCHANGED <<broker_, reg, pc>>
    \/ /\ pc[t] = "idle" /\ ~SemiAtomic
       /\ broker_' = [broker_ EXCEPT ![t] = @ + by]
       /\ UNCHANGED <<value_, reg, pc>>
    \/ /\ pc[t] = "idle" /\ SemiAtomic
       /\ reg' = [reg EXCEPT ![t] = broker_[t] + by]
       /\ Goto(t, "store")
       /\ UNCHANGED <<value_, broker_>>

Store(t) ==
    /\ pc[t] = "store"
    /\ broker_' = [broker_ EXCEPT ![t] = reg[t]]
    /\ reg' = [reg EXCEPT ![t] = 0]
    /\ Goto(t, "idle")
    /\ UNCHANGED <<client, query, value_, serializer_, children_, buffer_>>

Bump(t) ==
    /\ pc[t] \in {"none", "idle"}
    /\ made < MaxCounts
    /\ \E by \in Amounts :
        /\ \/ Add(t, by) /\ UNCHANGED buffer_
           \/ buffer_' = [buffer_ EXCEPT ![t] = @ + by] /\ UNCHANGED <<value_, broker_, reg, pc>>
        /\ total' = total + by
    /\ made' = made + 1
    /\ UNCHANGED <<kind, raced, query, serializer_, children_>>

\* Mutant: the buffer keeps what it has pushed.
push_NoReset(t) ==
    /\ pc[t] \in {"none", "idle"}
    /\ buffer_[t] # 0
    /\ Add(t, buffer_[t])
    /\ UNCHANGED <<client, query, serializer_, children_, buffer_>>

\* buffer::push, explicit or from ~buffer.
push(t) ==
    /\ pc[t] \in {"none", "idle"}
    /\ buffer_[t] # 0
    /\ Add(t, buffer_[t])
    /\ buffer_' = [buffer_ EXCEPT ![t] = 0]
    /\ UNCHANGED <<client, query, serializer_, children_>>

-----------------------------------------------------------------------------
(* Brokers come and go.                                                    *)

insert(t) ==
    /\ pc[t] = "none" /\ kind # "simplex" /\ buffer_[t] = 0
    /\ serializer_ = NoThread
    /\ children_' = children_ \cup {t}
    /\ Goto(t, "idle")
    /\ UNCHANGED <<client, query, value_, serializer_, broker_, buffer_, reg>>

\* ~weak_broker, ~strong_broker: the broker's count is read ...
DestroyBroker(t) ==
    /\ pc[t] = "idle" /\ buffer_[t] = 0
    /\ reg' = [reg EXCEPT ![t] = broker_[t]]
    /\ Goto(t, IF kind = "strong" THEN "add" ELSE "erase")
    /\ UNCHANGED <<client, query, counter>>

\* ... and strong_duplex::erase adds it to the counter before it locks,
EraseAdd(t) ==
    /\ pc[t] = "add"
    /\ value_' = value_ + reg[t]
    /\ Goto(t, "erase")
    /\ UNCHANGED <<client, query, serializer_, children_, broker_, buffer_, reg>>

\* Mutant: the broker is taken off the list without the mutex.
erase_NoLock(t) ==
    /\ pc[t] = "erase"
    /\ value_' = IF kind = "weak" THEN value_ + reg[t] ELSE value_
    /\ children_' = children_ \ {t}
    /\ broker_' = [broker_ EXCEPT ![t] = 0]
    /\ reg' = [reg EXCEPT ![t] = 0]
    /\ Goto(t, "none")
    /\ UNCHANGED <<client, query, serializer_, buffer_>>

\* ... weak_duplex::erase only with the mutex, under which both take the
\* broker off the list; then it is gone.
erase(t) ==
    /\ pc[t] = "erase"
    /\ serializer_ = NoThread
    /\ value_' = IF kind = "weak" THEN value_ + reg[t] ELSE value_
    /\ children_' = children_ \ {t}
    /\ broker_' = [broker_ EXCEPT ![t] = 0]
    /\ reg' = [reg EXCEPT ![t] = 0]
    /\ Goto(t, "none")
    /\ UNCHANGED <<client, query, serializer_, buffer_>>

-----------------------------------------------------------------------------
(* Queries.                                                                *)

Answer(r, v) ==
    /\ res' = [res EXCEPT ![r] = v]
    /\ op' = [op EXCEPT ![r] = "none"]
    /\ to' = [to EXCEPT ![r] = 0]
    /\ tmp' = [tmp EXCEPT ![r] = 0]
    /\ floor' = [floor EXCEPT ![r] = 0]
    /\ Goto(r, "none")
    /\ UNCHANGED todo

\* base_type::load() or exchange(x) ends the query o, with s already summed.
Base(r, o, x, s) ==
    /\ Answer(r, s + value_)
    /\ IF o = "exchange"
       THEN value_' = x /\ total' = total + x - (s + value_)
       ELSE UNCHANGED <<value_, total>>

\* load and exchange of a simplex are the base's.
SimplexQuery(r) ==
    /\ pc[r] = "none" /\ kind = "simplex"
    /\ \E x \in Resets, o \in {"load", "exchange"} : Base(r, o, x, 0)
    /\ UNCHANGED <<kind, made, raced, serializer_, children_, broker_, buffer_, reg>>

Query(r) ==
    /\ pc[r] = "none" /\ kind # "simplex"
    /\ serializer_ = NoThread
    /\ serializer_' = r
    /\ \/ op' = [op EXCEPT ![r] = "load"] /\ UNCHANGED to
       \/ /\ kind = "strong" /\ op' = [op EXCEPT ![r] = "exchange"]
          /\ \E x \in Resets : to' = [to EXCEPT ![r] = x]
    /\ todo' = [todo EXCEPT ![r] = children_]
    /\ floor' = [floor EXCEPT ![r] = Visible]
    /\ Goto(r, "rollcall")
    /\ UNCHANGED <<client, value_, children_, broker_, buffer_, reg, tmp, res>>

\* poll() or, in exchange, drain() the next broker.
poll(r) ==
    /\ pc[r] = "rollcall"
    /\ \E c \in todo[r] :
        /\ tmp' = [tmp EXCEPT ![r] = @ + broker_[c]]
        /\ todo' = [todo EXCEPT ![r] = @ \ {c}]
        /\ IF op[r] = "exchange"
           THEN /\ broker_' = [broker_ EXCEPT ![c] = 0]
                /\ raced' = (raced \/ (pc[c] \in {"add", "erase"} /\ broker_[c] # 0))
           ELSE UNCHANGED <<broker_, raced>>
    /\ UNCHANGED <<kind, made, total, value_, serializer_, children_, buffer_>>
    /\ UNCHANGED <<op, to, res, floor, pc, reg>>

\* Mutant: the weak counter's own count is read after the mutex is released.
Unlock_Early(r) ==
    /\ pc[r] = "rollcall" /\ todo[r] = {}
    /\ serializer_' = NoThread
    /\ Goto(r, "base")
    /\ UNCHANGED <<query, value_, total>>
    /\ UNCHANGED <<kind, made, raced, children_, broker_, buffer_, reg>>

\* weak_duplex reads its own count under the mutex, strong_duplex after it.
Unlock(r) ==
    /\ pc[r] = "rollcall" /\ todo[r] = {}
    /\ serializer_' = NoThread
    /\ IF kind = "weak"
       THEN Base(r, "load", 0, tmp[r])
       ELSE Goto(r, "base") /\ UNCHANGED <<query, value_, total>>
    /\ UNCHANGED <<kind, made, raced, children_, broker_, buffer_, reg>>

StrongBase(r) ==
    /\ pc[r] = "base"
    /\ Base(r, op[r], to[r], tmp[r])
    /\ UNCHANGED <<kind, made, raced, serializer_, children_, broker_, buffer_, reg>>

Next ==
    \/ \E t \in Counters : Bump(t) \/ Store(t) \/ push(t) \/ insert(t)
                               \/ DestroyBroker(t) \/ EraseAdd(t) \/ erase(t)
    \/ \E r \in Readers : SimplexQuery(r) \/ Query(r) \/ poll(r) \/ Unlock(r) \/ StrongBase(r)

Spec == Init /\ [][Next]_vars

-----------------------------------------------------------------------------
(* Properties.                                                             *)

\* In particular a counter whose type has room for what is counted does not
\* overflow (counter.h: "counters must be sized to their use").
TypeOK ==
    /\ kind \in Kinds
    /\ value_ \in Integral
    /\ serializer_ \in Readers \cup {NoThread}
    /\ children_ \in SUBSET Counters
    /\ broker_ \in [Counters -> Integral]
    /\ buffer_ \in [Counters -> Integral]
    /\ pc \in [Threads -> {"none", "idle", "store", "add", "erase", "rollcall", "base"}]
    /\ reg \in [Counters -> Integral]
    /\ todo \in [Readers -> SUBSET Counters]
    /\ tmp \in [Readers -> Integral]
    /\ op \in [Readers -> {"none", "load", "exchange"}]
    /\ to \in [Readers -> Resets \cup {0}]
    /\ res \in [Readers -> Integral]
    /\ floor \in [Readers -> Integral]
    /\ made \in 0 .. MaxCounts
    /\ total \in Int
    /\ raced \in BOOLEAN

\* What a thread's broker still has to give: the sum on its way to the store,
\* nothing once a strong broker's destructor has added it to the counter.
Share(t) ==
    IF pc[t] = "store" THEN reg[t]
    ELSE IF pc[t] = "erase" /\ kind = "strong" THEN 0 ELSE broker_[t]

Shares == [t \in Counters |-> Share(t)]

\* Every count is in exactly one place - the counter, a broker, a buffer or
\* the sum of an exchange under way - or was returned by one exchange
\* (counter.h: "no counts will be lost", "extracted by one and only one
\* exchange operation"), unless a strong broker was drained while its
\* destructor ran.
Conservation ==
    ~raced => total = value_ + SumOver(Shares, Counters) + SumOver(buffer_, Counters)
                      + SumOver(tmp, {r \in Readers : op[r] = "exchange"})

\* load of a weak duplex answers a count the counter really had between the
\* moment it took the mutex and its return, however brokers count and die
\* meanwhile; so the answers of successive loads never go down while threads
\* only count up.
LoadInBounds ==
    [][\A r \in Readers : (kind = "weak" /\ op[r] = "load" /\ op'[r] = "none")
          => floor[r] <= res'[r] /\ res'[r] <= Visible']_vars

\* No query touches a broker that is gone, and every broker that is alive is
\* registered, as the assertions in insert and erase demand.
NoDanglingBroker ==
    /\ \A r \in Readers : \A c \in todo[r] : pc[c] # "none"
    /\ children_ = {t \in Counters : pc[t] # "none"}

\* The same without the exception: exchanges never return more than was
\* counted or put in (for amounts that are not negative).
ExtractedOnce == total >= 0
=============================================================================
