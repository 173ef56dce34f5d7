---------------------------- MODULE LockedProofs ----------------------------
(***************************************************************************)
(* Proofs about the components of MCLocked, each for every value of its    *)
(* own constants.                                                          *)
(***************************************************************************)
EXTENDS MCLocked, FiniteSetTheorems, SequenceTheorems, WellFoundedInduction, TLAPS

-----------------------------------------------------------------------------
(* mutable_thread, for every set of clients and of tasks, whoever joins and *)
(* whatever wakes up spuriously.                                            *)

ClientPlaces == {"out", "test", "is_done", "is_joining", "lock", "which", "run_fn_",
                 "queued_fn_", "JOINING", "t_->join"}
WorkerPlaces == {"thread_wait", "ready_to_continue", "blocked", "run_fn_()", "running", "swap",
                 "clear queued_fn_", "clear run_fn_", "DONE", "end"}

\* Where a client can be in which call, and that it carries a function from the
\* start of execute or try_execute to its end.
CallInv ==
    /\ pc[Worker] \in WorkerPlaces
    /\ \A c \in Clients :
         /\ pc[c] \in ClientPlaces
         /\ op[c] = "none" <=> pc[c] = "out"
         /\ op[c] = "join" => pc[c] \in {"lock", "JOINING", "t_->join"}
         /\ pc[c] \in {"JOINING", "t_->join"} => op[c] = "join"
         /\ fn[c] # NoTask <=> op[c] \in {"execute", "try_execute"}

\* Who has the mutex.
Critical(c) ==
    \/ pc[c] \in {"which", "run_fn_", "queued_fn_", "JOINING"}
    \/ op[c] = "try_execute" /\ pc[c] \in {"is_done", "is_joining"}

MutexInv ==
    /\ pc[Worker] = "ready_to_continue" <=> thread_state_mu_ = Worker
    /\ \A c \in Clients : Critical(c) <=> thread_state_mu_ = c

\* No function is in two places.
Apart ==
    /\ run_fn_ # NoTask => run_fn_ \in handed /\ run_fn_ # queued_fn_
    /\ queued_fn_ # NoTask => queued_fn_ \in handed
    /\ \A c \in Clients :
         fn[c] # NoTask =>
            /\ fn[c] \in handed /\ fn[c] \notin {run_fn_, queued_fn_}
            /\ \A d \in Clients \ {c} : fn[d] # fn[c]

\* What the worker has in its slots, and which functions have been started.
SlotInv ==
    /\ pc[Worker] \in {"run_fn_()", "running", "swap", "clear queued_fn_", "clear run_fn_"} =>
          run_fn_ # NoTask
    /\ \A c \in Clients : pc[c] = "run_fn_" => run_fn_ = NoTask
    /\ pc[Worker] = "swap" => queued_fn_ # NoTask
    /\ run_fn_ # NoTask =>
          started[run_fn_] = IF pc[Worker] \in {"running", "swap", "clear run_fn_"} THEN 1 ELSE 0
    /\ queued_fn_ # NoTask /\ pc[Worker] # "clear queued_fn_" => started[queued_fn_] = 0
    /\ \A t \in Tasks : t \notin handed => started[t] = 0
    /\ \A c \in Clients : fn[c] # NoTask => started[fn[c]] = 0

\* The same as TypeOK, with the places left unnamed.
Places == {"out", "test", "is_done", "is_joining", "lock", "which", "run_fn_", "queued_fn_",
           "JOINING", "t_->join", "thread_wait", "ready_to_continue", "blocked", "run_fn_()",
           "running", "swap", "clear queued_fn_", "clear run_fn_", "DONE", "end"}

Typed ==
    /\ run_fn_ \in Tasks \cup {NoTask} /\ queued_fn_ \in Tasks \cup {NoTask}
    /\ thread_state_mu_ \in Threads \cup {NoThread}
    /\ pc \in [Threads -> Places]
    /\ op \in [Clients -> {"none", "execute", "try_execute", "join"}]
    /\ fn \in [Clients -> Tasks \cup {NoTask}]
    /\ handed \in SUBSET Tasks
    /\ started \in [Tasks -> 0 .. 1]

IInv == TypeOK /\ CallInv /\ MutexInv /\ Apart /\ SlotInv /\ NoLostWakeup

\* Either constructor; the one that takes a function has it in run_fn_.
LEMMA InitInv == Init => IInv
  <1> SUFFICES ASSUME Init PROVE IInv
    OBVIOUS
  <1> USE ThreadsAssumption, TasksAssumption DEF Init, Threads
  <1>1. TypeOK
    BY DEF TypeOK
  <1>2. CallInv /\ MutexInv
    BY DEF CallInv, MutexInv, Critical, WorkerPlaces, ClientPlaces
  <1>3. Apart /\ SlotInv /\ NoLostWakeup
    BY DEF Apart, SlotInv, NoLostWakeup
  <1> QED
    BY <1>1, <1>2, <1>3 DEF IInv

LEMMA StartedOnce ==
    ASSUME NEW f \in Tasks, started \in [Tasks -> 0 .. 1], started[f] = 0
    PROVE  [started EXCEPT ![f] = @ + 1] \in [Tasks -> 0 .. 1]
  <1>1. started[f] + 1 \in 0 .. 1
    OBVIOUS
  <1> QED
    BY <1>1

LEMMA ThreadFacts ==
    /\ Worker \in Threads /\ Clients \subseteq Threads /\ Worker \notin Clients
    /\ \A t \in Threads : t = Worker \/ t \in Clients
    /\ NoThread \notin Threads
  BY ThreadsAssumption DEF Threads

LEMMA TypeFacts == IInv => Typed
  BY DEF IInv, TypeOK, Typed, Places

\* A function is started at most once.
LEMMA NextType ==
    IInv /\ [Next]_vars => TypeOK'
  <1> SUFFICES ASSUME IInv, [Next]_vars PROVE TypeOK'
    OBVIOUS
  <1> USE ThreadFacts, TasksAssumption DEF IInv, slots, client, Goto, TypeOK, CallInv, SlotInv
  <1>1. CASE UNCHANGED vars
    BY <1>1 DEF vars
  <1>2. ASSUME NEW t \in Threads, Acquire(t) PROVE TypeOK'
    BY <1>2 DEF Acquire
  <1>3. ASSUME NEW c \in Clients, Call(c) PROVE TypeOK'
    <2>1. ASSUME NEW f \in Tasks \ handed, NEW o \in {"execute", "try_execute"},
                 op' = [op EXCEPT ![c] = o], fn' = [fn EXCEPT ![c] = f],
                 handed' = handed \cup {f}, Goto(c, "test")
          PROVE  TypeOK'
      BY <1>3, <2>1 DEF Call
    <2>2. CASE op' = [op EXCEPT ![c] = "join"] /\ Goto(c, "lock") /\ UNCHANGED <<fn, handed>>
      BY <1>3, <2>2 DEF Call
    <2> QED
      BY <1>3, <2>1, <2>2 DEF Call
  <1>4. ASSUME NEW c \in Clients, Test(c) PROVE TypeOK'
    BY <1>4 DEF Test, Return
  <1>5. ASSUME NEW c \in Clients, AskDone(c) PROVE TypeOK'
    <2>1. CASE is_done
      BY <1>5, <2>1 DEF AskDone, Return
    <2>2. CASE ~is_done
      BY <1>5, <2>2 DEF AskDone, Return
    <2> QED
      BY <1>5, <2>1, <2>2 DEF AskDone, Return
  <1>6. ASSUME NEW c \in Clients, AskJoining(c) PROVE TypeOK'
    <2>1. CASE is_joining
      BY <1>6, <2>1 DEF AskJoining, Return
    <2>2. CASE ~is_joining
      BY <1>6, <2>2 DEF AskJoining, Return
    <2> QED
      BY <1>6, <2>1, <2>2 DEF AskJoining, Return
  <1>7. ASSUME NEW c \in Clients, Which(c) PROVE TypeOK'
    BY <1>7 DEF Which
  <1>8. ASSUME NEW c \in Clients, Fill(c) PROVE TypeOK'
    BY <1>8 DEF Fill, NotifyAndGoto
  <1>9. ASSUME NEW c \in Clients, join(c) PROVE TypeOK'
    BY <1>9 DEF join, NotifyAndGoto
  <1>10. ASSUME NEW c \in Clients, Joined(c) PROVE TypeOK'
    BY <1>10 DEF Joined, Return
  <1>11. CASE thread_wait
    <2>1. CASE (is_joining \/ is_done)
      BY <1>11, <2>1 DEF thread_wait
    <2>2. CASE ~(is_joining \/ is_done) /\ run_fn_ # NoTask
      BY <1>11, <2>2 DEF thread_wait
    <2>3. CASE ~(is_joining \/ is_done) /\ run_fn_ = NoTask
      BY <1>11, <2>3 DEF thread_wait
    <2> QED
      BY <1>11, <2>1, <2>2, <2>3 DEF thread_wait
  <1>12. CASE SpuriousWakeup
    BY <1>12 DEF SpuriousWakeup
  <1>13. CASE Run
    <2>1. run_fn_ \in Tasks /\ started[run_fn_] = 0
      BY <1>13 DEF Run
    <2>2. started' \in [Tasks -> 0 .. 1]
      BY <1>13, <2>1, StartedOnce DEF Run
    <2> QED
      BY <1>13, <2>2 DEF Run
  <1>14. CASE FinishRun
    BY <1>14 DEF FinishRun
  <1>15. CASE SwapQueued
    BY <1>15 DEF SwapQueued
  <1>16. CASE Clear
    BY <1>16 DEF Clear
  <1>17. CASE Done
    BY <1>17 DEF Done
  <1>18. CASE Destroy
    BY <1>18 DEF Destroy
  <1> QED
    BY <1>1, <1>2, <1>3, <1>4, <1>5, <1>6, <1>7, <1>8,
       <1>9, <1>10, <1>11, <1>12, <1>13, <1>14, <1>15, <1>16, <1>17, <1>18
    DEF Next, ClientStep, WorkerStep

\* The calls go their way.
LEMMA NextCall ==
    IInv /\ [Next]_vars => CallInv'
  <1> SUFFICES ASSUME IInv, [Next]_vars PROVE CallInv'
    OBVIOUS
  <1> USE ThreadFacts, TasksAssumption DEF IInv, slots, client, Goto, CallInv, WorkerPlaces,
          ClientPlaces
  <1> Typed
    BY TypeFacts
  <1> USE DEF Typed
  <1>1. CASE UNCHANGED vars
    BY <1>1 DEF vars
  <1>2. ASSUME NEW t \in Threads, Acquire(t) PROVE CallInv'
    BY <1>2 DEF Acquire
  <1>3. ASSUME NEW c \in Clients, Call(c) PROVE CallInv'
    <2>1. ASSUME NEW f \in Tasks \ handed, NEW o \in {"execute", "try_execute"},
                 op' = [op EXCEPT ![c] = o], fn' = [fn EXCEPT ![c] = f],
                 handed' = handed \cup {f}, Goto(c, "test")
          PROVE  CallInv'
      BY <1>3, <2>1 DEF Call
    <2>2. CASE op' = [op EXCEPT ![c] = "join"] /\ Goto(c, "lock") /\ UNCHANGED <<fn, handed>>
      BY <1>3, <2>2 DEF Call
    <2> QED
      BY <1>3, <2>1, <2>2 DEF Call
  <1>4. ASSUME NEW c \in Clients, Test(c) PROVE CallInv'
    <2>1. CASE op[c] = "try_execute" /\ Full
      BY <1>4, <2>1 DEF Test, Return
    <2>2. CASE ~(op[c] = "try_execute" /\ Full)
      BY <1>4, <2>2 DEF Test, Return
    <2> QED
      BY <1>4, <2>1, <2>2 DEF Test, Return
  <1>5. ASSUME NEW c \in Clients, AskDone(c) PROVE CallInv'
    <2>1. CASE is_done
      BY <1>5, <2>1 DEF AskDone, Return
    <2>2. CASE ~is_done
      BY <1>5, <2>2 DEF AskDone, Return
    <2> QED
      BY <1>5, <2>1, <2>2 DEF AskDone, Return
  <1>6. ASSUME NEW c \in Clients, AskJoining(c) PROVE CallInv'
    <2>1. CASE is_joining
      BY <1>6, <2>1 DEF AskJoining, Return
    <2>2. CASE ~is_joining
      BY <1>6, <2>2 DEF AskJoining, Return
    <2> QED
      BY <1>6, <2>1, <2>2 DEF AskJoining, Return
  <1>7. ASSUME NEW c \in Clients, Which(c) PROVE CallInv'
    BY <1>7 DEF Which
  <1>8. ASSUME NEW c \in Clients, Fill(c) PROVE CallInv'
    BY <1>8 DEF Fill, NotifyAndGoto
  <1>9. ASSUME NEW c \in Clients, join(c) PROVE CallInv'
    BY <1>9 DEF join, NotifyAndGoto
  <1>10. ASSUME NEW c \in Clients, Joined(c) PROVE CallInv'
    BY <1>10 DEF Joined, Return
  <1>11. CASE thread_wait
    BY <1>11 DEF thread_wait
  <1>12. CASE SpuriousWakeup
    BY <1>12 DEF SpuriousWakeup
  <1>13. CASE Run
    BY <1>13 DEF Run
  <1>14. CASE FinishRun
    BY <1>14 DEF FinishRun
  <1>15. CASE SwapQueued
    BY <1>15 DEF SwapQueued
  <1>16. CASE Clear
    BY <1>16 DEF Clear
  <1>17. CASE Done
    BY <1>17 DEF Done
  <1>18. CASE Destroy
    BY <1>18 DEF Destroy
  <1> QED
    BY <1>1, <1>2, <1>3, <1>4, <1>5, <1>6, <1>7, <1>8,
       <1>9, <1>10, <1>11, <1>12, <1>13, <1>14, <1>15, <1>16, <1>17, <1>18
    DEF Next, ClientStep, WorkerStep

\* The mutex is taken when it is free and given back by who has it.
LEMMA NextMutex ==
    IInv /\ [Next]_vars => MutexInv'
  <1> SUFFICES ASSUME IInv, [Next]_vars PROVE MutexInv'
    OBVIOUS
  <1> USE ThreadFacts, TasksAssumption DEF IInv, slots, client, Goto, CallInv, MutexInv,
          Critical
  <1> Typed
    BY TypeFacts
  <1> USE DEF Typed
  <1>1. CASE UNCHANGED vars
    BY <1>1 DEF vars
  <1>2. ASSUME NEW t \in Threads, Acquire(t) PROVE MutexInv'
    <2>1. CASE t = Worker
      <3>1. pc[Worker] # "lock"
        BY DEF CallInv, WorkerPlaces
      <3> QED
        BY <1>2, <2>1, <3>1 DEF Acquire
    <2>2. CASE t \in Clients
      BY <1>2, <2>2 DEF Acquire
    <2> QED
      BY <1>2, <2>1, <2>2 DEF Acquire
  <1>3. ASSUME NEW c \in Clients, Call(c) PROVE MutexInv'
    <2>1. ASSUME NEW f \in Tasks \ handed, NEW o \in {"execute", "try_execute"},
                 op' = [op EXCEPT ![c] = o], fn' = [fn EXCEPT ![c] = f],
                 handed' = handed \cup {f}, Goto(c, "test")
          PROVE  MutexInv'
      BY <1>3, <2>1 DEF Call
    <2>2. CASE op' = [op EXCEPT ![c] = "join"] /\ Goto(c, "lock") /\ UNCHANGED <<fn, handed>>
      BY <1>3, <2>2 DEF Call
    <2> QED
      BY <1>3, <2>1, <2>2 DEF Call
  <1>4. ASSUME NEW c \in Clients, Test(c) PROVE MutexInv'
    <2>1. CASE op[c] = "try_execute" /\ Full
      BY <1>4, <2>1 DEF Test, Return
    <2>2. CASE ~(op[c] = "try_execute" /\ Full)
      BY <1>4, <2>2 DEF Test, Return
    <2> QED
      BY <1>4, <2>1, <2>2 DEF Test, Return
  <1>5. ASSUME NEW c \in Clients, AskDone(c) PROVE MutexInv'
    <2>1. CASE is_done
      BY <1>5, <2>1 DEF AskDone, Return
    <2>2. CASE ~is_done
      BY <1>5, <2>2 DEF AskDone, Return
    <2> QED
      BY <1>5, <2>1, <2>2 DEF AskDone, Return
  <1>6. ASSUME NEW c \in Clients, AskJoining(c) PROVE MutexInv'
    <2>1. CASE is_joining
      BY <1>6, <2>1 DEF AskJoining, Return
    <2>2. CASE ~is_joining
      BY <1>6, <2>2 DEF AskJoining, Return
    <2> QED
      BY <1>6, <2>1, <2>2 DEF AskJoining, Return
  <1>7. ASSUME NEW c \in Clients, Which(c) PROVE MutexInv'
    BY <1>7 DEF Which
  <1>8. ASSUME NEW c \in Clients, Fill(c) PROVE MutexInv'
    <2>1. CASE pc[c] = "run_fn_"
      BY <1>8, <2>1 DEF Fill, NotifyAndGoto
    <2>2. CASE pc[c] = "queued_fn_"
      BY <1>8, <2>2 DEF Fill, NotifyAndGoto
    <2> QED
      BY <1>8, <2>1, <2>2 DEF Fill, NotifyAndGoto
  <1>9. ASSUME NEW c \in Clients, join(c) PROVE MutexInv'
    BY <1>9 DEF join, NotifyAndGoto
  <1>10. ASSUME NEW c \in Clients, Joined(c) PROVE MutexInv'
    BY <1>10 DEF Joined, Return
  <1>11. CASE thread_wait
    BY <1>11 DEF thread_wait
  <1>12. CASE SpuriousWakeup
    BY <1>12 DEF SpuriousWakeup
  <1>13. CASE Run
    BY <1>13 DEF Run
  <1>14. CASE FinishRun
    BY <1>14 DEF FinishRun
  <1>15. CASE SwapQueued
    BY <1>15 DEF SwapQueued
  <1>16. CASE Clear
    BY <1>16 DEF Clear
  <1>17. CASE Done
    BY <1>17 DEF Done
  <1>18. CASE Destroy
    BY <1>18 DEF Destroy
  <1> QED
    BY <1>1, <1>2, <1>3, <1>4, <1>5, <1>6, <1>7, <1>8,
       <1>9, <1>10, <1>11, <1>12, <1>13, <1>14, <1>15, <1>16, <1>17, <1>18
    DEF Next, ClientStep, WorkerStep

\* A function moves on, or is dropped, and is never copied: the worker's swap
\* exchanges the slots.
LEMMA NextApart ==
    IInv /\ [Next]_vars => Apart'
  <1> SUFFICES ASSUME IInv, [Next]_vars PROVE Apart'
    OBVIOUS
  <1> USE ThreadFacts, TasksAssumption DEF IInv, slots, client, Goto, CallInv, Apart
  <1> Typed
    BY TypeFacts
  <1> USE DEF Typed
  <1>1. CASE UNCHANGED vars
    BY <1>1 DEF vars
  <1>2. ASSUME NEW t \in Threads, Acquire(t) PROVE Apart'
    BY <1>2 DEF Acquire
  <1>3. ASSUME NEW c \in Clients, Call(c) PROVE Apart'
    <2>1. ASSUME NEW f \in Tasks \ handed, NEW o \in {"execute", "try_execute"},
                 op' = [op EXCEPT ![c] = o], fn' = [fn EXCEPT ![c] = f],
                 handed' = handed \cup {f}, Goto(c, "test")
          PROVE  Apart'
      BY <1>3, <2>1 DEF Call
    <2>2. CASE op' = [op EXCEPT ![c] = "join"] /\ Goto(c, "lock") /\ UNCHANGED <<fn, handed>>
      BY <1>3, <2>2 DEF Call
    <2> QED
      BY <1>3, <2>1, <2>2 DEF Call
  <1>4. ASSUME NEW c \in Clients, Test(c) PROVE Apart'
    <2>1. CASE op[c] = "try_execute" /\ Full
      BY <1>4, <2>1 DEF Test, Return
    <2>2. CASE ~(op[c] = "try_execute" /\ Full)
      BY <1>4, <2>2 DEF Test, Return
    <2> QED
      BY <1>4, <2>1, <2>2 DEF Test, Return
  <1>5. ASSUME NEW c \in Clients, AskDone(c) PROVE Apart'
    <2>1. CASE is_done
      BY <1>5, <2>1 DEF AskDone, Return
    <2>2. CASE ~is_done
      BY <1>5, <2>2 DEF AskDone, Return
    <2> QED
      BY <1>5, <2>1, <2>2 DEF AskDone, Return
  <1>6. ASSUME NEW c \in Clients, AskJoining(c) PROVE Apart'
    <2>1. CASE is_joining
      BY <1>6, <2>1 DEF AskJoining, Return
    <2>2. CASE ~is_joining
      BY <1>6, <2>2 DEF AskJoining, Return
    <2> QED
      BY <1>6, <2>1, <2>2 DEF AskJoining, Return
  <1>7. ASSUME NEW c \in Clients, Which(c) PROVE Apart'
    BY <1>7 DEF Which
  <1>8. ASSUME NEW c \in Clients, Fill(c) PROVE Apart'
    BY <1>8 DEF Fill, NotifyAndGoto
  <1>9. ASSUME NEW c \in Clients, join(c) PROVE Apart'
    BY <1>9 DEF join, NotifyAndGoto
  <1>10. ASSUME NEW c \in Clients, Joined(c) PROVE Apart'
    BY <1>10 DEF Joined, Return
  <1>11. CASE thread_wait
    BY <1>11 DEF thread_wait
  <1>12. CASE SpuriousWakeup
    BY <1>12 DEF SpuriousWakeup
  <1>13. CASE Run
    BY <1>13 DEF Run
  <1>14. CASE FinishRun
    BY <1>14 DEF FinishRun
  <1>15. CASE SwapQueued
    BY <1>15 DEF SwapQueued
  <1>16. CASE Clear
    BY <1>16 DEF Clear
  <1>17. CASE Done
    BY <1>17 DEF Done
  <1>18. CASE Destroy
    BY <1>18 DEF Destroy
  <1> QED
    BY <1>1, <1>2, <1>3, <1>4, <1>5, <1>6, <1>7, <1>8,
       <1>9, <1>10, <1>11, <1>12, <1>13, <1>14, <1>15, <1>16, <1>17, <1>18
    DEF Next, ClientStep, WorkerStep

\* A client that is about to fill run_fn_ holds the mutex, so the worker cannot
\* have come back for the slot that the client saw empty.
LEMMA NextSlot ==
    IInv /\ [Next]_vars => SlotInv'
  <1> SUFFICES ASSUME IInv, [Next]_vars PROVE SlotInv'
    OBVIOUS
  <1> USE ThreadFacts, TasksAssumption DEF IInv, slots, client, Goto, CallInv, MutexInv,
          Critical, Apart, SlotInv
  <1> Typed
    BY TypeFacts
  <1> USE DEF Typed
  <1>1. CASE UNCHANGED vars
    BY <1>1 DEF vars
  <1>2. ASSUME NEW t \in Threads, Acquire(t) PROVE SlotInv'
    BY <1>2 DEF Acquire
  <1>3. ASSUME NEW c \in Clients, Call(c) PROVE SlotInv'
    <2>1. ASSUME NEW f \in Tasks \ handed, NEW o \in {"execute", "try_execute"},
                 op' = [op EXCEPT ![c] = o], fn' = [fn EXCEPT ![c] = f],
                 handed' = handed \cup {f}, Goto(c, "test")
          PROVE  SlotInv'
      BY <1>3, <2>1 DEF Call
    <2>2. CASE op' = [op EXCEPT ![c] = "join"] /\ Goto(c, "lock") /\ UNCHANGED <<fn, handed>>
      BY <1>3, <2>2 DEF Call
    <2> QED
      BY <1>3, <2>1, <2>2 DEF Call
  <1>4. ASSUME NEW c \in Clients, Test(c) PROVE SlotInv'
    <2>1. CASE op[c] = "try_execute" /\ Full
      BY <1>4, <2>1 DEF Test, Return
    <2>2. CASE ~(op[c] = "try_execute" /\ Full)
      BY <1>4, <2>2 DEF Test, Return
    <2> QED
      BY <1>4, <2>1, <2>2 DEF Test, Return
  <1>5. ASSUME NEW c \in Clients, AskDone(c) PROVE SlotInv'
    <2>1. CASE is_done
      BY <1>5, <2>1 DEF AskDone, Return
    <2>2. CASE ~is_done
      BY <1>5, <2>2 DEF AskDone, Return
    <2> QED
      BY <1>5, <2>1, <2>2 DEF AskDone, Return
  <1>6. ASSUME NEW c \in Clients, AskJoining(c) PROVE SlotInv'
    <2>1. CASE is_joining
      BY <1>6, <2>1 DEF AskJoining, Return
    <2>2. CASE ~is_joining
      BY <1>6, <2>2 DEF AskJoining, Return
    <2> QED
      BY <1>6, <2>1, <2>2 DEF AskJoining, Return
  <1>7. ASSUME NEW c \in Clients, Which(c) PROVE SlotInv'
    BY <1>7 DEF Which
  <1>8. ASSUME NEW c \in Clients, Fill(c) PROVE SlotInv'
    BY <1>8 DEF Fill, NotifyAndGoto
  <1>9. ASSUME NEW c \in Clients, join(c) PROVE SlotInv'
    BY <1>9 DEF join, NotifyAndGoto
  <1>10. ASSUME NEW c \in Clients, Joined(c) PROVE SlotInv'
    BY <1>10 DEF Joined, Return
  <1>11. CASE thread_wait
    <2>1. /\ \A c \in Clients : pc'[c] = pc[c]
          /\ pc[Worker] = "ready_to_continue"
          /\ pc'[Worker] \in {"DONE", "blocked"} \/ (pc'[Worker] = "run_fn_()" /\ run_fn_ # NoTask)
      BY <1>11 DEF thread_wait
    <2> QED
      BY <1>11, <2>1 DEF thread_wait
  <1>12. CASE SpuriousWakeup
    BY <1>12 DEF SpuriousWakeup
  <1>13. CASE Run
    BY <1>13 DEF Run
  <1>14. CASE FinishRun
    BY <1>14 DEF FinishRun
  <1>15. CASE SwapQueued
    BY <1>15 DEF SwapQueued
  <1>16. CASE Clear
    BY <1>16 DEF Clear
  <1>17. CASE Done
    BY <1>17 DEF Done
  <1>18. CASE Destroy
    BY <1>18 DEF Destroy
  <1> QED
    BY <1>1, <1>2, <1>3, <1>4, <1>5, <1>6, <1>7, <1>8,
       <1>9, <1>10, <1>11, <1>12, <1>13, <1>14, <1>15, <1>16, <1>17, <1>18
    DEF Next, ClientStep, WorkerStep

\* The worker blocks on what it has just tested, and whoever changes that
\* notifies it.
LEMMA NextWakeup ==
    IInv /\ [Next]_vars => NoLostWakeup'
  <1> SUFFICES ASSUME IInv, [Next]_vars PROVE NoLostWakeup'
    OBVIOUS
  <1> USE ThreadFacts, TasksAssumption DEF IInv, slots, client, Goto, NoLostWakeup, CallInv,
          is_joining, is_done, TypeOK
  <1>1. CASE UNCHANGED vars
    BY <1>1 DEF vars
  <1>2. ASSUME NEW t \in Threads, Acquire(t) PROVE NoLostWakeup'
    BY <1>2 DEF Acquire
  <1>3. ASSUME NEW c \in Clients, Call(c) PROVE NoLostWakeup'
    <2>1. ASSUME NEW f \in Tasks \ handed, NEW o \in {"execute", "try_execute"},
                 op' = [op EXCEPT ![c] = o], fn' = [fn EXCEPT ![c] = f],
                 handed' = handed \cup {f}, Goto(c, "test")
          PROVE  NoLostWakeup'
      BY <1>3, <2>1 DEF Call
    <2>2. CASE op' = [op EXCEPT ![c] = "join"] /\ Goto(c, "lock") /\ UNCHANGED <<fn, handed>>
      BY <1>3, <2>2 DEF Call
    <2> QED
      BY <1>3, <2>1, <2>2 DEF Call
  <1>4. ASSUME NEW c \in Clients, Test(c) PROVE NoLostWakeup'
    <2>1. CASE op[c] = "try_execute" /\ Full
      BY <1>4, <2>1 DEF Test, Return
    <2>2. CASE ~(op[c] = "try_execute" /\ Full)
      BY <1>4, <2>2 DEF Test, Return
    <2> QED
      BY <1>4, <2>1, <2>2 DEF Test, Return
  <1>5. ASSUME NEW c \in Clients, AskDone(c) PROVE NoLostWakeup'
    <2>1. CASE is_done
      BY <1>5, <2>1 DEF AskDone, Return
    <2>2. CASE ~is_done
      BY <1>5, <2>2 DEF AskDone, Return
    <2> QED
      BY <1>5, <2>1, <2>2 DEF AskDone, Return
  <1>6. ASSUME NEW c \in Clients, AskJoining(c) PROVE NoLostWakeup'
    <2>1. CASE is_joining
      BY <1>6, <2>1 DEF AskJoining, Return
    <2>2. CASE ~is_joining
      BY <1>6, <2>2 DEF AskJoining, Return
    <2> QED
      BY <1>6, <2>1, <2>2 DEF AskJoining, Return
  <1>7. ASSUME NEW c \in Clients, Which(c) PROVE NoLostWakeup'
    BY <1>7 DEF Which
  <1>8. ASSUME NEW c \in Clients, Fill(c) PROVE NoLostWakeup'
    BY <1>8 DEF Fill, NotifyAndGoto
  <1>9. ASSUME NEW c \in Clients, join(c) PROVE NoLostWakeup'
    BY <1>9 DEF join, NotifyAndGoto
  <1>10. ASSUME NEW c \in Clients, Joined(c) PROVE NoLostWakeup'
    BY <1>10 DEF Joined, Return
  <1>11. CASE thread_wait
    BY <1>11 DEF thread_wait
  <1>12. CASE SpuriousWakeup
    BY <1>12 DEF SpuriousWakeup
  <1>13. CASE Run
    BY <1>13 DEF Run
  <1>14. CASE FinishRun
    BY <1>14 DEF FinishRun
  <1>15. CASE SwapQueued
    BY <1>15 DEF SwapQueued
  <1>16. CASE Clear
    BY <1>16 DEF Clear
  <1>17. CASE Done
    BY <1>17 DEF Done
  <1>18. CASE Destroy
    BY <1>18 DEF Destroy
  <1> QED
    BY <1>1, <1>2, <1>3, <1>4, <1>5, <1>6, <1>7, <1>8,
       <1>9, <1>10, <1>11, <1>12, <1>13, <1>14, <1>15, <1>16, <1>17, <1>18
    DEF Next, ClientStep, WorkerStep

LEMMA NextInv == IInv /\ [Next]_vars => IInv'
  BY NextType, NextCall, NextMutex, NextApart, NextSlot, NextWakeup DEF IInv

\* The function the worker calls stays in run_fn_ while it runs, though clients
\* and worker touch the slots without a common lock (mutable_thread.cc:
\* execute, try_execute, finish_run).
THEOREM RunningUndisturbedCorrect == Spec => []RunningUndisturbed
  <1>1. IInv => RunningUndisturbed
    BY DEF IInv, SlotInv, RunningUndisturbed
  <1> QED
    BY InitInv, NextInv, <1>1, PTL DEF Spec

\* The worker never sleeps on a function in run_fn_, nor once join has begun
\* (mutable_thread.cc: thread_wait).
THEOREM NoLostWakeupCorrect == Spec => []NoLostWakeup
  BY InitInv, NextInv, PTL DEF Spec, IInv

-----------------------------------------------------------------------------
(* simple_thread_pool, for every set of users and of threads and every     *)
(* choice of min_threads_ and max_threads_, when the destructor is called  *)
(* once nobody donates or releases threads any more.                       *)

\* The sets are sets of threads that exist, a user's threads among them.
PoolTypeInv ==
    /\ made \in SUBSET Objects /\ busy \in SUBSET Objects /\ at \in SUBSET Objects
    /\ active_threads_ \in SUBSET made /\ unused_threads_ \in SUBSET made
    /\ own \in SUBSET made
    /\ held \in [Users -> SUBSET made]
    /\ deletes \in [Objects -> Nat]
    /\ walk \in {"alive", "active", "unused", "destroyed"}
    /\ shutting_down_ <=> walk # "alive"

\* Where the destructor has been: its two loops have deleted exactly the
\* threads they have visited, none of which runs a function.
PoolVisited ==
    {t \in TP!Tracked : \/ walk \in {"active", "unused"} /\ t \in at
                        \/ walk = "unused" /\ t \in active_threads_
                        \/ walk = "destroyed"}

PoolWalkInv ==
    /\ walk = "alive" => at = {}
    /\ walk = "active" => at \subseteq active_threads_
    /\ walk = "unused" => at \subseteq unused_threads_
    /\ \A t \in Objects : deletes[t] = IF t \in PoolVisited THEN 1 ELSE 0
    /\ PoolVisited \cap busy = {}

\* A thread is a user's or in one set, and lent to at most one user.
PoolOwnership ==
    /\ active_threads_ \cap unused_threads_ = {}
    /\ own \cap TP!Tracked = {} /\ own \cup TP!Tracked = made
    /\ \A u \in Users : held[u] \cap unused_threads_ = {}
    /\ \A u, v \in Users : u # v => held[u] \cap held[v] = {}

PoolIInv == PoolTypeInv /\ PoolOwnership /\ PoolWalkInv

-----------------------------------------------------------------------------

\* A pool is constructed with unused threads only.
LEMMA PoolInitInv == TP!ConstantsOK /\ TP!Init => PoolIInv
  <1> SUFFICES ASSUME TP!ConstantsOK, TP!Init PROVE PoolIInv
    OBVIOUS
  <1>1. made \in SUBSET Objects
    BY DEF TP!ConstantsOK, TP!Init
  <1> QED
    BY <1>1 DEF TP!Init, PoolIInv, PoolTypeInv, PoolOwnership, PoolWalkInv, PoolVisited,
       TP!Tracked

\* Every member function, every user and every turn of the destructor's loops
\* keeps the ownership, as long as nothing is donated or released once the
\* destructor runs.
LEMMA PoolNextInv == ~LateCalls /\ PoolIInv /\ [TP!Next]_(TP!vars) => PoolIInv'
  <1> SUFFICES ASSUME ~LateCalls, PoolIInv, [TP!Next]_(TP!vars) PROVE PoolIInv'
    OBVIOUS
  <1> USE DEF PoolIInv, PoolTypeInv, PoolOwnership
  <1>1. CASE UNCHANGED TP!vars
    BY <1>1 DEF TP!vars, TP!members, PoolWalkInv, PoolVisited, TP!Tracked
  <1>2. ASSUME NEW u \in Users, TP!try_get_unused_thread(u) PROVE PoolIInv'
    <2>1. walk = "alive" /\ walk' = "alive"
      BY <1>2 DEF TP!try_get_unused_thread
    <2>2. PoolWalkInv'
      BY <1>2, <2>1 DEF TP!try_get_unused_thread, PoolWalkInv, PoolVisited
    <2>3. CASE unused_threads_ = {}
      BY <1>2, <2>1, <2>2, <2>3 DEF TP!try_get_unused_thread, TP!Keeps, TP!Tracked
    <2>4. CASE unused_threads_ # {}
      BY <1>2, <2>1, <2>2, <2>4 DEF TP!try_get_unused_thread, TP!Keeps, TP!Tracked
    <2> QED
      BY <2>3, <2>4
  <1>3. ASSUME NEW u \in Users, TP!MakeThread(u) PROVE PoolIInv'
    <2>1. PoolWalkInv'
      BY <1>3 DEF TP!MakeThread, TP!members, PoolWalkInv, PoolVisited
    <2> QED
      BY <1>3, <2>1 DEF TP!MakeThread, TP!members, TP!Keeps, TP!Tracked
  <1>4. ASSUME NEW u \in Users, NEW t \in Objects, TP!donate_thread(u, t) PROVE PoolIInv'
    <2>1. walk = "alive" /\ walk' = "alive"
      BY <1>4 DEF TP!donate_thread, TP!Callable
    <2>2. PoolWalkInv'
      BY <1>4, <2>1 DEF TP!donate_thread, PoolWalkInv, PoolVisited
    <2> QED
      BY <1>4, <2>1, <2>2 DEF TP!donate_thread, TP!Gives, TP!Tracked
  <1>5. ASSUME NEW u \in Users, NEW t \in Objects, TP!release_thread(u, t) PROVE PoolIInv'
    <2>1. walk = "alive" /\ walk' = "alive"
      BY <1>5 DEF TP!release_thread, TP!Callable
    <2>2. PoolWalkInv'
      BY <1>5, <2>1 DEF TP!release_thread, PoolWalkInv, PoolVisited
    <2> QED
      BY <1>5, <2>1, <2>2 DEF TP!release_thread, TP!Tracked
  <1>6. ASSUME NEW u \in Users, NEW t \in Objects, TP!Execute(u, t) PROVE PoolIInv'
    BY <1>6 DEF TP!Execute, TP!members, PoolWalkInv, PoolVisited, TP!Tracked
  <1>7. ASSUME NEW t \in Objects, TP!FunctionReturns(t) PROVE PoolIInv'
    BY <1>7 DEF TP!FunctionReturns, TP!members, PoolWalkInv, PoolVisited, TP!Tracked
  <1>8. ASSUME NEW t \in Objects, TP!JoinAndDelete(t) PROVE PoolIInv'
    <2>1. t \notin PoolVisited /\ PoolVisited' = PoolVisited \cup {t}
      BY <1>8 DEF TP!JoinAndDelete, TP!members, TP!Walked, PoolWalkInv, PoolVisited, TP!Tracked
    <2>2. PoolWalkInv'
      BY <1>8, <2>1 DEF TP!JoinAndDelete, TP!members, TP!Walked, PoolWalkInv
    <2> QED
      BY <1>8, <2>2 DEF TP!JoinAndDelete, TP!members, TP!Tracked
  <1>9. CASE TP!Shutdown
    BY <1>9 DEF TP!Shutdown, PoolWalkInv, PoolVisited, TP!Tracked
  <1>10. CASE TP!LoopEnds
    <2>1. PoolVisited' = PoolVisited
      BY <1>10 DEF TP!LoopEnds, TP!members, TP!Walked, PoolWalkInv, PoolVisited, TP!Tracked
    <2> QED
      BY <1>10, <2>1 DEF TP!LoopEnds, TP!members, PoolWalkInv, TP!Tracked
  <1> QED
    BY <1>1, <1>2, <1>3, <1>4, <1>5, <1>6, <1>7, <1>8, <1>9, <1>10 DEF TP!Next

\* simple_thread_pool gives a thread to one user at a time, and its destructor
\* deletes each thread of the pool once, idle, and no thread of a user.
THEOREM OneOwnerCorrect ==
    ASSUME ~LateCalls
    PROVE  TP!Spec => []OneOwner
  <1>1. TP!Init => PoolIInv
    BY PoolInitInv, PoolAssumption
  <1>2. PoolIInv /\ [TP!Next]_(TP!vars) => PoolIInv'
    BY PoolNextInv
  <1>3. PoolIInv => OneOwner
    BY DEF PoolIInv, PoolTypeInv, PoolOwnership, PoolWalkInv, PoolVisited, TP!Tracked,
       OneOwner, TP!OneOwner
  <1> QED
    BY <1>1, <1>2, <1>3, PTL DEF TP!Spec

-----------------------------------------------------------------------------
(* serial_executor, for every set of functions.                            *)

\* Until the destructor has taken the lock, what was handed over is what has
\* been begun and then what is queued.
SerialInv ==
    /\ submitted \in Seq(Jobs) /\ begun \in Seq(Jobs) /\ function_queue \in Seq(Jobs)
    /\ shutting_down \in BOOLEAN
    /\ ~shutting_down => submitted = begun \o function_queue

\* Moving the head of one sequence to the end of the other.
LEMMA MoveHead ==
    ASSUME NEW b \in Seq(Jobs), NEW q \in Seq(Jobs), q # <<>>
    PROVE  /\ Append(b, Head(q)) \in Seq(Jobs) /\ Tail(q) \in Seq(Jobs)
           /\ Append(b, Head(q)) \o Tail(q) = b \o q
  OBVIOUS

LEMMA AppendLast ==
    ASSUME NEW b \in Seq(Jobs), NEW q \in Seq(Jobs), NEW j \in Jobs
    PROVE  /\ Append(q, j) \in Seq(Jobs) /\ Append(b \o q, j) \in Seq(Jobs)
           /\ Append(b \o q, j) = b \o Append(q, j)
  OBVIOUS

LEMMA SerialNextInv == SerialInv /\ [SE!Next]_(SE!vars) => SerialInv'
  <1> SUFFICES ASSUME SerialInv, [SE!Next]_(SE!vars) PROVE SerialInv'
    OBVIOUS
  <1> USE DEF SerialInv
  <1>1. CASE UNCHANGED SE!vars
    BY <1>1 DEF SE!vars
  <1>2. ASSUME NEW j \in Jobs, SE!execute(j) PROVE SerialInv'
    <2>1. /\ function_queue' = Append(function_queue, j) /\ begun' = begun
          /\ submitted' = Append(submitted, j) /\ shutting_down' = shutting_down
      BY <1>2 DEF SE!execute
    <2>2. submitted' \in Seq(Jobs) /\ function_queue' \in Seq(Jobs)
      BY <2>1
    <2>3. ~shutting_down => submitted' = begun \o function_queue'
      <3>1. Append(begun \o function_queue, j) = begun \o Append(function_queue, j)
        BY AppendLast
      <3> QED
        BY <2>1, <3>1, Zenon
    <2> QED
      BY <2>1, <2>2, <2>3
  <1>3. CASE SE!Test
    BY <1>3 DEF SE!Test
  <1>4. CASE SE!Block
    BY <1>4 DEF SE!Block
  <1>5. CASE SE!Fetch
    <2>1. CASE shutting_down
      BY <1>5, <2>1 DEF SE!Fetch
    <2>2. CASE ~shutting_down
      <3>1. /\ function_queue # <<>> /\ begun' = Append(begun, Head(function_queue))
            /\ function_queue' = Tail(function_queue) /\ submitted' = submitted
            /\ shutting_down' = shutting_down
        BY <1>5, <2>2 DEF SE!Fetch, SE!queue_ready
      <3> QED
        BY <2>2, <3>1, MoveHead
    <2> QED
      BY <2>1, <2>2
  <1>6. CASE SE!Return
    BY <1>6 DEF SE!Return
  <1>7. CASE SE!SpuriousWakeup
    BY <1>7 DEF SE!SpuriousWakeup
  <1>8. CASE SE!Destroy
    BY <1>8 DEF SE!Destroy
  <1>9. CASE SE!Joined
    BY <1>9 DEF SE!Joined
  <1> QED
    BY <1>1, <1>2, <1>3, <1>4, <1>5, <1>6, <1>7, <1>8, <1>9 DEF SE!Next, SE!RunnerStep

\* serial_executor begins functions in the order they were handed over, skips
\* none, and begins none once its destructor has taken the lock
\* (serial_executor.cc: run, execute, ~serial_executor).
THEOREM BegunInTimeCorrect == SE!Spec => BegunInTime
  <1>1. SE!Init => SerialInv
    <2>1. <<>> \in Seq(Jobs) /\ <<>> = <<>> \o <<>>
      OBVIOUS
    <2> QED
      BY <2>1 DEF SE!Init, SerialInv
  <1>2. SerialInv /\ [SE!Next]_(SE!vars) =>
           [/\ shutting_down => begun' = begun
            /\ ~shutting_down => submitted = begun \o function_queue]_(SE!vars)
    <2> SUFFICES ASSUME SerialInv, SE!Next, shutting_down PROVE begun' = begun
      BY DEF SerialInv
    <2>1. CASE SE!Fetch
      BY <2>1 DEF SE!Fetch
    <2> QED
      BY <2>1 DEF SE!Next, SE!RunnerStep, SE!execute, SE!Test, SE!Block, SE!Return,
                  SE!SpuriousWakeup, SE!Destroy, SE!Joined
  <1> QED
    BY <1>1, <1>2, SerialNextInv, PTL DEF SE!Spec, BegunInTime, SE!BegunInTime

-----------------------------------------------------------------------------
(* stream_mutex, for every set of threads, streams and stream_mutexes,     *)
(* however statements nest and whatever throws.                            *)

Frame == [guard : Guards, in : {"first", "guard"}]

StreamTypes ==
    /\ stream_map \in [Streams -> Nat] /\ mtx_ \in [Guards -> Nat]
    /\ owner \in Seq(Clients \cup {NoThread}) /\ depth \in Seq(Nat)
    /\ Len(depth) = Len(owner)
    /\ stack \in [Clients -> Seq(Frame)]
    /\ turn \in [Clients -> [Streams -> Nat]]
    /\ out \in [Streams -> Seq(Clients \X Nat)]

\* A stream has one mutex, of its own, and every stream_mutex of it uses that.
MapInv ==
    /\ \A s \in Streams : stream_map[s] <= Len(owner)
    /\ \A r, s \in Streams : r # s /\ stream_map[r] # 0 => stream_map[r] # stream_map[s]
    /\ \A g \in Guards : mtx_[g] # 0 => mtx_[g] = stream_map[stm_[g]]

\* What t is inside of that has locked the mutex m.
Frames(t, m) == {i \in DOMAIN stack[t] : mtx_[stack[t][i].guard] = m}

\* Who is inside of something holds the mutex, at least as deep as that goes.
HoldInv ==
    /\ \A t \in Clients : \A i \in DOMAIN stack[t] : mtx_[stack[t][i].guard] # 0
    /\ \A t \in Clients, m \in DOMAIN owner :
          /\ Cardinality(Frames(t, m)) <= depth[m]
          /\ Frames(t, m) # {} => owner[m] = t

\* No turn is ahead of its thread's count, and what the holder of a stream has
\* written in this turn is the end of what the stream got.
TurnInv ==
    \A s \in Streams :
       /\ \A i \in DOMAIN out[s] : out[s][i][2] <= turn[out[s][i][1]][s]
       /\ \A t \in Clients : SM!Holds(t, s) =>
             \A i \in DOMAIN out[s] : out[s][i] = <<t, turn[t][s]>> =>
                \A j \in i .. Len(out[s]) : out[s][j] = <<t, turn[t][s]>>

StreamInv == StreamTypes /\ MapInv /\ HoldInv /\ TurnInv /\ StatementsWhole

LEMMA FrameType ==
    ASSUME StreamTypes, NEW t \in Clients, NEW i \in DOMAIN stack[t]
    PROVE  stack[t][i] \in Frame /\ stack[t][i].guard \in Guards
  <1>1. stack[t] \in Seq(Frame)
    BY DEF StreamTypes
  <1>2. stack[t][i] \in Frame
    BY <1>1
  <1> QED
    BY <1>2 DEF Frame

\* The instance counts as the library does.
LEMMA SameCardinality == \A S : SM!Cardinality(S) = Cardinality(S)
  BY DEF SM!Cardinality, Cardinality

LEMMA FramesFinite ==
    ASSUME StreamTypes, NEW t \in Clients, NEW m
    PROVE  IsFiniteSet(Frames(t, m)) /\ Cardinality(Frames(t, m)) \in Nat
  <1>1. stack[t] \in Seq(Frame) /\ DOMAIN stack[t] = 1 .. Len(stack[t]) /\ Len(stack[t]) \in Int
    BY DEF StreamTypes
  <1>2. IsFiniteSet(1 .. Len(stack[t]))
    BY <1>1, FS_Interval
  <1>3. Frames(t, m) \subseteq 1 .. Len(stack[t])
    BY <1>1 DEF Frames
  <1> QED
    BY <1>2, <1>3, FS_Subset, FS_CardinalityType

\* Two threads are not inside of anything on one stream at once.
LEMMA OneHolder ==
    ASSUME StreamInv, NEW t \in Clients, NEW u \in Clients, NEW s \in Streams,
           SM!Holds(t, s), SM!Holds(u, s)
    PROVE  t = u
  <1>1. PICK i \in DOMAIN stack[t] : stm_[stack[t][i].guard] = s
    BY DEF SM!Holds
  <1>2. PICK j \in DOMAIN stack[u] : stm_[stack[u][j].guard] = s
    BY DEF SM!Holds
  <1>3. stack[t][i].guard \in Guards /\ stack[u][j].guard \in Guards
    BY FrameType DEF StreamInv
  <1>4. i \in Frames(t, stream_map[s]) /\ j \in Frames(u, stream_map[s])
    BY <1>1, <1>2, <1>3 DEF StreamInv, HoldInv, MapInv, Frames
  <1>5. stream_map[s] \in 1 .. Len(owner)
    BY <1>1, <1>3, StreamAssumption DEF StreamInv, StreamTypes, HoldInv, MapInv
  <1>6. stream_map[s] \in DOMAIN owner
    BY <1>5 DEF StreamInv, StreamTypes
  <1> QED
    BY <1>4, <1>6 DEF StreamInv, HoldInv

LEMMA FunctionIsSeq ==
    ASSUME NEW S, NEW k \in Nat, NEW f \in [1 .. k -> S]
    PROVE  f \in Seq(S) /\ Len(f) = k
  <1>1. f \in Seq(S)
    BY SeqDef
  <1>2. Len(f) \in Nat /\ 1 .. Len(f) = 1 .. k
    BY <1>1, LenProperties
  <1> QED
    BY <1>1, <1>2

\* Unlocking some frames of t as they go: nobody else's mutex is touched, and
\* t keeps the mutexes that it has frames left on.
LEMMA UnlockKeeps ==
    ASSUME StreamTypes, MapInv, HoldInv, NEW t \in Clients, NEW F \in SUBSET DOMAIN stack[t],
           SM!UnlockAll(t, F), UNCHANGED <<stream_map, mtx_>>,
           stack' \in [Clients -> Seq(Frame)],
           \A u \in Clients \ {t} : stack'[u] = stack[u],
           \A i \in DOMAIN stack'[t] : i \in DOMAIN stack[t] /\ stack'[t][i] = stack[t][i],
           DOMAIN stack'[t] \cap F = {}
    PROVE  /\ owner' \in Seq(Clients \cup {NoThread}) /\ depth' \in Seq(Nat)
           /\ Len(owner') = Len(owner) /\ Len(depth') = Len(owner)
           /\ HoldInv'
  <1>1. /\ Len(owner) \in Nat /\ DOMAIN owner = 1 .. Len(owner) /\ DOMAIN depth = 1 .. Len(owner)
        /\ \A m \in DOMAIN owner : depth[m] \in Nat /\ owner[m] \in Clients \cup {NoThread}
    BY DEF StreamTypes
  <1> DEFINE times(m) == Cardinality({i \in F : mtx_[stack[t][i].guard] = m})
  <1>2. /\ depth' = [m \in DOMAIN owner |-> depth[m] - times(m)]
        /\ owner' = [m \in DOMAIN owner |-> IF depth'[m] = 0 THEN NoThread ELSE owner[m]]
    <2>1. depth' = [m \in DOMAIN owner |-> depth[m] - times(m)]
      BY SameCardinality DEF SM!UnlockAll, SM!Mutexes
    <2>2. owner' = [m \in DOMAIN owner |-> IF depth'[m] = 0 THEN NoThread ELSE owner[m]]
      BY DEF SM!UnlockAll, SM!Mutexes
    <2> QED
      BY <2>1, <2>2
  <1>3. ASSUME NEW m \in DOMAIN owner
        PROVE  /\ times(m) \in Nat
               /\ Cardinality(Frames(t, m)) \in Nat
               /\ Cardinality(Frames(t, m)') \in Nat
               /\ Cardinality(Frames(t, m)') <= Cardinality(Frames(t, m)) - times(m)
    <2>1. {i \in F : mtx_[stack[t][i].guard] = m} = Frames(t, m) \cap F
      BY DEF Frames
    <2>2. Frames(t, m)' \subseteq Frames(t, m) \ F
      BY DEF Frames
    <2>3. /\ IsFiniteSet(Frames(t, m)) /\ Cardinality(Frames(t, m)) \in Nat
          /\ IsFiniteSet(Frames(t, m) \ F)
          /\ Cardinality(Frames(t, m) \ F) = Cardinality(Frames(t, m)) - Cardinality(Frames(t, m) \cap F)
      BY FramesFinite, FS_Difference
    <2>4. Cardinality(Frames(t, m)') <= Cardinality(Frames(t, m) \ F) /\ IsFiniteSet(Frames(t, m)')
      BY <2>2, <2>3, FS_Subset
    <2>5. Cardinality(Frames(t, m)') \in Nat /\ times(m) \in Nat
      BY <2>1, <2>3, <2>4, FS_CardinalityType, FS_Subset
    <2>6. times(m) = Cardinality(Frames(t, m) \cap F)
      BY <2>1
    <2> HIDE DEF times
    <2> QED
      BY <2>3, <2>4, <2>5, <2>6
  <1> HIDE DEF times
  <1>4. \A m \in DOMAIN owner : depth'[m] \in Nat
    BY <1>1, <1>2, <1>3 DEF HoldInv
  <1>5. /\ owner' \in Seq(Clients \cup {NoThread}) /\ depth' \in Seq(Nat)
        /\ Len(owner') = Len(owner) /\ Len(depth') = Len(owner)
    <2>1. /\ depth' \in [1 .. Len(owner) -> Nat]
          /\ owner' \in [1 .. Len(owner) -> Clients \cup {NoThread}]
      BY <1>1, <1>2, <1>4
    <2> QED
      BY <1>1, <2>1, FunctionIsSeq
  <1>6. ASSUME NEW u \in Clients, NEW m \in DOMAIN owner, Frames(u, m)' # {}
        PROVE  Cardinality(Frames(u, m)') <= depth'[m] /\ owner'[m] = u
    <2>1. CASE u = t
      <3>1. Frames(t, m)' \subseteq Frames(t, m)
        BY DEF Frames
      <3>2. Frames(t, m) # {} /\ owner[m] = t
        BY <1>6, <2>1, <3>1 DEF HoldInv
      <3>3. Cardinality(Frames(t, m)') # 0
        <4>1. IsFiniteSet(Frames(t, m)')
          BY <3>1, FramesFinite, FS_Subset
        <4> QED
          BY <1>6, <2>1, <4>1, FS_EmptySet
      <3> QED
        BY <1>1, <1>2, <1>3, <2>1, <3>2, <3>3 DEF HoldInv
    <2>2. CASE u # t
      <3>1. Frames(u, m)' = Frames(u, m)
        BY <2>2 DEF Frames
      <3>2. owner[m] = u /\ Cardinality(Frames(u, m)) <= depth[m]
        BY <1>6, <3>1 DEF HoldInv
      <3>3. {i \in F : mtx_[stack[t][i].guard] = m} = {}
        <4>1. Frames(t, m) = {}
          BY <2>2, <3>2 DEF HoldInv
        <4> QED
          BY <4>1 DEF Frames
      <3>4. times(m) = 0
        BY <3>3, FS_EmptySet DEF times
      <3>5. IsFiniteSet(Frames(u, m)) /\ Cardinality(Frames(u, m)) \in Nat
        BY FramesFinite
      <3>6. Cardinality(Frames(u, m)) # 0
        BY <1>6, <3>1, <3>5, FS_EmptySet
      <3> QED
        BY <1>1, <1>2, <3>1, <3>2, <3>4, <3>5, <3>6
    <2> QED
      BY <2>1, <2>2
  <1>7. \A u \in Clients, m \in DOMAIN owner' :
           /\ Cardinality(Frames(u, m)') <= depth'[m]
           /\ Frames(u, m)' # {} => owner'[m] = u
    <2> SUFFICES ASSUME NEW u \in Clients, NEW m \in DOMAIN owner
                 PROVE  /\ Cardinality(Frames(u, m)') <= depth'[m]
                        /\ Frames(u, m)' # {} => owner'[m] = u
      BY <1>2
    <2>1. CASE Frames(u, m)' = {}
      BY <1>4, <2>1, FS_EmptySet
    <2> QED
      BY <1>6, <2>1
  <1>8. \A u \in Clients : \A i \in DOMAIN stack'[u] : mtx_'[stack'[u][i].guard] # 0
    BY DEF HoldInv
  <1> QED
    BY <1>5, <1>7, <1>8 DEF HoldInv, Frames

\* TurnInv and StatementsWhole depend on what t is inside of only through Holds.
LEMMA OutputKept ==
    ASSUME TurnInv, StatementsWhole, UNCHANGED <<out, turn>>,
           \A t \in Clients, s \in Streams : SM!Holds(t, s)' => SM!Holds(t, s)
    PROVE  TurnInv' /\ StatementsWhole'
  BY DEF TurnInv, StatementsWhole, SM!StatementsWhole

\* A mutex is made for a stream that has none.
LEMMA ConstructKeeps ==
    ASSUME StreamInv, NEW g \in Guards, SM!Construct(g)
    PROVE  StreamInv'
  <1> DEFINE s == stm_[g]
             m == SM!get_stream_mutex_map(s)
  <1>1. /\ s \in Streams /\ stream_map[s] \in Nat /\ Len(owner) \in Nat
        /\ DOMAIN owner = 1 .. Len(owner) /\ DOMAIN depth = 1 .. Len(owner)
    BY StreamAssumption DEF StreamInv, StreamTypes
  <1>2. /\ mtx_[g] = 0 /\ mtx_' = [mtx_ EXCEPT ![g] = m]
        /\ stream_map' = [stream_map EXCEPT ![s] = m]
        /\ UNCHANGED <<stack, turn, out>>
    BY DEF SM!Construct
  <1>3. m = IF stream_map[s] = 0 THEN Len(owner) + 1 ELSE stream_map[s]
    BY DEF SM!get_stream_mutex_map
  <1>4. m \in DOMAIN owner <=> stream_map[s] # 0
    BY <1>1, <1>3 DEF StreamInv, MapInv
  <1>5. IF stream_map[s] # 0 THEN UNCHANGED <<owner, depth>>
        ELSE owner' = Append(owner, NoThread) /\ depth' = Append(depth, 0)
    BY <1>4 DEF SM!Construct, SM!Mutexes
  <1>6. /\ owner' \in Seq(Clients \cup {NoThread}) /\ depth' \in Seq(Nat)
        /\ Len(depth') = Len(owner') /\ Len(owner') >= Len(owner)
        /\ m \in 1 .. Len(owner')
        /\ \A k \in DOMAIN owner : owner'[k] = owner[k] /\ depth'[k] = depth[k]
        /\ \A k \in DOMAIN owner' \ DOMAIN owner : k = m /\ stream_map[s] = 0 /\ depth'[k] = 0
    <2>1. CASE stream_map[s] # 0
      BY <1>1, <1>3, <1>4, <1>5, <2>1 DEF StreamInv, StreamTypes
    <2>2. CASE stream_map[s] = 0
      <3>1. /\ owner \in Seq(Clients \cup {NoThread}) /\ depth \in Seq(Nat)
            /\ Len(depth) = Len(owner)
        BY DEF StreamInv, StreamTypes
      <3>2. /\ owner' \in Seq(Clients \cup {NoThread}) /\ Len(owner') = Len(owner) + 1
            /\ \A k \in 1 .. Len(owner) : owner'[k] = owner[k]
        <4>1. owner' = Append(owner, NoThread)
          BY <1>5, <2>2
        <4> QED
          BY <3>1, <4>1, AppendProperties
      <3>3. /\ depth' \in Seq(Nat) /\ Len(depth') = Len(owner) + 1
            /\ \A k \in 1 .. Len(owner) : depth'[k] = depth[k]
            /\ depth'[Len(owner) + 1] = 0
        <4>1. depth' = Append(depth, 0)
          BY <1>5, <2>2
        <4> QED
          BY <3>1, <4>1, AppendProperties
      <3>4. DOMAIN owner' = 1 .. Len(owner) + 1 /\ m = Len(owner) + 1
        BY <1>1, <1>3, <2>2, <3>2
      <3> HIDE DEF m
      <3> QED
        BY <1>1, <2>2, <3>2, <3>3, <3>4
    <2> QED
      BY <2>1, <2>2
  <1> HIDE DEF m
  <1>7. StreamTypes'
    BY <1>1, <1>2, <1>6 DEF StreamInv, StreamTypes
  <1>8. MapInv'
    <2>1. \A r \in Streams : stream_map'[r] = IF r = s THEN m ELSE stream_map[r]
      BY <1>2 DEF StreamInv, StreamTypes
    <2>2. /\ Len(owner') \in Nat /\ m \in Nat
          /\ \A r \in Streams : stream_map[r] \in Nat /\ stream_map[r] <= Len(owner)
      BY <1>6 DEF StreamInv, StreamTypes, MapInv
    <2>3. \A r \in Streams : stream_map'[r] <= Len(owner')
      BY <1>1, <1>6, <2>1, <2>2
    <2>4. ASSUME NEW r \in Streams, NEW q \in Streams, r # q, stream_map'[r] # 0
          PROVE  stream_map'[r] # stream_map'[q]
      BY <1>1, <1>3, <2>1, <2>2, <2>4 DEF StreamInv, MapInv
    <2>5. ASSUME NEW h \in Guards, mtx_'[h] # 0
          PROVE  mtx_'[h] = stream_map'[stm_[h]]
      <3>1. stm_[h] \in Streams /\ mtx_'[h] = IF h = g THEN m ELSE mtx_[h]
        BY <1>2, StreamAssumption DEF StreamInv, StreamTypes
      <3>2. CASE h = g
        BY <1>1, <2>1, <3>1, <3>2
      <3>3. CASE h # g
        <4>1. mtx_[h] = stream_map[stm_[h]] /\ mtx_[h] # 0
          BY <2>5, <3>1, <3>3 DEF StreamInv, MapInv
        <4> QED
          BY <1>3, <2>1, <3>1, <3>3, <4>1
      <3> QED
        BY <3>2, <3>3
    <2> QED
      BY <2>3, <2>4, <2>5 DEF MapInv
  <1>9. ASSUME NEW t \in Clients, NEW i \in DOMAIN stack[t]
        PROVE  mtx_'[stack[t][i].guard] = mtx_[stack[t][i].guard]
    BY <1>2, FrameType DEF StreamInv, StreamTypes, HoldInv
  <1>10. \A t \in Clients : \A k : Frames(t, k)' = Frames(t, k)
    BY <1>2, <1>9 DEF Frames
  <1>11. HoldInv'
    <2>1. ASSUME NEW t \in Clients, NEW k \in DOMAIN owner'
          PROVE  /\ Cardinality(Frames(t, k)') <= depth'[k]
                 /\ Frames(t, k)' # {} => owner'[k] = t
      <3>1. CASE k \in DOMAIN owner
        BY <1>6, <1>10, <3>1 DEF StreamInv, HoldInv
      <3>2. CASE k \notin DOMAIN owner
        <4>1. k = Len(owner) + 1 /\ depth'[k] = 0
          BY <1>3, <1>6, <3>2
        <4>2. \A h \in Guards : mtx_[h] <= Len(owner)
          <5> SUFFICES ASSUME NEW h \in Guards PROVE mtx_[h] <= Len(owner)
            OBVIOUS
          <5>1. stm_[h] \in Streams /\ mtx_[h] \in Nat
            BY StreamAssumption DEF StreamInv, StreamTypes
          <5>2. mtx_[h] = 0 \/ mtx_[h] = stream_map[stm_[h]]
            BY DEF StreamInv, MapInv
          <5>3. stream_map[stm_[h]] <= Len(owner)
            BY <5>1 DEF StreamInv, MapInv
          <5> QED
            BY <1>1, <5>1, <5>2, <5>3
        <4>3. Frames(t, k) = {}
          BY <1>1, <4>1, <4>2, FrameType DEF StreamInv, StreamTypes, Frames
        <4> QED
          <5>1. Frames(t, k)' = {}
            BY <1>10, <4>3
          <5> QED
            <6>1. Cardinality(Frames(t, k)') = 0
              BY <5>1, FS_EmptySet
            <6> QED
              BY <4>1, <5>1, <6>1
      <3> QED
        BY <3>1, <3>2
    <2>2. \A t \in Clients : \A i \in DOMAIN stack'[t] : mtx_'[stack'[t][i].guard] # 0
      BY <1>2, <1>9 DEF StreamInv, HoldInv
    <2> QED
      BY <2>1, <2>2 DEF HoldInv
  <1>12. TurnInv' /\ StatementsWhole'
    BY <1>2, OutputKept DEF StreamInv, SM!Holds
  <1> QED
    BY <1>7, <1>8, <1>11, <1>12 DEF StreamInv

\* Frames go, their mutexes with them.
LEMMA UnlockPreserves ==
    ASSUME StreamInv, NEW t \in Clients, SM!Unlock(t)
    PROVE  StreamInv'
  <1>1. /\ stack[t] \in Seq(Frame) /\ stack[t] # <<>> /\ Len(stack[t]) \in Nat \ {0}
        /\ DOMAIN stack[t] = 1 .. Len(stack[t])
    BY DEF StreamInv, StreamTypes, SM!Unlock
  <1>2. /\ SM!UnlockAll(t, {Len(stack[t])})
        /\ stack' = [stack EXCEPT ![t] = SubSeq(@, 1, Len(@) - 1)]
        /\ UNCHANGED <<stream_map, mtx_, turn, out>>
    BY DEF SM!Unlock
  <1>3. /\ SubSeq(stack[t], 1, Len(stack[t]) - 1) \in Seq(Frame)
        /\ Len(SubSeq(stack[t], 1, Len(stack[t]) - 1)) = Len(stack[t]) - 1
        /\ \A i \in 1 .. Len(stack[t]) - 1 :
              SubSeq(stack[t], 1, Len(stack[t]) - 1)[i] = stack[t][i]
    BY <1>1
  <1>4. /\ stack' \in [Clients -> Seq(Frame)]
        /\ \A u \in Clients \ {t} : stack'[u] = stack[u]
        /\ stack'[t] = SubSeq(stack[t], 1, Len(stack[t]) - 1)
    BY <1>2, <1>3 DEF StreamInv, StreamTypes
  <1>5. /\ DOMAIN stack'[t] = 1 .. Len(stack[t]) - 1
        /\ \A i \in DOMAIN stack'[t] : i \in DOMAIN stack[t] /\ stack'[t][i] = stack[t][i]
        /\ DOMAIN stack'[t] \cap {Len(stack[t])} = {}
    BY <1>1, <1>3, <1>4
  <1>6. {Len(stack[t])} \in SUBSET DOMAIN stack[t]
    BY <1>1
  <1>7. /\ owner' \in Seq(Clients \cup {NoThread}) /\ depth' \in Seq(Nat)
        /\ Len(owner') = Len(owner) /\ Len(depth') = Len(owner)
        /\ HoldInv'
    BY <1>2, <1>4, <1>5, <1>6, UnlockKeeps DEF StreamInv
  <1>8. StreamTypes' /\ MapInv'
    BY <1>2, <1>4, <1>7 DEF StreamInv, StreamTypes, MapInv
  <1>9. \A u \in Clients, s \in Streams : SM!Holds(u, s)' => SM!Holds(u, s)
    BY <1>4, <1>5 DEF SM!Holds
  <1> QED
    BY <1>2, <1>7, <1>8, <1>9, OutputKept DEF StreamInv

LEMMA ThrowPreserves ==
    ASSUME StreamInv, NEW t \in Clients, SM!Throw(t)
    PROVE  StreamInv'
  <1> DEFINE F == {i \in DOMAIN stack[t] : stack[t][i].in = "guard"}
  <1>1. /\ SM!UnlockAll(t, F)
        /\ stack' = [stack EXCEPT ![t] = <<>>]
        /\ UNCHANGED <<stream_map, mtx_, turn, out>>
    BY DEF SM!Throw
  <1>2. /\ stack' \in [Clients -> Seq(Frame)]
        /\ \A u \in Clients \ {t} : stack'[u] = stack[u]
        /\ stack'[t] = <<>> /\ DOMAIN stack'[t] = {}
    BY <1>1 DEF StreamInv, StreamTypes
  <1>3. F \in SUBSET DOMAIN stack[t]
    OBVIOUS
  <1> HIDE DEF F
  <1>4. /\ owner' \in Seq(Clients \cup {NoThread}) /\ depth' \in Seq(Nat)
        /\ Len(owner') = Len(owner) /\ Len(depth') = Len(owner)
        /\ HoldInv'
    BY <1>1, <1>2, <1>3, UnlockKeeps DEF StreamInv
  <1>5. StreamTypes' /\ MapInv'
    BY <1>1, <1>2, <1>4 DEF StreamInv, StreamTypes, MapInv
  <1>6. \A u \in Clients, s \in Streams : SM!Holds(u, s)' => SM!Holds(u, s)
    BY <1>2 DEF SM!Holds
  <1> QED
    BY <1>1, <1>4, <1>5, <1>6, OutputKept DEF StreamInv

LEMMA OneMore ==
    ASSUME NEW S, IsFiniteSet(S), NEW x
    PROVE  /\ IsFiniteSet(S \cup {x})
           /\ Cardinality(S \cup {x}) <= Cardinality(S) + 1
  <1>1. Cardinality(S) \in Nat
    BY FS_CardinalityType
  <1> QED
    BY <1>1, FS_AddElement

\* One more frame, on a mutex that is free or t's own.  A turn that begins has
\* a number that nothing on the stream bears yet.
LEMMA LockPreserves ==
    ASSUME StreamInv, NEW t \in Clients, NEW g \in Guards, NEW in \in {"first", "guard"},
           SM!Lock(t, g, in)
    PROVE  StreamInv'
  <1> DEFINE s == stm_[g]
             m == mtx_[g]
             f == [guard |-> g, in |-> in]
  <1>1. /\ stack[t] \in Seq(Frame) /\ Len(stack[t]) \in Nat /\ f \in Frame
        /\ DOMAIN stack[t] = 1 .. Len(stack[t]) /\ s \in Streams
        /\ owner \in Seq(Clients \cup {NoThread}) /\ depth \in Seq(Nat)
        /\ Len(depth) = Len(owner) /\ DOMAIN owner = 1 .. Len(owner)
    <2>1. f \in Frame
      BY DEF Frame
    <2>2. stack[t] \in Seq(Frame) /\ s \in Streams
      BY StreamAssumption DEF StreamInv, StreamTypes
    <2>3. /\ owner \in Seq(Clients \cup {NoThread}) /\ depth \in Seq(Nat)
          /\ Len(depth) = Len(owner)
      BY DEF StreamInv, StreamTypes
    <2> QED
      BY <2>1, <2>2, <2>3
  <1>2. /\ m # 0 /\ owner[m] \in {NoThread, t}
        /\ owner' = [owner EXCEPT ![m] = t] /\ depth' = [depth EXCEPT ![m] = @ + 1]
        /\ stack' = [stack EXCEPT ![t] = Append(@, f)]
        /\ turn' = IF SM!Holds(t, s) THEN turn ELSE [turn EXCEPT ![t][s] = @ + 1]
        /\ UNCHANGED <<stream_map, mtx_, out>>
    BY DEF SM!Lock
  <1>3. m \in 1 .. Len(owner) /\ depth[m] \in Nat
    <2>1. m \in Nat /\ m = stream_map[s] /\ stream_map[s] <= Len(owner)
      BY <1>1, <1>2 DEF StreamInv, StreamTypes, MapInv
    <2>2. m \in 1 .. Len(owner)
      BY <1>1, <1>2, <2>1
    <2> QED
      BY <1>1, <2>2
  <1>4. /\ owner' \in Seq(Clients \cup {NoThread}) /\ Len(owner') = Len(owner)
        /\ \A k \in 1 .. Len(owner) : owner'[k] = IF k = m THEN t ELSE owner[k]
    BY <1>1, <1>2, <1>3, ExceptSeq
  <1>5. /\ depth' \in Seq(Nat) /\ Len(depth') = Len(owner)
        /\ \A k \in 1 .. Len(owner) : depth'[k] = IF k = m THEN depth[k] + 1 ELSE depth[k]
    <2>1. depth[m] + 1 \in Nat
      BY <1>3
    <2> QED
      BY <1>1, <1>2, <1>3, <2>1, ExceptSeq
  <1>6. /\ stack' \in [Clients -> Seq(Frame)]
        /\ \A u \in Clients \ {t} : stack'[u] = stack[u]
        /\ stack'[t] = Append(stack[t], f)
        /\ DOMAIN stack'[t] = 1 .. Len(stack[t]) + 1
        /\ \A i \in 1 .. Len(stack[t]) : stack'[t][i] = stack[t][i]
        /\ stack'[t][Len(stack[t]) + 1] = f
    <2>1. /\ Append(stack[t], f) \in Seq(Frame)
          /\ DOMAIN Append(stack[t], f) = 1 .. Len(stack[t]) + 1
          /\ \A i \in 1 .. Len(stack[t]) : Append(stack[t], f)[i] = stack[t][i]
          /\ Append(stack[t], f)[Len(stack[t]) + 1] = f
      BY <1>1, AppendProperties, LenProperties
    <2>2. stack'[t] = Append(stack[t], f) /\ \A u \in Clients \ {t} : stack'[u] = stack[u]
      BY <1>2 DEF StreamInv, StreamTypes
    <2>3. stack' \in [Clients -> Seq(Frame)]
      BY <1>2, <2>1 DEF StreamInv, StreamTypes
    <2> QED
      BY <2>1, <2>2, <2>3
  <1>7. turn' \in [Clients -> [Streams -> Nat]]
    BY <1>1, <1>2 DEF StreamInv, StreamTypes
  <1>8. StreamTypes' /\ MapInv'
    BY <1>2, <1>4, <1>5, <1>6, <1>7 DEF StreamInv, StreamTypes, MapInv
  <1>9. /\ \A k : Frames(t, k)' = IF k = m THEN Frames(t, k) \cup {Len(stack[t]) + 1} ELSE Frames(t, k)
        /\ \A u \in Clients \ {t} : \A k : Frames(u, k)' = Frames(u, k)
    <2>1. f.guard = g
      OBVIOUS
    <2> QED
      BY <1>1, <1>2, <1>6, <2>1 DEF Frames
  <1>10. HoldInv'
    <2>1. ASSUME NEW u \in Clients, NEW k \in DOMAIN owner'
          PROVE  /\ Cardinality(Frames(u, k)') <= depth'[k]
                 /\ Frames(u, k)' # {} => owner'[k] = u
      <3>1. k \in 1 .. Len(owner) /\ depth[k] \in Nat
        BY <1>1, <1>4
      <3>2. Cardinality(Frames(u, k)) <= depth[k] /\ (Frames(u, k) # {} => owner[k] = u)
        BY <1>1, <3>1 DEF StreamInv, HoldInv
      <3>3. IsFiniteSet(Frames(u, k)) /\ Cardinality(Frames(u, k)) \in Nat
        BY FramesFinite DEF StreamInv
      <3>4. CASE u = t /\ k = m
        <4> DEFINE x == Len(stack[t]) + 1
        <4>0. Frames(u, k)' = Frames(u, k) \cup {x}
          BY <1>9, <3>4
        <4> HIDE DEF x
        <4>1. /\ IsFiniteSet(Frames(u, k) \cup {x})
              /\ Cardinality(Frames(u, k) \cup {x}) <= Cardinality(Frames(u, k)) + 1
          BY <3>3, OneMore
        <4>2. /\ Cardinality(Frames(u, k)') <= Cardinality(Frames(u, k)) + 1
              /\ Cardinality(Frames(u, k)') \in Nat
          BY <4>0, <4>1, FS_CardinalityType
        <4> QED
          BY <1>4, <1>5, <3>1, <3>2, <3>3, <3>4, <4>2
      <3>5. CASE u = t /\ k # m
        BY <1>4, <1>5, <1>9, <3>1, <3>2, <3>5
      <3>6. CASE u # t /\ k # m
        BY <1>4, <1>5, <1>9, <3>1, <3>2, <3>6
      <3>7. CASE u # t /\ k = m
        <4>1. Frames(u, k) = {}
          BY <1>2, <3>2, <3>7, ThreadFacts
        <4>2. Frames(u, k)' = {}
          BY <1>9, <3>7, <4>1
        <4>3. Cardinality(Frames(u, k)') = 0
          BY <4>2, FS_EmptySet
        <4> QED
          BY <1>5, <3>1, <3>7, <4>2, <4>3
      <3> QED
        BY <3>4, <3>5, <3>6, <3>7
    <2>2. ASSUME NEW u \in Clients, NEW i \in DOMAIN stack'[u]
          PROVE  mtx_'[stack'[u][i].guard] # 0
      BY <1>1, <1>2, <1>6, <2>2 DEF StreamInv, HoldInv
    <2> QED
      BY <2>1, <2>2 DEF HoldInv
  <1>11. \A u \in Clients, r \in Streams : SM!Holds(u, r)' => SM!Holds(u, r) \/ (u = t /\ r = s)
    <2> SUFFICES ASSUME NEW u \in Clients, NEW r \in Streams, SM!Holds(u, r)'
                 PROVE  SM!Holds(u, r) \/ (u = t /\ r = s)
      OBVIOUS
    <2>1. PICK i \in DOMAIN stack'[u] : stm_[stack'[u][i].guard] = r
      BY DEF SM!Holds
    <2>2. CASE u # t
      BY <1>6, <2>1, <2>2 DEF SM!Holds
    <2>3. CASE u = t /\ i \in 1 .. Len(stack[t])
      BY <1>1, <1>6, <2>1, <2>3 DEF SM!Holds
    <2>4. CASE u = t /\ i \notin 1 .. Len(stack[t])
      <3>1. i = Len(stack[t]) + 1
        BY <1>1, <1>6, <2>1, <2>4
      <3>2. stack'[u][i].guard = g
        BY <1>6, <2>4, <3>1
      <3> QED
        BY <2>1, <2>4, <3>2
    <2> QED
      BY <2>2, <2>3, <2>4
  <1>12. TurnInv' /\ StatementsWhole'
    <2>1. CASE SM!Holds(t, s)
      BY <1>2, <1>11, <2>1, OutputKept DEF StreamInv
    <2>2. CASE ~SM!Holds(t, s)
      <3>1. /\ turn'[t][s] = turn[t][s] + 1 /\ turn[t][s] \in Nat
            /\ \A u \in Clients, r \in Streams : turn[u][r] \in Nat
            /\ \A u \in Clients, r \in Streams : <<u, r>> # <<t, s>> => turn'[u][r] = turn[u][r]
        BY <1>1, <1>2, <2>2 DEF StreamInv, StreamTypes
      <3>2. \A r \in Streams : \A i \in DOMAIN out[r] : out[r][i] \in Clients \X Nat
        BY DEF StreamInv, StreamTypes
      <3>3. ASSUME NEW r \in Streams, NEW i \in DOMAIN out[r]
            PROVE  out[r][i][2] <= turn'[out[r][i][1]][r]
        <4>1. out[r][i][2] <= turn[out[r][i][1]][r] /\ out[r][i][1] \in Clients /\ out[r][i][2] \in Nat
          BY <3>2 DEF StreamInv, TurnInv
        <4> QED
          BY <3>1, <4>1
      <3>4. ASSUME NEW r \in Streams, NEW u \in Clients, SM!Holds(u, r)',
                   NEW i \in DOMAIN out[r], out[r][i] = <<u, turn'[u][r]>>
            PROVE  \A j \in i .. Len(out[r]) : out[r][j] = <<u, turn'[u][r]>>
        <4>1. ~(u = t /\ r = s)
          BY <3>1, <3>4 DEF StreamInv, TurnInv
        <4>2. SM!Holds(u, r) /\ turn'[u][r] = turn[u][r]
          BY <1>11, <3>1, <3>4, <4>1
        <4> QED
          BY <3>4, <4>2 DEF StreamInv, TurnInv
      <3> QED
        BY <1>2, <3>3, <3>4 DEF StreamInv, TurnInv, StatementsWhole, SM!StatementsWhole
    <2> QED
      BY <2>1, <2>2
  <1> QED
    BY <1>8, <1>10, <1>12 DEF StreamInv

\* An insertion is by the one thread that holds the stream, and comes last.
LEMMA InsertPreserves ==
    ASSUME StreamInv, NEW t \in Clients, SM!Insert(t)
    PROVE  StreamInv'
  <1> DEFINE L == Len(stack[t])
             s == stm_[stack[t][L].guard]
             e == <<t, turn[t][s]>>
  <1>1. /\ stack[t] \in Seq(Frame) /\ stack[t] # <<>> /\ L \in Nat \ {0}
        /\ DOMAIN stack[t] = 1 .. L /\ L \in DOMAIN stack[t]
    BY DEF StreamInv, StreamTypes, SM!Insert
  <1>2. /\ out' = [out EXCEPT ![s] = Append(@, e)]
        /\ stack' = [stack EXCEPT ![t][L].in = "guard"]
        /\ UNCHANGED <<stream_map, mtx_, owner, depth, turn>>
    BY DEF SM!Insert, SM!Top
  <1>3. /\ s \in Streams /\ SM!Holds(t, s) /\ e \in Clients \X Nat
    <2>1. stack[t][L].guard \in Guards
      BY <1>1, FrameType DEF StreamInv
    <2>2. s \in Streams
      BY <2>1, StreamAssumption
    <2>3. SM!Holds(t, s)
      BY <1>1 DEF SM!Holds
    <2> QED
      BY <2>2, <2>3 DEF StreamInv, StreamTypes
  <1>4. /\ stack' \in [Clients -> Seq(Frame)]
        /\ \A u \in Clients \ {t} : stack'[u] = stack[u]
        /\ DOMAIN stack'[t] = DOMAIN stack[t]
        /\ \A i \in DOMAIN stack[t] : stack'[t][i].guard = stack[t][i].guard
    <2> DEFINE f == [stack[t][L] EXCEPT !.in = "guard"]
    <2>1. f \in Frame /\ f.guard = stack[t][L].guard
      BY <1>1, FrameType DEF Frame, StreamInv
    <2>2. stack' = [stack EXCEPT ![t] = [stack[t] EXCEPT ![L] = f]]
      BY <1>2
    <2> HIDE DEF f
    <2>3. /\ [stack[t] EXCEPT ![L] = f] \in Seq(Frame)
          /\ DOMAIN [stack[t] EXCEPT ![L] = f] = DOMAIN stack[t]
          /\ \A i \in DOMAIN stack[t] :
                [stack[t] EXCEPT ![L] = f][i].guard = stack[t][i].guard
      BY <1>1, <2>1, ExceptSeq
    <2>4. /\ stack'[t] = [stack[t] EXCEPT ![L] = f]
          /\ \A u \in Clients \ {t} : stack'[u] = stack[u]
      BY <2>2 DEF StreamInv, StreamTypes
    <2>5. stack' \in [Clients -> Seq(Frame)]
      BY <2>2, <2>3 DEF StreamInv, StreamTypes
    <2> QED
      BY <2>3, <2>4, <2>5
  <1> HIDE DEF s, e, L
  <1>5. /\ \A r \in Streams \ {s} : out'[r] = out[r]
        /\ out[s] \in Seq(Clients \X Nat) /\ DOMAIN out[s] = 1 .. Len(out[s])
        /\ Len(out[s]) \in Nat
        /\ out'[s] \in Seq(Clients \X Nat) /\ Len(out'[s]) = Len(out[s]) + 1
        /\ DOMAIN out'[s] = 1 .. Len(out[s]) + 1
        /\ \A i \in 1 .. Len(out[s]) : out'[s][i] = out[s][i]
        /\ out'[s][Len(out[s]) + 1] = e
        /\ out' \in [Streams -> Seq(Clients \X Nat)]
    <2>1. /\ out[s] \in Seq(Clients \X Nat) /\ DOMAIN out[s] = 1 .. Len(out[s])
          /\ Len(out[s]) \in Nat
      BY <1>3 DEF StreamInv, StreamTypes
    <2>2. /\ Append(out[s], e) \in Seq(Clients \X Nat)
          /\ Len(Append(out[s], e)) = Len(out[s]) + 1
          /\ \A i \in 1 .. Len(out[s]) : Append(out[s], e)[i] = out[s][i]
          /\ Append(out[s], e)[Len(out[s]) + 1] = e
      BY <1>3, <2>1, AppendProperties
    <2>3. DOMAIN Append(out[s], e) = 1 .. Len(out[s]) + 1
      BY <2>2, LenProperties
    <2>4. /\ out'[s] = Append(out[s], e) /\ \A r \in Streams \ {s} : out'[r] = out[r]
          /\ out' \in [Streams -> Seq(Clients \X Nat)]
      BY <1>2, <1>3, <2>2 DEF StreamInv, StreamTypes
    <2> QED
      BY <2>1, <2>2, <2>3, <2>4
  <1>l. Len(out[s]) \in Nat
    BY <1>5
  <1>e. \A i \in DOMAIN out[s] : out[s][i] = e => \A j \in i .. Len(out[s]) : out[s][j] = e
    BY <1>3 DEF StreamInv, TurnInv, e
  <1>6. StreamTypes' /\ MapInv'
    BY <1>2, <1>4, <1>5 DEF StreamInv, StreamTypes, MapInv
  <1>7. \A u \in Clients : \A k : Frames(u, k)' = Frames(u, k)
    BY <1>2, <1>4 DEF Frames
  <1>8. HoldInv'
    <2>1. \A u \in Clients, k \in DOMAIN owner' :
             /\ Cardinality(Frames(u, k)') <= depth'[k]
             /\ Frames(u, k)' # {} => owner'[k] = u
      BY <1>2, <1>7 DEF StreamInv, HoldInv
    <2>2. \A u \in Clients : \A i \in DOMAIN stack'[u] : mtx_'[stack'[u][i].guard] # 0
      BY <1>2, <1>4 DEF StreamInv, HoldInv
    <2> QED
      BY <2>1, <2>2 DEF HoldInv
  <1>9. \A u \in Clients, r \in Streams : SM!Holds(u, r)' => SM!Holds(u, r)
    BY <1>4 DEF SM!Holds
  <1>10. \A i \in 1 .. Len(out[s]) : out[s][i] = e =>
            \A j \in i .. Len(out[s]) + 1 : out'[s][j] = e
    <2> SUFFICES ASSUME NEW i \in 1 .. Len(out[s]), out[s][i] = e,
                        NEW j \in i .. Len(out[s]) + 1
                 PROVE  out'[s][j] = e
      OBVIOUS
    <2>1. CASE j = Len(out[s]) + 1
      BY <1>5, <2>1
    <2>2. CASE j # Len(out[s]) + 1
      <3>1. j \in i .. Len(out[s]) /\ j \in 1 .. Len(out[s])
        BY <1>5, <2>2
      <3>2. out[s][j] = e
        BY <1>e, <1>5, <3>1
      <3> QED
        BY <1>5, <3>1, <3>2
    <2> QED
      BY <2>1, <2>2
  <1>11. TurnInv'
    <2>1. ASSUME NEW r \in Streams, NEW i \in DOMAIN out'[r]
          PROVE  out'[r][i][2] <= turn'[out'[r][i][1]][r]
      <3>1. CASE r = s /\ i = Len(out[s]) + 1
        <4>1. e[1] = t /\ e[2] = turn[t][s] /\ turn[t][s] \in Nat
          BY <1>3 DEF e, StreamInv, StreamTypes
        <4> QED
          BY <1>2, <1>5, <3>1, <4>1
      <3>2. CASE ~(r = s /\ i = Len(out[s]) + 1)
        <4>1. i \in DOMAIN out[r] /\ out'[r][i] = out[r][i]
          <5>1. CASE r # s
            BY <1>5, <5>1
          <5>2. CASE r = s
            <6>1. i \in 1 .. Len(out[s])
              BY <1>l, <1>5, <3>2, <5>2
            <6> QED
              BY <1>5, <5>2, <6>1
          <5> QED
            BY <5>1, <5>2
        <4> QED
          BY <1>2, <4>1 DEF StreamInv, TurnInv
      <3> QED
        BY <3>1, <3>2
    <2>2. ASSUME NEW r \in Streams, NEW u \in Clients, SM!Holds(u, r)',
                 NEW i \in DOMAIN out'[r], out'[r][i] = <<u, turn'[u][r]>>
          PROVE  \A j \in i .. Len(out'[r]) : out'[r][j] = <<u, turn'[u][r]>>
      <3>1. SM!Holds(u, r) /\ turn' = turn
        BY <1>2, <1>9, <2>2
      <3>2. CASE r # s
        <4>1. out'[r] = out[r]
          BY <1>5, <3>2
        <4>2. \A j \in i .. Len(out[r]) : out[r][j] = <<u, turn[u][r]>>
          BY <2>2, <3>1, <4>1 DEF StreamInv, TurnInv
        <4> QED
          BY <3>1, <4>1, <4>2
      <3>3. CASE r = s
        <4>1. u = t
          BY <1>3, <3>1, <3>3, OneHolder
        <4>2. out'[s][i] = e /\ <<u, turn'[u][r]>> = e /\ i \in 1 .. Len(out[s]) + 1
          BY <1>5, <2>2, <3>1, <3>3, <4>1 DEF e
        <4>3. CASE i = Len(out[s]) + 1
          BY <1>5, <3>3, <4>2, <4>3
        <4>4. CASE i # Len(out[s]) + 1
          <5>1. i \in 1 .. Len(out[s]) /\ out[s][i] = e
            <6>1. i \in 1 .. Len(out[s])
              BY <1>l, <4>2, <4>4
            <6> QED
              BY <1>5, <4>2, <6>1
          <5> QED
            BY <1>5, <1>10, <3>3, <4>2, <5>1
        <4> QED
          BY <4>3, <4>4
      <3> QED
        BY <3>2, <3>3
    <2> QED
      BY <2>1, <2>2 DEF TurnInv
  <1>12. StatementsWhole'
    <2> SUFFICES ASSUME NEW r \in Streams, NEW i \in DOMAIN out'[r], NEW k \in DOMAIN out'[r],
                        out'[r][i] = out'[r][k], NEW j \in i .. k
                 PROVE  out'[r][j] = out'[r][i]
      BY DEF StatementsWhole, SM!StatementsWhole
    <2>1. CASE r # s
      <3>1. out'[r] = out[r]
        BY <1>5, <2>1
      <3> QED
        BY <3>1 DEF StreamInv, StatementsWhole, SM!StatementsWhole
    <2>2. CASE r = s /\ k = Len(out[s]) + 1
      <3>1. out'[s][i] = e /\ i \in 1 .. Len(out[s]) + 1
        BY <1>5, <2>2
      <3>2. CASE i = k
        BY <1>5, <2>2, <3>1, <3>2
      <3>3. CASE i # k
        <4>1. i \in 1 .. Len(out[s]) /\ out[s][i] = e /\ j \in i .. Len(out[s]) + 1
          BY <1>5, <2>2, <3>1, <3>3
        <4> QED
          BY <1>10, <2>2, <3>1, <4>1
      <3> QED
        BY <3>2, <3>3
    <2>3. CASE r = s /\ k # Len(out[s]) + 1
      <3>1. k \in 1 .. Len(out[s]) /\ i \in 1 .. Len(out[s]) + 1
        BY <1>5, <2>3
      <3>2. CASE i = Len(out[s]) + 1
        BY <1>5, <3>1, <3>2
      <3>3. CASE i # Len(out[s]) + 1
        <4>1. i \in 1 .. Len(out[s]) /\ j \in 1 .. Len(out[s])
          BY <1>l, <3>1, <3>3
        <4>2. out[s][i] = out[s][k]
          BY <1>5, <2>3, <3>1, <4>1
        <4>3. out[s][j] = out[s][i]
          <5>1. i \in DOMAIN out[s] /\ k \in DOMAIN out[s]
            BY <1>5, <3>1, <4>1
          <5> QED
            BY <1>3, <4>2, <5>1 DEF StreamInv, StatementsWhole, SM!StatementsWhole
        <4> QED
          BY <1>5, <2>3, <4>1, <4>3
      <3> QED
        BY <3>2, <3>3
    <2> QED
      BY <2>1, <2>2, <2>3
  <1> QED
    BY <1>6, <1>8, <1>11, <1>12 DEF StreamInv

LEMMA StreamInitInv == SM!Init => StreamInv
  <1> SUFFICES ASSUME SM!Init PROVE StreamInv
    OBVIOUS
  <1> USE DEF SM!Init
  <1>1. <<>> \in Seq(Clients \cup {NoThread}) /\ <<>> \in Seq(Nat) /\ Len(<<>>) = 0
    OBVIOUS
  <1>2. StreamTypes
    <2>1. /\ stack \in [Clients -> Seq(Frame)] /\ turn \in [Clients -> [Streams -> Nat]]
          /\ out \in [Streams -> Seq(Clients \X Nat)]
      OBVIOUS
    <2> QED
      BY <1>1, <2>1 DEF StreamTypes
  <1>3. MapInv /\ HoldInv
    BY <1>1 DEF MapInv, HoldInv
  <1>4. TurnInv /\ StatementsWhole
    BY DEF TurnInv, StatementsWhole, SM!StatementsWhole
  <1> QED
    BY <1>2, <1>3, <1>4 DEF StreamInv

LEMMA StreamNextInv == StreamInv /\ [SM!Next]_(SM!vars) => StreamInv'
  <1> SUFFICES ASSUME StreamInv, [SM!Next]_(SM!vars) PROVE StreamInv'
    OBVIOUS
  <1>1. CASE UNCHANGED SM!vars
    <2>1. StreamTypes' /\ MapInv'
      BY <1>1 DEF SM!vars, StreamInv, StreamTypes, MapInv
    <2>2. \A t : \A m : Frames(t, m)' = Frames(t, m)
      BY <1>1 DEF SM!vars, Frames
    <2>3. HoldInv'
      BY <1>1, <2>2 DEF SM!vars, StreamInv, HoldInv
    <2>4. TurnInv' /\ StatementsWhole'
      BY <1>1, OutputKept DEF SM!vars, StreamInv, SM!Holds
    <2> QED
      BY <2>1, <2>3, <2>4 DEF StreamInv
  <1>2. CASE SM!Next
    BY <1>2, ConstructKeeps, LockPreserves, InsertPreserves, UnlockPreserves, ThrowPreserves
       DEF SM!Next
  <1> QED
    BY <1>1, <1>2

\* What a thread writes to a stream while it holds it stands together, for any
\* number of stream_mutexes of a stream, however statements nest and whatever
\* is thrown (stream_mutex.h: the operators, stream_guard, hold).
THEOREM StatementsWholeCorrect == SM!Spec => []StatementsWhole
  <1>1. StreamInv => StatementsWhole
    BY DEF StreamInv
  <1> QED
    BY <1>1, StreamInitInv, StreamNextInv, PTL DEF SM!Spec

-----------------------------------------------------------------------------
(* concurrent_priority_queue, for every set of threads and of elements,    *)
(* with both orders of priority, whether or not assignments throw.         *)

NoRepeats(s) == \A i, j \in 1 .. Len(s) : s[i] = s[j] => i = j

HeapTypes ==
    /\ less_ \in BOOLEAN /\ cont_ \in Seq(Elems) /\ NoRepeats(cont_)
    /\ popPc \in [Clients -> {"out", "blocked", "woken"}]

\* The container is a heap under the comparator, unless an assignment has
\* thrown.
HeapInv == ~thrown => PQ!IsHeap(less_, cont_)

\* Nobody is blocked while there are elements.
AwakeInv == cont_ # <<>> => \A t \in Clients : popPc[t] # "blocked"

PriorityInv == HeapTypes /\ HeapInv /\ AwakeInv

\* Of all the numbers in a finite interval that are in S one is the least.
LEMMA LeastIndex ==
    ASSUME NEW n \in Nat, NEW S \in SUBSET (1 .. n), S # {}
    PROVE  \E i \in S : \A j \in S : i <= j
  <1> DEFINE D == 1 .. n
             Bad == {1 .. i : i \in S}
  <1>1. IsFiniteSet(D)
    BY FS_Interval
  <1>2. IsWellFoundedOn(StrictSubsetOrdering(D), SUBSET D)
    <2> HIDE DEF D
    <2> QED
      BY <1>1, FS_StrictSubsetOrderingWellFounded, FS_FiniteSubsetsOfFinite
  <1>3. Bad \subseteq SUBSET D /\ Bad # {}
    <2>1. ASSUME NEW i \in S PROVE 1 .. i \in SUBSET D
      <3>1. i \in 1 .. n
        OBVIOUS
      <3> QED
        BY <3>1
    <2> QED
      BY <2>1
  <1>4. PICK b \in Bad : \A u \in Bad : ~(<<u, b>> \in StrictSubsetOrdering(D))
    <2> HIDE DEF Bad, D
    <2> QED
      BY <1>2, <1>3, WFMin
  <1>5. PICK i \in S : b = 1 .. i
    OBVIOUS
  <1>6. ASSUME NEW j \in S, ~(i <= j) PROVE FALSE
    <2>1. 1 .. j \in Bad /\ 1 .. j \subseteq 1 .. i /\ i \in 1 .. i /\ i \notin 1 .. j
      BY <1>6
    <2>2. <<1 .. j, b>> \in StrictSubsetOrdering(D)
      BY <1>5, <2>1 DEF StrictSubsetOrdering
    <2> QED
      BY <1>4, <2>1, <2>2
  <1> QED
    BY <1>6

\* No element of a heap is more urgent than its root.
LEMMA RootIsFirst ==
    ASSUME NEW l \in BOOLEAN, NEW s \in Seq(Int), PQ!IsHeap(l, s), NEW i \in 1 .. Len(s)
    PROVE  ~PQ!Less(l, s[1], s[i])
  <1> DEFINE Worse == {j \in 1 .. Len(s) : PQ!Less(l, s[1], s[j])}
  <1>1. ASSUME Worse # {} PROVE FALSE
    <2>1. PICK j \in Worse : \A k \in Worse : j <= k
      <3>1. Worse \in SUBSET (1 .. Len(s)) /\ Len(s) \in Nat
        OBVIOUS
      <3> HIDE DEF Worse
      <3> QED
        BY <1>1, <3>1, LeastIndex
    <2>2. j \in 2 .. Len(s) /\ s[1] \in Int /\ s[j] \in Int
      <3>1. j # 1
        BY <2>1 DEF PQ!Less
      <3> QED
        BY <3>1
    <2>3. PICK p \in Nat : p = j \div 2 /\ 1 <= p /\ p < j
      BY <2>2
    <2>4. ~PQ!Less(l, s[p], s[j])
      BY <2>2, <2>3 DEF PQ!IsHeap
    <2>5. ~PQ!Less(l, s[1], s[p]) /\ s[p] \in Int
      BY <2>1, <2>2, <2>3
    <2>6. PQ!Less(l, s[1], s[j])
      BY <2>1
    <2> QED
      BY <2>2, <2>4, <2>5, <2>6 DEF PQ!Less
  <1> QED
    BY <1>1

\* What an operation on the heap may do at most: rearrange the elements.
LEMMA Rearranged ==
    ASSUME NEW S, IsFiniteSet(S), NEW h \in PQ!SetToSeqs(S)
    PROVE  h \in Seq(S) /\ NoRepeats(h) /\ PQ!ToSet(h) = S /\ Len(h) = Cardinality(S)
  <1> DEFINE n == Cardinality(S)
  <1>1. n \in Nat /\ PQ!Cardinality(S) = n
    BY FS_CardinalityType DEF PQ!Cardinality, Cardinality
  <1> HIDE DEF n
  <1>2. h \in [1 .. n -> S] /\ \A i, j \in 1 .. n : i # j => h[i] # h[j]
    BY <1>1 DEF PQ!SetToSeqs
  <1>3. h \in Seq(S) /\ Len(h) = n
    BY <1>1, <1>2
  <1>4. h \in Injection(1 .. n, S)
    BY <1>2 DEF Injection, IsInjective
  <1>5. Cardinality(1 .. n) = n
    BY <1>1, FS_Interval
  <1>6. h \in Surjection(1 .. n, S)
    BY <1>4, <1>5, FS_Injection DEF n
  <1>7. PQ!ToSet(h) = S
    BY <1>2, <1>6 DEF Surjection, PQ!ToSet
  <1> QED
    BY <1>2, <1>3, <1>7 DEF NoRepeats, n

LEMMA Arranged ==
    ASSUME NEW s \in Seq(Elems), NoRepeats(s), NEW h \in PQ!Arrangements(s)
    PROVE  /\ h \in Seq(Elems) /\ NoRepeats(h) /\ PQ!ToSet(h) = PQ!ToSet(s) /\ Len(h) = Len(s)
  <1> DEFINE S == PQ!ToSet(s)
             n == Len(s)
  <1>1. s \in [1 .. n -> S] /\ n \in Nat /\ S \subseteq Elems
    BY DEF PQ!ToSet
  <1>2. s \in Bijection(1 .. n, S)
    BY <1>1 DEF Bijection, Injection, Surjection, IsInjective, NoRepeats, PQ!ToSet
  <1>3. IsFiniteSet(1 .. n) /\ Cardinality(1 .. n) = n
    <2> HIDE DEF n
    <2> QED
      BY <1>1, FS_Interval
  <1>4. IsFiniteSet(S) /\ Cardinality(S) = n
    <2>1. ExistsBijection(1 .. n, S)
      BY <1>2 DEF ExistsBijection
    <2> HIDE DEF S, n
    <2> QED
      BY <1>3, <2>1, FS_Bijection
  <1>5. h \in PQ!SetToSeqs(S)
    BY DEF PQ!Arrangements
  <1> HIDE DEF S
  <1>6. h \in Seq(S) /\ NoRepeats(h) /\ PQ!ToSet(h) = S /\ Len(h) = n
    BY <1>4, <1>5, Rearranged
  <1>7. h \in Seq(Elems)
    BY <1>1, <1>6
  <1> QED
    BY <1>6, <1>7 DEF S

\* The same for one that leaves a heap.
LEMMA Heaped ==
    ASSUME NEW l \in BOOLEAN, NEW s \in Seq(Elems), NoRepeats(s), NEW h \in PQ!make_heap(l, s)
    PROVE  /\ h \in Seq(Elems) /\ NoRepeats(h) /\ PQ!ToSet(h) = PQ!ToSet(s) /\ Len(h) = Len(s)
           /\ PQ!IsHeap(l, h)
  BY Arranged DEF PQ!make_heap

\* do_pop takes one element, or none if the assignment throws, and the most
\* urgent one if there was a heap, and leaves a heap if there was one.
LEMMA Popped ==
    ASSUME HeapTypes, cont_ # <<>>, NEW h \in PQ!pop_heap(less_, cont_)
    PROVE  /\ h \in Seq(Elems) /\ NoRepeats(h) /\ PQ!ToSet(h) = PQ!ToSet(cont_) /\ h # <<>>
           /\ PQ!Front(h) \in Seq(Elems) /\ NoRepeats(PQ!Front(h))
           /\ PQ!ToSet(cont_) \ PQ!ToSet(PQ!Front(h)) = {PQ!Last(h)}
           /\ PQ!IsHeap(less_, cont_) =>
                 /\ PQ!IsHeap(less_, PQ!Front(h))
                 /\ \A y \in PQ!ToSet(cont_) : ~PQ!Less(less_, PQ!Last(h), y)
  <1> DEFINE n == Len(cont_)
  <1>1. /\ cont_ \in Seq(Elems) /\ NoRepeats(cont_) /\ less_ \in BOOLEAN
        /\ n \in Nat /\ n >= 1 /\ DOMAIN cont_ = 1 .. n
    BY DEF HeapTypes
  <1>2. ASSUME h \in Seq(Elems), NoRepeats(h), PQ!ToSet(h) = PQ!ToSet(cont_), Len(h) = n
        PROVE  /\ PQ!Front(h) \in Seq(Elems) /\ NoRepeats(PQ!Front(h)) /\ h # <<>>
               /\ PQ!ToSet(cont_) \ PQ!ToSet(PQ!Front(h)) = {PQ!Last(h)}
    <2> HIDE DEF n
    <2> DEFINE f == PQ!Front(h)
    <2>1. /\ f \in Seq(Elems) /\ Len(f) = n - 1 /\ h # <<>>
          /\ \A i \in 1 .. n - 1 : f[i] = h[i]
      BY <1>1, <1>2 DEF PQ!Front
    <2> HIDE DEF f
    <2>2. NoRepeats(f)
      BY <1>1, <1>2, <2>1 DEF NoRepeats
    <2>3. PQ!ToSet(h) = {h[i] : i \in 1 .. n} /\ PQ!ToSet(f) = {h[i] : i \in 1 .. n - 1}
      BY <1>1, <1>2, <2>1 DEF PQ!ToSet
    <2>4. PQ!ToSet(h) \ PQ!ToSet(f) = {h[n]}
      BY <1>1, <1>2, <2>3 DEF NoRepeats
    <2> QED
      BY <1>2, <2>1, <2>2, <2>4 DEF PQ!Last, f
  <1>3. CASE ~PQ!IsHeap(less_, cont_)
    <2>1. h \in PQ!Arrangements(cont_)
      BY <1>3 DEF PQ!pop_heap
    <2>2. h \in Seq(Elems) /\ NoRepeats(h) /\ PQ!ToSet(h) = PQ!ToSet(cont_) /\ Len(h) = n
      BY <1>1, <2>1, Arranged
    <2> QED
      BY <1>2, <1>3, <2>2
  <1>4. CASE PQ!IsHeap(less_, cont_)
    <2>1. PICK g \in PQ!make_heap(less_, Tail(cont_)) : h = Append(g, cont_[1])
      BY <1>4 DEF PQ!pop_heap
    <2> DEFINE t == Tail(cont_)
    <2>2. /\ t \in Seq(Elems) /\ Len(t) = n - 1 /\ \A i \in 1 .. n - 1 : t[i] = cont_[i + 1]
      BY <1>1
    <2> HIDE DEF t
    <2>3. NoRepeats(t) /\ cont_[1] \in Elems
      <3>1. ASSUME NEW i \in 1 .. n - 1, NEW j \in 1 .. n - 1, t[i] = t[j] PROVE i = j
        <4>1. i + 1 \in 1 .. n /\ j + 1 \in 1 .. n /\ cont_[i + 1] = cont_[j + 1]
          BY <1>1, <2>2, <3>1
        <4>2. i + 1 = j + 1
          BY <1>1, <4>1 DEF NoRepeats
        <4> QED
          BY <4>2
      <3> QED
        BY <1>1, <2>2, <3>1 DEF NoRepeats
    <2>4. /\ g \in Seq(Elems) /\ NoRepeats(g) /\ PQ!ToSet(g) = PQ!ToSet(t) /\ Len(g) = n - 1
          /\ PQ!IsHeap(less_, g)
      BY <1>1, <2>1, <2>2, <2>3, Heaped DEF t
    <2> HIDE DEF n
    <2>5. /\ h \in Seq(Elems) /\ Len(h) = n /\ h[n] = cont_[1]
          /\ \A i \in 1 .. n - 1 : h[i] = g[i]
      BY <1>1, <2>1, <2>3, <2>4
    <2>6. /\ PQ!ToSet(cont_) = {cont_[i] : i \in 1 .. n}
          /\ PQ!ToSet(t) = {cont_[i + 1] : i \in 1 .. n - 1}
          /\ PQ!ToSet(g) = {g[i] : i \in 1 .. n - 1}
          /\ PQ!ToSet(h) = {h[i] : i \in 1 .. n}
      <3>1. DOMAIN t = 1 .. n - 1 /\ DOMAIN g = 1 .. n - 1 /\ DOMAIN h = 1 .. n
        BY <2>2, <2>4, <2>5
      <3>2. PQ!ToSet(cont_) = {cont_[i] : i \in 1 .. n}
        BY <1>1 DEF PQ!ToSet
      <3>3. PQ!ToSet(t) = {cont_[i + 1] : i \in 1 .. n - 1}
        BY <2>2, <3>1 DEF PQ!ToSet
      <3>4. PQ!ToSet(g) = {g[i] : i \in 1 .. n - 1}
        BY <3>1 DEF PQ!ToSet
      <3>5. PQ!ToSet(h) = {h[i] : i \in 1 .. n}
        BY <3>1 DEF PQ!ToSet
      <3> QED
        BY <3>2, <3>3, <3>4, <3>5
    <2>7. cont_[1] \notin PQ!ToSet(g)
      <3>1. \A i \in 1 .. n - 1 : cont_[i + 1] # cont_[1]
        <4>1. \A i \in 1 .. n - 1 : i + 1 \in 1 .. n /\ 1 \in 1 .. n /\ i + 1 # 1
          BY <1>1
        <4> QED
          BY <1>1, <4>1 DEF NoRepeats, n
      <3> QED
        BY <2>4, <2>6, <3>1
    <2>8. NoRepeats(h)
      <3>1. ASSUME NEW i \in 1 .. n, NEW j \in 1 .. n, i # j PROVE h[i] # h[j]
        <4>1. CASE i # n /\ j # n
          BY <1>1, <2>4, <2>5, <3>1, <4>1 DEF NoRepeats
        <4>2. CASE i = n \/ j = n
          BY <1>1, <2>5, <2>6, <2>7, <3>1, <4>2
        <4> QED
          BY <4>1, <4>2
      <3> QED
        BY <2>5, <3>1 DEF NoRepeats
    <2>9. PQ!ToSet(h) = PQ!ToSet(cont_)
      <3>1. PQ!ToSet(h) = PQ!ToSet(g) \cup {cont_[1]}
        BY <1>1, <2>5, <2>6
      <3>2. PQ!ToSet(cont_) = PQ!ToSet(t) \cup {cont_[1]}
        <4>1. ASSUME NEW i \in 1 .. n, i # 1 PROVE cont_[i] \in PQ!ToSet(t)
          <5>1. i - 1 \in 1 .. n - 1 /\ (i - 1) + 1 = i
            BY <1>1, <4>1
          <5> QED
            BY <2>6, <5>1
        <4>2. \A i \in 1 .. n - 1 : i + 1 \in 1 .. n /\ 1 \in 1 .. n
          BY <1>1
        <4>3. 1 \in 1 .. n
          BY <1>1
        <4> QED
          BY <2>6, <4>1, <4>2, <4>3
      <3> QED
        BY <2>4, <3>1, <3>2
    <2>10. PQ!Front(h) = g /\ PQ!Last(h) = cont_[1]
      <3>1. PQ!Last(h) = cont_[1]
        BY <2>5 DEF PQ!Last
      <3>2. PQ!Front(h) \in Seq(Elems) /\ Len(PQ!Front(h)) = n - 1
            /\ \A i \in 1 .. n - 1 : PQ!Front(h)[i] = h[i]
        BY <1>1, <2>5 DEF PQ!Front
      <3> QED
        BY <2>4, <2>5, <3>1, <3>2, SeqEqual
    <2>11. \A y \in PQ!ToSet(cont_) : ~PQ!Less(less_, cont_[1], y)
      <3>1. cont_ \in Seq(Int)
        <4>1. cont_ \in [1 .. n -> Elems]
          BY <1>1 DEF n
        <4>2. cont_ \in [1 .. n -> Int]
          BY <4>1, ElemsAssumption
        <4> QED
          BY <1>1, <4>2
      <3>2. \A i \in 1 .. n : ~PQ!Less(less_, cont_[1], cont_[i])
        BY <1>1, <1>4, <3>1, RootIsFirst DEF n
      <3> QED
        BY <2>6, <3>2
    <2> QED
      BY <1>2, <2>4, <2>5, <2>8, <2>9, <2>10, <2>11
  <1> QED
    BY <1>3, <1>4

\* What HighestFirst says of one step.
TakesFirst ==
    LET gone == PQ!ToSet(cont_) \ PQ!ToSet(cont_') IN
    /\ gone # {} => last' # <<>> /\ gone = {last'[1]}
    /\ ~thrown => \A x \in gone : \A y \in PQ!ToSet(cont_) : ~PQ!Less(less_, x, y)
    /\ cont_' # <<>> => \A t \in Clients : popPc'[t] # "blocked"

LEMMA PriorityInit == PQ!Init => PriorityInv
  <1> SUFFICES ASSUME PQ!Init PROVE PriorityInv
    OBVIOUS
  <1>1. PICK S \in SUBSET Elems : \E s \in PQ!SetToSeqs(S) : cont_ \in PQ!make_heap(less_, s)
    BY DEF PQ!Init
  <1>2. PICK s \in PQ!SetToSeqs(S) : cont_ \in PQ!make_heap(less_, s)
    BY <1>1
  <1>3. IsFiniteSet(S)
    BY ElemsAssumption, FS_Subset
  <1>4. s \in Seq(Elems) /\ NoRepeats(s)
    <2>1. s \in Seq(S) /\ NoRepeats(s)
      BY <1>3, Rearranged
    <2> QED
      BY <2>1
  <1>5. less_ \in BOOLEAN /\ popPc = [t \in Clients |-> "out"]
    BY DEF PQ!Init
  <1>6. cont_ \in Seq(Elems) /\ NoRepeats(cont_) /\ PQ!IsHeap(less_, cont_)
    BY <1>2, <1>4, <1>5, Heaped
  <1> QED
    BY <1>5, <1>6 DEF PriorityInv, HeapTypes, HeapInv, AwakeInv

LEMMA Pushed ==
    ASSUME PriorityInv, NEW t \in Clients, NEW x \in Elems, PQ!push(t, x)
    PROVE  PriorityInv' /\ TakesFirst
  <1> DEFINE s == Append(cont_, x)
             n == Len(cont_)
  <1>1. /\ cont_ \in Seq(Elems) /\ NoRepeats(cont_) /\ less_ \in BOOLEAN
        /\ popPc \in [Clients -> {"out", "blocked", "woken"}] /\ x \notin PQ!ToSet(cont_)
        /\ n \in Nat /\ DOMAIN cont_ = 1 .. n
    BY DEF PriorityInv, HeapTypes, PQ!push
  <1>2. /\ s \in Seq(Elems) /\ Len(s) = n + 1 /\ s[n + 1] = x
        /\ \A i \in 1 .. n : s[i] = cont_[i] /\ s[i] \in PQ!ToSet(cont_)
    BY <1>1 DEF PQ!ToSet
  <1>3. PQ!Front(s) = cont_
    <2>1. PQ!Front(s) \in Seq(Elems) /\ Len(PQ!Front(s)) = n /\ \A i \in 1 .. n : PQ!Front(s)[i] = s[i]
      BY <1>1, <1>2 DEF PQ!Front
    <2> QED
      BY <1>1, <1>2, <2>1, SeqEqual
  <1>4. cont_' \in PQ!push_heap(less_, s)
    BY DEF PQ!push
  <1> HIDE DEF s, n
  <1>5. NoRepeats(s)
    <2>1. ASSUME NEW i \in 1 .. n + 1, NEW j \in 1 .. n + 1, s[i] = s[j] PROVE i = j
      <3>1. CASE i \in 1 .. n /\ j \in 1 .. n
        BY <1>1, <1>2, <2>1, <3>1 DEF NoRepeats, n
      <3>2. CASE i = n + 1 \/ j = n + 1
        <4>1. i \in 1 .. n \/ i = n + 1
          BY <1>1
        <4>2. j \in 1 .. n \/ j = n + 1
          BY <1>1
        <4> QED
          BY <1>1, <1>2, <2>1, <3>2, <4>1, <4>2
      <3> QED
        BY <1>1, <3>1, <3>2
    <2> QED
      BY <1>2, <2>1 DEF NoRepeats
  <1>6. PQ!ToSet(cont_) \subseteq PQ!ToSet(s)
    <2>1. \A i \in 1 .. n : i \in DOMAIN s
      BY <1>1, <1>2
    <2> QED
      BY <1>1, <1>2, <2>1 DEF PQ!ToSet
  <1>7. /\ cont_' \in Seq(Elems) /\ NoRepeats(cont_') /\ PQ!ToSet(cont_') = PQ!ToSet(s)
        /\ PQ!IsHeap(less_, cont_) => PQ!IsHeap(less_, cont_')
    BY <1>1, <1>2, <1>3, <1>4, <1>5, Arranged, Heaped DEF PQ!push_heap
  <1>8. less_' = less_ /\ thrown' = thrown /\ popPc' = PQ!Woken
    BY DEF PQ!push
  <1>9. popPc' \in [Clients -> {"out", "blocked", "woken"}] /\ \A u \in Clients : popPc'[u] # "blocked"
    BY <1>1, <1>8 DEF PQ!Woken
  <1>10. PriorityInv'
    BY <1>1, <1>7, <1>8, <1>9 DEF PriorityInv, HeapTypes, HeapInv, AwakeInv, NoRepeats, PQ!IsHeap, PQ!Less
  <1>11. TakesFirst
    BY <1>6, <1>7, <1>9 DEF TakesFirst
  <1> QED
    BY <1>10, <1>11

LEMMA PoppedOne ==
    ASSUME PriorityInv, cont_ # <<>>, PQ!do_pop, UNCHANGED less_,
           \A u \in Clients : popPc[u] # "blocked" /\ popPc'[u] # "blocked",
           popPc' \in [Clients -> {"out", "blocked", "woken"}]
    PROVE  PriorityInv' /\ TakesFirst
  <1>1. PICK h \in PQ!pop_heap(less_, cont_) :
           \/ cont_' = PQ!Front(h) /\ last' = <<PQ!Last(h)>> /\ UNCHANGED thrown
           \/ cont_' = h /\ thrown' = TRUE
    BY DEF PQ!do_pop
  <1>2. /\ h \in Seq(Elems) /\ NoRepeats(h) /\ PQ!ToSet(h) = PQ!ToSet(cont_) /\ h # <<>>
        /\ PQ!Front(h) \in Seq(Elems) /\ NoRepeats(PQ!Front(h))
        /\ PQ!ToSet(cont_) \ PQ!ToSet(PQ!Front(h)) = {PQ!Last(h)}
        /\ PQ!IsHeap(less_, cont_) =>
              /\ PQ!IsHeap(less_, PQ!Front(h))
              /\ \A y \in PQ!ToSet(cont_) : ~PQ!Less(less_, PQ!Last(h), y)
    BY Popped DEF PriorityInv
  <1>3. less_' = less_ /\ less_ \in BOOLEAN /\ (~thrown => PQ!IsHeap(less_, cont_))
    BY DEF PriorityInv, HeapTypes, HeapInv
  <1>4. CASE cont_' = PQ!Front(h) /\ last' = <<PQ!Last(h)>> /\ UNCHANGED thrown
    <2> DEFINE f == PQ!Front(h)
               e == PQ!Last(h)
    <2>1. cont_' = f /\ last' = <<e>> /\ thrown' = thrown
      BY <1>4
    <2>2. /\ f \in Seq(Elems) /\ NoRepeats(f) /\ PQ!ToSet(cont_) \ PQ!ToSet(f) = {e}
          /\ ~thrown => PQ!IsHeap(less_, f) /\ \A y \in PQ!ToSet(cont_) : ~PQ!Less(less_, e, y)
      BY <1>2, <1>3
    <2> HIDE DEF f, e
    <2>3. cont_' \in Seq(Elems) /\ NoRepeats(cont_') /\ (~thrown => PQ!IsHeap(less_, cont_'))
      BY <2>1, <2>2
    <2>4. PriorityInv'
      BY <1>3, <2>1, <2>3 DEF PriorityInv, HeapTypes, HeapInv, AwakeInv, NoRepeats, PQ!IsHeap, PQ!Less
    <2>5. last' # <<>> /\ last'[1] = e
      BY <2>1
    <2> QED
      BY <2>1, <2>2, <2>4, <2>5 DEF TakesFirst
  <1>5. CASE cont_' = h /\ thrown' = TRUE
    <2>1. PriorityInv'
      BY <1>2, <1>3, <1>5 DEF PriorityInv, HeapTypes, HeapInv, AwakeInv, NoRepeats
    <2>2. PQ!ToSet(cont_) \ PQ!ToSet(cont_') = {}
      BY <1>2, <1>5
    <2> QED
      BY <2>1, <2>2 DEF TakesFirst
  <1> QED
    BY <1>1, <1>4, <1>5

LEMMA PriorityNext ==
    ASSUME PriorityInv, PQ!Next
    PROVE  PriorityInv' /\ TakesFirst
  <1>1. /\ cont_ \in Seq(Elems) /\ NoRepeats(cont_) /\ less_ \in BOOLEAN
        /\ popPc \in [Clients -> {"out", "blocked", "woken"}]
        /\ cont_ # <<>> => \A u \in Clients : popPc[u] # "blocked"
    BY DEF PriorityInv, HeapTypes, AwakeInv
  <1>2. ASSUME NEW t \in Clients, PQ!try_pop(t) PROVE PriorityInv' /\ TakesFirst
    BY <1>1, <1>2, PoppedOne DEF PQ!try_pop
  <1>3. ASSUME NEW t \in Clients, PQ!pop(t) PROVE PriorityInv' /\ TakesFirst
    <2>1. CASE cont_ = <<>>
      <3>1. /\ popPc' = [popPc EXCEPT ![t] = "blocked"]
            /\ cont_' = cont_ /\ last' = last /\ thrown' = thrown /\ less_' = less_
        BY <1>3, <2>1 DEF PQ!pop
      <3>2. PriorityInv'
        BY <1>1, <2>1, <3>1 DEF PriorityInv, HeapTypes, HeapInv, AwakeInv, NoRepeats, PQ!IsHeap, PQ!Less
      <3> QED
        BY <2>1, <3>1, <3>2 DEF TakesFirst
    <2>2. CASE cont_ # <<>>
      BY <1>1, <1>3, <2>2, PoppedOne DEF PQ!pop
    <2> QED
      BY <2>1, <2>2
  <1>4. ASSUME NEW t \in Clients, PQ!SpuriousWakeup(t) PROVE PriorityInv' /\ TakesFirst
    <2>1. /\ popPc' = [popPc EXCEPT ![t] = "woken"]
          /\ cont_' = cont_ /\ last' = last /\ thrown' = thrown /\ less_' = less_
      BY <1>4 DEF PQ!SpuriousWakeup
    <2>2. PriorityInv'
      BY <1>1, <2>1 DEF PriorityInv, HeapTypes, HeapInv, AwakeInv, NoRepeats, PQ!IsHeap, PQ!Less
    <2> QED
      BY <1>1, <2>1, <2>2 DEF TakesFirst
  <1>5. ASSUME NEW l \in BOOLEAN, PQ!update(l) PROVE PriorityInv' /\ TakesFirst
    <2>1. /\ less_' = l /\ popPc' = popPc /\ cont_' \in PQ!make_heap(l, cont_)
      BY <1>5 DEF PQ!update
    <2>2. /\ cont_' \in Seq(Elems) /\ NoRepeats(cont_') /\ PQ!ToSet(cont_') = PQ!ToSet(cont_)
          /\ Len(cont_') = Len(cont_) /\ PQ!IsHeap(l, cont_')
      BY <1>1, <2>1, Heaped
    <2>3. cont_' # <<>> => cont_ # <<>>
      BY <1>1, <2>2
    <2>4. PriorityInv'
      BY <1>1, <2>1, <2>2, <2>3 DEF PriorityInv, HeapTypes, HeapInv, AwakeInv, NoRepeats, PQ!IsHeap, PQ!Less
    <2> QED
      BY <1>1, <2>1, <2>2, <2>3, <2>4 DEF TakesFirst
  <1> QED
    <2>1. CASE \E t \in Clients :
             PQ!try_pop(t) \/ PQ!pop(t) \/ PQ!SpuriousWakeup(t) \/ \E x \in Elems : PQ!push(t, x)
      BY <1>2, <1>3, <1>4, <2>1, Pushed
    <2> QED
      BY <1>5, <2>1 DEF PQ!Next

\* Who pops gets the most urgent element there is, under whatever comparator
\* was set last, unless an assignment has thrown since; what leaves the
\* container is what is popped; and nobody is left blocked while there are
\* elements (do_pop, push and update, concurrent_priority_queue.h:175).
THEOREM HighestFirstCorrect == PQ!Spec => HighestFirst
  <1>1. PQ!Init => PriorityInv
    BY PriorityInit
  <1>2. PriorityInv /\ [PQ!Next]_(PQ!vars) => PriorityInv'
    <2>1. CASE PQ!Next
      BY <2>1, PriorityNext
    <2>2. CASE UNCHANGED PQ!vars
      BY <2>2 DEF PQ!vars, PriorityInv, HeapTypes, HeapInv, AwakeInv, NoRepeats, PQ!IsHeap, PQ!Less
    <2> QED
      BY <2>1, <2>2
  <1>3. PriorityInv /\ [PQ!Next]_(PQ!vars) => [TakesFirst]_(PQ!vars)
    BY PriorityNext
  <1> QED
    BY <1>1, <1>2, <1>3, PTL DEF PQ!Spec, HighestFirst, PQ!HighestFirst, TakesFirst
=============================================================================
