------------------------------- MODULE Dedup -------------------------------
(***************************************************************************)
(* The threaded build of the deduplicating compressor (samples/dedup): a   *)
(* pipeline of one Fragment thread, pools of FragmentRefine, Deduplicate   *)
(* and Compress threads and one Reorder thread, joined by bounded queues   *)
(* (queue.c) that threads fill and drain in batches through ring buffers   *)
(* of their own.  Chunks share the memory of the buffer they were cut from *)
(* (mbuffer.c), are looked up in a hash table with one lock per bucket     *)
(* (hashtable.c) and are put back in order by Reorder.                     *)
(*                                                                         *)
(* The input is a sequence of the contents of its fine chunks; a chunk is  *)
(* named by its place in the input.  A coarse chunk is a record: l1, the   *)
(* places from .. to, the buffer it lives in and the l2 the next fine      *)
(* chunk cut from it gets.                                                 *)
(***************************************************************************)
EXTENDS Integers, Sequences, SequencesExt, FiniteSets, FiniteSetsExt

CONSTANTS
    Files,              \* the inputs
    Cuts,               \* the places after which Fragment cuts a coarse chunk
    MaxBuf,             \* how many fine chunks one read of the input returns
    NThreads,           \* conf->nthreads: the size of each of the three pools
    PerQueue,           \* the values of MAX_THREADS_PER_QUEUE
    QueueSize,          \* QUEUE_SIZE
    MaxPerFetch,        \* MAX_PER_FETCH, the coarse chunks a refiner takes at once
    PerFetch, PerInsert,\* the chunks the others fetch and insert at once
    AnchorsMax,         \* the first size of chunks_per_anchor
    BucketOf            \* the bucket of the hash table of each contents

Pools   == {"refine", "dedup", "compress"}    \* a pool reads the queues of its name
Stages  == Pools \cup {"reorder"}
Workers == Pools \X (0 .. NThreads - 1)
NextOf  == [s \in Pools |-> CASE s = "refine" -> {"dedup"}
                              [] s = "dedup" -> {"compress", "reorder"}
                              [] s = "compress" -> {"reorder"}]

ASSUME SizesAssumption ==
    /\ {MaxBuf, NThreads, QueueSize, MaxPerFetch, PerFetch, PerInsert, AnchorsMax} \subseteq Nat \ {0}
    /\ PerQueue \subseteq Nat \ {0}
ASSUME InputsAssumption ==
    /\ \A f \in Files : f \in Seq(DOMAIN BucketOf)
    /\ Cuts \subseteq Nat

VARIABLES
    file, perQueue,     \* chosen at the start
    que, terminated,    \* each queue's elements and nTerminated
    notEmpty, notFull,  \* and the threads waiting on its condition variables
    fr,                 \* Fragment: pc, places read, buffers made (reads), temp (left), chunk (cur),
                        \* anchorcount, qid and send_buf
    th,                 \* each worker: pc, recv_buf, the send_bufs, the entry found
    ro,                 \* Reorder: pc, recv_buf, qid and the queues tried,
                        \* next, the chunks cached and the one in hand
    perAnchor,          \* chunks_per_anchor
    chunk,              \* each fine chunk: sequence (l1, l2), isLastL2Chunk,
                        \* buffer, state and the chunk whose data it stands for
    refs,               \* the mcb reference count of each input buffer
    table, bucketLock,  \* the hash table's lists and who holds each lock
    out                 \* the records written

queueVars == <<que, terminated, notEmpty, notFull>>
vars == <<file, perQueue, queueVars, fr, th, ro, perAnchor, chunk, refs,
          table, bucketLock, out>>

Fragment == <<"fragment", 0>>
Reorder  == <<"reorder", 0>>
NoChunk  == [l1 |-> -1, from |-> 0, to |-> 0, buf |-> 0, l2 |-> 0]
Nobody   == <<"nobody", 0>>
Places   == DOMAIN file
Buckets  == {BucketOf[c] : c \in DOMAIN BucketOf}

NQueues   == (NThreads + perQueue - 1) \div perQueue
Queues    == 0 .. NQueues - 1
QidOf(w)  == w[2] \div perQueue
Members(i) == {t \in 0 .. NThreads - 1 : t \div perQueue = i}
NProducers(s, i) == IF s = "refine" THEN 1 ELSE Cardinality(Members(i))

EmptyFrom(S) == [s \in S |-> <<>>]

Init ==
    /\ file \in Files
    /\ perQueue \in PerQueue
    /\ que = [s \in Stages |-> [i \in Queues |-> <<>>]]
    /\ terminated = [s \in Stages |-> [i \in Queues |-> 0]]
    /\ notEmpty = [s \in Stages |-> [i \in Queues |-> {}]]
    /\ notFull = [s \in Stages |-> [i \in Queues |-> {}]]
    /\ fr = [pc |-> "read", pos |-> 0, reads |-> 0, left |-> NoChunk, cur |-> NoChunk,
             anchors |-> 0, qid |-> 0, send |-> <<>>]
    /\ th = [w \in Workers |->
               [pc |-> "run", recv |-> <<>>, found |-> 0,
                send |-> EmptyFrom(NextOf[w[1]])]]
    /\ ro = [pc |-> "run", recv |-> <<>>, qid |-> 0, tried |-> 0,
             next |-> <<0, 0>>, cached |-> {}, cur |-> 0]
    /\ perAnchor = [a \in 0 .. AnchorsMax - 1 |-> 0]
    /\ chunk = [p \in Places |-> [seq |-> <<0, 0>>, last |-> FALSE, buf |-> 0,
                                  state |-> "none", ref |-> 0]]
    /\ refs = [b \in 1 .. Len(file) + 2 |-> 0]
    /\ table = [k \in Buckets |-> <<>>]
    /\ bucketLock = [k \in Buckets |-> Nobody]
    /\ out = <<>>

-----------------------------------------------------------------------------
(* queue.c.  An operation holds the queue's mutex throughout, except that  *)
(* it waits: a thread in a wait set goes on only once it was signalled.    *)

IsTerminated(s, i) == terminated[s][i] = NProducers(s, i)

\* pthread_cond_signal wakes one of the waiting threads, if there is one.
Signal(cond, s, i) ==
    \/ cond[s][i] = {} /\ cond' = cond
    \/ \E w \in cond[s][i] : cond' = [cond EXCEPT ![s][i] = @ \ {w}]

Wait(cond, s, i, me) == cond' = [cond EXCEPT ![s][i] = @ \cup {me}]

\* How many elements an operation moves, and the two parts of a buffer.
Fits(s, i, buf, limit) == Min({Len(buf), limit, QueueSize - Len(que[s][i])})
Takes(s, i, limit) == Min({Len(que[s][i]), limit})
First(buf, n) == SubSeq(buf, 1, n)
Rest(buf, n)  == SubSeq(buf, n + 1, Len(buf))

EnqueueWaits(me, s, i) ==
    /\ me \notin notFull[s][i]
    /\ Len(que[s][i]) = QueueSize
    /\ Wait(notFull, s, i, me)
    /\ UNCHANGED <<que, terminated, notEmpty>>

\* queue_enqueue moves what fits from buf.
Enqueue(me, s, i, buf, limit) ==
    /\ me \notin notFull[s][i]
    /\ Len(que[s][i]) < QueueSize
    /\ que' = [que EXCEPT ![s][i] = @ \o First(buf, Fits(s, i, buf, limit))]
    /\ Signal(notEmpty, s, i)
    /\ UNCHANGED <<terminated, notFull>>

DequeueWaits(me, s, i) ==
    /\ me \notin notEmpty[s][i]
    /\ que[s][i] = <<>> /\ ~IsTerminated(s, i)
    /\ Wait(notEmpty, s, i, me)
    /\ UNCHANGED <<que, terminated, notFull>>

\* queue_dequeue into an empty ring buffer.
Dequeue(me, s, i, limit) ==
    /\ me \notin notEmpty[s][i]
    /\ que[s][i] # <<>>
    /\ que' = [que EXCEPT ![s][i] = Rest(@, Takes(s, i, limit))]
    /\ Signal(notFull, s, i)
    /\ UNCHANGED <<terminated, notEmpty>>

\* queue_dequeue returns -1.
DequeueEnds(me, s, i) ==
    /\ me \notin notEmpty[s][i]
    /\ que[s][i] = <<>> /\ IsTerminated(s, i)
    /\ UNCHANGED queueVars

\* Mutant: the last producer wakes nobody.
Terminate_NoBroadcast(s, i) ==
    /\ terminated' = [terminated EXCEPT ![s][i] = @ + 1]
    /\ UNCHANGED <<que, notEmpty, notFull>>

\* queue_terminate wakes all once its last producer has called it.
Terminate(s, i) ==
    /\ terminated' = [terminated EXCEPT ![s][i] = @ + 1]
    /\ notEmpty' = IF terminated[s][i] + 1 = NProducers(s, i)
                   THEN [notEmpty EXCEPT ![s][i] = {}] ELSE notEmpty
    /\ UNCHANGED <<que, notFull>>

-----------------------------------------------------------------------------
(* mbuffer.c: buffers are counted references to a block of memory.         *)

\* Mutant: mbuffer_split does not count the second part.
Split_NoCount(b) == UNCHANGED refs
Split(b) == refs' = [refs EXCEPT ![b] = @ + 1]
Free(b)  == refs' = [refs EXCEPT ![b] = @ - 1]

(* Fragment reads the input and cuts it into coarse chunks.  What is left  *)
(* of a buffer after its last cut is copied to the front of the next one.  *)

CutsIn(c) == {x \in Cuts : c.from <= x /\ x < c.to}

\* One turn of the outer loop up to the inner one: the new buffer holds the
\* chunk left over, if any, and what is read.
FragmentRead ==
    /\ fr.pc = "read"
    /\ LET n     == Min({MaxBuf, Len(file) - fr.pos})
           fresh == fr.left = NoChunk
           b     == fr.reads + 1
           c     == [l1 |-> IF fresh THEN fr.anchors ELSE fr.left.l1,
                     from |-> IF fresh THEN fr.pos + 1 ELSE fr.left.from,
                     to |-> fr.pos + n, buf |-> b, l2 |-> 0]
       IN IF fresh /\ n = 0
          THEN fr' = [fr EXCEPT !.pc = "drain"] /\ UNCHANGED refs
          ELSE /\ refs' = [x \in DOMAIN refs |->
                             CASE x = b -> 1
                               [] x = fr.left.buf -> refs[x] - 1
                               [] OTHER -> refs[x]]
               /\ fr' = [fr EXCEPT !.reads = b, !.pos = @ + n, !.left = NoChunk,
                                   !.anchors = IF fresh THEN @ + 1 ELSE @,
                                   !.pc = IF n = 0 THEN "drain" ELSE "split",
                                   !.cur = IF n = 0 THEN NoChunk ELSE c,
                                   !.send = IF n = 0 THEN Append(@, c) ELSE @]
    /\ UNCHANGED <<file, perQueue, queueVars, th, ro, perAnchor, chunk, table, bucketLock, out>>

\* The inner loop: cut at the next anchor, or keep the chunk for more data.
FragmentSplit ==
    /\ fr.pc = "split" /\ fr.send = <<>>
    /\ LET c == fr.cur IN
       IF CutsIn(c) = {}
       THEN /\ fr' = [fr EXCEPT !.pc = "read", !.left = c, !.cur = NoChunk]
            /\ UNCHANGED refs
       ELSE LET x == Min(CutsIn(c)) IN
            /\ fr' = [fr EXCEPT !.send = <<[c EXCEPT !.to = x]>>,
                                !.cur = [c EXCEPT !.from = x + 1, !.l1 = fr.anchors],
                                !.anchors = @ + 1]
            /\ Split(c.buf)
    /\ UNCHANGED <<file, perQueue, queueVars, th, ro, perAnchor, chunk, table, bucketLock, out>>

\* ANCHOR_DATA_PER_INSERT is one: every coarse chunk is sent at once, to the
\* refine queues in turn.
FragmentSend ==
    /\ fr.pc \in {"split", "drain"} /\ fr.send # <<>>
    /\ \/ /\ EnqueueWaits(Fragment, "refine", fr.qid)
          /\ UNCHANGED fr
       \/ /\ Enqueue(Fragment, "refine", fr.qid, fr.send, 1)
          /\ fr' = [fr EXCEPT !.send = Rest(@, 1), !.qid = (@ + 1) % NQueues]
    /\ UNCHANGED <<file, perQueue, th, ro, perAnchor, chunk, refs, table, bucketLock, out>>

\* Shutdown: every refine queue is terminated; qid counts them.
FragmentStop ==
    /\ \/ fr.pc = "drain" /\ fr.send = <<>> /\ Terminate("refine", 0)
          /\ fr' = [fr EXCEPT !.pc = IF NQueues = 1 THEN "done" ELSE "stop", !.qid = 1]
       \/ fr.pc = "stop" /\ Terminate("refine", fr.qid)
          /\ fr' = [fr EXCEPT !.pc = IF fr.qid + 1 = NQueues THEN "done" ELSE @, !.qid = @ + 1]
    /\ UNCHANGED <<file, perQueue, th, ro, perAnchor, chunk, refs, table, bucketLock, out>>

-----------------------------------------------------------------------------
(* The three pools share their loop: fetch a batch when recv_buf is empty, *)
(* work on one chunk, send a send_buf once it is full; at the end of the   *)
(* input empty the send_bufs and terminate the next queue.                 *)

Unchanged_Data == UNCHANGED <<file, perQueue, fr, ro, perAnchor, chunk, refs,
                              table, bucketLock, out>>

Full(buf) == Len(buf) = PerInsert
MustSend(w) == \E s \in NextOf[w[1]] : Full(th[w].send[s])

Fetch(w) ==
    /\ th[w].pc = "run" /\ th[w].recv = <<>> /\ ~MustSend(w)
    /\ LET s == w[1]
           i == QidOf(w)
           limit == IF s = "refine" THEN MaxPerFetch ELSE PerFetch
       IN \/ DequeueWaits(w, s, i) /\ UNCHANGED th
          \/ /\ Dequeue(w, s, i, limit)
             /\ th' = [th EXCEPT ![w].recv = First(que[s][i], Takes(s, i, limit))]
          \/ /\ DequeueEnds(w, s, i)
             /\ th' = [th EXCEPT ![w].pc = "drain"]
    /\ Unchanged_Data

\* Deduplicate empties its buffer for compression first.
Send(w, s) ==
    /\ s \in NextOf[w[1]]
    /\ \/ th[w].pc = "run" /\ Full(th[w].send[s])
       \/ /\ th[w].pc = "drain" /\ th[w].send[s] # <<>>
          /\ s = "reorder" /\ w[1] = "dedup" => th[w].send["compress"] = <<>>
    /\ LET buf == th[w].send[s]
           i   == QidOf(w)
       IN \/ EnqueueWaits(w, s, i) /\ UNCHANGED th
          \/ /\ Enqueue(w, s, i, buf, PerInsert)
             /\ th' = [th EXCEPT ![w].send[s] = Rest(@, Fits(s, i, buf, PerInsert))]
    /\ Unchanged_Data

\* Mutant: a thread terminates the next queue without emptying its send_bufs.
Shutdown_Leftover(w) ==
    /\ th[w].pc = "drain"
    /\ Terminate(CASE w[1] = "refine" -> "dedup"
                   [] w[1] = "dedup" -> "compress"
                   [] w[1] = "compress" -> "reorder", QidOf(w))
    /\ th' = [th EXCEPT ![w].pc = "done"]
    /\ Unchanged_Data

\* Deduplicate does not terminate the reorder queue: Compress does.
Shutdown(w) ==
    /\ th[w].pc = "drain"
    /\ \A s \in NextOf[w[1]] : th[w].send[s] = <<>>
    /\ Terminate(CASE w[1] = "refine" -> "dedup"
                   [] w[1] = "dedup" -> "compress"
                   [] w[1] = "compress" -> "reorder", QidOf(w))
    /\ th' = [th EXCEPT ![w].pc = "done"]
    /\ Unchanged_Data

Ready(w, pool) == w[1] = pool /\ th[w].pc = "run" /\ th[w].recv # <<>> /\ ~MustSend(w)

\* FragmentRefine cuts the next fine chunk off the coarse one in hand.
RefineChunk(w) ==
    /\ Ready(w, "refine")
    /\ LET c == Head(th[w].recv)
           p == c.from
           rest == IF p = c.to THEN <<>> ELSE <<[c EXCEPT !.from = p + 1, !.l2 = @ + 1]>>
       IN /\ chunk' = [chunk EXCEPT ![p] =
                         [seq |-> <<c.l1, c.l2>>, last |-> p = c.to, buf |-> c.buf,
                          state |-> "uncompressed", ref |-> 0]]
          /\ th' = [th EXCEPT ![w].recv = rest \o Tail(@),
                              ![w].send["dedup"] = Append(@, p)]
          /\ IF p = c.to THEN UNCHANGED refs ELSE Split(c.buf)
    /\ UNCHANGED <<file, perQueue, queueVars, fr, ro, perAnchor, table, bucketLock, out>>

BucketFor(p) == BucketOf[file[p]]

\* hashtable_search: the first entry of the bucket's list with these contents.
Search(p) ==
    LET list == table[BucketFor(p)]
        hits == {n \in DOMAIN list : file[list[n]] = file[p]}
    IN IF hits = {} THEN 0 ELSE list[Min(hits)]

\* hashtable_insert puts the entry at the front of its bucket's list.
Inserted(p) == [table EXCEPT ![BucketFor(p)] = <<p>> \o @]

\* Mutant: the search does not take the bucket's lock.
DedupSearch_NoLock(w) ==
    /\ Ready(w, "dedup")
    /\ th' = [th EXCEPT ![w].pc = "insert", ![w].found = Search(Head(th[w].recv))]
    /\ UNCHANGED <<file, perQueue, queueVars, fr, ro, perAnchor, chunk, refs, table, bucketLock, out>>

\* sub_Deduplicate takes the bucket's lock and searches ...
DedupSearch(w) ==
    /\ Ready(w, "dedup")
    /\ LET p == Head(th[w].recv) IN
       /\ bucketLock[BucketFor(p)] = Nobody
       /\ bucketLock' = [bucketLock EXCEPT ![BucketFor(p)] = w]
       /\ th' = [th EXCEPT ![w].pc = "insert", ![w].found = Search(p)]
    /\ UNCHANGED <<file, perQueue, queueVars, fr, ro, perAnchor, chunk, refs, table, out>>

\* ... and inserts a chunk not found, which goes to be compressed, or gives
\* back the memory of a duplicate, which goes to be written.
DedupInsert(w) ==
    /\ th[w].pc = "insert"
    /\ LET p == Head(th[w].recv)
           b == BucketFor(p)
           unique == th[w].found = 0
           s == IF unique THEN "compress" ELSE "reorder"
       IN /\ table' = IF unique THEN Inserted(p) ELSE table
          /\ chunk' = [chunk EXCEPT ![p].ref = IF unique THEN p ELSE th[w].found]
          /\ IF unique THEN UNCHANGED refs ELSE Free(chunk[p].buf)
          /\ bucketLock' = [bucketLock EXCEPT ![b] = Nobody]
          /\ th' = [th EXCEPT ![w].pc = "run", ![w].recv = Tail(@), ![w].found = 0,
                              ![w].send[s] = Append(@, p)]
    /\ UNCHANGED <<file, perQueue, queueVars, fr, ro, perAnchor, out>>

\* sub_Compress under the chunk's lock; it wakes a Reorder waiting for it.
CompressChunk(w) ==
    /\ Ready(w, "compress")
    /\ LET p == Head(th[w].recv) IN
       /\ chunk' = [chunk EXCEPT ![p].state = "compressed"]
       /\ Free(chunk[p].buf)
       /\ th' = [th EXCEPT ![w].recv = Tail(@), ![w].send["reorder"] = Append(@, p)]
    /\ UNCHANGED <<file, perQueue, queueVars, fr, ro, perAnchor, table, bucketLock, out>>

-----------------------------------------------------------------------------
(* Reorder.  A chunk that is not next is cached: by l1 in a search tree,   *)
(* under it by l2 in a heap, so the least cached chunk is found first.     *)

Before(p, r) ==
    LET x == chunk[p].seq  y == chunk[r].seq IN x[1] < y[1] \/ (x[1] = y[1] /\ x[2] < y[2])
LeastOf(S) == CHOOSE p \in S : \A r \in S \ {p} : Before(p, r)

\* It asks the reorder queues in turn until one has chunks; when all have
\* ended it flushes its cache.
ReorderFetch ==
    /\ ro.pc = "run" /\ ro.recv = <<>>
    /\ LET i == ro.qid
           moved == [ro EXCEPT !.qid = (@ + 1) % NQueues]
       IN \/ DequeueWaits(Reorder, "reorder", i) /\ UNCHANGED ro
          \/ /\ Dequeue(Reorder, "reorder", i, PerFetch)
             /\ ro' = [moved EXCEPT !.recv = First(que["reorder"][i], Takes("reorder", i, PerFetch)),
                                    !.tried = 0]
          \/ /\ DequeueEnds(Reorder, "reorder", i)
             /\ ro' = [moved EXCEPT !.tried = @ + 1,
                                    !.pc = IF ro.tried + 1 = NQueues THEN "flush" ELSE @]
    /\ UNCHANGED <<file, perQueue, fr, th, perAnchor, chunk, refs, table, bucketLock, out>>

\* The array is doubled, once, for a chunk of an anchor beyond its end; a
\* write that is still beyond it is lost.
Grown(a) ==
    LET max == Cardinality(DOMAIN perAnchor) IN
    IF a < max THEN perAnchor
    ELSE [x \in 0 .. 2 * max - 1 |-> IF x < max THEN perAnchor[x] ELSE 0]

ReorderTake ==
    /\ ro.pc = "run" /\ ro.recv # <<>>
    /\ LET p == Head(ro.recv)
           a == chunk[p].seq[1]
           g == Grown(a)
       IN /\ perAnchor' = IF chunk[p].last /\ a \in DOMAIN g
                          THEN [g EXCEPT ![a] = chunk[p].seq[2] + 1] ELSE g
          /\ ro' = IF chunk[p].seq = ro.next
                   THEN [ro EXCEPT !.recv = Tail(@), !.cur = p, !.pc = "write"]
                   ELSE [ro EXCEPT !.recv = Tail(@), !.cached = @ \cup {p}]
    /\ UNCHANGED <<file, perQueue, queueVars, fr, th, chunk, refs, table, bucketLock, out>>

\* next after a chunk was written: the last chunk of an anchor, if known to
\* be, is followed by the first one of the next anchor.
Following(s) ==
    IF s[1] \in DOMAIN perAnchor /\ perAnchor[s[1]] = s[2] + 1
    THEN <<s[1] + 1, 0>> ELSE <<s[1], s[2] + 1>>

\* write_chunk_to_file: the compressed data the first time they are written,
\* then the fingerprint.
Written(o) ==
    [type |-> IF chunk[o].state = "compressed" THEN "compress" ELSE "fingerprint",
     of |-> file[o]]

\* It waits for the data to be compressed, writes them and chooses the chunk
\* to write after this one.
ReorderWrite ==
    /\ ro.pc \in {"write", "flushing"}
    /\ LET o == chunk[ro.cur].ref
           next == Following(ro.next)
           more == {p \in ro.cached : p = LeastOf(ro.cached) /\ chunk[p].seq = next}
       IN /\ chunk[o].state # "uncompressed"
          /\ out' = Append(out, Written(o))
          /\ chunk' = [chunk EXCEPT ![o].state = "flushed"]
          /\ IF ro.pc = "flushing"
             THEN ro' = [ro EXCEPT !.next = next, !.cur = 0, !.pc = "flush"]
             ELSE IF more = {}
             THEN ro' = [ro EXCEPT !.next = next, !.cur = 0, !.pc = "run"]
             ELSE ro' = [ro EXCEPT !.next = next, !.cur = LeastOf(ro.cached), !.cached = @ \ more]
    /\ UNCHANGED <<file, perQueue, queueVars, fr, th, perAnchor, refs, table, bucketLock>>

\* The cache is flushed at the end; a gap in it ends the program with an error.
ReorderFlush ==
    /\ ro.pc = "flush"
    /\ IF ro.cached = {} THEN ro' = [ro EXCEPT !.pc = "done"]
       ELSE LET p == LeastOf(ro.cached) IN
            ro' = IF chunk[p].seq = ro.next
                  THEN [ro EXCEPT !.cur = p, !.cached = @ \ {p}, !.pc = "flushing"]
                  ELSE [ro EXCEPT !.pc = "exit"]
    /\ UNCHANGED <<file, perQueue, queueVars, fr, th, perAnchor, chunk, refs, table, bucketLock, out>>

-----------------------------------------------------------------------------

\* Encode joins all the threads.
Done == fr.pc = "done" /\ (\A w \in Workers : th[w].pc = "done") /\ ro.pc = "done"

Next ==
    \/ FragmentRead \/ FragmentSplit \/ FragmentSend \/ FragmentStop
    \/ \E w \in Workers :
          \/ Fetch(w) \/ Shutdown(w) \/ \E s \in Stages : Send(w, s)
          \/ RefineChunk(w) \/ DedupSearch(w) \/ DedupInsert(w) \/ CompressChunk(w)
    \/ ReorderFetch \/ ReorderTake \/ ReorderWrite \/ ReorderFlush

Spec == Init /\ [][Next]_vars
LiveSpec == Spec /\ WF_vars(Next)

-----------------------------------------------------------------------------

\* The threads that have a reference to buffer b: the one that reads it, the
\* refiner cutting it up, and each fine chunk not yet found a duplicate nor
\* compressed.
Coarse == {fr.left, fr.cur} \cup ToSet(fr.send)
            \cup (UNION {ToSet(que["refine"][i]) : i \in Queues})
            \cup (UNION {ToSet(th[w].recv) : w \in {v \in Workers : v[1] = "refine"}})
Holders(b) ==
    {c.from : c \in {x \in Coarse : x # NoChunk /\ x.buf = b}}
    \cup {p \in Places : /\ chunk[p].buf = b /\ chunk[p].state = "uncompressed"
                         /\ chunk[p].ref \in {0, p}}

\* mbuffer.c: the count of a buffer is the number of chunks that still use
\* its memory, so it is freed by the last of them and never under one
\* (mbuffer_free and mbuffer_split by several threads).
RefsCountHolders == \A b \in DOMAIN refs : refs[b] = Cardinality(Holders(b))

\* Serial: the output is that of the serial build, in whatever order threads
\* find, compress and hand on the chunks: the first of equal chunks in the
\* input is written as data even if a later one was the first to be found.
Serial == INSTANCE SerialDedup WITH
    cache <- {out[n].of : n \in {m \in DOMAIN out : out[m].type = "compress"}}
ImplementsSerial == Serial!Spec

\* At the end all of the input is written, and it decodes to the input.
WholeInputWritten == ro.pc = "done" => Len(out) = Len(file) /\ Serial!OutputDecodes

\* Encode returns: no thread waits for ever on a queue or on a chunk.
EncodeReturns == <>Done

\* What chunks_per_anchor has an element for (encoder.c:1204).
ArrayCoversAnchors ==
    \A p \in ro.cached \cup ({ro.cur} \ {0}) : chunk[p].seq[1] \in DOMAIN perAnchor
=============================================================================
