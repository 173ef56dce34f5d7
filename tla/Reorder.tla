------------------------------ MODULE Reorder ------------------------------
(***************************************************************************)
(* The Reorder stage of the deduplicating compressor (samples/dedup,       *)
(* encoder.c) alone, with the two data structures that it caches chunks    *)
(* in: a search tree by coarse chunk (tree.c) of binary heaps of the fine  *)
(* chunks cut from it (binheap.c).  Chunks come in any order.  Dedup has   *)
(* the whole pipeline, and a set in the place of the cache.                *)
(*                                                                         *)
(* A chunk is its sequence number <<l1num, l2num>>.  A tree is <<>> or     *)
(* <<l1num, Left, Right>>; an element's heap is queue[l1num], the array    *)
(* Elements[1 .. Size] of the l2num's.                                     *)
(***************************************************************************)
EXTENDS Naturals, Sequences, SequencesExt, FiniteSets

CONSTANT Sizes      \* how many fine chunks each coarse chunk is cut into

\* What is assumed of Sizes, for whoever instantiates this module.
ConstantsOK == Sizes \in Seq(Nat \ {0})

Chunks == UNION {{<<i - 1, j>> : j \in 0 .. Sizes[i] - 1} : i \in DOMAIN Sizes}
isLastL2Chunk(c) == c[2] + 1 = Sizes[c[1] + 1]

VARIABLES
    toCome,         \* the chunks that have not been dequeued
    T, queue,       \* the cache
    chunks_per_anchor, next, chunk,
    written,        \* to the file
    at              \* "run", "write", "flush", "done" or "exit" (an error)

vars == <<toCome, T, queue, chunks_per_anchor, next, chunk, written, at>>

-----------------------------------------------------------------------------
(* binheap.c                                                               *)

RECURSIVE PercolateUp(_, _, _), PercolateDown(_, _, _)

PercolateUp(H, i, x) ==
    IF i > 1 /\ H[i \div 2] > x
    THEN PercolateUp([H EXCEPT ![i] = H[i \div 2]], i \div 2, x)
    ELSE [H EXCEPT ![i] = x]

Insert(x, H) == PercolateUp(Append(H, x), Len(H) + 1, x)

\* A slip: the left child is taken for the smaller one.
SmallerChild_Left(H, i) == 2 * i

SmallerChild(H, i) ==
    IF 2 * i # Len(H) /\ H[2 * i + 1] < H[2 * i] THEN 2 * i + 1 ELSE 2 * i

PercolateDown(H, i, x) ==
    IF 2 * i <= Len(H) /\ x > H[SmallerChild(H, i)]
    THEN PercolateDown([H EXCEPT ![i] = H[SmallerChild(H, i)]], SmallerChild(H, i), x)
    ELSE [H EXCEPT ![i] = x]

FindMin(H) == H[1]
DeleteMin(H) == IF Len(H) = 1 THEN <<>> ELSE PercolateDown(Front(H), 1, Last(H))

-----------------------------------------------------------------------------
(* tree.c.  Nothing ever sets pmin, so it is left out.                     *)

Null == <<>>

RECURSIVE TreeFind(_, _), TreeFindMin(_), TreeInsert(_, _), TreeDelete(_, _)

TreeFind(x, t) ==
    /\ t # Null
    /\ \/ x = t[1]
       \/ x < t[1] /\ TreeFind(x, t[2])
       \/ x > t[1] /\ TreeFind(x, t[3])

TreeFindMin(t) == IF t[2] = Null THEN t[1] ELSE TreeFindMin(t[2])

TreeInsert(x, t) ==
    IF t = Null THEN <<x, Null, Null>>
    ELSE <<t[1], IF x < t[1] THEN TreeInsert(x, t[2]) ELSE t[2],
                 IF x > t[1] THEN TreeInsert(x, t[3]) ELSE t[3]>>

TreeDelete(x, t) ==
    IF x < t[1] THEN <<t[1], TreeDelete(x, t[2]), t[3]>>
    ELSE IF x > t[1] THEN <<t[1], t[2], TreeDelete(x, t[3])>>
    ELSE IF t[2] # Null /\ t[3] # Null
         THEN LET m == TreeFindMin(t[3]) IN <<m, t[2], TreeDelete(m, t[3])>>
         ELSE IF t[2] = Null THEN t[3] ELSE t[2]

-----------------------------------------------------------------------------
(* Reorder                                                                 *)

Init ==
    /\ toCome = Chunks
    /\ T = Null /\ queue = <<>>
    /\ chunks_per_anchor = [i \in 0 .. Len(Sizes) |-> 0]
    /\ next = <<0, 0>> /\ chunk = <<>>
    /\ written = <<>> /\ at = "run"

\* A chunk that is not next is put into the cache.
Cache(c) ==
    IF TreeFind(c[1], T)
    THEN queue' = [queue EXCEPT ![c[1]] = Insert(c[2], @)] /\ UNCHANGED T
    ELSE /\ T' = TreeInsert(c[1], T)
         /\ queue' = [l \in DOMAIN queue \cup {c[1]} |->
                        IF l = c[1] THEN Insert(c[2], <<>>) ELSE queue[l]]

Receive(c) ==
    /\ at = "run" /\ c \in toCome
    /\ toCome' = toCome \ {c}
    /\ chunks_per_anchor' =
         IF isLastL2Chunk(c) THEN [chunks_per_anchor EXCEPT ![c[1]] = c[2] + 1]
         ELSE chunks_per_anchor
    /\ IF c = next THEN chunk' = c /\ at' = "write" /\ UNCHANGED <<T, queue>>
                   ELSE Cache(c) /\ UNCHANGED <<chunk, at>>
    /\ UNCHANGED <<next, written>>

\* sequence_inc_l2(&next), and sequence_inc_l1 after the last chunk.
Following ==
    IF chunks_per_anchor[next[1]] # 0 /\ next[2] + 1 = chunks_per_anchor[next[1]]
    THEN <<next[1] + 1, 0>> ELSE <<next[1], next[2] + 1>>

\* What is first in the cache: FindMin(TreeFindMin(T)->Element.queue).
First == <<TreeFindMin(T), FindMin(queue[TreeFindMin(T)])>>

\* It is taken out, and its heap with it if that was all.
Uncache ==
    LET l == TreeFindMin(T)
        rest == DeleteMin(queue[l])
    IN  IF rest = <<>>
        THEN T' = TreeDelete(l, T) /\ queue' = [k \in DOMAIN queue \ {l} |-> queue[k]]
        ELSE queue' = [queue EXCEPT ![l] = rest] /\ UNCHANGED T

\* The loop that writes as many chunks as possible.
Write ==
    /\ at = "write"
    /\ written' = Append(written, chunk)
    /\ next' = Following
    /\ IF T # Null /\ First = next'
       THEN chunk' = First /\ Uncache /\ UNCHANGED at
       ELSE chunk' = <<>> /\ at' = "run" /\ UNCHANGED <<T, queue>>
    /\ UNCHANGED <<toCome, chunks_per_anchor>>

Stop == /\ at = "run" /\ toCome = {} /\ at' = "flush"
        /\ UNCHANGED <<toCome, T, queue, chunks_per_anchor, next, chunk, written>>

\* The chunks left in the cache are flushed; a gap is an error.
Flush ==
    /\ at = "flush"
    /\ IF T # Null /\ First = next
       THEN /\ written' = Append(written, First) /\ next' = Following
            /\ Uncache /\ UNCHANGED at
       ELSE /\ at' = IF T = Null THEN "done" ELSE "exit"
            /\ UNCHANGED <<T, queue, next, written>>
    /\ UNCHANGED <<toCome, chunks_per_anchor, chunk>>

Next == (\E c \in Chunks : Receive(c)) \/ Write \/ Stop \/ Flush

Spec == Init /\ [][Next]_vars

-----------------------------------------------------------------------------

\* The chunks in the order of the file.
Order == FlattenSeq([i \in DOMAIN Sizes |-> [j \in 1 .. Sizes[i] |-> <<i - 1, j - 1>>]])

\* However the chunks come in, they are written in order, each of them as
\* soon as it and all before it are there: the tree and the heaps never hide
\* the chunk that is next behind another.  In the end all are written and
\* nothing is left over ("sequence number mismatch" never happens).
WrittenPromptly ==
    /\ written = SubSeq(Order, 1, Len(written))
    /\ at = "run" => Len(written) = Cardinality(Chunks) \/ Order[Len(written) + 1] \in toCome
    /\ at # "exit" /\ (at = "done" => written = Order)
=============================================================================
