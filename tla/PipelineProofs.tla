--------------------------- MODULE PipelineProofs ---------------------------
(***************************************************************************)
(* Proofs about the pipeline and about the ends its queues are used by.    *)
(*                                                                         *)
(* Pipeline, for any set of plans, any inputs and any size of the queues:  *)
(* the barrier spans the exit of the workers.                              *)
(*                                                                         *)
(* QueueEnds, for any number of ends, and any queue that keeps the         *)
(* contract of BoundedQueue.                                               *)
(***************************************************************************)
EXTENDS MCPipeline, FiniteSetTheorems, WellFoundedInduction, TLAPS

\* Of all the numbers in a finite interval that are in S one is the least.
LEMMA LeastIndex ==
    ASSUME NEW n \in Nat, NEW S \in SUBSET (1 .. n), S # {}
    PROVE  \E i \in S : \A j \in S : i <= j
  <1> DEFINE D == 1 .. n
             Bad == {1 .. i : i \in S}
  <1>1. IsFiniteSet(D)
    BY FS_Interval
  <1>2. IsWellFoundedOn(StrictSubsetOrdering(D), SUBSET D)
    <2> HIDE DEF D
    <2> QED
      BY <1>1, FS_StrictSubsetOrderingWellFounded, FS_FiniteSubsetsOfFinite
  <1>3. Bad \subseteq SUBSET D /\ Bad # {}
    <2>1. ASSUME NEW i \in S PROVE 1 .. i \in SUBSET D
      <3>1. i \in 1 .. n
        OBVIOUS
      <3> QED
        BY <3>1
    <2> QED
      BY <2>1
  <1>4. PICK b \in Bad : \A u \in Bad : ~(<<u, b>> \in StrictSubsetOrdering(D))
    <2> HIDE DEF Bad, D
    <2> QED
      BY <1>2, <1>3, WFMin
  <1>5. PICK i \in S : b = 1 .. i
    OBVIOUS
  <1>6. ASSUME NEW j \in S, ~(i <= j) PROVE FALSE
    <2>1. 1 .. j \in Bad /\ 1 .. j \subseteq 1 .. i /\ i \in 1 .. i /\ i \notin 1 .. j
      BY <1>6
    <2>2. <<1 .. j, b>> \in StrictSubsetOrdering(D)
      BY <1>5, <2>1 DEF StrictSubsetOrdering
    <2> QED
      BY <1>4, <2>1, <2>2
  <1> QED
    BY <1>6

-----------------------------------------------------------------------------
(* FlattenSeq.                                                             *)

\* Its recursive function: g[i] is the concatenation of the first i.
Joins(s, n, g) == g = [i \in 1 .. n |-> IF i = 1 THEN s[i] ELSE g[i - 1] \o s[i]]

\* There is such a function, up to any i.
LEMMA JoinsExists ==
    ASSUME NEW s, NEW n \in Nat
    PROVE  \E g : Joins(s, n, g)
  <1> DEFINE Lacks == {k \in 1 .. n : ~\E g : Joins(s, k, g)}
  <1>1. ASSUME Lacks # {} PROVE FALSE
    <2>1. PICK k \in Lacks : \A j \in Lacks : k <= j
      <3>1. Lacks \in SUBSET (1 .. n)
        OBVIOUS
      <3> HIDE DEF Lacks
      <3> QED
        BY <1>1, <3>1, LeastIndex
    <2>2. CASE k = 1
      <3>1. Joins(s, k, [i \in 1 .. 1 |-> s[1]])
        BY <2>2 DEF Joins
      <3> QED
        BY <2>1, <3>1
    <2>3. CASE k # 1
      <3>1. k - 1 \in 1 .. n /\ k - 1 \notin Lacks
        BY <2>1, <2>3
      <3>2. PICK g : Joins(s, k - 1, g)
        BY <3>1
      <3> DEFINE h == [i \in 1 .. k |-> IF i = k THEN g[k - 1] \o s[k] ELSE g[i]]
      <3>3. ASSUME NEW i \in 1 .. k PROVE h[i] = IF i = 1 THEN s[i] ELSE h[i - 1] \o s[i]
        <4>1. CASE i = k
          <5>1. i # 1 /\ i - 1 \in 1 .. k /\ i - 1 # k
            BY <2>1, <2>3, <4>1
          <5> QED
            BY <4>1, <5>1
        <4>2. CASE i # k /\ i = 1
          <5>1. 1 \in 1 .. k - 1
            BY <2>1, <2>3
          <5> QED
            BY <3>2, <4>2, <5>1 DEF Joins
        <4>3. CASE i # k /\ i # 1
          <5>1. i \in 1 .. k - 1 /\ i - 1 \in 1 .. k /\ i - 1 # k
            BY <2>1, <4>3
          <5> QED
            BY <3>2, <4>3, <5>1 DEF Joins
        <4> QED
          BY <4>1, <4>2, <4>3
      <3>4. h = [i \in 1 .. k |-> h[i]]
        OBVIOUS
      <3> HIDE DEF h
      <3>5. Joins(s, k, h)
        BY <3>3, <3>4 DEF Joins
      <3> QED
        BY <2>1, <3>5
    <2> QED
      BY <2>2, <2>3
  <1>2. CASE n = 0
    <2>1. Joins(s, n, [i \in 1 .. 0 |-> s[i]])
      BY <1>2 DEF Joins
    <2> QED
      BY <2>1
  <1>3. CASE n # 0
    <2>1. n \in 1 .. n
      BY <1>3
    <2> QED
      BY <1>1, <2>1
  <1> QED
    BY <1>2, <1>3

LEMMA FlattenJoins ==
    ASSUME NEW s, Len(s) \in Nat \ {0}
    PROVE  \E g : Joins(s, Len(s), g) /\ FlattenSeq(s) = g[Len(s)]
  <1> DEFINE g == CHOOSE g : g = [i \in 1 .. Len(s) |-> IF i = 1 THEN s[i] ELSE g[i - 1] \o s[i]]
  <1>1. FlattenSeq(s) = g[Len(s)]
    BY Zenon DEF FlattenSeq
  <1>2. Joins(s, Len(s), g)
    BY JoinsExists, Zenon DEF Joins
  <1> QED
    BY <1>1, <1>2

\* Workers that can be told apart by their names.
Named(q) == \A a, b \in DOMAIN q : q[a].id = q[b].id => a = b

\* q joins the parts s[1], ..., s[n].
Parts(X, s, n, q) ==
    /\ q \in Seq(X) /\ Named(q)
    /\ \A a \in DOMAIN q : \E i \in 1 .. n : \E j \in DOMAIN s[i] : q[a] = s[i][j]

\* Two sequences of workers with names of their own.
Joint(X, q, r, z) ==
    /\ q \in Seq(X) /\ r \in Seq(X) /\ z = q \o r /\ Named(q) /\ Named(r)
    /\ \A a \in DOMAIN q : \A b \in DOMAIN r : q[a].id # r[b].id
LEMMA Joining ==
    ASSUME NEW X, NEW q, NEW r, NEW z, Joint(X, q, r, z)
    PROVE  /\ z \in Seq(X) /\ Named(z)
           /\ \A a \in DOMAIN z : \/ \E b \in DOMAIN q : z[a] = q[b]
                                  \/ \E b \in DOMAIN r : z[a] = r[b]
  <1> DEFINE m == Len(q)
             n == Len(r)
  <1>0. /\ q \in Seq(X) /\ r \in Seq(X) /\ z = q \o r /\ Named(q) /\ Named(r)
        /\ \A a \in DOMAIN q : \A b \in DOMAIN r : q[a].id # r[b].id
    BY DEF Joint
  <1> USE <1>0
  <1>1. m \in Nat /\ n \in Nat /\ DOMAIN q = 1 .. m /\ DOMAIN r = 1 .. n
    OBVIOUS
  <1>3. z \in Seq(X) /\ Len(z) = m + n /\ DOMAIN z = 1 .. m + n
    OBVIOUS
  <1>4. ASSUME NEW a \in DOMAIN z
        PROVE  \/ a \in DOMAIN q /\ z[a] = q[a]
               \/ a > m /\ a - m \in DOMAIN r /\ z[a] = r[a - m]
    <2>1. a \in 1 .. m + n
      BY <1>3
    <2>2. CASE a <= m
      BY <1>1, <2>1, <2>2
    <2>3. CASE ~(a <= m)
      BY <1>1, <2>1, <2>3
    <2> QED
      BY <2>2, <2>3
  <1> HIDE DEF m, n
  <1>5. ASSUME NEW a \in DOMAIN z, NEW b \in DOMAIN z, z[a].id = z[b].id PROVE a = b
    <2>1. CASE a \in DOMAIN q /\ z[a] = q[a]
      <3>1. b \in DOMAIN q /\ z[b] = q[b]
        BY <1>4, <1>5, <2>1
      <3> QED
        BY <1>5, <2>1, <3>1 DEF Named
    <2>2. CASE a > m /\ a - m \in DOMAIN r /\ z[a] = r[a - m]
      <3>1. b > m /\ b - m \in DOMAIN r /\ z[b] = r[b - m]
        BY <1>4, <1>5, <2>2
      <3>2. a - m = b - m
        BY <1>5, <2>2, <3>1 DEF Named
      <3>3. a \in Int /\ b \in Int
        BY <1>1, <1>3
      <3> QED
        BY <1>1, <3>2, <3>3
    <2> QED
      BY <1>4, <2>1, <2>2
  <1>6. \A a \in DOMAIN z : \/ \E b \in DOMAIN q : z[a] = q[b]
                            \/ \E b \in DOMAIN r : z[a] = r[b]
    BY <1>4
  <1> QED
    BY <1>3, <1>5, <1>6 DEF Named

\* The parts of a plan have names of their own, and so has the whole.
LEMMA Flattening ==
    ASSUME NEW X, NEW s \in Seq(Seq(X)), \A i \in DOMAIN s : Named(s[i]),
           \A i, k \in DOMAIN s : i # k =>
               \A a \in DOMAIN s[i] : \A b \in DOMAIN s[k] : s[i][a].id # s[k][b].id
    PROVE  Parts(X, s, Len(s), FlattenSeq(s))
  <1>1. CASE Len(s) = 0
    <2>1. s = <<>> /\ FlattenSeq(s) = s
      BY <1>1 DEF FlattenSeq
    <2>2. <<>> \in Seq(X) /\ DOMAIN <<>> = {}
      OBVIOUS
    <2>3. Named(<<>>)
      BY <2>2 DEF Named
    <2> QED
      BY ONLY <2>1, <2>2, <2>3 DEF Parts
  <1>2. CASE Len(s) # 0
    <2>1. PICK n \in Nat \ {0} : n = Len(s)
      BY <1>2
    <2>2. PICK g : Joins(s, n, g) /\ FlattenSeq(s) = g[n]
      BY <2>1, FlattenJoins
    <2>3. /\ g[1] = s[1] /\ DOMAIN s = 1 .. n
          /\ \A k \in 2 .. n : g[k] = g[k - 1] \o s[k]
      <3>1. \A k \in 1 .. n : g[k] = IF k = 1 THEN s[k] ELSE g[k - 1] \o s[k]
        BY <2>2 DEF Joins
      <3>2. 1 \in 1 .. n /\ \A k \in 2 .. n : k \in 1 .. n /\ k # 1
        BY <2>1
      <3>3. DOMAIN s = 1 .. n
        BY <2>1
      <3> QED
        BY ONLY <3>1, <3>2, <3>3
    <2> DEFINE Bad == {k \in 1 .. n : ~Parts(X, s, k, g[k])}
    <2>4. ASSUME Bad # {} PROVE FALSE
      <3>1. PICK k \in Bad : \A j \in Bad : k <= j
        <4>1. Bad \in SUBSET (1 .. n)
          OBVIOUS
        <4> HIDE DEF Bad
        <4> QED
          BY <2>4, <4>1, LeastIndex
      <3>2. CASE k = 1
        <4>1. g[1] \in Seq(X) /\ Named(g[1]) /\ 1 \in 1 .. n
          BY <2>3
        <4>2. Parts(X, s, 1, g[1])
          BY <2>3, <4>1 DEF Parts
        <4> QED
          BY <3>1, <3>2, <4>2
      <3>3. CASE k # 1
        <4>1. k \in 2 .. n /\ k - 1 \in 1 .. n /\ ~(k <= k - 1)
          BY <3>1, <3>3
        <4>2. Parts(X, s, k - 1, g[k - 1])
          BY <3>1, <4>1
        <4>3. g[k] = g[k - 1] \o s[k] /\ k \in DOMAIN s /\ s[k] \in Seq(X) /\ Named(s[k])
          <5>1. k \in DOMAIN s
            BY <2>3, <4>1
          <5>2. s[k] \in Seq(X) /\ Named(s[k])
            BY <5>1
          <5> QED
            BY <2>3, <4>1, <5>1, <5>2
        <4>4. g[k - 1] \in Seq(X) /\ Named(g[k - 1])
          BY <4>2 DEF Parts
        <4>5. \A a \in DOMAIN g[k - 1] : \A b \in DOMAIN s[k] : g[k - 1][a].id # s[k][b].id
          <5>1. ASSUME NEW a \in DOMAIN g[k - 1], NEW b \in DOMAIN s[k] PROVE g[k - 1][a].id # s[k][b].id
            <6>1. PICK i \in 1 .. k - 1 : \E j \in DOMAIN s[i] : g[k - 1][a] = s[i][j]
              BY <4>2 DEF Parts
            <6>2. i # k /\ i \in DOMAIN s
              BY <2>3, <4>1
            <6> QED
              BY <4>3, <6>1, <6>2
          <5> QED
            BY <5>1
        <4>6. /\ g[k] \in Seq(X) /\ Named(g[k])
              /\ \A a \in DOMAIN g[k] : \/ \E b \in DOMAIN g[k - 1] : g[k][a] = g[k - 1][b]
                                        \/ \E b \in DOMAIN s[k] : g[k][a] = s[k][b]
          <5>1. PICK u : u = g[k - 1]
            OBVIOUS
          <5>2. PICK v : v = s[k]
            OBVIOUS
          <5>3. PICK w : w = g[k]
            OBVIOUS
          <5>4. w = u \o v /\ u \in Seq(X) /\ v \in Seq(X) /\ Named(u) /\ Named(v)
            BY <4>3, <4>4, <5>1, <5>2, <5>3
          <5>5. \A a \in DOMAIN u : \A b \in DOMAIN v : u[a].id # v[b].id
            BY <4>5, <5>1, <5>2
          <5>6. /\ w \in Seq(X) /\ Named(w)
                /\ \A a \in DOMAIN w : \/ \E b \in DOMAIN u : w[a] = u[b]
                                       \/ \E b \in DOMAIN v : w[a] = v[b]
            <6>1. Joint(X, u, v, w)
              BY <5>4, <5>5 DEF Joint
            <6> QED
              BY ONLY <6>1, Joining
          <5> QED
            BY <5>1, <5>2, <5>3, <5>6
        <4>7. ASSUME NEW a \in DOMAIN g[k]
              PROVE  \E i \in 1 .. k : \E j \in DOMAIN s[i] : g[k][a] = s[i][j]
          <5>1. k \in 1 .. k /\ 1 .. k - 1 \subseteq 1 .. k
            BY <4>1
          <5>2. \A b \in DOMAIN g[k - 1] : \E i \in 1 .. k - 1 : \E j \in DOMAIN s[i] : g[k - 1][b] = s[i][j]
            BY <4>2 DEF Parts
          <5> QED
            BY <4>6, <5>1, <5>2
        <4>8. Parts(X, s, k, g[k])
          BY <4>6, <4>7 DEF Parts
        <4> QED
          BY <3>1, <4>8
      <3> QED
        BY <3>2, <3>3
    <2>5. Parts(X, s, n, g[n])
      BY <2>4
    <2> QED
      BY <2>1, <2>2, <2>5
  <1> QED
    BY <1>1, <1>2

-----------------------------------------------------------------------------
(* The workers of a plan have names of their own.                          *)

\* q are workers of segment i.
InSegment(q, i) ==
    /\ \E X : q \in Seq(X)
    /\ Named(q) /\ \A a \in DOMAIN q : q[a].id[1] = i

LEMMA OneWorker ==
    ASSUME NEW i, NEW run, NEW ins, NEW out
    PROVE  InSegment(<< Worker(<<i>>, run, ins, out) >>, i)
  <1>1. PICK w : w = Worker(<<i>>, run, ins, out)
    OBVIOUS
  <1>2. w.id = <<i>>
    BY <1>1 DEF Worker
  <1>3. <<w>> \in Seq({w}) /\ DOMAIN <<w>> = {1} /\ <<w>>[1] = w
    OBVIOUS
  <1>4. Named(<<w>>)
    BY <1>3 DEF Named
  <1>5. \A a \in DOMAIN <<w>> : <<w>>[a].id[1] = i
    BY <1>2, <1>3
  <1>6. InSegment(<<w>>, i)
    BY <1>3, <1>4, <1>5 DEF InSegment
  <1> QED
    BY <1>1, <1>6

\* The replicas of a parallel segment and its collector.
LEMMA ParallelNames ==
    ASSUME NEW p, NEW i, NEW n \in Nat, p[i].n = n, NEW m \in Nat, Len(p[i].body) = m
    PROVE  InSegment(ParallelWorkers(p, i), i)
  <1> DEFINE s == [r \in 1 .. n |-> Replica(p, i, r)]
             X == {Replica(p, i, r)[j] : r \in 1 .. n, j \in 1 .. m}
             c == Worker(<<i>>, "collector", [r \in 1 .. n |-> <<i, r>>], OutQueue(p, i))
             Y == X \cup {c}
  <1>1. ASSUME NEW r \in 1 .. n
        PROVE  /\ DOMAIN Replica(p, i, r) = 1 .. m
               /\ Replica(p, i, r) = [j \in 1 .. m |-> Replica(p, i, r)[j]]
               /\ \A j \in 1 .. m : Replica(p, i, r)[j].id = <<i, r, j>>
    BY DEF Replica, Worker
  <1>2. ASSUME NEW r \in 1 .. n PROVE Replica(p, i, r) \in Seq(Y) /\ Named(Replica(p, i, r))
    <2>1. \A j \in 1 .. m : Replica(p, i, r)[j] \in Y
      OBVIOUS
    <2> HIDE DEF Y
    <2>2. Replica(p, i, r) \in Seq(Y)
      BY <1>1, <2>1
    <2>3. ASSUME NEW a \in 1 .. m, NEW b \in 1 .. m, Replica(p, i, r)[a].id = Replica(p, i, r)[b].id
          PROVE  a = b
      <3>1. <<i, r, a>> = <<i, r, b>>
        BY <1>1, <2>3
      <3> QED
        BY <3>1
    <2>4. Named(Replica(p, i, r))
      BY <1>1, <2>3 DEF Named
    <2> QED
      BY <2>2, <2>4
  <1> HIDE DEF X, c, Y
  <1>3. s \in Seq(Seq(Y)) /\ DOMAIN s = 1 .. n /\ Len(s) = n
    BY <1>2
  <1>4. \A r \in DOMAIN s : Named(s[r])
    BY <1>2, <1>3
  <1>5. ASSUME NEW r \in DOMAIN s, NEW t \in DOMAIN s, r # t,
               NEW a \in DOMAIN s[r], NEW b \in DOMAIN s[t]
        PROVE  s[r][a].id # s[t][b].id
    <2>1. s[r][a].id = <<i, r, a>> /\ s[t][b].id = <<i, t, b>>
      BY <1>1, <1>3
    <2> QED
      BY <1>5, <2>1
  <1>6. Parts(Y, s, n, FlattenSeq(s))
    <2>1. \A r, t \in DOMAIN s : r # t =>
            \A a \in DOMAIN s[r] : \A b \in DOMAIN s[t] : s[r][a].id # s[t][b].id
      BY <1>5
    <2> HIDE DEF s
    <2> QED
      BY ONLY <1>3, <1>4, <2>1, Flattening
  <1>7. PICK q : q = FlattenSeq(s)
    OBVIOUS
  <1>8. q \in Seq(Y) /\ Named(q) /\ \A a \in DOMAIN q : \E r \in 1 .. n : \E j \in DOMAIN s[r] : q[a] = s[r][j]
    BY <1>6, <1>7 DEF Parts
  <1>9. \A a \in DOMAIN q : \E r, j : q[a].id = <<i, r, j>>
    BY <1>1, <1>8
  <1>10. PICK z : z = q \o <<c>>
    OBVIOUS
  <1>11. ParallelWorkers(p, i) = z
    BY <1>7, <1>10 DEF ParallelWorkers, c
  <1>12. c.id = <<i>> /\ c \in Y
    BY DEF c, Worker, Y
  <1>13. Joint(Y, q, <<c>>, z)
    <2>1. <<c>> \in Seq(Y) /\ DOMAIN <<c>> = {1} /\ <<c>>[1] = c
      BY <1>12
    <2>2. Named(<<c>>)
      BY <2>1 DEF Named
    <2>3. ASSUME NEW a \in DOMAIN q PROVE q[a].id # c.id
      <3>1. PICK r, j : q[a].id = <<i, r, j>>
        BY <1>9
      <3>2. <<i, r, j>> # <<i>>
        OBVIOUS
      <3> QED
        BY <1>12, <3>1, <3>2
    <2> QED
      BY <1>8, <1>10, <2>1, <2>2, <2>3 DEF Joint
  <1>14. /\ z \in Seq(Y) /\ Named(z)
         /\ \A a \in DOMAIN z : (\E b \in DOMAIN q : z[a] = q[b]) \/ (\E b \in DOMAIN <<c>> : z[a] = <<c>>[b])
    BY ONLY <1>13, Joining
  <1>15. ASSUME NEW a \in DOMAIN z PROVE z[a].id[1] = i
    <2>1. CASE \E b \in DOMAIN q : z[a] = q[b]
      BY <1>9, <2>1
    <2>2. CASE \E b \in DOMAIN <<c>> : z[a] = <<c>>[b]
      <3>1. z[a] = c
        BY <2>2
      <3> QED
        BY <1>12, <3>1
    <2> QED
      BY <1>14, <2>1, <2>2
  <1> QED
    BY <1>11, <1>14, <1>15 DEF InSegment

LEMMA NoWorker == ASSUME NEW i PROVE InSegment(<<>>, i)
  <1>1. <<>> \in Seq({}) /\ DOMAIN <<>> = {}
    OBVIOUS
  <1>2. Named(<<>>)
    BY <1>1 DEF Named
  <1> QED
    BY <1>1, <1>2 DEF InSegment

LEMMA SegmentNames ==
    ASSUME NEW p \in Plans, NEW i \in 1 .. Len(p)
    PROVE  InSegment(SegmentWorkers(p, i), i)
  <1>1. p[i] \in Segment
    BY PlansAssumption
  <1>2. p[i].kind \in Functions \cup Consumers \cup {"producer", "from", "to", "parallel"}
        /\ (p[i].kind = "parallel" => p[i].n \in Nat /\ Len(p[i].body) \in Nat)
    BY <1>1 DEF Segment, Functions, Consumers
  <1>3. CASE p[i].kind \in Functions
    <2>1. SegmentWorkers(p, i) = FunctionWorkers(p, i)
      BY <1>3 DEF SegmentWorkers, Functions, Consumers
    <2>2. InSegment(FunctionWorkers(p, i), i)
      BY OneWorker DEF FunctionWorkers
    <2> QED
      BY <2>1, <2>2
  <1>4. CASE p[i].kind \in Consumers
    BY <1>4, OneWorker DEF SegmentWorkers, ConsumerWorkers, Functions, Consumers
  <1>5. CASE p[i].kind = "producer"
    BY <1>5, OneWorker DEF SegmentWorkers, ProducerWorkers, Functions, Consumers
  <1>6. CASE p[i].kind = "from"
    BY <1>6, OneWorker, NoWorker DEF SegmentWorkers, QueueProducerWorkers, Functions, Consumers
  <1>7. CASE p[i].kind = "to"
    BY <1>7, NoWorker DEF SegmentWorkers, QueueConsumerWorkers, Functions, Consumers
  <1>8. CASE p[i].kind = "parallel"
    BY <1>2, <1>8, ParallelNames DEF SegmentWorkers, Functions, Consumers
  <1> QED
    BY <1>2, <1>3, <1>4, <1>5, <1>6, <1>7, <1>8

\* Names are never shared, so each worker is given its work once.
LEMMA WorkersNamed ==
    ASSUME NEW p \in Plans
    PROVE  Named(Workers[p]) /\ \E X : Workers[p] \in Seq(X)
  <1>1. PICK n \in Nat : n = Len(p)
    BY PlansAssumption
  <1> DEFINE S(i) == SegmentWorkers(p, i)
             X == UNION {{S(i)[a] : a \in DOMAIN S(i)} : i \in 1 .. n}
             s == [i \in 1 .. n |-> S(i)]
  <1>2. ASSUME NEW i \in 1 .. n
        PROVE  S(i) \in Seq(X) /\ Named(S(i)) /\ \A a \in DOMAIN S(i) : S(i)[a].id[1] = i
    <2>1. InSegment(S(i), i)
      BY <1>1, SegmentNames
    <2>2. \A a \in DOMAIN S(i) : S(i)[a] \in X
      OBVIOUS
    <2> HIDE DEF S, X
    <2>3. S(i) \in Seq(X)
      BY <2>1, <2>2 DEF InSegment
    <2> QED
      BY <2>1, <2>3 DEF InSegment
  <1> HIDE DEF S, X
  <1>3. s \in Seq(Seq(X)) /\ DOMAIN s = 1 .. n /\ Len(s) = n
    BY <1>2
  <1>4. \A i \in DOMAIN s : Named(s[i])
    BY <1>2
  <1>5. ASSUME NEW i \in DOMAIN s, NEW k \in DOMAIN s, i # k, NEW a \in DOMAIN s[i], NEW b \in DOMAIN s[k]
        PROVE  s[i][a].id # s[k][b].id
    BY <1>2, <1>5
  <1>6. FlattenSeq(s) = Workers[p]
    BY <1>1 DEF Workers, S
  <1>7. Parts(X, s, n, FlattenSeq(s))
    <2>1. \A i, k \in DOMAIN s : i # k =>
            \A a \in DOMAIN s[i] : \A b \in DOMAIN s[k] : s[i][a].id # s[k][b].id
      BY <1>5
    <2> HIDE DEF s
    <2> QED
      BY ONLY <1>3, <1>4, <2>1, Flattening
  <1> QED
    BY <1>6, <1>7 DEF Parts

-----------------------------------------------------------------------------
(* The inductive invariant of an execution.                                *)

W == Ids(plan)

\* Who has been given its work, and whether all are out of the barrier.
Begun  == {w \in W : at[w] # "idle"}
AllOut == \A w \in W : pc[w] = "out"

Places == {"idle", "start", "run", "call", "close", "exit", "gone", "threw"}
Mains  == {"execute", "start", "wait", "~wait", "waited", "arrive", "~arrive", "delete", "deleted"}

Types ==
    /\ plan \in Plans /\ executed \in 0 .. Len(Workers[plan])
    /\ at \in [Threads -> Places] /\ hand = [t \in Threads |-> hand[t]]
    /\ pc \in [Threads -> {"out", "lock", "blocked", "woken", "unlock"}]
    /\ op \in [Threads -> {"none", "arrive_and_wait"}]
    /\ main \in Mains /\ phase \in Nat

\* Each worker is given its work once, and waits for the latch; the barrier
\* is there from when all have theirs.
LaunchInv ==
    /\ Begun = {Workers[plan][i].id : i \in 1 .. executed} /\ Cardinality(Begun) = executed
    /\ main \in {"execute", "start"} => start_ = 1
    /\ start_ = 1 => \A w \in W : at[w] \in {"idle", "start"}
    /\ main # "execute" => executed = Len(Workers[plan])
    /\ life = IF main = "execute" THEN "none" ELSE IF main = "deleted" THEN "destroyed" ELSE "alive"

\* Who has something to push is in its loop, who is in the barrier has left it.
WorkInv == \A w \in W : /\ hand[w] # <<>> => at[w] \in {"run", "threw"}
                        /\ pc[w] # "out" => at[w] = "gone"

\* The first phase: the barrier gathers the workers, and nobody else.
GatherInv == phase = 0 =>
    /\ done_ = FALSE /\ end_ = 1 /\ main \in {"execute", "start", "wait", "~wait"}
    /\ num_to_leave_ = 0 /\ mutex_ = NoThread /\ idle_ = {} /\ pc[Main] = "out"
    /\ ready_ = {w \in W : pc[w] = "blocked"} /\ num_waiting_ = Cardinality(ready_)
    /\ thread_count_ = IF main = "execute" THEN 0 ELSE Cardinality(W)
    /\ \A w \in W : pc[w] \in {"out", "lock", "blocked"} /\ (at[w] = "gone" => pc[w] # "out")

Woken == {w \in W : pc[w] = "woken"}

\* After it all workers are gone, and leave the barrier; the caller gets
\* through it when they have.
LeaveInv == phase > 0 =>
    /\ done_ = TRUE /\ end_ = 0 /\ main \notin {"execute", "start"}
    /\ \A w \in W : at[w] = "gone" /\ pc[w] \in {"woken", "unlock", "out"} /\ (pc[w] = "unlock" => mutex_ = w)
    /\ ready_ = {} /\ idle_ \subseteq {Main} /\ (pc[Main] = "blocked" <=> Main \in idle_)
    /\ num_to_leave_ = Cardinality(Woken)
    /\ num_to_leave_ > 0 => num_waiting_ = thread_count_ /\ new_thread_count_ = 1
    /\ num_to_leave_ = 0 => num_waiting_ = 0 /\ thread_count_ = 1 /\ idle_ = {}
    /\ pc[Main] # "woken" /\ (pc[Main] = "unlock" => AllOut)
    /\ pc[Main] # "out" => main \in {"arrive", "~arrive"}
    /\ main \in {"arrive", "~arrive"} /\ pc[Main] = "out" => AllOut
    /\ main \in {"waited", "delete", "deleted"} => AllOut

IInv == Types /\ LaunchInv /\ WorkInv /\ GatherInv /\ LeaveInv

-----------------------------------------------------------------------------

LEMMA WorkerFacts ==
    ASSUME NEW p \in Plans
    PROVE  /\ Workers[p] = [i \in 1 .. Len(Workers[p]) |-> Workers[p][i]] /\ Len(Workers[p]) \in Nat
           /\ Ids(p) = {Workers[p][i].id : i \in 1 .. Len(Workers[p])}
           /\ Ids(p) \subseteq Threads /\ Main \in Threads \ Ids(p) /\ NoThread \notin Threads
           /\ IsFiniteSet(Ids(p))
  <1>1. Workers[p] = [i \in 1 .. Len(Workers[p]) |-> Workers[p][i]] /\ Len(Workers[p]) \in Nat
    BY WorkersNamed
  <1>2. PICK n \in Nat : n = Len(Workers[p])
    BY <1>1
  <1>3. Ids(p) = {Workers[p][i].id : i \in 1 .. n}
    BY <1>1, <1>2 DEF Ids, ToSet
  <1>4. Ids(p) \subseteq Threads /\ Main \in Threads \ Ids(p) /\ NoThread \notin Threads
    <2>1. \A x \in Ids(p) : x \in Threads
      BY Zenon DEF Threads
    <2>2. Main \in Threads
      BY SMT DEF Threads
    <2>3. Main \notin Ids(p)
      BY MainAssumption, Zenon
    <2>4. NoThread \notin Threads
      BY MainAssumption, Zenon
    <2> QED
      BY <2>1, <2>2, <2>3, <2>4
  <1>5. IsFiniteSet(Ids(p))
    <2> DEFINE f == [i \in 1 .. n |-> Workers[p][i].id]
    <2>1. IsFiniteSet({f[i] : i \in 1 .. n})
      <3>1. IsFiniteSet(1 .. n)
        BY FS_Interval
      <3>2. f \in [1 .. n -> Ids(p)]
        BY <1>3
      <3> HIDE DEF f
      <3>3. f \in Surjection(1 .. n, {f[i] : i \in 1 .. n})
        BY <3>2 DEF Surjection
      <3> QED
        BY <3>1, <3>3, FS_Surjection
    <2>2. {f[i] : i \in 1 .. n} = Ids(p)
      BY <1>3
    <2> QED
      BY <2>1, <2>2
  <1> QED
    BY <1>1, <1>2, <1>3, <1>4, <1>5

LEMMA Sizes ==
    ASSUME Types
    PROVE  /\ W \subseteq Threads /\ Main \in Threads \ W /\ NoThread \notin Threads /\ IsFiniteSet(W)
           /\ Len(Workers[plan]) \in Nat /\ executed \in Nat
           /\ \A S : S \subseteq W => /\ IsFiniteSet(S) /\ Cardinality(S) \in Nat
                                      /\ (Cardinality(S) = 0 <=> S = {})
                                      /\ (Cardinality(S) = Cardinality(W) => S = W)
  <1>1. plan \in Plans /\ executed \in 0 .. Len(Workers[plan])
    BY DEF Types
  <1>2. /\ W \subseteq Threads /\ Main \in Threads \ W /\ NoThread \notin Threads /\ IsFiniteSet(W)
        /\ Len(Workers[plan]) \in Nat
    BY <1>1, WorkerFacts DEF W
  <1>3. ASSUME NEW S, S \subseteq W
        PROVE  /\ IsFiniteSet(S) /\ Cardinality(S) \in Nat
               /\ (Cardinality(S) = 0 <=> S = {})
               /\ (Cardinality(S) = Cardinality(W) => S = W)
    <2>1. IsFiniteSet(S)
      BY <1>2, <1>3, FS_Subset
    <2>2. Cardinality(S) \in Nat /\ (Cardinality(S) = 0 <=> S = {})
      BY <2>1, FS_CardinalityType, FS_EmptySet
    <2>3. Cardinality(S) = Cardinality(W) => S = W
      BY <1>2, <1>3, FS_Subset
    <2> QED
      BY <2>1, <2>2, <2>3
  <1> QED
    BY <1>1, <1>2, <1>3

LEMMA InitInv == Init => IInv
  <1> SUFFICES ASSUME Init PROVE IInv
    OBVIOUS
  <1>1. plan \in Plans /\ Len(Workers[plan]) \in Nat /\ W \subseteq Threads /\ Main \in Threads
    BY WorkerFacts DEF Init, W
  <1>2. Types
    BY <1>1 DEF Init, Types, Places, Mains
  <1>3. Begun = {} /\ Cardinality(Begun) = 0
    <2>1. Begun = {}
      BY <1>1 DEF Init, Begun
    <2> QED
      BY <2>1, FS_EmptySet
  <1>4. LaunchInv
    <2>1. {Workers[plan][i].id : i \in 1 .. executed} = {}
      BY DEF Init
    <2>2. \A w \in W : at[w] = "idle"
      BY <1>1 DEF Init
    <2> QED
      BY <1>3, <2>1, <2>2 DEF Init, LaunchInv
  <1>5. WorkInv
    BY <1>1 DEF Init, WorkInv
  <1>6. GatherInv
    <2>1. ready_ = {w \in W : pc[w] = "blocked"}
      BY <1>1 DEF Init
    <2>2. Cardinality(ready_) = 0
      BY FS_EmptySet DEF Init
    <2> QED
      BY <1>1, <2>1, <2>2 DEF Init, GatherInv
  <1>7. LeaveInv
    BY DEF Init, LeaveInv
  <1> QED
    BY <1>2, <1>4, <1>5, <1>6, <1>7 DEF IInv

\* What the invariant is for.
LEMMA InvSpansExit == IInv => BarrierSpansExit
  <1> SUFFICES ASSUME IInv PROVE BarrierSpansExit
    OBVIOUS
  <1>0. Types /\ LaunchInv /\ WorkInv /\ GatherInv /\ LeaveInv
    BY DEF IInv
  <1>1. phase = 0 \/ phase > 0
    BY <1>0 DEF Types
  <1>2. ASSUME NEW w \in W, at[w] = "exit" \/ pc[w] # "out" PROVE life = "alive"
    <2>1. at[w] \in {"exit", "gone"}
      BY <1>0, <1>2 DEF WorkInv
    <2>2. main # "execute"
      BY <1>0, <2>1 DEF LaunchInv
    <2>3. main # "deleted"
      BY <1>0, <1>1, <1>2 DEF GatherInv, LeaveInv, AllOut
    <2> QED
      BY <1>0, <2>2, <2>3 DEF LaunchInv
  <1>3. ASSUME main \in {"waited", "delete", "deleted"}
        PROVE  done_ /\ \A w \in W : at[w] = "gone" /\ pc[w] = "out"
    BY <1>0, <1>1, <1>3 DEF GatherInv, LeaveInv, AllOut
  <1> QED
    BY <1>2, <1>3 DEF BarrierSpansExit, W

-----------------------------------------------------------------------------
(* The workers.                                                            *)

\* What every step of a worker's loop does.
LEMMA RunStep ==
    ASSUME IInv, NEW w \in W, Run(w)
    PROVE  /\ UNCHANGED <<plan, control, barrier>>
           /\ at[w] \notin {"idle", "gone"} /\ (at[w] = "start" => start_ = 0)
           /\ \E l \in {"run", "call", "close", "exit", "threw"} :
                \E h : /\ at' = [at EXCEPT ![w] = l] /\ hand' = [hand EXCEPT ![w] = h]
                       /\ (h # <<>> => l \in {"run", "threw"})
  <1>0. Types /\ WorkInv /\ w \in Threads
    BY Sizes DEF IInv
  <1>1. at \in [Threads -> Places] /\ hand = [t \in Threads |-> hand[t]]
    BY <1>0 DEF Types
  <1>2. hand[w] # <<>> => at[w] \in {"run", "threw"}
    BY <1>0 DEF WorkInv
  <1>3. at = [at EXCEPT ![w] = at[w]] /\ hand = [hand EXCEPT ![w] = hand[w]]
    BY <1>0, <1>1
  <1>4. UNCHANGED <<plan, control, barrier>>
    BY DEF Run
  <1> DEFINE Moves(l, h) == /\ at' = [at EXCEPT ![w] = l] /\ hand' = [hand EXCEPT ![w] = h]
                            /\ (h # <<>> => l \in {"run", "threw"})
                            /\ at[w] \notin {"idle", "gone"} /\ (at[w] = "start" => start_ = 0)
                            /\ l \in {"run", "call", "close", "exit", "threw"}
  <1>5. ASSUME NEW args, Call(w, args), at[w] \in {"run", "call"} PROVE \E l, h : Moves(l, h)
    <2>1. Moves("run", Result(Job(w).run, args))
      BY <1>5 DEF Call, Goto
    <2> QED
      BY <2>1
  <1>6. CASE ThreadStart(w)
    <2>1. PICK h : hand' = [hand EXCEPT ![w] = h]
      BY <1>6 DEF ThreadStart
    <2>2. Moves("run", h)
      BY <1>6, <2>1 DEF ThreadStart, Goto
    <2> QED
      BY <1>4, <2>2
  <1>7. CASE LoopTest(w)
    <2>1. PICK l \in {"close", "call"} : at' = [at EXCEPT ![w] = l]
      BY <1>7 DEF LoopTest, Goto
    <2>2. Moves(l, hand[w])
      BY <1>3, <1>7, <2>1 DEF LoopTest
    <2> QED
      BY <1>4, <2>2
  <1>8. CASE Pop(w)
    <2>1. at[w] \in {"run", "call"} /\ hand[w] = <<>>
      BY <1>8 DEF Pop
    <2>2. CASE \E args : Call(w, args)
      BY <1>4, <1>5, <2>1, <2>2
    <2>3. CASE at' = at /\ hand' = hand
      <3>1. Moves(at[w], hand[w])
        BY <1>3, <2>1, <2>3
      <3> QED
        BY <1>4, <3>1
    <2> QED
      BY <1>8, <2>2, <2>3 DEF Pop
  <1>9. CASE PopClosed(w)
    <2>1. CASE at[w] = "call" /\ Call(w, held[w])
      BY <1>4, <1>5, <2>1
    <2>2. CASE /\ at[w] = "run" /\ hand' = hand /\ hand[w] = <<>>
               /\ at' = at \/ at' = [at EXCEPT ![w] = "close"]
      <3>1. Moves(at[w], hand[w]) \/ Moves("close", hand[w])
        BY <1>3, <2>2
      <3> QED
        BY <1>4, <3>1
    <2> QED
      BY <1>9, <2>1, <2>2 DEF PopClosed, Goto
  <1>10. CASE Push(w)
    <2>1. at[w] \in {"run", "threw"} /\ hand' = [hand EXCEPT ![w] = Tail(hand[w])]
      BY <1>1, <1>2, <1>10 DEF Push
    <2>2. at' = at \/ at' = [at EXCEPT ![w] = "threw"]
      BY <1>10 DEF Push, Goto
    <2>3. Moves(at[w], Tail(hand[w])) \/ Moves("threw", Tail(hand[w]))
      BY <1>3, <2>1, <2>2
    <2> QED
      BY <1>4, <2>3
  <1>11. CASE ProducerReturns(w)
    <2>1. Moves("close", hand[w])
      BY <1>3, <1>11 DEF ProducerReturns, Goto
    <2> QED
      BY <1>4, <2>1
  <1>12. CASE Close(w)
    <2>1. Moves("exit", hand[w])
      BY <1>2, <1>3, <1>12 DEF Close, Goto
    <2> QED
      BY <1>4, <2>1
  <1> QED
    BY <1>6, <1>7, <1>8, <1>9, <1>10, <1>11, <1>12 DEF Run

\* A step of one worker's that keeps the plan and the thread of the caller.
LEMMA BegunStays ==
    ASSUME Types, NEW w \in W, NEW l \in Places \ {"idle"}, at[w] # "idle",
           at' = [at EXCEPT ![w] = l], plan' = plan
    PROVE  /\ W' = W /\ Begun' = Begun /\ at' \in [Threads -> Places] /\ at'[w] = l
           /\ \A u \in W \ {w} : at'[u] = at[u]
  <1>1. at \in [Threads -> Places] /\ W \subseteq Threads
    BY Sizes DEF Types
  <1>2. W' = W
    BY DEF W
  <1>3. at' \in [Threads -> Places] /\ at'[w] = l /\ \A u \in W \ {w} : at'[u] = at[u]
    BY <1>1
  <1>4. Begun' = Begun
    BY <1>2, <1>3 DEF Begun
  <1> QED
    BY <1>2, <1>3, <1>4

LEMMA RunKeeps == ASSUME IInv, NEW w \in W, Run(w) PROVE IInv'
  <1>0. Types /\ LaunchInv /\ WorkInv /\ GatherInv /\ LeaveInv
    BY DEF IInv
  <1>1. UNCHANGED <<plan, control, barrier>> /\ at[w] \notin {"idle", "gone"} /\ (at[w] = "start" => start_ = 0)
    BY RunStep
  <1>2. PICK l \in {"run", "call", "close", "exit", "threw"} :
          \E h : /\ at' = [at EXCEPT ![w] = l] /\ hand' = [hand EXCEPT ![w] = h]
                 /\ (h # <<>> => l \in {"run", "threw"})
    BY RunStep
  <1>3. PICK h : /\ at' = [at EXCEPT ![w] = l] /\ hand' = [hand EXCEPT ![w] = h]
                 /\ (h # <<>> => l \in {"run", "threw"})
    BY <1>2
  <1>4. /\ W' = W /\ Begun' = Begun /\ at' \in [Threads -> Places] /\ at'[w] = l
        /\ \A u \in W \ {w} : at'[u] = at[u]
    <2>1. l \in Places \ {"idle"}
      BY DEF Places
    <2> QED
      BY <1>0, <1>1, <1>3, <2>1, BegunStays
  <1>5. W \subseteq Threads
    BY <1>0, Sizes
  <1>6. Types'
    BY <1>0, <1>1, <1>3, <1>4 DEF Types, control, barrier
  <1>7. phase = 0
    BY <1>0, <1>1 DEF LeaveInv, Types
  <1>8. LaunchInv'
    <2>1. start_ # 1
      BY <1>0, <1>1 DEF LaunchInv
    <2> QED
      BY <1>0, <1>1, <1>4, <2>1 DEF LaunchInv, control, barrier
  <1>9. WorkInv'
    <2>1. hand'[w] = h /\ \A u \in W \ {w} : hand'[u] = hand[u]
      BY <1>0, <1>3, <1>5 DEF Types
    <2>2. pc' = pc
      BY <1>1 DEF barrier
    <2> QED
      BY <1>0, <1>1, <1>3, <1>4, <2>1, <2>2 DEF WorkInv
  <1>10. GatherInv'
    <2>1. \A u \in W : at'[u] = "gone" => at[u] = "gone"
      BY <1>4
    <2> QED
      BY <1>0, <1>1, <1>4, <1>7, <2>1 DEF GatherInv, control, barrier
  <1>11. LeaveInv'
    BY <1>1, <1>7 DEF LeaveInv, barrier
  <1> QED
    BY <1>6, <1>8, <1>9, <1>10, <1>11 DEF IInv

\* A worker goes to the barrier.
LEMMA ThreadDoneKeeps == ASSUME IInv, NEW w \in W, ThreadDone(w) PROVE IInv'
  <1>0. Types /\ LaunchInv /\ WorkInv /\ GatherInv /\ LeaveInv
    BY DEF IInv
  <1>1. /\ at[w] = "exit" /\ pc[w] = "out" /\ at' = [at EXCEPT ![w] = "gone"]
        /\ pc' = [pc EXCEPT ![w] = "lock"] /\ op' = [op EXCEPT ![w] = "arrive_and_wait"]
        /\ UNCHANGED <<plan, control, hand>>
        /\ UNCHANGED <<thread_count_, new_thread_count_, num_waiting_, num_to_leave_, mutex_, idle_, ready_>>
        /\ UNCHANGED <<phase, life>>
    BY DEF ThreadDone, Goto, B!Enter, B!counts, B!history
  <1>2. W \subseteq Threads /\ Main \in Threads \ W
    BY <1>0, Sizes
  <1>3. /\ W' = W /\ Begun' = Begun /\ at' \in [Threads -> Places] /\ at'[w] = "gone"
        /\ \A u \in W \ {w} : at'[u] = at[u]
    <2>1. "gone" \in Places \ {"idle"}
      BY DEF Places
    <2> QED
      BY <1>0, <1>1, <2>1, BegunStays
  <1>4. /\ pc'[w] = "lock" /\ \A t \in Threads \ {w} : pc'[t] = pc[t]
        /\ pc' \in [Threads -> {"out", "lock", "blocked", "woken", "unlock"}]
        /\ op' \in [Threads -> {"none", "arrive_and_wait"}]
    BY <1>0, <1>1, <1>2 DEF Types
  <1>5. Types'
    BY <1>0, <1>1, <1>3, <1>4 DEF Types, control
  <1>6. phase = 0
    BY <1>0, <1>1 DEF LeaveInv, Types
  <1>7. LaunchInv'
    <2>1. start_ # 1
      BY <1>0, <1>1 DEF LaunchInv
    <2> QED
      BY <1>0, <1>1, <1>3, <2>1 DEF LaunchInv, control
  <1>8. WorkInv'
    BY <1>0, <1>1, <1>2, <1>3, <1>4 DEF WorkInv
  <1>9. GatherInv'
    <2>1. ready_' = {u \in W : pc'[u] = "blocked"}
      <3>1. ready_ = {u \in W : pc[u] = "blocked"}
        BY <1>0, <1>6 DEF GatherInv
      <3>2. \A u \in W : pc'[u] = "blocked" <=> pc[u] = "blocked"
        BY <1>1, <1>2, <1>4
      <3> QED
        BY <1>1, <3>1, <3>2
    <2>2. pc'[Main] = "out"
      BY <1>0, <1>2, <1>4, <1>6 DEF GatherInv
    <2>3. \A u \in W : pc'[u] \in {"out", "lock", "blocked"} /\ (at'[u] = "gone" => pc'[u] # "out")
      BY <1>0, <1>2, <1>3, <1>4, <1>6 DEF GatherInv
    <2> QED
      BY <1>0, <1>1, <1>3, <1>6, <2>1, <2>2, <2>3 DEF GatherInv, control
  <1>10. LeaveInv'
    BY <1>1, <1>6 DEF LeaveInv
  <1> QED
    BY <1>5, <1>7, <1>8, <1>9, <1>10 DEF IInv

-----------------------------------------------------------------------------
(* The caller and the users of the queues.                                 *)

\* A worker gets its work.
LEMMA ExecuteKeeps == ASSUME IInv, Execute PROVE IInv'
  <1>0. Types /\ LaunchInv /\ WorkInv /\ GatherInv /\ LeaveInv
    BY DEF IInv
  <1>1. PICK id : id = Workers[plan][executed + 1].id
    OBVIOUS
  <1>2. /\ main = "execute" /\ executed < Len(Workers[plan]) /\ executed' = executed + 1
        /\ at' = [at EXCEPT ![id] = "start"] /\ UNCHANGED <<Rest, start_, end_, done_, main, barrier>>
    BY <1>1 DEF Execute, Goto
  <1>3. PICK n \in Nat : n = Len(Workers[plan])
    BY <1>0, Sizes
  <1>4. executed \in 0 .. n - 1 /\ executed + 1 \in 1 .. n /\ executed + 1 \notin 1 .. executed
        /\ 1 .. executed \subseteq 1 .. n /\ 1 .. executed + 1 = (1 .. executed) \cup {executed + 1}
    BY <1>0, <1>2, <1>3 DEF Types
  <1>5. DOMAIN Workers[plan] = 1 .. n /\ W = {Workers[plan][i].id : i \in 1 .. n} /\ Named(Workers[plan])
    BY <1>0, <1>3, WorkerFacts, WorkersNamed DEF Types, W
  <1>6. id \in W
    BY <1>1, <1>4, <1>5
  <1>7. id \notin {Workers[plan][i].id : i \in 1 .. executed}
    BY <1>1, <1>4, <1>5 DEF Named
  <1>8. at[id] = "idle"
    BY <1>0, <1>6, <1>7 DEF LaunchInv, Begun
  <1>9. /\ W' = W /\ at' \in [Threads -> Places] /\ at'[id] = "start" /\ \A u \in W \ {id} : at'[u] = at[u]
    <2>1. id \in Threads /\ W \subseteq Threads
      BY <1>0, <1>6, Sizes
    <2>2. W' = W
      BY <1>2 DEF W, Rest
    <2> QED
      BY <1>0, <1>2, <2>1, <2>2 DEF Types, Places
  <1>10. Begun' = Begun \cup {id}
    BY <1>6, <1>9 DEF Begun
  <1>11. Begun' = {Workers[plan][i].id : i \in 1 .. executed + 1}
    BY <1>0, <1>1, <1>4, <1>10 DEF LaunchInv
  <1>12. Cardinality(Begun') = executed + 1
    <2>1. IsFiniteSet(Begun) /\ id \notin Begun /\ Cardinality(Begun) = executed
      BY <1>0, <1>8, Sizes DEF Begun, LaunchInv
    <2> QED
      BY <1>10, <2>1, FS_AddElement
  <1>13. Types'
    BY <1>0, <1>2, <1>3, <1>4, <1>9 DEF Types, Rest, barrier
  <1>14. LaunchInv'
    <2>1. \A w \in W : at'[w] \in {"idle", "start"}
      BY <1>0, <1>2, <1>9 DEF LaunchInv
    <2> QED
      BY <1>0, <1>2, <1>9, <1>11, <1>12, <2>1 DEF LaunchInv, Rest, barrier
  <1>15. WorkInv'
    <2>1. \A w \in W : hand'[w] = hand[w] /\ pc'[w] = pc[w]
      BY <1>2 DEF Rest, barrier
    <2> QED
      BY <1>0, <1>8, <1>9, <2>1 DEF WorkInv
  <1>16. phase = 0 /\ phase' = 0
    BY <1>0, <1>2 DEF LeaveInv, Types, barrier
  <1>17. GatherInv'
    <2>1. \A w \in W : at'[w] = "gone" => at[w] = "gone"
      BY <1>9
    <2> QED
      BY <1>0, <1>2, <1>9, <1>16, <2>1 DEF GatherInv, barrier
  <1>18. LeaveInv'
    BY <1>16 DEF LeaveInv
  <1> QED
    BY <1>13, <1>14, <1>15, <1>17, <1>18 DEF IInv

\* All have theirs: as many as there are.
LEMMA AllBegun ==
    ASSUME Types, LaunchInv, executed = Len(Workers[plan])
    PROVE  Begun = W /\ executed = Cardinality(W)
  BY WorkerFacts DEF Types, LaunchInv, W

LEMMA CreateBarrierKeeps == ASSUME IInv, CreateBarrier PROVE IInv'
  <1>0. Types /\ LaunchInv /\ WorkInv /\ GatherInv /\ LeaveInv
    BY DEF IInv
  <1>1. /\ main = "execute" /\ executed = Len(Workers[plan]) /\ thread_count_' = executed
        /\ life' = "alive" /\ main' = "start"
        /\ UNCHANGED <<plan, hand, at, executed, start_, end_, done_>>
        /\ UNCHANGED <<num_waiting_, num_to_leave_, mutex_, idle_, ready_, pc, op, phase>>
    BY DEF CreateBarrier, MainGoes, Rest
  <1>2. W' = W /\ Begun' = Begun
    BY <1>1 DEF W, Begun
  <1>3. Types' /\ WorkInv'
    BY <1>0, <1>1, <1>2 DEF Types, WorkInv, Mains
  <1>4. LaunchInv'
    BY <1>0, <1>1, <1>2 DEF LaunchInv
  <1>5. phase = 0
    BY <1>0, <1>1 DEF LeaveInv, Types
  <1>6. GatherInv'
    <2>1. executed = Cardinality(W)
      BY <1>0, <1>1, AllBegun
    <2> QED
      BY <1>0, <1>1, <1>2, <1>5, <2>1 DEF GatherInv
  <1>7. LeaveInv'
    BY <1>1, <1>5 DEF LeaveInv
  <1> QED
    BY <1>3, <1>4, <1>6, <1>7 DEF IInv

LEMMA StartKeeps == ASSUME IInv, Start PROVE IInv'
  <1>0. Types /\ LaunchInv /\ WorkInv /\ GatherInv /\ LeaveInv
    BY DEF IInv
  <1>1. /\ main = "start" /\ start_' = 0 /\ main' \in {"wait", "~wait"}
        /\ UNCHANGED <<plan, hand, at, executed, end_, done_, barrier>>
    BY DEF Start, Rest
  <1>2. W' = W /\ Begun' = Begun
    BY <1>1 DEF W, Begun
  <1>3. Types' /\ WorkInv'
    BY <1>0, <1>1, <1>2 DEF Types, WorkInv, Mains, barrier
  <1>4. LaunchInv'
    BY <1>0, <1>1, <1>2 DEF LaunchInv, barrier
  <1>5. phase = 0
    BY <1>0, <1>1 DEF LeaveInv, Types
  <1>6. GatherInv' /\ LeaveInv'
    BY <1>0, <1>1, <1>2, <1>5 DEF GatherInv, LeaveInv, barrier
  <1> QED
    BY <1>3, <1>4, <1>6 DEF IInv

LEMMA EndWaitKeeps == ASSUME IInv, EndWait PROVE IInv'
  <1>0. Types /\ LaunchInv /\ WorkInv /\ GatherInv /\ LeaveInv
    BY DEF IInv
  <1>1. /\ main \in {"wait", "waited", "~wait"} /\ end_ = 0 /\ main' \in {"arrive", "~arrive"}
        /\ pc[Main] = "out" /\ pc' = [pc EXCEPT ![Main] = "lock"]
        /\ op' = [op EXCEPT ![Main] = "arrive_and_wait"]
        /\ UNCHANGED <<plan, hand, at, executed, start_, end_, done_>>
        /\ UNCHANGED <<thread_count_, new_thread_count_, num_waiting_, num_to_leave_, mutex_, idle_, ready_>>
        /\ UNCHANGED <<phase, life>>
    BY DEF EndWait, MainGoes, Rest, B!Enter, B!counts, B!history
  <1>2. W' = W /\ Begun' = Begun /\ Main \in Threads \ W /\ W \subseteq Threads
    BY <1>0, <1>1, Sizes DEF W, Begun
  <1>3. /\ pc'[Main] = "lock" /\ \A w \in W : pc'[w] = pc[w]
        /\ pc' \in [Threads -> {"out", "lock", "blocked", "woken", "unlock"}]
        /\ op' \in [Threads -> {"none", "arrive_and_wait"}]
    BY <1>0, <1>1, <1>2 DEF Types
  <1>4. Types' /\ WorkInv'
    BY <1>0, <1>1, <1>2, <1>3 DEF Types, WorkInv, Mains
  <1>5. LaunchInv'
    BY <1>0, <1>1, <1>2 DEF LaunchInv
  <1>6. phase > 0
    BY <1>0, <1>1 DEF GatherInv, Types
  <1>7. GatherInv'
    BY <1>1, <1>6 DEF GatherInv
  <1>8. LeaveInv'
    <2>1. Woken' = Woken /\ (AllOut => AllOut')
      BY <1>2, <1>3 DEF Woken, AllOut
    <2>2. pc'[Main] # "blocked" /\ Main \notin idle_
      BY <1>0, <1>1, <1>3, <1>6 DEF LeaveInv
    <2> QED
      BY <1>0, <1>1, <1>2, <1>3, <1>6, <2>1, <2>2 DEF LeaveInv
  <1> QED
    BY <1>4, <1>5, <1>7, <1>8 DEF IInv

LEMMA ArrivedKeeps == ASSUME IInv, Arrived \/ Delete PROVE IInv'
  <1>0. Types /\ LaunchInv /\ WorkInv /\ GatherInv /\ LeaveInv
    BY DEF IInv
  <1>1. /\ \/ main \in {"arrive", "~arrive"} /\ pc[Main] = "out" /\ main' \in {"waited", "delete"} /\ life' = life
           \/ main = "delete" /\ main' = "deleted" /\ life' = "destroyed"
        /\ UNCHANGED <<plan, hand, at, executed, start_, end_, done_>>
        /\ UNCHANGED <<thread_count_, new_thread_count_, num_waiting_, num_to_leave_, mutex_, idle_, ready_>>
        /\ UNCHANGED <<pc, op, phase>>
    BY DEF Arrived, Delete, MainGoes, Rest, barrier
  <1>2. W' = W /\ Begun' = Begun /\ Woken' = Woken /\ AllOut' = AllOut
    BY <1>1 DEF W, Begun, Woken, AllOut
  <1>3. phase > 0
    BY <1>0, <1>1 DEF GatherInv, Types
  <1>4. AllOut /\ pc[Main] = "out"
    BY <1>0, <1>1, <1>3 DEF LeaveInv
  <1>5. Types' /\ WorkInv'
    BY <1>0, <1>1, <1>2 DEF Types, WorkInv, Mains
  <1>6. LaunchInv'
    BY <1>0, <1>1, <1>2 DEF LaunchInv
  <1>7. GatherInv' /\ LeaveInv'
    BY <1>0, <1>1, <1>2, <1>3, <1>4 DEF GatherInv, LeaveInv
  <1> QED
    BY <1>5, <1>6, <1>7 DEF IInv

\* Whoever fills or empties a queue, and a step that changes nothing.
LEMMA UserKeeps == ASSUME IInv, Feed \/ Read \/ UNCHANGED vars PROVE IInv'
  <1>1. UNCHANGED <<plan, control, worker, barrier>>
    BY DEF Feed, Read, vars
  <1>2. W' = W /\ Begun' = Begun /\ Woken' = Woken /\ AllOut' = AllOut
    BY <1>1 DEF W, Begun, Woken, AllOut, worker, barrier
  <1>3. Types' /\ WorkInv'
    BY <1>1, <1>2 DEF IInv, Types, WorkInv, control, worker, barrier
  <1>4. LaunchInv'
    BY <1>1, <1>2 DEF IInv, LaunchInv, control, worker, barrier
  <1>5. GatherInv'
    BY <1>1, <1>2 DEF IInv, GatherInv, control, worker, barrier
  <1>6. LeaveInv'
    BY <1>1, <1>2 DEF IInv, LeaveInv, control, worker, barrier
  <1> QED
    BY <1>3, <1>4, <1>5, <1>6 DEF IInv

-----------------------------------------------------------------------------
(* The barrier.                                                            *)

Stops == {"out", "lock", "blocked", "woken", "unlock"}

\* What no step of the barrier's disturbs.
LEMMA BarrierFrame ==
    ASSUME IInv, NEW t \in Threads, BarrierStep(t)
    PROVE  /\ UNCHANGED <<plan, hand, at, executed, start_, main, life>>
           /\ W' = W /\ LaunchInv'
           /\ pc' \in [Threads -> Stops] /\ op' \in [Threads -> {"none", "arrive_and_wait"}] /\ phase' \in Nat
                 => Types'
           /\ (\A w \in W : pc'[w] # "out" => pc[w] # "out") => WorkInv'
  <1>1. UNCHANGED <<plan, hand, at, executed, start_, main>> /\ life' = life
    BY DEF BarrierStep, Rest, B!Step, B!WaitIdle, B!arrive_and_wait, B!Woken, B!Unlock, B!arrive_and_drop
  <1>2. W' = W /\ Begun' = Begun
    BY <1>1 DEF W, Begun
  <1>3. LaunchInv'
    BY <1>1, <1>2 DEF IInv, LaunchInv
  <1>4. pc' \in [Threads -> Stops] /\ op' \in [Threads -> {"none", "arrive_and_wait"}] /\ phase' \in Nat
          => Types'
    BY <1>1 DEF IInv, Types, Stops
  <1>5. (\A w \in W : pc'[w] # "out" => pc[w] # "out") => WorkInv'
    BY <1>1, <1>2 DEF IInv, WorkInv
  <1> QED
    BY <1>1, <1>2, <1>3, <1>4, <1>5

\* Who is in the barrier, by phase.
LEMMA Inside ==
    ASSUME IInv, NEW t \in W \cup {Main}, pc[t] # "out"
    PROVE  /\ t \in Threads /\ W \subseteq Threads /\ Main \in Threads \ W
           /\ phase = 0 => t \in W /\ pc[t] \in {"lock", "blocked"} /\ at[t] = "gone" /\ main \in {"wait", "~wait"}
           /\ phase > 0 => /\ pc[t] \in {"lock", "blocked"} => t = Main
                           /\ pc[t] = "woken" => t \in W
  <1>0. Types /\ LaunchInv /\ WorkInv /\ GatherInv /\ LeaveInv
    BY DEF IInv
  <1>1. t \in Threads /\ W \subseteq Threads /\ Main \in Threads \ W
    BY <1>0, Sizes
  <1>2. ASSUME phase = 0 PROVE t \in W /\ pc[t] \in {"lock", "blocked"} /\ at[t] = "gone" /\ main \in {"wait", "~wait"}
    <2>1. t \in W /\ pc[t] \in {"lock", "blocked"}
      BY <1>0, <1>2 DEF GatherInv
    <2>2. at[t] = "gone"
      BY <1>0, <2>1 DEF WorkInv
    <2>3. start_ # 1
      BY <1>0, <2>1, <2>2 DEF LaunchInv
    <2> QED
      BY <1>0, <1>2, <2>1, <2>2, <2>3 DEF LaunchInv, GatherInv
  <1>3. ASSUME phase > 0 PROVE (pc[t] \in {"lock", "blocked"} => t = Main) /\ (pc[t] = "woken" => t \in W)
    BY <1>0, <1>3 DEF LeaveInv
  <1> QED
    BY <1>1, <1>2, <1>3

LEMMA WaitIdleKeeps == ASSUME IInv, NEW t \in W \cup {Main}, BarrierStep(t), B!WaitIdle(t) PROVE IInv'
  <1>0. Types /\ LaunchInv /\ WorkInv /\ GatherInv /\ LeaveInv
    BY DEF IInv
  <1>1. /\ pc[t] = "lock" /\ num_to_leave_ # 0 /\ idle_' = idle_ \cup {t}
        /\ pc' = [u \in Threads |-> IF u = t THEN "blocked" ELSE pc[u]]
        /\ UNCHANGED <<thread_count_, new_thread_count_, num_waiting_, num_to_leave_, mutex_, ready_, op, phase>>
    BY DEF B!WaitIdle, B!Moved, B!counts, B!history, B!all_threads_exited
  <1>2. phase > 0
    BY <1>0, <1>1 DEF GatherInv, Types
  <1>3. t = Main /\ Main \in Threads \ W /\ W \subseteq Threads
    BY <1>1, <1>2, Inside
  <1>4. UNCHANGED <<at, main, done_, end_>> /\ W' = W /\ LaunchInv'
    BY <1>1, <1>3, BarrierFrame DEF BarrierStep
  <1>5. pc'[Main] = "blocked" /\ \A w \in W : pc'[w] = pc[w]
    BY <1>1, <1>3
  <1>6. Types' /\ WorkInv'
    <2>1. pc' \in [Threads -> Stops]
      BY <1>0, <1>1 DEF Types, Stops
    <2> QED
      BY <1>0, <1>1, <1>3, <1>5, <2>1, BarrierFrame DEF Types
  <1>7. GatherInv'
    BY <1>1, <1>2 DEF GatherInv
  <1>8. LeaveInv'
    <2>1. Woken' = Woken /\ (AllOut => AllOut')
      BY <1>4, <1>5 DEF Woken, AllOut
    <2>2. num_to_leave_ > 0
      <3>1. num_to_leave_ \in Nat
        BY <1>0, <1>2, Sizes DEF LeaveInv, Woken
      <3> QED
        BY <1>1, <3>1
    <2>3. main \in {"arrive", "~arrive"}
      BY <1>0, <1>1, <1>2, <1>3 DEF LeaveInv
    <2> QED
      BY <1>0, <1>1, <1>2, <1>3, <1>4, <1>5, <2>1, <2>2, <2>3 DEF LeaveInv
  <1> QED
    BY <1>4, <1>6, <1>7, <1>8 DEF IInv

LEMMA UnlockKeeps == ASSUME IInv, NEW t \in W \cup {Main}, BarrierStep(t), B!Unlock(t) PROVE IInv'
  <1>0. Types /\ LaunchInv /\ WorkInv /\ GatherInv /\ LeaveInv
    BY DEF IInv
  <1>1. t \in Threads /\ W \subseteq Threads /\ Main \in Threads \ W /\ NoThread \notin Threads
    BY <1>0, Sizes
  <1>2. /\ pc[t] = "unlock" /\ mutex_' = NoThread /\ op' = [op EXCEPT ![t] = "none"]
        /\ pc' = [pc EXCEPT ![t] = "out"]
        /\ UNCHANGED <<thread_count_, new_thread_count_, num_waiting_, num_to_leave_, idle_, ready_, phase>>
    <2>1. op[t] # "arrive_and_drop"
      BY <1>0, <1>1 DEF Types
    <2> QED
      BY <2>1 DEF B!Unlock, B!counts, B!history
  <1>3. phase > 0
    BY <1>0, <1>2, Inside DEF Types
  <1>4. UNCHANGED <<at, main, done_, end_>> /\ W' = W /\ LaunchInv'
    BY <1>1, <1>2, BarrierFrame DEF BarrierStep
  <1>5. pc'[t] = "out" /\ \A u \in Threads \ {t} : pc'[u] = pc[u]
    BY <1>0, <1>1, <1>2 DEF Types
  <1>6. Types' /\ WorkInv'
    <2>1. pc' \in [Threads -> Stops] /\ op' \in [Threads -> {"none", "arrive_and_wait"}]
      BY <1>0, <1>1, <1>2 DEF Types, Stops
    <2> QED
      BY <1>0, <1>1, <1>2, <1>5, <2>1, BarrierFrame DEF Types
  <1>7. GatherInv'
    BY <1>2, <1>3 DEF GatherInv
  <1>8. LeaveInv'
    <2>1. Woken' = Woken
      BY <1>1, <1>2, <1>4, <1>5 DEF Woken
    <2>2. AllOut => AllOut'
      BY <1>1, <1>4, <1>5 DEF AllOut
    <2>3. \A w \in W : pc'[w] \in {"woken", "out"}
      <3>1. ASSUME NEW w \in W PROVE pc'[w] # "unlock"
        <4>1. CASE t = w
          BY <1>5, <4>1
        <4>2. CASE t \in W \ {w}
          BY <1>0, <1>1, <1>2, <1>3, <1>5, <4>2 DEF LeaveInv
        <4>3. CASE t = Main
          BY <1>0, <1>1, <1>2, <1>3, <1>5, <4>3 DEF LeaveInv, AllOut
        <4> QED
          BY <4>1, <4>2, <4>3
      <3> QED
        BY <1>0, <1>1, <1>3, <1>5, <3>1 DEF LeaveInv
    <2>4. /\ pc'[Main] = "blocked" <=> Main \in idle_
          /\ pc'[Main] # "woken" /\ (pc'[Main] = "unlock" => AllOut)
          /\ pc'[Main] # "out" => main \in {"arrive", "~arrive"}
      BY <1>0, <1>1, <1>2, <1>3, <1>5 DEF LeaveInv
    <2>5. main \in {"arrive", "~arrive"} /\ pc'[Main] = "out" => AllOut
      BY <1>0, <1>1, <1>2, <1>3, <1>5 DEF LeaveInv
    <2>6. /\ done_' = TRUE /\ end_' = 0 /\ main' \notin {"execute", "start"}
          /\ ready_' = {} /\ idle_' \subseteq {Main} /\ num_to_leave_' = Cardinality(Woken)
          /\ num_to_leave_' > 0 => num_waiting_' = thread_count_' /\ new_thread_count_' = 1
          /\ num_to_leave_' = 0 => num_waiting_' = 0 /\ thread_count_' = 1 /\ idle_' = {}
          /\ main' \in {"waited", "delete", "deleted"} => AllOut
          /\ \A w \in W : at'[w] = "gone"
      BY <1>0, <1>2, <1>3, <1>4 DEF LeaveInv
    <2> QED
      BY <1>2, <1>4, <2>1, <2>2, <2>3, <2>4, <2>5, <2>6 DEF LeaveInv
  <1> QED
    BY <1>4, <1>6, <1>7, <1>8 DEF IInv

LEMMA WokenKeeps == ASSUME IInv, NEW t \in W \cup {Main}, BarrierStep(t), B!Woken(t) PROVE IInv'
  <1>0. Types /\ LaunchInv /\ WorkInv /\ GatherInv /\ LeaveInv
    BY DEF IInv
  <1>1. pc[t] = "woken" /\ mutex_ = NoThread
    BY DEF B!Woken
  <1>2. phase > 0 /\ t \in W /\ t \in Threads /\ W \subseteq Threads /\ Main \in Threads \ W /\ NoThread \notin Threads
    BY <1>0, <1>1, Inside, Sizes DEF Types
  <1>3. /\ IsFiniteSet(Woken) /\ t \in Woken /\ num_to_leave_ = Cardinality(Woken) /\ num_to_leave_ \in Nat \ {0}
        /\ Cardinality(Woken \ {t}) = num_to_leave_ - 1
        /\ num_to_leave_ = 1 => Woken \ {t} = {}
    <2>1. Woken \subseteq W /\ t \in Woken /\ num_to_leave_ = Cardinality(Woken)
      BY <1>0, <1>1, <1>2 DEF Woken, LeaveInv
    <2>2. IsFiniteSet(Woken) /\ Cardinality(Woken) \in Nat /\ Cardinality(Woken) # 0
      BY <1>0, <2>1, Sizes
    <2>3. Cardinality(Woken \ {t}) = Cardinality(Woken) - 1
      BY <2>1, <2>2, FS_RemoveElement
    <2>4. Cardinality(Woken \ {t}) = 0 => Woken \ {t} = {}
      BY <1>0, <2>1, Sizes
    <2> QED
      BY <2>1, <2>2, <2>3, <2>4
  <1>4. num_waiting_ = thread_count_ /\ new_thread_count_ = 1
    BY <1>0, <1>2, <1>3 DEF LeaveInv
  <1>5. /\ thread_count_' = IF num_to_leave_ = 1 THEN 1 ELSE thread_count_
        /\ num_waiting_' = IF num_to_leave_ = 1 THEN 0 ELSE num_waiting_
        /\ idle_' = IF num_to_leave_ = 1 THEN {} ELSE idle_
        /\ num_to_leave_' = num_to_leave_ - 1 /\ mutex_' = t
        /\ pc' = [u \in Threads |-> IF u = t THEN "unlock"
                                    ELSE IF u \in IF num_to_leave_ = 1 THEN idle_ ELSE {} THEN "lock" ELSE pc[u]]
        /\ UNCHANGED <<new_thread_count_, ready_, op, phase>>
    BY <1>4 DEF B!Woken, B!Moved, B!history, B!all_threads_waiting
  <1>6. UNCHANGED <<at, main, done_, end_>> /\ W' = W /\ LaunchInv'
    BY <1>2, <1>5, BarrierFrame DEF BarrierStep
  <1>7. /\ pc'[t] = "unlock" /\ \A w \in W \ {t} : pc'[w] = pc[w]
        /\ pc'[Main] = IF num_to_leave_ = 1 /\ Main \in idle_ THEN "lock" ELSE pc[Main]
    <2>1. idle_ \subseteq {Main}
      BY <1>0, <1>2 DEF LeaveInv
    <2> QED
      BY <1>2, <1>5, <2>1
  <1>8. Types' /\ WorkInv'
    <2>1. pc' \in [Threads -> Stops]
      BY <1>0, <1>5 DEF Types, Stops
    <2> QED
      BY <1>0, <1>1, <1>2, <1>5, <1>7, <2>1, BarrierFrame DEF Types
  <1>9. GatherInv'
    BY <1>2, <1>5 DEF GatherInv
  <1>10. LeaveInv'
    <2>1. Woken' = Woken \ {t}
      BY <1>2, <1>6, <1>7 DEF Woken
    <2>2. ~AllOut
      BY <1>1, <1>2 DEF AllOut
    <2>3. \A w \in W : pc'[w] \in {"woken", "unlock", "out"} /\ (pc'[w] = "unlock" => mutex_' = w)
      BY <1>0, <1>1, <1>2, <1>5, <1>7 DEF LeaveInv
    <2>4. /\ main \notin {"execute", "start", "waited", "delete", "deleted"}
          /\ pc[Main] # "unlock" /\ pc[Main] # "woken" /\ (main \in {"arrive", "~arrive"} => pc[Main] # "out")
          /\ (pc[Main] # "out" => main \in {"arrive", "~arrive"}) /\ (pc[Main] = "blocked" <=> Main \in idle_)
          /\ idle_ \subseteq {Main} /\ ready_ = {}
      BY <1>0, <1>2, <2>2 DEF LeaveInv
    <2>5. /\ pc'[Main] = "blocked" <=> Main \in idle_'
          /\ pc'[Main] # "woken" /\ pc'[Main] # "unlock"
          /\ pc'[Main] # "out" => main \in {"arrive", "~arrive"}
          /\ main \in {"arrive", "~arrive"} => pc'[Main] # "out"
      BY <1>5, <1>7, <2>4
    <2>6. /\ num_to_leave_' = Cardinality(Woken') /\ idle_' \subseteq {Main} /\ ready_' = {}
          /\ num_to_leave_' > 0 => num_waiting_' = thread_count_' /\ new_thread_count_' = 1
          /\ num_to_leave_' = 0 => num_waiting_' = 0 /\ thread_count_' = 1 /\ idle_' = {}
      BY <1>3, <1>4, <1>5, <2>1, <2>4
    <2>7. done_' = TRUE /\ end_' = 0 /\ \A w \in W : at'[w] = "gone"
      BY <1>0, <1>2, <1>6 DEF LeaveInv
    <2> QED
      BY <1>5, <1>6, <2>3, <2>4, <2>5, <2>6, <2>7 DEF LeaveInv
  <1> QED
    BY <1>6, <1>8, <1>9, <1>10 DEF IInv

\* The completion function returns one.
LEMMA Arrives ==
    ASSUME NEW t, BarrierStep(t), B!arrive_and_wait(t)
    PROVE  /\ pc[t] = "lock" /\ mutex_ = NoThread /\ num_to_leave_ = 0 /\ op' = op
           /\ \/ B!ArriveEarly(t)
              \/ /\ B!ArriveLast(t) /\ new_thread_count_' = 1
  <1>1. ~B!ArriveThrows(t)
    BY DEF B!ArriveThrows, B!CompletionThrows
  <1>2. B!ArriveLast(t) => new_thread_count_' = 1
    <2>1. B!on_countdown(thread_count_) = {1}
      BY DEF B!on_countdown
    <2> QED
      BY <2>1 DEF B!ArriveLast
  <1> QED
    BY <1>1, <1>2 DEF B!arrive_and_wait, B!all_threads_exited

\* The first phase: a worker joins those that wait.
LEMMA GathersEarly ==
    ASSUME IInv, phase = 0, NEW t \in W, BarrierStep(t), B!arrive_and_wait(t), B!ArriveEarly(t)
    PROVE  IInv'
  <1>0. Types /\ LaunchInv /\ WorkInv /\ GatherInv /\ LeaveInv
    BY DEF IInv
  <1>1. pc[t] = "lock" /\ op' = op
    BY Arrives
  <1>2. /\ num_waiting_' = num_waiting_ + 1 /\ ready_' = ready_ \cup {t}
        /\ pc' = [u \in Threads |-> IF u = t THEN "blocked" ELSE pc[u]]
        /\ UNCHANGED <<thread_count_, new_thread_count_, num_to_leave_, mutex_, idle_, phase>>
    BY DEF B!ArriveEarly, B!Moved
  <1>3. W \subseteq Threads /\ Main \in Threads \ W /\ at[t] = "gone"
    BY <1>0, <1>1, Inside
  <1>4. UNCHANGED <<at, main, done_, end_>> /\ W' = W /\ LaunchInv'
    BY <1>2, <1>3, BarrierFrame DEF BarrierStep
  <1>5. pc'[t] = "blocked" /\ \A u \in Threads \ {t} : pc'[u] = pc[u]
    BY <1>2, <1>3
  <1>6. Types' /\ WorkInv'
    <2>1. pc' \in [Threads -> Stops]
      BY <1>0, <1>2 DEF Types, Stops
    <2> QED
      BY <1>0, <1>1, <1>2, <1>3, <1>5, <2>1, BarrierFrame DEF Types
  <1>7. GatherInv'
    <2>1. ready_ = {w \in W : pc[w] = "blocked"} /\ num_waiting_ = Cardinality(ready_)
      BY <1>0 DEF GatherInv
    <2>2. ready_' = {w \in W : pc'[w] = "blocked"}
      BY <1>2, <1>3, <1>5, <2>1
    <2>3. num_waiting_' = Cardinality(ready_')
      <3>1. IsFiniteSet(ready_) /\ t \notin ready_
        BY <1>0, <1>1, <2>1, Sizes
      <3> QED
        BY <1>2, <2>1, <3>1, FS_AddElement
    <2>4. pc'[Main] = "out" /\ \A w \in W : pc'[w] \in {"out", "lock", "blocked"} /\ (at[w] = "gone" => pc'[w] # "out")
      BY <1>0, <1>3, <1>5 DEF GatherInv
    <2> QED
      BY <1>0, <1>2, <1>4, <2>2, <2>3, <2>4 DEF GatherInv
  <1>8. LeaveInv'
    BY <1>2 DEF LeaveInv
  <1> QED
    BY <1>4, <1>6, <1>7, <1>8 DEF IInv

\* ... and the last of them completes it.
LEMMA GathersLast ==
    ASSUME IInv, phase = 0, NEW t \in W, BarrierStep(t), B!arrive_and_wait(t),
           B!ArriveLast(t), new_thread_count_' = 1
    PROVE  IInv'
  <1>0. Types /\ LaunchInv /\ WorkInv /\ GatherInv /\ LeaveInv
    BY DEF IInv
  <1>1. pc[t] = "lock" /\ mutex_ = NoThread /\ op' = op
    BY Arrives
  <1>2. /\ W \subseteq Threads /\ Main \in Threads \ W /\ NoThread \notin Threads
        /\ at[t] = "gone" /\ main \in {"wait", "~wait"}
    BY <1>0, <1>1, Inside, Sizes
  <1>3. /\ done_ = FALSE /\ end_ = 1 /\ idle_ = {} /\ pc[Main] = "out" /\ thread_count_ = Cardinality(W)
        /\ ready_ = {w \in W : pc[w] = "blocked"} /\ num_waiting_ = Cardinality(ready_)
    BY <1>0, <1>2 DEF GatherInv
  <1>4. num_waiting_ + 1 = thread_count_
    BY DEF B!ArriveLast
  <1>5. /\ IsFiniteSet(ready_) /\ Cardinality(ready_) \in Nat /\ t \notin ready_
        /\ (Cardinality(ready_) = 0 <=> ready_ = {}) /\ ready_ \cup {t} = W
    <2>1. ready_ \subseteq W /\ t \notin ready_ /\ ready_ \cup {t} \subseteq W
      BY <1>1, <1>3
    <2>2. IsFiniteSet(ready_) /\ Cardinality(ready_) \in Nat /\ (Cardinality(ready_) = 0 <=> ready_ = {})
      BY <1>0, <2>1, Sizes
    <2>3. Cardinality(ready_ \cup {t}) = Cardinality(W)
      BY <1>3, <1>4, <2>1, <2>2, FS_AddElement
    <2>4. ready_ \cup {t} = W
      BY <1>0, <2>1, <2>3, Sizes
    <2> QED
      BY <2>1, <2>2, <2>4
  <1>6. /\ num_to_leave_' = Cardinality(ready_) /\ ready_' = {} /\ idle_' = {} /\ mutex_' = t /\ phase' = 1
        /\ num_to_leave_' = 0 => num_waiting_' = 0 /\ thread_count_' = 1
        /\ num_to_leave_' > 0 => num_waiting_' = thread_count_'
        /\ pc' = [u \in Threads |-> IF u = t THEN "unlock" ELSE IF u \in ready_ THEN "woken" ELSE pc[u]]
    <2>1. CASE thread_count_ = 1
      <3>1. Cardinality(ready_) = 0 /\ ready_ = {}
        BY <1>3, <1>4, <1>5, <2>1
      <3>2. /\ num_to_leave_' = 0 /\ ready_' = {} /\ idle_' = {} /\ mutex_' = t /\ phase' = phase + 1
            /\ num_waiting_' = 0 /\ thread_count_' = new_thread_count_'
            /\ pc' = [u \in Threads |-> IF u = t THEN "unlock" ELSE IF u \in ready_ THEN "woken"
                                        ELSE IF u \in idle_ THEN "lock" ELSE pc[u]]
        BY <2>1 DEF B!ArriveLast, B!Moved
      <3>3. pc' = [u \in Threads |-> IF u = t THEN "unlock" ELSE IF u \in ready_ THEN "woken" ELSE pc[u]]
        BY <1>3, <3>2
      <3> QED
        BY <3>1, <3>2, <3>3
    <2>2. CASE thread_count_ # 1
      <3>1. /\ num_to_leave_' = thread_count_ - 1 /\ ready_' = {} /\ idle_' = idle_ /\ mutex_' = t
            /\ phase' = phase + 1 /\ num_waiting_' = num_waiting_ + 1 /\ thread_count_' = thread_count_
            /\ pc' = [u \in Threads |-> IF u = t THEN "unlock" ELSE IF u \in ready_ THEN "woken"
                                        ELSE IF u \in {} THEN "lock" ELSE pc[u]]
        BY <2>2 DEF B!ArriveLast, B!Moved
      <3>2. Cardinality(ready_) # 0 /\ num_to_leave_' = Cardinality(ready_)
        BY <1>3, <1>4, <1>5, <2>2, <3>1
      <3>3. pc' = [u \in Threads |-> IF u = t THEN "unlock" ELSE IF u \in ready_ THEN "woken" ELSE pc[u]]
        BY <3>1
      <3> QED
        BY <1>3, <1>4, <1>5, <3>1, <3>2, <3>3
    <2> QED
      BY <2>1, <2>2
  <1>7. UNCHANGED <<at, main>> /\ W' = W /\ LaunchInv' /\ done_' = TRUE /\ end_' = 0
    <2>1. all_threads_done
      BY <1>6 DEF BarrierStep
    <2> QED
      BY <1>2, <1>3, <2>1, BarrierFrame DEF all_threads_done
  <1>8. /\ pc'[t] = "unlock" /\ pc'[Main] = "out" /\ \A w \in W \ {t} : pc'[w] = "woken"
    BY <1>2, <1>3, <1>5, <1>6
  <1>9. Types' /\ WorkInv'
    <2>1. pc' \in [Threads -> Stops]
      BY <1>0, <1>6 DEF Types, Stops
    <2>2. \A w \in W : pc[w] # "out"
      BY <1>1, <1>3, <1>5
    <2> QED
      BY <1>0, <1>1, <1>2, <1>6, <2>1, <2>2, BarrierFrame DEF Types
  <1>10. GatherInv'
    BY <1>6 DEF GatherInv
  <1>11. LeaveInv'
    <2>1. Woken' = ready_
      BY <1>5, <1>7, <1>8 DEF Woken
    <2>2. \A w \in W : at'[w] = "gone"
      <3>1. ASSUME NEW w \in ready_ PROVE at[w] = "gone"
        <4>1. w \in W /\ pc[w] = "blocked"
          BY <1>3, <3>1
        <4> QED
          BY <1>0, <4>1 DEF WorkInv
      <3> QED
        BY <1>2, <1>5, <1>7, <3>1
    <2>3. \A w \in W : pc'[w] \in {"woken", "unlock", "out"} /\ (pc'[w] = "unlock" => mutex_' = w)
      BY <1>6, <1>8
    <2> QED
      BY <1>2, <1>6, <1>7, <1>8, <2>1, <2>2, <2>3 DEF LeaveInv
  <1> QED
    BY <1>7, <1>9, <1>10, <1>11 DEF IInv

\* After it the caller passes alone, when all workers are out.
LEMMA CallerArrives ==
    ASSUME IInv, phase > 0, BarrierStep(Main), B!arrive_and_wait(Main)
    PROVE  IInv'
  <1>0. Types /\ LaunchInv /\ WorkInv /\ GatherInv /\ LeaveInv
    BY DEF IInv
  <1>1. pc[Main] = "lock" /\ mutex_ = NoThread /\ num_to_leave_ = 0 /\ op' = op
    BY Arrives
  <1>2. W \subseteq Threads /\ Main \in Threads \ W /\ NoThread \notin Threads
    BY <1>0, Sizes
  <1>3. num_waiting_ = 0 /\ thread_count_ = 1 /\ idle_ = {} /\ ready_ = {} /\ main \in {"arrive", "~arrive"}
    BY <1>0, <1>1 DEF LeaveInv
  <1>4. B!ArriveLast(Main) /\ new_thread_count_' = 1
    <2>1. ~B!ArriveEarly(Main)
      BY <1>3 DEF B!ArriveEarly
    <2> QED
      BY <2>1, Arrives
  <1>5. /\ thread_count_' = 1 /\ num_waiting_' = 0 /\ num_to_leave_' = 0 /\ idle_' = {} /\ ready_' = {}
        /\ mutex_' = Main /\ phase' = phase + 1
        /\ pc' = [u \in Threads |-> IF u = Main THEN "unlock" ELSE pc[u]]
    <2>1. /\ thread_count_' = new_thread_count_' /\ num_waiting_' = 0 /\ num_to_leave_' = 0
          /\ idle_' = {} /\ ready_' = {} /\ mutex_' = Main /\ phase' = phase + 1
          /\ pc' = [u \in Threads |-> IF u = Main THEN "unlock" ELSE IF u \in ready_ THEN "woken"
                                      ELSE IF u \in idle_ THEN "lock" ELSE pc[u]]
      BY <1>3, <1>4 DEF B!ArriveLast, B!Moved
    <2>2. pc' = [u \in Threads |-> IF u = Main THEN "unlock" ELSE pc[u]]
      BY <1>3, <2>1
    <2> QED
      BY <1>4, <2>1, <2>2
  <1>6. UNCHANGED <<at, main>> /\ W' = W /\ LaunchInv' /\ done_' = TRUE /\ end_' = 0
    <2>1. phase' # phase /\ done_ = TRUE /\ end_ = 0
      BY <1>0, <1>5 DEF LeaveInv, Types
    <2>2. all_threads_done
      BY <2>1 DEF BarrierStep
    <2> QED
      BY <1>2, <2>1, <2>2, BarrierFrame DEF all_threads_done
  <1>7. pc'[Main] = "unlock" /\ \A w \in W : pc'[w] = pc[w]
    BY <1>2, <1>5
  <1>8. Types' /\ WorkInv'
    <2>1. pc' \in [Threads -> Stops]
      BY <1>0, <1>5 DEF Types, Stops
    <2> QED
      BY <1>0, <1>1, <1>2, <1>5, <1>7, <2>1, BarrierFrame DEF Types
  <1>9. GatherInv'
    BY <1>0, <1>5 DEF GatherInv, Types
  <1>10. LeaveInv'
    <2>1. Woken = {} /\ Cardinality(Woken) = 0
      BY <1>0, <1>1, Sizes DEF LeaveInv, Woken
    <2>2. AllOut
      BY <1>0, <1>1, <1>2, <2>1 DEF AllOut, Woken, LeaveInv
    <2>3. Woken' = {} /\ AllOut'
      BY <1>6, <1>7, <2>2 DEF Woken, AllOut
    <2>4. \A w \in W : at'[w] = "gone" /\ pc'[w] = "out"
      BY <1>0, <1>6, <1>7, <2>2 DEF AllOut, LeaveInv
    <2>5. num_to_leave_' = Cardinality(Woken')
      BY <1>5, <2>1, <2>3
    <2> QED
      BY <1>3, <1>4, <1>5, <1>6, <1>7, <2>3, <2>4, <2>5 DEF LeaveInv
  <1> QED
    BY <1>6, <1>8, <1>9, <1>10 DEF IInv

LEMMA BarrierKeeps == ASSUME IInv, NEW t \in W \cup {Main}, BarrierStep(t) PROVE IInv'
  <1>1. CASE B!arrive_and_wait(t)
    <2>1. pc[t] = "lock" /\ (B!ArriveEarly(t) \/ (B!ArriveLast(t) /\ new_thread_count_' = 1))
      BY <1>1, Arrives
    <2>2. CASE phase = 0
      <3>1. t \in W
        BY <2>1, <2>2, Inside
      <3> QED
        BY <1>1, <2>1, <2>2, <3>1, GathersEarly, GathersLast
    <2>3. CASE phase > 0
      <3>1. t = Main
        BY <2>1, <2>3, Inside
      <3> QED
        BY <1>1, <2>3, <3>1, CallerArrives
    <2> QED
      BY <2>2, <2>3 DEF IInv, Types
  <1>2. ~B!arrive_and_drop(t)
    <2>1. t \in Threads
      BY Sizes DEF IInv
    <2> QED
      BY <2>1 DEF B!arrive_and_drop, IInv, Types
  <1> QED
    BY <1>1, <1>2, WaitIdleKeeps, WokenKeeps, UnlockKeeps DEF BarrierStep, B!Step

-----------------------------------------------------------------------------

\* The barrier is there for every worker that comes to thread_done() until all
\* of them are out of it, and wait() and ~execution return only when they are,
\* whatever the plan and however the workers, the caller and the users of the
\* queues interleave (pipeline.h: thread_done, all_threads_done, wait).
THEOREM BarrierSpansExitCorrect == Spec => []BarrierSpansExit
  <1>1. Init => IInv
    BY InitInv
  <1>2. IInv /\ [Next]_vars => IInv'
    <2> SUFFICES ASSUME IInv, [Next]_vars PROVE IInv'
      OBVIOUS
    <2>1. ASSUME NEW w \in Ids(plan), Run(w) \/ ThreadDone(w) \/ BarrierStep(w) PROVE IInv'
      BY <2>1, RunKeeps, ThreadDoneKeeps, BarrierKeeps DEF W
    <2>2. CASE BarrierStep(Main)
      BY <2>2, BarrierKeeps
    <2>3. CASE Execute \/ CreateBarrier \/ Start \/ EndWait \/ Arrived \/ Delete
      BY <2>3, ExecuteKeeps, CreateBarrierKeeps, StartKeeps, EndWaitKeeps, ArrivedKeeps
    <2>4. CASE Feed \/ Read \/ UNCHANGED vars
      BY <2>4, UserKeeps
    <2> QED
      BY <2>1, <2>2, <2>3, <2>4 DEF Next
  <1>3. IInv => BarrierSpansExit
    BY InvSpansExit
  <1> QED
    BY <1>1, <1>2, <1>3, PTL DEF Spec

-----------------------------------------------------------------------------
(* QueueEnds.                                                              *)

EndsTypes ==
    /\ end \in [QE!Ends -> {"none", "refers", "null", "close", "other", "delete"}]
    /\ bk_ \in Nat /\ ft_ \in Nat /\ deletes \in Nat /\ endsClosed \in BOOLEAN

\* The counts are exact between two steps.
EndsCounts == bk_ = Cardinality(QE!Refers(Backs)) /\ ft_ = Cardinality(QE!Refers(Fronts))

\* Where no end of a kind is left, none will be again: a copy or a move needs
\* one to start from.
EndsGone ==
    /\ \A e \in QE!Ends : end[e] \in {"close", "other", "delete"} =>
         (e \in Backs => bk_ = 0) /\ (e \in Fronts => ft_ = 0)
    /\ \A e \in QE!Ends : end[e] = "delete" => bk_ = 0 /\ ft_ = 0
    /\ deletes > 0 => bk_ = 0 /\ ft_ = 0

EndsInv == EndsTypes /\ EndsCounts /\ EndsGone /\ QE!LastEndCloses

-----------------------------------------------------------------------------
(* The ends that refer to the queue.                                       *)

\* QueueEnds reads FiniteSets as this module does.
LEMMA SameSizes ==
    \A S : QE!Cardinality(S) = Cardinality(S) /\ QE!IsFiniteSet(S) = IsFiniteSet(S)
  BY DEF QE!Cardinality, Cardinality, QE!IsFiniteSet, IsFiniteSet

LEMMA RefersFinite ==
    ASSUME NEW K \in {Backs, Fronts}
    PROVE  /\ IsFiniteSet(QE!Refers(K)) /\ Cardinality(QE!Refers(K)) \in Nat
           /\ IsFiniteSet(QE!Refers(K)') /\ Cardinality(QE!Refers(K)') \in Nat
           /\ Cardinality(QE!Refers(K)) = 0 <=> QE!Refers(K) = {}
           /\ Cardinality(QE!Refers(K)') = 0 <=> QE!Refers(K)' = {}
  <1>1. QE!Refers(K) \subseteq QE!Ends /\ QE!Refers(K)' \subseteq QE!Ends
    BY DEF QE!Refers, QE!Ends
  <1>2. IsFiniteSet(QE!Ends)
    BY SameSizes, EndsAssumption DEF QE!ConstantsOK
  <1> QED
    BY <1>1, <1>2, FS_Subset, FS_CardinalityType, FS_EmptySet

\* One end of a kind more.
LEMMA OneMore ==
    ASSUME NEW K \in {Backs, Fronts}, NEW f, f \notin QE!Refers(K), QE!Refers(K)' = QE!Refers(K) \cup {f}
    PROVE  Cardinality(QE!Refers(K)') = Cardinality(QE!Refers(K)) + 1
  <1>1. IsFiniteSet(QE!Refers(K))
    BY RefersFinite
  <1>2. Cardinality(QE!Refers(K) \cup {f}) = Cardinality(QE!Refers(K)) + 1
    BY <1>1, FS_AddElement
  <1> QED
    BY <1>2

\* One end of a kind less.
LEMMA OneLess ==
    ASSUME NEW K \in {Backs, Fronts}, NEW e \in QE!Refers(K), QE!Refers(K)' = QE!Refers(K) \ {e}
    PROVE  Cardinality(QE!Refers(K)') = Cardinality(QE!Refers(K)) - 1
  BY RefersFinite, FS_RemoveElement

\* One end that takes over from another.
LEMMA OneForAnother ==
    ASSUME NEW K \in {Backs, Fronts}, NEW e \in QE!Refers(K), NEW f, f \notin QE!Refers(K),
           QE!Refers(K)' = (QE!Refers(K) \ {e}) \cup {f}
    PROVE  Cardinality(QE!Refers(K)') = Cardinality(QE!Refers(K))
  <1>1. /\ IsFiniteSet(QE!Refers(K) \ {e}) /\ f \notin QE!Refers(K) \ {e}
        /\ Cardinality(QE!Refers(K) \ {e}) = Cardinality(QE!Refers(K)) - 1
    BY RefersFinite, FS_RemoveElement
  <1>2. Cardinality((QE!Refers(K) \ {e}) \cup {f}) = Cardinality(QE!Refers(K) \ {e}) + 1
    BY <1>1, FS_AddElement
  <1> QED
    BY <1>1, <1>2, RefersFinite

\* While an end refers to the queue, the count of its kind is not zero.
LEMMA RefersCounts ==
    ASSUME EndsCounts, NEW e \in QE!Ends, end[e] = "refers"
    PROVE  (e \in Backs => bk_ > 0) /\ (e \in Fronts => ft_ > 0)
  BY RefersFinite DEF EndsCounts, QE!Refers

-----------------------------------------------------------------------------

LEMMA EndsInitInv == ASSUME QE!Init PROVE EndsInv
  <1> USE EndsAssumption DEF QE!Init, QE!ConstantsOK
  <1>1. QE!Refers(Backs) = {FirstBack} /\ QE!Refers(Fronts) = {FirstFront}
    BY DEF QE!Refers, QE!Ends
  <1>2. EndsCounts
    BY <1>1, FS_Singleton DEF EndsCounts
  <1>3. EndsTypes
    BY DEF EndsTypes
  <1>4. EndsGone /\ QE!LastEndCloses
    BY DEF EndsGone, QE!LastEndCloses, QE!Ends
  <1> QED
    BY <1>2, <1>3, <1>4 DEF EndsInv

\* A copy counts itself.
LEMMA CopyKeeps ==
    ASSUME EndsInv, NEW e \in QE!Ends, NEW f \in QE!Ends, QE!Copy(e, f)
    PROVE  EndsInv'
  <1>1. /\ end[e] = "refers" /\ end[f] = "none" /\ end' = [end EXCEPT ![f] = "refers"]
        /\ (e \in Backs <=> f \in Backs) /\ e \in Backs \cup Fronts /\ f \in Backs \cup Fronts
        /\ deletes' = deletes /\ endsClosed' = endsClosed
        /\ IF e \in Backs THEN bk_' = bk_ + 1 /\ ft_' = ft_ ELSE ft_' = ft_ + 1 /\ bk_' = bk_
    BY DEF QE!Copy, QE!Goto, QE!SameKind, QE!queueVars, QE!Ends
  <1>2. end \in [QE!Ends -> {"none", "refers", "null", "close", "other", "delete"}]
        /\ bk_ \in Nat /\ ft_ \in Nat
    BY DEF EndsInv, EndsTypes
  <1>3. \A x \in QE!Ends : end'[x] = IF x = f THEN "refers" ELSE end[x]
    BY <1>1, <1>2
  <1>4. Backs \cap Fronts = {} /\ Backs \subseteq QE!Ends /\ Fronts \subseteq QE!Ends
    BY EndsAssumption DEF QE!Ends, QE!ConstantsOK
  <1>5. EndsTypes'
    BY <1>1, <1>2 DEF EndsInv, EndsTypes
  <1>6. EndsCounts'
    <2>1. CASE e \in Backs
      <3>1. QE!Refers(Fronts)' = QE!Refers(Fronts) /\ QE!Refers(Backs)' = QE!Refers(Backs) \cup {f}
            /\ f \notin QE!Refers(Backs)
        BY <1>1, <1>3, <1>4, <2>1 DEF QE!Refers
      <3> QED
        BY <1>1, <2>1, <3>1, OneMore DEF EndsInv, EndsCounts
    <2>2. CASE e \notin Backs
      <3>1. QE!Refers(Backs)' = QE!Refers(Backs) /\ QE!Refers(Fronts)' = QE!Refers(Fronts) \cup {f}
            /\ f \notin QE!Refers(Fronts)
        BY <1>1, <1>3, <1>4, <2>2 DEF QE!Refers
      <3> QED
        BY <1>1, <2>2, <3>1, OneMore DEF EndsInv, EndsCounts
    <2> QED
      BY <2>1, <2>2
  <1>7. EndsGone'
    <2>1. (e \in Backs => bk_ > 0) /\ (e \in Fronts => ft_ > 0)
      BY <1>1, RefersCounts DEF EndsInv
    <2> QED
      BY <1>1, <1>2, <1>3, <1>4, <2>1 DEF EndsInv, EndsGone
  <1>8. QE!LastEndCloses'
    BY <1>1, <1>3, <1>4 DEF EndsInv, QE!LastEndCloses
  <1> QED
    BY <1>5, <1>6, <1>7, <1>8 DEF EndsInv

\* A move hands the reference on, or the lack of one.
LEMMA MoveKeeps ==
    ASSUME EndsInv, NEW e \in QE!Ends, NEW f \in QE!Ends, QE!Move(e, f)
    PROVE  EndsInv'
  <1>1. /\ end[e] \in {"refers", "null"} /\ end[f] = "none"
        /\ end' = [end EXCEPT ![f] = end[e], ![e] = "null"]
        /\ (e \in Backs <=> f \in Backs) /\ e \in Backs \cup Fronts /\ f \in Backs \cup Fronts
        /\ UNCHANGED <<bk_, ft_, deletes, endsClosed>>
    BY DEF QE!Move, QE!SameKind, QE!Ends
  <1>2. end \in [QE!Ends -> {"none", "refers", "null", "close", "other", "delete"}] /\ e # f
    BY <1>1 DEF EndsInv, EndsTypes
  <1>3. \A x \in QE!Ends : end'[x] = IF x = f THEN end[e] ELSE IF x = e THEN "null" ELSE end[x]
    BY <1>1, <1>2
  <1>4. Backs \cap Fronts = {} /\ Backs \subseteq QE!Ends /\ Fronts \subseteq QE!Ends
    BY EndsAssumption DEF QE!Ends, QE!ConstantsOK
  <1>5. EndsTypes'
    BY <1>1, <1>2 DEF EndsInv, EndsTypes
  <1>6. ASSUME NEW K \in {Backs, Fronts}
        PROVE  Cardinality(QE!Refers(K)') = Cardinality(QE!Refers(K))
    <2>1. CASE e \in K /\ end[e] = "refers"
      <3>1. e \in QE!Refers(K) /\ f \notin QE!Refers(K) /\ QE!Refers(K)' = (QE!Refers(K) \ {e}) \cup {f}
        BY <1>1, <1>2, <1>3, <1>4, <2>1 DEF QE!Refers
      <3> QED
        BY <3>1, OneForAnother
    <2>2. CASE ~(e \in K /\ end[e] = "refers")
      <3>1. QE!Refers(K)' = QE!Refers(K)
        BY <1>1, <1>2, <1>3, <1>4, <2>2 DEF QE!Refers
      <3> QED
        BY <3>1
    <2> QED
      BY <2>1, <2>2
  <1>7. EndsCounts'
    BY <1>1, <1>6 DEF EndsInv, EndsCounts
  <1>8. EndsGone'
    <2>1. ASSUME NEW x \in QE!Ends, end'[x] \in {"close", "other", "delete"}
          PROVE  end'[x] = end[x]
      <3>1. x # f /\ x # e
        BY <1>1, <1>3, <2>1
      <3> QED
        BY <1>3, <3>1
    <2>2. EndsGone
      BY DEF EndsInv
    <2>3. \A x \in QE!Ends : end'[x] \in {"close", "other", "delete"} =>
             (x \in Backs => bk_ = 0) /\ (x \in Fronts => ft_ = 0)
      BY <2>1, <2>2 DEF EndsGone
    <2>4. \A x \in QE!Ends : end'[x] = "delete" => bk_ = 0 /\ ft_ = 0
      BY <2>1, <2>2 DEF EndsGone
    <2> QED
      BY <1>1, <2>2, <2>3, <2>4 DEF EndsGone
  <1>9. QE!LastEndCloses'
    BY <1>1, <1>3, <1>4 DEF EndsInv, QE!LastEndCloses
  <1> QED
    BY <1>5, <1>7, <1>8, <1>9 DEF EndsInv

\* The destructor takes one off the count, and goes on if that was the last.
LEMMA ReleaseKeeps ==
    ASSUME EndsInv, NEW e \in QE!Ends, QE!Release(e)
    PROVE  EndsInv'
  <1> DEFINE last == IF e \in Backs THEN bk_ - 1 = 0 ELSE ft_ - 1 = 0
             next == IF last THEN "close" ELSE "none"
  <1>1. Backs \cap Fronts = {} /\ Backs \subseteq QE!Ends /\ Fronts \subseteq QE!Ends /\ QE!Ends = Backs \cup Fronts
    BY EndsAssumption DEF QE!Ends, QE!ConstantsOK
  <1>2. /\ end[e] = "refers" /\ end' = [end EXCEPT ![e] = next]
        /\ deletes' = deletes /\ endsClosed' = endsClosed
        /\ IF e \in Backs THEN bk_' = bk_ - 1 /\ ft_' = ft_ ELSE ft_' = ft_ - 1 /\ bk_' = bk_
    BY <1>1 DEF QE!Release, QE!Decremented, QE!Goto
  <1>3. end \in [QE!Ends -> {"none", "refers", "null", "close", "other", "delete"}]
        /\ bk_ \in Nat /\ ft_ \in Nat
    BY DEF EndsInv, EndsTypes
  <1>4. \A x \in QE!Ends : end'[x] = IF x = e THEN next ELSE end[x]
    BY <1>2, <1>3
  <1>5. next \in {"close", "none"}
    OBVIOUS
  <1>6. (e \in Backs => bk_ > 0) /\ (e \in Fronts => ft_ > 0)
    BY <1>2, RefersCounts DEF EndsInv
  <1>7. EndsTypes'
    <2>1. bk_' \in Nat /\ ft_' \in Nat
      BY <1>1, <1>2, <1>3, <1>6
    <2> QED
      BY <1>2, <1>3, <1>5, <2>1 DEF EndsInv, EndsTypes
  <1>8. EndsCounts'
    <2>1. CASE e \in Backs
      <3>1. QE!Refers(Fronts)' = QE!Refers(Fronts) /\ QE!Refers(Backs)' = QE!Refers(Backs) \ {e}
            /\ e \in QE!Refers(Backs)
        BY <1>1, <1>2, <1>4, <1>5, <2>1 DEF QE!Refers
      <3> QED
        BY <1>2, <2>1, <3>1, OneLess DEF EndsInv, EndsCounts
    <2>2. CASE e \notin Backs
      <3>1. QE!Refers(Backs)' = QE!Refers(Backs) /\ QE!Refers(Fronts)' = QE!Refers(Fronts) \ {e}
            /\ e \in QE!Refers(Fronts)
        BY <1>1, <1>2, <1>4, <1>5, <2>2 DEF QE!Refers
      <3> QED
        BY <1>2, <2>2, <3>1, OneLess DEF EndsInv, EndsCounts
    <2> QED
      BY <2>1, <2>2
  <1>9. EndsGone'
    <2>1. \A x \in QE!Ends : end[x] \in {"close", "other", "delete"} =>
            (x \in Backs => bk_ = 0) /\ (x \in Fronts => ft_ = 0)
      BY DEF EndsInv, EndsGone
    <2>2. \A x \in QE!Ends : end[x] # "delete" /\ ~(deletes > 0)
      BY <1>1, <1>3, <1>6 DEF EndsInv, EndsGone
    <2>3. next = "close" => (e \in Backs => bk_' = 0) /\ (e \in Fronts => ft_' = 0)
      BY <1>1, <1>2
    <2>4. ASSUME NEW x \in QE!Ends, end'[x] \in {"close", "other", "delete"}
          PROVE  (x \in Backs => bk_' = 0) /\ (x \in Fronts => ft_' = 0) /\ end'[x] # "delete"
      <3>1. CASE x = e
        BY <1>4, <1>5, <2>3, <2>4, <3>1
      <3>2. CASE x # e
        <4>1. end'[x] = end[x]
          BY <1>4, <3>2
        <4>2. (x \in Backs => bk_ = 0) /\ (x \in Fronts => ft_ = 0) /\ end[x] # "delete"
          BY <2>1, <2>2, <2>4, <4>1
        <4> QED
          BY <1>1, <1>2, <1>3, <1>6, <4>1, <4>2
      <3> QED
        BY <3>1, <3>2
    <2> QED
      BY <1>2, <2>2, <2>4 DEF EndsGone
  <1>10. QE!LastEndCloses'
    <2> SUFFICES ASSUME NEW K \in {Backs, Fronts}, \A x \in K : end'[x] \notin {"refers", "close"}
                 PROVE  endsClosed
      BY <1>2 DEF QE!LastEndCloses
    <2>1. CASE e \in K
      <3>1. next = "none"
        BY <1>1, <1>4, <1>5, <2>1
      <3>2. QE!Refers(K)' = {}
        BY DEF QE!Refers
      <3>3. Cardinality(QE!Refers(K)') = 0
        BY <3>2, RefersFinite
      <3>4. (K = Backs => bk_' = 0) /\ (K = Fronts => ft_' = 0)
        BY <1>8, <3>3 DEF EndsCounts
      <3> QED
        BY <1>1, <1>2, <2>1, <3>1, <3>4
    <2>2. CASE e \notin K
      BY <1>1, <1>4, <2>2 DEF EndsInv, QE!LastEndCloses
    <2> QED
      BY <2>1, <2>2
  <1> QED
    BY <1>7, <1>8, <1>9, <1>10 DEF EndsInv

\* A destructor goes on, or an end that was moved from is destroyed.
LEMMA ReleasingKeeps ==
    ASSUME EndsInv, NEW e \in QE!Ends, QE!Releasing(e) \/ QE!ReleaseNull(e)
    PROVE  EndsInv'
  <1>1. UNCHANGED <<bk_, ft_>> /\ end[e] # "refers"
    BY DEF QE!Releasing, QE!ReleaseClose, QE!ReleaseOther, QE!Delete, QE!ReleaseNull
  <1>2. PICK p \in {"none", "other", "delete"} : end' = [end EXCEPT ![e] = p]
    BY DEF QE!Releasing, QE!ReleaseClose, QE!ReleaseOther, QE!Delete, QE!ReleaseNull, QE!Goto
  <1>3. /\ end \in [QE!Ends -> {"none", "refers", "null", "close", "other", "delete"}]
        /\ deletes \in Nat /\ endsClosed \in BOOLEAN /\ QE!Ends = Backs \cup Fronts
        /\ Backs \cap Fronts = {}
    BY EndsAssumption DEF EndsInv, EndsTypes, QE!Ends, QE!ConstantsOK
  <1>4. end' \in [QE!Ends -> {"none", "refers", "null", "close", "other", "delete"}]
        /\ \A x \in QE!Ends : end'[x] = IF x = e THEN p ELSE end[x]
    BY <1>2, <1>3
  <1>5. QE!Refers(Backs)' = QE!Refers(Backs) /\ QE!Refers(Fronts)' = QE!Refers(Fronts)
    BY <1>1, <1>3, <1>4 DEF QE!Refers
  <1>6. EndsCounts'
    BY <1>1, <1>5 DEF EndsInv, EndsCounts
  <1>7. CASE QE!ReleaseNull(e)
    <2>1. end[e] = "null" /\ p = "none" /\ deletes' = deletes /\ endsClosed' = endsClosed
      BY <1>3, <1>4, <1>7 DEF QE!ReleaseNull, QE!Goto, QE!queueVars
    <2> QED
      BY <1>1, <1>3, <1>4, <1>6, <2>1 DEF EndsInv, EndsTypes, EndsGone, QE!LastEndCloses
  <1>8. CASE QE!ReleaseClose(e)
    <2>1. end[e] = "close" /\ p = "other" /\ deletes' = deletes /\ endsClosed' = TRUE
      BY <1>3, <1>4, <1>8 DEF QE!ReleaseClose, QE!Goto, QE!Q!Close
    <2> QED
      BY <1>1, <1>3, <1>4, <1>6, <2>1 DEF EndsInv, EndsTypes, EndsGone, QE!LastEndCloses
  <1>9. CASE QE!ReleaseOther(e)
    <2>1. end[e] = "other" /\ deletes' = deletes /\ endsClosed' = endsClosed
          /\ p = IF (e \in Backs /\ ft_ = 0) \/ (e \in Fronts /\ bk_ = 0) THEN "delete" ELSE "none"
      BY <1>3, <1>4, <1>9 DEF QE!ReleaseOther, QE!Goto, QE!queueVars
    <2>2. p = "delete" => bk_ = 0 /\ ft_ = 0
      BY <1>3, <2>1 DEF EndsInv, EndsGone
    <2>3. EndsGone'
      BY <1>1, <1>3, <1>4, <2>1, <2>2 DEF EndsInv, EndsGone
    <2> QED
      BY <1>1, <1>3, <1>4, <1>6, <2>1, <2>3 DEF EndsInv, EndsTypes, QE!LastEndCloses
  <1>10. CASE QE!Delete(e)
    <2>1. end[e] = "delete" /\ p = "none" /\ deletes' = deletes + 1 /\ endsClosed' = endsClosed
      BY <1>3, <1>4, <1>10 DEF QE!Delete, QE!Goto, QE!queueVars
    <2>2. bk_ = 0 /\ ft_ = 0
      BY <2>1 DEF EndsInv, EndsGone
    <2> QED
      BY <1>1, <1>3, <1>4, <1>6, <2>1, <2>2 DEF EndsInv, EndsTypes, EndsGone, QE!LastEndCloses
  <1> QED
    BY <1>7, <1>8, <1>9, <1>10 DEF QE!Releasing

\* What a queue does for its clients may close it, and no more.
LEMMA CallKeeps ==
    ASSUME EndsInv, NEW e \in QE!Ends, QE!Invoke(e) \/ QE!Serve(e) \/ QE!TurnAway(e)
    PROVE  EndsInv'
  <1>1. UNCHANGED <<bk_, ft_, end, deletes>> /\ (endsClosed' = endsClosed \/ endsClosed' = TRUE)
    BY DEF QE!Invoke, QE!Serve, QE!TurnAway, QE!Q!Invoke, QE!Q!Push, QE!Q!Pop, QE!Q!Query, QE!Q!Close, QE!Q!Refuse
  <1>2. QE!Refers(Backs)' = QE!Refers(Backs) /\ QE!Refers(Fronts)' = QE!Refers(Fronts)
    BY <1>1 DEF QE!Refers
  <1> QED
    BY <1>1, <1>2 DEF EndsInv, EndsTypes, EndsCounts, EndsGone, QE!LastEndCloses

LEMMA EndsInductive == ASSUME EndsInv, [QE!Next]_(QE!vars) PROVE EndsInv'
  <1>1. CASE UNCHANGED QE!vars
    BY <1>1 DEF QE!vars, QE!queueVars, EndsInv, EndsTypes, EndsCounts, EndsGone, QE!LastEndCloses, QE!Refers
  <1>2. CASE QE!Next
    BY <1>2, CopyKeeps, MoveKeeps, ReleaseKeeps, ReleasingKeeps, CallKeeps DEF QE!Next
  <1> QED
    BY <1>1, <1>2

LEMMA EndsInvariance == QE!Spec => []EndsInv
  <1>1. QE!Init => EndsInv
    BY EndsInitInv
  <1>2. EndsInv /\ [QE!Next]_(QE!vars) => EndsInv'
    BY EndsInductive
  <1> QED
    BY <1>1, <1>2, PTL DEF QE!Spec

-----------------------------------------------------------------------------

\* The counts never miss an end: no end that a client can call refers to a
\* queue that has been deleted, whatever is copied, moved and released
\* (queue_base.h: inc_back, dec_back, inc_front, dec_front, release).
THEOREM NoDanglingEndCorrect == QE!Spec => []NoDanglingEnd
  <1>1. EndsInv => NoDanglingEnd
    <2> SUFFICES ASSUME EndsInv PROVE NoDanglingEnd
      OBVIOUS
    <2>1. deletes > 0 => QE!Refers(QE!Ends) = {}
      BY RefersCounts DEF EndsInv, EndsGone, QE!Refers, QE!Ends
    <2> QED
      BY <2>1, SameSizes DEF EndsInv, EndsTypes, EndsCounts, NoDanglingEnd, QE!NoDanglingEnd
  <1> QED
    BY <1>1, EndsInvariance, PTL

\* When no back, or no front, refers to the queue or is about to close it, it
\* is closed (queue_base.h: release).
THEOREM LastEndClosesCorrect == QE!Spec => []LastEndCloses
  BY EndsInvariance, PTL DEF EndsInv, LastEndCloses
=============================================================================
