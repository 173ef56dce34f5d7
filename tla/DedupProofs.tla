---------------------------- MODULE DedupProofs ----------------------------
(***************************************************************************)
(* Proofs about Dedup, for every input and every way to cut it, any number *)
(* of threads, of threads to a queue and of buckets, and any sizes of the  *)
(* queues, of the batches and of chunks_per_anchor.                        *)
(*                                                                         *)
(* A count is right because every reference is held by one place of the    *)
(* input: the one that the coarse chunk in some thread's hands starts at,  *)
(* or a fine chunk that is not yet compressed nor found a duplicate.  The  *)
(* output is that of the serial build because the numbers of the chunks    *)
(* are the places of the input in order, the hash table has each contents  *)
(* once, and Reorder marks an entry when it writes its data.               *)
(***************************************************************************)
EXTENDS Dedup, FiniteSetTheorems, SequenceTheorems, WellFoundedInduction, TLAPS

-----------------------------------------------------------------------------
(* Numbers.                                                                *)

LEMMA LeastOfSet ==
    ASSUME NEW S \in SUBSET Nat, S # {}
    PROVE  Min(S) \in S /\ \A y \in S : Min(S) <= y
  <1>1. \E x \in S : \A y \in S : x <= y
    <2>1. PICK n \in Nat : n \in S
      OBVIOUS
    <2> DEFINE D == 0 .. n
               Bad == {0 .. i : i \in S \cap D}
    <2>2. IsFiniteSet(D)
      BY FS_Interval
    <2>3. IsWellFoundedOn(StrictSubsetOrdering(D), SUBSET D)
      <3> HIDE DEF D
      <3> QED
        BY <2>2, FS_StrictSubsetOrderingWellFounded, FS_FiniteSubsetsOfFinite
    <2>4. Bad \subseteq SUBSET D /\ Bad # {}
      <3>1. ASSUME NEW i \in S \cap D PROVE 0 .. i \in SUBSET D
        OBVIOUS
      <3>2. n \in S \cap D
        BY <2>1
      <3> QED
        BY <3>1, <3>2
    <2>5. PICK b \in Bad : \A u \in Bad : ~(<<u, b>> \in StrictSubsetOrdering(D))
      <3> HIDE DEF Bad, D
      <3> QED
        BY <2>3, <2>4, WFMin
    <2>6. PICK i \in S \cap D : b = 0 .. i
      OBVIOUS
    <2>7. ASSUME NEW j \in S, ~(i <= j) PROVE FALSE
      <3>1. j \in D /\ 0 .. j \in Bad /\ 0 .. j \subseteq 0 .. i /\ i \in 0 .. i /\ i \notin 0 .. j
        BY <2>7
      <3>2. <<0 .. j, b>> \in StrictSubsetOrdering(D)
        BY <2>6, <3>1 DEF StrictSubsetOrdering
      <3> QED
        BY <2>5, <3>1, <3>2
    <2> QED
      BY <2>7
  <1> QED
    BY <1>1 DEF Min

LEMMA LeastOfThree ==
    ASSUME NEW a \in Nat, NEW b \in Nat, NEW c \in Nat
    PROVE  Min({a, b, c}) \in Nat /\ Min({a, b, c}) <= a /\ Min({a, b, c}) <= b
              /\ Min({a, b, c}) <= c /\ Min({a, b, c}) \in {a, b, c}
  <1>1. {a, b, c} \in SUBSET Nat /\ {a, b, c} # {}
    OBVIOUS
  <1>2. Min({a, b, c}) \in {a, b, c} /\ \A y \in {a, b, c} : Min({a, b, c}) <= y
    BY <1>1, LeastOfSet
  <1> QED
    BY <1>2

LEMMA LeastOfTwo ==
    ASSUME NEW a \in Nat, NEW b \in Nat
    PROVE  Min({a, b}) \in Nat /\ Min({a, b}) <= a /\ Min({a, b}) <= b /\ Min({a, b}) \in {a, b}
  <1>1. {a, b} \in SUBSET Nat /\ {a, b} # {}
    OBVIOUS
  <1>2. Min({a, b}) \in {a, b} /\ \A y \in {a, b} : Min({a, b}) <= y
    BY <1>1, LeastOfSet
  <1> QED
    BY <1>2

LEMMA DivMono ==
    ASSUME NEW t \in Nat, NEW n \in Nat, NEW d \in Nat \ {0}, t + d <= n
    PROVE  t \div d \in Nat /\ t \div d + 1 <= n \div d
  OBVIOUS

-----------------------------------------------------------------------------
(* Sequences.                                                              *)

LEMMA Parts ==
    ASSUME NEW E, NEW s \in Seq(E), NEW k \in 0 .. Len(s)
    PROVE  /\ First(s, k) \in Seq(E) /\ Len(First(s, k)) = k
           /\ \A i \in 1 .. k : First(s, k)[i] = s[i]
           /\ Rest(s, k) \in Seq(E) /\ Len(Rest(s, k)) = Len(s) - k
           /\ \A i \in 1 .. Len(s) - k : Rest(s, k)[i] = s[i + k]
  <1>1. Len(s) \in Nat /\ \A i \in 1 .. Len(s) : s[i] \in E
    OBVIOUS
  <1>2. /\ First(s, k) \in Seq(E) /\ Len(First(s, k)) = k
        /\ \A i \in 1 .. k : First(s, k)[i] = s[i]
    <2>1. \A i \in 1 .. k : s[i] \in E
      BY <1>1
    <2> QED
      BY <1>1, <2>1, SubSeqProperties DEF First
  <1>3. /\ Rest(s, k) \in Seq(E) /\ Len(Rest(s, k)) = Len(s) - k
        /\ \A i \in 1 .. Len(s) - k : Rest(s, k)[i] = s[i + k]
    <2>1. \A i \in k + 1 .. Len(s) : s[i] \in E
      BY <1>1
    <2> QED
      BY <1>1, <2>1, SubSeqProperties DEF Rest
  <1> QED
    BY <1>2, <1>3

-----------------------------------------------------------------------------
(* Families of sequences.  The buffers that lead to a stage are a function *)
(* f from their names to sequences.  What is asked of them is what they    *)
(* hold, Content(f), and whether any two of their elements, at different   *)
(* positions, are related by R, Separate(R, f): what moves from one buffer *)
(* to another changes neither.                                             *)

\* Where a family has elements, and what it has there.
Positions(f) == UNION {{x} \X DOMAIN f[x] : x \in DOMAIN f}
Element(f, p) == f[p[1]][p[2]]
Content(f) == {Element(f, p) : p \in Positions(f)}
Separate(R, f) ==
    \A p, q \in Positions(f) : p # q => <<Element(f, p), Element(f, q)>> \in R

LEMMA PositionShape ==
    ASSUME NEW f
    PROVE  \A p : p \in Positions(f) <=>
             p = <<p[1], p[2]>> /\ p[1] \in DOMAIN f /\ p[2] \in DOMAIN f[p[1]]
  BY DEF Positions

LEMMA ContentShape ==
    ASSUME NEW f
    PROVE  \A e : e \in Content(f) <=> \E x \in DOMAIN f : \E n \in DOMAIN f[x] : f[x][n] = e
  <1>1. ASSUME NEW e, e \in Content(f) PROVE \E x \in DOMAIN f : \E n \in DOMAIN f[x] : f[x][n] = e
    <2>1. PICK p \in Positions(f) : e = Element(f, p)
      BY <1>1 DEF Content
    <2> QED
      BY <2>1, PositionShape DEF Element
  <1>2. ASSUME NEW x \in DOMAIN f, NEW n \in DOMAIN f[x] PROVE f[x][n] \in Content(f)
    <2>1. <<x, n>> \in Positions(f) /\ Element(f, <<x, n>>) = f[x][n]
      BY PositionShape DEF Element
    <2> QED
      BY <2>1 DEF Content
  <1> QED
    BY <1>1, <1>2

LEMMA SeparateThrough ==
    ASSUME NEW f, NEW g, NEW R, NEW h \in [Positions(g) -> Positions(f)],
           \A p, q \in Positions(g) : h[p] = h[q] => p = q,
           \A p, q \in Positions(g) :
              <<Element(f, h[p]), Element(f, h[q])>> \in R => <<Element(g, p), Element(g, q)>> \in R,
           Separate(R, f)
    PROVE  Separate(R, g)
  BY DEF Separate

\* Of k elements from the front of f[a] to the end of f[b].
Moves(X, E, f, g, a, b, k) ==
    /\ f \in [X -> Seq(E)] /\ g \in [X -> Seq(E)] /\ a \in X /\ b \in X /\ a # b
    /\ k \in 0 .. Len(f[a])
    /\ g[a] = Rest(f[a], k) /\ g[b] = f[b] \o First(f[a], k)
    /\ \A x \in X \ {a, b} : g[x] = f[x]
LEMMA Moving ==
    ASSUME NEW X, NEW E, NEW f, NEW g, NEW a, NEW b, NEW k, Moves(X, E, f, g, a, b, k)
    PROVE  Content(g) = Content(f) /\ \A R : Separate(R, f) => Separate(R, g)
  <1>0. /\ f \in [X -> Seq(E)] /\ g \in [X -> Seq(E)] /\ a \in X /\ b \in X /\ a # b
        /\ k \in 0 .. Len(f[a])
        /\ g[a] = Rest(f[a], k) /\ g[b] = f[b] \o First(f[a], k)
        /\ \A x \in X \ {a, b} : g[x] = f[x]
    BY DEF Moves
  <1> USE <1>0
  <1> DEFINE m == Len(f[b])
             n == Len(f[a])
  <1>1. m \in Nat /\ n \in Nat /\ k \in 0 .. n /\ DOMAIN f = X /\ DOMAIN g = X
    OBVIOUS
  <1>2. /\ DOMAIN f[a] = 1 .. n /\ DOMAIN f[b] = 1 .. m
        /\ DOMAIN g[a] = 1 .. n - k /\ DOMAIN g[b] = 1 .. m + k
        /\ \A i \in 1 .. n - k : g[a][i] = f[a][i + k]
        /\ \A i \in 1 .. m : g[b][i] = f[b][i]
        /\ \A i \in m + 1 .. m + k : g[b][i] = f[a][i - m]
    <2>1. /\ First(f[a], k) \in Seq(E) /\ Len(First(f[a], k)) = k
          /\ \A i \in 1 .. k : First(f[a], k)[i] = f[a][i]
          /\ Rest(f[a], k) \in Seq(E) /\ Len(Rest(f[a], k)) = n - k
          /\ \A i \in 1 .. n - k : Rest(f[a], k)[i] = f[a][i + k]
      <3>1. f[a] \in Seq(E) /\ k \in 0 .. Len(f[a])
        OBVIOUS
      <3> QED
        BY ONLY <3>1, Parts DEF n
    <2>2. /\ Len(g[b]) = m + k /\ \A i \in 1 .. m : g[b][i] = f[b][i]
          /\ \A i \in m + 1 .. m + k : g[b][i] = First(f[a], k)[i - m]
      BY <2>1, ConcatProperties
    <2>3. \A i \in m + 1 .. m + k : i - m \in 1 .. k
      BY <1>1
    <2> QED
      BY <1>1, <2>1, <2>2, <2>3
  <1> HIDE DEF m, n
  <1> DEFINE H(p) == IF p[1] = a THEN <<a, p[2] + k>>
                     ELSE IF p[1] = b /\ p[2] > m THEN <<a, p[2] - m>> ELSE p
             h == [p \in Positions(g) |-> H(p)]
  <1>3. ASSUME NEW p \in Positions(g) PROVE H(p) \in Positions(f) /\ Element(f, H(p)) = Element(g, p)
    <2>1. p = <<p[1], p[2]>> /\ p[1] \in X /\ p[2] \in DOMAIN g[p[1]]
      BY <1>1, PositionShape
    <2>2. CASE p[1] = a
      <3>1. p[2] \in 1 .. n - k /\ p[2] + k \in 1 .. n
        BY <1>1, <1>2, <2>1, <2>2
      <3> QED
        BY <1>1, <1>2, <2>2, <3>1, PositionShape DEF Element
    <2>3. CASE p[1] = b /\ p[2] > m
      <3>1. p[2] \in m + 1 .. m + k /\ p[2] - m \in 1 .. n
        BY <1>1, <1>2, <2>1, <2>3
      <3> QED
        BY <1>1, <1>2, <2>3, <3>1, PositionShape DEF Element
    <2>4. CASE p[1] = b /\ ~(p[2] > m)
      <3>1. p[2] \in 1 .. m
        BY <1>1, <1>2, <2>1, <2>4
      <3> QED
        BY <1>1, <1>2, <2>1, <2>4, <3>1, PositionShape DEF Element
    <2>5. CASE p[1] # a /\ p[1] # b
      <3>1. g[p[1]] = f[p[1]]
        BY <2>1, <2>5
      <3> QED
        BY <1>1, <2>1, <2>5, <3>1, PositionShape DEF Element
    <2> QED
      BY <2>2, <2>3, <2>4, <2>5
  <1>4. ASSUME NEW p \in Positions(g), NEW q \in Positions(g), H(p) = H(q) PROVE p = q
    <2>1. /\ p = <<p[1], p[2]>> /\ p[1] \in X /\ p[2] \in DOMAIN g[p[1]]
          /\ q = <<q[1], q[2]>> /\ q[1] \in X /\ q[2] \in DOMAIN g[q[1]]
      BY <1>1, PositionShape
    <2>2. /\ p[1] = a => p[2] \in 1 .. n - k
          /\ q[1] = a => q[2] \in 1 .. n - k
          /\ p[1] = b => p[2] \in 1 .. m + k
          /\ q[1] = b => q[2] \in 1 .. m + k
      BY <1>2, <2>1
    <2>3. p[1] = q[1] /\ p[2] = q[2]
      <3>1. H(p)[1] = H(q)[1] /\ H(p)[2] = H(q)[2]
        BY <1>4
      <3>2. ASSUME NEW r
            PROVE  /\ r[1] = a => H(r)[1] = a /\ H(r)[2] = r[2] + k
                   /\ r[1] # a /\ r[1] = b /\ r[2] > m => H(r)[1] = a /\ H(r)[2] = r[2] - m
                   /\ r[1] # a /\ r[1] = b /\ ~(r[2] > m) => H(r)[1] = r[1] /\ H(r)[2] = r[2]
                   /\ r[1] # a /\ r[1] # b => H(r)[1] = r[1] /\ H(r)[2] = r[2]
        OBVIOUS
      <3>3. a # b /\ n \in Nat /\ m \in Nat /\ k \in Nat
        BY <1>1, <1>2
      <3> HIDE DEF H
      <3>4. CASE p[1] = a
        <4>1. H(p)[1] = a /\ H(p)[2] = p[2] + k /\ p[2] \in 1 .. n - k
          BY <2>2, <3>2, <3>4
        <4>2. CASE q[1] = a
          <5>1. H(q)[2] = q[2] + k /\ q[2] \in 1 .. n - k
            BY <2>2, <3>2, <4>2
          <5>2. p[2] + k = q[2] + k /\ p[1] = q[1]
            BY <3>1, <3>4, <4>1, <4>2, <5>1
          <5>3. p[2] \in Int /\ q[2] \in Int
            BY <3>3, <4>1, <5>1
          <5> QED
            BY <3>3, <5>2, <5>3
        <4>3. CASE q[1] = b
          <5>1. q[2] \in 1 .. m + k
            BY <2>2, <4>3
          <5>2. q[2] > m /\ H(q)[2] = q[2] - m
            BY <3>1, <3>2, <3>3, <4>1, <4>3
          <5>3. p[2] + k = q[2] - m
            BY <3>1, <4>1, <5>2
          <5>4. p[2] >= 1 /\ q[2] <= m + k /\ p[2] \in Int /\ q[2] \in Int
            BY <3>3, <4>1, <5>1
          <5> QED
            BY ONLY <3>3, <5>3, <5>4
        <4>4. CASE q[1] # a /\ q[1] # b
          BY <3>1, <3>2, <4>1, <4>4
        <4> QED
          BY <4>2, <4>3, <4>4
      <3>5. CASE p[1] = b
        <4>1. p[2] \in 1 .. m + k /\ p[1] # a
          BY <2>2, <3>3, <3>5
        <4>2. CASE q[1] = a
          <5>1. H(q)[1] = a /\ H(q)[2] = q[2] + k /\ q[2] \in 1 .. n - k
            BY <2>2, <3>2, <4>2
          <5>2. p[2] > m /\ H(p)[2] = p[2] - m
            BY <3>1, <3>2, <3>3, <3>5, <5>1
          <5> QED
            BY ONLY <3>1, <3>3, <4>1, <5>1, <5>2
        <4>3. CASE q[1] = b
          <5>1. q[2] \in 1 .. m + k /\ q[1] # a
            BY <2>2, <3>3, <4>3
          <5>2. (p[2] > m) <=> (q[2] > m)
            BY <3>1, <3>2, <3>3, <3>5, <4>1, <4>3, <5>1
          <5>3. \/ p[2] > m /\ H(p)[2] = p[2] - m /\ H(q)[2] = q[2] - m
                \/ H(p)[2] = p[2] /\ H(q)[2] = q[2]
            BY <3>2, <3>5, <4>1, <4>3, <5>1, <5>2
          <5> QED
            BY ONLY <3>1, <3>3, <3>5, <4>1, <4>3, <5>1, <5>3
        <4>4. CASE q[1] # a /\ q[1] # b
          BY <3>1, <3>2, <3>5, <4>1, <4>4
        <4> QED
          BY <4>2, <4>3, <4>4
      <3>6. CASE p[1] # a /\ p[1] # b
        <4>1. H(p)[1] = p[1] /\ H(p)[2] = p[2]
          BY <3>2, <3>6
        <4>2. q[1] # a
          BY <3>1, <3>2, <3>6, <4>1
        <4>3. q[1] # b
          BY <3>1, <3>2, <3>6, <4>1, <4>2
        <4> QED
          BY <3>1, <3>2, <4>1, <4>2, <4>3
      <3> QED
        BY <3>4, <3>5, <3>6
    <2> QED
      BY <2>1, <2>3
  <1>5. ASSUME NEW R, Separate(R, f) PROVE Separate(R, g)
    <2>1. h \in [Positions(g) -> Positions(f)]
      BY <1>3
    <2>2. \A p, q \in Positions(g) : h[p] = h[q] => p = q
      BY <1>4
    <2>3. \A p \in Positions(g) : Element(f, h[p]) = Element(g, p)
      BY <1>3
    <2>4. \A p, q \in Positions(g) :
             <<Element(f, h[p]), Element(f, h[q])>> \in R => <<Element(g, p), Element(g, q)>> \in R
      BY <2>3
    <2> HIDE DEF h
    <2> QED
      BY <1>5, <2>1, <2>2, <2>4, SeparateThrough
  <1>6. Content(g) \subseteq Content(f)
    <2>1. ASSUME NEW p \in Positions(g) PROVE Element(g, p) \in Content(f)
      <3>1. H(p) \in Positions(f) /\ Element(f, H(p)) = Element(g, p)
        BY <1>3
      <3> HIDE DEF H, h
      <3> QED
        BY <3>1 DEF Content
    <2> HIDE DEF H, h
    <2> QED
      BY ONLY <2>1 DEF Content
  <1> HIDE DEF H, h
  <1>7. ASSUME NEW x \in X, NEW i \in DOMAIN f[x] PROVE f[x][i] \in Content(g)
    <2>1. CASE x = a /\ i <= k
      <3>1. i + m \in m + 1 .. m + k /\ (i + m) - m = i /\ i + m \in DOMAIN g[b]
        <4>1. i \in 1 .. n /\ n \in Nat /\ m \in Nat /\ k \in Nat /\ DOMAIN g[b] = 1 .. m + k
          BY <1>1, <1>2, <1>7, <2>1
        <4> QED
          BY ONLY <2>1, <4>1
      <3>2. g[b][i + m] = f[x][i]
        BY <1>2, <2>1, <3>1
      <3>3. b \in DOMAIN g
        BY <1>1
      <3> QED
        BY ONLY <3>1, <3>2, <3>3, ContentShape
    <2>2. CASE x = a /\ ~(i <= k)
      <3>0. i \in 1 .. n
        BY <1>2, <1>7, <2>2
      <3>1. i - k \in 1 .. n - k /\ (i - k) + k = i
        BY <1>1, <2>2, <3>0
      <3> QED
        BY <1>1, <1>2, <2>2, <3>1, ContentShape
    <2>3. CASE x = b
      <3>1. i \in 1 .. m /\ i \in DOMAIN g[b]
        BY <1>1, <1>2, <1>7, <2>3
      <3> QED
        BY <1>1, <1>2, <2>3, <3>1, ContentShape
    <2>4. CASE x # a /\ x # b
      BY <1>1, <2>4, ContentShape
    <2> QED
      BY <2>1, <2>2, <2>3, <2>4
  <1>8. Content(f) \subseteq Content(g)
    BY <1>1, <1>7, ContentShape
  <1> QED
    BY <1>5, <1>6, <1>8

\* Of e at the end of f[b].
Adds(X, E, f, g, b, e) ==
    /\ f \in [X -> Seq(E)] /\ g \in [X -> Seq(E)] /\ b \in X /\ e \in E
    /\ g[b] = Append(f[b], e) /\ \A x \in X \ {b} : g[x] = f[x]
LEMMA Adding ==
    ASSUME NEW X, NEW E, NEW f, NEW g, NEW b, NEW e, Adds(X, E, f, g, b, e)
    PROVE  /\ Content(g) = Content(f) \cup {e}
           /\ \A R : /\ Separate(R, f)
                     /\ \A d \in Content(f) : <<d, e>> \in R /\ <<e, d>> \in R
                     => Separate(R, g)
  <1>0. /\ f \in [X -> Seq(E)] /\ g \in [X -> Seq(E)] /\ b \in X /\ e \in E
        /\ g[b] = Append(f[b], e) /\ \A x \in X \ {b} : g[x] = f[x]
    BY DEF Adds
  <1> USE <1>0
  <1> DEFINE m == Len(f[b])
  <1>1. m \in Nat /\ DOMAIN f = X /\ DOMAIN g = X
    OBVIOUS
  <1>2. /\ DOMAIN f[b] = 1 .. m /\ DOMAIN g[b] = 1 .. m + 1
        /\ \A i \in 1 .. m : g[b][i] = f[b][i]
        /\ g[b][m + 1] = e
    BY AppendProperties
  <1> HIDE DEF m
  <1>3. ASSUME NEW p \in Positions(g), p # <<b, m + 1>>
        PROVE  p \in Positions(f) /\ Element(f, p) = Element(g, p)
    <2>1. p = <<p[1], p[2]>> /\ p[1] \in X /\ p[2] \in DOMAIN g[p[1]]
      BY <1>1, PositionShape
    <2>2. CASE p[1] = b
      <3>1. p[2] \in 1 .. m
        BY <1>1, <1>2, <1>3, <2>1, <2>2
      <3> QED
        BY <1>1, <1>2, <2>1, <2>2, <3>1, PositionShape DEF Element
    <2>3. CASE p[1] # b
      <3>1. g[p[1]] = f[p[1]]
        BY <2>1, <2>3
      <3> QED
        BY <1>1, <2>1, <3>1, PositionShape DEF Element
    <2> QED
      BY <2>2, <2>3
  <1>4. <<b, m + 1>> \in Positions(g) /\ Element(g, <<b, m + 1>>) = e
    BY <1>1, <1>2, PositionShape DEF Element
  <1>5. ASSUME NEW R, Separate(R, f), \A d \in Content(f) : <<d, e>> \in R /\ <<e, d>> \in R
        PROVE  Separate(R, g)
    <2>1. ASSUME NEW p \in Positions(g), NEW q \in Positions(g), p # q
          PROVE  <<Element(g, p), Element(g, q)>> \in R
      <3>1. CASE p # <<b, m + 1>> /\ q # <<b, m + 1>>
        BY <1>3, <1>5, <2>1, <3>1 DEF Separate
      <3>2. CASE p = <<b, m + 1>>
        <4>1. Element(g, q) \in Content(f)
          BY <1>3, <2>1, <3>2 DEF Content
        <4> QED
          BY <1>4, <1>5, <3>2, <4>1
      <3>3. CASE q = <<b, m + 1>>
        <4>1. Element(g, p) \in Content(f)
          BY <1>3, <2>1, <3>3 DEF Content
        <4> QED
          BY <1>4, <1>5, <3>3, <4>1
      <3> QED
        BY <3>1, <3>2, <3>3
    <2> QED
      BY <2>1 DEF Separate
  <1>6. Content(g) \subseteq Content(f) \cup {e}
    BY <1>3, <1>4 DEF Content
  <1>7. ASSUME NEW x \in X, NEW i \in DOMAIN f[x] PROVE f[x][i] \in Content(g)
    <2>1. CASE x = b
      <3>1. i \in 1 .. m /\ i \in DOMAIN g[b]
        BY <1>1, <1>2, <1>7, <2>1
      <3> QED
        BY <1>1, <1>2, <2>1, <3>1, ContentShape
    <2>2. CASE x # b
      BY <1>1, <2>2, ContentShape
    <2> QED
      BY <2>1, <2>2
  <1>8. e \in Content(g)
    BY <1>4 DEF Content
  <1> QED
    BY <1>1, <1>5, <1>6, <1>7, <1>8, ContentShape

\* Of the first element of f[a].
Drops(X, E, f, g, a) ==
    /\ f \in [X -> Seq(E)] /\ g \in [X -> Seq(E)] /\ a \in X
    /\ f[a] # <<>> /\ g[a] = Tail(f[a]) /\ \A x \in X \ {a} : g[x] = f[x]
LEMMA Dropping ==
    ASSUME NEW X, NEW E, NEW f, NEW g, NEW a, Drops(X, E, f, g, a)
    PROVE  /\ Content(f) = Content(g) \cup {Head(f[a])}
           /\ \A R : Separate(R, f) => 
                /\ Separate(R, g)
                /\ \A d \in Content(g) : <<d, Head(f[a])>> \in R /\ <<Head(f[a]), d>> \in R
  <1>0. /\ f \in [X -> Seq(E)] /\ g \in [X -> Seq(E)] /\ a \in X
        /\ f[a] # <<>> /\ g[a] = Tail(f[a]) /\ \A x \in X \ {a} : g[x] = f[x]
    BY DEF Drops
  <1> USE <1>0
  <1> DEFINE m == Len(f[a])
             e == Head(f[a])
  <1>1. m \in Nat /\ m >= 1 /\ DOMAIN f = X /\ DOMAIN g = X
    BY EmptySeq
  <1>2. /\ DOMAIN f[a] = 1 .. m /\ DOMAIN g[a] = 1 .. m - 1
        /\ \A i \in 1 .. m - 1 : g[a][i] = f[a][i + 1]
        /\ f[a][1] = e
    BY HeadTailProperties
  <1> HIDE DEF m, e
  <1> DEFINE H(p) == IF p[1] = a THEN <<a, p[2] + 1>> ELSE p
             h == [p \in Positions(g) |-> H(p)]
  <1>3. ASSUME NEW p \in Positions(g)
        PROVE  H(p) \in Positions(f) /\ Element(f, H(p)) = Element(g, p) /\ H(p) # <<a, 1>>
    <2>1. p = <<p[1], p[2]>> /\ p[1] \in X /\ p[2] \in DOMAIN g[p[1]]
      BY <1>1, PositionShape
    <2>2. CASE p[1] = a
      <3>1. p[2] \in 1 .. m - 1 /\ p[2] + 1 \in 1 .. m /\ p[2] + 1 # 1
        BY <1>1, <1>2, <2>1, <2>2
      <3> QED
        BY <1>1, <1>2, <2>2, <3>1, PositionShape DEF Element
    <2>3. CASE p[1] # a
      <3>1. g[p[1]] = f[p[1]]
        BY <2>1, <2>3
      <3> QED
        BY <1>1, <2>1, <2>3, <3>1, PositionShape DEF Element
    <2> QED
      BY <2>2, <2>3
  <1>4. ASSUME NEW p \in Positions(g), NEW q \in Positions(g), H(p) = H(q) PROVE p = q
    <2>1. /\ p = <<p[1], p[2]>> /\ p[1] \in X /\ p[2] \in DOMAIN g[p[1]]
          /\ q = <<q[1], q[2]>> /\ q[1] \in X /\ q[2] \in DOMAIN g[q[1]]
      BY <1>1, PositionShape
    <2>2. /\ p[1] = a => p[2] \in 1 .. m - 1
          /\ q[1] = a => q[2] \in 1 .. m - 1
      BY <1>2, <2>1
    <2>3. p[1] = q[1] /\ p[2] = q[2]
      <3>1. H(p)[1] = H(q)[1] /\ H(p)[2] = H(q)[2]
        BY <1>4
      <3>2. CASE p[1] = a
        BY <1>1, <2>2, <3>1, <3>2
      <3>3. CASE p[1] # a
        BY <2>1, <2>2, <3>1, <3>3
      <3> QED
        BY <3>2, <3>3
    <2> QED
      BY <2>1, <2>3
  <1>5. <<a, 1>> \in Positions(f) /\ Element(f, <<a, 1>>) = e
    BY <1>1, <1>2, PositionShape DEF Element
  <1>6. ASSUME NEW R, Separate(R, f)
        PROVE  Separate(R, g) /\ \A d \in Content(g) : <<d, e>> \in R /\ <<e, d>> \in R
    <2>1. h \in [Positions(g) -> Positions(f)]
      BY <1>3
    <2>2. \A p, q \in Positions(g) : h[p] = h[q] => p = q
      BY <1>4
    <2>3. \A p \in Positions(g) : Element(f, h[p]) = Element(g, p)
      BY <1>3
    <2>4. Separate(R, g)
      <3>1. \A p, q \in Positions(g) :
               <<Element(f, h[p]), Element(f, h[q])>> \in R => <<Element(g, p), Element(g, q)>> \in R
        BY <2>3
      <3> HIDE DEF h
      <3> QED
        BY <1>6, <2>1, <2>2, <3>1, SeparateThrough
    <2>5. ASSUME NEW d \in Content(g) PROVE <<d, e>> \in R /\ <<e, d>> \in R
      <3>1. PICK p \in Positions(g) : d = Element(g, p)
        BY DEF Content
      <3> QED
        BY <1>3, <1>5, <1>6, <3>1 DEF Separate
    <2> QED
      BY <2>4, <2>5
  <1>7. Content(g) \subseteq Content(f) /\ e \in Content(f)
    <2>1. ASSUME NEW p \in Positions(g) PROVE Element(g, p) \in Content(f)
      <3>1. h[p] \in Positions(f) /\ Element(f, h[p]) = Element(g, p)
        BY <1>3
      <3> HIDE DEF h
      <3> QED
        BY <3>1 DEF Content
    <2>2. e \in Content(f)
      BY <1>5 DEF Content
    <2> HIDE DEF h
    <2> QED
      BY ONLY <2>1, <2>2 DEF Content
  <1>8. ASSUME NEW x \in X, NEW i \in DOMAIN f[x], f[x][i] # e PROVE f[x][i] \in Content(g)
    <2>1. CASE x = a
      <3>1. i - 1 \in 1 .. m - 1 /\ (i - 1) + 1 = i
        BY <1>1, <1>2, <1>8, <2>1
      <3> QED
        BY <1>1, <1>2, <2>1, <3>1, ContentShape
    <2>2. CASE x # a
      BY <1>1, <2>2, ContentShape
    <2> QED
      BY <2>1, <2>2
  <1> QED
    BY <1>1, <1>6, <1>7, <1>8, ContentShape DEF e

\* Of e at the front of f[b].
Fronts(X, E, f, g, b, e) ==
    /\ f \in [X -> Seq(E)] /\ g \in [X -> Seq(E)] /\ b \in X /\ e \in E
    /\ g[b] = <<e>> \o f[b] /\ \A x \in X \ {b} : g[x] = f[x]
LEMMA Fronting ==
    ASSUME NEW X, NEW E, NEW f, NEW g, NEW b, NEW e, Fronts(X, E, f, g, b, e)
    PROVE  /\ Content(g) = Content(f) \cup {e}
           /\ \A R : /\ Separate(R, f)
                     /\ \A d \in Content(f) : <<d, e>> \in R /\ <<e, d>> \in R
                     => Separate(R, g)
  <1>0. /\ f \in [X -> Seq(E)] /\ g \in [X -> Seq(E)] /\ b \in X /\ e \in E
        /\ g[b] = <<e>> \o f[b] /\ \A x \in X \ {b} : g[x] = f[x]
    BY DEF Fronts
  <1> USE <1>0
  <1> DEFINE m == Len(f[b])
  <1>1. m \in Nat /\ DOMAIN f = X /\ DOMAIN g = X
    OBVIOUS
  <1>2. /\ DOMAIN f[b] = 1 .. m /\ DOMAIN g[b] = 1 .. m + 1
        /\ \A i \in 1 .. m : g[b][i + 1] = f[b][i]
        /\ g[b][1] = e
    <2>1. Len(<<e>>) = 1 /\ <<e>> \in Seq(E) /\ <<e>>[1] = e
      OBVIOUS
    <2>2. Len(g[b]) = 1 + m /\ g[b][1] = e /\ \A i \in 2 .. 1 + m : g[b][i] = f[b][i - 1]
      BY <2>1, ConcatProperties
    <2>3. \A i \in 1 .. m : i + 1 \in 2 .. 1 + m /\ (i + 1) - 1 = i
      OBVIOUS
    <2> QED
      BY <1>1, <2>2, <2>3
  <1> HIDE DEF m
  <1>3. g[b] # <<>> /\ Head(g[b]) = e /\ f[b] = Tail(g[b])
    <2>1. Len(g[b]) = m + 1 /\ g[b] # <<>> /\ Head(g[b]) = e
      BY <1>1, <1>2
    <2>2. Len(Tail(g[b])) = m /\ Tail(g[b]) \in Seq(E) /\ \A i \in 1 .. m : Tail(g[b])[i] = g[b][i + 1]
      BY <1>1, <2>1, HeadTailProperties
    <2>3. f[b] = Tail(g[b])
      BY <1>2, <2>2, SeqEqual DEF m
    <2> QED
      BY <2>1, <2>3
  <1>4. Content(g) = Content(f) \cup {e}
    <2>1. ASSUME NEW x \in X, NEW i \in DOMAIN g[x], g[x][i] # e PROVE g[x][i] \in Content(f)
      <3>1. CASE x = b
        <4>1. i \in 1 .. m + 1 /\ i # 1
          BY <1>2, <2>1, <3>1
        <4>2. i - 1 \in 1 .. m /\ (i - 1) + 1 = i
          BY <1>1, <4>1
        <4> QED
          BY <1>1, <1>2, <3>1, <4>2, ContentShape
      <3>2. CASE x # b
        BY <1>1, <3>2, ContentShape
      <3> QED
        BY <3>1, <3>2
    <2>2. ASSUME NEW x \in X, NEW i \in DOMAIN f[x] PROVE f[x][i] \in Content(g)
      <3>1. CASE x = b
        <4>1. i \in 1 .. m /\ i + 1 \in 1 .. m + 1
          BY <1>1, <1>2, <2>2, <3>1
        <4> QED
          BY <1>1, <1>2, <3>1, <4>1, ContentShape
      <3>2. CASE x # b
        BY <1>1, <3>2, ContentShape
      <3> QED
        BY <3>1, <3>2
    <2>3. e \in Content(g)
      <3>1. 1 \in DOMAIN g[b]
        BY <1>1, <1>2
      <3> QED
        BY <1>1, <1>2, <3>1, ContentShape
    <2> QED
      BY <1>1, <2>1, <2>2, <2>3, ContentShape
  <1>5. ASSUME NEW p \in Positions(g), p # <<b, 1>>
        PROVE  \E q \in Positions(f) : Element(f, q) = Element(g, p)
                  /\ q = IF p[1] = b THEN <<b, p[2] - 1>> ELSE p
    <2>1. p = <<p[1], p[2]>> /\ p[1] \in X /\ p[2] \in DOMAIN g[p[1]]
      BY <1>1, PositionShape
    <2>2. CASE p[1] = b
      <3>1. p[2] \in 1 .. m + 1 /\ p[2] # 1
        BY <1>2, <1>5, <2>1, <2>2
      <3>2. p[2] - 1 \in 1 .. m /\ (p[2] - 1) + 1 = p[2]
        BY <1>1, <3>1
      <3>3. <<b, p[2] - 1>> \in Positions(f) /\ Element(f, <<b, p[2] - 1>>) = Element(g, p)
        BY <1>1, <1>2, <2>2, <3>2, PositionShape DEF Element
      <3> QED
        BY <2>2, <3>3
    <2>3. CASE p[1] # b
      <3>1. g[p[1]] = f[p[1]]
        BY <2>1, <2>3
      <3>2. p \in Positions(f) /\ Element(f, p) = Element(g, p)
        BY <1>1, <2>1, <3>1, PositionShape DEF Element
      <3> QED
        BY <2>3, <3>2
    <2> QED
      BY <2>2, <2>3
  <1>6. <<b, 1>> \in Positions(g) /\ Element(g, <<b, 1>>) = e
    BY <1>1, <1>2, PositionShape DEF Element
  <1>7. ASSUME NEW R, Separate(R, f), \A d \in Content(f) : <<d, e>> \in R /\ <<e, d>> \in R
        PROVE  Separate(R, g)
    <2>1. ASSUME NEW p \in Positions(g), NEW q \in Positions(g), p # q
          PROVE  <<Element(g, p), Element(g, q)>> \in R
      <3>1. CASE p # <<b, 1>> /\ q # <<b, 1>>
        <4>1. PICK x \in Positions(f) : Element(f, x) = Element(g, p)
                 /\ x = IF p[1] = b THEN <<b, p[2] - 1>> ELSE p
          BY <1>5, <3>1
        <4>2. PICK y \in Positions(f) : Element(f, y) = Element(g, q)
                 /\ y = IF q[1] = b THEN <<b, q[2] - 1>> ELSE q
          BY <1>5, <3>1
        <4>3. /\ p = <<p[1], p[2]>> /\ p[1] \in X /\ p[2] \in DOMAIN g[p[1]]
              /\ q = <<q[1], q[2]>> /\ q[1] \in X /\ q[2] \in DOMAIN g[q[1]]
          BY <1>1, PositionShape
        <4>4. (p[1] = b => p[2] \in 1 .. m + 1) /\ (q[1] = b => q[2] \in 1 .. m + 1)
          BY <1>2, <4>3
        <4>5. x # y
          <5>1. ASSUME x = y PROVE p[1] = q[1] /\ p[2] = q[2]
            <6>1. CASE p[1] = b
              BY <4>1, <4>2, <4>4, <5>1, <6>1
            <6>2. CASE p[1] # b
              BY <4>1, <4>2, <4>3, <4>4, <5>1, <6>2
            <6> QED
              BY <6>1, <6>2
          <5> QED
            BY <2>1, <4>3, <5>1
        <4> QED
          BY <1>7, <4>1, <4>2, <4>5 DEF Separate
      <3>2. CASE p = <<b, 1>>
        <4>1. Element(g, q) \in Content(f)
          BY <1>5, <2>1, <3>2 DEF Content
        <4> QED
          BY <1>6, <1>7, <3>2, <4>1
      <3>3. CASE q = <<b, 1>>
        <4>1. Element(g, p) \in Content(f)
          BY <1>5, <2>1, <3>3 DEF Content
        <4> QED
          BY <1>6, <1>7, <3>3, <4>1
      <3> QED
        BY <3>1, <3>2, <3>3
    <2> QED
      BY <2>1 DEF Separate
  <1> QED
    BY <1>4, <1>7

-----------------------------------------------------------------------------
\* The number of the place q: how many coarse chunks end before it, and how
\* many places there are before it in its own.
Below(q) == Cuts \cap (1 .. q - 1)
Since(q) == {r \in 1 .. q - 1 : \A x \in r .. q - 1 : x \notin Cuts}
Number(q) == <<Cardinality(Below(q)), Cardinality(Since(q))>>

LEMMA NumberType ==
    ASSUME NEW q \in Nat
    PROVE  /\ IsFiniteSet(Below(q)) /\ IsFiniteSet(Since(q))
           /\ Number(q) \in Nat \X Nat
           /\ Number(q)[1] = Cardinality(Below(q)) /\ Number(q)[2] = Cardinality(Since(q))
  <1>1. IsFiniteSet(1 .. q - 1)
    BY FS_Interval
  <1>2. Below(q) \subseteq 1 .. q - 1 /\ Since(q) \subseteq 1 .. q - 1
    BY DEF Below, Since
  <1> QED
    BY <1>1, <1>2, FS_Subset, FS_CardinalityType DEF Number

LEMMA NumberFirst == Number(1) = <<0, 0>>
  <1>1. Below(1) = {} /\ Since(1) = {}
    BY DEF Below, Since
  <1> QED
    BY <1>1, FS_EmptySet DEF Number

LEMMA NumberNext ==
    ASSUME NEW q \in Nat \ {0}
    PROVE  Number(q + 1) = IF q \in Cuts THEN <<Number(q)[1] + 1, 0>>
                           ELSE <<Number(q)[1], Number(q)[2] + 1>>
  <1>1. 1 .. (q + 1) - 1 = (1 .. q - 1) \cup {q} /\ q \notin 1 .. q - 1
    OBVIOUS
  <1>2. /\ IsFiniteSet(Below(q)) /\ IsFiniteSet(Since(q))
        /\ Number(q)[1] = Cardinality(Below(q)) /\ Number(q)[2] = Cardinality(Since(q))
    BY NumberType
  <1>3. q \notin Below(q) /\ q \notin Since(q)
    BY <1>1 DEF Below, Since
  <1>4. CASE q \in Cuts
    <2>1. Below(q + 1) = Below(q) \cup {q}
      BY <1>1, <1>4 DEF Below
    <2>2. Since(q + 1) = {}
      <3>1. ASSUME NEW r \in 1 .. (q + 1) - 1 PROVE q \in r .. (q + 1) - 1
        OBVIOUS
      <3> QED
        BY <1>4, <3>1 DEF Since
    <2>3. Cardinality(Below(q) \cup {q}) = Cardinality(Below(q)) + 1 /\ Cardinality({}) = 0
      BY <1>2, <1>3, FS_AddElement, FS_EmptySet
    <2>4. Number(q + 1) = <<Cardinality(Below(q)) + 1, 0>>
      BY <2>1, <2>2, <2>3 DEF Number
    <2> QED
      BY <1>2, <1>4, <2>4
  <1>5. CASE q \notin Cuts
    <2>1. Below(q + 1) = Below(q)
      BY <1>1, <1>5 DEF Below
    <2>2. Since(q + 1) = Since(q) \cup {q}
      <3>1. ASSUME NEW r \in 1 .. q - 1 PROVE r .. (q + 1) - 1 = (r .. q - 1) \cup {q}
        OBVIOUS
      <3>2. q .. (q + 1) - 1 = {q}
        OBVIOUS
      <3> QED
        BY <1>1, <1>5, <3>1, <3>2 DEF Since
    <2>3. /\ Cardinality(Below(q + 1)) = Cardinality(Below(q))
          /\ Cardinality(Since(q + 1)) = Cardinality(Since(q)) + 1
      BY <1>2, <1>3, <2>1, <2>2, FS_AddElement
    <2>4. Number(q + 1) = <<Cardinality(Below(q)), Cardinality(Since(q)) + 1>>
      BY <2>3 DEF Number
    <2> QED
      BY <1>2, <1>5, <2>4
  <1> QED
    BY <1>4, <1>5

\* The order of the numbers, which is that of the places.
Precedes(x, y) == x[1] < y[1] \/ (x[1] = y[1] /\ x[2] < y[2])

LEMMA NumberOrder ==
    ASSUME NEW q \in Nat \ {0}, NEW r \in Nat \ {0}, q < r
    PROVE  Precedes(Number(q), Number(r))
  <1>1. /\ IsFiniteSet(Below(q)) /\ IsFiniteSet(Since(q)) /\ IsFiniteSet(Below(r)) /\ IsFiniteSet(Since(r))
        /\ Number(q)[1] = Cardinality(Below(q)) /\ Number(q)[2] = Cardinality(Since(q))
        /\ Number(r)[1] = Cardinality(Below(r)) /\ Number(r)[2] = Cardinality(Since(r))
        /\ Number(q) \in Nat \X Nat /\ Number(r) \in Nat \X Nat
    BY NumberType
  <1>2. Below(q) \subseteq Below(r)
    BY DEF Below
  <1>3. CASE Below(q) # Below(r)
    <2>1. Cardinality(Below(q)) < Cardinality(Below(r))
      BY <1>1, <1>2, <1>3, FS_Subset, FS_CardinalityType
    <2> QED
      BY <1>1, <2>1 DEF Precedes
  <1>4. CASE Below(q) = Below(r)
    <2>1. \A x \in q .. r - 1 : x \notin Cuts
      <3>1. ASSUME NEW x \in q .. r - 1, x \in Cuts PROVE FALSE
        <4>1. x \in Below(r) /\ x \notin Below(q)
          BY <3>1 DEF Below
        <4> QED
          BY <1>4, <4>1
      <3> QED
        BY <3>1
    <2>2. Since(q) \subseteq Since(r)
      <3>1. ASSUME NEW z \in Since(q) PROVE z \in Since(r)
        <4>1. z \in 1 .. q - 1 /\ \A x \in z .. q - 1 : x \notin Cuts
          BY DEF Since
        <4>2. \A x \in z .. r - 1 : x \in z .. q - 1 \/ x \in q .. r - 1
          BY <4>1
        <4> QED
          BY <2>1, <4>1, <4>2 DEF Since
      <3> QED
        BY <3>1
    <2>3. q \in Since(r) /\ q \notin Since(q)
      BY <2>1 DEF Since
    <2>4. Cardinality(Since(q)) < Cardinality(Since(r))
      BY <1>1, <2>2, <2>3, FS_Subset, FS_CardinalityType
    <2> QED
      BY <1>1, <1>4, <2>4 DEF Precedes
  <1> QED
    BY <1>3, <1>4

LEMMA NumberOnce ==
    ASSUME NEW q \in Nat \ {0}, NEW r \in Nat \ {0}, Number(q) = Number(r)
    PROVE  q = r
  <1>1. ASSUME NEW x \in Nat \X Nat PROVE ~Precedes(x, x)
    BY DEF Precedes
  <1>2. Number(q) \in Nat \X Nat
    BY NumberType
  <1>3. ~(q < r) /\ ~(r < q)
    BY <1>1, <1>2, NumberOrder
  <1> QED
    BY <1>3

\* What can follow on the number of the place k is the number of k + 1 only.
LEMMA NumberFollows ==
    ASSUME NEW k \in Nat \ {0}, NEW p \in Nat \ {0}, NEW n \in Nat \ {0}, k <= n, p <= n,
           \/ k \in Cuts \cup {n} /\ Number(p) = <<Number(k)[1] + 1, 0>>
           \/ Number(p) = <<Number(k)[1], Number(k)[2] + 1>>
    PROVE  p = k + 1
  <1>1. Number(k) \in Nat \X Nat /\ Number(p) \in Nat \X Nat /\ Number(k + 1) \in Nat \X Nat
    BY NumberType
  <1>2. ~(p <= k)
    <2>1. ASSUME p = k PROVE FALSE
      BY <1>1, <2>1
    <2>2. ASSUME p < k PROVE FALSE
      <3>1. Precedes(Number(p), Number(k))
        BY <2>2, NumberOrder
      <3> QED
        BY <1>1, <3>1 DEF Precedes
    <2> QED
      BY <2>1, <2>2
  <1>3. k # n
    BY <1>2
  <1>4. ASSUME k + 1 < p PROVE FALSE
    <2>1. Precedes(Number(k + 1), Number(p))
      BY <1>4, NumberOrder
    <2>2. Number(k + 1) = IF k \in Cuts THEN <<Number(k)[1] + 1, 0>>
                           ELSE <<Number(k)[1], Number(k)[2] + 1>>
      BY NumberNext
    <2> QED
      BY <1>1, <1>3, <2>1, <2>2 DEF Precedes
  <1> QED
    BY <1>2, <1>4

-----------------------------------------------------------------------------
(* Types, and the buffers that lead to a stage: its queues, the recv_bufs  *)
(* of its threads and the send_bufs that are emptied into its queues.      *)

\* Coarse chunks, and what leads to the stage s.
Chunks == [l1 : Nat, from : Nat, to : Nat, buf : Nat, l2 : Nat]
Elem(s) == IF s = "refine" THEN Chunks ELSE Places

\* The names of the buffers.  Every stage has all of them: a buffer that does
\* not lead to it is empty.
Names == ({"que"} \X Queues) \cup ({"recv"} \X (Workers \cup {Reorder}))
           \cup ({"send"} \X (Workers \cup {Fragment}))

RecvAt(s, t) == IF t = Reorder THEN IF s = "reorder" THEN ro.recv ELSE <<>>
                ELSE IF t[1] = s THEN th[t].recv ELSE <<>>
SendAt(s, t) == IF t = Fragment THEN IF s = "refine" THEN fr.send ELSE <<>>
                ELSE IF s \in NextOf[t[1]] THEN th[t].send[s] ELSE <<>>

At(s) == [x \in Names |-> CASE x[1] = "que"  -> que[s][x[2]]
                            [] x[1] = "recv" -> RecvAt(s, x[2])
                            [] x[1] = "send" -> SendAt(s, x[2])]

\* A thread of the pool s, and a fine chunk.
ThreadOf(s) == [pc : {"run", "insert", "drain", "done"}, recv : Seq(Elem(s)),
                found : {0} \cup Places, send : [NextOf[s] -> Seq(Places)]]
FineType == [seq : Nat \X Nat, last : BOOLEAN, buf : Nat,
             state : {"none", "uncompressed", "compressed", "flushed"}, ref : {0} \cup Places]

InputType ==
    /\ file \in Files /\ perQueue \in PerQueue
QueType ==
    /\ que = [s \in Stages |-> que[s]]
    /\ \A s \in Stages : que[s] \in [Queues -> Seq(Elem(s))]
FrType ==
    /\ fr \in [pc : {"read", "split", "drain", "stop", "done"}, pos : 0 .. Len(file), reads : Nat,
               left : Chunks \cup {NoChunk}, cur : Chunks \cup {NoChunk}, anchors : Nat,
               qid : Nat, send : Seq(Chunks)]
    /\ fr.pc \in {"read", "split", "drain"} => fr.qid \in Queues
ThType == th = [w \in Workers |-> th[w]] /\ \A w \in Workers : th[w] \in ThreadOf(w[1])
RoType ==
    /\ ro \in [pc : {"run", "write", "flush", "flushing", "done", "exit"}, recv : Seq(Places),
               qid : Queues, tried : Nat, next : Nat \X Nat, cached : SUBSET Places,
               cur : {0} \cup Places]
    /\ ro.pc \in {"write", "flushing"} <=> ro.cur # 0
DataType ==
    /\ chunk \in [Places -> FineType]
    /\ refs \in [1 .. Len(file) + 2 -> Int]
    /\ \E k \in Nat : perAnchor \in [0 .. k - 1 -> Nat]
    /\ table \in [Buckets -> Seq(Places)]
    /\ bucketLock = [k \in Buckets |-> bucketLock[k]]

Types == InputType /\ QueType /\ FrType /\ ThType /\ RoType /\ DataType

LEMMA StageFacts ==
    /\ Stages = {"refine", "dedup", "compress", "reorder"} /\ Pools = {"refine", "dedup", "compress"}
    /\ NextOf["refine"] = {"dedup"} /\ NextOf["dedup"] = {"compress", "reorder"}
    /\ NextOf["compress"] = {"reorder"}
    /\ \A w \in Workers : w = <<w[1], w[2]>> /\ w[1] \in Pools /\ w[2] \in 0 .. NThreads - 1
          /\ w # Fragment /\ w # Reorder
    /\ Fragment # Reorder
  <1>1. NextOf["refine"] = {"dedup"} /\ NextOf["dedup"] = {"compress", "reorder"}
            /\ NextOf["compress"] = {"reorder"}
    BY DEF NextOf, Pools
  <1>2. \A w \in Workers : w = <<w[1], w[2]>> /\ w[1] \in Pools /\ w[2] \in 0 .. NThreads - 1
    BY DEF Workers
  <1> QED
    BY <1>1, <1>2 DEF Stages, Pools, Fragment, Reorder

LEMMA FileFacts ==
    ASSUME InputType
    PROVE  /\ Len(file) \in Nat /\ Places = 1 .. Len(file) /\ 0 \notin Places /\ Places \subseteq Nat
           /\ \A p \in Places : file[p] \in DOMAIN BucketOf /\ BucketFor(p) \in Buckets
  <1>1. file \in Seq(DOMAIN BucketOf)
    BY InputsAssumption DEF InputType
  <1> QED
    BY <1>1 DEF Places, BucketFor, Buckets

LEMMA QueueFacts ==
    ASSUME InputType
    PROVE  /\ NQueues \in Nat \ {0} /\ Queues = 0 .. NQueues - 1
           /\ \A w \in Workers : QidOf(w) \in Queues
           /\ \A i \in Queues : (i + 1) % NQueues \in Queues
           /\ 0 \in Queues
  <1>1. perQueue \in Nat \ {0} /\ NThreads \in Nat \ {0}
    BY SizesAssumption DEF InputType
  <1>2. ASSUME NEW t \in 0 .. NThreads - 1
        PROVE  t \div perQueue \in Nat /\ t \div perQueue + 1 <= NQueues
    <2>1. t \in Nat /\ NThreads + perQueue - 1 \in Nat /\ t + perQueue <= NThreads + perQueue - 1
      BY <1>1
    <2> QED
      BY <1>1, <2>1, DivMono DEF NQueues
  <1>3. NQueues \in Nat \ {0}
    <2>1. 0 \in 0 .. NThreads - 1 /\ NThreads + perQueue - 1 \in Nat
      BY <1>1
    <2>2. NQueues \in Int
      BY <1>1 DEF NQueues
    <2>3. 0 \div perQueue \in Nat /\ 0 \div perQueue + 1 <= NQueues
      BY <1>2, <2>1
    <2> QED
      BY <2>2, <2>3
  <1>4. \A w \in Workers : QidOf(w) \in Queues
    <2>1. ASSUME NEW w \in Workers PROVE QidOf(w) \in Queues
      <3>1. w[2] \in 0 .. NThreads - 1
        BY StageFacts
      <3>2. QidOf(w) \in Nat /\ QidOf(w) + 1 <= NQueues
        BY <1>2, <3>1 DEF QidOf
      <3> QED
        BY <1>3, <3>2 DEF Queues
    <2> QED
      BY <2>1
  <1>5. \A i \in Queues : (i + 1) % NQueues \in Queues
    <2>1. ASSUME NEW n \in Nat \ {0}, NEW i \in 0 .. n - 1 PROVE (i + 1) % n \in 0 .. n - 1
      OBVIOUS
    <2> QED
      BY <1>3, <2>1 DEF Queues
  <1> QED
    BY <1>3, <1>4, <1>5 DEF Queues

LEMMA NameShapes ==
    /\ \A i : <<"que", i>> \in Names <=> i \in Queues
    /\ \A t : <<"recv", t>> \in Names <=> t \in Workers \cup {Reorder}
    /\ \A t : <<"send", t>> \in Names <=> t \in Workers \cup {Fragment}
    /\ \A x \in Names : \/ x = <<"que", x[2]>> /\ x[2] \in Queues
                        \/ x = <<"recv", x[2]>> /\ x[2] \in Workers \cup {Reorder}
                        \/ x = <<"send", x[2]>> /\ x[2] \in Workers \cup {Fragment}
  BY DEF Names

LEMMA AtValues ==
    ASSUME NEW s
    PROVE  /\ DOMAIN At(s) = Names
           /\ \A i \in Queues : At(s)[<<"que", i>>] = que[s][i]
           /\ At(s)[<<"recv", Reorder>>] = IF s = "reorder" THEN ro.recv ELSE <<>>
           /\ At(s)[<<"send", Fragment>>] = IF s = "refine" THEN fr.send ELSE <<>>
           /\ \A w \in Workers :
                /\ At(s)[<<"recv", w>>] = IF w[1] = s THEN th[w].recv ELSE <<>>
                /\ At(s)[<<"send", w>>] = IF s \in NextOf[w[1]] THEN th[w].send[s] ELSE <<>>
  BY NameShapes, StageFacts DEF At, RecvAt, SendAt

LEMMA AtValuesNext ==
    ASSUME NEW s, perQueue' = perQueue
    PROVE  /\ Names' = Names /\ Queues' = Queues /\ DOMAIN (At(s)') = Names
           /\ At(s)' = [x \in Names |-> At(s)'[x]]
           /\ \A i \in Queues : At(s)'[<<"que", i>>] = que'[s][i]
           /\ At(s)'[<<"recv", Reorder>>] = IF s = "reorder" THEN ro'.recv ELSE <<>>
           /\ At(s)'[<<"send", Fragment>>] = IF s = "refine" THEN fr'.send ELSE <<>>
           /\ \A w \in Workers :
                /\ At(s)'[<<"recv", w>>] = IF w[1] = s THEN th'[w].recv ELSE <<>>
                /\ At(s)'[<<"send", w>>] = IF s \in NextOf[w[1]] THEN th'[w].send[s] ELSE <<>>
  <1>1. Names' = Names /\ Queues' = Queues
    BY DEF Names, Queues, NQueues
  <1> QED
    BY <1>1, NameShapes, StageFacts DEF At, RecvAt, SendAt

LEMMA AtType == Types => \A s \in Stages : At(s) \in [Names -> Seq(Elem(s))]
  <1> SUFFICES ASSUME Types, NEW s \in Stages
               PROVE  At(s) \in [Names -> Seq(Elem(s))]
    OBVIOUS
  <1>1. <<>> \in Seq(Elem(s))
    OBVIOUS
  <1>2. ASSUME NEW w \in Workers
        PROVE  /\ w[1] = s => th[w].recv \in Seq(Elem(s))
               /\ s \in NextOf[w[1]] => th[w].send[s] \in Seq(Elem(s))
    <2>1. w[1] \in Pools /\ th[w] \in ThreadOf(w[1])
      BY StageFacts DEF Types, ThType
    <2>2. th[w].recv \in Seq(Elem(w[1])) /\ th[w].send \in [NextOf[w[1]] -> Seq(Places)]
      BY <2>1 DEF ThreadOf
    <2>3. s \in NextOf[w[1]] => Elem(s) = Places
      BY <2>1, StageFacts DEF Elem
    <2> QED
      BY <2>2, <2>3
  <1>3. ro.recv \in Seq(Places) /\ fr.send \in Seq(Chunks)
    BY DEF Types, RoType, FrType
  <1>4. \A i \in Queues : que[s][i] \in Seq(Elem(s))
    BY DEF Types, QueType
  <1>5. (s = "reorder" => Elem(s) = Places) /\ (s = "refine" => Elem(s) = Chunks)
    BY DEF Elem
  <1>6. ASSUME NEW x \in Names PROVE At(s)[x] \in Seq(Elem(s))
    <2>1. CASE x = <<"que", x[2]>> /\ x[2] \in Queues
      BY <1>4, <2>1, AtValues
    <2>2. CASE x = <<"recv", x[2]>> /\ x[2] \in Workers \cup {Reorder}
      <3>1. CASE x[2] = Reorder
        <4>1. x = <<"recv", Reorder>>
          BY <2>2, <3>1
        <4>2. At(s)[<<"recv", Reorder>>] = IF s = "reorder" THEN ro.recv ELSE <<>>
          BY AtValues
        <4> QED
          BY <1>1, <1>3, <1>5, <4>1, <4>2
      <3>2. CASE x[2] \in Workers
        <4>1. PICK w \in Workers : x = <<"recv", w>>
          BY <2>2, <3>2
        <4>2. At(s)[<<"recv", w>>] = IF w[1] = s THEN th[w].recv ELSE <<>>
          BY AtValues
        <4> QED
          BY <1>1, <1>2, <4>1, <4>2
      <3> QED
        BY <2>2, <3>1, <3>2
    <2>3. CASE x = <<"send", x[2]>> /\ x[2] \in Workers \cup {Fragment}
      <3>1. CASE x[2] = Fragment
        <4>1. x = <<"send", Fragment>>
          BY <2>3, <3>1
        <4>2. At(s)[<<"send", Fragment>>] = IF s = "refine" THEN fr.send ELSE <<>>
          BY AtValues
        <4> QED
          BY <1>1, <1>3, <1>5, <4>1, <4>2
      <3>2. CASE x[2] \in Workers
        <4>1. PICK w \in Workers : x = <<"send", w>>
          BY <2>3, <3>2
        <4>2. At(s)[<<"send", w>>] = IF s \in NextOf[w[1]] THEN th[w].send[s] ELSE <<>>
          BY AtValues
        <4> QED
          BY <1>1, <1>2, <4>1, <4>2
      <3> QED
        BY <2>3, <3>1, <3>2
    <2> QED
      BY <2>1, <2>2, <2>3, NameShapes
  <1> QED
    BY <1>6 DEF At

LEMMA AtTypeNext ==
    ASSUME Types', file' = file, perQueue' = perQueue
    PROVE  \A s \in Stages : At(s)' \in [Names -> Seq(Elem(s))]
  <1>1. Types' => (\A s \in Stages : At(s) \in [Names -> Seq(Elem(s))])'
    BY AtType, PTL
  <1>2. Names' = Names /\ \A s : Elem(s)' = Elem(s)
    BY DEF Names, Queues, NQueues, Elem, Places
  <1> QED
    BY <1>1, <1>2

LEMMA AtElse ==
    ASSUME NEW s, NEW D, perQueue' = perQueue,
           \A i \in Queues : <<"que", i>> \notin D => que'[s][i] = que[s][i],
           s = "reorder" /\ <<"recv", Reorder>> \notin D => ro'.recv = ro.recv,
           s = "refine" /\ <<"send", Fragment>> \notin D => fr'.send = fr.send,
           \A w \in Workers : w[1] = s /\ <<"recv", w>> \notin D => th'[w].recv = th[w].recv,
           \A w \in Workers : s \in NextOf[w[1]] /\ <<"send", w>> \notin D
                => th'[w].send[s] = th[w].send[s]
    PROVE  \A x \in Names \ D : At(s)'[x] = At(s)[x]
  <1>a. \A w \in Workers : At(s)[<<"recv", w>>] = IF w[1] = s THEN th[w].recv ELSE <<>>
    BY ONLY AtValues
  <1>b. \A w \in Workers : At(s)'[<<"recv", w>>] = IF w[1] = s THEN th'[w].recv ELSE <<>>
    BY ONLY AtValuesNext, perQueue' = perQueue
  <1>c. \A w \in Workers : At(s)[<<"send", w>>] = IF s \in NextOf[w[1]] THEN th[w].send[s] ELSE <<>>
    BY ONLY AtValues
  <1>d. \A w \in Workers : At(s)'[<<"send", w>>] = IF s \in NextOf[w[1]] THEN th'[w].send[s] ELSE <<>>
    BY ONLY AtValuesNext, perQueue' = perQueue
  <1> SUFFICES ASSUME NEW x \in Names \ D PROVE At(s)'[x] = At(s)[x]
    OBVIOUS
  <1>1. CASE x = <<"que", x[2]>> /\ x[2] \in Queues
    <2>1. PICK i \in Queues : x = <<"que", i>>
      BY <1>1
    <2> QED
      BY <2>1, AtValues, AtValuesNext
  <1>2. CASE x = <<"recv", x[2]>> /\ x[2] = Reorder
    <2>1. x = <<"recv", Reorder>>
      BY <1>2
    <2>2. CASE s = "reorder"
      BY <2>1, <2>2, AtValues, AtValuesNext
    <2>3. CASE s # "reorder"
      BY <2>1, <2>3, AtValues, AtValuesNext
    <2> QED
      BY <2>2, <2>3
  <1>3. CASE x = <<"recv", x[2]>> /\ x[2] \in Workers
    <2>1. PICK w \in Workers : x = <<"recv", w>>
      BY <1>3
    <2> QED
      BY <1>a, <1>b, <2>1
  <1>4. CASE x = <<"send", x[2]>> /\ x[2] = Fragment
    <2>1. x = <<"send", Fragment>>
      BY <1>4
    <2>2. CASE s = "refine"
      BY <2>1, <2>2, AtValues, AtValuesNext
    <2>3. CASE s # "refine"
      BY <2>1, <2>3, AtValues, AtValuesNext
    <2> QED
      BY <2>2, <2>3
  <1>5. CASE x = <<"send", x[2]>> /\ x[2] \in Workers
    <2>1. PICK w \in Workers : x = <<"send", w>>
      BY <1>5
    <2> QED
      BY <1>c, <1>d, <2>1
  <1> QED
    BY <1>1, <1>2, <1>3, <1>4, <1>5, NameShapes

LEMMA AtSame ==
    ASSUME NEW s, perQueue' = perQueue, \A x \in Names : At(s)'[x] = At(s)[x]
    PROVE  At(s)' = At(s)
  <1>1. At(s)' = [x \in Names |-> At(s)'[x]]
    BY ONLY AtValuesNext, perQueue' = perQueue
  <1>2. At(s) = [x \in Names |-> At(s)[x]]
    BY DEF At
  <1> QED
    BY <1>1, <1>2

\* A step that at most moves elements among the buffers that lead to s.
Kept(s) == Content(At(s)') = Content(At(s)) /\ \A R : Separate(R, At(s)) => Separate(R, At(s)')
AllKept == \A s \in Stages : Kept(s)

LEMMA KeptSame == ASSUME NEW s, At(s)' = At(s) PROVE Kept(s)
  BY DEF Kept

LEMMA KeptMove ==
    ASSUME Types, Types', file' = file, perQueue' = perQueue, NEW s \in Stages,
           NEW a \in Names, NEW b \in Names, a # b, NEW k \in 0 .. Len(At(s)[a]),
           At(s)'[a] = Rest(At(s)[a], k), At(s)'[b] = At(s)[b] \o First(At(s)[a], k),
           \A x \in Names \ {a, b} : At(s)'[x] = At(s)[x]
    PROVE  Kept(s)
  <1>1. At(s) \in [Names -> Seq(Elem(s))] /\ At(s)' \in [Names -> Seq(Elem(s))]
    BY AtType, AtTypeNext
  <1>2. Moves(Names, Elem(s), At(s), At(s)', a, b, k)
    BY <1>1 DEF Moves
  <1> QED
    BY <1>2, Moving DEF Kept

LEMMA AddAt ==
    ASSUME Types, Types', file' = file, perQueue' = perQueue, NEW s \in Stages,
           NEW b \in Names, NEW e \in Elem(s), At(s)'[b] = Append(At(s)[b], e),
           \A x \in Names \ {b} : At(s)'[x] = At(s)[x]
    PROVE  /\ Content(At(s)') = Content(At(s)) \cup {e}
           /\ \A R : /\ Separate(R, At(s))
                     /\ \A d \in Content(At(s)) : <<d, e>> \in R /\ <<e, d>> \in R
                     => Separate(R, At(s)')
  <1>1. At(s) \in [Names -> Seq(Elem(s))] /\ At(s)' \in [Names -> Seq(Elem(s))]
    BY AtType, AtTypeNext
  <1>2. Adds(Names, Elem(s), At(s), At(s)', b, e)
    BY <1>1 DEF Adds
  <1> QED
    BY <1>2, Adding

LEMMA DropAt ==
    ASSUME Types, Types', file' = file, perQueue' = perQueue, NEW s \in Stages,
           NEW a \in Names, At(s)[a] # <<>>, At(s)'[a] = Tail(At(s)[a]),
           \A x \in Names \ {a} : At(s)'[x] = At(s)[x]
    PROVE  /\ Content(At(s)) = Content(At(s)') \cup {Head(At(s)[a])}
           /\ \A R : Separate(R, At(s)) =>
                /\ Separate(R, At(s)')
                /\ \A d \in Content(At(s)') : <<d, Head(At(s)[a])>> \in R /\ <<Head(At(s)[a]), d>> \in R
  <1>1. At(s) \in [Names -> Seq(Elem(s))] /\ At(s)' \in [Names -> Seq(Elem(s))]
    BY AtType, AtTypeNext
  <1>2. Drops(Names, Elem(s), At(s), At(s)', a)
    BY <1>1 DEF Drops
  <1> QED
    BY <1>2, Dropping

\* The head of one buffer is replaced: it is dropped and another one put in front.
Replaces(X, E, f, g, a, d, e) ==
    /\ d = Head(f[a])
    /\ f \in [X -> Seq(E)] /\ g \in [X -> Seq(E)] /\ a \in X /\ e \in E
    /\ f[a] # <<>> /\ g[a] = <<e>> \o Tail(f[a]) /\ \A x \in X \ {a} : g[x] = f[x]
Swap(S, f, g, d, e) ==
    /\ Content(f) = S \cup {d} /\ Content(g) = S \cup {e}
    /\ \A R : Separate(R, f) =>
         /\ \A c \in S : <<c, d>> \in R /\ <<d, c>> \in R
         /\ (\A c \in S : <<c, e>> \in R /\ <<e, c>> \in R) => Separate(R, g)
Swapped(f, g, d, e) == \E S : Swap(S, f, g, d, e)

LEMMA Replacing ==
    ASSUME NEW X, NEW E, NEW f, NEW g, NEW a, NEW d, NEW e, Replaces(X, E, f, g, a, d, e)
    PROVE  Swapped(f, g, d, e)
  <1> DEFINE m == [x \in X |-> IF x = a THEN Tail(f[a]) ELSE f[x]]
  <1>1. /\ d = Head(f[a])
        /\ f \in [X -> Seq(E)] /\ g \in [X -> Seq(E)] /\ a \in X /\ e \in E
        /\ f[a] # <<>> /\ g[a] = <<e>> \o Tail(f[a]) /\ \A x \in X \ {a} : g[x] = f[x]
    BY DEF Replaces
  <1>2. m \in [X -> Seq(E)] /\ m[a] = Tail(f[a]) /\ \A x \in X \ {a} : m[x] = f[x]
    <2>1. f[a] \in Seq(E) /\ f[a] # <<>>
      BY <1>1
    <2>2. Tail(f[a]) \in Seq(E)
      BY <2>1, HeadTailProperties
    <2> QED
      BY <1>1, <2>2
  <1> HIDE DEF m
  <1>3. Drops(X, E, f, m, a)
    BY <1>1, <1>2 DEF Drops
  <1>4. Fronts(X, E, m, g, a, e)
    BY <1>1, <1>2 DEF Fronts
  <1>5. /\ Content(f) = Content(m) \cup {Head(f[a])}
        /\ \A R : Separate(R, f) =>
                /\ Separate(R, m)
                /\ \A y \in Content(m) : <<y, Head(f[a])>> \in R /\ <<Head(f[a]), y>> \in R
    BY <1>3, Dropping
  <1>6. /\ Content(g) = Content(m) \cup {e}
        /\ \A R : /\ Separate(R, m)
                  /\ \A y \in Content(m) : <<y, e>> \in R /\ <<e, y>> \in R
                  => Separate(R, g)
    BY <1>4, Fronting
  <1>7. ASSUME NEW R, Separate(R, f)
        PROVE  /\ \A y \in Content(m) : <<y, Head(f[a])>> \in R /\ <<Head(f[a]), y>> \in R
               /\ (\A y \in Content(m) : <<y, e>> \in R /\ <<e, y>> \in R) => Separate(R, g)
    BY <1>5, <1>6, <1>7
  <1>8. Swap(Content(m), f, g, d, e)
    BY <1>1, <1>5, <1>6, <1>7 DEF Swap
  <1> QED
    BY <1>8 DEF Swapped

LEMMA TurnAt ==
    ASSUME Types, Types', file' = file, perQueue' = perQueue, NEW s \in Stages,
           NEW a \in Names, NEW e \in Elem(s), At(s)[a] # <<>>, At(s)'[a] = <<e>> \o Tail(At(s)[a]),
           \A x \in Names \ {a} : At(s)'[x] = At(s)[x]
    PROVE  Swapped(At(s), At(s)', Head(At(s)[a]), e)
  <1>1. At(s) \in [Names -> Seq(Elem(s))] /\ At(s)' \in [Names -> Seq(Elem(s))]
    BY AtType, AtTypeNext
  <1>2. Replaces(Names, Elem(s), At(s), At(s)', a, Head(At(s)[a]), e)
    BY <1>1 DEF Replaces
  <1> QED
    BY ONLY <1>2, Replacing

-----------------------------------------------------------------------------
(* The invariant of the shared memory.                                     *)

\* The place of the next fine chunk that Fragment has not sent on.
Start == IF fr.left # NoChunk THEN fr.left.from
         ELSE IF fr.cur # NoChunk THEN fr.cur.from ELSE fr.pos + 1
\* Coarse chunks that share no place, and fine chunks that are not the same.
Apart  == {x \in Chunks \X Chunks : x[1].to < x[2].from \/ x[2].to < x[1].from}
Differ == {x \in Nat \X Nat : x[1] # x[2]}
IsLast(p) == p \in Cuts \/ p = Len(file)
\* What Fragment has in hand ends where it has read to, is in the buffer read
\* last, and has the number after all that it cut.
Hand(h) ==
    /\ 1 <= h.from /\ h.from <= h.to /\ h.to = fr.pos
    /\ h.buf = fr.reads /\ 1 <= h.buf /\ h.l2 = 0
    /\ Number(h.from) = <<h.l1, 0>> /\ fr.anchors = h.l1 + 1

HandInv ==
    /\ \A h \in {fr.left, fr.cur} \ {NoChunk} : Hand(h)
    /\ fr.left = NoChunk /\ fr.cur = NoChunk => fr.pos = Len(file) \/ (fr.pos = 0 /\ fr.anchors = 0)
    /\ fr.left # NoChunk => CutsIn(fr.left) = {}
    /\ fr.pc = "read" => fr.cur = NoChunk /\ fr.send = <<>>
    /\ fr.pc = "split" => fr.left = NoChunk /\ fr.cur # NoChunk
    /\ fr.pc \in {"drain", "stop", "done"} => fr.left = NoChunk /\ fr.cur = NoChunk
    /\ fr.reads <= IF fr.pc \in {"read", "split"} THEN fr.pos ELSE fr.pos + 1

\* A coarse chunk on its way to be refined: it ends at a cut, no cut is inside
\* it, none of its places has been refined, and they follow on its number.
CoarseOk(c) ==
    /\ 1 <= c.from /\ c.from <= c.to /\ c.to < Start /\ c.buf \in 1 .. fr.reads
    /\ IsLast(c.to) /\ \A q \in c.from .. c.to - 1 : q \notin Cuts
    /\ \A q \in c.from .. c.to :
         chunk[q].state = "none" /\ Number(q) = <<c.l1, c.l2 + q - c.from>>

\* No two coarse chunks on their way share a place, and no fine chunk is on its
\* way to one pool twice.
SepInv == /\ Separate(Apart, At("refine"))
          /\ Separate(Differ, At("dedup")) /\ Separate(Differ, At("compress"))
CoarseInv == \A c \in Content(At("refine")) : CoarseOk(c)
\* How far the fine chunks on their way to a stage have got.
FineInv ==
    /\ \A p \in Content(At("dedup")) : chunk[p].state = "uncompressed" /\ chunk[p].ref = 0
    /\ \A p \in Content(At("compress")) : chunk[p].state = "uncompressed" /\ chunk[p].ref = p
    /\ \A p \in Content(At("reorder")) \cup ro.cached \cup ({ro.cur} \ {0}) :
          chunk[p].state # "none" /\ chunk[p].ref # 0
InsertInv == \A w \in Workers : th[w].pc = "insert" => w[1] = "dedup" /\ th[w].recv # <<>>
\* A fine chunk that was cut has its number for good, and the chunk it stands
\* for stands for itself.
ChunkInv ==
    \A p \in Places :
        /\ chunk[p].state # "none" => /\ p < Start /\ chunk[p].buf \in 1 .. fr.reads
                                      /\ chunk[p].seq = Number(p) /\ (chunk[p].last <=> IsLast(p))
        /\ chunk[p].state = "none" => chunk[p].buf = 0 /\ chunk[p].ref = 0
        /\ chunk[p].ref # 0 => chunk[chunk[p].ref].ref = chunk[p].ref
\* So does every entry of the hash table and every entry found in it.
RefInv ==
    /\ \A k \in Buckets : \A n \in DOMAIN table[k] : chunk[table[k][n]].ref = table[k][n]
    /\ \A w \in Workers : th[w].found # 0 => chunk[th[w].found].ref = th[w].found

\* The counts follow from all of this and not from less: that a thread's
\* reference is its own is that no chunk is on its way twice.
MemInv == /\ Types /\ HandInv /\ SepInv /\ CoarseInv /\ FineInv /\ InsertInv
          /\ ChunkInv /\ RefInv /\ RefsCountHolders

\* Of every step: the input and the queues are chosen at the start.
Framed == file' = file /\ perQueue' = perQueue

LEMMA InputNext == ASSUME Types, Framed
                   PROVE  InputType' /\ Places' = Places /\ Queues' = Queues /\ Names' = Names
  BY DEF Types, InputType, Framed, Places, Queues, Names, NQueues

LEMMA QueNext ==
    ASSUME Types, Framed, NEW s \in Stages, NEW i \in Queues, NEW q \in Seq(Elem(s)),
           que' = [que EXCEPT ![s][i] = q]
    PROVE  /\ QueType' /\ que'[s][i] = q /\ \A j \in Queues \ {i} : que'[s][j] = que[s][j]
           /\ \A r \in Stages \ {s} : que'[r] = que[r]
  <1>1. Queues' = Queues /\ \A r : Elem(r)' = Elem(r)
    BY DEF Framed, Queues, NQueues, Elem, Places
  <1>2. que = [r \in Stages |-> que[r]] /\ \A r \in Stages : que[r] \in [Queues -> Seq(Elem(r))]
    BY DEF Types, QueType
  <1>3. que'[s] = [que[s] EXCEPT ![i] = q] /\ \A r \in Stages \ {s} : que'[r] = que[r]
    BY <1>2
  <1>4. que'[s] \in [Queues -> Seq(Elem(s))] /\ que'[s][i] = q /\ \A j \in Queues \ {i} : que'[s][j] = que[s][j]
    BY <1>2, <1>3
  <1>5. que' = [r \in Stages |-> que'[r]]
    BY <1>2
  <1> QED
    BY <1>1, <1>2, <1>3, <1>4, <1>5 DEF QueType

LEMMA QueStays == ASSUME Types, Framed, que' = que PROVE QueType'
  <1>1. Queues' = Queues /\ \A r : Elem(r)' = Elem(r)
    BY DEF Framed, Queues, NQueues, Elem, Places
  <1> QED
    BY <1>1 DEF Types, QueType

LEMMA Batch ==
    ASSUME Types, NEW s \in Stages, NEW i \in Queues
    PROVE  /\ \A m \in Nat \ {0} : Takes(s, i, m) \in 0 .. Len(que[s][i])
           /\ \A E : \A b \in Seq(E) : \A m \in Nat \ {0} :
                Len(que[s][i]) < QueueSize => Fits(s, i, b, m) \in 0 .. Len(b)
  <1>1. que[s][i] \in Seq(Elem(s)) /\ Len(que[s][i]) \in Nat /\ QueueSize \in Nat
    <2>1. que[s] \in [Queues -> Seq(Elem(s))]
      BY DEF Types, QueType
    <2> QED
      BY <2>1, SizesAssumption
  <1>2. ASSUME NEW m \in Nat \ {0} PROVE Takes(s, i, m) \in 0 .. Len(que[s][i])
    <2>1. Len(que[s][i]) \in Int /\ m \in Int
      BY <1>1
    <2>2. /\ Min({Len(que[s][i]), m}) \in {Len(que[s][i]), m}
          /\ Min({Len(que[s][i]), m}) <= Len(que[s][i])
      BY <2>1, LeastOfTwo
    <2> QED
      BY <1>1, <2>2 DEF Takes
  <1>3. ASSUME NEW E, NEW b \in Seq(E), NEW m \in Nat \ {0}, Len(que[s][i]) < QueueSize
        PROVE  Fits(s, i, b, m) \in 0 .. Len(b)
    <2>1. Len(b) \in Nat /\ Len(b) \in Int /\ m \in Int /\ QueueSize - Len(que[s][i]) \in Nat
          /\ QueueSize - Len(que[s][i]) \in Int
      BY <1>1, <1>3
    <2>2. Fits(s, i, b, m) \in {Len(b), m, QueueSize - Len(que[s][i])} /\ Fits(s, i, b, m) <= Len(b)
      BY <2>1, LeastOfThree DEF Fits
    <2> QED
      BY <2>1, <2>2
  <1> QED
    BY <1>2, <1>3

-----------------------------------------------------------------------------
(* What each action does to the types and to the buffers.  An operation of *)
(* queue.c moves a batch, so it keeps what leads to each stage.            *)

LEMMA ThNext ==
    ASSUME Types, Framed, NEW w \in Workers, NEW v \in ThreadOf(w[1]), th' = [th EXCEPT ![w] = v]
    PROVE  ThType' /\ th'[w] = v /\ \A u \in Workers \ {w} : th'[u] = th[u]
  <1>1. th = [u \in Workers |-> th[u]] /\ \A u \in Workers : th[u] \in ThreadOf(u[1])
    BY DEF Types, ThType
  <1>2. th'[w] = v /\ (\A u \in Workers \ {w} : th'[u] = th[u]) /\ th' = [u \in Workers |-> th'[u]]
    BY <1>1
  <1>3. \A s : ThreadOf(s)' = ThreadOf(s)
    BY DEF ThreadOf, Elem, Places, Framed
  <1>4. \A u \in Workers : th'[u] \in ThreadOf(u[1])
    BY <1>1, <1>2
  <1> QED
    BY <1>2, <1>3, <1>4 DEF ThType

LEMMA ThIs ==
    ASSUME Types, NEW w \in Workers
    PROVE  /\ th = [u \in Workers |-> th[u]] /\ w[1] \in Pools /\ QidOf(w) \in Queues
           /\ th[w] \in ThreadOf(w[1])
           /\ th[w] = [pc |-> th[w].pc, recv |-> th[w].recv, found |-> th[w].found, send |-> th[w].send]
           /\ th[w].pc \in {"run", "insert", "drain", "done"} /\ th[w].recv \in Seq(Elem(w[1]))
           /\ th[w].found \in {0} \cup Places /\ th[w].send \in [NextOf[w[1]] -> Seq(Places)]
  <1>1. th = [u \in Workers |-> th[u]] /\ th[w] \in ThreadOf(w[1])
    BY DEF Types, ThType
  <1>2. w[1] \in Pools /\ QidOf(w) \in Queues
    BY StageFacts, QueueFacts DEF Types
  <1> QED
    BY <1>1, <1>2 DEF ThreadOf

LEMMA NextOfPool == \A w \in Workers : \A s \in NextOf[w[1]] : s \in Stages /\ s # w[1] /\ s # "refine" /\ Elem(s) = Places
  BY StageFacts DEF Elem

LEMMA ThStays == ASSUME Types, Framed, th' = th PROVE ThType'
  BY DEF Types, ThType, ThreadOf, Elem, Places, Framed
LEMMA FrStays == ASSUME Types, Framed, fr' = fr PROVE FrType'
  <1>1. Queues' = Queues
    BY DEF Framed, Queues, NQueues
  <1> QED
    BY <1>1 DEF Types, FrType, Framed
LEMMA RoStays == ASSUME Types, Framed, ro' = ro PROVE RoType'
  <1>1. Queues' = Queues /\ Places' = Places
    BY DEF Framed, Queues, NQueues, Places
  <1> QED
    BY <1>1 DEF Types, RoType, Framed
LEMMA DataStays ==
    ASSUME Types, Framed, chunk' = chunk, refs' = refs, perAnchor' = perAnchor, table' = table,
           bucketLock' = [k \in Buckets |-> bucketLock'[k]]
    PROVE  DataType'
  <1>1. Places' = Places
    BY DEF Framed, Places
  <1> QED
    BY <1>1 DEF Types, DataType, Framed, FineType
LEMMA LockIs == ASSUME Types PROVE bucketLock = [k \in Buckets |-> bucketLock[k]]
  BY DEF Types, DataType

\* A step that no insertion begins with.
ThQuiet == \A u \in Workers : /\ th'[u].found = th[u].found
                              /\ th'[u].pc = "insert" => th[u].pc = "insert" /\ th'[u].recv = th[u].recv

\* Steps that leave every buffer alone.
LEMMA SameBuffers ==
    ASSUME Framed, que' = que, fr'.send = fr.send, ro'.recv = ro.recv,
           \A u \in Workers : th'[u].recv = th[u].recv /\ th'[u].send = th[u].send
    PROVE  AllKept
  <1>1. ASSUME NEW s \in Stages PROVE Kept(s)
    <2>1. \A x \in Names \ {} : At(s)'[x] = At(s)[x]
      BY AtElse DEF Framed
    <2>2. At(s)' = At(s)
      BY <2>1, AtSame DEF Framed
    <2> QED
      BY <2>2, KeptSame
  <1> QED
    BY <1>1 DEF AllKept

LEMMA FetchStep ==
    ASSUME Types, NEW w \in Workers, Fetch(w)
    PROVE  Types' /\ AllKept /\ ThQuiet
  <1>1. Framed /\ Unchanged_Data
    BY DEF Fetch, Unchanged_Data, Framed
  <1> DEFINE s == w[1]
             i == QidOf(w)
  <1>2. s \in Stages /\ i \in Queues /\ th[w].pc = "run" /\ th[w].recv = <<>>
    BY ThIs DEF Fetch, Stages
  <1>3. FrType' /\ RoType' /\ DataType' /\ InputType' /\ fr' = fr /\ ro' = ro
    BY <1>1, FrStays, RoStays, DataStays, LockIs, InputNext DEF Unchanged_Data
  <1>4. CASE DequeueWaits(w, s, i) /\ th' = th
    <2>1. que' = que
      BY <1>4 DEF DequeueWaits
    <2>2. Types' /\ AllKept
      BY <1>1, <1>3, <1>4, <2>1, QueStays, ThStays, SameBuffers DEF Types
    <2> QED
      BY <1>4, <2>2 DEF ThQuiet
  <1>5. CASE DequeueEnds(w, s, i) /\ th' = [th EXCEPT ![w].pc = "drain"]
    <2>1. que' = que
      BY <1>5 DEF DequeueEnds, queueVars
    <2> DEFINE v == [th[w] EXCEPT !.pc = "drain"]
    <2>2. v \in ThreadOf(s) /\ v.recv = th[w].recv /\ v.send = th[w].send /\ v.found = th[w].found
          /\ v.pc = "drain"
      BY ThIs DEF ThreadOf
    <2>3. th' = [th EXCEPT ![w] = v]
      BY <1>5, ThIs
    <2> HIDE DEF v
    <2>4. ThType' /\ th'[w] = v /\ \A u \in Workers \ {w} : th'[u] = th[u]
      BY <1>1, <2>2, <2>3, ThNext
    <2>5. Types'
      BY <1>1, <1>3, <2>1, <2>4, QueStays DEF Types
    <2>6. \A u \in Workers : th'[u].recv = th[u].recv /\ th'[u].send = th[u].send
      BY <2>2, <2>4
    <2>7. AllKept
      BY <1>1, <1>3, <2>1, <2>6, SameBuffers
    <2> QED
      BY <2>2, <2>4, <2>5, <2>7 DEF ThQuiet
  <1>6. ASSUME NEW m \in Nat \ {0}, Dequeue(w, s, i, m),
               th' = [th EXCEPT ![w].recv = First(que[s][i], Takes(s, i, m))]
        PROVE  Types' /\ AllKept /\ ThQuiet
    <2> DEFINE k == Takes(s, i, m)
               q == que[s][i]
               v == [th[w] EXCEPT !.recv = First(q, k)]
    <2>1. q \in Seq(Elem(s)) /\ k \in 0 .. Len(q)
      <3>1. que[s] \in [Queues -> Seq(Elem(s))]
        BY <1>2 DEF Types, QueType
      <3> QED
        BY <1>2, <3>1, Batch
    <2>2. que' = [que EXCEPT ![s][i] = Rest(q, k)]
      BY <1>6 DEF Dequeue
    <2> HIDE DEF k
    <2>3. First(q, k) \in Seq(Elem(s)) /\ Rest(q, k) \in Seq(Elem(s))
      BY <2>1, Parts
    <2>4. v \in ThreadOf(s) /\ v.recv = First(q, k) /\ v.send = th[w].send /\ v.found = th[w].found
          /\ v.pc = "run"
      BY <1>2, <2>3, ThIs DEF ThreadOf
    <2>5. th' = [th EXCEPT ![w] = v]
      BY <1>6, ThIs DEF k
    <2> HIDE DEF v, q
    <2>6. ThType' /\ th'[w] = v /\ \A u \in Workers \ {w} : th'[u] = th[u]
      BY <1>1, <2>4, <2>5, ThNext
    <2>7. /\ QueType' /\ que'[s][i] = Rest(q, k) /\ \A j \in Queues \ {i} : que'[s][j] = que[s][j]
          /\ \A r \in Stages \ {s} : que'[r] = que[r]
      BY <1>1, <1>2, <2>2, <2>3, QueNext
    <2>8. Types'
      BY <1>3, <2>6, <2>7 DEF Types
    <2>9. ASSUME NEW r \in Stages, r # s PROVE Kept(r)
      <3>0. /\ perQueue' = perQueue /\ que'[r] = que[r]
            /\ \A u \in Workers : u[1] = r => th'[u].recv = th[u].recv
            /\ \A u \in Workers : th'[u].send = th[u].send
        BY <1>1, <2>4, <2>6, <2>7, <2>9 DEF Framed
      <3>1. \A x \in Names \ {} : At(r)'[x] = At(r)[x]
        BY <1>3, <3>0, AtElse
      <3> QED
        BY <1>1, <3>1, AtSame, KeptSame DEF Framed
    <2>10. Kept(s)
      <3> DEFINE a == <<"que", i>>
                 b == <<"recv", w>>
      <3>1. a \in Names /\ b \in Names /\ a # b
        BY <1>2, NameShapes
      <3>2. At(s)[a] = q /\ At(s)[b] = <<>> /\ At(s)'[a] = Rest(q, k) /\ At(s)'[b] = First(q, k)
        <4>1. At(s)[a] = q /\ At(s)'[a] = Rest(q, k)
          BY <1>1, <1>2, <2>7, AtValues, AtValuesNext DEF Framed, q
        <4>2. At(s)[b] = <<>> /\ At(s)'[b] = First(q, k)
          BY <1>1, <1>2, <2>4, <2>6, AtValues, AtValuesNext DEF Framed
        <4> QED
          BY <4>1, <4>2
      <3>3. At(s)'[b] = At(s)[b] \o First(At(s)[a], k)
        BY <2>3, <3>2
      <3>4. \A x \in Names \ {a, b} : At(s)'[x] = At(s)[x]
        <4>1. perQueue' = perQueue /\ \A j \in Queues : <<"que", j>> \notin {a, b} => que'[s][j] = que[s][j]
          BY <1>1, <2>7 DEF Framed
        <4>2. \A u \in Workers : <<"recv", u>> \notin {a, b} => th'[u].recv = th[u].recv
          BY <2>6
        <4>3. \A u \in Workers : th'[u].send = th[u].send
          BY <2>4, <2>6
        <4> HIDE DEF a, b
        <4> QED
          BY <1>3, <4>1, <4>2, <4>3, AtElse
      <3> HIDE DEF a, b
      <3> QED
        BY <1>1, <1>2, <2>1, <2>8, <3>1, <3>2, <3>3, <3>4, KeptMove DEF Framed
    <2> QED
      BY <2>4, <2>6, <2>8, <2>9, <2>10 DEF ThQuiet, AllKept
  <1> QED
    <2>1. PICK m \in Nat \ {0} : m = IF s = "refine" THEN MaxPerFetch ELSE PerFetch
      BY SizesAssumption
    <2> QED
      BY <1>4, <1>5, <1>6, <2>1 DEF Fetch

LEMMA SendStep ==
    ASSUME Types, NEW w \in Workers, NEW s \in Stages, Send(w, s)
    PROVE  Types' /\ AllKept /\ ThQuiet
  <1>1. Framed /\ Unchanged_Data
    BY DEF Send, Unchanged_Data, Framed
  <1> DEFINE i == QidOf(w)
             buf == th[w].send[s]
  <1>2. /\ i \in Queues /\ th[w].pc \in {"run", "drain"} /\ s \in NextOf[w[1]] /\ Elem(s) = Places
        /\ s # w[1] /\ s # "refine" /\ buf \in Seq(Places)
    BY ThIs, NextOfPool DEF Send
  <1>3. FrType' /\ RoType' /\ DataType' /\ InputType' /\ fr' = fr /\ ro' = ro
    BY <1>1, FrStays, RoStays, DataStays, LockIs, InputNext DEF Unchanged_Data
  <1>4. CASE EnqueueWaits(w, s, i) /\ th' = th
    <2>1. que' = que
      BY <1>4 DEF EnqueueWaits
    <2>2. Types' /\ AllKept
      BY <1>1, <1>3, <1>4, <2>1, QueStays, ThStays, SameBuffers DEF Types
    <2> QED
      BY <1>4, <2>2 DEF ThQuiet
  <1>5. CASE Enqueue(w, s, i, buf, PerInsert)
              /\ th' = [th EXCEPT ![w].send[s] = Rest(@, Fits(s, i, buf, PerInsert))]
    <2> DEFINE k == Fits(s, i, buf, PerInsert)
               q == que[s][i]
               v == [th[w] EXCEPT !.send = [@ EXCEPT ![s] = Rest(buf, k)]]
    <2>1. q \in Seq(Places) /\ k \in 0 .. Len(buf)
      <3>1. que[s] \in [Queues -> Seq(Elem(s))]
        BY DEF Types, QueType
      <3>2. Len(que[s][i]) < QueueSize /\ PerInsert \in Nat \ {0}
        BY <1>5, SizesAssumption DEF Enqueue
      <3> QED
        BY <1>2, <3>1, <3>2, Batch
    <2>2. que' = [que EXCEPT ![s][i] = q \o First(buf, k)]
      BY <1>5 DEF Enqueue
    <2> HIDE DEF k
    <2>3. /\ First(buf, k) \in Seq(Places) /\ Rest(buf, k) \in Seq(Places)
          /\ q \o First(buf, k) \in Seq(Elem(s))
      <3>1. First(buf, k) \in Seq(Places) /\ Rest(buf, k) \in Seq(Places)
        BY <1>2, <2>1, Parts
      <3> HIDE DEF buf, q
      <3> QED
        BY <1>2, <2>1, <3>1
    <2>4. v \in ThreadOf(w[1]) /\ v.recv = th[w].recv /\ v.found = th[w].found /\ v.pc = th[w].pc
          /\ v.send[s] = Rest(buf, k) /\ \A r \in NextOf[w[1]] \ {s} : v.send[r] = th[w].send[r]
      <3>1. /\ th[w] = [pc |-> th[w].pc, recv |-> th[w].recv, found |-> th[w].found, send |-> th[w].send]
            /\ th[w].send \in [NextOf[w[1]] -> Seq(Places)]
        BY ThIs
      <3>2. v.recv = th[w].recv /\ v.found = th[w].found /\ v.pc = th[w].pc
        BY <3>1
      <3>3. v.send = [th[w].send EXCEPT ![s] = Rest(buf, k)]
        BY <3>1
      <3>4. [th[w].send EXCEPT ![s] = Rest(buf, k)] \in [NextOf[w[1]] -> Seq(Places)]
        BY <2>3, <3>1
      <3>5. th[w] \in ThreadOf(w[1])
        BY ThIs
      <3>6. v \in ThreadOf(w[1])
        BY <3>4, <3>5 DEF ThreadOf
      <3> QED
        BY <1>2, <3>1, <3>2, <3>3, <3>6
    <2>5. th' = [th EXCEPT ![w] = v]
      <3>1. th' = [th EXCEPT ![w] = [th[w] EXCEPT !.send = [th[w].send EXCEPT ![s] = Rest(buf, k)]]]
        BY <1>5, ThIs DEF k
      <3> QED
        BY <3>1
    <2> HIDE DEF v, q, buf
    <2>6. ThType' /\ th'[w] = v /\ \A u \in Workers \ {w} : th'[u] = th[u]
      BY <1>1, <2>4, <2>5, ThNext
    <2>7. /\ QueType' /\ que'[s][i] = q \o First(buf, k) /\ \A j \in Queues \ {i} : que'[s][j] = que[s][j]
          /\ \A r \in Stages \ {s} : que'[r] = que[r]
      BY <1>1, <1>2, <2>2, <2>3, QueNext
    <2>8. Types'
      BY <1>3, <2>6, <2>7 DEF Types
    <2>9. ASSUME NEW r \in Stages, r # s PROVE Kept(r)
      <3>0. /\ perQueue' = perQueue /\ que'[r] = que[r]
            /\ \A u \in Workers : th'[u].recv = th[u].recv
            /\ \A u \in Workers : r \in NextOf[u[1]] => th'[u].send[r] = th[u].send[r]
        BY <1>1, <2>4, <2>6, <2>7, <2>9 DEF Framed
      <3>1. \A x \in Names \ {} : At(r)'[x] = At(r)[x]
        BY <1>3, <3>0, AtElse
      <3> QED
        BY <1>1, <3>1, AtSame, KeptSame DEF Framed
    <2>10. Kept(s)
      <3> DEFINE a == <<"send", w>>
                 b == <<"que", i>>
      <3>1. a \in Names /\ b \in Names /\ a # b
        BY <1>2, NameShapes
      <3>2. At(s)[a] = buf /\ At(s)[b] = q /\ At(s)'[a] = Rest(buf, k) /\ At(s)'[b] = q \o First(buf, k)
        <4>1. At(s)[b] = q /\ At(s)'[b] = q \o First(buf, k)
          BY <1>1, <1>2, <2>7, AtValues, AtValuesNext DEF Framed, q
        <4>2. At(s)[a] = buf /\ At(s)'[a] = Rest(buf, k)
          BY <1>1, <1>2, <2>4, <2>6, AtValues, AtValuesNext DEF Framed, buf
        <4> QED
          BY <4>1, <4>2
      <3>4. \A x \in Names \ {a, b} : At(s)'[x] = At(s)[x]
        <4>1. perQueue' = perQueue /\ \A j \in Queues : <<"que", j>> \notin {a, b} => que'[s][j] = que[s][j]
          BY <1>1, <2>7 DEF Framed
        <4>2. \A u \in Workers : th'[u].recv = th[u].recv
          BY <2>4, <2>6
        <4>3. \A u \in Workers : <<"send", u>> \notin {a, b} => th'[u].send = th[u].send
          BY <2>6
        <4> HIDE DEF a, b
        <4> QED
          BY <1>3, <4>1, <4>2, <4>3, AtElse
      <3> HIDE DEF a, b
      <3> QED
        BY <1>1, <2>1, <2>8, <3>1, <3>2, <3>4, KeptMove DEF Framed
    <2> QED
      BY <2>4, <2>6, <2>8, <2>9, <2>10 DEF ThQuiet, AllKept
  <1> QED
    BY <1>4, <1>5 DEF Send

LEMMA ShutdownStep ==
    ASSUME Types, NEW w \in Workers, Shutdown(w)
    PROVE  Types' /\ AllKept /\ ThQuiet
  <1>1. Framed /\ Unchanged_Data /\ que' = que
    BY DEF Shutdown, Unchanged_Data, Framed, Terminate
  <1>3. FrType' /\ RoType' /\ DataType' /\ InputType' /\ QueType' /\ fr' = fr /\ ro' = ro
    BY <1>1, FrStays, RoStays, DataStays, LockIs, InputNext, QueStays DEF Unchanged_Data
  <1> DEFINE v == [th[w] EXCEPT !.pc = "done"]
  <1>4. v \in ThreadOf(w[1]) /\ v.recv = th[w].recv /\ v.send = th[w].send /\ v.found = th[w].found
        /\ v.pc = "done"
    BY ThIs DEF ThreadOf
  <1>5. th' = [th EXCEPT ![w] = v]
    BY ThIs DEF Shutdown
  <1> HIDE DEF v
  <1>6. ThType' /\ th'[w] = v /\ \A u \in Workers \ {w} : th'[u] = th[u]
    BY <1>1, <1>4, <1>5, ThNext
  <1>7. Types'
    BY <1>3, <1>6 DEF Types
  <1>8. \A u \in Workers : th'[u].recv = th[u].recv /\ th'[u].send = th[u].send
    BY <1>4, <1>6
  <1>9. AllKept
    BY <1>1, <1>3, <1>8, SameBuffers
  <1> QED
    BY <1>4, <1>6, <1>7, <1>9 DEF ThQuiet

LEMMA FrIs ==
    ASSUME Types
    PROVE  /\ fr.pc \in {"read", "split", "drain", "stop", "done"} /\ fr.pos \in 0 .. Len(file)
           /\ fr.reads \in Nat /\ fr.left \in Chunks \cup {NoChunk} /\ fr.cur \in Chunks \cup {NoChunk}
           /\ fr.anchors \in Nat /\ fr.qid \in Nat /\ fr.send \in Seq(Chunks)
           /\ fr.pc \in {"read", "split", "drain"} => fr.qid \in Queues
           /\ fr.qid \in Queues => (fr.qid + 1) % NQueues \in Queues
           /\ 0 \in Queues /\ Queues \subseteq Nat
           /\ fr = [pc |-> fr.pc, pos |-> fr.pos, reads |-> fr.reads, left |-> fr.left, cur |-> fr.cur,
                    anchors |-> fr.anchors, qid |-> fr.qid, send |-> fr.send]
  BY QueueFacts DEF Types, FrType

\* What Fragment holds, apart from where it sends it.
FrQuiet == /\ fr'.left = fr.left /\ fr'.cur = fr.cur /\ fr'.pos = fr.pos /\ fr'.reads = fr.reads
           /\ fr'.anchors = fr.anchors

LEMMA FragmentSendStep ==
    ASSUME Types, FragmentSend
    PROVE  Types' /\ AllKept /\ FrQuiet /\ fr'.pc = fr.pc /\ fr.pc # "read"
  <1>1. Framed /\ th' = th /\ ro' = ro /\ fr.pc \in {"split", "drain"} /\ fr.pc # "read"
    BY DEF FragmentSend, Framed
  <1> DEFINE s == "refine"
             i == fr.qid
             buf == fr.send
  <1>2. i \in Queues /\ s \in Stages /\ Elem(s) = Chunks /\ buf \in Seq(Chunks) /\ Len(buf) \in Nat \ {0}
    <2>1. buf # <<>> /\ buf \in Seq(Chunks)
      BY FrIs DEF FragmentSend
    <2>2. Len(buf) \in Nat \ {0}
      BY <2>1, EmptySeq
    <2>3. i \in Queues
      BY <1>1, FrIs
    <2> QED
      BY <2>1, <2>2, <2>3, StageFacts DEF Elem
  <1>3. RoType' /\ DataType' /\ InputType' /\ ThType'
    BY <1>1, RoStays, DataStays, LockIs, InputNext, ThStays DEF FragmentSend
  <1>4. CASE EnqueueWaits(Fragment, s, i) /\ fr' = fr
    <2>1. que' = que
      BY <1>4 DEF EnqueueWaits
    <2>2. Types' /\ AllKept
      BY <1>1, <1>3, <1>4, <2>1, QueStays, FrStays, SameBuffers DEF Types
    <2> QED
      BY <1>1, <1>4, <2>2 DEF FrQuiet
  <1>5. CASE Enqueue(Fragment, s, i, buf, 1)
              /\ fr' = [fr EXCEPT !.send = Rest(@, 1), !.qid = (@ + 1) % NQueues]
    <2> DEFINE k == Fits(s, i, buf, 1)
               q == que[s][i]
    <2>1. q \in Seq(Chunks) /\ k = 1 /\ k \in 0 .. Len(buf)
      <3>1. que[s] \in [Queues -> Seq(Elem(s))]
        BY <1>2 DEF Types, QueType
      <3>2. q \in Seq(Chunks) /\ Len(que[s][i]) \in Nat /\ Len(que[s][i]) < QueueSize /\ QueueSize \in Nat
        BY <1>2, <1>5, <3>1, SizesAssumption DEF Enqueue
      <3>3. Len(buf) \in Nat /\ 1 <= Len(buf) /\ 1 \in Nat /\ QueueSize - Len(que[s][i]) \in Nat
            /\ QueueSize - Len(que[s][i]) >= 1
        BY <1>2, <3>2
      <3>4. k = 1
        <4>1. /\ k \in {Len(buf), 1, QueueSize - Len(que[s][i])} /\ k <= 1
          BY <3>3, LeastOfThree DEF Fits
        <4> QED
          BY <3>3, <4>1
      <3> QED
        BY <3>2, <3>3, <3>4
    <2>2. que' = [que EXCEPT ![s][i] = q \o First(buf, k)]
      BY <1>5 DEF Enqueue
    <2> HIDE DEF k
    <2>3. /\ First(buf, k) \in Seq(Chunks) /\ Rest(buf, k) \in Seq(Chunks)
          /\ q \o First(buf, k) \in Seq(Elem(s))
      <3>1. First(buf, k) \in Seq(Chunks) /\ Rest(buf, k) \in Seq(Chunks)
        BY <1>2, <2>1, Parts
      <3> HIDE DEF buf, q
      <3> QED
        BY <1>2, <2>1, <3>1
    <2>4. fr' = [fr EXCEPT !.send = Rest(buf, k), !.qid = (i + 1) % NQueues]
      BY <1>5, <2>1
    <2>5. /\ FrQuiet /\ fr'.pc = fr.pc /\ fr'.send = Rest(buf, k) /\ fr'.qid \in Queues /\ FrType'
      <3>1. Queues' = Queues
        BY <1>1 DEF Framed, Queues, NQueues
      <3>2. (i + 1) % NQueues \in Queues /\ Queues \subseteq Nat
        BY <1>2, FrIs
      <3> HIDE DEF i, buf
      <3>3. FrQuiet /\ fr'.pc = fr.pc /\ fr'.send = Rest(buf, k) /\ fr'.qid = (i + 1) % NQueues
        BY <2>4, FrIs DEF FrQuiet
      <3> QED
        BY <1>1, <2>3, <2>4, <3>1, <3>2, <3>3, FrIs DEF FrType, Framed
    <2> HIDE DEF q, buf, i
    <2>7. /\ QueType' /\ que'[s][i] = q \o First(buf, k) /\ \A j \in Queues \ {i} : que'[s][j] = que[s][j]
          /\ \A r \in Stages \ {s} : que'[r] = que[r]
      BY <1>1, <1>2, <2>2, <2>3, QueNext
    <2>8. Types'
      BY <1>3, <2>5, <2>7 DEF Types
    <2>9. ASSUME NEW r \in Stages, r # s PROVE Kept(r)
      <3>1. \A x \in Names \ {} : At(r)'[x] = At(r)[x]
        BY <1>1, <2>7, <2>9, AtElse DEF Framed
      <3> QED
        BY <1>1, <3>1, AtSame, KeptSame DEF Framed
    <2>10. Kept(s)
      <3> DEFINE a == <<"send", Fragment>>
                 b == <<"que", i>>
      <3>1. a \in Names /\ b \in Names /\ a # b
        BY <1>2, NameShapes
      <3>2. At(s)[a] = buf /\ At(s)[b] = q /\ At(s)'[a] = Rest(buf, k) /\ At(s)'[b] = q \o First(buf, k)
        <4>1. At(s)[b] = q /\ At(s)'[b] = q \o First(buf, k)
          BY <1>1, <1>2, <2>7, AtValues, AtValuesNext DEF Framed, q
        <4>2. At(s)[a] = buf /\ At(s)'[a] = Rest(buf, k)
          BY <1>1, <2>5, AtValues, AtValuesNext DEF Framed, buf
        <4> QED
          BY <4>1, <4>2
      <3>4. \A x \in Names \ {a, b} : At(s)'[x] = At(s)[x]
        <4>1. perQueue' = perQueue /\ \A j \in Queues : <<"que", j>> \notin {a, b} => que'[s][j] = que[s][j]
          BY <1>1, <2>7 DEF Framed
        <4> QED
          BY <1>1, <4>1, AtElse
      <3> HIDE DEF a, b
      <3> QED
        BY <1>1, <1>2, <2>1, <2>8, <3>1, <3>2, <3>4, KeptMove DEF Framed
    <2> QED
      BY <1>1, <2>5, <2>8, <2>9, <2>10 DEF AllKept
  <1> QED
    BY <1>4, <1>5 DEF FragmentSend

LEMMA FragmentStopStep ==
    ASSUME Types, FragmentStop
    PROVE  Types' /\ AllKept /\ FrQuiet /\ fr'.pc \in {"stop", "done"} /\ fr.pc \in {"drain", "stop"}
  <1>1. Framed /\ th' = th /\ ro' = ro /\ que' = que /\ fr.pc \in {"drain", "stop"}
    BY DEF FragmentStop, Framed, Terminate
  <1>2. RoType' /\ DataType' /\ InputType' /\ ThType' /\ QueType'
    BY <1>1, RoStays, DataStays, LockIs, InputNext, ThStays, QueStays DEF FragmentStop
  <1>3. ASSUME NEW p \in {"stop", "done"}, NEW n \in Nat, fr' = [fr EXCEPT !.pc = p, !.qid = n]
        PROVE  FrQuiet /\ fr'.pc \in {"stop", "done"} /\ fr'.send = fr.send /\ FrType'
    BY <1>1, <1>3, FrIs DEF FrQuiet, FrType, Framed
  <1>4. FrQuiet /\ fr'.pc \in {"stop", "done"} /\ fr'.send = fr.send /\ FrType'
    <2>1. CASE fr.pc = "drain" /\ fr' = [fr EXCEPT !.pc = IF NQueues = 1 THEN "done" ELSE "stop", !.qid = 1]
      BY <1>3, <2>1
    <2>2. CASE fr.pc = "stop" /\ fr' = [fr EXCEPT !.pc = IF fr.qid + 1 = NQueues THEN "done" ELSE @, !.qid = @ + 1]
      <3>1. fr' = [fr EXCEPT !.pc = IF fr.qid + 1 = NQueues THEN "done" ELSE "stop", !.qid = fr.qid + 1]
        BY <2>2
      <3>2. fr.qid + 1 \in Nat
        BY FrIs
      <3> QED
        BY <1>3, <3>1, <3>2
    <2> QED
      BY <2>1, <2>2 DEF FragmentStop
  <1>5. AllKept
    BY <1>1, <1>4, SameBuffers
  <1> QED
    BY <1>1, <1>2, <1>4, <1>5 DEF Types

LEMMA RoIs ==
    ASSUME Types
    PROVE  /\ ro.pc \in {"run", "write", "flush", "flushing", "done", "exit"} /\ ro.recv \in Seq(Places)
           /\ ro.qid \in Queues /\ ro.tried \in Nat /\ ro.next \in Nat \X Nat
           /\ ro.cached \subseteq Places /\ ro.cur \in {0} \cup Places
           /\ ro.pc \in {"write", "flushing"} <=> ro.cur # 0
           /\ (ro.qid + 1) % NQueues \in Queues
           /\ ro = [pc |-> ro.pc, recv |-> ro.recv, qid |-> ro.qid, tried |-> ro.tried,
                    next |-> ro.next, cached |-> ro.cached, cur |-> ro.cur]
  BY QueueFacts DEF Types, RoType

\* Reorder keeps its place in the input.
RoQuiet == ro'.cached = ro.cached /\ ro'.cur = ro.cur /\ ro'.next = ro.next

LEMMA RoNext ==
    ASSUME Types, Framed,
           ro' = [pc |-> ro'.pc, recv |-> ro'.recv, qid |-> ro'.qid, tried |-> ro'.tried,
                  next |-> ro'.next, cached |-> ro'.cached, cur |-> ro'.cur],
           ro'.pc \in {"run", "write", "flush", "flushing", "done", "exit"}, ro'.recv \in Seq(Places),
           ro'.qid \in Queues, ro'.tried \in Nat, ro'.next \in Nat \X Nat,
           ro'.cached \subseteq Places, ro'.cur \in {0} \cup Places,
           ro'.pc \in {"write", "flushing"} <=> ro'.cur # 0
    PROVE  RoType'
  <1>1. Queues' = Queues /\ Places' = Places
    BY DEF Framed, Queues, NQueues, Places
  <1> QED
    BY <1>1 DEF RoType

LEMMA ReorderFetchStep ==
    ASSUME Types, ReorderFetch
    PROVE  Types' /\ AllKept /\ RoQuiet
  <1>1. Framed /\ th' = th /\ fr' = fr /\ ro.pc = "run" /\ ro.recv = <<>>
    BY DEF ReorderFetch, Framed
  <1> DEFINE s == "reorder"
             i == ro.qid
  <1>2. i \in Queues /\ s \in Stages /\ Elem(s) = Places
    BY RoIs, StageFacts DEF Elem
  <1>3. FrType' /\ DataType' /\ InputType' /\ ThType'
    BY <1>1, FrStays, DataStays, LockIs, InputNext, ThStays DEF ReorderFetch
  <1>4. CASE DequeueWaits(Reorder, s, i) /\ ro' = ro
    <2>1. que' = que
      BY <1>4 DEF DequeueWaits
    <2>2. Types' /\ AllKept
      BY <1>1, <1>3, <1>4, <2>1, QueStays, RoStays, SameBuffers DEF Types
    <2> QED
      BY <1>4, <2>2 DEF RoQuiet
  <1>5. CASE DequeueEnds(Reorder, s, i)
             /\ ro' = [ro EXCEPT !.qid = (@ + 1) % NQueues, !.tried = @ + 1,
                                 !.pc = IF ro.tried + 1 = NQueues THEN "flush" ELSE @]
    <2>1. que' = que
      BY <1>5 DEF DequeueEnds, queueVars
    <2>2. /\ RoQuiet /\ ro'.recv = ro.recv /\ ro'.qid = (ro.qid + 1) % NQueues
          /\ ro'.tried = ro.tried + 1 /\ ro'.pc \in {"run", "flush"}
          /\ ro' = [pc |-> ro'.pc, recv |-> ro'.recv, qid |-> ro'.qid, tried |-> ro'.tried,
                    next |-> ro'.next, cached |-> ro'.cached, cur |-> ro'.cur]
      BY <1>1, <1>5, RoIs DEF RoQuiet
    <2>3. RoType'
      BY <1>1, <2>2, RoIs, RoNext DEF RoQuiet
    <2> QED
      BY <1>1, <1>3, <2>1, <2>2, <2>3, QueStays, SameBuffers DEF Types
  <1>6. CASE Dequeue(Reorder, s, i, PerFetch)
             /\ ro' = [ro EXCEPT !.qid = (@ + 1) % NQueues,
                                 !.recv = First(que[s][i], Takes(s, i, PerFetch)), !.tried = 0]
    <2> DEFINE k == Takes(s, i, PerFetch)
               q == que[s][i]
    <2>1. q \in Seq(Elem(s)) /\ k \in 0 .. Len(q)
      <3>1. que[s] \in [Queues -> Seq(Elem(s))]
        BY <1>2 DEF Types, QueType
      <3>2. PerFetch \in Nat \ {0}
        BY SizesAssumption
      <3> QED
        BY <1>2, <3>1, <3>2, Batch
    <2>2. que' = [que EXCEPT ![s][i] = Rest(q, k)]
      BY <1>6 DEF Dequeue
    <2>3. ro' = [ro EXCEPT !.qid = (@ + 1) % NQueues, !.recv = First(q, k), !.tried = 0]
      BY <1>6
    <2> HIDE DEF k
    <2>4. First(q, k) \in Seq(Places) /\ Rest(q, k) \in Seq(Elem(s))
      BY <1>2, <2>1, Parts
    <2> HIDE DEF q
    <2>5. /\ RoQuiet /\ ro'.recv = First(q, k) /\ ro'.qid = (ro.qid + 1) % NQueues
          /\ ro'.tried = 0 /\ ro'.pc = "run"
          /\ ro' = [pc |-> ro'.pc, recv |-> ro'.recv, qid |-> ro'.qid, tried |-> ro'.tried,
                    next |-> ro'.next, cached |-> ro'.cached, cur |-> ro'.cur]
      BY <1>1, <2>3, RoIs DEF RoQuiet
    <2>6. RoType'
      BY <1>1, <2>4, <2>5, RoIs, RoNext DEF RoQuiet
    <2>7. /\ QueType' /\ que'[s][i] = Rest(q, k) /\ \A j \in Queues \ {i} : que'[s][j] = que[s][j]
          /\ \A r \in Stages \ {s} : que'[r] = que[r]
      BY <1>1, <1>2, <2>2, <2>4, QueNext
    <2>8. Types'
      BY <1>3, <2>6, <2>7 DEF Types
    <2>9. ASSUME NEW r \in Stages, r # s PROVE Kept(r)
      <3>1. perQueue' = perQueue /\ que'[r] = que[r] /\ th' = th /\ fr' = fr /\ r # "reorder"
        BY <1>1, <2>7, <2>9 DEF Framed
      <3>2. \A x \in Names \ {} : At(r)'[x] = At(r)[x]
        BY ONLY <3>1, AtElse
      <3> QED
        BY ONLY <3>1, <3>2, AtSame, KeptSame
    <2>10. Kept(s)
      <3> DEFINE a == <<"que", i>>
                 b == <<"recv", Reorder>>
      <3>1. a \in Names /\ b \in Names /\ a # b
        BY <1>2, NameShapes
      <3>2. At(s)[a] = q /\ At(s)[b] = <<>> /\ At(s)'[a] = Rest(q, k) /\ At(s)'[b] = First(q, k)
        <4>1. At(s)[a] = q /\ At(s)'[a] = Rest(q, k)
          BY <1>1, <1>2, <2>7, AtValues, AtValuesNext DEF Framed, q
        <4>2. At(s)[b] = <<>> /\ At(s)'[b] = First(q, k)
          BY <1>1, <2>5, AtValues, AtValuesNext DEF Framed
        <4> QED
          BY <4>1, <4>2
      <3>3. At(s)'[b] = At(s)[b] \o First(At(s)[a], k)
        <4>1. <<>> \o First(q, k) = First(q, k)
          BY <2>4, ConcatEmptySeq
        <4> QED
          BY <3>2, <4>1
      <3>4. \A x \in Names \ {a, b} : At(s)'[x] = At(s)[x]
        <4>1. perQueue' = perQueue /\ \A j \in Queues : <<"que", j>> \notin {a, b} => que'[s][j] = que[s][j]
          BY <1>1, <2>7 DEF Framed
        <4> QED
          BY <1>1, <4>1, AtElse
      <3> HIDE DEF a, b
      <3> QED
        BY <1>1, <1>2, <2>1, <2>8, <3>1, <3>2, <3>3, <3>4, KeptMove DEF Framed
    <2> QED
      BY <2>5, <2>8, <2>9, <2>10 DEF AllKept
  <1> QED
    BY <1>4, <1>5, <1>6 DEF ReorderFetch

LEMMA DataIs ==
    ASSUME Types
    PROVE  /\ chunk \in [Places -> FineType] /\ refs \in [1 .. Len(file) + 2 -> Int]
           /\ table \in [Buckets -> Seq(Places)] /\ bucketLock = [k \in Buckets |-> bucketLock[k]]
           /\ \E k \in Nat : perAnchor \in [0 .. k - 1 -> Nat]
           /\ Len(file) \in Nat /\ Places = 1 .. Len(file) /\ 0 \notin Places /\ Places \subseteq Nat
           /\ \A p \in Places : BucketFor(p) \in Buckets
           /\ \A p \in Places : /\ chunk[p].seq \in Nat \X Nat /\ chunk[p].last \in BOOLEAN
                                /\ chunk[p].buf \in Nat /\ chunk[p].ref \in {0} \cup Places
                                /\ chunk[p].state \in {"none", "uncompressed", "compressed", "flushed"}
  <1>1. chunk \in [Places -> FineType] /\ InputType
    BY DEF Types, DataType
  <1>2. Len(file) \in Nat /\ Places = 1 .. Len(file) /\ 0 \notin Places /\ Places \subseteq Nat
           /\ \A p \in Places : BucketFor(p) \in Buckets
    BY <1>1, FileFacts
  <1>3. \A p \in Places : chunk[p] \in FineType
    BY <1>1
  <1> QED
    BY <1>1, <1>2, <1>3 DEF Types, DataType, FineType

LEMMA DataNext ==
    ASSUME Types, Framed, chunk' \in [Places -> FineType], refs' \in [1 .. Len(file) + 2 -> Int],
           table' \in [Buckets -> Seq(Places)], bucketLock' = [k \in Buckets |-> bucketLock'[k]],
           \E k \in Nat : perAnchor' \in [0 .. k - 1 -> Nat]
    PROVE  DataType'
  <1>1. Places' = Places /\ FineType' = FineType
    BY DEF Framed, Places, FineType
  <1> QED
    BY <1>1 DEF DataType, Framed

LEMMA GrownType ==
    ASSUME Types, NEW a \in Nat
    PROVE  \E k \in Nat : Grown(a) \in [0 .. k - 1 -> Nat]
  <1>1. PICK k \in Nat : perAnchor \in [0 .. k - 1 -> Nat]
    BY DataIs
  <1>2. Cardinality(DOMAIN perAnchor) = k
    <2>1. DOMAIN perAnchor = 0 .. k - 1 /\ 0 \in Int /\ k - 1 \in Int
      BY <1>1
    <2>2. Cardinality(0 .. k - 1) = IF 0 > k - 1 THEN 0 ELSE (k - 1) - 0 + 1
      BY FS_Interval
    <2> QED
      BY <2>1, <2>2
  <1>3. CASE a < k
    <2>1. Grown(a) = perAnchor
      BY <1>2, <1>3 DEF Grown
    <2> QED
      BY <1>1, <2>1
  <1>4. CASE ~(a < k)
    <2>1. Grown(a) = [x \in 0 .. 2 * k - 1 |-> IF x < k THEN perAnchor[x] ELSE 0]
      BY <1>2, <1>4 DEF Grown
    <2>2. \A x \in 0 .. 2 * k - 1 : x < k => x \in 0 .. k - 1
      OBVIOUS
    <2>3. Grown(a) \in [0 .. 2 * k - 1 -> Nat] /\ 2 * k \in Nat
      BY <1>1, <2>1, <2>2
    <2> QED
      BY <2>3
  <1> QED
    BY <1>3, <1>4

LEMMA ReorderTakeStep ==
    ASSUME Types, ReorderTake
    PROVE  /\ Types' /\ \A s \in Stages \ {"reorder"} : Kept(s)
           /\ Head(ro.recv) \in Places
           /\ Content(At("reorder")) = Content(At("reorder")') \cup {Head(ro.recv)}
           /\ ro'.next = ro.next
           /\ \/ ro'.cached = ro.cached \cup {Head(ro.recv)} /\ ro'.cur = ro.cur
              \/ /\ ro'.cached = ro.cached /\ ro'.cur = Head(ro.recv)
                 /\ chunk[Head(ro.recv)].seq = ro.next
           /\ ro.cur = 0
  <1> DEFINE p == Head(ro.recv)
             s == "reorder"
  <1>1. Framed /\ que' = que /\ th' = th /\ fr' = fr /\ ro.pc = "run" /\ ro.recv # <<>>
    BY DEF ReorderTake, Framed, queueVars
  <1>2. p \in Places /\ Tail(ro.recv) \in Seq(Places) /\ s \in Stages /\ p # 0
    <2>1. ro.recv \in Seq(Places) /\ ro.recv # <<>>
      BY <1>1, RoIs
    <2>2. Head(ro.recv) \in Places /\ Tail(ro.recv) \in Seq(Places)
      BY <2>1, HeadTailProperties
    <2> QED
      BY <2>2, StageFacts, DataIs
  <1>3. FrType' /\ InputType' /\ ThType' /\ QueType'
    BY <1>1, FrStays, InputNext, ThStays, QueStays
  <1>4. DataType'
    <2> DEFINE a == chunk[p].seq[1]
               g == Grown(a)
    <2>1. a \in Nat /\ chunk[p].seq[2] + 1 \in Nat
      <3>1. chunk[p].seq \in Nat \X Nat
        BY <1>2, DataIs
      <3> QED
        BY <3>1
    <2>2. PICK k \in Nat : g \in [0 .. k - 1 -> Nat]
      BY <2>1, GrownType
    <2>3. perAnchor' = IF chunk[p].last /\ a \in DOMAIN g THEN [g EXCEPT ![a] = chunk[p].seq[2] + 1] ELSE g
      BY DEF ReorderTake
    <2> HIDE DEF g, a
    <2>4. perAnchor' \in [0 .. k - 1 -> Nat]
      BY <2>1, <2>2, <2>3
    <2> QED
      BY <1>1, <2>4, DataIs, DataNext DEF ReorderTake
  <1>5. /\ ro'.recv = Tail(ro.recv) /\ ro'.next = ro.next /\ RoType'
        /\ \/ ro'.cached = ro.cached \cup {p} /\ ro'.cur = ro.cur
           \/ ro'.cached = ro.cached /\ ro'.cur = p /\ chunk[p].seq = ro.next
    <2>1. CASE chunk[p].seq = ro.next /\ ro' = [ro EXCEPT !.recv = Tail(@), !.cur = p, !.pc = "write"]
      <3> HIDE DEF p
      <3>1. /\ ro'.recv = Tail(ro.recv) /\ ro'.next = ro.next /\ ro'.cached = ro.cached /\ ro'.cur = p
            /\ ro'.pc = "write" /\ ro'.qid = ro.qid /\ ro'.tried = ro.tried
            /\ ro' = [pc |-> ro'.pc, recv |-> ro'.recv, qid |-> ro'.qid, tried |-> ro'.tried,
                      next |-> ro'.next, cached |-> ro'.cached, cur |-> ro'.cur]
        BY <2>1, RoIs
      <3> QED
        BY <1>1, <1>2, <2>1, <3>1, RoIs, RoNext
    <2>2. CASE ro' = [ro EXCEPT !.recv = Tail(@), !.cached = @ \cup {p}]
      <3> HIDE DEF p
      <3>1. /\ ro'.recv = Tail(ro.recv) /\ ro'.next = ro.next /\ ro'.cached = ro.cached \cup {p} /\ ro'.cur = ro.cur
            /\ ro'.pc = ro.pc /\ ro'.qid = ro.qid /\ ro'.tried = ro.tried
            /\ ro' = [pc |-> ro'.pc, recv |-> ro'.recv, qid |-> ro'.qid, tried |-> ro'.tried,
                      next |-> ro'.next, cached |-> ro'.cached, cur |-> ro'.cur]
        BY <2>2, RoIs
      <3> QED
        BY <1>1, <1>2, <3>1, RoIs, RoNext
    <2> QED
      BY <2>1, <2>2 DEF ReorderTake
  <1>6. Types'
    BY <1>3, <1>4, <1>5 DEF Types
  <1>7. ASSUME NEW r \in Stages \ {s} PROVE Kept(r)
    <2>1. \A x \in Names \ {} : At(r)'[x] = At(r)[x]
      BY <1>1, <1>7, AtElse DEF Framed
    <2> QED
      BY <1>1, <2>1, AtSame, KeptSame DEF Framed
  <1>8. Content(At(s)) = Content(At(s)') \cup {p}
    <2> DEFINE b == <<"recv", Reorder>>
    <2>1. b \in Names
      BY NameShapes
    <2>2. At(s)[b] = ro.recv /\ At(s)'[b] = Tail(ro.recv)
      BY <1>1, <1>5, AtValues, AtValuesNext DEF Framed
    <2>3. \A x \in Names \ {b} : At(s)'[x] = At(s)[x]
      BY <1>1, AtElse DEF Framed
    <2> HIDE DEF b
    <2> QED
      BY <1>1, <1>2, <1>6, <2>1, <2>2, <2>3, DropAt DEF Framed
  <1>9. ro.cur = 0
    BY <1>1, RoIs
  <1> QED
    BY <1>2, <1>5, <1>6, <1>7, <1>8, <1>9

LEMMA HeadIn ==
    ASSUME Types, NEW w \in Workers, th[w].recv # <<>>
    PROVE  /\ Head(th[w].recv) \in Content(At(w[1])) /\ Head(th[w].recv) \in Elem(w[1])
           /\ Tail(th[w].recv) \in Seq(Elem(w[1]))
  <1>1. th[w].recv \in Seq(Elem(w[1])) /\ th[w].recv # <<>>
    BY ThIs
  <1>2. Head(th[w].recv) \in Elem(w[1]) /\ Tail(th[w].recv) \in Seq(Elem(w[1]))
    BY <1>1, HeadTailProperties
  <1>3. 1 \in DOMAIN th[w].recv /\ th[w].recv[1] = Head(th[w].recv)
    <2>1. Len(th[w].recv) \in Nat /\ Len(th[w].recv) # 0 /\ DOMAIN th[w].recv = 1 .. Len(th[w].recv)
      BY <1>1, EmptySeq
    <2> QED
      BY <1>1, <2>1
  <1>4. At(w[1])[<<"recv", w>>] = th[w].recv /\ <<"recv", w>> \in DOMAIN At(w[1])
    BY AtValues, NameShapes
  <1> QED
    BY <1>2, <1>3, <1>4, ContentShape

LEMMA ContentType == ASSUME Types, NEW s \in Stages PROVE \A e \in Content(At(s)) : e \in Elem(s)
  <1>1. At(s) \in [Names -> Seq(Elem(s))]
    BY AtType
  <1>2. ASSUME NEW x \in Names, NEW n \in DOMAIN At(s)[x] PROVE At(s)[x][n] \in Elem(s)
    <2>1. At(s)[x] \in Seq(Elem(s))
      BY <1>1
    <2> HIDE DEF At
    <2> QED
      BY <1>2, <2>1
  <1>3. DOMAIN At(s) = Names
    BY AtValues
  <1> QED
    BY <1>2, <1>3, ContentShape

LEMMA StartBound == ASSUME Types, HandInv
                    PROVE  Start \in 1 .. Len(file) + 1 /\ Start <= fr.pos + 1
  <1>1. fr.pos \in 0 .. Len(file) /\ fr.left \in Chunks \cup {NoChunk} /\ fr.cur \in Chunks \cup {NoChunk}
        /\ Len(file) \in Nat
    BY FrIs, DataIs
  <1>2. \A h \in {fr.left, fr.cur} \ {NoChunk} : h.from \in Nat /\ 1 <= h.from /\ h.from <= fr.pos
    <2>1. ASSUME NEW h \in {fr.left, fr.cur} \ {NoChunk}
          PROVE  h.from \in Nat /\ 1 <= h.from /\ h.from <= fr.pos
      <3>1. h \in Chunks /\ Hand(h)
        BY <1>1, <2>1 DEF HandInv
      <3> QED
        BY <3>1 DEF Hand, Chunks
    <2> QED
      BY <2>1
  <1> QED
    BY <1>1, <1>2 DEF Start

LEMMA CoarsePlaces ==
    ASSUME Types, HandInv, CoarseInv, NEW c \in Content(At("refine"))
    PROVE  /\ c \in Chunks /\ c.from \in Places /\ c.to \in Places /\ c.from <= c.to /\ c.to < Start
           /\ c.l1 \in Nat /\ c.from \in Nat /\ c.to \in Nat /\ c.buf \in Nat /\ c.l2 \in Nat
           /\ CoarseOk(c) /\ \A q \in c.from .. c.to : q \in Places
  <1>1. c \in Chunks
    BY ContentType, StageFacts DEF Elem
  <1>2. /\ c.l1 \in Nat /\ c.from \in Nat /\ c.to \in Nat /\ c.buf \in Nat /\ c.l2 \in Nat
        /\ 1 <= c.from /\ c.from <= c.to /\ c.to < Start /\ CoarseOk(c)
    BY <1>1 DEF Chunks, CoarseInv, CoarseOk
  <1>3. Start \in 1 .. Len(file) + 1 /\ Len(file) \in Nat /\ Places = 1 .. Len(file)
    BY StartBound, DataIs
  <1>4. c.to <= Len(file)
    BY <1>2, <1>3
  <1> QED
    BY <1>1, <1>2, <1>3, <1>4

LEMMA CachedLeast ==
    ASSUME Types, FineInv, ChunkInv, ro.cached # {}
    PROVE  LeastOf(ro.cached) \in ro.cached
  <1> DEFINE S == ro.cached
             m == Min(S)
  <1>1. S \subseteq Places /\ Places \subseteq Nat /\ S \in SUBSET Nat /\ S # {} /\ 0 \notin Places
    BY RoIs, DataIs
  <1>2. m \in S /\ \A y \in S : m <= y
    BY <1>1, LeastOfSet
  <1> HIDE DEF m
  <1>3. \A p \in S : chunk[p].seq = Number(p) /\ p \in Nat \ {0}
    BY <1>1 DEF FineInv, ChunkInv
  <1>4. ASSUME NEW r \in S \ {m} PROVE Before(m, r)
    <2>1. m \in Nat \ {0} /\ r \in Nat \ {0} /\ m <= r /\ m # r
      BY <1>2, <1>3, <1>4
    <2>2. m < r
      BY <2>1
    <2>3. Precedes(Number(m), Number(r))
      BY <2>1, <2>2, NumberOrder
    <2> QED
      BY <1>2, <1>3, <2>3 DEF Precedes, Before
  <1>5. \E p \in S : \A r \in S \ {p} : Before(p, r)
    BY <1>2, <1>4
  <1> QED
    BY <1>5 DEF LeastOf

LEMMA ReorderFlushStep ==
    ASSUME Types, FineInv, ChunkInv, ReorderFlush
    PROVE  /\ Types' /\ AllKept /\ ro'.next = ro.next /\ ro.cur = 0
           /\ \/ ro'.cached = ro.cached /\ ro'.cur = 0
              \/ /\ ro'.cur \in ro.cached /\ ro'.cached = ro.cached \ {ro'.cur}
                 /\ chunk[ro'.cur].seq = ro.next
  <1>1. Framed /\ que' = que /\ th' = th /\ fr' = fr /\ ro.pc = "flush"
    BY DEF ReorderFlush, Framed, queueVars
  <1>2. FrType' /\ DataType' /\ InputType' /\ ThType' /\ QueType'
    BY <1>1, FrStays, DataStays, LockIs, InputNext, ThStays, QueStays DEF ReorderFlush
  <1>3. ro.cur = 0 /\ 0 \notin Places /\ ro.cached \subseteq Places
    BY <1>1, RoIs, DataIs
  <1>4. ASSUME NEW x \in {"done", "exit"}, ro' = [ro EXCEPT !.pc = x]
        PROVE  RoType' /\ ro'.recv = ro.recv /\ ro'.next = ro.next /\ ro'.cached = ro.cached /\ ro'.cur = 0
    <2>1. /\ ro'.recv = ro.recv /\ ro'.next = ro.next /\ ro'.cached = ro.cached /\ ro'.cur = 0
          /\ ro'.pc = x /\ ro'.qid = ro.qid /\ ro'.tried = ro.tried
          /\ ro' = [pc |-> ro'.pc, recv |-> ro'.recv, qid |-> ro'.qid, tried |-> ro'.tried,
                    next |-> ro'.next, cached |-> ro'.cached, cur |-> ro'.cur]
      BY <1>3, <1>4, RoIs
    <2> QED
      BY <1>1, <1>4, <2>1, RoIs, RoNext
  <1>5. ASSUME NEW p \in ro.cached, ro' = [ro EXCEPT !.cur = p, !.cached = @ \ {p}, !.pc = "flushing"]
        PROVE  RoType' /\ ro'.recv = ro.recv /\ ro'.next = ro.next /\ ro'.cached = ro.cached \ {p} /\ ro'.cur = p
    <2>1. /\ ro'.recv = ro.recv /\ ro'.next = ro.next /\ ro'.cached = ro.cached \ {p} /\ ro'.cur = p
          /\ ro'.pc = "flushing" /\ ro'.qid = ro.qid /\ ro'.tried = ro.tried
          /\ ro' = [pc |-> ro'.pc, recv |-> ro'.recv, qid |-> ro'.qid, tried |-> ro'.tried,
                    next |-> ro'.next, cached |-> ro'.cached, cur |-> ro'.cur]
      BY <1>3, <1>5, RoIs
    <2> QED
      BY <1>1, <1>3, <1>5, <2>1, RoIs, RoNext
  <1>6. /\ RoType' /\ ro'.recv = ro.recv /\ ro'.next = ro.next
        /\ \/ ro'.cached = ro.cached /\ ro'.cur = 0
           \/ /\ ro'.cur \in ro.cached /\ ro'.cached = ro.cached \ {ro'.cur}
              /\ chunk[ro'.cur].seq = ro.next
    <2>1. CASE ro.cached = {}
      BY <1>4, <2>1 DEF ReorderFlush
    <2>2. CASE ro.cached # {}
      <3>1. PICK p \in ro.cached : p = LeastOf(ro.cached)
        BY <2>2, CachedLeast
      <3>2. ro' = IF chunk[p].seq = ro.next
                  THEN [ro EXCEPT !.cur = p, !.cached = @ \ {p}, !.pc = "flushing"]
                  ELSE [ro EXCEPT !.pc = "exit"]
        BY <2>2, <3>1 DEF ReorderFlush
      <3> QED
        BY <1>4, <1>5, <3>2
    <2> QED
      BY <2>1, <2>2
  <1>7. AllKept
    BY <1>1, <1>6, SameBuffers
  <1> QED
    BY <1>2, <1>3, <1>6, <1>7 DEF Types

LEMMA SearchFinds ==
    ASSUME Types, NEW p \in Places
    PROVE  /\ Search(p) \in {0} \cup Places
           /\ Search(p) # 0 => \E n \in DOMAIN table[BucketFor(p)] :
                                 table[BucketFor(p)][n] = Search(p) /\ file[Search(p)] = file[p]
           /\ Search(p) = 0 => \A n \in DOMAIN table[BucketFor(p)] : file[table[BucketFor(p)][n]] # file[p]
  <1> DEFINE list == table[BucketFor(p)]
             hits == {n \in DOMAIN list : file[list[n]] = file[p]}
  <1>1. list \in Seq(Places) /\ 0 \notin Places
    BY DataIs
  <1>2. DOMAIN list \subseteq Nat /\ \A n \in DOMAIN list : list[n] \in Places
    BY <1>1
  <1>3. Search(p) = IF hits = {} THEN 0 ELSE list[Min(hits)]
    BY DEF Search
  <1>4. hits # {} => Min(hits) \in hits
    <2>1. hits \in SUBSET Nat
      BY <1>2
    <2> HIDE DEF hits
    <2> QED
      BY <2>1, LeastOfSet
  <1> HIDE DEF list
  <1>5. CASE hits = {}
    BY <1>3, <1>5 DEF list
  <1>6. CASE hits # {}
    <2>1. PICK n \in hits : n = Min(hits)
      BY <1>4, <1>6
    <2>2. Search(p) = list[n] /\ n \in DOMAIN list /\ file[list[n]] = file[p] /\ list[n] \in Places
      BY <1>2, <1>3, <1>6, <2>1
    <2> QED
      BY <1>1, <2>2 DEF list
  <1> QED
    BY <1>5, <1>6

LEMMA DedupSearchStep ==
    ASSUME Types, NEW w \in Workers, DedupSearch(w)
    PROVE  /\ Types' /\ AllKept /\ w[1] = "dedup" /\ th[w].recv # <<>>
           /\ Head(th[w].recv) \in Places
           /\ th'[w].recv = th[w].recv /\ th'[w].pc = "insert" /\ th'[w].found = Search(Head(th[w].recv))
           /\ \A u \in Workers \ {w} : th'[u] = th[u]
  <1> DEFINE p == Head(th[w].recv)
             v == [th[w] EXCEPT !.pc = "insert", !.found = Search(p)]
  <1>1. /\ Framed /\ que' = que /\ fr' = fr /\ ro' = ro /\ w[1] = "dedup" /\ th[w].recv # <<>>
        /\ bucketLock' = [bucketLock EXCEPT ![BucketFor(p)] = w]
        /\ th' = [th EXCEPT ![w].pc = "insert", ![w].found = Search(p)]
        /\ chunk' = chunk /\ refs' = refs /\ perAnchor' = perAnchor /\ table' = table
    BY DEF DedupSearch, Framed, queueVars, Ready
  <1>2. p \in Places
    BY <1>1, HeadIn DEF Elem
  <1>3. bucketLock' = [k \in Buckets |-> bucketLock'[k]]
    BY <1>1, LockIs
  <1>4. FrType' /\ RoType' /\ DataType' /\ InputType' /\ QueType'
    BY <1>1, <1>3, FrStays, RoStays, DataStays, InputNext, QueStays
  <1>5. v \in ThreadOf(w[1]) /\ v.recv = th[w].recv /\ v.send = th[w].send /\ v.pc = "insert"
        /\ v.found = Search(p)
    <2>1. th[w] = [pc |-> th[w].pc, recv |-> th[w].recv, found |-> th[w].found, send |-> th[w].send]
      BY ThIs
    <2>2. v.recv = th[w].recv /\ v.send = th[w].send /\ v.pc = "insert" /\ v.found = Search(p)
      BY <2>1
    <2>3. th[w] \in ThreadOf(w[1]) /\ Search(p) \in {0} \cup Places
      BY <1>2, ThIs, SearchFinds
    <2>4. v \in ThreadOf(w[1])
      BY <2>3 DEF ThreadOf
    <2> QED
      BY <2>2, <2>4
  <1>6. th' = [th EXCEPT ![w] = v]
    BY <1>1, ThIs
  <1> HIDE DEF v
  <1>7. ThType' /\ th'[w] = v /\ \A u \in Workers \ {w} : th'[u] = th[u]
    BY <1>1, <1>5, <1>6, ThNext
  <1>8. \A u \in Workers : th'[u].recv = th[u].recv /\ th'[u].send = th[u].send
    BY <1>5, <1>7
  <1>9. AllKept
    BY <1>1, <1>8, SameBuffers
  <1> QED
    BY <1>1, <1>2, <1>4, <1>5, <1>7, <1>9 DEF Types

LEMMA ReorderWriteStep ==
    ASSUME Types, FineInv, ReorderWrite
    PROVE  /\ Types' /\ AllKept /\ ro.cur \in Places /\ chunk[ro.cur].ref \in Places
           /\ chunk[chunk[ro.cur].ref].state # "uncompressed"
           /\ chunk' = [chunk EXCEPT ![chunk[ro.cur].ref].state = "flushed"]
           /\ ro'.next = Following(ro.next)
           /\ \/ ro'.cached = ro.cached /\ ro'.cur = 0
              \/ /\ ro'.cur \in ro.cached /\ ro'.cached = ro.cached \ {ro'.cur}
                 /\ chunk[ro'.cur].seq = Following(ro.next)
  <1> DEFINE o == chunk[ro.cur].ref
             next == Following(ro.next)
             more == {p \in ro.cached : p = LeastOf(ro.cached) /\ chunk[p].seq = next}
  <1>1. /\ Framed /\ que' = que /\ th' = th /\ fr' = fr /\ ro.pc \in {"write", "flushing"}
        /\ chunk' = [chunk EXCEPT ![o].state = "flushed"] /\ chunk[o].state # "uncompressed"
    BY DEF ReorderWrite, Framed, queueVars
  <1>2. ro.cur \in Places /\ 0 \notin Places /\ ro.cached \subseteq Places
    BY <1>1, RoIs, DataIs
  <1>3. o \in Places
    <2>1. o # 0
      BY <1>1, <1>2, RoIs DEF FineInv
    <2>2. o \in {0} \cup Places
      BY <1>2, DataIs
    <2> QED
      BY <2>1, <2>2
  <1>4. chunk' \in [Places -> FineType]
    <2> HIDE DEF o
    <2>1. [chunk[o] EXCEPT !.state = "flushed"] \in FineType
      <3>1. chunk[o] \in FineType
        BY <1>3, DataIs
      <3> QED
        BY <3>1 DEF FineType
    <2>2. chunk' = [chunk EXCEPT ![o] = [chunk[o] EXCEPT !.state = "flushed"]]
      BY <1>1
    <2> QED
      BY <1>3, <2>1, <2>2, DataIs
  <1>5. DataType'
    BY <1>1, <1>4, DataNext, DataIs DEF ReorderWrite
  <1>6. FrType' /\ InputType' /\ ThType' /\ QueType'
    BY <1>1, FrStays, InputNext, ThStays, QueStays
  <1>7. next \in Nat \X Nat
    <2>1. ro.next \in Nat \X Nat
      BY RoIs
    <2> QED
      BY <2>1 DEF Following
  <1> HIDE DEF next
  <1>8. ASSUME NEW x \in {"run", "flush"}, ro' = [ro EXCEPT !.next = next, !.cur = 0, !.pc = x]
        PROVE  RoType' /\ ro'.recv = ro.recv /\ ro'.next = next /\ ro'.cached = ro.cached /\ ro'.cur = 0
    <2>1. /\ ro'.recv = ro.recv /\ ro'.next = next /\ ro'.cached = ro.cached /\ ro'.cur = 0
          /\ ro'.pc = x /\ ro'.qid = ro.qid /\ ro'.tried = ro.tried
          /\ ro' = [pc |-> ro'.pc, recv |-> ro'.recv, qid |-> ro'.qid, tried |-> ro'.tried,
                    next |-> ro'.next, cached |-> ro'.cached, cur |-> ro'.cur]
      BY <1>8, RoIs
    <2> QED
      BY <1>1, <1>7, <1>8, <2>1, RoIs, RoNext
  <1>9. ASSUME NEW p \in ro.cached, ro' = [ro EXCEPT !.next = next, !.cur = p, !.cached = @ \ {p}]
        PROVE  RoType' /\ ro'.recv = ro.recv /\ ro'.next = next /\ ro'.cached = ro.cached \ {p} /\ ro'.cur = p
    <2>1. /\ ro'.recv = ro.recv /\ ro'.next = next /\ ro'.cached = ro.cached \ {p} /\ ro'.cur = p
          /\ ro'.pc = ro.pc /\ ro'.qid = ro.qid /\ ro'.tried = ro.tried
          /\ ro' = [pc |-> ro'.pc, recv |-> ro'.recv, qid |-> ro'.qid, tried |-> ro'.tried,
                    next |-> ro'.next, cached |-> ro'.cached, cur |-> ro'.cur]
      BY <1>9, RoIs
    <2>2. p # 0 /\ p \in Places
      BY <1>2
    <2> QED
      BY <1>1, <1>2, <1>7, <1>9, <2>1, <2>2, RoIs, RoNext
  <1>10. /\ RoType' /\ ro'.recv = ro.recv /\ ro'.next = next
         /\ \/ ro'.cached = ro.cached /\ ro'.cur = 0
            \/ /\ ro'.cur \in ro.cached /\ ro'.cached = ro.cached \ {ro'.cur}
               /\ chunk[ro'.cur].seq = next
    <2>1. CASE ro.pc = "flushing"
      <3>1. ro' = [ro EXCEPT !.next = next, !.cur = 0, !.pc = "flush"]
        BY <2>1 DEF ReorderWrite, next
      <3> QED
        BY <1>8, <3>1
    <2>2. CASE ro.pc # "flushing" /\ more = {}
      <3>1. ro' = [ro EXCEPT !.next = next, !.cur = 0, !.pc = "run"]
        BY <2>2 DEF ReorderWrite, next
      <3> QED
        BY <1>8, <3>1
    <2>3. CASE ro.pc # "flushing" /\ more # {}
      <3>1. PICK p \in ro.cached : p = LeastOf(ro.cached) /\ chunk[p].seq = next
        BY <2>3
      <3>2. more = {p}
        BY <3>1
      <3>3. ro' = [ro EXCEPT !.next = next, !.cur = LeastOf(ro.cached), !.cached = @ \ more]
        BY <2>3 DEF ReorderWrite, next
      <3> HIDE DEF more
      <3>4. ro' = [ro EXCEPT !.next = next, !.cur = p, !.cached = @ \ {p}]
        BY <3>1, <3>2, <3>3
      <3> QED
        BY <1>9, <3>1, <3>4
    <2> QED
      BY <2>1, <2>2, <2>3
  <1>11. AllKept
    BY <1>1, <1>10, SameBuffers
  <1> QED
    BY <1>1, <1>2, <1>3, <1>5, <1>6, <1>10, <1>11 DEF Types, next

\* A worker of a pool drops the chunk in hand and hands p on to the stage t.
Passed(w, p, t) ==
    /\ Content(At(w[1])) = Content(At(w[1])') \cup {p}
    /\ \A R : Separate(R, At(w[1])) =>
         /\ Separate(R, At(w[1])')
         /\ \A d \in Content(At(w[1])') : <<d, p>> \in R /\ <<p, d>> \in R
    /\ Content(At(t)') = Content(At(t)) \cup {p}
    /\ \A R : /\ Separate(R, At(t))
              /\ \A d \in Content(At(t)) : <<d, p>> \in R /\ <<p, d>> \in R
              => Separate(R, At(t)')
    /\ \A s \in Stages \ {w[1], t} : Kept(s)

LEMMA ThreadsNext ==
    ASSUME perQueue' = perQueue, NEW s
    PROVE  /\ \A u \in Workers : At(s)'[<<"recv", u>>] = IF u[1] = s THEN th'[u].recv ELSE <<>>
           /\ \A u \in Workers : At(s)'[<<"send", u>>] = IF s \in NextOf[u[1]] THEN th'[u].send[s] ELSE <<>>
  BY AtValuesNext

\* The threads' part of dropping the head of recv_buf and sending p.
LEMMA Passing ==
    ASSUME Types, Framed, NEW w \in Workers, w[1] # "refine", NEW t \in NextOf[w[1]], th[w].recv # <<>>,
           NEW x \in {"run", "insert", "drain", "done"}, NEW n \in {0} \cup Places,
           th' = [th EXCEPT ![w] = [th[w] EXCEPT !.pc = x, !.recv = Tail(th[w].recv), !.found = n,
                                      !.send = [th[w].send EXCEPT ![t] = Append(th[w].send[t], Head(th[w].recv))]]],
           que' = que, fr' = fr, ro' = ro, DataType'
    PROVE  /\ Types' /\ Passed(w, Head(th[w].recv), t) /\ Head(th[w].recv) \in Places
           /\ th'[w].pc = x /\ th'[w].found = n /\ th'[w].recv = Tail(th[w].recv)
           /\ \A u \in Workers \ {w} : th'[u] = th[u]
  <1> DEFINE p == Head(th[w].recv)
             v == [th[w] EXCEPT !.pc = x, !.recv = Tail(th[w].recv), !.found = n,
                                !.send = [th[w].send EXCEPT ![t] = Append(th[w].send[t], p)]]
  <1>0. PICK s \in Stages : s = w[1]
    BY StageFacts
  <1>1. p \in Content(At(s)) /\ p \in Places /\ Tail(th[w].recv) \in Seq(Elem(s)) /\ Elem(t) = Places
        /\ t \in Stages /\ s \in Stages /\ s # t /\ t # "refine"
    <2>1. Elem(w[1]) = Places
      BY DEF Elem
    <2> QED
      BY <1>0, <2>1, HeadIn, NextOfPool
  <1>2. th[w].send[t] \in Seq(Places) /\ th[w].recv \in Seq(Elem(s))
    BY <1>0, ThIs
  <1> HIDE DEF p
  <1>3. Append(th[w].send[t], p) \in Seq(Places)
    BY <1>1, <1>2
  <1>4. /\ v \in ThreadOf(s) /\ v.recv = Tail(th[w].recv) /\ v.found = n /\ v.pc = x
        /\ v.send[t] = Append(th[w].send[t], p) /\ \A r \in NextOf[s] \ {t} : v.send[r] = th[w].send[r]
    <2>1. /\ th[w] = [pc |-> th[w].pc, recv |-> th[w].recv, found |-> th[w].found, send |-> th[w].send]
          /\ th[w].send \in [NextOf[s] -> Seq(Places)]
      BY <1>0, ThIs
    <2>2. v.recv = Tail(th[w].recv) /\ v.found = n /\ v.pc = x
      BY <2>1
    <2>3. v.send = [th[w].send EXCEPT ![t] = Append(th[w].send[t], p)]
      BY <2>1
    <2>4. [th[w].send EXCEPT ![t] = Append(th[w].send[t], p)] \in [NextOf[s] -> Seq(Places)]
      BY <1>3, <2>1
    <2>5. th[w] \in ThreadOf(s)
      BY <1>0, ThIs
    <2>6. v \in ThreadOf(s)
      BY <1>1, <2>4, <2>5 DEF ThreadOf
    <2> QED
      BY <1>0, <2>1, <2>2, <2>3, <2>6
  <1>5. th' = [th EXCEPT ![w] = v]
    BY DEF p
  <1> HIDE DEF v
  <1>6. ThType' /\ th'[w] = v /\ \A u \in Workers \ {w} : th'[u] = th[u]
    BY <1>0, <1>4, <1>5, ThNext
  <1>7. FrType' /\ RoType' /\ InputType' /\ QueType'
    BY FrStays, RoStays, InputNext, QueStays
  <1>8. Types'
    BY <1>6, <1>7 DEF Types
  <1>9. \A r \in Stages \ {s, t} : Kept(r)
    <2>1. ASSUME NEW r \in Stages \ {s, t} PROVE Kept(r)
      <3>1. /\ perQueue' = perQueue /\ que'[r] = que[r]
            /\ \A u \in Workers : u[1] = r => th'[u].recv = th[u].recv
            /\ \A u \in Workers : r \in NextOf[u[1]] => th'[u].send[r] = th[u].send[r]
        BY <1>0, <1>4, <1>6, <2>1 DEF Framed
      <3>2. que' = que /\ fr' = fr /\ ro' = ro
        OBVIOUS
      <3>3. \A y \in Names \ {} : At(r)'[y] = At(r)[y]
        BY ONLY <3>1, <3>2, AtElse
      <3> QED
        BY ONLY <3>1, <3>3, AtSame, KeptSame
    <2> QED
      BY <2>1
  <1>10. /\ Content(At(s)) = Content(At(s)') \cup {p}
         /\ \A R : Separate(R, At(s)) =>
              /\ Separate(R, At(s)')
              /\ \A d \in Content(At(s)') : <<d, p>> \in R /\ <<p, d>> \in R
    <2> DEFINE a == <<"recv", w>>
    <2>1. a \in Names
      BY NameShapes
    <2>2. At(s)[a] = th[w].recv
      BY <1>0, AtValues
    <2>3. At(s)'[a] = Tail(th[w].recv)
      <3>1. \A u \in Workers : At(s)'[<<"recv", u>>] = IF u[1] = s THEN th'[u].recv ELSE <<>>
        <4>1. perQueue' = perQueue
          BY DEF Framed
        <4> QED
          BY ONLY <4>1, ThreadsNext
      <3>2. th'[w].recv = Tail(th[w].recv)
        BY <1>4, <1>6
      <3> QED
        BY <1>0, <3>1, <3>2
    <2>4. \A y \in Names \ {a} : At(s)'[y] = At(s)[y]
      <3>1. perQueue' = perQueue /\ que'[s] = que[s] /\ ro'.recv = ro.recv /\ fr'.send = fr.send
        BY DEF Framed
      <3>2. \A u \in Workers : <<"recv", u>> \notin {a} => th'[u].recv = th[u].recv
        BY <1>6
      <3>3. \A u \in Workers : s \in NextOf[u[1]] => th'[u].send[s] = th[u].send[s]
        BY <1>0, <1>1, <1>4, <1>6
      <3> HIDE DEF a
      <3> QED
        BY ONLY <3>1, <3>2, <3>3, AtElse
    <2> HIDE DEF a
    <2> QED
      BY <1>1, <1>8, <2>1, <2>2, <2>3, <2>4, DropAt DEF Framed, p
  <1>11. /\ Content(At(t)') = Content(At(t)) \cup {p}
         /\ \A R : /\ Separate(R, At(t))
                   /\ \A d \in Content(At(t)) : <<d, p>> \in R /\ <<p, d>> \in R
                   => Separate(R, At(t)')
    <2> DEFINE b == <<"send", w>>
    <2>1. b \in Names
      BY NameShapes
    <2>2. At(t)[b] = th[w].send[t]
      BY <1>0, AtValues
    <2>3. At(t)'[b] = Append(th[w].send[t], p)
      BY <1>4, <1>6, AtValuesNext DEF Framed
    <2>4. \A y \in Names \ {b} : At(t)'[y] = At(t)[y]
      <3>1. perQueue' = perQueue /\ que'[t] = que[t] /\ ro'.recv = ro.recv /\ fr'.send = fr.send
        BY DEF Framed
      <3>2. \A u \in Workers : u[1] = t => th'[u].recv = th[u].recv
        BY <1>0, <1>1, <1>6
      <3>3. \A u \in Workers : <<"send", u>> \notin {b} => th'[u].send = th[u].send
        BY <1>6
      <3> HIDE DEF b
      <3> QED
        BY ONLY <3>1, <3>2, <3>3, AtElse
    <2> HIDE DEF b
    <2> QED
      BY <1>1, <1>8, <2>1, <2>2, <2>3, <2>4, AddAt DEF Framed
  <1> QED
    BY <1>0, <1>1, <1>4, <1>6, <1>8, <1>9, <1>10, <1>11 DEF Passed, p

LEMMA RefsChange ==
    ASSUME Types, NEW b, refs' = [refs EXCEPT ![b] = @ - 1] \/ refs' = [refs EXCEPT ![b] = @ + 1] \/ refs' = refs
    PROVE  refs' \in [1 .. Len(file) + 2 -> Int]
  <1>1. refs \in [1 .. Len(file) + 2 -> Int]
    BY DataIs
  <1> QED
    BY <1>1

LEMMA CompressStep ==
    ASSUME Types, NEW w \in Workers, CompressChunk(w)
    PROVE  /\ Types' /\ w[1] = "compress" /\ th[w].recv # <<>> /\ Head(th[w].recv) \in Places
           /\ Passed(w, Head(th[w].recv), "reorder")
           /\ chunk' = [chunk EXCEPT ![Head(th[w].recv)].state = "compressed"]
           /\ refs' = [refs EXCEPT ![chunk[Head(th[w].recv)].buf] = @ - 1]
           /\ ThQuiet
  <1> DEFINE p == Head(th[w].recv)
             buf == th[w].send["reorder"]
  <1>1. /\ Framed /\ que' = que /\ fr' = fr /\ ro' = ro /\ w[1] = "compress" /\ th[w].pc = "run"
        /\ th[w].recv # <<>>
        /\ chunk' = [chunk EXCEPT ![p].state = "compressed"]
        /\ refs' = [refs EXCEPT ![chunk[p].buf] = @ - 1]
        /\ th' = [th EXCEPT ![w].recv = Tail(@), ![w].send["reorder"] = Append(@, p)]
        /\ perAnchor' = perAnchor /\ table' = table /\ bucketLock' = bucketLock
    BY DEF CompressChunk, Framed, queueVars, Ready, Free
  <1>2. "reorder" \in NextOf[w[1]] /\ w[1] # "refine" /\ p \in Places
    <2>1. Elem(w[1]) = Places
      BY <1>1 DEF Elem
    <2> QED
      BY <1>1, <2>1, StageFacts, HeadIn
  <1> HIDE DEF p
  <1>3. DataType'
    <2>1. [chunk[p] EXCEPT !.state = "compressed"] \in FineType
      <3>1. chunk[p] \in FineType
        BY <1>2, DataIs
      <3> QED
        BY <3>1 DEF FineType
    <2>2. chunk' = [chunk EXCEPT ![p] = [chunk[p] EXCEPT !.state = "compressed"]]
      BY <1>1
    <2>3. chunk' \in [Places -> FineType]
      BY <1>2, <2>1, <2>2, DataIs
    <2>4. refs' \in [1 .. Len(file) + 2 -> Int]
      BY <1>1, RefsChange
    <2> QED
      BY <1>1, <2>3, <2>4, DataIs, DataNext
  <1>4. th' = [th EXCEPT ![w] = [th[w] EXCEPT !.pc = "run", !.recv = Tail(th[w].recv), !.found = th[w].found,
                                      !.send = [th[w].send EXCEPT !["reorder"] = Append(buf, p)]]]
    <2>0. th = [u \in Workers |-> th[u]] /\ w \in Workers
      BY ThIs
    <2>1. th' = [th EXCEPT ![w] = [th[w] EXCEPT !.recv = Tail(th[w].recv),
                                      !.send = [th[w].send EXCEPT !["reorder"] = Append(buf, p)]]]
      BY ONLY <1>1, <2>0
    <2>2. [th[w] EXCEPT !.recv = Tail(th[w].recv), !.send = [th[w].send EXCEPT !["reorder"] = Append(buf, p)]]
          = [th[w] EXCEPT !.pc = "run", !.recv = Tail(th[w].recv), !.found = th[w].found,
                                      !.send = [th[w].send EXCEPT !["reorder"] = Append(buf, p)]]
      BY <1>1, ThIs
    <2> QED
      BY <2>1, <2>2
  <1>5. "run" \in {"run", "insert", "drain", "done"} /\ th[w].found \in {0} \cup Places
    BY ThIs
  <1>7. PICK t \in NextOf[w[1]] : t = "reorder"
    BY <1>2
  <1>8. th' = [th EXCEPT ![w] = [th[w] EXCEPT !.pc = "run", !.recv = Tail(th[w].recv), !.found = th[w].found,
                                      !.send = [th[w].send EXCEPT ![t] = Append(th[w].send[t], Head(th[w].recv))]]]
    BY <1>4, <1>7 DEF p
  <1> HIDE DEF buf
  <1>6. /\ Types' /\ Passed(w, p, "reorder")
        /\ th'[w].pc = "run" /\ th'[w].found = th[w].found
        /\ \A u \in Workers \ {w} : th'[u] = th[u]
    <2>1. Framed /\ w[1] # "refine" /\ th[w].recv # <<>> /\ que' = que /\ fr' = fr /\ ro' = ro /\ DataType'
      BY <1>1, <1>2, <1>3
    <2>2. /\ Types' /\ Passed(w, Head(th[w].recv), t)
          /\ th'[w].pc = "run" /\ th'[w].found = th[w].found
          /\ \A u \in Workers \ {w} : th'[u] = th[u]
      <3>1. Types /\ w \in Workers /\ t \in NextOf[w[1]] /\ "run" \in {"run", "insert", "drain", "done"}
            /\ th[w].found \in {0} \cup Places
        BY <1>5, <1>7
      <3> QED
        BY ONLY <1>8, <2>1, <3>1, Passing
    <2> QED
      BY <1>7, <2>2 DEF p
  <1> QED
    BY <1>1, <1>2, <1>6, <1>7 DEF ThQuiet, p

LEMMA DedupInsertStep ==
    ASSUME Types, InsertInv, NEW w \in Workers, DedupInsert(w)
    PROVE  LET p == Head(th[w].recv) IN
           /\ Types' /\ w[1] = "dedup" /\ th[w].pc = "insert" /\ th[w].recv # <<>> /\ p \in Places
           /\ chunk' = [chunk EXCEPT ![p].ref = IF th[w].found = 0 THEN p ELSE th[w].found]
           /\ \/ /\ th[w].found = 0 /\ Passed(w, p, "compress")
                 /\ refs' = refs /\ table' = Inserted(p)
              \/ /\ th[w].found # 0 /\ Passed(w, p, "reorder")
                 /\ refs' = [refs EXCEPT ![chunk[p].buf] = @ - 1] /\ table' = table
           /\ th'[w].pc = "run" /\ th'[w].found = 0 /\ \A u \in Workers \ {w} : th'[u] = th[u]
  <1> DEFINE p == Head(th[w].recv)
             f == th[w].found
             r == IF f = 0 THEN p ELSE f
  <1>1. /\ Framed /\ que' = que /\ fr' = fr /\ ro' = ro /\ th[w].pc = "insert"
        /\ chunk' = [chunk EXCEPT ![p].ref = r]
        /\ perAnchor' = perAnchor /\ table' = IF f = 0 THEN Inserted(p) ELSE table
        /\ bucketLock' = [bucketLock EXCEPT ![BucketFor(p)] = Nobody]
        /\ refs' = IF f = 0 THEN refs ELSE [refs EXCEPT ![chunk[p].buf] = @ - 1]
    BY DEF DedupInsert, Framed, queueVars, Free
  <1>2. PICK t \in {"compress", "reorder"} : t = IF f = 0 THEN "compress" ELSE "reorder"
    OBVIOUS
  <1>3. w[1] = "dedup" /\ th[w].recv # <<>> /\ t \in NextOf[w[1]] /\ p \in Places
    <2>1. w[1] = "dedup" /\ th[w].recv # <<>>
      BY <1>1 DEF InsertInv
    <2>2. Elem(w[1]) = Places
      BY <2>1 DEF Elem
    <2> QED
      BY <2>1, <2>2, StageFacts, HeadIn
  <1>4. th' = [th EXCEPT ![w] = [th[w] EXCEPT !.pc = "run", !.recv = Tail(th[w].recv), !.found = 0,
                                      !.send = [th[w].send EXCEPT ![t] = Append(th[w].send[t], p)]]]
    <2>1. th' = [th EXCEPT ![w].pc = "run", ![w].recv = Tail(@), ![w].found = 0,
                              ![w].send[t] = Append(@, p)]
      BY <1>2 DEF DedupInsert
    <2> HIDE DEF p
    <2>2. /\ th = [u \in Workers |-> th[u]] /\ w \in Workers
          /\ th[w] = [pc |-> th[w].pc, recv |-> th[w].recv, found |-> th[w].found, send |-> th[w].send]
      BY ThIs
    <2> QED
      BY ONLY <2>1, <2>2
  <1>5. DataType'
    <2> HIDE DEF p, f
    <2>1. [chunk[p] EXCEPT !.ref = r] \in FineType
      <3>1. chunk[p] \in FineType /\ r \in {0} \cup Places
        BY <1>3, DataIs, ThIs DEF f
      <3> QED
        BY <3>1 DEF FineType
    <2>2. chunk' = [chunk EXCEPT ![p] = [chunk[p] EXCEPT !.ref = r]]
      BY <1>1
    <2>3. chunk' \in [Places -> FineType]
      BY <1>3, <2>1, <2>2, DataIs
    <2>4. refs' \in [1 .. Len(file) + 2 -> Int]
      BY <1>1, RefsChange
    <2>5. table' \in [Buckets -> Seq(Places)]
      <3>1. table \in [Buckets -> Seq(Places)] /\ BucketFor(p) \in Buckets
        BY <1>3, DataIs
      <3>2. <<p>> \o table[BucketFor(p)] \in Seq(Places)
        BY <1>3, <3>1
      <3> QED
        BY <1>1, <3>1, <3>2 DEF Inserted
    <2>6. bucketLock' = [k \in Buckets |-> bucketLock'[k]]
      BY <1>1, LockIs
    <2> QED
      BY <1>1, <2>3, <2>4, <2>5, <2>6, DataIs, DataNext
  <1>6. "run" \in {"run", "insert", "drain", "done"} /\ 0 \in {0} \cup Places /\ w[1] # "refine"
    BY <1>3
  <1>7. /\ Types' /\ Passed(w, p, t) /\ th'[w].pc = "run" /\ th'[w].found = 0
        /\ \A u \in Workers \ {w} : th'[u] = th[u]
    BY <1>1, <1>3, <1>4, <1>5, <1>6, Passing
  <1> HIDE DEF p
  <1>8. \/ f = 0 /\ t = "compress"
        \/ f # 0 /\ t = "reorder"
    BY <1>2
  <1> QED
    BY <1>1, <1>3, <1>7, <1>8 DEF p

LEMMA CutFront ==
    ASSUME NEW c \in Chunks, NEW d, d = [c EXCEPT !.from = c.from + 1, !.l2 = @ + 1]
    PROVE  /\ d \in Chunks /\ d.l1 = c.l1 /\ d.from = c.from + 1 /\ d.to = c.to
           /\ d.buf = c.buf /\ d.l2 = c.l2 + 1
  <1>1. /\ c = [l1 |-> c.l1, from |-> c.from, to |-> c.to, buf |-> c.buf, l2 |-> c.l2]
        /\ c.l1 \in Nat /\ c.from \in Nat /\ c.to \in Nat /\ c.buf \in Nat /\ c.l2 \in Nat
    BY DEF Chunks
  <1>2. d = [l1 |-> c.l1, from |-> c.from + 1, to |-> c.to, buf |-> c.buf, l2 |-> c.l2 + 1]
    BY <1>1
  <1>3. c.from + 1 \in Nat /\ c.l2 + 1 \in Nat
    BY <1>1
  <1> QED
    BY <1>1, <1>2, <1>3 DEF Chunks

LEMMA RefineStep ==
    ASSUME Types, HandInv, CoarseInv, NEW w \in Workers, RefineChunk(w)
    PROVE  LET c == Head(th[w].recv)
               p == c.from
               d == [c EXCEPT !.from = p + 1, !.l2 = @ + 1]
           IN /\ Types' /\ w[1] = "refine" /\ c \in Content(At("refine"))
              /\ chunk' = [chunk EXCEPT ![p] = [seq |-> <<c.l1, c.l2>>, last |-> p = c.to, buf |-> c.buf,
                             state |-> "uncompressed", ref |-> 0]]
              /\ Content(At("dedup")') = Content(At("dedup")) \cup {p}
              /\ \A R : /\ Separate(R, At("dedup"))
                        /\ \A q \in Content(At("dedup")) : <<q, p>> \in R /\ <<p, q>> \in R
                        => Separate(R, At("dedup")')
              /\ Kept("compress") /\ Kept("reorder") /\ ThQuiet
              /\ \/ /\ p = c.to /\ refs' = refs
                    /\ Content(At("refine")) = Content(At("refine")') \cup {c}
                    /\ \A R : Separate(R, At("refine")) =>
                         /\ Separate(R, At("refine")')
                         /\ \A x \in Content(At("refine")') : <<x, c>> \in R /\ <<c, x>> \in R
                 \/ /\ p # c.to /\ refs' = [refs EXCEPT ![c.buf] = @ + 1]
                    /\ d \in Chunks /\ Swapped(At("refine"), At("refine")', c, d)
  <1> DEFINE c == Head(th[w].recv)
             p == c.from
             d == [c EXCEPT !.from = p + 1, !.l2 = @ + 1]
             rest == IF p = c.to THEN <<>> ELSE <<d>>
             fresh == [seq |-> <<c.l1, c.l2>>, last |-> p = c.to, buf |-> c.buf,
                             state |-> "uncompressed", ref |-> 0]
             q == rest \o Tail(th[w].recv)
             v == [th[w] EXCEPT !.recv = q, !.send = [th[w].send EXCEPT !["dedup"] = Append(th[w].send["dedup"], p)]]
  <1>1. /\ Framed /\ que' = que /\ fr' = fr /\ ro' = ro /\ w[1] = "refine" /\ th[w].pc = "run"
        /\ th[w].recv # <<>> /\ chunk' = [chunk EXCEPT ![p] = fresh]
        /\ refs' = IF p = c.to THEN refs ELSE [refs EXCEPT ![c.buf] = @ + 1]
        /\ perAnchor' = perAnchor /\ table' = table /\ bucketLock' = bucketLock
    BY DEF RefineChunk, Framed, queueVars, Ready, Split
  <1>2. c \in Content(At("refine")) /\ Tail(th[w].recv) \in Seq(Chunks)
    <2>1. Elem(w[1]) = Chunks
      BY <1>1 DEF Elem
    <2> QED
      BY <1>1, <2>1, HeadIn
  <1>3. /\ c \in Chunks /\ p \in Places /\ c.to \in Places /\ c.l1 \in Nat /\ c.from \in Nat
        /\ c.to \in Nat /\ c.buf \in Nat /\ c.l2 \in Nat
    BY <1>2, CoarsePlaces
  <1>4. d \in Chunks
    <2> HIDE DEF c
    <2> QED
      BY <1>3, CutFront
  <1>5. th' = [th EXCEPT ![w] = v]
    <2>1. th' = [th EXCEPT ![w].recv = q, ![w].send["dedup"] = Append(@, p)]
      BY DEF RefineChunk
    <2> HIDE DEF q, p
    <2>2. /\ th = [u \in Workers |-> th[u]] /\ w \in Workers
          /\ th[w] = [pc |-> th[w].pc, recv |-> th[w].recv, found |-> th[w].found, send |-> th[w].send]
      BY ThIs
    <2> QED
      BY ONLY <2>1, <2>2
  <1> HIDE DEF c
  <1>6. q \in Seq(Chunks) /\ (p = c.to => q = Tail(th[w].recv)) /\ (p # c.to => q = <<d>> \o Tail(th[w].recv))
    <2> HIDE DEF d, p
    <2>1. CASE p = c.to
      <3>1. q = <<>> \o Tail(th[w].recv)
        BY <2>1
      <3>2. <<>> \o Tail(th[w].recv) = Tail(th[w].recv)
        BY <1>2, ConcatEmptySeq
      <3> QED
        BY <1>2, <2>1, <3>1, <3>2
    <2>2. CASE p # c.to
      BY <1>2, <1>4, <2>2
    <2> QED
      BY <2>1, <2>2
  <1> HIDE DEF q, p, d
  <1>7. NextOf[w[1]] = {"dedup"} /\ th[w].send["dedup"] \in Seq(Places)
        /\ Append(th[w].send["dedup"], p) \in Seq(Places)
    <2>1. NextOf[w[1]] = {"dedup"}
      BY <1>1, StageFacts
    <2>2. th[w].send \in [NextOf[w[1]] -> Seq(Places)]
      BY ThIs
    <2>3. th[w].send["dedup"] \in Seq(Places)
      BY <2>1, <2>2
    <2> QED
      BY <1>3, <2>1, <2>3
  <1>8. v \in ThreadOf(w[1]) /\ v.recv = q /\ v.found = th[w].found /\ v.pc = "run"
        /\ v.send["dedup"] = Append(th[w].send["dedup"], p)
    <2>1. Elem(w[1]) = Chunks
      BY <1>1 DEF Elem
    <2> QED
      BY <1>1, <1>6, <1>7, <2>1, ThIs DEF ThreadOf
  <1> HIDE DEF v
  <1>9. ThType' /\ th'[w] = v /\ \A u \in Workers \ {w} : th'[u] = th[u]
    BY <1>1, <1>5, <1>8, ThNext
  <1>10. DataType'
    <2>1. fresh \in FineType
      BY <1>3 DEF FineType
    <2> HIDE DEF fresh
    <2>2. chunk' \in [Places -> FineType]
      BY <1>1, <1>3, <2>1, DataIs
    <2>3. refs' \in [1 .. Len(file) + 2 -> Int]
      BY <1>1, RefsChange
    <2> QED
      BY <1>1, <2>2, <2>3, DataIs, DataNext
  <1>11. Types'
    BY <1>1, <1>9, <1>10, FrStays, RoStays, InputNext, QueStays DEF Types
  <1>12. ASSUME NEW r \in {"compress", "reorder"} PROVE Kept(r)
    <2>1. /\ perQueue' = perQueue /\ que'[r] = que[r] /\ ro'.recv = ro.recv /\ fr'.send = fr.send
          /\ \A u \in Workers : u[1] = r => th'[u].recv = th[u].recv
          /\ \A u \in Workers : r \in NextOf[u[1]] => th'[u].send[r] = th[u].send[r]
      <3>1. r # w[1] /\ r \notin NextOf[w[1]]
        BY <1>1, <1>7, <1>12
      <3> QED
        BY <1>1, <1>9, <3>1 DEF Framed
    <2>2. \A y \in Names \ {} : At(r)'[y] = At(r)[y]
      BY ONLY <2>1, AtElse
    <2> QED
      BY <2>1, <2>2, AtSame, KeptSame
  <1> DEFINE a == <<"recv", w>>
             b == <<"send", w>>
  <1>13. a \in Names /\ b \in Names /\ "refine" \in Stages /\ "dedup" \in Stages
         /\ Elem("refine") = Chunks /\ Elem("dedup") = Places
    BY NameShapes, StageFacts DEF Elem
  <1>14. /\ perQueue' = perQueue /\ que' = que /\ ro'.recv = ro.recv /\ fr'.send = fr.send
         /\ \A u \in Workers \ {w} : th'[u].recv = th[u].recv /\ th'[u].send = th[u].send
         /\ th'[w].recv = q /\ th'[w].send["dedup"] = Append(th[w].send["dedup"], p)
    BY <1>1, <1>8, <1>9 DEF Framed
  <1>15. /\ At("refine")[a] = th[w].recv /\ At("refine")'[a] = q
         /\ \A y \in Names \ {a} : At("refine")'[y] = At("refine")[y]
    <2>1. \A u \in Workers : "refine" \notin NextOf[u[1]]
      BY NextOfPool
    <2>2. At("refine")[a] = th[w].recv
      BY <1>1, AtValues
    <2>3. At("refine")'[a] = q
      <3>1. \A u \in Workers : At("refine")'[<<"recv", u>>] = IF u[1] = "refine" THEN th'[u].recv ELSE <<>>
        BY ONLY <1>14, ThreadsNext
      <3> QED
        BY <1>1, <1>14, <3>1
    <2>4. \A u \in Workers : <<"recv", u>> \notin {a} => th'[u].recv = th[u].recv
      BY <1>14
    <2> HIDE DEF a
    <2>5. \A y \in Names \ {a} : At("refine")'[y] = At("refine")[y]
      BY ONLY <1>14, <2>1, <2>4, AtElse
    <2> QED
      BY <2>2, <2>3, <2>5
  <1>16. /\ At("dedup")[b] = th[w].send["dedup"] /\ At("dedup")'[b] = Append(th[w].send["dedup"], p)
         /\ \A y \in Names \ {b} : At("dedup")'[y] = At("dedup")[y]
    <2>1. \A u \in Workers : u[1] = "dedup" => th'[u].recv = th[u].recv
      BY <1>1, <1>14
    <2>2. At("dedup")[b] = th[w].send["dedup"]
      BY <1>7, AtValues
    <2>3. At("dedup")'[b] = Append(th[w].send["dedup"], p)
      <3>1. \A u \in Workers : At("dedup")'[<<"send", u>>] = IF "dedup" \in NextOf[u[1]] THEN th'[u].send["dedup"] ELSE <<>>
        BY ONLY <1>14, ThreadsNext
      <3> QED
        BY <1>7, <1>14, <3>1
    <2>4. \A u \in Workers : <<"send", u>> \notin {b} => th'[u].send = th[u].send
      BY <1>14
    <2> HIDE DEF b
    <2>5. \A y \in Names \ {b} : At("dedup")'[y] = At("dedup")[y]
      BY ONLY <1>14, <2>1, <2>4, AtElse
    <2> QED
      BY <2>2, <2>3, <2>5
  <1> HIDE DEF a, b, fresh
  <1>17. /\ Content(At("dedup")') = Content(At("dedup")) \cup {p}
         /\ \A R : /\ Separate(R, At("dedup"))
                   /\ \A x \in Content(At("dedup")) : <<x, p>> \in R /\ <<p, x>> \in R
                   => Separate(R, At("dedup")')
    BY <1>1, <1>3, <1>11, <1>13, <1>16, AddAt DEF Framed
  <1>18. CASE p = c.to
    <2>1. At("refine")[a] # <<>> /\ At("refine")'[a] = Tail(At("refine")[a]) /\ Head(At("refine")[a]) = c
      BY <1>1, <1>6, <1>15, <1>18 DEF c
    <2>2. /\ Content(At("refine")) = Content(At("refine")') \cup {c}
          /\ \A R : Separate(R, At("refine")) =>
               /\ Separate(R, At("refine")')
               /\ \A x \in Content(At("refine")') : <<x, c>> \in R /\ <<c, x>> \in R
      BY <1>1, <1>11, <1>13, <1>15, <2>1, DropAt DEF Framed
    <2>3. ThQuiet
      BY <1>8, <1>9 DEF ThQuiet
    <2> QED
      BY <1>1, <1>2, <1>11, <1>12, <1>17, <1>18, <2>2, <2>3 DEF c, p, fresh
  <1>19. CASE p # c.to
    <2>1. At("refine")[a] # <<>> /\ At("refine")'[a] = <<d>> \o Tail(At("refine")[a]) /\ Head(At("refine")[a]) = c
      BY <1>1, <1>6, <1>15, <1>19 DEF c
    <2>2. Swapped(At("refine"), At("refine")', c, d)
      BY <1>1, <1>4, <1>11, <1>13, <1>15, <2>1, TurnAt DEF Framed
    <2>3. ThQuiet
      BY <1>8, <1>9 DEF ThQuiet
    <2> QED
      BY <1>1, <1>2, <1>4, <1>11, <1>12, <1>17, <1>19, <2>2, <2>3 DEF c, p, d, fresh
  <1> QED
    BY <1>18, <1>19

\* Fragment sends e to its ring buffer.
Emitted(e) ==
    /\ Content(At("refine")') = Content(At("refine")) \cup {e}
    /\ \A R : /\ Separate(R, At("refine"))
              /\ \A d \in Content(At("refine")) : <<d, e>> \in R /\ <<e, d>> \in R
              => Separate(R, At("refine")')
    /\ \A s \in Stages \ {"refine"} : Kept(s)

LEMMA Emitting ==
    ASSUME Types, Types', Framed, NEW e \in Chunks, fr'.send = Append(fr.send, e),
           que' = que, th' = th, ro' = ro
    PROVE  Emitted(e)
  <1>1. perQueue' = perQueue /\ file' = file
    BY DEF Framed
  <1>2. ASSUME NEW s \in Stages \ {"refine"} PROVE Kept(s)
    <2>1. \A y \in Names \ {} : At(s)'[y] = At(s)[y]
      BY <1>1, <1>2, AtElse
    <2> QED
      BY <1>1, <2>1, AtSame, KeptSame
  <1> DEFINE b == <<"send", Fragment>>
  <1>3. b \in Names /\ "refine" \in Stages /\ Elem("refine") = Chunks
    BY NameShapes, StageFacts DEF Elem
  <1>4. At("refine")[b] = fr.send /\ At("refine")'[b] = Append(fr.send, e)
    BY <1>1, AtValues, AtValuesNext
  <1>5. \A y \in Names \ {b} : At("refine")'[y] = At("refine")[y]
    BY <1>1, AtElse
  <1> HIDE DEF b
  <1> QED
    BY <1>1, <1>2, <1>3, <1>4, <1>5, AddAt DEF Emitted

LEMMA FrNext ==
    ASSUME Types, Framed,
           fr' = [pc |-> fr'.pc, pos |-> fr'.pos, reads |-> fr'.reads, left |-> fr'.left, cur |-> fr'.cur,
                    anchors |-> fr'.anchors, qid |-> fr'.qid, send |-> fr'.send],
           fr'.pc \in {"read", "split", "drain", "stop", "done"}, fr'.pos \in 0 .. Len(file),
           fr'.reads \in Nat, fr'.left \in Chunks \cup {NoChunk}, fr'.cur \in Chunks \cup {NoChunk},
           fr'.anchors \in Nat, fr'.qid = fr.qid, fr'.send \in Seq(Chunks), fr.pc \in {"read", "split", "drain"}
    PROVE  FrType'
  <1>1. Queues' = Queues
    BY DEF Framed, Queues, NQueues
  <1> QED
    BY <1>1, FrIs DEF FrType, Framed

\* What a read of n places puts into the new buffer.
ReadOf(n) ==
    [l1 |-> IF fr.left = NoChunk THEN fr.anchors ELSE fr.left.l1,
     from |-> IF fr.left = NoChunk THEN fr.pos + 1 ELSE fr.left.from,
     to |-> fr.pos + n, buf |-> fr.reads + 1, l2 |-> 0]
ReadRefs == [x \in DOMAIN refs |-> CASE x = fr.reads + 1 -> 1
                                     [] x = fr.left.buf -> refs[x] - 1
                                     [] OTHER -> refs[x]]

LEMMA FragmentReadStep ==
    ASSUME Types, HandInv, FragmentRead
    PROVE  /\ Types' /\ fr.pc = "read" /\ fr.cur = NoChunk
           /\ \/ /\ fr.left = NoChunk /\ fr.pos = Len(file) /\ fr'.pc = "drain"
                 /\ FrQuiet /\ refs' = refs /\ AllKept
              \/ \E n \in Nat :
                   /\ fr.pos + n <= Len(file) /\ ReadOf(n) \in Chunks
                   /\ refs' = ReadRefs
                   /\ fr'.pos = fr.pos + n /\ fr'.reads = fr.reads + 1 /\ fr'.left = NoChunk
                   /\ fr'.anchors = IF fr.left = NoChunk THEN fr.anchors + 1 ELSE fr.anchors
                   /\ \/ /\ n = 0 /\ fr.pos = Len(file) /\ fr.left # NoChunk /\ fr'.pc = "drain"
                         /\ fr'.cur = NoChunk /\ Emitted(ReadOf(n))
                      \/ /\ n > 0 /\ fr'.pc = "split" /\ fr'.cur = ReadOf(n) /\ AllKept
                         /\ fr'.send = fr.send
  <1> DEFINE n == Min({MaxBuf, Len(file) - fr.pos})
             fresh == fr.left = NoChunk
             c == [l1 |-> IF fresh THEN fr.anchors ELSE fr.left.l1,
                     from |-> IF fresh THEN fr.pos + 1 ELSE fr.left.from,
                     to |-> fr.pos + n, buf |-> fr.reads + 1, l2 |-> 0]
  <1>1. /\ Framed /\ que' = que /\ th' = th /\ ro' = ro /\ fr.pc = "read"
        /\ perAnchor' = perAnchor /\ table' = table /\ bucketLock' = bucketLock /\ chunk' = chunk
    BY DEF FragmentRead, Framed, queueVars
  <1>2. fr.cur = NoChunk /\ fr.send = <<>>
    BY <1>1 DEF HandInv
  <1>3. n \in Nat /\ fr.pos + n <= Len(file) /\ (n = 0 => fr.pos = Len(file))
    <2>1. MaxBuf \in Nat \ {0} /\ Len(file) - fr.pos \in Nat /\ fr.pos \in Nat /\ Len(file) \in Nat
      <3>1. MaxBuf \in Nat \ {0}
        BY ONLY SizesAssumption
      <3>2. fr.pos \in 0 .. Len(file)
        BY ONLY Types, FrIs
      <3>3. Len(file) \in Nat
        BY ONLY Types, DataIs
      <3> QED
        BY ONLY <3>1, <3>2, <3>3
    <2>2. n \in Nat /\ n <= Len(file) - fr.pos /\ n \in {MaxBuf, Len(file) - fr.pos}
      BY <2>1, LeastOfTwo
    <2> QED
      BY <2>1, <2>2
  <1>4. \/ fresh /\ n = 0 /\ fr' = [fr EXCEPT !.pc = "drain"] /\ refs' = refs
        \/ /\ ~(fresh /\ n = 0) /\ refs' = ReadRefs
           /\ fr' = [fr EXCEPT !.reads = fr.reads + 1, !.pos = @ + n, !.left = NoChunk,
                                   !.anchors = IF fresh THEN @ + 1 ELSE @,
                                   !.pc = IF n = 0 THEN "drain" ELSE "split",
                                   !.cur = IF n = 0 THEN NoChunk ELSE c,
                                   !.send = IF n = 0 THEN Append(@, c) ELSE @]
    BY DEF FragmentRead, ReadRefs
  <1>5. c = ReadOf(n)
    BY DEF ReadOf
  <1> HIDE DEF n
  <1>6. c \in Chunks
    <2>1. fr.left # NoChunk => fr.left.l1 \in Nat /\ fr.left.from \in Nat
      BY FrIs DEF Chunks
    <2>2. fr.anchors \in Nat /\ fr.pos + 1 \in Nat /\ fr.pos + n \in Nat /\ fr.reads + 1 \in Nat
      BY <1>3, FrIs
    <2> QED
      BY <2>1, <2>2 DEF Chunks
  <1> HIDE DEF c
  <1>7. \A s \in Stages : At(s) = At(s)
    OBVIOUS
  <1>8. InputType' /\ QueType' /\ ThType' /\ RoType'
    BY <1>1, InputNext, QueStays, ThStays, RoStays
  <1>9. refs' \in [1 .. Len(file) + 2 -> Int]
    <2>1. ReadRefs \in [1 .. Len(file) + 2 -> Int]
      BY DataIs DEF ReadRefs
    <2> QED
      BY <1>4, <2>1, DataIs
  <1>10. DataType'
    BY <1>1, <1>9, DataIs, DataNext
  <1>11. CASE fresh /\ n = 0 /\ fr' = [fr EXCEPT !.pc = "drain"] /\ refs' = refs
    <2>1. FrQuiet /\ fr'.pc = "drain" /\ fr'.send = fr.send /\ fr'.qid = fr.qid
          /\ fr' = [pc |-> fr'.pc, pos |-> fr'.pos, reads |-> fr'.reads, left |-> fr'.left, cur |-> fr'.cur,
                    anchors |-> fr'.anchors, qid |-> fr'.qid, send |-> fr'.send]
      BY <1>11, FrIs DEF FrQuiet
    <2>2. FrType'
      BY <1>1, <2>1, FrIs, FrNext DEF FrQuiet
    <2>3. Types'
      BY <1>8, <1>10, <2>2 DEF Types
    <2>4. AllKept
      BY <1>1, <2>1, SameBuffers
    <2> QED
      BY <1>1, <1>2, <1>3, <1>11, <2>1, <2>3, <2>4
  <1>12. CASE /\ ~(fresh /\ n = 0) /\ refs' = ReadRefs
              /\ fr' = [fr EXCEPT !.reads = fr.reads + 1, !.pos = @ + n, !.left = NoChunk,
                                   !.anchors = IF fresh THEN @ + 1 ELSE @,
                                   !.pc = IF n = 0 THEN "drain" ELSE "split",
                                   !.cur = IF n = 0 THEN NoChunk ELSE c,
                                   !.send = IF n = 0 THEN Append(@, c) ELSE @]
    <2>1. /\ fr'.reads = fr.reads + 1 /\ fr'.pos = fr.pos + n /\ fr'.left = NoChunk /\ fr'.qid = fr.qid
          /\ fr'.anchors = IF fresh THEN fr.anchors + 1 ELSE fr.anchors
          /\ fr'.pc = IF n = 0 THEN "drain" ELSE "split"
          /\ fr'.cur = IF n = 0 THEN NoChunk ELSE c
          /\ fr'.send = IF n = 0 THEN Append(fr.send, c) ELSE fr.send
          /\ fr' = [pc |-> fr'.pc, pos |-> fr'.pos, reads |-> fr'.reads, left |-> fr'.left, cur |-> fr'.cur,
                    anchors |-> fr'.anchors, qid |-> fr'.qid, send |-> fr'.send]
      BY <1>12, FrIs
    <2>2. /\ fr'.pos \in 0 .. Len(file) /\ fr'.reads \in Nat /\ fr'.anchors \in Nat /\ fr'.send \in Seq(Chunks)
          /\ fr'.pc \in {"read", "split", "drain", "stop", "done"} /\ fr'.cur \in Chunks \cup {NoChunk}
      <3>1. Append(fr.send, c) \in Seq(Chunks)
        BY <1>6, FrIs
      <3>2. fr.pos \in Nat /\ fr.reads \in Nat /\ fr.anchors \in Nat /\ fr.send \in Seq(Chunks)
        BY FrIs
      <3>3. fr'.pos \in 0 .. Len(file)
        <4>1. Len(file) \in Nat /\ fr.pos + n \in Nat /\ fr.pos + n <= Len(file)
          BY <1>3, <3>2, DataIs
        <4> QED
          BY ONLY <2>1, <4>1
      <3>4. fr'.reads \in Nat /\ fr'.anchors \in Nat /\ fr'.pc \in {"read", "split", "drain", "stop", "done"}
        BY ONLY <2>1, <3>2
      <3>5. fr'.send \in Seq(Chunks) /\ fr'.cur \in Chunks \cup {NoChunk}
        BY ONLY <1>6, <2>1, <3>1, <3>2
      <3> QED
        BY ONLY <3>3, <3>4, <3>5
    <2>3. FrType'
      BY <1>1, <2>1, <2>2, FrNext
    <2>4. Types'
      BY <1>8, <1>10, <2>3 DEF Types
    <2>5. CASE n = 0
      <3>1. Emitted(c)
        BY <1>1, <1>6, <2>1, <2>4, <2>5, Emitting
      <3> QED
        BY <1>1, <1>2, <1>3, <1>5, <1>6, <1>12, <2>1, <2>4, <2>5, <3>1
    <2>6. CASE n # 0
      <3>1. AllKept
        BY <1>1, <2>1, <2>6, SameBuffers
      <3>2. n > 0
        BY <1>3, <2>6
      <3> QED
        BY <1>1, <1>2, <1>3, <1>5, <1>6, <1>12, <2>1, <2>4, <2>6, <3>1, <3>2
    <2> QED
      BY <2>5, <2>6
  <1> QED
    BY <1>4, <1>11, <1>12

LEMMA CutAt ==
    ASSUME NEW c \in Chunks, NEW x \in Nat, NEW l \in Nat, NEW e, NEW d,
           e = [c EXCEPT !.to = x], d = [c EXCEPT !.from = x + 1, !.l1 = l]
    PROVE  /\ e = [l1 |-> c.l1, from |-> c.from, to |-> x, buf |-> c.buf, l2 |-> c.l2] /\ e \in Chunks
           /\ d = [l1 |-> l, from |-> x + 1, to |-> c.to, buf |-> c.buf, l2 |-> c.l2] /\ d \in Chunks
  <1>1. /\ c = [l1 |-> c.l1, from |-> c.from, to |-> c.to, buf |-> c.buf, l2 |-> c.l2]
        /\ c.l1 \in Nat /\ c.from \in Nat /\ c.to \in Nat /\ c.buf \in Nat /\ c.l2 \in Nat
    BY DEF Chunks
  <1>2. e = [l1 |-> c.l1, from |-> c.from, to |-> x, buf |-> c.buf, l2 |-> c.l2]
    BY <1>1
  <1>3. d = [l1 |-> l, from |-> x + 1, to |-> c.to, buf |-> c.buf, l2 |-> c.l2]
    BY <1>1
  <1>4. x + 1 \in Nat
    OBVIOUS
  <1> QED
    BY <1>1, <1>2, <1>3, <1>4 DEF Chunks

LEMMA FragmentSplitStep ==
    ASSUME Types, HandInv, FragmentSplit
    PROVE  LET c == fr.cur IN
           /\ Types' /\ fr.pc = "split" /\ c \in Chunks /\ fr.left = NoChunk /\ fr'.pos = fr.pos /\ fr'.reads = fr.reads
           /\ \/ /\ CutsIn(c) = {} /\ refs' = refs /\ AllKept /\ fr'.send = <<>>
                 /\ fr'.pc = "read" /\ fr'.left = c /\ fr'.cur = NoChunk /\ fr'.anchors = fr.anchors
              \/ \E x \in Cuts :
                   /\ c.from <= x /\ x < c.to /\ \A y \in c.from .. x - 1 : y \notin Cuts
                   /\ refs' = [refs EXCEPT ![c.buf] = @ + 1]
                   /\ fr'.pc = "split" /\ fr'.left = NoChunk /\ fr'.anchors = fr.anchors + 1
                   /\ [c EXCEPT !.to = x] \in Chunks /\ Emitted([c EXCEPT !.to = x])
                   /\ fr'.cur = [c EXCEPT !.from = x + 1, !.l1 = fr.anchors]
                   /\ fr'.cur \in Chunks
  <1> DEFINE c == fr.cur
  <1>1. /\ Framed /\ que' = que /\ th' = th /\ ro' = ro /\ fr.pc = "split" /\ fr.send = <<>>
        /\ perAnchor' = perAnchor /\ table' = table /\ bucketLock' = bucketLock /\ chunk' = chunk
    BY DEF FragmentSplit, Framed, queueVars
  <1>2. c \in Chunks /\ fr.left = NoChunk
    BY <1>1, FrIs DEF HandInv
  <1>3. c.from \in Nat /\ c.to \in Nat /\ c.l1 \in Nat /\ c.buf \in Nat /\ c.l2 \in Nat
    BY <1>2 DEF Chunks
  <1>4. InputType' /\ QueType' /\ ThType' /\ RoType'
    BY <1>1, InputNext, QueStays, ThStays, RoStays
  <1>5. refs' \in [1 .. Len(file) + 2 -> Int]
    BY RefsChange DEF FragmentSplit, Split
  <1>6. DataType'
    BY <1>1, <1>5, DataIs, DataNext
  <1>7. CASE CutsIn(c) = {}
    <2>1. fr' = [fr EXCEPT !.pc = "read", !.left = c, !.cur = NoChunk] /\ refs' = refs
      BY <1>7 DEF FragmentSplit
    <2>2. /\ fr'.pc = "read" /\ fr'.left = c /\ fr'.cur = NoChunk /\ fr'.anchors = fr.anchors
          /\ fr'.pos = fr.pos /\ fr'.reads = fr.reads /\ fr'.send = fr.send /\ fr'.qid = fr.qid
          /\ fr' = [pc |-> fr'.pc, pos |-> fr'.pos, reads |-> fr'.reads, left |-> fr'.left, cur |-> fr'.cur,
                    anchors |-> fr'.anchors, qid |-> fr'.qid, send |-> fr'.send]
      BY <2>1, FrIs
    <2>3. FrType'
      BY <1>1, <1>2, <2>2, FrIs, FrNext
    <2>4. AllKept
      BY <1>1, <2>2, SameBuffers
    <2> QED
      BY <1>1, <1>2, <1>4, <1>6, <1>7, <2>1, <2>2, <2>3, <2>4 DEF Types
  <1>8. CASE CutsIn(c) # {}
    <2>1. PICK x \in CutsIn(c) : x = Min(CutsIn(c)) /\ \A y \in CutsIn(c) : x <= y
      <3>1. CutsIn(c) \in SUBSET Nat
        BY InputsAssumption DEF CutsIn
      <3> QED
        BY <1>8, <3>1, LeastOfSet
    <2>2. x \in Cuts /\ x \in Nat /\ c.from <= x /\ x < c.to /\ \A y \in c.from .. x - 1 : y \notin Cuts
      <3>1. x \in Cuts /\ x \in Nat /\ c.from <= x /\ x < c.to
        BY InputsAssumption DEF CutsIn
      <3>2. ASSUME NEW y \in c.from .. x - 1, y \in Cuts PROVE FALSE
        <4>1. y \in CutsIn(c) /\ y < x
          BY <1>3, <3>1, <3>2 DEF CutsIn
        <4> QED
          BY <1>3, <2>1, <3>1, <4>1
      <3> QED
        BY <3>1, <3>2
    <2> DEFINE e == [c EXCEPT !.to = x]
               d == [c EXCEPT !.from = x + 1, !.l1 = fr.anchors]
    <2>3. fr' = [fr EXCEPT !.send = <<e>>, !.cur = d, !.anchors = @ + 1] /\ refs' = [refs EXCEPT ![c.buf] = @ + 1]
      BY <1>8, <2>1 DEF FragmentSplit, Split
    <2>4. e \in Chunks /\ d \in Chunks
      <3>1. x \in Nat /\ fr.anchors \in Nat
        BY <2>2, FrIs
      <3> HIDE DEF c
      <3> QED
        BY <1>2, <3>1, CutAt
    <2> HIDE DEF e, d
    <2>5. /\ fr'.pc = "split" /\ fr'.left = fr.left /\ fr'.cur = d /\ fr'.anchors = fr.anchors + 1
          /\ fr'.pos = fr.pos /\ fr'.reads = fr.reads /\ fr'.send = <<e>> /\ fr'.qid = fr.qid
          /\ fr' = [pc |-> fr'.pc, pos |-> fr'.pos, reads |-> fr'.reads, left |-> fr'.left, cur |-> fr'.cur,
                    anchors |-> fr'.anchors, qid |-> fr'.qid, send |-> fr'.send]
      BY <1>1, <2>3, FrIs
    <2>6. FrType'
      <3>1. fr'.send \in Seq(Chunks) /\ fr'.anchors \in Nat
        BY <2>4, <2>5, FrIs
      <3> QED
        BY <1>1, <2>4, <2>5, <3>1, FrIs, FrNext
    <2>7. Types'
      BY <1>4, <1>6, <2>6 DEF Types
    <2>8. Emitted(e)
      <3>1. fr'.send = Append(fr.send, e)
        BY <1>1, <2>5
      <3> QED
        BY <1>1, <2>4, <2>7, <3>1, Emitting
    <2> QED
      BY <1>1, <1>2, <2>2, <2>3, <2>4, <2>5, <2>7, <2>8 DEF e, d
  <1> QED
    BY <1>7, <1>8

-----------------------------------------------------------------------------
(* Who holds a reference to a buffer, and how the count follows it.        *)

LEMMA NumberRun ==
    ASSUME NEW r \in Nat \ {0}, NEW q \in Nat, r <= q, \A y \in r .. q - 1 : y \notin Cuts
    PROVE  Number(q) = <<Number(r)[1], Number(r)[2] + (q - r)>>
  <1>1. /\ IsFiniteSet(Below(r)) /\ IsFiniteSet(Since(r))
        /\ Number(r)[1] = Cardinality(Below(r)) /\ Number(r)[2] = Cardinality(Since(r))
    BY NumberType
  <1>2. Below(q) = Below(r)
    <2>1. ASSUME NEW y \in Cuts, y \in 1 .. q - 1 PROVE y \in 1 .. r - 1
      <3>1. y \notin r .. q - 1
        BY <2>1
      <3> QED
        BY <2>1, <3>1
    <2>2. ASSUME NEW y \in 1 .. r - 1 PROVE y \in 1 .. q - 1
      OBVIOUS
    <2> QED
      BY <2>1, <2>2 DEF Below
  <1>3. Since(q) = Since(r) \cup (r .. q - 1)
    <2>1. ASSUME NEW z \in Since(q), z \notin r .. q - 1 PROVE z \in Since(r)
      <3>1. z \in 1 .. q - 1 /\ \A y \in z .. q - 1 : y \notin Cuts
        BY DEF Since
      <3>2. z \in 1 .. r - 1 /\ \A y \in z .. r - 1 : y \in z .. q - 1
        BY <2>1, <3>1
      <3> QED
        BY <3>1, <3>2 DEF Since
    <2>2. ASSUME NEW z \in Since(r) PROVE z \in Since(q)
      <3>1. z \in 1 .. r - 1 /\ \A y \in z .. r - 1 : y \notin Cuts
        BY DEF Since
      <3>2. z \in 1 .. q - 1 /\ \A y \in z .. q - 1 : y \in z .. r - 1 \/ y \in r .. q - 1
        BY <3>1
      <3> QED
        BY <3>1, <3>2 DEF Since
    <2>3. ASSUME NEW z \in r .. q - 1 PROVE z \in Since(q)
      <3>1. z \in 1 .. q - 1 /\ \A y \in z .. q - 1 : y \in r .. q - 1
        OBVIOUS
      <3> QED
        BY <3>1 DEF Since
    <2> QED
      BY <2>1, <2>2, <2>3
  <1>4. Since(r) \cap (r .. q - 1) = {}
    BY DEF Since
  <1>5. IsFiniteSet(r .. q - 1) /\ Cardinality(r .. q - 1) = q - r
    <2>1. r \in Int /\ q - 1 \in Int
      OBVIOUS
    <2>2. IsFiniteSet(r .. q - 1) /\ Cardinality(r .. q - 1) = IF r > q - 1 THEN 0 ELSE (q - 1) - r + 1
      BY <2>1, FS_Interval
    <2> QED
      BY <2>2
  <1>6. Cardinality(Since(q)) = Cardinality(Since(r)) + (q - r)
    <2>1. /\ Cardinality(Since(r) \cup (r .. q - 1))
              = Cardinality(Since(r)) + Cardinality(r .. q - 1) - Cardinality(Since(r) \cap (r .. q - 1))
          /\ Cardinality({}) = 0 /\ Cardinality(Since(r)) \in Nat
      BY <1>1, <1>5, FS_Union, FS_EmptySet, FS_CardinalityType
    <2>2. Cardinality(Since(q)) = Cardinality(Since(r) \cup (r .. q - 1))
      BY <1>3
    <2>3. Cardinality(Since(r) \cap (r .. q - 1)) = 0
      BY <1>4, <2>1
    <2> QED
      BY <1>5, <2>1, <2>2, <2>3
  <1> QED
    BY <1>1, <1>2, <1>6 DEF Number

LEMMA CoarseShape ==
    ASSUME Types
    PROVE  \A c : c \in Coarse <=> c \in {fr.left, fr.cur} \cup Content(At("refine"))
  <1> DEFINE f == At("refine")
  <1>1. /\ \A w \in Workers : "refine" \notin NextOf[w[1]]
        /\ DOMAIN f = Names
    BY NextOfPool, AtValues
  <1>2. /\ \A i \in Queues : f[<<"que", i>>] = que["refine"][i]
        /\ f[<<"recv", Reorder>>] = <<>> /\ f[<<"send", Fragment>>] = fr.send
    BY AtValues
  <1>3. /\ \A w \in Workers : f[<<"recv", w>>] = IF w[1] = "refine" THEN th[w].recv ELSE <<>>
        /\ \A w \in Workers : f[<<"send", w>>] = <<>>
    BY <1>1, AtValues
  <1> DEFINE A == UNION {ToSet(que["refine"][i]) : i \in Queues}
             B == UNION {ToSet(th[w].recv) : w \in {v \in Workers : v[1] = "refine"}}
  <1>a. Coarse = {fr.left, fr.cur} \cup ToSet(fr.send) \cup A \cup B
    BY DEF Coarse
  <1> HIDE DEF f
  <1>4. ASSUME NEW c, c \in ToSet(fr.send) PROVE c \in Content(f)
    <2>1. PICK n \in DOMAIN fr.send : fr.send[n] = c
      BY <1>4 DEF ToSet
    <2>2. <<"send", Fragment>> \in DOMAIN f
      BY <1>1, NameShapes
    <2> QED
      BY <1>2, <2>1, <2>2, ContentShape
  <1>5. ASSUME NEW c, NEW i \in Queues, c \in ToSet(que["refine"][i]) PROVE c \in Content(f)
    <2>1. PICK n \in DOMAIN que["refine"][i] : que["refine"][i][n] = c
      BY <1>5 DEF ToSet
    <2>2. <<"que", i>> \in DOMAIN f
      BY <1>1, NameShapes
    <2> QED
      BY <1>2, <2>1, <2>2, ContentShape
  <1>6. ASSUME NEW c, NEW w \in Workers, w[1] = "refine", c \in ToSet(th[w].recv) PROVE c \in Content(f)
    <2>1. PICK n \in DOMAIN th[w].recv : th[w].recv[n] = c
      BY <1>6 DEF ToSet
    <2>2. <<"recv", w>> \in DOMAIN f
      BY <1>1, NameShapes
    <2> QED
      BY <1>3, <1>6, <2>1, <2>2, ContentShape
  <1>7. ASSUME NEW x \in Names, NEW n \in DOMAIN f[x] PROVE f[x][n] \in Coarse
    <2>1. CASE x = <<"que", x[2]>> /\ x[2] \in Queues
      <3>1. f[x][n] \in ToSet(que["refine"][x[2]])
        BY <1>2, <1>7, <2>1 DEF ToSet
      <3>2. f[x][n] \in A
        BY <2>1, <3>1
      <3> HIDE DEF A, B
      <3> QED
        BY <1>a, <3>2
    <2>2. CASE x = <<"recv", x[2]>> /\ x[2] \in Workers
      <3>1. PICK w \in Workers : x = <<"recv", w>>
        BY <2>2
      <3>2. w[1] = "refine" /\ n \in DOMAIN th[w].recv /\ f[x] = th[w].recv
        BY <1>3, <1>7, <3>1
      <3>3. f[x][n] \in ToSet(th[w].recv)
        BY <3>2 DEF ToSet
      <3>4. w \in {v \in Workers : v[1] = "refine"}
        BY <3>2
      <3>5. f[x][n] \in B
        BY <3>3, <3>4
      <3> HIDE DEF A, B
      <3> QED
        BY <1>a, <3>5
    <2>3. CASE x = <<"send", x[2]>> /\ x[2] = Fragment
      <3>1. f[x][n] \in ToSet(fr.send)
        BY <1>2, <1>7, <2>3 DEF ToSet
      <3> HIDE DEF A, B
      <3> QED
        BY <1>a, <3>1
    <2>4. CASE x = <<"recv", x[2]>> /\ x[2] = Reorder
      BY <1>2, <1>7, <2>4
    <2>5. CASE x = <<"send", x[2]>> /\ x[2] \in Workers
      BY <1>3, <1>7, <2>5
    <2> QED
      BY <2>1, <2>2, <2>3, <2>4, <2>5, NameShapes
  <1>8. \A c : c \in Coarse => c \in {fr.left, fr.cur} \cup Content(f)
    <2>1. ASSUME NEW c \in B PROVE c \in Content(f)
      BY <1>6
    <2>2. ASSUME NEW c \in A PROVE c \in Content(f)
      BY <1>5
    <2> HIDE DEF A, B
    <2> QED
      BY <1>a, <1>4, <2>1, <2>2
  <1>9. \A c : c \in Content(f) => c \in Coarse
    BY <1>1, <1>7, ContentShape
  <1> HIDE DEF A, B
  <1> QED
    BY <1>a, <1>8, <1>9 DEF f

\* The references of a coarse chunk and of a fine one.
HeldCoarse(b, q) ==
    \E h \in ({fr.left, fr.cur} \ {NoChunk}) \cup Content(At("refine")) : h.buf = b /\ h.from = q
HeldFine(b, q) == /\ q \in Places /\ chunk[q].buf = b /\ chunk[q].state = "uncompressed"
                  /\ chunk[q].ref \in {0, q}

LEMMA NoChunkFacts == NoChunk \notin Chunks /\ NoChunk.buf = 0
  BY DEF NoChunk, Chunks

LEMMA HoldersShape == Types => \A b, q : q \in Holders(b) <=> HeldCoarse(b, q) \/ HeldFine(b, q)
  <1> SUFFICES ASSUME Types, NEW b, NEW q
               PROVE  q \in Holders(b) <=> HeldCoarse(b, q) \/ HeldFine(b, q)
    OBVIOUS
  <1>1. NoChunk \notin Content(At("refine"))
    BY ContentType, NoChunkFacts, StageFacts DEF Elem
  <1>2. \A c : c \in Coarse /\ c # NoChunk <=> c \in ({fr.left, fr.cur} \ {NoChunk}) \cup Content(At("refine"))
    BY <1>1, CoarseShape
  <1>3. q \in Holders(b) <=> (\E c \in Coarse : c # NoChunk /\ c.buf = b /\ c.from = q) \/ HeldFine(b, q)
    BY DEF Holders, HeldFine
  <1> QED
    BY <1>2, <1>3 DEF HeldCoarse

LEMMA HoldersShapeNext == Types' => \A b, q : q \in Holders(b)' <=> HeldCoarse(b, q)' \/ HeldFine(b, q)'
  <1>1. Types' => (\A b, q : q \in Holders(b) <=> HeldCoarse(b, q) \/ HeldFine(b, q))'
    BY HoldersShape, PTL
  <1> QED
    BY <1>1

LEMMA HandStays ==
    ASSUME Types, HandInv, Framed, FrQuiet,
           \/ fr'.pc = fr.pc /\ (fr.pc # "read" \/ fr'.send = fr.send)
           \/ fr'.pc \in {"drain", "stop", "done"} /\ fr.left = NoChunk /\ fr.cur = NoChunk
    PROVE  HandInv' /\ Start' = Start
  <1>1. fr.reads \in Nat /\ fr.pos \in Nat
    BY FrIs
  <1> QED
    BY <1>1 DEF HandInv, Hand, Start, FrQuiet, Framed, CutsIn

Held(b, q) == HeldCoarse(b, q) \/ HeldFine(b, q)

LEMMA HoldersAre == Types => \A b : Holders(b) = {q \in Holders(b) : Held(b, q)} /\ \A q : q \in Holders(b) <=> Held(b, q)
  BY HoldersShape DEF Held
LEMMA HoldersAreNext == Types' => \A b, q : q \in Holders(b)' <=> Held(b, q)'
  BY HoldersShapeNext DEF Held

LEMMA HoldersFinite ==
    ASSUME Types, HandInv, CoarseInv, NEW b
    PROVE  IsFiniteSet(Holders(b)) /\ Holders(b) \subseteq Places
  <1>1. Holders(b) \subseteq Places
    <2>1. ASSUME NEW q \in Holders(b) PROVE q \in Places
      <3>1. CASE HeldFine(b, q)
        BY <3>1 DEF HeldFine
      <3>2. CASE HeldCoarse(b, q)
        <4>1. PICK h \in ({fr.left, fr.cur} \ {NoChunk}) \cup Content(At("refine")) : h.from = q
          BY <3>2 DEF HeldCoarse
        <4>2. CASE h \in Content(At("refine"))
          BY <4>1, <4>2, CoarsePlaces
        <4>3. CASE h \in {fr.left, fr.cur} \ {NoChunk}
          <5>1. 1 <= h.from /\ h.from <= h.to /\ h.to = fr.pos
            BY <4>3 DEF HandInv, Hand
          <5>2. h \in Chunks /\ fr.pos \in 0 .. Len(file) /\ Places = 1 .. Len(file) /\ Len(file) \in Nat
            BY <4>3, FrIs, DataIs
          <5>3. h.from \in Nat /\ h.to \in Nat
            BY <5>2 DEF Chunks
          <5> QED
            BY <4>1, <5>1, <5>2, <5>3
        <4> QED
          BY <4>1, <4>2, <4>3
      <3> QED
        BY <3>1, <3>2, HoldersAre DEF Held
    <2> QED
      BY <2>1
  <1>2. IsFiniteSet(Places)
    <2>1. Places = 1 .. Len(file) /\ 1 \in Int /\ Len(file) \in Int
      BY DataIs
    <2> QED
      BY <2>1, FS_Interval
  <1> QED
    BY <1>1, <1>2, FS_Subset

LEMMA RefsSame ==
    ASSUME Types, Types', RefsCountHolders, refs' = refs,
           \A b, q : Held(b, q)' <=> Held(b, q)
    PROVE  RefsCountHolders'
  <1>1. ASSUME NEW b PROVE Holders(b)' = Holders(b)
    <2>1. \A q : q \in Holders(b)' <=> q \in Holders(b)
      BY HoldersAre, HoldersAreNext
    <2> QED
      BY <2>1
  <1> QED
    BY <1>1 DEF RefsCountHolders

LEMMA RefsGain ==
    ASSUME Types, Types', HandInv, CoarseInv, RefsCountHolders, NEW k \in DOMAIN refs, NEW p,
           refs' = [refs EXCEPT ![k] = @ + 1], ~Held(k, p),
           \A b, q : Held(b, q)' <=> Held(b, q) \/ (b = k /\ q = p)
    PROVE  RefsCountHolders'
  <1>1. ASSUME NEW b, b # k PROVE Holders(b)' = Holders(b)
    <2>1. \A q : q \in Holders(b)' <=> q \in Holders(b)
      BY <1>1, HoldersAre, HoldersAreNext
    <2> QED
      BY <2>1
  <1>2. Holders(k)' = Holders(k) \cup {p}
    <2>1. \A q : q \in Holders(k)' <=> q \in Holders(k) \cup {p}
      BY HoldersAre, HoldersAreNext
    <2> QED
      BY <2>1
  <1>3. p \notin Holders(k) /\ IsFiniteSet(Holders(k))
    BY HoldersAre, HoldersFinite
  <1>4. Cardinality(Holders(k) \cup {p}) = Cardinality(Holders(k)) + 1
    BY <1>3, FS_AddElement
  <1>5. refs[k] = Cardinality(Holders(k))
    BY DEF RefsCountHolders
  <1>6. refs'[k] = refs[k] + 1 /\ DOMAIN refs' = DOMAIN refs /\ \A b \in DOMAIN refs \ {k} : refs'[b] = refs[b]
    OBVIOUS
  <1>7. refs'[k] = Cardinality(Holders(k)')
    BY <1>2, <1>4, <1>5, <1>6
  <1> QED
    BY <1>1, <1>6, <1>7 DEF RefsCountHolders

LEMMA RefsLose ==
    ASSUME Types, Types', HandInv, CoarseInv, RefsCountHolders, NEW k \in DOMAIN refs, NEW p,
           refs' = [refs EXCEPT ![k] = @ - 1], Held(k, p),
           \A b, q : Held(b, q)' <=> Held(b, q) /\ ~(b = k /\ q = p)
    PROVE  RefsCountHolders'
  <1>1. ASSUME NEW b, b # k PROVE Holders(b)' = Holders(b)
    <2>1. \A q : q \in Holders(b)' <=> q \in Holders(b)
      BY <1>1, HoldersAre, HoldersAreNext
    <2> QED
      BY <2>1
  <1>2. Holders(k)' = Holders(k) \ {p}
    <2>1. \A q : q \in Holders(k)' <=> q \in Holders(k) \ {p}
      BY HoldersAre, HoldersAreNext
    <2> QED
      BY <2>1
  <1>3. p \in Holders(k) /\ IsFiniteSet(Holders(k))
    BY HoldersAre, HoldersFinite
  <1>4. Cardinality(Holders(k) \ {p}) = Cardinality(Holders(k)) - 1
    BY <1>3, FS_RemoveElement
  <1>5. refs[k] = Cardinality(Holders(k))
    BY DEF RefsCountHolders
  <1>6. refs'[k] = refs[k] - 1 /\ DOMAIN refs' = DOMAIN refs /\ \A b \in DOMAIN refs \ {k} : refs'[b] = refs[b]
    OBVIOUS
  <1>7. refs'[k] = Cardinality(Holders(k)')
    BY <1>2, <1>4, <1>5, <1>6
  <1> QED
    BY <1>1, <1>6, <1>7 DEF RefsCountHolders

\* Steps that leave the chunks and their buffers alone.
LEMMA InsertFrame == ASSUME InsertInv, ThQuiet PROVE InsertInv'
  BY DEF InsertInv, ThQuiet

LEMMA RefFrame == ASSUME RefInv, ThQuiet, table' = table, chunk' = chunk PROVE RefInv'
  BY DEF RefInv, ThQuiet

LEMMA SepFrame ==
    ASSUME SepInv, Kept("refine"), Kept("dedup"), Kept("compress")
    PROVE  SepInv'
  BY DEF SepInv, Kept

\* The chunks that Reorder has or will get.
ReorderHas == Content(At("reorder")) \cup ro.cached \cup ({ro.cur} \ {0})

LEMMA ContentFrame ==
    ASSUME Types, Types', CoarseInv, FineInv, ChunkInv, RefsCountHolders,
           Framed, Start' = Start, fr'.reads = fr.reads,
           {fr'.left, fr'.cur} \ {NoChunk} = {fr.left, fr.cur} \ {NoChunk},
           chunk' = chunk, refs' = refs, Kept("refine"), Kept("dedup"), Kept("compress"),
           ReorderHas' \subseteq ReorderHas
    PROVE  CoarseInv' /\ FineInv' /\ ChunkInv' /\ RefsCountHolders'
  <1>1. Content(At("refine")') = Content(At("refine")) /\ Content(At("dedup")') = Content(At("dedup"))
        /\ Content(At("compress")') = Content(At("compress")) /\ file' = file
    BY DEF Kept, Framed
  <1>2. \A c : CoarseOk(c)' <=> CoarseOk(c)
    BY <1>1 DEF CoarseOk, IsLast
  <1>3. CoarseInv'
    BY <1>1, <1>2 DEF CoarseInv
  <1>4. FineInv'
    <2>1. \A p \in ReorderHas : chunk[p].state # "none" /\ chunk[p].ref # 0
      BY DEF FineInv, ReorderHas
    <2>2. \A p \in ReorderHas' : chunk'[p].state # "none" /\ chunk'[p].ref # 0
      BY <2>1
    <2>3. /\ \A p \in Content(At("dedup")') : chunk'[p].state = "uncompressed" /\ chunk'[p].ref = 0
          /\ \A p \in Content(At("compress")') : chunk'[p].state = "uncompressed" /\ chunk'[p].ref = p
      BY <1>1 DEF FineInv
    <2> QED
      BY <2>2, <2>3 DEF FineInv, ReorderHas
  <1>5. Places' = Places
    BY <1>1 DEF Places
  <1>6. ChunkInv'
    BY <1>1, <1>5 DEF ChunkInv, IsLast
  <1>7. \A b, q : Held(b, q)' <=> Held(b, q)
    BY <1>1, <1>5 DEF Held, HeldCoarse, HeldFine
  <1> QED
    BY <1>3, <1>4, <1>6, <1>7, RefsSame

LEMMA MemSame ==
    ASSUME MemInv, Types', Framed, AllKept, ThQuiet, chunk' = chunk, refs' = refs, table' = table,
           ro'.cached \cup ({ro'.cur} \ {0}) \subseteq ro.cached \cup ({ro.cur} \ {0}),
           HandInv', Start' = Start, fr'.reads = fr.reads,
           {fr'.left, fr'.cur} \ {NoChunk} = {fr.left, fr.cur} \ {NoChunk}
    PROVE  MemInv'
  <1>1. \A s \in {"refine", "dedup", "compress", "reorder"} : Kept(s)
    BY StageFacts DEF AllKept
  <1>2. ReorderHas' \subseteq ReorderHas
    <2>1. Content(At("reorder")') = Content(At("reorder"))
      BY <1>1 DEF Kept
    <2> QED
      BY <2>1 DEF ReorderHas
  <1>3. CoarseInv' /\ FineInv' /\ ChunkInv' /\ RefsCountHolders'
    BY <1>1, <1>2, ContentFrame DEF MemInv
  <1> QED
    BY <1>1, <1>3, SepFrame, InsertFrame, RefFrame DEF MemInv

-----------------------------------------------------------------------------
(* Each action keeps the invariant of the shared memory.                   *)

\* Steps of the threads that only move chunks from one buffer to another.
LEMMA MemQuiet ==
    ASSUME MemInv, Types', Framed, AllKept, ThQuiet, fr' = fr, chunk' = chunk, refs' = refs, table' = table,
           ro'.cached \cup ({ro'.cur} \ {0}) \subseteq ro.cached \cup ({ro.cur} \ {0})
    PROVE  MemInv'
  <1>1. HandInv' /\ Start' = Start
    BY HandStays DEF MemInv, FrQuiet
  <1> QED
    BY <1>1, MemSame

LEMMA MemFetch ==
    ASSUME MemInv, NEW w \in Workers, Fetch(w) \/ Shutdown(w) \/ \E s \in Stages : Send(w, s)
    PROVE  MemInv'
  <1>1. Types' /\ AllKept /\ ThQuiet
    BY FetchStep, ShutdownStep, SendStep DEF MemInv
  <1>2. Unchanged_Data
    BY DEF Fetch, Shutdown, Send
  <1> QED
    BY <1>1, <1>2, MemQuiet DEF Unchanged_Data, Framed

LEMMA MemReorderFetch == ASSUME MemInv, ReorderFetch PROVE MemInv'
  <1>1. Types' /\ AllKept /\ RoQuiet
    BY ReorderFetchStep DEF MemInv
  <1>2. Framed /\ ThQuiet /\ fr' = fr /\ chunk' = chunk /\ refs' = refs /\ table' = table
    BY DEF ReorderFetch, Framed, ThQuiet
  <1> QED
    BY <1>1, <1>2, MemQuiet DEF RoQuiet

LEMMA MemReorderFlush == ASSUME MemInv, ReorderFlush PROVE MemInv'
  <1>1. /\ Types' /\ AllKept /\ ro.cur = 0
        /\ \/ ro'.cached = ro.cached /\ ro'.cur = 0
           \/ ro'.cur \in ro.cached /\ ro'.cached = ro.cached \ {ro'.cur}
    BY ReorderFlushStep DEF MemInv
  <1>2. Framed /\ ThQuiet /\ fr' = fr /\ chunk' = chunk /\ refs' = refs /\ table' = table
    BY DEF ReorderFlush, Framed, ThQuiet
  <1>3. ro'.cached \cup ({ro'.cur} \ {0}) \subseteq ro.cached \cup ({ro.cur} \ {0})
    BY <1>1
  <1> QED
    BY <1>1, <1>2, <1>3, MemQuiet

LEMMA MemReorderTake == ASSUME MemInv, ReorderTake PROVE MemInv'
  <1>1. /\ Types' /\ (\A s \in Stages \ {"reorder"} : Kept(s))
        /\ Content(At("reorder")) = Content(At("reorder")') \cup {Head(ro.recv)}
        /\ ro.cur = 0
        /\ \/ ro'.cached = ro.cached \cup {Head(ro.recv)} /\ ro'.cur = ro.cur
           \/ ro'.cached = ro.cached /\ ro'.cur = Head(ro.recv)
    BY ReorderTakeStep DEF MemInv
  <1>2. Framed /\ ThQuiet /\ fr' = fr /\ chunk' = chunk /\ refs' = refs /\ table' = table
    BY DEF ReorderTake, Framed, ThQuiet
  <1>3. Kept("refine") /\ Kept("dedup") /\ Kept("compress")
    BY <1>1, StageFacts
  <1>4. ReorderHas' \subseteq ReorderHas
    BY <1>1 DEF ReorderHas
  <1>5. HandInv' /\ Start' = Start
    BY <1>2, HandStays DEF MemInv, FrQuiet
  <1>a. Types /\ CoarseInv /\ FineInv /\ ChunkInv /\ RefsCountHolders
    BY DEF MemInv
  <1>b. {fr'.left, fr'.cur} \ {NoChunk} = {fr.left, fr.cur} \ {NoChunk} /\ fr'.reads = fr.reads
    BY <1>2
  <1>6. CoarseInv' /\ FineInv' /\ ChunkInv' /\ RefsCountHolders'
    BY <1>1, <1>2, <1>3, <1>4, <1>5, <1>a, <1>b, ContentFrame
  <1> QED
    BY <1>1, <1>2, <1>3, <1>5, <1>6, SepFrame, InsertFrame, RefFrame DEF MemInv

LEMMA MemFragmentSend == ASSUME MemInv, FragmentSend PROVE MemInv'
  <1>1. Types' /\ AllKept /\ FrQuiet /\ fr'.pc = fr.pc /\ fr.pc # "read"
    BY FragmentSendStep DEF MemInv
  <1>2. Framed /\ ThQuiet /\ ro' = ro /\ chunk' = chunk /\ refs' = refs /\ table' = table
    BY DEF FragmentSend, Framed, ThQuiet
  <1>3. HandInv' /\ Start' = Start
    BY <1>1, <1>2, HandStays DEF MemInv
  <1> QED
    BY <1>1, <1>2, <1>3, MemSame DEF FrQuiet

LEMMA MemFragmentStop == ASSUME MemInv, FragmentStop PROVE MemInv'
  <1>1. Types' /\ AllKept /\ FrQuiet /\ fr'.pc \in {"stop", "done"} /\ fr.pc \in {"drain", "stop"}
    BY FragmentStopStep DEF MemInv
  <1>2. Framed /\ ThQuiet /\ ro' = ro /\ chunk' = chunk /\ refs' = refs /\ table' = table
    BY DEF FragmentStop, Framed, ThQuiet
  <1>3. fr.left = NoChunk /\ fr.cur = NoChunk
    BY <1>1 DEF MemInv, HandInv
  <1>4. HandInv' /\ Start' = Start
    BY <1>1, <1>2, <1>3, HandStays DEF MemInv
  <1> QED
    BY <1>1, <1>2, <1>4, MemSame DEF FrQuiet

LEMMA MemDedupSearch == ASSUME MemInv, NEW w \in Workers, DedupSearch(w) PROVE MemInv'
  <1>1. /\ Types' /\ AllKept /\ w[1] = "dedup" /\ th[w].recv # <<>>
        /\ Head(th[w].recv) \in Places
        /\ th'[w].recv = th[w].recv /\ th'[w].pc = "insert" /\ th'[w].found = Search(Head(th[w].recv))
        /\ \A u \in Workers \ {w} : th'[u] = th[u]
    BY DedupSearchStep DEF MemInv
  <1>2. Framed /\ ro' = ro /\ fr' = fr /\ chunk' = chunk /\ refs' = refs /\ table' = table
    BY DEF DedupSearch, Framed
  <1>3. InsertInv'
    BY <1>1 DEF MemInv, InsertInv
  <1>4. RefInv'
    <2> DEFINE p == Head(th[w].recv)
    <2>1. th'[w].found # 0 => chunk[th'[w].found].ref = th'[w].found
      <3>1. p \in Places /\ BucketFor(p) \in Buckets
        BY <1>1, DataIs DEF MemInv
      <3> HIDE DEF p
      <3>2. Search(p) # 0 => \E n \in DOMAIN table[BucketFor(p)] : table[BucketFor(p)][n] = Search(p)
        BY <3>1, SearchFinds DEF MemInv
      <3>3. Search(p) # 0 => chunk[Search(p)].ref = Search(p)
        BY <3>1, <3>2 DEF MemInv, RefInv
      <3> QED
        BY <1>1, <3>3 DEF p
    <2> QED
      BY <1>1, <1>2, <2>1 DEF MemInv, RefInv
  <1>5. Kept("refine") /\ Kept("dedup") /\ Kept("compress") /\ Kept("reorder")
    BY <1>1, StageFacts DEF AllKept
  <1>6. ReorderHas' \subseteq ReorderHas
    BY <1>2, <1>5 DEF ReorderHas, Kept
  <1>7. HandInv' /\ Start' = Start
    BY <1>2, HandStays DEF MemInv, FrQuiet
  <1>a. Types /\ CoarseInv /\ FineInv /\ ChunkInv /\ RefsCountHolders
    BY DEF MemInv
  <1>b. {fr'.left, fr'.cur} \ {NoChunk} = {fr.left, fr.cur} \ {NoChunk} /\ fr'.reads = fr.reads
    BY <1>2
  <1>8. CoarseInv' /\ FineInv' /\ ChunkInv' /\ RefsCountHolders'
    BY <1>1, <1>2, <1>5, <1>6, <1>7, <1>a, <1>b, ContentFrame
  <1> QED
    BY <1>1, <1>3, <1>4, <1>5, <1>7, <1>8, SepFrame DEF MemInv

\* Steps that change the state or the reference of a chunk already cut.
Settled ==
    \A q \in Places :
       /\ chunk'[q].seq = chunk[q].seq /\ chunk'[q].last = chunk[q].last /\ chunk'[q].buf = chunk[q].buf
       /\ chunk'[q].state = "none" <=> chunk[q].state = "none"
       /\ chunk[q].state = "none" => chunk'[q].ref = 0
       /\ chunk[q].ref # 0 => chunk'[q].ref = chunk[q].ref
       /\ chunk'[q].ref # 0 => chunk'[chunk'[q].ref].ref = chunk'[q].ref

LEMMA CoarseSettled ==
    ASSUME Types, HandInv, CoarseInv, Framed, fr' = fr, Settled, Start' = Start,
           Content(At("refine")') = Content(At("refine"))
    PROVE  CoarseInv'
  <1>1. ASSUME NEW c \in Content(At("refine")) PROVE CoarseOk(c)'
    <2>1. CoarseOk(c) /\ \A q \in c.from .. c.to : q \in Places
      BY CoarsePlaces
    <2>2. \A q \in c.from .. c.to : chunk'[q].state = "none"
      BY <2>1 DEF CoarseOk, Settled
    <2> QED
      BY <2>1, <2>2 DEF CoarseOk, IsLast, Framed
  <1> QED
    BY <1>1 DEF CoarseInv

LEMMA ChunkSettled ==
    ASSUME Types, ChunkInv, Framed, fr' = fr, Settled, Start' = Start
    PROVE  ChunkInv'
  <1>1. Places' = Places /\ \A p : IsLast(p)' <=> IsLast(p)
    BY DEF Framed, Places, IsLast
  <1>2. ASSUME NEW p \in Places
        PROVE  /\ chunk'[p].state # "none" => /\ p < Start' /\ chunk'[p].buf \in 1 .. fr'.reads
                                      /\ chunk'[p].seq = Number(p) /\ (chunk'[p].last <=> IsLast(p)')
               /\ chunk'[p].state = "none" => chunk'[p].buf = 0 /\ chunk'[p].ref = 0
               /\ chunk'[p].ref # 0 => chunk'[chunk'[p].ref].ref = chunk'[p].ref
    BY <1>1 DEF ChunkInv, Settled
  <1> QED
    BY <1>1, <1>2 DEF ChunkInv

LEMMA MemReorderWrite == ASSUME MemInv, ReorderWrite PROVE MemInv'
  <1> DEFINE o == chunk[ro.cur].ref
  <1>0. Types /\ HandInv /\ SepInv /\ CoarseInv /\ FineInv /\ InsertInv /\ ChunkInv /\ RefInv /\ RefsCountHolders
    BY DEF MemInv
  <1>1. /\ Types' /\ AllKept /\ ro.cur \in Places /\ o \in Places
        /\ chunk[o].state # "uncompressed"
        /\ chunk' = [chunk EXCEPT ![o].state = "flushed"]
        /\ \/ ro'.cached = ro.cached /\ ro'.cur = 0
           \/ ro'.cur \in ro.cached /\ ro'.cached = ro.cached \ {ro'.cur}
    BY <1>0, ReorderWriteStep
  <1>2. Framed /\ ThQuiet /\ fr' = fr /\ refs' = refs /\ table' = table
    BY DEF ReorderWrite, Framed, ThQuiet
  <1>3. chunk \in [Places -> FineType] /\ 0 \notin Places
    BY <1>0, DataIs
  <1>4. chunk[o].ref = o /\ chunk[o].state # "none"
    BY <1>0, <1>1, <1>3 DEF ChunkInv
  <1> HIDE DEF o
  <1>5. /\ \A q \in Places \ {o} : chunk'[q] = chunk[q]
        /\ chunk'[o].state = "flushed" /\ chunk'[o].ref = chunk[o].ref /\ chunk'[o].seq = chunk[o].seq
        /\ chunk'[o].last = chunk[o].last /\ chunk'[o].buf = chunk[o].buf
    BY <1>1, <1>3 DEF FineType
  <1>6. \A q \in Places : chunk'[q].ref = chunk[q].ref
    BY <1>5
  <1>7. \A q \in Places : chunk[q].ref \in {0} \cup Places
    BY <1>0, DataIs
  <1>8. Settled
    <2>1. ASSUME NEW q \in Places
          PROVE  /\ chunk'[q].seq = chunk[q].seq /\ chunk'[q].last = chunk[q].last /\ chunk'[q].buf = chunk[q].buf
                 /\ chunk'[q].state = "none" <=> chunk[q].state = "none"
                 /\ chunk[q].state = "none" => chunk[q].ref = 0
      BY <1>0, <1>4, <1>5 DEF ChunkInv
    <2>2. ASSUME NEW q \in Places, chunk[q].ref # 0
          PROVE  chunk'[chunk[q].ref].ref = chunk[q].ref
      <3>1. chunk[q].ref \in Places /\ chunk[chunk[q].ref].ref = chunk[q].ref
        BY <1>0, <1>7, <2>2 DEF ChunkInv
      <3> QED
        BY <1>6, <3>1
    <2> QED
      BY <1>6, <2>1, <2>2 DEF Settled
  <1>9. HandInv' /\ Start' = Start
    BY <1>0, <1>2, HandStays DEF FrQuiet
  <1>10. /\ Kept("refine") /\ Kept("dedup") /\ Kept("compress") /\ Kept("reorder")
         /\ \A s \in {"refine", "dedup", "compress", "reorder"} : Content(At(s)') = Content(At(s))
    BY <1>1, StageFacts DEF AllKept, Kept
  <1>11. CoarseInv' /\ ChunkInv'
    BY <1>0, <1>2, <1>8, <1>9, <1>10, CoarseSettled, ChunkSettled
  <1>12. /\ \A p \in Content(At("dedup")) \cup Content(At("compress")) : p \in Places
         /\ \A p \in Content(At("reorder")) \cup ro.cached \cup ({ro.cur} \ {0}) : p \in Places
    <2>1. \A s \in {"dedup", "compress", "reorder"} : s \in Stages /\ Elem(s) = Places
      BY StageFacts DEF Elem
    <2>2. \A s \in {"dedup", "compress", "reorder"} : \A p \in Content(At(s)) : p \in Places
      BY <1>0, <2>1, ContentType
    <2> QED
      BY <1>0, <2>2, RoIs
  <1>13. FineInv'
    <2>1. /\ \A p \in Content(At("dedup")) : chunk'[p].state = "uncompressed" /\ chunk'[p].ref = 0
          /\ \A p \in Content(At("compress")) : chunk'[p].state = "uncompressed" /\ chunk'[p].ref = p
      <3>1. \A p \in Content(At("dedup")) \cup Content(At("compress")) : p \in Places \ {o}
        BY <1>0, <1>1, <1>12 DEF FineInv
      <3> QED
        BY <1>0, <1>5, <3>1 DEF FineInv
    <2>2. ReorderHas' \subseteq ReorderHas
      BY <1>1, <1>10 DEF ReorderHas
    <2>3. \A p \in ReorderHas : chunk'[p].state # "none" /\ chunk'[p].ref # 0
      BY <1>0, <1>5, <1>6, <1>12 DEF FineInv, ReorderHas
    <2> QED
      BY <1>10, <2>1, <2>2, <2>3 DEF FineInv, ReorderHas
  <1>14. \A b, q : Held(b, q)' <=> Held(b, q)
    <2>1. Places' = Places
      BY <1>2 DEF Framed, Places
    <2>2. \A b, q : HeldFine(b, q)' <=> HeldFine(b, q)
      BY <1>1, <1>5, <2>1 DEF HeldFine
    <2>3. \A b, q : HeldCoarse(b, q)' <=> HeldCoarse(b, q)
      BY <1>2, <1>10 DEF HeldCoarse
    <2> QED
      BY <2>2, <2>3 DEF Held
  <1>15. RefsCountHolders'
    BY <1>0, <1>1, <1>2, <1>14, RefsSame
  <1>16. RefInv'
    <2>1. \A k \in Buckets : \A n \in DOMAIN table[k] : table[k][n] \in Places
      BY <1>0, DataIs
    <2>2. \A w \in Workers : th[w].found \in {0} \cup Places
      BY <1>0, ThIs
    <2> QED
      BY <1>0, <1>2, <1>6, <2>1, <2>2 DEF RefInv, ThQuiet
  <1> QED
    BY <1>0, <1>1, <1>2, <1>9, <1>10, <1>11, <1>13, <1>15, <1>16, SepFrame, InsertFrame DEF MemInv

LEMMA FineContent ==
    ASSUME Types
    PROVE  \A s \in {"dedup", "compress", "reorder"} : \A p \in Content(At(s)) : p \in Places /\ p \in Nat
  <1>1. \A s \in {"dedup", "compress", "reorder"} : s \in Stages /\ Elem(s) = Places
    BY StageFacts DEF Elem
  <1>2. \A s \in {"dedup", "compress", "reorder"} : \A p \in Content(At(s)) : p \in Places
    BY <1>1, ContentType
  <1> QED
    BY <1>2, DataIs

\* What a chunk that moves from one pool to the next changes in the contents.
LEMMA PassedFacts ==
    ASSUME NEW w, NEW p, NEW t, Passed(w, p, t)
    PROVE  /\ Content(At(w[1])) = Content(At(w[1])') \cup {p}
           /\ Content(At(t)') = Content(At(t)) \cup {p}
           /\ Separate(Differ, At(w[1])) =>
                Separate(Differ, At(w[1])') /\ \A d \in Content(At(w[1])') : d # p
           /\ Separate(Differ, At(t)) /\ p \in Nat /\ (\A d \in Content(At(t)) : d \in Nat /\ d # p)
                => Separate(Differ, At(t)')
           /\ \A s \in Stages \ {w[1], t} : Kept(s)
  <1>1. Separate(Differ, At(w[1])) => \A d \in Content(At(w[1])') : <<d, p>> \in Differ
    BY DEF Passed
  <1>2. Separate(Differ, At(w[1])) => \A d \in Content(At(w[1])') : d # p
    BY <1>1 DEF Differ
  <1>3. (p \in Nat /\ \A d \in Content(At(t)) : d \in Nat /\ d # p)
           => \A d \in Content(At(t)) : <<d, p>> \in Differ /\ <<p, d>> \in Differ
    BY DEF Differ
  <1> QED
    BY <1>2, <1>3 DEF Passed

\* A fine chunk is held by nothing but itself, and in a buffer that was read.
LEMMA FineAlone ==
    ASSUME Types, HandInv, CoarseInv, ChunkInv, NEW p \in Places, chunk[p].state # "none"
    PROVE  (\A b : ~HeldCoarse(b, p)) /\ chunk[p].buf \in DOMAIN refs
  <1>0. p \in Nat /\ refs \in [1 .. Len(file) + 2 -> Int]
    BY DataIs
  <1>1. p < Start /\ Start \in Nat
    BY StartBound DEF ChunkInv
  <1>2. ASSUME NEW h \in {fr.left, fr.cur} \ {NoChunk}, h.from = p PROVE FALSE
    <2>1. CASE h = fr.left
      BY <1>0, <1>1, <1>2, <2>1 DEF Start
    <2>2. CASE h = fr.cur /\ fr.left = NoChunk
      BY <1>0, <1>1, <1>2, <2>2 DEF Start
    <2>3. CASE h = fr.cur /\ fr.left # NoChunk
      <3>1. fr.pc # "split" /\ fr.pc # "read" /\ fr.pc \notin {"drain", "stop", "done"}
        BY <1>2, <2>3 DEF HandInv
      <3> QED
        BY <3>1, FrIs
    <2> QED
      BY <2>1, <2>2, <2>3
  <1>3. ASSUME NEW h \in Content(At("refine")), h.from = p PROVE FALSE
    <2>1. CoarseOk(h) /\ h.from \in h.from .. h.to
      BY CoarsePlaces
    <2> QED
      BY <1>3, <2>1 DEF CoarseOk
  <1>4. chunk[p].buf \in DOMAIN refs
    <2>1. chunk[p].buf \in 1 .. fr.reads
      BY DEF ChunkInv
    <2>2. fr.reads <= fr.pos + 1
      BY FrIs DEF HandInv
    <2>3. fr.pos \in 0 .. Len(file) /\ fr.reads \in Nat /\ Len(file) \in Nat
      BY FrIs, DataIs
    <2>4. chunk[p].buf \in 1 .. Len(file) + 2
      BY <2>1, <2>2, <2>3
    <2> QED
      BY <1>0, <2>4
  <1> QED
    BY <1>2, <1>3, <1>4 DEF HeldCoarse

LEMMA MemCompress == ASSUME MemInv, NEW w \in Workers, CompressChunk(w) PROVE MemInv'
  <1> DEFINE p == Head(th[w].recv)
  <1>0. Types /\ HandInv /\ SepInv /\ CoarseInv /\ FineInv /\ InsertInv /\ ChunkInv /\ RefInv /\ RefsCountHolders
    BY DEF MemInv
  <1>1. /\ Types' /\ w[1] = "compress" /\ p \in Places
        /\ Passed(w, p, "reorder")
        /\ chunk' = [chunk EXCEPT ![p].state = "compressed"]
        /\ refs' = [refs EXCEPT ![chunk[p].buf] = @ - 1]
        /\ ThQuiet
    BY <1>0, CompressStep
  <1>2. Framed /\ fr' = fr /\ table' = table /\ ro' = ro
    BY DEF CompressChunk, Framed
  <1> HIDE DEF p
  <1>3. chunk \in [Places -> FineType] /\ 0 \notin Places /\ refs \in [1 .. Len(file) + 2 -> Int] /\ p \in Nat
    BY <1>0, <1>1, DataIs
  <1>4. /\ Content(At("compress")) = Content(At("compress")') \cup {p}
        /\ Content(At("reorder")') = Content(At("reorder")) \cup {p}
        /\ Separate(Differ, At("compress")') /\ \A d \in Content(At("compress")') : d # p
        /\ Kept("refine") /\ Kept("dedup")
    BY <1>0, <1>1, PassedFacts, StageFacts DEF SepInv
  <1>5. chunk[p].state = "uncompressed" /\ chunk[p].ref = p
    BY <1>0, <1>4 DEF FineInv
  <1>6. /\ \A q \in Places \ {p} : chunk'[q] = chunk[q]
        /\ chunk'[p].state = "compressed" /\ chunk'[p].ref = chunk[p].ref /\ chunk'[p].seq = chunk[p].seq
        /\ chunk'[p].last = chunk[p].last /\ chunk'[p].buf = chunk[p].buf
    BY <1>1, <1>3 DEF FineType
  <1>7. \A q \in Places : chunk'[q].ref = chunk[q].ref
    BY <1>6
  <1>8. \A q \in Places : chunk[q].ref \in {0} \cup Places
    BY <1>0, DataIs
  <1>9. Settled
    <2>1. ASSUME NEW q \in Places
          PROVE  /\ chunk'[q].seq = chunk[q].seq /\ chunk'[q].last = chunk[q].last /\ chunk'[q].buf = chunk[q].buf
                 /\ chunk'[q].state = "none" <=> chunk[q].state = "none"
                 /\ chunk[q].state = "none" => chunk[q].ref = 0
      BY <1>0, <1>5, <1>6 DEF ChunkInv
    <2>2. ASSUME NEW q \in Places, chunk[q].ref # 0
          PROVE  chunk'[chunk[q].ref].ref = chunk[q].ref
      <3>1. chunk[q].ref \in Places /\ chunk[chunk[q].ref].ref = chunk[q].ref
        BY <1>0, <1>8, <2>2 DEF ChunkInv
      <3> QED
        BY <1>7, <3>1
    <2> QED
      BY <1>7, <2>1, <2>2 DEF Settled
  <1>10. HandInv' /\ Start' = Start
    BY <1>0, <1>2, HandStays DEF FrQuiet
  <1>11. CoarseInv' /\ ChunkInv'
    BY <1>0, <1>2, <1>4, <1>9, <1>10, CoarseSettled, ChunkSettled DEF Kept
  <1>12. FineInv'
    <2>1. \A q \in Content(At("dedup")) : chunk'[q].state = "uncompressed" /\ chunk'[q].ref = 0
      <3>1. \A q \in Content(At("dedup")) : q \in Places \ {p}
        BY <1>0, <1>3, <1>5, FineContent DEF FineInv
      <3> QED
        BY <1>0, <1>6, <3>1 DEF FineInv
    <2>2. \A q \in Content(At("compress")') : chunk'[q].state = "uncompressed" /\ chunk'[q].ref = q
      <3>1. \A q \in Content(At("compress")') : q \in Places \ {p} /\ q \in Content(At("compress"))
        BY <1>0, <1>4, FineContent
      <3> QED
        BY <1>0, <1>6, <3>1 DEF FineInv
    <2>3. \A q \in ReorderHas' : q = p \/ q \in ReorderHas
      BY <1>2, <1>4 DEF ReorderHas
    <2>4. \A q \in ReorderHas : q \in Places /\ chunk[q].state # "none" /\ chunk[q].ref # 0
      BY <1>0, FineContent, RoIs DEF ReorderHas, FineInv
    <2>5. \A q \in ReorderHas' : chunk'[q].state # "none" /\ chunk'[q].ref # 0
      BY <1>1, <1>3, <1>5, <1>6, <2>3, <2>4
    <2>6. Content(At("dedup")') = Content(At("dedup"))
      BY <1>4 DEF Kept
    <2> QED
      BY <2>1, <2>2, <2>5, <2>6 DEF FineInv, ReorderHas
  <1>13. (\A b : ~HeldCoarse(b, p)) /\ chunk[p].buf \in DOMAIN refs
    BY <1>0, <1>1, <1>5, FineAlone
  <1>14. \A b, q : Held(b, q)' <=> Held(b, q) /\ ~(b = chunk[p].buf /\ q = p)
    <2>1. Places' = Places
      BY <1>2 DEF Framed, Places
    <2>2. \A b, q : HeldFine(b, q)' <=> HeldFine(b, q) /\ q # p
      BY <1>1, <1>6, <2>1 DEF HeldFine
    <2>3. \A b, q : HeldCoarse(b, q)' <=> HeldCoarse(b, q)
      BY <1>2, <1>4 DEF HeldCoarse, Kept
    <2>5. \A b : HeldFine(b, p) <=> b = chunk[p].buf
      BY <1>1, <1>5 DEF HeldFine
    <2> QED
      BY <1>13, <2>2, <2>3, <2>5 DEF Held
  <1>15. Held(chunk[p].buf, p)
    BY <1>1, <1>5 DEF Held, HeldFine
  <1>16. RefsCountHolders'
    BY <1>0, <1>1, <1>13, <1>14, <1>15, RefsLose
  <1>17. RefInv'
    <2>1. \A k \in Buckets : \A n \in DOMAIN table[k] : table[k][n] \in Places
      BY <1>0, DataIs
    <2>2. \A u \in Workers : th[u].found \in {0} \cup Places
      BY <1>0, ThIs
    <2> QED
      BY <1>0, <1>1, <1>2, <1>7, <2>1, <2>2 DEF RefInv, ThQuiet
  <1>18. SepInv'
    BY <1>0, <1>4 DEF SepInv, Kept
  <1> QED
    BY <1>0, <1>1, <1>10, <1>11, <1>12, <1>16, <1>17, <1>18, InsertFrame DEF MemInv

LEMMA MemDedupInsert == ASSUME MemInv, NEW w \in Workers, DedupInsert(w) PROVE MemInv'
  <1> DEFINE p == Head(th[w].recv)
             f == th[w].found
             r == IF f = 0 THEN p ELSE f
  <1>0. Types /\ HandInv /\ SepInv /\ CoarseInv /\ FineInv /\ InsertInv /\ ChunkInv /\ RefInv /\ RefsCountHolders
    BY DEF MemInv
  <1>1. /\ Types' /\ w[1] = "dedup" /\ p \in Places
        /\ chunk' = [chunk EXCEPT ![p].ref = r]
        /\ \/ /\ f = 0 /\ Passed(w, p, "compress")
              /\ refs' = refs /\ table' = Inserted(p)
           \/ /\ f # 0 /\ Passed(w, p, "reorder")
              /\ refs' = [refs EXCEPT ![chunk[p].buf] = @ - 1] /\ table' = table
        /\ th'[w].pc = "run" /\ th'[w].found = 0 /\ \A u \in Workers \ {w} : th'[u] = th[u]
    BY <1>0, DedupInsertStep
  <1>2. Framed /\ fr' = fr /\ ro' = ro
    BY DEF DedupInsert, Framed
  <1>3. f \in {0} \cup Places /\ (f # 0 => chunk[f].ref = f)
    BY <1>0, ThIs DEF RefInv
  <1>a. r = IF f = 0 THEN p ELSE f
    OBVIOUS
  <1> HIDE DEF p, f, r
  <1>4. chunk \in [Places -> FineType] /\ 0 \notin Places /\ refs \in [1 .. Len(file) + 2 -> Int] /\ p \in Nat
    BY <1>0, <1>1, DataIs
  <1>5. /\ Content(At("dedup")) = Content(At("dedup")') \cup {p}
        /\ Separate(Differ, At("dedup")') /\ \A d \in Content(At("dedup")') : d # p
        /\ Kept("refine")
    <2>1. PICK t \in {"compress", "reorder"} : Passed(w, p, t)
      BY <1>1
    <2>2. w[1] = "dedup" /\ "refine" \in Stages \ {w[1], t}
      BY <1>1, <2>1, StageFacts
    <2>3. Separate(Differ, At(w[1]))
      BY <1>0, <2>2 DEF SepInv
    <2>4. /\ Content(At(w[1])) = Content(At(w[1])') \cup {p}
          /\ Separate(Differ, At(w[1])') /\ \A d \in Content(At(w[1])') : d # p
      BY ONLY <2>1, <2>3, PassedFacts
    <2>5. Kept("refine")
      BY ONLY <2>1, <2>2, PassedFacts
    <2> QED
      BY <2>2, <2>4, <2>5
  <1>6. chunk[p].state = "uncompressed" /\ chunk[p].ref = 0 /\ f # p /\ r \in Places
    BY <1>0, <1>1, <1>3, <1>4, <1>5, <1>a DEF FineInv
  <1>7. /\ \A q \in Places \ {p} : chunk'[q] = chunk[q]
        /\ chunk'[p].ref = r /\ chunk'[p].state = chunk[p].state /\ chunk'[p].seq = chunk[p].seq
        /\ chunk'[p].last = chunk[p].last /\ chunk'[p].buf = chunk[p].buf
    BY <1>1, <1>4 DEF FineType
  <1>8. \A q \in Places : chunk[q].ref \in {0} \cup Places
    BY <1>0, DataIs
  <1>9. chunk'[r].ref = r
    BY <1>3, <1>6, <1>7, <1>a
  <1>10. \A q \in Places : chunk[q].ref # 0 => q # p /\ chunk[q].ref \in Places \ {p} /\ chunk'[q] = chunk[q]
    <2>1. ASSUME NEW q \in Places, chunk[q].ref # 0
          PROVE  q # p /\ chunk[q].ref \in Places /\ chunk[chunk[q].ref].ref = chunk[q].ref
      BY <1>0, <1>6, <1>8, <2>1 DEF ChunkInv
    <2> QED
      BY <1>6, <1>7, <2>1
  <1>11. Settled
    <2>1. ASSUME NEW q \in Places
          PROVE  /\ chunk'[q].seq = chunk[q].seq /\ chunk'[q].last = chunk[q].last /\ chunk'[q].buf = chunk[q].buf
                 /\ chunk'[q].state = chunk[q].state
                 /\ chunk[q].state = "none" => chunk'[q].ref = 0
      BY <1>0, <1>6, <1>7 DEF ChunkInv
    <2>2. ASSUME NEW q \in Places, chunk'[q].ref # 0
          PROVE  chunk'[chunk'[q].ref].ref = chunk'[q].ref
      <3>1. CASE q = p
        BY <1>7, <1>9, <3>1
      <3>2. CASE q # p
        <4>1. chunk'[q] = chunk[q] /\ chunk[q].ref # 0
          BY <1>7, <2>2, <3>2
        <4>2. chunk[q].ref \in Places \ {p} /\ chunk[chunk[q].ref].ref = chunk[q].ref
          BY <1>0, <1>10, <4>1 DEF ChunkInv
        <4> QED
          BY <1>7, <4>1, <4>2
      <3> QED
        BY <3>1, <3>2
    <2> QED
      BY <1>10, <2>1, <2>2 DEF Settled
  <1>12. HandInv' /\ Start' = Start
    BY <1>0, <1>2, HandStays DEF FrQuiet
  <1>13. CoarseInv' /\ ChunkInv'
    BY <1>0, <1>2, <1>5, <1>11, <1>12, CoarseSettled, ChunkSettled DEF Kept
  <1>14. /\ \A q \in Content(At("dedup")') : q \in Places \ {p} /\ q \in Content(At("dedup"))
         /\ \A q \in Content(At("compress")) : q \in Places \ {p} /\ q \in Nat
    BY <1>0, <1>4, <1>5, <1>6, FineContent DEF FineInv
  <1>15. /\ Separate(Differ, At("compress")')
         /\ \A q \in Content(At("compress")') : q \in Content(At("compress")) \/ (q = p /\ f = 0)
         /\ \A q \in Content(At("reorder")') : q \in Content(At("reorder")) \/ q = p
    <2>1. CASE f = 0 /\ Passed(w, p, "compress")
      <3>1. /\ Content(At("compress")') = Content(At("compress")) \cup {p}
            /\ Separate(Differ, At("compress")') /\ Kept("reorder")
        BY <1>0, <1>1, <1>4, <1>14, <2>1, PassedFacts, StageFacts DEF SepInv
      <3> QED
        BY <2>1, <3>1 DEF Kept
    <2>2. CASE Passed(w, p, "reorder")
      <3>1. Content(At("reorder")') = Content(At("reorder")) \cup {p} /\ Kept("compress")
        BY <1>1, <2>2, PassedFacts, StageFacts
      <3> QED
        BY <1>0, <3>1 DEF Kept, SepInv
    <2> QED
      BY <1>1, <2>1, <2>2
  <1>16. FineInv'
    <2>1. \A q \in Content(At("dedup")') : chunk'[q].state = "uncompressed" /\ chunk'[q].ref = 0
      BY <1>0, <1>7, <1>14 DEF FineInv
    <2>2. \A q \in Content(At("compress")') : chunk'[q].state = "uncompressed" /\ chunk'[q].ref = q
      <3>1. ASSUME NEW q \in Content(At("compress"))
            PROVE  chunk'[q].state = "uncompressed" /\ chunk'[q].ref = q
        BY <1>0, <1>7, <1>14 DEF FineInv
      <3>2. f = 0 => chunk'[p].state = "uncompressed" /\ chunk'[p].ref = p
        BY <1>6, <1>7, <1>a
      <3> QED
        BY <1>15, <3>1, <3>2
    <2>3. \A q \in ReorderHas' : q = p \/ q \in ReorderHas
      BY <1>2, <1>15 DEF ReorderHas
    <2>4. \A q \in ReorderHas : q \in Places /\ chunk[q].state # "none" /\ chunk[q].ref # 0
      BY <1>0, FineContent, RoIs DEF ReorderHas, FineInv
    <2>5. \A q \in ReorderHas' : chunk'[q].state # "none" /\ chunk'[q].ref # 0
      <3>1. r # 0
        BY <1>4, <1>6
      <3> QED
        BY <1>6, <1>7, <1>10, <2>3, <2>4, <3>1
    <2> QED
      BY <2>1, <2>2, <2>5 DEF FineInv, ReorderHas
  <1>17. RefsCountHolders'
    <2>1. Places' = Places
      BY <1>2 DEF Framed, Places
    <2>2. \A b, q : HeldCoarse(b, q)' <=> HeldCoarse(b, q)
      BY <1>2, <1>5 DEF HeldCoarse, Kept
    <2>3. \A b : ~HeldCoarse(b, p)
      BY <1>0, <1>1, <1>6, FineAlone
    <2>4. \A b, q : q # p => (HeldFine(b, q)' <=> HeldFine(b, q))
      BY <1>7, <2>1 DEF HeldFine
    <2>5. CASE f = 0 /\ refs' = refs
      <3>1. \A b, q : q = p => (HeldFine(b, q)' <=> HeldFine(b, q))
        BY <1>1, <1>6, <1>7, <1>a, <2>1, <2>5 DEF HeldFine
      <3>2. \A b, q : Held(b, q)' <=> Held(b, q)
        BY <2>2, <2>4, <3>1 DEF Held
      <3> QED
        BY <1>0, <1>1, <2>5, <3>2, RefsSame
    <2>6. CASE f # 0 /\ refs' = [refs EXCEPT ![chunk[p].buf] = @ - 1]
      <3>1. \A b, q : q = p => ~HeldFine(b, q)' /\ (HeldFine(b, q) <=> b = chunk[p].buf)
        BY <1>1, <1>4, <1>6, <1>7, <1>a, <2>1, <2>6 DEF HeldFine
      <3>2. \A b, q : Held(b, q)' <=> Held(b, q) /\ ~(b = chunk[p].buf /\ q = p)
        BY <2>2, <2>3, <2>4, <3>1 DEF Held
      <3>3. chunk[p].buf \in DOMAIN refs
        BY <1>0, <1>1, <1>6, FineAlone
      <3>4. Held(chunk[p].buf, p)
        BY <3>1 DEF Held
      <3> QED
        BY <1>0, <1>1, <2>6, <3>2, <3>3, <3>4, RefsLose
    <2> QED
      BY <1>1, <2>5, <2>6
  <1>18. RefInv'
    <2>1. \A k \in Buckets : \A n \in DOMAIN table[k] : table[k][n] \in Places /\ chunk'[table[k][n]].ref = table[k][n]
      <3>1. ASSUME NEW k \in Buckets, NEW n \in DOMAIN table[k]
            PROVE  table[k][n] \in Places /\ chunk[table[k][n]].ref = table[k][n] /\ table[k][n] # 0
        BY <1>0, <1>4, DataIs DEF RefInv
      <3> QED
        BY <1>10, <3>1
    <2>2. \A k \in Buckets : \A n \in DOMAIN table'[k] : chunk'[table'[k][n]].ref = table'[k][n]
      <3>1. CASE table' = table
        BY <2>1, <3>1
      <3>2. CASE f = 0 /\ table' = Inserted(p)
        <4> DEFINE z == BucketFor(p)
        <4>1. table' = [table EXCEPT ![z] = <<p>> \o table[z]] /\ z \in Buckets /\ table \in [Buckets -> Seq(Places)]
          BY <1>0, <1>1, <3>2, DataIs DEF Inserted
        <4> HIDE DEF z
        <4>2. ASSUME NEW k \in Buckets \ {z}, NEW n \in DOMAIN table'[k]
              PROVE  chunk'[table'[k][n]].ref = table'[k][n]
          <5>1. table'[k] = table[k]
            BY <4>1
          <5> QED
            BY <2>1, <4>2, <5>1
        <4>3. ASSUME NEW n \in DOMAIN table'[z] PROVE chunk'[table'[z][n]].ref = table'[z][n]
          <5>1. table'[z] = <<p>> \o table[z] /\ table[z] \in Seq(Places)
            BY <4>1
          <5>2. table'[z][n] = p \/ \E m \in DOMAIN table[z] : table'[z][n] = table[z][m]
            BY <1>1, <4>3, <5>1
          <5>3. chunk'[p].ref = p
            BY <1>7, <1>a, <3>2
          <5> QED
            BY <2>1, <4>1, <5>2, <5>3
        <4> QED
          BY <4>2, <4>3
      <3> QED
        BY <1>1, <3>1, <3>2
    <2>3. \A u \in Workers : th'[u].found # 0 => chunk'[th'[u].found].ref = th'[u].found
      <3>1. ASSUME NEW u \in Workers, u # w, th[u].found # 0 PROVE chunk'[th[u].found].ref = th[u].found
        <4>1. th[u].found \in Places /\ chunk[th[u].found].ref = th[u].found
          BY <1>0, <3>1, ThIs DEF RefInv
        <4> QED
          BY <1>10, <3>1, <4>1
      <3> QED
        BY <1>1, <3>1
    <2> QED
      BY <2>2, <2>3 DEF RefInv
  <1>19. SepInv'
    BY <1>0, <1>5, <1>15 DEF SepInv, Kept
  <1>20. InsertInv'
    BY <1>0, <1>1 DEF InsertInv
  <1> QED
    BY <1>0, <1>1, <1>12, <1>13, <1>16, <1>17, <1>18, <1>19, <1>20 DEF MemInv

\* What Fragment has in hand.
Hands == {fr.left, fr.cur} \ {NoChunk}

LEMMA HandsAre ==
    ASSUME Types, HandInv, NEW h \in Hands
    PROVE  /\ h.from = Start /\ h.from \in Places /\ h.from \in Nat /\ h.to \in Nat /\ h.l1 \in Nat
           /\ h \in Chunks /\ Hand(h) /\ Hands = {h}
  <1>1. fr.left = NoChunk \/ fr.cur = NoChunk
    BY FrIs DEF HandInv
  <1>2. Hand(h) /\ h \in Chunks
    BY FrIs DEF HandInv, Hands
  <1>3. h.from \in Nat /\ h.to \in Nat /\ h.l1 \in Nat /\ Places = 1 .. Len(file) /\ fr.pos \in 0 .. Len(file) /\ Len(file) \in Nat
    BY <1>2, FrIs, DataIs DEF Chunks
  <1>4. h.from \in Places
    BY <1>2, <1>3 DEF Hand
  <1>5. h.from = Start
    BY <1>1 DEF Start, Hands
  <1>6. Hands = {h}
    BY <1>1 DEF Hands
  <1> QED
    BY <1>2, <1>3, <1>4, <1>5, <1>6

LEMMA BeyondStart ==
    ASSUME Types, HandInv, CoarseInv, ChunkInv, NEW q \in Nat, q >= Start
    PROVE  /\ q \in Places => chunk[q].state = "none" /\ chunk[q].ref = 0
           /\ \A b : ~HeldFine(b, q)
           /\ \A h \in Content(At("refine")) : h.from # q /\ h.to # q
  <1>1. Start \in Nat
    BY StartBound
  <1>2. q \in Places => chunk[q].state = "none"
    BY <1>1 DEF ChunkInv
  <1>3. \A h \in Content(At("refine")) : h.from \in Nat /\ h.to \in Nat /\ h.from <= h.to /\ h.to < Start
    BY CoarsePlaces
  <1> QED
    BY <1>1, <1>2, <1>3 DEF HeldFine, ChunkInv

\* One batch of RefineChunk: c is the coarse chunk in hand, d what is left of it.
RefinesTo(c, d, S) ==
    /\ Content(At("refine")) = S \cup {c} /\ Separate(Apart, At("refine")')
    /\ \A x \in S : <<x, c>> \in Apart
    /\ \/ c.from = c.to /\ refs' = refs /\ Content(At("refine")') = S
       \/ /\ c.from # c.to /\ refs' = [refs EXCEPT ![c.buf] = @ + 1]
          /\ Content(At("refine")') = S \cup {d}

LEMMA RefinesSome ==
    ASSUME Types, HandInv, CoarseInv, SepInv, NEW w \in Workers, RefineChunk(w), NEW c, NEW d,
           c = Head(th[w].recv), d = [c EXCEPT !.from = c.from + 1, !.l2 = @ + 1]
    PROVE  \E S : RefinesTo(c, d, S)
  <1>1. /\ c \in Content(At("refine"))
        /\ \/ /\ c.from = c.to /\ refs' = refs
              /\ Content(At("refine")) = Content(At("refine")') \cup {c}
              /\ \A R : Separate(R, At("refine")) =>
                   /\ Separate(R, At("refine")')
                   /\ \A x \in Content(At("refine")') : <<x, c>> \in R /\ <<c, x>> \in R
           \/ /\ c.from # c.to /\ refs' = [refs EXCEPT ![c.buf] = @ + 1]
              /\ d \in Chunks /\ Swapped(At("refine"), At("refine")', c, d)
    BY RefineStep
  <1>2. Separate(Apart, At("refine"))
    BY DEF SepInv
  <1>3. CASE c.from = c.to
    <2>1. RefinesTo(c, d, Content(At("refine")'))
      BY <1>1, <1>2, <1>3 DEF RefinesTo
    <2> QED
      BY <2>1
  <1>4. CASE c.from # c.to
    <2>1. PICK S : Swap(S, At("refine"), At("refine")', c, d)
      BY <1>1, <1>4 DEF Swapped
    <2>2. /\ Content(At("refine")) = S \cup {c} /\ Content(At("refine")') = S \cup {d}
          /\ \A x \in S : <<x, c>> \in Apart /\ <<c, x>> \in Apart
          /\ (\A x \in S : <<x, d>> \in Apart /\ <<d, x>> \in Apart) => Separate(Apart, At("refine")')
      BY <1>2, <2>1 DEF Swap
    <2>3. c \in Chunks /\ c.from \in Nat /\ c.to \in Nat /\ c.from <= c.to
      BY <1>1, CoarsePlaces
    <2>4. d \in Chunks /\ d.from = c.from + 1 /\ d.to = c.to
      BY <2>3, CutFront
    <2>5. ASSUME NEW x \in S PROVE <<x, d>> \in Apart /\ <<d, x>> \in Apart
      <3>1. x \in Chunks /\ x.from \in Nat /\ x.to \in Nat /\ (x.to < c.from \/ c.to < x.from)
        <4>1. x \in Content(At("refine")) /\ <<x, c>> \in Apart
          BY <2>2
        <4> QED
          BY <4>1, CoarsePlaces DEF Apart
      <3>2. x.to < d.from \/ d.to < x.from
        BY <2>3, <2>4, <3>1
      <3> QED
        BY <2>4, <3>1, <3>2 DEF Apart
    <2>6. RefinesTo(c, d, S)
      BY <1>1, <1>4, <2>2, <2>5 DEF RefinesTo
    <2> QED
      BY <2>6
  <1> QED
    BY <1>3, <1>4

\* What one turn of FragmentRefine does, in terms of the contents alone.
RefineEffect(c, p, d, S) ==
    /\ p = c.from /\ c \in Content(At("refine")) /\ RefinesTo(c, d, S)
    /\ d = [c EXCEPT !.from = c.from + 1, !.l2 = @ + 1]
    /\ chunk' = [chunk EXCEPT ![p] = [seq |-> <<c.l1, c.l2>>, last |-> p = c.to, buf |-> c.buf,
                                      state |-> "uncompressed", ref |-> 0]]
    /\ Content(At("dedup")') = Content(At("dedup")) \cup {p}
    /\ (\A q \in Content(At("dedup")) : q \in Nat /\ q # p) => Separate(Differ, At("dedup")')
    /\ Kept("compress") /\ Kept("reorder")

LEMMA RefineIs ==
    ASSUME MemInv, NEW w \in Workers, RefineChunk(w)
    PROVE  Types' /\ ThQuiet /\ \E c, p, d, S : RefineEffect(c, p, d, S)
  <1>0. Types /\ HandInv /\ SepInv /\ CoarseInv
    BY DEF MemInv
  <1>1. PICK c, d : c = Head(th[w].recv) /\ d = [c EXCEPT !.from = c.from + 1, !.l2 = @ + 1]
    OBVIOUS
  <1>2. PICK p : p = c.from
    OBVIOUS
  <1>3. PICK S : RefinesTo(c, d, S)
    BY <1>0, <1>1, RefinesSome
  <1>4. /\ Types' /\ ThQuiet /\ c \in Content(At("refine"))
        /\ chunk' = [chunk EXCEPT ![p] = [seq |-> <<c.l1, c.l2>>, last |-> p = c.to, buf |-> c.buf,
                             state |-> "uncompressed", ref |-> 0]]
        /\ Content(At("dedup")') = Content(At("dedup")) \cup {p}
        /\ \A R : /\ Separate(R, At("dedup"))
                  /\ \A q \in Content(At("dedup")) : <<q, p>> \in R /\ <<p, q>> \in R
                  => Separate(R, At("dedup")')
        /\ Kept("compress") /\ Kept("reorder")
    BY <1>0, <1>1, <1>2, RefineStep
  <1>5. p \in Nat
    BY <1>0, <1>2, <1>4, CoarsePlaces
  <1>6. (\A q \in Content(At("dedup")) : q \in Nat /\ q # p) => Separate(Differ, At("dedup")')
    <2>1. (\A q \in Content(At("dedup")) : q \in Nat /\ q # p)
             => \A q \in Content(At("dedup")) : <<q, p>> \in Differ /\ <<p, q>> \in Differ
      BY <1>5 DEF Differ
    <2> QED
      BY <1>0, <1>4, <2>1 DEF SepInv
  <1>7. RefineEffect(c, p, d, S)
    BY <1>1, <1>2, <1>3, <1>4, <1>6 DEF RefineEffect
  <1> QED
    BY <1>4, <1>7

LEMMA MemRefineEffect ==
    ASSUME MemInv, Types', Framed, ThQuiet, fr' = fr, ro' = ro, table' = table,
           NEW c, NEW p, NEW d, NEW S, RefineEffect(c, p, d, S)
    PROVE  MemInv'
  <1>0. Types /\ HandInv /\ SepInv /\ CoarseInv /\ FineInv /\ InsertInv /\ ChunkInv /\ RefInv /\ RefsCountHolders
    BY DEF MemInv
  <1>1. /\ p = c.from /\ c \in Content(At("refine")) /\ RefinesTo(c, d, S)
        /\ d = [c EXCEPT !.from = c.from + 1, !.l2 = @ + 1]
        /\ chunk' = [chunk EXCEPT ![p] = [seq |-> <<c.l1, c.l2>>, last |-> p = c.to, buf |-> c.buf,
                                          state |-> "uncompressed", ref |-> 0]]
        /\ Content(At("dedup")') = Content(At("dedup")) \cup {p}
        /\ (\A q \in Content(At("dedup")) : q \in Nat /\ q # p) => Separate(Differ, At("dedup")')
        /\ Kept("compress") /\ Kept("reorder")
    BY DEF RefineEffect
  <1>2. /\ c \in Chunks /\ p \in Places /\ c.to \in Places /\ p <= c.to /\ c.to < Start
        /\ c.l1 \in Nat /\ p \in Nat /\ c.to \in Nat /\ c.buf \in Nat /\ c.l2 \in Nat
        /\ CoarseOk(c) /\ \A q \in p .. c.to : q \in Places
    BY <1>0, <1>1, CoarsePlaces
  <1>3. chunk \in [Places -> FineType] /\ 0 \notin Places /\ refs \in [1 .. Len(file) + 2 -> Int]
        /\ Places = 1 .. Len(file) /\ Len(file) \in Nat
    BY <1>0, DataIs
  <1>4. chunk[p].state = "none" /\ chunk[p].ref = 0 /\ chunk[p].buf = 0
    <2>1. p \in p .. c.to
      BY <1>2
    <2> QED
      BY <1>0, <1>1, <1>2, <2>1 DEF CoarseOk, ChunkInv
  <1>5. /\ \A q \in Places \ {p} : chunk'[q] = chunk[q]
        /\ chunk'[p].seq = <<c.l1, c.l2>> /\ (chunk'[p].last <=> p = c.to) /\ chunk'[p].buf = c.buf
        /\ chunk'[p].state = "uncompressed" /\ chunk'[p].ref = 0
    BY <1>1, <1>2, <1>3
  <1>6. Start' = Start /\ HandInv' /\ Places' = Places /\ file' = file /\ Start \in Nat
    BY <1>0, HandStays, StartBound DEF FrQuiet, Framed, Places
  <1>7. ASSUME NEW x \in S
        PROVE  /\ x \in Content(At("refine")) /\ x \in Chunks /\ x.from \in Nat /\ x.to \in Nat
               /\ x.from <= x.to /\ (x.to < p \/ c.to < x.from) /\ CoarseOk(x)
               /\ \A q \in x.from .. x.to : q \in Places
    <2>1. x \in Content(At("refine")) /\ <<x, c>> \in Apart
      BY <1>1 DEF RefinesTo
    <2> QED
      BY <1>0, <1>1, <2>1, CoarsePlaces DEF Apart
  <1>8. d \in Chunks /\ d.l1 = c.l1 /\ d.from = p + 1 /\ d.to = c.to /\ d.buf = c.buf /\ d.l2 = c.l2 + 1
    BY <1>1, <1>2, CutFront
  <1>9. /\ c.buf \in 1 .. fr.reads /\ IsLast(c.to) /\ (\A q \in p .. c.to - 1 : q \notin Cuts)
        /\ \A q \in p .. c.to : chunk[q].state = "none" /\ Number(q) = <<c.l1, c.l2 + q - p>>
    BY <1>1, <1>2 DEF CoarseOk
  <1>10. CoarseInv'
    <2>1. ASSUME NEW x \in S PROVE CoarseOk(x)'
      <3>1. \A q \in x.from .. x.to : q \in Places \ {p}
        BY <1>2, <1>7
      <3>2. \A q \in x.from .. x.to : chunk'[q] = chunk[q]
        BY <1>5, <3>1
      <3> QED
        BY <1>6, <1>7, <3>2 DEF CoarseOk, IsLast
    <2>2. ASSUME p # c.to PROVE CoarseOk(d)'
      <3>1. p + 1 <= c.to /\ 1 <= p + 1
        BY <1>2, <2>2
      <3>2. \A q \in p + 1 .. c.to : q \in p .. c.to /\ q \in Places \ {p}
        BY <1>2
      <3>3. \A q \in p + 1 .. c.to - 1 : q \notin Cuts
        BY <1>2, <1>9
      <3>4. \A q \in p + 1 .. c.to : chunk'[q].state = "none" /\ Number(q) = <<c.l1, (c.l2 + 1) + q - (p + 1)>>
        <4>1. ASSUME NEW q \in p + 1 .. c.to
              PROVE  chunk'[q].state = "none" /\ Number(q) = <<c.l1, (c.l2 + 1) + q - (p + 1)>>
          <5>1. q \in p .. c.to /\ q \in Places \ {p} /\ q \in Nat
            BY <1>2, <3>2
          <5>2. chunk'[q].state = "none" /\ Number(q) = <<c.l1, c.l2 + q - p>>
            BY <1>5, <1>9, <5>1
          <5>3. c.l2 + q - p = (c.l2 + 1) + q - (p + 1)
            BY <1>2, <5>1
          <5> QED
            BY <5>2, <5>3
        <4> QED
          BY <4>1
      <3> QED
        BY <1>2, <1>6, <1>8, <1>9, <3>1, <3>3, <3>4 DEF CoarseOk, IsLast
    <2>3. \A x \in Content(At("refine")') : x \in S \/ (x = d /\ p # c.to)
      BY <1>1 DEF RefinesTo
    <2> QED
      BY <2>1, <2>2, <2>3 DEF CoarseInv
  <1>11. /\ \A q \in Content(At("dedup")) : q \in Places \ {p} /\ q \in Nat
         /\ \A q \in Content(At("compress")) : q \in Places \ {p}
         /\ \A q \in ReorderHas : q \in Places \ {p}
    <2>1. \A q \in Content(At("dedup")) \cup Content(At("compress")) : q \in Places /\ q \in Nat
      BY <1>0, FineContent
    <2>2. \A q \in ReorderHas : q \in Places
      BY <1>0, FineContent, RoIs DEF ReorderHas
    <2> QED
      BY <1>0, <1>4, <2>1, <2>2 DEF FineInv, ReorderHas
  <1>12. /\ Content(At("compress")') = Content(At("compress")) /\ ReorderHas' = ReorderHas
    BY <1>1 DEF Kept, ReorderHas
  <1>13. FineInv'
    <2>1. \A q \in Content(At("dedup")') : chunk'[q].state = "uncompressed" /\ chunk'[q].ref = 0
      BY <1>0, <1>1, <1>5, <1>11 DEF FineInv
    <2>2. \A q \in Content(At("compress")') : chunk'[q].state = "uncompressed" /\ chunk'[q].ref = q
      BY <1>0, <1>5, <1>11, <1>12 DEF FineInv
    <2>3. \A q \in ReorderHas' : chunk'[q].state # "none" /\ chunk'[q].ref # 0
      BY <1>0, <1>5, <1>11, <1>12 DEF FineInv, ReorderHas
    <2> QED
      BY <2>1, <2>2, <2>3 DEF FineInv, ReorderHas
  <1>14. SepInv'
    <2>1. Separate(Differ, At("dedup")')
      BY <1>1, <1>11
    <2>2. Separate(Apart, At("refine")')
      BY <1>1 DEF RefinesTo
    <2> QED
      BY <1>0, <1>1, <2>1, <2>2 DEF SepInv, Kept
  <1>15. \A q \in Places : chunk[q].ref # 0 => q # p /\ chunk[q].ref \in Places \ {p} /\ chunk'[q] = chunk[q]
    <2>1. ASSUME NEW q \in Places, chunk[q].ref # 0
          PROVE  q # p /\ chunk[q].ref \in Places /\ chunk[chunk[q].ref].ref = chunk[q].ref
      BY <1>0, <1>4, <2>1, DataIs DEF ChunkInv
    <2> QED
      BY <1>4, <1>5, <2>1
  <1>16. ChunkInv'
    <2>1. IsLast(p) <=> p = c.to
      <3>1. ASSUME p # c.to PROVE ~IsLast(p)
        <4>1. p \in p .. c.to - 1 /\ p < Len(file)
          BY <1>2, <1>3, <3>1
        <4> QED
          BY <1>3, <1>9, <4>1 DEF IsLast
      <3> QED
        BY <1>9, <3>1
    <2>2. Number(p) = <<c.l1, c.l2>>
      <3>1. p \in p .. c.to /\ c.l2 + p - p = c.l2
        BY <1>2
      <3> QED
        BY <1>9, <3>1
    <2>3. p < Start
      BY <1>2, <1>6
    <2>4. ASSUME NEW q \in Places
          PROVE  /\ chunk'[q].state # "none" => /\ q < Start /\ chunk'[q].buf \in 1 .. fr.reads
                                      /\ chunk'[q].seq = Number(q) /\ (chunk'[q].last <=> IsLast(q))
                 /\ chunk'[q].state = "none" => chunk'[q].buf = 0 /\ chunk'[q].ref = 0
                 /\ chunk'[q].ref # 0 => chunk'[chunk'[q].ref].ref = chunk'[q].ref
      <3>1. CASE q = p
        BY <1>5, <1>9, <2>1, <2>2, <2>3, <3>1
      <3>2. CASE q # p
        <4>1. chunk'[q] = chunk[q]
          BY <1>5, <3>2
        <4>2. chunk[q].ref # 0 => chunk'[chunk[q].ref] = chunk[chunk[q].ref]
          BY <1>5, <1>15
        <4> QED
          BY <1>0, <4>1, <4>2 DEF ChunkInv
      <3> QED
        BY <3>1, <3>2
    <2> QED
      BY <1>6, <2>4 DEF ChunkInv, IsLast
  <1>17. RefInv'
    <2>1. \A k \in Buckets : \A n \in DOMAIN table[k] : chunk'[table[k][n]].ref = table[k][n]
      <3>1. ASSUME NEW k \in Buckets, NEW n \in DOMAIN table[k]
            PROVE  table[k][n] \in Places /\ chunk[table[k][n]].ref = table[k][n] /\ table[k][n] # 0
        BY <1>0, <1>3, DataIs DEF RefInv
      <3> QED
        BY <1>15, <3>1
    <2>2. ASSUME NEW u \in Workers, th[u].found # 0 PROVE chunk'[th[u].found].ref = th[u].found
      <3>1. th[u].found \in Places /\ chunk[th[u].found].ref = th[u].found
        BY <1>0, <2>2, ThIs DEF RefInv
      <3> QED
        BY <1>15, <2>2, <3>1
    <2> QED
      BY <2>1, <2>2 DEF RefInv, ThQuiet
  <1>18. RefsCountHolders'
    <2> DEFINE HS(b, q) == \E h \in Hands \cup S : h.buf = b /\ h.from = q
    <2>1. \A b, q : HeldCoarse(b, q) <=> HS(b, q) \/ (b = c.buf /\ q = p)
      BY <1>1 DEF HeldCoarse, RefinesTo, Hands
    <2>2. \A b, q : HeldCoarse(b, q)' <=> HS(b, q) \/ (b = c.buf /\ q = p + 1 /\ p # c.to)
      <3>1. CASE p = c.to
        BY <1>1, <1>8, <3>1 DEF HeldCoarse, RefinesTo, Hands
      <3>2. CASE p # c.to
        <4>1. Content(At("refine")') = S \cup {d}
          BY <1>1, <3>2 DEF RefinesTo
        <4>2. \A b, q : HeldCoarse(b, q)' <=> \E h \in (Hands \cup S) \cup {d} : h.buf = b /\ h.from = q
          BY <4>1 DEF HeldCoarse, Hands
        <4> QED
          BY <1>8, <3>2, <4>2
      <3> QED
        BY <3>1, <3>2
    <2>3. ASSUME NEW b, NEW q \in p .. c.to PROVE ~HS(b, q)
      <3>1. \A h \in Hands : h.from # q
        BY <1>0, <1>2, <1>6, HandsAre
      <3>2. \A h \in S : h.from # q
        BY <1>2, <1>7
      <3> QED
        BY <3>1, <3>2
    <2>4. \A b, q : HeldFine(b, q)' <=> HeldFine(b, q) \/ (b = c.buf /\ q = p)
      BY <1>2, <1>4, <1>5, <1>6 DEF HeldFine
    <2> HIDE DEF HS
    <2>5. CASE p = c.to
      <3>1. \A b, q : Held(b, q)' <=> Held(b, q)
        BY <2>1, <2>2, <2>4, <2>5 DEF Held
      <3> QED
        BY <1>0, <1>1, <2>5, <3>1, RefsSame DEF RefinesTo
    <2>6. CASE p # c.to
      <3>1. \A b, q : Held(b, q)' <=> Held(b, q) \/ (b = c.buf /\ q = p + 1)
        BY <2>1, <2>2, <2>4, <2>6 DEF Held
      <3>2. p + 1 \in p .. c.to /\ p + 1 # p
        BY <1>2, <2>6
      <3>3. ~Held(c.buf, p + 1)
        <4>1. ~HeldCoarse(c.buf, p + 1)
          BY <2>1, <2>3, <3>2
        <4>2. ~HeldFine(c.buf, p + 1)
          BY <1>9, <3>2 DEF HeldFine
        <4> QED
          BY <4>1, <4>2 DEF Held
      <3>4. c.buf \in DOMAIN refs
        <4>1. fr.reads \in Nat /\ fr.reads <= Len(file) + 1
          <5>1. fr.pos \in 0 .. Len(file) /\ fr.reads \in Nat /\ fr.reads <= fr.pos + 1
            BY <1>0, FrIs DEF HandInv
          <5> QED
            BY <1>3, <5>1
        <4>2. c.buf \in 1 .. Len(file) + 2
          BY <1>3, <1>9, <4>1
        <4> QED
          BY <1>3, <4>2
      <3> QED
        BY <1>0, <1>1, <2>6, <3>1, <3>3, <3>4, RefsGain DEF RefinesTo
    <2> QED
      BY <2>5, <2>6
  <1> QED
    BY <1>0, <1>6, <1>10, <1>13, <1>14, <1>16, <1>17, <1>18, InsertFrame DEF MemInv

LEMMA MemRefine == ASSUME MemInv, NEW w \in Workers, RefineChunk(w) PROVE MemInv'
  <1>1. Types' /\ ThQuiet /\ \E c, p, d, S : RefineEffect(c, p, d, S)
    BY RefineIs
  <1>2. Framed /\ fr' = fr /\ ro' = ro /\ table' = table
    BY DEF RefineChunk, Framed
  <1> QED
    BY <1>1, <1>2, MemRefineEffect

\* A step of Fragment that emits the coarse chunk e.
LEMMA EmittedFacts ==
    ASSUME Types, SepInv, NEW e \in Chunks, Emitted(e),
           \A y \in Content(At("refine")) : y \in Chunks /\ y.to < e.from
    PROVE  /\ SepInv' /\ Content(At("refine")') = Content(At("refine")) \cup {e}
           /\ Kept("dedup") /\ Kept("compress") /\ Kept("reorder")
  <1>1. Kept("dedup") /\ Kept("compress") /\ Kept("reorder")
    BY StageFacts DEF Emitted
  <1>2. \A y \in Content(At("refine")) : <<y, e>> \in Apart /\ <<e, y>> \in Apart
    BY DEF Apart
  <1>3. Separate(Apart, At("refine")')
    BY <1>2 DEF Emitted, SepInv
  <1> QED
    BY <1>1, <1>3 DEF SepInv, Emitted, Kept

LEMMA FineFrame ==
    ASSUME FineInv, ChunkInv, Types, HandInv, Framed, chunk' = chunk, ro' = ro, Kept("dedup"), Kept("compress"), Kept("reorder"),
           Start' \in Nat, Start <= Start', fr'.reads \in Nat, fr.reads <= fr'.reads
    PROVE  FineInv' /\ ChunkInv'
  <1>1. FineInv'
    BY DEF FineInv, Kept
  <1>2. Places' = Places /\ \A p : IsLast(p)' <=> IsLast(p)
    BY DEF Framed, Places, IsLast
  <1>3. Start \in Nat /\ fr.reads \in Nat /\ Places \subseteq Nat
    BY StartBound, FrIs, DataIs
  <1>4. ChunkInv'
    <2>1. ASSUME NEW p \in Places
          PROVE  /\ chunk[p].state # "none" => p < Start' /\ chunk[p].buf \in 1 .. fr'.reads
      <3>1. chunk[p].state # "none" => p < Start /\ chunk[p].buf \in 1 .. fr.reads
        BY DEF ChunkInv
      <3>2. p \in Nat /\ chunk[p].buf \in Nat
        BY <1>3, DataIs
      <3> QED
        BY <1>3, <3>1, <3>2
    <2> QED
      BY <1>2, <2>1 DEF ChunkInv
  <1> QED
    BY <1>1, <1>4

LEMMA CoarseLater ==
    ASSUME Types, HandInv, CoarseInv, Framed, chunk' = chunk,
           Start' \in Nat, Start <= Start', fr'.reads \in Nat, fr.reads <= fr'.reads
    PROVE  \A y \in Content(At("refine")) : CoarseOk(y)'
  <1> SUFFICES ASSUME NEW y \in Content(At("refine")) PROVE CoarseOk(y)'
    OBVIOUS
  <1>1. Start \in Nat /\ fr.reads \in Nat
    BY StartBound, FrIs
  <1>2. y.to \in Nat /\ y.buf \in Nat /\ CoarseOk(y)
    BY CoarsePlaces
  <1>3. y.to < Start' /\ y.buf \in 1 .. fr'.reads
    BY <1>1, <1>2 DEF CoarseOk
  <1> QED
    BY <1>2, <1>3 DEF CoarseOk, IsLast, Framed

LEMMA CutNumber ==
    ASSUME NEW l \in Nat, NEW r \in Nat \ {0}, NEW q \in Nat, r <= q, \A y \in r .. q - 1 : y \notin Cuts,
           Number(r) = <<l, 0>>
    PROVE  /\ Number(q) = <<l, q - r>>
           /\ q \in Cuts => Number(q + 1) = <<l + 1, 0>>
  <1>1. Number(q) = <<l, 0 + (q - r)>>
    BY NumberRun
  <1>2. 0 + (q - r) = q - r
    OBVIOUS
  <1>3. Number(q) = <<l, q - r>> /\ Number(q)[1] = l
    BY <1>1, <1>2
  <1>4. q \in Cuts => Number(q + 1) = <<l + 1, 0>>
    <2>1. q \in Nat \ {0}
      OBVIOUS
    <2>2. Number(q + 1) = IF q \in Cuts THEN <<Number(q)[1] + 1, 0>> ELSE <<Number(q)[1], Number(q)[2] + 1>>
      BY <2>1, NumberNext
    <2> QED
      BY <1>3, <2>2
  <1> QED
    BY <1>3, <1>4

\* A coarse chunk c cut after the place x.
CutIs(c, x, l, e, d) == e = [c EXCEPT !.to = x] /\ d = [c EXCEPT !.from = x + 1, !.l1 = l]
LEMMA CutFields ==
    ASSUME NEW c \in Chunks, NEW x \in Nat, NEW l \in Nat, NEW e, NEW d, CutIs(c, x, l, e, d)
    PROVE  /\ e = [l1 |-> c.l1, from |-> c.from, to |-> x, buf |-> c.buf, l2 |-> c.l2]
           /\ d = [l1 |-> l, from |-> x + 1, to |-> c.to, buf |-> c.buf, l2 |-> c.l2]
  <1>1. c = [l1 |-> c.l1, from |-> c.from, to |-> c.to, buf |-> c.buf, l2 |-> c.l2]
    BY DEF Chunks
  <1> QED
    BY <1>1 DEF CutIs

LEMMA MemSplitCut ==
    ASSUME MemInv, Types', Framed, ThQuiet, ro' = ro, chunk' = chunk, table' = table,
           NEW c, NEW x, NEW d, NEW e, fr.cur = c, c \in Chunks, fr.pc = "split",
           fr'.pos = fr.pos, fr'.reads = fr.reads, x \in Cuts, x \in Nat, c.from <= x, x < c.to,
           \A y \in c.from .. x - 1 : y \notin Cuts,
           refs' = [refs EXCEPT ![c.buf] = @ + 1],
           fr'.pc = "split", fr'.left = NoChunk, fr'.anchors = fr.anchors + 1,
           e = [c EXCEPT !.to = x], e \in Chunks, Emitted(e),
           d = [c EXCEPT !.from = x + 1, !.l1 = fr.anchors], d \in Chunks, fr'.cur = d
    PROVE  MemInv'
  <1>0. Types /\ HandInv /\ SepInv /\ CoarseInv /\ FineInv /\ InsertInv /\ ChunkInv /\ RefInv /\ RefsCountHolders
    BY DEF MemInv
  <1>1. c # NoChunk /\ d # NoChunk
    BY NoChunkFacts
  <1>2. c \in Hands
    BY <1>1 DEF Hands
  <1>3. /\ c.from = Start /\ Hand(c) /\ Hands = {c} /\ c.from \in Nat /\ c.to \in Nat /\ c.l1 \in Nat /\ c.from \in Places
    BY <1>0, <1>2, HandsAre
  <1>4. /\ c.buf \in Nat /\ c.l2 \in Nat /\ fr.anchors \in Nat /\ fr.reads \in Nat /\ fr.pos \in 0 .. Len(file)
        /\ Len(file) \in Nat /\ Places = 1 .. Len(file) /\ fr.left = NoChunk
        /\ refs \in [1 .. Len(file) + 2 -> Int]
    BY <1>0, FrIs, DataIs DEF Chunks, HandInv
  <1>5. /\ 1 <= c.from /\ c.from <= c.to /\ c.to = fr.pos /\ c.buf = fr.reads /\ 1 <= c.buf /\ c.l2 = 0
        /\ Number(c.from) = <<c.l1, 0>> /\ fr.anchors = c.l1 + 1
    BY <1>3 DEF Hand
  <1>6. /\ e.l1 = c.l1 /\ e.from = c.from /\ e.to = x /\ e.buf = c.buf /\ e.l2 = 0
        /\ d.l1 = fr.anchors /\ d.from = x + 1 /\ d.to = c.to /\ d.buf = c.buf /\ d.l2 = 0
    <2>1. /\ e = [l1 |-> c.l1, from |-> c.from, to |-> x, buf |-> c.buf, l2 |-> c.l2]
          /\ d = [l1 |-> fr.anchors, from |-> x + 1, to |-> c.to, buf |-> c.buf, l2 |-> c.l2]
      <3>1. CutIs(c, x, fr.anchors, e, d)
        BY DEF CutIs
      <3> QED
        BY <1>4, <3>1, CutFields
    <2> QED
      BY <1>5, <2>1
  <1>7. \A q \in c.from .. x : Number(q) = <<c.l1, q - c.from>>
    <2>1. ASSUME NEW q \in c.from .. x PROVE Number(q) = <<c.l1, q - c.from>>
      <3>1. q \in Nat /\ c.from <= q /\ c.from \in Nat \ {0} /\ \A y \in c.from .. q - 1 : y \in c.from .. x - 1
        BY <1>3, <1>5
      <3> QED
        BY <1>3, <1>5, <3>1, CutNumber
    <2> QED
      BY <2>1
  <1>8. Number(x + 1) = <<c.l1 + 1, 0>>
    <2>1. c.from \in Nat \ {0}
      BY <1>3, <1>5
    <2> QED
      BY <1>3, <1>5, <2>1, CutNumber
  <1>9. Start' = x + 1 /\ Start <= Start' /\ Start' \in Nat /\ Start' <= c.to
    <2>1. Start' = x + 1
      BY <1>1, <1>6 DEF Start
    <2> QED
      BY <1>3, <2>1
  <1>10. HandInv'
    <2>1. Hand(d)'
      <3>1. Number(d.from) = <<d.l1, 0>> /\ fr.anchors + 1 = d.l1 + 1 /\ d.to = fr.pos /\ d.buf = fr.reads
            /\ 1 <= d.from /\ d.from <= d.to /\ 1 <= d.buf /\ d.l2 = 0
        <4>1. Number(d.from) = <<d.l1, 0>>
          BY <1>4, <1>5, <1>6, <1>8
        <4> QED
          BY <1>3, <1>4, <1>5, <1>6, <4>1
      <3> QED
        BY <3>1 DEF Hand
    <2>2. fr'.reads <= fr'.pos
      BY <1>0 DEF HandInv
    <2> QED
      BY <1>1, <2>1, <2>2 DEF HandInv
  <1>11. \A y \in Content(At("refine")) : y \in Chunks /\ y.to < e.from
    BY <1>0, <1>3, <1>6, CoarsePlaces
  <1>12. /\ SepInv' /\ Content(At("refine")') = Content(At("refine")) \cup {e}
         /\ Kept("dedup") /\ Kept("compress") /\ Kept("reorder")
    BY <1>0, <1>11, EmittedFacts
  <1>13. FineInv' /\ ChunkInv'
    BY <1>0, <1>4, <1>9, <1>12, FineFrame
  <1>14. CoarseInv'
    <2>1. \A y \in Content(At("refine")) : CoarseOk(y)'
      BY <1>0, <1>4, <1>9, CoarseLater
    <2>2. CoarseOk(e)'
      <3>1. \A q \in c.from .. x : chunk[q].state = "none" /\ Number(q) = <<c.l1, 0 + q - c.from>>
        <4>1. ASSUME NEW q \in c.from .. x PROVE chunk[q].state = "none" /\ Number(q) = <<c.l1, 0 + q - c.from>>
          <5>1. q \in Nat /\ q >= Start /\ q \in Places
            BY <1>3, <1>4, <1>5
          <5>2. chunk[q].state = "none"
            BY <1>0, <5>1, BeyondStart
          <5>3. 0 + q - c.from = q - c.from
            BY <1>3, <5>1
          <5> QED
            BY <1>7, <5>2, <5>3
        <4> QED
          BY <4>1
      <3>2. x < x + 1 /\ c.buf \in 1 .. fr.reads
        BY <1>4, <1>5
      <3> QED
        BY <1>5, <1>6, <1>9, <3>1, <3>2 DEF CoarseOk, IsLast
    <2> QED
      BY <1>12, <2>1, <2>2 DEF CoarseInv
  <1>15. RefsCountHolders'
    <2>1. \A b, q : HeldFine(b, q)' <=> HeldFine(b, q)
      BY DEF HeldFine, Framed, Places
    <2>2. \A b, q : HeldCoarse(b, q) <=> \E h \in {c} \cup Content(At("refine")) : h.buf = b /\ h.from = q
      BY <1>3 DEF HeldCoarse, Hands
    <2>3. \A b, q : HeldCoarse(b, q)' <=> \E h \in {d} \cup (Content(At("refine")) \cup {e}) : h.buf = b /\ h.from = q
      BY <1>1, <1>12 DEF HeldCoarse
    <2>4. \A b, q : HeldCoarse(b, q)' <=> HeldCoarse(b, q) \/ (b = c.buf /\ q = x + 1)
      <3> SUFFICES ASSUME NEW b, NEW q
                   PROVE  HeldCoarse(b, q)' <=> HeldCoarse(b, q) \/ (b = c.buf /\ q = x + 1)
        OBVIOUS
      <3> DEFINE G == \E h \in Content(At("refine")) : h.buf = b /\ h.from = q
      <3>1. (\E h \in {d} \cup (Content(At("refine")) \cup {e}) : h.buf = b /\ h.from = q)
               <=> \/ d.buf = b /\ d.from = q
                   \/ e.buf = b /\ e.from = q
                   \/ G
        BY Zenon
      <3>2. (\E h \in {c} \cup Content(At("refine")) : h.buf = b /\ h.from = q)
                 <=> (c.buf = b /\ c.from = q) \/ G
        BY Zenon
      <3> HIDE DEF G
      <3>3. HeldCoarse(b, q) <=> (c.buf = b /\ c.from = q) \/ G
        BY <2>2, <3>2
      <3>4. HeldCoarse(b, q)' <=> (d.buf = b /\ d.from = q) \/ (e.buf = b /\ e.from = q) \/ G
        BY <2>3, <3>1
      <3> QED
        BY <1>6, <3>3, <3>4
    <2>5. \A b, q : Held(b, q)' <=> Held(b, q) \/ (b = c.buf /\ q = x + 1)
      BY <2>1, <2>4 DEF Held
    <2>6. ~Held(c.buf, x + 1)
      <3>1. x + 1 \in Nat /\ x + 1 >= Start /\ x + 1 # c.from
        BY <1>3
      <3>2. ~HeldFine(c.buf, x + 1) /\ \A h \in Content(At("refine")) : h.from # x + 1
        BY <1>0, <3>1, BeyondStart
      <3>3. ~HeldCoarse(c.buf, x + 1)
        BY <2>2, <3>1, <3>2
      <3> QED
        BY <3>2, <3>3 DEF Held
    <2>7. c.buf \in DOMAIN refs
      <3>1. fr.reads <= fr.pos
        BY <1>0 DEF HandInv
      <3>2. c.buf \in 1 .. Len(file) + 2
        BY <1>4, <1>5, <3>1
      <3> QED
        BY <1>4, <3>2
    <2> QED
      BY <1>0, <2>5, <2>6, <2>7, RefsGain
  <1>16. InsertInv' /\ RefInv'
    BY <1>0, InsertFrame, RefFrame
  <1> QED
    BY <1>10, <1>12, <1>13, <1>14, <1>15, <1>16 DEF MemInv

LEMMA MemFragmentSplit == ASSUME MemInv, FragmentSplit PROVE MemInv'
  <1>0. Types /\ HandInv
    BY DEF MemInv
  <1>1. PICK c : c = fr.cur
    OBVIOUS
  <1>2. /\ Types' /\ fr.pc = "split" /\ c \in Chunks /\ fr.left = NoChunk /\ fr'.pos = fr.pos /\ fr'.reads = fr.reads
        /\ \/ /\ CutsIn(c) = {} /\ refs' = refs /\ AllKept /\ fr'.send = <<>>
              /\ fr'.pc = "read" /\ fr'.left = c /\ fr'.cur = NoChunk /\ fr'.anchors = fr.anchors
           \/ \E x \in Cuts :
                /\ c.from <= x /\ x < c.to /\ \A y \in c.from .. x - 1 : y \notin Cuts
                /\ refs' = [refs EXCEPT ![c.buf] = @ + 1]
                /\ fr'.pc = "split" /\ fr'.left = NoChunk /\ fr'.anchors = fr.anchors + 1
                /\ [c EXCEPT !.to = x] \in Chunks /\ Emitted([c EXCEPT !.to = x])
                /\ fr'.cur = [c EXCEPT !.from = x + 1, !.l1 = fr.anchors]
                /\ fr'.cur \in Chunks
    BY <1>0, <1>1, FragmentSplitStep
  <1>3. Framed /\ ThQuiet /\ ro' = ro /\ chunk' = chunk /\ table' = table
    BY DEF FragmentSplit, Framed, ThQuiet
  <1>4. CASE /\ CutsIn(c) = {} /\ refs' = refs /\ AllKept /\ fr'.send = <<>>
             /\ fr'.pc = "read" /\ fr'.left = c /\ fr'.cur = NoChunk /\ fr'.anchors = fr.anchors
    <2>1. c # NoChunk
      BY <1>2, NoChunkFacts
    <2>2. Hand(c) /\ Start' = Start
      BY <1>0, <1>1, <1>2, <1>4, <2>1 DEF HandInv, Start
    <2>3. Hand(c)'
      BY <1>2, <1>4, <2>2 DEF Hand
    <2>4. fr'.reads <= fr'.pos
      BY <1>0, <1>2 DEF HandInv
    <2>5. HandInv'
      BY <1>4, <2>1, <2>3, <2>4 DEF HandInv, CutsIn
    <2>6. {fr'.left, fr'.cur} \ {NoChunk} = {fr.left, fr.cur} \ {NoChunk}
      BY <1>1, <1>2, <1>4
    <2> QED
      BY <1>2, <1>3, <1>4, <2>2, <2>5, <2>6, MemSame
  <1>5. ASSUME NEW x \in Cuts,
                /\ c.from <= x /\ x < c.to /\ \A y \in c.from .. x - 1 : y \notin Cuts
                /\ refs' = [refs EXCEPT ![c.buf] = @ + 1]
                /\ fr'.pc = "split" /\ fr'.left = NoChunk /\ fr'.anchors = fr.anchors + 1
                /\ [c EXCEPT !.to = x] \in Chunks /\ Emitted([c EXCEPT !.to = x])
                /\ fr'.cur = [c EXCEPT !.from = x + 1, !.l1 = fr.anchors]
                /\ fr'.cur \in Chunks
        PROVE  MemInv'
    <2>1. PICK d, e : d = [c EXCEPT !.from = x + 1, !.l1 = fr.anchors] /\ e = [c EXCEPT !.to = x]
      OBVIOUS
    <2>2. x \in Nat
      BY InputsAssumption
    <2>3. e \in Chunks /\ Emitted(e) /\ d \in Chunks /\ fr'.cur = d
      BY <1>5, <2>1
    <2> QED
      BY <1>1, <1>2, <1>3, <1>5, <2>1, <2>2, <2>3, MemSplitCut
  <1> QED
    BY <1>2, <1>4, <1>5

\* A read of n chunks into a new buffer, which c then describes.
ReadEffect(n, c) ==
    /\ n \in Nat /\ c = ReadOf(n) /\ c \in Chunks /\ fr.pos + n <= Len(file)
    /\ refs' = ReadRefs /\ fr.pc = "read" /\ fr.cur = NoChunk
    /\ fr'.pos = fr.pos + n /\ fr'.reads = fr.reads + 1 /\ fr'.left = NoChunk
    /\ fr'.anchors = IF fr.left = NoChunk THEN fr.anchors + 1 ELSE fr.anchors
    /\ \/ /\ n = 0 /\ fr.pos = Len(file) /\ fr.left # NoChunk /\ fr'.pc = "drain"
          /\ fr'.cur = NoChunk /\ Emitted(c)
       \/ /\ n > 0 /\ fr'.pc = "split" /\ fr'.cur = c /\ AllKept

LEMMA ReadIs ==
    ASSUME Types, HandInv, NEW n, NEW c, ReadEffect(n, c)
    PROVE  /\ c.from = Start /\ c.from \in Nat \ {0} /\ c.to \in Nat /\ c.l1 \in Nat
           /\ c.from <= c.to /\ c.to = fr.pos + n
           /\ c.buf = fr.reads + 1 /\ c.l2 = 0 /\ Number(c.from) = <<c.l1, 0>>
           /\ fr'.anchors = c.l1 + 1
           /\ fr.left # NoChunk => fr.left.buf = fr.reads /\ fr.left.from = Start /\ fr.reads >= 1
           /\ n = 0 => \A y \in c.from .. c.to - 1 : y \notin Cuts
  <1>1. /\ n \in Nat /\ c = ReadOf(n) /\ c \in Chunks /\ fr.pos + n <= Len(file)
        /\ fr.cur = NoChunk
        /\ fr'.anchors = IF fr.left = NoChunk THEN fr.anchors + 1 ELSE fr.anchors
        /\ n = 0 => fr.left # NoChunk
        /\ n # 0 => n > 0
    BY DEF ReadEffect
  <1>2. /\ c.l1 = IF fr.left = NoChunk THEN fr.anchors ELSE fr.left.l1
        /\ c.from = IF fr.left = NoChunk THEN fr.pos + 1 ELSE fr.left.from
        /\ c.to = fr.pos + n /\ c.buf = fr.reads + 1 /\ c.l2 = 0
    BY <1>1 DEF ReadOf
  <1>3. c.from \in Nat /\ c.to \in Nat /\ c.l1 \in Nat
    BY <1>1 DEF Chunks
  <1>4. fr.pos \in Nat /\ fr.anchors \in Nat /\ fr.reads \in Nat /\ Len(file) \in Nat
    BY FrIs, DataIs
  <1>5. CASE fr.left = NoChunk
    <2>1. n > 0 /\ fr.pos # Len(file)
      BY <1>1, <1>4, <1>5
    <2>2. fr.pos = 0 /\ fr.anchors = 0
      BY <1>1, <1>5, <2>1 DEF HandInv
    <2>3. c.from = 1 /\ c.l1 = 0 /\ Start = 1 /\ c.to = n
      BY <1>1, <1>2, <1>5, <2>2 DEF Start
    <2> QED
      BY <1>1, <1>2, <1>5, <2>1, <2>2, <2>3, NumberFirst
  <1>6. CASE fr.left # NoChunk
    <2>1. fr.left \in Hands
      BY <1>6 DEF Hands
    <2>2. Hand(fr.left) /\ fr.left.from = Start /\ fr.left.from \in Nat
      BY <2>1, HandsAre
    <2>3. /\ 1 <= c.from /\ c.from <= fr.pos /\ c.from = fr.left.from /\ c.l1 = fr.left.l1
          /\ fr.left.buf = fr.reads /\ 1 <= fr.reads /\ Number(c.from) = <<c.l1, 0>> /\ fr.anchors = c.l1 + 1
          /\ fr.left.to = fr.pos
      BY <1>2, <1>6, <2>2 DEF Hand
    <2>4. ASSUME n = 0, NEW y \in c.from .. c.to - 1 PROVE y \notin Cuts
      <3>1. c.to = fr.pos /\ fr.left.from <= y /\ y < fr.left.to
        BY <1>2, <1>3, <1>4, <2>3, <2>4
      <3> QED
        BY <1>6, <3>1 DEF HandInv, CutsIn
    <2> QED
      BY <1>1, <1>2, <1>3, <1>4, <1>6, <2>2, <2>3, <2>4
  <1> QED
    BY <1>5, <1>6

LEMMA ReadHolders ==
    ASSUME Types, Types', HandInv, CoarseInv, ChunkInv, RefsCountHolders, NEW n, NEW c, ReadEffect(n, c),
           Framed, chunk' = chunk
    PROVE  RefsCountHolders'
  <1>1. /\ c.from = Start /\ c.buf = fr.reads + 1 /\ Start \in Nat
        /\ fr.left # NoChunk => fr.left.buf = fr.reads /\ fr.left.from = Start /\ fr.reads >= 1
    BY ReadIs, StartBound
  <1>2. /\ c \in Chunks /\ refs' = ReadRefs /\ fr.cur = NoChunk /\ fr'.left = NoChunk
        /\ \/ fr'.cur = NoChunk /\ Content(At("refine")') = Content(At("refine")) \cup {c}
           \/ fr'.cur = c /\ Content(At("refine")') = Content(At("refine"))
    BY StageFacts DEF ReadEffect, Emitted, AllKept, Kept
  <1>3. c # NoChunk /\ fr.reads \in Nat /\ refs \in [1 .. Len(file) + 2 -> Int]
    BY <1>2, NoChunkFacts, FrIs, DataIs
  <1> DEFINE G(b, q) == \E h \in Content(At("refine")) : h.buf = b /\ h.from = q
  <1>4. ASSUME NEW b, NEW q
        PROVE  HeldCoarse(b, q) <=> G(b, q) \/ (fr.left # NoChunk /\ b = fr.reads /\ q = Start)
    <2>1. CASE fr.left = NoChunk
      <3>1. {fr.left, fr.cur} \ {NoChunk} = {}
        BY <1>2, <2>1
      <3> QED
        BY <2>1, <3>1 DEF HeldCoarse
    <2>2. CASE fr.left # NoChunk
      <3>1. {fr.left, fr.cur} \ {NoChunk} = {fr.left}
        BY <1>2, <2>2
      <3> QED
        BY <1>1, <2>2, <3>1 DEF HeldCoarse
    <2> QED
      BY <2>1, <2>2
  <1>5. ASSUME NEW b, NEW q
        PROVE  HeldCoarse(b, q)' <=> G(b, q) \/ (b = fr.reads + 1 /\ q = Start)
    <2>1. ({fr'.left, fr'.cur} \ {NoChunk}) \cup Content(At("refine")') = {c} \cup Content(At("refine"))
      BY <1>2, <1>3
    <2>2. HeldCoarse(b, q)' <=> \E h \in {c} \cup Content(At("refine")) : h.buf = b /\ h.from = q
      BY <2>1 DEF HeldCoarse
    <2> QED
      BY <1>1, <2>2
  <1>6. ASSUME NEW b, NEW q PROVE HeldFine(b, q)' <=> HeldFine(b, q)
    BY DEF HeldFine, Framed, Places
  <1>7. ASSUME NEW b PROVE ~G(b, Start) /\ ~HeldFine(b, Start)
    BY <1>1, BeyondStart
  <1>8. ASSUME NEW q PROVE ~G(fr.reads + 1, q) /\ ~HeldFine(fr.reads + 1, q)
    <2>1. ASSUME NEW h \in Content(At("refine")) PROVE h.buf # fr.reads + 1
      BY <1>3, CoarsePlaces DEF CoarseOk
    <2>2. ~HeldFine(fr.reads + 1, q)
      BY <1>3 DEF HeldFine, ChunkInv
    <2> QED
      BY <2>1, <2>2
  <1> HIDE DEF G
  <1>9. ASSUME NEW b, NEW q
        PROVE  q \in Holders(b)' <=> \/ q \in Holders(b) /\ ~(fr.left # NoChunk /\ b = fr.reads /\ q = Start)
                                     \/ b = fr.reads + 1 /\ q = Start
    <2>1. q \in Holders(b)' <=> HeldCoarse(b, q)' \/ HeldFine(b, q)'
      BY HoldersAreNext DEF Held
    <2>2. q \in Holders(b) <=> HeldCoarse(b, q) \/ HeldFine(b, q)
      BY HoldersAre DEF Held
    <2> QED
      BY <1>4, <1>5, <1>6, <1>7, <2>1, <2>2
  <1>10. Holders(fr.reads + 1) = {}
    <2>1. ASSUME NEW q PROVE q \notin Holders(fr.reads + 1)
      <3>1. q \in Holders(fr.reads + 1) <=> HeldCoarse(fr.reads + 1, q) \/ HeldFine(fr.reads + 1, q)
        BY HoldersAre DEF Held
      <3>2. fr.reads + 1 # fr.reads
        BY <1>3
      <3> QED
        BY <1>4, <1>8, <3>1, <3>2
    <2> QED
      BY <2>1
  <1>11. ASSUME NEW b \in DOMAIN refs PROVE refs'[b] = Cardinality(Holders(b)')
    <2>1. refs[b] = Cardinality(Holders(b)) /\ IsFiniteSet(Holders(b)) /\ b \in Nat \ {0}
      BY <1>3, HoldersFinite, DataIs DEF RefsCountHolders
    <2>2. refs'[b] = CASE b = fr.reads + 1 -> 1 [] b = fr.left.buf -> refs[b] - 1 [] OTHER -> refs[b]
      BY <1>2 DEF ReadRefs
    <2>3. CASE b = fr.reads + 1
      <3>1. Holders(b)' = {Start}
        <4>1. ASSUME NEW q PROVE q \in Holders(b)' <=> q = Start
          BY <1>9, <1>10, <2>3
        <4> QED
          BY <4>1
      <3>2. Cardinality({Start}) = 1
        BY FS_Singleton
      <3>3. refs'[b] = 1
        <4>1. b # fr.left.buf
          BY <1>1, <1>3, <2>1, <2>3, NoChunkFacts
        <4> QED
          BY <2>2, <2>3, <4>1
      <3>4. Cardinality(Holders(b)') = 1
        BY <3>1, <3>2
      <3> QED
        BY ONLY <3>3, <3>4
    <2>4. CASE b # fr.reads + 1 /\ fr.left # NoChunk /\ b = fr.reads
      <3>1. Holders(b)' = Holders(b) \ {Start}
        <4>1. ASSUME NEW q PROVE q \in Holders(b)' <=> q \in Holders(b) \ {Start}
          BY <1>9, <2>4
        <4> QED
          BY <4>1
      <3>2. Start \in Holders(b)
        BY <1>4, <2>4, HoldersAre DEF Held
      <3>3. Cardinality(Holders(b) \ {Start}) = Cardinality(Holders(b)) - 1
        BY <2>1, <3>2, FS_RemoveElement
      <3>4. refs'[b] = refs[b] - 1
        BY <1>1, <2>2, <2>4
      <3> QED
        BY <2>1, <3>1, <3>3, <3>4
    <2>5. CASE b # fr.reads + 1 /\ ~(fr.left # NoChunk /\ b = fr.reads)
      <3>1. Holders(b)' = Holders(b)
        <4>1. ASSUME NEW q PROVE q \in Holders(b)' <=> q \in Holders(b)
          BY <1>9, <2>5
        <4> QED
          BY <4>1
      <3>2. b # fr.left.buf
        BY <1>1, <2>1, <2>5, NoChunkFacts
      <3> QED
        BY <2>1, <2>2, <2>5, <3>1, <3>2
    <2> QED
      BY <2>3, <2>4, <2>5
  <1>12. DOMAIN refs' = DOMAIN refs
    BY <1>2 DEF ReadRefs
  <1> QED
    BY <1>11, <1>12 DEF RefsCountHolders

LEMMA MemReadEffect ==
    ASSUME MemInv, Types', Framed, ThQuiet, ro' = ro, chunk' = chunk, table' = table,
           NEW n, NEW c, ReadEffect(n, c)
    PROVE  MemInv'
  <1>0. Types /\ HandInv /\ SepInv /\ CoarseInv /\ FineInv /\ InsertInv /\ ChunkInv /\ RefInv /\ RefsCountHolders
    BY DEF MemInv
  <1>1. /\ c.from = Start /\ c.from \in Nat \ {0} /\ c.to \in Nat /\ c.l1 \in Nat
        /\ c.from <= c.to /\ c.to = fr.pos + n
        /\ c.buf = fr.reads + 1 /\ c.l2 = 0 /\ Number(c.from) = <<c.l1, 0>>
        /\ fr'.anchors = c.l1 + 1
        /\ n = 0 => \A y \in c.from .. c.to - 1 : y \notin Cuts
    BY <1>0, ReadIs
  <1>2. /\ n \in Nat /\ c \in Chunks /\ fr.pos + n <= Len(file) /\ fr.pc = "read" /\ fr.cur = NoChunk
        /\ fr'.pos = fr.pos + n /\ fr'.reads = fr.reads + 1 /\ fr'.left = NoChunk
        /\ \/ /\ n = 0 /\ fr.pos = Len(file) /\ fr'.pc = "drain"
              /\ fr'.cur = NoChunk /\ Emitted(c)
           \/ /\ n > 0 /\ fr'.pc = "split" /\ fr'.cur = c /\ AllKept
    BY DEF ReadEffect
  <1>3. fr.pos \in Nat /\ fr.reads \in Nat /\ Len(file) \in Nat /\ Places = 1 .. Len(file) /\ c # NoChunk
        /\ fr.reads <= fr.pos /\ file' = file
    BY <1>0, <1>2, FrIs, DataIs, NoChunkFacts DEF HandInv, Framed
  <1>4. Start' \in Nat /\ Start <= Start' /\ fr'.reads \in Nat /\ fr.reads <= fr'.reads
        /\ (n = 0 => c.to < Start')
    <2>1. CASE n = 0 /\ fr'.cur = NoChunk
      <3>1. Start' = fr.pos + n + 1
        BY <1>2, <2>1 DEF Start
      <3> QED
        BY <1>1, <1>2, <1>3, <2>1, <3>1
    <2>2. CASE n > 0 /\ fr'.cur = c
      <3>1. Start' = c.from
        BY <1>2, <1>3, <2>2 DEF Start
      <3> QED
        BY <1>1, <1>2, <1>3, <2>2, <3>1
    <2> QED
      BY <1>2, <2>1, <2>2
  <1>5. HandInv'
    <2>1. CASE n = 0 /\ fr'.cur = NoChunk /\ fr'.pc = "drain"
      <3>1. fr'.pos = Len(file') /\ fr'.reads <= fr'.pos + 1
        BY <1>2, <1>3, <2>1
      <3> QED
        BY <1>2, <2>1, <3>1 DEF HandInv
    <2>2. CASE n > 0 /\ fr'.cur = c /\ fr'.pc = "split"
      <3>1. Hand(c)'
        <4>1. 1 <= c.from /\ 1 <= c.buf
          BY <1>1, <1>3
        <4> QED
          BY <1>1, <1>2, <4>1 DEF Hand
      <3>2. fr'.reads <= fr'.pos
        BY <1>2, <1>3, <2>2
      <3> QED
        BY <1>2, <1>3, <2>2, <3>1, <3>2 DEF HandInv
    <2> QED
      BY <1>2, <2>1, <2>2
  <1>6. /\ SepInv' /\ Kept("dedup") /\ Kept("compress") /\ Kept("reorder")
        /\ \A y \in Content(At("refine")') : y \in Content(At("refine")) \/ (n = 0 /\ y = c)
    <2>1. CASE n = 0 /\ Emitted(c)
      <3>1. \A y \in Content(At("refine")) : y \in Chunks /\ y.to < c.from
        BY <1>0, <1>1, CoarsePlaces
      <3> QED
        BY <1>0, <1>2, <2>1, <3>1, EmittedFacts
    <2>2. CASE AllKept
      <3>1. Kept("refine") /\ Kept("dedup") /\ Kept("compress") /\ Kept("reorder")
        BY <2>2, StageFacts DEF AllKept
      <3>2. Content(At("refine")') = Content(At("refine"))
        BY <3>1 DEF Kept
      <3> QED
        BY <1>0, <3>1, <3>2, SepFrame
    <2> QED
      BY <1>2, <2>1, <2>2
  <1>7. FineInv' /\ ChunkInv'
    BY <1>0, <1>4, <1>6, FineFrame
  <1>8. CoarseInv'
    <2>1. \A y \in Content(At("refine")) : CoarseOk(y)'
      BY <1>0, <1>4, CoarseLater
    <2>2. ASSUME n = 0 PROVE CoarseOk(c)'
      <3>1. ASSUME NEW q \in c.from .. c.to PROVE chunk[q].state = "none" /\ Number(q) = <<c.l1, c.l2 + q - c.from>>
        <4>1. q \in Nat /\ q >= Start /\ q \in Places /\ c.from <= q /\ \A y \in c.from .. q - 1 : y \in c.from .. c.to - 1
          BY <1>1, <1>2, <1>3
        <4>2. chunk[q].state = "none"
          BY <1>0, <4>1, BeyondStart
        <4>3. Number(q) = <<c.l1, q - c.from>>
          BY <1>1, <2>2, <4>1, CutNumber
        <4>4. c.l2 + q - c.from = q - c.from
          BY <1>1, <4>1
        <4> QED
          BY <4>2, <4>3, <4>4
      <3>2. c.to = Len(file) /\ 1 <= c.from /\ c.buf \in 1 .. fr'.reads /\ \A y \in c.from .. c.to - 1 : y \notin Cuts
        BY <1>1, <1>2, <1>3, <2>2
      <3> QED
        BY <1>1, <1>3, <1>4, <2>2, <3>1, <3>2 DEF CoarseOk, IsLast
    <2> QED
      BY <1>6, <2>1, <2>2 DEF CoarseInv
  <1>9. RefsCountHolders'
    BY <1>0, ReadHolders
  <1>10. InsertInv' /\ RefInv'
    BY <1>0, InsertFrame, RefFrame
  <1> QED
    BY <1>5, <1>6, <1>7, <1>8, <1>9, <1>10 DEF MemInv

LEMMA MemFragmentRead == ASSUME MemInv, FragmentRead PROVE MemInv'
  <1>0. Types /\ HandInv
    BY DEF MemInv
  <1>1. /\ Types' /\ fr.pc = "read" /\ fr.cur = NoChunk
        /\ \/ /\ fr.left = NoChunk /\ fr.pos = Len(file) /\ fr'.pc = "drain"
              /\ FrQuiet /\ refs' = refs /\ AllKept
           \/ \E n \in Nat :
                /\ fr.pos + n <= Len(file) /\ ReadOf(n) \in Chunks
                /\ refs' = ReadRefs
                /\ fr'.pos = fr.pos + n /\ fr'.reads = fr.reads + 1 /\ fr'.left = NoChunk
                /\ fr'.anchors = IF fr.left = NoChunk THEN fr.anchors + 1 ELSE fr.anchors
                /\ \/ /\ n = 0 /\ fr.pos = Len(file) /\ fr.left # NoChunk /\ fr'.pc = "drain"
                      /\ fr'.cur = NoChunk /\ Emitted(ReadOf(n))
                   \/ /\ n > 0 /\ fr'.pc = "split" /\ fr'.cur = ReadOf(n) /\ AllKept
                      /\ fr'.send = fr.send
    BY <1>0, FragmentReadStep
  <1>2. Framed /\ ThQuiet /\ ro' = ro /\ chunk' = chunk /\ table' = table
    BY DEF FragmentRead, Framed, ThQuiet
  <1>3. CASE /\ fr.left = NoChunk /\ fr'.pc = "drain"
             /\ FrQuiet /\ refs' = refs /\ AllKept
    <2>1. HandInv' /\ Start' = Start
      BY <1>0, <1>1, <1>2, <1>3, HandStays
    <2> QED
      BY <1>1, <1>2, <1>3, <2>1, MemSame DEF FrQuiet
  <1>4. ASSUME NEW n \in Nat,
                /\ fr.pos + n <= Len(file) /\ ReadOf(n) \in Chunks
                /\ refs' = ReadRefs
                /\ fr'.pos = fr.pos + n /\ fr'.reads = fr.reads + 1 /\ fr'.left = NoChunk
                /\ fr'.anchors = IF fr.left = NoChunk THEN fr.anchors + 1 ELSE fr.anchors
                /\ \/ /\ n = 0 /\ fr.pos = Len(file) /\ fr.left # NoChunk /\ fr'.pc = "drain"
                      /\ fr'.cur = NoChunk /\ Emitted(ReadOf(n))
                   \/ /\ n > 0 /\ fr'.pc = "split" /\ fr'.cur = ReadOf(n) /\ AllKept
                      /\ fr'.send = fr.send
        PROVE  MemInv'
    <2>1. PICK c : c = ReadOf(n)
      OBVIOUS
    <2>2. ReadEffect(n, c)
      BY <1>1, <1>4, <2>1 DEF ReadEffect
    <2> QED
      BY <1>1, <1>2, <2>2, MemReadEffect
  <1> QED
    BY <1>1, <1>3, <1>4

-----------------------------------------------------------------------------
(* The buffers are counted.                                                *)

LEMMA InitTypes == ASSUME Init PROVE Types
  <1>1. InputType
    BY DEF Init, InputType
  <1>2. NQueues \in Nat \ {0} /\ 0 \in Queues /\ Len(file) \in Nat /\ Places = 1 .. Len(file) /\ 0 \notin Places
    BY <1>1, QueueFacts, FileFacts
  <1>3. QueType
    <2>1. que = [s \in Stages |-> [i \in Queues |-> <<>>]]
      BY DEF Init
    <2>2. \A s \in Stages : que[s] = [i \in Queues |-> <<>>]
      BY <2>1
    <2>3. \A s \in Stages : que[s] \in [Queues -> Seq(Elem(s))]
      <3>1. ASSUME NEW s \in Stages PROVE que[s] \in [Queues -> Seq(Elem(s))]
        <4>1. <<>> \in Seq(Elem(s)) /\ que[s] = [i \in Queues |-> <<>>]
          BY <2>2
        <4> QED
          BY ONLY <4>1
      <3> QED
        BY <3>1
    <2>4. que = [s \in Stages |-> que[s]]
      BY <2>1
    <2> QED
      BY <2>3, <2>4 DEF QueType
  <1>4. FrType
    BY <1>2 DEF FrType, Init
  <1>5. ThType
    <2>1. th = [w \in Workers |-> [pc |-> "run", recv |-> <<>>, found |-> 0, send |-> EmptyFrom(NextOf[w[1]])]]
      BY DEF Init
    <2>2. ASSUME NEW w \in Workers PROVE th[w] \in ThreadOf(w[1])
      <3>1. th[w] = [pc |-> "run", recv |-> <<>>, found |-> 0, send |-> EmptyFrom(NextOf[w[1]])]
        BY <2>1
      <3>2. EmptyFrom(NextOf[w[1]]) \in [NextOf[w[1]] -> Seq(Places)] /\ <<>> \in Seq(Elem(w[1]))
        BY DEF EmptyFrom
      <3> QED
        BY <3>1, <3>2 DEF ThreadOf
    <2>3. th = [w \in Workers |-> th[w]]
      BY <2>1
    <2> QED
      BY <2>2, <2>3 DEF ThType
  <1>6. RoType
    BY <1>2 DEF RoType, Init
  <1>7. DataType
    <2>1. chunk \in [Places -> FineType]
      BY DEF Init, FineType
    <2>2. refs \in [1 .. Len(file) + 2 -> Int]
      BY DEF Init
    <2>3. \E k \in Nat : perAnchor \in [0 .. k - 1 -> Nat]
      <3>1. AnchorsMax \in Nat /\ perAnchor \in [0 .. AnchorsMax - 1 -> Nat]
        BY SizesAssumption DEF Init
      <3> QED
        BY <3>1
    <2>4. table \in [Buckets -> Seq(Places)] /\ bucketLock = [k \in Buckets |-> bucketLock[k]]
      BY DEF Init
    <2> QED
      BY <2>1, <2>2, <2>3, <2>4 DEF DataType
  <1> QED
    BY <1>1, <1>3, <1>4, <1>5, <1>6, <1>7 DEF Types

LEMMA InitEmpty == ASSUME Init PROVE \A s \in Stages : Content(At(s)) = {} /\ \A R : Separate(R, At(s))
  <1> SUFFICES ASSUME NEW s \in Stages PROVE Content(At(s)) = {} /\ \A R : Separate(R, At(s))
    OBVIOUS
  <1>1. ASSUME NEW x \in Names PROVE At(s)[x] = <<>>
    <2>1. \A i \in Queues : que[s][i] = <<>>
      BY DEF Init
    <2>2. ro.recv = <<>> /\ fr.send = <<>>
      BY DEF Init
    <2>3. \A w \in Workers : th[w].recv = <<>> /\ \A r \in NextOf[w[1]] : th[w].send[r] = <<>>
      BY DEF Init, EmptyFrom
    <2>4. /\ \A i \in Queues : At(s)[<<"que", i>>] = que[s][i]
          /\ At(s)[<<"recv", Reorder>>] = IF s = "reorder" THEN ro.recv ELSE <<>>
          /\ At(s)[<<"send", Fragment>>] = IF s = "refine" THEN fr.send ELSE <<>>
          /\ \A w \in Workers : At(s)[<<"recv", w>>] = IF w[1] = s THEN th[w].recv ELSE <<>>
          /\ \A w \in Workers : At(s)[<<"send", w>>] = IF s \in NextOf[w[1]] THEN th[w].send[s] ELSE <<>>
      BY AtValues
    <2>5. CASE x = <<"que", x[2]>> /\ x[2] \in Queues
      BY <2>1, <2>4, <2>5
    <2>6. CASE x = <<"recv", x[2]>> /\ x[2] \in Workers \cup {Reorder}
      BY <2>2, <2>3, <2>4, <2>6
    <2>7. CASE x = <<"send", x[2]>> /\ x[2] \in Workers \cup {Fragment}
      BY <2>2, <2>3, <2>4, <2>7
    <2> QED
      BY <2>5, <2>6, <2>7, NameShapes
  <1>2. DOMAIN At(s) = Names
    BY AtValues
  <1>3. \A e : e \notin Content(At(s))
    BY <1>1, <1>2, ContentShape
  <1>4. \A p : p \notin Positions(At(s))
    BY <1>1, <1>2, PositionShape
  <1> QED
    BY <1>3, <1>4 DEF Separate

LEMMA InitMem == ASSUME Init PROVE MemInv
  <1>1. Types
    BY InitTypes
  <1>2. \A s \in {"refine", "dedup", "compress", "reorder"} : Content(At(s)) = {} /\ \A R : Separate(R, At(s))
    BY InitEmpty, StageFacts
  <1>3. /\ fr = [pc |-> "read", pos |-> 0, reads |-> 0, left |-> NoChunk, cur |-> NoChunk,
                 anchors |-> 0, qid |-> 0, send |-> <<>>]
        /\ chunk = [p \in Places |-> [seq |-> <<0, 0>>, last |-> FALSE, buf |-> 0, state |-> "none", ref |-> 0]]
        /\ refs = [b \in 1 .. Len(file) + 2 |-> 0]
        /\ ro.cached = {} /\ ro.cur = 0
        /\ \A k \in Buckets : table[k] = <<>>
        /\ \A w \in Workers : th[w].found = 0 /\ th[w].pc = "run"
    BY DEF Init
  <1>4. HandInv
    BY <1>3 DEF HandInv
  <1>5. SepInv /\ CoarseInv /\ FineInv
    BY <1>2, <1>3 DEF SepInv, CoarseInv, FineInv
  <1>6. \A p \in Places : chunk[p].state = "none" /\ chunk[p].buf = 0 /\ chunk[p].ref = 0
    BY <1>3
  <1>7. InsertInv /\ ChunkInv /\ RefInv
    BY <1>3, <1>6 DEF InsertInv, ChunkInv, RefInv
  <1>8. RefsCountHolders
    <2>1. ASSUME NEW b PROVE Holders(b) = {}
      <3>1. ASSUME NEW q PROVE ~HeldCoarse(b, q) /\ ~HeldFine(b, q)
        BY <1>2, <1>3, <1>6 DEF HeldCoarse, HeldFine
      <3>2. \A q : q \notin Holders(b)
        BY <1>1, <3>1, HoldersAre DEF Held
      <3> QED
        BY <3>2
    <2>2. Cardinality({}) = 0
      BY FS_EmptySet
    <2>3. ASSUME NEW b \in DOMAIN refs PROVE refs[b] = Cardinality(Holders(b))
      BY <1>3, <2>1, <2>2
    <2> QED
      BY <2>3 DEF RefsCountHolders
  <1> QED
    BY <1>1, <1>4, <1>5, <1>7, <1>8 DEF MemInv

LEMMA MemStutter == ASSUME MemInv, UNCHANGED vars PROVE MemInv'
  <1>1. /\ Framed /\ fr' = fr /\ que' = que /\ th' = th /\ ro' = ro /\ chunk' = chunk /\ refs' = refs
        /\ perAnchor' = perAnchor /\ table' = table /\ bucketLock' = bucketLock
    BY DEF vars, queueVars, Framed
  <1>2. Types
    BY DEF MemInv
  <1>3. Types'
    BY <1>1, <1>2, InputNext, QueStays, FrStays, ThStays, RoStays, DataStays, LockIs DEF Types
  <1>4. AllKept
    BY <1>1, SameBuffers
  <1> QED
    BY <1>1, <1>3, <1>4, MemQuiet DEF ThQuiet

LEMMA MemNext == ASSUME MemInv, [Next]_vars PROVE MemInv'
  <1>1. CASE FragmentRead \/ FragmentSplit \/ FragmentSend \/ FragmentStop
    BY <1>1, MemFragmentRead, MemFragmentSplit, MemFragmentSend, MemFragmentStop
  <1>2. ASSUME NEW w \in Workers, Fetch(w) \/ Shutdown(w) \/ \E s \in Stages : Send(w, s)
        PROVE  MemInv'
    BY <1>2, MemFetch
  <1>3. ASSUME NEW w \in Workers, RefineChunk(w) \/ DedupSearch(w) \/ DedupInsert(w) \/ CompressChunk(w)
        PROVE  MemInv'
    BY <1>3, MemRefine, MemDedupSearch, MemDedupInsert, MemCompress
  <1>4. CASE ReorderFetch \/ ReorderTake \/ ReorderWrite \/ ReorderFlush
    BY <1>4, MemReorderFetch, MemReorderTake, MemReorderWrite, MemReorderFlush
  <1>5. CASE UNCHANGED vars
    BY <1>5, MemStutter
  <1> QED
    BY <1>1, <1>2, <1>3, <1>4, <1>5 DEF Next

\* The invariant of the memory: however the threads of the three pools are
\* scheduled, no chunk is in two threads' hands and each keeps its number.
THEOREM MemAlways == Spec => []MemInv
  BY InitMem, MemNext, PTL DEF Spec

\* mbuffer.c: the count of a buffer is the number of chunks that use its memory,
\* whichever threads split and free it, so that the last of them frees it.
THEOREM BuffersCounted == Spec => []RefsCountHolders
  <1>1. MemInv => RefsCountHolders
    BY DEF MemInv
  <1> QED
    BY <1>1, MemAlways, PTL

-----------------------------------------------------------------------------
(* The invariant that makes the output that of the serial build.           *)

\* The chunk t is in the list of the bucket k.
Listed(k, t) == \E n \in DOMAIN table[k] : table[k][n] = t
\* The records of the file, and the contents whose data are in it.
Records == [type : {"compress", "fingerprint"}, of : DOMAIN BucketOf]
Cache == {out[n].of : n \in {m \in DOMAIN out : out[m].type = "compress"}}

\* chunks_per_anchor only ever tells the true last chunk of an anchor.
AnchorsInv ==
    \A a \in DOMAIN perAnchor : perAnchor[a] # 0 =>
        \E q \in Places : IsLast(q) /\ Number(q) = <<a, perAnchor[a] - 1>>
\* The hash table has each contents at most once, in its own bucket.
ListsInv ==
    \A k \in Buckets :
        /\ \A t : Listed(k, t) => BucketFor(t) = k
        /\ \A t, u : Listed(k, t) /\ Listed(k, u) /\ file[t] = file[u] => t = u
\* A chunk stands for the entry with its contents, and what a thread found
\* under the bucket's lock is still what it would find.
FoundInv ==
    /\ \A p \in Places : chunk[p].ref # 0 => Listed(BucketFor(p), chunk[p].ref) /\ file[chunk[p].ref] = file[p]
    /\ \A w \in Workers : th[w].pc = "insert" =>
         /\ bucketLock[BucketFor(Head(th[w].recv))] = w
         /\ th[w].found = Search(Head(th[w].recv))
\* An entry is flushed as soon as its data are in the file, and the data in the
\* file are those of an entry.
CacheInv ==
    /\ \A k \in Buckets : \A t : Listed(k, t) => (chunk[t].state = "flushed" <=> file[t] \in Cache)
    /\ \A c \in Cache : \E k \in Buckets : \E t : Listed(k, t) /\ file[t] = c
\* Reorder writes the places in their order.
TurnInv ==
    /\ out \in Seq(Records) /\ Len(out) <= Len(file)
    /\ ro.cur # 0 => ro.cur = Len(out) + 1 /\ ro.next = Number(ro.cur)
    /\ \A p \in Places : Number(p) = ro.next => p = Len(out) + 1

SerialInv == MemInv /\ AnchorsInv /\ ListsInv /\ FoundInv /\ CacheInv /\ TurnInv

LEMMA ListedPlace == ASSUME Types, NEW k \in Buckets, NEW t, Listed(k, t) PROVE t \in Places
  BY DataIs DEF Listed

LEMMA SearchListed ==
    ASSUME Types, NEW p \in Places
    PROVE  /\ Search(p) # 0 => Listed(BucketFor(p), Search(p)) /\ file[Search(p)] = file[p]
           /\ Search(p) = 0 => \A t : Listed(BucketFor(p), t) => file[t] # file[p]
  BY SearchFinds DEF Listed

LEMMA AnchorsFrame == ASSUME AnchorsInv, Framed, perAnchor' = perAnchor PROVE AnchorsInv'
  BY DEF AnchorsInv, Framed, IsLast, Places

LEMMA ListsFrame == ASSUME ListsInv, Framed, table' = table PROVE ListsInv'
  BY DEF ListsInv, Listed, Framed, BucketFor

LEMMA FoundFrame ==
    ASSUME FoundInv, Framed, table' = table, \A p \in Places : chunk'[p].ref = chunk[p].ref,
           bucketLock' = bucketLock, ThQuiet
    PROVE  FoundInv'
  <1>1. Places' = Places /\ (\A p : BucketFor(p)' = BucketFor(p)) /\ (\A p : Search(p)' = Search(p))
    BY DEF Framed, Places, BucketFor, Search
  <1>2. (\A p \in Places : chunk[p].ref # 0 => Listed(BucketFor(p), chunk[p].ref) /\ file[chunk[p].ref] = file[p])'
    BY <1>1 DEF FoundInv, Listed, Framed, BucketFor
  <1>3. ASSUME NEW w \in Workers, th'[w].pc = "insert"
        PROVE  (/\ bucketLock[BucketFor(Head(th[w].recv))] = w
                /\ th[w].found = Search(Head(th[w].recv)))'
    <2>1. th[w].pc = "insert" /\ th'[w].recv = th[w].recv /\ th'[w].found = th[w].found
      BY <1>3 DEF ThQuiet
    <2>2. /\ bucketLock[BucketFor(Head(th[w].recv))] = w
          /\ th[w].found = Search(Head(th[w].recv))
      BY <2>1 DEF FoundInv
    <2>3. BucketFor(Head(th[w].recv))' = BucketFor(Head(th[w].recv))
      BY <2>1 DEF Framed, BucketFor
    <2>4. Search(Head(th[w].recv))' = Search(Head(th[w].recv))
      BY <2>1 DEF Framed, Search, BucketFor
    <2> QED
      BY <2>1, <2>2, <2>3, <2>4
  <1> QED
    BY <1>2, <1>3 DEF FoundInv

LEMMA CacheFrame ==
    ASSUME Types, CacheInv, Framed, table' = table, out' = out,
           \A p \in Places : chunk'[p].state = "flushed" <=> chunk[p].state = "flushed"
    PROVE  CacheInv'
  <1>1. Cache' = Cache
    BY DEF Cache
  <1>2. \A k, t : Listed(k, t)' <=> Listed(k, t)
    BY DEF Listed
  <1> QED
    BY <1>1, <1>2, ListedPlace DEF CacheInv, Framed

LEMMA TurnFrame ==
    ASSUME Types, TurnInv, Framed, out' = out, ro'.next = ro.next,
           \/ ro'.cur \in {0, ro.cur}
           \/ ro'.cur \in Places /\ Number(ro'.cur) = ro.next
    PROVE  TurnInv'
  BY DEF TurnInv, Framed, Places

LEMMA SerialSame ==
    ASSUME SerialInv, MemInv', Framed, ThQuiet, table' = table, chunk' = chunk, bucketLock' = bucketLock,
           perAnchor' = perAnchor, out' = out, ro'.next = ro.next,
           \/ ro'.cur \in {0, ro.cur}
           \/ ro'.cur \in Places /\ Number(ro'.cur) = ro.next
    PROVE  SerialInv'
  <1>1. Types
    BY DEF SerialInv, MemInv
  <1>2. CacheInv' /\ TurnInv'
    BY <1>1, CacheFrame, TurnFrame DEF SerialInv
  <1> QED
    BY <1>2, AnchorsFrame, ListsFrame, FoundFrame DEF SerialInv

LEMMA SerialParts ==
    ASSUME SerialInv
    PROVE  /\ MemInv /\ AnchorsInv /\ ListsInv /\ FoundInv /\ CacheInv /\ TurnInv
           /\ Types /\ HandInv /\ SepInv /\ CoarseInv /\ FineInv /\ InsertInv /\ ChunkInv /\ RefInv
  BY DEF SerialInv, MemInv

\* A chunk that was cut has the number of its place.
LEMMA CutNumbered ==
    ASSUME Types, FineInv, ChunkInv
    PROVE  \A p \in ReorderHas : /\ p \in Places /\ p \in Nat \ {0}
                                 /\ chunk[p].seq = Number(p) /\ (chunk[p].last <=> IsLast(p))
  <1>1. \A p \in ReorderHas : p \in Places
    BY FineContent, RoIs DEF ReorderHas
  <1>2. \A p \in ReorderHas : chunk[p].state # "none"
    BY DEF FineInv, ReorderHas
  <1>3. \A p \in Places : p \in Nat \ {0}
    BY DataIs
  <1> QED
    BY <1>1, <1>2, <1>3 DEF ChunkInv

LEMMA SerialFragment ==
    ASSUME SerialInv, FragmentRead \/ FragmentSplit \/ FragmentSend \/ FragmentStop
    PROVE  SerialInv'
  <1>1. MemInv'
    BY SerialParts, MemFragmentRead, MemFragmentSplit, MemFragmentSend, MemFragmentStop
  <1>2. /\ file' = file /\ perQueue' = perQueue /\ th' = th /\ ro' = ro /\ perAnchor' = perAnchor
        /\ chunk' = chunk /\ table' = table /\ bucketLock' = bucketLock /\ out' = out
    BY DEF FragmentRead, FragmentSplit, FragmentSend, FragmentStop
  <1>3. Framed /\ ThQuiet
    BY <1>2 DEF Framed, ThQuiet
  <1> QED
    BY <1>1, <1>2, <1>3, SerialSame

LEMMA SerialFetch ==
    ASSUME SerialInv, NEW w \in Workers, Fetch(w) \/ Shutdown(w) \/ \E s \in Stages : Send(w, s)
    PROVE  SerialInv'
  <1>1. MemInv' /\ ThQuiet
    BY SerialParts, MemFetch, FetchStep, ShutdownStep, SendStep
  <1>2. Unchanged_Data
    BY DEF Fetch, Shutdown, Send
  <1> QED
    BY <1>1, <1>2, SerialSame DEF Unchanged_Data, Framed

LEMMA SerialReorderFetch == ASSUME SerialInv, ReorderFetch PROVE SerialInv'
  <1>1. MemInv' /\ RoQuiet
    BY SerialParts, MemReorderFetch, ReorderFetchStep
  <1>2. /\ Framed /\ ThQuiet /\ perAnchor' = perAnchor
        /\ chunk' = chunk /\ table' = table /\ bucketLock' = bucketLock /\ out' = out
    BY DEF ReorderFetch, Framed, ThQuiet
  <1> QED
    BY <1>1, <1>2, SerialSame DEF RoQuiet

LEMMA SerialReorderFlush == ASSUME SerialInv, ReorderFlush PROVE SerialInv'
  <1>1. MemInv'
    BY SerialParts, MemReorderFlush
  <1>2. /\ ro'.next = ro.next
        /\ \/ ro'.cur = 0
           \/ ro'.cur \in ro.cached /\ chunk[ro'.cur].seq = ro.next
    BY SerialParts, ReorderFlushStep
  <1>3. /\ Framed /\ ThQuiet /\ perAnchor' = perAnchor
        /\ chunk' = chunk /\ table' = table /\ bucketLock' = bucketLock /\ out' = out
    BY DEF ReorderFlush, Framed, ThQuiet
  <1>4. ro'.cur \in {0, ro.cur} \/ (ro'.cur \in Places /\ Number(ro'.cur) = ro.next)
    BY <1>2, SerialParts, CutNumbered DEF ReorderHas
  <1> QED
    BY <1>1, <1>2, <1>3, <1>4, SerialSame

LEMMA GrownValues ==
    ASSUME Types, NEW a \in Nat, NEW x \in DOMAIN Grown(a), Grown(a)[x] # 0
    PROVE  x \in DOMAIN perAnchor /\ Grown(a)[x] = perAnchor[x]
  <1>1. PICK k \in Nat : perAnchor \in [0 .. k - 1 -> Nat]
    BY DataIs
  <1>2. Cardinality(DOMAIN perAnchor) = k
    <2>1. DOMAIN perAnchor = 0 .. k - 1 /\ 0 \in Int /\ k - 1 \in Int
      BY <1>1
    <2>2. Cardinality(0 .. k - 1) = IF 0 > k - 1 THEN 0 ELSE (k - 1) - 0 + 1
      BY <2>1, FS_Interval
    <2> QED
      BY <2>1, <2>2
  <1>3. CASE a < k
    BY <1>2, <1>3 DEF Grown
  <1>4. CASE ~(a < k)
    <2>1. Grown(a) = [y \in 0 .. 2 * k - 1 |-> IF y < k THEN perAnchor[y] ELSE 0]
      BY <1>2, <1>4 DEF Grown
    <2>2. x \in 0 .. 2 * k - 1 /\ Grown(a)[x] = IF x < k THEN perAnchor[x] ELSE 0
      BY <2>1
    <2> QED
      BY <1>1, <2>2
  <1> QED
    BY <1>3, <1>4

LEMMA SerialReorderTake == ASSUME SerialInv, ReorderTake PROVE SerialInv'
  <1> DEFINE p == Head(ro.recv)
  <1>1. MemInv'
    BY SerialParts, MemReorderTake
  <1>2. /\ p \in Places /\ p \in Content(At("reorder")) /\ ro'.next = ro.next
        /\ \/ ro'.cur = ro.cur
           \/ ro'.cur = p /\ chunk[p].seq = ro.next
    BY SerialParts, ReorderTakeStep
  <1>3. /\ Framed /\ ThQuiet
        /\ chunk' = chunk /\ table' = table /\ bucketLock' = bucketLock /\ out' = out
    BY DEF ReorderTake, Framed, ThQuiet
  <1>4. p \in Nat \ {0} /\ chunk[p].seq = Number(p) /\ (chunk[p].last <=> IsLast(p))
    BY <1>2, SerialParts, CutNumbered DEF ReorderHas
  <1>5. ro'.cur \in {0, ro.cur} \/ (ro'.cur \in Places /\ Number(ro'.cur) = ro.next)
    BY <1>2, <1>4
  <1>6. AnchorsInv'
    <2>1. PICK a, g : a = chunk[p].seq[1] /\ g = Grown(a)
      OBVIOUS
    <2>2. perAnchor' = IF chunk[p].last /\ a \in DOMAIN g THEN [g EXCEPT ![a] = chunk[p].seq[2] + 1] ELSE g
      BY <2>1 DEF ReorderTake
    <2>3. \A x \in DOMAIN g : g[x] # 0 => x \in DOMAIN perAnchor /\ g[x] = perAnchor[x]
      <3>1. a \in Nat
        BY <1>2, <2>1, SerialParts, DataIs
      <3> QED
        BY <2>1, <3>1, SerialParts, GrownValues
    <2>4. DOMAIN perAnchor' = DOMAIN g
      BY <2>2
    <2>5. Number(p) \in Nat \X Nat /\ Number(p) = <<Number(p)[1], Number(p)[2]>>
      BY <1>4, NumberType
    <2>6. ASSUME NEW x \in DOMAIN g, perAnchor'[x] # 0
          PROVE  \E q \in Places : IsLast(q) /\ Number(q) = <<x, perAnchor'[x] - 1>>
      <3>1. CASE perAnchor'[x] = g[x]
        <4>1. x \in DOMAIN perAnchor /\ perAnchor[x] # 0 /\ perAnchor'[x] = perAnchor[x]
          BY <2>3, <2>6, <3>1
        <4> QED
          BY <4>1, SerialParts DEF AnchorsInv
      <3>2. CASE perAnchor'[x] # g[x]
        <4>1. chunk[p].last /\ x = a /\ perAnchor'[x] = chunk[p].seq[2] + 1
          BY <2>2, <3>2
        <4>2. Number(p) = <<x, perAnchor'[x] - 1>>
          BY <1>4, <2>1, <2>5, <4>1
        <4> QED
          BY <1>2, <1>4, <4>1, <4>2
      <3> QED
        BY <3>1, <3>2
    <2> QED
      BY <1>3, <2>4, <2>6 DEF AnchorsInv, IsLast, Framed, Places
  <1>7. ListsInv' /\ FoundInv' /\ CacheInv' /\ TurnInv'
    BY <1>2, <1>3, <1>5, SerialParts, ListsFrame, FoundFrame, CacheFrame, TurnFrame
  <1> QED
    BY <1>1, <1>6, <1>7 DEF SerialInv

LEMMA SerialRefine == ASSUME SerialInv, NEW w \in Workers, RefineChunk(w) PROVE SerialInv'
  <1>0. /\ MemInv /\ AnchorsInv /\ ListsInv /\ FoundInv /\ CacheInv /\ TurnInv
        /\ Types /\ HandInv /\ CoarseInv /\ FineInv /\ ChunkInv
    BY SerialParts
  <1>1. MemInv' /\ ThQuiet
    BY <1>0, MemRefine, RefineIs
  <1>2. /\ Framed /\ ro' = ro /\ perAnchor' = perAnchor /\ table' = table /\ bucketLock' = bucketLock /\ out' = out
    BY DEF RefineChunk, Framed
  <1>3. PICK c, p, d, S : RefineEffect(c, p, d, S)
    BY <1>0, RefineIs
  <1>4. /\ p = c.from /\ c \in Content(At("refine"))
        /\ chunk' = [chunk EXCEPT ![p] = [seq |-> <<c.l1, c.l2>>, last |-> p = c.to, buf |-> c.buf,
                                          state |-> "uncompressed", ref |-> 0]]
    BY <1>3 DEF RefineEffect
  <1>5. p \in Places /\ chunk[p].state = "none" /\ chunk[p].ref = 0
    <2>1. c.from \in Places /\ c.from \in c.from .. c.to /\ CoarseOk(c)
      BY <1>0, <1>4, CoarsePlaces
    <2>2. p \in Places /\ chunk[p].state = "none"
      BY <1>4, <2>1 DEF CoarseOk
    <2> QED
      BY <1>0, <2>2 DEF ChunkInv
  <1>6. chunk'[p].state = "uncompressed" /\ chunk'[p].ref = 0 /\ \A q \in Places \ {p} : chunk'[q] = chunk[q]
    BY <1>0, <1>4, <1>5, DataIs
  <1>7. /\ \A q \in Places : chunk'[q].ref = chunk[q].ref
        /\ \A q \in Places : chunk'[q].state = "flushed" <=> chunk[q].state = "flushed"
    BY <1>5, <1>6
  <1>8. AnchorsInv' /\ ListsInv'
    BY <1>0, <1>2, AnchorsFrame, ListsFrame
  <1>9. FoundInv'
    BY <1>0, <1>1, <1>2, <1>7, FoundFrame
  <1>10. CacheInv'
    BY <1>0, <1>2, <1>7, CacheFrame
  <1>11. TurnInv'
    BY <1>0, <1>2, TurnFrame
  <1> QED
    BY <1>1, <1>8, <1>9, <1>10, <1>11 DEF SerialInv

LEMMA SerialCompress == ASSUME SerialInv, NEW w \in Workers, CompressChunk(w) PROVE SerialInv'
  <1>0. /\ MemInv /\ AnchorsInv /\ ListsInv /\ FoundInv /\ CacheInv /\ TurnInv
        /\ Types /\ SepInv /\ FineInv
    BY SerialParts
  <1>1. MemInv'
    BY <1>0, MemCompress
  <1>2. /\ Framed /\ ro' = ro /\ perAnchor' = perAnchor /\ table' = table /\ bucketLock' = bucketLock /\ out' = out
    BY DEF CompressChunk, Framed
  <1>3. PICK p : p = Head(th[w].recv)
    OBVIOUS
  <1>4. /\ p \in Places /\ ThQuiet /\ w[1] = "compress" /\ Passed(w, p, "reorder")
        /\ chunk' = [chunk EXCEPT ![p].state = "compressed"]
    BY <1>0, <1>3, CompressStep
  <1>5. chunk[p].state = "uncompressed"
    <2>1. Content(At("compress")) = Content(At("compress")') \cup {p}
      BY <1>4 DEF Passed
    <2> QED
      BY <1>0, <2>1 DEF FineInv
  <1>6. chunk'[p].state = "compressed" /\ chunk'[p].ref = chunk[p].ref /\ \A q \in Places \ {p} : chunk'[q] = chunk[q]
    <2>1. chunk \in [Places -> FineType]
      BY <1>0, DataIs
    <2> QED
      BY <1>4, <2>1 DEF FineType
  <1>7. /\ \A q \in Places : chunk'[q].ref = chunk[q].ref
        /\ \A q \in Places : chunk'[q].state = "flushed" <=> chunk[q].state = "flushed"
    BY <1>5, <1>6
  <1>8. AnchorsInv' /\ ListsInv'
    BY <1>0, <1>2, AnchorsFrame, ListsFrame
  <1>9. FoundInv'
    BY <1>0, <1>2, <1>4, <1>7, FoundFrame
  <1>10. CacheInv'
    BY <1>0, <1>2, <1>7, CacheFrame
  <1>11. TurnInv'
    BY <1>0, <1>2, TurnFrame
  <1> QED
    BY <1>1, <1>8, <1>9, <1>10, <1>11 DEF SerialInv

LEMMA SerialDedupSearch == ASSUME SerialInv, NEW w \in Workers, DedupSearch(w) PROVE SerialInv'
  <1>0. /\ MemInv /\ AnchorsInv /\ ListsInv /\ FoundInv /\ CacheInv /\ TurnInv /\ Types
    BY SerialParts
  <1>1. MemInv'
    BY <1>0, MemDedupSearch
  <1>2. /\ Framed /\ ro' = ro /\ perAnchor' = perAnchor /\ table' = table /\ chunk' = chunk /\ out' = out
    BY DEF DedupSearch, Framed
  <1>3. PICK p : p = Head(th[w].recv)
    OBVIOUS
  <1>4. /\ p \in Places /\ th'[w].recv = th[w].recv /\ th'[w].found = Search(p)
        /\ \A u \in Workers \ {w} : th'[u] = th[u]
    BY <1>0, <1>3, DedupSearchStep
  <1>5. bucketLock[BucketFor(p)] = Nobody /\ bucketLock' = [bucketLock EXCEPT ![BucketFor(p)] = w]
    BY <1>3 DEF DedupSearch
  <1>6. AnchorsInv' /\ ListsInv'
    BY <1>0, <1>2, AnchorsFrame, ListsFrame
  <1>7. CacheInv' /\ TurnInv'
    BY <1>0, <1>2, CacheFrame, TurnFrame
  <1>8. FoundInv'
    <2>1. Places' = Places /\ (\A q : BucketFor(q)' = BucketFor(q)) /\ (\A q : Search(q)' = Search(q))
      BY <1>2 DEF Framed, Places, BucketFor, Search
    <2>2. (\A q \in Places : chunk[q].ref # 0 => Listed(BucketFor(q), chunk[q].ref) /\ file[chunk[q].ref] = file[q])'
      BY <1>0, <1>2, <2>1 DEF FoundInv, Listed, Framed, BucketFor
    <2>3. bucketLock = [k \in Buckets |-> bucketLock[k]] /\ BucketFor(p) \in Buckets
      BY <1>0, <1>4, DataIs
    <2>4. Nobody \notin Workers
      BY StageFacts DEF Nobody, Pools
    <2>5. ASSUME NEW u \in Workers, th'[u].pc = "insert"
          PROVE  (/\ bucketLock[BucketFor(Head(th[u].recv))] = u
                  /\ th[u].found = Search(Head(th[u].recv)))'
      <3>1. CASE u = w
        <4>1. PICK h : h = Head(th'[w].recv)
          OBVIOUS
        <4>2. h = p
          BY <1>3, <1>4, <4>1
        <4>3. BucketFor(h)' = BucketFor(p) /\ Search(h)' = Search(p)
          BY <2>1, <4>2
        <4>4. bucketLock'[BucketFor(p)] = w
          BY <1>5, <2>3
        <4> QED
          BY <1>4, <3>1, <4>1, <4>3, <4>4
      <3>2. CASE u # w
        <4>1. PICK h : h = Head(th[u].recv)
          OBVIOUS
        <4>2. th'[u] = th[u] /\ h = Head(th'[u].recv)
          BY <1>4, <3>2, <4>1
        <4>3. bucketLock[BucketFor(h)] = u /\ th[u].found = Search(h)
          BY <1>0, <2>5, <4>1, <4>2 DEF FoundInv
        <4>4. BucketFor(h)' = BucketFor(h) /\ Search(h)' = Search(h)
          BY <2>1
        <4>5. BucketFor(h) # BucketFor(p)
          BY <1>5, <2>4, <4>3
        <4>6. bucketLock'[BucketFor(h)] = u
          BY <1>5, <4>3, <4>5, <2>3
        <4> QED
          BY <4>2, <4>3, <4>4, <4>6
      <3> QED
        BY <3>1, <3>2
    <2> QED
      BY <2>2, <2>5 DEF FoundInv
  <1> QED
    BY <1>1, <1>6, <1>7, <1>8 DEF SerialInv

LEMMA ListedInserted ==
    ASSUME Types, NEW p \in Places, table' = Inserted(p)
    PROVE  /\ \A k \in Buckets : \A t : Listed(k, t)' <=> Listed(k, t) \/ (k = BucketFor(p) /\ t = p)
           /\ \A k \in Buckets : k # BucketFor(p) => table'[k] = table[k]
  <1>1. PICK z : z = BucketFor(p)
    OBVIOUS
  <1>2. table \in [Buckets -> Seq(Places)] /\ z \in Buckets
    BY <1>1, DataIs
  <1>3. table' = [table EXCEPT ![z] = <<p>> \o table[z]]
    BY <1>1 DEF Inserted
  <1>4. \A k \in Buckets : k # z => table'[k] = table[k]
    BY <1>2, <1>3
  <1>5. ASSUME NEW t PROVE (\E n \in DOMAIN table'[z] : table'[z][n] = t) <=> Listed(z, t) \/ t = p
    <2>1. table'[z] = <<p>> \o table[z] /\ table[z] \in Seq(Places) /\ Len(table[z]) \in Nat
      BY <1>2, <1>3
    <2>2. /\ DOMAIN table'[z] = 1 .. Len(table[z]) + 1 /\ DOMAIN table[z] = 1 .. Len(table[z])
          /\ table'[z][1] = p
          /\ \A n \in 1 .. Len(table[z]) : table'[z][n + 1] = table[z][n]
      BY <2>1
    <2>3. ASSUME NEW n \in DOMAIN table'[z], table'[z][n] = t, t # p PROVE Listed(z, t)
      <3>1. n \in 1 .. Len(table[z]) + 1 /\ n # 1
        BY <2>2, <2>3
      <3>2. n - 1 \in 1 .. Len(table[z]) /\ (n - 1) + 1 = n
        BY <2>1, <3>1
      <3>3. table[z][n - 1] = t
        BY <2>2, <2>3, <3>2
      <3> QED
        BY <2>2, <3>2, <3>3 DEF Listed
    <2>4. ASSUME Listed(z, t) PROVE \E n \in DOMAIN table'[z] : table'[z][n] = t
      <3>1. PICK n \in 1 .. Len(table[z]) : table[z][n] = t
        BY <2>2, <2>4 DEF Listed
      <3>2. n + 1 \in DOMAIN table'[z] /\ table'[z][n + 1] = t
        BY <2>1, <2>2, <3>1
      <3> QED
        BY <3>2
    <2>5. 1 \in DOMAIN table'[z]
      BY <2>1, <2>2
    <2> QED
      BY <2>2, <2>3, <2>4, <2>5
  <1> QED
    BY <1>1, <1>4, <1>5 DEF Listed

\* What DedupInsert changes of the hash table and of the chunk in hand.
InsertEffect(w, p, f, z) ==
    /\ p \in Places /\ z = BucketFor(p) /\ z \in Buckets
    /\ f = Search(p) /\ bucketLock[z] = w /\ bucketLock' = [bucketLock EXCEPT ![z] = Nobody]
    /\ chunk[p].state = "uncompressed"
    /\ \A q \in Places : chunk'[q].state = chunk[q].state
    /\ \A q \in Places \ {p} : chunk'[q].ref = chunk[q].ref
    /\ \/ f = 0 /\ chunk'[p].ref = p /\ table' = Inserted(p)
       \/ f # 0 /\ chunk'[p].ref = f /\ table' = table
    /\ th'[w].pc = "run" /\ \A u \in Workers \ {w} : th'[u] = th[u]

LEMMA InsertIs ==
    ASSUME SerialInv, NEW w \in Workers, DedupInsert(w)
    PROVE  \E p, f, z : InsertEffect(w, p, f, z)
  <1>0. /\ MemInv /\ FoundInv /\ Types /\ SepInv /\ FineInv /\ InsertInv
    BY SerialParts
  <1>1. PICK p, f, z : p = Head(th[w].recv) /\ f = th[w].found /\ z = BucketFor(p)
    OBVIOUS
  <1>2. /\ w[1] = "dedup" /\ th[w].pc = "insert" /\ p \in Places
        /\ chunk' = [chunk EXCEPT ![p].ref = IF f = 0 THEN p ELSE f]
        /\ \/ f = 0 /\ Passed(w, p, "compress") /\ table' = Inserted(p)
           \/ f # 0 /\ Passed(w, p, "reorder") /\ table' = table
        /\ th'[w].pc = "run" /\ \A u \in Workers \ {w} : th'[u] = th[u]
    BY <1>0, <1>1, DedupInsertStep
  <1>3. bucketLock' = [bucketLock EXCEPT ![z] = Nobody]
    BY <1>1 DEF DedupInsert
  <1>4. f = Search(p) /\ bucketLock[z] = w
    BY <1>0, <1>1, <1>2 DEF FoundInv
  <1>5. z \in Buckets /\ chunk \in [Places -> FineType]
    BY <1>0, <1>1, <1>2, DataIs
  <1>6. chunk[p].state = "uncompressed"
    <2>1. Content(At("dedup")) = Content(At("dedup")') \cup {p}
      BY <1>2 DEF Passed
    <2> QED
      BY <1>0, <2>1 DEF FineInv
  <1>7. /\ \A q \in Places \ {p} : chunk'[q] = chunk[q]
        /\ chunk'[p].ref = (IF f = 0 THEN p ELSE f) /\ chunk'[p].state = chunk[p].state
    BY <1>2, <1>5 DEF FineType
  <1>8. InsertEffect(w, p, f, z)
    BY <1>1, <1>2, <1>3, <1>4, <1>5, <1>6, <1>7 DEF InsertEffect
  <1> QED
    BY <1>8

LEMMA ListsInsert ==
    ASSUME SerialInv, Framed, NEW w \in Workers, NEW p, NEW f, NEW z, InsertEffect(w, p, f, z)
    PROVE  ListsInv'
  <1>0. ListsInv /\ Types
    BY SerialParts
  <1>1. CASE table' = table
    BY <1>0, <1>1, ListsFrame
  <1>2. CASE f = 0 /\ table' = Inserted(p)
    <2>1. p \in Places /\ z = BucketFor(p) /\ f = Search(p)
      BY DEF InsertEffect
    <2>2. \A k \in Buckets : \A t : Listed(k, t)' <=> Listed(k, t) \/ (k = z /\ t = p)
      BY <1>0, <1>2, <2>1, ListedInserted
    <2>3. \A t : Listed(z, t) => file[t] # file[p]
      BY <1>0, <1>2, <2>1, SearchListed
    <2>4. /\ \A q : BucketFor(q)' = BucketFor(q)
          /\ file' = file
      BY DEF Framed, BucketFor
    <2>5. ASSUME NEW k \in Buckets, NEW t, Listed(k, t)' PROVE BucketFor(t)' = k
      <3>1. BucketFor(t) = k
        BY <1>0, <2>1, <2>2, <2>5 DEF ListsInv
      <3> QED
        BY <2>4, <3>1
    <2>6. ASSUME NEW k \in Buckets, NEW t, NEW u, Listed(k, t)', Listed(k, u)', file[t] = file[u] PROVE t = u
      BY <1>0, <2>2, <2>3, <2>6 DEF ListsInv
    <2> QED
      BY <2>4, <2>5, <2>6 DEF ListsInv
  <1> QED
    BY <1>1, <1>2 DEF InsertEffect

LEMMA FoundInsert ==
    ASSUME SerialInv, Framed, NEW w \in Workers, NEW p, NEW f, NEW z, InsertEffect(w, p, f, z)
    PROVE  FoundInv'
  <1>0. FoundInv /\ Types
    BY SerialParts
  <1>1. p \in Places /\ z = BucketFor(p) /\ z \in Buckets /\ f = Search(p)
    BY DEF InsertEffect
  <1>2. \A k \in Buckets : \A t : Listed(k, t) => Listed(k, t)'
    <2>1. CASE table' = table
      BY <2>1 DEF Listed
    <2>2. CASE table' = Inserted(p)
      BY <1>0, <1>1, <2>2, ListedInserted
    <2> QED
      BY <2>1, <2>2 DEF InsertEffect
  <1>3. \A k \in Buckets : k # z => table'[k] = table[k]
    <2>1. CASE table' = Inserted(p)
      BY <1>0, <1>1, <2>1, ListedInserted
    <2> QED
      BY <2>1 DEF InsertEffect
  <1>4. Places' = Places /\ file' = file /\ (\A q : BucketFor(q)' = BucketFor(q))
    BY DEF Framed, Places, BucketFor
  <1>5. ASSUME NEW q \in Places
        PROVE  (chunk[q].ref # 0 => Listed(BucketFor(q), chunk[q].ref) /\ file[chunk[q].ref] = file[q])'
    <2> SUFFICES ASSUME chunk'[q].ref # 0
                 PROVE  (Listed(BucketFor(q), chunk[q].ref) /\ file[chunk[q].ref] = file[q])'
      OBVIOUS
    <2>1. PICK r : r = chunk'[q].ref
      OBVIOUS
    <2>2. PICK k : k = BucketFor(q)
      OBVIOUS
    <2>3. k \in Buckets
      BY <1>0, <2>2, DataIs
    <2>4. file[r] = file[q] /\ Listed(k, r)'
      <3>1. CASE q # p
        <4>1. Listed(k, r) /\ file[r] = file[q]
          BY <1>0, <2>1, <2>2, <3>1 DEF FoundInv, InsertEffect
        <4> QED
          BY <1>2, <2>3, <4>1
      <3>2. CASE q = p /\ f # 0
        <4>1. r = f /\ k = z
          BY <1>1, <2>1, <2>2, <3>2 DEF InsertEffect
        <4>2. Listed(z, f) /\ file[f] = file[p]
          BY <1>0, <1>1, <3>2, SearchListed
        <4> QED
          BY <1>1, <1>2, <3>2, <4>1, <4>2
      <3>3. CASE q = p /\ f = 0
        <4>1. r = p /\ k = z /\ table' = Inserted(p)
          BY <1>1, <2>1, <2>2, <3>3 DEF InsertEffect
        <4>2. Listed(k, r)'
          BY <1>0, <1>1, <4>1, ListedInserted
        <4> QED
          BY <3>3, <4>1, <4>2
      <3> QED
        BY <3>1, <3>2, <3>3
    <2>5. BucketFor(q)' = k
      BY <1>4, <2>2
    <2> QED
      BY <1>4, <2>1, <2>4, <2>5 DEF Listed
  <1>6. ASSUME NEW u \in Workers, th'[u].pc = "insert"
        PROVE  (/\ bucketLock[BucketFor(Head(th[u].recv))] = u
                /\ th[u].found = Search(Head(th[u].recv)))'
    <2>1. u # w /\ th'[u] = th[u]
      BY <1>6 DEF InsertEffect
    <2>2. PICK h : h = Head(th[u].recv)
      OBVIOUS
    <2>3. PICK k : k = BucketFor(h)
      OBVIOUS
    <2>4. bucketLock[k] = u /\ th[u].found = Search(h)
      BY <1>0, <1>6, <2>1, <2>2, <2>3 DEF FoundInv
    <2>5. k # z /\ bucketLock'[k] = u
      BY <2>1, <2>4 DEF InsertEffect
    <2>6. k \in Buckets
      <3>1. InsertInv /\ th[u].pc = "insert"
        BY <1>6, <2>1, SerialParts
      <3>2. u[1] = "dedup" /\ th[u].recv # <<>>
        BY <3>1 DEF InsertInv
      <3>3. h \in Elem(u[1])
        BY <1>0, <2>2, <3>2, HeadIn
      <3>4. h \in Places
        BY <3>2, <3>3 DEF Elem
      <3> QED
        BY <1>0, <2>3, <3>4, DataIs
    <2>7. table'[k] = table[k] /\ BucketFor(h)' = k
      BY <1>3, <1>4, <2>3, <2>5, <2>6
    <2>8. Search(h)' = Search(h)
      BY <1>4, <2>3, <2>7 DEF Search
    <2>9. h = Head(th'[u].recv)
      BY <2>1, <2>2
    <2> QED
      BY <2>1, <2>4, <2>5, <2>7, <2>8, <2>9
  <1> QED
    BY <1>4, <1>5, <1>6 DEF FoundInv

LEMMA CacheInsert ==
    ASSUME SerialInv, Framed, out' = out, NEW w \in Workers, NEW p, NEW f, NEW z, InsertEffect(w, p, f, z)
    PROVE  CacheInv'
  <1>0. CacheInv /\ ListsInv /\ Types
    BY SerialParts
  <1>1. p \in Places /\ z = BucketFor(p) /\ z \in Buckets /\ f = Search(p)
        /\ \A q \in Places : chunk'[q].state = chunk[q].state
    BY DEF InsertEffect
  <1>2. CASE table' = table
    BY <1>0, <1>1, <1>2, CacheFrame
  <1>3. CASE f = 0 /\ table' = Inserted(p)
    <2>1. \A k \in Buckets : \A t : Listed(k, t)' <=> Listed(k, t) \/ (k = z /\ t = p)
      BY <1>0, <1>1, <1>3, ListedInserted
    <2>2. \A t : Listed(z, t) => file[t] # file[p]
      BY <1>0, <1>1, <1>3, SearchListed
    <2>3. file' = file /\ Cache' = Cache
      BY DEF Framed, Cache
    <2>4. file[p] \notin Cache
      <3>1. SUFFICES ASSUME NEW k \in Buckets, NEW t, Listed(k, t), file[t] = file[p] PROVE FALSE
        BY <1>0 DEF CacheInv
      <3>2. BucketFor(t) = k /\ BucketFor(t) = z
        BY <1>0, <1>1, <3>1 DEF ListsInv, BucketFor
      <3> QED
        BY <2>2, <3>1, <3>2
    <2>5. chunk'[p].state # "flushed"
      BY <1>1 DEF InsertEffect
    <2>6. ASSUME NEW k \in Buckets, NEW t, Listed(k, t)'
          PROVE  chunk'[t].state = "flushed" <=> file[t] \in Cache
      <3>1. CASE Listed(k, t)
        <4>1. t \in Places
          BY <1>0, <3>1, ListedPlace
        <4> QED
          BY <1>0, <1>1, <3>1, <4>1 DEF CacheInv
      <3>2. CASE t = p
        BY <2>4, <2>5, <3>2
      <3> QED
        BY <2>1, <2>6, <3>1, <3>2
    <2>7. \A c \in Cache : \E k \in Buckets : \E t : Listed(k, t)' /\ file[t] = c
      BY <1>0, <2>1 DEF CacheInv
    <2> QED
      BY <2>3, <2>6, <2>7 DEF CacheInv
  <1> QED
    BY <1>2, <1>3 DEF InsertEffect

LEMMA SerialDedupInsert == ASSUME SerialInv, NEW w \in Workers, DedupInsert(w) PROVE SerialInv'
  <1>0. MemInv /\ AnchorsInv /\ TurnInv /\ Types
    BY SerialParts
  <1>1. MemInv'
    BY <1>0, MemDedupInsert
  <1>2. Framed /\ ro' = ro /\ perAnchor' = perAnchor /\ out' = out
    BY DEF DedupInsert, Framed
  <1>3. AnchorsInv' /\ TurnInv'
    BY <1>0, <1>2, AnchorsFrame, TurnFrame
  <1>4. PICK p, f, z : InsertEffect(w, p, f, z)
    BY InsertIs
  <1>5. ListsInv' /\ FoundInv' /\ CacheInv'
    BY <1>2, <1>4, ListsInsert, FoundInsert, CacheInsert
  <1> QED
    BY <1>1, <1>3, <1>5 DEF SerialInv

\* What ReorderWrite writes: chunk k, whose data are those of chunk o.
RecordOf(c) == [type |-> IF c \in Cache THEN "fingerprint" ELSE "compress", of |-> c]
WriteEffect(k, o, c) ==
    /\ k \in Places /\ k = ro.cur /\ k = Len(out) + 1 /\ ro.next = Number(k)
    /\ o \in Places /\ Listed(BucketFor(k), o) /\ c = file[k] /\ file[o] = c /\ c \in DOMAIN BucketOf
    /\ out' = Append(out, RecordOf(c)) /\ out \in Seq(Records) /\ Cache' = Cache \cup {c}
    /\ chunk'[o].state = "flushed"
    /\ \A q \in Places : chunk'[q].ref = chunk[q].ref
    /\ \A q \in Places \ {o} : chunk'[q].state = chunk[q].state

LEMMA WrittenCache ==
    ASSUME NEW c \in DOMAIN BucketOf, out \in Seq(Records), out' = Append(out, RecordOf(c))
    PROVE  Cache' = Cache \cup {c}
  <1>1. /\ Len(out) \in Nat /\ DOMAIN out = 1 .. Len(out) /\ DOMAIN out' = 1 .. Len(out) + 1
        /\ out'[Len(out) + 1] = RecordOf(c) /\ \A n \in 1 .. Len(out) : out'[n] = out[n]
    <2>1. RecordOf(c) \in Records
      BY DEF RecordOf, Records
    <2> QED
      BY <2>1
  <1>2. RecordOf(c).of = c /\ (RecordOf(c).type = "compress" <=> c \notin Cache)
    BY DEF RecordOf
  <1>3. \A n \in DOMAIN out' : n \in DOMAIN out \/ n = Len(out) + 1
    BY <1>1
  <1>4. \A e : e \in Cache' <=> \E n \in DOMAIN out' : out'[n].type = "compress" /\ out'[n].of = e
    BY DEF Cache
  <1>5. \A e : e \in Cache <=> \E n \in DOMAIN out : out[n].type = "compress" /\ out[n].of = e
    BY DEF Cache
  <1>6. DOMAIN out \subseteq DOMAIN out' /\ Len(out) + 1 \in DOMAIN out'
    BY <1>1
  <1>7. ASSUME NEW e \in Cache' PROVE e \in Cache \cup {c}
    <2>1. PICK n \in DOMAIN out' : out'[n].type = "compress" /\ out'[n].of = e
      BY <1>4, <1>7
    <2>2. CASE n \in DOMAIN out
      BY <1>1, <1>5, <2>1, <2>2
    <2>3. CASE n = Len(out) + 1
      BY <1>1, <1>2, <2>1, <2>3
    <2> QED
      BY <1>3, <2>2, <2>3
  <1>8. ASSUME NEW e \in Cache PROVE e \in Cache'
    <2>1. PICK n \in DOMAIN out : out[n].type = "compress" /\ out[n].of = e
      BY <1>5, <1>8
    <2>2. n \in DOMAIN out' /\ out'[n] = out[n]
      BY <1>1, <1>6
    <2> QED
      BY <1>4, <2>1, <2>2
  <1>9. c \in Cache'
    <2>1. CASE c \in Cache
      BY <1>8, <2>1
    <2>2. CASE c \notin Cache
      BY <1>1, <1>2, <1>4, <1>6, <2>2
    <2> QED
      BY <2>1, <2>2
  <1> QED
    BY <1>7, <1>8, <1>9

LEMMA WriteIs ==
    ASSUME SerialInv, ReorderWrite
    PROVE  \E k, o, c : WriteEffect(k, o, c)
  <1>0. MemInv /\ ListsInv /\ FoundInv /\ CacheInv /\ TurnInv /\ Types /\ FineInv /\ ChunkInv
    BY SerialParts
  <1>1. PICK k, o, c : k = ro.cur /\ o = chunk[k].ref /\ c = file[k]
    OBVIOUS
  <1>2. /\ k \in Places /\ o \in Places /\ chunk[o].state # "uncompressed"
        /\ chunk' = [chunk EXCEPT ![o].state = "flushed"]
    BY <1>0, <1>1, ReorderWriteStep
  <1>3. k # 0 /\ o # 0 /\ chunk \in [Places -> FineType] /\ BucketFor(k) \in Buckets
        /\ c \in DOMAIN BucketOf
    BY <1>0, <1>1, <1>2, DataIs, FileFacts DEF Types
  <1>4. k = Len(out) + 1 /\ ro.next = Number(k) /\ out \in Seq(Records)
    BY <1>0, <1>1, <1>3 DEF TurnInv
  <1>5. Listed(BucketFor(k), o) /\ file[o] = c
    BY <1>0, <1>1, <1>2, <1>3 DEF FoundInv
  <1>6. chunk[o].state \in {"compressed", "flushed"}
    <2>1. chunk[o].ref = o
      BY <1>0, <1>1, <1>2, <1>3 DEF ChunkInv
    <2>2. chunk[o].state # "none"
      BY <1>0, <1>2, <1>3, <2>1 DEF ChunkInv
    <2> QED
      BY <1>0, <1>2, <2>2, DataIs
  <1>7. chunk[o].state = "flushed" <=> c \in Cache
    BY <1>0, <1>3, <1>5 DEF CacheInv
  <1>8. Written(o) = RecordOf(c)
    BY <1>5, <1>6, <1>7 DEF Written, RecordOf
  <1>9. out' = Append(out, RecordOf(c))
    BY <1>1, <1>8 DEF ReorderWrite
  <1>10. Cache' = Cache \cup {c}
    BY <1>3, <1>4, <1>9, WrittenCache
  <1>11. /\ \A q \in Places \ {o} : chunk'[q] = chunk[q]
         /\ chunk'[o].state = "flushed" /\ chunk'[o].ref = chunk[o].ref
    BY <1>2, <1>3 DEF FineType
  <1>12. WriteEffect(k, o, c)
    BY <1>1, <1>2, <1>3, <1>4, <1>5, <1>9, <1>10, <1>11 DEF WriteEffect
  <1> QED
    BY <1>12

LEMMA CacheWrite ==
    ASSUME SerialInv, Framed, table' = table, NEW k, NEW o, NEW c, WriteEffect(k, o, c)
    PROVE  CacheInv'
  <1>0. CacheInv /\ ListsInv /\ Types
    BY SerialParts
  <1>1. /\ k \in Places /\ o \in Places /\ Listed(BucketFor(k), o) /\ c = file[k] /\ file[o] = c
        /\ Cache' = Cache \cup {c} /\ chunk'[o].state = "flushed"
        /\ \A q \in Places \ {o} : chunk'[q].state = chunk[q].state
    BY DEF WriteEffect
  <1>2. BucketFor(k) \in Buckets
    BY <1>0, <1>1, DataIs
  <1>3. (\A b, t : Listed(b, t)' <=> Listed(b, t)) /\ file' = file
    BY DEF Listed, Framed
  <1>4. ASSUME NEW b \in Buckets, NEW t, Listed(b, t)
        PROVE  chunk'[t].state = "flushed" <=> file[t] \in Cache \cup {c}
    <2>1. t \in Places /\ (chunk[t].state = "flushed" <=> file[t] \in Cache)
      BY <1>0, <1>4, ListedPlace DEF CacheInv
    <2>2. t # o => file[t] # c
      <3>1. SUFFICES ASSUME file[t] = c PROVE t = o
        OBVIOUS
      <3>2. BucketFor(t) = b /\ BucketFor(t) = BucketFor(k)
        BY <1>0, <1>1, <1>4, <3>1 DEF ListsInv, BucketFor
      <3> QED
        BY <1>0, <1>1, <1>2, <1>4, <3>1, <3>2 DEF ListsInv
    <2> QED
      BY <1>1, <2>1, <2>2
  <1>5. \A e \in Cache \cup {c} : \E b \in Buckets : \E t : Listed(b, t) /\ file[t] = e
    BY <1>0, <1>1, <1>2 DEF CacheInv
  <1> QED
    BY <1>1, <1>3, <1>4, <1>5 DEF CacheInv

LEMMA FollowingPlace ==
    ASSUME SerialInv, NEW k \in Places, ro.next = Number(k), NEW p \in Places, Number(p) = Following(ro.next)
    PROVE  p = k + 1
  <1>0. AnchorsInv /\ Types
    BY SerialParts
  <1>1. /\ Places = 1 .. Len(file) /\ Len(file) \in Nat \ {0}
        /\ k \in Nat \ {0} /\ p \in Nat \ {0} /\ k <= Len(file) /\ p <= Len(file)
    BY <1>0, DataIs
  <1>2. Number(k) \in Nat \X Nat /\ Number(k) = <<Number(k)[1], Number(k)[2]>>
    BY <1>1, NumberType
  <1>3. CASE Number(k)[1] \in DOMAIN perAnchor /\ perAnchor[Number(k)[1]] = Number(k)[2] + 1
    <2>1. PICK a, m : a = Number(k)[1] /\ m = Number(k)[2]
      OBVIOUS
    <2>2. m \in Nat /\ a \in DOMAIN perAnchor /\ perAnchor[a] = m + 1
      BY <1>2, <1>3, <2>1
    <2>3. perAnchor[a] # 0 /\ perAnchor[a] - 1 = m
      BY <2>2
    <2>4. PICK q \in Places : IsLast(q) /\ Number(q) = <<a, m>>
      BY <1>0, <2>2, <2>3 DEF AnchorsInv
    <2>5. q = k
      <3>1. Number(q) = Number(k) /\ q \in Nat \ {0}
        BY <1>0, <1>2, <2>1, <2>4, DataIs
      <3> QED
        BY <1>1, <3>1, NumberOnce
    <2>6. k \in Cuts \cup {Len(file)}
      BY <2>4, <2>5 DEF IsLast
    <2>7. Number(p) = <<Number(k)[1] + 1, 0>>
      BY <1>3 DEF Following
    <2> QED
      BY <1>1, <2>6, <2>7, NumberFollows
  <1>4. CASE ~(Number(k)[1] \in DOMAIN perAnchor /\ perAnchor[Number(k)[1]] = Number(k)[2] + 1)
    <2>1. Number(p) = <<Number(k)[1], Number(k)[2] + 1>>
      BY <1>4 DEF Following
    <2> QED
      BY <1>1, <2>1, NumberFollows
  <1> QED
    BY <1>3, <1>4

LEMMA TurnWrite ==
    ASSUME SerialInv, ReorderWrite, NEW k, NEW o, NEW c, WriteEffect(k, o, c)
    PROVE  TurnInv'
  <1>0. TurnInv /\ Types /\ FineInv /\ ChunkInv
    BY SerialParts
  <1>1. /\ k \in Places /\ k = Len(out) + 1 /\ ro.next = Number(k)
        /\ c \in DOMAIN BucketOf /\ out' = Append(out, RecordOf(c)) /\ out \in Seq(Records)
    BY DEF WriteEffect
  <1>2. /\ ro'.next = Following(ro.next)
        /\ ro'.cur # 0 => ro'.cur \in ro.cached /\ chunk[ro'.cur].seq = ro'.next
    BY <1>0, ReorderWriteStep
  <1>3. file' = file /\ Places' = Places
    BY DEF ReorderWrite, Places
  <1>4. out' \in Seq(Records) /\ Len(out') = k /\ k <= Len(file)
    <2>1. RecordOf(c) \in Records
      BY <1>1 DEF RecordOf, Records
    <2> QED
      BY <1>0, <1>1, <2>1, DataIs
  <1>5. \A p \in Places : Number(p) = ro'.next => p = k + 1
    BY <1>1, <1>2, FollowingPlace
  <1>6. ro'.cur # 0 => ro'.cur \in Places /\ Number(ro'.cur) = ro'.next
    BY <1>0, <1>2, CutNumbered DEF ReorderHas
  <1>7. Records' = Records
    BY DEF Records
  <1> QED
    BY <1>3, <1>4, <1>5, <1>6, <1>7 DEF TurnInv, Number, Below, Since

LEMMA SerialReorderWrite == ASSUME SerialInv, ReorderWrite PROVE SerialInv'
  <1>0. MemInv /\ AnchorsInv /\ ListsInv /\ FoundInv /\ Types
    BY SerialParts
  <1>1. MemInv'
    BY <1>0, MemReorderWrite
  <1>2. /\ Framed /\ ThQuiet /\ perAnchor' = perAnchor /\ table' = table /\ bucketLock' = bucketLock
    BY DEF ReorderWrite, Framed, ThQuiet
  <1>3. PICK k, o, c : WriteEffect(k, o, c)
    BY WriteIs
  <1>4. AnchorsInv' /\ ListsInv'
    BY <1>0, <1>2, AnchorsFrame, ListsFrame
  <1>5. FoundInv'
    <2>1. \A q \in Places : chunk'[q].ref = chunk[q].ref
      BY <1>3 DEF WriteEffect
    <2> QED
      BY <1>0, <1>2, <2>1, FoundFrame
  <1>6. CacheInv' /\ TurnInv'
    BY <1>2, <1>3, CacheWrite, TurnWrite
  <1> QED
    BY <1>1, <1>4, <1>5, <1>6 DEF SerialInv

LEMMA InitSerial == ASSUME Init PROVE SerialInv
  <1>1. MemInv /\ Types
    BY InitMem DEF MemInv
  <1>2. /\ out = <<>> /\ ro.next = <<0, 0>> /\ ro.cur = 0
        /\ \A k \in Buckets : table[k] = <<>>
        /\ \A w \in Workers : th[w].pc = "run"
        /\ \A p \in Places : chunk[p].ref = 0
        /\ \A a \in DOMAIN perAnchor : perAnchor[a] = 0
    BY DEF Init
  <1>3. (\A k \in Buckets : \A t : ~Listed(k, t)) /\ Cache = {}
    BY <1>2 DEF Listed, Cache
  <1>4. AnchorsInv /\ ListsInv /\ FoundInv /\ CacheInv
    BY <1>2, <1>3 DEF AnchorsInv, ListsInv, FoundInv, CacheInv
  <1>5. TurnInv
    <2>1. Len(out) = 0 /\ out \in Seq(Records) /\ Len(file) \in Nat
      BY <1>1, <1>2, DataIs
    <2>2. ASSUME NEW p \in Places, Number(p) = <<0, 0>> PROVE p = 1
      <3>1. p \in Nat \ {0} /\ 1 \in Nat \ {0} /\ Number(p) = Number(1)
        BY <1>1, <2>2, DataIs, NumberFirst
      <3> QED
        BY ONLY <3>1, NumberOnce
    <2> QED
      BY <1>2, <2>1, <2>2 DEF TurnInv
  <1> QED
    BY <1>1, <1>4, <1>5 DEF SerialInv

LEMMA SerialStutter == ASSUME SerialInv, UNCHANGED vars PROVE SerialInv'
  <1>1. MemInv'
    BY SerialParts, MemStutter
  <1>2. /\ Framed /\ ThQuiet /\ table' = table /\ chunk' = chunk /\ bucketLock' = bucketLock
        /\ perAnchor' = perAnchor /\ out' = out /\ ro' = ro
    BY DEF vars, Framed, ThQuiet
  <1> QED
    BY <1>1, <1>2, SerialSame

LEMMA SerialNext == ASSUME SerialInv, [Next]_vars PROVE SerialInv'
  <1>1. CASE FragmentRead \/ FragmentSplit \/ FragmentSend \/ FragmentStop
    BY <1>1, SerialFragment
  <1>2. ASSUME NEW w \in Workers, Fetch(w) \/ Shutdown(w) \/ \E s \in Stages : Send(w, s)
        PROVE  SerialInv'
    BY <1>2, SerialFetch
  <1>3. ASSUME NEW w \in Workers, RefineChunk(w) \/ DedupSearch(w) \/ DedupInsert(w) \/ CompressChunk(w)
        PROVE  SerialInv'
    BY <1>3, SerialRefine, SerialDedupSearch, SerialDedupInsert, SerialCompress
  <1>4. CASE ReorderFetch \/ ReorderTake \/ ReorderWrite \/ ReorderFlush
    BY <1>4, SerialReorderFetch, SerialReorderTake, SerialReorderWrite, SerialReorderFlush
  <1>5. CASE UNCHANGED vars
    BY <1>5, SerialStutter
  <1> QED
    BY <1>1, <1>2, <1>3, <1>4, <1>5 DEF Next

\* The invariant of the output: what the hash table, chunks_per_anchor and the
\* chunks have to do with the records written.
THEOREM SerialAlways == Spec => []SerialInv
  BY InitSerial, SerialNext, PTL DEF Spec

-----------------------------------------------------------------------------
(* The refinement.                                                         *)

LEMMA WriteRefines == ASSUME SerialInv, ReorderWrite PROVE Serial!NextChunk
  <1>1. PICK k, o, c : WriteEffect(k, o, c)
    BY WriteIs
  <1>2. /\ k \in Places /\ k = Len(out) + 1 /\ c = file[k] /\ out' = Append(out, RecordOf(c))
        /\ Cache' = Cache \cup {c}
    BY <1>1 DEF WriteEffect
  <1>3. k <= Len(file) /\ Len(out) \in Nat /\ Len(file) \in Nat
    BY <1>2, SerialParts, DataIs DEF TurnInv
  <1>4. Len(out) < Len(file)
    BY <1>2, <1>3
  <1>5. RecordOf(c) = IF c \in Cache THEN Serial!Fingerprint(c) ELSE Serial!Data(c)
    BY DEF RecordOf, Serial!Fingerprint, Serial!Data
  <1>6. file' = file
    BY DEF ReorderWrite
  <1> QED
    BY <1>2, <1>4, <1>5, <1>6 DEF Serial!NextChunk, Cache

LEMMA OthersStutter ==
    ASSUME [Next]_vars, ~ReorderWrite
    PROVE  file' = file /\ out' = out
  <1>1. ASSUME NEW w \in Workers, Fetch(w) \/ Shutdown(w) \/ \E s \in Stages : Send(w, s)
        PROVE  file' = file /\ out' = out
    BY <1>1 DEF Fetch, Shutdown, Send, Unchanged_Data
  <1>2. ASSUME NEW w \in Workers, RefineChunk(w) \/ DedupSearch(w) \/ DedupInsert(w) \/ CompressChunk(w)
        PROVE  file' = file /\ out' = out
    BY <1>2 DEF RefineChunk, DedupSearch, DedupInsert, CompressChunk
  <1>3. CASE FragmentRead \/ FragmentSplit \/ FragmentSend \/ FragmentStop
    BY <1>3 DEF FragmentRead, FragmentSplit, FragmentSend, FragmentStop
  <1>4. CASE ReorderFetch \/ ReorderTake \/ ReorderFlush
    BY <1>4 DEF ReorderFetch, ReorderTake, ReorderFlush
  <1>5. CASE UNCHANGED vars
    BY <1>5 DEF vars
  <1> QED
    BY <1>1, <1>2, <1>3, <1>4, <1>5 DEF Next

LEMMA StepRefines == ASSUME SerialInv, [Next]_vars PROVE [Serial!NextChunk]_Serial!vars
  <1>1. CASE ReorderWrite
    BY <1>1, WriteRefines
  <1>2. CASE ~ReorderWrite
    <2>1. file' = file /\ out' = out
      BY <1>2, OthersStutter
    <2> QED
      BY <2>1 DEF Serial!vars
  <1> QED
    BY <1>1, <1>2

LEMMA InitRefines == ASSUME Init PROVE Serial!Init
  <1>1. file \in Files /\ out = <<>>
    BY DEF Init
  <1> QED
    BY <1>1 DEF Serial!Init

\* encoder.c: whatever the threads do, the records of the file are those that the
\* serial build writes for the same input, one after another.
THEOREM SerialImplemented == Spec => ImplementsSerial
  BY InitRefines, StepRefines, SerialAlways, PTL DEF Spec, ImplementsSerial, Serial!Spec

-----------------------------------------------------------------------------
(* What is written decodes to the input.                                   *)

\* Each record is of the chunk at its place, and a fingerprint comes after the
\* data it stands for.
OutInv ==
    \A n \in DOMAIN out :
        /\ out[n].of = file[n]
        /\ out[n].type = "fingerprint" => \E m \in 1 .. n - 1 : out[m].type = "compress" /\ out[m].of = out[n].of

LEMMA OutWrite == ASSUME SerialInv, OutInv, ReorderWrite PROVE OutInv'
  <1>1. PICK k, o, c : WriteEffect(k, o, c)
    BY WriteIs
  <1>2. /\ k \in Places /\ k = Len(out) + 1 /\ c = file[k] /\ out' = Append(out, RecordOf(c))
        /\ out \in Seq(Records) /\ c \in DOMAIN BucketOf
    BY <1>1 DEF WriteEffect
  <1>3. RecordOf(c) \in Records /\ RecordOf(c).of = c /\ (RecordOf(c).type = "fingerprint" => c \in Cache)
    BY <1>2 DEF RecordOf, Records
  <1>4. /\ Len(out) \in Nat /\ DOMAIN out = 1 .. Len(out) /\ DOMAIN out' = 1 .. k
        /\ out'[k] = RecordOf(c) /\ \A n \in 1 .. Len(out) : out'[n] = out[n]
    BY <1>2, <1>3
  <1>5. file' = file
    BY DEF ReorderWrite
  <1>6. ASSUME NEW n \in 1 .. Len(out)
        PROVE  /\ out'[n].of = file[n]
               /\ out'[n].type = "fingerprint" =>
                    \E m \in 1 .. n - 1 : out'[m].type = "compress" /\ out'[m].of = out'[n].of
    <2>1. \A m \in 1 .. n - 1 : m \in 1 .. Len(out)
      BY <1>4
    <2> QED
      BY <1>4, <2>1 DEF OutInv
  <1>7. c \in Cache => \E m \in 1 .. k - 1 : out'[m].type = "compress" /\ out'[m].of = c
    <2>1. SUFFICES ASSUME c \in Cache
                   PROVE  \E m \in 1 .. k - 1 : out'[m].type = "compress" /\ out'[m].of = c
      OBVIOUS
    <2>2. PICK m \in DOMAIN out : out[m].type = "compress" /\ out[m].of = c
      BY <2>1 DEF Cache
    <2>3. m \in 1 .. k - 1 /\ out'[m] = out[m]
      BY <1>2, <1>4, <2>2
    <2> QED
      BY <2>2, <2>3
  <1>8. \A n \in DOMAIN out' : n \in 1 .. Len(out) \/ n = k
    BY <1>2, <1>4
  <1> QED
    BY <1>2, <1>3, <1>4, <1>5, <1>6, <1>7, <1>8 DEF OutInv

LEMMA OutDecodes == ASSUME SerialInv, OutInv PROVE Serial!OutputDecodes
  <1>1. out \in Seq(Records) /\ Len(out) \in Nat /\ DOMAIN out = 1 .. Len(out) /\ Len(out) <= Len(file)
        /\ file \in Seq(DOMAIN BucketOf) /\ Len(file) \in Nat /\ DOMAIN file = 1 .. Len(file)
    <2>1. file \in Seq(DOMAIN BucketOf)
      BY SerialParts, InputsAssumption DEF Types, InputType
    <2>2. out \in Seq(Records) /\ Len(out) <= Len(file)
      BY SerialParts DEF TurnInv
    <2> QED
      BY <2>1, <2>2
  <1>2. ~Serial!DecodeError(out)
    <2>1. SUFFICES ASSUME NEW n \in DOMAIN out, out[n].type = "fingerprint",
                          out[n].of \notin Serial!DecodedCache(out, n - 1)
                   PROVE  FALSE
      BY DEF Serial!DecodeError
    <2>2. PICK m \in 1 .. n - 1 : out[m].type = "compress" /\ out[m].of = out[n].of
      BY <2>1 DEF OutInv
    <2> QED
      BY <2>1, <2>2 DEF Serial!DecodedCache
  <1>3. Serial!Decode(out) = SubSeq(file, 1, Len(out))
    <2>1. /\ \A n \in 1 .. Len(out) : SubSeq(file, 1, Len(out))[n] = file[n]
          /\ SubSeq(file, 1, Len(out)) \in Seq(DOMAIN BucketOf) /\ Len(SubSeq(file, 1, Len(out))) = Len(out)
      BY <1>1
    <2>2. SubSeq(file, 1, Len(out)) = [n \in 1 .. Len(out) |-> file[n]]
      BY <1>1, <2>1
    <2>3. Serial!Decode(out) = [n \in 1 .. Len(out) |-> out[n].of]
      BY <1>1 DEF Serial!Decode
    <2>4. \A n \in 1 .. Len(out) : out[n].of = file[n]
      BY <1>1 DEF OutInv
    <2> QED
      BY <2>2, <2>3, <2>4
  <1> QED
    BY <1>2, <1>3 DEF Serial!OutputDecodes

\* decoder.c: at every moment the file decodes, without an error, to the beginning
\* of the input: no fingerprint comes before the data it stands for.
THEOREM AlwaysDecodes == Spec => []Serial!OutputDecodes
  <1>1. Init => OutInv
    BY DEF Init, OutInv
  <1>2. ASSUME SerialInv, OutInv, [Next]_vars PROVE OutInv'
    <2>1. CASE ReorderWrite
      BY <1>2, <2>1, OutWrite
    <2>2. CASE ~ReorderWrite
      <3>1. file' = file /\ out' = out
        BY <1>2, <2>2, OthersStutter
      <3> QED
        BY <1>2, <3>1 DEF OutInv
    <2> QED
      BY <2>1, <2>2
  <1> QED
    BY <1>1, <1>2, SerialAlways, OutDecodes, PTL DEF Spec
=============================================================================
