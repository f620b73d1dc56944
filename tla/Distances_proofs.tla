-------------------------- MODULE Distances_proofs --------------------------
(***************************************************************************)
(* The breadth-first search of the context engine, for every graph of      *)
(* imports: the queue of get_distances against the balls around a target.  *)
(* What is shown of the builds at the end is shown for any number of       *)
(* engines.                                                                *)
(***************************************************************************)
EXTENDS Firewall_proofs, SequenceTheorems

Size == Cardinality(Paths)

Graphs == [Paths -> SUBSET Paths]

LEMMA PathsAreFinite == IsFiniteSet(Paths) /\ Size \in Nat
<1>1. IsFiniteSet(1..Len(Order))
  BY OrderAssumption, FS_Interval
<1>2. [k \in 1..Len(Order) |-> Order[k]] \in Surjection(1..Len(Order), Paths)
  BY OrderAssumption DEF Surjection, Paths
<1>3. IsFiniteSet(Paths)
  BY <1>1, <1>2, FS_Surjection DEF ExistsSurjection
<1> QED
  BY <1>3, FS_CardinalityType DEF Size

\* An enumeration of a finite set has each of its members.
LEMMA Enumeration ==
  ASSUME NEW S, IsFiniteSet(S)
  PROVE  /\ Listed(S) \in Seq(S) /\ Len(Listed(S)) = Cardinality(S)
         /\ \A m \in S : \E k \in 1..Len(Listed(S)) : Listed(S)[k] = m
<1> DEFINE Lists(q) == q \in [1..Cardinality(S) -> S] /\ \A m \in S : \E k \in DOMAIN q : q[k] = m
<1>1. Cardinality(S) \in Nat /\ ExistsBijection(1..Cardinality(S), S)
  BY FS_CardinalityType
<1>2. PICK f : f \in Bijection(1..Cardinality(S), S)
  BY <1>1 DEF ExistsBijection
<1>3. Lists(f)
  BY <1>2 DEF Bijection, Injection, Surjection
<1>4. Lists(Listed(S))
  <2>1. Listed(S) = CHOOSE q : Lists(q)
    BY Zenon DEF Listed
  <2> HIDE DEF Lists
  <2> QED
    BY <1>3, <2>1, Zenon
<1> QED
  BY <1>1, <1>4

-----------------------------------------------------------------------------
(* The balls around a target *)

IsBall(graph, target, ball) ==
    /\ ball \in [0..Size -> SUBSET Paths]
    /\ ball[0] = {target}
    /\ \A k \in 1..Size : ball[k] = ball[k - 1] \cup UNION {graph[m] : m \in ball[k - 1]}

LEMMA WithinIsBall ==
  ASSUME NEW graph \in Graphs, NEW target \in Paths
  PROVE  IsBall(graph, target, Within(graph, target))
<1> DEFINE Wider(near) == near \cup UNION {graph[m] : m \in near}
           P(g) == g = [k \in 0..Cardinality(Paths) |->
                           IF k = 0 THEN {target}
                           ELSE LET nearer == g[k - 1]
                                IN nearer \cup UNION {graph[m] : m \in nearer}]
<1>1. [near \in SUBSET Paths |-> Wider(near)] \in [SUBSET Paths -> SUBSET Paths]
  BY DEF Graphs
<1>2. PICK f : /\ f \in [0..Size -> SUBSET Paths] /\ f[0] = {target}
               /\ \A k \in 1..Size : f[k] = Wider(f[k - 1])
  <2>1. PICK step : step = [near \in SUBSET Paths |-> Wider(near)]
    OBVIOUS
  <2>2. step \in [SUBSET Paths -> SUBSET Paths] /\ {target} \in SUBSET Paths /\ Size \in Nat
    BY <1>1, <2>1, PathsAreFinite
  <2>a. PICK S, c, N : S = SUBSET Paths /\ c = {target} /\ N = Size
    OBVIOUS
  <2>b. step \in [S -> S] /\ c \in S /\ N \in Nat
    BY <2>2, <2>a
  <2>c. \E f \in [0..N -> S] : f[0] = c /\ \A k \in 1..N : f[k] = step[f[k - 1]]
    BY <2>b, Iterates
  <2>3. PICK f : /\ f \in [0..Size -> SUBSET Paths] /\ f[0] = {target}
                 /\ \A k \in 1..Size : f[k] = step[f[k - 1]]
    BY <2>a, <2>c
  <2>4. ASSUME NEW k \in 1..Size PROVE f[k] = Wider(f[k - 1])
    <3>1. k - 1 \in 0..Size
      BY <2>2
    <3>2. f[k - 1] \in SUBSET Paths
      BY <2>3, <3>1
    <3>3. step[f[k - 1]] = Wider(f[k - 1])
      BY <2>1, <3>2
    <3> QED
      BY <2>3, <3>3
  <2> QED
    BY <2>3, <2>4
<1>3. Size \in Nat
  BY PathsAreFinite
<1>4. P(f)
  BY <1>2, <1>3 DEF Size
<1>5. Within(graph, target) = CHOOSE g : P(g)
  BY Zenon DEF Within
<1>6. P(Within(graph, target))
  <2> HIDE DEF P
  <2> QED
    BY <1>4, <1>5, Zenon
<1> HIDE DEF Wider
<1>7. PICK ball : ball = Within(graph, target)
  OBVIOUS
<1>8. /\ ball = [k \in 0..Size |-> ball[k]] /\ ball[0] = {target}
      /\ \A k \in 1..Size : ball[k] = Wider(ball[k - 1])
  <2>1. ball = [k \in 0..Size |-> IF k = 0 THEN {target} ELSE Wider(ball[k - 1])]
    BY <1>6, <1>7 DEF Size, Wider
  <2>2. ball = [k \in 0..Size |-> ball[k]]
    BY <2>1
  <2>3. \A k \in 0..Size : ball[k] = IF k = 0 THEN {target} ELSE Wider(ball[k - 1])
    BY <2>1
  <2>4. 0 \in 0..Size /\ \A k \in 1..Size : k \in 0..Size /\ k # 0
    BY <1>3
  <2> QED
    BY <2>2, <2>3, <2>4
<1> DEFINE T == {k \in Nat : k <= Size => ball[k] \in SUBSET Paths}
<1>9. 0 \in T
  BY <1>8
<1>10. ASSUME NEW k \in T PROVE k + 1 \in T
  <2> SUFFICES ASSUME k + 1 <= Size PROVE ball[k + 1] \in SUBSET Paths
    OBVIOUS
  <2>1. k \in Nat /\ k + 1 \in 1..Size /\ (k + 1) - 1 = k /\ ball[k] \in SUBSET Paths
    BY PathsAreFinite
  <2>2. ball[k + 1] = Wider(ball[k])
    BY <1>8, <2>1
  <2>3. [near \in SUBSET Paths |-> Wider(near)][ball[k]] \in SUBSET Paths
    BY <1>1, <2>1
  <2> QED
    BY <2>1, <2>2, <2>3
<1>11. T = Nat
  <2>1. T \in SUBSET Nat
    OBVIOUS
  <2> HIDE DEF T
  <2> QED
    BY <1>9, <1>10, <2>1, NaturalsFromZero
<1>12. \A k \in 0..Size : ball[k] \in SUBSET Paths
  BY <1>11, PathsAreFinite
<1> QED
  BY <1>7, <1>8, <1>12 DEF IsBall, Wider

\* A ball has the smaller ones in it.
LEMMA BallGrows ==
  ASSUME NEW graph, NEW target, NEW ball, IsBall(graph, target, ball),
         NEW i \in 0..Size, NEW j \in 0..Size, i <= j
  PROVE  ball[i] \subseteq ball[j]
<1> DEFINE T == {n \in Nat : i + n <= Size => ball[i] \subseteq ball[i + n]}
<1>1. 0 \in T
  OBVIOUS
<1>2. ASSUME NEW n \in T PROVE n + 1 \in T
  <2> SUFFICES ASSUME i + (n + 1) <= Size PROVE ball[i] \subseteq ball[i + (n + 1)]
    OBVIOUS
  <2>1. i + n + 1 \in 1..Size /\ (i + n + 1) - 1 = i + n /\ i + (n + 1) = i + n + 1
    BY PathsAreFinite
  <2>2. ball[i + n] \subseteq ball[i + n + 1]
    BY <2>1 DEF IsBall
  <2> QED
    BY <2>1, <2>2, PathsAreFinite
<1>3. T = Nat
  <2>1. T \in SUBSET Nat
    OBVIOUS
  <2> HIDE DEF T
  <2> QED
    BY <1>1, <1>2, <2>1, NaturalsFromZero
<1>4. Size \in Nat
  BY PathsAreFinite
<1>5. j - i \in Nat
  BY <1>4
<1>6. i + (j - i) = j
  BY <1>4
<1>7. i + (j - i) <= Size => ball[i] \subseteq ball[i + (j - i)]
  BY <1>3, <1>5
<1> QED
  BY <1>4, <1>6, <1>7

\* A set that has the target and is closed under imports has every ball.
LEMMA ClosedHasBalls ==
  ASSUME NEW graph, NEW target, NEW ball, IsBall(graph, target, ball),
         NEW V, target \in V, \A m \in V : graph[m] \subseteq V,
         NEW k \in 0..Size
  PROVE  ball[k] \subseteq V
<1> DEFINE T == {n \in Nat : n <= Size => ball[n] \subseteq V}
<1>1. 0 \in T
  BY DEF IsBall
<1>2. ASSUME NEW n \in T PROVE n + 1 \in T
  <2> SUFFICES ASSUME n + 1 <= Size PROVE ball[n + 1] \subseteq V
    OBVIOUS
  <2>1. n + 1 \in 1..Size /\ (n + 1) - 1 = n /\ ball[n] \subseteq V
    BY PathsAreFinite
  <2>2. ball[n + 1] = ball[n] \cup UNION {graph[m] : m \in ball[n]}
    BY <2>1 DEF IsBall
  <2> QED
    BY <2>1, <2>2
<1>3. T = Nat
  <2>1. T \in SUBSET Nat
    OBVIOUS
  <2> HIDE DEF T
  <2> QED
    BY <1>1, <1>2, <2>1, NaturalsFromZero
<1> QED
  BY <1>3, PathsAreFinite

-----------------------------------------------------------------------------
(* The search *)

\* The modules met have a distance, and only those are queued.
SearchStates ==
    {st \in [dist : UNION {[V -> Nat] : V \in SUBSET Paths}, queue : Seq(Paths)] :
        \A k \in 1..Len(st.queue) : st.queue[k] \in DOMAIN st.dist}

Met(graph, st) == {n \in graph[Head(st.queue)] : n \notin DOMAIN st.dist}

\* What the look at the head of the queue makes of a state.
Looked(graph, st, next) ==
    LET m == Head(st.queue)
        met == Met(graph, st)
        rest == Len(st.queue) - 1
    IN  /\ DOMAIN next.dist = DOMAIN st.dist \cup met
        /\ \A n \in DOMAIN st.dist : next.dist[n] = st.dist[n]
        /\ \A n \in met : next.dist[n] = st.dist[m] + 1
        /\ Len(next.queue) = rest + Cardinality(met)
        /\ \A i \in 1..rest : next.queue[i] = st.queue[i + 1]
        /\ \A i \in 1..Len(next.queue) : i > rest => next.queue[i] \in met
        /\ \A n \in met : \E i \in 1..Len(next.queue) : i > rest /\ next.queue[i] = n

LEMMA ExpandLooks ==
  ASSUME NEW graph \in Graphs, NEW st \in SearchStates, st.queue # <<>>
  PROVE  Expand(graph, st) \in SearchStates /\ Looked(graph, st, Expand(graph, st))
<1> DEFINE V == DOMAIN st.dist
           q == st.queue
           m == Head(q)
           met == Met(graph, st)
           rest == Len(q) - 1
<1>1. /\ V \in SUBSET Paths /\ st.dist \in [V -> Nat] /\ q \in Seq(Paths)
      /\ \A k \in 1..Len(q) : q[k] \in V
  BY DEF SearchStates
<1>2. /\ Len(q) \in Nat \ {0} /\ m = q[1] /\ m \in V
  BY <1>1
<1>r. rest \in Nat /\ Len(q) = rest + 1 /\ \A i \in 1..rest : i + 1 \in 1..Len(q)
  BY <1>2
<1>3. met \in SUBSET Paths /\ met \cap V = {} /\ IsFiniteSet(met)
  <2>1. met \in SUBSET Paths /\ met \cap V = {}
    BY <1>1, <1>2 DEF Met, Graphs
  <2> HIDE DEF met
  <2> QED
    BY <2>1, PathsAreFinite, FS_Subset
<1>4. PICK more : more = Listed(met)
  OBVIOUS
<1> HIDE DEF met
<1>5. /\ more \in Seq(met) /\ Len(more) = Cardinality(met) /\ Cardinality(met) \in Nat
      /\ \A n \in met : \E k \in 1..Len(more) : more[k] = n
  BY <1>3, <1>4, Enumeration, FS_CardinalityType
<1>6. more \in Seq(Paths) /\ \A k \in 1..Len(more) : more[k] \in met
  BY <1>3, <1>5
<1>7. PICK next : next = [dist |-> [n \in V \cup met |->
                                      IF n \in met THEN st.dist[m] + 1 ELSE st.dist[n]],
                          queue |-> Tail(q) \o more]
  OBVIOUS
<1>8. Expand(graph, st) = next
  BY <1>4, <1>7 DEF Expand, met, Met
<1>9. /\ Tail(q) \in Seq(Paths) /\ Len(Tail(q)) = rest
      /\ \A i \in 1..rest : Tail(q)[i] = q[i + 1]
  BY <1>1, <1>2, HeadTailProperties
<1>10. /\ next.queue \in Seq(Paths) /\ Len(next.queue) = rest + Cardinality(met)
       /\ \A i \in 1..Len(next.queue) :
             next.queue[i] = IF i <= rest THEN q[i + 1] ELSE more[i - rest]
  <2>1. rest \in Nat
    BY <1>r
  <2>a. PICK t : t = Tail(q)
    OBVIOUS
  <2>b. t \in Seq(Paths) /\ Len(t) = rest
    BY <1>9, <2>a
  <2>c. /\ t \o more \in Seq(Paths) /\ Len(t \o more) = Len(t) + Len(more)
        /\ \A i \in 1..(Len(t) + Len(more)) :
              (t \o more)[i] = IF i <= Len(t) THEN t[i] ELSE more[i - Len(t)]
    BY <1>6, <2>b, ConcatProperties
  <2>2. /\ Tail(q) \o more \in Seq(Paths) /\ Len(Tail(q) \o more) = rest + Len(more)
        /\ \A i \in 1..(rest + Len(more)) :
              (Tail(q) \o more)[i] = IF i <= rest THEN Tail(q)[i] ELSE more[i - rest]
    BY <2>a, <2>b, <2>c
  <2>3. next.queue = Tail(q) \o more
    BY <1>7
  <2>4. \A i \in 1..(rest + Len(more)) : i <= rest => i \in 1..rest
    BY <2>1
  <2> HIDE DEF rest, q
  <2> QED
    BY <1>5, <1>9, <2>1, <2>2, <2>3, <2>4
<1>p. PICK Q, n0 : Q = next.queue /\ n0 = Len(next.queue)
  OBVIOUS
<1>q. /\ Len(Q) = n0 /\ n0 = rest + Cardinality(met) /\ n0 = rest + Len(more)
      /\ \A i \in 1..n0 : Q[i] = IF i <= rest THEN q[i + 1] ELSE more[i - rest]
  BY <1>5, <1>10, <1>p
<1> HIDE DEF rest, q
<1>11. next.dist = [n \in V \cup met |-> IF n \in met THEN st.dist[m] + 1 ELSE st.dist[n]]
  BY <1>7
<1>12. /\ next.dist \in [V \cup met -> Nat] /\ DOMAIN next.dist = V \cup met
       /\ \A n \in V : next.dist[n] = st.dist[n]
       /\ \A n \in met : next.dist[n] = st.dist[m] + 1
  BY <1>1, <1>2, <1>3, <1>11
<1>13. \A i \in 1..Len(next.queue) : i > rest => next.queue[i] \in met
  <2> SUFFICES ASSUME NEW i \in 1..Len(next.queue), i > rest PROVE next.queue[i] \in met
    OBVIOUS
  <2>1. i - rest \in 1..Len(more)
    BY <1>r, <1>5, <1>q, <1>p
  <2>2. i \in 1..n0 /\ ~(i <= rest)
    BY <1>r, <1>5, <1>q, <1>p
  <2>3. Q[i] = more[i - rest]
    BY <1>q, <2>2
  <2> QED
    BY <1>6, <1>p, <2>1, <2>3
<1>14. \A n \in met : \E i \in 1..Len(next.queue) : i > rest /\ next.queue[i] = n
  <2> TAKE n \in met
  <2>1. PICK k \in 1..Len(more) : more[k] = n
    BY <1>5
  <2>2. rest + k \in 1..Len(next.queue) /\ rest + k > rest /\ (rest + k) - rest = k
    BY <1>r, <1>5, <1>q, <1>p
  <2>3. next.queue[rest + k] = n
    <3>1. rest + k \in 1..n0 /\ ~(rest + k <= rest)
      BY <1>r, <2>2, <1>p
    <3>2. Q[rest + k] = more[(rest + k) - rest]
      BY <1>q, <3>1
    <3> QED
      BY <1>p, <2>1, <2>2, <3>2
  <2> QED
    BY <2>2, <2>3
<1>15. \A i \in 1..rest : next.queue[i] = q[i + 1] /\ q[i + 1] \in V
  <2> TAKE i \in 1..rest
  <2>1. i \in 1..n0 /\ i <= rest /\ i + 1 \in 1..Len(q)
    BY <1>r, <1>5, <1>q
  <2> QED
    BY <1>1, <1>p, <1>q, <2>1
<1>16. \A i \in 1..Len(next.queue) : next.queue[i] \in V \cup met
  <2> TAKE i \in 1..Len(next.queue)
  <2>1. i \in 1..rest \/ i > rest
    BY <1>r, <1>5, <1>q, <1>p
  <2> QED
    BY <1>13, <1>15, <2>1
<1>17. next \in SearchStates
  <2>1. next.dist \in UNION {[W -> Nat] : W \in SUBSET Paths}
    BY <1>1, <1>3, <1>12
  <2>2. next \in [dist : UNION {[W -> Nat] : W \in SUBSET Paths}, queue : Seq(Paths)]
    BY <1>7, <1>10, <2>1
  <2> QED
    BY <1>12, <1>16, <2>2 DEF SearchStates
<1>18. Looked(graph, st, next)
  BY <1>10, <1>12, <1>13, <1>14, <1>15 DEF Looked, met, rest, q
<1> QED
  BY <1>8, <1>17, <1>18

NextState(graph, st) == IF st.queue = <<>> THEN st ELSE Expand(graph, st)

Start(target) == [dist |-> [m \in {target} |-> 0], queue |-> <<target>>]

LEMMA StartIsAState ==
  ASSUME NEW target \in Paths
  PROVE  Start(target) \in SearchStates
<1>1. [m \in {target} |-> 0] \in [{target} -> Nat] /\ {target} \in SUBSET Paths
  OBVIOUS
<1>2. <<target>> \in Seq(Paths) /\ Len(<<target>>) = 1 /\ <<target>>[1] = target
  OBVIOUS
<1>3. [m \in {target} |-> 0] \in UNION {[V -> Nat] : V \in SUBSET Paths}
  BY <1>1
<1> QED
  <2>1. PICK d : d = [m \in {target} |-> 0]
    OBVIOUS
  <2>2. PICK st : st = [dist |-> d, queue |-> <<target>>]
    OBVIOUS
  <2>3. st \in [dist : UNION {[V -> Nat] : V \in SUBSET Paths}, queue : Seq(Paths)]
    BY <1>2, <1>3, <2>1, <2>2
  <2>4. DOMAIN st.dist = {target} /\ st.queue = <<target>>
    BY <2>1, <2>2
  <2>5. \A k \in 1..Len(st.queue) : st.queue[k] \in DOMAIN st.dist
    BY <2>4
  <2>6. st \in SearchStates
    BY <2>3, <2>5 DEF SearchStates
  <2> QED
    BY <2>1, <2>2, <2>6 DEF Start

\* The search goes from state to state.
LEMMA SearchRuns ==
  ASSUME NEW graph \in Graphs, NEW target \in Paths
  PROVE  /\ Search(graph, target)[0] = Start(target)
         /\ \A k \in 1..Size : Search(graph, target)[k]
                                  = NextState(graph, Search(graph, target)[k - 1])
<1> DEFINE P(g) == g = [k \in 0..Cardinality(Paths) |->
                IF k = 0 THEN [dist |-> [m \in {target} |-> 0], queue |-> <<target>>]
                ELSE LET st == g[k - 1]
                     IN IF st.queue = <<>> THEN st ELSE Expand(graph, st)]
<1>0. Size \in Nat
  BY PathsAreFinite
<1>1. PICK step : step = [st \in SearchStates |-> NextState(graph, st)]
  OBVIOUS
<1>2. step \in [SearchStates -> SearchStates]
  BY <1>1, ExpandLooks DEF NextState
<1>3. PICK f \in [0..Size -> SearchStates] :
         f[0] = Start(target) /\ \A k \in 1..Size : f[k] = step[f[k - 1]]
  BY <1>0, <1>2, StartIsAState, Iterates
<1>4. \A k \in 1..Size : f[k] = NextState(graph, f[k - 1])
  <2> TAKE k \in 1..Size
  <2>1. f[k - 1] \in SearchStates
    BY <1>0, <1>3
  <2> QED
    BY <1>1, <1>3, <2>1
<1>5. f = [k \in 0..Size |-> IF k = 0 THEN Start(target) ELSE NextState(graph, f[k - 1])]
  <2>1. \A k \in 0..Size : k # 0 => k \in 1..Size
    BY <1>0
  <2> QED
    BY <1>3, <1>4, <2>1
<1>6. P(f)
  BY <1>5 DEF Size, Start, NextState
<1>7. Search(graph, target) = CHOOSE g : P(g)
  BY Zenon DEF Search
<1>8. P(Search(graph, target))
  <2> HIDE DEF P
  <2> QED
    BY <1>6, <1>7, Zenon
<1>9. PICK run : run = Search(graph, target)
  OBVIOUS
<1>10. run = [k \in 0..Size |-> IF k = 0 THEN Start(target) ELSE NextState(graph, run[k - 1])]
  BY <1>8, <1>9 DEF Size, Start, NextState
<1>11. 0 \in 0..Size /\ \A k \in 1..Size : k \in 0..Size /\ k # 0
  BY <1>0
<1>12. \A k \in 0..Size : run[k] = IF k = 0 THEN Start(target) ELSE NextState(graph, run[k - 1])
  BY <1>10
<1> QED
  BY <1>9, <1>11, <1>12

-----------------------------------------------------------------------------
(* What the search knows after k looks *)

\* The distances are those of the balls.
Measured(ball, st) ==
    \A m \in DOMAIN st.dist :
       /\ m \in ball[st.dist[m]]
       /\ st.dist[m] > 0 => m \notin ball[st.dist[m] - 1]

\* The queue is in order of distance, and spans two distances at most.
InLine(st) ==
    \A i, j \in 1..Len(st.queue) :
       i <= j => /\ st.dist[st.queue[i]] <= st.dist[st.queue[j]]
                 /\ st.dist[st.queue[j]] <= st.dist[st.queue[i]] + 1

\* A module that was met is queued, or all it imports was met.
Covered(graph, st) ==
    \A m \in DOMAIN st.dist :
       \/ \E i \in 1..Len(st.queue) : st.queue[i] = m
       \/ graph[m] \subseteq DOMAIN st.dist

SearchInv(graph, target, ball, k, st) ==
    /\ st \in SearchStates
    /\ target \in DOMAIN st.dist
    /\ \A m \in DOMAIN st.dist : st.dist[m] <= k
    /\ st.queue # <<>> => Len(st.queue) + k = Cardinality(DOMAIN st.dist)
    /\ Measured(ball, st)
    /\ InLine(st)
    /\ Covered(graph, st)
    /\ st.queue # <<>> => ball[st.dist[Head(st.queue)]] \subseteq DOMAIN st.dist

LEMMA SearchStarts ==
  ASSUME NEW graph \in Graphs, NEW target \in Paths, NEW ball, IsBall(graph, target, ball)
  PROVE  SearchInv(graph, target, ball, 0, Start(target))
<1>1. PICK st : st = Start(target)
  OBVIOUS
<1>2. /\ st.queue = <<target>> /\ DOMAIN st.dist = {target} /\ st.dist[target] = 0
  BY <1>1 DEF Start
<1>3. st \in SearchStates
  BY <1>1, StartIsAState
<1>4. Len(st.queue) = 1 /\ st.queue # <<>> /\ Head(st.queue) = target /\ st.queue[1] = target
  BY <1>2
<1>5. Cardinality(DOMAIN st.dist) = 1
  BY <1>2, FS_Singleton
<1>6. ball[0] = {target}
  BY DEF IsBall
<1>7. Measured(ball, st)
  BY <1>2, <1>6 DEF Measured
<1>8. InLine(st)
  BY <1>2, <1>4 DEF InLine
<1>9. Covered(graph, st)
  BY <1>2, <1>4 DEF Covered
<1> QED
  BY <1>1, <1>2, <1>3, <1>4, <1>5, <1>6, <1>7, <1>8, <1>9 DEF SearchInv

\* Whoever is in the ball of the head of the queue is not farther than it.
LEMMA NotFarther ==
  ASSUME NEW graph, NEW target, NEW ball, IsBall(graph, target, ball),
         NEW st \in SearchStates, Measured(ball, st),
         NEW n \in DOMAIN st.dist, NEW D \in 0..Size, n \in ball[D], st.dist[n] <= Size
  PROVE  st.dist[n] <= D
<1> SUFFICES ASSUME st.dist[n] > D PROVE FALSE
  BY PathsAreFinite DEF SearchStates
<1>1. st.dist[n] \in Nat /\ Size \in Nat
  BY PathsAreFinite DEF SearchStates
<1>2. st.dist[n] - 1 \in 0..Size /\ D <= st.dist[n] - 1 /\ st.dist[n] > 0
  BY <1>1
<1>3. ball[D] \subseteq ball[st.dist[n] - 1]
  BY <1>2, BallGrows
<1> QED
  BY <1>2, <1>3 DEF Measured

LEMMA LookKeepsMeasured ==
  ASSUME NEW graph \in Graphs, NEW target \in Paths, NEW ball, IsBall(graph, target, ball),
         NEW k \in 0..(Size - 1), NEW st, SearchInv(graph, target, ball, k, st), st.queue # <<>>,
         NEW next, Looked(graph, st, next)
  PROVE  Measured(ball, next) /\ \A m \in DOMAIN next.dist : next.dist[m] <= k + 1
<1> DEFINE h == Head(st.queue)
           D == st.dist[h]
<1>1. /\ h \in DOMAIN st.dist /\ D \in Nat /\ D <= k /\ Size \in Nat /\ D + 1 \in 1..Size
      /\ (D + 1) - 1 = D /\ D + 1 > 0
  <2>1. st.queue \in Seq(Paths) /\ \A i \in 1..Len(st.queue) : st.queue[i] \in DOMAIN st.dist
    BY DEF SearchInv, SearchStates
  <2>2. h = st.queue[1] /\ 1 \in 1..Len(st.queue)
    BY <2>1
  <2>3. h \in DOMAIN st.dist /\ D \in Nat /\ D <= k
    BY <2>1, <2>2 DEF SearchInv, SearchStates
  <2> QED
    BY <2>3, PathsAreFinite
<1>2. h \in ball[D] /\ ball[D] \subseteq DOMAIN st.dist
  BY <1>1 DEF SearchInv, Measured
<1>3. ball[D + 1] = ball[D] \cup UNION {graph[m] : m \in ball[D]}
  BY <1>1 DEF IsBall
<1> HIDE DEF D
<1>4. ASSUME NEW m \in Met(graph, st)
      PROVE  next.dist[m] = D + 1 /\ m \in ball[D + 1] /\ m \notin ball[D]
  BY <1>2, <1>3, <1>4 DEF Looked, Met, D
<1>5. ASSUME NEW m \in DOMAIN st.dist
      PROVE  /\ next.dist[m] = st.dist[m] /\ st.dist[m] <= k /\ st.dist[m] \in Nat
             /\ m \in ball[st.dist[m]]
             /\ st.dist[m] > 0 => m \notin ball[st.dist[m] - 1]
  BY <1>5 DEF Looked, SearchInv, Measured, SearchStates
<1>6. DOMAIN next.dist = DOMAIN st.dist \cup Met(graph, st)
  BY DEF Looked
<1>7. ASSUME NEW m \in DOMAIN next.dist
      PROVE  /\ m \in ball[next.dist[m]] /\ next.dist[m] <= k + 1
             /\ next.dist[m] > 0 => m \notin ball[next.dist[m] - 1]
  <2>1. CASE m \in DOMAIN st.dist
    BY <1>5, <2>1
  <2>2. CASE m \in Met(graph, st)
    BY <1>1, <1>4, <2>2
  <2> QED
    BY <1>6, <2>1, <2>2
<1> QED
  BY <1>7 DEF Measured

LEMMA LookKeepsInLine ==
  ASSUME NEW graph \in Graphs, NEW st \in SearchStates, st.queue # <<>>, InLine(st),
         NEW next \in SearchStates, Looked(graph, st, next)
  PROVE  InLine(next)
<1> DEFINE q == st.queue
           D == st.dist[Head(q)]
           rest == Len(q) - 1
<1>1. /\ q \in Seq(Paths) /\ \A i \in 1..Len(q) : q[i] \in DOMAIN st.dist /\ st.dist[q[i]] \in Nat
  BY DEF SearchStates
<1>2. Head(q) = q[1] /\ 1 \in 1..Len(q) /\ D \in Nat /\ rest \in Nat
      /\ \A i \in 1..rest : i + 1 \in 1..Len(q) /\ 1 <= i + 1
  BY <1>1
<1>3. \A i \in 1..Len(next.queue) : next.queue[i] \in DOMAIN next.dist
  BY DEF SearchStates
<1>4. ASSUME NEW i \in 1..rest
      PROVE  /\ next.dist[next.queue[i]] = st.dist[q[i + 1]] /\ st.dist[q[i + 1]] \in Nat
             /\ D <= st.dist[q[i + 1]] /\ st.dist[q[i + 1]] <= D + 1
  <2>1. next.queue[i] = q[i + 1] /\ q[i + 1] \in DOMAIN st.dist /\ i + 1 \in 1..Len(q) /\ 1 <= i + 1
    BY <1>1, <1>2 DEF Looked
  <2>2. next.dist[next.queue[i]] = st.dist[q[i + 1]]
    BY <2>1 DEF Looked
  <2>3. D <= st.dist[q[i + 1]] /\ st.dist[q[i + 1]] <= D + 1
    BY <1>2, <2>1 DEF InLine
  <2> QED
    BY <1>1, <2>1, <2>2, <2>3
<1>5. ASSUME NEW i \in 1..Len(next.queue), i > rest
      PROVE  next.dist[next.queue[i]] = D + 1
  BY <1>5 DEF Looked
<1>6. ASSUME NEW i \in 1..rest, NEW j \in 1..rest, i <= j
      PROVE  /\ st.dist[q[i + 1]] <= st.dist[q[j + 1]]
             /\ st.dist[q[j + 1]] <= st.dist[q[i + 1]] + 1
  BY <1>2, <1>6 DEF InLine
<1> HIDE DEF D, rest, q
<1>7. ASSUME NEW i \in 1..Len(next.queue), NEW j \in 1..Len(next.queue), i <= j
      PROVE  /\ next.dist[next.queue[i]] <= next.dist[next.queue[j]]
             /\ next.dist[next.queue[j]] <= next.dist[next.queue[i]] + 1
  <2>0. Len(next.queue) \in Nat
    BY DEF SearchStates
  <2>1. CASE j <= rest
    <3>1. i \in 1..rest /\ j \in 1..rest
      BY <1>2, <1>7, <2>0, <2>1
    <3> QED
      BY <1>4, <1>6, <1>7, <3>1
  <2>2. CASE i <= rest /\ j > rest
    <3>1. i \in 1..rest
      BY <1>2, <2>0, <2>2
    <3>2. next.dist[next.queue[j]] = D + 1
      BY <1>5, <2>2
    <3>3. PICK a : a = next.dist[next.queue[i]] /\ a \in Nat /\ D <= a /\ a <= D + 1
      BY <1>4, <3>1
    <3> QED
      BY <1>2, <3>2, <3>3
  <2>3. CASE i > rest
    <3>1. j > rest
      BY <1>2, <1>7, <2>0, <2>3
    <3> QED
      BY <1>2, <1>5, <2>3, <3>1
  <2> QED
    BY <1>2, <2>0, <2>1, <2>2, <2>3
<1> QED
  BY <1>7 DEF InLine

LEMMA LookKeepsCovered ==
  ASSUME NEW graph \in Graphs, NEW st \in SearchStates, st.queue # <<>>, Covered(graph, st),
         NEW next \in SearchStates, Looked(graph, st, next)
  PROVE  Covered(graph, next)
<1> DEFINE q == st.queue
           V == DOMAIN st.dist
           W == DOMAIN next.dist
           rest == Len(q) - 1
           Queued(m) == \E i \in 1..Len(next.queue) : next.queue[i] = m
<1>1. q \in Seq(Paths) /\ Head(q) = q[1] /\ Len(q) \in Nat /\ rest \in Nat
  BY DEF SearchStates
<1>2. W = V \cup Met(graph, st)
  BY DEF Looked
<1>3. graph[Head(q)] \subseteq W
  BY <1>2 DEF Met
<1>4. ASSUME NEW m \in V PROVE Queued(m) \/ graph[m] \subseteq W
  <2>1. CASE graph[m] \subseteq V
    BY <1>2, <2>1
  <2>2. ASSUME NEW i \in 1..Len(q), q[i] = m PROVE Queued(m) \/ graph[m] \subseteq W
    <3>1. CASE i = 1
      BY <1>1, <1>3, <2>2, <3>1
    <3>2. CASE i # 1
      <4>1. Len(next.queue) = rest + Cardinality(Met(graph, st)) /\ Len(next.queue) \in Nat
        BY DEF Looked, SearchStates
      <4>2. i - 1 \in 1..rest /\ (i - 1) + 1 = i
        BY <1>1, <3>2
      <4>3. next.queue[i - 1] = q[i]
        BY <4>2 DEF Looked
      <4>4. IsFiniteSet(Met(graph, st))
        <5>1. Met(graph, st) \subseteq Paths
          BY <1>2 DEF SearchStates
        <5> QED
          BY <5>1, PathsAreFinite, FS_Subset
      <4>5. Cardinality(Met(graph, st)) \in Nat
        BY <4>4, FS_CardinalityType
      <4>6. i - 1 \in 1..Len(next.queue)
        BY <1>1, <4>1, <4>2, <4>5
      <4> QED
        BY <2>2, <4>3, <4>6
    <3> QED
      BY <3>1, <3>2
  <2> QED
    BY <2>1, <2>2 DEF Covered
<1>5. ASSUME NEW m \in Met(graph, st) PROVE Queued(m)
  BY <1>5 DEF Looked
<1> QED
  BY <1>2, <1>4, <1>5 DEF Covered

\* When the head of the queue goes one step farther, everything nearer was met.
LEMMA LookFillsBall ==
  ASSUME NEW graph \in Graphs, NEW target \in Paths, NEW ball, IsBall(graph, target, ball),
         NEW k \in 0..(Size - 1), NEW st, SearchInv(graph, target, ball, k, st), st.queue # <<>>,
         NEW next \in SearchStates, Looked(graph, st, next), InLine(next), next.queue # <<>>
  PROVE  ball[next.dist[Head(next.queue)]] \subseteq DOMAIN next.dist
<1> DEFINE q == st.queue
           V == DOMAIN st.dist
           W == DOMAIN next.dist
           rest == Len(q) - 1
           h == Head(next.queue)
<1>1. /\ st \in SearchStates /\ q \in Seq(Paths) /\ Head(q) = q[1] /\ Len(q) \in Nat
      /\ rest \in Nat /\ q[1] \in V /\ 1 \in 1..Len(q)
      /\ \A i \in 1..Len(q) : q[i] \in V
  BY DEF SearchInv, SearchStates
<1>2. PICK D : D = st.dist[Head(q)]
  OBVIOUS
<1>3. D \in Nat /\ D <= k /\ Size \in Nat /\ D \in 0..Size /\ D + 1 \in 1..Size /\ (D + 1) - 1 = D
  <2>1. D \in Nat /\ D <= k
    BY <1>1, <1>2 DEF SearchInv, SearchStates
  <2> QED
    BY <2>1, PathsAreFinite
<1>4. /\ W = V \cup Met(graph, st)
      /\ \A n \in V : next.dist[n] = st.dist[n]
      /\ \A n \in Met(graph, st) : next.dist[n] = D + 1
      /\ \A i \in 1..rest : next.queue[i] = q[i + 1]
      /\ \A i \in 1..Len(next.queue) : i > rest => next.queue[i] \in Met(graph, st)
  BY <1>2 DEF Looked
<1>5. ball[D] \subseteq V
  BY <1>2 DEF SearchInv
<1>6. 1 \in 1..Len(next.queue) /\ h = next.queue[1] /\ Len(next.queue) \in Nat
  BY DEF SearchStates
<1>7. next.dist[h] = D \/ next.dist[h] = D + 1
  <2>1. CASE 1 > rest
    BY <1>4, <1>6, <2>1
  <2>2. CASE 1 <= rest
    <3>1. h = q[2] /\ 2 \in 1..Len(q) /\ q[2] \in V
      BY <1>1, <1>4, <1>6, <2>2
    <3>2. D <= st.dist[q[2]] /\ st.dist[q[2]] <= D + 1 /\ st.dist[q[2]] \in Nat
      <4>1. st.dist[q[2]] \in Nat
        BY <1>1, <3>1 DEF SearchStates
      <4>2. InLine(st) /\ 1 \in 1..Len(q) /\ 1 <= 2 /\ D = st.dist[q[1]]
        BY <1>1, <1>2 DEF SearchInv
      <4> QED
        BY <3>1, <4>1, <4>2 DEF InLine
    <3>3. st.dist[q[2]] = D \/ st.dist[q[2]] = D + 1
      BY <1>3, <3>2
    <3> QED
      BY <1>4, <3>1, <3>3
  <2> QED
    BY <1>1, <2>1, <2>2
<1>8. CASE next.dist[h] = D
  BY <1>4, <1>5, <1>8
<1>9. CASE next.dist[h] = D + 1
  <2>1. ball[D + 1] = ball[D] \cup UNION {graph[n] : n \in ball[D]}
    BY <1>3 DEF IsBall
  <2>2. ASSUME NEW n \in ball[D] PROVE graph[n] \subseteq W
    <3>1. n \in V
      BY <1>5
    <3>2. CASE graph[n] \subseteq V
      BY <1>4, <3>2
    <3>3. ASSUME NEW i \in 1..Len(q), q[i] = n PROVE graph[n] \subseteq W
      <4>1. CASE i = 1
        BY <1>1, <1>4, <3>3, <4>1 DEF Met
      <4>2. CASE i # 1
        <5>1. i - 1 \in 1..rest /\ (i - 1) + 1 = i
          BY <1>1, <4>2
        <5>2. next.queue[i - 1] = n
          BY <1>4, <3>3, <5>1
        <5>3. i - 1 \in 1..Len(next.queue) /\ 1 <= i - 1
          <6>1. Cardinality(Met(graph, st)) \in Nat
            <7>1. Met(graph, st) \subseteq Paths
              BY <1>4 DEF SearchStates
            <7> QED
              BY <7>1, PathsAreFinite, FS_Subset, FS_CardinalityType
          <6>2. Len(next.queue) = rest + Cardinality(Met(graph, st))
            BY DEF Looked
          <6> QED
            BY <1>1, <1>6, <5>1, <6>1, <6>2
        <5>4. D + 1 <= next.dist[n]
          BY <1>6, <1>9, <5>2, <5>3 DEF InLine
        <5>5. st.dist[n] <= D
          <6>1. Measured(ball, st) /\ st.dist[n] <= k /\ st.dist[n] \in Nat
            BY <3>1 DEF SearchInv, SearchStates
          <6>2. st.dist[n] <= Size
            BY <1>3, <6>1
          <6> QED
            BY <1>1, <1>3, <3>1, <6>1, <6>2, NotFarther
        <5>6. next.dist[n] = st.dist[n] /\ st.dist[n] \in Nat
          BY <1>1, <1>4, <3>1 DEF SearchStates
        <5> QED
          BY <1>3, <5>4, <5>5, <5>6
      <4> QED
        BY <4>1, <4>2
    <3> QED
      BY <3>1, <3>2, <3>3 DEF SearchInv, Covered
  <2>3. ball[D] \subseteq W
    BY <1>4, <1>5
  <2> QED
    BY <1>9, <2>1, <2>2, <2>3
<1> QED
  BY <1>7, <1>8, <1>9

\* One look more.
LEMMA SearchGoesOn ==
  ASSUME NEW graph \in Graphs, NEW target \in Paths, NEW ball, IsBall(graph, target, ball),
         NEW k \in 0..(Size - 1), NEW st, SearchInv(graph, target, ball, k, st)
  PROVE  SearchInv(graph, target, ball, k + 1, NextState(graph, st))
<1>0. st \in SearchStates /\ k \in Nat /\ \A m \in DOMAIN st.dist : st.dist[m] \in Nat
  BY PathsAreFinite DEF SearchInv, SearchStates
<1>1. CASE st.queue = <<>>
  <2>1. NextState(graph, st) = st
    BY <1>1 DEF NextState
  <2>2. \A m \in DOMAIN st.dist : st.dist[m] <= k + 1
    BY <1>0 DEF SearchInv
  <2> QED
    BY <1>1, <2>1, <2>2 DEF SearchInv
<1>2. CASE st.queue # <<>>
  <2>1. PICK next : next = Expand(graph, st)
    OBVIOUS
  <2>2. next \in SearchStates /\ Looked(graph, st, next)
    BY <1>0, <1>2, <2>1, ExpandLooks
  <2>3. Measured(ball, next) /\ \A m \in DOMAIN next.dist : next.dist[m] <= k + 1
    BY <1>2, <2>2, LookKeepsMeasured
  <2>4. InLine(next) /\ Covered(graph, next)
    BY <1>0, <1>2, <2>2, LookKeepsInLine, LookKeepsCovered DEF SearchInv
  <2>5. next.queue # <<>> => ball[next.dist[Head(next.queue)]] \subseteq DOMAIN next.dist
    BY <1>2, <2>2, <2>4, LookFillsBall
  <2>6. target \in DOMAIN next.dist
    BY <2>2 DEF SearchInv, Looked
  <2>7. Len(next.queue) + (k + 1) = Cardinality(DOMAIN next.dist)
    <3>1. PICK V, M : V = DOMAIN st.dist /\ M = Met(graph, st)
      OBVIOUS
    <3>2. V \subseteq Paths /\ M \subseteq Paths /\ V \cap M = {} /\ DOMAIN next.dist = V \cup M
      BY <2>2, <3>1 DEF SearchStates, Looked, Met
    <3>3. IsFiniteSet(V) /\ IsFiniteSet(M)
      BY <3>2, PathsAreFinite, FS_Subset
    <3>4. Cardinality(V) \in Nat /\ Cardinality(M) \in Nat
      BY <3>3, FS_CardinalityType
    <3>5. Cardinality(V \cup M) = Cardinality(V) + Cardinality(M)
      <4>1. Cardinality(V \cup M) = Cardinality(V) + Cardinality(M) - Cardinality(V \cap M)
        BY <3>3, FS_Union
      <4>2. Cardinality(V \cap M) = 0
        BY <3>2, FS_EmptySet
      <4> QED
        BY <3>4, <4>1, <4>2
    <3>6. Len(st.queue) + k = Cardinality(V) /\ Len(st.queue) \in Nat
      BY <1>2, <3>1 DEF SearchInv, SearchStates
    <3>7. Len(next.queue) = Len(st.queue) - 1 + Cardinality(M)
      BY <2>2, <3>1 DEF Looked
    <3> QED
      BY <1>0, <3>2, <3>4, <3>5, <3>6, <3>7
  <2>8. NextState(graph, st) = next
    BY <1>2, <2>1 DEF NextState
  <2> QED
    BY <2>2, <2>3, <2>4, <2>5, <2>6, <2>7, <2>8 DEF SearchInv
<1> QED
  BY <1>1, <1>2

-----------------------------------------------------------------------------
(* The distances of a build *)

ShortestIn(graph, target, dist) ==
    LET ball == Within(graph, target)
    IN  /\ DOMAIN dist = ball[Size]
        /\ \A m \in DOMAIN dist : /\ m \in ball[dist[m]]
                                  /\ dist[m] > 0 => m \notin ball[dist[m] - 1]

\* After as many looks as there are modules the queue is empty, so that what
\* was met is closed under imports.
LEMMA SearchIsShortest ==
  ASSUME NEW graph \in Graphs, NEW target \in Paths
  PROVE  ShortestIn(graph, target, GetDistances(graph, target))
<1>1. PICK ball, run : ball = Within(graph, target) /\ run = Search(graph, target)
  OBVIOUS
<1>2. IsBall(graph, target, ball)
  BY <1>1, WithinIsBall
<1>3. run[0] = Start(target) /\ \A k \in 1..Size : run[k] = NextState(graph, run[k - 1])
  BY <1>1, SearchRuns
<1>4. Size \in Nat
  BY PathsAreFinite
<1> DEFINE T == {k \in Nat : k <= Size => SearchInv(graph, target, ball, k, run[k])}
<1>5. 0 \in T
  BY <1>2, <1>3, SearchStarts
<1>6. ASSUME NEW k \in T PROVE k + 1 \in T
  <2> SUFFICES ASSUME k + 1 <= Size PROVE SearchInv(graph, target, ball, k + 1, run[k + 1])
    OBVIOUS
  <2>1. k \in 0..(Size - 1) /\ k + 1 \in 1..Size /\ (k + 1) - 1 = k
        /\ SearchInv(graph, target, ball, k, run[k])
    BY <1>4
  <2>2. run[k + 1] = NextState(graph, run[k])
    BY <1>3, <2>1
  <2> QED
    BY <1>2, <2>1, <2>2, SearchGoesOn
<1>7. T = Nat
  <2>1. T \in SUBSET Nat
    OBVIOUS
  <2> HIDE DEF T
  <2> QED
    BY <1>5, <1>6, <2>1, NaturalsFromZero
<1>8. PICK st : st = run[Size]
  OBVIOUS
<1>9. SearchInv(graph, target, ball, Size, st)
  BY <1>4, <1>7, <1>8
<1>10. DOMAIN st.dist \subseteq Paths /\ \A m \in DOMAIN st.dist : st.dist[m] \in 0..Size
  BY <1>4, <1>9 DEF SearchInv, SearchStates
<1>11. st.queue = <<>>
  <2> SUFFICES ASSUME st.queue # <<>> PROVE FALSE
    OBVIOUS
  <2>1. Len(st.queue) + Size = Cardinality(DOMAIN st.dist) /\ Len(st.queue) \in Nat \ {0}
    BY <1>9 DEF SearchInv, SearchStates
  <2>2. Cardinality(DOMAIN st.dist) <= Size /\ Cardinality(DOMAIN st.dist) \in Nat
    BY <1>10, PathsAreFinite, FS_Subset, FS_CardinalityType DEF Size
  <2> QED
    BY <1>4, <2>1, <2>2
<1>12. \A m \in DOMAIN st.dist : graph[m] \subseteq DOMAIN st.dist
  BY <1>9, <1>11 DEF SearchInv, Covered
<1>13. ball[Size] \subseteq DOMAIN st.dist
  <2>1. target \in DOMAIN st.dist /\ Size \in 0..Size
    BY <1>4, <1>9 DEF SearchInv
  <2> QED
    BY <1>2, <1>12, <2>1, ClosedHasBalls
<1>14. ASSUME NEW m \in DOMAIN st.dist
       PROVE  /\ m \in ball[st.dist[m]]
              /\ st.dist[m] > 0 => m \notin ball[st.dist[m] - 1]
              /\ m \in ball[Size]
  <2>1. m \in ball[st.dist[m]] /\ (st.dist[m] > 0 => m \notin ball[st.dist[m] - 1])
    BY <1>9 DEF SearchInv, Measured
  <2>2. ball[st.dist[m]] \subseteq ball[Size]
    BY <1>2, <1>4, <1>10, BallGrows
  <2> QED
    BY <2>1, <2>2
<1>15. GetDistances(graph, target) = st.dist
  BY <1>1, <1>8 DEF GetDistances, Size
<1> QED
  BY <1>1, <1>13, <1>14, <1>15 DEF ShortestIn

\* An import resolves to a module that was found, or to none.
LEMMA ImportsAreFound ==
  ASSUME NEW found \in SUBSET Paths, NEW m, NEW text
  PROVE  ExtractFromFile(found, m, text) \in SUBSET Paths
<1>1. ASSUME NEW base, NEW name
      PROVE  ResolveCandidate(found, base, name) \in found \cup {None}
  BY DEF ResolveCandidate
<1>2. ASSUME NEW name
      PROVE  ResolveInHierarchy(found, m, name) \in found \cup {None}
  BY <1>1 DEF ResolveInHierarchy
<1>3. ASSUME NEW i PROVE VisitRelative(found, m, i) \subseteq found \cup {None}
  BY <1>1 DEF VisitRelative
<1>4. ASSUME NEW i PROVE VisitAbsolute(found, m, i) \subseteq found \cup {None}
  BY <1>2 DEF VisitAbsolute
<1>5. ASSUME NEW x \in ExtractFromFile(found, m, text) PROVE x \in found
  <2>1. x # None /\ \E i : x \in VisitRelative(found, m, i) \/ x \in VisitAbsolute(found, m, i)
    <3>1. PICK I : x \in (UNION {IF i.level > 0 THEN VisitRelative(found, m, i)
                                 ELSE VisitAbsolute(found, m, i) : i \in I}) \ {m, None}
      BY DEF ExtractFromFile
    <3>2. PICK i \in I : x \in IF i.level > 0 THEN VisitRelative(found, m, i)
                                ELSE VisitAbsolute(found, m, i)
      BY <3>1
    <3>3. x \in VisitRelative(found, m, i) \/ x \in VisitAbsolute(found, m, i)
      BY <3>2
    <3> QED
      BY <3>1, <3>3
  <2> QED
    BY <1>3, <1>4, <2>1
<1> QED
  BY <1>5

LEMMA BuildGraphIsAGraph ==
  ASSUME NEW p
  PROVE  BuildGraph(p) \in Graphs
<1>1. Files(p) \in SUBSET Paths
  BY DEF Files
<1>2. \A m \in Paths : ExtractFromFile(Files(p), m, files[p][m]) \in SUBSET Paths
  BY <1>1, ImportsAreFound
<1> QED
  BY <1>2 DEF BuildGraph, Graphs

MeasuresWell(b) == b.pc # "idle" => ShortestIn(b.graph, b.asked.target, b.dist)

LEMMA DistancesByBuild == DistancesAreShortest <=> \A e \in Engines : MeasuresWell(build[e])
BY DEF DistancesAreShortest, MeasuresWell, ShortestIn, Size

LEMMA GoesOnMeasured ==
  ASSUME NEW b, NEW c, b.pc # "idle", GoesOn(b, c), MeasuresWell(b)
  PROVE  MeasuresWell(c)
BY DEF GoesOn, MeasuresWell

\* A build measures its graph when it begins, and keeps what it measured.
LEMMA MeasuresStep ==
  Shapes /\ (\A e \in Engines : MeasuresWell(build[e])) /\ [Next]_vars
     => \A e \in Engines : MeasuresWell(build'[e])
<1> SUFFICES ASSUME Shapes, \A e \in Engines : MeasuresWell(build[e]), [Next]_vars
             PROVE  \A e \in Engines : MeasuresWell(build'[e])
  OBVIOUS
<1> DEFINE Result == \A e \in Engines : MeasuresWell(build'[e])
<1>a. ASSUME NEW e \in Engines, build[e].pc # "idle", GoesOn(build[e], build'[e]),
             \A f \in Engines \ {e} : build'[f] = build[f]
      PROVE  Result
  <2>1. MeasuresWell(build'[e])
    BY <1>a, GoesOnMeasured
  <2> QED
    BY <1>a, <2>1
<1>b. ASSUME UNCHANGED build PROVE Result
  BY <1>b
<1> HIDE DEF Result
<1>1. ASSUME NEW e \in Engines, NEW asked \in Requests, Begin(e, asked) PROVE Result
  <2>1. /\ build'[e].asked = asked /\ build'[e].graph = BuildGraph(asked.project)
        /\ build'[e].dist = GetDistances(BuildGraph(asked.project), asked.target)
        /\ \A f \in Engines \ {e} : build'[f] = build[f]
    BY <1>1, BeginStarts
  <2>2. asked.target \in Paths
    BY <1>1 DEF Begin, Files
  <2>3. ShortestIn(BuildGraph(asked.project), asked.target,
                   GetDistances(BuildGraph(asked.project), asked.target))
    BY <2>2, BuildGraphIsAGraph, SearchIsShortest
  <2>4. MeasuresWell(build'[e])
    BY <2>1, <2>3 DEF MeasuresWell
  <2> QED
    BY <2>1, <2>4 DEF Result
<1>2. ASSUME NEW e \in Engines, Visit(e) PROVE Result
  BY <1>2, <1>a, VisitGoesOn DEF Visit, At
<1>3. ASSUME NEW e \in Engines, Store(e) PROVE Result
  BY <1>3, <1>a, StoreGoesOn DEF Store, At
<1>4. ASSUME NEW e \in Engines, Fetch(e) PROVE Result
  BY <1>4, <1>a, FetchGoesOn DEF Fetch, At
<1>5. ASSUME NEW e \in Engines, LookupFails(e) PROVE Result
  <2>1. Fails(e) /\ build[e].pc # "idle"
    BY <1>5 DEF LookupFails, At
  <2> QED
    BY <1>a, <2>1, FailsGoesOn
<1>6. ASSUME NEW e \in Engines, Stat(e) PROVE Result
  BY <1>6, <1>a, StatGoesOn DEF Stat, At
<1>7. ASSUME NEW e \in Engines, Parse(e) PROVE Result
  BY <1>7, <1>a, ParseGoesOn DEF Parse, At
<1>8. ASSUME NEW e \in Engines, StoreIndex(e) PROVE Result
  BY <1>8, <1>a, StoreIndexGoesOn DEF StoreIndex, At
<1>9. ASSUME NEW e \in Engines, Restart(e) PROVE Result
  <2>1. build'[e] = NoBuild /\ \A f \in Engines \ {e} : build'[f] = build[f]
    BY <1>9, Updated DEF Restart, Shapes
  <2>2. MeasuresWell(NoBuild)
    BY DEF MeasuresWell, NoBuild
  <2> QED
    BY <2>1, <2>2 DEF Result
<1>10. ASSUME NEW w \in Saves, Save(w.project, w.module, w.text) PROVE Result
  BY <1>10, <1>b DEF Save
<1>11. CASE UNCHANGED vars
  <2>1. Result
    BY <1>11, <1>b DEF vars
  <2> QED
    BY <2>1 DEF Result
<1>12. Result
  BY <1>1, <1>2, <1>3, <1>4, <1>5, <1>6, <1>7, <1>8, <1>9, <1>10, <1>11, <1>b DEF Next, vars
<1> QED
  BY <1>12 DEF Result

\* The distance of a module is the length of the shortest chain of imports from
\* the target, and it has one exactly when there is a chain, in every graph.
THEOREM DistancesShortest == Spec => []DistancesAreShortest
<1> DEFINE Inv == \A e \in Engines : MeasuresWell(build[e])
<1>1. Init => Inv
  BY DEF Init, MeasuresWell, NoBuild
<1>2. Shapes /\ Inv /\ [Next]_vars => Inv'
  <2>1. Inv' <=> \A e \in Engines : MeasuresWell(build'[e])
    BY DEF MeasuresWell, ShortestIn
  <2> QED
    BY <2>1, MeasuresStep
<1>3. Inv => DistancesAreShortest
  BY DistancesByBuild
<1> HIDE DEF Inv
<1> QED
  BY <1>1, <1>2, <1>3, ShapesInit, ShapesStep, PTL DEF Spec

=============================================================================
