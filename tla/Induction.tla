----------------------------- MODULE Induction -----------------------------
(***************************************************************************)
(* Lemmas about numbers that proofs of several components need.  Induction *)
(* is over a set of numbers here, not over a predicate: the least number   *)
(* principle follows from the well-foundedness of strict inclusion.        *)
(***************************************************************************)
EXTENDS Integers, FiniteSets, Functions, FiniteSetTheorems, TLAPS

(* Every set of natural numbers that has a member has a least one.         *)
LEMMA LeastNatural ==
    ASSUME NEW T \in SUBSET Nat, T # {}
    PROVE  \E x \in T : \A y \in T : x <= y
<1>1. PICK n \in T : TRUE
  OBVIOUS
<1>. DEFINE Below == {0..k : k \in {k \in T : k <= n}}
<1>2. Below \subseteq FiniteSubsetsOf(Nat)
  <2>1. ASSUME NEW k \in T PROVE 0..k \in SUBSET Nat /\ IsFiniteSet(0..k)
    BY FS_Interval
  <2>. QED  BY <2>1 DEF FiniteSubsetsOf
<1>3. Below # {}
  BY <1>1
<1>4. PICK w \in Below : \A v \in Below : <<v, w>> \notin StrictSubsetOrdering(Nat)
  <2>1. IsWellFoundedOn(StrictSubsetOrdering(Nat), FiniteSubsetsOf(Nat))
    BY FS_StrictSubsetOrderingWellFounded
  <2>. HIDE DEF Below
  <2>. QED  BY <1>2, <1>3, <2>1, WFMin
<1>5. PICK x \in T : x <= n /\ w = 0..x
  OBVIOUS
<1>6. ASSUME NEW y \in T, y < x PROVE FALSE
  <2>1. 0..y \in Below
    BY <1>5, <1>6
  <2>2. x \in 0..x /\ x \notin 0..y
    BY <1>6
  <2>3. 0..y \in SUBSET Nat /\ 0..x \in SUBSET Nat /\ 0..y \subseteq 0..x /\ 0..y # 0..x
    BY <1>6, <2>2
  <2>4. <<0..y, 0..x>> \in StrictSubsetOrdering(Nat)
    BY <2>3 DEF StrictSubsetOrdering
  <2>. QED  BY <2>1, <2>4, <1>4, <1>5
<1>. QED  BY <1>6

(* A set of natural numbers with zero and every successor is all of them.  *)
LEMMA NaturalsFromZero ==
    ASSUME NEW S \in SUBSET Nat, 0 \in S, \A n \in S : n + 1 \in S
    PROVE  S = Nat
<1>. SUFFICES ASSUME Nat \ S # {} PROVE FALSE
  OBVIOUS
<1>1. PICK x \in Nat \ S : \A y \in Nat \ S : x <= y
  BY LeastNatural
<1>2. x - 1 \in S
  BY <1>1
<1>. QED  BY <1>1, <1>2

(* The rank of a member of a finite set of numbers: a position in the set,  *)
(* and a different one for each member.                                    *)
LEMMA RankIsAPosition ==
    ASSUME NEW S \in SUBSET Int, IsFiniteSet(S), NEW n \in S
    PROVE  Cardinality({m \in S : m <= n}) \in 1..Cardinality(S)
<1>. DEFINE Upto == {m \in S : m <= n}
<1>1. IsFiniteSet(Upto) /\ Cardinality(Upto) <= Cardinality(S)
  BY FS_Subset
<1>2. Cardinality(S) \in Nat /\ Cardinality(Upto) \in Nat /\ Upto # {}
  BY <1>1, FS_CardinalityType
<1>3. Cardinality(Upto) # 0
  BY <1>1, <1>2, FS_EmptySet
<1>4. Cardinality(Upto) \in 1..Cardinality(S)
  <2>. HIDE DEF Upto
  <2>. QED  BY <1>1, <1>2, <1>3
<1>. QED  BY <1>4

LEMMA RankIsInjective ==
    ASSUME NEW S \in SUBSET Int, IsFiniteSet(S), NEW a \in S, NEW b \in S,
           Cardinality({m \in S : m <= a}) = Cardinality({m \in S : m <= b})
    PROVE  a = b
<1>. DEFINE Upto(n) == {m \in S : m <= n}
<1>1. ASSUME NEW c \in S, NEW d \in S, c < d
      PROVE  Cardinality(Upto(c)) # Cardinality(Upto(d))
  <2>1. \A m \in S : m <= c => m <= d
    BY <1>1
  <2>2. Upto(c) \in SUBSET Upto(d)
    BY <2>1
  <2>3. d \in Upto(d) /\ d \notin Upto(c)
    BY <1>1
  <2>4. IsFiniteSet(Upto(d))
    BY FS_Subset
  <2>. HIDE DEF Upto
  <2>. QED  BY <2>2, <2>3, <2>4, FS_Subset
<1>2. Cardinality(Upto(a)) = Cardinality(Upto(b))
  OBVIOUS
<1>. HIDE DEF Upto
<1>. QED  BY <1>1, <1>2

(* The members of a finite set of numbers can be counted in their order:   *)
(* every number up to its cardinality is the rank of one of them.          *)
LEMMA RankIsOnto ==
    ASSUME NEW S \in SUBSET Int, IsFiniteSet(S), NEW i \in 1..Cardinality(S)
    PROVE  \E n \in S : Cardinality({m \in S : m <= n}) = i
<1>. DEFINE rank == [n \in S |-> Cardinality({m \in S : m <= n})]
            N == Cardinality(S)
<1>1. N \in Nat /\ IsFiniteSet(1..N) /\ Cardinality(1..N) = N
  BY FS_CardinalityType, FS_Interval
<1>2. rank \in [S -> 1..N]
  BY RankIsAPosition
<1>3. \A a, b \in S : rank[a] = rank[b] => a = b
  BY RankIsInjective
<1>. HIDE DEF rank
<1>4. rank \in Injection(S, 1..N)
  BY <1>2, <1>3 DEF Injection, IsInjective
<1>5. rank \in Surjection(S, 1..N)
  BY <1>1, <1>4, FS_Injection
<1>6. PICK n \in S : rank[n] = i
  BY <1>5 DEF Surjection
<1>. QED  BY <1>6 DEF rank

(* A step may be repeated any number of times: there is a function of the  *)
(* number of times, as a recursive definition has it.                      *)
LEMMA Iterates ==
    ASSUME NEW S, NEW c \in S, NEW step \in [S -> S], NEW N \in Nat
    PROVE  \E f \in [0..N -> S] : f[0] = c /\ \A k \in 1..N : f[k] = step[f[k - 1]]
<1>. DEFINE Runs(n, f) == f \in [0..n -> S] /\ f[0] = c /\ \A k \in 1..n : f[k] = step[f[k - 1]]
            T == {n \in Nat : \E f : Runs(n, f)}
<1>1. 0 \in T
  <2>1. Runs(0, [k \in 0..0 |-> c])
    OBVIOUS
  <2>. QED  BY <2>1
<1>2. ASSUME NEW n \in T PROVE n + 1 \in T
  <2>1. PICK f : Runs(n, f)
    OBVIOUS
  <2>2. PICK g : g = [k \in 0..(n + 1) |-> IF k = n + 1 THEN step[f[n]] ELSE f[k]]
    OBVIOUS
  <2>3. f[n] \in S /\ step[f[n]] \in S
    BY <2>1
  <2>4. g \in [0..(n + 1) -> S] /\ g[0] = c
    BY <2>1, <2>2, <2>3
  <2>5. ASSUME NEW k \in 1..(n + 1) PROVE g[k] = step[g[k - 1]]
    BY <2>1, <2>2, <2>5
  <2>6. Runs(n + 1, g)
    BY <2>4, <2>5
  <2>. HIDE DEF Runs
  <2>. QED  BY <2>6
<1>3. T = Nat
  <2>. HIDE DEF T
  <2>1. T \in SUBSET Nat
    BY DEF T
  <2>. QED  BY <1>1, <1>2, <2>1, NaturalsFromZero
<1>. QED  BY <1>3

-----------------------------------------------------------------------------
(* Sums.  SumFunction chooses the order in which it adds; what it returns  *)
(* does not depend on it.                                                  *)

(* A family of subsets of a finite set that has each set of which it has   *)
(* all the smaller ones has them all.                                      *)
LEMMA SubsetInduction ==
    ASSUME NEW D, IsFiniteSet(D), NEW P \in SUBSET (SUBSET D),
           \A s \in SUBSET D : (\A r \in SUBSET s : r # s => r \in P) => s \in P
    PROVE  P = SUBSET D
<1>. SUFFICES ASSUME (SUBSET D) \ P # {} PROVE FALSE
  OBVIOUS
<1>. DEFINE Left == (SUBSET D) \ P
<1>1. Left \subseteq FiniteSubsetsOf(D)
  BY FS_Subset DEF FiniteSubsetsOf
<1>2. PICK w \in Left : \A v \in Left : <<v, w>> \notin StrictSubsetOrdering(D)
  <2>1. IsWellFoundedOn(StrictSubsetOrdering(D), FiniteSubsetsOf(D))
    BY FS_StrictSubsetOrderingWellFounded
  <2>2. Left # {}
    OBVIOUS
  <2>. HIDE DEF Left
  <2>. QED  BY <1>1, <2>1, <2>2, WFMin
<1>3. ASSUME NEW r \in SUBSET w, r # w PROVE r \in P
  <2>1. r \in SUBSET D /\ w \in SUBSET D
    OBVIOUS
  <2>2. <<r, w>> \in StrictSubsetOrdering(D)
    BY <1>3, <2>1 DEF StrictSubsetOrdering
  <2>. QED  BY <1>2, <2>1, <2>2
<1>. QED  BY <1>3

(* What is added: finitely many numbers.                                   *)
Terms(f, D) == IsFiniteSet(D) /\ f \in [D -> Int]

Picked(s) == CHOOSE x \in s : TRUE

(* The sums over the subsets of D, as a recursive definition has them.     *)
AreSums(g, f, D) ==
    g = [s \in SUBSET D |-> IF s = {} THEN 0 ELSE f[Picked(s)] + g[s \ {Picked(s)}]]

LEMMA SumIsRecursive ==
    ASSUME NEW f
    PROVE  SumFunction(f) = (CHOOSE g : AreSums(g, f, DOMAIN f))[DOMAIN f]
  BY DEF SumFunction, SumFunctionOnSet, FoldFunctionOnSet, MapThenFoldSet, AreSums, Picked

LEMMA PickedIsMember == \A s : s # {} => Picked(s) \in s
  BY DEF Picked

LEMMA SumsExist ==
    ASSUME NEW D, IsFiniteSet(D), NEW f \in [D -> Int]
    PROVE  \E g \in [SUBSET D -> Int] : AreSums(g, f, D)
<1>. DEFINE next(g) == [s \in SUBSET D |->
                           IF s = {} THEN 0 ELSE f[Picked(s)] + g[s \ {Picked(s)}]]
            Upto(n, g) == /\ g \in [SUBSET D -> Int]
                          /\ \A s \in SUBSET D : Cardinality(s) <= n => g[s] = next(g)[s]
            T == {n \in Nat : \E g : Upto(n, g)}
<1>1. ASSUME NEW s \in SUBSET D
      PROVE  /\ IsFiniteSet(s) /\ Cardinality(s) \in Nat /\ Cardinality(s) <= Cardinality(D)
             /\ s # {} => /\ Picked(s) \in s /\ s \ {Picked(s)} \in SUBSET D
                          /\ Cardinality(s \ {Picked(s)}) = Cardinality(s) - 1
             /\ Cardinality(s) = 0 => s = {}
  BY PickedIsMember, FS_Subset, FS_CardinalityType, FS_RemoveElement, FS_EmptySet
<1>2. ASSUME NEW g \in [SUBSET D -> Int] PROVE next(g) \in [SUBSET D -> Int]
  BY <1>1
<1>3. 0 \in T
  <2>1. PICK g : g = [s \in SUBSET D |-> 0]
    OBVIOUS
  <2>2. g \in [SUBSET D -> Int]
    BY <2>1
  <2>3. ASSUME NEW s \in SUBSET D, Cardinality(s) <= 0 PROVE g[s] = next(g)[s]
    <3>0. Cardinality(s) \in Nat /\ (Cardinality(s) = 0 => s = {})
      BY <1>1
    <3>1. s = {}
      BY <2>3, <3>0
    <3>. QED  BY <2>1, <3>1
  <2>. QED  BY <2>2, <2>3
<1>4. ASSUME NEW n \in T PROVE n + 1 \in T
  <2>1. PICK g : Upto(n, g)
    OBVIOUS
  <2>2. PICK h : h = next(g)
    OBVIOUS
  <2>3. h \in [SUBSET D -> Int]
    BY <1>2, <2>1, <2>2
  <2>4. ASSUME NEW s \in SUBSET D, Cardinality(s) <= n + 1 PROVE h[s] = next(h)[s]
    <3>1. CASE s = {}
      BY <2>2, <3>1
    <3>2. CASE s # {}
      <4>1. PICK r : r = s \ {Picked(s)}
        OBVIOUS
      <4>2. r \in SUBSET D /\ Cardinality(r) <= n
        BY <1>1, <2>4, <3>2, <4>1
      <4>3. h[r] = g[r]
        BY <2>1, <2>2, <4>2
      <4>. QED  BY <2>2, <3>2, <4>1, <4>3
    <3>. QED  BY <3>1, <3>2
  <2>5. Upto(n + 1, h)
    BY <2>3, <2>4
  <2>. HIDE DEF Upto
  <2>. QED  BY <2>5
<1>5. T = Nat
  <2>1. T \in SUBSET Nat
    OBVIOUS
  <2>. HIDE DEF T
  <2>. QED  BY <1>3, <1>4, <2>1, NaturalsFromZero
<1>6. PICK g : Upto(Cardinality(D), g)
  BY <1>5, FS_CardinalityType
<1>7. \A s \in SUBSET D : g[s] = next(g)[s]
  BY <1>1, <1>6
<1>8. g = next(g)
  BY <1>6, <1>7
<1>. QED  BY <1>6, <1>8 DEF AreSums

(* Two of them agree on a set on which what they add agrees.               *)
LEMMA SumsAgree ==
    ASSUME NEW D, NEW E, NEW f, NEW e, NEW g, NEW h, AreSums(g, f, D), AreSums(h, e, E),
           NEW t \in SUBSET D, t \in SUBSET E, IsFiniteSet(t), \A x \in t : f[x] = e[x]
    PROVE  g[t] = h[t]
<1>. DEFINE P == {s \in SUBSET t : g[s] = h[s]}
<1>1. ASSUME NEW s \in SUBSET t, \A r \in SUBSET s : r # s => r \in P
      PROVE  s \in P
  <2>1. CASE s = {}
    BY <2>1 DEF AreSums
  <2>2. CASE s # {}
    <3>1. PICK x \in s : x = Picked(s)
      BY <2>2, PickedIsMember
    <3>2. s \ {x} \in SUBSET s /\ s \ {x} # s
      OBVIOUS
    <3>3. g[s \ {x}] = h[s \ {x}]
      BY <1>1, <3>2
    <3>4. g[s] = f[x] + g[s \ {x}] /\ h[s] = e[x] + h[s \ {x}]
      BY <2>2, <3>1 DEF AreSums
    <3>. QED  BY <3>3, <3>4
  <2>. QED  BY <2>1, <2>2
<1>2. P \in SUBSET (SUBSET t)
  OBVIOUS
<1>. HIDE DEF P
<1>3. P = SUBSET t
  BY <1>1, <1>2, SubsetInduction
<1>. QED  BY <1>3 DEF P

SumsOfNumbers(g, f, D) ==
    IsFiniteSet(D) /\ f \in [D -> Int] /\ g \in [SUBSET D -> Int] /\ AreSums(g, f, D)

(* Any member may be the last one added.                                   *)
LEMMA AnyOrder ==
    ASSUME NEW D, NEW f, NEW g, SumsOfNumbers(g, f, D), NEW t \in SUBSET D, NEW w \in t
    PROVE  g[t] = f[w] + g[t \ {w}]
<1>. USE DEF SumsOfNumbers
<1>. DEFINE P == {s \in SUBSET D : \A x \in s : g[s] = f[x] + g[s \ {x}]}
<1>1. ASSUME NEW s \in SUBSET D, \A r \in SUBSET s : r # s => r \in P
      PROVE  s \in P
  <2>. SUFFICES ASSUME NEW x \in s PROVE g[s] = f[x] + g[s \ {x}]
    OBVIOUS
  <2>1. PICK y \in s : y = Picked(s)
    BY PickedIsMember
  <2>2. g[s] = f[y] + g[s \ {y}]
    BY <2>1 DEF AreSums
  <2>3. CASE x # y
    <3>1. PICK r, q, z : r = s \ {y} /\ q = s \ {x} /\ z = s \ {x, y}
      OBVIOUS
    <3>2. r \in P /\ q \in P /\ x \in r /\ y \in q /\ r \ {x} = z /\ q \ {y} = z
      <4>1. r \in SUBSET s /\ r # s /\ q \in SUBSET s /\ q # s
        BY <3>1
      <4>2. x \in r /\ y \in q /\ r \ {x} = z /\ q \ {y} = z
        BY <2>3, <3>1
      <4>. QED  BY <1>1, <4>1, <4>2
    <3>3. g[r] = f[x] + g[z] /\ g[q] = f[y] + g[z]
      BY <3>2
    <3>4. f[x] \in Int /\ f[y] \in Int /\ g[z] \in Int
      BY <3>1
    <3>. QED  BY <2>2, <3>1, <3>3, <3>4
  <2>. QED  BY <2>2, <2>3
<1>2. P \in SUBSET (SUBSET D)
  OBVIOUS
<1>. HIDE DEF P
<1>3. P = SUBSET D
  BY <1>1, <1>2, SubsetInduction
<1>. QED  BY <1>3 DEF P

LEMMA SumIsOneOfThem ==
    ASSUME NEW D, IsFiniteSet(D), NEW f \in [D -> Int]
    PROVE  \E g \in [SUBSET D -> Int] : AreSums(g, f, D) /\ SumFunction(f) = g[D]
<1>1. PICK h \in [SUBSET D -> Int] : AreSums(h, f, D)
  BY SumsExist
<1>2. PICK g : g = CHOOSE any : AreSums(any, f, D)
  OBVIOUS
<1>3. AreSums(g, f, D) /\ SumFunction(f) = g[D]
  BY <1>1, <1>2, SumIsRecursive
<1>4. \A s \in SUBSET D : g[s] = h[s]
  BY <1>1, <1>3, SumsAgree, FS_Subset
<1>5. g = [s \in SUBSET D |-> g[s]]
  BY <1>3 DEF AreSums
<1>6. g \in [SUBSET D -> Int]
  BY <1>1, <1>4, <1>5
<1>. QED  BY <1>3, <1>6

(* An empty sum is zero, and a sum is any of its terms and the sum of the  *)
(* others.                                                                 *)
LEMMA EmptySum ==
    ASSUME NEW f, DOMAIN f = {}
    PROVE  SumFunction(f) = 0
<1>1. PICK g : g = [s \in SUBSET {} |-> 0]
  OBVIOUS
<1>2. AreSums(g, f, {})
  BY <1>1 DEF AreSums
<1>3. PICK h : h = CHOOSE any : AreSums(any, f, {})
  OBVIOUS
<1>4. AreSums(h, f, {}) /\ SumFunction(f) = h[{}]
  BY <1>2, <1>3, SumIsRecursive
<1>. QED  BY <1>4 DEF AreSums

LEMMA SumWithout ==
    ASSUME NEW D, NEW f, Terms(f, D), NEW x \in D
    PROVE  SumFunction(f) = f[x] + SumFunction([y \in D \ {x} |-> f[y]])
<1>. USE DEF Terms
<1>1. PICK E, e : E = D \ {x} /\ e = [y \in E |-> f[y]]
  OBVIOUS
<1>2. IsFiniteSet(E) /\ E \in SUBSET D /\ e \in [E -> Int]
  BY <1>1, FS_Subset
<1>3. PICK g \in [SUBSET D -> Int] : AreSums(g, f, D) /\ SumFunction(f) = g[D]
  BY SumIsOneOfThem
<1>4. PICK h \in [SUBSET E -> Int] : AreSums(h, e, E) /\ SumFunction(e) = h[E]
  BY <1>2, SumIsOneOfThem
<1>5. g[E] = h[E]
  BY <1>1, <1>2, <1>3, <1>4, SumsAgree
<1>6. g[D] = f[x] + g[E]
  <2>0. SumsOfNumbers(g, f, D)
    BY <1>3 DEF SumsOfNumbers
  <2>1. D \in SUBSET D
    OBVIOUS
  <2>2. g[D] = f[x] + g[D \ {x}]
    BY <2>0, <2>1, AnyOrder
  <2>. QED  BY <1>1, <2>2
<1>. QED  BY <1>1, <1>3, <1>4, <1>5, <1>6

LEMMA SumType ==
    ASSUME NEW D, NEW f, Terms(f, D)
    PROVE  SumFunction(f) \in Int
<1>. USE DEF Terms
<1>1. PICK g \in [SUBSET D -> Int] : AreSums(g, f, D) /\ SumFunction(f) = g[D]
  BY SumIsOneOfThem
<1>. QED  BY <1>1

(* A sum over numbers in a row is the sum without the last, and the last.  *)
LEMMA SumToTheLast ==
    ASSUME NEW a \in Int, NEW b \in Int, a <= b, NEW f, Terms(f, a..b)
    PROVE  SumFunction(f) = SumFunction([i \in a..(b - 1) |-> f[i]]) + f[b]
<1>0. PICK D, E : D = a..b /\ E = a..(b - 1)
  OBVIOUS
<1>a. b \in D /\ D \ {b} = E
  BY <1>0
<1>b. Terms(f, D)
  BY <1>0
<1>2. SumFunction(f) = f[b] + SumFunction([i \in E |-> f[i]])
  <2>1. SumFunction(f) = f[b] + SumFunction([i \in D \ {b} |-> f[i]])
    BY <1>a, <1>b, SumWithout
  <2>. QED  BY <1>a, <2>1
<1>3. PICK e : e = [i \in a..(b - 1) |-> f[i]]
  OBVIOUS
<1>4. Terms(e, a..(b - 1))
  BY <1>3, FS_Interval DEF Terms
<1>5. SumFunction(e) \in Int /\ f[b] \in Int
  BY <1>0, <1>a, <1>4, SumType DEF Terms
<1>. QED  BY <1>0, <1>2, <1>3, <1>5

(* A sum of natural numbers is one, and no less than any of its terms.     *)
LEMMA SumOfNaturals ==
    ASSUME NEW D, IsFiniteSet(D), NEW f \in [D -> Nat]
    PROVE  SumFunction(f) \in Nat /\ \A x \in D : f[x] <= SumFunction(f)
<1>1. f \in [D -> Int]
  OBVIOUS
<1>2. PICK g \in [SUBSET D -> Int] : AreSums(g, f, D) /\ SumFunction(f) = g[D]
  BY <1>1, SumIsOneOfThem
<1>. DEFINE P == {s \in SUBSET D : g[s] \in Nat}
<1>3. ASSUME NEW s \in SUBSET D, \A r \in SUBSET s : r # s => r \in P PROVE s \in P
  <2>1. CASE s = {}
    BY <1>2, <2>1 DEF AreSums
  <2>2. CASE s # {}
    <3>1. PICK x \in s : x = Picked(s)
      BY <2>2, PickedIsMember
    <3>2. s \ {x} \in SUBSET s /\ s \ {x} # s
      OBVIOUS
    <3>3. g[s \ {x}] \in Nat
      BY <1>3, <3>2
    <3>4. g[s] = f[x] + g[s \ {x}] /\ f[x] \in Nat
      BY <1>2, <2>2, <3>1 DEF AreSums
    <3>. QED  BY <3>3, <3>4
  <2>. QED  BY <2>1, <2>2
<1>4. P \in SUBSET (SUBSET D)
  OBVIOUS
<1>. HIDE DEF P
<1>5. P = SUBSET D
  BY <1>3, <1>4, SubsetInduction
<1>6. \A s \in SUBSET D : g[s] \in Nat
  BY <1>5 DEF P
<1>7. ASSUME NEW x \in D PROVE f[x] <= g[D]
  <2>0. D \in SUBSET D
    OBVIOUS
  <2>3. SumsOfNumbers(g, f, D)
    BY <1>1, <1>2 DEF SumsOfNumbers
  <2>1. g[D] = f[x] + g[D \ {x}]
    BY <2>0, <2>3, AnyOrder
  <2>2. g[D \ {x}] \in Nat /\ f[x] \in Nat
    BY <1>6
  <2>. QED  BY <2>1, <2>2
<1>. QED  BY <1>2, <1>6, <1>7

(* Two sums over numbers in a row, of the same terms one place apart, are  *)
(* the same.                                                               *)
LEMMA SumShifted ==
    ASSUME NEW n \in Nat, NEW f \in [0..(n - 1) -> Int]
    PROVE  SumFunction([i \in 1..n |-> f[i - 1]]) = SumFunction(f)
<1>. DEFINE before(k) == [i \in 0..(k - 1) |-> f[i]]
            after(k) == [i \in 1..k |-> f[i - 1]]
            T == {k \in Nat : k <= n => SumFunction(after(k)) = SumFunction(before(k))}
<1>1. 0 \in T
  <2>1. DOMAIN after(0) = {} /\ DOMAIN before(0) = {}
    OBVIOUS
  <2>2. SumFunction(after(0)) = 0 /\ SumFunction(before(0)) = 0
    BY <2>1, EmptySum
  <2>. QED  BY <2>2
<1>2. ASSUME NEW k \in T PROVE k + 1 \in T
  <2>. SUFFICES ASSUME k + 1 <= n
               PROVE  SumFunction(after(k + 1)) = SumFunction(before(k + 1))
    OBVIOUS
  <2>0. SumFunction(after(k)) = SumFunction(before(k))
    OBVIOUS
  <2>1. PICK a, b : a = after(k + 1) /\ b = before(k + 1)
    OBVIOUS
  <2>2. Terms(a, 1..(k + 1)) /\ Terms(b, 0..k)
    <3>1. IsFiniteSet(1..(k + 1)) /\ IsFiniteSet(0..k)
      BY FS_Interval
    <3>. QED  BY <2>1, <3>1 DEF Terms
  <2>3. SumFunction(a) = SumFunction([i \in 1..((k + 1) - 1) |-> a[i]]) + a[k + 1]
    <3>1. PICK m \in Int : m = k + 1 /\ 1 <= m
      OBVIOUS
    <3>2. Terms(a, 1..m) /\ 1 \in Int
      BY <2>2, <3>1
    <3>3. SumFunction(a) = SumFunction([i \in 1..(m - 1) |-> a[i]]) + a[m]
      BY <3>1, <3>2, SumToTheLast
    <3>. QED  BY <3>1, <3>3
  <2>6. SumFunction(b) = SumFunction([i \in 0..(k - 1) |-> b[i]]) + b[k]
    <3>1. 0 <= k /\ k \in Int /\ 0 \in Int
      OBVIOUS
    <3>. QED  BY <2>2, <3>1, SumToTheLast
  <2>4. [i \in 1..((k + 1) - 1) |-> a[i]] = after(k) /\ [i \in 0..(k - 1) |-> b[i]] = before(k)
    BY <2>1
  <2>5. a[k + 1] = f[k] /\ b[k] = f[k]
    BY <2>1
  <2>. QED
    <3>. HIDE DEF after, before
    <3>. QED  BY <2>0, <2>1, <2>3, <2>4, <2>5, <2>6
<1>3. T = Nat
  <2>1. T \in SUBSET Nat
    OBVIOUS
  <2>. HIDE DEF T
  <2>. QED  BY <1>1, <1>2, <2>1, NaturalsFromZero
<1>4. SumFunction(after(n)) = SumFunction(before(n))
  <2>1. n \in T
    BY <1>3
  <2>. HIDE DEF after, before
  <2>. QED  BY <2>1
<1>5. before(n) = f
  OBVIOUS
<1>. QED  BY <1>4, <1>5

=============================================================================
