---------------------------- MODULE RowPathProofs ----------------------------
(***************************************************************************)
(* The path of a row, for every workbook, table, contract and limit: the   *)
(* sheet that its recipe is read from, the window it is fetched in, the    *)
(* recipe that is run on it and the join that classifies it.               *)
(*                                                                         *)
(* The programs along this path are loops over lists.  A loop that filters *)
(* is At, the elements at a set of places in their order; another one is a *)
(* function on 0 .. n.  Both are understood once, in the first section.    *)
(* What must hold after every turn of a loop is shown of the first turn    *)
(* after which it would not (Smallest).                                    *)
(*                                                                         *)
(* Three invariants stand on this.  AuthoringInv: what each step of a      *)
(* resolution has found is of the sheet that was parsed, and what a later  *)
(* step finds is still empty.  PlanInv and FetchInv: the windows cut so    *)
(* far and the open one tile the dates visited.  EngineInv: after n steps  *)
(* of the executor every raw row is accounted for, and the build has the   *)
(* shape that the replay of the sample had after n steps.                  *)
(***************************************************************************)
EXTENDS BatchFetch, Engine, Authoring, SequenceTheorems, FiniteSetTheorems, TLAPS
------------------------------------------------------------------------------
(* Lists taken from places of lists, and lists joined.                     *)

\* Of some numbers one is the smallest.
LEMMA Smallest ==
  ASSUME NEW T, T \subseteq Nat, T # {}
  PROVE  \E x \in T : \A y \in T : x <= y
<1> DEFINE Below == {0..x : x \in T}
<1>1. IsWellFoundedOn(StrictSubsetOrdering(Nat), FiniteSubsetsOf(Nat))
  BY FS_StrictSubsetOrderingWellFounded
<1>2. Below \subseteq FiniteSubsetsOf(Nat) /\ Below # {}
  <2>1. \A x \in T : 0..x \in SUBSET Nat /\ IsFiniteSet(0..x)
    BY FS_Interval
  <2> QED
    BY <2>1 DEF FiniteSubsetsOf
<1>3. PICK B \in Below : \A C \in Below : ~ (<<C, B>> \in StrictSubsetOrdering(Nat))
  BY <1>1, <1>2, WFMin
<1>4. PICK x \in T : B = 0..x
  BY <1>3
<1>5. ASSUME NEW y \in T PROVE x <= y
  <2>1. SUFFICES ASSUME y < x PROVE FALSE
    OBVIOUS
  <2>2. 0..y \subseteq 0..x /\ 0..y # 0..x /\ 0..x \in SUBSET Nat /\ 0..y \in SUBSET Nat
    <3>1. x \in Nat /\ y \in Nat /\ x \in 0..x /\ x \notin 0..y
      BY <2>1
    <3> QED
      BY <2>1, <3>1
  <2>3. <<0..y, 0..x>> \in StrictSubsetOrdering(Nat)
    BY <2>2 DEF StrictSubsetOrdering
  <2> QED
    BY <1>3, <1>4, <2>3
<1> QED
  BY <1>5

\* The smallest of a finite set of places comes first, and each place once.
LEMMA RankIsPlace ==
  ASSUME NEW S \in SUBSET Int, IsFiniteSet(S)
  PROVE  /\ Cardinality(S) \in Nat
         /\ InOrder(S) \in [1..Cardinality(S) -> S]
         /\ \A i \in S : \E n \in 1..Cardinality(S) : InOrder(S)[n] = i
         /\ \A m, n \in 1..Cardinality(S) : m < n => InOrder(S)[m] < InOrder(S)[n]
<1> DEFINE Upto(i) == {j \in S : j <= i}
           rank == [i \in S |-> Cardinality(Upto(i))]
           N == Cardinality(S)
<1>1. N \in Nat /\ IsFiniteSet(1..N) /\ Cardinality(1..N) = N
  BY FS_CardinalityType, FS_Interval
<1>2. ASSUME NEW i \in S
      PROVE  /\ IsFiniteSet(Upto(i)) /\ Cardinality(Upto(i)) \in Nat
             /\ Cardinality(Upto(i)) <= N /\ Cardinality(Upto(i)) # 0
  <2>1. Upto(i) \in SUBSET S /\ i \in Upto(i)
    OBVIOUS
  <2> QED
    BY <2>1, FS_Subset, FS_CardinalityType, FS_EmptySet
<1>3. ASSUME NEW i \in S, NEW k \in S, i < k
      PROVE  Cardinality(Upto(i)) < Cardinality(Upto(k))
  <2>1. Upto(i) \in SUBSET Upto(k) /\ k \in Upto(k) /\ k \notin Upto(i)
    <3>1. i \in Int /\ k \in Int
      OBVIOUS
    <3>2. ASSUME NEW j \in Upto(i) PROVE j \in Upto(k)
      <4>1. j \in Int /\ j \in S /\ j <= i
        OBVIOUS
      <4> QED
        BY <1>3, <3>1, <4>1
    <3>3. k <= k /\ ~(k <= i)
      BY <1>3, <3>1
    <3> QED
      BY <3>2, <3>3
  <2>2. Cardinality(Upto(i)) <= Cardinality(Upto(k)) /\ Cardinality(Upto(i)) # Cardinality(Upto(k))
    <3> HIDE DEF Upto
    <3> QED
      BY <1>2, <2>1, FS_Subset
  <2> QED
    BY <1>2, <2>2
<1>4. rank \in Injection(S, 1..N)
  <2>1. rank \in [S -> 1..N]
    BY <1>1, <1>2
  <2>2. \A i, k \in S : rank[i] = rank[k] => i = k
    BY <1>2, <1>3
  <2> HIDE DEF rank, N
  <2> QED
    BY <2>1, <2>2 DEF Injection, IsInjective
<1>5. \A n \in 1..N : \E i \in S : rank[i] = n
  <2>1. rank \in Surjection(S, 1..N)
    BY <1>1, <1>4, FS_Injection
  <2> QED
    BY <2>1 DEF Surjection
<1>6. ASSUME NEW n \in 1..N
      PROVE  InOrder(S)[n] \in S /\ Cardinality(Upto(InOrder(S)[n])) = n
  <2>1. InOrder(S)[n] = CHOOSE i \in S : Cardinality(Upto(i)) = n
    BY DEF InOrder
  <2>2. \E i \in S : Cardinality(Upto(i)) = n
    BY <1>5
  <2> HIDE DEF Upto, N
  <2> QED
    BY <2>1, <2>2
<1>7. ASSUME NEW n \in 1..N PROVE InOrder(S)[n] \in S /\ rank[InOrder(S)[n]] = n
  <2> HIDE DEF Upto, N
  <2> QED
    BY <1>6
<1>8. ASSUME NEW i \in S PROVE \E n \in 1..N : InOrder(S)[n] = i
  <2>1. rank[i] \in 1..N
    BY <1>1, <1>2
  <2>2. \A k \in S : rank[k] = rank[i] => k = i
    BY <1>2, <1>3
  <2> HIDE DEF rank, N
  <2> QED
    BY <1>7, <2>1, <2>2
<1>9. ASSUME NEW m \in 1..N, NEW n \in 1..N, m < n PROVE InOrder(S)[m] < InOrder(S)[n]
  <2> DEFINE i == InOrder(S)[m]
             k == InOrder(S)[n]
  <2>1. i \in S /\ k \in S /\ rank[i] = m /\ rank[k] = n
    BY <1>7, <1>9
  <2>2. k < i => rank[k] < rank[i]
    BY <1>3, <2>1
  <2> HIDE DEF rank, i, k
  <2>3. i < k
    BY <1>1, <1>9, <2>1, <2>2
  <2> QED
    BY <2>3 DEF i, k
<1> QED
  <2>1. InOrder(S) \in [1..N -> S]
    <3> DEFINE Place(n) == CHOOSE i \in S : Cardinality(Upto(i)) = n
    <3>1. InOrder(S) = [n \in 1..N |-> Place(n)]
      BY DEF InOrder
    <3>2. \A n \in 1..N : InOrder(S)[n] \in S
      BY <1>7
    <3> HIDE DEF N, Place
    <3> QED
      BY <3>1, <3>2
  <2> QED
    BY <1>1, <1>8, <1>9, <2>1

\* The elements at some places: one for each place, and of no other place.
LEMMA AtPlaces ==
  ASSUME NEW s, NEW places \in SUBSET Int, IsFiniteSet(places)
  PROVE  /\ Cardinality(places) \in Nat
         /\ DOMAIN At(s, places) = 1..Cardinality(places)
         /\ \A n \in DOMAIN At(s, places) : \E i \in places : At(s, places)[n] = s[i]
         /\ \A i \in places : \E n \in DOMAIN At(s, places) : At(s, places)[n] = s[i]
<1> DEFINE N == Cardinality(places)
           order == InOrder(places)
<1>1. /\ N \in Nat /\ order \in [1..N -> places]
      /\ \A i \in places : \E n \in 1..N : order[n] = i
  BY RankIsPlace
<1> HIDE DEF N, order
<1>2. At(s, places) = [n \in 1..N |-> s[order[n]]]
  BY <1>1 DEF At, order
<1>3. DOMAIN At(s, places) = 1..N
  BY <1>2
<1>4. ASSUME NEW n \in 1..N PROVE \E i \in places : At(s, places)[n] = s[i]
  BY <1>1, <1>2
<1>5. ASSUME NEW i \in places PROVE \E n \in 1..N : At(s, places)[n] = s[i]
  BY <1>1, <1>2
<1>6. Cardinality(places) = N
  BY DEF N
<1> HIDE DEF N
<1> QED
  BY <1>1, <1>3, <1>4, <1>5, <1>6

\* A fold over 1..N with a typed step exists.
LEMMA Iterated ==
  ASSUME NEW D, NEW start \in D, NEW N \in Nat, NEW turn \in [1..N -> [D -> D]]
  PROVE  \E f \in [0..N -> D] : f[0] = start /\ \A n \in 1..N : f[n] = turn[n][f[n - 1]]
<1> DEFINE Good(k) == \E f \in [0..k -> D] :
                        f[0] = start /\ \A n \in 1..k : f[n] = turn[n][f[n - 1]]
<1>1. Good(0)
  <2> DEFINE g == [n \in 0..0 |-> start]
  <2>1. g \in [0..0 -> D] /\ g[0] = start /\ \A n \in 1..0 : g[n] = turn[n][g[n - 1]]
    OBVIOUS
  <2> QED
    BY <2>1
<1>2. ASSUME NEW k \in 1..N, Good(k - 1) PROVE Good(k)
  <2>1. PICK h \in [0..(k - 1) -> D] :
          h[0] = start /\ \A n \in 1..(k - 1) : h[n] = turn[n][h[n - 1]]
    BY <1>2
  <2> DEFINE g == [n \in 0..k |-> IF n = k THEN turn[k][h[k - 1]] ELSE h[n]]
  <2>2. turn[k][h[k - 1]] \in D
    <3>1. k - 1 \in 0..(k - 1) /\ turn[k] \in [D -> D]
      OBVIOUS
    <3> QED
      BY <2>1, <3>1
  <2>3. g \in [0..k -> D] /\ g[0] = start
    BY <2>1, <2>2
  <2>4. ASSUME NEW n \in 1..k PROVE g[n] = turn[n][g[n - 1]]
    BY <2>1
  <2> QED
    BY <2>3, <2>4
<1>3. ASSUME ~Good(N) PROVE FALSE
  <2> DEFINE W == {k \in 0..N : ~Good(k)}
  <2> HIDE DEF Good
  <2>1. W \subseteq Nat /\ W # {}
    BY <1>3
  <2>2. PICK k \in W : \A i \in W : k <= i
    <3> HIDE DEF W
    <3> QED
      BY <2>1, Smallest
  <2>3. k # 0 /\ k \in 1..N /\ Good(k - 1)
    BY <1>1, <2>2
  <2> QED
    BY <1>2, <2>2, <2>3
<1> QED
  BY <1>3

\* Two lists one behind the other have the members of both.
LEMMA Joint ==
  ASSUME NEW T, NEW s \in Seq(T), NEW u \in Seq(T)
  PROVE  s \o u \in Seq(T) /\ ToSet(s \o u) = ToSet(s) \union ToSet(u)
<1>1. /\ s \o u \in Seq(T) /\ Len(s \o u) = Len(s) + Len(u)
      /\ DOMAIN (s \o u) = 1..(Len(s) + Len(u)) /\ DOMAIN s = 1..Len(s) /\ DOMAIN u = 1..Len(u)
      /\ Len(s) \in Nat /\ Len(u) \in Nat
  OBVIOUS
<1>2. ASSUME NEW i \in DOMAIN s PROVE i \in DOMAIN (s \o u) /\ (s \o u)[i] = s[i]
  BY <1>1
<1>3. ASSUME NEW i \in DOMAIN u PROVE i + Len(s) \in DOMAIN (s \o u) /\ (s \o u)[i + Len(s)] = u[i]
  BY <1>1
<1>4. ASSUME NEW i \in DOMAIN (s \o u)
      PROVE  \/ i \in DOMAIN s /\ (s \o u)[i] = s[i]
             \/ i - Len(s) \in DOMAIN u /\ (s \o u)[i] = u[i - Len(s)]
  BY <1>1
<1> DEFINE w == s \o u
<1> HIDE DEF w
<1>5. ASSUME NEW x PROVE x \in ToSet(w) <=> x \in ToSet(s) \/ x \in ToSet(u)
  <2>1. x \in ToSet(w) => x \in ToSet(s) \/ x \in ToSet(u)
    BY <1>4 DEF ToSet, w
  <2>2. x \in ToSet(s) => x \in ToSet(w)
    BY <1>2 DEF ToSet, w
  <2>3. x \in ToSet(u) => x \in ToSet(w)
    BY <1>3 DEF ToSet, w
  <2> QED
    BY <2>1, <2>2, <2>3
<1>6. ToSet(w) = ToSet(s) \union ToSet(u)
  BY <1>5
<1> QED
  BY <1>1, <1>6 DEF w

\* Joined lists have the members of each, and no others.
LEMMA Flattened ==
  ASSUME NEW T, NEW parts \in Seq(Seq(T))
  PROVE  /\ FlattenSeq(parts) \in Seq(T)
         /\ \A x : x \in ToSet(FlattenSeq(parts)) <=> \E k \in DOMAIN parts : x \in ToSet(parts[k])
<1> DEFINE N == Len(parts)
           D == Seq(T)
           Turn(f, n) == IF n = 1 THEN parts[n] ELSE f[n - 1] \o parts[n]
           turn == [n \in 1..N |-> [s \in D |-> s \o parts[n]]]
           Right(s, k) == s \in D /\ \A x : x \in ToSet(s) <=> \E i \in 1..k : x \in ToSet(parts[i])
<1>1. CASE N = 0
  BY <1>1 DEF FlattenSeq, ToSet
<1>2. CASE N # 0
  <2>1. N \in Nat /\ (\A n \in 1..N : parts[n] \in D) /\ <<>> \in D
    OBVIOUS
  <2>2. \A s, u \in D : s \o u \in D /\ ToSet(s \o u) = ToSet(s) \union ToSet(u)
    BY Joint
  <2> HIDE DEF D, N
  <2>3. PICK f \in [0..N -> D] : f[0] = <<>> /\ \A n \in 1..N : f[n] = turn[n][f[n - 1]]
    <3>1. turn \in [1..N -> [D -> D]]
      BY <2>1, <2>2
    <3> DEFINE empty == <<>>
    <3>2. empty \in D /\ N \in Nat
      BY <2>1
    <3> HIDE DEF turn, empty
    <3>3. \E f \in [0..N -> D] : f[0] = empty /\ \A n \in 1..N : f[n] = turn[n][f[n - 1]]
      BY <3>1, <3>2, Iterated, SMTT(30)
    <3> QED
      BY <3>3 DEF empty
  <2>4. ASSUME NEW n \in 1..N PROVE f[n] = f[n - 1] \o parts[n] /\ f[n - 1] \in D
    <3>1. n - 1 \in 0..N
      BY <2>1
    <3> QED
      BY <2>1, <2>3, <3>1
  <2>5. f[1] = parts[1]
    <3>1. 1 \in 1..N /\ parts[1] \in Seq(T)
      BY <1>2, <2>1 DEF D
    <3>2. <<>> \o parts[1] = parts[1]
      BY <3>1
    <3>3. f[1] = f[0] \o parts[1]
      <4>1. ASSUME NEW n \in 1..N, n = 1 PROVE f[n] = f[0] \o parts[n]
        <5>1. f[n] = f[n - 1] \o parts[n]
          BY <2>4
        <5>2. n - 1 = 0
          BY <4>1
        <5> QED
          BY <5>1, <5>2
      <4> HIDE DEF Turn, turn, Right
      <4> QED
        BY <3>1, <4>1
    <3> QED
      BY <2>3, <3>2, <3>3
  <2> DEFINE g == [n \in 1..N |-> f[n]]
  <2>6. g = [n \in 1..N |-> Turn(g, n)]
    <3>1. ASSUME NEW n \in 1..N PROVE g[n] = Turn(g, n)
      <4>1. CASE n = 1
        BY <2>5, <4>1
      <4>2. CASE n # 1
        <5>1. n - 1 \in 1..N
          BY <2>1, <4>2
        <5> QED
          BY <2>4, <4>2, <5>1
      <4> QED
        BY <4>1, <4>2
    <3> QED
      BY <3>1
  <2> DEFINE h == CHOOSE e : e = [n \in 1..N |-> Turn(e, n)]
  <2>7. h = [n \in 1..N |-> Turn(h, n)]
    <3> HIDE DEF g, Turn
    <3> QED
      BY <2>6
  <2>8. FlattenSeq(parts) = h[N]
    BY <1>2 DEF FlattenSeq, N
  <2> HIDE DEF h
  <2>9. ASSUME NEW k \in 1..N, ~Right(h[k], k) PROVE FALSE
    <3> DEFINE W == {n \in 1..N : ~Right(h[n], n)}
    <3>1. PICK n \in W : \A i \in W : n <= i
      <4> HIDE DEF Right
      <4>1. W \subseteq Nat /\ W # {}
        BY <2>1, <2>9
      <4> HIDE DEF W
      <4> QED
        BY <4>1, Smallest
    <3>2. CASE n = 1
      <4>1. h[1] = parts[1] /\ 1 \in 1..N
        BY <2>7, <3>1, <3>2
      <4> QED
        BY <2>1, <3>1, <3>2, <4>1
    <3>3. CASE n # 1
      <4>1. n - 1 \in 1..N /\ n \in 1..N /\ n - 1 < n
        BY <2>1, <3>1, <3>3
      <4>2. h[n] = h[n - 1] \o parts[n]
        BY <2>7, <3>3, <4>1
      <4>3. Right(h[n - 1], n - 1)
        <5> HIDE DEF Right
        <5> QED
          BY <3>1, <4>1
      <4>4. h[n] \in D /\ ToSet(h[n]) = ToSet(h[n - 1]) \union ToSet(parts[n])
        BY <2>1, <2>2, <4>1, <4>2, <4>3
      <4>5. 1..n = (1..(n - 1)) \union {n}
        BY <4>1
      <4>6. Right(h[n], n)
        BY <4>3, <4>4, <4>5
      <4> QED
        BY <3>1, <4>6
    <3> QED
      BY <3>2, <3>3
  <2>10. Right(h[N], N)
    <3> HIDE DEF Right
    <3> QED
      BY <1>2, <2>1, <2>9
  <2>11. DOMAIN parts = 1..N
    BY DEF N
  <2>12. h[N] \in Seq(T)
    BY <2>10 DEF D
  <2> QED
    BY <2>8, <2>10, <2>11, <2>12
<1> QED
  BY <1>1, <1>2

\* A sequence of whatever its elements are.
IsList(s) == s \in Seq(ToSet(s))

\* A list is a function on its places ...
LEMMA ListsAre ==
  ASSUME NEW s, IsList(s)
  PROVE  Len(s) \in Nat /\ DOMAIN s = 1..Len(s) /\ s = [i \in 1..Len(s) |-> s[i]]
BY DEF IsList

\* ... and a function on 1 .. n is a list.
LEMMA ListIf ==
  ASSUME NEW n \in Nat, NEW s, s = [i \in 1..n |-> s[i]]
  PROVE  IsList(s) /\ Len(s) = n
<1>1. DOMAIN s = 1..n
  OBVIOUS
<1>2. \A i \in 1..n : s[i] \in ToSet(s)
  BY <1>1 DEF ToSet
<1>3. s \in [1..n -> ToSet(s)]
  BY <1>2
<1> QED
  BY <1>3 DEF IsList

\* A list behind a list is a list.
LEMMA JointLists ==
  ASSUME NEW s, IsList(s), NEW u, IsList(u)
  PROVE  IsList(s \o u) /\ ToSet(s \o u) = ToSet(s) \union ToSet(u)
<1> DEFINE T == ToSet(s) \union ToSet(u)
<1>1. s \in Seq(T) /\ u \in Seq(T)
  <2>1. \A i \in 1..Len(s) : s[i] \in T
    BY ListsAre DEF ToSet
  <2>2. \A i \in 1..Len(u) : u[i] \in T
    BY ListsAre DEF ToSet
  <2> HIDE DEF T
  <2>3. s \in [1..Len(s) -> T] /\ Len(s) \in Nat
    BY <2>1, ListsAre
  <2>4. u \in [1..Len(u) -> T] /\ Len(u) \in Nat
    BY <2>2, ListsAre
  <2> QED
    BY <2>3, <2>4
<1>2. s \o u \in Seq(T) /\ ToSet(s \o u) = T
  BY <1>1, Joint
<1> QED
  BY <1>2 DEF IsList

\* Whatever its elements are, a sequence is a list.
LEMMA SeqIsList == ASSUME NEW T, NEW s \in Seq(T) PROVE IsList(s)
<1>1. Len(s) \in Nat /\ s = [i \in 1..Len(s) |-> s[i]]
  OBVIOUS
<1> QED
  BY <1>1, ListIf

\* A list of one element.
LEMMA SingleList == ASSUME NEW e PROVE IsList(<<e>>) /\ Len(<<e>>) = 1 /\ <<e>>[1] = e
<1> DEFINE s == <<e>>
<1>1. s = [i \in 1..1 |-> s[i]] /\ s[1] = e
  OBVIOUS
<1> HIDE DEF s
<1>2. 1 \in Nat
  OBVIOUS
<1>3. IsList(s) /\ Len(s) = 1
  BY <1>1, <1>2, ListIf
<1> QED
  BY <1>1, <1>3 DEF s

\* Of two lists, the second one's places follow the first one's.
LEMMA JointPlaces ==
  ASSUME NEW s, IsList(s), NEW u, IsList(u)
  PROVE  /\ IsList(s \o u) /\ Len(s \o u) = Len(s) + Len(u)
         /\ \A i \in 1..Len(s) : (s \o u)[i] = s[i]
         /\ \A i \in (Len(s) + 1)..(Len(s) + Len(u)) : (s \o u)[i] = u[i - Len(s)]
<1> DEFINE T == ToSet(s) \union ToSet(u)
<1>1. s \in Seq(T) /\ u \in Seq(T)
  <2>1. \A i \in 1..Len(s) : s[i] \in T
    BY ListsAre DEF ToSet
  <2>2. \A i \in 1..Len(u) : u[i] \in T
    BY ListsAre DEF ToSet
  <2> HIDE DEF T
  <2>3. s \in [1..Len(s) -> T] /\ Len(s) \in Nat
    BY <2>1, ListsAre
  <2>4. u \in [1..Len(u) -> T] /\ Len(u) \in Nat
    BY <2>2, ListsAre
  <2> QED
    BY <2>3, <2>4
<1> HIDE DEF T
<1>2. Len(s \o u) = Len(s) + Len(u) /\ Len(s) \in Nat /\ Len(u) \in Nat
  BY <1>1
<1>3. \A i \in 1..Len(s) : (s \o u)[i] = s[i]
  BY <1>1
<1>4. \A i \in (Len(s) + 1)..(Len(s) + Len(u)) : (s \o u)[i] = u[i - Len(s)]
  BY <1>1
<1> QED
  BY <1>2, <1>3, <1>4, JointLists

------------------------------------------------------------------------------
(* What a workbook is made of, and what is drafted from it (Authoring).    *)

\* The elements of a sequence are of its type.
LEMMA MembersAre ==
  ASSUME NEW T, NEW s \in Seq(T)
  PROVE  IsList(s) /\ \A i \in DOMAIN s : s[i] \in T
BY SeqIsList

\* What a filtering loop keeps.
LEMMA PickedIs ==
  ASSUME NEW s, IsList(s), NEW places, places \subseteq DOMAIN s
  PROVE  /\ IsList(At(s, places))
         /\ \A n \in DOMAIN At(s, places) : \E i \in places : At(s, places)[n] = s[i]
         /\ \A i \in places : \E n \in DOMAIN At(s, places) : At(s, places)[n] = s[i]
         /\ Len(At(s, places)) <= Len(s)
<1>1. Len(s) \in Nat /\ DOMAIN s = 1..Len(s)
  BY ListsAre
<1>2. /\ IsFiniteSet(1..Len(s)) /\ Cardinality(1..Len(s)) = Len(s)
  BY <1>1, FS_Interval
<1>3. IsFiniteSet(places) /\ Cardinality(places) <= Len(s) /\ places \in SUBSET Int
  BY <1>1, <1>2, FS_Subset
<1>4. /\ Cardinality(places) \in Nat
      /\ DOMAIN At(s, places) = 1..Cardinality(places)
      /\ \A n \in DOMAIN At(s, places) : \E i \in places : At(s, places)[n] = s[i]
      /\ \A i \in places : \E n \in DOMAIN At(s, places) : At(s, places)[n] = s[i]
  BY <1>3, AtPlaces
<1> DEFINE t == At(s, places)
           n == Cardinality(places)
<1>5. t = [i \in DOMAIN t |-> t[i]]
  BY DEF At
<1> HIDE DEF t, n
<1>6. IsList(t) /\ Len(t) = n
  BY <1>4, <1>5, ListIf DEF t, n
<1> QED
  BY <1>3, <1>4, <1>6 DEF t, n

\* A set of places that is not empty has a first one.
LEMMA MinIs ==
  ASSUME NEW S, S \subseteq Nat, S # {}
  PROVE  Min(S) \in S /\ \A y \in S : Min(S) <= y
<1>1. \E x \in S : \A y \in S : x <= y
  BY Smallest
<1> QED
  BY <1>1 DEF Min

\* A finite set of places that is not empty has a last one.
LEMMA MaxIs ==
  ASSUME NEW n \in Nat, NEW S, S \subseteq 1..n, S # {}
  PROVE  Max(S) \in S
<1> DEFINE T == {n - i : i \in S}
<1>1. T \subseteq Nat /\ T # {}
  OBVIOUS
<1>2. PICK x \in T : \A y \in T : x <= y
  <2> HIDE DEF T
  <2> QED
    BY <1>1, Smallest
<1>3. PICK i \in S : x = n - i
  BY <1>2
<1>4. \A j \in S : j <= i
  <2>1. ASSUME NEW j \in S PROVE j <= i
    <3>1. n - j \in T /\ i \in Nat /\ j \in Nat
      OBVIOUS
    <3>2. n - i <= n - j
      BY <1>2, <1>3, <3>1
    <3> QED
      BY <3>1, <3>2
  <2> QED
    BY <2>1
<1>5. \E m \in S : \A j \in S : j <= m
  BY <1>4
<1>6. Max(S) = CHOOSE m \in S : \A j \in S : m >= j
  BY DEF Max
<1>7. \E m \in S : \A j \in S : m >= j
  <2>1. \A m, j \in S : j <= m <=> m >= j
    OBVIOUS
  <2> QED
    BY <1>5, <2>1
<1> QED
  BY <1>6, <1>7

\* A longer sequence by one.
LEMMA AppendIs ==
  ASSUME NEW T, NEW s \in Seq(T), NEW e \in T
  PROVE  /\ Append(s, e) \in Seq(T) /\ Len(Append(s, e)) = Len(s) + 1 /\ Len(s) \in Nat
         /\ Append(s, e)[Len(s) + 1] = e
OBVIOUS

------------------------------------------------------------------------------
(* The interface index.                                                    *)

\* What slugs are made of: the provers do not know a literal for a string.
Texts == STRING \union {"interface"}

\* The number of a slug is not of another one.
LEMMA NumberedApart ==
  ASSUME NEW slug \in Seq(Texts), NEW j \in 1..Len(Numerals), NEW k \in 1..Len(Numerals),
         Numbered(slug, j) = Numbered(slug, k)
  PROVE  j = k
<1>1. Numerals[j] \in Texts /\ Numerals[k] \in Texts
  BY NumeralsAssumption DEF Texts
<1>2. ASSUME NEW e \in Texts
      PROVE  /\ Append(slug, e) \in Seq(Texts) /\ Len(Append(slug, e)) = Len(slug) + 1
             /\ Append(slug, e)[Len(slug) + 1] = e
  BY AppendIs
<1>3. Len(slug) \in Nat
  BY SeqIsList, ListsAre
<1>4. CASE j = 1 /\ k # 1
  BY <1>1, <1>2, <1>3, <1>4 DEF Numbered
<1>5. CASE j # 1 /\ k = 1
  BY <1>1, <1>2, <1>3, <1>5 DEF Numbered
<1>6. CASE j # 1 /\ k # 1
  <2>1. Append(slug, Numerals[j]) = Append(slug, Numerals[k])
    BY <1>6 DEF Numbered
  <2>2. Numerals[j] = Numerals[k]
    BY <1>1, <1>2, <2>1
  <2> QED
    BY <2>2, NumeralsAssumption
<1> QED
  BY <1>4, <1>5, <1>6

\* Of one more number than there are used slugs, one is free.
LEMMA UnusedIs ==
  ASSUME NEW slug \in Seq(Texts), NEW used, IsFiniteSet(used),
         Cardinality(used) + 1 <= Len(Numerals)
  PROVE  Numbered(slug, Unused(slug, used)) \notin used
<1> DEFINE n == Cardinality(used) + 1
           free == {k \in 1..n : Numbered(slug, k) \notin used}
<1>1. n \in Nat /\ IsFiniteSet(1..n) /\ Cardinality(1..n) = n /\ Cardinality(used) \in Nat
      /\ Len(Numerals) \in Nat
  <2>1. Cardinality(used) \in Nat /\ n \in Nat
    BY FS_CardinalityType
  <2>2. IsFiniteSet(1..n) /\ Cardinality(1..n) = n
    <3> HIDE DEF n
    <3>1. 1 \in Int /\ n \in Int /\ n = n - 1 + 1 /\ ~(1 > n /\ n # 0)
      BY <2>1
    <3> QED
      BY <3>1, FS_Interval
  <2>3. IsList(Numerals)
    BY NumeralsAssumption, SeqIsList
  <2> QED
    BY <2>1, <2>2, <2>3, ListsAre
<1>2. ASSUME free = {} PROVE FALSE
  <2> DEFINE f == [k \in 1..n |-> Numbered(slug, k)]
  <2>1. f \in [1..n -> used]
    BY <1>2
  <2>2. Cardinality(1..n) > Cardinality(used)
    BY <1>1
  <2> HIDE DEF f
  <2>3. PICK j \in 1..n, k \in 1..n : j # k /\ f[j] = f[k]
    <3> HIDE DEF n
    <3> QED
      BY <1>1, <2>1, <2>2, FS_PigeonHole
  <2>4. Numbered(slug, j) = Numbered(slug, k) /\ j \in 1..Len(Numerals) /\ k \in 1..Len(Numerals)
    BY <1>1, <2>3 DEF f
  <2> QED
    BY <2>3, <2>4, NumberedApart
<1>3. free \subseteq Nat
  OBVIOUS
<1>4. Unused(slug, used) = Min(free)
  BY DEF Unused
<1>5. Min(free) \in free
  <2> HIDE DEF free
  <2> QED
    BY <1>2, <1>3, MinIs
<1> QED
  BY <1>4, <1>5

\* The identifier a record is given after the earlier ones.
IdAfter(records, ids, i) ==
  Numbered(Slug(records[i], i), Unused(Slug(records[i], i), {ids[j] : j \in 1 .. i - 1}))

\* An identifier depends on the earlier ones alone.
LEMMA SameIdAfter ==
  ASSUME NEW records, NEW f, NEW g, NEW i, \A j \in 1 .. i - 1 : f[j] = g[j]
  PROVE  IdAfter(records, f, i) = IdAfter(records, g, i)
<1>1. {f[j] : j \in 1 .. i - 1} = {g[j] : j \in 1 .. i - 1}
  OBVIOUS
<1> QED
  BY <1>1 DEF IdAfter

\* The loop over the records is a function of them.
LEMMA IdsAreGiven ==
  ASSUME NEW records, IsList(records)
  PROVE  /\ DOMAIN InterfaceIds(records) = 1..Len(records)
         /\ \A i \in 1..Len(records) :
              InterfaceIds(records)[i] = IdAfter(records, InterfaceIds(records), i)
<1> DEFINE N == Len(records)
           Good(k) == \E f : f = [i \in 1..k |-> IdAfter(records, f, i)]
<1>1. N \in Nat /\ DOMAIN records = 1..N
  BY ListsAre
<1> HIDE DEF N
<1>2. Good(0)
  <2> DEFINE g == [i \in 1..0 |-> i]
  <2>1. g = [i \in 1..0 |-> IdAfter(records, g, i)]
    OBVIOUS
  <2> QED
    BY <2>1
<1>3. ASSUME NEW k \in 1..N, Good(k - 1) PROVE Good(k)
  <2>1. PICK f : f = [i \in 1..(k - 1) |-> IdAfter(records, f, i)]
    BY <1>3
  <2> DEFINE g == [i \in 1..k |-> IdAfter(records, f, i)]
  <2>2. \A j \in 1..(k - 1) : g[j] = f[j]
    <3>1. \A j \in 1..(k - 1) : f[j] = IdAfter(records, f, j) /\ j \in 1..k
      BY <1>1, <2>1
    <3> QED
      BY <3>1
  <2>3. \A i \in 1..k : g[i] = IdAfter(records, f, i)
    OBVIOUS
  <2>4. g = [i \in 1..k |-> g[i]]
    OBVIOUS
  <2> HIDE DEF g
  <2>5. ASSUME NEW i \in 1..k PROVE g[i] = IdAfter(records, g, i)
    <3>1. \A j \in 1 .. i - 1 : g[j] = f[j]
      BY <1>1, <2>2
    <3>2. IdAfter(records, g, i) = IdAfter(records, f, i)
      BY <3>1, SameIdAfter
    <3> QED
      BY <2>3, <3>2
  <2>6. g = [i \in 1..k |-> IdAfter(records, g, i)]
    BY <2>4, <2>5
  <2> QED
    BY <2>6
<1>4. ASSUME ~Good(N) PROVE FALSE
  <2> DEFINE W == {k \in 0..N : ~Good(k)}
  <2> HIDE DEF Good
  <2>1. W \subseteq Nat /\ W # {}
    BY <1>1, <1>4
  <2>2. PICK k \in W : \A i \in W : k <= i
    <3> HIDE DEF W
    <3> QED
      BY <2>1, Smallest
  <2>3. k # 0 /\ k \in 1..N /\ Good(k - 1)
    BY <1>1, <1>2, <2>2
  <2> QED
    BY <1>3, <2>2, <2>3
<1> DEFINE h == CHOOSE f : f = [i \in 1..N |-> IdAfter(records, f, i)]
<1>5. h = [i \in 1..N |-> IdAfter(records, h, i)]
  BY <1>4
<1>6. InterfaceIds(records) = h
  BY <1>1 DEF InterfaceIds, IdAfter
<1> HIDE DEF h
<1> QED
  BY <1>5, <1>6 DEF N

\* A record's slug is a text.
LEMMA SlugIs ==
  ASSUME NEW record \in SheetName, NEW i \in 1..Len(Numerals)
  PROVE  Slug(record, i) \in Seq(Texts)
<1>1. record.norm \in Seq(Texts)
  BY DEF SheetName, Texts
<1>2. Numerals[i] \in Texts
  BY NumeralsAssumption DEF Texts
<1>3. "interface" \in Texts
  BY DEF Texts
<1>4. <<"interface", Numerals[i]>> \in Seq(Texts)
  BY <1>2, <1>3
<1> QED
  BY <1>1, <1>4 DEF Slug

\* No two records share an identifier.
LEMMA IdsAreApart ==
  ASSUME NEW records, IsList(records), \A i \in 1..Len(records) : records[i] \in SheetName,
         Len(records) <= Len(Numerals),
         NEW i \in 1..Len(records), NEW j \in 1..Len(records),
         InterfaceIds(records)[i] = InterfaceIds(records)[j]
  PROVE  i = j
<1> DEFINE ids == InterfaceIds(records)
           N == Len(records)
<1>1. /\ N \in Nat /\ Len(Numerals) \in Nat /\ N <= Len(Numerals)
      /\ \A n \in 1..N : ids[n] = IdAfter(records, ids, n)
  <2>1. IsList(Numerals)
    BY NumeralsAssumption, SeqIsList
  <2> QED
    BY <2>1, ListsAre, IdsAreGiven
<1> HIDE DEF ids, N
<1>2. ASSUME NEW n \in 1..N PROVE ids[n] \notin {ids[m] : m \in 1 .. n - 1}
  <2> DEFINE used == {ids[m] : m \in 1 .. n - 1}
             slug == Slug(records[n], n)
  <2>1. slug \in Seq(Texts)
    <3>1. n \in 1..Len(Numerals) /\ records[n] \in SheetName
      BY <1>1 DEF N
    <3> QED
      BY <3>1, SlugIs
  <2>2. IsFiniteSet(used) /\ Cardinality(used) + 1 <= Len(Numerals)
    <3>1. IsFiniteSet(1 .. n - 1) /\ Cardinality(1 .. n - 1) = n - 1
      BY FS_Interval
    <3> DEFINE f == [m \in 1 .. n - 1 |-> ids[m]]
    <3>2. f \in Surjection(1 .. n - 1, used)
      BY DEF Surjection
    <3>3. IsFiniteSet(used) /\ Cardinality(used) <= Cardinality(1 .. n - 1)
      <4> HIDE DEF f, used
      <4> QED
        BY <3>1, <3>2, FS_Surjection
    <3> HIDE DEF used
    <3>4. Cardinality(used) \in Nat
      BY <3>3, FS_CardinalityType
    <3> QED
      BY <1>1, <3>1, <3>3, <3>4
  <2>3. ids[n] = Numbered(slug, Unused(slug, used))
    BY <1>1 DEF IdAfter
  <2> HIDE DEF used, slug
  <2>4. ids[n] \notin used
    BY <2>1, <2>2, <2>3, UnusedIs
  <2> QED
    BY <2>4 DEF used
<1>3. \A m, n \in 1..N : m < n => ids[m] # ids[n]
  BY <1>1, <1>2
<1>4. i \in 1..N /\ j \in 1..N /\ ids[i] = ids[j]
  BY DEF ids, N
<1> QED
  BY <1>1, <1>3, <1>4

\* A sheet is resolved to one of the candidates.
LEMMA SheetsAreOffered ==
  ASSUME NEW x, NEW candidates, IsList(candidates)
  PROVE  /\ ResolveSheet(x, candidates) \in Range(candidates) \union {NoName}
         /\ DeclaredSheet(x, candidates) \in Range(candidates) \union {NoName}
<1>1. ResolveSheet(x, candidates) \in Range(candidates) \union {NoName}
  <2> DEFINE exact == {s \in Range(candidates) : s.norm = x.norm}
             partial == {s \in Range(candidates) : s.norm # <<>> /\
                           (Within(x.norm, s.norm) \/ Within(s.norm, x.norm))}
             tier == IF exact # {} THEN exact ELSE partial
  <2>1. tier \subseteq Range(candidates)
    OBVIOUS
  <2>2. ResolveSheet(x, candidates) = IF x.norm # <<>> /\ Cardinality(tier) = 1
                                       THEN CHOOSE s \in tier : TRUE ELSE NoName
    BY DEF ResolveSheet
  <2> HIDE DEF tier
  <2>3. Cardinality(tier) = 1 => tier # {}
    <3>1. Cardinality({}) = 0
      BY FS_EmptySet
    <3> QED
      BY <3>1
  <2>4. Cardinality(tier) = 1 => (CHOOSE s \in tier : TRUE) \in tier
    BY <2>3
  <2> QED
    BY <2>1, <2>2, <2>4
<1>2. DeclaredSheet(x, candidates) \in Range(candidates) \union {NoName}
  <2> DEFINE hits == {i \in DOMAIN candidates : candidates[i].norm = x.norm}
  <2>1. DeclaredSheet(x, candidates) = IF hits = {} THEN NoName ELSE candidates[Min(hits)]
    BY DEF DeclaredSheet
  <2>2. hits \subseteq Nat /\ hits \subseteq DOMAIN candidates
    BY ListsAre
  <2> HIDE DEF hits
  <2>3. hits # {} => Min(hits) \in hits
    BY <2>2, MinIs
  <2> QED
    BY <2>1, <2>2, <2>3 DEF Range
<1> QED
  BY <1>1, <1>2

\* The interfaces of a workbook have identifiers of their own and lead to its sheets.
LEMMA InterfacesAre ==
  ASSUME NEW b \in Books
  PROVE  /\ DOMAIN Interfaces(b) \subseteq Nat
         /\ \A i \in DOMAIN Interfaces(b) : Interfaces(b)[i].sheet \in Range(b.sheets) \union {NoName}
         /\ \A i, j \in DOMAIN Interfaces(b) : Interfaces(b)[i].id = Interfaces(b)[j].id => i = j
<1> DEFINE single == Len(b.sheets) = 1
           indexed == ~single /\ IndexName \in Range(b.sheets)
           places == {i \in DOMAIN b.sheets : indexed => b.sheets[i] # IndexName}
           others == At(b.sheets, places)
           some == {i \in DOMAIN b.entries :
                      /\ b.entries[i].record # NoName
                      /\ \A j \in 1 .. i - 1 : \/ b.entries[j].record = NoName
                                               \/ b.entries[j].record.norm # b.entries[i].record.norm}
           listed == IF indexed /\ b.header THEN At(b.entries, some) ELSE <<>>
           records == IF listed = <<>> THEN others ELSE [i \in DOMAIN listed |-> listed[i].record]
           Sheet(i) == IF listed = <<>> THEN others[i]
                       ELSE IF listed[i].declared = NoName
                       THEN ResolveSheet(records[i], others)
                       ELSE DeclaredSheet(listed[i].declared, others)
           ids == InterfaceIds(records)
<1>1. Interfaces(b) =
        [i \in DOMAIN records |-> [id |-> ids[i], record |-> records[i], sheet |-> Sheet(i)]]
  BY DEF Interfaces, Listed
<1>2. /\ IsList(b.sheets) /\ \A i \in DOMAIN b.sheets : b.sheets[i] \in SheetName
      /\ IsList(b.entries) /\ \A i \in DOMAIN b.entries : b.entries[i].record \in SheetName
      /\ Len(b.sheets) <= Len(Numerals) /\ Len(b.entries) <= Len(Numerals)
      /\ Len(b.sheets) \in Nat /\ Len(b.entries) \in Nat /\ Len(Numerals) \in Nat
  <2>1. /\ b.sheets \in Seq(SheetName) /\ Len(b.sheets) <= Len(Numerals)
        /\ b.entries \in Seq([record : SheetName, declared : SheetName])
        /\ Len(b.entries) <= Len(Numerals) /\ Numerals \in Seq(STRING)
    BY BooksAssumption, NumeralsAssumption
  <2>2. \A i \in DOMAIN b.sheets : b.sheets[i] \in SheetName
    BY <2>1, MembersAre
  <2>3. \A i \in DOMAIN b.entries : b.entries[i] \in [record : SheetName, declared : SheetName]
    BY <2>1, MembersAre
  <2>4. IsList(b.sheets) /\ IsList(b.entries) /\ IsList(Numerals)
    BY <2>1, SeqIsList
  <2> QED
    BY <2>1, <2>2, <2>3, <2>4, ListsAre
<1> HIDE DEF Sheet, ids
<1>3. /\ IsList(others) /\ Len(others) <= Len(b.sheets)
      /\ \A i \in DOMAIN others : others[i] \in Range(b.sheets) /\ others[i] \in SheetName
  <2>1. places \subseteq DOMAIN b.sheets
    OBVIOUS
  <2> HIDE DEF places
  <2>2. /\ IsList(others) /\ Len(others) <= Len(b.sheets)
        /\ \A n \in DOMAIN others : \E i \in places : others[n] = b.sheets[i]
    BY <1>2, <2>1, PickedIs
  <2> QED
    BY <1>2, <2>1, <2>2 DEF Range
<1> HIDE DEF others
<1>4. /\ IsList(listed) /\ Len(listed) <= Len(Numerals)
      /\ \A i \in DOMAIN listed : listed[i].record \in SheetName
  <2>1. CASE indexed /\ b.header
    <3>1. some \subseteq DOMAIN b.entries
      OBVIOUS
    <3> HIDE DEF some
    <3> DEFINE kept == At(b.entries, some)
    <3>2. /\ IsList(kept) /\ Len(kept) <= Len(b.entries)
          /\ \A n \in DOMAIN kept : \E i \in some : kept[n] = b.entries[i]
      BY <1>2, <3>1, PickedIs
    <3>3. listed = kept /\ Len(kept) \in Nat
      BY <2>1, <3>2, ListsAre
    <3> HIDE DEF kept, listed
    <3> QED
      BY <1>2, <3>1, <3>2, <3>3
  <2>2. CASE ~(indexed /\ b.header)
    <3> DEFINE empty == <<>>
    <3>1. IsList(empty) /\ Len(empty) = 0 /\ DOMAIN empty = {}
      BY DEF IsList
    <3>2. listed = empty
      BY <2>2
    <3> HIDE DEF empty, listed
    <3> QED
      BY <1>2, <3>1, <3>2
  <2> QED
    BY <2>1, <2>2
<1> HIDE DEF listed
<1>5. /\ IsList(records) /\ Len(records) <= Len(Numerals)
      /\ \A i \in 1..Len(records) : records[i] \in SheetName
      /\ DOMAIN records = 1..Len(records)
      /\ listed # <<>> => DOMAIN records = DOMAIN listed
      /\ listed = <<>> => DOMAIN records = DOMAIN others
  <2>1. CASE listed = <<>>
    <3>1. records = others
      BY <2>1
    <3>2. Len(others) \in Nat /\ DOMAIN others = 1..Len(others)
      BY <1>3, ListsAre
    <3> HIDE DEF records
    <3> QED
      BY <1>2, <1>3, <2>1, <3>1, <3>2
  <2>2. CASE listed # <<>>
    <3>1. records = [i \in DOMAIN listed |-> listed[i].record]
      BY <2>2
    <3>2. Len(listed) \in Nat /\ DOMAIN listed = 1..Len(listed)
      BY <1>4, ListsAre
    <3> HIDE DEF records
    <3>3. records = [i \in 1..Len(listed) |-> records[i]]
      BY <3>1, <3>2
    <3>4. IsList(records) /\ Len(records) = Len(listed)
      BY <3>2, <3>3, ListIf
    <3> QED
      BY <1>4, <2>2, <3>1, <3>2, <3>4
  <2> QED
    BY <2>1, <2>2
<1>6. ASSUME NEW i \in DOMAIN records PROVE Sheet(i) \in Range(b.sheets) \union {NoName}
  <2>0. Range(others) \subseteq Range(b.sheets)
    BY <1>3 DEF Range
  <2>1. CASE listed = <<>>
    BY <1>3, <1>5, <1>6, <2>1 DEF Sheet
  <2>2. CASE listed # <<>> /\ listed[i].declared = NoName
    <3>1. Sheet(i) = ResolveSheet(records[i], others)
      BY <2>2 DEF Sheet
    <3> HIDE DEF records
    <3> QED
      BY <1>3, <2>0, <3>1, SheetsAreOffered
  <2>3. CASE listed # <<>> /\ listed[i].declared # NoName
    <3>1. Sheet(i) = DeclaredSheet(listed[i].declared, others)
      BY <2>3 DEF Sheet
    <3> QED
      BY <1>3, <2>0, <3>1, SheetsAreOffered
  <2> QED
    BY <2>1, <2>2, <2>3
<1> HIDE DEF records
<1>7. ASSUME NEW i \in DOMAIN records, NEW j \in DOMAIN records, ids[i] = ids[j] PROVE i = j
  BY <1>5, <1>7, IdsAreApart DEF ids
<1> DEFINE all == Interfaces(b)
<1>8. /\ DOMAIN all = DOMAIN records
      /\ \A i \in DOMAIN records : all[i].id = ids[i] /\ all[i].sheet = Sheet(i)
  BY <1>1
<1> HIDE DEF all
<1>9. DOMAIN records \subseteq Nat
  BY <1>5
<1>10. /\ DOMAIN all \subseteq Nat
       /\ \A i \in DOMAIN all : all[i].sheet \in Range(b.sheets) \union {NoName}
       /\ \A i, j \in DOMAIN all : all[i].id = all[j].id => i = j
  BY <1>6, <1>7, <1>8, <1>9
<1> QED
  BY <1>10 DEF all

\* A typed function on 1 .. n is a sequence.
LEMMA FunctionIsList == ASSUME NEW D, NEW n \in Nat, NEW f \in [1..n -> D] PROVE f \in Seq(D)
OBVIOUS

\* A list of elements of T is a sequence over T.
LEMMA ListOver ==
  ASSUME NEW T, NEW s, IsList(s), \A i \in DOMAIN s : s[i] \in T
  PROVE  s \in Seq(T)
<1>1. Len(s) \in Nat /\ DOMAIN s = 1..Len(s) /\ s = [i \in 1..Len(s) |-> s[i]]
  BY ListsAre
<1>2. s \in [1..Len(s) -> T]
  BY <1>1
<1> QED
  BY <1>1, <1>2

------------------------------------------------------------------------------
(* The parser, and what a resolution makes of its rows.                    *)

\* A sheet's candidates are read from its rows.
SheetIs(sheet) ==
  /\ IsList(sheet.candidates) /\ IsList(sheet.rows)
  /\ \A c \in Range(sheet.candidates) :
       /\ c.row \in Nat /\ c.row < Len(sheet.rows)
       /\ CandidateOf(sheet.heads, sheet.rows[c.row + 1], c.row) = c

\* The empty list.
LEMMA EmptyList == IsList(<<>>) /\ Len(<<>>) = 0 /\ DOMAIN <<>> = {} /\ Range(<<>>) = {}
BY DEF IsList, Range

\* Before a sheet is parsed there is none to be at odds with.
LEMMA NoSheetIs == SheetIs(NoSheet)
BY EmptyList DEF SheetIs, NoSheet

\* The parser's candidates are read from the rows it returns.
LEMMA ParsedIs ==
  ASSUME NEW grid, IsList(grid)
  PROVE  SheetIs(ParseSheet(grid))
<1> DEFINE heads == grid[HeaderLine(grid)]
           given == DataRows(grid)
           every == [i \in DOMAIN given |-> CandidateOf(heads, given[i], i - 1)]
           named == {i \in DOMAIN given :
                       \E role \in {"source", "target", "technical"} : every[i].texts[role] # NoText}
<1>1. IsList(given)
  <2> DEFINE filled == {k \in DOMAIN grid : k > HeaderLine(grid) /\ Filled(grid[k]) # {}}
  <2>1. filled \subseteq DOMAIN grid /\ given = At(grid, filled)
    BY DEF DataRows
  <2> HIDE DEF filled, given
  <2> QED
    BY <2>1, PickedIs
<1>2. Candidates(heads, given) = At(every, named)
  BY DEF Candidates
<1>3. /\ ParseSheet(grid).heads = heads /\ ParseSheet(grid).rows = given
      /\ ParseSheet(grid).candidates = Candidates(heads, given)
  BY DEF ParseSheet
<1> HIDE DEF heads, given
<1>4. Len(given) \in Nat /\ DOMAIN given = 1..Len(given)
  BY <1>1, ListsAre
<1>5. every = [i \in 1..Len(given) |-> every[i]] /\ DOMAIN every = 1..Len(given)
  BY <1>4
<1>6. named \subseteq DOMAIN every
  BY <1>4
<1>7. \A i \in 1..Len(given) : every[i] = CandidateOf(heads, given[i], i - 1)
  BY <1>4
<1> HIDE DEF every, named
<1>8. IsList(every)
  BY <1>4, <1>5, ListIf
<1>9. /\ IsList(At(every, named))
      /\ \A n \in DOMAIN At(every, named) : \E i \in named : At(every, named)[n] = every[i]
  BY <1>6, <1>8, PickedIs
<1>10. ASSUME NEW c \in Range(Candidates(heads, given))
       PROVE  /\ c.row \in Nat /\ c.row < Len(given)
              /\ CandidateOf(heads, given[c.row + 1], c.row) = c
  <2>1. PICK i \in 1..Len(given) : c = every[i]
    BY <1>2, <1>5, <1>6, <1>9 DEF Range
  <2>2. c = CandidateOf(heads, given[i], i - 1)
    BY <1>7, <2>1
  <2>3. c.row = i - 1
    BY <2>2 DEF CandidateOf
  <2>4. c.row \in Nat /\ c.row < Len(given) /\ c.row + 1 = i
    BY <1>4, <2>3
  <2> QED
    BY <2>2, <2>3, <2>4
<1> QED
  BY <1>1, <1>2, <1>3, <1>9, <1>10 DEF SheetIs

\* The conditions of the preamble are counted below zero.
HeadersAre(headers) ==
  IsList(headers) /\ \A c \in Range(headers) : c.row \in Int /\ c.row < 0

\* A condition of the preamble is never taken for a row of the sheet.
LEMMA HeaderRows ==
  ASSUME NEW sheet, NEW answer, IsList(answer)
  PROVE  HeadersAre(HeaderFilters(sheet, answer))
<1> DEFINE real == {i \in DOMAIN answer : /\ answer[i].text # NoText
                                          /\ AppearsIn(answer[i].text, sheet.preamble)
                                          /\ Known(answer[i].field) /\ ~Repeats(answer, i)}
           kept == At(answer, real)
           all == HeaderFilters(sheet, answer)
<1>1. all = [n \in DOMAIN kept |-> HeaderCandidate(kept[n], -n)]
  BY DEF HeaderFilters
<1>2. IsList(kept)
  <2>1. real \subseteq DOMAIN answer
    OBVIOUS
  <2> HIDE DEF real
  <2> QED
    BY <2>1, PickedIs
<1> HIDE DEF kept, all
<1>3. Len(kept) \in Nat /\ DOMAIN kept = 1..Len(kept)
  BY <1>2, ListsAre
<1>4. IsList(all)
  <2>1. all = [n \in 1..Len(kept) |-> all[n]]
    BY <1>1, <1>3
  <2> QED
    BY <1>3, <2>1, ListIf
<1>5. ASSUME NEW c \in Range(all) PROVE c.row \in Int /\ c.row < 0
  <2>1. PICK n \in 1..Len(kept) : c = HeaderCandidate(kept[n], -n)
    BY <1>1, <1>3 DEF Range
  <2>2. c.row = -n
    BY <2>1 DEF HeaderCandidate
  <2> QED
    BY <2>2
<1> QED
  BY <1>4, <1>5 DEF HeadersAre, all

\* A model that selects fields selects among those it was shown.
LEMMA RelevantAre ==
  ASSUME NEW candidates, IsList(candidates), NEW answer, IsList(answer)
  PROVE  \A k \in DOMAIN RelevantOf(candidates, answer) :
           RelevantOf(candidates, answer)[k] \in Range(candidates)
<1> DEFINE PlacesOf(row) == {j \in DOMAIN candidates : candidates[j].row = row}
           asked == {i \in DOMAIN answer : PlacesOf(answer[i]) # {} /\ ~Repeats(answer, i)}
           named == At(answer, asked)
           all == RelevantOf(candidates, answer)
<1>1. all = [k \in DOMAIN named |-> candidates[Max(PlacesOf(named[k]))]]
  BY DEF RelevantOf
<1>2. \A k \in DOMAIN named : \E i \in asked : named[k] = answer[i]
  <2>1. asked \subseteq DOMAIN answer
    OBVIOUS
  <2> HIDE DEF asked
  <2> QED
    BY <2>1, PickedIs
<1>3. \A i \in asked : PlacesOf(answer[i]) # {}
  OBVIOUS
<1> HIDE DEF named, all, asked
<1>4. ASSUME NEW k \in DOMAIN named PROVE all[k] \in Range(candidates)
  <2>1. PlacesOf(named[k]) # {}
    BY <1>2, <1>3
  <2>2. PlacesOf(named[k]) \subseteq 1..Len(candidates) /\ Len(candidates) \in Nat
        /\ DOMAIN candidates = 1..Len(candidates)
    BY ListsAre
  <2> DEFINE S == PlacesOf(named[k])
  <2> HIDE DEF S
  <2>3. Max(S) \in S
    BY <2>1, <2>2, MaxIs DEF S
  <2> QED
    BY <1>1, <2>2, <2>3 DEF S, Range
<1> QED
  BY <1>1, <1>4 DEF all

\* The rows the enriched fields come from.
RowsOfFields(enriched) == {x.row : x \in Range(enriched)}

\* Fields that are enriched are real columns and rows that were selected.
LEMMA FieldsFit ==
  ASSUME NEW relevant, NEW answer, IsList(answer)
  PROVE  LET kept == At(answer, {i \in DOMAIN answer : Fits(relevant, answer[i])})
         IN  /\ IsList(kept)
             /\ \A x \in Range(kept) : x.column \in Columns /\ x.row \in {c.row : c \in Range(relevant)}
<1> DEFINE good == {i \in DOMAIN answer : Fits(relevant, answer[i])}
           kept == At(answer, good)
<1>1. good \subseteq DOMAIN answer /\ \A i \in good : Fits(relevant, answer[i])
  OBVIOUS
<1>2. IsList(kept) /\ \A n \in DOMAIN kept : \E i \in good : kept[n] = answer[i]
  <2> HIDE DEF good
  <2> QED
    BY <1>1, PickedIs
<1> HIDE DEF good, kept
<1>3. \A x \in Range(kept) : Fits(relevant, x)
  BY <1>1, <1>2 DEF Range
<1>4. ASSUME NEW x \in Range(kept)
      PROVE  x.column \in Columns /\ x.row \in {c.row : c \in Range(relevant)}
  BY <1>3 DEF Fits, Known
<1>5. IsList(kept) /\ \A x \in Range(kept) : x.column \in Columns
                                              /\ x.row \in {c.row : c \in Range(relevant)}
  BY <1>2, <1>4
<1> QED
  BY <1>5 DEF kept, good

\* The chain speaks of enriched rows, however its steps are split and ordered.
LEMMA ChainRows ==
  ASSUME NEW enriched, NEW answer \in Seq([intent : STRING, rows : Seq(Int)])
  PROVE  \A n \in Range(ChainOf(enriched, answer)) : Range(n.rows) \subseteq RowsOfFields(enriched)
<1> DEFINE given == {x.row : x \in Range(enriched)}
           nodes == [k \in DOMAIN answer |->
                       [answer[k] EXCEPT !.rows = At(@, {i \in DOMAIN @ : @[i] \in given})]]
           parts == [t \in 1..5 |->
                      At(nodes, {k \in DOMAIN nodes : TierOf(nodes[k].intent) = t})]
<1>1. ChainOf(enriched, answer) = FlattenSeq(parts)
  BY DEF ChainOf
<1>2. /\ IsList(answer) /\ Len(answer) \in Nat /\ DOMAIN answer = 1..Len(answer)
      /\ \A k \in DOMAIN answer : answer[k] \in [intent : STRING, rows : Seq(Int)]
  BY MembersAre, ListsAre
<1> HIDE DEF given
<1>3. ASSUME NEW k \in DOMAIN answer PROVE Range(nodes[k].rows) \subseteq given
  <2> DEFINE old == answer[k].rows
             places == {i \in DOMAIN old : old[i] \in given}
  <2>1. answer[k] \in [intent : STRING, rows : Seq(Int)] /\ IsList(old)
    BY <1>2, MembersAre
  <2>2. nodes[k].rows = At(old, places)
    BY <2>1
  <2>3. places \subseteq DOMAIN old /\ \A i \in places : old[i] \in given
    OBVIOUS
  <2> HIDE DEF old, places, nodes
  <2>4. \A n \in DOMAIN At(old, places) : \E i \in places : At(old, places)[n] = old[i]
    BY <2>1, <2>3, PickedIs
  <2> QED
    BY <2>2, <2>3, <2>4 DEF Range
<1>4. DOMAIN nodes = 1..Len(answer) /\ nodes = [k \in 1..Len(answer) |-> nodes[k]]
  BY <1>2
<1> HIDE DEF nodes
<1>5. IsList(nodes)
  BY <1>2, <1>4, ListIf
<1> DEFINE T == ToSet(nodes)
<1>6. ASSUME NEW t PROVE At(nodes, {k \in DOMAIN nodes : TierOf(nodes[k].intent) = t}) \in Seq(T)
  <2> DEFINE places == {k \in DOMAIN nodes : TierOf(nodes[k].intent) = t}
             part == At(nodes, places)
  <2>1. places \subseteq DOMAIN nodes
    OBVIOUS
  <2> HIDE DEF places
  <2>2. IsList(part) /\ \A n \in DOMAIN part : \E i \in places : part[n] = nodes[i]
    BY <1>5, <2>1, PickedIs
  <2>3. \A n \in DOMAIN part : part[n] \in T
    BY <2>1, <2>2 DEF ToSet
  <2> HIDE DEF part, T
  <2>4. part \in Seq(T)
    BY <2>2, <2>3, ListOver
  <2> QED
    BY <2>4 DEF part, places
<1> HIDE DEF T
<1>8. parts \in Seq(Seq(T))
  <2>1. \A t \in 1..5 : parts[t] \in Seq(T)
    BY <1>6
  <2>2. parts = [t \in 1..5 |-> parts[t]]
    OBVIOUS
  <2> HIDE DEF parts
  <2>3. parts \in [1..5 -> Seq(T)] /\ 5 \in Nat
    BY <2>1, <2>2
  <2> QED
    BY <2>3, FunctionIsList
<1> HIDE DEF parts
<1>9. \A x : x \in ToSet(FlattenSeq(parts)) <=> \E t \in DOMAIN parts : x \in ToSet(parts[t])
  BY <1>8, Flattened
<1>10. \A t \in DOMAIN parts : ToSet(parts[t]) \subseteq T
  <2>1. \A t \in DOMAIN parts : parts[t] \in Seq(T)
    BY <1>8
  <2> QED
    BY <2>1, MembersAre DEF ToSet
<1>11. ASSUME NEW n \in Range(FlattenSeq(parts)) PROVE Range(n.rows) \subseteq given
  <2>1. n \in T
    BY <1>9, <1>10, <1>11 DEF Range, ToSet
  <2>2. PICK k \in DOMAIN answer : n = nodes[k]
    BY <1>2, <1>4, <2>1 DEF T, ToSet
  <2> QED
    BY <1>3, <2>2
<1> QED
  BY <1>1, <1>11 DEF given, RowsOfFields

\* Value pairing is asked for columns of the enriched fields.
LEMMA CrosswalksAre ==
  ASSUME NEW enriched, IsList(enriched), NEW chain,
         \A n \in Range(chain) : Range(n.rows) \subseteq RowsOfFields(enriched)
  PROVE  Crosswalks(chain, enriched) \subseteq {x.column : x \in Range(enriched)}
<1>1. ASSUME NEW i \in RowsOfFields(enriched)
      PROVE  LastPlace(enriched, i) \in {x.column : x \in Range(enriched)}
  <2> DEFINE S == {k \in DOMAIN enriched : enriched[k].row = i}
  <2>1. S # {}
    BY DEF RowsOfFields, Range
  <2>2. S \subseteq 1..Len(enriched) /\ Len(enriched) \in Nat /\ S \subseteq DOMAIN enriched
    BY ListsAre
  <2>3. LastPlace(enriched, i) = enriched[Max(S)].column
    BY DEF LastPlace
  <2> HIDE DEF S
  <2>4. Max(S) \in S
    BY <2>1, <2>2, MaxIs
  <2> QED
    BY <2>2, <2>3, <2>4 DEF Range
<1>2. ASSUME NEW c \in Crosswalks(chain, enriched)
      PROVE  \E i \in RowsOfFields(enriched) : c = LastPlace(enriched, i)
  BY DEF Crosswalks
<1> QED
  BY <1>1, <1>2

\* An operation as the model writes it.
IsCall(o) == DOMAIN o = {"op", "field", "by", "measures", "sound"}

\* What is kept of an answer by name are operations.
LEMMA NamedAre ==
  ASSUME NEW answer, IsList(answer), \A i \in DOMAIN answer : IsCall(answer[i])
  PROVE  IsList(Named(answer)) /\ \A k \in DOMAIN Named(answer) : IsCall(Named(answer)[k])
<1> DEFINE places == {i \in DOMAIN answer : answer[i].op \in Operations}
           known == At(answer, places)
           named == Named(answer)
<1>1. named = [k \in DOMAIN known |->
                 [known[k] EXCEPT !.field = IF Known(@) THEN @ ELSE NoText]]
  BY DEF Named
<1>2. places \subseteq DOMAIN answer
  OBVIOUS
<1> HIDE DEF places
<1>3. IsList(known) /\ \A k \in DOMAIN known : \E i \in places : known[k] = answer[i]
  BY <1>2, PickedIs
<1> HIDE DEF known, named
<1>4. Len(known) \in Nat /\ DOMAIN known = 1..Len(known)
  BY <1>3, ListsAre
<1>5. named = [k \in 1..Len(known) |-> named[k]]
  BY <1>1, <1>4
<1>6. IsList(named)
  BY <1>4, <1>5, ListIf
<1>7. ASSUME NEW k \in DOMAIN named PROVE IsCall(named[k])
  <2>1. IsCall(known[k])
    BY <1>1, <1>2, <1>3
  <2>2. DOMAIN named[k] = DOMAIN known[k]
    BY <1>1
  <2> QED
    BY <2>1, <2>2 DEF IsCall
<1> QED
  BY <1>6, <1>7 DEF named

\* What survives validation is valid, and was there before.
LEMMA UsableAre ==
  ASSUME NEW s, IsList(s)
  PROVE  \A o \in Range(Usable(s)) : Valid(o) /\ \E k \in DOMAIN s : o = s[k]
<1> DEFINE places == {k \in DOMAIN s : Valid(s[k])}
<1>1. Usable(s) = At(s, places) /\ places \subseteq DOMAIN s /\ \A k \in places : Valid(s[k])
  BY DEF Usable
<1> HIDE DEF places
<1>2. \A n \in DOMAIN At(s, places) : \E i \in places : At(s, places)[n] = s[i]
  BY <1>1, PickedIs
<1> QED
  BY <1>1, <1>2 DEF Range

\* Grouping operations have every bucketed field among their keys.
Bonded(ops) ==
  \A b, g \in Range(ops) : (b.op = "date_bucket" /\ g.op = "aggregate_group") => b.field \in g.by

\* A grouping is bonded to the buckets before the validation, and stays so after it.
LEMMA BondedAre ==
  ASSUME NEW ops, IsList(ops), \A k \in DOMAIN ops : IsCall(ops[k])
  PROVE  Bonded(Usable(Bond(ops)))
<1> DEFINE all == Bond(ops)
           fields == BucketFields(ops)
<1>1. all = [k \in DOMAIN ops |-> IF ops[k].op = "aggregate_group"
                                  THEN [ops[k] EXCEPT !.by = @ \cup fields] ELSE ops[k]]
  BY DEF Bond
<1>2. Len(ops) \in Nat /\ DOMAIN ops = 1..Len(ops)
  BY ListsAre
<1> HIDE DEF all, fields
<1>3. IsList(all) /\ DOMAIN all = DOMAIN ops
  <2>1. all = [k \in 1..Len(ops) |-> all[k]]
    BY <1>1, <1>2
  <2> QED
    BY <1>1, <1>2, <2>1, ListIf
<1>4. ASSUME NEW k \in DOMAIN ops, ops[k].op = "aggregate_group"
      PROVE  all[k].op = "aggregate_group" /\ fields \subseteq all[k].by
  <2>1. all[k] = [ops[k] EXCEPT !.by = ops[k].by \cup fields]
    BY <1>1, <1>4
  <2>2. DOMAIN ops[k] = {"op", "field", "by", "measures", "sound"}
    BY DEF IsCall
  <2>3. all[k].by = ops[k].by \cup fields /\ all[k].op = ops[k].op
    BY <2>1, <2>2
  <2> QED
    BY <1>4, <2>3
<1>5. ASSUME NEW k \in DOMAIN ops, ops[k].op # "aggregate_group" PROVE all[k] = ops[k]
  BY <1>1, <1>5
<1>6. ASSUME NEW b \in Range(Usable(all)), NEW g \in Range(Usable(all)),
             b.op = "date_bucket", g.op = "aggregate_group"
      PROVE  b.field \in g.by
  <2>1. PICK k \in DOMAIN ops : b = all[k] /\ Valid(b)
    BY <1>3, UsableAre
  <2>2. PICK j \in DOMAIN ops : g = all[j]
    BY <1>3, UsableAre
  <2>3. b = ops[k] /\ ops[k].op = "date_bucket"
    BY <1>4, <1>5, <1>6, <2>1
  <2>4. b.field \in Columns /\ b.field # NoText
    BY <1>6, <2>1, AnswersAssumption DEF Valid
  <2>5. ops[k].field \in fields
    BY <2>3, <2>4 DEF BucketFields, fields, Range
  <2>6. ops[j].op = "aggregate_group"
    BY <1>5, <1>6, <2>2
  <2> QED
    BY <1>4, <2>2, <2>3, <2>5, <2>6
<1> QED
  BY <1>6 DEF Bonded, all

------------------------------------------------------------------------------
(* The offline compiler.                                                   *)

\* Lists of any elements, joined.
LEMMA FlatLists ==
  ASSUME NEW parts, IsList(parts), \A k \in DOMAIN parts : IsList(parts[k])
  PROVE  /\ IsList(FlattenSeq(parts))
         /\ \A k \in DOMAIN parts : ToSet(parts[k]) \subseteq ToSet(FlattenSeq(parts))
<1> DEFINE T == UNION {ToSet(parts[k]) : k \in DOMAIN parts}
<1>1. ASSUME NEW k \in DOMAIN parts PROVE parts[k] \in Seq(T)
  <2>1. \A i \in DOMAIN parts[k] : parts[k][i] \in T
    BY DEF ToSet
  <2> HIDE DEF T
  <2> QED
    BY <2>1, ListOver
<1> HIDE DEF T
<1>2. parts \in Seq(Seq(T))
  <2> DEFINE D == Seq(T)
  <2>1. \A k \in DOMAIN parts : parts[k] \in D
    BY <1>1
  <2> HIDE DEF D
  <2>2. parts \in Seq(D)
    BY <2>1, ListOver
  <2> QED
    BY <2>2 DEF D
<1>3. /\ FlattenSeq(parts) \in Seq(T)
      /\ \A x : x \in ToSet(FlattenSeq(parts)) <=> \E k \in DOMAIN parts : x \in ToSet(parts[k])
  BY <1>2, Flattened
<1> QED
  BY <1>3, SeqIsList

\* What is recognised of an instruction runs on its field.
LEMMA CompiledIs ==
  ASSUME NEW field, NEW instruction, IsList(instruction)
  PROVE  /\ IsList(Compiled(field, instruction))
         /\ \A d \in Range(instruction) :
              (field # NoText /\ d \in Recognised) =>
                 \E o \in ToSet(Compiled(field, instruction)) : o.op = d /\ o.field = field
<1> DEFINE places == {i \in DOMAIN instruction : field # NoText /\ instruction[i] \in Recognised}
           known == At(instruction, places)
           all == Compiled(field, instruction)
<1>1. all = [k \in DOMAIN known |-> [op |-> known[k], field |-> field]]
  BY DEF Compiled
<1>2. /\ places \subseteq DOMAIN instruction
      /\ \A i \in DOMAIN instruction :
           (field # NoText /\ instruction[i] \in Recognised) => i \in places
  OBVIOUS
<1> HIDE DEF places
<1>3. IsList(known) /\ \A i \in places : \E n \in DOMAIN known : known[n] = instruction[i]
  BY <1>2, PickedIs
<1> HIDE DEF known, all
<1>4. Len(known) \in Nat /\ DOMAIN known = 1..Len(known)
  BY <1>3, ListsAre
<1>5. IsList(all)
  <2>1. all = [k \in 1..Len(known) |-> all[k]]
    BY <1>1, <1>4
  <2> QED
    BY <1>4, <2>1, ListIf
<1>6. ASSUME NEW d \in Range(instruction), field # NoText, d \in Recognised
      PROVE  \E o \in ToSet(all) : o.op = d /\ o.field = field
  <2>1. PICK i \in DOMAIN instruction : instruction[i] = d
    BY DEF Range
  <2>2. PICK n \in DOMAIN known : known[n] = d
    BY <1>2, <1>3, <1>6, <2>1
  <2>3. n \in DOMAIN all /\ all[n].op = d /\ all[n].field = field
    BY <1>1, <2>2
  <2> QED
    BY <2>3 DEF ToSet
<1> QED
  BY <1>5, <1>6 DEF all

\* A rule of the user: a field and what to do with it.
Rule == [field : STRING, instruction : Seq(STRING)]

\* The rules that count name a field and are lists of directives.
LEMMA CleanIs ==
  ASSUME NEW rules \in Seq(Rule)
  PROVE  /\ IsList(Clean(rules))
         /\ \A k \in DOMAIN Clean(rules) : Clean(rules)[k].field # NoText
                                           /\ IsList(Clean(rules)[k].instruction)
<1> DEFINE places == {i \in DOMAIN rules : rules[i].field # NoText /\ rules[i].instruction # <<>>}
<1>1. /\ Clean(rules) = At(rules, places) /\ places \subseteq DOMAIN rules
      /\ \A i \in places : rules[i].field # NoText
  BY DEF Clean
<1> HIDE DEF places
<1>2. IsList(rules) /\ \A i \in DOMAIN rules : rules[i] \in Rule
  BY MembersAre
<1>3. /\ IsList(At(rules, places))
      /\ \A n \in DOMAIN At(rules, places) : \E i \in places : At(rules, places)[n] = rules[i]
  BY <1>1, <1>2, PickedIs
<1>4. ASSUME NEW i \in places PROVE IsList(rules[i].instruction)
  <2>1. rules[i].instruction \in Seq(STRING)
    BY <1>1, <1>2 DEF Rule
  <2> QED
    BY <2>1, SeqIsList
<1> QED
  BY <1>1, <1>3, <1>4

\* Every instruction of the rules is an operation or a note.
NothingLost(operations, notes, rules) ==
  /\ \A r \in Range(rules.transformation) : \A d \in Range(r.instruction) :
       \/ \E o \in Range(operations) : o.op = d /\ o.field = r.field
       \/ <<r.field, d>> \in notes
  /\ \A r \in Range(rules.other) : \A d \in Range(r.instruction) : <<r.field, d>> \in notes

\* Each rule that is not an operation has its note.
LEMMA NotesAre ==
  ASSUME NEW sheet, NEW rules
  PROVE  /\ \A r \in Range(rules.transformation) : RuleNotes(r) \subseteq StubNotes(sheet, rules)
         /\ \A r \in Range(rules.other) : \A d \in Range(r.instruction) :
              <<r.field, d>> \in StubNotes(sheet, rules)
<1> DEFINE sets == {RowNotes(c) : c \in Range(SourceRows(sheet))}
                   \cup {RuleNotes(r) : r \in Range(rules.transformation)}
                   \cup {Verbatim(r) : r \in Range(rules.other)}
<1>1. StubNotes(sheet, rules) = UNION sets
  BY DEF StubNotes
<1>2. /\ \A r \in Range(rules.transformation) : RuleNotes(r) \in sets
      /\ \A r \in Range(rules.other) : Verbatim(r) \in sets
  OBVIOUS
<1>3. \A r \in Range(rules.other) : \A d \in Range(r.instruction) : <<r.field, d>> \in Verbatim(r)
  BY DEF Verbatim
<1> HIDE DEF sets
<1> QED
  BY <1>1, <1>2, <1>3

\* What the offline compiler drafts has every instruction of the rules.
LEMMA StubKeeps ==
  ASSUME NEW sheet, SheetIs(sheet), NEW a \in Seq(Rule), NEW b \in Seq(Rule), NEW rules,
         rules = [transformation |-> Clean(a), other |-> Clean(b)]
  PROVE  NothingLost(StubOperations(sheet, rules), StubNotes(sheet, rules), rules)
<1> DEFINE rule == rules.transformation
           given == SourceRows(sheet)
           first == [k \in DOMAIN given |-> Compiled(RowField(given[k]), RowInstruction(given[k]))]
           second == [k \in DOMAIN rule |-> Compiled(RuleField(rule[k]), rule[k].instruction)]
<1>1. StubOperations(sheet, rules) = FlattenSeq(first) \o FlattenSeq(second)
  BY DEF StubOperations
<1>2. /\ IsList(rule)
      /\ \A k \in DOMAIN rule : rule[k].field # NoText /\ IsList(rule[k].instruction)
  BY CleanIs
<1>3. IsList(given)
  <2> DEFINE places == {i \in DOMAIN sheet.candidates : sheet.candidates[i].texts["source"] # NoText}
  <2>1. given = At(sheet.candidates, places) /\ places \subseteq DOMAIN sheet.candidates
    BY DEF SourceRows
  <2> HIDE DEF places, given
  <2>2. IsList(sheet.candidates)
    BY DEF SheetIs
  <2> QED
    BY <2>1, <2>2, PickedIs
<1> HIDE DEF rule, given
<1>4. IsList(first) /\ \A k \in DOMAIN first : IsList(first[k])
  <2>1. Len(given) \in Nat /\ DOMAIN given = 1..Len(given)
    BY <1>3, ListsAre
  <2>2. first = [k \in 1..Len(given) |-> first[k]]
    BY <2>1
  <2>3. ASSUME NEW k \in DOMAIN given PROVE IsList(Compiled(RowField(given[k]), RowInstruction(given[k])))
    <3>1. IsList(RowInstruction(given[k]))
      BY EmptyList, SingleList DEF RowInstruction
    <3> QED
      BY <3>1, CompiledIs
  <2>4. \A k \in DOMAIN first : IsList(first[k])
    BY <2>3
  <2> HIDE DEF first
  <2> QED
    BY <2>1, <2>2, <2>4, ListIf
<1>5. IsList(second) /\ \A k \in DOMAIN second : IsList(second[k])
  <2>1. Len(rule) \in Nat /\ DOMAIN rule = 1..Len(rule)
    BY <1>2, ListsAre
  <2>2. second = [k \in 1..Len(rule) |-> second[k]]
    BY <2>1
  <2>3. \A k \in DOMAIN rule : IsList(Compiled(RuleField(rule[k]), rule[k].instruction))
    BY <1>2, CompiledIs
  <2>4. \A k \in DOMAIN second : IsList(second[k])
    BY <2>3
  <2> HIDE DEF second
  <2> QED
    BY <2>1, <2>2, <2>4, ListIf
<1>6. /\ DOMAIN second = DOMAIN rule
      /\ \A k \in DOMAIN rule : second[k] = Compiled(RuleField(rule[k]), rule[k].instruction)
  OBVIOUS
<1> DEFINE firstOps == FlattenSeq(first)
           secondOps == FlattenSeq(second)
<1> HIDE DEF first, second
<1>7. /\ IsList(firstOps) /\ IsList(secondOps)
      /\ \A k \in DOMAIN rule : ToSet(second[k]) \subseteq ToSet(secondOps)
  BY <1>4, <1>5, <1>6, FlatLists
<1> HIDE DEF firstOps, secondOps
<1>8. ToSet(secondOps) \subseteq ToSet(firstOps \o secondOps)
  BY <1>7, JointLists
<1>9. ASSUME NEW k \in DOMAIN rule, NEW d \in Range(rule[k].instruction)
      PROVE  \/ \E o \in ToSet(firstOps \o secondOps) : o.op = d /\ o.field = rule[k].field
             \/ <<rule[k].field, d>> \in StubNotes(sheet, rules)
  <2>1. RuleNotes(rule[k]) \subseteq StubNotes(sheet, rules)
    <3>1. rule[k] \in Range(rules.transformation)
      BY DEF Range, rule
    <3> QED
      BY <3>1, NotesAre
  <2>2. CASE RuleField(rule[k]) = NoText
    BY <2>1, <2>2 DEF RuleNotes, Verbatim
  <2>3. CASE RuleField(rule[k]) # NoText
    <3>1. RuleField(rule[k]) = rule[k].field
      BY <2>3 DEF RuleField, FieldOf
    <3>2. CASE d \in Recognised
      <4>1. \E o \in ToSet(Compiled(rule[k].field, rule[k].instruction)) :
              o.op = d /\ o.field = rule[k].field
        BY <1>2, <3>2, CompiledIs
      <4>2. second[k] = Compiled(rule[k].field, rule[k].instruction)
        BY <1>6, <3>1
      <4>3. ToSet(Compiled(rule[k].field, rule[k].instruction)) \subseteq ToSet(firstOps \o secondOps)
        BY <1>7, <1>8, <4>2
      <4> QED
        BY <4>1, <4>3
    <3>3. CASE d \notin Recognised
      BY <2>1, <2>3, <3>3 DEF RuleNotes, Leftover
    <3> QED
      BY <3>2, <3>3
  <2> QED
    BY <2>2, <2>3
<1>10. \A r \in Range(rules.other) : \A d \in Range(r.instruction) :
         <<r.field, d>> \in StubNotes(sheet, rules)
  BY NotesAre
<1>11. StubOperations(sheet, rules) = firstOps \o secondOps
  BY <1>1 DEF firstOps, secondOps
<1>12. \A r \in Range(rules.transformation) : \E k \in DOMAIN rule : r = rule[k]
  BY DEF rule, Range
<1>13. ToSet(firstOps \o secondOps) = Range(firstOps \o secondOps)
  BY DEF ToSet, Range
<1>14. ASSUME NEW r \in Range(rules.transformation), NEW d \in Range(r.instruction)
       PROVE  \/ \E o \in Range(StubOperations(sheet, rules)) : o.op = d /\ o.field = r.field
              \/ <<r.field, d>> \in StubNotes(sheet, rules)
  <2>1. PICK k \in DOMAIN rule : r = rule[k]
    BY <1>12
  <2>2. \/ \E o \in ToSet(firstOps \o secondOps) : o.op = d /\ o.field = rule[k].field
        \/ <<rule[k].field, d>> \in StubNotes(sheet, rules)
    BY <1>9, <2>1
  <2> QED
    BY <1>11, <1>13, <2>1, <2>2
<1> QED
  BY <1>10, <1>14 DEF NothingLost

------------------------------------------------------------------------------
(* What holds at every step between a workbook and a recipe or a draft.    *)

\* What a resolution consists of.
ResFields == {"headers", "relevant", "rows", "enriched", "chain", "operations", "proposed",
              "pairing", "degraded"}

\* The conjuncts of AnswersAreGrounded, of any sheet and resolution.
RelevantOK(sheet, r) ==
  \A k \in DOMAIN r.relevant :
    LET c == r.relevant[k] IN
    \/ c \in Range(sheet.candidates) /\ CandidateOf(sheet.heads, r.rows[k], c.row) = c
    \/ c \in Range(r.headers) /\ r.rows[k] = <<>>

FieldsOK(r) ==
  /\ IsList(r.enriched)
  /\ \A x \in Range(r.enriched) : x.column \in Columns /\ x.row \in {c.row : c \in Range(r.relevant)}

ChainOK(r) == \A n \in Range(r.chain) : Range(n.rows) \subseteq RowsOfFields(r.enriched)

\* The steps of a resolution and what each of them has still to find.
Early == {"picking", "filters", "relevant", "drafted", "refused"}

Unfilled(s, r) ==
  /\ s \in Early => r.relevant = <<>>
  /\ s \in Early \union {"enrich"} => r.enriched = <<>>
  /\ s \in Early \union {"enrich", "chain"} => r.chain = <<>>
  /\ s # "resolved" => r.pairing = {} /\ r.operations = <<>>

\* What a resolution owes at a step, of the sheet it reads.
ResOK(sheet, s, r) ==
  /\ DOMAIN r = ResFields /\ HeadersAre(r.headers)
  /\ RelevantOK(sheet, r) /\ FieldsOK(r) /\ ChainOK(r)
  /\ r.pairing \subseteq {x.column : x \in Range(r.enriched)}
  /\ Bonded(r.operations)
  /\ Unfilled(s, r)

\* q differs from r at most in what was degraded or proposed.
Same(q, r) ==
  /\ DOMAIN q = DOMAIN r /\ q.headers = r.headers /\ q.relevant = r.relevant /\ q.rows = r.rows
  /\ q.enriched = r.enriched /\ q.chain = r.chain /\ q.operations = r.operations
  /\ q.pairing = r.pairing

\* The steps in their order: what is empty before a step is empty before an earlier one.
LEMMA SameIsOK ==
  ASSUME NEW sheet, NEW s, NEW r, ResOK(sheet, s, r), NEW q, Same(q, r), NEW t, Unfilled(t, q)
  PROVE  ResOK(sheet, t, q)
<1>1. RelevantOK(sheet, q)
  BY DEF ResOK, RelevantOK, Same
<1>2. FieldsOK(q) /\ ChainOK(q)
  BY DEF ResOK, FieldsOK, ChainOK, Same
<1> QED
  BY <1>1, <1>2 DEF ResOK, Same

\* That a call failed is noted, and nothing else.
LEMMA DegradedIs ==
  ASSUME NEW r, DOMAIN r = ResFields
  PROVE  Same([r EXCEPT !.degraded = TRUE], r)
BY DEF Same, ResFields

\* Going on to a later step asks no more.
LEMMA GoOn ==
  ASSUME NEW sheet, NEW s, NEW r, ResOK(sheet, s, r), NEW q, Same(q, r), NEW t,
         \/ s \in Early
         \/ s = "enrich" /\ t \in {"chain", "resolved"}
         \/ s = "chain" /\ t = "compile"
         \/ s = "compile" /\ t = "resolved"
  PROVE  ResOK(sheet, t, q)
<1>1. Unfilled(t, q)
  BY DEF ResOK, Unfilled, Same, Early
<1> QED
  BY <1>1, SameIsOK

\* A resolution that has found nothing yet is grounded in any sheet.
LEMMA NothingIsOK == ASSUME NEW sheet, NEW s PROVE ResOK(sheet, s, NothingFound)
<1> DEFINE r == NothingFound
<1>1. /\ DOMAIN r = ResFields
      /\ r.headers = <<>> /\ r.relevant = <<>> /\ r.enriched = <<>> /\ r.chain = <<>>
      /\ r.operations = <<>> /\ r.pairing = {}
  BY DEF NothingFound, ResFields
<1> HIDE DEF r
<1>2. HeadersAre(r.headers) /\ RelevantOK(sheet, r) /\ FieldsOK(r) /\ ChainOK(r)
  BY <1>1, EmptyList DEF HeadersAre, RelevantOK, FieldsOK, ChainOK
<1>3. Bonded(r.operations) /\ Unfilled(s, r)
  BY <1>1, EmptyList DEF Bonded, Unfilled
<1> QED
  BY <1>1, <1>2, <1>3 DEF ResOK, r

\* Conditions of the preamble, as a step of the resolution.
LEMMA HeadersStep ==
  ASSUME NEW sheet, NEW r, ResOK(sheet, "filters", r), NEW answer \in HeaderAnswers
  PROVE  ResOK(sheet, "relevant", [r EXCEPT !.headers = HeaderFilters(sheet, answer)])
<1> DEFINE q == [r EXCEPT !.headers = HeaderFilters(sheet, answer)]
<1>1. /\ DOMAIN q = ResFields /\ q.headers = HeaderFilters(sheet, answer)
      /\ q.relevant = r.relevant /\ q.rows = r.rows /\ q.enriched = r.enriched
      /\ q.chain = r.chain /\ q.operations = r.operations /\ q.pairing = r.pairing
  BY DEF ResOK, ResFields
<1> HIDE DEF q
<1>2. HeadersAre(q.headers)
  <2>1. IsList(answer)
    BY AnswersAssumption, SeqIsList
  <2> QED
    BY <1>1, <2>1, HeaderRows
<1>3. Unfilled("relevant", q) /\ q.relevant = <<>>
  BY <1>1 DEF ResOK, Unfilled, Early
<1>4. RelevantOK(sheet, q)
  BY <1>3, EmptyList DEF RelevantOK
<1>5. FieldsOK(q) /\ ChainOK(q)
  BY <1>1 DEF ResOK, FieldsOK, ChainOK
<1> QED
  BY <1>1, <1>2, <1>3, <1>4, <1>5 DEF ResOK, q

\* r with the fields kept and the rows they were read from.
Selected(sheet, r, kept) ==
  [r EXCEPT !.relevant = kept,
            !.rows = [k \in DOMAIN kept |-> RowAt(sheet.rows, kept[k].row)]]

\* Relevant fields, as a step of the resolution.
LEMMA RelevantStep ==
  ASSUME NEW sheet, SheetIs(sheet), NEW r, ResOK(sheet, "relevant", r), NEW answer \in RowAnswers
  PROVE  ResOK(sheet, "enrich",
               Selected(sheet, r, RelevantOf(sheet.candidates \o r.headers, answer)))
<1> DEFINE kept == RelevantOf(sheet.candidates \o r.headers, answer)
<1>0. kept = RelevantOf(sheet.candidates \o r.headers, answer)
  OBVIOUS
<1> HIDE DEF kept
<1> DEFINE given == [k \in DOMAIN kept |-> RowAt(sheet.rows, kept[k].row)]
           q == [r EXCEPT !.relevant = kept, !.rows = given]
           both == sheet.candidates \o r.headers
<1>1. /\ DOMAIN q = ResFields /\ q.headers = r.headers /\ q.relevant = kept /\ q.rows = given
      /\ q.enriched = r.enriched /\ q.chain = r.chain /\ q.operations = r.operations
      /\ q.pairing = r.pairing
  BY DEF ResOK, ResFields
<1>2. IsList(sheet.candidates) /\ IsList(r.headers) /\ IsList(answer)
  BY AnswersAssumption, SeqIsList DEF SheetIs, ResOK, HeadersAre
<1>3. IsList(both) /\ ToSet(both) = ToSet(sheet.candidates) \union ToSet(r.headers)
  BY <1>2, JointLists
<1>4. \A k \in DOMAIN kept : kept[k] \in Range(both)
  <2> HIDE DEF both
  <2>1. kept = RelevantOf(both, answer)
    BY <1>0 DEF both
  <2> QED
    BY <1>2, <1>3, <2>1, RelevantAre
<1> HIDE DEF q, given, both
<1>5. ASSUME NEW k \in DOMAIN kept
      PROVE  \/ /\ kept[k] \in Range(sheet.candidates)
                /\ CandidateOf(sheet.heads, given[k], kept[k].row) = kept[k]
             \/ kept[k] \in Range(r.headers) /\ given[k] = <<>>
  <2>1. given[k] = RowAt(sheet.rows, kept[k].row)
    BY DEF given
  <2>2. kept[k] \in Range(sheet.candidates) \/ kept[k] \in Range(r.headers)
    BY <1>3, <1>4 DEF Range, ToSet
  <2>3. CASE kept[k] \in Range(sheet.candidates)
    <3>1. /\ kept[k].row \in Nat /\ kept[k].row < Len(sheet.rows)
          /\ CandidateOf(sheet.heads, sheet.rows[kept[k].row + 1], kept[k].row) = kept[k]
      BY <2>3 DEF SheetIs
    <3>2. given[k] = sheet.rows[kept[k].row + 1]
      BY <2>1, <3>1 DEF RowAt
    <3> QED
      BY <2>3, <3>1, <3>2
  <2>4. CASE kept[k] \in Range(r.headers)
    <3>1. kept[k].row \in Int /\ kept[k].row < 0
      BY <2>4 DEF ResOK, HeadersAre
    <3>2. given[k] = <<>>
      BY <2>1, <3>1 DEF RowAt
    <3> QED
      BY <2>4, <3>2
  <2> QED
    BY <2>2, <2>3, <2>4
<1>6. RelevantOK(sheet, q)
  BY <1>1, <1>5 DEF RelevantOK
<1>7. Unfilled("enrich", q)
  BY <1>1 DEF ResOK, Unfilled, Early
<1>8. r.enriched = <<>>
  BY DEF ResOK, Unfilled, Early
<1>9. FieldsOK(q) /\ ChainOK(q)
  BY <1>1, <1>8, EmptyList DEF ResOK, FieldsOK, ChainOK
<1> QED
  BY <1>0, <1>1, <1>6, <1>7, <1>9 DEF ResOK, Selected, q, given

\* Enriched fields, as a step of the resolution.
LEMMA FieldsStep ==
  ASSUME NEW sheet, NEW r, ResOK(sheet, "enrich", r), NEW answer \in FieldAnswers
  PROVE  ResOK(sheet, "chain",
               [r EXCEPT !.enriched = At(answer, {i \in DOMAIN answer : Fits(r.relevant, answer[i])})])
<1> DEFINE kept == At(answer, {i \in DOMAIN answer : Fits(r.relevant, answer[i])})
           q == [r EXCEPT !.enriched = kept]
<1>1. /\ DOMAIN q = ResFields /\ q.headers = r.headers /\ q.relevant = r.relevant /\ q.rows = r.rows
      /\ q.enriched = kept /\ q.chain = r.chain /\ q.operations = r.operations
      /\ q.pairing = r.pairing
  BY DEF ResOK, ResFields
<1>2. /\ IsList(kept)
      /\ \A x \in Range(kept) : x.column \in Columns /\ x.row \in {c.row : c \in Range(r.relevant)}
  <2>1. IsList(answer)
    BY AnswersAssumption, SeqIsList
  <2> QED
    BY <2>1, FieldsFit
<1> HIDE DEF q, kept
<1>3. RelevantOK(sheet, q)
  BY <1>1 DEF ResOK, RelevantOK
<1>4. Unfilled("chain", q) /\ q.chain = <<>> /\ q.pairing = {}
  BY <1>1 DEF ResOK, Unfilled, Early
<1>5. FieldsOK(q) /\ ChainOK(q)
  BY <1>1, <1>2, <1>4, EmptyList DEF FieldsOK, ChainOK
<1> QED
  BY <1>1, <1>3, <1>4, <1>5 DEF ResOK, q, kept

\* The chain, as a step of the resolution.
LEMMA ChainStep ==
  ASSUME NEW sheet, NEW r, ResOK(sheet, "chain", r), NEW answer \in ChainAnswers
  PROVE  ResOK(sheet, "compile", [r EXCEPT !.chain = ChainOf(r.enriched, answer)])
<1> DEFINE chain == ChainOf(r.enriched, answer)
           q == [r EXCEPT !.chain = chain]
<1>1. /\ DOMAIN q = ResFields /\ q.headers = r.headers /\ q.relevant = r.relevant /\ q.rows = r.rows
      /\ q.enriched = r.enriched /\ q.chain = chain /\ q.operations = r.operations
      /\ q.pairing = r.pairing
  BY DEF ResOK, ResFields
<1>2. \A n \in Range(chain) : Range(n.rows) \subseteq RowsOfFields(r.enriched)
  <2>1. answer \in Seq([intent : STRING, rows : Seq(Int)])
    BY AnswersAssumption
  <2> QED
    BY <2>1, ChainRows
<1> HIDE DEF q, chain
<1>3. RelevantOK(sheet, q) /\ FieldsOK(q)
  BY <1>1 DEF ResOK, RelevantOK, FieldsOK
<1>4. Unfilled("compile", q)
  BY <1>1 DEF ResOK, Unfilled, Early
<1>5. ChainOK(q)
  BY <1>1, <1>2 DEF ChainOK
<1> QED
  BY <1>1, <1>3, <1>4, <1>5 DEF ResOK, q, chain

\* Operations, as the last step of the resolution.
LEMMA OperationsStep ==
  ASSUME NEW sheet, NEW r, ResOK(sheet, "compile", r), NEW q,
         DOMAIN q = ResFields, q.headers = r.headers, q.relevant = r.relevant, q.rows = r.rows,
         q.enriched = r.enriched, q.chain = r.chain, q.pairing = Crosswalks(r.chain, r.enriched),
         Bonded(q.operations)
  PROVE  ResOK(sheet, "resolved", q)
<1>1. RelevantOK(sheet, q) /\ FieldsOK(q) /\ ChainOK(q)
  BY DEF ResOK, RelevantOK, FieldsOK, ChainOK
<1>2. q.pairing \subseteq {x.column : x \in Range(q.enriched)}
  <2>1. Crosswalks(r.chain, r.enriched) \subseteq {x.column : x \in Range(r.enriched)}
    BY CrosswalksAre DEF ResOK, FieldsOK, ChainOK
  <2> QED
    BY <2>1
<1>3. Unfilled("resolved", q)
  BY DEF Unfilled, Early
<1> QED
  BY <1>1, <1>2, <1>3 DEF ResOK

\* What a draft of the offline compiler owes to the rules.
DraftOK(d) == d.compiler = "stub" => NothingLost(d.operations, d.notes, d.rules)

\* The worksheet of the interface of a pick.
SheetOf(b, i) == Interfaces(b)[i].sheet

\* Every request is of its pick's interface; without mishap it is the last pick's, awaited.
PicksOK ==
  /\ picks \in Seq(Nat) /\ landed \in 0..Len(picks) /\ loading \in BOOLEAN
  /\ \A n \in 1..Len(picks) : SheetOf(book, picks[n]) \in Range(book.sheets)
  /\ \A r \in requests : \E n \in 1..Len(picks) : r = [pick |-> n, sheet |-> SheetOf(book, picks[n])]
  /\ mishap \/ (\A r \in requests : loading /\ r.pick = Len(picks))
  /\ PickedIsParsed

\* What holds at every step between a workbook and a recipe or a draft.
AuthoringInv ==
  /\ book \in Books /\ PicksOK /\ SheetIs(parsed) /\ DraftOK(draft)
  /\ ResOK(parsed, step, res)

\* A workbook that was uploaded and nothing else.
LEMMA AuthoringInvInit == AuthoringInit => AuthoringInv
<1> SUFFICES ASSUME AuthoringInit PROVE AuthoringInv
  OBVIOUS
<1>1. PicksOK
  <2>1. /\ picks = <<>> /\ requests = {} /\ loading = FALSE /\ landed = 0
    BY DEF AuthoringInit
  <2>2. picks \in Seq(Nat) /\ Len(picks) = 0
    BY <2>1
  <2>3. PickedIsParsed
    BY <2>1, <2>2 DEF PickedIsParsed
  <2>4. 1..Len(picks) = {} /\ 0..Len(picks) = {0}
    BY <2>2
  <2> QED
    BY <2>1, <2>2, <2>3, <2>4 DEF PicksOK
<1>2. SheetIs(parsed) /\ ResOK(parsed, step, res)
  BY NoSheetIs, NothingIsOK DEF AuthoringInit
<1>3. DraftOK(draft)
  BY DEF AuthoringInit, DraftOK, NoDraft
<1> QED
  BY <1>1, <1>2, <1>3 DEF AuthoringInit, AuthoringInv

\* The picked interface leads to the sheet that is sent.
LEMMA PickStep == AuthoringInv /\ Pick => AuthoringInv'
<1> SUFFICES ASSUME AuthoringInv, Pick PROVE AuthoringInv'
  OBVIOUS
<1> DEFINE all == Interfaces(book)
           Same_(i) == {k \in DOMAIN all : all[k].id = all[i].id}
<1>1. book \in Books /\ PicksOK
  BY DEF AuthoringInv
<1>2. /\ DOMAIN all \subseteq Nat
      /\ \A i \in DOMAIN all : all[i].sheet \in Range(book.sheets) \union {NoName}
      /\ \A i, j \in DOMAIN all : all[i].id = all[j].id => i = j
  BY <1>1, InterfacesAre
<1>3. PICK i \in DOMAIN all :
        LET found == all[Min(Same_(i))] IN
        /\ all[i].sheet # NoName
        /\ picks' = Append(picks, i)
        /\ loading' = (found.sheet # NoName)
        /\ requests' = requests \union {[pick |-> Len(picks) + 1, sheet |-> s] : s \in {found.sheet} \ {NoName}}
  BY DEF Pick
<1> HIDE DEF all
<1>4. Same_(i) = {i} /\ i \in Nat
  BY <1>2
<1>5. Min(Same_(i)) = i
  <2>1. Same_(i) \subseteq Nat /\ Same_(i) # {}
    BY <1>4
  <2> HIDE DEF Same_
  <2>2. Min(Same_(i)) \in Same_(i)
    BY <2>1, MinIs
  <2> QED
    BY <1>4, <2>2
<1>6. /\ all[i].sheet \in Range(book.sheets) /\ loading' = TRUE /\ picks' = Append(picks, i)
      /\ requests' = requests \union {[pick |-> Len(picks) + 1, sheet |-> all[i].sheet]}
  BY <1>2, <1>3, <1>5
<1>7. /\ step' = step /\ step = "picking" /\ ~loading /\ book' = book /\ parsed' = parsed
      /\ landed' = landed /\ mishap' = mishap /\ res' = res /\ draft' = draft
  BY DEF Pick, ListIsOpen
<1>8. PicksOK'
  <2> DEFINE n == Len(picks)
  <2>1. n \in Nat /\ picks \in Seq(Nat)
    BY <1>1 DEF PicksOK
  <2>2. /\ picks' \in Seq(Nat) /\ Len(picks') = n + 1 /\ picks'[n + 1] = i
        /\ \A k \in 1..n : picks'[k] = picks[k]
    BY <1>4, <1>6, <2>1
  <2>3. all[i].sheet = SheetOf(book, i)
    BY DEF all, SheetOf
  <2>4. \A k \in 1..Len(picks') : SheetOf(book', picks'[k]) \in Range(book'.sheets)
    BY <1>1, <1>6, <1>7, <2>1, <2>2, <2>3 DEF PicksOK
  <2>5. ASSUME NEW r \in requests'
        PROVE  \E k \in 1..Len(picks') : r = [pick |-> k, sheet |-> SheetOf(book', picks'[k])]
    <3>1. CASE r \in requests
      <4>1. PICK k \in 1..n : r = [pick |-> k, sheet |-> SheetOf(book, picks[k])]
        BY <1>1, <3>1 DEF PicksOK
      <4> QED
        BY <1>7, <2>1, <2>2, <4>1
    <3>2. CASE r = [pick |-> n + 1, sheet |-> all[i].sheet]
      BY <1>7, <2>1, <2>2, <2>3, <3>2
    <3> QED
      BY <1>6, <3>1, <3>2
  <2>6. mishap' \/ (\A r \in requests' : loading' /\ r.pick = Len(picks'))
    BY <1>1, <1>6, <1>7, <2>2 DEF PicksOK
  <2>7. landed' \in 0..Len(picks') /\ (landed # 0 => picks'[landed] = picks[landed])
    BY <1>1, <1>7, <2>1, <2>2 DEF PicksOK
  <2>8. PickedIsParsed'
    BY <1>1, <1>6, <1>7, <2>7 DEF PicksOK, PickedIsParsed
  <2> QED
    BY <1>6, <2>2, <2>4, <2>5, <2>6, <2>7, <2>8 DEF PicksOK
<1> QED
  BY <1>7, <1>8 DEF AuthoringInv

\* A page that no longer waits is a mishap.
LEMMA RevisitStep == AuthoringInv /\ Revisit => AuthoringInv'
BY DEF AuthoringInv, Revisit, PicksOK, PickedIsParsed

\* Whatever answer lands, what is parsed is the sheet its request was sent.
LEMMA ParseStep == AuthoringInv /\ Parse => AuthoringInv'
<1> SUFFICES ASSUME AuthoringInv, Parse PROVE AuthoringInv'
  OBVIOUS
<1>1. /\ step' = step /\ step = "picking" /\ book' = book /\ picks' = picks /\ res' = res /\ draft' = draft
  BY DEF Parse
<1>2. PICK r \in requests :
        /\ requests' = requests \ {r} /\ loading' = (loading /\ r.pick # Len(picks))
        /\ \/ /\ parsed' = ParseSheet(book.grids[r.sheet]) /\ landed' = r.pick
              /\ mishap' = mishap
           \/ mishap' = TRUE /\ parsed' = parsed /\ landed' = landed
  BY DEF Parse
<1>3. /\ book \in Books /\ PicksOK /\ SheetIs(parsed) /\ DraftOK(draft) /\ ResOK(parsed, step, res)
  BY DEF AuthoringInv
<1>4. /\ r.pick \in 1..Len(picks) /\ r.sheet = SheetOf(book, picks[r.pick])
      /\ r.sheet \in Range(book.sheets) /\ Len(picks) \in Nat
  BY <1>3 DEF PicksOK
<1>5. PicksOK'
  <2>1. landed' \in 0..Len(picks') /\ loading' \in BOOLEAN
    BY <1>1, <1>2, <1>3, <1>4 DEF PicksOK
  <2>2. mishap' \/ (\A q \in requests' : loading' /\ q.pick = Len(picks'))
    <3>1. CASE mishap' = mishap /\ ~mishap
      <4>1. \A q \in requests : q = [pick |-> Len(picks), sheet |-> SheetOf(book, picks[Len(picks)])]
        BY <1>3, <3>1 DEF PicksOK
      <4>2. requests' = {}
        BY <1>2, <4>1
      <4> QED
        BY <4>2
    <3> QED
      BY <1>2, <3>1
  <2>3. landed' # 0 => parsed' = ParseSheet(book'.grids[SheetOf(book', picks'[landed'])])
    BY <1>1, <1>2, <1>3, <1>4 DEF PicksOK, PickedIsParsed, SheetOf
  <2>4. landed' = Len(picks') \/ loading' \/ mishap'
    BY <1>1, <1>2, <1>3, <1>4 DEF PicksOK, PickedIsParsed
  <2>5. PickedIsParsed'
    BY <2>3, <2>4 DEF PickedIsParsed, SheetOf
  <2> QED
    BY <1>1, <1>2, <1>3, <2>1, <2>2, <2>5 DEF PicksOK
<1>6. SheetIs(parsed')
  <2>1. IsList(book.grids[r.sheet])
    <3>1. book.grids[r.sheet] \in Seq(Seq(STRING))
      BY <1>3, <1>4, BooksAssumption
    <3> DEFINE D == Seq(STRING)
    <3> HIDE DEF D
    <3>2. book.grids[r.sheet] \in Seq(D)
      BY <3>1 DEF D
    <3> QED
      BY <3>2, SeqIsList
  <2> QED
    BY <1>2, <1>3, <2>1, ParsedIs
<1>7. ResOK(parsed', step', res')
  <2>1. ResOK(parsed, step, res) /\ step \in Early /\ res.relevant = <<>>
    BY <1>1, <1>3 DEF ResOK, Unfilled, Early
  <2>2. ResOK(parsed', step, res)
    BY <2>1, EmptyList DEF ResOK, RelevantOK
  <2> QED
    BY <1>1, <2>2
<1> QED
  BY <1>1, <1>3, <1>5, <1>6, <1>7 DEF AuthoringInv

\* What a step of the resolution leaves alone.
LEMMA ResolutionFrame ==
  ASSUME AuthoringInv, UNCHANGED <<book, pickVars, draft>>,
         ResOK(parsed, step', res')
  PROVE  AuthoringInv'
<1>1. PicksOK' /\ parsed' = parsed
  BY DEF AuthoringInv, PicksOK, PickedIsParsed, pickVars
<1> QED
  BY <1>1 DEF AuthoringInv

\* A call that failed is a step that found nothing.
LEMMA DegradeStep ==
  ASSUME AuthoringInv, Degrade \/ UNCHANGED res, UNCHANGED <<book, pickVars, draft>>,
         \/ step \in Early
         \/ step = "enrich" /\ step' \in {"chain", "resolved"}
         \/ step = "chain" /\ step' = "compile"
  PROVE  AuthoringInv'
<1>1. ResOK(parsed, step, res) /\ DOMAIN res = ResFields
  BY DEF AuthoringInv, ResOK
<1>2. Same(res', res)
  <2>1. CASE Degrade
    BY <1>1, <2>1, DegradedIs DEF Degrade
  <2>2. CASE UNCHANGED res
    BY <2>2 DEF Same
  <2> QED
    BY <2>1, <2>2
<1>3. ResOK(parsed, step', res')
  BY <1>1, <1>2, GoOn
<1> QED
  BY <1>3, ResolutionFrame

\* The five calls to the model, one after the other.
LEMMA ResolutionStep ==
  AuthoringInv /\ (\/ StartResolution \/ ExtractHeaderFilters \/ SelectRelevantFields
                   \/ EnrichRelevantFields \/ BuildTransformationChain \/ CompileOperations)
    => AuthoringInv'
<1>0. AuthoringInv => SheetIs(parsed) /\ ResOK(parsed, step, res)
  BY DEF AuthoringInv
<1>1. ASSUME AuthoringInv, StartResolution PROVE AuthoringInv'
  <2>1. /\ step \in Early /\ UNCHANGED <<book, pickVars, draft>>
        /\ Degrade \/ UNCHANGED res
    BY <1>1 DEF StartResolution, Early
  <2> QED
    BY <1>1, <2>1, DegradeStep
<1>2. ASSUME AuthoringInv, ExtractHeaderFilters PROVE AuthoringInv'
  <2>1. /\ step = "filters" /\ step' = "relevant" /\ UNCHANGED <<book, pickVars, draft>>
        /\ \/ Degrade \/ UNCHANGED res
           \/ \E answer \in HeaderAnswers : res' = [res EXCEPT !.headers = HeaderFilters(parsed, answer)]
    BY <1>2 DEF ExtractHeaderFilters
  <2>2. CASE Degrade \/ UNCHANGED res
    <3>1. step \in Early
      BY <2>1 DEF Early
    <3> QED
      BY <1>2, <2>1, <2>2, <3>1, DegradeStep
  <2>3. ASSUME NEW answer \in HeaderAnswers, res' = [res EXCEPT !.headers = HeaderFilters(parsed, answer)]
        PROVE  AuthoringInv'
    <3>1. ResOK(parsed, "filters", res)
      BY <1>0, <1>2, <2>1
    <3>2. ResOK(parsed, step', res')
      BY <2>1, <2>3, <3>1, HeadersStep
    <3> QED
      BY <1>2, <2>1, <3>2, ResolutionFrame
  <2> QED
    BY <2>1, <2>2, <2>3
<1>3. ASSUME AuthoringInv, SelectRelevantFields PROVE AuthoringInv'
  <2> DEFINE Found(answer) == RelevantOf(parsed.candidates \o res.headers, answer)
  <2>1. /\ step = "relevant" /\ step' = "enrich" /\ UNCHANGED <<book, pickVars, draft>>
        /\ \/ Degrade \/ UNCHANGED res
           \/ \E answer \in RowAnswers : res' = Selected(parsed, res, Found(answer))
    BY <1>3 DEF SelectRelevantFields, Selected
  <2>2. CASE Degrade \/ UNCHANGED res
    <3>1. step \in Early
      BY <2>1 DEF Early
    <3> QED
      BY <1>3, <2>1, <2>2, <3>1, DegradeStep
  <2>3. ASSUME NEW answer \in RowAnswers, res' = Selected(parsed, res, Found(answer))
        PROVE  AuthoringInv'
    <3>1. SheetIs(parsed) /\ ResOK(parsed, "relevant", res)
      BY <1>0, <1>3, <2>1
    <3>2. ResOK(parsed, "enrich", Selected(parsed, res, Found(answer)))
      BY <3>1, RelevantStep
    <3>3. ResOK(parsed, step', res')
      BY <2>1, <2>3, <3>2
    <3> QED
      BY <1>3, <2>1, <3>3, ResolutionFrame
  <2> QED
    BY <2>1, <2>2, <2>3
<1>4. ASSUME AuthoringInv, EnrichRelevantFields PROVE AuthoringInv'
  <2> DEFINE Kept_(answer) == At(answer, {i \in DOMAIN answer : Fits(res.relevant, answer[i])})
  <2>1. /\ step = "enrich" /\ step' = "chain" /\ UNCHANGED <<book, pickVars, draft>>
        /\ \/ Degrade \/ UNCHANGED res
           \/ \E answer \in FieldAnswers : res' = [res EXCEPT !.enriched = Kept_(answer)]
    BY <1>4 DEF EnrichRelevantFields
  <2>2. CASE Degrade \/ UNCHANGED res
    BY <1>4, <2>1, <2>2, DegradeStep
  <2>3. ASSUME NEW answer \in FieldAnswers, res' = [res EXCEPT !.enriched = Kept_(answer)]
        PROVE  AuthoringInv'
    <3>1. ResOK(parsed, "enrich", res)
      BY <1>0, <1>4, <2>1
    <3>2. ResOK(parsed, step', res')
      BY <2>1, <2>3, <3>1, FieldsStep
    <3> QED
      BY <1>4, <2>1, <3>2, ResolutionFrame
  <2> QED
    BY <2>1, <2>2, <2>3
<1>5. ASSUME AuthoringInv, BuildTransformationChain PROVE AuthoringInv'
  <2>1. /\ step = "chain" /\ step' = "compile" /\ UNCHANGED <<book, pickVars, draft>>
        /\ \/ Degrade \/ UNCHANGED res
           \/ \E answer \in ChainAnswers : res' = [res EXCEPT !.chain = ChainOf(res.enriched, answer)]
    BY <1>5 DEF BuildTransformationChain
  <2>2. CASE Degrade \/ UNCHANGED res
    BY <1>5, <2>1, <2>2, DegradeStep
  <2>3. ASSUME NEW answer \in ChainAnswers, res' = [res EXCEPT !.chain = ChainOf(res.enriched, answer)]
        PROVE  AuthoringInv'
    <3>1. ResOK(parsed, "chain", res)
      BY <1>0, <1>5, <2>1
    <3>2. ResOK(parsed, step', res')
      BY <2>1, <2>3, <3>1, ChainStep
    <3> QED
      BY <1>5, <2>1, <3>2, ResolutionFrame
  <2> QED
    BY <2>1, <2>2, <2>3
<1>6. ASSUME AuthoringInv, CompileOperations PROVE AuthoringInv'
  <2> DEFINE pairing == Crosswalks(res.chain, res.enriched)
             Ops(answer) == Usable(Bond(Named(answer.operations)))
             New(answer) == Proposals(answer.proposed, res.headers)
  <2>1. /\ step = "compile" /\ step' = "resolved" /\ UNCHANGED <<book, pickVars, draft>>
        /\ \/ res' = [res EXCEPT !.pairing = pairing]
           \/ res' = [res EXCEPT !.pairing = pairing, !.degraded = TRUE]
           \/ \E answer \in OperationAnswers :
                res' = [res EXCEPT !.pairing = pairing, !.operations = Ops(answer),
                                   !.proposed = New(answer)]
    BY <1>6 DEF CompileOperations
  <2>2. ResOK(parsed, "compile", res) /\ DOMAIN res = ResFields /\ res.operations = <<>>
    BY <1>0, <1>6, <2>1 DEF ResOK, Unfilled
  <2>3. ASSUME NEW answer \in OperationAnswers PROVE Bonded(Ops(answer))
    <3>1. IsList(answer.operations) /\ \A i \in DOMAIN answer.operations : IsCall(answer.operations[i])
      <4> DEFINE D == [op : STRING, field : STRING, by : SUBSET STRING,
                       measures : SUBSET STRING, sound : BOOLEAN]
      <4>1. answer.operations \in Seq(D)
        BY AnswersAssumption
      <4>2. \A o \in D : IsCall(o)
        BY DEF IsCall
      <4> HIDE DEF D
      <4> QED
        BY <4>1, <4>2, MembersAre
    <3> QED
      BY <3>1, NamedAre, BondedAre
  <2>4. Bonded(<<>>)
    BY EmptyList DEF Bonded
  <2> HIDE DEF pairing, Ops, New
  <2>5. /\ DOMAIN res' = ResFields /\ res'.headers = res.headers /\ res'.relevant = res.relevant
        /\ res'.rows = res.rows /\ res'.enriched = res.enriched /\ res'.chain = res.chain
        /\ res'.pairing = pairing
        /\ \/ res'.operations = <<>>
           \/ \E answer \in OperationAnswers : res'.operations = Ops(answer)
    BY <2>1, <2>2 DEF ResFields
  <2>6. Bonded(res'.operations)
    BY <2>3, <2>4, <2>5
  <2>7. ResOK(parsed, "resolved", res')
    BY <2>2, <2>5, <2>6, OperationsStep DEF pairing
  <2>8. ResOK(parsed, step', res')
    BY <2>1, <2>7
  <2> QED
    BY <1>6, <2>1, <2>8, ResolutionFrame
<1> QED
  BY <1>1, <1>2, <1>3, <1>4, <1>5, <1>6

\* A draft, of a model or of the offline compiler.
LEMMA DraftStep == AuthoringInv /\ CompileDraft => AuthoringInv'
<1> SUFFICES ASSUME AuthoringInv, CompileDraft PROVE AuthoringInv'
  OBVIOUS
<1>1. /\ step = "picking" /\ step' \in {"drafted", "refused"}
      /\ UNCHANGED pickVars /\ book' = book /\ parsed' = parsed /\ res' = res
  BY DEF CompileDraft, Drafted, pickVars
<1>2. PicksOK'
  BY <1>1 DEF AuthoringInv, PicksOK, PickedIsParsed, pickVars
<1>3. ResOK(parsed, step', res)
  <2>1. ResOK(parsed, step, res) /\ step \in Early /\ Same(res, res)
    BY <1>1 DEF AuthoringInv, Early, Same
  <2> QED
    BY <2>1, GoOn
<1>4. DraftOK(draft')
  <2>1. PICK sheet \in RuleSheets, human \in SUBSET Owned :
          LET rules == [transformation |-> Clean(sheet.transformation), other |-> Clean(sheet.other)] IN
          \/ \E body \in ModelBodies : Drafted(body, human, rules)
          \/ Drafted(StubBody(parsed, rules), human, rules)
          \/ UNCHANGED draft
    BY DEF CompileDraft
  <2> DEFINE rules == [transformation |-> Clean(sheet.transformation), other |-> Clean(sheet.other)]
  <2>2. sheet.transformation \in Seq(Rule) /\ sheet.other \in Seq(Rule)
    BY DraftsAssumption DEF Rule
  <2>3. NothingLost(StubOperations(parsed, rules), StubNotes(parsed, rules), rules)
    BY <2>2, StubKeeps DEF AuthoringInv
  <2> HIDE DEF rules
  <2>4. CASE \E body \in ModelBodies : Drafted(body, human, rules)
    BY <2>4, DraftsAssumption DEF Drafted, DraftOK
  <2>5. CASE Drafted(StubBody(parsed, rules), human, rules)
    BY <2>3, <2>5 DEF Drafted, DraftOK, StubBody
  <2>6. CASE UNCHANGED draft
    BY <2>6 DEF AuthoringInv
  <2> QED
    BY <2>1, <2>4, <2>5, <2>6 DEF rules
<1> QED
  BY <1>1, <1>2, <1>3, <1>4 DEF AuthoringInv

\* No step leaves the invariant.
LEMMA AuthoringInvNext == AuthoringInv /\ [AuthoringNext]_authoringVars => AuthoringInv'
<1> SUFFICES ASSUME AuthoringInv, [AuthoringNext]_authoringVars PROVE AuthoringInv'
  OBVIOUS
<1>1. CASE UNCHANGED authoringVars
  BY <1>1 DEF authoringVars, pickVars, AuthoringInv, PicksOK, PickedIsParsed
<1>2. CASE Done
  BY <1>2 DEF Done, authoringVars, pickVars, AuthoringInv, PicksOK, PickedIsParsed
<1>3. CASE Pick \/ Revisit \/ Parse \/ CompileDraft
  BY <1>3, PickStep, RevisitStep, ParseStep, DraftStep
<1>4. CASE \/ StartResolution \/ ExtractHeaderFilters \/ SelectRelevantFields
           \/ EnrichRelevantFields \/ BuildTransformationChain \/ CompileOperations
  BY <1>4, ResolutionStep
<1> QED
  BY <1>1, <1>2, <1>3, <1>4 DEF AuthoringNext

\* The inductive invariant of the path from a workbook to a recipe or a draft.
THEOREM AuthoringInvariant == AuthoringSpec => []AuthoringInv
BY AuthoringInvInit, AuthoringInvNext, PTL DEF AuthoringSpec

\* The sheet the wizard holds is of an interface the user picked, in whatever
\* order answers land, and of the last one while nothing failed or was left.
THEOREM PickedInterfaceIsParsed == AuthoringSpec => []PickedIsParsed
<1>1. AuthoringInv => PickedIsParsed
  BY DEF AuthoringInv, PicksOK
<1> QED
  BY <1>1, AuthoringInvariant, PTL

\* Nothing the model answers leaves the sheet, its preamble and the real columns.
THEOREM ResolutionIsGrounded == AuthoringSpec => []AnswersAreGrounded
<1>1. AuthoringInv => AnswersAreGrounded
  BY DEF AuthoringInv, ResOK, RelevantOK, FieldsOK, ChainOK, RowsOfFields, AnswersAreGrounded
<1> QED
  BY <1>1, AuthoringInvariant, PTL

\* Every aggregation groups by every bucketed field.
THEOREM GroupsAreBonded == AuthoringSpec => []BucketedGroupsAreBonded
<1>1. AuthoringInv => BucketedGroupsAreBonded
  BY DEF AuthoringInv, ResOK, Bonded, BucketedGroupsAreBonded
<1> QED
  BY <1>1, AuthoringInvariant, PTL

\* The offline compiler loses no instruction.
THEOREM NoInstructionIsLost == AuthoringSpec => []InstructionsKept
<1>1. AuthoringInv => InstructionsKept
  BY DEF AuthoringInv, DraftOK, NothingLost, InstructionsKept
<1> QED
  BY <1>1, AuthoringInvariant, PTL

------------------------------------------------------------------------------
(* The windows of a plan (BatchPlan, BatchFetch).                          *)

\* Date d is in window w.
In(d, w) == w.start <= d /\ d <= w.end

\* A window keeps both limits, or is one date.
Bounded(w) ==
  /\ w.dates <= MaxDates
  /\ w.records <= Threshold \/ w.start = w.end

\* The windows follow one another and none passes the last date visited.
Ordered ==
  /\ \A i \in DOMAIN windows : windows[i].start <= windows[i].end /\ windows[i].end <= seen
  /\ \A i, j \in DOMAIN windows : i < j => windows[i].end < windows[j].start

\* The open window comes after them and ends at the last date visited.
OpenOK ==
  open # NoWindow =>
    /\ open.records > 0 /\ Bounded(open)
    /\ open.start <= open.end /\ open.end = seen
    /\ \A i \in DOMAIN windows : windows[i].end < open.start

\* Every date visited is in a window.
Covered ==
  \A d \in AllDates :
    d <= seen => \/ \E i \in DOMAIN windows : In(d, windows[i])
                 \/ open # NoWindow /\ In(d, open)

\* A finished plan has no open window and has visited every date.
DoneOK == pc = "done" => open = NoWindow /\ \A d \in AllDates : d <= seen

\* What holds after every turn of the planning loop.
PlanInv == TypeOK /\ WindowsBounded /\ Ordered /\ OpenOK /\ Covered /\ DoneOK

------------------------------------------------------------------------------
\* The start of the empty record is not the start of a window.
LEMMA NoWindowIsNone == NoWindow \notin Window
BY DEF NoWindow, Window, NoDate

\* Dates are numbers, and a date of the union has rows.
LEMMA DateFacts ==
  ASSUME TypeOK
  PROVE  /\ \A d \in AllDates : d \in 1..Days /\ d \in Nat /\ Records(d) \in Nat /\ Records(d) > 0
         /\ \A d \in 1..Days : Records(d) \in Nat
  BY PlanAssumption DEF TypeOK, AllDates, Records, Sides

\* The fields of the windows are numbers.
LEMMA Numbers ==
  ASSUME TypeOK
  PROVE  /\ seen \in Nat /\ DOMAIN windows \subseteq Nat
         /\ \A i \in DOMAIN windows : windows[i].start \in Nat /\ windows[i].end \in Nat
         /\ open # NoWindow => /\ open.start \in Nat /\ open.end \in Nat
                               /\ open.dates \in Nat /\ open.records \in Nat
<1>1. seen \in Nat /\ DOMAIN windows = 1..Len(windows) /\ Len(windows) \in Nat
  BY PlanAssumption DEF TypeOK
<1>2. \A i \in DOMAIN windows : windows[i] \in Window
  BY DEF TypeOK
<1>3. \A w \in Window : /\ w.start \in Nat /\ w.end \in Nat
                        /\ w.dates \in Nat /\ w.records \in Nat
  BY PlanAssumption DEF Window
<1>4. open # NoWindow => open \in Window
  BY DEF TypeOK
<1> QED
  BY <1>1, <1>2, <1>3, <1>4

\* Before the loop there is no window.
LEMMA InitPlan == Init => PlanInv
<1> SUFFICES ASSUME Init PROVE PlanInv
  OBVIOUS
<1>1. TypeOK
  BY PlanAssumption DEF Init, TypeOK
<1>2. WindowsBounded /\ Ordered /\ OpenOK
  BY DEF Init, WindowsBounded, Ordered, OpenOK
<1>3. Covered
  BY <1>1, DateFacts, PlanAssumption DEF Init, Covered
<1>4. DoneOK
  BY DEF Init, DoneOK
<1> QED
  BY <1>1, <1>2, <1>3, <1>4 DEF PlanInv

\* The loop opens a window, extends it or cuts it.
LEMMA VisitPlan ==
  ASSUME PlanInv, NEW d \in 1..Days, Visit(d)
  PROVE  PlanInv'
<1> USE PlanAssumption
<1>1. /\ TypeOK /\ d \in AllDates /\ d > seen /\ pc = "plan"
      /\ open' = Fill(d) /\ seen' = d /\ UNCHANGED <<columns, rows, undated, pc>>
      /\ windows' = IF Cut(d) THEN Append(windows, open) ELSE windows
      /\ \A e \in AllDates : e > seen => d <= e
  BY DEF PlanInv, Visit
<1>2. /\ AllDates' = AllDates
      /\ Records(d) \in Nat /\ Records(d) > 0
      /\ d \in Nat /\ seen \in Nat
      /\ \A e \in AllDates : e \in Nat
      /\ DOMAIN windows \subseteq Nat
      /\ \A i \in DOMAIN windows : windows[i].start \in Nat /\ windows[i].end \in Nat
      /\ open # NoWindow => /\ open.start \in Nat /\ open.end \in Nat
                            /\ open.dates \in Nat /\ open.records \in Nat
  BY <1>1, DateFacts, Numbers DEF AllDates, Records, TypeOK
<1>3. windows \in Seq(Window) /\ (open = NoWindow \/ open \in Window)
  BY <1>1 DEF TypeOK
<1>4. NewWindow(d) \in Window /\ NewWindow(d) # NoWindow
  BY <1>2, NoWindowIsNone DEF NewWindow, Window
<1>5. \A i \in DOMAIN windows : windows[i].end < d
  BY <1>1, <1>2 DEF PlanInv, Ordered
<1>6. ASSUME NEW e \in AllDates, e > seen, e <= d PROVE e = d
  <2>1. d <= e
    BY <1>1, <1>6
  <2> QED
    BY <1>2, <1>6, <2>1
<1>7. ASSUME windows' = windows PROVE Ordered'
  BY <1>1, <1>2, <1>5, <1>7 DEF PlanInv, Ordered
<1>8. CASE open = NoWindow
  <2>1. windows' = windows /\ open' = NewWindow(d) /\ open' # NoWindow
    BY <1>1, <1>4, <1>8 DEF Cut, Fill
  <2>2. TypeOK'
    BY <1>1, <1>4, <2>1 DEF TypeOK
  <2>3. WindowsBounded'
    BY <2>1 DEF PlanInv, WindowsBounded
  <2>4. Ordered'
    BY <1>7, <2>1
  <2>5. OpenOK'
    BY <1>1, <1>2, <1>5, <2>1 DEF OpenOK, Bounded, NewWindow
  <2>6. Covered'
    <3> SUFFICES ASSUME NEW e \in AllDates, e <= d, ~ \E i \in DOMAIN windows : In(e, windows[i])
                 PROVE  In(e, NewWindow(d))
      BY <1>1, <1>2, <2>1 DEF Covered
    <3>1. ~ e <= seen
      BY <1>8 DEF PlanInv, Covered
    <3>2. e = d
      BY <1>2, <1>6, <3>1
    <3> QED
      BY <1>2, <3>2 DEF In, NewWindow
  <2>7. DoneOK'
    BY <1>1 DEF DoneOK
  <2> QED
    BY <2>2, <2>3, <2>4, <2>5, <2>6, <2>7 DEF PlanInv
<1>9. CASE open # NoWindow /\ ~ Cut(d)
  <2> DEFINE w == Widened(d)
  <2>1. open \in Window /\ windows' = windows /\ open' = w
    BY <1>1, <1>3, <1>9 DEF Fill
  <2>2. /\ w \in Window /\ w.start = open.start /\ w.end = d
        /\ w.dates = open.dates + 1 /\ w.records = open.records + Records(d)
    BY <1>2, <2>1 DEF Window, Widened
  <2>3. w # NoWindow
    BY <2>2, NoWindowIsNone
  <2> HIDE DEF w
  <2>4. open.dates < MaxDates /\ open.records + Records(d) <= Threshold
    BY <1>2, <1>9, <2>1 DEF Cut, WouldExceedRecords, WouldExceedDates, Window, PlanInv, OpenOK
  <2>5. TypeOK'
    BY <1>1, <2>1, <2>2 DEF TypeOK
  <2>6. WindowsBounded'
    BY <2>1 DEF PlanInv, WindowsBounded
  <2>7. Ordered'
    BY <1>7, <2>1
  <2>8. OpenOK'
    <3>1. Bounded(w) /\ w.records > 0
      BY <1>2, <2>1, <2>2, <2>4 DEF Bounded, Window
    <3>2. w.start <= w.end /\ w.end = seen'
      BY <1>1, <1>2, <1>9, <2>1, <2>2 DEF PlanInv, OpenOK, Window
    <3>3. \A i \in DOMAIN windows' : windows'[i].end < w.start
      BY <1>9, <2>1, <2>2 DEF PlanInv, OpenOK
    <3> QED
      BY <2>1, <3>1, <3>2, <3>3 DEF OpenOK, Bounded
  <2>9. Covered'
    <3> SUFFICES ASSUME NEW e \in AllDates, e <= d, ~ \E i \in DOMAIN windows : In(e, windows[i])
                 PROVE  In(e, w)
      BY <1>1, <1>2, <2>1, <2>3 DEF Covered
    <3>1. CASE e <= seen
      BY <1>1, <1>2, <1>9, <2>1, <2>2, <3>1 DEF PlanInv, Covered, OpenOK, In, Window
    <3>2. CASE e > seen
      <4>1. e = d
        BY <1>6, <3>2
      <4>2. open.start <= seen /\ open.start \in Nat
        BY <1>2, <1>9 DEF PlanInv, OpenOK
      <4> QED
        BY <1>1, <1>2, <2>2, <4>1, <4>2 DEF In
    <3> QED
      BY <1>2, <3>1, <3>2
  <2>10. DoneOK'
    BY <1>1 DEF DoneOK
  <2> QED
    BY <2>5, <2>6, <2>7, <2>8, <2>9, <2>10 DEF PlanInv
<1>10. CASE open # NoWindow /\ Cut(d)
  <2>1. open \in Window /\ windows' = Append(windows, open) /\ open' = NewWindow(d)
    BY <1>1, <1>3, <1>10 DEF Fill
  <2>2. /\ windows' \in Seq(Window) /\ Len(windows') = Len(windows) + 1
        /\ DOMAIN windows' = 1..Len(windows) + 1 /\ DOMAIN windows = 1..Len(windows)
        /\ Len(windows) \in Nat
        /\ \A i \in DOMAIN windows : windows'[i] = windows[i] /\ windows[i] \in Window
        /\ windows'[Len(windows) + 1] = open
    BY <1>3, <2>1
  <2>3. open.start <= open.end /\ open.end = seen /\ open.start \in Nat /\ Bounded(open)
        /\ \A i \in DOMAIN windows : windows[i].end < open.start
    BY <1>10, <2>1 DEF PlanInv, OpenOK, Window
  <2>4. TypeOK'
    BY <1>1, <1>4, <2>1, <2>2 DEF TypeOK
  <2>5. WindowsBounded'
    BY <2>2, <2>3 DEF PlanInv, WindowsBounded, Bounded
  <2>6. Ordered'
    <3>1. \A i \in DOMAIN windows' : windows'[i].start <= windows'[i].end /\ windows'[i].end <= seen'
      <4>1. \A i \in DOMAIN windows : windows[i].start <= windows[i].end /\ windows[i].end <= d
        BY <1>2, <1>5 DEF PlanInv, Ordered
      <4> QED
        BY <1>1, <1>2, <2>2, <2>3, <4>1
    <3>2. \A i, j \in DOMAIN windows' : i < j => windows'[i].end < windows'[j].start
      BY <2>2, <2>3 DEF PlanInv, Ordered
    <3> QED
      BY <3>1, <3>2 DEF Ordered
  <2>7. OpenOK'
    <3>1. \A i \in DOMAIN windows' : windows'[i].end < d
      BY <1>1, <1>2, <1>5, <2>2, <2>3
    <3> QED
      BY <1>1, <1>2, <2>1, <3>1 DEF OpenOK, Bounded, NewWindow
  <2>8. Covered'
    <3> SUFFICES ASSUME NEW e \in AllDates, e <= d, ~ In(e, NewWindow(d))
                 PROVE  \E i \in DOMAIN windows' : In(e, windows'[i])
      BY <1>1, <1>2, <1>4, <2>1 DEF Covered
    <3>1. e <= seen
      <4>1. e # d
        BY <1>2 DEF In, NewWindow
      <4>2. e \in Nat /\ seen \in Nat
        BY <1>2
      <4> QED
        BY <1>6, <4>1, <4>2
    <3>2. (\E i \in DOMAIN windows : In(e, windows[i])) \/ In(e, open)
      BY <3>1 DEF PlanInv, Covered
    <3> QED
      BY <2>2, <3>2 DEF In
  <2>9. DoneOK'
    BY <1>1 DEF DoneOK
  <2> QED
    BY <2>4, <2>5, <2>6, <2>7, <2>8, <2>9 DEF PlanInv
<1> QED
  BY <1>8, <1>9, <1>10

\* The end of the loop cuts the open window.
LEMMA FinishPlan ==
  ASSUME PlanInv, Finish
  PROVE  PlanInv'
<1> USE PlanAssumption
<1>1. /\ TypeOK /\ open' = NoWindow /\ UNCHANGED <<columns, rows, undated, seen>>
      /\ windows' = IF open = NoWindow THEN windows ELSE Append(windows, open)
      /\ \A d \in AllDates : d <= seen
      /\ pc' = "done" /\ seen \in Nat
  BY DEF PlanInv, Finish, TypeOK
<1>2. AllDates' = AllDates
  BY <1>1 DEF AllDates, Records
<1>3. windows \in Seq(Window) /\ (open = NoWindow \/ open \in Window)
  BY <1>1 DEF TypeOK
<1>4. OpenOK' /\ DoneOK'
  BY <1>1, <1>2 DEF OpenOK, DoneOK
<1>5. CASE open = NoWindow
  <2>1. windows' = windows
    BY <1>1, <1>5
  <2>2. TypeOK'
    BY <1>1, <2>1 DEF TypeOK
  <2>3. WindowsBounded' /\ Ordered' /\ Covered'
    BY <1>1, <1>2, <1>5, <2>1 DEF PlanInv, WindowsBounded, Ordered, Covered
  <2> QED
    BY <1>4, <2>2, <2>3 DEF PlanInv
<1>6. CASE open # NoWindow
  <2>1. open \in Window /\ windows' = Append(windows, open)
    BY <1>1, <1>3, <1>6
  <2>2. /\ windows' \in Seq(Window) /\ Len(windows') = Len(windows) + 1
        /\ DOMAIN windows' = 1..Len(windows) + 1 /\ DOMAIN windows = 1..Len(windows)
        /\ Len(windows) \in Nat
        /\ \A i \in DOMAIN windows : windows'[i] = windows[i] /\ windows[i] \in Window
        /\ windows'[Len(windows) + 1] = open
    BY <1>3, <2>1
  <2>3. open.start <= open.end /\ open.end = seen /\ open.start \in Nat /\ Bounded(open)
        /\ \A i \in DOMAIN windows : windows[i].end < open.start
    BY <1>6, <2>1 DEF PlanInv, OpenOK, Window
  <2>4. TypeOK'
    BY <1>1, <2>1, <2>2 DEF TypeOK
  <2>5. WindowsBounded'
    BY <2>2, <2>3 DEF PlanInv, WindowsBounded, Bounded
  <2>6. Ordered'
    <3>1. \A i \in DOMAIN windows' : windows'[i].start <= windows'[i].end /\ windows'[i].end <= seen'
      BY <1>1, <2>2, <2>3 DEF PlanInv, Ordered, Window
    <3>2. \A i, j \in DOMAIN windows' : i < j => windows'[i].end < windows'[j].start
      BY <2>2, <2>3 DEF PlanInv, Ordered
    <3> QED
      BY <3>1, <3>2 DEF Ordered
  <2>7. Covered'
    <3> SUFFICES ASSUME NEW e \in AllDates, e <= seen
                 PROVE  \E i \in DOMAIN windows' : In(e, windows'[i])
      BY <1>1, <1>2 DEF Covered
    <3>1. (\E i \in DOMAIN windows : In(e, windows[i])) \/ In(e, open)
      BY DEF PlanInv, Covered
    <3> QED
      BY <2>2, <3>1 DEF In
  <2> QED
    BY <1>4, <2>4, <2>5, <2>6, <2>7 DEF PlanInv
<1> QED
  BY <1>5, <1>6

\* No turn of the loop leaves the invariant.
LEMMA NextPlan == PlanInv /\ [Next]_vars => PlanInv'
<1> SUFFICES ASSUME PlanInv, [Next]_vars PROVE PlanInv'
  OBVIOUS
<1>1. CASE Finish
  BY <1>1, FinishPlan
<1>2. CASE \E d \in 1..Days : Visit(d)
  BY <1>2, VisitPlan
<1>3. CASE UNCHANGED vars
  BY <1>3 DEF vars, PlanInv, TypeOK, WindowsBounded, Ordered, OpenOK, Bounded, Covered,
              DoneOK, AllDates, Records, In
<1> QED
  BY <1>1, <1>2, <1>3 DEF Next

\* Windows that follow one another share no date.
LEMMA PlanPartitions == PlanInv => DatesPartitioned
<1> SUFFICES ASSUME PlanInv, pc = "done", NEW d \in AllDates
             PROVE  \E i \in DOMAIN windows :
                      /\ windows[i].start <= d /\ d <= windows[i].end
                      /\ \A j \in DOMAIN windows :
                           windows[j].start <= d /\ d <= windows[j].end => j = i
  BY DEF DatesPartitioned
<1>1. PICK i \in DOMAIN windows : In(d, windows[i])
  BY DEF PlanInv, DoneOK, Covered
<1>2. /\ DOMAIN windows \subseteq Nat /\ d \in Nat
      /\ \A j \in DOMAIN windows : windows[j].start \in Nat /\ windows[j].end \in Nat
  BY DateFacts, Numbers DEF PlanInv
<1>3. ASSUME NEW j \in DOMAIN windows, In(d, windows[j]) PROVE j = i
  BY <1>1, <1>2, <1>3 DEF PlanInv, Ordered, In
<1> QED
  BY <1>1, <1>3 DEF In

------------------------------------------------------------------------------
(* The batches pairing makes of the plan.                                  *)

\* Without windows there is one batch; with windows there is one for each,
\* and one more when a side with a date column has rows without a date.
LEMMA BatchesAre ==
  ASSUME TypeOK
  PROVE  /\ windows = <<>> => DOMAIN Batches = {1} /\ Batches[1] = AllRecords
         /\ windows # <<>> =>
              /\ \A i \in DOMAIN windows :
                   i \in DOMAIN Batches /\ Batches[i] = Dated(windows[i])
              /\ \A i \in DOMAIN Batches \ DOMAIN windows :
                   i = Len(windows) + 1 /\ Batches[i] = Undated
              /\ undated \intersect columns # {} => Len(windows) + 1 \in DOMAIN Batches
<1>1. windows = <<>> => Batches = <<AllRecords>>
  BY DEF Batches
<1>2. ASSUME windows # <<>>
      PROVE  /\ \A i \in DOMAIN windows :
                   i \in DOMAIN Batches /\ Batches[i] = Dated(windows[i])
             /\ \A i \in DOMAIN Batches \ DOMAIN windows :
                   i = Len(windows) + 1 /\ Batches[i] = Undated
             /\ undated \intersect columns # {} => Len(windows) + 1 \in DOMAIN Batches
  <2> DEFINE S == {Dated(windows[i]) : i \in DOMAIN windows} \union {Undated}
             D == [i \in DOMAIN windows |-> Dated(windows[i])]
             U == IF undated \intersect columns # {} THEN <<Undated>> ELSE <<>>
  <2>1. DOMAIN windows = 1..Len(windows) /\ Len(windows) \in Nat
    BY DEF TypeOK
  <2>2. Undated \in S /\ \A i \in DOMAIN windows : Dated(windows[i]) \in S
    OBVIOUS
  <2> HIDE DEF S
  <2>3. /\ D \in Seq(S) /\ Len(D) = Len(windows)
        /\ \A i \in DOMAIN windows : D[i] = Dated(windows[i])
    BY <2>1, <2>2, IsASeq
  <2>4. Batches = D \o U
    BY <1>2 DEF Batches
  <2> HIDE DEF D
  <2>5. CASE undated \intersect columns # {}
    <3>1. U \in Seq(S) /\ Len(U) = 1 /\ U[1] = Undated
      BY <2>2, <2>5
    <3> HIDE DEF U
    <3>2. /\ Len(Batches) = Len(windows) + 1
          /\ \A i \in 1..Len(windows) + 1 :
               Batches[i] = IF i <= Len(windows) THEN D[i] ELSE U[i - Len(windows)]
          /\ DOMAIN Batches = 1..Len(windows) + 1
      <4>1. /\ D \o U \in Seq(S) /\ Len(D \o U) = Len(D) + Len(U)
            /\ \A i \in 1..Len(D) + Len(U) :
                 (D \o U)[i] = IF i <= Len(D) THEN D[i] ELSE U[i - Len(D)]
        BY <2>3, <3>1, ConcatProperties
      <4>2. DOMAIN (D \o U) = 1..Len(D \o U)
        BY <4>1
      <4> QED
        BY <2>3, <2>4, <3>1, <4>1, <4>2
    <3> QED
      BY <2>1, <2>3, <3>1, <3>2
  <2>6. CASE undated \intersect columns = {}
    <3>1. Batches = D
      BY <2>3, <2>4, <2>6, ConcatEmptySeq
    <3> QED
      BY <2>1, <2>3, <2>6, <3>1
  <2> QED
    BY <2>5, <2>6
<1> QED
  BY <1>1, <1>2

\* The mask of a window's batch.
LEMMA InItsWindow ==
  ASSUME NEW w, NEW s, NEW d
  PROVE  InBatch(Dated(w), s, d) <=> d # NoDate /\ In(d, w)
<1>1. Dated(w).kind = "window" /\ Dated(w).start = w.start /\ Dated(w).end = w.end
  BY DEF Dated
<1> HIDE DEF Dated
<1> QED
  BY <1>1 DEF InBatch, In

\* A date is in the batch of its window and in no other; a row without a date
\* is in the last one.
LEMMA RowHasOneBatch ==
  ASSUME PlanInv, pc = "done", NEW s \in columns, NEW d \in DatesOf(s)
  PROVE  \E i \in DOMAIN Batches :
           \A j \in DOMAIN Batches : InBatch(Batches[j], s, d) <=> j = i
<1>1. TypeOK
  BY DEF PlanInv
<1>2. CASE windows = <<>>
  BY <1>1, <1>2, BatchesAre DEF InBatch, AllRecords
<1>3. CASE windows # <<>> /\ d = NoDate
  <2>1. undated \intersect columns # {}
    BY <1>1, <1>3 DEF DatesOf, NoDate, TypeOK
  <2>2. \A i \in DOMAIN windows : ~ InBatch(Batches[i], s, d)
    BY <1>1, <1>3, BatchesAre, InItsWindow
  <2>3. Len(windows) + 1 \in DOMAIN Batches \ DOMAIN windows
    BY <1>1, <1>3, <2>1, BatchesAre DEF TypeOK
  <2>4. InBatch(Undated, s, d)
    BY <1>3 DEF InBatch, Undated
  <2> QED
    BY <1>1, <1>3, <2>2, <2>3, <2>4, BatchesAre
<1>4. CASE windows # <<>> /\ d # NoDate
  <2>1. d \in AllDates
    <3>1. d \in 1..Days /\ rows[s][d] > 0 /\ s \in Sides
      BY <1>1, <1>4 DEF DatesOf, TypeOK
    <3>2. rows["source"][d] \in Nat /\ rows["target"][d] \in Nat
      BY <1>1, <3>1, PlanAssumption DEF TypeOK, Sides
    <3> QED
      BY <3>1, <3>2 DEF AllDates, Records, Sides
  <2>2. PICK i \in DOMAIN windows :
          /\ In(d, windows[i])
          /\ \A j \in DOMAIN windows : In(d, windows[j]) => j = i
    BY <2>1, PlanPartitions DEF DatesPartitioned, In
  <2>3. \A j \in DOMAIN windows : InBatch(Batches[j], s, d) <=> In(d, windows[j])
    BY <1>1, <1>4, BatchesAre, InItsWindow
  <2>4. \A j \in DOMAIN Batches \ DOMAIN windows : ~ InBatch(Batches[j], s, d)
    BY <1>1, <1>4, BatchesAre DEF InBatch, Undated
  <2> QED
    BY <1>1, <1>4, <2>2, <2>3, <2>4, BatchesAre
<1> QED
  BY <1>2, <1>3, <1>4

\* Each row is in one batch of a finished plan.
LEMMA BatchesPartition == PlanInv => RowsInOneBatch
<1> SUFFICES ASSUME PlanInv, pc = "done", NEW s \in columns, NEW d \in DatesOf(s)
             PROVE  Cardinality({i \in DOMAIN Batches : InBatch(Batches[i], s, d)}) = 1
  BY DEF RowsInOneBatch
<1>1. PICK i \in DOMAIN Batches :
        \A j \in DOMAIN Batches : InBatch(Batches[j], s, d) <=> j = i
  BY RowHasOneBatch
<1>2. {j \in DOMAIN Batches : InBatch(Batches[j], s, d)} = {i}
  BY <1>1
<1> QED
  BY <1>2, FS_Singleton

------------------------------------------------------------------------------
\* The loop invariant.
THEOREM PlanInvHolds == Spec => []PlanInv
  BY InitPlan, NextPlan, PTL DEF Spec

\* Every date is in exactly one window of the finished plan.
THEOREM PlanIsPartition == Spec => []DatesPartitioned
  BY PlanInvHolds, PlanPartitions, PTL

\* No window passes a limit, except one date that is too large by itself.
THEOREM PlanIsBounded == Spec => []WindowsBounded
<1>1. PlanInv => WindowsBounded
  BY DEF PlanInv
<1> QED
  BY <1>1, PlanInvHolds, PTL

\* Pairing visits each row of a side with a date column in exactly one batch.
THEOREM BatchesArePartition == Spec => []RowsInOneBatch
  BY PlanInvHolds, BatchesPartition, PTL

------------------------------------------------------------------------------
(* The pages of a request.                                                 *)

\* A page has $top rows, or what is left.
LEMMA PageIs ==
  ASSUME NEW n \in Nat, NEW skip \in Nat
  PROVE  PageRows(n, skip) = IF skip >= n THEN 0
                             ELSE IF n - skip < PageSize THEN n - skip ELSE PageSize
<1> DEFINE m == IF n - skip < PageSize THEN n - skip ELSE PageSize
<1>1. /\ m \in Int /\ m \in {PageSize, ServerCap, n - skip}
      /\ m <= PageSize /\ m <= ServerCap /\ m <= n - skip
      /\ PageSize \in Nat \ {0} /\ ServerCap \in Nat /\ n - skip \in Int
  BY FetchAssumption
<1> HIDE DEF m
<1>2. Min({PageSize, ServerCap, n - skip}) = m
  BY <1>1 DEF Min
<1>3. Max({0, m}) = IF m > 0 THEN m ELSE 0
  BY <1>1 DEF Max
<1> QED
  BY <1>1, <1>2, <1>3 DEF PageRows, m

\* The loop over the pages ends behind the last row: a short page is the last,
\* a full one is not.
LEMMA AllRowsRead == ASSUME NEW n \in Nat PROVE RowsRead(n) = n
<1> DEFINE ReadFrom(f, skip) ==
             IF PageRows(n, skip) = 0 THEN skip
             ELSE IF LastPage(PageRows(n, skip)) THEN skip + PageRows(n, skip)
             ELSE f[skip + PageSize]
           Step(f) == [skip \in 0..(n + PageSize) |-> ReadFrom(f, skip)]
           g == [skip \in 0..(n + PageSize) |-> IF skip >= n THEN skip ELSE n]
           read == CHOOSE f : f = Step(f)
<1>1. PageSize \in Nat \ {0} /\ 0 \in 0..(n + PageSize)
  BY FetchAssumption
<1> HIDE DEF ReadFrom, g
<1>2. ASSUME NEW f, NEW skip \in 0..(n + PageSize)
      PROVE  ReadFrom(f, skip) = IF skip >= n THEN skip
                             ELSE IF n - skip < PageSize THEN n
                             ELSE f[skip + PageSize]
  <2>1. skip \in Nat
    BY <1>1
  <2> QED
    BY <1>1, <2>1, PageIs DEF ReadFrom, LastPage
<1>3. g = Step(g)
  <2>1. ASSUME NEW skip \in 0..(n + PageSize) PROVE g[skip] = ReadFrom(g, skip)
    <3>1. CASE skip >= n
      BY <1>2, <3>1 DEF g
    <3>2. CASE skip < n /\ n - skip < PageSize
      BY <1>1, <1>2, <3>2 DEF g
    <3>3. CASE skip < n /\ n - skip >= PageSize
      <4>1. skip + PageSize \in 0..(n + PageSize) /\ skip + PageSize <= n
        BY <1>1, <3>3
      <4>2. g[skip + PageSize] = n
        BY <1>1, <4>1 DEF g
      <4> QED
        BY <1>1, <1>2, <3>3, <4>2 DEF g
    <3> QED
      BY <1>1, <3>1, <3>2, <3>3
  <2> QED
    BY <2>1 DEF g
<1>4. read = Step(read)
  BY <1>3
<1> HIDE DEF read
<1>5. \A skip \in 0..(n + PageSize) : read[skip] = ReadFrom(read, skip)
  BY <1>4
<1>6. ASSUME NEW k \in Nat, k <= n, read[n - k] # n PROVE FALSE
  <2> DEFINE W == {j \in Nat : j <= n /\ read[n - j] # n}
  <2>1. PICK j \in W : \A i \in W : j <= i
    BY <1>6, Smallest
  <2>2. j \in Nat /\ j <= n /\ read[n - j] # n /\ n - j \in 0..(n + PageSize)
    BY <1>1
  <2>3. CASE j = 0
    BY <1>1, <1>2, <1>5, <2>2, <2>3
  <2>4. CASE j < PageSize /\ j # 0
    BY <1>1, <1>2, <1>5, <2>2, <2>4
  <2>5. CASE j >= PageSize
    <3>1. j - PageSize \in Nat /\ j - PageSize < j /\ (n - j) + PageSize = n - (j - PageSize)
      BY <1>1, <2>2, <2>5
    <3>2. read[n - (j - PageSize)] = n
      BY <2>1, <2>2, <3>1
    <3>3. read[n - j] = ReadFrom(read, n - j)
      BY <1>5, <2>2
    <3>4. ReadFrom(read, n - j) = read[(n - j) + PageSize]
      BY <1>1, <1>2, <2>2, <2>5
    <3> QED
      BY <2>2, <3>1, <3>2, <3>3, <3>4
  <2> QED
    BY <1>1, <2>2, <2>3, <2>4, <2>5
<1>7. read[0] = n
  BY <1>1, <1>6
<1>8. RowsRead(n) = read[0]
  BY DEF RowsRead, read, ReadFrom
<1> QED
  BY <1>7, <1>8

\* A request returns every row of the table, and nothing else.
LEMMA AllPaged == ASSUME NEW S, IsFiniteSet(S) PROVE Paged(S) = S
<1> DEFINE n == Cardinality(S)
           s == SetToSeq(S)
<1>1. n \in Nat /\ ExistsBijection(1..n, S)
  BY FS_CardinalityType
<1>2. PICK f \in [1..n -> S] : IsInjective(f)
  BY <1>1 DEF ExistsBijection, Bijection, Injection, IsInjective
<1>3. s \in [1..n -> S] /\ IsInjective(s)
  BY <1>2 DEF SetToSeq
<1> HIDE DEF s, n
<1>4. s \in Injection(1..n, S)
  BY <1>3 DEF Injection, IsInjective
<1>5. s \in Surjection(1..n, S)
  <2>1. Cardinality(1..n) = n
    BY <1>1, FS_Interval
  <2> QED
    BY <1>4, <2>1, FS_Injection DEF n
<1>6. SubSeq(s, 1, n) = s
  <2>1. s \in Seq(S) /\ Len(s) = n
    BY <1>1, <1>3
  <2> QED
    BY <1>1, <2>1
<1>7. Range(s) = S
  BY <1>3, <1>5 DEF Range, Surjection
<1> QED
  BY <1>1, <1>6, <1>7, AllRowsRead DEF Paged, s, n

------------------------------------------------------------------------------
(* What the windows fetch.                                                 *)

\* The tables do not change while a plan is made and run, and the plan is made
\* of a date column of one of them.
DataOK ==
  datedOn # {} =>
    /\ IsFiniteSet(DOMAIN items) /\ \A k \in DOMAIN items : items[k] \in 0..Days
    /\ IsFiniteSet(lines) /\ lines \subseteq Line
    /\ \A d \in 1..Days : rows["source"][d] = ColumnRows(d)

\* What holds while a plan over tables is made and run.
FetchInv == PlanInv /\ DataOK

\* The tables of a side have finitely many rows.
LEMMA TablesAreFinite ==
  ASSUME items \in Tables, lines \in Lines
  PROVE  /\ IsFiniteSet(DOMAIN items) /\ \A k \in DOMAIN items : items[k] \in 0..Days
         /\ IsFiniteSet(lines) /\ lines \subseteq Line
         /\ \A d : ColumnRows(d) \in Nat
<1>1. IsFiniteSet(Keys) /\ IsFiniteSet(0..Days)
  BY FetchAssumption, PlanAssumption, FS_Interval
<1>2. PICK K \in SUBSET Keys : items \in [K -> 0..Days]
  BY DEF Tables
<1>3. IsFiniteSet(DOMAIN items)
  BY <1>1, <1>2, FS_Subset
<1>4. IsFiniteSet(Line)
  BY <1>1, FS_Product DEF Line
<1>5. lines \subseteq Line
  BY DEF Lines, kSubset
<1>6. IsFiniteSet(lines)
  BY <1>4, <1>5, FS_Subset
<1>7. ASSUME NEW d PROVE ColumnRows(d) \in Nat
  <2>1. {k \in DOMAIN items : items[k] = d} \subseteq DOMAIN items
        /\ {l \in lines : l[2] = d} \subseteq lines
    OBVIOUS
  <2>2. Cardinality({k \in DOMAIN items : items[k] = d}) \in Nat
        /\ Cardinality({l \in lines : l[2] = d}) \in Nat
    BY <1>3, <1>6, <2>1, FS_Subset, FS_CardinalityType
  <2> QED
    BY <2>2 DEF ColumnRows
<1> QED
  BY <1>2, <1>3, <1>5, <1>6, <1>7

\* Before the plan nothing is fetched.
LEMMA InitFetch == FetchInit => FetchInv
<1>1. SingleInit => FetchInv
  BY InitPlan DEF SingleInit, FetchInv, DataOK
<1>2. ASSUME JoinInit PROVE FetchInv
  <2>1. /\ IsFiniteSet(DOMAIN items) /\ \A k \in DOMAIN items : items[k] \in 0..Days
        /\ IsFiniteSet(lines) /\ lines \subseteq Line
        /\ \A d : ColumnRows(d) \in Nat
    BY <1>2, TablesAreFinite DEF JoinInit
  <2>2. PICK n \in 0..1 : rows = [source |-> [d \in 1..Days |-> ColumnRows(d)],
                                  target |-> [d \in 1..Days |-> n]]
    BY <1>2 DEF JoinInit
  <2>3. rows \in [Sides -> [1..Days -> Nat]] /\ \A d \in 1..Days : rows["source"][d] = ColumnRows(d)
    <3> DEFINE A == [d \in 1..Days |-> ColumnRows(d)]
               B == [d \in 1..Days |-> n]
    <3>1. A \in [1..Days -> Nat] /\ B \in [1..Days -> Nat] /\ \A d \in 1..Days : A[d] = ColumnRows(d)
      BY <2>1
    <3>2. rows = [source |-> A, target |-> B]
      BY <2>2
    <3> HIDE DEF A, B
    <3>3. rows["source"] = A /\ rows["target"] = B
      BY <3>2
    <3>4. rows \in [{"source", "target"} -> [1..Days -> Nat]]
      BY <3>1, <3>2
    <3> QED
      BY <3>1, <3>3, <3>4 DEF Sides
  <2>4. /\ columns \subseteq Sides /\ undated \subseteq Sides
        /\ seen = 0 /\ windows = <<>> /\ open = NoWindow /\ pc = "plan"
    BY <1>2 DEF JoinInit, Sides
  <2>5. TypeOK
    BY <2>3, <2>4, PlanAssumption DEF TypeOK
  <2>6. WindowsBounded /\ Ordered /\ OpenOK /\ DoneOK
    BY <2>4 DEF WindowsBounded, Ordered, OpenOK, DoneOK
  <2>7. Covered
    BY <2>4, <2>5, DateFacts DEF Covered
  <2> QED
    BY <2>1, <2>3, <2>5, <2>6, <2>7 DEF FetchInv, PlanInv, DataOK
<1> QED
  BY <1>1, <1>2 DEF FetchInit

\* No turn of the loop changes a table.
LEMMA NextFetch == FetchInv /\ [FetchNext]_<<vars, data>> => FetchInv'
<1> SUFFICES ASSUME FetchInv, [FetchNext]_<<vars, data>> PROVE FetchInv'
  OBVIOUS
<1>1. [Next]_vars /\ UNCHANGED data
  BY DEF FetchNext
<1>2. PlanInv'
  BY <1>1, NextPlan DEF FetchInv
<1>3. UNCHANGED rows
  BY <1>1 DEF Next, Finish, Visit, vars
<1>4. DataOK'
  BY <1>1, <1>3 DEF FetchInv, DataOK, data, ColumnRows
<1> QED
  BY <1>2, <1>4 DEF FetchInv

\* A batch holds the rows of the join whose date is in its window, when the
\* entity that has the date is the primary one, or joined by an inner join.
LEMMA FetchedAre ==
  ASSUME DataOK, datedOn = {"primary"} \/ (datedOn = {"joined"} /\ join = "inner"), NEW w
  PROVE  Fetched(w) = {row \in Merge(DOMAIN items, lines) : InWindow(w, DateOf(row))}
<1>1. IsFiniteSet(DOMAIN items) /\ IsFiniteSet(lines) /\ lines \subseteq Line
  BY DEF DataOK
<1> DEFINE K == {k \in DOMAIN items : Passes("primary", w, items[k])}
           L == {l \in lines : Passes("joined", w, l[2])}
<1>2. K \subseteq DOMAIN items /\ L \subseteq lines
  OBVIOUS
<1>3. Paged(K) = K /\ Paged(L) = L
  BY <1>1, <1>2, FS_Subset, AllPaged
<1>4. Fetched(w) = Merge(K, L)
  BY <1>3 DEF Fetched
<1>5. CASE datedOn = {"primary"}
  <2>1. K = {k \in DOMAIN items : InWindow(w, items[k])} /\ L = lines
    BY <1>5 DEF Passes
  <2>2. \A row : DateOf(row) = items[row[1]]
    BY <1>5 DEF DateOf
  <2> HIDE DEF K, L
  <2>3. \A row : row \in Merge(K, L) <=> row \in Merge(DOMAIN items, lines) /\ InWindow(w, items[row[1]])
    BY <2>1 DEF Merge
  <2>4. Merge(K, L) = {row \in Merge(DOMAIN items, lines) : InWindow(w, items[row[1]])}
    BY <2>3
  <2> QED
    BY <1>4, <2>2, <2>4
<1>6. CASE datedOn = {"joined"} /\ join = "inner"
  <2>1. K = DOMAIN items /\ L = {l \in lines : InWindow(w, l[2])}
    BY <1>6 DEF Passes
  <2>2. \A l \in lines : l # NoLine
    BY <1>1 DEF Line, NoLine
  <2>3. \A row \in Merge(DOMAIN items, lines) : DateOf(row) = row[2][2]
    BY <1>6, <2>2 DEF DateOf, Merge
  <2> HIDE DEF K, L
  <2>4. \A row : row \in Merge(K, L) <=> row \in Merge(DOMAIN items, lines) /\ InWindow(w, row[2][2])
    BY <1>6, <2>1 DEF Merge
  <2>5. Merge(K, L) = {row \in Merge(DOMAIN items, lines) : InWindow(w, row[2][2])}
    BY <2>4
  <2> QED
    BY <1>4, <2>3, <2>5
<1> QED
  BY <1>5, <1>6

\* The date of a row of the join is one of the plan's.
LEMMA DatesArePlanned ==
  ASSUME FetchInv, datedOn = {"primary"} \/ (datedOn = {"joined"} /\ join = "inner"),
         NEW row \in Merge(DOMAIN items, lines), DateOf(row) # NoDate
  PROVE  DateOf(row) \in AllDates
<1> DEFINE d == DateOf(row)
<1>1. /\ IsFiniteSet(DOMAIN items) /\ \A k \in DOMAIN items : items[k] \in 0..Days
      /\ IsFiniteSet(lines) /\ lines \subseteq Line
      /\ \A e \in 1..Days : rows["source"][e] = ColumnRows(e)
  BY DEF FetchInv, DataOK
<1>2. row[1] \in DOMAIN items
  BY DEF Merge
<1>3. ASSUME NEW S, IsFiniteSet(S), NEW x \in S PROVE Cardinality(S) \in Nat /\ Cardinality(S) > 0
  <2>1. Cardinality(S) \in Nat /\ (Cardinality(S) = 0 <=> S = {})
    BY <1>3, FS_CardinalityType, FS_EmptySet
  <2> QED
    BY <1>3, <2>1
<1>4. d \in 1..Days /\ ColumnRows(d) > 0
  <2>1. CASE datedOn = {"primary"}
    <3> DEFINE S == {k \in DOMAIN items : items[k] = d}
    <3>1. d = items[row[1]]
      BY <2>1 DEF DateOf
    <3>2. IsFiniteSet(S) /\ row[1] \in S
      BY <1>1, <1>2, <3>1, FS_Subset
    <3>3. Cardinality(S) > 0
      BY <1>3, <3>2
    <3>4. ColumnRows(d) = Cardinality(S)
      BY <2>1 DEF ColumnRows
    <3>5. d \in 1..Days
      BY <1>1, <1>2, <3>1, PlanAssumption DEF NoDate
    <3> QED
      BY <3>3, <3>4, <3>5
  <2>2. CASE datedOn = {"joined"} /\ join = "inner"
    <3> DEFINE S == {l \in lines : l[2] = d}
    <3>1. row[2] \in lines /\ d = row[2][2]
      BY <1>1, <2>2 DEF Merge, DateOf, Line, NoLine
    <3>2. IsFiniteSet(S) /\ row[2] \in S
      BY <1>1, <3>1, FS_Subset
    <3>3. Cardinality(S) > 0
      BY <1>3, <3>2
    <3>4. ColumnRows(d) = Cardinality(S)
      BY <2>2 DEF ColumnRows
    <3>5. d \in 0..Days
      BY <1>1, <3>1 DEF Line
    <3>6. d \in 1..Days
      BY <3>5, PlanAssumption DEF NoDate
    <3> QED
      BY <3>3, <3>4, <3>6
  <2> QED
    BY <2>1, <2>2
<1> HIDE DEF d
<1>5. rows["target"][d] \in Nat /\ rows["source"][d] \in Nat
  BY <1>4 DEF FetchInv, PlanInv, TypeOK, Sides
<1>6. d \in AllDates
  BY <1>1, <1>4, <1>5 DEF AllDates, Records
<1> QED
  BY <1>6 DEF d

\* Each dated row of a join is in one window of a finished plan.
LEMMA RowsInOneWindow == FetchInv => RowsFetchedOnce
<1> SUFFICES ASSUME FetchInv, pc = "done",
                    datedOn = {"primary"} \/ (datedOn = {"joined"} /\ join = "inner")
             PROVE  LET dated == {row \in Merge(DOMAIN items, lines) : DateOf(row) # NoDate}
                    IN /\ \A row \in dated :
                            Cardinality({i \in DOMAIN windows : row \in Fetched(windows[i])}) = 1
                       /\ \A i \in DOMAIN windows : Fetched(windows[i]) \subseteq dated
  BY DEF RowsFetchedOnce
<1>1. \A i : Fetched(windows[i]) =
               {row \in Merge(DOMAIN items, lines) : InWindow(windows[i], DateOf(row))}
  BY FetchedAre DEF FetchInv
<1>2. ASSUME NEW row \in Merge(DOMAIN items, lines), DateOf(row) # NoDate
      PROVE  Cardinality({i \in DOMAIN windows : row \in Fetched(windows[i])}) = 1
  <2>1. DateOf(row) \in AllDates
    BY <1>2, DatesArePlanned
  <2>2. PICK i \in DOMAIN windows :
          /\ In(DateOf(row), windows[i])
          /\ \A j \in DOMAIN windows : In(DateOf(row), windows[j]) => j = i
    BY <2>1, PlanPartitions DEF FetchInv, DatesPartitioned, In
  <2>3. \A j \in DOMAIN windows : row \in Fetched(windows[j]) <=> In(DateOf(row), windows[j])
    BY <1>1, <1>2 DEF InWindow, In
  <2>4. {j \in DOMAIN windows : row \in Fetched(windows[j])} = {i}
    BY <2>2, <2>3
  <2> QED
    BY <2>4, FS_Singleton
<1>3. \A i \in DOMAIN windows :
        Fetched(windows[i]) \subseteq {row \in Merge(DOMAIN items, lines) : DateOf(row) # NoDate}
  BY <1>1 DEF InWindow
<1> QED
  BY <1>2, <1>3

------------------------------------------------------------------------------
\* The plan of a join is one like any other.
THEOREM JoinPlanHolds == FetchSpec => [](DatesPartitioned /\ WindowsBounded /\ RowsInOneBatch)
<1>1. FetchInv => DatesPartitioned /\ WindowsBounded /\ RowsInOneBatch
  BY PlanPartitions, BatchesPartition DEF FetchInv, PlanInv
<1> QED
  BY <1>1, InitFetch, NextFetch, PTL DEF FetchSpec

\* Each dated row of a join is fetched with one batch and with no other, for any
\* tables, page size and cap of the service that is not below it.
THEOREM RowsAreFetchedOnce == FetchSpec => []RowsFetchedOnce
  BY InitFetch, NextFetch, RowsInOneWindow, PTL DEF FetchSpec

------------------------------------------------------------------------------
(* The engine: what runs on a contract that was drafted.                   *)

------------------------------------------------------------------------------
(* The join.                                                               *)

\* A frame has finitely many keys.
LEMMA KeysAreFinite ==
  ASSUME NEW table, NEW n \in Nat, DOMAIN table = 1..n, NEW fields
  PROVE  IsFiniteSet(KeysOf(table, fields))
<1> DEFINE f == [i \in 1..n |-> RowKey(table[i], fields)]
           K == KeysOf(table, fields)
<1>1. K = {f[i] : i \in 1..n}
  BY DEF KeysOf
<1>2. f \in Surjection(1..n, K)
  <2>1. f \in [1..n -> K] /\ \A k \in K : \E i \in 1..n : f[i] = k
    <3> HIDE DEF K
    <3>1. f = [i \in 1..n |-> f[i]]
      OBVIOUS
    <3> HIDE DEF f
    <3> QED
      BY <1>1, <3>1
  <2> HIDE DEF f, K
  <2> QED
    BY <2>1 DEF Surjection
<1>3. IsFiniteSet(1..n)
  BY FS_Interval
<1> QED
  BY <1>2, <1>3, FS_Surjection

\* A set written as a sequence: each member once.
LEMMA Listing ==
  ASSUME NEW S, IsFiniteSet(S), NEW s \in SetToSeqs(S)
  PROVE  /\ Cardinality(S) \in Nat
         /\ s \in [1..Cardinality(S) -> S]
         /\ \A x \in S : \E i \in 1..Cardinality(S) : s[i] = x
<1> DEFINE N == Cardinality(S)
<1>1. N \in Nat /\ IsFiniteSet(1..N) /\ Cardinality(1..N) = N
  BY FS_CardinalityType, FS_Interval
<1>2. s \in [1..N -> S] /\ \A i, j \in 1..N : i # j => s[i] # s[j]
  BY DEF SetToSeqs
<1> HIDE DEF N
<1>3. s \in Injection(1..N, S)
  BY <1>2 DEF Injection, IsInjective
<1>4. s \in Surjection(1..N, S)
  <2>1. Cardinality(S) = N
    BY DEF N
  <2> QED
    BY <1>1, <1>3, <2>1, FS_Injection
<1>5. \A x \in S : \E i \in 1..N : s[i] = x
  BY <1>4 DEF Surjection
<1> QED
  BY <1>1, <1>2, <1>5 DEF N

\* The places of three lists, one behind another.
LEMMA ThreeBehind ==
  ASSUME NEW a, IsList(a), NEW b, IsList(b), NEW c, IsList(c)
  PROVE  /\ DOMAIN (a \o b \o c) = 1..(Len(a) + Len(b) + Len(c))
         /\ \A i \in 1..Len(a) : (a \o b \o c)[i] = a[i]
         /\ \A i \in 1..Len(b) : (a \o b \o c)[Len(a) + i] = b[i]
         /\ \A i \in 1..Len(c) : (a \o b \o c)[Len(a) + Len(b) + i] = c[i]
<1> DEFINE e == a \o b
<1>0. Len(a) \in Nat /\ Len(b) \in Nat /\ Len(c) \in Nat
  BY ListsAre
<1>1. /\ IsList(e) /\ Len(e) = Len(a) + Len(b)
      /\ \A i \in 1..Len(a) : e[i] = a[i]
      /\ \A i \in (Len(a) + 1)..(Len(a) + Len(b)) : e[i] = b[i - Len(a)]
  BY JointPlaces
<1> HIDE DEF e
<1> DEFINE d == e \o c
<1>2. /\ IsList(d) /\ Len(d) = Len(e) + Len(c)
      /\ \A i \in 1..Len(e) : d[i] = e[i]
      /\ \A i \in (Len(e) + 1)..(Len(e) + Len(c)) : d[i] = c[i - Len(e)]
  BY <1>1, JointPlaces
<1> HIDE DEF d
<1>3. DOMAIN d = 1..(Len(a) + Len(b) + Len(c))
  BY <1>0, <1>1, <1>2, ListsAre
<1>4. \A i \in 1..Len(a) : d[i] = a[i]
  BY <1>0, <1>1, <1>2
<1>5. ASSUME NEW i \in 1..Len(b) PROVE d[Len(a) + i] = b[i]
  <2>1. Len(a) + i \in 1..Len(e) /\ Len(a) + i \in (Len(a) + 1)..(Len(a) + Len(b))
        /\ Len(a) + i - Len(a) = i
    BY <1>0, <1>1
  <2> QED
    BY <1>1, <1>2, <2>1
<1>6. ASSUME NEW i \in 1..Len(c) PROVE d[Len(a) + Len(b) + i] = c[i]
  <2>1. /\ Len(a) + Len(b) + i \in (Len(e) + 1)..(Len(e) + Len(c))
        /\ Len(a) + Len(b) + i - Len(e) = i
    BY <1>0, <1>1
  <2> QED
    BY <1>2, <2>1
<1> QED
  BY <1>3, <1>4, <1>5, <1>6 DEF d, e

\* The first row of a key stands for it.
LEMMA FirstRow ==
  ASSUME NEW table, NEW n \in Nat, DOMAIN table = 1..n, NEW fields, NEW key \in KeysOf(table, fields)
  PROVE  \E i \in 1..n : /\ FirstWith(table, fields, key, i)
                         /\ RowOf(table, fields, key) = table[i]
                         /\ \A j \in 1..n : FirstWith(table, fields, key, j) => j = i
<1> DEFINE W == {i \in 1..n : RowKey(table[i], fields) = key}
           First(i) == /\ RowKey(table[i], fields) = key
                       /\ \A j \in DOMAIN table : RowKey(table[j], fields) = key => i <= j
<1>1. W # {} /\ W \subseteq Nat
  BY DEF KeysOf
<1>2. PICK i \in W : \A j \in W : i <= j
  <2> HIDE DEF W
  <2> QED
    BY <1>1, Smallest
<1>3. i \in DOMAIN table /\ First(i)
  BY <1>2
<1>4. \A j \in DOMAIN table : First(j) => j = i
  BY <1>2
<1> DEFINE r == CHOOSE j \in DOMAIN table : First(j)
<1>5. r = i
  <2> HIDE DEF First
  <2> QED
    BY <1>3, <1>4
<1>6. RowOf(table, fields, key) = table[r]
  BY DEF RowOf
<1>7. FirstWith(table, fields, key, i)
  BY <1>2 DEF FirstWith
<1>8. ASSUME NEW j \in 1..n, FirstWith(table, fields, key, j) PROVE j = i
  BY <1>2, <1>8 DEF FirstWith
<1> HIDE DEF r
<1> QED
  BY <1>2, <1>5, <1>6, <1>7, <1>8

\* Only a key of a frame has a first row in it.
LEMMA OnlyKeysHaveRows ==
  ASSUME NEW table, NEW n \in Nat, DOMAIN table = 1..n, NEW fields, NEW key, NEW i \in 1..n,
         FirstWith(table, fields, key, i)
  PROVE  key \in KeysOf(table, fields)
BY DEF FirstWith, KeysOf

\* A frame's rows, whatever they consist of.
IsTable(table) == \E n \in Nat : DOMAIN table = 1..n

\* The two first rows of the key agree.
Agree(c, table, tgt, key) ==
  \E i \in DOMAIN table, j \in DOMAIN tgt :
    /\ FirstWith(table, SourceKeys(c), key, i)
    /\ FirstWith(tgt, TargetKeys(c), key, j)
    /\ Differing(c, table[i], tgt[j]) = {}

\* What the join of two sides owes.
Exact(c, table, tgt, d) ==
  LET S == KeysOf(table, SourceKeys(c))
      T == KeysOf(tgt, TargetKeys(c))
  IN  /\ IsList(d) /\ Len(d) = Cardinality(S \union T)
      /\ {d[i].key : i \in DOMAIN d} = S \union T
      /\ \A n \in DOMAIN d :
           d[n].class = "match" <=>
             \E i \in DOMAIN table, j \in DOMAIN tgt :
               /\ FirstWith(table, SourceKeys(c), d[n].key, i)
               /\ FirstWith(tgt, TargetKeys(c), d[n].key, j)
               /\ Differing(c, table[i], tgt[j]) = {}

\* The record of a key of both sides is a match when the first rows agree.
LEMMA BothSidesClass ==
  ASSUME NEW c, NEW table, IsTable(table), NEW tgt, IsTable(tgt),
         NEW key, key \in KeysOf(table, SourceKeys(c)), key \in KeysOf(tgt, TargetKeys(c))
  PROVE  /\ BothSides(c, table, tgt, key).key = key
         /\ BothSides(c, table, tgt, key).class = "match" <=>
               Agree(c, table, tgt, key)
<1>0. PICK l \in Nat, m \in Nat : DOMAIN table = 1..l /\ DOMAIN tgt = 1..m
  BY DEF IsTable
<1>1. PICK i \in 1..l : /\ FirstWith(table, SourceKeys(c), key, i)
                        /\ RowOf(table, SourceKeys(c), key) = table[i]
                        /\ \A h \in 1..l : FirstWith(table, SourceKeys(c), key, h) => h = i
  BY <1>0, FirstRow
<1>2. PICK j \in 1..m : /\ FirstWith(tgt, TargetKeys(c), key, j)
                        /\ RowOf(tgt, TargetKeys(c), key) = tgt[j]
                        /\ \A h \in 1..m : FirstWith(tgt, TargetKeys(c), key, h) => h = j
  BY <1>0, FirstRow
<1>3. /\ BothSides(c, table, tgt, key).key = key
      /\ BothSides(c, table, tgt, key).class =
           IF Differing(c, table[i], tgt[j]) = {} THEN "match" ELSE "mismatch"
  BY <1>1, <1>2 DEF BothSides
<1> QED
  BY <1>0, <1>1, <1>2, <1>3 DEF Agree

\* Every key of either side has one record, of the class of its two first rows.
LEMMA JoinedIsExact ==
  ASSUME NEW c, NEW table, NEW tgt, NEW l \in Nat, NEW m \in Nat, DOMAIN table = 1..l, DOMAIN tgt = 1..m,
         NEW d \in Details(c, table, tgt)
  PROVE  Exact(c, table, tgt, d)
<1> DEFINE S == KeysOf(table, SourceKeys(c))
           T == KeysOf(tgt, TargetKeys(c))
           Matching(key) == \E i \in DOMAIN table, j \in DOMAIN tgt :
                              /\ FirstWith(table, SourceKeys(c), key, i)
                              /\ FirstWith(tgt, TargetKeys(c), key, j)
                              /\ Differing(c, table[i], tgt[j]) = {}
<1>0. Details(c, table, tgt) = {Joined(c, table, tgt, order) :
         order \in [both : SetToSeqs(S \cap T), source : SetToSeqs(S \ T), target : SetToSeqs(T \ S)]}
  BY DEF Details
<1> HIDE DEF S, T, Matching
<1>1. PICK order \in [both : SetToSeqs(S \cap T), source : SetToSeqs(S \ T), target : SetToSeqs(T \ S)] :
        d = Joined(c, table, tgt, order)
  BY <1>0
<1> DEFINE both == order.both
           sourceOnly == order.source
           targetOnly == order.target
<1>21. both \in SetToSeqs(S \cap T) /\ sourceOnly \in SetToSeqs(S \ T) /\ targetOnly \in SetToSeqs(T \ S)
  BY <1>1
<1>2. IsFiniteSet(S) /\ IsFiniteSet(T)
  BY KeysAreFinite DEF S, T
<1>3. \A key : Matching(key) => key \in S \cap T
  BY OnlyKeysHaveRows DEF S, T, Matching
<1>31. IsTable(table) /\ IsTable(tgt)
  BY DEF IsTable
<1>4. \A key \in S \cap T : /\ BothSides(c, table, tgt, key).key = key
                            /\ BothSides(c, table, tgt, key).class = "match" <=> Matching(key)
  <2>1. ASSUME NEW key, key \in S, key \in T
        PROVE  /\ BothSides(c, table, tgt, key).key = key
               /\ BothSides(c, table, tgt, key).class = "match" <=> Matching(key)
    <3>1. key \in KeysOf(table, SourceKeys(c)) /\ key \in KeysOf(tgt, TargetKeys(c))
      BY <2>1 DEF S, T
    <3>2. /\ BothSides(c, table, tgt, key).key = key
          /\ BothSides(c, table, tgt, key).class = "match" <=>
               Agree(c, table, tgt, key)
      BY <1>31, <3>1, BothSidesClass
    <3> QED
      BY <3>2 DEF Matching, Agree
  <2> QED
    BY <2>1
<1>5. \A key, class : OneSide(c, table, key, class).key = key /\ OneSide(c, table, key, class).class = class
  BY DEF OneSide
<1>6. IsFiniteSet(S \cap T) /\ IsFiniteSet(S \ T) /\ IsFiniteSet(T \ S) /\ IsFiniteSet(S \union T)
  <2>1. IsFiniteSet(S \cap T) /\ IsFiniteSet(S \ T) /\ IsFiniteSet(T \ S)
    BY <1>2, FS_Subset
  <2> QED
    BY <1>2, <2>1, FS_Union
<1> DEFINE p == Cardinality(S \cap T)
           q == Cardinality(S \ T)
           r == Cardinality(T \ S)
<1>7. /\ p \in Nat /\ both \in [1..p -> S \cap T] /\ \A x \in S \cap T : \E i \in 1..p : both[i] = x
      /\ q \in Nat /\ sourceOnly \in [1..q -> S \ T] /\ \A x \in S \ T : \E i \in 1..q : sourceOnly[i] = x
      /\ r \in Nat /\ targetOnly \in [1..r -> T \ S] /\ \A x \in T \ S : \E i \in 1..r : targetOnly[i] = x
  <2> HIDE DEF both, sourceOnly, targetOnly
  <2> QED
    BY <1>21, <1>6, Listing
<1>8. Cardinality(S \union T) = p + q + r
  <2> DEFINE U == (S \cap T) \union (S \ T)
  <2>1. S \union T = U \union (T \ S)
    OBVIOUS
  <2>2. Cardinality((S \cap T) \cap (S \ T)) = 0 /\ Cardinality(U \cap (T \ S)) = 0
    <3>1. (S \cap T) \cap (S \ T) = {} /\ U \cap (T \ S) = {} /\ Cardinality({}) = 0
      BY FS_EmptySet
    <3> HIDE DEF U
    <3> QED
      BY <3>1
  <2>3. IsFiniteSet(U) /\ Cardinality(U) = p + q - Cardinality((S \cap T) \cap (S \ T))
    BY <1>6, FS_Union
  <2> HIDE DEF U
  <2>4. Cardinality(U \union (T \ S)) = Cardinality(U) + r - Cardinality(U \cap (T \ S))
    BY <1>6, <2>3, FS_Union
  <2>5. p \in Nat /\ q \in Nat /\ r \in Nat
    BY <1>7
  <2> HIDE DEF p, q, r
  <2>6. Cardinality(U) = p + q
    BY <2>2, <2>3, <2>5
  <2>7. Cardinality(U \union (T \ S)) = p + q + r
    BY <2>2, <2>4, <2>5, <2>6
  <2> QED
    BY <2>1, <2>7
<1> DEFINE A == [i \in DOMAIN both |-> BothSides(c, table, tgt, both[i])]
           B == [i \in DOMAIN sourceOnly |-> OneSide(c, table, sourceOnly[i], "missing_in_target")]
           C == [i \in DOMAIN targetOnly |-> OneSide(c, table, targetOnly[i], "missing_in_source")]
<1> HIDE DEF p, q, r
<1> DEFINE R == ToSet(A) \union ToSet(B) \union ToSet(C)
<1>9. A \in Seq(R) /\ B \in Seq(R) /\ C \in Seq(R) /\ Len(A) = p /\ Len(B) = q /\ Len(C) = r
  <2>1. DOMAIN A = 1..p /\ DOMAIN B = 1..q /\ DOMAIN C = 1..r
    BY <1>7
  <2>2. A \in [1..p -> R] /\ B \in [1..q -> R] /\ C \in [1..r -> R]
    <3>1. A = [i \in DOMAIN A |-> A[i]] /\ B = [i \in DOMAIN B |-> B[i]] /\ C = [i \in DOMAIN C |-> C[i]]
      OBVIOUS
    <3> HIDE DEF A, B, C
    <3> QED
      BY <2>1, <3>1 DEF ToSet
  <2>3. p \in Nat /\ q \in Nat /\ r \in Nat
    BY <1>7
  <2> HIDE DEF A, B, C, R
  <2> QED
    BY <2>2, <2>3
<1> HIDE DEF R
<1>20. p \in Nat /\ q \in Nat /\ r \in Nat
  BY <1>7
<1>10. d = A \o B \o C
  BY <1>1 DEF Joined
<1>11. \A i \in 1..p : A[i] = BothSides(c, table, tgt, both[i])
  BY <1>7
<1>12. \A i \in 1..q : B[i] = OneSide(c, table, sourceOnly[i], "missing_in_target")
  BY <1>7
<1>13. \A i \in 1..r : C[i] = OneSide(c, table, targetOnly[i], "missing_in_source")
  BY <1>7
<1> HIDE DEF A, B, C
<1>14. /\ DOMAIN d = 1..(p + q + r)
       /\ \A i \in 1..p : d[i] = A[i]
       /\ \A i \in 1..q : d[p + i] = B[i]
       /\ \A i \in 1..r : d[p + q + i] = C[i]
  <2>1. /\ DOMAIN d = 1..(Len(A) + Len(B) + Len(C))
        /\ \A i \in 1..Len(A) : d[i] = A[i]
        /\ \A i \in 1..Len(B) : d[Len(A) + i] = B[i]
        /\ \A i \in 1..Len(C) : d[Len(A) + Len(B) + i] = C[i]
    <3>1. IsList(A) /\ IsList(B) /\ IsList(C)
      BY <1>9, SeqIsList
    <3> DEFINE D == A \o B \o C
    <3>2. /\ DOMAIN D = 1..(Len(A) + Len(B) + Len(C))
          /\ \A i \in 1..Len(A) : D[i] = A[i]
          /\ \A i \in 1..Len(B) : D[Len(A) + i] = B[i]
          /\ \A i \in 1..Len(C) : D[Len(A) + Len(B) + i] = C[i]
      BY <3>1, ThreeBehind
    <3> HIDE DEF D
    <3>3. d = D
      BY <1>10 DEF D
    <3> QED
      BY <3>2, <3>3
  <2> QED
    BY <1>9, <2>1
<1>15. ASSUME NEW n \in 1..(p + q + r)
       PROVE  d[n].key \in S \union T /\ (d[n].class = "match" <=> Matching(d[n].key))
  <2>1. CASE n \in 1..p
    <3>1. d[n] = BothSides(c, table, tgt, both[n]) /\ both[n] \in S \cap T
      BY <1>7, <1>11, <1>14, <2>1
    <3> QED
      BY <1>4, <3>1
  <2>2. CASE n > p /\ n <= p + q
    <3>1. n - p \in 1..q /\ n = p + (n - p)
      BY <1>7, <2>2
    <3>2. d[n] = OneSide(c, table, sourceOnly[n - p], "missing_in_target") /\ sourceOnly[n - p] \in S \ T
      BY <1>7, <1>12, <1>14, <3>1
    <3> QED
      BY <1>3, <1>5, <3>2
  <2>3. CASE n > p + q
    <3>1. n - (p + q) \in 1..r /\ n = p + q + (n - (p + q))
      BY <1>7, <2>3
    <3>2. d[n] = OneSide(c, table, targetOnly[n - (p + q)], "missing_in_source")
          /\ targetOnly[n - (p + q)] \in T \ S
      BY <1>7, <1>13, <1>14, <3>1
    <3> QED
      BY <1>3, <1>5, <3>2
  <2> QED
    BY <1>7, <2>1, <2>2, <2>3
<1>16. ASSUME NEW x \in S \union T PROVE \E n \in 1..(p + q + r) : d[n].key = x
  <2>1. CASE x \in S \cap T
    <3>1. PICK i \in 1..p : both[i] = x
      BY <1>7, <2>1
    <3>2. i \in 1..(p + q + r)
      BY <1>20
    <3>3. d[i] = BothSides(c, table, tgt, x)
      BY <1>11, <1>14, <3>1
    <3> QED
      BY <1>4, <2>1, <3>2, <3>3
  <2>2. CASE x \in S \ T
    <3>1. PICK i \in 1..q : sourceOnly[i] = x
      BY <1>7, <2>2
    <3>2. p + i \in 1..(p + q + r)
      BY <1>20
    <3>3. d[p + i] = OneSide(c, table, x, "missing_in_target")
      BY <1>12, <1>14, <3>1
    <3> QED
      BY <1>5, <3>2, <3>3
  <2>3. CASE x \in T \ S
    <3>1. PICK i \in 1..r : targetOnly[i] = x
      BY <1>7, <2>3
    <3>2. p + q + i \in 1..(p + q + r)
      BY <1>20
    <3>3. d[p + q + i] = OneSide(c, table, x, "missing_in_source")
      BY <1>13, <1>14, <3>1
    <3> QED
      BY <1>5, <3>2, <3>3
  <2> QED
    BY <2>1, <2>2, <2>3
<1>17. {d[i].key : i \in DOMAIN d} = S \union T
  BY <1>14, <1>15, <1>16
<1>18. IsList(d) /\ Len(d) = Cardinality(S \union T)
  <2>1. IsList(A) /\ IsList(B) /\ IsList(C)
    BY <1>9, SeqIsList
  <2> DEFINE AB == A \o B
  <2>2. IsList(AB) /\ Len(AB) = Len(A) + Len(B)
    BY <2>1, JointPlaces
  <2> HIDE DEF AB
  <2>3. IsList(AB \o C) /\ Len(AB \o C) = Len(AB) + Len(C)
    BY <2>1, <2>2, JointPlaces
  <2>4. d = AB \o C
    BY <1>10 DEF AB
  <2>5. Len(AB \o C) = p + q + r
    BY <1>9, <2>2, <2>3
  <2> QED
    BY <1>8, <2>3, <2>4, <2>5
<1>19. \A n \in DOMAIN d : d[n].class = "match" <=> Matching(d[n].key)
  BY <1>14, <1>15
<1> QED
  BY <1>17, <1>18, <1>19 DEF Exact, S, T, Matching

------------------------------------------------------------------------------
(* Frames and the rows they derive from.                                   *)

\* A frame whose rows derive from raw rows.
IsFrame(f) ==
  /\ DOMAIN f = {"columns", "rows"}
  /\ \E n \in Nat : DOMAIN f.rows = 1..n
  /\ \A i \in DOMAIN f.rows : DOMAIN f.rows[i] = {"cell", "ids"} /\ f.rows[i].ids \in Seq(Nat)

\* Before any row is collapsed, a row derives from one raw row.
Singles(f) == \A i \in DOMAIN f.rows : Len(f.rows[i].ids) = 1

\* A raw row is in a frame if a row of it derives from it.
LEMMA IdsAre ==
  ASSUME NEW f, NEW x
  PROVE  x \in IdsOf(f) <=> \E i \in DOMAIN f.rows : x \in ToSet(f.rows[i].ids)
BY DEF IdsOf

\* Raw rows are named by their number.
LEMMA IdsAreNumbers == ASSUME NEW f, IsFrame(f) PROVE IdsOf(f) \subseteq Nat
<1>1. ASSUME NEW i \in DOMAIN f.rows, NEW x \in ToSet(f.rows[i].ids) PROVE x \in Nat
  <2>1. f.rows[i].ids \in Seq(Nat)
    BY DEF IsFrame
  <2> DEFINE s == f.rows[i].ids
  <2> HIDE DEF s
  <2>2. s \in Seq(Nat) /\ x \in ToSet(s)
    BY <1>1, <2>1 DEF s
  <2> QED
    BY <2>2 DEF ToSet
<1> QED
  BY <1>1, IdsAre

\* Places of a frame's rows are a finite set of numbers.
LEMMA PlacesAreFinite ==
  ASSUME NEW n \in Nat, NEW places \in SUBSET (1..n)
  PROVE  places \in SUBSET Int /\ IsFiniteSet(places)
<1>1. IsFiniteSet(1..n)
  BY FS_Interval
<1>2. IsFiniteSet(places)
  BY <1>1, FS_Subset
<1>3. \A i \in places : i \in Int
  OBVIOUS
<1> QED
  BY <1>2, <1>3

\* A filter keeps some rows as they are.
LEMMA FilteredIs ==
  ASSUME NEW f, IsFrame(f), NEW o
  PROVE  /\ IsFrame(Filtered(f, o)) /\ Filtered(f, o).columns = f.columns
         /\ IdsOf(Filtered(f, o)) \subseteq IdsOf(f)
         /\ Singles(f) => Singles(Filtered(f, o))
<1> DEFINE places == {i \in DOMAIN f.rows : ~Rejects(o, f.rows[i])}
           kept == At(f.rows, places)
<1>1. places \in SUBSET Int /\ IsFiniteSet(places) /\ places \subseteq DOMAIN f.rows
  BY PlacesAreFinite DEF IsFrame
<1> HIDE DEF places
<1>2. /\ Cardinality(places) \in Nat /\ DOMAIN kept = 1..Cardinality(places)
      /\ \A n \in DOMAIN kept : \E i \in places : kept[n] = f.rows[i]
  BY <1>1, AtPlaces
<1>3. Filtered(f, o) = [f EXCEPT !.rows = kept]
  BY DEF Filtered, places
<1>4. /\ DOMAIN Filtered(f, o) = {"columns", "rows"}
      /\ Filtered(f, o).rows = kept /\ Filtered(f, o).columns = f.columns
  <2> HIDE DEF kept
  <2> QED
    BY <1>3 DEF IsFrame
<1> HIDE DEF kept
<1>5. IsFrame(Filtered(f, o))
  BY <1>1, <1>2, <1>4 DEF IsFrame
<1>6. IdsOf(Filtered(f, o)) \subseteq IdsOf(f)
  BY <1>1, <1>2, <1>4, IdsAre
<1>7. Singles(f) => Singles(Filtered(f, o))
  BY <1>1, <1>2, <1>4 DEF Singles
<1> QED
  BY <1>4, <1>5, <1>6, <1>7

\* A frame whose rows derive from the same raw rows as another's.
LEMMA SameIds ==
  ASSUME NEW f, IsFrame(f), NEW g, DOMAIN g = {"columns", "rows"}, DOMAIN g.rows = DOMAIN f.rows,
         \A i \in DOMAIN f.rows : DOMAIN g.rows[i] = {"cell", "ids"} /\ g.rows[i].ids = f.rows[i].ids
  PROVE  IsFrame(g) /\ IdsOf(g) = IdsOf(f) /\ (Singles(f) => Singles(g))
<1>1. IsFrame(g)
  BY DEF IsFrame
<1>2. IdsOf(g) = IdsOf(f)
  <2>1. ASSUME NEW x \in IdsOf(g) PROVE x \in IdsOf(f)
    <3>1. PICK i \in DOMAIN g.rows : x \in ToSet(g.rows[i].ids)
      BY <2>1, IdsAre
    <3>2. i \in DOMAIN f.rows /\ x \in ToSet(f.rows[i].ids)
      BY <3>1
    <3> QED
      BY <3>2, IdsAre
  <2>2. ASSUME NEW x \in IdsOf(f) PROVE x \in IdsOf(g)
    <3>1. PICK i \in DOMAIN f.rows : x \in ToSet(f.rows[i].ids)
      BY <2>2, IdsAre
    <3>2. i \in DOMAIN g.rows /\ x \in ToSet(g.rows[i].ids)
      BY <3>1
    <3> QED
      BY <3>2, IdsAre
  <2> QED
    BY <2>1, <2>2
<1>3. Singles(f) => Singles(g)
  BY DEF Singles
<1> QED
  BY <1>1, <1>2, <1>3

\* A cell that is written does not change where its row comes from.
LEMMA WithCellIs ==
  ASSUME NEW row, "cell" \in DOMAIN row, NEW col, NEW v
  PROVE  /\ DOMAIN WithCell(row, col, v) = DOMAIN row
         /\ "ids" \in DOMAIN row => WithCell(row, col, v).ids = row.ids
         /\ "keep" \in DOMAIN row => WithCell(row, col, v).keep = row.keep
BY DEF WithCell

\* The operations that change cells.
TransformNames == {"value_mapping", "calculated_column", "rename_field"}

\* A transform changes cells.
LEMMA TransformedIs ==
  ASSUME NEW f, IsFrame(f), NEW o, o.op \in TransformNames
  PROVE  /\ IsFrame(Transformed(f, o)) /\ IdsOf(Transformed(f, o)) = IdsOf(f)
         /\ Singles(f) => Singles(Transformed(f, o))
<1>1. \A i \in DOMAIN f.rows : DOMAIN f.rows[i] = {"cell", "ids"}
  BY DEF IsFrame
<1>2. CASE o.op = "value_mapping"
  <2> DEFINE Change(row) == IF Cell(row, o.field) = o.from THEN WithCell(row, o.field, o.to) ELSE row
             table == [i \in DOMAIN f.rows |-> Change(f.rows[i])]
  <2>1. Transformed(f, o) = [f EXCEPT !.rows = table]
    BY <1>2 DEF Transformed, MapRows
  <2>2. \A i \in DOMAIN f.rows : DOMAIN Change(f.rows[i]) = {"cell", "ids"} /\ Change(f.rows[i]).ids = f.rows[i].ids
    BY <1>1, WithCellIs
  <2> HIDE DEF Change
  <2>3. /\ DOMAIN table = DOMAIN f.rows
        /\ \A i \in DOMAIN f.rows : DOMAIN table[i] = {"cell", "ids"} /\ table[i].ids = f.rows[i].ids
    BY <2>2
  <2> HIDE DEF table
  <2>4. DOMAIN Transformed(f, o) = {"columns", "rows"} /\ Transformed(f, o).rows = table
    BY <2>1 DEF IsFrame
  <2> QED
    BY <2>3, <2>4, SameIds
<1>3. CASE o.op = "calculated_column"
  <2> DEFINE Change(row) == WithCell(row, o.to, 2 * Cell(row, o.field))
             table == [i \in DOMAIN f.rows |-> Change(f.rows[i])]
  <2>1. Transformed(f, o) = [columns |-> f.columns \union {o.to}, rows |-> table]
    BY <1>3 DEF Transformed, MapRows
  <2>2. \A i \in DOMAIN f.rows : DOMAIN Change(f.rows[i]) = {"cell", "ids"} /\ Change(f.rows[i]).ids = f.rows[i].ids
    BY <1>1, WithCellIs
  <2> HIDE DEF Change
  <2>3. /\ DOMAIN table = DOMAIN f.rows
        /\ \A i \in DOMAIN f.rows : DOMAIN table[i] = {"cell", "ids"} /\ table[i].ids = f.rows[i].ids
    BY <2>2
  <2> HIDE DEF table
  <2>4. DOMAIN Transformed(f, o) = {"columns", "rows"} /\ Transformed(f, o).rows = table
    BY <2>1
  <2> QED
    BY <2>3, <2>4, SameIds
<1>4. CASE o.op = "rename_field"
  BY <1>4 DEF Transformed
<1> QED
  BY <1>2, <1>3, <1>4 DEF TransformNames

\* The rows a transform is said to apply to are rows of the frame.
LEMMA ChangedAreRows == ASSUME NEW f, NEW g, NEW o PROVE Changed(f, g, o) \subseteq IdsOf(f)
<1> DEFINE col == IF o.op = "calculated_column" THEN o.to ELSE o.field
           places == {j \in DOMAIN f.rows : col \in g.columns /\ Cell(f.rows[j], col) # Cell(g.rows[j], col)}
<1>1. Changed(f, g, o) = IF col \notin f.columns THEN IdsOf(f)
                         ELSE UNION {ToSet(f.rows[i].ids) : i \in places}
  BY DEF Changed
<1>2. places \subseteq DOMAIN f.rows
  OBVIOUS
<1> HIDE DEF places, col
<1> QED
  BY <1>1, <1>2 DEF IdsOf

\* The lineage of a set of rows.
LEMMA IdsInIs ==
  ASSUME NEW f, IsFrame(f), NEW places \in SUBSET DOMAIN f.rows
  PROVE  /\ IdsIn(f, places) \in Seq(Nat)
         /\ \A x : x \in ToSet(IdsIn(f, places)) <=> \E i \in places : x \in ToSet(f.rows[i].ids)
<1> DEFINE lineages == [i \in DOMAIN f.rows |-> f.rows[i].ids]
           parts == At(lineages, places)
<1>1. places \in SUBSET Int /\ IsFiniteSet(places)
  BY PlacesAreFinite DEF IsFrame
<1>2. \A i \in places : lineages[i] = f.rows[i].ids /\ lineages[i] \in Seq(Nat)
  BY DEF IsFrame
<1> HIDE DEF lineages
<1>3. /\ Cardinality(places) \in Nat /\ DOMAIN parts = 1..Cardinality(places)
      /\ \A n \in DOMAIN parts : \E i \in places : parts[n] = lineages[i]
      /\ \A i \in places : \E n \in DOMAIN parts : parts[n] = lineages[i]
  BY <1>1, AtPlaces
<1>4. parts = [n \in DOMAIN parts |-> parts[n]]
  <2>1. parts = [n \in DOMAIN InOrder(places) |-> lineages[InOrder(places)[n]]]
    BY DEF At
  <2> HIDE DEF parts
  <2> QED
    BY <2>1
<1>5. IdsIn(f, places) = FlattenSeq(parts)
  BY DEF IdsIn, lineages
<1> HIDE DEF parts
<1>6. parts \in Seq(Seq(Nat))
  <2>1. \A n \in 1..Cardinality(places) : parts[n] \in Seq(Nat)
    BY <1>2, <1>3
  <2>2. parts = [n \in 1..Cardinality(places) |-> parts[n]]
    BY <1>3, <1>4
  <2>3. parts \in [1..Cardinality(places) -> Seq(Nat)]
    BY <2>1, <2>2
  <2> QED
    BY <1>3, <2>3
<1>7. /\ FlattenSeq(parts) \in Seq(Nat)
      /\ \A x : x \in ToSet(FlattenSeq(parts)) <=> \E k \in DOMAIN parts : x \in ToSet(parts[k])
  BY <1>6, Flattened
<1>8. ASSUME NEW x
      PROVE (\E k \in DOMAIN parts : x \in ToSet(parts[k])) <=> \E i \in places : x \in ToSet(f.rows[i].ids)
  BY <1>2, <1>3
<1> QED
  BY <1>5, <1>7, <1>8

\* Two rows of one group have the same group.
LEMMA GroupsAreSymmetric ==
  ASSUME NEW f, NEW by, NEW i \in DOMAIN f.rows, NEW j \in DOMAIN f.rows, i \in SameGroup(f, by, j)
  PROVE  SameGroup(f, by, i) = SameGroup(f, by, j) /\ j \in SameGroup(f, by, i)
BY DEF SameGroup

\* The rows at these places stand for their groups, each with its group's lineage.
IsGrouping(f, by, places, g) ==
  /\ places \subseteq DOMAIN f.rows
  /\ \A j \in DOMAIN f.rows : \E i \in places : i \in SameGroup(f, by, j)
  /\ DOMAIN g = {"columns", "rows"} /\ DOMAIN g.rows = DOMAIN InOrder(places)
  /\ \A n \in DOMAIN g.rows : /\ DOMAIN g.rows[n] = {"cell", "ids"}
                              /\ g.rows[n].ids = Lineage(f, by, InOrder(places)[n])

\* A raw row was grouped under a null if a row of its group has one in its key.
LEMMA NullKeyedAre ==
  ASSUME NEW f, NEW by, NEW j \in DOMAIN f.rows, NEW x \in ToSet(f.rows[j].ids),
         GroupKey(f.rows[j], by) \in Unfound
  PROVE  x \in NullKeyed(f, by)
<1>1. PICK n \in DOMAIN GroupKey(f.rows[j], by) : GroupKey(f.rows[j], by)[n] = Null
  BY UnfoundAssumption
<1>2. n \in DOMAIN by
  BY <1>1 DEF GroupKey
<1> QED
  BY <1>1, <1>2 DEF NullKeyed

\* Only raw rows of the frame are.
LEMMA NullKeyedAreRows == ASSUME NEW f, NEW by PROVE NullKeyed(f, by) \subseteq IdsOf(f)
BY DEF NullKeyed, IdsOf

\* The lineage of a group.
LEMMA LineageIs ==
  ASSUME NEW f, IsFrame(f), NEW by, NEW i \in DOMAIN f.rows
  PROVE  /\ Lineage(f, by, i) \in Seq(Nat)
         /\ \A x : x \in ToSet(Lineage(f, by, i)) => \E j \in SameGroup(f, by, i) : x \in ToSet(f.rows[j].ids)
         /\ \A j \in SameGroup(f, by, i) : \A x \in ToSet(f.rows[j].ids) :
              x \in ToSet(Lineage(f, by, i)) \/ x \in NullKeyed(f, by)
<1>1. SameGroup(f, by, i) \in SUBSET DOMAIN f.rows
  BY DEF SameGroup
<1>2. CASE GroupKey(f.rows[i], by) \notin Unfound
  <2>1. Lineage(f, by, i) = IdsIn(f, SameGroup(f, by, i))
    BY <1>2 DEF Lineage
  <2> QED
    BY <1>1, <2>1, IdsInIs
<1>3. CASE GroupKey(f.rows[i], by) \in Unfound
  <2> DEFINE none == Lineage(f, by, i)
  <2>1. none = <<>>
    BY <1>3 DEF Lineage
  <2>2. none \in Seq(Nat) /\ ToSet(none) = {}
    BY <2>1 DEF ToSet
  <2>3. ASSUME NEW j \in SameGroup(f, by, i), NEW x \in ToSet(f.rows[j].ids) PROVE x \in NullKeyed(f, by)
    <3>1. j \in DOMAIN f.rows /\ GroupKey(f.rows[j], by) = GroupKey(f.rows[i], by)
      BY DEF SameGroup
    <3> QED
      BY <1>3, <3>1, NullKeyedAre
  <2> HIDE DEF none
  <2> QED
    BY <2>2, <2>3 DEF none
<1> QED
  BY <1>2, <1>3

\* A grouping collapses each row into the row that stands for its group, and
\* loses no lineage but under a null.
LEMMA GroupsKeepIds ==
  ASSUME NEW f, IsFrame(f), NEW by, NEW places, NEW g, IsGrouping(f, by, places, g)
  PROVE  /\ IsFrame(g) /\ IdsOf(g) \subseteq IdsOf(f)
         /\ IdsOf(f) \subseteq IdsOf(g) \union NullKeyed(f, by)
<1> USE DEF IsGrouping
<1> DEFINE order == InOrder(places)
           N == Cardinality(places)
           Ids(i) == Lineage(f, by, i)
<1>1. places \in SUBSET Int /\ IsFiniteSet(places)
  BY PlacesAreFinite DEF IsFrame
<1>2. N \in Nat /\ order \in [1..N -> places] /\ \A i \in places : \E n \in 1..N : order[n] = i
  BY <1>1, RankIsPlace
<1>3. DOMAIN g.rows = 1..N
  BY <1>2
<1>4. \A i \in DOMAIN f.rows : Ids(i) \in Seq(Nat)
  BY LineageIs
<1>5. \A n \in 1..N : order[n] \in DOMAIN f.rows /\ DOMAIN g.rows[n] = {"cell", "ids"} /\ g.rows[n].ids = Ids(order[n])
  <2>1. \A n \in 1..N : DOMAIN g.rows[n] = {"cell", "ids"} /\ g.rows[n].ids = Ids(order[n])
    BY <1>3 DEF order, Ids
  <2>2. \A n \in 1..N : order[n] \in places
    <3> HIDE DEF order, N
    <3> QED
      BY <1>2
  <2> QED
    BY <2>1, <2>2
<1> HIDE DEF order, N, Ids
<1>6. IsFrame(g)
  <2>1. \A n \in DOMAIN g.rows : DOMAIN g.rows[n] = {"cell", "ids"} /\ g.rows[n].ids \in Seq(Nat)
    BY <1>3, <1>4, <1>5
  <2>2. \E n \in Nat : DOMAIN g.rows = 1..n
    BY <1>2, <1>3
  <2> QED
    BY <2>1, <2>2 DEF IsFrame
<1>7. ASSUME NEW x \in IdsOf(g) PROVE x \in IdsOf(f)
  <2>1. PICK n \in 1..N : x \in ToSet(g.rows[n].ids)
    BY <1>3, <1>7, IdsAre
  <2>2. PICK j \in SameGroup(f, by, order[n]) : x \in ToSet(f.rows[j].ids)
    BY <1>5, <2>1, LineageIs DEF Ids
  <2> QED
    BY <2>2, IdsAre DEF SameGroup
<1>8. ASSUME NEW x \in IdsOf(f) PROVE x \in IdsOf(g) \/ x \in NullKeyed(f, by)
  <2>1. PICK j \in DOMAIN f.rows : x \in ToSet(f.rows[j].ids)
    BY <1>8, IdsAre
  <2>2. PICK i \in places : i \in SameGroup(f, by, j)
    OBVIOUS
  <2>3. PICK n \in 1..N : order[n] = i
    BY <1>2
  <2>4. i \in DOMAIN f.rows /\ j \in SameGroup(f, by, i)
    BY <2>2, GroupsAreSymmetric
  <2>5. x \in ToSet(Ids(i)) \/ x \in NullKeyed(f, by)
    BY <2>1, <2>4, LineageIs DEF Ids
  <2>6. CASE x \in ToSet(Ids(i))
    <3>1. x \in ToSet(g.rows[n].ids)
      BY <1>5, <2>3, <2>6
    <3> QED
      BY <1>3, <3>1, IdsAre
  <2> QED
    BY <2>5, <2>6
<1> QED
  BY <1>6, <1>7, <1>8

\* Each group has a first and a last row.
LEMMA GroupsHaveEnds ==
  ASSUME NEW f, IsFrame(f), NEW by, NEW j \in DOMAIN f.rows
  PROVE  /\ \E i \in DOMAIN f.rows : FirstOfGroup(f, by, i) /\ i \in SameGroup(f, by, j)
         /\ \E i \in DOMAIN f.rows : LastOfGroup(f, by, i) /\ i \in SameGroup(f, by, j)
<1> DEFINE G == SameGroup(f, by, j)
<1>1. PICK n \in Nat : DOMAIN f.rows = 1..n
  BY DEF IsFrame
<1>2. j \in G /\ G \subseteq 1..n /\ \A i \in G : SameGroup(f, by, i) = G
  BY <1>1, GroupsAreSymmetric DEF SameGroup
<1> HIDE DEF G
<1>3. PICK i \in G : \A k \in G : i <= k
  BY <1>2, Smallest
<1>4. FirstOfGroup(f, by, i)
  BY <1>2, <1>3 DEF FirstOfGroup
<1> DEFINE M == {n - k : k \in G}
<1>5. PICK m \in M : \A k \in M : m <= k
  <2>1. M \subseteq Nat /\ M # {}
    BY <1>2
  <2> HIDE DEF M
  <2> QED
    BY <2>1, Smallest
<1>6. PICK l \in G : m = n - l
  BY <1>5
<1>7. ASSUME NEW k \in G PROVE k <= l
  <2>1. n - l <= n - k
    BY <1>5, <1>6
  <2> QED
    BY <1>2, <2>1
<1>8. LastOfGroup(f, by, l)
  BY <1>2, <1>7 DEF LastOfGroup
<1> QED
  BY <1>1, <1>2, <1>3, <1>4, <1>6, <1>8 DEF G

\* An aggregation collapses rows and loses no lineage but under a null.
LEMMA AggregatedIs ==
  ASSUME NEW f, IsFrame(f), NEW o
  PROVE  /\ IsFrame(Aggregated(f, o)) /\ IdsOf(Aggregated(f, o)) \subseteq IdsOf(f)
         /\ IdsOf(f) \subseteq IdsOf(Aggregated(f, o)) \union NullKeyed(f, o.by)
<1> DEFINE by == o.by
           Keeps(i) == IF o.op = "deduplicate" /\ o.keep = "last" THEN LastOfGroup(f, by, i)
                                                                ELSE FirstOfGroup(f, by, i)
           places == {i \in DOMAIN f.rows : Keeps(i)}
           g == Aggregated(f, o)
<1>1. places \subseteq DOMAIN f.rows
  OBVIOUS
<1>2. \A j \in DOMAIN f.rows : \E i \in places : i \in SameGroup(f, by, j)
  BY GroupsHaveEnds
<1>3. /\ DOMAIN g = {"columns", "rows"} /\ DOMAIN g.rows = DOMAIN InOrder(places)
      /\ \A n \in DOMAIN g.rows : /\ DOMAIN g.rows[n] = {"cell", "ids"}
                                  /\ g.rows[n].ids = Lineage(f, by, InOrder(places)[n])
  <2>1. CASE o.op = "deduplicate"
    <3> DEFINE last == {i \in DOMAIN f.rows :
                          IF o.keep = "last" THEN LastOfGroup(f, o.by, i) ELSE FirstOfGroup(f, o.by, i)}
    <3>1. places = last
      BY <2>1
    <3>2. g = [columns |-> f.columns,
               rows |-> [n \in DOMAIN InOrder(last) |->
                          [cell |-> f.rows[InOrder(last)[n]].cell,
                           ids |-> Lineage(f, o.by, InOrder(last)[n])]]]
      BY <2>1 DEF Aggregated, Grouped
    <3> HIDE DEF last, places, g
    <3> QED
      BY <3>1, <3>2
  <2>2. CASE o.op # "deduplicate"
    <3> DEFINE first == {i \in DOMAIN f.rows : FirstOfGroup(f, o.by, i)}
               Sum(i) == [col \in ToSet(o.by) \union {o.field} |->
                 IF col = o.field THEN SumOf(f, col, SameGroup(f, o.by, i)) ELSE Cell(f.rows[i], col)]
    <3>1. places = first
      BY <2>2
    <3>2. g = [columns |-> ToSet(o.by) \union {o.field},
               rows |-> [n \in DOMAIN InOrder(first) |->
                          [cell |-> Sum(InOrder(first)[n]),
                           ids |-> Lineage(f, o.by, InOrder(first)[n])]]]
      BY <2>2 DEF Aggregated, Grouped
    <3> HIDE DEF first, places, g, Sum
    <3> QED
      BY <3>1, <3>2
  <2> QED
    BY <2>1, <2>2
<1> HIDE DEF by, places, g
<1> QED
  <2>1. /\ IsFrame(g) /\ IdsOf(g) \subseteq IdsOf(f)
        /\ IdsOf(f) \subseteq IdsOf(g) \union NullKeyed(f, by)
    <3>1. IsGrouping(f, by, places, g)
      BY <1>1, <1>2, <1>3 DEF IsGrouping
    <3> QED
      BY <3>1, GroupsKeepIds
  <2> QED
    BY <2>1 DEF g, by

\* A bucketed date does not change where its row comes from.
LEMMA BucketedIs ==
  ASSUME NEW f, IsFrame(f), NEW fields
  PROVE  IsFrame(Bucketed(f, fields)) /\ IdsOf(Bucketed(f, fields)) = IdsOf(f)
         /\ Bucketed(f, fields).columns = f.columns
<1> DEFINE Change(row) == [row EXCEPT !.cell = [col \in DOMAIN row.cell |->
                             IF col \in fields THEN PeriodStart(row.cell[col]) ELSE row.cell[col]]]
           table == [i \in DOMAIN f.rows |-> Change(f.rows[i])]
           g == Bucketed(f, fields)
<1>1. g = [f EXCEPT !.rows = table]
  BY DEF Bucketed, MapRows
<1>2. \A i \in DOMAIN f.rows : DOMAIN f.rows[i] = {"cell", "ids"}
  BY DEF IsFrame
<1>3. \A i \in DOMAIN f.rows : DOMAIN table[i] = {"cell", "ids"} /\ table[i].ids = f.rows[i].ids
  BY <1>2
<1>4. DOMAIN table = DOMAIN f.rows
  OBVIOUS
<1> HIDE DEF table, g
<1>5. DOMAIN g = {"columns", "rows"} /\ g.rows = table /\ g.columns = f.columns
  BY <1>1 DEF IsFrame
<1>6. IsFrame(g) /\ IdsOf(g) = IdsOf(f)
  BY <1>3, <1>4, <1>5, SameIds
<1> QED
  BY <1>5, <1>6 DEF g

\* So does the grouping of the aggregation rules.
LEMMA AggregatedByRulesIs ==
  ASSUME NEW c, NEW f, IsFrame(f)
  PROVE  LET h == AggregatedByRules(c, f)
         IN  /\ IsFrame(h) /\ IdsOf(h) \subseteq IdsOf(f)
             /\ c.rules = {} => IdsOf(h) = IdsOf(f)
             /\ IdsOf(f) \subseteq IdsOf(h) \union NullKeyed(InPeriods(c, f), RuleKeys(c, f))
             /\ IdsOf(InPeriods(c, f)) = IdsOf(f)
<1> DEFINE g == InPeriods(c, f)
           by == RuleKeys(c, f)
           sums == RuleFields(c, f, "sum") \ ToSet(by)
           kept == RuleColumns(c, f)
           places == {i \in DOMAIN g.rows : FirstOfGroup(g, by, i)}
           Sum(i) == [col \in kept |-> IF col \in sums THEN SumOf(g, col, SameGroup(g, by, i))
                                                       ELSE Cell(g.rows[i], col)]
           h == [columns |-> kept,
                 rows |-> [n \in DOMAIN InOrder(places) |->
                            [cell |-> Sum(InOrder(places)[n]), ids |-> Lineage(g, by, InOrder(places)[n])]]]
<1>1. IsFrame(g) /\ IdsOf(g) = IdsOf(f)
  BY BucketedIs DEF InPeriods
<1>2. AggregatedByRules(c, f) = IF c.rules = {} THEN f ELSE IF by = <<>> THEN g ELSE h
  BY DEF AggregatedByRules, Grouped
<1> HIDE DEF g, sums, by, kept
<1>3. IsFrame(h) /\ IdsOf(h) \subseteq IdsOf(g) /\ IdsOf(g) \subseteq IdsOf(h) \union NullKeyed(g, by)
  <2>1. \A j \in DOMAIN g.rows : \E i \in places : i \in SameGroup(g, by, j)
    BY <1>1, GroupsHaveEnds
  <2>2. places \subseteq DOMAIN g.rows
    OBVIOUS
  <2> HIDE DEF places, Sum
  <2>3. /\ DOMAIN h = {"columns", "rows"} /\ DOMAIN h.rows = DOMAIN InOrder(places)
        /\ \A n \in DOMAIN h.rows : /\ DOMAIN h.rows[n] = {"cell", "ids"}
                                    /\ h.rows[n].ids = Lineage(g, by, InOrder(places)[n])
    OBVIOUS
  <2> HIDE DEF h
  <2>4. IsGrouping(g, by, places, h)
    BY <2>1, <2>2, <2>3 DEF IsGrouping
  <2> QED
    BY <1>1, <2>4, GroupsKeepIds
<1> HIDE DEF h
<1> QED
  BY <1>1, <1>2, <1>3 DEF g, by

------------------------------------------------------------------------------
(* The value mapping: each row becomes one row or more, or is held.         *)

\* A row while values are mapped, before any is collapsed.
IsRow(row) == DOMAIN row = {"cell", "ids", "keep"} /\ row.ids \in Seq(Nat) /\ Len(row.ids) = 1
              /\ row.keep \in BOOLEAN

\* What the loop over the key fields hands on.
IsAcc(a) ==
  /\ DOMAIN a = {"columns", "rows", "held"}
  /\ IsList(a.rows) /\ \A i \in DOMAIN a.rows : IsRow(a.rows[i])
  /\ IsList(a.held)

\* The raw rows that are held out.
HeldIds(a) == {a.held[i].id : i \in DOMAIN a.held}

\* A row that is not kept is recorded as held.
Accounts(a, ids) ==
  /\ IdsOf(a) = ids /\ HeldIds(a) \subseteq ids
  /\ \A i \in DOMAIN a.rows : ~a.rows[i].keep => Head(a.rows[i].ids) \in HeldIds(a)

\* The matches of a value are a list.
LEMMA RecordedIs ==
  ASSUME NEW c \in Contracts, NEW field, Mapped(c, field), NEW v
  PROVE  IsList(Recorded(c, field, v)) /\ IsList(Accepted(c, field, v))
<1> DEFINE all == c.matches[field]
           places == {i \in DOMAIN all : all[i].source = v}
           some == Recorded(c, field, v)
           chosen == {i \in DOMAIN some : some[i].confidence \in Kept /\ some[i].target # None}
<1>1. all \in Seq(ToSet(all))
  BY ContractsAssumption DEF Mapped
<1> HIDE DEF all
<1>2. places \in SUBSET Int /\ IsFiniteSet(places)
  <2>1. places \in SUBSET (1..Len(all)) /\ Len(all) \in Nat
    BY <1>1
  <2> QED
    BY <2>1, PlacesAreFinite
<1>3. some = At(all, places)
  BY DEF Recorded, all
<1> HIDE DEF places
<1>4. IsList(some)
  <2>1. Cardinality(places) \in Nat /\ DOMAIN At(all, places) = 1..Cardinality(places)
    BY <1>2, AtPlaces
  <2>2. At(all, places) = [n \in DOMAIN InOrder(places) |-> all[InOrder(places)[n]]]
    BY DEF At
  <2> HIDE DEF some
  <2>3. some = [n \in 1..Cardinality(places) |-> some[n]]
    BY <1>3, <2>1, <2>2
  <2> QED
    BY <2>1, <2>3, ListIf
<1>5. Accepted(c, field, v) = At(some, chosen)
  BY DEF Accepted
<1> HIDE DEF some
<1>6. chosen \in SUBSET Int /\ IsFiniteSet(chosen)
  <2>1. chosen \in SUBSET (1..Len(some)) /\ Len(some) \in Nat
    BY <1>4, ListsAre
  <2> QED
    BY <2>1, PlacesAreFinite
<1> HIDE DEF chosen
<1>7. IsList(Accepted(c, field, v))
  <2> DEFINE u == Accepted(c, field, v)
  <2>1. Cardinality(chosen) \in Nat /\ DOMAIN At(some, chosen) = 1..Cardinality(chosen)
    BY <1>6, AtPlaces
  <2>2. At(some, chosen) = [n \in DOMAIN InOrder(chosen) |-> some[InOrder(chosen)[n]]]
    BY DEF At
  <2>3. u = At(some, chosen)
    BY <1>5
  <2> HIDE DEF u
  <2>4. u = [n \in 1..Cardinality(chosen) |-> u[n]]
    BY <2>1, <2>2, <2>3
  <2>5. IsList(u)
    BY <2>1, <2>4, ListIf
  <2> QED
    BY <2>5 DEF u
<1> QED
  BY <1>4, <1>7 DEF some

\* What a row becomes: one row at least, each with its lineage; held or as kept as it was.
LEMMA ResolvedIs ==
  ASSUME NEW c \in Contracts, NEW field, NEW row, IsRow(row)
  PROVE  /\ IsList(Resolved(c, field, row)) /\ Len(Resolved(c, field, row)) # 0
         /\ \A n \in DOMAIN Resolved(c, field, row) :
              /\ IsRow(Resolved(c, field, row)[n]) /\ Resolved(c, field, row)[n].ids = row.ids
              /\ ~Resolved(c, field, row)[n].keep => ~row.keep \/ HoldRule(c, field, Cell(row, field)) # None
<1> DEFINE v == Cell(row, field)
           rule == HoldRule(c, field, v)
           chosen == Accepted(c, field, v)
           held == [row EXCEPT !.keep = FALSE]
           Mapping(n) == WithCell(WithCell(row, field, chosen[n].target), PairColumn, chosen[n].pair)
           some == [n \in DOMAIN chosen |-> Mapping(n)]
           table == Resolved(c, field, row)
<1>1. table = IF rule # None THEN <<held>> ELSE IF ~Mapped(c, field) THEN <<row>> ELSE some
  BY DEF Resolved
<1>2. \A e : IsList(<<e>>) /\ Len(<<e>>) = 1 /\ DOMAIN <<e>> = 1..1 /\ <<e>>[1] = e
  <2> TAKE e
  <2>1. <<e>> = [i \in 1..1 |-> <<e>>[i]]
    OBVIOUS
  <2> DEFINE s == <<e>>
  <2>2. IsList(s) /\ Len(s) = 1
    <3>1. s = [i \in 1..1 |-> s[i]] /\ 1 \in Nat
      BY <2>1
    <3> HIDE DEF s
    <3> QED
      BY <3>1, ListIf
  <2> QED
    BY <2>2
<1>3. CASE rule # None
  <2>1. IsRow(held) /\ held.ids = row.ids
    BY DEF IsRow
  <2>2. table = <<held>>
    BY <1>1, <1>3
  <2> HIDE DEF held, table
  <2>3. IsList(table) /\ Len(table) = 1 /\ \A n \in DOMAIN table : table[n] = held
    BY <1>2, <2>2
  <2> QED
    BY <1>3, <2>1, <2>3 DEF table
<1>4. CASE rule = None /\ ~Mapped(c, field)
  <2>1. table = <<row>>
    BY <1>1, <1>4
  <2> HIDE DEF table
  <2>2. IsList(table) /\ Len(table) = 1 /\ \A n \in DOMAIN table : table[n] = row
    BY <1>2, <2>1
  <2> QED
    BY <2>2 DEF table
<1>5. CASE rule = None /\ Mapped(c, field)
  <2>1. IsList(chosen)
    BY <1>5, RecordedIs
  <2>2. chosen # <<>>
    <3>1. v \notin Empty
      BY <1>5 DEF HoldRule, None
    <3>2. Recorded(c, field, v) # <<>>
      BY <1>5, <3>1 DEF HoldRule, None
    <3> QED
      BY <1>5, <3>1, <3>2 DEF HoldRule, None
  <2>3. Len(chosen) \in Nat /\ DOMAIN chosen = 1..Len(chosen) /\ Len(chosen) # 0
    BY <2>1, <2>2 DEF IsList
  <2>4. \A n \in DOMAIN chosen : IsRow(Mapping(n)) /\ Mapping(n).ids = row.ids /\ Mapping(n).keep = row.keep
    <3>1. "cell" \in DOMAIN row /\ "ids" \in DOMAIN row /\ "keep" \in DOMAIN row
      BY DEF IsRow
    <3> TAKE n \in DOMAIN chosen
    <3> DEFINE first == WithCell(row, field, chosen[n].target)
    <3>2. DOMAIN first = DOMAIN row /\ first.ids = row.ids /\ first.keep = row.keep
      BY <3>1, WithCellIs
    <3> HIDE DEF first
    <3>3. /\ DOMAIN WithCell(first, PairColumn, chosen[n].pair) = DOMAIN first
          /\ WithCell(first, PairColumn, chosen[n].pair).ids = first.ids
          /\ WithCell(first, PairColumn, chosen[n].pair).keep = first.keep
      BY <3>1, <3>2, WithCellIs
    <3>4. Mapping(n) = WithCell(first, PairColumn, chosen[n].pair)
      BY DEF first
    <3> HIDE DEF Mapping
    <3> QED
      BY <3>2, <3>3, <3>4 DEF IsRow
  <2>5. table = some
    BY <1>1, <1>5
  <2> HIDE DEF Mapping
  <2>6. some = [n \in 1..Len(chosen) |-> some[n]]
    BY <2>3
  <2>7. \A n \in DOMAIN some : IsRow(some[n]) /\ some[n].ids = row.ids /\ some[n].keep = row.keep
    BY <2>4
  <2> HIDE DEF some, table, chosen
  <2>8. IsList(some) /\ Len(some) = Len(chosen)
    BY <2>3, <2>6, ListIf
  <2> QED
    BY <2>3, <2>5, <2>7, <2>8 DEF table
<1> QED
  BY <1>3, <1>4, <1>5

\* A raw row is held if a record says so.
LEMMA HeldIdsAre ==
  ASSUME NEW a, NEW x
  PROVE  x \in HeldIds(a) <=> \E e \in ToSet(a.held) : e.id = x
BY DEF HeldIds, ToSet

\* The rows one key field holds out, their records, and the rows it leaves.
HeldRows(c, a, field) ==
  At(a.rows, {i \in DOMAIN a.rows : HoldRule(c, field, Cell(a.rows[i], field)) # None})
HeldNow(c, a, field) ==
  [i \in DOMAIN HeldRows(c, a, field) |->
     [field |-> field, id |-> Head(HeldRows(c, a, field)[i].ids),
      rule |-> HoldRule(c, field, Cell(HeldRows(c, a, field)[i], field))]]
RowsNow(c, a, field) == FlattenSeq([i \in DOMAIN a.rows |-> Resolved(c, field, a.rows[i])])

\* The records of the rows one key field holds out.
LEMMA HeldNowIs ==
  ASSUME NEW a, IsAcc(a), NEW c, NEW field
  PROVE  /\ IsList(HeldNow(c, a, field))
         /\ \A e \in ToSet(HeldNow(c, a, field)) : \E i \in DOMAIN a.rows : e.id = Head(a.rows[i].ids)
         /\ \A i \in DOMAIN a.rows : HoldRule(c, field, Cell(a.rows[i], field)) # None =>
              \E e \in ToSet(HeldNow(c, a, field)) : e.id = Head(a.rows[i].ids)
<1> DEFINE held == HeldRows(c, a, field)
           new == HeldNow(c, a, field)
           places == {i \in DOMAIN a.rows : HoldRule(c, field, Cell(a.rows[i], field)) # None}
<1>1. places \in SUBSET Int /\ IsFiniteSet(places) /\ places \subseteq DOMAIN a.rows
  <2>1. DOMAIN a.rows = 1..Len(a.rows) /\ Len(a.rows) \in Nat
    BY ListsAre DEF IsAcc
  <2>2. places \subseteq DOMAIN a.rows
    OBVIOUS
  <2> HIDE DEF places
  <2> QED
    BY <2>1, <2>2, PlacesAreFinite
<1>2. \A i \in DOMAIN a.rows : i \in places <=> HoldRule(c, field, Cell(a.rows[i], field)) # None
  OBVIOUS
<1>3. held = At(a.rows, places)
  BY DEF HeldRows
<1> HIDE DEF places, held
<1>4. /\ Cardinality(places) \in Nat /\ DOMAIN held = 1..Cardinality(places)
      /\ \A n \in DOMAIN held : \E i \in places : held[n] = a.rows[i]
      /\ \A i \in places : \E n \in DOMAIN held : held[n] = a.rows[i]
  BY <1>1, <1>3, AtPlaces
<1> DEFINE Entry(i) == [field |-> field, id |-> Head(held[i].ids),
                        rule |-> HoldRule(c, field, Cell(held[i], field))]
<1>11. new = [i \in DOMAIN held |-> Entry(i)]
  BY DEF HeldNow, held
<1>12. \A i : Entry(i).id = Head(held[i].ids)
  OBVIOUS
<1> HIDE DEF new, Entry
<1>5. DOMAIN new = DOMAIN held /\ \A n \in DOMAIN held : new[n].id = Head(held[n].ids)
  BY <1>11, <1>12
<1>6. new = [i \in 1..Cardinality(places) |-> new[i]]
  BY <1>4, <1>11
<1>7. IsList(new)
  BY <1>4, <1>6, ListIf
<1>8. ASSUME NEW e \in ToSet(new) PROVE \E i \in DOMAIN a.rows : e.id = Head(a.rows[i].ids)
  <2>1. PICK n \in DOMAIN new : e = new[n]
    BY <1>8 DEF ToSet
  <2> QED
    BY <1>1, <1>4, <1>5, <2>1
<1>9. ASSUME NEW i \in places PROVE \E e \in ToSet(new) : e.id = Head(a.rows[i].ids)
  <2>1. PICK n \in DOMAIN held : held[n] = a.rows[i]
    BY <1>4
  <2>2. new[n] \in ToSet(new)
    BY <1>5 DEF ToSet
  <2> QED
    BY <1>5, <2>1, <2>2
<1> QED
  BY <1>2, <1>7, <1>8, <1>9 DEF new

\* The rows one key field turns the rows into.
LEMMA RowsNowAre ==
  ASSUME NEW c \in Contracts, NEW a, IsAcc(a), NEW field
  PROVE  /\ IsList(RowsNow(c, a, field))
         /\ \A r \in ToSet(RowsNow(c, a, field)) : \E i \in DOMAIN a.rows :
              /\ IsRow(r) /\ r.ids = a.rows[i].ids
              /\ ~r.keep => ~a.rows[i].keep \/ HoldRule(c, field, Cell(a.rows[i], field)) # None
         /\ \A i \in DOMAIN a.rows : \E r \in ToSet(RowsNow(c, a, field)) : r.ids = a.rows[i].ids
<1> DEFINE out == RowsNow(c, a, field)
           parts == [i \in DOMAIN a.rows |-> Resolved(c, field, a.rows[i])]
           T == UNION {ToSet(parts[k]) : k \in DOMAIN a.rows}
<1>1. /\ DOMAIN parts = DOMAIN a.rows
      /\ \A i \in DOMAIN a.rows :
           /\ IsList(parts[i]) /\ Len(parts[i]) # 0
           /\ \A n \in DOMAIN parts[i] :
                /\ IsRow(parts[i][n]) /\ parts[i][n].ids = a.rows[i].ids
                /\ ~parts[i][n].keep => ~a.rows[i].keep \/ HoldRule(c, field, Cell(a.rows[i], field)) # None
  <2>1. \A i \in DOMAIN a.rows : IsRow(a.rows[i]) /\ parts[i] = Resolved(c, field, a.rows[i])
    BY DEF IsAcc
  <2>2. DOMAIN parts = DOMAIN a.rows
    OBVIOUS
  <2> HIDE DEF parts
  <2>3. ASSUME NEW i \in DOMAIN a.rows
        PROVE  /\ IsList(parts[i]) /\ Len(parts[i]) # 0
               /\ \A n \in DOMAIN parts[i] :
                    /\ IsRow(parts[i][n]) /\ parts[i][n].ids = a.rows[i].ids
                    /\ ~parts[i][n].keep => ~a.rows[i].keep \/ HoldRule(c, field, Cell(a.rows[i], field)) # None
    BY <2>1, ResolvedIs
  <2> QED
    BY <2>2, <2>3
<1>2. Len(a.rows) \in Nat /\ DOMAIN a.rows = 1..Len(a.rows)
  BY ListsAre DEF IsAcc
<1>3. out = FlattenSeq(parts) /\ parts = [i \in 1..Len(a.rows) |-> parts[i]]
  BY <1>2 DEF RowsNow
<1> HIDE DEF parts, out
<1>4. parts \in Seq(Seq(T))
  <2>1. ASSUME NEW i \in DOMAIN a.rows PROVE parts[i] \in Seq(T)
    <3> DEFINE s == parts[i]
    <3>1. Len(s) \in Nat /\ s = [n \in 1..Len(s) |-> s[n]] /\ DOMAIN s = 1..Len(s)
      BY <1>1, ListsAre
    <3>2. \A n \in DOMAIN s : s[n] \in T
      BY <1>1 DEF ToSet
    <3> HIDE DEF s, T
    <3>3. s \in [1..Len(s) -> T]
      BY <3>1, <3>2
    <3>4. s \in Seq(T)
      BY <3>1, <3>3
    <3> QED
      BY <3>4 DEF s
  <2> HIDE DEF T
  <2>2. parts \in [1..Len(a.rows) -> Seq(T)]
    BY <1>2, <1>3, <2>1
  <2> QED
    BY <1>2, <2>2
<1> HIDE DEF T
<1>5. /\ out \in Seq(T)
      /\ \A x : x \in ToSet(out) <=> \E k \in DOMAIN parts : x \in ToSet(parts[k])
  BY <1>3, <1>4, Flattened
<1>6. IsList(out)
  BY <1>5, SeqIsList
<1>7. ASSUME NEW r \in ToSet(out)
      PROVE  \E i \in DOMAIN a.rows :
              /\ IsRow(r) /\ r.ids = a.rows[i].ids
              /\ ~r.keep => ~a.rows[i].keep \/ HoldRule(c, field, Cell(a.rows[i], field)) # None
  <2>1. PICK k \in DOMAIN a.rows : r \in ToSet(parts[k])
    BY <1>1, <1>5
  <2>2. PICK n \in DOMAIN parts[k] : r = parts[k][n]
    BY <2>1 DEF ToSet
  <2> QED
    BY <1>1, <2>2
<1>8. ASSUME NEW i \in DOMAIN a.rows PROVE \E r \in ToSet(out) : r.ids = a.rows[i].ids
  <2>1. DOMAIN parts[i] = 1..Len(parts[i]) /\ Len(parts[i]) \in Nat /\ Len(parts[i]) # 0
    BY <1>1, ListsAre
  <2>2. 1 \in DOMAIN parts[i]
    BY <2>1
  <2>3. parts[i][1] \in ToSet(parts[i]) /\ parts[i][1].ids = a.rows[i].ids
    BY <1>1, <2>2 DEF ToSet
  <2> QED
    BY <1>1, <1>5, <2>3
<1> QED
  BY <1>6, <1>7, <1>8, SMT DEF out

\* A lineage of one raw row is that row.
LEMMA HeadOfOne ==
  ASSUME NEW ids \in Seq(Nat), Len(ids) = 1, NEW x PROVE x \in ToSet(ids) <=> x = Head(ids)
BY DEF ToSet

\* One key field: no row of the frame is lost.
LEMMA MapKeyFieldIs ==
  ASSUME NEW c \in Contracts, NEW a, IsAcc(a), NEW ids, Accounts(a, ids), NEW field
  PROVE  IsAcc(MapKeyField(c, a, field)) /\ Accounts(MapKeyField(c, a, field), ids)
<1> DEFINE new == HeldNow(c, a, field)
           out == RowsNow(c, a, field)
           cols == a.columns \union (IF Mapped(c, field) THEN {PairColumn} ELSE {})
           b == [columns |-> cols, rows |-> out, held |-> a.held \o new]
<1>1. CASE field \notin a.columns
  BY <1>1 DEF MapKeyField, MapRows
<1>2. CASE field \in a.columns
  <2>1. MapKeyField(c, a, field) = b
    BY <1>2 DEF MapKeyField, MapRows, HeldRows, HeldNow, RowsNow
  <2>2. /\ IsList(new)
        /\ \A e \in ToSet(new) : \E i \in DOMAIN a.rows : e.id = Head(a.rows[i].ids)
        /\ \A i \in DOMAIN a.rows : HoldRule(c, field, Cell(a.rows[i], field)) # None =>
              \E e \in ToSet(new) : e.id = Head(a.rows[i].ids)
    BY HeldNowIs
  <2>3. /\ IsList(out)
        /\ \A r \in ToSet(out) : \E i \in DOMAIN a.rows :
              /\ IsRow(r) /\ r.ids = a.rows[i].ids
              /\ ~r.keep => ~a.rows[i].keep \/ HoldRule(c, field, Cell(a.rows[i], field)) # None
        /\ \A i \in DOMAIN a.rows : \E r \in ToSet(out) : r.ids = a.rows[i].ids
    BY RowsNowAre
  <2> HIDE DEF new, out, cols
  <2>4. b.rows = out /\ b.held = a.held \o new /\ DOMAIN b = {"columns", "rows", "held"}
    OBVIOUS
  <2> HIDE DEF b
  <2>5. IsList(b.held) /\ ToSet(b.held) = ToSet(a.held) \union ToSet(new)
    BY <2>2, <2>4, JointLists DEF IsAcc
  <2>6. IsAcc(b)
    BY <2>3, <2>4, <2>5 DEF IsAcc, ToSet
  <2>7. \A i \in DOMAIN a.rows : \A x : x \in ToSet(a.rows[i].ids) <=> x = Head(a.rows[i].ids)
    BY HeadOfOne DEF IsAcc, IsRow
  <2>8. \A x : x \in IdsOf(b) <=> x \in IdsOf(a)
    <3> TAKE x
    <3>1. x \in IdsOf(b) <=> \E r \in ToSet(out) : x \in ToSet(r.ids)
      BY <2>4, IdsAre DEF ToSet
    <3>2. x \in IdsOf(a) <=> \E i \in DOMAIN a.rows : x \in ToSet(a.rows[i].ids)
      BY IdsAre
    <3> QED
      BY <2>3, <3>1, <3>2
  <2>9. \A x : x \in HeldIds(b) <=> x \in HeldIds(a) \/ \E e \in ToSet(new) : e.id = x
    BY <2>5, HeldIdsAre
  <2>10. HeldIds(b) \subseteq ids
    <3>1. \A i \in DOMAIN a.rows : Head(a.rows[i].ids) \in IdsOf(a)
      BY <2>7, IdsAre
    <3> QED
      BY <2>2, <2>9, <3>1 DEF Accounts
  <2>11. ASSUME NEW r \in ToSet(out), ~r.keep PROVE Head(r.ids) \in HeldIds(b)
    <3>1. PICK i \in DOMAIN a.rows :
              /\ r.ids = a.rows[i].ids
              /\ ~r.keep => ~a.rows[i].keep \/ HoldRule(c, field, Cell(a.rows[i], field)) # None
      BY <2>3
    <3>2. Head(a.rows[i].ids) \in HeldIds(b)
      BY <2>2, <2>9, <2>11, <3>1 DEF Accounts
    <3> QED
      BY <3>1, <3>2
  <2>12. Accounts(b, ids)
    BY <2>4, <2>8, <2>10, <2>11 DEF Accounts, ToSet
  <2> QED
    BY <2>1, <2>6, <2>12
<1> QED
  BY <1>1, <1>2

\* A contract's key fields are a list, one for each key.
LEMMA SourceKeysAre ==
  ASSUME NEW c \in Contracts
  PROVE  /\ IsList(SourceKeys(c)) /\ Len(SourceKeys(c)) = Len(c.keys) /\ Len(c.keys) \in Nat
         /\ DOMAIN SourceKeys(c) = 1..Len(c.keys)
<1>1. Len(c.keys) \in Nat /\ DOMAIN c.keys = 1..Len(c.keys)
  BY ContractsAssumption
<1> DEFINE s == SourceKeys(c)
<1>2. s = [i \in 1..Len(c.keys) |-> c.keys[i].source]
  BY <1>1 DEF SourceKeys
<1> HIDE DEF s
<1>3. s = [i \in 1..Len(c.keys) |-> s[i]] /\ DOMAIN s = 1..Len(c.keys)
  BY <1>2
<1>4. IsList(s) /\ Len(s) = Len(c.keys)
  BY <1>1, <1>3, ListIf
<1> QED
  BY <1>1, <1>3, <1>4 DEF s

\* The fields one by one, in the order of the contract.
LEMMA MapKeyFieldsExist ==
  ASSUME NEW c \in Contracts, NEW f
  PROVE  \E g : /\ g[0] = Unmapped(f)
                /\ \A n \in 1..Len(SourceKeys(c)) : g[n] = MapKeyField(c, g[n - 1], SourceKeys(c)[n])
                /\ MapKeyFields(c, f) = g[Len(SourceKeys(c))]
<1> DEFINE N == Len(SourceKeys(c))
           Turn(g, n) == IF n = 0 THEN Unmapped(f) ELSE MapKeyField(c, g[n - 1], SourceKeys(c)[n])
           Good(k) == \E g : g = [n \in 0..k |-> Turn(g, n)]
<1>1. N \in Nat
  BY SourceKeysAre
<1>2. Good(0)
  <2> DEFINE g == [n \in 0..0 |-> Unmapped(f)]
  <2>1. g = [n \in 0..0 |-> Turn(g, n)]
    <3>1. \A n \in 0..0 : g[n] = Turn(g, n)
      OBVIOUS
    <3> HIDE DEF Turn
    <3> QED
      BY <3>1
  <2> QED
    BY <2>1
<1>3. ASSUME NEW k \in Nat \ {0}, Good(k - 1) PROVE Good(k)
  <2>1. PICK h : h = [n \in 0..(k - 1) |-> Turn(h, n)]
    BY <1>3
  <2> DEFINE g == [n \in 0..k |-> IF n = k THEN Turn(h, k) ELSE h[n]]
  <2>2. \A n \in 0..(k - 1) : h[n] = Turn(h, n)
    <3> HIDE DEF Turn
    <3> QED
      BY <2>1
  <2>3. ASSUME NEW n \in 0..k PROVE g[n] = Turn(g, n)
    <3>1. CASE n = 0
      <4>1. n \in 0..(k - 1) /\ n # k
        BY <3>1
      <4>2. g[n] = h[n]
        BY <4>1
      <4>3. h[n] = Unmapped(f)
        BY <2>2, <3>1, <4>1
      <4> QED
        BY <3>1, <4>2, <4>3
    <3>2. CASE n # 0
      <4>1. n - 1 \in 0..(k - 1) /\ n - 1 \in 0..k /\ n - 1 # k
        BY <3>2
      <4>2. g[n - 1] = h[n - 1]
        BY <4>1
      <4>3. Turn(g, n) = Turn(h, n)
        BY <3>2, <4>2
      <4>4. n # k => n \in 0..(k - 1)
        OBVIOUS
      <4>5. g[n] = IF n = k THEN Turn(h, k) ELSE h[n]
        OBVIOUS
      <4> HIDE DEF Turn, g
      <4> QED
        BY <2>2, <4>3, <4>4, <4>5
    <3> QED
      BY <3>1, <3>2
  <2>4. g = [n \in 0..k |-> Turn(g, n)]
    <3>1. g = [n \in 0..k |-> g[n]]
      OBVIOUS
    <3> HIDE DEF g, Turn
    <3> QED
      BY <2>3, <3>1
  <2> QED
    BY <2>4
<1>4. Good(N)
  <2> HIDE DEF Good, N
  <2> SUFFICES ASSUME ~Good(N) PROVE FALSE
    OBVIOUS
  <2> DEFINE W == {k \in 0..N : ~Good(k)}
  <2>1. W \subseteq Nat /\ W # {}
    BY <1>1
  <2>2. PICK k \in W : \A i \in W : k <= i
    <3> HIDE DEF W
    <3> QED
      BY <2>1, Smallest
  <2>3. k \in Nat \ {0} /\ Good(k - 1)
    BY <1>1, <1>2, <2>2
  <2> QED
    BY <1>3, <2>2, <2>3
<1> DEFINE g == CHOOSE e : e = [n \in 0..N |-> Turn(e, n)]
<1>5. MapKeyFields(c, f) = g[N]
  BY DEF MapKeyFields
<1>6. g = [n \in 0..N |-> Turn(g, n)]
  <2> HIDE DEF Turn, N
  <2> QED
    BY <1>4
<1> HIDE DEF g
<1>7. \A n \in 0..N : g[n] = Turn(g, n)
  <2> HIDE DEF Turn, N
  <2> QED
    BY <1>6
<1>8. g[0] = Unmapped(f)
  BY <1>1, <1>7
<1>9. \A n \in 1..N : g[n] = MapKeyField(c, g[n - 1], SourceKeys(c)[n])
  BY <1>1, <1>7
<1> QED
  BY <1>5, <1>8, <1>9

\* Before any field is mapped every row is kept.
LEMMA UnmappedIs ==
  ASSUME NEW f, IsFrame(f), Singles(f)
  PROVE  /\ IsAcc(Unmapped(f)) /\ Accounts(Unmapped(f), IdsOf(f))
         /\ Unmapped(f).columns = f.columns
<1> DEFINE Opened(i) == [cell |-> f.rows[i].cell, ids |-> f.rows[i].ids, keep |-> TRUE]
           table == [i \in DOMAIN f.rows |-> Opened(i)]
           a == Unmapped(f)
           none == <<>>
<1>1. a = [columns |-> f.columns, held |-> none, rows |-> table]
  BY DEF Unmapped, MapRows
<1>2. \A i \in DOMAIN f.rows : DOMAIN Opened(i) = {"cell", "ids", "keep"} /\ Opened(i).ids = f.rows[i].ids
                               /\ Opened(i).keep = TRUE
  OBVIOUS
<1>3. PICK n \in Nat : DOMAIN f.rows = 1..n
  BY DEF IsFrame
<1> HIDE DEF Opened
<1>4. DOMAIN table = DOMAIN f.rows /\ \A i \in DOMAIN f.rows : table[i] = Opened(i)
  OBVIOUS
<1>5. table = [i \in 1..n |-> table[i]]
  BY <1>3
<1> HIDE DEF table
<1>6. IsList(table)
  BY <1>3, <1>5, ListIf
<1>7. IsList(none)
  <2>1. none \in Seq({})
    OBVIOUS
  <2> HIDE DEF none
  <2> QED
    BY <2>1, SeqIsList
<1>8. DOMAIN none = {}
  OBVIOUS
<1> HIDE DEF none, a
<1>9. DOMAIN a = {"columns", "rows", "held"} /\ a.rows = table /\ a.held = none /\ a.columns = f.columns
  BY <1>1
<1>10. \A i \in DOMAIN f.rows : IsRow(table[i])
  BY <1>2, <1>4 DEF IsRow, IsFrame, Singles
<1>11. IsAcc(a)
  BY <1>4, <1>6, <1>7, <1>9, <1>10 DEF IsAcc
<1>12. \A x : x \in IdsOf(a) <=> x \in IdsOf(f)
  BY <1>2, <1>4, <1>9, IdsAre
<1>13. HeldIds(a) = {}
  BY <1>8, <1>9 DEF HeldIds
<1>14. IdsOf(a) = IdsOf(f)
  BY <1>12
<1>15. Accounts(a, IdsOf(f))
  BY <1>2, <1>4, <1>9, <1>13, <1>14 DEF Accounts
<1> QED
  BY <1>9, <1>11, <1>15 DEF a

\* All key fields: no row of the frame is lost.
LEMMA MapKeyFieldsIs ==
  ASSUME NEW c \in Contracts, NEW f, IsFrame(f), Singles(f)
  PROVE  IsAcc(MapKeyFields(c, f)) /\ Accounts(MapKeyFields(c, f), IdsOf(f))
<1> DEFINE N == Len(SourceKeys(c))
<1>1. PICK g : /\ g[0] = Unmapped(f)
               /\ \A n \in 1..N : g[n] = MapKeyField(c, g[n - 1], SourceKeys(c)[n])
               /\ MapKeyFields(c, f) = g[N]
  BY MapKeyFieldsExist
<1>2. N \in Nat
  BY SourceKeysAre
<1> DEFINE Good(k) == IsAcc(g[k]) /\ Accounts(g[k], IdsOf(f))
<1>3. Good(0)
  BY <1>1, UnmappedIs
<1>4. ASSUME NEW k \in 1..N, Good(k - 1) PROVE Good(k)
  BY <1>1, <1>4, MapKeyFieldIs
<1> HIDE DEF Good, N
<1>5. Good(N)
  <2> SUFFICES ASSUME ~Good(N) PROVE FALSE
    OBVIOUS
  <2> DEFINE W == {k \in 0..N : ~Good(k)}
  <2>1. W \subseteq Nat /\ W # {}
    BY <1>2
  <2>2. PICK k \in W : \A i \in W : k <= i
    <3> HIDE DEF W
    <3> QED
      BY <2>1, Smallest
  <2>3. k \in 1..N /\ Good(k - 1)
    BY <1>2, <1>3, <2>2
  <2> QED
    BY <1>4, <2>2, <2>3
<1> QED
  BY <1>1, <1>5 DEF Good

\* The rows that are left: what is not among them is held.
LEMMA KeptRowsIs ==
  ASSUME NEW a, IsAcc(a), NEW ids, Accounts(a, ids)
  PROVE  /\ IsFrame(KeptRows(a)) /\ KeptRows(a).columns = a.columns
         /\ IdsOf(KeptRows(a)) \subseteq ids /\ ids \subseteq IdsOf(KeptRows(a)) \union HeldIds(a)
<1> DEFINE places == {i \in DOMAIN a.rows : a.rows[i].keep}
           kept == At(a.rows, places)
           table == [i \in DOMAIN kept |-> [cell |-> kept[i].cell, ids |-> kept[i].ids]]
           f == KeptRows(a)
<1>1. places \in SUBSET Int /\ IsFiniteSet(places) /\ places \subseteq DOMAIN a.rows
  <2>1. DOMAIN a.rows = 1..Len(a.rows) /\ Len(a.rows) \in Nat
    BY ListsAre DEF IsAcc
  <2>2. places \subseteq DOMAIN a.rows
    OBVIOUS
  <2> HIDE DEF places
  <2> QED
    BY <2>1, <2>2, PlacesAreFinite
<1>2. \A i \in DOMAIN a.rows : i \in places <=> a.rows[i].keep
  OBVIOUS
<1>3. f = [columns |-> a.columns, rows |-> table]
  BY DEF KeptRows
<1> HIDE DEF places
<1>4. /\ Cardinality(places) \in Nat /\ DOMAIN kept = 1..Cardinality(places)
      /\ \A n \in DOMAIN kept : \E i \in places : kept[n] = a.rows[i]
      /\ \A i \in places : \E n \in DOMAIN kept : kept[n] = a.rows[i]
  BY <1>1, AtPlaces
<1> HIDE DEF kept
<1>5. DOMAIN table = DOMAIN kept /\ \A i \in DOMAIN kept : DOMAIN table[i] = {"cell", "ids"} /\ table[i].ids = kept[i].ids
  OBVIOUS
<1> HIDE DEF table, f
<1>6. DOMAIN f = {"columns", "rows"} /\ f.rows = table /\ f.columns = a.columns
  BY <1>3
<1>7. IsFrame(f)
  <2>1. \A i \in DOMAIN table : DOMAIN table[i] = {"cell", "ids"} /\ table[i].ids \in Seq(Nat)
    BY <1>1, <1>4, <1>5 DEF IsAcc, IsRow
  <2>2. \E n \in Nat : DOMAIN table = 1..n
    BY <1>4, <1>5
  <2> QED
    BY <1>6, <2>1, <2>2 DEF IsFrame
<1>8. IdsOf(f) \subseteq ids
  <2>1. ASSUME NEW x \in IdsOf(f) PROVE x \in IdsOf(a)
    <3>1. PICK i \in DOMAIN table : x \in ToSet(table[i].ids)
      BY <1>6, <2>1, IdsAre
    <3>2. PICK j \in places : kept[i] = a.rows[j]
      BY <1>4, <1>5
    <3>3. j \in DOMAIN a.rows /\ x \in ToSet(a.rows[j].ids)
      BY <1>1, <1>5, <3>1, <3>2
    <3> QED
      BY <3>3, IdsAre
  <2> QED
    BY <2>1 DEF Accounts
<1>9. ASSUME NEW x \in ids PROVE x \in IdsOf(f) \union HeldIds(a)
  <2>1. PICK j \in DOMAIN a.rows : x \in ToSet(a.rows[j].ids)
    BY <1>9, IdsAre DEF Accounts
  <2>2. CASE a.rows[j].keep
    <3>1. PICK n \in DOMAIN kept : kept[n] = a.rows[j]
      BY <1>2, <1>4, <2>2
    <3>2. n \in DOMAIN f.rows /\ x \in ToSet(f.rows[n].ids)
      BY <1>5, <1>6, <2>1, <3>1
    <3> QED
      BY <3>2, IdsAre
  <2>3. CASE ~a.rows[j].keep
    <3>1. x = Head(a.rows[j].ids)
      BY <2>1, HeadOfOne DEF IsAcc, IsRow
    <3> QED
      BY <2>3, <3>1 DEF Accounts
  <2> QED
    BY <2>2, <2>3
<1> QED
  BY <1>6, <1>7, <1>8, <1>9 DEF f

------------------------------------------------------------------------------
(* The executor, step by step.                                             *)

\* A build with a frame in it.
IsBuild(b) ==
  DOMAIN b = {"frame", "held", "stats", "raised", "nulled"} /\ IsFrame(b.frame) /\ IsList(b.stats)

\* No raw row is lost but under a null, and none that a filter dropped comes back.
Accounted(b, ids) ==
  /\ ids = IdsOf(b.frame) \union Explained(b) \union b.nulled
  /\ IdsOf(b.frame) \cap FilteredOut(b) = {}

\* Nothing was collapsed or held out yet.
Untouched(b) == Singles(b.frame) /\ HeldIds(b) = {}

\* An operation of the registry.
IsOp(o) == o.op \in Registry

\* Explained is what is held out or filtered.
LEMMA ExplainedIs == ASSUME NEW b PROVE Explained(b) = HeldIds(b) \union FilteredOut(b)
BY DEF Explained, HeldIds, FilteredOut

\* A raw row was filtered if the record of a filter says so.
LEMMA FilteredOutIs ==
  ASSUME NEW b, NEW x
  PROVE  x \in FilteredOut(b) <=>
           \E i \in DOMAIN b.stats : b.stats[i].kind = "filter" /\ x \in b.stats[i].applied
BY DEF FilteredOut

\* The kinds of the registry's operations.
LEMMA KindIs ==
  ASSUME NEW o, IsOp(o)
  PROVE  /\ Kind(o) \in {"filter", "transform", "aggregate"}
         /\ Kind(o) = "transform" <=> o.op \in TransformNames
         /\ o.op \notin {"value_mappings", "aggregation_rules"}
<1>1. CASE o.op \in {"exclude_value", "reject_null"}
  BY <1>1 DEF Kind, TransformNames
<1>2. CASE o.op \in {"value_mapping", "calculated_column", "rename_field"}
  BY <1>2 DEF Kind, TransformNames
<1>3. CASE o.op \in {"sum_aggregate", "deduplicate"}
  BY <1>3 DEF Kind, TransformNames
<1> QED
  BY <1>1, <1>2, <1>3 DEF IsOp, Registry

\* What a step records of itself.
LEMMA WithStatIs ==
  ASSUME NEW b, IsBuild(b), NEW o, NEW f, IsFrame(f), NEW applied
  PROVE  /\ IsBuild(WithStat(b, o, f, applied)) /\ WithStat(b, o, f, applied).frame = f
         /\ WithStat(b, o, f, applied).raised = b.raised
         /\ WithStat(b, o, f, applied).nulled = b.nulled
         /\ HeldIds(WithStat(b, o, f, applied)) = HeldIds(b)
         /\ FilteredOut(WithStat(b, o, f, applied))
              = FilteredOut(b) \union (IF Kind(o) = "filter" THEN applied ELSE {})
<1> DEFINE stat == [op |-> o.op, kind |-> Kind(o), applied |-> applied]
           stats == Append(b.stats, stat)
           d == WithStat(b, o, f, applied)
<1>1. /\ Len(b.stats) \in Nat /\ DOMAIN b.stats = 1..Len(b.stats)
      /\ b.stats \in Seq(ToSet(b.stats))
  BY ListsAre DEF IsBuild, IsList
<1>2. stat.kind = Kind(o) /\ stat.applied = applied
  OBVIOUS
<1>3. d = [b EXCEPT !.frame = f, !.stats = stats]
  BY DEF WithStat
<1> HIDE DEF stat
<1>4. /\ DOMAIN stats = 1..(Len(b.stats) + 1) /\ stats[Len(b.stats) + 1] = stat
      /\ \A i \in 1..Len(b.stats) : stats[i] = b.stats[i]
      /\ stats = [i \in 1..(Len(b.stats) + 1) |-> stats[i]]
  BY <1>1
<1> HIDE DEF stats, d
<1>5. IsList(stats)
  BY <1>1, <1>4, ListIf
<1>6. /\ DOMAIN d = {"frame", "held", "stats", "raised", "nulled"}
      /\ d.frame = f /\ d.stats = stats /\ d.held = b.held /\ d.raised = b.raised
      /\ d.nulled = b.nulled
  BY <1>3 DEF IsBuild
<1>7. \A x : x \in FilteredOut(d) <=> x \in FilteredOut(b) \/ (Kind(o) = "filter" /\ x \in applied)
  <2> TAKE x
  <2>1. x \in FilteredOut(d) <=> \E i \in DOMAIN stats : stats[i].kind = "filter" /\ x \in stats[i].applied
    BY <1>6, FilteredOutIs
  <2>2. x \in FilteredOut(b) <=> \E i \in DOMAIN b.stats : b.stats[i].kind = "filter" /\ x \in b.stats[i].applied
    BY FilteredOutIs
  <2>3. \A i \in DOMAIN stats : i \in DOMAIN b.stats \/ i = Len(b.stats) + 1
    BY <1>1, <1>4
  <2>4. \A i \in DOMAIN b.stats : i \in DOMAIN stats
    BY <1>1, <1>4
  <2>5. Len(b.stats) + 1 \in DOMAIN stats
    BY <1>1, <1>4
  <2> QED
    BY <1>1, <1>2, <1>4, <2>1, <2>2, <2>3, <2>4, <2>5
<1>8. FilteredOut(d) = FilteredOut(b) \union (IF Kind(o) = "filter" THEN applied ELSE {})
  BY <1>7
<1>9. HeldIds(d) = HeldIds(b)
  BY <1>6 DEF HeldIds
<1> QED
  BY <1>5, <1>6, <1>8, <1>9 DEF IsBuild, d

\* A step that raises leaves everything as it was.
LEMMA FaultLeaves ==
  ASSUME NEW c, NEW b, IsBuild(b), b.raised = None, NEW o, Fault(c, o, b.frame) # None
  PROVE  LET d == Applied(c, b, o)
         IN  /\ IsBuild(d) /\ d.raised = Fault(c, o, b.frame) /\ d.frame = b.frame
             /\ HeldIds(d) = HeldIds(b) /\ FilteredOut(d) = FilteredOut(b) /\ d.nulled = b.nulled
<1> DEFINE fault == Fault(c, o, b.frame)
           d == [b EXCEPT !.raised = fault]
<1>1. Applied(c, b, o) = d
  BY DEF Applied
<1> HIDE DEF fault
<1>2. /\ DOMAIN d = {"frame", "held", "stats", "raised", "nulled"} /\ d.raised = fault
      /\ d.frame = b.frame /\ d.held = b.held /\ d.stats = b.stats /\ d.nulled = b.nulled
  BY DEF IsBuild
<1> HIDE DEF d
<1>3. HeldIds(d) = HeldIds(b) /\ FilteredOut(d) = FilteredOut(b)
  BY <1>2 DEF HeldIds, FilteredOut
<1> QED
  BY <1>1, <1>2, <1>3 DEF IsBuild, fault

\* An exception is for want of a column or on a value.
LEMMA FaultIs == ASSUME NEW c, NEW o, NEW f
                 PROVE  /\ Fault(c, o, f) \in {None, "column", "value"}
                        /\ Fault(c, o, f) = "column" <=> ColumnMissing(c, o, f)
BY DEF Fault, None

\* A step that does not raise does what its operation does.
LEMMA AppliedIs ==
  ASSUME NEW c, NEW b, b.raised = None, NEW o, Fault(c, o, b.frame) = None
  PROVE  /\ IsOp(o) => Applied(c, b, o) = Operated(b, o)
         /\ o.op = "value_mappings" => Applied(c, b, o) = ValuesMapped(c, b)
         /\ o.op = "aggregation_rules" => Applied(c, b, o) = RulesApplied(c, b)
<1>1. Applied(c, b, o) =
        IF o.op = "value_mappings" THEN ValuesMapped(c, b)
        ELSE IF o.op = "aggregation_rules" THEN RulesApplied(c, b)
        ELSE Operated(b, o)
  BY DEF Applied
<1>2. IsOp(o) => o.op \notin {"value_mappings", "aggregation_rules"}
  BY KindIs
<1> QED
  BY <1>1, <1>2

\* What an operation makes of the build, by its kind.
LEMMA OperatedIs ==
  ASSUME NEW b, NEW o, IsOp(o)
  PROVE  /\ Kind(o) = "filter" =>
              Operated(b, o) = WithStat(b, o, Filtered(b.frame, o), IdsOf(b.frame) \ IdsOf(Filtered(b.frame, o)))
         /\ Kind(o) = "transform" =>
              Operated(b, o) = WithStat(b, o, Transformed(b.frame, o), Changed(b.frame, Transformed(b.frame, o), o))
         /\ Kind(o) = "aggregate" =>
              Operated(b, o) = [WithStat(b, o, Aggregated(b.frame, o), IdsOf(Aggregated(b.frame, o)))
                                  EXCEPT !.nulled = @ \union NullKeyed(b.frame, o.by)]
<1> DEFINE A == WithStat(b, o, Filtered(b.frame, o), IdsOf(b.frame) \ IdsOf(Filtered(b.frame, o)))
           B == WithStat(b, o, Transformed(b.frame, o), Changed(b.frame, Transformed(b.frame, o), o))
           C == [WithStat(b, o, Aggregated(b.frame, o), IdsOf(Aggregated(b.frame, o)))
                   EXCEPT !.nulled = @ \union NullKeyed(b.frame, o.by)]
<1>1. Operated(b, o) = CASE Kind(o) = "filter" -> A [] Kind(o) = "transform" -> B [] Kind(o) = "aggregate" -> C
  BY DEF Operated
<1> HIDE DEF A, B, C
<1>2. /\ Kind(o) = "filter" => Operated(b, o) = A
      /\ Kind(o) = "transform" => Operated(b, o) = B
      /\ Kind(o) = "aggregate" => Operated(b, o) = C
  BY <1>1
<1> QED
  BY <1>2 DEF A, B, C

\* What a step that raises nothing makes of the build, by the kind of its operation.
LEMMA FilterApplied ==
  ASSUME NEW c, NEW b, b.raised = None, NEW o, IsOp(o), Fault(c, o, b.frame) = None,
         Kind(o) = "filter", NEW f, f = b.frame
  PROVE  Applied(c, b, o) =
           WithStat(b, o, Filtered(f, o), IdsOf(f) \ IdsOf(Filtered(f, o)))
<1>1. Applied(c, b, o) = Operated(b, o)
  BY AppliedIs
<1> DEFINE A == WithStat(b, o, Filtered(f, o), IdsOf(f) \ IdsOf(Filtered(f, o)))
           B == WithStat(b, o, Transformed(f, o), Changed(f, Transformed(f, o), o))
           C == [WithStat(b, o, Aggregated(f, o), IdsOf(Aggregated(f, o)))
                   EXCEPT !.nulled = @ \union NullKeyed(f, o.by)]
<1>2. Operated(b, o) = CASE Kind(o) = "filter" -> A [] Kind(o) = "transform" -> B [] Kind(o) = "aggregate" -> C
  BY DEF Operated
<1> HIDE DEF A, B, C
<1>3. Applied(c, b, o) = A
  BY <1>1, <1>2
<1> QED
  BY <1>3 DEF A

LEMMA TransformApplied ==
  ASSUME NEW c, NEW b, b.raised = None, NEW o, IsOp(o), Fault(c, o, b.frame) = None,
         Kind(o) = "transform", NEW f, f = b.frame
  PROVE  Applied(c, b, o) =
           WithStat(b, o, Transformed(f, o), Changed(f, Transformed(f, o), o))
<1>1. Applied(c, b, o) = Operated(b, o)
  BY AppliedIs
<1> DEFINE A == WithStat(b, o, Filtered(f, o), IdsOf(f) \ IdsOf(Filtered(f, o)))
           B == WithStat(b, o, Transformed(f, o), Changed(f, Transformed(f, o), o))
           C == [WithStat(b, o, Aggregated(f, o), IdsOf(Aggregated(f, o)))
                   EXCEPT !.nulled = @ \union NullKeyed(f, o.by)]
<1>2. Operated(b, o) = CASE Kind(o) = "filter" -> A [] Kind(o) = "transform" -> B [] Kind(o) = "aggregate" -> C
  BY DEF Operated
<1> HIDE DEF A, B, C
<1>3. Applied(c, b, o) = B
  BY <1>1, <1>2
<1> QED
  BY <1>3 DEF B

LEMMA AggregateApplied ==
  ASSUME NEW c, NEW b, b.raised = None, NEW o, IsOp(o), Fault(c, o, b.frame) = None,
         Kind(o) = "aggregate", NEW f, f = b.frame
  PROVE  Applied(c, b, o) =
           [WithStat(b, o, Aggregated(f, o), IdsOf(Aggregated(f, o)))
                   EXCEPT !.nulled = @ \union NullKeyed(f, o.by)]
<1>1. Applied(c, b, o) = Operated(b, o)
  BY AppliedIs
<1> DEFINE A == WithStat(b, o, Filtered(f, o), IdsOf(f) \ IdsOf(Filtered(f, o)))
           B == WithStat(b, o, Transformed(f, o), Changed(f, Transformed(f, o), o))
           C == [WithStat(b, o, Aggregated(f, o), IdsOf(Aggregated(f, o)))
                   EXCEPT !.nulled = @ \union NullKeyed(f, o.by)]
<1>2. Operated(b, o) = CASE Kind(o) = "filter" -> A [] Kind(o) = "transform" -> B [] Kind(o) = "aggregate" -> C
  BY DEF Operated
<1> HIDE DEF A, B, C
<1>3. Applied(c, b, o) = C
  BY <1>1, <1>2
<1> QED
  BY <1>3 DEF C

\* A build of which only the nulled rows, or the frame too, were replaced.
LEMMA RenulledOnly ==
  ASSUME NEW e, IsBuild(e), NEW under
  PROVE  LET d == [e EXCEPT !.nulled = @ \union under]
         IN  /\ IsBuild(d) /\ d.frame = e.frame /\ d.nulled = e.nulled \union under
             /\ HeldIds(d) = HeldIds(e) /\ FilteredOut(d) = FilteredOut(e)
<1> DEFINE d == [e EXCEPT !.nulled = @ \union under]
<1>1. DOMAIN e = {"frame", "held", "stats", "raised", "nulled"} /\ IsList(e.stats) /\ IsFrame(e.frame)
  BY DEF IsBuild
<1>2. /\ DOMAIN d = {"frame", "held", "stats", "raised", "nulled"} /\ d.frame = e.frame
      /\ d.nulled = e.nulled \union under /\ d.held = e.held /\ d.stats = e.stats
  BY <1>1
<1> HIDE DEF d
<1>3. IsBuild(d)
  BY <1>1, <1>2 DEF IsBuild
<1>4. HeldIds(d) = HeldIds(e) /\ FilteredOut(d) = FilteredOut(e)
  BY <1>2 DEF HeldIds, FilteredOut
<1> QED
  BY <1>2, <1>3, <1>4 DEF d

Regrouped(e, g, under) == [e EXCEPT !.frame = g, !.nulled = @ \union under]

LEMMA RegroupedIs ==
  ASSUME NEW e, IsBuild(e), NEW g, IsFrame(g), NEW under, NEW d, d = Regrouped(e, g, under)
  PROVE  /\ IsBuild(d) /\ d.frame = g /\ d.nulled = e.nulled \union under
         /\ HeldIds(d) = HeldIds(e) /\ FilteredOut(d) = FilteredOut(e)
<1>1. DOMAIN e = {"frame", "held", "stats", "raised", "nulled"} /\ IsList(e.stats)
  BY DEF IsBuild
<1>2. /\ DOMAIN d = {"frame", "held", "stats", "raised", "nulled"} /\ d.frame = g
      /\ d.nulled = e.nulled \union under /\ d.held = e.held /\ d.stats = e.stats
  BY <1>1 DEF Regrouped
<1>3. IsBuild(d)
  BY <1>1, <1>2 DEF IsBuild
<1>4. HeldIds(d) = HeldIds(e) /\ FilteredOut(d) = FilteredOut(e)
  BY <1>2 DEF HeldIds, FilteredOut
<1> QED
  BY <1>2, <1>3, <1>4

\* An operation of the registry.
LEMMA OperationAccounts ==
  ASSUME NEW c, NEW b, IsBuild(b), NEW ids, Accounted(b, ids), NEW o, IsOp(o), b.raised = None
  PROVE  /\ IsBuild(Applied(c, b, o)) /\ Accounted(Applied(c, b, o), ids)
         /\ Untouched(b) /\ Kind(o) # "aggregate" => Untouched(Applied(c, b, o))
<1> DEFINE f == b.frame
           d == Applied(c, b, o)
<1>1. /\ Kind(o) \in {"filter", "transform", "aggregate"}
      /\ Kind(o) = "transform" <=> o.op \in TransformNames
  BY KindIs
<1>2. IsFrame(f)
  BY DEF IsBuild
<1>3. ids = IdsOf(f) \union HeldIds(b) \union FilteredOut(b) \union b.nulled /\ IdsOf(f) \cap FilteredOut(b) = {}
  BY ExplainedIs DEF Accounted
<1>4. CASE Fault(c, o, f) # None
  <2> HIDE DEF d
  <2>1. /\ IsBuild(d) /\ d.frame = f /\ d.nulled = b.nulled
        /\ HeldIds(d) = HeldIds(b) /\ FilteredOut(d) = FilteredOut(b)
    BY <1>4, FaultLeaves DEF d
  <2> QED
    BY <1>3, <2>1, ExplainedIs DEF Accounted, Untouched, d
<1>5. CASE Fault(c, o, f) = None /\ Kind(o) = "filter"
  <2> DEFINE g == Filtered(f, o)
             gone == IdsOf(f) \ IdsOf(g)
  <2>1. IsFrame(g) /\ IdsOf(g) \subseteq IdsOf(f) /\ (Singles(f) => Singles(g))
    BY <1>2, FilteredIs
  <2>2. d = WithStat(b, o, g, gone)
    BY <1>5, FilterApplied
  <2> HIDE DEF g, d
  <2>3. /\ IsBuild(d) /\ d.frame = g /\ HeldIds(d) = HeldIds(b) /\ d.nulled = b.nulled
        /\ FilteredOut(d) = FilteredOut(b) \union gone
    BY <1>5, <2>1, <2>2, WithStatIs
  <2>4. Accounted(d, ids)
    <3>1. Explained(d) = HeldIds(b) \union FilteredOut(b) \union gone
      BY <2>3, ExplainedIs
    <3> QED
      BY <1>3, <2>1, <2>3, <3>1 DEF Accounted
  <2> QED
    BY <2>1, <2>3, <2>4 DEF Untouched, d
<1>6. CASE Fault(c, o, f) = None /\ Kind(o) = "transform"
  <2> DEFINE g == Transformed(f, o)
             applied == Changed(f, g, o)
  <2>1. IsFrame(g) /\ IdsOf(g) = IdsOf(f) /\ (Singles(f) => Singles(g))
    BY <1>1, <1>2, <1>6, TransformedIs
  <2>2. d = WithStat(b, o, g, applied)
    BY <1>6, TransformApplied
  <2> HIDE DEF g, applied, d
  <2>3. /\ IsBuild(d) /\ d.frame = g /\ HeldIds(d) = HeldIds(b) /\ d.nulled = b.nulled
        /\ FilteredOut(d) = FilteredOut(b)
    <3>1. Kind(o) # "filter"
      BY <1>6
    <3> QED
      BY <2>1, <2>2, <3>1, WithStatIs
  <2> QED
    BY <1>3, <2>1, <2>3, ExplainedIs DEF Accounted, Untouched, d
<1>7. CASE Fault(c, o, f) = None /\ Kind(o) = "aggregate"
  <2> DEFINE g == Aggregated(f, o)
             e == WithStat(b, o, g, IdsOf(g))
             under == NullKeyed(f, o.by)
  <2>1. /\ IsFrame(g) /\ IdsOf(g) \subseteq IdsOf(f) /\ IdsOf(f) \subseteq IdsOf(g) \union under
        /\ under \subseteq IdsOf(f)
    BY <1>2, AggregatedIs, NullKeyedAreRows
  <2>2. d = [e EXCEPT !.nulled = @ \union under]
    BY <1>7, AggregateApplied
  <2> HIDE DEF g, d, under
  <2>3. /\ IsBuild(e) /\ e.frame = g /\ HeldIds(e) = HeldIds(b) /\ e.nulled = b.nulled
        /\ FilteredOut(e) = FilteredOut(b)
    <3>1. Kind(o) # "filter"
      BY <1>7
    <3> QED
      BY <2>1, <3>1, WithStatIs
  <2> HIDE DEF e
  <2>4. /\ IsBuild(d) /\ d.frame = g /\ d.nulled = e.nulled \union under
        /\ HeldIds(d) = HeldIds(e) /\ FilteredOut(d) = FilteredOut(e)
    BY <2>2, <2>3, RenulledOnly
  <2> QED
    BY <1>3, <1>7, <2>1, <2>3, <2>4, ExplainedIs DEF Accounted, d
<1> QED
  BY <1>1, <1>4, <1>5, <1>6, <1>7

\* The value mapping, on rows that nothing collapsed.
LEMMA MappingAccounts ==
  ASSUME NEW c \in Contracts, NEW b, IsBuild(b), NEW ids, Accounted(b, ids), Untouched(b),
         b.raised = None, NEW o, o.op = "value_mappings"
  PROVE  IsBuild(Applied(c, b, o)) /\ Accounted(Applied(c, b, o), ids)
<1> DEFINE f == b.frame
           a == MapKeyFields(c, f)
           d == Applied(c, b, o)
<1>1. CASE Fault(c, o, f) # None
  <2> HIDE DEF d
  <2>1. /\ IsBuild(d) /\ d.frame = f /\ d.nulled = b.nulled
        /\ HeldIds(d) = HeldIds(b) /\ FilteredOut(d) = FilteredOut(b)
    BY <1>1, FaultLeaves DEF d
  <2> QED
    BY <2>1, ExplainedIs DEF Accounted, d
<1>2. CASE Fault(c, o, f) = None /\ c.keys = <<>>
  <2>1. d = b
    BY <1>2, AppliedIs DEF ValuesMapped
  <2> QED
    BY <2>1
<1>3. CASE Fault(c, o, f) = None /\ c.keys # <<>>
  <2>1. IsAcc(a) /\ Accounts(a, IdsOf(f))
    BY MapKeyFieldsIs DEF IsBuild, Untouched
  <2>2. d = [b EXCEPT !.frame = KeptRows(a), !.held = a.held]
    BY <1>3, AppliedIs DEF ValuesMapped
  <2> HIDE DEF a, d
  <2>3. /\ DOMAIN d = {"frame", "held", "stats", "raised", "nulled"} /\ d.nulled = b.nulled
        /\ d.frame = KeptRows(a) /\ d.held = a.held /\ d.stats = b.stats
    BY <2>2 DEF IsBuild
  <2>4. /\ IsFrame(KeptRows(a)) /\ IdsOf(KeptRows(a)) \subseteq IdsOf(f)
        /\ IdsOf(f) \subseteq IdsOf(KeptRows(a)) \union HeldIds(a)
    BY <2>1, KeptRowsIs
  <2>5. HeldIds(d) = HeldIds(a) /\ FilteredOut(d) = FilteredOut(b) /\ HeldIds(a) \subseteq IdsOf(f)
    BY <2>1, <2>3 DEF HeldIds, FilteredOut, Accounts
  <2>6. ids = IdsOf(f) \union FilteredOut(b) \union b.nulled /\ IdsOf(f) \cap FilteredOut(b) = {}
    BY ExplainedIs DEF Accounted, Untouched
  <2>7. Explained(d) = HeldIds(a) \union FilteredOut(b)
    BY <2>5, ExplainedIs
  <2>8. Accounted(d, ids)
    BY <2>3, <2>4, <2>5, <2>6, <2>7 DEF Accounted
  <2> QED
    BY <2>3, <2>4, <2>8 DEF IsBuild, d
<1> QED
  BY <1>1, <1>2, <1>3

\* The aggregation rules.
LEMMA RulesAccount ==
  ASSUME NEW c, NEW b, IsBuild(b), NEW ids, Accounted(b, ids),
         b.raised = None, NEW o, o.op = "aggregation_rules"
  PROVE  IsBuild(Applied(c, b, o)) /\ Accounted(Applied(c, b, o), ids)
<1> DEFINE f == b.frame
           d == Applied(c, b, o)
<1>1. CASE Fault(c, o, f) # None
  <2> HIDE DEF d
  <2>1. /\ IsBuild(d) /\ d.frame = f /\ d.nulled = b.nulled
        /\ HeldIds(d) = HeldIds(b) /\ FilteredOut(d) = FilteredOut(b)
    BY <1>1, FaultLeaves DEF d
  <2> QED
    BY <2>1, ExplainedIs DEF Accounted, d
<1>2. CASE Fault(c, o, f) = None
  <2> DEFINE g == AggregatedByRules(c, f)
             all == NullKeyed(InPeriods(c, f), RuleKeys(c, f))
             under == IF c.rules = {} THEN {} ELSE all
  <2>1. d = Regrouped(b, g, under)
    <3>1. d = RulesApplied(c, b)
      BY <1>2, AppliedIs
    <3> QED
      BY <3>1 DEF RulesApplied, Regrouped
  <2>2. IsFrame(f)
    BY DEF IsBuild
  <2>3. /\ IsFrame(g) /\ IdsOf(g) \subseteq IdsOf(f) /\ (c.rules = {} => IdsOf(g) = IdsOf(f))
        /\ IdsOf(f) \subseteq IdsOf(g) \union all /\ IdsOf(InPeriods(c, f)) = IdsOf(f)
    BY <2>2, AggregatedByRulesIs
  <2>4. all \subseteq IdsOf(f)
    BY <2>3, NullKeyedAreRows
  <2> HIDE DEF g, d, all
  <2>5. under \subseteq IdsOf(f) /\ IdsOf(f) \subseteq IdsOf(g) \union under
    <3>1. CASE c.rules = {}
      <4>1. under = {} /\ IdsOf(g) = IdsOf(f)
        BY <2>3, <3>1
      <4> HIDE DEF under
      <4> QED
        BY <4>1
    <3>2. CASE c.rules # {}
      <4>1. under = all
        BY <3>2
      <4> HIDE DEF under
      <4> QED
        BY <2>3, <2>4, <4>1
    <3> QED
      BY <3>1, <3>2
  <2> HIDE DEF under
  <2>6. /\ IsBuild(d) /\ d.frame = g /\ d.nulled = b.nulled \union under
        /\ HeldIds(d) = HeldIds(b) /\ FilteredOut(d) = FilteredOut(b)
    BY <2>1, <2>3, RegroupedIs
  <2>9. ids = IdsOf(f) \union HeldIds(b) \union FilteredOut(b) \union b.nulled /\ IdsOf(f) \cap FilteredOut(b) = {}
    BY ExplainedIs DEF Accounted
  <2> QED
    BY <2>3, <2>5, <2>6, <2>9, ExplainedIs DEF Accounted, d
<1> QED
  BY <1>1, <1>2

------------------------------------------------------------------------------
(* The pipeline and its loop.                                              *)

\* The operations of one kind.
LEMMA OfKindIs ==
  ASSUME NEW c \in Contracts, NEW kind
  PROVE  /\ IsList(OfKind(c.ops, kind))
         /\ \A i \in 1..Len(OfKind(c.ops, kind)) :
              IsOp(OfKind(c.ops, kind)[i]) /\ Kind(OfKind(c.ops, kind)[i]) = kind
<1> DEFINE ops == c.ops
           places == {i \in DOMAIN ops : ops[i].enabled /\ Kind(ops[i]) = kind}
           s == OfKind(ops, kind)
<1>1. Len(ops) \in Nat /\ DOMAIN ops = 1..Len(ops) /\ \A i \in DOMAIN ops : IsOp(ops[i])
  <2>1. ops \in Seq(ToSet(ops)) /\ \A o \in ToSet(ops) : o.op \in Registry
    BY ContractsAssumption
  <2> HIDE DEF ops
  <2>2. \A i \in DOMAIN ops : ops[i] \in ToSet(ops)
    BY DEF ToSet
  <2> QED
    BY <2>1, <2>2 DEF IsOp
<1> HIDE DEF ops
<1>2. places \in SUBSET Int /\ IsFiniteSet(places)
  <2>1. places \subseteq DOMAIN ops
    OBVIOUS
  <2> HIDE DEF places
  <2> QED
    BY <1>1, <2>1, PlacesAreFinite
<1>3. \A i \in places : i \in DOMAIN ops /\ Kind(ops[i]) = kind
  OBVIOUS
<1>4. s = At(ops, places)
  BY DEF OfKind
<1> HIDE DEF places, s
<1>5. /\ Cardinality(places) \in Nat /\ DOMAIN s = 1..Cardinality(places)
      /\ \A n \in DOMAIN s : \E i \in places : s[n] = ops[i]
  BY <1>2, <1>4, AtPlaces
<1>6. s = [n \in 1..Cardinality(places) |-> s[n]]
  <2>1. At(ops, places) = [n \in DOMAIN InOrder(places) |-> ops[InOrder(places)[n]]]
    BY DEF At
  <2> QED
    BY <1>4, <1>5, <2>1
<1>7. IsList(s) /\ Len(s) = Cardinality(places)
  BY <1>5, <1>6, ListIf
<1>8. \A i \in 1..Len(s) : IsOp(s[i]) /\ Kind(s[i]) = kind
  BY <1>1, <1>3, <1>5, <1>7
<1> QED
  BY <1>7, <1>8 DEF s, ops

\* The value mapping comes once, after what looks at single rows and before what collapses them.
Turns(P, v) ==
  /\ v \in 1..Len(P) /\ P[v].op = "value_mappings"
  /\ \A i \in 1..(v - 1) : IsOp(P[i]) /\ Kind(P[i]) # "aggregate"
  /\ \A i \in (v + 1)..Len(P) : IsOp(P[i]) \/ P[i].op = "aggregation_rules"

\* Filters and transforms, the value mapping, then what collapses rows.
LEMMA PipelineIs ==
  ASSUME NEW c \in Contracts
  PROVE  IsList(Pipeline(c)) /\ \E v : Turns(Pipeline(c), v)
<1> DEFINE F == OfKind(c.ops, "filter")
           T == OfKind(c.ops, "transform")
           A == OfKind(c.ops, "aggregate")
           mapping == [op |-> "value_mappings"]
           rules == [op |-> "aggregation_rules"]
           M == <<mapping>>
           R == <<rules>>
           L1 == F \o T
           L2 == L1 \o M
           L3 == L2 \o A
           P == L3 \o R
<1>1. Pipeline(c) = P
  BY DEF Pipeline
<1>2. /\ IsList(F) /\ \A i \in 1..Len(F) : IsOp(F[i]) /\ Kind(F[i]) = "filter"
      /\ IsList(T) /\ \A i \in 1..Len(T) : IsOp(T[i]) /\ Kind(T[i]) = "transform"
      /\ IsList(A) /\ \A i \in 1..Len(A) : IsOp(A[i]) /\ Kind(A[i]) = "aggregate"
  BY OfKindIs
<1>3. mapping.op = "value_mappings" /\ rules.op = "aggregation_rules"
  OBVIOUS
<1> HIDE DEF mapping, rules
<1>4. IsList(M) /\ Len(M) = 1 /\ M[1] = mapping /\ IsList(R) /\ Len(R) = 1 /\ R[1] = rules
  BY SingleList
<1> HIDE DEF F, T, A, M, R
<1> DEFINE f == Len(F)
           t == Len(T)
           a == Len(A)
<1>5. f \in Nat /\ t \in Nat /\ a \in Nat
  BY <1>2, ListsAre
<1>6. /\ IsList(L1) /\ Len(L1) = f + t
      /\ \A i \in 1..f : L1[i] = F[i]
      /\ \A i \in (f + 1)..(f + t) : L1[i] = T[i - f]
  BY <1>2, JointPlaces
<1>7. \A i \in 1..(f + t) : IsOp(L1[i]) /\ Kind(L1[i]) # "aggregate"
  <2> TAKE i \in 1..(f + t)
  <2>1. CASE i <= f
    <3>1. i \in 1..f
      BY <1>5, <2>1
    <3> HIDE DEF L1
    <3> QED
      BY <1>2, <1>6, <3>1
  <2>2. CASE i > f
    <3>1. i \in (f + 1)..(f + t) /\ i - f \in 1..t
      BY <1>5, <2>2
    <3> HIDE DEF L1
    <3> QED
      BY <1>2, <1>6, <3>1
  <2> QED
    BY <1>5, <2>1, <2>2
<1> HIDE DEF L1
<1>8. /\ IsList(L2) /\ Len(L2) = f + t + 1
      /\ \A i \in 1..(f + t) : L2[i] = L1[i]
      /\ L2[f + t + 1] = mapping
  <2>1. /\ IsList(L2) /\ Len(L2) = Len(L1) + Len(M)
        /\ \A i \in 1..Len(L1) : L2[i] = L1[i]
        /\ \A i \in (Len(L1) + 1)..(Len(L1) + Len(M)) : L2[i] = M[i - Len(L1)]
    BY <1>4, <1>6, JointPlaces
  <2> HIDE DEF L2, f, t
  <2> QED
    BY <1>4, <1>5, <1>6, <2>1
<1> HIDE DEF L2
<1>9. /\ IsList(L3) /\ Len(L3) = f + t + 1 + a
      /\ \A i \in 1..(f + t + 1) : L3[i] = L2[i]
      /\ \A i \in (f + t + 2)..(f + t + 1 + a) : L3[i] = A[i - (f + t + 1)]
  <2>1. /\ IsList(L3) /\ Len(L3) = Len(L2) + Len(A)
        /\ \A i \in 1..Len(L2) : L3[i] = L2[i]
        /\ \A i \in (Len(L2) + 1)..(Len(L2) + Len(A)) : L3[i] = A[i - Len(L2)]
    BY <1>2, <1>8, JointPlaces
  <2> HIDE DEF L3, f, t
  <2> QED
    BY <1>5, <1>8, <2>1
<1> HIDE DEF L3
<1>10. /\ IsList(P) /\ Len(P) = f + t + 2 + a
       /\ \A i \in 1..(f + t + 1 + a) : P[i] = L3[i]
       /\ P[f + t + 2 + a] = rules
  <2>1. /\ IsList(P) /\ Len(P) = Len(L3) + Len(R)
        /\ \A i \in 1..Len(L3) : P[i] = L3[i]
        /\ \A i \in (Len(L3) + 1)..(Len(L3) + Len(R)) : P[i] = R[i - Len(L3)]
    BY <1>4, <1>9, JointPlaces
  <2> HIDE DEF P, f, t, a
  <2> QED
    BY <1>4, <1>5, <1>9, <2>1
<1> HIDE DEF P, f, t
<1> DEFINE v == f + t + 1
<1>11. v \in 1..Len(P) /\ P[v].op = "value_mappings"
  <2>1. v \in 1..(f + t + 1 + a) /\ v \in 1..Len(P) /\ v \in 1..(f + t + 1)
    BY <1>5, <1>10
  <2> QED
    BY <1>3, <1>8, <1>9, <1>10, <2>1
<1>12. ASSUME NEW i \in 1..(v - 1) PROVE IsOp(P[i]) /\ Kind(P[i]) # "aggregate"
  <2>1. i \in 1..(f + t) /\ i \in 1..(f + t + 1) /\ i \in 1..(f + t + 1 + a)
    BY <1>5
  <2> QED
    BY <1>7, <1>8, <1>9, <1>10, <2>1
<1>13. ASSUME NEW i \in (v + 1)..Len(P) PROVE IsOp(P[i]) \/ P[i].op = "aggregation_rules"
  <2>1. CASE i = f + t + 2 + a
    BY <1>3, <1>10, <2>1
  <2>2. CASE i # f + t + 2 + a
    <3>1. /\ i \in (f + t + 2)..(f + t + 1 + a) /\ i \in 1..(f + t + 1 + a)
          /\ i - (f + t + 1) \in 1..a
      BY <1>5, <1>10, <2>2
    <3> HIDE DEF a
    <3> QED
      BY <1>2, <1>9, <1>10, <3>1 DEF a
  <2> QED
    BY <2>1, <2>2
<1> QED
  <2> HIDE DEF v
  <2>1. Turns(P, v)
    BY <1>11, <1>12, <1>13 DEF Turns
  <2> QED
    BY <1>1, <1>10, <2>1

\* Where a build stands after n steps of the pipeline.
Progress(c, b, n, ids) ==
  /\ IsBuild(b) /\ Accounted(b, ids)
  /\ \A v : Turns(Pipeline(c), v) /\ n < v => Untouched(b)

\* Before the first step each row stands for itself.
LEMMA FreshProgress ==
  ASSUME NEW c \in Contracts, NEW table, IsList(table)
  PROVE  /\ Progress(c, FreshBuild(table), 0, DOMAIN table)
         /\ FreshBuild(table).raised = None /\ FreshBuild(table).frame.columns = SourceColumns
<1> DEFINE One(i) == <<i>>
           Opened(i) == [cell |-> table[i], ids |-> One(i)]
           all == [i \in DOMAIN table |-> Opened(i)]
           f == RawFrame(table)
           b == FreshBuild(table)
           none == <<>>
           nobody == {}
<1>1. f = [columns |-> SourceColumns, rows |-> all]
  BY DEF RawFrame
<1>2. b = [frame |-> f, held |-> none, stats |-> none, raised |-> None, nulled |-> nobody]
  <2> HIDE DEF f, all
  <2>1. NoBuild = [frame |-> NoBuild.frame, held |-> none, stats |-> none, raised |-> None, nulled |-> nobody]
    BY DEF NoBuild
  <2>2. b = [NoBuild EXCEPT !.frame = f]
    BY DEF FreshBuild, f
  <2> HIDE DEF b, none, nobody
  <2> QED
    BY <2>1, <2>2
<1>3. \A i : DOMAIN Opened(i) = {"cell", "ids"} /\ Opened(i).ids = One(i)
  OBVIOUS
<1>4. \A i \in Nat : One(i) \in Seq(Nat) /\ Len(One(i)) = 1 /\ ToSet(One(i)) = {i}
  BY DEF ToSet
<1> HIDE DEF One, Opened
<1>5. DOMAIN all = DOMAIN table /\ \A i \in DOMAIN table : all[i] = Opened(i)
  OBVIOUS
<1>6. IsList(none) /\ DOMAIN none = {}
  <2>1. none \in Seq({}) /\ DOMAIN none = {}
    OBVIOUS
  <2> HIDE DEF none
  <2> QED
    BY <2>1, SeqIsList
<1> HIDE DEF all, f, b, none
<1>7. Len(table) \in Nat /\ DOMAIN table = 1..Len(table)
  BY ListsAre
<1>8. DOMAIN f = {"columns", "rows"} /\ f.rows = all /\ f.columns = SourceColumns
  BY <1>1
<1>9. /\ DOMAIN b = {"frame", "held", "stats", "raised", "nulled"} /\ b.frame = f
      /\ b.held = none /\ b.stats = none /\ b.raised = None /\ b.nulled = {}
  BY <1>2
<1>10. \A i \in DOMAIN table : DOMAIN all[i] = {"cell", "ids"} /\ all[i].ids \in Seq(Nat)
                              /\ Len(all[i].ids) = 1 /\ ToSet(all[i].ids) = {i}
  <2> TAKE i \in DOMAIN table
  <2>1. i \in Nat
    BY <1>7
  <2> QED
    BY <1>3, <1>4, <1>5, <2>1
<1>11. IsFrame(f) /\ Singles(f)
  <2>1. \E n \in Nat : DOMAIN f.rows = 1..n
    BY <1>5, <1>7, <1>8
  <2>2. \A i \in DOMAIN f.rows : DOMAIN f.rows[i] = {"cell", "ids"} /\ f.rows[i].ids \in Seq(Nat)
    BY <1>5, <1>8, <1>10
  <2>3. Singles(f)
    BY <1>5, <1>8, <1>10 DEF Singles
  <2> QED
    BY <1>8, <2>1, <2>2, <2>3 DEF IsFrame
<1>12. IdsOf(f) = DOMAIN table
  <2>1. DOMAIN f.rows = DOMAIN table /\ \A i \in DOMAIN table : ToSet(f.rows[i].ids) = {i}
    BY <1>5, <1>8, <1>10
  <2>2. \A x : x \in IdsOf(f) <=> \E i \in DOMAIN f.rows : x \in ToSet(f.rows[i].ids)
    BY IdsAre
  <2>3. \A x : x \in IdsOf(f) <=> x \in DOMAIN table
    BY <2>1, <2>2
  <2> QED
    BY <2>3
<1>13. HeldIds(b) = {} /\ FilteredOut(b) = {}
  BY <1>6, <1>9 DEF HeldIds, FilteredOut
<1>14. IsBuild(b) /\ Accounted(b, DOMAIN table) /\ Untouched(b)
  BY <1>6, <1>9, <1>11, <1>12, <1>13, ExplainedIs DEF IsBuild, Accounted, Untouched
<1> QED
  BY <1>8, <1>9, <1>14 DEF Progress, b

\* After an exception nothing is applied.
LEMMA RaisedStays ==
  ASSUME NEW c, NEW b, NEW o, b.raised # None PROVE Applied(c, b, o) = b
BY DEF Applied

\* One step of the pipeline, of any kind.
LEMMA StepProgress ==
  ASSUME NEW c \in Contracts, NEW b, NEW ids, NEW n \in 0..(Len(Pipeline(c)) - 1),
         Progress(c, b, n, ids)
  PROVE  Progress(c, Applied(c, b, Pipeline(c)[n + 1]), n + 1, ids)
<1> DEFINE P == Pipeline(c)
           o == P[n + 1]
           d == Applied(c, b, o)
<1>1. PICK v : Turns(P, v)
  BY PipelineIs
<1>2. Len(P) \in Nat
  BY PipelineIs, ListsAre
<1> HIDE DEF P
<1>3. IsBuild(b) /\ Accounted(b, ids) /\ \A w : Turns(P, w) /\ n < w => Untouched(b)
  BY DEF Progress, P
<1>4. CASE b.raised # None
  <2>1. d = b
    BY <1>4, RaisedStays
  <2>2. \A w : Turns(P, w) /\ n + 1 < w => Untouched(b)
    <3> TAKE w
    <3>1. Turns(P, w) => w \in Nat
      BY <1>2 DEF Turns
    <3>2. w \in Nat /\ n + 1 < w => n < w
      BY <1>2
    <3> QED
      BY <1>3, <3>1, <3>2
  <2> QED
    BY <1>3, <2>1, <2>2 DEF Progress, P
<1>5. CASE b.raised = None
  <2>1. IsBuild(d) /\ Accounted(d, ids)
    <3>1. CASE n + 1 < v
      <4>1. n + 1 \in 1..(v - 1)
        BY <1>1, <1>2, <3>1 DEF Turns
      <4>2. IsOp(o)
        BY <1>1, <4>1 DEF Turns
      <4> HIDE DEF o
      <4> QED
        BY <1>3, <1>5, <4>2, OperationAccounts
    <3>2. CASE n + 1 = v
      <4>1. o.op = "value_mappings" /\ n < v
        BY <1>1, <1>2, <3>2 DEF Turns
      <4>2. Untouched(b)
        BY <1>1, <1>3, <4>1
      <4> HIDE DEF o
      <4> QED
        BY <1>3, <1>5, <4>1, <4>2, MappingAccounts
    <3>3. CASE n + 1 > v
      <4>1. n + 1 \in (v + 1)..Len(P)
        BY <1>1, <1>2, <3>3 DEF Turns, P
      <4>2. IsOp(o) \/ o.op = "aggregation_rules"
        BY <1>1, <4>1 DEF Turns
      <4> HIDE DEF o
      <4>3. CASE IsOp(o)
        BY <1>3, <1>5, <4>3, OperationAccounts
      <4>4. CASE o.op = "aggregation_rules"
        BY <1>3, <1>5, <4>4, RulesAccount
      <4> QED
        BY <4>2, <4>3, <4>4
    <3>4. v \in Nat
      BY <1>1, <1>2 DEF Turns
    <3> QED
      BY <3>1, <3>2, <3>3, <3>4
  <2>2. ASSUME NEW w, Turns(P, w), n + 1 < w PROVE Untouched(d)
    <3>1. w \in Nat /\ n + 1 \in 1..(w - 1) /\ n < w
      BY <1>2, <2>2 DEF Turns
    <3>2. IsOp(o) /\ Kind(o) # "aggregate"
      BY <2>2, <3>1 DEF Turns
    <3>3. Untouched(b)
      BY <1>3, <2>2, <3>1
    <3> HIDE DEF o
    <3> QED
      BY <1>3, <1>5, <3>2, <3>3, OperationAccounts
  <2> QED
    BY <2>1, <2>2 DEF Progress, P
<1> QED
  BY <1>4, <1>5

\* A replay is the loop that applies one step after another.
LEMMA DerivedIs ==
  ASSUME NEW c \in Contracts, NEW table
  PROVE  /\ Derived(c, table)[0] = FreshBuild(table)
         /\ \A n \in 1..Len(Pipeline(c)) :
              Derived(c, table)[n] = Applied(c, Derived(c, table)[n - 1], Pipeline(c)[n])
<1> DEFINE N == Len(Pipeline(c))
           Turn(g, n) == IF n = 0 THEN FreshBuild(table) ELSE Applied(c, g[n - 1], Pipeline(c)[n])
           Good(k) == \E g : g = [n \in 0..k |-> Turn(g, n)]
<1>1. N \in Nat
  BY PipelineIs, ListsAre
<1>2. Good(0)
  <2> DEFINE g == [n \in 0..0 |-> FreshBuild(table)]
  <2>1. g = [n \in 0..0 |-> Turn(g, n)]
    <3>1. \A n \in 0..0 : g[n] = Turn(g, n)
      OBVIOUS
    <3> HIDE DEF Turn
    <3> QED
      BY <3>1
  <2> QED
    BY <2>1
<1>3. ASSUME NEW k \in Nat \ {0}, Good(k - 1) PROVE Good(k)
  <2>1. PICK h : h = [n \in 0..(k - 1) |-> Turn(h, n)]
    BY <1>3
  <2> DEFINE g == [n \in 0..k |-> IF n = k THEN Turn(h, k) ELSE h[n]]
  <2>2. \A n \in 0..(k - 1) : h[n] = Turn(h, n)
    <3> HIDE DEF Turn
    <3> QED
      BY <2>1
  <2>3. ASSUME NEW n \in 0..k PROVE g[n] = Turn(g, n)
    <3>1. CASE n = 0
      <4>1. n \in 0..(k - 1) /\ n # k
        BY <3>1
      <4>2. g[n] = h[n]
        BY <4>1
      <4>3. h[n] = FreshBuild(table)
        BY <2>2, <3>1, <4>1
      <4> QED
        BY <3>1, <4>2, <4>3
    <3>2. CASE n # 0
      <4>1. n - 1 \in 0..(k - 1) /\ n - 1 \in 0..k /\ n - 1 # k
        BY <3>2
      <4>2. g[n - 1] = h[n - 1]
        BY <4>1
      <4>3. Turn(g, n) = Turn(h, n)
        BY <3>2, <4>2
      <4>4. n # k => n \in 0..(k - 1)
        OBVIOUS
      <4>5. g[n] = IF n = k THEN Turn(h, k) ELSE h[n]
        OBVIOUS
      <4> HIDE DEF Turn, g
      <4> QED
        BY <2>2, <4>3, <4>4, <4>5
    <3> QED
      BY <3>1, <3>2
  <2>4. g = [n \in 0..k |-> Turn(g, n)]
    <3>1. g = [n \in 0..k |-> g[n]]
      OBVIOUS
    <3> HIDE DEF g, Turn
    <3> QED
      BY <2>3, <3>1
  <2> QED
    BY <2>4
<1>4. Good(N)
  <2> HIDE DEF Good, N
  <2> SUFFICES ASSUME ~Good(N) PROVE FALSE
    OBVIOUS
  <2> DEFINE W == {k \in 0..N : ~Good(k)}
  <2>1. W \subseteq Nat /\ W # {}
    BY <1>1
  <2>2. PICK k \in W : \A i \in W : k <= i
    <3> HIDE DEF W
    <3> QED
      BY <2>1, Smallest
  <2>3. k \in Nat \ {0} /\ Good(k - 1)
    BY <1>1, <1>2, <2>2
  <2> QED
    BY <1>3, <2>2, <2>3
<1> DEFINE g == CHOOSE e : e = [n \in 0..N |-> Turn(e, n)]
<1>5. Derived(c, table) = g
  BY DEF Derived
<1>6. g = [n \in 0..N |-> Turn(g, n)]
  <2> HIDE DEF Turn, N
  <2> QED
    BY <1>4
<1> HIDE DEF g
<1>7. \A n \in 0..N : g[n] = Turn(g, n)
  <2> HIDE DEF Turn, N
  <2> QED
    BY <1>6
<1>8. g[0] = FreshBuild(table)
  BY <1>1, <1>7
<1>9. \A n \in 1..N : g[n] = Applied(c, g[n - 1], Pipeline(c)[n])
  BY <1>1, <1>7
<1> QED
  BY <1>5, <1>8, <1>9

\* A replay accounts for the rows after every step.
LEMMA DerivedProgress ==
  ASSUME NEW c \in Contracts, NEW table, IsList(table), NEW n \in 0..Len(Pipeline(c))
  PROVE  Progress(c, Derived(c, table)[n], n, DOMAIN table)
<1> DEFINE N == Len(Pipeline(c))
           Good(k) == Progress(c, Derived(c, table)[k], k, DOMAIN table)
<1>1. N \in Nat
  BY PipelineIs, ListsAre
<1>2. Good(0)
  BY DerivedIs, FreshProgress
<1>3. ASSUME NEW k \in 1..N, Good(k - 1) PROVE Good(k)
  <2>1. k - 1 \in 0..(N - 1) /\ (k - 1) + 1 = k
    BY <1>1
  <2>2. Derived(c, table)[k] = Applied(c, Derived(c, table)[k - 1], Pipeline(c)[k])
    BY DerivedIs
  <2> DEFINE b == Derived(c, table)[k - 1]
             m == k - 1
  <2>3. Progress(c, b, m, DOMAIN table) /\ m \in 0..(N - 1) /\ m + 1 = k
    BY <1>3, <2>1
  <2> HIDE DEF b, m
  <2>4. Progress(c, Applied(c, b, Pipeline(c)[m + 1]), m + 1, DOMAIN table)
    BY <2>3, StepProgress
  <2> QED
    BY <2>2, <2>3, <2>4 DEF b
<1> SUFFICES ASSUME ~Good(n) PROVE FALSE
  OBVIOUS
<1> HIDE DEF Good
<1> DEFINE W == {k \in 0..N : ~Good(k)}
<1>4. W \subseteq Nat /\ W # {}
  BY <1>1
<1>5. PICK k \in W : \A i \in W : k <= i
  <2> HIDE DEF W
  <2> QED
    BY <1>4, Smallest
<1> HIDE DEF N
<1>6. k \in 1..N /\ Good(k - 1)
  BY <1>1, <1>2, <1>5
<1> QED
  BY <1>3, <1>5, <1>6

------------------------------------------------------------------------------
(* What a step does to the columns, and whether it misses one, does not     *)
(* depend on the rows: this is why a replay on a sample tells.             *)
SameShape(b, d) == b.frame.columns = d.frame.columns

\* The columns after a transform ...
LEMMA TransformedColumns ==
  ASSUME NEW f, IsFrame(f), NEW g, IsFrame(g), f.columns = g.columns, NEW o, o.op \in TransformNames
  PROVE  Transformed(f, o).columns = Transformed(g, o).columns
<1>1. CASE o.op = "value_mapping"
  <2>1. ASSUME NEW h, IsFrame(h) PROVE Transformed(h, o).columns = h.columns
    <3> DEFINE table == MapRows(h, LAMBDA row :
            IF Cell(row, o.field) = o.from THEN WithCell(row, o.field, o.to) ELSE row)
    <3>1. Transformed(h, o) = [h EXCEPT !.rows = table]
      BY <1>1 DEF Transformed, MapRows
    <3> HIDE DEF table
    <3> QED
      BY <2>1, <3>1 DEF IsFrame
  <2> QED
    BY <2>1
<1>2. CASE o.op = "calculated_column"
  BY <1>2 DEF Transformed, MapRows
<1>3. CASE o.op = "rename_field"
  BY <1>3 DEF Transformed
<1> QED
  BY <1>1, <1>2, <1>3 DEF TransformNames

\* ... after an aggregation ...
LEMMA AggregatedColumns ==
  ASSUME NEW f, NEW o
  PROVE  Aggregated(f, o).columns =
           IF o.op = "deduplicate" THEN f.columns ELSE ToSet(o.by) \union {o.field}
<1>1. CASE o.op = "deduplicate"
  BY <1>1 DEF Aggregated, Grouped
<1>2. CASE o.op # "deduplicate"
  BY <1>2 DEF Aggregated, Grouped
<1> QED
  BY <1>1, <1>2

\* ... after the aggregation rules ...
LEMMA RulesColumns ==
  ASSUME NEW c, NEW f, IsFrame(f), NEW g, IsFrame(g), f.columns = g.columns
  PROVE  /\ AggregatedByRules(c, f).columns = AggregatedByRules(c, g).columns
         /\ RuleKeys(c, f) = RuleKeys(c, g) /\ RuleColumns(c, f) = RuleColumns(c, g)
<1>1. \A kind : RuleFields(c, f, kind) = RuleFields(c, g, kind)
  BY DEF RuleFields
<1>2. RuleKeys(c, f) = RuleKeys(c, g)
  BY <1>1 DEF RuleKeys
<1>3. RuleColumns(c, f) = RuleColumns(c, g)
  BY <1>1, <1>2 DEF RuleColumns
<1>4. ASSUME NEW h, IsFrame(h)
      PROVE  AggregatedByRules(c, h).columns =
               IF c.rules = {} \/ RuleKeys(c, h) = <<>> THEN h.columns ELSE RuleColumns(c, h)
  <2>1. CASE c.rules = {}
    BY <2>1 DEF AggregatedByRules
  <2>2. CASE c.rules # {} /\ RuleKeys(c, h) = <<>>
    <3>1. AggregatedByRules(c, h) = InPeriods(c, h)
      BY <2>2 DEF AggregatedByRules
    <3> QED
      BY <1>4, <2>2, <3>1, BucketedIs DEF InPeriods
  <2>3. CASE c.rules # {} /\ RuleKeys(c, h) # <<>>
    BY <2>3 DEF AggregatedByRules, Grouped
  <2> QED
    BY <2>1, <2>2, <2>3
<1> QED
  BY <1>2, <1>3, <1>4

\* ... after one mapped key field ...
LEMMA KeyFieldColumns ==
  ASSUME NEW c, NEW a, NEW field
  PROVE  MapKeyField(c, a, field).columns =
           IF field \in a.columns /\ Mapped(c, field) THEN a.columns \union {PairColumn} ELSE a.columns
<1>1. CASE field \notin a.columns
  BY <1>1 DEF MapKeyField, MapRows
<1>2. CASE field \in a.columns
  BY <1>2 DEF MapKeyField, MapRows
<1> QED
  BY <1>1, <1>2

\* ... and after the value mapping depend on the columns before it.
LEMMA MappedColumns ==
  ASSUME NEW c \in Contracts, NEW f, NEW g, f.columns = g.columns
  PROVE  KeptRows(MapKeyFields(c, f)).columns = KeptRows(MapKeyFields(c, g)).columns
<1> DEFINE N == Len(SourceKeys(c))
<1>1. PICK a : /\ a[0] = Unmapped(f)
               /\ \A n \in 1..N : a[n] = MapKeyField(c, a[n - 1], SourceKeys(c)[n])
               /\ MapKeyFields(c, f) = a[N]
  BY MapKeyFieldsExist
<1>2. PICK b : /\ b[0] = Unmapped(g)
               /\ \A n \in 1..N : b[n] = MapKeyField(c, b[n - 1], SourceKeys(c)[n])
               /\ MapKeyFields(c, g) = b[N]
  BY MapKeyFieldsExist
<1>3. N \in Nat
  BY SourceKeysAre
<1> DEFINE Good(k) == a[k].columns = b[k].columns
<1>4. Good(0)
  BY <1>1, <1>2 DEF Unmapped, MapRows
<1>5. ASSUME NEW k \in 1..N, Good(k - 1) PROVE Good(k)
  <2> DEFINE field == SourceKeys(c)[k]
             m == k - 1
  <2>1. a[k] = MapKeyField(c, a[m], field) /\ b[k] = MapKeyField(c, b[m], field)
    BY <1>1, <1>2
  <2>2. a[m].columns = b[m].columns
    BY <1>5
  <2> HIDE DEF field, m
  <2>3. MapKeyField(c, a[m], field).columns = MapKeyField(c, b[m], field).columns
    <3> DEFINE p == a[m]
               q == b[m]
    <3>1. p.columns = q.columns
      BY <2>2
    <3> HIDE DEF p, q
    <3>2. MapKeyField(c, p, field).columns =
           IF field \in p.columns /\ Mapped(c, field) THEN p.columns \union {PairColumn} ELSE p.columns
      BY KeyFieldColumns
    <3>3. MapKeyField(c, q, field).columns =
           IF field \in q.columns /\ Mapped(c, field) THEN q.columns \union {PairColumn} ELSE q.columns
      BY KeyFieldColumns
    <3>4. MapKeyField(c, p, field).columns = MapKeyField(c, q, field).columns
      BY <3>1, <3>2, <3>3
    <3> QED
      BY <3>4 DEF p, q
  <2> QED
    BY <2>1, <2>3
<1>6. Good(N)
  <2> SUFFICES ASSUME ~Good(N) PROVE FALSE
    OBVIOUS
  <2> HIDE DEF Good
  <2> DEFINE W == {k \in 0..N : ~Good(k)}
  <2>1. W \subseteq Nat /\ W # {}
    BY <1>3
  <2>2. PICK k \in W : \A i \in W : k <= i
    <3> HIDE DEF W
    <3> QED
      BY <2>1, Smallest
  <2> HIDE DEF N
  <2>3. k \in 1..N /\ Good(k - 1)
    BY <1>3, <1>4, <2>2
  <2> QED
    BY <1>5, <2>2, <2>3
<1>7. \A e : KeptRows(e).columns = e.columns
  BY DEF KeptRows
<1> QED
  BY <1>1, <1>2, <1>6, <1>7

\* So does whether a column is missing.
LEMMA MissingBy ==
  ASSUME NEW c, NEW f, IsFrame(f), NEW g, IsFrame(g), f.columns = g.columns, NEW o
  PROVE  ColumnMissing(c, o, f) <=> ColumnMissing(c, o, g)
<1>1. RuleKeys(c, f) = RuleKeys(c, g) /\ RuleColumns(c, f) = RuleColumns(c, g)
  BY RulesColumns
<1> QED
  BY <1>1 DEF ColumnMissing

\* A step's record of itself is not part of the frame.
LEMMA StatFrame ==
  ASSUME NEW b, IsBuild(b), NEW o, NEW f, NEW applied
  PROVE  /\ WithStat(b, o, f, applied).frame = f /\ WithStat(b, o, f, applied).raised = b.raised
         /\ DOMAIN WithStat(b, o, f, applied) = DOMAIN b
BY DEF WithStat, IsBuild

\* What a step that does not raise leaves of the columns.
LEMMA OperationShape ==
  ASSUME NEW c, NEW b, IsBuild(b), NEW o, IsOp(o), b.raised = None, Fault(c, o, b.frame) = None
  PROVE  /\ Applied(c, b, o).raised = None
         /\ Applied(c, b, o).frame.columns =
              IF Kind(o) = "filter" THEN b.frame.columns
              ELSE IF Kind(o) = "transform" THEN Transformed(b.frame, o).columns
              ELSE Aggregated(b.frame, o).columns
<1> DEFINE f == b.frame
           d == Applied(c, b, o)
<1>1. Kind(o) \in {"filter", "transform", "aggregate"}
  BY KindIs
<1>2. IsFrame(f)
  BY DEF IsBuild
<1>3. d = Operated(b, o)
  BY AppliedIs
<1> HIDE DEF d
<1>4. CASE Kind(o) = "filter"
  <2> DEFINE g == Filtered(f, o)
             gone == IdsOf(f) \ IdsOf(g)
  <2>1. d = WithStat(b, o, g, gone)
    BY <1>3, <1>4, OperatedIs
  <2>2. g.columns = f.columns
    BY <1>2, FilteredIs
  <2> HIDE DEF g, gone
  <2>3. d.frame = g /\ d.raised = None
    BY <2>1, StatFrame
  <2> QED
    BY <1>4, <2>2, <2>3 DEF d
<1>5. CASE Kind(o) = "transform"
  <2> DEFINE g == Transformed(f, o)
             changed == Changed(f, g, o)
  <2>1. d = WithStat(b, o, g, changed)
    BY <1>3, <1>5, OperatedIs
  <2> HIDE DEF g, changed
  <2>2. d.frame = g /\ d.raised = None
    BY <2>1, StatFrame
  <2> QED
    BY <1>5, <2>2 DEF d, g
<1>6. CASE Kind(o) = "aggregate"
  <2> DEFINE g == Aggregated(f, o)
             all == IdsOf(g)
             e == WithStat(b, o, g, all)
             under == NullKeyed(f, o.by)
  <2>1. d = [e EXCEPT !.nulled = @ \union under]
    BY <1>3, <1>6, OperatedIs
  <2> HIDE DEF g, all, under
  <2>2. e.frame = g /\ e.raised = None /\ DOMAIN e = {"frame", "held", "stats", "raised", "nulled"}
    BY StatFrame DEF IsBuild
  <2> HIDE DEF e
  <2>3. d.frame = g /\ d.raised = None
    BY <2>1, <2>2
  <2> QED
    BY <1>6, <2>3 DEF d, g
<1> QED
  BY <1>1, <1>4, <1>5, <1>6

\* A step that the replay of a sample took without an exception finds its columns
\* on the whole source too, and leaves the same ones.
LEMMA StepShape ==
  ASSUME NEW c \in Contracts, NEW b, IsBuild(b), NEW d, IsBuild(d), SameShape(b, d),
         b.raised = None, d.raised = None,
         NEW o, IsOp(o) \/ o.op \in {"value_mappings", "aggregation_rules"},
         Applied(c, d, o).raised = None
  PROVE  /\ Applied(c, b, o).raised \in {None, "value"}
         /\ Applied(c, b, o).raised = None => SameShape(Applied(c, b, o), Applied(c, d, o))
<1> DEFINE f == b.frame
           g == d.frame
<1>1. IsFrame(f) /\ IsFrame(g) /\ f.columns = g.columns
  BY DEF IsBuild, SameShape
<1>2. Fault(c, o, g) = None
  BY FaultLeaves
<1>3. Fault(c, o, f) \in {None, "value"}
  <2>1. ~ColumnMissing(c, o, g)
    <3>1. "column" # None
      BY DEF None
    <3> QED
      BY <1>2, <3>1, FaultIs
  <2>2. ~ColumnMissing(c, o, f)
    <3> HIDE DEF f, g
    <3> QED
      BY <1>1, <2>1, MissingBy
  <2> QED
    BY <2>2, FaultIs
<1>4. CASE Fault(c, o, f) = "value"
  <2>1. "value" # None
    BY DEF None
  <2>2. Applied(c, b, o).raised = "value"
    BY <1>4, <2>1, FaultLeaves
  <2> QED
    BY <2>1, <2>2
<1>5. CASE Fault(c, o, f) = None /\ IsOp(o)
  <2>1. Kind(o) = "transform" => Transformed(f, o).columns = Transformed(g, o).columns
    BY <1>1, <1>5, KindIs, TransformedColumns
  <2>2. Aggregated(f, o).columns = Aggregated(g, o).columns
    BY <1>1, AggregatedColumns
  <2>3. /\ Applied(c, b, o).raised = None
        /\ Applied(c, b, o).frame.columns =
              IF Kind(o) = "filter" THEN f.columns
              ELSE IF Kind(o) = "transform" THEN Transformed(f, o).columns
              ELSE Aggregated(f, o).columns
    BY <1>5, OperationShape
  <2>4. /\ Applied(c, d, o).raised = None
        /\ Applied(c, d, o).frame.columns =
              IF Kind(o) = "filter" THEN g.columns
              ELSE IF Kind(o) = "transform" THEN Transformed(g, o).columns
              ELSE Aggregated(g, o).columns
    BY <1>2, <1>5, OperationShape
  <2> HIDE DEF f, g
  <2> QED
    BY <1>1, <2>1, <2>2, <2>3, <2>4 DEF SameShape
<1>6. CASE Fault(c, o, f) = None /\ o.op = "value_mappings"
  <2>1. ASSUME NEW e, IsBuild(e), e.raised = None, Fault(c, o, e.frame) = None
        PROVE  /\ Applied(c, e, o).raised = None
               /\ Applied(c, e, o).frame.columns =
                    IF c.keys = <<>> THEN e.frame.columns ELSE KeptRows(MapKeyFields(c, e.frame)).columns
    <3> DEFINE a == MapKeyFields(c, e.frame)
    <3>1. Applied(c, e, o) = ValuesMapped(c, e)
      BY <1>6, <2>1, AppliedIs
    <3>2. ValuesMapped(c, e) = IF c.keys = <<>> THEN e ELSE [e EXCEPT !.frame = KeptRows(a), !.held = a.held]
      BY DEF ValuesMapped
    <3> HIDE DEF a
    <3>3. /\ Applied(c, e, o).raised = None
          /\ Applied(c, e, o).frame = IF c.keys = <<>> THEN e.frame ELSE KeptRows(a)
      BY <2>1, <3>1, <3>2 DEF IsBuild
    <3> QED
      BY <3>3 DEF a
  <2>2. KeptRows(MapKeyFields(c, f)).columns = KeptRows(MapKeyFields(c, g)).columns
    BY <1>1, MappedColumns
  <2> QED
    BY <1>1, <1>2, <1>6, <2>1, <2>2 DEF SameShape
<1>7. CASE Fault(c, o, f) = None /\ o.op = "aggregation_rules"
  <2>1. ASSUME NEW e, IsBuild(e), e.raised = None, Fault(c, o, e.frame) = None
        PROVE  /\ Applied(c, e, o).raised = None
               /\ Applied(c, e, o).frame = AggregatedByRules(c, e.frame)
    <3> DEFINE under == IF c.rules = {} THEN {} ELSE NullKeyed(InPeriods(c, e.frame), RuleKeys(c, e.frame))
    <3>1. Applied(c, e, o) = RulesApplied(c, e)
      BY <1>7, <2>1, AppliedIs
    <3>2. RulesApplied(c, e) = [e EXCEPT !.frame = AggregatedByRules(c, e.frame), !.nulled = @ \union under]
      BY DEF RulesApplied
    <3> HIDE DEF under
    <3> QED
      BY <2>1, <3>1, <3>2 DEF IsBuild
  <2>2. AggregatedByRules(c, f).columns = AggregatedByRules(c, g).columns
    BY <1>1, RulesColumns
  <2> QED
    BY <1>1, <1>2, <1>7, <2>1, <2>2 DEF SameShape
<1> QED
  BY <1>3, <1>4, <1>5, <1>6, <1>7

------------------------------------------------------------------------------
(* What holds of the service at every step.                                *)

\* The two gates approved the contract on the sample of this source.
Gated ==
  /\ source \in Sources
  /\ GateTwo(contract, Sample(source), Built(contract, Sample(source)))

\* The build has the shape that the replay of the sample had after as many steps.
Building ==
  \E n \in 0..Len(Pipeline(contract)) :
    /\ todo = SubSeq(Pipeline(contract), n + 1, Len(Pipeline(contract)))
    /\ Progress(contract, build, n, DOMAIN source)
    /\ build.raised = None /\ SameShape(build, Derived(contract, Sample(source))[n])

\* What holds of the service at every step.
EngineInv ==
  /\ contract \in Contracts
  /\ stage \in {"submitted", "sampled", "rejected", "approved", "build", "failed",
               "reconciled", "attached", "exported"}
  /\ stage = "failed" => build.raised = "value"
  /\ stage \in {"approved", "build"} => Gated
  /\ stage = "build" => Building
  /\ Executing => IsBuild(build) /\ Accounted(build, DOMAIN source)
  /\ stage \in {"reconciled", "attached", "exported"} =>
       target \in Targets /\ Exact(contract, build.frame.rows, TargetRows(target), detail)

\* A frame's rows, whatever the source.
LEMMA SourcesAreLists ==
  ASSUME NEW table \in Sources \union Targets PROVE IsList(table)
BY FramesAssumption DEF IsList

\* A sample is a list of rows.
LEMMA SampleIs == ASSUME NEW table, IsList(table) PROVE IsList(Sample(table))
<1>1. table \in Seq(ToSet(table)) /\ Len(table) \in Nat
  BY ListsAre DEF IsList
<1>2. Sample(table) \in Seq(ToSet(table))
  BY <1>1, SampleAssumption DEF Sample
<1> QED
  BY <1>2, SeqIsList

\* A replay that raised nothing in the end raised nothing on the way.
LEMMA NothingRaised ==
  ASSUME NEW c \in Contracts, NEW table, Built(c, table).raised = None, NEW n \in 0..Len(Pipeline(c))
  PROVE  Derived(c, table)[n].raised = None
<1> DEFINE N == Len(Pipeline(c))
           D == Derived(c, table)
           Good(k) == D[N - k].raised = None
<1>1. N \in Nat
  BY PipelineIs, ListsAre
<1>2. Good(0)
  BY <1>1 DEF Built
<1>3. ASSUME NEW k \in 1..N, Good(k - 1) PROVE Good(k)
  <2> DEFINE m == N - (k - 1)
  <2>1. m \in 1..N /\ m - 1 = N - k
    BY <1>1
  <2>2. D[m] = Applied(c, D[m - 1], Pipeline(c)[m])
    BY <2>1, DerivedIs
  <2>3. D[m].raised = None
    BY <1>3
  <2> HIDE DEF m, D
  <2>4. D[m - 1].raised = None
    BY <2>2, <2>3, RaisedStays
  <2> QED
    BY <2>1, <2>4
<1> HIDE DEF Good
<1>4. ASSUME NEW k \in 0..N, ~Good(k) PROVE FALSE
  <2> DEFINE W == {i \in 0..N : ~Good(i)}
  <2>1. W \subseteq Nat /\ W # {}
    BY <1>1, <1>4
  <2>2. PICK i \in W : \A j \in W : i <= j
    <3> HIDE DEF W
    <3> QED
      BY <2>1, Smallest
  <2> HIDE DEF N
  <2>3. i \in 1..N /\ Good(i - 1)
    BY <1>1, <1>2, <2>2
  <2> QED
    BY <1>3, <2>2, <2>3
<1>5. N - n \in 0..N /\ N - (N - n) = n
  BY <1>1
<1>6. Good(N - n)
  BY <1>4, <1>5
<1> QED
  BY <1>5, <1>6 DEF Good

\* A list without elements is the empty one.
LEMMA EmptyIs == ASSUME NEW T, NEW s \in Seq(T) PROVE s = <<>> <=> Len(s) = 0
OBVIOUS

\* What is left of a list after n elements.
LEMMA RestOf ==
  ASSUME NEW s, IsList(s), NEW n \in 0..Len(s), NEW rest, rest = SubSeq(s, n + 1, Len(s))
  PROVE  /\ rest = <<>> <=> n = Len(s)
         /\ n < Len(s) => Head(rest) = s[n + 1] /\ Tail(rest) = SubSeq(s, n + 2, Len(s))
<1>1. s \in Seq(ToSet(s)) /\ Len(s) \in Nat
  BY DEF IsList
<1>2. /\ rest \in Seq(ToSet(s)) /\ Len(rest) = Len(s) - n
      /\ \A i \in 1..(Len(s) - n) : rest[i] = s[n + i]
  <2>1. rest \in Seq(ToSet(s))
    BY <1>1
  <2>2. Len(rest) = Len(s) - n
    BY <1>1
  <2>3. \A i \in 1..(Len(s) - n) : rest[i] = s[n + i]
    BY <1>1
  <2> QED
    BY <2>1, <2>2, <2>3
<1>3. rest = <<>> <=> n = Len(s)
  <2>1. rest = <<>> <=> Len(rest) = 0
    BY <1>2, EmptyIs
  <2> QED
    BY <1>1, <1>2, <2>1
<1>4. ASSUME n < Len(s) PROVE Head(rest) = s[n + 1] /\ Tail(rest) = SubSeq(s, n + 2, Len(s))
  <2>1. rest # <<>> /\ Len(rest) \in Nat /\ 1 \in 1..(Len(s) - n)
    BY <1>1, <1>2, <1>3, <1>4
  <2>2. Head(rest) = s[n + 1]
    BY <1>2, <2>1
  <2> DEFINE u == Tail(rest)
             w == SubSeq(s, n + 2, Len(s))
             L == Len(s) - n - 1
  <2>3. u \in Seq(ToSet(s)) /\ Len(u) = L /\ \A i \in 1..L : u[i] = rest[i + 1]
    BY <1>1, <1>2, <1>4, <2>1
  <2>4. \A i \in 1..L : u[i] = s[n + (i + 1)]
    BY <1>1, <1>2, <1>4, <2>3
  <2>5. w \in Seq(ToSet(s))
    BY <1>1, <1>4
  <2>6. Len(w) = L
    BY <1>1, <1>4
  <2>7. \A i \in 1..L : w[i] = s[n + (i + 1)]
    BY <1>1, <1>4
  <2> HIDE DEF u, w
  <2>8. u = [i \in 1..L |-> u[i]] /\ w = [i \in 1..L |-> w[i]]
    <3>1. \A v \in Seq(ToSet(s)) : v = [i \in 1..Len(v) |-> v[i]]
      OBVIOUS
    <3> QED
      BY <2>3, <2>5, <2>6, <3>1
  <2> HIDE DEF L
  <2>9. u = w
    BY <2>4, <2>7, <2>8
  <2> QED
    BY <2>2, <2>9 DEF u, w
<1> QED
  BY <1>3, <1>4

\* The records keep their keys and classes when values are attached.
LEMMA WithValuesIs ==
  ASSUME NEW c, NEW src, NEW table, NEW tgt, NEW d, Exact(c, table, tgt, d)
  PROVE  Exact(c, table, tgt, WithValues(c, src, table, tgt, d))
<1> DEFINE e == WithValues(c, src, table, tgt, d)
           Shown(i) == [key |-> d[i].key, class |-> d[i].class, ids |-> d[i].ids,
                        values |-> FieldValues(c, src, table, tgt, d[i])]
<1>1. IsList(d)
  BY DEF Exact
<1>2. Len(d) \in Nat /\ DOMAIN d = 1..Len(d)
  BY <1>1, ListsAre
<1>3. e = [i \in 1..Len(d) |-> Shown(i)]
  BY <1>2 DEF WithValues
<1>4. \A i : Shown(i).key = d[i].key /\ Shown(i).class = d[i].class
  OBVIOUS
<1> HIDE DEF e, Shown
<1>5. /\ DOMAIN e = 1..Len(d) /\ e = [i \in 1..Len(d) |-> e[i]]
      /\ \A i \in 1..Len(d) : e[i].key = d[i].key /\ e[i].class = d[i].class
  BY <1>3, <1>4
<1>6. IsList(e) /\ Len(e) = Len(d)
  BY <1>2, <1>5, ListIf
<1>7. {e[i].key : i \in DOMAIN e} = {d[i].key : i \in DOMAIN d}
  BY <1>2, <1>5
<1> QED
  BY <1>2, <1>5, <1>6, <1>7 DEF Exact, e

\* The first step of a gated contract's build.
LEMMA BuildStarts ==
  ASSUME NEW c \in Contracts, NEW src \in Sources
  PROVE  /\ Progress(c, FreshBuild(src), 0, DOMAIN src) /\ FreshBuild(src).raised = None
         /\ SameShape(FreshBuild(src), Derived(c, Sample(src))[0])
         /\ Pipeline(c) = SubSeq(Pipeline(c), 1, Len(Pipeline(c)))
<1>1. IsList(src) /\ IsList(Sample(src))
  BY SourcesAreLists, SampleIs
<1>2. SameShape(FreshBuild(src), Derived(c, Sample(src))[0])
  BY <1>1, FreshProgress, DerivedIs DEF SameShape
<1>3. Pipeline(c) = SubSeq(Pipeline(c), 1, Len(Pipeline(c)))
  <2> DEFINE P == Pipeline(c)
  <2>1. P \in Seq(ToSet(P))
    BY PipelineIs DEF IsList
  <2> HIDE DEF P
  <2>2. P = SubSeq(P, 1, Len(P))
    BY <2>1
  <2> QED
    BY <2>2 DEF P
<1> QED
  BY <1>1, <1>2, <1>3, FreshProgress

\* Every further one: it finds its columns, because the replay found them.
LEMMA BuildGoesOn ==
  ASSUME NEW c \in Contracts, NEW src \in Sources,
         GateTwo(c, Sample(src), Built(c, Sample(src))),
         NEW n \in 0..(Len(Pipeline(c)) - 1), NEW b, b.raised = None,
         Progress(c, b, n, DOMAIN src), SameShape(b, Derived(c, Sample(src))[n])
  PROVE  LET d == Applied(c, b, Pipeline(c)[n + 1])
         IN  /\ Progress(c, d, n + 1, DOMAIN src) /\ d.raised \in {None, "value"}
             /\ d.raised = None => SameShape(d, Derived(c, Sample(src))[n + 1])
<1> DEFINE P == Pipeline(c)
           D == Derived(c, Sample(src))
           o == P[n + 1]
           e == D[n]
<1>1. Len(P) \in Nat /\ n + 1 \in 1..Len(P) /\ n + 1 \in 0..Len(P) /\ n \in 0..Len(P) /\ (n + 1) - 1 = n
  BY PipelineIs, ListsAre
<1>2. IsList(Sample(src))
  BY SourcesAreLists, SampleIs
<1>3. Progress(c, e, n, DOMAIN Sample(src))
  BY <1>1, <1>2, DerivedProgress
<1>4. D[n + 1] = Applied(c, e, o)
  BY <1>1, DerivedIs
<1>5. D[n + 1].raised = None /\ e.raised = None
  BY <1>1, NothingRaised DEF GateTwo
<1>6. IsOp(o) \/ o.op \in {"value_mappings", "aggregation_rules"}
  <2>1. PICK v : Turns(P, v)
    BY PipelineIs
  <2> HIDE DEF P
  <2>2. v \in 1..Len(P) /\ (n + 1 \in 1..(v - 1) \/ n + 1 = v \/ n + 1 \in (v + 1)..Len(P))
    BY <1>1, <2>1 DEF Turns
  <2> QED
    BY <2>1, <2>2 DEF Turns
<1>7. Progress(c, Applied(c, b, o), n + 1, DOMAIN src)
  BY StepProgress
<1>8. IsBuild(b) /\ IsBuild(e) /\ SameShape(b, e)
  BY <1>3 DEF Progress
<1> HIDE DEF P, D, o, e
<1>9. /\ Applied(c, b, o).raised \in {None, "value"}
      /\ Applied(c, b, o).raised = None => SameShape(Applied(c, b, o), Applied(c, e, o))
  BY <1>4, <1>5, <1>6, <1>8, StepShape
<1> QED
  BY <1>4, <1>7, <1>9 DEF P, D, o

\* The gates and the executor account for every row, find their columns, and join exactly.
LEMMA EngineInvInit == EngineInit => EngineInv
BY DEF EngineInit, EngineInv, Executing

\* No step of the service leaves the invariant.
LEMMA EngineInvNext == EngineInv /\ [EngineNext]_engineVars => EngineInv'
<1> SUFFICES ASSUME EngineInv, [EngineNext]_engineVars PROVE EngineInv'
  OBVIOUS
<1>1. CASE Structural
  <2>1. /\ stage' \in {"sampled", "rejected"} /\ contract' = contract
    BY <1>1 DEF Structural
  <2> QED
    BY <2>1 DEF EngineInv, Executing
<1>2. CASE Replay
  <2>1. PICK table \in Sources :
          /\ source' = table /\ contract' = contract
          /\ stage' = IF GateTwo(contract, Sample(table), Built(contract, Sample(table))) THEN "approved" ELSE "rejected"
    BY <1>2 DEF Replay
  <2>2. CASE GateTwo(contract, Sample(table), Built(contract, Sample(table)))
    <3>1. stage' = "approved" /\ Gated'
      BY <2>1, <2>2 DEF Gated
    <3> QED
      BY <2>1, <3>1 DEF EngineInv, Executing
  <2>3. CASE ~GateTwo(contract, Sample(table), Built(contract, Sample(table)))
    <3>1. stage' = "rejected"
      BY <2>1, <2>3
    <3> QED
      BY <2>1, <3>1 DEF EngineInv, Executing
  <2> QED
    BY <2>2, <2>3
<1>3. CASE StartBuild
  <2>1. /\ stage = "approved" /\ stage' = "build" /\ build' = FreshBuild(source)
        /\ todo' = Pipeline(contract) /\ source' = source /\ contract' = contract
    BY <1>3 DEF StartBuild
  <2>2. contract \in Contracts /\ Gated
    BY <2>1 DEF EngineInv
  <2>3. /\ Progress(contract, FreshBuild(source), 0, DOMAIN source) /\ FreshBuild(source).raised = None
        /\ SameShape(FreshBuild(source), Derived(contract, Sample(source))[0])
        /\ Pipeline(contract) = SubSeq(Pipeline(contract), 1, Len(Pipeline(contract)))
    BY <2>2, BuildStarts DEF Gated
  <2>4. Len(Pipeline(contract)) \in Nat
    BY <2>2, PipelineIs, ListsAre
  <2>5. Building'
    <3>1. 0 \in 0..Len(Pipeline(contract)) /\ 0 + 1 = 1
      BY <2>4
    <3>2. \E n \in 0..Len(Pipeline(contract)) :
            /\ Pipeline(contract) = SubSeq(Pipeline(contract), n + 1, Len(Pipeline(contract)))
            /\ Progress(contract, FreshBuild(source), n, DOMAIN source)
            /\ FreshBuild(source).raised = None /\ SameShape(FreshBuild(source), Derived(contract, Sample(source))[n])
      BY <2>3, <3>1
    <3> QED
      BY <2>1, <3>2 DEF Building
  <2>6. Gated'
    BY <2>1, <2>2 DEF Gated
  <2>7. IsBuild(build') /\ Accounted(build', DOMAIN source')
    BY <2>1, <2>3 DEF Progress
  <2> QED
    BY <2>1, <2>2, <2>5, <2>6, <2>7 DEF EngineInv, Executing
<1>4. ASSUME NEW kind, Apply(kind) PROVE EngineInv'
  <2>1. /\ stage = "build" /\ todo # <<>> /\ build' = Applied(contract, build, Head(todo))
        /\ todo' = Tail(todo) /\ stage' = IF build'.raised # None THEN "failed" ELSE "build"
        /\ source' = source /\ contract' = contract
    BY <1>4 DEF Apply
  <2>2. contract \in Contracts /\ Gated /\ Building
    BY <2>1 DEF EngineInv
  <2> DEFINE P == Pipeline(contract)
             D == Derived(contract, Sample(source))
  <2>3. PICK n \in 0..Len(P) :
          /\ todo = SubSeq(P, n + 1, Len(P))
          /\ Progress(contract, build, n, DOMAIN source) /\ build.raised = None
          /\ SameShape(build, D[n])
    BY <2>2 DEF Building
  <2>4. IsList(P) /\ Len(P) \in Nat
    BY <2>2, PipelineIs, ListsAre
  <2>5. n \in 0..(Len(P) - 1) /\ Head(todo) = P[n + 1] /\ Tail(todo) = SubSeq(P, n + 2, Len(P))
    <3> HIDE DEF P
    <3>1. /\ todo = <<>> <=> n = Len(P)
          /\ n < Len(P) => Head(todo) = P[n + 1] /\ Tail(todo) = SubSeq(P, n + 2, Len(P))
      BY <2>3, <2>4, RestOf
    <3>2. n < Len(P)
      BY <2>1, <2>4, <3>1
    <3> QED
      BY <2>4, <3>1, <3>2
  <2> DEFINE d == Applied(contract, build, P[n + 1])
  <2>6. /\ Progress(contract, d, n + 1, DOMAIN source) /\ d.raised \in {None, "value"}
        /\ d.raised = None => SameShape(d, D[n + 1])
    BY <2>2, <2>3, <2>5, BuildGoesOn DEF Gated
  <2>7. build' = d
    BY <2>1, <2>5
  <2> HIDE DEF d
  <2>8. CASE d.raised = None
    <3>1. stage' = "build"
      BY <2>1, <2>7, <2>8
    <3>2. n + 1 \in 0..Len(P) /\ (n + 1) + 1 = n + 2
      BY <2>4, <2>5
    <3>3. \E m \in 0..Len(P) :
            /\ todo' = SubSeq(P, m + 1, Len(P))
            /\ Progress(contract, d, m, DOMAIN source)
            /\ d.raised = None /\ SameShape(d, D[m])
      BY <2>1, <2>5, <2>6, <2>8, <3>2
    <3>4. Building'
      BY <2>1, <2>7, <3>3 DEF Building
    <3>5. Gated'
      BY <2>1, <2>2 DEF Gated
    <3>6. IsBuild(build') /\ Accounted(build', DOMAIN source')
      BY <2>1, <2>6, <2>7 DEF Progress
    <3> QED
      BY <2>1, <2>2, <3>1, <3>4, <3>5, <3>6 DEF EngineInv, Executing
  <2>9. CASE d.raised = "value"
    <3>1. "value" # None
      BY DEF None
    <3>2. stage' = "failed" /\ build'.raised = "value"
      BY <2>1, <2>7, <2>9, <3>1
    <3> QED
      BY <2>1, <2>2, <3>2 DEF EngineInv, Executing
  <2> QED
    BY <2>6, <2>8, <2>9
<1>5. CASE Reconcile
  <2>1. /\ stage = "build" /\ todo = <<>> /\ source' = source /\ contract' = contract
    BY <1>5 DEF Reconcile
  <2>2. contract \in Contracts /\ Gated /\ Building
    BY <2>1 DEF EngineInv
  <2> DEFINE P == Pipeline(contract)
             D == Derived(contract, Sample(source))
  <2>3. PICK n \in 0..Len(P) :
          /\ todo = SubSeq(P, n + 1, Len(P))
          /\ Progress(contract, build, n, DOMAIN source) /\ build.raised = None
          /\ SameShape(build, D[n])
    BY <2>2 DEF Building
  <2>4. IsList(P) /\ Len(P) \in Nat
    BY <2>2, PipelineIs, ListsAre
  <2>5. n = Len(P)
    <3> HIDE DEF P
    <3> QED
      BY <2>1, <2>3, <2>4, RestOf
  <2>6. ToSet(SourceKeys(contract)) \subseteq build.frame.columns
    <3>1. build.frame.columns = Built(contract, Sample(source)).frame.columns
      BY <2>3, <2>5 DEF SameShape, Built
    <3> QED
      BY <2>2, <3>1 DEF Gated, GateTwo
  <2> DEFINE fault == JoinFault(contract, build.frame, TargetRows(target'))
  <2>7. /\ build' = [build EXCEPT !.raised = fault] /\ target' \in Targets
        /\ IF fault # None THEN stage' = "failed" /\ UNCHANGED detail
           ELSE stage' = "reconciled" /\ detail' \in Details(contract, build.frame.rows, TargetRows(target'))
    BY <1>5 DEF Reconcile
  <2>8. fault \in {None, "value"}
    BY <2>6 DEF JoinFault
  <2> HIDE DEF fault
  <2>9. /\ DOMAIN build' = {"frame", "held", "stats", "raised", "nulled"} /\ build'.raised = fault
        /\ build'.frame = build.frame /\ build'.held = build.held /\ build'.stats = build.stats
        /\ build'.nulled = build.nulled
    BY <2>3, <2>7 DEF Progress, IsBuild
  <2>10. IsBuild(build') /\ Accounted(build', DOMAIN source)
    <3>1. IsBuild(build) /\ Accounted(build, DOMAIN source)
      BY <2>1 DEF EngineInv, Executing
    <3>2. Explained(build') = Explained(build) /\ FilteredOut(build') = FilteredOut(build)
      BY <2>9 DEF Explained, FilteredOut
    <3> QED
      BY <2>9, <3>1, <3>2 DEF IsBuild, Accounted
  <2>11. CASE fault = "value"
    <3>1. "value" # None
      BY DEF None
    <3>2. stage' = "failed" /\ build'.raised = "value"
      BY <2>7, <2>9, <2>11, <3>1
    <3> QED
      BY <2>1, <2>2, <3>2 DEF EngineInv, Executing
  <2>12. CASE fault = None
    <3>1. /\ stage' = "reconciled" /\ detail' \in Details(contract, build.frame.rows, TargetRows(target'))
      BY <2>7, <2>12
    <3>2. Exact(contract, build.frame.rows, TargetRows(target'), detail')
      <4>1. PICK l \in Nat : DOMAIN build.frame.rows = 1..l
        BY <2>3 DEF Progress, IsBuild, IsFrame
      <4>2. PICK m \in Nat : DOMAIN TargetRows(target') = 1..m
        <5>1. IsList(target')
          BY <2>7, SourcesAreLists
        <5> QED
          BY <5>1, ListsAre DEF TargetRows
      <4> DEFINE table == build.frame.rows
                 tgt == TargetRows(target')
                 records == detail'
      <4>3. records \in Details(contract, table, tgt) /\ DOMAIN table = 1..l /\ DOMAIN tgt = 1..m
        BY <3>1, <4>1, <4>2
      <4> HIDE DEF table, tgt, records
      <4>4. Exact(contract, table, tgt, records)
        BY <4>3, JoinedIsExact, SMTT(30)
      <4> QED
        BY <4>4 DEF table, tgt, records
    <3> QED
      BY <2>1, <2>2, <2>7, <2>9, <2>10, <3>1, <3>2 DEF EngineInv, Executing
  <2> QED
    BY <2>8, <2>11, <2>12
<1>6. CASE AttachFieldValues
  <2>1. /\ stage = "reconciled" /\ stage' = "attached"
        /\ detail' = WithValues(contract, source, build.frame.rows, TargetRows(target), detail)
        /\ build' = build /\ source' = source /\ contract' = contract /\ target' = target
    BY <1>6 DEF AttachFieldValues
  <2>2. Exact(contract, build.frame.rows, TargetRows(target), detail)
    BY <2>1 DEF EngineInv
  <2>3. Exact(contract, build.frame.rows, TargetRows(target), detail')
    BY <2>1, <2>2, WithValuesIs
  <2> QED
    BY <2>1, <2>3 DEF EngineInv, Executing
<1>7. CASE Export
  <2>1. /\ stage = "attached" /\ stage' = "exported" /\ detail' = detail
        /\ build' = build /\ source' = source /\ contract' = contract /\ target' = target
    BY <1>7 DEF Export
  <2> QED
    BY <2>1 DEF EngineInv, Executing
<1>8. CASE UNCHANGED engineVars
  BY <1>8 DEF EngineInv, Executing, Gated, Building, engineVars
<1> QED
  BY <1>1, <1>2, <1>3, <1>4, <1>5, <1>6, <1>7, <1>8
    DEF EngineNext, ApplyFilter, ApplyTransform, ApplyValueMappings, ApplyAggregate, ApplyAggregationRules

\* The inductive invariant of gates, executor and join.
THEOREM EngineInvariant == EngineSpec => []EngineInv
BY EngineInvInit, EngineInvNext, PTL DEF EngineSpec

\* After every step of the executor each raw row was filtered, held out, is in the
\* lineage of a row, or was grouped under a key with a null in it, and none that a
\* filter dropped comes back (build_shadow_source).
THEOREM NoRowIsLost == EngineSpec => []RowsAccounted
<1>1. EngineInv => RowsAccounted
  BY DEF EngineInv, RowsAccounted, Accounted, RawIds
<1> QED
  BY <1>1, EngineInvariant, PTL

\* A contract that both gates approved on a sample finds all its columns on the whole
\* source: what can still interrupt it is a value (replay_sample, build_shadow_source).
THEOREM NoColumnIsMissing == EngineSpec => []FailsOnlyOnValues
<1>1. EngineInv => FailsOnlyOnValues
  BY DEF EngineInv, FailsOnlyOnValues
<1> QED
  BY <1>1, EngineInvariant, PTL

\* Each key of either side has exactly one record, a match if and only if the first
\* rows of the key on both sides agree (reconcile).
THEOREM JoinsAreExact == EngineSpec => []JoinIsExact
<1>1. EngineInv => JoinIsExact
  BY ListsAre DEF EngineInv, JoinIsExact, Exact
<1> QED
  BY <1>1, EngineInvariant, PTL
==============================================================================
