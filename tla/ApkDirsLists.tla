---------------------------- MODULE ApkDirsLists ----------------------------
(* The lists of instances of ApkDirs and what is computed from them: for any  *)
(* packages and directories, whatever the state.                              *)
EXTENDS ApkDirs, FiniteSetTheorems, WellFoundedInduction, TLAPS

------------------------------------------------------------------------------
(* Induction, as facts about sets of numbers.                                 *)

\* A set of numbers has a least element.
LEMMA LeastNat ==
  ASSUME NEW T \in SUBSET Nat, T # {}
  PROVE  \E x \in T : \A y \in T : x <= y
<1> DEFINE R == OpToRel(<, Nat)
<1>1. IsWellFoundedOn(R, Nat)
  BY NatLessThanWellFounded, Zenon
<1>2. \A x, y \in Nat : <<x, y>> \in R <=> x < y
  BY Zenon DEF OpToRel
<1> HIDE DEF R
<1>3. PICK x \in T : \A y \in T : ~(<<y, x>> \in R)
  BY <1>1, WFMin, Zenon
<1>4. \A y \in T : ~(y < x)
  BY <1>2, <1>3, Zenon
<1> QED BY <1>4

\* So what holds of 0, and of i when of i - 1, holds up to n.
LEMMA Induct ==
  ASSUME NEW n \in Nat, NEW S, 0 \in S, \A i \in 1..n : i - 1 \in S => i \in S
  PROVE  0..n \subseteq S
<1> SUFFICES ASSUME (0..n) \ S # {} PROVE FALSE
  BY Zenon
<1>1. (0..n) \ S \in SUBSET Nat
  OBVIOUS
<1>2. PICK x \in (0..n) \ S : \A y \in (0..n) \ S : x <= y
  BY <1>1, LeastNat, Zenon
<1> QED BY <1>2

\* A function can be defined from its value at the number before.
Iterates(h, n, V, a, F) == h \in [0..n -> V] /\ h[0] = a /\ \A i \in 1..n : h[i] = F[i][h[i-1]]

\* So a function defined by recursion on a number exists.
LEMMA Iterate ==
  ASSUME NEW n \in Nat, NEW V, NEW a \in V, NEW F \in [1..n -> [V -> V]]
  PROVE  \E h : Iterates(h, n, V, a, F)
<1> DEFINE Good(h, m) == h \in [0..m -> V] /\ h[0] = a /\ \A i \in 1..m : h[i] = F[i][h[i-1]]
           S == {m \in 0..n : \E h : Good(h, m)}
<1>1. 0 \in S
  <2>1. [i \in 0..0 |-> a] \in [0..0 -> V] /\ [i \in 0..0 |-> a][0] = a
    OBVIOUS
  <2>2. Good([i \in 0..0 |-> a], 0)
    BY <2>1
  <2> HIDE DEF Good
  <2> QED BY <2>2
<1>2. ASSUME NEW m \in 1..n, m - 1 \in S PROVE m \in S
  <2>1. PICK h : Good(h, m-1)
    BY <1>2, Zenon
  <2> DEFINE g == [i \in 0..m |-> IF i = m THEN F[m][h[m-1]] ELSE h[i]]
  <2>2. g \in [0..m -> V]
    BY <2>1
  <2>3. g[0] = a /\ \A i \in 1..m : g[i] = F[i][g[i-1]]
    BY <2>1
  <2> HIDE DEF g
  <2>4. Good(g, m)
    BY <2>2, <2>3, Zenon
  <2> HIDE DEF Good
  <2> QED BY <2>4
<1>3. 0..n \subseteq S
  <2> HIDE DEF S
  <2> QED BY <1>1, <1>2, Induct, Zenon
<1>4. \E h : Good(h, n)
  <2> HIDE DEF Good
  <2> QED BY <1>3
<1> QED BY <1>4, Zenon DEF Iterates

\* A finite set of packages has one whose name comes last, ...
LEMMA LastName ==
  ASSUME NEW U \in SUBSET Pkg, U # {}
  PROVE  \E m \in U : \A p \in U : NameRank[p] <= NameRank[m]
<1> DEFINE Above(p) == {q \in U : NameRank[q] > NameRank[p]}
           T == {Cardinality(Above(p)) : p \in U}
<1>1. \A p \in U : Above(p) \in SUBSET Pkg
  BY Zenon
<1>2. \A p \in U : NameRank[p] \in Nat
  BY ConstantsAssumption
<1>3. \A p \in U : IsFiniteSet(Above(p)) /\ Cardinality(Above(p)) \in Nat
  <2> HIDE DEF Above
  <2> QED BY <1>1, FS_Subset, FS_CardinalityType, ConstantsAssumption
<1>4. PICK m \in U : \A p \in U : Cardinality(Above(m)) <= Cardinality(Above(p))
  <2> HIDE DEF Above
  <2>1. T \in SUBSET Nat /\ T # {}
    BY <1>3, Zenon
  <2>2. PICK x \in T : \A y \in T : x <= y
    BY <2>1, LeastNat, Zenon
  <2> QED BY <2>2, Zenon
<1>5. ASSUME NEW p \in U, NameRank[p] > NameRank[m] PROVE FALSE
  <2>1. Above(p) \subseteq Above(m) /\ p \in Above(m) /\ p \notin Above(p)
    BY <1>2, <1>5
  <2> HIDE DEF Above
  <2>2. Cardinality(Above(p)) < Cardinality(Above(m))
    BY <1>3, <2>1, FS_Subset
  <2> QED BY <1>3, <1>4, <2>2
<1> QED BY <1>2, <1>5

\* ... and so can be put in order.
Ordered(s, U) ==
  /\ \A p \in U : \E i \in DOMAIN s : s[i] = p
  /\ \A i, j \in DOMAIN s : i < j => NameRank[s[i]] <= NameRank[s[j]]

\* The packages can be put in the order of their names.
LEMMA OrderExists ==
  ASSUME NEW U \in SUBSET Pkg
  PROVE  \E s \in [1..Cardinality(U) -> U] : Ordered(s, U)
<1> DEFINE S == {n \in Nat : \A V \in SUBSET Pkg :
                   Cardinality(V) = n => \E s \in [1..n -> V] : Ordered(s, V)}
<1>0. \A V \in SUBSET Pkg : IsFiniteSet(V) /\ Cardinality(V) \in Nat
  BY FS_Subset, FS_CardinalityType, ConstantsAssumption
<1>1. 0 \in S
  <2> SUFFICES ASSUME NEW V \in SUBSET Pkg, Cardinality(V) = 0
               PROVE  \E s \in [1..0 -> V] : Ordered(s, V)
    BY Zenon
  <2>1. V = {}
    BY <1>0, FS_EmptySet, Zenon
  <2>2. [i \in 1..0 |-> i] \in [1..0 -> V] /\ Ordered([i \in 1..0 |-> i], V)
    BY <2>1 DEF Ordered
  <2> QED BY <2>2, Zenon
<1>2. ASSUME NEW n \in 1..Cardinality(U), n - 1 \in S PROVE n \in S
  <2>0. n \in Nat
    BY <1>0
  <2> SUFFICES ASSUME NEW V \in SUBSET Pkg, Cardinality(V) = n
               PROVE  \E s \in [1..n -> V] : Ordered(s, V)
    BY <2>0, Zenon
  <2>1. V # {}
    BY <1>0, FS_EmptySet
  <2>2. PICK m \in V : \A p \in V : NameRank[p] <= NameRank[m]
    BY <2>1, LastName, Zenon
  <2>3. V \ {m} \in SUBSET Pkg /\ Cardinality(V \ {m}) = n - 1
    BY <1>0, FS_RemoveElement, Zenon
  <2>4. PICK s \in [1..(n-1) -> V \ {m}] : Ordered(s, V \ {m})
    BY <1>2, <2>3, Zenon
  <2> DEFINE t == [i \in 1..n |-> IF i = n THEN m ELSE s[i]]
  <2>5. t \in [1..n -> V]
    OBVIOUS
  <2>6. \A p \in V : \E i \in 1..n : t[i] = p
    BY <2>0, <2>4 DEF Ordered
  <2>7. \A i, j \in 1..n : i < j => NameRank[t[i]] <= NameRank[t[j]]
    BY <2>2, <2>4 DEF Ordered
  <2> HIDE DEF t
  <2> QED BY <2>5, <2>6, <2>7, Zenon DEF Ordered
<1> HIDE DEF S
<1>3. Cardinality(U) \in S
  BY <1>0, <1>1, <1>2, Induct
<1> QED BY <1>3, Zenon DEF S

\* The packages that have a directory, in the order of the database.
LEMMA UsersType ==
  ASSUME NEW S \in SUBSET Pkg, NEW d
  PROVE  /\ Users(S, d) \in Seq(Pkg) /\ Len(Users(S, d)) \in Nat
         /\ DOMAIN Users(S, d) = 1..Len(Users(S, d))
         /\ \A i \in 1..Len(Users(S, d)) : Users(S, d)[i] \in Pkg
         /\ \A i \in 1..Len(Users(S, d)) : Users(S, d)[i] \in S /\ d \in DirsOf[Users(S, d)[i]]
         /\ \A p \in S : d \in DirsOf[p] => \E i \in 1..Len(Users(S, d)) : Users(S, d)[i] = p
<1> DEFINE U == {p \in S : d \in DirsOf[p]}
<1>1. U \in SUBSET Pkg
  BY Zenon
<1>2. Users(S, d) = CHOOSE s \in [1..Cardinality(U) -> U] : Ordered(s, U)
  BY Zenon DEF Users, Ordered
<1>3. \A p : p \in U <=> p \in S /\ d \in DirsOf[p]
  BY Zenon
<1> HIDE DEF U
<1>4. Cardinality(U) \in Nat
  BY <1>1, FS_Subset, FS_CardinalityType, ConstantsAssumption
<1>5. Users(S, d) \in [1..Cardinality(U) -> U] /\ Ordered(Users(S, d), U)
  BY <1>1, <1>2, OrderExists, Zenon
<1>6. Users(S, d) \in Seq(Pkg) /\ Len(Users(S, d)) = Cardinality(U) /\ DOMAIN Users(S, d) = 1..Cardinality(U)
  BY <1>1, <1>4, <1>5
<1>7. \A i \in 1..Cardinality(U) : Users(S, d)[i] \in U
  BY <1>5, Zenon
<1>8. \A p \in U : \E i \in 1..Cardinality(U) : Users(S, d)[i] = p
  BY <1>5, Zenon DEF Ordered
<1> QED BY <1>1, <1>3, <1>4, <1>6, <1>7, <1>8, Zenon

\* The owner that is elected is one of the packages met.
LEMMA ElectType ==
  ASSUME NEW s \in Seq(Pkg), NEW rm
  PROVE  IF s = <<>> THEN Elect(s, rm) = None ELSE \E j \in 1..Len(s) : Elect(s, rm) = s[j]
<1> DEFINE V == Pkg \cup {None}
           F == [i \in 1..Len(s) |->
                   [v \in V |-> IF v = None \/ ReplacesDir(v, s[i], rm) THEN s[i] ELSE v]]
           Body(g) == [i \in 0..Len(s) |->
                         IF i = 0 THEN None
                         ELSE IF g[i-1] = None \/ ReplacesDir(g[i-1], s[i], rm) THEN s[i] ELSE g[i-1]]
           o == CHOOSE g : g = Body(g)
<1>0. Len(s) \in Nat /\ \A i \in 1..Len(s) : s[i] \in Pkg
  OBVIOUS
<1>1. F \in [1..Len(s) -> [V -> V]] /\ None \in V
  BY <1>0, Zenon
<1>2. PICK h : Iterates(h, Len(s), V, None, F)
  <2> HIDE DEF F, V
  <2> QED BY <1>0, <1>1, Iterate, Zenon
<1>3. h = Body(h)
  <2>1. \A i \in 1..Len(s) : h[i-1] \in V /\ h[i] = F[i][h[i-1]]
    <3> HIDE DEF F, V
    <3> QED BY <1>0, <1>2 DEF Iterates
  <2>2. \A i \in 1..Len(s) :
          h[i] = IF h[i-1] = None \/ ReplacesDir(h[i-1], s[i], rm) THEN s[i] ELSE h[i-1]
    BY <2>1, Zenon
  <2>3. \A i \in 0..Len(s) : i = 0 \/ i \in 1..Len(s)
    BY <1>0
  <2> QED BY <1>2, <2>2, <2>3, Zenon DEF Iterates
<1>4. o = Body(o)
  <2> HIDE DEF Body
  <2> QED BY <1>3, Zenon
<1>5. Elect(s, rm) = o[Len(s)]
  BY Zenon DEF Elect
<1> HIDE DEF o
<1> DEFINE S == {i \in 0..Len(s) : IF i = 0 THEN o[i] = None ELSE \E j \in 1..i : o[i] = s[j]}
<1>6. 0 \in S
  BY <1>0, <1>4
<1>7. ASSUME NEW i \in 1..Len(s), i - 1 \in S PROVE i \in S
  <2>1. o[i] = IF o[i-1] = None \/ ReplacesDir(o[i-1], s[i], rm) THEN s[i] ELSE o[i-1]
    BY <1>0, <1>4
  <2>2. IF i - 1 = 0 THEN o[i-1] = None ELSE \E j \in 1..(i-1) : o[i-1] = s[j]
    BY <1>7, Zenon
  <2>3. \E j \in 1..i : o[i] = s[j]
    BY <1>0, <2>1, <2>2
  <2> QED BY <1>0, <2>3
<1>8. 0..Len(s) \subseteq S
  <2> HIDE DEF S
  <2> QED BY <1>0, <1>6, <1>7, Induct, Zenon
<1>9. IF Len(s) = 0 THEN o[Len(s)] = None ELSE \E j \in 1..Len(s) : o[Len(s)] = s[j]
  BY <1>0, <1>8
<1> QED BY <1>0, <1>5, <1>9

------------------------------------------------------------------------------
(* Lists.                                                                     *)

\* What the nodes of the list of d may point to.
Family(d) == {d, Poison} \cup (Pkg \X {d})

Linked(d, nx) == \A x \in Family(d) \ {Poison} : nx[x] \in Family(d)

\* A node belongs to one directory.
LEMMA FamilyApart ==
  ASSUME NEW d \in Dir, NEW x \in Family(d), x # Poison
  PROVE  /\ x \in Node \cup Dir
         /\ x # d => x \in Node /\ x[1] \in Pkg /\ x = <<x[1], d>>
         /\ \A e \in Dir : x \in Family(e) => e = d
BY ConstantsAssumption DEF Family, Node

\* The nodes met from the head of a list, one after the other.
LEMMA StepsType ==
  ASSUME NEW d \in Dir, NEW nx, Linked(d, nx)
  PROVE  /\ Steps(d, nx) \in [0..(Cardinality(Pkg) + 1) -> Family(d)]
         /\ Steps(d, nx)[0] = nx[d]
         /\ \A i \in 1..(Cardinality(Pkg) + 1) :
              Steps(d, nx)[i] = IF Steps(d, nx)[i-1] \in {d, Poison} THEN Steps(d, nx)[i-1]
                                ELSE nx[Steps(d, nx)[i-1]]
<1> DEFINE n == Cardinality(Pkg) + 1
           f == [v \in Family(d) |-> IF v \in {d, Poison} THEN v ELSE nx[v]]
           F == [i \in 1..n |-> f]
           Body(g) == [i \in 0..n |-> IF i = 0 THEN nx[d]
                                      ELSE IF g[i-1] \in {d, Poison} THEN g[i-1] ELSE nx[g[i-1]]]
           at == CHOOSE g : g = Body(g)
<1>0. n \in Nat
  BY FS_CardinalityType, ConstantsAssumption
<1>1. Steps(d, nx) = at
  BY Zenon DEF Steps
<1>2. d \in Family(d) /\ d # Poison
  BY ConstantsAssumption DEF Family
<1>3. nx[d] \in Family(d) /\ f \in [Family(d) -> Family(d)]
  BY <1>2, Zenon DEF Linked
<1> HIDE DEF n
<1>4. F \in [1..n -> [Family(d) -> Family(d)]]
  BY <1>3, Zenon
<1>5. PICK h : Iterates(h, n, Family(d), nx[d], F)
  <2> HIDE DEF F, f
  <2> QED BY <1>0, <1>3, <1>4, Iterate, Zenon
<1>6. h = Body(h)
  <2>1. \A i \in 1..n : h[i-1] \in Family(d) /\ h[i] = F[i][h[i-1]]
    BY <1>0, <1>5 DEF Iterates
  <2>2. \A i \in 1..n : h[i] = IF h[i-1] \in {d, Poison} THEN h[i-1] ELSE nx[h[i-1]]
    BY <2>1, Zenon
  <2>3. \A i \in 0..n : i = 0 \/ i \in 1..n
    BY <1>0
  <2> QED BY <1>5, <2>2, <2>3, Zenon DEF Iterates
<1>7. at = Body(at)
  <2> HIDE DEF Body
  <2> QED BY <1>6, Zenon
<1> HIDE DEF at
<1>8. /\ at[0] = nx[d]
      /\ \A i \in 1..n : at[i] = IF at[i-1] \in {d, Poison} THEN at[i-1] ELSE nx[at[i-1]]
  BY <1>0, <1>7
<1> DEFINE S == {i \in 0..n : at[i] \in Family(d)}
<1>9. 0 \in S
  BY <1>0, <1>3, <1>8
<1>10. ASSUME NEW i \in 1..n, i - 1 \in S PROVE i \in S
  BY <1>0, <1>8, <1>10 DEF Linked
<1>11. 0..n \subseteq S
  <2> HIDE DEF S
  <2> QED BY <1>0, <1>9, <1>10, Induct, Zenon
<1>12. at \in [0..n -> Family(d)]
  BY <1>7, <1>11, Zenon
<1> QED BY <1>1, <1>8, <1>12, Zenon DEF n

\* A walk that comes back to the head meets packages only.
LEMMA WalkType ==
  ASSUME NEW d \in Dir, NEW nx, Linked(d, nx), WalkReturns(d, nx)
  PROVE  Walk(d, nx) \in Seq(Pkg)
<1> DEFINE n == Cardinality(Pkg) + 1
           at == Steps(d, nx)
           T == {i \in 0..n : at[i] = d}
<1>0. n \in Nat
  BY FS_CardinalityType, ConstantsAssumption
<1>1. /\ at \in [0..n -> Family(d)] /\ at[n] = d
      /\ \A i \in 1..n : at[i-1] \in {d, Poison} => at[i] = at[i-1]
  BY StepsType, Zenon DEF WalkReturns
<1>2. Walk(d, nx) = [i \in 1..Cardinality({i \in DOMAIN at : at[i] # d}) |-> at[i-1][1]]
  BY Zenon DEF Walk
<1> HIDE DEF n, at
<1>3. PICK m \in T : \A i \in T : m <= i
  <2>1. T \in SUBSET Nat /\ n \in T
    BY <1>0, <1>1
  <2> HIDE DEF T
  <2> QED BY <2>1, LeastNat, Zenon
<1>4. \A j \in 0..n : at[j] \in {d, Poison} => at[j] = d
  <2> SUFFICES ASSUME NEW j \in 0..n, at[j] = Poison PROVE FALSE
    BY ConstantsAssumption, Zenon
  <2> DEFINE S == {k \in 0..n : j + k <= n => at[j + k] = Poison}
  <2>1. 0 \in S
    BY <1>0
  <2>2. \A k \in 1..n : k - 1 \in S => k \in S
    BY <1>0, <1>1
  <2>3. 0..n \subseteq S
    <3> HIDE DEF S
    <3> QED BY <1>0, <2>1, <2>2, Induct, Zenon
  <2>4. n - j \in 0..n /\ j + (n - j) = n
    BY <1>0
  <2>5. at[n] = Poison
    BY <2>3, <2>4
  <2> QED BY <1>1, <2>5, ConstantsAssumption
<1>5. \A j \in 0..n : j >= m => at[j] = d
  <2> DEFINE S == {k \in 0..n : k >= m => at[k] = d}
  <2>1. 0 \in S
    BY <1>0, <1>3
  <2>2. \A k \in 1..n : k - 1 \in S => k \in S
    BY <1>0, <1>1, <1>3
  <2>3. 0..n \subseteq S
    <3> HIDE DEF S
    <3> QED BY <1>0, <2>1, <2>2, Induct, Zenon
  <2> QED BY <2>3, Zenon
<1>6. {i \in DOMAIN at : at[i] # d} = 0..(m-1)
  BY <1>0, <1>1, <1>3, <1>5
<1>7. Cardinality(0..(m-1)) = m /\ m \in Nat
  <2>1. 0 \in Int /\ m - 1 \in Int /\ m \in Nat
    BY <1>0, <1>3
  <2> QED BY <2>1, FS_Interval
<1>8. Walk(d, nx) = [i \in 1..m |-> at[i-1][1]]
  BY <1>2, <1>6, <1>7, Zenon
<1>9. \A i \in 1..m : at[i-1][1] \in Pkg
  <2> SUFFICES ASSUME NEW i \in 1..m PROVE at[i-1][1] \in Pkg
    BY Zenon
  <2>1. i - 1 \in 0..n /\ at[i-1] # d
    BY <1>0, <1>3
  <2>2. at[i-1] \in Family(d) /\ at[i-1] # Poison
    BY <1>1, <1>4, <2>1, Zenon
  <2> QED BY <2>1, <2>2, FamilyApart, Zenon
<1> QED BY <1>7, <1>8, <1>9

------------------------------------------------------------------------------
(* Doubly linked lists.                                                       *)

\* The i-th node of a list of d that holds the packages s; the head is before and after all.
At(d, s, i) == IF i \in 1..Len(s) THEN <<s[i], d>> ELSE d

\* The first and the last neighbour of the head.
LEMMA AtHead ==
  ASSUME NEW d, NEW s, Len(s) \in Nat
  PROVE  /\ At(d, s, 0) = d /\ At(d, s, 0 + 1) = IF Len(s) = 0 THEN d ELSE <<s[1], d>>
         /\ At(d, s, Len(s) + 1) = d
         /\ At(d, s, Len(s) + 1 - 1) = IF Len(s) = 0 THEN d ELSE <<s[Len(s)], d>>
BY DEF At

\* The neighbours of a node.
LEMMA AtNeighbours ==
  ASSUME NEW d, NEW s, Len(s) \in Nat, NEW i \in 1..Len(s)
  PROVE  /\ At(d, s, i) = <<s[i], d>>
         /\ At(d, s, i + 1) = IF i = Len(s) THEN d ELSE <<s[i + 1], d>>
         /\ At(d, s, i - 1) = IF i = 1 THEN d ELSE <<s[i - 1], d>>
BY DEF At

IsList(d, s, nx, pv) ==
  /\ \A i, j \in 1..Len(s) : i # j => s[i] # s[j]
  /\ \A i \in 0..Len(s) : nx[At(d, s, i)] = At(d, s, i + 1)
  /\ \A i \in 1..(Len(s) + 1) : pv[At(d, s, i)] = At(d, s, i - 1)

\* The node of p is not the head.
LEMMA NodeApart ==
  ASSUME NEW d \in Dir, NEW p \in Pkg
  PROVE  /\ <<p, d>> \in Node /\ <<p, d>> \in Family(d) \ {Poison} /\ <<p, d>> # d
         /\ d \in Family(d) \ {Poison}
<1>1. <<p, d>> \in Node /\ <<p, d>> \in Pkg \X {d}
  BY Zenon DEF Node
<1>2. <<p, d>> # Poison /\ <<p, d>> # d /\ d # Poison
  <2> HIDE DEF Node
  <2> QED BY <1>1, ConstantsAssumption
<1>3. <<p, d>> \in Family(d) /\ d \in Family(d)
  BY <1>1, Zenon DEF Family
<1> QED BY <1>1, <1>2, <1>3, Zenon

\* The i-th node of a list, the head before the first and behind the last.
LEMMA AtNode ==
  ASSUME NEW d \in Dir, NEW s \in Seq(Pkg), NEW i
  PROVE  /\ At(d, s, i) \in Family(d) /\ At(d, s, i) # Poison
         /\ i \in 1..Len(s) => At(d, s, i) # d /\ At(d, s, i) = <<s[i], d>> /\ At(d, s, i)[1] = s[i]
         /\ i \notin 1..Len(s) => At(d, s, i) = d
<1>1. i \in 1..Len(s) => s[i] \in Pkg
  OBVIOUS
<1>2. \A p \in Pkg : <<p, d>> \in Node /\ <<p, d>> # d /\ <<p, d>> # Poison
  BY ConstantsAssumption DEF Node
<1> QED BY <1>1, <1>2, ConstantsAssumption DEF At, Family

\* Only the links of a list's own nodes matter.
LEMMA ListSame ==
  ASSUME NEW d \in Dir, NEW s \in Seq(Pkg), NEW nx, NEW pv, NEW nx2, NEW pv2, IsList(d, s, nx, pv),
         \A x \in Family(d) \ {Poison} : nx2[x] = nx[x] /\ pv2[x] = pv[x]
  PROVE  IsList(d, s, nx2, pv2)
BY AtNode DEF IsList

\* A head that points at itself is the empty list.
LEMMA ListEmpty ==
  ASSUME NEW d \in Dir, NEW nx, NEW pv, nx[d] = d, pv[d] = d
  PROVE  IsList(d, <<>>, nx, pv)
BY DEF IsList, At

\* list_add_tail puts a package at the end.
LEMMA ListAppend ==
  ASSUME NEW d \in Dir, NEW s \in Seq(Pkg), NEW p \in Pkg, NEW nx, NEW pv, NEW nx2, NEW pv2,
         IsList(d, s, nx, pv), \A i \in 1..Len(s) : s[i] # p,
         \A x \in Family(d) \ {Poison} :
            /\ nx2[x] = IF x = pv[d] THEN <<p, d>> ELSE IF x = <<p, d>> THEN d ELSE nx[x]
            /\ pv2[x] = IF x = d THEN <<p, d>> ELSE IF x = <<p, d>> THEN pv[d] ELSE pv[x]
  PROVE  IsList(d, Append(s, p), nx2, pv2)
<1> DEFINE t == Append(s, p)
           n == Len(s)
<1>1. n \in Nat /\ Len(t) = n + 1 /\ t \in Seq(Pkg) /\ t[n+1] = p /\ \A i \in 1..n : t[i] = s[i]
  OBVIOUS
<1> HIDE DEF t
<1>2. \A i \in 0..n : At(d, t, i) = At(d, s, i)
  <2> SUFFICES ASSUME NEW i \in 0..n PROVE At(d, t, i) = At(d, s, i)
    BY Zenon
  <2>1. i \in 1..Len(t) <=> i \in 1..Len(s)
    BY <1>1
  <2>2. i \in 1..Len(s) => t[i] = s[i]
    BY <1>1, Zenon
  <2> HIDE DEF n
  <2> QED BY <2>1, <2>2, Zenon DEF At
<1>3. At(d, t, n + 1) = <<p, d>> /\ At(d, t, n + 2) = d /\ At(d, s, n + 1) = d /\ At(d, s, 0) = d
  BY <1>1 DEF At
<1>4. \A i \in 0..n : At(d, s, i) # <<p, d>>
  <2>1. <<p, d>> # d
    BY ConstantsAssumption, Zenon DEF Node
  <2> QED BY <1>1, <2>1, Zenon DEF At
<1>5. pv[d] = At(d, s, n)
  BY <1>1, <1>3 DEF IsList
<1>6. \A i \in 0..(n-1) : At(d, s, i) # At(d, s, n)
  BY <1>1, AtNode DEF IsList
<1>7. \A i \in Int : At(d, s, i) \in Family(d) \ {Poison} /\ At(d, t, i) \in Family(d) \ {Poison}
  BY <1>1, AtNode
<1>a. /\ <<p, d>> \in Family(d) \ {Poison} /\ <<p, d>> # d /\ d \in Family(d) \ {Poison}
      /\ pv[d] # <<p, d>>
  <2>1. n \in 0..n
    BY <1>1
  <2>2. pv[d] # <<p, d>>
    BY <1>4, <1>5, <2>1, Zenon
  <2> QED BY <2>2, NodeApart, Zenon
<1>b. \A i, j \in 1..n : i # j => s[i] # s[j]
  BY Zenon DEF IsList
<1> HIDE DEF n
<1>8. \A i \in 0..(n+1) : nx2[At(d, t, i)] = At(d, t, i + 1)
  <2>1. \A i \in 0..(n-1) : nx2[At(d, s, i)] = At(d, s, i + 1)
    <3>1. \A i \in 0..(n-1) : nx[At(d, s, i)] = At(d, s, i + 1)
      BY <1>1 DEF IsList, n
    <3> QED BY <1>1, <1>4, <1>5, <1>6, <1>7, <3>1
  <2>2. nx2[At(d, s, n)] = <<p, d>>
    BY <1>1, <1>5, <1>7
  <2>3. nx2[<<p, d>>] = d
    BY <1>a, Zenon
  <2> SUFFICES ASSUME NEW i \in 0..(n+1) PROVE nx2[At(d, t, i)] = At(d, t, i + 1)
    BY Zenon
  <2>4. CASE i \in 0..(n-1)
    <3>1. i \in 0..n /\ i + 1 \in 0..n
      BY <1>1, <2>4
    <3> QED BY <1>2, <2>1, <2>4, <3>1, Zenon
  <2>5. CASE i = n
    <3>1. i \in 0..n /\ i + 1 = n + 1
      BY <1>1, <2>5
    <3> QED BY <1>2, <1>3, <2>2, <2>5, <3>1, Zenon
  <2>6. CASE i = n + 1
    <3>1. i + 1 = n + 2
      BY <1>1, <2>6
    <3> QED BY <1>3, <2>3, <2>6, <3>1, Zenon
  <2> QED BY <1>1, <2>4, <2>5, <2>6
<1>9. \A i \in 1..(n+2) : pv2[At(d, t, i)] = At(d, t, i - 1)
  <2>1. \A i \in 1..n : pv2[At(d, s, i)] = At(d, s, i - 1)
    <3>1. \A i \in 1..n : pv[At(d, s, i)] = At(d, s, i - 1) /\ At(d, s, i) # d
      BY <1>1, AtNode DEF IsList, n
    <3> QED BY <1>1, <1>4, <1>7, <3>1
  <2>2. pv2[d] = <<p, d>>
    BY <1>3, <1>7
  <2>3. pv2[<<p, d>>] = At(d, s, n)
    BY <1>5, <1>a, Zenon
  <2> SUFFICES ASSUME NEW i \in 1..(n+2) PROVE pv2[At(d, t, i)] = At(d, t, i - 1)
    BY Zenon
  <2>4. CASE i \in 1..n
    <3>1. i \in 0..n /\ i - 1 \in 0..n
      BY <1>1, <2>4
    <3> QED BY <1>2, <2>1, <2>4, <3>1, Zenon
  <2>5. CASE i = n + 1
    <3>1. i - 1 = n /\ n \in 0..n
      BY <1>1, <2>5
    <3> QED BY <1>2, <1>3, <2>3, <2>5, <3>1, Zenon
  <2>6. CASE i = n + 2
    <3>1. i - 1 = n + 1
      BY <1>1, <2>6
    <3> QED BY <1>3, <2>2, <2>6, <3>1, Zenon
  <2> QED BY <1>1, <2>4, <2>5, <2>6
<1>10. \A i, j \in 1..(n+1) : i # j => t[i] # t[j]
  BY <1>1, <1>b DEF n
<1>11. n + 1 + 1 = n + 2
  BY <1>1
<1> QED BY <1>1, <1>8, <1>9, <1>10, <1>11, Zenon DEF IsList, t

\* t holds the packages of s but the k-th.
Without(t, s, k) ==
  \A p : (\E i \in 1..Len(t) : t[i] = p) <=> (\E i \in 1..Len(s) : s[i] = p) /\ p # s[k]

\* A function on 1..n is a sequence of length n.
LEMMA FunctionIsSequence ==
  ASSUME NEW S, NEW n \in Nat, NEW f \in [1..n -> S]
  PROVE  f \in Seq(S) /\ Len(f) = n
OBVIOUS

\* list_del takes the k-th package out.
LEMMA ListDelete ==
  ASSUME NEW d \in Dir, NEW s \in Seq(Pkg), NEW k \in 1..Len(s), NEW nx, NEW pv, NEW nx2, NEW pv2,
         IsList(d, s, nx, pv),
         \A x \in Family(d) \ {Poison, <<s[k], d>>} :
            /\ nx2[x] = IF x = pv[<<s[k], d>>] THEN nx[<<s[k], d>>] ELSE nx[x]
            /\ pv2[x] = IF x = nx[<<s[k], d>>] THEN pv[<<s[k], d>>] ELSE pv[x]
  PROVE  \E t \in Seq(Pkg) : IsList(d, t, nx2, pv2) /\ Without(t, s, k)
<1> DEFINE n == Len(s)
           up(i) == IF i < k THEN i ELSE i + 1
           t == [i \in 1..(n-1) |-> s[up(i)]]
<1>0. n \in Nat /\ k \in 1..n /\ (\A i \in 1..n : s[i] \in Pkg)
  OBVIOUS
<1>1. \A i, j \in 1..n : i # j => s[i] # s[j]
  BY Zenon DEF IsList
<1>2. /\ \A i \in 0..n : nx[At(d, s, i)] = At(d, s, i + 1)
      /\ \A i \in 1..(n+1) : pv[At(d, s, i)] = At(d, s, i - 1)
  BY Zenon DEF IsList
<1>3. \A i \in 1..(n-1) : up(i) \in 1..n /\ up(i) # k
  BY <1>0
<1>4. t \in Seq(Pkg) /\ Len(t) = n - 1 /\ \A i \in 1..(n-1) : t[i] = s[up(i)]
  <2>1. n - 1 \in Nat /\ t \in [1..(n-1) -> Pkg]
    BY <1>0, <1>3
  <2>2. \A i \in 1..(n-1) : t[i] = s[up(i)]
    BY Zenon
  <2> HIDE DEF n, up, t
  <2>3. t \in Seq(Pkg) /\ Len(t) = n - 1
    BY <2>1, FunctionIsSequence
  <2> QED BY <2>2, <2>3, Zenon
<1> HIDE DEF t, n
<1>5. ASSUME NEW i \in 0..n
      PROVE  At(d, t, i) = At(d, s, up(i)) /\ up(i) \in 0..(n+1) /\ up(i) # k
  <2>1. up(i) \in 0..(n+1) /\ up(i) # k /\ (up(i) \in 1..n <=> i \in 1..(n-1))
    BY <1>0
  <2> HIDE DEF up
  <2> QED BY <1>4, <2>1, Zenon DEF At, n
<1>6. At(d, s, k) = <<s[k], d>> /\ nx[<<s[k], d>>] = At(d, s, k+1) /\ pv[<<s[k], d>>] = At(d, s, k-1)
  <2>1. At(d, s, k) = <<s[k], d>>
    BY <1>0, Zenon DEF At
  <2> QED BY <1>0, <1>2, <2>1
<1>7. \A i, j \in 0..(n+1) : At(d, s, i) = At(d, s, j) => i = j \/ (i = 0 /\ j = n + 1) \/ (i = n + 1 /\ j = 0)
  <2> SUFFICES ASSUME NEW i \in 0..(n+1), NEW j \in 0..(n+1), At(d, s, i) = At(d, s, j), i # j
               PROVE  (i = 0 /\ j = n + 1) \/ (i = n + 1 /\ j = 0)
    BY Zenon
  <2>1. i \in 1..n => At(d, s, i) # d /\ At(d, s, i)[1] = s[i]
    BY AtNode DEF n
  <2>2. j \in 1..n => At(d, s, j) # d /\ At(d, s, j)[1] = s[j]
    BY AtNode DEF n
  <2>3. i \notin 1..n => At(d, s, i) = d
    BY AtNode, Zenon DEF n
  <2>4. j \notin 1..n => At(d, s, j) = d
    BY AtNode, Zenon DEF n
  <2>5. i \notin 1..n /\ j \notin 1..n
    BY <1>1, <2>1, <2>2, <2>3, <2>4
  <2> QED BY <1>0, <2>5
<1>8. \A i \in 0..(n+1) : i # k => At(d, s, i) \in Family(d) \ {Poison, <<s[k], d>>}
  <2> SUFFICES ASSUME NEW i \in 0..(n+1), i # k PROVE At(d, s, i) \in Family(d) \ {Poison, <<s[k], d>>}
    BY Zenon
  <2>1. At(d, s, i) \in Family(d) \ {Poison}
    BY AtNode
  <2>2. At(d, s, i) # At(d, s, k)
    BY <1>0, <1>7
  <2> QED BY <1>6, <2>1, <2>2, Zenon
<1>9. ASSUME NEW i \in 0..(n-1) PROVE nx2[At(d, t, i)] = At(d, t, i + 1)
  <2>1. /\ i \in 0..n /\ i + 1 \in 0..n /\ up(i) \in 0..n /\ k - 1 \in 0..(n+1)
        /\ (up(i) = k - 1 => up(i + 1) = k + 1)
        /\ (up(i) # k - 1 => up(i + 1) = up(i) + 1)
    BY <1>0
  <2>2. up(i) # k /\ At(d, t, i) = At(d, s, up(i)) /\ At(d, t, i + 1) = At(d, s, up(i + 1))
    BY <1>5, <2>1, Zenon
  <2> HIDE DEF up
  <2>3. At(d, s, up(i)) = At(d, s, k - 1) => up(i) = k - 1
    <3>1. /\ up(i) \in 0..(n+1)
          /\ ~(up(i) = 0 /\ k - 1 = n + 1) /\ ~(up(i) = n + 1 /\ k - 1 = 0)
      BY <1>0, <2>1
    <3> QED BY <1>7, <2>1, <3>1, Zenon
  <2>4. nx2[At(d, s, up(i))] = IF up(i) = k - 1 THEN At(d, s, k + 1) ELSE At(d, s, up(i) + 1)
    <3>1. up(i) \in 0..(n+1) /\ nx[At(d, s, up(i))] = At(d, s, up(i) + 1)
      BY <1>0, <1>2, <2>1
    <3> QED BY <1>6, <1>8, <2>2, <2>3, <3>1, Zenon
  <2> QED BY <2>1, <2>2, <2>4, Zenon
<1>10. ASSUME NEW i \in 1..n PROVE pv2[At(d, t, i)] = At(d, t, i - 1)
  <2>1. /\ i \in 0..n /\ i - 1 \in 0..n /\ up(i) \in 1..(n+1) /\ k + 1 \in 0..(n+1)
        /\ (up(i) = k + 1 => up(i - 1) = k - 1)
        /\ (up(i) # k + 1 => up(i - 1) = up(i) - 1)
    BY <1>0
  <2>2. up(i) # k /\ At(d, t, i) = At(d, s, up(i)) /\ At(d, t, i - 1) = At(d, s, up(i - 1))
    BY <1>5, <2>1, Zenon
  <2> HIDE DEF up
  <2>3. At(d, s, up(i)) = At(d, s, k + 1) => up(i) = k + 1
    <3>1. /\ up(i) \in 0..(n+1)
          /\ ~(up(i) = 0 /\ k + 1 = n + 1) /\ ~(up(i) = n + 1 /\ k + 1 = 0)
      BY <1>0, <2>1
    <3> QED BY <1>7, <2>1, <3>1, Zenon
  <2>4. pv2[At(d, s, up(i))] = IF up(i) = k + 1 THEN At(d, s, k - 1) ELSE At(d, s, up(i) - 1)
    <3>1. up(i) \in 0..(n+1) /\ pv[At(d, s, up(i))] = At(d, s, up(i) - 1)
      BY <1>0, <1>2, <2>1
    <3> QED BY <1>6, <1>8, <2>2, <2>3, <3>1, Zenon
  <2> QED BY <2>1, <2>2, <2>4, Zenon
<1>11. \A i, j \in 1..(n-1) : i # j => t[i] # t[j]
  <2> SUFFICES ASSUME NEW i \in 1..(n-1), NEW j \in 1..(n-1), i # j PROVE t[i] # t[j]
    BY Zenon
  <2>1. up(i) \in 1..n /\ up(j) \in 1..n /\ up(i) # up(j)
    BY <1>0
  <2> HIDE DEF up
  <2> QED BY <1>1, <1>4, <2>1
<1>12. IsList(d, t, nx2, pv2)
  <2>1. n - 1 + 1 = n
    BY <1>0
  <2> QED BY <1>4, <1>9, <1>10, <1>11, <2>1, Zenon DEF IsList
<1>13. ASSUME NEW p
       PROVE  (\E i \in 1..Len(t) : t[i] = p) <=> (\E i \in 1..n : s[i] = p) /\ p # s[k]
  <2>1. ASSUME NEW i \in 1..(n-1), t[i] = p PROVE (\E j \in 1..n : s[j] = p) /\ p # s[k]
    BY <1>0, <1>1, <1>3, <1>4, <2>1
  <2>2. ASSUME NEW i \in 1..n, s[i] = p, p # s[k] PROVE \E j \in 1..(n-1) : t[j] = p
    <3>1. i # k
      BY <2>2, Zenon
    <3> DEFINE j == IF i < k THEN i ELSE i - 1
    <3>2. j \in 1..(n-1) /\ up(j) = i
      BY <1>0, <3>1
    <3> HIDE DEF j
    <3> QED BY <1>4, <2>2, <3>2, Zenon
  <2> HIDE DEF up
  <2> QED BY <1>4, <2>1, <2>2, Zenon
<1> QED BY <1>4, <1>12, <1>13, Zenon DEF Without, n

\* The walk over a list meets its packages, in order, and comes back.
LEMMA ListWalk ==
  ASSUME NEW d \in Dir, NEW s \in Seq(Pkg), NEW nx, NEW pv, IsList(d, s, nx, pv), Linked(d, nx)
  PROVE  WalkReturns(d, nx) /\ Walk(d, nx) = s
<1> DEFINE n == Cardinality(Pkg) + 1
           m == Len(s)
           at == Steps(d, nx)
<1>0. m \in Nat /\ n \in Nat /\ \A i \in 1..m : s[i] \in Pkg
  BY FS_CardinalityType, ConstantsAssumption
<1>1. m < n
  <2>1. s \in Injection(1..m, Pkg)
    <3>1. s \in [1..m -> Pkg] /\ \A i, j \in 1..m : s[i] = s[j] => i = j
      BY <1>0 DEF IsList
    <3> QED BY <3>1, Zenon DEF Injection, IsInjective
  <2>2. IsFiniteSet(1..m) /\ Cardinality(1..m) = m
    <3>1. 1 \in Int /\ m \in Int
      BY <1>0
    <3>2. IsFiniteSet(1..m) /\ Cardinality(1..m) = IF 1 > m THEN 0 ELSE m - 1 + 1
      BY <3>1, FS_Interval, Zenon
    <3> QED BY <1>0, <3>2
  <2>3. Cardinality(1..m) <= Cardinality(Pkg)
    BY <2>1, FS_Injection, ConstantsAssumption
  <2>4. Cardinality(Pkg) \in Nat
    BY FS_CardinalityType, ConstantsAssumption
  <2> QED BY <1>0, <2>2, <2>3, <2>4
<1>2. /\ at \in [0..n -> Family(d)] /\ at[0] = nx[d]
      /\ \A i \in 1..n : at[i] = IF at[i-1] \in {d, Poison} THEN at[i-1] ELSE nx[at[i-1]]
  BY StepsType
<1>3. WalkReturns(d, nx) = (at[n] = d)
  BY Zenon DEF WalkReturns
<1>4. Walk(d, nx) = [i \in 1..Cardinality({i \in DOMAIN at : at[i] # d}) |-> at[i-1][1]]
  BY Zenon DEF Walk
<1> HIDE DEF n, at
<1> DEFINE S == {i \in 0..n : at[i] = At(d, s, i + 1)}
<1>5. 0 \in S
  <2>1. At(d, s, 0) = d /\ 0 \in 0..m
    BY <1>0, AtNode
  <2> QED BY <1>0, <1>2, <2>1 DEF IsList
<1>6. ASSUME NEW i \in 1..n, i - 1 \in S PROVE i \in S
  <2>1. at[i-1] = At(d, s, i) /\ i \in 0..n
    BY <1>0, <1>6
  <2>2. CASE i \in 1..m
    <3>1. At(d, s, i) \notin {d, Poison} /\ nx[At(d, s, i)] = At(d, s, i + 1)
      BY <1>0, <2>2, AtNode DEF IsList
    <3> QED BY <1>2, <2>1, <3>1, Zenon
  <2>3. CASE i \notin 1..m
    <3>1. At(d, s, i) = d /\ At(d, s, i + 1) = d
      BY <1>0, <2>3, AtNode
    <3> QED BY <1>2, <2>1, <3>1, Zenon
  <2> QED BY <2>2, <2>3, Zenon
<1>7. \A i \in 0..n : at[i] = At(d, s, i + 1)
  <2>1. 0..n \subseteq S
    <3> HIDE DEF S
    <3> QED BY <1>0, <1>5, <1>6, Induct, Zenon
  <2> QED BY <2>1, Zenon
<1>8. \A i \in 0..n : at[i] # d <=> i < m
  <2> SUFFICES ASSUME NEW i \in 0..n PROVE at[i] # d <=> i < m
    BY Zenon
  <2>1. i + 1 \in 1..m <=> i < m
    BY <1>0
  <2>2. (i + 1 \in 1..m => At(d, s, i + 1) # d) /\ (i + 1 \notin 1..m => At(d, s, i + 1) = d)
    BY AtNode, Zenon
  <2> QED BY <1>7, <2>1, <2>2, Zenon
<1>9. {i \in DOMAIN at : at[i] # d} = 0..(m-1)
  BY <1>0, <1>1, <1>2, <1>8
<1>10. Cardinality(0..(m-1)) = m
  <2>1. 0 \in Int /\ m - 1 \in Int
    BY <1>0
  <2>2. Cardinality(0..(m-1)) = IF 0 > m - 1 THEN 0 ELSE m - 1 - 0 + 1
    BY <2>1, FS_Interval, Zenon
  <2> QED BY <1>0, <2>2
<1>11. Walk(d, nx) = [i \in 1..m |-> at[i-1][1]]
  BY <1>4, <1>9, <1>10, Zenon
<1>12. \A i \in 1..m : at[i-1][1] = s[i]
  <2> SUFFICES ASSUME NEW i \in 1..m PROVE at[i-1][1] = s[i]
    BY Zenon
  <2>1. i - 1 \in 0..n /\ i - 1 + 1 = i
    BY <1>0, <1>1
  <2>2. at[i-1] = At(d, s, i)
    BY <1>7, <2>1, Zenon
  <2> QED BY <2>2, AtNode
<1>13. Walk(d, nx) = s
  <2>1. s = [i \in 1..m |-> s[i]]
    OBVIOUS
  <2> HIDE DEF m
  <2> QED BY <1>11, <1>12, <2>1, Zenon
<1>14. at[n] = d
  BY <1>0, <1>1, <1>8
<1> QED BY <1>3, <1>13, <1>14, Zenon
=============================================================================
