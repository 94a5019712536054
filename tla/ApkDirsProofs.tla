---------------------------- MODULE ApkDirsProofs ----------------------------
(* Proofs about ApkDirs for any packages, any tree of directories and any     *)
(* number of runs, edits and failures.                                        *)
EXTENDS ApkDirs, FiniteSetTheorems, TLAPS

------------------------------------------------------------------------------
(* The tree of directories.                                                   *)

Closed(S) == \A y \in S \ {Root} : Parent[y] \in S

\* Up[d] is the least closed set with d.
LEMMA UpLeast ==
  ASSUME NEW d \in Dir
  PROVE  /\ Up[d] \subseteq Dir /\ d \in Up[d] /\ Root \in Up[d]
         /\ \A y \in Up[d] \ {Root} : Parent[y] \in Up[d]
         /\ \A S \in SUBSET Dir : d \in S /\ Closed(S) => Up[d] \subseteq S
<1>1. Up[d] = {x \in Dir : \A S \in SUBSET Dir :
                 d \in S /\ (\A y \in S \ {Root} : Parent[y] \in S) => x \in S}
  BY Zenon DEF Up
<1>2. Up[d] \subseteq Dir /\ d \in Up[d] /\ Root \in Up[d]
  BY <1>1, ConstantsAssumption
<1>3. \A y \in Up[d] \ {Root} : Parent[y] \in Up[d]
  BY <1>1, ConstantsAssumption
<1>4. \A S \in SUBSET Dir : d \in S /\ Closed(S) => Up[d] \subseteq S
  BY <1>1, Zenon DEF Closed
<1> QED BY <1>2, <1>3, <1>4, Zenon

\* The directories above one that is above d are above d.
LEMMA UpTrans ==
  ASSUME NEW d \in Dir, NEW x \in Up[d]
  PROVE  Up[x] \subseteq Up[d]
<1>1. Up[d] \in SUBSET Dir /\ Closed(Up[d]) /\ x \in Dir
  BY UpLeast, Zenon DEF Closed
<1> QED BY <1>1, UpLeast, Zenon

\* Nothing is above the root.
LEMMA UpRoot == Up[Root] = {Root}
<1>1. {Root} \in SUBSET Dir /\ Closed({Root}) /\ Root \in Dir
  BY ConstantsAssumption DEF Closed
<1> QED BY <1>1, UpLeast

\* Above d is what is above its parent.
LEMMA UpParent ==
  ASSUME NEW d \in Dir \ {Root}
  PROVE  Parent[d] \in Dir /\ Up[d] = {d} \cup Up[Parent[d]]
<1>1. Parent[d] \in Dir /\ Parent[d] \in Up[d]
  BY UpLeast, ConstantsAssumption, Zenon
<1>2. {d} \cup Up[Parent[d]] \in SUBSET Dir /\ Closed({d} \cup Up[Parent[d]])
  BY <1>1, UpLeast, Zenon DEF Closed
<1>3. Up[d] \subseteq {d} \cup Up[Parent[d]]
  BY <1>2, UpLeast, Zenon
<1>4. {d} \cup Up[Parent[d]] \subseteq Up[d]
  BY <1>1, UpTrans, UpLeast, Zenon
<1> QED BY <1>1, <1>3, <1>4, Zenon

\* No directory is above its parent: the root is above all.
LEMMA Acyclic ==
  ASSUME NEW d \in Dir \ {Root}
  PROVE  d \notin Up[Parent[d]]
<1> SUFFICES ASSUME d \in Up[Parent[d]] PROVE FALSE
  BY Zenon
<1> DEFINE S == {z \in Up[d] : d \in Up[z]}
<1>1. S \in SUBSET Dir /\ d \in S
  BY UpLeast, Zenon
<1>2. ASSUME NEW z \in S \ {Root} PROVE Parent[z] \in S
  BY UpLeast, UpParent, <1>1
<1>3. Closed(S)
  BY <1>2, Zenon DEF Closed
<1> HIDE DEF S
<1>4. Root \in S
  BY <1>1, <1>3, UpLeast, Zenon
<1> QED BY <1>4, UpRoot, Zenon DEF S

\* Two directories are not above each other.
LEMMA UpAntisymmetric ==
  ASSUME NEW x \in Dir, NEW z \in Dir, x \in Up[z], z \in Up[x]
  PROVE  x = z
<1>1. CASE z = Root
  BY <1>1, UpRoot, Zenon
<1>2. CASE z # Root /\ x # z
  <2>1. Parent[z] \in Dir /\ x \in Up[Parent[z]]
    BY <1>2, UpParent, Zenon
  <2> QED BY <1>2, <2>1, UpTrans, Acyclic, Zenon
<1> QED BY <1>1, <1>2, Zenon

\* The directories above d are a chain.
LEMMA UpChain ==
  ASSUME NEW d \in Dir, NEW y \in Up[d], NEW z \in Up[d]
  PROVE  y \in Up[z] \/ z \in Up[y]
<1> DEFINE S == {x \in Up[d] : y \in Up[x] \/ x \in Up[y]}
<1>1. S \in SUBSET Dir /\ d \in S /\ y \in Dir
  BY UpLeast, Zenon
<1>2. ASSUME NEW x \in S \ {Root} PROVE Parent[x] \in S
  <2>1. x \in Up[d] /\ x \in Dir \ {Root} /\ Parent[x] \in Up[d]
    BY <1>1, UpLeast, Zenon
  <2>2. CASE x \in Up[y]
    BY <1>1, <2>1, <2>2, UpLeast, Zenon
  <2>3. CASE y \in Up[x]
    BY <1>1, <2>1, <2>3, UpParent, UpLeast
  <2> QED BY <2>2, <2>3, Zenon
<1>3. Closed(S)
  BY <1>2, Zenon DEF Closed
<1> HIDE DEF S
<1>4. z \in S
  BY <1>1, <1>3, UpLeast, Zenon
<1> QED BY <1>4, Zenon DEF S

\* The path from d up to the root: how it begins, goes on and never forks.
LEMMA UpPath ==
  ASSUME NEW d \in Dir
  PROVE  /\ Between(d, d) = {d}
         /\ \A x \in Up[d] : x # d => \E y \in Up[d] \ {Root} : Parent[y] = x
         /\ \A y, z \in Up[d] \ {Root} : Parent[y] = Parent[z] => y = z
         /\ \A y \in Up[d] \ {Root} : Parent[y] # d
         /\ \A y \in Up[d] \ {Root} : Between(d, Parent[y]) = Between(d, y) \cup {Parent[y]}
         /\ \A x \in Up[d] : x \in Between(d, x) /\ d \in Between(d, x)
<1>1. Between(d, d) = {d}
  BY UpLeast, UpAntisymmetric DEF Between
<1>2. ASSUME NEW x \in Up[d], x # d PROVE \E y \in Up[d] \ {Root} : Parent[y] = x
  <2> SUFFICES ASSUME \A y \in Up[d] \ {Root} : Parent[y] # x PROVE FALSE
    BY Zenon
  <2>1. Up[d] \ {x} \in SUBSET Dir /\ d \in Up[d] \ {x} /\ Closed(Up[d] \ {x})
    BY <1>2, UpLeast, Zenon DEF Closed
  <2> QED BY <2>1, UpLeast, Zenon
<1>3. ASSUME NEW y \in Up[d] \ {Root}, NEW z \in Up[d] \ {Root}, Parent[y] = Parent[z] PROVE y = z
  <2>1. y \in Dir \ {Root} /\ z \in Dir \ {Root}
    BY UpLeast, Zenon
  <2>2. y \notin Up[Parent[y]] /\ z \notin Up[Parent[y]]
    BY <1>3, <2>1, Acyclic, Zenon
  <2> QED BY <1>3, <2>1, <2>2, UpChain, UpParent
<1>4. ASSUME NEW y \in Up[d] \ {Root} PROVE Parent[y] # d
  BY Acyclic, UpLeast, Zenon
<1>5. ASSUME NEW y \in Up[d] \ {Root}
      PROVE  Between(d, Parent[y]) = Between(d, y) \cup {Parent[y]}
  <2>1. y \in Dir \ {Root} /\ Parent[y] \in Dir /\ Up[y] = {y} \cup Up[Parent[y]] /\ Parent[y] \in Up[d]
    BY UpLeast, UpParent, Zenon
  <2>2. Between(d, y) \cup {Parent[y]} \subseteq Between(d, Parent[y])
    <3>1. \A z \in Up[d] : y \in Up[z] => Parent[y] \in Up[z]
      BY UpLeast, Zenon
    <3> QED BY <2>1, <3>1, UpLeast, Zenon DEF Between
  <2>3. ASSUME NEW z \in Up[d], Parent[y] \in Up[z] PROVE y \in Up[z] \/ z = Parent[y]
    <3>1. z \in Dir /\ (y \in Up[z] \/ z \in Up[y]) /\ y \in Up[y]
      BY <2>1, UpChain, UpLeast, Zenon
    <3> QED BY <2>1, <2>3, <3>1, UpAntisymmetric, Zenon
  <2>4. Between(d, Parent[y]) \subseteq Between(d, y) \cup {Parent[y]}
    BY <2>3, Zenon DEF Between
  <2> QED BY <2>2, <2>4, Zenon
<1>6. \A x \in Up[d] : x \in Between(d, x) /\ d \in Between(d, x)
  BY UpLeast, Zenon DEF Between
<1> QED BY <1>1, <1>2, <1>3, <1>4, <1>5, <1>6, Zenon

------------------------------------------------------------------------------
(* Reference counts.                                                          *)

Exact ==
  \A d \in Dir : refs[d] = Cardinality(Holders(d)) + Cardinality({c \in Children(d) : refs[c] > 0})

\* Counts are of finite sets, and a count of zero means that nobody has the directory.
LEMMA ExactCounts ==
  ASSUME pkgs \subseteq Pkg, Exact, NEW d \in Dir
  PROVE  /\ IsFiniteSet(Holders(d)) /\ Cardinality(Holders(d)) \in Nat
         /\ IsFiniteSet({c \in Children(d) : refs[c] > 0})
         /\ Cardinality({c \in Children(d) : refs[c] > 0}) \in Nat
         /\ refs[d] \in Nat
         /\ Holders(d) # {} => refs[d] > 0
<1>1. Holders(d) \in SUBSET Pkg
  BY Zenon DEF Holders
<1>2. IsFiniteSet(Holders(d))
  BY <1>1, FS_Subset, ConstantsAssumption
<1>3. {c \in Children(d) : refs[c] > 0} \in SUBSET Dir
  BY Zenon DEF Children
<1>4. IsFiniteSet({c \in Children(d) : refs[c] > 0})
  BY <1>3, FS_Subset, ConstantsAssumption
<1>5. Cardinality(Holders(d)) \in Nat /\ Cardinality({c \in Children(d) : refs[c] > 0}) \in Nat
  BY <1>2, <1>4, FS_CardinalityType, Zenon
<1>6. Holders(d) # {} => Cardinality(Holders(d)) # 0
  BY <1>2, FS_EmptySet, Zenon
<1> QED BY <1>2, <1>4, <1>5, <1>6 DEF Exact

\* apk_db_dir_get: one reference more, and those of the directories it brings to life.
LEMMA RefUp ==
  ASSUME pkgs \subseteq Pkg, refs \in [Dir -> Int], Exact,
         NEW d \in Dir, NEW p \in Pkg, p \notin Holders(d),
         Holders(d)' = Holders(d) \cup {p},
         \A x \in Dir \ {d} : Holders(x)' = Holders(x),
         refs' = [x \in Dir |-> IF x \in Referring(d) THEN refs[x] + 1 ELSE refs[x]]
  PROVE  Exact'
<1>1. \A x \in Dir : refs[x] \in Nat
  BY ExactCounts, Zenon
<1>2. /\ Revived(d) \subseteq Up[d] /\ Up[d] \subseteq Dir
      /\ \A x \in Revived(d) : refs[x] = 0
  BY UpPath, UpLeast, Zenon DEF Revived
<1>3. ASSUME NEW y \in Up[d] \ {Root}
      PROVE  Parent[y] \in Revived(d) <=> y \in Revived(d) /\ refs[Parent[y]] = 0
  BY UpPath, UpLeast DEF Revived
<1>4. ASSUME NEW c \in Dir PROVE c \in Revived(d) <=> c \in Referring(d) /\ refs[c] = 0
  <2>1. CASE c = d
    BY <2>1, UpPath, UpLeast DEF Revived, Referring
  <2>2. CASE c # d /\ c \in Revived(d)
    <3>1. PICK y \in Up[d] \ {Root} : Parent[y] = c
      BY <1>2, <2>2, UpPath, Zenon
    <3> QED BY <1>2, <1>3, <2>2, <3>1, Zenon DEF Referring
  <2>3. CASE c # d /\ c \in Referring(d) /\ refs[c] = 0
    BY <1>2, <1>3, <2>3 DEF Referring
  <2> QED BY <2>1, <2>2, <2>3, Zenon
<1>5. \A c \in Dir : refs'[c] > 0 <=> refs[c] > 0 \/ c \in Revived(d)
  BY <1>1, <1>4
<1> SUFFICES ASSUME NEW x \in Dir
             PROVE  refs'[x] = Cardinality(Holders(x)') + Cardinality({c \in Children(x) : refs'[c] > 0})
  BY Zenon DEF Exact, Children
<1> DEFINE A == {c \in Children(x) : refs[c] > 0}
           B == {c \in Children(x) : refs'[c] > 0}
<1>6. IsFiniteSet(A) /\ Cardinality(A) \in Nat /\ IsFiniteSet(Holders(x))
      /\ Cardinality(Holders(x)) \in Nat /\ refs[x] = Cardinality(Holders(x)) + Cardinality(A)
  BY ExactCounts, Zenon DEF Exact
<1>7. B = A \cup {c \in Children(x) : c \in Revived(d)}
  BY <1>5, Zenon DEF Children
<1>8. \A c \in A : c \notin Revived(d)
  BY <1>2
<1> HIDE DEF A, B
<1> SUFFICES refs'[x] = Cardinality(Holders(x)') + Cardinality(B)
  BY Zenon DEF B
<1>9. CASE x = d
  <2>1. {c \in Children(x) : c \in Revived(d)} = {}
    BY <1>2, <1>9, UpPath, Zenon DEF Children
  <2>2. Cardinality(Holders(x)') = Cardinality(Holders(x)) + 1
    BY <1>6, <1>9, FS_AddElement
  <2>3. refs'[x] = refs[x] + 1 /\ B = A
    BY <1>7, <1>9, <2>1, Zenon DEF Referring
  <2> QED BY <1>6, <2>2, <2>3
<1>10. CASE x # d /\ x \in Referring(d)
  <2>1. PICK r \in Revived(d) \ {Root} : Parent[r] = x
    BY <1>10, Zenon DEF Referring
  <2>2. {c \in Children(x) : c \in Revived(d)} = {r}
    BY <1>2, <2>1, UpPath DEF Children
  <2>3. Cardinality(B) = Cardinality(A) + 1
    <3>1. B = A \cup {r} /\ r \notin A
      BY <1>7, <1>8, <2>1, <2>2, Zenon
    <3>2. Cardinality(A \cup {r}) = IF r \in A THEN Cardinality(A) ELSE Cardinality(A) + 1
      BY <1>6, FS_AddElement, Zenon
    <3> QED BY <3>1, <3>2, Zenon
  <2>4. refs'[x] = refs[x] + 1 /\ Holders(x)' = Holders(x)
    BY <1>10, Zenon
  <2> QED BY <1>6, <2>3, <2>4
<1>11. CASE x # d /\ x \notin Referring(d)
  <2>1. {c \in Children(x) : c \in Revived(d)} = {}
    BY <1>11, Zenon DEF Children, Referring
  <2> QED BY <1>6, <1>7, <1>11, <2>1, Zenon
<1> QED BY <1>9, <1>10, <1>11, Zenon

\* apk_db_dir_unref: one reference less, and those of the directories that go with it.
LEMMA RefDown ==
  ASSUME pkgs \subseteq Pkg, refs \in [Dir -> Int], Exact,
         NEW d \in Dir, NEW p \in Holders(d),
         Holders(d)' = Holders(d) \ {p},
         \A x \in Dir \ {d} : Holders(x)' = Holders(x),
         refs' = [x \in Dir |-> IF x \in Dropped(d) THEN refs[x] - 1 ELSE refs[x]]
  PROVE  Exact'
<1>1. \A x \in Dir : refs[x] \in Nat
  BY ExactCounts, Zenon
<1>2. /\ Released(d) \subseteq Up[d] /\ Up[d] \subseteq Dir
      /\ \A x \in Released(d) : refs[x] = 1
  BY UpPath, UpLeast, Zenon DEF Released
<1>3. ASSUME NEW y \in Up[d] \ {Root}
      PROVE  Parent[y] \in Released(d) <=> y \in Released(d) /\ refs[Parent[y]] = 1
  BY UpPath, UpLeast DEF Released
<1>4. ASSUME NEW c \in Dir PROVE c \in Released(d) <=> c \in Dropped(d) /\ refs[c] = 1
  <2>1. CASE c = d
    BY <2>1, UpPath, UpLeast DEF Released, Dropped
  <2>2. CASE c # d /\ c \in Released(d)
    <3>1. PICK y \in Up[d] \ {Root} : Parent[y] = c
      BY <1>2, <2>2, UpPath, Zenon
    <3> QED BY <1>2, <1>3, <2>2, <3>1, Zenon DEF Dropped
  <2>3. CASE c # d /\ c \in Dropped(d) /\ refs[c] = 1
    BY <1>2, <1>3, <2>3 DEF Dropped
  <2> QED BY <2>1, <2>2, <2>3, Zenon
<1>5. \A c \in Dir : refs'[c] > 0 <=> refs[c] > 0 /\ c \notin Released(d)
  BY <1>1, <1>4
<1> SUFFICES ASSUME NEW x \in Dir
             PROVE  refs'[x] = Cardinality(Holders(x)') + Cardinality({c \in Children(x) : refs'[c] > 0})
  BY Zenon DEF Exact, Children
<1> DEFINE A == {c \in Children(x) : refs[c] > 0}
           B == {c \in Children(x) : refs'[c] > 0}
<1>6. IsFiniteSet(A) /\ Cardinality(A) \in Nat /\ IsFiniteSet(Holders(x))
      /\ Cardinality(Holders(x)) \in Nat /\ refs[x] = Cardinality(Holders(x)) + Cardinality(A)
  BY ExactCounts, Zenon DEF Exact
<1>7. B = A \ {c \in Children(x) : c \in Released(d)}
  BY <1>5, Zenon DEF Children
<1>8. {c \in Children(x) : c \in Released(d)} \subseteq A
  BY <1>2 DEF Children
<1> HIDE DEF A, B
<1> SUFFICES refs'[x] = Cardinality(Holders(x)') + Cardinality(B)
  BY Zenon DEF B
<1>9. CASE x = d
  <2>1. {c \in Children(x) : c \in Released(d)} = {}
    BY <1>2, <1>9, UpPath, Zenon DEF Children
  <2>2. Cardinality(Holders(x)') = Cardinality(Holders(x)) - 1
    BY <1>6, <1>9, FS_RemoveElement
  <2>3. refs'[x] = refs[x] - 1 /\ B = A
    BY <1>7, <1>9, <2>1, Zenon DEF Dropped
  <2> QED BY <1>6, <2>2, <2>3
<1>10. CASE x # d /\ x \in Dropped(d)
  <2>1. PICK r \in Released(d) \ {Root} : Parent[r] = x
    BY <1>10, Zenon DEF Dropped
  <2>2. {c \in Children(x) : c \in Released(d)} = {r}
    BY <1>2, <2>1, UpPath DEF Children
  <2>3. Cardinality(B) = Cardinality(A) - 1
    <3>1. B = A \ {r} /\ r \in A
      BY <1>7, <1>8, <2>2, Zenon
    <3>2. Cardinality(A \ {r}) = IF r \in A THEN Cardinality(A) - 1 ELSE Cardinality(A)
      BY <1>6, FS_RemoveElement, Zenon
    <3> QED BY <3>1, <3>2, Zenon
  <2>4. refs'[x] = refs[x] - 1 /\ Holders(x)' = Holders(x)
    BY <1>10, Zenon
  <2> QED BY <1>6, <2>3, <2>4
<1>11. CASE x # d /\ x \notin Dropped(d)
  <2>1. {c \in Children(x) : c \in Released(d)} = {}
    BY <1>11, Zenon DEF Children, Dropped
  <2> QED BY <1>6, <1>7, <1>11, <2>1, Zenon
<1> QED BY <1>9, <1>10, <1>11, Zenon

\* What apk_db_fdb_read counts.
LEMMA RefLoad ==
  ASSUME NEW S \in SUBSET Pkg, Load(S)
  PROVE  Exact' /\ refs' \in [Dir -> Nat]
<1> DEFINE P(d) == {p \in S : d \in DirsOf[p]}
           C(d) == Children(d) \cap Referenced(S)
<1>1. /\ refs' = [d \in Dir |-> Cardinality(P(d)) + Cardinality(C(d))] /\ pkgs' = S /\ pc' = "idle"
      /\ diris' = [p \in Pkg |-> IF p \in S THEN DirsOf[p] ELSE {}]
  BY Zenon DEF Load, RefsOf
<1>2. \A d \in Dir : Holders(d)' = P(d)
  BY <1>1, Zenon DEF Holders
<1>3. \A p \in S : DirsOf[p] \subseteq Dir
  BY ConstantsAssumption
<1>4. ASSUME NEW d \in Dir
      PROVE  /\ Cardinality(P(d)) \in Nat /\ Cardinality(C(d)) \in Nat
             /\ Cardinality(P(d)) = 0 <=> P(d) = {}
             /\ Cardinality(C(d)) = 0 <=> C(d) = {}
  <2>1. P(d) \in SUBSET Pkg /\ C(d) \in SUBSET Dir
    BY Zenon DEF Children
  <2> HIDE DEF P, C
  <2>2. IsFiniteSet(P(d)) /\ IsFiniteSet(C(d))
    BY <2>1, FS_Subset, ConstantsAssumption
  <2> QED BY <2>2, FS_CardinalityType, FS_EmptySet, Zenon
<1>5. ASSUME NEW d \in Dir PROVE refs'[d] > 0 <=> P(d) # {} \/ C(d) # {}
  <2> HIDE DEF P, C
  <2>1. refs'[d] = Cardinality(P(d)) + Cardinality(C(d))
    BY <1>1, Zenon
  <2> QED BY <1>4, <2>1
<1>6. ASSUME NEW d \in Dir PROVE refs'[d] > 0 <=> d \in Referenced(S)
  <2>1. ASSUME NEW p \in P(d) PROVE d \in Referenced(S)
    BY <2>1, UpLeast DEF Referenced
  <2>2. ASSUME NEW c \in C(d) PROVE d \in Referenced(S)
    BY <1>3, <2>2, UpLeast DEF Referenced, Children
  <2>3. ASSUME d \in Referenced(S) PROVE P(d) # {} \/ C(d) # {}
    <3>0. PICK p \in S : \E e \in DirsOf[p] : d \in Up[e]
      BY <2>3, Zenon DEF Referenced
    <3>1. PICK e \in DirsOf[p] : d \in Up[e]
      BY <3>0, Zenon
    <3>2. CASE d # e
      <4>1. PICK y \in Up[e] \ {Root} : Parent[y] = d
        BY <1>3, <3>1, <3>2, UpPath, Zenon
      <4>2. y \in C(d)
        BY <1>3, <3>1, <4>1, UpLeast DEF Referenced, Children
      <4> QED BY <4>2, Zenon
    <3> QED BY <3>1, <3>2, Zenon
  <2> QED BY <1>5, <2>1, <2>2, <2>3, Zenon
<1>7. ASSUME NEW d \in Dir PROVE {c \in Children(d) : refs'[c] > 0} = C(d)
  BY <1>6, Zenon DEF Children
<1>8. Exact'
  <2> HIDE DEF P, C
  <2>1. \A d \in Dir : refs'[d] = Cardinality(Holders(d)') + Cardinality({c \in Children(d) : refs'[c] > 0})
    BY <1>1, <1>2, <1>7, Zenon
  <2> QED BY <2>1, Zenon DEF Exact, Children
<1>9. refs' \in [Dir -> Nat]
  <2> HIDE DEF P, C
  <2>1. \A d \in Dir : Cardinality(P(d)) + Cardinality(C(d)) \in Nat
    BY <1>4
  <2> QED BY <1>1, <2>1, Zenon
<1> QED BY <1>8, <1>9, Zenon

------------------------------------------------------------------------------
(* The invariant.                                                             *)

\* The change at hand, and which packages can have instances.
DirInv ==
  /\ pkgs \subseteq Pkg /\ db \subseteq Pkg
  /\ diris \in [Pkg -> SUBSET Dir] /\ ic \subseteq Dir
  /\ refs \in [Dir -> Int] /\ faults \in Nat
  /\ plan \in Seq(Change) /\ idx \in Nat \ {0}
  /\ \A j \in DOMAIN plan : plan[j].old # None \/ plan[j].new # None
  /\ pc \in {"idle", "next", "unpack", "purge", "cancel", "fix"}
  /\ pc \in {"idle", "fix"} => plan = <<>>
  /\ pc \in {"unpack", "purge", "cancel"} => idx \in DOMAIN plan
  /\ pc = "unpack" => New # None /\ New \in pkgs /\ diris[New] \subseteq ic
  /\ pc = "cancel" => New # None
  /\ pc = "purge" => Old # None
  /\ pc \in {"purge", "cancel"} => todo \subseteq diris[Leaving]
  /\ \A p \in Pkg \ pkgs : diris[p] = {}

RefInv == DirInv /\ (RelinkFailed \/ Exact)

\* The packages of the change at hand.
LEMMA AtHand ==
  ASSUME DirInv, idx \in DOMAIN plan
  PROVE  Old \in Pkg \cup {None} /\ New \in Pkg \cup {None} /\ (Old # None \/ New # None)
<1>1. plan[idx] \in Change
  BY DEF DirInv
<1> QED BY <1>1, Zenon DEF Change, Old, New, DirInv

\* A step that changes neither the counts nor who has a directory.
LEMMA SameCounts ==
  ASSUME RefInv, refs' = refs, \A d \in Dir : Holders(d)' = Holders(d),
         ~RelinkFailed' => ~RelinkFailed
  PROVE  RelinkFailed' \/ Exact'
BY Zenon DEF RefInv, Exact, Children

\* A new process that has read a database.
LEMMA LoadInv ==
  ASSUME NEW S \in SUBSET Pkg, Load(S), db' \subseteq Pkg, faults' \in Nat
  PROVE  RefInv'
<1>1. /\ pkgs' = S /\ diris' = [p \in Pkg |-> IF p \in S THEN DirsOf[p] ELSE {}] /\ ic' = {}
      /\ plan' = <<>> /\ idx' = 1 /\ pc' = "idle"
  BY Zenon DEF Load
<1>2. Exact' /\ refs' \in [Dir -> Nat]
  BY RefLoad, Zenon
<1>3. diris' \in [Pkg -> SUBSET Dir]
  BY <1>1, ConstantsAssumption
<1>4. plan' \in Seq(Change) /\ DOMAIN plan' = {}
  BY <1>1
<1>5. DirInv'
  BY <1>1, <1>2, <1>3, <1>4 DEF DirInv
<1> QED BY <1>2, <1>5, Zenon DEF RefInv

\* A changeset is a sequence of changes of something.
LEMMA ChangesetOk ==
  ASSUME pkgs \subseteq Pkg, NEW s \in Changesets
  PROVE  s \in Seq(Change) /\ \A j \in DOMAIN s : s[j].old # None \/ s[j].new # None
<1>1. PICK n \in 1..MaxChanges : s \in [1..n -> Changes(pkgs)]
  BY Zenon DEF Changesets
<1>2. Changes(pkgs) \subseteq Change /\ n \in Nat
  BY ConstantsAssumption DEF Changes
<1>3. s \in Seq(Change)
  BY <1>1, <1>2
<1> QED BY <1>1, <1>3, Zenon DEF Changes

\* A changeset is begun.
LEMMA CommitStep == ASSUME RefInv, Commit PROVE RefInv'
<1>1. /\ pc = "idle" /\ pc' = "next" /\ idx' = 1 /\ plan' \in Changesets
      /\ UNCHANGED <<pkgs, db, diris, ic, refs, faults, todo>>
  BY Zenon DEF Commit, dirvars
<1>2. plan' \in Seq(Change) /\ \A j \in DOMAIN plan' : plan'[j].old # None \/ plan'[j].new # None
  BY <1>1, ChangesetOk, Zenon DEF RefInv, DirInv
<1>3. DirInv'
  BY <1>1, <1>2 DEF RefInv, DirInv
<1>4. ~RelinkFailed
  BY <1>1 DEF RefInv, DirInv, RelinkFailed, Relinks
<1>5. \A d \in Dir : Holders(d)' = Holders(d)
  BY <1>1, Zenon DEF Holders
<1> QED BY <1>1, <1>3, <1>4, <1>5, SameCounts, Zenon DEF RefInv

\* A change is begun: the ipkg of the new package is made.
LEMMA StartStep == ASSUME RefInv, StartChange PROVE RefInv'
<1>1. /\ pc = "next" /\ idx \in DOMAIN plan
      /\ UNCHANGED <<db, diris, refs, faults, plan, idx>>
  BY DEF StartChange, dirvars, bounds, RefInv, DirInv
<1>2. Old \in Pkg \cup {None} /\ New \in Pkg \cup {None} /\ (Old # None \/ New # None)
  BY <1>1, AtHand, Zenon DEF RefInv
<1>3. Old' = Old /\ New' = New /\ (RelinkFailed' <=> RelinkFailed)
  BY <1>1, Zenon DEF Old, New, RelinkFailed, Relinks
<1>4. CASE New = None
  <2>1. pc' = "purge" /\ todo' = diris[Old] /\ UNCHANGED <<pkgs, ic>> /\ Old \in Pkg
    BY <1>2, <1>4, Zenon DEF StartChange
  <2>2. DirInv'
    BY <1>1, <1>2, <1>3, <2>1, ConstantsAssumption DEF RefInv, DirInv, Leaving
  <2>3. \A d \in Dir : Holders(d)' = Holders(d)
    BY <1>1, <1>3, <2>1, Zenon DEF Holders
  <2> QED BY <1>1, <1>3, <2>2, <2>3, SameCounts, Zenon DEF RefInv
<1>5. CASE New # None
  <2>1. pc' = "unpack" /\ pkgs' = pkgs \cup {New} /\ ic' = diris[New] /\ New \in Pkg
    BY <1>2, <1>5, Zenon DEF StartChange
  <2>2. DirInv'
    BY <1>1, <1>3, <1>5, <2>1, Zenon DEF RefInv, DirInv
  <2>3. \A d \in Dir : Holders(d)' = Holders(d)
    BY <1>1, <1>3, <2>1, Zenon DEF Holders, RefInv, DirInv
  <2> QED BY <1>1, <1>3, <2>2, <2>3, SameCounts DEF RefInv
<1> QED BY <1>4, <1>5, Zenon

\* apk_db_install_file takes a reference for the new instance.
LEMMA InstallStep == ASSUME RefInv, NEW d \in Dir \ {Root}, InstallDir(d) PROVE RefInv'
<1>1. /\ pc = "unpack" /\ ic' = ic \cup {d} /\ todo' = todo \ {d}
      /\ refs' = IF d \notin ic
                 THEN [x \in Dir |-> IF x \in Referring(d) THEN refs[x] + 1 ELSE refs[x]] ELSE refs
      /\ UNCHANGED <<db, pkgs, diris, plan, idx, pc, faults>>
  BY Zenon DEF InstallDir, bounds
<1>2. Old' = Old /\ New' = New /\ (RelinkFailed' <=> RelinkFailed) /\ New \in pkgs /\ New \in Pkg
  BY <1>1, Zenon DEF Old, New, RelinkFailed, Relinks, RefInv, DirInv
<1>3. refs' \in [Dir -> Int]
  BY <1>1 DEF RefInv, DirInv
<1>4. DirInv'
  BY <1>1, <1>2, <1>3, Zenon DEF RefInv, DirInv
<1>5. \A x \in Dir \ {d} : Holders(x)' = Holders(x)
  BY <1>1, <1>2, Zenon DEF Holders
<1>6. CASE d \in ic
  <2>1. Holders(d)' = Holders(d)
    BY <1>1, <1>2, <1>6, Zenon DEF Holders
  <2> QED BY <1>1, <1>2, <1>4, <1>5, <1>6, <2>1, SameCounts, Zenon DEF RefInv
<1>7. CASE d \notin ic
  <2>1. Holders(d)' = Holders(d) \cup {New} /\ New \notin Holders(d)
    BY <1>1, <1>2, <1>7, Zenon DEF Holders, RefInv, DirInv
  <2>2. Exact => Exact'
    BY <1>1, <1>2, <1>5, <1>7, <2>1, RefUp, Zenon DEF RefInv, DirInv
  <2> QED BY <1>2, <1>4, <2>2, Zenon DEF RefInv
<1> QED BY <1>6, <1>7, Zenon

\* The archive is read.
LEMMA UnpackDoneStep == ASSUME RefInv, UnpackDone PROVE RefInv'
<1>1. /\ pc = "unpack" /\ diris' = [diris EXCEPT ![New] = ic] /\ ic' = {}
      /\ UNCHANGED <<db, pkgs, refs, plan, faults>>
  BY Zenon DEF UnpackDone, bounds
<1>2. /\ idx \in DOMAIN plan /\ New \in pkgs /\ New \in Pkg /\ diris[New] \subseteq ic /\ ic \subseteq Dir
      /\ Old \in Pkg \cup {None} /\ (RelinkFailed' <=> RelinkFailed)
  BY <1>1, AtHand, Zenon DEF RelinkFailed, Relinks, RefInv, DirInv
<1>3. diris'[New] = ic /\ \A p \in Pkg \ {New} : diris'[p] = diris[p]
  BY <1>1, <1>2, Zenon DEF RefInv, DirInv
<1>4. diris' \in [Pkg -> SUBSET Dir]
  BY <1>1, <1>2, Zenon DEF RefInv, DirInv
<1>5. CASE Old # None /\ Old # New
  <2>1. pc' = "purge" /\ todo' = diris[Old] /\ idx' = idx
    BY <1>5, Zenon DEF UnpackDone
  <2>2. Old' = Old /\ New' = New
    BY <1>1, <2>1, Zenon DEF Old, New
  <2>3. DirInv'
    BY <1>1, <1>2, <1>3, <1>4, <1>5, <2>1, <2>2, Zenon DEF RefInv, DirInv, Leaving
  <2>4. \A d \in Dir : Holders(d)' = Holders(d)
    BY <1>1, <1>2, <1>3, <1>5, <2>1, <2>2 DEF Holders, RefInv, DirInv
  <2> QED BY <1>1, <1>2, <2>3, <2>4, SameCounts, Zenon DEF RefInv
<1>6. CASE ~(Old # None /\ Old # New)
  <2>1. pc' = "next" /\ idx' = idx + 1
    BY <1>6, Zenon DEF UnpackDone
  <2>2. DirInv'
    BY <1>1, <1>2, <1>3, <1>4, <2>1 DEF RefInv, DirInv
  <2>3. \A d \in Dir : Holders(d)' = Holders(d)
    BY <1>1, <1>2, <1>3, <2>1, Zenon DEF Holders, RefInv, DirInv
  <2> QED BY <1>1, <1>2, <2>2, <2>3, SameCounts DEF RefInv
<1> QED BY <1>5, <1>6, Zenon

\* The archive fails: its instances are linked, to be purged.
LEMMA UnpackErrorStep == ASSUME RefInv, UnpackError PROVE RefInv'
<1>1. /\ pc = "unpack" /\ ic' = {} /\ faults' = faults + 1 /\ UNCHANGED <<db, refs, plan>>
  BY Zenon DEF UnpackError
<1>2. /\ idx \in DOMAIN plan /\ New \in pkgs /\ New \in Pkg /\ diris[New] \subseteq ic /\ ic \subseteq Dir
      /\ New # None /\ faults' \in Nat /\ faults' > 0
  BY <1>1 DEF RefInv, DirInv
<1>3. CASE Old # New
  <2>1. /\ diris' = [diris EXCEPT ![New] = ic] /\ todo' = ic /\ pc' = "cancel"
        /\ UNCHANGED <<pkgs, idx>>
    BY <1>3, Zenon DEF UnpackError
  <2>2. Old' = Old /\ New' = New
    BY <1>1, <2>1, Zenon DEF Old, New
  <2>3. diris'[New] = ic /\ (\A p \in Pkg \ {New} : diris'[p] = diris[p]) /\ diris' \in [Pkg -> SUBSET Dir]
    BY <1>2, <2>1, Zenon DEF RefInv, DirInv
  <2>4. DirInv'
    BY <1>1, <1>2, <2>1, <2>2, <2>3, Zenon DEF RefInv, DirInv, Leaving
  <2>5. \A d \in Dir : Holders(d)' = Holders(d)
    BY <1>1, <1>2, <1>3, <2>1, <2>2, <2>3, Zenon DEF Holders, RefInv, DirInv
  <2>6. ~RelinkFailed' => ~RelinkFailed
    BY <1>1, <1>2, Zenon DEF RelinkFailed, Relinks
  <2> QED BY <1>1, <2>4, <2>5, <2>6, SameCounts, Zenon DEF RefInv
<1>4. CASE Old = New
  <2>1. /\ diris' = [diris EXCEPT ![New] = {}] /\ pkgs' = pkgs \ {New} /\ pc' = "next" /\ idx' = idx + 1
    BY <1>4, Zenon DEF UnpackError
  <2>2. diris'[New] = {} /\ (\A p \in Pkg \ {New} : diris'[p] = diris[p]) /\ diris' \in [Pkg -> SUBSET Dir]
    BY <1>2, <2>1, Zenon DEF RefInv, DirInv
  <2>3. DirInv'
    BY <1>1, <1>2, <2>1, <2>2 DEF RefInv, DirInv
  <2>4. RelinkFailed'
    BY <1>1, <1>2, <1>4, Zenon DEF RelinkFailed, Relinks, Old, New
  <2> QED BY <2>3, <2>4, Zenon DEF RefInv
<1> QED BY <1>3, <1>4, Zenon

\* apk_db_diri_remove gives the reference of an instance back.
LEMMA RemoveStep == ASSUME RefInv, NEW d \in Dir, DiriRemove(d) PROVE RefInv'
<1>1. /\ pc \in {"purge", "cancel"} /\ d \in todo /\ todo' = todo \ {d}
      /\ refs' = [x \in Dir |-> IF x \in Dropped(d) THEN refs[x] - 1 ELSE refs[x]]
      /\ UNCHANGED <<db, pkgs, diris, ic, plan, idx, pc, faults>>
  BY Zenon DEF DiriRemove, bounds
<1>2. /\ Old' = Old /\ New' = New /\ Leaving' = Leaving /\ (RelinkFailed' <=> RelinkFailed)
  BY <1>1, Zenon DEF Old, New, Leaving, RelinkFailed, Relinks
<1>3. Leaving \in Pkg /\ d \in diris[Leaving] /\ Leaving \in pkgs
  <2>1. Leaving \in Pkg
    BY <1>1, AtHand, Zenon DEF Leaving, RefInv, DirInv
  <2> QED BY <1>1, <2>1, Zenon DEF RefInv, DirInv
<1>4. refs' \in [Dir -> Int]
  BY <1>1 DEF RefInv, DirInv
<1>5. DirInv'
  BY <1>1, <1>2, <1>4, Zenon DEF RefInv, DirInv
<1>6. \A x \in Dir \ {d} : Holders(x)' = Holders(x)
  BY <1>1, <1>2, Zenon DEF Holders
<1>7. Leaving \in Holders(d) /\ Holders(d)' = Holders(d) \ {Leaving}
  BY <1>1, <1>2, <1>3, Zenon DEF Holders, Leaving
<1>8. Exact => Exact'
  BY <1>1, <1>6, <1>7, RefDown, Zenon DEF RefInv, DirInv
<1> QED BY <1>2, <1>5, <1>8, Zenon DEF RefInv

\* The package is gone when its last instance is.
LEMMA PurgeDoneStep == ASSUME RefInv, PurgeDone PROVE RefInv'
<1>1. /\ pc \in {"purge", "cancel"} /\ todo = {} /\ diris' = [diris EXCEPT ![Leaving] = {}]
      /\ pkgs' = pkgs \ {Leaving} /\ pc' = "next" /\ idx' = idx + 1
      /\ UNCHANGED <<db, ic, refs, plan, faults>>
  BY Zenon DEF PurgeDone, dirvars, bounds
<1>2. Leaving \in Pkg /\ (RelinkFailed' <=> RelinkFailed)
  BY <1>1, AtHand, Zenon DEF Leaving, RefInv, DirInv, RelinkFailed, Relinks
<1>3. /\ diris'[Leaving] = {} /\ \A p \in Pkg \ {Leaving} : diris'[p] = diris[p]
      /\ diris' \in [Pkg -> SUBSET Dir]
  BY <1>1, <1>2, Zenon DEF RefInv, DirInv
<1>4. DirInv'
  BY <1>1, <1>2, <1>3 DEF RefInv, DirInv
<1>5. \A d \in Dir : Holders(d)' = Holders(d)
  BY <1>1, <1>2, <1>3, Zenon DEF Holders, Leaving, RefInv, DirInv
<1> QED BY <1>1, <1>2, <1>4, <1>5, SameCounts, Zenon DEF RefInv

\* The steps that leave the records alone.
LEMMA OtherStep ==
  ASSUME RefInv, UNCHANGED <<db, pkgs, diris, ic, refs, plan, idx, faults>>,
         \/ pc' = pc /\ todo' = todo
         \/ pc \in {"idle", "fix"} /\ pc' \in {"idle", "fix", "next"}
              /\ (pc' \in {"idle", "fix"} => plan = <<>>)
  PROVE  RefInv'
<1>1. Old' = Old /\ New' = New /\ (RelinkFailed' <=> RelinkFailed)
  BY Zenon DEF Old, New, RelinkFailed, Relinks
<1>2. DirInv'
  BY <1>1, Zenon DEF RefInv, DirInv, Leaving
<1>3. \A d \in Dir : Holders(d)' = Holders(d)
  BY <1>1, Zenon DEF Holders
<1> QED BY <1>1, <1>2, <1>3, SameCounts, Zenon DEF RefInv

\* Every step keeps the counts.
LEMMA RefStep == ASSUME RefInv, [Next]_vars PROVE RefInv'
<1>1. CASE Segv \/ WriteConfig
  <2>1. \E S \in SUBSET Pkg : Load(S) /\ db' \subseteq Pkg /\ faults' = faults
    BY <1>1, Zenon DEF Segv, WriteConfig, RefInv, DirInv, bounds
  <2> QED BY <2>1, LoadInv, Zenon DEF RefInv, DirInv
<1>2. CASE Admin
  BY <1>2, OtherStep, Zenon DEF Admin, Chmod, Put, Rmdir, dirvars
<1>3. CASE StartFix \/ FixDone \/ \E d \in Dir : FixDir(d)
  BY <1>3, OtherStep, Zenon DEF StartFix, FixDone, FixDir, dirvars, bounds, RefInv, DirInv
<1>4. CASE UNCHANGED vars
  BY <1>4, OtherStep, Zenon DEF vars, dirvars, bounds
<1> QED BY <1>1, <1>2, <1>3, <1>4, CommitStep, StartStep, InstallStep, UnpackDoneStep, UnpackErrorStep,
           RemoveStep, PurgeDoneStep, Zenon DEF Next

\* At first all counts are zero.
LEMMA RefInit == Init => RefInv
<1> SUFFICES ASSUME Init PROVE RefInv
  BY Zenon
<1>1. /\ pkgs = {} /\ db = {} /\ diris = [p \in Pkg |-> {}] /\ ic = {} /\ refs = [d \in Dir |-> 0]
      /\ faults = 0 /\ plan = <<>> /\ idx = 1 /\ pc = "idle" /\ DOMAIN plan = {} /\ plan \in Seq(Change)
  BY DEF Init
<1>2. DirInv
  BY <1>1 DEF DirInv
<1>3. \A d \in Dir : Holders(d) = {} /\ {c \in Children(d) : refs[c] > 0} = {} /\ refs[d] = 0
  BY <1>1 DEF Holders, Children
<1>4. Cardinality({}) = 0
  BY FS_EmptySet, Zenon
<1>5. Exact
  BY <1>3, <1>4 DEF Exact
<1> QED BY <1>2, <1>5, Zenon DEF RefInv

\* Through installations, upgrades, reinstallations, removals, failures and restarts, dir->refs of
\* every directory is the number of packages that have it (apk_db_diri_get, apk_db_diri_remove) and of
\* directories below that are in use (apk_db_dir_get, apk_db_dir_unref), whatever the tree.
THEOREM CountsExact == Spec => []RefsExact
<1>1. RefInv => RefsExact
  BY Zenon DEF RefInv, Exact, RefsExact
<1>2. RefInv /\ [Next]_vars => RefInv'
  BY RefStep, Zenon
<1> QED BY <1>1, <1>2, RefInit, PTL DEF Spec
=============================================================================
